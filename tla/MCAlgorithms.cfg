SPECIFICATION InputSpec
CONSTANTS
    StringTexts = {"", "a", "12", "LONG"}
    LongTexts = {"LONG"}
    NumberTexts = {"3132"}
    NumericTexts = {"12"}
    Hex <- MCHex
    Fields = {"a", "b"}
    TextsOf <- MCTextsOf
    AsksOf <- MCAsksOf
    Has <- MCHas
    NumberText <- MCNumberText
    ArrayText <- MCArrayText
    Letters = {"a"}
    OtherChars = {" "}
    NullText <- MCNullText
    Escapes <- MCEscapes
    MaxIdLength = 3
    MaxNameLength = 4
    LastSlot = 2
    KnownServers = {"s1", "s2"}
    ServerNames = {"s1", "s2", ""}
    MaxRanges = 2
INVARIANT QueryFindsExactly
INVARIANT MigrationConforms
INVARIANT FileItemsResolve
INVARIANT ServersFollowTheirSources
\* A behaviour ends with the input it picked.
CHECK_DEADLOCK FALSE
