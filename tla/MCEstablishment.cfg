SPECIFICATION FairSpec
CONSTANTS
    Searches = {s1}
    None = None
    Keepers = {"est"}
    MaxVersion = 1
    MaxServers = 2
    MaxGeneral = 3
    MaxFailures = 2
    MaxMishaps = 1
INVARIANTS
    TypeOK
    GeneralCountsChanges
    GeneralNotAhead
PROPERTIES
    MemberCatchesUp
    EstablishmentDocumentsMigrate
