SPECIFICATION FairSpec
CONSTANTS
    Members = {m1}
    StaleAfter = 2
    MaxWrites = 3
    MaxMishaps = 1
INVARIANTS
    TypeOK
    IsolatedWritesConverge
PROPERTIES
    BacklogDrains
