SPECIFICATION FairSpec
CONSTANTS
    Docs = {d1, d2}
    Elsewhere = {d2}
    Self = sot
    Remotes = {m1}
    Known = {1, 2}
    Gone = Gone
    Missing = Missing
    Null = Null
    Descending = TRUE
    MaxAttempts = 2
    MaxChanges = 2
    MaxMishaps = 1
INVARIANTS
    TypeOK
    ResultsSorted
    VerifiedResultsAgree
PROPERTIES
    SearchDrains
\* All changes distributed, nothing is left to do.
CHECK_DEADLOCK FALSE
