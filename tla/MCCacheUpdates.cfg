SPECIFICATION FairSpec
CONSTANTS
    Self = sot
    sot = sot
    m1 = m1
    Order <- ServerOrder
    Readers = {r1, r2}
    MaxChanges = 2
    MaxMishaps = 1
INVARIANTS
    TypeOK
    IsolatedCachesCatchUp
PROPERTIES
    PendingUntilApplied
    OnlyReadsCreate
    CacheBacklogDrains
\* All changes distributed, nothing is left to do.
CHECK_DEADLOCK FALSE
