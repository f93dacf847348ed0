SPECIFICATION FairSpec
CONSTANTS
    Members = {m1}
    Files = 2
    MaxWrites = 2
    MaxMishaps = 1
INVARIANTS
    TypeOK
    IsolatedFilesConverge
PROPERTIES
    StagedNotForgotten
    FileBacklogDrains
\* All operations done and delivered, nothing is left to do.
CHECK_DEADLOCK FALSE
