SPECIFICATION FairSpec
CONSTANTS
    Clients = {c1, c2}
    MaxIds = 3
    MaxCrashes = 1
    MaxFaults = 1
INVARIANTS
    TypeOK
    NoDoubleClaim
    LastCommitIsLive
    AnswerMatchesEffect
PROPERTIES
    RefinesAtomicDoc
    EveryCommandAnswered
