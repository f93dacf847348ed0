SPECIFICATION FairSpec
CONSTANTS
    Buckets = {b1, b2}
    NoBucket = NoBucket
    MaxWrites = 3
    MaxMishaps = 1
INVARIANTS
    TypeOK
    LiveDocumentIsListed
    ListedOnlyThere
PROPERTIES
    QueueDrains
