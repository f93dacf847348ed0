SPECIFICATION Spec
CONSTANTS
    Clients = {c1, c2}
    Names = {f1}
    MaxOps = 4
    MaxCrashes = 1
    MaxFaults = 1
SYMMETRY ClientSymmetry
INVARIANTS
    TypeOK
    FilesAgree
    NoFilesWithoutDocument
    DownloadNotOlder
PROPERTIES
    NoLostFileUpdate
\* MaxOps used up, requests for more are not admitted.
CHECK_DEADLOCK FALSE
