SPECIFICATION Spec
CONSTANTS
    Clients = {c1, c2}
    MaxIds = 3
    MaxCrashes = 1
    MaxFaults = 0
INVARIANT ConfirmedWriteSurvives
