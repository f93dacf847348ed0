SPECIFICATION FairSpec
CONSTANTS
    Searches = {s1}
    None = None
    Keepers = {"member"}
    MaxVersion = 1
    MaxServers = 1
    MaxGeneral = 2
    MaxFailures = 2
    MaxMishaps = 0
PROPERTY DocumentsMigrate
