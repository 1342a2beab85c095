SPECIFICATION FairSpec
CONSTANTS
    MaxConns = 1
    WireCap = 1
    MaxCuts = 0
    QueueSize = 1
    MaxMessages = 0
    MaxStops = 1
    DbFaults = TRUE
    MaxHubCrashes = 1
PROPERTIES StopTerminates
CHECK_DEADLOCK FALSE
