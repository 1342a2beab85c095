SPECIFICATION FairSpec
CONSTANTS
    MaxConns = 2
    WireCap = 1
    MaxCuts = 0
    QueueSize = 1
    MaxMessages = 0
    MaxStops = 0
    DbFaults = FALSE
    MaxHubCrashes = 0
PROPERTIES
    OfflineSettles
    ServedIsOnline
CHECK_DEADLOCK FALSE
