SPECIFICATION Spec
CONSTANTS
    MaxConns = 2
    WireCap = 1
    MaxCuts = 1
    QueueSize = 1
    MaxMessages = 0
    MaxStops = 0
    DbFaults = FALSE
    MaxHubCrashes = 0
INVARIANTS
    ConnectedIsCounted
CHECK_DEADLOCK FALSE
