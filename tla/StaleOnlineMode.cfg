SPECIFICATION Spec
CONSTANTS
    T3 = 0
    T6 = 0
    T7 = 0
    T8 = 0
    LinktestInterval = 0
    SystemModulus = 4
    MaxOpen = 1
    AllowHostOnline = TRUE
    HostFrames <- MCHostFrames
    MaxFrames = 1
    MaxConnections = 1
    OperatorModes = {"Offline", "OnlineLocal", "OnlineRemote"}
    MaxBacklog = 3
INVARIANT OnlineModeIsOperators
