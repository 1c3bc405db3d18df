SPECIFICATION Spec
CONSTANTS
    w1 = w1
    w2 = w2
    owner = owner
    Workers <- MCWorkers
    Threads <- MCThreads
    Caller = owner
    Items <- MCJobs
    NoItem = NoItem
    Capacity = 1
    DropNewest = FALSE
    MaxCalls = 2
    MaxCount = 3
    NaN = NaN
    EdgeExclusion = 1
    MadK = 2
    WindowRadius = 2
    RmsLimit = 1
    Plausible <- MCPlausible
    Spec_ <- MCSpec
    InitialCurvature = 0
    SpikeLimit <- MCSpikeLimit
    HalfTurn = 6
    Wafers <- MCWafers
    Filter <- FilterLine
    Fit <- fit_line
    Unfitted <- MCUnfitted
INVARIANTS
    FrameOutlivesJobs
    ResultIsReference
PROPERTIES
    ImplementsFifo
    CallReturns
