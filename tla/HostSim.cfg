SPECIFICATION Spec
CONSTANTS
    kMaxNestingDepth = 2
    MaxFrameBytes = 300
    Scenarios <- MCScenarios
    DefaultDevice = 0
    MaxFrames = 3
    MaxAsks = 2
INVARIANTS
    SentAsMeant
    PassedForCause
    QueueIsWhatWasRead
    AnsweredOnce
PROPERTIES
    HostEnds
CHECK_DEADLOCK FALSE
