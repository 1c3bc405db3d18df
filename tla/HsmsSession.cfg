SPECIFICATION FairSessionSpec
CONSTANTS
    T3 = 1
    T6 = 1
    T7 = 1
    T8 = 1
    LinktestInterval = 1
    SystemModulus = 5
    MaxOpen = 2
    MaxFrames = 1
INVARIANTS
    TimersFollowState
    NumbersDiffer
PROPERTIES
    TimeoutsEnd
