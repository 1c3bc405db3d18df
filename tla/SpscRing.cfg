SPECIFICATION FairSpec
CONSTANTS
    Capacity = 3
    RingSize = 4
    IndexModulus = 4
    SpinTries = 1
    MaxItems = 4
INVARIANTS
    SlotsNotShared
    NoLostWakeup
    NothingUncounted
PROPERTIES
    ImplementsFifo
    BothSidesProgress
