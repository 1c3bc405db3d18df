SPECIFICATION Spec
CONSTANTS
    Conversations <- MCConversations
    kMaxNestingDepth = 6
    MaxFrameBytes = 300
    MaxBodyBytes = 200
    DeviceId = 0
INVARIANTS
    DeliveredAsSent
    LengthsChecked
    DecodedCanBeEncoded
    HostCanRead
CHECK_DEADLOCK FALSE
