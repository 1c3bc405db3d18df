SPECIFICATION Spec
CONSTANTS
    Threads <- MCThreads
    Ids <- MCIds
    Types <- MCTypes
    TypeOf <- MCTypeOf
    Subscribed <- MCSubscribed
    None = None
    AlarmCount = 2
    Users <- MCUsers
    Owner = "owner"
    MaxCalls = 3
INVARIANTS
    QuietAfterUnsubscribe
    AnnouncedOnce
PROPERTIES
    UnsubscribeReturns
