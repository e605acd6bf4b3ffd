SPECIFICATION MCSpec
CONSTANTS
    Groups = {g1}
    Capacity = 3
    ChanCapacity = 2
    AttemptLimits = {1, 2}
    MaxMessages = 4
    MaxConsumers = 3
    N = 3
    K = 1
    Splitting = TRUE
    MaxSize = 5
    MaxTokens = 5
INVARIANTS
    TypeOK
    AckedInOrder
    NoDeliveryAfterAck
    LookupContract
PROPERTIES
    EventuallyConsumed
CHECK_DEADLOCK FALSE
