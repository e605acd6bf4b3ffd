SPECIFICATION Spec
CONSTANTS
    Groups = {g1}
    Capacity = 5
    ChanCapacity = 4
    AttemptLimits = {2}
    MaxMessages = 3
    MaxConsumers = 2
INVARIANTS
    AtLeastOnce
CHECK_DEADLOCK FALSE
