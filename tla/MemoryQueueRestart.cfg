SPECIFICATION Spec
CONSTANTS
    Loops = {l1, l2}
    Closer = closer
    MaxMessages = 2
    MaxFailures = 0
    MaxSwitches = 0
    MaxRestarts = 1
INVARIANTS
    NewMessagesDeliverable
CHECK_DEADLOCK FALSE
