SPECIFICATION MCSpec
CONSTANTS
    Torrents <- MCTorrents
    Old <- MCOld
    Types <- MCTypes
    TypeOf <- MCTypeOf
    Requests <- MCRequests
    Limit = 1
    Window = 3
    RrfText = 1
    RrfVector = 2
    Margin = 1
    MinTime = 2
    MaxTime = 3
    Loops = {l1, l2}
    Closer = closer
    MaxMessages = 3
    MaxFailures = 1
    MaxSwitches = 1
    MaxRestarts = 1
INVARIANTS
    SearchContract
    DurabilityContract
PROPERTIES
    DurabilityProgress
CHECK_DEADLOCK FALSE
