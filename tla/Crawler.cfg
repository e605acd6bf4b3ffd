SPECIFICATION MCSpec
CONSTANTS
    Capacity = 4
    MaxMessages = 9
    InCap = 1
    MaxBatch = 2
    WorkCap = 1
    MaxFound = 1
    MaxSenders = 1
    Loggers = {l1, l2}
    EntrySize <- MCEntrySize
    Caps = {0, 2}
    MaxBackups = 1
    MaxDays = 2
    MaxRotators = 2
    MaxFailures = 1
    Addresses = {p1}
    Walkers = {w1, w2}
    MaxRuns = 3
    MaxTroubles = 1
INVARIANTS
    TypeOK
    RingSound
PROPERTIES
    ImplementsTopicLog
    RecordsContract
    FlowProgress
CHECK_DEADLOCK FALSE
