SPECIFICATION MCSpec
CONSTANTS
    MaxMessages = 5
    MaxAttempts = 3
    Panics = {3}
    NewGroup = FALSE
    MaxInterruptions = 5
    Fetchers = {f1, f2}
    Scrapers = {c1}
    MaxDiscoveries = 2
    MaxTroubles = 2
    Nodes = {n1}
    Hashes = {h1}
    Samplers = {m1, m2}
    Nobody = nobody
    Sizes = {2, 3, 5}
    Peers = 2
    MaxSize = 6
INVARIANTS
    TypeOK
    CommittedSettled
    FailedRedelivered
    PipelineContract
    FetchContract
PROPERTIES
    PipelineProgress
CHECK_DEADLOCK FALSE
