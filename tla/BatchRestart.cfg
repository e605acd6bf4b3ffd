CONSTANTS
    Jobs = {reindex, reclassify}
    Indexing = {reindex}
    PageSize = 2
    MaxTorrents = 3
    MaxStarts = 1
    MaxDiscards = 0
    MaxFailures = 1
    MaxRestarts = 1
    MaxForced = 1
SPECIFICATION Spec
INVARIANT ContinuesFromProcessed
CHECK_DEADLOCK FALSE
