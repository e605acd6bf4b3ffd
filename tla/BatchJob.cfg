CONSTANTS
    Jobs = {reindex, reclassify}
    Indexing = {reindex}
    PageSize = 2
    MaxTorrents = 3
    MaxStarts = 2
    MaxDiscards = 1
    MaxFailures = 1
    MaxRestarts = 1
    MaxForced = 1
    Words <- MCWords
    Gaps = {".", "-", ", "}
    MaxParts = 7
    Calls = {"c1", "c2", "job"}
    InfoHashes = {"h1", "h2"}
    Assignments <- MCAssignments
    StrictCalls = {"job"}
    Concurrency = 1
    MaxTroubles = 1
    Callers = {"a", "b"}
    Tokens = {"t1", "t2"}
    Weight = 1
    MaxCalls = 2
    MaxTurns = 2
    Bodies <- MCBodies
    Names <- MCNames
    AnswerTypes = {"movie", "music"}
SPECIFICATION MCSpec
INVARIANTS
    TypeOK
    OneJobAtATime
    DoneIsComplete
    ClassifierContract
PROPERTIES
    JobsProgress
CHECK_DEADLOCK FALSE
