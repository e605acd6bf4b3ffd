CONSTANTS
    Torrents = {t1}
    MaxRetries = 1
    MaxTroubles = 1
SPECIFICATION FairSpec
INVARIANTS
    TypeOK
    DispatchBudget
    NothingForgotten
PROPERTY
    EntriesSettle
CHECK_DEADLOCK FALSE
