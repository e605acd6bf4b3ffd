SPECIFICATION MCSpec
CONSTANTS
    u1 = u1
    u2 = u2
    u3 = u3
    a1 = a1
    Nobody = Nobody
    Updates <- MCUpdates
    Input <- MCInput
    Settings <- MCSettings
    AsyncSubs <- MCAsyncSubs
    MaxConcurrent = 1
    Workers = {w1, w2, w3}
    MaxCalls = 4
    Checks <- MCChecks
    MaxFails <- MCMaxFails
    Delayed <- MCDelayed
    MaxRestarts = 1
    MaxChanges = 2
    Events = {e1, e2}
    Sizes = {1, 2}
    NumUrls = 1
    Retries = 1
    MaxResizes = 2
    MaxStarts = 2
    Databases = {1, 2}
    Home = 1
    Reconnects = {u1, u2}
    Users = {v1}
    MaxPools = 3
INVARIANTS
    TypeOK
    PublishedFitsFile
    LatestWins
PROPERTIES
    OperationsContract
    ServicesContract
    ControlPlaneProgress
CHECK_DEADLOCK FALSE
