SPECIFICATION MCSpec
CONSTANTS
    Supervisors = {s1}
    Producers = {p1}
    MaxSwitches = 3
    Queries = {"q1", "q2"}
    Scrapes = {"q2"}
    MaxPackets = 2
    NodeIds = {n1, n2}
    HashIds = {h1, h2}
    Ips = {i1, i2}
    Ports = {1, 2}
    MaxPeers = 1
    QuerySlots = {r1, r2}
    PerIpBurst = 1
    GlobalBurst = 2
    Remembered = 1
    MaxRefills = 2
    a1 = a1
    a2 = a2
    NoClient = nobody
    Settings <- MCSettings
    MaxUpdates = 3
    MaxRefused = 1
    MaxJobs = 2
    Options <- MCOptions
    Layers <- MCLayers
    MaxChanges = 2
INVARIANTS
    TypeOK
    StaleConsumersNotified
    NoSteadyLoss
    SettingsContract
PROPERTIES
    EndpointsProgress
    ServerContract
CHECK_DEADLOCK FALSE
