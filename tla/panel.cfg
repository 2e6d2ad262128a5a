SPECIFICATION MCSpec
CONSTANTS
    None = None
    Parts = {"routing", "certs", "probes", "dash", "drift", "crons", "watch", "bursts", "issue"}
    Ids = {1, 2, 3}
    Callers = {a, b}
    Bodies <- SomeBodies
    Priorities = {5, 20, 25}
    Requests <- SomeRequests
    MaxPriority = 20
    Stride = 10
    Park = 100
    MaxChanges = 4
    Uploaders = {"p1"}
    Overlap = FALSE
    CertFaults = {"crash", "wipe", "decrypt", "db", "write", "remove", "load"}
    MaxStarts = 4
    MaxFaults = 3
    DomainSets = {"S1", "S2"}
    PassTTL = 1
    PassTime = 1
    MaxLive = 2
    Pinned = {"v"}
    Unpinned = {"w"}
    ViewTTL = 6
    MaxStale = 7
    LoadTime = 2
    Slack = 1
    MaxFails = 1
    Scenarios = {"s1"}
    Thresholds = {15, 20}
    Default = 15
    Entries = {"e1"}
    MaxPatches = 2
    MaxUpsets = 1
    QuietTime = 4
    Interval = 4
    Flutter = 2
    MaxDisturbances = 2
    WafWindow = 3
    WafThresh = 3
    RateWindow = 2
    RateThresh = 2
    MaxLines = 4
    MaxRestarts = 1
    BurstWindow = 2
    BurstThresh = 2
    FetchTTL = 1
    MaxFetch = 1
    MaxAlerts = 4
    MaxReboots = 1
    Keys = {"k1", "k2"}
    Values = {"v1"}
    MaxPuts = 3
INVARIANTS
    RulesHold
    CertsHold
    ProbesAreFresh
    ViewsAreFresh
    
    AlarmsAreRaised
    CredentialsThere
PROPERTY CallsReturn
CHECK_DEADLOCK FALSE
