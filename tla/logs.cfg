SPECIFICATION MCSpec
CONSTANTS
    None = None
    Parts = {"rollup", "reads", "stats", "pages"}
    Retention = 2
    RawAfter = 1
    RollupHours = 2
    MaxEntries = 2
    PurgeBatch = 2
    StripBatch = 1
    Capacity = 1
    Janitor = "janitor"
    Operators = {"o1"}
    Faults = {"insert", "sql", "stop", "purge"}
    MaxFaults = 1
    MaxTime = 3
    MaxRows = 3
    ReadSpan = 2
    ReadTimes = {1, 2}
    PageRows = 2
    WidePages = 2
    CSVRows = 3
    ReadRows = 5
    Callers = {a, b}
    StatsWindows = {w1, w2}
    WafTerms = {x}
    CacheEntries = 2
    LoadTime = 1
    StatsTTL = 1
    TsTTL = 2
    RowKinds <- SomeRowKinds
    HourLength = 2
    Edges <- SomeEdges
    TopPaths = 1
    KeptHours = 3
    PageTime = 4
    PageLimit = 3
INVARIANTS
    StoreIsSound
    WalksAreExact
    AnswersFit
    FiguresAgree
PROPERTIES
    PurgesKeep
    HoursCounted
CHECK_DEADLOCK FALSE
