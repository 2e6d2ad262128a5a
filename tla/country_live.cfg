SPECIFICATION FairSpec
CONSTANTS
    Countries = {"BR"}
    Size <- OneSize
    ChunkSize = 2
    DriftThresholdPct = 1
    Jobs = {"j1", "j2"}
    Revokers = {"r1", "r2"}
    None = None
    Faults = {"chunk", "purge", "unwind", "lookup", "persist", "row", "count", "crash"}
    MaxFaults = 2
    MaxRevokes = 2
PROPERTY EveryJobEnds
PROPERTY VerdictConverges
PROPERTY CompletedIsTracked
