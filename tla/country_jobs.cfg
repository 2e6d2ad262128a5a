SPECIFICATION Spec
CONSTANTS
    Countries = {"BR", "XX"}
    Size <- TwoSizes
    ChunkSize = 2
    DriftThresholdPct = 1
    Jobs = {"j1", "j2", "j3"}
    Revokers = {"r1"}
    None = None
    Faults = {"chunk", "purge", "persist", "row", "mark", "count", "expire"}
    MaxFaults = 2
    MaxRevokes = 1
INVARIANT NoDoubleStack
INVARIANT NoLeak
