SPECIFICATION Spec
CONSTANTS
    Countries = {"BR"}
    Size <- OneSize
    ChunkSize = 2
    DriftThresholdPct = 1
    Jobs = {"j1", "j2"}
    Revokers = {"r1"}
    None = None
    Faults = {}
    MaxFaults = 0
    MaxRevokes = 1
INVARIANT NeverLeaked
