SPECIFICATION Spec
CONSTANTS
    Scheduler = "sched"
    Creators = {"m1"}
    Deleters = {"d1"}
    Restorers = {}
    Gone = Gone
    Torn = Torn
    None = None
    Schema = 2
    UploadSchema = 1
    Retention = 1
    Faults = {"write", "insert", "crash"}
    MaxFaults = 1
    MaxRuns = 3
    MaxEdits = 0
    MaxDeletes = 1
    MaxRestores = 0
    MaxTime = 2
INVARIANT RowsMatchFiles
PROPERTY KeepsOne
CHECK_DEADLOCK FALSE
