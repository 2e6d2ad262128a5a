SPECIFICATION Spec
CONSTANTS
    Scheduler = "sched"
    Creators = {"m1"}
    Deleters = {}
    Restorers = {"r1"}
    Gone = Gone
    Torn = Torn
    None = None
    Schema = 2
    UploadSchema = 2
    Retention = 5
    Faults = {"copy"}
    MaxFaults = 1
    MaxRuns = 1
    MaxEdits = 1
    MaxDeletes = 0
    MaxRestores = 1
    MaxTime = 0
PROPERTY LiveDBAsIs
CHECK_DEADLOCK FALSE
