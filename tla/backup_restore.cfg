SPECIFICATION FairSpec
CONSTANTS
    Scheduler = "sched"
    Creators = {"m1"}
    Deleters = {"d1"}
    Restorers = {"r1", "r2"}
    Gone = Gone
    Torn = Torn
    None = None
    Schema = 2
    UploadSchema = 3
    Retention = 5
    Faults = {"crash", "copy", "delete", "version"}
    MaxFaults = 2
    MaxRuns = 1
    MaxEdits = 1
    MaxDeletes = 1
    MaxRestores = 2
    MaxTime = 1
INVARIANT FlagIsFresh
INVARIANT NoDowngrade
PROPERTY BootServes
PROPERTY RestoreLands
CHECK_DEADLOCK FALSE
