SPECIFICATION MCSpec
CONSTANTS
    c1 = c1
    c2 = c2
    h1 = h1
    h2 = h2
    Hosts = {h1, h2}
    Rules = {"r1"}
    Channels = {c1}
    RuleRows <- AnyRule
    ChannelRows <- AnyChannel
    Worker = Worker
    Retriers = {"q1"}
    None = None
    QueueCapacity = 2
    MaxAttempts = 2
    SweepAge = 60
    Retention = 60
    KeepMax = 1
    Ticks = {20, 30, 61}
    MaxTime = 61
    MaxEvents = 4
    MaxRetries = 1
    MaxChanges = 1
    MaxStops = 1
    PushChannels = {}
INVARIANT FailedWasTried
INVARIANT LimitsHold
PROPERTY FlowDrains
PROPERTY SentUnlessRetried
CHECK_DEADLOCK FALSE
