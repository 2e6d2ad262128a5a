SPECIFICATION MCSpec
CONSTANTS
    None = None
    Parts = {"factor", "clock", "signon", "limiter"}
    Requests = {"p1", "p2"}
    Keys = {"k1", "k2"}
    WindowFails = 1
    Window = 1
    TTL = 1
    Retries = 2
    MaxLogins = 1
    MaxStarts = 6
    MaxUncounted = 1
    MaxRestarts = 1
    Tokens = {"t1"}
    Flights = {"f1", "f2"}
    Timeouts <- SomeTimeouts
    Default <- NoSetting
    Throttle = 1
    CacheTTL = 1
    SettingsTTL = 1
    MaxFlight = 1
    Horizon = 5
    MaxEdits = 1
    Callbacks = {"b1", "b2"}
    Subjects = {"s1", "s2"}
    Emails = {"e1", "e2"}
    Addresses <- SomeAddresses
    First <- FirstConfig
    Configs <- OtherConfigs
    Disturbances = {"put", "move", "expire", "restart"}
    MaxFlows = 1
    MaxCallbacks = 3
    MaxDisturbances = 1
    Logins = {"l1", "l2"}
    LoginFails = 2
    LoginWindow = 1
    BanDuration = 4
    MaxFailures = 4
    MaxReboots = 1
    MaxUnread = 1
INVARIANTS
    CodesAreSpentOnce
    EnabledIsConfirmed
    GuessesBounded
    SessionsAndBansHold
    SignOnIsOwn
PROPERTY OnlyDisableTurnsOff
CHECK_DEADLOCK FALSE
