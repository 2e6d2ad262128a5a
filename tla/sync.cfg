CONSTANTS
    h1 = h1  h2 = h2  g1 = g1  g2 = g2  c1 = c1  c2 = c2
    Handlers = {h1, h2}
    Boot = boot
    Hosts = {host}
    Groups = {g1, g2}
    Contents = {c1, c2}
    Modes = {"detect", "block"}
    None = None
    Faults = {"refuse", "lose", "late", "cancel", "crash", "caddy"}
    KeySet = TRUE
    Seed <- WiredSeed
    MaxRequests = 5
    MaxFaults = 1
    MaxAttempts = 2
SPECIFICATION MCSpec
CHECK_DEADLOCK FALSE
INVARIANTS FreshPush NoHostVanishes SerialSynced
PROPERTIES RequestsEnd SerialImplements
