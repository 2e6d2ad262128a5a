SPECIFICATION Spec
CONSTANTS
    Callers = {a, b}
    None = None
    Windows = {w1, w2}
    WafTerms = {x, y}
    StatsTTL = 1
    TsTTL = 2
    MaxEntries = 2
    LoadTime = 1
INVARIANT FilterIsOwn
CHECK_DEADLOCK FALSE
