SPECIFICATION Spec
CONSTANTS
    None = None
    a1 = a1
    a2 = a2
    b1 = b1
    Txns = {t1, t2}
    Items = {i1}
    Sessions = {a1, b1}
    Ids = {r1, r2}
    RootOf <- MCRootOf
    Hooked = {a1}
    Ops = {"claim", "sweep", "takeover"}
    MaxClock = 3
    StaleAfter = 1
    DeadAfter = 1
    EvictAfter = 2
    SignalLessMax = 2
SYMMETRY Symmetric
CHECK_DEADLOCK FALSE
PROPERTIES SupersededFrozen
