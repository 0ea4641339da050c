SPECIFICATION Spec
CONSTANTS
    None = None
    a1 = a1
    a2 = a2
    b1 = b1
    Txns = {t1, t2}
    Items = {i1}
    Sessions = {a1, a2, b1}
    Ids = {r1, r2}
    RootOf <- MCRootOf
    Hooked = {a1}
    Ops = {"claim", "takeover", "heartbeat"}
    MaxClock = 2
    StaleAfter = 1
    DeadAfter = 1
    EvictAfter = 1
    SignalLessMax = 1
SYMMETRY Symmetric
CHECK_DEADLOCK FALSE
INVARIANTS TypeOK OneLiveOrchestrator OneLiveRowPerSession
PROPERTIES EvictionServesAClaim EvictedHolderWasSilent UnforcedTakeoverOnlyOfTheDead ImplementsOwnership
