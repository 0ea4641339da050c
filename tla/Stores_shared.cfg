SPECIFICATION StoresSpec
CONSTANTS
    None = None
    Txns = {t1, t2}
    Sessions = {s1, s2}
    Ids = {c1, c2}
    Names = {n1, n2}
    OneCallAtATime = TRUE
    i1 = i1
    i2 = i2
    i3 = i3
    i4 = i4
    Things = {i1, i2, i3, i4}
    Inbox = {i2}
    Movers = {m1, m2}
    MaxDepth = 2
    MaxCalls = 2
    Planted = 3
    Order <- OrderOfThings
    Nothing = Nothing
    Rows = {r1, r2}
    Reasons = {x}
    Callers = {a1, a2}
    MaxNotices = 3
    NoRow = NoRow
    h1 = h1
    h2 = h2
    Hooks = {h1, h2}
    Refused = {}
    CallsOf <- CallsOfHooks
    MaxRecords = 2
    BatchSize = 1
    Torn = Torn
    Loops = {l1}
    Kinds = {q1, q2}
    Editors = {e1, e2}
    MaxEvents = 4
    NoLoop = NoLoop
SYMMETRY Alike
CHECK_DEADLOCK FALSE
INVARIANTS OneNamePerSession DriftNeedsOverlap CycleNeedsTwoMoves RestoredOnce RowIsAsLastTold HiddenWorkIsKnown LossNeedsAnOverwrite TwiceNeedsAFault StoredInOrder
PROPERTIES NeverStolen MoveRepairsDepth NeverReopened AddedLoopIsOpen KindSticks
