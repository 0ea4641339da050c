SPECIFICATION Spec
CONSTANTS
    None = None
    Txns = {t1, t2}
    Sessions = {s1, s2}
    Ids = {c1, c2}
    Names = {n1, n2}
    OneCallAtATime = TRUE
SYMMETRY Symmetric
CHECK_DEADLOCK FALSE
INVARIANTS WorksUnderItsName
