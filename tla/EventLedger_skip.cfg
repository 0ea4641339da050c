SPECIFICATION Spec
CONSTANTS
    None = None
    Writers = {w1, w2}
    MaxId = 2
    PageSize = 1
SYMMETRY Symmetric
CHECK_DEADLOCK FALSE
INVARIANTS NeverSkips
