SPECIFICATION FairSpec
CONSTANTS
    None = None
    Items = {i, p}
    Projects = {p}
    Calls = {c1}
    Sweeps = {s1}
    Claims = {k1, k2}
    Limit = 1
    MaxMoves = 1
CHECK_DEADLOCK FALSE
PROPERTIES SilentClaimReleased
