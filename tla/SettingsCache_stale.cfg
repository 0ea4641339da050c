SPECIFICATION CacheSpec
CONSTANTS
    Gets = {g1, g2}
    MaxRevision = 2
    Unset = Unset
CHECK_DEADLOCK FALSE
INVARIANTS StampedWithItsRows
