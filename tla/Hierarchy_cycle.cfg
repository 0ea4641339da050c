SPECIFICATION TreeSpec
CONSTANTS
    i1 = i1
    i2 = i2
    i3 = i3
    Things = {i1, i2, i3}
    Inbox = {i3}
    Movers = {m1, m2}
    MaxDepth = 2
    MaxCalls = 2
    Planted = 3
    Order <- OrderOfThings
    Nothing = Nothing
CHECK_DEADLOCK FALSE
INVARIANTS NoCycle
