SPECIFICATION FollowersSpec
CONSTANTS
    None = None
    Writers = {w1, w2}
    MaxId = 3
    PageSize = 1
    Gets = {g1, g2}
    MaxRevision = 2
    Unset = Unset
    h1 = h1
    h2 = h2
    Hooks = {h1, h2}
    Refused = {h2}
    CallsOf <- CallsOfHooks
    MaxRecords = 2
    BatchSize = 1
    Torn = Torn
CHECK_DEADLOCK FALSE
INVARIANTS SkippedOnlyByOlder OwnWriteShown
PROPERTIES CursorCatchesUp RevisionReached SpoolDrains
