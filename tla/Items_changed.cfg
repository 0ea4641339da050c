SPECIFICATION ItemsSpec
CONSTANTS
    None = None
    Items = {i, p}
    Projects = {p}
    Calls = {c1, c2}
    Sweeps = {s1, s2}
    Claims = {k1, k2}
    Limit = 2
    MaxMoves = 1
    Keys = {d1, d2}
    Values = {v1, v2}
    Authors = {w1, w2}
    MaxRev = 2
    Blank = Blank
    Shas = {1, 2, 3}
    NoSha = NoSha
    NoRow = NoRow
    MaxHops = 1
    MaxRound = 2
    MaxArtifacts = 2
    Overlap = 1
    MaxChanges = 1
CHECK_DEADLOCK FALSE
INVARIANTS StateIsLastReported EveryDeathCounted StaleFieldsNeedARace RevisionsChain EntriesFollowTheLedger SilentMergeWasReviewed
PROPERTIES EscalatedOnTheSamePass NoUnseenOverwrite RewriteKeepsApproval
