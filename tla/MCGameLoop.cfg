SPECIFICATION FairSpec
CONSTANTS
    p1 = p1
    p2 = p2
    p3 = p3
    Pids = {p1, p2, p3}
    GProxy = {p1}
    Admins = {p3}
    SyncLimits = {1, 2}
    ForceEnd = TRUE
    MaxAnswers = 1
    MaxAhead = 0
INVARIANTS TypeOK ScreenIsLaggers VotesAreFresh WaitsForSomebody
PROPERTIES ActionsGetOut LastPlayerEnds
CHECK_DEADLOCK FALSE
