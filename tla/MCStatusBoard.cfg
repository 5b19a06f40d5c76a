SPECIFICATION FairSpec
CONSTANTS
    MaxGames = 2
    Views = {"v", "w"}
    Pollers = {"a"}
    MaxConnections = 1
    MaxChanges = 2
    MaxRestarts = 1
    MaxLosses = 1
INVARIANTS NotModifiedIsTrue BoardIsLive
PROPERTIES PollersCatchUp
CHECK_DEADLOCK FALSE
