SPECIFICATION Spec
CONSTANTS
    bob = bob
    A = A
    B = B
    Names = {bob}
    Servers <- TwoRealms
    NoRealm = NoRealm
    Terms = {0, 1}
    MaxGames = 2
    MaxTime = 2
    MaxOrders = 3
    MaxBans = 2
    MaxFailures = 1
    MaxRestarts = 1
INVARIANTS MutedStaySilent OthersSpeak
PROPERTIES BannedStayOut
CHECK_DEADLOCK FALSE
