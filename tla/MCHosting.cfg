SPECIFICATION FairSpec
CONSTANTS
    Autohost = TRUE
    MaximumGames = 1
    Admin = {"create", "unhost", "autohost", "disable", "end"}
    MaxHosted = 2
    MaxLogins = 1
    MaxUnhosts = 1
INVARIANTS RegistryExact KeysReclaimed UnhostHitsOwnLobby OnlyLobbyTold
PROPERTIES AutohostReturns
CHECK_DEADLOCK FALSE
