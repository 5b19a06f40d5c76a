SPECIFICATION FairSpec
CONSTANTS
    MaxHosted = 2
    MaxUncreates = 1
    MaxChats = 1
    MaxLosses = 2
INVARIANTS TypeOK OnlyLobbyAdvertised ListingFollows
PROPERTIES PublicGameListed
CHECK_DEADLOCK FALSE
