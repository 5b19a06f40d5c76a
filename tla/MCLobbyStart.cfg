SPECIFICATION FairSpec
CONSTANTS
    MaxSlots = 2
    Maps <- SmallMaps
    DownloadMode = 1
    HasMapData = TRUE
    AutostartPlayers = 2
    CountdownFrom = 1
    Admin = {"start", "abort", "download", "autostart", "slots"}
    MapSizes = {50, 100, 360}
INVARIANTS TypeOK ClientsShown
PROPERTIES CountdownIntact CountdownEnds
CHECK_DEADLOCK FALSE
