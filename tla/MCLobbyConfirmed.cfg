SPECIFICATION Spec
CONSTANTS
    MaxSlots = 2
    Maps <- SmallMaps
    DownloadMode = 2
    HasMapData = TRUE
    AutostartPlayers = 2
    CountdownFrom = 1
    Admin = {}
    MapSizes = {50, 100, 120}
PROPERTY AutostartConfirmed
CHECK_DEADLOCK FALSE
