SPECIFICATION Spec
CONSTANTS
    MaxSlots = 3
    Maps <- ThreeSlotMaps
    DownloadMode = 1
    HasMapData = TRUE
    AutostartPlayers = 0
    CountdownFrom = 1
    Admin = {"slots", "swap", "shuffle", "ping"}
    MapSizes = {}
INVARIANTS PidsExact ColoursFit
CHECK_DEADLOCK FALSE
