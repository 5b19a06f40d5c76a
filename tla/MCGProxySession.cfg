SPECIFICATION FairSpec
CONSTANTS
    ReconnectEnabled = TRUE
    PreSent = 1
    LoadLines = 1
    EventSends = {1, 2}
    BufferMax = 2
    QueueMax = 3
    SmallMayFit = TRUE
    MaxSent = 4
    MaxClient = 2
    MaxConns = 3
    MaxFaults = 1
INVARIANTS TypeOK BufferIsSuffix BufferReachesBack HeldIffUnmapped
PROPERTIES HostToClientReliable ClientToHostReliable EventuallyDelivered HoldEnds
CHECK_DEADLOCK FALSE
