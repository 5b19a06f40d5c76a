SPECIFICATION Spec
CONSTANTS
    ReconnectEnabled = TRUE
    PreSent = 1
    LoadLines = 1
    EventSends = {1}
    BufferMax = 2
    QueueMax = 3
    SmallMayFit = TRUE
    MaxSent = 5
    MaxClient = 2
    MaxConns = 3
    MaxFaults = 2
INVARIANT HoldCostsNothing
CHECK_DEADLOCK FALSE
