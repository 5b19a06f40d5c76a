SPECIFICATION Spec
CONSTANTS
    p1 = p1
    p2 = p2
    p3 = p3
    Pids = {p1, p2, p3}
    GProxy = {p1}
    EmptyActions = 2
    ChunkBytes = 2
    Lengths = {2}
    SyncLimit = 1
    MaxBeats = 3
    MaxActions = 2
    MaxShows = 1
    MaxSpare = 1
    MaxDiverged = 1
INVARIANTS TypeOK SameStream QueuesAligned VerdictsFair
PROPERTIES MajorityStays
SYMMETRY Alike
CHECK_DEADLOCK FALSE
