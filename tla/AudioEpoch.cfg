SPECIFICATION Spec
CONSTANTS
    Duration = 2
    Period = 2
    Jitter = 0
    Capacity = 1
    Usable = {1}
    Excluded = {}
    MayTimeOut = {}
    MaxNow = 6
    MaxPackets = 2
    MaxPauses = 0
    MaxMigrations = 0
    FramesAt = {0, 1, 2, 3, 4, 5, 6}
    StopsAt = {}
    FailsAt = {}
CHECK_DEADLOCK FALSE
INVARIANTS
    NothingBeforeTheEpoch
