SPECIFICATION Spec
CONSTANTS
    Duration = 1
    Period = 2
    Jitter = 1
    Capacity = 1
    Usable = {1, 2}
    Excluded = {"pauseInSeam", "tickPastSeam", "pauseTooLate"}
    MayTimeOut = {"silence", "aenc"}
    MaxNow = 6
    MaxPackets = 2
    MaxPauses = 1
    MaxMigrations = 1
    FramesAt = {0, 1}
    StopsAt = {3}
    FailsAt = {3}
CHECK_DEADLOCK FALSE
INVARIANTS
    AudioStaysInStep
PROPERTIES
    TheTrackCatchesUp
    StopReturns
