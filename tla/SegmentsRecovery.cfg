SPECIFICATION SegSpec
CONSTANTS
    DurationLimit = 2
    SizeLimit = 3
    MaxVideo = 6
    MaxAudio = 2
    MaxRefusals = 1
    MaxCrashes = 2
CHECK_DEADLOCK FALSE
INVARIANTS
    RemovedOnlyWhenValid
