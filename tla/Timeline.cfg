SPECIFICATION TimeSpec
CONSTANTS
    Second = 12
    TimebaseDen = 4
    Rates <- FullAndHalfRate
    InitialFps <- FullRate
    MaxElapsed = 14
    MaxFrames = 3
    MaxReserved = 4
    ReorderDepth = 2
    MaxRebuilds = 2
    MaxFaults = 1
    Streams = {"video", "audio"}
    LateStreams = {"audio"}
    DeadlineMayPass = TRUE
    MaxNow = 7
    MaxItems = 2
    MaxPauses = 2
    DurationLimit = 2
    SizeLimit = 3
    MaxVideo = 4
    MaxAudio = 2
    MaxRefusals = 1
    MaxCrashes = 2
    Sidecars = 2
    MaxCalls = 3
    GuiFaults = 1
    MaxEngines = 2
    MayAbandon = FALSE
INVARIANTS
    NoDecodeTimeGoesBack
    SeamIsAKeyframe
    PlacedExactly
    NoFrameIsLostAtASplit
    UnfinishedStaysClaimed
    QuietWindowShowsTheEngine
    NoRecoveryIsForgotten
    PicturesAdvance
PROPERTIES
    PtsStrictlyIncreases
CHECK_DEADLOCK FALSE
