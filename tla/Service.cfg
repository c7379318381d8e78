SPECIFICATION Spec
CONSTANTS
    Commands = {"garbage", "startRecord", "stopRecord", "startPreview", "stopPreview",
                "pauseRecord", "resumeRecord", "shutdown"}
    PipeRoom = 1
    Timeout = 1
    Hosted = TRUE
    MaxRecordings = 2
    MaxRequests = 2
    MaxConnections = 1
CHECK_DEADLOCK FALSE
INVARIANTS
    EveryRecordingIsFinalized
    NoWriterOnAClosedRing
PROPERTIES
    ABusyEngineIsNotALostHost
    EngineExits
