SPECIFICATION Spec
CONSTANTS
    s1 = s1
    s2 = s2
    Slots <- TwoSlots
    EncodeCapacity = 1
    MuxCapacity = 1
    Delay = 1
    MayTimeOut = {"watchdog", "capture"}
    MayFail = {"venc", "mux", "write", "encoder", "finalize"}
    MaxFrames = 3
    MaxAudio = 1
    MaxRebuilds = 1
    MaxRolls = 1
    MaxFaults = 1
INVARIANTS
    SlotsAreExclusive
    NoSlotOfADeadDevice
    
    TrailerComesLast
PROPERTIES
    StopWritesTheTrailer
CHECK_DEADLOCK FALSE
