SPECIFICATION Spec
CONSTANTS
    capture = capture
    venc = venc
    aenc = aenc
    mux = mux
    Producers <- MuxProducers
    Consumers <- MuxConsumers
    Capacity = 2
    Policy = "Block"
    MaxPushes = 5
    MaxReopens = 0
CHECK_DEADLOCK FALSE
PROPERTIES
    BlockedPushReturns
