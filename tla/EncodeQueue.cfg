SPECIFICATION Spec
CONSTANTS
    capture = capture
    venc = venc
    aenc = aenc
    mux = mux
    Producers <- EncodeProducers
    Consumers <- EncodeConsumers
    Capacity = 3
    Policy = "DropOldest"
    MaxPushes = 8
    MaxReopens = 1
CHECK_DEADLOCK FALSE
INVARIANTS
    HoldsTheNewestInOrder
PROPERTIES
    ImplementsChannel
