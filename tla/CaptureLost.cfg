SPECIFICATION GrabSpec
CONSTANTS
  GrabCapacity = 2
  MaxTextures = 6
  MaxGrabs = 5
  GrabFaults = 2
  MaxGrabStarts = 2
  ClosesEarly = FALSE
  LateArrival = FALSE
INVARIANTS
  ARefusedDuplicationIsRetried
CHECK_DEADLOCK FALSE
