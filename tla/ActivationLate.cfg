SPECIFICATION EndpointSpec
CONSTANTS
  MaxArrivals = 3
  MaxOpenings = 2
  SourceFaults = 2
INVARIANTS
  HandlerOutlivesItsCallback
CHECK_DEADLOCK FALSE
