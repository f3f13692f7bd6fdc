SPECIFICATION Spec
CONSTANTS
  Boots <- BootServiceIDs
  NodeIDMaps <- Maps
  MaxLosses = 1
INVARIANT
  OriginalsStillConnected
CHECK_DEADLOCK FALSE
