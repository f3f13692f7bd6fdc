SPECIFICATION Spec
CONSTANTS
  Boots <- BootServiceIDs
  NodeIDMaps <- Maps
  MaxLosses = 1
INVARIANTS
  TypeOK
  PassMeansConnected
PROPERTIES
  RoundsAreVerifications
  FailureMeansUnsettled
\* The test ends: the model stops when the peer lists are full.
CHECK_DEADLOCK FALSE
