SPECIFICATION Spec
CONSTANTS
  Service <- Services
  Stakers <- Bootstrappers
  NodeIDMaps <- Maps
  Strangers = {}
INVARIANTS
  TypeOK
  PassMeansEachAsExpected
  PassMeansFullyConnected
  DuplicateStakerNeverPasses
\* The verification returns: the model stops when the peer lists are full.
CHECK_DEADLOCK FALSE
