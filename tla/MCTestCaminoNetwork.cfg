SPECIFICATION Spec
CONSTANTS
  Stakers <- ThreeStakers
  numberOfByzantineNodes = 2
  Tests <- AllTests
  FaultSets <- NoneOrAllFaults
INVARIANTS
  TypeOK
  BootstrapIDsMatch
  NodeIDsDistinct
  OnlyArgumentsFail
  ReadyMeansBootstrapped
PROPERTIES
  NetworkComesUp
  StartedGetsReady
\* A test ends, or fails, and then nothing happens any more.
CHECK_DEADLOCK FALSE
