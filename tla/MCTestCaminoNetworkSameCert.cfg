SPECIFICATION Spec
CONSTANTS
  Stakers <- ThreeStakers
  numberOfByzantineNodes = 2
  Tests <- SameCertTest
  FaultSets <- NoFaults
INVARIANT SameCertMeansSameID
\* A test ends, or fails, and then nothing happens any more.
CHECK_DEADLOCK FALSE
