SPECIFICATION Spec
CONSTANTS
  N = 2
  numTxs = 3
  txFee = 2
  Modulus = 16
  FaultSets = {{}, {"call", "timeout", "reject"}}
INVARIANTS
  TypeOK
  ChainsAreFunded
  NeverPanics
  HealthyPassMeansConfirmed
PROPERTY HealthyBombardEnds
\* The test returns: the model stops when it has and every node is up to date.
CHECK_DEADLOCK FALSE
