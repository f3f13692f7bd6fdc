SPECIFICATION Spec
CONSTANTS
  N = 2
  numTxs = 3
  txFee = 2
  Modulus = 16
  FaultSets = {{"timeout"}}
INVARIANT PassMeansConfirmed
\* The test returns: the model stops when it has and every node is up to date.
CHECK_DEADLOCK FALSE
