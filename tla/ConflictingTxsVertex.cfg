SPECIFICATION Spec
INVARIANTS
  TypeOK
  VertexWasIssued
  NilMeansJudged
PROPERTIES
  VerdictAfterFinality
  GoodNetworkPasses
\* The test returns: the model stops when the nodes have nothing to accept.
CHECK_DEADLOCK FALSE
