SPECIFICATION Spec
CONSTANTS
  Programs <- JustTheWorkflow
  GenesisFunds = 16
  GenesisValidators = 5
  FaultSets <- NoFaults
  ConvertibleReplies = {TRUE, FALSE}
INVARIANT HealthyNetworkAnswers
\* The test returns: the model stops when it has and every node is up to date.
CHECK_DEADLOCK FALSE
