SPECIFICATION Spec
CONSTANTS
  Programs <- TestPrograms
  GenesisFunds = 16
  GenesisValidators = 5
  FaultSets <- NoneOrAllFaults
  ConvertibleReplies = {TRUE, FALSE}
INVARIANTS
  TypeOK
  NoSelfConflict
  RejectionMeansLag
  NeverRefused
  EndMeansComplete
  FundsAreBack
  TestIsCareful
PROPERTIES
  MismatchMeansLag
  HealthyNetworkSuffices
  WaitsKeepPromise
\* The test returns: the model stops when it has and every node is up to date.
CHECK_DEADLOCK FALSE
