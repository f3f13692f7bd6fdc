SPECIFICATION StakingSpec
CONSTANTS
  Timeout = 6
  PollInterval = 2
  Latency = 2
  StakingDelay = 6
  SynchronyDelay = 1
  MaxSkew = 1
  Pending <- PPending
  Accepted <- PAccepted
  Abandoned <- PAbandoned
INVARIANTS
  TypeOK
  TimeoutIsHonest
  OverrunBounded
  PeriodHasBegun
PROPERTY KeepsPromise
\* The wait is part of a function call: the model stops when it has returned.
CHECK_DEADLOCK FALSE
