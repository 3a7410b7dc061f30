CONSTANTS
  rank0 = rank0
  rank1 = rank1
  Lead = rank0
  Ranks <- MCRanks
  SamplerThreads = {t1}
  ScenariosPerRank = 1
  RolloutsPerScenario = 1
  Runners = 1
  MaxRolloutRetries = 0
  MaxSoftDead = 0
  RunnersFail = TRUE
  TotalIterations = 3
  Async = TRUE
  RequiredPerRank = 1
  RequiredPerScenario = 1
  Interrupts = 1
SPECIFICATION Spec
CHECK_DEADLOCK FALSE
INVARIANT WaitingIsSupplied
INVARIANT NoStraggler
INVARIANT BoundedStaleness
PROPERTY RunReachesItsEnd
