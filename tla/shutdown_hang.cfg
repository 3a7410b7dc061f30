CONSTANTS
  rank0 = rank0
  rank1 = rank1
  Lead = rank0
  Ranks <- MCOneRank
  SamplerThreads = {t1}
  ScenariosPerRank = 1
  RolloutsPerScenario = 1
  Runners = 1
  MaxRolloutRetries = 0
  MaxSoftDead = 0
  RunnersFail = FALSE
  TotalIterations = 1
  Async = FALSE
  RequiredPerRank = 1
  RequiredPerScenario = 1
  Interrupts = 0
SPECIFICATION Spec
CHECK_DEADLOCK FALSE
PROPERTY ShutdownEnds
