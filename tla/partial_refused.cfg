CONSTANTS
  rank0 = rank0
  rank1 = rank1
  Lead = rank0
  Ranks <- MCRanks
  SamplerThreads = {t1}
  ScenariosPerRank = 1
  RolloutsPerScenario = 2
  Runners = 1
  MaxRolloutRetries = 0
  MaxSoftDead = 0
  RunnersFail = FALSE
  TotalIterations = 1
  Async = FALSE
  RequiredPerRank = 1
  RequiredPerScenario = 1
  Interrupts = 0
SPECIFICATION Safety
CHECK_DEADLOCK FALSE
INVARIANT SufficientIsAccepted
