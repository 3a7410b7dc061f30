CONSTANTS
  rank0 = rank0
  rank1 = rank1
  Lead = rank0
  Ranks <- MCRanks
  SamplerThreads = {t1}
  ScenariosPerRank = 1
  RolloutsPerScenario = 2
  Runners = 1
  MaxRolloutRetries = 1
  MaxSoftDead = 1
  RunnersFail = FALSE
  TotalIterations = 2
  Async = FALSE
  RequiredPerRank = 1
  RequiredPerScenario = 1
  Interrupts = 0
SPECIFICATION Safety
CHECK_DEADLOCK FALSE
INVARIANT NoEarlyCancellation
INVARIANT NothingLeftBehind
INVARIANT LockstepReductions
INVARIANT BatchIsSufficient
