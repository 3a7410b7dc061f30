CONSTANTS
  TotalIterations = 3
  MaxCkpts = 0
  OuterLauncher = TRUE
  Diagnostics = TRUE
  MaxLaunches = 4
  FaultyLaunches = 2
  rank0 = rank0
  rank1 = rank1
  Lead = rank0
  Ranks <- MCRanks
SPECIFICATION OperatedSpec
CHECK_DEADLOCK FALSE
INVARIANT TypeOK
INVARIANT ResumeIntegrity
INVARIANT BoundedLoss
INVARIANT DoneHasBatch
INVARIANT ScenarioBatchAligned
PROPERTY HistoryIsLossless
PROPERTY CompletedStaysCompleted
PROPERTY ImplementsDurableTraining
PROPERTY RunEnds
PROPERTY TrainingCompletes
