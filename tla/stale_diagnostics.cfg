CONSTANTS
  TotalIterations = 2
  MaxCkpts = 0
  OuterLauncher = TRUE
  Diagnostics = TRUE
  MaxLaunches = 2
  FaultyLaunches = 1
  rank0 = rank0
  rank1 = rank1
  Lead = rank0
  Ranks <- MCRanks
SPECIFICATION Safety
CHECK_DEADLOCK FALSE
INVARIANT RetryIsNotRefused
