CONSTANTS
  TotalIterations = 3
  MaxCkpts = 1
  OuterLauncher = FALSE
  Diagnostics = FALSE
  MaxLaunches = 3
  FaultyLaunches = 2
  rank0 = rank0
  rank1 = rank1
  Lead = rank0
  Ranks <- MCRanks
SPECIFICATION Safety
CHECK_DEADLOCK FALSE
INVARIANT ResumeIntegrity
