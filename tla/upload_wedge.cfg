CONSTANTS
  TotalIterations = 2
  MaxCkpts = 0
  OuterLauncher = FALSE
  Diagnostics = FALSE
  MaxLaunches = 2
  FaultyLaunches = 1
  rank0 = rank0
  rank1 = rank1
  Lead = rank0
  Ranks <- MCRanks
SPECIFICATION Spec
CHECK_DEADLOCK FALSE
PROPERTY RunEnds
