SPECIFICATION RunnerSpec
CONSTANTS
  MaxLaunches = 9
  MaxRelaunches = 1
  MaxRuns = 2
  MaxRetries = 2
  MaxInteractions = 2
  MaxCrashes = 1
  MaxGrowth = 2
  MaxFaults = 1
INVARIANT OneServerPerEpisode
INVARIANT LeftoversHaveCauses
PROPERTY RunnerEnds
CHECK_DEADLOCK FALSE
