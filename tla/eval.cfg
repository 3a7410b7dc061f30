SPECIFICATION Spec
CONSTANTS
  TotalIterations = 5
  EvalEveryNIterations = 2
  Modes = {"sync", "async", "exclusive"}
  MaxFaults = 2
INVARIANTS RightAdapterLoaded SwapsAreQuiet EveryDueEvalIsDone
PROPERTY OnlyFailedEvalsBlock
\* The run ends, or waits for ever where evaluation blocks it.
CHECK_DEADLOCK FALSE
