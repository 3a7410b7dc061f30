SPECIFICATION Spec
CONSTANTS
  TotalIterations = 5
  EvalEveryNIterations = 2
  Modes = {"async"}
  MaxFaults = 0
PROPERTY TrainingEnds
\* The run ends, or waits for ever where evaluation blocks it.
CHECK_DEADLOCK FALSE
