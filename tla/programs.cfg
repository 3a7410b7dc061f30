SPECIFICATION ProgramsSpec
CONSTANTS
  Checkpoints = {1, 2, 4}
  EvalEvery = 2
  Repeats = 2
  WatchFaults = 2
  DevJobs = 1
  AllJobs = 2
  Settings = 3
  Twins = {1, 3}
  Invocations = 4
  Orphans = 1
  ApiTasks = 2
  Attempts = 2
  CostLimit = 2
  Price = 1
  TaskInteractions = 1
  Reasks = 1
  TaskRetries = 1
  ApiFaults = 1
  TeacherTasks = 1
  SuccessesPerTask = 1
  Iterations = 3
  Boots = 2
  AllowConnect = {TRUE, FALSE}
  Exclusive = {TRUE, FALSE}
  LlmFaults = 2
  MaxTurns = 4
  MaxTokens = 2
  MaxLength = 4
  Overlaps = {0, 2}
  Trajectories = 3
  Builds = 2
  SubsetSizes <- MCSizes
  Windows = 5
  WorldSize = 2
  BatchSize = 1
  Accumulation = 1
  SaveSteps = 2
  SaveTotalLimit = 3
  TrainKills = 2
  World = 2
  Group = 3
  MinibatchSize = 4
  EpochsPerIteration = 2
  Thresholds = {0, 2}
  Invalids = 2
  GroupSize = 3
  TurnCalls = {{}, {"read"}, {"read", "write"}}
  TotalTurns = 3
  LongestTurns = 4
  Interactions = 3
  MaxModelLen = 30
  MaxNewTokens = 3
  LearningLimits = {12, 30}
  SearchRetries = 2
  MaxOutput = 2
  LongestOutput = 3
  MaxPromptLen = 4
  MaxMsgLen = 2
  MinBlocks = 2
  LogIterations = 2
  LogScenarios = 2
  LogRollouts = 2
  ExpectedTasks = 4
  WorldSizes = {1, 2, 3}
  LogFaults = 1
  Replays = 3
  Probes = 2
  Merges = 2
  MergeFaults = 1
  Points <- MCPoints
  Curves <- MCCurves
  ReportInvocations = 2
  Gaps <- MCGaps
  NoNumber = NoNumber
CHECK_DEADLOCK FALSE
INVARIANT CompletionVouches
INVARIANT ComparedWithBase
INVARIANT ApiRunsAreAccounted
INVARIANT RightServerAnswers
INVARIANT SftInputIsSound
INVARIANT StageIsKept
INVARIANT LearningIsFair
INVARIANT CreditIsLocal
INVARIANT ContextIsKept
INVARIANT ReplayIsFaithful
INVARIANT InitializationIsVerified
INVARIANT ReportVouches
PROPERTY CompletedIsKept
PROPERTY WatcherEvaluates
