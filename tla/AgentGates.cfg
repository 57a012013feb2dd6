SPECIFICATION PartsSpec
CONSTANTS
  Tools <- MCTools
  Modes <- AllModes
  Messages <- GateMessages
  Budgeted = FALSE
  MaxIterations = 2
  MaxContinuations = 0
  MaxSummaries = 0
  RepeatLimit = 2
  WriteLimit = 1
  MaxTurns = 1
  MaxModelCalls = 3
  Backends <- MCBackends
  KeepRecent = 2
  ShortKeep = 3
  MicroKeep = 3
  MaxTruncated = 1
  MaxPasses = 2
  ClearableCalls = {1}
  MaxExtras = 1
  MaxBatch = 2
  MaxRequests = 3
  MaxTasks = 2
  MaxLosses = 1
INVARIANTS GatedExecution PolicyNeverOverridden NothingForgotten CallsAnswered
CHECK_DEADLOCK FALSE
