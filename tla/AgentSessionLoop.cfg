SPECIFICATION AttendedSpec
CONSTANTS
  Tools <- MCTools
  Modes <- AttendedModes
  Messages <- LoopMessages
  Budgeted = TRUE
  MaxIterations = 2
  MaxContinuations = 1
  MaxSummaries = 1
  RepeatLimit = 2
  WriteLimit = 1
  MaxTurns = 2
  MaxModelCalls = 5
INVARIANTS LoopStateSound MessagesJournaled
PROPERTY RunReturns
CHECK_DEADLOCK FALSE
