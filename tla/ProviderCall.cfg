SPECIFICATION Spec
CONSTANTS
  Providers = {"http", "playback"}
  RetryMax = 1
  Capacity = 2
  Scripts <- MCScripts
  MaxCalls = 2
  MaxChunks = 1
  MaxFaults = 1
CHECK_DEADLOCK FALSE
INVARIANTS
  CallJournaledOnce
  TerminalIsJournaled
  OwnAttempts
PROPERTIES
  CallReturns
