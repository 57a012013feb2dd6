\* Two turns, two prompts, two commands, three of these, a bridge of one message.
CONSTANTS
  s1 = s1
  s2 = s2
  Sessions <- MCSessions
  FirstSession = s1
  MaxTurns = 2
  MaxPrompts = 2
  MaxCommands = 2
  MaxExtras = 3
  BridgeCap = 1
SPECIFICATION AttendedSpec
INVARIANTS RepliesMatch PromptOnScreen
PROPERTIES SnapshotsGrow TurnsFinish
CHECK_DEADLOCK FALSE
