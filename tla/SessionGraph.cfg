SPECIFICATION Spec
CONSTANTS
  Sessions = {s1, s2}
  Agent = agent
  p1 = p1
  p2 = p2
  Wrappers = {w1, w2}
  Payloads = {p1, p2}
  PayloadLists <- TwoObjects
  AttemptLists <- MCAttempts
  Clock <- MCClock
  MaxLives = 2
  MaxEmits = 3
  MaxFaults = 1
  MaxCrashes = 1
CHECK_DEADLOCK FALSE
INVARIANTS
  ChainLinked
  AckedDurable
  VerifyBlamesNoWriter
PROPERTIES
  EmissionsReturn
  ImplementsLog
