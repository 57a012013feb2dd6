SPECIFICATION StreamSpec
CHECK_DEADLOCK FALSE
CONSTANTS
  Backends = {"anthropic", "bedrock", "openai", "ollama", "buffered"}
  CallLines = 2
  Comments = TRUE
  Endings = {"eof", "break", "timeout"}
  MaxToolCalls = 2
  MaxTexts = 2
  MaxNoise = 1
  MaxSplits = 1
  MaxLag = 1
INVARIANTS
  DeliveredAsSaid
  RecordedIsDelivered
