SPECIFICATION Spec
CHECK_DEADLOCK FALSE
CONSTANTS
  PermissionsOf <- MCPermissionsOf
  Prompts = {"fix"}
  Outputs = {"ok", "unstored"}
  Responses <- MCResponses
  ModelRuns = {"once", "retried", "late", "failed"}
  Gates <- MCGates
  ProviderNames = {"ollama", "groq/"}
  Requests <- MCRequests
  Imports <- MCImports
  SourceDir = "project"
  SourceJournal = "journal"
  MaxIterations = 2
  MaxContinuations = 1
  MaxTurns = 2
  MaxModelCalls = 4
  MaxDeviations = 2
  Interruptions = {"interrupt", "crash", "resume"}
INVARIANTS
  ReplayReproduces
  VerdictsAreRight
