SPECIFICATION PartsSpec
CONSTANTS
    p = p
    q = q
    r1 = r1
    r2 = r2
    r3 = r3
    Runs = {r1, r2, r3}
    Projects = {p, q}
    Commands <- MCCommands
    Custom = Custom
    None = None
    MaxFaults = 1
    Models <- MCModels
    DefaultModel <- MCDefaultModel
    StoredModels <- MCStoredModels
    NoModel = NoModel
    Hosts = {"other", "groq"}
    MaxFlags = 2
    MaxStored = 1
SYMMETRY MCSymmetry
INVARIANT
    ArchitectImplements
CHECK_DEADLOCK FALSE
