SPECIFICATION PartsSpec
CONSTANTS
    f = f
    g = g
    Files = {f, g}
    Words = {"x", "y", "z", "p"}
    Outside = Outside
    Missing = Missing
    Binary = Binary
    Link = Link
    Dir = Dir
    Torn = Torn
    PersonText <- MCPersonText
    Starts <- MCStarts
    Requests <- MCRequests
    NCalls = 2
    MaxSaves = 1
    MaxFaults = 1
    Procs = {akmon}
    Overlap = FALSE
    Settings = {k1}
    Values = {v1}
    Servers = {s1}
    Sections = {slo}
    None = None
    MaxCommands = 4
    MaxFailures = 2
INVARIANTS
    WholeFiles
    ReportsAreTrue
    WorkIsCommitted
    ConfigKept
CHECK_DEADLOCK FALSE
