SPECIFICATION StoreSpec
CHECK_DEADLOCK FALSE
CONSTANTS
  Procs = {p1, p2}
  Settings = {k1}
  Values = {v1}
  Servers = {s1}
  Sections = {slo}
  None = None
  Overlap = TRUE
  MaxCommands = 2
  MaxFailures = 0
SYMMETRY MCSymmetry
INVARIANT
  SavesAreAtomic
