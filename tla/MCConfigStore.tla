--------------------------- MODULE MCConfigStore ---------------------------
EXTENDS ConfigStore, TLC
MCSymmetry == Permutations(Procs)
=============================================================================
