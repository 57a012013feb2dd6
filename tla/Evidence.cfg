SPECIFICATION EvidenceSpec
CONSTANTS
  Paths = {p1, p2}
  Keys = {k1, k2}
  Names = {n1}
  InitialRows <- MCInitialRows
  InitialStore <- MCInitialStore
  ThereStores <- MCThereStores
  OldFiles <- MCOldFiles
  Exports <- MCExports
  MaxCommands = 2
  MaxRedacted = 1
  MaxFaults = 1
  Bytes = {b1, b2}
  Forms <- MCForms
  Clock <- MCClock
  Instants <- MCInstants
  MaxEvents = 3
  MaxEdits = 2
SYMMETRY MCSymmetry
CHECK_DEADLOCK FALSE
INVARIANTS
  CleanIffAppended
  HeadCommitsToSession
  VerifiersAgree
  SignaturesSurvive
  SealedSetVerifies
  ImportIsWhole
  RedactionHides
  TraceImportFaithful
