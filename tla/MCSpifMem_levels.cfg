SPECIFICATION Spec
CONSTANTS
  Addr = {a1, a2, a3}
  NULL = NULL
  SizeMax = 3
  MaxRecs = 4
SYMMETRY Symmetry
INVARIANTS
  TypeOK
  TrackedRecorded
  RecordsAreLive
