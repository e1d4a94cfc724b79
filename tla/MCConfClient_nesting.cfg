SPECIFICATION ClientSpec
CONSTANTS
  Ctx = {a, b}
  Null = null
  Names = {a, b}
  State = {s1, s2, s3}
  NULL = NULL
  FD = {f1, f2}
  NoFp = NoFp
  MaxFiles = 3
  MaxDepth = 3
  MaxLines = 3
  Byte = 256
  Lines = {"blank", "include", "preproc", "begin", "end", "text"}
  ArgvLines = {}
  StaleFp = {FALSE}
  OnAssert = "return"
  Convention = "nesting"
SYMMETRY Symmetry
INVARIANTS
  LiveAreOpen
PROPERTIES
  CallsGetLiveState
