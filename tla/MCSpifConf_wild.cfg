SPECIFICATION Spec
CONSTANTS
  Ctx = {}
  Null = null
  Names = {u}
  State = {}
  NULL = NULL
  FD = {f1, f2, f3}
  NoFp = NoFp
  MaxFiles = 2
  MaxDepth = 1
  MaxLines = 1
  Byte = 6
  Lines = {"blank", "include", "preproc", "begin", "end", "text"}
  ArgvLines = {"blank", "include", "preproc", "begin", "end", "text"}
  StaleFp = {FALSE, TRUE}
  OnAssert = "return"
SYMMETRY Symmetry
INVARIANTS
  NoUseAfterClose
CHECK_DEADLOCK FALSE
