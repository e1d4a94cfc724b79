SPECIFICATION ClientSpec
CONSTANTS
  Ctx = {a, b}
  Null = null
  Names = {a, b}
  State = {s1, s2}
  NULL = NULL
  FD = {f1, f2, f3}
  NoFp = NoFp
  MaxFiles = 3
  MaxDepth = 2
  MaxLines = 2
  Byte = 256
  Lines = {"blank", "include", "preproc", "begin", "end", "text"}
  ArgvLines = {}
  StaleFp = {FALSE}
  OnAssert = "return"
  Convention = "documented"
SYMMETRY Symmetry
PROPERTIES
  CallsGetLiveState
CHECK_DEADLOCK FALSE
