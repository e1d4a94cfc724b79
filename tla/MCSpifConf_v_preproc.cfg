SPECIFICATION Spec
CONSTANTS
  Ctx = {a, b}
  Null = null
  Names = {a, b, u}
  State = {s}
  NULL = NULL
  FD = {f1, f2, f3}
  NoFp = NoFp
  MaxFiles = 3
  MaxDepth = 2
  MaxLines = 2
  Byte = 256
  Lines = {"blank", "include", "preproc", "begin", "end", "text"}
  ArgvLines = {}
  StaleFp = {FALSE, TRUE}
  OnAssert = "return"
PROPERTIES
  ReadToEnd
CHECK_DEADLOCK FALSE
