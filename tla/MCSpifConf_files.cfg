SPECIFICATION FairSpec
CONSTANTS
  Ctx = {a}
  Null = null
  Names = {a, u}
  State = {}
  NULL = NULL
  FD = {f1, f2, f3}
  NoFp = NoFp
  MaxFiles = 3
  MaxDepth = 2
  MaxLines = 2
  Byte = 256
  Lines = {"blank", "include", "preproc", "begin", "end", "text"}
  ArgvLines = {}
  StaleFp = {FALSE}
  OnAssert = "return"
INVARIANTS
  TypeOK
  StreamsOwned
PROPERTIES
  FilesBelowUntouched
  CallsNest
  Terminates
