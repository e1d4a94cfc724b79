SPECIFICATION Spec
CONSTANTS
  Byte = 256
  First = 10
  Limit = 159
INVARIANT
  TopInArray
