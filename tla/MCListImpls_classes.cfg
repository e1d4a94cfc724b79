SPECIFICATION Spec
CONSTANTS
  Keys = {1, 2}
  Values = {1, 2}
  Node = {n1, n2, n3, n4, n5, n6}
  NULL = NULL
  MaxLen = 6
  Far = 6
SYMMETRY Symmetry
INVARIANTS
  TypeOK
  SameContents
  Linked
  Sorted
  ReadsAgree
