SPECIFICATION Spec
CONSTANTS
  File = {f1, f2, f3}
  Sizes = {1, 2}
  StoreFrom = 1
  StoreTo = 7
  Capacity = 100
  MaxId = 13
  MaxRowCount = 12
  MaxOverlaps = 1
  NULL = NULL
SYMMETRY FileSymmetry
INVARIANTS
  PostsAreVisible
CHECK_DEADLOCK FALSE
