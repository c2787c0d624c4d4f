SPECIFICATION Spec
CONSTANTS
  File = {f1, f2, f3}
  Sizes = {1, 2}
  StoreFrom = 1
  StoreTo = 7
  Capacity = 8
  MaxId = 13
  MaxRowCount = 12
  MaxOverlaps = 0
  NULL = NULL
SYMMETRY FileSymmetry
INVARIANTS
  TypeOK
  DownloadIsOriginal
  IdsNeverReused
  NoGhosts
  VisibleUntilRemoved
  RefusedNeedsRemoval
CHECK_DEADLOCK FALSE
