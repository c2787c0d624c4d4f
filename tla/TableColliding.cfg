SPECIFICATION Spec
CONSTANTS
  k1 = k1
  k2 = k2
  k3 = k3
  k4 = k4
  b1 = b1
  b2 = b2
  Key = {k1, k2, k3, k4}
  Column = {c1, c2}
  Value = {v1, v2}
  Bucket = {b1, b2}
  HashCode <- MCColliding
  VERSION_LIMIT = 2
  MaxRowCount = 5
  NULL = NULL
  Garbage = Garbage
  Hangs = Hangs
SYMMETRY TableSymmetry
INVARIANTS
  TypeOK
  ChainsWellFormed
  CommitNeverFails
  VersionMatchesStack
  HarmNeedsCollision
  RestartKeepsUnsharedRows
PROPERTIES
  UncommittedInvisible
  ImplementsMap
CHECK_DEADLOCK FALSE
