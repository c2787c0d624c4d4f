SPECIFICATION Spec
CONSTANTS
  Producer = {ui}
  Request = {r1, r2}
  Stuck = {}
  Capacity = 2
  NO_OF_THREADS = 2
  NULL = NULL
  Garbage = Garbage
SYMMETRY RequestSymmetry
INVARIANTS
  QueueHoldsAllRequests
CHECK_DEADLOCK FALSE
