SPECIFICATION Spec
CONSTANTS
  Producer = {ui, socket}
  Request = {r1, r2, r3}
  Stuck = {r3}
  Capacity = 2
  NO_OF_THREADS = 2
  NULL = NULL
  Garbage = Garbage
INVARIANTS
  DequeueNeverEmpty
CHECK_DEADLOCK FALSE
