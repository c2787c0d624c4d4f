SPECIFICATION FairSpec
CONSTANTS
  Producer = {ui}
  Request = {r1, r2}
  Stuck = {r1}
  Capacity = 2
  NO_OF_THREADS = 2
  NULL = NULL
  Garbage = Garbage
PROPERTIES
  PoolIsConcurrent
CHECK_DEADLOCK FALSE
