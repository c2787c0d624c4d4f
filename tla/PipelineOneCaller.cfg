SPECIFICATION FairSpec
CONSTANTS
  Producer = {ui}
  Request = {r1, r2, r3, r4}
  Stuck = {}
  Capacity = 2
  NO_OF_THREADS = 2
  NULL = NULL
  Garbage = Garbage
INVARIANTS
  TypeOK
  SerialExecution
  PoolIntact
  SizeWithinCapacity
  ExactlyOnceInOrder
PROPERTIES
  DropsOnlyWhenFull
  ImplementsService
  AcceptedIsExecuted
CHECK_DEADLOCK FALSE
