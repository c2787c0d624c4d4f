SPECIFICATION Spec
CONSTANTS
  User = {u1}
  Puts = 2
  MaxId = 5
  MaxSignUps = 1
  MaxStarts = 2
  MaxHasty = 1
  MaxPosts = 2
  Given = Given
  NULL = NULL
INVARIANTS
  VisibleAcrossRestarts
CHECK_DEADLOCK FALSE
