SPECIFICATION FairSpec
CONSTANTS
  User = {u1}
  Puts = 2
  MaxId = 5
  MaxSignUps = 2
  MaxStarts = 3
  MaxHasty = 1
  MaxPosts = 2
  Given = Given
  NULL = NULL
INVARIANTS
  TypeOK
  AccountsHold
  VisibleIfNoneRemoved
  DeletesFindTheirRow
PROPERTIES
  RestartRestores
  AccountIsUsable
CHECK_DEADLOCK FALSE
