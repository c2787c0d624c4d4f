SPECIFICATION Spec
CONSTANTS
  c1 = c1
  c2 = c2
  c3 = c3
  comma = comma
  empty = empty
  s1 = s1
  s2 = s2
  Text = {c1, c2, c3, comma, empty, s1, s2}
  Typed <- MCTyped
  WithComma = {comma}
  Empty = {empty}
  MaxVersions = 5
  MaxNumber = 3
  NULL = NULL
INVARIANTS
  TypeOK
  InGivenOrder
  FirstStays
PROPERTIES
  ImplementsCommentList
CHECK_DEADLOCK FALSE
