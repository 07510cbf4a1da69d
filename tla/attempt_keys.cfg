SPECIFICATION Spec
CONSTANTS
  p1 = p1
  p2 = p2
  b1 = b1
  None = None
  Parents = {p1, p2}
  Bookings = {b1}
  MaxCalls = 2
  MaxKeys = 3
  MaxVisits = 1
  MayEnd = TRUE
INVARIANTS
  KeysAreNotShared
PROPERTIES
  DeclinedKeyIsDone
CHECK_DEADLOCK FALSE
