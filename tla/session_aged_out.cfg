SPECIFICATION SignedInSpec
CONSTANTS
  a = a
  b = b
  c1 = c1
  c2 = c2
  c3 = c3
  p1 = p1
  p2 = p2
  p3 = p3
  None = None
  Tabs = {a}
  Calls = {c1}
  Slots = {a, c1}
  TabOf <- OneCall
  Tokens = {p1, p2, p3}
  AccessTTL = 1
  RefreshTTL = 2
  MaxTime = 2
  MaxCalls = 2
PROPERTIES
  StaysSignedIn
CHECK_DEADLOCK FALSE
