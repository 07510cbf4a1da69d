SPECIFICATION FairSignedInSpec
CONSTANTS
  a = a
  b = b
  c1 = c1
  c2 = c2
  c3 = c3
  p1 = p1
  p2 = p2
  p3 = p3
  None = None
  Tabs = {a, b}
  Calls = {c1, c2, c3}
  Slots = {a, b, c1, c2, c3}
  TabOf <- TwoAndOne
  Tokens = {p1, p2, p3}
  AccessTTL = 1
  RefreshTTL = 2
  MaxTime = 2
  MaxCalls = 2
INVARIANTS
  OneLiveTokenPerFamily
PROPERTIES
  WithdrawnIsRefused
  OwnRefreshIsNoReuse
  AgreesWithMemoryTokens
  EveryCallSettles
CHECK_DEADLOCK FALSE
