SPECIFICATION FairFromZero
CONSTANTS
  None = None
  l1 = l1
  bg = bg
  rv = rv
  own = own
  Reads = {l1, bg, rv}
  Writes = {own}
  Contents = {0, 1}
  Background = bg
  Revalidation = rv
  Own = own
  Lifetime = 1
  Lag = 0
  Patience = 0
  MaxCommits = 1
  Horizon = 3
  Fresh = 1
  Stale = 2
  MaxAge = 1
  StaleWhileRevalidate = 1
ACTION_CONSTRAINT InPairs
INVARIANTS
  RenderedIsRecent
PROPERTIES
  ScreenCatchesUp
CHECK_DEADLOCK FALSE
