SPECIFICATION FairSpec
CONSTANTS
  r1 = r1
  r2 = r2
  w1 = w1
  w2 = w2
  b1 = b1
  k1 = k1
  k2 = k2
  j1 = j1
  j2 = j2
  None = None
  Requests = {r1}
  Workers = {w1}
  Bookings = {b1}
  Keys = {k1}
  Jobs = {j1, j2}
  HoldTime = 1
  ExpiryGrace = 1
  Lease = 2
  RetryBackoff = 1
  MaxJobAttempts = 2
  Overrun = {j1, j2}
  MaxAttempts = 1
  ProviderForgets = TRUE
  ParentMayCancel = FALSE
PROPERTIES
  OwedIsSettled
  HeldIsReleased
