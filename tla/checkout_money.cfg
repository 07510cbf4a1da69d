SPECIFICATION Spec
CONSTANTS
  r1 = r1
  r2 = r2
  w1 = w1
  w2 = w2
  b1 = b1
  k1 = k1
  k2 = k2
  j1 = j1
  j2 = j2
  None = None
  Requests = {r1, r2}
  Workers = {w1, w2}
  Bookings = {b1}
  Keys = {k1, k2}
  Jobs = {j1, j2}
  HoldTime = 1
  ExpiryGrace = 1
  Lease = 1
  RetryBackoff = 1
  MaxJobAttempts = 2
  Overrun = {j1, j2}
  MaxAttempts = 2
  ProviderForgets = FALSE
  ParentMayCancel = TRUE
SYMMETRY Symmetry
VIEW Seen
INVARIANTS
  MoneyBacksStatus
  FailedRestsOnADecline
  SeatOrMoney
  ClosedMeansRefunded
