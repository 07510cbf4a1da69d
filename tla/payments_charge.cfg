SPECIFICATION PaySpec
CONSTANTS
  c1 = c1
  c2 = c2
  c3 = c3
  w1 = w1
  w2 = w2
  k1 = k1
  k2 = k2
  None = None
  Calls = {c1, c2}
  Refunders = {w1, w2}
  Bookings = {b1}
  Keys = {k1, k2}
  Amounts = {price, other}
  MaxAttempts = 3
SYMMETRY Symmetry
INVARIANTS
  ChargedOncePerKey
  TableTellsTheTruth
  RefundedOnce
PROPERTIES
  ImplementsCharges
  AgreesWithMemoryAttempts
