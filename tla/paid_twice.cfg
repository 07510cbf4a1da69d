SPECIFICATION Spec
CONSTANTS
  p1 = p1
  p2 = p2
  b1 = b1
  None = None
  Parents = {p1}
  Bookings = {b1}
  MaxCalls = 1
  MaxKeys = 4
  MaxVisits = 0
  MayEnd = FALSE
INVARIANTS
  OneChargePerBooking
CHECK_DEADLOCK FALSE
