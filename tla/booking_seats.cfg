SPECIFICATION Spec
CONSTANTS
  t1 = t1
  t2 = t2
  t3 = t3
  b1 = b1
  b2 = b2
  b3 = b3
  s1 = s1
  s2 = s2
  s3 = s3
  p1 = p1
  p2 = p2
  c1 = c1
  c2 = c2
  None = None
  Tx = {t1, t2}
  Bookings = {b1, b2, b3}
  Students = {s1, s2, s3}
  Parents = {p1, p2}
  Classes = {c1}
  HoldTTL = 1
  MaxHoldsPerParent = 1
  MaxTime = 1
  ParentOf <- TwoFamilies
  Capacity <- OneSeat
  HoldAllowance <- OneExtra
SYMMETRY Symmetry
INVARIANTS
  SeatsAreExclusive
  SeatAndDeadlineFollowStatus
  OneLiveBookingPerChild
  TrailLeadsToRow
  NoWaitCycle
  HoldCapWithinAClass
PROPERTIES
  StatusMachine
  StandingHoldNeverExpires
  AgreesWithMemory
