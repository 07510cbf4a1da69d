SPECIFICATION Spec
CONSTANTS
  r1 = r1
  r2 = r2
  subject = subject
  address = address
  p1 = p1
  Requests = {r1, r2}
  Subject = subject
  Address = address
  AddressKnown = FALSE
  Points = {p1}
  ReadBurst = 2
  ReadInterval = 1
  WriteBurst = 1
  WriteInterval = 2
  MaxCount = 1
  MaxLifetime = 1
  MaxTime = 3
  MaxAsked = 2
  AllowedOrigins = {page}
  RequireCaptcha = FALSE
  Nobody = Nobody
SYMMETRY Symmetry
INVARIANTS
  WithinTheRefill
  ToldWaitSuffices
  FiresAsArmed
  AskedIsPaidFor
CHECK_DEADLOCK FALSE
