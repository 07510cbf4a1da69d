SPECIFICATION FairQueueSpec
CONSTANTS
  j1 = j1
  j2 = j2
  j3 = j3
  w1 = w1
  w2 = w2
  w3 = w3
  None = None
  Workers = {w1, w2}
  Jobs = {j1, j2}
  Payloads = {work}
  Delays = {0, 2}
  Lease = 3
  RetryBackoff = 2
  BatchSize = 2
  Concurrency = 1
  MaxJobAttempts = 2
  Overrun = {j1}
INVARIANTS
  InvisibleWhileLeased
  NoWorkIsDropped
PROPERTIES
  AgreesWithMemoryQueue
  EveryJobSettles
