\* A pool of one segment that two threads take from each other.
SPECIFICATION FairSpec
CONSTANTS
  t1 = t1
  t2 = t2
  Threads <- TwoThreads
  Policies = {"NanoLog"}
  Slots = 2
  PoolSize = 1
  FreshRings = 0
  MaxRecords <- TwoRecordsAndNone
INVARIANTS
  PoolExclusive
PROPERTIES
  ReservationEnds
  GuardDropReturns
CHECK_DEADLOCK FALSE
