\* A pool of one segment, one thread.
SPECIFICATION FairSpec
CONSTANTS
  t1 = t1
  t2 = t2
  Threads <- OneThread
  Policies = {"NanoLog"}
  Slots = 2
  PoolSize = 1
  FreshRings = 0
  MaxRecords <- ThreeRecords
INVARIANTS
  AtMostOnce
CHECK_DEADLOCK FALSE
