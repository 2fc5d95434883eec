\* One thread, three records, up to three segments of one record.
SPECIFICATION FairSpec
CONSTANTS
  t1 = t1
  t2 = t2
  Threads <- OneThread
  Policies = {"Quill"}
  Slots = 2
  PoolSize = 0
  FreshRings = 3
  MaxRecords <- ThreeRecords
INVARIANTS
  PerThreadOrder
CHECK_DEADLOCK FALSE
