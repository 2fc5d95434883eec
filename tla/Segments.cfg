\* One thread, three records; segments of one record: two pooled, three carved.
SPECIFICATION FairSpec
CONSTANTS
  t1 = t1
  t2 = t2
  Threads <- OneThread
  Policies = {"Quill", "NanoLog"}
  Slots = 2
  PoolSize = 2
  FreshRings = 3
  MaxRecords <- ThreeRecords
INVARIANTS
  DrainedOnce
  StoppedMeansDelivered
PROPERTIES
  BacklogIsDelivered
  HandedOffIsRetired
CHECK_DEADLOCK FALSE
