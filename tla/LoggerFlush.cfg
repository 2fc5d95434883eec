\* A thread that exits and leaves the drain one last pass over its ring.
SPECIFICATION FairSpec
CONSTANTS
  t1 = t1
  t2 = t2
  Threads <- MCThreads
  Policies = {"Drop"}
  Room = 1
  SyncEvery = 2
  MaxRecords <- MCMaxRecords
PROPERTY AcceptedIsFlushed
CHECK_DEADLOCK FALSE
