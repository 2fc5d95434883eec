\* A thread that exits while sync_rings scans the registry.
SPECIFICATION FairSpec
CONSTANTS
  t1 = t1
  t2 = t2
  Threads <- MCThreads
  Policies = {"Drop"}
  Room = 1
  SyncEvery = 2
  MaxRecords <- MCMaxRecords
INVARIANT NoOrphan
CHECK_DEADLOCK FALSE
