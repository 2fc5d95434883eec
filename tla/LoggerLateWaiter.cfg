\* A thread that registers after the guard has walked the registry.
SPECIFICATION FairSpec
CONSTANTS
  t1 = t1
  t2 = t2
  Threads <- MCThreads
  Policies = {"Block"}
  Room = 1
  SyncEvery = 2
  MaxRecords <- MCMaxRecords
PROPERTY WaiterReturns
CHECK_DEADLOCK FALSE
