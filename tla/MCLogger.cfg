\* Two threads, rings of one record, the guard dropped or not.
SPECIFICATION FairSpec
CONSTANTS
  t1 = t1
  t2 = t2
  Threads <- MCThreads
  Policies = {"Block"}
  Room = 1
  SyncEvery = 2
  MaxRecords <- MCMaxRecords
INVARIANTS
  TypeOK
  ExactlyOnceInOrder
  OnlySlippedLost
  StoppedMeansFlushed
PROPERTIES
  BacklogIsDelivered
  PolledIsFlushed
  GuardDropReturns
  RegisteredWaiterReturns
CHECK_DEADLOCK FALSE
