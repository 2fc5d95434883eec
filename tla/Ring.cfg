\* Every policy and both builds of the capacity check, on a ring of four slots.
SPECIFICATION FairSpec
CONSTANTS
  Capacity = 4
  Sizes = {1, 2, 3}
  Policies = {"Drop", "Block"}
  FastTailCache = {TRUE, FALSE}
  MaxCalls = 5
INVARIANTS
  TypeOK
  DataPartition
  UnreadIntact
  ExactlyOnceInOrder
  NoCorruptFrame
  CachesConservative
PROPERTIES
  HalfRingReserveReturns
  PublishedIsDelivered
  ImplementsChannel
