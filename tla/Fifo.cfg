\* All backends, both policies, single records and chunks of two.
SPECIFICATION FairSpec
CONSTANTS
  Backends = {"ringbuffer", "ringbuf", "rtrb", "triple-buffer"}
  Policies = {"Drop", "Block"}
  ChunkSizes = {1, 2}
  Capacity = 6
  Sizes = {1, 2, 3}
  MaxCalls = 5
INVARIANTS
  WholeRecords
  FlushHasRoom
PROPERTIES
  ImplementsChannel
  ChunkIsDelivered
  FittingReserveReturns
