\* A record of three slots on a ring of four, policy Block.
SPECIFICATION FairSpec
CONSTANTS
  Capacity = 4
  Sizes = {1, 2, 3}
  Policies = {"Block"}
  FastTailCache = {FALSE}
  MaxCalls = 3
PROPERTY ReserveReturns
