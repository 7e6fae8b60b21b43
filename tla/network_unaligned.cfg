SPECIFICATION NetworkSpec
CONSTANTS
  N = 1
  Queues = {0, 1}
  MCCapacity0 = 3
  MCCapacity1 = 3
  MCCapacity2 = 2
  Capacity <- MCCapacities
  MCBlock1 = 2
  MCBlock2 = 2
  Blocksize <- MCBlocksizes
  Items = 4
  Modulus = 16
  Raise = 10
  Values <- MCValues
  Junk = 16
  Counts = {1, 2}
  Drainers = {}
  MaxDisturbances = 2
  ResumeFirst = FALSE
INVARIANT
  GrantHoldsBlock
