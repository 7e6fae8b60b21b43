SPECIFICATION FairNetworkSpec
CONSTANTS
  N = 2
  Queues = {0, 1, 2}
  MCCapacity0 = 1
  MCCapacity1 = 2
  MCCapacity2 = 2
  Capacity <- MCCapacities
  MCBlock1 = 1
  MCBlock2 = 2
  Blocksize <- MCBlocksizes
  Items = 4
  Modulus = 16
  Raise = 10
  Values <- MCValues
  Junk = 16
  Counts = {1, 2}
  Drainers = {}
  MaxDisturbances = 2
  ResumeFirst = TRUE
INVARIANTS
  ExactlyOnce
  StoppedIsGone
  EndsOnlyWhenTerminated
PROPERTIES
  EverythingArrives
  TerminateReturns
