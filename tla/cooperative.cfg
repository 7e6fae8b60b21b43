SPECIFICATION FairSpec
CONSTANTS
  N = 2
  MCCapacity0 = 2
  MCCapacity1 = 2
  MCCapacity2 = 2
  Capacity <- MCCapacities
  MCBlock1 = 1
  MCBlock2 = 2
  Blocksize <- MCBlocksizes
  Items = 6
  MaxInterrupts = 2
  MCReceived = 20
  MCReceivedNoWait = 7
  MaxReceived <- MCMaxReceived
INVARIANTS
  ExactlyOnce
  NothingLost
PROPERTIES
  CallsReturn
  EverythingArrives
  ChainDrains
