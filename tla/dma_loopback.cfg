SPECIFICATION FairSpec
CONSTANTS
  Fifos = {"w", "r"}
  BlockCounts = {1, 3}
  NonBlocking = {"w"}
  NoItem = 0
  MaxReconfigures = 2
  Items = 4
\* The programs stop when all items were sent, or a reconfigure failed for good.
CHECK_DEADLOCK FALSE
INVARIANTS
  OneOwner
  MapsBalanced
  FlushedIsIdle
PROPERTIES
  ImplementsChannels
  EverythingArrives
  FlushReturns
