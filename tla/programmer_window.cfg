SPECIFICATION Spec
CONSTANTS
  Fifos = {"icap"}
  BlockCounts = {2}
  NonBlocking = {}
  NoItem <- MCNoItem
  MaxReconfigures = 2
  ALIGN_SIZE = 4
  BUFFER_SIZE = 4
  programmer_blocksize = 8
  programmer_numblocks = 2
  ESTIMATED_FIFO_SIZE = 3
  MinimumSize = 2
  Images <- MCWindowImages
  MaxPrograms = 1
  MaxObjects = 1
CHECK_DEADLOCK FALSE
INVARIANT
  CompleteFileAccepted
