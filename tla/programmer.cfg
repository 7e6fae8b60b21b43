SPECIFICATION FairSpec
CONSTANTS
  Fifos = {"icap"}
  BlockCounts = {2}
  NonBlocking = {}
  NoItem <- MCNoItem
  MaxReconfigures = 2
  ALIGN_SIZE = 4
  BUFFER_SIZE = 4
  programmer_blocksize = 8
  programmer_numblocks = 2
  ESTIMATED_FIFO_SIZE = 3
  MinimumSize = 2
  Images <- MCImages
  MaxPrograms = 2
  MaxObjects = 2
\* The program stops when it has no more images to program.
CHECK_DEADLOCK FALSE
INVARIANTS
  WordsInOrder
  PaddingAtEnd
  ImageProgrammed
  WrongIdNotSent
PROPERTIES
  CallsReturn
