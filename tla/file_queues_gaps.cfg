SPECIFICATION FairSpec
CONSTANTS
  Controllers = {}
  DrainSize = 1
  MaxInterrupts = 0
  MaxResets = 0
  ElementSize = 2
  OutCapacity = 2
  InCapacity = 2
  PipeSize = 4
  Granule = 1
  Counts = {0, 1, 2}
  Items = 3
INVARIANT
  NoGaps
