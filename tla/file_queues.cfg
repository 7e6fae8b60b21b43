SPECIFICATION FairSpec
CONSTANTS
  Controllers = {c1}
  DrainSize = 1
  MaxInterrupts = 2
  MaxResets = 1
  ElementSize = 2
  OutCapacity = 2
  InCapacity = 2
  PipeSize = 4
  Granule = 2
  Counts = {0, 1, 2}
  Items = 3
INVARIANTS
  InOrder
  StandingInterrupt
  CleanReset
PROPERTIES
  InterruptEndsCall
  SynchronousLeaves
