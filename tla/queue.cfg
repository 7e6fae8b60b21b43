SPECIFICATION FairSpec
CONSTANTS
  Queues = {q1}
  MCCapacity = 3
  Capacity <- MCCapacities
  Values = {a, b}
  Junk = junk
  Counts = {0, 1, 2, 3}
  Drainers = {"writer"}
INVARIANTS
  TypeOK
  GrantsDisjoint
  NoLostWakeup
  QueueInv
PROPERTIES
  ImplementsChannels
  CallsReturn
  InterruptEndsCall
