SPECIFICATION FairSpec
CONSTANTS
  Queues = {q1}
  Values = {a, b}
  Junk = junk
  Drainers = {"writer"}
INVARIANTS
  NoLostWakeup
PROPERTIES
  ImplementsChannels
  CallsReturn
