SPECIFICATION FairSpec
CONSTANTS
  Queues = {q1}
  MCCapacity = 2
  Capacity <- MCCapacities
  Values = {a}
  Junk = junk
  Counts = {0, 1, 2}
  Drainers = {"writer", "main"}
PROPERTY
  WriterGetsRoom
