SPECIFICATION FairSpec
CONSTANTS
  Programs = {"main", "other"}
  Devices <- MCDevices
  Counted <- MCCounted
  Searched = 3
  Ports <- MCPorts
  Capacity <- MCCapacity
  Treshold = 2
  MaxWords = 8
  Tests <- MCTests
\* A program ends.
CHECK_DEADLOCK FALSE
INVARIANTS
  ChecksHold
  FreeDeviceFound
PROPERTY
  ProgramsEnd
