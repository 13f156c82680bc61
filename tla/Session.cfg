SPECIFICATION FairSpec
CONSTANTS
  Parts <- EveryPart
  MaxRestarts = 1
  ServiceRestarts = 1
  MaxExits = 2
  MaxForks = 1
  MaxFaults = 1
INVARIANTS SessionSound
PROPERTIES EndsForCause SessionEnds
CHECK_DEADLOCK FALSE
