SPECIFICATION FailSpec
CONSTANTS
  None = None
  PoolSize = 2
  MaxRooms = 1
  MaxVersion = 3
  MaxCalls = 2
  MaxFaults = 1
  MaxRestarts = 0
  MaxScripts = 0
INVARIANTS
  NextWriteCatchesUp
CHECK_DEADLOCK FALSE
