SPECIFICATION Spec
CONSTANTS
  None = None
  PoolSize = 3
  MaxRooms = 3
  MaxVersion = 1
  MaxCalls = 4
  MaxFaults = 1
  MaxRestarts = 1
  MaxScripts = 1
INVARIANTS
  RowCatchesUp
PROPERTIES
  NoRoomOverwritten
CHECK_DEADLOCK FALSE
