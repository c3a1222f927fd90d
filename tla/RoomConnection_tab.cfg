SPECIFICATION FairSpec
CONSTANTS
  None = None
  MaxConnections = 3
  MaxClicks = 2
INVARIANTS
  TypeOK
  SeatedAsShown
  OwnerIsNotAsked
CHECK_DEADLOCK FALSE
PROPERTIES
  ConnectingEnds
