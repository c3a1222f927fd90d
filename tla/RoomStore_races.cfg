\* Two handlers sharing one hydration, and a code used by two rooms.
SPECIFICATION Spec
CONSTANTS
  None = None
  Away = Away
  alice = alice
  bob = bob
  a1 = a1
  a2 = a2
  b1 = b1
  Codes = {k1}
  NumSeats = 1
  Sockets = {a1, b1}
  Accounts = {alice, bob}
  AccountOf <- MCAccountOf
  Impatient = {}
  MaxRooms = 2
  MaxWaiting = 2
  MaxCreating = 1
PROPERTIES
  ConnectedSeatFreedOnlyByLeave
  OwnershipRefined
