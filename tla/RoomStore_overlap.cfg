\* A client that does not wait for its answers, and creations that collide.
SPECIFICATION Spec
CONSTANTS
  None = None
  Away = Away
  alice = alice
  bob = bob
  a1 = a1
  a2 = a2
  b1 = b1
  Codes = {k1}
  NumSeats = 1
  Sockets = {a1, b1}
  Accounts = {alice, bob}
  AccountOf <- MCAccountOf
  Impatient = {a1}
  MaxRooms = 2
  MaxWaiting = 1
  MaxCreating = 2
INVARIANTS
  AwaySeatHasTimer
PROPERTIES
  DurableFactsKept
