\* Two seats shared by two accounts: claims, play, sweeps, restarts, under
\* fair timers, repository answers and microtasks.
SPECIFICATION FairSpec
CONSTANTS
  None = None
  Away = Away
  alice = alice
  bob = bob
  a1 = a1
  a2 = a2
  b1 = b1
  Codes = {k1}
  NumSeats = 2
  Sockets = {a1, b1}
  Accounts = {alice, bob}
  AccountOf <- MCAccountOf
  Impatient = {}
  MaxRooms = 1
  MaxWaiting = 1
  MaxCreating = 1
INVARIANTS
  WriteThrough
  TakenSeatsAreOwned
PROPERTIES
  SharedRoomKeptUntilViewed
  UnfinishedRoomOutlivesItsSeats
  AwaySeatResolved
  WaitersAnswered
