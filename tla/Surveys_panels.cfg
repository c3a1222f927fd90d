SPECIFICATION Spec
CONSTANTS
  None = None
  NumSeats = 2
  Accounts = {alice, bob}
  Questions = {q1, q2}
  Texts = {x, y}
  Posts = {p1, p2}
  MaxRooms = 2
  MaxLoads = 2
  MaxFaults = 1
SYMMETRY MCSymmetry
INVARIANTS
  ThanksAreEarned
  FormWithheldOnlyIfAnswered
PROPERTIES
  FirstAnswerStays
CHECK_DEADLOCK FALSE
