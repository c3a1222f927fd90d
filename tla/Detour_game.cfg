\* Whole games on a board of two rows and two columns or three.
SPECIFICATION Spec
CONSTANTS
  NumSeats = 2
  Rows = 2
  Cols = 3
  HandSize = 2
  BoardShuffles <- MCBoardShuffles
  CardShuffles <- MCCardShuffles
  DeckIds <- MCDeckIds
INVARIANTS
  TypeOK
  MoverCanMove
  CardsInOnePlace
PROPERTIES
  PawnFollowsArrows
