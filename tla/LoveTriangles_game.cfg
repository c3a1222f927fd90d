SPECIFICATION Spec
CONSTANTS
  None = None
  NumSeats = 2
  Nodes <- MCNodes
  X <- MCX
  Y <- MCY
  BaseCost <- MCCost
  Shuffles <- MCShuffles
  FirstGems = 9
  MaxGems = 13
INVARIANTS
  TypeOK
  CardsConserved
  DisplaySound
  ScoreIsBestLoop
PROPERTIES
  GemsAccounted
