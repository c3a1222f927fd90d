SPECIFICATION Spec
CONSTANTS
  None = None
  NumSeats = 2
  NumPrizes = 5
  NumCards = 3
  HandSize = 1
  Versions = {"v1", "v2"}
  Prizes <- MCPrizes
  Color <- MCColor
  Points <- MCPoints
  PrizeShuffles <- MCPrizeShuffles
  CardShuffles <- MCCardShuffles
  PriceLists <- MCPriceLists
INVARIANTS
  PrizesConserved
  EndsWhenSoldOut
  HighBidderWaits
PROPERTIES
  PrizesArePaidFor
  PrizesMoveOn
  EveryMoveCounts
