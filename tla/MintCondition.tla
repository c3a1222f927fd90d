--------------------------- MODULE MintCondition ---------------------------
(***************************************************************************)
(* The rules engine of Mint Condition (packages/engine-mint-condition):    *)
(* players auction the right to take a prize from a display of priced      *)
(* slots on which unsold prizes drift towards the expensive end.           *)
(*                                                                         *)
(* The engine is a pure function from a state and a move to a state or an  *)
(* error; the room store applies one move at a time.  A step is one        *)
(* accepted move with everything that follows from it.  Both rulesets are  *)
(* here: a room is pinned to one when it is created.  Piles are sequences  *)
(* whose last element is the top; hands and the prizes of one slot are     *)
(* sets, because no rule looks at their order.                             *)
(***************************************************************************)
EXTENDS Integers, Sequences, FiniteSetsExt

CONSTANTS NumSeats,
          Prizes,
          Color, Points,   \* of each prize
          PrizeShuffles,   \* orders the prize pile may be shuffled into
          CardShuffles,    \* orders a personal deck may be shuffled into
          HandSize,        \* cards dealt to each player
          PriceLists,      \* prices the six tiles may show, by slot
          Versions,        \* rulesets a room may be pinned to
          None

Seats      == 1 .. NumSeats
Slots      == 0 .. 5
LastSlot   == 5
UpperSlots == {LastSlot - 1, LastSlot}

(* A pile holds every element of S once.                                   *)
IsShuffleOf(pile, S) ==
  /\ pile \in Seq(S)
  /\ \A x \in S : \E i \in 1 .. Len(pile) : pile[i] = x
  /\ \A i, j \in 1 .. Len(pile) : pile[i] = pile[j] => i = j

ASSUME SeatsAssumption == NumSeats \in Nat \ {0}
ASSUME PrizesAssumption ==
  /\ IsFiniteSet(Prizes) /\ None \notin Prizes
  /\ \A pile \in PrizeShuffles : IsShuffleOf(pile, Prizes) /\ Len(pile) > 3
ASSUME CardsAssumption ==
  /\ HandSize \in Nat
  /\ \A pile \in CardShuffles :
       /\ IsShuffleOf(pile, {pile[i] : i \in 1 .. Len(pile)})
       /\ \A i \in 1 .. Len(pile) : pile[i] \in Nat \ {0}
ASSUME PricesAssumption ==
  \A list \in PriceLists :
    list \in [Slots -> Nat] /\ \A i, j \in Slots : i < j => list[i] < list[j]
ASSUME VersionsAssumption == Versions \subseteq {"v1", "v2"}

VARIABLES
  rulesetVersion,  \* the ruleset the room is pinned to
  price,           \* of each slot, ascending
  board,           \* the display and the piles beside it
  deck, hand,      \* each player's money cards
  wonPrizes,
  phase,
  auction,
  winner           \* the winning seats, once the game has ended

vars == <<rulesetVersion, price, board, deck, hand, wonPrizes, phase, auction, winner>>

Phases == {"auction-active", "awaiting-prize-choice", "awaiting-new-prize-placement", "ended"}

Card == UNION {{pile[i] : i \in 1 .. Len(pile)} : pile \in CardShuffles}

Board == [slots              : [Slots -> SUBSET Prizes],
          prizeDeck          : Seq(Prizes),
          revealedPrize      : Prizes \cup {None},
          discardPile        : SUBSET Prizes,
          unlockedUpperSlots : SUBSET UpperSlots]

Bid == [seat : Seats, cards : SUBSET Card]

Auction == [openerSeat  : Seats,
            activeSeat  : Seats,
            highestBid  : Bid \cup {None},
            passedSeats : Seq(Seats),
            winnerSeat  : Seats \cup {None}]

ASSUME NoBidAssumption == None \notin Bid

TypeOK ==
  /\ rulesetVersion \in Versions
  /\ price \in PriceLists
  /\ board \in Board
  /\ deck \in [Seats -> Seq(Card)]
  /\ hand \in [Seats -> SUBSET Card]
  /\ wonPrizes \in [Seats -> SUBSET Prizes]
  /\ phase \in Phases
  /\ auction \in Auction
  /\ winner \in SUBSET Seats
-----------------------------------------------------------------------------
(* Piles                                                                   *)

Least(m, n) == IF m < n THEN m ELSE n

(* The n topmost elements of a pile, or all of it.                         *)
TopOf(pile, n) == {pile[i] : i \in (Len(pile) - Least(n, Len(pile)) + 1) .. Len(pile)}

Rest(pile, n) == SubSeq(pile, 1, Len(pile) - Least(n, Len(pile)))

Elements(pile) == {pile[i] : i \in 1 .. Len(pile)}
-----------------------------------------------------------------------------
(* The display                                                             *)

(* Mutants of ShiftDisplay: aged-out prizes are not replaced; those that   *)
(* age out come back.                                                      *)
ShiftWithoutReplacing(b) ==
  LET moved == [i \in Slots |-> IF i = 0 THEN {} ELSE b.slots[i - 1]]
  IN  [b EXCEPT !.slots = moved,
                !.discardPile = @ \cup b.slots[LastSlot],
                !.unlockedUpperSlots = @ \cup {i \in UpperSlots : moved[i] # {}}]

ShiftRotating(b) ==
  LET moved == [i \in Slots |-> b.slots[IF i = 0 THEN LastSlot ELSE i - 1]]
  IN  [b EXCEPT !.slots = moved, !.unlockedUpperSlots = @ \cup {i \in UpperSlots : moved[i] # {}}]

(* Every unsold prize drifts one slot up; those that were in the last slot *)
(* are discarded, and replaced in the first while the pile lasts.  An      *)
(* upper slot opens for good when a prize drifts into it.                  *)
ShiftDisplay(b) ==
  LET agedOut == b.slots[LastSlot]
      n == Cardinality(agedOut)
      shifted == [i \in Slots |-> IF i = 0 THEN TopOf(b.prizeDeck, n) ELSE b.slots[i - 1]]
  IN  [b EXCEPT !.slots = shifted,
                !.prizeDeck = Rest(b.prizeDeck, n),
                !.discardPile = @ \cup agedOut,
                !.unlockedUpperSlots = @ \cup {i \in UpperSlots : shifted[i] # {}}]

(* Mutant of AddPrize: the added prize stays in the pile.                  *)
AddPrizeTwice(b) == [b EXCEPT !.slots[0] = @ \cup TopOf(b.prizeDeck, 1)]

(* The reward that adds a prize to the lowest slot, if the pile has one.   *)
AddPrize(b) ==
  [b EXCEPT !.slots[0] = @ \cup TopOf(b.prizeDeck, 1), !.prizeDeck = Rest(b.prizeDeck, 1)]

(* The winner sees the next prize before choosing a slot for it.           *)
Reveal(b) ==
  [b EXCEPT !.revealedPrize = b.prizeDeck[Len(b.prizeDeck)], !.prizeDeck = Rest(b.prizeDeck, 1)]

Place(b, i) == [b EXCEPT !.slots[i] = @ \cup {b.revealedPrize}, !.revealedPrize = None]

(* Mutant of IsGameOver: the prizes still on display are forgotten.        *)
PileIsEmpty(b) == b.prizeDeck = <<>>

(* A prize that was revealed and not placed yet does not count.            *)
IsGameOver(b) == b.prizeDeck = <<>> /\ \A i \in Slots : b.slots[i] = {}

Init ==
  /\ rulesetVersion \in Versions
  /\ price \in PriceLists
  /\ \E pile \in PrizeShuffles :
       board = [slots              |-> [i \in Slots |-> IF i \in 1 .. 3 THEN {pile[i]} ELSE {}],
                prizeDeck          |-> SubSeq(pile, 4, Len(pile)),
                revealedPrize      |-> None,
                discardPile        |-> {},
                unlockedUpperSlots |-> {}]
  /\ \E shuffled \in [Seats -> CardShuffles] :
       /\ hand = [s \in Seats |-> TopOf(shuffled[s], HandSize)]
       /\ deck = [s \in Seats |-> Rest(shuffled[s], HandSize)]
  /\ wonPrizes = [s \in Seats |-> {}]
  /\ phase = "auction-active"
  /\ auction = [openerSeat |-> 1, activeSeat |-> 1, highestBid |-> None,
                passedSeats |-> <<>>, winnerSeat |-> None]
  /\ winner = {}
-----------------------------------------------------------------------------
(* Cards and scores                                                        *)

(* Every seat s draws n[s] cards, or as many as its deck still has.        *)
DrawCards(n) ==
  /\ hand' = [s \in Seats |-> hand[s] \cup TopOf(deck[s], n[s])]
  /\ deck' = [s \in Seats |-> Rest(deck[s], n[s])]

(* v1: the winner and the first to pass draw; v2: the first two to pass.   *)
PostAuctionDraw(s) ==
  LET passed == auction.passedSeats
      drawers == IF rulesetVersion = "v1"
                   THEN {auction.winnerSeat} \cup {passed[i] : i \in 1 .. Least(1, Len(passed))}
                   ELSE {passed[i] : i \in 1 .. Least(2, Len(passed))}
  IN  IF s \in drawers THEN 1 ELSE 0

Triangular(n) == (n * (n + 1)) \div 2

(* Points, and a bonus for the most common color.                          *)
Score(prizes) ==
  LET ofColor(c) == Cardinality({p \in prizes : Color[p] = c})
      total == MapThenSumSet(LAMBDA p : Points[p], prizes)
  IN  IF prizes = {} THEN total
      ELSE total + Triangular(Max({ofColor(Color[p]) : p \in prizes}))

DetermineWinners(won) == {s \in Seats : \A t \in Seats : Score(won[t]) <= Score(won[s])}
-----------------------------------------------------------------------------
(* The auction                                                             *)

Amount(cards) == SumSet(cards)

Threshold == IF auction.highestBid = None THEN 0 ELSE Amount(auction.highestBid.cards)

StartAuction(opener) ==
  [openerSeat |-> opener, activeSeat |-> opener, highestBid |-> None,
   passedSeats |-> <<>>, winnerSeat |-> None]

NextSeat(s) == IF s = NumSeats THEN 1 ELSE s + 1

NonPassed(a) == Seats \ Elements(a.passedSeats)

(* Steps from one seat to another in turn order, at least one.             *)
Distance(from, to) == IF to > from THEN to - from ELSE to - from + NumSeats

NextActive(a) ==
  CHOOSE s \in NonPassed(a) :
    \A t \in NonPassed(a) : Distance(a.activeSeat, s) <= Distance(a.activeSeat, t)

ResolveAuctionNoWinner(a) ==
  LET b == ShiftDisplay(board)
  IN  /\ board' = b
      /\ IF IsGameOver(b)
           THEN phase' = "ended" /\ winner' = DetermineWinners(wonPrizes) /\ auction' = a
           ELSE /\ auction' = StartAuction(NextSeat(a.openerSeat))
                /\ phase' = "auction-active"
                /\ UNCHANGED winner
      /\ UNCHANGED <<deck, hand, wonPrizes>>

(* Mutant of PayBid: the winner keeps the committed cards.                 *)
PayNothing(bid) == UNCHANGED hand

PayBid(bid) == hand' = [hand EXCEPT ![bid.seat] = @ \ bid.cards]

ResolveAuctionWin(a) ==
  /\ auction' = [a EXCEPT !.winnerSeat = a.highestBid.seat]
  /\ PayBid(a.highestBid)
  /\ phase' = "awaiting-prize-choice"
  /\ UNCHANGED <<board, deck, wonPrizes, winner>>

(* Mutant of OnlyTheHighestBidderIsLeft: the winner has to pass as well.   *)
NobodyIsLeft(a) == a.highestBid # None /\ NonPassed(a) = {}

OnlyTheHighestBidderIsLeft(a) ==
  a.highestBid # None /\ NonPassed(a) = {a.highestBid.seat}

(* After a bid or a pass.                                                  *)
AdvanceAuction(a) ==
  \/ NonPassed(a) = {} /\ ResolveAuctionNoWinner(a)
  \/ OnlyTheHighestBidderIsLeft(a) /\ ResolveAuctionWin(a)
  \/ /\ NonPassed(a) # {}
     /\ ~ OnlyTheHighestBidderIsLeft(a)
     /\ auction' = [a EXCEPT !.activeSeat = NextActive(a)]
     /\ UNCHANGED <<board, deck, hand, wonPrizes, phase, winner>>

IsSeatsTurn(seat) == phase = "auction-active" /\ auction.activeSeat = seat

PlaceBid(seat, cards) ==
  /\ IsSeatsTurn(seat)
  /\ cards # {} /\ cards \subseteq hand[seat]
  /\ Amount(cards) > Threshold
  /\ AdvanceAuction([auction EXCEPT !.highestBid = [seat |-> seat, cards |-> cards]])
  /\ UNCHANGED <<rulesetVersion, price>>

Pass(seat) ==
  /\ IsSeatsTurn(seat)
  /\ AdvanceAuction([auction EXCEPT !.passedSeats = Append(@, seat)])
  /\ UNCHANGED <<rulesetVersion, price>>
-----------------------------------------------------------------------------
(* Prizes and rewards                                                      *)

(* The priciest slot within the winning bid, occupied or not.              *)
SlotIndexForBid ==
  LET affordable == {i \in Slots : price[i] <= Threshold}
  IN  IF affordable = {} THEN None ELSE Max(affordable)

PrizesToTake == IF SlotIndexForBid = None THEN {} ELSE board.slots[SlotIndexForBid]

(* Cards are drawn after an auction on top of the n[s] already due.        *)
ConcludeAuction(b, n) ==
  /\ board' = b
  /\ DrawCards([s \in Seats |-> n[s] + PostAuctionDraw(s)])
  /\ IF IsGameOver(b)
       THEN phase' = "ended" /\ winner' = DetermineWinners(wonPrizes') /\ UNCHANGED auction
       ELSE /\ auction' = StartAuction(auction.winnerSeat)
            /\ phase' = "auction-active"
            /\ UNCHANGED winner

(* What follows a prize or a reward, once the display has moved to b: the  *)
(* game ends, the next prize is revealed, or there is none left.           *)
AfterPrizeChoice(b, n) ==
  \/ /\ IsGameOver(b)
     /\ board' = b /\ DrawCards(n)
     /\ phase' = "ended" /\ winner' = DetermineWinners(wonPrizes')
     /\ UNCHANGED auction
  \/ /\ ~ IsGameOver(b) /\ b.prizeDeck # <<>>
     /\ board' = Reveal(b) /\ DrawCards(n)
     /\ phase' = "awaiting-new-prize-placement"
     /\ UNCHANGED <<auction, winner>>
  \/ /\ ~ IsGameOver(b) /\ b.prizeDeck = <<>>
     /\ ConcludeAuction(b, n)

TakePrize(seat, prize) ==
  LET i == SlotIndexForBid
  IN  /\ phase = "awaiting-prize-choice" /\ auction.winnerSeat = seat
      /\ prize \in PrizesToTake
      /\ wonPrizes' = [wonPrizes EXCEPT ![seat] = @ \cup {prize}]
      /\ AfterPrizeChoice(ShiftDisplay([board EXCEPT !.slots[i] = @ \ {prize}]),
                          [s \in Seats |-> 0])
      /\ UNCHANGED <<rulesetVersion, price>>

CardsForRewardTier(i) ==
  IF i = None THEN 2 ELSE IF i <= 1 THEN 2 ELSE IF i <= 3 THEN 3 ELSE 4

(* v1: one of a card, an extra shift and an extra prize; v2: cards by the  *)
(* slot the bid points to, and either, both or none of the other two.      *)
Rewards ==
  LET reward(cards, shift, prize) == [cards |-> cards, extraShift |-> shift, addPrize |-> prize]
  IN  IF rulesetVersion = "v1"
        THEN {reward(1, FALSE, FALSE), reward(0, TRUE, FALSE), reward(0, FALSE, TRUE)}
        ELSE {reward(CardsForRewardTier(SlotIndexForBid), shift, prize) :
                shift \in BOOLEAN, prize \in BOOLEAN}

(* The extra shift comes before the round's own, the extra prize after it. *)
ChooseAuctionReward(seat, reward) ==
  LET extra == IF reward.extraShift THEN ShiftDisplay(board) ELSE board
      shifted == ShiftDisplay(extra)
  IN  /\ phase = "awaiting-prize-choice" /\ auction.winnerSeat = seat
      /\ PrizesToTake = {}
      /\ reward \in Rewards
      /\ UNCHANGED wonPrizes
      /\ AfterPrizeChoice(IF reward.addPrize THEN AddPrize(shifted) ELSE shifted,
                          [s \in Seats |-> IF s = seat THEN reward.cards ELSE 0])
      /\ UNCHANGED <<rulesetVersion, price>>

(* v1: any slot but a locked upper one, occupied or not; v2: the lowest.   *)
PlacementSlots ==
  IF rulesetVersion = "v1" THEN Slots \ (UpperSlots \ board.unlockedUpperSlots) ELSE {0}

PlaceNewPrize(seat, i) ==
  /\ phase = "awaiting-new-prize-placement" /\ auction.winnerSeat = seat
  /\ board.revealedPrize # None
  /\ i \in PlacementSlots
  /\ UNCHANGED <<rulesetVersion, price, wonPrizes>>
  /\ ConcludeAuction(Place(board, i), [s \in Seats |-> 0])

Move(seat) ==
  \/ \E cards \in SUBSET hand[seat] : PlaceBid(seat, cards)
  \/ Pass(seat)
  \/ \E prize \in Prizes : TakePrize(seat, prize)
  \/ \E reward \in Rewards : ChooseAuctionReward(seat, reward)
  \/ \E i \in Slots : PlaceNewPrize(seat, i)

(* A finished game stays as it is.                                         *)
Over == phase = "ended" /\ UNCHANGED vars

Next == (\E seat \in Seats : Move(seat)) \/ Over

Spec == Init /\ [][Next]_vars
-----------------------------------------------------------------------------
(* Safety                                                                  *)

(* The places of a prize in the order in which it goes through them: down  *)
(* in the pile, revealed, on display in a slot, and discarded or won.      *)
InPile(i) == -1 - i
Revealed == -1
Discarded == LastSlot + 1
WonBy(s) == Discarded + s

PlacesOn(b, p) ==
  {InPile(i) : i \in {i \in 1 .. Len(b.prizeDeck) : b.prizeDeck[i] = p}}
    \cup {k \in {Revealed} : b.revealedPrize = p}
    \cup {k \in Slots : p \in b.slots[k]}
    \cup {k \in {Discarded} : p \in b.discardPile}

PlacesOf(p) == PlacesOn(board, p) \cup {WonBy(s) : s \in {s \in Seats : p \in wonPrizes[s]}}

(* Drifting, aging out, replacing, adding, revealing, placing and taking   *)
(* neither lose a prize nor make a second one of it.                       *)
PrizesConserved ==
  \A p \in Prizes : PlacesOf(p) # {} /\ \A x, y \in PlacesOf(p) : x = y

(* Whose turn it is has not passed, and the highest bidder waits: it can   *)
(* neither outbid itself nor pass, so whoever is left at the end has won   *)
(* (advanceAuction never has to look for a bidder that has left).          *)
HighBidderWaits ==
  phase = "auction-active" =>
    /\ auction.activeSeat \in NonPassed(auction)
    /\ auction.highestBid # None =>
         /\ auction.highestBid.seat \in NonPassed(auction)
         /\ auction.highestBid.seat # auction.activeSeat

Gone == board.discardPile \cup UNION {wonPrizes[s] : s \in Seats}

(* The game has ended exactly when every prize is won or discarded: it     *)
(* does not end over a prize that could still be had, a revealed one       *)
(* included, and never asks for bids on nothing.                           *)
EndsWhenSoldOut == (phase = "ended") <=> (Gone = Prizes)

(* A prize is won only for a bid that reaches the price of its slot, and   *)
(* after the cards of that bid have left the winner's hand and deck.       *)
PrizesArePaidFor ==
  [][\A s \in Seats : \A p \in wonPrizes'[s] \ wonPrizes[s] :
       /\ auction.highestBid # None /\ auction.highestBid.seat = s
       /\ auction.highestBid.cards \cap (hand[s] \cup Elements(deck[s])) = {}
       /\ \E i \in Slots : p \in board.slots[i] /\ price[i] <= Amount(auction.highestBid.cards)]_vars

(* No move brings a prize back; one that is discarded or won stays there;  *)
(* and what is on display goes on with every prize or reward, and with     *)
(* every auction that nobody won.                                          *)
DisplayShifts ==
  \/ phase = "awaiting-prize-choice"
  \/ phase = "auction-active" /\ auction'.openerSeat # auction.openerSeat

PrizesMoveOn ==
  [][\A p \in Prizes : \A k \in PlacesOf(p), l \in PlacesOf(p)' :
       /\ k <= l
       /\ k >= Discarded => k = l
       /\ k \in Slots /\ DisplayShifts => k < l]_vars

(* Every move counts: within an auction it raises the bid, adds a pass or  *)
(* decides the auction, and any other move brings a prize on.  As prizes   *)
(* never come back and cards and seats run out, every game ends, even if   *)
(* all pass for ever and whatever the order of the moves.                  *)
SameAuction ==
  /\ auction'.openerSeat = auction.openerSeat
  /\ \/ Threshold' > Threshold
     \/ Len(auction'.passedSeats) > Len(auction.passedSeats)

EveryMoveCounts ==
  [][\/ phase = "auction-active" /\ SameAuction
     \/ \E p \in Prizes : PlacesOf(p)' # PlacesOf(p)]_vars
=============================================================================
