------------------------------- MODULE Detour -------------------------------
(***************************************************************************)
(* The rules engine of Detour (packages/engine-detour): a seat covers a    *)
(* cell of a board that wraps around with a card, the card's value says in *)
(* which direction the pawn leaves, and the pawn runs on for as long as it *)
(* lands on cells of the seat that moves it.                               *)
(*                                                                         *)
(* A step is one accepted card: the placement, the run of the pawn, the    *)
(* draw and, with the last card of the game, the final scores.  Hands are  *)
(* sets; a deck is a sequence that is drawn from its end.                  *)
(***************************************************************************)
EXTENDS Integers, Sequences, FiniteSetsExt

CONSTANTS NumSeats,
          Rows, Cols,
          HandSize,      \* cards dealt to each seat
          BoardShuffles, \* values the cells may be dealt, in reading order
          CardShuffles,  \* orders a seat's cards may be shuffled into: in the
                         \* code every value once, in an instance perhaps fewer
          DeckIds        \* deck rotations the seats may be given, by seat

Seats  == 1 .. NumSeats
Values == 1 .. (Rows * Cols)
Cells  == (0 .. Rows - 1) \X (0 .. Cols - 1)
Neutral == 0

Directions == {"up", "left", "right", "down"}

IsShuffleOf(cards, S) ==
  /\ cards \in Seq(S) /\ Len(cards) = Cardinality(S)
  /\ \A v \in S : \E i \in 1 .. Len(cards) : cards[i] = v

ASSUME SeatsAssumption == NumSeats \in Nat \ {0}
ASSUME BoardAssumption ==
  /\ Rows \in Nat \ {0} /\ Cols \in Nat \ {0} /\ Rows * Cols > 1
  /\ \A values \in BoardShuffles : IsShuffleOf(values, Values)
ASSUME CardsAssumption ==
  /\ HandSize \in Nat \ {0}
  /\ \A cards \in CardShuffles :
       /\ cards \in Seq(Values) /\ Len(cards) >= HandSize
       /\ \A i, j \in 1 .. Len(cards) : cards[i] = cards[j] => i = j
       /\ \A others \in CardShuffles : Len(others) = Len(cards)
  /\ DeckIds \subseteq [Seats -> {"A", "B", "C", "D"}]

VARIABLES
  hand, deck,  \* of each seat
  deckId,      \* the rotation of directions each seat plays with
  score,
  cells,       \* value and owner of each cell
  pawnCell, activeSeat, phase, winner

vars == <<hand, deck, deckId, score, cells, pawnCell, activeSeat, phase, winner>>

TypeOK ==
  /\ hand \in [Seats -> SUBSET Values]
  /\ deck \in [Seats -> Seq(Values)]
  /\ deckId \in [Seats -> {"A", "B", "C", "D"}]
  /\ score \in [Seats -> Nat]
  /\ cells \in [Cells -> [value : Values, owner : Seats \cup {Neutral}]]
  /\ pawnCell \in Cells
  /\ activeSeat \in Seats
  /\ phase \in {"playing", "ended"}
  /\ winner \in SUBSET Seats

-----------------------------------------------------------------------------
CellInDirection(cell, direction) ==
  CASE direction = "up"    -> <<(cell[1] + Rows - 1) % Rows, cell[2]>>
    [] direction = "down"  -> <<(cell[1] + 1) % Rows, cell[2]>>
    [] direction = "left"  -> <<cell[1], (cell[2] + Cols - 1) % Cols>>
    [] direction = "right" -> <<cell[1], (cell[2] + 1) % Cols>>

DeckRotations ==
  [A |-> <<"up", "left", "right", "down">>,
   B |-> <<"left", "right", "down", "up">>,
   C |-> <<"right", "down", "up", "left">>,
   D |-> <<"down", "up", "left", "right">>]

DirectionFor(rotation, value) == DeckRotations[rotation][((value - 1) % 4) + 1]

(* Mutant: the cell under the pawn counts as a smaller one to cover.       *)
HasSmallerCell(value) == \E c \in Cells : cells[c].value < value

(* A card may cover a smaller value, or anything when nothing is smaller;  *)
(* never the cell the pawn is on.                                          *)
HasLegalTarget(value) == \E c \in Cells : c # pawnCell /\ cells[c].value < value

IsLegalPlacement(value, target) ==
  /\ target # pawnCell
  /\ cells[target].value < value \/ ~HasLegalTarget(value)

(* A turn of the loop that moves the pawn, over the loop's variables; the  *)
(* loop ends before a cell that it has visited, and on one that is not the *)
(* seat's.  Every cell of the seat's is a point, and turns the run.        *)
Turn(board, seat, run) ==
  LET next == CellInDirection(run.current, run.direction)
      own  == board[next].owner = seat
  IN IF run.ended THEN run
     ELSE IF next \in run.visited THEN [run EXCEPT !.ended = TRUE]
     ELSE [current   |-> next,
           visited   |-> run.visited \cup {next},
           points    |-> IF own THEN run.points + 1 ELSE run.points,
           direction |-> IF own THEN DirectionFor(deckId[seat], board[next].value)
                                ELSE run.direction,
           ended     |-> ~own]

(* As every turn but the last visits one more cell, so many end the loop.  *)
MaxTurns == Cardinality(Cells) + 1

(* Mutant: a run also stops before the cell it set out from.               *)
RunNotBackToStart(board, seat, start, firstDirection) ==
  LET run[n \in 0 .. MaxTurns] ==
        IF n = 0
        THEN [current |-> start, visited |-> {start}, points |-> 0,
              direction |-> firstDirection, ended |-> FALSE]
        ELSE Turn(board, seat, run[n - 1])
  IN [pawnCell |-> run[MaxTurns].current, points |-> run[MaxTurns].points]

(* The pawn's run.  The cell it sets out from does not count as visited.   *)
ResolveChain(board, seat, start, firstDirection) ==
  LET run[n \in 0 .. MaxTurns] ==
        IF n = 0
        THEN [current |-> start, visited |-> {}, points |-> 0,
              direction |-> firstDirection, ended |-> FALSE]
        ELSE Turn(board, seat, run[n - 1])
  IN [pawnCell |-> run[MaxTurns].current, points |-> run[MaxTurns].points]

IsGameOver(hands, decks) == \A s \in Seats : hands[s] = {} /\ decks[s] = <<>>

(* Every cell a seat owns at the end is one more point.                    *)
ComputeFinalScores(points, board) ==
  [s \in Seats |-> points[s] + Cardinality({c \in Cells : board[c].owner = s})]

DetermineWinners(scores) == {s \in Seats : \A o \in Seats : scores[o] <= scores[s]}

(* Mutant: the turn does not come round.                                   *)
NextSeatUp(seat) == seat + 1

NextSeat(seat) == (seat % NumSeats) + 1

-----------------------------------------------------------------------------
(* The pawn starts on the cell dealt the highest value.                    *)
DealGame(values, cards) ==
  LET Position(c) == c[1] * Cols + c[2] + 1
  IN /\ cells = [c \in Cells |-> [value |-> values[Position(c)], owner |-> Neutral]]
     /\ pawnCell = CHOOSE c \in Cells : values[Position(c)] = Rows * Cols
     /\ hand = [s \in Seats |-> {cards[s][i] : i \in 1 .. HandSize}]
     /\ deck = [s \in Seats |-> SubSeq(cards[s], HandSize + 1, Len(cards[s]))]
     /\ deckId \in DeckIds
     /\ score = [s \in Seats |-> 0]
     /\ activeSeat = 1
     /\ phase = "playing"
     /\ winner = {}

Init == \E values \in BoardShuffles, cards \in [Seats -> CardShuffles] : DealGame(values, cards)

Drawn(seat) == IF deck[seat] = <<>> THEN {} ELSE {deck[seat][Len(deck[seat])]}

(* Mutant: the drawn card stays in the deck.                               *)
DrawnFromUnpopped(pile) == pile

DrawnFrom(pile) == IF pile = <<>> THEN pile ELSE SubSeq(pile, 1, Len(pile) - 1)

EndOrNextSeat(seat, points) ==
  IF IsGameOver(hand', deck')
  THEN /\ score' = ComputeFinalScores(points, cells')
       /\ winner' = DetermineWinners(score')
       /\ phase' = "ended"
       /\ UNCHANGED activeSeat
  ELSE /\ score' = points
       /\ activeSeat' = NextSeat(seat)
       /\ UNCHANGED <<winner, phase>>

(* The handlers let a command through only for a value and a cell of the   *)
(* game; the engine does not ask whether the game has ended, because then  *)
(* no hand has a card.                                                     *)
PlayCard(seat, value, target) ==
  /\ seat = activeSeat
  /\ value \in hand[seat]
  /\ IsLegalPlacement(value, target)
  /\ cells' = [cells EXCEPT ![target] = [value |-> value, owner |-> seat]]
  /\ LET chain == ResolveChain(cells', seat, pawnCell, DirectionFor(deckId[seat], value))
     IN /\ pawnCell' = chain.pawnCell
        /\ hand' = [hand EXCEPT ![seat] = (@ \ {value}) \cup Drawn(seat)]
        /\ deck' = [deck EXCEPT ![seat] = DrawnFrom(@)]
        /\ EndOrNextSeat(seat, [score EXCEPT ![seat] = @ + chain.points])
  /\ UNCHANGED deckId

(* A finished game stays as it is.                                         *)
Finished == phase = "ended" /\ UNCHANGED vars

Next ==
  \/ \E seat \in Seats, value \in Values, target \in Cells : PlayCard(seat, value, target)
  \/ Finished

Spec == Init /\ [][Next]_vars

-----------------------------------------------------------------------------
(* While the game lasts the seat to move holds a card it can play: no seat *)
(* runs out before the others, and no card is stuck.  A seat that could    *)
(* not move would stop the room for good, as there is no pass.             *)
MoverCanMove ==
  phase = "playing" =>
    \E value \in hand[activeSeat], target \in Cells : IsLegalPlacement(value, target)

(* A card of a seat is in its hand, at one place of its deck, visible on   *)
(* one cell, or covered: never in two of these places.                     *)
CardsInOnePlace ==
  \A s \in Seats :
    /\ \A i \in 1 .. Len(deck[s]) : deck[s][i] \notin hand[s]
    /\ \A i, j \in 1 .. Len(deck[s]) : deck[s][i] = deck[s][j] => i = j
    /\ \A c \in Cells : cells[c].owner = s =>
         /\ cells[c].value \notin hand[s]
         /\ \A i \in 1 .. Len(deck[s]) : deck[s][i] # cells[c].value
         /\ \A d \in Cells : cells[d] = cells[c] => d = c

(* What a run is, stated on its whole track: distinct cells, each where    *)
(* the arrow of the one before points, all of the seat's but perhaps the   *)
(* last, and ending where the next arrow would close a loop or has left    *)
(* the seat's cells.                                                       *)
IsRun(track, board, seat, start, firstDirection) ==
  LET Own(c)   == board[c].owner = seat
      After(c) == CellInDirection(c, DirectionFor(deckId[seat], board[c].value))
      last     == track[Len(track)]
  IN /\ track[1] = CellInDirection(start, firstDirection)
     /\ \A i \in 1 .. Len(track) - 1 : Own(track[i]) /\ track[i + 1] = After(track[i])
     /\ \A i, j \in 1 .. Len(track) : track[i] = track[j] => i = j
     /\ Own(last) => \E i \in 1 .. Len(track) : track[i] = After(last)

(* A move runs the pawn along such a track and earns the mover one point   *)
(* for each of its cells on it, and nobody anything else before the end.   *)
(* The search for the track is over the board as the card has changed it.  *)
RunIsFollowed(seat, value) ==
  LET Own(c)   == cells'[c].owner = seat
      After(c) == CellInDirection(c, DirectionFor(deckId[seat], cells'[c].value))
      first    == CellInDirection(pawnCell, DirectionFor(deckId[seat], value))
      track[n \in 1 .. Cardinality(Cells)] ==
        IF n = 1 THEN <<first>>
        ELSE LET before == track[n - 1]
                 last   == before[Len(before)]
                 next   == After(last)
             IN IF Own(last) /\ \A i \in 1 .. Len(before) : before[i] # next
                THEN Append(before, next) ELSE before
      run == track[Cardinality(Cells)]
  IN /\ IsRun(run, cells', seat, pawnCell, DirectionFor(deckId[seat], value))
     /\ pawnCell' = run[Len(run)]
     /\ LET points == Cardinality({i \in 1 .. Len(run) : Own(run[i])})
        IN score' = IF phase' = "ended"
                    THEN [s \in Seats |-> score[s] + (IF s = seat THEN points ELSE 0)
                                          + Cardinality({c \in Cells : cells'[c].owner = s})]
                    ELSE [score EXCEPT ![seat] = @ + points]

PawnFollowsArrows ==
  [][\A value \in hand[activeSeat] \ hand'[activeSeat] : RunIsFollowed(activeSeat, value)]_vars

=============================================================================
