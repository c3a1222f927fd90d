---------------------------- MODULE DetourProofs ----------------------------
(***************************************************************************)
(* Proofs about Detour: its types, that a card is in one place, that the   *)
(* seat to move always can, and that the pawn follows the arrows, on a     *)
(* board of any size, for any cards and any number of seats.               *)
(***************************************************************************)
EXTENDS Detour, FiniteSetTheorems, WellFoundedInduction, TLAPS

USE DEF Seats

-----------------------------------------------------------------------------
(* Recursion                                                               *)

(* Induction over the numbers, for a set.                                  *)
LEMMA SetInduction ==
  ASSUME NEW T, 0 \in T, \A n \in Nat : n \in T => n + 1 \in T
  PROVE  \A n \in Nat : n \in T
  <1> SUFFICES ASSUME Nat \ T # {} PROVE FALSE
    OBVIOUS
  <1> DEFINE R == {ss \in Nat \X Nat : ss[1] < ss[2]}
  <1>1. IsWellFoundedOn(R, Nat)
    BY NatLessThanWellFounded, Zenon DEF OpToRel
  <1>2. PICK m \in Nat \ T : \A n \in Nat \ T : ~ (<<n, m>> \in R)
    <2> HIDE DEF R
    <2> QED BY <1>1, WFMin
  <1>3. m # 0 /\ m - 1 \in Nat /\ <<m - 1, m>> \in R
    OBVIOUS
  <1>4. m - 1 \in T
    BY <1>2, <1>3
  <1> QED
    BY <1>3, <1>4

(* f repeats a step N times from a.                                        *)
Repeats(f, N, S, a, step) ==
  /\ f \in [0 .. N -> S] /\ f[0] = a
  /\ \A n \in 1 .. N : f[n] = step[f[n - 1]]

LEMMA Repetition ==
  ASSUME NEW S, NEW a \in S, NEW step \in [S -> S], NEW N \in Nat
  PROVE  \E f : Repeats(f, N, S, a, step)
  <1> DEFINE T == {M \in Nat : \E f : Repeats(f, M, S, a, step)}
  <1>1. 0 \in T
    <2>1. Repeats([n \in 0 .. 0 |-> a], 0, S, a, step)
      BY DEF Repeats
    <2> QED BY <2>1
  <1>2. ASSUME NEW M \in Nat, M \in T PROVE M + 1 \in T
    <2>1. PICK f : Repeats(f, M, S, a, step)
      BY <1>2
    <2> DEFINE g == [n \in 0 .. M + 1 |-> IF n = M + 1 THEN step[f[M]] ELSE f[n]]
    <2>2. g \in [0 .. M + 1 -> S]
      BY <2>1 DEF Repeats
    <2>3. g[0] = a
      BY <2>1 DEF Repeats
    <2>4. ASSUME NEW n \in 1 .. M + 1 PROVE g[n] = step[g[n - 1]]
      BY <2>1 DEF Repeats
    <2> HIDE DEF g
    <2>5. Repeats(g, M + 1, S, a, step)
      BY <2>2, <2>3, <2>4 DEF Repeats
    <2> QED BY <2>5
  <1>3. \A M \in Nat : M \in T
    <2> HIDE DEF T
    <2> QED BY <1>1, <1>2, SetInduction
  <1> QED
    BY <1>3
-----------------------------------------------------------------------------
(* The board                                                               *)

LEMMA NeighbourIsACell ==
  ASSUME NEW cell \in Cells, NEW direction \in Directions
  PROVE  CellInDirection(cell, direction) \in Cells
  <1>1. Rows \in Nat /\ Rows > 0 /\ Cols \in Nat /\ Cols > 0
    BY BoardAssumption
  <1>2. \A n \in Nat : n % Rows \in 0 .. Rows - 1 /\ n % Cols \in 0 .. Cols - 1
    BY <1>1
  <1>3. cell[1] \in 0 .. Rows - 1 /\ cell[2] \in 0 .. Cols - 1
    BY DEF Cells
  <1>4. /\ cell[1] + Rows - 1 \in Nat /\ cell[1] + 1 \in Nat
        /\ cell[2] + Cols - 1 \in Nat /\ cell[2] + 1 \in Nat
    BY <1>1, <1>3
  <1> QED
    BY <1>2, <1>3, <1>4 DEF CellInDirection, Cells, Directions

Rotations == {"A", "B", "C", "D"}

LEMMA ArrowIsADirection ==
  ASSUME NEW rotation \in Rotations, NEW value \in Values
  PROVE  DirectionFor(rotation, value) \in Directions
  <1>1. ((value - 1) % 4) + 1 \in {1, 2, 3, 4}
    BY DEF Values
  <1> QED
    BY <1>1 DEF DirectionFor, DeckRotations, Directions, Rotations

LEMMA CellsAreFinite ==
  IsFiniteSet(Cells) /\ Cardinality(Cells) \in Nat \ {0}
  <1>1. Rows \in Nat /\ Rows > 0 /\ Cols \in Nat /\ Cols > 0
    BY BoardAssumption
  <1>2. IsFiniteSet(0 .. Rows - 1) /\ IsFiniteSet(0 .. Cols - 1)
    BY <1>1, FS_Interval
  <1>3. IsFiniteSet(Cells)
    BY <1>2, FS_Product DEF Cells
  <1>4. <<0, 0>> \in Cells
    BY <1>1 DEF Cells
  <1> QED
    BY <1>3, <1>4, FS_EmptySet, FS_CardinalityType

(* Every value of a shuffle is dealt to a cell, and every cell gets one.   *)
LEMMA Positions ==
  /\ \A c \in Cells : c[1] * Cols + c[2] + 1 \in 1 .. Rows * Cols
  /\ \A i \in 1 .. Rows * Cols : \E c \in Cells : c[1] * Cols + c[2] + 1 = i
  /\ Rows * Cols \in Values
  <1>1. Rows \in Nat /\ Rows > 0 /\ Cols \in Nat /\ Cols > 0 /\ Rows * Cols > 1
    BY BoardAssumption
  <1>2. Rows * Cols \in Nat
    BY <1>1
  <1>3. ASSUME NEW c \in Cells PROVE c[1] * Cols + c[2] + 1 \in 1 .. Rows * Cols
    <2>1. c[1] \in 0 .. Rows - 1 /\ c[2] \in 0 .. Cols - 1
      BY DEF Cells
    <2> DEFINE k == Rows - 1 - c[1]
    <2>2. k \in Nat /\ c[1] \in Nat /\ k * Cols \in Nat /\ c[1] * Cols \in Nat
      BY <1>1, <2>1
    <2>3. Rows = c[1] + k + 1
      BY <1>1, <2>1
    <2>4. (c[1] + k + 1) * Cols = c[1] * Cols + k * Cols + Cols
      BY <1>1, <2>2
    <2> HIDE DEF k
    <2> QED BY <1>1, <2>1, <2>2, <2>3, <2>4
  <1>4. ASSUME NEW i \in 1 .. Rows * Cols
        PROVE  \E c \in Cells : c[1] * Cols + c[2] + 1 = i
    <2> DEFINE T == {n \in Nat : n < Rows * Cols =>
                        \E c \in Cells : c[1] * Cols + c[2] = n}
    <2>1. 0 \in T
      <3>1. <<0, 0>> \in Cells /\ 0 * Cols + 0 = 0
        BY <1>1 DEF Cells
      <3> QED BY <3>1
    <2>2. ASSUME NEW n \in Nat, n \in T PROVE n + 1 \in T
      <3> SUFFICES ASSUME n + 1 < Rows * Cols
                   PROVE  \E c \in Cells : c[1] * Cols + c[2] = n + 1
        BY <1>2
      <3>1. PICK c \in Cells : c[1] * Cols + c[2] = n
        BY <1>2, <2>2
      <3>2. c[1] \in 0 .. Rows - 1 /\ c[2] \in 0 .. Cols - 1
        BY DEF Cells
      <3>3. CASE c[2] < Cols - 1
        <4>1. <<c[1], c[2] + 1>> \in Cells
          BY <1>1, <3>2, <3>3 DEF Cells
        <4>2. c[1] * Cols \in Nat
          BY <1>1, <3>2
        <4>3. c[1] * Cols + (c[2] + 1) = n + 1
          BY <3>1, <3>2, <4>2
        <4> QED BY <4>1, <4>3
      <3>4. CASE c[2] = Cols - 1
        <4>1. (c[1] + 1) * Cols = c[1] * Cols + Cols
          BY <1>1, <3>2
        <4>2. (c[1] + 1) * Cols = n + 1
          <5>1. c[1] * Cols \in Nat
            BY <1>1, <3>2
          <5> QED BY <1>1, <3>1, <3>4, <4>1, <5>1
        <4>3. c[1] + 1 # Rows
          BY <1>2, <4>2
        <4>4. <<c[1] + 1, 0>> \in Cells
          BY <1>1, <3>2, <4>3 DEF Cells
        <4>5. (c[1] + 1) * Cols + 0 = n + 1
          BY <4>2
        <4> QED BY <4>4, <4>5
      <3> QED
        BY <1>1, <3>2, <3>3, <3>4
    <2>3. \A n \in Nat : n \in T
      <3> HIDE DEF T
      <3> QED BY <2>1, <2>2, SetInduction
    <2>4. i - 1 \in Nat /\ i - 1 < Rows * Cols
      BY <1>2
    <2>5. PICK c \in Cells : c[1] * Cols + c[2] = i - 1
      BY <2>3, <2>4
    <2>6. c[1] \in 0 .. Rows - 1 /\ c[2] \in 0 .. Cols - 1
      BY DEF Cells
    <2>7. c[1] * Cols \in Nat
      BY <1>1, <2>6
    <2> QED BY <2>5, <2>6, <2>7
  <1> QED
    BY <1>1, <1>2, <1>3, <1>4 DEF Values
-----------------------------------------------------------------------------
(* The run of the pawn                                                     *)

(* The variables of the loop.                                              *)
Runs == [current : Cells, visited : SUBSET Cells, points : Nat,
         direction : Directions, ended : BOOLEAN]

Boards == [Cells -> [value : Values, owner : Seats \cup {Neutral}]]

SetOut(start, direction) ==
  [current |-> start, visited |-> {}, points |-> 0, direction |-> direction, ended |-> FALSE]

LEMMA TurnKeepsTypes ==
  ASSUME NEW board \in Boards, NEW seat, deckId[seat] \in Rotations, NEW run \in Runs
  PROVE  Turn(board, seat, run) \in Runs
  <1> DEFINE next == CellInDirection(run.current, run.direction)
  <1>1. next \in Cells
    BY NeighbourIsACell DEF Runs
  <1>2. DirectionFor(deckId[seat], board[next].value) \in Directions
    BY <1>1, ArrowIsADirection DEF Boards
  <1> HIDE DEF next
  <1>3. CASE run.ended
    BY <1>3 DEF Turn
  <1>4. CASE ~run.ended /\ next \in run.visited
    <2>1. Turn(board, seat, run) = [run EXCEPT !.ended = TRUE]
      BY <1>4 DEF Turn, next
    <2> QED BY <2>1 DEF Runs
  <1>5. CASE ~run.ended /\ next \notin run.visited
    <2> DEFINE own == board[next].owner = seat
    <2>1. Turn(board, seat, run) =
            [current   |-> next,
             visited   |-> run.visited \cup {next},
             points    |-> IF own THEN run.points + 1 ELSE run.points,
             direction |-> IF own THEN DirectionFor(deckId[seat], board[next].value)
                                  ELSE run.direction,
             ended     |-> ~own]
      BY <1>5 DEF Turn, next
    <2> HIDE DEF own
    <2> QED BY <2>1, <1>1, <1>2 DEF Runs
  <1> QED
    BY <1>3, <1>4, <1>5 DEF Runs

(* The loop as its turns, one after the other.                             *)
LEMMA LoopRuns ==
  ASSUME NEW board \in Boards, NEW seat, deckId[seat] \in Rotations,
         NEW start \in Cells, NEW direction \in Directions
  PROVE  \E run \in [0 .. MaxTurns -> Runs] :
           /\ run[0] = SetOut(start, direction)
           /\ \A n \in 1 .. MaxTurns : run[n] = Turn(board, seat, run[n - 1])
           /\ ResolveChain(board, seat, start, direction) =
                [pawnCell |-> run[MaxTurns].current, points |-> run[MaxTurns].points]
  <1> DEFINE N == MaxTurns
             run[n \in 0 .. N] ==
               IF n = 0
               THEN [current |-> start, visited |-> {}, points |-> 0,
                     direction |-> direction, ended |-> FALSE]
               ELSE Turn(board, seat, run[n - 1])
             step == [r \in Runs |-> Turn(board, seat, r)]
  <1>1. N \in Nat
    BY CellsAreFinite DEF MaxTurns
  <1>2. step \in [Runs -> Runs]
    BY TurnKeepsTypes
  <1>3. SetOut(start, direction) \in Runs
    BY DEF SetOut, Runs
  <1>4. PICK f : Repeats(f, N, Runs, SetOut(start, direction), step)
    <2> HIDE DEF step, N
    <2> QED BY <1>1, <1>2, <1>3, Repetition
  <1>5. f = [n \in 0 .. N |-> IF n = 0 THEN SetOut(start, direction)
                                       ELSE Turn(board, seat, f[n - 1])]
    <2> HIDE DEF N
    <2>1. ASSUME NEW n \in 1 .. N PROVE f[n] = Turn(board, seat, f[n - 1])
      <3>1. f[n - 1] \in Runs /\ f[n] = step[f[n - 1]]
        BY <1>1, <1>4 DEF Repeats
      <3> QED BY <3>1
    <2> QED BY <1>1, <1>4, <2>1 DEF Repeats
  <1>6. run = [n \in 0 .. N |-> IF n = 0 THEN SetOut(start, direction)
                                         ELSE Turn(board, seat, run[n - 1])]
    <2> HIDE DEF N
    <2> QED BY <1>5 DEF SetOut
  <1>7. ResolveChain(board, seat, start, direction) =
          [pawnCell |-> run[N].current, points |-> run[N].points]
    BY DEF ResolveChain
  <1> HIDE DEF run, N
  <1>8. run[0] = SetOut(start, direction) /\ \A n \in 1 .. N : run[n] = Turn(board, seat, run[n - 1])
    BY <1>1, <1>6
  <1>9. run \in [0 .. N -> Runs]
    <2> DEFINE T == {n \in Nat : n <= N => run[n] \in Runs}
    <2>1. 0 \in T
      BY <1>3, <1>8
    <2>2. ASSUME NEW n \in Nat, n \in T PROVE n + 1 \in T
      <3>1. n + 1 <= N => n \in 0 .. N /\ n + 1 \in 1 .. N /\ (n + 1) - 1 = n
        BY <1>1
      <3> QED BY <1>1, <1>8, <2>2, <3>1, TurnKeepsTypes
    <2>3. \A n \in Nat : n \in T
      <3> HIDE DEF T
      <3> QED BY <2>1, <2>2, SetInduction
    <2>4. \A n \in 0 .. N : run[n] \in Runs
      BY <1>1, <2>3
    <2> QED BY <1>6, <2>4
  <1> QED
    BY <1>7, <1>8, <1>9 DEF N
LEMMA ChainType ==
  ASSUME NEW board \in Boards, NEW seat, deckId[seat] \in Rotations,
         NEW start \in Cells, NEW direction \in Directions
  PROVE  /\ ResolveChain(board, seat, start, direction).pawnCell \in Cells
         /\ ResolveChain(board, seat, start, direction).points \in Nat
  <1>1. PICK run \in [0 .. MaxTurns -> Runs] :
          ResolveChain(board, seat, start, direction) =
            [pawnCell |-> run[MaxTurns].current, points |-> run[MaxTurns].points]
    BY LoopRuns
  <1>2. run[MaxTurns] \in Runs
    BY CellsAreFinite DEF MaxTurns
  <1> QED
    BY <1>1, <1>2 DEF Runs

-----------------------------------------------------------------------------
(* Types                                                                   *)

LEMMA DeckDrawn ==
  ASSUME NEW pile \in Seq(Values)
  PROVE  /\ DrawnFrom(pile) \in Seq(Values)
         /\ pile # <<>> => Len(DrawnFrom(pile)) = Len(pile) - 1
         /\ pile = <<>> => DrawnFrom(pile) = <<>>
         /\ Len(DrawnFrom(pile)) <= Len(pile)
         /\ \A i \in 1 .. Len(DrawnFrom(pile)) :
              i \in 1 .. Len(pile) /\ DrawnFrom(pile)[i] = pile[i]
  <1>1. CASE pile = <<>>
    BY <1>1 DEF DrawnFrom
  <1>2. CASE pile # <<>>
    <2> DEFINE m == Len(pile) - 1
    <2>1. m \in 0 .. Len(pile) /\ DrawnFrom(pile) = SubSeq(pile, 1, m)
      BY <1>2 DEF DrawnFrom
    <2> HIDE DEF m
    <2>2. /\ DrawnFrom(pile) \in Seq(Values) /\ Len(DrawnFrom(pile)) = m
          /\ \A i \in 1 .. m : DrawnFrom(pile)[i] = pile[i]
      BY <2>1
    <2> QED BY <1>2, <2>1, <2>2 DEF m
  <1> QED
    BY <1>1, <1>2

LEMMA InitialTypes ==
  Init => TypeOK
  <1> SUFFICES ASSUME Init PROVE TypeOK
    OBVIOUS
  <1> DEFINE Position(c) == c[1] * Cols + c[2] + 1
  <1>1. PICK values \in BoardShuffles, cards \in [Seats -> CardShuffles] : DealGame(values, cards)
    BY DEF Init
  <1>2. /\ values \in Seq(Values) /\ Len(values) = Rows * Cols
        /\ \A v \in Values : \E i \in 1 .. Rows * Cols : values[i] = v
    <2>1. Cardinality(Values) = Rows * Cols
      BY BoardAssumption, FS_Interval DEF Values
    <2> QED BY <2>1, BoardAssumption DEF IsShuffleOf
  <1>3. \A c \in Cells : Position(c) \in 1 .. Rows * Cols
    BY Positions
  <1>4. \A c \in Cells : values[Position(c)] \in Values
    <2> HIDE DEF Position
    <2> QED BY <1>2, <1>3
  <1>5. cells \in [Cells -> [value : Values, owner : Seats \cup {Neutral}]]
    <2>1. cells = [c \in Cells |-> [value |-> values[Position(c)], owner |-> Neutral]]
      BY <1>1 DEF DealGame
    <2> HIDE DEF Position
    <2> QED BY <1>4, <2>1
  <1>6. pawnCell \in Cells
    <2>1. pawnCell = CHOOSE c \in Cells : values[Position(c)] = Rows * Cols
      BY <1>1 DEF DealGame
    <2>2. \E c \in Cells : values[Position(c)] = Rows * Cols
      <3>1. PICK i \in 1 .. Rows * Cols : values[i] = Rows * Cols
        BY <1>2, Positions
      <3>2. PICK c \in Cells : Position(c) = i
        BY Positions
      <3> QED BY <3>1, <3>2
    <2> HIDE DEF Position
    <2> QED BY <2>1, <2>2
  <1>7. \A s \in Seats : /\ cards[s] \in Seq(Values) /\ Len(cards[s]) >= HandSize
                        /\ HandSize \in Nat
    BY CardsAssumption
  <1>8. hand \in [Seats -> SUBSET Values]
    <2>1. hand = [s \in Seats |-> {cards[s][i] : i \in 1 .. HandSize}]
      BY <1>1 DEF DealGame
    <2>2. \A s \in Seats : \A i \in 1 .. HandSize : cards[s][i] \in Values
      BY <1>7
    <2> QED BY <2>1, <2>2
  <1>9. deck \in [Seats -> Seq(Values)]
    <2>1. deck = [s \in Seats |-> SubSeq(cards[s], HandSize + 1, Len(cards[s]))]
      BY <1>1 DEF DealGame
    <2>2. ASSUME NEW s \in Seats PROVE SubSeq(cards[s], HandSize + 1, Len(cards[s])) \in Seq(Values)
      BY <1>7
    <2> QED BY <2>1, <2>2
  <1>10. deckId \in [Seats -> Rotations] /\ score \in [Seats -> Nat] /\ activeSeat \in Seats
    BY <1>1, CardsAssumption, SeatsAssumption DEF DealGame, Rotations
  <1>11. phase \in {"playing", "ended"} /\ winner \in SUBSET Seats
    BY <1>1 DEF DealGame
  <1> QED
    BY <1>5, <1>6, <1>8, <1>9, <1>10, <1>11 DEF TypeOK, Rotations

(* What a card does to the board, the pawn and the points.                 *)
LEMMA CardTypes ==
  ASSUME TypeOK, NEW seat \in Seats, NEW value \in Values, NEW target \in Cells,
         PlayCard(seat, value, target)
  PROVE  LET direction == DirectionFor(deckId[seat], value)
             chain == ResolveChain(cells', seat, pawnCell, direction)
         IN /\ cells' \in Boards /\ deckId[seat] \in Rotations /\ direction \in Directions
            /\ pawnCell' = chain.pawnCell /\ chain.pawnCell \in Cells
            /\ chain.points \in Nat
            /\ EndOrNextSeat(seat, [score EXCEPT ![seat] = @ + chain.points])
            /\ [score EXCEPT ![seat] = @ + chain.points] \in [Seats -> Nat]
  <1> DEFINE direction == DirectionFor(deckId[seat], value)
             chain == ResolveChain(cells', seat, pawnCell, direction)
  <1>1. cells' \in Boards
    BY DEF PlayCard, TypeOK, Boards
  <1>2. deckId[seat] \in Rotations
    BY DEF TypeOK, Rotations
  <1>3. direction \in Directions
    BY <1>2, ArrowIsADirection
  <1>4. pawnCell' = chain.pawnCell
        /\ EndOrNextSeat(seat, [score EXCEPT ![seat] = @ + chain.points])
    BY DEF PlayCard
  <1> HIDE DEF direction
  <1>5. chain.pawnCell \in Cells /\ chain.points \in Nat
    BY <1>1, <1>2, <1>3, ChainType DEF TypeOK
  <1> HIDE DEF chain
  <1>6. [score EXCEPT ![seat] = @ + chain.points] \in [Seats -> Nat]
    BY <1>5 DEF TypeOK
  <1> QED
    BY <1>1, <1>2, <1>3, <1>4, <1>5, <1>6 DEF chain, direction

LEMMA EndTypes ==
  ASSUME NEW points \in [Seats -> Nat], NEW board
  PROVE  ComputeFinalScores(points, board) \in [Seats -> Nat]
  <1> DEFINE owned(s) == {c \in Cells : board[c].owner = s}
  <1>1. \A s \in Seats : Cardinality(owned(s)) \in Nat
    BY CellsAreFinite, FS_Subset, FS_CardinalityType
  <1>2. ComputeFinalScores(points, board) = [s \in Seats |-> points[s] + Cardinality(owned(s))]
    BY DEF ComputeFinalScores
  <1> HIDE DEF owned
  <1> QED
    BY <1>1, <1>2

LEMMA NextTypes ==
  TypeOK /\ [Next]_vars => TypeOK'
  <1> SUFFICES ASSUME TypeOK, [Next]_vars PROVE TypeOK'
    OBVIOUS
  <1>1. ASSUME NEW seat \in Seats, NEW value \in Values, NEW target \in Cells,
               PlayCard(seat, value, target)
        PROVE  TypeOK'
    <2> DEFINE chain == ResolveChain(cells', seat, pawnCell, DirectionFor(deckId[seat], value))
               points == [score EXCEPT ![seat] = @ + chain.points]
    <2>1. /\ cells' \in Boards /\ pawnCell' \in Cells /\ points \in [Seats -> Nat]
          /\ EndOrNextSeat(seat, points)
      BY <1>1, CardTypes
    <2> HIDE DEF points
    <2>2. deck' \in [Seats -> Seq(Values)]
      BY <1>1, DeckDrawn DEF PlayCard, TypeOK
    <2>3. hand' \in [Seats -> SUBSET Values]
      <3>1. Drawn(seat) \subseteq Values
        <4>1. deck[seat] \in Seq(Values)
          BY DEF TypeOK
        <4> QED BY <4>1 DEF Drawn
      <3> QED BY <1>1, <3>1 DEF PlayCard, TypeOK
    <2>4. NextSeat(seat) \in Seats
      BY SeatsAssumption DEF NextSeat
    <2>5. ComputeFinalScores(points, cells') \in [Seats -> Nat]
      BY <2>1, EndTypes
    <2>6. /\ score' \in [Seats -> Nat] /\ activeSeat' \in Seats
          /\ phase' \in {"playing", "ended"} /\ winner' \in SUBSET Seats
      BY <2>1, <2>4, <2>5 DEF EndOrNextSeat, DetermineWinners, TypeOK
    <2>7. deckId' = deckId
      BY <1>1 DEF PlayCard
    <2> QED BY <2>1, <2>2, <2>3, <2>6, <2>7 DEF TypeOK, Boards
  <1>2. CASE Finished \/ UNCHANGED vars
    BY <1>2 DEF Finished, vars, TypeOK
  <1> QED
    BY <1>1, <1>2 DEF Next

(* Every variable of a game has its type: the pawn stays on the board, and *)
(* seats hold values of the game (types.ts).                               *)
THEOREM TypesHold == Spec => []TypeOK
  <1> QED
    BY InitialTypes, NextTypes, PTL DEF Spec
-----------------------------------------------------------------------------
(* Cards                                                                   *)

(* What a card moves: it goes to the board, and the last of the deck to    *)
(* the hand.                                                               *)
LEMMA CardMoved ==
  ASSUME TypeOK, NEW seat \in Seats, NEW value \in Values, NEW target \in Cells,
         PlayCard(seat, value, target)
  PROVE  /\ seat = activeSeat /\ value \in hand[seat]
         /\ \A s \in Seats : s # seat => hand'[s] = hand[s] /\ deck'[s] = deck[s]
         /\ hand'[seat] = (hand[seat] \ {value}) \cup Drawn(seat)
         /\ deck'[seat] = DrawnFrom(deck[seat])
         /\ cells'[target] = [value |-> value, owner |-> seat]
         /\ \A c \in Cells : c # target => cells'[c] = cells[c]
  <1>1. /\ hand' = [hand EXCEPT ![seat] = (@ \ {value}) \cup Drawn(seat)]
        /\ deck' = [deck EXCEPT ![seat] = DrawnFrom(@)]
        /\ cells' = [cells EXCEPT ![target] = [value |-> value, owner |-> seat]]
        /\ seat = activeSeat /\ value \in hand[seat]
    BY DEF PlayCard
  <1>2. hand \in [Seats -> SUBSET Values] /\ deck \in [Seats -> Seq(Values)]
        /\ cells \in [Cells -> [value : Values, owner : Seats \cup {Neutral}]]
    BY DEF TypeOK
  <1> QED
    BY <1>1, <1>2

LEMMA DealtOnce ==
  Init => CardsInOnePlace
  <1> SUFFICES ASSUME Init PROVE CardsInOnePlace
    OBVIOUS
  <1>1. PICK values \in BoardShuffles, cards \in [Seats -> CardShuffles] : DealGame(values, cards)
    BY DEF Init
  <1>2. \A c \in Cells : cells[c].owner = 0
    BY <1>1 DEF DealGame, Neutral
  <1> SUFFICES ASSUME NEW s \in Seats
               PROVE  /\ \A i \in 1 .. Len(deck[s]) : deck[s][i] \notin hand[s]
                      /\ \A i, j \in 1 .. Len(deck[s]) : deck[s][i] = deck[s][j] => i = j
    BY <1>2, SeatsAssumption DEF CardsInOnePlace
  <1> DEFINE all == cards[s]
  <1>3. /\ all \in Seq(Values) /\ HandSize \in Nat /\ Len(all) >= HandSize
        /\ \A i, j \in 1 .. Len(all) : all[i] = all[j] => i = j
    BY CardsAssumption
  <1>4. hand[s] = {all[i] : i \in 1 .. HandSize} /\ deck[s] = SubSeq(all, HandSize + 1, Len(all))
    BY <1>1 DEF DealGame
  <1> HIDE DEF all
  <1>5. /\ Len(deck[s]) = Len(all) - HandSize
        /\ \A i \in 1 .. Len(deck[s]) : /\ deck[s][i] = all[HandSize + i]
                                       /\ HandSize + i \in 1 .. Len(all)
    BY <1>3, <1>4
  <1>6. \A i \in 1 .. Len(deck[s]), k \in 1 .. HandSize : deck[s][i] # all[k]
    BY <1>3, <1>5
  <1>7. \A i, j \in 1 .. Len(deck[s]) : deck[s][i] = deck[s][j] => i = j
    BY <1>3, <1>5
  <1> QED
    BY <1>4, <1>6, <1>7

LEMMA CardsStayInOnePlace ==
  TypeOK /\ CardsInOnePlace /\ [Next]_vars => CardsInOnePlace'
  <1> SUFFICES ASSUME TypeOK, CardsInOnePlace, [Next]_vars PROVE CardsInOnePlace'
    OBVIOUS
  <1>1. ASSUME NEW seat \in Seats, NEW value \in Values, NEW target \in Cells,
               PlayCard(seat, value, target)
        PROVE  CardsInOnePlace'
    <2> DEFINE pile == deck[seat]
    <2>1. /\ \A s \in Seats : s # seat => hand'[s] = hand[s] /\ deck'[s] = deck[s]
          /\ hand'[seat] = (hand[seat] \ {value}) \cup Drawn(seat)
          /\ deck'[seat] = DrawnFrom(pile)
          /\ cells'[target] = [value |-> value, owner |-> seat]
          /\ \A c \in Cells : c # target => cells'[c] = cells[c]
          /\ value \in hand[seat]
      BY <1>1, CardMoved
    <2>2. pile \in Seq(Values)
      BY DEF TypeOK
    <2>3. /\ \A i \in 1 .. Len(pile) : pile[i] \notin hand[seat]
          /\ \A i, j \in 1 .. Len(pile) : pile[i] = pile[j] => i = j
          /\ \A c \in Cells : cells[c].owner = seat =>
               /\ cells[c].value \notin hand[seat]
               /\ \A i \in 1 .. Len(pile) : pile[i] # cells[c].value
      BY DEF CardsInOnePlace
    <2> HIDE DEF pile
    <2>4. /\ \A i \in 1 .. Len(DrawnFrom(pile)) :
               i \in 1 .. Len(pile) /\ DrawnFrom(pile)[i] = pile[i]
          /\ \A card \in Drawn(seat) : /\ Len(pile) \in 1 .. Len(pile) /\ card = pile[Len(pile)]
                                       /\ Len(DrawnFrom(pile)) = Len(pile) - 1
      BY <2>2, DeckDrawn DEF Drawn, pile
    <2>5. \A i \in 1 .. Len(DrawnFrom(pile)) : DrawnFrom(pile)[i] \notin hand'[seat]
      <3> SUFFICES ASSUME NEW i \in 1 .. Len(DrawnFrom(pile)), NEW card \in hand'[seat],
                          DrawnFrom(pile)[i] = card
                   PROVE  FALSE
        OBVIOUS
      <3>1. i \in 1 .. Len(pile) /\ pile[i] = card
        BY <2>4
      <3>2. card \in Drawn(seat)
        BY <2>1, <2>3, <3>1
      <3>3. i # Len(pile)
        BY <2>2, <2>4, <3>2
      <3> QED BY <2>3, <2>4, <3>1, <3>2, <3>3
    <2>6. \A i, j \in 1 .. Len(DrawnFrom(pile)) : DrawnFrom(pile)[i] = DrawnFrom(pile)[j] => i = j
      BY <2>3, <2>4
    <2>7. \A c \in Cells : cells'[c].owner = seat =>
            /\ cells'[c].value \notin hand'[seat]
            /\ \A i \in 1 .. Len(DrawnFrom(pile)) : DrawnFrom(pile)[i] # cells'[c].value
      <3> SUFFICES ASSUME NEW c \in Cells, cells'[c].owner = seat
                   PROVE  /\ cells'[c].value \notin hand'[seat]
                          /\ \A i \in 1 .. Len(DrawnFrom(pile)) : DrawnFrom(pile)[i] # cells'[c].value
        OBVIOUS
      <3>1. CASE c = target
        <4>1. cells'[c].value = value
          BY <2>1, <3>1
        <4>2. \A card \in Drawn(seat) : card # value
          BY <2>1, <2>3, <2>4
        <4>3. \A i \in 1 .. Len(pile) : pile[i] # value
          BY <2>1, <2>3
        <4> QED BY <2>1, <2>4, <4>1, <4>2, <4>3
      <3>2. CASE c # target
        <4>1. /\ cells'[c].value = cells[c].value /\ cells[c].value \notin hand[seat]
              /\ \A i \in 1 .. Len(pile) : pile[i] # cells[c].value
          BY <2>1, <2>3, <3>2
        <4>2. \A card \in Drawn(seat) : card # cells[c].value
          BY <2>4, <4>1
        <4> QED BY <2>1, <2>4, <4>1, <4>2
      <3> QED BY <3>1, <3>2
    <2>8. \A s \in Seats : \A c, d \in Cells :
            cells'[c].owner = s /\ cells'[d] = cells'[c] => d = c
      <3> SUFFICES ASSUME NEW s \in Seats, NEW c \in Cells, NEW d \in Cells, d # c,
                          cells'[c].owner = s, cells'[d] = cells'[c]
                   PROVE  FALSE
        OBVIOUS
      <3>1. CASE c = target
        <4>1. cells[d].owner = seat /\ cells[d].value = value
          BY <2>1, <3>1
        <4> QED BY <2>1, <2>3, <4>1
      <3>2. CASE d = target
        <4>1. cells[c].owner = seat /\ cells[c].value = value
          BY <2>1, <3>2
        <4> QED BY <2>1, <2>3, <4>1
      <3>3. CASE c # target /\ d # target
        BY <2>1, <3>3 DEF CardsInOnePlace
      <3> QED BY <3>1, <3>2, <3>3
    <2>9. ASSUME NEW s \in Seats, s # seat, NEW c \in Cells, cells'[c].owner = s
          PROVE  /\ cells'[c].value \notin hand'[s]
                 /\ \A i \in 1 .. Len(deck'[s]) : deck'[s][i] # cells'[c].value
      <3>1. cells'[c] = cells[c]
        BY <2>1, <2>9
      <3> QED BY <2>1, <2>9, <3>1 DEF CardsInOnePlace
    <2>10. ASSUME NEW s \in Seats, s # seat
           PROVE  /\ \A i \in 1 .. Len(deck'[s]) : deck'[s][i] \notin hand'[s]
                  /\ \A i, j \in 1 .. Len(deck'[s]) : deck'[s][i] = deck'[s][j] => i = j
      BY <2>1, <2>10 DEF CardsInOnePlace
    <2> QED
      BY <2>1, <2>5, <2>6, <2>7, <2>8, <2>9, <2>10 DEF CardsInOnePlace
  <1>2. CASE Finished \/ UNCHANGED vars
    BY <1>2 DEF Finished, vars, CardsInOnePlace
  <1> QED
    BY <1>1, <1>2 DEF Next

(* No card of a seat is ever in two of hand, deck and board                *)
(* (engine.ts:28-38).                                                      *)
THEOREM EveryCardInOnePlace == Spec => []CardsInOnePlace
  <1> QED
    BY InitialTypes, NextTypes, DealtOnce, CardsStayInOnePlace, PTL DEF Spec
-----------------------------------------------------------------------------
(* Moves                                                                   *)

LEMMA CardinalityOfDistinct ==
  ASSUME NEW n \in Nat, NEW f, \A i, j \in 1 .. n : f[i] = f[j] => i = j,
         NEW T, \A x : x \in T <=> \E i \in 1 .. n : f[i] = x
  PROVE  IsFiniteSet(T) /\ Cardinality(T) = n
  <1> DEFINE g == [i \in 1 .. n |-> f[i]]
  <1>1. g \in Bijection(1 .. n, T)
    <2>1. g \in [1 .. n -> T] /\ \A i, j \in 1 .. n : g[i] = g[j] => i = j
      OBVIOUS
    <2>2. \A x \in T : \E i \in 1 .. n : g[i] = x
      OBVIOUS
    <2> HIDE DEF g
    <2> QED BY <2>1, <2>2 DEF Bijection, Injection, Surjection, IsInjective
  <1>2. IsFiniteSet(1 .. n) /\ Cardinality(1 .. n) = n
    BY FS_Interval
  <1>3. ExistsBijection(1 .. n, T)
    BY <1>1 DEF ExistsBijection
  <1> QED
    BY <1>2, <1>3, FS_Bijection

(* The cards a seat has yet to play.                                       *)
Remaining(s) == Cardinality(hand[s]) + Len(deck[s])

(* While the game lasts, the seats before the active one have played a     *)
(* card more than the others, the active one has a card left, and a seat   *)
(* with a deck has a hand.                                                 *)
InTurn ==
  /\ \A s \in Seats : deck[s] # <<>> => hand[s] # {}
  /\ phase = "playing" =>
       \E r \in Nat \ {0} : \A s \in Seats :
         Remaining(s) = IF s < activeSeat THEN r - 1 ELSE r
  /\ phase = "ended" => \A s \in Seats : hand[s] = {}

LEMMA HandsAreFinite ==
  ASSUME NEW cards \in SUBSET Values, NEW pile \in Seq(Values)
  PROVE  /\ IsFiniteSet(cards) /\ Cardinality(cards) \in Nat
         /\ Len(pile) \in Nat /\ (Len(pile) = 0 <=> pile = <<>>)
         /\ (Cardinality(cards) = 0 <=> cards = {})
  <1>1. Rows * Cols \in Int
    BY BoardAssumption
  <1>2. IsFiniteSet(Values)
    BY <1>1, FS_Interval DEF Values
  <1>3. IsFiniteSet(cards)
    BY <1>2, FS_Subset
  <1> QED
    BY <1>3, FS_CardinalityType, FS_EmptySet

LEMMA FirstInTurn ==
  Init => InTurn
  <1> SUFFICES ASSUME Init PROVE InTurn
    OBVIOUS
  <1>1. PICK values \in BoardShuffles, cards \in [Seats -> CardShuffles] : DealGame(values, cards)
    BY DEF Init
  <1>2. 1 \in Seats /\ HandSize \in Nat /\ HandSize > 0
    BY SeatsAssumption, CardsAssumption
  <1>3. \A s \in Seats :
          /\ cards[s] \in Seq(Values) /\ Len(cards[s]) >= HandSize
          /\ Len(cards[s]) = Len(cards[1])
          /\ \A i, j \in 1 .. Len(cards[s]) : cards[s][i] = cards[s][j] => i = j
    BY <1>2, CardsAssumption
  <1>4. ASSUME NEW s \in Seats
        PROVE  /\ Cardinality(hand[s]) = HandSize /\ hand[s] # {}
               /\ Len(deck[s]) = Len(cards[1]) - HandSize
    <2> DEFINE all == cards[s]
    <2>1. /\ all \in Seq(Values) /\ Len(all) >= HandSize /\ Len(all) = Len(cards[1])
          /\ \A i, j \in 1 .. Len(all) : all[i] = all[j] => i = j
      BY <1>3
    <2>2. hand[s] = {all[i] : i \in 1 .. HandSize} /\ deck[s] = SubSeq(all, HandSize + 1, Len(all))
      BY <1>1 DEF DealGame
    <2> HIDE DEF all
    <2>3. \A i, j \in 1 .. HandSize : all[i] = all[j] => i = j
      BY <1>2, <2>1
    <2>4. Cardinality(hand[s]) = HandSize
      <3>1. \A x : x \in hand[s] <=> \E i \in 1 .. HandSize : all[i] = x
        BY <2>2
      <3> QED BY <1>2, <2>3, <3>1, CardinalityOfDistinct
    <2>5. all[1] \in hand[s]
      BY <1>2, <2>2
    <2> QED BY <1>2, <2>1, <2>2, <2>4, <2>5
  <1>5. activeSeat = 1 /\ phase = "playing"
    BY <1>1 DEF DealGame
  <1>6. Len(cards[1]) \in Nat \ {0}
    BY <1>2, <1>3
  <1>7. \A s \in Seats : Remaining(s) = IF s < activeSeat THEN Len(cards[1]) - 1 ELSE Len(cards[1])
    BY <1>2, <1>4, <1>5, <1>6 DEF Remaining
  <1> QED
    BY <1>4, <1>5, <1>6, <1>7 DEF InTurn

(* A card played is a card less for the seat, and for no other.            *)
LEMMA OneCardLess ==
  ASSUME TypeOK, TypeOK', CardsInOnePlace,
         NEW seat \in Seats, NEW value \in Values, NEW target \in Cells,
         PlayCard(seat, value, target)
  PROVE  /\ Remaining(seat)' = Remaining(seat) - 1
         /\ \A s \in Seats : s # seat => Remaining(s)' = Remaining(s)
         /\ deck'[seat] # <<>> => hand'[seat] # {}
  <1> DEFINE pile == deck[seat]
             rest == hand[seat] \ {value}
  <1>1. /\ \A s \in Seats : s # seat => hand'[s] = hand[s] /\ deck'[s] = deck[s]
        /\ hand'[seat] = rest \cup Drawn(seat)
        /\ deck'[seat] = DrawnFrom(pile)
        /\ value \in hand[seat]
    BY CardMoved
  <1>2. pile \in Seq(Values)
    BY DEF TypeOK
  <1>3. /\ IsFiniteSet(rest) /\ Cardinality(rest) = Cardinality(hand[seat]) - 1
        /\ Cardinality(hand[seat]) \in Nat /\ Len(pile) \in Nat
        /\ IsFiniteSet(hand[seat])
    <2>1. hand[seat] \in SUBSET Values
      BY DEF TypeOK
    <2> QED BY <1>1, <1>2, <2>1, HandsAreFinite, FS_RemoveElement
  <1>4. CASE pile = <<>>
    <2>1. Drawn(seat) = {} /\ DrawnFrom(pile) = <<>>
      BY <1>4 DEF Drawn, DrawnFrom
    <2> QED BY <1>1, <1>3, <1>4, <2>1 DEF Remaining
  <1>5. CASE pile # <<>>
    <2> DEFINE card == pile[Len(pile)]
    <2>1. Drawn(seat) = {card}
      BY <1>5 DEF Drawn
    <2>2. Len(DrawnFrom(pile)) = Len(pile) - 1
      BY <1>2, <1>5, DeckDrawn
    <2>3. card \notin rest
      BY <1>2, <1>5 DEF CardsInOnePlace
    <2> HIDE DEF card, rest, pile
    <2>4. Cardinality(rest \cup {card}) = Cardinality(rest) + 1
      BY <1>3, <2>3, FS_AddElement
    <2>5. Remaining(seat)' = Cardinality(rest \cup {card}) + Len(DrawnFrom(pile))
      BY <1>1, <2>1 DEF Remaining
    <2>6. Remaining(seat) = Cardinality(hand[seat]) + Len(pile)
      BY DEF Remaining, pile
    <2>7. card \in hand'[seat]
      BY <1>1, <2>1
    <2>8. Remaining(seat)' = Remaining(seat) - 1
      BY <1>3, <2>2, <2>4, <2>5, <2>6
    <2> QED BY <1>1, <2>7, <2>8 DEF Remaining
  <1> QED
    BY <1>4, <1>5

LEMMA StaysInTurn ==
  TypeOK /\ TypeOK' /\ CardsInOnePlace /\ InTurn /\ [Next]_vars => InTurn'
  <1> SUFFICES ASSUME TypeOK, TypeOK', CardsInOnePlace, InTurn, [Next]_vars PROVE InTurn'
    OBVIOUS
  <1>1. ASSUME NEW seat \in Seats, NEW value \in Values, NEW target \in Cells,
               PlayCard(seat, value, target)
        PROVE  InTurn'
    <2>1. seat = activeSeat /\ value \in hand[seat]
          /\ \A s \in Seats : s # seat => hand'[s] = hand[s] /\ deck'[s] = deck[s]
      BY <1>1, CardMoved
    <2>2. /\ Remaining(seat)' = Remaining(seat) - 1
          /\ \A s \in Seats : s # seat => Remaining(s)' = Remaining(s)
          /\ deck'[seat] # <<>> => hand'[seat] # {}
      BY <1>1, OneCardLess
    <2>3. \A s \in Seats : deck'[s] # <<>> => hand'[s] # {}
      BY <2>1, <2>2 DEF InTurn
    <2>4. phase = "playing"
      BY <2>1 DEF InTurn, TypeOK
    <2>5. PICK r \in Nat \ {0} : \A s \in Seats :
            Remaining(s) = IF s < activeSeat THEN r - 1 ELSE r
      BY <2>4 DEF InTurn
    <2>6. \A s \in Seats : Remaining(s)' = IF s <= seat THEN r - 1 ELSE r
      BY <2>1, <2>2, <2>5, SeatsAssumption
    <2>7. PICK points : EndOrNextSeat(seat, points)
      BY <1>1 DEF PlayCard
    <2>8. CASE IsGameOver(hand', deck')
      <3>1. phase' = "ended" /\ \A s \in Seats : hand'[s] = {}
        BY <2>7, <2>8 DEF EndOrNextSeat, IsGameOver
      <3> QED BY <2>3, <3>1 DEF InTurn
    <2>9. CASE ~IsGameOver(hand', deck')
      <3>1. activeSeat' = NextSeat(seat) /\ phase' = "playing"
        BY <2>4, <2>7, <2>9 DEF EndOrNextSeat
      <3>2. CASE seat < NumSeats
        <4>1. NextSeat(seat) = seat + 1
          BY <3>2, SeatsAssumption DEF NextSeat
        <4>2. \A s \in Seats : s <= seat <=> s < activeSeat'
          BY <3>1, <4>1, SeatsAssumption
        <4>3. \A s \in Seats : Remaining(s)' = IF s < activeSeat' THEN r - 1 ELSE r
          BY <2>6, <4>2
        <4> QED BY <2>3, <3>1, <4>3 DEF InTurn
      <3>3. CASE seat = NumSeats
        <4>1. NextSeat(seat) = 1
          BY <3>3, SeatsAssumption DEF NextSeat
        <4>2. \A s \in Seats : Remaining(s)' = r - 1 /\ ~(s < activeSeat')
          BY <2>6, <3>1, <3>3, <4>1, SeatsAssumption
        <4>3. r - 1 # 0
          <5> SUFFICES ASSUME r - 1 = 0 PROVE IsGameOver(hand', deck')
            BY <2>9
          <5>1. ASSUME NEW s \in Seats PROVE hand'[s] = {} /\ deck'[s] = <<>>
            <6>1. /\ Cardinality(hand'[s]) \in Nat /\ Len(deck'[s]) \in Nat
                  /\ (Len(deck'[s]) = 0 <=> deck'[s] = <<>>)
                  /\ (Cardinality(hand'[s]) = 0 <=> hand'[s] = {})
              <7>1. hand'[s] \in SUBSET Values /\ deck'[s] \in Seq(Values)
                BY DEF TypeOK
              <7> QED BY <7>1, HandsAreFinite
            <6>2. Cardinality(hand'[s]) + Len(deck'[s]) = 0
              BY <4>2 DEF Remaining
            <6> QED BY <6>1, <6>2
          <5> QED BY <5>1 DEF IsGameOver
        <4>4. r - 1 \in Nat \ {0} /\ \A s \in Seats :
                Remaining(s)' = IF s < activeSeat' THEN (r - 1) - 1 ELSE r - 1
          BY <4>2, <4>3
        <4> QED BY <2>3, <3>1, <4>4 DEF InTurn
      <3> QED BY <3>2, <3>3, SeatsAssumption
    <2> QED BY <2>8, <2>9
  <1>2. CASE Finished \/ UNCHANGED vars
    BY <1>2 DEF Finished, vars, InTurn, Remaining
  <1> QED
    BY <1>1, <1>2 DEF Next

(* A card can cover a smaller value, or, if there is none, any cell but    *)
(* the pawn's.                                                             *)
LEMMA ATargetExists ==
  ASSUME NEW value
  PROVE  \E target \in Cells : IsLegalPlacement(value, target)
  <1>1. CASE HasLegalTarget(value)
    BY <1>1 DEF HasLegalTarget, IsLegalPlacement
  <1>2. CASE ~HasLegalTarget(value)
    <2>1. \E target \in Cells : target # pawnCell
      <3>1. Rows \in Nat /\ Rows > 0 /\ Cols \in Nat /\ Cols > 0 /\ Rows * Cols > 1
        BY BoardAssumption
      <3>2. Rows > 1 \/ Cols > 1
        <4> SUFFICES ASSUME Rows = 1, Cols = 1 PROVE FALSE
          BY <3>1
        <4> QED BY <3>1
      <3>3. <<0, 0>> \in Cells /\ (Rows > 1 => <<1, 0>> \in Cells) /\ (Cols > 1 => <<0, 1>> \in Cells)
        BY <3>1 DEF Cells
      <3> QED BY <3>2, <3>3
    <2> QED BY <1>2, <2>1 DEF IsLegalPlacement
  <1> QED
    BY <1>1, <1>2

LEMMA InTurnCanMove ==
  TypeOK /\ InTurn => MoverCanMove
  <1> SUFFICES ASSUME TypeOK, InTurn, phase = "playing"
               PROVE  hand[activeSeat] # {}
    BY ATargetExists DEF MoverCanMove
  <1>1. activeSeat \in Seats
    BY DEF TypeOK
  <1>2. PICK r \in Nat \ {0} : Remaining(activeSeat) = r
    BY <1>1, SeatsAssumption DEF InTurn
  <1>3. /\ Cardinality(hand[activeSeat]) \in Nat /\ Len(deck[activeSeat]) \in Nat
        /\ (Len(deck[activeSeat]) = 0 <=> deck[activeSeat] = <<>>)
        /\ (Cardinality(hand[activeSeat]) = 0 <=> hand[activeSeat] = {})
    <2>1. hand[activeSeat] \in SUBSET Values /\ deck[activeSeat] \in Seq(Values)
      BY <1>1 DEF TypeOK
    <2> QED BY <2>1, HandsAreFinite
  <1> QED
    BY <1>1, <1>2, <1>3 DEF InTurn, Remaining

(* The seat to move always holds a card it can play, so that no game stops *)
(* before its end (engine.ts:10-54 has no pass).                           *)
THEOREM TheMoverCanMove == Spec => []MoverCanMove
  <1>1. Init => TypeOK /\ CardsInOnePlace /\ InTurn
    BY InitialTypes, DealtOnce, FirstInTurn
  <1>2. TypeOK /\ CardsInOnePlace /\ InTurn /\ [Next]_vars
        => (TypeOK /\ CardsInOnePlace /\ InTurn)'
    BY NextTypes, CardsStayInOnePlace, StaysInTurn
  <1> QED
    BY <1>1, <1>2, InTurnCanMove, PTL DEF Spec
-----------------------------------------------------------------------------
(* Tracks                                                                  *)

OwnCell(board, seat, c) == board[c].owner = seat

After(board, seat, c) == CellInDirection(c, DirectionFor(deckId[seat], board[c].value))

LastOf(track) == track[Len(track)]

(* The search of RunIsFollowed for the track, cell by cell.                *)
Extended(board, seat, track) ==
  IF /\ OwnCell(board, seat, LastOf(track))
     /\ \A i \in 1 .. Len(track) : track[i] # After(board, seat, LastOf(track))
  THEN Append(track, After(board, seat, LastOf(track)))
  ELSE track

(* The track up to now, and the variables of the loop after n turns.       *)
Along(track, run, n, board, seat, first) ==
  /\ track \in Seq(Cells) /\ Len(track) \in 1 .. n /\ track[1] = first
  /\ \A i \in 1 .. Len(track) - 1 :
       /\ OwnCell(board, seat, track[i])
       /\ track[i + 1] = After(board, seat, track[i])
  /\ \A i, j \in 1 .. Len(track) : track[i] = track[j] => i = j
  /\ run.current = LastOf(track)
  /\ \A c : c \in run.visited <=> \E i \in 1 .. Len(track) : track[i] = c
  /\ run.points = IF OwnCell(board, seat, LastOf(track)) THEN Len(track) ELSE Len(track) - 1
  /\ ~run.ended =>
       /\ Len(track) = n
       /\ OwnCell(board, seat, LastOf(track))
       /\ run.direction = DirectionFor(deckId[seat], board[LastOf(track)].value)
  /\ run.ended /\ OwnCell(board, seat, LastOf(track)) =>
       After(board, seat, LastOf(track)) \in run.visited

LEMMA FirstTurn ==
  ASSUME NEW board, NEW seat, NEW start \in Cells, NEW direction \in Directions
  PROVE  LET first == CellInDirection(start, direction)
         IN Along(<<first>>, Turn(board, seat, SetOut(start, direction)), 1, board, seat, first)
  <1> DEFINE first == CellInDirection(start, direction)
             run == Turn(board, seat, SetOut(start, direction))
  <1>1. first \in Cells
    BY NeighbourIsACell
  <1>2. run = [current   |-> first,
               visited   |-> {first},
               points    |-> IF OwnCell(board, seat, first) THEN 1 ELSE 0,
               direction |-> IF OwnCell(board, seat, first)
                             THEN DirectionFor(deckId[seat], board[first].value) ELSE direction,
               ended     |-> ~OwnCell(board, seat, first)]
    BY DEF Turn, SetOut, OwnCell
  <1> HIDE DEF first, run
  <1> DEFINE track == <<first>>
  <1>3. /\ track \in Seq(Cells) /\ Len(track) = 1 /\ track[1] = first
        /\ LastOf(track) = first
    BY <1>1 DEF LastOf
  <1>4. /\ run.current = first /\ run.visited = {first}
        /\ run.points = IF OwnCell(board, seat, first) THEN 1 ELSE 0
        /\ OwnCell(board, seat, first) =>
             run.direction = DirectionFor(deckId[seat], board[first].value)
        /\ OwnCell(board, seat, first) <=> ~run.ended
    BY <1>2
  <1> HIDE DEF track
  <1>5. 1 .. Len(track) = {1} /\ 1 .. Len(track) - 1 = {}
    BY <1>3
  <1>6. \A c : c \in run.visited <=> \E i \in 1 .. Len(track) : track[i] = c
    BY <1>3, <1>4, <1>5
  <1>7. Along(track, run, 1, board, seat, first)
    BY <1>3, <1>4, <1>5, <1>6 DEF Along
  <1> QED
    BY <1>7 DEF first, run, track

LEMMA AnotherTurn ==
  ASSUME NEW board \in Boards, NEW seat, deckId[seat] \in Rotations,
         NEW first, NEW n \in Nat \ {0}, NEW track, NEW run,
         Along(track, run, n, board, seat, first)
  PROVE  Along(Extended(board, seat, track), Turn(board, seat, run), n + 1, board, seat, first)
  <1> DEFINE last == LastOf(track)
             next == After(board, seat, last)
             k == Len(track)
  <1>1. /\ track \in Seq(Cells) /\ k \in 1 .. n /\ track[1] = first
        /\ \A i \in 1 .. k - 1 : /\ OwnCell(board, seat, track[i])
                                /\ track[i + 1] = After(board, seat, track[i])
        /\ \A i, j \in 1 .. k : track[i] = track[j] => i = j
        /\ run.current = last
        /\ \A c : c \in run.visited <=> \E i \in 1 .. k : track[i] = c
        /\ run.points = IF OwnCell(board, seat, last) THEN k ELSE k - 1
        /\ ~run.ended =>
             /\ k = n
             /\ OwnCell(board, seat, last)
             /\ run.direction = DirectionFor(deckId[seat], board[last].value)
        /\ run.ended /\ OwnCell(board, seat, last) => next \in run.visited
    BY DEF Along
  <1>2. last \in Cells /\ last = track[k]
    BY <1>1 DEF LastOf
  <1>3. next \in Cells
    BY <1>2, ArrowIsADirection, NeighbourIsACell DEF After, Boards
  <1>4. CASE run.ended
    <2>1. Turn(board, seat, run) = run
      BY <1>4 DEF Turn
    <2>2. Extended(board, seat, track) = track
      BY <1>1, <1>4 DEF Extended
    <2>3. k \in 1 .. n + 1
      BY <1>1
    <2> HIDE DEF last, next
    <2> QED BY <1>1, <1>4, <2>1, <2>2, <2>3 DEF Along, last, next
  <1>5. CASE ~run.ended
    <2>1. /\ k = n /\ OwnCell(board, seat, last)
          /\ CellInDirection(run.current, run.direction) = next
      BY <1>1, <1>5 DEF After
    <2>2. CASE next \in run.visited
      <3>1. Turn(board, seat, run) = [run EXCEPT !.ended = TRUE]
        BY <1>5, <2>1, <2>2 DEF Turn
      <3>2. Extended(board, seat, track) = track
        BY <1>1, <2>2 DEF Extended
      <3>3. k \in 1 .. n + 1
        BY <1>1
      <3> DEFINE after == Turn(board, seat, run)
      <3>4. /\ after.current = run.current /\ after.visited = run.visited
            /\ after.points = run.points /\ after.ended
        BY <3>1 
      <3> HIDE DEF last, next, after
      <3> QED BY <1>1, <2>2, <3>2, <3>3, <3>4 DEF Along, last, next, after
    <2>3. CASE next \notin run.visited
      <3> DEFINE after == Turn(board, seat, run)
                 longer == Append(track, next)
      <3>1. after = [current   |-> next,
                     visited   |-> run.visited \cup {next},
                     points    |-> IF OwnCell(board, seat, next) THEN run.points + 1 ELSE run.points,
                     direction |-> IF OwnCell(board, seat, next)
                                   THEN DirectionFor(deckId[seat], board[next].value)
                                   ELSE run.direction,
                     ended     |-> ~OwnCell(board, seat, next)]
        BY <1>5, <2>1, <2>3 DEF Turn, OwnCell
      <3>2. Extended(board, seat, track) = longer
        BY <1>1, <2>1, <2>3 DEF Extended
      <3> HIDE DEF next, after, last
      <3>3. /\ longer \in Seq(Cells) /\ Len(longer) = k + 1
            /\ \A i \in 1 .. k : longer[i] = track[i]
            /\ longer[k + 1] = next
        BY <1>1, <1>3
      <3> HIDE DEF longer
      <3>4. LastOf(longer) = next
        BY <3>3 DEF LastOf
      <3>5. /\ after.current = next
            /\ after.visited = run.visited \cup {next}
            /\ after.points = IF OwnCell(board, seat, next) THEN run.points + 1 ELSE run.points
            /\ OwnCell(board, seat, next) =>
                 after.direction = DirectionFor(deckId[seat], board[next].value)
            /\ after.ended <=> ~OwnCell(board, seat, next)
        BY <3>1
      <3>6. \A i \in 1 .. Len(longer) - 1 :
              /\ OwnCell(board, seat, longer[i])
              /\ longer[i + 1] = After(board, seat, longer[i])
        <4> SUFFICES ASSUME NEW i \in 1 .. k
                     PROVE  /\ OwnCell(board, seat, longer[i])
                            /\ longer[i + 1] = After(board, seat, longer[i])
          BY <1>1, <3>3
        <4>1. CASE i = k
          BY <1>2, <2>1, <3>3, <4>1 DEF next
        <4>2. CASE i # k
          <5>1. i \in 1 .. k - 1 /\ i + 1 \in 1 .. k
            BY <1>1, <4>2
          <5> QED BY <1>1, <3>3, <5>1
        <4> QED BY <4>1, <4>2
      <3>7. \A i, j \in 1 .. Len(longer) : longer[i] = longer[j] => i = j
        <4>1. \A i \in 1 .. k : longer[i] # next
          BY <1>1, <2>3, <3>3
        <4>2. \A i \in 1 .. k + 1 : i = k + 1 \/ i \in 1 .. k
          BY <1>1
        <4> QED BY <1>1, <3>3, <4>1, <4>2
      <3>8. \A c : c \in after.visited <=> \E i \in 1 .. Len(longer) : longer[i] = c
        <4>1. k + 1 \in 1 .. k + 1 /\ \A i \in 1 .. k : i \in 1 .. k + 1
          BY <1>1
        <4>2. \A i \in 1 .. k + 1 : i = k + 1 \/ i \in 1 .. k
          BY <1>1
        <4>3. ASSUME NEW c, c \in after.visited
              PROVE  \E i \in 1 .. k + 1 : longer[i] = c
          <5>1. CASE c = next
            BY <3>3, <4>1, <5>1
          <5>2. CASE \E i \in 1 .. k : track[i] = c
            BY <3>3, <4>1, <5>2
          <5> QED BY <1>1, <3>5, <4>3, <5>1, <5>2
        <4>4. ASSUME NEW i \in 1 .. k + 1 PROVE longer[i] \in after.visited
          <5>1. CASE i = k + 1
            BY <3>3, <3>5, <5>1
          <5>2. CASE i \in 1 .. k
            BY <1>1, <3>3, <3>5, <5>2
          <5> QED BY <4>2, <5>1, <5>2
        <4> QED BY <3>3, <4>3, <4>4
      <3>9. Len(longer) \in 1 .. n + 1 /\ longer[1] = first /\ Len(longer) = n + 1
        BY <1>1, <2>1, <3>3
      <3>10. after.points = IF OwnCell(board, seat, next) THEN Len(longer) ELSE Len(longer) - 1
        BY <1>1, <2>1, <3>3, <3>5
      <3>11. Along(longer, after, n + 1, board, seat, first)
        <4>1. /\ after.current = LastOf(longer)
              /\ after.points = IF OwnCell(board, seat, LastOf(longer))
                                THEN Len(longer) ELSE Len(longer) - 1
          BY <3>4, <3>5, <3>10
        <4>2. ~after.ended =>
                /\ Len(longer) = n + 1
                /\ OwnCell(board, seat, LastOf(longer))
                /\ after.direction = DirectionFor(deckId[seat], board[LastOf(longer)].value)
          BY <3>4, <3>5, <3>9
        <4>3. after.ended /\ OwnCell(board, seat, LastOf(longer)) =>
                After(board, seat, LastOf(longer)) \in after.visited
          BY <3>4, <3>5
        <4> QED BY <3>3, <3>6, <3>7, <3>8, <3>9, <4>1, <4>2, <4>3, Zenon DEF Along
      <3> QED BY <3>2, <3>11 DEF after
    <2> QED BY <2>2, <2>3
  <1> QED
    BY <1>4, <1>5
IsSearch(track, board, seat, first) ==
  track = [n \in 1 .. Cardinality(Cells) |->
             IF n = 1 THEN <<first>> ELSE Extended(board, seat, track[n - 1])]

(* The loop ends where the track does, with its points.                    *)
Arrives(t, board, seat, start, direction) ==
  LET chain == ResolveChain(board, seat, start, direction)
  IN /\ IsRun(t, board, seat, start, direction)
     /\ chain.pawnCell = t[Len(t)]
     /\ chain.points = Cardinality({i \in 1 .. Len(t) : board[t[i]].owner = seat})

(* The search, as a function of the number of cells.                       *)
LEMMA TrackIsBuilt ==
  ASSUME NEW board \in Boards, NEW seat, deckId[seat] \in Rotations, NEW first \in Cells
  PROVE  \E track : IsSearch(track, board, seat, first)
  <1> DEFINE K == Cardinality(Cells)
             Tracks == Seq(Cells) \ {<<>>}
             step == [t \in Tracks |-> Extended(board, seat, t)]
  <1>1. K \in Nat \ {0} /\ K - 1 \in Nat
    BY CellsAreFinite
  <1>2. <<first>> \in Tracks
    OBVIOUS
  <1>3. step \in [Tracks -> Tracks]
    <2> SUFFICES ASSUME NEW t \in Tracks PROVE Extended(board, seat, t) \in Tracks
      OBVIOUS
    <2>1. LastOf(t) \in Cells
      BY DEF LastOf
    <2> DEFINE next == After(board, seat, LastOf(t))
    <2>2. next \in Cells
      BY <2>1, ArrowIsADirection, NeighbourIsACell DEF After, Boards
    <2>3. Extended(board, seat, t) \in {t, Append(t, next)}
      BY DEF Extended
    <2> HIDE DEF next
    <2>4. Append(t, next) \in Tracks
      BY <2>2
    <2> QED BY <2>3, <2>4
  <1> HIDE DEF K
  <1>4. PICK f : Repeats(f, K - 1, Tracks, <<first>>, step)
    <2> HIDE DEF Tracks, step
    <2> QED BY <1>1, <1>2, <1>3, Repetition
  <1> DEFINE g == [n \in 1 .. K |-> f[n - 1]]
  <1>5. g = [n \in 1 .. K |-> IF n = 1 THEN <<first>> ELSE Extended(board, seat, g[n - 1])]
    <2>1. g[1] = <<first>>
      BY <1>1, <1>4 DEF Repeats
    <2>2. ASSUME NEW n \in 1 .. K, n # 1
          PROVE  g[n] = Extended(board, seat, g[n - 1])
      <3>1. n - 1 \in 1 .. K - 1 /\ n - 1 \in 1 .. K /\ (n - 1) - 1 \in 0 .. K - 1
        BY <1>1, <2>2
      <3>2. f[n - 1] = step[f[(n - 1) - 1]] /\ f[(n - 1) - 1] \in Tracks
        BY <1>4, <3>1 DEF Repeats
      <3>3. f[n - 1] = Extended(board, seat, f[(n - 1) - 1])
        BY <3>2
      <3> QED BY <3>1, <3>3
    <2> HIDE DEF g
    <2>3. g = [n \in 1 .. K |-> g[n]]
      BY DEF g
    <2> QED BY <2>1, <2>2, <2>3
  <1> QED
    BY <1>5 DEF K, IsSearch

(* The loop and the search go the same way, and as there is no cell to     *)
(* visit after all of them, the loop has ended with the last turn.         *)
LEMMA LoopFollowsTrack ==
  ASSUME NEW board \in Boards, NEW seat, deckId[seat] \in Rotations,
         NEW start \in Cells, NEW direction \in Directions, NEW track,
         IsSearch(track, board, seat, CellInDirection(start, direction))
  PROVE  Arrives(track[Cardinality(Cells)], board, seat, start, direction)
  <1> DEFINE K == Cardinality(Cells)
             first == CellInDirection(start, direction)
             t == track[K]
             chain == ResolveChain(board, seat, start, direction)
             last == LastOf(t)
             next == After(board, seat, last)
  <1>1. K \in Nat \ {0} /\ MaxTurns = K + 1
    BY CellsAreFinite DEF MaxTurns
  <1>2. PICK run \in [0 .. MaxTurns -> Runs] :
          /\ run[0] = SetOut(start, direction)
          /\ \A n \in 1 .. MaxTurns : run[n] = Turn(board, seat, run[n - 1])
          /\ chain = [pawnCell |-> run[MaxTurns].current, points |-> run[MaxTurns].points]
    BY LoopRuns
  <1> HIDE DEF first
  <1>3. Along(t, run[K], K, board, seat, first)
    <2> HIDE DEF K
    <2> DEFINE T == {m \in Nat : m + 1 <= K =>
                       Along(track[m + 1], run[m + 1], m + 1, board, seat, first)}
    <2>1. 0 \in T
      <3>1. track[1] = <<first>>
        BY <1>1 DEF K, first, IsSearch
      <3>2. run[1] = Turn(board, seat, SetOut(start, direction))
        BY <1>1, <1>2
      <3>3. Along(track[1], run[1], 1, board, seat, first)
        BY <3>1, <3>2, FirstTurn DEF first
      <3> QED BY <3>3
    <2>2. ASSUME NEW m \in Nat, m \in T PROVE m + 1 \in T
      <3> DEFINE n == m + 1
      <3> SUFFICES ASSUME n + 1 <= K
                   PROVE  Along(track[n + 1], run[n + 1], n + 1, board, seat, first)
        OBVIOUS
      <3>1. n \in Nat \ {0} /\ n + 1 \in 1 .. K /\ n + 1 \in 1 .. MaxTurns /\ (n + 1) - 1 = n /\ n + 1 # 1
        BY <1>1
      <3>2. Along(track[n], run[n], n, board, seat, first)
        BY <1>1, <2>2
      <3> HIDE DEF n
      <3>3. track[n + 1] = Extended(board, seat, track[n])
        BY <3>1 DEF K, first, IsSearch
      <3>4. run[n + 1] = Turn(board, seat, run[n])
        BY <1>2, <3>1
      <3> QED BY <3>1, <3>2, <3>3, <3>4, AnotherTurn
    <2>3. \A m \in Nat : m \in T
      <3> HIDE DEF T
      <3> QED BY <2>1, <2>2, SetInduction
    <2>4. K - 1 \in T /\ (K - 1) + 1 = K
      BY <1>1, <2>3
    <2> QED BY <2>4
  <1>4. run[K] \in Runs /\ run[K + 1] = Turn(board, seat, run[K])
        /\ chain.pawnCell = run[K + 1].current /\ chain.points = run[K + 1].points
    <2> HIDE DEF K, chain
    <2>1. K \in 0 .. MaxTurns /\ K + 1 \in 1 .. MaxTurns /\ (K + 1) - 1 = K
      BY <1>1
    <2>2. run[K] \in Runs /\ run[K + 1] = Turn(board, seat, run[K])
      BY <1>2, <2>1
    <2> QED BY <1>1, <1>2, <2>2
  <1> HIDE DEF t, chain
  <1>5. /\ t \in Seq(Cells) /\ Len(t) \in 1 .. K /\ t[1] = first
        /\ \A i \in 1 .. Len(t) - 1 : /\ OwnCell(board, seat, t[i])
                                     /\ t[i + 1] = After(board, seat, t[i])
        /\ \A i, j \in 1 .. Len(t) : t[i] = t[j] => i = j
        /\ run[K].current = last
        /\ \A c : c \in run[K].visited <=> \E i \in 1 .. Len(t) : t[i] = c
        /\ run[K].points = IF OwnCell(board, seat, last) THEN Len(t) ELSE Len(t) - 1
        /\ ~run[K].ended =>
             /\ Len(t) = K
             /\ OwnCell(board, seat, last)
             /\ run[K].direction = DirectionFor(deckId[seat], board[last].value)
        /\ run[K].ended /\ OwnCell(board, seat, last) => next \in run[K].visited
    BY <1>3 DEF Along
  <1>6. last \in Cells /\ next \in Cells
    <2>1. last \in Cells
      BY <1>5 DEF LastOf
    <2> HIDE DEF last
    <2> QED BY <2>1, ArrowIsADirection, NeighbourIsACell DEF After, Boards
  <1>7. OwnCell(board, seat, last) => next \in run[K].visited
    <2> SUFFICES ASSUME ~run[K].ended PROVE next \in run[K].visited
      BY <1>5
    <2>1. run[K].visited \in SUBSET Cells
      BY <1>4 DEF Runs
    <2>2. Cardinality(run[K].visited) = K
      <3>1. \A i, j \in 1 .. K : t[i] = t[j] => i = j
        BY <1>5
      <3>2. \A c : c \in run[K].visited <=> \E i \in 1 .. K : t[i] = c
        BY <1>5
      <3>3. K \in Nat
        BY <1>1
      <3> DEFINE all == run[K].visited
      <3> HIDE DEF K, all
      <3>4. \A i, j \in 1 .. K : t[i] = t[j] => i = j
        BY <3>1
      <3>5. \A c : c \in all <=> \E i \in 1 .. K : t[i] = c
        BY <3>2 DEF all
      <3>6. Cardinality(all) = K
        BY <3>3, <3>4, <3>5, CardinalityOfDistinct
      <3> QED BY <3>6 DEF all
    <2>3. run[K].visited = Cells
      BY <2>1, <2>2, CellsAreFinite, FS_Subset
    <2> HIDE DEF next
    <2> QED BY <1>6, <2>3
  <1> HIDE DEF K, next, last
  <1>8. run[K + 1].current = run[K].current /\ run[K + 1].points = run[K].points
    <2>1. CASE run[K].ended
      BY <1>4, <2>1 DEF Turn
    <2>2. CASE ~run[K].ended
      <3>1. CellInDirection(run[K].current, run[K].direction) = next
        BY <1>5, <2>2 DEF After, next
      <3>2. next \in run[K].visited
        BY <1>5, <1>7, <2>2
      <3>3. run[K + 1] = [run[K] EXCEPT !.ended = TRUE]
        BY <1>4, <2>2, <3>1, <3>2 DEF Turn
      <3> QED BY <3>3
    <2> QED BY <2>1, <2>2
  <1>9. IsRun(t, board, seat, start, direction)
    <2>1. last = t[Len(t)]
      BY DEF last, LastOf
    <2>2. OwnCell(board, seat, last) => \E i \in 1 .. Len(t) : t[i] = next
      BY <1>5, <1>7
    <2> QED BY <1>5, <2>1, <2>2 DEF IsRun, OwnCell, After, next, first
  <1>10. chain.points = Cardinality({i \in 1 .. Len(t) : board[t[i]].owner = seat})
    <2> DEFINE own == {i \in 1 .. Len(t) : board[t[i]].owner = seat}
    <2>1. last = t[Len(t)] /\ Len(t) \in Nat \ {0}
      BY <1>5 DEF last, LastOf
    <2>2. \A i \in 1 .. Len(t) - 1 : board[t[i]].owner = seat
      BY <1>5 DEF OwnCell
    <2>3. \A i \in 1 .. Len(t) : i = Len(t) \/ i \in 1 .. Len(t) - 1
      BY <2>1
    <2>4. CASE OwnCell(board, seat, last)
      <3>1. own = 1 .. Len(t)
        BY <2>1, <2>2, <2>3, <2>4 DEF OwnCell
      <3>2. Cardinality(1 .. Len(t)) = Len(t)
        BY <2>1, FS_Interval
      <3> QED BY <1>4, <1>5, <1>8, <2>4, <3>1, <3>2
    <2>5. CASE ~OwnCell(board, seat, last)
      <3>1. own = 1 .. Len(t) - 1
        BY <2>1, <2>2, <2>3, <2>5 DEF OwnCell
      <3>2. Cardinality(1 .. Len(t) - 1) = Len(t) - 1
        BY <2>1, FS_Interval
      <3> QED BY <1>4, <1>5, <1>8, <2>5, <3>1, <3>2
    <2> QED BY <2>4, <2>5
  <1> QED
    BY <1>4, <1>5, <1>8, <1>9, <1>10 DEF t, chain, K, last, LastOf, Arrives

LEMMA CardRunsThePawn ==
  ASSUME TypeOK, InTurn,
         NEW seat \in Seats, NEW value \in Values, NEW target \in Cells,
         PlayCard(seat, value, target)
  PROVE  RunIsFollowed(seat, value)
  <1> DEFINE direction == DirectionFor(deckId[seat], value)
             chain == ResolveChain(cells', seat, pawnCell, direction)
             first == CellInDirection(pawnCell, direction)
             points == [score EXCEPT ![seat] = @ + chain.points]
             track[n \in 1 .. Cardinality(Cells)] ==
               IF n = 1 THEN <<first>>
               ELSE Extended(cells', seat, track[n - 1])
             run == track[Cardinality(Cells)]
  <1>1. /\ cells' \in Boards /\ deckId[seat] \in Rotations /\ direction \in Directions
        /\ pawnCell' = chain.pawnCell /\ chain.points \in Nat
        /\ EndOrNextSeat(seat, points)
    BY CardTypes
  <1>2. pawnCell \in Cells /\ score \in [Seats -> Nat]
    BY DEF TypeOK
  <1>3. first \in Cells
    BY <1>1, <1>2, NeighbourIsACell
  <1>4. IsSearch(track, cells', seat, first)
    <2> HIDE DEF first
    <2>1. PICK t : IsSearch(t, cells', seat, first)
      BY <1>1, <1>3, TrackIsBuilt
    <2>2. t = [n \in 1 .. Cardinality(Cells) |->
                 IF n = 1 THEN <<first>> ELSE Extended(cells', seat, t[n - 1])]
      BY <2>1 DEF IsSearch
    <2> QED BY <2>2 DEF IsSearch
  <1>5. RunIsFollowed(seat, value) <=>
          /\ IsRun(run, cells', seat, pawnCell, direction)
          /\ pawnCell' = run[Len(run)]
          /\ LET earned == Cardinality({i \in 1 .. Len(run) : cells'[run[i]].owner = seat})
             IN score' = IF phase' = "ended"
                         THEN [s \in Seats |-> score[s] + (IF s = seat THEN earned ELSE 0)
                                 + Cardinality({c \in Cells : cells'[c].owner = s})]
                         ELSE [score EXCEPT ![seat] = @ + earned]
    BY DEF RunIsFollowed, Extended, OwnCell, After, LastOf
  <1> HIDE DEF track
  <1>6. /\ IsRun(run, cells', seat, pawnCell, direction)
        /\ chain.pawnCell = run[Len(run)]
        /\ chain.points = Cardinality({i \in 1 .. Len(run) : cells'[run[i]].owner = seat})
    <2> HIDE DEF direction
    <2>1. Arrives(run, cells', seat, pawnCell, direction)
      BY <1>1, <1>2, <1>4, LoopFollowsTrack
    <2> QED BY <2>1 DEF Arrives
  <1>7. phase = "playing"
    <2>1. seat = activeSeat /\ value \in hand[seat]
      BY CardMoved
    <2> QED BY <2>1 DEF InTurn, TypeOK
  <1> DEFINE owned(s) == Cardinality({c \in Cells : cells'[c].owner = s})
  <1> HIDE DEF chain, run, direction
  <1>8. score' = IF phase' = "ended"
                 THEN [s \in Seats |-> score[s] + (IF s = seat THEN chain.points ELSE 0) + owned(s)]
                 ELSE points
    <2>1. CASE IsGameOver(hand', deck')
      <3>1. phase' = "ended" /\ score' = ComputeFinalScores(points, cells')
        BY <1>1, <2>1 DEF EndOrNextSeat
      <3>2. score' = [s \in Seats |-> points[s] + owned(s)]
        BY <3>1 DEF ComputeFinalScores
      <3> HIDE DEF owned
      <3>3. \A s \in Seats : points[s] = score[s] + (IF s = seat THEN chain.points ELSE 0)
        BY <1>1, <1>2
      <3> QED BY <3>1, <3>2, <3>3
    <2>2. CASE ~IsGameOver(hand', deck')
      BY <1>1, <1>7, <2>2 DEF EndOrNextSeat
    <2> QED BY <2>1, <2>2
  <1> QED
    BY <1>1, <1>5, <1>6, <1>8

(* Every card runs the pawn along a track where each of the mover's cells  *)
(* points to the next, until it leaves them or would close a loop, and     *)
(* earns the mover its cells on that track (movement.ts:6-28).             *)
THEOREM ThePawnFollowsTheArrows == Spec => PawnFollowsArrows
  <1>1. Init => TypeOK /\ CardsInOnePlace /\ InTurn
    BY InitialTypes, DealtOnce, FirstInTurn
  <1>2. TypeOK /\ CardsInOnePlace /\ InTurn /\ [Next]_vars
        => (TypeOK /\ CardsInOnePlace /\ InTurn)'
    BY NextTypes, CardsStayInOnePlace, StaysInTurn
  <1>3. TypeOK /\ InTurn /\ [Next]_vars =>
          [\A value \in hand[activeSeat] \ hand'[activeSeat] : RunIsFollowed(activeSeat, value)]_vars
    <2> SUFFICES ASSUME TypeOK, InTurn, [Next]_vars,
                        NEW card \in hand[activeSeat] \ hand'[activeSeat], ~UNCHANGED vars
                 PROVE  RunIsFollowed(activeSeat, card)
      OBVIOUS
    <2>1. PICK seat \in Seats, value \in Values, target \in Cells : PlayCard(seat, value, target)
      BY DEF Next, Finished
    <2>2. seat = activeSeat /\ hand'[seat] = (hand[seat] \ {value}) \cup Drawn(seat)
      BY <2>1, CardMoved
    <2>3. card = value
      BY <2>2
    <2> QED BY <2>1, <2>2, <2>3, CardRunsThePawn
  <1> QED
    BY <1>1, <1>2, <1>3, PTL DEF Spec, PawnFollowsArrows
=============================================================================
