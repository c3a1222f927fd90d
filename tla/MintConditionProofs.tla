------------------------ MODULE MintConditionProofs ------------------------
(***************************************************************************)
(* Proofs about MintCondition: its types, conservation of the prizes and   *)
(* the direction they move in, whose turn it is, when the game ends, what  *)
(* is paid and that every move counts, for any prizes, cards, prices and   *)
(* number of players.                                                      *)
(***************************************************************************)
EXTENDS MintCondition, FiniteSetTheorems, WellFoundedInduction, TLAPS

USE DEF Seats, Slots, LastSlot, UpperSlots

-----------------------------------------------------------------------------
(* Piles                                                                   *)

(* Taking n elements off a pile leaves the ones below in place.            *)
LEMMA RestOfPile ==
  ASSUME NEW S, NEW pile \in Seq(S), NEW n \in Nat
  PROVE  /\ Rest(pile, n) \in Seq(S)
         /\ Len(Rest(pile, n)) = Len(pile) - Least(n, Len(pile))
         /\ Len(Rest(pile, n)) \in 0 .. Len(pile)
         /\ \A i \in 1 .. Len(Rest(pile, n)) : Rest(pile, n)[i] = pile[i]
         /\ TopOf(pile, n) \subseteq S
         /\ \A x : x \in TopOf(pile, n) <=>
              \E i \in 1 .. Len(pile) : i > Len(Rest(pile, n)) /\ pile[i] = x
  <1> DEFINE m == Len(pile) - Least(n, Len(pile))
  <1>1. m \in 0 .. Len(pile)
    BY DEF Least
  <1>2. Rest(pile, n) = SubSeq(pile, 1, m)
    BY DEF Rest
  <1>3. /\ Rest(pile, n) \in Seq(S) /\ Len(Rest(pile, n)) = m
        /\ \A i \in 1 .. m : Rest(pile, n)[i] = pile[i]
    BY <1>1, <1>2
  <1>4. TopOf(pile, n) = {pile[i] : i \in (m + 1) .. Len(pile)}
    BY DEF TopOf
  <1>5. \A i \in (m + 1) .. Len(pile) : i \in 1 .. Len(pile) /\ i > m
    BY <1>1
  <1>6. \A i \in 1 .. Len(pile) : i > m => i \in (m + 1) .. Len(pile)
    BY <1>1
  <1> QED
    BY <1>1, <1>3, <1>4, <1>5, <1>6

(* The smallest element of a nonempty set of numbers.                      *)
LEMMA SmallestExists ==
  ASSUME NEW T \in SUBSET Nat, T # {}
  PROVE  \E m \in T : \A n \in T : m <= n
  <1> DEFINE R == {ss \in Nat \X Nat : ss[1] < ss[2]}
  <1>1. IsWellFoundedOn(R, Nat)
    BY NatLessThanWellFounded, Zenon DEF OpToRel
  <1>2. \E m \in T : \A n \in T : ~ (<<n, m>> \in R)
    <2> HIDE DEF R
    <2> QED BY <1>1, WFMin
  <1>3. \A m, n \in T : <<n, m>> \notin R => m <= n
    OBVIOUS
  <1> QED
    BY <1>2, <1>3
-----------------------------------------------------------------------------
(* Places                                                                  *)

AtMostOne(P) == \A x, y \in P : x = y

(* If a prize was in one place of P, it is in one place of Q, not before   *)
(* the first, and in the same if it was out of the game.                   *)
Onward(P, Q) ==
  AtMostOne(P) =>
    /\ AtMostOne(Q)
    /\ (P = {}) <=> (Q = {})
    /\ \A k \in P, l \in Q : k <= l /\ (k >= Discarded => k = l)

(* The same, and it was not on display or has moved on.                    *)
Shifted(P, Q) ==
  Onward(P, Q) /\ (AtMostOne(P) => \A k \in P, l \in Q : k \in Slots => k < l)

LEMMA PlaceOnBoard ==
  ASSUME NEW b, NEW p, NEW k
  PROVE  k \in PlacesOn(b, p) <=>
           \/ \E i \in 1 .. Len(b.prizeDeck) : k = -1 - i /\ b.prizeDeck[i] = p
           \/ k = -1 /\ b.revealedPrize = p
           \/ k \in 0 .. 5 /\ p \in b.slots[k]
           \/ k = 6 /\ p \in b.discardPile
  BY DEF PlacesOn, InPile, Revealed, Discarded

LEMMA PlacesAreNumbers ==
  ASSUME NEW b \in Board, NEW p
  PROVE  PlacesOn(b, p) \subseteq Int /\ \A k \in PlacesOn(b, p) : k <= Discarded
  <1>1. Len(b.prizeDeck) \in Nat
    BY DEF Board
  <1> QED
    BY <1>1, PlaceOnBoard DEF Discarded

LEMMA OnwardComposes ==
  ASSUME NEW P \in SUBSET Int, NEW Q \in SUBSET Int, NEW R \in SUBSET Int,
         Onward(P, Q), Onward(Q, R)
  PROVE  Onward(P, R) /\ (Shifted(P, Q) \/ Shifted(Q, R) => Shifted(P, R))
  <1> SUFFICES ASSUME AtMostOne(P)
      PROVE  /\ AtMostOne(R) /\ ((P = {}) <=> (R = {}))
             /\ \A k \in P, l \in R : k <= l /\ (k >= Discarded => k = l)
             /\ Shifted(P, Q) \/ Shifted(Q, R) => \A k \in P, l \in R : k \in Slots => k < l
    BY DEF Onward, Shifted
  <1>1. /\ AtMostOne(Q) /\ ((P = {}) <=> (Q = {}))
        /\ \A k \in P, l \in Q : k <= l /\ (k >= Discarded => k = l)
    BY DEF Onward
  <1>2. /\ AtMostOne(R) /\ ((Q = {}) <=> (R = {}))
        /\ \A k \in Q, l \in R : k <= l /\ (k >= Discarded => k = l)
    BY <1>1 DEF Onward
  <1>3. ASSUME NEW k \in P, NEW l \in R
        PROVE  /\ k <= l /\ (k >= Discarded => k = l)
               /\ Shifted(P, Q) \/ Shifted(Q, R) => (k \in Slots => k < l)
    <2> PICK j \in Q : TRUE
      BY <1>1
    <2>1. k <= j /\ j <= l /\ (k >= Discarded => k = j) /\ (j >= Discarded => j = l)
      BY <1>1, <1>2
    <2>2. Shifted(P, Q) /\ k \in Slots => k < j
      BY DEF Shifted
    <2>3. Shifted(Q, R) /\ j \in Slots => j < l
      BY <1>1 DEF Shifted
    <2>4. k \in Slots /\ k = j => j \in Slots
      OBVIOUS
    <2> QED
      BY <2>1, <2>2, <2>3, <2>4 DEF Discarded
  <1> QED
    BY <1>1, <1>2, <1>3
-----------------------------------------------------------------------------
(* The display                                                             *)

(* What a drift of the display makes of a board: prizes drift or age out,  *)
(* and take along others from the pile, forward on their way.              *)
LEMMA ShiftMovesOn ==
  ASSUME NEW b \in Board
  PROVE  /\ ShiftDisplay(b) \in Board
         /\ ShiftDisplay(b).revealedPrize = b.revealedPrize
         /\ \A p \in Prizes : Shifted(PlacesOn(b, p), PlacesOn(ShiftDisplay(b), p))
  <1> DEFINE c == ShiftDisplay(b)
             n == Cardinality(b.slots[5])
             rest == Rest(b.prizeDeck, n)
             taken == TopOf(b.prizeDeck, n)
             to(k) == IF k \in 0 .. 5 THEN k + 1 ELSE IF k < -1 - Len(rest) THEN 0 ELSE k
  <1>1. b.slots \in [0 .. 5 -> SUBSET Prizes] /\ b.prizeDeck \in Seq(Prizes)
    BY DEF Board
  <1>2. n \in Nat
    BY <1>1, PrizesAssumption, FS_Subset, FS_CardinalityType
  <1>3. /\ rest \in Seq(Prizes) /\ Len(rest) \in 0 .. Len(b.prizeDeck)
        /\ \A i \in 1 .. Len(rest) : rest[i] = b.prizeDeck[i]
        /\ taken \subseteq Prizes
        /\ \A x : x \in taken <=>
              \E i \in 1 .. Len(b.prizeDeck) : i > Len(rest) /\ b.prizeDeck[i] = x
    <2> HIDE DEF n
    <2> QED BY <1>1, <1>2, RestOfPile
  <1>4. /\ c.slots = [i \in 0 .. 5 |-> IF i = 0 THEN taken ELSE b.slots[i - 1]]
        /\ c.prizeDeck = rest
        /\ c.revealedPrize = b.revealedPrize
        /\ c.discardPile = b.discardPile \cup b.slots[5]
        /\ c = [b EXCEPT !.slots = c.slots, !.prizeDeck = c.prizeDeck,
                         !.discardPile = c.discardPile,
                         !.unlockedUpperSlots = c.unlockedUpperSlots]
    BY DEF ShiftDisplay, Board
  <1>5. c \in Board
    <2>1. c.unlockedUpperSlots \in SUBSET UpperSlots
      BY DEF ShiftDisplay, Board
    <2>2. c.slots \in [0 .. 5 -> SUBSET Prizes]
      BY <1>1, <1>3, <1>4
    <2>3. c = [slots |-> c.slots, prizeDeck |-> c.prizeDeck, revealedPrize |-> c.revealedPrize,
               discardPile |-> c.discardPile, unlockedUpperSlots |-> c.unlockedUpperSlots]
      BY <1>4 DEF Board
    <2>4. /\ c.prizeDeck \in Seq(Prizes) /\ c.revealedPrize \in Prizes \cup {None}
          /\ c.discardPile \in SUBSET Prizes
      BY <1>1, <1>3, <1>4 DEF Board
    <2> HIDE DEF c, rest, taken, n
    <2> QED
      BY <2>1, <2>2, <2>3, <2>4 DEF Board
  <1>6. ASSUME NEW p \in Prizes
        PROVE  Shifted(PlacesOn(b, p), PlacesOn(c, p))
    <2> DEFINE P == PlacesOn(b, p)
               Q == PlacesOn(c, p)
    <2>1. ASSUME NEW k \in P PROVE to(k) \in Q
      <3> HIDE DEF c, rest, taken, n
      <3>1. CASE \E i \in 1 .. Len(b.prizeDeck) : k = -1 - i /\ b.prizeDeck[i] = p
        <4> PICK i \in 1 .. Len(b.prizeDeck) : k = -1 - i /\ b.prizeDeck[i] = p
          BY <3>1
        <4>1. CASE i <= Len(rest)
          BY <4>1, <1>1, <1>3, <1>4, PlaceOnBoard
        <4>2. CASE i > Len(rest)
          <5>1. p \in c.slots[0]
            BY <4>2, <1>3, <1>4
          <5> QED
            BY <4>2, <5>1, <1>3, PlaceOnBoard
        <4> QED
          BY <4>1, <4>2, <1>1, <1>3
      <3>2. CASE k = -1 /\ b.revealedPrize = p
        BY <3>2, <1>3, <1>4, PlaceOnBoard
      <3>3. CASE k \in 0 .. 5 /\ p \in b.slots[k]
        <4>1. CASE k = 5
          BY <3>3, <4>1, <1>4, PlaceOnBoard
        <4>2. CASE k \in 0 .. 4
          <5>1. k + 1 \in 0 .. 5 /\ c.slots[k + 1] = b.slots[k]
            BY <4>2, <1>4
          <5> QED
            BY <3>3, <5>1, PlaceOnBoard
        <4> QED
          BY <3>3, <4>1, <4>2
      <3>4. CASE k = 6 /\ p \in b.discardPile
        BY <3>4, <1>3, <1>4, PlaceOnBoard
      <3> QED
        BY <3>1, <3>2, <3>3, <3>4, PlaceOnBoard
    <2>2. ASSUME NEW l \in Q PROVE \E k \in P : l = to(k)
      <3> HIDE DEF c, rest, taken, n
      <3>1. CASE \E i \in 1 .. Len(c.prizeDeck) : l = -1 - i /\ c.prizeDeck[i] = p
        <4> PICK i \in 1 .. Len(rest) : l = -1 - i /\ b.prizeDeck[i] = p
          BY <3>1, <1>3, <1>4
        <4>1. i \in 1 .. Len(b.prizeDeck) /\ l \in P
          BY <1>1, <1>3, PlaceOnBoard
        <4> QED
          BY <4>1, <1>3
      <3>2. CASE l = -1 /\ c.revealedPrize = p
        BY <3>2, <1>3, <1>4, PlaceOnBoard
      <3>3. CASE l \in 0 .. 5 /\ p \in c.slots[l]
        <4>1. CASE l = 0
          <5> PICK i \in 1 .. Len(b.prizeDeck) : i > Len(rest) /\ b.prizeDeck[i] = p
            BY <3>3, <4>1, <1>3, <1>4
          <5>1. -1 - i \in P
            BY PlaceOnBoard
          <5>2. to(-1 - i) = 0
            BY <1>3
          <5> QED
            BY <4>1, <5>1, <5>2
        <4>2. CASE l \in 1 .. 5
          <5>1. l - 1 \in 0 .. 5 /\ p \in b.slots[l - 1]
            BY <3>3, <4>2, <1>4
          <5>2. l - 1 \in P
            BY <5>1, PlaceOnBoard
          <5> QED
            BY <4>2, <5>2
        <4> QED
          BY <3>3, <4>1, <4>2
      <3>4. CASE l = 6 /\ p \in c.discardPile
        <4>1. CASE p \in b.discardPile
          <5>1. 6 \in P /\ to(6) = 6
            BY <4>1, <1>3, PlaceOnBoard
          <5> QED
            BY <3>4, <5>1
        <4>2. CASE p \in b.slots[5]
          <5>1. 5 \in P
            BY <4>2, PlaceOnBoard
          <5> QED
            BY <3>4, <5>1
        <4> QED
          BY <3>4, <4>1, <4>2, <1>4
      <3> QED
        BY <3>1, <3>2, <3>3, <3>4, PlaceOnBoard
    <2>3. P \subseteq Int /\ \A k \in P : k <= 6
      BY PlacesAreNumbers DEF Discarded
    <2>4. \A k \in P : k <= to(k) /\ (k >= 6 => k = to(k)) /\ (k \in 0 .. 5 => k < to(k))
      BY <1>3, <2>3
    <2> HIDE DEF P, Q, to
    <2>5. Onward(P, Q)
      BY <2>1, <2>2, <2>4 DEF Onward, AtMostOne, Discarded
    <2>6. AtMostOne(P) => \A k \in P, l \in Q : k \in Slots => k < l
      BY <2>2, <2>4 DEF AtMostOne
    <2> QED
      BY <2>5, <2>6 DEF Shifted, P, Q
  <1> QED
    BY <1>4, <1>5, <1>6

(* The extra prize of a reward goes from the top of the pile to the lowest *)
(* slot, if there is one.                                                  *)
LEMMA AddMovesOn ==
  ASSUME NEW b \in Board
  PROVE  /\ AddPrize(b) \in Board
         /\ AddPrize(b).revealedPrize = b.revealedPrize
         /\ \A p \in Prizes : Onward(PlacesOn(b, p), PlacesOn(AddPrize(b), p))
  <1> DEFINE c == AddPrize(b)
             rest == Rest(b.prizeDeck, 1)
             taken == TopOf(b.prizeDeck, 1)
             to(k) == IF k < -1 - Len(rest) THEN 0 ELSE k
  <1>1. b.slots \in [0 .. 5 -> SUBSET Prizes] /\ b.prizeDeck \in Seq(Prizes)
    BY DEF Board
  <1>2. /\ rest \in Seq(Prizes) /\ Len(rest) \in 0 .. Len(b.prizeDeck)
        /\ \A i \in 1 .. Len(rest) : rest[i] = b.prizeDeck[i]
        /\ taken \subseteq Prizes
        /\ \A x : x \in taken <=>
              \E i \in 1 .. Len(b.prizeDeck) : i > Len(rest) /\ b.prizeDeck[i] = x
    BY <1>1, RestOfPile
  <1>3. /\ c.slots = [b.slots EXCEPT ![0] = @ \cup taken]
        /\ c.prizeDeck = rest
        /\ c.revealedPrize = b.revealedPrize
        /\ c.discardPile = b.discardPile
        /\ c.unlockedUpperSlots = b.unlockedUpperSlots
    BY DEF AddPrize, Board
  <1>4. c \in Board
    <2>1. c.slots \in [0 .. 5 -> SUBSET Prizes]
      BY <1>1, <1>2, <1>3
    <2>2. c = [b EXCEPT !.slots = c.slots, !.prizeDeck = c.prizeDeck]
      BY DEF AddPrize, Board
    <2> HIDE DEF c, rest, taken
    <2> QED
      BY <1>2, <1>3, <2>1, <2>2 DEF Board
  <1>5. ASSUME NEW p \in Prizes
        PROVE  Onward(PlacesOn(b, p), PlacesOn(c, p))
    <2> DEFINE P == PlacesOn(b, p)
               Q == PlacesOn(c, p)
    <2> HIDE DEF c, rest, taken
    <2>1. ASSUME NEW k \in P PROVE to(k) \in Q
      <3>1. CASE \E i \in 1 .. Len(b.prizeDeck) : k = -1 - i /\ b.prizeDeck[i] = p
        <4> PICK i \in 1 .. Len(b.prizeDeck) : k = -1 - i /\ b.prizeDeck[i] = p
          BY <3>1
        <4>1. CASE i <= Len(rest)
          BY <4>1, <1>1, <1>2, <1>3, PlaceOnBoard
        <4>2. CASE i > Len(rest)
          <5>1. p \in c.slots[0]
            BY <4>2, <1>1, <1>2, <1>3
          <5> QED
            BY <4>2, <5>1, <1>2, PlaceOnBoard
        <4> QED
          BY <4>1, <4>2, <1>1, <1>2
      <3>2. CASE k = -1 /\ b.revealedPrize = p
        BY <3>2, <1>2, <1>3, PlaceOnBoard
      <3>3. CASE k \in 0 .. 5 /\ p \in b.slots[k]
        <4>1. p \in c.slots[k]
          BY <3>3, <1>1, <1>3
        <4> QED
          BY <3>3, <4>1, <1>2, PlaceOnBoard
      <3>4. CASE k = 6 /\ p \in b.discardPile
        BY <3>4, <1>2, <1>3, PlaceOnBoard
      <3> QED
        BY <3>1, <3>2, <3>3, <3>4, PlaceOnBoard
    <2>2. ASSUME NEW l \in Q PROVE \E k \in P : l = to(k)
      <3>1. CASE \E i \in 1 .. Len(c.prizeDeck) : l = -1 - i /\ c.prizeDeck[i] = p
        <4> PICK i \in 1 .. Len(rest) : l = -1 - i /\ b.prizeDeck[i] = p
          BY <3>1, <1>2, <1>3
        <4>1. i \in 1 .. Len(b.prizeDeck) /\ l \in P
          BY <1>1, <1>2, PlaceOnBoard
        <4> QED
          BY <4>1, <1>2
      <3>2. CASE l = -1 /\ c.revealedPrize = p
        BY <3>2, <1>2, <1>3, PlaceOnBoard
      <3>3. CASE l \in 0 .. 5 /\ p \in c.slots[l]
        <4>1. CASE p \in b.slots[l]
          BY <3>3, <4>1, <1>2, PlaceOnBoard
        <4>2. CASE l = 0 /\ p \in taken
          <5> PICK i \in 1 .. Len(b.prizeDeck) : i > Len(rest) /\ b.prizeDeck[i] = p
            BY <4>2, <1>2
          <5>1. -1 - i \in P
            BY PlaceOnBoard
          <5>2. to(-1 - i) = 0
            BY <1>2
          <5> QED
            BY <4>2, <5>1, <5>2
        <4> QED
          BY <3>3, <4>1, <4>2, <1>1, <1>3
      <3>4. CASE l = 6 /\ p \in c.discardPile
        BY <3>4, <1>2, <1>3, PlaceOnBoard
      <3> QED
        BY <3>1, <3>2, <3>3, <3>4, PlaceOnBoard
    <2>3. P \subseteq Int
      BY PlacesAreNumbers
    <2>4. \A k \in P : k <= to(k) /\ (k >= 6 => k = to(k))
      BY <1>2, <2>3
    <2> HIDE DEF P, Q, to
    <2>5. Onward(P, Q)
      BY <2>1, <2>2, <2>4 DEF Onward, AtMostOne, Discarded
    <2> QED
      BY <2>5 DEF P, Q
  <1> QED
    BY <1>3, <1>4, <1>5

(* The top of the pile is revealed.                                        *)
LEMMA RevealMovesOn ==
  ASSUME NEW b \in Board, b.revealedPrize = None, b.prizeDeck # <<>>
  PROVE  /\ Reveal(b) \in Board
         /\ Reveal(b).revealedPrize # None
         /\ \A p \in Prizes : Onward(PlacesOn(b, p), PlacesOn(Reveal(b), p))
  <1> DEFINE c == Reveal(b)
             n == Len(b.prizeDeck)
             rest == Rest(b.prizeDeck, 1)
             to(k) == IF k = -1 - n THEN -1 ELSE k
  <1>1. b.slots \in [0 .. 5 -> SUBSET Prizes] /\ b.prizeDeck \in Seq(Prizes)
    BY DEF Board
  <1>2. n \in Nat /\ n > 0 /\ b.prizeDeck[n] \in Prizes
    BY <1>1
  <1>3. /\ rest \in Seq(Prizes) /\ Len(rest) = n - 1
        /\ \A i \in 1 .. Len(rest) : rest[i] = b.prizeDeck[i]
    <2>1. \A i \in Nat : i > 0 => Least(1, i) = 1
      BY DEF Least
    <2> QED
      BY <1>1, <1>2, <2>1, RestOfPile
  <1>4. /\ c.slots = b.slots
        /\ c.prizeDeck = rest
        /\ c.revealedPrize = b.prizeDeck[n]
        /\ c.discardPile = b.discardPile
        /\ c.unlockedUpperSlots = b.unlockedUpperSlots
    BY DEF Reveal, Board
  <1>5. c \in Board
    <2>1. c = [b EXCEPT !.revealedPrize = c.revealedPrize, !.prizeDeck = c.prizeDeck]
      BY DEF Reveal, Board
    <2> HIDE DEF c, rest, n
    <2> QED
      BY <1>2, <1>3, <1>4, <2>1 DEF Board
  <1>6. c.revealedPrize # None
    BY <1>2, <1>4, PrizesAssumption
  <1>7. ASSUME NEW p \in Prizes
        PROVE  Onward(PlacesOn(b, p), PlacesOn(c, p))
    <2> DEFINE P == PlacesOn(b, p)
               Q == PlacesOn(c, p)
    <2> HIDE DEF c, rest
    <2>0. b.revealedPrize # p
      BY PrizesAssumption
    <2>1. ASSUME NEW k \in P PROVE to(k) \in Q
      <3>1. CASE \E i \in 1 .. n : k = -1 - i /\ b.prizeDeck[i] = p
        <4> PICK i \in 1 .. n : k = -1 - i /\ b.prizeDeck[i] = p
          BY <3>1
        <4>1. CASE i = n
          BY <4>1, <1>2, <1>4, PlaceOnBoard
        <4>2. CASE i # n
          BY <4>2, <1>2, <1>3, <1>4, PlaceOnBoard
        <4> QED
          BY <4>1, <4>2
      <3>2. CASE k \in 0 .. 6
        BY <3>2, <1>2, <1>4, PlaceOnBoard
      <3> QED
        BY <2>0, <3>1, <3>2, PlaceOnBoard
    <2>2. ASSUME NEW l \in Q PROVE \E k \in P : l = to(k)
      <3>1. CASE \E i \in 1 .. Len(c.prizeDeck) : l = -1 - i /\ c.prizeDeck[i] = p
        <4> PICK i \in 1 .. n - 1 : l = -1 - i /\ b.prizeDeck[i] = p
          BY <3>1, <1>3, <1>4
        <4>1. i \in 1 .. n /\ l \in P
          BY <1>2, PlaceOnBoard
        <4> QED
          BY <4>1, <1>2
      <3>2. CASE l = -1 /\ c.revealedPrize = p
        <4>1. -1 - n \in P
          BY <3>2, <1>2, <1>4, PlaceOnBoard
        <4> QED
          BY <3>2, <4>1
      <3>3. CASE l \in 0 .. 6
        <4>1. l \in P
          BY <3>3, <1>4, PlaceOnBoard
        <4>2. l # -1 - n
          BY <3>3, <1>2
        <4> QED
          BY <4>1, <4>2
      <3>4. \/ \E i \in 1 .. Len(c.prizeDeck) : l = -1 - i /\ c.prizeDeck[i] = p
            \/ l = -1 /\ c.revealedPrize = p
            \/ l \in 0 .. 6
        BY PlaceOnBoard
      <3> QED
        BY <3>1, <3>2, <3>3, <3>4
    <2>3. P \subseteq Int
      BY PlacesAreNumbers
    <2>4. \A k \in P : k <= to(k) /\ (k >= 6 => k = to(k))
      BY <1>2, <2>3
    <2> HIDE DEF P, Q, to
    <2>5. Onward(P, Q)
      BY <2>1, <2>2, <2>4 DEF Onward, AtMostOne, Discarded
    <2> QED
      BY <2>5 DEF P, Q
  <1> QED
    BY <1>5, <1>6, <1>7

(* The revealed prize gets a slot.                                         *)
LEMMA PlaceMovesOn ==
  ASSUME NEW b \in Board, b.revealedPrize # None, NEW i \in Slots
  PROVE  /\ Place(b, i) \in Board
         /\ Place(b, i).revealedPrize = None
         /\ \A p \in Prizes : Onward(PlacesOn(b, p), PlacesOn(Place(b, i), p))
  <1> DEFINE c == Place(b, i)
             to(k) == IF k = -1 THEN i ELSE k
  <1>1. b.slots \in [0 .. 5 -> SUBSET Prizes] /\ b.prizeDeck \in Seq(Prizes) /\ b.revealedPrize \in Prizes
    BY DEF Board
  <1>2. /\ c.slots = [b.slots EXCEPT ![i] = @ \cup {b.revealedPrize}]
        /\ c.prizeDeck = b.prizeDeck
        /\ c.revealedPrize = None
        /\ c.discardPile = b.discardPile
        /\ c.unlockedUpperSlots = b.unlockedUpperSlots
    BY DEF Place, Board
  <1>3. c \in Board
    <2>1. c.slots \in [0 .. 5 -> SUBSET Prizes]
      BY <1>1, <1>2
    <2>2. c = [b EXCEPT !.slots = c.slots, !.revealedPrize = c.revealedPrize]
      BY DEF Place, Board
    <2> HIDE DEF c
    <2> QED
      BY <1>1, <1>2, <2>1, <2>2 DEF Board
  <1>4. ASSUME NEW p \in Prizes
        PROVE  Onward(PlacesOn(b, p), PlacesOn(c, p))
    <2> DEFINE P == PlacesOn(b, p)
               Q == PlacesOn(c, p)
    <2> HIDE DEF c
    <2>0. p # None /\ Len(b.prizeDeck) \in Nat
      BY PrizesAssumption, <1>1
    <2>1. ASSUME NEW k \in P PROVE to(k) \in Q
      <3>1. CASE k = -1 /\ b.revealedPrize = p
        <4>1. p \in c.slots[i]
          BY <3>1, <1>1, <1>2
        <4> QED
          BY <3>1, <4>1, PlaceOnBoard
      <3>2. CASE k \in 0 .. 5 /\ p \in b.slots[k]
        <4>1. p \in c.slots[k]
          BY <3>2, <1>1, <1>2
        <4> QED
          BY <3>2, <4>1, PlaceOnBoard
      <3>3. CASE \E j \in 1 .. Len(b.prizeDeck) : k = -1 - j /\ b.prizeDeck[j] = p
        BY <3>3, <2>0, <1>2, PlaceOnBoard
      <3>4. CASE k = 6 /\ p \in b.discardPile
        BY <3>4, <1>2, PlaceOnBoard
      <3> QED
        BY <3>1, <3>2, <3>3, <3>4, PlaceOnBoard
    <2>2. ASSUME NEW l \in Q PROVE \E k \in P : l = to(k)
      <3>1. CASE \E j \in 1 .. Len(c.prizeDeck) : l = -1 - j /\ c.prizeDeck[j] = p
        <4>1. l \in P /\ l # -1
          BY <3>1, <2>0, <1>2, PlaceOnBoard
        <4> QED
          BY <4>1
      <3>2. CASE l \in 0 .. 5 /\ p \in c.slots[l]
        <4>1. CASE p \in b.slots[l]
          <5>1. l \in P /\ l # -1
            BY <3>2, <4>1, PlaceOnBoard
          <5> QED
            BY <5>1
        <4>2. CASE l = i /\ p = b.revealedPrize
          <5>1. -1 \in P
            BY <4>2, PlaceOnBoard
          <5> QED
            BY <4>2, <5>1
        <4> QED
          BY <3>2, <4>1, <4>2, <1>1, <1>2
      <3>3. CASE l = 6 /\ p \in c.discardPile
        <4>1. l \in P /\ l # -1
          BY <3>3, <1>2, PlaceOnBoard
        <4> QED
          BY <4>1
      <3>4. \/ \E j \in 1 .. Len(c.prizeDeck) : l = -1 - j /\ c.prizeDeck[j] = p
            \/ l \in 0 .. 5 /\ p \in c.slots[l]
            \/ l = 6 /\ p \in c.discardPile
        BY <2>0, <1>2, PlaceOnBoard
      <3> QED
        BY <3>1, <3>2, <3>3, <3>4
    <2>3. P \subseteq Int
      BY PlacesAreNumbers
    <2>4. \A k \in P : k <= to(k) /\ (k >= 6 => k = to(k))
      BY <2>3
    <2> HIDE DEF P, Q, to
    <2>5. Onward(P, Q)
      BY <2>1, <2>2, <2>4 DEF Onward, AtMostOne, Discarded
    <2> QED
      BY <2>5 DEF P, Q
  <1> QED
    BY <1>2, <1>3, <1>4
-----------------------------------------------------------------------------
(* Cards and seats                                                         *)

LEMMA DrawCardsTyped ==
  ASSUME deck \in [Seats -> Seq(Card)], hand \in [Seats -> SUBSET Card],
         NEW n \in [Seats -> Nat], DrawCards(n)
  PROVE  deck' \in [Seats -> Seq(Card)] /\ hand' \in [Seats -> SUBSET Card]
  <1>1. ASSUME NEW s \in Seats
        PROVE  Rest(deck[s], n[s]) \in Seq(Card) /\ TopOf(deck[s], n[s]) \subseteq Card
    BY RestOfPile
  <1> QED
    BY <1>1 DEF DrawCards

(* There is always a seat nearest in turn order among those that have not  *)
(* passed.                                                                 *)
LEMMA NextActiveHasNotPassed ==
  ASSUME NEW a \in Auction, NonPassed(a) # {}
  PROVE  /\ NextActive(a) \in NonPassed(a)
         /\ \A t \in NonPassed(a) :
              Distance(a.activeSeat, NextActive(a)) <= Distance(a.activeSeat, t)
  <1> DEFINE T == {Distance(a.activeSeat, s) : s \in NonPassed(a)}
  <1>1. NonPassed(a) \subseteq Seats /\ a.activeSeat \in Seats
    BY DEF NonPassed, Auction
  <1>2. \A s \in Seats : Distance(a.activeSeat, s) \in Nat
    BY <1>1, SeatsAssumption DEF Distance
  <1>3. T \in SUBSET Nat /\ T # {}
    BY <1>1, <1>2
  <1>4. PICK m \in T : \A n \in T : m <= n
    <2> HIDE DEF T
    <2> QED
      BY <1>3, SmallestExists
  <1>5. \E s \in NonPassed(a) :
          \A t \in NonPassed(a) : Distance(a.activeSeat, s) <= Distance(a.activeSeat, t)
    BY <1>4
  <1> QED
    BY <1>5 DEF NextActive

LEMMA SlotForBidIsASlot ==
  \/ SlotIndexForBid = None
  \/ SlotIndexForBid \in Slots /\ price[SlotIndexForBid] <= Threshold
  <1> DEFINE A == {i \in Slots : price[i] <= Threshold}
  <1>1. SUFFICES ASSUME A # {} PROVE Max(A) \in A
    BY DEF SlotIndexForBid
  <1>2. \E x \in A : \A y \in A : x >= y
    <2>1. A \subseteq 0 .. 5
      OBVIOUS
    <2> HIDE DEF A
    <2>2. CASE 5 \in A
      <3>1. \A y \in A : 5 >= y
        BY <2>1, <2>2
      <3> QED
        BY <3>1, <2>2
    <2>3. CASE 4 \in A /\ 5 \notin A
      <3>1. \A y \in A : 4 >= y
        BY <2>1, <2>3
      <3> QED
        BY <3>1, <2>3
    <2>4. CASE 3 \in A /\ 4 \notin A /\ 5 \notin A
      <3>1. \A y \in A : 3 >= y
        BY <2>1, <2>4
      <3> QED
        BY <3>1, <2>4
    <2>5. CASE 2 \in A /\ 3 \notin A /\ 4 \notin A /\ 5 \notin A
      <3>1. \A y \in A : 2 >= y
        BY <2>1, <2>5
      <3> QED
        BY <3>1, <2>5
    <2>6. CASE 1 \in A /\ 2 \notin A /\ 3 \notin A /\ 4 \notin A /\ 5 \notin A
      <3>1. \A y \in A : 1 >= y
        BY <2>1, <2>6
      <3> QED
        BY <3>1, <2>6
    <2>7. CASE 0 \in A /\ 1 \notin A /\ 2 \notin A /\ 3 \notin A /\ 4 \notin A /\ 5 \notin A
      <3>1. \A y \in A : 0 >= y
        BY <2>1, <2>7
      <3> QED
        BY <3>1, <2>7
    <2>8. 0 \in A \/ 1 \in A \/ 2 \in A \/ 3 \in A \/ 4 \in A \/ 5 \in A
      <3> PICK z \in A : TRUE
        BY <1>1
      <3>1. z = 0 \/ z = 1 \/ z = 2 \/ z = 3 \/ z = 4 \/ z = 5
        BY <2>1
      <3> QED
        BY <3>1
    <2> QED
      BY <2>2, <2>3, <2>4, <2>5, <2>6, <2>7, <2>8
  <1> QED
    BY <1>2 DEF Max
-----------------------------------------------------------------------------
(* Types                                                                   *)

(* What the phase says of the other variables.                             *)
PhaseInv ==
  /\ board.revealedPrize # None <=> phase = "awaiting-new-prize-placement"
  /\ phase \in {"awaiting-prize-choice", "awaiting-new-prize-placement"} =>
       auction.winnerSeat \in Seats

GameInv == TypeOK /\ PhaseInv

(* How a move that wins nobody a prize changes where the prizes are.       *)
BoardMovesOn ==
  /\ wonPrizes' = wonPrizes
  /\ \A p \in Prizes :
       /\ Onward(PlacesOn(board, p), PlacesOn(board', p))
       /\ DisplayShifts => Shifted(PlacesOn(board, p), PlacesOn(board', p))

LEMMA OnwardByStaying ==
  ASSUME NEW P \in SUBSET Int PROVE Onward(P, P)
  BY DEF Onward, AtMostOne

LEMMA StartAuctionTyped ==
  ASSUME NEW s \in Seats PROVE StartAuction(s) \in Auction
  BY DEF StartAuction, Auction

LEMMA AdvanceAuctionKeeps ==
  ASSUME GameInv, phase = "auction-active",
         NEW a \in Auction, a.openerSeat = auction.openerSeat,
         AdvanceAuction(a), UNCHANGED <<rulesetVersion, price>>
  PROVE  GameInv' /\ BoardMovesOn
  <1> USE DEF GameInv
  <1>1. CASE ResolveAuctionNoWinner(a)
    <2> DEFINE b == ShiftDisplay(board)
    <2>1. /\ b \in Board /\ b.revealedPrize = board.revealedPrize
          /\ \A p \in Prizes : Shifted(PlacesOn(board, p), PlacesOn(b, p))
      BY ShiftMovesOn DEF TypeOK
    <2>2. board' = b /\ UNCHANGED <<deck, hand, wonPrizes>>
      BY <1>1 DEF ResolveAuctionNoWinner
    <2>3. DetermineWinners(wonPrizes) \in SUBSET Seats
      BY DEF DetermineWinners
    <2>4. NextSeat(a.openerSeat) \in Seats
      BY SeatsAssumption DEF NextSeat, Auction
    <2>5. auction' \in Auction /\ phase' \in {"auction-active", "ended"} /\ winner' \in SUBSET Seats
      BY <1>1, <2>3, <2>4, StartAuctionTyped DEF ResolveAuctionNoWinner, TypeOK
    <2>6. TypeOK'
      BY <2>1, <2>2, <2>5 DEF TypeOK, Phases
    <2>7. PhaseInv'
      BY <2>1, <2>2, <2>5 DEF PhaseInv
    <2> QED
      BY <2>1, <2>2, <2>6, <2>7 DEF BoardMovesOn, Shifted
  <1>2. ASSUME UNCHANGED <<board, wonPrizes>>, phase = "auction-active",
               auction'.openerSeat = auction.openerSeat
        PROVE  BoardMovesOn
    <2>1. \A p \in Prizes : Onward(PlacesOn(board, p), PlacesOn(board, p))
      BY PlacesAreNumbers, OnwardByStaying DEF TypeOK
    <2>2. ~ DisplayShifts
      BY <1>2 DEF DisplayShifts
    <2> QED
      BY <1>2, <2>1, <2>2 DEF BoardMovesOn
  <1>3. CASE OnlyTheHighestBidderIsLeft(a) /\ ResolveAuctionWin(a)
    <2>1. /\ a.highestBid \in Bid /\ a.highestBid.seat \in Seats
      BY <1>3 DEF OnlyTheHighestBidderIsLeft, Auction, Bid
    <2>2. /\ auction' = [a EXCEPT !.winnerSeat = a.highestBid.seat]
          /\ hand' = [hand EXCEPT ![a.highestBid.seat] = @ \ a.highestBid.cards]
          /\ phase' = "awaiting-prize-choice"
          /\ UNCHANGED <<board, deck, wonPrizes, winner>>
      BY <1>3 DEF ResolveAuctionWin, PayBid
    <2>3. /\ auction' \in Auction /\ auction'.openerSeat = auction.openerSeat
          /\ auction'.winnerSeat \in Seats
      BY <2>1, <2>2 DEF Auction
    <2>4. hand' \in [Seats -> SUBSET Card]
      BY <2>1, <2>2 DEF TypeOK
    <2>5. TypeOK'
      BY <2>2, <2>3, <2>4 DEF TypeOK, Phases
    <2>6. PhaseInv'
      BY <2>2, <2>3 DEF PhaseInv
    <2> QED
      BY <1>2, <2>2, <2>3, <2>5, <2>6
  <1>4. CASE /\ NonPassed(a) # {}
             /\ auction' = [a EXCEPT !.activeSeat = NextActive(a)]
             /\ UNCHANGED <<board, deck, hand, wonPrizes, phase, winner>>
    <2>1. NextActive(a) \in Seats
      BY <1>4, NextActiveHasNotPassed DEF NonPassed
    <2>2. auction' \in Auction /\ auction'.openerSeat = auction.openerSeat
      BY <1>4, <2>1 DEF Auction
    <2>3. TypeOK'
      BY <1>4, <2>2 DEF TypeOK
    <2>4. PhaseInv'
      BY <1>4 DEF PhaseInv
    <2> QED
      BY <1>2, <1>4, <2>2, <2>3, <2>4
  <1> QED
    BY <1>1, <1>3, <1>4 DEF AdvanceAuction

LEMMA PostAuctionDrawTyped ==
  ASSUME NEW s \in Seats PROVE PostAuctionDraw(s) \in Nat
  BY DEF PostAuctionDraw

LEMMA ConcludeAuctionKeeps ==
  ASSUME GameInv, auction.winnerSeat \in Seats, UNCHANGED <<rulesetVersion, price>>,
         wonPrizes' \in [Seats -> SUBSET Prizes],
         NEW b \in Board, b.revealedPrize = None, NEW n \in [Seats -> Nat],
         ConcludeAuction(b, n)
  PROVE  GameInv' /\ board' = b
  <1> USE DEF GameInv
  <1>1. board' = b /\ DrawCards([s \in Seats |-> n[s] + PostAuctionDraw(s)])
    BY DEF ConcludeAuction
  <1>2. [s \in Seats |-> n[s] + PostAuctionDraw(s)] \in [Seats -> Nat]
    BY PostAuctionDrawTyped
  <1>3. deck' \in [Seats -> Seq(Card)] /\ hand' \in [Seats -> SUBSET Card]
    BY <1>1, <1>2, DrawCardsTyped DEF TypeOK
  <1>4. DetermineWinners(wonPrizes') \in SUBSET Seats
    BY DEF DetermineWinners
  <1>5. auction' \in Auction /\ phase' \in {"auction-active", "ended"} /\ winner' \in SUBSET Seats
    BY <1>4, StartAuctionTyped DEF ConcludeAuction, TypeOK
  <1>6. TypeOK'
    BY <1>1, <1>3, <1>5 DEF TypeOK, Phases
  <1>7. PhaseInv'
    BY <1>1, <1>5 DEF PhaseInv
  <1> QED
    BY <1>1, <1>6, <1>7

LEMMA AfterPrizeChoiceKeeps ==
  ASSUME GameInv, auction.winnerSeat \in Seats, UNCHANGED <<rulesetVersion, price>>,
         wonPrizes' \in [Seats -> SUBSET Prizes],
         NEW b \in Board, b.revealedPrize = None, NEW n \in [Seats -> Nat],
         AfterPrizeChoice(b, n)
  PROVE  /\ GameInv'
         /\ \A p \in Prizes : Onward(PlacesOn(b, p), PlacesOn(board', p))
  <1> USE DEF GameInv
  <1>1. \A p \in Prizes : Onward(PlacesOn(b, p), PlacesOn(b, p))
    BY PlacesAreNumbers, OnwardByStaying
  <1>2. DrawCards(n) => deck' \in [Seats -> Seq(Card)] /\ hand' \in [Seats -> SUBSET Card]
    BY DrawCardsTyped DEF TypeOK
  <1>3. CASE /\ board' = b /\ DrawCards(n)
             /\ phase' = "ended" /\ winner' = DetermineWinners(wonPrizes')
             /\ UNCHANGED auction
    <2>1. winner' \in SUBSET Seats
      BY <1>3 DEF DetermineWinners
    <2>2. TypeOK'
      BY <1>2, <1>3, <2>1 DEF TypeOK, Phases
    <2>3. PhaseInv'
      BY <1>3 DEF PhaseInv
    <2> QED
      BY <1>1, <1>3, <2>2, <2>3
  <1>4. CASE /\ b.prizeDeck # <<>>
             /\ board' = Reveal(b) /\ DrawCards(n)
             /\ phase' = "awaiting-new-prize-placement"
             /\ UNCHANGED <<auction, winner>>
    <2>1. /\ Reveal(b) \in Board /\ Reveal(b).revealedPrize # None
          /\ \A p \in Prizes : Onward(PlacesOn(b, p), PlacesOn(Reveal(b), p))
      BY <1>4, RevealMovesOn
    <2>2. TypeOK'
      BY <1>2, <1>4, <2>1 DEF TypeOK, Phases
    <2>3. PhaseInv'
      BY <1>4, <2>1 DEF PhaseInv
    <2> QED
      BY <1>4, <2>1, <2>2, <2>3
  <1>5. CASE ConcludeAuction(b, n)
    BY <1>1, <1>5, ConcludeAuctionKeeps
  <1> QED
    BY <1>3, <1>4, <1>5 DEF AfterPrizeChoice

LEMMA RewardDrawsCards ==
  ASSUME NEW reward \in Rewards PROVE reward.cards \in Nat
  BY DEF Rewards, CardsForRewardTier

LEMMA ChooseAuctionRewardKeeps ==
  ASSUME GameInv, NEW seat \in Seats, NEW reward \in Rewards,
         ChooseAuctionReward(seat, reward)
  PROVE  GameInv' /\ BoardMovesOn
  <1> USE DEF GameInv
  <1> DEFINE extra == IF reward.extraShift THEN ShiftDisplay(board) ELSE board
             shifted == ShiftDisplay(extra)
             b == IF reward.addPrize THEN AddPrize(shifted) ELSE shifted
             n == [s \in Seats |-> IF s = seat THEN reward.cards ELSE 0]
  <1>1. /\ phase = "awaiting-prize-choice" /\ auction.winnerSeat = seat
        /\ UNCHANGED <<rulesetVersion, price, wonPrizes>>
        /\ AfterPrizeChoice(b, n)
    BY DEF ChooseAuctionReward
  <1>2. board \in Board /\ board.revealedPrize = None /\ wonPrizes' \in [Seats -> SUBSET Prizes]
    BY <1>1 DEF TypeOK, PhaseInv
  <1>3. /\ extra \in Board /\ extra.revealedPrize = None
        /\ \A p \in Prizes : Onward(PlacesOn(board, p), PlacesOn(extra, p))
    BY <1>2, ShiftMovesOn, PlacesAreNumbers, OnwardByStaying DEF Shifted
  <1>4. /\ shifted \in Board /\ shifted.revealedPrize = None
        /\ \A p \in Prizes : Shifted(PlacesOn(extra, p), PlacesOn(shifted, p))
    <2> HIDE DEF extra
    <2> QED
      BY <1>3, ShiftMovesOn
  <1>5. /\ b \in Board /\ b.revealedPrize = None
        /\ \A p \in Prizes : Onward(PlacesOn(shifted, p), PlacesOn(b, p))
    <2> HIDE DEF shifted
    <2> QED
      BY <1>4, AddMovesOn, PlacesAreNumbers, OnwardByStaying
  <1>6. n \in [Seats -> Nat]
    BY RewardDrawsCards
  <1> HIDE DEF extra, shifted, b, n
  <1>7. /\ GameInv'
        /\ \A p \in Prizes : Onward(PlacesOn(b, p), PlacesOn(board', p))
    BY <1>1, <1>2, <1>5, <1>6, AfterPrizeChoiceKeeps
  <1>8. ASSUME NEW p \in Prizes PROVE Shifted(PlacesOn(board, p), PlacesOn(board', p))
    <2>1. board' \in Board
      BY <1>7 DEF TypeOK
    <2>2. /\ PlacesOn(board, p) \in SUBSET Int /\ PlacesOn(extra, p) \in SUBSET Int
          /\ PlacesOn(shifted, p) \in SUBSET Int /\ PlacesOn(b, p) \in SUBSET Int
          /\ PlacesOn(board', p) \in SUBSET Int
      BY <1>2, <1>3, <1>4, <1>5, <2>1, PlacesAreNumbers
    <2>3. Shifted(PlacesOn(board, p), PlacesOn(shifted, p))
      BY <1>3, <1>4, <2>2, OnwardComposes DEF Shifted
    <2>4. Shifted(PlacesOn(board, p), PlacesOn(b, p))
      BY <1>5, <2>2, <2>3, OnwardComposes DEF Shifted
    <2> QED
      BY <1>7, <2>2, <2>4, OnwardComposes DEF Shifted
  <1> QED
    BY <1>1, <1>7, <1>8 DEF BoardMovesOn, Shifted

LEMMA PlaceNewPrizeKeeps ==
  ASSUME GameInv, NEW seat \in Seats, NEW i \in Slots, PlaceNewPrize(seat, i)
  PROVE  GameInv' /\ BoardMovesOn
  <1> USE DEF GameInv
  <1> DEFINE n == [s \in Seats |-> 0]
  <1>1. /\ phase = "awaiting-new-prize-placement" /\ auction.winnerSeat = seat
        /\ board.revealedPrize # None
        /\ UNCHANGED <<rulesetVersion, price, wonPrizes>>
        /\ ConcludeAuction(Place(board, i), n)
    BY DEF PlaceNewPrize
  <1>2. /\ Place(board, i) \in Board /\ Place(board, i).revealedPrize = None
        /\ \A p \in Prizes : Onward(PlacesOn(board, p), PlacesOn(Place(board, i), p))
    BY <1>1, PlaceMovesOn DEF TypeOK
  <1>3. n \in [Seats -> Nat] /\ wonPrizes' \in [Seats -> SUBSET Prizes]
    BY <1>1 DEF TypeOK
  <1> HIDE DEF n
  <1>4. GameInv' /\ board' = Place(board, i)
    BY <1>1, <1>2, <1>3, ConcludeAuctionKeeps
  <1>5. ~ DisplayShifts
    BY <1>1 DEF DisplayShifts
  <1> QED
    BY <1>1, <1>2, <1>4, <1>5 DEF BoardMovesOn

(* A prize taken leaves the board; the others drift.                       *)
LEMMA TakePrizeKeeps ==
  ASSUME GameInv, NEW seat \in Seats, NEW prize \in Prizes, TakePrize(seat, prize)
  PROVE  /\ GameInv' /\ phase = "awaiting-prize-choice"
         /\ wonPrizes' = [wonPrizes EXCEPT ![seat] = @ \cup {prize}]
         /\ \E i \in Slots : i \in PlacesOn(board, prize)
         /\ AtMostOne(PlacesOn(board, prize)) => PlacesOn(board', prize) = {}
         /\ \A p \in Prizes \ {prize} : Shifted(PlacesOn(board, p), PlacesOn(board', p))
  <1> USE DEF GameInv
  <1> DEFINE i == SlotIndexForBid
             c == [board EXCEPT !.slots[i] = @ \ {prize}]
             n == [s \in Seats |-> 0]
  <1>1. /\ phase = "awaiting-prize-choice" /\ auction.winnerSeat = seat
        /\ i # None /\ prize \in board.slots[i]
        /\ wonPrizes' = [wonPrizes EXCEPT ![seat] = @ \cup {prize}]
        /\ UNCHANGED <<rulesetVersion, price>>
        /\ AfterPrizeChoice(ShiftDisplay(c), n)
    BY DEF TakePrize, PrizesToTake
  <1>2. i \in Slots
    BY <1>1, SlotForBidIsASlot
  <1>3. /\ board \in Board /\ board.revealedPrize = None
        /\ board.slots \in [0 .. 5 -> SUBSET Prizes]
    BY <1>1 DEF TypeOK, PhaseInv, Board
  <1> HIDE DEF i
  <1>4. /\ c.slots = [board.slots EXCEPT ![i] = @ \ {prize}]
        /\ c.prizeDeck = board.prizeDeck /\ c.revealedPrize = None
        /\ c.discardPile = board.discardPile
        /\ c.unlockedUpperSlots = board.unlockedUpperSlots
    BY <1>3 DEF Board
  <1>5. c \in Board
    <2>1. c.slots \in [0 .. 5 -> SUBSET Prizes]
      BY <1>2, <1>3, <1>4
    <2>2. c = [board EXCEPT !.slots = c.slots]
      BY <1>3 DEF Board
    <2> HIDE DEF c
    <2> QED
      BY <1>3, <2>1, <2>2 DEF Board
  <1> HIDE DEF c
  <1>6. ASSUME NEW p \in Prizes \ {prize} PROVE PlacesOn(c, p) = PlacesOn(board, p)
    <2>1. \A k \in 0 .. 5 : p \in c.slots[k] <=> p \in board.slots[k]
      BY <1>2, <1>3, <1>4
    <2>2. ASSUME NEW k PROVE k \in PlacesOn(c, p) <=> k \in PlacesOn(board, p)
      BY <1>3, <1>4, <2>1, PlaceOnBoard
    <2> QED
      BY <2>2
  <1>7. i \in PlacesOn(board, prize)
    BY <1>1, <1>2, PlaceOnBoard
  <1>8. ASSUME AtMostOne(PlacesOn(board, prize)) PROVE PlacesOn(c, prize) = {}
    <2>1. PlacesOn(c, prize) \subseteq PlacesOn(board, prize)
      <3>1. \A k \in 0 .. 5 : c.slots[k] \subseteq board.slots[k]
        BY <1>2, <1>3, <1>4
      <3> QED
        BY <1>3, <1>4, <3>1 DEF PlacesOn
    <2>2. i \notin PlacesOn(c, prize)
      <3>1. prize \notin c.slots[i]
        BY <1>2, <1>3, <1>4
      <3>2. Len(c.prizeDeck) \in Nat
        BY <1>5 DEF Board
      <3> QED
        BY <1>2, <3>1, <3>2, PlaceOnBoard
    <2> QED
      BY <1>7, <1>8, <2>1, <2>2 DEF AtMostOne
  <1> DEFINE b == ShiftDisplay(c)
  <1>9. /\ b \in Board /\ b.revealedPrize = None
        /\ \A p \in Prizes : Shifted(PlacesOn(c, p), PlacesOn(b, p))
    BY <1>4, <1>5, ShiftMovesOn
  <1>10. n \in [Seats -> Nat] /\ wonPrizes' \in [Seats -> SUBSET Prizes]
    BY <1>1 DEF TypeOK
  <1> HIDE DEF b, n
  <1>11. /\ GameInv'
         /\ \A p \in Prizes : Onward(PlacesOn(b, p), PlacesOn(board', p))
    BY <1>1, <1>9, <1>10, AfterPrizeChoiceKeeps DEF b
  <1>12. ASSUME NEW p \in Prizes PROVE Shifted(PlacesOn(c, p), PlacesOn(board', p))
    <2>1. /\ PlacesOn(c, p) \in SUBSET Int /\ PlacesOn(b, p) \in SUBSET Int
          /\ PlacesOn(board', p) \in SUBSET Int
      BY <1>5, <1>9, <1>11, PlacesAreNumbers DEF TypeOK
    <2> QED
      BY <1>9, <1>11, <2>1, OnwardComposes DEF Shifted
  <1>13. AtMostOne(PlacesOn(board, prize)) => PlacesOn(board', prize) = {}
    BY <1>8, <1>12 DEF Shifted, Onward, AtMostOne
  <1> QED
    BY <1>1, <1>2, <1>6, <1>7, <1>11, <1>12, <1>13
-----------------------------------------------------------------------------
(* The places of all prizes                                                *)

WonIn(won, p) == {WonBy(s) : s \in {s \in Seats : p \in won[s]}}

LEMMA WonPlaces ==
  ASSUME NEW won, NEW p
  PROVE  /\ \A k : k \in WonIn(won, p) <=> \E s \in 1 .. NumSeats : k = 6 + s /\ p \in won[s]
         /\ WonIn(won, p) \in SUBSET Int /\ \A k \in WonIn(won, p) : k > 6
  <1>1. \A k : k \in WonIn(won, p) <=> \E s \in 1 .. NumSeats : k = 6 + s /\ p \in won[s]
    BY DEF WonIn, WonBy, Discarded
  <1>2. ASSUME NEW k \in WonIn(won, p) PROVE k \in Int /\ k > 6
    <2> PICK s \in 1 .. NumSeats : k = 6 + s
      BY <1>1
    <2> QED
      BY SeatsAssumption
  <1> QED
    BY <1>1, <1>2

(* A prize is not on the board and won.                                    *)
LEMMA OnBoardOrWon ==
  ASSUME NEW P \in SUBSET Int, NEW W \in SUBSET Int, \A k \in P : k <= 6, \A k \in W : k > 6,
         AtMostOne(P \cup W), P # {}
  PROVE  W = {}
  <1> PICK x \in P : TRUE
    OBVIOUS
  <1> SUFFICES ASSUME NEW y \in W PROVE FALSE
    OBVIOUS
  <1>1. x = y
    BY DEF AtMostOne
  <1> QED
    BY <1>1

(* A prize that is nowhere twice, and its places before and after a move.  *)
PrizeMovesOn(p) ==
  /\ PlacesOf(p)' # {} /\ AtMostOne(PlacesOf(p)')
  /\ \A k \in PlacesOf(p), l \in PlacesOf(p)' :
       /\ k <= l
       /\ k >= Discarded => k = l
       /\ k \in Slots /\ DisplayShifts => k < l

LEMMA BoardMoveKeepsPrizes ==
  ASSUME GameInv, GameInv', PrizesConserved, BoardMovesOn, NEW p \in Prizes
  PROVE  PrizeMovesOn(p)
  <1> DEFINE P == PlacesOn(board, p)
             Q == PlacesOn(board', p)
             W == WonIn(wonPrizes, p)
  <1>1. PlacesOf(p) = P \cup W /\ PlacesOf(p)' = Q \cup W
    BY DEF PlacesOf, BoardMovesOn, WonIn
  <1>2. P \cup W # {} /\ AtMostOne(P \cup W)
    BY <1>1 DEF PrizesConserved, AtMostOne
  <1>3. /\ P \subseteq Int /\ \A k \in P : k <= 6
        /\ Q \subseteq Int /\ \A k \in Q : k <= 6
    BY PlacesAreNumbers DEF GameInv, TypeOK, Discarded
  <1>4. W \subseteq Int /\ \A k \in W : k > 6
    BY WonPlaces
  <1>5. Onward(P, Q) /\ (DisplayShifts => Shifted(P, Q))
    BY DEF BoardMovesOn
  <1> HIDE DEF P, Q, W
  <1>6. AtMostOne(P)
    BY <1>2 DEF AtMostOne
  <1>7. /\ AtMostOne(Q) /\ ((P = {}) <=> (Q = {}))
        /\ \A k \in P, l \in Q : k <= l /\ (k >= 6 => k = l)
        /\ DisplayShifts => \A k \in P, l \in Q : k \in Slots => k < l
    BY <1>5, <1>6 DEF Onward, Shifted, Discarded
  <1>8. CASE P = {}
    <2>1. Q \cup W = W /\ P \cup W = W
      BY <1>7, <1>8
    <2>2. \A k, l \in W : k = l /\ k > 6
      BY <1>2, <1>4, <2>1 DEF AtMostOne
    <2>3. PlacesOf(p) = W /\ PlacesOf(p)' = W /\ W # {}
      BY <1>1, <1>2, <2>1
    <2>4. AtMostOne(PlacesOf(p)')
      BY <2>2, <2>3 DEF AtMostOne
    <2>5. \A k \in W : k \in Int /\ k \notin Slots
      BY <1>4
    <2> QED
      BY <2>2, <2>3, <2>4, <2>5 DEF PrizeMovesOn
  <1>9. CASE P # {}
    <2>1. W = {}
      BY <1>2, <1>3, <1>4, <1>9, OnBoardOrWon
    <2>2. Q # {} /\ P \cup W = P /\ Q \cup W = Q
      BY <1>7, <1>9, <2>1
    <2> QED
      BY <1>1, <1>7, <2>2 DEF PrizeMovesOn, Discarded
  <1> QED
    BY <1>8, <1>9

LEMMA TakenPrizeMovesOn ==
  ASSUME GameInv, PrizesConserved, NEW seat \in Seats, NEW prize \in Prizes,
         TakePrize(seat, prize), NEW p \in Prizes
  PROVE  PrizeMovesOn(p)
  <1> DEFINE P == PlacesOn(board, p)
             Q == PlacesOn(board', p)
             W == WonIn(wonPrizes, p)
             V == WonIn(wonPrizes', p)
  <1>1. PlacesOf(p) = P \cup W /\ PlacesOf(p)' = Q \cup V
    BY DEF PlacesOf, WonIn
  <1>2. P \cup W # {} /\ AtMostOne(P \cup W)
    BY <1>1 DEF PrizesConserved, AtMostOne
  <1>3. /\ GameInv'
        /\ wonPrizes' = [wonPrizes EXCEPT ![seat] = @ \cup {prize}]
        /\ \E i \in Slots : i \in PlacesOn(board, prize)
        /\ AtMostOne(PlacesOn(board, prize)) => PlacesOn(board', prize) = {}
        /\ \A q \in Prizes \ {prize} : Shifted(PlacesOn(board, q), PlacesOn(board', q))
    BY TakePrizeKeeps
  <1>4. /\ P \subseteq Int /\ \A k \in P : k <= 6
        /\ Q \subseteq Int /\ \A k \in Q : k <= 6
    BY <1>3, PlacesAreNumbers DEF GameInv, TypeOK, Discarded
  <1>5. /\ W \subseteq Int /\ \A k \in W : k > 6
        /\ V \subseteq Int /\ \A k \in V : k > 6
    BY WonPlaces
  <1>6. wonPrizes \in [Seats -> SUBSET Prizes]
    BY DEF GameInv, TypeOK
  <1>7. AtMostOne(P)
    BY <1>2 DEF AtMostOne
  <1>8. CASE p = prize
    <2>1. P # {} /\ Q = {}
      BY <1>3, <1>7, <1>8
    <2>2. W = {}
      <3> HIDE DEF P, W
      <3> QED
        BY <1>2, <1>4, <1>5, <2>1, OnBoardOrWon
    <2>3. \A s \in 1 .. NumSeats : p \in wonPrizes[s] => 6 + s \in W
      BY WonPlaces
    <2>4. \A s \in Seats : p \in wonPrizes'[s] <=> s = seat
      BY <1>3, <1>6, <1>8, <2>2, <2>3
    <2>5. V = {6 + seat}
      BY <2>4 DEF WonIn, WonBy, Discarded
    <2> HIDE DEF P, Q, W, V
    <2>6. PlacesOf(p) = P /\ PlacesOf(p)' = {6 + seat}
      BY <1>1, <2>1, <2>2, <2>5
    <2>7. \A k \in P : k \in Slots
      BY <1>2, <1>3, <1>7, <1>8 DEF AtMostOne, P
    <2>8. AtMostOne(PlacesOf(p)')
      BY <2>6 DEF AtMostOne
    <2>9. \A k \in P : k <= 6 + seat /\ k < 6 + seat /\ ~ (k >= Discarded)
      BY <2>7, SeatsAssumption DEF Discarded
    <2> QED
      BY <2>6, <2>8, <2>9 DEF PrizeMovesOn
  <1>9. CASE p # prize
    <2>1. V = W
      <3>1. \A s \in Seats : p \in wonPrizes'[s] <=> p \in wonPrizes[s]
        BY <1>3, <1>6, <1>9
      <3> QED
        BY <3>1 DEF WonIn
    <2>2. Shifted(P, Q)
      BY <1>3, <1>9
    <2> HIDE DEF P, Q, W, V
    <2>3. /\ AtMostOne(Q) /\ ((P = {}) <=> (Q = {}))
          /\ \A k \in P, l \in Q : k <= l /\ (k >= 6 => k = l) /\ (k \in Slots => k < l)
      BY <1>7, <2>2 DEF Onward, Shifted, Discarded
    <2>4. CASE P = {}
      <3>1. PlacesOf(p) = W /\ PlacesOf(p)' = W
        BY <1>1, <2>1, <2>3, <2>4
      <3>2. W # {} /\ \A k, l \in W : k = l /\ k > 6
        BY <1>1, <1>2, <1>5, <3>1 DEF AtMostOne
      <3>3. AtMostOne(PlacesOf(p)')
        BY <3>1, <3>2 DEF AtMostOne
      <3>4. \A k \in W : k \in Int /\ k \notin Slots
        BY <1>5
      <3> QED
        BY <3>1, <3>2, <3>3, <3>4 DEF PrizeMovesOn
    <2>5. CASE P # {}
      <3>1. W = {}
        BY <1>2, <1>4, <1>5, <2>5, OnBoardOrWon
      <3>2. PlacesOf(p) = P /\ PlacesOf(p)' = Q /\ Q # {}
        BY <1>1, <2>1, <2>3, <2>5, <3>1
      <3> QED
        BY <2>3, <3>2 DEF PrizeMovesOn, Discarded
    <2> QED
      BY <2>4, <2>5
  <1> QED
    BY <1>8, <1>9
-----------------------------------------------------------------------------
(* The game                                                                *)

LEMMA InitTyped ==
  ASSUME Init PROVE GameInv
  <1>1. PICK pile \in PrizeShuffles :
          board = [slots              |-> [i \in Slots |-> IF i \in 1 .. 3 THEN {pile[i]} ELSE {}],
                   prizeDeck          |-> SubSeq(pile, 4, Len(pile)),
                   revealedPrize      |-> None,
                   discardPile        |-> {},
                   unlockedUpperSlots |-> {}]
    BY DEF Init
  <1>2. PICK shuffled \in [Seats -> CardShuffles] :
          /\ hand = [s \in Seats |-> TopOf(shuffled[s], HandSize)]
          /\ deck = [s \in Seats |-> Rest(shuffled[s], HandSize)]
    BY DEF Init
  <1>3. pile \in Seq(Prizes) /\ Len(pile) \in Nat /\ Len(pile) > 3
    BY PrizesAssumption DEF IsShuffleOf
  <1>4. board \in Board
    <2>1. [i \in Slots |-> IF i \in 1 .. 3 THEN {pile[i]} ELSE {}] \in [Slots -> SUBSET Prizes]
      BY <1>3
    <2>2. SubSeq(pile, 4, Len(pile)) \in Seq(Prizes)
      BY <1>3
    <2> QED
      BY <1>1, <2>1, <2>2 DEF Board
  <1>5. ASSUME NEW s \in Seats
        PROVE  Rest(shuffled[s], HandSize) \in Seq(Card) /\ TopOf(shuffled[s], HandSize) \subseteq Card
    <2> DEFINE cards == shuffled[s]
    <2>1. cards \in Seq({cards[i] : i \in 1 .. Len(cards)})
      BY CardsAssumption DEF IsShuffleOf
    <2>2. {cards[i] : i \in 1 .. Len(cards)} \subseteq Card
      BY DEF Card
    <2>3. cards \in Seq(Card)
      BY <2>1, <2>2
    <2> QED
      BY <2>3, CardsAssumption, RestOfPile
  <1>6. deck \in [Seats -> Seq(Card)] /\ hand \in [Seats -> SUBSET Card]
    BY <1>2, <1>5
  <1>7. auction \in Auction
    BY SeatsAssumption DEF Init, Auction
  <1>8. TypeOK
    BY <1>4, <1>6, <1>7 DEF Init, TypeOK, Phases
  <1>9. PhaseInv
    BY <1>1 DEF Init, PhaseInv
  <1> QED
    BY <1>8, <1>9 DEF GameInv

LEMMA InitConserves ==
  ASSUME Init PROVE PrizesConserved
  <1>1. PICK pile \in PrizeShuffles :
          board = [slots              |-> [i \in Slots |-> IF i \in 1 .. 3 THEN {pile[i]} ELSE {}],
                   prizeDeck          |-> SubSeq(pile, 4, Len(pile)),
                   revealedPrize      |-> None,
                   discardPile        |-> {},
                   unlockedUpperSlots |-> {}]
    BY DEF Init
  <1>2. /\ pile \in Seq(Prizes) /\ Len(pile) \in Nat /\ Len(pile) > 3
        /\ \A x \in Prizes : \E i \in 1 .. Len(pile) : pile[i] = x
        /\ \A i, j \in 1 .. Len(pile) : pile[i] = pile[j] => i = j
    BY PrizesAssumption DEF IsShuffleOf
  <1>3. /\ Len(board.prizeDeck) = Len(pile) - 3
        /\ \A i \in 1 .. Len(pile) - 3 : board.prizeDeck[i] = pile[i + 3]
    BY <1>1, <1>2
  <1>4. /\ \A k \in 0 .. 5 : board.slots[k] = IF k \in 1 .. 3 THEN {pile[k]} ELSE {}
        /\ board.discardPile = {} /\ board.revealedPrize = None
    BY <1>1
  <1>5. ASSUME NEW p \in Prizes PROVE PlacesOf(p) # {} /\ AtMostOne(PlacesOf(p))
    <2> DEFINE P == PlacesOn(board, p)
    <2>1. WonIn(wonPrizes, p) = {}
      BY DEF Init, WonIn
    <2>2. PlacesOf(p) = P
      BY <2>1 DEF PlacesOf, WonIn
    <2> PICK j \in 1 .. Len(pile) : pile[j] = p
      BY <1>2
    <2> DEFINE place == IF j <= 3 THEN j ELSE 2 - j
    <2>3. place \in P
      <3>1. CASE j \in 1 .. 3
        BY <3>1, <1>4, PlaceOnBoard
      <3>2. CASE j > 3
        <4> DEFINE i == j - 3
        <4>1. i \in 1 .. Len(pile) - 3 /\ i + 3 = j
          BY <3>2, <1>2
        <4>2. i \in 1 .. Len(board.prizeDeck) /\ board.prizeDeck[i] = p
          <5> HIDE DEF i
          <5> QED
            BY <4>1, <1>3
        <4>3. place = -1 - i
          BY <3>2, <1>2
        <4> HIDE DEF i, place
        <4> QED
          BY <4>2, <4>3, PlaceOnBoard
      <3> QED
        BY <3>1, <3>2, <1>2
    <2>4. ASSUME NEW k \in P PROVE k = place
      <3>1. CASE \E i \in 1 .. Len(board.prizeDeck) : k = -1 - i /\ board.prizeDeck[i] = p
        <4> PICK i \in 1 .. Len(board.prizeDeck) : k = -1 - i /\ board.prizeDeck[i] = p
          BY <3>1
        <4>1. i \in 1 .. Len(pile) - 3 /\ pile[i + 3] = p
          BY <1>3
        <4>2. i + 3 \in 1 .. Len(pile)
          BY <1>2, <4>1
        <4>3. j = i + 3
          BY <1>2, <4>1, <4>2
        <4> QED
          BY <4>1, <4>3
      <3>2. CASE k \in 0 .. 5 /\ p \in board.slots[k]
        <4>1. k \in 1 .. 3 /\ p = pile[k]
          BY <3>2, <1>4
        <4>2. k \in 1 .. Len(pile)
          <5>1. Len(pile) \in Nat /\ Len(pile) > 3
            BY <1>2
          <5>2. k \in 1 .. 3
            BY <4>1
          <5> QED
            BY <5>1, <5>2
        <4>3. j = k
          BY <1>2, <4>1, <4>2
        <4> QED
          BY <4>1, <4>3
      <3>3. \/ \E i \in 1 .. Len(board.prizeDeck) : k = -1 - i /\ board.prizeDeck[i] = p
            \/ k \in 0 .. 5 /\ p \in board.slots[k]
        BY <1>4, PrizesAssumption, PlaceOnBoard
      <3> QED
        BY <3>1, <3>2, <3>3
    <2> QED
      BY <2>2, <2>3, <2>4 DEF AtMostOne
  <1> QED
    BY <1>5 DEF PrizesConserved, AtMostOne

(* Every move keeps the invariant and moves the prizes on.                 *)
LEMMA MoveKeeps ==
  ASSUME GameInv, PrizesConserved, NEW seat \in Seats, Move(seat)
  PROVE  GameInv' /\ \A p \in Prizes : PrizeMovesOn(p)
  <1>1. ASSUME GameInv', BoardMovesOn PROVE \A p \in Prizes : PrizeMovesOn(p)
    BY <1>1, BoardMoveKeepsPrizes
  <1>2. ASSUME NEW cards \in SUBSET hand[seat], PlaceBid(seat, cards)
        PROVE  GameInv' /\ BoardMovesOn
    <2> DEFINE a == [auction EXCEPT !.highestBid = [seat |-> seat, cards |-> cards]]
    <2>1. cards \in SUBSET Card
      BY DEF GameInv, TypeOK
    <2>2. a \in Auction /\ a.openerSeat = auction.openerSeat
      BY <2>1 DEF GameInv, TypeOK, Auction, Bid
    <2>3. phase = "auction-active" /\ AdvanceAuction(a) /\ UNCHANGED <<rulesetVersion, price>>
      BY <1>2 DEF PlaceBid, IsSeatsTurn
    <2> HIDE DEF a
    <2> QED
      BY <2>2, <2>3, AdvanceAuctionKeeps
  <1>3. ASSUME Pass(seat) PROVE GameInv' /\ BoardMovesOn
    <2> DEFINE a == [auction EXCEPT !.passedSeats = Append(@, seat)]
    <2>1. a \in Auction /\ a.openerSeat = auction.openerSeat
      <3>1. auction \in Auction
        BY DEF GameInv, TypeOK
      <3>2. Append(auction.passedSeats, seat) \in Seq(Seats)
        BY <3>1 DEF Auction
      <3> QED
        BY <3>1, <3>2 DEF Auction
    <2>2. phase = "auction-active" /\ AdvanceAuction(a) /\ UNCHANGED <<rulesetVersion, price>>
      BY <1>3 DEF Pass, IsSeatsTurn
    <2> HIDE DEF a
    <2> QED
      BY <2>1, <2>2, AdvanceAuctionKeeps
  <1>4. ASSUME NEW prize \in Prizes, TakePrize(seat, prize)
        PROVE  GameInv' /\ \A p \in Prizes : PrizeMovesOn(p)
    BY <1>4, TakePrizeKeeps, TakenPrizeMovesOn
  <1>5. ASSUME NEW reward \in Rewards, ChooseAuctionReward(seat, reward)
        PROVE  GameInv' /\ BoardMovesOn
    BY <1>5, ChooseAuctionRewardKeeps
  <1>6. ASSUME NEW i \in Slots, PlaceNewPrize(seat, i)
        PROVE  GameInv' /\ BoardMovesOn
    BY <1>6, PlaceNewPrizeKeeps
  <1> QED
    BY <1>1, <1>2, <1>3, <1>4, <1>5, <1>6 DEF Move

LEMMA StutterKeeps ==
  ASSUME GameInv, PrizesConserved, UNCHANGED vars
  PROVE  GameInv' /\ PrizesConserved'
  <1>1. GameInv'
    BY DEF GameInv, TypeOK, PhaseInv, vars
  <1>2. \A p \in Prizes : PlacesOf(p)' = PlacesOf(p)
    BY DEF PlacesOf, vars
  <1> QED
    BY <1>1, <1>2 DEF PrizesConserved

(* At every step the types are kept, every prize is in one place, and it   *)
(* has not gone back.                                                      *)
LEMMA NextKeeps ==
  ASSUME GameInv, PrizesConserved, [Next]_vars
  PROVE  /\ GameInv' /\ PrizesConserved'
         /\ (\A p \in Prizes : PrizeMovesOn(p)) \/ UNCHANGED vars
  <1>1. ASSUME NEW seat \in Seats, Move(seat)
        PROVE  GameInv' /\ \A p \in Prizes : PrizeMovesOn(p)
    BY <1>1, MoveKeeps
  <1>2. ASSUME \A p \in Prizes : PrizeMovesOn(p) PROVE PrizesConserved'
    BY <1>2 DEF PrizesConserved, PrizeMovesOn, AtMostOne
  <1> QED
    BY <1>1, <1>2, StutterKeeps DEF Next, Over

(* Whatever the moves, every variable of the game has its type: the turn   *)
(* is always somebody's, slots hold prizes and hands hold cards.           *)
THEOREM GameTypeCorrect == Spec => []TypeOK
  <1>1. Init => GameInv /\ PrizesConserved
    BY InitTyped, InitConserves
  <1>2. GameInv /\ PrizesConserved /\ [Next]_vars => GameInv' /\ PrizesConserved'
    BY NextKeeps
  <1>3. GameInv => TypeOK
    BY DEF GameInv
  <1> QED
    BY <1>1, <1>2, <1>3, PTL DEF Spec

(* No move of either ruleset loses or doubles a prize (shiftDisplay and    *)
(* everything built on it).                                                *)
THEOREM EveryPrizeIsInOnePlace == Spec => []PrizesConserved
  <1>1. Init => GameInv /\ PrizesConserved
    BY InitTyped, InitConserves
  <1>2. GameInv /\ PrizesConserved /\ [Next]_vars => GameInv' /\ PrizesConserved'
    BY NextKeeps
  <1> QED
    BY <1>1, <1>2, PTL DEF Spec

(* No move of either ruleset brings a prize back, and unsold prizes go on  *)
(* with every prize, reward and unwon auction.                             *)
THEOREM PrizesOnlyMoveOn == Spec => PrizesMoveOn
  <1>1. Init => GameInv /\ PrizesConserved
    BY InitTyped, InitConserves
  <1>2. GameInv /\ PrizesConserved /\ [Next]_vars => GameInv' /\ PrizesConserved'
    BY NextKeeps
  <1>3. GameInv /\ PrizesConserved /\ [Next]_vars =>
          [\A p \in Prizes : \A k \in PlacesOf(p), l \in PlacesOf(p)' :
             /\ k <= l
             /\ k >= Discarded => k = l
             /\ k \in Slots /\ DisplayShifts => k < l]_vars
    BY NextKeeps DEF PrizeMovesOn
  <1> QED
    BY <1>1, <1>2, <1>3, PTL DEF Spec, PrizesMoveOn
-----------------------------------------------------------------------------
(* Whose turn it is                                                        *)

(* From the highest bidder on, the turn has passed over nobody who is      *)
(* still in.                                                               *)
TurnInv ==
  phase = "auction-active" =>
    /\ auction.activeSeat \in NonPassed(auction)
    /\ auction.highestBid # None =>
         LET bidder == auction.highestBid.seat IN
         /\ bidder \in NonPassed(auction) /\ bidder # auction.activeSeat
         /\ \A t \in NonPassed(auction) \ {bidder} :
              Distance(bidder, auction.activeSeat) <= Distance(bidder, t)

LEMMA FreshAuction ==
  ASSUME NEW s \in Seats, auction' = StartAuction(s)
  PROVE  TurnInv'
  BY DEF TurnInv, StartAuction, NonPassed, Elements

(* A bid or a pass: a is the auction with it, before the turn goes on.     *)
LEMMA AdvanceAuctionTurn ==
  ASSUME GameInv, phase = "auction-active", NEW a \in Auction,
         a.highestBid # None =>
           LET bidder == a.highestBid.seat IN
           /\ bidder \in NonPassed(a)
           /\ \A t \in NonPassed(a) \ {bidder} :
                bidder # a.activeSeat => Distance(bidder, a.activeSeat) < Distance(bidder, t),
         AdvanceAuction(a)
  PROVE  TurnInv'
  <1>1. CASE ResolveAuctionNoWinner(a)
    <2>1. NextSeat(a.openerSeat) \in Seats
      BY SeatsAssumption DEF NextSeat, Auction
    <2>2. phase' = "ended" \/ auction' = StartAuction(NextSeat(a.openerSeat))
      BY <1>1 DEF ResolveAuctionNoWinner
    <2>3. CASE phase' = "ended"
      BY <2>3 DEF TurnInv
    <2> QED
      BY <2>1, <2>2, <2>3, FreshAuction
  <1>2. CASE ResolveAuctionWin(a)
    BY <1>2 DEF ResolveAuctionWin, TurnInv
  <1>3. CASE /\ NonPassed(a) # {} /\ ~ OnlyTheHighestBidderIsLeft(a)
             /\ auction' = [a EXCEPT !.activeSeat = NextActive(a)]
    <2> DEFINE next == NextActive(a)
    <2>1. /\ next \in NonPassed(a)
          /\ \A t \in NonPassed(a) : Distance(a.activeSeat, next) <= Distance(a.activeSeat, t)
      BY <1>3, NextActiveHasNotPassed
    <2> HIDE DEF next
    <2>2. /\ auction'.activeSeat = next /\ auction'.highestBid = a.highestBid
          /\ NonPassed(auction') = NonPassed(a)
      BY <1>3 DEF Auction, NonPassed, next
    <2>3. CASE a.highestBid = None
      BY <2>1, <2>2, <2>3 DEF TurnInv
    <2>4. CASE a.highestBid # None
      <3> DEFINE bidder == a.highestBid.seat
                 left == NonPassed(a)
                 active == a.activeSeat
      <3>1. /\ left \subseteq Seats /\ active \in Seats /\ bidder \in left /\ next \in left
            /\ \A t \in left \ {bidder} :
                 bidder # active => Distance(bidder, active) < Distance(bidder, t)
            /\ \A t \in left : Distance(active, next) <= Distance(active, t)
        BY <2>1, <2>4 DEF NonPassed, Auction
      <3>2. PICK other \in left : other # bidder
        BY <1>3, <2>4 DEF OnlyTheHighestBidderIsLeft
      <3> HIDE DEF bidder, left, active
      <3>3. next # bidder
        <4>1. CASE bidder = active
          BY <3>1, <3>2, <4>1, SeatsAssumption DEF Distance
        <4>2. CASE bidder # active
          <5>1. Distance(active, next) <= Distance(active, other)
                /\ Distance(bidder, active) < Distance(bidder, other)
            BY <3>1, <3>2, <4>2
          <5> QED
            BY <3>1, <3>2, <4>2, <5>1, SeatsAssumption DEF Distance
        <4> QED
          BY <4>1, <4>2
      <3>4. ASSUME NEW t \in left, t # bidder
            PROVE  Distance(bidder, next) <= Distance(bidder, t)
        <4>1. CASE bidder = active
          BY <3>1, <3>4, <4>1
        <4>2. CASE bidder # active
          <5>1. /\ Distance(active, next) <= Distance(active, t)
                /\ Distance(bidder, active) < Distance(bidder, t)
                /\ Distance(bidder, active) < Distance(bidder, next)
            BY <3>1, <3>3, <3>4, <4>2
          <5> QED
            BY <3>1, <3>3, <3>4, <4>2, <5>1, SeatsAssumption DEF Distance
        <4> QED
          BY <4>1, <4>2
      <3>5. /\ auction'.highestBid.seat = bidder /\ NonPassed(auction)' = left
            /\ auction'.activeSeat = next
        BY <2>2 DEF bidder, left, NonPassed
      <3> QED
        BY <3>1, <3>3, <3>4, <3>5 DEF TurnInv
    <2> QED
      BY <2>3, <2>4
  <1> QED
    BY <1>1, <1>2, <1>3 DEF AdvanceAuction

LEMMA ConcludedTurn ==
  ASSUME auction.winnerSeat \in Seats, NEW b, NEW n, ConcludeAuction(b, n)
  PROVE  TurnInv'
  <1>1. phase' = "ended" \/ auction' = StartAuction(auction.winnerSeat)
    BY DEF ConcludeAuction
  <1>2. CASE phase' = "ended"
    BY <1>2 DEF TurnInv
  <1> QED
    BY <1>1, <1>2, FreshAuction

LEMMA ChosenTurn ==
  ASSUME auction.winnerSeat \in Seats, NEW b, NEW n, AfterPrizeChoice(b, n)
  PROVE  TurnInv'
  <1>1. phase' \in {"ended", "awaiting-new-prize-placement"} \/ ConcludeAuction(b, n)
    BY DEF AfterPrizeChoice
  <1>2. CASE phase' \in {"ended", "awaiting-new-prize-placement"}
    BY <1>2 DEF TurnInv
  <1> QED
    BY <1>1, <1>2, ConcludedTurn

LEMMA TurnKept ==
  ASSUME GameInv, TurnInv, [Next]_vars
  PROVE  TurnInv'
  <1>t. auction \in Auction
    BY DEF GameInv, TypeOK
  <1>1. ASSUME NEW seat \in Seats, NEW cards \in SUBSET hand[seat], PlaceBid(seat, cards)
        PROVE  TurnInv'
    <2> DEFINE a == [auction EXCEPT !.highestBid = [seat |-> seat, cards |-> cards]]
    <2>1. /\ phase = "auction-active" /\ auction.activeSeat = seat /\ AdvanceAuction(a)
          /\ seat \in NonPassed(auction)
      BY <1>1 DEF PlaceBid, IsSeatsTurn, TurnInv
    <2>2. a \in Auction
      <3>1. cards \in SUBSET Card
        BY DEF GameInv, TypeOK
      <3> QED
        BY <1>t, <3>1 DEF Auction, Bid
    <2>3. a.highestBid.seat = seat /\ a.activeSeat = seat /\ NonPassed(a) = NonPassed(auction)
      BY <1>t, <2>1 DEF Auction, NonPassed
    <2> HIDE DEF a
    <2> QED
      BY <2>1, <2>2, <2>3, AdvanceAuctionTurn
  <1>2. ASSUME NEW seat \in Seats, Pass(seat)
        PROVE  TurnInv'
    <2> DEFINE a == [auction EXCEPT !.passedSeats = Append(@, seat)]
    <2>1. phase = "auction-active" /\ auction.activeSeat = seat /\ AdvanceAuction(a)
      BY <1>2 DEF Pass, IsSeatsTurn
    <2>2. auction.passedSeats \in Seq(Seats)
      BY <1>t DEF Auction
    <2>3. Elements(Append(auction.passedSeats, seat)) = Elements(auction.passedSeats) \cup {seat}
      BY <2>2 DEF Elements
    <2>4. /\ a \in Auction /\ a.highestBid = auction.highestBid /\ a.activeSeat = seat
          /\ NonPassed(a) = NonPassed(auction) \ {seat}
      <3>1. Append(auction.passedSeats, seat) \in Seq(Seats)
        BY <2>2
      <3>2. a \in Auction /\ a.passedSeats = Append(auction.passedSeats, seat)
            /\ a.highestBid = auction.highestBid /\ a.activeSeat = seat
        BY <1>t, <2>1, <3>1 DEF Auction
      <3> HIDE DEF a
      <3> QED
        BY <2>3, <3>2 DEF NonPassed
    <2> HIDE DEF a
    <2>5. ASSUME a.highestBid # None
          PROVE  LET bidder == a.highestBid.seat IN
                 /\ bidder \in NonPassed(a)
                 /\ \A t \in NonPassed(a) \ {bidder} :
                      Distance(bidder, seat) < Distance(bidder, t)
      <3> DEFINE bidder == auction.highestBid.seat
      <3>1. /\ bidder \in NonPassed(auction) /\ bidder # seat
            /\ \A t \in NonPassed(auction) \ {bidder} :
                 Distance(bidder, seat) <= Distance(bidder, t)
        BY <2>1, <2>4, <2>5 DEF TurnInv
      <3>2. NonPassed(auction) \subseteq Seats
        BY DEF NonPassed
      <3> HIDE DEF bidder
      <3>3. \A t \in NonPassed(auction) \ {bidder, seat} :
              Distance(bidder, seat) < Distance(bidder, t)
        <4> SUFFICES ASSUME NEW t \in Seats, t # bidder, t # seat,
                            Distance(bidder, seat) <= Distance(bidder, t)
                     PROVE  Distance(bidder, seat) < Distance(bidder, t)
          BY <3>1, <3>2
        <4> QED
          BY <3>1, <3>2, SeatsAssumption DEF Distance
      <3> QED
        BY <2>4, <3>1, <3>3 DEF bidder
    <2> QED
      BY <2>1, <2>4, <2>5, AdvanceAuctionTurn
  <1>3. ASSUME NEW seat \in Seats, NEW prize \in Prizes, TakePrize(seat, prize)
        PROVE  TurnInv'
    BY <1>3, ChosenTurn DEF TakePrize
  <1>4. ASSUME NEW seat \in Seats, NEW reward \in Rewards, ChooseAuctionReward(seat, reward)
        PROVE  TurnInv'
    BY <1>4, ChosenTurn DEF ChooseAuctionReward
  <1>5. ASSUME NEW seat \in Seats, NEW i \in Slots, PlaceNewPrize(seat, i)
        PROVE  TurnInv'
    BY <1>5, ConcludedTurn DEF PlaceNewPrize
  <1>6. CASE UNCHANGED vars
    BY <1>6 DEF TurnInv, NonPassed, vars
  <1> QED
    BY <1>1, <1>2, <1>3, <1>4, <1>5, <1>6 DEF Next, Move, Over

LEMMA InitTurn ==
  ASSUME Init PROVE TurnInv
  <1>1. auction.activeSeat = 1 /\ auction.highestBid = None /\ auction.passedSeats = <<>>
    BY DEF Init
  <1> QED
    BY <1>1, SeatsAssumption DEF TurnInv, NonPassed, Elements

(* The turn never comes to the highest bidder: from the bidder on it has   *)
(* passed over nobody who is still in, so somebody else is left to move.   *)
THEOREM HighBidderAlwaysWaits == Spec => []HighBidderWaits
  <1>1. Init => GameInv /\ PrizesConserved /\ TurnInv
    BY InitTyped, InitConserves, InitTurn
  <1>2. GameInv /\ PrizesConserved /\ TurnInv /\ [Next]_vars => GameInv' /\ PrizesConserved' /\ TurnInv'
    BY NextKeeps, TurnKept
  <1>3. TurnInv => HighBidderWaits
    BY DEF TurnInv, HighBidderWaits
  <1> QED
    BY <1>1, <1>2, <1>3, PTL DEF Spec
-----------------------------------------------------------------------------
(* The end of the game                                                     *)

(* The game is over when the display and the pile are empty and no prize   *)
(* waits to be placed.                                                     *)
OverInv == (phase = "ended") <=> (IsGameOver(board) /\ board.revealedPrize = None)

LEMMA OverKept ==
  ASSUME GameInv, GameInv', OverInv, [Next]_vars
  PROVE  OverInv'
  <1>p. board'.revealedPrize # None <=> phase' = "awaiting-new-prize-placement"
    BY DEF GameInv, PhaseInv
  <1>1. ASSUME NEW b, NEW n, ConcludeAuction(b, n)
        PROVE  OverInv'
    <2>1. /\ board' = b
          /\ IF IsGameOver(b) THEN phase' = "ended" ELSE phase' = "auction-active"
      BY <1>1 DEF ConcludeAuction
    <2> QED
      BY <1>p, <2>1 DEF OverInv, IsGameOver
  <1>2. ASSUME NEW b, NEW n, AfterPrizeChoice(b, n)
        PROVE  OverInv'
    <2>1. \/ board' = b /\ IsGameOver(b) /\ phase' = "ended"
          \/ phase' = "awaiting-new-prize-placement"
          \/ ConcludeAuction(b, n)
      BY <1>2 DEF AfterPrizeChoice
    <2> QED
      BY <1>1, <1>p, <2>1 DEF OverInv, IsGameOver
  <1>3. ASSUME NEW a, phase = "auction-active", AdvanceAuction(a)
        PROVE  OverInv'
    <2>1. CASE ResolveAuctionNoWinner(a)
      <3>1. IF IsGameOver(board') THEN phase' = "ended" ELSE phase' = "auction-active"
        BY <2>1 DEF ResolveAuctionNoWinner, IsGameOver
      <3> QED
        BY <1>p, <3>1 DEF OverInv, IsGameOver
    <2>2. CASE UNCHANGED board /\ phase' \in {"auction-active", "awaiting-prize-choice"}
      BY <1>3, <2>2 DEF OverInv, IsGameOver
    <2> QED
      BY <1>3, <2>1, <2>2 DEF AdvanceAuction, ResolveAuctionWin
  <1>4. CASE UNCHANGED vars
    BY <1>4 DEF OverInv, IsGameOver, vars
  <1>5. ASSUME NEW seat \in Seats, NEW cards, PlaceBid(seat, cards)
        PROVE  OverInv'
    BY <1>3, <1>5 DEF PlaceBid, IsSeatsTurn
  <1>6. ASSUME NEW seat \in Seats, Pass(seat)
        PROVE  OverInv'
    BY <1>3, <1>6 DEF Pass, IsSeatsTurn
  <1>7. ASSUME NEW seat \in Seats, NEW prize, TakePrize(seat, prize)
        PROVE  OverInv'
    BY <1>2, <1>7 DEF TakePrize
  <1>8. ASSUME NEW seat \in Seats, NEW reward, ChooseAuctionReward(seat, reward)
        PROVE  OverInv'
    BY <1>2, <1>8 DEF ChooseAuctionReward
  <1>9. ASSUME NEW seat \in Seats, NEW i, PlaceNewPrize(seat, i)
        PROVE  OverInv'
    BY <1>1, <1>9 DEF PlaceNewPrize
  <1> QED
    BY <1>4, <1>5, <1>6, <1>7, <1>8, <1>9 DEF Next, Move, Over

(* As every prize is in one place, the board is bare exactly when all are  *)
(* gone.                                                                   *)
LEMMA BareWhenGone ==
  ASSUME GameInv, PrizesConserved
  PROVE  (IsGameOver(board) /\ board.revealedPrize = None) <=> (Gone = Prizes)
  <1>t. /\ board.slots \in [0 .. 5 -> SUBSET Prizes] /\ board.prizeDeck \in Seq(Prizes)
        /\ board.revealedPrize \in Prizes \cup {None} /\ board.discardPile \in SUBSET Prizes
        /\ wonPrizes \in [Seats -> SUBSET Prizes]
    BY DEF GameInv, TypeOK, Board
  <1>1. \A p : p \in Gone <=> p \in board.discardPile \/ \E s \in Seats : p \in wonPrizes[s]
    BY DEF Gone
  <1>2. Gone \subseteq Prizes
    BY <1>t, <1>1
  <1>3. \A p, k : k \in PlacesOf(p) <=>
          k \in PlacesOn(board, p) \/ \E s \in 1 .. NumSeats : k = 6 + s /\ p \in wonPrizes[s]
    BY WonPlaces DEF PlacesOf, WonIn
  <1>4. ASSUME IsGameOver(board), board.revealedPrize = None, NEW p \in Prizes
        PROVE  p \in Gone
    <2>1. PICK k : k \in PlacesOf(p)
      BY DEF PrizesConserved
    <2>2. Len(board.prizeDeck) = 0 /\ (\A i \in 0 .. 5 : board.slots[i] = {}) /\ p # None
      BY <1>4, PrizesAssumption DEF IsGameOver
    <2> QED
      BY <1>1, <1>3, <1>4, <2>1, <2>2, PlaceOnBoard
  <1>5. ASSUME NEW p \in Gone, NEW k \in PlacesOn(board, p)
        PROVE  k = 6
    <2>1. \/ 6 \in PlacesOf(p)
          \/ \E s \in 1 .. NumSeats : 6 + s \in PlacesOf(p)
      BY <1>1, <1>3, <1>5, PlaceOnBoard
    <2>2. k \in PlacesOf(p) /\ \A x, y \in PlacesOf(p) : x = y
      BY <1>2, <1>3 DEF PrizesConserved
    <2>3. k \in Int /\ k <= 6
      BY <1>5, PlacesAreNumbers DEF GameInv, TypeOK, Discarded
    <2>4. \A s \in 1 .. NumSeats : 6 + s > 6
      BY SeatsAssumption
    <2> QED
      BY <2>1, <2>2, <2>3, <2>4
  <1>6. ASSUME Gone = Prizes
        PROVE  IsGameOver(board) /\ board.revealedPrize = None
    <2>1. board.revealedPrize = None
      <3> SUFFICES ASSUME board.revealedPrize \in Prizes PROVE FALSE
        BY <1>t
      <3>1. -1 \in PlacesOn(board, board.revealedPrize)
        BY PlaceOnBoard
      <3> QED
        BY <1>5, <1>6, <3>1
    <2>2. board.prizeDeck = <<>>
      <3> SUFFICES ASSUME board.prizeDeck # <<>> PROVE FALSE
        OBVIOUS
      <3>1. 1 \in 1 .. Len(board.prizeDeck) /\ board.prizeDeck[1] \in Prizes
        BY <1>t
      <3>2. -2 \in PlacesOn(board, board.prizeDeck[1])
        BY <3>1, PlaceOnBoard
      <3> QED
        BY <1>5, <1>6, <3>1, <3>2
    <2>3. ASSUME NEW i \in 0 .. 5, NEW p \in board.slots[i]
          PROVE  FALSE
      <3>1. p \in Prizes /\ i \in PlacesOn(board, p)
        BY <1>t, <2>3, PlaceOnBoard
      <3> QED
        BY <1>5, <1>6, <3>1
    <2> QED
      BY <2>1, <2>2, <2>3 DEF IsGameOver
  <1> QED
    BY <1>2, <1>4, <1>6

(* The game ends when every prize is won or discarded, and only then.      *)
THEOREM EndsExactlyWhenSoldOut == Spec => []EndsWhenSoldOut
  <1>1. Init => GameInv /\ PrizesConserved /\ OverInv
    <2>1. ASSUME Init PROVE OverInv
      <3>1. GameInv /\ PrizesConserved /\ phase = "auction-active"
        BY <2>1, InitTyped, InitConserves DEF Init
      <3>2. \E p : p \in board.slots[1]
        BY <2>1 DEF Init
      <3> QED
        BY <3>1, <3>2 DEF OverInv, IsGameOver
    <2> QED
      BY <2>1, InitTyped, InitConserves
  <1>2. GameInv /\ PrizesConserved /\ OverInv /\ [Next]_vars => GameInv' /\ PrizesConserved' /\ OverInv'
    BY NextKeeps, OverKept
  <1>3. GameInv /\ PrizesConserved /\ OverInv => EndsWhenSoldOut
    BY BareWhenGone DEF OverInv, EndsWhenSoldOut
  <1> QED
    BY <1>1, <1>2, <1>3, PTL DEF Spec
-----------------------------------------------------------------------------
(* What is paid                                                            *)

(* A card is in one place.                                                 *)
CardsApart ==
  \A s \in Seats :
    /\ hand[s] \cap Elements(deck[s]) = {}
    /\ \A i, j \in 1 .. Len(deck[s]) : deck[s][i] = deck[s][j] => i = j

(* The cards of the highest bid are still in hand while others may outbid  *)
(* it, and gone once it has won.                                           *)
BidInv ==
  LET bid == auction.highestBid IN
  /\ phase = "auction-active" /\ bid # None => bid.cards \subseteq hand[bid.seat]
  /\ phase = "awaiting-prize-choice" =>
       /\ bid # None /\ bid.seat = auction.winnerSeat
       /\ bid.cards \cap (hand[bid.seat] \cup Elements(deck[bid.seat])) = {}

PaidInv == CardsApart /\ BidInv

(* Drawing moves cards from the top of a pile to a hand.                   *)
LEMMA DrawnApart ==
  ASSUME NEW S, NEW pile \in Seq(S), NEW n \in Nat, NEW H,
         H \cap Elements(pile) = {},
         \A i, j \in 1 .. Len(pile) : pile[i] = pile[j] => i = j
  PROVE  /\ (H \cup TopOf(pile, n)) \cap Elements(Rest(pile, n)) = {}
         /\ \A i, j \in 1 .. Len(Rest(pile, n)) : Rest(pile, n)[i] = Rest(pile, n)[j] => i = j
  <1> DEFINE rest == Rest(pile, n)
             top == TopOf(pile, n)
  <1>1. /\ Len(rest) \in 0 .. Len(pile)
        /\ \A i \in 1 .. Len(rest) : rest[i] = pile[i]
        /\ \A x : x \in top <=> \E i \in 1 .. Len(pile) : i > Len(rest) /\ pile[i] = x
    BY RestOfPile
  <1>2. Len(pile) \in Nat
    OBVIOUS
  <1> HIDE DEF rest, top
  <1>3. \A i \in 1 .. Len(rest) : i \in 1 .. Len(pile)
    BY <1>1, <1>2
  <1>4. ASSUME NEW x \in H \cup top, NEW i \in 1 .. Len(rest), rest[i] = x
        PROVE  FALSE
    <2>1. CASE x \in H
      BY <1>1, <1>3, <1>4, <2>1 DEF Elements
    <2>2. CASE x \in top
      <3> PICK j \in 1 .. Len(pile) : j > Len(rest) /\ pile[j] = x
        BY <1>1, <2>2
      <3>1. i = j
        BY <1>1, <1>3, <1>4
      <3> QED
        BY <1>1, <1>2, <3>1
    <2> QED
      BY <1>4, <2>1, <2>2
  <1>5. \A i, j \in 1 .. Len(rest) : rest[i] = rest[j] => i = j
    BY <1>1, <1>3
  <1> QED
    BY <1>4, <1>5 DEF Elements, rest, top

LEMMA DrawCardsApart ==
  ASSUME GameInv, CardsApart, NEW n \in [Seats -> Nat], DrawCards(n)
  PROVE  CardsApart'
  <1>1. ASSUME NEW s \in Seats
        PROVE  /\ hand'[s] \cap Elements(deck'[s]) = {}
               /\ \A i, j \in 1 .. Len(deck'[s]) : deck'[s][i] = deck'[s][j] => i = j
    <2>1. deck[s] \in Seq(Card) /\ n[s] \in Nat
      BY DEF GameInv, TypeOK
    <2>2. /\ hand[s] \cap Elements(deck[s]) = {}
          /\ \A i, j \in 1 .. Len(deck[s]) : deck[s][i] = deck[s][j] => i = j
      BY DEF CardsApart
    <2>3. hand'[s] = hand[s] \cup TopOf(deck[s], n[s]) /\ deck'[s] = Rest(deck[s], n[s])
      BY DEF DrawCards
    <2> QED
      BY <2>1, <2>2, <2>3, DrawnApart
  <1> QED
    BY <1>1 DEF CardsApart, Elements

LEMMA ConcludedPaid ==
  ASSUME GameInv, PaidInv, NEW b, NEW n \in [Seats -> Nat], ConcludeAuction(b, n)
  PROVE  PaidInv'
  <1>1. [s \in Seats |-> n[s] + PostAuctionDraw(s)] \in [Seats -> Nat]
    BY PostAuctionDrawTyped
  <1>2. CardsApart'
    BY <1>1, DrawCardsApart DEF ConcludeAuction, PaidInv
  <1>3. phase' = "ended" \/ (phase' = "auction-active" /\ auction'.highestBid = None)
    BY DEF ConcludeAuction, StartAuction
  <1> QED
    BY <1>2, <1>3 DEF PaidInv, BidInv

LEMMA ChosenPaid ==
  ASSUME GameInv, PaidInv, NEW b, NEW n \in [Seats -> Nat], AfterPrizeChoice(b, n)
  PROVE  PaidInv'
  <1>1. CASE DrawCards(n) /\ phase' \in {"ended", "awaiting-new-prize-placement"}
    <2>1. CardsApart'
      BY <1>1, DrawCardsApart DEF PaidInv
    <2> QED
      BY <1>1, <2>1 DEF PaidInv, BidInv
  <1>2. CASE ConcludeAuction(b, n)
    BY <1>2, ConcludedPaid
  <1> QED
    BY <1>1, <1>2 DEF AfterPrizeChoice

(* A bid or a pass, after which a is the auction.                          *)
LEMMA AdvanceAuctionPaid ==
  ASSUME GameInv, PaidInv, phase = "auction-active", NEW a \in Auction,
         a.highestBid # None => a.highestBid.cards \subseteq hand[a.highestBid.seat],
         AdvanceAuction(a)
  PROVE  PaidInv'
  <1>1. CASE ResolveAuctionNoWinner(a)
    <2>1. UNCHANGED <<deck, hand>>
          /\ (phase' = "ended" \/ (phase' = "auction-active" /\ auction'.highestBid = None))
      BY <1>1 DEF ResolveAuctionNoWinner, StartAuction
    <2> QED
      BY <2>1 DEF PaidInv, BidInv, CardsApart, Elements
  <1>2. CASE OnlyTheHighestBidderIsLeft(a) /\ ResolveAuctionWin(a)
    <2> DEFINE bid == a.highestBid
    <2>1. bid # None /\ bid \in Bid /\ bid.seat \in Seats /\ bid.cards \subseteq hand[bid.seat]
      BY <1>2 DEF OnlyTheHighestBidderIsLeft, Auction, Bid
    <2>2. /\ auction'.highestBid = bid /\ auction'.winnerSeat = bid.seat
          /\ hand' = [hand EXCEPT ![bid.seat] = @ \ bid.cards]
          /\ deck' = deck /\ phase' = "awaiting-prize-choice"
      BY <1>2 DEF ResolveAuctionWin, PayBid, Auction
    <2>3. hand \in [Seats -> SUBSET Card]
      BY DEF GameInv, TypeOK
    <2> HIDE DEF bid
    <2>4. \A s \in Seats : hand'[s] \subseteq hand[s]
      BY <2>2, <2>3
    <2>5. hand'[bid.seat] = hand[bid.seat] \ bid.cards
      BY <2>1, <2>2, <2>3
    <2>6. CardsApart'
      BY <2>2, <2>4 DEF PaidInv, CardsApart, Elements
    <2>7. hand[bid.seat] \cap Elements(deck[bid.seat]) = {}
      BY <2>1 DEF PaidInv, CardsApart
    <2>8. bid.cards \cap (hand'[bid.seat] \cup Elements(deck'[bid.seat])) = {}
      BY <2>1, <2>2, <2>5, <2>7
    <2>9. BidInv'
      BY <2>1, <2>2, <2>8 DEF BidInv, Elements
    <2> QED
      BY <2>6, <2>9 DEF PaidInv
  <1>3. CASE auction' = [a EXCEPT !.activeSeat = NextActive(a)] /\ UNCHANGED <<deck, hand, phase>>
    <2>1. auction'.highestBid = a.highestBid
      BY <1>3 DEF Auction
    <2> QED
      BY <1>3, <2>1 DEF PaidInv, BidInv, CardsApart, Elements
  <1> QED
    BY <1>1, <1>2, <1>3 DEF AdvanceAuction

LEMMA PaidKept ==
  ASSUME GameInv, PaidInv, [Next]_vars
  PROVE  PaidInv'
  <1>t. auction \in Auction
    BY DEF GameInv, TypeOK
  <1>1. ASSUME NEW seat \in Seats, NEW cards \in SUBSET hand[seat], PlaceBid(seat, cards)
        PROVE  PaidInv'
    <2> DEFINE a == [auction EXCEPT !.highestBid = [seat |-> seat, cards |-> cards]]
    <2>1. cards \in SUBSET Card
      BY DEF GameInv, TypeOK
    <2>2. a \in Auction /\ a.highestBid.cards = cards /\ a.highestBid.seat = seat
      BY <1>t, <2>1 DEF Auction, Bid
    <2>3. phase = "auction-active" /\ AdvanceAuction(a)
      BY <1>1 DEF PlaceBid, IsSeatsTurn
    <2> HIDE DEF a
    <2> QED
      BY <2>2, <2>3, AdvanceAuctionPaid
  <1>2. ASSUME NEW seat \in Seats, Pass(seat)
        PROVE  PaidInv'
    <2> DEFINE a == [auction EXCEPT !.passedSeats = Append(@, seat)]
    <2>1. Append(auction.passedSeats, seat) \in Seq(Seats)
      BY <1>t DEF Auction
    <2>2. a \in Auction /\ a.highestBid = auction.highestBid
      BY <1>t, <2>1 DEF Auction
    <2>3. phase = "auction-active" /\ AdvanceAuction(a)
      BY <1>2 DEF Pass, IsSeatsTurn
    <2>4. a.highestBid # None => a.highestBid.cards \subseteq hand[a.highestBid.seat]
      BY <2>2, <2>3 DEF PaidInv, BidInv
    <2> HIDE DEF a
    <2> QED
      BY <2>2, <2>3, <2>4, AdvanceAuctionPaid
  <1>z. [s \in Seats |-> 0] \in [Seats -> Nat]
    OBVIOUS
  <1>3. ASSUME NEW seat \in Seats, NEW prize \in Prizes, TakePrize(seat, prize)
        PROVE  PaidInv'
    BY <1>3, <1>z, ChosenPaid DEF TakePrize
  <1>4. ASSUME NEW seat \in Seats, NEW reward \in Rewards, ChooseAuctionReward(seat, reward)
        PROVE  PaidInv'
    <2>1. [s \in Seats |-> IF s = seat THEN reward.cards ELSE 0] \in [Seats -> Nat]
      BY RewardDrawsCards
    <2> QED
      BY <1>4, <2>1, ChosenPaid DEF ChooseAuctionReward
  <1>5. ASSUME NEW seat \in Seats, NEW i \in Slots, PlaceNewPrize(seat, i)
        PROVE  PaidInv'
    BY <1>5, <1>z, ConcludedPaid DEF PlaceNewPrize
  <1>6. CASE UNCHANGED vars
    BY <1>6 DEF PaidInv, CardsApart, BidInv, Elements, vars
  <1> QED
    BY <1>1, <1>2, <1>3, <1>4, <1>5, <1>6 DEF Next, Move, Over

LEMMA InitPaid ==
  ASSUME Init PROVE PaidInv
  <1>1. PICK shuffled \in [Seats -> CardShuffles] :
          /\ hand = [s \in Seats |-> TopOf(shuffled[s], HandSize)]
          /\ deck = [s \in Seats |-> Rest(shuffled[s], HandSize)]
    BY DEF Init
  <1>2. ASSUME NEW s \in Seats
        PROVE  /\ hand[s] \cap Elements(deck[s]) = {}
               /\ \A i, j \in 1 .. Len(deck[s]) : deck[s][i] = deck[s][j] => i = j
    <2> PICK cards \in CardShuffles : cards = shuffled[s]
      OBVIOUS
    <2> PICK S : S = {cards[i] : i \in 1 .. Len(cards)}
      OBVIOUS
    <2>0. IsShuffleOf(cards, S) /\ HandSize \in Nat
      BY CardsAssumption
    <2>1. /\ cards \in Seq(S) /\ HandSize \in Nat
          /\ \A i, j \in 1 .. Len(cards) : cards[i] = cards[j] => i = j
      BY <2>0 DEF IsShuffleOf
    <2> PICK H : H = {}
      OBVIOUS
    <2>2. hand[s] = H \cup TopOf(cards, HandSize) /\ deck[s] = Rest(cards, HandSize)
      BY <1>1
    <2>3. H \cap Elements(cards) = {}
      OBVIOUS
    <2>4. /\ (H \cup TopOf(cards, HandSize)) \cap Elements(Rest(cards, HandSize)) = {}
          /\ \A i, j \in 1 .. Len(Rest(cards, HandSize)) :
               Rest(cards, HandSize)[i] = Rest(cards, HandSize)[j] => i = j
      BY ONLY <2>1, <2>3, DrawnApart
    <2> QED
      BY <2>2, <2>4
  <1>3. phase = "auction-active" /\ auction.highestBid = None
    BY DEF Init
  <1> QED
    BY <1>2, <1>3 DEF PaidInv, CardsApart, BidInv

(* Who wins a prize has bid its price and no longer holds the cards.       *)
LEMMA WonIsPaid ==
  ASSUME GameInv, PaidInv, [Next]_vars,
         NEW s \in Seats, NEW p \in wonPrizes'[s] \ wonPrizes[s]
  PROVE  /\ auction.highestBid # None /\ auction.highestBid.seat = s
         /\ auction.highestBid.cards \cap (hand[s] \cup Elements(deck[s])) = {}
         /\ \E i \in Slots : p \in board.slots[i] /\ price[i] <= Amount(auction.highestBid.cards)
  <1>t. wonPrizes \in [Seats -> SUBSET Prizes]
    BY DEF GameInv, TypeOK
  <1>1. \A a : AdvanceAuction(a) => wonPrizes' = wonPrizes
    BY DEF AdvanceAuction, ResolveAuctionNoWinner, ResolveAuctionWin
  <1>2. PICK seat \in Seats, prize \in Prizes : TakePrize(seat, prize)
    BY <1>1 DEF Next, Move, Over, vars, PlaceBid, Pass, ChooseAuctionReward, PlaceNewPrize
  <1>3. /\ phase = "awaiting-prize-choice" /\ auction.winnerSeat = seat
        /\ SlotIndexForBid # None /\ prize \in board.slots[SlotIndexForBid]
        /\ wonPrizes' = [wonPrizes EXCEPT ![seat] = @ \cup {prize}]
    BY <1>2 DEF TakePrize, PrizesToTake
  <1>4. s = seat /\ p = prize
    BY <1>t, <1>3
  <1>5. SlotIndexForBid \in Slots /\ price[SlotIndexForBid] <= Threshold
    BY <1>3, SlotForBidIsASlot
  <1> QED
    BY <1>3, <1>4, <1>5 DEF PaidInv, BidInv, Threshold

(* A prize is won only for a bid that reaches its price, by cards that     *)
(* have left the winner's hand and deck (resolveAuctionWin, takePrize).    *)
THEOREM PrizesAreAlwaysPaidFor == Spec => PrizesArePaidFor
  <1>1. Init => GameInv /\ PrizesConserved /\ PaidInv
    BY InitTyped, InitConserves, InitPaid
  <1>2. GameInv /\ PrizesConserved /\ PaidInv /\ [Next]_vars => GameInv' /\ PrizesConserved' /\ PaidInv'
    BY NextKeeps, PaidKept
  <1>3. GameInv /\ PrizesConserved /\ PaidInv /\ [Next]_vars =>
          [\A s \in Seats : \A p \in wonPrizes'[s] \ wonPrizes[s] :
             /\ auction.highestBid # None /\ auction.highestBid.seat = s
             /\ auction.highestBid.cards \cap (hand[s] \cup Elements(deck[s])) = {}
             /\ \E i \in Slots : p \in board.slots[i] /\ price[i] <= Amount(auction.highestBid.cards)]_vars
    BY WonIsPaid
  <1> QED
    BY <1>1, <1>2, <1>3, PTL DEF Spec, PrizesArePaidFor
-----------------------------------------------------------------------------
(* Every move counts                                                       *)

HasPrize(b) == \E i \in Slots : b.slots[i] # {}

(* There is something to bid for.                                          *)
StockInv == phase \in {"auction-active", "awaiting-prize-choice"} => HasPrize(board)

(* A display drifts empty only at the end of the game.                     *)
LEMMA ShiftStocks ==
  ASSUME NEW b \in Board, HasPrize(b)
  PROVE  IsGameOver(ShiftDisplay(b)) \/ HasPrize(ShiftDisplay(b))
  <1> DEFINE c == ShiftDisplay(b)
             n == Cardinality(b.slots[5])
             rest == Rest(b.prizeDeck, n)
             taken == TopOf(b.prizeDeck, n)
  <1>1. b.slots \in [0 .. 5 -> SUBSET Prizes] /\ b.prizeDeck \in Seq(Prizes)
    BY DEF Board
  <1>2. n \in Nat /\ (b.slots[5] # {} => n > 0)
    <2>1. IsFiniteSet(b.slots[5])
      BY <1>1, PrizesAssumption, FS_Subset
    <2>2. n \in Nat /\ (n = 0 => b.slots[5] = {})
      BY <2>1, FS_CardinalityType, FS_EmptySet
    <2> QED
      BY <2>2
  <1>3. /\ Len(rest) = Len(b.prizeDeck) - Least(n, Len(b.prizeDeck))
        /\ \A x : x \in taken <=>
              \E i \in 1 .. Len(b.prizeDeck) : i > Len(rest) /\ b.prizeDeck[i] = x
        /\ rest \in Seq(Prizes)
    <2> HIDE DEF n
    <2> QED BY <1>1, <1>2, RestOfPile
  <1>4. /\ c.slots = [i \in 0 .. 5 |-> IF i = 0 THEN taken ELSE b.slots[i - 1]]
        /\ c.prizeDeck = rest
    BY DEF ShiftDisplay, Board
  <1> HIDE DEF c, n, rest, taken
  <1>5. PICK i \in 0 .. 5 : b.slots[i] # {}
    BY DEF HasPrize
  <1>6. CASE i # 5
    <2>1. i + 1 \in 0 .. 5 /\ c.slots[i + 1] = b.slots[i]
      BY <1>4, <1>6
    <2> QED
      BY <1>5, <2>1 DEF HasPrize, c
  <1>7. CASE i = 5 /\ b.prizeDeck # <<>>
    <2>1. Len(b.prizeDeck) > 0 /\ Len(b.prizeDeck) \in Nat
      BY <1>1, <1>7
    <2>2. Len(b.prizeDeck) > Len(rest)
      <3>1. n \in Nat /\ n > 0
        BY <1>2, <1>5, <1>7
      <3>2. Least(n, Len(b.prizeDeck)) \in Nat /\ Least(n, Len(b.prizeDeck)) > 0
        BY <2>1, <3>1 DEF Least
      <3> QED
        BY <1>3, <2>1, <3>2
    <2>3. b.prizeDeck[Len(b.prizeDeck)] \in taken
      BY <1>3, <2>1, <2>2
    <2>4. c.slots[0] # {}
      BY <1>4, <2>3
    <2> QED
      BY <2>4 DEF HasPrize, c
  <1>8. CASE b.prizeDeck = <<>>
    <2>1. Len(rest) = 0
      BY <1>2, <1>3, <1>8 DEF Least
    <2>2. c.prizeDeck = <<>>
      BY <1>3, <1>4, <2>1
    <2> QED
      BY <2>2 DEF HasPrize, IsGameOver, c
  <1> QED
    BY <1>6, <1>7, <1>8

LEMMA StockKept ==
  ASSUME GameInv, StockInv, [Next]_vars
  PROVE  StockInv'
  <1>t. board \in Board
    BY DEF GameInv, TypeOK
  <1>1. ASSUME NEW a, phase = "auction-active", AdvanceAuction(a)
        PROVE  StockInv'
    <2>1. CASE ResolveAuctionNoWinner(a)
      <3>1. board' = ShiftDisplay(board) /\ (IsGameOver(ShiftDisplay(board)) => phase' = "ended")
        BY <2>1 DEF ResolveAuctionNoWinner
      <3>2. IsGameOver(ShiftDisplay(board)) \/ HasPrize(ShiftDisplay(board))
        BY <1>t, <1>1, ShiftStocks DEF StockInv
      <3> QED
        BY <3>1, <3>2 DEF StockInv, HasPrize
    <2>2. CASE UNCHANGED board
      BY <1>1, <2>2 DEF StockInv, HasPrize
    <2> QED
      BY <1>1, <2>1, <2>2 DEF AdvanceAuction, ResolveAuctionWin
  <1>2. ASSUME NEW b, NEW n, AfterPrizeChoice(b, n)
        PROVE  StockInv'
    <2>1. \/ phase' \in {"ended", "awaiting-new-prize-placement"}
          \/ board' = b /\ HasPrize(b)
      BY <1>2 DEF AfterPrizeChoice, ConcludeAuction, IsGameOver, HasPrize
    <2> QED
      BY <2>1 DEF StockInv, HasPrize
  <1>3. ASSUME NEW seat \in Seats, NEW i \in Slots, PlaceNewPrize(seat, i)
        PROVE  StockInv'
    <2>1. board' = Place(board, i)
      BY <1>3 DEF PlaceNewPrize, ConcludeAuction
    <2>2. Place(board, i).slots[i] # {}
      BY <1>t DEF Place, Board
    <2> QED
      BY <2>1, <2>2 DEF StockInv, HasPrize
  <1>4. CASE UNCHANGED vars
    BY <1>4 DEF StockInv, HasPrize, vars
  <1>5. ASSUME NEW seat \in Seats, NEW cards, PlaceBid(seat, cards)
        PROVE  StockInv'
    BY <1>1, <1>5 DEF PlaceBid, IsSeatsTurn
  <1>6. ASSUME NEW seat \in Seats, Pass(seat)
        PROVE  StockInv'
    BY <1>1, <1>6 DEF Pass, IsSeatsTurn
  <1>7. ASSUME NEW seat \in Seats, NEW prize, TakePrize(seat, prize)
        PROVE  StockInv'
    BY <1>2, <1>7 DEF TakePrize
  <1>8. ASSUME NEW seat \in Seats, NEW reward, ChooseAuctionReward(seat, reward)
        PROVE  StockInv'
    BY <1>2, <1>8 DEF ChooseAuctionReward
  <1> QED
    BY <1>3, <1>4, <1>5, <1>6, <1>7, <1>8 DEF Next, Move, Over

(* A slot of the display is a place.                                        *)
LEMMA DisplayedIsOnBoard ==
  ASSUME NEW i \in Slots, NEW p, p \in board.slots[i]
  PROVE  i \in PlacesOf(p)
  BY PlaceOnBoard DEF PlacesOf

(* A shift moves what is on display.                                       *)
LEMMA DisplayedMoves ==
  ASSUME GameInv, \A p \in Prizes : PrizeMovesOn(p), DisplayShifts, HasPrize(board)
  PROVE  \E p \in Prizes : PlacesOf(p)' # PlacesOf(p)
  <1> PICK i \in Slots : board.slots[i] # {}
    BY DEF HasPrize
  <1> PICK p \in board.slots[i] : TRUE
    OBVIOUS
  <1>1. p \in Prizes
    BY DEF GameInv, TypeOK, Board
  <1>2. i \in PlacesOf(p)
    BY DisplayedIsOnBoard
  <1>3. \A l \in PlacesOf(p)' : i < l
    BY <1>1, <1>2 DEF PrizeMovesOn
  <1> QED
    BY <1>1, <1>2, <1>3

LEMMA AuctionCounts ==
  ASSUME GameInv, PrizesConserved, TurnInv, StockInv, phase = "auction-active",
         NEW a \in Auction, a.openerSeat = auction.openerSeat, AdvanceAuction(a),
         \/ NonPassed(a) # {} /\ a.highestBid # None /\ Amount(a.highestBid.cards) > Threshold
         \/ Len(a.passedSeats) > Len(auction.passedSeats)
  PROVE  SameAuction \/ \E p \in Prizes : PlacesOf(p)' # PlacesOf(p)
  <1>1. CASE NonPassed(a) = {} /\ ResolveAuctionNoWinner(a)
    <2>1. board' = ShiftDisplay(board) /\ wonPrizes' = wonPrizes /\ board \in Board
      BY <1>1 DEF ResolveAuctionNoWinner, GameInv, TypeOK
    <2> PICK i \in Slots : board.slots[i] # {}
      BY DEF StockInv, HasPrize
    <2> PICK p \in board.slots[i] : TRUE
      OBVIOUS
    <2>2. p \in Prizes
      BY <2>1 DEF Board
    <2>3. i \in PlacesOf(p) /\ i \in PlacesOn(board, p)
      BY DisplayedIsOnBoard, PlaceOnBoard
    <2>4. AtMostOne(PlacesOn(board, p))
      BY <2>2 DEF PrizesConserved, PlacesOf, AtMostOne
    <2>5. i \notin PlacesOn(board', p)
      BY <2>1, <2>2, <2>3, <2>4, ShiftMovesOn DEF Shifted
    <2>6. i \notin WonIn(wonPrizes', p)
      BY WonPlaces
    <2>7. i \notin PlacesOf(p)'
      BY <2>5, <2>6 DEF PlacesOf, WonIn
    <2> QED
      BY <2>2, <2>3, <2>7
  <1>2. CASE /\ NonPassed(a) # {}
             /\ \/ auction' = [a EXCEPT !.winnerSeat = a.highestBid.seat]
                \/ auction' = [a EXCEPT !.activeSeat = NextActive(a)]
    <2>1. /\ auction'.openerSeat = auction.openerSeat /\ auction'.highestBid = a.highestBid
          /\ auction'.passedSeats = a.passedSeats
      BY <1>2 DEF Auction
    <2>2. a.highestBid # None => Threshold' = Amount(a.highestBid.cards)
      BY <2>1 DEF Threshold
    <2> QED
      BY <2>1, <2>2 DEF SameAuction
  <1>3. OnlyTheHighestBidderIsLeft(a) => NonPassed(a) # {}
    BY DEF OnlyTheHighestBidderIsLeft
  <1> QED
    BY <1>1, <1>2, <1>3 DEF AdvanceAuction, ResolveAuctionWin

LEMMA MoveCounts ==
  ASSUME GameInv, PrizesConserved, TurnInv, StockInv, NEW seat \in Seats, Move(seat)
  PROVE  \/ phase = "auction-active" /\ SameAuction
         \/ \E p \in Prizes : PlacesOf(p)' # PlacesOf(p)
  <1>m. GameInv' /\ \A p \in Prizes : PrizeMovesOn(p)
    BY MoveKeeps
  <1>t. auction \in Auction
    BY DEF GameInv, TypeOK
  <1>1. ASSUME NEW cards \in SUBSET hand[seat], PlaceBid(seat, cards)
        PROVE  \/ phase = "auction-active" /\ SameAuction
               \/ \E p \in Prizes : PlacesOf(p)' # PlacesOf(p)
    <2> DEFINE bid == [seat |-> seat, cards |-> cards]
               a == [auction EXCEPT !.highestBid = bid]
    <2>1. /\ phase = "auction-active" /\ auction.activeSeat = seat /\ AdvanceAuction(a)
          /\ Amount(cards) > Threshold /\ seat \in NonPassed(auction)
      BY <1>1 DEF PlaceBid, IsSeatsTurn, TurnInv
    <2>2. bid \in Bid /\ bid # None /\ bid.cards = cards
      BY NoBidAssumption DEF GameInv, TypeOK, Bid
    <2> HIDE DEF bid
    <2>3. /\ a \in Auction /\ a.openerSeat = auction.openerSeat /\ a.highestBid = bid
          /\ NonPassed(a) = NonPassed(auction)
      BY <1>t, <2>2 DEF Auction, NonPassed
    <2> HIDE DEF a
    <2> QED
      BY <2>1, <2>2, <2>3, AuctionCounts
  <1>2. ASSUME Pass(seat)
        PROVE  \/ phase = "auction-active" /\ SameAuction
               \/ \E p \in Prizes : PlacesOf(p)' # PlacesOf(p)
    <2> DEFINE a == [auction EXCEPT !.passedSeats = Append(@, seat)]
    <2>1. phase = "auction-active" /\ AdvanceAuction(a)
      BY <1>2 DEF Pass, IsSeatsTurn
    <2>2. /\ Append(auction.passedSeats, seat) \in Seq(Seats)
          /\ Len(Append(auction.passedSeats, seat)) > Len(auction.passedSeats)
      BY <1>t DEF Auction
    <2>3. /\ a \in Auction /\ a.openerSeat = auction.openerSeat
          /\ Len(a.passedSeats) > Len(auction.passedSeats)
      BY <1>t, <2>2 DEF Auction
    <2> HIDE DEF a
    <2> QED
      BY <2>1, <2>3, AuctionCounts
  <1>3. ASSUME phase = "awaiting-prize-choice"
        PROVE  \E p \in Prizes : PlacesOf(p)' # PlacesOf(p)
    BY <1>m, <1>3, DisplayedMoves DEF DisplayShifts, StockInv
  <1>4. ASSUME NEW i \in Slots, PlaceNewPrize(seat, i)
        PROVE  \E p \in Prizes : PlacesOf(p)' # PlacesOf(p)
    <2>0. board.revealedPrize \in Prizes
      BY <1>4 DEF PlaceNewPrize, GameInv, TypeOK, Board
    <2> PICK p \in Prizes : p = board.revealedPrize
      BY <2>0
    <2>1. p # None /\ board \in Board
      BY PrizesAssumption DEF GameInv, TypeOK
    <2>2. -1 \in PlacesOf(p)
      BY PlaceOnBoard DEF PlacesOf
    <2>3. board'.revealedPrize = None /\ board' \in Board
      BY <1>4, <1>m, <2>1, PlaceMovesOn DEF PlaceNewPrize, ConcludeAuction, GameInv, TypeOK
    <2>4. Len(board'.prizeDeck) \in Nat
      BY <2>3 DEF Board
    <2>5. -1 \notin PlacesOn(board', p)
      BY <2>1, <2>3, <2>4, PlaceOnBoard
    <2>6. -1 \notin WonIn(wonPrizes', p)
      BY WonPlaces
    <2>7. -1 \notin PlacesOf(p)'
      BY <2>5, <2>6 DEF PlacesOf, WonIn
    <2> QED
      BY <2>2, <2>7
  <1> QED
    BY <1>1, <1>2, <1>3, <1>4 DEF Move, TakePrize, ChooseAuctionReward

(* Every move raises the bid, adds a pass or decides the auction, or       *)
(* brings a prize on: no game goes on for ever, whoever passes.            *)
THEOREM EveryMoveAlwaysCounts == Spec => EveryMoveCounts
  <1> DEFINE I == GameInv /\ PrizesConserved /\ TurnInv /\ StockInv
  <1>1. Init => I
    <2>1. Init => \E p : p \in board.slots[1]
      BY DEF Init
    <2>2. Init => StockInv
      BY <2>1 DEF StockInv, HasPrize
    <2> QED
      BY <2>2, InitTyped, InitConserves, InitTurn
  <1>2. I /\ [Next]_vars => I'
    BY NextKeeps, TurnKept, StockKept
  <1>3. I /\ [Next]_vars =>
          [\/ phase = "auction-active" /\ SameAuction
           \/ \E p \in Prizes : PlacesOf(p)' # PlacesOf(p)]_vars
    BY MoveCounts DEF Next, Over
  <1> QED
    BY <1>1, <1>2, <1>3, PTL DEF Spec, EveryMoveCounts
=============================================================================
