------------------------ MODULE LoveTrianglesProofs ------------------------
(***************************************************************************)
(* Proofs about Love Triangles, for any map, any costs and any number of   *)
(* seats: a card is in one place, the sweep leaves a display that can be   *)
(* drawn and lines that do not cross, every gem is accounted for, and the  *)
(* score the code searches for is the one the rules mean.                  *)
(***************************************************************************)
EXTENDS LoveTriangles, FiniteSetTheorems, SequenceTheorems, WellFoundedInduction, TLAPS

USE DEF Slots, TopRow, BottomRow

-----------------------------------------------------------------------------
(* Induction over the numbers, for a set.                                  *)
LEMMA SetInduction ==
  ASSUME NEW T, 0 \in T, \A n \in Nat : n \in T => n + 1 \in T
  PROVE  \A n \in Nat : n \in T
<1> SUFFICES ASSUME Nat \ T # {} PROVE FALSE
  OBVIOUS
<1> DEFINE R == {ss \in Nat \X Nat : ss[1] < ss[2]}
<1>1. IsWellFoundedOn(R, Nat)
  BY NatLessThanWellFounded, Zenon DEF OpToRel
<1>2. PICK m \in Nat \ T : \A n \in Nat \ T : ~ (<<n, m>> \in R)
  <2> HIDE DEF R
  <2> QED BY <1>1, WFMin
<1>3. m # 0 /\ m - 1 \in Nat /\ <<m - 1, m>> \in R
  OBVIOUS
<1>4. m - 1 \in T
  BY <1>2, <1>3
<1> QED BY <1>3, <1>4

-----------------------------------------------------------------------------
(* The cards                                                               *)

(* The slots and, after them, the places of the deck.                      *)
Places(t)  == 1 .. 6 + Len(t.deck)
Card(t, p) == IF p <= 6 THEN t.display[p] ELSE t.deck[p - 6]
Stock(t)   == {Card(t, p) : p \in Places(t)} \ {None}

Distinct(t) ==
  \A p, q \in Places(t) : Card(t, p) = Card(t, q) /\ Card(t, p) # None => p = q

(* DisplayStocked of any table, and of a table one card of which was just  *)
(* taken from the display.                                                 *)
Stocked(t) ==
  /\ \A c \in TopRow : t.display[c] = None => t.display[c + 3] = None
  /\ t.deck # <<>> => \A c \in Slots : t.display[c] # None

OneGap(t) ==
  t.deck # <<>> => \E gap \in Slots : \A c \in Slots : t.display[c] = None <=> c = gap

LEMMA NoneIsNoLink == None \notin Links
BY MapAssumption

LEMMA MaxOfTwo ==
  ASSUME NEW n \in Int
  PROVE  Max({0, n}) = IF n > 0 THEN n ELSE 0
<1> DEFINE m == IF n > 0 THEN n ELSE 0
<1>1. m \in {0, n} /\ \A y \in {0, n} : y <= m
  OBVIOUS
<1>2. ASSUME NEW x \in {0, n}, \A y \in {0, n} : y <= x
      PROVE  x = m
  BY <1>2
<1> QED BY <1>1, <1>2 DEF Max

LEMMA DeckFacts ==
  ASSUME NEW t \in Table
  PROVE  /\ t.deck \in Seq(Links) /\ Len(t.deck) \in Nat
         /\ \A i \in 1 .. Len(t.deck) : t.deck[i] \in Links
         /\ t.deck = <<>> <=> Len(t.deck) = 0
<1>1. t.deck \in Seq(Links)
  BY DEF Table
<1> HIDE DEF Table
<1> DEFINE deck == t.deck
<1>2. deck \in Seq(Links)
  BY <1>1
<1> HIDE DEF deck
<1>3. Len(deck) \in Nat /\ \A i \in 1 .. Len(deck) : deck[i] \in Links
  BY <1>2, LenProperties, ElementOfSeq
<1>4. deck = <<>> <=> Len(deck) = 0
  BY <1>2, EmptySeq
<1> QED BY <1>2, <1>3, <1>4 DEF deck

LEMMA CardType ==
  ASSUME NEW t \in Table, NEW p \in Places(t)
  PROVE  Card(t, p) \in Links \cup {None} /\ (p > 6 => Card(t, p) \in Links)
<1>1. p \in Slots => t.display[p] \in Links \cup {None}
  BY DEF Table
<1>2. p > 6 => p - 6 \in 1 .. Len(t.deck)
  BY DeckFacts DEF Places
<1> QED BY <1>1, <1>2, DeckFacts DEF Card, Places

-----------------------------------------------------------------------------
(* The refill                                                              *)

LEMMA PromotedFacts ==
  ASSUME NEW t \in Table
  PROVE  /\ Promoted(t) \in Table
         /\ Promoted(t).deck = t.deck
         /\ Promoted(t).discardPile = t.discardPile
         /\ Promoted(t).gems = t.gems
         /\ \A c \in TopRow : Promoted(t).display[c] =
              IF t.display[c] = None THEN t.display[c + 3] ELSE t.display[c]
         /\ \A c \in BottomRow : Promoted(t).display[c] =
              IF t.display[c - 3] = None THEN None ELSE t.display[c]
<1> DEFINE D == [c \in Slots |->
                   CASE c \in TopRow /\ t.display[c] = None -> t.display[c + 3]
                     [] c \in BottomRow /\ t.display[c - 3] = None -> None
                     [] OTHER -> t.display[c]]
<1>1. Promoted(t) = [t EXCEPT !.display = D]
  BY DEF Promoted
<1>2. \A c \in TopRow : D[c] = IF t.display[c] = None THEN t.display[c + 3] ELSE t.display[c]
  OBVIOUS
<1>3. \A c \in BottomRow : D[c] = IF t.display[c - 3] = None THEN None ELSE t.display[c]
  OBVIOUS
<1>4. \A c \in Slots : D[c] \in Links \cup {None}
  <2>1. \A c \in Slots : t.display[c] \in Links \cup {None}
    BY DEF Table
  <2>2. \A c \in TopRow : c + 3 \in Slots
    OBVIOUS
  <2> HIDE DEF D
  <2> QED BY <1>2, <1>3, <2>1, <2>2
<1>5. D \in [Slots -> Links \cup {None}]
  <2>1. D = [c \in Slots |-> D[c]]
    OBVIOUS
  <2> HIDE DEF D
  <2> QED BY <1>4, <2>1
<1> HIDE DEF D
<1>6. [t EXCEPT !.display = D] \in Table /\ [t EXCEPT !.display = D].display = D
  BY <1>5 DEF Table
<1> QED BY <1>1, <1>2, <1>3, <1>6 DEF Table

(* What is drawn when the deck is empty, or the bottom row has one empty   *)
(* slot.                                                                   *)
LEMMA NothingDrawn ==
  ASSUME NEW t \in Table, t.deck = <<>>
  PROVE  Drawn(t) = t
<1> DEFINE empty == {c \in BottomRow : t.display[c] = None}
           Turn(c) == Cardinality({d \in empty : d <= c})
           D == [c \in Slots |-> IF c \in empty /\ Turn(c) <= Len(t.deck)
                                 THEN t.deck[Len(t.deck) + 1 - Turn(c)] ELSE t.display[c]]
           left == Max({0, Len(t.deck) - Cardinality(empty)})
<1>1. Drawn(t) = [t EXCEPT !.display = D, !.deck = SubSeq(t.deck, 1, left)]
  BY DEF Drawn
<1>2. Len(t.deck) = 0
  BY DeckFacts
<1>3. IsFiniteSet(BottomRow)
  <2> DEFINE a == 4
             b == 6
  <2>1. a \in Int /\ b \in Int
    OBVIOUS
  <2> HIDE DEF a, b
  <2>2. IsFiniteSet(a .. b)
    BY <2>1, FS_Interval
  <2> QED BY <2>2 DEF a, b
<1>4. Cardinality(empty) \in Nat
  BY <1>3, FS_Subset, FS_CardinalityType
<1>5. left = 0
  BY <1>2, <1>4, MaxOfTwo
<1>6. ASSUME NEW c \in empty PROVE ~ (Turn(c) <= Len(t.deck))
  <2> DEFINE before == {d \in empty : d <= c}
  <2>1. before \in SUBSET BottomRow /\ c \in before
    OBVIOUS
  <2> HIDE DEF before
  <2>2. IsFiniteSet(before) /\ before # {}
    BY <1>3, <2>1, FS_Subset
  <2>3. Cardinality(before) \in Nat /\ Cardinality(before) # 0
    BY <2>2, FS_CardinalityType, FS_EmptySet
  <2> QED BY <1>2, <2>3 DEF before
<1>7. D = [c \in Slots |-> t.display[c]]
  <2> HIDE DEF empty, Turn
  <2> QED BY <1>6
<1>8. D = t.display
  BY <1>7 DEF Table
<1>9. SubSeq(t.deck, 1, left) = t.deck
  BY <1>5, SubSeqEmpty
<1> HIDE DEF D, left
<1> QED BY <1>1, <1>8, <1>9 DEF Table

LEMMA OneDrawn ==
  ASSUME NEW t \in Table, t.deck # <<>>, NEW gap \in BottomRow,
         \A c \in BottomRow : t.display[c] = None <=> c = gap
  PROVE  LET u == Drawn(t)
             n == Len(t.deck)
         IN  /\ u \in Table
             /\ u.discardPile = t.discardPile /\ u.gems = t.gems
             /\ u.display = [t.display EXCEPT ![gap] = t.deck[n]]
             /\ Len(u.deck) = n - 1 /\ \A i \in 1 .. n - 1 : u.deck[i] = t.deck[i]
<1> DEFINE empty == {c \in BottomRow : t.display[c] = None}
           Turn(c) == Cardinality({d \in empty : d <= c})
           n == Len(t.deck)
           D == [c \in Slots |-> IF c \in empty /\ Turn(c) <= n
                                 THEN t.deck[n + 1 - Turn(c)] ELSE t.display[c]]
           left == Max({0, n - Cardinality(empty)})
           deck == SubSeq(t.deck, 1, left)
<1>1. Drawn(t) = [t EXCEPT !.display = D, !.deck = deck]
  BY DEF Drawn
<1>2. n \in Nat \ {0}
  BY DeckFacts
<1>3. empty = {gap}
  OBVIOUS
<1>4. {d \in empty : d <= gap} = {gap}
  BY <1>3
<1>5. Cardinality(empty) = 1 /\ Turn(gap) = 1
  BY <1>3, <1>4, FS_Singleton
<1>6. left = n - 1
  BY <1>2, <1>5, MaxOfTwo
<1>7. D = [t.display EXCEPT ![gap] = t.deck[n]]
  <2>1. t.display \in [Slots -> Links \cup {None}]
    BY DEF Table
  <2>2. \A c \in Slots : c \in empty <=> c = gap
    BY <1>3
  <2> HIDE DEF empty, Turn, n
  <2> QED BY <1>2, <1>5, <2>1, <2>2
<1>8. D \in [Slots -> Links \cup {None}]
  <2> HIDE DEF D, n
  <2>1. t.deck[n] \in Links
    BY <1>2, DeckFacts DEF n
  <2>2. t.display \in [Slots -> Links \cup {None}]
    BY DEF Table
  <2> QED BY <1>7, <2>1, <2>2
<1>9. deck \in Seq(Links) /\ Len(deck) = n - 1 /\ \A i \in 1 .. n - 1 : deck[i] = t.deck[i]
  <2>1. \A i \in 1 .. n - 1 : t.deck[i] \in Links
    BY <1>2, DeckFacts
  <2> DEFINE d == t.deck
             m == n - 1
  <2>2. m \in Int /\ m >= 0 /\ \A i \in 1 .. m : d[i] \in Links
    BY <1>2, <2>1
  <2>3. deck = SubSeq(d, 1, m)
    BY <1>6
  <2> HIDE DEF d, m
  <2>4. /\ SubSeq(d, 1, m) \in Seq(Links)
        /\ Len(SubSeq(d, 1, m)) = IF 1 <= m THEN m - 1 + 1 ELSE 0
        /\ \A i \in 1 .. m - 1 + 1 : SubSeq(d, 1, m)[i] = d[1 + i - 1]
    BY <2>2, SubSeqProperties
  <2>5. \A i \in 1 .. m : SubSeq(d, 1, m)[i] = d[i]
    BY <2>2, <2>4
  <2> HIDE DEF deck
  <2> QED BY <2>2, <2>3, <2>4, <2>5 DEF d, m
<1> HIDE DEF D, deck, n
<1>10. /\ [t EXCEPT !.display = D, !.deck = deck] \in Table
       /\ [t EXCEPT !.display = D, !.deck = deck].display = D
       /\ [t EXCEPT !.display = D, !.deck = deck].deck = deck
       /\ [t EXCEPT !.display = D, !.deck = deck].gems = t.gems
       /\ [t EXCEPT !.display = D, !.deck = deck].discardPile = t.discardPile
  BY <1>8, <1>9 DEF Table
<1> QED BY <1>1, <1>7, <1>9, <1>10 DEF n

(* A refill moves cards about: none is lost or doubled, and the gap fills. *)
LEMMA RefillSound ==
  ASSUME NEW t \in Table, Distinct(t), OneGap(t)
  PROVE  LET u == RefillDisplay(t)
         IN  /\ u \in Table /\ Distinct(u) /\ Stocked(u)
             /\ Stock(u) = Stock(t)
             /\ u.discardPile = t.discardPile /\ u.gems = t.gems
<1> DEFINE v == Promoted(t)
           u == Drawn(v)
           n == Len(t.deck)
<1>1. RefillDisplay(t) = u
  BY DEF RefillDisplay
<1>2. /\ v \in Table
      /\ v.deck = t.deck /\ v.discardPile = t.discardPile /\ v.gems = t.gems
      /\ \A c \in TopRow : v.display[c] =
           IF t.display[c] = None THEN t.display[c + 3] ELSE t.display[c]
      /\ \A c \in BottomRow : v.display[c] =
           IF t.display[c - 3] = None THEN None ELSE t.display[c]
  BY PromotedFacts
<1>3. n \in Nat
  BY DeckFacts
<1> HIDE DEF v, u
<1>4. CASE t.deck = <<>>
  <2>1. u = v
    BY <1>2, <1>4, NothingDrawn DEF u
  <2>2. n = 0
    BY <1>4, DeckFacts
  <2>3. Places(t) = Slots /\ Places(u) = Slots
    BY <1>2, <2>1, <2>2 DEF Places
  <2>4. \A p \in Slots : Card(t, p) = t.display[p] /\ Card(u, p) = v.display[p]
    BY <2>1 DEF Card
  <2>5. Distinct(u)
    BY <1>2, <2>3, <2>4 DEF Distinct
  <2>6. Stock(u) = Stock(t)
    <3>1. \A p \in Slots : Card(u, p) # None => \E q \in Slots : Card(t, q) = Card(u, p)
      BY <1>2, <2>4
    <3>2. \A p \in Slots : Card(t, p) # None => \E q \in Slots : Card(u, q) = Card(t, p)
      <4> SUFFICES ASSUME NEW p \in Slots, Card(t, p) # None
                   PROVE  \E q \in Slots : Card(u, q) = Card(t, p)
        OBVIOUS
      <4>1. CASE p \in TopRow
        BY <1>2, <2>4, <4>1
      <4>2. CASE p \in BottomRow /\ t.display[p - 3] = None
        <5>1. p - 3 \in TopRow /\ (p - 3) + 3 = p
          BY <4>2
        <5> QED BY <1>2, <2>4, <4>2, <5>1
      <4>3. CASE p \in BottomRow /\ t.display[p - 3] # None
        BY <1>2, <2>4, <4>3
      <4> QED BY <4>1, <4>2, <4>3
    <3> QED BY <2>3, <3>1, <3>2 DEF Stock
  <2>7. Stocked(u)
    BY <1>2, <1>4, <2>1 DEF Stocked
  <2> QED BY <1>1, <1>2, <2>1, <2>5, <2>6, <2>7
<1>5. CASE t.deck # <<>>
  <2>1. PICK gap \in Slots : \A c \in Slots : t.display[c] = None <=> c = gap
    BY <1>5 DEF OneGap
  <2> DEFINE under == IF gap \in TopRow THEN gap + 3 ELSE gap
  <2>2. under \in BottomRow /\ \A c \in Slots : v.display[c] = None <=> c = under
    BY <1>2, <2>1
  <2> HIDE DEF under
  <2>3. /\ u \in Table
        /\ u.discardPile = t.discardPile /\ u.gems = t.gems
        /\ u.display = [v.display EXCEPT ![under] = t.deck[n]]
        /\ Len(u.deck) = n - 1 /\ \A i \in 1 .. n - 1 : u.deck[i] = t.deck[i]
    <3>1. v.deck # <<>> /\ \A c \in BottomRow : v.display[c] = None <=> c = under
      BY <1>2, <1>5, <2>2
    <3>2. LET w == Drawn(v)
              m == Len(v.deck)
          IN  /\ w \in Table
              /\ w.discardPile = v.discardPile /\ w.gems = v.gems
              /\ w.display = [v.display EXCEPT ![under] = v.deck[m]]
              /\ Len(w.deck) = m - 1 /\ \A i \in 1 .. m - 1 : w.deck[i] = v.deck[i]
      BY <1>2, <2>2, <3>1, OneDrawn
    <3> QED BY <1>2, <3>2 DEF u
  <2>4. n > 0 /\ Places(t) = 1 .. 6 + n /\ Places(u) = 1 .. 5 + n
    BY <1>3, <1>5, <2>3, DeckFacts DEF Places
  (* Where the card at a place comes from.                                 *)
  <2> DEFINE From(p) == IF p = under THEN 6 + n ELSE IF p = gap THEN under ELSE p
  <2>5. \A p \in Places(u) : Card(u, p) = Card(t, From(p)) /\ From(p) \in Places(t)
    <3> SUFFICES ASSUME NEW p \in Places(u)
                 PROVE  Card(u, p) = Card(t, From(p)) /\ From(p) \in Places(t)
      OBVIOUS
    <3>1. From(p) \in Places(t)
      BY <1>3, <2>2, <2>4
    <3>2. v.display \in [Slots -> Links \cup {None}]
      BY <1>2 DEF Table
    <3>3. CASE p = under
      BY <1>3, <2>2, <2>3, <2>4, <3>2, <3>3 DEF Card
    <3>4. CASE p # under /\ p = gap
      <4>1. gap \in TopRow /\ under = gap + 3
        BY <2>2, <3>4 DEF under
      <4>2. v.display[gap] = t.display[under]
        BY <1>2, <2>1, <4>1
      <4> QED BY <2>2, <2>3, <3>1, <3>2, <3>4, <4>1, <4>2 DEF Card
    <3>5. CASE p # under /\ p # gap /\ p \in Slots
      <4>1. v.display[p] = t.display[p]
        BY <1>2, <2>1, <2>2, <3>5 DEF under
      <4> QED BY <2>2, <2>3, <3>1, <3>2, <3>5, <4>1 DEF Card
    <3>6. CASE p # under /\ p # gap /\ p \notin Slots
      <4>1. p - 6 \in 1 .. n - 1 /\ ~ (p <= 6)
        BY <1>3, <2>4, <3>6
      <4> QED BY <2>3, <3>1, <3>6, <4>1 DEF Card
    <3> QED BY <3>1, <3>3, <3>4, <3>5, <3>6
  <2>6. \A p, q \in Places(u) : From(p) = From(q) => p = q
    BY <1>3, <2>1, <2>2, <2>4 DEF under
  <2>7. \A q \in Places(t) : Card(t, q) # None => \E p \in Places(u) : From(p) = q
    <3> SUFFICES ASSUME NEW q \in Places(t), Card(t, q) # None
                 PROVE  \E p \in Places(u) : From(p) = q
      OBVIOUS
    <3>1. q # gap
      BY <2>1 DEF Card
    <3>2. under \in Places(u) /\ gap \in Places(u) /\ under \in Slots
      BY <1>3, <2>1, <2>2, <2>4
    <3>3. CASE q = 6 + n
      BY <3>2, <3>3
    <3>4. CASE q = under /\ q # 6 + n
      BY <3>1, <3>2, <3>4
    <3>5. CASE q # under /\ q # 6 + n
      BY <1>3, <2>4, <3>1, <3>5
    <3> QED BY <3>3, <3>4, <3>5
  <2> HIDE DEF From
  <2>8. Distinct(u)
    BY <2>5, <2>6 DEF Distinct
  <2>9. Stock(u) = Stock(t)
    BY <2>5, <2>7 DEF Stock
  <2>10. Stocked(u)
    <3>1. t.deck[n] # None
      BY <1>3, <2>4, DeckFacts, NoneIsNoLink
    <3>2. v.display \in [Slots -> Links \cup {None}]
      BY <1>2 DEF Table
    <3>3. \A c \in Slots : u.display[c] # None
      BY <2>2, <2>3, <3>1, <3>2
    <3> QED BY <3>3 DEF Stocked
  <2> QED BY <1>1, <2>3, <2>8, <2>9, <2>10
<1> QED BY <1>4, <1>5

(* A card taken from the display leaves one gap.                           *)
LEMMA Taken ==
  ASSUME NEW t \in Table, Distinct(t), Stocked(t), NEW slot \in Slots, t.display[slot] # None,
         NEW u \in Table, u.deck = t.deck, u.display = [t.display EXCEPT ![slot] = None]
  PROVE  /\ Distinct(u) /\ OneGap(u)
         /\ Stock(u) = Stock(t) \ {t.display[slot]}
         /\ t.display[slot] \in Links /\ t.display[slot] \in Stock(t)
<1>1. t.display \in [Slots -> Links \cup {None}] /\ Len(t.deck) \in Nat
  BY DeckFacts DEF Table
<1>2. Places(u) = Places(t) /\ slot \in Places(t)
  BY <1>1 DEF Places
<1>3. \A p \in Places(t) : Card(u, p) = IF p = slot THEN None ELSE Card(t, p)
  BY <1>1, <1>2 DEF Card, Places
<1>4. Card(t, slot) = t.display[slot]
  BY DEF Card
<1>5. Distinct(u)
  BY <1>2, <1>3 DEF Distinct
<1>6. OneGap(u)
  BY <1>1 DEF OneGap, Stocked
<1>7. Stock(u) = Stock(t) \ {t.display[slot]}
  BY <1>2, <1>3, <1>4 DEF Stock, Distinct
<1>8. t.display[slot] \in Links /\ t.display[slot] \in Stock(t)
  BY <1>1, <1>2, <1>4 DEF Stock
<1> QED BY <1>5, <1>6, <1>7, <1>8
-----------------------------------------------------------------------------
(* The sweep                                                               *)

Drawings == [Seats -> SUBSET Links]

(* CardsConserved of any table and lines: a card is drawn, in stock or     *)
(* discarded.                                                              *)
OnePlace(t, owned) ==
  /\ Distinct(t)
  /\ Stock(t) \cap t.discardPile = {}
  /\ AllOwnedLinks(owned) \cap (Stock(t) \cup t.discardPile) = {}
  /\ \A s, r \in Seats : s # r => owned[s] \cap owned[r] = {}
  /\ Links = AllOwnedLinks(owned) \cup Stock(t) \cup t.discardPile

DiscardsCrossed(t, owned) ==
  \A l \in t.discardPile : CrossesAny(l, AllOwnedLinks(owned))

(* A table that a sweep may find, at its start and between two looks.      *)
Sound(t, owned) ==
  /\ t \in Table /\ \A s \in Seats : t.gems[s] >= 0
  /\ OnePlace(t, owned) /\ Stocked(t) /\ DiscardsCrossed(t, owned)

(* What the discards between two tables have paid.                         *)
PaidSince(t, u, owned) ==
  /\ t.discardPile \subseteq u.discardPile
  /\ \A s \in Seats :
       u.gems[s] = t.gems[s]
         + Cardinality({l \in u.discardPile \ t.discardPile : CrossesAny(l, owned[s])})

LEMMA MinOfSlots ==
  ASSUME NEW S \in SUBSET Slots, S # {}
  PROVE  Min(S) \in S
<1>1. \E x \in S : \A y \in S : x <= y
  <2>1. 1 \in S \/ 2 \in S \/ 3 \in S \/ 4 \in S \/ 5 \in S \/ 6 \in S
    <3>1. PICK x \in S : x \in Slots
      OBVIOUS
    <3>2. x = 1 \/ x = 2 \/ x = 3 \/ x = 4 \/ x = 5 \/ x = 6
      BY <3>1
    <3> QED BY <3>2
  <2> QED BY <2>1
<1> QED BY <1>1 DEF Min

LEMMA LinksFinite ==
  /\ IsFiniteSet(Links) /\ Cardinality(Links) \in Nat
  /\ \A S \in SUBSET Links : IsFiniteSet(S) /\ Cardinality(S) \in Nat
<1>1. Links \in SUBSET SUBSET Nodes /\ IsFiniteSet(SUBSET Nodes)
  BY MapAssumption, FS_SUBSET
<1>2. IsFiniteSet(Links)
  BY <1>1, FS_Subset
<1> QED BY <1>2, FS_CardinalityType, FS_Subset

LEMMA Removed ==
  ASSUME NEW owned \in Drawings, NEW t, Sound(t, owned), Unplayable(t, owned) # {}
  PROVE  \E slot \in Slots :
           LET u    == RemoveFirst(t, owned)
               link == t.display[slot]
           IN  /\ link # None /\ CrossesAny(link, AllOwnedLinks(owned))
               /\ u \in Table
               /\ u.display = [t.display EXCEPT ![slot] = None] /\ u.deck = t.deck
               /\ u.discardPile = t.discardPile \cup {link}
               /\ \A s \in Seats :
                    u.gems[s] = t.gems[s] + (IF CrossesAny(link, owned[s]) THEN 1 ELSE 0)
<1> DEFINE slot == Min(Unplayable(t, owned))
           link == t.display[slot]
           u    == RemoveFirst(t, owned)
           D == [t.display EXCEPT ![slot] = None]
           gems == [s \in Seats |-> t.gems[s] + (IF CrossesAny(link, owned[s]) THEN 1 ELSE 0)]
<1>1. Unplayable(t, owned) \in SUBSET Slots
  BY DEF Unplayable
<1>2. slot \in Slots /\ slot \in Unplayable(t, owned)
  BY <1>1, MinOfSlots
<1>3. link # None /\ CrossesAny(link, AllOwnedLinks(owned))
  BY <1>2 DEF Unplayable
<1>4. u = [t EXCEPT !.display = D, !.discardPile = t.discardPile \cup {link}, !.gems = gems]
  BY DEF RemoveFirst
<1> HIDE DEF slot, u
<1>5. t \in Table
  BY DEF Sound
<1>6. /\ t.display \in [Slots -> Links \cup {None}] /\ t.deck \in Seq(Links)
      /\ t.discardPile \in SUBSET Links /\ t.gems \in [Seats -> Int]
  BY <1>5 DEF Table
<1>7. D \in [Slots -> Links \cup {None}] /\ link \in Links
  BY <1>2, <1>3, <1>6
<1>8. gems \in [Seats -> Int]
  BY <1>6
<1> HIDE DEF D, gems, link
<1>9. /\ u \in Table /\ u.display = D /\ u.deck = t.deck
      /\ u.discardPile = t.discardPile \cup {link} /\ u.gems = gems
  BY <1>4, <1>5, <1>6, <1>7, <1>8 DEF Table
<1> QED BY <1>2, <1>3, <1>9 DEF u, D, gems, link

(* One look that finds a card: it leaves the table as sound as it was,     *)
(* with one more discard, that is paid for.                                *)
LEMMA LookSound ==
  ASSUME NEW owned \in Drawings, NEW t, Sound(t, owned), Unplayable(t, owned) # {}
  PROVE  LET u == SweepOnce(t, owned)
         IN  /\ Sound(u, owned)
             /\ \E link \in Links \ t.discardPile :
                  /\ u.discardPile = t.discardPile \cup {link}
                  /\ \A s \in Seats :
                       u.gems[s] = t.gems[s] + (IF CrossesAny(link, owned[s]) THEN 1 ELSE 0)
<1> DEFINE v == RemoveFirst(t, owned)
           u == RefillDisplay(v)
<1>1. SweepOnce(t, owned) = u
  BY DEF SweepOnce
<1>2. /\ t \in Table /\ Distinct(t) /\ Stocked(t)
      /\ \A s \in Seats : t.gems[s] \in Int /\ t.gems[s] >= 0
  BY DEF Sound, OnePlace, Table
<1>3. PICK slot \in Slots :
        /\ t.display[slot] # None /\ CrossesAny(t.display[slot], AllOwnedLinks(owned))
        /\ v \in Table
        /\ v.display = [t.display EXCEPT ![slot] = None] /\ v.deck = t.deck
        /\ v.discardPile = t.discardPile \cup {t.display[slot]}
        /\ \A s \in Seats :
             v.gems[s] = t.gems[s] + (IF CrossesAny(t.display[slot], owned[s]) THEN 1 ELSE 0)
  BY Removed
<1> DEFINE link == t.display[slot]
<1> HIDE DEF v
<1>4. /\ Distinct(v) /\ OneGap(v) /\ Stock(v) = Stock(t) \ {link}
      /\ link \in Links /\ link \in Stock(t)
  BY <1>2, <1>3, Taken
<1>5. /\ u \in Table /\ Distinct(u) /\ Stocked(u) /\ Stock(u) = Stock(v)
      /\ u.discardPile = v.discardPile /\ u.gems = v.gems
  BY <1>3, <1>4, RefillSound
<1> HIDE DEF u, link
<1>6. u.discardPile = t.discardPile \cup {link} /\ CrossesAny(link, AllOwnedLinks(owned))
  BY <1>3, <1>5 DEF link
<1>7. /\ Stock(t) \cap t.discardPile = {}
      /\ AllOwnedLinks(owned) \cap (Stock(t) \cup t.discardPile) = {}
      /\ \A s, r \in Seats : s # r => owned[s] \cap owned[r] = {}
      /\ Links = AllOwnedLinks(owned) \cup Stock(t) \cup t.discardPile
      /\ DiscardsCrossed(t, owned)
  BY DEF Sound, OnePlace
<1>8. OnePlace(u, owned)
  BY <1>4, <1>5, <1>6, <1>7 DEF OnePlace
<1>9. DiscardsCrossed(u, owned)
  BY <1>6, <1>7 DEF DiscardsCrossed
<1>10. \A s \in Seats :
         u.gems[s] = t.gems[s] + (IF CrossesAny(link, owned[s]) THEN 1 ELSE 0)
  BY <1>3, <1>5 DEF link
<1>11. \A s \in Seats : u.gems[s] >= 0
  BY <1>2, <1>10
<1>12. link \in Links \ t.discardPile
  BY <1>4, <1>7
<1> QED BY <1>1, <1>5, <1>6, <1>8, <1>9, <1>10, <1>11, <1>12 DEF Sound

(* And adds to what the sweep has paid.                                    *)
LEMMA LookPays ==
  ASSUME NEW owned \in Drawings, NEW t, t \in Table, NEW u, u \in Table, NEW w, w \in Table,
         PaidSince(t, u, owned), NEW link \in Links \ u.discardPile,
         w.discardPile = u.discardPile \cup {link},
         \A s \in Seats :
           w.gems[s] = u.gems[s] + (IF CrossesAny(link, owned[s]) THEN 1 ELSE 0)
  PROVE  PaidSince(t, w, owned)
<1>1. t.discardPile \subseteq w.discardPile
  BY DEF PaidSince
<1>2. ASSUME NEW s \in Seats
      PROVE  w.gems[s] = t.gems[s]
               + Cardinality({l \in w.discardPile \ t.discardPile : CrossesAny(l, owned[s])})
  <2> DEFINE before == {l \in u.discardPile \ t.discardPile : CrossesAny(l, owned[s])}
             after  == {l \in w.discardPile \ t.discardPile : CrossesAny(l, owned[s])}
  <2>1. before \in SUBSET Links /\ link \notin before
    BY DEF Table
  <2>2. after = IF CrossesAny(link, owned[s]) THEN before \cup {link} ELSE before
    BY DEF PaidSince
  <2>3. u.gems[s] = t.gems[s] + Cardinality(before) /\ t.gems[s] \in Int
    BY DEF PaidSince, Table
  <2> HIDE DEF before, after
  <2>4. IsFiniteSet(before) /\ Cardinality(before) \in Nat
    BY <2>1, LinksFinite
  <2>5. Cardinality(before \cup {link}) = Cardinality(before) + 1
    BY <2>1, <2>4, FS_AddElement
  <2>6. w.gems[s] = t.gems[s] + Cardinality(after)
    BY <2>2, <2>3, <2>4, <2>5
  <2> QED BY <2>6 DEF after
<1> QED BY <1>1, <1>2 DEF PaidSince

(* The looks of a sweep, one after the other.                              *)
IsSweep(f, N, t, owned) ==
  f = [n \in 0 .. N |-> IF n = 0 THEN t ELSE SweepOnce(f[n - 1], owned)]

LEMMA SweepLooks ==
  ASSUME NEW t, NEW owned
  PROVE  \E f : /\ IsSweep(f, Cardinality(Links), t, owned)
                /\ SweepUnplayable(t, owned) = f[Cardinality(Links)]
<1> DEFINE T == {M \in Nat : \E f : IsSweep(f, M, t, owned)}
           N == Cardinality(Links)
           swept[n \in 0 .. N] == IF n = 0 THEN t ELSE SweepOnce(swept[n - 1], owned)
<1>1. 0 \in T
  <2>1. IsSweep([n \in 0 .. 0 |-> t], 0, t, owned)
    BY DEF IsSweep
  <2> QED BY <2>1
<1>2. ASSUME NEW M \in Nat, M \in T PROVE M + 1 \in T
  <2>1. PICK f : IsSweep(f, M, t, owned)
    BY <1>2
  <2> DEFINE g == [n \in 0 .. M + 1 |-> IF n = M + 1 THEN SweepOnce(f[M], owned) ELSE f[n]]
  <2>2. g[0] = t
    BY <2>1 DEF IsSweep
  <2>3. ASSUME NEW n \in 1 .. M + 1 PROVE g[n] = SweepOnce(g[n - 1], owned)
    BY <2>1 DEF IsSweep
  <2>4. g = [n \in 0 .. M + 1 |-> g[n]]
    OBVIOUS
  <2> HIDE DEF g
  <2>5. \A n \in 0 .. M + 1 : g[n] = IF n = 0 THEN t ELSE SweepOnce(g[n - 1], owned)
    BY <2>2, <2>3
  <2>6. IsSweep(g, M + 1, t, owned)
    <3> DEFINE K == M + 1
    <3> HIDE DEF K
    <3>1. [n \in 0 .. K |-> g[n]]
            = [n \in 0 .. K |-> IF n = 0 THEN t ELSE SweepOnce(g[n - 1], owned)]
      BY <2>5 DEF K
    <3> QED BY <2>4, <3>1 DEF IsSweep, K
  <2> QED BY <2>6
<1>3. N \in T
  <2> HIDE DEF T
  <2> QED BY <1>1, <1>2, SetInduction, LinksFinite
<1>4. IsSweep(swept, N, t, owned)
  <2>1. \E f : f = [n \in 0 .. N |-> IF n = 0 THEN t ELSE SweepOnce(f[n - 1], owned)]
    BY <1>3 DEF IsSweep
  <2> HIDE DEF N
  <2> QED BY <2>1 DEF IsSweep
<1>5. SweepUnplayable(t, owned) = swept[N]
  BY DEF SweepUnplayable
<1> HIDE DEF swept
<1> QED BY <1>4, <1>5

(* A sweep leaves the table sound and pays for what it discards; and as    *)
(* every look discards another card until none can be found, it finds none *)
(* after as many looks as there are cards.                                 *)
LEMMA SweepSound ==
  ASSUME NEW owned \in Drawings, NEW t, Sound(t, owned)
  PROVE  LET u == SweepUnplayable(t, owned)
         IN  Sound(u, owned) /\ PaidSince(t, u, owned) /\ Unplayable(u, owned) = {}
<1> DEFINE N == Cardinality(Links)
           Swept(n, u) == /\ Sound(u, owned) /\ PaidSince(t, u, owned)
                          /\ Unplayable(u, owned) = {} \/ Cardinality(u.discardPile) >= n
<1>1. PICK f : IsSweep(f, N, t, owned) /\ SweepUnplayable(t, owned) = f[N]
  BY SweepLooks
<1>2. N \in Nat
  BY LinksFinite
<1>3. Swept(0, t)
  <2>1. t \in Table
    BY DEF Sound
  <2>2. t.discardPile \in SUBSET Links /\ \A s \in Seats : t.gems[s] \in Int
    BY <2>1 DEF Table
  <2>3. \A s \in Seats : {l \in t.discardPile \ t.discardPile : CrossesAny(l, owned[s])} = {}
    OBVIOUS
  <2>4. PaidSince(t, t, owned)
    BY <2>2, <2>3, FS_EmptySet DEF PaidSince
  <2> QED BY <2>2, <2>4, LinksFinite
<1>4. ASSUME NEW n \in Nat, NEW u, Swept(n, u)
      PROVE  Swept(n + 1, SweepOnce(u, owned))
  <2>1. CASE Unplayable(u, owned) = {}
    BY <1>4, <2>1 DEF SweepOnce
  <2>2. CASE Unplayable(u, owned) # {}
    <3> DEFINE w == SweepOnce(u, owned)
    <3>1. PICK link \in Links \ u.discardPile :
            /\ Sound(w, owned)
            /\ w.discardPile = u.discardPile \cup {link}
            /\ \A s \in Seats :
                 w.gems[s] = u.gems[s] + (IF CrossesAny(link, owned[s]) THEN 1 ELSE 0)
      BY <1>4, <2>2, LookSound
    <3> HIDE DEF w
    <3>2. t \in Table /\ u \in Table /\ w \in Table
      BY <1>4, <3>1 DEF Sound
    <3>3. PaidSince(t, w, owned)
      BY <1>4, <3>1, <3>2, LookPays
    <3>4. u.discardPile \in SUBSET Links
      BY <3>2 DEF Table
    <3>5. Cardinality(w.discardPile) = Cardinality(u.discardPile) + 1
      BY <3>1, <3>4, LinksFinite, FS_AddElement
    <3>6. Cardinality(w.discardPile) >= n + 1
      BY <1>4, <2>2, <3>4, <3>5, LinksFinite
    <3> QED BY <3>1, <3>3, <3>6 DEF w
  <2> QED BY <2>1, <2>2
<1> HIDE DEF N, Swept
<1>5. \A n \in 0 .. N : Swept(n, f[n])
  <2> DEFINE T == {n \in Nat : n <= N => Swept(n, f[n])}
  <2>1. 0 \in T
    BY <1>1, <1>2, <1>3 DEF IsSweep
  <2>2. ASSUME NEW n \in Nat, n \in T PROVE n + 1 \in T
    <3> SUFFICES ASSUME n + 1 <= N PROVE Swept(n + 1, f[n + 1])
      OBVIOUS
    <3>1. n + 1 \in 0 .. N /\ n + 1 # 0 /\ (n + 1) - 1 = n /\ n <= N
      BY <1>2
    <3>2. f[n + 1] = SweepOnce(f[n], owned)
      BY <1>1, <3>1 DEF IsSweep
    <3> QED BY <1>4, <2>2, <3>1, <3>2
  <2>3. \A n \in Nat : n \in T
    <3> HIDE DEF T
    <3> QED BY <2>1, <2>2, SetInduction
  <2> QED BY <1>2, <2>3
<1> DEFINE u == f[N]
<1>6. Swept(N, u)
  BY <1>2, <1>5
<1> HIDE DEF u
<1>7. Unplayable(u, owned) = {}
  <2> SUFFICES ASSUME Unplayable(u, owned) # {} PROVE FALSE
    OBVIOUS
  <2>1. u \in Table /\ Cardinality(u.discardPile) >= N
    BY <1>6 DEF Swept, Sound
  <2>2. u.discardPile \in SUBSET Links
    BY <2>1 DEF Table
  <2>3. Cardinality(u.discardPile) <= N
    BY <2>2, LinksFinite, FS_Subset DEF N
  <2>4. Cardinality(u.discardPile) = Cardinality(Links)
    BY <1>2, <2>1, <2>2, <2>3, LinksFinite DEF N
  <2>5. u.discardPile = Links
    BY <2>2, <2>4, LinksFinite, FS_Subset
  <2>6. PICK link \in Links \ u.discardPile : TRUE
    BY <1>6, LookSound DEF Swept
  <2> QED BY <2>5, <2>6
<1> QED BY <1>1, <1>6, <1>7 DEF u, Swept
-----------------------------------------------------------------------------
(* Prices and crossings                                                    *)

LEMMA LineFacts ==
  ASSUME NEW link \in Links
  PROVE  IsFiniteSet(link) /\ link # {}
<1>1. PICK a, b \in Nodes : link = {a, b}
  BY MapAssumption
<1>2. IsFiniteSet({a} \cup {b})
  BY FS_Singleton, FS_Union
<1>3. {a} \cup {b} = link
  BY <1>1
<1> QED BY <1>1, <1>2, <1>3

LEMMA SeatFacts ==
  IsFiniteSet(Seats) /\ \A s \in Seats : NextSeat(s) \in Seats
<1>1. NumSeats \in Nat \ {0}
  BY SeatsAssumption
<1>2. IsFiniteSet(1 .. NumSeats)
  BY <1>1, FS_Interval
<1>3. ASSUME NEW s \in Seats PROVE NextSeat(s) \in Seats
  <2>1. s % NumSeats \in 0 .. NumSeats - 1
    BY <1>1 DEF Seats
  <2> QED BY <1>1, <2>1 DEF NextSeat, Seats
<1> QED BY <1>2, <1>3 DEF Seats

(* What a buyer pays and what the others get are numbers of gems.          *)
LEMMA PriceType ==
  ASSUME NEW link \in Links
  PROVE  EffectiveCost(link) \in Nat /\ \A s \in Seats : PresenceFee(s, link) \in Nat
<1>1. IsFiniteSet(Seats) /\ IsFiniteSet(link)
  BY SeatFacts, LineFacts
<1>2. BaseCost[link] \in Nat
  BY MapAssumption
<1> DEFINE present == {p \in Seats \X link : IsPresent(p[1], p[2])}
<1>3. IsFiniteSet(Seats \X link)
  BY <1>1, FS_Product
<1>4. present \in SUBSET (Seats \X link)
  OBVIOUS
<1> HIDE DEF present
<1>5. Cardinality(present) \in Nat
  BY <1>3, <1>4, FS_Subset, FS_CardinalityType
<1>6. EffectiveCost(link) \in Nat
  BY <1>2, <1>5 DEF EffectiveCost, present
<1>7. ASSUME NEW s \in Seats PROVE PresenceFee(s, link) \in Nat
  <2> DEFINE ends == {n \in link : IsPresent(s, n)}
  <2>1. ends \in SUBSET link
    OBVIOUS
  <2> HIDE DEF ends
  <2>2. Cardinality(ends) \in Nat
    BY <1>1, <2>1, FS_Subset, FS_CardinalityType
  <2> QED BY <2>2 DEF PresenceFee, ends
<1> QED BY <1>6, <1>7

LEMMA CrossesSymmetric ==
  /\ \A l, m \in Links : <<l, m>> \in Crosses => <<m, l>> \in Crosses
  /\ \A l \in Links : <<l, l>> \notin Crosses
<1>1. ASSUME NEW l \in Links, NEW m \in Links, <<l, m>> \in Crosses
      PROVE  <<m, l>> \in Crosses
  <2>1. PICK p, q \in l, r, s \in m : p # q /\ r # s /\ SegmentsCross(p, q, r, s)
    BY <1>1 DEF Crosses
  <2>2. SegmentsCross(r, s, p, q)
    BY <2>1 DEF SegmentsCross
  <2>3. m \cap l = {}
    BY <1>1 DEF Crosses
  <2> QED BY <2>1, <2>2, <2>3 DEF Crosses
<1>2. ASSUME NEW l \in Links PROVE <<l, l>> \notin Crosses
  BY LineFacts DEF Crosses
<1> QED BY <1>1, <1>2

-----------------------------------------------------------------------------
(* A purchase                                                              *)

(* Nothing on display crosses a line of the map.                           *)
Playable(t, owned) == Unplayable(t, owned) = {}

DrawnLines(seat, link) == [ownedLinks EXCEPT ![seat] = @ \cup {link}]

LEMMA DrawnLinesFacts ==
  ASSUME ownedLinks \in Drawings, NEW seat \in Seats, NEW link \in Links
  PROVE  /\ DrawnLines(seat, link) \in Drawings
         /\ AllOwnedLinks(DrawnLines(seat, link)) = AllOwnedLinks(ownedLinks) \cup {link}
         /\ \A s \in Seats : DrawnLines(seat, link)[s] =
              IF s = seat THEN ownedLinks[s] \cup {link} ELSE ownedLinks[s]
<1>1. DrawnLines(seat, link) \in Drawings
  BY DEF DrawnLines, Drawings
<1>2. \A s \in Seats : DrawnLines(seat, link)[s] =
        IF s = seat THEN ownedLinks[s] \cup {link} ELSE ownedLinks[s]
  BY DEF DrawnLines, Drawings
<1> QED BY <1>1, <1>2 DEF AllOwnedLinks

LEMMA PaidForFacts ==
  ASSUME table \in Table, \A s \in Seats : table.gems[s] >= 0,
         NEW seat \in Seats, NEW slot \in Slots,
         NEW link \in Links, link = table.display[slot], Affords(seat, link)
  PROVE  LET u == PaidFor(table, seat, slot)
         IN  /\ u \in Table /\ \A s \in Seats : u.gems[s] >= 0
             /\ u.display = [table.display EXCEPT ![slot] = None] /\ u.deck = table.deck
             /\ u.discardPile = table.discardPile
             /\ \A s \in Seats :
                  u.gems[s] = table.gems[s] + (IF s = seat THEN -EffectiveCost(link)
                                               ELSE PresenceFee(s, link))
<1> DEFINE D == [table.display EXCEPT ![slot] = None]
           gems == [s \in Seats |-> IF s = seat THEN table.gems[s] - EffectiveCost(link)
                                    ELSE table.gems[s] + PresenceFee(s, link)]
           u == PaidFor(table, seat, slot)
<1>1. u = [table EXCEPT !.display = D, !.gems = gems]
  BY DEF PaidFor
<1> HIDE DEF u
<1>2. /\ table.display \in [Slots -> Links \cup {None}] /\ table.deck \in Seq(Links)
      /\ table.discardPile \in SUBSET Links /\ table.gems \in [Seats -> Int]
  BY DEF Table
<1>3. EffectiveCost(link) \in Nat /\ \A s \in Seats : PresenceFee(s, link) \in Nat
  BY PriceType
<1>4. table.gems[seat] >= EffectiveCost(link)
  BY DEF Affords
<1>5. D \in [Slots -> Links \cup {None}]
  BY <1>2
<1>6. /\ gems \in [Seats -> Int]
      /\ \A s \in Seats :
           /\ gems[s] >= 0
           /\ gems[s] = table.gems[s] + (IF s = seat THEN -EffectiveCost(link)
                                         ELSE PresenceFee(s, link))
  BY <1>2, <1>3, <1>4
<1> HIDE DEF D, gems
<1>7. /\ u \in Table /\ u.display = D /\ u.deck = table.deck
      /\ u.discardPile = table.discardPile /\ u.gems = gems
  BY <1>1, <1>2, <1>5, <1>6 DEF Table
<1> QED BY <1>6, <1>7 DEF D, u

(* A line drawn from a display that is playable crosses none.              *)
LEMMA PurchaseCrossesNone ==
  ASSUME ownedLinks \in Drawings, table \in Table, Playable(table, ownedLinks), NoCrossing,
         NEW seat \in Seats, NEW slot \in Slots,
         NEW link \in Links, link = table.display[slot]
  PROVE  \A l, m \in AllOwnedLinks(DrawnLines(seat, link)) : <<l, m>> \notin Crosses
<1>1. AllOwnedLinks(DrawnLines(seat, link)) = AllOwnedLinks(ownedLinks) \cup {link}
  BY DrawnLinesFacts
<1>2. AllOwnedLinks(ownedLinks) \subseteq Links
  BY DEF AllOwnedLinks, Drawings
<1>3. \A d \in AllOwnedLinks(ownedLinks) : <<link, d>> \notin Crosses
  BY NoneIsNoLink DEF Playable, Unplayable, CrossesAny
<1> QED BY <1>1, <1>2, <1>3, CrossesSymmetric DEF NoCrossing

(* The table after a purchase, its refill and its sweep.                   *)
LEMMA PurchaseSound ==
  ASSUME ownedLinks \in Drawings, Sound(table, ownedLinks), Playable(table, ownedLinks),
         NEW seat \in Seats, NEW slot \in Slots,
         table.display[slot] # None, Affords(seat, table.display[slot])
  PROVE  LET link  == table.display[slot]
             drawn == DrawnLines(seat, link)
             u     == SweepUnplayable(RefillDisplay(PaidFor(table, seat, slot)), drawn)
         IN  /\ link \in Links \ AllOwnedLinks(ownedLinks)
             /\ drawn \in Drawings
             /\ Sound(u, drawn) /\ Playable(u, drawn)
             /\ table.discardPile \subseteq u.discardPile
             /\ \A s \in Seats :
                  u.gems[s] = table.gems[s]
                    + (IF s = seat THEN -EffectiveCost(link) ELSE PresenceFee(s, link))
                    + Cardinality({l \in u.discardPile \ table.discardPile :
                                     CrossesAny(l, drawn[s])})
<1> DEFINE link  == table.display[slot]
           drawn == DrawnLines(seat, link)
           v == PaidFor(table, seat, slot)
           w == RefillDisplay(v)
           u == SweepUnplayable(w, drawn)
<1>1. /\ table \in Table /\ \A s \in Seats : table.gems[s] >= 0
      /\ Distinct(table) /\ Stocked(table)
  BY DEF Sound, OnePlace
<1>2. link \in Links
  BY <1>1 DEF Table
<1>3. /\ v \in Table /\ \A s \in Seats : v.gems[s] >= 0
      /\ v.display = [table.display EXCEPT ![slot] = None] /\ v.deck = table.deck
      /\ v.discardPile = table.discardPile
      /\ \A s \in Seats :
           v.gems[s] = table.gems[s] + (IF s = seat THEN -EffectiveCost(link)
                                        ELSE PresenceFee(s, link))
  BY <1>1, <1>2, PaidForFacts
<1> HIDE DEF v
<1>4. /\ Distinct(v) /\ OneGap(v) /\ Stock(v) = Stock(table) \ {link} /\ link \in Stock(table)
  BY <1>1, <1>3, Taken
<1>5. /\ w \in Table /\ Distinct(w) /\ Stocked(w) /\ Stock(w) = Stock(v)
      /\ w.discardPile = v.discardPile /\ w.gems = v.gems
  BY <1>3, <1>4, RefillSound
<1> HIDE DEF w, link
<1>6. /\ drawn \in Drawings
      /\ AllOwnedLinks(drawn) = AllOwnedLinks(ownedLinks) \cup {link}
      /\ \A s \in Seats : drawn[s] =
           IF s = seat THEN ownedLinks[s] \cup {link} ELSE ownedLinks[s]
  BY <1>2, DrawnLinesFacts
<1> HIDE DEF drawn
<1>7. /\ Stock(table) \cap table.discardPile = {}
      /\ AllOwnedLinks(ownedLinks) \cap (Stock(table) \cup table.discardPile) = {}
      /\ \A s, r \in Seats : s # r => ownedLinks[s] \cap ownedLinks[r] = {}
      /\ Links = AllOwnedLinks(ownedLinks) \cup Stock(table) \cup table.discardPile
      /\ DiscardsCrossed(table, ownedLinks)
  BY DEF Sound, OnePlace
<1>8. \A s \in Seats : link \notin ownedLinks[s]
  BY <1>4, <1>7 DEF AllOwnedLinks
<1>9. OnePlace(w, drawn)
  <2>1. \A s, r \in Seats : s # r => drawn[s] \cap drawn[r] = {}
    BY <1>6, <1>7, <1>8
  <2>2. /\ Stock(w) \cap w.discardPile = {}
        /\ AllOwnedLinks(drawn) \cap (Stock(w) \cup w.discardPile) = {}
        /\ Links = AllOwnedLinks(drawn) \cup Stock(w) \cup w.discardPile
    BY <1>3, <1>4, <1>5, <1>6, <1>7
  <2> QED BY <1>5, <2>1, <2>2 DEF OnePlace
<1>10. DiscardsCrossed(w, drawn)
  BY <1>3, <1>5, <1>6, <1>7 DEF DiscardsCrossed, CrossesAny
<1>11. Sound(w, drawn)
  BY <1>3, <1>5, <1>9, <1>10 DEF Sound
<1>12. Sound(u, drawn) /\ PaidSince(w, u, drawn) /\ Unplayable(u, drawn) = {}
  BY <1>6, <1>11, SweepSound
<1> HIDE DEF u
<1>13. link \in Links \ AllOwnedLinks(ownedLinks)
  BY <1>2, <1>4, <1>7
<1>14. w.discardPile = table.discardPile
  BY <1>3, <1>5
<1>15. \A s \in Seats :
         u.gems[s] = table.gems[s]
           + (IF s = seat THEN -EffectiveCost(link) ELSE PresenceFee(s, link))
           + Cardinality({l \in u.discardPile \ table.discardPile : CrossesAny(l, drawn[s])})
  <2> TAKE s \in Seats
  <2>1. w.gems[s] = table.gems[s] + (IF s = seat THEN -EffectiveCost(link)
                                     ELSE PresenceFee(s, link))
    BY <1>3, <1>5
  <2>2. u.gems[s] = w.gems[s]
          + Cardinality({l \in u.discardPile \ table.discardPile : CrossesAny(l, drawn[s])})
    BY <1>12, <1>14 DEF PaidSince
  <2> QED BY <2>1, <2>2
<1>16. table.discardPile \subseteq u.discardPile
  BY <1>12, <1>14 DEF PaidSince
<1> QED BY <1>6, <1>12, <1>13, <1>15, <1>16 DEF u, w, v, drawn, link, Playable
-----------------------------------------------------------------------------
(* The invariant                                                           *)

(* What holds between moves.  That lines do not cross rests on the display *)
(* being playable, and that on every sweep having started from a table on  *)
(* which no card was doubled or lost: otherwise it would discard a card it *)
(* has discarded before, and nothing would bound the looks it takes.       *)
GameInv ==
  /\ TypeOK /\ Sound(table, ownedLinks) /\ Playable(table, ownedLinks) /\ NoCrossing

LEMMA DealtFacts ==
  ASSUME NEW cards \in Shuffles
  PROVE  /\ cards \in Seq(Links) /\ Len(cards) \in Nat /\ Len(cards) >= 6
         /\ \A i \in 1 .. Len(cards) : cards[i] \in Links
         /\ \A i, j \in 1 .. Len(cards) : cards[i] = cards[j] => i = j
         /\ \A l \in Links : \E i \in 1 .. Len(cards) : cards[i] = l
<1> DEFINE n == Len(cards)
<1>1. /\ cards \in Seq(Links) /\ n = Cardinality(Links) /\ n >= 6
      /\ \A l \in Links : \E i \in 1 .. n : cards[i] = l
  BY ShufflesAssumption
<1>2. n \in Nat /\ cards \in [1 .. n -> Links]
  BY <1>1, LenProperties
<1> HIDE DEF n
<1>3. cards \in Surjection(1 .. n, Links)
  BY <1>1, <1>2 DEF Surjection
<1>4. IsFiniteSet(1 .. n) /\ Cardinality(1 .. n) = n
  BY <1>2, FS_Interval
<1>5. cards \in Injection(1 .. n, Links)
  BY <1>1, <1>3, <1>4, FS_SurjSameCardinalityImpliesInj
<1>6. \A i, j \in 1 .. n : cards[i] = cards[j] => i = j
  BY <1>2, <1>5 DEF Injection, IsInjective
<1> QED BY <1>1, <1>2, <1>6 DEF n

LEMMA GameInit == Init => GameInv
<1> SUFFICES ASSUME NEW cards \in Shuffles, DealGame(cards)
             PROVE  GameInv
  BY DEF Init
<1> DEFINE n == Len(cards)
           rest == SubSeq(cards, 7, n)
           D == [c \in Slots |-> cards[c]]
           gems == [s \in Seats |-> FirstGems + s - 1]
<1>1. /\ cards \in Seq(Links) /\ n \in Nat /\ n >= 6
      /\ \A i \in 1 .. n : cards[i] \in Links
      /\ \A i, j \in 1 .. n : cards[i] = cards[j] => i = j
      /\ \A l \in Links : \E i \in 1 .. n : cards[i] = l
  BY DealtFacts
<1> HIDE DEF n
<1>2. rest \in Seq(Links) /\ Len(rest) = n - 6 /\ \A i \in 1 .. n - 6 : rest[i] = cards[i + 6]
  <2>1. 7 \in Int /\ n \in Int /\ \A i \in 7 .. n : cards[i] \in Links
    BY <1>1
  <2> DEFINE m == 7
  <2>2. m \in Int /\ \A i \in m .. n : cards[i] \in Links
    BY <2>1
  <2> HIDE DEF m
  <2>3. /\ SubSeq(cards, m, n) \in Seq(Links)
        /\ Len(SubSeq(cards, m, n)) = IF m <= n THEN n - m + 1 ELSE 0
        /\ \A i \in 1 .. n - m + 1 : SubSeq(cards, m, n)[i] = cards[m + i - 1]
    BY <2>1, <2>2, SubSeqProperties
  <2>4. \A i \in 1 .. n - 6 : i \in 1 .. n - m + 1 /\ m + i - 1 = i + 6
    BY <1>1 DEF m
  <2>5. (IF m <= n THEN n - m + 1 ELSE 0) = n - 6
    BY <1>1 DEF m
  <2> QED BY <2>3, <2>4, <2>5 DEF m
<1>3. /\ ownedLinks = [s \in Seats |-> {}]
      /\ table = [display |-> D, deck |-> rest, discardPile |-> {}, gems |-> gems]
      /\ activeSeat = 1 /\ phase = "playing" /\ winner = {}
  BY DEF DealGame, n
<1> HIDE DEF rest
<1>4. D \in [Slots -> Links] /\ \A c \in Slots : D[c] = cards[c]
  BY <1>1
<1>5. gems \in [Seats -> Int] /\ \A s \in Seats : gems[s] >= 0
  BY GemsAssumption DEF Seats
<1> HIDE DEF D, gems
<1>6. table \in Table /\ \A s \in Seats : table.gems[s] >= 0
  BY <1>2, <1>3, <1>4, <1>5 DEF Table
<1>7. table.display = D /\ table.deck = rest /\ table.discardPile = {}
  BY <1>3
<1>8. Places(table) = 1 .. n /\ \A p \in 1 .. n : Card(table, p) = cards[p]
  <2>1. Places(table) = 1 .. n
    BY <1>1, <1>2, <1>7 DEF Places
  <2>2. ASSUME NEW p \in 1 .. n PROVE Card(table, p) = cards[p]
    <3>1. CASE p <= 6
      BY <1>4, <1>7, <2>2, <3>1 DEF Card
    <3>2. CASE ~ (p <= 6)
      <4>1. p - 6 \in 1 .. n - 6 /\ (p - 6) + 6 = p
        BY <1>1, <3>2
      <4> QED BY <1>2, <1>7, <3>2, <4>1 DEF Card
    <3> QED BY <3>1, <3>2
  <2> QED BY <2>1, <2>2
<1>9. Distinct(table) /\ Stock(table) = Links
  BY <1>1, <1>8, NoneIsNoLink DEF Distinct, Stock
<1>10. AllOwnedLinks(ownedLinks) = {}
  BY <1>3 DEF AllOwnedLinks
<1>11. OnePlace(table, ownedLinks) /\ DiscardsCrossed(table, ownedLinks)
  BY <1>3, <1>7, <1>9, <1>10 DEF OnePlace, DiscardsCrossed
<1>12. Stocked(table)
  BY <1>4, <1>7, NoneIsNoLink DEF Stocked
<1>13. Playable(table, ownedLinks) /\ NoCrossing
  BY <1>10 DEF Playable, Unplayable, CrossesAny, NoCrossing
<1>14. TypeOK
  <2>1. 1 \in Seats
    BY SeatsAssumption DEF Seats
  <2> QED BY <1>3, <1>6, <2>1 DEF TypeOK
<1> QED BY <1>6, <1>11, <1>12, <1>13, <1>14 DEF GameInv, Sound

LEMMA PassSound ==
  ASSUME GameInv, NEW seat \in Seats, Pass(seat)
  PROVE  GameInv'
<1>1. /\ table \in Table /\ OnePlace(table, ownedLinks) /\ Stocked(table)
      /\ DiscardsCrossed(table, ownedLinks) /\ \A s \in Seats : table.gems[s] >= 0
  BY DEF GameInv, Sound
<1>2. table' = [table EXCEPT !.gems[seat] = @ + 4] /\ UNCHANGED <<ownedLinks, phase, winner>>
  BY DEF Pass
<1>3. table.gems \in [Seats -> Int]
  BY <1>1 DEF Table
<1>4. /\ table' \in Table /\ \A s \in Seats : table'.gems[s] >= 0
      /\ table'.display = table.display /\ table'.deck = table.deck
      /\ table'.discardPile = table.discardPile
  <2> DEFINE gems == [table.gems EXCEPT ![seat] = @ + 4]
  <2>1. gems \in [Seats -> Int] /\ \A s \in Seats : gems[s] >= 0
    BY <1>1, <1>3
  <2>2. table' = [table EXCEPT !.gems = gems]
    BY <1>2
  <2> HIDE DEF gems
  <2>3. /\ table' \in Table /\ table'.gems = gems
        /\ table'.display = table.display /\ table'.deck = table.deck
        /\ table'.discardPile = table.discardPile
    BY <1>1, <2>1, <2>2 DEF Table
  <2> QED BY <2>1, <2>3
<1>5. Stock(table') = Stock(table) /\ Distinct(table')
  BY <1>1, <1>4 DEF OnePlace, Stock, Distinct, Places, Card
<1>6. Sound(table, ownedLinks)'
  BY <1>1, <1>2, <1>4, <1>5
  DEF Sound, OnePlace, Stocked, DiscardsCrossed, AllOwnedLinks, CrossesAny
<1>7. Playable(table, ownedLinks)' /\ NoCrossing'
  BY <1>2, <1>4 DEF GameInv, Playable, Unplayable, NoCrossing, AllOwnedLinks, CrossesAny
<1>8. TypeOK'
  BY <1>2, <1>4, SeatFacts DEF GameInv, TypeOK, Pass
<1> QED BY <1>6, <1>7, <1>8 DEF GameInv

LEMMA BuyLinkFacts ==
  ASSUME GameInv, NEW seat \in Seats, NEW slot \in TopRow, BuyLink(seat, slot)
  PROVE  LET link == table.display[slot]
         IN  /\ link \in Links \ AllOwnedLinks(ownedLinks)
             /\ ownedLinks' = DrawnLines(seat, link) /\ ownedLinks' \in Drawings
             /\ Sound(table', ownedLinks') /\ Playable(table', ownedLinks')
             /\ table.discardPile \subseteq table'.discardPile
             /\ \A s \in Seats :
                  table'.gems[s] = table.gems[s]
                    + (IF s = seat THEN -EffectiveCost(link) ELSE PresenceFee(s, link))
                    + Cardinality({l \in table'.discardPile \ table.discardPile :
                                     CrossesAny(l, ownedLinks'[s])})
             /\ NoCrossing'
<1> DEFINE link  == table.display[slot]
           drawn == DrawnLines(seat, link)
           u     == SweepUnplayable(RefillDisplay(PaidFor(table, seat, slot)), drawn)
<1>1. link # None /\ Affords(seat, link) /\ ownedLinks' = drawn /\ table' = u
  BY DEF BuyLink, DrawnLines
<1>2. ownedLinks \in Drawings /\ Sound(table, ownedLinks) /\ Playable(table, ownedLinks)
      /\ NoCrossing
  BY DEF GameInv, TypeOK, Drawings
<1>3. slot \in Slots /\ table \in Table
  BY <1>2 DEF Sound
<1>4. /\ link \in Links \ AllOwnedLinks(ownedLinks)
      /\ drawn \in Drawings
      /\ Sound(u, drawn) /\ Playable(u, drawn)
      /\ table.discardPile \subseteq u.discardPile
      /\ \A s \in Seats :
           u.gems[s] = table.gems[s]
             + (IF s = seat THEN -EffectiveCost(link) ELSE PresenceFee(s, link))
             + Cardinality({l \in u.discardPile \ table.discardPile :
                              CrossesAny(l, drawn[s])})
  BY <1>1, <1>2, <1>3, PurchaseSound
<1>5. \A l, m \in AllOwnedLinks(drawn) : <<l, m>> \notin Crosses
  BY <1>2, <1>3, <1>4, PurchaseCrossesNone
<1> HIDE DEF drawn, u, link
<1>6. NoCrossing'
  BY <1>1, <1>5 DEF NoCrossing
<1> QED BY <1>1, <1>4, <1>6 DEF drawn, link

(* The operators of the invariant, at the primed variables.                *)
LEMMA Primed ==
  ASSUME Sound(table', ownedLinks'), Playable(table', ownedLinks')
  PROVE  Sound(table, ownedLinks)' /\ Playable(table, ownedLinks)'
BY DEF Sound, OnePlace, Distinct, Stock, Places, Card, Stocked, DiscardsCrossed, Playable,
       Unplayable, AllOwnedLinks, CrossesAny

LEMMA BuyLinkSound ==
  ASSUME GameInv, NEW seat \in Seats, NEW slot \in TopRow, BuyLink(seat, slot)
  PROVE  GameInv'
<1>1. /\ ownedLinks' \in Drawings /\ Sound(table', ownedLinks')
      /\ Playable(table', ownedLinks') /\ NoCrossing'
  BY BuyLinkFacts
<1>2. Sound(table, ownedLinks)' /\ Playable(table, ownedLinks)'
  BY <1>1, Primed
<1>3. ApplyGameEndIfDone(seat)
  BY DEF BuyLink
<1>4. /\ activeSeat' \in Seats /\ phase' \in {"playing", "ended"} /\ winner' \in SUBSET Seats
  <2>1. activeSeat \in Seats /\ phase \in {"playing", "ended"} /\ winner \in SUBSET Seats
    BY DEF GameInv, TypeOK
  <2>2. DetermineWinners(ownedLinks', table'.gems) \subseteq Seats
    BY DEF DetermineWinners
  <2>3. CASE IsGameOver(table')
    BY <1>3, <2>1, <2>2, <2>3 DEF ApplyGameEndIfDone
  <2>4. CASE ~ IsGameOver(table')
    BY <1>3, <2>1, <2>4, SeatFacts DEF ApplyGameEndIfDone
  <2> QED BY <2>3, <2>4
<1>5. TypeOK'
  BY <1>1, <1>4 DEF TypeOK, Sound, Drawings
<1> QED BY <1>1, <1>2, <1>5 DEF GameInv

LEMMA GameStep == GameInv /\ [Next]_vars => GameInv'
<1> SUFFICES ASSUME GameInv, [Next]_vars
             PROVE  GameInv'
  OBVIOUS
<1>1. CASE \E seat \in Seats : Pass(seat)
  BY <1>1, PassSound
<1>2. CASE \E seat \in Seats, slot \in TopRow : BuyLink(seat, slot)
  BY <1>2, BuyLinkSound
<1>3. CASE UNCHANGED vars
  <2>1. UNCHANGED <<ownedLinks, table, activeSeat, phase, winner>>
    BY <1>3 DEF vars
  <2>2. Sound(table', ownedLinks') /\ Playable(table', ownedLinks')
    BY <2>1 DEF GameInv
  <2>3. NoCrossing'
    BY <2>1 DEF GameInv, AllOwnedLinks, NoCrossing
  <2>4. TypeOK'
    BY <2>1 DEF GameInv, TypeOK
  <2> QED BY <2>2, <2>3, <2>4, Primed DEF GameInv
<1> QED BY <1>1, <1>2, <1>3 DEF Next, Finished

(* Every variable keeps its type: nobody's gems fall below zero, the       *)
(* display and the deck hold cards of the map, and the seat to move is a   *)
(* seat of the game.                                                       *)
THEOREM TypeCorrect == Spec => []TypeOK
<1>1. GameInv => TypeOK
  BY DEF GameInv
<1> QED BY <1>1, GameInit, GameStep, PTL DEF Spec

(* After every move no two lines on the map cross, the display holds only  *)
(* cards that can be drawn, none is missing while the deck has cards, and  *)
(* no card was discarded that could have been drawn: sweepUnplayable ends, *)
(* and leaves nothing to find (display.ts:42).                             *)
THEOREM DisplayAlwaysSound == Spec => []DisplaySound
<1>1. GameInv => DisplaySound
  <2> SUFFICES ASSUME GameInv PROVE DisplaySound
    OBVIOUS
  <2>1. DisplayPlayable
    <3> SUFFICES ASSUME NEW c \in Slots, NEW s \in Seats, NEW l \in ownedLinks[s]
                 PROVE  <<table.display[c], l>> \notin Crosses
      BY DEF DisplayPlayable
    <3>1. l \in AllOwnedLinks(ownedLinks)
      BY DEF AllOwnedLinks
    <3>2. CASE table.display[c] = None
      BY <3>2, NoneIsNoLink DEF Crosses
    <3>3. CASE table.display[c] # None
      BY <3>1, <3>3 DEF GameInv, Playable, Unplayable, CrossesAny
    <3> QED BY <3>2, <3>3
  <2>2. DisplayStocked
    BY DEF GameInv, Sound, Stocked, DisplayStocked
  <2>3. DiscardsCross
    BY DEF GameInv, Sound, DiscardsCrossed, DiscardsCross
  <2> QED BY <2>1, <2>2, <2>3 DEF GameInv, DisplaySound
<1> QED BY <1>1, GameInit, GameStep, PTL DEF Spec

LEMMA OnceIsOne ==
  ASSUME NEW S, \A a, b \in S : a = b
  PROVE  Cardinality(S) = IF S = {} THEN 0 ELSE 1
<1>1. CASE S = {}
  BY <1>1, FS_EmptySet
<1>2. CASE S # {}
  <2>1. PICK a \in S : S = {a}
    BY <1>2
  <2> QED BY <1>2, <2>1, FS_Singleton
<1> QED BY <1>1, <1>2

(* A card is drawn by one seat, on display in one slot, at one place of    *)
(* the deck or discarded, and never in two of these places or in none.     *)
THEOREM CardsStayInOnePlace == Spec => []CardsConserved
<1>1. GameInv => CardsConserved
  <2> SUFFICES ASSUME GameInv, NEW l \in Links
               PROVE  Cardinality({s \in Seats : l \in ownedLinks[s]})
                        + Cardinality({c \in Slots : table.display[c] = l})
                        + Cardinality({i \in 1 .. Len(table.deck) : table.deck[i] = l})
                        + Cardinality({d \in table.discardPile : d = l}) = 1
    BY DEF CardsConserved
  <2> DEFINE owners == {s \in Seats : l \in ownedLinks[s]}
             shown  == {c \in Slots : table.display[c] = l}
             below  == {i \in 1 .. Len(table.deck) : table.deck[i] = l}
             thrown == {d \in table.discardPile : d = l}
  <2>1. /\ table \in Table /\ Distinct(table)
        /\ Stock(table) \cap table.discardPile = {}
        /\ AllOwnedLinks(ownedLinks) \cap (Stock(table) \cup table.discardPile) = {}
        /\ \A s, r \in Seats : s # r => ownedLinks[s] \cap ownedLinks[r] = {}
        /\ Links = AllOwnedLinks(ownedLinks) \cup Stock(table) \cup table.discardPile
    BY DEF GameInv, Sound, OnePlace
  <2>2. l # None /\ Len(table.deck) \in Nat
    BY <2>1, NoneIsNoLink, DeckFacts
  <2>3. \A c \in Slots : c \in Places(table) /\ Card(table, c) = table.display[c]
    BY <2>2 DEF Places, Card
  <2>4. \A i \in 1 .. Len(table.deck) :
          i + 6 \in Places(table) /\ Card(table, i + 6) = table.deck[i] /\ i + 6 \notin Slots
    BY <2>2 DEF Places, Card
  <2>5. \A p \in Places(table) : p \in Slots \/ p - 6 \in 1 .. Len(table.deck)
    BY <2>2 DEF Places
  <2>6. \A a, b \in owners : a = b
    BY <2>1
  <2>7. \A a, b \in shown : a = b
    BY <2>1, <2>2, <2>3 DEF Distinct
  <2>8. \A a, b \in below : a = b
    <3> TAKE a, b \in below
    <3>1. a + 6 = b + 6
      BY <2>1, <2>2, <2>4 DEF Distinct
    <3> QED BY <3>1
  <2>9. \A a, b \in thrown : a = b
    OBVIOUS
  <2>10. shown = {} \/ below = {}
    <3> SUFFICES ASSUME NEW c \in shown, NEW i \in below PROVE FALSE
      OBVIOUS
    <3>1. c = i + 6
      BY <2>1, <2>2, <2>3, <2>4 DEF Distinct
    <3> QED BY <2>4, <3>1
  <2>11. l \in Stock(table) <=> shown # {} \/ below # {}
    <3>1. shown # {} => l \in Stock(table)
      BY <2>2, <2>3 DEF Stock
    <3>2. below # {} => l \in Stock(table)
      BY <2>2, <2>4 DEF Stock
    <3>3. ASSUME l \in Stock(table) PROVE shown # {} \/ below # {}
      <4>1. PICK p \in Places(table) : Card(table, p) = l
        BY <3>3 DEF Stock
      <4>2. CASE p \in Slots
        BY <2>3, <4>1, <4>2
      <4>3. CASE p \notin Slots
        <5>1. p - 6 \in 1 .. Len(table.deck) /\ (p - 6) + 6 = p
          BY <2>2, <2>5, <4>3 DEF Places
        <5>2. p - 6 \in below
          BY <2>4, <4>1, <5>1
        <5> QED BY <5>2
      <4> QED BY <4>2, <4>3
    <3> QED BY <3>1, <3>2, <3>3
  <2>12. l \in AllOwnedLinks(ownedLinks) <=> owners # {}
    BY DEF AllOwnedLinks
  <2>13. l \in table.discardPile <=> thrown # {}
    OBVIOUS
  <2> HIDE DEF owners, shown, below, thrown
  <2>14. /\ Cardinality(owners) = IF owners = {} THEN 0 ELSE 1
         /\ Cardinality(shown) = IF shown = {} THEN 0 ELSE 1
         /\ Cardinality(below) = IF below = {} THEN 0 ELSE 1
         /\ Cardinality(thrown) = IF thrown = {} THEN 0 ELSE 1
    BY <2>6, <2>7, <2>8, <2>9, OnceIsOne
  <2>15. Cardinality(owners) + Cardinality(shown) + Cardinality(below) + Cardinality(thrown) = 1
    BY <2>1, <2>10, <2>11, <2>12, <2>13, <2>14
  <2> QED BY <2>15 DEF owners, shown, below, thrown
<1> QED BY <1>1, GameInit, GameStep, PTL DEF Spec

(* A purchase moves the gems it says: the buyer pays the price shown       *)
(* before the move, every other seat receives its fees, and each card the  *)
(* sweep discards pays one gem to every owner of a line it crosses.        *)
THEOREM GemsAreAccounted == Spec => GemsAccounted
<1>1. ASSUME GameInv, [Next]_vars, NEW seat \in Seats
      PROVE  PurchaseAccounted(seat)
  <2> DEFINE bought == ownedLinks'[seat] \ ownedLinks[seat]
  <2>1. CASE ownedLinks' = ownedLinks
    BY <2>1 DEF PurchaseAccounted
  <2>2. ASSUME NEW buyer \in Seats, NEW slot \in TopRow, BuyLink(buyer, slot)
        PROVE  PurchaseAccounted(seat)
    <3> DEFINE card == table.display[slot]
    <3>1. /\ card \in Links \ AllOwnedLinks(ownedLinks)
          /\ ownedLinks' = DrawnLines(buyer, card)
          /\ \A s \in Seats :
               table'.gems[s] = table.gems[s]
                 + (IF s = buyer THEN -EffectiveCost(card) ELSE PresenceFee(s, card))
                 + Cardinality({l \in table'.discardPile \ table.discardPile :
                                  CrossesAny(l, ownedLinks'[s])})
      BY <1>1, <2>2, BuyLinkFacts
    <3>2. ownedLinks \in Drawings
      BY <1>1 DEF GameInv, TypeOK, Drawings
    <3> HIDE DEF card
    <3>3. \A s \in Seats : ownedLinks'[s] =
            IF s = buyer THEN ownedLinks[s] \cup {card} ELSE ownedLinks[s]
      BY <3>1, <3>2, DrawnLinesFacts
    <3>4. card \notin ownedLinks[seat]
      BY <3>1 DEF AllOwnedLinks
    <3>5. bought = IF seat = buyer THEN {card} ELSE {}
      BY <3>3, <3>4
    <3>6. CASE seat # buyer
      BY <3>5, <3>6 DEF PurchaseAccounted
    <3>7. CASE seat = buyer
      <4> SUFFICES ASSUME NEW s \in Seats
                   PROVE  table'.gems[s] = table.gems[s]
                            + Cardinality({l \in table'.discardPile \ table.discardPile :
                                             CrossesAny(l, ownedLinks'[s])})
                            + (IF s = seat THEN -EffectiveCost(card) ELSE PresenceFee(s, card))
        BY <3>5, <3>7 DEF PurchaseAccounted
      <4> DEFINE paid == Cardinality({l \in table'.discardPile \ table.discardPile :
                                        CrossesAny(l, ownedLinks'[s])})
                 fee == IF s = seat THEN -EffectiveCost(card) ELSE PresenceFee(s, card)
      <4>1. table.gems[s] \in Int
        BY <1>1 DEF GameInv, Sound, Table
      <4>2. fee \in Int
        BY <3>1, PriceType
      <4>3. paid \in Int
        <5>1. table' \in Table
          BY <1>1, GameStep DEF GameInv, TypeOK
        <5>2. {l \in table'.discardPile \ table.discardPile : CrossesAny(l, ownedLinks'[s])}
                \in SUBSET Links
          BY <5>1 DEF Table
        <5> QED BY <5>2, LinksFinite
      <4>4. table'.gems[s] = table.gems[s] + fee + paid
        BY <3>1, <3>7
      <4> HIDE DEF fee, paid
      <4>5. table'.gems[s] = table.gems[s] + paid + fee
        BY <4>1, <4>2, <4>3, <4>4
      <4> QED BY <4>5 DEF fee, paid
    <3> QED BY <3>6, <3>7
  <2>3. ASSUME NEW s \in Seats, Pass(s) PROVE ownedLinks' = ownedLinks
    BY <2>3 DEF Pass
  <2>4. (Finished \/ UNCHANGED vars) => ownedLinks' = ownedLinks
    BY DEF Finished, vars
  <2> QED BY <1>1, <2>1, <2>2, <2>3, <2>4 DEF Next
<1>2. GameInv /\ [Next]_vars => \A seat \in Seats : PurchaseAccounted(seat)
  BY <1>1
<1>3. GameInv /\ [Next]_vars => [\A seat \in Seats : PurchaseAccounted(seat)]_vars
  BY <1>2
<1> QED BY <1>3, GameInit, GameStep, PTL DEF Spec, GemsAccounted

-----------------------------------------------------------------------------
(* The score.  Sets of numbers have a least and, if finite, a largest.     *)
LEMMA LeastNumber ==
  ASSUME NEW S \in SUBSET Nat, S # {}
  PROVE  \E m \in S : \A n \in S : m <= n
<1> DEFINE R == {ss \in Nat \X Nat : ss[1] < ss[2]}
<1>1. IsWellFoundedOn(R, Nat)
  BY NatLessThanWellFounded, Zenon DEF OpToRel
<1>2. PICK m \in S : \A n \in S : ~ (<<n, m>> \in R)
  <2> HIDE DEF R
  <2> QED BY <1>1, WFMin
<1>3. ASSUME NEW n \in S PROVE m <= n
  <2>1. n \in Nat /\ m \in Nat /\ <<n, m>> \notin R
    BY <1>2
  <2> QED BY <2>1
<1> QED BY <1>3

LEMMA MaxIsLargest ==
  ASSUME NEW S \in SUBSET Nat, NEW N \in Nat, \A x \in S : x <= N, S # {}
  PROVE  /\ Max(S) \in S
         /\ \A x \in S : x <= Max(S)
<1> DEFINE B == {n \in Nat : \A x \in S : x <= n}
<1>1. PICK m \in B : \A n \in B : m <= n
  <2>1. N \in B /\ B \in SUBSET Nat
    OBVIOUS
  <2> HIDE DEF B
  <2> QED BY <2>1, LeastNumber
<1>2. m \in S
  <2> SUFFICES ASSUME m \notin S PROVE FALSE
    OBVIOUS
  <2>1. PICK x \in S : TRUE
    OBVIOUS
  <2>2. x <= m /\ x # m /\ x \in Nat
    BY <1>1, <2>1
  <2>3. \A y \in S : y <= m - 1
    BY <1>1
  <2>4. m - 1 \in B
    BY <2>2, <2>3
  <2> QED BY <1>1, <2>4
<1>3. \A x \in S : m >= x
  BY <1>1
<1> QED BY <1>2, <1>3 DEF Max

LEMMA SameMax ==
  ASSUME NEW S \in SUBSET Nat, NEW T \in SUBSET Nat, NEW N \in Nat,
         S # {}, T # {},
         \A x \in S : x <= N /\ \E y \in T : x <= y,
         \A y \in T : y <= N /\ \E x \in S : y <= x
  PROVE  Max(S) = Max(T)
<1>1. Max(S) \in S /\ \A x \in S : x <= Max(S)
  BY MaxIsLargest
<1>2. Max(T) \in T /\ \A x \in T : x <= Max(T)
  BY MaxIsLargest
<1>3. PICK y \in T : Max(S) <= y
  BY <1>1
<1>4. PICK x \in S : Max(T) <= x
  BY <1>2
<1>5. y <= Max(T) /\ x <= Max(S) /\ x \in Nat /\ y \in Nat /\ Max(S) \in Nat /\ Max(T) \in Nat
  BY <1>1, <1>2
<1> HIDE DEF Max
<1> QED BY <1>3, <1>4, <1>5

LEMMA MaxOfLargest ==
  ASSUME NEW S \in SUBSET Nat, NEW N \in Nat, \A x \in S : x <= N
  PROVE  /\ MaxOf(S) \in Nat /\ MaxOf(S) <= N /\ MaxOf(S) \in S \cup {0}
         /\ \A x \in S : x <= MaxOf(S)
<1> DEFINE U == S \cup {0}
<1>1. U \in SUBSET Nat /\ U # {} /\ \A x \in U : x <= N
  OBVIOUS
<1>2. Max(U) \in U /\ \A x \in U : x <= Max(U)
  <2> HIDE DEF U
  <2> QED BY <1>1, MaxIsLargest
<1> QED BY <1>1, <1>2 DEF MaxOf

(* Among the sets of a family there is a smallest and a largest one.       *)
LEMMA SmallestAndLargest ==
  ASSUME NEW U, IsFiniteSet(U), NEW K \in SUBSET SUBSET U, K # {}
  PROVE  /\ \E S \in K : \A R \in K : Cardinality(S) <= Cardinality(R)
         /\ \E S \in K : \A R \in K : Cardinality(R) <= Cardinality(S)
<1> DEFINE Sizes == {Cardinality(S) : S \in K}
<1>1. ASSUME NEW S \in K PROVE Cardinality(S) \in Nat /\ Cardinality(S) <= Cardinality(U)
  BY FS_Subset, FS_CardinalityType
<1>2. Sizes \in SUBSET Nat /\ Sizes # {} /\ \A n \in Sizes : n <= Cardinality(U)
  BY <1>1
<1>3. Cardinality(U) \in Nat
  BY FS_CardinalityType
<1>4. (\E m \in Sizes : \A n \in Sizes : m <= n)
      /\ (\E m \in Sizes : \A n \in Sizes : n <= m)
  <2> HIDE DEF Sizes
  <2> QED BY <1>2, <1>3, LeastNumber, MaxIsLargest
<1> QED BY <1>4

LEMMA LineEnds ==
  ASSUME NEW l \in Links
  PROVE  /\ \E a, b \in Nodes : a # b /\ l = {a, b}
         /\ l \in SUBSET Nodes
BY MapAssumption

-----------------------------------------------------------------------------
(* Paths that repeat no node, over some lines, and those that can be       *)
(* closed.  A function on 1 .. k lists the nodes.                          *)
Paths(E, k) ==
  {p \in [1 .. k -> Nodes] :
     /\ \A i \in 1 .. k - 1 : {p[i], p[i + 1]} \in E
     /\ \A i, j \in 1 .. k : p[i] = p[j] => i = j}

Cycles(E, k) == {c \in Paths(E, k) : k >= 3 /\ {c[k], c[1]} \in E}

Visited(p, i) == {p[j] : j \in 1 .. i}

LEMMA VisitedSize ==
  ASSUME NEW E, NEW k \in Nat, NEW p \in Paths(E, k), NEW i \in 0 .. k
  PROVE  /\ Visited(p, i) \in SUBSET Nodes
         /\ Cardinality(Visited(p, i)) = i
         /\ i <= Cardinality(Nodes) /\ Cardinality(Nodes) \in Nat
<1>1. /\ p \in [1 .. k -> Nodes] /\ i \in Nat
      /\ \A a, b \in 1 .. k : p[a] = p[b] => a = b
  BY DEF Paths
<1> DEFINE V == Visited(p, i)
           g == [j \in 1 .. i |-> p[j]]
<1>2. V \in SUBSET Nodes
  BY <1>1 DEF Visited
<1>3. g \in [1 .. i -> V] /\ \A v \in V : \E j \in 1 .. i : g[j] = v
  BY <1>1 DEF Visited
<1>4. \A a, b \in 1 .. i : g[a] = g[b] => a = b
  BY <1>1
<1>5. g \in Bijection(1 .. i, V)
  <2> HIDE DEF g, V
  <2> QED BY <1>3, <1>4 DEF Bijection, Injection, IsInjective, Surjection
<1>6. Cardinality(V) = i
  <2> HIDE DEF g, V
  <2> QED BY <1>1, <1>5, FS_CountingElements DEF ExistsBijection
<1>7. IsFiniteSet(Nodes)
  BY MapAssumption
<1>8. Cardinality(V) <= Cardinality(Nodes)
  <2> HIDE DEF V
  <2> QED BY <1>2, <1>7, FS_Subset
<1> QED BY <1>2, <1>6, <1>7, <1>8, FS_CardinalityType

LEMMA PathExtended ==
  ASSUME NEW E, NEW k \in Nat, k >= 1, NEW p \in Paths(E, k),
         NEW b \in Nodes, {p[k], b} \in E, b \notin Visited(p, k)
  PROVE  LET q == [i \in 1 .. k + 1 |-> IF i = k + 1 THEN b ELSE p[i]]
         IN  /\ q \in Paths(E, k + 1)
             /\ Visited(q, k + 1) = Visited(p, k) \cup {b}
             /\ q[1] = p[1] /\ q[k + 1] = b
<1> DEFINE q == [i \in 1 .. k + 1 |-> IF i = k + 1 THEN b ELSE p[i]]
<1>1. /\ p \in [1 .. k -> Nodes]
      /\ \A i \in 1 .. k - 1 : {p[i], p[i + 1]} \in E
      /\ \A i, j \in 1 .. k : p[i] = p[j] => i = j
  BY DEF Paths
<1>2. /\ q \in [1 .. k + 1 -> Nodes] /\ q[k + 1] = b
      /\ \A i \in 1 .. k : q[i] = p[i]
  BY <1>1
<1> HIDE DEF q
<1>3. ASSUME NEW i \in 1 .. k PROVE {q[i], q[i + 1]} \in E
  <2>1. CASE i = k
    BY <1>2, <2>1
  <2>2. CASE i # k
    BY <1>1, <1>2, <2>2
  <2> QED BY <2>1, <2>2
<1>4. \A i \in 1 .. k : q[i] # b
  BY <1>2 DEF Visited
<1>5. ASSUME NEW i \in 1 .. k + 1, NEW j \in 1 .. k + 1, q[i] = q[j] PROVE i = j
  BY <1>1, <1>2, <1>4, <1>5
<1>6. q \in Paths(E, k + 1)
  BY <1>2, <1>3, <1>5 DEF Paths
<1>7. Visited(q, k + 1) = Visited(p, k) \cup {b}
  BY <1>2 DEF Visited
<1>8. q[1] = p[1]
  BY <1>2
<1> QED BY <1>2, <1>6, <1>7, <1>8 DEF q

(* Lines of which every node has two contain a loop: the last node of a    *)
(* longest path has a second line, which leads back to the path.           *)
LEMMA TwoLinesEach ==
  ASSUME NEW E \in SUBSET Links, E # {},
         \A n \in UNION E : \E l, m \in E : l # m /\ n \in l /\ n \in m
  PROVE  \E k \in Nat : Cycles(E, k) # {}
<1> DEFINE K == {k \in Nat : k >= 2 /\ Paths(E, k) # {}}
<1>1. PICK k \in K : \A j \in K : j <= k
  <2>1. PICK l \in E : TRUE
    OBVIOUS
  <2>2. PICK a, b \in Nodes : a # b /\ l = {a, b}
    BY LineEnds
  <2> DEFINE p == [i \in 1 .. 2 |-> IF i = 1 THEN a ELSE b]
  <2>3. p \in [1 .. 2 -> Nodes] /\ p[1] = a /\ p[2] = b
    OBVIOUS
  <2> HIDE DEF p
  <2>4. p \in Paths(E, 2)
    <3>1. ASSUME NEW i \in 1 .. 2 - 1 PROVE {p[i], p[i + 1]} \in E
      <4>1. i = 1 /\ i + 1 = 2
        OBVIOUS
      <4> QED BY <2>1, <2>2, <2>3, <4>1
    <3>2. \A i, j \in 1 .. 2 : p[i] = p[j] => i = j
      BY <2>2, <2>3
    <3> QED BY <2>3, <3>1, <3>2 DEF Paths
  <2>5. 2 \in K
    BY <2>4
  <2>6. ASSUME NEW j \in K PROVE j <= Cardinality(Nodes)
    BY VisitedSize
  <2>7. K \in SUBSET Nat /\ K # {} /\ Cardinality(Nodes) \in Nat
    BY <2>5, MapAssumption, FS_CardinalityType
  <2> HIDE DEF K
  <2> QED BY <2>6, <2>7, MaxIsLargest
<1>2. PICK p \in Paths(E, k) : TRUE
  OBVIOUS
<1>3. /\ p \in [1 .. k -> Nodes] /\ k \in Nat /\ k >= 2
      /\ \A i \in 1 .. k - 1 : {p[i], p[i + 1]} \in E
      /\ \A i, j \in 1 .. k : p[i] = p[j] => i = j
  BY DEF Paths
<1>4. {p[k - 1], p[k]} \in E
  BY <1>3
<1>5. PICK l \in E : p[k] \in l /\ l # {p[k - 1], p[k]}
  BY <1>4
<1>6. PICK b \in Nodes : b # p[k] /\ l = {p[k], b}
  BY <1>5, LineEnds
<1>7. b # p[k - 1]
  BY <1>5, <1>6
<1>8. b \in Visited(p, k)
  <2> SUFFICES ASSUME b \notin Visited(p, k) PROVE FALSE
    OBVIOUS
  <2>1. Paths(E, k + 1) # {}
    <3>1. k >= 1 /\ {p[k], b} \in E
      BY <1>3, <1>5, <1>6
    <3> QED BY <1>2, <1>3, <3>1, PathExtended
  <2>2. k + 1 \in K
    BY <1>3, <2>1
  <2> QED BY <1>1, <1>3, <2>2
<1>9. PICK j \in 1 .. k : p[j] = b
  BY <1>8 DEF Visited
<1>10. j <= k - 2
  BY <1>3, <1>6, <1>7, <1>9
<1> DEFINE n == k - j + 1
           c == [i \in 1 .. n |-> p[j + i - 1]]
<1>11. n \in Nat /\ n >= 3 /\ j + n - 1 = k
  BY <1>3, <1>10
<1>12. c \in [1 .. n -> Nodes] /\ \A i \in 1 .. n : c[i] = p[j + i - 1]
  BY <1>3, <1>11
<1> HIDE DEF n, c, K
<1>13. ASSUME NEW i \in 1 .. n - 1 PROVE {c[i], c[i + 1]} \in E
  <2>1. i \in 1 .. n /\ i + 1 \in 1 .. n /\ j + i - 1 \in 1 .. k - 1
        /\ j + (i + 1) - 1 = (j + i - 1) + 1
    BY <1>3, <1>11
  <2> QED BY <1>3, <1>12, <2>1
<1>14. ASSUME NEW i \in 1 .. n, NEW m \in 1 .. n, c[i] = c[m] PROVE i = m
  <2>1. j + i - 1 \in 1 .. k /\ j + m - 1 \in 1 .. k
    BY <1>3, <1>11
  <2>2. j + i - 1 = j + m - 1
    BY <1>3, <1>12, <1>14, <2>1
  <2> QED BY <2>2
<1>15. c[n] = p[k] /\ c[1] = p[j]
  <2>1. n \in 1 .. n /\ 1 \in 1 .. n /\ j + 1 - 1 = j
    BY <1>11
  <2> QED BY <1>11, <1>12, <2>1
<1>16. c \in Cycles(E, n)
  BY <1>5, <1>6, <1>9, <1>11, <1>12, <1>13, <1>14, <1>15 DEF Paths, Cycles
<1> QED BY <1>11, <1>16

(* The lines of a closed path of k nodes, each by the number of its first  *)
(* node.                                                                   *)
After(k, i)  == IF i = k THEN 1 ELSE i + 1
Before(k, i) == IF i = 1 THEN k ELSE i - 1

Side(c, k, i) == {c[i], c[After(k, i)]}
Sides(c, k)   == {Side(c, k, i) : i \in 1 .. k}

LEMMA AfterFacts ==
  ASSUME NEW k \in Nat, k >= 3, NEW i \in 1 .. k
  PROVE  /\ After(k, i) \in 1 .. k /\ After(k, i) # i
         /\ Before(k, i) \in 1 .. k /\ Before(k, i) # i
         /\ After(k, Before(k, i)) = i
         /\ After(k, After(k, i)) # i
         /\ \A j \in 1 .. k : After(k, j) = i => j = Before(k, i)
BY DEF After, Before

LEMMA SideFacts ==
  ASSUME NEW E, NEW k \in Nat, NEW c \in Cycles(E, k)
  PROVE  /\ k >= 3 /\ c \in [1 .. k -> Nodes]
         /\ \A i, j \in 1 .. k : c[i] = c[j] => i = j
         /\ \A i \in 1 .. k : Side(c, k, i) \in E
         /\ \A i, j \in 1 .. k : c[i] \in Side(c, k, j) <=> j = i \/ j = Before(k, i)
         /\ \A i, j \in 1 .. k : Side(c, k, i) = Side(c, k, j) => i = j
<1>1. /\ k >= 3 /\ c \in [1 .. k -> Nodes] /\ {c[k], c[1]} \in E
      /\ \A i \in 1 .. k - 1 : {c[i], c[i + 1]} \in E
      /\ \A i, j \in 1 .. k : c[i] = c[j] => i = j
  BY DEF Cycles, Paths
<1>2. ASSUME NEW i \in 1 .. k PROVE Side(c, k, i) \in E
  <2>1. CASE i = k
    BY <1>1, <2>1 DEF Side, After
  <2>2. CASE i # k
    BY <1>1, <2>2 DEF Side, After
  <2> QED BY <2>1, <2>2
<1>3. ASSUME NEW i \in 1 .. k, NEW j \in 1 .. k
      PROVE  c[i] \in Side(c, k, j) <=> j = i \/ j = Before(k, i)
  <2>1. /\ After(k, j) \in 1 .. k /\ After(k, Before(k, i)) = i
        /\ After(k, j) = i => j = Before(k, i)
    BY <1>1, AfterFacts
  <2>2. c[i] = c[j] <=> i = j
    BY <1>1
  <2>3. c[i] = c[After(k, j)] <=> i = After(k, j)
    BY <1>1, <2>1
  <2> QED BY <2>1, <2>2, <2>3 DEF Side
<1>4. ASSUME NEW i \in 1 .. k, NEW j \in 1 .. k, Side(c, k, i) = Side(c, k, j)
      PROVE  i = j
  <2>1. c[i] \in Side(c, k, j) /\ c[j] \in Side(c, k, i)
    BY <1>4 DEF Side
  <2>2. i = j \/ (j = Before(k, i) /\ i = Before(k, j))
    BY <1>3, <2>1
  <2>3. ASSUME j = Before(k, i), i = Before(k, j) PROVE FALSE
    BY <1>1, <2>3 DEF Before
  <2> QED BY <2>2, <2>3
<1> QED BY <1>1, <1>2, <1>3, <1>4

LEMMA SidesSize ==
  ASSUME NEW E, NEW k \in Nat, NEW c \in Cycles(E, k)
  PROVE  /\ Sides(c, k) \subseteq E /\ Sides(c, k) # {}
         /\ IsFiniteSet(Sides(c, k)) /\ Cardinality(Sides(c, k)) = k
         /\ UNION Sides(c, k) = Visited(c, k)
<1> DEFINE S == Sides(c, k)
           g == [i \in 1 .. k |-> Side(c, k, i)]
<1>1. /\ k >= 3 /\ c \in [1 .. k -> Nodes]
      /\ \A i \in 1 .. k : Side(c, k, i) \in E
      /\ \A i, j \in 1 .. k : Side(c, k, i) = Side(c, k, j) => i = j
  BY SideFacts, Zenon
<1>2. g \in [1 .. k -> S] /\ \A l \in S : \E i \in 1 .. k : g[i] = l
  BY DEF Sides
<1>3. \A i, j \in 1 .. k : g[i] = g[j] => i = j
  BY <1>1
<1>4. g \in Bijection(1 .. k, S)
  <2> HIDE DEF g, S
  <2> QED BY <1>2, <1>3 DEF Bijection, Injection, IsInjective, Surjection
<1>5. Cardinality(S) = k
  <2> HIDE DEF g, S
  <2> QED BY <1>4, FS_CountingElements DEF ExistsBijection
<1>6. IsFiniteSet(S)
  <2> HIDE DEF g, S
  <2>1. IsFiniteSet(1 .. k)
    BY FS_Interval
  <2> QED BY <1>4, <2>1, FS_Bijection DEF ExistsBijection
<1>7. S \subseteq E /\ S # {}
  <2>1. 1 \in 1 .. k
    BY <1>1
  <2> QED BY <1>1, <2>1 DEF Sides
<1>8. UNION S = Visited(c, k)
  <2>1. ASSUME NEW n \in UNION S PROVE n \in Visited(c, k)
    <3>1. PICK i \in 1 .. k : n \in Side(c, k, i)
      BY DEF Sides
    <3>2. After(k, i) \in 1 .. k
      BY <1>1, AfterFacts
    <3> QED BY <3>1, <3>2 DEF Side, Visited
  <2>2. ASSUME NEW n \in Visited(c, k) PROVE n \in UNION S
    <3>1. PICK i \in 1 .. k : n = c[i]
      BY DEF Visited
    <3>2. n \in Side(c, k, i) /\ Side(c, k, i) \in S
      BY <3>1 DEF Side, Sides
    <3> QED BY <3>2
  <2> QED BY <2>1, <2>2
<1> QED BY <1>5, <1>6, <1>7, <1>8

(* The numbers of a closed path's lines that are in some set, if the next  *)
(* line of each is in it too, are all or none.                             *)
LEMMA AllAround ==
  ASSUME NEW k \in Nat, k >= 3, NEW A \in SUBSET (1 .. k), A # {},
         \A i \in A : After(k, i) \in A
  PROVE  A = 1 .. k
<1> DEFINE From(a) == {m \in Nat : a + m <= k => a + m \in A}
<1>1. ASSUME NEW a \in A PROVE \A b \in a .. k : b \in A
  <2>1. 0 \in From(a) /\ \A m \in Nat : m \in From(a) => m + 1 \in From(a)
    BY <1>1 DEF After
  <2>2. \A m \in Nat : m \in From(a)
    <3> HIDE DEF From
    <3> QED BY <2>1, SetInduction
  <2>3. ASSUME NEW b \in a .. k PROVE b \in A
    <3>1. b - a \in Nat /\ a + (b - a) = b
      OBVIOUS
    <3>2. b - a \in From(a)
      BY <2>2, <3>1
    <3> QED BY <3>1, <3>2
  <2> QED BY <2>3
<1>2. k \in A
  <2>1. PICK a \in A : a \in 1 .. k
    OBVIOUS
  <2> QED BY <1>1, <2>1
<1>3. 1 \in A
  BY <1>2 DEF After
<1> QED BY <1>1, <1>3

(* A closed path is a loop in the sense of the rules.                      *)
LEMMA CycleIsLoop ==
  ASSUME NEW E, NEW k \in Nat, NEW c \in Cycles(E, k)
  PROVE  Sides(c, k) \in Loops(E)
<1> DEFINE S == Sides(c, k)
<1>1. /\ k >= 3 /\ c \in [1 .. k -> Nodes]
      /\ \A i, j \in 1 .. k : c[i] \in Side(c, k, j) <=> j = i \/ j = Before(k, i)
      /\ \A i, j \in 1 .. k : Side(c, k, i) = Side(c, k, j) => i = j
  BY SideFacts, Zenon
<1>2. S \subseteq E /\ S # {} /\ UNION S = Visited(c, k)
  BY SidesSize
<1>3. ASSUME NEW n \in UNION S PROVE Cardinality({l \in S : n \in l}) = 2
  <2>1. PICK i \in 1 .. k : n = c[i]
    BY <1>2 DEF Visited
  <2> DEFINE l1 == Side(c, k, i)
             l2 == Side(c, k, Before(k, i))
  <2>2. Before(k, i) \in 1 .. k /\ Before(k, i) # i
    BY <1>1, AfterFacts
  <2>3. {l \in S : n \in l} = {l1, l2}
    BY <1>1, <2>1, <2>2 DEF Sides
  <2>4. l1 # l2
    BY <1>1, <2>2
  <2>5. Cardinality({l1, l2}) = 2
    <3> HIDE DEF l1, l2
    <3>1. {l1, l2} = {l1} \cup {l2} /\ l2 \notin {l1}
      BY <2>4
    <3>2. IsFiniteSet({l1}) /\ Cardinality({l1}) = 1
      BY FS_Singleton
    <3>3. Cardinality({l1} \cup {l2}) = Cardinality({l1}) + 1
      BY <3>1, <3>2, FS_AddElement
    <3> QED BY <3>1, <3>2, <3>3
  <2> QED BY <2>3, <2>5
<1>4. ASSUME NEW part \in (SUBSET S) \ {{}, S} PROVE (UNION part) \cap (UNION (S \ part)) # {}
  <2> DEFINE A == {i \in 1 .. k : Side(c, k, i) \in part}
  <2>1. A \in SUBSET (1 .. k)
    OBVIOUS
  <2>2. A # {}
    <3>1. PICK l \in part : l \in S
      OBVIOUS
    <3> QED BY <3>1 DEF Sides
  <2>3. A # 1 .. k
    <3>1. PICK l \in S : l \notin part
      OBVIOUS
    <3> QED BY <3>1 DEF Sides
  <2>4. PICK i \in A : After(k, i) \notin A
    <3> HIDE DEF A
    <3> QED BY <1>1, <2>1, <2>2, <2>3, AllAround
  <2>5. After(k, i) \in 1 .. k
    BY <1>1, AfterFacts
  <2>6. /\ Side(c, k, i) \in part
        /\ Side(c, k, After(k, i)) \in S \ part
    BY <2>4, <2>5 DEF Sides
  <2>7. /\ c[After(k, i)] \in Side(c, k, i)
        /\ c[After(k, i)] \in Side(c, k, After(k, i))
    BY DEF Side
  <2> QED BY <2>6, <2>7
<1> HIDE DEF S
<1> QED BY <1>2, <1>3, <1>4 DEF Loops, S

LEMMA ThreeInTwo ==
  ASSUME NEW T, IsFiniteSet(T), Cardinality(T) = 2,
         NEW x \in T, NEW y \in T, NEW z \in T, x # y, x # z, y # z
  PROVE  FALSE
<1>1. IsFiniteSet(T \ {x}) /\ Cardinality(T \ {x}) = 1
  BY FS_RemoveElement
<1>2. PICK w : T \ {x} = {w}
  BY <1>1, FS_Singleton
<1> QED BY <1>2

LEMMA TwoOfTwo ==
  ASSUME NEW T, IsFiniteSet(T), Cardinality(T) = 2
  PROVE  \E x, y \in T : x # y
<1>1. T # {}
  BY FS_EmptySet
<1>2. PICK x \in T : TRUE
  BY <1>1
<1>3. IsFiniteSet(T \ {x}) /\ Cardinality(T \ {x}) = 1
  BY FS_RemoveElement
<1>4. PICK w : T \ {x} = {w}
  BY <1>3, FS_Singleton
<1> QED BY <1>2, <1>4

(* And a loop in the sense of the rules is a closed path.                  *)
LEMMA LoopIsCycle ==
  ASSUME NEW links \in SUBSET Links, NEW loop \in Loops(links)
  PROVE  \E k \in Nat : \E c \in Cycles(links, k) : Sides(c, k) = loop
<1>1. /\ loop \in SUBSET links /\ loop # {}
      /\ \A n \in UNION loop : Cardinality({l \in loop : n \in l}) = 2
      /\ \A part \in (SUBSET loop) \ {{}, loop} :
           (UNION part) \cap (UNION (loop \ part)) # {}
  BY DEF Loops
<1>2. ASSUME NEW n \in UNION loop PROVE IsFiniteSet({l \in loop : n \in l})
  <2>1. {l \in loop : n \in l} \in SUBSET Links
    BY <1>1
  <2> QED BY <2>1, LinksFinite
<1>3. ASSUME NEW n \in UNION loop PROVE \E l, m \in loop : l # m /\ n \in l /\ n \in m
  <2> DEFINE T == {l \in loop : n \in l}
  <2>1. IsFiniteSet(T) /\ Cardinality(T) = 2
    BY <1>1, <1>2
  <2>2. \E l, m \in T : l # m
    <3> HIDE DEF T
    <3> QED BY <2>1, TwoOfTwo
  <2> QED BY <2>2
<1>4. PICK k \in Nat : Cycles(loop, k) # {}
  BY <1>1, <1>3, TwoLinesEach
<1>5. PICK c \in Cycles(loop, k) : TRUE
  BY <1>4
<1> DEFINE part == Sides(c, k)
<1>6. part \subseteq loop /\ part # {} /\ UNION part = Visited(c, k)
  BY SidesSize
<1>7. part = loop
  <2> SUFFICES ASSUME part # loop PROVE FALSE
    OBVIOUS
  <2>1. PICK n \in UNION part : n \in UNION (loop \ part)
    <3> HIDE DEF part
    <3> QED BY <1>1, <1>6
  <2>2. PICK i \in 1 .. k : n = c[i]
    BY <1>6, <2>1 DEF Visited
  <2>3. PICK l \in loop \ part : n \in l
    BY <2>1
  <2> DEFINE l1 == Side(c, k, i)
             l2 == Side(c, k, Before(k, i))
  <2>4. /\ k >= 3 /\ Before(k, i) \in 1 .. k /\ Before(k, i) # i
        /\ After(k, Before(k, i)) = i
    BY SideFacts, AfterFacts
  <2>5. l1 \in part /\ l2 \in part /\ l1 # l2 /\ n \in l1 /\ n \in l2
    <3>1. l1 # l2
      BY SideFacts, <2>4
    <3>2. l1 \in part /\ l2 \in part
      BY <2>4 DEF Sides
    <3>3. n \in l1 /\ n \in l2
      BY <2>2, <2>4 DEF Side
    <3> QED BY <3>1, <3>2, <3>3
  <2> DEFINE T == {x \in loop : n \in x}
  <2>6. IsFiniteSet(T) /\ Cardinality(T) = 2
    <3>1. n \in UNION loop
      BY <2>3
    <3> QED BY <1>1, <1>2, <3>1
  <2>7. l \in T /\ l1 \in T /\ l2 \in T /\ l # l1 /\ l # l2
    <3> HIDE DEF part, l1, l2
    <3> QED BY <1>6, <2>3, <2>5
  <2> HIDE DEF part, l1, l2, T
  <2> QED BY <2>5, <2>6, <2>7, ThreeInTwo
<1>8. c \in Cycles(links, k)
  BY <1>1 DEF Cycles, Paths
<1> QED BY <1>7, <1>8

-----------------------------------------------------------------------------
(* Sets of nodes that no line leaves.                                      *)
Closed(links, S) == \A l \in links : l \cap S # {} => l \subseteq S

LEMMA ReachableFacts ==
  ASSUME NEW links \in SUBSET Links, NEW from \in SUBSET Nodes
  PROVE  /\ from \subseteq Reachable(links, from)
         /\ Reachable(links, from) \in SUBSET Nodes
         /\ Closed(links, Reachable(links, from))
         /\ \A S \in SUBSET Nodes :
              from \subseteq S /\ Closed(links, S) => Reachable(links, from) \subseteq S
<1> DEFINE R == Reachable(links, from)
<1>1. R \in SUBSET Nodes /\ from \subseteq R
  BY DEF Reachable
<1>2. ASSUME NEW S \in SUBSET Nodes, from \subseteq S, Closed(links, S) PROVE R \subseteq S
  BY <1>2 DEF Reachable, Closed
<1>3. ASSUME NEW l \in links, NEW n \in l, n \in R PROVE l \subseteq R
  <2> SUFFICES ASSUME NEW m \in l, NEW S \in SUBSET Nodes, from \subseteq S, Closed(links, S)
               PROVE  m \in S
    BY LineEnds DEF Reachable, Closed
  <2>1. n \in S
    BY <1>2, <1>3
  <2> QED BY <2>1 DEF Closed
<1>4. Closed(links, R)
  <2> HIDE DEF R
  <2> QED BY <1>3 DEF Closed
<1> HIDE DEF R
<1>5. \A S \in SUBSET Nodes : from \subseteq S /\ Closed(links, S) => R \subseteq S
  BY <1>2
<1> QED BY <1>1, <1>4, <1>5 DEF R

(* A closed set that has a node of a loop has them all.                    *)
LEMMA LoopInside ==
  ASSUME NEW links \in SUBSET Links, NEW loop \in Loops(links),
         NEW S, Closed(links, S), NEW n \in UNION loop, n \in S
  PROVE  UNION loop \subseteq S
<1>1. /\ loop \in SUBSET links
      /\ \A part \in (SUBSET loop) \ {{}, loop} :
           (UNION part) \cap (UNION (loop \ part)) # {}
  BY DEF Loops
<1> DEFINE part == {l \in loop : l \subseteq S}
<1>2. \A l \in loop : l \cap S # {} => l \in part
  BY <1>1 DEF Closed
<1>3. part # {} /\ part \in SUBSET loop
  BY <1>2
<1>4. part = loop
  <2> SUFFICES ASSUME part # loop PROVE FALSE
    OBVIOUS
  <2>1. PICK m \in UNION part : m \in UNION (loop \ part)
    <3> HIDE DEF part
    <3> QED BY <1>1, <1>3
  <2>2. m \in S
    BY <2>1
  <2>3. PICK l \in loop : l \notin part /\ m \in l
    <3> HIDE DEF part
    <3> QED BY <2>1
  <2> HIDE DEF part
  <2> QED BY <1>2, <2>2, <2>3
<1> QED BY <1>4

LEMMA LoopReaches ==
  ASSUME NEW links \in SUBSET Links, NEW loop \in Loops(links), NEW n \in UNION loop
  PROVE  Reachable(links, UNION loop) = Reachable(links, {n})
<1>1. UNION loop \in SUBSET Nodes /\ {n} \in SUBSET Nodes /\ {n} \subseteq UNION loop
  BY LineEnds DEF Loops
<1>2. Reachable(links, {n}) \subseteq Reachable(links, UNION loop)
  BY <1>1, ReachableFacts
<1>3. UNION loop \subseteq Reachable(links, {n})
  <2> DEFINE R == Reachable(links, {n})
  <2>1. Closed(links, R) /\ n \in R
    BY <1>1, ReachableFacts
  <2> HIDE DEF R
  <2>2. UNION loop \subseteq R
    BY <2>1, LoopInside
  <2> QED BY <2>2 DEF R
<1>4. Reachable(links, UNION loop) \subseteq Reachable(links, {n})
  BY <1>1, <1>3, ReachableFacts
<1> QED BY <1>2, <1>4

-----------------------------------------------------------------------------
(* The search of a component: the function the code computes exists, for   *)
(* each call of it is about more nodes.                                    *)
More(links, seen) == seen \cup UNION {Neighbours(links, n) : n \in seen}

Grows(f, links, k) ==
  \A seen \in SUBSET Nodes :
    Cardinality(Nodes \ seen) < k =>
      f[seen] = IF More(links, seen) = seen THEN seen ELSE f[More(links, seen)]

IsGrowth(f, links) ==
  f = [seen \in SUBSET Nodes |->
         LET more == seen \cup UNION {Neighbours(links, n) : n \in seen}
         IN  IF more = seen THEN seen ELSE f[more]]

LEMMA UnseenFewer ==
  ASSUME NEW seen \in SUBSET Nodes, NEW more \in SUBSET Nodes,
         seen \subseteq more, more # seen
  PROVE  /\ Cardinality(Nodes \ more) < Cardinality(Nodes \ seen)
         /\ Cardinality(Nodes \ more) \in Nat /\ Cardinality(Nodes \ seen) \in Nat
         /\ Cardinality(Nodes \ seen) <= Cardinality(Nodes) /\ Cardinality(Nodes) \in Nat
<1> DEFINE A == Nodes \ more
           B == Nodes \ seen
<1>1. A \in SUBSET B /\ A # B /\ B \in SUBSET Nodes /\ IsFiniteSet(Nodes)
  BY MapAssumption
<1> HIDE DEF A, B
<1>2. IsFiniteSet(B) /\ IsFiniteSet(A) /\ Cardinality(B) <= Cardinality(Nodes)
  BY <1>1, FS_Subset
<1>3. Cardinality(A) <= Cardinality(B) /\ Cardinality(A) # Cardinality(B)
  BY <1>1, <1>2, FS_Subset
<1>4. Cardinality(A) \in Nat /\ Cardinality(B) \in Nat /\ Cardinality(Nodes) \in Nat
  BY <1>1, <1>2, FS_CardinalityType
<1> QED BY <1>2, <1>3, <1>4 DEF A, B

LEMMA UnseenType ==
  ASSUME NEW seen \in SUBSET Nodes
  PROVE  /\ Cardinality(Nodes \ seen) \in Nat /\ Cardinality(Nodes) \in Nat
         /\ Cardinality(Nodes \ seen) < Cardinality(Nodes) + 1
<1>1. Nodes \ seen \in SUBSET Nodes /\ IsFiniteSet(Nodes)
  BY MapAssumption
<1>2. Cardinality(Nodes) \in Nat /\ Cardinality(Nodes \ seen) \in Nat
      /\ Cardinality(Nodes \ seen) <= Cardinality(Nodes)
  BY <1>1, FS_Subset, FS_CardinalityType
<1> QED BY <1>2

LEMMA MoreType ==
  ASSUME NEW links, NEW seen \in SUBSET Nodes
  PROVE  More(links, seen) \in SUBSET Nodes /\ seen \subseteq More(links, seen)
BY DEF More, Neighbours

LEMMA GrowthExists ==
  ASSUME NEW links
  PROVE  \E f : IsGrowth(f, links)
<1> DEFINE T == {k \in Nat : \E f : f = [s \in SUBSET Nodes |-> f[s]] /\ Grows(f, links, k)}
<1>1. 0 \in T
  <2> DEFINE f == [s \in SUBSET Nodes |-> s]
  <2>1. f = [s \in SUBSET Nodes |-> f[s]]
    OBVIOUS
  <2>2. Grows(f, links, 0)
    <3>1. ASSUME NEW s \in SUBSET Nodes PROVE ~ (Cardinality(Nodes \ s) < 0)
      <4>1. Cardinality(Nodes \ s) \in Nat
        BY UnseenType
      <4> QED BY <4>1
    <3> QED BY <3>1 DEF Grows
  <2> HIDE DEF f
  <2> QED BY <2>1, <2>2
<1>2. ASSUME NEW k \in Nat, k \in T PROVE k + 1 \in T
  <2>1. PICK f : Grows(f, links, k)
    BY <1>2
  <2> DEFINE g == [s \in SUBSET Nodes |-> IF More(links, s) = s THEN s ELSE f[More(links, s)]]
  <2>2. g = [s \in SUBSET Nodes |-> g[s]]
    OBVIOUS
  <2>3. ASSUME NEW s \in SUBSET Nodes
        PROVE  g[s] = IF More(links, s) = s THEN s ELSE f[More(links, s)]
    OBVIOUS
  <2> HIDE DEF g
  <2>4. ASSUME NEW s \in SUBSET Nodes, Cardinality(Nodes \ s) < k + 1
        PROVE  g[s] = IF More(links, s) = s THEN s ELSE g[More(links, s)]
    <3>1. CASE More(links, s) = s
      BY <2>3, <3>1
    <3>2. CASE More(links, s) # s
      <4> DEFINE m == More(links, s)
      <4>1. m \in SUBSET Nodes /\ s \subseteq m /\ m # s
        BY <3>2, MoreType
      <4>2. g[s] = f[m]
        BY <2>3, <3>2
      <4>3. Cardinality(Nodes \ m) < k
        <5> HIDE DEF m
        <5>1. /\ Cardinality(Nodes \ m) < Cardinality(Nodes \ s)
              /\ Cardinality(Nodes \ m) \in Nat /\ Cardinality(Nodes \ s) \in Nat
          BY <4>1, UnseenFewer
        <5> QED BY <2>4, <5>1
      <4>4. g[m] = f[m]
        <5>1. f[m] = IF More(links, m) = m THEN m ELSE f[More(links, m)]
          <6> HIDE DEF m
          <6> QED BY <2>1, <4>1, <4>3 DEF Grows
        <5> QED BY <2>3, <4>1, <5>1
      <4> QED BY <3>2, <4>2, <4>4
    <3> QED BY <3>1, <3>2
  <2>5. Grows(g, links, k + 1)
    BY <2>4 DEF Grows
  <2> QED BY <2>2, <2>5
<1>3. Cardinality(Nodes) + 1 \in T
  <2>1. Cardinality(Nodes) + 1 \in Nat
    BY MapAssumption, FS_CardinalityType
  <2> HIDE DEF T
  <2> QED BY <1>1, <1>2, <2>1, SetInduction
<1>4. PICK f : f = [s \in SUBSET Nodes |-> f[s]] /\ Grows(f, links, Cardinality(Nodes) + 1)
  BY <1>3
<1>5. ASSUME NEW s \in SUBSET Nodes
      PROVE  f[s] = IF More(links, s) = s THEN s ELSE f[More(links, s)]
  <2>1. Cardinality(Nodes \ s) < Cardinality(Nodes) + 1
    BY UnseenType
  <2> QED BY <1>4, <2>1 DEF Grows
<1>6. [s \in SUBSET Nodes |-> f[s]]
        = [s \in SUBSET Nodes |-> IF More(links, s) = s THEN s ELSE f[More(links, s)]]
  BY <1>5
<1>7. IsGrowth(f, links)
  BY <1>4, <1>6 DEF IsGrowth, More
<1> QED BY <1>7

(* The code's component is what can be reached.                            *)
LEMMA ComponentIsReachable ==
  ASSUME NEW links \in SUBSET Links, NEW start \in Nodes
  PROVE  Component(links, start) = Reachable(links, {start})
<1> DEFINE grow[seen \in SUBSET Nodes] ==
             LET more == seen \cup UNION {Neighbours(links, n) : n \in seen}
             IN IF more = seen THEN seen ELSE grow[more]
           R == Reachable(links, {start})
<1>1. Component(links, start) = grow[{start}]
  BY DEF Component
<1>2. IsGrowth(grow, links)
  <2>1. \E f : IsGrowth(f, links)
    BY GrowthExists
  <2> QED BY <2>1 DEF IsGrowth
<1> HIDE DEF grow
<1>3. ASSUME NEW s \in SUBSET Nodes
      PROVE  grow[s] = IF More(links, s) = s THEN s ELSE grow[More(links, s)]
  BY <1>2 DEF IsGrowth, More
<1>4. {start} \in SUBSET Nodes /\ R \in SUBSET Nodes /\ start \in R /\ Closed(links, R)
  BY ReachableFacts
<1>5. \A S \in SUBSET Nodes : start \in S /\ Closed(links, S) => R \subseteq S
  BY <1>4, ReachableFacts
<1> HIDE DEF R
<1>6. ASSUME NEW s \in SUBSET Nodes, s \subseteq R PROVE More(links, s) \subseteq R
  <2>1. ASSUME NEW n \in s, NEW m \in Neighbours(links, n) PROVE m \in R
    <3>1. {m, n} \in links /\ {m, n} \cap R # {}
      BY <1>6 DEF Neighbours
    <3> QED BY <1>4, <3>1 DEF Closed
  <2> QED BY <1>6, <2>1 DEF More
<1>7. ASSUME NEW s \in SUBSET Nodes, More(links, s) = s PROVE Closed(links, s)
  <2> SUFFICES ASSUME NEW l \in links, NEW n \in l, n \in s, NEW m \in l PROVE m \in s
    BY DEF Closed
  <2>1. PICK a, b \in Nodes : a # b /\ l = {a, b}
    BY LineEnds
  <2>2. m # n => m \in Neighbours(links, n)
    <3>1. m # n => l = {m, n} /\ m \in Nodes
      BY <2>1
    <3> QED BY <3>1 DEF Neighbours
  <2>3. m \in More(links, s)
    BY <2>2 DEF More
  <2> QED BY <1>7, <2>3
<1> DEFINE T == {k \in Nat : \A s \in SUBSET Nodes :
                   start \in s /\ s \subseteq R /\ Cardinality(Nodes \ s) < k => grow[s] = R}
<1>8. 0 \in T
  BY UnseenType
<1>9. ASSUME NEW k \in Nat, k \in T PROVE k + 1 \in T
  <2> SUFFICES ASSUME NEW s \in SUBSET Nodes, start \in s, s \subseteq R,
                      Cardinality(Nodes \ s) < k + 1
               PROVE  grow[s] = R
    OBVIOUS
  <2>1. CASE More(links, s) = s
    BY <1>3, <1>5, <1>7, <2>1
  <2>2. CASE More(links, s) # s
    <3> DEFINE w == More(links, s)
    <3>1. w \in SUBSET Nodes /\ s \subseteq w /\ w # s /\ w \subseteq R
      BY <1>6, <2>2, MoreType
    <3>2. grow[s] = grow[w]
      BY <1>3, <2>2
    <3> HIDE DEF w
    <3>3. Cardinality(Nodes \ w) < k
      <4>1. /\ Cardinality(Nodes \ w) < Cardinality(Nodes \ s)
            /\ Cardinality(Nodes \ w) \in Nat /\ Cardinality(Nodes \ s) \in Nat
        BY <3>1, UnseenFewer
      <4> QED BY <4>1
    <3>4. grow[w] = R
      BY <1>9, <3>1, <3>3
    <3> QED BY <3>2, <3>4
  <2> QED BY <2>1, <2>2
<1>10. Cardinality(Nodes) + 1 \in T
  <2>1. Cardinality(Nodes) + 1 \in Nat
    BY MapAssumption, FS_CardinalityType
  <2> HIDE DEF T
  <2> QED BY <1>8, <1>9, <2>1, SetInduction
<1>11. Cardinality(Nodes \ {start}) < Cardinality(Nodes) + 1
  BY <1>4, UnseenType
<1>12. grow[{start}] = R
  BY <1>4, <1>10, <1>11
<1> QED BY <1>1, <1>12 DEF R

-----------------------------------------------------------------------------
(* The search for the longest loop: the code's function exists, for the    *)
(* paths of a call's calls are longer.                                     *)
Extensions(f, links, path) ==
  {f[<<n, path[2] \cup {n}>>] : n \in Neighbours(links, path[1]) \ path[2]}

Closing(start, links, path) ==
  IF start \in Neighbours(links, path[1]) /\ Cardinality(path[2]) >= 3
  THEN Cardinality(path[2]) ELSE 0

Best(f, start, links, path) ==
  MaxOf({Closing(start, links, path)} \cup Extensions(f, links, path))

Found(f) ==
  \A path \in Nodes \X SUBSET Nodes : f[path] \in Nat /\ f[path] <= Cardinality(Nodes)

Searches(f, start, links, k) ==
  \A path \in Nodes \X SUBSET Nodes :
    Cardinality(Nodes \ path[2]) < k => f[path] = Best(f, start, links, path)

IsSearch(f, start, links) ==
  f = [path \in Nodes \X SUBSET Nodes |->
         LET joined == Neighbours(links, path[1])
             depth  == Cardinality(path[2])
         IN  MaxOf({IF start \in joined /\ depth >= 3 THEN depth ELSE 0}
                   \cup {f[<<n, path[2] \cup {n}>>] : n \in joined \ path[2]})]

LEMMA BestFacts ==
  ASSUME NEW start, NEW links, NEW path \in Nodes \X SUBSET Nodes, NEW f,
         \A n \in Neighbours(links, path[1]) \ path[2] :
           /\ f[<<n, path[2] \cup {n}>>] \in Nat
           /\ f[<<n, path[2] \cup {n}>>] <= Cardinality(Nodes)
  PROVE  LET b == Best(f, start, links, path)
             S == {Closing(start, links, path)} \cup Extensions(f, links, path)
         IN  /\ b \in Nat /\ b <= Cardinality(Nodes)
             /\ b \in S \cup {0} /\ \A x \in S : x <= b
<1> DEFINE S == {Closing(start, links, path)} \cup Extensions(f, links, path)
<1>1. /\ Closing(start, links, path) \in Nat
      /\ Closing(start, links, path) <= Cardinality(Nodes)
      /\ Cardinality(Nodes) \in Nat
  <2> DEFINE V == path[2]
  <2>1. V \in SUBSET Nodes /\ IsFiniteSet(Nodes)
    BY MapAssumption
  <2>2. Cardinality(V) \in Nat /\ Cardinality(V) <= Cardinality(Nodes)
        /\ Cardinality(Nodes) \in Nat
    <3> HIDE DEF V
    <3> QED BY <2>1, FS_Subset, FS_CardinalityType
  <2> QED BY <2>2 DEF Closing
<1>2. ASSUME NEW x \in Extensions(f, links, path)
      PROVE  x \in Nat /\ x <= Cardinality(Nodes)
  BY DEF Extensions
<1>3. S \in SUBSET Nat /\ \A x \in S : x <= Cardinality(Nodes)
  BY <1>1, <1>2
<1> HIDE DEF S
<1>4. /\ MaxOf(S) \in Nat /\ MaxOf(S) <= Cardinality(Nodes) /\ MaxOf(S) \in S \cup {0}
      /\ \A x \in S : x <= MaxOf(S)
  BY <1>1, <1>3, MaxOfLargest
<1> QED BY <1>4 DEF Best, S

LEMMA NextPath ==
  ASSUME NEW links, NEW path \in Nodes \X SUBSET Nodes,
         NEW n \in Neighbours(links, path[1]) \ path[2]
  PROVE  /\ <<n, path[2] \cup {n}>> \in Nodes \X SUBSET Nodes
         /\ Cardinality(Nodes \ (path[2] \cup {n})) < Cardinality(Nodes \ path[2])
         /\ Cardinality(Nodes \ (path[2] \cup {n})) \in Nat
         /\ Cardinality(Nodes \ path[2]) \in Nat
<1> DEFINE V == path[2]
           W == V \cup {n}
<1>1. /\ V \in SUBSET Nodes /\ n \in Nodes /\ n \notin V
      /\ W \in SUBSET Nodes /\ V \subseteq W /\ W # V
  BY DEF Neighbours
<1> HIDE DEF V, W
<1>2. /\ Cardinality(Nodes \ W) < Cardinality(Nodes \ V)
      /\ Cardinality(Nodes \ W) \in Nat /\ Cardinality(Nodes \ V) \in Nat
  BY <1>1, UnseenFewer
<1>3. <<n, W>> \in Nodes \X SUBSET Nodes
  BY <1>1
<1> QED BY <1>2, <1>3 DEF V, W

LEMMA SearchExists ==
  ASSUME NEW start, NEW links
  PROVE  \E f : IsSearch(f, start, links)
<1> DEFINE D == Nodes \X SUBSET Nodes
           T == {k \in Nat : \E f : /\ f = [path \in D |-> f[path]]
                                    /\ Found(f) /\ Searches(f, start, links, k)}
<1>1. 0 \in T
  <2> DEFINE f == [path \in D |-> 0]
  <2>1. f = [path \in D |-> f[path]]
    OBVIOUS
  <2>2. Found(f)
    <3>1. Cardinality(Nodes) \in Nat
      BY MapAssumption, FS_CardinalityType
    <3> QED BY <3>1 DEF Found
  <2>3. Searches(f, start, links, 0)
    <3>1. ASSUME NEW path \in D PROVE ~ (Cardinality(Nodes \ path[2]) < 0)
      <4>1. path[2] \in SUBSET Nodes
        OBVIOUS
      <4>2. Cardinality(Nodes \ path[2]) \in Nat
        BY <4>1, UnseenType
      <4> QED BY <4>2
    <3> QED BY <3>1 DEF Searches
  <2> HIDE DEF f
  <2> QED BY <2>1, <2>2, <2>3
<1>2. ASSUME NEW k \in Nat, k \in T PROVE k + 1 \in T
  <2>1. PICK f : Found(f) /\ Searches(f, start, links, k)
    BY <1>2
  <2> DEFINE g == [path \in D |-> Best(f, start, links, path)]
  <2>2. g = [path \in D |-> g[path]]
    OBVIOUS
  <2>3. ASSUME NEW path \in D PROVE g[path] = Best(f, start, links, path)
    OBVIOUS
  <2> HIDE DEF g
  <2>4. ASSUME NEW path \in D PROVE g[path] \in Nat /\ g[path] <= Cardinality(Nodes)
    <3>1. \A n \in Neighbours(links, path[1]) \ path[2] :
            /\ f[<<n, path[2] \cup {n}>>] \in Nat
            /\ f[<<n, path[2] \cup {n}>>] <= Cardinality(Nodes)
      BY <2>1, NextPath DEF Found
    <3>2. Best(f, start, links, path) \in Nat
          /\ Best(f, start, links, path) <= Cardinality(Nodes)
      BY <3>1, BestFacts
    <3> QED BY <2>3, <3>2
  <2>5. ASSUME NEW path \in D, Cardinality(Nodes \ path[2]) < k + 1
        PROVE  g[path] = Best(g, start, links, path)
    <3>1. ASSUME NEW n \in Neighbours(links, path[1]) \ path[2]
          PROVE  g[<<n, path[2] \cup {n}>>] = f[<<n, path[2] \cup {n}>>]
      <4> DEFINE next == <<n, path[2] \cup {n}>>
      <4>1. next \in D /\ next[2] = path[2] \cup {n}
        BY NextPath
      <4>2. Cardinality(Nodes \ next[2]) < k
        <5>1. /\ Cardinality(Nodes \ next[2]) < Cardinality(Nodes \ path[2])
              /\ Cardinality(Nodes \ next[2]) \in Nat /\ Cardinality(Nodes \ path[2]) \in Nat
          BY <4>1, NextPath
        <5> HIDE DEF next
        <5> QED BY <2>5, <5>1
      <4> HIDE DEF next
      <4>3. f[next] = Best(f, start, links, next)
        BY <2>1, <4>1, <4>2 DEF Searches
      <4>4. g[next] = f[next]
        BY <2>3, <4>1, <4>3
      <4> QED BY <4>4 DEF next
    <3>2. Extensions(g, links, path) = Extensions(f, links, path)
      BY <3>1 DEF Extensions
    <3>3. Best(g, start, links, path) = Best(f, start, links, path)
      BY <3>2 DEF Best
    <3> QED BY <2>3, <3>3
  <2>6. Found(g) /\ Searches(g, start, links, k + 1)
    BY <2>4, <2>5 DEF Found, Searches
  <2> QED BY <2>2, <2>6
<1>3. Cardinality(Nodes) + 1 \in T
  <2>1. Cardinality(Nodes) + 1 \in Nat
    BY MapAssumption, FS_CardinalityType
  <2> HIDE DEF T
  <2> QED BY <1>1, <1>2, <2>1, SetInduction
<1>4. PICK f : f = [path \in D |-> f[path]]
               /\ Searches(f, start, links, Cardinality(Nodes) + 1)
  BY <1>3
<1>5. ASSUME NEW path \in D PROVE f[path] = Best(f, start, links, path)
  <2>1. path[2] \in SUBSET Nodes
    OBVIOUS
  <2>2. Cardinality(Nodes \ path[2]) < Cardinality(Nodes) + 1
    BY <2>1, UnseenType
  <2> QED BY <1>4, <2>2 DEF Searches
<1>6. [path \in D |-> f[path]] = [path \in D |-> Best(f, start, links, path)]
  BY <1>5
<1>7. IsSearch(f, start, links)
  BY <1>4, <1>6 DEF IsSearch, Best, Closing, Extensions
<1> QED BY <1>7

LEMMA SearchFacts ==
  ASSUME NEW start, NEW links, NEW f, IsSearch(f, start, links)
  PROVE  /\ \A path \in Nodes \X SUBSET Nodes : f[path] = Best(f, start, links, path)
         /\ Found(f)
<1>1. ASSUME NEW path \in Nodes \X SUBSET Nodes PROVE f[path] = Best(f, start, links, path)
  BY IsSearch(f, start, links) DEF IsSearch, Best, Closing, Extensions
<1> DEFINE T == {k \in Nat : \A path \in Nodes \X SUBSET Nodes :
                   Cardinality(Nodes \ path[2]) < k =>
                     f[path] \in Nat /\ f[path] <= Cardinality(Nodes)}
<1>2. 0 \in T
  <2>1. ASSUME NEW path \in Nodes \X SUBSET Nodes
        PROVE  ~ (Cardinality(Nodes \ path[2]) < 0)
    <3>1. path[2] \in SUBSET Nodes
      OBVIOUS
    <3>2. Cardinality(Nodes \ path[2]) \in Nat
      BY <3>1, UnseenType
    <3> QED BY <3>2
  <2> QED BY <2>1
<1>3. ASSUME NEW k \in Nat, k \in T PROVE k + 1 \in T
  <2> SUFFICES ASSUME NEW path \in Nodes \X SUBSET Nodes,
                      Cardinality(Nodes \ path[2]) < k + 1
               PROVE  f[path] \in Nat /\ f[path] <= Cardinality(Nodes)
    OBVIOUS
  <2>1. ASSUME NEW n \in Neighbours(links, path[1]) \ path[2]
        PROVE  /\ f[<<n, path[2] \cup {n}>>] \in Nat
               /\ f[<<n, path[2] \cup {n}>>] <= Cardinality(Nodes)
    <3> DEFINE next == <<n, path[2] \cup {n}>>
    <3>1. next \in Nodes \X SUBSET Nodes /\ next[2] = path[2] \cup {n}
      BY NextPath
    <3>2. Cardinality(Nodes \ next[2]) < k
      <4>1. /\ Cardinality(Nodes \ next[2]) < Cardinality(Nodes \ path[2])
            /\ Cardinality(Nodes \ next[2]) \in Nat /\ Cardinality(Nodes \ path[2]) \in Nat
        BY <3>1, NextPath
      <4> HIDE DEF next
      <4> QED BY <4>1
    <3> HIDE DEF next
    <3>3. f[next] \in Nat /\ f[next] <= Cardinality(Nodes)
      BY <1>3, <3>1, <3>2
    <3> QED BY <3>3 DEF next
  <2>2. Best(f, start, links, path) \in Nat
        /\ Best(f, start, links, path) <= Cardinality(Nodes)
    BY <2>1, BestFacts
  <2> QED BY <1>1, <2>2
<1>4. Cardinality(Nodes) + 1 \in T
  <2>1. Cardinality(Nodes) + 1 \in Nat
    BY MapAssumption, FS_CardinalityType
  <2> HIDE DEF T
  <2> QED BY <1>2, <1>3, <2>1, SetInduction
<1>5. ASSUME NEW path \in Nodes \X SUBSET Nodes
      PROVE  f[path] \in Nat /\ f[path] <= Cardinality(Nodes)
  <2>1. path[2] \in SUBSET Nodes
    OBVIOUS
  <2>2. Cardinality(Nodes \ path[2]) < Cardinality(Nodes) + 1
    BY <2>1, UnseenType
  <2> QED BY <1>4, <2>2
<1> QED BY <1>1, <1>5 DEF Found

(* What a search finds is a closed path through its start, and it misses   *)
(* none that is longer.                                                    *)
ClosedAt(links, start, v) ==
  v = 0 \/ (v \in Nat /\ \E c \in Cycles(links, v) : c[1] = start)

LEMMA SearchFindsCycles ==
  ASSUME NEW start \in Nodes, NEW links, NEW f, IsSearch(f, start, links),
         NEW i \in Nat, i >= 1, NEW p \in Paths(links, i), p[1] = start
  PROVE  ClosedAt(links, start, f[<<p[i], Visited(p, i)>>])
<1> DEFINE T == {m \in Nat : \A j \in Nat : \A q \in Paths(links, j) :
                   j >= 1 /\ q[1] = start /\ Cardinality(Nodes) < j + m =>
                     ClosedAt(links, start, f[<<q[j], Visited(q, j)>>])}
<1>1. 0 \in T
  <2>1. ASSUME NEW j \in Nat, NEW q \in Paths(links, j) PROVE ~ (Cardinality(Nodes) < j + 0)
    BY VisitedSize
  <2> QED BY <2>1
<1>2. ASSUME NEW m \in Nat, m \in T PROVE m + 1 \in T
  <2> SUFFICES ASSUME NEW j \in Nat, NEW q \in Paths(links, j), j >= 1, q[1] = start,
                      Cardinality(Nodes) < j + (m + 1)
               PROVE  ClosedAt(links, start, f[<<q[j], Visited(q, j)>>])
    OBVIOUS
  <2> DEFINE path == <<q[j], Visited(q, j)>>
  <2>1. /\ q \in [1 .. j -> Nodes] /\ Visited(q, j) \in SUBSET Nodes
        /\ Cardinality(Visited(q, j)) = j
    <3>1. j \in 0 .. j
      OBVIOUS
    <3>2. Visited(q, j) \in SUBSET Nodes /\ Cardinality(Visited(q, j)) = j
      BY <3>1, VisitedSize
    <3>3. q \in [1 .. j -> Nodes]
      BY DEF Paths
    <3> QED BY <3>2, <3>3
  <2>2. path \in Nodes \X SUBSET Nodes /\ path[1] = q[j] /\ path[2] = Visited(q, j)
    BY <2>1
  <2> HIDE DEF path
  <2>3. f[path] \in {0, Closing(start, links, path)} \cup Extensions(f, links, path)
    <3>1. f[path] = Best(f, start, links, path)
      BY <2>2, SearchFacts
    <3>2. \A n \in Neighbours(links, path[1]) \ path[2] :
            /\ f[<<n, path[2] \cup {n}>>] \in Nat
            /\ f[<<n, path[2] \cup {n}>>] <= Cardinality(Nodes)
      BY <2>2, NextPath, SearchFacts DEF Found
    <3>3. Best(f, start, links, path)
            \in ({Closing(start, links, path)} \cup Extensions(f, links, path)) \cup {0}
      BY <2>2, <3>2, BestFacts
    <3> QED BY <3>1, <3>3
  <2>4. ClosedAt(links, start, 0)
    BY DEF ClosedAt
  <2>5. ClosedAt(links, start, Closing(start, links, path))
    <3>1. CASE start \in Neighbours(links, q[j]) /\ j >= 3
      <4>1. Closing(start, links, path) = j
        BY <2>1, <2>2, <3>1 DEF Closing
      <4>2. {start, q[j]} = {q[j], q[1]}
        OBVIOUS
      <4>3. q \in Cycles(links, j)
        BY <3>1, <4>2 DEF Cycles, Neighbours
      <4> QED BY <4>1, <4>3 DEF ClosedAt
    <3>2. CASE ~ (start \in Neighbours(links, q[j]) /\ j >= 3)
      BY <2>1, <2>2, <2>4, <3>2 DEF Closing
    <3> QED BY <3>1, <3>2
  <2>6. ASSUME NEW v \in Extensions(f, links, path) PROVE ClosedAt(links, start, v)
    <3>1. PICK n \in Neighbours(links, q[j]) \ Visited(q, j) :
            v = f[<<n, Visited(q, j) \cup {n}>>]
      BY <2>2 DEF Extensions
    <3> DEFINE r == [x \in 1 .. j + 1 |-> IF x = j + 1 THEN n ELSE q[x]]
    <3>2. n \in Nodes /\ {q[j], n} \in links /\ n \notin Visited(q, j)
      <4>1. {n, q[j]} = {q[j], n}
        OBVIOUS
      <4> QED BY <3>1, <4>1 DEF Neighbours
    <3>3. /\ r \in Paths(links, j + 1) /\ r[1] = q[1] /\ r[j + 1] = n
          /\ Visited(r, j + 1) = Visited(q, j) \cup {n}
      BY <3>2, PathExtended
    <3> HIDE DEF r
    <3>4. j + 1 \in Nat /\ j + 1 >= 1 /\ Cardinality(Nodes) < (j + 1) + m
      BY MapAssumption, FS_CardinalityType
    <3>5. ClosedAt(links, start, f[<<r[j + 1], Visited(r, j + 1)>>])
      BY <1>2, <3>3, <3>4
    <3> QED BY <3>1, <3>3, <3>5
  <2> QED BY <2>3, <2>4, <2>5, <2>6 DEF path
<1>3. Cardinality(Nodes) \in T
  <2>1. Cardinality(Nodes) \in Nat
    BY MapAssumption, FS_CardinalityType
  <2> HIDE DEF T
  <2> QED BY <1>1, <1>2, <2>1, SetInduction
<1>4. Cardinality(Nodes) < i + Cardinality(Nodes)
  BY MapAssumption, FS_CardinalityType
<1> QED BY <1>3, <1>4

LEMMA SearchMissesNone ==
  ASSUME NEW start \in Nodes, NEW links, NEW f, IsSearch(f, start, links),
         NEW k \in Nat, NEW c \in Cycles(links, k), c[1] = start, NEW i \in 1 .. k
  PROVE  k <= f[<<c[i], Visited(c, i)>>]
<1>1. /\ k >= 3 /\ c \in [1 .. k -> Nodes] /\ {c[k], c[1]} \in links
      /\ \A j \in 1 .. k - 1 : {c[j], c[j + 1]} \in links
      /\ \A a, b \in 1 .. k : c[a] = c[b] => a = b
  BY DEF Cycles, Paths
<1> DEFINE T == {m \in Nat : \A j \in 1 .. k : k <= j + m => k <= f[<<c[j], Visited(c, j)>>]}
<1>2. ASSUME NEW j \in 1 .. k
      PROVE  LET path == <<c[j], Visited(c, j)>>
             IN  /\ path \in Nodes \X SUBSET Nodes
                 /\ Cardinality(path[2]) = j
                 /\ f[path] \in Nat /\ Closing(start, links, path) <= f[path]
                 /\ \A v \in Extensions(f, links, path) : v <= f[path]
  <2> DEFINE path == <<c[j], Visited(c, j)>>
  <2>1. c \in Paths(links, k) /\ j \in 0 .. k
    BY DEF Cycles
  <2>2. path \in Nodes \X SUBSET Nodes /\ Cardinality(path[2]) = j
    BY <1>1, <2>1, VisitedSize
  <2> HIDE DEF path
  <2>3. f[path] = Best(f, start, links, path) /\ f[path] \in Nat
    BY <2>2, SearchFacts DEF Found
  <2>4. \A n \in Neighbours(links, path[1]) \ path[2] :
          /\ f[<<n, path[2] \cup {n}>>] \in Nat
          /\ f[<<n, path[2] \cup {n}>>] <= Cardinality(Nodes)
    BY <2>2, NextPath, SearchFacts DEF Found
  <2>5. \A x \in {Closing(start, links, path)} \cup Extensions(f, links, path) :
          x <= Best(f, start, links, path)
    BY <2>2, <2>4, BestFacts
  <2> QED BY <2>2, <2>3, <2>5 DEF path
<1>3. 0 \in T
  <2> SUFFICES k <= f[<<c[k], Visited(c, k)>>]
    OBVIOUS
  <2> DEFINE path == <<c[k], Visited(c, k)>>
  <2>1. Closing(start, links, path) <= f[path] /\ Cardinality(path[2]) = k
    BY <1>1, <1>2
  <2>2. start \in Neighbours(links, path[1])
    <3>1. c[1] # c[k] /\ {c[1], c[k]} = {c[k], c[1]} /\ path[1] = c[k]
      BY <1>1
    <3> QED BY <1>1, <3>1 DEF Neighbours
  <2>3. Closing(start, links, path) = k
    BY <1>1, <2>1, <2>2 DEF Closing
  <2> QED BY <2>1, <2>3
<1>4. ASSUME NEW m \in Nat, m \in T PROVE m + 1 \in T
  <2> SUFFICES ASSUME NEW j \in 1 .. k, k <= j + (m + 1)
               PROVE  k <= f[<<c[j], Visited(c, j)>>]
    OBVIOUS
  <2>1. CASE j = k
    BY <1>3, <2>1
  <2>2. CASE j # k
    <3> DEFINE path == <<c[j], Visited(c, j)>>
               n    == c[j + 1]
    <3>1. j \in 1 .. k - 1 /\ j + 1 \in 1 .. k /\ k <= (j + 1) + m
      BY <2>2
    <3>2. n \in Neighbours(links, path[1]) /\ n \notin path[2]
      <4>1. {c[j], c[j + 1]} \in links /\ c[j] # c[j + 1] /\ c[j + 1] \in Nodes
        BY <1>1, <3>1
      <4>2. {c[j + 1], c[j]} = {c[j], c[j + 1]}
        OBVIOUS
      <4>3. c[j + 1] \notin Visited(c, j)
        BY <1>1, <3>1 DEF Visited
      <4> QED BY <4>1, <4>2, <4>3 DEF Neighbours
    <3>3. path[2] \cup {n} = Visited(c, j + 1)
      BY <3>1 DEF Visited
    <3>4. f[<<n, Visited(c, j + 1)>>] \in Extensions(f, links, path)
      BY <3>2, <3>3 DEF Extensions
    <3>5. /\ f[<<n, Visited(c, j + 1)>>] <= f[path]
          /\ f[path] \in Nat /\ f[<<n, Visited(c, j + 1)>>] \in Nat
      BY <1>2, <3>1, <3>4
    <3>6. k <= f[<<n, Visited(c, j + 1)>>]
      BY <1>4, <3>1
    <3> HIDE DEF path, n
    <3>7. k <= f[path]
      BY <3>5, <3>6
    <3> QED BY <3>7 DEF path
  <2> QED BY <2>1, <2>2
<1>5. k \in T
  <2> HIDE DEF T
  <2> QED BY <1>3, <1>4, SetInduction
<1> QED BY <1>5

LEMMA LongestFrom ==
  ASSUME NEW start \in Nodes, NEW links
  PROVE  LET v == LargestCycleFrom(start, links)
         IN  /\ v \in Nat /\ v <= Cardinality(Nodes)
             /\ ClosedAt(links, start, v)
             /\ \A k \in Nat : \A c \in Cycles(links, k) : c[1] = start => k <= v
<1> DEFINE dfs[path \in Nodes \X SUBSET Nodes] ==
             LET joined == Neighbours(links, path[1])
                 depth  == Cardinality(path[2])
             IN MaxOf({IF start \in joined /\ depth >= 3 THEN depth ELSE 0}
                      \cup {dfs[<<n, path[2] \cup {n}>>] : n \in joined \ path[2]})
<1>1. LargestCycleFrom(start, links) = dfs[<<start, {start}>>]
  BY DEF LargestCycleFrom
<1>2. IsSearch(dfs, start, links)
  <2>1. \E f : IsSearch(f, start, links)
    BY SearchExists
  <2> QED BY <2>1 DEF IsSearch
<1> HIDE DEF dfs
<1>3. dfs[<<start, {start}>>] \in Nat /\ dfs[<<start, {start}>>] <= Cardinality(Nodes)
  BY <1>2, SearchFacts DEF Found
<1>4. ClosedAt(links, start, dfs[<<start, {start}>>])
  <2> DEFINE p == [i \in 1 .. 1 |-> start]
  <2>1. p \in [1 .. 1 -> Nodes] /\ p[1] = start
    OBVIOUS
  <2> HIDE DEF p
  <2>2. p \in Paths(links, 1) /\ Visited(p, 1) = {start}
    BY <2>1 DEF Paths, Visited
  <2> QED BY <1>2, <2>1, <2>2, SearchFindsCycles
<1>5. ASSUME NEW k \in Nat, NEW c \in Cycles(links, k), c[1] = start
      PROVE  k <= dfs[<<start, {start}>>]
  <2>1. 1 \in 1 .. k
    BY DEF Cycles
  <2>2. Visited(c, 1) = {start}
    BY <1>5 DEF Visited
  <2>3. k <= dfs[<<c[1], Visited(c, 1)>>]
    BY <1>2, <1>5, <2>1, SearchMissesNone
  <2> QED BY <1>5, <2>2, <2>3
<1> QED BY <1>1, <1>3, <1>4, <1>5

-----------------------------------------------------------------------------
(* Trees.  A component with a loop has as many lines as nodes: from the    *)
(* loop, whose lines are as many as its nodes, each further node comes     *)
(* with a line of its own.                                                 *)
Within(links, S) == {l \in links : l \subseteq S}

LEMMA WithinFinite ==
  ASSUME NEW links \in SUBSET Links, NEW S
  PROVE  /\ Within(links, S) \in SUBSET links
         /\ IsFiniteSet(Within(links, S)) /\ Cardinality(Within(links, S)) \in Nat
<1>1. Within(links, S) \in SUBSET links /\ Within(links, S) \in SUBSET Links
  BY DEF Within
<1> QED BY <1>1, LinksFinite

LEMMA NodeSets ==
  ASSUME NEW S \in SUBSET Nodes
  PROVE  IsFiniteSet(S) /\ Cardinality(S) \in Nat /\ Cardinality(S) <= Cardinality(Nodes)
         /\ Cardinality(Nodes) \in Nat
<1>1. IsFiniteSet(Nodes)
  BY MapAssumption
<1> QED BY <1>1, FS_Subset, FS_CardinalityType

LEMMA LoopNeedsLines ==
  ASSUME NEW links \in SUBSET Links, NEW start \in Nodes,
         NEW k \in Nat, NEW c \in Cycles(links, k), c[1] = start
  PROVE  LET R == Reachable(links, {start})
         IN  Cardinality(R) <= Cardinality(Within(links, R))
<1> DEFINE R == Reachable(links, {start})
           L == Visited(c, k)
           K == {S \in SUBSET R : /\ L \subseteq S
                                  /\ Cardinality(S) <= Cardinality(Within(links, S))}
<1>1. /\ R \in SUBSET Nodes /\ start \in R /\ Closed(links, R)
      /\ \A S \in SUBSET Nodes : start \in S /\ Closed(links, S) => R \subseteq S
  <2>1. {start} \in SUBSET Nodes
    OBVIOUS
  <2> QED BY <2>1, ReachableFacts
<1>2. /\ UNION Sides(c, k) = L /\ Sides(c, k) \subseteq links
      /\ IsFiniteSet(Sides(c, k)) /\ Cardinality(Sides(c, k)) = k
  BY SidesSize
<1>3. start \in L
  BY DEF Visited, Cycles
<1>4. L \subseteq R
  <2> HIDE DEF R, L
  <2> QED BY <1>1, <1>2, <1>3, CycleIsLoop, LoopInside
<1>5. L \in K
  <2>1. Cardinality(L) = k
    <3>1. c \in Paths(links, k) /\ k \in 0 .. k
      BY DEF Cycles
    <3> QED BY <3>1, VisitedSize
  <2>2. Sides(c, k) \in SUBSET Within(links, L)
    BY <1>2 DEF Within
  <2> HIDE DEF L
  <2>3. k <= Cardinality(Within(links, L))
    BY <1>2, <2>2, WithinFinite, FS_Subset
  <2> QED BY <1>4, <2>1, <2>3
<1>6. PICK S \in K : \A U \in K : Cardinality(U) <= Cardinality(S)
  <2>1. IsFiniteSet(R) /\ K \in SUBSET SUBSET R /\ K # {}
    BY <1>1, <1>5, NodeSets
  <2> HIDE DEF K, R, L
  <2> QED BY <2>1, SmallestAndLargest
<1>7. /\ S \in SUBSET R /\ L \subseteq S /\ S \in SUBSET Nodes
      /\ Cardinality(S) <= Cardinality(Within(links, S))
  BY <1>1
<1> HIDE DEF R, L
<1>8. S = R
  <2> SUFFICES ASSUME S # R PROVE FALSE
    OBVIOUS
  <2>1. ~ Closed(links, S)
    BY <1>1, <1>3, <1>7
  <2>2. PICK l \in links : l \cap S # {} /\ ~ (l \subseteq S)
    BY <2>1 DEF Closed
  <2>3. PICK b \in l : b \notin S
    BY <2>2
  <2> DEFINE U == S \cup {b}
  <2>4. l \subseteq R
    BY <1>1, <1>7, <2>2 DEF Closed
  <2>5. U \in SUBSET R /\ L \subseteq U /\ l \subseteq U
    <3>1. PICK x, y \in Nodes : l = {x, y}
      BY LineEnds
    <3> QED BY <1>7, <2>2, <2>3, <2>4, <3>1
  <2>6. Cardinality(U) = Cardinality(S) + 1
    BY <1>7, <2>3, NodeSets, FS_AddElement
  <2>7. Cardinality(Within(links, S)) + 1 <= Cardinality(Within(links, U))
    <3> DEFINE W == Within(links, S)
    <3>1. W \cup {l} \in SUBSET Within(links, U) /\ l \notin W
      BY <2>3, <2>5 DEF Within
    <3>2. IsFiniteSet(W) /\ IsFiniteSet(Within(links, U)) /\ Cardinality(W) \in Nat
          /\ Cardinality(Within(links, U)) \in Nat
      BY WithinFinite
    <3> HIDE DEF W, U
    <3>3. Cardinality(W \cup {l}) = Cardinality(W) + 1
      BY <3>1, <3>2, FS_AddElement
    <3>4. Cardinality(W \cup {l}) <= Cardinality(Within(links, U))
      BY <3>1, <3>2, FS_Subset
    <3> QED BY <3>3, <3>4 DEF W
  <2>8. /\ Cardinality(S) \in Nat /\ Cardinality(Within(links, S)) \in Nat
        /\ Cardinality(Within(links, U)) \in Nat
    BY <1>7, NodeSets, WithinFinite
  <2> HIDE DEF U
  <2>9. U \in K
    BY <1>7, <2>5, <2>6, <2>7, <2>8
  <2> QED BY <1>6, <2>6, <2>8, <2>9
<1> QED BY <1>7, <1>8 DEF R

(* And nodes with as many lines among them have a loop: a smallest such    *)
(* set of nodes has two lines at each of them.                             *)
LEMMA LinesMakeALoop ==
  ASSUME NEW links \in SUBSET Links, NEW R \in SUBSET Nodes, R # {},
         Cardinality(R) <= Cardinality(Within(links, R))
  PROVE  \E k \in Nat : \E c \in Cycles(links, k) : c[1] \in R
<1> DEFINE K == {S \in SUBSET R : S # {} /\ Cardinality(S) <= Cardinality(Within(links, S))}
<1>1. PICK S \in K : \A U \in K : Cardinality(S) <= Cardinality(U)
  <2>1. IsFiniteSet(R) /\ K \in SUBSET SUBSET R /\ R \in K
    BY NodeSets
  <2> HIDE DEF K
  <2> QED BY <2>1, SmallestAndLargest
<1>2. /\ S \in SUBSET R /\ S # {} /\ S \in SUBSET Nodes
      /\ Cardinality(S) <= Cardinality(Within(links, S))
  OBVIOUS
<1> DEFINE E == Within(links, S)
<1>3. /\ IsFiniteSet(S) /\ IsFiniteSet(E)
      /\ Cardinality(S) \in Nat /\ Cardinality(E) \in Nat
  BY <1>2, NodeSets, WithinFinite
<1>4. E \in SUBSET Links /\ E \in SUBSET links /\ UNION E \subseteq S
  BY DEF Within
<1>5. E # {}
  <2> HIDE DEF E
  <2>1. Cardinality(S) # 0
    BY <1>2, <1>3, FS_EmptySet
  <2>2. Cardinality(E) # 0
    BY <1>2, <1>3, <2>1 DEF E
  <2> QED BY <2>2, FS_EmptySet
<1>6. ASSUME NEW n \in UNION E PROVE \E l, m \in E : l # m /\ n \in l /\ n \in m
  <2> SUFFICES ASSUME \A l, m \in E : n \in l /\ n \in m => l = m
               PROVE  FALSE
    OBVIOUS
  <2>1. PICK l \in E : n \in l
    BY <1>6
  <2> DEFINE U == S \ {n}
             F == Within(links, U)
  <2>2. n \in S
    BY <1>4, <1>6
  <2>3. U # {}
    <3>1. PICK a, b \in Nodes : a # b /\ l = {a, b}
      BY <1>4, <2>1, LineEnds
    <3>2. a \in S /\ b \in S
      BY <1>4, <2>1, <3>1
    <3> QED BY <3>1, <3>2
  <2>4. Cardinality(U) = Cardinality(S) - 1
    BY <1>3, <2>2, FS_RemoveElement
  <2>5. E \ {l} \in SUBSET F
    <3>1. ASSUME NEW m \in E, m # l PROVE m \in F
      <4>1. n \notin m
        BY <2>1, <3>1
      <4> QED BY <4>1 DEF Within
    <3> QED BY <3>1
  <2>6. IsFiniteSet(F) /\ Cardinality(F) \in Nat
    BY WithinFinite
  <2> HIDE DEF U, F, E
  <2>7. Cardinality(E) - 1 <= Cardinality(F)
    <3>1. Cardinality(E \ {l}) = Cardinality(E) - 1
      BY <1>3, <2>1, FS_RemoveElement
    <3>2. Cardinality(E \ {l}) <= Cardinality(F)
      BY <2>5, <2>6, FS_Subset
    <3> QED BY <3>1, <3>2
  <2>8. Cardinality(U) <= Cardinality(F)
    BY <1>2, <1>3, <2>4, <2>6, <2>7 DEF E
  <2>9. U \in K
    BY <1>2, <2>3, <2>8 DEF U, F
  <2>10. Cardinality(S) <= Cardinality(U)
    BY <1>1, <2>9
  <2> QED BY <1>3, <2>4, <2>10
<1> HIDE DEF E, K
<1>7. PICK k \in Nat : Cycles(E, k) # {}
  BY <1>4, <1>5, <1>6, TwoLinesEach
<1>8. PICK c \in Cycles(E, k) : TRUE
  BY <1>7
<1>9. c \in Cycles(links, k)
  BY <1>4 DEF Cycles, Paths
<1>10. c[1] \in R
  <2>1. Sides(c, k) \subseteq E /\ UNION Sides(c, k) = Visited(c, k)
    BY SidesSize
  <2>2. c[1] \in Visited(c, k)
    BY DEF Visited, Cycles
  <2> QED BY <1>2, <1>4, <2>1, <2>2
<1> QED BY <1>9, <1>10

-----------------------------------------------------------------------------
(* Reaching goes both ways.                                                *)
LEMMA SameReach ==
  ASSUME NEW links \in SUBSET Links, NEW n \in Nodes, NEW m \in Reachable(links, {n})
  PROVE  m \in Nodes /\ Reachable(links, {m}) = Reachable(links, {n})
<1> DEFINE R(x) == Reachable(links, {x})
<1>1. ASSUME NEW x \in Nodes
      PROVE  /\ R(x) \in SUBSET Nodes /\ x \in R(x) /\ Closed(links, R(x))
             /\ \A S \in SUBSET Nodes : x \in S /\ Closed(links, S) => R(x) \subseteq S
  <2>1. {x} \in SUBSET Nodes
    OBVIOUS
  <2> QED BY <2>1, ReachableFacts
<1>2. m \in Nodes /\ m \in R(n)
  BY <1>1
<1> HIDE DEF R
<1>3. R(m) \subseteq R(n)
  BY <1>1, <1>2
<1>4. n \in R(m)
  <2> SUFFICES ASSUME n \notin R(m) PROVE FALSE
    OBVIOUS
  <2> DEFINE Rest == Nodes \ R(m)
  <2>1. Closed(links, Rest)
    <3> SUFFICES ASSUME NEW l \in links, l \cap Rest # {} PROVE l \subseteq Rest
      BY DEF Closed
    <3>1. l \in SUBSET Nodes /\ Closed(links, R(m))
      BY <1>1, <1>2, LineEnds
    <3>2. l \cap R(m) # {} => l \subseteq R(m)
      BY <3>1 DEF Closed
    <3> QED BY <3>1, <3>2
  <2>2. n \in Rest /\ Rest \in SUBSET Nodes
    OBVIOUS
  <2>3. R(n) \subseteq Rest
    <3> HIDE DEF Rest
    <3> QED BY <1>1, <2>1, <2>2
  <2> QED BY <1>1, <1>2, <2>3
<1>5. R(n) \subseteq R(m)
  BY <1>1, <1>2, <1>4
<1> QED BY <1>2, <1>3, <1>5 DEF R

(* What the code computes for the component of one node, and what it is by *)
(* the rules.                                                              *)
ScoreAt(links, n) ==
  LET component == Component(links, n)
      edges     == {l \in links : l \subseteq component}
      loop      == IF Cardinality(edges) >= Cardinality(component)
                   THEN LargestCycleSize(component, links) ELSE 1
  IN loop + Cardinality(component)

Reached(links, nodes) == Cardinality(nodes) + Cardinality(Reachable(links, nodes))

LEMMA LargestInside ==
  ASSUME NEW links, NEW R \in SUBSET Nodes
  PROVE  LET v == LargestCycleSize(R, links)
         IN  /\ v \in Nat /\ v <= Cardinality(Nodes)
             /\ v = 0 \/ \E c \in Cycles(links, v) : c[1] \in R
             /\ \A k \in Nat : \A c \in Cycles(links, k) : c[1] \in R => k <= v
<1> DEFINE S == {LargestCycleFrom(n, links) : n \in R}
           v == LargestCycleSize(R, links)
<1>1. ASSUME NEW x \in S
      PROVE  /\ x \in Nat /\ x <= Cardinality(Nodes)
             /\ x = 0 \/ \E c \in Cycles(links, x) : c[1] \in R
  BY LongestFrom DEF ClosedAt
<1>2. ASSUME NEW k \in Nat, NEW c \in Cycles(links, k), c[1] \in R
      PROVE  \E x \in S : k <= x
  BY <1>2, LongestFrom
<1>3. S \in SUBSET Nat /\ \A x \in S : x <= Cardinality(Nodes)
  <2> HIDE DEF S
  <2> QED BY <1>1
<1>4. /\ v \in Nat /\ v <= Cardinality(Nodes) /\ v \in S \cup {0} /\ \A x \in S : x <= v
  <2>1. v = MaxOf(S)
    BY DEF LargestCycleSize
  <2>2. Cardinality(Nodes) \in Nat
    BY MapAssumption, FS_CardinalityType
  <2> HIDE DEF S, v
  <2> QED BY <1>3, <2>1, <2>2, MaxOfLargest
<1> HIDE DEF S, v
<1>5. v = 0 \/ \E c \in Cycles(links, v) : c[1] \in R
  BY <1>1, <1>4
<1>6. ASSUME NEW k \in Nat, NEW c \in Cycles(links, k), c[1] \in R PROVE k <= v
  <2>1. PICK x \in S : k <= x
    BY <1>2, <1>6
  <2> QED BY <1>3, <1>4, <2>1
<1> QED BY <1>4, <1>5, <1>6 DEF v

LEMMA CycleReached ==
  ASSUME NEW links \in SUBSET Links, NEW k \in Nat, NEW c \in Cycles(links, k)
  PROVE  /\ Sides(c, k) \in Loops(links) /\ c[1] \in Nodes
         /\ c[1] \in UNION Sides(c, k) /\ k >= 3
         /\ Reached(links, UNION Sides(c, k)) = k + Cardinality(Reachable(links, {c[1]}))
<1> DEFINE V == UNION Sides(c, k)
<1>1. V = Visited(c, k)
  BY SidesSize
<1>2. k >= 3 /\ c \in [1 .. k -> Nodes] /\ c \in Paths(links, k)
  BY DEF Cycles, Paths
<1>3. c[1] \in Nodes /\ c[1] \in V
  BY <1>1, <1>2 DEF Visited
<1>4. Cardinality(V) = k
  <2>1. k \in 0 .. k
    OBVIOUS
  <2>2. Cardinality(Visited(c, k)) = k
    BY <1>2, <2>1, VisitedSize
  <2> QED BY <1>1, <2>2
<1>5. Sides(c, k) \in Loops(links)
  BY CycleIsLoop
<1>6. Reachable(links, V) = Reachable(links, {c[1]})
  BY <1>3, <1>5, LoopReaches
<1> HIDE DEF V
<1> QED BY <1>2, <1>3, <1>4, <1>5, <1>6 DEF Reached, V

LEMMA ScoreAtFacts ==
  ASSUME NEW links \in SUBSET Links, NEW n \in Nodes
  PROVE  /\ ScoreAt(links, n) \in Nat
         /\ ScoreAt(links, n) <= Cardinality(Nodes) + Cardinality(Nodes) + 1
         /\ Reached(links, {n}) <= ScoreAt(links, n)
         /\ \/ ScoreAt(links, n) = Reached(links, {n})
            \/ \E loop \in Loops(links) : ScoreAt(links, n) = Reached(links, UNION loop)
         /\ \A loop \in Loops(links) :
              n \in UNION loop => Reached(links, UNION loop) <= ScoreAt(links, n)
<1> DEFINE R == Reachable(links, {n})
           v == LargestCycleSize(R, links)
           size == Cardinality(R)
<1>1. R \in SUBSET Nodes /\ n \in R
  <2>1. {n} \in SUBSET Nodes
    OBVIOUS
  <2> QED BY <2>1, ReachableFacts
<1>2. ScoreAt(links, n) = (IF Cardinality(Within(links, R)) >= size THEN v ELSE 1) + size
  BY ComponentIsReachable DEF ScoreAt, Within
<1>3. Reached(links, {n}) = 1 + size
  BY FS_Singleton DEF Reached
<1>4. /\ v \in Nat /\ v <= Cardinality(Nodes)
      /\ v = 0 \/ \E c \in Cycles(links, v) : c[1] \in R
      /\ \A k \in Nat : \A c \in Cycles(links, k) : c[1] \in R => k <= v
  BY <1>1, LargestInside
<1>5. ASSUME NEW m \in R PROVE m \in Nodes /\ Reachable(links, {m}) = R
  BY SameReach
<1>6. /\ size \in Nat /\ size <= Cardinality(Nodes) /\ Cardinality(Nodes) \in Nat
      /\ Cardinality(Within(links, R)) \in Nat
  BY <1>1, NodeSets, WithinFinite
<1>7. ASSUME Cardinality(Within(links, R)) >= size PROVE v >= 3
  <2>1. PICK k \in Nat : \E c \in Cycles(links, k) : c[1] \in R
    <3>1. R # {} /\ size <= Cardinality(Within(links, R))
      BY <1>1, <1>6, <1>7
    <3> HIDE DEF R
    <3> QED BY <1>1, <3>1, LinesMakeALoop DEF size
  <2>2. k <= v /\ k >= 3
    BY <1>4, <2>1 DEF Cycles
  <2> HIDE DEF v
  <2> QED BY <1>4, <2>2
<1>8. ASSUME NEW loop \in Loops(links), n \in UNION loop
      PROVE  /\ Cardinality(Within(links, R)) >= size
             /\ Reached(links, UNION loop) <= v + size
  <2>1. PICK k \in Nat : \E c \in Cycles(links, k) : Sides(c, k) = loop
    BY LoopIsCycle
  <2>2. PICK c \in Cycles(links, k) : Sides(c, k) = loop
    BY <2>1
  <2>3. /\ c[1] \in Nodes /\ c[1] \in UNION loop
        /\ Reached(links, UNION loop) = k + Cardinality(Reachable(links, {c[1]}))
    BY <2>2, CycleReached
  <2>4. c[1] \in R
    <3>1. Closed(links, R)
      <4>1. {n} \in SUBSET Nodes
        OBVIOUS
      <4> QED BY <4>1, ReachableFacts
    <3> HIDE DEF R
    <3>2. UNION loop \subseteq R
      BY <1>1, <1>8, <3>1, LoopInside
    <3> QED BY <2>3, <3>2
  <2>5. Reachable(links, {c[1]}) = R
    BY <1>5, <2>4
  <2>6. size <= Cardinality(Within(links, R))
    <3>1. Cardinality(Reachable(links, {c[1]}))
            <= Cardinality(Within(links, Reachable(links, {c[1]})))
      BY <2>3, LoopNeedsLines
    <3> QED BY <2>5, <3>1
  <2>7. k <= v
    BY <1>4, <2>4
  <2> HIDE DEF R, v
  <2> QED BY <1>4, <1>6, <2>3, <2>5, <2>6, <2>7
<1>9. ASSUME v >= 3
      PROVE  \E loop \in Loops(links) : v + size = Reached(links, UNION loop)
  <2> HIDE DEF v, R
  <2>1. PICK c \in Cycles(links, v) : c[1] \in R
    BY <1>4, <1>9
  <2>2. /\ Sides(c, v) \in Loops(links)
        /\ Reached(links, UNION Sides(c, v)) = v + Cardinality(Reachable(links, {c[1]}))
    BY <1>4, <2>1, CycleReached
  <2>3. Reachable(links, {c[1]}) = R
    BY <1>5, <2>1
  <2> QED BY <2>2, <2>3
<1> HIDE DEF v, R, size
<1>10. CASE Cardinality(Within(links, R)) >= size
  <2>1. ScoreAt(links, n) = v + size
    BY <1>2, <1>10
  <2>2. v >= 3
    BY <1>7, <1>10
  <2>3. \A loop \in Loops(links) :
          n \in UNION loop => Reached(links, UNION loop) <= ScoreAt(links, n)
    BY <1>8, <2>1
  <2>4. \E loop \in Loops(links) : ScoreAt(links, n) = Reached(links, UNION loop)
    BY <1>9, <2>1, <2>2
  <2>5. /\ ScoreAt(links, n) \in Nat
        /\ ScoreAt(links, n) <= Cardinality(Nodes) + Cardinality(Nodes) + 1
        /\ Reached(links, {n}) <= ScoreAt(links, n)
    BY <1>3, <1>4, <1>6, <2>1, <2>2
  <2> QED BY <2>3, <2>4, <2>5
<1>11. CASE ~ (Cardinality(Within(links, R)) >= size)
  <2>1. ScoreAt(links, n) = 1 + size
    BY <1>2, <1>11
  <2>2. \A loop \in Loops(links) : n \notin UNION loop
    BY <1>8, <1>11
  <2>3. /\ ScoreAt(links, n) \in Nat /\ ScoreAt(links, n) = Reached(links, {n})
        /\ ScoreAt(links, n) <= Cardinality(Nodes) + Cardinality(Nodes) + 1
        /\ Reached(links, {n}) <= ScoreAt(links, n)
    BY <1>3, <1>6, <2>1
  <2> QED BY <2>2, <2>3
<1> QED BY <1>10, <1>11

(* A node without lines reaches itself.                                    *)
LEMMA UntouchedReach ==
  ASSUME NEW links \in SUBSET Links, NEW n \in Nodes, n \notin UNION links
  PROVE  Reached(links, {n}) = 2
<1>1. {n} \in SUBSET Nodes /\ Closed(links, {n})
  BY DEF Closed
<1>2. Reachable(links, {n}) = {n}
  BY <1>1, ReachableFacts
<1>3. Cardinality({n}) = 1
  BY FS_Singleton
<1>4. Reached(links, {n}) = Cardinality({n}) + Cardinality({n})
  BY <1>2, Zenon DEF Reached
<1> QED BY <1>3, <1>4

LEMMA LeastReach ==
  ASSUME NEW links \in SUBSET Links, NEW n \in Nodes
  PROVE  Reached(links, {n}) \in Nat /\ Reached(links, {n}) >= 2
<1> DEFINE R == Reachable(links, {n})
<1>1. R \in SUBSET Nodes /\ n \in R
  <2>1. {n} \in SUBSET Nodes
    OBVIOUS
  <2> QED BY <2>1, ReachableFacts
<1>2. IsFiniteSet(R) /\ Cardinality(R) \in Nat /\ Cardinality(R) # 0
  <2> HIDE DEF R
  <2> QED BY <1>1, NodeSets, FS_EmptySet
<1>3. Reached(links, {n}) = 1 + Cardinality(R)
  BY FS_Singleton DEF Reached
<1> HIDE DEF R
<1> QED BY <1>2, <1>3

LEMMA ScoreIsBest ==
  ASSUME NEW links \in SUBSET Links
  PROVE  ScoreForPlayer(links) =
           Max({Reached(links, {n}) : n \in Nodes}
               \cup {Reached(links, UNION loop) : loop \in Loops(links)})
<1> DEFINE S == {2} \cup {ScoreAt(links, n) : n \in UNION links}
           A == {Reached(links, {n}) : n \in Nodes}
           B == {Reached(links, UNION loop) : loop \in Loops(links)}
           N == Cardinality(Nodes) + Cardinality(Nodes) + 3
<1>1. ScoreForPlayer(links) = Max(S)
  BY DEF ScoreForPlayer, ScoreAt
<1>2. N \in Nat /\ Cardinality(Nodes) \in Nat
  BY MapAssumption, FS_CardinalityType
<1>3. UNION links \subseteq Nodes
  BY LineEnds
<1>4. ASSUME NEW x \in S PROVE x \in Nat /\ x <= N /\ \E y \in A \cup B : x <= y
  <2>1. CASE x = 2
    <3>1. PICK n \in Nodes : TRUE
      BY MapAssumption
    <3>2. Reached(links, {n}) \in A /\ 2 <= Reached(links, {n})
      BY LeastReach
    <3> HIDE DEF A, B
    <3> QED BY <1>2, <2>1, <3>2
  <2>2. CASE x # 2
    <3>1. PICK n \in Nodes : x = ScoreAt(links, n)
      BY <1>3, <2>2
    <3>2. x \in Nat /\ x <= N
      <4>1. ScoreAt(links, n) \in Nat
            /\ ScoreAt(links, n) <= Cardinality(Nodes) + Cardinality(Nodes) + 1
        BY ScoreAtFacts
      <4> QED BY <1>2, <3>1, <4>1
    <3>3. x \in A \cup B
      BY <3>1, ScoreAtFacts
    <3>4. x <= x
      BY <3>2
    <3> QED BY <3>2, <3>3, <3>4
  <2> QED BY <2>1, <2>2
<1>5. ASSUME NEW y \in A \cup B PROVE y \in Nat /\ y <= N /\ \E x \in S : y <= x
  <2>1. ASSUME NEW n \in UNION links, y \in Nat, y <= ScoreAt(links, n)
        PROVE  y \in Nat /\ y <= N /\ \E x \in S : y <= x
    <3>1. ScoreAt(links, n) \in S
      OBVIOUS
    <3>2. ScoreAt(links, n) \in Nat
          /\ ScoreAt(links, n) <= Cardinality(Nodes) + Cardinality(Nodes) + 1
      BY <1>3, ScoreAtFacts
    <3> HIDE DEF S
    <3> QED BY <1>2, <2>1, <3>1, <3>2
  <2>2. CASE y \in A
    <3>1. PICK n \in Nodes : y = Reached(links, {n})
      BY <2>2
    <3>2. CASE n \in UNION links
      <4>1. y \in Nat /\ y <= ScoreAt(links, n)
        BY <3>1, ScoreAtFacts, LeastReach
      <4> QED BY <2>1, <3>2, <4>1
    <3>3. CASE n \notin UNION links
      <4>1. y = 2
        BY <3>1, <3>3, UntouchedReach
      <4> QED BY <1>2, <4>1
    <3> QED BY <3>2, <3>3
  <2>3. CASE y \in B
    <3>1. PICK loop \in Loops(links) : y = Reached(links, UNION loop)
      BY <2>3
    <3>2. PICK k \in Nat : \E c \in Cycles(links, k) : Sides(c, k) = loop
      BY LoopIsCycle
    <3>3. PICK c \in Cycles(links, k) : Sides(c, k) = loop
      BY <3>2
    <3>4. /\ c[1] \in UNION loop /\ c[1] \in Nodes
          /\ y = k + Cardinality(Reachable(links, {c[1]}))
      BY <3>1, <3>3, CycleReached
    <3>5. y <= ScoreAt(links, c[1])
      BY <3>1, <3>4, ScoreAtFacts
    <3>6. c[1] \in UNION links
      BY <3>4 DEF Loops
    <3>7. y \in Nat
      <4>1. {c[1]} \in SUBSET Nodes
        BY <3>4
      <4>2. Reachable(links, {c[1]}) \in SUBSET Nodes
        BY <4>1, ReachableFacts
      <4>3. Cardinality(Reachable(links, {c[1]})) \in Nat
        BY <4>2, NodeSets
      <4> QED BY <3>4, <4>3
    <3> QED BY <2>1, <3>5, <3>6, <3>7
  <2> QED BY <2>2, <2>3
<1>6. Max(S) = Max(A \cup B)
  <2> DEFINE U == A \cup B
  <2>1. S # {} /\ U # {}
    <3>1. 2 \in S
      OBVIOUS
    <3> HIDE DEF A, B
    <3> QED BY <1>4, <3>1
  <2>2. S \in SUBSET Nat /\ U \in SUBSET Nat
    <3> HIDE DEF A, B, S
    <3> QED BY <1>4, <1>5
  <2>3. \A x \in S : x <= N /\ \E y \in U : x <= y
    <3> HIDE DEF A, B, S, N
    <3> QED BY <1>4
  <2>4. \A y \in U : y <= N /\ \E x \in S : y <= x
    <3> HIDE DEF A, B, S, N
    <3> QED BY <1>5
  <2>5. Max(S) = Max(U)
    <3> HIDE DEF S, U, N
    <3> QED BY <1>2, <2>1, <2>2, <2>3, <2>4, SameMax
  <2> QED BY <2>5
<1> QED BY <1>1, <1>6

(* A player's score is the best over all loops, a single node being one.   *)
(* At any time every player's score, as the code computes it from the size *)
(* of a component and a depth-first search for its longest loop            *)
(* (scoring.ts:42), is the best the rules allow: over all loops the lines  *)
(* contain, a single node being one, twice the loop and the other nodes it *)
(* reaches.  It holds of any lines; the search runs when the game ends.    *)
THEOREM ScoreAlwaysBestLoop == Spec => []ScoreIsBestLoop
<1>1. TypeOK => ScoreIsBestLoop
  <2> SUFFICES ASSUME TypeOK, NEW s \in Seats
               PROVE  ScoreForPlayer(ownedLinks[s]) =
                        Max({Reached(ownedLinks[s], {n}) : n \in Nodes}
                            \cup {Reached(ownedLinks[s], UNION loop) :
                                    loop \in Loops(ownedLinks[s])})
    BY DEF ScoreIsBestLoop, Reached
  <2>1. ownedLinks[s] \in SUBSET Links
    BY DEF TypeOK
  <2> QED BY <2>1, ScoreIsBest
<1> QED BY <1>1, TypeCorrect, PTL
=============================================================================
