--------------------------- MODULE LoveTriangles ---------------------------
(***************************************************************************)
(* The rules engine of Love Triangles (packages/engine-love-triangles):    *)
(* players buy lines between the nodes of a map from a display of cards,   *)
(* and a card whose line crosses a line already drawn leaves the display.  *)
(*                                                                         *)
(* A line is the set of its two nodes.  The display is six slots: 1 to 3   *)
(* are the top row, from which cards are bought, and slot c + 3 lies under *)
(* slot c.  A step is one accepted move with the refills, the sweep and    *)
(* the game end that follow it.  A player's lines and the discards are     *)
(* sets: no rule looks at their order.                                     *)
(***************************************************************************)
EXTENDS Integers, Sequences, FiniteSetsExt

CONSTANTS NumSeats,
          Nodes,
          X, Y,       \* coordinates of each node, in thousandths
          BaseCost,   \* of each line of the map
          Shuffles,   \* orders the cards may be shuffled into
          FirstGems,  \* gems of the first seat
          MaxGems,    \* bound: nobody passes beyond it
          None

Seats == 1 .. NumSeats
Links == DOMAIN BaseCost

TopRow    == 1 .. 3
BottomRow == 4 .. 6
Slots     == TopRow \cup BottomRow

ASSUME SeatsAssumption == NumSeats \in Nat \ {0}
ASSUME MapAssumption ==
  /\ Nodes # {} /\ IsFiniteSet(Nodes)
  /\ Links \subseteq SUBSET Nodes /\ None \notin Links
  /\ \A l \in Links : \E a, b \in Nodes : a # b /\ l = {a, b}
  /\ X \in [Nodes -> Int] /\ Y \in [Nodes -> Int]
  /\ BaseCost \in [Links -> Nat]
ASSUME GemsAssumption == FirstGems \in Nat /\ MaxGems \in Nat
ASSUME ShufflesAssumption ==
  \A cards \in Shuffles :
    /\ cards \in Seq(Links) /\ Len(cards) = Cardinality(Links) /\ Len(cards) >= 6
    /\ \A l \in Links : \E i \in 1 .. Len(cards) : cards[i] = l

VARIABLES
  ownedLinks,  \* lines each seat has drawn
  table,       \* display, deck, discards and gems: what a sweep changes
  activeSeat, phase,
  winner       \* the winning seats, once the game has ended

vars == <<ownedLinks, table, activeSeat, phase, winner>>

Table == [display     : [Slots -> Links \cup {None}],
          deck        : Seq(Links),
          discardPile : SUBSET Links,
          gems        : [Seats -> Int]]

TypeOK ==
  /\ ownedLinks \in [Seats -> SUBSET Links]
  /\ table \in Table /\ \A s \in Seats : table.gems[s] >= 0
  /\ activeSeat \in Seats
  /\ phase \in {"playing", "ended"}
  /\ winner \in SUBSET Seats

-----------------------------------------------------------------------------
(* Geometry.  On which side of the line from p to q the node r lies.       *)
Orientation(p, q, r) == (X[q] - X[p]) * (Y[r] - Y[p]) - (Y[q] - Y[p]) * (X[r] - X[p])

OppositeSides(p, q, r, s) ==
  \/ Orientation(p, q, r) > 0 /\ Orientation(p, q, s) < 0
  \/ Orientation(p, q, r) < 0 /\ Orientation(p, q, s) > 0

SegmentsCross(p, q, r, s) == OppositeSides(r, s, p, q) /\ OppositeSides(p, q, r, s)

(* Lines that fan out from a shared node do not cross.                     *)
Crosses ==
  {pair \in Links \X Links :
     /\ pair[1] \cap pair[2] = {}
     /\ \E p, q \in pair[1], r, s \in pair[2] : p # q /\ r # s /\ SegmentsCross(p, q, r, s)}

CrossesAny(link, drawn) == \E d \in drawn : <<link, d>> \in Crosses

AllOwnedLinks(owned) == UNION {owned[s] : s \in Seats}

-----------------------------------------------------------------------------
(* Mutant of RefillDisplay: the promoted card is left behind as well.      *)
RefillKeepingBottom(t) ==
  [t EXCEPT !.display = [c \in Slots |-> IF c \in TopRow /\ t.display[c] = None
                                         THEN t.display[c + 3] ELSE t.display[c]]]

(* The display.  A card moves up into an empty slot over it, and then the  *)
(* empty slots of the bottom row draw from the end of the deck.            *)
Promoted(t) ==
  [t EXCEPT !.display = [c \in Slots |->
     CASE c \in TopRow /\ t.display[c] = None -> t.display[c + 3]
       [] c \in BottomRow /\ t.display[c - 3] = None -> None
       [] OTHER -> t.display[c]]]

Drawn(t) ==
  LET empty   == {c \in BottomRow : t.display[c] = None}
      Turn(c) == Cardinality({d \in empty : d <= c})
      left    == Max({0, Len(t.deck) - Cardinality(empty)})
  IN [t EXCEPT !.display = [c \in Slots |-> IF c \in empty /\ Turn(c) <= Len(t.deck)
                                            THEN t.deck[Len(t.deck) + 1 - Turn(c)]
                                            ELSE t.display[c]],
               !.deck = SubSeq(t.deck, 1, left)]

RefillDisplay(t) == Drawn(Promoted(t))

Unplayable(t, owned) ==
  {c \in Slots : t.display[c] # None /\ CrossesAny(t.display[c], AllOwnedLinks(owned))}

(* Mutant of RemoveFirst: an owner is paid once for every line of theirs   *)
(* that is crossed.                                                        *)
RemovePayingPerLine(t, owned) ==
  LET c    == Min(Unplayable(t, owned))
      link == t.display[c]
  IN [t EXCEPT !.display[c] = None,
               !.discardPile = @ \cup {link},
               !.gems = [s \in Seats |->
                           @[s] + Cardinality({d \in owned[s] : <<link, d>> \in Crosses})]]

(* The first unplayable card leaves, and each owner of a line it crosses   *)
(* is paid one gem, however many of them are crossed.                      *)
RemoveFirst(t, owned) ==
  LET c    == Min(Unplayable(t, owned))
      link == t.display[c]
  IN [t EXCEPT !.display[c] = None,
               !.discardPile = @ \cup {link},
               !.gems = [s \in Seats |->
                           @[s] + (IF CrossesAny(link, owned[s]) THEN 1 ELSE 0)]]

(* One look over the display.  (A sweep of a single look is also the       *)
(* mutant of SweepUnplayable.)                                             *)
SweepOnce(t, owned) ==
  IF Unplayable(t, owned) = {} THEN t ELSE RefillDisplay(RemoveFirst(t, owned))

(* Every look but the last discards a card, so as many looks as there are  *)
(* cards end the loop.                                                     *)
SweepUnplayable(t, owned) ==
  LET swept[n \in 0 .. Cardinality(Links)] ==
        IF n = 0 THEN t ELSE SweepOnce(swept[n - 1], owned)
  IN swept[Cardinality(Links)]

-----------------------------------------------------------------------------
(* Costs.  Besides the base cost a buyer pays a gem for each node of the   *)
(* line and each player present there: to that player, or to the bank when *)
(* it is the buyer.                                                        *)
IsPresent(seat, node) == \E l \in ownedLinks[seat] : node \in l

PresenceFee(seat, link) == Cardinality({n \in link : IsPresent(seat, n)})

EffectiveCost(link) ==
  BaseCost[link] + Cardinality({p \in Seats \X link : IsPresent(p[1], p[2])})

(* Mutant: the fees of presence are not part of what must be affordable.   *)
AffordsBaseCost(seat, link) == table.gems[seat] >= BaseCost[link]

Affords(seat, link) == table.gems[seat] >= EffectiveCost(link)

NextSeat(seat) == (seat % NumSeats) + 1

-----------------------------------------------------------------------------
(* Scoring.  The nodes a player's lines join to a node, searched depth     *)
(* first, and the longest loop through it.                                 *)
Neighbours(links, n) == {m \in Nodes : m # n /\ {m, n} \in links}

Component(links, start) ==
  LET grow[seen \in SUBSET Nodes] ==
        LET more == seen \cup UNION {Neighbours(links, n) : n \in seen}
        IN IF more = seen THEN seen ELSE grow[more]
  IN grow[{start}]

MaxOf(S) == Max(S \cup {0})

(* Depth-first along paths that repeat no node, from the node a path has   *)
(* got to and those it has visited; a path of three nodes or more that     *)
(* reaches its start again is a loop.                                      *)
LargestCycleFrom(start, links) ==
  LET dfs[path \in Nodes \X SUBSET Nodes] ==
        LET joined == Neighbours(links, path[1])
            depth  == Cardinality(path[2])
        IN MaxOf({IF start \in joined /\ depth >= 3 THEN depth ELSE 0}
                 \cup {dfs[<<n, path[2] \cup {n}>>] : n \in joined \ path[2]})
  IN dfs[<<start, {start}>>]

LargestCycleSize(component, links) ==
  MaxOf({LargestCycleFrom(n, links) : n \in component})

(* Mutant: every component is taken to be a tree.                          *)
ScoreWithoutLoops(links) ==
  Max({2} \cup {1 + Cardinality(Component(links, n)) : n \in UNION links})

(* A tree has no loop but a single node; so has a player without lines.    *)
ScoreForPlayer(links) ==
  LET touched   == UNION links
      Score(n)  == LET component == Component(links, n)
                       edges     == {l \in links : l \subseteq component}
                       loop      == IF Cardinality(edges) >= Cardinality(component)
                                    THEN LargestCycleSize(component, links) ELSE 1
                   IN loop + Cardinality(component)
  IN Max({2} \cup {Score(n) : n \in touched})

DetermineWinners(owned, gems) ==
  LET score      == [s \in Seats |-> ScoreForPlayer(owned[s])]
      best       == Max({score[s] : s \in Seats})
      topScorers == {s \in Seats : score[s] = best}
      mostGems   == Max({gems[s] : s \in topScorers})
  IN {s \in topScorers : gems[s] = mostGems}

IsGameOver(t) == \A c \in Slots : t.display[c] = None

-----------------------------------------------------------------------------
(* Later seats start with more gems.                                       *)
DealGame(cards) ==
  /\ ownedLinks = [s \in Seats |-> {}]
  /\ table = [display     |-> [c \in Slots |-> cards[c]],
              deck        |-> SubSeq(cards, 7, Len(cards)),
              discardPile |-> {},
              gems        |-> [s \in Seats |-> FirstGems + s - 1]]
  /\ activeSeat = 1
  /\ phase = "playing"
  /\ winner = {}

Init == \E cards \in Shuffles : DealGame(cards)

RequireActiveSeat(seat) == phase = "playing" /\ activeSeat = seat

(* Four gems instead of a line.  The bound keeps the gems finite.          *)
Pass(seat) ==
  /\ RequireActiveSeat(seat)
  /\ table.gems[seat] + 4 <= MaxGems
  /\ table' = [table EXCEPT !.gems[seat] = @ + 4]
  /\ activeSeat' = NextSeat(seat)
  /\ UNCHANGED <<ownedLinks, phase, winner>>

(* The game ends with the move that leaves the display empty.              *)
ApplyGameEndIfDone(seat) ==
  IF IsGameOver(table')
  THEN /\ phase' = "ended"
       /\ winner' = DetermineWinners(ownedLinks', table'.gems)
       /\ UNCHANGED activeSeat
  ELSE activeSeat' = NextSeat(seat) /\ UNCHANGED <<phase, winner>>

PaidFor(t, seat, slot) ==
  LET link == t.display[slot]
  IN [t EXCEPT !.display[slot] = None,
               !.gems = [s \in Seats |-> IF s = seat THEN @[s] - EffectiveCost(link)
                                         ELSE @[s] + PresenceFee(s, link)]]

BuyLink(seat, slot) ==
  LET link == table.display[slot]
  IN /\ RequireActiveSeat(seat)
     /\ link # None
     /\ Affords(seat, link)
     /\ ownedLinks' = [ownedLinks EXCEPT ![seat] = @ \cup {link}]
     /\ table' = SweepUnplayable(RefillDisplay(PaidFor(table, seat, slot)), ownedLinks')
     /\ ApplyGameEndIfDone(seat)

(* A finished game stays as it is.                                         *)
Finished == phase = "ended" /\ UNCHANGED vars

Next ==
  \/ \E seat \in Seats : Pass(seat)
  \/ \E seat \in Seats, slot \in TopRow : BuyLink(seat, slot)
  \/ Finished

Spec == Init /\ [][Next]_vars

-----------------------------------------------------------------------------
(* No two lines on the map cross.  Nothing at the purchase checks it: it   *)
(* rests on every earlier sweep having cleared the whole display.          *)
NoCrossing ==
  \A l, m \in AllOwnedLinks(ownedLinks) : <<l, m>> \notin Crosses

(* A card is in one place: drawn by one seat, in one slot, at one place of *)
(* the deck, or discarded.                                                 *)
CardsConserved ==
  \A l \in Links :
    Cardinality({s \in Seats : l \in ownedLinks[s]})
      + Cardinality({c \in Slots : table.display[c] = l})
      + Cardinality({i \in 1 .. Len(table.deck) : table.deck[i] = l})
      + Cardinality({d \in table.discardPile : d = l}) = 1

(* Between moves no slot is empty over a card, and none is empty at all    *)
(* while the deck has cards: an empty display means an empty deck.         *)
DisplayStocked ==
  /\ \A c \in TopRow : table.display[c] = None => table.display[c + 3] = None
  /\ table.deck # <<>> => \A c \in Slots : table.display[c] # None

(* Between moves every card on display can be drawn without crossing.      *)
DisplayPlayable ==
  \A c \in Slots, s \in Seats : \A l \in ownedLinks[s] : <<table.display[c], l>> \notin Crosses

(* No card was thrown away that could still have been drawn.               *)
DiscardsCross ==
  \A l \in table.discardPile : CrossesAny(l, AllOwnedLinks(ownedLinks))

(* What the refills and sweeps of a whole game leave on the table is sound:*)
(* no lines cross, every card on display can be drawn, none is missing,    *)
(* and none was discarded for nothing.                                     *)
DisplaySound ==
  NoCrossing /\ DisplayPlayable /\ DisplayStocked /\ DiscardsCross

(* A loop as the rules mean it: lines that meet two by two at their nodes  *)
(* and do not fall apart into several loops.                               *)
Loops(links) ==
  {loop \in SUBSET links :
     /\ loop # {}
     /\ \A n \in UNION loop : Cardinality({l \in loop : n \in l}) = 2
     /\ \A part \in (SUBSET loop) \ {{}, loop} : (UNION part) \cap (UNION (loop \ part)) # {}}

(* The nodes reachable from some nodes: those in every set that holds them *)
(* and that no line leaves.                                                *)
Reachable(links, from) ==
  {n \in Nodes : \A S \in SUBSET Nodes :
     from \subseteq S /\ (\A l \in links : l \cap S # {} => l \subseteq S) => n \in S}

(* A player's score is the best over all loops, a single node being one,   *)
(* of twice the loop and the other nodes it reaches.  The code computes it *)
(* from the size of a component and the longest loop a search finds.       *)
ScoreIsBestLoop ==
  LET Worth(links, loop) == Cardinality(loop) + Cardinality(Reachable(links, loop))
  IN \A s \in Seats :
       ScoreForPlayer(ownedLinks[s]) =
         Max({Worth(ownedLinks[s], {n}) : n \in Nodes}
             \cup {Worth(ownedLinks[s], UNION loop) : loop \in Loops(ownedLinks[s])})

(* What a purchase and the sweep after it move: the buyer pays the price   *)
(* shown before the move, the others receive their fees, and each card the *)
(* sweep discards pays one gem to every owner of a line it crosses.        *)
PurchaseAccounted(seat) ==
  LET bought    == ownedLinks'[seat] \ ownedLinks[seat]
      discarded == table'.discardPile \ table.discardPile
      Compensation(s) == Cardinality({l \in discarded : CrossesAny(l, ownedLinks'[s])})
  IN \A link \in bought :
       /\ bought = {link}
       /\ \A s \in Seats :
            table'.gems[s] = table.gems[s] + Compensation(s)
              + (IF s = seat THEN -EffectiveCost(link) ELSE PresenceFee(s, link))

GemsAccounted == [][\A seat \in Seats : PurchaseAccounted(seat)]_vars

=============================================================================
