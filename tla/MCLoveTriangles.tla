-------------------------- MODULE MCLoveTriangles --------------------------
(***************************************************************************)
(* Instances of LoveTriangles for TLC: the lines of the real map between   *)
(* some of its nodes, with their coordinates and costs.                    *)
(***************************************************************************)
EXTENDS LoveTriangles

MCNodes == {"A", "B", "C", "D", "E"}

MCX == [A |-> -1895, B |-> 1998, C |-> -3662, D |-> 234, E |-> 2349]
MCY == [A |-> 3817, B |-> 2485, C |-> 914, D |-> 874, E |-> 434]

MCCost ==
  LET Cost(l) == CASE l = {"A", "B"} -> 4 [] l = {"A", "C"} -> 3 [] l = {"A", "D"} -> 3
                   [] l = {"A", "E"} -> 5 [] l = {"B", "C"} -> 5 [] l = {"B", "D"} -> 2
                   [] l = {"B", "E"} -> 2 [] l = {"C", "D"} -> 3 [] l = {"C", "E"} -> 6
                   [] l = {"D", "E"} -> 2
      pairs   == {p \in MCNodes \X MCNodes : p[1] # p[2]}
  IN [l \in {{p[1], p[2]} : p \in pairs} |-> Cost(l)]

L(a, b) == {a, b}

(* In the first order a purchase early in the game sweeps the display, in  *)
(* the second a card is drawn late that crosses two lines.                 *)
MCShuffles ==
  {<<L("A", "B"), L("B", "C"), L("A", "D"), L("A", "E"), L("C", "E"), L("B", "D"),
     L("A", "C"), L("C", "D"), L("D", "E"), L("B", "E")>>,
   <<L("B", "C"), L("B", "D"), L("A", "B"), L("A", "C"), L("C", "D"), L("D", "E"),
     L("A", "E"), L("A", "D"), L("B", "E"), L("C", "E")>>}
=============================================================================
