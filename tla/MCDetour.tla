------------------------------ MODULE MCDetour ------------------------------
(***************************************************************************)
(* Instances of Detour for TLC: a small board that wraps around.           *)
(***************************************************************************)
EXTENDS Detour

(* The highest value, and so the pawn, is in the middle of the reading     *)
(* order; the values around it rise.                                       *)
MCBoardShuffles ==
  LET n == Rows * Cols IN {[i \in 1 .. n |-> ((i + n \div 2 - 1) % n) + 1]}

(* Four cards a seat: the extremes, and two values in the middle.          *)
MCCardShuffles == {<<2, Rows * Cols, 4, 1>>}

MCDeckIds == {[s \in Seats |-> IF s % 2 = 1 THEN "A" ELSE "C"]}
=============================================================================
