-------------------------- MODULE MCMintCondition --------------------------
(***************************************************************************)
(* Instances of MintCondition for TLC: a few prizes, money cards up to     *)
(* three, and prices those cards can reach.                                *)
(***************************************************************************)
EXTENDS MintCondition

CONSTANTS NumPrizes, NumCards

MCPrizes == 1 .. NumPrizes

(* Points fall, colors alternate.                                          *)
MCPoints == [p \in MCPrizes |-> NumPrizes - p]

MCColor == [p \in MCPrizes |-> IF p % 2 = 0 THEN "red" ELSE "blue"]

(* Which prize lies where matters only to the score: one order is enough.  *)
MCPrizeShuffles == {[i \in 1 .. NumPrizes |-> i]}

(* The highest cards are dealt first: early bids reach the upper slots.    *)
MCCardShuffles == {[i \in 1 .. NumCards |-> i]}

(* The first list has a price for every bid, the second none for one.      *)
MCPriceLists == {[i \in 0 .. 5 |-> i + 1], [i \in 0 .. 5 |-> i + 2]}
=============================================================================
