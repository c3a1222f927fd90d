---------------------------- MODULE MCRoomStore ----------------------------
(***************************************************************************)
(* Instances of RoomStore for TLC: alice with up to two connections and    *)
(* bob with one.                                                           *)
(***************************************************************************)
EXTENDS RoomStore, TLC

CONSTANTS alice, bob, a1, a2, b1

MCAccountOf == [s \in Sockets |-> IF s = b1 THEN bob ELSE alice]

SameAccountSockets == Permutations({a1, a2})
=============================================================================
