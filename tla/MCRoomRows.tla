----------------------------- MODULE MCRoomRows -----------------------------
(* The instance of RoomRows that is checked; every constant is a number.   *)
EXTENDS RoomRows, TLC
=============================================================================
