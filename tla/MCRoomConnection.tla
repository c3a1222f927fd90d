-------------------------- MODULE MCRoomConnection --------------------------
(* The instance of RoomConnection that is checked; its constants are       *)
(* numbers.                                                                *)
EXTENDS RoomConnection, TLC
=============================================================================
