--------------------------- MODULE SeatOwnership ---------------------------
(***************************************************************************)
(* What the room store promises about who owns a seat, for each room       *)
(* incarnation (a room's durable roomId, which outlives its reusable code).*)
(*                                                                         *)
(* A seat is open until an account claims it; the claim is never moved to  *)
(* another account for as long as the room exists.  Closing a room is      *)
(* final, except in the narrow interval in which a handler that was        *)
(* already holding the room writes it back ("closing").                    *)
(***************************************************************************)
EXTENDS Naturals

CONSTANTS RoomIds,   \* the durable room identities
          Seats,
          Accounts,
          None       \* "no account": an open seat

VARIABLE rooms       \* rooms[i]: the life cycle and the owners of room i

Unclaimed == [seat \in Seats |-> None]

Unborn         == [status |-> "unborn",  owner |-> Unclaimed]
Closed         == [status |-> "closed",  owner |-> Unclaimed]
Open(owner)    == [status |-> "open",    owner |-> owner]
Closing(owner) == [status |-> "closing", owner |-> owner]

Init == rooms = [i \in RoomIds |-> Unborn]

Opens(i) == rooms[i] = Unborn /\ rooms'[i] = Open(Unclaimed)

(* An account takes a seat nobody owns; the save of a late claim re-opens  *)
(* a room that was being closed.                                           *)
Claims(i) ==
  /\ rooms[i].status \in {"open", "closing"}
  /\ \E seat \in Seats, account \in Accounts :
        /\ rooms[i].owner[seat] = None
        /\ rooms'[i] = Open([rooms[i].owner EXCEPT ![seat] = account])

Reopens(i) == rooms[i].status = "closing" /\ rooms'[i] = Open(rooms[i].owner)

Closes(i) ==
  \/ rooms[i].status = "open" /\ rooms'[i] = Closing(rooms[i].owner)
  \/ rooms[i].status \in {"open", "closing"} /\ rooms'[i] = Closed

RoomStep(i) == Opens(i) \/ Claims(i) \/ Reopens(i) \/ Closes(i)

(* Rooms are independent: one step of the server may end one room and      *)
(* begin another.                                                          *)
Next == \A i \in RoomIds : RoomStep(i) \/ rooms'[i] = rooms[i]

Spec == Init /\ [][Next]_rooms
=============================================================================
