--------------------------- MODULE RoomConnection ---------------------------
(***************************************************************************)
(* A browser tab's connection to a room                                    *)
(* (packages/client/src/state/useRoomConnection.ts, seatToken.ts): how it  *)
(* gets its seat when it connects, keeps the token of it, and follows what *)
(* the server (packages/platform/src/socket/roomHandlers.ts) answers, over *)
(* a connection that breaks and comes back.                                *)
(*                                                                         *)
(* One account and one seat of a room that stays; a tab that has a fixed   *)
(* role (hotseat mode) never asks for another.  The server runs a handler  *)
(* up to its save in one step, in the order in which the requests of its   *)
(* connection came; saves end in any order, and the handler answers when   *)
(* its own has.  When a connection breaks some of what the client sent     *)
(* last is lost; the rest is served as long as the server has not noticed. *)
(* The tab's socket is known to the server by the number of the            *)
(* connection, 0 being nobody.                                             *)
(***************************************************************************)
EXTENDS Naturals, Sequences, SequencesExt

CONSTANTS None,           \* no seat
          MaxConnections, \* bound: times the client connects
          MaxClicks       \* bound: clicks on "join" or "leave"

ASSUME BoundsAssumption == MaxConnections \in Nat /\ MaxClicks \in Nat

Connections == 1 .. MaxConnections
Tokens      == Nat \ {0}   \* 0: no token

(* The live record of the seat; sock 0 says that its player is away.       *)
Seat == [token : Tokens, sock : 0 .. MaxConnections]

ASSUME NoneAssumption == None \notin Seat

Events   == {"reconnect_room", "reconnect_by_account", "join_room", "leave_seat"}
Request  == [event : Events, token : Nat]
Saved    == [event : Events, token : Nat, sock : Connections]
Reply    == [event : Events, token : Nat, ok : BOOLEAN]
Statuses == {"connecting", "picking-role", "in-room"}

VARIABLES
  seat,      \* the server: the seat's live record
  owner,     \* the account that has claimed the seat: "nobody", "me", "other"
  bound,     \* the sockets bound to the seat
  saving,    \* handlers that await their save
  nextToken, \* the next seat token
  unseen,    \* connections that broke, which the server has yet to notice
  fixed,     \* the client: whether its role is fixed
  online,    \* whether its socket is connected
  sock,      \* its connection, the last one while there is none
  status,    \* what the page shows
  stored,    \* the seat token in localStorage
  link,      \* the token in the page's address
  buffer,    \* what was emitted while there was no connection
  up,        \* of each connection: its requests on their way
  down,      \* replies on their way
  clicks,    \* clicks so far
  crossed,   \* a leave was emitted for this connection while there was none
             \* or other requests were out, or a request of an earlier one
             \* was served since
  left       \* a leave was ever emitted

server == <<seat, owner, bound, saving, nextToken>>
client == <<fixed, status, stored, link, clicks, crossed, left>>
vars   == <<server, unseen, client, online, sock, buffer, up, down>>

TypeOK ==
  /\ seat \in Seat \cup {None}
  /\ owner \in {"nobody", "me", "other"}
  /\ bound \subseteq Connections /\ unseen \subseteq Connections
  /\ saving \in Seq(Saved)
  /\ nextToken \in Tokens
  /\ status \in Statuses
  /\ stored \in Nat /\ link \in Nat
  /\ sock \in 0 .. MaxConnections
  /\ clicks \in 0 .. MaxClicks
  /\ buffer \in Seq(Request) /\ up \in [Connections -> Seq(Request)] /\ down \in Seq(Reply)
  /\ {fixed, online, crossed, left} \subseteq BOOLEAN

(* A page is loaded by a player who was never here, or by one who was: the *)
(* seat may have lapsed since, or be in its grace, and the token may be in *)
(* localStorage, in the link of an e-mail, in both or in neither.          *)
Init ==
  /\ \/ owner = "nobody" /\ seat = None /\ stored = 0 /\ link = 0
     \/ /\ owner = "me"
        /\ seat \in {None, [token |-> 1, sock |-> 0]}
        /\ stored \in {0, 1} /\ link \in {0, 1}
  /\ nextToken = 2
  /\ bound = {} /\ saving = <<>> /\ unseen = {}
  /\ fixed \in BOOLEAN
  /\ online = FALSE /\ sock = 0
  /\ status = "connecting"
  /\ buffer = <<>> /\ up = [c \in Connections |-> <<>>] /\ down = <<>>
  /\ clicks = 0 /\ crossed = FALSE /\ left = FALSE

Ask(event, token) == [event |-> event, token |-> token]
-----------------------------------------------------------------------------
(* The network                                                             *)

(* Mutant of FirstRequest: a page without a token asks for a role at once. *)
TokenOnly ==
  LET token == IF ~fixed /\ link # 0 THEN link ELSE stored IN
  IF token # 0 THEN <<Ask("reconnect_room", token)>>
  ELSE IF fixed THEN <<Ask("join_room", 0)>> ELSE <<>>

(* The link comes before localStorage, the account before the picker.      *)
FirstRequest ==
  LET token == IF ~fixed /\ link # 0 THEN link ELSE stored IN
  IF token # 0 THEN <<Ask("reconnect_room", token)>>
  ELSE <<Ask(IF fixed THEN "join_room" ELSE "reconnect_by_account", 0)>>

(* The address is stripped of its token; what was buffered goes first.     *)
Connect ==
  /\ ~online /\ sock < MaxConnections
  /\ online' = TRUE /\ sock' = sock + 1
  /\ up' = [up EXCEPT ![sock + 1] = buffer \o FirstRequest]
  /\ buffer' = <<>>
  /\ link' = IF fixed THEN link ELSE 0
  /\ crossed' = \E i \in DOMAIN buffer : buffer[i].event = "leave_seat"
  /\ UNCHANGED <<server, unseen, fixed, status, stored, clicks, left, down>>

Drop ==
  /\ online
  /\ online' = FALSE
  /\ \E n \in 0 .. Len(up[sock]) : up' = [up EXCEPT ![sock] = SubSeq(@, 1, n)]
  /\ down' = <<>>
  /\ unseen' = unseen \cup {sock}
  /\ UNCHANGED <<server, client, sock, buffer>>
-----------------------------------------------------------------------------
(* The server                                                              *)

(* The handler of a request that has changed the room: it saves.           *)
Save(c, event, token) ==
  /\ saving' = Append(saving, [event |-> event, token |-> token, sock |-> c])
  /\ UNCHANGED down

(* A reply to a connection that is gone is lost.                           *)
Replied(c, event, ok, token) ==
  IF online /\ c = sock THEN Append(down, [event |-> event, ok |-> ok, token |-> token])
                         ELSE down

Answer(c, event, ok) == down' = Replied(c, event, ok, 0) /\ UNCHANGED saving

Refuse(c, event) == Answer(c, event, FALSE) /\ UNCHANGED <<seat, owner, bound, nextToken>>

TokenFits(token) == seat # None /\ seat.token = token

ReconnectRoom(c, token) ==
  \/ /\ TokenFits(token)
     /\ seat' = [seat EXCEPT !.sock = c]
     /\ owner' = IF owner = "nobody" THEN "me" ELSE owner
     /\ bound' = bound \cup {c}
     /\ Save(c, "reconnect_room", token)
     /\ UNCHANGED nextToken
  \/ ~TokenFits(token) /\ Refuse(c, "reconnect_room")

TakeEmptySeat(c, event) ==
  /\ seat' = [token |-> nextToken, sock |-> c]
  /\ owner' = "me"
  /\ bound' = bound \cup {c}
  /\ nextToken' = nextToken + 1
  /\ Save(c, event, nextToken)

ReconnectByAccount(c) ==
  \/ /\ owner = "me" /\ seat # None
     /\ seat' = [seat EXCEPT !.sock = c]
     /\ bound' = bound \cup {c}
     /\ Save(c, "reconnect_by_account", seat.token)
     /\ UNCHANGED <<owner, nextToken>>
  \/ owner = "me" /\ seat = None /\ TakeEmptySeat(c, "reconnect_by_account")
  \/ owner # "me" /\ Refuse(c, "reconnect_by_account")

JoinRoom(c) ==
  \/ seat = None /\ owner # "other" /\ TakeEmptySeat(c, "join_room")
  \/ (seat # None \/ owner = "other") /\ Refuse(c, "join_room")

(* The binding is deleted after the save.                                  *)
LeaveSeat(c) ==
  \/ /\ c \in bound
     /\ seat' = None
     /\ Save(c, "leave_seat", 0)
     /\ UNCHANGED <<owner, bound, nextToken>>
  \/ /\ c \notin bound
     /\ Answer(c, "leave_seat", TRUE)
     /\ UNCHANGED <<seat, owner, bound, nextToken>>

(* The handlers of the requests of one connection start in turn.           *)
StartHandler(c) ==
  LET request == Head(up[c]) IN
  /\ up[c] # <<>>
  /\ up' = [up EXCEPT ![c] = Tail(@)]
  /\ \/ request.event = "reconnect_room" /\ ReconnectRoom(c, request.token)
     \/ request.event = "reconnect_by_account" /\ ReconnectByAccount(c)
     \/ request.event = "join_room" /\ JoinRoom(c)
     \/ request.event = "leave_seat" /\ LeaveSeat(c)
  /\ crossed' = (crossed \/ c # sock)
  /\ UNCHANGED <<unseen, fixed, status, stored, link, clicks, left, online, sock, buffer>>

(* A save has ended.                                                       *)
FinishHandler(i) ==
  LET h == saving[i] IN
  /\ saving' = RemoveAt(saving, i)
  /\ bound' = IF h.event = "leave_seat" THEN bound \ {h.sock} ELSE bound
  /\ down' = Replied(h.sock, h.event, TRUE, h.token)
  /\ UNCHANGED <<seat, owner, nextToken, unseen, client, online, sock, buffer, up>>

(* Mutant of Superseded: the seat is away, whoever has it by now.          *)
NeverSuperseded(c) == seat = None

Superseded(c) == seat = None \/ seat.sock # c

HandleDisconnect(c) ==
  /\ c \in unseen
  /\ unseen' = unseen \ {c}
  /\ bound' = bound \ {c}
  /\ seat' = IF c \notin bound \/ Superseded(c) THEN seat ELSE [seat EXCEPT !.sock = 0]
  /\ up' = [up EXCEPT ![c] = <<>>]
  /\ UNCHANGED <<owner, saving, nextToken, client, online, sock, buffer, down>>

ExpireSeat ==
  /\ seat # None /\ seat.sock = 0
  /\ seat' = None
  /\ UNCHANGED <<owner, bound, saving, nextToken, unseen, client, online, sock,
                 buffer, up, down>>

(* Another account takes a seat that nobody has claimed.                   *)
OtherJoins ==
  /\ owner = "nobody" /\ seat = None
  /\ owner' = "other"
  /\ UNCHANGED <<seat, bound, saving, nextToken, unseen, client, online, sock,
                 buffer, up, down>>
-----------------------------------------------------------------------------
(* The client                                                              *)

Keep(token) == stored' = token

Forget == stored' = 0

(* Mutant of InRoom: the status of another version.                        *)
Playing(token) == status' = "playing" /\ Keep(token)

InRoom(token) == status' = "in-room" /\ Keep(token)

Send(event) == up' = [up EXCEPT ![sock] = Append(@, Ask(event, 0))]

(* Mutant of Refused: whose token is refused has to pick a seat.           *)
RefusedToPicker(event) ==
  \/ /\ event \in {"reconnect_room", "reconnect_by_account"}
     /\ status' = "picking-role" /\ Forget
     /\ UNCHANGED up
  \/ /\ event = "join_room"
     /\ UNCHANGED <<status, stored, up>>

Refused(event) ==
  \/ /\ event = "reconnect_room"
     /\ Forget
     /\ UNCHANGED status
     /\ Send(IF fixed THEN "join_room" ELSE "reconnect_by_account")
  \/ /\ event = "reconnect_by_account"
     /\ status' = "picking-role"
     /\ UNCHANGED <<stored, up>>
  \/ /\ event = "join_room"
     /\ UNCHANGED <<status, stored, up>>

(* The reply to joinAs in a tab with a fixed role is kept here under the   *)
(* role's key; the code keeps it under the room's, where such a tab does   *)
(* not look.  Only a leave gets a fixed tab to joinAs.                     *)
TakeReply ==
  LET reply == Head(down) IN
  /\ down # <<>>
  /\ down' = Tail(down)
  /\ \/ /\ reply.event = "leave_seat"
        /\ status' = "picking-role" /\ Forget
        /\ UNCHANGED up
     \/ /\ reply.event # "leave_seat" /\ reply.ok
        /\ InRoom(reply.token)
        /\ UNCHANGED up
     \/ ~reply.ok /\ Refused(reply.event)
  /\ UNCHANGED <<server, unseen, fixed, link, clicks, crossed, left, online, sock, buffer>>

Emit(event) ==
  IF online THEN Send(event) /\ UNCHANGED buffer
  ELSE buffer' = Append(buffer, Ask(event, 0)) /\ UNCHANGED up

HandledHere == \E i \in DOMAIN saving : saving[i].sock = sock

Quiet == up[sock] = <<>> /\ down = <<>> /\ buffer = <<>> /\ ~HandledHere

JoinAs ==
  /\ status = "picking-role"
  /\ clicks < MaxClicks /\ clicks' = clicks + 1
  /\ Emit("join_room")
  /\ UNCHANGED <<server, unseen, fixed, status, stored, link, crossed, left, online,
                 sock, down>>

(* leaveSeat is offered to the views, none of which calls it yet.          *)
Leave ==
  /\ status = "in-room"
  /\ clicks < MaxClicks /\ clicks' = clicks + 1
  /\ Emit("leave_seat")
  /\ crossed' = (crossed \/ ~online \/ ~Quiet)
  /\ left' = TRUE
  /\ UNCHANGED <<server, unseen, fixed, status, stored, link, online, sock, down>>
-----------------------------------------------------------------------------
ServerStep ==
  \/ \E c \in Connections : StartHandler(c)
  \/ \E i \in DOMAIN saving : FinishHandler(i)
  \/ \E c \in Connections : HandleDisconnect(c)
  \/ ExpireSeat
  \/ OtherJoins

Next == Connect \/ Drop \/ ServerStep \/ TakeReply \/ JoinAs \/ Leave

Spec == Init /\ [][Next]_vars

(* Handlers and their saves end, replies arrive, and the client tries to   *)
(* connect until it does.  Nothing makes a user click, a connection break  *)
(* or a grace period end.                                                  *)
Fairness ==
  /\ WF_vars(Connect) /\ WF_vars(\E c \in Connections : StartHandler(c)) /\ WF_vars(TakeReply)
  /\ WF_vars(\E i \in DOMAIN saving : FinishHandler(i))

FairSpec == Spec /\ Fairness
-----------------------------------------------------------------------------
(* Properties                                                              *)

AtRest == online /\ Quiet

(* A tab with a fixed role whose join was answered too late or refused: it *)
(* has no token, and its seat's live record keeps it from joining again.   *)
LockedOut == fixed /\ stored = 0

(* Once nothing is on its way, the page shows the player in the room       *)
(* exactly if the server takes its socket for the seat's, and the token    *)
(* that the browser keeps is the one that will get the seat back: whatever *)
(* broke, lapsed or was lost in between, unless a leave crossed another    *)
(* request (their handlers end in the order of their saves), or a request  *)
(* of an earlier connection was served late and took the seat back from    *)
(* this one, or hotseat mode has locked itself out.                        *)
SeatedAsShown ==
  AtRest /\ ~crossed /\ ~LockedOut =>
    /\ status = "in-room" <=> sock \in bound
    /\ status = "in-room" => seat # None /\ seat.sock = sock /\ seat.token = stored

(* A player whose account has the seat is put back into it and not asked   *)
(* to pick one, unless it left, or it asked for a seat in a connection     *)
(* that broke and was served after the next one had been told that it has  *)
(* none (useRoomConnection.ts:168-178, 193-210).                           *)
OwnerIsNotAsked ==
  AtRest /\ ~fixed /\ ~left /\ status = "picking-role" =>
    owner # "me" \/ (clicks > 0 /\ crossed)

(* A page that is connecting gets past it, unless its role is fixed or its *)
(* connection breaks for good.                                             *)
ConnectingEnds ==
  (status = "connecting" /\ ~fixed) ~>
    (status # "connecting" \/ (~online /\ sock = MaxConnections))
=============================================================================
