-------------------------- MODULE RoomStoreProofs --------------------------
(***************************************************************************)
(* Proofs about RoomStore, for any number of codes, seats, sockets,        *)
(* accounts, rooms and waiting handlers.  Four parts, each with the        *)
(* inductive invariant it adds: types and the queue of resumed handlers    *)
(* (TypeInv), the seats (OwnedInv, AwaySeatHasTimer), durability           *)
(* (DurableInv), and ownership with the refinement of SeatOwnership        *)
(* (UniqueIds).                                                            *)
(***************************************************************************)
EXTENDS RoomStore, FiniteSetTheorems, TLAPS

(* A handler waits for the code it asked for, and the handlers resumed     *)
(* together asked for the same code.                                       *)
HandlersAgree ==
  /\ \A c \in Codes : \A i \in 1 .. Len(waiting[c]) : waiting[c][i].code = c
  /\ \A i \in 1 .. Len(ready) : ready[i].code = ready[1].code

(* A room is held outside the cache only by handlers that are being        *)
(* resumed, and only while its code is not cached.                         *)
OrphanHeld ==
  /\ ready = <<>> => orphan = None
  /\ ready # <<>> /\ orphan # None => cache[ready[1].code] = None

TypeInv == TypeOK /\ HandlersAgree /\ OrphanHeld /\ ReadyHandlersHoldARoom
-----------------------------------------------------------------------------
(* Rooms                                                                   *)

USE DEF Seats, Spectator, Roles

Assumptions ==
  /\ NumSeats \in Nat \ {0} /\ AccountOf \in [Sockets -> Accounts]
  /\ None \notin Accounts /\ None \notin Sockets /\ Away \notin Sockets
  /\ None # Away
  /\ None \notin Room /\ None \notin PersistedRoom /\ None \notin Binding

LEMMA ConstantsOK == Assumptions
BY NumSeatsAssumption, AccountOfAssumption, NoneAssumption DEF Assumptions

LEMMA NewRoomTyped ==
  ASSUME NEW id \in Nat
  PROVE  NewRoom(id) \in Room
BY DEF NewRoom, Room

LEMMA SnapshotTyped ==
  ASSUME NEW room \in Room
  PROVE  Snapshot(room) \in PersistedRoom
BY DEF Snapshot, Room, PersistedRoom

LEMMA HydratedTyped ==
  ASSUME NEW row \in PersistedRoom
  PROVE  Hydrated(row) \in Room
BY DEF Hydrated, Room, PersistedRoom

LEMMA TakeSeatTyped ==
  ASSUME NEW room \in Room, NEW r \in Seats, NEW s \in Sockets, NEW account \in Accounts
  PROVE  TakeSeat(room, r, s, account) \in Room
BY DEF TakeSeat, Viewed, Room

LEMMA TakeOverTyped ==
  ASSUME NEW room \in Room, NEW r \in Seats, NEW s \in Sockets, NEW account \in Accounts
  PROVE  TakeOver(room, r, s, account) \in Room
BY DEF TakeOver, Viewed, Room

LEMMA FreedTyped ==
  ASSUME NEW room \in Room, NEW r \in Seats, NEW x \in Sockets \cup {Away, None}
  PROVE  [room EXCEPT !.seats[r] = x] \in Room
BY DEF Room

LEMMA PlayedTyped ==
  ASSUME NEW room \in Room, NEW over \in BOOLEAN
  PROVE  Played(room, over) \in Room
<1>1. OwnersWatching(room) \subseteq Accounts
  BY DEF OwnersWatching, Room
<1>2. room.recapViewedBy \cup OwnersWatching(room) \subseteq Accounts
  BY <1>1 DEF Room
<1> QED BY <1>2 DEF Played, Room

LEMMA OtherRoomsTyped ==
  ASSUME NEW room \in Room, NEW s \in Sockets
  PROVE  /\ [room EXCEPT !.spectatorSocketIds = @ \cup {s}] \in Room
         /\ [room EXCEPT !.spectatorSocketIds = @ \ {s}] \in Room
         /\ [room EXCEPT !.idle = FALSE] \in Room
         /\ [room EXCEPT !.idle = TRUE] \in Room
BY DEF Room
-----------------------------------------------------------------------------
(* getRoom                                                                 *)

LEMMA HeldTyped ==
  ASSUME TypeInv, NEW q \in Request, Runs(q)
  PROVE  Held(q.code) \in Room
<1> USE ConstantsOK DEF Assumptions
<1>1. q.code \in Codes
  BY DEF Request
<1>2. CASE ready = <<>> /\ cache[q.code] # None
  BY <1>1, <1>2 DEF Held, TypeInv, TypeOK, OrphanHeld
<1>3. CASE ready # <<>> /\ q = Head(ready)
  BY <1>1, <1>3 DEF Held, TypeInv, TypeOK, ReadyHandlersHoldARoom
<1> QED BY <1>2, <1>3 DEF Runs

(* What a running handler leaves of the queue it came from.                *)
LEMMA RunsQueue ==
  ASSUME TypeInv, NEW q \in Request, Runs(q)
  PROVE  /\ ready' \in Seq(Request)
         /\ ready' = <<>> => ~ OthersHold
         /\ \A i \in 1 .. Len(ready') : ready'[i].code = ready'[1].code
         /\ ready # <<>> => ready[1] = q
         /\ ready' # <<>> => /\ ready # <<>> /\ OthersHold
                            /\ ready'[1].code = q.code /\ Head(ready') = ready'[1]
<1>0. ready \in Seq(Request) /\ \A i \in 1 .. Len(ready) : ready[i].code = ready[1].code
  BY DEF TypeInv, TypeOK, HandlersAgree
<1>1. CASE ready = <<>> /\ ready' = ready
  BY <1>0, <1>1 DEF OthersHold
<1>2. CASE ready # <<>> /\ q = Head(ready) /\ ready' = Tail(ready)
  <2>1. q = ready[1] /\ Len(ready) > 0
    BY <1>0, <1>2
  <2>2. /\ ready' \in Seq(Request)
        /\ Len(ready') = Len(ready) - 1
        /\ \A i \in 1 .. Len(ready') : ready'[i] = ready[i + 1]
    BY <1>0, <1>2
  <2>3. \A i \in 1 .. Len(ready') : ready'[i].code = q.code
    BY <1>0, <2>1, <2>2
  <2>4. ready' # <<>> => Len(ready) > 1 /\ Head(ready') = ready'[1] /\ Len(ready') > 0
    BY <2>1, <2>2
  <2>5. ready' = <<>> => ~ OthersHold
    BY <2>2 DEF OthersHold
  <2>6. ready' # <<>> => ready'[1].code = q.code
    BY <2>2, <2>3, <2>4
  <2>7. \A i \in 1 .. Len(ready') : ready'[i].code = ready'[1].code
    BY <2>2, <2>3
  <2> QED BY <1>2, <2>1, <2>2, <2>4, <2>5, <2>6, <2>7 DEF OthersHold
<1> QED BY <1>1, <1>2 DEF Runs

LEMMA RunsTyped ==
  ASSUME TypeInv, NEW q \in Request, Runs(q)
  PROVE  /\ alive' \in SUBSET Sockets
         /\ hydrating' \in SUBSET Codes
         /\ waiting' \in [Codes -> Seq(Request)]
         /\ creating' \in [Codes -> Nat]
         /\ nextId' \in Nat
         /\ ready' \in Seq(Request)
         /\ HandlersAgree'
<1>1. UNCHANGED <<alive, hydrating, waiting, creating, nextId>>
  BY DEF Runs
<1>2. HandlersAgree'
  BY <1>1, RunsQueue DEF TypeInv, HandlersAgree
<1> QED BY <1>1, <1>2, RunsQueue DEF TypeInv, TypeOK

(* A handler that changes its room keeps the room's place: in the cache,   *)
(* or with the handlers still to be resumed.                               *)
LEMMA MutateTyped ==
  ASSUME TypeInv, NEW q \in Request, Runs(q), NEW room \in Room, Mutate(q.code, room)
  PROVE  /\ cache' \in [Codes -> Room \cup {None}]
         /\ orphan' \in Room \cup {None}
         /\ OrphanHeld' /\ ReadyHandlersHoldARoom'
<1> USE ConstantsOK DEF Assumptions
<1>1. q.code \in Codes /\ room # None
  BY DEF Request
<1>2. cache \in [Codes -> Room \cup {None}] /\ orphan \in Room \cup {None}
  BY DEF TypeInv, TypeOK
<1>3. ready' # <<>> => /\ ready # <<>> /\ OthersHold /\ ready[1] = q
                       /\ ready'[1].code = q.code /\ Head(ready') = ready'[1]
  BY RunsQueue
<1>4. CASE orphan = None
  <2>1. cache' = [cache EXCEPT ![q.code] = room] /\ orphan' = None
    BY <1>4 DEF Mutate
  <2>2. cache' \in [Codes -> Room \cup {None}] /\ cache'[q.code] = room
    BY <1>1, <1>2, <2>1
  <2> QED BY <1>1, <1>3, <2>1, <2>2 DEF OrphanHeld, ReadyHandlersHoldARoom, Held
<1>5. CASE orphan # None
  <2>1. cache' = cache /\ orphan' = IF OthersHold THEN room ELSE None
    BY <1>5 DEF Mutate
  <2>2. ready' = <<>> => orphan' = None
    BY <2>1, RunsQueue
  <2>3. ready' # <<>> => cache[q.code] = None /\ orphan' = room
    BY <1>3, <1>5, <2>1 DEF TypeInv, OrphanHeld
  <2>4. orphan' \in Room \cup {None}
    BY <2>1
  <2> QED BY <1>1, <1>2, <1>3, <2>1, <2>2, <2>3, <2>4 DEF OrphanHeld, ReadyHandlersHoldARoom, Held
<1> QED BY <1>4, <1>5

LEMMA CallTyped ==
  ASSUME NEW op \in Ops, NEW c \in Codes, NEW r \in Roles, NEW s \in Sockets
  PROVE  /\ Call(op, c, r, s) \in Request /\ Call(op, c, r, s).code = c
BY ConstantsOK DEF Assumptions, Call, Request, Ops

LEMMA HttpAbandonTyped ==
  ASSUME NEW c \in Codes, NEW account \in Accounts
  PROVE  HttpAbandon(c, account) \in Request /\ HttpAbandon(c, account).code = c
BY DEF HttpAbandon, Request, Ops

LEMMA PersistTyped ==
  ASSUME TypeInv, NEW c \in Codes, NEW room \in Room, Persist(c, room)
  PROVE  rows' \in [Codes -> PersistedRoom \cup {None}]
BY SnapshotTyped DEF Persist, TypeInv, TypeOK

LEMMA BindTyped ==
  ASSUME TypeInv, NEW s \in Sockets, NEW c \in Codes, NEW r \in Roles, Bind(s, c, r)
  PROVE  binding' \in [Sockets -> Binding \cup {None}]
<1>1. [code |-> c, role |-> r] \in Binding
  BY DEF Binding
<1> QED BY <1>1 DEF Bind, TypeInv, TypeOK

LEMMA DroppedTyped ==
  ASSUME NEW c \in Codes, NEW r \in Roles, NEW s \in Sockets,
         Held(c) \in Room, timers \in SUBSET (Codes \X Seats), Dropped(c, r, s)
  PROVE  \E room \in Room : Mutate(c, room) /\ timers' \in SUBSET (Codes \X Seats)
<1>1. CASE r = Spectator
  BY <1>1, OtherRoomsTyped DEF Dropped
<1>2. CASE r # Spectator
  <2>1. r \in Seats
    BY <1>2
  <2>2. CASE Held(c).seats[r] = s
    BY <1>2, <2>1, <2>2, FreedTyped DEF Dropped, StartGraceTimer
  <2>3. CASE Held(c).seats[r] # s
    BY <1>2, <2>3 DEF Dropped
  <2> QED BY <2>2, <2>3
<1> QED BY <1>1, <1>2

(* One step per handler that runs on a room it holds.                      *)
LEMMA HandleTyped == TypeInv /\ Handle => TypeInv'
<1> SUFFICES ASSUME TypeInv, Handle PROVE TypeInv'
  OBVIOUS
<1> USE ConstantsOK DEF Assumptions
<1> DEFINE Rest == /\ rows' \in [Codes -> PersistedRoom \cup {None}]
                   /\ binding' \in [Sockets -> Binding \cup {None}]
                   /\ timers' \in SUBSET (Codes \X Seats)
                   /\ leaving' \in SUBSET Sockets
<1>0. /\ rows \in [Codes -> PersistedRoom \cup {None}]
      /\ binding \in [Sockets -> Binding \cup {None}]
      /\ timers \in SUBSET (Codes \X Seats)
      /\ leaving \in SUBSET Sockets
  BY DEF TypeInv, TypeOK
<1>a. ASSUME NEW q \in Request, Runs(q), NEW room \in Room, Mutate(q.code, room), Rest
      PROVE  TypeInv'
  BY <1>a, RunsTyped, MutateTyped DEF TypeInv, TypeOK
<1>1. ASSUME NEW s \in Sockets, NEW c \in Codes, JoinSpectator(s, c)
      PROVE  TypeInv'
  <2> DEFINE q == Call("join", c, Spectator, s)
  <2>1. q \in Request /\ q.code = c /\ Runs(q)
    BY <1>1, CallTyped DEF JoinSpectator, Ops
  <2>2. Held(c) \in Room
    BY <2>1, HeldTyped
  <2>3. [Held(c) EXCEPT !.spectatorSocketIds = @ \cup {s}] \in Room
    BY <2>2, OtherRoomsTyped
  <2>4. Rest
    BY <1>0, <1>1, BindTyped DEF JoinSpectator
  <2> QED BY <1>a, <1>1, <2>1, <2>3, <2>4 DEF JoinSpectator
<1>2. ASSUME NEW s \in Sockets, NEW c \in Codes, NEW r \in Seats, JoinSeat(s, c, r)
      PROVE  TypeInv'
  <2> DEFINE q == Call("join", c, r, s)
             room == TakeSeat(Held(c), r, s, AccountOf[s])
  <2>1. q \in Request /\ q.code = c /\ Runs(q)
    BY <1>2, CallTyped DEF JoinSeat, Ops
  <2>2. room \in Room
    BY <2>1, HeldTyped, TakeSeatTyped
  <2>3. Rest
    BY <1>0, <1>2, <2>2, BindTyped, PersistTyped DEF JoinSeat
  <2> QED BY <1>a, <1>2, <2>1, <2>2, <2>3 DEF JoinSeat
<1>3. ASSUME NEW s \in Sockets, NEW c \in Codes, NEW r \in Seats, ReconnectRoom(s, c, r)
      PROVE  TypeInv'
  <2> DEFINE q == Call("reconnect", c, r, s)
             room == TakeOver(Held(c), r, s, AccountOf[s])
  <2>1. q \in Request /\ q.code = c /\ Runs(q)
    BY <1>3, CallTyped DEF ReconnectRoom, Ops
  <2>2. room \in Room
    BY <2>1, HeldTyped, TakeOverTyped
  <2>3. Rest
    BY <1>0, <1>3, <2>2, BindTyped, PersistTyped DEF ReconnectRoom, ClearGraceTimer
  <2> QED BY <1>a, <1>3, <2>1, <2>2, <2>3 DEF ReconnectRoom
<1>4. ASSUME NEW s \in Sockets, NEW c \in Codes, NEW r \in Seats, ReconnectByAccount(s, c, r)
      PROVE  TypeInv'
  <2> DEFINE q == Call("account", c, Spectator, s)
             over == TakeOver(Held(c), r, s, AccountOf[s])
             taken == TakeSeat(Held(c), r, s, AccountOf[s])
  <2>1. q \in Request /\ q.code = c /\ Runs(q)
    BY <1>4, CallTyped DEF ReconnectByAccount, Ops
  <2>2. Held(c) \in Room /\ AccountOf[s] \in Accounts
    BY <2>1, HeldTyped
  <2>4. over \in Room /\ taken \in Room
    BY <2>2, TakeOverTyped, TakeSeatTyped
  <2>5. CASE Held(c).seats[r] # None
    <3>1. Mutate(c, over) /\ Persist(c, over) /\ ClearGraceTimer(c, r) /\ Bind(s, c, r) /\ UNCHANGED leaving
      BY <1>4, <2>5 DEF ReconnectByAccount
    <3>2. Rest
      BY <1>0, <2>4, <3>1, BindTyped, PersistTyped DEF ClearGraceTimer
    <3> QED BY <1>a, <2>1, <2>4, <3>1, <3>2
  <2>6. CASE Held(c).seats[r] = None
    <3>1. Mutate(c, taken) /\ Persist(c, taken) /\ UNCHANGED timers /\ Bind(s, c, r) /\ UNCHANGED leaving
      BY <1>4, <2>6 DEF ReconnectByAccount
    <3>2. Rest
      BY <1>0, <2>4, <3>1, BindTyped, PersistTyped
    <3> QED BY <1>a, <2>1, <2>4, <3>1, <3>2
  <2> QED BY <2>5, <2>6
<1>5. ASSUME NEW s \in Sockets, NEW c \in Codes, LeaveAsSpectator(s, c)
      PROVE  TypeInv'
  <2> DEFINE q == Call("leave", c, Spectator, s)
  <2>1. q \in Request /\ q.code = c /\ Runs(q)
    BY <1>5, CallTyped DEF LeaveAsSpectator, Ops
  <2>2. Held(c) \in Room
    BY <2>1, HeldTyped
  <2>3. [Held(c) EXCEPT !.spectatorSocketIds = @ \ {s}] \in Room
    BY <2>2, OtherRoomsTyped
  <2>4. Rest
    BY <1>0, <1>5 DEF LeaveAsSpectator
  <2> QED BY <1>a, <1>5, <2>1, <2>3, <2>4 DEF LeaveAsSpectator
<1>6. ASSUME NEW s \in Sockets, NEW c \in Codes, LeaveSeat(s, c)
      PROVE  TypeInv'
  <2> DEFINE q == Call("leave", c, Spectator, s)
             r == binding[s].role
             room == [Held(c) EXCEPT !.seats[r] = None]
  <2>1. q \in Request /\ q.code = c /\ Runs(q)
    BY <1>6, CallTyped DEF LeaveSeat, Ops
  <2>2. r \in Seats
    BY <1>0, <1>6 DEF LeaveSeat, BoundTo, Binding
  <2>3. room \in Room
    BY <2>1, <2>2, HeldTyped, FreedTyped
  <2>4. Rest
    BY <1>0, <1>6, <2>3, PersistTyped DEF LeaveSeat, ClearGraceTimer
  <2> QED BY <1>a, <1>6, <2>1, <2>3, <2>4 DEF LeaveSeat
<1>7. ASSUME NEW s \in Sockets, NEW c \in Codes, NEW r \in Roles, DropResumed(s, c, r)
      PROVE  TypeInv'
  <2> DEFINE q == Call("drop", c, r, s)
  <2>1. q \in Request /\ q.code = c /\ Runs(q)
    BY <1>7, CallTyped DEF DropResumed, Ops
  <2>2. Held(c) \in Room
    BY <2>1, HeldTyped
  <2>3. PICK room \in Room : Mutate(c, room) /\ timers' \in SUBSET (Codes \X Seats)
    BY <1>0, <1>7, <2>2, DroppedTyped DEF DropResumed
  <2>4. Rest
    BY <1>0, <1>7, <2>3 DEF DropResumed
  <2> QED BY <1>a, <2>1, <2>3, <2>4
<1>8. ASSUME NEW s \in Sockets, NEW c \in Codes, NEW over \in BOOLEAN, ApplyAction(s, c, over)
      PROVE  TypeInv'
  <2> DEFINE q == Call("act", c, Spectator, s)
             room == Played(Held(c), over)
  <2>1. q \in Request /\ q.code = c /\ Runs(q)
    BY <1>8, CallTyped DEF ApplyAction, Ops
  <2>2. room \in Room
    BY <2>1, HeldTyped, PlayedTyped
  <2>3. Rest
    BY <1>0, <1>8, <2>2, PersistTyped DEF ApplyAction
  <2> QED BY <1>a, <1>8, <2>1, <2>2, <2>3 DEF ApplyAction
<1>9. ASSUME NEW s \in Sockets, NEW c \in Codes, SendChatMessage(s, c)
      PROVE  TypeInv'
  <2> DEFINE q == Call("chat", c, Spectator, s)
             room == [Held(c) EXCEPT !.idle = FALSE]
  <2>1. q \in Request /\ q.code = c /\ Runs(q)
    BY <1>9, CallTyped DEF SendChatMessage, Ops
  <2>2. room \in Room
    BY <2>1, HeldTyped DEF Room
  <2>3. Rest
    BY <1>0, <1>9, <2>2, PersistTyped DEF SendChatMessage
  <2> QED BY <1>a, <1>9, <2>1, <2>2, <2>3 DEF SendChatMessage
<1>10. ASSUME NEW c \in Codes, NEW account \in Accounts, AbandonRoom(c, account)
       PROVE  TypeInv'
  <2> DEFINE q == HttpAbandon(c, account)
  <2>1. q \in Request /\ q.code = c /\ Runs(q)
    BY <1>10, HttpAbandonTyped DEF AbandonRoom
  <2>2. Held(c) \in Room
    BY <2>1, HeldTyped
  <2>3. /\ cache' = [cache EXCEPT ![c] = None]
        /\ orphan' = IF OthersHold THEN Held(c) ELSE None
        /\ Rest
    BY <1>0, <1>10 DEF AbandonRoom
  <2>4. OrphanHeld' /\ ReadyHandlersHoldARoom'
    BY <2>1, <2>2, <2>3, RunsQueue DEF OrphanHeld, ReadyHandlersHoldARoom, Held, TypeInv, TypeOK
  <2> QED BY <2>1, <2>2, <2>3, <2>4, RunsTyped DEF TypeInv, TypeOK
<1>11. ASSUME Refuse
       PROVE  TypeInv'
  <2> DEFINE q == Head(ready)
  <2>1. q \in Request /\ Runs(q) /\ ready # <<>> /\ q = ready[1]
    BY <1>11 DEF Refuse, TypeInv, TypeOK
  <2>2. /\ UNCHANGED <<cache, rows, binding, timers, leaving>>
        /\ orphan' = IF OthersHold THEN orphan ELSE None
    BY <1>11 DEF Refuse, Untouched
  <2>3. OrphanHeld' /\ ReadyHandlersHoldARoom'
    BY <2>1, <2>2, RunsQueue DEF OrphanHeld, ReadyHandlersHoldARoom, Held, TypeInv
  <2> QED BY <1>0, <2>1, <2>2, <2>3, RunsTyped DEF TypeInv, TypeOK
<1> QED
  BY <1>1, <1>2, <1>3, <1>4, <1>5, <1>6, <1>7, <1>8, <1>9, <1>10, <1>11
  DEF Handle, SocketCall
-----------------------------------------------------------------------------
(* Everything else the server does                                         *)

(* A new waiter waits for the code it asked for.                           *)
LEMMA AwaitsTyped ==
  ASSUME TypeInv, NEW q \in Request, Awaits(q)
  PROVE  /\ hydrating' \in SUBSET Codes
         /\ waiting' \in [Codes -> Seq(Request)]
         /\ \A c \in Codes : \A i \in 1 .. Len(waiting'[c]) : waiting'[c][i].code = c
<1>1. q.code \in Codes
  BY DEF Request
<1>2. waiting \in [Codes -> Seq(Request)] /\ hydrating \in SUBSET Codes
  BY DEF TypeInv, TypeOK
<1>3. waiting' = [waiting EXCEPT ![q.code] = Append(waiting[q.code], q)]
  BY DEF Awaits
<1>4. Append(waiting[q.code], q) \in Seq(Request)
  BY <1>1, <1>2
<1>5. waiting' \in [Codes -> Seq(Request)]
  BY <1>1, <1>2, <1>3, <1>4
<1>6. ASSUME NEW c \in Codes, NEW i \in 1 .. Len(waiting'[c])
      PROVE  waiting'[c][i].code = c
  <2>1. CASE c # q.code
    <3>1. waiting'[c] = waiting[c]
      BY <1>1, <1>2, <1>3, <2>1
    <3> QED BY <1>6, <3>1 DEF TypeInv, HandlersAgree
  <2>2. CASE c = q.code
    <3>1. waiting'[c] = Append(waiting[c], q) /\ waiting[c] \in Seq(Request)
      BY <1>1, <1>2, <1>3, <2>2
    <3>2. CASE i \in 1 .. Len(waiting[c])
      <4>1. waiting'[c][i] = waiting[c][i]
        BY <3>1, <3>2
      <4> QED BY <3>2, <4>1 DEF TypeInv, HandlersAgree
    <3>3. CASE i = Len(waiting[c]) + 1
      BY <2>2, <3>1, <3>3
    <3> QED BY <3>1, <3>2, <3>3
  <2> QED BY <2>1, <2>2
<1> QED BY <1>1, <1>2, <1>5, <1>6 DEF Awaits

(* Between handlers nothing is orphaned, so the queue's invariants follow  *)
(* from what stays empty.                                                  *)
LEMMA QueueIdle ==
  ASSUME ready' = <<>>, orphan' = None
  PROVE  OrphanHeld' /\ ReadyHandlersHoldARoom'
BY DEF OrphanHeld, ReadyHandlersHoldARoom

LEMMA QueueIdleNow ==
  ASSUME TypeInv, ready = <<>>
  PROVE  orphan = None
BY DEF TypeInv, OrphanHeld

LEMMA CallsTyped ==
  ASSUME NEW s \in Sockets, NEW c \in Codes, NEW q \in Calls(s, c)
  PROVE  q \in Request
BY CallTyped DEF Calls, Ops

LEMMA WaitTyped == TypeInv /\ Wait => TypeInv'
<1> SUFFICES ASSUME TypeInv, NEW q \in Request, GetUncached(q) PROVE TypeInv'
  BY CallsTyped, HttpAbandonTyped DEF Wait
<1>1. /\ ready = <<>> /\ Awaits(q)
      /\ UNCHANGED <<alive, cache, rows, binding, timers, ready, orphan, leaving, creating, nextId>>
  BY DEF GetUncached
<1>2. OrphanHeld' /\ ReadyHandlersHoldARoom'
  BY <1>1, QueueIdle, QueueIdleNow
<1>3. TypeOK'
  BY <1>1, AwaitsTyped DEF TypeInv, TypeOK
<1>4. HandlersAgree'
  BY <1>1, AwaitsTyped DEF HandlersAgree
<1> QED BY <1>2, <1>3, <1>4 DEF TypeInv

LEMMA DisconnectTyped ==
  ASSUME TypeInv, NEW s \in Sockets, Disconnect(s)
  PROVE  TypeInv'
<1> USE ConstantsOK DEF Assumptions
<1> DEFINE b == binding[s]
           q == Call("drop", b.code, b.role, s)
<1>1. /\ ready = <<>> /\ ready' = <<>> /\ orphan = None
      /\ alive' \in SUBSET Sockets
      /\ binding' \in [Sockets -> Binding \cup {None}]
      /\ rows' \in [Codes -> PersistedRoom \cup {None}]
      /\ leaving' \in SUBSET Sockets
      /\ creating' \in [Codes -> Nat] /\ nextId' \in Nat
      /\ b \in Binding \cup {None}
  BY QueueIdleNow DEF Disconnect, TypeInv, TypeOK
<1> DEFINE Rest == /\ cache' \in [Codes -> Room \cup {None}]
                   /\ orphan' = None
                   /\ timers' \in SUBSET (Codes \X Seats)
                   /\ hydrating' \in SUBSET Codes
                   /\ waiting' \in [Codes -> Seq(Request)]
                   /\ \A c \in Codes : \A i \in 1 .. Len(waiting'[c]) : waiting'[c][i].code = c
<1>2. CASE b = None /\ UNCHANGED <<cache, orphan, timers, hydrating, waiting>>
  <2>1. Rest
    BY <1>1, <1>2 DEF TypeInv, TypeOK, HandlersAgree
  <2> QED BY <1>1, <2>1, QueueIdle DEF TypeInv, TypeOK, HandlersAgree
<1>3. CASE /\ b # None /\ cache[b.code] # None /\ Dropped(b.code, b.role, s)
           /\ UNCHANGED <<hydrating, waiting>>
  <2>1. b.code \in Codes /\ b.role \in Roles
    BY <1>1, <1>3 DEF Binding
  <2>2. Held(b.code) \in Room
    BY <1>1, <1>3, <2>1 DEF Held, TypeInv, TypeOK
  <2>3. PICK room \in Room : Mutate(b.code, room) /\ timers' \in SUBSET (Codes \X Seats)
    BY <1>3, <2>1, <2>2, DroppedTyped DEF TypeInv, TypeOK
  <2>4. cache' = [cache EXCEPT ![b.code] = room] /\ orphan' = None
    BY <1>1, <2>3 DEF Mutate
  <2>5. cache' \in [Codes -> Room \cup {None}]
    BY <2>4 DEF TypeInv, TypeOK
  <2>6. Rest
    BY <1>3, <2>3, <2>4, <2>5 DEF TypeInv, TypeOK, HandlersAgree
  <2> QED BY <1>1, <2>6, QueueIdle DEF TypeInv, TypeOK, HandlersAgree
<1>4. CASE b # None /\ Awaits(q) /\ UNCHANGED <<cache, orphan, timers>>
  <2>1. q \in Request
    BY <1>1, <1>4, CallTyped DEF Binding, Ops
  <2>2. Rest
    BY <1>1, <1>4, <2>1, AwaitsTyped DEF TypeInv, TypeOK
  <2> QED BY <1>1, <2>2, QueueIdle DEF TypeInv, TypeOK, HandlersAgree
<1> QED BY <1>2, <1>3, <1>4 DEF Disconnect

LEMMA HydrateRoomTyped ==
  ASSUME TypeInv, NEW c \in Codes, HydrateRoom(c)
  PROVE  TypeInv'
<1> USE ConstantsOK DEF Assumptions
<1>1. /\ ready = <<>> /\ orphan = None /\ orphan' = None
      /\ waiting' = [waiting EXCEPT ![c] = <<>>]
      /\ waiting \in [Codes -> Seq(Request)]
      /\ hydrating' \in SUBSET Codes
  BY QueueIdleNow DEF HydrateRoom, Answered, TypeInv, TypeOK
<1>2. waiting' \in [Codes -> Seq(Request)]
  BY <1>1
<1>3. \A k \in Codes : \A i \in 1 .. Len(waiting'[k]) : waiting'[k][i].code = k
  <2> SUFFICES ASSUME NEW k \in Codes, NEW i \in 1 .. Len(waiting'[k])
               PROVE  waiting'[k][i].code = k
    OBVIOUS
  <2>1. k # c
    BY <1>1
  <2>2. waiting'[k] = waiting[k]
    BY <1>1, <2>1
  <2> QED BY <2>2 DEF TypeInv, HandlersAgree
<1>4. CASE rows[c] = None
  <2>1. UNCHANGED <<cache, timers, ready>>
    BY <1>4 DEF HydrateRoom
  <2>2. TypeOK'
    BY <1>1, <1>2, <2>1 DEF HydrateRoom, TypeInv, TypeOK
  <2>3. HandlersAgree'
    BY <1>1, <1>3, <2>1 DEF HandlersAgree
  <2>4. OrphanHeld' /\ ReadyHandlersHoldARoom'
    BY <1>1, <2>1, QueueIdle
  <2> QED BY <2>2, <2>3, <2>4 DEF TypeInv
<1>5. CASE rows[c] # None
  <2>1. /\ cache' = [cache EXCEPT ![c] = Hydrated(rows[c])]
        /\ timers' = timers \cup HydrationGrace(c)
        /\ ready' = waiting[c]
    BY <1>5 DEF HydrateRoom
  <2>2. rows[c] \in PersistedRoom
    BY <1>5 DEF TypeInv, TypeOK
  <2>3. Hydrated(rows[c]) \in Room /\ Hydrated(rows[c]) # None
    BY <2>2, HydratedTyped
  <2>4. HydrationGrace(c) \subseteq Codes \X Seats
    BY <2>2 DEF HydrationGrace, PersistedRoom
  <2>5. cache' \in [Codes -> Room \cup {None}] /\ cache'[c] # None
    BY <2>1, <2>3 DEF TypeInv, TypeOK
  <2>6. TypeOK'
    BY <1>1, <1>2, <2>1, <2>4, <2>5 DEF HydrateRoom, TypeInv, TypeOK
  <2>7. \A i \in 1 .. Len(ready') : ready'[i].code = c
    BY <2>1 DEF TypeInv, HandlersAgree
  <2>8. HandlersAgree'
    <3>1. ready' \in Seq(Request)
      BY <1>1, <2>1
    <3>2. \A i \in 1 .. Len(ready') : ready'[i].code = ready'[1].code
      BY <2>7, <3>1
    <3> QED BY <1>3, <3>2 DEF HandlersAgree
  <2>9. ReadyHandlersHoldARoom'
    <3>1. ready' # <<>> => Head(ready').code = c
      <4>1. ready' \in Seq(Request)
        BY <1>1, <2>1
      <4> QED BY <2>7, <4>1
    <3> QED BY <1>1, <2>5, <3>1 DEF ReadyHandlersHoldARoom, Held
  <2> QED BY <1>1, <2>6, <2>8, <2>9 DEF TypeInv, OrphanHeld
<1> QED BY <1>4, <1>5

LEMMA ExpireSeatTyped ==
  ASSUME TypeInv, NEW c \in Codes, NEW r \in Seats, ExpireSeat(c, r)
  PROVE  TypeInv'
<1> USE ConstantsOK DEF Assumptions
<1> DEFINE freed == [cache[c] EXCEPT !.seats[r] = None]
<1>1. /\ ready' = <<>> /\ orphan' = None
      /\ UNCHANGED <<alive, binding, hydrating, waiting, ready, orphan, leaving, creating, nextId>>
      /\ timers' \in SUBSET (Codes \X Seats)
  BY QueueIdleNow DEF ExpireSeat, TypeInv, TypeOK
<1>2. CASE MayExpire(c, r)
  <2>1. cache[c] \in Room
    BY <1>2 DEF MayExpire, TypeInv, TypeOK
  <2>2. freed \in Room
    BY <2>1, FreedTyped
  <2>3. cache' = [cache EXCEPT ![c] = freed] /\ Persist(c, freed)
    BY <1>2 DEF ExpireSeat
  <2>4. rows' \in [Codes -> PersistedRoom \cup {None}]
    BY <2>2, <2>3, PersistTyped
  <2>5. cache' \in [Codes -> Room \cup {None}]
    BY <2>2, <2>3 DEF TypeInv, TypeOK
  <2>6. TypeOK'
    BY <1>1, <2>4, <2>5 DEF TypeInv, TypeOK
  <2> QED BY <1>1, <2>6, QueueIdle DEF TypeInv, HandlersAgree
<1>3. CASE ~ MayExpire(c, r)
  <2>1. UNCHANGED <<cache, rows>>
    BY <1>3 DEF ExpireSeat
  <2>2. TypeOK'
    BY <1>1, <2>1 DEF TypeInv, TypeOK
  <2> QED BY <1>1, <2>2, QueueIdle DEF TypeInv, HandlersAgree
<1> QED BY <1>2, <1>3

LEMMA CreateRoomTyped ==
  ASSUME TypeInv, NEW c \in Codes, CreateRoom(c)
  PROVE  TypeInv'
<1> USE ConstantsOK DEF Assumptions
<1>1. /\ ready' = <<>> /\ orphan' = None
      /\ UNCHANGED <<alive, binding, timers, hydrating, waiting, ready, orphan, leaving>>
  BY QueueIdleNow DEF CreateRoom
<1>2. nextId \in Nat /\ NewRoom(nextId) \in Room
  BY NewRoomTyped DEF TypeInv, TypeOK
<1>3. cache' \in [Codes -> Room \cup {None}]
  BY <1>2 DEF CreateRoom, TypeInv, TypeOK
<1>4. rows' \in [Codes -> PersistedRoom \cup {None}]
  BY <1>2, PersistTyped DEF CreateRoom
<1>5. creating' \in [Codes -> Nat]
  <2>1. creating \in [Codes -> Nat] /\ creating[c] - 1 \in Nat
    BY DEF CreateRoom, TypeInv, TypeOK
  <2>2. creating' = [creating EXCEPT ![c] = creating[c] - 1]
    BY DEF CreateRoom
  <2> QED BY <2>1, <2>2
<1>6. nextId' \in Nat
  BY <1>2 DEF CreateRoom
<1>7. TypeOK'
  BY <1>1, <1>3, <1>4, <1>5, <1>6 DEF TypeInv, TypeOK
<1> QED BY <1>1, <1>7, QueueIdle DEF TypeInv, HandlersAgree

LEMMA TimePassesTyped ==
  ASSUME TypeInv, NEW c \in Codes, TimePasses(c)
  PROVE  TypeInv'
<1> USE ConstantsOK DEF Assumptions
<1>1. /\ ready' = <<>> /\ orphan' = None
      /\ UNCHANGED <<alive, binding, timers, hydrating, waiting, ready, orphan, leaving, creating, nextId>>
  BY QueueIdleNow DEF TimePasses
<1>2. cache' \in [Codes -> Room \cup {None}]
  <2>1. cache' = [cache EXCEPT ![c] = IF cache[c] = None THEN None ELSE [cache[c] EXCEPT !.idle = TRUE]]
    BY DEF TimePasses
  <2>2. cache[c] # None => cache[c] \in Room
    BY DEF TypeInv, TypeOK
  <2>3. cache[c] # None => [cache[c] EXCEPT !.idle = TRUE] \in Room
    BY <2>2 DEF Room
  <2> QED BY <2>1, <2>3 DEF TypeInv, TypeOK
<1>3. rows' \in [Codes -> PersistedRoom \cup {None}]
  <2>1. rows' = [rows EXCEPT ![c] = [rows[c] EXCEPT !.idle = TRUE]] /\ rows[c] # None
    BY DEF TimePasses
  <2>2. rows[c] \in PersistedRoom
    BY <2>1 DEF TypeInv, TypeOK
  <2>3. [rows[c] EXCEPT !.idle = TRUE] \in PersistedRoom
    BY <2>2 DEF PersistedRoom
  <2> QED BY <2>1, <2>3 DEF TypeInv, TypeOK
<1>4. TypeOK'
  BY <1>1, <1>2, <1>3 DEF TypeInv, TypeOK
<1> QED BY <1>1, <1>4, QueueIdle DEF TypeInv, HandlersAgree

(* The steps that only clear, open or count something.                     *)
LEMMA SmallStepsTyped ==
  ASSUME TypeInv,
         \/ \E c \in Codes : Peek(c) \/ SweepIdleRoom(c) \/ CreateCheck(c)
         \/ \E s \in Sockets : Connect(s) \/ FinishLeave(s)
  PROVE  TypeInv'
<1>1. ready' = <<>> /\ orphan' = None /\ UNCHANGED <<waiting, ready>>
  BY QueueIdleNow DEF Peek, SweepIdleRoom, CreateCheck, Connect, FinishLeave
<1>2. TypeOK'
  <2>1. ASSUME NEW c \in Codes, Peek(c) PROVE TypeOK'
    BY <2>1 DEF Peek, TypeInv, TypeOK
  <2>2. ASSUME NEW c \in Codes, SweepIdleRoom(c) PROVE TypeOK'
    BY <2>2 DEF SweepIdleRoom, TypeInv, TypeOK
  <2>3. ASSUME NEW c \in Codes, CreateCheck(c) PROVE TypeOK'
    BY <2>3 DEF CreateCheck, TypeInv, TypeOK
  <2>4. ASSUME NEW s \in Sockets, Connect(s) PROVE TypeOK'
    BY <2>4 DEF Connect, TypeInv, TypeOK
  <2>5. ASSUME NEW s \in Sockets, FinishLeave(s) PROVE TypeOK'
    BY <2>5 DEF FinishLeave, TypeInv, TypeOK
  <2> QED BY <2>1, <2>2, <2>3, <2>4, <2>5
<1> QED BY <1>1, <1>2, QueueIdle DEF TypeInv, HandlersAgree

LEMMA RestartTyped == Restart /\ TypeInv => TypeInv'
<1> SUFFICES ASSUME Restart, TypeInv PROVE TypeInv'
  OBVIOUS
<1>1. TypeOK'
  BY DEF Restart, TypeInv, TypeOK
<1>2. HandlersAgree'
  BY DEF Restart, HandlersAgree
<1>3. ready' = <<>> /\ orphan' = None
  BY DEF Restart
<1> QED BY <1>1, <1>2, <1>3, QueueIdle DEF TypeInv

LEMMA InitTyped == Init => TypeInv
<1> SUFFICES ASSUME Init PROVE TypeInv
  OBVIOUS
<1>1. TypeOK
  BY DEF Init, TypeOK
<1> QED BY <1>1 DEF Init, TypeInv, HandlersAgree, OrphanHeld, ReadyHandlersHoldARoom

LEMMA NextTyped == TypeInv /\ [Next]_vars => TypeInv'
<1> SUFFICES ASSUME TypeInv, [Next]_vars PROVE TypeInv'
  OBVIOUS
<1>1. CASE UNCHANGED vars
  BY <1>1 DEF vars, TypeInv, TypeOK, HandlersAgree, OrphanHeld, ReadyHandlersHoldARoom, Held
<1>2. CASE Next
  BY <1>2, HandleTyped, WaitTyped, DisconnectTyped, HydrateRoomTyped, ExpireSeatTyped,
     CreateRoomTyped, TimePassesTyped, SmallStepsTyped, RestartTyped
  DEF Next
<1> QED BY <1>1, <1>2

LEMMA TypeInvHolds == Spec => []TypeInv
BY InitTyped, NextTyped, PTL DEF Spec

(* Every variable keeps its type, and with it: handlers resumed by one     *)
(* hydration always share one room, in the cache or taken out of it by one *)
(* of them (getRoom, roomCore.ts).                                         *)
THEOREM TypeCorrect == Spec => []TypeOK
BY TypeInvHolds, PTL DEF TypeInv

(* A handler resumed after another one deleted its room still has that     *)
(* room's object to work on (abandonRoom racing getRoom's waiters).        *)
THEOREM HandlersHoldARoom == Spec => []ReadyHandlersHoldARoom
BY TypeInvHolds, PTL DEF TypeInv
-----------------------------------------------------------------------------
(***************************************************************************)
(* Seats: a taken seat has an owner, in memory and in the repository, and  *)
(* a seat that waits for its player has a running grace timer.             *)
(***************************************************************************)

OwnedIn(room) == \A r \in Seats : room.seats[r] # None => room.knownAccounts[r] # None

OwnedInRow(row) == \A r \in row.seats : row.knownAccounts[r] # None

(* TakenSeatsAreOwned, also for the room that resumed handlers hold after  *)
(* it has left the cache: one of them may write it back.                   *)
OwnedInv ==
  /\ \A c \in Codes : cache[c] # None => OwnedIn(cache[c])
  /\ \A c \in Codes : rows[c] # None => OwnedInRow(rows[c])
  /\ orphan # None => OwnedIn(orphan)
-----------------------------------------------------------------------------
(* Ownership of taken seats                                                *)

LEMMA SnapshotOwned ==
  ASSUME NEW room \in Room, OwnedIn(room)
  PROVE  OwnedInRow(Snapshot(room))
BY DEF OwnedIn, OwnedInRow, Snapshot, Room

LEMMA HydratedOwned ==
  ASSUME NEW row \in PersistedRoom, OwnedInRow(row)
  PROVE  OwnedIn(Hydrated(row))
BY DEF OwnedIn, OwnedInRow, Hydrated, PersistedRoom

LEMMA TakenOwned ==
  ASSUME NEW room \in Room, OwnedIn(room), NEW r \in Seats, NEW s \in Sockets,
         NEW account \in Accounts
  PROVE  OwnedIn(TakeSeat(room, r, s, account)) /\ OwnedIn(TakeOver(room, r, s, account))
BY ConstantsOK DEF Assumptions, OwnedIn, TakeSeat, TakeOver, Room

LEMMA FreedOwned ==
  ASSUME NEW room \in Room, OwnedIn(room), NEW r \in Seats
  PROVE  OwnedIn([room EXCEPT !.seats[r] = None])
BY DEF OwnedIn, Room

LEMMA PlayedOwned ==
  ASSUME NEW room \in Room, OwnedIn(room), NEW over \in BOOLEAN
  PROVE  OwnedIn(Played(room, over))
BY DEF OwnedIn, Played, Room

(* What a handler holds is owned, and so is what it leaves behind.         *)
LEMMA HeldOwned ==
  ASSUME TypeInv, OwnedInv, NEW q \in Request, Runs(q)
  PROVE  OwnedIn(Held(q.code)) /\ Held(q.code) \in Room
<1>1. Held(q.code) \in Room
  BY HeldTyped
<1>2. Held(q.code) # None /\ q.code \in Codes
  BY <1>1, ConstantsOK DEF Assumptions, Request
<1> QED BY <1>1, <1>2 DEF OwnedInv, Held

LEMMA CallerHolds ==
  ASSUME TypeInv, OwnedInv, NEW op \in Ops, NEW c \in Codes, NEW r \in Roles,
         NEW s \in Sockets, Runs(Call(op, c, r, s))
  PROVE  Held(c) \in Room /\ OwnedIn(Held(c))
BY CallTyped, HeldOwned

LEMMA MutateOwned ==
  ASSUME TypeInv, OwnedInv, NEW c \in Codes, NEW room \in Room, OwnedIn(room),
         Mutate(c, room), Persist(c, room) \/ UNCHANGED rows
  PROVE  OwnedInv'
<1> USE ConstantsOK DEF Assumptions
<1>1. \A k \in Codes : rows'[k] # None => OwnedInRow(rows'[k])
  <2>1. CASE UNCHANGED rows
    BY <2>1 DEF OwnedInv
  <2>2. CASE Persist(c, room)
    <3>1. OwnedInRow(Snapshot(room))
      BY SnapshotOwned
    <3>2. rows' = [rows EXCEPT ![c] = Snapshot(room)]
      BY <2>2 DEF Persist
    <3> QED BY <3>1, <3>2 DEF OwnedInv, TypeInv, TypeOK
  <2> QED BY <2>1, <2>2
<1>2. CASE orphan = None
  <2>1. cache' = [cache EXCEPT ![c] = room] /\ orphan' = None
    BY <1>2 DEF Mutate
  <2>2. \A k \in Codes : cache'[k] # None => OwnedIn(cache'[k])
    BY <2>1 DEF OwnedInv, TypeInv, TypeOK
  <2> QED BY <1>1, <2>1, <2>2 DEF OwnedInv
<1>3. CASE orphan # None
  <2>1. cache' = cache /\ orphan' \in {room, None}
    BY <1>3 DEF Mutate
  <2>2. \A k \in Codes : cache'[k] # None => OwnedIn(cache'[k])
    BY <2>1 DEF OwnedInv
  <2>3. orphan' # None => OwnedIn(orphan')
    BY <2>1
  <2> QED BY <1>1, <2>2, <2>3 DEF OwnedInv
<1> QED BY <1>2, <1>3

LEMMA DroppedOwned ==
  ASSUME TypeInv, NEW c \in Codes, NEW r \in Roles, NEW s \in Sockets,
         Held(c) \in Room, OwnedIn(Held(c)), Dropped(c, r, s)
  PROVE  \E room \in Room : OwnedIn(room) /\ Mutate(c, room)
<1> USE ConstantsOK DEF Assumptions
<1> DEFINE held == Held(c)
<1>1. CASE r = Spectator
  <2> DEFINE room == [held EXCEPT !.spectatorSocketIds = @ \ {s}]
  <2>1. room \in Room /\ room.seats = held.seats /\ room.knownAccounts = held.knownAccounts
    BY DEF Room
  <2>2. Mutate(c, room)
    BY <1>1 DEF Dropped
  <2> HIDE DEF room
  <2> QED BY <2>1, <2>2 DEF OwnedIn
<1>2. CASE r \in Seats /\ held.seats[r] = s
  <2> DEFINE room == [held EXCEPT !.seats[r] = Away]
  <2>1. room \in Room /\ OwnedIn(room)
    BY <1>2 DEF OwnedIn, Room
  <2>2. Mutate(c, room)
    BY <1>2 DEF Dropped
  <2> QED BY <2>1, <2>2
<1>3. CASE r \in Seats /\ held.seats[r] # s
  BY <1>3 DEF Dropped
<1> QED BY <1>1, <1>2, <1>3

LEMMA HandleOwned == TypeInv /\ OwnedInv /\ Handle => OwnedInv'
<1> SUFFICES ASSUME TypeInv, OwnedInv, Handle PROVE OwnedInv'
  OBVIOUS
<1> USE ConstantsOK DEF Assumptions
<1>1. ASSUME NEW s \in Sockets, NEW c \in Codes, JoinSpectator(s, c)
      PROVE  OwnedInv'
  <2> DEFINE room == [Held(c) EXCEPT !.spectatorSocketIds = @ \cup {s}]
  <2>1. Held(c) \in Room /\ OwnedIn(Held(c))
    BY <1>1, CallerHolds DEF JoinSpectator, Ops
  <2>2. room \in Room /\ OwnedIn(room)
    BY <2>1 DEF OwnedIn, Room
  <2> QED BY MutateOwned, <1>1, <2>2 DEF JoinSpectator
<1>2. ASSUME NEW s \in Sockets, NEW c \in Codes, NEW r \in Seats,
             JoinSeat(s, c, r) \/ ReconnectRoom(s, c, r) \/ ReconnectByAccount(s, c, r)
      PROVE  OwnedInv'
  <2> DEFINE taken == TakeSeat(Held(c), r, s, AccountOf[s])
             over == TakeOver(Held(c), r, s, AccountOf[s])
  <2>1. Held(c) \in Room /\ OwnedIn(Held(c)) /\ AccountOf[s] \in Accounts
    BY <1>2, CallerHolds DEF JoinSeat, ReconnectRoom, ReconnectByAccount, Ops
  <2>2. /\ taken \in Room /\ OwnedIn(taken)
        /\ over \in Room /\ OwnedIn(over)
    BY <2>1, TakenOwned, TakeSeatTyped, TakeOverTyped
  <2>3. \/ Mutate(c, taken) /\ Persist(c, taken)
        \/ Mutate(c, over) /\ Persist(c, over)
    BY <1>2 DEF JoinSeat, ReconnectRoom, ReconnectByAccount
  <2> QED BY MutateOwned, <2>2, <2>3
<1>3. ASSUME NEW s \in Sockets, NEW c \in Codes, LeaveAsSpectator(s, c)
      PROVE  OwnedInv'
  <2> DEFINE room == [Held(c) EXCEPT !.spectatorSocketIds = @ \ {s}]
  <2>1. Held(c) \in Room /\ OwnedIn(Held(c))
    BY <1>3, CallerHolds DEF LeaveAsSpectator, Ops
  <2>2. room \in Room /\ OwnedIn(room)
    BY <2>1 DEF OwnedIn, Room
  <2> QED BY MutateOwned, <1>3, <2>2 DEF LeaveAsSpectator
<1>4. ASSUME NEW s \in Sockets, NEW c \in Codes, LeaveSeat(s, c)
      PROVE  OwnedInv'
  <2> DEFINE r == binding[s].role
             room == [Held(c) EXCEPT !.seats[r] = None]
  <2>1. Held(c) \in Room /\ OwnedIn(Held(c))
    BY <1>4, CallerHolds DEF LeaveSeat, Ops
  <2>2. r \in Seats
    BY <1>4 DEF LeaveSeat, BoundTo, Binding, TypeInv, TypeOK
  <2>3. room \in Room /\ OwnedIn(room)
    BY <2>1, <2>2, FreedTyped, FreedOwned
  <2> QED BY MutateOwned, <1>4, <2>3 DEF LeaveSeat
<1>5. ASSUME NEW s \in Sockets, NEW c \in Codes, NEW r \in Roles, DropResumed(s, c, r)
      PROVE  OwnedInv'
  <2>1. Held(c) \in Room /\ OwnedIn(Held(c))
    BY <1>5, CallerHolds DEF DropResumed, Ops
  <2>2. PICK room \in Room : OwnedIn(room) /\ Mutate(c, room)
    BY <1>5, <2>1, DroppedOwned DEF DropResumed
  <2> QED BY MutateOwned, <1>5, <2>2 DEF DropResumed
<1>6. ASSUME NEW s \in Sockets, NEW c \in Codes, NEW over \in BOOLEAN, ApplyAction(s, c, over)
      PROVE  OwnedInv'
  <2> DEFINE room == Played(Held(c), over)
  <2>1. Held(c) \in Room /\ OwnedIn(Held(c))
    BY <1>6, CallerHolds DEF ApplyAction, Ops
  <2>2. room \in Room /\ OwnedIn(room)
    BY <2>1, PlayedTyped, PlayedOwned
  <2> QED BY MutateOwned, <1>6, <2>2 DEF ApplyAction
<1>7. ASSUME NEW s \in Sockets, NEW c \in Codes, SendChatMessage(s, c)
      PROVE  OwnedInv'
  <2> DEFINE room == [Held(c) EXCEPT !.idle = FALSE]
  <2>1. Held(c) \in Room /\ OwnedIn(Held(c))
    BY <1>7, CallerHolds DEF SendChatMessage, Ops
  <2>2. room \in Room /\ OwnedIn(room)
    BY <2>1 DEF OwnedIn, Room
  <2> QED BY MutateOwned, <1>7, <2>2 DEF SendChatMessage
<1>8. ASSUME NEW c \in Codes, NEW account \in Accounts, AbandonRoom(c, account)
      PROVE  OwnedInv'
  <2>1. OwnedIn(Held(c))
    BY <1>8, HttpAbandonTyped, HeldOwned DEF AbandonRoom
  <2>2. /\ cache' = [cache EXCEPT ![c] = None] /\ rows' = [rows EXCEPT ![c] = None]
        /\ orphan' \in {Held(c), None}
    BY <1>8 DEF AbandonRoom
  <2> QED BY <2>1, <2>2 DEF OwnedInv, TypeInv, TypeOK
<1>9. ASSUME Refuse
      PROVE  OwnedInv'
  BY <1>9 DEF Refuse, Untouched, OwnedInv
<1> QED
  BY <1>1, <1>2, <1>3, <1>4, <1>5, <1>6, <1>7, <1>8, <1>9 DEF Handle, SocketCall

LEMMA OwnedStep == TypeInv /\ OwnedInv /\ [Next]_vars => OwnedInv'
<1> SUFFICES ASSUME TypeInv, OwnedInv, [Next]_vars PROVE OwnedInv'
  OBVIOUS
<1> USE ConstantsOK DEF Assumptions
<1>1. CASE Handle
  BY <1>1, HandleOwned
<1>2. CASE UNCHANGED <<cache, rows, orphan>>
  BY <1>2 DEF OwnedInv
<1>3. ASSUME NEW s \in Sockets, Disconnect(s), ~ UNCHANGED cache
      PROVE  OwnedInv'
  <2> DEFINE b == binding[s]
  <2>1. /\ b # None /\ cache[b.code] # None /\ Dropped(b.code, b.role, s)
        /\ ready = <<>> /\ UNCHANGED rows
    BY <1>3 DEF Disconnect
  <2>2. b.code \in Codes /\ b.role \in Roles
    BY <2>1 DEF Binding, TypeInv, TypeOK
  <2>3. Held(b.code) \in Room /\ OwnedIn(Held(b.code))
    BY <2>1, <2>2, QueueIdleNow DEF Held, OwnedInv, TypeInv, TypeOK
  <2>4. PICK room \in Room : OwnedIn(room) /\ Mutate(b.code, room)
    BY <2>1, <2>2, <2>3, DroppedOwned
  <2> QED BY MutateOwned, <2>1, <2>2, <2>4
<1>4. ASSUME NEW c \in Codes, HydrateRoom(c), rows[c] # None
      PROVE  OwnedInv'
  <2>1. rows[c] \in PersistedRoom /\ OwnedInRow(rows[c])
    BY <1>4 DEF OwnedInv, TypeInv, TypeOK
  <2>2. OwnedIn(Hydrated(rows[c]))
    BY <2>1, HydratedOwned
  <2>3. cache' = [cache EXCEPT ![c] = Hydrated(rows[c])] /\ UNCHANGED <<rows, orphan>>
    BY <1>4 DEF HydrateRoom
  <2> QED BY <2>2, <2>3 DEF OwnedInv, TypeInv, TypeOK
<1>5. ASSUME NEW c \in Codes, NEW r \in Seats, ExpireSeat(c, r), MayExpire(c, r)
      PROVE  OwnedInv'
  <2> DEFINE freed == [cache[c] EXCEPT !.seats[r] = None]
  <2>1. cache[c] \in Room /\ OwnedIn(cache[c])
    BY <1>5 DEF MayExpire, OwnedInv, TypeInv, TypeOK
  <2>2. freed \in Room /\ OwnedIn(freed)
    BY <2>1, FreedTyped, FreedOwned
  <2>3. cache' = [cache EXCEPT ![c] = freed] /\ Persist(c, freed) /\ UNCHANGED orphan /\ orphan = None
    BY <1>5, QueueIdleNow DEF ExpireSeat
  <2>4. Mutate(c, freed)
    BY <2>3 DEF Mutate
  <2> QED BY MutateOwned, <2>2, <2>3, <2>4
<1>6. ASSUME NEW c \in Codes, SweepIdleRoom(c)
      PROVE  OwnedInv'
  BY <1>6 DEF SweepIdleRoom, OwnedInv, TypeInv, TypeOK
<1>7. ASSUME NEW c \in Codes, CreateRoom(c)
      PROVE  OwnedInv'
  <2>1. NewRoom(nextId) \in Room /\ OwnedIn(NewRoom(nextId))
    BY NewRoomTyped DEF OwnedIn, NewRoom, TypeInv, TypeOK
  <2>2. /\ cache' = [cache EXCEPT ![c] = NewRoom(nextId)] /\ Persist(c, NewRoom(nextId))
        /\ UNCHANGED orphan /\ orphan = None
    BY <1>7, QueueIdleNow DEF CreateRoom
  <2>3. Mutate(c, NewRoom(nextId))
    BY <2>2 DEF Mutate
  <2> QED BY MutateOwned, <2>1, <2>2, <2>3
<1>8. ASSUME NEW c \in Codes, TimePasses(c)
      PROVE  OwnedInv'
  <2> DEFINE aged == [rows[c] EXCEPT !.idle = TRUE]
             room == [cache[c] EXCEPT !.idle = TRUE]
  <2>1. rows' = [rows EXCEPT ![c] = aged] /\ rows[c] # None /\ UNCHANGED orphan
        /\ cache' = [cache EXCEPT ![c] = IF cache[c] = None THEN None ELSE room]
    BY <1>8 DEF TimePasses
  <2>2. OwnedInRow(aged)
    <3>1. rows[c] \in PersistedRoom /\ OwnedInRow(rows[c])
      BY <2>1 DEF OwnedInv, TypeInv, TypeOK
    <3> QED BY <3>1 DEF OwnedInRow, PersistedRoom
  <2>3. cache[c] # None => OwnedIn(room)
    <3>1. cache[c] # None => cache[c] \in Room /\ OwnedIn(cache[c])
      BY DEF OwnedInv, TypeInv, TypeOK
    <3> QED BY <3>1 DEF OwnedIn, Room
  <2> HIDE DEF aged, room
  <2>4. \A k \in Codes : rows'[k] # None => OwnedInRow(rows'[k])
    BY <2>1, <2>2 DEF OwnedInv, TypeInv, TypeOK
  <2>5. \A k \in Codes : cache'[k] # None => OwnedIn(cache'[k])
    BY <2>1, <2>3 DEF OwnedInv, TypeInv, TypeOK
  <2> QED BY <2>1, <2>4, <2>5 DEF OwnedInv
<1>9. CASE Restart
  BY <1>9 DEF Restart, OwnedInv
<1>10. CASE Wait
  BY <1>2, <1>10 DEF Wait, GetUncached
<1>11. ASSUME NEW s \in Sockets, Connect(s) \/ FinishLeave(s) \/ Disconnect(s)
       PROVE  OwnedInv'
  <2>1. CASE Disconnect(s)
    <3>1. ready = <<>> /\ orphan = None /\ UNCHANGED rows
      BY <2>1, QueueIdleNow DEF Disconnect
    <3>2. CASE UNCHANGED cache
      <4>1. CASE UNCHANGED orphan
        BY <1>2, <3>1, <3>2, <4>1
      <4>2. CASE orphan' # orphan
        BY <2>1, <3>1, <4>2 DEF Disconnect, Dropped, Mutate
      <4> QED BY <4>1, <4>2
    <3> QED BY <1>3, <2>1, <3>2
  <2> QED BY <1>2, <1>11, <2>1 DEF Connect, FinishLeave
<1>12. ASSUME NEW c \in Codes, Peek(c) \/ CreateCheck(c) \/ HydrateRoom(c)
       PROVE  OwnedInv'
  BY <1>2, <1>4, <1>12 DEF Peek, CreateCheck, HydrateRoom
<1>13. ASSUME NEW c \in Codes, NEW r \in Seats, ExpireSeat(c, r)
       PROVE  OwnedInv'
  BY <1>2, <1>5, <1>13 DEF ExpireSeat
<1> QED
  BY <1>1, <1>2, <1>6, <1>7, <1>8, <1>9, <1>10, <1>11, <1>12, <1>13 DEF Next, vars

(* Every taken seat has an owner: the claim is recorded in the step that   *)
(* takes the seat, and nothing but the end of the room clears it. The      *)
(* sweep, which looks at claims only, relies on it (hasEverBeenClaimed).   *)
THEOREM SeatsAreOwned == Spec => []TakenSeatsAreOwned
<1>1. Init => OwnedInv
  BY DEF Init, OwnedInv
<1>2. TypeInv /\ OwnedInv => TakenSeatsAreOwned
  BY DEF TypeInv, TypeOK, PersistedRoom, OwnedInv, OwnedIn, OwnedInRow, TakenSeatsAreOwned
<1> QED BY <1>1, <1>2, OwnedStep, TypeInvHolds, PTL DEF Spec
-----------------------------------------------------------------------------
(* Grace timers                                                            *)

(* The timers a step on code c may touch are those of c.                   *)
OtherTimersKept(c) ==
  \A k \in Codes, r \in Seats : k # c /\ <<k, r>> \in timers => <<k, r>> \in timers'

WaitsWithTimer(c, room) == \A r \in Seats : room.seats[r] = Away => <<c, r>> \in timers'

LEMMA CachedTimed ==
  ASSUME TypeInv, AwaySeatHasTimer, NEW c \in Codes, NEW room, cache' = [cache EXCEPT ![c] = room],
         room # None => WaitsWithTimer(c, room), OtherTimersKept(c)
  PROVE  AwaySeatHasTimer'
<1> SUFFICES ASSUME NEW k \in Codes, NEW r \in Seats, cache'[k] # None, cache'[k].seats[r] = Away
             PROVE  <<k, r>> \in timers'
  BY DEF AwaySeatHasTimer
<1>1. CASE k = c
  <2>1. cache'[k] = room
    BY <1>1 DEF TypeInv, TypeOK
  <2> QED BY <1>1, <2>1 DEF WaitsWithTimer
<1>2. CASE k # c
  <2>1. cache'[k] = cache[k]
    BY <1>2 DEF TypeInv, TypeOK
  <2> QED BY <1>2, <2>1 DEF OtherTimersKept, AwaySeatHasTimer
<1> QED BY <1>1, <1>2

(* A handler whose room has left the cache finds its code uncached: what   *)
(* it does to the timers of that code concerns no cached seat.             *)
LEMMA MutateTimed ==
  ASSUME TypeInv, AwaySeatHasTimer, NEW c \in Codes, NEW q \in Request, q.code = c, Runs(q),
         NEW room \in Room, Mutate(c, room),
         orphan = None => WaitsWithTimer(c, room), OtherTimersKept(c)
  PROVE  AwaySeatHasTimer'
<1>1. CASE orphan = None
  BY <1>1, CachedTimed DEF Mutate
<1>2. CASE orphan # None
  <2>1. ready # <<>> /\ q = ready[1]
    BY <1>2, RunsQueue DEF TypeInv, OrphanHeld
  <2>2. cache[c] = None /\ cache' = cache
    BY <1>2, <2>1 DEF Mutate, TypeInv, OrphanHeld
  <2>3. cache' = [cache EXCEPT ![c] = None]
    BY <2>2 DEF TypeInv, TypeOK
  <2> QED BY <2>3, CachedTimed
<1> QED BY <1>1, <1>2

LEMMA HeldTimed ==
  ASSUME TypeInv, AwaySeatHasTimer, NEW c \in Codes, NEW q \in Request, q.code = c, Runs(q),
         orphan = None
  PROVE  Held(c) \in Room /\ \A r \in Seats : Held(c).seats[r] = Away => <<c, r>> \in timers
<1>1. Held(c) \in Room
  BY HeldTyped
<1>2. Held(c) = cache[c] /\ Held(c) # None
  BY <1>1, ConstantsOK DEF Assumptions, Held
<1> QED BY <1>1, <1>2 DEF AwaySeatHasTimer

LEMMA DroppedTimed ==
  ASSUME TypeInv, NEW c \in Codes, NEW r \in Roles, NEW s \in Sockets,
         Held(c) \in Room, Dropped(c, r, s)
  PROVE  \E room \in Room :
           /\ Mutate(c, room)
           /\ timers \subseteq timers'
           /\ \A x \in Seats :
                room.seats[x] = Away => Held(c).seats[x] = Away \/ <<c, x>> \in timers'
<1> USE ConstantsOK DEF Assumptions
<1> DEFINE held == Held(c)
<1>1. CASE r = Spectator
  <2> DEFINE room == [held EXCEPT !.spectatorSocketIds = @ \ {s}]
  <2>1. room \in Room /\ room.seats = held.seats
    BY DEF Room
  <2>2. Mutate(c, room) /\ UNCHANGED timers
    BY <1>1 DEF Dropped
  <2> HIDE DEF room
  <2> QED BY <2>1, <2>2
<1>2. CASE r \in Seats /\ held.seats[r] = s
  <2> DEFINE room == [held EXCEPT !.seats[r] = Away]
  <2>1. room \in Room /\ \A x \in Seats : room.seats[x] = IF x = r THEN Away ELSE held.seats[x]
    BY <1>2 DEF Room
  <2>2. Mutate(c, room) /\ timers' = timers \cup {<<c, r>>}
    BY <1>2 DEF Dropped, StartGraceTimer
  <2> HIDE DEF room
  <2> QED BY <2>1, <2>2
<1>3. CASE r \in Seats /\ held.seats[r] # s
  <2>1. Mutate(c, held) /\ UNCHANGED timers
    BY <1>3 DEF Dropped
  <2> QED BY <2>1
<1> QED BY <1>1, <1>2, <1>3

LEMMA HandleTimed == TypeInv /\ AwaySeatHasTimer /\ Handle => AwaySeatHasTimer'
<1> SUFFICES ASSUME TypeInv, AwaySeatHasTimer, Handle PROVE AwaySeatHasTimer'
  OBVIOUS
<1> USE ConstantsOK DEF Assumptions
(* Handlers that keep the timers and add no seat that waits.               *)
<1>a. ASSUME NEW op \in Ops, NEW c \in Codes, NEW r \in Roles, NEW s \in Sockets,
             Runs(Call(op, c, r, s)), NEW room \in Room, Mutate(c, room), UNCHANGED timers,
             \A x \in Seats : room.seats[x] = Away => Held(c).seats[x] = Away
      PROVE  AwaySeatHasTimer'
  <2>1. Call(op, c, r, s) \in Request /\ Call(op, c, r, s).code = c
    BY CallTyped
  <2>2. orphan = None => WaitsWithTimer(c, room)
    BY <1>a, <2>1, HeldTimed DEF WaitsWithTimer
  <2> QED BY <1>a, <2>1, <2>2, MutateTimed DEF OtherTimersKept
(* Handlers that clear the timer of a seat which no longer waits.          *)
<1>b. ASSUME NEW op \in Ops, NEW c \in Codes, NEW r \in Roles, NEW s \in Sockets,
             Runs(Call(op, c, r, s)), NEW room \in Room, Mutate(c, room),
             NEW seat \in Seats, ClearGraceTimer(c, seat), room.seats[seat] # Away,
             \A x \in Seats : room.seats[x] = Away => Held(c).seats[x] = Away
      PROVE  AwaySeatHasTimer'
  <2>1. Call(op, c, r, s) \in Request /\ Call(op, c, r, s).code = c
    BY CallTyped
  <2>2. orphan = None => WaitsWithTimer(c, room)
    BY <1>b, <2>1, HeldTimed DEF WaitsWithTimer, ClearGraceTimer
  <2>3. OtherTimersKept(c)
    BY <1>b DEF OtherTimersKept, ClearGraceTimer
  <2> QED BY <1>b, <2>1, <2>2, <2>3, MutateTimed
<1>h. ASSUME NEW op \in Ops, NEW c \in Codes, NEW r \in Roles, NEW s \in Sockets,
             Runs(Call(op, c, r, s))
      PROVE  Held(c) \in Room
  BY <1>h, CallTyped, HeldTyped
<1>1. ASSUME NEW s \in Sockets, NEW c \in Codes, JoinSpectator(s, c)
      PROVE  AwaySeatHasTimer'
  <2> DEFINE room == [Held(c) EXCEPT !.spectatorSocketIds = @ \cup {s}]
  <2>1. Runs(Call("join", c, Spectator, s)) /\ Mutate(c, room) /\ UNCHANGED timers
    BY <1>1 DEF JoinSpectator
  <2>2. room \in Room /\ room.seats = Held(c).seats
    BY <1>h, <2>1 DEF Ops, Room
  <2> HIDE DEF room
  <2> QED BY <1>a, <2>1, <2>2 DEF Ops
<1>2. ASSUME NEW s \in Sockets, NEW c \in Codes, NEW r \in Seats,
             JoinSeat(s, c, r) \/ ReconnectRoom(s, c, r) \/ ReconnectByAccount(s, c, r)
      PROVE  AwaySeatHasTimer'
  <2> DEFINE taken == TakeSeat(Held(c), r, s, AccountOf[s])
             over == TakeOver(Held(c), r, s, AccountOf[s])
  <2>1. PICK op \in Ops, role \in Roles : Runs(Call(op, c, role, s))
    BY <1>2 DEF JoinSeat, ReconnectRoom, ReconnectByAccount, Ops
  <2>2. Held(c) \in Room /\ AccountOf[s] \in Accounts
    BY <1>h, <2>1
  <2>3. /\ taken \in Room /\ taken.seats = [Held(c).seats EXCEPT ![r] = s]
        /\ over \in Room /\ over.seats = [Held(c).seats EXCEPT ![r] = s]
    <3>1. taken \in Room /\ over \in Room
      BY <2>2, TakeSeatTyped, TakeOverTyped
    <3>2. taken.seats = [Held(c).seats EXCEPT ![r] = s]
      BY DEF TakeSeat
    <3>3. over.seats = [Held(c).seats EXCEPT ![r] = s]
      BY DEF TakeOver
    <3> QED BY <3>1, <3>2, <3>3
  <2>4. \/ Mutate(c, taken) /\ (UNCHANGED timers \/ ClearGraceTimer(c, r))
        \/ Mutate(c, over) /\ (UNCHANGED timers \/ ClearGraceTimer(c, r))
    BY <1>2 DEF JoinSeat, ReconnectRoom, ReconnectByAccount
  <2>5. \A room \in {taken, over} :
          /\ room.seats[r] # Away
          /\ \A x \in Seats : room.seats[x] = Away => Held(c).seats[x] = Away
    BY <2>2, <2>3 DEF Room
  <2> HIDE DEF taken, over
  <2>6. PICK room \in {taken, over} : Mutate(c, room) /\ (UNCHANGED timers \/ ClearGraceTimer(c, r))
    BY <2>4
  <2> QED BY <1>a, <1>b, <2>1, <2>3, <2>5, <2>6
<1>3. ASSUME NEW s \in Sockets, NEW c \in Codes, LeaveAsSpectator(s, c)
      PROVE  AwaySeatHasTimer'
  <2> DEFINE room == [Held(c) EXCEPT !.spectatorSocketIds = @ \ {s}]
  <2>1. Runs(Call("leave", c, Spectator, s)) /\ Mutate(c, room) /\ UNCHANGED timers
    BY <1>3 DEF LeaveAsSpectator
  <2>2. room \in Room /\ room.seats = Held(c).seats
    BY <1>h, <2>1 DEF Ops, Room
  <2> HIDE DEF room
  <2> QED BY <1>a, <2>1, <2>2 DEF Ops
<1>4. ASSUME NEW s \in Sockets, NEW c \in Codes, LeaveSeat(s, c)
      PROVE  AwaySeatHasTimer'
  <2> DEFINE r == binding[s].role
             room == [Held(c) EXCEPT !.seats[r] = None]
  <2>1. Runs(Call("leave", c, Spectator, s)) /\ Mutate(c, room) /\ ClearGraceTimer(c, r)
    BY <1>4 DEF LeaveSeat
  <2>2. r \in Seats
    BY <1>4 DEF LeaveSeat, BoundTo, Binding, TypeInv, TypeOK
  <2>3. Held(c) \in Room
    BY <1>h, <2>1 DEF Ops
  <2>4. room \in Room /\ room.seats = [Held(c).seats EXCEPT ![r] = None]
    BY <2>2, <2>3 DEF Room
  <2>5. /\ room.seats[r] # Away
        /\ \A x \in Seats : room.seats[x] = Away => Held(c).seats[x] = Away
    BY <2>2, <2>3, <2>4 DEF Room
  <2> HIDE DEF room, r
  <2> QED BY <1>b, <2>1, <2>2, <2>4, <2>5 DEF Ops
<1>5. ASSUME NEW s \in Sockets, NEW c \in Codes, NEW r \in Roles, DropResumed(s, c, r)
      PROVE  AwaySeatHasTimer'
  <2>1. Runs(Call("drop", c, r, s)) /\ Dropped(c, r, s)
    BY <1>5 DEF DropResumed
  <2>2. PICK q \in Request : q.code = c /\ Runs(q)
    BY <2>1, CallTyped DEF Ops
  <2>3. Held(c) \in Room
    BY <2>2, HeldTyped
  <2>4. PICK room \in Room :
          /\ Mutate(c, room)
          /\ timers \subseteq timers'
          /\ \A x \in Seats :
               room.seats[x] = Away => Held(c).seats[x] = Away \/ <<c, x>> \in timers'
    BY <2>1, <2>3, DroppedTimed
  <2>5. orphan = None => \A x \in Seats : Held(c).seats[x] = Away => <<c, x>> \in timers
    BY <2>2, HeldTimed
  <2>6. orphan = None => WaitsWithTimer(c, room)
    BY <2>4, <2>5 DEF WaitsWithTimer
  <2>7. OtherTimersKept(c)
    BY <2>4 DEF OtherTimersKept
  <2> QED BY <2>2, <2>4, <2>6, <2>7, MutateTimed
<1>6. ASSUME NEW s \in Sockets, NEW c \in Codes, NEW over \in BOOLEAN, ApplyAction(s, c, over)
      PROVE  AwaySeatHasTimer'
  <2> DEFINE room == Played(Held(c), over)
  <2>1. Runs(Call("act", c, Spectator, s)) /\ Mutate(c, room) /\ UNCHANGED timers
    BY <1>6 DEF ApplyAction
  <2>2. Held(c) \in Room
    BY <1>h, <2>1 DEF Ops
  <2>3. room \in Room /\ room.seats = Held(c).seats
    BY <2>2, PlayedTyped DEF Played, Room
  <2> HIDE DEF room
  <2> QED BY <1>a, <2>1, <2>3 DEF Ops
<1>7. ASSUME NEW s \in Sockets, NEW c \in Codes, SendChatMessage(s, c)
      PROVE  AwaySeatHasTimer'
  <2> DEFINE room == [Held(c) EXCEPT !.idle = FALSE]
  <2>1. Runs(Call("chat", c, Spectator, s)) /\ Mutate(c, room) /\ UNCHANGED timers
    BY <1>7 DEF SendChatMessage
  <2>2. Held(c) \in Room
    BY <1>h, <2>1 DEF Ops
  <2>3. room \in Room /\ room.seats = Held(c).seats
    BY <2>2 DEF Room
  <2> HIDE DEF room
  <2> QED BY <1>a, <2>1, <2>3 DEF Ops
<1>8. ASSUME NEW c \in Codes, NEW account \in Accounts, AbandonRoom(c, account)
      PROVE  AwaySeatHasTimer'
  <2>1. cache' = [cache EXCEPT ![c] = None] /\ OtherTimersKept(c)
    BY <1>8 DEF AbandonRoom, OtherTimersKept
  <2> QED BY <2>1, CachedTimed
<1>9. ASSUME Refuse
      PROVE  AwaySeatHasTimer'
  BY <1>9 DEF Refuse, Untouched, AwaySeatHasTimer
<1> QED
  BY <1>1, <1>2, <1>3, <1>4, <1>5, <1>6, <1>7, <1>8, <1>9 DEF Handle, SocketCall

LEMMA DisconnectTimed ==
  ASSUME TypeInv, AwaySeatHasTimer, NEW s \in Sockets, Disconnect(s)
  PROVE  AwaySeatHasTimer'
<1> USE ConstantsOK DEF Assumptions
<1> DEFINE b == binding[s]
<1>1. CASE UNCHANGED <<cache, timers>>
  BY <1>1 DEF AwaySeatHasTimer
<1>2. CASE b # None /\ cache[b.code] # None /\ Dropped(b.code, b.role, s)
  <2>1. b.code \in Codes /\ b.role \in Roles /\ orphan = None
    BY <1>2, QueueIdleNow DEF Disconnect, Binding, TypeInv, TypeOK
  <2>2. Held(b.code) \in Room /\ Held(b.code) = cache[b.code]
    BY <1>2, <2>1 DEF Held, TypeInv, TypeOK
  <2>3. \A x \in Seats : Held(b.code).seats[x] = Away => <<b.code, x>> \in timers
    BY <1>2, <2>1, <2>2 DEF AwaySeatHasTimer
  <2>4. PICK room \in Room :
          /\ Mutate(b.code, room)
          /\ timers \subseteq timers'
          /\ \A x \in Seats :
               room.seats[x] = Away => Held(b.code).seats[x] = Away \/ <<b.code, x>> \in timers'
    BY <1>2, <2>1, <2>2, DroppedTimed
  <2>5. cache' = [cache EXCEPT ![b.code] = room]
    BY <2>1, <2>4 DEF Mutate
  <2> HIDE DEF b
  <2>6. WaitsWithTimer(b.code, room) /\ OtherTimersKept(b.code)
    BY <2>3, <2>4 DEF WaitsWithTimer, OtherTimersKept
  <2> QED BY <2>1, <2>5, <2>6, CachedTimed
<1> QED BY <1>1, <1>2 DEF Disconnect

LEMMA TimerStep == TypeInv /\ AwaySeatHasTimer /\ [Next]_vars => AwaySeatHasTimer'
<1> SUFFICES ASSUME TypeInv, AwaySeatHasTimer, [Next]_vars PROVE AwaySeatHasTimer'
  OBVIOUS
<1> USE ConstantsOK DEF Assumptions
<1>1. CASE Handle
  BY <1>1, HandleTimed
<1>2. CASE UNCHANGED <<cache, timers>>
  BY <1>2 DEF AwaySeatHasTimer
<1>3. ASSUME NEW s \in Sockets, Connect(s) \/ FinishLeave(s) \/ Disconnect(s)
      PROVE  AwaySeatHasTimer'
  BY <1>2, <1>3, DisconnectTimed DEF Connect, FinishLeave
<1>4. CASE Wait
  BY <1>2, <1>4 DEF Wait, GetUncached
<1>5. ASSUME NEW c \in Codes, HydrateRoom(c), rows[c] # None
      PROVE  AwaySeatHasTimer'
  <2>1. /\ cache' = [cache EXCEPT ![c] = Hydrated(rows[c])]
        /\ timers' = timers \cup HydrationGrace(c)
    BY <1>5 DEF HydrateRoom
  <2>2. WaitsWithTimer(c, Hydrated(rows[c]))
    BY <2>1 DEF WaitsWithTimer, Hydrated, HydrationGrace
  <2>3. OtherTimersKept(c)
    BY <2>1 DEF OtherTimersKept
  <2> QED BY <2>1, <2>2, <2>3, CachedTimed
<1>6. ASSUME NEW c \in Codes, NEW r \in Seats, ExpireSeat(c, r)
      PROVE  AwaySeatHasTimer'
  <2>1. timers' = timers \ {<<c, r>>}
    BY <1>6 DEF ExpireSeat
  <2>2. OtherTimersKept(c)
    BY <2>1 DEF OtherTimersKept
  <2>3. CASE MayExpire(c, r)
    <3> DEFINE freed == [cache[c] EXCEPT !.seats[r] = None]
    <3>1. cache' = [cache EXCEPT ![c] = freed]
      BY <1>6, <2>3 DEF ExpireSeat
    <3>2. \A x \in Seats : freed.seats[x] = IF x = r THEN None ELSE cache[c].seats[x]
      BY <2>3 DEF MayExpire, TypeInv, TypeOK, Room
    <3> HIDE DEF freed
    <3>3. WaitsWithTimer(c, freed)
      BY <2>1, <2>3, <3>2 DEF WaitsWithTimer, AwaySeatHasTimer, MayExpire
    <3> QED BY <2>2, <3>1, <3>3, CachedTimed
  <2>4. CASE ~ MayExpire(c, r)
    <3>1. cache' = cache
      BY <1>6, <2>4 DEF ExpireSeat
    <3> QED BY <2>1, <2>4, <3>1 DEF AwaySeatHasTimer, MayExpire
  <2> QED BY <2>3, <2>4
<1>7. ASSUME NEW c \in Codes, NEW room, cache' = [cache EXCEPT ![c] = room], UNCHANGED timers,
             room # None => \A r \in Seats : room.seats[r] = Away =>
                              cache[c] # None /\ cache[c].seats[r] = Away
      PROVE  AwaySeatHasTimer'
  <2>1. OtherTimersKept(c)
    BY <1>7 DEF OtherTimersKept
  <2>2. room # None => WaitsWithTimer(c, room)
    BY <1>7 DEF WaitsWithTimer, AwaySeatHasTimer
  <2> QED BY <1>7, <2>1, <2>2, CachedTimed
<1>8. ASSUME NEW c \in Codes, SweepIdleRoom(c)
      PROVE  AwaySeatHasTimer'
  <2>1. cache' = [cache EXCEPT ![c] = None] /\ UNCHANGED timers
    BY <1>8 DEF SweepIdleRoom
  <2> QED BY <1>7, <2>1
<1>9. ASSUME NEW c \in Codes, CreateRoom(c)
      PROVE  AwaySeatHasTimer'
  <2>1. cache' = [cache EXCEPT ![c] = NewRoom(nextId)] /\ UNCHANGED timers
    BY <1>9 DEF CreateRoom
  <2>2. \A r \in Seats : NewRoom(nextId).seats[r] # Away
    BY DEF NewRoom
  <2> QED BY <1>7, <2>1, <2>2
<1>10. ASSUME NEW c \in Codes, TimePasses(c)
       PROVE  AwaySeatHasTimer'
  <2> DEFINE room == IF cache[c] = None THEN None ELSE [cache[c] EXCEPT !.idle = TRUE]
  <2>1. cache' = [cache EXCEPT ![c] = room] /\ UNCHANGED timers
    BY <1>10 DEF TimePasses
  <2>2. room # None => cache[c] # None /\ room.seats = cache[c].seats
    BY DEF TypeInv, TypeOK, Room
  <2> HIDE DEF room
  <2> QED BY <1>7, <2>1, <2>2
<1>11. CASE Restart
  BY <1>11 DEF Restart, AwaySeatHasTimer
<1>12. ASSUME NEW c \in Codes, Peek(c) \/ CreateCheck(c) \/ HydrateRoom(c)
       PROVE  AwaySeatHasTimer'
  BY <1>2, <1>5, <1>12 DEF Peek, CreateCheck, HydrateRoom
<1> QED
  BY <1>1, <1>2, <1>3, <1>4, <1>6, <1>8, <1>9, <1>10, <1>11, <1>12 DEF Next, vars

(* A cached seat that waits for its player always has a running grace      *)
(* timer, whatever disconnects, takeovers, hydrations, expiries, sweeps    *)
(* and reused codes do to the timer map (startGraceTimer, roomCore.ts).    *)
THEOREM AwaySeatsHaveTimers == Spec => []AwaySeatHasTimer
<1>1. Init => AwaySeatHasTimer
  BY DEF Init, AwaySeatHasTimer
<1> QED BY <1>1, TimerStep, TypeInvHolds, PTL DEF Spec
-----------------------------------------------------------------------------
(***************************************************************************)
(* Durability: the repository keeps up with memory, and with it: the facts *)
(* that the persisted room marks "never cleared" are never lost.           *)
(***************************************************************************)

(* What is saved under the code of a room that resumed handlers hold       *)
(* outside the cache: nothing, or that room, once one of them wrote it     *)
(* back.                                                                   *)
OrphanWriteThrough == orphan # None => rows[ready[1].code] \in {None, Snapshot(orphan)}

(* A room's identity is older than the next one.                           *)
IdsAreOld ==
  /\ \A c \in Codes : rows[c] # None => rows[c].roomId < nextId
  /\ orphan # None => orphan.roomId < nextId

DurableInv == WriteThrough /\ OrphanWriteThrough /\ IdsAreOld

(* later, a room or a row, keeps the durable facts of earlier.             *)
Keeps(earlier, later) ==
  /\ \A r \in Seats : earlier.knownAccounts[r] \in {None, later.knownAccounts[r]}
  /\ earlier.recapViewedBy \subseteq later.recapViewedBy
  /\ earlier.finished => later.finished

Grows(room, changed) == changed.roomId = room.roomId /\ Keeps(room, changed)

RowsKeep ==
  \A c \in Codes :
    rows[c] # None /\ rows'[c] # None /\ rows'[c].roomId = rows[c].roomId =>
      Keeps(rows[c], rows'[c])
-----------------------------------------------------------------------------
(* Rooms                                                                   *)

LEMMA SnapshotFields ==
  ASSUME NEW room
  PROVE  /\ Snapshot(room).roomId = room.roomId
         /\ Snapshot(room).knownAccounts = room.knownAccounts
         /\ Snapshot(room).recapViewedBy = room.recapViewedBy
         /\ Snapshot(room).finished = room.finished
BY DEF Snapshot

LEMMA SnapshotNotNone ==
  ASSUME NEW room \in Room
  PROVE  Snapshot(room) # None
BY SnapshotTyped, ConstantsOK DEF Assumptions

(* Reading a row back and saving it again changes nothing.                 *)
LEMMA SnapshotOfHydrated ==
  ASSUME NEW row \in PersistedRoom
  PROVE  Snapshot(Hydrated(row)) = row
<1>1. {r \in Seats : Hydrated(row).seats[r] # None} = row.seats
  BY ConstantsOK DEF Assumptions, Hydrated, PersistedRoom
<1>2. Snapshot(Hydrated(row)) =
        [roomId |-> row.roomId, seats |-> row.seats, knownAccounts |-> row.knownAccounts,
         recapViewedBy |-> row.recapViewedBy, finished |-> row.finished, idle |-> row.idle]
  BY <1>1 DEF Snapshot, Hydrated
<1> QED BY <1>2 DEF PersistedRoom

(* Rooms that differ only in what is not saved have one snapshot.          *)
LEMMA SameSnapshot ==
  ASSUME NEW room \in Room, NEW changed \in Room,
         changed.roomId = room.roomId, changed.knownAccounts = room.knownAccounts,
         changed.recapViewedBy = room.recapViewedBy, changed.finished = room.finished,
         changed.idle = room.idle,
         \A r \in Seats : changed.seats[r] = None <=> room.seats[r] = None
  PROVE  Snapshot(changed) = Snapshot(room) /\ Grows(room, changed)
<1>1. {r \in Seats : changed.seats[r] # None} = {r \in Seats : room.seats[r] # None}
  OBVIOUS
<1> QED BY <1>1 DEF Snapshot, Grows, Keeps

LEMMA TakeSeatGrows ==
  ASSUME NEW room \in Room, NEW r \in Seats, NEW s \in Sockets, NEW account \in Accounts,
         room.knownAccounts[r] \in {None, account}
  PROVE  Grows(room, TakeSeat(room, r, s, account))
BY DEF Grows, Keeps, TakeSeat, Viewed, Room

LEMMA TakeOverGrows ==
  ASSUME NEW room \in Room, NEW r \in Seats, NEW s \in Sockets, NEW account \in Accounts
  PROVE  Grows(room, TakeOver(room, r, s, account))
BY DEF Grows, Keeps, TakeOver, Viewed, Room

LEMMA PlayedGrows ==
  ASSUME NEW room \in Room, NEW over \in BOOLEAN, ~ room.finished
  PROVE  Grows(room, Played(room, over))
BY DEF Grows, Keeps, Played, Room

LEMMA OthersGrow ==
  ASSUME NEW room \in Room, NEW r \in Seats, NEW x \in Sockets \cup {Away, None}
  PROVE  /\ Grows(room, [room EXCEPT !.seats[r] = x])
         /\ Grows(room, [room EXCEPT !.idle = FALSE])
BY DEF Grows, Keeps, Room
-----------------------------------------------------------------------------
(* A change of one room                                                    *)

(* Row c is left, removed, given another identity, or keeps its facts.     *)
LEMMA OneRowKept ==
  ASSUME TypeInv, NEW c \in Codes, NEW row, rows' = [rows EXCEPT ![c] = row],
         rows[c] # None /\ row # None /\ row.roomId = rows[c].roomId => Keeps(rows[c], row)
  PROVE  RowsKeep
<1> SUFFICES ASSUME NEW k \in Codes, rows[k] # None, rows'[k] # None,
                    rows'[k].roomId = rows[k].roomId
             PROVE  Keeps(rows[k], rows'[k])
  BY DEF RowsKeep
<1>1. CASE k = c
  <2>1. rows'[c] = row
    BY DEF TypeInv, TypeOK
  <2> QED BY <1>1, <2>1
<1>2. CASE k # c
  <2>1. rows'[k] = rows[k] /\ rows[k] \in PersistedRoom
    BY <1>2 DEF TypeInv, TypeOK
  <2> QED BY <2>1 DEF Keeps, PersistedRoom
<1> QED BY <1>1, <1>2

LEMMA RowsLeft == ASSUME UNCHANGED rows PROVE RowsKeep
BY DEF RowsKeep, Keeps

(* What a handler holds is what its row says, if there is a row.           *)
LEMMA HeldSaved ==
  ASSUME TypeInv, DurableInv, NEW c \in Codes, NEW q \in Request, q.code = c, Runs(q)
  PROVE  /\ Held(c) \in Room
         /\ rows[c] # None => rows[c] = Snapshot(Held(c))
         /\ orphan = None => rows[c] = Snapshot(Held(c)) /\ Held(c) = cache[c]
         /\ orphan # None => ready[1].code = c /\ ready # <<>> /\ cache[c] = None
         /\ Held(c).roomId < nextId
<1>1. Held(c) \in Room /\ Held(c) # None
  BY HeldTyped, ConstantsOK DEF Assumptions
<1>2. CASE orphan = None
  <2>1. Held(c) = cache[c] /\ rows[c] = Snapshot(Held(c))
    BY <1>1, <1>2 DEF Held, DurableInv, WriteThrough
  <2>2. rows[c] # None
    BY <1>1, <2>1, SnapshotNotNone
  <2>3. Held(c).roomId < nextId
    BY <2>1, <2>2, SnapshotFields DEF DurableInv, IdsAreOld
  <2> QED BY <1>1, <1>2, <2>1, <2>3
<1>3. CASE orphan # None
  <2>1. ready # <<>> /\ ready[1].code = c
    BY <1>3, RunsQueue DEF TypeInv, OrphanHeld
  <2>2. cache[c] = None /\ Held(c) = orphan
    BY <1>3, <2>1 DEF TypeInv, OrphanHeld, Held
  <2>3. rows[c] \in {None, Snapshot(orphan)} /\ orphan.roomId < nextId
    BY <1>3, <2>1 DEF DurableInv, OrphanWriteThrough, IdsAreOld
  <2> QED BY <1>1, <1>3, <2>1, <2>2, <2>3
<1> QED BY <1>2, <1>3

Saves(c, room) ==
  \/ Persist(c, room)
  \/ UNCHANGED rows /\ Snapshot(room) = Snapshot(Held(c))

LEMMA MutateDurable ==
  ASSUME TypeInv, DurableInv, NEW c \in Codes, NEW q \in Request, q.code = c, Runs(q),
         NEW room \in Room, Mutate(c, room), Grows(Held(c), room), Saves(c, room)
  PROVE  DurableInv' /\ RowsKeep
<1> USE ConstantsOK DEF Assumptions
<1>1. /\ Held(c) \in Room
      /\ rows[c] # None => rows[c] = Snapshot(Held(c))
      /\ orphan = None => rows[c] = Snapshot(Held(c)) /\ Held(c) = cache[c]
      /\ orphan # None => ready[1].code = c /\ ready # <<>> /\ cache[c] = None
      /\ Held(c).roomId < nextId
  BY HeldSaved
<1>2. /\ ready' # <<>> => ready'[1].code = c
      /\ ready' = <<>> => ~ OthersHold
      /\ nextId' = nextId
  BY RunsQueue DEF Runs
<1>3. room # None /\ room.roomId < nextId'
  BY <1>1, <1>2 DEF Grows
<1>4. \A k \in Codes : k # c => rows'[k] = rows[k]
  BY DEF Saves, Persist, TypeInv, TypeOK
<1>5. rows'[c] \in {None, Snapshot(room)} /\ (orphan = None => rows'[c] = Snapshot(room))
  <2>1. CASE Persist(c, room)
    BY <2>1 DEF Persist, TypeInv, TypeOK
  <2>2. CASE UNCHANGED rows /\ Snapshot(room) = Snapshot(Held(c))
    BY <1>1, <2>2
  <2> QED BY <2>1, <2>2 DEF Saves
<1>6. RowsKeep
  <2>1. CASE Persist(c, room)
    <3>1. rows[c] # None => Keeps(rows[c], Snapshot(room))
      <4>1. Keeps(Snapshot(Held(c)), Snapshot(room))
        BY SnapshotFields DEF Grows, Keeps
      <4> QED BY <1>1, <4>1
    <3> QED BY <2>1, <3>1, OneRowKept DEF Persist
  <2>2. CASE UNCHANGED rows
    BY <2>2, RowsLeft
  <2> QED BY <2>1, <2>2 DEF Saves
<1>7. /\ orphan = None => cache' = [cache EXCEPT ![c] = room] /\ orphan' = None
      /\ orphan # None => cache' = cache /\ orphan' = IF OthersHold THEN room ELSE None
  BY DEF Mutate
<1>8. WriteThrough'
  <2> SUFFICES ASSUME NEW k \in Codes, cache'[k] # None
               PROVE  rows'[k] = Snapshot(cache'[k])
    BY DEF WriteThrough, Snapshot
  <2>1. CASE k = c
    <3>1. orphan = None /\ cache'[k] = room
      BY <1>1, <1>7, <2>1 DEF TypeInv, TypeOK
    <3> QED BY <1>5, <2>1, <3>1
  <2>2. CASE k # c
    <3>1. cache'[k] = cache[k]
      BY <1>7, <2>2 DEF TypeInv, TypeOK
    <3> QED BY <1>4, <2>2, <3>1 DEF DurableInv, WriteThrough
  <2> QED BY <2>1, <2>2
<1>9. OrphanWriteThrough'
  <2> SUFFICES ASSUME orphan' # None PROVE rows'[ready'[1].code] \in {None, Snapshot(orphan')}
    BY DEF OrphanWriteThrough, Snapshot
  <2>1. orphan' = room /\ OthersHold
    BY <1>7
  <2>2. ready'[1].code = c
    BY <1>2, <2>1
  <2> QED BY <1>5, <2>1, <2>2
<1>10. IdsAreOld'
  <2>1. \A k \in Codes : rows'[k] # None => rows'[k].roomId < nextId'
    <3> SUFFICES ASSUME NEW k \in Codes, rows'[k] # None PROVE rows'[k].roomId < nextId'
      OBVIOUS
    <3>1. CASE k = c
      BY <1>3, <1>5, <3>1, SnapshotFields
    <3>2. CASE k # c
      BY <1>2, <1>4, <3>2 DEF DurableInv, IdsAreOld
    <3> QED BY <3>1, <3>2
  <2>2. orphan' # None => orphan'.roomId < nextId'
    BY <1>3, <1>7
  <2> QED BY <2>1, <2>2 DEF IdsAreOld
<1> QED BY <1>6, <1>8, <1>9, <1>10 DEF DurableInv
-----------------------------------------------------------------------------
(* Steps                                                                   *)

LEMMA CallRequest ==
  ASSUME NEW op \in Ops, NEW c \in Codes, NEW r \in Roles, NEW s \in Sockets,
         Runs(Call(op, c, r, s))
  PROVE  \E q \in Request : q.code = c /\ Runs(q)
BY CallTyped

(* Handlers that do not save change nothing that is saved.                 *)
LEMMA DroppedSame ==
  ASSUME NEW c \in Codes, NEW r \in Roles, NEW s \in Sockets,
         Held(c) \in Room, Dropped(c, r, s)
  PROVE  \E room \in Room : /\ Mutate(c, room)
                            /\ Snapshot(room) = Snapshot(Held(c)) /\ Grows(Held(c), room)
<1> USE ConstantsOK DEF Assumptions
<1> DEFINE held == Held(c)
<1>1. CASE r = Spectator
  <2> DEFINE room == [held EXCEPT !.spectatorSocketIds = @ \ {s}]
  <2>1. room \in Room /\ Mutate(c, room)
    BY <1>1, OtherRoomsTyped DEF Dropped
  <2>2. /\ room.roomId = held.roomId /\ room.knownAccounts = held.knownAccounts
        /\ room.recapViewedBy = held.recapViewedBy /\ room.finished = held.finished
        /\ room.idle = held.idle /\ room.seats = held.seats
    BY DEF Room
  <2> HIDE DEF room
  <2>3. Snapshot(room) = Snapshot(held) /\ Grows(held, room)
    BY <2>1, <2>2, SameSnapshot
  <2> QED BY <2>1, <2>3
<1>2. CASE r \in Seats /\ held.seats[r] = s
  <2> DEFINE room == [held EXCEPT !.seats[r] = Away]
  <2>1. room \in Room /\ Mutate(c, room)
    BY <1>2, FreedTyped DEF Dropped
  <2>2. /\ room.roomId = held.roomId /\ room.knownAccounts = held.knownAccounts
        /\ room.recapViewedBy = held.recapViewedBy /\ room.finished = held.finished
        /\ room.idle = held.idle
        /\ \A x \in Seats : room.seats[x] = IF x = r THEN Away ELSE held.seats[x]
    BY DEF Room
  <2>3. \A x \in Seats : room.seats[x] = None <=> held.seats[x] = None
    BY <1>2, <2>2
  <2> HIDE DEF room
  <2>4. Snapshot(room) = Snapshot(held) /\ Grows(held, room)
    BY <2>1, <2>2, <2>3, SameSnapshot
  <2> QED BY <2>1, <2>4
<1>3. CASE r \in Seats /\ held.seats[r] # s
  <2>1. Mutate(c, held)
    BY <1>3 DEF Dropped
  <2>2. Snapshot(held) = Snapshot(held) /\ Grows(held, held)
    BY SameSnapshot
  <2> QED BY <2>1, <2>2
<1> QED BY <1>1, <1>2, <1>3

LEMMA AbandonDurable ==
  ASSUME TypeInv, DurableInv, NEW c \in Codes, NEW account \in Accounts, AbandonRoom(c, account)
  PROVE  DurableInv' /\ RowsKeep
<1> USE ConstantsOK DEF Assumptions
<1>1. PICK q \in Request : q.code = c /\ Runs(q)
  BY HttpAbandonTyped DEF AbandonRoom
<1>2. /\ ready' # <<>> => ready'[1].code = c
      /\ nextId' = nextId
  BY <1>1, RunsQueue DEF Runs
<1>3. Held(c).roomId < nextId
  BY <1>1, HeldSaved
<1>4. /\ cache' = [cache EXCEPT ![c] = None]
      /\ orphan' \in {Held(c), None} /\ (orphan' # None => OthersHold)
      /\ rows' = [rows EXCEPT ![c] = None]
  BY DEF AbandonRoom
<1>5. /\ cache'[c] = None /\ rows'[c] = None
      /\ \A k \in Codes \ {c} : cache'[k] = cache[k] /\ rows'[k] = rows[k]
  BY <1>4 DEF TypeInv, TypeOK
<1>6. RowsKeep
  BY <1>4, OneRowKept
<1>7. WriteThrough'
  BY <1>5 DEF DurableInv, WriteThrough, Snapshot
<1>8. OrphanWriteThrough'
  <2>1. orphan' # None => ready' # <<>>
    BY <1>4, <1>1, RunsQueue
  <2> QED BY <1>2, <1>5, <2>1 DEF OrphanWriteThrough, Snapshot
<1>9. IdsAreOld'
  BY <1>2, <1>3, <1>4, <1>5 DEF DurableInv, IdsAreOld
<1> QED BY <1>6, <1>7, <1>8, <1>9 DEF DurableInv

LEMMA RefuseDurable == TypeInv /\ DurableInv /\ Refuse => DurableInv' /\ RowsKeep
<1> SUFFICES ASSUME TypeInv, DurableInv, Refuse PROVE DurableInv' /\ RowsKeep
  OBVIOUS
<1>1. PICK q \in Request : Runs(q) /\ ready # <<>>
  BY DEF Refuse, TypeInv, TypeOK
<1>2. /\ UNCHANGED <<cache, rows, nextId>>
      /\ orphan' \in {orphan, None} /\ (orphan' # None => OthersHold)
  BY <1>1 DEF Refuse, Untouched, Runs
<1>3. /\ ready # <<>> => ready[1] = q
      /\ ready' # <<>> => ready'[1].code = q.code
      /\ ready' = <<>> => ~ OthersHold
  BY <1>1, RunsQueue
<1>4. OrphanWriteThrough'
  <2>1. orphan' # None => orphan' = orphan /\ ready'[1].code = ready[1].code
    BY <1>1, <1>2, <1>3
  <2> QED BY <1>2, <2>1 DEF DurableInv, OrphanWriteThrough, Snapshot
<1>5. WriteThrough' /\ IdsAreOld'
  BY <1>2 DEF DurableInv, WriteThrough, IdsAreOld, Snapshot
<1> QED BY <1>2, <1>4, <1>5, RowsLeft DEF DurableInv

(* One step per handler.                                                   *)
LEMMA HandleDurable == TypeInv /\ DurableInv /\ Handle => DurableInv' /\ RowsKeep
<1> SUFFICES ASSUME TypeInv, DurableInv, Handle PROVE DurableInv' /\ RowsKeep
  OBVIOUS
<1> USE ConstantsOK DEF Assumptions
<1>a. ASSUME NEW op \in Ops, NEW c \in Codes, NEW r \in Roles, NEW s \in Sockets,
             Runs(Call(op, c, r, s)), NEW room \in Room, Mutate(c, room),
             Grows(Held(c), room), Saves(c, room)
      PROVE  DurableInv' /\ RowsKeep
  BY <1>a, CallRequest, MutateDurable
<1>h. ASSUME NEW op \in Ops, NEW c \in Codes, NEW r \in Roles, NEW s \in Sockets,
             Runs(Call(op, c, r, s))
      PROVE  Held(c) \in Room
  BY <1>h, CallTyped, HeldTyped
<1>1. ASSUME NEW s \in Sockets, NEW c \in Codes, JoinSpectator(s, c)
      PROVE  DurableInv' /\ RowsKeep
  <2> DEFINE room == [Held(c) EXCEPT !.spectatorSocketIds = @ \cup {s}]
  <2>1. Runs(Call("join", c, Spectator, s)) /\ Mutate(c, room) /\ UNCHANGED rows
    BY <1>1 DEF JoinSpectator
  <2>2. Held(c) \in Room
    BY <1>h, <2>1 DEF Ops
  <2>3. room \in Room
    BY <2>2, OtherRoomsTyped
  <2>4. /\ room.roomId = Held(c).roomId /\ room.knownAccounts = Held(c).knownAccounts
        /\ room.recapViewedBy = Held(c).recapViewedBy /\ room.finished = Held(c).finished
        /\ room.idle = Held(c).idle /\ room.seats = Held(c).seats
    BY <2>2 DEF Room
  <2> HIDE DEF room
  <2>5. Grows(Held(c), room) /\ Saves(c, room)
    BY <2>1, <2>2, <2>3, <2>4, SameSnapshot DEF Saves
  <2> QED BY <1>a, <2>1, <2>3, <2>5 DEF Ops
<1>2. ASSUME NEW s \in Sockets, NEW c \in Codes, NEW r \in Seats, JoinSeat(s, c, r)
      PROVE  DurableInv' /\ RowsKeep
  <2> DEFINE room == TakeSeat(Held(c), r, s, AccountOf[s])
  <2>1. /\ Runs(Call("join", c, r, s)) /\ MayTake(Held(c), r, AccountOf[s])
        /\ Mutate(c, room) /\ Persist(c, room)
    BY <1>2 DEF JoinSeat
  <2>2. Held(c) \in Room
    BY <1>h, <2>1 DEF Ops
  <2>3. room \in Room /\ Grows(Held(c), room)
    BY <2>1, <2>2, TakeSeatTyped, TakeSeatGrows DEF MayTake
  <2> HIDE DEF room
  <2>5. Saves(c, room)
    BY <2>1 DEF Saves
  <2> QED BY <1>a, <2>1, <2>3, <2>5 DEF Ops
<1>3. ASSUME NEW s \in Sockets, NEW c \in Codes, NEW r \in Seats, ReconnectRoom(s, c, r)
      PROVE  DurableInv' /\ RowsKeep
  <2> DEFINE room == TakeOver(Held(c), r, s, AccountOf[s])
  <2>1. Runs(Call("reconnect", c, r, s)) /\ Mutate(c, room) /\ Persist(c, room)
    BY <1>3 DEF ReconnectRoom
  <2>2. Held(c) \in Room
    BY <1>h, <2>1 DEF Ops
  <2>3. room \in Room /\ Grows(Held(c), room)
    BY <2>2, TakeOverTyped, TakeOverGrows
  <2> HIDE DEF room
  <2>5. Saves(c, room)
    BY <2>1 DEF Saves
  <2> QED BY <1>a, <2>1, <2>3, <2>5 DEF Ops
<1>4. ASSUME NEW s \in Sockets, NEW c \in Codes, NEW r \in Seats, ReconnectByAccount(s, c, r)
      PROVE  DurableInv' /\ RowsKeep
  <2> DEFINE taken == TakeSeat(Held(c), r, s, AccountOf[s])
             over == TakeOver(Held(c), r, s, AccountOf[s])
  <2>1. Runs(Call("account", c, Spectator, s))
    BY <1>4 DEF ReconnectByAccount
  <2>2. Held(c) \in Room
    BY <1>h, <2>1 DEF Ops
  <2>3. Held(c).knownAccounts[r] = AccountOf[s]
    BY <1>4 DEF ReconnectByAccount, IsFirstSeatOf, SeatsOwnedBy
  <2>4. /\ taken \in Room /\ Grows(Held(c), taken)
        /\ over \in Room /\ Grows(Held(c), over)
    BY <2>2, <2>3, TakeSeatTyped, TakeSeatGrows, TakeOverTyped, TakeOverGrows
  <2>5. \E room \in {taken, over} : Mutate(c, room) /\ Persist(c, room)
    BY <1>4 DEF ReconnectByAccount
  <2> HIDE DEF taken, over
  <2>6. PICK room \in {taken, over} : Mutate(c, room) /\ Saves(c, room)
    BY <2>5 DEF Saves
  <2>7. room \in Room /\ Grows(Held(c), room)
    BY <2>4
  <2> QED BY <1>a, <2>1, <2>6, <2>7 DEF Ops
<1>5. ASSUME NEW s \in Sockets, NEW c \in Codes, LeaveAsSpectator(s, c)
      PROVE  DurableInv' /\ RowsKeep
  <2> DEFINE room == [Held(c) EXCEPT !.spectatorSocketIds = @ \ {s}]
  <2>1. Runs(Call("leave", c, Spectator, s)) /\ Mutate(c, room) /\ UNCHANGED rows
    BY <1>5 DEF LeaveAsSpectator
  <2>2. Held(c) \in Room
    BY <1>h, <2>1 DEF Ops
  <2>3. room \in Room
    BY <2>2, OtherRoomsTyped
  <2>4. /\ room.roomId = Held(c).roomId /\ room.knownAccounts = Held(c).knownAccounts
        /\ room.recapViewedBy = Held(c).recapViewedBy /\ room.finished = Held(c).finished
        /\ room.idle = Held(c).idle /\ room.seats = Held(c).seats
    BY <2>2 DEF Room
  <2> HIDE DEF room
  <2>5. Grows(Held(c), room) /\ Saves(c, room)
    BY <2>1, <2>2, <2>3, <2>4, SameSnapshot DEF Saves
  <2> QED BY <1>a, <2>1, <2>3, <2>5 DEF Ops
<1>6. ASSUME NEW s \in Sockets, NEW c \in Codes, LeaveSeat(s, c)
      PROVE  DurableInv' /\ RowsKeep
  <2> DEFINE r == binding[s].role
             room == [Held(c) EXCEPT !.seats[r] = None]
  <2>1. Runs(Call("leave", c, Spectator, s)) /\ Mutate(c, room) /\ Persist(c, room)
    BY <1>6 DEF LeaveSeat
  <2>2. r \in Seats /\ Held(c) \in Room
    BY <1>6, <1>h, <2>1 DEF LeaveSeat, BoundTo, Binding, TypeInv, TypeOK, Ops
  <2>3. room \in Room /\ Grows(Held(c), room)
    BY <2>2, FreedTyped, OthersGrow
  <2> HIDE DEF room
  <2>5. Saves(c, room)
    BY <2>1 DEF Saves
  <2> QED BY <1>a, <2>1, <2>3, <2>5 DEF Ops
<1>7. ASSUME NEW s \in Sockets, NEW c \in Codes, NEW r \in Roles, DropResumed(s, c, r)
      PROVE  DurableInv' /\ RowsKeep
  <2>1. Runs(Call("drop", c, r, s)) /\ Dropped(c, r, s) /\ UNCHANGED rows
    BY <1>7 DEF DropResumed
  <2>2. PICK q \in Request : q.code = c /\ Runs(q)
    BY <2>1, CallRequest DEF Ops
  <2>3. Held(c) \in Room
    BY <2>2, HeldTyped
  <2>4. PICK room \in Room : /\ Mutate(c, room)
                             /\ Snapshot(room) = Snapshot(Held(c)) /\ Grows(Held(c), room)
    BY <2>1, <2>3, DroppedSame
  <2>5. Saves(c, room)
    BY <2>1, <2>4 DEF Saves
  <2> QED BY <2>2, <2>4, <2>5, MutateDurable
<1>8. ASSUME NEW s \in Sockets, NEW c \in Codes, NEW over \in BOOLEAN, ApplyAction(s, c, over)
      PROVE  DurableInv' /\ RowsKeep
  <2> DEFINE room == Played(Held(c), over)
  <2>1. /\ Runs(Call("act", c, Spectator, s)) /\ ~ Held(c).finished
        /\ Mutate(c, room) /\ Persist(c, room)
    BY <1>8 DEF ApplyAction
  <2>2. Held(c) \in Room
    BY <1>h, <2>1 DEF Ops
  <2>3. room \in Room /\ Grows(Held(c), room)
    BY <2>1, <2>2, PlayedTyped, PlayedGrows
  <2> HIDE DEF room
  <2>5. Saves(c, room)
    BY <2>1 DEF Saves
  <2> QED BY <1>a, <2>1, <2>3, <2>5 DEF Ops
<1>9. ASSUME NEW s \in Sockets, NEW c \in Codes, SendChatMessage(s, c)
      PROVE  DurableInv' /\ RowsKeep
  <2> DEFINE room == [Held(c) EXCEPT !.idle = FALSE]
  <2>1. Runs(Call("chat", c, Spectator, s)) /\ Mutate(c, room) /\ Persist(c, room)
    BY <1>9 DEF SendChatMessage
  <2>2. Held(c) \in Room
    BY <1>h, <2>1 DEF Ops
  <2>3. room \in Room
    BY <2>2 DEF Room
  <2>4. Grows(Held(c), room)
    BY <2>2, OthersGrow DEF Grows, Keeps, Room
  <2> HIDE DEF room
  <2>5. Saves(c, room)
    BY <2>1 DEF Saves
  <2> QED BY <1>a, <2>1, <2>3, <2>4, <2>5 DEF Ops
<1> QED
  BY <1>1, <1>2, <1>3, <1>4, <1>5, <1>6, <1>7, <1>8, <1>9, AbandonDurable, RefuseDurable
  DEF Handle, SocketCall

(* Between handlers: one cached room and its row change together.          *)
LEMMA ChangedTogether ==
  ASSUME TypeInv, DurableInv, ready = <<>>, ready' = <<>>, orphan' = orphan,
         NEW c \in Codes, NEW room, NEW row,
         cache' = [cache EXCEPT ![c] = room], rows' = [rows EXCEPT ![c] = row],
         room # None => row = Snapshot(room),
         nextId \in Nat /\ nextId' \in Nat /\ nextId <= nextId',
         row # None => row.roomId < nextId',
         RowsKeep
  PROVE  DurableInv' /\ RowsKeep
<1>1. orphan = None /\ orphan' = None
  BY QueueIdleNow
<1>3. WriteThrough'
  BY DEF WriteThrough, Snapshot, DurableInv, TypeInv, TypeOK
<1>4. \A k \in Codes : rows'[k] # None => rows'[k].roomId < nextId'
  <2> SUFFICES ASSUME NEW k \in Codes, rows'[k] # None PROVE rows'[k].roomId < nextId'
    OBVIOUS
  <2>1. CASE k = c
    BY <2>1 DEF TypeInv, TypeOK
  <2>2. CASE k # c
    <3>1. rows'[k] = rows[k] /\ rows[k] # None
      BY <2>2 DEF TypeInv, TypeOK
    <3>2. rows[k].roomId \in Nat /\ rows[k].roomId < nextId
      BY <3>1 DEF TypeInv, TypeOK, PersistedRoom, DurableInv, IdsAreOld
    <3> QED BY <3>1, <3>2
  <2> QED BY <2>1, <2>2
<1> QED BY <1>1, <1>3, <1>4 DEF DurableInv, OrphanWriteThrough, IdsAreOld

LEMMA NothingSaved ==
  ASSUME TypeInv, DurableInv, ready = <<>>, ready' = <<>>,
         UNCHANGED <<rows, cache, orphan, nextId>>
  PROVE  DurableInv' /\ RowsKeep
<1>1. orphan = None /\ orphan' = None
  BY QueueIdleNow
<1>2. WriteThrough' /\ IdsAreOld' /\ OrphanWriteThrough'
  BY <1>1 DEF DurableInv, WriteThrough, Snapshot, IdsAreOld, OrphanWriteThrough
<1> QED BY <1>2, RowsLeft DEF DurableInv

LEMMA DisconnectDurable ==
  ASSUME TypeInv, DurableInv, NEW s \in Sockets, Disconnect(s)
  PROVE  DurableInv' /\ RowsKeep
<1> USE ConstantsOK DEF Assumptions
<1> DEFINE b == binding[s]
<1>1. ready = <<>> /\ ready' = <<>> /\ UNCHANGED <<rows, nextId>> /\ orphan = None
  BY QueueIdleNow DEF Disconnect
<1>2. CASE UNCHANGED <<cache, orphan>>
  BY <1>1, <1>2, NothingSaved
<1>3. CASE b # None /\ cache[b.code] # None /\ Dropped(b.code, b.role, s)
  <2>1. b.code \in Codes /\ b.role \in Roles
    BY <1>3 DEF Binding, TypeInv, TypeOK
  <2>2. Held(b.code) \in Room /\ Held(b.code) = cache[b.code]
    BY <1>1, <1>3, <2>1 DEF Held, TypeInv, TypeOK
  <2>3. PICK room \in Room : /\ Mutate(b.code, room)
                             /\ Snapshot(room) = Snapshot(Held(b.code))
    BY <1>3, <2>1, <2>2, DroppedSame
  <2>4. cache' = [cache EXCEPT ![b.code] = room] /\ orphan' = orphan
    BY <1>1, <2>3 DEF Mutate
  <2>5. rows[b.code] = Snapshot(room)
    BY <1>3, <2>1, <2>2, <2>3 DEF DurableInv, WriteThrough
  <2> HIDE DEF b
  <2>6. WriteThrough'
    BY <1>1, <2>1, <2>4, <2>5 DEF WriteThrough, Snapshot, DurableInv, TypeInv, TypeOK
  <2>7. IdsAreOld' /\ OrphanWriteThrough'
    BY <1>1, <2>4 DEF DurableInv, IdsAreOld, OrphanWriteThrough
  <2> QED BY <1>1, <2>6, <2>7, RowsLeft DEF DurableInv
<1> QED BY <1>2, <1>3 DEF Disconnect

LEMMA HydrateRoomDurable ==
  ASSUME TypeInv, DurableInv, NEW c \in Codes, HydrateRoom(c)
  PROVE  DurableInv' /\ RowsKeep
<1>1. ready = <<>> /\ orphan = None /\ UNCHANGED <<rows, orphan, nextId>>
  BY QueueIdleNow DEF HydrateRoom
<1>2. IdsAreOld' /\ OrphanWriteThrough'
  BY <1>1 DEF DurableInv, IdsAreOld, OrphanWriteThrough
<1>3. CASE rows[c] = None
  <2>1. cache' = cache
    BY <1>3 DEF HydrateRoom
  <2>2. WriteThrough'
    BY <1>1, <2>1 DEF DurableInv, WriteThrough, Snapshot
  <2> QED BY <1>1, <1>2, <2>2, RowsLeft DEF DurableInv
<1>4. CASE rows[c] # None
  <2>1. cache' = [cache EXCEPT ![c] = Hydrated(rows[c])]
    BY <1>4 DEF HydrateRoom
  <2>2. rows[c] = Snapshot(Hydrated(rows[c]))
    BY <1>4, SnapshotOfHydrated DEF TypeInv, TypeOK
  <2>3. WriteThrough'
    <3> SUFFICES ASSUME NEW k \in Codes, cache'[k] # None PROVE rows'[k] = Snapshot(cache'[k])
      BY DEF WriteThrough, Snapshot
    <3>1. CASE k = c
      <4>1. cache'[k] = Hydrated(rows[c])
        BY <2>1, <3>1 DEF TypeInv, TypeOK
      <4> QED BY <1>1, <2>2, <3>1, <4>1
    <3>2. CASE k # c
      <4>1. cache'[k] = cache[k]
        BY <2>1, <3>2 DEF TypeInv, TypeOK
      <4> QED BY <1>1, <4>1 DEF DurableInv, WriteThrough
    <3> QED BY <3>1, <3>2
  <2> QED BY <1>1, <1>2, <2>3, RowsLeft DEF DurableInv
<1> QED BY <1>3, <1>4

LEMMA ExpireSeatDurable ==
  ASSUME TypeInv, DurableInv, NEW c \in Codes, NEW r \in Seats, ExpireSeat(c, r)
  PROVE  DurableInv' /\ RowsKeep
<1> USE ConstantsOK DEF Assumptions
<1> DEFINE freed == [cache[c] EXCEPT !.seats[r] = None]
<1>1. ready = <<>> /\ ready' = <<>> /\ UNCHANGED <<orphan, nextId>> /\ nextId \in Nat
  BY DEF ExpireSeat, TypeInv, TypeOK
<1>2. CASE MayExpire(c, r)
  <2>1. cache[c] \in Room /\ cache[c] # None /\ rows[c] = Snapshot(cache[c])
    BY <1>2 DEF MayExpire, TypeInv, TypeOK, DurableInv, WriteThrough
  <2>2. cache' = [cache EXCEPT ![c] = freed] /\ rows' = [rows EXCEPT ![c] = Snapshot(freed)]
    BY <1>2 DEF ExpireSeat, Persist
  <2>3. Grows(cache[c], freed)
    BY <2>1, OthersGrow
  <2>4. Keeps(rows[c], Snapshot(freed)) /\ Snapshot(freed).roomId = rows[c].roomId
    <3>1. /\ Snapshot(cache[c]).roomId = cache[c].roomId
          /\ Snapshot(freed).roomId = freed.roomId
      BY SnapshotFields
    <3>2. Keeps(Snapshot(cache[c]), Snapshot(freed))
      BY <2>3, SnapshotFields DEF Grows, Keeps
    <3> QED BY <2>1, <2>3, <3>1, <3>2 DEF Grows
  <2>5. rows[c] # None
    BY <2>1, SnapshotNotNone
  <2>6. Snapshot(freed).roomId < nextId'
    BY <1>1, <2>4, <2>5 DEF DurableInv, IdsAreOld
  <2> HIDE DEF freed
  <2>7. RowsKeep
    BY <2>2, <2>4, OneRowKept
  <2>8. nextId' \in Nat /\ nextId <= nextId'
    BY <1>1
  <2> QED BY <1>1, <2>2, <2>6, <2>7, <2>8, ChangedTogether
<1>3. CASE ~ MayExpire(c, r)
  BY <1>1, <1>3, NothingSaved DEF ExpireSeat
<1> QED BY <1>2, <1>3

LEMMA CreateRoomDurable ==
  ASSUME TypeInv, DurableInv, NEW c \in Codes, CreateRoom(c)
  PROVE  DurableInv' /\ RowsKeep
<1> DEFINE room == NewRoom(nextId)
<1>1. /\ ready = <<>> /\ ready' = <<>> /\ UNCHANGED orphan
      /\ cache' = [cache EXCEPT ![c] = room] /\ rows' = [rows EXCEPT ![c] = Snapshot(room)]
      /\ nextId' = nextId + 1 /\ nextId \in Nat
  BY DEF CreateRoom, Persist, TypeInv, TypeOK
<1>2. Snapshot(room).roomId = nextId
  BY SnapshotFields DEF NewRoom
<1>3. rows[c] # None => rows[c].roomId < nextId /\ rows[c].roomId \in Nat
  BY DEF DurableInv, IdsAreOld, TypeInv, TypeOK, PersistedRoom
<1> HIDE DEF room
<1>4. RowsKeep
  <2>1. rows[c] # None => Snapshot(room).roomId # rows[c].roomId
    BY <1>1, <1>2, <1>3
  <2> QED BY <1>1, <2>1, OneRowKept
<1>5. Snapshot(room).roomId < nextId' /\ nextId' \in Nat /\ nextId <= nextId'
  BY <1>1, <1>2
<1> QED BY <1>1, <1>4, <1>5, ChangedTogether

LEMMA TimePassesDurable ==
  ASSUME TypeInv, DurableInv, NEW c \in Codes, TimePasses(c)
  PROVE  DurableInv' /\ RowsKeep
<1> USE ConstantsOK DEF Assumptions
<1> DEFINE room == IF cache[c] = None THEN None ELSE [cache[c] EXCEPT !.idle = TRUE]
           row == [rows[c] EXCEPT !.idle = TRUE]
<1>1. /\ ready = <<>> /\ ready' = <<>> /\ UNCHANGED <<orphan, nextId>> /\ nextId \in Nat
      /\ cache' = [cache EXCEPT ![c] = room] /\ rows' = [rows EXCEPT ![c] = row]
      /\ rows[c] # None
  BY DEF TimePasses, TypeInv, TypeOK
<1>2. rows[c] \in PersistedRoom
  BY <1>1 DEF TypeInv, TypeOK
<1>3. Keeps(rows[c], row) /\ row.roomId = rows[c].roomId
  BY <1>2 DEF Keeps, PersistedRoom
<1>4. row.roomId < nextId'
  BY <1>1, <1>3 DEF DurableInv, IdsAreOld
<1>5. ASSUME room # None PROVE row = Snapshot(room)
  <2>1. cache[c] \in Room /\ cache[c] # None /\ room = [cache[c] EXCEPT !.idle = TRUE]
    BY <1>5 DEF TypeInv, TypeOK
  <2>2. rows[c] = Snapshot(cache[c])
    BY <2>1 DEF DurableInv, WriteThrough
  <2>3. /\ room.roomId = cache[c].roomId /\ room.seats = cache[c].seats
        /\ room.knownAccounts = cache[c].knownAccounts
        /\ room.recapViewedBy = cache[c].recapViewedBy
        /\ room.finished = cache[c].finished /\ room.idle = TRUE
    BY <2>1 DEF Room
  <2>4. row = [Snapshot(cache[c]) EXCEPT !.idle = TRUE]
    BY <2>2
  <2> HIDE DEF room, row
  <2> QED BY <2>3, <2>4 DEF Snapshot
<1> HIDE DEF room, row
<1>6. RowsKeep
  BY <1>1, <1>3, OneRowKept
<1>7. nextId' \in Nat /\ nextId <= nextId'
  BY <1>1
<1> QED BY <1>1, <1>4, <1>5, <1>6, <1>7, ChangedTogether

LEMMA SweepDurable ==
  ASSUME TypeInv, DurableInv, NEW c \in Codes, SweepIdleRoom(c)
  PROVE  DurableInv' /\ RowsKeep
<1>1. /\ ready = <<>> /\ ready' = <<>> /\ UNCHANGED <<orphan, nextId>> /\ nextId \in Nat
      /\ cache' = [cache EXCEPT ![c] = None] /\ rows' = [rows EXCEPT ![c] = None]
  BY DEF SweepIdleRoom, TypeInv, TypeOK
<1>2. RowsKeep
  BY <1>1, OneRowKept
<1>3. nextId' \in Nat /\ nextId <= nextId'
  BY <1>1
<1> QED BY <1>1, <1>2, <1>3, ChangedTogether

LEMMA RestartDurable == TypeInv /\ DurableInv /\ Restart => DurableInv' /\ RowsKeep
<1> SUFFICES ASSUME TypeInv, DurableInv, Restart PROVE DurableInv' /\ RowsKeep
  OBVIOUS
<1>1. WriteThrough'
  BY DEF Restart, WriteThrough
<1>2. OrphanWriteThrough' /\ IdsAreOld'
  BY DEF Restart, OrphanWriteThrough, DurableInv, IdsAreOld
<1> QED BY <1>1, <1>2, RowsLeft DEF DurableInv, Restart

LEMMA DurableStep == TypeInv /\ DurableInv /\ [Next]_vars => DurableInv' /\ RowsKeep
<1> SUFFICES ASSUME TypeInv, DurableInv, [Next]_vars PROVE DurableInv' /\ RowsKeep
  OBVIOUS
<1>1. CASE UNCHANGED vars
  <2>1. UNCHANGED <<cache, rows, orphan, ready, nextId>>
    BY <1>1 DEF vars
  <2>2. WriteThrough' /\ OrphanWriteThrough' /\ IdsAreOld'
    BY <2>1 DEF DurableInv, WriteThrough, OrphanWriteThrough, IdsAreOld, Snapshot
  <2> QED BY <2>1, <2>2, RowsLeft DEF DurableInv
<1>2. CASE Wait
  <2>1. PICK q \in Request : GetUncached(q)
    BY <1>2, CallsTyped, HttpAbandonTyped DEF Wait
  <2> QED BY <2>1, NothingSaved DEF GetUncached
<1>3. ASSUME NEW s \in Sockets, Connect(s) \/ FinishLeave(s)
      PROVE  DurableInv' /\ RowsKeep
  BY <1>3, NothingSaved DEF Connect, FinishLeave
<1>4. ASSUME NEW c \in Codes, Peek(c) \/ CreateCheck(c)
      PROVE  DurableInv' /\ RowsKeep
  BY <1>4, NothingSaved DEF Peek, CreateCheck
<1> QED
  BY <1>1, <1>2, <1>3, <1>4, HandleDurable, DisconnectDurable, HydrateRoomDurable,
     ExpireSeatDurable, CreateRoomDurable, TimePassesDurable, SweepDurable, RestartDurable
  DEF Next

LEMMA InitDurable == Init => DurableInv
BY DEF Init, DurableInv, WriteThrough, OrphanWriteThrough, IdsAreOld

(* What the repository would give back after a restart is what memory      *)
(* holds, for every cached room, whatever was joined, played, left, swept, *)
(* abandoned or created twice before (persist, roomCore.ts).               *)
THEOREM WritesThrough == Spec => []WriteThrough
<1>1. DurableInv => WriteThrough
  BY DEF DurableInv
<1> QED BY <1>1, InitDurable, DurableStep, TypeInvHolds, PTL DEF Spec

(* A row that keeps its roomId keeps its owners, its recap views and the   *)
(* end of its game: late writers of an abandoned room and restarts         *)
(* included (the never-cleared fields of PersistedRoom).                   *)
THEOREM DurableFactsNeverLost == Spec => DurableFactsKept
<1>1. RowsKeep =>
        \A c \in Codes :
          rows[c] # None /\ rows'[c] # None /\ rows'[c].roomId = rows[c].roomId =>
            /\ \A r \in Seats : rows[c].knownAccounts[r] \in {None, rows'[c].knownAccounts[r]}
            /\ rows[c].recapViewedBy \subseteq rows'[c].recapViewedBy
            /\ rows[c].finished => rows'[c].finished
  BY DEF RowsKeep, Keeps
<1> QED BY <1>1, InitDurable, DurableStep, TypeInvHolds, PTL DEF Spec, DurableFactsKept
-----------------------------------------------------------------------------
(* Rooms that are deleted                                                  *)

(* Only an abandonment or the sweep deletes a row.                         *)
LEMMA RowDeleted ==
  ASSUME TypeInv, DurableInv, [Next]_vars, NEW c \in Codes, rows[c] # None, rows'[c] = None
  PROVE  SweepIdleRoom(c) \/ \E account \in Accounts : AbandonRoom(c, account)
<1> USE ConstantsOK DEF Assumptions
<1>1. ~ UNCHANGED rows
  OBVIOUS
<1>2. \A k \in Codes, room \in Room : ~ Persist(k, room)
  <2> SUFFICES ASSUME NEW k \in Codes, NEW room \in Room, Persist(k, room) PROVE FALSE
    OBVIOUS
  <2>1. rows' = [rows EXCEPT ![k] = Snapshot(room)] /\ Snapshot(room) # None
    BY SnapshotNotNone DEF Persist
  <2> QED BY <2>1 DEF TypeInv, TypeOK
<1>3. ASSUME NEW op \in Ops, NEW k \in Codes, NEW r \in Roles, NEW s \in Sockets,
             Runs(Call(op, k, r, s))
      PROVE  Held(k) \in Room
  BY <1>3, CallTyped, HeldTyped
<1>4. ASSUME NEW s \in Sockets, NEW k \in Codes, SocketCall(s, k) PROVE FALSE
  <2>1. AccountOf[s] \in Accounts
    OBVIOUS
  <2>2. ASSUME NEW r \in Seats, JoinSeat(s, k, r) \/ ReconnectRoom(s, k, r) \/ ReconnectByAccount(s, k, r)
        PROVE  FALSE
    <3> DEFINE taken == TakeSeat(Held(k), r, s, AccountOf[s])
               over == TakeOver(Held(k), r, s, AccountOf[s])
    <3>1. PICK op \in Ops, role \in Roles : Runs(Call(op, k, role, s))
      BY <2>2 DEF JoinSeat, ReconnectRoom, ReconnectByAccount, Ops
    <3>2. taken \in Room /\ over \in Room
      BY <1>3, <2>1, <3>1, TakeSeatTyped, TakeOverTyped
    <3>3. Persist(k, taken) \/ Persist(k, over)
      BY <2>2 DEF JoinSeat, ReconnectRoom, ReconnectByAccount
    <3> HIDE DEF taken, over
    <3> QED BY <1>2, <3>2, <3>3
  <2>3. ~ LeaveSeat(s, k)
    <3> SUFFICES ASSUME LeaveSeat(s, k) PROVE FALSE
      OBVIOUS
    <3> DEFINE room == [Held(k) EXCEPT !.seats[binding[s].role] = None]
    <3>1. Runs(Call("leave", k, Spectator, s)) /\ Persist(k, room)
      BY DEF LeaveSeat
    <3>2. binding[s].role \in Seats /\ Held(k) \in Room
      BY <1>3, <3>1 DEF LeaveSeat, BoundTo, Binding, TypeInv, TypeOK, Ops
    <3>3. room \in Room
      BY <3>2, FreedTyped
    <3> HIDE DEF room
    <3> QED BY <1>2, <3>1, <3>3
  <2>4. ASSUME NEW over \in BOOLEAN, ApplyAction(s, k, over) PROVE FALSE
    <3> DEFINE room == Played(Held(k), over)
    <3>1. Runs(Call("act", k, Spectator, s)) /\ Persist(k, room)
      BY <2>4 DEF ApplyAction
    <3>2. room \in Room
      BY <1>3, <3>1, PlayedTyped DEF Ops
    <3> HIDE DEF room
    <3> QED BY <1>2, <3>1, <3>2
  <2>5. ~ SendChatMessage(s, k)
    <3> SUFFICES ASSUME SendChatMessage(s, k) PROVE FALSE
      OBVIOUS
    <3> DEFINE room == [Held(k) EXCEPT !.idle = FALSE]
    <3>1. Runs(Call("chat", k, Spectator, s)) /\ Persist(k, room)
      BY DEF SendChatMessage
    <3>2. room \in Room
      BY <1>3, <3>1, OtherRoomsTyped DEF Ops
    <3> HIDE DEF room
    <3> QED BY <1>2, <3>1, <3>2
  <2>6. ~ JoinSpectator(s, k) /\ ~ LeaveAsSpectator(s, k)
    BY <1>1 DEF JoinSpectator, LeaveAsSpectator
  <2>7. \A r \in Roles : ~ DropResumed(s, k, r)
    BY <1>1 DEF DropResumed
  <2> QED BY <1>4, <2>2, <2>3, <2>4, <2>5, <2>6, <2>7 DEF SocketCall
<1>5. ASSUME NEW k \in Codes, NEW account \in Accounts, AbandonRoom(k, account)
      PROVE  k = c
  BY <1>5 DEF AbandonRoom, TypeInv, TypeOK
<1>6. ~ Refuse
  BY <1>1 DEF Refuse, Untouched
<1>7. ~ Wait
  BY <1>1 DEF Wait, GetUncached
<1>8. ASSUME NEW s \in Sockets PROVE ~ Connect(s) /\ ~ Disconnect(s) /\ ~ FinishLeave(s)
  BY <1>1 DEF Connect, Disconnect, FinishLeave
<1>9. ASSUME NEW k \in Codes PROVE ~ Peek(k) /\ ~ HydrateRoom(k) /\ ~ CreateCheck(k)
  BY <1>1 DEF Peek, HydrateRoom, CreateCheck
<1>10. ASSUME NEW k \in Codes, SweepIdleRoom(k) PROVE k = c
  BY <1>10 DEF SweepIdleRoom, TypeInv, TypeOK
<1>11. ASSUME NEW k \in Codes, CreateRoom(k) PROVE FALSE
  <2>1. NewRoom(nextId) \in Room
    BY NewRoomTyped DEF TypeInv, TypeOK
  <2> QED BY <1>2, <1>11, <2>1 DEF CreateRoom
<1>12. ASSUME NEW k \in Codes, TimePasses(k) PROVE FALSE
  <2>1. rows' = [rows EXCEPT ![k] = [rows[k] EXCEPT !.idle = TRUE]] /\ rows[k] \in PersistedRoom
    BY <1>12 DEF TimePasses, TypeInv, TypeOK
  <2>2. [rows[k] EXCEPT !.idle = TRUE] \in PersistedRoom
    BY <2>1 DEF PersistedRoom
  <2> QED BY <2>1, <2>2 DEF TypeInv, TypeOK
<1>13. ASSUME NEW k \in Codes, NEW r \in Seats, ExpireSeat(k, r) PROVE FALSE
  <2> DEFINE room == [cache[k] EXCEPT !.seats[r] = None]
  <2>1. MayExpire(k, r) /\ Persist(k, room)
    BY <1>1, <1>13 DEF ExpireSeat
  <2>2. cache[k] \in Room
    BY <2>1 DEF MayExpire, TypeInv, TypeOK
  <2>3. room \in Room
    BY <2>2, FreedTyped
  <2> HIDE DEF room
  <2> QED BY <1>2, <2>1, <2>3
<1>14. ~ Restart /\ ~ UNCHANGED vars
  BY <1>1 DEF Restart, vars
<1> QED
  BY <1>4, <1>5, <1>6, <1>7, <1>8, <1>9, <1>10, <1>11, <1>12, <1>13, <1>14
  DEF Next, Handle

LEMMA SweptRow ==
  ASSUME TypeInv, DurableInv, NEW c \in Codes, SweepIdleRoom(c)
  PROVE  /\ rows[c].finished \/ Owners(rows[c]) = {}
         /\ rows[c].finished => Owners(rows[c]) \subseteq rows[c].recapViewedBy
<1>1. rows[c] = Snapshot(cache[c]) /\ Sweepable(cache[c])
  BY DEF SweepIdleRoom, DurableInv, WriteThrough
<1>2. /\ rows[c].knownAccounts = cache[c].knownAccounts
      /\ rows[c].recapViewedBy = cache[c].recapViewedBy
      /\ rows[c].finished = cache[c].finished
  BY <1>1, SnapshotFields
<1>3. Owners(rows[c]) = Owners(cache[c])
  BY <1>2 DEF Owners
<1> QED
  BY <1>1, <1>2, <1>3
  DEF Sweepable, IsPermanentlyExemptFromSweep, HasEverBeenClaimed, RecapFullyViewed

LEMMA AbandonedRow ==
  ASSUME TypeInv, DurableInv, NEW c \in Codes, NEW account \in Accounts,
         AbandonRoom(c, account), rows[c] # None
  PROVE  Owners(rows[c]) \subseteq {account}
<1>1. PICK q \in Request : q.code = c /\ Runs(q)
  BY HttpAbandonTyped DEF AbandonRoom
<1>2. rows[c] = Snapshot(Held(c))
  BY <1>1, HeldSaved
<1>3. rows[c].knownAccounts = Held(c).knownAccounts
  BY <1>2, SnapshotFields
<1>4. \A r \in Seats : rows[c].knownAccounts[r] \in {None, account}
  BY <1>3 DEF AbandonRoom, MayAbandon, IsAbandonable
<1> QED BY <1>4 DEF Owners

LEMMA DurableInvHolds == Spec => []DurableInv
BY InitDurable, DurableStep, TypeInvHolds, PTL DEF Spec

(* A room two accounts have joined is deleted only once it is finished and *)
(* all its owners have seen the recap, whichever handler deletes it        *)
(* (recapFullyViewed, roomIdleSweep.ts; isAbandonable, roomStoreContext.ts).*)
THEOREM SharedRoomsKept == Spec => SharedRoomKeptUntilViewed
<1> DEFINE Kept ==
      \A c \in Codes :
        rows[c] # None /\ Cardinality(Owners(rows[c])) > 1 /\ rows'[c] = None =>
          rows[c].finished /\ Owners(rows[c]) \subseteq rows[c].recapViewedBy
<1>1. TypeInv /\ DurableInv /\ [Next]_vars => Kept
  <2> SUFFICES ASSUME TypeInv, DurableInv, [Next]_vars, NEW c \in Codes,
                      rows[c] # None, Cardinality(Owners(rows[c])) > 1, rows'[c] = None
               PROVE  rows[c].finished /\ Owners(rows[c]) \subseteq rows[c].recapViewedBy
    OBVIOUS
  <2>1. \A account \in Accounts : ~ Owners(rows[c]) \subseteq {account}
    <3> SUFFICES ASSUME NEW account \in Accounts, Owners(rows[c]) \subseteq {account} PROVE FALSE
      OBVIOUS
    <3>1. Owners(rows[c]) = {} \/ Owners(rows[c]) = {account}
      OBVIOUS
    <3>2. Cardinality({}) = 0 /\ Cardinality({account}) = 1
      BY FS_EmptySet, FS_Singleton
    <3>3. Cardinality(Owners(rows[c])) \in {0, 1}
      BY <3>1, <3>2
    <3> QED BY <3>3
  <2>2. Owners(rows[c]) # {}
    BY FS_EmptySet
  <2>3. SweepIdleRoom(c)
    BY <2>1, RowDeleted, AbandonedRow
  <2> QED BY <2>2, <2>3, SweptRow
<1> QED BY <1>1, DurableInvHolds, TypeInvHolds, PTL DEF Spec, SharedRoomKeptUntilViewed

(* Passing time deletes no claimed room whose game is not over: only its   *)
(* owner's abandonment does (isPermanentlyExemptFromSweep).                *)
THEOREM UnfinishedRoomsOutlive == Spec => UnfinishedRoomOutlivesItsSeats
<1> DEFINE Outlives ==
      \A c \in Codes :
        rows[c] # None /\ ~ rows[c].finished /\ Owners(rows[c]) # {} /\ rows'[c] = None =>
          \E account \in Accounts : AbandonRoom(c, account)
<1>1. TypeInv /\ DurableInv /\ [Next]_vars => Outlives
  BY RowDeleted, SweptRow
<1> QED BY <1>1, DurableInvHolds, TypeInvHolds, PTL DEF Spec, UnfinishedRoomOutlivesItsSeats
-----------------------------------------------------------------------------
(***************************************************************************)
(* Ownership: the room store implements SeatOwnership for every roomId ever*)
(* created, and only an explicit leave frees a seat that a connected socket*)
(* holds.                                                                  *)
(***************************************************************************)

(* A roomId is saved under one code, and the room that handlers hold while *)
(* it is being deleted can only be saved under the code they asked for.    *)
UniqueIds ==
  /\ \A c, d \in Codes :
       rows[c] # None /\ rows[d] # None /\ rows[c].roomId = rows[d].roomId => c = d
  /\ orphan # None =>
       \A c \in Codes : rows[c] # None /\ rows[c].roomId = orphan.roomId => c = ready[1].code

(* At most one more seat has an owner.                                     *)
Claimed(owner, later) ==
  \/ later = owner
  \/ \E r \in Seats, account \in Accounts :
       owner[r] = None /\ later = [owner EXCEPT ![r] = account]

SeatsHeld(room, changed) ==
  \A r \in Seats : room.seats[r] \in Sockets => changed.seats[r] # None
-----------------------------------------------------------------------------
(* What a handler makes of the room it holds                               *)

LEMMA TakeSeatClaims ==
  ASSUME NEW room \in Room, NEW r \in Seats, NEW s \in Sockets, NEW account \in Accounts,
         room.knownAccounts[r] \in {None, account}
  PROVE  /\ Claimed(room.knownAccounts, TakeSeat(room, r, s, account).knownAccounts)
         /\ SeatsHeld(room, TakeSeat(room, r, s, account))
<1> USE ConstantsOK DEF Assumptions
<1>1. TakeSeat(room, r, s, account).knownAccounts = [room.knownAccounts EXCEPT ![r] = account]
  BY DEF TakeSeat, Room
<1>2. SeatsHeld(room, TakeSeat(room, r, s, account))
  BY DEF SeatsHeld, TakeSeat, Room
<1>3. CASE room.knownAccounts[r] = None
  BY <1>1, <1>2, <1>3 DEF Claimed
<1>4. CASE room.knownAccounts[r] = account
  BY <1>1, <1>2, <1>4 DEF Claimed, Room
<1> QED BY <1>3, <1>4

LEMMA TakeOverClaims ==
  ASSUME NEW room \in Room, NEW r \in Seats, NEW s \in Sockets, NEW account \in Accounts
  PROVE  /\ Claimed(room.knownAccounts, TakeOver(room, r, s, account).knownAccounts)
         /\ SeatsHeld(room, TakeOver(room, r, s, account))
<1> USE ConstantsOK DEF Assumptions
<1> DEFINE owner == room.knownAccounts
<1>1. TakeOver(room, r, s, account).knownAccounts =
        [owner EXCEPT ![r] = IF owner[r] = None THEN account ELSE owner[r]]
  BY DEF TakeOver, Room
<1>2. SeatsHeld(room, TakeOver(room, r, s, account))
  BY DEF SeatsHeld, TakeOver, Room
<1>3. CASE owner[r] = None
  BY <1>1, <1>2, <1>3 DEF Claimed
<1>4. CASE owner[r] # None
  <2>1. [owner EXCEPT ![r] = owner[r]] = owner
    BY DEF Room
  <2> QED BY <1>1, <1>2, <1>4, <2>1 DEF Claimed
<1> QED BY <1>3, <1>4

LEMMA PlayedClaims ==
  ASSUME NEW room \in Room, NEW over \in BOOLEAN
  PROVE  /\ Claimed(room.knownAccounts, Played(room, over).knownAccounts)
         /\ SeatsHeld(room, Played(room, over))
BY ConstantsOK DEF Assumptions, Claimed, SeatsHeld, Played, Room

(* The handler of a call changes one room: it keeps the roomId, adds at    *)
(* most one owner, saves what it changed of the owners, and unless it is a *)
(* leave it frees no seat that a socket holds.                             *)
Changes(s, c, room) ==
  /\ Mutate(c, room)
  /\ room.roomId = Held(c).roomId
  /\ Claimed(Held(c).knownAccounts, room.knownAccounts)
  /\ \/ Persist(c, room)
     \/ UNCHANGED rows /\ room.knownAccounts = Held(c).knownAccounts
  /\ SeatsHeld(Held(c), room) \/ LeaveSeat(s, c)

LEMMA DroppedChanges ==
  ASSUME NEW c \in Codes, NEW r \in Roles, NEW s \in Sockets,
         Held(c) \in Room, Dropped(c, r, s)
  PROVE  \E room \in Room : /\ Mutate(c, room)
                            /\ room.roomId = Held(c).roomId
                            /\ room.knownAccounts = Held(c).knownAccounts
                            /\ SeatsHeld(Held(c), room)
<1> USE ConstantsOK DEF Assumptions
<1>1. CASE r = Spectator
  <2> DEFINE room == [Held(c) EXCEPT !.spectatorSocketIds = @ \ {s}]
  <2>1. room \in Room /\ Mutate(c, room)
    BY <1>1, OtherRoomsTyped DEF Dropped
  <2>2. /\ room.roomId = Held(c).roomId /\ room.knownAccounts = Held(c).knownAccounts
        /\ SeatsHeld(Held(c), room)
    BY DEF SeatsHeld, Room
  <2> QED BY <2>1, <2>2
<1>2. CASE r \in Seats /\ Held(c).seats[r] = s
  <2> DEFINE room == [Held(c) EXCEPT !.seats[r] = Away]
  <2>1. room \in Room /\ Mutate(c, room)
    BY <1>2, FreedTyped DEF Dropped
  <2>2. /\ room.roomId = Held(c).roomId /\ room.knownAccounts = Held(c).knownAccounts
        /\ SeatsHeld(Held(c), room)
    BY <1>2 DEF SeatsHeld, Room
  <2> QED BY <2>1, <2>2
<1>3. CASE r \in Seats /\ Held(c).seats[r] # s
  <2>1. Mutate(c, Held(c)) /\ SeatsHeld(Held(c), Held(c))
    BY <1>3 DEF Dropped, SeatsHeld
  <2> QED BY <2>1
<1> QED BY <1>1, <1>2, <1>3

(* One step per handler.                                                   *)
LEMMA SocketCallChanges ==
  ASSUME TypeInv, NEW s \in Sockets, NEW c \in Codes, SocketCall(s, c)
  PROVE  \E q \in Request, room \in Room : q.code = c /\ Runs(q) /\ Changes(s, c, room)
<1> USE ConstantsOK DEF Assumptions
<1> DEFINE Goal == \E q \in Request, room \in Room : q.code = c /\ Runs(q) /\ Changes(s, c, room)
<1>r. ASSUME NEW op \in Ops, NEW r \in Roles, Runs(Call(op, c, r, s))
      PROVE  Held(c) \in Room /\ \E q \in Request : q.code = c /\ Runs(q)
  BY <1>r, CallTyped, HeldTyped
<1>1. CASE JoinSpectator(s, c)
  <2> DEFINE room == [Held(c) EXCEPT !.spectatorSocketIds = @ \cup {s}]
  <2>1. Runs(Call("join", c, Spectator, s)) /\ Mutate(c, room) /\ UNCHANGED rows
    BY <1>1 DEF JoinSpectator
  <2>2. Held(c) \in Room /\ \E q \in Request : q.code = c /\ Runs(q)
    BY <1>r, <2>1 DEF Ops
  <2>3. room \in Room
    BY <2>2, OtherRoomsTyped
  <2>4. /\ room.roomId = Held(c).roomId /\ room.knownAccounts = Held(c).knownAccounts
        /\ SeatsHeld(Held(c), room)
    BY <2>2 DEF SeatsHeld, Room
  <2> HIDE DEF room
  <2> QED BY <2>1, <2>2, <2>3, <2>4 DEF Changes, Claimed
<1>2. ASSUME NEW r \in Seats, JoinSeat(s, c, r) PROVE Goal
  <2> DEFINE room == TakeSeat(Held(c), r, s, AccountOf[s])
  <2>1. /\ Runs(Call("join", c, r, s)) /\ MayTake(Held(c), r, AccountOf[s])
        /\ Mutate(c, room) /\ Persist(c, room)
    BY <1>2 DEF JoinSeat
  <2>2. Held(c) \in Room /\ \E q \in Request : q.code = c /\ Runs(q)
    BY <1>r, <2>1 DEF Ops
  <2>3. /\ room \in Room /\ room.roomId = Held(c).roomId
        /\ Claimed(Held(c).knownAccounts, room.knownAccounts) /\ SeatsHeld(Held(c), room)
    BY <2>1, <2>2, TakeSeatTyped, TakeSeatGrows, TakeSeatClaims DEF MayTake, Grows
  <2> HIDE DEF room
  <2>4. Changes(s, c, room)
    BY <2>1, <2>3 DEF Changes
  <2> QED BY <2>2, <2>3, <2>4
<1>3. ASSUME NEW r \in Seats, ReconnectRoom(s, c, r) PROVE Goal
  <2> DEFINE room == TakeOver(Held(c), r, s, AccountOf[s])
  <2>1. Runs(Call("reconnect", c, r, s)) /\ Mutate(c, room) /\ Persist(c, room)
    BY <1>3 DEF ReconnectRoom
  <2>2. Held(c) \in Room /\ \E q \in Request : q.code = c /\ Runs(q)
    BY <1>r, <2>1 DEF Ops
  <2>3. /\ room \in Room /\ room.roomId = Held(c).roomId
        /\ Claimed(Held(c).knownAccounts, room.knownAccounts) /\ SeatsHeld(Held(c), room)
    BY <2>2, TakeOverTyped, TakeOverGrows, TakeOverClaims DEF Grows
  <2> HIDE DEF room
  <2>4. Changes(s, c, room)
    BY <2>1, <2>3 DEF Changes
  <2> QED BY <2>2, <2>3, <2>4
<1>4. ASSUME NEW r \in Seats, ReconnectByAccount(s, c, r) PROVE Goal
  <2> DEFINE taken == TakeSeat(Held(c), r, s, AccountOf[s])
             over == TakeOver(Held(c), r, s, AccountOf[s])
  <2>1. Runs(Call("account", c, Spectator, s))
    BY <1>4 DEF ReconnectByAccount
  <2>2. Held(c) \in Room /\ \E q \in Request : q.code = c /\ Runs(q)
    BY <1>r, <2>1 DEF Ops
  <2>3. Held(c).knownAccounts[r] = AccountOf[s]
    BY <1>4 DEF ReconnectByAccount, IsFirstSeatOf, SeatsOwnedBy
  <2>4. /\ taken \in Room /\ taken.roomId = Held(c).roomId
        /\ Claimed(Held(c).knownAccounts, taken.knownAccounts) /\ SeatsHeld(Held(c), taken)
    BY <2>2, <2>3, TakeSeatTyped, TakeSeatGrows, TakeSeatClaims DEF Grows
  <2>5. /\ over \in Room /\ over.roomId = Held(c).roomId
        /\ Claimed(Held(c).knownAccounts, over.knownAccounts) /\ SeatsHeld(Held(c), over)
    BY <2>2, TakeOverTyped, TakeOverGrows, TakeOverClaims DEF Grows
  <2>6. \E room \in {taken, over} : Mutate(c, room) /\ Persist(c, room)
    BY <1>4 DEF ReconnectByAccount
  <2> HIDE DEF taken, over
  <2>7. PICK room \in {taken, over} : Mutate(c, room) /\ Persist(c, room)
    BY <2>6
  <2>8. room \in Room /\ Changes(s, c, room)
    BY <2>4, <2>5, <2>7 DEF Changes
  <2> QED BY <2>2, <2>8
<1>5. ASSUME NEW r \in Roles, DropResumed(s, c, r) PROVE Goal
  <2>1. Runs(Call("drop", c, r, s)) /\ Dropped(c, r, s) /\ UNCHANGED rows
    BY <1>5 DEF DropResumed
  <2>2. Held(c) \in Room /\ \E q \in Request : q.code = c /\ Runs(q)
    BY <1>r, <2>1 DEF Ops
  <2>3. PICK room \in Room : /\ Mutate(c, room) /\ room.roomId = Held(c).roomId
                             /\ room.knownAccounts = Held(c).knownAccounts
                             /\ SeatsHeld(Held(c), room)
    BY <2>1, <2>2, DroppedChanges
  <2>4. Changes(s, c, room)
    BY <2>1, <2>3 DEF Changes, Claimed
  <2> QED BY <2>2, <2>4
<1>6. CASE LeaveAsSpectator(s, c)
  <2> DEFINE room == [Held(c) EXCEPT !.spectatorSocketIds = @ \ {s}]
  <2>1. Runs(Call("leave", c, Spectator, s)) /\ Mutate(c, room) /\ UNCHANGED rows
    BY <1>6 DEF LeaveAsSpectator
  <2>2. Held(c) \in Room /\ \E q \in Request : q.code = c /\ Runs(q)
    BY <1>r, <2>1 DEF Ops
  <2>3. room \in Room
    BY <2>2, OtherRoomsTyped
  <2>4. /\ room.roomId = Held(c).roomId /\ room.knownAccounts = Held(c).knownAccounts
        /\ SeatsHeld(Held(c), room)
    BY <2>2 DEF SeatsHeld, Room
  <2> HIDE DEF room
  <2> QED BY <2>1, <2>2, <2>3, <2>4 DEF Changes, Claimed
<1>7. CASE LeaveSeat(s, c)
  <2> DEFINE room == [Held(c) EXCEPT !.seats[binding[s].role] = None]
  <2>1. Runs(Call("leave", c, Spectator, s)) /\ Mutate(c, room) /\ Persist(c, room)
    BY <1>7 DEF LeaveSeat
  <2>2. Held(c) \in Room /\ \E q \in Request : q.code = c /\ Runs(q)
    BY <1>r, <2>1 DEF Ops
  <2>3. binding[s].role \in Seats
    BY <1>7 DEF LeaveSeat, BoundTo, Binding, TypeInv, TypeOK
  <2>4. room \in Room /\ room.roomId = Held(c).roomId /\ room.knownAccounts = Held(c).knownAccounts
    BY <2>2, <2>3, FreedTyped DEF Room
  <2> HIDE DEF room
  <2> QED BY <1>7, <2>1, <2>2, <2>4 DEF Changes, Claimed
<1>8. ASSUME NEW over \in BOOLEAN, ApplyAction(s, c, over) PROVE Goal
  <2> DEFINE room == Played(Held(c), over)
  <2>1. Runs(Call("act", c, Spectator, s)) /\ Mutate(c, room) /\ Persist(c, room)
    BY <1>8 DEF ApplyAction
  <2>2. Held(c) \in Room /\ \E q \in Request : q.code = c /\ Runs(q)
    BY <1>r, <2>1 DEF Ops
  <2>3. /\ room \in Room /\ room.roomId = Held(c).roomId
        /\ Claimed(Held(c).knownAccounts, room.knownAccounts) /\ SeatsHeld(Held(c), room)
    BY <2>2, PlayedTyped, PlayedClaims DEF Played, Room
  <2> HIDE DEF room
  <2>4. Changes(s, c, room)
    BY <2>1, <2>3 DEF Changes
  <2> QED BY <2>2, <2>3, <2>4
<1>9. CASE SendChatMessage(s, c)
  <2> DEFINE room == [Held(c) EXCEPT !.idle = FALSE]
  <2>1. Runs(Call("chat", c, Spectator, s)) /\ Mutate(c, room) /\ Persist(c, room)
    BY <1>9 DEF SendChatMessage
  <2>2. Held(c) \in Room /\ \E q \in Request : q.code = c /\ Runs(q)
    BY <1>r, <2>1 DEF Ops
  <2>3. room \in Room
    BY <2>2, OtherRoomsTyped
  <2>4. /\ room.roomId = Held(c).roomId /\ room.knownAccounts = Held(c).knownAccounts
        /\ SeatsHeld(Held(c), room)
    BY <2>2 DEF SeatsHeld, Room
  <2> HIDE DEF room
  <2> QED BY <2>1, <2>2, <2>3, <2>4 DEF Changes, Claimed
<1> QED BY <1>1, <1>2, <1>3, <1>4, <1>5, <1>6, <1>7, <1>8, <1>9 DEF SocketCall
-----------------------------------------------------------------------------
(* Seats that a connected socket holds                                     *)

(* A cached room that stays cached is changed by its handler only in place.*)
LEMMA CallFreesByLeaving ==
  ASSUME TypeInv, DurableInv, NEW s \in Sockets, NEW k \in Codes, SocketCall(s, k),
         NEW c \in Codes, NEW r \in Seats, cache[c] # None, cache[c].seats[r] \in Sockets,
         cache'[c] # None, cache'[c].seats[r] = None
  PROVE  c = k /\ LeaveSeat(s, k)
<1> USE ConstantsOK DEF Assumptions
<1>1. PICK q \in Request, room \in Room : q.code = k /\ Runs(q) /\ Changes(s, k, room)
  BY SocketCallChanges
<1>2. orphan = None => Held(k) = cache[k]
  BY <1>1, HeldSaved
<1>3. CASE orphan = None /\ cache' = [cache EXCEPT ![k] = room]
  <2>1. c = k /\ room.seats[r] = None
    BY <1>3 DEF TypeInv, TypeOK
  <2> QED BY <1>1, <1>2, <1>3, <2>1 DEF Changes, SeatsHeld
<1>4. CASE cache' = cache
  BY <1>4
<1> QED BY <1>1, <1>3, <1>4 DEF Changes, Mutate

(* What else happens to a room that stays cached under one roomId.         *)
LEMMA OtherStepsFreeNoHeldSeat ==
  ASSUME TypeInv, DurableInv, [Next]_vars,
         \A s \in Sockets, c \in Codes : ~ SocketCall(s, c),
         NEW c \in Codes, NEW r \in Seats, cache[c] # None, cache[c].seats[r] \in Sockets,
         cache'[c] # None, cache'[c].roomId = cache[c].roomId, cache'[c].seats[r] = None
  PROVE  FALSE
<1> USE ConstantsOK DEF Assumptions
<1>0. cache[c] \in Room /\ rows[c] = Snapshot(cache[c]) /\ cache \in [Codes -> Room \cup {None}]
  BY DEF TypeInv, TypeOK, DurableInv, WriteThrough
<1>1. CASE UNCHANGED cache
  BY <1>1
<1>2. ASSUME NEW k \in Codes, NEW account \in Accounts, AbandonRoom(k, account) PROVE FALSE
  BY <1>0, <1>2 DEF AbandonRoom
<1>3. ASSUME NEW s \in Sockets, Disconnect(s) PROVE FALSE
  <2> DEFINE b == binding[s]
  <2>1. b # None /\ cache[b.code] # None /\ Dropped(b.code, b.role, s)
    BY <1>1, <1>3 DEF Disconnect
  <2>2. b.code \in Codes /\ b.role \in Roles
    BY <2>1 DEF Binding, TypeInv, TypeOK
  <2>3. orphan = None
    BY <1>3, QueueIdleNow DEF Disconnect
  <2>4. Held(b.code) \in Room /\ Held(b.code) = cache[b.code]
    BY <2>1, <2>2, <2>3 DEF Held, TypeInv, TypeOK
  <2>5. PICK room \in Room : Mutate(b.code, room) /\ SeatsHeld(Held(b.code), room)
    BY <2>1, <2>2, <2>4, DroppedChanges
  <2>6. cache' = [cache EXCEPT ![b.code] = room]
    BY <2>3, <2>5 DEF Mutate
  <2> HIDE DEF b
  <2> QED BY <1>0, <2>2, <2>4, <2>5, <2>6 DEF SeatsHeld
<1>4. ASSUME NEW k \in Codes, HydrateRoom(k) PROVE FALSE
  <2>1. rows[k] # None /\ cache' = [cache EXCEPT ![k] = Hydrated(rows[k])]
    BY <1>1, <1>4 DEF HydrateRoom
  <2>2. k = c /\ Hydrated(rows[c]).seats[r] = None
    BY <1>0, <2>1
  <2>3. r \in rows[c].seats
    BY <1>0 DEF Snapshot
  <2> QED BY <2>2, <2>3 DEF Hydrated
<1>5. ASSUME NEW k \in Codes, NEW x \in Seats, ExpireSeat(k, x) PROVE FALSE
  <2>1. MayExpire(k, x) /\ cache' = [cache EXCEPT ![k] = [cache[k] EXCEPT !.seats[x] = None]]
    BY <1>1, <1>5 DEF ExpireSeat
  <2>2. k = c
    BY <1>0, <2>1
  <2>3. cache'[c] = [cache[c] EXCEPT !.seats[x] = None]
    BY <1>0, <2>1, <2>2
  <2>4. cache'[c].seats = [cache[c].seats EXCEPT ![x] = None]
    BY <1>0, <2>3 DEF Room
  <2>5. x = r
    BY <1>0, <2>4 DEF Room
  <2> QED BY <2>1, <2>2, <2>5 DEF MayExpire
<1>6. ASSUME NEW k \in Codes, SweepIdleRoom(k) PROVE FALSE
  BY <1>0, <1>6 DEF SweepIdleRoom
<1>7. ASSUME NEW k \in Codes, CreateRoom(k) PROVE FALSE
  <2>1. cache' = [cache EXCEPT ![k] = NewRoom(nextId)]
    BY <1>7 DEF CreateRoom
  <2>2. k = c /\ cache[c].roomId = nextId
    BY <1>0, <2>1 DEF NewRoom
  <2>3. rows[c] # None /\ rows[c].roomId = nextId
    BY <1>0, <2>2, SnapshotNotNone, SnapshotFields
  <2> QED BY <2>3 DEF DurableInv, IdsAreOld, TypeInv, TypeOK
<1>8. ASSUME NEW k \in Codes, TimePasses(k) PROVE FALSE
  <2>1. cache' = [cache EXCEPT ![k] = IF cache[k] = None THEN None ELSE [cache[k] EXCEPT !.idle = TRUE]]
    BY <1>8 DEF TimePasses
  <2>2. k = c /\ cache'[c] = [cache[c] EXCEPT !.idle = TRUE]
    BY <1>0, <2>1
  <2>3. cache'[c].seats = cache[c].seats
    BY <1>0, <2>2 DEF Room
  <2> QED BY <2>3
<1>9. CASE Refuse \/ Wait \/ Restart \/ UNCHANGED vars
  BY <1>0, <1>1, <1>9 DEF Refuse, Untouched, Wait, GetUncached, Restart, vars
<1>10. ASSUME NEW s \in Sockets, Connect(s) \/ FinishLeave(s) PROVE FALSE
  BY <1>1, <1>10 DEF Connect, FinishLeave
<1>11. ASSUME NEW k \in Codes, Peek(k) \/ CreateCheck(k) PROVE FALSE
  BY <1>1, <1>11 DEF Peek, CreateCheck
<1> QED
  BY <1>2, <1>3, <1>4, <1>5, <1>6, <1>7, <1>8, <1>9, <1>10, <1>11 DEF Next, Handle

(* No grace timer, whatever reconnect it outlived and whichever room under *)
(* the same code it was started for, and no hydration frees the seat of a  *)
(* socket: only leaveSeat does (scheduleSeatExpiry, roomMembership.ts).    *)
THEOREM HeldSeatsFreedOnlyByLeave == Spec => ConnectedSeatFreedOnlyByLeave
<1> DEFINE Freed ==
      \A c \in Codes, r \in Seats :
        /\ cache[c] # None /\ cache[c].seats[r] \in alive
        /\ cache'[c] # None /\ cache'[c].roomId = cache[c].roomId
        /\ cache'[c].seats[r] = None
        => \E s \in Sockets : BoundTo(s, c) /\ binding[s].role = r /\ s \in leaving'
<1>1. TypeInv /\ DurableInv /\ [Next]_vars => Freed
  <2> SUFFICES ASSUME TypeInv, DurableInv, [Next]_vars, NEW c \in Codes, NEW r \in Seats,
                      cache[c] # None, cache[c].seats[r] \in alive,
                      cache'[c] # None, cache'[c].roomId = cache[c].roomId,
                      cache'[c].seats[r] = None
               PROVE  \E s \in Sockets : BoundTo(s, c) /\ binding[s].role = r /\ s \in leaving'
    OBVIOUS
  <2>1. cache[c].seats[r] \in Sockets
    BY DEF TypeInv, TypeOK
  <2>2. PICK s \in Sockets, k \in Codes : SocketCall(s, k)
    BY <2>1, OtherStepsFreeNoHeldSeat
  <2>3. c = k /\ LeaveSeat(s, c)
    BY <2>1, <2>2, CallFreesByLeaving
  <2>4. orphan = None => Held(c) = cache[c]
    BY DEF Held
  <2>5. cache' # cache
    BY <2>1, ConstantsOK DEF Assumptions
  <2>6. cache' = [cache EXCEPT ![c] = [Held(c) EXCEPT !.seats[binding[s].role] = None]]
        /\ orphan = None
    BY <2>3, <2>5 DEF LeaveSeat, Mutate
  <2>7. cache[c] \in Room /\ cache'[c] = [cache[c] EXCEPT !.seats[binding[s].role] = None]
    BY <2>4, <2>6 DEF TypeInv, TypeOK
  <2>8. cache'[c].seats = [cache[c].seats EXCEPT ![binding[s].role] = None]
    BY <2>7 DEF Room
  <2>9. binding[s].role = r
    BY <2>1, <2>7, <2>8, ConstantsOK DEF Assumptions, Room
  <2> QED BY <2>3, <2>9 DEF LeaveSeat
<1> QED BY <1>1, DurableInvHolds, TypeInvHolds, PTL DEF Spec, ConnectedSeatFreedOnlyByLeave
-----------------------------------------------------------------------------
(* The life of one roomId                                                  *)

(* Lifecycle as a function of the variables it reads, so that one lemma    *)
(* speaks of the state before a step and of the state after it.            *)
SavedIn(saved, id) == {c \in Codes : saved[c] # None /\ saved[c].roomId = id}

Life(saved, held, next, id) ==
  IF id >= next THEN [status |-> "unborn", owner |-> Unclaimed]
  ELSE IF SavedIn(saved, id) # {}
    THEN [status |-> "open", owner |-> saved[CHOOSE c \in SavedIn(saved, id) : TRUE].knownAccounts]
  ELSE IF held # None /\ held.roomId = id
    THEN [status |-> "closing", owner |-> held.knownAccounts]
  ELSE [status |-> "closed", owner |-> Unclaimed]

LEMMA LifeIsLifecycle ==
  ASSUME NEW id
  PROVE  /\ Lifecycle(id) = Life(rows, orphan, nextId, id)
         /\ Lifecycle(id)' = Life(rows', orphan', nextId', id)
BY DEF Lifecycle, Life, SavedAs, SavedIn

(* What SeatOwnership lets one room do, or nothing.                        *)
Evolves(before, after) ==
  \/ after = before
  \/ before = [status |-> "unborn", owner |-> Unclaimed]
       /\ after = [status |-> "open", owner |-> Unclaimed]
  \/ /\ before.status \in {"open", "closing"}
     /\ \E r \in Seats, account \in Accounts :
          /\ before.owner[r] = None
          /\ after = [status |-> "open", owner |-> [before.owner EXCEPT ![r] = account]]
  \/ before.status = "closing" /\ after = [status |-> "open", owner |-> before.owner]
  \/ before.status = "open" /\ after = [status |-> "closing", owner |-> before.owner]
  \/ /\ before.status \in {"open", "closing"}
     /\ after = [status |-> "closed", owner |-> Unclaimed]

(* The room with roomId h, saved under c at most, and its owners.          *)
OnlyAt(saved, held, c, h, owner) ==
  /\ saved[c] # None => saved[c].roomId = h /\ saved[c].knownAccounts = owner
  /\ held # None => held.roomId = h /\ held.knownAccounts = owner
  /\ \A k \in Codes \ {c} : saved[k] # None => saved[k].roomId # h

LEMMA LifeOfOne ==
  ASSUME NEW saved, NEW held, NEW next \in Nat, NEW c \in Codes, NEW h \in Nat, h < next,
         NEW owner, OnlyAt(saved, held, c, h, owner)
  PROVE  Life(saved, held, next, h) =
           IF saved[c] # None THEN [status |-> "open", owner |-> owner]
           ELSE IF held # None THEN [status |-> "closing", owner |-> owner]
           ELSE [status |-> "closed", owner |-> Unclaimed]
<1>1. ~ h >= next
  OBVIOUS
<1>2. CASE saved[c] # None
  <2>1. SavedIn(saved, h) = {c}
    BY <1>2 DEF SavedIn, OnlyAt
  <2>2. (CHOOSE k \in SavedIn(saved, h) : TRUE) = c
    BY <2>1
  <2> QED BY <1>1, <1>2, <2>1, <2>2 DEF Life, OnlyAt
<1>3. CASE saved[c] = None
  <2>1. SavedIn(saved, h) = {}
    BY <1>3 DEF SavedIn, OnlyAt
  <2> QED BY <1>1, <1>3, <2>1 DEF Life, OnlyAt
<1> QED BY <1>2, <1>3

(* A change at code c of the room with roomId h leaves every other room as *)
(* it was.                                                                 *)
LEMMA LifeOfOthers ==
  ASSUME NEW saved, NEW saved2, NEW held, NEW held2, NEW next, NEW c \in Codes,
         NEW h, NEW owner, NEW owner2,
         OnlyAt(saved, held, c, h, owner), OnlyAt(saved2, held2, c, h, owner2),
         \A k \in Codes \ {c} : saved2[k] = saved[k],
         NEW id, id # h
  PROVE  Life(saved2, held2, next, id) = Life(saved, held, next, id)
<1>1. SavedIn(saved2, id) = SavedIn(saved, id) /\ c \notin SavedIn(saved, id)
  BY DEF SavedIn, OnlyAt
<1>2. SavedIn(saved, id) # {} =>
        saved2[CHOOSE k \in SavedIn(saved, id) : TRUE] = saved[CHOOSE k \in SavedIn(saved, id) : TRUE]
  <2> SUFFICES ASSUME SavedIn(saved, id) # {}
               PROVE  (CHOOSE k \in SavedIn(saved, id) : TRUE) \in Codes \ {c}
    OBVIOUS
  <2>1. (CHOOSE k \in SavedIn(saved, id) : TRUE) \in SavedIn(saved, id)
    OBVIOUS
  <2> QED BY <1>1, <2>1 DEF SavedIn
<1> QED BY <1>1, <1>2 DEF Life, OnlyAt

(* The step of one room: it is saved, written back, deleted, or dropped by *)
(* the last handler that held it.                                          *)
LEMMA OneRoomEvolves ==
  ASSUME NEW saved, NEW saved2, NEW held, NEW held2, NEW next \in Nat, NEW c \in Codes,
         NEW h \in Nat, h < next, NEW owner, NEW owner2,
         OnlyAt(saved, held, c, h, owner), OnlyAt(saved2, held2, c, h, owner2),
         \A k \in Codes \ {c} : saved2[k] = saved[k],
         saved[c] # None \/ held # None,
         owner2 = owner \/ (saved2[c] # None /\ Claimed(owner, owner2)),
         NEW id
  PROVE  Evolves(Life(saved, held, next, id), Life(saved2, held2, next, id))
<1>1. CASE id # h
  BY <1>1, LifeOfOthers DEF Evolves
<1>2. CASE id = h
  <2> DEFINE before == Life(saved, held, next, h)
             after == Life(saved2, held2, next, h)
  <2>1. before = IF saved[c] # None THEN [status |-> "open", owner |-> owner]
                                    ELSE [status |-> "closing", owner |-> owner]
    BY LifeOfOne
  <2>2. after = IF saved2[c] # None THEN [status |-> "open", owner |-> owner2]
                ELSE IF held2 # None THEN [status |-> "closing", owner |-> owner2]
                ELSE [status |-> "closed", owner |-> Unclaimed]
    BY LifeOfOne
  <2>3. before.owner = owner /\ before.status \in {"open", "closing"}
    BY <2>1
  <2> HIDE DEF before, after
  <2>4. ASSUME owner2 = owner PROVE Evolves(before, after)
    BY <2>1, <2>2, <2>3, <2>4 DEF Evolves
  <2>5. ASSUME saved2[c] # None, Claimed(owner, owner2), owner2 # owner
        PROVE  Evolves(before, after)
    BY <2>2, <2>3, <2>5 DEF Evolves, Claimed
  <2> QED BY <1>2, <2>4, <2>5 DEF before, after
<1> QED BY <1>1, <1>2
-----------------------------------------------------------------------------
(* Steps                                                                   *)

AllEvolve == \A id \in RoomIds : Evolves(Lifecycle(id), Lifecycle(id)')

OwnershipInv == TypeInv /\ DurableInv /\ UniqueIds

(* Code c and what handlers hold are all of the room with roomId h.        *)
LEMMA OnlyThere ==
  ASSUME OwnershipInv, NEW c \in Codes, NEW room \in Room,
         rows[c] # None => rows[c] = Snapshot(room),
         orphan # None => orphan = room /\ ready[1].code = c,
         rows[c] # None \/ orphan # None
  PROVE  OnlyAt(rows, orphan, c, room.roomId, room.knownAccounts)
BY SnapshotFields DEF OwnershipInv, UniqueIds, OnlyAt

(* A step that changes one room, at code c.                                *)
LEMMA OneRoomStep ==
  ASSUME OwnershipInv, NEW c \in Codes, NEW room \in Room, NEW changed,
         rows[c] # None => rows[c] = Snapshot(room),
         orphan # None => orphan = room /\ ready[1].code = c,
         rows[c] # None \/ orphan # None,
         room.roomId < nextId, nextId' = nextId,
         \A k \in Codes \ {c} : rows'[k] = rows[k],
         changed.roomId = room.roomId,
         rows'[c] # None => rows'[c].roomId = changed.roomId
                            /\ rows'[c].knownAccounts = changed.knownAccounts,
         orphan' # None => orphan' = changed /\ ready'[1].code = c,
         \/ changed.knownAccounts = room.knownAccounts
         \/ rows'[c] # None /\ Claimed(room.knownAccounts, changed.knownAccounts)
  PROVE  AllEvolve /\ UniqueIds'
<1> DEFINE h == room.roomId
<1>1. OnlyAt(rows, orphan, c, h, room.knownAccounts)
  BY OnlyThere
<1>2. OnlyAt(rows', orphan', c, h, changed.knownAccounts)
  BY <1>1 DEF OnlyAt
<1>3. h \in Nat /\ nextId \in Nat
  BY DEF OwnershipInv, TypeInv, TypeOK, Room
<1>4. AllEvolve
  <2> SUFFICES ASSUME NEW id PROVE Evolves(Lifecycle(id), Lifecycle(id)')
    BY DEF AllEvolve
  <2>1. Evolves(Life(rows, orphan, nextId, id), Life(rows', orphan', nextId, id))
    <3> HIDE DEF h
    <3> QED BY <1>1, <1>2, <1>3, OneRoomEvolves DEF h
  <2> QED BY <2>1, LifeIsLifecycle
<1>5. UniqueIds'
  <2>1. ASSUME NEW d \in Codes, NEW e \in Codes, rows'[d] # None, rows'[e] # None,
               rows'[d].roomId = rows'[e].roomId
        PROVE  d = e
    BY <1>1, <1>2, <2>1 DEF OnlyAt, OwnershipInv, UniqueIds
  <2>2. ASSUME orphan' # None, NEW d \in Codes, rows'[d] # None, rows'[d].roomId = orphan'.roomId
        PROVE  d = ready'[1].code
    BY <1>2, <2>2 DEF OnlyAt
  <2> QED BY <2>1, <2>2 DEF UniqueIds
<1> QED BY <1>4, <1>5

(* A step that saves nothing and lets go of nothing.                       *)
LEMMA NothingOwned ==
  ASSUME OwnershipInv, UNCHANGED <<rows, nextId>>, orphan' = orphan, orphan = None
  PROVE  AllEvolve /\ UniqueIds'
<1>1. \A id : Lifecycle(id)' = Lifecycle(id)
  BY LifeIsLifecycle
<1> QED BY <1>1 DEF AllEvolve, Evolves, OwnershipInv, UniqueIds

LEMMA CallEvolves ==
  ASSUME OwnershipInv, NEW s \in Sockets, NEW c \in Codes, SocketCall(s, c)
  PROVE  AllEvolve /\ UniqueIds'
<1> USE ConstantsOK DEF Assumptions
<1>1. PICK q \in Request, room \in Room : q.code = c /\ Runs(q) /\ Changes(s, c, room)
  BY SocketCallChanges DEF OwnershipInv
<1>2. /\ Held(c) \in Room
      /\ rows[c] # None => rows[c] = Snapshot(Held(c))
      /\ orphan = None => rows[c] = Snapshot(Held(c))
      /\ orphan # None => ready[1].code = c /\ orphan = Held(c)
      /\ Held(c).roomId < nextId
  BY <1>1, HeldSaved DEF OwnershipInv, Held
<1>3. rows[c] # None \/ orphan # None
  BY <1>2, SnapshotNotNone
<1>4. nextId' = nextId /\ rows \in [Codes -> PersistedRoom \cup {None}]
  BY <1>1 DEF Runs, OwnershipInv, TypeInv, TypeOK
<1>5. orphan' # None => orphan' = room /\ ready'[1].code = c
  <2>1. orphan' # None => orphan' = room /\ OthersHold
    BY <1>1 DEF Changes, Mutate
  <2> QED BY <1>1, <2>1, RunsQueue DEF OwnershipInv
<1>6. CASE Persist(c, room)
  <2>1. /\ rows'[c] = Snapshot(room) /\ rows'[c] # None
        /\ \A k \in Codes \ {c} : rows'[k] = rows[k]
    BY <1>4, <1>6, SnapshotNotNone DEF Persist
  <2>2. rows'[c].roomId = room.roomId /\ rows'[c].knownAccounts = room.knownAccounts
    BY <2>1, SnapshotFields
  <2> QED BY <1>1, <1>2, <1>3, <1>4, <1>5, <2>1, <2>2, OneRoomStep DEF Changes
<1>7. CASE UNCHANGED rows /\ room.knownAccounts = Held(c).knownAccounts
  <2>1. rows'[c] # None => rows'[c].roomId = room.roomId
                           /\ rows'[c].knownAccounts = room.knownAccounts
    BY <1>1, <1>2, <1>7, SnapshotFields DEF Changes
  <2> QED BY <1>1, <1>2, <1>3, <1>4, <1>5, <1>7, <2>1, OneRoomStep DEF Changes
<1> QED BY <1>1, <1>6, <1>7 DEF Changes

LEMMA AbandonEvolves ==
  ASSUME OwnershipInv, NEW c \in Codes, NEW account \in Accounts, AbandonRoom(c, account)
  PROVE  AllEvolve /\ UniqueIds'
<1> USE ConstantsOK DEF Assumptions
<1>1. PICK q \in Request : q.code = c /\ Runs(q)
  BY HttpAbandonTyped DEF AbandonRoom
<1>2. /\ Held(c) \in Room
      /\ rows[c] # None => rows[c] = Snapshot(Held(c))
      /\ orphan = None => rows[c] = Snapshot(Held(c))
      /\ orphan # None => ready[1].code = c /\ orphan = Held(c)
      /\ Held(c).roomId < nextId
  BY <1>1, HeldSaved DEF OwnershipInv, Held
<1>3. rows[c] # None \/ orphan # None
  BY <1>2, SnapshotNotNone
<1>4. /\ nextId' = nextId /\ rows'[c] = None
      /\ \A k \in Codes \ {c} : rows'[k] = rows[k]
  BY <1>1 DEF Runs, AbandonRoom, OwnershipInv, TypeInv, TypeOK
<1>5. orphan' # None => orphan' = Held(c) /\ ready'[1].code = c
  BY <1>1, RunsQueue DEF AbandonRoom, OwnershipInv
<1> QED BY <1>2, <1>3, <1>4, <1>5, OneRoomStep

LEMMA RefuseEvolves == OwnershipInv /\ Refuse => AllEvolve /\ UniqueIds'
<1> SUFFICES ASSUME OwnershipInv, Refuse PROVE AllEvolve /\ UniqueIds'
  OBVIOUS
<1> USE ConstantsOK DEF Assumptions
<1>1. PICK q \in Request : Runs(q) /\ ready # <<>>
  BY DEF Refuse, OwnershipInv, TypeInv, TypeOK
<1> DEFINE c == q.code
<1>2. /\ c \in Codes /\ Held(c) \in Room
      /\ rows[c] # None => rows[c] = Snapshot(Held(c))
      /\ orphan = None => rows[c] = Snapshot(Held(c))
      /\ orphan # None => ready[1].code = c /\ orphan = Held(c)
      /\ Held(c).roomId < nextId
  BY <1>1, HeldSaved DEF OwnershipInv, Held, Request
<1> HIDE DEF c
<1>3. rows[c] # None \/ orphan # None
  BY <1>2, SnapshotNotNone
<1>4. UNCHANGED <<rows, nextId>>
  BY <1>1 DEF Refuse, Untouched, Runs
<1>5. orphan' # None => orphan' = Held(c) /\ ready'[1].code = c
  <2>1. orphan' # None => orphan' = orphan /\ OthersHold
    BY <1>1 DEF Refuse, Untouched
  <2> QED BY <1>1, <1>2, <2>1, RunsQueue DEF OwnershipInv, c
<1>6. rows'[c] # None => rows'[c].roomId = Held(c).roomId
                         /\ rows'[c].knownAccounts = Held(c).knownAccounts
  BY <1>2, <1>4, SnapshotFields
<1> QED BY <1>2, <1>3, <1>4, <1>5, <1>6, OneRoomStep

(* Between handlers: the cached room of code c or its row changes.         *)
LEMMA RowEvolves ==
  ASSUME OwnershipInv, NEW c \in Codes, ready = <<>>, UNCHANGED <<orphan, nextId>>,
         NEW row, rows' = [rows EXCEPT ![c] = row], rows[c] # None,
         row # None => row.roomId = rows[c].roomId /\ row.knownAccounts = rows[c].knownAccounts
  PROVE  AllEvolve /\ UniqueIds'
<1>1. orphan = None /\ orphan' = None
  BY QueueIdleNow DEF OwnershipInv
<1>2. rows[c] \in PersistedRoom /\ rows \in [Codes -> PersistedRoom \cup {None}]
  BY DEF OwnershipInv, TypeInv, TypeOK
<1>3. Hydrated(rows[c]) \in Room /\ rows[c] = Snapshot(Hydrated(rows[c]))
  BY <1>2, HydratedTyped, SnapshotOfHydrated
<1> DEFINE room == Hydrated(rows[c])
<1>4. room.roomId = rows[c].roomId /\ room.knownAccounts = rows[c].knownAccounts
  BY DEF Hydrated
<1> HIDE DEF room
<1>5. rows'[c] = row /\ \A k \in Codes \ {c} : rows'[k] = rows[k]
  BY <1>2
<1>6. room.roomId < nextId
  BY <1>4 DEF OwnershipInv, DurableInv, IdsAreOld
<1> QED BY <1>1, <1>3, <1>4, <1>5, <1>6, OneRoomStep DEF room

LEMMA ExpireEvolves ==
  ASSUME OwnershipInv, NEW c \in Codes, NEW r \in Seats, ExpireSeat(c, r)
  PROVE  AllEvolve /\ UniqueIds'
<1> USE ConstantsOK DEF Assumptions
<1> DEFINE freed == [cache[c] EXCEPT !.seats[r] = None]
<1>1. ready = <<>> /\ UNCHANGED <<orphan, nextId>> /\ orphan = None
  BY QueueIdleNow DEF ExpireSeat, OwnershipInv
<1>2. CASE MayExpire(c, r)
  <2>1. cache[c] \in Room /\ rows[c] = Snapshot(cache[c])
    BY <1>2 DEF MayExpire, OwnershipInv, TypeInv, TypeOK, DurableInv, WriteThrough
  <2>2. freed.roomId = cache[c].roomId /\ freed.knownAccounts = cache[c].knownAccounts
    BY <2>1 DEF Room
  <2>3. rows' = [rows EXCEPT ![c] = Snapshot(freed)]
    BY <1>2 DEF ExpireSeat, Persist
  <2> HIDE DEF freed
  <2>4. rows[c] # None /\ Snapshot(freed).roomId = rows[c].roomId
        /\ Snapshot(freed).knownAccounts = rows[c].knownAccounts
    BY <2>1, <2>2, SnapshotFields, SnapshotNotNone
  <2> QED BY <1>1, <2>3, <2>4, RowEvolves
<1>3. CASE ~ MayExpire(c, r)
  BY <1>1, <1>3, NothingOwned DEF ExpireSeat
<1> QED BY <1>2, <1>3

LEMMA TimePassesEvolves ==
  ASSUME OwnershipInv, NEW c \in Codes, TimePasses(c)
  PROVE  AllEvolve /\ UniqueIds'
<1> DEFINE row == [rows[c] EXCEPT !.idle = TRUE]
<1>1. /\ ready = <<>> /\ UNCHANGED <<orphan, nextId>> /\ rows[c] # None
      /\ rows' = [rows EXCEPT ![c] = row]
  BY DEF TimePasses
<1>2. row.roomId = rows[c].roomId /\ row.knownAccounts = rows[c].knownAccounts
  BY <1>1 DEF OwnershipInv, TypeInv, TypeOK, PersistedRoom
<1> QED BY <1>1, <1>2, RowEvolves

LEMMA SweepEvolves ==
  ASSUME OwnershipInv, NEW c \in Codes, SweepIdleRoom(c)
  PROVE  AllEvolve /\ UniqueIds'
<1>1. /\ ready = <<>> /\ UNCHANGED <<orphan, nextId>> /\ cache[c] # None
      /\ rows' = [rows EXCEPT ![c] = None]
  BY DEF SweepIdleRoom
<1>2. rows[c] # None
  BY <1>1, SnapshotNotNone DEF OwnershipInv, TypeInv, TypeOK, DurableInv, WriteThrough
<1> QED BY <1>1, <1>2, RowEvolves

(* A new roomId is opened; a room that another creation stored under the   *)
(* same code in the meantime is overwritten, and closed by it.             *)
LEMMA CreateEvolves ==
  ASSUME OwnershipInv, NEW c \in Codes, CreateRoom(c)
  PROVE  AllEvolve /\ UniqueIds'
<1> DEFINE room == NewRoom(nextId)
<1>1. ready = <<>> /\ orphan = None /\ orphan' = None
  BY QueueIdleNow DEF CreateRoom, OwnershipInv
<1>2. nextId \in Nat /\ nextId' = nextId + 1 /\ rows \in [Codes -> PersistedRoom \cup {None}]
  BY DEF CreateRoom, OwnershipInv, TypeInv, TypeOK
<1>3. room \in Room /\ room.roomId = nextId /\ room.knownAccounts = Unclaimed
  BY <1>2, NewRoomTyped DEF NewRoom, Unclaimed
<1>4. rows' = [rows EXCEPT ![c] = Snapshot(room)]
  BY DEF CreateRoom, Persist
<1> HIDE DEF room
<1>5. /\ rows'[c] = Snapshot(room) /\ rows'[c] # None /\ rows'[c].roomId = nextId
      /\ rows'[c].knownAccounts = Unclaimed
      /\ \A k \in Codes \ {c} : rows'[k] = rows[k]
  BY <1>2, <1>3, <1>4, SnapshotFields, SnapshotNotNone
<1>6. \A k \in Codes : rows[k] # None => rows[k].roomId < nextId /\ rows[k].roomId \in Nat
  BY <1>2 DEF OwnershipInv, DurableInv, IdsAreOld, PersistedRoom
<1>7. UniqueIds'
  BY <1>1, <1>2, <1>5, <1>6 DEF OwnershipInv, UniqueIds
<1>8. ASSUME NEW id \in RoomIds PROVE Evolves(Lifecycle(id), Lifecycle(id)')
  <2>0. id \in Nat
    BY <1>8 DEF RoomIds
  <2>1. CASE id = nextId
    <3>1. OnlyAt(rows', orphan', c, id, Unclaimed)
      BY <1>1, <1>2, <1>5, <1>6, <2>1 DEF OnlyAt
    <3>2. Lifecycle(id)' = [status |-> "open", owner |-> Unclaimed]
      BY <1>2, <1>5, <2>1, <3>1, LifeOfOne, LifeIsLifecycle
    <3>3. Lifecycle(id) = [status |-> "unborn", owner |-> Unclaimed]
      BY <1>2, <2>1 DEF Lifecycle
    <3> QED BY <3>2, <3>3 DEF Evolves
  <2>2. CASE id > nextId
    BY <1>2, <2>0, <2>2 DEF Lifecycle, Evolves
  <2>3. CASE id < nextId /\ rows[c] # None /\ rows[c].roomId = id
    <3>1. OnlyAt(rows, orphan, c, id, rows[c].knownAccounts)
      BY <1>1, <2>3 DEF OnlyAt, OwnershipInv, UniqueIds
    <3>2. Lifecycle(id) = [status |-> "open", owner |-> rows[c].knownAccounts]
      BY <1>2, <2>0, <2>3, <3>1, LifeOfOne, LifeIsLifecycle
    <3>3. SavedIn(rows', id) = {}
      BY <1>2, <1>5, <2>0, <2>3, <3>1 DEF SavedIn, OnlyAt
    <3>4. Lifecycle(id)' = [status |-> "closed", owner |-> Unclaimed]
      <4>1. ~ id >= nextId'
        BY <1>2, <2>0, <2>3
      <4> QED BY <1>1, <3>3, <4>1, LifeIsLifecycle DEF Life
    <3> QED BY <3>2, <3>4 DEF Evolves
  <2>4. CASE id < nextId /\ ~ (rows[c] # None /\ rows[c].roomId = id)
    <3>1. SavedIn(rows', id) = SavedIn(rows, id) /\ c \notin SavedIn(rows, id)
      BY <1>2, <1>5, <2>0, <2>4 DEF SavedIn
    <3>2. SavedIn(rows, id) # {} =>
            rows'[CHOOSE k \in SavedIn(rows, id) : TRUE] = rows[CHOOSE k \in SavedIn(rows, id) : TRUE]
      <4> SUFFICES ASSUME SavedIn(rows, id) # {}
                   PROVE  (CHOOSE k \in SavedIn(rows, id) : TRUE) \in Codes \ {c}
        BY <1>5
      <4>1. (CHOOSE k \in SavedIn(rows, id) : TRUE) \in SavedIn(rows, id)
        OBVIOUS
      <4> QED BY <3>1, <4>1 DEF SavedIn
    <3>3. ~ id >= nextId /\ ~ id >= nextId'
      BY <1>2, <2>0, <2>4
    <3>4. Lifecycle(id)' = Lifecycle(id)
      BY <1>1, <3>1, <3>2, <3>3, LifeIsLifecycle DEF Life
    <3> QED BY <3>4 DEF Evolves
  <2> QED BY <1>2, <2>0, <2>1, <2>2, <2>3, <2>4
<1> QED BY <1>7, <1>8 DEF AllEvolve

(* A restart forgets the room that handlers held while it was deleted.     *)
LEMMA RestartEvolves == OwnershipInv /\ Restart => AllEvolve /\ UniqueIds'
<1> SUFFICES ASSUME OwnershipInv, Restart PROVE AllEvolve /\ UniqueIds'
  OBVIOUS
<1>1. UNCHANGED <<rows, nextId>> /\ orphan' = None
  BY DEF Restart
<1>2. UniqueIds'
  BY <1>1 DEF OwnershipInv, UniqueIds
<1>3. AllEvolve
  <2> SUFFICES ASSUME NEW id PROVE Evolves(Lifecycle(id), Lifecycle(id)')
    BY DEF AllEvolve
  <2>1. CASE id >= nextId \/ SavedIn(rows, id) # {} \/ orphan = None \/ orphan.roomId # id
    <3>1. Lifecycle(id)' = Lifecycle(id)
      BY <1>1, <2>1, LifeIsLifecycle DEF Life
    <3> QED BY <3>1 DEF Evolves
  <2>2. CASE ~ id >= nextId /\ SavedIn(rows, id) = {} /\ orphan # None /\ orphan.roomId = id
    <3>1. /\ Lifecycle(id) = [status |-> "closing", owner |-> orphan.knownAccounts]
          /\ Lifecycle(id)' = [status |-> "closed", owner |-> Unclaimed]
      BY <1>1, <2>2, LifeIsLifecycle DEF Life
    <3> QED BY <3>1 DEF Evolves
  <2> QED BY <2>1, <2>2
<1> QED BY <1>2, <1>3

LEMMA OwnershipStep == OwnershipInv /\ [Next]_vars => AllEvolve /\ UniqueIds'
<1> SUFFICES ASSUME OwnershipInv, [Next]_vars PROVE AllEvolve /\ UniqueIds'
  OBVIOUS
<1>1. CASE UNCHANGED vars
  <2>1. UNCHANGED <<rows, orphan, nextId, ready>>
    BY <1>1 DEF vars
  <2>2. \A id : Lifecycle(id)' = Lifecycle(id)
    BY <2>1, LifeIsLifecycle
  <2> QED BY <2>1, <2>2 DEF AllEvolve, Evolves, OwnershipInv, UniqueIds
<1>2. CASE Wait
  BY <1>2, NothingOwned, QueueIdleNow DEF Wait, GetUncached, OwnershipInv
<1>3. ASSUME NEW s \in Sockets, Connect(s) \/ FinishLeave(s)
      PROVE  AllEvolve /\ UniqueIds'
  BY <1>3, NothingOwned, QueueIdleNow DEF Connect, FinishLeave, OwnershipInv
<1>4. ASSUME NEW s \in Sockets, Disconnect(s)
      PROVE  AllEvolve /\ UniqueIds'
  <2>1. orphan = None /\ UNCHANGED <<rows, nextId>>
    BY <1>4, QueueIdleNow DEF Disconnect, OwnershipInv
  <2>2. orphan' = orphan
    BY <1>4, <2>1 DEF Disconnect, Dropped, Mutate
  <2> QED BY <2>1, <2>2, NothingOwned
<1>5. ASSUME NEW c \in Codes, Peek(c) \/ HydrateRoom(c) \/ CreateCheck(c)
      PROVE  AllEvolve /\ UniqueIds'
  BY <1>5, NothingOwned, QueueIdleNow DEF Peek, HydrateRoom, CreateCheck, OwnershipInv
<1> QED
  BY <1>1, <1>2, <1>3, <1>4, <1>5, CallEvolves, AbandonEvolves, RefuseEvolves, ExpireEvolves,
     TimePassesEvolves, SweepEvolves, CreateEvolves, RestartEvolves
  DEF Next, Handle
-----------------------------------------------------------------------------
(* The refinement                                                          *)

LEMMA OwnershipInit == Init => Ownership!Init /\ UniqueIds
<1> SUFFICES ASSUME Init PROVE Ownership!Init /\ UniqueIds
  OBVIOUS
<1>1. \A id \in RoomIds : Lifecycle(id) = [status |-> "unborn", owner |-> Unclaimed]
  BY DEF Init, Lifecycle, RoomIds
<1>2. Ownership!Init
  BY <1>1 DEF Ownership!Init, Ownership!Unborn, Ownership!Unclaimed, Unclaimed
<1> QED BY <1>2 DEF Init, UniqueIds

(* Every step of the room store is one step, or none, of every room of the *)
(* abstract specification.                                                 *)
LEMMA OwnershipNext == AllEvolve => Ownership!Next
<1> SUFFICES ASSUME AllEvolve, NEW id \in RoomIds
             PROVE  \/ Ownership!RoomStep(id)
                    \/ [i \in RoomIds |-> Lifecycle(i)]'[id] = [i \in RoomIds |-> Lifecycle(i)][id]
  BY DEF Ownership!Next
<1>1. /\ [i \in RoomIds |-> Lifecycle(i)][id] = Lifecycle(id)
      /\ [i \in RoomIds |-> Lifecycle(i)]'[id] = Lifecycle(id)'
  OBVIOUS
<1>2. Evolves(Lifecycle(id), Lifecycle(id)')
  BY DEF AllEvolve
<1> QED
  BY <1>1, <1>2
  DEF Evolves, Unclaimed, Ownership!RoomStep, Ownership!Opens, Ownership!Claims,
      Ownership!Reopens, Ownership!Closes, Ownership!Unborn, Ownership!Closed,
      Ownership!Open, Ownership!Closing, Ownership!Unclaimed

LEMMA UniqueIdsHold == Spec => []UniqueIds
BY OwnershipInit, OwnershipStep, DurableInvHolds, TypeInvHolds, PTL DEF Spec, OwnershipInv

(* The room store implements SeatOwnership for every roomId: a seat's      *)
(* owner is never replaced while its room exists, and a closed room comes  *)
(* back only through a handler that held it (platform/src/rooms).          *)
THEOREM ImplementsSeatOwnership == Spec => OwnershipRefined
<1>1. Init => Ownership!Init
  BY OwnershipInit
<1>2. OwnershipInv /\ [Next]_vars => [Ownership!Next]_[id \in RoomIds |-> Lifecycle(id)]
  BY OwnershipStep, OwnershipNext
<1> QED
  BY <1>1, <1>2, UniqueIdsHold, DurableInvHolds, TypeInvHolds, PTL
  DEF Spec, OwnershipInv, OwnershipRefined, Ownership!Spec
=============================================================================
