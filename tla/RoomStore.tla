----------------------------- MODULE RoomStore -----------------------------
(***************************************************************************)
(* The room store of the platform package: one game's rooms, cached in     *)
(* memory, written through to the room repository, and shared by the       *)
(* sockets of every player (packages/platform/src/rooms).                  *)
(*                                                                         *)
(* Node runs one callback at a time, so a handler is atomic from the point *)
(* where its room is in memory to its final await.  Two awaits let other   *)
(* callbacks in and are steps of their own here: the hydration of a room   *)
(* that is not cached (getRoom), with every handler that waits for it      *)
(* resumed in arrival order, and the save inside leaveSeat, after which    *)
(* the binding is deleted.  The repository itself is applied in call order *)
(* and without failures.                                                   *)
(***************************************************************************)
EXTENDS Naturals, Sequences, FiniteSets

CONSTANTS Codes,        \* room codes, reused once a room is gone
          NumSeats,     \* the length of every room's seatOrder
          Sockets,      \* connection ids
          Accounts,     \* signed-in accounts
          AccountOf,    \* the verified account behind each socket
          Impatient,    \* connections whose client may ask for a role while it
                        \* has one or awaits one (two clicks in the lobby)
          None,         \* an absent value
          Away,         \* a seat whose player disconnected
          MaxRooms,     \* bound: rooms ever created
          MaxWaiting,   \* bound: handlers waiting for one hydration
          MaxCreating   \* bound: creations of one code in flight

Seats     == 1 .. NumSeats      \* in seatOrder
Spectator == 0
Roles     == Seats \cup {Spectator}

ASSUME NumSeatsAssumption == NumSeats \in Nat \ {0}
ASSUME AccountOfAssumption == AccountOf \in [Sockets -> Accounts]
ASSUME ImpatientAssumption == Impatient \subseteq Sockets
ASSUME BoundsAssumption ==
  MaxRooms \in Nat /\ MaxWaiting \in Nat /\ MaxCreating \in Nat

(* A LiveRoom: what a process keeps in memory.  A seat holds its socket,   *)
(* Away (disconnectedAt is set), or None.  idle says that the sweep's      *)
(* threshold for this room (idleTimeoutFor) has passed since its           *)
(* lastActivityAt.                                                         *)
Room == [roomId             : Nat,
         seats              : [Seats -> Sockets \cup {Away, None}],
         knownAccounts      : [Seats -> Accounts \cup {None}],
         recapViewedBy      : SUBSET Accounts,
         finished           : BOOLEAN,
         spectatorSocketIds : SUBSET Sockets,
         idle               : BOOLEAN]

(* A PersistedRoom: which seats are taken, but not by which socket.        *)
PersistedRoom == [roomId        : Nat,
                  seats         : SUBSET Seats,
                  knownAccounts : [Seats -> Accounts \cup {None}],
                  recapViewedBy : SUBSET Accounts,
                  finished      : BOOLEAN,
                  idle          : BOOLEAN]

Binding == [code : Codes, role : Roles]

(* A handler that asked for a room: role is Spectator where the call has   *)
(* none, sock is None for the HTTP call that abandons a room.              *)
Ops == {"join", "reconnect", "account", "leave", "act", "chat", "drop", "abandon"}
Request == [op : Ops, code : Codes, role : Roles,
            sock : Sockets \cup {None}, account : Accounts]

ASSUME NoneAssumption ==
  /\ None \notin Accounts /\ None \notin Sockets /\ Away \notin Sockets
  /\ None # Away
  /\ None \notin Room /\ None \notin PersistedRoom /\ None \notin Binding

VARIABLES
  alive,      \* connected sockets
  cache,      \* ctx.cache: code -> LiveRoom
  rows,       \* the repository: code -> PersistedRoom
  binding,    \* ctx.socketBindings
  timers,     \* ctx.graceTimers, the <<code, seat>> pairs that are running
  hydrating,  \* ctx.hydrating: codes whose row is being read
  waiting,    \* handlers awaiting each hydration, in arrival order
  ready,      \* handlers the last hydration released, not yet resumed
  orphan,     \* the room those handlers hold, if it has left the cache
  leaving,    \* sockets whose leaveSeat awaits its save
  creating,   \* createRoom calls that have found the code free
  nextId      \* the next durable roomId

vars == <<alive, cache, rows, binding, timers, hydrating, waiting, ready,
          orphan, leaving, creating, nextId>>

TypeOK ==
  /\ alive \in SUBSET Sockets
  /\ cache \in [Codes -> Room \cup {None}]
  /\ rows \in [Codes -> PersistedRoom \cup {None}]
  /\ binding \in [Sockets -> Binding \cup {None}]
  /\ timers \in SUBSET (Codes \X Seats)
  /\ hydrating \in SUBSET Codes
  /\ waiting \in [Codes -> Seq(Request)]
  /\ ready \in Seq(Request)
  /\ orphan \in Room \cup {None}
  /\ leaving \in SUBSET Sockets
  /\ creating \in [Codes -> Nat]
  /\ nextId \in Nat

Init ==
  /\ alive = {}
  /\ cache = [c \in Codes |-> None]
  /\ rows = [c \in Codes |-> None]
  /\ binding = [s \in Sockets |-> None]
  /\ timers = {}
  /\ hydrating = {}
  /\ waiting = [c \in Codes |-> <<>>]
  /\ ready = <<>>
  /\ orphan = None
  /\ leaving = {}
  /\ creating = [c \in Codes |-> 0]
  /\ nextId = 1
-----------------------------------------------------------------------------
(* Rooms and their persisted form                                          *)

NewRoom(id) ==
  [roomId             |-> id,
   seats              |-> [r \in Seats |-> None],
   knownAccounts      |-> [r \in Seats |-> None],
   recapViewedBy      |-> {},
   finished           |-> FALSE,
   spectatorSocketIds |-> {},
   idle               |-> FALSE]

(* What `persist` writes.                                                  *)
Snapshot(room) ==
  [roomId        |-> room.roomId,
   seats         |-> {r \in Seats : room.seats[r] # None},
   knownAccounts |-> room.knownAccounts,
   recapViewedBy |-> room.recapViewedBy,
   finished      |-> room.finished,
   idle          |-> room.idle]

(* Nobody is connected to a room that has just been read back.             *)
Hydrated(row) ==
  [roomId             |-> row.roomId,
   seats              |-> [r \in Seats |-> IF r \in row.seats THEN Away ELSE None],
   knownAccounts      |-> row.knownAccounts,
   recapViewedBy      |-> row.recapViewedBy,
   finished           |-> row.finished,
   spectatorSocketIds |-> {},
   idle               |-> row.idle]

Owners(room) == {room.knownAccounts[r] : r \in Seats} \ {None}

SeatsOwnedBy(room, account) == {r \in Seats : room.knownAccounts[r] = account}

(* The first seat of seatOrder that the account has ever held.             *)
IsFirstSeatOf(room, account, r) ==
  /\ r \in SeatsOwnedBy(room, account)
  /\ \A other \in SeatsOwnedBy(room, account) : r <= other

(* An account that arrives in a finished room has seen its recap.          *)
Viewed(room, account) ==
  IF room.finished THEN room.recapViewedBy \cup {account} ELSE room.recapViewedBy
-----------------------------------------------------------------------------
(* getRoom: who holds which room                                           *)

(* The room a handler running now holds for code c: the object its         *)
(* hydration gave it, even if that object has left the cache since.        *)
Held(c) == IF orphan # None THEN orphan ELSE cache[c]

(* Handlers behind the running one that hold the same object.              *)
OthersHold == Len(ready) > 1

(* The handler changes its room in place: the cached one or the orphan.    *)
Mutate(c, room) ==
  IF orphan = None
    THEN cache' = [cache EXCEPT ![c] = room] /\ UNCHANGED orphan
    ELSE orphan' = (IF OthersHold THEN room ELSE None) /\ UNCHANGED cache

(* Mutant of Persist: the recap views reach the row only with the next     *)
(* save.                                                                   *)
PersistBeforeRecap(c, room) ==
  rows' = [rows EXCEPT ![c] =
    [Snapshot(room) EXCEPT !.recapViewedBy = IF rows[c] = None THEN {} ELSE rows[c].recapViewedBy]]

Persist(c, room) == rows' = [rows EXCEPT ![c] = Snapshot(room)]

(* Mutant of StartGraceTimer: the seat waits, but nothing ends its wait.   *)
StartNoTimer(c, r) == UNCHANGED timers

StartGraceTimer(c, r) == timers' = timers \cup {<<c, r>>}

ClearGraceTimer(c, r) == timers' = timers \ {<<c, r>>}

Untouched ==
  /\ orphan' = (IF OthersHold THEN orphan ELSE None)
  /\ UNCHANGED <<cache, rows, binding, timers, leaving>>

BoundTo(s, c) == binding[s] # None /\ binding[s].code = c

Asking(s) ==
  \/ \E c \in Codes : \E i \in 1 .. Len(waiting[c]) : waiting[c][i].sock = s
  \/ s \in leaving

(* What a client sends: from the lobby it asks for a role, and once it has *)
(* one it plays, chats or leaves.                                          *)
CallFrom(q) ==
  \/ q.op = "abandon" /\ q.sock = None
  \/ /\ q.op \in {"join", "reconnect", "account"} /\ q.sock \in alive
     /\ q.sock \in Impatient \/ (binding[q.sock] = None /\ ~ Asking(q.sock))
  \/ /\ q.op \in {"leave", "act", "chat"} /\ q.sock \in alive
     /\ BoundTo(q.sock, q.code)

(* Handler q has its room: it was cached when the call came, or q is the   *)
(* next of the handlers that waited for its hydration.                     *)
Runs(q) ==
  /\ \/ ready = <<>> /\ cache[q.code] # None /\ CallFrom(q) /\ UNCHANGED ready
     \/ ready # <<>> /\ q = Head(ready) /\ ready' = Tail(ready)
  /\ UNCHANGED <<alive, hydrating, waiting, creating, nextId>>

(* getRoom on an uncached code: the first handler starts the read, the     *)
(* others share it.                                                        *)
Awaits(q) ==
  /\ cache[q.code] = None
  /\ Len(waiting[q.code]) < MaxWaiting
  /\ hydrating' = hydrating \cup {q.code}
  /\ waiting' = [waiting EXCEPT ![q.code] = Append(@, q)]

Call(op, c, r, s) ==
  [op |-> op, code |-> c, role |-> r, sock |-> s, account |-> AccountOf[s]]

HttpAbandon(c, account) ==
  [op |-> "abandon", code |-> c, role |-> Spectator, sock |-> None, account |-> account]

GetUncached(q) ==
  /\ ready = <<>>
  /\ CallFrom(q)
  /\ Awaits(q)
  /\ UNCHANGED <<alive, cache, rows, binding, timers, ready, orphan, leaving, creating, nextId>>

(* peek_room and the getRoomInfo of any viewer: a read with no effect of   *)
(* its own, which still brings the room into memory.                       *)
Peek(c) ==
  /\ ready = <<>>
  /\ cache[c] = None
  /\ c \notin hydrating
  /\ hydrating' = hydrating \cup {c}
  /\ UNCHANGED <<alive, cache, rows, binding, timers, waiting, ready, orphan, leaving, creating, nextId>>

(* Mutant of HydrationGrace: seats wait for their players without a limit. *)
NoHydrationGrace(c) == {}

HydrationGrace(c) == {c} \X rows[c].seats

(* Mutant of Answered: a missing row answers nobody.                       *)
AnsweredIfFound(c) ==
  IF rows[c] = None THEN UNCHANGED waiting ELSE waiting' = [waiting EXCEPT ![c] = <<>>]

Answered(c) == waiting' = [waiting EXCEPT ![c] = <<>>]

(* The row arrives: the room is cached, each of its taken seats starts its *)
(* reconnect grace, and the waiting handlers resume.  Without a row they   *)
(* all answer ROOM_NOT_FOUND.                                              *)
HydrateRoom(c) ==
  /\ ready = <<>>
  /\ c \in hydrating
  /\ hydrating' = hydrating \ {c}
  /\ Answered(c)
  /\ IF rows[c] = None
       THEN UNCHANGED <<cache, timers, ready>>
       ELSE /\ cache' = [cache EXCEPT ![c] = Hydrated(rows[c])]
            /\ timers' = timers \cup HydrationGrace(c)
            /\ ready' = waiting[c]
  /\ UNCHANGED <<alive, rows, binding, orphan, leaving, creating, nextId>>
-----------------------------------------------------------------------------
(* Membership                                                              *)

(* Mutant of MayTake: a lapsed seat is open to anybody.                    *)
MayTakeLapsed(room, r, account) == room.seats[r] = None

(* A vacant seat is open to its owner, or to anybody while it has none.    *)
MayTake(room, r, account) ==
  room.seats[r] = None /\ room.knownAccounts[r] \in {None, account}

(* Mutant of TakeSeat: the claim is not recorded.                          *)
TakeSeatUnrecorded(room, r, s, account) ==
  [room EXCEPT !.seats[r] = s, !.recapViewedBy = Viewed(room, account), !.idle = FALSE]

(* A socket takes a vacant seat: joinRoom, or the fresh rejoin of          *)
(* reconnectByAccount.                                                     *)
TakeSeat(room, r, s, account) ==
  [room EXCEPT !.seats[r] = s,
               !.knownAccounts[r] = account,
               !.recapViewedBy = Viewed(room, account),
               !.idle = FALSE]

(* Mutant of TakeOver: the token carries the ownership with it.            *)
TakeOverReassigning(room, r, s, account) ==
  [room EXCEPT !.seats[r] = s, !.knownAccounts[r] = account,
               !.recapViewedBy = Viewed(room, account), !.idle = FALSE]

(* A socket takes over a seat that has a live record; an existing owner is *)
(* never replaced.                                                         *)
TakeOver(room, r, s, account) ==
  [room EXCEPT !.seats[r] = s,
               !.knownAccounts[r] = IF @ = None THEN account ELSE @,
               !.recapViewedBy = Viewed(room, account),
               !.idle = FALSE]

Bind(s, c, r) == binding' = [binding EXCEPT ![s] = [code |-> c, role |-> r]]

JoinSpectator(s, c) ==
  LET room == Held(c)
  IN  /\ Runs(Call("join", c, Spectator, s))
      /\ Mutate(c, [room EXCEPT !.spectatorSocketIds = @ \cup {s}])
      /\ Bind(s, c, Spectator)
      /\ UNCHANGED <<rows, timers, leaving>>

JoinSeat(s, c, r) ==
  LET room == Held(c)
      seated == TakeSeat(room, r, s, AccountOf[s])
  IN  /\ Runs(Call("join", c, r, s))
      /\ MayTake(room, r, AccountOf[s])
      /\ Mutate(c, seated)
      /\ Persist(c, seated)
      /\ Bind(s, c, r)
      /\ UNCHANGED <<timers, leaving>>

(* The seat's token opens it to whoever presents it: it lives in browser   *)
(* storage and in e-mailed links, not with an account.                     *)
ReconnectRoom(s, c, r) ==
  LET room == Held(c)
      seated == TakeOver(room, r, s, AccountOf[s])
  IN  /\ Runs(Call("reconnect", c, r, s))
      /\ room.seats[r] # None
      /\ ClearGraceTimer(c, r)
      /\ Mutate(c, seated)
      /\ Persist(c, seated)
      /\ Bind(s, c, r)
      /\ UNCHANGED leaving

ReconnectByAccount(s, c, r) ==
  LET room == Held(c)
      account == AccountOf[s]
  IN  /\ Runs(Call("account", c, Spectator, s))
      /\ IsFirstSeatOf(room, account, r)
      /\ IF room.seats[r] # None
           THEN /\ ClearGraceTimer(c, r)
                /\ Mutate(c, TakeOver(room, r, s, account))
                /\ Persist(c, TakeOver(room, r, s, account))
           ELSE /\ UNCHANGED timers
                /\ Mutate(c, TakeSeat(room, r, s, account))
                /\ Persist(c, TakeSeat(room, r, s, account))
      /\ Bind(s, c, r)
      /\ UNCHANGED leaving

LeaveAsSpectator(s, c) ==
  LET room == Held(c)
  IN  /\ Runs(Call("leave", c, Spectator, s))
      /\ BoundTo(s, c) /\ binding[s].role = Spectator
      /\ Mutate(c, [room EXCEPT !.spectatorSocketIds = @ \ {s}])
      /\ binding' = [binding EXCEPT ![s] = None]
      /\ UNCHANGED <<rows, timers, leaving>>

(* The binding outlives the seat until the save is over (FinishLeave).     *)
LeaveSeat(s, c) ==
  LET r == binding[s].role
      freed == [Held(c) EXCEPT !.seats[r] = None]
  IN  /\ Runs(Call("leave", c, Spectator, s))
      /\ BoundTo(s, c) /\ binding[s].role # Spectator
      /\ ClearGraceTimer(c, r)
      /\ Mutate(c, freed)
      /\ Persist(c, freed)
      /\ leaving' = leaving \cup {s}
      /\ UNCHANGED binding

(* Two calls of one socket that overlap here end as one: the binding they  *)
(* delete is the same.                                                     *)
FinishLeave(s) ==
  /\ ready = <<>>
  /\ s \in leaving
  /\ leaving' = leaving \ {s}
  /\ binding' = [binding EXCEPT ![s] = None]
  /\ UNCHANGED <<alive, cache, rows, timers, hydrating, waiting, ready, orphan, creating, nextId>>

(* handleDisconnect once it has the room: only a seat that this socket     *)
(* still holds becomes Away and starts its grace.                          *)
Dropped(c, r, s) ==
  LET room == Held(c)
  IN  IF r = Spectator
        THEN /\ Mutate(c, [room EXCEPT !.spectatorSocketIds = @ \ {s}])
             /\ UNCHANGED timers
        ELSE IF room.seats[r] = s
          THEN /\ Mutate(c, [room EXCEPT !.seats[r] = Away])
               /\ StartGraceTimer(c, r)
          ELSE Mutate(c, room) /\ UNCHANGED timers

Disconnect(s) ==
  LET b == binding[s]
      q == Call("drop", b.code, b.role, s)
  IN  /\ ready = <<>>
      /\ s \in alive
      /\ alive' = alive \ {s}
      /\ binding' = [binding EXCEPT ![s] = None]
      /\ \/ /\ b = None
            /\ UNCHANGED <<cache, orphan, timers, hydrating, waiting>>
         \/ /\ b # None /\ cache[b.code] # None
            /\ Dropped(b.code, b.role, s)
            /\ UNCHANGED <<hydrating, waiting>>
         \/ /\ b # None /\ Awaits(q)
            /\ UNCHANGED <<cache, orphan, timers>>
      /\ UNCHANGED <<rows, ready, leaving, creating, nextId>>

(* A disconnect that had to wait for the room.                             *)
DropResumed(s, c, r) ==
  /\ ready # <<>>
  /\ Runs(Call("drop", c, r, s))
  /\ Dropped(c, r, s)
  /\ UNCHANGED <<rows, binding, leaving>>

(* A connection opens under a new id: one that nothing refers to.          *)
Connect(s) ==
  /\ ready = <<>>
  /\ s \notin alive /\ s \notin leaving /\ binding[s] = None
  /\ \A c \in Codes :
        /\ cache[c] # None => /\ s \notin cache[c].spectatorSocketIds
                              /\ \A r \in Seats : cache[c].seats[r] # s
        /\ \A i \in 1 .. Len(waiting[c]) : waiting[c][i].sock # s
  /\ alive' = alive \cup {s}
  /\ UNCHANGED <<cache, rows, binding, timers, hydrating, waiting, ready, orphan, leaving, creating, nextId>>
-----------------------------------------------------------------------------
(* Play                                                                    *)

(* notifyGameEnd: whoever owns a seat with a live socket has just watched  *)
(* the game end.                                                           *)
OwnersWatching(room) ==
  {room.knownAccounts[r] : r \in {x \in Seats : room.seats[x] \in Sockets}} \ {None}

Played(room, over) ==
  [room EXCEPT !.finished = over,
               !.recapViewedBy = IF over THEN @ \cup OwnersWatching(room) ELSE @,
               !.idle = FALSE]

(* The game module accepts a move while the game is on; the move may end   *)
(* the game.                                                               *)
ApplyAction(s, c, over) ==
  LET room == Held(c)
  IN  /\ Runs(Call("act", c, Spectator, s))
      /\ BoundTo(s, c) /\ binding[s].role # Spectator
      /\ ~ room.finished
      /\ Mutate(c, Played(room, over))
      /\ Persist(c, Played(room, over))
      /\ UNCHANGED <<binding, timers, leaving>>

SendChatMessage(s, c) ==
  LET spoken == [Held(c) EXCEPT !.idle = FALSE]
  IN  /\ Runs(Call("chat", c, Spectator, s))
      /\ BoundTo(s, c)
      /\ Mutate(c, spoken)
      /\ Persist(c, spoken)
      /\ UNCHANGED <<binding, timers, leaving>>
-----------------------------------------------------------------------------
(* The end of seats and rooms                                              *)

(* Mutant of MayExpire: a seat that was reconnected expires all the same.  *)
MayExpireTaken(c, r) == cache[c] # None /\ cache[c].seats[r] # None

MayExpire(c, r) == cache[c] # None /\ cache[c].seats[r] = Away

(* The grace timer fires.  It never hydrates, and a seat that is not Away  *)
(* was reconnected in the meantime.                                        *)
ExpireSeat(c, r) ==
  LET freed == [cache[c] EXCEPT !.seats[r] = None]
  IN  /\ ready = <<>>
      /\ <<c, r>> \in timers
      /\ timers' = timers \ {<<c, r>>}
      /\ IF MayExpire(c, r)
           THEN cache' = [cache EXCEPT ![c] = freed] /\ Persist(c, freed)
           ELSE UNCHANGED <<cache, rows>>
      /\ UNCHANGED <<alive, binding, hydrating, waiting, ready, orphan, leaving, creating, nextId>>

IsAbandonable(room, account) ==
  \A r \in Seats : room.knownAccounts[r] \in {None, account}

MayAbandon(room, account) ==
  SeatsOwnedBy(room, account) # {} /\ IsAbandonable(room, account)

AbandonRoom(c, account) ==
  LET room == Held(c)
  IN  /\ Runs(HttpAbandon(c, account))
      /\ MayAbandon(room, account)
      /\ timers' = timers \ ({c} \X Seats)
      /\ cache' = [cache EXCEPT ![c] = None]
      /\ orphan' = (IF OthersHold THEN room ELSE None)
      /\ rows' = [rows EXCEPT ![c] = None]
      /\ UNCHANGED <<binding, leaving>>

(* Mutant of HasEverBeenClaimed: only the live records count.              *)
HasTakenSeat(room) == \E r \in Seats : room.seats[r] # None

HasEverBeenClaimed(room) == Owners(room) # {}

IsPermanentlyExemptFromSweep(room) == ~ room.finished /\ HasEverBeenClaimed(room)

(* Mutant of RecapFullyViewed: one viewer is enough.                       *)
RecapViewedOnce(room) == room.finished => Owners(room) \cap room.recapViewedBy # {}

RecapFullyViewed(room) == room.finished => Owners(room) \subseteq room.recapViewedBy

Sweepable(room) ==
  /\ room.spectatorSocketIds = {}
  /\ ~ IsPermanentlyExemptFromSweep(room)
  /\ room.idle
  /\ RecapFullyViewed(room)

SweepIdleRoom(c) ==
  /\ ready = <<>>
  /\ cache[c] # None
  /\ Sweepable(cache[c])
  /\ cache' = [cache EXCEPT ![c] = None]
  /\ rows' = [rows EXCEPT ![c] = None]
  /\ UNCHANGED <<alive, binding, timers, hydrating, waiting, ready, orphan, leaving, creating, nextId>>
-----------------------------------------------------------------------------
(* Creation, time and restarts                                             *)

(* createRoom finds the code free in the cache and in the repository ...   *)
CreateCheck(c) ==
  /\ ready = <<>>
  /\ cache[c] = None /\ rows[c] = None
  /\ creating[c] < MaxCreating /\ nextId <= MaxRooms
  /\ creating' = [creating EXCEPT ![c] = @ + 1]
  /\ UNCHANGED <<alive, cache, rows, binding, timers, hydrating, waiting, ready, orphan, leaving, nextId>>

(* ... and stores the room when that answer has come back.                 *)
CreateRoom(c) ==
  /\ ready = <<>>
  /\ creating[c] > 0
  /\ nextId <= MaxRooms
  /\ creating' = [creating EXCEPT ![c] = @ - 1]
  /\ cache' = [cache EXCEPT ![c] = NewRoom(nextId)]
  /\ Persist(c, NewRoom(nextId))
  /\ nextId' = nextId + 1
  /\ UNCHANGED <<alive, binding, timers, hydrating, waiting, ready, orphan, leaving>>

(* A room nobody has touched passes its threshold.  Time is not counted    *)
(* while the sweep is barred from the room anyway: every step that lifts   *)
(* the bar is an activity, which starts the count again.                   *)
TimePasses(c) ==
  /\ ready = <<>>
  /\ rows[c] # None
  /\ LET room == IF cache[c] = None THEN Hydrated(rows[c]) ELSE cache[c]
     IN  ~ IsPermanentlyExemptFromSweep(room) /\ RecapFullyViewed(room)
  /\ rows' = [rows EXCEPT ![c].idle = TRUE]
  /\ cache' = [cache EXCEPT ![c] = IF @ = None THEN None ELSE [@ EXCEPT !.idle = TRUE]]
  /\ UNCHANGED <<alive, binding, timers, hydrating, waiting, ready, orphan, leaving, creating, nextId>>

(* The machine stops and a new process starts: only the rows are left.     *)
Restart ==
  /\ alive' = {}
  /\ cache' = [c \in Codes |-> None]
  /\ binding' = [s \in Sockets |-> None]
  /\ timers' = {}
  /\ hydrating' = {}
  /\ waiting' = [c \in Codes |-> <<>>]
  /\ ready' = <<>>
  /\ orphan' = None
  /\ leaving' = {}
  /\ creating' = [c \in Codes |-> 0]
  /\ UNCHANGED <<rows, nextId>>
-----------------------------------------------------------------------------
(* The specification                                                       *)

(* A resumed handler that answers with an error.  A token or a move may be *)
(* wrong for reasons the model leaves out.                                 *)
Refuses(q) ==
  LET room == Held(q.code)
  IN  \/ q.op = "join" /\ q.role # Spectator /\ ~ MayTake(room, q.role, q.account)
      \/ q.op \in {"reconnect", "act"}
      \/ q.op = "account" /\ SeatsOwnedBy(room, q.account) = {}
      \/ q.op \in {"leave", "chat"} /\ ~ BoundTo(q.sock, q.code)
      \/ q.op = "abandon" /\ ~ MayAbandon(room, q.account)

Refuse ==
  /\ ready # <<>>
  /\ Runs(Head(ready))
  /\ Refuses(Head(ready))
  /\ Untouched

SocketCall(s, c) ==
  \/ JoinSpectator(s, c)
  \/ \E r \in Seats : \/ JoinSeat(s, c, r)
                      \/ ReconnectRoom(s, c, r)
                      \/ ReconnectByAccount(s, c, r)
  \/ \E r \in Roles : DropResumed(s, c, r)
  \/ LeaveAsSpectator(s, c)
  \/ LeaveSeat(s, c)
  \/ \E over \in BOOLEAN : ApplyAction(s, c, over)
  \/ SendChatMessage(s, c)

Handle ==
  \/ \E s \in Sockets, c \in Codes : SocketCall(s, c)
  \/ \E c \in Codes, account \in Accounts : AbandonRoom(c, account)
  \/ Refuse

Calls(s, c) ==
  {Call(op, c, Spectator, s) : op \in {"join", "account", "leave", "act", "chat"}}
    \cup {Call(op, c, r, s) : op \in {"join", "reconnect"}, r \in Seats}

Wait ==
  \/ \E s \in Sockets, c \in Codes : \E q \in Calls(s, c) : GetUncached(q)
  \/ \E c \in Codes, account \in Accounts : GetUncached(HttpAbandon(c, account))

Next ==
  \/ Handle
  \/ Wait
  \/ \E s \in Sockets : Connect(s) \/ Disconnect(s) \/ FinishLeave(s)
  \/ \E c \in Codes : \/ Peek(c) \/ HydrateRoom(c) \/ SweepIdleRoom(c)
                      \/ CreateCheck(c) \/ CreateRoom(c) \/ TimePasses(c)
  \/ \E c \in Codes, r \in Seats : ExpireSeat(c, r)
  \/ Restart

(* Node's event loop serves every released handler, every answer of the    *)
(* repository and every due timer; players, time and restarts are free.    *)
Fairness ==
  /\ WF_vars(ready # <<>> /\ Handle)
  /\ \A c \in Codes : SF_vars(HydrateRoom(c))
  /\ \A c \in Codes, r \in Seats : SF_vars(ExpireSeat(c, r))
  /\ \A s \in Sockets : SF_vars(FinishLeave(s))

Spec == Init /\ [][Next]_vars
FairSpec == Spec /\ Fairness
-----------------------------------------------------------------------------
(* Properties                                                              *)

(* Write-through: between any two callbacks, what the repository would     *)
(* give back after a restart is what memory holds, for every cached room.  *)
(* A handler that mutates after its persist (see the comment in            *)
(* applyAction on notifyGameEnd) would break it.                           *)
WriteThrough ==
  \A c \in Codes : cache[c] # None => rows[c] = Snapshot(cache[c])

(* A seat waiting for its player has a grace timer: otherwise it would be  *)
(* refused to others as SEAT_RECONNECTING for ever.  Disconnects start the *)
(* timer, hydration restarts it, and every clearGraceTimer must come with  *)
(* the end of the Away state or of the room.                               *)
AwaySeatHasTimer ==
  \A c \in Codes, r \in Seats :
    cache[c] # None /\ cache[c].seats[r] = Away => <<c, r>> \in timers

(* A taken seat has an owner, in memory and in the repository: what the    *)
(* sweep relies on when it looks at claims and not at seats.               *)
TakenSeatsAreOwned ==
  \A c \in Codes, r \in Seats :
    /\ cache[c] # None /\ cache[c].seats[r] # None => cache[c].knownAccounts[r] # None
    /\ rows[c] # None /\ r \in rows[c].seats => rows[c].knownAccounts[r] # None

(* A resumed handler always has a room to work on, even when a handler     *)
(* resumed before it deleted that room from the cache.                     *)
ReadyHandlersHoldARoom ==
  ready # <<>> => Held(Head(ready).code) # None

(* The facts the repository types mark "never cleared" (owners, recap      *)
(* views, the end of the game) survive everything that can happen to a     *)
(* room: takeovers, expiry, restarts, sweeps, and late writers.            *)
DurableFactsKept ==
  [][\A c \in Codes :
       rows[c] # None /\ rows'[c] # None /\ rows'[c].roomId = rows[c].roomId =>
         /\ \A r \in Seats : rows[c].knownAccounts[r] \in {None, rows'[c].knownAccounts[r]}
         /\ rows[c].recapViewedBy \subseteq rows'[c].recapViewedBy
         /\ rows[c].finished => rows'[c].finished]_vars

(* A room that two accounts have joined is deleted only when it is         *)
(* finished and both have seen the recap: the sweep's promise ("stays on   *)
(* the list until viewed, full stop") and abandonRoom's re-check together, *)
(* whatever was read, cached or abandoned in between.                      *)
SharedRoomKeptUntilViewed ==
  [][\A c \in Codes :
       rows[c] # None /\ Cardinality(Owners(rows[c])) > 1 /\ rows'[c] = None =>
         rows[c].finished /\ Owners(rows[c]) \subseteq rows[c].recapViewedBy]_vars

(* A claimed room that is not finished is never swept: if it disappears,   *)
(* no timer and no passing of time did it, but its only owner.             *)
UnfinishedRoomOutlivesItsSeats ==
  [][\A c \in Codes :
       rows[c] # None /\ ~ rows[c].finished /\ Owners(rows[c]) # {} /\ rows'[c] = None =>
         \E account \in Accounts : AbandonRoom(c, account)]_vars

(* Only an explicit leave frees a seat that a connected socket holds: a    *)
(* grace timer that outlived a reconnect, or was left over from an earlier *)
(* room under the same code, must not.                                     *)
ConnectedSeatFreedOnlyByLeave ==
  [][\A c \in Codes, r \in Seats :
       /\ cache[c] # None /\ cache[c].seats[r] \in alive
       /\ cache'[c] # None /\ cache'[c].roomId = cache[c].roomId
       /\ cache'[c].seats[r] = None
       => \E s \in Sockets : BoundTo(s, c) /\ binding[s].role = r /\ s \in leaving']_vars

(* Ownership as SeatOwnership promises it, for every roomId ever created:  *)
(* the owners are those of the row, or of the room that handlers still     *)
(* hold while it is being deleted.                                         *)
RoomIds == 1 .. MaxRooms

SavedAs(id) == {c \in Codes : rows[c] # None /\ rows[c].roomId = id}

Unclaimed == [r \in Seats |-> None]

Lifecycle(id) ==
  IF id >= nextId THEN [status |-> "unborn", owner |-> Unclaimed]
  ELSE IF SavedAs(id) # {}
    THEN [status |-> "open", owner |-> rows[CHOOSE c \in SavedAs(id) : TRUE].knownAccounts]
  ELSE IF orphan # None /\ orphan.roomId = id
    THEN [status |-> "closing", owner |-> orphan.knownAccounts]
  ELSE [status |-> "closed", owner |-> Unclaimed]

Ownership == INSTANCE SeatOwnership WITH rooms <- [id \in RoomIds |-> Lifecycle(id)]

OwnershipRefined == Ownership!Spec

(* A seat whose player disconnected does not stay reserved for ever: the   *)
(* player comes back, or the seat is freed, or the room ends.              *)
AwaySeatResolved ==
  \A c \in Codes, r \in Seats :
    (cache[c] # None /\ cache[c].seats[r] = Away)
      ~> (cache[c] = None \/ cache[c].seats[r] # Away)

(* Every handler that waited for a room is answered, or the process it was *)
(* waiting in is gone.                                                     *)
WaitersAnswered ==
  /\ \A c \in Codes : (waiting[c] # <<>>) ~> (waiting[c] = <<>>)
  /\ (ready # <<>>) ~> (ready = <<>>)
=============================================================================
