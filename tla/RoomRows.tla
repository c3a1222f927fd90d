------------------------------ MODULE RoomRows ------------------------------
(***************************************************************************)
(* The row of one room code in the database, and the queries by which the  *)
(* process that holds the room in memory reads, writes and deletes it      *)
(* (packages/platform/src/rooms/roomRepository.ts, db/client.ts).          *)
(*                                                                         *)
(* RoomStore takes the repository to be applied in call order and without  *)
(* failures.  Here queries go to a pool of connections, so those that are  *)
(* in flight together are served in any order, a query that fails is only  *)
(* logged, and the process may end at any time.  What happens to the room  *)
(* is left out: each change of it is one more version.  A query is served  *)
(* and answered in one step.  An operator's scripts (packages/server/      *)
(* scripts) delete the row, or mark it as ended, behind the process's back. *)
(***************************************************************************)
EXTENDS Naturals, Sequences, SequencesExt

CONSTANTS PoolSize,    \* connections (max of getDb)
          None,        \* no room, no row
          MaxRooms,    \* bound: rooms created under the code
          MaxVersion,  \* bound: changes of one room
          MaxCalls,    \* bound: queries in flight
          MaxFaults,   \* bound: queries that fail
          MaxRestarts, \* bound: ends of the process
          MaxScripts   \* bound: scripts that are run

ASSUME PoolAssumption == PoolSize \in Nat \ {0}
ASSUME BoundsAssumption ==
  /\ MaxRooms \in Nat /\ MaxVersion \in Nat /\ MaxCalls \in Nat
  /\ MaxFaults \in Nat /\ MaxRestarts \in Nat /\ MaxScripts \in Nat

(* ended: by a script.                                                     *)
Snapshot == [id : 1 .. MaxRooms, version : 0 .. MaxVersion, ended : BOOLEAN]

ASSUME NoneAssumption == None \notin Snapshot

(* A query.  "hydrate" and "check" are the reads of getRoom and of         *)
(* createRoom; only a save carries a snapshot.                             *)
Kinds == {"hydrate", "check", "save", "delete"}
Call  == [kind : Kinds, room : Snapshot \cup {None}]

(* Why the row may not be what the process last meant it to be: its last   *)
(* write failed, or was served before an earlier one, or the room in       *)
(* memory was read while a write was on its way, or a script was there.    *)
Excuses == {"failed", "overtook", "read early", "script"}

VARIABLES
  cache,    \* the room in memory
  row,      \* the row of the code
  calls,    \* queries in flight, in the order they were made
  nextId,   \* the next room's durable id
  meant,    \* what the last write was to leave
  excuses,  \* what has happened since to excuse the row
  dropped,  \* ids of rooms that were swept, abandoned or deleted by a script
  clashed,  \* two rooms have met under the code: a creation took a failed read
            \* for a free code, or it and a hydration overlapped and one replaced
            \* the other's room in memory, or a script wrote a room back over
            \* its successor
  faults, restarts, \* failures and restarts so far
  held,     \* the row as the script that marks it as ended has read it
  scripts   \* scripts so far

operator == <<held, scripts>>
vars     == <<cache, row, calls, nextId, meant, excuses, dropped, clashed, faults,
              restarts, operator>>

TypeOK ==
  /\ cache \in Snapshot \cup {None}
  /\ row \in Snapshot \cup {None}
  /\ calls \in Seq(Call) /\ Len(calls) <= MaxCalls
  /\ nextId \in 1 .. MaxRooms + 1
  /\ meant \in Snapshot \cup {None}
  /\ excuses \subseteq Excuses
  /\ dropped \subseteq 1 .. MaxRooms
  /\ clashed \in BOOLEAN
  /\ faults \in 0 .. MaxFaults /\ restarts \in 0 .. MaxRestarts
  /\ held \in Snapshot \cup {None} /\ scripts \in 0 .. MaxScripts

Init ==
  /\ cache = None /\ row = None
  /\ calls = <<>>
  /\ nextId = 1
  /\ meant = None /\ excuses = {}
  /\ dropped = {} /\ clashed = FALSE
  /\ faults = 0 /\ restarts = 0
  /\ held = None /\ scripts = 0

IsWrite(call) == call.kind \in {"save", "delete"}

WritesIn(s) == \E i \in DOMAIN s : IsWrite(s[i])

(* A room that was neither swept, abandoned nor deleted by a script.       *)
IsPlayed(room) == room # None /\ room.id \notin dropped

(* What is in memory is replaced by `room`.                                *)
Replace(room) ==
  /\ cache' = room
  /\ clashed' = (clashed \/ (IsPlayed(cache) /\ cache.id # room.id))

Pending(kind) == \E i \in DOMAIN calls : calls[i].kind = kind

(* The calls in flight once `rest` is, with a write added to them.         *)
Write(kind, room, rest) ==
  /\ calls' = Append(rest, [kind |-> kind, room |-> room])
  /\ meant' = room
  /\ excuses' = {}
-----------------------------------------------------------------------------
(* The process                                                             *)

(* getRoom, where the room is not in memory and nobody is reading it.      *)
GetRoom ==
  /\ cache = None /\ ~Pending("hydrate") /\ Len(calls) < MaxCalls
  /\ calls' = Append(calls, [kind |-> "hydrate", room |-> None])
  /\ UNCHANGED <<cache, row, nextId, meant, excuses, dropped, clashed, faults, restarts, operator>>

(* createRoom draws this code.  Drawing it twice at once is RoomStore's.   *)
CheckCode ==
  /\ cache = None /\ ~Pending("check") /\ Len(calls) < MaxCalls
  /\ nextId <= MaxRooms
  /\ calls' = Append(calls, [kind |-> "check", room |-> None])
  /\ UNCHANGED <<cache, row, nextId, meant, excuses, dropped, clashed, faults, restarts, operator>>

(* Nobody has the code before createRoom has saved the room.               *)
Announced ==
  \A i \in DOMAIN calls :
    ~(calls[i].kind = "save" /\ calls[i].room.id = cache.id /\ calls[i].room.version = 0)

(* A handler changes the room and saves it.                                *)
ChangeRoom ==
  /\ cache # None /\ Announced /\ cache.version < MaxVersion /\ Len(calls) < MaxCalls
  /\ LET changed == [cache EXCEPT !.version = @ + 1] IN
     /\ cache' = changed
     /\ Write("save", changed, calls)
  /\ UNCHANGED <<row, nextId, dropped, clashed, faults, restarts, operator>>

(* The sweep or an abandonment.                                            *)
DropRoom ==
  /\ cache # None /\ Announced /\ Len(calls) < MaxCalls
  /\ cache' = None
  /\ Write("delete", None, calls)
  /\ dropped' = dropped \cup {cache.id}
  /\ UNCHANGED <<row, nextId, clashed, faults, restarts, operator>>

(* Queries that were not served by now never are.                          *)
Restart ==
  /\ restarts < MaxRestarts
  /\ restarts' = restarts + 1
  /\ cache' = None /\ calls' = <<>>
  /\ meant' = row /\ excuses' = {}
  /\ UNCHANGED <<row, nextId, dropped, clashed, faults, operator>>
-----------------------------------------------------------------------------
(* The database                                                            *)

OnAConnection(i) == i \in DOMAIN calls /\ i <= PoolSize

Fails == faults < MaxFaults /\ faults' = faults + 1

(* What becomes of the excuses when the i-th query, a write, is done with: *)
(* only the last write's matter.                                           *)
Excused(i, failed) ==
  IF WritesIn(SubSeq(calls, i + 1, Len(calls))) THEN excuses
  ELSE excuses \cup (IF failed THEN {"failed"} ELSE {})
               \cup (IF WritesIn(SubSeq(calls, 1, i - 1)) THEN {"overtook"} ELSE {})

(* Mutant of Upsert: INSERT ... ON CONFLICT DO NOTHING.                    *)
InsertOnly(room) == IF row = None THEN room ELSE row

Upsert(room) == room

Written(i) == IF calls[i].kind = "save" THEN Upsert(calls[i].room) ELSE None

ServeWrite(i) ==
  /\ OnAConnection(i) /\ IsWrite(calls[i])
  /\ row' = Written(i)
  /\ excuses' = Excused(i, FALSE)
  /\ calls' = RemoveAt(calls, i)
  /\ UNCHANGED <<cache, nextId, meant, dropped, clashed, faults, restarts, operator>>

(* The query fails, or only its answer is lost.                            *)
LoseWrite(i) ==
  /\ OnAConnection(i) /\ IsWrite(calls[i])
  /\ Fails
  /\ row' \in {row, Written(i)}
  /\ excuses' = Excused(i, TRUE)
  /\ calls' = RemoveAt(calls, i)
  /\ UNCHANGED <<cache, nextId, meant, dropped, clashed, restarts, operator>>

(* hydrateRoom puts what it has read into the cache.                       *)
ServeHydrate(i) ==
  /\ OnAConnection(i) /\ calls[i].kind = "hydrate"
  /\ calls' = RemoveAt(calls, i)
  /\ IF row = None
     THEN UNCHANGED <<cache, meant, excuses, clashed>>
     ELSE /\ Replace(row)
          /\ UNCHANGED meant
          /\ excuses' = excuses \cup
               (IF WritesIn(calls) \/ row # meant THEN {"read early"} ELSE {})
  /\ UNCHANGED <<row, nextId, dropped, faults, restarts, operator>>

(* Mutant of Free: a code is drawn without looking.                        *)
FreeUnchecked == TRUE

Free == row = None

NewRoom == [id |-> nextId, version |-> 0, ended |-> FALSE]

(* A code that is free is the new room's; another is drawn otherwise.      *)
TakeCode(i) ==
  /\ nextId' = nextId + 1
  /\ Write("save", NewRoom, RemoveAt(calls, i))

ServeCheck(i) ==
  /\ OnAConnection(i) /\ calls[i].kind = "check"
  /\ \/ Free /\ TakeCode(i) /\ Replace(NewRoom)
     \/ /\ ~Free
        /\ calls' = RemoveAt(calls, i)
        /\ UNCHANGED <<cache, nextId, meant, excuses, clashed>>
  /\ UNCHANGED <<row, dropped, faults, restarts, operator>>

(* A read that fails finds no row.                                         *)
LoseHydrate(i) ==
  /\ OnAConnection(i) /\ calls[i].kind = "hydrate"
  /\ Fails
  /\ calls' = RemoveAt(calls, i)
  /\ UNCHANGED <<cache, row, nextId, meant, excuses, dropped, clashed, restarts, operator>>

LoseCheck(i) ==
  /\ OnAConnection(i) /\ calls[i].kind = "check"
  /\ Fails
  /\ TakeCode(i)
  /\ cache' = NewRoom /\ clashed' = TRUE
  /\ UNCHANGED <<row, dropped, restarts, operator>>
-----------------------------------------------------------------------------
(* The operator's scripts                                                  *)

(* A script leaves the row as it is not meant to be, unless the last write *)
(* is still on its way.                                                    *)
ExcusedByScript ==
  IF WritesIn(calls) /\ excuses = {} THEN {} ELSE excuses \cup {"script"}

(* admin-delete-room deletes the row; the room in memory stays.            *)
AdminDeleteRoom ==
  /\ row # None
  /\ scripts < MaxScripts /\ scripts' = scripts + 1
  /\ row' = None
  /\ dropped' = dropped \cup {row.id}
  /\ excuses' = ExcusedByScript
  /\ UNCHANGED <<cache, calls, nextId, meant, clashed, faults, restarts, held>>

(* admin-finish-room reads the row, and writes it back with a winner if it *)
(* is still there: what was saved in between is undone.                    *)
AdminReadRoom ==
  /\ row # None /\ held = None
  /\ scripts < MaxScripts /\ scripts' = scripts + 1
  /\ held' = row
  /\ UNCHANGED <<cache, row, calls, nextId, meant, excuses, dropped, clashed, faults, restarts>>

AdminFinishRoom ==
  /\ held # None
  /\ row' = IF row = None THEN None ELSE [held EXCEPT !.ended = TRUE]
  /\ clashed' = (clashed \/ (row # None /\ row.id # held.id))
  /\ held' = None
  /\ excuses' = ExcusedByScript
  /\ UNCHANGED <<cache, calls, nextId, meant, dropped, faults, restarts, scripts>>
-----------------------------------------------------------------------------
Serve(i) == ServeWrite(i) \/ ServeHydrate(i) \/ ServeCheck(i)

Lose(i) == LoseWrite(i) \/ LoseHydrate(i) \/ LoseCheck(i)

Next ==
  \/ GetRoom \/ CheckCode \/ ChangeRoom \/ DropRoom \/ Restart
  \/ \E i \in DOMAIN calls : Serve(i) \/ Lose(i)
  \/ AdminDeleteRoom \/ AdminReadRoom \/ AdminFinishRoom

Spec == Init /\ [][Next]_vars
-----------------------------------------------------------------------------
(* Properties                                                              *)

(* Once no write is on its way, the row is what the process last meant it  *)
(* to be, and the room in memory if there is one, whatever failed before,  *)
(* unless that last write failed, or overtook an earlier one, or the room  *)
(* was read while a write was on its way, or a script came after it: the   *)
(* next write of the process undoes what a script did to the row.          *)
RowCatchesUp ==
  ~WritesIn(calls) /\ excuses = {} =>
    /\ row = meant
    /\ cache # None => row = cache

(* A row passes from one room to another only if one of the two was swept, *)
(* abandoned or deleted by an operator, or the two have clashed: a late    *)
(* save may bring a dropped room back over its successor, but a code that  *)
(* is reused while nothing fails or overlaps costs no room that is still   *)
(* played.                                                                 *)
NoRoomOverwritten ==
  [][(row # None /\ row' # None /\ row'.id # row.id) =>
        row.id \in dropped \/ row'.id \in dropped \/ clashed']_vars
=============================================================================
