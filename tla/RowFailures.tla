---------------------------- MODULE RowFailures ----------------------------
(***************************************************************************)
(* RoomRows with a record of the saves that failed and of those that a     *)
(* later save has made good: what roomRepository.ts says of its failures   *)
(* (158-160) is about the two together.                                    *)
(***************************************************************************)
EXTENDS RoomRows

VARIABLES
  unsaved,  \* snapshots whose save failed and left the row as it was
  caughtUp  \* those of them that a save of a later snapshot came through after

record   == <<unsaved, caughtUp>>
failVars == <<vars, record>>

FailInit == Init /\ unsaved = {} /\ caughtUp = {}

MadeGood(room) == {s \in unsaved : s.id = room.id /\ s.version < room.version}

(* save throws inside, logs, and returns.                                  *)
SaveFails(i) ==
  /\ LoseWrite(i) /\ calls[i].kind = "save" /\ row' = row
  /\ unsaved' = unsaved \cup {calls[i].room}
  /\ UNCHANGED caughtUp

(* save succeeds, and catches up on what failed before it.                 *)
SaveSucceeds(i) ==
  /\ ServeWrite(i) /\ calls[i].kind = "save"
  /\ caughtUp' = caughtUp \cup MadeGood(calls[i].room)
  /\ UNCHANGED unsaved

(* Only the answer is lost.                                                *)
SaveUnanswered(i) ==
  /\ LoseWrite(i) /\ calls[i].kind = "save" /\ row' = Written(i)
  /\ UNCHANGED record

(* Everything else that RoomRows does.                                     *)
Otherwise ==
  /\ \/ GetRoom \/ CheckCode \/ ChangeRoom \/ DropRoom \/ Restart
     \/ AdminDeleteRoom \/ AdminReadRoom \/ AdminFinishRoom
     \/ \E i \in DOMAIN calls :
          \/ calls[i].kind # "save" /\ (ServeWrite(i) \/ LoseWrite(i))
          \/ ServeHydrate(i) \/ ServeCheck(i)
          \/ LoseHydrate(i) \/ LoseCheck(i)
  /\ UNCHANGED record

FailNext ==
  \/ \E i \in DOMAIN calls : SaveFails(i) \/ SaveSucceeds(i) \/ SaveUnanswered(i)
  \/ Otherwise

FailSpec == FailInit /\ [][FailNext]_failVars

(* "that snapshot isn't durably saved yet, which the next successful write *)
(* will catch up on" (roomRepository.ts:159-160): once a save of a later   *)
(* snapshot has come through after one that failed, and no write is on its *)
(* way, the row of that room is not behind the snapshot that failed.       *)
NextWriteCatchesUp ==
  ~WritesIn(calls) =>
    \A s \in caughtUp : row # None /\ row.id = s.id => row.version >= s.version
=============================================================================
