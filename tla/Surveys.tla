------------------------------ MODULE Surveys ------------------------------
(***************************************************************************)
(* Feedback on finished games: the recap panel of each seat                *)
(* (packages/client/src/components/RecapPanel.tsx), the survey routes of   *)
(* the server (surveyRoutes.ts) and the table of answers                   *)
(* (surveyRepository.ts).                                                  *)
(*                                                                         *)
(* The rooms of one code are looked at, one after the other; a panel       *)
(* knows its room's code only.  A request to store answers is a handler    *)
(* that awaits the room and then inserts its answers side by side, each    *)
(* insert atomic, and the only query here that does not fail softly.       *)
(* Sign-in is left out: a panel's requests are made as the account that    *)
(* held its seat when it was mounted.                                      *)
(***************************************************************************)
EXTENDS Naturals, FiniteSets

CONSTANTS NumSeats,    \* seats of a room, in seatOrder
          Accounts,    \* accounts that hold them
          Questions,   \* STANDARD_SURVEY_QUESTIONS
          Texts,       \* what can be answered
          Posts,       \* POST /survey-responses requests
          None,        \* an absent value
          MaxRooms,    \* bound: rooms that use the code, one after the other
          MaxLoads,    \* bound: times a panel is mounted
          MaxFaults    \* bound: queries and replies that are lost

Seats   == 1 .. NumSeats
RoomIds == 1 .. MaxRooms
Keys    == RoomIds \X Seats \X Questions  \* UNIQUE (room_id, seat, question_id)
Drafts  == [Questions -> Texts \cup {None}]
NoDraft == [q \in Questions |-> None]

ASSUME BoundsAssumption ==
  NumSeats \in Nat \ {0} /\ MaxRooms \in Nat /\ MaxLoads \in Nat /\ MaxFaults \in Nat
ASSUME NoneAssumption == None \notin Accounts \cup Texts \cup Posts

(* RecapPanel's SubmitState and its saving flag; "heard" is an answer to   *)
(* GET /mine on its way, and "skipped" a form that was closed while its    *)
(* answers were being saved.  The two results of a submit are told apart   *)
(* by allNew.                                                              *)
PanelKinds == {"unmounted", "checking", "heard-none", "heard-some", "idle", "saving",
               "skipped", "dismissed", "already-submitted", "submitted",
               "partly-submitted", "failed"}
PostStages == {"unused", "sent", "inserting", "stored", "refused", "failed"}

(* The room that has the code now; knownAccounts outlives every session.   *)
LiveRoom == [id : RoomIds, finished : BOOLEAN, knownAccounts : [Seats -> Accounts]]

(* A panel: whose browser shows it, and its last request.                  *)
Panel == [kind : PanelKinds, account : Accounts \cup {None}, sent : Posts \cup {None}]

(* A request and its handler: the answers to insert yet, and those whose   *)
(* row it wrote.                                                           *)
Post == [at : PostStages, seat : Seats, account : Accounts \cup {None},
         answers : Drafts, roomId : RoomIds \cup {0},
         left : SUBSET Questions, stored : SUBSET Questions]

VARIABLES
  room,     \* the room under the code, or None
  nextRoom, \* the next room's durable id
  table,    \* survey_responses: the text of each answer, or None
  panel,    \* the panel of each seat
  loads,    \* panels mounted so far
  post,     \* the requests
  faults    \* failures so far

vars == <<room, nextRoom, table, panel, loads, post, faults>>

TypeOK ==
  /\ room \in LiveRoom \cup {None}
  /\ nextRoom \in 1 .. MaxRooms + 1
  /\ table \in [Keys -> Texts \cup {None}]
  /\ panel \in [Seats -> Panel]
  /\ loads \in 0 .. MaxLoads
  /\ post \in [Posts -> Post]
  /\ faults \in 0 .. MaxFaults

Init ==
  /\ room = None /\ nextRoom = 1
  /\ table = [k \in Keys |-> None]
  /\ panel = [s \in Seats |-> [kind |-> "unmounted", account |-> None, sent |-> None]]
  /\ loads = 0
  /\ post = [p \in Posts |-> [at |-> "unused", seat |-> 1, account |-> None,
                              answers |-> NoDraft, roomId |-> 0,
                              left |-> {}, stored |-> {}]]
  /\ faults = 0

Fails == faults < MaxFaults /\ faults' = faults + 1
-----------------------------------------------------------------------------
(* The room's life, as the survey sees it                                  *)

CreateRoom(owners) ==
  /\ room = None /\ nextRoom <= MaxRooms
  /\ room' = [id |-> nextRoom, finished |-> FALSE, knownAccounts |-> owners]
  /\ nextRoom' = nextRoom + 1
  /\ UNCHANGED <<table, panel, loads, post, faults>>

FinishGame ==
  /\ room # None /\ ~room.finished
  /\ room' = [room EXCEPT !.finished = TRUE]
  /\ UNCHANGED <<nextRoom, table, panel, loads, post, faults>>

DeleteRoom ==
  /\ room # None
  /\ room' = None
  /\ UNCHANGED <<nextRoom, table, panel, loads, post, faults>>
-----------------------------------------------------------------------------
(* The recap panel                                                         *)

AnsweredQuestions(r, s) == {q \in Questions : table[<<r, s, q>>] # None}

SeatsOf(a) == {s \in Seats : room.knownAccounts[s] = a}

(* Mutant of SeatAskedFor: any seat that is not the account's.             *)
OtherSeats(a) == Seats \ SeatsOf(a)

(* GET /mine looks for the first seat of the account, if it has one.       *)
SeatAskedFor(a) == {s \in SeatsOf(a) : \A t \in SeatsOf(a) : s <= t}

(* A reload drops what the page was waiting for.                           *)
Mount(s) ==
  /\ room # None /\ room.finished
  /\ loads < MaxLoads /\ loads' = loads + 1
  /\ panel' = [panel EXCEPT ![s] = [kind |-> "checking", sent |-> None,
                                    account |-> room.knownAccounts[s]]]
  /\ UNCHANGED <<room, nextRoom, table, post, faults>>

HasAnswered(a) ==
  room # None /\ \E t \in SeatAskedFor(a) : AnsweredQuestions(room.id, t) # {}

(* Where there is no room, or a query or the request fails, no question    *)
(* counts as answered.  The room and the table are read in one step; the   *)
(* code reads the table after the room, for the room and seat it found.    *)
AnswerMine(s) ==
  /\ panel[s].kind = "checking"
  /\ \/ /\ HasAnswered(panel[s].account)
        /\ panel' = [panel EXCEPT ![s].kind = "heard-some"]
        /\ UNCHANGED faults
     \/ /\ (~HasAnswered(panel[s].account) /\ UNCHANGED faults) \/ Fails
        /\ panel' = [panel EXCEPT ![s].kind = "heard-none"]
  /\ UNCHANGED <<room, nextRoom, table, loads, post>>

ShowForm(s) ==
  /\ panel[s].kind \in {"heard-none", "heard-some"}
  /\ panel' = [panel EXCEPT ![s].kind = IF @ = "heard-some"
                                        THEN "already-submitted" ELSE "idle"]
  /\ UNCHANGED <<room, nextRoom, table, loads, post, faults>>

(* An empty form just closes.                                              *)
Submit(s, p, answers) ==
  /\ panel[s].kind \in {"idle", "failed"}
  /\ \/ /\ answers = NoDraft
        /\ panel' = [panel EXCEPT ![s].kind = "dismissed"]
        /\ UNCHANGED post
     \/ /\ answers # NoDraft
        /\ post[p].at = "unused"
        /\ panel' = [panel EXCEPT ![s].kind = "saving", ![s].sent = p]
        /\ post' = [post EXCEPT ![p].at = "sent", ![p].seat = s,
                                ![p].account = panel[s].account, ![p].answers = answers]
  /\ UNCHANGED <<room, nextRoom, table, loads, faults>>

(* The Skip button; it is not disabled while the answers are being saved.  *)
Skip(s) ==
  /\ panel[s].kind \in {"idle", "failed", "saving"}
  /\ panel' = [panel EXCEPT ![s].kind = IF @ = "saving" THEN "skipped" ELSE "dismissed"]
  /\ UNCHANGED <<room, nextRoom, table, loads, post, faults>>

Asked(p) == {q \in Questions : post[p].answers[q] # None}

(* Mutant of Verdict: thanks for every answer, whatever became of it.      *)
AlwaysThanks(p) == "submitted"

Verdict(p) == IF post[p].stored = Asked(p) THEN "submitted" ELSE "partly-submitted"

TakeReply(s) ==
  LET p == panel[s].sent IN
  /\ panel[s].kind \in {"saving", "skipped"}
  /\ post[p].at \in {"stored", "refused", "failed"}
  /\ panel' = [panel EXCEPT ![s].kind = IF post[p].at = "stored"
                                        THEN Verdict(p) ELSE "failed"]
  /\ UNCHANGED <<room, nextRoom, table, loads, post, faults>>

(* The connection breaks; the request may still be served.                 *)
LoseReply(s) ==
  /\ panel[s].kind \in {"saving", "skipped"}
  /\ Fails
  /\ panel' = [panel EXCEPT ![s].kind = "failed"]
  /\ UNCHANGED <<room, nextRoom, table, loads, post>>
-----------------------------------------------------------------------------
(* POST /survey-responses                                                  *)

MayAnswer(p) ==
  room # None /\ room.finished /\ room.knownAccounts[post[p].seat] = post[p].account

(* Everything up to the inserts, in one turn after getRoom.                *)
CheckPost(p) ==
  /\ post[p].at = "sent"
  /\ post' = [post EXCEPT ![p] =
       IF MayAnswer(p)
       THEN [@ EXCEPT !.at = "inserting", !.roomId = room.id, !.left = Asked(p)]
       ELSE [@ EXCEPT !.at = "refused"]]
  /\ UNCHANGED <<room, nextRoom, table, panel, loads, faults>>

(* Mutant of Insert: the last answer wins.                                 *)
Upsert(k, text) == table' = [table EXCEPT ![k] = text]

(* ON CONFLICT DO NOTHING.                                                 *)
Insert(k, text) == table' = [table EXCEPT ![k] = IF @ = None THEN text ELSE @]

InsertAnswer(p, q) ==
  LET k == <<post[p].roomId, post[p].seat, q>> IN
  /\ post[p].at = "inserting" /\ q \in post[p].left
  /\ Insert(k, post[p].answers[q])
  /\ post' = [post EXCEPT ![p].left = @ \ {q},
                          ![p].stored = IF table[k] = None THEN @ \cup {q} ELSE @]
  /\ UNCHANGED <<room, nextRoom, panel, loads, faults>>

(* An insert fails: the handler never answers, and its rejection is caught *)
(* nowhere, so the process ends and with it every request in flight.  What *)
(* was inserted stays.                                                     *)
CrashOnInsert(p) ==
  /\ post[p].at = "inserting" /\ post[p].left # {}
  /\ Fails
  /\ post' = [r \in Posts |->
                IF post[r].at \in {"sent", "inserting"}
                THEN [post[r] EXCEPT !.at = "failed"] ELSE post[r]]
  /\ UNCHANGED <<room, nextRoom, table, panel, loads>>

ReplyStored(p) ==
  /\ post[p].at = "inserting" /\ post[p].left = {}
  /\ post' = [post EXCEPT ![p].at = "stored"]
  /\ UNCHANGED <<room, nextRoom, table, panel, loads, faults>>
-----------------------------------------------------------------------------
Next ==
  \/ \E owners \in [Seats -> Accounts] : CreateRoom(owners)
  \/ FinishGame
  \/ DeleteRoom
  \/ \E s \in Seats : Mount(s) \/ AnswerMine(s) \/ ShowForm(s) \/ Skip(s)
                      \/ TakeReply(s) \/ LoseReply(s)
  \/ \E s \in Seats, p \in Posts, answers \in Drafts : Submit(s, p, answers)
  \/ \E p \in Posts : CheckPost(p) \/ CrashOnInsert(p) \/ ReplyStored(p)
  \/ \E p \in Posts, q \in Questions : InsertAnswer(p, q)

Spec == Init /\ [][Next]_vars
-----------------------------------------------------------------------------
(* Properties                                                              *)

(* Where a request's answers belong.                                       *)
Key(p, q) == <<post[p].roomId, post[p].seat, q>>

(* A panel that says thanks has all it sent on file, as it was sent; one   *)
(* that says some of it was there before has each of its questions         *)
(* answered, through retries, lost replies, crashes and the deletion of    *)
(* the room (RecapPanel never thanks for an answer that was discarded).    *)
ThanksAreEarned ==
  \A s \in Seats :
    LET p == panel[s].sent IN
    /\ panel[s].kind = "submitted" =>
         \A q \in Asked(p) : table[Key(p, q)] = post[p].answers[q]
    /\ panel[s].kind = "partly-submitted" =>
         \A q \in Asked(p) : table[Key(p, q)] # None

(* An answer on file stays as it is, whoever answers again, whichever      *)
(* request fails, and after its room is gone and its code is in use again. *)
FirstAnswerStays ==
  [][\A k \in Keys : table[k] # None => table'[k] = table[k]]_vars

(* A panel withholds its form only from an account that has an answer on   *)
(* file, if not for that seat: of several seats, the server asks about the *)
(* first alone, and of several rooms, about the one that has the code.     *)
FormWithheldOnlyIfAnswered ==
  \A s \in Seats :
    panel[s].kind = "already-submitted" =>
      \E p \in Posts :
        /\ post[p].account = panel[s].account /\ post[p].roomId # 0
        /\ \E q \in Asked(p) : table[Key(p, q)] # None
=============================================================================
