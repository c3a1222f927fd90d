---------------------------- MODULE SurveyNotes ----------------------------
(***************************************************************************)
(* The owner's side of the feedback on one game: the notes page            *)
(* (packages/client/src/views/NotesView.tsx), the home page's "new         *)
(* feedback" row (HomeView.tsx, state/feedback.ts) and the routes and      *)
(* queries behind them (surveyRoutes.ts, surveyRepository.ts).             *)
(*                                                                         *)
(* Time is counted in answers: the present is the number of answers filed, *)
(* and a moment t stands for the time right after the t-th of them.  A     *)
(* page that is reloaded is another page; the owner may have several open. *)
(* Answers and marks are taken to be stamped by one clock; in the code the *)
(* database stamps the ones and the process the others.                    *)
(* Names that Surveys has too are prefixed with Notes, so that one module  *)
(* of proofs can extend both.                                              *)
(***************************************************************************)
EXTENDS Naturals

CONSTANTS Visits,      \* loads of the notes page
          Asks,        \* loads of the home page
          MaxAnswers,  \* bound: answers filed
          MaxNotesFaults    \* bound: queries and requests that fail

ASSUME NotesBoundsAssumption == MaxAnswers \in Nat /\ MaxNotesFaults \in Nat

Times == 0 .. MaxAnswers

(* A load of the notes page: what the list it was sent holds, whether it   *)
(* was rendered, and the time its POST read stands for.                    *)
Visit == [at : {"closed", "listed", "shown", "marking", "done"},
          listed : Times, mark : Times]

(* A load of the home page: the results of its two queries, the answers    *)
(* there were when it asked, and the verdict it was told.                  *)
Ask == [at : {"idle", "asking", "told"}, latestDone : BOOLEAN, readDone : BOOLEAN,
        latest : Times, readAt : Times, since : Times, unread : BOOLEAN]

VARIABLES
  clock,    \* answers filed so far
  readAt,   \* the owner's row of feedback_read_at, 0 if there is none
  visit,    \* the notes pages
  ask,      \* the home pages
  slipped,  \* answers filed between the query of a list and its mark,
            \* or hidden by a list that failed
  lastRead, \* the latest time any mark stood for
  notesFaults  \* failures so far

notesVars == <<clock, readAt, visit, ask, slipped, lastRead, notesFaults>>

NotesTypeOK ==
  /\ clock \in Times /\ readAt \in Times /\ lastRead \in Times
  /\ visit \in [Visits -> Visit]
  /\ ask \in [Asks -> Ask]
  /\ slipped \subseteq 1 .. MaxAnswers
  /\ notesFaults \in 0 .. MaxNotesFaults

NotesInit ==
  /\ clock = 0 /\ readAt = 0 /\ lastRead = 0
  /\ visit = [v \in Visits |-> [at |-> "closed", listed |-> 0, mark |-> 0]]
  /\ ask = [a \in Asks |-> [at |-> "idle", latestDone |-> FALSE, readDone |-> FALSE,
                            latest |-> 0, readAt |-> 0, since |-> 0, unread |-> FALSE]]
  /\ slipped = {}
  /\ notesFaults = 0

NotesFail == notesFaults < MaxNotesFaults /\ notesFaults' = notesFaults + 1

(* The answers that some page has had on its screen.                       *)
Shown(k) == \E v \in Visits : visit[v].at \in {"shown", "marking", "done"}
                              /\ k <= visit[v].listed
-----------------------------------------------------------------------------
(* The notes page                                                          *)

AnswerArrives ==
  /\ clock < MaxAnswers
  /\ clock' = clock + 1
  /\ slipped' = IF \E v \in Visits : visit[v].at \in {"listed", "shown"}
                THEN slipped \cup {clock + 1} ELSE slipped
  /\ UNCHANGED <<readAt, visit, ask, lastRead, notesFaults>>

(* A query that fails lists nothing, and the page is none the wiser.       *)
ListForGame(v) ==
  /\ visit[v].at = "closed"
  /\ \/ /\ visit' = [visit EXCEPT ![v].at = "listed", ![v].listed = clock]
        /\ UNCHANGED <<slipped, notesFaults>>
     \/ /\ NotesFail
        /\ visit' = [visit EXCEPT ![v].at = "listed"]
        /\ slipped' = slipped \cup 1 .. clock
  /\ UNCHANGED <<clock, readAt, ask, lastRead>>

(* The page shows what it got and sends POST read, waiting for no reply.   *)
ShowNotes(v) ==
  /\ visit[v].at = "listed"
  /\ visit' = [visit EXCEPT ![v].at = "shown"]
  /\ UNCHANGED <<clock, readAt, ask, slipped, lastRead, notesFaults>>

(* Mutant of MarkTime: the owner has read whatever is there by tomorrow.   *)
MarkTimeAhead(v) == MaxAnswers

(* The route stamps the mark with the time it has checked the session at.  *)
MarkTime(v) == clock

TakeMark(v) ==
  /\ visit[v].at = "shown"
  /\ visit' = [visit EXCEPT ![v].at = "marking", ![v].mark = MarkTime(v)]
  /\ lastRead' = IF MarkTime(v) > lastRead THEN MarkTime(v) ELSE lastRead
  /\ UNCHANGED <<clock, readAt, ask, slipped, notesFaults>>

(* The request or its upsert may be lost without a trace.                  *)
MarkRead(v) ==
  /\ visit[v].at = "marking"
  /\ visit' = [visit EXCEPT ![v].at = "done"]
  /\ \/ readAt' = visit[v].mark /\ UNCHANGED notesFaults
     \/ NotesFail /\ UNCHANGED readAt
  /\ UNCHANGED <<clock, ask, slipped, lastRead>>
-----------------------------------------------------------------------------
(* The home page                                                           *)

AskUnread(a) ==
  /\ ask[a].at = "idle"
  /\ ask' = [ask EXCEPT ![a].at = "asking", ![a].since = clock]
  /\ UNCHANGED <<clock, readAt, visit, slipped, lastRead, notesFaults>>

(* The two queries run side by side; one that fails reads as no row.       *)
GetLatestResponseAt(a) ==
  /\ ask[a].at = "asking" /\ ~ask[a].latestDone
  /\ \/ /\ ask' = [ask EXCEPT ![a].latestDone = TRUE, ![a].latest = clock]
        /\ UNCHANGED notesFaults
     \/ /\ NotesFail
        /\ ask' = [ask EXCEPT ![a].latestDone = TRUE, ![a].since = 0]
  /\ UNCHANGED <<clock, readAt, visit, slipped, lastRead>>

GetReadAt(a) ==
  /\ ask[a].at = "asking" /\ ~ask[a].readDone
  /\ \/ /\ ask' = [ask EXCEPT ![a].readDone = TRUE, ![a].readAt = readAt]
        /\ UNCHANGED notesFaults
     \/ /\ NotesFail
        /\ ask' = [ask EXCEPT ![a].readDone = TRUE]
  /\ UNCHANGED <<clock, readAt, visit, slipped, lastRead>>

(* Mutant of HasUnread: a game whose page was never opened has no news.    *)
ReadBefore(latest, read) == latest > 0 /\ read > 0 /\ latest > read

HasUnread(latest, read) == latest > 0 /\ (read = 0 \/ latest > read)

(* A request that fails shows no news (fetchUnreadFeedback).               *)
AnswerUnread(a) ==
  /\ ask[a].at = "asking" /\ ask[a].latestDone /\ ask[a].readDone
  /\ \/ /\ ask' = [ask EXCEPT ![a].at = "told",
                              ![a].unread = HasUnread(ask[a].latest, ask[a].readAt)]
        /\ UNCHANGED notesFaults
     \/ /\ NotesFail
        /\ ask' = [ask EXCEPT ![a].at = "told", ![a].since = 0]
  /\ UNCHANGED <<clock, readAt, visit, slipped, lastRead>>
-----------------------------------------------------------------------------
NotesNext ==
  \/ AnswerArrives
  \/ \E v \in Visits : ListForGame(v) \/ ShowNotes(v) \/ TakeMark(v) \/ MarkRead(v)
  \/ \E a \in Asks : AskUnread(a) \/ GetLatestResponseAt(a) \/ GetReadAt(a)
                     \/ AnswerUnread(a)

NotesSpec == NotesInit /\ [][NotesNext]_notesVars
-----------------------------------------------------------------------------
(* Properties                                                              *)

(* An answer that no page has shown is held read only if it was filed      *)
(* between some list and the mark that followed it, or was hidden by a     *)
(* list that failed: the mark carries its own time, not the list's.        *)
ReadMeansShown ==
  \A k \in 1 .. readAt : Shown(k) \/ k \in slipped

(* A home page that says there is nothing new has, unless its request or   *)
(* the query for the latest answer failed, an owner who marked as read     *)
(* every answer that was there when it asked: marks that are lost,         *)
(* overtaken or overwritten never hide an answer, they only flag it again. *)
NoFalseAllClear ==
  \A a \in Asks : ask[a].at = "told" /\ ~ask[a].unread => ask[a].since <= lastRead
=============================================================================
