---------------------------- MODULE SurveysProofs ---------------------------
(***************************************************************************)
(* Proofs about feedback, for any number of seats, accounts, questions,    *)
(* requests and failures: answers on file never change, a panel's thanks   *)
(* are earned, and a form is withheld only from who has answered.  And     *)
(* about the owner's notes, for any number of pages, answers and failures: *)
(* what is held read was shown or slipped in, and no home page says that   *)
(* all is read when it is not.                                             *)
(***************************************************************************)
EXTENDS Surveys, SurveyNotes, TLAPS

LEMMA Bounds ==
  /\ NumSeats \in Nat \ {0} /\ MaxRooms \in Nat /\ MaxLoads \in Nat /\ MaxFaults \in Nat
  /\ None \notin Accounts /\ None \notin Texts /\ None \notin Posts
BY BoundsAssumption, NoneAssumption
-----------------------------------------------------------------------------
(* Types                                                                   *)

(* A panel that waits for an answer has sent a request.                    *)
SentInv ==
  \A s \in Seats :
    panel[s].kind \in {"saving", "skipped", "submitted", "partly-submitted"} =>
      panel[s].sent \in Posts

TypeInv == TypeOK /\ SentInv

LEMMA PanelChange ==
  ASSUME panel \in [Seats -> Panel], NEW s \in Seats, NEW kind \in PanelKinds
  PROVE  [panel EXCEPT ![s].kind = kind] \in [Seats -> Panel]
<1>1. [panel[s] EXCEPT !.kind = kind] \in Panel
  BY DEF Panel
<1> QED BY <1>1

(* What the actions do to the request they are about.                      *)
LEMMA PostChange ==
  ASSUME NEW r \in Post
  PROVE  /\ \A stage \in PostStages : [r EXCEPT !.at = stage] \in Post
         /\ \A s \in Seats, a \in Accounts \cup {None}, d \in Drafts :
              [r EXCEPT !.at = "sent", !.seat = s, !.account = a, !.answers = d] \in Post
         /\ \A id \in RoomIds, left \in SUBSET Questions :
              [r EXCEPT !.at = "inserting", !.roomId = id, !.left = left] \in Post
         /\ \A left \in SUBSET Questions, stored \in SUBSET Questions :
              [r EXCEPT !.left = left, !.stored = stored] \in Post
BY DEF Post, PostStages

LEMMA TypeStep == TypeInv /\ [Next]_vars => TypeInv'
<1> SUFFICES ASSUME TypeInv, [Next]_vars
             PROVE  TypeInv'
  OBVIOUS
<1> USE Bounds
<1>t. /\ room \in LiveRoom \cup {None}
      /\ nextRoom \in 1 .. MaxRooms + 1
      /\ table \in [Keys -> Texts \cup {None}]
      /\ panel \in [Seats -> Panel]
      /\ loads \in 0 .. MaxLoads
      /\ post \in [Posts -> Post]
      /\ faults \in 0 .. MaxFaults
      /\ SentInv
  BY DEF TypeInv, TypeOK
<1>f. Fails => faults' \in 0 .. MaxFaults
  BY <1>t DEF Fails
<1>1. ASSUME NEW owners \in [Seats -> Accounts], CreateRoom(owners)
      PROVE  TypeInv'
  <2>1. room' \in LiveRoom
    BY <1>1, <1>t DEF CreateRoom, LiveRoom, RoomIds
  <2> QED BY <1>1, <1>t, <2>1 DEF CreateRoom, TypeInv, TypeOK, SentInv
<1>2. CASE FinishGame
  <2>1. room' \in LiveRoom
    BY <1>2, <1>t DEF FinishGame, LiveRoom
  <2> QED BY <1>2, <1>t, <2>1 DEF FinishGame, TypeInv, TypeOK, SentInv
<1>3. CASE DeleteRoom
  BY <1>3, <1>t DEF DeleteRoom, TypeInv, TypeOK, SentInv
<1>4. ASSUME NEW s \in Seats, Mount(s)
      PROVE  TypeInv'
  <2>1. room \in LiveRoom /\ room.knownAccounts[s] \in Accounts
    BY <1>4, <1>t DEF Mount, LiveRoom
  <2> DEFINE fresh == [kind |-> "checking", sent |-> None, account |-> room.knownAccounts[s]]
  <2>2. fresh \in Panel
    BY <2>1 DEF Panel, PanelKinds
  <2>3. panel' = [panel EXCEPT ![s] = fresh] /\ fresh.kind = "checking"
    BY <1>4 DEF Mount
  <2> HIDE DEF fresh
  <2>4. panel' \in [Seats -> Panel] /\ SentInv'
    BY <2>2, <2>3, <1>t DEF SentInv
  <2> QED BY <1>4, <1>t, <2>4 DEF Mount, TypeInv, TypeOK
<1>5. ASSUME NEW s \in Seats, NEW kind \in PanelKinds,
             panel' = [panel EXCEPT ![s].kind = kind],
             kind \in {"saving", "skipped", "submitted", "partly-submitted"} =>
               panel[s].kind \in {"saving", "skipped"},
             UNCHANGED <<room, nextRoom, table, loads, post>>, faults' = faults \/ Fails
      PROVE  TypeInv'
  <2>1. panel' \in [Seats -> Panel]
    BY <1>5, <1>t, PanelChange
  <2>2. \A t \in Seats : panel'[t].sent = panel[t].sent /\ (t # s => panel'[t].kind = panel[t].kind)
    BY <1>5, <1>t DEF Panel
  <2>3. panel'[s].kind = kind
    BY <1>5, <1>t DEF Panel
  <2>4. SentInv'
    BY <1>5, <1>t, <2>2, <2>3 DEF SentInv
  <2> QED BY <1>5, <1>t, <1>f, <2>1, <2>4 DEF TypeInv, TypeOK
<1>6. ASSUME NEW s \in Seats,
             AnswerMine(s) \/ ShowForm(s) \/ Skip(s) \/ TakeReply(s) \/ LoseReply(s)
      PROVE  TypeInv'
  <2>1. PICK kind \in PanelKinds :
          /\ panel' = [panel EXCEPT ![s].kind = kind]
          /\ kind \in {"saving", "skipped", "submitted", "partly-submitted"} =>
               panel[s].kind \in {"saving", "skipped"}
    <3>1. CASE AnswerMine(s)
      BY <3>1 DEF AnswerMine, PanelKinds
    <3>2. CASE ShowForm(s)
      BY <3>2, <1>t DEF ShowForm, PanelKinds
    <3>3. CASE Skip(s)
      BY <3>3, <1>t DEF Skip, PanelKinds
    <3>4. CASE TakeReply(s)
      BY <3>4 DEF TakeReply, Verdict, PanelKinds
    <3>5. CASE LoseReply(s)
      BY <3>5 DEF LoseReply, PanelKinds
    <3> QED BY <1>6, <3>1, <3>2, <3>3, <3>4, <3>5
  <2>2. UNCHANGED <<room, nextRoom, table, loads, post>> /\ (faults' = faults \/ Fails)
    BY <1>6 DEF AnswerMine, ShowForm, Skip, TakeReply, LoseReply
  <2> QED BY <1>5, <2>1, <2>2
<1>7. ASSUME NEW s \in Seats, NEW p \in Posts, NEW answers \in Drafts, Submit(s, p, answers)
      PROVE  TypeInv'
  <2>1. CASE answers = NoDraft
    <3>1. panel' = [panel EXCEPT ![s].kind = "dismissed"]
          /\ UNCHANGED <<room, nextRoom, table, loads, post, faults>>
      BY <1>7, <2>1 DEF Submit
    <3>2. "dismissed" \in PanelKinds
      BY DEF PanelKinds
    <3> QED BY <1>5, <3>1, <3>2
  <2>2. CASE answers # NoDraft
    <3> DEFINE saving == [panel[s] EXCEPT !.kind = "saving", !.sent = p]
    <3>1. saving \in Panel /\ saving.kind = "saving" /\ saving.sent = p
      BY <1>t DEF Panel, PanelKinds
    <3>2. panel' = [panel EXCEPT ![s] = saving]
      BY <1>7, <2>2, <1>t DEF Submit
    <3> HIDE DEF saving
    <3>3. panel' \in [Seats -> Panel] /\ SentInv'
      BY <3>1, <3>2, <1>t DEF SentInv
    <3>4. post' \in [Posts -> Post]
      <4> DEFINE sent == [post[p] EXCEPT !.at = "sent", !.seat = s,
                                         !.account = panel[s].account, !.answers = answers]
      <4>1. post' = [post EXCEPT ![p] = sent]
        BY <1>7, <2>2, <1>t DEF Submit
      <4>2. sent \in Post
        BY <1>t, PostChange DEF Panel
      <4> HIDE DEF sent
      <4> QED BY <4>1, <4>2, <1>t
    <3> QED BY <1>7, <1>t, <3>3, <3>4 DEF Submit, TypeInv, TypeOK
  <2> QED BY <2>1, <2>2
<1>8. ASSUME post' \in [Posts -> Post], UNCHANGED <<room, nextRoom, panel, loads>>,
             table' \in [Keys -> Texts \cup {None}], faults' = faults \/ Fails
      PROVE  TypeInv'
  BY <1>8, <1>t, <1>f DEF TypeInv, TypeOK, SentInv
<1>9. ASSUME NEW p \in Posts, CheckPost(p)
      PROVE  TypeInv'
  <2>1. MayAnswer(p) => room.id \in RoomIds
    BY <1>t DEF MayAnswer, LiveRoom
  <2>2. Asked(p) \in SUBSET Questions /\ post[p] \in Post /\ "refused" \in PostStages
    BY <1>t DEF Asked, PostStages
  <2>3. PICK r \in Post : post' = [post EXCEPT ![p] = r]
    BY <1>9, <2>1, <2>2, PostChange DEF CheckPost
  <2> QED BY <1>8, <1>9, <2>3, <1>t DEF CheckPost
<1>10. ASSUME NEW p \in Posts, CrashOnInsert(p)
       PROVE  TypeInv'
  <2>1. \A r \in Posts : post[r] \in Post /\ [post[r] EXCEPT !.at = "failed"] \in Post
    BY <1>t, PostChange DEF PostStages
  <2>2. post' \in [Posts -> Post]
    BY <1>10, <2>1 DEF CrashOnInsert
  <2> QED BY <1>8, <1>10, <2>2, <1>t DEF CrashOnInsert
<1>11. ASSUME NEW p \in Posts, ReplyStored(p)
       PROVE  TypeInv'
  <2>1. PICK r \in Post : post' = [post EXCEPT ![p] = r]
    <3>1. [post[p] EXCEPT !.at = "stored"] \in Post
      BY <1>t, PostChange DEF PostStages
    <3> QED BY <1>11, <3>1, <1>t DEF ReplyStored
  <2> QED BY <1>8, <1>11, <2>1, <1>t DEF ReplyStored
<1>12. ASSUME NEW p \in Posts, NEW q \in Questions, InsertAnswer(p, q)
       PROVE  TypeInv'
  <2>1. post[p].answers[q] \in Texts \cup {None}
    BY <1>t DEF Post, Drafts
  <2>2. table' \in [Keys -> Texts \cup {None}]
    BY <1>12, <1>t, <2>1 DEF InsertAnswer, Insert
  <2>3. PICK left \in SUBSET Questions, stored \in SUBSET Questions :
          post' = [post EXCEPT ![p].left = left, ![p].stored = stored]
    <3>1. post[p].left \in SUBSET Questions /\ post[p].stored \in SUBSET Questions
      BY <1>t DEF Post
    <3> QED BY <1>12, <3>1, <1>t DEF InsertAnswer
  <2>4. [post[p] EXCEPT !.left = left, !.stored = stored] \in Post
    BY <1>t, PostChange
  <2>5. post' = [post EXCEPT ![p] = [post[p] EXCEPT !.left = left, !.stored = stored]]
    BY <2>3, <1>t
  <2>6. post' \in [Posts -> Post]
    BY <2>4, <2>5, <1>t
  <2> QED BY <1>8, <1>12, <2>2, <2>6 DEF InsertAnswer
<1>13. CASE UNCHANGED vars
  BY <1>13, <1>t DEF vars, TypeInv, TypeOK, SentInv
<1> QED BY <1>1, <1>2, <1>3, <1>4, <1>6, <1>7, <1>9, <1>10, <1>11, <1>12, <1>13 DEF Next

LEMMA TypeInit == Init => TypeInv
<1> SUFFICES ASSUME Init PROVE TypeInv
  OBVIOUS
<1> USE Bounds
<1>1. [kind |-> "unmounted", account |-> None, sent |-> None] \in Panel
  BY DEF Panel, PanelKinds
<1>2. panel \in [Seats -> Panel] /\ SentInv
  BY <1>1 DEF Init, SentInv
<1>3. [at |-> "unused", seat |-> 1, account |-> None, answers |-> NoDraft, roomId |-> 0,
       left |-> {}, stored |-> {}] \in Post
  BY DEF Post, PostStages, Drafts, NoDraft, Seats
<1>4. post \in [Posts -> Post]
  BY <1>3 DEF Init
<1>5. nextRoom \in 1 .. MaxRooms + 1 /\ loads \in 0 .. MaxLoads /\ faults \in 0 .. MaxFaults
  BY DEF Init
<1>6. room \in LiveRoom \cup {None} /\ table \in [Keys -> Texts \cup {None}]
  BY DEF Init
<1> QED BY <1>2, <1>4, <1>5, <1>6 DEF TypeInv, TypeOK

(* Every variable keeps its type, because a panel that awaits a reply has  *)
(* sent a request.                                                         *)
THEOREM SurveysTypeCorrect == Spec => []TypeOK
<1>1. Spec => []TypeInv
  BY TypeInit, TypeStep, PTL DEF Spec
<1> QED BY <1>1, PTL DEF TypeInv

(* An answer on file stays as it is, whoever answers again.                *)
THEOREM AnswersStay == Spec => FirstAnswerStays
<1>1. TypeInv /\ [Next]_vars => [\A k \in Keys : table[k] # None => table'[k] = table[k]]_vars
  <2> SUFFICES ASSUME TypeInv, [Next]_vars, NEW k \in Keys, table[k] # None
               PROVE  table'[k] = table[k]
    OBVIOUS
  <2>1. ASSUME NEW p \in Posts, NEW q \in Questions, InsertAnswer(p, q)
        PROVE  table'[k] = table[k]
    BY <2>1 DEF InsertAnswer, Insert, TypeInv, TypeOK
  <2>2. (\E p \in Posts, q \in Questions : InsertAnswer(p, q)) \/ table' = table
    BY DEF Next, CreateRoom, FinishGame, DeleteRoom, Mount, AnswerMine, ShowForm, Skip,
           TakeReply, LoseReply, Submit, CheckPost, CrashOnInsert, ReplyStored, vars
  <2> QED BY <2>1, <2>2
<1> QED BY <1>1, TypeInit, TypeStep, PTL DEF Spec, FirstAnswerStays
-----------------------------------------------------------------------------
(* What is on file                                                         *)

Thanked == {"submitted", "partly-submitted"}

(* What a request has done: each question it is done with is answered, and *)
(* what it stored is there as it was sent.                                 *)
PostInv ==
  \A p \in Posts :
    /\ post[p].at \in {"unused", "sent"} =>
         post[p].roomId = 0 /\ post[p].stored = {} /\ post[p].left = {}
    /\ post[p].at \in {"inserting", "stored"} => post[p].roomId # 0
    /\ post[p].at = "stored" => post[p].left = {}
    /\ post[p].left \subseteq Asked(p)
    /\ \A q \in post[p].stored :
         q \in Asked(p) /\ post[p].roomId # 0 /\ table[Key(p, q)] = post[p].answers[q]
    /\ post[p].at \in {"inserting", "stored"} =>
         \A q \in Asked(p) \ post[p].left : table[Key(p, q)] # None

(* What a panel goes by.                                                   *)
PanelInv ==
  \A s \in Seats :
    LET p == panel[s].sent IN
    /\ panel[s].kind \in {"saving", "skipped"} => post[p].at # "unused"
    /\ panel[s].kind \in Thanked => post[p].at = "stored"
    /\ panel[s].kind = "submitted" => post[p].stored = Asked(p)

LEMMA KeyInKeys ==
  ASSUME TypeInv, NEW p \in Posts, post[p].roomId # 0, NEW q \in Questions
  PROVE  Key(p, q) \in Keys
BY DEF TypeInv, TypeOK, Post, Key, Keys

LEMMA ThanksInit == Init => PostInv /\ PanelInv
BY DEF Init, PostInv, PanelInv, Thanked, Asked, NoDraft

(* A step that changes neither the requests nor what is on file.           *)
LEMMA PostSame ==
  ASSUME PostInv, UNCHANGED <<table, post>>
  PROVE  PostInv'
BY DEF PostInv, Asked, Key

LEMMA ThanksStep == TypeInv /\ PostInv /\ PanelInv /\ [Next]_vars => PostInv' /\ PanelInv'
<1> SUFFICES ASSUME TypeInv, PostInv, PanelInv, [Next]_vars
             PROVE  PostInv' /\ PanelInv'
  OBVIOUS
<1>t. /\ table \in [Keys -> Texts \cup {None}] /\ panel \in [Seats -> Panel]
      /\ post \in [Posts -> Post] /\ SentInv
  BY DEF TypeInv, TypeOK
<1>1. ASSUME UNCHANGED <<panel, post, table>>
      PROVE  PostInv' /\ PanelInv'
  BY <1>1, PostSame DEF PanelInv, Asked
<1>2. ASSUME NEW s \in Seats,
             UNCHANGED <<post, table>>,
             \A t \in Seats : t # s => panel'[t] = panel[t],
             panel'[s].kind \notin {"saving", "skipped"} \cup Thanked
      PROVE  PostInv' /\ PanelInv'
  BY <1>2, PostSame DEF PanelInv, Asked, Thanked
<1>3. ASSUME NEW s \in Seats, Mount(s)
      PROVE  PostInv' /\ PanelInv'
  <2>1. UNCHANGED <<post, table>> /\ panel'[s].kind = "checking"
        /\ \A t \in Seats : t # s => panel'[t] = panel[t]
    BY <1>3, <1>t DEF Mount
  <2> QED BY <1>2, <2>1 DEF Thanked
<1>4. ASSUME NEW s \in Seats, AnswerMine(s) \/ ShowForm(s) \/ LoseReply(s)
      PROVE  PostInv' /\ PanelInv'
  <2>1. /\ UNCHANGED <<post, table>> /\ \A t \in Seats : t # s => panel'[t] = panel[t]
        /\ panel'[s].kind \in {"heard-some", "heard-none", "already-submitted", "idle", "failed"}
    BY <1>4, <1>t DEF AnswerMine, ShowForm, LoseReply, Panel
  <2> QED BY <1>2, <2>1 DEF Thanked
<1>5. ASSUME NEW s \in Seats, Skip(s)
      PROVE  PostInv' /\ PanelInv'
  <2>1. /\ UNCHANGED <<post, table>> /\ \A t \in Seats : t # s => panel'[t] = panel[t]
        /\ panel'[s].sent = panel[s].sent
        /\ \/ panel'[s].kind = "dismissed"
           \/ panel'[s].kind = "skipped" /\ panel[s].kind = "saving"
    BY <1>5, <1>t DEF Skip, Panel
  <2> QED BY <2>1, PostSame DEF PanelInv, Asked, Thanked
<1>6. ASSUME NEW s \in Seats, TakeReply(s)
      PROVE  PostInv' /\ PanelInv'
  <2> DEFINE p == panel[s].sent
  <2>1. /\ UNCHANGED <<post, table>> /\ \A t \in Seats : t # s => panel'[t] = panel[t]
        /\ panel'[s].sent = p
        /\ panel'[s].kind = IF post[p].at = "stored" THEN Verdict(p) ELSE "failed"
    BY <1>6, <1>t DEF TakeReply, Panel
  <2>2. panel'[s].kind \in Thanked => post[p].at = "stored"
    BY <2>1 DEF Thanked
  <2>3. panel'[s].kind = "submitted" => post[p].stored = Asked(p)
    BY <2>1 DEF Verdict
  <2>4. panel'[s].kind \notin {"saving", "skipped"}
    BY <2>1 DEF Verdict
  <2> QED BY <2>1, <2>2, <2>3, <2>4, PostSame DEF PanelInv, Asked
<1>7. ASSUME NEW s \in Seats, NEW p \in Posts, NEW answers \in Drafts, Submit(s, p, answers)
      PROVE  PostInv' /\ PanelInv'
  <2>1. CASE answers = NoDraft
    <3>1. UNCHANGED <<post, table>> /\ panel'[s].kind = "dismissed"
          /\ \A t \in Seats : t # s => panel'[t] = panel[t]
      BY <1>7, <2>1, <1>t DEF Submit, Panel
    <3> QED BY <1>2, <3>1 DEF Thanked
  <2>2. CASE answers # NoDraft
    <3>1. /\ post[p].at = "unused" /\ table' = table
          /\ \A r \in Posts : r # p => post'[r] = post[r]
          /\ \A t \in Seats : t # s => panel'[t] = panel[t]
      BY <1>7, <2>2, <1>t DEF Submit
    <3>2. /\ post'[p].at = "sent" /\ post'[p].roomId = post[p].roomId
          /\ post'[p].stored = post[p].stored /\ post'[p].left = post[p].left
      BY <1>7, <2>2, <1>t DEF Submit, Post
    <3>3. panel'[s].kind = "saving" /\ panel'[s].sent = p
      BY <1>7, <2>2, <1>t DEF Submit, Panel
    <3>4. post[p].left = {} /\ post[p].stored = {} /\ post[p].roomId = 0
      BY <3>1 DEF PostInv
    <3>5. \A r \in Posts : r # p => Asked(r)' = Asked(r) /\ \A q : Key(r, q)' = Key(r, q)
      BY <3>1 DEF Asked, Key
    <3>6. PostInv'
      BY <3>1, <3>2, <3>4, <3>5 DEF PostInv
    <3>7. PanelInv'
      BY <3>1, <3>2, <3>3, <3>5, <1>t DEF PanelInv, SentInv, Thanked
    <3> QED BY <3>6, <3>7
  <2> QED BY <2>1, <2>2
<1>8. ASSUME NEW p \in Posts, CheckPost(p)
      PROVE  PostInv' /\ PanelInv'
  <2>1. /\ post[p].at = "sent" /\ UNCHANGED <<table, panel>>
        /\ \A r \in Posts : r # p => post'[r] = post[r]
    BY <1>8, <1>t DEF CheckPost
  <2>2. /\ post'[p].stored = post[p].stored /\ post'[p].answers = post[p].answers
        /\ \/ post'[p].at = "refused" /\ post'[p].roomId = post[p].roomId
                                      /\ post'[p].left = post[p].left
           \/ post'[p].at = "inserting" /\ post'[p].left = Asked(p)
                                        /\ MayAnswer(p) /\ post'[p].roomId = room.id
    BY <1>8, <1>t DEF CheckPost, Post
  <2>3. MayAnswer(p) => room.id # 0
    BY Bounds DEF MayAnswer, TypeInv, TypeOK, LiveRoom, RoomIds
  <2>4. \A r \in Posts : Asked(r)' = Asked(r) /\ (r # p => \A q : Key(r, q)' = Key(r, q))
    BY <2>1, <2>2 DEF Asked, Key
  <2>5. PostInv'
    BY <2>1, <2>2, <2>3, <2>4 DEF PostInv
  <2>6. PanelInv'
    BY <2>1, <2>2, <2>4, <1>t DEF PanelInv, SentInv, Thanked
  <2> QED BY <2>5, <2>6
<1>9. ASSUME NEW p \in Posts, CrashOnInsert(p)
      PROVE  PostInv' /\ PanelInv'
  <2>1. /\ UNCHANGED <<table, panel>>
        /\ \A r \in Posts :
             /\ UNCHANGED <<post[r].roomId, post[r].seat, post[r].answers, post[r].left,
                            post[r].stored>>
             /\ post'[r].at = IF post[r].at \in {"sent", "inserting"}
                              THEN "failed" ELSE post[r].at
    BY <1>9, <1>t DEF CrashOnInsert, Post
  <2>2. \A r \in Posts : Asked(r)' = Asked(r) /\ \A q : Key(r, q)' = Key(r, q)
    BY <2>1 DEF Asked, Key
  <2>3. PostInv'
    BY <2>1, <2>2 DEF PostInv
  <2>4. PanelInv'
    BY <2>1, <2>2, <1>t DEF PanelInv, SentInv, Thanked
  <2> QED BY <2>3, <2>4
<1>10. ASSUME NEW p \in Posts, ReplyStored(p)
       PROVE  PostInv' /\ PanelInv'
  <2>1. /\ post[p].at = "inserting" /\ post[p].left = {} /\ UNCHANGED <<table, panel>>
        /\ post'[p].at = "stored"
        /\ \A r \in Posts :
             /\ UNCHANGED <<post[r].roomId, post[r].seat, post[r].answers, post[r].left,
                            post[r].stored>>
             /\ r # p => post'[r].at = post[r].at
    BY <1>10, <1>t DEF ReplyStored, Post
  <2>2. \A r \in Posts : Asked(r)' = Asked(r) /\ \A q : Key(r, q)' = Key(r, q)
    BY <2>1 DEF Asked, Key
  <2>3. PostInv'
    BY <2>1, <2>2 DEF PostInv
  <2>4. PanelInv'
    BY <2>1, <2>2, <1>t DEF PanelInv, SentInv, Thanked
  <2> QED BY <2>3, <2>4
<1>11. ASSUME NEW p \in Posts, NEW q \in Questions, InsertAnswer(p, q)
       PROVE  PostInv' /\ PanelInv'
  <2> DEFINE k    == Key(p, q)
             text == post[p].answers[q]
  <2>1. /\ post[p].at = "inserting" /\ q \in post[p].left /\ UNCHANGED panel
        /\ table' = [table EXCEPT ![k] = IF @ = None THEN text ELSE @]
    BY <1>11 DEF InsertAnswer, Insert, Key
  <2>2. /\ \A r \in Posts :
             /\ UNCHANGED <<post[r].at, post[r].roomId, post[r].seat, post[r].answers>>
             /\ r # p => post'[r] = post[r]
        /\ post'[p].left = post[p].left \ {q}
        /\ post'[p].stored = IF table[k] = None THEN post[p].stored \cup {q} ELSE post[p].stored
    BY <1>11, <1>t DEF InsertAnswer, Post, Key
  <2>3. k \in Keys /\ text # None /\ q \in Asked(p)
    <3>1. post[p].roomId # 0 /\ q \in Asked(p)
      BY <2>1 DEF PostInv
    <3> QED BY <3>1, KeyInKeys DEF Asked
  <2>4. table'[k] # None /\ (table[k] = None => table'[k] = text)
        /\ \A j \in Keys : table[j] # None => table'[j] = table[j]
    BY <2>1, <2>3, <1>t
  <2>5. \A r \in Posts : Asked(r)' = Asked(r) /\ \A x : Key(r, x)' = Key(r, x)
    BY <2>2 DEF Asked, Key
  <2>6. ASSUME NEW r \in Posts, NEW x \in post[r].stored
        PROVE  table'[Key(r, x)] = post[r].answers[x]
    <3>1. /\ post[r].roomId # 0 /\ x \in Questions /\ table[Key(r, x)] = post[r].answers[x]
          /\ post[r].answers[x] # None
      BY <2>6 DEF PostInv, Asked
    <3>2. Key(r, x) \in Keys
      BY <3>1, KeyInKeys
    <3> QED BY <3>1, <3>2, <2>4
  <2>7. ASSUME NEW r \in Posts, post[r].at \in {"inserting", "stored"},
               NEW x \in Asked(r) \ post[r].left
        PROVE  table'[Key(r, x)] # None
    <3>1. Key(r, x) \in Keys /\ table[Key(r, x)] # None
      BY <2>7, KeyInKeys DEF PostInv, Asked
    <3> QED BY <3>1, <2>4
  <2> HIDE DEF k, text
  <2>8. PostInv'
    <3> SUFFICES ASSUME NEW r \in Posts
                 PROVE  /\ post'[r].at \in {"unused", "sent"} =>
                             post'[r].roomId = 0 /\ post'[r].stored = {} /\ post'[r].left = {}
                        /\ post'[r].at \in {"inserting", "stored"} => post'[r].roomId # 0
                        /\ post'[r].at = "stored" => post'[r].left = {}
                        /\ post'[r].left \subseteq Asked(r)
                        /\ \A x \in post'[r].stored :
                             /\ x \in Asked(r) /\ post'[r].roomId # 0
                             /\ table'[Key(r, x)] = post'[r].answers[x]
                        /\ post'[r].at \in {"inserting", "stored"} =>
                             \A x \in Asked(r) \ post'[r].left : table'[Key(r, x)] # None
      BY <2>5 DEF PostInv
    <3>1. CASE r # p
      BY <3>1, <2>2, <2>6, <2>7 DEF PostInv
    <3>2. CASE r = p
      <4>1. post[p].roomId # 0 /\ post[p].left \subseteq Asked(p)
        BY <2>1 DEF PostInv
      <4>2. \A x \in post'[p].stored : x \in Asked(p) /\ table'[Key(p, x)] = post[p].answers[x]
        <5>1. q \in post'[p].stored \ post[p].stored => table'[k] = text
          BY <2>2, <2>4
        <5>2. \A x \in post[p].stored : x \in Asked(p)
          BY DEF PostInv
        <5> QED BY <5>1, <5>2, <2>2, <2>3, <2>6 DEF k, text
      <4>3. \A x \in Asked(p) \ post'[p].left : table'[Key(p, x)] # None
        <5>1. \A x \in Asked(p) \ post'[p].left : x = q \/ x \in Asked(p) \ post[p].left
          BY <2>2
        <5> QED BY <5>1, <2>1, <2>4, <2>7 DEF k
      <4> QED BY <3>2, <4>1, <4>2, <4>3, <2>1, <2>2
    <3> QED BY <3>1, <3>2
  <2>9. PanelInv'
    <3> SUFFICES ASSUME NEW s \in Seats, NEW r, r = panel[s].sent
                 PROVE  /\ panel[s].kind \in {"saving", "skipped"} => post'[r].at # "unused"
                        /\ panel[s].kind \in Thanked => post'[r].at = "stored"
                        /\ panel[s].kind = "submitted" => post'[r].stored = Asked(r)'
      BY <2>1 DEF PanelInv
    <3>1. panel[s].kind \in {"saving", "skipped"} \cup Thanked => r \in Posts
      BY <1>t DEF SentInv, Thanked
    <3>2. panel[s].kind \in Thanked => r # p
      BY <2>1 DEF PanelInv
    <3> QED BY <3>1, <3>2, <2>2, <2>5 DEF PanelInv, Thanked
  <2> QED BY <2>8, <2>9
<1>12. CASE (\E owners \in [Seats -> Accounts] : CreateRoom(owners)) \/ FinishGame \/ DeleteRoom
            \/ UNCHANGED vars
  BY <1>12, <1>1 DEF CreateRoom, FinishGame, DeleteRoom, vars
<1> QED BY <1>3, <1>4, <1>5, <1>6, <1>7, <1>8, <1>9, <1>10, <1>11, <1>12 DEF Next

(* A panel says thanks only for what is on file as it was sent, or in full *)
(* for questions each of which has an answer, whatever was lost or retried.*)
THEOREM ThanksEarned == Spec => []ThanksAreEarned
<1>1. Spec => [](TypeInv /\ PostInv /\ PanelInv)
  BY TypeInit, TypeStep, ThanksInit, ThanksStep, PTL DEF Spec
<1>2. TypeInv /\ PostInv /\ PanelInv => ThanksAreEarned
  <2> SUFFICES ASSUME TypeInv, PostInv, PanelInv, NEW s \in Seats,
                      panel[s].kind \in Thanked
               PROVE  LET p == panel[s].sent IN
                      /\ panel[s].kind = "submitted" =>
                           \A q \in Asked(p) : table[Key(p, q)] = post[p].answers[q]
                      /\ panel[s].kind = "partly-submitted" =>
                           \A q \in Asked(p) : table[Key(p, q)] # None
    BY DEF ThanksAreEarned, Thanked
  <2>1. panel[s].sent \in Posts /\ post[panel[s].sent].at = "stored"
    BY DEF TypeInv, SentInv, PanelInv, Thanked
  <2> QED BY <2>1 DEF PostInv, PanelInv
<1> QED BY <1>1, <1>2, PTL
-----------------------------------------------------------------------------
(* Who has answered                                                        *)

(* The account has an answer on file: the evidence for withholding a form. *)
Evidence(a, p, q) ==
  post[p].account = a /\ post[p].roomId # 0 /\ q \in Asked(p) /\ table[Key(p, q)] # None

HasAnswer(a) == \E p \in Posts, q \in Questions : Evidence(a, p, q)

(* Room ids are given in turn; a request accepted for the room that has    *)
(* the code now is of the account that holds its seat.                     *)
OwnerInv ==
  /\ room # None => room.id < nextRoom
  /\ \A p \in Posts :
       /\ post[p].roomId < nextRoom
       /\ room # None /\ post[p].roomId = room.id =>
            room.knownAccounts[post[p].seat] = post[p].account

(* Whatever is on file was sent in some request.                           *)
FileInv ==
  \A k \in Keys :
    table[k] # None =>
      \E p \in Posts : \E q \in Asked(p) : post[p].roomId # 0 /\ k = Key(p, q)

HeardInv ==
  \A s \in Seats :
    panel[s].kind \in {"heard-some", "already-submitted"} => HasAnswer(panel[s].account)

FormInv == OwnerInv /\ FileInv /\ HeardInv

LEMMA FormInit == Init => FormInv
BY Bounds DEF Init, FormInv, OwnerInv, FileInv, HeardInv

(* A request that was accepted stays as it is, and so does what is on      *)
(* file.                                                                   *)
LEMMA FactsStay ==
  ASSUME TypeInv, PostInv, [Next]_vars
  PROVE  /\ \A p \in Posts :
              post[p].roomId # 0 =>
                UNCHANGED <<post[p].roomId, post[p].seat, post[p].account, post[p].answers>>
         /\ \A k \in Keys : table[k] # None => table'[k] = table[k]
<1>t. table \in [Keys -> Texts \cup {None}] /\ post \in [Posts -> Post]
  BY DEF TypeInv, TypeOK
<1>1. ASSUME NEW p \in Posts, post[p].roomId # 0
      PROVE  UNCHANGED <<post[p].roomId, post[p].seat, post[p].account, post[p].answers>>
  <2>1. post[p].at \notin {"unused", "sent"}
    BY <1>1 DEF PostInv
  <2>2. ASSUME NEW r \in Posts, CheckPost(r)
        PROVE  post'[p] = post[p]
    BY <2>1, <2>2, <1>t DEF CheckPost
  <2>3. ASSUME NEW s \in Seats, NEW r \in Posts, NEW answers \in Drafts, Submit(s, r, answers)
        PROVE  post'[p] = post[p]
    BY <2>1, <2>3, <1>t DEF Submit
  <2>4. ASSUME NEW r \in Posts, CrashOnInsert(r)
        PROVE  UNCHANGED <<post[p].roomId, post[p].seat, post[p].account, post[p].answers>>
    BY <2>4, <1>t DEF CrashOnInsert, Post
  <2>5. ASSUME NEW r \in Posts, ReplyStored(r)
        PROVE  UNCHANGED <<post[p].roomId, post[p].seat, post[p].account, post[p].answers>>
    BY <2>5, <1>t DEF ReplyStored, Post
  <2>6. ASSUME NEW r \in Posts, NEW q \in Questions, InsertAnswer(r, q)
        PROVE  UNCHANGED <<post[p].roomId, post[p].seat, post[p].account, post[p].answers>>
    BY <2>6, <1>t DEF InsertAnswer, Post
  <2>7. \/ post' = post
        \/ \E r \in Posts : CheckPost(r) \/ CrashOnInsert(r) \/ ReplyStored(r)
        \/ \E r \in Posts, q \in Questions : InsertAnswer(r, q)
        \/ \E s \in Seats, r \in Posts, answers \in Drafts : Submit(s, r, answers)
    BY DEF Next, CreateRoom, FinishGame, DeleteRoom, Mount, AnswerMine, ShowForm, Skip,
           TakeReply, LoseReply, vars
  <2> QED BY <2>2, <2>3, <2>4, <2>5, <2>6, <2>7
<1>2. ASSUME NEW k \in Keys, table[k] # None
      PROVE  table'[k] = table[k]
  <2>1. ASSUME NEW p \in Posts, NEW q \in Questions, InsertAnswer(p, q)
        PROVE  table'[k] = table[k]
    BY <1>2, <2>1, <1>t DEF InsertAnswer, Insert
  <2>2. (\E p \in Posts, q \in Questions : InsertAnswer(p, q)) \/ table' = table
    BY DEF Next, CreateRoom, FinishGame, DeleteRoom, Mount, AnswerMine, ShowForm, Skip,
           TakeReply, LoseReply, Submit, CheckPost, CrashOnInsert, ReplyStored, vars
  <2> QED BY <2>1, <2>2
<1> QED BY <1>1, <1>2

LEMMA AnswerStays ==
  ASSUME TypeInv, PostInv, [Next]_vars, NEW a, HasAnswer(a)
  PROVE  HasAnswer(a)'
<1>1. PICK p \in Posts, q \in Questions : Evidence(a, p, q)
  BY DEF HasAnswer
<1>2. UNCHANGED <<post[p].roomId, post[p].seat, post[p].account, post[p].answers>>
  BY <1>1, FactsStay DEF Evidence
<1>3. Key(p, q)' = Key(p, q) /\ Key(p, q) \in Keys
  BY <1>1, <1>2, KeyInKeys DEF Key, Evidence
<1>4. table'[Key(p, q)] # None
  BY <1>1, <1>3, FactsStay DEF Evidence
<1>5. Evidence(a, p, q)'
  BY <1>1, <1>2, <1>3, <1>4 DEF Evidence, Asked
<1> QED BY <1>5 DEF HasAnswer

LEMMA OwnerStep == TypeInv /\ PostInv /\ OwnerInv /\ [Next]_vars => OwnerInv'
<1> SUFFICES ASSUME TypeInv, PostInv, OwnerInv, [Next]_vars
             PROVE  OwnerInv'
  OBVIOUS
<1>t. /\ room \in LiveRoom \cup {None}
      /\ nextRoom \in Nat \ {0} /\ post \in [Posts -> Post]
      /\ \A p \in Posts : post[p].roomId \in Nat
  BY Bounds DEF TypeInv, TypeOK, Post, RoomIds
(* Nothing that an accepted request goes by has changed.                   *)
<1>1. ASSUME nextRoom' = nextRoom,
             room' = None \/ (room # None /\ room'.id = room.id
                                          /\ room'.knownAccounts = room.knownAccounts),
             \A p \in Posts : post'[p].roomId = 0 \/ post'[p].roomId = post[p].roomId
      PROVE  OwnerInv'
  <2>1. ASSUME room' # None
        PROVE  room'.id < nextRoom' /\ room'.id # 0
    BY <1>1, <2>1, Bounds DEF OwnerInv, TypeInv, TypeOK, LiveRoom, RoomIds
  <2>2. ASSUME NEW p \in Posts
        PROVE  /\ post'[p].roomId < nextRoom'
               /\ room' # None /\ post'[p].roomId = room'.id =>
                    room'.knownAccounts[post'[p].seat] = post'[p].account
    <3>1. CASE post'[p].roomId = 0
      BY <3>1, <2>1, <1>1, <1>t
    <3>2. CASE post'[p].roomId # 0
      <4>1. /\ post[p].roomId # 0 /\ post'[p].roomId = post[p].roomId
            /\ post'[p].seat = post[p].seat /\ post'[p].account = post[p].account
        BY <3>2, <1>1, FactsStay
      <4> QED BY <4>1, <1>1 DEF OwnerInv
    <3> QED BY <3>1, <3>2
  <2> QED BY <2>1, <2>2 DEF OwnerInv
<1>2. ASSUME NEW owners \in [Seats -> Accounts], CreateRoom(owners)
      PROVE  OwnerInv'
  <2>1. /\ room'.id = nextRoom /\ nextRoom' = nextRoom + 1 /\ post' = post
    BY <1>2 DEF CreateRoom
  <2> QED BY <2>1, <1>t DEF OwnerInv
<1>3. CASE FinishGame
  <2>1. room # None /\ room'.id = room.id /\ room'.knownAccounts = room.knownAccounts
    BY <1>3 DEF FinishGame, TypeInv, TypeOK, LiveRoom
  <2> QED BY <1>3, <1>1, <2>1 DEF FinishGame
<1>4. CASE DeleteRoom
  BY <1>4, <1>1 DEF DeleteRoom
<1>5. ASSUME NEW p \in Posts, CheckPost(p)
      PROVE  OwnerInv'
  <2>1. /\ UNCHANGED <<room, nextRoom>> /\ \A r \in Posts : r # p => post'[r] = post[r]
        /\ post'[p].seat = post[p].seat /\ post'[p].account = post[p].account
        /\ \/ post'[p].roomId = post[p].roomId
           \/ MayAnswer(p) /\ post'[p].roomId = room.id
    BY <1>5, <1>t DEF CheckPost, Post
  <2> QED BY <2>1, <1>t DEF OwnerInv, MayAnswer
<1>6. ASSUME UNCHANGED <<room, nextRoom>>,
             \A p \in Posts : post'[p].roomId = post[p].roomId
      PROVE  OwnerInv'
  BY <1>6, <1>1
<1>7. ASSUME NEW s \in Seats, NEW p \in Posts, NEW answers \in Drafts, Submit(s, p, answers)
      PROVE  OwnerInv'
  <2>1. UNCHANGED <<room, nextRoom>> /\ \A r \in Posts : post'[r].roomId = post[r].roomId
    BY <1>7, <1>t DEF Submit, Post
  <2> QED BY <1>6, <2>1
<1>8. ASSUME NEW p \in Posts, CrashOnInsert(p) \/ ReplyStored(p)
      PROVE  OwnerInv'
  <2>1. UNCHANGED <<room, nextRoom>> /\ \A r \in Posts : post'[r].roomId = post[r].roomId
    BY <1>8, <1>t DEF CrashOnInsert, ReplyStored, Post
  <2> QED BY <1>6, <2>1
<1>9. ASSUME NEW p \in Posts, NEW q \in Questions, InsertAnswer(p, q)
      PROVE  OwnerInv'
  <2>1. UNCHANGED <<room, nextRoom>> /\ \A r \in Posts : post'[r].roomId = post[r].roomId
    BY <1>9, <1>t DEF InsertAnswer, Post
  <2> QED BY <1>6, <2>1
<1>10. CASE UNCHANGED <<room, nextRoom, post>>
  BY <1>10, <1>6
<1> QED BY <1>2, <1>3, <1>4, <1>5, <1>7, <1>8, <1>9, <1>10
        DEF Next, Mount, AnswerMine, ShowForm, Skip, TakeReply, LoseReply, vars

LEMMA FileStep == TypeInv /\ PostInv /\ FileInv /\ [Next]_vars => FileInv'
<1> SUFFICES ASSUME TypeInv, PostInv, FileInv, [Next]_vars, NEW k \in Keys, table'[k] # None
             PROVE  \E p \in Posts : \E q \in Asked(p)' : post'[p].roomId # 0 /\ k = Key(p, q)'
  BY DEF FileInv
<1>1. \E p \in Posts : \E q \in Asked(p) : post[p].roomId # 0 /\ k = Key(p, q)
  <2>1. CASE table[k] # None
    BY <2>1 DEF FileInv
  <2>2. CASE table[k] = None
    <3>1. PICK p \in Posts, q \in Questions : InsertAnswer(p, q)
      BY <2>2 DEF Next, CreateRoom, FinishGame, DeleteRoom, Mount, AnswerMine, ShowForm, Skip,
             TakeReply, LoseReply, Submit, CheckPost, CrashOnInsert, ReplyStored, vars
    <3>2. k = Key(p, q)
      BY <2>2, <3>1 DEF InsertAnswer, Insert, Key, TypeInv, TypeOK
    <3>3. q \in Asked(p) /\ post[p].roomId # 0
      BY <3>1 DEF InsertAnswer, PostInv
    <3> QED BY <3>2, <3>3
  <2> QED BY <2>1, <2>2
<1>2. PICK p \in Posts : \E q \in Asked(p) : post[p].roomId # 0 /\ k = Key(p, q)
  BY <1>1
<1>3. PICK q \in Asked(p) : post[p].roomId # 0 /\ k = Key(p, q)
  BY <1>2
<1>4. UNCHANGED <<post[p].roomId, post[p].seat, post[p].answers>>
  BY <1>3, FactsStay
<1>5. q \in Asked(p)' /\ post'[p].roomId # 0 /\ k = Key(p, q)'
  BY <1>3, <1>4 DEF Asked, Key
<1> QED BY <1>5

LEMMA HeardStep == TypeInv /\ PostInv /\ FormInv /\ [Next]_vars => HeardInv'
<1> SUFFICES ASSUME TypeInv, PostInv, FormInv, [Next]_vars, NEW s \in Seats, NEW a,
                    a = panel'[s].account,
                    panel'[s].kind \in {"heard-some", "already-submitted"}
             PROVE  HasAnswer(a)'
  BY DEF HeardInv, HasAnswer, Evidence
<1>t. panel \in [Seats -> Panel] /\ room \in LiveRoom \cup {None}
  BY DEF TypeInv, TypeOK
<1>1. CASE panel[s].kind \in {"heard-some", "already-submitted"} /\ panel[s].account = a
  BY <1>1, AnswerStays DEF FormInv, HeardInv
<1>2. CASE AnswerMine(s) /\ HasAnswered(a)
  <2>1. PICK t \in Seats, q \in Questions :
          room # None /\ room.knownAccounts[t] = a /\ table[<<room.id, t, q>>] # None
    BY <1>2 DEF HasAnswered, SeatAskedFor, SeatsOf, AnsweredQuestions
  <2>2. <<room.id, t, q>> \in Keys
    BY <2>1, <1>t DEF LiveRoom, Keys
  <2>3. PICK p \in Posts : \E x \in Asked(p) :
          post[p].roomId # 0 /\ <<room.id, t, q>> = Key(p, x)
    BY <2>1, <2>2 DEF FormInv, FileInv
  <2>4. PICK x \in Asked(p) : post[p].roomId # 0 /\ <<room.id, t, q>> = Key(p, x)
    BY <2>3
  <2>5. post[p].roomId = room.id /\ post[p].seat = t
    BY <2>4 DEF Key
  <2>6. post[p].account = a
    BY <2>1, <2>5 DEF FormInv, OwnerInv
  <2>7. Evidence(a, p, x) /\ x \in Questions
    BY <2>1, <2>4, <2>6 DEF Evidence, Asked
  <2> QED BY <2>7, AnswerStays DEF HasAnswer
<1>3. ASSUME NEW t \in Seats,
             Mount(t) \/ AnswerMine(t) \/ ShowForm(t) \/ Skip(t) \/ TakeReply(t) \/ LoseReply(t)
      PROVE  \/ panel[s].kind \in {"heard-some", "already-submitted"} /\ panel[s].account = a
             \/ AnswerMine(s) /\ HasAnswered(a)
  <2>1. CASE t # s
    <3>1. panel'[s] = panel[s]
      BY <1>3, <2>1, <1>t DEF Mount, AnswerMine, ShowForm, Skip, TakeReply, LoseReply
    <3> QED BY <3>1
  <2>2. CASE t = s
    <3>1. CASE Mount(s)
      <4>1. panel'[s].kind = "checking"
        BY <3>1, <1>t DEF Mount
      <4> QED BY <4>1
    <3>2. CASE AnswerMine(s)
      <4>1. panel'[s].account = panel[s].account
        BY <3>2, <1>t DEF AnswerMine, Panel
      <4>2. panel'[s].kind # "heard-none"
        OBVIOUS
      <4>3. HasAnswered(panel[s].account)
        BY <3>2, <4>2, <1>t DEF AnswerMine, Panel
      <4> QED BY <3>2, <4>1, <4>3
    <3>3. CASE ShowForm(s)
      BY <3>3, <1>t DEF ShowForm, Panel
    <3>4. CASE Skip(s) \/ TakeReply(s) \/ LoseReply(s)
      <4>1. panel'[s].kind \in {"skipped", "dismissed", "submitted", "partly-submitted", "failed"}
        BY <3>4, <1>t DEF Skip, TakeReply, LoseReply, Verdict, Panel
      <4> QED BY <4>1
    <3> QED BY <1>3, <2>2, <3>1, <3>2, <3>3, <3>4
  <2> QED BY <2>1, <2>2
<1>4. ASSUME NEW t \in Seats, NEW p \in Posts, NEW answers \in Drafts, Submit(t, p, answers)
      PROVE  panel[s].kind \in {"heard-some", "already-submitted"} /\ panel[s].account = a
  <2>1. CASE t # s
    BY <1>4, <2>1, <1>t DEF Submit
  <2>2. CASE t = s
    <3>1. panel'[s].kind \in {"dismissed", "saving"}
      BY <1>4, <2>2, <1>t DEF Submit, Panel
    <3> QED BY <3>1
  <2> QED BY <2>1, <2>2
<1>5. CASE panel' = panel
  BY <1>5, <1>1
<1> QED BY <1>1, <1>2, <1>3, <1>4, <1>5
        DEF Next, CreateRoom, FinishGame, DeleteRoom, CheckPost, CrashOnInsert, ReplyStored,
            InsertAnswer, vars

(* A form is withheld only from an account that has an answer on file,     *)
(* although the server asks about the account's first seat, in whichever   *)
(* room has the code now.                                                  *)
THEOREM FormsWithheldFromAnswered == Spec => []FormWithheldOnlyIfAnswered
<1>1. TypeInv /\ PostInv /\ FormInv /\ [Next]_vars => FormInv'
  BY OwnerStep, FileStep, HeardStep DEF FormInv
<1>2. Spec => [](TypeInv /\ PostInv /\ PanelInv /\ FormInv)
  BY <1>1, TypeInit, TypeStep, ThanksInit, ThanksStep, FormInit, PTL DEF Spec
<1>3. FormInv => FormWithheldOnlyIfAnswered
  BY DEF FormInv, HeardInv, HasAnswer, Evidence, FormWithheldOnlyIfAnswered
<1> QED BY <1>2, <1>3, PTL
-----------------------------------------------------------------------------
(* The owner's notes                                                       *)

USE NotesBoundsAssumption DEF Times

LEMMA NotesTypes == NotesTypeOK /\ [NotesNext]_notesVars => NotesTypeOK'
<1> SUFFICES ASSUME NotesTypeOK, [NotesNext]_notesVars
             PROVE  NotesTypeOK'
  OBVIOUS
<1>1. CASE AnswerArrives
  BY <1>1 DEF AnswerArrives, NotesTypeOK
<1>2. ASSUME NEW v \in Visits, ListForGame(v)
      PROVE  NotesTypeOK'
  <2>1. visit' \in [Visits -> Visit]
    BY <1>2 DEF ListForGame, NotesTypeOK, Visit
  <2> QED BY <1>2, <2>1 DEF ListForGame, NotesFail, NotesTypeOK
<1>3. ASSUME NEW v \in Visits, ShowNotes(v)
      PROVE  NotesTypeOK'
  BY <1>3 DEF ShowNotes, NotesTypeOK, Visit
<1>4. ASSUME NEW v \in Visits, TakeMark(v)
      PROVE  NotesTypeOK'
  BY <1>4 DEF TakeMark, MarkTime, NotesTypeOK, Visit
<1>5. ASSUME NEW v \in Visits, MarkRead(v)
      PROVE  NotesTypeOK'
  <2>1. visit' \in [Visits -> Visit] /\ readAt' \in Times
    BY <1>5 DEF MarkRead, NotesTypeOK, Visit
  <2> QED BY <1>5, <2>1 DEF MarkRead, NotesFail, NotesTypeOK
<1>6. ASSUME NEW a \in Asks, AskUnread(a)
      PROVE  NotesTypeOK'
  BY <1>6 DEF AskUnread, NotesTypeOK, Ask
<1>7. ASSUME NEW a \in Asks, GetLatestResponseAt(a)
      PROVE  NotesTypeOK'
  <2>1. ask[a] \in Ask /\ clock \in Times /\ 0 \in Times
    BY <1>7 DEF NotesTypeOK
  <2>2. /\ [ask[a] EXCEPT !.latestDone = TRUE, !.latest = clock] \in Ask
        /\ [ask[a] EXCEPT !.latestDone = TRUE, !.since = 0] \in Ask
    BY <2>1 DEF Ask
  <2>3. ask' \in [Asks -> Ask]
    BY <1>7, <2>2 DEF GetLatestResponseAt, NotesTypeOK
  <2> QED BY <1>7, <2>3 DEF GetLatestResponseAt, NotesFail, NotesTypeOK
<1>8. ASSUME NEW a \in Asks, GetReadAt(a)
      PROVE  NotesTypeOK'
  <2>1. ask[a] \in Ask /\ readAt \in Times
    BY <1>8 DEF NotesTypeOK
  <2>2. /\ [ask[a] EXCEPT !.readDone = TRUE, !.readAt = readAt] \in Ask
        /\ [ask[a] EXCEPT !.readDone = TRUE] \in Ask
    BY <2>1 DEF Ask
  <2>3. ask' \in [Asks -> Ask]
    BY <1>8, <2>2 DEF GetReadAt, NotesTypeOK
  <2> QED BY <1>8, <2>3 DEF GetReadAt, NotesFail, NotesTypeOK
<1>9. ASSUME NEW a \in Asks, AnswerUnread(a)
      PROVE  NotesTypeOK'
  <2>1. HasUnread(ask[a].latest, ask[a].readAt) \in BOOLEAN
    BY DEF HasUnread
  <2> QED BY <1>9, <2>1 DEF AnswerUnread, NotesFail, NotesTypeOK, Ask
<1>10. CASE UNCHANGED notesVars
  BY <1>10 DEF notesVars, NotesTypeOK
<1> QED BY <1>1, <1>2, <1>3, <1>4, <1>5, <1>6, <1>7, <1>8, <1>9, <1>10 DEF NotesNext

(* Every variable keeps its type: no mark, list or flag is of a time that  *)
(* has not come.                                                           *)
THEOREM NotesTypeCorrect == NotesSpec => []NotesTypeOK
<1>1. NotesInit => NotesTypeOK
  BY DEF NotesInit, NotesTypeOK, Visit, Ask
<1> QED BY <1>1, NotesTypes, PTL DEF NotesSpec
-----------------------------------------------------------------------------
(* What is read was shown                                                  *)

Accounted(k) == Shown(k) \/ k \in slipped

(* ReadMeansShown, with the marks on their way, and the pages that are yet *)
(* to be marked: all that was filed since their list has slipped in.       *)
ShownInv ==
  /\ \A k \in 1 .. readAt : Accounted(k)
  /\ \A v \in Visits : visit[v].at = "marking" => \A k \in 1 .. visit[v].mark : Accounted(k)
  /\ \A v \in Visits : visit[v].at \in {"listed", "shown"} =>
       \A k \in 1 .. clock : k <= visit[v].listed \/ k \in slipped

LEMMA NextShown == NotesTypeOK /\ ShownInv /\ [NotesNext]_notesVars => ShownInv'
<1> SUFFICES ASSUME NotesTypeOK, ShownInv, [NotesNext]_notesVars
             PROVE  ShownInv'
  OBVIOUS
<1>1. clock \in Nat /\ \A v \in Visits : visit[v] \in Visit
  BY DEF NotesTypeOK
<1>2. CASE AnswerArrives
  <2>1. \A k \in Nat : Accounted(k) => Accounted(k)'
    BY <1>2 DEF AnswerArrives, Accounted, Shown
  <2>2. ASSUME NEW v \in Visits, visit'[v].at \in {"listed", "shown"},
               NEW k \in 1 .. clock'
        PROVE  k <= visit'[v].listed \/ k \in slipped'
    BY <1>1, <1>2, <2>2 DEF AnswerArrives, ShownInv
  <2> QED BY <1>1, <1>2, <2>1, <2>2 DEF AnswerArrives, ShownInv, Visit, NotesTypeOK
<1>3. ASSUME NEW v \in Visits, ListForGame(v)
      PROVE  ShownInv'
  <2>1. \A k \in Nat : Accounted(k) => Accounted(k)'
    BY <1>3 DEF ListForGame, Accounted, Shown, NotesTypeOK
  <2>2. /\ \A w \in Visits \ {v} : visit'[w] = visit[w]
        /\ visit'[v].at = "listed"
        /\ visit'[v].listed = clock \/ 1 .. clock \subseteq slipped'
        /\ slipped \subseteq slipped' /\ UNCHANGED <<clock, readAt>>
    BY <1>3 DEF ListForGame, NotesTypeOK, Visit
  <2> QED BY <1>1, <2>1, <2>2 DEF ShownInv, Visit, NotesTypeOK
<1>4. ASSUME NEW v \in Visits, NEW stage \in {"shown", "marking", "done"},
             visit[v].at \in {"listed", "shown", "marking"},
             \/ visit' = [visit EXCEPT ![v].at = stage]
             \/ \E t \in Times : visit' = [visit EXCEPT ![v].at = stage, ![v].mark = t],
             slipped' = slipped
      PROVE  /\ \A k \in Nat : Accounted(k) => Accounted(k)'
             /\ \A w \in Visits \ {v} : visit'[w] = visit[w]
             /\ visit'[v].at = stage /\ visit'[v].listed = visit[v].listed
  BY <1>1, <1>4 DEF Accounted, Shown, NotesTypeOK, Visit
<1>5. ASSUME NEW v \in Visits, ShowNotes(v)
      PROVE  ShownInv'
  <2>1. /\ \A k \in Nat : Accounted(k) => Accounted(k)'
        /\ \A w \in Visits \ {v} : visit'[w] = visit[w]
        /\ visit'[v].at = "shown" /\ visit'[v].listed = visit[v].listed
    BY <1>4, <1>5 DEF ShowNotes
  <2> QED BY <1>1, <1>5, <2>1 DEF ShowNotes, ShownInv, Visit, NotesTypeOK
<1>6. ASSUME NEW v \in Visits, TakeMark(v)
      PROVE  ShownInv'
  <2>1. /\ \A k \in Nat : Accounted(k) => Accounted(k)'
        /\ \A w \in Visits \ {v} : visit'[w] = visit[w]
        /\ visit'[v].at = "marking" /\ visit'[v].listed = visit[v].listed
    BY <1>4, <1>6 DEF TakeMark, MarkTime, NotesTypeOK
  <2>2. visit'[v].mark = clock
    BY <1>6 DEF TakeMark, MarkTime, NotesTypeOK, Visit
  <2>3. \A k \in 1 .. clock : Accounted(k)'
    <3> SUFFICES ASSUME NEW k \in 1 .. clock, k \notin slipped
                 PROVE  Accounted(k)
      BY <2>1 DEF Accounted
    <3>1. visit[v].at = "shown" /\ k <= visit[v].listed
      BY <1>6 DEF TakeMark, ShownInv
    <3> QED BY <3>1 DEF Accounted, Shown
  <2> QED BY <1>1, <1>6, <2>1, <2>2, <2>3 DEF TakeMark, ShownInv, Visit, NotesTypeOK
<1>7. ASSUME NEW v \in Visits, MarkRead(v)
      PROVE  ShownInv'
  <2>1. /\ \A k \in Nat : Accounted(k) => Accounted(k)'
        /\ \A w \in Visits \ {v} : visit'[w] = visit[w]
        /\ visit'[v].at = "done"
    BY <1>4, <1>7 DEF MarkRead
  <2>2. readAt' \in {readAt, visit[v].mark} /\ visit[v].at = "marking"
    BY <1>7 DEF MarkRead
  <2> QED BY <1>1, <1>7, <2>1, <2>2 DEF MarkRead, ShownInv, Visit, NotesTypeOK
<1>8. ASSUME UNCHANGED <<clock, readAt, visit, slipped>>
      PROVE  ShownInv'
  BY <1>8 DEF ShownInv, Accounted, Shown
<1>9. ASSUME NEW a \in Asks,
             AskUnread(a) \/ GetLatestResponseAt(a) \/ GetReadAt(a) \/ AnswerUnread(a)
      PROVE  ShownInv'
  BY <1>8, <1>9 DEF AskUnread, GetLatestResponseAt, GetReadAt, AnswerUnread
<1>10. CASE UNCHANGED notesVars
  BY <1>8, <1>10 DEF notesVars
<1> QED BY <1>2, <1>3, <1>5, <1>6, <1>7, <1>9, <1>10 DEF NotesNext

(* No answer is held read that no page has shown, unless it came between a *)
(* list and its mark or a list that failed hid it, however many pages are  *)
(* open and whichever marks are lost (NotesView, POST read).               *)
THEOREM ReadWasShown == NotesSpec => []ReadMeansShown
<1>1. NotesInit => ShownInv
  BY DEF NotesInit, ShownInv
<1>2. ShownInv => ReadMeansShown
  BY DEF ShownInv, Accounted, ReadMeansShown
<1> QED BY <1>1, <1>2, NotesTypeCorrect, NextShown, PTL DEF NotesSpec
-----------------------------------------------------------------------------
(* No false all-clear                                                      *)

(* What a home page knows: its latest answer is no older than its asking,  *)
(* and the mark it read was made.                                          *)
Known(a) ==
  /\ ask[a].readAt <= lastRead
  /\ ask[a].at = "idle" => ~ask[a].latestDone
  /\ ask[a].at = "asking" =>
       /\ ask[a].latestDone => ask[a].since <= ask[a].latest
       /\ ask[a].since <= clock
  /\ ask[a].at = "told" /\ ~ask[a].unread => ask[a].since <= lastRead

AllClearInv ==
  /\ readAt <= lastRead
  /\ \A v \in Visits : visit[v].at = "marking" => visit[v].mark <= lastRead
  /\ \A a \in Asks : Known(a)

LEMMA NextAllClear == NotesTypeOK /\ AllClearInv /\ [NotesNext]_notesVars => AllClearInv'
<1> SUFFICES ASSUME NotesTypeOK, AllClearInv, [NotesNext]_notesVars
             PROVE  AllClearInv'
  OBVIOUS
<1>1. /\ clock \in Nat /\ readAt \in Nat /\ lastRead \in Nat
      /\ \A v \in Visits : visit[v].mark \in Nat
      /\ \A a \in Asks : /\ ask[a] \in Ask
                         /\ ask[a].since \in Nat /\ ask[a].latest \in Nat /\ ask[a].readAt \in Nat
  BY DEF NotesTypeOK, Visit, Ask
<1>2. ASSUME ask' = ask, clock' \in Nat, clock <= clock', lastRead' \in Nat, lastRead <= lastRead'
      PROVE  \A a \in Asks : Known(a)'
  BY <1>1, <1>2 DEF AllClearInv, Known
<1>3. CASE AnswerArrives
  BY <1>1, <1>2, <1>3 DEF AnswerArrives, AllClearInv
<1>4. ASSUME NEW v \in Visits, ListForGame(v) \/ ShowNotes(v)
      PROVE  AllClearInv'
  <2>1. UNCHANGED <<clock, readAt, lastRead, ask>>
    BY <1>4 DEF ListForGame, ShowNotes
  <2>2. \A w \in Visits : visit'[w].at = "marking" => visit'[w] = visit[w]
    BY <1>4 DEF ListForGame, ShowNotes, NotesTypeOK, Visit
  <2> QED BY <1>1, <1>2, <2>1, <2>2 DEF AllClearInv
<1>5. ASSUME NEW v \in Visits, TakeMark(v)
      PROVE  AllClearInv'
  <2>1. /\ UNCHANGED <<clock, readAt, ask>>
        /\ lastRead <= lastRead' /\ clock <= lastRead' /\ lastRead' \in Nat
    BY <1>1, <1>5 DEF TakeMark, MarkTime
  <2>2. \A w \in Visits : visit'[w] = visit[w] \/ visit'[w].mark = clock
    BY <1>5 DEF TakeMark, MarkTime, NotesTypeOK, Visit
  <2> QED BY <1>1, <1>2, <2>1, <2>2 DEF AllClearInv
<1>6. ASSUME NEW v \in Visits, MarkRead(v)
      PROVE  AllClearInv'
  <2>1. /\ UNCHANGED <<clock, lastRead, ask>>
        /\ readAt' \in {readAt, visit[v].mark} /\ visit[v].at = "marking"
    BY <1>6 DEF MarkRead
  <2>2. \A w \in Visits : visit'[w].at = "marking" => visit'[w] = visit[w]
    BY <1>6 DEF MarkRead, NotesTypeOK, Visit
  <2> QED BY <1>1, <1>2, <2>1, <2>2 DEF AllClearInv
<1>7. ASSUME NEW a \in Asks,
             UNCHANGED <<clock, readAt, visit, lastRead>>,
             \A b \in Asks \ {a} : ask'[b] = ask[b],
             Known(a)'
      PROVE  AllClearInv'
  BY <1>7 DEF AllClearInv, Known
<1>8. ASSUME NEW a \in Asks, AskUnread(a)
      PROVE  AllClearInv'
  BY <1>1, <1>7, <1>8 DEF AskUnread, Known, NotesTypeOK, AllClearInv, Ask
<1>9. ASSUME NEW a \in Asks, GetLatestResponseAt(a)
      PROVE  AllClearInv'
  <2>1. /\ ask[a].at = "asking" /\ ask'[a].at = "asking" /\ ask'[a].readDone = ask[a].readDone
        /\ ask'[a].readAt = ask[a].readAt
        /\ \/ ask'[a].latest = clock /\ ask'[a].since = ask[a].since
           \/ ask'[a].since = 0
    BY <1>9 DEF GetLatestResponseAt, NotesTypeOK, Ask
  <2>2. Known(a)
    BY DEF AllClearInv
  <2>3. /\ UNCHANGED <<clock, readAt, visit, lastRead>>
        /\ \A b \in Asks \ {a} : ask'[b] = ask[b]
    BY <1>9 DEF GetLatestResponseAt, NotesTypeOK
  <2>4. ask'[a].latest \in Nat
    BY <1>1, <1>9 DEF GetLatestResponseAt, NotesTypeOK, Ask
  <2>5. Known(a)'
    BY <1>1, <2>1, <2>2, <2>3, <2>4 DEF Known
  <2> QED BY <1>7, <2>3, <2>5
<1>10. ASSUME NEW a \in Asks, GetReadAt(a)
      PROVE  AllClearInv'
  <2>1. /\ ask[a].at = "asking" /\ ask'[a].at = "asking"
        /\ ask'[a].latestDone = ask[a].latestDone /\ ask'[a].latest = ask[a].latest
        /\ ask'[a].since = ask[a].since
        /\ ask'[a].readAt = readAt \/ ask'[a].readAt = ask[a].readAt
    BY <1>10 DEF GetReadAt, NotesTypeOK, Ask
  <2>2. Known(a) /\ readAt <= lastRead
    BY DEF AllClearInv
  <2>3. /\ UNCHANGED <<clock, readAt, visit, lastRead>>
        /\ \A b \in Asks \ {a} : ask'[b] = ask[b]
    BY <1>10 DEF GetReadAt, NotesTypeOK
  <2>4. Known(a)'
    BY <1>1, <2>1, <2>2, <2>3 DEF Known
  <2> QED BY <1>7, <2>3, <2>4
<1>11. ASSUME NEW a \in Asks, AnswerUnread(a)
      PROVE  AllClearInv'
  BY <1>1, <1>7, <1>11 DEF AnswerUnread, HasUnread, Known, NotesTypeOK, AllClearInv, Ask
<1>12. CASE UNCHANGED notesVars
  BY <1>12 DEF notesVars, AllClearInv, Known
<1> QED BY <1>3, <1>4, <1>5, <1>6, <1>8, <1>9, <1>10, <1>11, <1>12 DEF NotesNext

(* A home page that reports nothing new has an owner who marked as read    *)
(* whatever was there when it asked, unless its request or the query for   *)
(* the latest answer failed (surveyRoutes.ts:182, feedback.ts:11-22).      *)
THEOREM AllClearIsTrue == NotesSpec => []NoFalseAllClear
<1>1. NotesInit => AllClearInv
  BY DEF NotesInit, AllClearInv, Known
<1>2. AllClearInv => NoFalseAllClear
  BY DEF AllClearInv, Known, NoFalseAllClear
<1> QED BY <1>1, <1>2, NotesTypeCorrect, NextAllClear, PTL DEF NotesSpec
=============================================================================
