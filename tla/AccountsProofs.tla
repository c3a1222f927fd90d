--------------------------- MODULE AccountsProofs ---------------------------
(***************************************************************************)
(* Proofs about sign-in, for any number of addresses, overlapping requests *)
(* and failures: a link is spent once, everyone acts as the account their  *)
(* link was mailed to, an account is announced once, and the cap on links  *)
(* is overshot by no more than the requests that overlap.                  *)
(***************************************************************************)
EXTENDS Accounts, FiniteSetTheorems, TLAPS

(* The tokens of the two kinds of session call.                            *)
Callers == Checks \cup Saves

LEMMA HandlersDistinct ==
  /\ \A l \in LinkRequests : l \notin Verifications /\ l \notin Callers /\ l \notin SignOuts
  /\ \A v \in Verifications : v \notin Callers /\ v \notin SignOuts
  /\ \A o \in SignOuts : o \notin Callers
BY HandlersAssumption DEF Callers

LEMMA LinkUsed ==
  ASSUME NEW l \in Link
  PROVE  l.email \in Emails /\ [l EXCEPT !.used = TRUE] \in Link
BY DEF Link

LEMMA SessionOver ==
  ASSUME NEW s \in Session
  PROVE  [s EXCEPT !.live = FALSE] \in Session
BY DEF Session
-----------------------------------------------------------------------------
(* Types                                                                   *)

(* A handler that writes to a row knows whose row it is.                   *)
HandlerInv ==
  /\ \A l \in LinkRequests : at[l] \in {"account", "link"} => who[l] \in Emails
  /\ \A v \in Verifications : at[v] = "session" => who[v] \in Emails
  /\ \A v \in Verifications : at[v] = "consume" => arg[v] \in LinkRequests
  /\ \A h \in Callers : at[h] = "session" => arg[h] \in Verifications
  /\ \A s \in Saves : at[s] \in {"name", "chime"} => who[s] \in Emails
  /\ \A o \in SignOuts : at[o] = "delete" => arg[o] \in Verifications

(* Which queries each kind of handler makes.                               *)
StageInv ==
  /\ \A l \in LinkRequests : at[l] \in {"idle", "account", "link", "done"}
  /\ \A v \in Verifications : at[v] \in {"idle", "consume", "session", "done"}
  /\ \A h \in Callers : at[h] \in {"idle", "session", "name", "chime", "done"}
  /\ \A o \in SignOuts : at[o] \in {"idle", "delete", "done"}

TypeInv == TypeOK /\ HandlerInv /\ StageInv

LEMMA TypeStep == TypeInv /\ [Next]_vars => TypeInv'
<1> SUFFICES ASSUME TypeInv, [Next]_vars
             PROVE  TypeInv'
  OBVIOUS
<1> USE HandlersDistinct, MaxFaultsAssumption
    DEF TypeInv, TypeOK, HandlerInv, StageInv, Handlers, Callers, Stages, Moves,
        QueryAnswers, QueryFails, QueryIsSent, tables
<1>1. ASSUME NEW l \in LinkRequests, NEW e \in Emails, CountLinks(l, e)
      PROVE  TypeInv'
  BY <1>1 DEF CountLinks
<1>2. ASSUME NEW l \in LinkRequests, GetOrCreateAccount(l)
      PROVE  TypeInv'
  <2>1. NewAccount \in Account
    BY DEF NewAccount, Account
  <2>2. who[l] \in Emails
    BY <1>2 DEF GetOrCreateAccount
  <2>3. accounts' \in [Emails -> Account \cup {None}]
    BY <1>2, <2>1, <2>2 DEF GetOrCreateAccount
  <2>4. notices' \in [Emails -> Nat]
    BY <1>2, <2>2 DEF GetOrCreateAccount
  <2> QED BY <1>2, <2>3, <2>4 DEF GetOrCreateAccount
<1>3. ASSUME NEW l \in LinkRequests, CreateMagicLink(l)
      PROVE  TypeInv'
  <2>1. [email |-> who[l], age |-> "valid", used |-> FALSE] \in Link
    BY <1>3 DEF CreateMagicLink, Link, Ages
  <2>2. \E r \in Link : links' = links \/ links' = [links EXCEPT ![l] = r]
    BY <1>3, <2>1, Zenon DEF CreateMagicLink
  <2>3. links' \in [LinkRequests -> Link \cup {None}]
    BY <2>2
  <2> QED BY <1>3, <2>3 DEF CreateMagicLink
<1>4. ASSUME NEW v \in Verifications, NEW l \in LinkRequests, RequestVerify(v, l)
      PROVE  TypeInv'
  BY <1>4 DEF RequestVerify
<1>5. ASSUME NEW v \in Verifications, ConsumeMagicLink(v)
      PROVE  TypeInv'
  <2>1. arg[v] \in LinkRequests
    BY <1>5 DEF ConsumeMagicLink
  <2>2. Consumable(arg[v]) =>
          links[arg[v]].email \in Emails
          /\ [links EXCEPT ![arg[v]].used = TRUE] \in [LinkRequests -> Link \cup {None}]
    BY <2>1, LinkUsed DEF Consumable
  <2>3. links' \in [LinkRequests -> Link \cup {None}]
    BY <1>5, <2>2 DEF ConsumeMagicLink
  <2>4. who' \in [Handlers -> Emails \cup {None}] /\ (at'[v] = "session" => who'[v] \in Emails)
    BY <1>5, <2>1, <2>2 DEF ConsumeMagicLink
  <2>5. \A h \in Handlers : h # v => at'[h] = at[h] /\ who'[h] = who[h]
    BY <1>5 DEF ConsumeMagicLink
  <2>6. at' \in [Handlers -> Stages] /\ at'[v] \in {"session", "done"}
    BY <1>5 DEF ConsumeMagicLink
  <2>7. UNCHANGED <<accounts, sessions, arg, mailed, notices, uncounted>> /\ faults' \in 0 .. MaxFaults
    BY <1>5 DEF ConsumeMagicLink
  <2> QED BY <2>3, <2>4, <2>5, <2>6, <2>7
<1>6. ASSUME NEW v \in Verifications, CreateSession(v)
      PROVE  TypeInv'
  <2>1. [email |-> who[v], live |-> TRUE] \in Session
    BY <1>6 DEF CreateSession, Session
  <2>2. \E r \in Session : sessions' = sessions \/ sessions' = [sessions EXCEPT ![v] = r]
    BY <1>6, <2>1, Zenon DEF CreateSession
  <2>3. sessions' \in [Verifications -> Session \cup {None}]
    BY <2>2
  <2> QED BY <1>6, <2>3 DEF CreateSession
<1>7. ASSUME NEW h \in Callers, NEW v \in Verifications, RequestWithToken(h, v)
      PROVE  TypeInv'
  BY <1>7 DEF RequestWithToken
<1>8. ASSUME NEW h \in Callers, GetSession(h)
      PROVE  TypeInv'
  <2>1. arg[h] \in Verifications
    BY <1>8 DEF GetSession
  <2>2. IsLive(arg[h]) => sessions[arg[h]].email \in Emails
    BY <2>1 DEF IsLive, Session
  <2>3. who' \in [Handlers -> Emails \cup {None}] /\ (at'[h] \in {"name", "chime"} => who'[h] \in Emails)
    BY <1>8, <2>2 DEF GetSession
  <2>4. \A g \in Handlers : g # h => at'[g] = at[g] /\ who'[g] = who[g]
    BY <1>8 DEF GetSession
  <2>5. at' \in [Handlers -> Stages] /\ at'[h] \in {"name", "done"}
    BY <1>8 DEF GetSession
  <2>6. UNCHANGED <<tables, arg, mailed, notices, uncounted>> /\ faults' \in 0 .. MaxFaults
    BY <1>8 DEF GetSession
  <2> QED BY <2>3, <2>4, <2>5, <2>6
<1>9. ASSUME NEW s \in Saves, SetDisplayName(s)
      PROVE  TypeInv'
  <2>1. who[s] \in Emails
    BY <1>9 DEF SetDisplayName
  <2>2. accounts' \in [Emails -> Account \cup {None}]
    BY <1>9, <2>1 DEF SetDisplayName, Account
  <2> QED BY <1>9, <2>2 DEF SetDisplayName
<1>10. ASSUME NEW s \in Saves, SetTurnChimeEnabled(s)
       PROVE  TypeInv'
  <2>1. who[s] \in Emails
    BY <1>10 DEF SetTurnChimeEnabled
  <2>2. accounts' \in [Emails -> Account \cup {None}]
    BY <1>10, <2>1 DEF SetTurnChimeEnabled, Account
  <2> QED BY <1>10, <2>2 DEF SetTurnChimeEnabled
<1>11. ASSUME NEW o \in SignOuts, NEW v \in Verifications, RequestSignOut(o, v)
       PROVE  TypeInv'
  BY <1>11 DEF RequestSignOut
<1>12. ASSUME NEW o \in SignOuts, DeleteSession(o)
       PROVE  TypeInv'
  BY <1>12 DEF DeleteSession
<1>13. ASSUME NEW l \in LinkRequests, LinkAges(l)
       PROVE  TypeInv'
  <2>1. links' \in [LinkRequests -> Link \cup {None}]
    BY <1>13 DEF LinkAges, Link, Ages
  <2> QED BY <1>13, <2>1 DEF LinkAges
<1>14. ASSUME NEW v \in Verifications, SessionExpires(v)
       PROVE  TypeInv'
  <2>1. sessions' \in [Verifications -> Session \cup {None}]
    BY <1>14, SessionOver DEF SessionExpires, IsLive
  <2> QED BY <1>14, <2>1 DEF SessionExpires
<1>15. CASE UNCHANGED vars
  BY <1>15 DEF vars
<1> QED BY <1>1, <1>2, <1>3, <1>4, <1>5, <1>6, <1>7, <1>8, <1>9, <1>10, <1>11,
           <1>12, <1>13, <1>14, <1>15 DEF Next, HandlerStep, TimePasses

LEMMA TypeInit == Init => TypeInv
BY MaxFaultsAssumption, HandlersDistinct
   DEF Init, TypeInv, TypeOK, HandlerInv, StageInv, Handlers, Callers, Stages

(* Every variable keeps its type, because each handler makes its queries   *)
(* in the order of the code and knows by then whose row it writes.         *)
THEOREM AccountsTypeCorrect == Spec => []TypeOK
<1>1. Spec => []TypeInv
  BY TypeInit, TypeStep, PTL DEF Spec
<1> QED BY <1>1, PTL DEF TypeInv
-----------------------------------------------------------------------------
(* Who is who                                                              *)

(* A link's row is of the address its request was for, and comes with the  *)
(* end of that request.                                                    *)
LinkInv ==
  \A l \in LinkRequests :
    /\ l \in mailed => at[l] = "done"
    /\ links[l] # None => at[l] = "done" /\ links[l].email = who[l]

(* A verification that has an account in hand has spent its link.          *)
VerificationInv ==
  \A v \in Verifications :
    /\ at[v] # "idle" => arg[v] \in mailed
    /\ at[v] \in {"idle", "consume"} => who[v] = None
    /\ sessions[v] # None => at[v] = "done" /\ who[v] # None /\ sessions[v].email = who[v]
    /\ who[v] # None =>
         /\ at[v] # "idle"
         /\ links[arg[v]] # None /\ links[arg[v]].used /\ who[v] = who[arg[v]]

(* A call with a token acts as whom the token was issued to.               *)
CallerInv ==
  \A h \in Callers :
    /\ at[h] = "idle" => who[h] = None
    /\ at[h] # "idle" => arg[h] \in Issued
    /\ who[h] # None => who[h] = who[arg[h]]

WhoInv == LinkInv /\ VerificationInv /\ CallerInv /\ LinkSpentOnce

LEMMA WhoInit == Init => WhoInv
BY HandlersDistinct
   DEF Init, WhoInv, LinkInv, VerificationInv, CallerInv, LinkSpentOnce, Handlers, Callers

LEMMA WhoStep == TypeInv /\ WhoInv /\ [Next]_vars => WhoInv'
<1> SUFFICES ASSUME TypeInv, WhoInv, [Next]_vars
             PROVE  WhoInv'
  OBVIOUS
<1>t. /\ at \in [Handlers -> Stages] /\ who \in [Handlers -> Emails \cup {None}]
      /\ arg \in [Handlers -> LinkRequests \cup Verifications \cup {None}]
      /\ links \in [LinkRequests -> Link \cup {None}]
      /\ sessions \in [Verifications -> Session \cup {None}]
      /\ mailed \subseteq LinkRequests
  BY DEF TypeInv, TypeOK
<1>s. StageInv /\ HandlerInv
  BY DEF TypeInv
<1> USE HandlersDistinct, NoneAssumption, <1>t
    DEF WhoInv, LinkInv, VerificationInv, CallerInv, LinkSpentOnce, Handlers, Callers,
        Issued, Moves, tables
<1>1. ASSUME NEW l \in LinkRequests, NEW e \in Emails, CountLinks(l, e)
      PROVE  WhoInv'
  <2>1. l \notin mailed /\ links[l] = None
    BY <1>1 DEF CountLinks
  <2>2. \A h \in Handlers : h # l => at'[h] = at[h] /\ who'[h] = who[h]
    BY <1>1 DEF CountLinks
  <2>3. UNCHANGED <<links, sessions, arg, mailed>>
    BY <1>1 DEF CountLinks
  <2> QED BY <2>1, <2>2, <2>3
<1>2. ASSUME NEW l \in LinkRequests, GetOrCreateAccount(l)
      PROVE  WhoInv'
  BY <1>2 DEF GetOrCreateAccount
<1>3. ASSUME NEW l \in LinkRequests, CreateMagicLink(l)
      PROVE  WhoInv'
  <2>1. l \notin mailed /\ links[l] = None
    BY <1>3 DEF CreateMagicLink
  <2>2. \A m \in LinkRequests : m # l => links'[m] = links[m]
    BY <1>3 DEF CreateMagicLink
  <2>3. links'[l] # None => links'[l].email = who[l]
    BY <1>3, <2>1 DEF CreateMagicLink
  <2>4. at' = [at EXCEPT ![l] = "done"] /\ mailed' = mailed \cup {l}
        /\ UNCHANGED <<sessions, who, arg>>
    BY <1>3 DEF CreateMagicLink
  <2> QED BY <2>1, <2>2, <2>3, <2>4
<1>4. ASSUME NEW v \in Verifications, NEW l \in LinkRequests, RequestVerify(v, l)
      PROVE  WhoInv'
  BY <1>4 DEF RequestVerify
<1>5. ASSUME NEW v \in Verifications, ConsumeMagicLink(v)
      PROVE  WhoInv'
  <2> DEFINE l == arg[v]
  <2>1. l \in mailed /\ at[v] = "consume" /\ who[v] = None /\ v \notin Issued
    BY <1>5 DEF ConsumeMagicLink
  <2>l. l \in LinkRequests
    BY <2>1
  <2>2. \A h \in Handlers : h # v => at'[h] = at[h] /\ who'[h] = who[h]
    BY <1>5 DEF ConsumeMagicLink
  <2>3. at'[v] \in {"session", "done"} /\ UNCHANGED <<sessions, arg, mailed>>
    BY <1>5 DEF ConsumeMagicLink
  <2>4. \A m \in LinkRequests : m # l => links'[m] = links[m]
    BY <1>5 DEF ConsumeMagicLink
  <2>5. links[l] # None =>
          links'[l] # None /\ links'[l].email = links[l].email
          /\ (links[l].used => links'[l].used)
    <3>1. links[l] # None => links[l] \in Link
      BY <2>l
    <3>2. links' = links \/ links' = [links EXCEPT ![l].used = TRUE]
      BY <1>5 DEF ConsumeMagicLink
    <3>3. CASE links' = links
      BY <3>3
    <3>4. CASE links' = [links EXCEPT ![l].used = TRUE]
      <4>1. links[l] # None => links'[l] = [links[l] EXCEPT !.used = TRUE]
        BY <3>4, <2>l
      <4> QED BY <4>1, <3>1, LinkUsed DEF Link
    <3> QED BY <3>2, <3>3, <3>4
  <2>6. links[l] = None => links' = links
    BY <1>5 DEF ConsumeMagicLink, Consumable
  <2>7. who'[v] # None =>
          /\ links[l] # None /\ ~links[l].used
          /\ links'[l] # None /\ links'[l].used /\ who'[v] = who[l]
    <3> SUFFICES ASSUME who'[v] # None
                 PROVE  /\ links[l] # None /\ ~links[l].used
                        /\ links'[l] # None /\ links'[l].used /\ who'[v] = who[l]
      OBVIOUS
    <3>1. /\ Consumable(l) /\ links' = [links EXCEPT ![l].used = TRUE]
          /\ who' = [who EXCEPT ![v] = links[l].email]
      BY <1>5, <2>1 DEF ConsumeMagicLink
    <3>2. links[l] \in Link /\ ~links[l].used /\ links[l].email = who[l]
      BY <3>1, <2>1 DEF Consumable
    <3>3. links'[l] = [links[l] EXCEPT !.used = TRUE]
      BY <3>1, <2>l
    <3> QED BY <3>1, <3>2, <3>3, <2>5 DEF Link
  <2>8. LinkInv'
    BY <2>1, <2>2, <2>3, <2>4, <2>5, <2>6
  <2>9. VerificationInv'
    <3> SUFFICES ASSUME NEW w \in Verifications
                 PROVE  /\ at'[w] # "idle" => arg[w] \in mailed
                        /\ at'[w] \in {"idle", "consume"} => who'[w] = None
                        /\ sessions[w] # None =>
                             at'[w] = "done" /\ who'[w] # None /\ sessions[w].email = who'[w]
                        /\ who'[w] # None =>
                             /\ at'[w] # "idle"
                             /\ links'[arg[w]] # None /\ links'[arg[w]].used
                             /\ who'[w] = who'[arg[w]]
      BY <2>3
    <3>1. CASE w = v
      BY <3>1, <2>1, <2>2, <2>3, <2>7
    <3>2. CASE w # v
      <4>1. at[w] # "idle" => arg[w] \in LinkRequests /\ who'[arg[w]] = who[arg[w]]
        BY <2>2
      <4> QED BY <3>2, <4>1, <2>2, <2>4, <2>5
    <3> QED BY <3>1, <3>2
  <2>10. CallerInv'
    BY <2>1, <2>2, <2>3
  <2>11. LinkSpentOnce'
    BY <2>1, <2>2, <2>3, <2>7
  <2> QED BY <2>8, <2>9, <2>10, <2>11
<1>6. ASSUME NEW v \in Verifications, CreateSession(v)
      PROVE  WhoInv'
  <2>1. who[v] \in Emails /\ at[v] = "session" /\ v \notin Issued
    BY <1>6, <1>s DEF CreateSession, HandlerInv
  <2>2. \A w \in Verifications : w # v => sessions'[w] = sessions[w]
    BY <1>6 DEF CreateSession
  <2>3. sessions'[v] # None => sessions'[v].email = who[v]
    BY <1>6, <2>1 DEF CreateSession
  <2>4. at' = [at EXCEPT ![v] = "done"] /\ UNCHANGED <<links, who, arg, mailed>>
    BY <1>6 DEF CreateSession
  <2> QED BY <2>1, <2>2, <2>3, <2>4
<1>7. ASSUME NEW h \in Callers, NEW v \in Verifications, RequestWithToken(h, v)
      PROVE  WhoInv'
  BY <1>7 DEF RequestWithToken
<1>8. ASSUME NEW h \in Callers, GetSession(h)
      PROVE  WhoInv'
  <2>1. at[h] = "session" /\ arg[h] \in Issued
    BY <1>8 DEF GetSession
  <2>2. \A g \in Handlers : g # h => at'[g] = at[g] /\ who'[g] = who[g]
    BY <1>8 DEF GetSession
  <2>3. at'[h] # "idle" /\ UNCHANGED <<links, sessions, arg, mailed>>
    BY <1>8 DEF GetSession
  <2>4. who'[h] # None => who'[h] = who[arg[h]]
    BY <1>8, <2>1 DEF GetSession, IsLive
  <2> QED BY <2>1, <2>2, <2>3, <2>4
<1>9. ASSUME NEW s \in Saves, SetDisplayName(s) \/ SetTurnChimeEnabled(s)
      PROVE  WhoInv'
  <2>1. /\ at[s] # "idle" /\ UNCHANGED <<links, sessions, who, arg, mailed>>
        /\ at' = [at EXCEPT ![s] = "chime"] \/ at' = [at EXCEPT ![s] = "done"]
    BY <1>9 DEF SetDisplayName, SetTurnChimeEnabled
  <2> QED BY <2>1
<1>10. ASSUME NEW o \in SignOuts, NEW v \in Verifications, RequestSignOut(o, v)
       PROVE  WhoInv'
  BY <1>10 DEF RequestSignOut
<1>11. ASSUME NEW o \in SignOuts, DeleteSession(o)
       PROVE  WhoInv'
  <2>1. \A w \in Verifications : sessions'[w] = sessions[w] \/ sessions'[w] = None
    BY <1>11 DEF DeleteSession
  <2>2. at' = [at EXCEPT ![o] = "done"] /\ UNCHANGED <<links, who, arg, mailed>>
    BY <1>11 DEF DeleteSession
  <2> QED BY <2>1, <2>2
<1>12. ASSUME NEW l \in LinkRequests, LinkAges(l)
       PROVE  WhoInv'
  <2>1. links[l] # None /\ links[l] \in Link
    BY <1>12 DEF LinkAges
  <2>2. links'[l] # None /\ links'[l].email = links[l].email /\ links'[l].used = links[l].used
    <3>1. PICK age \in Ages : links' = [links EXCEPT ![l].age = age]
      BY <1>12, <2>1 DEF LinkAges, Ages
    <3>2. links'[l] = [links[l] EXCEPT !.age = age]
      BY <3>1
    <3> QED BY <2>1, <3>2 DEF Link
  <2>3. \A m \in LinkRequests : m # l => links'[m] = links[m]
    BY <1>12 DEF LinkAges
  <2>4. UNCHANGED <<sessions, at, who, arg, mailed>>
    BY <1>12 DEF LinkAges
  <2> QED BY <2>1, <2>2, <2>3, <2>4
<1>13. ASSUME NEW v \in Verifications, SessionExpires(v)
       PROVE  WhoInv'
  <2>1. sessions[v] \in Session /\ sessions[v] # None
    BY <1>13 DEF SessionExpires, IsLive
  <2>2. sessions'[v].email = sessions[v].email
    BY <1>13, <2>1 DEF SessionExpires, Session
  <2>3. \A w \in Verifications : w # v => sessions'[w] = sessions[w]
    BY <1>13 DEF SessionExpires
  <2>4. UNCHANGED <<links, at, who, arg, mailed>>
    BY <1>13 DEF SessionExpires
  <2> QED BY <2>1, <2>2, <2>3, <2>4
<1>14. CASE UNCHANGED vars
  BY <1>14 DEF vars
<1> QED BY <1>1, <1>2, <1>3, <1>4, <1>5, <1>6, <1>7, <1>8, <1>9, <1>10, <1>11,
           <1>12, <1>13, <1>14 DEF Next, HandlerStep, TimePasses

(* A link signs in once, however many requests present it together.        *)
THEOREM LinksSpentOnce == Spec => []LinkSpentOnce
<1>1. Spec => [](TypeInv /\ WhoInv)
  BY TypeInit, TypeStep, WhoInit, WhoStep, PTL DEF Spec
<1>2. WhoInv => LinkSpentOnce
  BY DEF WhoInv
<1> QED BY <1>1, <1>2, PTL

(* Every session, check and save is of the account whose address the link  *)
(* behind it was mailed to, however requests and failures interleave.      *)
THEOREM EveryoneActsAsMailed == Spec => []ActsAsMailedAccount
<1>1. Spec => [](TypeInv /\ WhoInv)
  BY TypeInit, TypeStep, WhoInit, WhoStep, PTL DEF Spec
<1>2. WhoInv => ActsAsMailedAccount
  BY DEF WhoInv, VerificationInv, CallerInv, ActsAsMailedAccount, Callers
<1> QED BY <1>1, <1>2, PTL
-----------------------------------------------------------------------------
(* Announcements                                                           *)

LEMMA AnnounceInit == Init => AnnouncedOnce
BY DEF Init, AnnouncedOnce

LEMMA AnnounceStep == TypeInv /\ AnnouncedOnce /\ [Next]_vars => AnnouncedOnce'
<1> SUFFICES ASSUME TypeInv, AnnouncedOnce, [Next]_vars
             PROVE  AnnouncedOnce'
  OBVIOUS
<1>t. /\ accounts \in [Emails -> Account \cup {None}] /\ notices \in [Emails -> Nat]
      /\ faults \in Nat /\ None \notin Account
  BY NoneAssumption, MaxFaultsAssumption DEF TypeInv, TypeOK
<1>h. HandlerInv
  BY DEF TypeInv
(* All but three queries leave the tables of accounts and notices alone.   *)
<1>u. ASSUME UNCHANGED <<accounts, notices>>, faults' = faults \/ faults' = faults + 1
      PROVE  AnnouncedOnce'
  BY <1>u, <1>t DEF AnnouncedOnce
<1>1. ASSUME NEW l \in LinkRequests, GetOrCreateAccount(l)
      PROVE  AnnouncedOnce'
  <2> DEFINE e == who[l]
  <2>1. e \in Emails /\ NewAccount # None
    BY <1>1, <1>h, <1>t DEF GetOrCreateAccount, HandlerInv, NewAccount, Account
  <2>2. CASE QueryAnswers
    <3>1. CASE IsNew(e)
      <4>1. accounts' = [accounts EXCEPT ![e] = NewAccount]
            /\ notices' = [notices EXCEPT ![e] = @ + 1]
        BY <1>1, <2>2, <3>1, <1>t DEF GetOrCreateAccount, QueryAnswers, QueryFails, IsNew
      <4> QED BY <2>1, <2>2, <3>1, <4>1, <1>t DEF AnnouncedOnce, IsNew, QueryAnswers
    <3>2. CASE ~IsNew(e)
      <4>1. UNCHANGED <<accounts, notices>>
        BY <1>1, <2>2, <3>2, <1>t DEF GetOrCreateAccount, QueryAnswers, QueryFails, IsNew
      <4> QED BY <4>1, <2>2, <1>u DEF QueryAnswers
    <3> QED BY <3>1, <3>2
  <2>3. CASE ~QueryAnswers
    <3>1. UNCHANGED notices /\ faults' = faults + 1
      BY <1>1, <2>3 DEF GetOrCreateAccount, QueryFails
    <3>2. \A f \in Emails : accounts[f] # None => accounts'[f] # None
      BY <1>1, <2>1, <2>3, <1>t DEF GetOrCreateAccount
    <3> QED BY <3>1, <3>2, <1>t DEF AnnouncedOnce
  <2> QED BY <2>2, <2>3
<1>2. ASSUME NEW s \in Saves, SetDisplayName(s) \/ SetTurnChimeEnabled(s)
      PROVE  AnnouncedOnce'
  <2>1. who[s] \in Emails
    BY <1>2, <1>h DEF SetDisplayName, SetTurnChimeEnabled, HandlerInv
  <2>2. \A f \in Emails : accounts'[f] = None <=> accounts[f] = None
    <3>1. CASE accounts' = accounts
      BY <3>1
    <3>2. CASE accounts[who[s]] # None /\ accounts' = [accounts EXCEPT ![who[s]].name = s]
      <4>1. [accounts[who[s]] EXCEPT !.name = s] \in Account
        BY <2>1, <3>2, <1>t DEF Account
      <4> QED BY <2>1, <3>2, <4>1, <1>t
    <3>3. CASE accounts[who[s]] # None /\ accounts' = [accounts EXCEPT ![who[s]].chime = s]
      <4>1. [accounts[who[s]] EXCEPT !.chime = s] \in Account
        BY <2>1, <3>3, <1>t DEF Account
      <4> QED BY <2>1, <3>3, <4>1, <1>t
    <3> QED BY <1>2, <3>1, <3>2, <3>3 DEF SetDisplayName, SetTurnChimeEnabled
  <2>3. UNCHANGED notices /\ (faults' = faults \/ faults' = faults + 1)
    BY <1>2 DEF SetDisplayName, SetTurnChimeEnabled, QueryIsSent, QueryAnswers, QueryFails
  <2> QED BY <2>2, <2>3, <1>t DEF AnnouncedOnce
<1>3. ASSUME \/ \E l \in LinkRequests, e \in Emails : CountLinks(l, e)
             \/ \E l \in LinkRequests : CreateMagicLink(l) \/ LinkAges(l)
             \/ \E v \in Verifications, l \in LinkRequests : RequestVerify(v, l)
             \/ \E v \in Verifications : ConsumeMagicLink(v) \/ CreateSession(v) \/ SessionExpires(v)
             \/ \E h \in Callers, v \in Verifications : RequestWithToken(h, v)
             \/ \E h \in Callers : GetSession(h)
             \/ \E o \in SignOuts, v \in Verifications : RequestSignOut(o, v)
             \/ \E o \in SignOuts : DeleteSession(o)
             \/ UNCHANGED vars
      PROVE  AnnouncedOnce'
  <2>1. UNCHANGED <<accounts, notices>> /\ (faults' = faults \/ faults' = faults + 1)
    BY <1>3, Zenon
       DEF CountLinks, CreateMagicLink, LinkAges, RequestVerify, ConsumeMagicLink,
           CreateSession, SessionExpires, RequestWithToken, GetSession, RequestSignOut,
           DeleteSession, QueryAnswers, QueryFails, QueryIsSent, tables, vars
  <2> QED BY <2>1, <1>u
<1> QED BY <1>1, <1>2, <1>3 DEF Next, HandlerStep, TimePasses, Callers

(* The owner hears of each new account once at most, never of one that has *)
(* no row, and of every one while no query fails.                          *)
THEOREM AccountsAnnouncedOnce == Spec => []AnnouncedOnce
<1>1. Spec => [](TypeInv /\ AnnouncedOnce)
  BY TypeInit, TypeStep, AnnounceInit, AnnounceStep, PTL DEF Spec
<1> QED BY <1>1, PTL
-----------------------------------------------------------------------------
(* The cap on links                                                        *)

(* Links that count for an address, and those on their way.                *)
Underway(e) == RecentMagicLinks(e) \cup PastTheCount(e)

CapInv ==
  \A e \in Emails \ uncounted : Cardinality(Underway(e)) < MaxLinks + MaxConcurrent

LEMMA UnderwayFinite ==
  \A e : /\ IsFiniteSet(Underway(e)) /\ IsFiniteSet(RecentMagicLinks(e))
         /\ IsFiniteSet(PastTheCount(e))
         /\ Cardinality(Underway(e)) \in Nat /\ Cardinality(RecentMagicLinks(e)) \in Nat
         /\ Cardinality(PastTheCount(e)) \in Nat
<1> SUFFICES ASSUME NEW e
             PROVE  /\ IsFiniteSet(Underway(e)) /\ IsFiniteSet(RecentMagicLinks(e))
                    /\ IsFiniteSet(PastTheCount(e))
                    /\ Cardinality(Underway(e)) \in Nat
                    /\ Cardinality(RecentMagicLinks(e)) \in Nat
                    /\ Cardinality(PastTheCount(e)) \in Nat
  OBVIOUS
<1>1. /\ Underway(e) \subseteq LinkRequests /\ RecentMagicLinks(e) \subseteq LinkRequests
      /\ PastTheCount(e) \subseteq LinkRequests
  BY DEF Underway, RecentMagicLinks, PastTheCount
<1> QED BY <1>1, LinkRequestsAssumption, FS_Subset, FS_CardinalityType

LEMMA CapInit == Init => CapInv
<1> SUFFICES ASSUME Init, NEW e \in Emails
             PROVE  Cardinality(Underway(e)) < MaxLinks + MaxConcurrent
  BY DEF CapInv
<1>1. Underway(e) = {}
  BY HandlersDistinct DEF Init, Underway, RecentMagicLinks, PastTheCount, Handlers
<1> QED BY <1>1, FS_EmptySet, MaxLinksAssumption, MaxConcurrentAssumption

(* Where nothing new gets underway the bound stays.                        *)
LEMMA CapKept ==
  ASSUME CapInv, NEW e \in Emails \ uncounted, Underway(e)' \subseteq Underway(e)
  PROVE  Cardinality(Underway(e)') < MaxLinks + MaxConcurrent
<1>1. Cardinality(Underway(e)') <= Cardinality(Underway(e)) /\ Cardinality(Underway(e)') \in Nat
  BY UnderwayFinite, FS_Subset, FS_CardinalityType
<1> QED BY <1>1, UnderwayFinite, MaxLinksAssumption, MaxConcurrentAssumption DEF CapInv

LEMMA CapStep == TypeInv /\ WhoInv /\ CapInv /\ [Next]_vars => CapInv'
<1> SUFFICES ASSUME TypeInv, WhoInv, CapInv, [Next]_vars
             PROVE  CapInv'
  OBVIOUS
<1>t. /\ at \in [Handlers -> Stages] /\ who \in [Handlers -> Emails \cup {None}]
      /\ links \in [LinkRequests -> Link \cup {None}] /\ None \notin Link
      /\ LinkInv /\ LinkRequests \subseteq Handlers
  BY NoneAssumption DEF TypeInv, TypeOK, WhoInv, Handlers
<1>u. ASSUME uncounted' = uncounted, \A e \in Emails : Underway(e)' \subseteq Underway(e)
      PROVE  CapInv'
  <2> SUFFICES ASSUME NEW e \in Emails \ uncounted
               PROVE  Cardinality(Underway(e)') < MaxLinks + MaxConcurrent
    BY <1>u DEF CapInv
  <2> QED BY <1>u, CapKept
(* A step that touches no link and none of the requests for links.         *)
<1>i. ASSUME UNCHANGED <<links, uncounted>>,
             \A l \in LinkRequests : at'[l] = at[l] /\ who'[l] = who[l]
      PROVE  CapInv'
  <2>1. \A e \in Emails : Underway(e)' \subseteq Underway(e)
    BY <1>i DEF Underway, RecentMagicLinks, PastTheCount
  <2> QED BY <1>i, <1>u, <2>1
<1>1. ASSUME NEW l \in LinkRequests, NEW e \in Emails, CountLinks(l, e)
      PROVE  CapInv'
  <2> SUFFICES ASSUME NEW f \in Emails \ uncounted'
               PROVE  Cardinality(Underway(f)') < MaxLinks + MaxConcurrent
    BY DEF CapInv
  <2>1. /\ links' = links /\ f \notin uncounted
        /\ \A m \in LinkRequests : m # l => at'[m] = at[m] /\ who'[m] = who[m]
        /\ who'[l] = e
    BY <1>1, <1>t DEF CountLinks, Moves, tables
  <2>2. CASE f # e \/ at'[l] = "done"
    <3>1. Underway(f)' \subseteq Underway(f)
      BY <2>1, <2>2, <1>t DEF Underway, RecentMagicLinks, PastTheCount
    <3> QED BY <2>1, <3>1, CapKept
  <2>3. CASE f = e /\ at'[l] # "done"
    <3>1. UnderTheCap(e) /\ Cardinality(PastTheCount(e)) < MaxConcurrent
      BY <1>1, <2>3, <1>t DEF CountLinks, Moves
    <3> DEFINE count == Cardinality(RecentMagicLinks(e))
               past  == Cardinality(PastTheCount(e))
    <3>2. count \in Nat /\ past \in Nat /\ count + 1 <= MaxLinks /\ past + 1 <= MaxConcurrent
      BY <3>1, UnderwayFinite, MaxLinksAssumption, MaxConcurrentAssumption DEF UnderTheCap
    <3>3. Cardinality(Underway(e)) <= count + past
      <4> DEFINE recent == RecentMagicLinks(e)
                 asked  == PastTheCount(e)
      <4>1. IsFiniteSet(recent) /\ IsFiniteSet(asked)
        BY UnderwayFinite
      <4> HIDE DEF recent, asked
      <4>2. Cardinality(recent \cup asked)
              = Cardinality(recent) + Cardinality(asked) - Cardinality(recent \cap asked)
        BY <4>1, FS_Union
      <4>3. Cardinality(recent \cap asked) \in Nat
        <5>1. IsFiniteSet(recent \cap asked)
          BY <4>1, FS_Intersection
        <5> QED BY <5>1, FS_CardinalityType
      <4>4. Cardinality(recent) \in Nat /\ Cardinality(asked) \in Nat
        BY <4>1, FS_CardinalityType
      <4> QED BY <4>2, <4>3, <4>4 DEF Underway, recent, asked
    <3>4. Underway(e)' \subseteq Underway(e) \cup {l}
      BY <2>1, <1>t DEF Underway, RecentMagicLinks, PastTheCount
    <3>5. IsFiniteSet(Underway(e) \cup {l})
          /\ Cardinality(Underway(e) \cup {l}) <= Cardinality(Underway(e)) + 1
      <4> DEFINE underway == Underway(e)
      <4>1. IsFiniteSet(underway) /\ Cardinality(underway) \in Nat
        BY UnderwayFinite
      <4> HIDE DEF underway
      <4>2. IsFiniteSet(underway \cup {l})
            /\ (Cardinality(underway \cup {l}) = Cardinality(underway)
                \/ Cardinality(underway \cup {l}) = Cardinality(underway) + 1)
        BY <4>1, FS_AddElement
      <4> QED BY <4>1, <4>2 DEF underway
    <3>6. Cardinality(Underway(e)') <= Cardinality(Underway(e) \cup {l})
          /\ Cardinality(Underway(e)') \in Nat /\ Cardinality(Underway(e) \cup {l}) \in Nat
      BY <3>4, <3>5, FS_Subset, FS_CardinalityType
    <3> HIDE DEF count, past
    <3> QED BY <2>3, <3>2, <3>3, <3>5, <3>6, UnderwayFinite, MaxLinksAssumption,
               MaxConcurrentAssumption
  <2> QED BY <2>2, <2>3
<1>2. ASSUME NEW l \in LinkRequests, GetOrCreateAccount(l)
      PROVE  CapInv'
  <2>1. /\ UNCHANGED <<links, who, uncounted>> /\ at[l] = "account"
        /\ at' = [at EXCEPT ![l] = "link"]
    BY <1>2 DEF GetOrCreateAccount, Moves
  <2>2. \A e \in Emails : Underway(e)' \subseteq Underway(e)
    BY <2>1, <1>t DEF Underway, RecentMagicLinks, PastTheCount
  <2> QED BY <2>1, <2>2, <1>u
<1>3. ASSUME NEW l \in LinkRequests, CreateMagicLink(l)
      PROVE  CapInv'
  <2>1. /\ UNCHANGED <<who, uncounted>> /\ at[l] = "link" /\ at' = [at EXCEPT ![l] = "done"]
        /\ \A m \in LinkRequests : m # l => links'[m] = links[m]
        /\ links'[l] # None => links'[l].email = who[l]
    <3>1. links[l] = None
      BY <1>3, <1>t DEF CreateMagicLink, LinkInv
    <3> QED BY <1>3, <3>1, <1>t DEF CreateMagicLink, Moves
  <2>2. \A e \in Emails : Underway(e)' \subseteq Underway(e)
    BY <2>1, <1>t DEF Underway, RecentMagicLinks, PastTheCount
  <2> QED BY <2>1, <2>2, <1>u
<1>4. ASSUME NEW v \in Verifications, ConsumeMagicLink(v)
      PROVE  CapInv'
  <2>1. uncounted' = uncounted
        /\ \A l \in LinkRequests : at'[l] = at[l] /\ who'[l] = who[l]
    BY <1>4, <1>t, HandlersDistinct DEF ConsumeMagicLink, Moves
  <2>2. \A l \in LinkRequests :
          links'[l] # None => links[l] # None /\ links'[l].email = links[l].email
                                              /\ links'[l].age = links[l].age
    <3>1. \/ links' = links
          \/ /\ Consumable(arg[v])
             /\ links' = [links EXCEPT ![arg[v]].used = TRUE]
      BY <1>4 DEF ConsumeMagicLink
    <3> QED BY <3>1, <1>t DEF Link, Consumable
  <2>3. \A e \in Emails : Underway(e)' \subseteq Underway(e)
    BY <2>1, <2>2 DEF Underway, RecentMagicLinks, PastTheCount
  <2> QED BY <2>1, <2>3, <1>u
<1>5. ASSUME NEW l \in LinkRequests, LinkAges(l)
      PROVE  CapInv'
  <2>1. UNCHANGED <<at, who, uncounted>> /\ links[l] \in Link /\ links[l].age # "old"
        /\ \A m \in LinkRequests : m # l => links'[m] = links[m]
    BY <1>5, <1>t DEF LinkAges
  <2>2. links'[l].email = links[l].email
    BY <1>5, <2>1, <1>t DEF LinkAges, Link
  <2>3. \A e \in Emails : Underway(e)' \subseteq Underway(e)
    BY <2>1, <2>2, <1>t DEF Underway, RecentMagicLinks, PastTheCount
  <2> QED BY <2>1, <2>3, <1>u
<1>6. ASSUME \/ \E v \in Verifications, l \in LinkRequests : RequestVerify(v, l)
             \/ \E v \in Verifications : CreateSession(v) \/ SessionExpires(v)
             \/ \E h \in Callers, v \in Verifications : RequestWithToken(h, v)
             \/ \E h \in Callers : GetSession(h)
             \/ \E s \in Saves : SetDisplayName(s) \/ SetTurnChimeEnabled(s)
             \/ \E o \in SignOuts, v \in Verifications : RequestSignOut(o, v)
             \/ \E o \in SignOuts : DeleteSession(o)
             \/ UNCHANGED vars
      PROVE  CapInv'
  <2>1. /\ UNCHANGED <<links, uncounted>>
        /\ \A l \in LinkRequests : at'[l] = at[l] /\ who'[l] = who[l]
    BY <1>6, <1>t, HandlersDistinct
       DEF RequestVerify, CreateSession, SessionExpires, RequestWithToken, GetSession,
           SetDisplayName, SetTurnChimeEnabled, RequestSignOut, DeleteSession, Moves,
           tables, vars, Callers, Handlers
  <2> QED BY <2>1, <1>i
<1> QED BY <1>1, <1>2, <1>3, <1>4, <1>5, <1>6 DEF Next, HandlerStep, TimePasses, Callers

(* The hourly cap is checked before two awaits; it is overshot by fewer    *)
(* links than requests can be past the check together, for any cap and any *)
(* number of requests, unless a count has failed.                          *)
THEOREM CapOvershotByLess == Spec => []CapOvershootBounded
<1>1. Spec => [](TypeInv /\ WhoInv /\ CapInv)
  BY TypeInit, TypeStep, WhoInit, WhoStep, CapInit, CapStep, PTL DEF Spec
<1>2. CapInv => CapOvershootBounded
  <2> SUFFICES ASSUME CapInv, NEW e \in Emails \ uncounted
               PROVE  Cardinality(RecentMagicLinks(e)) < MaxLinks + MaxConcurrent
    BY DEF CapOvershootBounded
  <2>1. Cardinality(RecentMagicLinks(e)) <= Cardinality(Underway(e))
    BY UnderwayFinite, FS_Subset DEF Underway
  <2> QED BY <2>1, UnderwayFinite, MaxLinksAssumption, MaxConcurrentAssumption DEF CapInv
<1> QED BY <1>1, <1>2, PTL
=============================================================================
