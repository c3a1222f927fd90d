------------------------------ MODULE Accounts ------------------------------
(***************************************************************************)
(* Magic-link sign-in on the server: the authentication service and its    *)
(* repository (packages/platform/src/auth) behind the routes of            *)
(* packages/server/src/authRoutes.ts and the socket gate of index.ts.      *)
(*                                                                         *)
(* Every request runs in a handler of its own.  Between two awaits it does *)
(* nothing that another handler sees, so a handler is a sequence of        *)
(* queries, each one atomic, interleaved with those of the others.  A      *)
(* query may fail before or after it took effect; the repository reports   *)
(* either as an empty answer.  The token a handler mints (nanoid) is       *)
(* unique, so it is named by the handler.  The reads of the display name   *)
(* and the chime that end verifyToken and checkSession change nothing and  *)
(* are left out.                                                           *)
(***************************************************************************)
EXTENDS Naturals, FiniteSets

CONSTANTS Emails,        \* normalised addresses
          LinkRequests,  \* POST /auth/request-link, and the link each one mints
          Verifications, \* POST /auth/verify, and the session each one mints
          Checks,        \* checkSession: GET /auth/session and the socket gate
          SignOuts,      \* POST /auth/sign-out
          Saves,         \* POST /auth/profile, and the preferences each one sends
          None,          \* an absent row, value or answer
          MaxLinks,      \* MAX_LINKS_PER_HOUR
          MaxConcurrent, \* bound: requests for one address past their count
          MaxFaults      \* bound: queries that fail

Handlers == LinkRequests \cup Verifications \cup Checks \cup SignOuts \cup Saves
Stages   == {"idle", "account", "link", "consume", "session",
             "name", "chime", "delete", "done"}

ASSUME MaxLinksAssumption == MaxLinks \in Nat \ {0}
ASSUME MaxConcurrentAssumption == MaxConcurrent \in Nat \ {0}
ASSUME MaxFaultsAssumption == MaxFaults \in Nat
ASSUME LinkRequestsAssumption == IsFiniteSet(LinkRequests)
ASSUME HandlersAssumption ==
  /\ LinkRequests \cap (Verifications \cup Checks \cup SignOuts \cup Saves) = {}
  /\ Verifications \cap (Checks \cup SignOuts \cup Saves) = {}
  /\ Checks \cap (SignOuts \cup Saves) = {}
  /\ SignOuts \cap Saves = {}

(* The two columns a save writes; None is a column never written.          *)
Account == [name : Saves \cup {None}, chime : Saves \cup {None}]

(* How long ago a link was created: good for 20 minutes, counted for an    *)
(* hour.                                                                   *)
Ages    == {"valid", "expired", "old"}
Link    == [email : Emails, age : Ages, used : BOOLEAN]
Session == [email : Emails, live : BOOLEAN]

ASSUME NoneAssumption ==
  /\ None \notin Emails /\ None \notin Account
  /\ None \notin Link /\ None \notin Session
  /\ None \notin Handlers

VARIABLES
  accounts, \* the accounts table
  links,    \* the magic_links table, by the request that minted the token
  sessions, \* the sessions table, by the verification that minted the token
  at,       \* the query each handler is at
  who,      \* the account it has in hand, or answers with
  arg,      \* the token it was called with
  mailed,   \* the links that were e-mailed
  notices,  \* owner notifications sent for each address
  faults,   \* queries that failed
  uncounted \* observer: addresses for which a count query failed

tables == <<accounts, links, sessions>>
vars   == <<accounts, links, sessions, at, who, arg, mailed, notices,
            faults, uncounted>>

TypeOK ==
  /\ accounts \in [Emails -> Account \cup {None}]
  /\ links \in [LinkRequests -> Link \cup {None}]
  /\ sessions \in [Verifications -> Session \cup {None}]
  /\ at \in [Handlers -> Stages]
  /\ who \in [Handlers -> Emails \cup {None}]
  /\ arg \in [Handlers -> LinkRequests \cup Verifications \cup {None}]
  /\ mailed \in SUBSET LinkRequests
  /\ notices \in [Emails -> Nat]
  /\ faults \in 0 .. MaxFaults
  /\ uncounted \in SUBSET Emails

Init ==
  /\ accounts = [e \in Emails |-> None]
  /\ links = [l \in LinkRequests |-> None]
  /\ sessions = [v \in Verifications |-> None]
  /\ at = [h \in Handlers |-> "idle"]
  /\ who = [h \in Handlers |-> None]
  /\ arg = [h \in Handlers |-> None]
  /\ mailed = {}
  /\ notices = [e \in Emails |-> 0]
  /\ faults = 0
  /\ uncounted = {}
-----------------------------------------------------------------------------
(* Queries                                                                 *)

QueryAnswers == UNCHANGED faults
QueryFails   == faults < MaxFaults /\ faults' = faults + 1

(* A write whose answer the handler does not use.                          *)
QueryIsSent == QueryAnswers \/ QueryFails

(* countRecentMagicLinks                                                   *)
RecentMagicLinks(e) ==
  {l \in LinkRequests : links[l] # None /\ links[l].email = e /\ links[l].age # "old"}

(* Mutant of UnderTheCap: off by one.                                      *)
AtTheCapToo(e) == Cardinality(RecentMagicLinks(e)) <= MaxLinks

UnderTheCap(e) == Cardinality(RecentMagicLinks(e)) < MaxLinks

(* The requests that a count has let through and whose link is not yet in. *)
PastTheCount(e) == {l \in LinkRequests : at[l] \in {"account", "link"} /\ who[l] = e}

(* getOrCreateAccount: the row, and whether the insert made it.            *)
NewAccount == [name |-> None, chime |-> None]

(* Mutant of IsNew: an account without preferences passes for a new one.   *)
SeenAsNew(e) == accounts[e] \in {None, NewAccount}

IsNew(e) == accounts[e] = None

(* Mutant of Consumable: used_at is not looked at.                         *)
ConsumableAgain(l) == links[l] # None /\ links[l].age = "valid"

Consumable(l) == links[l] # None /\ ~links[l].used /\ links[l].age = "valid"

IsLive(v) == sessions[v] # None /\ sessions[v].live

Moves(h, stage) == at' = [at EXCEPT ![h] = stage]
-----------------------------------------------------------------------------
(* authService.requestLink                                                 *)

CountLinks(l, e) ==
  /\ at[l] = "idle"
  /\ Cardinality(PastTheCount(e)) < MaxConcurrent
  /\ who' = [who EXCEPT ![l] = e]
  /\ \/ /\ QueryAnswers
        /\ Moves(l, IF UnderTheCap(e) THEN "account" ELSE "done")
        /\ UNCHANGED uncounted
     \/ /\ QueryFails
        /\ Moves(l, "account")
        /\ uncounted' = uncounted \cup {e}
  /\ UNCHANGED <<tables, arg, mailed, notices>>

GetOrCreateAccount(l) ==
  LET e == who[l] IN
  /\ at[l] = "account"
  /\ Moves(l, "link")
  /\ \/ /\ QueryAnswers
        /\ accounts' = IF accounts[e] = None
                       THEN [accounts EXCEPT ![e] = NewAccount] ELSE accounts
        /\ notices' = IF IsNew(e) THEN [notices EXCEPT ![e] = @ + 1] ELSE notices
     \/ /\ QueryFails
        /\ accounts' \in {accounts, [accounts EXCEPT ![e] = IF @ = None THEN NewAccount ELSE @]}
        /\ UNCHANGED notices
  /\ UNCHANGED <<links, sessions, who, arg, mailed, uncounted>>

(* The link is e-mailed whether or not its row was written.                *)
CreateMagicLink(l) ==
  /\ at[l] = "link"
  /\ Moves(l, "done")
  /\ mailed' = mailed \cup {l}
  /\ \/ /\ QueryIsSent
        /\ links' = [links EXCEPT
                       ![l] = [email |-> who[l], age |-> "valid", used |-> FALSE]]
     \/ QueryFails /\ UNCHANGED links
  /\ UNCHANGED <<accounts, sessions, who, arg, notices, uncounted>>
-----------------------------------------------------------------------------
(* authService.verifyToken                                                 *)

RequestVerify(v, l) ==
  /\ at[v] = "idle"
  /\ l \in mailed
  /\ Moves(v, "consume")
  /\ arg' = [arg EXCEPT ![v] = l]
  /\ UNCHANGED <<tables, who, mailed, notices, faults, uncounted>>

(* Mutant of ConsumeMagicLink: the WHERE clause leaves the token out.      *)
ConsumeUnnamed(v) ==
  /\ at[v] = "consume"
  /\ QueryAnswers
  /\ \E l \in LinkRequests :
       /\ Consumable(l)
       /\ links' = [links EXCEPT ![l].used = TRUE]
       /\ who' = [who EXCEPT ![v] = links[l].email]
  /\ Moves(v, "session")
  /\ UNCHANGED <<accounts, sessions, arg, mailed, notices, uncounted>>

ConsumeMagicLink(v) ==
  LET l == arg[v] IN
  /\ at[v] = "consume"
  /\ \/ /\ QueryAnswers
        /\ Consumable(l)
        /\ links' = [links EXCEPT ![l].used = TRUE]
        /\ who' = [who EXCEPT ![v] = links[l].email]
        /\ Moves(v, "session")
     \/ /\ (QueryAnswers /\ ~Consumable(l)) \/ QueryFails
        /\ Moves(v, "done")
        /\ UNCHANGED <<links, who>>
     \/ /\ QueryFails
        /\ Consumable(l)
        /\ links' = [links EXCEPT ![l].used = TRUE]
        /\ Moves(v, "done")
        /\ UNCHANGED who
  /\ UNCHANGED <<accounts, sessions, arg, mailed, notices, uncounted>>

CreateSession(v) ==
  /\ v \in Verifications
  /\ at[v] = "session"
  /\ Moves(v, "done")
  /\ \/ /\ QueryIsSent
        /\ sessions' = [sessions EXCEPT ![v] = [email |-> who[v], live |-> TRUE]]
     \/ QueryFails /\ UNCHANGED sessions
  /\ UNCHANGED <<accounts, links, who, arg, mailed, notices, uncounted>>
-----------------------------------------------------------------------------
(* checkSession and updateProfile start from a bearer token; a client has  *)
(* a token only from the answer that verified it.                          *)

Issued == {v \in Verifications : at[v] = "done" /\ who[v] # None}

RequestWithToken(h, v) ==
  /\ h \in Checks \cup Saves
  /\ at[h] = "idle"
  /\ v \in Issued
  /\ Moves(h, "session")
  /\ arg' = [arg EXCEPT ![h] = v]
  /\ UNCHANGED <<tables, who, mailed, notices, faults, uncounted>>

GetSession(h) ==
  LET v == arg[h] IN
  /\ h \in Checks \cup Saves
  /\ at[h] = "session"
  /\ \/ /\ QueryAnswers
        /\ IsLive(v)
        /\ who' = [who EXCEPT ![h] = sessions[v].email]
        /\ Moves(h, IF h \in Checks THEN "done" ELSE "name")
     \/ /\ (QueryAnswers /\ ~IsLive(v)) \/ QueryFails
        /\ Moves(h, "done")
        /\ UNCHANGED who
  /\ UNCHANGED <<tables, arg, mailed, notices, uncounted>>

(* setDisplayName, then setTurnChimeEnabled: neither creates the row.      *)
SetDisplayName(s) ==
  LET e == who[s] IN
  /\ at[s] = "name"
  /\ Moves(s, "chime")
  /\ \/ /\ QueryIsSent
        /\ accounts' = IF accounts[e] = None THEN accounts
                       ELSE [accounts EXCEPT ![e].name = s]
     \/ QueryFails /\ UNCHANGED accounts
  /\ UNCHANGED <<links, sessions, who, arg, mailed, notices, uncounted>>

SetTurnChimeEnabled(s) ==
  LET e == who[s] IN
  /\ at[s] = "chime"
  /\ Moves(s, "done")
  /\ \/ /\ QueryIsSent
        /\ accounts' = IF accounts[e] = None THEN accounts
                       ELSE [accounts EXCEPT ![e].chime = s]
     \/ QueryFails /\ UNCHANGED accounts
  /\ UNCHANGED <<links, sessions, who, arg, mailed, notices, uncounted>>

RequestSignOut(o, v) ==
  /\ at[o] = "idle"
  /\ v \in Issued
  /\ Moves(o, "delete")
  /\ arg' = [arg EXCEPT ![o] = v]
  /\ UNCHANGED <<tables, who, mailed, notices, faults, uncounted>>

DeleteSession(o) ==
  /\ at[o] = "delete"
  /\ Moves(o, "done")
  /\ \/ QueryIsSent /\ sessions' = [sessions EXCEPT ![arg[o]] = None]
     \/ QueryFails /\ UNCHANGED sessions
  /\ UNCHANGED <<accounts, links, who, arg, mailed, notices, uncounted>>
-----------------------------------------------------------------------------
(* Time                                                                    *)

LinkAges(l) ==
  /\ links[l] # None /\ links[l].age # "old"
  /\ links' = [links EXCEPT ![l].age = IF @ = "valid" THEN "expired" ELSE "old"]
  /\ UNCHANGED <<accounts, sessions, at, who, arg, mailed, notices, faults,
                 uncounted>>

SessionExpires(v) ==
  /\ IsLive(v)
  /\ sessions' = [sessions EXCEPT ![v].live = FALSE]
  /\ UNCHANGED <<accounts, links, at, who, arg, mailed, notices, faults,
                 uncounted>>

(* The next query of a request that has arrived.                           *)
HandlerStep ==
  \/ \E l \in LinkRequests : GetOrCreateAccount(l) \/ CreateMagicLink(l)
  \/ \E v \in Verifications : ConsumeMagicLink(v) \/ CreateSession(v)
  \/ \E h \in Checks \cup Saves : GetSession(h)
  \/ \E s \in Saves : SetDisplayName(s) \/ SetTurnChimeEnabled(s)
  \/ \E o \in SignOuts : DeleteSession(o)

TimePasses ==
  \/ \E l \in LinkRequests : LinkAges(l)
  \/ \E v \in Verifications : SessionExpires(v)

Next ==
  \/ \E l \in LinkRequests, e \in Emails : CountLinks(l, e)
  \/ \E v \in Verifications, l \in LinkRequests : RequestVerify(v, l)
  \/ \E h \in Checks \cup Saves, v \in Verifications : RequestWithToken(h, v)
  \/ \E o \in SignOuts, v \in Verifications : RequestSignOut(o, v)
  \/ HandlerStep
  \/ TimePasses

Spec == Init /\ [][Next]_vars
-----------------------------------------------------------------------------
(* Properties                                                              *)

(* A link signs in once: of the requests that present it, however they     *)
(* overlap, one at most goes on to a session (consumeMagicLink).           *)
LinkSpentOnce ==
  \A v, w \in Verifications :
    who[v] # None /\ who[w] # None /\ arg[v] = arg[w] => v = w

(* Whoever is signed in, or acts with a session, does so as the account to *)
(* whose address the link behind that session was e-mailed.                *)
ActsAsMailedAccount ==
  /\ \A v \in Verifications : who[v] # None => arg[v] \in mailed /\ who[v] = who[arg[v]]
  /\ \A v \in Verifications : sessions[v] # None => sessions[v].email = who[v]
  /\ \A h \in Checks \cup Saves : who[h] # None => who[h] = who[arg[h]]

(* The owner hears of an account once at most, and never of one without a  *)
(* row, even if two first requests for the address overlap or an answer is *)
(* lost; while the database works every account is announced               *)
(* (getOrCreateAccount).                                                   *)
AnnouncedOnce ==
  \A e \in Emails :
    /\ notices[e] \in 0 .. 1
    /\ accounts[e] = None => notices[e] = 0
    /\ accounts[e] # None /\ faults = 0 => notices[e] = 1

(* The cap on links per hour is checked before two awaits, so it is        *)
(* overshot, but by no more than the requests that were past the check     *)
(* together; only a count that fails lets more through (requestLink).      *)
CapOvershootBounded ==
  \A e \in Emails \ uncounted :
    Cardinality(RecentMagicLinks(e)) < MaxLinks + MaxConcurrent
=============================================================================
