------------------------- MODULE RoomConnectionProofs ------------------------
(***************************************************************************)
(* Proofs about RoomConnection: its types, that the page shows the player  *)
(* in the room exactly if the server takes its socket for the seat's, and  *)
(* that the account of a seat is not asked to pick one, for any number of  *)
(* connections and clicks.                                                 *)
(***************************************************************************)
EXTENDS RoomConnection, SequenceTheorems, TLAPS

-----------------------------------------------------------------------------
(* The invariant                                                           *)

Asked(event) == \E r \in ToSet(up[sock]) : r.event = event

RefusalOf(event) == \E r \in ToSet(down) : r.event = event /\ ~r.ok

Granted == \E r \in ToSet(down) : r.ok

Leaving ==
  \/ Asked("leave_seat")
  \/ \E h \in ToSet(saving) : h.sock = sock /\ h.event = "leave_seat"
  \/ \E r \in ToSet(down) : r.event = "leave_seat"

(* The first requests of the connection are not through.                   *)
Restoring ==
  Asked("reconnect_room") \/ RefusalOf("reconnect_room") \/ Asked("reconnect_by_account")

(* Connections count up; nothing is known of those to come.                *)
Counted ==
  /\ \A c \in Connections : c > sock => c \notin bound /\ c \notin unseen /\ up[c] = <<>>
  /\ \A h \in ToSet(saving) : h.sock <= sock
  /\ online => sock \in Connections /\ sock \notin unseen /\ buffer = <<>>
  /\ ~online => down = <<>>
  /\ \A r \in ToSet(buffer) : r.event \in {"join_room", "leave_seat"}

(* The account of a seat is its owner; hotseat mode does not use it.       *)
Owned ==
  /\ seat # None => owner = "me"
  /\ online /\ fixed => ~Asked("reconnect_by_account") /\ ~RefusalOf("reconnect_by_account")

(* A leave that crosses nothing is the one thing on its way.               *)
LeavesAlone ==
  /\ left /\ status = "in-room"
  /\ \/ Len(up[sock]) = 1 /\ ~HandledHere /\ down = <<>>
     \/ /\ up[sock] = <<>> /\ down = <<>>
        /\ \A i, j \in DOMAIN saving : saving[i].sock = sock /\ saving[j].sock = sock => i = j
     \/ /\ up[sock] = <<>> /\ ~HandledHere /\ Len(down) = 1
        /\ sock \notin bound

(* While this connection is bound to the seat, nobody else has it, and all *)
(* that is granted is that seat.                                           *)
Binding ==
  /\ sock \in bound => seat # None /\ seat.sock = sock
  /\ \A h \in ToSet(saving) : h.sock = sock => sock \in bound /\ h.token = seat.token
  /\ \A r \in ToSet(down) : r.ok => sock \in bound /\ r.token = seat.token
  /\ \A i, j \in DOMAIN down :
       i < j /\ down[i].ok => down[j].ok \/ down[j].event # "reconnect_by_account"

(* Something on its way shows it, or the page does; and if it is not bound *)
(* something on its way will take the page out of the room.                *)
Showing ==
  /\ sock \in bound =>
       \/ Restoring \/ HandledHere \/ Granted \/ LockedOut
       \/ status = "in-room" /\ stored = seat.token /\ ~RefusalOf("reconnect_by_account")
  /\ sock \notin bound /\ status = "in-room" =>
       Restoring \/ RefusalOf("reconnect_by_account") \/ LockedOut

(* An owner that has not left is on its way back.                          *)
Returning ==
  ~fixed /\ ~left /\ owner = "me" =>
    /\ status = "picking-role" => sock \in bound \/ Restoring
    /\ RefusalOf("reconnect_by_account") => sock \in bound

Settling ==
  online /\ ~crossed =>
    IF Leaving THEN LeavesAlone ELSE Binding /\ Showing /\ Returning

(* Before the first click nobody joins or leaves, and an owner is not      *)
(* refused.                                                                *)
Unclicked ==
  clicks = 0 =>
    /\ buffer = <<>>
    /\ \A c \in Connections : \A r \in ToSet(up[c]) :
         r.event # "leave_seat" /\ (r.event = "join_room" => fixed)
    /\ \A h \in ToSet(saving) : h.event # "leave_seat"
    /\ \A r \in ToSet(down) : r.event # "leave_seat"
    /\ ~fixed /\ owner = "me" =>
         status # "picking-role" /\ ~RefusalOf("reconnect_by_account")

ConnectionInv == TypeOK /\ Counted /\ Owned /\ Settling /\ Unclicked

-----------------------------------------------------------------------------
(* Sequences                                                               *)

(* Where the j-th element of a sequence was before the i-th was removed.   *)
Before(i, j) == IF j < i THEN j ELSE j + 1

LEMMA WithoutOne ==
  ASSUME NEW S, NEW s \in Seq(S), NEW i \in DOMAIN s
  PROVE  /\ RemoveAt(s, i) \in Seq(S)
         /\ Len(RemoveAt(s, i)) = Len(s) - 1
         /\ \A j \in 1 .. Len(s) - 1 :
              Before(i, j) \in DOMAIN s /\ RemoveAt(s, i)[j] = s[Before(i, j)]
  <1> DEFINE n == Len(s)
             front == SubSeq(s, 1, i - 1)
             back  == SubSeq(s, i + 1, n)
             rest  == front \o back
  <1>1. i \in 1 .. n /\ n \in Nat /\ DOMAIN s = 1 .. n /\ \A j \in 1 .. n : s[j] \in S
    BY LenProperties, ElementOfSeq
  <1> HIDE DEF n
  <1>2. /\ front \in Seq(S) /\ Len(front) = IF 1 <= i - 1 THEN i - 1 - 1 + 1 ELSE 0
        /\ \A j \in 1 .. i - 1 - 1 + 1 : front[j] = s[1 + j - 1]
    <2>1. 1 \in Int /\ i - 1 \in Int /\ \A j \in 1 .. i - 1 : s[j] \in S
      BY <1>1
    <2> QED BY <2>1, SubSeqProperties, SMT
  <1>3. /\ back \in Seq(S) /\ Len(back) = IF i + 1 <= n THEN n - (i + 1) + 1 ELSE 0
        /\ \A j \in 1 .. n - (i + 1) + 1 : back[j] = s[(i + 1) + j - 1]
    <2>1. i + 1 \in Int /\ n \in Int /\ \A j \in i + 1 .. n : s[j] \in S
      BY <1>1
    <2> QED BY <2>1, SubSeqProperties, SMT
  <1>4. /\ rest \in Seq(S) /\ Len(rest) = Len(front) + Len(back)
        /\ \A j \in 1 .. Len(front) + Len(back) :
             rest[j] = IF j <= Len(front) THEN front[j] ELSE back[j - Len(front)]
    BY <1>2, <1>3, ConcatProperties, Zenon
  <1>5. RemoveAt(s, i) = rest
    BY DEF RemoveAt, n
  <1>6. Len(front) = i - 1 /\ Len(back) = n - i
    BY <1>1, <1>2, <1>3
  <1> HIDE DEF front, back, rest
  <1>7. ASSUME NEW j \in 1 .. n - 1
        PROVE  Before(i, j) \in 1 .. n /\ rest[j] = s[Before(i, j)]
    <2>1. j \in 1 .. Len(front) + Len(back)
      BY <1>1, <1>6
    <2>2. rest[j] = IF j <= i - 1 THEN front[j] ELSE back[j - (i - 1)]
      BY <1>4, <1>6, <2>1
    <2>3. CASE j < i
      BY <1>1, <1>2, <2>2, <2>3 DEF Before
    <2>4. CASE ~(j < i)
      <3>1. j - (i - 1) \in 1 .. n - (i + 1) + 1 /\ (i + 1) + (j - (i - 1)) - 1 = j + 1
        BY <1>1, <2>4
      <3>2. back[j - (i - 1)] = s[j + 1]
        BY <1>3, <3>1
      <3> QED BY <1>1, <2>2, <2>4, <3>2 DEF Before
    <2> QED BY <2>3, <2>4
  <1>8. RemoveAt(s, i) \in Seq(S) /\ Len(RemoveAt(s, i)) = n - 1
    BY <1>1, <1>4, <1>5, <1>6
  <1>9. \A j \in 1 .. n - 1 : Before(i, j) \in DOMAIN s /\ RemoveAt(s, i)[j] = s[Before(i, j)]
    BY <1>1, <1>5, <1>7
  <1> QED
    BY <1>8, <1>9 DEF n

LEMMA SetOfEmpty ==
  ToSet(<<>>) = {}
  BY DEF ToSet

(* The elements of a sequence over S are in S.                             *)
LEMMA SetInSet ==
  ASSUME NEW S, NEW s \in Seq(S)
  PROVE  ToSet(s) \subseteq S /\ (s = <<>> <=> ToSet(s) = {})
  <1>1. s # <<>> => Len(s) \in Nat \ {0}
    BY EmptySeq
  <1>2. DOMAIN s = 1 .. Len(s) /\ \A i \in 1 .. Len(s) : s[i] \in S
    BY LenProperties, ElementOfSeq
  <1>3. ToSet(s) \subseteq S
    BY <1>2 DEF ToSet
  <1>4. s # <<>> => s[1] \in ToSet(s)
    BY <1>1, <1>2 DEF ToSet
  <1> QED
    BY <1>3, <1>4, SetOfEmpty

(* Appending adds one element.                                             *)
LEMMA SetOfAppend ==
  ASSUME NEW S, NEW s \in Seq(S), NEW x \in S
  PROVE  /\ Append(s, x) \in Seq(S) /\ Append(s, x) # <<>>
         /\ ToSet(Append(s, x)) = ToSet(s) \cup {x}
  <1> DEFINE t == Append(s, x)
  <1>1. /\ t \in Seq(S) /\ Len(s) \in Nat /\ DOMAIN s = 1 .. Len(s) /\ DOMAIN t = 1 .. Len(s) + 1
        /\ Len(t) = Len(s) + 1
        /\ \A i \in 1 .. Len(s) : t[i] = s[i]
        /\ t[Len(s) + 1] = x
    BY LenProperties, AppendProperties
  <1> HIDE DEF t
  <1>2. 1 .. Len(s) + 1 = (1 .. Len(s)) \cup {Len(s) + 1}
    BY <1>1
  <1>3. ToSet(t) = ToSet(s) \cup {x}
    BY <1>1, <1>2 DEF ToSet
  <1>4. t # <<>>
    BY <1>1
  <1> QED
    BY <1>1, <1>3, <1>4 DEF t

(* The head and the elements of the tail are all of them.                  *)
LEMMA SetOfTail ==
  ASSUME NEW S, NEW s \in Seq(S), s # <<>>
  PROVE  /\ Head(s) \in S /\ Tail(s) \in Seq(S)
         /\ ToSet(s) = ToSet(Tail(s)) \cup {Head(s)}
  <1>1. /\ Head(s) \in S /\ Tail(s) \in Seq(S) /\ Len(Tail(s)) = Len(s) - 1
        /\ \A i \in 1 .. Len(Tail(s)) : Tail(s)[i] = s[i + 1]
    BY HeadTailProperties
  <1>2. /\ Len(s) \in Nat \ {0} /\ DOMAIN s = 1 .. Len(s) /\ DOMAIN Tail(s) = 1 .. Len(s) - 1
        /\ Head(s) = s[1]
    BY <1>1, EmptySeq, LenProperties
  <1> DEFINE n == Len(s)
  <1>3. ASSUME NEW i \in 1 .. n, i # 1
        PROVE  i - 1 \in 1 .. n - 1 /\ s[i] = Tail(s)[i - 1]
    BY <1>1, <1>2, <1>3
  <1>4. ToSet(s) \subseteq ToSet(Tail(s)) \cup {Head(s)}
    <2>1. \A i \in 1 .. n - 1 : Tail(s)[i] \in ToSet(Tail(s))
      BY <1>2 DEF ToSet
    <2>2. \A i \in 1 .. n : s[i] \in ToSet(Tail(s)) \cup {Head(s)}
      BY <1>2, <1>3, <2>1
    <2> QED BY <1>2, <2>2 DEF ToSet
  <1>5. ToSet(Tail(s)) \cup {Head(s)} \subseteq ToSet(s)
    BY <1>1, <1>2 DEF ToSet
  <1> QED
    BY <1>1, <1>4, <1>5

(* The elements of a concatenation.                                        *)
LEMMA SetOfConcat ==
  ASSUME NEW S, NEW s \in Seq(S), NEW t \in Seq(S)
  PROVE  s \o t \in Seq(S) /\ ToSet(s \o t) = ToSet(s) \cup ToSet(t)
  <1> DEFINE c == s \o t
             m == Len(s)
             n == Len(t)
  <1>1. /\ c \in Seq(S) /\ Len(c) = m + n
        /\ \A i \in 1 .. m + n : c[i] = IF i <= m THEN s[i] ELSE t[i - m]
    BY ConcatProperties
  <1>2. /\ m \in Nat /\ n \in Nat /\ DOMAIN s = 1 .. m /\ DOMAIN t = 1 .. n
        /\ DOMAIN c = 1 .. m + n
    BY <1>1, LenProperties
  <1> HIDE DEF c, m, n
  <1>3. \A i \in 1 .. m : i \in 1 .. m + n /\ c[i] = s[i]
    BY <1>1, <1>2
  <1>4. \A i \in 1 .. n : m + i \in 1 .. m + n /\ c[m + i] = t[i]
    <2> SUFFICES ASSUME NEW i \in 1 .. n
                 PROVE  m + i \in 1 .. m + n /\ c[m + i] = t[i]
      OBVIOUS
    <2>1. m + i \in 1 .. m + n /\ ~(m + i <= m) /\ (m + i) - m = i
      BY <1>2
    <2> QED BY <1>1, <2>1
  <1>5. ASSUME NEW i \in 1 .. m + n PROVE c[i] \in ToSet(s) \cup ToSet(t)
    <2>1. /\ \A k \in 1 .. m : s[k] \in ToSet(s)
          /\ \A k \in 1 .. n : t[k] \in ToSet(t)
      BY <1>2 DEF ToSet
    <2>2. CASE i <= m
      <3>1. i \in 1 .. m /\ c[i] = s[i]
        BY <1>1, <1>2, <2>2
      <3> QED BY <2>1, <3>1
    <2>3. CASE ~(i <= m)
      <3>1. i - m \in 1 .. n /\ c[i] = t[i - m]
        BY <1>1, <1>2, <2>3
      <3> QED BY <2>1, <3>1
    <2> QED BY <2>2, <2>3
  <1>6. ToSet(c) \subseteq ToSet(s) \cup ToSet(t)
    BY <1>2, <1>5 DEF ToSet
  <1>7. ToSet(s) \subseteq ToSet(c) /\ ToSet(t) \subseteq ToSet(c)
    BY <1>2, <1>3, <1>4 DEF ToSet
  <1> QED
    BY <1>1, <1>6, <1>7 DEF c

(* A prefix has no other elements.                                         *)
LEMMA SetOfPrefix ==
  ASSUME NEW S, NEW s \in Seq(S), NEW n \in 0 .. Len(s)
  PROVE  SubSeq(s, 1, n) \in Seq(S) /\ ToSet(SubSeq(s, 1, n)) \subseteq ToSet(s)
  <1>1. Len(s) \in Nat /\ DOMAIN s = 1 .. Len(s)
    BY LenProperties
  <1>2. \A i \in 1 .. n : i \in 1 .. Len(s) /\ s[i] \in S
    BY <1>1, ElementOfSeq
  <1> DEFINE t == SubSeq(s, 1, n)
  <1>3. /\ t \in Seq(S) /\ Len(t) = n /\ \A i \in 1 .. n : t[i] = s[i]
    BY <1>1, <1>2
  <1>4. DOMAIN t = 1 .. n
    BY <1>3, LenProperties
  <1> HIDE DEF t
  <1>5. ToSet(t) \subseteq ToSet(s)
    BY <1>1, <1>2, <1>3, <1>4 DEF ToSet
  <1> QED
    BY <1>3, <1>5 DEF t

(* What is left without one entry, with it, is all of them.                *)
LEMMA SetOfRest ==
  ASSUME NEW S, NEW s \in Seq(S), NEW i \in DOMAIN s
  PROVE  /\ s[i] \in S /\ s[i] \in ToSet(s) /\ RemoveAt(s, i) \in Seq(S)
         /\ ToSet(s) = ToSet(RemoveAt(s, i)) \cup {s[i]}
  <1> DEFINE t == RemoveAt(s, i)
             n == Len(s)
  <1>1. /\ t \in Seq(S) /\ Len(t) = n - 1
        /\ \A j \in 1 .. n - 1 : Before(i, j) \in DOMAIN s /\ t[j] = s[Before(i, j)]
    BY WithoutOne
  <1>2. n \in Nat /\ DOMAIN s = 1 .. n /\ DOMAIN t = 1 .. n - 1 /\ i \in 1 .. n
        /\ s[i] \in S
    BY <1>1, LenProperties, ElementOfSeq
  <1> HIDE DEF t, n
  <1>3. ASSUME NEW k \in 1 .. n, k # i PROVE s[k] \in ToSet(t)
    <2> DEFINE j == IF k < i THEN k ELSE k - 1
    <2>1. j \in 1 .. n - 1 /\ Before(i, j) = k
      BY <1>2, <1>3 DEF Before
    <2> QED BY <1>1, <1>2, <2>1 DEF ToSet
  <1>4. ToSet(s) \subseteq ToSet(t) \cup {s[i]}
    BY <1>2, <1>3 DEF ToSet
  <1>5. ToSet(t) \cup {s[i]} \subseteq ToSet(s)
    BY <1>1, <1>2 DEF ToSet
  <1>6. s[i] \in ToSet(s)
    BY DEF ToSet
  <1> QED
    BY <1>1, <1>2, <1>4, <1>5, <1>6 DEF t

-----------------------------------------------------------------------------
(* What a handler does                                                     *)

SeatToken == IF seat = None THEN nextToken ELSE seat.token

(* The seat is given to connection c.                                      *)
Gives(c, event) ==
  /\ event # "leave_seat" /\ (owner # "me" => event = "join_room")
  /\ seat' = [token |-> SeatToken, sock |-> c] /\ owner' = "me"
  /\ bound' = bound \cup {c}
  /\ saving' = Append(saving, [event |-> event, token |-> SeatToken, sock |-> c])
  /\ nextToken' \in Tokens /\ down' = down

Refuses(c, event) ==
  /\ event # "leave_seat" /\ (event = "reconnect_by_account" => owner # "me")
  /\ down' = Replied(c, event, FALSE, 0)
  /\ UNCHANGED <<server>>

Frees(c, event) ==
  /\ event = "leave_seat" /\ c \in bound
  /\ seat' = None
  /\ saving' = Append(saving, [event |-> event, token |-> 0, sock |-> c])
  /\ UNCHANGED <<owner, bound, nextToken, down>>

FreesNothing(c, event) ==
  /\ event = "leave_seat" /\ c \notin bound
  /\ down' = Replied(c, event, TRUE, 0)
  /\ UNCHANGED <<server>>

(* Whatever a request asks for, its handler does one of these.             *)
LEMMA HandlerOutcome ==
  ASSUME TypeOK, Owned, NEW c \in Connections, StartHandler(c)
  PROVE  LET request == Head(up[c])
         IN /\ up[c] # <<>> /\ request \in Request /\ request \in ToSet(up[c])
            /\ Tail(up[c]) \in Seq(Request)
            /\ ToSet(up[c]) = ToSet(Tail(up[c])) \cup {request}
            /\ up' = [up EXCEPT ![c] = Tail(@)]
            /\ crossed' = (crossed \/ c # sock)
            /\ UNCHANGED <<unseen, fixed, status, stored, link, clicks, left, online, sock, buffer>>
            /\ \/ Gives(c, request.event) \/ Refuses(c, request.event)
               \/ Frees(c, request.event) \/ FreesNothing(c, request.event)
  <1> DEFINE request == Head(up[c])
  <1>1. up \in [Connections -> Seq(Request)]
    BY DEF TypeOK
  <1>2. up[c] # <<>> /\ up[c] \in Seq(Request)
    BY <1>1 DEF StartHandler
  <1>3. /\ request \in Request /\ request \in ToSet(up[c]) /\ Tail(up[c]) \in Seq(Request)
        /\ ToSet(up[c]) = ToSet(Tail(up[c])) \cup {request}
    BY <1>2, SetOfTail
  <1>4. /\ up' = [up EXCEPT ![c] = Tail(@)]
        /\ crossed' = (crossed \/ c # sock)
        /\ UNCHANGED <<unseen, fixed, status, stored, link, clicks, left, online, sock, buffer>>
        /\ \/ request.event = "reconnect_room" /\ ReconnectRoom(c, request.token)
           \/ request.event = "reconnect_by_account" /\ ReconnectByAccount(c)
           \/ request.event = "join_room" /\ JoinRoom(c)
           \/ request.event = "leave_seat" /\ LeaveSeat(c)
    BY DEF StartHandler
  <1> HIDE DEF request
  <1>5. /\ seat # None => /\ owner = "me" /\ seat \in Seat
                          /\ [seat EXCEPT !.sock = c] = [token |-> seat.token, sock |-> c]
        /\ nextToken \in Tokens /\ nextToken + 1 \in Tokens
    BY DEF TypeOK, Owned, Seat, Tokens
  <1>6. ASSUME NEW event, event \in {"reconnect_by_account", "join_room"}, seat = None,
               TakeEmptySeat(c, event), owner # "me" => event = "join_room"
        PROVE  Gives(c, event)
    BY <1>5, <1>6 DEF TakeEmptySeat, Save, Gives, SeatToken
  <1>7. ASSUME request.event = "reconnect_room", ReconnectRoom(c, request.token)
        PROVE  Gives(c, request.event) \/ Refuses(c, request.event)
    <2>1. CASE TokenFits(request.token)
      BY <1>5, <1>7, <2>1 DEF ReconnectRoom, Gives, SeatToken, Save, TokenFits
    <2>2. CASE ~TokenFits(request.token)
      BY <1>7, <2>2 DEF ReconnectRoom, Refuses, Refuse, Answer, server
    <2> QED BY <2>1, <2>2
  <1>8. ASSUME request.event = "reconnect_by_account", ReconnectByAccount(c)
        PROVE  Gives(c, request.event) \/ Refuses(c, request.event)
    <2>1. CASE owner = "me" /\ seat # None
      BY <1>5, <1>8, <2>1 DEF ReconnectByAccount, Gives, SeatToken, Save
    <2>2. CASE owner = "me" /\ seat = None
      BY <1>6, <1>8, <2>2 DEF ReconnectByAccount
    <2>3. CASE owner # "me"
      BY <1>8, <2>3 DEF ReconnectByAccount, Refuses, Refuse, Answer, server
    <2> QED BY <2>1, <2>2, <2>3
  <1>9. ASSUME request.event = "join_room", JoinRoom(c)
        PROVE  Gives(c, request.event) \/ Refuses(c, request.event)
    <2>1. CASE seat = None /\ owner # "other"
      BY <1>6, <1>9, <2>1 DEF JoinRoom
    <2>2. CASE seat # None \/ owner = "other"
      BY <1>9, <2>2 DEF JoinRoom, Refuses, Refuse, Answer, server
    <2> QED BY <2>1, <2>2
  <1>10. ASSUME request.event = "leave_seat", LeaveSeat(c)
         PROVE  Frees(c, request.event) \/ FreesNothing(c, request.event)
    BY <1>10 DEF LeaveSeat, Frees, FreesNothing, Save, Answer, server
  <1> QED
    BY <1>2, <1>3, <1>4, <1>7, <1>8, <1>9, <1>10 DEF request

No(event) == [event |-> event, ok |-> FALSE, token |-> 0]

Yes(event, token) == [event |-> event, ok |-> TRUE, token |-> token]

(* A reply is added if its connection is there, otherwise it is lost.      *)
LEMMA ReplyType ==
  ASSUME down \in Seq(Reply), NEW c, NEW event \in Events, NEW token \in Nat
  PROVE  /\ No(event) \in Reply /\ Yes(event, token) \in Reply
         /\ Replied(c, event, FALSE, 0) \in Seq(Reply)
         /\ Replied(c, event, TRUE, token) \in Seq(Reply)
         /\ ~(online /\ c = sock) => /\ Replied(c, event, FALSE, 0) = down
                                     /\ Replied(c, event, TRUE, token) = down
         /\ online /\ c = sock =>
              /\ Replied(c, event, FALSE, 0) = Append(down, No(event))
              /\ Replied(c, event, TRUE, token) = Append(down, Yes(event, token))
              /\ ToSet(Append(down, No(event))) = ToSet(down) \cup {No(event)}
              /\ ToSet(Append(down, Yes(event, token))) = ToSet(down) \cup {Yes(event, token)}
  <1>1. No(event) \in Reply /\ Yes(event, token) \in Reply
    BY DEF Reply, No, Yes
  <1>2. /\ Replied(c, event, FALSE, 0) = IF online /\ c = sock THEN Append(down, No(event)) ELSE down
        /\ Replied(c, event, TRUE, token) =
             IF online /\ c = sock THEN Append(down, Yes(event, token)) ELSE down
    BY DEF Replied, No, Yes
  <1>3. /\ Append(down, No(event)) \in Seq(Reply) /\ Append(down, Yes(event, token)) \in Seq(Reply)
        /\ ToSet(Append(down, No(event))) = ToSet(down) \cup {No(event)}
        /\ ToSet(Append(down, Yes(event, token))) = ToSet(down) \cup {Yes(event, token)}
    BY <1>1, SetOfAppend
  <1>4. CASE online /\ c = sock
    BY <1>1, <1>2, <1>3, <1>4
  <1>5. CASE ~(online /\ c = sock)
    BY <1>1, <1>2, <1>5
  <1> QED
    BY <1>4, <1>5

-----------------------------------------------------------------------------
(* Types                                                                   *)

LEMMA InitialTypes ==
  Init => TypeOK
  <1> SUFFICES ASSUME Init PROVE TypeOK
    OBVIOUS
  <1>1. /\ <<>> \in Seq(Request) /\ <<>> \in Seq(Saved) /\ <<>> \in Seq(Reply)
    OBVIOUS
  <1>2. seat \in Seat \cup {None} /\ nextToken \in Tokens
    BY BoundsAssumption DEF Init, Seat, Tokens
  <1>3. /\ owner \in {"nobody", "me", "other"} /\ bound = {} /\ unseen = {} /\ saving = <<>>
        /\ status \in Statuses /\ stored \in Nat /\ link \in Nat
        /\ sock \in 0 .. MaxConnections /\ clicks \in 0 .. MaxClicks
        /\ buffer = <<>> /\ down = <<>>
    BY BoundsAssumption DEF Init, Statuses
  <1>4. up \in [Connections -> Seq(Request)]
    BY <1>1 DEF Init
  <1>5. {fixed, online, crossed, left} \subseteq BOOLEAN
    BY DEF Init
  <1> QED
    BY <1>1, <1>2, <1>3, <1>4, <1>5 DEF TypeOK

(* The first requests of a connection are one of those that ask for the    *)
(* seat by its token, by the account, or, with a fixed role, for a role.   *)
LEMMA FirstRequests ==
  ASSUME TypeOK
  PROVE  \E request \in Request :
           /\ FirstRequest = <<request>> /\ FirstRequest \in Seq(Request)
           /\ ToSet(FirstRequest) = {request}
           /\ request.event \in {"reconnect_room", "reconnect_by_account", "join_room"}
           /\ request.event = "join_room" => fixed /\ stored = 0
           /\ request.event = "reconnect_by_account" => ~fixed
  <1> DEFINE token == IF ~fixed /\ link # 0 THEN link ELSE stored
             request == IF token # 0 THEN Ask("reconnect_room", token)
                        ELSE Ask(IF fixed THEN "join_room" ELSE "reconnect_by_account", 0)
  <1>1. token \in Nat
    BY DEF TypeOK
  <1>2. FirstRequest = <<request>>
    BY DEF FirstRequest
  <1>3. /\ request \in Request
        /\ request.event \in {"reconnect_room", "reconnect_by_account", "join_room"}
        /\ request.event = "join_room" => fixed /\ stored = 0
        /\ request.event = "reconnect_by_account" => ~fixed
    BY <1>1 DEF Ask, Request, Events
  <1> HIDE DEF request
  <1>4. <<request>> \in Seq(Request) /\ ToSet(<<request>>) = {request}
    BY <1>3 DEF ToSet
  <1> QED
    BY <1>2, <1>3, <1>4

(* What a connection sends.                                                *)
LEMMA SendTypes ==
  ASSUME TypeOK, NEW event \in Events, sock \in Connections, Send(event)
  PROVE  /\ up' \in [Connections -> Seq(Request)]
         /\ \A c \in Connections : c # sock => up'[c] = up[c]
         /\ Ask(event, 0) \in Request /\ Ask(event, 0).event = event
         /\ up'[sock] # <<>> /\ up'[sock] = Append(up[sock], Ask(event, 0))
         /\ ToSet(up'[sock]) = ToSet(up[sock]) \cup {Ask(event, 0)}
  <1>1. Ask(event, 0) \in Request /\ Ask(event, 0).event = event
    BY DEF Ask, Request
  <1>2. up \in [Connections -> Seq(Request)]
    BY DEF TypeOK
  <1>3. up[sock] \in Seq(Request)
    BY <1>2
  <1>4. /\ Append(up[sock], Ask(event, 0)) \in Seq(Request) /\ Append(up[sock], Ask(event, 0)) # <<>>
        /\ ToSet(Append(up[sock], Ask(event, 0))) = ToSet(up[sock]) \cup {Ask(event, 0)}
    BY <1>1, <1>3, SetOfAppend
  <1>5. up' = [up EXCEPT ![sock] = Append(up[sock], Ask(event, 0))]
    BY DEF Send
  <1> QED
    BY <1>1, <1>2, <1>4, <1>5

(* Types are kept, because only a client with a connection sends.          *)
LEMMA NextTypes ==
  TypeOK /\ Counted /\ Owned /\ [Next]_vars => TypeOK'
  <1> SUFFICES ASSUME TypeOK, Counted, Owned, [Next]_vars PROVE TypeOK'
    OBVIOUS
  <1> USE DEF Connections
  <1>1. /\ seat \in Seat \cup {None} /\ owner \in {"nobody", "me", "other"}
        /\ bound \subseteq Connections /\ unseen \subseteq Connections
        /\ saving \in Seq(Saved) /\ nextToken \in Tokens /\ status \in Statuses
        /\ stored \in Nat /\ link \in Nat /\ sock \in 0 .. MaxConnections
        /\ clicks \in 0 .. MaxClicks /\ buffer \in Seq(Request)
        /\ up \in [Connections -> Seq(Request)] /\ down \in Seq(Reply)
        /\ fixed \in BOOLEAN /\ online \in BOOLEAN /\ crossed \in BOOLEAN /\ left \in BOOLEAN
        /\ MaxConnections \in Nat /\ MaxClicks \in Nat
    BY BoundsAssumption DEF TypeOK
  <1>2. ASSUME Connect PROVE TypeOK'
    <2>1. /\ sock < MaxConnections /\ online' = TRUE /\ sock' = sock + 1
          /\ up' = [up EXCEPT ![sock + 1] = buffer \o FirstRequest]
          /\ buffer' = <<>> /\ link' = IF fixed THEN link ELSE 0
          /\ crossed' = \E i \in DOMAIN buffer : buffer[i].event = "leave_seat"
          /\ UNCHANGED <<server, unseen, fixed, status, stored, clicks, left, down>>
      BY <1>2 DEF Connect
    <2>2. buffer \o FirstRequest \in Seq(Request)
      BY <1>1, FirstRequests, SetOfConcat
    <2>3. up' \in [Connections -> Seq(Request)]
      BY <1>1, <2>1, <2>2
    <2>4. sock' \in 0 .. MaxConnections /\ link' \in Nat /\ crossed' \in BOOLEAN
          /\ buffer' \in Seq(Request)
      BY <1>1, <2>1
    <2> QED BY <1>1, <2>1, <2>3, <2>4 DEF TypeOK, server
  <1>3. ASSUME Drop, sock \in Connections PROVE TypeOK'
    <2>1. PICK n \in 0 .. Len(up[sock]) :
            /\ up' = [up EXCEPT ![sock] = SubSeq(up[sock], 1, n)]
            /\ online' = FALSE /\ down' = <<>> /\ unseen' = unseen \cup {sock}
            /\ UNCHANGED <<server, client, sock, buffer>>
      BY <1>3 DEF Drop
    <2>2. SubSeq(up[sock], 1, n) \in Seq(Request)
      BY <1>1, <1>3, SetOfPrefix
    <2>3. up' \in [Connections -> Seq(Request)] /\ unseen' \subseteq Connections
          /\ down' \in Seq(Reply)
      BY <1>1, <1>3, <2>1, <2>2
    <2> QED BY <1>1, <2>1, <2>3 DEF TypeOK, server, client
  <1>4. ASSUME NEW c \in Connections, StartHandler(c) PROVE TypeOK'
    <2> DEFINE request == Head(up[c])
    <2>1. /\ request \in Request /\ Tail(up[c]) \in Seq(Request)
          /\ up' = [up EXCEPT ![c] = Tail(@)]
          /\ crossed' = (crossed \/ c # sock)
          /\ UNCHANGED <<unseen, fixed, status, stored, link, clicks, left, online, sock, buffer>>
          /\ \/ Gives(c, request.event) \/ Refuses(c, request.event)
             \/ Frees(c, request.event) \/ FreesNothing(c, request.event)
      BY <1>4, HandlerOutcome
    <2> DEFINE e == request.event
    <2>2. e \in Events
      BY <2>1 DEF Request
    <2> HIDE DEF request, e
    <2>3. up' \in [Connections -> Seq(Request)] /\ crossed' \in BOOLEAN
      BY <1>1, <2>1
    <2>4. SeatToken \in Tokens /\ SeatToken \in Nat
      BY <1>1 DEF SeatToken, Seat, Tokens
    <2>5. /\ Append(saving, [event |-> e, token |-> SeatToken, sock |-> c]) \in Seq(Saved)
          /\ Append(saving, [event |-> e, token |-> 0, sock |-> c]) \in Seq(Saved)
      <3>1. /\ [event |-> e, token |-> SeatToken, sock |-> c] \in Saved
            /\ [event |-> e, token |-> 0, sock |-> c] \in Saved
        BY <2>2, <2>4 DEF Saved
      <3> QED BY <1>1, <3>1, SetOfAppend
    <2>6. /\ Replied(c, e, FALSE, 0) \in Seq(Reply)
          /\ Replied(c, e, TRUE, 0) \in Seq(Reply)
      BY <1>1, <2>2, ReplyType
    <2>7. /\ seat' \in Seat \cup {None} /\ owner' \in {"nobody", "me", "other"}
          /\ bound' \subseteq Connections /\ saving' \in Seq(Saved) /\ nextToken' \in Tokens
          /\ down' \in Seq(Reply)
      <3>1. CASE Gives(c, e)
        <4>1. [token |-> SeatToken, sock |-> c] \in Seat
          BY <1>1, <2>4 DEF Seat
        <4> QED BY <1>1, <2>5, <3>1, <4>1 DEF Gives
      <3>2. CASE Refuses(c, e)
        BY <1>1, <2>6, <3>2 DEF Refuses, server
      <3>3. CASE Frees(c, e)
        BY <1>1, <2>5, <3>3 DEF Frees
      <3>4. CASE FreesNothing(c, e)
        BY <1>1, <2>6, <3>4 DEF FreesNothing, server
      <3> QED BY <2>1, <3>1, <3>2, <3>3, <3>4 DEF e
    <2> QED BY <1>1, <2>1, <2>3, <2>7 DEF TypeOK
  <1>5. ASSUME NEW i \in DOMAIN saving, FinishHandler(i) PROVE TypeOK'
    <2> DEFINE h == saving[i]
    <2>1. h \in Saved /\ RemoveAt(saving, i) \in Seq(Saved)
      BY <1>1, SetOfRest
    <2>2. /\ saving' = RemoveAt(saving, i)
          /\ bound' = IF h.event = "leave_seat" THEN bound \ {h.sock} ELSE bound
          /\ down' = Replied(h.sock, h.event, TRUE, h.token)
          /\ UNCHANGED <<seat, owner, nextToken, unseen, client, online, sock, buffer, up>>
      BY <1>5 DEF FinishHandler
    <2> HIDE DEF h
    <2>3. down' \in Seq(Reply)
      <3>1. h.event \in Events /\ h.token \in Nat
        BY <2>1 DEF Saved
      <3> QED BY <1>1, <2>2, <3>1, ReplyType
    <2> QED BY <1>1, <2>1, <2>2, <2>3 DEF TypeOK, client
  <1>6. ASSUME NEW c \in Connections, HandleDisconnect(c) PROVE TypeOK'
    <2>1. /\ unseen' = unseen \ {c} /\ bound' = bound \ {c}
          /\ seat' = IF c \notin bound \/ Superseded(c) THEN seat ELSE [seat EXCEPT !.sock = 0]
          /\ up' = [up EXCEPT ![c] = <<>>]
          /\ UNCHANGED <<owner, saving, nextToken, client, online, sock, buffer, down>>
      BY <1>6 DEF HandleDisconnect
    <2>2. seat' \in Seat \cup {None}
      BY <1>1, <2>1 DEF Superseded, Seat
    <2>3. up' \in [Connections -> Seq(Request)]
      BY <1>1, <2>1
    <2> QED BY <1>1, <2>1, <2>2, <2>3 DEF TypeOK, client
  <1>7. ASSUME ExpireSeat \/ OtherJoins PROVE TypeOK'
    BY <1>1, <1>7 DEF ExpireSeat, OtherJoins, TypeOK, client
  <1>8. ASSUME TakeReply, sock \in Connections PROVE TypeOK'
    <2> DEFINE reply == Head(down)
    <2>1. /\ down # <<>> /\ down' = Tail(down)
          /\ \/ status' = "picking-role" /\ stored' = 0 /\ up' = up
             \/ status' = "in-room" /\ stored' = reply.token /\ up' = up
             \/ /\ reply.event = "reconnect_room" /\ stored' = 0 /\ status' = status
                /\ Send(IF fixed THEN "join_room" ELSE "reconnect_by_account")
             \/ status' = "picking-role" /\ stored' = stored /\ up' = up
             \/ status' = status /\ stored' = stored /\ up' = up
          /\ UNCHANGED <<server, unseen, fixed, link, clicks, crossed, left, online, sock, buffer>>
      BY <1>8 DEF TakeReply, InRoom, Keep, Forget, Refused
    <2>2. reply \in Reply /\ down' \in Seq(Reply)
      BY <1>1, <2>1, SetOfTail
    <2>3. up' \in [Connections -> Seq(Request)]
      <3>1. "join_room" \in Events /\ "reconnect_by_account" \in Events
        BY DEF Events
      <3> QED BY <1>1, <1>8, <2>1, <3>1, SendTypes
    <2>4. status' \in Statuses /\ stored' \in Nat
      BY <1>1, <2>1, <2>2 DEF Statuses, Reply
    <2> QED BY <1>1, <2>1, <2>2, <2>3, <2>4 DEF TypeOK, server
  <1>9. online => sock \in Connections
    BY DEF Counted
  <1>10. ASSUME NEW event \in {"join_room", "leave_seat"}, Emit(event)
         PROVE  up' \in [Connections -> Seq(Request)] /\ buffer' \in Seq(Request)
    <2>1. event \in Events /\ Ask(event, 0) \in Request
      BY DEF Events, Request, Ask
    <2>2. CASE online
      <3>1. Send(event) /\ buffer' = buffer
        BY <1>10, <2>2 DEF Emit
      <3> QED BY <1>1, <1>9, <2>1, <2>2, <3>1, SendTypes
    <2>3. CASE ~online
      <3>1. buffer' = Append(buffer, Ask(event, 0)) /\ up' = up
        BY <1>10, <2>3 DEF Emit
      <3> QED BY <1>1, <2>1, <3>1, SetOfAppend
    <2> QED BY <2>2, <2>3
  <1>11. ASSUME JoinAs PROVE TypeOK'
    <2>1. /\ clicks < MaxClicks /\ clicks' = clicks + 1 /\ Emit("join_room")
          /\ UNCHANGED <<server, unseen, fixed, status, stored, link, crossed, left, online,
                         sock, down>>
      BY <1>11 DEF JoinAs
    <2>2. clicks' \in 0 .. MaxClicks
      BY <1>1, <2>1
    <2> QED BY <1>1, <1>10, <2>1, <2>2 DEF TypeOK, server
  <1>12. ASSUME Leave PROVE TypeOK'
    <2>1. /\ clicks < MaxClicks /\ clicks' = clicks + 1 /\ Emit("leave_seat")
          /\ left' = TRUE /\ crossed' \in BOOLEAN
          /\ UNCHANGED <<server, unseen, fixed, status, stored, link, online, sock, down>>
      <3> HIDE DEF Quiet
      <3> QED BY <1>12 DEF Leave
    <2>2. clicks' \in 0 .. MaxClicks
      BY <1>1, <2>1
    <2> QED BY <1>1, <1>10, <2>1, <2>2 DEF TypeOK, server
  <1>13. ASSUME UNCHANGED vars PROVE TypeOK'
    BY <1>13 DEF vars, server, client, TypeOK
  <1>14. (Drop => online) /\ (TakeReply => online)
    BY DEF Drop, TakeReply, Counted
  <1> QED
    BY <1>2, <1>3, <1>4, <1>5, <1>6, <1>7, <1>8, <1>9, <1>11, <1>12, <1>13, <1>14
    DEF Next, ServerStep

-----------------------------------------------------------------------------
(* The invariant is kept                                                   *)

(* A handler of this connection is one of those that save.                 *)
LEMMA HandledIsSaved ==
  HandledHere <=> \E h \in ToSet(saving) : h.sock = sock
  BY DEF HandledHere, ToSet

LEMMA NothingAtFirst ==
  Init => ConnectionInv
  <1> SUFFICES ASSUME Init PROVE ConnectionInv
    OBVIOUS
  <1>1. /\ ToSet(<<>>) = {}
        /\ bound = {} /\ unseen = {} /\ saving = <<>> /\ buffer = <<>> /\ down = <<>>
        /\ \A c \in Connections : up[c] = <<>>
        /\ online = FALSE /\ status = "connecting" /\ (seat # None => owner = "me")
    BY SetOfEmpty DEF Init
  <1>2. Counted
    BY <1>1 DEF Counted
  <1>3. Owned /\ Settling
    BY <1>1 DEF Owned, Settling
  <1>4. Unclicked
    BY <1>1 DEF Unclicked, RefusalOf
  <1> QED
    BY <1>2, <1>3, <1>4, InitialTypes DEF ConnectionInv

(* A handler that starts moves one request of its connection: what is then *)
(* saved or answered is of that request.                                   *)
LEMMA HandlerMoves ==
  ASSUME TypeOK, Counted, Owned, NEW c \in Connections, StartHandler(c)
  PROVE  \E request \in Request :
           /\ c <= sock /\ request \in ToSet(up[c]) /\ request.event \in Events
           /\ up[c] # <<>> /\ up'[c] = Tail(up[c])
           /\ ToSet(up[c]) = ToSet(up'[c]) \cup {request}
           /\ \A d \in Connections : d # c => up'[d] = up[d]
           /\ crossed' = (crossed \/ c # sock)
           /\ UNCHANGED <<unseen, fixed, status, stored, link, clicks, left, online, sock, buffer>>
           /\ \/ Gives(c, request.event) \/ Refuses(c, request.event)
              \/ Frees(c, request.event) \/ FreesNothing(c, request.event)
  <1> DEFINE request == Head(up[c])
  <1>1. /\ up[c] # <<>> /\ request \in Request /\ request \in ToSet(up[c])
        /\ ToSet(up[c]) = ToSet(Tail(up[c])) \cup {request}
        /\ up' = [up EXCEPT ![c] = Tail(@)]
        /\ crossed' = (crossed \/ c # sock)
        /\ UNCHANGED <<unseen, fixed, status, stored, link, clicks, left, online, sock, buffer>>
        /\ \/ Gives(c, request.event) \/ Refuses(c, request.event)
           \/ Frees(c, request.event) \/ FreesNothing(c, request.event)
    BY HandlerOutcome
  <1> HIDE DEF request
  <1>2. up'[c] = Tail(up[c]) /\ \A d \in Connections : d # c => up'[d] = up[d]
    BY <1>1 DEF TypeOK
  <1>3. c <= sock
    BY <1>1, BoundsAssumption DEF Counted, Connections, TypeOK
  <1>4. request.event \in Events
    BY <1>1 DEF Request
  <1> QED
    BY <1>1, <1>2, <1>3, <1>4

(* What it saves and what it answers.                                      *)
Entry(event, token, c) == [event |-> event, token |-> token, sock |-> c]

LEMMA HandlerSays ==
  ASSUME TypeOK, NEW c \in Connections, NEW event \in Events
  PROVE  /\ Gives(c, event) =>
              /\ saving' = Append(saving, Entry(event, SeatToken, c)) /\ down' = down
              /\ ToSet(saving') = ToSet(saving) \cup {Entry(event, SeatToken, c)}
         /\ Frees(c, event) =>
              /\ saving' = Append(saving, Entry(event, 0, c)) /\ down' = down
              /\ ToSet(saving') = ToSet(saving) \cup {Entry(event, 0, c)}
         /\ Refuses(c, event) \/ FreesNothing(c, event) =>
              /\ saving' = saving
              /\ ~(online /\ c = sock) => down' = down
         /\ online /\ c = sock =>
              /\ Refuses(c, event) => /\ down' = Append(down, No(event))
                                     /\ ToSet(down') = ToSet(down) \cup {No(event)}
              /\ FreesNothing(c, event) => /\ down' = Append(down, Yes(event, 0))
                                          /\ ToSet(down') = ToSet(down) \cup {Yes(event, 0)}
  <1>1. saving \in Seq(Saved) /\ down \in Seq(Reply) /\ SeatToken \in Nat /\ 0 \in Nat
    BY DEF TypeOK, SeatToken, Seat, Tokens
  <1>2. Entry(event, SeatToken, c) \in Saved /\ Entry(event, 0, c) \in Saved
    BY <1>1 DEF Saved, Entry
  <1>3. /\ ToSet(Append(saving, Entry(event, SeatToken, c))) =
             ToSet(saving) \cup {Entry(event, SeatToken, c)}
        /\ ToSet(Append(saving, Entry(event, 0, c))) = ToSet(saving) \cup {Entry(event, 0, c)}
    BY <1>1, <1>2, SetOfAppend
  <1>4. ASSUME Gives(c, event)
        PROVE  saving' = Append(saving, Entry(event, SeatToken, c)) /\ down' = down
    BY <1>4 DEF Gives, Entry
  <1>5. ASSUME Frees(c, event)
        PROVE  saving' = Append(saving, Entry(event, 0, c)) /\ down' = down
    BY <1>5 DEF Frees, Entry
  <1>6. ASSUME Refuses(c, event)
        PROVE  saving' = saving /\ down' = Replied(c, event, FALSE, 0)
    BY <1>6 DEF Refuses, server
  <1>7. ASSUME FreesNothing(c, event)
        PROVE  saving' = saving /\ down' = Replied(c, event, TRUE, 0)
    BY <1>7 DEF FreesNothing, server
  <1>8. /\ ~(online /\ c = sock) => /\ Replied(c, event, FALSE, 0) = down
                                    /\ Replied(c, event, TRUE, 0) = down
        /\ online /\ c = sock =>
             /\ Replied(c, event, FALSE, 0) = Append(down, No(event))
             /\ Replied(c, event, TRUE, 0) = Append(down, Yes(event, 0))
             /\ ToSet(Append(down, No(event))) = ToSet(down) \cup {No(event)}
             /\ ToSet(Append(down, Yes(event, 0))) = ToSet(down) \cup {Yes(event, 0)}
    BY <1>1, ReplyType
  <1>9. CASE online /\ c = sock
    BY <1>3, <1>4, <1>5, <1>6, <1>7, <1>8, <1>9
  <1>10. CASE ~(online /\ c = sock)
    BY <1>3, <1>4, <1>5, <1>6, <1>7, <1>8, <1>10
  <1> QED
    BY <1>9, <1>10

(* A handler that starts: its connection is one that was there, and of     *)
(* this one it refuses by account only if the account is not the owner's.  *)
LEMMA StartKeepsCounts ==
  ASSUME TypeOK, Counted, Owned, Unclicked, NEW c \in Connections, StartHandler(c)
  PROVE  Counted' /\ Owned' /\ Unclicked'
  <1>1. PICK request \in Request :
          /\ c <= sock /\ request \in ToSet(up[c]) /\ request.event \in Events
          /\ up[c] # <<>> /\ up'[c] = Tail(up[c])
          /\ ToSet(up[c]) = ToSet(up'[c]) \cup {request}
          /\ \A d \in Connections : d # c => up'[d] = up[d]
          /\ UNCHANGED <<unseen, fixed, status, clicks, left, online, sock, buffer>>
          /\ \/ Gives(c, request.event) \/ Refuses(c, request.event)
             \/ Frees(c, request.event) \/ FreesNothing(c, request.event)
    BY HandlerMoves
  <1> DEFINE e == request.event
  <1>2. e \in Events
    BY <1>1
  <1>3. /\ bound' \subseteq bound \cup {c}
        /\ \A h \in ToSet(saving') : h \in ToSet(saving) \/ (h.sock = c /\ h.event = e)
        /\ \A r \in ToSet(down') : \/ r \in ToSet(down)
                                  \/ /\ online /\ c = sock /\ r.event = e
                                     /\ ~r.ok => Refuses(c, e)
        /\ ~online => down' = down
    <2>1. /\ \A token : Entry(e, token, c).sock = c /\ Entry(e, token, c).event = e
          /\ No(e).event = e /\ ~No(e).ok
          /\ Yes(e, 0).event = e /\ Yes(e, 0).ok
      BY DEF Entry, No, Yes
    <2>2. ASSUME Gives(c, e) \/ Frees(c, e)
          PROVE  /\ bound' \subseteq bound \cup {c} /\ down' = down
                 /\ \A h \in ToSet(saving') : h \in ToSet(saving) \/ (h.sock = c /\ h.event = e)
      <3>1. bound' \subseteq bound \cup {c}
        BY <2>2 DEF Gives, Frees
      <3> QED BY <1>2, <2>1, <2>2, <3>1, HandlerSays
    <2>3. ASSUME Refuses(c, e) \/ FreesNothing(c, e)
          PROVE  /\ bound' = bound /\ saving' = saving
                 /\ ~(online /\ c = sock) => down' = down
                 /\ \A r \in ToSet(down') :
                      \/ r \in ToSet(down)
                      \/ /\ online /\ c = sock /\ r.event = e
                         /\ ~r.ok => Refuses(c, e)
      <3>1. bound' = bound /\ saving' = saving
        BY <2>3 DEF Refuses, FreesNothing, server
      <3>2. CASE online /\ c = sock
        <4>1. CASE Refuses(c, e)
          BY <1>2, <2>1, <3>1, <3>2, <4>1, HandlerSays
        <4>2. CASE FreesNothing(c, e)
          BY <1>2, <2>1, <3>1, <3>2, <4>2, HandlerSays
        <4> QED BY <2>3, <4>1, <4>2
      <3>3. CASE ~(online /\ c = sock)
        <4>1. down' = down
          BY <1>2, <2>3, <3>3, HandlerSays
        <4> QED BY <3>1, <3>3, <4>1
      <3> QED BY <3>2, <3>3
    <2> QED BY <1>1, <2>2, <2>3
  <1>4. \A d \in Connections : ToSet(up'[d]) \subseteq ToSet(up[d]) /\ (up[d] = <<>> => up'[d] = <<>>)
    BY <1>1
  <1>5. /\ owner' = owner \/ Gives(c, e)
        /\ seat' # None => (seat # None /\ owner' = owner) \/ owner' = "me"
        /\ Gives(c, e) => owner = "me" \/ e = "join_room"
        /\ Refuses(c, e) /\ e = "reconnect_by_account" => owner # "me"
    BY <1>1 DEF Gives, Refuses, Frees, FreesNothing, server
  <1> HIDE DEF e
  <1>6. Counted'
    <2>1. ASSUME NEW d \in Connections, d > sock
          PROVE  d \notin bound' /\ d \notin unseen' /\ up'[d] = <<>>
      <3>1. d # c /\ d \notin bound /\ d \notin unseen /\ up[d] = <<>>
        BY <1>1, <2>1, BoundsAssumption DEF Counted, Connections, TypeOK
      <3> QED BY <1>1, <1>3, <1>4, <3>1
    <2>2. \A h \in ToSet(saving') : h.sock <= sock
      BY <1>1, <1>3 DEF Counted
    <2> QED BY <1>1, <1>3, <2>1, <2>2 DEF Counted
  <1>7. Owned'
    <2>1. seat' # None => owner' = "me"
      BY <1>5 DEF Owned
    <2>2. ASSUME online, fixed
          PROVE  ~Asked("reconnect_by_account")' /\ ~RefusalOf("reconnect_by_account")'
      <3>1. sock \in Connections /\ sock' = sock
        BY <1>1, <2>2 DEF Counted
      <3>2. ~Asked("reconnect_by_account") /\ ~RefusalOf("reconnect_by_account")
        BY <2>2 DEF Owned
      <3>3. ~Asked("reconnect_by_account")'
        BY <1>4, <3>1, <3>2 DEF Asked
      <3>4. c = sock => e # "reconnect_by_account"
        BY <1>1, <3>2 DEF Asked, e
      <3> QED BY <1>3, <3>2, <3>3, <3>4 DEF RefusalOf
    <2> QED BY <1>1, <2>1, <2>2 DEF Owned
  <1>8. Unclicked'
    <2> SUFFICES ASSUME clicks = 0 PROVE Unclicked'
      BY <1>1 DEF Unclicked
    <2>1. /\ buffer = <<>>
          /\ \A d \in Connections : \A r \in ToSet(up[d]) :
               r.event # "leave_seat" /\ (r.event = "join_room" => fixed)
          /\ \A h \in ToSet(saving) : h.event # "leave_seat"
          /\ \A r \in ToSet(down) : r.event # "leave_seat"
          /\ ~fixed /\ owner = "me" =>
               status # "picking-role" /\ ~RefusalOf("reconnect_by_account")
      BY DEF Unclicked
    <2>2. e # "leave_seat" /\ (e = "join_room" => fixed)
      BY <1>1, <2>1 DEF e
    <2>3. /\ \A d \in Connections : \A r \in ToSet(up'[d]) :
               r.event # "leave_seat" /\ (r.event = "join_room" => fixed)
          /\ \A h \in ToSet(saving') : h.event # "leave_seat"
          /\ \A r \in ToSet(down') : r.event # "leave_seat"
      BY <1>3, <1>4, <2>1, <2>2
    <2>4. ASSUME ~fixed, owner' = "me"
          PROVE  status # "picking-role" /\ ~RefusalOf("reconnect_by_account")'
      <3>1. owner = "me"
        BY <1>5, <2>2, <2>4
      <3>2. status # "picking-role" /\ ~RefusalOf("reconnect_by_account")
        BY <2>1, <2>4, <3>1
      <3> QED BY <1>3, <1>5, <3>1, <3>2 DEF RefusalOf
    <2> QED BY <1>1, <2>1, <2>3, <2>4 DEF Unclicked
  <1> QED
    BY <1>6, <1>7, <1>8

(* A refused request of the account says that the seat has no record: its  *)
(* owner is somebody else.                                                 *)
LEMMA StartSettles ==
  ASSUME TypeOK, Counted, Owned, Settling, NEW c \in Connections, StartHandler(c)
  PROVE  Settling'
  <1>1. PICK request \in Request :
          /\ c <= sock /\ request \in ToSet(up[c]) /\ request.event \in Events
          /\ up[c] # <<>> /\ up'[c] = Tail(up[c])
          /\ ToSet(up[c]) = ToSet(up'[c]) \cup {request}
          /\ crossed' = (crossed \/ c # sock)
          /\ UNCHANGED <<fixed, status, stored, left, online, sock>>
          /\ \/ Gives(c, request.event) \/ Refuses(c, request.event)
             \/ Frees(c, request.event) \/ FreesNothing(c, request.event)
    BY HandlerMoves
  <1> DEFINE e == request.event
  <1>2. SUFFICES ASSUME online, ~crossed, c = sock
                 PROVE  IF Leaving' THEN LeavesAlone' ELSE Binding' /\ Showing' /\ Returning'
    BY <1>1 DEF Settling
  <1>3. e \in Events /\ sock' = sock /\ fixed' = fixed /\ status' = status
        /\ stored' = stored /\ left' = left
    BY <1>1
  <1>4. /\ \A token : /\ Entry(e, token, c).sock = c /\ Entry(e, token, c).event = e
                      /\ Entry(e, token, c).token = token
        /\ No(e).event = e /\ ~No(e).ok
        /\ Yes(e, 0).event = e /\ Yes(e, 0).ok
    BY DEF Entry, No, Yes
  <1>5. /\ saving \in Seq(Saved) /\ down \in Seq(Reply) /\ up[sock] \in Seq(Request)
        /\ ToSet(up[sock]) = ToSet(up'[sock]) \cup {request}
        /\ up[sock] # <<>> /\ up'[sock] = Tail(up[sock])
        /\ \A event : Asked(event) <=> Asked(event)' \/ event = e
    <2>1. saving \in Seq(Saved) /\ down \in Seq(Reply) /\ up[sock] \in Seq(Request)
      BY <1>2 DEF TypeOK
    <2>2. /\ ToSet(up[sock]) = ToSet(up'[sock]) \cup {request}
          /\ up[sock] # <<>> /\ up'[sock] = Tail(up[sock])
      BY <1>1, <1>2
    <2> QED BY <1>3, <2>1, <2>2 DEF Asked
  <1>6. Leaving => /\ left /\ status = "in-room"
                   /\ Len(up[sock]) = 1 /\ ~HandledHere /\ down = <<>> /\ e = "leave_seat"
                   /\ up'[sock] = <<>>
    <2> SUFFICES ASSUME Leaving
                 PROVE  /\ left /\ status = "in-room"
                        /\ Len(up[sock]) = 1 /\ ~HandledHere /\ down = <<>> /\ e = "leave_seat"
                        /\ up'[sock] = <<>>
      OBVIOUS
    <2>1. LeavesAlone
      BY <1>2 DEF Settling
    <2>2. left /\ status = "in-room" /\ Len(up[sock]) = 1 /\ ~HandledHere /\ down = <<>>
      BY <1>5, <2>1 DEF LeavesAlone
    <2>3. up'[sock] = <<>>
      <3> DEFINE u == up[sock]
      <3>1. u \in Seq(Request) /\ u # <<>> /\ Len(u) = 1
        BY <1>5, <2>2
      <3> HIDE DEF u
      <3>2. Tail(u) \in Seq(Request) /\ Len(Tail(u)) = 0
        BY <3>1, HeadTailProperties
      <3>3. Tail(u) = <<>>
        BY <3>2, EmptySeq
      <3> QED BY <1>5, <3>3 DEF u
    <2>4. Asked("leave_seat")
      BY <2>2, HandledIsSaved, SetOfEmpty DEF Leaving
    <2>5. ~Asked("leave_seat")'
      BY <1>3, <2>3, SetOfEmpty DEF Asked
    <2> QED BY <1>5, <2>2, <2>3, <2>4, <2>5
  <1> HIDE DEF e
  <1>7. CASE Frees(c, e)
    <2>1. e = "leave_seat" /\ Leaving
      BY <1>5, <1>7 DEF Frees, Leaving
    <2>2. /\ saving' = Append(saving, Entry(e, 0, c)) /\ down' = <<>>
          /\ Entry(e, 0, c) \in ToSet(saving')
      BY <1>2, <1>3, <1>6, <1>7, <2>1, HandlerSays
    <2>3. Leaving'
      BY <1>2, <1>3, <1>4, <2>1, <2>2 DEF Leaving
    <2>4. \A i \in DOMAIN saving' : saving'[i].sock = sock => i = Len(saving) + 1
      <3>1. Entry(e, 0, c) \in Saved
        BY <1>3 DEF Entry, Saved
      <3>2. /\ DOMAIN saving' = 1 .. Len(saving) + 1 /\ Len(saving) \in Nat
            /\ \A i \in 1 .. Len(saving) : saving'[i] = saving[i]
        BY <1>5, <2>2, <3>1, LenProperties, AppendProperties
      <3>3. \A i \in 1 .. Len(saving) : saving[i].sock # sock
        BY <1>5, <1>6, <2>1, LenProperties DEF HandledHere
      <3> QED BY <3>2, <3>3
    <2> QED BY <1>3, <1>6, <2>1, <2>2, <2>3, <2>4 DEF LeavesAlone
  <1>8. CASE FreesNothing(c, e)
    <2>1. e = "leave_seat" /\ Leaving /\ c \notin bound /\ bound' = bound
      BY <1>5, <1>8 DEF FreesNothing, Leaving, server
    <2>2. /\ saving' = saving /\ down' = Append(down, Yes(e, 0))
          /\ Yes(e, 0) \in ToSet(down')
      BY <1>2, <1>3, <1>8, HandlerSays
    <2>3. Leaving'
      BY <1>3, <1>4, <2>1, <2>2 DEF Leaving
    <2>4. Len(down') = 1
      BY <1>6, <2>1, <2>2
    <2>5. ~HandledHere'
      BY <1>3, <1>6, <2>1, <2>2 DEF HandledHere
    <2> QED BY <1>2, <1>3, <1>6, <2>1, <2>3, <2>4, <2>5 DEF LeavesAlone
  <1>9. CASE Gives(c, e)
    <2>1. /\ e # "leave_seat" /\ seat' = [token |-> SeatToken, sock |-> c]
          /\ bound' = bound \cup {c} /\ SeatToken = IF seat = None THEN nextToken ELSE seat.token
      BY <1>9 DEF Gives, SeatToken
    <2>2. ToSet(saving') = ToSet(saving) \cup {Entry(e, SeatToken, c)} /\ down' = down
      BY <1>3, <1>9, HandlerSays
    <2>3. ~Leaving /\ Binding
      BY <1>2, <1>6, <2>1 DEF Settling
    <2>4. ~Leaving'
      BY <1>3, <1>4, <1>5, <2>1, <2>2, <2>3 DEF Leaving
    <2>5. seat' # None
      <3>1. [token |-> SeatToken, sock |-> c] \in Seat
        BY DEF TypeOK, SeatToken, Seat, Connections, Tokens
      <3> QED BY <2>1, <3>1, NoneAssumption
    <2>6. sock \in bound => seat'.token = seat.token
      BY <2>1, <2>3 DEF Binding
    <2>7. sock \in bound' /\ seat'.sock = sock /\ seat'.token = SeatToken
      BY <1>2, <2>1
    <2>8. Binding'
      <3>1. \A h \in ToSet(saving') : h.sock = sock => h.token = seat'.token
        BY <1>4, <2>2, <2>3, <2>6, <2>7 DEF Binding
      <3>2. \A r \in ToSet(down) : r.ok => r.token = seat'.token
        BY <2>3, <2>6 DEF Binding
      <3> QED BY <1>3, <2>2, <2>3, <2>5, <2>7, <3>1, <3>2 DEF Binding
    <2>9. HandledHere'
      <3>1. saving' = Append(saving, Entry(e, SeatToken, c)) /\ Entry(e, SeatToken, c) \in Saved
        <4>1. SeatToken \in Nat
          BY DEF TypeOK, SeatToken, Seat, Tokens
        <4> QED BY <1>3, <1>9, <4>1, HandlerSays DEF Entry, Saved
      <3>2. Len(saving) + 1 \in DOMAIN saving' /\ saving'[Len(saving) + 1] = Entry(e, SeatToken, c)
        BY <1>5, <3>1, LenProperties, AppendProperties
      <3> QED BY <1>2, <1>3, <1>4, <3>2 DEF HandledHere
    <2> QED BY <1>3, <2>4, <2>7, <2>8, <2>9 DEF Showing, Returning
  <1>10. CASE Refuses(c, e)
    <2>1. /\ e # "leave_seat" /\ (e = "reconnect_by_account" => owner # "me")
          /\ seat' = seat /\ bound' = bound /\ saving' = saving /\ owner' = owner
      BY <1>10 DEF Refuses, server
    <2>2. down' = Append(down, No(e)) /\ ToSet(down') = ToSet(down) \cup {No(e)}
      BY <1>2, <1>3, <1>10, HandlerSays
    <2>3. ~Leaving /\ Binding /\ Showing /\ Returning
      BY <1>2, <1>6, <2>1 DEF Settling
    <2>4. ~Leaving'
      BY <1>3, <1>4, <1>5, <2>1, <2>2, <2>3 DEF Leaving
    <2>5. e = "reconnect_by_account" => sock \notin bound
      BY <2>1, <2>3 DEF Binding, Owned
    <2>6. /\ \A event : RefusalOf(event)' <=> RefusalOf(event) \/ event = e
          /\ Granted' <=> Granted
          /\ HandledHere' <=> HandledHere
          /\ Restoring => Restoring' \/ e = "reconnect_by_account"
      <3>1. \A event : RefusalOf(event)' <=> RefusalOf(event) \/ event = e
        BY <1>4, <2>2 DEF RefusalOf
      <3>2. Granted' <=> Granted
        BY <1>4, <2>2 DEF Granted
      <3>3. HandledHere' <=> HandledHere
        BY <1>3, <2>1 DEF HandledHere
      <3>4. Restoring => Restoring' \/ e = "reconnect_by_account"
        BY <1>5, <3>1 DEF Restoring
      <3> QED BY <3>1, <3>2, <3>3, <3>4
    <2>7. Binding'
      <3>1. No(e) \in Reply
        BY <1>3 DEF No, Reply
      <3>2. /\ DOMAIN down' = 1 .. Len(down) + 1 /\ Len(down) \in Nat /\ DOMAIN down = 1 .. Len(down)
            /\ \A i \in 1 .. Len(down) : down'[i] = down[i]
            /\ down'[Len(down) + 1] = No(e)
        BY <1>5, <2>2, <3>1, LenProperties, AppendProperties
      <3>3. \A i \in DOMAIN down : down[i].ok => sock \in bound
        BY <2>3 DEF Binding, ToSet
      <3>4. ASSUME NEW i \in DOMAIN down', NEW j \in DOMAIN down', i < j, down'[i].ok
            PROVE  down'[j].ok \/ down'[j].event # "reconnect_by_account"
        <4>1. i \in DOMAIN down /\ down[i].ok
          BY <3>2, <3>4
        <4>2. CASE j \in DOMAIN down
          BY <2>3, <3>2, <3>4, <4>1, <4>2 DEF Binding
        <4>3. CASE j = Len(down) + 1
          BY <1>4, <2>5, <3>2, <3>3, <4>1, <4>3
        <4> QED BY <3>2, <4>2, <4>3
      <3>5. \A r \in ToSet(down') : r.ok => sock \in bound /\ r.token = seat.token
        BY <1>4, <2>2, <2>3 DEF Binding
      <3>6. \A h \in ToSet(saving') : h.sock = sock => sock \in bound /\ h.token = seat.token
        BY <2>1, <2>3 DEF Binding
      <3>7. sock \in bound => seat # None /\ seat.sock = sock
        BY <2>3 DEF Binding
      <3> QED BY <1>3, <2>1, <3>4, <3>5, <3>6, <3>7 DEF Binding
    <2>8. LockedOut' <=> LockedOut
      BY <1>3 DEF LockedOut
    <2>9. Showing'
      BY <1>3, <2>1, <2>3, <2>5, <2>6, <2>8 DEF Showing
    <2>10. Returning'
      BY <1>3, <2>1, <2>3, <2>5, <2>6 DEF Returning
    <2> QED BY <2>4, <2>7, <2>9, <2>10
  <1> QED
    BY <1>1, <1>7, <1>8, <1>9, <1>10 DEF e

(* A save ends: a leave ends alone, any other handler grants the seat.     *)
LEMMA FinishKeepsAll ==
  ASSUME TypeOK, Counted, Owned, Unclicked, Settling, NEW i \in DOMAIN saving, FinishHandler(i)
  PROVE  Counted' /\ Owned' /\ Unclicked' /\ Settling'
  <1> DEFINE h == saving[i]
             answer == Yes(h.event, h.token)
  <1>1. /\ saving' = RemoveAt(saving, i)
        /\ bound' = IF h.event = "leave_seat" THEN bound \ {h.sock} ELSE bound
        /\ down' = Replied(h.sock, h.event, TRUE, h.token)
        /\ UNCHANGED <<seat, owner, unseen, fixed, status, stored, clicks, crossed, left,
                       online, sock, buffer, up>>
    BY DEF FinishHandler, client
  <1>2. saving \in Seq(Saved) /\ down \in Seq(Reply) /\ bound \subseteq Connections
    BY DEF TypeOK
  <1>3. /\ h \in Saved /\ h \in ToSet(saving)
        /\ ToSet(saving) = ToSet(saving') \cup {h}
    BY <1>1, <1>2, SetOfRest
  <1>4. h.event \in Events /\ h.token \in Nat /\ h.sock \in Connections
    BY <1>3 DEF Saved
  <1>5. answer.event = h.event /\ answer.token = h.token /\ answer.ok /\ answer \in Reply
    BY <1>4 DEF Yes, Reply
  <1>6. /\ ~(online /\ h.sock = sock) => down' = down
        /\ online /\ h.sock = sock => /\ down' = Append(down, answer)
                                      /\ ToSet(down') = ToSet(down) \cup {answer}
    <2>1. /\ ~(online /\ h.sock = sock) => Replied(h.sock, h.event, TRUE, h.token) = down
          /\ online /\ h.sock = sock =>
               /\ Replied(h.sock, h.event, TRUE, h.token) = Append(down, Yes(h.event, h.token))
               /\ ToSet(Append(down, Yes(h.event, h.token))) =
                    ToSet(down) \cup {Yes(h.event, h.token)}
      <3> HIDE DEF h
      <3> QED BY <1>2, <1>4, ReplyType
    <2> QED BY <1>1, <2>1
  <1>7. \A r \in ToSet(down') : r \in ToSet(down) \/ r = answer
    BY <1>6
  <1>8. \A j \in DOMAIN saving' : /\ Before(i, j) \in DOMAIN saving
                                  /\ saving'[j] = saving[Before(i, j)]
    <2>1. /\ saving' \in Seq(Saved) /\ Len(saving') = Len(saving) - 1
          /\ \A j \in 1 .. Len(saving) - 1 :
               Before(i, j) \in DOMAIN saving /\ saving'[j] = saving[Before(i, j)]
      BY <1>1, <1>2, WithoutOne
    <2> QED BY <2>1, LenProperties
  <1> HIDE DEF h, answer
  <1>9. Counted'
    BY <1>1, <1>3, <1>6 DEF Counted
  <1>10. Owned'
    BY <1>1, <1>5, <1>7 DEF Owned, Asked, RefusalOf
  <1>11. Unclicked'
    <2> SUFFICES ASSUME clicks = 0 PROVE Unclicked'
      BY <1>1 DEF Unclicked
    <2>1. h.event # "leave_seat"
      BY <1>3 DEF Unclicked
    <2>2. RefusalOf("reconnect_by_account")' => RefusalOf("reconnect_by_account")
      BY <1>5, <1>7 DEF RefusalOf
    <2> QED BY <1>1, <1>3, <1>5, <1>7, <2>1, <2>2 DEF Unclicked
  <1>12. Settling'
    <2> SUFFICES ASSUME online, ~crossed
                 PROVE  IF Leaving' THEN LeavesAlone' ELSE Binding' /\ Showing' /\ Returning'
      BY <1>1 DEF Settling
    <2>1. \A event : Asked(event)' <=> Asked(event)
      BY <1>1 DEF Asked
    <2>2. CASE h.sock # sock
      <3>1. down' = down /\ (sock \in bound' <=> sock \in bound)
        BY <1>1, <1>6, <2>2
      <3>2. \A g : g.sock = sock => (g \in ToSet(saving') <=> g \in ToSet(saving))
        BY <1>3, <2>2
      <3>3. HandledHere' <=> HandledHere
        <4>1. HandledHere' <=> \E g \in ToSet(saving') : g.sock = sock
          BY <1>1 DEF HandledHere, ToSet
        <4> QED BY <3>2, <4>1, HandledIsSaved
      <3>4. /\ \A event : RefusalOf(event)' <=> RefusalOf(event)
            /\ Granted' <=> Granted
            /\ Leaving' <=> Leaving
        BY <1>1, <2>1, <3>1, <3>2 DEF RefusalOf, Granted, Leaving
      <3>5. LeavesAlone => LeavesAlone'
        <4>1. ASSUME NEW j \in DOMAIN saving', NEW k \in DOMAIN saving',
                     \A m, n \in DOMAIN saving : saving[m].sock = sock /\ saving[n].sock = sock => m = n,
                     saving'[j].sock = sock, saving'[k].sock = sock
              PROVE  j = k
          <5>1. Before(i, j) = Before(i, k)
            BY <1>8, <4>1
          <5>2. i \in Nat /\ j \in Nat /\ k \in Nat
            <6>1. saving' \in Seq(Saved)
              BY <1>1, <1>2, SetOfRest
            <6> QED BY <1>2, <6>1, LenProperties
          <5> QED BY <5>1, <5>2 DEF Before
        <4> QED BY <1>1, <3>1, <3>3, <4>1 DEF LeavesAlone
      <3>6. Binding => Binding'
        BY <1>1, <3>1, <3>2 DEF Binding
      <3>7. Showing => Showing'
        BY <1>1, <2>1, <3>1, <3>3, <3>4 DEF Showing, Restoring, LockedOut
      <3>8. Returning => Returning'
        BY <1>1, <2>1, <3>1, <3>4 DEF Returning, Restoring
      <3> QED BY <3>4, <3>5, <3>6, <3>7, <3>8 DEF Settling
    <2>3. CASE h.sock = sock
      <3>1. down' = Append(down, answer) /\ ToSet(down') = ToSet(down) \cup {answer}
        BY <1>6, <2>3
      <3>2. HandledHere
        BY <2>3 DEF HandledHere, h
      <3>3. CASE Leaving
        <4>1. /\ left /\ status = "in-room" /\ up[sock] = <<>> /\ down = <<>>
              /\ \A m, n \in DOMAIN saving : saving[m].sock = sock /\ saving[n].sock = sock => m = n
          <5>1. LeavesAlone
            BY <3>3 DEF Settling
          <5> QED BY <3>2, <5>1 DEF LeavesAlone
        <4>2. h.event = "leave_seat"
          <5>1. \E g \in ToSet(saving) : g.sock = sock /\ g.event = "leave_seat"
            BY <3>3, <4>1, SetOfEmpty DEF Leaving, Asked
          <5> QED BY <2>3, <4>1, <5>1 DEF h, ToSet
        <4>3. ~HandledHere'
          <5>1. ASSUME NEW j \in DOMAIN saving', saving'[j].sock = sock PROVE FALSE
            <6>1. Before(i, j) = i
              BY <1>8, <2>3, <4>1, <5>1 DEF h
            <6>2. i \in Nat /\ j \in Nat
              <7>1. saving' \in Seq(Saved)
                BY <1>1, <1>2, SetOfRest
              <7> QED BY <1>2, <7>1, LenProperties
            <6> QED BY <6>1, <6>2 DEF Before
          <5> QED BY <1>1, <5>1 DEF HandledHere
        <4>4. Len(down') = 1 /\ answer \in ToSet(down')
          BY <3>1, <4>1
        <4>5. Leaving'
          BY <1>5, <4>2, <4>4 DEF Leaving
        <4>6. sock \notin bound'
          BY <1>1, <2>3, <4>2
        <4> QED BY <1>1, <4>1, <4>3, <4>4, <4>5, <4>6 DEF LeavesAlone
      <3>4. CASE ~Leaving
        <4>1. h.event # "leave_seat" /\ Binding /\ bound' = bound
          BY <1>1, <1>3, <2>3, <3>4 DEF Leaving, Settling
        <4>2. sock \in bound /\ answer.token = seat.token
          BY <1>3, <1>5, <2>3, <4>1 DEF Binding
        <4>3. ~Leaving'
          BY <1>1, <1>3, <1>5, <2>1, <3>1, <3>4, <4>1 DEF Leaving
        <4>4. Binding'
          <5>1. /\ DOMAIN down' = 1 .. Len(down) + 1 /\ Len(down) \in Nat
                /\ DOMAIN down = 1 .. Len(down)
                /\ \A m \in 1 .. Len(down) : down'[m] = down[m]
                /\ down'[Len(down) + 1] = answer
            BY <1>2, <1>5, <3>1, LenProperties, AppendProperties
          <5>2. ASSUME NEW m \in DOMAIN down', NEW n \in DOMAIN down', m < n, down'[m].ok
                PROVE  down'[n].ok \/ down'[n].event # "reconnect_by_account"
            <6>1. CASE n = Len(down) + 1
              BY <1>5, <5>1, <6>1
            <6>2. CASE n \in DOMAIN down
              BY <4>1, <5>1, <5>2, <6>2 DEF Binding
            <6> QED BY <5>1, <6>1, <6>2
          <5>3. \A r \in ToSet(down') : r.ok => sock \in bound /\ r.token = seat.token
            BY <3>1, <4>1, <4>2 DEF Binding
          <5>4. \A g \in ToSet(saving') : g.sock = sock => sock \in bound /\ g.token = seat.token
            BY <1>3, <4>1 DEF Binding
          <5> QED BY <1>1, <4>1, <5>2, <5>3, <5>4 DEF Binding
        <4>5. Granted'
          BY <1>5, <3>1 DEF Granted
        <4> QED BY <1>1, <4>1, <4>2, <4>3, <4>4, <4>5 DEF Showing, Returning
      <3> QED BY <3>3, <3>4
    <2> QED BY <2>2, <2>3
  <1> QED
    BY <1>9, <1>10, <1>11, <1>12

(* What happens to other connections, and to a seat that this one is not   *)
(* bound to, is none of its business.                                      *)
LEMMA ElsewhereSettled ==
  ASSUME Settling, online,
         UNCHANGED <<fixed, status, stored, left, online, sock, crossed, down, saving>>,
         up'[sock] = up[sock], sock \in bound' <=> sock \in bound,
         owner' = "me" => owner = "me",
         sock \in bound /\ seat # None /\ seat.sock = sock => seat' = seat
  PROVE  Settling'
  <1>1. /\ fixed' = fixed /\ status' = status /\ stored' = stored /\ left' = left
        /\ online' = online /\ sock' = sock /\ crossed' = crossed /\ down' = down /\ saving' = saving
    OBVIOUS
  <1>2. /\ \A event : (Asked(event)' <=> Asked(event)) /\ (RefusalOf(event)' <=> RefusalOf(event))
        /\ Granted' <=> Granted
        /\ HandledHere' <=> HandledHere
        /\ LockedOut' <=> LockedOut
    BY <1>1 DEF Asked, RefusalOf, Granted, HandledHere, LockedOut
  <1>3. (Leaving' <=> Leaving) /\ (Restoring' <=> Restoring)
    BY <1>1, <1>2 DEF Leaving, Restoring
  <1>4. LeavesAlone => LeavesAlone'
    BY <1>1, <1>2 DEF LeavesAlone
  <1>5. ASSUME Binding PROVE Binding' /\ (sock \in bound => seat' = seat)
    <2>1. sock \in bound => seat' = seat /\ seat # None /\ seat.sock = sock
      BY <1>5 DEF Binding
    <2> QED BY <1>1, <1>5, <2>1 DEF Binding
  <1>6. Binding /\ Showing => Showing'
    BY <1>1, <1>2, <1>3, <1>5 DEF Showing
  <1>7. Returning => Returning'
    BY <1>1, <1>2, <1>3 DEF Returning
  <1> QED
    BY <1>1, <1>3, <1>4, <1>5, <1>6, <1>7 DEF Settling

(* Breaks that are noticed, seats that lapse and other players.            *)
LEMMA OthersKeepAll ==
  ASSUME TypeOK, Counted, Owned, Unclicked, Settling,
         ExpireSeat \/ OtherJoins \/ \E c \in Connections : HandleDisconnect(c)
  PROVE  Counted' /\ Owned' /\ Unclicked' /\ Settling'
  <1> DEFINE Kept ==
        /\ UNCHANGED <<saving, fixed, status, stored, clicks, crossed, left, online, sock,
                       buffer, down>>
        /\ bound' \subseteq bound /\ unseen' \subseteq unseen
        /\ \A d \in Connections : up'[d] = up[d] \/ up'[d] = <<>>
        /\ online => up'[sock] = up[sock] /\ (sock \in bound' <=> sock \in bound)
        /\ owner' = "me" => owner = "me"
        /\ seat' # None => seat # None /\ owner' = owner
        /\ online /\ sock \in bound /\ seat # None /\ seat.sock = sock => seat' = seat
  <1>1. Kept
    <2>1. online => sock \in Connections /\ sock # 0
      BY DEF Counted, Connections
    <2>2. CASE ExpireSeat
      BY <2>1, <2>2 DEF ExpireSeat, client
    <2>3. CASE OtherJoins
      BY <2>1, <2>3 DEF OtherJoins, client
    <2>4. ASSUME NEW c \in Connections, HandleDisconnect(c)
          PROVE  Kept
      <3>1. /\ c \in unseen /\ unseen' = unseen \ {c} /\ bound' = bound \ {c}
            /\ seat' = IF c \notin bound \/ Superseded(c) THEN seat ELSE [seat EXCEPT !.sock = 0]
            /\ up' = [up EXCEPT ![c] = <<>>]
            /\ UNCHANGED <<owner, saving, fixed, status, stored, clicks, crossed, left, online,
                           sock, buffer, down>>
        BY <2>4 DEF HandleDisconnect, client
      <3>2. online => c # sock
        BY <3>1 DEF Counted
      <3>3. \A d \in Connections : up'[d] = IF d = c THEN <<>> ELSE up[d]
        BY <3>1 DEF TypeOK
      <3>4. seat' # None => seat # None
        BY <3>1 DEF Superseded
      <3>5. online /\ seat # None /\ seat.sock = sock => seat' = seat
        BY <3>1, <3>2 DEF Superseded
      <3> QED BY <2>1, <3>1, <3>2, <3>3, <3>4, <3>5
    <2> QED BY <2>2, <2>3, <2>4
  <1>2. /\ saving' = saving /\ fixed' = fixed /\ status' = status /\ clicks' = clicks
        /\ online' = online /\ sock' = sock /\ buffer' = buffer /\ down' = down
        /\ ToSet(<<>>) = {}
    BY <1>1, SetOfEmpty
  <1>3. Counted'
    BY <1>1, <1>2 DEF Counted
  <1>4. Owned'
    BY <1>1, <1>2 DEF Owned, Asked, RefusalOf
  <1>5. \A d \in Connections : ToSet(up'[d]) \subseteq ToSet(up[d])
    BY <1>1, <1>2
  <1>6. Unclicked'
    BY <1>1, <1>2, <1>5 DEF Unclicked, RefusalOf
  <1>7. Settling'
    <2>1. CASE online
      BY <1>1, <2>1, ElsewhereSettled
    <2>2. CASE ~online
      BY <1>2, <2>2 DEF Settling
    <2> QED BY <2>1, <2>2
  <1> QED
    BY <1>3, <1>4, <1>6, <1>7

(* A connection breaks: nothing is claimed of one that is gone.            *)
LEMMA DropKeepsAll ==
  ASSUME TypeOK, Counted, Owned, Unclicked, Drop
  PROVE  Counted' /\ Owned' /\ Unclicked' /\ Settling'
  <1>1. PICK n \in 0 .. Len(up[sock]) :
          /\ up' = [up EXCEPT ![sock] = SubSeq(up[sock], 1, n)]
          /\ online /\ online' = FALSE /\ down' = <<>> /\ unseen' = unseen \cup {sock}
          /\ UNCHANGED <<seat, owner, bound, saving, fixed, status, clicks, sock, buffer>>
    BY DEF Drop, server, client
  <1>2. sock \in Connections /\ up \in [Connections -> Seq(Request)]
    BY <1>1 DEF Counted, TypeOK
  <1>3. ToSet(SubSeq(up[sock], 1, n)) \subseteq ToSet(up[sock])
    BY <1>2, SetOfPrefix
  <1>4. \A d \in Connections : up'[d] = IF d = sock THEN SubSeq(up[sock], 1, n) ELSE up[d]
    BY <1>1, <1>2
  <1>5. \A d \in Connections : ToSet(up'[d]) \subseteq ToSet(up[d])
    BY <1>3, <1>4
  <1>6. \A d \in Connections : d > sock => up'[d] = up[d] /\ d # sock
    BY <1>2, <1>4 DEF Connections
  <1>7. Counted'
    BY <1>1, <1>6, SetOfEmpty DEF Counted
  <1>8. Owned' /\ Settling'
    BY <1>1 DEF Owned, Settling
  <1>9. Unclicked'
    BY <1>1, <1>5, SetOfEmpty DEF Unclicked, RefusalOf
  <1> QED
    BY <1>7, <1>8, <1>9

(* A new connection has nothing but its first request and what was         *)
(* buffered, in which a leave counts as crossed.                           *)
LEMMA ConnectKeepsAll ==
  ASSUME TypeOK, Counted, Owned, Unclicked, Connect
  PROVE  Counted' /\ Owned' /\ Unclicked' /\ Settling'
  <1>1. /\ ~online /\ sock < MaxConnections /\ online' = TRUE /\ sock' = sock + 1
        /\ up' = [up EXCEPT ![sock + 1] = buffer \o FirstRequest]
        /\ buffer' = <<>> /\ down' = down
        /\ crossed' = \E i \in DOMAIN buffer : buffer[i].event = "leave_seat"
        /\ UNCHANGED <<seat, owner, bound, saving, unseen, fixed, status, stored, clicks, left>>
    BY DEF Connect, server
  <1>2. PICK request \in Request :
          /\ FirstRequest \in Seq(Request) /\ ToSet(FirstRequest) = {request}
          /\ request.event \in {"reconnect_room", "reconnect_by_account", "join_room"}
          /\ request.event = "join_room" => fixed /\ stored = 0
          /\ request.event = "reconnect_by_account" => ~fixed
    BY FirstRequests
  <1>3. /\ sock \in Nat /\ sock + 1 \in Connections /\ sock + 1 > sock
        /\ buffer \in Seq(Request) /\ up \in [Connections -> Seq(Request)] /\ down = <<>>
        /\ \A h \in ToSet(saving) : h.sock \in Nat /\ h.sock <= sock
    <2>1. sock \in Nat /\ sock + 1 \in Connections
      BY <1>1, BoundsAssumption DEF TypeOK, Connections
    <2>2. ToSet(saving) \subseteq Saved
      BY SetInSet DEF TypeOK
    <2>3. \A h \in ToSet(saving) : h.sock \in Nat
      BY <2>2 DEF Saved, Connections
    <2> QED BY <1>1, <2>1, <2>3 DEF TypeOK, Counted
  <1>4. ToSet(buffer \o FirstRequest) = ToSet(buffer) \cup {request}
    BY <1>2, <1>3, SetOfConcat
  <1>5. /\ up'[sock + 1] = buffer \o FirstRequest
        /\ \A d \in Connections : d # sock + 1 => up'[d] = up[d]
    BY <1>1, <1>3
  <1>6. /\ ToSet(up'[sock']) = ToSet(buffer) \cup {request} /\ request \in ToSet(up'[sock'])
        /\ \A r \in ToSet(buffer) : r.event \in {"join_room", "leave_seat"}
    BY <1>1, <1>4, <1>5 DEF Counted
  <1>7. /\ \A h \in ToSet(saving') : h.sock # sock' /\ h.sock <= sock'
        /\ \A d \in Connections : d > sock' => d > sock /\ d # sock'
        /\ sock' \notin bound' /\ sock' \notin unseen'
        /\ ToSet(down') = {} /\ ToSet(buffer') = {} /\ down' = <<>>
    <2>1. ToSet(<<>>) = {}
      BY SetOfEmpty
    <2>2. \A d \in Connections : d > sock' => d > sock /\ d # sock'
      BY <1>1, <1>3 DEF Connections
    <2>3. \A h \in ToSet(saving') : h.sock # sock' /\ h.sock <= sock'
      BY <1>1, <1>3
    <2> QED BY <1>1, <1>3, <2>1, <2>2, <2>3 DEF Counted
  <1>8. Counted'
    BY <1>1, <1>3, <1>5, <1>7 DEF Counted
  <1>9. Owned'
    BY <1>1, <1>2, <1>6, <1>7 DEF Owned, Asked, RefusalOf
  <1>10. Unclicked'
    <2> SUFFICES ASSUME clicks = 0 PROVE Unclicked'
      BY <1>1 DEF Unclicked
    <2>1. buffer = <<>> /\ ToSet(buffer) = {}
      BY SetOfEmpty DEF Unclicked
    <2>2. \A d \in Connections : \A r \in ToSet(up'[d]) :
            r.event # "leave_seat" /\ (r.event = "join_room" => fixed)
      BY <1>1, <1>2, <1>5, <1>6, <2>1 DEF Unclicked
    <2> QED BY <1>1, <1>7, <2>2 DEF Unclicked, RefusalOf
  <1>11. Settling'
    <2> SUFFICES ASSUME ~crossed'
                 PROVE  ~Leaving' /\ Binding' /\ Showing' /\ Returning'
      BY DEF Settling
    <2>1. \A r \in ToSet(buffer) : r.event # "leave_seat"
      BY <1>1 DEF ToSet
    <2>2. ~Leaving'
      BY <1>2, <1>6, <1>7, <2>1 DEF Leaving, Asked
    <2>3. Binding'
      BY <1>3, <1>7 DEF Binding
    <2>4. Restoring' \/ (LockedOut' /\ fixed')
      BY <1>1, <1>2, <1>6 DEF Restoring, Asked, LockedOut
    <2>5. Showing' /\ Returning'
      BY <1>7, <2>4 DEF Showing, Returning, RefusalOf
    <2> QED BY <2>2, <2>3, <2>5
  <1> QED
    BY <1>8, <1>9, <1>10, <1>11

(* What a click sends goes to the connection or, without one, to the       *)
(* buffer.                                                                 *)
LEMMA ClickSends ==
  ASSUME TypeOK, Counted, NEW event \in {"join_room", "leave_seat"}, Emit(event)
  PROVE  \E request \in Request :
           /\ request.event = event
           /\ online => /\ buffer' = buffer /\ sock \in Connections
                        /\ up'[sock] = Append(up[sock], request)
                        /\ ToSet(up'[sock]) = ToSet(up[sock]) \cup {request}
                        /\ \A d \in Connections : d # sock => up'[d] = up[d]
           /\ ~online => up' = up /\ ToSet(buffer') = ToSet(buffer) \cup {request}
  <1>1. event \in Events /\ Ask(event, 0) \in Request /\ Ask(event, 0).event = event
    BY DEF Events, Request, Ask
  <1>2. CASE online
    <2>1. Send(event) /\ buffer' = buffer /\ sock \in Connections
      BY <1>2 DEF Emit, Counted
    <2> QED BY <1>1, <1>2, <2>1, SendTypes
  <1>3. CASE ~online
    <2>1. buffer' = Append(buffer, Ask(event, 0)) /\ up' = up /\ buffer \in Seq(Request)
      BY <1>3 DEF Emit, TypeOK
    <2> QED BY <1>1, <1>3, <2>1, SetOfAppend
  <1> QED
    BY <1>2, <1>3

(* A join is sent from the picker, a leave that does not cross anything    *)
(* when all else is quiet.                                                 *)
LEMMA ClicksKeepAll ==
  ASSUME TypeOK, Counted, Owned, Unclicked, Settling, JoinAs \/ Leave
  PROVE  Counted' /\ Owned' /\ Unclicked' /\ Settling'
  <1>1. PICK event \in {"join_room", "leave_seat"} :
          /\ Emit(event)
          /\ event = "join_room" => /\ status = "picking-role"
                                    /\ crossed' = crossed /\ left' = left
          /\ event = "leave_seat" => /\ status = "in-room" /\ left' = TRUE
                                     /\ crossed' = (crossed \/ ~online \/ ~Quiet)
    BY DEF JoinAs, Leave
  <1>2. /\ clicks' = clicks + 1 /\ clicks \in Nat
        /\ UNCHANGED <<seat, owner, bound, saving, unseen, fixed, status, stored, online,
                       sock, down>>
    BY BoundsAssumption DEF JoinAs, Leave, server, TypeOK
  <1>3. PICK request \in Request :
          /\ request.event = event
          /\ online => /\ buffer' = buffer /\ sock \in Connections
                       /\ up'[sock] = Append(up[sock], request)
                       /\ ToSet(up'[sock]) = ToSet(up[sock]) \cup {request}
                       /\ \A d \in Connections : d # sock => up'[d] = up[d]
          /\ ~online => up' = up /\ ToSet(buffer') = ToSet(buffer) \cup {request}
    BY <1>1, ClickSends
  <1>4. Counted'
    <2>1. \A d \in Connections : d > sock => up'[d] = up[d]
      BY <1>3 DEF Connections
    <2>2. \A r \in ToSet(buffer') : r.event \in {"join_room", "leave_seat"}
      BY <1>1, <1>3 DEF Counted
    <2> QED BY <1>2, <1>3, <2>1, <2>2 DEF Counted
  <1>5. Owned'
    BY <1>1, <1>2, <1>3 DEF Owned, Asked, RefusalOf
  <1>6. Unclicked'
    BY <1>2 DEF Unclicked
  <1>7. Settling'
    <2> SUFFICES ASSUME online, ~crossed'
                 PROVE  IF Leaving' THEN LeavesAlone' ELSE Binding' /\ Showing' /\ Returning'
      BY <1>2 DEF Settling
    <2>1. /\ ToSet(up'[sock']) = ToSet(up[sock]) \cup {request} /\ sock' = sock
          /\ saving' = saving /\ down' = down /\ status' = status
      BY <1>2, <1>3
    <2>2. HandledHere' <=> HandledHere
      BY <2>1 DEF HandledHere
    <2>3. CASE event = "join_room"
      <3>1. ~crossed /\ status = "picking-role" /\ left' = left
        BY <1>1, <2>3
      <3>2. ~Leaving /\ Binding /\ Showing /\ Returning
        BY <3>1 DEF Settling, LeavesAlone
      <3>3. ~Leaving'
        BY <1>3, <2>1, <2>3, <3>2 DEF Leaving, Asked
      <3>4. Binding'
        BY <1>2, <3>2 DEF Binding
      <3>5. /\ Restoring => Restoring'
            /\ \A e : RefusalOf(e)' <=> RefusalOf(e)
            /\ Granted' <=> Granted
            /\ LockedOut' <=> LockedOut
        BY <1>2, <2>1 DEF Restoring, Asked, RefusalOf, Granted, LockedOut
      <3>6. Showing' /\ Returning'
        BY <1>2, <2>2, <3>1, <3>2, <3>5 DEF Showing, Returning
      <3> QED BY <3>3, <3>4, <3>6
    <2>4. CASE event = "leave_seat"
      <3>1. /\ left' /\ status = "in-room"
            /\ up[sock] = <<>> /\ down = <<>> /\ ~HandledHere
        BY <1>1, <2>4 DEF Quiet
      <3>2. Leaving'
        BY <1>3, <2>1, <2>4 DEF Leaving, Asked
      <3>3. Len(up'[sock]) = 1
        <4> DEFINE u == up[sock]
        <4>1. u \in Seq(Request) /\ Len(u) = 0
          BY <1>3, <3>1 DEF TypeOK
        <4>2. up'[sock] = Append(u, request)
          BY <1>2, <1>3
        <4> HIDE DEF u
        <4> QED BY <4>1, <4>2, AppendProperties
      <3> QED BY <1>2, <2>2, <3>1, <3>2, <3>3 DEF LeavesAlone
    <2> QED BY <2>3, <2>4
  <1> QED
    BY <1>4, <1>5, <1>6, <1>7

(* What the client does with a reply.                                      *)
LEMMA ReplyTaken ==
  ASSUME TypeOK, Counted, Owned, TakeReply
  PROVE  \E reply \in Reply :
           /\ online /\ sock \in Connections /\ down # <<>> /\ reply = Head(down)
           /\ down' = Tail(down) /\ ToSet(down) = ToSet(down') \cup {reply}
           /\ UNCHANGED <<seat, owner, bound, saving, unseen, fixed, clicks, crossed, left, online,
                          sock, buffer>>
           /\ \A d \in Connections : d # sock => up'[d] = up[d]
           /\ \/ /\ reply.event = "leave_seat" /\ up' = up
                 /\ status' = "picking-role" /\ stored' = 0
              \/ /\ reply.event # "leave_seat" /\ reply.ok /\ up' = up
                 /\ status' = "in-room" /\ stored' = reply.token
              \/ /\ reply.event = "reconnect_room" /\ ~reply.ok
                 /\ status' = status /\ stored' = 0
                 /\ \E request \in Request :
                      /\ request.event = IF fixed THEN "join_room" ELSE "reconnect_by_account"
                      /\ ToSet(up'[sock]) = ToSet(up[sock]) \cup {request}
              \/ /\ reply.event = "reconnect_by_account" /\ ~reply.ok /\ ~fixed /\ up' = up
                 /\ status' = "picking-role" /\ stored' = stored
              \/ /\ reply.event = "join_room" /\ ~reply.ok /\ up' = up
                 /\ status' = status /\ stored' = stored
  <1> DEFINE reply == Head(down)
  <1>1. /\ down # <<>> /\ down' = Tail(down)
        /\ UNCHANGED <<seat, owner, bound, saving, unseen, fixed, clicks, crossed, left, online,
                       sock, buffer>>
        /\ \/ /\ reply.event = "leave_seat" /\ up' = up
              /\ status' = "picking-role" /\ stored' = 0
           \/ /\ reply.event # "leave_seat" /\ reply.ok /\ up' = up
              /\ status' = "in-room" /\ stored' = reply.token
           \/ /\ reply.event = "reconnect_room" /\ ~reply.ok
              /\ status' = status /\ stored' = 0
              /\ Send(IF fixed THEN "join_room" ELSE "reconnect_by_account")
           \/ /\ reply.event = "reconnect_by_account" /\ ~reply.ok /\ up' = up
              /\ status' = "picking-role" /\ stored' = stored
           \/ /\ reply.event = "join_room" /\ ~reply.ok /\ up' = up
              /\ status' = status /\ stored' = stored
    BY DEF TakeReply, InRoom, Keep, Forget, Refused, server
  <1>2. down \in Seq(Reply) /\ online /\ sock \in Connections
    BY <1>1 DEF TypeOK, Counted
  <1>3. reply \in Reply /\ ToSet(down) = ToSet(down') \cup {reply}
    BY <1>1, <1>2, SetOfTail
  <1> HIDE DEF reply
  <1>4. reply.event = "reconnect_by_account" /\ ~reply.ok => ~fixed
    BY <1>2, <1>3 DEF Owned, RefusalOf
  <1>5. CASE reply.event = "reconnect_room" /\ ~reply.ok
    <2> DEFINE event == IF fixed THEN "join_room" ELSE "reconnect_by_account"
    <2>1. Send(event) /\ event \in Events /\ status' = status /\ stored' = 0
      BY <1>1, <1>5 DEF Events
    <2> HIDE DEF event
    <2>2. /\ Ask(event, 0) \in Request /\ Ask(event, 0).event = event
          /\ ToSet(up'[sock]) = ToSet(up[sock]) \cup {Ask(event, 0)}
          /\ \A d \in Connections : d # sock => up'[d] = up[d]
      BY <1>2, <2>1, SendTypes
    <2> QED BY <1>1, <1>2, <1>3, <1>5, <2>1, <2>2 DEF event, reply
  <1>6. CASE ~(reply.event = "reconnect_room" /\ ~reply.ok)
    <2>1. up' = up
      BY <1>1, <1>6
    <2> QED BY <1>1, <1>2, <1>3, <1>4, <1>6, <2>1 DEF reply
  <1> QED
    BY <1>5, <1>6

(* The client takes a reply: a grant shows the seat, and a refusal leads   *)
(* to the next request or to the picker.                                   *)
LEMMA TakingKeepsAll ==
  ASSUME TypeOK, Counted, Owned, Unclicked, Settling, TakeReply
  PROVE  Counted' /\ Owned' /\ Unclicked' /\ Settling'
  <1>1. PICK reply \in Reply :
          /\ online /\ sock \in Connections /\ down # <<>> /\ reply = Head(down)
          /\ down' = Tail(down) /\ ToSet(down) = ToSet(down') \cup {reply}
          /\ UNCHANGED <<seat, owner, bound, saving, unseen, fixed, clicks, crossed, left, online,
                         sock, buffer>>
          /\ \A d \in Connections : d # sock => up'[d] = up[d]
          /\ \/ /\ reply.event = "leave_seat" /\ up' = up
                /\ status' = "picking-role" /\ stored' = 0
             \/ /\ reply.event # "leave_seat" /\ reply.ok /\ up' = up
                /\ status' = "in-room" /\ stored' = reply.token
             \/ /\ reply.event = "reconnect_room" /\ ~reply.ok
                /\ status' = status /\ stored' = 0
                /\ \E request \in Request :
                     /\ request.event = IF fixed THEN "join_room" ELSE "reconnect_by_account"
                     /\ ToSet(up'[sock]) = ToSet(up[sock]) \cup {request}
             \/ /\ reply.event = "reconnect_by_account" /\ ~reply.ok /\ ~fixed /\ up' = up
                /\ status' = "picking-role" /\ stored' = stored
             \/ /\ reply.event = "join_room" /\ ~reply.ok /\ up' = up
                /\ status' = status /\ stored' = stored
    BY ReplyTaken
  <1> DEFINE asked == IF fixed THEN "join_room" ELSE "reconnect_by_account"
  <1>2. /\ ToSet(up[sock]) \subseteq ToSet(up'[sock])
        /\ \A r \in ToSet(up'[sock]) :
             r \in ToSet(up[sock]) \/ (reply.event = "reconnect_room" /\ r.event = asked)
        /\ reply.event = "reconnect_room" /\ ~reply.ok =>
             \E r \in ToSet(up'[sock]) : r.event = asked
    BY <1>1
  <1>3. Counted'
    <2>1. \A d \in Connections : d > sock => up'[d] = up[d]
      BY <1>1 DEF Connections
    <2> QED BY <1>1, <2>1 DEF Counted
  <1>4. Owned'
    BY <1>1, <1>2 DEF Owned, Asked, RefusalOf
  <1>5. Unclicked'
    <2> SUFFICES ASSUME clicks = 0 PROVE Unclicked'
      BY <1>1 DEF Unclicked
    <2>1. \A d \in Connections : \A r \in ToSet(up'[d]) :
            r.event # "leave_seat" /\ (r.event = "join_room" => fixed)
      BY <1>1, <1>2 DEF Unclicked
    <2>2. ASSUME ~fixed, owner = "me"
          PROVE  status' # "picking-role" /\ ~RefusalOf("reconnect_by_account")'
      <3>1. status # "picking-role" /\ ~RefusalOf("reconnect_by_account")
        BY <2>2 DEF Unclicked
      <3>2. reply.event # "leave_seat"
        BY <1>1 DEF Unclicked
      <3>3. ~RefusalOf("reconnect_by_account")'
        BY <1>1, <3>1 DEF RefusalOf
      <3> QED BY <1>1, <3>1, <3>2, <3>3 DEF RefusalOf
    <2> QED BY <1>1, <2>1, <2>2 DEF Unclicked
  <1>6. Settling'
    <2> SUFFICES ASSUME ~crossed
                 PROVE  IF Leaving' THEN LeavesAlone' ELSE Binding' /\ Showing' /\ Returning'
      BY <1>1 DEF Settling
    <2>1. /\ sock' = sock /\ saving' = saving /\ bound' = bound /\ seat' = seat /\ owner' = owner
          /\ fixed' = fixed /\ left' = left
          /\ down \in Seq(Reply)
      BY <1>1 DEF TypeOK
    <2>2. HandledHere' <=> HandledHere
      BY <2>1 DEF HandledHere
    <2>3. CASE Leaving
      <3>1. LeavesAlone
        BY <1>1, <2>3 DEF Settling
      <3>2. /\ left /\ up[sock] = <<>> /\ ~HandledHere /\ Len(down) = 1 /\ sock \notin bound
        BY <1>1, <3>1 DEF LeavesAlone
      <3>3. down' = <<>>
        <4>1. Tail(down) \in Seq(Reply) /\ Len(Tail(down)) = 0
          BY <1>1, <2>1, <3>2, HeadTailProperties
        <4>2. Tail(down) = <<>>
          BY <4>1, EmptySeq
        <4> QED BY <1>1, <4>2
      <3>4. ToSet(down') = {} /\ ToSet(up[sock]) = {}
        BY <3>2, <3>3, SetOfEmpty
      <3>5. reply.event = "leave_seat"
        BY <1>1, <2>3, <3>2, <3>4, HandledIsSaved DEF Leaving, Asked
      <3>6. up' = up /\ status' = "picking-role"
        BY <1>1, <3>5
      <3>7. \A h \in ToSet(saving') : h.sock # sock
        BY <2>1, <3>2, HandledIsSaved
      <3>8. ~Leaving'
        BY <2>1, <3>4, <3>6, <3>7 DEF Leaving, Asked
      <3>9. Binding'
        BY <2>1, <3>2, <3>3, <3>4, <3>7 DEF Binding
      <3> QED BY <2>1, <3>2, <3>6, <3>8, <3>9 DEF Showing, Returning
    <2>4. CASE ~Leaving
      <3>1. Binding /\ Showing /\ Returning /\ reply.event # "leave_seat"
        BY <1>1, <2>4 DEF Settling, Leaving
      <3>2. ~Leaving'
        BY <1>1, <1>2, <2>1, <2>4 DEF Leaving, Asked
      <3>3. /\ down[1] = reply /\ 1 \in DOMAIN down
            /\ \A i \in DOMAIN down' : i \in Nat /\ i + 1 \in DOMAIN down /\ down'[i] = down[i + 1]
                                       /\ 1 < i + 1
            /\ \A i, j \in DOMAIN down' : i < j => i + 1 < j + 1
        <4>1. /\ Tail(down) \in Seq(Reply) /\ Len(Tail(down)) = Len(down) - 1
              /\ \A i \in 1 .. Len(Tail(down)) : Tail(down)[i] = down[i + 1]
              /\ Len(down) \in Nat \ {0}
          BY <1>1, <2>1, HeadTailProperties, EmptySeq
        <4>2. DOMAIN down = 1 .. Len(down) /\ DOMAIN Tail(down) = 1 .. Len(down) - 1
          BY <2>1, <4>1, LenProperties
        <4>3. Head(down) = down[1]
          OBVIOUS
        <4> QED BY <1>1, <4>1, <4>2, <4>3
      <3>4. Binding'
        <4>1. \A i, j \in DOMAIN down' :
                i < j /\ down'[i].ok => down'[j].ok \/ down'[j].event # "reconnect_by_account"
          BY <3>1, <3>3 DEF Binding
        <4>2. /\ \A r \in ToSet(down') : r.ok => sock \in bound /\ r.token = seat.token
              /\ \A h \in ToSet(saving) : h.sock = sock => sock \in bound /\ h.token = seat.token
              /\ sock \in bound => seat # None /\ seat.sock = sock
          BY <1>1, <3>1 DEF Binding
        <4> QED BY <2>1, <4>1, <4>2 DEF Binding
      <3>5. /\ \A e : RefusalOf(e)' => RefusalOf(e)
            /\ \A e : RefusalOf(e) => RefusalOf(e)' \/ (reply.event = e /\ ~reply.ok)
            /\ Granted => Granted' \/ reply.ok
            /\ \A e : Asked(e) => Asked(e)'
        BY <1>1, <1>2, <2>1 DEF RefusalOf, Granted, Asked
      <3>6. CASE reply.ok
        <4>1. status' = "in-room" /\ stored' = reply.token
          BY <1>1, <3>1, <3>6
        <4>2. sock \in bound /\ reply.token = seat.token
          BY <1>1, <3>1, <3>6 DEF Binding
        <4>3. ~RefusalOf("reconnect_by_account")'
          <5>1. \A i \in DOMAIN down' :
                  down'[i].ok \/ down'[i].event # "reconnect_by_account"
            BY <3>1, <3>3, <3>6 DEF Binding
          <5> QED BY <5>1 DEF RefusalOf, ToSet
        <4> QED BY <2>1, <3>2, <3>4, <4>1, <4>2, <4>3 DEF Showing, Returning
      <3>7. CASE reply.event = "reconnect_room" /\ ~reply.ok
        <4>1. /\ status' = status /\ stored' = 0
              /\ \E r \in ToSet(up'[sock']) : r.event = asked
          BY <1>1, <1>2, <2>1, <3>7
        <4>2. IF fixed THEN LockedOut' ELSE Restoring'
          BY <2>1, <4>1 DEF LockedOut, Restoring, Asked
        <4>3. Showing'
          BY <2>1, <4>2 DEF Showing, LockedOut
        <4>4. Returning'
          BY <2>1, <3>1, <3>5, <4>1, <4>2 DEF Returning
        <4> QED BY <3>2, <3>4, <4>3, <4>4
      <3>8. CASE reply.event = "reconnect_by_account" /\ ~reply.ok
        <4>1. ~fixed /\ status' = "picking-role" /\ stored' = stored
          BY <1>1, <3>8
        <4>2. RefusalOf("reconnect_by_account")
          BY <1>1, <3>8 DEF RefusalOf
        <4>3. (Restoring => Restoring') /\ (Granted => Granted')
          BY <3>5, <3>8 DEF Restoring
        <4>4. Showing'
          BY <2>1, <2>2, <3>1, <4>1, <4>2, <4>3 DEF Showing, LockedOut
        <4>5. Returning'
          BY <2>1, <3>1, <3>5, <4>1, <4>2 DEF Returning
        <4> QED BY <3>2, <3>4, <4>4, <4>5
      <3>9. CASE reply.event = "join_room" /\ ~reply.ok
        <4>1. status' = status /\ stored' = stored
          BY <1>1, <3>9
        <4>2. /\ (Restoring => Restoring') /\ (Granted => Granted')
              /\ RefusalOf("reconnect_by_account")' <=> RefusalOf("reconnect_by_account")
          BY <3>5, <3>9 DEF Restoring
        <4>3. Showing'
          BY <2>1, <2>2, <3>1, <4>1, <4>2 DEF Showing, LockedOut
        <4>4. Returning'
          BY <2>1, <3>1, <4>1, <4>2 DEF Returning
        <4> QED BY <3>2, <3>4, <4>3, <4>4
      <3> QED BY <1>1, <3>1, <3>6, <3>7, <3>8, <3>9
    <2> QED BY <2>3, <2>4
  <1> QED
    BY <1>3, <1>4, <1>5, <1>6

-----------------------------------------------------------------------------
(* The theorems                                                            *)

LEMMA ConnectionInvKept ==
  ConnectionInv /\ [Next]_vars => ConnectionInv'
  <1> SUFFICES ASSUME TypeOK, Counted, Owned, Settling, Unclicked, [Next]_vars
               PROVE  ConnectionInv'
    BY DEF ConnectionInv
  <1>1. TypeOK'
    BY NextTypes
  <1>2. ASSUME NEW c \in Connections, StartHandler(c)
        PROVE  Counted' /\ Owned' /\ Settling' /\ Unclicked'
    BY <1>2, StartKeepsCounts, StartSettles
  <1>3. ASSUME NEW i \in DOMAIN saving, FinishHandler(i)
        PROVE  Counted' /\ Owned' /\ Settling' /\ Unclicked'
    BY <1>3, FinishKeepsAll
  <1>4. ASSUME ExpireSeat \/ OtherJoins \/ \E c \in Connections : HandleDisconnect(c)
        PROVE  Counted' /\ Owned' /\ Settling' /\ Unclicked'
    BY <1>4, OthersKeepAll
  <1>5. ASSUME Connect PROVE Counted' /\ Owned' /\ Settling' /\ Unclicked'
    BY <1>5, ConnectKeepsAll
  <1>6. ASSUME Drop PROVE Counted' /\ Owned' /\ Settling' /\ Unclicked'
    BY <1>6, DropKeepsAll
  <1>7. ASSUME TakeReply PROVE Counted' /\ Owned' /\ Settling' /\ Unclicked'
    BY <1>7, TakingKeepsAll
  <1>8. ASSUME JoinAs \/ Leave PROVE Counted' /\ Owned' /\ Settling' /\ Unclicked'
    BY <1>8, ClicksKeepAll
  <1>9. ASSUME UNCHANGED vars PROVE Counted' /\ Owned' /\ Settling' /\ Unclicked'
    BY <1>9 DEF vars, server, client, Counted, Owned, Settling, Unclicked, Leaving, LeavesAlone,
                Binding, Showing, Returning, Restoring, Granted, LockedOut, HandledHere, Asked,
                RefusalOf
  <1>10. Counted' /\ Owned' /\ Settling' /\ Unclicked'
    BY <1>2, <1>3, <1>4, <1>5, <1>6, <1>7, <1>8, <1>9 DEF Next, ServerStep
  <1> QED
    BY <1>1, <1>10 DEF ConnectionInv

LEMMA AlwaysConnectionInv ==
  Spec => []ConnectionInv
  <1>1. Init => ConnectionInv
    BY NothingAtFirst
  <1>2. ConnectionInv /\ [Next]_vars => ConnectionInv'
    BY ConnectionInvKept
  <1> QED
    BY <1>1, <1>2, PTL DEF Spec

(* Every variable keeps its type: tokens, sockets and queues of requests   *)
(* and replies are what the handlers and the hook put there.               *)
THEOREM TypesHold ==
  Spec => []TypeOK
  <1>1. ConnectionInv => TypeOK
    BY DEF ConnectionInv
  <1> QED
    BY <1>1, AlwaysConnectionInv, PTL

(* At rest the page of useRoomConnection.ts shows the player in the room   *)
(* exactly if the server takes its socket for the seat's, and the browser  *)
(* keeps the token that gets the seat back.                                *)
THEOREM ThePageShowsTheSeat ==
  Spec => []SeatedAsShown
  <1>1. ConnectionInv => SeatedAsShown
    <2> SUFFICES ASSUME ConnectionInv, AtRest, ~crossed, ~LockedOut
                 PROVE  /\ status = "in-room" <=> sock \in bound
                        /\ status = "in-room" =>
                             seat # None /\ seat.sock = sock /\ seat.token = stored
      BY DEF SeatedAsShown
    <2>1. /\ online /\ ~HandledHere
          /\ ToSet(up[sock]) = {} /\ ToSet(down) = {}
      BY SetOfEmpty DEF AtRest, Quiet
    <2>2. ~Leaving /\ ~Restoring /\ ~Granted /\ ~RefusalOf("reconnect_by_account")
      BY <2>1, HandledIsSaved DEF Leaving, Restoring, Granted, RefusalOf, Asked
    <2>3. Binding /\ Showing
      BY <2>1, <2>2 DEF ConnectionInv, Settling
    <2> QED BY <2>1, <2>2, <2>3 DEF Binding, Showing
  <1> QED
    BY <1>1, AlwaysConnectionInv, PTL

(* The page asks the account that has the seat to pick a role only if it   *)
(* left, or if it had asked for one in a connection that broke.            *)
THEOREM TheOwnerIsNotAsked ==
  Spec => []OwnerIsNotAsked
  <1>1. ConnectionInv => OwnerIsNotAsked
    <2> SUFFICES ASSUME ConnectionInv, AtRest, ~fixed, ~left, status = "picking-role",
                        owner = "me"
                 PROVE  clicks > 0 /\ crossed
      BY DEF OwnerIsNotAsked
    <2>1. /\ online /\ ~HandledHere
          /\ ToSet(up[sock]) = {} /\ ToSet(down) = {}
      BY SetOfEmpty DEF AtRest, Quiet
    <2>2. ~Leaving /\ ~Restoring /\ ~Granted
      BY <2>1, HandledIsSaved DEF Leaving, Restoring, Granted, RefusalOf, Asked
    <2>3. clicks > 0
      <3>1. clicks # 0
        BY DEF ConnectionInv, Unclicked
      <3> QED BY <3>1, BoundsAssumption DEF ConnectionInv, TypeOK
    <2>4. ASSUME ~crossed PROVE FALSE
      <3>1. Showing /\ Returning
        BY <2>1, <2>2, <2>4 DEF ConnectionInv, Settling
      <3>2. sock \in bound
        BY <2>2, <3>1 DEF Returning
      <3> QED BY <2>1, <2>2, <3>1, <3>2 DEF Showing, LockedOut
    <2> QED BY <2>3, <2>4
  <1> QED
    BY <1>1, AlwaysConnectionInv, PTL
=============================================================================
