--------------------------- MODULE RoomRowsProofs ---------------------------
(***************************************************************************)
(* Proofs about the row of a room code: types, that the row catches up     *)
(* with memory unless something excuses it, and that no room is written    *)
(* over another that is still played, for any number of connections,       *)
(* queries, rooms, failures, restarts and scripts.                         *)
(***************************************************************************)
EXTENDS RoomRows, SequenceTheorems, TLAPS

ConstantsOK == PoolAssumption /\ BoundsAssumption /\ NoneAssumption

LEMMA ConstantsHold == ConstantsOK
BY PoolAssumption, BoundsAssumption, NoneAssumption DEF ConstantsOK
-----------------------------------------------------------------------------
(* Sequences of queries                                                    *)

LEMMA RemoveAtProperties ==
  ASSUME NEW s \in Seq(Call), NEW i \in DOMAIN s
  PROVE  /\ RemoveAt(s, i) \in Seq(Call)
         /\ Len(RemoveAt(s, i)) = Len(s) - 1
         /\ \A j \in 1 .. Len(s) - 1 :
              RemoveAt(s, i)[j] = IF j < i THEN s[j] ELSE s[j + 1]
<1> DEFINE front == SubSeq(s, 1, i - 1)
           back  == SubSeq(s, i + 1, Len(s))
<1>1. i \in 1 .. Len(s) /\ Len(s) \in Nat /\ \A j \in 1 .. Len(s) : s[j] \in Call
  BY LenProperties, ElementOfSeq
<1>2. /\ front \in Seq(Call) /\ Len(front) = i - 1
      /\ \A j \in 1 .. i - 1 : front[j] = s[j]
  <2>1. \A j \in 1 .. i - 1 : s[j] \in Call
    BY <1>1
  <2>2. /\ front \in Seq(Call) /\ Len(front) = IF 1 <= i - 1 THEN i - 1 - 1 + 1 ELSE 0
        /\ \A j \in 1 .. i - 1 - 1 + 1 : front[j] = s[1 + j - 1]
    <3>1. 1 \in Int /\ i - 1 \in Int
      BY <1>1
    <3> QED BY <3>1, <2>1, SubSeqProperties, SMT
  <2> QED BY <1>1, <2>2
<1>3. /\ back \in Seq(Call) /\ Len(back) = Len(s) - i
      /\ \A j \in 1 .. Len(s) - i : back[j] = s[i + j]
  <2>1. \A j \in i + 1 .. Len(s) : s[j] \in Call
    BY <1>1
  <2>2. /\ back \in Seq(Call)
        /\ Len(back) = IF i + 1 <= Len(s) THEN Len(s) - (i + 1) + 1 ELSE 0
        /\ \A j \in 1 .. Len(s) - (i + 1) + 1 : back[j] = s[(i + 1) + j - 1]
    <3>1. i + 1 \in Int /\ Len(s) \in Int
      BY <1>1
    <3> QED BY <3>1, <2>1, SubSeqProperties, SMT
  <2> QED BY <1>1, <2>2
<1> DEFINE rest == front \o back
<1>4. /\ rest \in Seq(Call)
      /\ Len(rest) = Len(front) + Len(back)
      /\ \A j \in 1 .. Len(front) + Len(back) :
           rest[j] = IF j <= Len(front) THEN front[j] ELSE back[j - Len(front)]
  BY <1>2, <1>3, ConcatProperties, Zenon
<1>5. RemoveAt(s, i) = rest
  BY DEF RemoveAt
<1> HIDE DEF front, back, rest
<1> DEFINE n == Len(s)
<1>6. i \in 1 .. n /\ n \in Nat
  BY <1>1
<1>7. Len(front) = i - 1 /\ Len(back) = n - i
  BY <1>2, <1>3
<1> HIDE DEF n
<1>8. Len(rest) = n - 1
  BY <1>4, <1>6, <1>7
<1>9. ASSUME NEW j \in 1 .. n - 1
      PROVE  rest[j] = IF j < i THEN s[j] ELSE s[j + 1]
  <2>1. rest[j] = IF j <= i - 1 THEN front[j] ELSE back[j - (i - 1)]
    <3>1. j \in 1 .. Len(front) + Len(back)
      BY <1>6, <1>7
    <3>2. rest[j] = IF j <= Len(front) THEN front[j] ELSE back[j - Len(front)]
      BY <3>1, <1>4
    <3> QED BY <3>2, <1>7
  <2>2. CASE j < i
    BY <2>1, <2>2, <1>2, <1>6
  <2>3. CASE ~(j < i)
    <3>1. j - (i - 1) \in 1 .. n - i /\ i + (j - (i - 1)) = j + 1
      BY <2>3, <1>6
    <3>2. back[j - (i - 1)] = s[j + 1]
      BY <3>1, <1>3 DEF n
    <3> QED BY <2>1, <2>3, <3>2, <1>6
  <2> QED BY <2>2, <2>3
<1> QED BY <1>4, <1>5, <1>8, <1>9 DEF n

(* What is in the rest was there before.                                   *)
LEMMA RestProperties ==
  ASSUME NEW s \in Seq(Call), NEW i \in DOMAIN s
  PROVE  \A j \in DOMAIN RemoveAt(s, i) :
           \E k \in DOMAIN s : k # i /\ RemoveAt(s, i)[j] = s[k]
<1> SUFFICES ASSUME NEW j \in DOMAIN RemoveAt(s, i)
             PROVE  \E k \in DOMAIN s : k # i /\ RemoveAt(s, i)[j] = s[k]
  OBVIOUS
<1>1. i \in 1 .. Len(s) /\ Len(s) \in Nat /\ DOMAIN s = 1 .. Len(s)
  BY LenProperties
<1>2. j \in 1 .. Len(s) - 1
  BY RemoveAtProperties, LenProperties
<1>3. RemoveAt(s, i)[j] = IF j < i THEN s[j] ELSE s[j + 1]
  BY <1>2, RemoveAtProperties
<1>4. CASE j < i
  BY <1>1, <1>2, <1>3, <1>4
<1>5. CASE ~(j < i)
  <2>1. j + 1 \in DOMAIN s /\ j + 1 # i
    BY <1>1, <1>2, <1>5
  <2> QED BY <1>3, <1>5, <2>1
<1> QED BY <1>4, <1>5

LEMMA AppendCall ==
  ASSUME NEW s \in Seq(Call), NEW call \in Call
  PROVE  /\ Append(s, call) \in Seq(Call)
         /\ Len(Append(s, call)) = Len(s) + 1
         /\ DOMAIN Append(s, call) = 1 .. Len(s) + 1
         /\ \A j \in 1 .. Len(s) : Append(s, call)[j] = s[j]
         /\ Append(s, call)[Len(s) + 1] = call
BY AppendProperties, LenProperties
-----------------------------------------------------------------------------
(* Types                                                                   *)

(* At most one creation looks at the code, and it has an id to give.       *)
OneCheck(s) ==
  \A i, j \in DOMAIN s : s[i].kind = "check" /\ s[j].kind = "check" => i = j

Checked(s) == \E i \in DOMAIN s : s[i].kind = "check"

TypeInv ==
  /\ TypeOK
  /\ OneCheck(calls)
  /\ Checked(calls) => nextId <= MaxRooms

LEMMA RestOneCheck ==
  ASSUME NEW s \in Seq(Call), OneCheck(s), NEW i \in DOMAIN s
  PROVE  /\ OneCheck(RemoveAt(s, i))
         /\ Checked(RemoveAt(s, i)) => Checked(s)
         /\ s[i].kind = "check" => ~Checked(RemoveAt(s, i))
<1>1. Len(s) \in Nat /\ DOMAIN s = 1 .. Len(s)
      /\ DOMAIN RemoveAt(s, i) = 1 .. Len(s) - 1
  BY RemoveAtProperties, LenProperties
<1>2. ASSUME NEW j \in DOMAIN RemoveAt(s, i), NEW k \in DOMAIN RemoveAt(s, i),
             RemoveAt(s, i)[j].kind = "check", RemoveAt(s, i)[k].kind = "check"
      PROVE  j = k
  <2> DEFINE old(x) == IF x < i THEN x ELSE x + 1
  <2>1. \A x \in DOMAIN RemoveAt(s, i) :
          old(x) \in DOMAIN s /\ RemoveAt(s, i)[x] = s[old(x)]
    <3> SUFFICES ASSUME NEW x \in 1 .. Len(s) - 1
                 PROVE  old(x) \in DOMAIN s /\ RemoveAt(s, i)[x] = s[old(x)]
      BY <1>1
    <3>1. RemoveAt(s, i)[x] = IF x < i THEN s[x] ELSE s[x + 1]
      BY RemoveAtProperties
    <3> QED BY <1>1, <3>1
  <2>2. old(j) = old(k)
    BY <2>1, <1>2 DEF OneCheck
  <2> QED BY <2>2, <1>1
<1> QED BY <1>2, RestProperties DEF OneCheck, Checked

LEMMA AppendOneCheck ==
  ASSUME NEW s \in Seq(Call), OneCheck(s), NEW call \in Call,
         call.kind = "check" => ~Checked(s)
  PROVE  /\ OneCheck(Append(s, call))
         /\ call.kind # "check" /\ Checked(Append(s, call)) => Checked(s)
<1>1. Len(s) \in Nat /\ DOMAIN s = 1 .. Len(s)
  BY LenProperties
<1>2. \A j \in DOMAIN Append(s, call) :
        \/ j \in DOMAIN s /\ Append(s, call)[j] = s[j]
        \/ j = Len(s) + 1 /\ Append(s, call)[j] = call
  BY <1>1, AppendCall
<1> QED BY <1>2 DEF OneCheck, Checked

LEMMA InitTypeInv == Init => TypeInv
<1> SUFFICES ASSUME Init PROVE TypeInv
  OBVIOUS
<1>1. calls \in Seq(Call) /\ Len(calls) = 0 /\ DOMAIN calls = {}
  BY EmptySeq DEF Init
<1>2. TypeOK
  <2>1. nextId \in 1 .. MaxRooms + 1 /\ 0 <= MaxCalls
        /\ 0 \in 0 .. MaxFaults /\ 0 \in 0 .. MaxRestarts /\ 0 \in 0 .. MaxScripts
    BY ConstantsHold DEF Init, ConstantsOK, BoundsAssumption
  <2>2. calls \in Seq(Call) /\ Len(calls) <= MaxCalls
    BY <1>1, <2>1
  <2> QED BY <2>1, <2>2, Zenon DEF Init, TypeOK
<1>3. OneCheck(calls) /\ ~Checked(calls)
  BY <1>1 DEF OneCheck, Checked
<1> QED BY <1>2, <1>3 DEF TypeInv

(* What a write adds.                                                      *)
LEMMA WriteTyped ==
  ASSUME NEW s \in Seq(Call), OneCheck(s), NEW room \in Snapshot \cup {None},
         NEW kind \in {"save", "delete"}, Write(kind, room, s), Len(s) < MaxCalls
  PROVE  /\ calls' \in Seq(Call) /\ Len(calls') <= MaxCalls
         /\ OneCheck(calls') /\ (Checked(calls') => Checked(s))
         /\ meant' \in Snapshot \cup {None} /\ excuses' \subseteq Excuses
<1>1. [kind |-> kind, room |-> room] \in Call
  BY DEF Call, Kinds
<1>2. Len(s) \in Nat
  BY LenProperties
<1> QED BY <1>1, <1>2, AppendCall, AppendOneCheck, ConstantsHold
     DEF Write, ConstantsOK, BoundsAssumption

LEMMA NextTypeInv == TypeInv /\ [Next]_vars => TypeInv'
<1> SUFFICES ASSUME TypeInv, [Next]_vars
             PROVE  TypeInv'
  OBVIOUS
<1> USE ConstantsHold DEF ConstantsOK, BoundsAssumption, operator
<1>1. Len(calls) \in Nat /\ DOMAIN calls = 1 .. Len(calls) /\ calls \in Seq(Call)
  BY LenProperties DEF TypeInv, TypeOK
<1>2. ASSUME NEW i \in DOMAIN calls
      PROVE  /\ calls[i] \in Call
             /\ RemoveAt(calls, i) \in Seq(Call)
             /\ Len(RemoveAt(calls, i)) = Len(calls) - 1
             /\ OneCheck(RemoveAt(calls, i))
             /\ Checked(RemoveAt(calls, i)) => nextId <= MaxRooms
             /\ calls[i].kind = "check" =>
                  ~Checked(RemoveAt(calls, i)) /\ nextId <= MaxRooms
  BY <1>1, ElementOfSeq, RemoveAtProperties, RestOneCheck DEF TypeInv, Checked
<1>3. ASSUME NEW kind \in {"hydrate", "check"}, ~Pending(kind), Len(calls) < MaxCalls,
             calls' = Append(calls, [kind |-> kind, room |-> None])
      PROVE  /\ calls' \in Seq(Call) /\ Len(calls') <= MaxCalls /\ OneCheck(calls')
             /\ kind # "check" /\ Checked(calls') => nextId <= MaxRooms
  <2>1. [kind |-> kind, room |-> None] \in Call
    BY DEF Call, Kinds
  <2>2. kind = "check" => ~Checked(calls)
    BY <1>3 DEF Pending, Checked
  <2> QED BY <1>1, <1>3, <2>1, <2>2, AppendCall, AppendOneCheck DEF TypeInv
<1> DEFINE rest(i) == RemoveAt(calls, i)
<1>4. CASE GetRoom
  <2>1. calls' \in Seq(Call) /\ Len(calls') <= MaxCalls /\ OneCheck(calls')
        /\ (Checked(calls') => nextId <= MaxRooms)
    BY <1>3, <1>4 DEF GetRoom
  <2> QED BY <1>4, <2>1 DEF GetRoom, TypeInv, TypeOK
<1>5. CASE CheckCode
  <2>1. calls' \in Seq(Call) /\ Len(calls') <= MaxCalls /\ OneCheck(calls')
    BY <1>3, <1>5 DEF CheckCode
  <2> QED BY <1>5, <2>1 DEF CheckCode, TypeInv, TypeOK
<1>6. CASE ChangeRoom
  <2> DEFINE changed == [cache EXCEPT !.version = @ + 1]
  <2>1. changed \in Snapshot
    <3>1. cache \in Snapshot /\ cache.version < MaxVersion
      BY <1>6 DEF ChangeRoom, TypeInv, TypeOK
    <3> QED BY <3>1 DEF Snapshot
  <2>2. Write("save", changed, calls) /\ cache' = changed /\ Len(calls) < MaxCalls
    BY <1>6 DEF ChangeRoom
  <2> HIDE DEF changed
  <2>3. /\ calls' \in Seq(Call) /\ Len(calls') <= MaxCalls
        /\ OneCheck(calls') /\ (Checked(calls') => Checked(calls))
        /\ meant' \in Snapshot \cup {None} /\ excuses' \subseteq Excuses
    BY <1>1, <2>1, <2>2, WriteTyped DEF TypeInv
  <2> QED BY <1>6, <2>1, <2>2, <2>3 DEF ChangeRoom, TypeInv, TypeOK
<1>7. CASE DropRoom
  <2>1. /\ calls' \in Seq(Call) /\ Len(calls') <= MaxCalls
        /\ OneCheck(calls') /\ (Checked(calls') => Checked(calls))
        /\ meant' \in Snapshot \cup {None} /\ excuses' \subseteq Excuses
    BY <1>1, <1>7, WriteTyped DEF DropRoom, TypeInv
  <2> QED BY <1>7, <2>1 DEF DropRoom, TypeInv, TypeOK, Snapshot
<1>8. CASE Restart
  <2>1. calls' \in Seq(Call) /\ Len(calls') = 0 /\ DOMAIN calls' = {}
    BY <1>8, EmptySeq DEF Restart
  <2> QED BY <1>8, <2>1 DEF Restart, TypeInv, TypeOK, OneCheck, Checked
<1>9. ASSUME NEW i \in DOMAIN calls, Serve(i) \/ Lose(i)
      PROVE  TypeInv'
  <2>0. /\ rest(i) \in Seq(Call)
        /\ Len(rest(i)) < MaxCalls /\ Len(rest(i)) <= MaxCalls
        /\ OneCheck(rest(i)) /\ (Checked(rest(i)) => nextId <= MaxRooms)
    <3>1. /\ rest(i) \in Seq(Call) /\ Len(rest(i)) = Len(calls) - 1
          /\ OneCheck(rest(i)) /\ (Checked(rest(i)) => nextId <= MaxRooms)
      BY <1>2, Zenon
    <3>2. Len(calls) <= MaxCalls /\ Len(calls) \in Nat /\ MaxCalls \in Nat
      BY <1>1 DEF TypeInv, TypeOK
    <3> HIDE DEF rest
    <3> QED BY <3>1, <3>2
  <2>1. Excused(i, TRUE) \subseteq Excuses /\ Excused(i, FALSE) \subseteq Excuses
    BY DEF Excused, Excuses, TypeInv, TypeOK
  <2>2. Written(i) \in Snapshot \cup {None}
    BY <1>2 DEF Written, Upsert, Call
  <2>3. ASSUME TakeCode(i), calls[i].kind = "check"
        PROVE  /\ NewRoom \in Snapshot /\ nextId' \in 1 .. MaxRooms + 1
               /\ calls' \in Seq(Call) /\ Len(calls') <= MaxCalls
               /\ OneCheck(calls') /\ ~Checked(calls')
               /\ meant' \in Snapshot \cup {None} /\ excuses' \subseteq Excuses
    <3>1. NewRoom \in Snapshot /\ nextId' \in 1 .. MaxRooms + 1
      BY <1>2, <2>3 DEF TakeCode, NewRoom, Snapshot, TypeInv, TypeOK
    <3> QED BY <1>2, <2>0, <2>3, <3>1, WriteTyped DEF TakeCode
  <2> HIDE DEF rest
  <2>4. CASE ServeWrite(i)
    BY <2>0, <2>1, <2>2, <2>4 DEF rest, ServeWrite, TypeInv, TypeOK
  <2>5. CASE LoseWrite(i)
    <3>1. faults' \in 0 .. MaxFaults
      BY <2>5 DEF LoseWrite, Fails, TypeInv, TypeOK
    <3>2. row' \in Snapshot \cup {None} /\ excuses' \subseteq Excuses /\ calls' = rest(i)
      BY <2>1, <2>2, <2>5 DEF rest, LoseWrite, TypeInv, TypeOK
    <3> QED BY <2>0, <2>5, <3>1, <3>2 DEF LoseWrite, TypeInv, TypeOK
  <2>6. CASE ServeHydrate(i)
    BY <2>0, <2>6 DEF rest, ServeHydrate, Replace, TypeInv, TypeOK, Excuses
  <2>7. CASE LoseHydrate(i)
    BY <2>0, <2>7 DEF rest, LoseHydrate, Fails, TypeInv, TypeOK
  <2>8. CASE ServeCheck(i)
    <3>1. CASE Free /\ TakeCode(i) /\ Replace(NewRoom)
      BY <2>3, <2>8, <3>1 DEF rest, ServeCheck, Replace, TypeInv, TypeOK
    <3>2. CASE ~Free
      BY <2>0, <2>8, <3>2 DEF rest, ServeCheck, TypeInv, TypeOK
    <3> QED BY <2>8, <3>1, <3>2 DEF ServeCheck
  <2>9. CASE LoseCheck(i)
    BY <2>3, <2>9 DEF rest, LoseCheck, Fails, TypeInv, TypeOK
  <2> QED BY <1>9, <2>4, <2>5, <2>6, <2>7, <2>8, <2>9 DEF Serve, Lose
<1>10. CASE AdminDeleteRoom
  <2>1. row \in Snapshot /\ scripts' \in 0 .. MaxScripts
    BY <1>10 DEF AdminDeleteRoom, TypeInv, TypeOK
  <2>2. dropped' \subseteq 1 .. MaxRooms /\ excuses' \subseteq Excuses /\ row' = None
    BY <1>10, <2>1 DEF AdminDeleteRoom, ExcusedByScript, TypeInv, TypeOK, Excuses, Snapshot
  <2> QED BY <1>1, <1>10, <2>1, <2>2 DEF AdminDeleteRoom, TypeInv, TypeOK
<1>11. CASE AdminReadRoom
  BY <1>1, <1>11 DEF AdminReadRoom, TypeInv, TypeOK
<1>12. CASE AdminFinishRoom
  <2>1. row' \in Snapshot \cup {None}
    BY <1>12 DEF AdminFinishRoom, TypeInv, TypeOK, Snapshot
  <2> QED BY <1>1, <1>12, <2>1 DEF AdminFinishRoom, ExcusedByScript, TypeInv, TypeOK, Excuses
<1>13. CASE UNCHANGED vars
  BY <1>13 DEF vars, TypeInv, TypeOK
<1> QED BY <1>4, <1>5, <1>6, <1>7, <1>8, <1>9, <1>10, <1>11, <1>12, <1>13 DEF Next

LEMMA TypeInvAlways == Spec => []TypeInv
BY InitTypeInv, NextTypeInv, PTL DEF Spec

(* Every variable keeps its type: in particular no more queries are in     *)
(* flight and no more ids given away than the bounds say.                  *)
THEOREM RowTypeCorrect == Spec => []TypeOK
BY TypeInvAlways, PTL DEF TypeInv
-----------------------------------------------------------------------------
(* The row catches up                                                      *)

(* Where a query was before the i-th was removed, and is afterwards.       *)
Old(i, j) == IF j < i THEN j ELSE j + 1
New(i, k) == IF k < i THEN k ELSE k - 1

LEMMA RestIndices ==
  ASSUME NEW s \in Seq(Call), NEW i \in DOMAIN s
  PROVE  /\ \A j \in DOMAIN RemoveAt(s, i) :
              /\ Old(i, j) \in DOMAIN s /\ Old(i, j) # i
              /\ RemoveAt(s, i)[j] = s[Old(i, j)]
         /\ \A k \in DOMAIN s : k # i =>
              /\ New(i, k) \in DOMAIN RemoveAt(s, i)
              /\ RemoveAt(s, i)[New(i, k)] = s[k]
         /\ \A j \in DOMAIN RemoveAt(s, i), k \in DOMAIN s :
              k # i /\ k > Old(i, j) => New(i, k) > j
<1>1. Len(s) \in Nat /\ DOMAIN s = 1 .. Len(s) /\ i \in 1 .. Len(s)
      /\ DOMAIN RemoveAt(s, i) = 1 .. Len(s) - 1
  BY RemoveAtProperties, LenProperties
<1>2. \A j \in 1 .. Len(s) - 1 :
        RemoveAt(s, i)[j] = IF j < i THEN s[j] ELSE s[j + 1]
  BY RemoveAtProperties
<1>3. ASSUME NEW j \in 1 .. Len(s) - 1
      PROVE  /\ Old(i, j) \in 1 .. Len(s) /\ Old(i, j) # i
             /\ RemoveAt(s, i)[j] = s[Old(i, j)]
  BY <1>1, <1>2 DEF Old
<1>4. ASSUME NEW k \in 1 .. Len(s), k # i
      PROVE  /\ New(i, k) \in 1 .. Len(s) - 1
             /\ Old(i, New(i, k)) = k
             /\ RemoveAt(s, i)[New(i, k)] = s[k]
  <2>1. New(i, k) \in 1 .. Len(s) - 1 /\ Old(i, New(i, k)) = k
    BY <1>1, <1>4 DEF New, Old
  <2> QED BY <1>3, <2>1
<1>5. \A j \in 1 .. Len(s) - 1, k \in 1 .. Len(s) :
        k # i /\ k > Old(i, j) => New(i, k) > j
  BY <1>1 DEF Old, New
<1> QED BY <1>1, <1>3, <1>4, <1>5

LEMMA SubSeqWrites ==
  ASSUME NEW s \in Seq(Call), NEW i \in DOMAIN s
  PROVE  /\ WritesIn(SubSeq(s, i + 1, Len(s))) <=> \E k \in DOMAIN s : k > i /\ IsWrite(s[k])
         /\ WritesIn(SubSeq(s, 1, i - 1)) <=> \E k \in DOMAIN s : k < i /\ IsWrite(s[k])
<1>1. Len(s) \in Nat /\ DOMAIN s = 1 .. Len(s) /\ i \in 1 .. Len(s)
      /\ \A j \in 1 .. Len(s) : s[j] \in Call
  BY LenProperties, ElementOfSeq
<1>2. ASSUME NEW m \in 1 .. Len(s) + 1, NEW n \in 0 .. Len(s), m <= n + 1
      PROVE  WritesIn(SubSeq(s, m, n)) <=> \E k \in m .. n : IsWrite(s[k])
  <2> DEFINE t == SubSeq(s, m, n)
  <2>1. m \in Int /\ n \in Int /\ \A j \in m .. n : s[j] \in Call
    BY <1>1
  <2>2. /\ t \in Seq(Call) /\ Len(t) = IF m <= n THEN n - m + 1 ELSE 0
        /\ \A j \in 1 .. n - m + 1 : t[j] = s[m + j - 1]
    BY <2>1, SubSeqProperties, SMT
  <2> HIDE DEF t
  <2>3. DOMAIN t = 1 .. n - m + 1
    BY <1>1, <1>2, <2>2, LenProperties
  <2>4. ASSUME NEW j \in DOMAIN t, IsWrite(t[j])
        PROVE  \E k \in m .. n : IsWrite(s[k])
    <3>1. m + j - 1 \in m .. n /\ t[j] = s[m + j - 1]
      BY <1>1, <2>2, <2>3
    <3> QED BY <2>4, <3>1
  <2>5. ASSUME NEW k \in m .. n, IsWrite(s[k])
        PROVE  \E j \in DOMAIN t : IsWrite(t[j])
    <3>1. k - m + 1 \in DOMAIN t /\ m + (k - m + 1) - 1 = k
      BY <1>1, <2>3
    <3>2. t[k - m + 1] = s[k]
      BY <2>2, <2>3, <3>1
    <3> QED BY <2>5, <3>1, <3>2
  <2> QED BY <2>4, <2>5 DEF WritesIn, t
<1>3. WritesIn(SubSeq(s, i + 1, Len(s))) <=> \E k \in i + 1 .. Len(s) : IsWrite(s[k])
  <2>1. i + 1 \in 1 .. Len(s) + 1 /\ Len(s) \in 0 .. Len(s) /\ i + 1 <= Len(s) + 1
    BY <1>1
  <2> QED BY <2>1, <1>2
<1>4. WritesIn(SubSeq(s, 1, i - 1)) <=> \E k \in 1 .. i - 1 : IsWrite(s[k])
  <2>1. 1 \in 1 .. Len(s) + 1 /\ i - 1 \in 0 .. Len(s) /\ 1 <= (i - 1) + 1
    BY <1>1
  <2> QED BY <2>1, <1>2
<1> QED BY <1>1, <1>3, <1>4

(* What the row is once a query has been served.                           *)
Effect(call) == IF call.kind = "save" THEN Upsert(call.room) ELSE None

LastWrite(s, k) ==
  /\ IsWrite(s[k])
  /\ \A j \in DOMAIN s : j > k => ~IsWrite(s[j])

(* RowCatchesUp, with what holds while writes are on their way: the last   *)
(* of them is what was meant.                                              *)
CaughtUpInv ==
  excuses = {} =>
    /\ cache # None => cache = meant
    /\ ~WritesIn(calls) => row = meant
    /\ \A k \in DOMAIN calls : LastWrite(calls, k) => Effect(calls[k]) = meant

(* Removing a query that is not the last write leaves the last write.      *)
LEMMA RestLastWrite ==
  ASSUME NEW s \in Seq(Call), NEW i \in DOMAIN s, NEW j \in DOMAIN RemoveAt(s, i),
         LastWrite(RemoveAt(s, i), j), ~LastWrite(s, i)
  PROVE  \E k \in DOMAIN s : LastWrite(s, k) /\ RemoveAt(s, i)[j] = s[k]
<1> DEFINE k == Old(i, j)
           t == RemoveAt(s, i)
<1>1. k \in DOMAIN s /\ k # i /\ t[j] = s[k]
  BY RestIndices
<1>2. \A x \in DOMAIN s : x # i /\ x > k => ~IsWrite(s[x])
  BY RestIndices DEF LastWrite
<1>3. i > k => ~IsWrite(s[i])
  <2> SUFFICES ASSUME i > k, IsWrite(s[i]) PROVE FALSE
    OBVIOUS
  <2>1. PICK x \in DOMAIN s : x > i /\ IsWrite(s[x])
    BY DEF LastWrite
  <2>2. x > k /\ x # i
    BY <1>1, <2>1, LenProperties
  <2> QED BY <1>2, <2>1, <2>2
<1>4. LastWrite(s, k)
  BY <1>1, <1>2, <1>3 DEF LastWrite
<1> QED BY <1>1, <1>4

LEMMA RestWrites ==
  ASSUME NEW s \in Seq(Call), NEW i \in DOMAIN s
  PROVE  WritesIn(RemoveAt(s, i)) <=> \E k \in DOMAIN s : k # i /\ IsWrite(s[k])
BY RestIndices DEF WritesIn
(* A write is the last one, and what was meant.                            *)
LEMMA WriteCaughtUp ==
  ASSUME NEW s \in Seq(Call), NEW room \in Snapshot \cup {None},
         NEW kind \in {"save", "delete"}, kind = "delete" => room = None,
         Write(kind, room, s), cache' # None => cache' = room
  PROVE  CaughtUpInv'
<1> DEFINE call == [kind |-> kind, room |-> room]
           t == Append(s, call)
<1>1. calls' = t /\ meant' = room
  BY DEF Write
<1>2. call \in Call /\ IsWrite(call) /\ Effect(call) = room
  BY DEF Call, Kinds, IsWrite, Effect, Upsert
<1>3. Len(s) \in Nat /\ DOMAIN t = 1 .. Len(s) + 1 /\ t[Len(s) + 1] = call
  BY <1>2, AppendCall, LenProperties
<1> HIDE DEF call, t
<1>4. WritesIn(t)
  BY <1>2, <1>3 DEF WritesIn
<1>5. ASSUME NEW k \in DOMAIN t, LastWrite(t, k)
      PROVE  Effect(t[k]) = room
  <2>1. k = Len(s) + 1
    BY <1>2, <1>3, <1>5 DEF LastWrite
  <2> QED BY <1>2, <1>3, <2>1
<1> QED BY <1>1, <1>4, <1>5 DEF CaughtUpInv

LEMMA NextCaughtUp == TypeInv /\ CaughtUpInv /\ [Next]_vars => CaughtUpInv'
<1> SUFFICES ASSUME TypeInv, CaughtUpInv, [Next]_vars
             PROVE  CaughtUpInv'
  OBVIOUS
<1> USE DEF operator
<1>1. calls \in Seq(Call) /\ Len(calls) \in Nat /\ DOMAIN calls = 1 .. Len(calls)
  BY LenProperties DEF TypeInv, TypeOK
<1>2. ASSUME NEW kind \in {"hydrate", "check"},
             calls' = Append(calls, [kind |-> kind, room |-> None]),
             UNCHANGED <<cache, row, meant, excuses>>
      PROVE  CaughtUpInv'
  <2> DEFINE call == [kind |-> kind, room |-> None]
             t == Append(calls, call)
  <2>1. call \in Call /\ ~IsWrite(call)
    BY DEF Call, Kinds, IsWrite
  <2>2. /\ DOMAIN t = 1 .. Len(calls) + 1 /\ t[Len(calls) + 1] = call
        /\ \A k \in DOMAIN calls : t[k] = calls[k]
    BY <1>1, <2>1, AppendCall
  <2>3. calls' = t
    BY <1>2
  <2> HIDE DEF call, t
  <2>4. WritesIn(t) <=> WritesIn(calls)
    BY <1>1, <2>1, <2>2 DEF WritesIn
  <2>5. ASSUME NEW k \in DOMAIN t, LastWrite(t, k)
        PROVE  k \in DOMAIN calls /\ LastWrite(calls, k) /\ t[k] = calls[k]
    <3>1. k \in DOMAIN calls
      BY <1>1, <2>1, <2>2, <2>5 DEF LastWrite
    <3> QED BY <1>1, <2>2, <2>5, <3>1 DEF LastWrite
  <2> QED BY <1>2, <2>3, <2>4, <2>5 DEF CaughtUpInv
<1>3. ASSUME NEW i \in DOMAIN calls
      PROVE  /\ calls[i] \in Call
             /\ RemoveAt(calls, i) \in Seq(Call)
  BY <1>1, ElementOfSeq, RemoveAtProperties
<1>4. CASE GetRoom
  BY <1>2, <1>4 DEF GetRoom
<1>5. CASE CheckCode
  BY <1>2, <1>5 DEF CheckCode
<1>6. CASE ChangeRoom
  <2> DEFINE changed == [cache EXCEPT !.version = @ + 1]
  <2>1. changed \in Snapshot
    <3>1. cache \in Snapshot /\ cache.version < MaxVersion
      BY <1>6 DEF ChangeRoom, TypeInv, TypeOK
    <3> QED BY <3>1, ConstantsHold DEF Snapshot, ConstantsOK, BoundsAssumption
  <2>2. Write("save", changed, calls) /\ cache' = changed
    BY <1>6 DEF ChangeRoom
  <2> HIDE DEF changed
  <2> QED BY <1>1, <2>1, <2>2, WriteCaughtUp
<1>7. CASE DropRoom
  <2>1. Write("delete", None, calls) /\ cache' = None
    BY <1>7 DEF DropRoom
  <2> QED BY <1>1, <2>1, WriteCaughtUp
<1>8. CASE Restart
  <2>1. DOMAIN calls' = {}
    BY <1>8, EmptySeq DEF Restart
  <2> QED BY <1>8, <2>1 DEF Restart, CaughtUpInv
<1>9. ASSUME NEW i \in DOMAIN calls, Serve(i) \/ Lose(i)
      PROVE  CaughtUpInv'
  <2> DEFINE rest == RemoveAt(calls, i)
  <2>1. ASSUME ~LastWrite(calls, i), calls' = rest, excuses' = {} => excuses = {},
               cache' = cache, meant' = meant
        PROVE  excuses' = {} =>
                 /\ cache' # None => cache' = meant'
                 /\ \A k \in DOMAIN calls' : LastWrite(calls', k) => Effect(calls'[k]) = meant'
    BY <1>1, <2>1, RestLastWrite DEF CaughtUpInv
  <2>2. ASSUME IsWrite(calls[i]), calls' = rest, NEW failed \in BOOLEAN,
               excuses' = Excused(i, failed), cache' = cache, meant' = meant,
               ~failed => row' = Written(i)
        PROVE  CaughtUpInv'
    <3>1. CASE WritesIn(SubSeq(calls, i + 1, Len(calls)))
      <4>1. PICK k \in DOMAIN calls : k > i /\ IsWrite(calls[k])
        BY <1>1, <3>1, SubSeqWrites
      <4>2. ~LastWrite(calls, i) /\ WritesIn(rest)
        BY <1>1, <4>1, RestWrites DEF LastWrite
      <4>3. excuses' = excuses
        BY <2>2, <3>1 DEF Excused
      <4> QED BY <2>1, <2>2, <4>2, <4>3 DEF CaughtUpInv
    <3>2. CASE ~WritesIn(SubSeq(calls, i + 1, Len(calls)))
      <4> SUFFICES ASSUME excuses' = {} PROVE CaughtUpInv'
        BY DEF CaughtUpInv
      <4>1. excuses = {} /\ ~failed /\ ~WritesIn(SubSeq(calls, 1, i - 1))
        BY <2>2, <3>2 DEF Excused
      <4>2. ~WritesIn(rest)
        BY <1>1, <3>2, <4>1, SubSeqWrites, RestWrites
      <4>3. LastWrite(calls, i)
        BY <1>1, <2>2, <3>2, SubSeqWrites DEF LastWrite
      <4>4. row' = Effect(calls[i])
        BY <2>2, <4>1 DEF Written, Effect
      <4>5. row' = meant'
        BY <2>2, <4>1, <4>3, <4>4 DEF CaughtUpInv
      <4> QED BY <2>2, <4>1, <4>2, <4>5 DEF CaughtUpInv, WritesIn, LastWrite
    <3> QED BY <3>1, <3>2
  <2>3. ASSUME ~IsWrite(calls[i]), calls' = rest
        PROVE  ~LastWrite(calls, i) /\ (WritesIn(calls') <=> WritesIn(calls))
    BY <1>1, <2>3, RestWrites DEF LastWrite, WritesIn
  <2>4. ASSUME ~IsWrite(calls[i]), calls' = rest, UNCHANGED <<cache, row, meant, excuses>>
        PROVE  CaughtUpInv'
    BY <2>1, <2>3, <2>4 DEF CaughtUpInv
  <2>5. CASE ServeWrite(i)
    BY <2>2, <2>5 DEF ServeWrite
  <2>6. CASE LoseWrite(i)
    BY <2>2, <2>6 DEF LoseWrite
  <2>7. CASE ServeHydrate(i)
    <3>1. ~IsWrite(calls[i]) /\ calls' = rest
      BY <2>7 DEF ServeHydrate, IsWrite
    <3>2. CASE row = None
      BY <2>4, <2>7, <3>1, <3>2 DEF ServeHydrate
    <3>3. CASE row # None
      <4> SUFFICES ASSUME excuses' = {} PROVE CaughtUpInv'
        BY DEF CaughtUpInv
      <4>1. cache' = row /\ meant' = meant /\ row' = row
        BY <2>7, <3>3 DEF ServeHydrate, Replace
      <4>2. excuses = {} /\ ~WritesIn(calls) /\ row = meant
        BY <2>7, <3>3 DEF ServeHydrate
      <4>3. ~WritesIn(calls')
        BY <2>3, <3>1, <4>2
      <4> QED BY <4>1, <4>2, <4>3 DEF CaughtUpInv, WritesIn, LastWrite
    <3> QED BY <3>2, <3>3
  <2>8. CASE LoseHydrate(i)
    BY <2>4, <2>8 DEF LoseHydrate, IsWrite
  <2>9. ASSUME TakeCode(i), calls[i].kind = "check", cache' = NewRoom
        PROVE  CaughtUpInv'
    <3>1. NewRoom \in Snapshot
      BY <2>9, ConstantsHold
         DEF NewRoom, Snapshot, TypeInv, TypeOK, Checked, ConstantsOK, BoundsAssumption
    <3>2. Write("save", NewRoom, rest)
      BY <2>9 DEF TakeCode
    <3> QED BY <1>3, <2>9, <3>1, <3>2, WriteCaughtUp
  <2>10. CASE ServeCheck(i)
    BY <2>4, <2>9, <2>10 DEF ServeCheck, Replace, IsWrite
  <2>11. CASE LoseCheck(i)
    BY <2>9, <2>11 DEF LoseCheck
  <2> QED BY <1>9, <2>5, <2>6, <2>7, <2>8, <2>10, <2>11 DEF Serve, Lose
<1>10. ASSUME excuses' = ExcusedByScript, UNCHANGED <<cache, calls, meant>>
       PROVE  CaughtUpInv'
  BY <1>10 DEF ExcusedByScript, CaughtUpInv
<1>11. CASE AdminDeleteRoom
  BY <1>10, <1>11 DEF AdminDeleteRoom
<1>12. CASE AdminReadRoom
  BY <1>12 DEF AdminReadRoom, CaughtUpInv
<1>13. CASE AdminFinishRoom
  BY <1>10, <1>13 DEF AdminFinishRoom
<1>14. CASE UNCHANGED vars
  BY <1>14 DEF vars, CaughtUpInv
<1> QED BY <1>4, <1>5, <1>6, <1>7, <1>8, <1>9, <1>11, <1>12, <1>13, <1>14 DEF Next

(* When no write is on its way and nothing excuses it, the row is what was *)
(* last meant, and the room in memory: however many queries failed or were *)
(* served out of order before (roomRepository.ts:158-160).                 *)
THEOREM RowAlwaysCatchesUp == Spec => []RowCatchesUp
<1>1. Init => CaughtUpInv
  <2> SUFFICES ASSUME Init PROVE CaughtUpInv
    OBVIOUS
  <2>1. DOMAIN calls = {}
    BY EmptySeq DEF Init
  <2> QED BY <2>1 DEF Init, CaughtUpInv
<1>2. CaughtUpInv => RowCatchesUp
  BY DEF CaughtUpInv, RowCatchesUp
<1> QED BY <1>1, <1>2, TypeInvAlways, NextCaughtUp, PTL DEF Spec
-----------------------------------------------------------------------------
(* No room is overwritten                                                  *)

(* As long as no two rooms have met under the code, at most one of those   *)
(* that are still played is in memory, in a save on its way, or in the row. *)
OneRoomInv ==
  ~clashed =>
    /\ \A k \in DOMAIN calls :
         calls[k].kind = "save" /\ IsPlayed(calls[k].room) =>
           cache # None /\ cache.id = calls[k].room.id
    /\ IsPlayed(row) /\ IsPlayed(cache) => row.id = cache.id

LEMMA NextOneRoom == TypeInv /\ OneRoomInv /\ [Next]_vars => OneRoomInv'
<1> SUFFICES ASSUME TypeInv, OneRoomInv, [Next]_vars, ~clashed'
             PROVE  OneRoomInv'
  BY DEF OneRoomInv
<1> USE DEF operator, IsPlayed
<1>1. calls \in Seq(Call) /\ Len(calls) \in Nat /\ DOMAIN calls = 1 .. Len(calls)
  BY LenProperties DEF TypeInv, TypeOK
<1>2. ASSUME NEW call \in Call, NEW s \in Seq(Call)
      PROVE  \A k \in DOMAIN Append(s, call) :
               \/ Append(s, call)[k] = call
               \/ \E j \in DOMAIN s : Append(s, call)[k] = s[j]
  BY AppendCall, LenProperties
<1>3. ASSUME NEW kind \in {"hydrate", "check"}, ~clashed,
             calls' = Append(calls, [kind |-> kind, room |-> None]),
             UNCHANGED <<cache, row, dropped>>
      PROVE  OneRoomInv'
  <2>1. [kind |-> kind, room |-> None] \in Call
    BY DEF Call, Kinds
  <2> QED BY <1>1, <1>2, <1>3, <2>1 DEF OneRoomInv
<1>4. CASE GetRoom
  BY <1>3, <1>4 DEF GetRoom
<1>5. CASE CheckCode
  BY <1>3, <1>5 DEF CheckCode
<1>6. CASE ChangeRoom
  <2> DEFINE changed == [cache EXCEPT !.version = @ + 1]
             call == [kind |-> "save", room |-> changed]
  <2>1. cache \in Snapshot /\ cache.version < MaxVersion
    BY <1>6 DEF ChangeRoom, TypeInv, TypeOK
  <2>2. changed \in Snapshot /\ changed.id = cache.id /\ changed # None
    BY <2>1, ConstantsHold DEF Snapshot, ConstantsOK, BoundsAssumption, NoneAssumption
  <2>3. /\ calls' = Append(calls, call) /\ cache' = changed
        /\ UNCHANGED <<row, dropped>> /\ ~clashed /\ cache # None
    BY <1>6 DEF ChangeRoom, Write
  <2>4. call \in Call /\ call.kind = "save" /\ call.room = changed
    BY <2>2 DEF Call, Kinds
  <2> HIDE DEF changed, call
  <2> QED BY <1>1, <1>2, <2>2, <2>3, <2>4 DEF OneRoomInv
<1>7. CASE DropRoom
  <2>1. [kind |-> "delete", room |-> None] \in Call
    BY DEF Call, Kinds
  <2>2. /\ calls' = Append(calls, [kind |-> "delete", room |-> None])
        /\ cache' = None /\ row' = row /\ ~clashed /\ cache # None
        /\ dropped' = dropped \cup {cache.id}
    BY <1>7 DEF DropRoom, Write
  <2> QED BY <1>1, <1>2, <2>1, <2>2 DEF OneRoomInv
<1>8. CASE Restart
  <2>1. DOMAIN calls' = {}
    BY <1>8, EmptySeq DEF Restart
  <2> QED BY <1>8, <2>1 DEF Restart, OneRoomInv
<1>9. ASSUME NEW i \in DOMAIN calls, Serve(i) \/ Lose(i)
      PROVE  OneRoomInv'
  <2> DEFINE rest == RemoveAt(calls, i)
  <2>1. rest \in Seq(Call) /\ \A j \in DOMAIN rest : \E k \in DOMAIN calls : rest[j] = calls[k]
    BY <1>1, RemoveAtProperties, RestProperties
  <2>2. ASSUME calls' = rest, UNCHANGED <<cache, dropped, clashed>>,
               row' \in {row, Written(i)}, IsWrite(calls[i])
        PROVE  OneRoomInv'
    <3>1. Written(i) # None => calls[i].kind = "save" /\ Written(i) = calls[i].room
      BY DEF Written, Upsert
    <3> HIDE DEF rest
    <3> QED BY <2>1, <2>2, <3>1 DEF OneRoomInv
  <2>3. ASSUME calls' = rest, UNCHANGED <<cache, row, dropped, clashed>>
        PROVE  OneRoomInv'
    BY <2>1, <2>3 DEF OneRoomInv
  <2>4. CASE ServeWrite(i)
    BY <2>2, <2>4 DEF ServeWrite
  <2>5. CASE LoseWrite(i)
    BY <2>2, <2>5 DEF LoseWrite
  <2>6. CASE ServeHydrate(i)
    <3>1. calls' = rest /\ UNCHANGED <<row, dropped>>
      BY <2>6 DEF ServeHydrate
    <3>2. CASE row = None
      BY <2>3, <2>6, <3>1, <3>2 DEF ServeHydrate
    <3>3. CASE row # None
      <4>1. cache' = row /\ ~clashed /\ ~(IsPlayed(cache) /\ cache.id # row.id)
        BY <2>6, <3>3 DEF ServeHydrate, Replace
      <4> HIDE DEF rest
      <4> QED BY <2>1, <3>1, <3>3, <4>1 DEF OneRoomInv
    <3> QED BY <3>2, <3>3
  <2>7. CASE LoseHydrate(i)
    BY <2>3, <2>7 DEF LoseHydrate
  <2>8. CASE ServeCheck(i)
    <3>1. CASE Free /\ TakeCode(i) /\ Replace(NewRoom)
      <4> DEFINE call == [kind |-> "save", room |-> NewRoom]
      <4>1. NewRoom \in Snapshot
        BY <2>8, ConstantsHold
           DEF ServeCheck, NewRoom, Snapshot, TypeInv, TypeOK, Checked, ConstantsOK, BoundsAssumption
      <4>2. call \in Call /\ call.kind = "save" /\ call.room = NewRoom
        BY <4>1 DEF Call, Kinds
      <4>3. /\ calls' = Append(rest, call) /\ cache' = NewRoom
            /\ row' = row /\ row = None /\ dropped' = dropped
            /\ ~clashed /\ ~(IsPlayed(cache) /\ cache.id # NewRoom.id)
        BY <2>8, <3>1 DEF ServeCheck, TakeCode, Write, Replace, Free
      <4>4. NewRoom # None
        BY <4>1, ConstantsHold DEF ConstantsOK, NoneAssumption
      <4> HIDE DEF call, rest
      <4> QED BY <1>2, <2>1, <4>2, <4>3, <4>4 DEF OneRoomInv
    <3>2. CASE ~Free
      BY <2>3, <2>8, <3>2 DEF ServeCheck
    <3> QED BY <2>8, <3>1, <3>2 DEF ServeCheck
  <2>9. CASE LoseCheck(i)
    BY <2>9 DEF LoseCheck
  <2> QED BY <1>9, <2>4, <2>5, <2>6, <2>7, <2>8, <2>9 DEF Serve, Lose
<1>10. CASE AdminDeleteRoom
  BY <1>10 DEF AdminDeleteRoom, OneRoomInv
<1>11. CASE AdminReadRoom
  BY <1>11 DEF AdminReadRoom, OneRoomInv
<1>12. CASE AdminFinishRoom
  <2>1. UNCHANGED <<cache, calls, dropped>> /\ ~clashed /\ (row' # None => row # None)
    BY <1>12 DEF AdminFinishRoom
  <2>2. row' # None => row'.id = row.id
    <3>1. held \in Snapshot
      BY <1>12 DEF AdminFinishRoom, TypeInv, TypeOK
    <3>2. [held EXCEPT !.ended = TRUE].id = held.id
      BY <3>1 DEF Snapshot
    <3> QED BY <1>12, <3>2 DEF AdminFinishRoom
  <2> QED BY <2>1, <2>2 DEF OneRoomInv
<1>13. CASE UNCHANGED vars
  BY <1>13 DEF vars, OneRoomInv
<1> QED BY <1>4, <1>5, <1>6, <1>7, <1>8, <1>9, <1>10, <1>11, <1>12, <1>13 DEF Next
(* The step of the invariant at which the row changes hands.               *)
LEMMA RowChangesHands ==
  ASSUME TypeInv, OneRoomInv, [Next]_vars,
         row # None, row' # None, row'.id # row.id, ~clashed'
  PROVE  row.id \in dropped \/ row'.id \in dropped
<1> USE DEF operator, IsPlayed
<1>1. CASE GetRoom \/ CheckCode \/ ChangeRoom \/ DropRoom \/ Restart \/ UNCHANGED vars
  BY <1>1 DEF GetRoom, CheckCode, ChangeRoom, DropRoom, Restart, vars
<1>2. ASSUME NEW i \in DOMAIN calls, Serve(i) \/ Lose(i)
      PROVE  row.id \in dropped \/ row'.id \in dropped
  <2>1. CASE row' = row
    BY <2>1
  <2>2. CASE row' # row
    <3>1. row' = Written(i) /\ clashed' = clashed
      BY <1>2, <2>2 DEF Serve, Lose, ServeWrite, LoseWrite, ServeHydrate, LoseHydrate,
                        ServeCheck, LoseCheck
    <3>2. calls[i].kind = "save" /\ row' = calls[i].room
      BY <3>1 DEF Written, Upsert
    <3> QED BY <3>1, <3>2 DEF OneRoomInv
  <2> QED BY <2>1, <2>2
<1>3. CASE AdminDeleteRoom \/ AdminReadRoom
  BY <1>3 DEF AdminDeleteRoom, AdminReadRoom
<1>4. CASE AdminFinishRoom
  <2>1. [held EXCEPT !.ended = TRUE].id = held.id
    BY <1>4 DEF AdminFinishRoom, TypeInv, TypeOK, Snapshot
  <2> QED BY <1>4, <2>1 DEF AdminFinishRoom
<1> QED BY <1>1, <1>2, <1>3, <1>4 DEF Next

(* No write replaces a room that is still played by another one, unless    *)
(* the two have clashed (createRoom's look at the code, roomCore.ts:18-21).*)
THEOREM RoomsNotOverwritten == Spec => NoRoomOverwritten
<1>1. Init => OneRoomInv
  <2> SUFFICES ASSUME Init PROVE OneRoomInv
    OBVIOUS
  <2>1. DOMAIN calls = {}
    BY EmptySeq DEF Init
  <2> QED BY <2>1 DEF Init, OneRoomInv, IsPlayed
<1>2. TypeInv /\ OneRoomInv /\ [Next]_vars =>
        [(row # None /\ row' # None /\ row'.id # row.id) =>
           row.id \in dropped \/ row'.id \in dropped \/ clashed']_vars
  BY RowChangesHands
<1> QED BY <1>1, <1>2, TypeInvAlways, NextOneRoom, PTL DEF Spec, NoRoomOverwritten
=============================================================================
