------------------------ MODULE ControlClientProofs -------------------------
(***************************************************************************)
(* Theorems about the reconnecting client, ControlClient, for any number   *)
(* of clones, calls and broken connections.  The tokio mutex makes it      *)
(* provable: only its owner has a request under way, so that a session has *)
(* one unanswered request unless one has timed out.                        *)
(***************************************************************************)
EXTENDS ControlClient, TLAPS, FiniteSetTheorems, SequenceTheorems

-----------------------------------------------------------------------------
(***************************************************************************)
(* The inductive invariant.                                                *)
(***************************************************************************)
InCall == {"connect", "lookup", "sending", "cancel", "reset", "close"}

Has(q, e) == \E i \in DOMAIN q : q[i] = e

Distinct(q) == \A i, j \in DOMAIN q : q[i] = q[j] => i = j

Queued(c) == Has(ccLock, c)

Todo(r) == Has(ccSession.todo, r)

(* Who is busy waits for the mutex or has it, and is about one of its      *)
(* calls; the session is dropped only after the first attempt.             *)
MutexInv ==
  /\ \A c \in Callers : Queued(c) <=> ccPc[c] \in InCall
  /\ \A c \in Callers : ccPc[c] \in InCall => ccCalls[c] >= 1
  /\ \A c \in Callers : ccPc[c] = "reset" => ccTry[c] = 1

(* A session has a request once, and not before its caller's attempt on    *)
(* this session; a closed one has no answers.                              *)
SessionInv ==
  /\ Distinct(ccSession.todo)
  /\ \A c \in Callers : ccPc[c] \in {"connect", "lookup"} => ~Todo(Current(c))
  /\ ccSession.closed => ccSession.answers = <<>>

(* While no call has timed out, an open connection carries one request or  *)
(* its answer, that of the caller who has the mutex.                       *)
CarriedInv ==
  ccExpired = {} /\ ~ccSession.closed =>
    /\ Len(ccSession.todo) + Len(ccSession.answers) <= 1
    /\ \A r \in Call :
         Todo(r) \/ Has(ccSession.answers, r) => Holds(r[1], "sending") /\ r = Current(r[1])

(* What the server has executed of a call, and what it may still.          *)
Copies(r) == ccRuns[r] + ccLeft[r] + (IF Todo(r) THEN 1 ELSE 0)

(* How often a call has been written at most: once in each attempt, and a  *)
(* second attempt of a call that was written follows a broken session.     *)
Attempts(r) == IF r \in ccCut THEN ccTry[r[1]] ELSE 1

Allowed(r) ==
  IF r[2] > ccCalls[r[1]] THEN 0
  ELSE IF r[2] < ccCalls[r[1]] THEN (IF r \in ccCut THEN 2 ELSE 1)
  ELSE IF ccPc[r[1]] \in {"connect", "lookup"} THEN Attempts(r) - 1
  ELSE IF ccPc[r[1]] = "reset" THEN (IF r \in ccCut THEN 1 ELSE 0)
  ELSE Attempts(r)

CopiesInv == \A r \in Call : Copies(r) <= Allowed(r)

ClientInv == ClientTypeOK /\ MutexInv /\ SessionInv /\ CarriedInv /\ CopiesInv /\ AnswerOwnOrExpired

-----------------------------------------------------------------------------
(***************************************************************************)
(* Sequences.                                                              *)
(***************************************************************************)
(* The empty sequence.                                                     *)
LEMMA EmptyFacts == <<>> \in Seq(Call) /\ Len(<<>>) = 0 /\ Distinct(<<>>) /\ \A e : ~Has(<<>>, e)
  BY DEF Distinct, Has

(* Putting an element at the end.                                          *)
LEMMA AppendFacts ==
  ASSUME NEW S, NEW q \in Seq(S), NEW e \in S
  PROVE  /\ Append(q, e) \in Seq(S) /\ Append(q, e) # <<>>
         /\ Len(q) \in Nat /\ Len(Append(q, e)) = Len(q) + 1
         /\ \A x : Has(Append(q, e), x) <=> Has(q, x) \/ x = e
         /\ Distinct(q) /\ ~Has(q, e) => Distinct(Append(q, e))
         /\ q # <<>> => Head(Append(q, e)) = Head(q)
<1>1. /\ Append(q, e) \in Seq(S) /\ Len(Append(q, e)) = Len(q) + 1 /\ Len(q) \in Nat
      /\ DOMAIN q = 1..Len(q) /\ DOMAIN Append(q, e) = 1..(Len(q) + 1)
      /\ \A i \in 1..Len(q) : Append(q, e)[i] = q[i]
      /\ Append(q, e)[Len(q) + 1] = e
  OBVIOUS
<1>2. \A x : Has(Append(q, e), x) <=> Has(q, x) \/ x = e
  BY <1>1 DEF Has
<1>3. Distinct(q) /\ ~Has(q, e) => Distinct(Append(q, e))
  BY <1>1 DEF Distinct, Has
<1>4. Append(q, e) # <<>> /\ (q # <<>> => Head(Append(q, e)) = Head(q))
  <2>1. Append(q, e) # <<>>
    BY AppendProperties
  <2>2. \A t \in Seq(S) : t # <<>> => Head(t) = t[1] /\ Len(t) >= 1
    OBVIOUS
  <2> QED
    BY <1>1, <2>1, <2>2
<1> QED
  BY <1>1, <1>2, <1>3, <1>4

(* Taking the first element.                                               *)
LEMMA TailFacts ==
  ASSUME NEW S, NEW q \in Seq(S), q # <<>>
  PROVE  /\ Tail(q) \in Seq(S) /\ Head(q) \in S
         /\ Len(q) \in Nat /\ Len(q) >= 1 /\ Len(Tail(q)) = Len(q) - 1
         /\ \A x : Has(q, x) <=> Has(Tail(q), x) \/ x = Head(q)
         /\ Distinct(q) => Distinct(Tail(q)) /\ ~Has(Tail(q), Head(q))
<1>1. /\ Tail(q) \in Seq(S) /\ Head(q) \in S /\ Len(q) \in Nat /\ Len(q) >= 1 /\ Len(Tail(q)) = Len(q) - 1
      /\ DOMAIN q = 1..Len(q) /\ DOMAIN Tail(q) = 1..(Len(q) - 1)
      /\ \A i \in 1..(Len(q) - 1) : Tail(q)[i] = q[i + 1]
      /\ Head(q) = q[1]
  OBVIOUS
<1>2. ASSUME NEW x PROVE Has(q, x) <=> Has(Tail(q), x) \/ x = Head(q)
  <2>1. ASSUME NEW i \in 1..Len(q), q[i] = x PROVE Has(Tail(q), x) \/ x = Head(q)
    <3>1. CASE i = 1
      BY <1>1, <2>1, <3>1
    <3>2. CASE i # 1
      <4>1. i - 1 \in 1..(Len(q) - 1) /\ Tail(q)[i - 1] = q[i]
        BY <1>1, <3>2
      <4> QED
        BY <1>1, <2>1, <4>1 DEF Has
    <3> QED
      BY <3>1, <3>2
  <2>2. ASSUME NEW i \in 1..(Len(q) - 1), Tail(q)[i] = x PROVE Has(q, x)
    <3>1. i + 1 \in 1..Len(q) /\ q[i + 1] = x
      BY <1>1, <2>2
    <3> QED
      BY <1>1, <3>1 DEF Has
  <2>3. Has(q, Head(q))
    BY <1>1 DEF Has
  <2> QED
    BY <1>1, <2>1, <2>2, <2>3 DEF Has
<1>3. Distinct(q) => Distinct(Tail(q)) /\ ~Has(Tail(q), Head(q))
  BY <1>1 DEF Distinct, Has
<1> QED
  BY <1>1, <1>2, <1>3

(* Leaving one element out.                                                *)
LEMMA WithoutFacts ==
  ASSUME NEW S, NEW q \in Seq(S), NEW i \in DOMAIN q
  PROVE  /\ Without(q, i) \in Seq(S)
         /\ \A x : Has(Without(q, i), x) => Has(q, x)
         /\ Distinct(q) => Distinct(Without(q, i))
<1> DEFINE n == Len(q)
           a == SubSeq(q, 1, i - 1)
           b == SubSeq(q, i + 1, n)
           rest == a \o b
           Old(j) == IF j < i THEN j ELSE j + 1
<1>1. n \in Nat /\ i \in 1..n /\ DOMAIN q = 1..n
  OBVIOUS
<1>2. a \in Seq(S) /\ Len(a) = i - 1 /\ \A j \in 1..(i - 1) : a[j] = q[j]
  BY <1>1
<1>3. b \in Seq(S) /\ Len(b) = n - i /\ \A j \in 1..(n - i) : b[j] = q[i + j]
  BY <1>1
<1> HIDE DEF a, b
<1>4. /\ rest \in Seq(S) /\ DOMAIN rest = 1..(n - 1)
      /\ \A j \in 1..(n - 1) : rest[j] = IF j <= i - 1 THEN a[j] ELSE b[j - (i - 1)]
  <2>1. Len(a) + Len(b) = n - 1
    BY <1>1, <1>2, <1>3
  <2>2. /\ rest \in Seq(S) /\ Len(rest) = Len(a) + Len(b)
        /\ \A j \in 1..(Len(a) + Len(b)) : rest[j] = IF j <= Len(a) THEN a[j] ELSE b[j - Len(a)]
    BY <1>2, <1>3, ConcatProperties
  <2> HIDE DEF rest
  <2>3. DOMAIN rest = 1..Len(rest)
    BY <2>2
  <2> QED
    BY <1>2, <2>1, <2>2, <2>3
<1> HIDE DEF rest
<1>5. ASSUME NEW j \in 1..(n - 1)
      PROVE  Old(j) \in 1..n /\ rest[j] = q[Old(j)]
  <2>1. CASE j < i
    BY <1>1, <1>2, <1>4, <2>1
  <2>2. CASE ~(j < i)
    <3>1. PICK k \in 1..(n - i) : k = j - (i - 1)
      BY <1>1, <2>2
    <3>2. i + k = j + 1 /\ j + 1 \in 1..n
      BY <1>1, <2>2, <3>1
    <3>3. rest[j] = b[k]
      BY <1>1, <1>4, <2>2, <3>1
    <3>4. b[k] = q[i + k]
      BY <1>3
    <3> QED
      BY <2>2, <3>2, <3>3, <3>4
  <2> QED
    BY <2>1, <2>2
<1> HIDE DEF Old
<1>6. \A x : Has(rest, x) => Has(q, x)
  BY <1>1, <1>4, <1>5 DEF Has
<1>7. \A j, k \in 1..(n - 1) : Old(j) = Old(k) => j = k
  BY <1>1 DEF Old
<1>8. Distinct(q) => Distinct(rest)
  BY <1>1, <1>4, <1>5, <1>7 DEF Distinct
<1>9. Without(q, i) = rest
  BY DEF Without, rest, a, b
<1> QED
  BY <1>4, <1>6, <1>8, <1>9

-----------------------------------------------------------------------------
(***************************************************************************)
(* What the steps have in common.                                          *)
(***************************************************************************)
(* Calls are told apart by their caller and their number.                  *)
LEMMA CallFacts ==
  ASSUME ClientInv
  PROVE  /\ \A r \in Call : r = <<r[1], r[2]>> /\ r[1] \in Callers /\ r[2] \in 1..MaxCalls
         /\ \A c \in Callers : ccCalls[c] \in 0..MaxCalls /\ Current(c)[1] = c /\ Current(c)[2] = ccCalls[c]
         /\ \A c \in Callers : ccCalls[c] >= 1 => Current(c) \in Call
         /\ \A c \in Callers : ccPc[c] \in InCall => Current(c) \in Call
<1>1. \A c \in Callers : ccCalls[c] \in 0..MaxCalls /\ Current(c)[1] = c /\ Current(c)[2] = ccCalls[c]
  BY DEF ClientInv, ClientTypeOK, Current
<1>2. \A c \in Callers : ccCalls[c] >= 1 => Current(c) \in Call
  BY <1>1, ClientAssumption DEF Call, Current
<1>3. \A r \in Call : r = <<r[1], r[2]>> /\ r[1] \in Callers /\ r[2] \in 1..MaxCalls
  BY DEF Call
<1> QED
  BY <1>1, <1>2, <1>3 DEF ClientInv, MutexInv

(* The owner of the mutex is busy, and only one has it.                    *)
LEMMA OwnerFacts ==
  ASSUME ClientInv, ccLock # <<>>
  PROVE  /\ Head(ccLock) \in Callers /\ ccPc[Head(ccLock)] \in InCall
         /\ Tail(ccLock) \in Seq(Callers) /\ Distinct(Tail(ccLock)) /\ ~Has(Tail(ccLock), Head(ccLock))
         /\ \A d : Queued(d) <=> Has(Tail(ccLock), d) \/ d = Head(ccLock)
<1>1. ccLock \in Seq(Callers) /\ Distinct(ccLock)
  BY DEF ClientInv, ClientTypeOK, Distinct
<1>2. /\ Head(ccLock) \in Callers /\ Queued(Head(ccLock))
      /\ Tail(ccLock) \in Seq(Callers) /\ Distinct(Tail(ccLock)) /\ ~Has(Tail(ccLock), Head(ccLock))
      /\ \A d : Queued(d) <=> Has(Tail(ccLock), d) \/ d = Head(ccLock)
  BY <1>1, TailFacts DEF Queued
<1> QED
  BY <1>2 DEF ClientInv, MutexInv

(* How a caller moves: it waits for the mutex, keeps it, gives it back, or *)
(* gives it back and waits for it again.                                   *)
LEMMA LockStep ==
  ASSUME ClientInv, NEW c \in Callers, NEW pc \in Pcs, At(c, pc),
         \/ ccPc[c] = "idle" /\ pc \in InCall /\ ccLock' = Append(ccLock, c)
         \/ /\ ccLock # <<>> /\ Head(ccLock) = c
            /\ \/ pc \in InCall /\ (Relock(c) \/ UNCHANGED ccLock)
               \/ pc \notin InCall /\ Unlock
  PROVE  /\ ccLock' \in Seq(Callers) /\ \A i, j \in DOMAIN ccLock' : ccLock'[i] = ccLock'[j] => i = j
         /\ ccPc' \in [Callers -> Pcs] /\ ccPc'[c] = pc
         /\ \A d \in Callers \ {c} : ccPc'[d] = ccPc[d]
         /\ \A d \in Callers : Queued(d)' <=> ccPc'[d] \in InCall
<1>1. ccLock \in Seq(Callers) /\ Distinct(ccLock) /\ ccPc \in [Callers -> Pcs]
  BY DEF ClientInv, ClientTypeOK, Distinct
<1>2. ccPc' \in [Callers -> Pcs] /\ ccPc'[c] = pc /\ \A d \in Callers \ {c} : ccPc'[d] = ccPc[d]
  BY <1>1 DEF At
<1>3. \A d \in Callers : Queued(d) <=> ccPc[d] \in InCall
  BY DEF ClientInv, MutexInv
<1>4. /\ ccLock' \in Seq(Callers) /\ Distinct(ccLock')
      /\ \A d \in Callers : Has(ccLock', d) <=> ccPc'[d] \in InCall
  <2>1. CASE ccPc[c] = "idle" /\ pc \in InCall /\ ccLock' = Append(ccLock, c)
    <3>1. ~Has(ccLock, c)
      BY <1>3, <2>1 DEF Queued, InCall
    <3>2. ccLock' \in Seq(Callers) /\ Distinct(ccLock') /\ \A x : Has(ccLock', x) <=> Has(ccLock, x) \/ x = c
      BY <1>1, <2>1, <3>1, AppendFacts
    <3> QED
      BY <1>2, <1>3, <2>1, <3>2 DEF Queued
  <2>2. CASE ccLock # <<>> /\ Head(ccLock) = c /\ pc \in InCall /\ UNCHANGED ccLock
    BY <1>1, <1>2, <1>3, <2>2, OwnerFacts DEF Queued
  <2>3. CASE ccLock # <<>> /\ Head(ccLock) = c /\ pc \in InCall /\ Relock(c)
    <3>1. /\ Tail(ccLock) \in Seq(Callers) /\ Distinct(Tail(ccLock)) /\ ~Has(Tail(ccLock), c)
          /\ \A d : Queued(d) <=> Has(Tail(ccLock), d) \/ d = c
      BY <2>3, OwnerFacts
    <3>2. /\ ccLock' \in Seq(Callers) /\ Distinct(ccLock')
          /\ \A x : Has(ccLock', x) <=> Has(Tail(ccLock), x) \/ x = c
      BY <2>3, <3>1, AppendFacts DEF Relock
    <3> QED
      BY <1>2, <1>3, <2>3, <3>1, <3>2
  <2>4. CASE ccLock # <<>> /\ Head(ccLock) = c /\ pc \notin InCall /\ Unlock
    <3>1. /\ Tail(ccLock) \in Seq(Callers) /\ Distinct(Tail(ccLock)) /\ ~Has(Tail(ccLock), c)
          /\ \A d : Queued(d) <=> Has(Tail(ccLock), d) \/ d = c
      BY <2>4, OwnerFacts
    <3> QED
      BY <1>2, <1>3, <2>4, <3>1 DEF Unlock
  <2> QED
    BY <2>1, <2>2, <2>3, <2>4
<1> QED
  BY <1>2, <1>4 DEF Distinct, Queued

(* Where the owner of the mutex has not written its request, nothing is    *)
(* under way on an open connection, unless a call has timed out.           *)
LEMMA FreeConnection ==
  ASSUME ClientInv, ccLock # <<>>, ccPc[Head(ccLock)] # "sending", ccExpired = {}, ~ccSession.closed
  PROVE  ccSession.todo = <<>> /\ ccSession.answers = <<>>
<1>1. \A r \in Call : ~Has(ccSession.todo, r) /\ ~Has(ccSession.answers, r)
  BY DEF ClientInv, CarriedInv, Todo, Holds
<1>2. ccSession.todo \in Seq(Call) /\ ccSession.answers \in Seq(Call)
  BY DEF ClientInv, ClientTypeOK, Sessions
<1> QED
  BY <1>1, <1>2, TailFacts

(* Calls that moves of their callers leave as many copies of.              *)
LEMMA AllowedKept ==
  ASSUME ClientInv, NEW c \in Callers, UNCHANGED <<ccCalls, ccTry>>, ccCut \subseteq ccCut',
         \A d \in Callers \ {c} : ccPc'[d] = ccPc[d],
         \/ ccPc'[c] \in {"idle", "panic", "close", "sending", "cancel"} \/ ccPc'[c] = ccPc[c]
         \/ ccPc[c] = "connect" /\ ccPc'[c] = "lookup"
         \/ ccPc[c] \in {"connect", "lookup"} /\ ccTry[c] = 1 /\ ccPc'[c] = "reset"
         \/ ccPc[c] = "sending" /\ ccTry[c] = 1 /\ ccPc'[c] = "reset" /\ Current(c) \in ccCut'
  PROVE  \A r \in Call : Allowed(r)' >= Allowed(r)
<1> SUFFICES ASSUME NEW r \in Call PROVE Allowed(r)' >= Allowed(r)
  OBVIOUS
<1>1. /\ r[1] \in Callers /\ r[2] \in Nat /\ ccCalls[r[1]] \in Nat /\ ccTry[r[1]] \in 1..2
      /\ r[2] = ccCalls[r[1]] => r = Current(r[1])
  BY CallFacts DEF ClientInv, ClientTypeOK, Current
<1>2. CASE r[1] # c
  BY <1>1, <1>2 DEF Allowed, Attempts
<1>3. CASE r[1] = c
  BY <1>1, <1>3 DEF Allowed, Attempts
<1> QED
  BY <1>2, <1>3

(* How many copies a call may have at all.                                 *)
LEMMA AllowedRange ==
  ASSUME NEW r \in Call, ccTry \in [Callers -> 1..2], ccCalls \in [Callers -> 0..MaxCalls]
  PROVE  Allowed(r) \in 0..2 /\ (r \notin ccCut => Allowed(r) <= 1)
<1>1. r[1] \in Callers /\ r[2] \in Nat /\ ccCalls[r[1]] \in Nat /\ ccTry[r[1]] \in 1..2
  BY ClientAssumption DEF Call
<1> QED
  BY <1>1 DEF Allowed, Attempts

(* The same bound in the next state. *)
LEMMA AllowedRangeNext ==
  ASSUME NEW r \in Call, ccTry' \in [Callers -> 1..2], ccCalls' \in [Callers -> 0..MaxCalls]
  PROVE  Allowed(r)' \in 0..2
<1>1. r[1] \in Callers /\ r[2] \in Nat /\ ccCalls'[r[1]] \in Nat /\ ccTry'[r[1]] \in 1..2
  BY ClientAssumption DEF Call
<1> QED
  BY <1>1 DEF Allowed, Attempts

(* A step that brings no copies.                                           *)
LEMMA CopiesKept ==
  ASSUME ClientInv, UNCHANGED <<ccRuns, ccLeft>>,
         ccTry' \in [Callers -> 1..2], ccCalls' \in [Callers -> 0..MaxCalls],
         \A r \in Call : Todo(r)' => Todo(r), \A r \in Call : Allowed(r)' >= Allowed(r)
  PROVE  CopiesInv'
<1> SUFFICES ASSUME NEW r \in Call PROVE Copies(r)' <= Allowed(r)'
  BY DEF CopiesInv
<1>1. ccRuns[r] \in Nat /\ ccLeft[r] \in Nat /\ Allowed(r) \in Int /\ Allowed(r)' \in Int
  <2>1. /\ ccRuns \in [Call -> Nat] /\ ccLeft \in [Call -> 0..2]
        /\ ccTry \in [Callers -> 1..2] /\ ccCalls \in [Callers -> 0..MaxCalls]
    BY DEF ClientInv, ClientTypeOK
  <2>2. Allowed(r) \in 0..2 /\ Allowed(r)' \in 0..2
    BY <2>1, AllowedRange, AllowedRangeNext
  <2> QED
    BY <2>1, <2>2
<1>2. Copies(r) <= Allowed(r) /\ Allowed(r)' >= Allowed(r)
  BY DEF ClientInv, CopiesInv
<1>3. Copies(r) \in Int /\ Copies(r)' \in Int /\ Copies(r)' <= Copies(r)
  BY <1>1 DEF Copies
<1> QED
  BY <1>1, <1>2, <1>3

(* A caller moves, and no request is written: what has to be shown of such *)
(* a step.                                                                 *)
LEMMA MoveKeeps ==
  ASSUME ClientInv, NEW c \in Callers, NEW pc \in Pcs, At(c, pc),
         \/ ccPc[c] = "idle" /\ pc \in InCall /\ ccLock' = Append(ccLock, c)
         \/ /\ ccLock # <<>> /\ Head(ccLock) = c
            /\ \/ pc \in InCall /\ (Relock(c) \/ UNCHANGED ccLock)
               \/ pc \notin InCall /\ Unlock,
         \/ pc \in {"idle", "panic"} \/ (pc = "close" /\ ccCalls[c] >= 1)
         \/ ccPc[c] = "connect" /\ pc = "lookup"
         \/ ccPc[c] \in {"connect", "lookup"} /\ ccTry[c] = 1 /\ pc = "reset"
         \/ ccPc[c] = "sending" /\ ccTry[c] = 1 /\ pc = "reset" /\ Current(c) \in ccCut'
         \/ ccPc[c] = "sending" /\ pc = "cancel",
         UNCHANGED <<ccCodec, ccLeft, ccCalls, ccTry, ccRuns>>,
         ccSession' \in Sessions, Distinct(ccSession'.todo), \A r \in Call : Todo(r)' => Todo(r),
         ccSession'.closed => ccSession'.answers = <<>>,
         ccExpired \subseteq ccExpired', ccExpired' \subseteq Call,
         ccCut \subseteq ccCut', ccCut' \subseteq Call, ccCuts' \in 0..MaxCuts,
         ccResult' \in [Callers -> Results],
         \A d \in Callers : \/ ccResult'[d] = ccResult[d] \/ ccResult'[d].kind # "ok"
                            \/ ccResult'[d].of = Current(d) \/ (ccCodec = "jsonl" /\ ccExpired # {}),
         CarriedInv'
  PROVE  ClientInv'
<1>1. /\ ccLock' \in Seq(Callers) /\ \A i, j \in DOMAIN ccLock' : ccLock'[i] = ccLock'[j] => i = j
      /\ ccPc' \in [Callers -> Pcs] /\ ccPc'[c] = pc
      /\ \A d \in Callers \ {c} : ccPc'[d] = ccPc[d]
      /\ \A d \in Callers : Queued(d)' <=> ccPc'[d] \in InCall
  BY LockStep
<1>2. ClientTypeOK'
  BY <1>1 DEF ClientInv, ClientTypeOK
<1>3. MutexInv'
  <2>1. pc \in InCall => ccCalls[c] >= 1
    BY DEF ClientInv, MutexInv, InCall
  <2> QED
    BY <1>1, <2>1 DEF ClientInv, MutexInv
<1>4. \A d \in Callers : Current(d)' = Current(d)
  BY DEF Current
<1>5. SessionInv'
  <2>1. \A d \in Callers : ccPc'[d] \in {"connect", "lookup"} => ~Todo(Current(d))
    BY <1>1 DEF ClientInv, SessionInv
  <2>2. \A d \in Callers : ccPc'[d] \in {"connect", "lookup"} => Current(d) \in Call
    <3>1. \A d \in Callers : ccPc'[d] \in {"connect", "lookup"} => ccPc[d] \in InCall
      BY <1>1 DEF InCall
    <3> QED
      BY <3>1, CallFacts
  <2>3. \A d \in Callers : ccPc'[d] \in {"connect", "lookup"} => ~Has(ccSession'.todo, Current(d))
    BY <2>1, <2>2 DEF Todo
  <2> QED
    BY <1>4, <2>3 DEF SessionInv, Todo
<1>6. CopiesInv'
  <2>1. \A r \in Call : Allowed(r)' >= Allowed(r)
    BY <1>1, AllowedKept
  <2> QED
    BY <1>2, <2>1, CopiesKept DEF ClientTypeOK
<1>7. AnswerOwnOrExpired'
  BY <1>4 DEF ClientInv, AnswerOwnOrExpired
<1> QED
  BY <1>2, <1>3, <1>5, <1>6, <1>7 DEF ClientInv

(* How an attempt that fails ends.                                         *)
LEMMA ErrorStep ==
  ASSUME ClientInv, NEW c \in Callers, NEW kind \in {"disconnect", "timeout", "protocol"},
         EndWithError(c, kind)
  PROVE  /\ UNCHANGED <<ccCodec, ccCalls, ccTry>>
         /\ ccResult' \in [Callers -> Results]
         /\ \A d \in Callers : ccResult'[d] = ccResult[d] \/ ccResult'[d].kind # "ok"
         /\ \/ At(c, "reset") /\ Relock(c) /\ ccTry[c] = 1 /\ kind = "disconnect"
            \/ At(c, "idle") /\ Unlock
<1>1. Result(kind, NoCall) \in Results /\ Result(kind, NoCall).kind # "ok"
  BY DEF Result, Results
<1>2. ccResult \in [Callers -> Results]
  BY DEF ClientInv, ClientTypeOK
<1> QED
  BY <1>1, <1>2 DEF EndWithError

(* What the session is before a step.                                      *)
LEMMA SessionFacts ==
  ASSUME ClientInv
  PROVE  /\ ccSession \in Sessions /\ ccSession.todo \in Seq(Call) /\ ccSession.answers \in Seq(Call)
         /\ ccSession.open \in BOOLEAN /\ ccSession.closed \in BOOLEAN
         /\ Distinct(ccSession.todo) /\ (ccSession.closed => ccSession.answers = <<>>)
         /\ Session \in Sessions /\ NoSession \in Sessions
         /\ Session.todo = <<>> /\ NoSession.todo = <<>> /\ Session.answers = <<>> /\ NoSession.answers = <<>>
<1>1. ccSession \in Sessions /\ Distinct(ccSession.todo) /\ (ccSession.closed => ccSession.answers = <<>>)
  BY DEF ClientInv, ClientTypeOK, SessionInv
<1> QED
  BY <1>1, EmptyFacts DEF Session, NoSession, Sessions

(* One request and its answer, counted.                                    *)
LEMMA MovedOne ==
  \A a, b \in Nat : a + b <= 1 => (a - 1) + (b + 1) <= 1 /\ (b >= 1 => a = 0 /\ b - 1 = 0)
  OBVIOUS

(* A connection that carries nothing.                                      *)
LEMMA EmptyCarries ==
  ASSUME ccExpired' = {} /\ ~ccSession'.closed => ccSession'.todo = <<>> /\ ccSession'.answers = <<>>
  PROVE  CarriedInv'
<1>1. ASSUME ccExpired' = {}, ~ccSession'.closed
      PROVE  /\ Len(ccSession'.todo) + Len(ccSession'.answers) <= 1
             /\ \A r \in Call : ~Has(ccSession'.todo, r) /\ ~Has(ccSession'.answers, r)
  <2>1. ccSession'.todo = <<>> /\ ccSession'.answers = <<>>
    BY <1>1
  <2>2. Len(ccSession'.todo) = 0 /\ Len(ccSession'.answers) = 0
    BY <2>1, EmptyFacts, Zenon
  <2>3. \A r \in Call : ~Has(ccSession'.todo, r) /\ ~Has(ccSession'.answers, r)
    BY <2>1, EmptyFacts, Zenon
  <2> QED
    BY <2>2, <2>3
<1> QED
  BY <1>1 DEF CarriedInv, Todo

(* connect, an attempt that is refused before its request is written, and  *)
(* the panic of send_with_session.                                         *)
LEMMA UnwrittenKeeps ==
  ASSUME ClientInv, NEW c \in Callers,
         Connect(c) \/ ConnectFails(c) \/ LookupPanics(c) \/ SendRefused(c) \/ BeginClose(c)
  PROVE  ClientInv'
<1> DEFINE Same == /\ UNCHANGED <<ccCodec, ccLeft, ccCalls, ccTry, ccRuns, ccExpired, ccCut>>
                   /\ ccCuts' \in 0..MaxCuts
<1>1. /\ ccCuts \in 0..MaxCuts /\ ccResult \in [Callers -> Results] /\ ccExpired \subseteq Call
      /\ ccCut \subseteq Call
  BY DEF ClientInv, ClientTypeOK
<1>2. ccCuts < MaxCuts => ccCuts + 1 \in 0..MaxCuts
  BY <1>1, ClientAssumption
<1>3. ASSUME ccLock # <<>>, ccPc[Head(ccLock)] # "sending", ccExpired' = ccExpired,
             ccSession' = ccSession \/ ccSession' = Session
      PROVE  CarriedInv'
  <2>1. ASSUME ccExpired' = {}, ~ccSession'.closed PROVE ccSession'.todo = <<>> /\ ccSession'.answers = <<>>
    BY <1>3, <2>1, FreeConnection, SessionFacts
  <2> QED
    BY <2>1, EmptyCarries
<1>4. CASE Connect(c)
  <2>1. /\ ccSession' = ccSession \/ ccSession' = Session
        /\ Same /\ ccResult' = ccResult /\ At(c, "lookup") /\ Relock(c)
        /\ ccLock # <<>> /\ Head(ccLock) = c /\ ccPc[c] = "connect"
    BY <1>1, <1>4 DEF Connect, Holds
  <2>2. CarriedInv'
    BY <1>3, <2>1
  <2>3. /\ ccSession' \in Sessions /\ Distinct(ccSession'.todo) /\ (ccSession'.closed => ccSession'.answers = <<>>)
        /\ \A r \in Call : Todo(r)' => Todo(r)
    BY <2>1, SessionFacts, EmptyFacts DEF Todo
  <2> QED
    BY <1>1, <2>1, <2>2, <2>3, MoveKeeps DEF Pcs, InCall
<1>5. CASE ConnectFails(c) \/ SendRefused(c)
  <2>1. /\ ccSession' = ccSession /\ EndWithError(c, "disconnect")
        /\ ccLock # <<>> /\ Head(ccLock) = c /\ ccPc[c] \in {"connect", "lookup"}
        /\ UNCHANGED <<ccLeft, ccRuns, ccExpired, ccCut>> /\ ccCuts' \in 0..MaxCuts
    BY <1>1, <1>2, <1>5 DEF ConnectFails, SendRefused, Holds
  <2>2. /\ Same /\ ccResult' \in [Callers -> Results]
        /\ \A d \in Callers : ccResult'[d] = ccResult[d] \/ ccResult'[d].kind # "ok"
        /\ \/ At(c, "reset") /\ Relock(c) /\ ccTry[c] = 1
           \/ At(c, "idle") /\ Unlock
    BY <2>1, ErrorStep
  <2>3. CarriedInv' /\ (\A r \in Call : Todo(r)' => Todo(r)) /\ Distinct(ccSession'.todo) /\ ccSession' \in Sessions
        /\ (ccSession'.closed => ccSession'.answers = <<>>)
    BY <1>3, <2>1, SessionFacts DEF Todo
  <2>4. CASE At(c, "reset") /\ Relock(c) /\ ccTry[c] = 1
    BY <1>1, <2>1, <2>2, <2>3, <2>4, MoveKeeps DEF Pcs, InCall
  <2>5. CASE At(c, "idle") /\ Unlock
    BY <1>1, <2>1, <2>2, <2>3, <2>5, MoveKeeps DEF Pcs, InCall
  <2> QED
    BY <2>2, <2>4, <2>5
<1>6. CASE LookupPanics(c)
  <2>1. /\ ccSession' = ccSession /\ ccLock # <<>> /\ Head(ccLock) = c /\ ccPc[c] = "lookup"
        /\ Same /\ ccResult' = ccResult /\ At(c, "panic") /\ Unlock
    BY <1>1, <1>6 DEF LookupPanics, Holds
  <2>2. CarriedInv' /\ (\A r \in Call : Todo(r)' => Todo(r)) /\ Distinct(ccSession'.todo) /\ ccSession' \in Sessions
        /\ (ccSession'.closed => ccSession'.answers = <<>>)
    BY <1>3, <2>1, SessionFacts DEF Todo
  <2> QED
    BY <1>1, <2>1, <2>2, MoveKeeps DEF Pcs, InCall
<1>7. CASE BeginClose(c)
  <2>1. /\ ccSession' = ccSession /\ ccPc[c] = "idle" /\ ccLock' = Append(ccLock, c) /\ ccCalls[c] > 0
        /\ Same /\ ccResult' = ccResult /\ At(c, "close")
    BY <1>1, <1>7 DEF BeginClose
  <2>2. ccCalls[c] >= 1
    BY <2>1, CallFacts
  <2>3. CarriedInv'
    <3>1. \A d \in Callers : Current(d)' = Current(d) /\ (Holds(d, "sending") => Holds(d, "sending")')
      BY <2>1, AppendFacts DEF Current, Holds, At, ClientInv, ClientTypeOK
    <3> QED
      BY <2>1, <3>1, CallFacts DEF ClientInv, CarriedInv, Todo
  <2>4. (\A r \in Call : Todo(r)' => Todo(r)) /\ Distinct(ccSession'.todo) /\ ccSession' \in Sessions
        /\ (ccSession'.closed => ccSession'.answers = <<>>)
    BY <2>1, SessionFacts DEF Todo
  <2> QED
    BY <1>1, <2>1, <2>2, <2>3, <2>4, MoveKeeps DEF Pcs, InCall
<1> QED
  BY <1>4, <1>5, <1>6, <1>7

(* send begins: its call is new to the server and to the session.          *)
LEMMA BeginSendKeeps ==
  ASSUME ClientInv, NEW c \in Callers, BeginSend(c)
  PROVE  ClientInv'
<1> DEFINE n == ccCalls[c] + 1
           new == <<c, n>>
<1>1. /\ ccPc[c] = "idle" /\ ccCalls[c] < MaxCalls /\ ccLock' = Append(ccLock, c) /\ At(c, "connect")
      /\ ccCalls' = [ccCalls EXCEPT ![c] = n] /\ ccTry' = [ccTry EXCEPT ![c] = 1]
      /\ ccResult' = [ccResult EXCEPT ![c] = Result("none", NoCall)]
      /\ UNCHANGED <<ccCodec, ccSession, ccLeft, ccRuns, ccExpired, ccCut, ccCuts>>
  BY DEF BeginSend
<1>2. /\ ccLock' \in Seq(Callers) /\ \A i, j \in DOMAIN ccLock' : ccLock'[i] = ccLock'[j] => i = j
      /\ ccPc' \in [Callers -> Pcs] /\ ccPc'[c] = "connect"
      /\ \A d \in Callers \ {c} : ccPc'[d] = ccPc[d]
      /\ \A d \in Callers : Queued(d)' <=> ccPc'[d] \in InCall
  BY <1>1, LockStep DEF Pcs, InCall
<1>3. /\ ccCalls \in [Callers -> 0..MaxCalls] /\ ccTry \in [Callers -> 1..2] /\ ccResult \in [Callers -> Results]
      /\ ccRuns \in [Call -> Nat] /\ ccLeft \in [Call -> 0..2]
  BY DEF ClientInv, ClientTypeOK
<1>4. n \in 1..MaxCalls /\ new \in Call /\ ccCalls[c] \in Nat
  BY <1>1, <1>3, ClientAssumption DEF Call
<1>5. /\ ccCalls' \in [Callers -> 0..MaxCalls] /\ ccCalls'[c] = n /\ ccTry' \in [Callers -> 1..2] /\ ccTry'[c] = 1
      /\ \A d \in Callers \ {c} : ccCalls'[d] = ccCalls[d] /\ ccTry'[d] = ccTry[d]
  BY <1>1, <1>3, <1>4
<1> HIDE DEF n
<1>6. ccResult' \in [Callers -> Results] /\ ccResult'[c].kind = "none"
      /\ \A d \in Callers \ {c} : ccResult'[d] = ccResult[d]
  BY <1>1, <1>3 DEF Result, Results
<1>7. ClientTypeOK'
  BY <1>1, <1>2, <1>5, <1>6 DEF ClientInv, ClientTypeOK
<1>8. MutexInv'
  <2>1. \A d \in Callers : ccPc'[d] \in InCall => ccCalls'[d] >= 1
    BY <1>2, <1>4, <1>5, SMTT(30) DEF ClientInv, MutexInv
  <2>2. \A d \in Callers : ccPc'[d] = "reset" => ccTry'[d] = 1
    BY <1>2, <1>5 DEF ClientInv, MutexInv
  <2> QED
    BY <1>2, <2>1, <2>2 DEF MutexInv
<1>9. Current(c)' = new /\ \A d \in Callers \ {c} : Current(d)' = Current(d)
  BY <1>5 DEF Current
<1>10. SessionInv'
  <2>1. Allowed(new) = 0
    BY <1>4 DEF Allowed, n
  <2>2. Copies(new) <= 0
    BY <1>4, <2>1 DEF ClientInv, CopiesInv
  <2>3. ~Todo(new)
    BY <1>3, <1>4, <2>2 DEF Copies
  <2> QED
    BY <1>1, <1>2, <1>9, <2>3 DEF ClientInv, SessionInv, Todo
<1>11. CarriedInv'
  <2>1. \A d \in Callers : Holds(d, "sending") => Holds(d, "sending")' /\ Current(d)' = Current(d)
    BY <1>1, <1>2, <1>9, AppendFacts, SMTT(30) DEF Holds, ClientInv, ClientTypeOK
  <2> QED
    BY <1>1, <2>1, CallFacts DEF ClientInv, CarriedInv, Todo
<1>12. CopiesInv'
  <2>1. ASSUME NEW r \in Call PROVE Allowed(r)' >= Allowed(r)
    <3>1. r[1] \in Callers /\ r[2] \in Nat /\ ccCalls[r[1]] \in Nat /\ ccTry[r[1]] \in 1..2
      BY <1>3, CallFacts
    <3>2. CASE r[1] # c
      BY <1>1, <1>2, <1>5, <3>1, <3>2 DEF Allowed, Attempts
    <3>3. CASE r[1] = c
      BY <1>1, <1>2, <1>5, <3>1, <3>3 DEF Allowed, Attempts, n
    <3> QED
      BY <3>2, <3>3
  <2>2. \A r \in Call : Todo(r)' => Todo(r)
    BY <1>1 DEF Todo
  <2> QED
    BY <1>1, <1>5, <2>1, <2>2, CopiesKept
<1>13. AnswerOwnOrExpired'
  BY <1>1, <1>6, <1>9 DEF ClientInv, AnswerOwnOrExpired
<1> QED
  BY <1>7, <1>8, <1>10, <1>11, <1>12, <1>13 DEF ClientInv

(* The request is written, to a session that does not have it.             *)
LEMMA WriteKeeps ==
  ASSUME ClientInv, NEW c \in Callers, WriteRequest(c)
  PROVE  ClientInv'
<1> DEFINE r0 == Current(c)
           todo == Append(ccSession.todo, r0)
<1>1. /\ ccLock # <<>> /\ Head(ccLock) = c /\ ccPc[c] = "lookup" /\ ~ccSession.closed /\ At(c, "sending")
      /\ ccSession' = [ccSession EXCEPT !.todo = todo]
      /\ UNCHANGED <<ccCodec, ccLock, ccCalls, ccTry, ccResult, ccLeft, ccRuns, ccExpired, ccCut, ccCuts>>
  BY DEF WriteRequest, Holds
<1>2. /\ ccLock' \in Seq(Callers) /\ \A i, j \in DOMAIN ccLock' : ccLock'[i] = ccLock'[j] => i = j
      /\ ccPc' \in [Callers -> Pcs] /\ ccPc'[c] = "sending"
      /\ \A d \in Callers \ {c} : ccPc'[d] = ccPc[d]
      /\ \A d \in Callers : Queued(d)' <=> ccPc'[d] \in InCall
  BY <1>1, LockStep DEF Pcs, InCall
<1>3. r0 \in Call /\ ~Todo(r0)
  BY <1>1, CallFacts DEF ClientInv, SessionInv, InCall
<1>4. /\ todo \in Seq(Call) /\ Distinct(todo) /\ Len(ccSession.todo) \in Nat /\ Len(todo) = Len(ccSession.todo) + 1
      /\ \A x : Has(todo, x) <=> Todo(x) \/ x = r0
  BY <1>3, SessionFacts, AppendFacts DEF Todo
<1> HIDE DEF todo
<1>5. /\ ccSession' \in Sessions /\ ccSession'.todo = todo /\ ccSession'.answers = ccSession.answers
      /\ ccSession'.closed = ccSession.closed
  BY <1>1, <1>4, SessionFacts DEF Sessions
<1>6. \A r : Todo(r)' <=> Todo(r) \/ r = r0
  BY <1>4, <1>5 DEF Todo
<1>7. \A d \in Callers : Current(d)' = Current(d)
  BY <1>1 DEF Current
<1>8. ClientTypeOK'
  BY <1>1, <1>2, <1>5 DEF ClientInv, ClientTypeOK
<1>9. MutexInv'
  BY <1>1, <1>2 DEF ClientInv, MutexInv, InCall
<1>10. SessionInv'
  <2>1. ASSUME NEW d \in Callers, ccPc'[d] \in {"connect", "lookup"} PROVE ~Todo(Current(d))'
    <3>1. d # c /\ ~Todo(Current(d)) /\ Current(d) # r0
      BY <1>2, <2>1, CallFacts DEF ClientInv, SessionInv
    <3> QED
      BY <1>4, <1>5, <1>7, <3>1 DEF Todo
  <2> QED
    BY <1>1, <1>4, <1>5, <2>1 DEF SessionInv
<1>11. CarriedInv'
  <2> SUFFICES ASSUME ccExpired = {}
               PROVE  /\ Len(ccSession'.todo) + Len(ccSession'.answers) <= 1
                      /\ \A r \in Call : Has(ccSession'.todo, r) \/ Has(ccSession'.answers, r)
                           => Holds(r[1], "sending")' /\ r = Current(r[1])'
    BY <1>1 DEF CarriedInv, Todo
  <2>1. ccSession.todo = <<>> /\ ccSession.answers = <<>>
    BY <1>1, FreeConnection
  <2>2. Len(ccSession.todo) = 0 /\ Len(ccSession.answers) = 0
    BY <2>1, EmptyFacts, Zenon
  <2>3. \A r : ~Has(ccSession.todo, r) /\ ~Has(ccSession.answers, r)
    BY <2>1, EmptyFacts, Zenon
  <2>4. Len(ccSession'.todo) + Len(ccSession'.answers) <= 1
    <3>1. Len(ccSession'.todo) = Len(todo) /\ Len(ccSession'.answers) = Len(ccSession.answers)
      BY <1>5, Zenon
    <3> QED
      BY <1>4, <2>2, <3>1
  <2>5. Holds(c, "sending")' /\ r0[1] = c
    BY <1>1, <1>2, CallFacts DEF Holds
  <2> QED
    BY <1>4, <1>5, <1>7, <2>3, <2>4, <2>5 DEF Todo
<1>12. CopiesInv'
  <2> SUFFICES ASSUME NEW r \in Call PROVE Copies(r)' <= Allowed(r)'
    BY DEF CopiesInv
  <2>1. /\ ccRuns \in [Call -> Nat] /\ ccLeft \in [Call -> 0..2]
        /\ ccTry \in [Callers -> 1..2] /\ ccCalls \in [Callers -> 0..MaxCalls]
    BY DEF ClientInv, ClientTypeOK
  <2>2. Copies(r) <= Allowed(r) /\ Allowed(r) \in 0..2 /\ Allowed(r)' \in 0..2 /\ Copies(r) \in Nat
    <3>1. Allowed(r) \in 0..2 /\ Allowed(r)' \in 0..2
      BY <1>1, <2>1, AllowedRange, AllowedRangeNext
    <3>2. Copies(r) \in Nat
      BY <2>1 DEF Copies
    <3> QED
      BY <3>1, <3>2 DEF ClientInv, CopiesInv
  <2>3. CASE r # r0
    <3>1. Allowed(r)' >= Allowed(r)
      BY <1>1, <1>2, AllowedKept
    <3>2. Copies(r)' = Copies(r)
      BY <1>1, <1>6, <2>3 DEF Copies
    <3> QED
      BY <2>2, <3>1, <3>2
  <2>4. CASE r = r0
    <3>1. r[1] = c /\ r[2] = ccCalls[c] /\ ccCalls[c] \in Nat /\ ccTry[c] \in 1..2
      BY <2>1, <2>4, CallFacts
    <3>2. Allowed(r) = Attempts(r) - 1 /\ Allowed(r)' = Attempts(r)
      BY <1>1, <1>2, <3>1 DEF Allowed, Attempts
    <3>3. Copies(r)' = Copies(r) + 1
      <4>1. ~Todo(r) /\ Todo(r)'
        BY <1>3, <1>6, <2>4
      <4>2. ccRuns' = ccRuns /\ ccLeft' = ccLeft
        BY <1>1, Zenon
      <4>3. ccRuns[r] \in Nat /\ ccLeft[r] \in Nat
        BY <2>1, SMTT(30)
      <4>4. Copies(r) = ccRuns[r] + ccLeft[r] /\ Copies(r)' = ccRuns[r] + ccLeft[r] + 1
        BY <4>1, <4>2, <4>3, SMTT(30) DEF Copies
      <4> QED
        BY <4>3, <4>4, SMTT(30)
    <3>4. Attempts(r) \in Int
      BY <3>1 DEF Attempts
    <3> QED
      BY <2>2, <3>2, <3>3, <3>4
  <2> QED
    BY <2>3, <2>4
<1>13. AnswerOwnOrExpired'
  BY <1>1, <1>7 DEF ClientInv, AnswerOwnOrExpired
<1> QED
  BY <1>8, <1>9, <1>10, <1>11, <1>12, <1>13 DEF ClientInv

(* The request timer.                                                      *)
LEMMA ExpiresKeeps ==
  ASSUME ClientInv, NEW c \in Callers, RequestExpires(c)
  PROVE  ClientInv'
<1>1. /\ ccLock # <<>> /\ Head(ccLock) = c /\ ccPc[c] = "sending" /\ At(c, "cancel")
      /\ ccExpired' = ccExpired \cup {Current(c)}
      /\ UNCHANGED <<ccCodec, ccLock, ccSession, ccCalls, ccTry, ccResult, ccLeft, ccRuns, ccCut, ccCuts>>
  BY DEF RequestExpires, Holds
<1>2. ccResult' \in [Callers -> Results] /\ ccCut \subseteq Call /\ ccCuts \in 0..MaxCuts
  BY <1>1 DEF ClientInv, ClientTypeOK
<1>3. ccSession' \in Sessions /\ Distinct(ccSession'.todo) /\ (ccSession'.closed => ccSession'.answers = <<>>)
  BY <1>1, SessionFacts
<1>4. CarriedInv'
  BY <1>1 DEF CarriedInv
<1>5. \A r \in Call : Todo(r)' => Todo(r)
  BY <1>1 DEF Todo
<1>6. ccExpired' \subseteq Call
  BY <1>1, CallFacts DEF ClientInv, ClientTypeOK, InCall
<1> QED
  BY <1>1, <1>2, <1>3, <1>4, <1>5, <1>6, MoveKeeps DEF Pcs, InCall

(* The cancel that follows it.                                             *)
LEMMA CancelKeeps ==
  ASSUME ClientInv, NEW c \in Callers, CancelSent(c)
  PROVE  ClientInv'
<1>1. /\ ccLock # <<>> /\ Head(ccLock) = c /\ ccPc[c] = "cancel" /\ EndWithError(c, "timeout")
      /\ UNCHANGED <<ccLeft, ccRuns, ccExpired, ccCut, ccCuts>>
  BY DEF CancelSent, Holds
<1>2. /\ UNCHANGED <<ccCodec, ccCalls, ccTry>> /\ ccResult' \in [Callers -> Results]
      /\ \A d \in Callers : ccResult'[d] = ccResult[d] \/ ccResult'[d].kind # "ok"
      /\ At(c, "idle") /\ Unlock
  BY <1>1, ErrorStep
<1>3. /\ ccSession' \in Sessions /\ Distinct(ccSession'.todo) /\ \A r : Has(ccSession'.todo, r) => Todo(r)
      /\ ccSession'.closed = ccSession.closed /\ ccSession'.answers = ccSession.answers
  <2>1. CASE ccSession' = ccSession
    BY <2>1, SessionFacts DEF Todo
  <2>2. CASE \E i \in DOMAIN ccSession.todo : ccSession' = [ccSession EXCEPT !.todo = Without(ccSession.todo, i)]
    <3>1. PICK i \in DOMAIN ccSession.todo : ccSession' = [ccSession EXCEPT !.todo = Without(ccSession.todo, i)]
      BY <2>2
    <3>2. /\ Without(ccSession.todo, i) \in Seq(Call) /\ Distinct(Without(ccSession.todo, i))
          /\ \A x : Has(Without(ccSession.todo, i), x) => Has(ccSession.todo, x)
      BY SessionFacts, WithoutFacts
    <3>3. /\ ccSession' \in Sessions /\ ccSession'.todo = Without(ccSession.todo, i)
          /\ ccSession'.closed = ccSession.closed /\ ccSession'.answers = ccSession.answers
      BY <3>1, <3>2, SessionFacts DEF Sessions
    <3> QED
      BY <3>2, <3>3 DEF Todo
  <2> QED
    BY <2>1, <2>2 DEF CancelSent
<1>4. CarriedInv'
  <2> SUFFICES ASSUME ccExpired' = {}, ~ccSession'.closed
               PROVE  ccSession'.todo = <<>> /\ ccSession'.answers = <<>>
    BY EmptyCarries
  <2>1. ccSession.todo = <<>> /\ ccSession.answers = <<>>
    BY <1>1, <1>3, FreeConnection
  <2>2. DOMAIN ccSession.todo = {}
    BY <2>1
  <2> QED
    BY <2>1, <2>2 DEF CancelSent
<1>5. \A r \in Call : Todo(r)' => Todo(r)
  BY <1>3 DEF Todo
<1>6. ccExpired' \subseteq Call /\ ccCut \subseteq Call /\ ccCuts \in 0..MaxCuts
  BY <1>1, CallFacts DEF ClientInv, ClientTypeOK, InCall
<1>7. ccSession'.closed => ccSession'.answers = <<>>
  BY <1>3, SessionFacts
<1> QED
  BY <1>1, <1>2, <1>3, <1>4, <1>5, <1>6, <1>7, MoveKeeps DEF Pcs, InCall

(* *session = None: what the session had of a call is left to the server.  *)
LEMMA DropFacts ==
  ASSUME ClientInv, DropSession
  PROVE  /\ ccSession' = NoSession /\ \A r : ~Todo(r)'
         /\ ccLeft' \in [Call -> Nat]
         /\ \A r \in Call : ccLeft'[r] = ccLeft[r] + (IF Todo(r) THEN 1 ELSE 0)
<1> DEFINE at(r) == {i \in DOMAIN ccSession.todo : ccSession.todo[i] = r}
<1>1. ccSession' = NoSession /\ ccLeft' = [r \in Call |-> ccLeft[r] + Cardinality(at(r))]
  BY DEF DropSession
<1>2. \A r : ~Todo(r)'
  BY <1>1, SessionFacts, EmptyFacts DEF Todo
<1>3. ASSUME NEW r \in Call PROVE Cardinality(at(r)) = IF Todo(r) THEN 1 ELSE 0
  <2>1. CASE Todo(r)
    <3>1. PICK i \in DOMAIN ccSession.todo : ccSession.todo[i] = r
      BY <2>1 DEF Todo, Has
    <3>2. at(r) = {i}
      BY <3>1, SessionFacts DEF Distinct
    <3> QED
      BY <2>1, <3>2, FS_Singleton
  <2>2. CASE ~Todo(r)
    <3>1. at(r) = {}
      BY <2>2 DEF Todo, Has
    <3> QED
      BY <2>2, <3>1, FS_EmptySet
  <2> QED
    BY <2>1, <2>2
<1> HIDE DEF at
<1>4. ccLeft \in [Call -> 0..2]
  BY DEF ClientInv, ClientTypeOK
<1>5. \A r \in Call : ccLeft'[r] = ccLeft[r] + (IF Todo(r) THEN 1 ELSE 0)
  BY <1>1, <1>3
<1>6. ccLeft' \in [Call -> Nat]
  BY <1>1, <1>3, <1>4
<1> QED
  BY <1>1, <1>2, <1>5, <1>6

(* The session is dropped, for the second attempt or by close.             *)
LEMMA DropKeeps ==
  ASSUME ClientInv, NEW c \in Callers, Reset(c) \/ Close(c)
  PROVE  ClientInv'
<1>1. /\ ccLock # <<>> /\ Head(ccLock) = c /\ DropSession
      /\ UNCHANGED <<ccCodec, ccCalls, ccResult, ccRuns, ccExpired, ccCut, ccCuts>>
      /\ \/ ccPc[c] = "reset" /\ At(c, "connect") /\ Relock(c) /\ ccTry' = [ccTry EXCEPT ![c] = 2]
         \/ ccPc[c] = "close" /\ At(c, "idle") /\ Unlock /\ ccTry' = ccTry
  BY DEF Reset, Close, Holds
<1>2. /\ ccLock' \in Seq(Callers) /\ \A i, j \in DOMAIN ccLock' : ccLock'[i] = ccLock'[j] => i = j
      /\ ccPc' \in [Callers -> Pcs] /\ (ccPc[c] = "reset" => ccPc'[c] = "connect") /\ (ccPc[c] = "close" => ccPc'[c] = "idle")
      /\ \A d \in Callers \ {c} : ccPc'[d] = ccPc[d]
      /\ \A d \in Callers : Queued(d)' <=> ccPc'[d] \in InCall
  <2>1. CASE ccPc[c] = "reset"
    BY <1>1, <2>1, LockStep DEF Pcs, InCall
  <2>2. CASE ccPc[c] = "close"
    BY <1>1, <2>2, LockStep DEF Pcs, InCall
  <2> QED
    BY <1>1, <2>1, <2>2
<1>3. /\ ccTry \in [Callers -> 1..2] /\ ccCalls \in [Callers -> 0..MaxCalls]
      /\ ccRuns \in [Call -> Nat] /\ ccLeft \in [Call -> 0..2]
  BY DEF ClientInv, ClientTypeOK
<1>4. /\ ccTry' \in [Callers -> 1..2] /\ (\A d \in Callers \ {c} : ccTry'[d] = ccTry[d])
      /\ (ccPc[c] = "reset" => ccTry'[c] = 2) /\ (ccPc[c] = "close" => ccTry'[c] = ccTry[c])
  BY <1>1, <1>3
<1>5. /\ ccSession' = NoSession /\ (\A r : ~Todo(r)') /\ ccLeft' \in [Call -> Nat]
      /\ \A r \in Call : ccLeft'[r] = ccLeft[r] + (IF Todo(r) THEN 1 ELSE 0)
  BY <1>1, DropFacts
<1>6. ASSUME NEW r \in Call PROVE Copies(r)' = Copies(r) /\ Copies(r)' <= Allowed(r)' /\ Allowed(r)' \in 0..2
  <2>1. Copies(r)' = Copies(r) /\ Copies(r) \in Nat
    <3>1. /\ ~Todo(r)' /\ ccRuns'[r] = ccRuns[r] /\ ccRuns[r] \in Nat /\ ccLeft[r] \in Nat
          /\ ccLeft'[r] = ccLeft[r] + (IF Todo(r) THEN 1 ELSE 0)
      BY <1>1, <1>3, <1>5
    <3> QED
      BY <3>1 DEF Copies
  <2>2. Copies(r) <= Allowed(r) /\ Allowed(r) \in 0..2 /\ Allowed(r)' \in 0..2
    <3>1. Allowed(r) \in 0..2 /\ Allowed(r)' \in 0..2
      BY <1>1, <1>3, <1>4, AllowedRange, AllowedRangeNext
    <3> QED
      BY <3>1 DEF ClientInv, CopiesInv
  <2>3. /\ r[1] \in Callers /\ r[2] \in Nat /\ ccCalls[r[1]] \in Nat /\ ccTry[r[1]] \in 1..2
    BY <1>3, CallFacts
  <2>4. Allowed(r)' >= Allowed(r)
    <3>1. CASE r[1] # c
      BY <1>1, <1>2, <1>4, <2>3, <3>1 DEF Allowed, Attempts
    <3>2. CASE r[1] = c
      BY <1>1, <1>2, <1>4, <2>3, <3>2 DEF Allowed, Attempts
    <3> QED
      BY <3>1, <3>2
  <2> QED
    BY <2>1, <2>2, <2>4
<1>7. CopiesInv'
  BY <1>6 DEF CopiesInv
<1>8. ccLeft' \in [Call -> 0..2]
  <2>1. ASSUME NEW r \in Call PROVE ccLeft'[r] \in 0..2
    <3>1. ccLeft'[r] \in Nat /\ ccRuns'[r] \in Nat
      BY <1>1, <1>3, <1>5
    <3>2. Copies(r)' = ccRuns'[r] + ccLeft'[r]
      BY <1>5, <3>1 DEF Copies
    <3> QED
      BY <1>6, <3>1, <3>2
  <2> QED
    BY <1>5, <2>1
<1>9. ClientTypeOK'
  BY <1>1, <1>2, <1>4, <1>5, <1>8, SessionFacts DEF ClientInv, ClientTypeOK
<1>10. MutexInv'
  <2>1. \A d \in Callers : ccPc'[d] \in InCall => ccCalls'[d] >= 1
    BY <1>1, <1>2 DEF ClientInv, MutexInv, InCall
  <2>2. \A d \in Callers : ccPc'[d] = "reset" => ccTry'[d] = 1
    BY <1>1, <1>2, <1>4 DEF ClientInv, MutexInv
  <2> QED
    BY <1>2, <2>1, <2>2 DEF MutexInv
<1>11. SessionInv'
  BY <1>5, SessionFacts, EmptyFacts DEF SessionInv, Todo
<1>12. CarriedInv'
  BY <1>5, SessionFacts, EmptyCarries
<1>13. AnswerOwnOrExpired'
  BY <1>1 DEF ClientInv, AnswerOwnOrExpired, Current
<1> QED
  BY <1>7, <1>9, <1>10, <1>11, <1>12, <1>13 DEF ClientInv

(* The server executes a request of the session, or of one dropped since.  *)
LEMMA ExecuteKeeps ==
  ASSUME ClientInv, Execute \/ (\E r \in Call : ExecuteLeft(r))
  PROVE  ClientInv'
<1>1. UNCHANGED <<ccCodec, ccLock, ccPc, ccCalls, ccTry, ccResult, ccExpired, ccCut, ccCuts>>
  BY DEF Execute, ExecuteLeft
<1>2. /\ ccRuns \in [Call -> Nat] /\ ccLeft \in [Call -> 0..2]
  BY DEF ClientInv, ClientTypeOK
<1>3. \A r : Allowed(r)' = Allowed(r)
  BY <1>1 DEF Allowed, Attempts
<1>4. MutexInv' /\ AnswerOwnOrExpired'
  BY <1>1 DEF ClientInv, MutexInv, Queued, AnswerOwnOrExpired, Current
<1>5. CASE \E r \in Call : ExecuteLeft(r)
  <2>1. PICK r \in Call : /\ ccLeft[r] > 0 /\ ccRuns' = [ccRuns EXCEPT ![r] = @ + 1] /\ ccSession' = ccSession
                          /\ ccLeft' = [ccLeft EXCEPT ![r] = @ - 1]
    BY <1>5 DEF ExecuteLeft
  <2>2. ccRuns' \in [Call -> Nat] /\ ccLeft' \in [Call -> 0..2]
    BY <1>2, <2>1
  <2>3. ClientTypeOK'
    BY <1>1, <2>1, <2>2 DEF ClientInv, ClientTypeOK
  <2>4. SessionInv' /\ CarriedInv'
    BY <1>1, <2>1 DEF ClientInv, SessionInv, CarriedInv, Todo, Current, Holds
  <2>5. CopiesInv'
    <3> SUFFICES ASSUME NEW x \in Call PROVE Copies(x)' <= Allowed(x)'
      BY DEF CopiesInv
    <3>1. Copies(x)' = Copies(x)
      BY <1>2, <2>1 DEF Copies, Todo
    <3> QED
      BY <1>3, <3>1 DEF ClientInv, CopiesInv
  <2> QED
    BY <1>4, <2>3, <2>4, <2>5 DEF ClientInv
<1>6. CASE Execute
  <2> DEFINE r == Head(ccSession.todo)
             todo == Tail(ccSession.todo)
             answers == IF ccSession.closed THEN ccSession.answers ELSE Append(ccSession.answers, r)
  <2>1. /\ ccSession.todo # <<>> /\ ccRuns' = [ccRuns EXCEPT ![r] = @ + 1] /\ ccLeft' = ccLeft
        /\ ccSession' = [ccSession EXCEPT !.todo = todo, !.answers = answers]
    BY <1>6 DEF Execute
  <2>2. /\ r \in Call /\ todo \in Seq(Call) /\ Distinct(todo) /\ ~Has(todo, r)
        /\ \A x : Todo(x) <=> Has(todo, x) \/ x = r
        /\ Len(ccSession.todo) \in Nat /\ Len(todo) = Len(ccSession.todo) - 1
    BY <2>1, SessionFacts, TailFacts DEF Todo
  <2> HIDE DEF r, todo
  <2>3. /\ answers \in Seq(Call) /\ Len(ccSession.answers) \in Nat
        /\ ~ccSession.closed => /\ Len(answers) = Len(ccSession.answers) + 1
                                /\ \A x : Has(answers, x) <=> Has(ccSession.answers, x) \/ x = r
        /\ ccSession.closed => answers = <<>>
    BY <2>2, SessionFacts, AppendFacts
  <2> HIDE DEF answers
  <2>4. /\ ccSession' \in Sessions /\ ccSession'.todo = todo /\ ccSession'.answers = answers
        /\ ccSession'.closed = ccSession.closed
    BY <2>1, <2>2, <2>3, SessionFacts DEF Sessions
  <2>5. ccRuns' \in [Call -> Nat]
    BY <1>2, <2>1, <2>2
  <2>6. ClientTypeOK'
    BY <1>1, <2>1, <2>4, <2>5 DEF ClientInv, ClientTypeOK
  <2>7. \A x : Todo(x)' <=> Todo(x) /\ x # r
    BY <2>2, <2>4 DEF Todo
  <2>8. \A d \in Callers : Current(d)' = Current(d) /\ (Holds(d, "sending")' <=> Holds(d, "sending"))
    BY <1>1 DEF Current, Holds
  <2>9. SessionInv'
    <3>1. \A d \in Callers : ccPc'[d] \in {"connect", "lookup"} => ~Has(todo, Current(d))
      BY <1>1, <2>2 DEF ClientInv, SessionInv
    <3> QED
      BY <2>2, <2>3, <2>4, <2>8, <3>1 DEF SessionInv, Todo
  <2>10. CarriedInv'
    <3> SUFFICES ASSUME ccExpired = {}, ~ccSession.closed
                 PROVE  /\ Len(todo) + Len(answers) <= 1
                        /\ \A x \in Call : Has(todo, x) \/ Has(answers, x)
                             => Holds(x[1], "sending")' /\ x = Current(x[1])'
      BY <1>1, <2>4 DEF CarriedInv, Todo
    <3>1. Len(todo) + Len(answers) <= 1
      <4>1. Len(ccSession.todo) + Len(ccSession.answers) <= 1
        BY DEF ClientInv, CarriedInv
      <4>2. /\ Len(todo) = Len(ccSession.todo) - 1 /\ Len(answers) = Len(ccSession.answers) + 1
            /\ Len(ccSession.todo) \in Nat /\ Len(ccSession.answers) \in Nat
        BY <2>2, <2>3
      <4>3. (Len(ccSession.todo) - 1) + (Len(ccSession.answers) + 1) <= 1
        BY <4>1, <4>2, MovedOne, Zenon
      <4> QED
        BY <4>2, <4>3, Zenon
    <3>2. ASSUME NEW x \in Call, Has(todo, x) \/ Has(answers, x)
          PROVE  Holds(x[1], "sending") /\ x = Current(x[1]) /\ x[1] \in Callers
      BY <2>2, <2>3, <3>2, CallFacts DEF ClientInv, CarriedInv
    <3> QED
      BY <2>8, <3>1, <3>2
  <2>11. CopiesInv'
    <3> SUFFICES ASSUME NEW x \in Call PROVE Copies(x)' <= Allowed(x)'
      BY DEF CopiesInv
    <3>1. CASE x = r
      <4>1. ccRuns'[x] = ccRuns[x] + 1 /\ ccLeft'[x] = ccLeft[x] /\ Todo(x) /\ ~Todo(x)'
        BY <1>2, <2>1, <2>2, <2>7, <3>1
      <4>2. Copies(x)' = Copies(x)
        BY <1>2, <4>1 DEF Copies
      <4> QED
        BY <1>3, <4>2 DEF ClientInv, CopiesInv
    <3>2. CASE x # r
      <4>1. ccRuns'[x] = ccRuns[x] /\ ccLeft'[x] = ccLeft[x] /\ (Todo(x)' <=> Todo(x))
        BY <1>2, <2>1, <2>7, <3>2
      <4>2. Copies(x)' = Copies(x)
        BY <4>1 DEF Copies
      <4> QED
        BY <1>3, <4>2 DEF ClientInv, CopiesInv
    <3> QED
      BY <3>1, <3>2
  <2> QED
    BY <1>4, <2>6, <2>9, <2>10, <2>11 DEF ClientInv
<1> QED
  BY <1>5, <1>6

(* An answer is paired with the owner of the mutex: by its id, or as the   *)
(* oldest one.                                                             *)
LEMMA AnswerKeeps ==
  ASSUME ClientInv, NEW c \in Callers, ReadAnswer(c)
  PROVE  ClientInv'
<1> DEFINE answer == Head(ccSession.answers)
           rest == Tail(ccSession.answers)
<1>1. /\ ccSession.answers # <<>> /\ ccLock # <<>> /\ Head(ccLock) = c /\ ccPc[c] = "sending"
      /\ ccCodec = "jsonl" \/ answer = Current(c)
      /\ ccSession' = [ccSession EXCEPT !.answers = rest]
      /\ ccResult' = [ccResult EXCEPT ![c] = Result("ok", answer)] /\ Unlock /\ At(c, "idle")
      /\ UNCHANGED <<ccCodec, ccCalls, ccTry, ccLeft, ccRuns, ccExpired, ccCut, ccCuts>>
  BY DEF ReadAnswer, Paired, Holds, Deliver
<1>2. /\ answer \in Call /\ rest \in Seq(Call) /\ Has(ccSession.answers, answer)
      /\ Len(ccSession.answers) \in Nat /\ Len(ccSession.answers) >= 1 /\ Len(rest) = Len(ccSession.answers) - 1
  BY <1>1, SessionFacts, TailFacts
<1> HIDE DEF answer, rest
<1>3. /\ ccSession' \in Sessions /\ ccSession'.todo = ccSession.todo /\ ccSession'.answers = rest
      /\ ccSession'.closed = ccSession.closed /\ ~ccSession.closed
  BY <1>1, <1>2, SessionFacts DEF Sessions
<1>4. ccExpired = {} => answer = Current(c)
  <2>1. ccExpired = {} => Holds(answer[1], "sending") /\ answer = Current(answer[1])
    BY <1>2, <1>3 DEF ClientInv, CarriedInv
  <2> QED
    BY <1>1, <2>1 DEF Holds
<1>5. ccExpired = {} => ccSession'.todo = <<>> /\ ccSession'.answers = <<>>
  <2> SUFFICES ASSUME ccExpired = {} PROVE ccSession'.todo = <<>> /\ ccSession'.answers = <<>>
    OBVIOUS
  <2>1. Len(ccSession.todo) + Len(ccSession.answers) <= 1
    BY <1>3 DEF ClientInv, CarriedInv
  <2>2. ccSession.todo \in Seq(Call) /\ Len(ccSession.todo) \in Nat
    BY SessionFacts
  <2>3. Len(ccSession.todo) = 0 /\ Len(rest) = 0
    <3>1. /\ Len(ccSession.answers) \in Nat /\ Len(ccSession.answers) >= 1
          /\ Len(rest) = Len(ccSession.answers) - 1 /\ Len(ccSession.todo) \in Nat
      BY <1>2, <2>2
    <3>2. Len(ccSession.todo) = 0 /\ Len(ccSession.answers) - 1 = 0
      BY <2>1, <3>1, MovedOne, Zenon
    <3> QED
      BY <3>1, <3>2, Zenon
  <2>4. \A q \in Seq(Call) : Len(q) = 0 => q = <<>>
    OBVIOUS
  <2> QED
    BY <1>2, <1>3, <2>2, <2>3, <2>4
<1>6. CarriedInv'
  BY <1>1, <1>5, EmptyCarries
<1>7. Result("ok", answer) \in Results /\ Result("ok", answer).of = answer
  BY <1>2 DEF Result, Results
<1>8. /\ ccResult' \in [Callers -> Results] /\ ccResult'[c].of = answer
      /\ \A d \in Callers \ {c} : ccResult'[d] = ccResult[d]
  BY <1>1, <1>7 DEF ClientInv, ClientTypeOK
<1>9. /\ Distinct(ccSession'.todo) /\ (\A r \in Call : Todo(r)' => Todo(r))
      /\ (ccSession'.closed => ccSession'.answers = <<>>)
  BY <1>3, SessionFacts DEF Todo
<1>10. ccExpired \subseteq Call /\ ccCut \subseteq Call /\ ccCuts \in 0..MaxCuts
  BY DEF ClientInv, ClientTypeOK
<1>11. \A d \in Callers : \/ ccResult'[d] = ccResult[d] \/ ccResult'[d].kind # "ok"
                          \/ ccResult'[d].of = Current(d) \/ (ccCodec = "jsonl" /\ ccExpired # {})
  BY <1>1, <1>4, <1>8
<1> QED
  BY <1>1, <1>3, <1>6, <1>8, <1>9, <1>10, <1>11, MoveKeeps DEF Pcs, InCall

(* The reader ends: with an answer nobody is paired with, or because the   *)
(* connection broke.                                                       *)
LEMMA ClosedKeeps ==
  ASSUME ClientInv, LateAnswer \/ Disconnect
  PROVE  ClientInv'
<1> DEFINE c == Head(ccLock)
           Sending == \E d \in Callers : Holds(d, "sending")
<1>1. /\ \E todo \in {ccSession.todo, <<>>} :
           ccSession' = [ccSession EXCEPT !.closed = TRUE, !.answers = <<>>, !.todo = todo]
      /\ UNCHANGED <<ccLeft, ccRuns, ccExpired>> /\ ccCuts' \in 0..MaxCuts
  <2>1. ccCuts \in 0..MaxCuts
    BY DEF ClientInv, ClientTypeOK
  <2>2. CASE LateAnswer
    <3>1. ccSession' = [ccSession EXCEPT !.closed = TRUE, !.answers = <<>>]
      BY <2>2 DEF LateAnswer
    <3>2. ccSession' = [ccSession EXCEPT !.closed = TRUE, !.answers = <<>>, !.todo = ccSession.todo]
      BY <3>1, SessionFacts DEF Sessions
    <3> QED
      BY <2>1, <2>2, <3>2 DEF LateAnswer
  <2>3. CASE Disconnect
    <3>1. ccCuts < MaxCuts /\ ccCuts' = ccCuts + 1
      BY <2>3 DEF Disconnect
    <3>2. ccCuts' \in 0..MaxCuts
      BY <2>1, <3>1, ClientAssumption
    <3> QED
      BY <2>3, <3>2 DEF Disconnect
  <2> QED
    BY <2>2, <2>3
<1>2. /\ ccSession' \in Sessions /\ ccSession'.closed = TRUE /\ ccSession'.answers = <<>>
      /\ Distinct(ccSession'.todo) /\ \A r : Has(ccSession'.todo, r) => Todo(r)
  <2>1. PICK todo \in {ccSession.todo, <<>>} :
          ccSession' = [ccSession EXCEPT !.closed = TRUE, !.answers = <<>>, !.todo = todo]
    BY <1>1
  <2>2. todo \in Seq(Call) /\ Distinct(todo) /\ \A r : Has(todo, r) => Todo(r)
    BY SessionFacts, EmptyFacts DEF Todo
  <2>3. ccSession' \in Sessions /\ ccSession'.closed = TRUE /\ ccSession'.answers = <<>> /\ ccSession'.todo = todo
    BY <2>1, <2>2, SessionFacts, EmptyFacts DEF Sessions
  <2> QED
    BY <2>2, <2>3
<1>3. CarriedInv' /\ (\A r \in Call : Todo(r)' => Todo(r)) /\ (ccSession'.closed => ccSession'.answers = <<>>)
  BY <1>2 DEF CarriedInv, Todo
<1>4. ccExpired \subseteq Call /\ ccCut \subseteq Call /\ ccResult \in [Callers -> Results]
  BY DEF ClientInv, ClientTypeOK
<1>5. CASE Sending
  <2>1. ccLock # <<>> /\ c \in Callers /\ ccPc[c] = "sending" /\ Current(c) \in Call
    BY <1>5, OwnerFacts, CallFacts DEF Holds, InCall
  <2>2. PICK kind \in {"disconnect", "protocol"} :
          /\ EndWithError(c, kind) /\ ccCut \subseteq ccCut' /\ ccCut' \subseteq Call
          /\ kind = "disconnect" => Current(c) \in ccCut'
    <3>1. CASE LateAnswer
      BY <1>4, <1>5, <3>1 DEF LateAnswer
    <3>2. CASE Disconnect
      BY <1>4, <1>5, <2>1, <3>2 DEF Disconnect
    <3> QED
      BY <3>1, <3>2
  <2>3. /\ UNCHANGED <<ccCodec, ccCalls, ccTry>> /\ ccResult' \in [Callers -> Results]
        /\ \A d \in Callers : ccResult'[d] = ccResult[d] \/ ccResult'[d].kind # "ok"
        /\ \/ At(c, "reset") /\ Relock(c) /\ ccTry[c] = 1 /\ kind = "disconnect"
           \/ At(c, "idle") /\ Unlock
    BY <2>1, <2>2, ErrorStep
  <2> HIDE DEF c
  <2>4. Head(ccLock) = c
    BY DEF c
  <2>5. CASE At(c, "reset") /\ Relock(c) /\ ccTry[c] = 1 /\ kind = "disconnect"
    BY <1>1, <1>2, <1>3, <1>4, <2>1, <2>2, <2>3, <2>4, <2>5, MoveKeeps DEF Pcs, InCall
  <2>6. CASE At(c, "idle") /\ Unlock
    BY <1>1, <1>2, <1>3, <1>4, <2>1, <2>2, <2>3, <2>4, <2>6, MoveKeeps DEF Pcs, InCall
  <2> QED
    BY <2>3, <2>5, <2>6
<1>6. CASE ~Sending
  <2>1. UNCHANGED <<ccCodec, ccLock, ccPc, ccCalls, ccTry, ccResult, ccCut>>
    BY <1>6 DEF LateAnswer, Disconnect
  <2>2. ClientTypeOK'
    BY <1>1, <1>2, <2>1 DEF ClientInv, ClientTypeOK
  <2>3. MutexInv' /\ AnswerOwnOrExpired'
    BY <1>1, <2>1 DEF ClientInv, MutexInv, Queued, AnswerOwnOrExpired, Current
  <2>4. \A d \in Callers : Current(d)' = Current(d) /\ (ccPc'[d] \in {"connect", "lookup"} => ~Todo(Current(d)))
    BY <2>1 DEF Current, ClientInv, SessionInv
  <2>5. SessionInv'
    BY <1>2, <2>4 DEF SessionInv, Todo
  <2>6. CopiesInv'
    <3>1. \A r \in Call : Allowed(r)' = Allowed(r) /\ Allowed(r) \in Int
      <4>1. ccTry \in [Callers -> 1..2] /\ ccCalls \in [Callers -> 0..MaxCalls]
        BY DEF ClientInv, ClientTypeOK
      <4>2. \A r \in Call : Allowed(r) \in 0..2
        BY <4>1, AllowedRange
      <4> QED
        BY <2>1, <4>2 DEF Allowed, Attempts
    <3>2. \A r \in Call : Allowed(r)' >= Allowed(r)
      BY <3>1
    <3>3. ccTry' \in [Callers -> 1..2] /\ ccCalls' \in [Callers -> 0..MaxCalls]
      BY <2>2 DEF ClientTypeOK
    <3> QED
      BY <1>1, <1>3, <3>2, <3>3, CopiesKept
  <2> QED
    BY <1>3, <2>2, <2>3, <2>5, <2>6 DEF ClientInv
<1> QED
  BY <1>5, <1>6

-----------------------------------------------------------------------------
(* Every step keeps ClientInv. *)
LEMMA ClientInvStep == ClientInv /\ [ClientNext]_ccVars => ClientInv'
<1> SUFFICES ASSUME ClientInv, [ClientNext]_ccVars PROVE ClientInv'
  OBVIOUS
<1>1. CASE ClientNext
  BY <1>1, BeginSendKeeps, UnwrittenKeeps, WriteKeeps, ExpiresKeeps, CancelKeeps, DropKeeps, ExecuteKeeps, AnswerKeeps,
     ClosedKeeps DEF ClientNext, ClientStep
<1>2. CASE UNCHANGED ccVars
  <2>1. ClientTypeOK' /\ MutexInv' /\ SessionInv'
    BY <1>2 DEF ccVars, ClientInv, ClientTypeOK, MutexInv, Queued, SessionInv, Todo, Current
  <2>2. CarriedInv' /\ CopiesInv' /\ AnswerOwnOrExpired'
    BY <1>2 DEF ccVars, ClientInv, CarriedInv, Todo, Holds, Current, CopiesInv, Copies, Allowed, Attempts,
         AnswerOwnOrExpired
  <2> QED
    BY <2>1, <2>2 DEF ClientInv
<1> QED
  BY <1>1, <1>2

(* The initial states satisfy ClientInv. *)
LEMMA ClientInvInit == ClientInit => ClientInv
<1> SUFFICES ASSUME ClientInit PROVE ClientInv
  OBVIOUS
<1> USE DEF ClientInit
<1>1. /\ NoSession \in Sessions /\ NoSession.todo = <<>> /\ NoSession.answers = <<>>
  BY EmptyFacts DEF Session, NoSession, Sessions
<1>2. /\ ccSession \in Sessions /\ ccSession.todo = <<>> /\ ccSession.answers = <<>>
  BY <1>1
<1>3. Len(ccSession.todo) = 0 /\ Len(ccSession.answers) = 0
  BY <1>2, EmptyFacts, Zenon
<1>4. (\A r : ~Todo(r) /\ ~Has(ccSession.answers, r)) /\ Distinct(ccSession.todo)
  BY <1>2, EmptyFacts, Zenon DEF Todo
<1>5. \A c : ~Queued(c)
  BY EmptyFacts DEF Queued
<1>6. ClientTypeOK
  <2>1. ccLock \in Seq(Callers) /\ \A i, j \in DOMAIN ccLock : ccLock[i] = ccLock[j] => i = j
    BY EmptyFacts DEF Distinct
  <2>2. ccResult \in [Callers -> Results]
    BY DEF Result, Results
  <2>3. /\ ccPc \in [Callers -> Pcs] /\ ccCalls \in [Callers -> 0..MaxCalls] /\ ccTry \in [Callers -> 1..2]
        /\ ccLeft \in [Call -> 0..2] /\ ccRuns \in [Call -> Nat] /\ ccCuts \in 0..MaxCuts
    BY ClientAssumption DEF Pcs
  <2> QED
    BY <1>2, <2>1, <2>2, <2>3 DEF ClientTypeOK
<1>7. MutexInv /\ AnswerOwnOrExpired
  BY <1>5 DEF MutexInv, InCall, AnswerOwnOrExpired, Result
<1>8. SessionInv
  BY <1>2, <1>4 DEF SessionInv
<1>9. CarriedInv
  BY <1>3, <1>4 DEF CarriedInv
<1>10. CopiesInv
  <2> SUFFICES ASSUME NEW r \in Call PROVE Copies(r) <= Allowed(r)
    BY DEF CopiesInv
  <2>1. r[1] \in Callers /\ r[2] \in 1..MaxCalls
    BY DEF Call
  <2>2. Allowed(r) = 0
    BY <2>1, ClientAssumption DEF Allowed
  <2>3. Copies(r) = 0
    BY <1>4 DEF Copies
  <2> QED
    BY <2>2, <2>3
<1> QED
  BY <1>6, <1>7, <1>8, <1>9, <1>10 DEF ClientInv

(* ClientInv is an invariant of the specification. *)
LEMMA ClientInvHolds == ClientSpec => []ClientInv
  BY ClientInvInit, ClientInvStep, PTL DEF ClientSpec

(* Type correctness of the reconnecting client: nobody waits twice for the *)
(* mutex, which hands itself on in the order of the lock() calls, and a    *)
(* dropped connection leaves at most two copies of a call.                 *)
THEOREM ClientTypeCorrect == ClientSpec => []ClientTypeOK
<1>1. ClientInv => ClientTypeOK
  BY DEF ClientInv
<1> QED
  BY <1>1, ClientInvHolds, PTL

(* For any number of clones and of broken connections, the server executes *)
(* a call at most twice, and twice only when its first session broke       *)
(* before it was answered (send, is_disconnect).                           *)
THEOREM RetryCorrect == ClientSpec => []RetryBounded
<1>1. ClientInv => RetryBounded
  <2> SUFFICES ASSUME ClientInv, NEW r \in Call PROVE ccRuns[r] <= 2 /\ (ccRuns[r] = 2 => r \in ccCut)
    BY DEF RetryBounded
  <2>1. /\ ccRuns \in [Call -> Nat] /\ ccLeft \in [Call -> 0..2]
        /\ ccTry \in [Callers -> 1..2] /\ ccCalls \in [Callers -> 0..MaxCalls]
    BY DEF ClientInv, ClientTypeOK
  <2>2. Allowed(r) \in 0..2 /\ (r \notin ccCut => Allowed(r) <= 1)
    BY <2>1, AllowedRange
  <2>3. Copies(r) <= Allowed(r)
    BY DEF ClientInv, CopiesInv
  <2>4. Copies(r) \in Nat /\ ccRuns[r] \in Nat /\ ccRuns[r] <= Copies(r)
    BY <2>1 DEF Copies
  <2> QED
    BY <2>2, <2>3, <2>4
<1> QED
  BY <1>1, ClientInvHolds, PTL

(* A caller gets the answer to its own call; with lines for frames, only   *)
(* as long as no call has timed out (read_binary_loop, read_jsonl_loop).   *)
THEOREM AnswerCorrect == ClientSpec => []AnswerOwnOrExpired
<1>1. ClientInv => AnswerOwnOrExpired
  BY DEF ClientInv
<1> QED
  BY <1>1, ClientInvHolds, PTL

-----------------------------------------------------------------------------
(***************************************************************************)
(* The client implements RetryRpc.                                         *)
(***************************************************************************)
(* An answer, read or not, is that of an executed call.                    *)
AnsweredInv ==
  /\ \A r \in Call : Has(ccSession.answers, r) => ccRuns[r] >= 1
  /\ \A c \in Callers : ccResult[c].kind = "ok" => ccResult[c].of \in Call /\ ccRuns[ccResult[c].of] >= 1

RetryInv == ClientInv /\ AnsweredInv

(* The callers between the begin of send and its return.                   *)
Open == {c \in Callers : ccPc[c] \notin {"idle", "close"}}

(* A caller that moves within its call, or within close, opens no call and *)
(* ends none.                                                              *)
LEMMA OpenKept ==
  ASSUME ClientInv, NEW c \in Callers, NEW pc \in Pcs, At(c, pc)
  PROVE  /\ ccPc[c] \notin {"idle", "close"} /\ pc \notin {"idle", "close"} => Open' = Open
         /\ ccPc[c] \in {"idle", "close"} /\ pc \in {"idle", "close"} => Open' = Open
         /\ ccPc[c] = "idle" /\ pc = "connect" => c \notin Open /\ Open' = Open \cup {c}
         /\ ccPc[c] \notin {"idle", "close"} /\ pc = "idle" => c \in Open /\ Open' = Open \ {c}
<1>1. ccPc \in [Callers -> Pcs] /\ ccPc' = [ccPc EXCEPT ![c] = pc]
  BY DEF ClientInv, ClientTypeOK, At
<1>2. \A d \in Callers : ccPc'[d] = IF d = c THEN pc ELSE ccPc[d]
  BY <1>1
<1> QED
  BY <1>2 DEF Open

(* Steps that neither execute, begin nor return.                           *)
LEMMA Stutters ==
  ASSUME Open' = Open, UNCHANGED <<ccCodec, ccCalls, ccResult, ccRuns>>
  PROVE  [Retry!Next]_(Retry!retryVars)
  BY DEF Open, Retry!retryVars

(* An attempt that fails is repeated unseen or returns its error.          *)
LEMMA ErrorRefines ==
  ASSUME ClientInv, NEW c \in Callers, ccPc[c] \notin {"idle", "close"},
         NEW kind \in {"disconnect", "timeout", "protocol"}, EndWithError(c, kind), UNCHANGED ccRuns
  PROVE  [Retry!Next]_(Retry!retryVars)
<1>1. CASE kind = "disconnect" /\ ccTry[c] = 1
  <2>1. At(c, "reset") /\ UNCHANGED <<ccCodec, ccCalls, ccResult>>
    BY <1>1 DEF EndWithError
  <2>2. Open' = Open
    BY <2>1, OpenKept DEF Pcs
  <2> QED
    BY <2>1, <2>2, Stutters
<1>2. CASE ~(kind = "disconnect" /\ ccTry[c] = 1)
  <2> DEFINE o == Result(kind, NoCall)
  <2>1. At(c, "idle") /\ UNCHANGED <<ccCodec, ccCalls>> /\ ccResult' = [ccResult EXCEPT ![c] = o]
    BY <1>2 DEF EndWithError
  <2>2. c \in Open /\ Open' = Open \ {c}
    BY <2>1, OpenKept DEF Pcs
  <2>3. o \in Retry!Failures /\ o \notin Retry!Answers
    BY DEF Result, NoCall, Retry!Failures, Retry!Answers
  <2>4. Retry!Return(c, o)
    BY <2>1, <2>2, <2>3 DEF Open, Retry!Return
  <2> QED
    BY <2>3, <2>4 DEF Retry!Next
<1> QED
  BY <1>1, <1>2

(* The server executes a call that was made, and for the second time at    *)
(* most.                                                                   *)
LEMMA RunRefines ==
  ASSUME ClientInv, NEW r \in Call, Todo(r) \/ ccLeft[r] > 0, ccRuns' = [ccRuns EXCEPT ![r] = @ + 1],
         UNCHANGED <<ccCodec, ccCalls, ccPc, ccResult>>
  PROVE  [Retry!Next]_(Retry!retryVars)
<1>1. /\ ccRuns \in [Call -> Nat] /\ ccLeft \in [Call -> 0..2]
      /\ ccTry \in [Callers -> 1..2] /\ ccCalls \in [Callers -> 0..MaxCalls]
  BY DEF ClientInv, ClientTypeOK
<1>2. Copies(r) <= Allowed(r) /\ Allowed(r) \in 0..2
  BY <1>1, AllowedRange DEF ClientInv, CopiesInv
<1>3. ccRuns[r] + 1 <= Copies(r) /\ Copies(r) \in Nat /\ ccRuns[r] \in Nat
  BY <1>1 DEF Copies
<1>4. ccRuns[r] < 2
  BY <1>2, <1>3
<1>5. r[2] <= ccCalls[r[1]]
  <2>1. r[2] \in Nat /\ ccCalls[r[1]] \in Nat
    BY <1>1, ClientAssumption DEF Call
  <2>2. ~(r[2] > ccCalls[r[1]])
    BY <1>2, <1>3 DEF Allowed
  <2> QED
    BY <2>1, <2>2
<1>6. r \in Retry!Call
  BY DEF Call, Retry!Call
<1>7. Retry!Run(r)
  BY <1>4, <1>5 DEF Retry!Run
<1> QED
  BY <1>6, <1>7 DEF Retry!Next

(* A call that returns an answer.                                          *)
LEMMA AnswerRefines ==
  ASSUME RetryInv, NEW c \in Callers, ReadAnswer(c)
  PROVE  [Retry!Next]_(Retry!retryVars)
<1> DEFINE answer == Head(ccSession.answers)
<1>1. answer \in Call /\ Has(ccSession.answers, answer)
  BY SessionFacts, TailFacts DEF RetryInv, ReadAnswer
<1>2. ccRuns[answer] >= 1 /\ (ccCodec = "binary" => answer = Current(c))
  BY <1>1 DEF RetryInv, AnsweredInv, ReadAnswer, Paired
<1>3. c \in Open /\ Open' = Open \ {c}
  BY OpenKept DEF RetryInv, ReadAnswer, Deliver, Paired, Holds, Pcs
<1>4. PICK o \in Retry!Answers : o = Result("ok", answer) /\ o.of = answer
  <2>1. Result("ok", answer) \in Retry!Answers /\ Result("ok", answer).of = answer
    BY <1>1 DEF Result, Retry!Answers, Call, Retry!Call
  <2> QED
    BY <2>1
<1>5. Retry!Return(c, o)
  BY <1>2, <1>3, <1>4 DEF Open, Retry!Return, ReadAnswer, Deliver, Current
<1> QED
  BY <1>5 DEF Retry!Next

(* Every step of the client is a step of RetryRpc or none.                 *)
LEMMA RetryRefines == RetryInv /\ [ClientNext]_ccVars => [Retry!Next]_(Retry!retryVars)
<1> SUFFICES ASSUME RetryInv, [ClientNext]_ccVars PROVE [Retry!Next]_(Retry!retryVars)
  OBVIOUS
<1>1. ClientInv
  BY DEF RetryInv
<1>2. ASSUME NEW c \in Callers, BeginSend(c) PROVE [Retry!Next]_(Retry!retryVars)
  <2>1. c \notin Open /\ Open' = Open \cup {c}
    BY <1>1, <1>2, OpenKept DEF BeginSend, Pcs
  <2>2. Retry!Begin(c)
    BY <1>2, <2>1 DEF BeginSend, Open, Retry!Begin, Retry!NoResult, Result, NoCall
  <2> QED
    BY <2>2 DEF Retry!Next
<1>3. ASSUME NEW c \in Callers, Connect(c) \/ LookupPanics(c) \/ WriteRequest(c) \/ RequestExpires(c)
                               \/ Reset(c) \/ BeginClose(c) \/ Close(c)
      PROVE  [Retry!Next]_(Retry!retryVars)
  <2>1. UNCHANGED <<ccCodec, ccCalls, ccResult, ccRuns>>
    BY <1>3 DEF Connect, LookupPanics, WriteRequest, RequestExpires, Reset, BeginClose, Close
  <2>2. Open' = Open
    BY <1>1, <1>3, OpenKept DEF Connect, LookupPanics, WriteRequest, RequestExpires, Reset, BeginClose, Close, Holds, Pcs
  <2> QED
    BY <2>1, <2>2, Stutters
<1>4. ASSUME NEW c \in Callers, ConnectFails(c) \/ SendRefused(c) \/ CancelSent(c)
      PROVE  [Retry!Next]_(Retry!retryVars)
  BY <1>1, <1>4, ErrorRefines DEF ConnectFails, SendRefused, CancelSent, Holds
<1>5. ASSUME NEW c \in Callers, ReadAnswer(c) PROVE [Retry!Next]_(Retry!retryVars)
  BY <1>5, AnswerRefines
<1>6. ASSUME NEW r \in Call, ExecuteLeft(r) PROVE [Retry!Next]_(Retry!retryVars)
  BY <1>1, <1>6, RunRefines DEF ExecuteLeft
<1>7. CASE Execute
  <2>1. Head(ccSession.todo) \in Call /\ Todo(Head(ccSession.todo))
    BY <1>1, <1>7, SessionFacts, TailFacts DEF Execute, Todo
  <2> QED
    BY <1>1, <1>7, <2>1, RunRefines DEF Execute
<1>8. CASE LateAnswer \/ Disconnect
  <2>1. UNCHANGED ccRuns
    BY <1>8 DEF LateAnswer, Disconnect
  <2>2. CASE \E c \in Callers : Holds(c, "sending")
    <3>1. Head(ccLock) \in Callers /\ ccPc[Head(ccLock)] = "sending"
      BY <2>2 DEF Holds
    <3>2. \E kind \in {"disconnect", "timeout", "protocol"} : EndWithError(Head(ccLock), kind)
      BY <1>8, <2>2 DEF LateAnswer, Disconnect
    <3> QED
      BY <1>1, <2>1, <3>1, <3>2, ErrorRefines
  <2>3. CASE ~ \E c \in Callers : Holds(c, "sending")
    <3>1. UNCHANGED <<ccCodec, ccCalls, ccResult, ccPc>>
      BY <1>8, <2>3 DEF LateAnswer, Disconnect
    <3> QED
      BY <2>1, <3>1, Stutters DEF Open
  <2> QED
    BY <2>2, <2>3
<1>9. CASE UNCHANGED ccVars
  BY <1>9, Stutters DEF ccVars, Open
<1> QED
  BY <1>2, <1>3, <1>4, <1>5, <1>6, <1>7, <1>8, <1>9 DEF ClientNext, ClientStep

(* An answer comes from an execution, and stays that of an executed call.  *)
LEMMA AnsweredKept ==
  ASSUME RetryInv, ClientInv',
         \A r \in Call : ccRuns'[r] >= ccRuns[r],
         \A r \in Call : Has(ccSession'.answers, r) => Has(ccSession.answers, r) \/ ccRuns'[r] >= 1,
         \A c \in Callers : \/ ccResult'[c] = ccResult[c] \/ ccResult'[c].kind # "ok"
                            \/ ccResult'[c].of \in Call /\ Has(ccSession.answers, ccResult'[c].of)
  PROVE  RetryInv'
<1>1. \A r \in Call : ccRuns[r] \in Nat /\ ccRuns'[r] \in Nat
  BY DEF RetryInv, ClientInv, ClientTypeOK
<1>2. \A r \in Call : ccRuns[r] >= 1 => ccRuns'[r] >= 1
  BY <1>1
<1>3. \A r \in Call : Has(ccSession'.answers, r) => ccRuns'[r] >= 1
  BY <1>2 DEF RetryInv, AnsweredInv
<1>4. \A c \in Callers : ccResult'[c].kind = "ok" => ccResult'[c].of \in Call /\ ccRuns'[ccResult'[c].of] >= 1
  BY <1>2 DEF RetryInv, AnsweredInv
<1> QED
  BY <1>3, <1>4 DEF RetryInv, AnsweredInv

(* Every step keeps RetryInv. *)
LEMMA RetryInvStep == RetryInv /\ [ClientNext]_ccVars => RetryInv'
<1> SUFFICES ASSUME RetryInv, [ClientNext]_ccVars PROVE RetryInv'
  OBVIOUS
<1>1. ClientInv /\ ClientInv'
  BY ClientInvStep DEF RetryInv
<1>2. \A r \in Call : ccRuns[r] \in Nat
  BY <1>1 DEF ClientInv, ClientTypeOK
<1>3. \A r : ~Has(<<>>, r)
  BY EmptyFacts
<1>4. /\ ccSession \in Sessions /\ ccSession.todo \in Seq(Call) /\ ccSession.answers \in Seq(Call)
      /\ Session.answers = <<>> /\ NoSession.answers = <<>>
  BY <1>1, SessionFacts
<1>5. ASSUME UNCHANGED ccRuns, \A r : Has(ccSession'.answers, r) => Has(ccSession.answers, r),
             \A c \in Callers : ccResult'[c] = ccResult[c] \/ ccResult'[c].kind # "ok"
      PROVE  RetryInv'
  BY <1>1, <1>2, <1>5, AnsweredKept
<1>6. ASSUME NEW c \in Callers, BeginSend(c) PROVE RetryInv'
  <2>1. \A d \in Callers : ccResult'[d] = ccResult[d] \/ ccResult'[d].kind # "ok"
    BY <1>1, <1>6 DEF BeginSend, ClientInv, ClientTypeOK, Result
  <2> QED
    BY <1>5, <1>6, <2>1 DEF BeginSend
<1>7. ASSUME NEW c \in Callers, Connect(c) \/ LookupPanics(c) \/ WriteRequest(c) \/ RequestExpires(c)
                               \/ Reset(c) \/ BeginClose(c) \/ Close(c)
      PROVE  RetryInv'
  <2>1. UNCHANGED <<ccResult, ccRuns>>
    BY <1>7 DEF Connect, LookupPanics, WriteRequest, RequestExpires, Reset, BeginClose, Close
  <2>2. ccSession'.answers \in {ccSession.answers, <<>>}
    BY <1>4, <1>7 DEF Connect, LookupPanics, WriteRequest, RequestExpires, Reset, BeginClose, Close, DropSession, Sessions
  <2> QED
    BY <1>3, <1>5, <2>1, <2>2
<1>8. ASSUME NEW c \in Callers, ConnectFails(c) \/ SendRefused(c) \/ CancelSent(c) PROVE RetryInv'
  <2>1. UNCHANGED ccRuns /\ \E kind \in {"disconnect", "timeout", "protocol"} : EndWithError(c, kind)
    BY <1>8 DEF ConnectFails, SendRefused, CancelSent
  <2>2. \A d \in Callers : ccResult'[d] = ccResult[d] \/ ccResult'[d].kind # "ok"
    BY <1>1, <2>1, ErrorStep
  <2>3. ccSession'.answers = ccSession.answers
    BY <1>4, <1>8 DEF ConnectFails, SendRefused, CancelSent, Sessions
  <2> QED
    BY <1>5, <2>1, <2>2, <2>3
<1>9. ASSUME NEW c \in Callers, ReadAnswer(c) PROVE RetryInv'
  <2> DEFINE answer == Head(ccSession.answers)
  <2>1. /\ answer \in Call /\ Has(ccSession.answers, answer)
        /\ \A r : Has(Tail(ccSession.answers), r) => Has(ccSession.answers, r)
    BY <1>4, <1>9, TailFacts DEF ReadAnswer
  <2>2. ccSession'.answers = Tail(ccSession.answers) /\ UNCHANGED ccRuns
    BY <1>4, <1>9 DEF ReadAnswer, Deliver, Sessions
  <2>3. \A d \in Callers : ccResult'[d] = IF d = c THEN Result("ok", answer) ELSE ccResult[d]
    BY <1>1, <1>9 DEF ReadAnswer, Deliver, ClientInv, ClientTypeOK
  <2>4. \A d \in Callers : \/ ccResult'[d] = ccResult[d]
                           \/ ccResult'[d].of \in Call /\ Has(ccSession.answers, ccResult'[d].of)
    BY <2>1, <2>3 DEF Result
  <2> QED
    BY <1>1, <1>2, <2>1, <2>2, <2>4, AnsweredKept
<1>10. ASSUME NEW r \in Call, ExecuteLeft(r) PROVE RetryInv'
  <2>1. \A q \in Call : ccRuns'[q] >= ccRuns[q]
    BY <1>1, <1>2, <1>10 DEF ExecuteLeft, ClientInv, ClientTypeOK
  <2> QED
    BY <1>1, <1>10, <2>1, AnsweredKept DEF ExecuteLeft
<1>11. CASE Execute
  <2> DEFINE r == Head(ccSession.todo)
  <2>1. r \in Call
    BY <1>4, <1>11, TailFacts DEF Execute
  <2>2. \A q \in Call : ccRuns'[q] = IF q = r THEN ccRuns[q] + 1 ELSE ccRuns[q]
    BY <1>1, <1>11 DEF Execute, ClientInv, ClientTypeOK
  <2>3. ccSession'.answers \in {ccSession.answers, Append(ccSession.answers, r)}
    BY <1>4, <1>11 DEF Execute, Sessions
  <2>4. \A q : Has(Append(ccSession.answers, r), q) <=> Has(ccSession.answers, q) \/ q = r
    BY <1>4, <2>1, AppendFacts
  <2>5. \A q \in Call : Has(ccSession'.answers, q) => Has(ccSession.answers, q) \/ ccRuns'[q] >= 1
    <3>1. \A q \in Call : q = r => ccRuns'[q] >= 1
      BY <1>2, <2>2
    <3> HIDE DEF r
    <3> QED
      BY <2>3, <2>4, <3>1
  <2>6. (\A q \in Call : ccRuns'[q] >= ccRuns[q]) /\ UNCHANGED ccResult
    BY <1>2, <1>11, <2>2 DEF Execute
  <2> QED
    BY <1>1, <2>5, <2>6, AnsweredKept
<1>12. CASE LateAnswer \/ Disconnect
  <2>1. ccSession'.answers = <<>> /\ UNCHANGED ccRuns
    BY <1>4, <1>12 DEF LateAnswer, Disconnect, Sessions
  <2>2. CASE \E c \in Callers : Holds(c, "sending")
    <3>1. Head(ccLock) \in Callers
      BY <2>2 DEF Holds
    <3>2. \E kind \in {"disconnect", "timeout", "protocol"} : EndWithError(Head(ccLock), kind)
      BY <1>12, <2>2 DEF LateAnswer, Disconnect
    <3> QED
      BY <1>1, <1>3, <1>5, <2>1, <3>1, <3>2, ErrorStep
  <2>3. CASE ~ \E c \in Callers : Holds(c, "sending")
    BY <1>3, <1>5, <1>12, <2>1, <2>3 DEF LateAnswer, Disconnect
  <2> QED
    BY <2>2, <2>3
<1>13. CASE UNCHANGED ccVars
  BY <1>5, <1>13 DEF ccVars
<1> QED
  BY <1>6, <1>7, <1>8, <1>9, <1>10, <1>11, <1>12, <1>13 DEF ClientNext, ClientStep

(* For any number of clones, calls and broken connections the reconnecting *)
(* client implements RetryRpc: each call returns once, is executed at most *)
(* twice and never before it is made, and an answer it returns is that of  *)
(* an executed call, its own where answers carry ids (ControlClient::send, *)
(* send_with_session, read_binary_loop, read_jsonl_loop).                  *)
THEOREM ClientImplementsRetryRpc == ClientSpec => ImplementsRetryRpc
<1>1. ClientInit => RetryInv
  <2> SUFFICES ASSUME ClientInit PROVE AnsweredInv
    BY ClientInvInit DEF RetryInv
  <2>1. ccSession.answers = <<>>
    BY DEF ClientInit, NoSession, Session
  <2>2. \A r : ~Has(ccSession.answers, r)
    BY <2>1, EmptyFacts
  <2> QED
    BY <2>2 DEF ClientInit, AnsweredInv, Result
<1>2. ClientInit => Retry!Init
  BY DEF ClientInit, Result, NoCall, Call, Retry!Init, Retry!NoResult, Retry!Call
<1> QED
  BY <1>1, <1>2, RetryInvStep, RetryRefines, PTL DEF ClientSpec, ImplementsRetryRpc, Retry!Spec

(***************************************************************************)
(* The mutex.                                                              *)
(***************************************************************************)
(* As long as a caller is in a call or in close, somebody who is has the   *)
(* mutex, and everybody else waits for it in the queue; only the one who   *)
(* has it waits for an answer.                                             *)
MutexServes ==
  \A c \in Callers : ccPc[c] \in InCall =>
    /\ ccLock # <<>> /\ Head(ccLock) \in Callers /\ ccPc[Head(ccLock)] \in InCall
    /\ Queued(c)
    /\ ccPc[c] = "sending" => Head(ccLock) = c

SendsAlone == \A c \in Callers : ccPc[c] = "sending" => Holds(c, "sending")

(* A step of the mutex's owner, and a step of who queues for it.           *)
LEMMA OwnerSends ==
  ASSUME ClientInv, SendsAlone, NEW c \in Callers, NEW pc \in Pcs \ {"sending"}, At(c, pc),
         (ccLock # <<>> /\ Head(ccLock) = c) \/ ccLock' = Append(ccLock, c)
  PROVE  SendsAlone'
<1>1. \A d \in Callers : ccPc'[d] = IF d = c THEN pc ELSE ccPc[d]
  BY DEF At, ClientInv, ClientTypeOK
<1>2. CASE ccLock # <<>> /\ Head(ccLock) = c
  BY <1>1, <1>2 DEF SendsAlone, Holds
<1>3. CASE ccLock' = Append(ccLock, c)
  <2>1. ccLock' # <<>> /\ (ccLock # <<>> => Head(ccLock') = Head(ccLock))
    BY <1>3, AppendFacts DEF ClientInv, ClientTypeOK
  <2> QED
    BY <1>1, <2>1 DEF SendsAlone, Holds
<1> QED
  BY <1>2, <1>3

(* Every step keeps SendsAlone. *)
LEMMA SendsAloneStep == ClientInv /\ SendsAlone /\ [ClientNext]_ccVars => SendsAlone'
<1> SUFFICES ASSUME ClientInv, SendsAlone, [ClientNext]_ccVars PROVE SendsAlone'
  OBVIOUS
<1>1. ASSUME NEW c \in Callers, ccLock # <<>> /\ Head(ccLock) = c,
             \E kind \in {"disconnect", "timeout", "protocol"} : EndWithError(c, kind)
      PROVE  SendsAlone'
  BY <1>1, OwnerSends DEF EndWithError, Pcs
<1>2. ASSUME UNCHANGED <<ccLock, ccPc>> PROVE SendsAlone'
  BY <1>2 DEF SendsAlone, Holds
<1>3. ASSUME NEW c \in Callers, BeginSend(c) \/ BeginClose(c) PROVE SendsAlone'
  BY <1>3, OwnerSends DEF BeginSend, BeginClose, Pcs
<1>4. ASSUME NEW c \in Callers, Connect(c) \/ LookupPanics(c) \/ RequestExpires(c) \/ Reset(c) \/ Close(c) \/ ReadAnswer(c)
      PROVE  SendsAlone'
  BY <1>4, OwnerSends DEF Connect, LookupPanics, RequestExpires, Reset, Close, ReadAnswer, Paired, Deliver, Holds, Pcs
<1>5. ASSUME NEW c \in Callers, WriteRequest(c) PROVE SendsAlone'
  <2>1. \A d \in Callers : ccPc'[d] = IF d = c THEN "sending" ELSE ccPc[d]
    BY <1>5 DEF WriteRequest, At, ClientInv, ClientTypeOK
  <2> QED
    BY <1>5, <2>1 DEF WriteRequest, Holds, SendsAlone
<1>6. ASSUME NEW c \in Callers, ConnectFails(c) \/ SendRefused(c) \/ CancelSent(c) PROVE SendsAlone'
  BY <1>1, <1>6 DEF ConnectFails, SendRefused, CancelSent, Holds
<1>7. CASE LateAnswer \/ Disconnect
  <2>1. CASE \E c \in Callers : Holds(c, "sending")
    <3>1. Head(ccLock) \in Callers /\ ccLock # <<>>
      BY <2>1 DEF Holds
    <3>2. \E kind \in {"disconnect", "timeout", "protocol"} : EndWithError(Head(ccLock), kind)
      BY <1>7, <2>1 DEF LateAnswer, Disconnect
    <3> QED
      BY <1>1, <3>1, <3>2
  <2>2. CASE ~ \E c \in Callers : Holds(c, "sending")
    BY <1>2, <1>7, <2>2 DEF LateAnswer, Disconnect
  <2> QED
    BY <2>1, <2>2
<1>8. CASE Execute \/ (\E r \in Call : ExecuteLeft(r)) \/ UNCHANGED ccVars
  BY <1>2, <1>8 DEF Execute, ExecuteLeft, ccVars
<1> QED
  BY <1>3, <1>4, <1>5, <1>6, <1>7, <1>8 DEF ClientNext, ClientStep

(* The tokio mutex is never orphaned and never entered twice: whoever      *)
(* waits for it waits for a caller that is in a call itself, and at most   *)
(* one of the clones awaits an answer at a time, which is what makes       *)
(* pairing a line with the oldest pending call right while nothing times   *)
(* out (send_with_session, close).                                         *)
THEOREM MutexCorrect == ClientSpec => []MutexServes
<1>1. ClientInit => SendsAlone
  BY DEF ClientInit, SendsAlone
<1>2. ClientInv /\ SendsAlone => MutexServes
  <2> SUFFICES ASSUME ClientInv, SendsAlone, NEW c \in Callers, ccPc[c] \in InCall
               PROVE  /\ ccLock # <<>> /\ Head(ccLock) \in Callers /\ ccPc[Head(ccLock)] \in InCall
                      /\ Queued(c)
                      /\ ccPc[c] = "sending" => Head(ccLock) = c
    BY DEF MutexServes
  <2>1. Queued(c)
    BY DEF ClientInv, MutexInv
  <2>2. ccLock # <<>>
    BY <2>1, EmptyFacts DEF Queued
  <2> QED
    BY <2>1, <2>2, OwnerFacts DEF SendsAlone, Holds
<1> QED
  BY <1>1, <1>2, ClientInvHolds, SendsAloneStep, PTL DEF ClientSpec
=============================================================================
