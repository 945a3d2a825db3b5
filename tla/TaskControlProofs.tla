-------------------------- MODULE TaskControlProofs --------------------------
(***************************************************************************)
(* Theorems about TaskControl, for any tasks, requests, id lists and       *)
(* number of worker threads.                                               *)
(***************************************************************************)
EXTENDS TaskControl, TLAPS, FiniteSetTheorems

(* What the Core says of a task agrees with how it ended.                  *)
OutcomeInv ==
  \A t \in Tasks :
    /\ tcStatus[t] \in {"absent", "live"} => tcOutcome[t] = "none"
    /\ tcStatus[t] \in Terminal => tcOutcome[t] = tcStatus[t]
    /\ tcStatus[t] = "evicted" => tcOutcome[t] \in Terminal

(* Only an answered request has an answer; a successful wait saw the final *)
(* outcome of every task.                                                  *)
AnswerInv ==
  \A r \in Reqs :
    /\ tcReq[r].pc # "done" => tcReq[r].kind = "none"
    /\ tcReq[r].method = "wait" /\ tcReq[r].kind = "ok" =>
         \A i \in DOMAIN tcReq[r].ids :
           /\ tcOutcome[tcReq[r].ids[i]] \in Terminal
           /\ tcReq[r].views[i] = tcOutcome[tcReq[r].ids[i]]

(* From the look at the states on, a completion that makes the last task   *)
(* terminal also makes the revision newer than the one read before it.     *)
RevisionInv ==
  \A r \in Reqs : tcReq[r].pc \in {"looked", "parked"} /\ AllTerminal(r) => tcRevision > tcReq[r].rev

TaskInv == TaskTypeOK /\ OutcomeInv /\ AnswerInv /\ RevisionInv

(* A task that has ended keeps its outcome.                                *)
OutcomeFinal == \A t \in Tasks : tcOutcome[t] # "none" => tcOutcome'[t] = tcOutcome[t]

-----------------------------------------------------------------------------
(* The id lists of requests name tasks.                                    *)
LEMMA IdsFacts ==
  ASSUME NEW ids \in IdLists \cup {<<>>}
  PROVE  /\ ids \in Seq(Tasks)
         /\ DOMAIN ids = 1..Len(ids)
         /\ \A i \in DOMAIN ids : ids[i] \in Tasks
<1>1. ids \in Seq(Tasks)
  <2>1. <<>> \in Seq(Tasks)
    OBVIOUS
  <2> QED
    BY <2>1, TaskAssumption
<1> QED
  BY <1>1

(* The views of a list of tasks, one for each id.                          *)
LEMMA ViewsFacts ==
  ASSUME TaskTypeOK, NEW ids \in IdLists \cup {<<>>}
  PROVE  Views(ids) \in Seq(Terminal \cup {"pending"})
<1>1. ids \in Seq(Tasks) /\ DOMAIN ids = 1..Len(ids) /\ \A i \in DOMAIN ids : ids[i] \in Tasks
  BY IdsFacts
<1>2. Len(ids) \in Nat
  BY <1>1
<1>3. \A i \in 1..Len(ids) : View(ids[i]) \in Terminal \cup {"pending"}
  BY <1>1 DEF View, IsTerminal
<1> QED
  BY <1>1, <1>2, <1>3 DEF Views

(* What an answer does to the requests.                                    *)
LEMMA AnswerFacts ==
  ASSUME TaskTypeOK, NEW r \in Reqs, NEW kind \in AnswerKinds,
         NEW views \in Seq(Terminal \cup {"pending"}), Answer(r, kind, views)
  PROVE  /\ tcReq' \in [Reqs -> TaskRequests]
         /\ \A q \in Reqs : q # r => tcReq'[q] = tcReq[q]
         /\ tcReq'[r].pc = "done" /\ tcReq'[r].kind = kind /\ tcReq'[r].views = views /\ tcReq'[r].rev = 0
         /\ tcReq'[r].method = tcReq[r].method /\ tcReq'[r].ids = tcReq[r].ids
<1>1. tcReq[r] \in TaskRequests
  BY DEF TaskTypeOK
<1>2. tcReq' = [tcReq EXCEPT ![r] = [tcReq[r] EXCEPT !.pc = "done", !.kind = kind, !.views = views, !.rev = 0]]
  BY DEF Answer
<1>3. [tcReq[r] EXCEPT !.pc = "done", !.kind = kind, !.views = views, !.rev = 0] \in TaskRequests
  BY <1>1 DEF TaskRequests, ReqStates
<1>4. tcReq'[r] = [tcReq[r] EXCEPT !.pc = "done", !.kind = kind, !.views = views, !.rev = 0]
  BY <1>2 DEF TaskTypeOK
<1> QED
  BY <1>1, <1>2, <1>3, <1>4 DEF TaskTypeOK, TaskRequests

(* What the steps of a wait do to the requests, the answers apart.         *)
LEMMA MoveFacts ==
  ASSUME TaskTypeOK, NEW r \in Reqs, NEW pc \in ReqStates, NEW rev \in Nat,
         tcReq' = [tcReq EXCEPT ![r].pc = pc, ![r].rev = rev]
  PROVE  /\ tcReq' \in [Reqs -> TaskRequests]
         /\ \A q \in Reqs : q # r => tcReq'[q] = tcReq[q]
         /\ tcReq'[r].pc = pc /\ tcReq'[r].kind = tcReq[r].kind /\ tcReq'[r].views = tcReq[r].views
         /\ tcReq'[r].rev = rev
         /\ tcReq'[r].method = tcReq[r].method /\ tcReq'[r].ids = tcReq[r].ids
  BY DEF TaskTypeOK, TaskRequests

(* What a handler that only moves on changes.                              *)
LEMMA GotoFacts ==
  ASSUME TaskTypeOK, NEW r \in Reqs, NEW pc \in ReqStates, Goto(r, pc)
  PROVE  /\ tcReq' \in [Reqs -> TaskRequests]
         /\ \A q \in Reqs : q # r => tcReq'[q] = tcReq[q]
         /\ tcReq'[r].pc = pc /\ tcReq'[r].kind = tcReq[r].kind /\ tcReq'[r].views = tcReq[r].views
         /\ tcReq'[r].rev = tcReq[r].rev
         /\ tcReq'[r].method = tcReq[r].method /\ tcReq'[r].ids = tcReq[r].ids
  BY DEF TaskTypeOK, TaskRequests, Goto

-----------------------------------------------------------------------------
(* What the Core may do to the tasks in one step: end one, forget one,     *)
(* take new ones on, or nothing.                                           *)
Ended(t) == tcStatus[t] = "live" /\ \E outcome \in Terminal : EndTask(t, outcome)

Forgotten(t) ==
  /\ tcStatus[t] \in Terminal
  /\ tcStatus' = [tcStatus EXCEPT ![t] = "evicted"]
  /\ UNCHANGED <<tcOutcome, tcRevision>>

CoreMove ==
  \/ \E t \in Tasks : Ended(t) \/ Forgotten(t)
  \/ \E tasks \in SUBSET Tasks : Submit(tasks)
  \/ UNCHANGED <<tcStatus, tcOutcome, tcRevision>>

(* Every step is a move of the Core beside a step of at most one request.  *)
LEMMA CoreMoves == TaskTypeOK /\ TaskNext => CoreMove
<1> SUFFICES ASSUME TaskTypeOK, TaskNext PROVE CoreMove
  OBVIOUS
<1>1. ASSUME NEW t \in Tasks, TaskEnds(t) \/ Evict(t) PROVE CoreMove
  BY <1>1, TaskAssumption DEF TaskEnds, Evict, CoreMove, Ended, Forgotten
<1>2. ASSUME NEW t \in Tasks, PluginSubmits(t) PROVE CoreMove
  <2>1. {t} \in SUBSET Tasks /\ Submit({t})
    BY <1>2 DEF PluginSubmits
  <2> QED
    BY <2>1 DEF CoreMove
<1>3. ASSUME NEW t \in Tasks, Cancel(t) PROVE CoreMove
  BY <1>3 DEF Cancel, CoreMove, Ended, Terminal
<1>4. CASE TakeCore \/ BindPlane
  BY <1>4 DEF TakeCore, BindPlane, CoreMove
<1>5. ASSUME NEW r \in Reqs, HandleStep(r) PROVE CoreMove
  <2>1. tcReq[r].ids \in IdLists \cup {<<>>}
    BY DEF TaskTypeOK, TaskRequests
  <2>2. CASE HandleSubmit(r)
    <3>1. CASE Submit({tcReq[r].ids[i] : i \in DOMAIN tcReq[r].ids})
      <4>1. {tcReq[r].ids[i] : i \in DOMAIN tcReq[r].ids} \in SUBSET Tasks
        BY <2>1, IdsFacts
      <4> QED
        BY <3>1, <4>1 DEF CoreMove
    <3>2. CASE UNCHANGED <<tcStatus, tcOutcome, tcRevision>>
      BY <3>2 DEF CoreMove
    <3> QED
      BY <2>2, <3>1, <3>2 DEF HandleSubmit
  <2>3. CASE HandleCancel(r)
    <3>1. CASE Cancel(tcReq[r].ids[1])
      <4>1. 1 \in DOMAIN tcReq[r].ids
        BY <2>1, <2>3, IdsFacts DEF HandleCancel
      <4>2. tcReq[r].ids[1] \in Tasks
        BY <2>1, <4>1, IdsFacts
      <4> QED
        BY <1>3, <3>1, <4>2
    <3>2. CASE UNCHANGED <<tcStatus, tcOutcome, tcRevision>>
      BY <3>2 DEF CoreMove
    <3> QED
      BY <2>3, <3>1, <3>2 DEF HandleCancel
  <2>4. CASE ~HandleSubmit(r) /\ ~HandleCancel(r)
    BY <1>5, <2>4 DEF HandleStep, HandleOutcomes, HandleDrain, WaitSubscribes, WaitReadsRevision, WaitChecks,
         WaitSleeps, WaitWakes, WaitExpires, WaitReportsLast, CoreMove
  <2> QED
    BY <2>2, <2>3, <2>4
<1>6. ASSUME NEW r \in Reqs, NEW m \in Methods, NEW ids \in IdLists, TaskRequest(r, m, ids) PROVE CoreMove
  BY <1>6 DEF TaskRequest, CoreMove
<1> QED
  BY <1>1, <1>2, <1>3, <1>4, <1>5, <1>6 DEF TaskNext, PluginCancels

(* What a move of the Core leaves true of the tasks.                       *)
LEMMA CoreMoveFacts ==
  ASSUME TaskTypeOK, OutcomeInv, CoreMove
  PROVE  /\ tcStatus' \in [Tasks -> Terminal \cup {"absent", "live", "evicted"}]
         /\ tcOutcome' \in [Tasks -> Terminal \cup {"none"}]
         /\ tcRevision' \in Nat /\ tcRevision <= tcRevision'
         /\ OutcomeInv'
         /\ OutcomeFinal
         /\ \A t \in Tasks : tcStatus'[t] \in Terminal /\ tcStatus[t] \notin Terminal => tcRevision' > tcRevision
<1> USE DEF TaskTypeOK, OutcomeInv, OutcomeFinal
<1>1. ASSUME NEW t \in Tasks, NEW outcome \in Terminal, tcStatus[t] = "live", EndTask(t, outcome)
      PROVE  /\ tcStatus' \in [Tasks -> Terminal \cup {"absent", "live", "evicted"}]
             /\ tcOutcome' \in [Tasks -> Terminal \cup {"none"}]
             /\ tcRevision' \in Nat /\ tcRevision < tcRevision'
             /\ OutcomeInv'
             /\ OutcomeFinal
  BY <1>1 DEF EndTask, Terminal
<1>2. ASSUME NEW t \in Tasks, Forgotten(t)
      PROVE  /\ tcStatus' \in [Tasks -> Terminal \cup {"absent", "live", "evicted"}]
             /\ UNCHANGED <<tcOutcome, tcRevision>>
             /\ OutcomeInv'
             /\ \A u \in Tasks : tcStatus'[u] \in Terminal => tcStatus[u] \in Terminal
  BY <1>2 DEF Forgotten, Terminal
<1>3. ASSUME NEW tasks \in SUBSET Tasks, Submit(tasks)
      PROVE  /\ tcStatus' \in [Tasks -> Terminal \cup {"absent", "live", "evicted"}]
             /\ UNCHANGED <<tcOutcome, tcRevision>>
             /\ OutcomeInv'
             /\ \A u \in Tasks : tcStatus'[u] \in Terminal => tcStatus[u] \in Terminal
  BY <1>3 DEF Submit, Terminal
<1>4. CASE \E t \in Tasks : Ended(t)
  BY <1>1, <1>4 DEF Ended
<1>5. CASE \E t \in Tasks : Forgotten(t)
  BY <1>2, <1>5
<1>6. CASE \E tasks \in SUBSET Tasks : Submit(tasks)
  BY <1>3, <1>6
<1>7. CASE UNCHANGED <<tcStatus, tcOutcome, tcRevision>>
  BY <1>7
<1> QED
  BY <1>4, <1>5, <1>6, <1>7 DEF CoreMove

-----------------------------------------------------------------------------
(* What a step of a handler leaves true of its request and of the others.  *)
StepOf(r) ==
  /\ tcReq' \in [Reqs -> TaskRequests]
  /\ \A q \in Reqs : q # r => tcReq'[q] = tcReq[q]
  /\ tcReq'[r].method = tcReq[r].method /\ tcReq'[r].ids = tcReq[r].ids
  /\ tcReq[r].pc # "done"
  /\ tcReq'[r].pc # "done" => tcReq'[r].kind = "none"
  /\ tcReq'[r].rev <= tcRevision
  /\ tcReq'[r].method = "wait" /\ tcReq'[r].kind = "ok" =>
       AllTerminal(r) /\ tcReq'[r].views = Views(tcReq[r].ids)
  /\ tcReq'[r].pc \in {"looked", "parked"} =>
       /\ tcReq'[r].rev = tcReq[r].rev
       /\ \/ tcReq[r].pc = "looked"
          \/ ~AllTerminal(r)
       /\ UNCHANGED <<tcStatus, tcRevision>>
  /\ Blocking(r)' => Blocking(r) \/ FreeWorker

(* Every step of a handler is one of those.                                *)
LEMMA HandlerStep ==
  ASSUME TaskTypeOK, AnswerInv, NEW r \in Reqs, HandleStep(r)
  PROVE  StepOf(r)
<1>0. tcReq[r] \in TaskRequests /\ tcReq[r].rev \in Nat /\ tcReq[r].rev <= tcRevision /\ tcRevision \in Nat
  BY DEF TaskTypeOK, TaskRequests
<1>1. Views(tcReq[r].ids) \in Seq(Terminal \cup {"pending"}) /\ <<>> \in Seq(Terminal \cup {"pending"})
  BY <1>0, ViewsFacts DEF TaskRequests
<1>2. tcReq[r].pc # "done" => tcReq[r].kind = "none"
  BY DEF AnswerInv
<1>3. ASSUME NEW kind \in AnswerKinds, NEW views \in Seq(Terminal \cup {"pending"}), Answer(r, kind, views),
             tcReq[r].pc # "done",
             kind = "ok" /\ tcReq[r].method = "wait" => AllTerminal(r) /\ views = Views(tcReq[r].ids)
      PROVE  StepOf(r)
  BY <1>0, <1>3, AnswerFacts DEF StepOf, Blocking
<1>4. ASSUME NEW pc \in ReqStates, Goto(r, pc), tcReq[r].pc # "done", pc # "done",
             pc \in {"looked", "parked"} => /\ tcReq[r].pc = "looked" \/ ~AllTerminal(r)
                                            /\ UNCHANGED <<tcStatus, tcRevision>>,
             Blocking(r) \/ FreeWorker
      PROVE  StepOf(r)
  BY <1>0, <1>2, <1>4, GotoFacts DEF StepOf
<1>5. {"ok", "failed", "bad_request", "timed_out"} \subseteq AnswerKinds
  BY DEF AnswerKinds
<1>6. CASE HandleSubmit(r)
  BY <1>1, <1>3, <1>5, <1>6 DEF HandleSubmit, Reached
<1>7. CASE HandleCancel(r)
  BY <1>1, <1>3, <1>5, <1>7 DEF HandleCancel, Reached
<1>8. CASE HandleOutcomes(r)
  BY <1>1, <1>3, <1>5, <1>8 DEF HandleOutcomes, Reached
<1>9. CASE HandleDrain(r)
  BY <1>1, <1>3, <1>5, <1>9 DEF HandleDrain, Reached
<1>10. CASE WaitSubscribes(r)
  <2>1. CASE Goto(r, "subscribed")
    <3>1. tcReq[r].pc = "queued" /\ FreeWorker
      BY <1>10 DEF WaitSubscribes, Reached
    <3>2. "subscribed" \in ReqStates
      BY DEF ReqStates
    <3> QED
      BY <1>4, <2>1, <3>1, <3>2
  <2>2. CASE Answer(r, "bad_request", <<>>) \/ Answer(r, "failed", <<>>)
    BY <1>1, <1>3, <1>5, <1>10, <2>2 DEF WaitSubscribes, Reached
  <2> QED
    BY <1>10, <2>1, <2>2 DEF WaitSubscribes
<1>11. CASE WaitReadsRevision(r) \/ WaitWakes(r)
  <2>1. tcReq' = [tcReq EXCEPT ![r].pc = "check", ![r].rev = tcRevision] /\ tcReq[r].pc \in {"subscribed", "parked"}
    BY <1>11 DEF WaitReadsRevision, WaitWakes
  <2>2. "check" \in ReqStates
    BY DEF ReqStates
  <2>3. /\ tcReq' \in [Reqs -> TaskRequests]
        /\ \A q \in Reqs : q # r => tcReq'[q] = tcReq[q]
        /\ tcReq'[r].pc = "check" /\ tcReq'[r].kind = tcReq[r].kind /\ tcReq'[r].rev = tcRevision
        /\ tcReq'[r].method = tcReq[r].method /\ tcReq'[r].ids = tcReq[r].ids
    BY <1>0, <2>1, <2>2, MoveFacts
  <2>4. tcReq'[r].kind = "none"
    BY <1>2, <2>1, <2>3
  <2> QED
    BY <1>0, <2>1, <2>3, <2>4 DEF StepOf, Blocking
<1>12. CASE WaitChecks(r)
  <2>1. CASE Goto(r, "looked") /\ ~AllTerminal(r)
    BY <1>4, <1>12, <2>1 DEF WaitChecks, ReqStates, Blocking
  <2>2. CASE Answer(r, "failed", <<>>)
    BY <1>1, <1>3, <1>5, <1>12, <2>2 DEF WaitChecks
  <2>3. CASE AllTerminal(r) /\ Answer(r, "ok", Views(tcReq[r].ids))
    BY <1>1, <1>3, <1>5, <1>12, <2>3 DEF WaitChecks
  <2>4. CASE Answer(r, "timed_out", Views(tcReq[r].ids))
    BY <1>1, <1>3, <1>5, <1>12, <2>4 DEF WaitChecks
  <2> QED
    BY <1>12, <2>1, <2>2, <2>3, <2>4 DEF WaitChecks
<1>13. CASE WaitSleeps(r) \/ WaitExpires(r)
  BY <1>4, <1>13 DEF WaitSleeps, WaitExpires, ReqStates, Blocking
<1>14. CASE WaitReportsLast(r)
  BY <1>1, <1>3, <1>5, <1>14 DEF WaitReportsLast
<1> QED
  BY <1>6, <1>7, <1>8, <1>9, <1>10, <1>11, <1>12, <1>13, <1>14 DEF HandleStep

(* A request that arrives is queued with its method and its ids.           *)
LEMMA RequestStep ==
  ASSUME TaskTypeOK, NEW r \in Reqs, NEW m \in Methods, NEW ids \in IdLists, TaskRequest(r, m, ids)
  PROVE  /\ tcReq' \in [Reqs -> TaskRequests]
         /\ \A q \in Reqs : q # r => tcReq'[q] = tcReq[q]
         /\ tcReq[r].pc = "idle" /\ tcReq'[r].pc = "queued"
         /\ tcReq'[r].kind = tcReq[r].kind /\ tcReq'[r].rev = tcReq[r].rev
<1>1. tcReq[r] \in TaskRequests
  BY DEF TaskTypeOK
<1>2. tcReq' = [tcReq EXCEPT ![r] = [tcReq[r] EXCEPT !.pc = "queued", !.method = m, !.ids = ids]]
  BY DEF TaskRequest
<1>3. [tcReq[r] EXCEPT !.pc = "queued", !.method = m, !.ids = ids] \in TaskRequests
  BY <1>1 DEF TaskRequests, ReqStates
<1>4. tcReq'[r] = [tcReq[r] EXCEPT !.pc = "queued", !.method = m, !.ids = ids]
  BY <1>2 DEF TaskTypeOK
<1> QED
  BY <1>1, <1>2, <1>3, <1>4 DEF TaskTypeOK, TaskRequests, TaskRequest

(* No step but a handler's or a request's touches the requests.            *)
LEMMA Untouched ==
  ASSUME TaskNext,
         ~\E r \in Reqs : HandleStep(r),
         ~\E r \in Reqs, m \in Methods, ids \in IdLists : TaskRequest(r, m, ids)
  PROVE  UNCHANGED tcReq
  BY DEF TaskNext, TaskEnds, Evict, PluginSubmits, PluginCancels, TakeCore, BindPlane

-----------------------------------------------------------------------------
(* The inductive step, for the tasks and for the requests.                 *)
LEMMA TaskInvStep == TaskInv /\ [TaskNext]_tcVars => TaskInv'
<1> SUFFICES ASSUME TaskInv, TaskNext PROVE TaskInv'
  BY DEF tcVars, TaskInv, TaskTypeOK, OutcomeInv, AnswerInv, RevisionInv, AllTerminal, IsTerminal
<1>0. TaskTypeOK /\ OutcomeInv /\ AnswerInv /\ RevisionInv
  BY DEF TaskInv
<1>1. /\ tcStatus' \in [Tasks -> Terminal \cup {"absent", "live", "evicted"}]
      /\ tcOutcome' \in [Tasks -> Terminal \cup {"none"}]
      /\ tcRevision' \in Nat /\ tcRevision <= tcRevision' /\ tcRevision \in Nat
      /\ OutcomeInv'
      /\ OutcomeFinal
      /\ \A t \in Tasks : tcStatus'[t] \in Terminal /\ tcStatus[t] \notin Terminal => tcRevision' > tcRevision
  BY <1>0, CoreMoves, CoreMoveFacts DEF TaskTypeOK
<1>2. tcCore' \in BOOLEAN /\ tcDraining' \in BOOLEAN /\ tcBound' \in 0..Len(Planes)
  <2>1. tcCore \in BOOLEAN /\ tcDraining \in BOOLEAN /\ tcBound \in 0..Len(Planes) /\ Len(Planes) \in Nat
    BY <1>0 DEF TaskTypeOK, Planes
  <2>2. tcCore' \in {tcCore, FALSE} /\ tcDraining' \in {tcDraining, TRUE}
    BY DEF TaskNext, TaskEnds, Evict, PluginSubmits, PluginCancels, TakeCore, BindPlane, HandleStep, HandleSubmit,
         HandleCancel, HandleOutcomes, HandleDrain, WaitSubscribes, WaitReadsRevision, WaitChecks, WaitSleeps,
         WaitWakes, WaitExpires, WaitReportsLast, TaskRequest
  <2>3. UNCHANGED tcBound \/ BindPlane
    BY DEF TaskNext, TaskEnds, Evict, PluginSubmits, PluginCancels, TakeCore, HandleStep, HandleSubmit,
         HandleCancel, HandleOutcomes, HandleDrain, WaitSubscribes, WaitReadsRevision, WaitChecks, WaitSleeps,
         WaitWakes, WaitExpires, WaitReportsLast, TaskRequest
  <2>4. tcBound' \in 0..Len(Planes)
    BY <2>1, <2>3 DEF BindPlane
  <2> QED
    BY <2>1, <2>2, <2>4
<1> DEFINE Good(q) ==
      /\ tcReq'[q].rev <= tcRevision'
      /\ tcReq'[q].pc # "done" => tcReq'[q].kind = "none"
      /\ tcReq'[q].method = "wait" /\ tcReq'[q].kind = "ok" =>
           \A i \in DOMAIN tcReq'[q].ids :
             /\ tcOutcome'[tcReq'[q].ids[i]] \in Terminal
             /\ tcReq'[q].views[i] = tcOutcome'[tcReq'[q].ids[i]]
      /\ tcReq'[q].pc \in {"looked", "parked"} /\ AllTerminal(q)' => tcRevision' > tcReq'[q].rev
<1>3. ASSUME NEW q \in Reqs
      PROVE  /\ tcReq[q].rev \in Nat /\ tcReq[q].rev <= tcRevision
             /\ tcReq[q].ids \in IdLists \cup {<<>>}
             /\ \A i \in DOMAIN tcReq[q].ids : tcReq[q].ids[i] \in Tasks
  <2>1. tcReq[q] \in TaskRequests
    BY <1>0 DEF TaskTypeOK
  <2>2. tcReq[q].ids \in IdLists \cup {<<>>}
    BY <2>1 DEF TaskRequests
  <2> QED
    BY <1>0, <2>1, <2>2, IdsFacts DEF TaskTypeOK, TaskRequests
<1>4. ASSUME NEW q \in Reqs, ~AllTerminal(q), tcReq'[q].ids = tcReq[q].ids, AllTerminal(q)'
      PROVE  tcRevision' > tcRevision
  <2>1. PICK i \in DOMAIN tcReq[q].ids : tcStatus[tcReq[q].ids[i]] \notin Terminal
    BY <1>4 DEF AllTerminal, IsTerminal
  <2>2. tcReq[q].ids[i] \in Tasks /\ tcStatus'[tcReq[q].ids[i]] \in Terminal
    BY <1>3, <1>4, <2>1 DEF AllTerminal, IsTerminal
  <2> QED
    BY <1>1, <2>1, <2>2
<1>5. ASSUME NEW q \in Reqs, tcReq'[q] = tcReq[q] PROVE Good(q)
  <2>1. tcReq'[q].rev <= tcRevision'
    BY <1>1, <1>3, <1>5
  <2>2. tcReq'[q].method = "wait" /\ tcReq'[q].kind = "ok" =>
           \A i \in DOMAIN tcReq'[q].ids :
             /\ tcOutcome'[tcReq'[q].ids[i]] \in Terminal
             /\ tcReq'[q].views[i] = tcOutcome'[tcReq'[q].ids[i]]
    BY <1>0, <1>1, <1>3, <1>5 DEF AnswerInv, OutcomeFinal, Terminal
  <2>3. tcReq'[q].pc \in {"looked", "parked"} /\ AllTerminal(q)' => tcRevision' > tcReq'[q].rev
    BY <1>0, <1>1, <1>3, <1>4, <1>5 DEF RevisionInv
  <2> QED
    BY <1>0, <1>5, <2>1, <2>2, <2>3 DEF AnswerInv
<1>6. ASSUME NEW r \in Reqs, StepOf(r) PROVE Good(r)
  <2>1. tcReq'[r].rev <= tcRevision' /\ tcReq'[r].rev \in Nat
    <3>1. tcReq'[r].rev \in Nat
      BY <1>6 DEF StepOf, TaskRequests
    <3> QED
      BY <1>1, <1>6, <3>1 DEF StepOf
  <2>2. tcReq'[r].method = "wait" /\ tcReq'[r].kind = "ok" =>
           \A i \in DOMAIN tcReq'[r].ids :
             /\ tcOutcome'[tcReq'[r].ids[i]] \in Terminal
             /\ tcReq'[r].views[i] = tcOutcome'[tcReq'[r].ids[i]]
    <3> SUFFICES ASSUME tcReq'[r].method = "wait", tcReq'[r].kind = "ok", NEW i \in DOMAIN tcReq[r].ids
                 PROVE  /\ tcOutcome'[tcReq[r].ids[i]] \in Terminal
                        /\ tcReq'[r].views[i] = tcOutcome'[tcReq[r].ids[i]]
      BY <1>6 DEF StepOf
    <3>1. tcReq'[r].views[i] = tcStatus[tcReq[r].ids[i]] /\ tcStatus[tcReq[r].ids[i]] \in Terminal
      BY <1>6 DEF StepOf, AllTerminal, IsTerminal, Views, View
    <3>2. tcOutcome[tcReq[r].ids[i]] = tcStatus[tcReq[r].ids[i]]
      BY <1>0, <1>3, <3>1 DEF OutcomeInv
    <3> QED
      BY <1>1, <1>3, <3>1, <3>2 DEF OutcomeFinal, Terminal
  <2>3. tcReq'[r].pc \in {"looked", "parked"} /\ AllTerminal(r)' => tcRevision' > tcReq'[r].rev
    <3> SUFFICES ASSUME tcReq'[r].pc \in {"looked", "parked"}, AllTerminal(r)'
                 PROVE  tcRevision' > tcReq'[r].rev
      OBVIOUS
    <3>1. UNCHANGED <<tcStatus, tcRevision>> /\ tcReq'[r].rev = tcReq[r].rev /\ tcReq'[r].ids = tcReq[r].ids
      BY <1>6 DEF StepOf
    <3>2. AllTerminal(r)
      BY <3>1 DEF AllTerminal, IsTerminal
    <3>3. tcReq[r].pc = "looked"
      BY <1>6, <3>2 DEF StepOf
    <3> QED
      BY <1>0, <3>1, <3>2, <3>3 DEF RevisionInv
  <2> QED
    BY <1>6, <2>1, <2>2, <2>3 DEF StepOf
<1>7. ASSUME NEW r \in Reqs, NEW m \in Methods, NEW ids \in IdLists, TaskRequest(r, m, ids) PROVE Good(r)
  BY <1>0, <1>1, <1>3, <1>7, RequestStep DEF AnswerInv
<1>8. tcReq' \in [Reqs -> TaskRequests] /\ \A q \in Reqs : Good(q)
  <2>1. CASE \E r \in Reqs : HandleStep(r)
    <3>1. PICK r \in Reqs : HandleStep(r)
      BY <2>1
    <3>2. StepOf(r)
      BY <1>0, <3>1, HandlerStep
    <3> QED
      BY <1>5, <1>6, <3>2 DEF StepOf
  <2>2. CASE \E r \in Reqs, m \in Methods, ids \in IdLists : TaskRequest(r, m, ids)
    <3>1. PICK r \in Reqs, m \in Methods, ids \in IdLists : TaskRequest(r, m, ids)
      BY <2>2
    <3> QED
      BY <1>0, <1>5, <1>7, <3>1, RequestStep
  <2>3. CASE UNCHANGED tcReq
    BY <1>0, <1>5, <2>3 DEF TaskTypeOK
  <2> QED
    BY <2>1, <2>2, <2>3, Untouched
<1> QED
  BY <1>1, <1>2, <1>8 DEF TaskInv, TaskTypeOK, AnswerInv, RevisionInv

(* The initial states satisfy TaskInv. *)
LEMMA TaskInvInit == TaskInit => TaskInv
<1> SUFFICES ASSUME TaskInit PROVE TaskInv
  OBVIOUS
<1>1. NoReq \in TaskRequests
  <2>1. <<>> \in Seq(Terminal \cup {"pending"})
    OBVIOUS
  <2> QED
    BY <2>1 DEF NoReq, TaskRequests, ReqStates, Methods, AnswerKinds
<1>2. tcReq \in [Reqs -> TaskRequests] /\ \A r \in Reqs : tcReq[r] = NoReq
  BY <1>1 DEF TaskInit
<1>3. TaskTypeOK
  <2>1. 0 \in 0..Len(Planes)
    BY DEF Planes
  <2>2. \A r \in Reqs : tcReq[r].rev <= tcRevision
    BY <1>2 DEF TaskInit, NoReq
  <2> QED
    BY <1>2, <2>1, <2>2 DEF TaskInit, TaskTypeOK
<1>4. OutcomeInv /\ AnswerInv /\ RevisionInv
  BY <1>2 DEF TaskInit, OutcomeInv, AnswerInv, RevisionInv, NoReq, Terminal
<1> QED
  BY <1>3, <1>4 DEF TaskInv

(* TaskInv is an invariant of the specification. *)
LEMMA TaskInvHolds == TaskSpec => []TaskInv
  BY TaskInvInit, TaskInvStep, PTL DEF TaskSpec

-----------------------------------------------------------------------------
(* Type correctness of task control.                                       *)
THEOREM TaskTypeCorrect == TaskSpec => []TaskTypeOK
<1>1. TaskInv => TaskTypeOK
  BY DEF TaskInv
<1> QED
  BY <1>1, TaskInvHolds, PTL

(* A successful task_wait shows how every task really ended.               *)
THEOREM WaitCorrect == TaskSpec => []WaitTruthful
<1>1. TaskInv => WaitTruthful
  BY DEF TaskInv, AnswerInv, WaitTruthful, Terminal
<1> QED
  BY <1>1, TaskInvHolds, PTL

(* No completion falls between the look of task_wait at the states and its *)
(* sleep (wait_after_timeout).                                             *)
THEOREM NoLostCompletionCorrect == TaskSpec => []NoLostCompletion
<1>1. TaskInv => NoLostCompletion
  BY DEF TaskInv, RevisionInv, NoLostCompletion
<1> QED
  BY <1>1, TaskInvHolds, PTL
=============================================================================
