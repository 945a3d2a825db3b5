---------------------------- MODULE TaskControl -----------------------------
(***************************************************************************)
(* Task control of the service (crates/mutsuki-service-runtime/src/lib.rs):*)
(* the handlers of task_submit_batch, task_cancel, task_outcome,           *)
(* task_outcomes_batch, task_wait and core_begin_drain beside a Core that  *)
(* runs, finishes and forgets tasks, and the DeferredRuntimeClient through *)
(* which plugins reach the same Core.                                      *)
(*                                                                         *)
(* A handler locks host_runtime for one look at the Core, so it is one     *)
(* step, except task_wait: it subscribes, reads the completion revision,   *)
(* looks at the states, and sleeps for a newer revision or its deadline,   *)
(* blocking the worker thread it runs on all the while.                    *)
(***************************************************************************)
EXTENDS Naturals, FiniteSets, Sequences

CONSTANTS
  Tasks,    \* task ids
  IdLists,  \* the id lists of requests; the same id may be given twice
  Ends,     \* the ways in which tasks end by themselves
  Reqs,     \* control requests
  Workers   \* threads of the async runtime

Terminal == {"completed", "failed", "cancelled", "expired", "dead_letter"}

ASSUME TaskAssumption ==
  /\ Workers \in Nat \ {0}
  /\ IdLists \subseteq Seq(Tasks)
  /\ Ends \subseteq Terminal

VARIABLES
  tcCore,      \* host_runtime holds a Core
  tcDraining,  \* begin_drain was accepted
  tcBound,     \* how many of the deferred client's cells are set
  tcStatus,    \* what the Core says of each task
  tcOutcome,   \* how each task really ended
  tcRevision,  \* the Core's count of completions
  tcReq        \* the requests

tcVars == <<tcCore, tcDraining, tcBound, tcStatus, tcOutcome, tcRevision, tcReq>>

\* The cells of DeferredRuntimeClient in the order in which bind sets them.
Planes == <<"runtime", "task_submitter", "resource_gateway", "resource_registry">>

Methods == {"submit_batch", "cancel", "outcomes_batch", "wait", "begin_drain"}

NoReq == [pc |-> "idle", method |-> "wait", ids |-> <<>>, rev |-> 0,
          kind |-> "none", views |-> <<>>]

ReqStates == {"idle", "queued", "subscribed", "check", "looked", "parked", "final", "done"}

AnswerKinds == {"none", "ok", "timed_out", "bad_request", "failed"}

TaskRequests == [pc : ReqStates, method : Methods, ids : IdLists \cup {<<>>}, rev : Nat,
                 kind : AnswerKinds, views : Seq(Terminal \cup {"pending"})]

TaskTypeOK ==
  /\ tcCore \in BOOLEAN /\ tcDraining \in BOOLEAN /\ tcBound \in 0..Len(Planes)
  /\ tcStatus \in [Tasks -> Terminal \cup {"absent", "live", "evicted"}]
  /\ tcOutcome \in [Tasks -> Terminal \cup {"none"}]
  /\ tcRevision \in Nat
  /\ tcReq \in [Reqs -> TaskRequests]
  /\ \A r \in Reqs : tcReq[r].rev <= tcRevision

TaskInit ==
  /\ tcCore = TRUE /\ tcDraining = FALSE /\ tcBound = 0
  /\ tcStatus = [t \in Tasks |-> "absent"] /\ tcOutcome = [t \in Tasks |-> "none"]
  /\ tcRevision = 0 /\ tcReq = [r \in Reqs |-> NoReq]

-----------------------------------------------------------------------------
\* The Core: it ends tasks, forgets ended ones, and is taken out of
\* host_runtime when the service shuts down.
EndTask(t, outcome) ==
  /\ tcStatus' = [tcStatus EXCEPT ![t] = outcome]
  /\ tcOutcome' = [tcOutcome EXCEPT ![t] = outcome]
  /\ tcRevision' = tcRevision + 1

TaskEnds(t) ==
  /\ tcCore /\ tcStatus[t] = "live"
  /\ \E outcome \in Ends : EndTask(t, outcome)
  /\ UNCHANGED <<tcCore, tcDraining, tcBound, tcReq>>

Evict(t) ==
  /\ tcCore /\ tcStatus[t] \in Terminal
  /\ tcStatus' = [tcStatus EXCEPT ![t] = "evicted"]
  /\ UNCHANGED <<tcCore, tcDraining, tcBound, tcOutcome, tcRevision, tcReq>>

TakeCore ==
  /\ tcCore /\ tcBound = Len(Planes) /\ tcCore' = FALSE
  /\ UNCHANGED <<tcDraining, tcBound, tcStatus, tcOutcome, tcRevision, tcReq>>

\* bind, one cell after the other, while plugins of the booted Core run.
BindPlane ==
  /\ tcBound < Len(Planes) /\ tcBound' = tcBound + 1
  /\ UNCHANGED <<tcCore, tcDraining, tcStatus, tcOutcome, tcRevision, tcReq>>

\* A cell that is not set answers runtime_client.not_bound.
PlaneReady(plane) == \E i \in 1..tcBound : Planes[i] = plane

Submit(tasks) ==
  /\ tcCore /\ ~tcDraining /\ \A t \in tasks : tcStatus[t] = "absent"
  /\ tcStatus' = [t \in Tasks |-> IF t \in tasks THEN "live" ELSE tcStatus[t]]
  /\ UNCHANGED <<tcOutcome, tcRevision>>

Cancel(t) ==
  /\ tcStatus[t] = "live" /\ EndTask(t, "cancelled")

PluginSubmits(t) ==
  /\ PlaneReady("runtime") /\ Submit({t})
  /\ UNCHANGED <<tcCore, tcDraining, tcBound, tcReq>>

PluginCancels(t) ==
  /\ tcCore /\ PlaneReady("task_submitter") /\ Cancel(t)
  /\ UNCHANGED <<tcCore, tcDraining, tcBound, tcReq>>

-----------------------------------------------------------------------------
Known(t) == tcStatus[t] \notin {"absent", "evicted"}

\* resolve_task_handles: an unknown id fails, and so does the second of two
\* equal ones, because the first has removed the snapshot.
Resolved(ids) ==
  /\ \A i \in DOMAIN ids : Known(ids[i])
  /\ \A i, j \in DOMAIN ids : ids[i] = ids[j] => i = j

\* Mutant: a task without a status counts as finished.
IsTerminal_NoStatus(t) == tcStatus[t] \in Terminal \cup {"evicted"}

\* is_terminal_task_status: a task whose record is gone has no status.
IsTerminal(t) == tcStatus[t] \in Terminal

\* to_control_task_outcome: no recorded outcome is shown as pending.
View(t) == IF IsTerminal(t) THEN tcStatus[t] ELSE "pending"

Views(ids) == [i \in DOMAIN ids |-> View(ids[i])]

Blocking(r) == tcReq[r].pc \in {"subscribed", "check", "looked", "parked", "final"}

FreeWorker == Cardinality({r \in Reqs : Blocking(r)}) < Workers

Goto(r, pc) == tcReq' = [tcReq EXCEPT ![r].pc = pc]

Answer(r, kind, views) ==
  tcReq' = [tcReq EXCEPT ![r].pc = "done", ![r].kind = kind, ![r].views = views, ![r].rev = 0]

\* The control socket is opened after bind has returned.
TaskRequest(r, method, ids) ==
  /\ tcReq[r].pc = "idle" /\ tcBound = Len(Planes)
  /\ tcReq' = [tcReq EXCEPT ![r].pc = "queued", ![r].method = method, ![r].ids = ids]
  /\ UNCHANGED <<tcCore, tcDraining, tcBound, tcStatus, tcOutcome, tcRevision>>

Reached(r, method) == tcReq[r].pc = "queued" /\ FreeWorker /\ tcReq[r].method = method

HandleSubmit(r) ==
  LET ids == tcReq[r].ids IN
  /\ Reached(r, "submit_batch")
  /\ \/ ids # <<>> /\ Submit({ids[i] : i \in DOMAIN ids}) /\ Answer(r, "ok", <<>>)
     \/ /\ Answer(r, IF ids = <<>> THEN "bad_request" ELSE "failed", <<>>)
        /\ ids # <<>> => ~tcCore \/ tcDraining \/ \E i \in DOMAIN ids : tcStatus[ids[i]] # "absent"
        /\ UNCHANGED <<tcStatus, tcOutcome, tcRevision>>
  /\ UNCHANGED <<tcCore, tcDraining, tcBound>>

HandleCancel(r) ==
  LET ids == tcReq[r].ids IN
  /\ Reached(r, "cancel") /\ Len(ids) = 1
  /\ IF tcCore /\ Resolved(ids) /\ tcStatus[ids[1]] = "live"
     THEN Cancel(ids[1]) /\ Answer(r, "ok", <<>>)
     ELSE Answer(r, "failed", <<>>) /\ UNCHANGED <<tcStatus, tcOutcome, tcRevision>>
  /\ UNCHANGED <<tcCore, tcDraining, tcBound>>

\* task_outcome and task_outcomes_batch.
HandleOutcomes(r) ==
  LET ids == tcReq[r].ids IN
  /\ Reached(r, "outcomes_batch")
  /\ IF ids = <<>> THEN Answer(r, "bad_request", <<>>)
     ELSE IF tcCore /\ Resolved(ids) THEN Answer(r, "ok", Views(ids))
     ELSE Answer(r, "failed", <<>>)
  /\ UNCHANGED <<tcCore, tcDraining, tcBound, tcStatus, tcOutcome, tcRevision>>

HandleDrain(r) ==
  /\ Reached(r, "begin_drain")
  /\ IF tcCore THEN tcDraining' = TRUE /\ Answer(r, "ok", <<>>)
     ELSE UNCHANGED tcDraining /\ Answer(r, "failed", <<>>)
  /\ UNCHANGED <<tcCore, tcBound, tcStatus, tcOutcome, tcRevision>>

-----------------------------------------------------------------------------
\* task_wait: handles and subscription in one critical section.
WaitSubscribes(r) ==
  LET ids == tcReq[r].ids IN
  /\ Reached(r, "wait")
  /\ IF ids = <<>> THEN Answer(r, "bad_request", <<>>)
     ELSE IF tcCore /\ Resolved(ids) THEN Goto(r, "subscribed")
     ELSE Answer(r, "failed", <<>>)
  /\ UNCHANGED <<tcCore, tcDraining, tcBound, tcStatus, tcOutcome, tcRevision>>

WaitReadsRevision(r) ==
  /\ tcReq[r].pc = "subscribed"
  /\ tcReq' = [tcReq EXCEPT ![r].pc = "check", ![r].rev = tcRevision]
  /\ UNCHANGED <<tcCore, tcDraining, tcBound, tcStatus, tcOutcome, tcRevision>>

AllTerminal(r) == \A i \in DOMAIN tcReq[r].ids : IsTerminal(tcReq[r].ids[i])

\* One round of the loop: the states, and the deadline.
WaitChecks(r) ==
  /\ tcReq[r].pc = "check"
  /\ \/ ~tcCore /\ Answer(r, "failed", <<>>)
     \/ tcCore /\ AllTerminal(r) /\ Answer(r, "ok", Views(tcReq[r].ids))
     \/ tcCore /\ ~AllTerminal(r) /\ Answer(r, "timed_out", Views(tcReq[r].ids))
     \/ tcCore /\ ~AllTerminal(r) /\ Goto(r, "looked")
  /\ UNCHANGED <<tcCore, tcDraining, tcBound, tcStatus, tcOutcome, tcRevision>>

\* Mutant: the wait sleeps for a revision newer than the present one.
WaitSleeps_Fresh(r) ==
  /\ tcReq[r].pc = "looked"
  /\ tcReq' = [tcReq EXCEPT ![r].pc = "parked", ![r].rev = tcRevision]
  /\ UNCHANGED <<tcCore, tcDraining, tcBound, tcStatus, tcOutcome, tcRevision>>

\* wait_after_timeout is called with the revision read before the look.
WaitSleeps(r) ==
  /\ tcReq[r].pc = "looked" /\ Goto(r, "parked")
  /\ UNCHANGED <<tcCore, tcDraining, tcBound, tcStatus, tcOutcome, tcRevision>>

\* A newer revision ends the sleep, or the deadline does.
WaitWakes(r) ==
  /\ tcReq[r].pc = "parked" /\ tcRevision > tcReq[r].rev
  /\ tcReq' = [tcReq EXCEPT ![r].pc = "check", ![r].rev = tcRevision]
  /\ UNCHANGED <<tcCore, tcDraining, tcBound, tcStatus, tcOutcome, tcRevision>>

\* Mutant: a wait without a deadline.
WaitExpires_Never(r) == FALSE /\ UNCHANGED tcVars

WaitExpires(r) ==
  /\ tcReq[r].pc = "parked"
  /\ Goto(r, "final")
  /\ UNCHANGED <<tcCore, tcDraining, tcBound, tcStatus, tcOutcome, tcRevision>>

WaitReportsLast(r) ==
  /\ tcReq[r].pc = "final"
  /\ IF tcCore THEN Answer(r, "timed_out", Views(tcReq[r].ids)) ELSE Answer(r, "failed", <<>>)
  /\ UNCHANGED <<tcCore, tcDraining, tcBound, tcStatus, tcOutcome, tcRevision>>

-----------------------------------------------------------------------------
HandleStep(r) ==
  \/ HandleSubmit(r) \/ HandleCancel(r) \/ HandleOutcomes(r) \/ HandleDrain(r)
  \/ WaitSubscribes(r) \/ WaitReadsRevision(r) \/ WaitChecks(r) \/ WaitSleeps(r)
  \/ WaitWakes(r) \/ WaitExpires(r) \/ WaitReportsLast(r)

TaskNext ==
  \/ \E t \in Tasks : TaskEnds(t) \/ Evict(t) \/ PluginSubmits(t) \/ PluginCancels(t)
  \/ TakeCore \/ BindPlane
  \/ \E r \in Reqs : HandleStep(r)
  \/ \E r \in Reqs, m \in Methods, ids \in IdLists :
       (m = "cancel" => Len(ids) = 1) /\ (m = "begin_drain" => ids = <<>>) /\ TaskRequest(r, m, ids)

\* A handler that runs on a worker goes on, the deadline of a wait passes, and
\* a free worker takes up a queued request.
TaskFairness == \A r \in Reqs : WF_tcVars(HandleStep(r))

TaskSpec == TaskInit /\ [][TaskNext]_tcVars

-----------------------------------------------------------------------------
\* A wait that reports success shows how every task really ended: it neither
\* takes an unfinished task for a finished one nor one whose record is gone.
WaitTruthful ==
  \A r \in Reqs :
    tcReq[r].method = "wait" /\ tcReq[r].kind = "ok" =>
      \A i \in DOMAIN tcReq[r].ids :
        tcReq[r].views[i] # "pending" /\ tcReq[r].views[i] = tcOutcome[tcReq[r].ids[i]]

\* No completion is lost between the look at the states and the sleep: a
\* sleeping wait whose tasks have all ended is about to be woken.
NoLostCompletion ==
  \A r \in Reqs : tcReq[r].pc = "parked" /\ AllTerminal(r) => tcRevision > tcReq[r].rev

\* Every request is answered, although each wait blocks the thread it runs on
\* and all the workers may be taken by waits for tasks that never end.
TaskRequestEnds == \A r \in Reqs : tcReq[r].pc = "queued" ~> tcReq[r].pc = "done"
=============================================================================
