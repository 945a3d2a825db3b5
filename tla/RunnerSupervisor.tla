-------------------------- MODULE RunnerSupervisor --------------------------
(***************************************************************************)
(* The sidecar process supervisor:                                         *)
(* crates/mutsuki-service-runner-supervisor/src/lib.rs.                    *)
(*                                                                         *)
(* One mutex guards the runner table, so operations run one at a time; an  *)
(* operation that waits for a process to stop keeps the mutex and is `op'. *)
(* While it waits the child has been taken out of the table (stop_child    *)
(* starts with child.take()), processes exit on their own, and the         *)
(* operation itself may be dropped: control requests run in tasks that     *)
(* cancel_pending and the drain deadline abort.                            *)
(*                                                                         *)
(* Dropping a Child kills its process (kill_on_drop).                      *)
(***************************************************************************)
EXTENDS Integers, FiniteSets

CONSTANTS
  Runners,   \* runner ids
  Specs,     \* the launch specifications a runner can have
  NoSpec,    \* the id is not in the table
  NoRunner   \* no runner is being stopped

ASSUME SupervisorAssumption ==
  /\ NoSpec \notin Specs
  /\ NoRunner \notin Runners

VARIABLES
  spec,      \* the table: the spec of each runner id, or NoSpec
  status,    \* ManagedRunner.state
  child,     \* ManagedRunner.child: none, alive, or exited and not yet noticed
  op,        \* the operation that holds the mutex across an await
  procs      \* how many processes of each runner the operating system runs

vars == <<spec, status, child, op, procs>>

(* kind   - what the operation does                                        *)
(* target - the runner stop_child waits for, NoRunner between two of them; *)
(*          its Child is then held by the operation, not by the table      *)
(* todo   - the runners that have still to be stopped                      *)
(* want   - the desired table of reconcile                                 *)
(* errors - stop_child failed for some runner                              *)
OpKinds == {"none", "restart", "stop", "reconcile", "shutdown"}

Table == [Runners -> Specs \cup {NoSpec}]

Op == [kind : OpKinds, target : Runners \cup {NoRunner}, todo : SUBSET Runners,
       want : Table, errors : BOOLEAN]

EmptyTable == [r \in Runners |-> NoSpec]

Idle == [kind |-> "none", target |-> NoRunner, todo |-> {}, want |-> EmptyTable,
         errors |-> FALSE]

TypeOK ==
  /\ spec \in Table
  /\ status \in [Runners -> {"running", "exited", "failed", "stopped"}]
  /\ child \in [Runners -> {"none", "alive", "exited"}]
  /\ op \in Op
  /\ procs \in [Runners -> Nat]

Init ==
  /\ spec = EmptyTable
  /\ status = [r \in Runners |-> "stopped"]
  /\ child = [r \in Runners |-> "none"]
  /\ op = Idle
  /\ procs = [r \in Runners |-> 0]

Known(r) == spec[r] # NoSpec

(* A process ends by itself at any time.                                   *)
ProcessExits(r) ==
  /\ child[r] = "alive"
  /\ child' = [child EXCEPT ![r] = "exited"]
  /\ procs' = [procs EXCEPT ![r] = @ - 1]
  /\ UNCHANGED <<spec, status, op>>

\* Mutant: the command is built without kill_on_drop.
KillOnDrop_Off == 0

(* How many processes dropping a live Child ends.                          *)
KillOnDrop == 1

(* Replacing the entry of r drops a live child it still holds; spawn_child *)
(* then starts a new process.                                              *)
Respawned(r) == (IF child[r] = "alive" THEN procs[r] - KillOnDrop ELSE procs[r]) + 1

-----------------------------------------------------------------------------
(* Operations that do not wait.                                            *)

(* A runner recorded as running is refused, without a refresh.             *)
Start(r, s) ==
  /\ op = Idle
  /\ ~(Known(r) /\ status[r] = "running")
  /\ spec' = [spec EXCEPT ![r] = s]
  /\ status' = [status EXCEPT ![r] = "running"]
  /\ child' = [child EXCEPT ![r] = "alive"]
  /\ procs' = [procs EXCEPT ![r] = Respawned(r)]
  /\ UNCHANGED op

(* refresh_runner on every entry; `failed' are the children whose try_wait *)
(* returns an error.                                                       *)
Refresh ==
  \E failed \in SUBSET {r \in Runners : child[r] # "none"} :
    /\ status' = [r \in Runners |->
                    CASE child[r] = "none" -> status[r]
                      [] child[r] # "none" /\ r \in failed -> "failed"
                      [] child[r] = "exited" /\ r \notin failed -> "exited"
                      [] child[r] = "alive" /\ r \notin failed -> "running"]
    /\ child' = [r \in Runners |->
                   IF child[r] = "exited" /\ r \notin failed THEN "none" ELSE child[r]]

List ==
  /\ op = Idle
  /\ Refresh
  /\ UNCHANGED <<spec, op, procs>>

-----------------------------------------------------------------------------
(* Operations that stop processes.                                         *)

BeginRestart(r) ==
  /\ op = Idle
  /\ Known(r)
  /\ op' = [Idle EXCEPT !.kind = "restart", !.todo = {r}]
  /\ UNCHANGED <<spec, status, child, procs>>

BeginStop(r) ==
  /\ op = Idle
  /\ Known(r)
  /\ op' = [Idle EXCEPT !.kind = "stop", !.todo = {r}]
  /\ UNCHANGED <<spec, status, child, procs>>

\* Mutant: only the runners recorded as running are stopped at shutdown.
BeginShutdown_RunningOnly ==
  /\ op = Idle
  /\ op' = [Idle EXCEPT !.kind = "shutdown",
                        !.todo = {r \in Runners : Known(r) /\ status[r] = "running"}]
  /\ UNCHANGED <<spec, status, child, procs>>

BeginShutdown ==
  /\ op = Idle
  /\ op' = [Idle EXCEPT !.kind = "shutdown", !.todo = {r \in Runners : Known(r)}]
  /\ UNCHANGED <<spec, status, child, procs>>

\* Mutant: only ids that are no longer desired are stopped, not changed specs.
BeginReconcile_RemovedOnly(want) ==
  /\ op = Idle
  /\ Refresh
  /\ op' = [Idle EXCEPT !.kind = "reconcile", !.want = want,
                        !.todo = {r \in Runners : Known(r) /\ want[r] = NoSpec}]
  /\ UNCHANGED <<spec, procs>>

(* reconcile refreshes the table, then stops what is not desired or is     *)
(* desired with another spec.                                              *)
BeginReconcile(want) ==
  /\ op = Idle
  /\ Refresh
  /\ op' = [Idle EXCEPT !.kind = "reconcile", !.want = want,
                        !.todo = {r \in Runners : Known(r) /\ want[r] # spec[r]}]
  /\ UNCHANGED <<spec, procs>>

Loops == op.kind \in {"reconcile", "shutdown"}

(* The operation after stop_child returned Ok for r: stop and shutdown     *)
(* keep the entry, reconcile removes it, restart spawns a new process      *)
(* unless the spawn fails.                                                 *)
Stopped(r, left) ==
  /\ op' = IF Loops THEN [op EXCEPT !.target = NoRunner, !.todo = @ \ {r}] ELSE Idle
  /\ spec' = IF op.kind = "reconcile" THEN [spec EXCEPT ![r] = NoSpec] ELSE spec
  /\ \/ /\ op.kind = "restart"
        /\ status' = [status EXCEPT ![r] = "running"]
        /\ child' = [child EXCEPT ![r] = "alive"]
        /\ procs' = [procs EXCEPT ![r] = left + 1]
     \/ /\ status' = [status EXCEPT ![r] = "stopped"]
        /\ child' = [child EXCEPT ![r] = "none"]
        /\ procs' = [procs EXCEPT ![r] = left]

(* stop_child finds no child, or one that has already exited.              *)
StopAtOnce(r) ==
  /\ op.target = NoRunner
  /\ r \in op.todo
  /\ child[r] # "alive"
  /\ Stopped(r, procs[r])

\* Mutant: the child is borrowed while it is waited for, not taken.
TakeChild_Borrowed(r) ==
  /\ op.target = NoRunner
  /\ r \in op.todo
  /\ child[r] = "alive"
  /\ op' = [op EXCEPT !.target = r]
  /\ UNCHANGED <<spec, status, child, procs>>

(* stop_child takes the child out of the entry and waits.                  *)
TakeChild(r) ==
  /\ op.target = NoRunner
  /\ r \in op.todo
  /\ child[r] = "alive"
  /\ child' = [child EXCEPT ![r] = "none"]
  /\ op' = [op EXCEPT !.target = r]
  /\ UNCHANGED <<spec, status, procs>>

(* The process exits within the grace period.                              *)
ExitsInTime(r) ==
  /\ op.target = r
  /\ Stopped(r, procs[r] - 1)

\* Mutant: the wait has no deadline.
GraceExpires_Never(r) == FALSE /\ ExitsInTime(r)

(* The grace period expires and the process is killed.                     *)
GraceExpires(r) ==
  /\ op.target = r
  /\ Stopped(r, procs[r] - 1)

(* kill returns an error: the child was taken, so it is dropped here, and  *)
(* the state recorded for the runner is left as it was.                    *)
KillFails(r) ==
  /\ op.target = r
  /\ op' = IF Loops
             THEN [op EXCEPT !.target = NoRunner, !.todo = @ \ {r}, !.errors = TRUE]
             ELSE Idle
  /\ procs' = [procs EXCEPT ![r] = @ - KillOnDrop]
  /\ UNCHANGED <<spec, status, child>>

(* The task that runs the operation is aborted while it waits: the future  *)
(* is dropped with the child it holds and the mutex is released.  The      *)
(* service's own shutdown is not a request and is never aborted.           *)
OperationDropped ==
  /\ op.target # NoRunner
  /\ op.kind # "shutdown"
  /\ op' = Idle
  /\ procs' = [procs EXCEPT ![op.target] = @ - KillOnDrop]
  /\ UNCHANGED <<spec, status, child>>

LoopDone == op.todo = {} /\ op.target = NoRunner

(* The second loop of reconcile starts what is desired and not recorded as *)
(* running; `spawned' are the ones whose spawn succeeds.                   *)
FinishReconcile ==
  /\ op.kind = "reconcile"
  /\ LoopDone
  /\ LET needed == {r \in Runners : /\ op.want[r] # NoSpec
                                    /\ ~Known(r) \/ status[r] # "running"}
     IN \E spawned \in SUBSET needed :
          /\ spec' = [r \in Runners |-> IF r \in spawned THEN op.want[r] ELSE spec[r]]
          /\ status' = [r \in Runners |-> IF r \in spawned THEN "running" ELSE status[r]]
          /\ child' = [r \in Runners |-> IF r \in spawned THEN "alive" ELSE child[r]]
          /\ procs' = [r \in Runners |-> IF r \in spawned THEN Respawned(r) ELSE procs[r]]
  /\ op' = Idle

FinishShutdown ==
  /\ op.kind = "shutdown"
  /\ LoopDone
  /\ op' = Idle
  /\ UNCHANGED <<spec, status, child, procs>>

-----------------------------------------------------------------------------
Waits(r) ==
  \/ StopAtOnce(r)
  \/ TakeChild(r)
  \/ ExitsInTime(r)
  \/ GraceExpires(r)
  \/ KillFails(r)

Next ==
  \/ \E r \in Runners :
       \/ ProcessExits(r)
       \/ \E s \in Specs : Start(r, s)
       \/ BeginRestart(r)
       \/ BeginStop(r)
       \/ Waits(r)
  \/ List
  \/ BeginShutdown
  \/ \E want \in Table : BeginReconcile(want)
  \/ OperationDropped
  \/ FinishReconcile
  \/ FinishShutdown

Spec == Init /\ [][Next]_vars

(* The holder of the mutex is polled and the grace timer fires; nothing    *)
(* makes a process exit, a client call or a request be aborted.            *)
Fairness ==
  /\ \A r \in Runners :
       WF_vars(StopAtOnce(r) \/ TakeChild(r) \/ GraceExpires(r))
  /\ WF_vars(FinishReconcile \/ FinishShutdown)

FairSpec == Spec /\ Fairness

-----------------------------------------------------------------------------
(* A runner has at most one process, and every process is owned by exactly *)
(* one handle: the entry of the table or the operation that is stopping    *)
(* it.  No restart, replacement, failed kill or aborted request leaves a   *)
(* process behind or starts a second one (spawn_child, stop_child).        *)
EveryProcessOwned ==
  \A r \in Runners :
    procs[r] = IF child[r] = "alive" \/ op.target = r THEN 1 ELSE 0

(* A reconcile all of whose stops succeeded leaves only desired ids in the *)
(* table, each with the desired spec (RunnerSupervisor::reconcile).        *)
ReconcileLeavesOnlyDesired ==
  [][op.kind = "reconcile" /\ LoopDone /\ ~op.errors
       => \A r \in Runners : spec'[r] \in {op.want[r], NoSpec}]_vars

(* When shutdown returns no process is left, whatever was recorded about   *)
(* the runners and however the kills went (RunnerSupervisor::shutdown).    *)
ShutdownLeavesNoProcess ==
  [][op.kind = "shutdown" /\ op' = Idle => \A r \in Runners : procs'[r] = 0]_vars

(* No operation keeps the supervisor's mutex for ever, even if a process   *)
(* never exits by itself (stop_child, graceful timeout).                   *)
OperationEnds == (op # Idle) ~> (op = Idle)

(* A runner reported as running has a process, or had one that exited      *)
(* since the last refresh: the supervisor's job is to "report process      *)
(* state" (docs/runner-supervisor.md).                                     *)
RunningHasProcess ==
  \A r \in Runners : Known(r) /\ status[r] = "running" /\ op.target # r => child[r] # "none"
=============================================================================
