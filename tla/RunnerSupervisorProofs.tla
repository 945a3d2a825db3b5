----------------------- MODULE RunnerSupervisorProofs -----------------------
(***************************************************************************)
(* Theorems about RunnerSupervisor, for any runners and specifications.    *)
(***************************************************************************)
EXTENDS RunnerSupervisor, TLAPS

(* The operation that holds the mutex: idle means idle, the runner being   *)
(* stopped is one of those to stop and its child has left the table, and   *)
(* whatever is to be stopped is known.                                     *)
OperationInv ==
  /\ op.kind = "none" => op = Idle
  /\ op.target # NoRunner => op.target \in op.todo /\ child[op.target] = "none"
  /\ \A r \in op.todo : Known(r)

(* A live process belongs to a known runner, and a shutdown in progress    *)
(* has all of them still to stop.                                          *)
AliveInv ==
  /\ \A r \in Runners : child[r] = "alive" => Known(r)
  /\ op.kind = "shutdown" => \A r \in Runners : child[r] = "alive" => r \in op.todo

(* A reconcile without errors has dealt with every runner not in todo.     *)
ReconcileInv ==
  op.kind = "reconcile" /\ ~op.errors =>
    \A r \in Runners : r \in op.todo \/ spec[r] \in {op.want[r], NoSpec}

SupervisorInv == TypeOK /\ EveryProcessOwned /\ OperationInv /\ AliveInv /\ ReconcileInv

(* The idle operation is an operation.                                     *)
LEMMA IdleType ==
  /\ Idle \in Op
  /\ Idle.kind = "none" /\ Idle.target = NoRunner /\ Idle.todo = {} /\ Idle.errors = FALSE
  BY DEF Idle, Op, OpKinds, Table, EmptyTable

(* The initial state satisfies the invariant.                              *)
LEMMA SupervisorInit == Init => SupervisorInv
<1> SUFFICES ASSUME Init PROVE SupervisorInv
  OBVIOUS
<1>1. TypeOK
  BY IdleType DEF Init, TypeOK, Table, EmptyTable
<1>2. EveryProcessOwned
  BY IdleType, SupervisorAssumption DEF Init, EveryProcessOwned
<1>3. OperationInv /\ AliveInv /\ ReconcileInv
  BY IdleType DEF Init, OperationInv, AliveInv, ReconcileInv
<1> QED
  BY <1>1, <1>2, <1>3 DEF SupervisorInv

(* The operations that begin while the mutex is free.                      *)
LEMMA BeginPreserves ==
  ASSUME SupervisorInv, NEW o \in Op, op = Idle, op' = o, o.kind # "none", o.target = NoRunner,
         \A r \in o.todo : Known(r),
         UNCHANGED <<spec, procs>>,
         status' \in [Runners -> {"running", "exited", "failed", "stopped"}],
         child' \in [Runners -> {"none", "alive", "exited"}],
         \A r \in Runners : child'[r] = "alive" <=> child[r] = "alive",
         o.kind = "shutdown" => \A r \in Runners : Known(r) => r \in o.todo,
         o.kind = "reconcile" => \A r \in Runners : r \in o.todo \/ spec[r] \in {o.want[r], NoSpec}
  PROVE  SupervisorInv'
<1> USE DEF SupervisorInv
<1>1. TypeOK'
  BY DEF TypeOK
<1>2. EveryProcessOwned'
  BY IdleType, SupervisorAssumption DEF EveryProcessOwned
<1>3. OperationInv' /\ AliveInv' /\ ReconcileInv'
  BY DEF OperationInv, AliveInv, ReconcileInv, Known
<1> QED
  BY <1>1, <1>2, <1>3

(* refresh_runner changes neither which processes live nor the types.      *)
LEMMA RefreshFacts ==
  ASSUME TypeOK, Refresh
  PROVE  /\ status' \in [Runners -> {"running", "exited", "failed", "stopped"}]
         /\ child' \in [Runners -> {"none", "alive", "exited"}]
         /\ \A r \in Runners : child'[r] = "alive" <=> child[r] = "alive"
  BY DEF Refresh, TypeOK

(* stop_child has returned for r, with no process of r left.               *)
LEMMA StoppedPreserves ==
  ASSUME SupervisorInv, NEW r \in Runners, NEW left, left = 0, Stopped(r, left),
         r \in op.todo, child[r] # "alive", op.target \in {NoRunner, r}
  PROVE  SupervisorInv'
<1> USE DEF SupervisorInv
<1>0. op \in Op /\ op.kind # "none" /\ op.todo \subseteq Runners
  BY IdleType DEF OperationInv, TypeOK, Op
<1>1. op' \in Op /\ op'.target = NoRunner /\ op'.todo \subseteq op.todo \ {r}
      /\ (op'.kind # "none" => op'.kind = op.kind /\ op'.todo = op.todo \ {r}
                               /\ op'.want = op.want /\ op'.errors = op.errors)
      /\ (op'.kind = "none" => op' = Idle)
      /\ (op.kind \in {"restart", "stop"} => op' = Idle)
  BY <1>0, IdleType DEF Stopped, Loops, Op
<1>2. spec' \in Table /\ (\A q \in Runners : spec'[q] = spec[q] \/ (q = r /\ spec'[q] = NoSpec))
      /\ (op.kind # "reconcile" => spec' = spec)
      /\ (op.kind = "reconcile" => spec'[r] = NoSpec)
  BY DEF Stopped, TypeOK, Table
<1>3. /\ status' \in [Runners -> {"running", "exited", "failed", "stopped"}]
      /\ child' \in [Runners -> {"none", "alive", "exited"}]
      /\ \A q \in Runners \ {r} : child'[q] = child[q] /\ procs'[q] = procs[q]
      /\ procs' \in [Runners -> Nat]
      /\ \/ op.kind = "restart" /\ child'[r] = "alive" /\ procs'[r] = 1
         \/ child'[r] = "none" /\ procs'[r] = 0
  BY DEF Stopped, TypeOK
<1>4. TypeOK'
  BY <1>1, <1>2, <1>3 DEF TypeOK
<1>5. EveryProcessOwned'
  BY <1>1, <1>3, SupervisorAssumption DEF EveryProcessOwned
<1>6. OperationInv'
  <2>1. \A q \in op'.todo : q \in Runners /\ q \in op.todo /\ spec'[q] = spec[q]
    BY <1>0, <1>1, <1>2
  <2> QED
    BY <1>1, <2>1 DEF OperationInv, Known
<1>7. AliveInv'
  BY <1>0, <1>1, <1>2, <1>3, IdleType DEF AliveInv, OperationInv, Known
<1>8. ReconcileInv'
  <2>1. ASSUME op'.kind = "reconcile", ~op'.errors, NEW q \in Runners
        PROVE  q \in op'.todo \/ spec'[q] \in {op'.want[q], NoSpec}
    <3>1. op.kind = "reconcile" /\ ~op.errors /\ op'.want = op.want /\ op'.todo = op.todo \ {r}
      BY <2>1, <1>1
    <3> QED
      BY <3>1, <1>2 DEF ReconcileInv
  <2> QED
    BY <2>1 DEF ReconcileInv
<1> QED
  BY <1>4, <1>5, <1>6, <1>7, <1>8

(* A child handle is dropped while its runner is being stopped: by a kill  *)
(* that failed or with the operation itself.                               *)
LEMMA DroppedPreserves ==
  ASSUME SupervisorInv, NEW o \in Op, op' = o, op.target \in Runners, o.target = NoRunner,
         procs' = [procs EXCEPT ![op.target] = @ - KillOnDrop],
         UNCHANGED <<spec, status, child>>,
         \/ o = Idle
         \/ o.kind = op.kind /\ o.kind # "none" /\ o.todo = op.todo \ {op.target} /\ o.errors = TRUE
  PROVE  SupervisorInv'
<1> USE DEF SupervisorInv
<1>1. procs[op.target] = 1 /\ child[op.target] = "none"
  BY SupervisorAssumption DEF EveryProcessOwned, OperationInv
<1>2. TypeOK'
  BY <1>1 DEF TypeOK, KillOnDrop
<1>3. EveryProcessOwned'
  BY <1>1, SupervisorAssumption DEF EveryProcessOwned, TypeOK, KillOnDrop
<1>4. OperationInv' /\ AliveInv'
  BY <1>1, IdleType DEF OperationInv, AliveInv, Known
<1>5. ReconcileInv'
  BY IdleType DEF ReconcileInv
<1> QED
  BY <1>2, <1>3, <1>4, <1>5

(* New processes are started for the runners of S, whose old children are  *)
(* dropped, while nothing is being stopped.                                *)
LEMMA SpawnPreserves ==
  ASSUME SupervisorInv, NEW S \in SUBSET Runners, op.target = NoRunner, op' = Idle,
         spec' \in Table, \A r \in Runners : spec'[r] = spec[r] \/ r \in S,
         \A r \in S : spec'[r] # NoSpec,
         status' \in [Runners -> {"running", "exited", "failed", "stopped"}],
         child' = [r \in Runners |-> IF r \in S THEN "alive" ELSE child[r]],
         procs' = [r \in Runners |-> IF r \in S THEN Respawned(r) ELSE procs[r]]
  PROVE  SupervisorInv'
<1> USE DEF SupervisorInv
<1>1. \A r \in Runners : Respawned(r) = 1
  BY SupervisorAssumption DEF EveryProcessOwned, Respawned, KillOnDrop
<1>2. TypeOK'
  BY <1>1, IdleType DEF TypeOK
<1>3. EveryProcessOwned'
  BY <1>1, IdleType, SupervisorAssumption DEF EveryProcessOwned
<1>4. OperationInv' /\ AliveInv' /\ ReconcileInv'
  BY IdleType DEF OperationInv, AliveInv, ReconcileInv, Known
<1> QED
  BY <1>2, <1>3, <1>4

(* Every step preserves the invariant.                                     *)
LEMMA SupervisorStep == SupervisorInv /\ [Next]_vars => SupervisorInv'
<1> SUFFICES ASSUME SupervisorInv, [Next]_vars PROVE SupervisorInv'
  OBVIOUS
<1> USE DEF SupervisorInv
<1>1. ASSUME NEW r \in Runners, ProcessExits(r) PROVE SupervisorInv'
  <2>1. procs[r] = 1 /\ op.target # r
    BY <1>1, SupervisorAssumption DEF ProcessExits, EveryProcessOwned, OperationInv
  <2>2. TypeOK' /\ EveryProcessOwned'
    BY <1>1, <2>1 DEF ProcessExits, TypeOK, EveryProcessOwned
  <2>3. OperationInv' /\ AliveInv' /\ ReconcileInv'
    BY <1>1, <2>1 DEF ProcessExits, TypeOK, OperationInv, AliveInv, ReconcileInv, Known
  <2> QED
    BY <2>2, <2>3
<1>2. ASSUME NEW r \in Runners, NEW s \in Specs, Start(r, s) PROVE SupervisorInv'
  <2>1. /\ spec' \in Table /\ spec'[r] = s /\ s # NoSpec
        /\ \A q \in Runners : spec'[q] = spec[q] \/ q \in {r}
    BY <1>2, SupervisorAssumption DEF Start, TypeOK, Table
  <2>2. /\ status' \in [Runners -> {"running", "exited", "failed", "stopped"}]
        /\ child' = [q \in Runners |-> IF q \in {r} THEN "alive" ELSE child[q]]
        /\ procs' = [q \in Runners |-> IF q \in {r} THEN Respawned(q) ELSE procs[q]]
        /\ op' = Idle /\ op.target = NoRunner
    BY <1>2, IdleType DEF Start, TypeOK
  <2> QED
    BY <2>1, <2>2, SpawnPreserves, ZenonT(30)
<1>3. ASSUME NEW r \in Runners, BeginRestart(r) \/ BeginStop(r) PROVE SupervisorInv'
  <2>1. op' \in Op /\ op'.kind \in {"restart", "stop"} /\ op'.target = NoRunner /\ op'.todo = {r}
    <3>1. CASE BeginRestart(r)
      BY <3>1, IdleType DEF BeginRestart, Op, OpKinds
    <3>2. CASE BeginStop(r)
      BY <3>2, IdleType DEF BeginStop, Op, OpKinds
    <3> QED
      BY <1>3, <3>1, <3>2
  <2>2. op = Idle /\ Known(r) /\ UNCHANGED <<spec, status, child, procs>>
    BY <1>3 DEF BeginRestart, BeginStop
  <2> QED
    BY <2>1, <2>2, BeginPreserves DEF TypeOK
<1>4. CASE BeginShutdown
  <2>1. op' \in Op /\ op'.kind = "shutdown" /\ op'.target = NoRunner
        /\ op'.todo = {r \in Runners : Known(r)}
    BY <1>4, IdleType DEF BeginShutdown, Op, OpKinds
  <2>2. op = Idle /\ UNCHANGED <<spec, status, child, procs>>
    BY <1>4 DEF BeginShutdown
  <2> QED
    BY <2>1, <2>2, BeginPreserves DEF TypeOK
<1>5. ASSUME NEW want \in Table, BeginReconcile(want) PROVE SupervisorInv'
  <2>1. op' \in Op /\ op'.kind = "reconcile" /\ op'.target = NoRunner /\ op'.want = want
        /\ op'.todo = {r \in Runners : Known(r) /\ want[r] # spec[r]}
    BY <1>5, IdleType DEF BeginReconcile, Op, OpKinds
  <2>2. op = Idle /\ UNCHANGED <<spec, procs>> /\ Refresh
    BY <1>5 DEF BeginReconcile
  <2>3. \A r \in Runners : r \in op'.todo \/ spec[r] \in {op'.want[r], NoSpec}
    BY <2>1 DEF Known
  <2> QED
    BY <2>1, <2>2, <2>3, RefreshFacts, BeginPreserves
<1>6. CASE List
  <2>1. /\ op' = op /\ op = Idle /\ UNCHANGED <<spec, procs>>
        /\ status' \in [Runners -> {"running", "exited", "failed", "stopped"}]
        /\ child' \in [Runners -> {"none", "alive", "exited"}]
        /\ \A r \in Runners : child'[r] = "alive" <=> child[r] = "alive"
    BY <1>6, RefreshFacts DEF List
  <2>2. TypeOK' /\ EveryProcessOwned'
    BY <2>1 DEF TypeOK, EveryProcessOwned
  <2>3. OperationInv' /\ AliveInv' /\ ReconcileInv'
    BY <2>1, IdleType DEF OperationInv, AliveInv, ReconcileInv, Known
  <2> QED
    BY <2>2, <2>3
<1>7. ASSUME NEW r \in Runners, StopAtOnce(r) PROVE SupervisorInv'
  <2>1. procs[r] = 0
    BY <1>7, SupervisorAssumption DEF StopAtOnce, EveryProcessOwned
  <2> QED
    BY <1>7, <2>1, StoppedPreserves DEF StopAtOnce
<1>8. ASSUME NEW r \in Runners, TakeChild(r) PROVE SupervisorInv'
  <2>1. op \in Op /\ op' \in Op /\ op' = [op EXCEPT !.target = r]
    BY <1>8 DEF TakeChild, TypeOK, Op
  <2>2. /\ op'.target = r /\ op'.todo = op.todo /\ op'.kind = op.kind /\ op'.want = op.want
        /\ op'.errors = op.errors /\ r \in op.todo /\ op.target = NoRunner
        /\ op.kind # "none"
    BY <1>8, <2>1, IdleType DEF TakeChild, Op, OperationInv
  <2>3. TypeOK'
    BY <1>8, <2>1 DEF TakeChild, TypeOK
  <2>4. EveryProcessOwned'
    BY <1>8, <2>2, SupervisorAssumption DEF TakeChild, TypeOK, EveryProcessOwned
  <2>5. OperationInv' /\ AliveInv' /\ ReconcileInv'
    BY <1>8, <2>2 DEF TakeChild, TypeOK, OperationInv, AliveInv, ReconcileInv, Known
  <2> QED
    BY <2>3, <2>4, <2>5
<1>9. ASSUME NEW r \in Runners, ExitsInTime(r) \/ GraceExpires(r) PROVE SupervisorInv'
  <2>1. op.target = r /\ Stopped(r, procs[r] - 1) /\ r \in op.todo /\ child[r] = "none"
    BY <1>9, SupervisorAssumption DEF ExitsInTime, GraceExpires, OperationInv
  <2>2. procs[r] - 1 = 0
    BY <2>1, SupervisorAssumption DEF EveryProcessOwned
  <2> QED
    BY <2>1, <2>2, StoppedPreserves
<1>10. ASSUME NEW r \in Runners, KillFails(r) PROVE SupervisorInv'
  <2>1. op \in Op /\ op.target = r
    BY <1>10 DEF KillFails, TypeOK
  <2>2. /\ op' \in Op /\ op'.target = NoRunner
        /\ \/ op' = Idle
           \/ op'.kind = op.kind /\ op'.kind # "none" /\ op'.todo = op.todo \ {op.target}
              /\ op'.errors = TRUE
    BY <1>10, <2>1, IdleType DEF KillFails, Loops, Op
  <2> QED
    BY <1>10, <2>1, <2>2, DroppedPreserves DEF KillFails
<1>11. CASE OperationDropped
  <2>1. op.target \in Runners /\ op' = Idle
    BY <1>11 DEF OperationDropped, TypeOK, Op
  <2> QED
    BY <1>11, <2>1, IdleType, DroppedPreserves DEF OperationDropped
<1>12. CASE FinishReconcile
  <2>1. PICK S \in SUBSET {r \in Runners : op.want[r] # NoSpec /\ (~Known(r) \/ status[r] # "running")} :
          /\ spec' = [r \in Runners |-> IF r \in S THEN op.want[r] ELSE spec[r]]
          /\ status' = [r \in Runners |-> IF r \in S THEN "running" ELSE status[r]]
          /\ child' = [r \in Runners |-> IF r \in S THEN "alive" ELSE child[r]]
          /\ procs' = [r \in Runners |-> IF r \in S THEN Respawned(r) ELSE procs[r]]
    BY <1>12 DEF FinishReconcile
  <2>2. op.target = NoRunner /\ op' = Idle
    BY <1>12 DEF FinishReconcile, LoopDone
  <2>3. spec' \in Table /\ \A r \in S : spec'[r] # NoSpec
    BY <2>1 DEF TypeOK, Op, Table
  <2>4. status' \in [Runners -> {"running", "exited", "failed", "stopped"}]
    BY <2>1 DEF TypeOK
  <2> QED
    BY <2>1, <2>2, <2>3, <2>4, SpawnPreserves
<1>13. CASE FinishShutdown
  <2>1. op' = Idle /\ op.target = NoRunner /\ UNCHANGED <<spec, status, child, procs>>
    BY <1>13 DEF FinishShutdown, LoopDone
  <2> QED
    BY <2>1, IdleType DEF TypeOK, EveryProcessOwned, OperationInv, AliveInv, ReconcileInv, Known
<1>14. CASE UNCHANGED vars
  BY <1>14 DEF vars, TypeOK, EveryProcessOwned, OperationInv, AliveInv, ReconcileInv, Known
<1> QED
  BY <1>1, <1>2, <1>3, <1>4, <1>5, <1>6, <1>7, <1>8, <1>9, <1>10, <1>11, <1>12, <1>13, <1>14
  DEF Next, Waits

(* The supervisor's invariant holds in every reachable state.              *)
LEMMA SupervisorInvariant == Spec => []SupervisorInv
  BY SupervisorInit, SupervisorStep, PTL DEF Spec

(* The supervisor keeps its types; procs \in Nat says that no process is   *)
(* reaped twice.                                                           *)
THEOREM SupervisorTypeCorrect == Spec => []TypeOK
<1>1. SupervisorInv => TypeOK
  BY DEF SupervisorInv
<1> QED
  BY <1>1, SupervisorInvariant, PTL

(* For any number of runners and whatever is restarted, replaced, aborted  *)
(* or fails to be killed, a runner has at most one process and exactly one *)
(* handle owns it (spawn_child, stop_child).                               *)
THEOREM ProcessesOwned == Spec => []EveryProcessOwned
<1>1. SupervisorInv => EveryProcessOwned
  BY DEF SupervisorInv
<1> QED
  BY <1>1, SupervisorInvariant, PTL

(* shutdown stops every process, also those of runners recorded as failed  *)
(* or exited, and also when some of the kills fail                         *)
(* (RunnerSupervisor::shutdown).                                           *)
THEOREM ShutdownCorrect == Spec => ShutdownLeavesNoProcess
<1>1. SupervisorInv /\ [Next]_vars
        => [op.kind = "shutdown" /\ op' = Idle => \A r \in Runners : procs'[r] = 0]_vars
  <2> SUFFICES ASSUME SupervisorInv, Next, op.kind = "shutdown", op' = Idle
               PROVE  \A r \in Runners : procs'[r] = 0
    BY DEF vars
  <2> USE DEF SupervisorInv
  <2>0. op # Idle /\ op \in Op
    BY IdleType DEF TypeOK
  <2>1. FinishShutdown
    <3>1. ASSUME NEW r \in Runners, Waits(r) PROVE FALSE
      <4>1. op'.kind = "shutdown"
        BY <2>0, <3>1 DEF Waits, StopAtOnce, TakeChild, ExitsInTime, GraceExpires, KillFails,
                          Stopped, Loops, Op
      <4> QED
        BY <4>1, IdleType
    <3> QED
      BY <2>0, <3>1 DEF Next, ProcessExits, Start, BeginRestart, BeginStop, List, BeginShutdown,
                        BeginReconcile, OperationDropped, FinishReconcile
  <2>2. \A r \in Runners : child[r] # "alive"
    BY <2>1 DEF FinishShutdown, LoopDone, AliveInv
  <2> QED
    BY <2>1, <2>2, SupervisorAssumption DEF FinishShutdown, LoopDone, EveryProcessOwned
<1> QED
  BY <1>1, SupervisorInvariant, PTL DEF Spec, ShutdownLeavesNoProcess

(* A reconcile whose stops succeeded leaves only desired runners, each     *)
(* with its desired specification (RunnerSupervisor::reconcile).           *)
THEOREM ReconcileCorrect == Spec => ReconcileLeavesOnlyDesired
<1>1. SupervisorInv /\ [Next]_vars
        => [op.kind = "reconcile" /\ LoopDone /\ ~op.errors
              => \A r \in Runners : spec'[r] \in {op.want[r], NoSpec}]_vars
  <2> SUFFICES ASSUME SupervisorInv, Next, op.kind = "reconcile", LoopDone, ~op.errors,
                      NEW r \in Runners
               PROVE  spec'[r] \in {op.want[r], NoSpec}
    BY DEF vars
  <2>1. spec[r] \in {op.want[r], NoSpec}
    BY DEF SupervisorInv, ReconcileInv, LoopDone
  <2>2. CASE FinishReconcile
    BY <2>1, <2>2 DEF FinishReconcile
  <2>3. CASE ~FinishReconcile
    <3>1. op # Idle
      BY IdleType
    <3>2. UNCHANGED spec
      BY <2>3, <3>1, SupervisorAssumption
      DEF Next, Waits, LoopDone, ProcessExits, Start, BeginRestart, BeginStop, StopAtOnce,
          TakeChild, ExitsInTime, GraceExpires, KillFails, List, BeginShutdown, BeginReconcile,
          OperationDropped, FinishShutdown
    <3> QED
      BY <2>1, <3>2
  <2> QED
    BY <2>2, <2>3
<1> QED
  BY <1>1, SupervisorInvariant, PTL DEF Spec, ReconcileLeavesOnlyDesired
=============================================================================
