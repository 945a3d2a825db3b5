---------------------------- MODULE EventSources ----------------------------
(***************************************************************************)
(* The event-source supervisor and its actors:                             *)
(* crates/mutsuki-service-runtime/src/event_source.rs.                     *)
(*                                                                         *)
(* Every source has an actor task (run_source_actor) that owns the source, *)
(* polls its running future and takes commands from a bounded channel.     *)
(* The source is foreign code: it may panic or fail anywhere, never stop   *)
(* and never return.                                                       *)
(***************************************************************************)
EXTENDS Naturals, Sequences, FiniteSets

CONSTANTS
  Sources,     \* source ids
  KeyOrder,    \* the same ids in the order of the sources map
  QueueCap     \* capacity of a command channel, mpsc::channel(4)

ASSUME EventSourcesAssumption ==
  /\ KeyOrder \in Seq(Sources)
  /\ \A s \in Sources : \E i \in 1..Len(KeyOrder) : KeyOrder[i] = s
  /\ QueueCap \in Nat \ {0}

VARIABLES
  pc,          \* where each actor is
  status,      \* EventSourceStatus.state
  queue,       \* commands sent to each actor and not yet received
  signalled,   \* the shutdown token of the latest context was cancelled
  incarnation, \* how the source was started: never, first, again
  aborting,    \* actors on whose JoinHandle abort was called
  caller,      \* a restart request holds a clone of the command sender
  phase,       \* the supervisor: serving, sending, joining, down
  unsent,      \* sources shutdown has still to send a command to, in order
  unjoined     \* sources shutdown has still to wait for, in order

esVars == <<pc, status, queue, signalled, incarnation, aborting, caller, phase, unsent, unjoined>>

actorVars == <<pc, status, queue, signalled, incarnation>>

supervisorVars == <<aborting, caller, phase, unsent, unjoined>>

Actor == {"starting",     \* at the top of the loop
          "polling",      \* in the select over the running future and commands
          "waiting",      \* in wait_command after a failure
          "stop_polling", \* in stop_source for a restart of a running source
          "stop_waiting", \* in stop_source for a restart of a failed source
          "stop_final",   \* in stop_source for a shutdown
          "ended",        \* returned
          "aborted"}      \* cancelled at an await after JoinHandle::abort

Gone(s) == pc[s] \in {"ended", "aborted"}

SourceTypeOK ==
  /\ pc \in [Sources -> Actor]
  /\ status \in [Sources -> {"starting", "running", "failed", "restarting",
                             "stopping", "stopped"}]
  /\ queue \in [Sources -> Seq({"restart", "shutdown"})]
  /\ \A s \in Sources : Len(queue[s]) <= QueueCap
  /\ signalled \in [Sources -> BOOLEAN]
  /\ incarnation \in [Sources -> {"never", "first", "again"}]
  /\ aborting \in SUBSET Sources
  /\ caller \in [Sources -> BOOLEAN]
  /\ phase \in {"serving", "sending", "joining", "down"}
  /\ unsent \in Seq(Sources)
  /\ unjoined \in Seq(Sources)

(* ServiceRuntimeBuilder::start hands every source to the supervisor.      *)
SourceInit ==
  /\ pc = [s \in Sources |-> "starting"]
  /\ status = [s \in Sources |-> "starting"]
  /\ queue = [s \in Sources |-> <<>>]
  /\ signalled = [s \in Sources |-> FALSE]
  /\ incarnation = [s \in Sources |-> "never"]
  /\ aborting = {}
  /\ caller = [s \in Sources |-> FALSE]
  /\ phase = "serving"
  /\ unsent = <<>>
  /\ unjoined = <<>>

ActorGoto(s, l, st) ==
  /\ pc' = [pc EXCEPT ![s] = l]
  /\ status' = [status EXCEPT ![s] = st]

-----------------------------------------------------------------------------
(* The actor.                                                              *)

(* A new context with a fresh token is made and source.start called.       *)
StartSource(s) ==
  /\ pc[s] = "starting"
  /\ signalled' = [signalled EXCEPT ![s] = FALSE]
  /\ incarnation' = [incarnation EXCEPT ![s] = IF @ = "never" THEN "first" ELSE "again"]
  /\ \/ ActorGoto(s, "polling", "running")
     \/ ActorGoto(s, "waiting", "failed")
  /\ UNCHANGED <<queue, supervisorVars>>

(* The running future returns or panics.                                   *)
SourceEnds(s) ==
  /\ pc[s] = "polling"
  /\ ActorGoto(s, "waiting", "failed")
  /\ UNCHANGED <<queue, signalled, incarnation, supervisorVars>>

Take(s, command) ==
  /\ pc[s] \in {"polling", "waiting"}
  /\ queue[s] # <<>>
  /\ Head(queue[s]) = command
  /\ queue' = [queue EXCEPT ![s] = Tail(@)]

\* Mutant: the old context is not told to shut down before the restart.
HandleRestart_NoSignal(s) ==
  /\ Take(s, "restart")
  /\ ActorGoto(s, IF pc[s] = "polling" THEN "stop_polling" ELSE "stop_waiting", "restarting")
  /\ UNCHANGED <<signalled, incarnation, supervisorVars>>

HandleRestart(s) ==
  /\ Take(s, "restart")
  /\ signalled' = [signalled EXCEPT ![s] = TRUE]
  /\ ActorGoto(s, IF pc[s] = "polling" THEN "stop_polling" ELSE "stop_waiting", "restarting")
  /\ UNCHANGED <<incarnation, supervisorVars>>

HandleShutdown(s) ==
  /\ Take(s, "shutdown")
  /\ signalled' = [signalled EXCEPT ![s] = TRUE]
  /\ ActorGoto(s, "stop_final", "stopping")
  /\ UNCHANGED <<incarnation, supervisorVars>>

(* recv returns None, taken as a shutdown: the supervisor dropped its      *)
(* sender after abort, and no restart request holds a clone.               *)
HandleClosed(s) ==
  /\ pc[s] \in {"polling", "waiting"}
  /\ s \in aborting
  /\ ~caller[s]
  /\ queue[s] = <<>>
  /\ signalled' = [signalled EXCEPT ![s] = TRUE]
  /\ ActorGoto(s, "stop_final", "stopping")
  /\ UNCHANGED <<queue, incarnation, supervisorVars>>

(* JoinHandle::abort only asks: the actor is cancelled where it awaits,    *)
(* and one that a worker thread is polling runs on to its next await.      *)
AbortTakesEffect(s) ==
  /\ s \in aborting
  /\ ~Gone(s)
  /\ pc' = [pc EXCEPT ![s] = "aborted"]
  /\ UNCHANGED <<status, queue, signalled, incarnation, supervisorVars>>

(* stop_source: the source's shutdown future succeeds ...                  *)
StopSucceeds(s) ==
  /\ \/ pc[s] \in {"stop_polling", "stop_waiting"} /\ ActorGoto(s, "starting", "starting")
     \/ pc[s] = "stop_final" /\ ActorGoto(s, "ended", "stopped")
  /\ UNCHANGED <<queue, signalled, incarnation, supervisorVars>>

\* Mutant: a failed stop is logged but not recorded in the status.
StopFails_Unrecorded(s) ==
  /\ \/ pc[s] = "stop_polling" /\ ActorGoto(s, "waiting", status[s])
     \/ pc[s] = "stop_waiting" /\ ActorGoto(s, "starting", "starting")
     \/ pc[s] = "stop_final" /\ ActorGoto(s, "ended", status[s])
  /\ UNCHANGED <<queue, signalled, incarnation, supervisorVars>>

\* Mutant: the source's shutdown is awaited without a timeout.
StopFails_NoTimeout(s) == pc[s] = "stop_polling" /\ FALSE /\ UNCHANGED esVars

(* ... or it fails, panics or exceeds the graceful timeout.  A source that *)
(* was running then waits for another command; one that had already failed *)
(* is started again all the same.                                          *)
StopFails(s) ==
  /\ \/ pc[s] = "stop_polling" /\ ActorGoto(s, "waiting", "failed")
     \/ pc[s] = "stop_waiting" /\ ActorGoto(s, "starting", "starting")
     \/ pc[s] = "stop_final" /\ ActorGoto(s, "ended", "failed")
  /\ UNCHANGED <<queue, signalled, incarnation, supervisorVars>>

-----------------------------------------------------------------------------
(* EventSourceSupervisor.                                                  *)

(* restart looks the sender up under the mutex and sends after it: the     *)
(* send may happen after shutdown has taken the sources.                   *)
RestartLookup(s) ==
  /\ phase = "serving"
  /\ ~caller[s]
  /\ caller' = [caller EXCEPT ![s] = TRUE]
  /\ UNCHANGED <<actorVars, aborting, phase, unsent, unjoined>>

\* Mutant: the command channel is unbounded.
RestartSend_Unbounded(s) ==
  /\ caller[s]
  /\ caller' = [caller EXCEPT ![s] = FALSE]
  /\ queue' = [queue EXCEPT ![s] = Append(@, "restart")]
  /\ UNCHANGED <<pc, status, signalled, incarnation, aborting, phase, unsent, unjoined>>

RestartSend(s) ==
  /\ caller[s]
  /\ caller' = [caller EXCEPT ![s] = FALSE]
  /\ \/ ~Gone(s) /\ Len(queue[s]) < QueueCap /\ queue' = [queue EXCEPT ![s] = Append(@, "restart")]
     \/ Gone(s) /\ UNCHANGED queue
  /\ UNCHANGED <<pc, status, signalled, incarnation, aborting, phase, unsent, unjoined>>

BeginShutdown ==
  /\ phase = "serving"
  /\ phase' = "sending"
  /\ unsent' = KeyOrder
  /\ unjoined' = KeyOrder
  /\ UNCHANGED <<actorVars, aborting, caller>>

(* The sends go to one source after the other: a full channel blocks them  *)
(* all, an ended actor makes its send fail.                                *)
SendShutdown(s) ==
  /\ phase = "sending"
  /\ unsent # <<>> /\ s = Head(unsent)
  /\ \/ ~Gone(s) /\ Len(queue[s]) < QueueCap /\ queue' = [queue EXCEPT ![s] = Append(@, "shutdown")]
     \/ Gone(s) /\ UNCHANGED queue
  /\ unsent' = Tail(unsent)
  /\ UNCHANGED <<pc, status, signalled, incarnation, aborting, caller, phase, unjoined>>

AllSent ==
  /\ phase = "sending"
  /\ unsent = <<>>
  /\ phase' = "joining"
  /\ UNCHANGED <<actorVars, aborting, caller, unsent, unjoined>>

JoinEnded(s) ==
  /\ phase = "joining"
  /\ unjoined # <<>> /\ s = Head(unjoined)
  /\ Gone(s)
  /\ unjoined' = Tail(unjoined)
  /\ UNCHANGED <<actorVars, aborting, caller, phase, unsent>>

\* Mutant: the task is left alone after the timeout.
JoinTimeout_Detached(s) ==
  /\ phase = "joining"
  /\ unjoined # <<>> /\ s = Head(unjoined)
  /\ ~Gone(s)
  /\ unjoined' = Tail(unjoined)
  /\ UNCHANGED <<actorVars, aborting, caller, phase, unsent>>

(* graceful + 100 ms have passed: abort is called and not awaited.         *)
JoinTimeout(s) ==
  /\ phase = "joining"
  /\ unjoined # <<>> /\ s = Head(unjoined)
  /\ ~Gone(s)
  /\ aborting' = aborting \cup {s}
  /\ unjoined' = Tail(unjoined)
  /\ UNCHANGED <<actorVars, caller, phase, unsent>>

AllJoined ==
  /\ phase = "joining"
  /\ unjoined = <<>>
  /\ phase' = "down"
  /\ UNCHANGED <<actorVars, aborting, caller, unsent, unjoined>>

(* EventSourceSupervisor::abort, called when the runtime is dropped without *)
(* a shutdown: try_send skips a full channel and a returned actor.         *)
Abort ==
  /\ phase = "serving"
  /\ phase' = "down"
  /\ queue' = [s \in Sources |-> IF Gone(s) \/ Len(queue[s]) = QueueCap
                                  THEN queue[s] ELSE Append(queue[s], "shutdown")]
  /\ aborting' = Sources
  /\ UNCHANGED <<pc, status, signalled, incarnation, caller, unsent, unjoined>>

-----------------------------------------------------------------------------
ActorStep(s) ==
  \/ StartSource(s)
  \/ HandleRestart(s)
  \/ HandleShutdown(s)
  \/ StopFails(s)

SourceNext ==
  \/ \E s \in Sources :
       \/ ActorStep(s)
       \/ SourceEnds(s)
       \/ HandleClosed(s)
       \/ AbortTakesEffect(s)
       \/ StopSucceeds(s)
       \/ RestartLookup(s)
       \/ RestartSend(s)
       \/ SendShutdown(s)
       \/ JoinEnded(s)
       \/ JoinTimeout(s)
  \/ BeginShutdown
  \/ AllSent
  \/ AllJoined
  \/ Abort

SourceSpec == SourceInit /\ [][SourceNext]_esVars

-----------------------------------------------------------------------------
(* What list reports is where the actor is: running exactly while the      *)
(* source's future is polled, failed exactly while only a command can help, *)
(* and a returned actor is stopped or failed (SourceStatus, run_source_actor).*)
StatusTruthful ==
  \A s \in Sources :
    /\ pc[s] = "polling" <=> (status[s] = "running" /\ pc[s] # "aborted")
    /\ pc[s] = "waiting" => status[s] = "failed"
    /\ pc[s] = "ended" => status[s] \in {"stopped", "failed"}

(* A source is started again only after the context of its previous start  *)
(* was told to shut down, whichever way it failed in between, so an old    *)
(* incarnation cannot go on unaware of the new one (HostShutdownToken).    *)
RestartAfterSignal ==
  \A s \in Sources : pc[s] = "starting" /\ incarnation[s] # "never" => signalled[s]

(* When shutdown or abort is over every actor has returned or was told to  *)
(* abort, so none goes on past its next await.  The abort is not awaited:  *)
(* such an actor may still be running when shutdown returns                *)
(* (EventSourceSupervisor::shutdown, abort).                               *)
DownMeansAborted == phase = "down" => \A s \in Sources : Gone(s) \/ s \in aborting

(* Shutdown ends although sources may ignore it, channels may be full and  *)
(* restart requests race it: the host "bounds shutdown by the configured   *)
(* graceful timeout" (docs/architecture.md).                               *)
ShutdownEnds == phase = "sending" ~> phase = "down"
=============================================================================
