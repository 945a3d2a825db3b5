-------------------------- MODULE ServiceLifecycle --------------------------
(***************************************************************************)
(* One life of the service process: ServiceRuntimeBuilder::start,          *)
(* run_until_shutdown_signal and shutdown                                  *)
(* (crates/mutsuki-service-runtime/src/lib.rs), the accept loop of the     *)
(* control socket (mutsuki-service-ipc/src/transport.rs) and the link      *)
(* control server (mutsuki-service-link/src/server.rs).                    *)
(*                                                                         *)
(* The main task moves through phase while control peers are served.  A    *)
(* connection is spawned and never joined.  Peers carry one request at a   *)
(* time here; what happens inside a connection is ControlServer, inside    *)
(* the supervisors RunnerSupervisor and EventSources.                      *)
(***************************************************************************)
EXTENDS FiniteSets

CONSTANTS
  Conns,   \* connections to the control socket
  Link,    \* the link control server, which serves one request at a time
  Nobody   \* no peer

ASSUME LifecycleAssumption == Link \notin Conns /\ Nobody \notin Conns \cup {Link}

Peers == Conns \cup {Link}

VARIABLES
  phase,      \* where the main task is
  core,       \* the Core runs
  sources,    \* event-source actors run and are not aborted
  runner,     \* the supervised sidecar: unknown, started, stopped
  listening,  \* the accept loop of the control socket runs
  drain,      \* the drain channel is true, or closed, which loops treat alike
  asked,      \* service_shutdown has fired the shutdown channel
  peer,       \* where each peer's task is
  method,     \* the request a peer handles
  holder,     \* the peer that holds the supervisor's mutex across an await
  linkAborted \* abort was called on the link's accept task

vars == <<phase, core, sources, runner, listening, drain, asked, peer, method, holder,
          linkAborted>>

Starting == {"start", "booted", "launched", "listening", "linked"}

Stopping == {"closing", "draining", "closed", "quiet", "stopped", "released"}

Phases == Starting \cup Stopping \cup {"serving", "failed", "exited"}

PeerStates == {"none",
               "peek",       \* serve_stream waits for the first byte
               "idle",       \* between two requests
               "reading",    \* a header was let in, its payload is awaited
               "handling",
               "restarting", \* in the supervisor, with its mutex
               "replying",
               "gone"}

Busy(c) == peer[c] \in {"handling", "restarting", "replying"}

Admitted(c) == peer[c] = "reading" \/ Busy(c)

TypeOK ==
  /\ phase \in Phases
  /\ core \in BOOLEAN /\ sources \in BOOLEAN
  /\ runner \in {"unknown", "started", "stopped"}
  /\ listening \in BOOLEAN /\ drain \in BOOLEAN /\ asked \in BOOLEAN
  /\ peer \in [Peers -> PeerStates]
  /\ method \in [Peers -> {"stop", "restart"}]
  /\ holder \in Peers \cup {Nobody}
  /\ linkAborted \in BOOLEAN
  /\ \A c \in Peers : holder = c <=> peer[c] = "restarting"

Init ==
  /\ phase = "start"
  /\ core = FALSE /\ sources = FALSE
  /\ runner = "unknown"
  /\ listening = FALSE /\ drain = FALSE /\ asked = FALSE
  /\ peer = [c \in Peers |-> "none"]
  /\ method = [c \in Peers |-> "stop"]
  /\ holder = Nobody
  /\ linkAborted = FALSE

peerVars == <<peer, method, holder>>

hostVars == <<phase, core, sources, listening, drain, linkAborted>>

(* The task of a request is dropped: its mutex guard and the child it      *)
(* waits for go with it.                                                   *)
Dropped(c, then) ==
  /\ peer' = [peer EXCEPT ![c] = then]
  /\ holder' = IF holder = c THEN Nobody ELSE holder
  /\ runner' = IF holder = c THEN "stopped" ELSE runner
  /\ UNCHANGED method

-----------------------------------------------------------------------------
(* ServiceRuntimeBuilder::start.                                           *)

(* Configured plugins, event-source descriptors, preferences and catalog   *)
(* are checked first; then boot_core, and the runtime client is bound.     *)
BootCore ==
  /\ phase = "start"
  /\ phase' = "booted"
  /\ core' = TRUE
  /\ UNCHANGED <<sources, runner, listening, drain, asked, peerVars, linkAborted>>

BootFails ==
  /\ phase = "start"
  /\ phase' = "failed"
  /\ UNCHANGED <<core, sources, runner, listening, drain, asked, peerVars, linkAborted>>

(* A sidecar that does not start is logged.                                *)
StartSidecars ==
  /\ phase = "booted"
  /\ phase' = "launched"
  /\ runner' \in {"started", "unknown"}
  /\ UNCHANGED <<core, sources, listening, drain, asked, peerVars, linkAborted>>

StartIpc ==
  /\ phase = "launched"
  /\ phase' = "listening"
  /\ listening' = TRUE
  /\ UNCHANGED <<core, sources, runner, drain, asked, peerVars, linkAborted>>

(* ipc.enabled is false: neither server is started.                        *)
IpcDisabled ==
  /\ phase = "launched"
  /\ phase' = "linked"
  /\ UNCHANGED <<core, sources, runner, listening, drain, asked, peerVars, linkAborted>>

(* Nothing else holds the service yet, so it is dropped as a whole.        *)
IpcFails ==
  /\ phase = "launched"
  /\ phase' = "failed"
  /\ core' = FALSE
  /\ runner' = "unknown"
  /\ UNCHANGED <<sources, listening, drain, asked, peerVars, linkAborted>>

StartLink ==
  /\ phase = "listening"
  /\ phase' = "linked"
  /\ peer' = [peer EXCEPT ![Link] = "idle"]
  /\ UNCHANGED <<core, sources, runner, listening, drain, asked, method, holder, linkAborted>>

(* The IpcServer is dropped, which closes the drain channel; the accept    *)
(* loop and the connections still own the service.                         *)
LinkFails ==
  /\ phase = "listening"
  /\ phase' = "failed"
  /\ drain' = TRUE
  /\ UNCHANGED <<core, sources, runner, listening, asked, peerVars, linkAborted>>

StartSources ==
  /\ phase = "linked"
  /\ phase' = "serving"
  /\ sources' = TRUE
  /\ UNCHANGED <<core, runner, listening, drain, asked, peerVars, linkAborted>>

-----------------------------------------------------------------------------
(* The accept loop and the peers.                                          *)

Accept(c) ==
  /\ listening
  /\ ~drain
  /\ peer[c] = "none"
  /\ peer' = [peer EXCEPT ![c] = "peek"]
  /\ UNCHANGED <<hostVars, runner, asked, method, holder>>

(* The loop ends for good on drain and on the first accept error.          *)
AcceptLoopEnds ==
  /\ listening
  /\ listening' = FALSE
  /\ UNCHANGED <<phase, core, sources, drain, runner, asked, peerVars, linkAborted>>

(* The first byte chooses the codec, whatever drain says.                  *)
FirstByte(c) ==
  /\ peer[c] = "peek"
  /\ peer' = [peer EXCEPT ![c] = "idle"]
  /\ UNCHANGED <<hostVars, runner, asked, method, holder>>

(* serve_binary looks at drain before it reads the payload and not after.  *)
Admit(c, m) ==
  /\ peer[c] = "idle"
  /\ c \in Conns => ~drain
  /\ peer' = [peer EXCEPT ![c] = "reading"]
  /\ method' = [method EXCEPT ![c] = m]
  /\ UNCHANGED <<hostVars, runner, asked, holder>>

PayloadArrives(c) ==
  /\ peer[c] = "reading"
  /\ peer' = [peer EXCEPT ![c] = "handling"]
  /\ UNCHANGED <<hostVars, runner, asked, method, holder>>

(* A body that cannot be decoded is rejected; a broken stream ends the     *)
(* connection, after which the link server accepts the next one.           *)
ReadFails(c) ==
  /\ peer[c] = "reading"
  /\ \E then \in IF c = Link THEN {"idle"} ELSE {"idle", "gone"} :
       peer' = [peer EXCEPT ![c] = then]
  /\ UNCHANGED <<hostVars, runner, asked, method, holder>>

(* The client hangs up, is idle for too long, or the loop sees the drain.  *)
ConnectionEnds(c) ==
  /\ peer[c] \in {"peek", "idle"}
  /\ peer' = [peer EXCEPT ![c] = "gone"]
  /\ UNCHANGED <<hostVars, runner, asked, method, holder>>

\* Mutant: the request only wakes a main task that already waits.
HandleStop_NotifyWaiters(c) ==
  /\ peer[c] = "handling" /\ method[c] = "stop"
  /\ asked' = (asked \/ phase = "serving")
  /\ peer' = [peer EXCEPT ![c] = "replying"]
  /\ UNCHANGED <<hostVars, runner, method, holder>>

(* service_shutdown: the first request fires the oneshot channel.          *)
HandleStop(c) ==
  /\ peer[c] = "handling" /\ method[c] = "stop"
  /\ asked' = TRUE
  /\ peer' = [peer EXCEPT ![c] = "replying"]
  /\ UNCHANGED <<hostVars, runner, method, holder>>

(* runner_restart, or a reload that reconciles, in the supervisor.         *)
RestartBegins(c) ==
  /\ peer[c] = "handling" /\ method[c] = "restart"
  /\ holder = Nobody
  /\ IF runner = "unknown"
       THEN peer' = [peer EXCEPT ![c] = "replying"] /\ UNCHANGED holder
       ELSE peer' = [peer EXCEPT ![c] = "restarting"] /\ holder' = c
  /\ UNCHANGED <<hostVars, runner, asked, method>>

RestartEnds(c) ==
  /\ peer[c] = "restarting"
  /\ holder' = Nobody
  /\ runner' \in {"started", "stopped"}
  /\ peer' = [peer EXCEPT ![c] = "replying"]
  /\ UNCHANGED <<hostVars, asked, method>>

Reply(c) ==
  /\ peer[c] = "replying"
  /\ peer' = [peer EXCEPT ![c] = "idle"]
  /\ UNCHANGED <<hostVars, runner, asked, method, holder>>

(* cancel_pending: the connection goes on.                                 *)
RequestCancelled(c) ==
  /\ Busy(c)
  /\ ~drain
  /\ Dropped(c, "idle")
  /\ UNCHANGED <<hostVars, asked>>

\* Mutant: the mutex is released by the operation itself, not by its guard.
DrainDeadline_KeepsMutex(c) ==
  /\ Busy(c)
  /\ peer' = [peer EXCEPT ![c] = "gone"]
  /\ UNCHANGED <<hostVars, runner, asked, method, holder>>

(* wait_pending_drain, on drain and when the client hangs up or is idle,   *)
(* gives a running request five seconds.                                   *)
DrainDeadline(c) ==
  /\ Busy(c)
  /\ Dropped(c, "gone")
  /\ UNCHANGED <<hostVars, asked>>

-----------------------------------------------------------------------------
(* run_until_shutdown_signal and shutdown.                                 *)

\* Mutant: the link server is left to be dropped with the runtime.
DropLink_Later ==
  /\ phase = "serving"
  /\ phase' = "closing"
  /\ UNCHANGED <<core, sources, listening, drain, asked, runner, peerVars, linkAborted>>

(* Dropping the link server calls abort on its task and does not wait.     *)
DropLink ==
  /\ phase = "serving"
  /\ phase' = "closing"
  /\ linkAborted' = (peer[Link] # "none")
  /\ UNCHANGED <<core, sources, listening, drain, asked, runner, peerVars>>

(* The abort takes effect at the link task's next await, with the request  *)
(* it handles; a task that is being polled runs on to there.               *)
LinkDropped ==
  /\ linkAborted
  /\ peer[Link] # "gone"
  /\ Dropped(Link, "gone")
  /\ UNCHANGED <<hostVars, asked>>

ShutdownRequested == asked /\ DropLink

(* Ctrl-C or SIGTERM.                                                      *)
ShutdownSignalled == ~asked /\ DropLink

(* IpcServer::shutdown: drain, then abort the accept loop and wait for it; *)
(* the connections are not waited for.                                     *)
SignalDrain ==
  /\ phase = "closing"
  /\ phase' = "draining"
  /\ drain' = TRUE
  /\ UNCHANGED <<core, sources, runner, listening, asked, peerVars, linkAborted>>

CloseListener ==
  /\ phase = "draining"
  /\ phase' = "closed"
  /\ listening' = FALSE
  /\ UNCHANGED <<core, sources, runner, drain, asked, peerVars, linkAborted>>

\* Mutant: the Core is released before the event sources are stopped.
StopSources_AfterCore ==
  /\ phase = "closed"
  /\ phase' = "quiet"
  /\ core' = FALSE
  /\ UNCHANGED <<sources, runner, listening, drain, asked, peerVars, linkAborted>>

(* EventSourceSupervisor::shutdown, which is bounded (EventSources).       *)
StopSources ==
  /\ phase = "closed"
  /\ phase' = "quiet"
  /\ sources' = FALSE
  /\ UNCHANGED <<core, runner, listening, drain, asked, peerVars, linkAborted>>

(* RunnerSupervisor::shutdown waits for the mutex first.                   *)
StopRunners ==
  /\ phase = "quiet"
  /\ holder = Nobody
  /\ phase' = "stopped"
  /\ runner' = IF runner = "started" THEN "stopped" ELSE runner
  /\ UNCHANGED <<core, sources, listening, drain, asked, peerVars, linkAborted>>

TakeCore ==
  /\ phase = "stopped"
  /\ phase' = "released"
  /\ core' = FALSE
  /\ UNCHANGED <<sources, runner, listening, drain, asked, peerVars, linkAborted>>

(* main returns: the tokio runtime drops every task that is left, and with *)
(* the last owner of the service its processes.                            *)
Exit ==
  /\ phase \in {"released", "failed"}
  /\ phase' = "exited"
  /\ core' = FALSE /\ sources' = FALSE /\ listening' = FALSE
  /\ runner' = IF runner = "started" THEN "stopped" ELSE runner
  /\ peer' = [c \in Peers |-> "gone"]
  /\ holder' = Nobody
  /\ UNCHANGED <<drain, asked, method, linkAborted>>

-----------------------------------------------------------------------------
StartStep ==
  \/ BootCore \/ BootFails
  \/ StartSidecars
  \/ StartIpc \/ IpcDisabled \/ IpcFails
  \/ StartLink \/ LinkFails
  \/ StartSources

ShutdownStep ==
  \/ ShutdownRequested
  \/ SignalDrain
  \/ CloseListener
  \/ StopSources
  \/ StopRunners
  \/ TakeCore
  \/ Exit

PeerStep(c) ==
  \/ \E m \in {"stop", "restart"} : Admit(c, m)
  \/ PayloadArrives(c)
  \/ ReadFails(c)
  \/ HandleStop(c)
  \/ RestartBegins(c)
  \/ RestartEnds(c)
  \/ Reply(c)

ConnectionStep(c) ==
  \/ Accept(c)
  \/ FirstByte(c)
  \/ ConnectionEnds(c)
  \/ RequestCancelled(c)
  \/ DrainDeadline(c)

Next ==
  \/ StartStep
  \/ ShutdownStep
  \/ ShutdownSignalled
  \/ AcceptLoopEnds
  \/ LinkDropped
  \/ \E c \in Peers : PeerStep(c)
  \/ \E c \in Conns : ConnectionStep(c)

Spec == Init /\ [][Next]_vars

(* The main task is polled, the waits inside its steps and the wait for a  *)
(* process to stop are bounded, and an aborted task is dropped.  No client *)
(* need call or hang up, no other request need be answered and no signal   *)
(* need come.                                                              *)
Fairness ==
  /\ WF_vars(StartStep)
  /\ WF_vars(ShutdownStep)
  /\ WF_vars(LinkDropped)
  /\ \A c \in Peers : WF_vars(RestartEnds(c))

FairSpec == Spec /\ Fairness

-----------------------------------------------------------------------------
(* A handled service_shutdown ends the process, although it may arrive     *)
(* before the main task waits for it, clients may keep silent connections  *)
(* open and a restart may hold the supervisor (service_shutdown,           *)
(* run_until_shutdown_signal, shutdown).                                   *)
StopHonoured ==
  (\E c \in Peers : peer[c] = "replying" /\ method[c] = "stop") ~> phase = "exited"

(* Event sources submit their tasks to a running Core: they are started    *)
(* after it and stopped, or told to abort, before it, on every way through *)
(* start and shutdown.                                                     *)
CoreServesSources == sources => core

(* Once IpcServer::shutdown has returned no connection that outlives it is *)
(* let in with another request; only a payload that was awaited then may   *)
(* still arrive.  The link's task was told to abort and is not waited for: *)
(* it alone may still take a request, before the abort takes effect        *)
(* (shutdown, serve_binary, LinkControlServer::drop).                      *)
NoRequestAfterClose ==
  [][(phase \in Stopping \ {"closing", "draining"}) =>
       \A c \in Peers : Admitted(c)' => Admitted(c) \/ (c = Link /\ linkAborted)]_vars

(* "the Runtime drains IPC, EventSources and runners before exit"          *)
(* (README.md): when the process ends after a shutdown no request of a     *)
(* connection is left unanswered and no source or runner is running.       *)
DrainedBeforeExit ==
  [][phase = "released" /\ phase' = "exited" =>
       (\A c \in Conns : ~Busy(c)) /\ ~sources /\ runner # "started"]_vars
=============================================================================
