# Verification of MutsukiServiceHost

TLA+ models, TLC runs and TLAPS proofs for the service host in `src/`: the
process that boots a Core runtime with its plugins, supervises sidecar runners
and event sources, and answers control requests over a local socket.
`PROJECT.json` has the machine-readable index: the source lines behind every
definition, the runs, the mutants, the findings, the hazards and the theorems.

## 1. The system

All code runs on one multi-threaded tokio runtime. A *step* of a model is a
stretch of code between two points where another task can interfere: an
`.await`, the release of a mutex, a system call. A future can be dropped only at
an `.await`.

| Component | State | Operations | What makes it correct |
|---|---|---|---|
| control session, `ipc/session.rs` | pending map, next id, closed flag, one oneshot per call, reader task | `send`, `cancel`, `close`, reader loop | each call returns once, with its own answer, and returns unless it waits to write to a server that does not read |
| control connection, `ipc/server_conn.rs` | pending map of tasks, permits, `mutate_lock`, drain signal | read loop, task per request, cancel, drain | limits and lock survive aborts; a drain ends unless the loop waits for the peer; requests run at most once |
| control client, `ipc/client.rs` | the session its clones share, behind a mutex | `connect`, `send` with one reconnect, `close` | a call runs at most twice and gets its own answer; nobody waits for a mutex nobody holds |
| frame and codec, `ipc/frame.rs`, `io.rs`, `codec.rs` | none | encode, decode, limits, codec recognition | the reader accepts what the writer produces and reads it back, limits hold |
| transport, `ipc/transport.rs` | accept loop, drain channel, socket path | bind, accept, `begin_drain`, `shutdown` | nothing is let in after the close |
| runner supervisor, `runner-supervisor/lib.rs` | table of runners with child, state, spec | `start`, `list`, `restart`, `stop`, `reconcile`, `shutdown` | no orphan and no double process, true reports |
| event sources, `runtime/event_source.rs` | actor per source, status, command channel | `start`, `restart`, `list`, `shutdown`, `abort` | true reports, bounded shutdown that stops or aborts every actor |
| plugin deployment and reload, `runtime/lib.rs` | preference (memory and file), catalog, Core, runtime lock | `plugin_reload`, `plugin_deployment_set/clear` | the four agree, before and after failures and restarts |
| service lifecycle, `runtime/lib.rs` | IPC server, link server, shutdown channel | `start`, `service_shutdown`, `shutdown` | drained in order, nothing left behind |
| task control, `runtime/lib.rs` | Core, its completion revision, deferred client | submit, wait, cancel, outcomes, drain | no lost wake-up, truthful outcomes, every request answered |
| plugin loader and staging, `plugin-loader/lib.rs`, `runtime/abi_plugin/staging.rs` | plugin directories, quarantine, staging directory | scan, stage, load, assemble | the Core runs the content the manifest declares |
| ABI plugin host, `runtime/abi_plugin/connection/` | plugin lifetime, queues, thread pools | open v1/v2, request, callbacks, drop | a plugin is closed once and never under a callback |
| configuration and secrets, `config/lib.rs` | configuration files, secret file and its entries in memory, `control.token` | `load`, `rotate`, `replace_config`, `patch_product_surface` | an acknowledged change stays; layers as documented; one token |
| daemon integration, `daemon/lib.rs`, `host/main.rs` | definition and state in the service manager | `install`, `start`, `stop`, `uninstall` | an uninstalled service is stopped (it is not, see section 4); CLI and service agree on the token |
| link control, CLI, observability | sockets, logs | set-up | data and I/O, apart from the link server's lifetime |

How they interact. A client session and a server connection exchange frames
over one socket. The connection runs each request in a task of its own and calls
the runtime's control handler there. Mutating methods (`is_mutating`) take
`mutate_lock`, which belongs to *one connection*. The handler calls the
supervisor (one mutex, held while a process is awaited), sends commands to
event-source actors (bounded channels), or reloads (files, then Core, then
catalog, then sidecars). A cancel frame, a request timeout at the client or the
drain deadline aborts the task, and with it whatever the handler was awaiting.
That abort reaches into every component below, and is the behaviour the test
suite reaches least. The client of the other process and the daemon commands meet
the service only through the socket and through files (`control.token`, the
secret and product files, the staging directory), which either side may leave
half written.

## 2. Modules

| Module | Models | Notes |
|---|---|---|
| `ControlWire` | the two directions of the stream | FIFO with `WireCap` frames in a direction: a writer waits for room; a frame can be cut when its writer is aborted, and any read or write can fail |
| `ControlSession` | `session.rs`, binary codec | one state per await of `send`, its two writes included; the reader beside it, with its error paths |
| `ControlServer` | `serve_stream`, `serve_binary`, `dispatch_request`, `cancel_pending`, `wait_pending_drain` | one state per await of the loop (first byte, header, payload, a write) and of a task; `aborted` is the flag `JoinHandle::abort` sets |
| `ControlRpc` | abstract call semantics | what a session promises its callers |
| `RetryRpc` | abstract call semantics with one repetition | what the reconnecting client promises its callers; mapped in `ControlClient` |
| `ControlChannel` | composition over the wire | also states the properties and the refinement mapping |
| `RunnerSupervisor` | `runner-supervisor/src/lib.rs` | `op` is the operation that holds the mutex across an await |
| `EventSources` | `event_source.rs` | `pc` is where an actor is; `status` what it reports; `aborting` who was told to abort |
| `PluginDeployment` | deployment and reload in `runtime/lib.rs` | a request per connection with a program counter; crash and boot |
| `ServiceLifecycle` | `start`, `run_until_shutdown_signal`, `shutdown`, accept loop, link server | `phase` is where the main task is; a peer is a connection or the link |
| `ControlClient` | `client.rs`, with the session and connection reduced to what serialised callers see | the mutex is the queue of those who wait for it; both codecs |
| `TaskControl` | the task methods and `DeferredRuntimeClient` in `runtime/lib.rs` | one step per look at the Core; `task_wait` in its steps |
| `ConfigStore` | `rotate`, `replace_config`, `patch_product_surface` in `config/lib.rs` | a writer is between read and rename, or between rename and publish |
| `ConfigLayers` | `ServiceConfig::load`, the arguments of the launched service | operators only: the layers as functions |
| `Daemon` | `daemon/lib.rs`, the commands of `main.rs`, `ensure_control_token` | one step per external command or file operation, on three service managers |
| `PluginArtifacts` | scan, staging, loading, assembly | the scan is an operator; each of several `Loaders` (a boot, the reloads of connections) loads one record after the other, its steps between those of the others |
| `AbiHost` | `connection.rs`, `v1.rs`, `v2.rs`, `io.rs` | handles, queues, threads and the shared lifetime |
| `FrameCodec` | `frame.rs`, `io.rs`, `codec.rs`, `limits.rs`, opcodes | operators only |
| `LogTail` | `log_tail`, `read_log_tail` | operators only |
| `HostServices` | composition of `ControlClient`, `TaskControl`, `ConfigStore`, `Daemon`, `PluginArtifacts`, `AbiHost` and `EventSources` | one component runs at a time, see below |
| `MCHostServices` | its instance for TLC | values of the constants, and the pure algorithms over bounded inputs |
| other `MC*` | instances for TLC | names for model values only |
| `ControlChannelProofs`, `RunnerSupervisorProofs`, `EventSourcesProofs`, `PluginDeploymentProofs`, `ServiceLifecycleProofs`, `ControlClientProofs`, `TaskControlProofs` | theorems about the module of that name | see section 5 |
| `HostServicesProofs` | theorems about `Daemon`, `ConfigStore`, `PluginArtifacts`, `AbiHost`, the composition `HostServices` and the algorithms of `FrameCodec`, `ConfigLayers`, `PluginArtifacts` and `LogTail` | see section 5 |

Correspondence, and what is abstracted:

* **Requests** are ids. A session never reuses an id (`next_id` is a `u64`), so a
  request id names one call of `send`. Request and response bodies are
  abstracted to who produced them (`of`) and whether a handler or the connection
  itself did (`handled`, `rejected`).
* **Abort.** A task on which `abort` was called may still run to its next await,
  so in `ControlServer` an aborted task may take further steps before
  `TaskDropped`. If it is dropped inside `write_all` the wire holds a torn frame
  (`TaskDroppedWriting`), which the reader can only fail on once more bytes
  follow or the stream ends (`ReadTorn`). The aborts that nobody awaits are only
  requests too: an event-source actor that is told to abort is in `aborting` and
  goes on until `AbortTakesEffect`, the link task is `linkAborted` and goes on until
  `LinkDropped`.
* **Stream.** A direction holds `WireCap` frames, so that a writer meets a full one.
  `write_all_flush` waits for room without a timeout, at the client for the request
  and for the cancel frame, at the server for answers. A read fails at any time, in
  the middle of a frame or on an undecodable one (`ReadFails`), which ends the
  session with a protocol error. `serve_stream` waits for the first byte, and
  `serve_binary` for a payload it reads or discards, without looking at the drain
  signal.
* **Encoder failure** at the client (`EncodeFails`) keeps the pending entry, as
  the `?` in the code does.
* **History variables**: `handled` and `ahead` (`ControlServer`), `incarnation`
  (`EventSources`), `interrupted` and `lockFailed` (`PluginDeployment`) only
  record what properties talk about; no guard of the code's steps reads them.
* **Processes** in `RunnerSupervisor` are counted per runner by `procs`. That
  dropping a `Child` ends its process is tokio's `kill_on_drop` and is taken
  from there, also after `kill` returned an error. A process that exits during
  the wait is counted until the wait ends.
* **Event sources** are foreign code: a source may panic, fail, return or hang
  in `start`'s future and in `shutdown`. A synchronous call that never yields
  would block its worker thread and is not modelled.
* **Files** in `PluginDeployment` have an abstract content, may be missing, and
  may be left garbled by a failed write. A successful `fs::write` is one step. An old
  lock file that cannot be read is taken for a missing one, as `.ok()` does, and a
  refused reload then removes it (`lockFailed`). A boot resolves the preference and
  can then still fail over a plugin that does not load (`BootFails`). A
  plugin has at most one candidate per deployment kind: duplicates are a
  configuration error that `resolve_catalog` refuses before anything happens.
  Sidecar reconciliation is one awaiting step here, and `RunnerSupervisor` in
  detail.
* **Lifecycle.** A peer carries one request at a time (multiplexing is
  `ControlServer`'s). Two methods stand for all: `service_shutdown`, and
  `runner_restart` for those that hold the supervisor's mutex across an await.
  Dropping the `IpcServer` closes the drain channel, which every loop treats like
  a drain. `StopSources`, `StopRunners` and `TakeCore` are one step each; the
  first two are `EventSources` and `RunnerSupervisor` in detail. A runner that
  exits by itself is not a step here.
* **The Core** (`mutsuki-runtime-host`) is a dependency outside the repository:
  it accepts or refuses a generation, and it ends and forgets tasks.
* **Client.** `ControlClient` holds the session's mutex from the lookup to the
  answer, so its session has one live request; expired ones may still be with the
  server. Connecting, writing a request and writing a cancel frame have no timeout:
  `Blocked` are the callers in one of these awaits, and no fairness applies to them.
  `ccLock` is tokio's fair mutex: the owner first, then the waiters in
  order. `ccLeft` counts requests on connections the client has dropped: the
  detached reader keeps such a connection open, and the server may still execute
  them. `ccRuns`, `ccCut` and `ccExpired` are history.
* **Tasks.** Every handler but `task_wait` looks at the Core once under
  `host_runtime`. `task_wait` is synchronous: it blocks a worker thread of the
  async runtime, which `Workers` counts, and a queued request needs a free one. A
  plugin reaches the same Core through four cells that `bind` sets one after the
  other.
* **Files the service rewrites.** `atomic_write` is a rename, so a document is old
  or new. The operator's editor is not under `write_lock`; a save between a
  writer's read and its rename is lost, which `csEdited` records. An operation
  that is refused before its write is no step. The lock of the model belongs to the
  file; that of the code to the store instance, of which a loaded configuration has
  one. A process that loads the configuration twice would have two.
* **Daemon.** A token is a number; 0 is no file and 1 the empty file that
  `fs::write` leaves while it writes. What systemd, launchd and the Windows
  manager do with a command is external and modelled from how the code uses it:
  start and stop, the restart policies of the unit (`Restart=on-failure`,
  `KeepAlive`), and an entry that is marked for deletion until its process ends.
  Any command may fail at any step, the CLI may be killed, the machine restarted. On
  Windows the service reports that it has stopped before its process ends: the
  manager sees it as stopped, and the process may be there for some time (`Down`
  holds of both).
* **Artifacts.** A content is named by its hash. `is_file` and `fs::copy` are separate
  steps, with those of other loads between them, and `fs::copy` has a state in which
  the target exists and is torn. Nothing verifies a staged file: opening half a
  library may fail or succeed. `paHalf` (a copy was broken off), `paShared` (two loads
  copied to the same target) and `paChanged` (the source was replaced between scan and
  copy) record how a target came to be wrong. `initialize` may fail for any content.
  An upgrade replaces the artifact and the manifest in either order, before, during
  and after a scan.
* **ABI host.** A frame is a number. Plugins are foreign code: a callback may return
  an error or never. The `BinaryTransport` above the queues is a dependency; it
  pairs answers with requests and fails all of them when the reader ends, and its
  constructor may fail after the pools were started.
* **Codec.** Length fields keep their width: `Width` is `as u32` for a number of
  bits that the instance scales down, so that limits beyond the width occur.

`HostServices` composes components that share no state: at the start one of
them is chosen (`part`), it runs and the others stay as they are, so its state
space is the sum of theirs and not the product. It exists so that one instance
covers them; the properties of each are about its own variables. The pure
algorithms are checked over bounded inputs as named assumptions of
`MCHostServices`; section 5 has the same statements for all inputs.

## 3. Runs

| Run | Instance | Shows |
|---|---|---|
| `channel_capacity` | 2 calls, 1 slot, one mutating, one frame in each direction, fair | `WaiterReachable`, `PermitsConserved`, `ProtocolFailureExplained`, `CallReturns`, `DrainReleasesStream` with the limit reached on both sides |
| `channel_multiplex` | 2 mutating calls, 2 slots, one frame in each direction | lock, drain, refinement of `ControlRpc` |
| `mutating_order` | same | *violation*: mutating requests may start out of order |
| `runner_supervisor` | 2 runners, 2 specs, fair | ownership of processes, reconcile, shutdown, no operation keeps the mutex |
| `runner_report` | same | *violation*: a runner reported as running without a process |
| `deployment_serial` | 1 connection, 2 plugins, 2 generations | catalog, Core, lock file and preference agree through failures and crashes; the stored preference resolves |
| `deployment_concurrent` | 2 connections | *violation*: Core and catalog of different reloads |
| `service_lifecycle` | 2 connections and the link, fair | a stop request ends the process, sources never outlive the Core, nothing is let in after the close |
| `lifecycle_drain` | same | *violation*: the process exits with requests in flight |
| `host_services` | seven components one at a time, see below | `RetryBounded`, `AnswerOwnOrExpired`, `ClientCallEnds`; `WaitTruthful`, `NoLostCompletion`, `TaskRequestEnds`; `AcknowledgedChangeKept`; `TokenAgreement`, `UninstallStopsUnlessIgnored`; `StagedArtifactVerified`, `MappedFileKept`; `PluginClosedOnce`; `StatusTruthful`, `RestartAfterSignal`, `DownMeansAborted`, `ShutdownEnds` |
| `daemon_uninstall` | 3 commands, 1 fault | *violation*: `uninstall` returned Ok and the service runs |
| `client_session` | 2 clones of a client | *violation*: the session that `connect` made is gone at the lookup |

What the properties of the channel say, with their exceptions. A reply that nobody
waits for ends a session only after a call gave up, a cut frame only after that or
after a drain deadline; read errors and undecodable frames can end it at any time
(`ProtocolFailureExplained`). A call returns unless the server stops reading for good
with its end open, because no timeout covers the writes (`CallReturns`). After a drain
signal the server's end is released, unless the loop stays in a wait that does not look
at the signal (first byte, payload, an error frame it cannot write), or has returned an
error and left running tasks (`DrainReleasesStream`). The exceptions are states from
which the system never leaves (`[]UpBlocked`, `[]DrainStuck`), not states it passes.

What `host_services` shows, component by component:

* **client** (2 callers, 2 breaks, both codecs): the server executes a call at most
  twice, and twice only if its connection broke before the answer; a caller gets
  its own answer, in the JSONL codec unless some call has timed out; every call
  returns although the mutex is held over whole requests, unless a caller stays for
  good in a connect or a write, which have no timeout.
* **tasks** (2 tasks, 2 requests, 1 worker thread): a wait that reports success shows how
  each task ended, even if the Core forgets tasks meanwhile; no completion is
  lost between look and sleep; every request is answered although a wait may hold
  the only thread.
* **store** (2 writers, keys of which two have one normalised name, 1 edit): what was
  reported as changed is on disk and in memory until the same slot is changed
  again, through crashes and other writers.
* **daemon** (3 commands, 1 crash or restart, three managers): the service and a CLI
  agree on the stored token unless it was replaced under the running service or
  generated twice at the same moment; an uninstall that returned Ok left no
  definition, and a running service only if it ignored a failing stop command
  (without that exception: `daemon_uninstall`).
* **artifacts** (1 selected plugin in 2 directories, 2 loaders, 2 versions, 2 upgrades,
  1 crash): the Core runs the content whose hash the scan saw; another version only
  if the source was replaced between scan and copy, half a file only if a copy of
  that target was broken off or two loads met on it. The file of a mapped library is
  rewritten only if two loads both found no staged file.
* **abi** (2 handles, queues of 1, pools of 2 and 1, 4 requests, both versions): the
  plugin is closed once, with no callback running and no frame queued, and not
  forgotten.
* **sources** (2 sources, channels of 2): status and actor agree; a source starts again
  only after its old incarnation was told to stop; a shutdown ends, and has then
  ended or aborted every actor. Whether an abort has taken effect by then is open.
* **assumptions**: every frame the encoder produces is read back by the decoder and
  recognised as binary by its first byte (`FramesReadable`, `FramesRecognised`),
  flags and opcodes are exact, every encoded line fits the reader; with one file
  instance, transport and token come from the layer `docs/config.md` names
  (`OneFileAsDocumented`; home and profile do not, see section 4); where the launch
  finds the file `install` has read, the launched service has the home, run directory
  and profile `install` had, and its instance and transport unless the installing
  shell's environment set them, since units carry no environment (`RelaunchSame`);
  the scan keeps each deployment
  at most once and explains what it does not keep (`ScanSound`); each runner is
  hosted by the Core or by the supervisor, never both (`RunnerHostedOnce`); a
  client that follows the log sees every byte once, also over polls that fail
  on half a character (`FollowsFile`).

Bounds, and why they suffice. Two requests are enough for every race of two
calls, of a call with the reader and of two tasks with the loop; one slot makes
the limit bind and two make the lock contended. A direction of the stream that
holds one frame (`WireCap = 1`) is full after one write. The theorems of section 5 remove
this bound for the safety properties. Two runners give a loop with one failing
and one succeeding stop, two specs a replacement. Channels of capacity two
(the code has four) fill up as four do: what matters is that a sender meets a
full one, and that a restart can stand before a shutdown. Two loaders over one target
are enough for every race of `is_file` and `fs::copy`. `MaxGeneration = 2`
allows two successful reloads after a boot, each of which may fail or be
aborted, and crashes start over. One of the two plugins has an ABI candidate
whose surface differs from the builtin one, so that preferences exist which do
not resolve. In `ServiceLifecycle` one connection can stay silent or wait for a
payload while another holds the supervisor and the link a third request.
Two clones are enough for every race between
the lock's users, two breaks for a retry that fails too. With one worker thread a
wait blocks everything; two ids in a list, possibly equal, reach both errors of
`resolve_task_handles`. Three commands allow install, start and uninstall with a
restart of the machine anywhere. Queues of one are full after one frame and pools
of two overlap two callbacks. Larger instances hold as well and are left out of
the run for its time: four commands with two faults (322,000 states), two values for the store (2.3
million).
Deadlock is not checked where the system may come to rest: a closed
or timed-out session, a service that is down or has exited, commands and calls
that are all done.

Fairness. Weak fairness only, and only for what the tokio scheduler and its
timers do: a call in progress, the read loop and the holder of a mutex are
polled where what they wait for is there, timers fire (request timeout, drain deadline,
grace period, join timeout, the deadline of a wait), an aborted connection task is
dropped, and a free worker thread takes up a queued request. No fairness is assumed of
callers, handlers, processes, sources, the drain signal or the network peer: nobody has
to send a first byte or a payload, to read what was written, or to accept a connection,
and no aborted event source has to stop. The drop of an aborted task relies on handlers
that reach an await, as cooperative tasks do. `TaskRequestEnds` relies on the deadline of
a wait; its `timeout_ms` is a `u64` the client chooses without an upper bound
(`mutsuki-service-control/src/lib.rs`), so the waits end, but as late as clients ask for.

Every property of a passing run has a mutant in `PROJECT.json`: a plausible
mistake in one mapped definition (suffix `_Name`, marked `Mutant` in the
modules), under which TLC finds the property violated.

## 4. Findings

* **Mutating order.** `is_mutating` says that mutating operations "stay ordered
  on a connection under multiplex". The lock gives exclusion (`MutateLockLive`)
  but not order: the tasks that wait for it are spawned, and the scheduler
  decides which asks first.
* **Stale `running`.** `stop_child` takes the child before it waits. An aborted
  `runner_stop`/`runner_restart`/reload, or a failing kill, leaves
  `Running` without a child; `refresh_runner` skips such an entry and `start`
  refuses it. The process itself is gone (`EveryProcessOwned`).
* **Concurrent reloads.** `mutate_lock` is per connection, while the Core and the
  catalog belong to the service. With one connection they agree
  (`deployment_serial`).
* **Exit without drain.** `README.md` says that `stop` lets the Runtime drain IPC
  before exit. `IpcServer::shutdown` signals the drain and waits for the accept
  loop, not for the connection tasks, whose five seconds end when `main` returns.
  A request whose payload was awaited at the drain signal is even started
  afterwards. No new request is let in (`NoRequestAfterClose`), and the process
  does end (`StopHonoured`).
* **Uninstall of a running service.** `README.md` says that `uninstall` "also stops a
  running service before removing its definition". `systemctl stop` and `launchctl
  bootout` are run and their results dropped; the definition is removed, `uninstall`
  returns Ok, and a service whose stop failed runs on without a definition. Every other
  failure is reported (`UninstallStopsUnlessIgnored`).
* **Session gone at the lookup.** `connect` and the lookup of `send_with_session`
  lock the mutex separately; the retry of another clone, or `close`, may set the
  session to `None` in between, and `expect("session connected")` panics.

Observations, not tied to a statement of the repository and therefore without a
run. They are what the exceptions in the properties stand for:

* A deployment change aborted while it awaits the reload leaves the preference
  file ahead of the memory until the next start (`interrupted`), and names a deployment
  that may not load. A crash between the removal of the old file and the rename of the
  new one loses the preference, and the next start takes the defaults.
* A local `service.toml` replaces every section of the profile's file as a whole,
  so a key the profile sets is lost to the default of a section the local file
  mentions. Home and profile leave the documented order with one file already: its
  service section replaces `--home`, `MUTSUKI_HOME` and `MUTSUKI_PROFILE`, also by the
  defaults where it does not name them.
* A staged copy torn by a crash is never repaired or verified: every later load opens
  it, and whether half a library loads is up to the system's loader
  (`StagedArtifactVerified` excepts it).
* Two reloads over two connections that both find no staged file both copy it, the
  second one over the file the first has mapped (`MappedFileKept` excepts it).
* The request timeout covers the answer only. A server that does not read blocks the
  calls of a session in their writes, and, with the client's mutex held over connect
  and write, every clone of the client.
* A peer that sends no first byte, or a header without its payload, keeps its connection
  task until the process ends; a drain does not reach it.
* `shutdown` of the event sources and of the link returns before the tasks it aborts are
  gone.
* On Windows `start` returns Ok for a service that is stopping.
* In the JSONL codec one timeout shifts the answers of all later calls of the
  session, because the pending entry goes and the answer still comes.
* An I/O error met by the session's reader becomes a protocol error, which the
  client does not retry; the end of the stream it does retry.
* A failing version 2 callback returns an empty frame, which the transport takes
  for the end of the stream: every other request of the plugin fails with it. A
  blocked send into a full work queue also holds up management frames behind it,
  because one writer serves both queues.
* `rotate` replaces the file before it validates it: with an invalid neighbour
  entry it reports an error although the file has the new secret.
* One failing `accept` ends the accept loop for good; an encoder error in `send`
  keeps the pending slot; the client's in-flight limit is checked and taken under
  different locks. The models contain all three.
* An opcode the server does not know ends the connection without draining its
  tasks. The last, unfinished line of a log is returned as an entry.

## 5. Proofs

Every safety invariant and every action property that a passing run checks is a
theorem, for all values of the constants that the `ASSUME`s admit. The assumptions
say no more than the declarations of the code do: ids and placeholders differ
(`WireAssumption`, `LifecycleAssumption`, `DeploymentAssumption`), limits, pools and
channels are positive (`WireAssumption`, `EventSourcesAssumption`, `TaskAssumption`,
`AbiAssumption`), a normalised key is its own normal form (`StoreAssumption`), a
plugin directory has finitely many entries (`ArtifactAssumption`), the bounds on
faults and operations are numbers (`ClientAssumption`, `DaemonAssumption`). The
sets of requests, runners, sources, connections, clones, tasks and plugins are
arbitrary, infinite ones included. An invariant is named with the theorem only
where it is not inductive by itself; each strengthening was checked by TLC before
it was proved.

`ControlChannelProofs`:

* `ChannelTypeCorrect`: `TypeOK`, inductive as it stands.
* `SentOnce` is the base of the others: a request is on the wire or has a task
  only after its call wrote it, and at most once. It is what makes a fresh task
  state meaningful when `SpawnTask` overwrites `task[r]`.
* `MutateLockCorrect`: `MutateLockLive` is inductive with `SentOnce`.
* `PermitsCorrect`: `PermitInv` adds that the set of live tasks is finite, so
  that its cardinality moves with the permits, and counts the permit the loop itself
  holds between header and task (`Lent`).
* `WaiterCorrect`: `WaiterInv` extends the claim to calls whose entry is inserted
  and not yet written, which the reader may already drain.
* `DrainCorrect`: `TaskRecorded` says that every live task is in the map, is the
  one about to be inserted, or is aborted, except after a failed loop.
* `ProtocolFailureCorrect` is about replies without an entry and cut frames; a failed
  read is the stream's own and unrestricted. `ReplyInv` says that a request is answered
  at most once and is then neither on the wire nor worked on (`RepliedOnce`), that, as
  long as no call gave up and the connection has not ended, nothing is aborted,
  cancelled or cut (`Calm`), and that a request that can still be answered is in the
  client's pending map unless a call gave up (`Kept`). Without `RepliedOnce` a delivery
  could take the entry that a second reply needs.
* `ChannelImplementsRpc`: `AnswersOwn` says that every frame, computed answer and
  oneshot value names its own request, and that a handler's answer exists only
  for a completed handler. With it each step maps to a step of `ControlRpc` or a
  stutter.

`RunnerSupervisorProofs`: `SupervisorInv` joins `TypeOK`, `EveryProcessOwned`,
what an operation in progress implies (`OperationInv`: its target is known and
its child taken), that live children belong to known runners (`AliveInv`), and
how far a reconcile has come (`ReconcileInv`). From it follow `ProcessesOwned`,
`ShutdownCorrect` and `ReconcileCorrect`; the last two are action properties.

`ServiceLifecycleProofs`: `LifecycleInv` joins `TypeOK`, the phases in which the
Core and the sources run (`PhaseInv`), and that the link is silent before its
start and, like the drain signal, told to abort once the shutdown began (`ClosedInv`).
From it follow `LifecycleTypeCorrect`, `CoreOutlivesSources` and the action
property `ClosedToRequests`: no connection is let in after the close; the link task may
take a request until its abort reaches it, and has been told to abort.

`EventSourcesProofs`: `SourcesInv` joins `SourceTypeOK` (no channel beyond its capacity),
what an actor reports at each place (`StatusInv`), that a token stays cancelled
from the command to the next start (`SignalInv`), and that a shutdown has still to
join every source that is neither gone nor told to abort (`JoinInv`). From it follow
`SourcesTypeCorrect`, `StatusCorrect`, `RestartCorrect` and `DownCorrect`.

`PluginDeploymentProofs`, in two layers:

* For any set of connections, `DeploymentInv` (every preference kept anywhere
  resolves, whoever wrote it; nothing outlives the process) gives
  `DeploymentTypeCorrect`, `ParsedPreferenceCorrect` (whatever interleaves, a file that
  parses also resolves) and `RunsWhatWasFoundCorrect`. That what resolves also loads
  is not claimed: `BootFails` is a step of the model.
* For one connection, `SerialInv` adds what the only request knows of the files
  (`FileInv`), of the generation it installs (`SwapInv`) and that an idle
  connection has none (`IdleInv`). It gives `StoredPreferenceCorrect`,
  `CatalogCorrect`, `LockCorrect` and `CompletedChangeCorrect`. The hypothesis
  `OneConnection` is part of these four statements and cannot be dropped:
  `deployment_concurrent` is the counterexample with two connections.
  `CompletedChangeCorrect` also asks for a connection at all, without which
  nothing can be changed and `Quiet` is vacuous.

`ControlClientProofs`: `ClientInv` joins `ClientTypeOK`, who is in the queue of the
mutex (`MutexInv`), that a request is in a session at most once and only after
its caller's attempt (`SessionInv`), that without a timeout an open connection
carries at most the owner's request or answer (`CarriedInv`), and the count
behind the retry (`CopiesInv`: executions so far, requests left on dropped
connections and the request still queued are together no more than the attempts
allow, and a second attempt needs a cut). `RetryBounded` alone is not inductive
because a copy on a dropped connection may still be executed after the retry. From
it follow `ClientTypeCorrect`, `RetryCorrect` and `AnswerCorrect`. Two more results
rest on it:

* `ClientImplementsRetryRpc`: `AnsweredInv` adds that an answer, read or not, is that
  of a call the server has executed. With `CopiesInv`, which says that what is
  still queued anywhere was asked for and leaves room below two executions, each
  step begins a call, executes one, returns one, or is invisible: connects,
  locks, the repetition and broken connections are stutters. TLC checked the
  refinement with two callers of two calls and two breaks (7.5 million states).
* `MutexCorrect`: `SendsAlone` adds that only the owner of the mutex awaits an
  answer. It is the safety half of `ClientCallEnds`: nobody waits for a mutex
  that nobody holds.

`TaskControlProofs`: `TaskInv` joins the types, that outcome and status agree
(`OutcomeInv`), what a successful wait saw (`AnswerInv`), and that from a wait's
look at the states on, the completion of its last task makes the revision newer
than the one it read (`RevisionInv`), which is why the revision is read first.
From it follow `TaskTypeCorrect`, `WaitCorrect` and `NoLostCompletionCorrect`.

`HostServicesProofs`, the four components of `HostServices` without a proof module of
their own:

* `Daemon`: `DaemonInv` says where a process is while it loads its token, that who
  generates one knows there is none, that a service holds the stored token,
  that no token is made twice, and what `uninstall` has achieved at each of its
  steps. `DaemonTypeCorrect`, `TokenCorrect`, `UninstallCorrect`, and the action property
  `StoredTokenCorrect`: a stored token goes only by `install --token`, or while
  `dmStale` says that one was generated beside it.
* `ConfigStore`: `StoreInv` says that a file has one writer at a time (`LockInv`), that
  what was acknowledged is on disk unless a writer has replaced it and not yet
  published (`KeptOnDisk`), and that the document in a writer's hand repeats what
  was acknowledged of the slots it is not about (`DocInv`). `StoreTypeCorrect`,
  `AcknowledgedCorrect`, and the action property `NoLostUpdateCorrect`: the rename of a
  whole file changes the entries its writer is about and no others.
* `PluginArtifacts`, for any set of concurrent loads: `ArtifactInv` says that a staged file
  has the content its directory is named after, unless its source was replaced
  (`StagedInv`), or it is torn, which needs a load that is writing it or a copy that was
  broken off (`TornInv`); that, where no two loads met, who writes a file is alone with it
  (`WriteInv`); that what is opened exists, and what is loaded is right up to these
  exceptions (`OpenInv`, `Verified`); and
  that each selected plugin is still to be loaded or loaded, once (`Planned`, `Once`,
  `ServingOnce`). `ArtifactTypeCorrect`, `StagedArtifactCorrect`, `MappedFileCorrect`: a copy
  writes over a mapped file only where two loads met before the file existed.
* `AbiHost`: `AbiInv` says that a plugin is closed exactly when the last owner of its
  lifetime is gone (`LifetimeInv`) and that frames are queued only for a pool
  with a thread left (`PoolInv`). `AbiTypeCorrect`, `PluginClosedCorrect`.

The composition: a step of `HostServices` is a step of one of the seven components and
leaves the others alone, so it is a run of each of them (`HostRunsParts`); the results of
`ControlClientProofs`, `TaskControlProofs` and `EventSourcesProofs` are used as they are. `HostTypeCorrect` and
`HostCorrect` carry the results over to the specification that `host_services` checks.

The algorithms, stated for every input where the assumptions of `MCHostServices` have
small sets:

* `FrameCodec`: `FramesReadableCorrect` (all limits and payloads whose lengths fit their
  fields), `FramesRecognisedCorrect`, `LinesReadableCorrect`, `FlagsCorrect`, `OpcodesCorrect`
  (the table, and that no opcode at all reaches a method without the token), and
  `ReadersCorrect` (the server's reader in two parts and the client's in one accept the
  same frames). `FramesRecognisedCorrect` asks for a frame limit that fits the length
  field: beyond it a length wraps, and the provers do not do the arithmetic of
  powers that would bound the wrapped value; TLC checks those limits too.
* `ConfigLayers`: `LayersCorrect`, for the three keys instance, transport and token and any
  values and names of files, and `RelaunchCorrect`. The latter asks that the launch finds
  the file `install` has read (`SameFile`: an absolute `--config`, or a home the file does
  not change), loads without the environment of the installing shell, and so leaves
  out the keys that environment had set.
* the scan of `PluginArtifacts`: `ScanCorrect` for any directories, manifests, contents and
  quarantines, and `HostedOnceCorrect` for any record.
* `LogTail`: `FollowsCorrect` for every file, every number of lines and polls that fail on
  half a character. The lines are a
  finite set of line ends in order, so no induction is needed: the n-th line is the
  one with n - 1 before it, which `RankFacts` shows to be one line for each n.

Only model-checked are the liveness properties (`CallReturns`,
`DrainReleasesStream`, `OperationEnds`, `ShutdownEnds`, `StopHonoured`,
`ClientCallEnds`, `TaskRequestEnds`): the prover does not handle fairness. What they
need of the state is proved where it is a safety property (`WaiterCorrect`,
`MutexCorrect`).

## 6. Not modelled, and what could follow

Not modelled:

* the parsing of the command line, logging set-up, benchmarks and examples: no
  state of their own;
* TLS, QUIC and the link client: cryptography and a library's state machine; the
  link server's lifetime is in `ServiceLifecycle`;
* the Core and the `BinaryTransport`, which are dependencies;
* `callbacks.rs`, which forwards a plugin's request to the deferred client, and
  the views of health, plugins and runners, which project state the other modules
  have;
* the validation of the builder and the defaults of configuration sections other
  than service and IPC; the text of unit files; process environments;
* `request_oneshot`, a client process that dies with calls in flight (the server
  then sees the end of the stream, which `StopReading` covers, or a cut request)
  and a peer that does not speak the protocol.

What could follow: abstract specifications for the components that have invariants
and no refinement, the supervisor as a table of owned processes and `task_wait` as one
atomic look at ended tasks; and the JSONL codec in the detail `ControlSession` has of
the binary one.
