---------------------------- MODULE HostServices ----------------------------
(***************************************************************************)
(* The composition of the components that share no state with each other:  *)
(* the control client, task control, the rewritten files, the daemon       *)
(* integration, plugin artifacts, the ABI host and the event sources.      *)
(* Initially one of them is chosen; it runs, the others stay in an initial *)
(* state.  The pure algorithms come with them.                             *)
(***************************************************************************)
EXTENDS ControlClient, TaskControl, ConfigStore, Daemon, PluginArtifacts, AbiHost, EventSources,
        FrameCodec

Layers == INSTANCE ConfigLayers

VARIABLE part   \* the component that runs

vars == <<part, ccVars, tcVars, csVars, dmVars, paVars, abVars, esVars>>

-----------------------------------------------------------------------------
Init ==
  /\ part \in {"client", "tasks", "store", "daemon", "artifacts", "abi", "sources"}
  /\ ClientInit /\ TaskInit /\ StoreInit /\ DaemonInit /\ ArtifactInit /\ AbiInit /\ SourceInit
  /\ part = "client" \/ ccCodec = "binary"
  /\ part = "store" \/ csFile[Secrets] = [k \in Keys |-> Absent]
  /\ part = "daemon" \/ dmOs = "systemd"
  /\ part = "artifacts" \/ paSha = [e \in PluginDirs |-> "v1"]
  /\ part = "abi" \/ abVersion = "v2"

Next ==
  \/ part = "client" /\ ClientNext /\ UNCHANGED <<part, tcVars, csVars, dmVars, paVars, abVars, esVars>>
  \/ part = "tasks" /\ TaskNext /\ UNCHANGED <<part, ccVars, csVars, dmVars, paVars, abVars, esVars>>
  \/ part = "store" /\ StoreNext /\ UNCHANGED <<part, ccVars, tcVars, dmVars, paVars, abVars, esVars>>
  \/ part = "daemon" /\ DaemonNext /\ UNCHANGED <<part, ccVars, tcVars, csVars, paVars, abVars, esVars>>
  \/ part = "artifacts" /\ ArtifactNext /\ UNCHANGED <<part, ccVars, tcVars, csVars, dmVars, abVars, esVars>>
  \/ part = "abi" /\ AbiNext /\ UNCHANGED <<part, ccVars, tcVars, csVars, dmVars, paVars, esVars>>
  \/ part = "sources" /\ SourceNext /\ UNCHANGED <<part, ccVars, tcVars, csVars, dmVars, paVars, abVars>>

\* Of the event sources: the runtime polls actors and the supervisor, and timers
\* fire (StopFails covers the graceful timeout).  No source need ever return or
\* stop, no client need call, and no abort need take effect.
SourceFairness ==
  /\ \A s \in Sources :
       /\ WF_esVars(part = "sources" /\ ActorStep(s))
       /\ WF_esVars(part = "sources" /\ SendShutdown(s))
       /\ WF_esVars(part = "sources" /\ (JoinEnded(s) \/ JoinTimeout(s)))
  /\ WF_esVars(part = "sources" /\ (AllSent \/ AllJoined))

Spec == Init /\ [][Next]_vars /\ ClientFairness /\ TaskFairness /\ SourceFairness

\* Type correctness of the components.
HostTypeOK ==
  /\ part = "client" => ClientTypeOK
  /\ part = "tasks" => TaskTypeOK
  /\ part = "store" => StoreTypeOK
  /\ part = "daemon" => DaemonTypeOK
  /\ part = "artifacts" => ArtifactTypeOK
  /\ part = "abi" => AbiTypeOK
  /\ part = "sources" => SourceTypeOK
=============================================================================
