------------------------- MODULE HostServicesProofs -------------------------
(***************************************************************************)
(* Theorems about parts of the host that share no state with the others,   *)
(* Daemon, ConfigStore, PluginArtifacts and AbiHost, about the composition *)
(* in HostServices and about the pure algorithms beside them               *)
(* (wire format, configuration layers, plugin scan, log tail), for any     *)
(* values of the constants and any inputs.                                 *)
(***************************************************************************)
EXTENDS HostServices, LogTail, ControlClientProofs, TaskControlProofs, EventSourcesProofs

(***************************************************************************)
(* The daemon integration.                                                 *)
(***************************************************************************)
Stored == dmFile \notin {NoToken, EmptyFile}

(* Where a process is while it loads its token.                            *)
LoadInv ==
  /\ dmLoad[Cli] # "idle" => dmStep = "begin"
  /\ dmLoad[Service] # "idle" => dmProc = "loading"
  /\ \A p \in {Cli, Service} : dmLoad[p] = "write" => dmTok[p] \notin {NoToken, EmptyFile}

(* Who generates a token knows that there is none, and generates alone,    *)
(* unless that is known to have gone wrong.                                *)
GenerateInv ==
  ~dmStale =>
    /\ \A p \in {Cli, Service} : Generating(p) => ~Stored
    /\ ~(Generating(Cli) /\ Generating(Service))

(* A service that has loaded its token has the one that is stored.         *)
HoldInv ==
  dmProc \in {"loading", "starting", "running"} /\ dmLoad[Service] = "idle" /\ ~dmStale
    => dmFile = dmTok[Service] /\ Stored

(* Every process generates at most one token, so that none is made twice.  *)
Spare(b) == IF b THEN 1 ELSE 0

CountInv ==
  dmNext + Spare(dmLoad[Cli] \in {"read", "generate"}) + Spare(dmLoad[Service] \in {"read", "generate"})
         + Spare(dmStep = "begin")
    <= GivenToken + 1 + 2 * dmOps + dmFaults

(* The steps of a command belong to its manager.                           *)
ManagerInv ==
  /\ dmStep \in {"disable", "unload"} => dmOs = "systemd"
  /\ dmStep = "remove" => Unix
  /\ dmStep \in {"wait_stopped", "delete", "wait_deleted"} \/ dmMarked => dmOs = "windows"
  /\ dmOs = "windows" /\ ~dmDef => Down
  /\ dmProc = "stopped" => dmOs = "windows"

(* What uninstall has achieved at each of its steps.                       *)
UninstallInv ==
  /\ dmStep \in {"disable", "remove", "unload"} => Down \/ dmIgnored
  /\ dmStep = "unload" => ~dmDef
  /\ dmRemoved => dmStep = "idle"

DaemonInv ==
  DaemonTypeOK /\ LoadInv /\ GenerateInv /\ HoldInv /\ CountInv /\ ManagerInv /\ UninstallInv
    /\ UninstallStopsUnlessIgnored

(***************************************************************************)
(* The files the service rewrites.                                         *)
(***************************************************************************)
(* What a document of a file says of a slot.                               *)
InDoc(s, doc) == IF s[1] = Product THEN doc[s[2]] ELSE Entries(doc)[s[2]]

Busy(w) == csWriter[w].pc # "idle"

(* A file has one writer at a time, and the process that ended has none.   *)
LockInv ==
  /\ \A v, w \in Writers : Busy(v) /\ Busy(w) /\ csWriter[v].file = csWriter[w].file => v = w
  /\ ~csUp => \A w \in Writers : csWriter[w] = Idle

(* What was acknowledged is on disk and in memory, a slot that a writer    *)
(* has replaced and not acknowledged yet apart.                            *)
KeptOnDisk ==
  \A s \in Slots \ csEdited :
    (\A w \in Writers : csWriter[w].pc = "replaced" => s \notin InHand(w))
      => /\ InDoc(s, csFile[s[1]]) = csAcked[s]
         /\ s[1] = Secrets /\ csUp => csMem[s[2]] = csAcked[s]

(* A document in hand repeats what was acknowledged of the slots it is not *)
(* about and has the new value in those it is about, as has the file once  *)
(* it is replaced.                                                         *)
DocInv ==
  \A w \in Writers : Busy(w) =>
    /\ \A s \in Slots \ csEdited :
         s[1] = csWriter[w].file /\ s \notin InHand(w) => InDoc(s, csWriter[w].doc) = csAcked[s]
    /\ \A s \in InHand(w) : InDoc(s, csWriter[w].doc) = csWriter[w].value
    /\ csWriter[w].pc = "replaced" =>
         \A s \in InHand(w) \ csEdited : InDoc(s, csFile[s[1]]) = csWriter[w].value

StoreInv == StoreTypeOK /\ LockInv /\ KeptOnDisk /\ DocInv

(***************************************************************************)
(* Plugin artifacts.                                                       *)
(***************************************************************************)
LoadPcs == {"idle", "next", "create", "copy", "open", "handshake"}

(* A load that is about the staged file of the record it loads.            *)
Engaged(l) == paBoot[l] \in {"create", "copy", "open"}

(* The libraries that are open, of the Core and of loads under way.        *)
Mapped == paServing \cup UNION {paNew[m] : m \in Loaders}

(* A staged file has the content its directory is named after, unless its  *)
(* source was replaced in between or its copy is incomplete.               *)
StagedInv == \A t \in Targets : paStaged[t] \in {Missing, Torn, t[2]} \/ t \in paChanged

(* An incomplete one is being copied, or its copy was broken off.          *)
TornInv ==
  \A t \in Targets : paStaged[t] = Torn =>
    t \in paHalf \cup paShared \/ \E m \in Loaders : paBoot[m] = "copy" /\ Target(m) = t

(* Where no two loads met, who writes a file is alone with it.             *)
WriteInv ==
  \A m \in Loaders : \A t \in Targets \ paShared : Writing(m, t) =>
    /\ paStaged[t] = IF paBoot[m] = "create" THEN Missing ELSE Torn
    /\ \A n \in Loaders \ {m} : Engaged(n) => Target(n) # t
    /\ \A x \in Mapped : StageTarget(x.plugin, x.sha) # t

OpenInv == \A l \in Loaders : paBoot[l] = "open" => paStaged[Target(l)] # Missing

Verified ==
  \A x \in Mapped :
    LET t == StageTarget(x.plugin, x.sha) IN
    x.content = x.sha \/ t \in paChanged \/ (x.content = Torn /\ t \in paHalf \cup paShared)

FileInv == StagedInv /\ TornInv /\ WriteInv /\ OpenInv /\ Verified /\ MappedFileKept

Planned(l) ==
  /\ \A r \in paPlan[l] : r.entry \in PluginDirs /\ r.plugin \in Selected /\ r.sha \in Versions
  /\ Engaged(l) => paPlan[l] # {}

(* Each selected plugin is either still to be loaded or loaded, once.      *)
Once(l) ==
  paBoot[l] # "idle" => \A p \in Selected :
    \/ /\ \E r \in paPlan[l] : {q \in paPlan[l] : q.plugin = p} = {r}
       /\ {x \in paNew[l] : x.plugin = p} = {}
    \/ /\ {q \in paPlan[l] : q.plugin = p} = {}
       /\ \E x \in paNew[l] : {y \in paNew[l] : y.plugin = p} = {x}

ServingOnce ==
  paServing # {} => \A p \in Selected : \E x \in paServing : {y \in paServing : y.plugin = p} = {x}

ArtifactInv == ArtifactTypeOK /\ FileInv /\ (\A l \in Loaders : Planned(l) /\ Once(l)) /\ ServingOnce

(***************************************************************************)
(* The ABI host.                                                           *)
(***************************************************************************)
(* A plugin that was not entered has no connection and no threads; one     *)
(* that was is closed exactly when the last owner of its lifetime is gone. *)
LifetimeInv ==
  /\ abPlugin = "none" => abClosed = 0
  /\ abPlugin # "entered" => Lifetime = {}
  /\ abPlugin = "entered" => abClosed = IF Lifetime = {} THEN 1 ELSE 0

(* Frames are queued only for a pool that still has a thread.              *)
PoolInv == \A c \in Classes : abQueue[c] # <<>> => ~PoolGone(c)

AbiInv == AbiTypeOK /\ LifetimeInv /\ PoolInv

-----------------------------------------------------------------------------
(***************************************************************************)
(* Daemon: every action keeps the invariant.                               *)
(***************************************************************************)
LEMMA TwoLoaders == Cli # Service /\ Other(Cli) = Service /\ Other(Service) = Cli
  BY DEF Cli, Service, Other

(* ensure_control_token, in either process.                                *)
LEMMA LoadKeepsDaemon ==
  ASSUME DaemonInv, NEW p \in {Cli, Service}, LoadToken(p)
  PROVE  DaemonInv'
<1> USE TwoLoaders, DaemonAssumption
<1> USE DEF DaemonInv, DaemonTypeOK, MaxToken, GivenToken, NoToken, EmptyFile, Generating, Stored,
            LoadToken, manager, history, Unix
<1>1. CASE LoadReads(p)
  <2>1. DaemonTypeOK' /\ LoadInv' /\ CountInv'
    <3>1. dmStale' \in BOOLEAN
      BY <1>1 DEF LoadReads
    <3>2. DaemonTypeOK' /\ LoadInv'
      BY <1>1, <3>1 DEF LoadReads, LoadInv
    <3>3. CountInv'
      BY <1>1 DEF LoadReads, CountInv, Spare
    <3> QED
      BY <3>2, <3>3
  <2>2. GenerateInv' /\ HoldInv'
    BY <1>1 DEF LoadReads, LoadInv, GenerateInv, HoldInv
  <2> QED
    BY <1>1, <2>1, <2>2 DEF LoadReads, ManagerInv, UninstallInv, UninstallStopsUnlessIgnored, Down
<1>2. CASE LoadTruncates(p)
  <2>1. DaemonTypeOK' /\ LoadInv' /\ CountInv'
    BY <1>2 DEF LoadTruncates, LoadInv, CountInv, Spare
  <2>2. GenerateInv' /\ HoldInv'
    BY <1>2 DEF LoadTruncates, LoadInv, GenerateInv, HoldInv
  <2> QED
    BY <1>2, <2>1, <2>2 DEF LoadTruncates, ManagerInv, UninstallInv, UninstallStopsUnlessIgnored, Down
<1>3. CASE LoadWrites(p)
  <2>1. DaemonTypeOK' /\ LoadInv' /\ CountInv'
    BY <1>3 DEF LoadWrites, LoadInv, CountInv, Spare
  <2>2. GenerateInv' /\ HoldInv'
    BY <1>3 DEF LoadWrites, LoadInv, GenerateInv, HoldInv
  <2> QED
    BY <1>3, <2>1, <2>2 DEF LoadWrites, ManagerInv, UninstallInv, UninstallStopsUnlessIgnored, Down
<1> QED
  BY <1>1, <1>2, <1>3 DEF LoadToken

(* A command begins, ends early or is killed.                              *)
LEMMA CommandKeepsDaemon ==
  ASSUME DaemonInv,
         \/ \E op \in {"install", "start", "stop", "uninstall"}, given \in BOOLEAN : BeginOp(op, given)
         \/ CommandFails
         \/ CliKilled
  PROVE  DaemonInv'
<1> USE TwoLoaders, DaemonAssumption
<1> USE DEF DaemonInv, DaemonTypeOK, MaxToken, GivenToken, NoToken, EmptyFile, Generating, Stored,
            manager, tokens, history, Unix, AtStep, StepTo, CommandDone, Launch, LaunchIfDown, ProcessStopped, Down
<1>1. CASE \E op \in {"install", "start", "stop", "uninstall"}, given \in BOOLEAN : BeginOp(op, given)
  <2>1. DaemonTypeOK' /\ CountInv'
    <3>1. /\ dmGiven' \in BOOLEAN /\ dmDef' \in BOOLEAN /\ dmMarked' \in BOOLEAN /\ dmLoaded' \in BOOLEAN
          /\ dmEnabled' \in BOOLEAN /\ dmStale' \in BOOLEAN /\ dmIgnored' \in BOOLEAN /\ dmRemoved' \in BOOLEAN
      BY <1>1 DEF BeginOp
    <3>2. /\ dmLoad' \in [{Cli, Service} -> {"idle", "read", "generate", "write"}]
          /\ dmTok' \in [{Cli, Service} -> 0..MaxToken] /\ dmFile' \in 0..MaxToken /\ dmNext' \in 3..MaxToken + 1
      BY <1>1 DEF BeginOp
    <3>3. /\ dmOs' \in {"systemd", "launchd", "windows"}
          /\ dmOp' \in {"install", "start", "stop", "uninstall"} /\ dmStep' \in Steps
          /\ dmProc' \in {"none", "loading", "starting", "running", "stopping", "stopped"}
          /\ dmOps' \in 0..MaxOps /\ dmFaults' \in 0..MaxFaults
      BY <1>1 DEF BeginOp, Steps
    <3>4. CountInv'
      BY <1>1 DEF BeginOp, CountInv, Spare
    <3> QED
      BY <3>1, <3>2, <3>3, <3>4
  <2>2. LoadInv' /\ GenerateInv' /\ HoldInv'
    BY <1>1 DEF BeginOp, LoadInv, GenerateInv, HoldInv
  <2>3. ManagerInv' /\ UninstallInv' /\ UninstallStopsUnlessIgnored'
    BY <1>1 DEF BeginOp, LoadInv, ManagerInv, UninstallInv, UninstallStopsUnlessIgnored
  <2> QED
    BY <2>1, <2>2, <2>3
<1>2. CASE CommandFails
  <2>1. DaemonTypeOK' /\ CountInv'
    BY <1>2 DEF CommandFails, Steps, CountInv, Spare
  <2>2. LoadInv' /\ GenerateInv' /\ HoldInv'
    BY <1>2 DEF CommandFails, LoadInv, GenerateInv, HoldInv
  <2>3. ManagerInv' /\ UninstallInv' /\ UninstallStopsUnlessIgnored'
    BY <1>2 DEF CommandFails, LoadInv, ManagerInv, UninstallInv, UninstallStopsUnlessIgnored
  <2> QED
    BY <2>1, <2>2, <2>3
<1>3. CASE CliKilled
  <2>1. DaemonTypeOK' /\ CountInv'
    BY <1>3 DEF CliKilled, Steps, CountInv, Spare
  <2>2. LoadInv' /\ GenerateInv' /\ HoldInv'
    BY <1>3 DEF CliKilled, LoadInv, GenerateInv, HoldInv
  <2>3. ManagerInv' /\ UninstallInv' /\ UninstallStopsUnlessIgnored'
    BY <1>3 DEF CliKilled, LoadInv, ManagerInv, UninstallInv, UninstallStopsUnlessIgnored
  <2> QED
    BY <2>1, <2>2, <2>3
<1> QED
  BY <1>1, <1>2, <1>3

(* install, step by step.                                                  *)
LEMMA InstallKeepsDaemon ==
  ASSUME DaemonInv,
         \/ PersistToken
         \/ BeginDefine
         \/ WriteDefinition
         \/ CreateService
         \/ DaemonReload
         \/ Enable
  PROVE  DaemonInv'
<1> USE TwoLoaders, DaemonAssumption
<1> USE DEF DaemonInv, DaemonTypeOK, MaxToken, GivenToken, NoToken, EmptyFile, Generating, Stored,
            manager, tokens, history, Unix, AtStep, StepTo, CommandDone, Launch, LaunchIfDown, ProcessStopped, Down
<1>1. CASE PersistToken
  <2>1. DaemonTypeOK' /\ CountInv'
    BY <1>1 DEF PersistToken, Steps, CountInv, Spare
  <2>2. LoadInv' /\ GenerateInv' /\ HoldInv'
    BY <1>1 DEF PersistToken, LoadInv, GenerateInv, HoldInv
  <2>3. ManagerInv' /\ UninstallInv' /\ UninstallStopsUnlessIgnored'
    BY <1>1 DEF PersistToken, LoadInv, ManagerInv, UninstallInv, UninstallStopsUnlessIgnored
  <2> QED
    BY <2>1, <2>2, <2>3
<1>2. CASE BeginDefine
  <2>1. DaemonTypeOK' /\ CountInv'
    BY <1>2 DEF BeginDefine, Steps, CountInv, Spare
  <2>2. LoadInv' /\ GenerateInv' /\ HoldInv'
    BY <1>2 DEF BeginDefine, LoadInv, GenerateInv, HoldInv
  <2>3. ManagerInv' /\ UninstallInv' /\ UninstallStopsUnlessIgnored'
    BY <1>2 DEF BeginDefine, LoadInv, ManagerInv, UninstallInv, UninstallStopsUnlessIgnored
  <2> QED
    BY <2>1, <2>2, <2>3
<1>3. CASE WriteDefinition
  <2>1. DaemonTypeOK' /\ CountInv'
    BY <1>3 DEF WriteDefinition, Steps, CountInv, Spare
  <2>2. LoadInv' /\ GenerateInv' /\ HoldInv'
    BY <1>3 DEF WriteDefinition, LoadInv, GenerateInv, HoldInv
  <2>3. ManagerInv' /\ UninstallInv' /\ UninstallStopsUnlessIgnored'
    BY <1>3 DEF WriteDefinition, LoadInv, ManagerInv, UninstallInv, UninstallStopsUnlessIgnored
  <2> QED
    BY <2>1, <2>2, <2>3
<1>4. CASE CreateService
  <2>1. DaemonTypeOK' /\ CountInv'
    BY <1>4 DEF CreateService, Steps, CountInv, Spare
  <2>2. LoadInv' /\ GenerateInv' /\ HoldInv'
    BY <1>4 DEF CreateService, LoadInv, GenerateInv, HoldInv
  <2>3. ManagerInv' /\ UninstallInv' /\ UninstallStopsUnlessIgnored'
    BY <1>4 DEF CreateService, LoadInv, ManagerInv, UninstallInv, UninstallStopsUnlessIgnored
  <2> QED
    BY <2>1, <2>2, <2>3
<1>5. CASE DaemonReload
  <2>1. DaemonTypeOK' /\ CountInv'
    BY <1>5 DEF DaemonReload, Steps, CountInv, Spare
  <2>2. LoadInv' /\ GenerateInv' /\ HoldInv'
    BY <1>5 DEF DaemonReload, LoadInv, GenerateInv, HoldInv
  <2>3. ManagerInv' /\ UninstallInv' /\ UninstallStopsUnlessIgnored'
    BY <1>5 DEF DaemonReload, LoadInv, ManagerInv, UninstallInv, UninstallStopsUnlessIgnored
  <2> QED
    BY <2>1, <2>2, <2>3
<1>6. CASE Enable
  <2>1. DaemonTypeOK' /\ CountInv'
    BY <1>6 DEF Enable, Steps, CountInv, Spare
  <2>2. LoadInv' /\ GenerateInv' /\ HoldInv'
    BY <1>6 DEF Enable, LoadInv, GenerateInv, HoldInv
  <2>3. ManagerInv' /\ UninstallInv' /\ UninstallStopsUnlessIgnored'
    BY <1>6 DEF Enable, LoadInv, ManagerInv, UninstallInv, UninstallStopsUnlessIgnored
  <2> QED
    BY <2>1, <2>2, <2>3
<1> QED
  BY <1>1, <1>2, <1>3, <1>4, <1>5, <1>6

(* start, which launches a process that has still to load its token, and stop.*)
LEMMA StartKeepsDaemon ==
  ASSUME DaemonInv,
         \/ StartUnit
         \/ StartJob
         \/ StartService
         \/ StopRequest
  PROVE  DaemonInv'
<1> USE TwoLoaders, DaemonAssumption
<1> USE DEF DaemonInv, DaemonTypeOK, MaxToken, GivenToken, NoToken, EmptyFile, Generating, Stored,
            manager, tokens, history, Unix, AtStep, StepTo, CommandDone, Launch, LaunchIfDown, ProcessStopped, Down
<1>1. CASE StartUnit
  <2>1. DaemonTypeOK' /\ CountInv'
    <3>1. /\ dmGiven' \in BOOLEAN /\ dmDef' \in BOOLEAN /\ dmMarked' \in BOOLEAN /\ dmLoaded' \in BOOLEAN
          /\ dmEnabled' \in BOOLEAN /\ dmStale' \in BOOLEAN /\ dmIgnored' \in BOOLEAN /\ dmRemoved' \in BOOLEAN
      BY <1>1 DEF StartUnit
    <3>2. /\ dmLoad' \in [{Cli, Service} -> {"idle", "read", "generate", "write"}]
          /\ dmTok' \in [{Cli, Service} -> 0..MaxToken] /\ dmFile' \in 0..MaxToken /\ dmNext' \in 3..MaxToken + 1
      BY <1>1 DEF StartUnit
    <3>3. /\ dmOs' \in {"systemd", "launchd", "windows"}
          /\ dmOp' \in {"install", "start", "stop", "uninstall"} /\ dmStep' \in Steps
          /\ dmProc' \in {"none", "loading", "starting", "running", "stopping", "stopped"}
          /\ dmOps' \in 0..MaxOps /\ dmFaults' \in 0..MaxFaults
      BY <1>1 DEF StartUnit, Steps
    <3>4. CountInv'
      BY <1>1 DEF StartUnit, CountInv, Spare
    <3> QED
      BY <3>1, <3>2, <3>3, <3>4
  <2>2. LoadInv' /\ GenerateInv' /\ HoldInv'
    BY <1>1 DEF StartUnit, LoadInv, GenerateInv, HoldInv
  <2>3. ManagerInv' /\ UninstallInv' /\ UninstallStopsUnlessIgnored'
    BY <1>1 DEF StartUnit, LoadInv, ManagerInv, UninstallInv, UninstallStopsUnlessIgnored
  <2> QED
    BY <2>1, <2>2, <2>3
<1>2. CASE StartJob
  <2>1. DaemonTypeOK' /\ CountInv'
    BY <1>2 DEF StartJob, Steps, CountInv, Spare
  <2>2. LoadInv' /\ GenerateInv' /\ HoldInv'
    BY <1>2 DEF StartJob, LoadInv, GenerateInv, HoldInv
  <2>3. ManagerInv' /\ UninstallInv' /\ UninstallStopsUnlessIgnored'
    BY <1>2 DEF StartJob, LoadInv, ManagerInv, UninstallInv, UninstallStopsUnlessIgnored
  <2> QED
    BY <2>1, <2>2, <2>3
<1>3. CASE StartService
  <2>1. DaemonTypeOK' /\ CountInv'
    BY <1>3 DEF StartService, Steps, CountInv, Spare
  <2>2. LoadInv' /\ GenerateInv' /\ HoldInv'
    BY <1>3 DEF StartService, LoadInv, GenerateInv, HoldInv
  <2>3. ManagerInv' /\ UninstallInv' /\ UninstallStopsUnlessIgnored'
    BY <1>3 DEF StartService, LoadInv, ManagerInv, UninstallInv, UninstallStopsUnlessIgnored
  <2> QED
    BY <2>1, <2>2, <2>3
<1>4. CASE StopRequest
  <2>1. DaemonTypeOK' /\ CountInv'
    BY <1>4 DEF StopRequest, Steps, CountInv, Spare
  <2>2. LoadInv' /\ GenerateInv' /\ HoldInv'
    BY <1>4 DEF StopRequest, LoadInv, GenerateInv, HoldInv
  <2>3. ManagerInv' /\ UninstallInv' /\ UninstallStopsUnlessIgnored'
    BY <1>4 DEF StopRequest, LoadInv, ManagerInv, UninstallInv, UninstallStopsUnlessIgnored
  <2> QED
    BY <2>1, <2>2, <2>3
<1> QED
  BY <1>1, <1>2, <1>3, <1>4

(* uninstall, step by step.                                                *)
LEMMA UninstallKeepsDaemon ==
  ASSUME DaemonInv,
         \/ StopUnit
         \/ Disable
         \/ RemoveUnit
         \/ Unload
         \/ BootOut
         \/ RemovePlist
         \/ OpenService
         \/ WaitStopped
         \/ DeleteService
         \/ WaitDeleted
  PROVE  DaemonInv'
<1> USE TwoLoaders, DaemonAssumption
<1> USE DEF DaemonInv, DaemonTypeOK, MaxToken, GivenToken, NoToken, EmptyFile, Generating, Stored,
            manager, tokens, history, Unix, AtStep, StepTo, CommandDone, Launch, LaunchIfDown, ProcessStopped, Down
<1>1. CASE StopUnit
  <2>1. DaemonTypeOK' /\ CountInv'
    <3>1. /\ dmGiven' \in BOOLEAN /\ dmDef' \in BOOLEAN /\ dmMarked' \in BOOLEAN /\ dmLoaded' \in BOOLEAN
          /\ dmEnabled' \in BOOLEAN /\ dmStale' \in BOOLEAN /\ dmIgnored' \in BOOLEAN /\ dmRemoved' \in BOOLEAN
      BY <1>1 DEF StopUnit
    <3>2. /\ dmLoad' \in [{Cli, Service} -> {"idle", "read", "generate", "write"}]
          /\ dmTok' \in [{Cli, Service} -> 0..MaxToken] /\ dmFile' \in 0..MaxToken /\ dmNext' \in 3..MaxToken + 1
      BY <1>1 DEF StopUnit
    <3>3. /\ dmOs' \in {"systemd", "launchd", "windows"}
          /\ dmOp' \in {"install", "start", "stop", "uninstall"} /\ dmStep' \in Steps
          /\ dmProc' \in {"none", "loading", "starting", "running", "stopping", "stopped"}
          /\ dmOps' \in 0..MaxOps /\ dmFaults' \in 0..MaxFaults
      BY <1>1 DEF StopUnit, Steps
    <3>4. CountInv'
      BY <1>1 DEF StopUnit, CountInv, Spare
    <3> QED
      BY <3>1, <3>2, <3>3, <3>4
  <2>2. LoadInv' /\ GenerateInv' /\ HoldInv'
    BY <1>1 DEF StopUnit, LoadInv, GenerateInv, HoldInv
  <2>3. ManagerInv' /\ UninstallInv' /\ UninstallStopsUnlessIgnored'
    BY <1>1 DEF StopUnit, LoadInv, ManagerInv, UninstallInv, UninstallStopsUnlessIgnored
  <2> QED
    BY <2>1, <2>2, <2>3
<1>2. CASE Disable
  <2>1. DaemonTypeOK' /\ CountInv'
    <3>1. /\ dmGiven' \in BOOLEAN /\ dmDef' \in BOOLEAN /\ dmMarked' \in BOOLEAN /\ dmLoaded' \in BOOLEAN
          /\ dmEnabled' \in BOOLEAN /\ dmStale' \in BOOLEAN /\ dmIgnored' \in BOOLEAN /\ dmRemoved' \in BOOLEAN
      BY <1>2 DEF Disable
    <3>2. /\ dmLoad' \in [{Cli, Service} -> {"idle", "read", "generate", "write"}]
          /\ dmTok' \in [{Cli, Service} -> 0..MaxToken] /\ dmFile' \in 0..MaxToken /\ dmNext' \in 3..MaxToken + 1
      BY <1>2 DEF Disable
    <3>3. /\ dmOs' \in {"systemd", "launchd", "windows"}
          /\ dmOp' \in {"install", "start", "stop", "uninstall"} /\ dmStep' \in Steps
          /\ dmProc' \in {"none", "loading", "starting", "running", "stopping", "stopped"}
          /\ dmOps' \in 0..MaxOps /\ dmFaults' \in 0..MaxFaults
      BY <1>2 DEF Disable, Steps
    <3>4. CountInv'
      BY <1>2 DEF Disable, CountInv, Spare
    <3> QED
      BY <3>1, <3>2, <3>3, <3>4
  <2>2. LoadInv' /\ GenerateInv' /\ HoldInv'
    BY <1>2 DEF Disable, LoadInv, GenerateInv, HoldInv
  <2>3. ManagerInv' /\ UninstallInv' /\ UninstallStopsUnlessIgnored'
    BY <1>2 DEF Disable, LoadInv, ManagerInv, UninstallInv, UninstallStopsUnlessIgnored
  <2> QED
    BY <2>1, <2>2, <2>3
<1>3. CASE RemoveUnit
  <2>1. DaemonTypeOK' /\ CountInv'
    BY <1>3, ZenonT(30) DEF RemoveUnit, Steps, CountInv, Spare
  <2>2. LoadInv' /\ GenerateInv' /\ HoldInv'
    BY <1>3 DEF RemoveUnit, LoadInv, GenerateInv, HoldInv
  <2>3. ManagerInv' /\ UninstallInv' /\ UninstallStopsUnlessIgnored'
    BY <1>3 DEF RemoveUnit, LoadInv, ManagerInv, UninstallInv, UninstallStopsUnlessIgnored
  <2> QED
    BY <2>1, <2>2, <2>3
<1>4. CASE Unload
  <2>1. DaemonTypeOK' /\ CountInv'
    <3>1. DaemonTypeOK'
      BY <1>4, ZenonT(60) DEF Unload, Steps
    <3>2. CountInv'
      BY <1>4, ZenonT(60) DEF Unload, CountInv, Spare
    <3> QED
      BY <3>1, <3>2
  <2>2. LoadInv' /\ GenerateInv' /\ HoldInv'
    BY <1>4 DEF Unload, LoadInv, GenerateInv, HoldInv
  <2>3. ManagerInv' /\ UninstallInv' /\ UninstallStopsUnlessIgnored'
    BY <1>4 DEF Unload, LoadInv, ManagerInv, UninstallInv, UninstallStopsUnlessIgnored
  <2> QED
    BY <2>1, <2>2, <2>3
<1>5. CASE BootOut
  <2>1. DaemonTypeOK' /\ CountInv'
    <3>1. /\ dmGiven' \in BOOLEAN /\ dmDef' \in BOOLEAN /\ dmMarked' \in BOOLEAN /\ dmLoaded' \in BOOLEAN
          /\ dmEnabled' \in BOOLEAN /\ dmStale' \in BOOLEAN /\ dmIgnored' \in BOOLEAN /\ dmRemoved' \in BOOLEAN
      BY <1>5 DEF BootOut
    <3>2. /\ dmLoad' \in [{Cli, Service} -> {"idle", "read", "generate", "write"}]
          /\ dmTok' \in [{Cli, Service} -> 0..MaxToken] /\ dmFile' \in 0..MaxToken /\ dmNext' \in 3..MaxToken + 1
      BY <1>5 DEF BootOut
    <3>3. /\ dmOs' \in {"systemd", "launchd", "windows"}
          /\ dmOp' \in {"install", "start", "stop", "uninstall"} /\ dmStep' \in Steps
          /\ dmProc' \in {"none", "loading", "starting", "running", "stopping", "stopped"}
          /\ dmOps' \in 0..MaxOps /\ dmFaults' \in 0..MaxFaults
      BY <1>5 DEF BootOut, Steps
    <3>4. CountInv'
      BY <1>5 DEF BootOut, CountInv, Spare
    <3> QED
      BY <3>1, <3>2, <3>3, <3>4
  <2>2. LoadInv' /\ GenerateInv' /\ HoldInv'
    BY <1>5 DEF BootOut, LoadInv, GenerateInv, HoldInv
  <2>3. ManagerInv' /\ UninstallInv' /\ UninstallStopsUnlessIgnored'
    BY <1>5 DEF BootOut, LoadInv, ManagerInv, UninstallInv, UninstallStopsUnlessIgnored
  <2> QED
    BY <2>1, <2>2, <2>3
<1>6. CASE RemovePlist
  <2>1. DaemonTypeOK' /\ CountInv'
    BY <1>6, ZenonT(30) DEF RemovePlist, Steps, CountInv, Spare
  <2>2. LoadInv' /\ GenerateInv' /\ HoldInv'
    BY <1>6 DEF RemovePlist, LoadInv, GenerateInv, HoldInv
  <2>3. ManagerInv' /\ UninstallInv' /\ UninstallStopsUnlessIgnored'
    BY <1>6 DEF RemovePlist, LoadInv, ManagerInv, UninstallInv, UninstallStopsUnlessIgnored
  <2> QED
    BY <2>1, <2>2, <2>3
<1>7. CASE OpenService
  <2>1. DaemonTypeOK' /\ CountInv'
    <3>1. /\ dmGiven' \in BOOLEAN /\ dmDef' \in BOOLEAN /\ dmMarked' \in BOOLEAN /\ dmLoaded' \in BOOLEAN
          /\ dmEnabled' \in BOOLEAN /\ dmStale' \in BOOLEAN /\ dmIgnored' \in BOOLEAN /\ dmRemoved' \in BOOLEAN
      BY <1>7 DEF OpenService
    <3>2. /\ dmLoad' \in [{Cli, Service} -> {"idle", "read", "generate", "write"}]
          /\ dmTok' \in [{Cli, Service} -> 0..MaxToken] /\ dmFile' \in 0..MaxToken /\ dmNext' \in 3..MaxToken + 1
      BY <1>7 DEF OpenService
    <3>3. /\ dmOs' \in {"systemd", "launchd", "windows"}
          /\ dmOp' \in {"install", "start", "stop", "uninstall"} /\ dmStep' \in Steps
          /\ dmProc' \in {"none", "loading", "starting", "running", "stopping", "stopped"}
          /\ dmOps' \in 0..MaxOps /\ dmFaults' \in 0..MaxFaults
      BY <1>7 DEF OpenService, Steps
    <3>4. CountInv'
      BY <1>7 DEF OpenService, CountInv, Spare
    <3> QED
      BY <3>1, <3>2, <3>3, <3>4
  <2>2. LoadInv' /\ GenerateInv' /\ HoldInv'
    BY <1>7 DEF OpenService, LoadInv, GenerateInv, HoldInv
  <2>3. ManagerInv' /\ UninstallInv' /\ UninstallStopsUnlessIgnored'
    BY <1>7 DEF OpenService, LoadInv, ManagerInv, UninstallInv, UninstallStopsUnlessIgnored
  <2> QED
    BY <2>1, <2>2, <2>3
<1>8. CASE WaitStopped
  <2>1. DaemonTypeOK' /\ CountInv'
    BY <1>8 DEF WaitStopped, Steps, CountInv, Spare
  <2>2. LoadInv' /\ GenerateInv' /\ HoldInv'
    BY <1>8 DEF WaitStopped, LoadInv, GenerateInv, HoldInv
  <2>3. ManagerInv' /\ UninstallInv' /\ UninstallStopsUnlessIgnored'
    BY <1>8 DEF WaitStopped, LoadInv, ManagerInv, UninstallInv, UninstallStopsUnlessIgnored
  <2> QED
    BY <2>1, <2>2, <2>3
<1>9. CASE DeleteService
  <2>1. DaemonTypeOK' /\ CountInv'
    BY <1>9 DEF DeleteService, Steps, CountInv, Spare
  <2>2. LoadInv' /\ GenerateInv' /\ HoldInv'
    BY <1>9 DEF DeleteService, LoadInv, GenerateInv, HoldInv
  <2>3. ManagerInv' /\ UninstallInv' /\ UninstallStopsUnlessIgnored'
    BY <1>9 DEF DeleteService, LoadInv, ManagerInv, UninstallInv, UninstallStopsUnlessIgnored
  <2> QED
    BY <2>1, <2>2, <2>3
<1>10. CASE WaitDeleted
  <2>1. DaemonTypeOK' /\ CountInv'
    BY <1>10 DEF WaitDeleted, Steps, CountInv, Spare
  <2>2. LoadInv' /\ GenerateInv' /\ HoldInv'
    BY <1>10 DEF WaitDeleted, LoadInv, GenerateInv, HoldInv
  <2>3. ManagerInv' /\ UninstallInv' /\ UninstallStopsUnlessIgnored'
    BY <1>10 DEF WaitDeleted, LoadInv, ManagerInv, UninstallInv, UninstallStopsUnlessIgnored
  <2> QED
    BY <2>1, <2>2, <2>3
<1> QED
  BY <1>1, <1>2, <1>3, <1>4, <1>5, <1>6, <1>7, <1>8, <1>9, <1>10

(* The service goes on, dies, or the machine does.                         *)
LEMMA ServiceKeepsDaemon ==
  ASSUME DaemonInv,
         \/ ServiceProceeds
         \/ ServiceCrashes
         \/ Reboot
  PROVE  DaemonInv'
<1> USE TwoLoaders, DaemonAssumption
<1> USE DEF DaemonInv, DaemonTypeOK, MaxToken, GivenToken, NoToken, EmptyFile, Generating, Stored,
            manager, tokens, history, Unix, AtStep, StepTo, CommandDone, Launch, LaunchIfDown, ProcessStopped, Down
<1>1. CASE ServiceProceeds
  <2>1. DaemonTypeOK' /\ CountInv'
    BY <1>1 DEF ServiceProceeds, Steps, CountInv, Spare
  <2>2. LoadInv' /\ GenerateInv' /\ HoldInv'
    BY <1>1 DEF ServiceProceeds, LoadInv, GenerateInv, HoldInv
  <2>3. ManagerInv' /\ UninstallInv' /\ UninstallStopsUnlessIgnored'
    BY <1>1 DEF ServiceProceeds, LoadInv, ManagerInv, UninstallInv, UninstallStopsUnlessIgnored
  <2> QED
    BY <2>1, <2>2, <2>3
<1>2. CASE ServiceCrashes
  <2>1. DaemonTypeOK' /\ CountInv'
    <3>1. /\ dmGiven' \in BOOLEAN /\ dmDef' \in BOOLEAN /\ dmMarked' \in BOOLEAN /\ dmLoaded' \in BOOLEAN
          /\ dmEnabled' \in BOOLEAN /\ dmStale' \in BOOLEAN /\ dmIgnored' \in BOOLEAN /\ dmRemoved' \in BOOLEAN
      BY <1>2 DEF ServiceCrashes
    <3>2. /\ dmLoad' \in [{Cli, Service} -> {"idle", "read", "generate", "write"}]
          /\ dmTok' \in [{Cli, Service} -> 0..MaxToken] /\ dmFile' \in 0..MaxToken /\ dmNext' \in 3..MaxToken + 1
      BY <1>2 DEF ServiceCrashes
    <3>3. /\ dmOs' \in {"systemd", "launchd", "windows"}
          /\ dmOp' \in {"install", "start", "stop", "uninstall"} /\ dmStep' \in Steps
          /\ dmProc' \in {"none", "loading", "starting", "running", "stopping", "stopped"}
          /\ dmOps' \in 0..MaxOps /\ dmFaults' \in 0..MaxFaults
      BY <1>2 DEF ServiceCrashes, Steps
    <3>4. CountInv'
      BY <1>2 DEF ServiceCrashes, CountInv, Spare
    <3> QED
      BY <3>1, <3>2, <3>3, <3>4
  <2>2. LoadInv' /\ GenerateInv' /\ HoldInv'
    BY <1>2 DEF ServiceCrashes, LoadInv, GenerateInv, HoldInv
  <2>3. ManagerInv' /\ UninstallInv' /\ UninstallStopsUnlessIgnored'
    BY <1>2 DEF ServiceCrashes, LoadInv, ManagerInv, UninstallInv, UninstallStopsUnlessIgnored
  <2> QED
    BY <2>1, <2>2, <2>3
<1>3. CASE Reboot
  <2>1. DaemonTypeOK' /\ CountInv'
    <3>1. /\ dmGiven' \in BOOLEAN /\ dmDef' \in BOOLEAN /\ dmMarked' \in BOOLEAN /\ dmLoaded' \in BOOLEAN
          /\ dmEnabled' \in BOOLEAN /\ dmStale' \in BOOLEAN /\ dmIgnored' \in BOOLEAN /\ dmRemoved' \in BOOLEAN
      BY <1>3 DEF Reboot
    <3>2. /\ dmLoad' \in [{Cli, Service} -> {"idle", "read", "generate", "write"}]
          /\ dmTok' \in [{Cli, Service} -> 0..MaxToken] /\ dmFile' \in 0..MaxToken /\ dmNext' \in 3..MaxToken + 1
      BY <1>3 DEF Reboot
    <3>3. /\ dmOs' \in {"systemd", "launchd", "windows"}
          /\ dmOp' \in {"install", "start", "stop", "uninstall"} /\ dmStep' \in Steps
          /\ dmProc' \in {"none", "loading", "starting", "running", "stopping", "stopped"}
          /\ dmOps' \in 0..MaxOps /\ dmFaults' \in 0..MaxFaults
      BY <1>3 DEF Reboot, Steps
    <3>4. CountInv'
      BY <1>3 DEF Reboot, CountInv, Spare
    <3> QED
      BY <3>1, <3>2, <3>3, <3>4
  <2>2. LoadInv' /\ GenerateInv' /\ HoldInv'
    BY <1>3 DEF Reboot, LoadInv, GenerateInv, HoldInv
  <2>3. ManagerInv' /\ UninstallInv' /\ UninstallStopsUnlessIgnored'
    BY <1>3 DEF Reboot, LoadInv, ManagerInv, UninstallInv, UninstallStopsUnlessIgnored
  <2> QED
    BY <2>1, <2>2, <2>3
<1> QED
  BY <1>1, <1>2, <1>3

(* Every step keeps DaemonInv. *)
LEMMA DaemonInvStep == DaemonInv /\ [DaemonNext]_dmVars => DaemonInv'
<1> SUFFICES ASSUME DaemonInv, [DaemonNext]_dmVars PROVE DaemonInv'
  OBVIOUS
<1>1. CASE DaemonNext
  BY <1>1, LoadKeepsDaemon, CommandKeepsDaemon, InstallKeepsDaemon, StartKeepsDaemon, UninstallKeepsDaemon,
     ServiceKeepsDaemon DEF DaemonNext
<1>2. CASE UNCHANGED dmVars
  BY <1>2 DEF dmVars, tokens, manager, history, DaemonInv, DaemonTypeOK, LoadInv, GenerateInv, Generating,
       Stored, HoldInv, CountInv, ManagerInv, Unix, UninstallInv, UninstallStopsUnlessIgnored, Down
<1> QED
  BY <1>1, <1>2

(* The initial states satisfy DaemonInv. *)
LEMMA DaemonInvInit == DaemonInit => DaemonInv
<1> USE TwoLoaders, DaemonAssumption
<1> USE DEF DaemonInit, GivenToken, NoToken, EmptyFile
<1>1. DaemonInit => DaemonTypeOK /\ CountInv
  <2> SUFFICES ASSUME DaemonInit PROVE DaemonTypeOK /\ CountInv
    OBVIOUS
  <2>1. MaxToken \in Nat /\ MaxToken >= GivenToken
    BY DEF MaxToken
  <2>2. CountInv
    BY DEF CountInv, Spare
  <2>3. /\ dmTok \in [{Cli, Service} -> 0..MaxToken] /\ dmFile \in 0..MaxToken
        /\ dmNext \in 3..MaxToken + 1
    <3> HIDE DEF MaxToken
    <3>1. NoToken \in 0..MaxToken /\ GivenToken + 1 \in 3..MaxToken + 1
      BY <2>1
    <3> QED
      BY <3>1 DEF DaemonInit
  <2>4. /\ dmDef \in BOOLEAN /\ dmMarked \in BOOLEAN /\ dmLoaded \in BOOLEAN /\ dmEnabled \in BOOLEAN
        /\ dmStale \in BOOLEAN /\ dmIgnored \in BOOLEAN /\ dmRemoved \in BOOLEAN /\ dmGiven \in BOOLEAN
    BY Zenon DEF DaemonInit
  <2>5. /\ dmLoad \in [{Cli, Service} -> {"idle", "read", "generate", "write"}]
        /\ dmOps \in 0..MaxOps /\ dmFaults \in 0..MaxFaults
    OBVIOUS
  <2>6. /\ dmOs \in {"systemd", "launchd", "windows"} /\ dmOp \in {"install", "start", "stop", "uninstall"}
        /\ dmStep \in Steps /\ dmProc \in {"none", "loading", "starting", "running", "stopping", "stopped"}
    BY DEF Steps
  <2> QED
    BY <2>2, <2>3, <2>4, <2>5, <2>6 DEF DaemonTypeOK
<1>2. DaemonInit => LoadInv /\ GenerateInv /\ HoldInv
  BY DEF LoadInv, GenerateInv, Generating, HoldInv
<1>3. DaemonInit => ManagerInv /\ UninstallInv /\ UninstallStopsUnlessIgnored
  BY DEF ManagerInv, UninstallInv, UninstallStopsUnlessIgnored, Down
<1> QED
  BY <1>1, <1>2, <1>3 DEF DaemonInv

(* DaemonInv is an invariant of the specification. *)
LEMMA DaemonInvHolds == DaemonSpec => []DaemonInv
  BY DaemonInvInit, DaemonInvStep, PTL DEF DaemonSpec

(* Type correctness of the daemon integration, the bound on the tokens     *)
(* that are ever generated included (ensure_control_token).                *)
THEOREM DaemonTypeCorrect == DaemonSpec => []DaemonTypeOK
<1>1. DaemonInv => DaemonTypeOK
  BY DEF DaemonInv
<1> QED
  BY <1>1, DaemonInvHolds, PTL

(* The running service has the token that is stored, whatever commands     *)
(* were killed while they wrote it (ensure_control_token,                  *)
(* persist_control_token).                                                 *)
THEOREM TokenCorrect == DaemonSpec => []TokenAgreement
<1>1. DaemonInv => TokenAgreement
  BY DEF DaemonInv, LoadInv, HoldInv, Stored, TokenAgreement
<1> QED
  BY <1>1, DaemonInvHolds, PTL

(* A stored token goes only by install --token, or where one was generated *)
(* beside it.                                                              *)
StoredTokenKept == [][Stored /\ dmFile' # dmFile => dmStale \/ PersistToken]_dmVars

(* ensure_control_token never replaces a token somebody may hold: what the *)
(* CLI and the service generate, however their reads and writes interleave *)
(* and wherever one of them is killed, goes into a file without one, save  *)
(* for the races TokenAgreement excepts.                                   *)
THEOREM StoredTokenCorrect == DaemonSpec => StoredTokenKept
<1> DEFINE Step == Stored /\ dmFile' # dmFile => dmStale \/ PersistToken
<1>1. ASSUME DaemonInv, NEW p \in {Cli, Service}, LoadToken(p) PROVE Step
  <2>1. dmFile' # dmFile => Generating(p)
    BY <1>1 DEF LoadToken, LoadReads, LoadTruncates, LoadWrites, Generating
  <2> QED
    BY <1>1, <2>1 DEF DaemonInv, GenerateInv
<1>2. ASSUME DaemonNext, ~ \E p \in {Cli, Service} : LoadToken(p), ~PersistToken PROVE UNCHANGED dmFile
  BY <1>2 DEF DaemonNext, BeginOp, CommandFails, CliKilled, BeginDefine, WriteDefinition, CreateService,
     DaemonReload, Enable, StartUnit, StartJob, StartService, StopRequest, StopUnit, Disable, RemoveUnit, Unload,
     BootOut, RemovePlist, OpenService, WaitStopped, DeleteService, WaitDeleted, ServiceProceeds,
     ServiceCrashes, Reboot, LaunchIfDown, Launch, ProcessStopped, tokens
<1>3. DaemonInv /\ [DaemonNext]_dmVars => [Step]_dmVars
  BY <1>1, <1>2
<1> QED
  BY <1>3, DaemonInvHolds, PTL DEF DaemonSpec, StoredTokenKept

(* Once uninstall has returned Ok, the definition is gone and the service  *)
(* is stopped, or the failing stop was one of those uninstall ignores:     *)
(* nothing else, no crash, start-up race or pending deletion, lets it      *)
(* return over a service that goes on (uninstall of systemd, launchd and   *)
(* Windows).                                                               *)
THEOREM UninstallCorrect == DaemonSpec => []UninstallStopsUnlessIgnored
<1>1. DaemonInv => UninstallStopsUnlessIgnored
  BY DEF DaemonInv
<1> QED
  BY <1>1, DaemonInvHolds, PTL

-----------------------------------------------------------------------------
(***************************************************************************)
(* AbiHost.                                                                *)
(***************************************************************************)
(* The threads, their frames and the marks for a thread without one.       *)
LEMMA WorkerFacts ==
  /\ \A w \in CallbackWorkers : w[1] \in Classes
  /\ NoFrame \notin Frames /\ Exited \notin Frames /\ NoFrame # Exited
  /\ Frames \subseteq Nat
<1>1. \A w \in CallbackWorkers : w[1] \in Classes
  BY DEF CallbackWorkers
<1>2. MaxRequests \in Nat
  BY AbiAssumption
<1> QED
  BY <1>1, <1>2 DEF NoFrame, Exited, Frames

(* Taking a frame from a queue, and putting one in.                        *)
LEMMA QueueFacts ==
  ASSUME NEW S, NEW q \in Seq(S)
  PROVE  /\ Len(q) \in Nat
         /\ q # <<>> => Tail(q) \in Seq(S) /\ Head(q) \in S /\ Len(Tail(q)) <= Len(q)
         /\ \A e \in S : Append(q, e) \in Seq(S) /\ Len(Append(q, e)) = Len(q) + 1
         /\ <<>> \in Seq(S) /\ Len(<<>>) = 0
  OBVIOUS

(* The records a request ends with are well typed.                         *)
LEMMA AbiRequestTypes ==
  /\ NoRequest \in AbiRequests
  /\ \A h \in Holders : \A result \in {"ok", "failed"} :
       Outcome(h, result) \in AbiRequests /\ Outcome(h, result).pc \in {"idle", "ok", "failed"}
  BY DEF NoRequest, AbiRequests, Outcome, Classes

(* The connection changes hands, or the plugin is opened.                  *)
LEMMA ConnectionKeepsAbi ==
  ASSUME AbiInv, EntryRefused \/ OpenV1 \/ OpenV2 \/ ShareConnection \/ (\E h \in Holders : DropHandle(h))
  PROVE  AbiInv'
<1> USE WorkerFacts DEF AbiInv, AbiTypeOK
<1>1. CASE EntryRefused
  <2>1. AbiTypeOK'
    BY <1>1 DEF EntryRefused
  <2>2. LifetimeInv' /\ PoolInv'
    BY <1>1 DEF EntryRefused, LifetimeInv, PoolInv, PoolGone, Lifetime
  <2> QED
    BY <2>1, <2>2
<1>2. CASE OpenV1
  <2>1. AbiTypeOK'
    BY <1>2 DEF OpenV1, Holders, LifetimeInv, Lifetime
  <2>2. LifetimeInv' /\ PoolInv'
    BY <1>2 DEF OpenV1, LifetimeInv, PoolInv, PoolGone, Lifetime
  <2> QED
    BY <2>1, <2>2
<1>3. CASE OpenV2
  <2>1. AbiTypeOK'
    BY <1>3 DEF OpenV2, Holders, LifetimeInv, Lifetime
  <2>2. LifetimeInv'
    <3>1. <<"work", 1>> \in CallbackWorkers
      BY AbiAssumption DEF CallbackWorkers, Classes
    <3>2. abWorker'[<<"work", 1>>] # Exited
      BY <1>3, <3>1 DEF OpenV2
    <3>3. Lifetime' # {}
      BY <3>1, <3>2 DEF Lifetime
    <3>4. abClosed' = 0 /\ abPlugin' = "entered"
      BY <1>3 DEF OpenV2, LifetimeInv
    <3> QED
      BY <3>3, <3>4 DEF LifetimeInv
  <2>3. PoolInv'
    BY <1>3 DEF OpenV2, PoolInv, PoolGone
  <2> QED
    BY <2>1, <2>2, <2>3
<1>4. CASE ShareConnection
  <2>1. AbiTypeOK'
    BY <1>4 DEF ShareConnection, DropLifetime, Holders
  <2>2. LifetimeInv'
    BY <1>4 DEF ShareConnection, LifetimeInv, DropLifetime, Lifetime
  <2>3. PoolInv'
    BY <1>4 DEF ShareConnection, PoolInv, PoolGone
  <2> QED
    BY <2>1, <2>2, <2>3
<1>5. ASSUME NEW h \in Holders, DropHandle(h) PROVE AbiInv'
  <2>1. AbiTypeOK'
    BY <1>5 DEF DropHandle, DropLifetime
  <2>2. LifetimeInv'
    BY <1>5 DEF DropHandle, LifetimeInv, DropLifetime, Lifetime
  <2>3. PoolInv'
    BY <1>5 DEF DropHandle, PoolInv, PoolGone
  <2> QED
    BY <2>1, <2>2, <2>3
<1> QED
  BY <1>1, <1>2, <1>3, <1>4, <1>5

(* Requests of the holders.                                                *)
LEMMA CallKeepsAbi ==
  ASSUME AbiInv, NEW h \in Holders,
         \/ \E class \in Classes : AbiRequest(h, class)
         \/ CallV1(h) \/ ReturnV1(h) \/ Flush(h) \/ AbiTimeout(h)
  PROVE  AbiInv'
<1> USE WorkerFacts DEF AbiInv, AbiTypeOK
<1>1. /\ UNCHANGED <<abVersion, abPlugin, abHandles, abWorker, abResponses, abReader, abClosed>>
      /\ LifetimeInv'
  BY DEF AbiRequest, CallV1, ReturnV1, Flush, AbiTimeout, LifetimeInv, Lifetime
<1> DEFINE Keeps(frames, request) ==
             /\ abQueue' = frames /\ abCaller' = [abCaller EXCEPT ![h] = request]
             /\ request \in AbiRequests
             /\ request.pc \in {"writing", "waiting", "calling"} => h \in abHandles /\ request.frame \in Frames
<1>2. ASSUME NEW request, Keeps(abQueue, request), abCount' \in 0..MaxRequests PROVE AbiInv'
  <2>1. AbiTypeOK'
    BY <1>1, <1>2
  <2>2. PoolInv'
    BY <1>1, <1>2 DEF PoolInv, PoolGone
  <2> QED
    BY <1>1, <2>1, <2>2
<1>3. CASE \E class \in Classes : AbiRequest(h, class)
  <2>1. PICK class \in Classes : AbiRequest(h, class)
    BY <1>3
  <2>2. abCount + 1 \in Frames /\ abCount' \in 0..MaxRequests
    BY <2>1, AbiAssumption DEF AbiRequest, Frames
  <2>3. Keeps(abQueue, [pc |-> "writing", class |-> class, frame |-> abCount + 1])
    BY <2>1, <2>2 DEF AbiRequest, AbiRequests
  <2> QED
    BY <1>2, <2>2, <2>3
<1>4. CASE CallV1(h)
  <2>1. Keeps(abQueue, [abCaller[h] EXCEPT !.pc = "calling"])
    BY <1>4 DEF CallV1, Moves, AbiRequests
  <2> QED
    BY <1>2, <1>4, <2>1 DEF CallV1
<1>5. ASSUME NEW result \in {"ok", "failed"}, Concluded(h, result), abQueue' = abQueue, abCount' = abCount
      PROVE  AbiInv'
  <2>1. Keeps(abQueue, Outcome(h, result))
    BY <1>5, AbiRequestTypes DEF Concluded
  <2> QED
    BY <1>2, <1>5, <2>1
<1>6. CASE ReturnV1(h) \/ AbiTimeout(h)
  BY <1>5, <1>6 DEF ReturnV1, AbiTimeout
<1>7. CASE Flush(h)
  <2> DEFINE class == abCaller[h].class
             frame == abCaller[h].frame
  <2>1. CASE PoolGone(class)
    BY <1>5, <1>7, <2>1 DEF Flush
  <2>2. CASE ~PoolGone(class)
    <3>1. /\ abQueue' = [abQueue EXCEPT ![class] = Append(abQueue[class], frame)]
          /\ abCaller' = [abCaller EXCEPT ![h] = [abCaller[h] EXCEPT !.pc = "waiting"]]
          /\ Len(abQueue[class]) < QueueLimit[class]
          /\ abCaller[h].pc = "writing" /\ UNCHANGED abCount
      BY <1>7, <2>2 DEF Flush, Moves
    <3>2. abCaller[h] \in AbiRequests /\ class \in Classes /\ QueueLimit[class] \in Nat
      BY AbiAssumption DEF AbiRequests
    <3>3. frame \in Frames
      BY <3>1
    <3>4. Append(abQueue[class], frame) \in Seq(Frames) /\ Len(Append(abQueue[class], frame)) = Len(abQueue[class]) + 1
          /\ Len(abQueue[class]) \in Nat
      BY <3>2, <3>3, QueueFacts
    <3>5. abQueue' \in [Classes -> Seq(Frames)] /\ \A c \in Classes : Len(abQueue'[c]) <= QueueLimit[c]
      BY <3>1, <3>2, <3>4
    <3>6. AbiTypeOK'
      BY <1>1, <3>1, <3>2, <3>5 DEF AbiRequests
    <3>7. PoolInv'
      BY <1>1, <2>2, <3>1, <3>2 DEF PoolInv, PoolGone
    <3> QED
      BY <1>1, <3>6, <3>7
  <2> QED
    BY <2>1, <2>2
<1> QED
  BY <1>3, <1>4, <1>6, <1>7

(* A thread owns a part of the lifetime of a plugin that was entered, and  *)
(* what it does with its part leaves LifetimeInv true.                     *)
LEMMA OwnerKeepsLifetime ==
  ASSUME AbiInv, NEW w \in CallbackWorkers, abWorker[w] # Exited, UNCHANGED abPlugin,
         DropLifetime \/ (Lifetime' # {} /\ UNCHANGED abClosed)
  PROVE  LifetimeInv'
<1>1. w \in Lifetime
  BY DEF Lifetime
<1> QED
  BY <1>1 DEF AbiInv, AbiTypeOK, LifetimeInv, DropLifetime

(* The threads that call the plugin.                                       *)
LEMMA WorkerKeepsAbi ==
  ASSUME AbiInv, NEW w \in CallbackWorkers, TakeFrame(w) \/ CallbackReturns(w) \/ WorkerEnds(w)
  PROVE  AbiInv'
<1> USE WorkerFacts DEF AbiInv
<1> DEFINE class == w[1]
<1>1. class \in Classes /\ abQueue[class] \in Seq(Frames) /\ QueueLimit[class] \in Nat
      /\ Len(abQueue[class]) <= QueueLimit[class]
  BY AbiAssumption DEF AbiTypeOK
<1>2. ASSUME NEW q \in Seq(Frames), abQueue' = [abQueue EXCEPT ![class] = q], Len(q) <= QueueLimit[class],
             NEW f \in Frames \cup {NoFrame, Exited}, abWorker' = [abWorker EXCEPT ![w] = f],
             abResponses' \in Seq([frame : Frames, ok : BOOLEAN]), abClosed' \in Nat,
             UNCHANGED <<abVersion, abPlugin, abHandles, abCaller, abCount, abReader>>
      PROVE  AbiTypeOK'
  BY <1>1, <1>2 DEF AbiTypeOK
<1>3. CASE TakeFrame(w)
  <2> DEFINE f == Head(abQueue[class])
             q == Tail(abQueue[class])
  <2>1. /\ abWorker[w] = NoFrame /\ abQueue[class] # <<>>
        /\ abWorker' = [abWorker EXCEPT ![w] = f] /\ abQueue' = [abQueue EXCEPT ![class] = q]
        /\ UNCHANGED <<abVersion, abPlugin, abHandles, abCaller, abCount, abResponses, abReader, abClosed>>
    BY <1>3 DEF TakeFrame
  <2>2. f \in Frames /\ q \in Seq(Frames) /\ Len(q) <= QueueLimit[class]
    BY <1>1, <2>1, QueueFacts
  <2> HIDE DEF f, q
  <2>3. AbiTypeOK'
    BY <1>2, <2>1, <2>2 DEF AbiTypeOK
  <2>4. w \in Lifetime' /\ \A v \in CallbackWorkers : abWorker'[v] = Exited <=> abWorker[v] = Exited
    BY <2>1, <2>2 DEF Lifetime, AbiTypeOK
  <2>5. LifetimeInv'
    BY <2>1, <2>4, OwnerKeepsLifetime
  <2>6. PoolInv'
    BY <2>1, <2>4, <1>1 DEF PoolInv, PoolGone, AbiTypeOK
  <2> QED
    BY <2>3, <2>5, <2>6
<1>4. CASE CallbackReturns(w)
  <2>1. /\ abWorker[w] \in Frames /\ DropLifetime
        /\ UNCHANGED <<abVersion, abPlugin, abHandles, abCaller, abCount, abReader>>
    BY <1>4 DEF CallbackReturns
  <2>2. LifetimeInv' /\ abClosed' \in Nat
    BY <2>1, OwnerKeepsLifetime DEF DropLifetime, AbiTypeOK
  <2>3. CASE abReader
    <3>1. PICK ok \in BOOLEAN :
            /\ abResponses' = Append(abResponses, [frame |-> abWorker[w], ok |-> ok])
            /\ abWorker' = [abWorker EXCEPT ![w] = NoFrame]
      BY <1>4, <2>3 DEF CallbackReturns
    <3>2. abResponses' \in Seq([frame : Frames, ok : BOOLEAN])
      BY <2>1, <3>1, QueueFacts DEF AbiTypeOK
    <3>3. abWorker'[w] # Exited /\ abQueue' = abQueue
      BY <1>4, <3>1 DEF CallbackReturns, AbiTypeOK
    <3>4. AbiTypeOK'
      BY <2>1, <2>2, <3>1, <3>2, <3>3 DEF AbiTypeOK
    <3>5. PoolInv'
      BY <3>1, <3>3 DEF PoolInv, PoolGone, AbiTypeOK
    <3> QED
      BY <2>2, <3>4, <3>5
  <2>4. CASE ~abReader
    <3> DEFINE AllGone == \A v \in CallbackWorkers \ {w} : v[1] = class => abWorker[v] = Exited
    <3>1. /\ abWorker' = [abWorker EXCEPT ![w] = Exited] /\ abResponses' = abResponses
          /\ abQueue' = IF AllGone THEN [abQueue EXCEPT ![class] = <<>>] ELSE abQueue
      BY <1>4, <2>4 DEF CallbackReturns, AbiTypeOK
    <3>2. <<>> \in Seq(Frames) /\ Len(<<>>) <= QueueLimit[class]
      BY <1>1, QueueFacts
    <3>3. AbiTypeOK'
      BY <1>1, <2>1, <2>2, <3>1, <3>2 DEF AbiTypeOK
    <3>4. ASSUME NEW c \in Classes, abQueue'[c] # <<>> PROVE ~PoolGone(c)'
      <4>1. abQueue[c] # <<>> /\ (c = class => ~AllGone)
        BY <1>1, <3>1, <3>4 DEF AbiTypeOK
      <4>2. PICK v \in CallbackWorkers : v[1] = c /\ abWorker[v] # Exited
        BY <4>1 DEF PoolInv, PoolGone
      <4>3. CASE c = class
        <5>1. PICK u \in CallbackWorkers \ {w} : u[1] = class /\ abWorker[u] # Exited
          BY <4>1, <4>3
        <5> QED
          BY <3>1, <4>3, <5>1 DEF PoolGone, AbiTypeOK
      <4>4. CASE c # class
        BY <3>1, <4>2, <4>4 DEF PoolGone, AbiTypeOK
      <4> QED
        BY <4>3, <4>4
    <3>5. PoolInv'
      BY <3>4 DEF PoolInv
    <3> QED
      BY <2>2, <3>3, <3>5
  <2> QED
    BY <2>3, <2>4
<1>5. CASE WorkerEnds(w)
  <2>1. /\ abWorker[w] = NoFrame /\ abQueue[class] = <<>> /\ DropLifetime
        /\ abWorker' = [abWorker EXCEPT ![w] = Exited]
        /\ UNCHANGED <<abVersion, abPlugin, abHandles, abCaller, abCount, abQueue, abResponses, abReader>>
    BY <1>5 DEF WorkerEnds
  <2>2. LifetimeInv' /\ abClosed' \in Nat
    BY <2>1, OwnerKeepsLifetime DEF DropLifetime, AbiTypeOK
  <2>3. AbiTypeOK'
    BY <2>1, <2>2 DEF AbiTypeOK
  <2>4. PoolInv'
    BY <2>1 DEF PoolInv, PoolGone, AbiTypeOK
  <2> QED
    BY <2>2, <2>3, <2>4
<1> QED
  BY <1>3, <1>4, <1>5

(* The reader hands out an answer, or ends and fails every request.        *)
LEMMA ReaderKeepsAbi ==
  ASSUME AbiInv, ReadResponse
  PROVE  AbiInv'
<1> USE WorkerFacts DEF AbiInv
<1> DEFINE r == Head(abResponses)
<1>1. UNCHANGED <<abVersion, abPlugin, abHandles, abCount, abQueue, abWorker, abClosed>>
  BY DEF ReadResponse
<1>2. LifetimeInv' /\ PoolInv'
  BY <1>1 DEF LifetimeInv, Lifetime, PoolInv, PoolGone
<1>3. r \in [frame : Frames, ok : BOOLEAN]
  BY QueueFacts DEF ReadResponse, AbiTypeOK
<1>4. abReader' \in BOOLEAN /\ abResponses' \in Seq([frame : Frames, ok : BOOLEAN])
  BY <1>3, QueueFacts DEF ReadResponse, AbiTypeOK
<1>5. ASSUME NEW h \in Holders
      PROVE  \/ abCaller'[h] = abCaller[h]
             \/ abCaller'[h] \in AbiRequests /\ abCaller'[h].pc \in {"idle", "ok", "failed"}
  BY <1>5, AbiRequestTypes DEF ReadResponse
<1>6. abCaller' \in [Holders -> AbiRequests]
  BY <1>5 DEF ReadResponse, AbiTypeOK
<1>7. AbiTypeOK'
  BY <1>1, <1>4, <1>5, <1>6 DEF AbiTypeOK
<1> QED
  BY <1>2, <1>7

(* Every step keeps AbiInv. *)
LEMMA AbiInvStep == AbiInv /\ [AbiNext]_abVars => AbiInv'
<1> SUFFICES ASSUME AbiInv, [AbiNext]_abVars PROVE AbiInv'
  OBVIOUS
<1>1. CASE AbiNext
  BY <1>1, ConnectionKeepsAbi, CallKeepsAbi, WorkerKeepsAbi, ReaderKeepsAbi DEF AbiNext
<1>2. CASE UNCHANGED abVars
  BY <1>2 DEF abVars, AbiInv, AbiTypeOK, LifetimeInv, Lifetime, PoolInv, PoolGone
<1> QED
  BY <1>1, <1>2

(* The initial states satisfy AbiInv. *)
LEMMA AbiInvInit == AbiInit => AbiInv
<1> SUFFICES ASSUME AbiInit PROVE AbiInv
  OBVIOUS
<1> USE WorkerFacts, AbiAssumption DEF AbiInit
<1>1. /\ abCaller \in [Holders -> AbiRequests] /\ abQueue \in [Classes -> Seq(Frames)]
      /\ \A h \in Holders : abCaller[h].pc = "idle"
      /\ \A c \in Classes : Len(abQueue[c]) <= QueueLimit[c]
      /\ abResponses \in Seq([frame : Frames, ok : BOOLEAN])
  BY AbiRequestTypes, QueueFacts DEF NoRequest
<1>2. AbiTypeOK
  BY <1>1 DEF AbiTypeOK
<1>3. LifetimeInv /\ PoolInv
  BY DEF LifetimeInv, Lifetime, PoolInv
<1> QED
  BY <1>2, <1>3 DEF AbiInv

(* AbiInv is an invariant of the specification. *)
LEMMA AbiInvHolds == AbiSpec => []AbiInv
  BY AbiInvInit, AbiInvStep, PTL DEF AbiSpec

(* Type correctness of the ABI host: the queues stay within their limits,  *)
(* and only who holds the connection has a request under way (connection.rs,*)
(* v2.rs, io.rs).                                                          *)
THEOREM AbiTypeCorrect == AbiSpec => []AbiTypeOK
<1>1. AbiInv => AbiTypeOK
  BY DEF AbiInv
<1> QED
  BY <1>1, AbiInvHolds, PTL

(* For any handles, queue limits and pool sizes, a plugin that was entered *)
(* is closed once, and only when no callback of it runs and no frame for   *)
(* it is queued (Drop of PluginLifetime and V1Connection).                 *)
THEOREM PluginClosedCorrect == AbiSpec => []PluginClosedOnce
<1>1. AbiInv => PluginClosedOnce
  <2> SUFFICES ASSUME AbiInv, abPlugin = "entered" PROVE PluginClosedOnce
    BY DEF PluginClosedOnce
  <2> USE WorkerFacts DEF AbiInv
  <2>1. abClosed = IF Lifetime = {} THEN 1 ELSE 0
    BY DEF LifetimeInv
  <2>2. Lifetime = {} => abHandles = {} /\ \A w \in CallbackWorkers : abWorker[w] = Exited
    BY DEF Lifetime
  <2>3. Lifetime = {} => ~InCallback
    BY <2>2 DEF InCallback, AbiTypeOK
  <2>4. Lifetime = {} => \A c \in Classes : abQueue[c] = <<>>
    BY <2>2 DEF PoolInv, PoolGone
  <2>5. abHandles = {} /\ (\A w \in CallbackWorkers : abWorker[w] = Exited) => Lifetime = {}
    BY DEF Lifetime
  <2> QED
    BY <2>1, <2>2, <2>3, <2>4, <2>5 DEF PluginClosedOnce
<1> QED
  BY <1>1, AbiInvHolds, PTL

-----------------------------------------------------------------------------
(***************************************************************************)
(* PluginArtifacts.                                                        *)
(***************************************************************************)
(* A plan that does not change has the same record to load.                *)
LEMMA PlanKept ==
  \A m : paPlan'[m] = paPlan[m] => Loading(m)' = Loading(m) /\ Target(m)' = Target(m)
  BY DEF Loading, Target, TargetOf, StageTarget

(* The record being loaded is one of the plan, and its target is a         *)
(* directory of the staging area.                                          *)
LEMMA TargetFacts ==
  ASSUME ArtifactInv, NEW l \in Loaders, paPlan[l] # {}
  PROVE  /\ Loading(l) \in paPlan[l] /\ Loading(l).entry \in PluginDirs
         /\ Loading(l).plugin \in Selected /\ Loading(l).sha \in Versions
         /\ Target(l) \in Targets /\ Target(l)[2] = Loading(l).sha
         /\ Target(l) = StageTarget(Loading(l).plugin, Loading(l).sha)
<1>1. Loading(l) \in paPlan[l]
  BY DEF Loading
<1>2. Loading(l).entry \in PluginDirs /\ Loading(l).plugin \in Selected /\ Loading(l).sha \in Versions
  BY <1>1 DEF ArtifactInv, Planned
<1> QED
  BY <1>1, <1>2 DEF Target, TargetOf, StageTarget, Targets

(* One load moves, the others stay where they are.                         *)
LEMMA GoesFacts ==
  ASSUME ArtifactTypeOK, NEW l \in Loaders, NEW at \in LoadPcs, NEW plan, NEW new \in SUBSET Loads,
         Goes(l, at, plan, new)
  PROVE  /\ paBoot' \in [Loaders -> LoadPcs] /\ paNew' \in [Loaders -> SUBSET Loads]
         /\ DOMAIN paPlan' = Loaders
         /\ paBoot'[l] = at /\ paPlan'[l] = plan /\ paNew'[l] = new
         /\ \A m \in Loaders \ {l} :
              /\ paBoot'[m] = paBoot[m] /\ paPlan'[m] = paPlan[m] /\ paNew'[m] = paNew[m]
              /\ Loading(m)' = Loading(m) /\ Target(m)' = Target(m)
         /\ plan = paPlan[l] => Loading(l)' = Loading(l) /\ Target(l)' = Target(l)
<1>1. paBoot \in [Loaders -> LoadPcs] /\ paNew \in [Loaders -> SUBSET Loads] /\ DOMAIN paPlan = Loaders
  BY DEF ArtifactTypeOK, LoadPcs
<1>2. /\ paBoot' \in [Loaders -> LoadPcs] /\ paBoot'[l] = at
      /\ \A m \in Loaders \ {l} : paBoot'[m] = paBoot[m]
  BY <1>1 DEF Goes
<1>3. /\ paNew' \in [Loaders -> SUBSET Loads] /\ paNew'[l] = new
      /\ \A m \in Loaders \ {l} : paNew'[m] = paNew[m]
  BY <1>1 DEF Goes
<1>4. DOMAIN paPlan' = Loaders /\ paPlan'[l] = plan /\ \A m \in Loaders \ {l} : paPlan'[m] = paPlan[m]
  BY <1>1 DEF Goes
<1> QED
  BY <1>2, <1>3, <1>4, PlanKept

(* Which libraries are open, before and after a step.                      *)
LEMMA MappedFacts ==
  /\ \A x : x \in Mapped <=> x \in paServing \/ \E m \in Loaders : x \in paNew[m]
  /\ \A x : x \in Mapped' <=> x \in paServing' \/ \E m \in Loaders : x \in paNew'[m]
  BY DEF Mapped

LEMMA MappedTypes ==
  ASSUME ArtifactTypeOK
  PROVE  \A x \in Mapped : x \in Loads /\ StageTarget(x.plugin, x.sha) \in Targets
<1>1. \A x \in Mapped : x \in Loads
  BY MappedFacts DEF ArtifactTypeOK
<1> QED
  BY <1>1 DEF Loads, StageTarget, Targets

(* A load moves and opens no library, or another one.                      *)
LEMMA MappedMoves ==
  ASSUME ArtifactTypeOK, NEW l \in Loaders, NEW at \in LoadPcs, NEW plan, NEW new \in SUBSET Loads,
         Goes(l, at, plan, new), paServing' \in {paServing, paNew[l]}
  PROVE  /\ new \subseteq paNew[l] => Mapped' \subseteq Mapped
         /\ \A x : new = paNew[l] \cup {x} => Mapped' \subseteq Mapped \cup {x}
  BY GoesFacts, MappedFacts

(* What is true of the other loads stays true of them.                     *)
LEMMA OthersKeep ==
  ASSUME ArtifactInv, NEW l \in Loaders, NEW at \in LoadPcs, NEW plan, NEW new \in SUBSET Loads,
         Goes(l, at, plan, new)
  PROVE  \A m \in Loaders \ {l} : Planned(m)' /\ Once(m)'
<1> SUFFICES ASSUME NEW m \in Loaders \ {l} PROVE Planned(m)' /\ Once(m)'
  OBVIOUS
<1>1. paBoot'[m] = paBoot[m] /\ paPlan'[m] = paPlan[m] /\ paNew'[m] = paNew[m]
  BY GoesFacts DEF ArtifactInv
<1> QED
  BY <1>1 DEF ArtifactInv, Planned, Once, Engaged

(* A load leaves the file it was about, or was about none.                 *)
LEMMA LeavesFiles ==
  ASSUME ArtifactInv, NEW l \in Loaders, NEW at \in {"idle", "next", "handshake"}, NEW plan,
         NEW new \in SUBSET Loads, Goes(l, at, plan, new),
         UNCHANGED <<paStaged, paChanged, paShared>>, paHalf \subseteq paHalf',
         paBoot[l] = "copy" => Target(l) \in paHalf',
         Mapped' \subseteq Mapped
  PROVE  FileInv'
<1>1. /\ paBoot'[l] = at
      /\ \A m \in Loaders \ {l} : paBoot'[m] = paBoot[m] /\ Target(m)' = Target(m)
  BY GoesFacts DEF ArtifactInv, LoadPcs
<1>2. StagedInv'
  BY DEF ArtifactInv, FileInv, StagedInv
<1>3. TornInv'
  BY <1>1 DEF ArtifactInv, FileInv, TornInv
<1>4. WriteInv'
  BY <1>1 DEF ArtifactInv, FileInv, WriteInv, Writing, Engaged
<1>5. OpenInv'
  BY <1>1 DEF ArtifactInv, FileInv, OpenInv
<1>6. Verified' /\ MappedFileKept'
  BY DEF ArtifactInv, FileInv, Verified, MappedFileKept, Mapped
<1> QED
  BY <1>2, <1>3, <1>4, <1>5, <1>6 DEF FileInv

(* A boot or reload that fails leaves the Core that runs, or none.         *)
LEMMA GiveUpKeepsArtifacts ==
  ASSUME ArtifactInv, NEW l \in Loaders, GiveUp(l), UNCHANGED <<operator, paStaged, paChanged, paShared, paCrashes>>,
         paHalf \subseteq paHalf', paHalf' \subseteq Targets, paBoot[l] = "copy" => Target(l) \in paHalf'
  PROVE  ArtifactInv'
<1>1. Goes(l, "idle", {}, {}) /\ UNCHANGED paServing /\ "idle" \in LoadPcs /\ {} \in SUBSET Loads
  BY DEF GiveUp, LoadPcs
<1>2. /\ paBoot' \in [Loaders -> LoadPcs] /\ paNew' \in [Loaders -> SUBSET Loads] /\ DOMAIN paPlan' = Loaders
      /\ paBoot'[l] = "idle" /\ paPlan'[l] = {} /\ \A m \in Loaders \ {l} : paPlan'[m] = paPlan[m]
  BY <1>1, GoesFacts DEF ArtifactInv
<1>3. ArtifactTypeOK'
  BY <1>1, <1>2 DEF ArtifactInv, ArtifactTypeOK, operator, LoadPcs
<1>4. Mapped' \subseteq Mapped
  BY <1>1, MappedMoves DEF ArtifactInv
<1>5. FileInv'
  BY <1>1, <1>4, LeavesFiles
<1>6. \A m \in Loaders : Planned(m)' /\ Once(m)'
  <2>1. Planned(l)' /\ Once(l)'
    BY <1>2 DEF Planned, Once, Engaged
  <2> QED
    BY <1>1, <2>1, OthersKeep
<1>7. ServingOnce'
  BY <1>1 DEF ArtifactInv, ServingOnce
<1> QED
  BY <1>3, <1>5, <1>6, <1>7 DEF ArtifactInv

(* A load goes on.                                                         *)
LEMMA GoesOnKeeps ==
  ASSUME ArtifactInv, NEW l \in Loaders, NEW at \in LoadPcs, NEW plan, NEW new \in SUBSET Loads,
         Goes(l, at, plan, new), UNCHANGED <<operator, paServing, paCrashes>>,
         paStaged' \in [Targets -> Versions \cup {Missing, Torn}],
         paChanged' \cup paHalf' \cup paShared' \subseteq Targets,
         \A r \in plan : r.plugin \in Selected,
         FileInv', Planned(l)', Once(l)'
  PROVE  ArtifactInv'
<1>1. /\ paBoot' \in [Loaders -> LoadPcs] /\ paNew' \in [Loaders -> SUBSET Loads] /\ DOMAIN paPlan' = Loaders
      /\ paPlan'[l] = plan /\ \A m \in Loaders \ {l} : paPlan'[m] = paPlan[m]
  BY GoesFacts DEF ArtifactInv
<1>2. ArtifactTypeOK'
  BY <1>1 DEF ArtifactInv, ArtifactTypeOK, operator, LoadPcs
<1>3. ServingOnce'
  BY DEF ArtifactInv, ServingOnce
<1> QED
  BY <1>2, <1>3, OthersKeep DEF ArtifactInv

(* The same record, a step further.                                        *)
LEMMA SameRecordKeeps ==
  ASSUME ArtifactInv, NEW l \in Loaders, NEW at \in LoadPcs \ {"idle"}, paBoot[l] # "idle", paPlan[l] # {},
         Goes(l, at, paPlan[l], paNew[l]), UNCHANGED <<operator, paServing, paCrashes>>,
         paStaged' \in [Targets -> Versions \cup {Missing, Torn}],
         paChanged' \cup paHalf' \cup paShared' \subseteq Targets,
         FileInv'
  PROVE  ArtifactInv'
<1>1. paNew[l] \in SUBSET Loads /\ \A r \in paPlan[l] : r.plugin \in Selected
  BY DEF ArtifactInv, ArtifactTypeOK
<1>2. paBoot'[l] = at /\ paPlan'[l] = paPlan[l] /\ paNew'[l] = paNew[l]
  BY <1>1, GoesFacts DEF ArtifactInv
<1>3. Planned(l)' /\ Once(l)'
  BY <1>2 DEF ArtifactInv, Planned, Once, Engaged
<1> QED
  BY <1>1, <1>3, GoesOnKeeps

(* What the scan keeps of the directories.                                 *)
ScannedRecords == Scan({}, [e \in PluginDirs |-> Record(e)], paContent, paDisabled).records

(* They come from plugin directories, name versions and are finitely many. *)
LEMMA ScanFacts ==
  ASSUME ArtifactTypeOK
  PROVE  /\ \A r \in ScannedRecords : r.entry \in PluginDirs /\ r.sha \in Versions
         /\ IsFiniteSet(ScannedRecords)
<1> DEFINE found == [e \in PluginDirs |-> Record(e)]
           All == {Record(e) : e \in PluginDirs}
<1>1. \A e \in PluginDirs : [found[e] EXCEPT !.entry = e] = Record(e)
  BY DEF Record
<1>2. ScannedRecords \subseteq All
  BY <1>1 DEF ScannedRecords, Scan
<1>3. \A r \in All : r.entry \in PluginDirs /\ r.sha \in Versions
  BY DEF Record, ArtifactTypeOK
<1>4. IsFiniteSet(All)
  <2>1. found \in Surjection(PluginDirs, All)
    BY DEF Surjection
  <2> QED
    BY <2>1, ArtifactAssumption, FS_Surjection
<1>5. IsFiniteSet(ScannedRecords)
  BY <1>2, <1>4, FS_Subset
<1> QED
  BY <1>2, <1>3, <1>5

(* The operator changes nothing that was scanned, staged or loaded.        *)
LEMMA OperatorKeepsArtifacts ==
  ASSUME ArtifactInv, UNCHANGED <<paStaged, loads, taints>>, paCrashes' = paCrashes,
         paSha' \in [PluginDirs -> Versions], paContent' \in [PluginDirs -> Versions \cup {Missing}],
         paDisabled' \subseteq Selected, paUpgrades' \in 0..MaxUpgrades
  PROVE  ArtifactInv'
<1>1. UNCHANGED <<paStaged, paBoot, paPlan, paNew, paServing, paChanged, paHalf, paShared>>
  BY DEF loads, taints
<1>2. ArtifactTypeOK'
  BY <1>1 DEF ArtifactInv, ArtifactTypeOK
<1>3. Mapped' = Mapped /\ \A m \in Loaders : Target(m)' = Target(m)
  BY <1>1, PlanKept DEF Mapped
<1>4. StagedInv' /\ TornInv' /\ WriteInv' /\ OpenInv'
  BY <1>1, <1>3 DEF ArtifactInv, FileInv, StagedInv, TornInv, WriteInv, OpenInv, Writing, Engaged
<1>5. Verified' /\ MappedFileKept'
  BY <1>1, <1>3 DEF ArtifactInv, FileInv, Verified, MappedFileKept
<1>6. (\A l \in Loaders : Planned(l)' /\ Once(l)') /\ ServingOnce'
  BY <1>1 DEF ArtifactInv, Planned, Once, Engaged, ServingOnce
<1> QED
  BY <1>2, <1>4, <1>5, <1>6 DEF ArtifactInv, FileInv

(* The scan plans each selected plugin once.                               *)
LEMMA ScanKeepsArtifacts ==
  ASSUME ArtifactInv, NEW l \in Loaders, ScanInventory(l)
  PROVE  ArtifactInv'
<1> DEFINE plan == {r \in ScannedRecords : r.plugin \in Selected}
<1>1. /\ \A p \in Selected : Cardinality({r \in ScannedRecords : r.plugin = p}) = 1
      /\ paBoot[l] = "idle" /\ Goes(l, "next", plan, {})
      /\ UNCHANGED <<operator, paStaged, paServing, paCrashes>>
      /\ UNCHANGED <<paChanged, paHalf, paShared>>
  BY DEF ScanInventory, ScannedRecords, taints
<1>2. "next" \in LoadPcs /\ {} \in SUBSET Loads
  BY DEF LoadPcs
<1>3. paBoot'[l] = "next" /\ paPlan'[l] = plan /\ paNew'[l] = {}
  BY <1>1, <1>2, GoesFacts DEF ArtifactInv
<1>4. Mapped' \subseteq Mapped
  BY <1>1, <1>2, MappedMoves DEF ArtifactInv
<1>5. FileInv'
  BY <1>1, <1>2, <1>4, LeavesFiles
<1>6. Planned(l)'
  BY <1>3, ScanFacts DEF ArtifactInv, Planned, Engaged
<1>7. ASSUME NEW p \in Selected PROVE \E r \in plan : {q \in plan : q.plugin = p} = {r}
  <2> DEFINE S == {r \in ScannedRecords : r.plugin = p}
  <2>1. IsFiniteSet(S)
    BY ScanFacts, FS_Subset DEF ArtifactInv
  <2>2. PICK r : S = {r}
    BY <1>1, <2>1, FS_Singleton
  <2>3. r \in plan /\ {q \in plan : q.plugin = p} = {r}
    BY <2>2
  <2> QED
    BY <2>3
<1>8. Once(l)'
  BY <1>3, <1>7 DEF Once
<1>9. /\ paStaged' \in [Targets -> Versions \cup {Missing, Torn}]
      /\ paChanged' \cup paHalf' \cup paShared' \subseteq Targets
  BY <1>1 DEF ArtifactInv, ArtifactTypeOK
<1> HIDE DEF plan
<1>10. \A r \in plan : r.plugin \in Selected
  BY DEF plan
<1> QED
  BY <1>1, <1>2, <1>5, <1>6, <1>8, <1>9, <1>10, GoesOnKeeps

(* stage_artifact finds a file, or none and is going to copy; whom it      *)
(* meets there is recorded.                                                *)
LEMMA BeginStageKeeps ==
  ASSUME ArtifactInv, NEW l \in Loaders, BeginStage(l)
  PROVE  ArtifactInv'
<1> DEFINE target == Target(l)
           at == IF paStaged[target] = Missing THEN "create" ELSE "open"
<1>1. /\ paBoot[l] = "next" /\ paPlan[l] # {} /\ Goes(l, at, paPlan[l], paNew[l])
      /\ paShared' = IF \E m \in Loaders : Writing(m, target) THEN paShared \cup {target} ELSE paShared
      /\ UNCHANGED <<operator, paStaged, paServing, paChanged, paHalf, paCrashes>>
  BY DEF BeginStage
<1>2. at \in LoadPcs \ {"idle"} /\ paNew[l] \in SUBSET Loads /\ target \in Targets
  BY <1>1, TargetFacts DEF LoadPcs, ArtifactInv, ArtifactTypeOK
<1>3. /\ paBoot'[l] = at /\ Target(l)' = target
      /\ \A m \in Loaders \ {l} : paBoot'[m] = paBoot[m] /\ Target(m)' = Target(m)
  BY <1>1, <1>2, GoesFacts DEF ArtifactInv
<1>4. Mapped' \subseteq Mapped
  BY <1>1, <1>2, MappedMoves DEF ArtifactInv
<1>5. paShared \subseteq paShared' /\ paShared' \subseteq Targets
  BY <1>1, <1>2 DEF ArtifactInv, ArtifactTypeOK
<1>6. /\ paStaged' \in [Targets -> Versions \cup {Missing, Torn}]
      /\ paChanged' \cup paHalf' \cup paShared' \subseteq Targets
  BY <1>1, <1>5 DEF ArtifactInv, ArtifactTypeOK
<1> HIDE DEF target, at
<1>7. StagedInv' /\ TornInv'
  <2>1. StagedInv'
    BY <1>1 DEF ArtifactInv, FileInv, StagedInv
  <2>2. TornInv'
    BY <1>1, <1>3, <1>5 DEF ArtifactInv, FileInv, TornInv
  <2> QED
    BY <2>1, <2>2
<1>8. WriteInv'
  <2> SUFFICES ASSUME NEW m \in Loaders, NEW t \in Targets \ paShared', Writing(m, t)'
               PROVE  /\ paStaged'[t] = IF paBoot'[m] = "create" THEN Missing ELSE Torn
                      /\ \A n \in Loaders \ {m} : Engaged(n)' => Target(n)' # t
                      /\ \A x \in Mapped' : StageTarget(x.plugin, x.sha) # t
    BY DEF WriteInv
  <2>1. CASE m = l
    <3>1. t = target /\ at = "create" /\ paStaged[target] = Missing
      BY <1>3, <2>1 DEF Writing, at
    <3>2. \A n \in Loaders : ~Writing(n, target)
      BY <1>1, <3>1
    <3>3. \A n \in Loaders \ {l} : Engaged(n) => Target(n) # t
      BY <3>1, <3>2 DEF ArtifactInv, FileInv, OpenInv, Engaged, Writing
    <3>4. \A n \in Loaders \ {m} : Engaged(n)' => Target(n)' # t
      BY <1>3, <2>1, <3>3 DEF Engaged
    <3>5. \A x \in Mapped : StageTarget(x.plugin, x.sha) # t
      <4> SUFFICES ASSUME NEW x \in Mapped, StageTarget(x.plugin, x.sha) = t PROVE FALSE
        OBVIOUS
      <4>1. paStaged[t] = x.content
        BY <1>5 DEF ArtifactInv, FileInv, MappedFileKept, Mapped
      <4>2. x.content # Missing
        BY MappedTypes, ArtifactAssumption DEF ArtifactInv, Loads, Missing, Torn
      <4> QED
        BY <3>1, <4>1, <4>2
    <3> QED
      BY <1>1, <1>3, <1>4, <2>1, <3>1, <3>4, <3>5
  <2>2. CASE m # l
    <3>1. Writing(m, t) /\ t # target /\ t \notin paShared /\ paBoot'[m] = paBoot[m]
      BY <1>1, <1>3, <1>5, <2>2 DEF Writing
    <3>2. /\ paStaged[t] = IF paBoot[m] = "create" THEN Missing ELSE Torn
          /\ \A n \in Loaders \ {m} : Engaged(n) => Target(n) # t
          /\ \A x \in Mapped : StageTarget(x.plugin, x.sha) # t
      BY <3>1 DEF ArtifactInv, FileInv, WriteInv
    <3>3. \A n \in Loaders \ {m} : Engaged(n)' => Target(n)' # t
      BY <1>3, <3>1, <3>2 DEF Engaged
    <3> QED
      BY <1>1, <1>4, <3>1, <3>2, <3>3
  <2> QED
    BY <2>1, <2>2
<1>9. OpenInv'
  BY <1>1, <1>3 DEF ArtifactInv, FileInv, OpenInv, at
<1>10. Verified' /\ MappedFileKept'
  BY <1>1, <1>4, <1>5 DEF ArtifactInv, FileInv, Verified, MappedFileKept, Mapped
<1> QED
  BY <1>1, <1>2, <1>6, <1>7, <1>8, <1>9, <1>10, SameRecordKeeps DEF FileInv

(* fs::copy creates the file, or empties it where another load has made    *)
(* one, and writes it.                                                     *)
LEMMA CopyKeeps ==
  ASSUME ArtifactInv, NEW l \in Loaders, CreateTarget(l) \/ \E v \in Versions : CopyArtifact(l, v)
  PROVE  ArtifactInv'
<1> DEFINE target == Target(l)
<1>1. PICK at \in {"copy", "open"}, c \in Versions \cup {Torn} :
        /\ paBoot[l] \in {"create", "copy"} /\ Goes(l, at, paPlan[l], paNew[l])
        /\ paStaged' = [paStaged EXCEPT ![target] = c]
        /\ paChanged' = IF c \in {Torn, Loading(l).sha} THEN paChanged ELSE paChanged \cup {target}
        /\ IF at = "copy" THEN c = Torn ELSE c # Torn
        /\ UNCHANGED <<operator, paServing, paHalf, paShared, paCrashes>>
  <2>1. CASE CreateTarget(l)
    BY <2>1 DEF CreateTarget, taints
  <2>2. CASE \E v \in Versions : CopyArtifact(l, v)
    <3>1. PICK v \in Versions : CopyArtifact(l, v)
      BY <2>2
    <3>2. v # Torn
      BY ArtifactAssumption
    <3> QED
      BY <3>1, <3>2 DEF CopyArtifact
  <2> QED
    BY <2>1, <2>2
<1>2. /\ paPlan[l] # {} /\ target \in Targets /\ target[2] = Loading(l).sha
      /\ at \in LoadPcs \ {"idle"} /\ paNew[l] \in SUBSET Loads /\ c # Missing
  <2>1. paPlan[l] # {}
    BY <1>1 DEF ArtifactInv, Planned, Engaged
  <2>2. c # Missing
    BY ArtifactAssumption DEF Missing, Torn
  <2> QED
    BY <1>1, <2>1, <2>2, TargetFacts DEF LoadPcs, ArtifactInv, ArtifactTypeOK
<1>3. /\ paBoot'[l] = at /\ Target(l)' = target
      /\ \A m \in Loaders \ {l} : paBoot'[m] = paBoot[m] /\ Target(m)' = Target(m)
  BY <1>1, <1>2, GoesFacts DEF ArtifactInv
<1>4. Mapped' \subseteq Mapped
  BY <1>1, <1>2, MappedMoves DEF ArtifactInv
<1>5. /\ paStaged' \in [Targets -> Versions \cup {Missing, Torn}]
      /\ paStaged'[target] = c /\ \A t \in Targets \ {target} : paStaged'[t] = paStaged[t]
      /\ paChanged \subseteq paChanged' /\ paChanged' \cup paHalf' \cup paShared' \subseteq Targets
  BY <1>1, <1>2 DEF ArtifactInv, ArtifactTypeOK
<1>6. Writing(l, target)
  BY <1>1 DEF Writing
<1> HIDE DEF target
<1>7. StagedInv'
  BY <1>1, <1>2, <1>5 DEF ArtifactInv, FileInv, StagedInv
<1>8. TornInv'
  <2> SUFFICES ASSUME NEW t \in Targets, paStaged'[t] = Torn
               PROVE  t \in paHalf' \cup paShared' \/ \E m \in Loaders : paBoot'[m] = "copy" /\ Target(m)' = t
    BY DEF TornInv
  <2>1. CASE t = target
    BY <1>1, <1>3, <1>5, <2>1
  <2>2. CASE t # target
    <3>1. t \in paHalf \cup paShared \/ \E m \in Loaders : paBoot[m] = "copy" /\ Target(m) = t
      BY <1>5, <2>2 DEF ArtifactInv, FileInv, TornInv
    <3>2. CASE t \in paHalf \cup paShared
      BY <1>1, <3>2
    <3>3. CASE \E m \in Loaders : paBoot[m] = "copy" /\ Target(m) = t
      <4>1. PICK m \in Loaders : paBoot[m] = "copy" /\ Target(m) = t
        BY <3>3
      <4>2. m \in Loaders \ {l}
        BY <2>2, <4>1 DEF target
      <4>3. paBoot'[m] = "copy" /\ Target(m)' = t
        BY <1>3, <4>1, <4>2
      <4> QED
        BY <4>3
    <3> QED
      BY <3>1, <3>2, <3>3
  <2> QED
    BY <2>1, <2>2
<1>9. WriteInv'
  <2> SUFFICES ASSUME NEW m \in Loaders, NEW t \in Targets \ paShared, Writing(m, t)'
               PROVE  /\ paStaged'[t] = IF paBoot'[m] = "create" THEN Missing ELSE Torn
                      /\ \A n \in Loaders \ {m} : Engaged(n)' => Target(n)' # t
                      /\ \A x \in Mapped' : StageTarget(x.plugin, x.sha) # t
    BY <1>1 DEF WriteInv
  <2>1. Writing(m, t)
    BY <1>3, <1>6 DEF Writing
  <2>2. /\ paStaged[t] = IF paBoot[m] = "create" THEN Missing ELSE Torn
        /\ \A n \in Loaders \ {m} : Engaged(n) => Target(n) # t
        /\ \A x \in Mapped : StageTarget(x.plugin, x.sha) # t
    BY <2>1 DEF ArtifactInv, FileInv, WriteInv
  <2>3. \A n \in Loaders \ {m} : Engaged(n)' => Target(n)' # t
    BY <1>1, <1>3, <2>2 DEF Engaged, target
  <2>4. CASE m = l
    <3>1. t = target /\ at = "copy" /\ c = Torn
      BY <1>1, <1>3, <2>4 DEF Writing
    <3> QED
      BY <1>3, <1>4, <1>5, <2>2, <2>3, <2>4, <3>1
  <2>5. CASE m # l
    <3>1. t # target
      BY <1>1, <2>2, <2>5 DEF Engaged, target
    <3> QED
      BY <1>3, <1>4, <1>5, <2>2, <2>3, <2>5, <3>1
  <2> QED
    BY <2>4, <2>5
<1>10. OpenInv'
  <2> SUFFICES ASSUME NEW m \in Loaders, paBoot'[m] = "open" PROVE paStaged'[Target(m)'] # Missing
    BY DEF OpenInv
  <2>1. CASE Target(m)' = target
    BY <1>2, <1>5, <2>1
  <2>2. CASE Target(m)' # target
    <3>1. m # l /\ paBoot[m] = "open" /\ Target(m)' = Target(m)
      BY <1>3, <2>2
    <3>2. Target(m) \in Targets /\ paStaged[Target(m)] # Missing
      <4>1. paPlan[m] # {}
        BY <3>1 DEF ArtifactInv, Planned, Engaged
      <4> QED
        BY <3>1, <4>1, TargetFacts DEF ArtifactInv, FileInv, OpenInv
    <3> QED
      BY <1>5, <2>2, <3>1, <3>2
  <2> QED
    BY <2>1, <2>2
<1>11. Verified'
  BY <1>1, <1>4, <1>5 DEF ArtifactInv, FileInv, Verified
<1>12. MappedFileKept'
  <2> SUFFICES ASSUME NEW x \in Mapped', StageTarget(x.plugin, x.sha) \notin paShared
               PROVE  paStaged'[StageTarget(x.plugin, x.sha)] = x.content
    BY <1>1 DEF MappedFileKept, Mapped
  <2> DEFINE t == StageTarget(x.plugin, x.sha)
  <2>1. x \in Mapped /\ t \in Targets
    BY <1>4, MappedTypes DEF ArtifactInv
  <2>2. paStaged[t] = x.content
    BY <2>1 DEF ArtifactInv, FileInv, MappedFileKept, Mapped
  <2>3. t # target
    BY <1>2, <1>6, <2>1 DEF ArtifactInv, FileInv, WriteInv
  <2> QED
    BY <1>5, <2>1, <2>2, <2>3
<1>13. FileInv'
  BY <1>7, <1>8, <1>9, <1>10, <1>11, <1>12 DEF FileInv
<1> QED
  BY <1>1, <1>2, <1>5, <1>13, SameRecordKeeps

(* A copy that fails leaves what it wrote.                                 *)
LEMMA CopyFailsKeeps ==
  ASSUME ArtifactInv, NEW l \in Loaders, CopyFails(l)
  PROVE  ArtifactInv'
<1>1. Target(l) \in Targets
  <2>1. paPlan[l] # {}
    BY DEF CopyFails, ArtifactInv, Planned, Engaged
  <2> QED
    BY <2>1, TargetFacts
<1>2. paHalf \subseteq paHalf' /\ paHalf' \subseteq Targets /\ (paBoot[l] = "copy" => Target(l) \in paHalf')
  BY <1>1 DEF CopyFails, ArtifactInv, ArtifactTypeOK
<1> QED
  BY <1>2, GiveUpKeepsArtifacts DEF CopyFails

(* Whatever the file holds is opened; the record leaves the plan, and its  *)
(* plugin is loaded once.                                                  *)
LEMMA OpenKeeps ==
  ASSUME ArtifactInv, NEW l \in Loaders, OpenStaged(l)
  PROVE  ArtifactInv'
<1> DEFINE target == Target(l)
           record == Loading(l)
           load == [plugin |-> record.plugin, sha |-> record.sha, content |-> paStaged[target]]
           plan == paPlan[l] \ {record}
           new == paNew[l] \cup {load}
<1>1. paBoot[l] = "open" /\ UNCHANGED <<operator, paStaged, paCrashes>> /\ UNCHANGED <<paChanged, paHalf, paShared>>
  BY DEF OpenStaged, taints
<1>2. CASE GiveUp(l)
  BY <1>1, <1>2, GiveUpKeepsArtifacts DEF ArtifactInv, ArtifactTypeOK
<1>3. CASE Goes(l, "handshake", plan, new) /\ UNCHANGED paServing
  <2>1. /\ record \in paPlan[l] /\ record.plugin \in Selected /\ record.sha \in Versions
        /\ target \in Targets /\ target[2] = record.sha /\ target = StageTarget(record.plugin, record.sha)
        /\ paStaged[target] # Missing
    <3>1. paPlan[l] # {} /\ paStaged[target] # Missing
      BY <1>1 DEF ArtifactInv, FileInv, OpenInv, Planned, Engaged
    <3> QED
      BY <3>1, TargetFacts
  <2>2. load \in Loads /\ new \in SUBSET Loads /\ "handshake" \in LoadPcs
    BY <2>1 DEF ArtifactInv, ArtifactTypeOK, Loads, LoadPcs
  <2>3. /\ paBoot'[l] = "handshake" /\ paPlan'[l] = plan /\ paNew'[l] = new
        /\ \A m \in Loaders \ {l} : paBoot'[m] = paBoot[m] /\ Target(m)' = Target(m)
    BY <1>3, <2>2, GoesFacts DEF ArtifactInv
  <2>4. Mapped' \subseteq Mapped \cup {load}
    BY <1>3, <2>2, MappedMoves DEF ArtifactInv
  <2>5. target \notin paShared => \A m \in Loaders : ~Writing(m, target)
    <3> SUFFICES ASSUME target \notin paShared, NEW m \in Loaders, Writing(m, target) PROVE FALSE
      OBVIOUS
    <3>1. m # l
      BY <1>1 DEF Writing
    <3> QED
      BY <1>1, <2>1, <3>1 DEF ArtifactInv, FileInv, WriteInv, Engaged
  <2>6. FileInv'
    <3>1. StagedInv' /\ TornInv' /\ OpenInv'
      BY <1>1, <2>3 DEF ArtifactInv, FileInv, StagedInv, TornInv, OpenInv
    <3>2. WriteInv'
      <4> SUFFICES ASSUME NEW m \in Loaders, NEW t \in Targets \ paShared, Writing(m, t)'
                   PROVE  /\ paStaged[t] = IF paBoot'[m] = "create" THEN Missing ELSE Torn
                          /\ \A n \in Loaders \ {m} : Engaged(n)' => Target(n)' # t
                          /\ \A x \in Mapped' : StageTarget(x.plugin, x.sha) # t
        BY <1>1 DEF WriteInv
      <4>1. m # l /\ Writing(m, t) /\ t # target /\ paBoot'[m] = paBoot[m]
        BY <2>3, <2>5 DEF Writing
      <4>2. /\ paStaged[t] = IF paBoot[m] = "create" THEN Missing ELSE Torn
            /\ \A n \in Loaders \ {m} : Engaged(n) => Target(n) # t
            /\ \A x \in Mapped : StageTarget(x.plugin, x.sha) # t
        BY <4>1 DEF ArtifactInv, FileInv, WriteInv
      <4>3. \A n \in Loaders \ {m} : Engaged(n)' => Target(n)' # t
        BY <2>3, <4>2 DEF Engaged
      <4>4. StageTarget(load.plugin, load.sha) # t
        BY <2>1, <4>1
      <4> QED
        BY <2>4, <4>1, <4>2, <4>3, <4>4
    <3>3. load.content = load.sha \/ target \in paChanged \/ (load.content = Torn /\ target \in paHalf \cup paShared)
      <4>1. paStaged[target] \in {Torn, record.sha} \/ target \in paChanged
        BY <2>1 DEF ArtifactInv, FileInv, StagedInv
      <4>2. paStaged[target] = Torn => target \in paHalf \cup paShared
        BY <2>1, <2>5 DEF ArtifactInv, FileInv, TornInv, Writing
      <4> QED
        BY <4>1, <4>2
    <3> HIDE DEF load
    <3>4. StageTarget(load.plugin, load.sha) = target /\ paStaged[target] = load.content
      BY <2>1 DEF load
    <3>5. Verified'
      BY <1>1, <2>4, <3>3, <3>4 DEF ArtifactInv, FileInv, Verified
    <3>6. MappedFileKept'
      BY <1>1, <2>4, <3>4 DEF ArtifactInv, FileInv, MappedFileKept, Mapped
    <3> QED
      BY <3>1, <3>2, <3>5, <3>6 DEF FileInv
  <2>7. Planned(l)'
    BY <2>3 DEF ArtifactInv, Planned, Engaged
  <2>8. ASSUME NEW p \in Selected
        PROVE  \/ /\ \E r \in plan : {q \in plan : q.plugin = p} = {r}
                  /\ {x \in new : x.plugin = p} = {}
               \/ /\ {q \in plan : q.plugin = p} = {}
                  /\ \E x \in new : {y \in new : y.plugin = p} = {x}
    <3>1. CASE p = record.plugin
      <4>1. PICK r \in paPlan[l] : {q \in paPlan[l] : q.plugin = p} = {r} /\ {x \in paNew[l] : x.plugin = p} = {}
        BY <1>1, <2>1, <3>1 DEF ArtifactInv, Once
      <4>2. {q \in plan : q.plugin = p} = {}
        BY <2>1, <3>1, <4>1
      <4>3. load \in new /\ {y \in new : y.plugin = p} = {load}
        BY <3>1, <4>1
      <4> QED
        BY <4>2, <4>3
    <3>2. CASE p # record.plugin
      <4>1. /\ {q \in plan : q.plugin = p} = {q \in paPlan[l] : q.plugin = p}
            /\ {x \in new : x.plugin = p} = {x \in paNew[l] : x.plugin = p}
        BY <3>2
      <4>2. CASE {q \in paPlan[l] : q.plugin = p} = {}
        BY <1>1, <4>1, <4>2 DEF ArtifactInv, Once
      <4>3. CASE {q \in paPlan[l] : q.plugin = p} # {}
        <5>1. PICK r \in paPlan[l] : {q \in paPlan[l] : q.plugin = p} = {r} /\ {x \in paNew[l] : x.plugin = p} = {}
          BY <1>1, <4>3 DEF ArtifactInv, Once
        <5>2. r \in plan
          BY <3>2, <5>1
        <5> QED
          BY <4>1, <5>1, <5>2
      <4> QED
        BY <4>2, <4>3
    <3> QED
      BY <3>1, <3>2
  <2> HIDE DEF plan, new
  <2>9. Once(l)'
    BY <2>3, <2>8 DEF Once
  <2>10. /\ paStaged' \in [Targets -> Versions \cup {Missing, Torn}]
         /\ paChanged' \cup paHalf' \cup paShared' \subseteq Targets
         /\ \A r \in plan : r.plugin \in Selected
    BY <1>1 DEF ArtifactInv, ArtifactTypeOK, plan
  <2> QED
    BY <1>1, <1>3, <2>2, <2>6, <2>7, <2>9, <2>10, GoesOnKeeps
<1> QED
  BY <1>2, <1>3 DEF OpenStaged

(* The plugin answers the handshake, or does not.                          *)
LEMMA HandshakeKeeps ==
  ASSUME ArtifactInv, NEW l \in Loaders, Handshake(l)
  PROVE  ArtifactInv'
<1>1. paBoot[l] = "handshake" /\ UNCHANGED <<operator, paStaged, paCrashes>> /\ UNCHANGED <<paChanged, paHalf, paShared>>
  BY DEF Handshake, taints
<1>2. CASE GiveUp(l)
  BY <1>1, <1>2, GiveUpKeepsArtifacts DEF ArtifactInv, ArtifactTypeOK
<1>3. CASE Goes(l, "next", paPlan[l], paNew[l]) /\ UNCHANGED paServing
  <2>1. "next" \in LoadPcs /\ paNew[l] \in SUBSET Loads /\ \A r \in paPlan[l] : r.plugin \in Selected
    BY DEF LoadPcs, ArtifactInv, ArtifactTypeOK
  <2>2. paBoot'[l] = "next" /\ paPlan'[l] = paPlan[l] /\ paNew'[l] = paNew[l]
    BY <1>3, <2>1, GoesFacts DEF ArtifactInv
  <2>3. Mapped' \subseteq Mapped
    BY <1>3, <2>1, MappedMoves DEF ArtifactInv
  <2>4. FileInv'
    BY <1>1, <1>3, <2>1, <2>3, LeavesFiles
  <2>5. Planned(l)' /\ Once(l)'
    BY <1>1, <2>2 DEF ArtifactInv, Planned, Once, Engaged
  <2>6. /\ paStaged' \in [Targets -> Versions \cup {Missing, Torn}]
        /\ paChanged' \cup paHalf' \cup paShared' \subseteq Targets
    BY <1>1 DEF ArtifactInv, ArtifactTypeOK
  <2> QED
    BY <1>1, <1>3, <2>1, <2>4, <2>5, <2>6, GoesOnKeeps
<1> QED
  BY <1>2, <1>3 DEF Handshake

(* The loaded plugins become the Core's.                                   *)
LEMMA AssembleKeeps ==
  ASSUME ArtifactInv, NEW l \in Loaders, Assemble(l)
  PROVE  ArtifactInv'
<1>1. /\ paBoot[l] = "next" /\ paPlan[l] = {} /\ UNCHANGED <<operator, paStaged, paCrashes>>
      /\ UNCHANGED <<paChanged, paHalf, paShared>>
  BY DEF Assemble, taints
<1>2. CASE GiveUp(l)
  BY <1>1, <1>2, GiveUpKeepsArtifacts DEF ArtifactInv, ArtifactTypeOK
<1>3. CASE Goes(l, "idle", {}, {}) /\ paServing' = paNew[l]
  <2>1. "idle" \in LoadPcs /\ {} \in SUBSET Loads
    BY DEF LoadPcs
  <2>2. /\ paBoot' \in [Loaders -> LoadPcs] /\ paNew' \in [Loaders -> SUBSET Loads] /\ DOMAIN paPlan' = Loaders
        /\ paBoot'[l] = "idle" /\ paPlan'[l] = {} /\ \A m \in Loaders \ {l} : paPlan'[m] = paPlan[m]
    BY <1>3, <2>1, GoesFacts DEF ArtifactInv
  <2>3. ArtifactTypeOK'
    BY <1>1, <1>3, <2>2 DEF ArtifactInv, ArtifactTypeOK, operator, LoadPcs
  <2>4. Mapped' \subseteq Mapped
    BY <1>3, <2>1, MappedMoves DEF ArtifactInv
  <2>5. FileInv'
    BY <1>1, <1>3, <2>1, <2>4, LeavesFiles
  <2>6. \A m \in Loaders : Planned(m)' /\ Once(m)'
    <3>1. Planned(l)' /\ Once(l)'
      BY <2>2 DEF Planned, Once, Engaged
    <3> QED
      BY <1>3, <2>1, <3>1, OthersKeep
  <2>7. ServingOnce'
    <3>1. \A p \in Selected : \E x \in paNew[l] : {y \in paNew[l] : y.plugin = p} = {x}
      BY <1>1 DEF ArtifactInv, Once
    <3> QED
      BY <1>3, <3>1 DEF ServingOnce
  <2> QED
    BY <2>3, <2>5, <2>6, <2>7 DEF ArtifactInv
<1> QED
  BY <1>2, <1>3 DEF Assemble

(* A crash: everything is unmapped, and what was half copied stays so.     *)
LEMMA CrashKeepsArtifacts ==
  ASSUME ArtifactInv, CrashHost
  PROVE  ArtifactInv'
<1>1. /\ paBoot' = [l \in Loaders |-> "idle"] /\ paPlan' = [l \in Loaders |-> {}]
      /\ paNew' = [l \in Loaders |-> {}] /\ paServing' = {}
      /\ paHalf' = paHalf \cup {Target(l) : l \in {m \in Loaders : paBoot[m] = "copy"}}
      /\ UNCHANGED <<operator, paStaged, paChanged, paShared>> /\ paCrashes' \in 0..MaxCrashes
  BY ArtifactAssumption DEF CrashHost, ArtifactInv, ArtifactTypeOK
<1>2. \A m \in Loaders : paBoot[m] = "copy" => Target(m) \in Targets /\ Target(m) \in paHalf'
  <2>1. ASSUME NEW m \in Loaders, paBoot[m] = "copy" PROVE Target(m) \in Targets
    <3>1. paPlan[m] # {}
      BY <2>1 DEF ArtifactInv, Planned, Engaged
    <3> QED
      BY <3>1, TargetFacts
  <2> QED
    BY <1>1, <2>1
<1>3. paHalf \subseteq paHalf' /\ paHalf' \subseteq Targets
  BY <1>1, <1>2 DEF ArtifactInv, ArtifactTypeOK
<1>4. ArtifactTypeOK'
  BY <1>1, <1>3 DEF ArtifactInv, ArtifactTypeOK, operator
<1>5. \A x : x \notin Mapped'
  BY <1>1, MappedFacts
<1>6. StagedInv' /\ WriteInv' /\ OpenInv'
  BY <1>1 DEF ArtifactInv, FileInv, StagedInv, WriteInv, OpenInv, Writing
<1>7. TornInv'
  BY <1>1, <1>2, <1>3 DEF ArtifactInv, FileInv, TornInv
<1>8. Verified' /\ MappedFileKept'
  BY <1>5 DEF Verified, MappedFileKept, Mapped
<1>9. (\A l \in Loaders : Planned(l)' /\ Once(l)') /\ ServingOnce'
  BY <1>1 DEF Planned, Once, Engaged, ServingOnce
<1> QED
  BY <1>4, <1>6, <1>7, <1>8, <1>9 DEF ArtifactInv, FileInv

(* Every step keeps ArtifactInv. *)
LEMMA ArtifactInvStep == ArtifactInv /\ [ArtifactNext]_paVars => ArtifactInv'
<1> SUFFICES ASSUME ArtifactInv, [ArtifactNext]_paVars PROVE ArtifactInv'
  OBVIOUS
<1>1. CASE \/ \E e \in PluginDirs, v \in Versions \cup {Missing} : ReplaceArtifact(e, v)
           \/ \E e \in PluginDirs, v \in Versions : RewriteManifest(e, v)
           \/ \E p \in Selected : Quarantine(p)
           \/ UNCHANGED paVars
  <2>1. UNCHANGED <<paStaged, loads, taints>> /\ paCrashes' = paCrashes
    BY <1>1 DEF ReplaceArtifact, RewriteManifest, Quarantine, paVars, loads, taints
  <2>2. /\ paSha' \in [PluginDirs -> Versions] /\ paContent' \in [PluginDirs -> Versions \cup {Missing}]
        /\ paDisabled' \subseteq Selected /\ paUpgrades' \in 0..MaxUpgrades
    BY <1>1, ArtifactAssumption
       DEF ReplaceArtifact, RewriteManifest, Quarantine, paVars, ArtifactInv, ArtifactTypeOK
  <2> QED
    BY <2>1, <2>2, OperatorKeepsArtifacts
<1>2. ASSUME NEW l \in Loaders,
             \/ ScanInventory(l) \/ BeginStage(l) \/ CreateTarget(l) \/ \E v \in Versions : CopyArtifact(l, v)
             \/ CopyFails(l) \/ OpenStaged(l) \/ Handshake(l) \/ Assemble(l)
      PROVE  ArtifactInv'
  BY <1>2, ScanKeepsArtifacts, BeginStageKeeps, CopyKeeps, CopyFailsKeeps, OpenKeeps, HandshakeKeeps, AssembleKeeps
<1>3. CASE CrashHost
  BY <1>3, CrashKeepsArtifacts
<1> QED
  BY <1>1, <1>2, <1>3 DEF ArtifactNext

(* The initial states satisfy ArtifactInv. *)
LEMMA ArtifactInvInit == ArtifactInit => ArtifactInv
<1> SUFFICES ASSUME ArtifactInit PROVE ArtifactInv
  OBVIOUS
<1>1. ArtifactTypeOK
  BY ArtifactAssumption DEF ArtifactInit, ArtifactTypeOK
<1>2. \A x : x \notin Mapped
  BY MappedFacts DEF ArtifactInit
<1>3. StagedInv /\ TornInv /\ WriteInv /\ OpenInv
  BY DEF ArtifactInit, StagedInv, TornInv, WriteInv, OpenInv, Writing, Missing, Torn
<1>4. Verified /\ MappedFileKept
  BY <1>2 DEF Verified, MappedFileKept, Mapped
<1>5. (\A l \in Loaders : Planned(l) /\ Once(l)) /\ ServingOnce
  BY DEF ArtifactInit, Planned, Once, Engaged, ServingOnce
<1> QED
  BY <1>1, <1>3, <1>4, <1>5 DEF ArtifactInv, FileInv

(* ArtifactInv is an invariant of the specification. *)
LEMMA ArtifactInvHolds == ArtifactSpec => []ArtifactInv
  BY ArtifactInvInit, ArtifactInvStep, PTL DEF ArtifactSpec

(* Type correctness of the way from an artifact to the Core.               *)
THEOREM ArtifactTypeCorrect == ArtifactSpec => []ArtifactTypeOK
<1>1. ArtifactInv => ArtifactTypeOK
  BY DEF ArtifactInv
<1> QED
  BY <1>1, ArtifactInvHolds, PTL

(* For any plugin directories and hashes and any number of reloads beside  *)
(* each other, the Core runs every selected plugin once, and the content   *)
(* whose hash was scanned: another version only where the source was       *)
(* replaced before it was copied, half a file only where a copy was broken *)
(* off or two loads met at it (PluginInventory::scan, stage_artifact,      *)
(* load_abi_plugin).                                                       *)
THEOREM StagedArtifactCorrect == ArtifactSpec => []StagedArtifactVerified
<1>1. ArtifactInv => StagedArtifactVerified
  <2> SUFFICES ASSUME ArtifactInv PROVE StagedArtifactVerified
    OBVIOUS
  <2>1. ASSUME paServing # {}, NEW p \in Selected PROVE Cardinality({l \in paServing : l.plugin = p}) = 1
    <3>1. PICK l \in paServing : {m \in paServing : m.plugin = p} = {l}
      BY <2>1 DEF ArtifactInv, ServingOnce
    <3> QED
      BY <3>1, FS_Singleton
  <2>2. paServing \subseteq Mapped
    BY MappedFacts
  <2> QED
    BY <2>1, <2>2 DEF ArtifactInv, FileInv, Verified, StagedArtifactVerified
<1> QED
  BY <1>1, ArtifactInvHolds, PTL

(* The library of a plugin is mapped from the staged file.  No upgrade,    *)
(* reload, failing copy or crash rewrites that file while it is mapped     *)
(* (stage_artifact takes an existing target as it is and names it by its   *)
(* hash), unless two loads met at it, of which one was about to copy.      *)
THEOREM MappedFileCorrect == ArtifactSpec => []MappedFileKept
<1>1. ArtifactInv => MappedFileKept
  BY DEF ArtifactInv, FileInv
<1> QED
  BY <1>1, ArtifactInvHolds, PTL

-----------------------------------------------------------------------------
(***************************************************************************)
(* ConfigStore.                                                            *)
(***************************************************************************)
(* A slot names a file and what it is about there.                         *)
LEMMA SlotFacts ==
  /\ Secrets # Product
  /\ \A s \in Slots : \/ s[1] = Secrets /\ s[2] \in Names /\ s = <<Secrets, s[2]>>
                      \/ s[1] = Product /\ s[2] \in ProductSlots /\ s = <<Product, s[2]>>
  /\ \A n \in Names : n \in Keys /\ Name(n) = n
  /\ \A n \in Names : <<Secrets, n>> \in Slots
  /\ \A x \in ProductSlots : <<Product, x>> \in Slots
<1>1. \A n \in Names : n \in Keys /\ Name(n) = n
  BY StoreAssumption DEF Names
<1> QED
  BY <1>1 DEF Slots, Secrets, Product

(* A writer is idle or has a document of its file in hand.                 *)
LEMMA WriterTypes ==
  ASSUME StoreTypeOK, NEW w \in Writers
  PROVE  /\ ~Busy(w) => csWriter[w] = Idle
         /\ Busy(w) =>
              /\ csWriter[w].pc \in {"changed", "replaced"} /\ csWriter[w].value \in Values
              /\ \/ /\ csWriter[w].file = Secrets /\ csWriter[w].doc \in Documents(Keys)
                    /\ csWriter[w].slots \subseteq Names
                 \/ /\ csWriter[w].file = Product /\ csWriter[w].doc \in Documents(ProductSlots)
                    /\ csWriter[w].slots \subseteq ProductSlots
         /\ \A s \in Slots : s \in InHand(w) <=> s[1] = csWriter[w].file /\ s[2] \in csWriter[w].slots
         /\ InHand(w) \subseteq Slots
         /\ ~Busy(w) => InHand(w) = {}
<1>1. csWriter[w] \in StoreWriters
  BY DEF StoreTypeOK
<1>2. ~Busy(w) => csWriter[w] = Idle /\ InHand(w) = {}
  <2>1. ~Busy(w) => csWriter[w] = Idle
    BY <1>1 DEF StoreWriters, Busy
  <2>2. Idle.slots = {}
    BY DEF Idle
  <2> QED
    BY <2>1, <2>2 DEF InHand
<1>3. Busy(w) =>
        /\ csWriter[w].pc \in {"changed", "replaced"} /\ csWriter[w].value \in Values
        /\ \/ /\ csWriter[w].file = Secrets /\ csWriter[w].doc \in Documents(Keys)
              /\ csWriter[w].slots \subseteq Names
           \/ /\ csWriter[w].file = Product /\ csWriter[w].doc \in Documents(ProductSlots)
              /\ csWriter[w].slots \subseteq ProductSlots
  BY <1>1 DEF StoreWriters, Busy, Idle
<1>4. \A s \in Slots : s \in InHand(w) <=> s[1] = csWriter[w].file /\ s[2] \in csWriter[w].slots
  BY SlotFacts DEF InHand
<1>5. InHand(w) \subseteq Slots
  BY <1>2, <1>3, SlotFacts DEF InHand
<1> QED
  BY <1>2, <1>3, <1>4, <1>5

(* What a valid document says has no blank.                                *)
LEMMA EntriesType ==
  ASSUME NEW doc \in Documents(Keys), Valid(doc)
  PROVE  Entries(doc) \in [Names -> Values \cup {Absent}]
<1>1. ASSUME NEW n \in Names, KeysOf(doc, n) # {} PROVE OneOf(KeysOf(doc, n)) \in Keys
  <2>1. OneOf(KeysOf(doc, n)) \in KeysOf(doc, n)
    BY <1>1 DEF OneOf
  <2> QED
    BY <2>1 DEF KeysOf
<1>2. \A k \in Keys : doc[k] \in Values \cup {Absent}
  BY DEF Documents, Valid
<1> QED
  BY <1>1, <1>2 DEF Entries

(* Documents that agree on the keys of a name say the same of it.          *)
LEMMA EntriesAgree ==
  ASSUME NEW old, NEW new, NEW n \in Names,
         \A k \in Keys : Name(k) = n => new[k] = old[k]
  PROVE  Entries(new)[n] = Entries(old)[n]
<1>1. KeysOf(new, n) = KeysOf(old, n)
  BY DEF KeysOf
<1>2. CASE KeysOf(old, n) = {}
  BY <1>1, <1>2 DEF Entries
<1>3. CASE KeysOf(old, n) # {}
  <2> DEFINE k == OneOf(KeysOf(old, n))
  <2>1. k \in KeysOf(old, n)
    BY <1>3 DEF OneOf
  <2>2. new[k] = old[k]
    BY <2>1 DEF KeysOf
  <2> HIDE DEF k
  <2>3. Entries(old)[n] = old[k] /\ Entries(new)[n] = new[k]
    BY <1>1, <1>3 DEF Entries, k
  <2> QED
    BY <2>2, <2>3
<1> QED
  BY <1>2, <1>3

(* rotate: the entry of its name gets the value, the others stay.          *)
LEMMA RotatedEntries ==
  ASSUME NEW doc \in Documents(Keys), NEW n \in Names, NEW v \in Values
  PROVE  /\ Rotated(doc, n, v) \in Documents(Keys)
         /\ Entries(Rotated(doc, n, v))[n] = v
         /\ \A m \in Names \ {n} : Entries(Rotated(doc, n, v))[m] = Entries(doc)[m]
<1> DEFINE new == Rotated(doc, n, v)
<1>1. new \in Documents(Keys)
  BY DEF Rotated, Documents
<1>2. n \in Keys /\ Name(n) = n /\ new[n] = v /\ \A k \in Keys \ {n} : Name(k) = n => new[k] = Absent
  BY SlotFacts DEF Rotated
<1>3. \A m \in Names \ {n} : \A k \in Keys : Name(k) = m => new[k] = doc[k]
  BY <1>2 DEF Rotated
<1> HIDE DEF new
<1>4. Entries(new)[n] = v
  <2>1. CASE v = Absent
    <3>1. KeysOf(new, n) = {}
      BY <1>2, <2>1 DEF KeysOf
    <3> QED
      BY <2>1, <3>1 DEF Entries
  <2>2. CASE v # Absent
    <3>1. KeysOf(new, n) = {n}
      BY <1>2, <2>2 DEF KeysOf
    <3>2. OneOf({n}) = n
      BY DEF OneOf
    <3> QED
      BY <1>2, <3>1, <3>2 DEF Entries
  <2> QED
    BY <2>1, <2>2
<1>5. \A m \in Names \ {n} : Entries(new)[m] = Entries(doc)[m]
  BY <1>3, EntriesAgree
<1> QED
  BY <1>1, <1>4, <1>5 DEF new

(* What a document says of a slot.                                         *)
LEMMA InDocFacts ==
  ASSUME NEW s \in Slots, NEW doc
  PROVE  /\ s[1] = Secrets => InDoc(s, doc) = Entries(doc)[s[2]]
         /\ s[1] = Product => InDoc(s, doc) = doc[s[2]]
  BY SlotFacts DEF InDoc

(* A change takes the lock and has its document ready.                     *)
LEMMA BeginKeepsStore ==
  ASSUME StoreInv, NEW w \in Writers, NEW f \in {Secrets, Product}, NEW doc, NEW xs, NEW v \in Values,
         Begin(w, f, doc, xs, v),
         \/ f = Secrets /\ doc \in Documents(Keys) /\ xs \subseteq Names
         \/ f = Product /\ doc \in Documents(ProductSlots) /\ xs \subseteq ProductSlots,
         \A s \in Slots : s[1] = f =>
           InDoc(s, doc) = IF s[2] \in xs THEN v ELSE InDoc(s, csFile[f])
  PROVE  StoreInv'
<1> USE DEF StoreInv
<1> DEFINE new == [pc |-> "changed", file |-> f, doc |-> doc, slots |-> xs, value |-> v]
<1>1. /\ csUp /\ ~Busy(w) /\ Unlocked(f) /\ csWriter' = [csWriter EXCEPT ![w] = new]
      /\ UNCHANGED <<csFile, csUp, csMem, csAcked, csEdited, csEdits>>
  BY DEF Begin, Busy
<1>2. new \in StoreWriters
  BY DEF StoreWriters
<1>3. StoreTypeOK'
  BY <1>1, <1>2 DEF StoreTypeOK
<1>4. /\ csWriter'[w] = new
      /\ \A u \in Writers \ {w} : csWriter'[u] = csWriter[u] /\ InHand(u)' = InHand(u) /\ (Busy(u)' <=> Busy(u))
  BY <1>1 DEF StoreTypeOK, InHand, Busy
<1>5. LockInv'
  BY <1>1, <1>4 DEF LockInv, Unlocked, Busy
<1>6. KeptOnDisk'
  <2>1. \A u \in Writers : csWriter'[u].pc = "replaced" <=> csWriter[u].pc = "replaced"
    BY <1>1, <1>4 DEF Busy
  <2>2. \A u \in Writers : csWriter[u].pc = "replaced" => InHand(u)' = InHand(u)
    BY <1>1, <1>4 DEF Busy
  <2> QED
    BY <1>1, <2>1, <2>2 DEF KeptOnDisk
<1>7. ASSUME NEW s \in Slots \ csEdited, s[1] = f PROVE InDoc(s, csFile[f]) = csAcked[s]
  <2>1. \A u \in Writers : csWriter[u].pc = "replaced" => s \notin InHand(u)
    BY <1>1, <1>7, WriterTypes DEF Unlocked
  <2> QED
    BY <1>7, <2>1 DEF KeptOnDisk
<1>8. \A s \in Slots : s \in InHand(w)' <=> s[1] = f /\ s[2] \in xs
  BY <1>4, SlotFacts DEF InHand
<1>9. InHand(w)' \subseteq Slots
  BY <1>4, SlotFacts DEF InHand
<1>10. ASSUME NEW u \in Writers, Busy(u)'
       PROVE  /\ \A s \in Slots \ csEdited' :
                   s[1] = csWriter'[u].file /\ s \notin InHand(u)' => InDoc(s, csWriter'[u].doc) = csAcked'[s]
              /\ \A s \in InHand(u)' : InDoc(s, csWriter'[u].doc) = csWriter'[u].value
              /\ csWriter'[u].pc = "replaced" =>
                   \A s \in InHand(u)' \ csEdited' : InDoc(s, csFile'[s[1]]) = csWriter'[u].value
  <2>1. CASE u = w
    <3>1. \A s \in InHand(w)' : InDoc(s, doc) = v
      BY <1>8, <1>9
    <3> QED
      BY <1>1, <1>4, <1>7, <1>8, <2>1, <3>1
  <2>2. CASE u # w
    BY <1>1, <1>4, <1>10, <2>2 DEF DocInv
  <2> QED
    BY <2>1, <2>2
<1>11. DocInv'
  BY <1>10 DEF DocInv
<1> QED
  BY <1>3, <1>5, <1>6, <1>11

(* rotate, patch_product_surface and replace_config.                       *)
LEMMA ChangeKeepsStore ==
  ASSUME StoreInv, NEW w \in Writers,
         \/ \E n \in Names, v \in Values : Rotate(w, n, v)
         \/ \E fields \in SUBSET (Fields \cup {ReadOnly}), v \in Values : PatchProduct(w, fields, v)
         \/ \E v \in Values : ReplaceConfig(w, v)
  PROVE  StoreInv'
<1>1. csFile[Secrets] \in Documents(Keys) /\ csFile[Product] \in Documents(ProductSlots)
  BY DEF StoreInv, StoreTypeOK
<1>2. ASSUME NEW n \in Names, NEW v \in Values, Rotate(w, n, v) PROVE StoreInv'
  <2> DEFINE doc == Rotated(csFile[Secrets], n, v)
  <2>1. doc \in Documents(Keys)
    BY <1>1, RotatedEntries
  <2>2. ASSUME NEW s \in Slots, s[1] = Secrets
        PROVE  InDoc(s, doc) = IF s[2] \in {n} THEN v ELSE InDoc(s, csFile[Secrets])
    BY <1>1, <2>2, RotatedEntries, InDocFacts, SlotFacts
  <2>3. Begin(w, Secrets, doc, {n}, v)
    BY <1>2 DEF Rotate
  <2> HIDE DEF doc
  <2> QED
    BY <2>1, <2>2, <2>3, BeginKeepsStore
<1>3. ASSUME NEW xs \in SUBSET ProductSlots, NEW v \in Values, NEW doc \in Documents(ProductSlots),
             doc = [x \in ProductSlots |-> IF x \in xs THEN v ELSE csFile[Product][x]],
             Begin(w, Product, doc, xs, v)
      PROVE  StoreInv'
  <2>1. ASSUME NEW s \in Slots, s[1] = Product
        PROVE  InDoc(s, doc) = IF s[2] \in xs THEN v ELSE InDoc(s, csFile[Product])
    BY <1>3, <2>1, InDocFacts, SlotFacts
  <2> QED
    BY <1>3, <2>1, BeginKeepsStore
<1>4. ASSUME NEW fields \in SUBSET (Fields \cup {ReadOnly}), NEW v \in Values, PatchProduct(w, fields, v)
      PROVE  StoreInv'
  <2> DEFINE doc == [x \in ProductSlots |-> IF x \in fields THEN v ELSE csFile[Product][x]]
  <2>1. fields \in SUBSET ProductSlots /\ Begin(w, Product, doc, fields, v)
    BY <1>4 DEF PatchProduct, ProductSlots
  <2>2. doc \in Documents(ProductSlots)
    BY <1>1 DEF Documents
  <2> QED
    BY <1>3, <2>1, <2>2
<1>5. ASSUME NEW v \in Values, ReplaceConfig(w, v) PROVE StoreInv'
  <2> DEFINE doc == [csFile[Product] EXCEPT ![PluginConfig] = v]
  <2>1. Begin(w, Product, doc, {PluginConfig}, v) /\ {PluginConfig} \in SUBSET ProductSlots
    BY <1>5 DEF ReplaceConfig, ProductSlots
  <2>2. /\ doc \in Documents(ProductSlots)
        /\ doc = [x \in ProductSlots |-> IF x \in {PluginConfig} THEN v ELSE csFile[Product][x]]
    BY <1>1 DEF Documents
  <2> HIDE DEF doc
  <2> QED
    BY <1>3, <2>1, <2>2
<1> QED
  BY <1>2, <1>4, <1>5

(* The other writers, and what they have in hand, where one moves on.      *)
LEMMA OthersKept ==
  ASSUME StoreInv, NEW w \in Writers, NEW new, csWriter' = [csWriter EXCEPT ![w] = new]
  PROVE  /\ csWriter'[w] = new
         /\ \A u \in Writers \ {w} :
              csWriter'[u] = csWriter[u] /\ InHand(u)' = InHand(u) /\ (Busy(u)' <=> Busy(u))
  BY DEF StoreInv, StoreTypeOK, InHand, Busy

(* atomic_write replaces the file.                                         *)
LEMMA ReplaceKeepsStore ==
  ASSUME StoreInv, NEW w \in Writers, Replace(w)
  PROVE  StoreInv'
<1> USE DEF StoreInv
<1> DEFINE me == csWriter[w]
           new == [csWriter[w] EXCEPT !.pc = "replaced"]
<1>1. /\ me.pc = "changed" /\ csWriter' = [csWriter EXCEPT ![w] = new]
      /\ csFile' = [csFile EXCEPT ![me.file] = me.doc]
      /\ csEdited' = csEdited \ InHand(w) /\ UNCHANGED <<csUp, csMem, csAcked, csEdits>>
  BY DEF Replace
<1>2. Busy(w) /\ me \in StoreWriters
  BY <1>1 DEF Busy, StoreTypeOK
<1>3. /\ new \in StoreWriters /\ new.file = me.file /\ new.doc = me.doc /\ new.slots = me.slots
      /\ new.value = me.value /\ new.pc = "replaced"
  BY <1>1, <1>2 DEF StoreWriters, Idle
<1> HIDE DEF new
<1>4. \/ me.file = Secrets /\ me.doc \in Documents(Keys)
      \/ me.file = Product /\ me.doc \in Documents(ProductSlots)
  BY <1>2, WriterTypes
<1>5. StoreTypeOK'
  <2>1. csWriter' \in [Writers -> StoreWriters]
    BY <1>1, <1>3 DEF StoreTypeOK
  <2>2. /\ csFile' \in [{Secrets, Product} -> Documents(Keys) \cup Documents(ProductSlots)]
        /\ csFile'[Secrets] \in Documents(Keys) /\ csFile'[Product] \in Documents(ProductSlots)
    BY <1>1, <1>4, SlotFacts DEF StoreTypeOK
  <2> QED
    BY <1>1, <2>1, <2>2 DEF StoreTypeOK
<1>6. /\ csWriter'[w] = new /\ InHand(w)' = InHand(w) /\ Busy(w)'
      /\ \A u \in Writers \ {w} :
           csWriter'[u] = csWriter[u] /\ InHand(u)' = InHand(u) /\ (Busy(u)' <=> Busy(u))
  BY <1>1, <1>3, OthersKept DEF InHand, Busy
<1>7. LockInv'
  <2>1. csUp
    BY <1>2 DEF LockInv, Busy, Idle
  <2>2. \A u \in Writers : csWriter'[u].file = csWriter[u].file /\ (Busy(u)' <=> Busy(u))
    BY <1>2, <1>3, <1>6
  <2> QED
    BY <1>1, <2>1, <2>2 DEF LockInv
<1>8. /\ csFile'[me.file] = me.doc
      /\ \A s \in Slots : s[1] # me.file => csFile'[s[1]] = csFile[s[1]]
  BY <1>1, <1>4, SlotFacts DEF StoreTypeOK
<1>9. ASSUME NEW s \in Slots \ csEdited', \A u \in Writers : csWriter'[u].pc = "replaced" => s \notin InHand(u)'
      PROVE  InDoc(s, csFile'[s[1]]) = csAcked'[s] /\ (s[1] = Secrets /\ csUp' => csMem'[s[2]] = csAcked'[s])
  <2>1. s \notin InHand(w) /\ s \notin csEdited
    BY <1>1, <1>3, <1>6, <1>9
  <2>2. \A u \in Writers : csWriter[u].pc = "replaced" => s \notin InHand(u)
    BY <1>1, <1>6, <1>9
  <2>3. InDoc(s, csFile[s[1]]) = csAcked[s] /\ (s[1] = Secrets /\ csUp => csMem[s[2]] = csAcked[s])
    BY <2>1, <2>2 DEF KeptOnDisk
  <2>4. s[1] = me.file => InDoc(s, me.doc) = csAcked[s]
    BY <1>2, <2>1 DEF DocInv
  <2> QED
    BY <1>1, <1>8, <2>3, <2>4
<1>10. KeptOnDisk'
  BY <1>9 DEF KeptOnDisk
<1>11. ASSUME NEW u \in Writers, Busy(u)'
       PROVE  /\ \A s \in Slots \ csEdited' :
                   s[1] = csWriter'[u].file /\ s \notin InHand(u)' => InDoc(s, csWriter'[u].doc) = csAcked'[s]
              /\ \A s \in InHand(u)' : InDoc(s, csWriter'[u].doc) = csWriter'[u].value
              /\ csWriter'[u].pc = "replaced" =>
                   \A s \in InHand(u)' \ csEdited' : InDoc(s, csFile'[s[1]]) = csWriter'[u].value
  <2>1. CASE u = w
    <3>1. \A s \in InHand(w) : InDoc(s, me.doc) = me.value /\ s[1] = me.file
      BY <1>2, WriterTypes DEF DocInv
    <3>2. \A s \in Slots \ csEdited : s[1] = me.file /\ s \notin InHand(w) => InDoc(s, me.doc) = csAcked[s]
      BY <1>2 DEF DocInv
    <3> QED
      BY <1>1, <1>3, <1>6, <1>8, <2>1, <3>1, <3>2
  <2>2. CASE u # w
    <3>1. Busy(u) /\ csWriter[u].file # me.file
      BY <1>2, <1>6, <1>11, <2>2 DEF LockInv
    <3>2. \A s \in Slots : s[1] = csWriter[u].file => s \notin InHand(w)
      BY <3>1, WriterTypes
    <3>3. \A s \in InHand(u) : s \in Slots /\ s[1] = csWriter[u].file
      BY WriterTypes
    <3> QED
      BY <1>1, <1>6, <1>8, <2>2, <3>1, <3>2, <3>3 DEF DocInv
  <2> QED
    BY <2>1, <2>2
<1>12. DocInv'
  BY <1>11 DEF DocInv
<1> QED
  BY <1>5, <1>7, <1>10, <1>12

(* A writer lets go of its file: its change failed before the file was     *)
(* replaced, or is reported as done, or its document is refused.           *)
LEMMA ReleaseKeepsStore ==
  ASSUME StoreInv, NEW w \in Writers, ReplaceFails(w) \/ Publish(w)
  PROVE  StoreInv'
<1> USE DEF StoreInv
<1> DEFINE me == csWriter[w]
<1>1. Busy(w) /\ csWriter' = [csWriter EXCEPT ![w] = Idle] /\ UNCHANGED <<csFile, csUp, csEdits>>
  BY DEF ReplaceFails, Publish, Busy
<1>2. /\ csWriter'[w] = Idle
      /\ \A u \in Writers \ {w} :
           csWriter'[u] = csWriter[u] /\ InHand(u)' = InHand(u) /\ (Busy(u)' <=> Busy(u))
  BY <1>1, OthersKept
<1>3. ~Busy(w)' /\ InHand(w)' = {} /\ Idle.pc = "idle"
  BY <1>2 DEF Busy, InHand, Idle
<1>4. csWriter' \in [Writers -> StoreWriters]
  BY <1>1 DEF StoreTypeOK, StoreWriters
<1>5. LockInv'
  BY <1>1, <1>2, <1>3 DEF LockInv
<1>6. \/ me.pc = "changed" /\ UNCHANGED <<csMem, csAcked, csEdited>>
      \/ me.pc = "replaced" /\ csEdited' = csEdited \cup InHand(w) /\ UNCHANGED <<csMem, csAcked>>
      \/ /\ me.pc = "replaced" /\ Acknowledge(w)
         /\ \/ me.file = Product /\ csMem' = csMem
            \/ me.file = Secrets /\ Valid(me.doc) /\ csMem' = Entries(me.doc)
  BY DEF ReplaceFails, Publish
<1>7. StoreTypeOK'
  <2>1. csMem' \in [Names -> Values \cup {Absent}]
    BY <1>1, <1>6, WriterTypes, EntriesType, SlotFacts DEF StoreTypeOK
  <2>2. csAcked' \in [Slots -> Values \cup {Blank, Absent}]
    BY <1>1, <1>6, WriterTypes DEF StoreTypeOK, Acknowledge
  <2>3. csEdited' \subseteq Slots
    BY <1>6, WriterTypes DEF StoreTypeOK, Acknowledge
  <2> QED
    BY <1>1, <1>4, <2>1, <2>2, <2>3 DEF StoreTypeOK
<1>8. ASSUME NEW s \in Slots \ csEdited', \A u \in Writers : csWriter'[u].pc = "replaced" => s \notin InHand(u)'
      PROVE  InDoc(s, csFile'[s[1]]) = csAcked'[s] /\ (s[1] = Secrets /\ csUp' => csMem'[s[2]] = csAcked'[s])
  <2>1. \A u \in Writers \ {w} : csWriter[u].pc = "replaced" => s \notin InHand(u)
    BY <1>2, <1>8
  <2>2. s \in Slots \ csEdited
    BY <1>6, <1>8 DEF Acknowledge
  <2>3. ASSUME me.pc = "replaced" => s \notin InHand(w)
        PROVE  InDoc(s, csFile[s[1]]) = csAcked[s] /\ (s[1] = Secrets /\ csUp => csMem[s[2]] = csAcked[s])
    BY <2>1, <2>2, <2>3 DEF KeptOnDisk
  <2>4. CASE /\ UNCHANGED <<csMem, csAcked>>
             /\ me.pc = "changed" \/ (me.pc = "replaced" /\ csEdited' = csEdited \cup InHand(w))
    <3>1. me.pc = "replaced" => s \notin InHand(w)
      BY <1>8, <2>4
    <3> QED
      BY <1>1, <2>3, <2>4, <3>1
  <2>5. CASE me.pc = "replaced" /\ Acknowledge(w)
             /\ (\/ me.file = Product /\ csMem' = csMem
                 \/ me.file = Secrets /\ Valid(me.doc) /\ csMem' = Entries(me.doc))
    <3>1. s \in InHand(w) <=> s[1] = me.file /\ s[2] \in me.slots
      BY <2>2, WriterTypes
    <3>2. CASE s \in InHand(w)
      <4>1. InDoc(s, csFile[s[1]]) = me.value /\ csAcked'[s] = me.value /\ InDoc(s, me.doc) = me.value
        BY <1>1, <2>2, <2>5, <3>2 DEF DocInv, Acknowledge
      <4>2. s[1] = Secrets => csMem'[s[2]] = me.value
        BY <2>2, <2>5, <3>1, <3>2, <4>1, InDocFacts, SlotFacts
      <4> QED
        BY <1>1, <4>1, <4>2
    <3>3. CASE s \notin InHand(w)
      <4>1. csAcked'[s] = csAcked[s]
        BY <2>2, <2>5, <3>3 DEF Acknowledge
      <4>2. s[1] = me.file => InDoc(s, me.doc) = csAcked[s]
        BY <1>1, <2>2, <3>3 DEF DocInv
      <4>3. s[1] = Secrets /\ csUp => csMem'[s[2]] = csAcked[s]
        BY <2>2, <2>3, <2>5, <3>3, <4>2, InDocFacts, SlotFacts
      <4> QED
        BY <1>1, <2>3, <3>3, <4>1, <4>3
    <3> QED
      BY <3>2, <3>3
  <2> QED
    BY <1>6, <2>4, <2>5
<1>9. KeptOnDisk'
  BY <1>8 DEF KeptOnDisk
<1>10. ASSUME NEW u \in Writers, Busy(u)'
       PROVE  /\ \A s \in Slots \ csEdited' :
                   s[1] = csWriter'[u].file /\ s \notin InHand(u)' => InDoc(s, csWriter'[u].doc) = csAcked'[s]
              /\ \A s \in InHand(u)' : InDoc(s, csWriter'[u].doc) = csWriter'[u].value
              /\ csWriter'[u].pc = "replaced" =>
                   \A s \in InHand(u)' \ csEdited' : InDoc(s, csFile'[s[1]]) = csWriter'[u].value
  <2>1. u # w /\ Busy(u) /\ csWriter[u].file # me.file
    BY <1>1, <1>2, <1>3, <1>10 DEF LockInv
  <2>2. \A s \in Slots : s[1] = csWriter[u].file => s \notin InHand(w)
    BY <2>1, WriterTypes
  <2>3. \A s \in Slots : s[1] = csWriter[u].file => csAcked'[s] = csAcked[s]
    BY <1>6, <2>2 DEF Acknowledge
  <2>4. csEdited \subseteq csEdited'
    BY <1>6 DEF Acknowledge
  <2> QED
    BY <1>1, <1>2, <2>1, <2>3, <2>4 DEF DocInv
<1>11. DocInv'
  BY <1>10 DEF DocInv
<1> QED
  BY <1>5, <1>7, <1>9, <1>11

(* An edit by hand changes the entry it is about and no other.             *)
LEMMA EditChangesOne ==
  ASSUME StoreInv,
         \/ \E x \in Keys, v \in Values \cup {Blank, Absent} : Edit(Secrets, x, v)
         \/ \E x \in ProductSlots, v \in Values : Edit(Product, x, v)
  PROVE  /\ csFile' \in [{Secrets, Product} -> Documents(Keys) \cup Documents(ProductSlots)]
         /\ csFile'[Secrets] \in Documents(Keys) /\ csFile'[Product] \in Documents(ProductSlots)
         /\ csEdited \subseteq csEdited' /\ csEdited' \subseteq Slots
         /\ \A s \in Slots \ csEdited' : InDoc(s, csFile'[s[1]]) = InDoc(s, csFile[s[1]])
<1> USE DEF StoreInv
<1> DEFINE Edited ==
             /\ csFile' \in [{Secrets, Product} -> Documents(Keys) \cup Documents(ProductSlots)]
             /\ csFile'[Secrets] \in Documents(Keys) /\ csFile'[Product] \in Documents(ProductSlots)
             /\ csEdited \subseteq csEdited' /\ csEdited' \subseteq Slots
             /\ \A s \in Slots \ csEdited' : InDoc(s, csFile'[s[1]]) = InDoc(s, csFile[s[1]])
<1>1. ASSUME NEW x \in Keys, NEW v \in Values \cup {Blank, Absent}, Edit(Secrets, x, v) PROVE Edited
  <2> DEFINE doc == [csFile[Secrets] EXCEPT ![x] = v]
  <2>1. csFile' = [csFile EXCEPT ![Secrets] = doc] /\ csEdited' = csEdited \cup {<<Secrets, Name(x)>>}
    BY <1>1 DEF Edit
  <2>2. doc \in Documents(Keys) /\ <<Secrets, Name(x)>> \in Slots
    BY SlotFacts DEF StoreTypeOK, Documents, Names
  <2>3. \A k \in Keys \ {x} : doc[k] = csFile[Secrets][k]
    BY DEF StoreTypeOK, Documents
  <2> HIDE DEF doc
  <2>4. csFile'[Secrets] = doc /\ csFile'[Product] = csFile[Product]
    BY <2>1, SlotFacts DEF StoreTypeOK
  <2>5. ASSUME NEW s \in Slots \ csEdited' PROVE InDoc(s, csFile'[s[1]]) = InDoc(s, csFile[s[1]])
    <3>1. CASE s[1] = Product
      BY <2>4, <3>1
    <3>2. CASE s[1] = Secrets
      <4>1. s[2] \in Names /\ s[2] # Name(x)
        BY <2>1, <2>5, <3>2, SlotFacts
      <4>2. \A k \in Keys : Name(k) = s[2] => doc[k] = csFile[Secrets][k]
        BY <2>3, <4>1
      <4>3. Entries(doc)[s[2]] = Entries(csFile[Secrets])[s[2]]
        BY <4>1, <4>2, EntriesAgree
      <4> QED
        BY <2>4, <3>2, <4>3, InDocFacts
    <3> QED
      BY <3>1, <3>2, SlotFacts
  <2> QED
    BY <2>1, <2>2, <2>4, <2>5 DEF StoreTypeOK
<1>2. ASSUME NEW x \in ProductSlots, NEW v \in Values, Edit(Product, x, v) PROVE Edited
  <2> DEFINE doc == [csFile[Product] EXCEPT ![x] = v]
  <2>1. csFile' = [csFile EXCEPT ![Product] = doc] /\ csEdited' = csEdited \cup {<<Product, x>>}
    BY <1>2, SlotFacts DEF Edit
  <2>2. doc \in Documents(ProductSlots) /\ <<Product, x>> \in Slots
    BY SlotFacts DEF StoreTypeOK, Documents
  <2>3. \A y \in ProductSlots \ {x} : doc[y] = csFile[Product][y]
    BY DEF StoreTypeOK, Documents
  <2> HIDE DEF doc
  <2>4. csFile'[Product] = doc /\ csFile'[Secrets] = csFile[Secrets]
    BY <2>1, SlotFacts DEF StoreTypeOK
  <2>5. ASSUME NEW s \in Slots \ csEdited' PROVE InDoc(s, csFile'[s[1]]) = InDoc(s, csFile[s[1]])
    <3>1. CASE s[1] = Secrets
      BY <2>4, <3>1
    <3>2. CASE s[1] = Product
      <4>1. s[2] \in ProductSlots \ {x}
        BY <2>1, <2>5, <3>2, SlotFacts
      <4> QED
        BY <2>3, <2>4, <3>2, <4>1, InDocFacts
    <3> QED
      BY <3>1, <3>2, SlotFacts
  <2> QED
    BY <2>1, <2>2, <2>4, <2>5 DEF StoreTypeOK
<1> QED
  BY <1>1, <1>2

(* The operator edits a file: only the slot he edits is disturbed.         *)
LEMMA EditKeepsStore ==
  ASSUME StoreInv,
         \/ \E x \in Keys, v \in Values \cup {Blank, Absent} : Edit(Secrets, x, v)
         \/ \E x \in ProductSlots, v \in Values : Edit(Product, x, v)
  PROVE  StoreInv'
<1> USE DEF StoreInv
<1>1. /\ UNCHANGED <<csUp, csMem, csWriter, csAcked>> /\ csEdits' \in 0..MaxEdits
      /\ \A w \in Writers : InHand(w)' = InHand(w) /\ (Busy(w)' <=> Busy(w))
  BY StoreAssumption DEF Edit, StoreTypeOK, InHand, Busy
<1>2. /\ csFile' \in [{Secrets, Product} -> Documents(Keys) \cup Documents(ProductSlots)]
      /\ csFile'[Secrets] \in Documents(Keys) /\ csFile'[Product] \in Documents(ProductSlots)
      /\ csEdited \subseteq csEdited' /\ csEdited' \subseteq Slots
      /\ \A s \in Slots \ csEdited' : InDoc(s, csFile'[s[1]]) = InDoc(s, csFile[s[1]])
  BY EditChangesOne
<1>3. StoreTypeOK' /\ LockInv'
  BY <1>1, <1>2 DEF StoreTypeOK, LockInv
<1>4. KeptOnDisk'
  BY <1>1, <1>2 DEF KeptOnDisk
<1>5. ASSUME NEW w \in Writers, Busy(w)'
      PROVE  /\ \A s \in Slots \ csEdited' :
                  s[1] = csWriter'[w].file /\ s \notin InHand(w)' => InDoc(s, csWriter'[w].doc) = csAcked'[s]
             /\ \A s \in InHand(w)' : InDoc(s, csWriter'[w].doc) = csWriter'[w].value
             /\ csWriter'[w].pc = "replaced" =>
                  \A s \in InHand(w)' \ csEdited' : InDoc(s, csFile'[s[1]]) = csWriter'[w].value
  <2>1. InHand(w) \subseteq Slots
    BY WriterTypes
  <2> QED
    BY <1>1, <1>2, <1>5, <2>1 DEF DocInv
<1>6. DocInv'
  BY <1>5 DEF DocInv
<1> QED
  BY <1>3, <1>4, <1>6

(* The process crashes, and loads what it finds when it starts.            *)
LEMMA ProcessKeepsStore ==
  ASSUME StoreInv, CrashStore \/ LoadSecrets
  PROVE  StoreInv'
<1> USE DEF StoreInv
<1>1. /\ UNCHANGED <<csFile, csAcked, csEdits>> /\ csUp' \in BOOLEAN
      /\ csEdited' = csEdited \cup UNION {InHand(w) : w \in Writers}
      /\ csMem' = csMem \/ (Valid(csFile[Secrets]) /\ csMem' = Entries(csFile[Secrets]))
      /\ csUp' => csMem' = Entries(csFile[Secrets])
  <2>1. CASE CrashStore
    BY <2>1 DEF CrashStore
  <2>2. CASE LoadSecrets
    <3>1. \A w \in Writers : InHand(w) = {}
      BY <2>2, WriterTypes DEF LoadSecrets, LockInv, Busy, Idle
    <3> QED
      BY <2>2, <3>1 DEF LoadSecrets
  <2> QED
    BY <2>1, <2>2
<1>2. \A w \in Writers : csWriter'[w] = Idle
  BY DEF CrashStore, LoadSecrets, LockInv
<1>3. csWriter' \in [Writers -> StoreWriters]
  BY DEF CrashStore, LoadSecrets, StoreTypeOK, StoreWriters
<1>4. \A w \in Writers : ~Busy(w)' /\ csWriter'[w].pc # "replaced"
  BY <1>2 DEF Busy, Idle
<1>5. StoreTypeOK'
  <2>1. csMem' \in [Names -> Values \cup {Absent}]
    BY <1>1, EntriesType DEF StoreTypeOK
  <2>2. csEdited' \subseteq Slots
    BY <1>1, WriterTypes DEF StoreTypeOK
  <2> QED
    BY <1>1, <1>3, <2>1, <2>2 DEF StoreTypeOK
<1>6. LockInv' /\ DocInv'
  BY <1>2, <1>4 DEF LockInv, DocInv
<1>7. ASSUME NEW s \in Slots \ csEdited'
      PROVE  InDoc(s, csFile'[s[1]]) = csAcked'[s] /\ (s[1] = Secrets /\ csUp' => csMem'[s[2]] = csAcked'[s])
  <2>1. s \in Slots \ csEdited /\ \A w \in Writers : s \notin InHand(w)
    BY <1>1, <1>7
  <2>2. InDoc(s, csFile[s[1]]) = csAcked[s]
    BY <2>1 DEF KeptOnDisk
  <2> QED
    BY <1>1, <2>1, <2>2, InDocFacts
<1>8. KeptOnDisk'
  BY <1>7 DEF KeptOnDisk
<1> QED
  BY <1>5, <1>6, <1>8

(* Every step keeps StoreInv. *)
LEMMA StoreInvStep == StoreInv /\ [StoreNext]_csVars => StoreInv'
<1> SUFFICES ASSUME StoreInv, [StoreNext]_csVars PROVE StoreInv'
  OBVIOUS
<1>1. CASE StoreNext
  BY <1>1, ChangeKeepsStore, ReplaceKeepsStore, ReleaseKeepsStore, EditKeepsStore, ProcessKeepsStore
     DEF StoreNext
<1>2. CASE UNCHANGED csVars
  BY <1>2 DEF csVars, StoreInv, StoreTypeOK, LockInv, Busy, KeptOnDisk, DocInv, InHand
<1> QED
  BY <1>1, <1>2

(* The initial states satisfy StoreInv. *)
LEMMA StoreInvInit == StoreInit => StoreInv
<1> SUFFICES ASSUME StoreInit PROVE StoreInv
  OBVIOUS
<1>1. PICK doc \in Documents(Keys) : Valid(doc) /\ csFile = [f \in {Secrets, Product} |->
        IF f = Secrets THEN doc ELSE [x \in ProductSlots |-> Absent]]
  BY DEF StoreInit
<1>2. csFile[Secrets] = doc /\ csFile[Product] = [x \in ProductSlots |-> Absent]
  BY <1>1, SlotFacts
<1>3. csMem = Entries(doc) /\ csMem \in [Names -> Values \cup {Absent}]
  BY <1>1, <1>2, EntriesType DEF StoreInit
<1>4. \A s \in Slots : InDoc(s, csFile[s[1]]) = csAcked[s] /\ (s[1] = Secrets => csMem[s[2]] = csAcked[s])
  BY <1>2, <1>3, InDocFacts, SlotFacts DEF StoreInit
<1>5. \A w \in Writers : ~Busy(w) /\ csWriter[w].pc # "replaced"
  BY DEF StoreInit, Busy, Idle
<1>6. StoreTypeOK
  <2>1. [x \in ProductSlots |-> Absent] \in Documents(ProductSlots)
    BY DEF Documents
  <2>2. csFile \in [{Secrets, Product} -> Documents(Keys) \cup Documents(ProductSlots)]
    BY <1>1, <2>1
  <2>3. csAcked \in [Slots -> Values \cup {Blank, Absent}]
    BY <1>3, SlotFacts DEF StoreInit
  <2>4. csWriter \in [Writers -> StoreWriters] /\ csUp \in BOOLEAN /\ csEdited \subseteq Slots /\ csEdits \in 0..MaxEdits
    BY StoreAssumption DEF StoreInit, StoreWriters
  <2> QED
    BY <1>2, <1>3, <2>1, <2>2, <2>3, <2>4 DEF StoreTypeOK
<1>7. LockInv /\ KeptOnDisk /\ DocInv
  BY <1>4, <1>5 DEF StoreInit, LockInv, KeptOnDisk, DocInv
<1> QED
  BY <1>6, <1>7 DEF StoreInv

(* StoreInv is an invariant of the specification. *)
LEMMA StoreInvHolds == StoreSpec => []StoreInv
  BY StoreInvInit, StoreInvStep, PTL DEF StoreSpec

(* Type correctness of the files and of the writers of the stores.         *)
THEOREM StoreTypeCorrect == StoreSpec => []StoreTypeOK
<1>1. StoreInv => StoreTypeOK
  BY DEF StoreInv
<1> QED
  BY <1>1, StoreInvHolds, PTL

(* For any keys, fields, values and number of writers, a change that was   *)
(* reported as done stays on disk and in memory until its slot is changed  *)
(* again (rotate, replace_config, patch_product_surface, atomic_write).    *)
THEOREM AcknowledgedCorrect == StoreSpec => []AcknowledgedChangeKept
<1>1. StoreInv => AcknowledgedChangeKept
  <2> SUFFICES ASSUME StoreInv, NEW s \in Slots \ csEdited, \A w \in Writers : s \notin InHand(w)
               PROVE  OnDisk(s) = csAcked[s] /\ (s[1] = Secrets /\ csUp => csMem[s[2]] = csAcked[s])
    BY DEF AcknowledgedChangeKept
  <2>1. InDoc(s, csFile[s[1]]) = csAcked[s] /\ (s[1] = Secrets /\ csUp => csMem[s[2]] = csAcked[s])
    BY DEF StoreInv, KeptOnDisk
  <2>2. OnDisk(s) = InDoc(s, csFile[s[1]])
    BY InDocFacts, SlotFacts DEF OnDisk
  <2> QED
    BY <2>1, <2>2
<1> QED
  BY <1>1, StoreInvHolds, PTL

(* The writer w renames its document over the file, with s in hand.        *)
Writes(w, s) ==
  csWriter[w].pc = "changed" /\ csWriter'[w].pc = "replaced" /\ s \in InHand(w) /\ OnDisk(s)' = csWriter[w].value

(* An entry changes on disk only by the operator's hand or by a writer     *)
(* that is about it, which writes the value it was asked to write.         *)
NoLostUpdate ==
  [][\A s \in Slots \ csEdited :
       OnDisk(s)' # OnDisk(s) => s \in csEdited' \/ \E w \in Writers : Writes(w, s)]_csVars

(* Both files are read, changed and renamed as a whole; no writer puts     *)
(* back what another one has changed since it read the file, for any       *)
(* number of writers, keys and crashes (rotate, patch_product_surface,     *)
(* replace_config, atomic_write under write_lock).                         *)
THEOREM NoLostUpdateCorrect == StoreSpec => NoLostUpdate
<1>1. \A s \in Slots : OnDisk(s) = InDoc(s, csFile[s[1]]) /\ OnDisk(s)' = InDoc(s, csFile'[s[1]])
  BY SlotFacts, InDocFacts DEF OnDisk
<1> DEFINE Step == \A s \in Slots \ csEdited :
                     OnDisk(s)' # OnDisk(s) => s \in csEdited' \/ \E w \in Writers : Writes(w, s)
<1>2. ASSUME StoreInv, StoreNext PROVE Step
  <2>1. ASSUME UNCHANGED csFile PROVE Step
    BY <1>1, <2>1
  <2>2. ASSUME NEW w \in Writers, Replace(w), NEW s \in Slots \ csEdited, OnDisk(s)' # OnDisk(s)
        PROVE  Writes(w, s)
    <3> USE <1>2, <2>2 DEF StoreInv
    <3>1. Busy(w) /\ csWriter'[w].pc = "replaced" /\ csWriter[w].pc = "changed"
      <4>1. csWriter[w] \in StoreWriters /\ csWriter[w].pc = "changed"
        BY DEF Replace, StoreTypeOK
      <4>2. [csWriter[w] EXCEPT !.pc = "replaced"].pc = "replaced"
        BY <4>1 DEF StoreWriters, Idle
      <4> QED
        BY <4>1, <4>2 DEF Replace, Busy, StoreTypeOK
    <3>2. csWriter[w].file \in {Secrets, Product}
      BY <3>1, WriterTypes
    <3>3. csFile'[s[1]] = IF s[1] = csWriter[w].file THEN csWriter[w].doc ELSE csFile[s[1]]
      BY <3>2, SlotFacts DEF Replace, StoreTypeOK
    <3>4. s[1] = csWriter[w].file
      BY <1>1, <3>3
    <3>5. \A u \in Writers : csWriter[u].pc = "replaced" => s \notin InHand(u)
      <4> SUFFICES ASSUME NEW u \in Writers, csWriter[u].pc = "replaced", s \in InHand(u) PROVE FALSE
        OBVIOUS
      <4>1. csWriter[u].file = s[1] /\ Busy(u)
        BY WriterTypes DEF Busy
      <4> QED
        BY <3>1, <3>4, <4>1 DEF LockInv
    <3>6. InDoc(s, csFile[s[1]]) = csAcked[s]
      BY <3>5 DEF KeptOnDisk
    <3>7. s \in InHand(w)
      BY <1>1, <3>1, <3>3, <3>4, <3>6 DEF DocInv
    <3>8. InDoc(s, csWriter[w].doc) = csWriter[w].value
      BY <3>1, <3>7 DEF DocInv
    <3> QED
      BY <1>1, <3>1, <3>3, <3>4, <3>7, <3>8 DEF Writes
  <2>3. CASE \/ \E x \in Keys, v \in Values \cup {Blank, Absent} : Edit(Secrets, x, v)
             \/ \E x \in ProductSlots, v \in Values : Edit(Product, x, v)
    <3>1. \A s \in Slots \ csEdited' : InDoc(s, csFile'[s[1]]) = InDoc(s, csFile[s[1]])
      BY <1>2, <2>3, EditChangesOne
    <3> QED
      BY <1>1, <3>1
  <2>4. ASSUME NEW w \in Writers,
               \/ \E n \in Names, v \in Values : Rotate(w, n, v)
               \/ \E fields \in SUBSET (Fields \cup {ReadOnly}), v \in Values : PatchProduct(w, fields, v)
               \/ \E v \in Values : ReplaceConfig(w, v)
               \/ ReplaceFails(w) \/ Publish(w)
        PROVE  UNCHANGED csFile
    BY <2>4 DEF Rotate, PatchProduct, ReplaceConfig, Begin, ReplaceFails, Publish
  <2>5. CrashStore \/ LoadSecrets => UNCHANGED csFile
    BY DEF CrashStore, LoadSecrets
  <2> HIDE DEF Step
  <2>6. (\E w \in Writers : Replace(w)) => Step
    BY <2>2 DEF Step
  <2> QED
    BY <1>2, <2>1, <2>3, <2>4, <2>5, <2>6 DEF StoreNext
<1>3. StoreInv /\ [StoreNext]_csVars => [Step]_csVars
  BY <1>2
<1> QED
  BY <1>3, StoreInvHolds, PTL DEF StoreSpec, NoLostUpdate

-----------------------------------------------------------------------------
(***************************************************************************)
(* The composition.                                                        *)
(***************************************************************************)
HostInv == ClientInv /\ TaskInv /\ StoreInv /\ DaemonInv /\ ArtifactInv /\ AbiInv /\ SourcesInv

(* A step of the composition is a step of one component and leaves the     *)
(* others alone.                                                           *)
LEMMA HostSteps ==
  [Next]_vars => /\ [ClientNext]_ccVars /\ [TaskNext]_tcVars /\ [StoreNext]_csVars
                 /\ [DaemonNext]_dmVars /\ [ArtifactNext]_paVars /\ [AbiNext]_abVars
                 /\ [SourceNext]_esVars
BY DEF Next, vars

(* The invariants of the components are invariants of the composition.     *)
LEMMA HostInvHolds == Spec => []HostInv
<1>1. Init => HostInv
  BY ClientInvInit, TaskInvInit, StoreInvInit, DaemonInvInit, ArtifactInvInit, AbiInvInit, SourcesInvInit
     DEF Init, HostInv
<1>2. HostInv /\ [Next]_vars => HostInv'
  BY HostSteps, ClientInvStep, TaskInvStep, StoreInvStep, DaemonInvStep, ArtifactInvStep, AbiInvStep,
     SourcesInvStep DEF HostInv
<1> QED
  BY <1>1, <1>2, PTL DEF Spec

(* Every component that runs in the composition keeps its variables in     *)
(* their types.                                                            *)
THEOREM HostTypeCorrect == Spec => []HostTypeOK
<1>1. HostInv => HostTypeOK
  BY DEF HostInv, HostTypeOK, ClientInv, TaskInv, StoreInv, DaemonInv, ArtifactInv, AbiInv, SourcesInv
<1> QED
  BY <1>1, HostInvHolds, PTL

(* The composition is a run of each of its components.                     *)
LEMMA HostRunsParts ==
  Spec => ClientSpec /\ TaskSpec /\ StoreSpec /\ DaemonSpec /\ ArtifactSpec /\ AbiSpec /\ SourceSpec
<1>1. Init => ClientInit /\ TaskInit /\ StoreInit /\ DaemonInit /\ ArtifactInit /\ AbiInit /\ SourceInit
  BY DEF Init
<1> QED
  BY <1>1, HostSteps, PTL DEF Spec, ClientSpec, TaskSpec, StoreSpec, DaemonSpec, ArtifactSpec, AbiSpec, SourceSpec

(* Everything that was shown of a component alone holds of it in the host: *)
(* the retry bound and the pairing of the client, truthful waits and kept  *)
(* completions of task control, kept changes of the rewritten files, token *)
(* agreement and uninstall of the daemon integration, what the Core runs   *)
(* of the artifacts, a plugin that is closed once, after its last          *)
(* callback, and what the event sources report, restart after and leave.   *)
THEOREM HostCorrect ==
  Spec => /\ [](RetryBounded /\ AnswerOwnOrExpired) /\ ImplementsRetryRpc
          /\ [](WaitTruthful /\ NoLostCompletion)
          /\ []AcknowledgedChangeKept /\ NoLostUpdate
          /\ [](TokenAgreement /\ UninstallStopsUnlessIgnored) /\ StoredTokenKept
          /\ [](StagedArtifactVerified /\ MappedFileKept)
          /\ []PluginClosedOnce
          /\ [](StatusTruthful /\ RestartAfterSignal /\ DownMeansAborted)
  BY HostRunsParts, RetryCorrect, AnswerCorrect, ClientImplementsRetryRpc, WaitCorrect, NoLostCompletionCorrect,
     AcknowledgedCorrect, NoLostUpdateCorrect, TokenCorrect, UninstallCorrect, StoredTokenCorrect,
     StagedArtifactCorrect, MappedFileCorrect, PluginClosedCorrect, StatusCorrect, RestartCorrect,
     DownCorrect, PTL

-----------------------------------------------------------------------------
(***************************************************************************)
(* The layers of the configuration.  The values of keys and the names of   *)
(* files are any.                                                          *)
(***************************************************************************)
Transports == {Layers!Unset, "named-pipe", "unix-socket", "tcp-debug"}

Clis(V) == [home : V, profile : V, config : V, token : V, cwd : V]

Envs(V) == [home : V, profile : V, instance : V, token : V, transport : Transports]

ConfigFiles(V) == [home : V, profile : V, instance : V, token : V, transport : V, run : V]

ConfigKeys == {"home", "profile", "instance", "run", "transport", "token"}

\* The configuration that the one file l, an environment and a command line
\* make together, key by key.
LoadedFrom(c, cli, env, l, stored) ==
  LET token == Layers!Or(cli.token, Layers!Or(env.token, l.token))
  IN /\ c.home = Layers!Or(l.home, "~")
     /\ c.profile = Layers!Or(cli.profile, Layers!Or(l.profile, "default"))
     /\ c.instance = Layers!Or(env.instance, Layers!Or(l.instance, "default"))
     /\ c.run = Layers!Or(l.run, c.home)
     /\ c.transport = (IF env.transport \in Transports \ {Layers!Unset} THEN env.transport
                       ELSE Layers!Or(l.transport, "unix-socket"))
     /\ c.token = (IF token # Layers!Unset THEN token
                   ELSE IF c.run \in DOMAIN stored THEN stored[c.run] ELSE "generated")

\* What Parsed makes of the keys of a file.
LEMMA ParsedFacts ==
  ASSUME NEW file
  PROVE  /\ DOMAIN Layers!Parsed(file) = ConfigKeys
         /\ Layers!Parsed(file) = [k \in ConfigKeys |-> Layers!Or(file[k], Layers!DefaultConfig[k])]
         /\ Layers!Parsed(file).home = Layers!Or(file.home, "~")
         /\ Layers!Parsed(file).profile = Layers!Or(file.profile, "default")
         /\ Layers!Parsed(file).instance = Layers!Or(file.instance, "default")
         /\ Layers!Parsed(file).run = file.run
         /\ Layers!Parsed(file).transport = Layers!Or(file.transport, "unix-socket")
         /\ Layers!Parsed(file).token = file.token
<1>1. DOMAIN Layers!DefaultConfig = ConfigKeys
  BY DEF Layers!DefaultConfig, ConfigKeys
<1>2. Layers!Parsed(file) = [k \in ConfigKeys |-> Layers!Or(file[k], Layers!DefaultConfig[k])]
  BY <1>1 DEF Layers!Parsed, Layers!Or
<1> QED
  BY <1>2 DEF ConfigKeys, Layers!Or, Layers!DefaultConfig, Layers!Unset

\* The end of load, from the merged files on.
LEMMA LayersOnFile ==
  ASSUME NEW cli, NEW env, NEW l, NEW stored, NEW p, p = Layers!Parsed(l)
  PROVE  LET layered == Layers!WithEnv(p, env)
             final == [layered EXCEPT !.profile = Layers!Or(cli.profile, @), !.token = Layers!Or(cli.token, @)]
         IN LoadedFrom(Layers!WithToken(Layers!ResolveDirs(final), stored), cli, env, l, stored)
<1> DEFINE layered == Layers!WithEnv(p, env)
           final == [layered EXCEPT !.profile = Layers!Or(cli.profile, @), !.token = Layers!Or(cli.token, @)]
           resolved == Layers!ResolveDirs(final)
           config == Layers!WithToken(resolved, stored)
<1>1. /\ DOMAIN p = ConfigKeys /\ p = [k \in ConfigKeys |-> Layers!Or(l[k], Layers!DefaultConfig[k])]
      /\ p.home = Layers!Or(l.home, "~") /\ p.profile = Layers!Or(l.profile, "default")
      /\ p.instance = Layers!Or(l.instance, "default") /\ p.run = l.run
      /\ p.transport = Layers!Or(l.transport, "unix-socket") /\ p.token = l.token
  BY ParsedFacts
<1>2. /\ DOMAIN layered = ConfigKeys
      /\ layered.home = p.home /\ layered.profile = p.profile /\ layered.run = p.run
      /\ layered.instance = Layers!Or(env.instance, p.instance)
      /\ layered.token = Layers!Or(env.token, p.token)
      /\ layered.transport = (IF env.transport \in Transports \ {Layers!Unset} THEN env.transport ELSE p.transport)
  BY <1>1 DEF Layers!WithEnv, Transports, ConfigKeys, Layers!Unset
<1> HIDE DEF layered
<1>3. /\ DOMAIN final = ConfigKeys /\ final.home = p.home /\ final.run = p.run
      /\ final.profile = Layers!Or(cli.profile, p.profile)
      /\ final.instance = layered.instance /\ final.transport = layered.transport
      /\ final.token = Layers!Or(cli.token, layered.token)
  BY <1>2 DEF ConfigKeys
<1> HIDE DEF final
<1>4. /\ DOMAIN resolved = ConfigKeys /\ resolved.run = Layers!Or(final.run, final.home)
      /\ \A k \in ConfigKeys \ {"run"} : resolved[k] = final[k]
  BY <1>3 DEF Layers!ResolveDirs, ConfigKeys
<1> HIDE DEF resolved
<1>5. /\ config.token = (IF resolved.token # Layers!Unset THEN resolved.token
                         ELSE IF resolved.run \in DOMAIN stored THEN stored[resolved.run] ELSE "generated")
      /\ \A k \in ConfigKeys \ {"token"} : config[k] = resolved[k]
  BY <1>4 DEF Layers!WithToken, ConfigKeys
<1> HIDE DEF config
<1>6. /\ config.home = p.home /\ config.profile = final.profile /\ config.run = Layers!Or(p.run, p.home)
      /\ config.instance = final.instance /\ config.transport = final.transport
      /\ config.run = resolved.run /\ resolved.token = final.token
  BY <1>3, <1>4, <1>5 DEF ConfigKeys
<1>7. final.token = Layers!Or(cli.token, Layers!Or(env.token, l.token))
  BY <1>1, <1>2, <1>3
<1>8. LoadedFrom(config, cli, env, l, stored)
  BY <1>1, <1>2, <1>3, <1>5, <1>6, <1>7 DEF LoadedFrom
<1> QED
  BY <1>8 DEF config, resolved, final, layered

\* With a local file every section of the profile's file is replaced.
LEMMA LocalLoad ==
  ASSUME NEW cli, NEW env, NEW files, NEW stored, NEW local,
         local = Layers!LocalFile(cli, Layers!HomeOf(cli, env)),
         local \in DOMAIN files
  PROVE  LoadedFrom(Layers!Load(cli, env, files, stored).config, cli, env, files[local], stored)
<1> DEFINE start == Layers!ResolveDirs([Layers!DefaultConfig EXCEPT !.home = Layers!Or(cli.home, Layers!Or(env.home, @))])
           profile == Layers!Or(cli.profile, Layers!Or(env.profile,
                        IF local \in DOMAIN files THEN Layers!Parsed(files[local]).profile ELSE start.profile))
           named == [start EXCEPT !.profile = profile]
           merged == Layers!Merged(Layers!Merged(named, files, Layers!ProfilePath(start.home, profile)), files, local)
           layered == Layers!WithEnv(merged, env)
           final == [layered EXCEPT !.profile = Layers!Or(cli.profile, @), !.token = Layers!Or(cli.token, @)]
<1>1. start.home = Layers!HomeOf(cli, env)
  BY DEF Layers!ResolveDirs, Layers!DefaultConfig, Layers!HomeOf
<1>2. Layers!Load(cli, env, files, stored).config = Layers!WithToken(Layers!ResolveDirs(final), stored)
  BY <1>1, ZenonT(30) DEF Layers!Load
<1>3. merged = Layers!Parsed(files[local])
  BY DEF Layers!Merged
<1> HIDE DEF start, profile, named, merged
<1> SUFFICES LoadedFrom(Layers!WithToken(Layers!ResolveDirs(final), stored), cli, env, files[local], stored)
  BY <1>2
<1> QED
  BY <1>3, LayersOnFile

\* Without one the file of the profile is what counts.
LEMMA ProfileLoad ==
  ASSUME NEW cli, NEW env, NEW files, NEW stored, NEW path,
         cli.config = Layers!Unset, Layers!LocalPath(Layers!HomeOf(cli, env)) \notin DOMAIN files,
         path = Layers!ProfilePath(Layers!HomeOf(cli, env), Layers!Or(cli.profile, Layers!Or(env.profile, "default"))),
         path \in DOMAIN files
  PROVE  LoadedFrom(Layers!Load(cli, env, files, stored).config, cli, env, files[path], stored)
<1> DEFINE local == Layers!LocalFile(cli, Layers!HomeOf(cli, env))
           start == Layers!ResolveDirs([Layers!DefaultConfig EXCEPT !.home = Layers!Or(cli.home, Layers!Or(env.home, @))])
           profile == Layers!Or(cli.profile, Layers!Or(env.profile,
                        IF local \in DOMAIN files THEN Layers!Parsed(files[local]).profile ELSE start.profile))
           named == [start EXCEPT !.profile = profile]
           merged == Layers!Merged(Layers!Merged(named, files, Layers!ProfilePath(start.home, profile)), files, local)
           layered == Layers!WithEnv(merged, env)
           final == [layered EXCEPT !.profile = Layers!Or(cli.profile, @), !.token = Layers!Or(cli.token, @)]
<1>1. start.home = Layers!HomeOf(cli, env) /\ start.profile = "default"
  BY DEF Layers!ResolveDirs, Layers!DefaultConfig, Layers!HomeOf
<1>2. Layers!Load(cli, env, files, stored).config = Layers!WithToken(Layers!ResolveDirs(final), stored)
  BY <1>1, ZenonT(30) DEF Layers!Load
<1>3. merged = Layers!Parsed(files[path])
  <2>1. local \notin DOMAIN files /\ profile = Layers!Or(cli.profile, Layers!Or(env.profile, "default"))
    BY <1>1 DEF Layers!LocalFile
  <2>2. Layers!ProfilePath(start.home, profile) = path
    BY <1>1, <2>1
  <2> QED
    BY <2>1, <2>2 DEF Layers!Merged
<1> HIDE DEF start, profile, named, merged
<1> SUFFICES LoadedFrom(Layers!WithToken(Layers!ResolveDirs(final), stored), cli, env, files[path], stored)
  BY <1>2
<1> QED
  BY <1>3, LayersOnFile

\* The service that a platform's manager starts (launch_arguments,
\* systemd_unit, launchd_plist and ServiceConfig::load), for any values of the
\* keys, names of files and environment of the installing shell: where the
\* launch finds the file install has read, the explicit one by its absolute
\* path or the local one of a home the file does not change, the service has the
\* home, the run directory and the profile of install, and every other key but
\* those the shell's environment had set, which the unit does not carry.
THEOREM RelaunchCorrect ==
  ASSUME NEW V
  PROVE  Layers!RelaunchSame(Clis(V), Envs(V), ConfigFiles(V))
<1> SUFFICES ASSUME NEW cli \in Clis(V), NEW env \in Envs(V), NEW l \in ConfigFiles(V), NEW m \in ConfigFiles(V),
                    Layers!SameFile(cli, env, l)
             PROVE  LET local == Layers!LocalFile(cli, Layers!HomeOf(cli, env))
                        moved == Layers!LocalPath(Layers!Or(l.home, Layers!DefaultConfig.home))
                        files == [path \in {local, moved} |-> IF path = local THEN l ELSE m]
                        installed == Layers!Load(cli, env, files, <<>>).config
                        launched == Layers!Load(Layers!LaunchArguments(cli, installed), Layers!LaunchEnv, files, <<>>).config
                    IN /\ \A key \in {"home", "run", "profile"} : launched[key] = installed[key]
                       /\ \A key \in {"instance", "transport"} :
                            env[key] = Layers!Unset => launched[key] = installed[key]
  BY DEF Layers!RelaunchSame
<1> DEFINE local == Layers!LocalFile(cli, Layers!HomeOf(cli, env))
           moved == Layers!LocalPath(Layers!Or(l.home, Layers!DefaultConfig.home))
           files == [path \in {local, moved} |-> IF path = local THEN l ELSE m]
           installed == Layers!Load(cli, env, files, <<>>).config
           args == Layers!LaunchArguments(cli, installed)
           unit == Layers!LaunchEnv
           launched == Layers!Load(args, unit, files, <<>>).config
<1>1. local \in DOMAIN files /\ files[local] = l
  OBVIOUS
<1> HIDE DEF files
<1>2. LoadedFrom(installed, cli, env, l, <<>>)
  BY <1>1, LocalLoad
<1> HIDE DEF installed
<1>3. /\ args.home = installed.home /\ args.profile = installed.profile /\ args.config = cli.config
      /\ args.home # Layers!Unset /\ args.profile # Layers!Unset
  <2>1. installed.home # Layers!Unset /\ installed.profile # Layers!Unset
    BY <1>2 DEF LoadedFrom, Layers!Or, Layers!Unset
  <2> QED
    BY <2>1 DEF Layers!LaunchArguments
<1>4. /\ unit.home = Layers!Unset /\ unit.instance = Layers!Unset /\ unit.transport = Layers!Unset
  BY DEF Layers!LaunchEnv
<1> HIDE DEF args, unit
<1>5. local = Layers!LocalFile(args, Layers!HomeOf(args, unit))
  <2>1. CASE cli.config = Layers!Unset
    <3>1. Layers!HomeOf(args, unit) = Layers!Or(l.home, "~")
      BY <1>2, <1>3 DEF LoadedFrom, Layers!HomeOf, Layers!Or
    <3>2. Layers!HomeOf(cli, env) = Layers!Or(l.home, "~")
      BY <2>1 DEF Layers!SameFile, Layers!DefaultConfig
    <3> QED
      BY <1>3, <2>1, <3>1, <3>2 DEF Layers!LocalFile
  <2>2. CASE cli.config # Layers!Unset
    BY <1>3, <2>2 DEF Layers!SameFile, Layers!LocalFile, Layers!PathIn
  <2> QED
    BY <2>1, <2>2
<1> HIDE DEF local
<1>6. LoadedFrom(launched, args, unit, l, <<>>)
  BY <1>1, <1>5, LocalLoad
<1> HIDE DEF launched
<1>7. launched.home = installed.home /\ launched.run = installed.run /\ launched.profile = installed.profile
  BY <1>2, <1>3, <1>6 DEF LoadedFrom, Layers!Or
<1>8. /\ env.instance = Layers!Unset => launched.instance = installed.instance
      /\ env.transport = Layers!Unset => launched.transport = installed.transport
  BY <1>2, <1>4, <1>6 DEF LoadedFrom, Layers!Or
<1>9. /\ \A key \in {"home", "run", "profile"} : launched[key] = installed[key]
      /\ \A key \in {"instance", "transport"} : env[key] = Layers!Unset => launched[key] = installed[key]
  BY <1>7, <1>8
<1> QED
  BY <1>9 DEF launched, args, unit, installed, files, local

\* The keys of docs/config.md against ServiceConfig::load: with one file, the
\* local one or that of the profile, the instance, the transport and the token
\* come from the strongest layer that sets them, whatever the values of the
\* keys and the names of the files.  A transport of the environment is one of
\* those apply_env knows.  Nothing is claimed of home and profile: a section of
\* the file replaces what the command line or the environment said of them.
THEOREM LayersCorrect ==
  ASSUME NEW V
  PROVE  Layers!OneFileAsDocumented(Clis(V), Envs(V), ConfigFiles(V), ConfigFiles(V))
<1> SUFFICES ASSUME NEW cli \in Clis(V), NEW env \in Envs(V)
             PROVE  LET local == Layers!LocalFile(cli, Layers!HomeOf(cli, env))
                        profile == Layers!ProfilePath(Layers!HomeOf(cli, env),
                                     Layers!Or(cli.profile, Layers!Or(env.profile, Layers!DefaultConfig.profile)))
                    IN /\ \A l \in ConfigFiles(V) : Layers!AsDocumented(cli, env, [path \in {local} |-> l])
                       /\ cli.config = Layers!Unset =>
                            \A p \in ConfigFiles(V) : Layers!AsDocumented(cli, env, [path \in {profile} |-> p])
  BY DEF Layers!OneFileAsDocumented
<1> DEFINE local == Layers!LocalFile(cli, Layers!HomeOf(cli, env))
           profile == Layers!ProfilePath(Layers!HomeOf(cli, env),
                        Layers!Or(cli.profile, Layers!Or(env.profile, Layers!DefaultConfig.profile)))
           Strongest(key, l) ==
             Layers!Or(IF key \in DOMAIN cli THEN cli[key] ELSE Layers!Unset,
               Layers!Or(IF key \in DOMAIN env THEN env[key] ELSE Layers!Unset,
                 Layers!Or(l[key], Layers!DefaultConfig[key])))
<1>1. /\ "instance" \notin DOMAIN cli /\ "transport" \notin DOMAIN cli /\ "token" \in DOMAIN cli
      /\ {"instance", "transport", "token"} \subseteq DOMAIN env /\ env.transport \in Transports
  BY DEF Clis, Envs
<1>2. /\ Layers!DefaultConfig.instance = "default" /\ Layers!DefaultConfig.transport = "unix-socket"
      /\ Layers!DefaultConfig.token = Layers!Unset /\ Layers!DefaultConfig.profile = "default"
  BY DEF Layers!DefaultConfig
<1>3. ASSUME NEW files, NEW l,
             LoadedFrom(Layers!Load(cli, env, files, <<>>).config, cli, env, l, <<>>),
             \A key \in {"instance", "transport", "token"} :
               Layers!Documented(key, cli, env, files) = Strongest(key, l)
      PROVE  Layers!AsDocumented(cli, env, files)
  <2> DEFINE c == Layers!Load(cli, env, files, <<>>).config
             D(key) == Layers!Documented(key, cli, env, files)
  <2>1. D("instance") = Layers!Or(env.instance, Layers!Or(l.instance, "default"))
    BY <1>1, <1>2, <1>3 DEF Layers!Or, Layers!Unset
  <2>2. D("transport") = Layers!Or(env.transport, Layers!Or(l.transport, "unix-socket"))
    BY <1>1, <1>2, <1>3 DEF Layers!Or, Layers!Unset
  <2>3. D("token") = Layers!Or(cli.token, Layers!Or(env.token, l.token))
    BY <1>1, <1>2, <1>3 DEF Layers!Or, Layers!Unset
  <2> HIDE DEF D, c
  <2>4. LoadedFrom(c, cli, env, l, <<>>)
    BY <1>3 DEF c
  <2>5. c.instance = D("instance") /\ c.transport = D("transport")
    BY <1>1, <2>1, <2>2, <2>4 DEF LoadedFrom, Layers!Or, Transports
  <2>6. c.token = IF D("token") = Layers!Unset THEN "generated" ELSE D("token")
    BY <2>3, <2>4 DEF LoadedFrom
  <2> QED
    BY <2>5, <2>6 DEF Layers!AsDocumented, c, D
<1>4. ASSUME NEW l \in ConfigFiles(V) PROVE Layers!AsDocumented(cli, env, [path \in {local} |-> l])
  <2> DEFINE files == [path \in {local} |-> l]
  <2>1. local \in DOMAIN files /\ files[local] = l /\ \A path : path \in DOMAIN files => files[path] = l
    OBVIOUS
  <2>2. ASSUME NEW key \in {"instance", "transport", "token"}
        PROVE  Layers!Documented(key, cli, env, files) = Strongest(key, l)
    BY <2>1 DEF Layers!Documented, Layers!HomeOf, Layers!Or
  <2> HIDE DEF files
  <2>3. LoadedFrom(Layers!Load(cli, env, files, <<>>).config, cli, env, l, <<>>)
    BY <2>1, LocalLoad
  <2> HIDE DEF Strongest, local
  <2>4. Layers!AsDocumented(cli, env, files)
    BY <1>3, <2>2, <2>3
  <2> QED
    BY <2>4 DEF files
<1>5. ASSUME cli.config = Layers!Unset, NEW p \in ConfigFiles(V)
      PROVE  Layers!AsDocumented(cli, env, [path \in {profile} |-> p])
  <2> DEFINE files == [path \in {profile} |-> p]
  <2>1. profile \in DOMAIN files /\ files[profile] = p
    OBVIOUS
  <2>2. CASE local = profile
    BY <1>4, <2>2
  <2>3. CASE local # profile
    <3>1. local \notin DOMAIN files
      BY <2>3
    <3>2. ASSUME NEW key \in {"instance", "transport", "token"}
          PROVE  Layers!Documented(key, cli, env, files) = Strongest(key, p)
      BY <1>5, <2>1, <3>1 DEF Layers!Documented, Layers!HomeOf, Layers!Or
    <3> HIDE DEF files
    <3>3. LoadedFrom(Layers!Load(cli, env, files, <<>>).config, cli, env, p, <<>>)
      <4>1. Layers!LocalPath(Layers!HomeOf(cli, env)) \notin DOMAIN files
        BY <1>5, <3>1 DEF Layers!LocalFile
      <4> QED
        BY <1>2, <1>5, <2>1, <4>1, ProfileLoad
    <3> HIDE DEF Strongest, profile
    <3>4. Layers!AsDocumented(cli, env, files)
      BY <1>3, <3>2, <3>3
    <3> QED
      BY <3>4 DEF files
  <2> QED
    BY <2>2, <2>3
<1> QED
  BY <1>4, <1>5

-----------------------------------------------------------------------------
(***************************************************************************)
(* The scan of plugin directories.                                         *)
(***************************************************************************)
\* What plugin.toml files can say; every value is arbitrary.
FoundRecords(V) ==
  [entry : V, plugin : V, type : V, sha : V, state : V, backends : V, link : V, runners : V]

\* PluginInventory::scan of any directories, with any manifests, contents and
\* quarantined plugins: one record for a deployment of a plugin, none that is
\* invalid or quarantined, and a diagnostic for every directory left out.  The
\* entry of what the executable registered is no directory.
THEOREM ScanCorrect ==
  ASSUME NEW D, NEW V, NEW contents, NEW quarantines, "builtin" \notin D
  PROVE  ScanSound([D -> FoundRecords(V)], contents, quarantines)
<1> DEFINE manifest == [entry |-> "none", plugin |-> "p", type |-> "native", sha |-> "v1", state |-> "valid",
                        backends |-> <<>>, link |-> "none", runners |-> 1]
           builtin == Builtin({manifest})
<1> SUFFICES ASSUME NEW found \in [D -> FoundRecords(V)], NEW disabled \in quarantines
             PROVE  LET result == Scan(builtin, found, contents, disabled)
                        kept == {r.entry : r \in result.records}
                    IN /\ \A r, s \in result.records : CandidateKey(r) = CandidateKey(s) => r = s
                       /\ \A e \in kept \ {"builtin"} :
                            found[e].plugin \notin disabled /\ ArtifactValid(found[e], contents[e])
                       /\ \A e \in DOMAIN found :
                            IF e \in kept THEN e \notin result.diagnostics
                            ELSE e \in result.diagnostics \/ CandidateKey(found[e]) \in result.ambiguous
  BY DEF ScanSound
<1> DEFINE valid == {e \in DOMAIN found : /\ found[e].plugin \notin disabled
                                          /\ ArtifactValid(found[e], contents[e])}
           Named(e) == [found[e] EXCEPT !.entry = e]
           all == builtin \cup {Named(e) : e \in valid}
           alone == {r \in all : \A s \in all : CandidateKey(s) = CandidateKey(r) => s = r}
           result == Scan(builtin, found, contents, disabled)
           kept == {r.entry : r \in result.records}
<1>1. /\ result.records = alone /\ result.diagnostics = DOMAIN found \ valid
      /\ result.ambiguous = {CandidateKey(r) : r \in all \ alone}
  BY DEF Scan
<1>2. \A r \in builtin : r.entry = "builtin"
  BY DEF Builtin
<1>3. \A e \in D : Named(e).entry = e /\ CandidateKey(Named(e)) = CandidateKey(found[e])
  BY DEF FoundRecords, CandidateKey
<1> HIDE DEF builtin, Named, result
<1>4. \A e \in kept : e = "builtin" \/ e \in valid
  BY <1>1, <1>2, <1>3
<1>5. ASSUME NEW e \in DOMAIN found, e \in valid, e \notin kept
      PROVE  CandidateKey(found[e]) \in result.ambiguous
  <2>1. Named(e) \in all \ alone
    BY <1>1, <1>3, <1>5
  <2> QED
    BY <1>1, <1>3, <2>1
<1> QED
  BY <1>1, <1>4, <1>5 DEF result

\* sidecar_specs and register_stdio_runners together, for records with any
\* values: no runner has two masters, and a process artifact with a link has
\* one.
THEOREM HostedOnceCorrect == ASSUME NEW records PROVE RunnerHostedOnce(records)
BY DEF RunnerHostedOnce, CoreSpawns, Bootable, Supervised

-----------------------------------------------------------------------------
(***************************************************************************)
(* The wire format.                                                        *)
(***************************************************************************)
\* Any limits an IPC section can name.
AnySection == [frame : Nat, payload : Nat, line : Nat, inFlight : Nat]

\* The flags the encoders write are flags the readers accept.
LEMMA FlagsAccepted == \A kind \in {"request", "ok", "error", "cancel"} : FlagsValid(FlagsOf(kind))
BY DEF FlagsValid, FlagsOf, KnownFlags

\* encode_frame_into against read_binary_frame_into and read_frame_prefix, for
\* all limits and payloads: what is written is read back and leaves nothing in
\* the stream, and what is refused for its size no reader would have taken.
THEOREM FramesReadableCorrect == FramesReadable(AnySection, Nat)
<1> SUFFICES ASSUME NEW section \in AnySection, NEW payload \in Nat, NEW id \in 0..1,
                    NEW kind \in {"request", "ok", "error", "cancel"},
                    section.frame < 2^LenBits
             PROVE  LET limits == LimitsOf(section)
                        f == EncodeFrame(1, FlagsOf(kind), id, payload, limits)
                        raw == FrameBytes(1, FlagsOf(kind), id, payload)
                    IN IF f.ok
                       THEN /\ ReadFrame(f, limits) = [ok |-> TRUE, opcode |-> 1, flags |-> FlagsOf(kind),
                                                       id |-> id, payload |-> payload]
                            /\ \A allocate \in BOOLEAN : ReadInTwoParts(f, limits, allocate).rest = 0
                       ELSE payload < 2^LenBits - HeaderLen => ~ReadFrame(raw, limits).ok
  BY DEF FramesReadable
<1> DEFINE limits == LimitsOf(section)
           flags == FlagsOf(kind)
           f == EncodeFrame(1, flags, id, payload, limits)
           raw == FrameBytes(1, flags, id, payload)
<1>1. /\ limits.frame = section.frame /\ limits.frame \in Nat /\ limits.payload \in Nat
      /\ limits.payload <= limits.frame /\ 2^LenBits \in Int /\ HeaderLen \in Nat
  BY CodecAssumption DEF CodecAssumption, LimitsOf, AnySection
<1>2. FlagsValid(flags)
  BY FlagsAccepted
<1>3. HeaderLen + payload < 2^LenBits
      => Width(HeaderLen + payload) = HeaderLen + payload /\ Width(payload) = payload
  BY <1>1 DEF Width
<1>4. CASE f.ok
  <2>1. f = raw /\ id # 0 /\ payload <= limits.payload /\ LengthValid(HeaderLen + payload, limits)
    BY <1>4 DEF EncodeFrame, Refused
  <2>2. HeaderLen + payload < 2^LenBits
    BY <1>1, <2>1 DEF LengthValid
  <2> HIDE DEF limits, flags
  <2>3. /\ f.declared = HeaderLen + payload /\ f.payloadLen = payload /\ f.payload = payload /\ f.magic /\ f.major = 1
        /\ f.opcode = 1 /\ f.flags = flags /\ f.id = id
    BY <1>3, <2>1, <2>2 DEF FrameBytes
  <2>4. LengthValid(f.declared, limits) /\ HeaderValid(f, limits) /\ f.declared = HeaderLen + f.payloadLen
    BY <1>2, <2>1, <2>3 DEF HeaderValid
  <2> HIDE DEF f
  <2>5. ReadFrame(f, limits) = [ok |-> TRUE, opcode |-> 1, flags |-> flags, id |-> id, payload |-> payload]
    BY <2>3, <2>4 DEF ReadFrame
  <2>6. ASSUME NEW allocate \in BOOLEAN PROVE ReadInTwoParts(f, limits, allocate).rest = 0
    BY <1>1, <2>3, <2>4 DEF ReadInTwoParts
  <2> QED
    BY <1>4, <2>5, <2>6 DEF f, flags, limits
<1>5. CASE ~f.ok
  <2> SUFFICES ASSUME payload < 2^LenBits - HeaderLen, ReadFrame(raw, limits).ok PROVE FALSE
    BY <1>5
  <2>1. HeaderLen + payload < 2^LenBits
    BY <1>1
  <2>2. raw.declared = HeaderLen + payload /\ raw.payloadLen = payload /\ raw.id = id
    BY <1>3, <2>1 DEF FrameBytes
  <2> HIDE DEF limits, flags
  <2>3. LengthValid(raw.declared, limits) /\ HeaderValid(raw, limits)
    BY DEF ReadFrame, Refused
  <2>4. f = raw
    BY <2>2, <2>3 DEF HeaderValid, EncodeFrame
  <2>5. raw.ok
    BY DEF FrameBytes
  <2> QED
    BY <1>5, <2>4, <2>5
<1> QED
  BY <1>4, <1>5

\* A number below b times m has a quotient below b.
LEMMA DivBound == ASSUME NEW a \in Nat, NEW b \in Nat, NEW m \in Int, a < b * m PROVE a \div m < b
<1>1. m > 0
  OBVIOUS
<1> QED
  BY <1>1

\* Limits whose frames have a length that fits its field.
ServedSection == [frame : 0..(2^LenBits - 1), payload : Nat, line : Nat, inFlight : Nat]

\* The codec choice of serve_stream: no frame within a limit below that of a
\* brace in the first byte of the length is served as JSON lines.
THEOREM FramesRecognisedCorrect == FramesRecognised(ServedSection, Nat)
<1> SUFFICES ASSUME NEW section \in ServedSection, NEW payload \in Nat,
                    EncodeFrame(1, {"request"}, 1, payload, LimitsOf(section)).ok,
                    section.frame < Brace * 2^(LenBits - ByteBits)
             PROVE  ServedAs(FirstByte(EncodeFrame(1, {"request"}, 1, payload, LimitsOf(section)))) = "binary"
  BY DEF FramesRecognised
<1> DEFINE f == EncodeFrame(1, {"request"}, 1, payload, LimitsOf(section))
<1>1. /\ 2^LenBits \in Int /\ 2^(LenBits - ByteBits) \in Int /\ HeaderLen \in Nat /\ Brace \in Nat
      /\ section.frame \in Nat /\ section.frame < 2^LenBits
  BY CodecAssumption DEF CodecAssumption, ServedSection
<1>2. /\ f = FrameBytes(1, {"request"}, 1, payload) /\ HeaderLen + payload <= section.frame
  BY DEF EncodeFrame, Refused, LengthValid, LimitsOf
<1>3. f.declared = HeaderLen + payload
  BY <1>1, <1>2 DEF FrameBytes, Width
<1>4. (HeaderLen + payload) \div 2^(LenBits - ByteBits) < Brace
  <2>1. HeaderLen + payload \in Nat /\ HeaderLen + payload < Brace * 2^(LenBits - ByteBits)
    BY <1>1, <1>2
  <2> QED
    BY <1>1, <2>1, DivBound
<1> QED
  BY <1>1, <1>3, <1>4 DEF ServedAs, FirstByte

\* encode_jsonl against read_jsonl_line: a line that is written is read; the
\* reader takes one byte more, for every limit.
THEOREM LinesReadableCorrect == LinesReadable(AnySection)
BY DEF LinesReadable, AnySection, LimitsOf, EncodeLine, ReadLine

\* FrameFlags::from_bits accepts what the encoders write and a cancel that is
\* also marked as a request, and nothing else.
THEOREM FlagsCorrect == FlagsExact
BY DEF FlagsExact, FlagsValid, FlagsOf, KnownFlags

\* The methods of ControlMethod.
AllMethods == {ControlMethods[i] : i \in DOMAIN ControlMethods}

\* Any opcode with any flags, without the token.
TokenRequired ==
  \A opcode \in Int, flags \in SUBSET KnownFlags : Dispatched(opcode, flags, FALSE) \notin AllMethods

\* from_opcode, is_mutating and handle_request: an opcode names one method, the
\* cancel opcode none, and without the token no frame reaches a method.
THEOREM OpcodesCorrect == OpcodesExact /\ TokenRequired
<1>1. OpcodesExact
  BY DEF OpcodesExact, MethodOf, ControlMethods, OpcodeCancel, IsMutating, Dispatched, FlagsValid, KnownFlags
<1>2. TokenRequired
  BY DEF TokenRequired, AllMethods, Dispatched, ControlMethods
<1> QED
  BY <1>1, <1>2

\* The two readers of a frame, on any bytes and limits.
ReadersAgree(f, limits) ==
  /\ \A allocate \in BOOLEAN : ReadInTwoParts(f, limits, allocate).ok = ReadFrame(f, limits).ok
  /\ ReadFrame(f, limits).ok =>
       /\ ReadInTwoParts(f, limits, TRUE).payload = ReadFrame(f, limits).payload
       /\ ReadFrame(f, limits).payload <= limits.payload

\* read_frame_prefix with read_payload_or_discard, which the server uses, and
\* read_binary_frame_into, which the client uses, accept the same frames and
\* read the same payload, never more than the payload limit.
THEOREM ReadersCorrect == \A f, limits : ReadersAgree(f, limits)
<1> SUFFICES ASSUME NEW f, NEW limits PROVE ReadersAgree(f, limits)
  OBVIOUS
<1> DEFINE accepted == /\ LengthValid(f.declared, limits) /\ HeaderValid(f, limits)
                       /\ f.declared = HeaderLen + f.payloadLen
<1>1. CASE accepted
  BY <1>1 DEF ReadersAgree, ReadFrame, ReadInTwoParts, HeaderValid
<1>2. CASE ~accepted
  BY <1>2 DEF ReadersAgree, ReadFrame, ReadInTwoParts, Refused
<1> QED
  BY <1>1, <1>2

-----------------------------------------------------------------------------
(***************************************************************************)
(* The tail of the log.  LinesFrom picks the k-th end of a line as the one *)
(* with k - 1 ends before it; that there is one follows without induction, *)
(* from counting: the number of smaller elements is an injection of a      *)
(* finite set of integers into as many numbers as it has elements.         *)
(***************************************************************************)
Below(S, e) == {d \in S : d < e}

\* The rank of an element of a finite set of integers.
LEMMA RankFacts ==
  ASSUME NEW S \in SUBSET Int, IsFiniteSet(S)
  PROVE  /\ Cardinality(S) \in Nat
         /\ \A e \in S : IsFiniteSet(Below(S, e)) /\ Cardinality(Below(S, e)) \in 0..(Cardinality(S) - 1)
         /\ \A d, e \in S : d < e => Cardinality(Below(S, d)) < Cardinality(Below(S, e))
         /\ \A k \in 1..Cardinality(S) : \E e \in S : Cardinality(Below(S, e)) = k - 1
<1>1. Cardinality(S) \in Nat
  BY FS_CardinalityType
<1>2. ASSUME NEW e \in S
      PROVE  IsFiniteSet(Below(S, e)) /\ Cardinality(Below(S, e)) \in 0..(Cardinality(S) - 1)
  <2>1. Below(S, e) \in SUBSET (S \ {e})
    BY DEF Below
  <2>2. IsFiniteSet(S \ {e}) /\ Cardinality(S \ {e}) = Cardinality(S) - 1
    BY FS_RemoveElement
  <2>3. IsFiniteSet(Below(S, e)) /\ Cardinality(Below(S, e)) <= Cardinality(S \ {e})
    BY <2>1, <2>2, FS_Subset
  <2>4. Cardinality(Below(S, e)) \in Nat
    BY <2>3, FS_CardinalityType
  <2> QED
    BY <1>1, <2>2, <2>3, <2>4
<1>3. ASSUME NEW d \in S, NEW e \in S, d < e
      PROVE  Cardinality(Below(S, d)) < Cardinality(Below(S, e))
  <2>1. Below(S, d) \cup {d} \in SUBSET Below(S, e) /\ d \notin Below(S, d)
    <3>1. d \in Int /\ e \in Int
      OBVIOUS
    <3>2. ASSUME NEW x \in Below(S, d) PROVE x \in Below(S, e)
      <4>1. x \in S /\ x < d
        BY DEF Below
      <4>2. x \in Int
        BY <4>1
      <4>3. x < e
        BY <1>3, <3>1, <4>1, <4>2
      <4> QED
        BY <4>1, <4>3 DEF Below
    <3>3. d \in Below(S, e)
      BY <1>3 DEF Below
    <3>4. d \notin Below(S, d)
      BY <3>1 DEF Below
    <3> QED
      BY <3>2, <3>3, <3>4
  <2>2. Cardinality(Below(S, d) \cup {d}) = Cardinality(Below(S, d)) + 1
    BY <1>2, <2>1, FS_AddElement
  <2>3. Cardinality(Below(S, d) \cup {d}) <= Cardinality(Below(S, e))
    BY <1>2, <2>1, FS_Subset
  <2> QED
    BY <1>2, <2>2, <2>3
<1>4. ASSUME NEW k \in 1..Cardinality(S) PROVE \E e \in S : Cardinality(Below(S, e)) = k - 1
  <2> DEFINE n == Cardinality(S)
             rank == [e \in S |-> Cardinality(Below(S, e))]
  <2>1. IsFiniteSet(0..(n - 1)) /\ Cardinality(0..(n - 1)) = n
    <3>1. 0 \in Int /\ n - 1 \in Int
      BY <1>1
    <3>2. /\ IsFiniteSet(0..(n - 1))
          /\ Cardinality(0..(n - 1)) = IF 0 > n - 1 THEN 0 ELSE (n - 1) - 0 + 1
      BY <3>1, FS_Interval
    <3> HIDE DEF n
    <3>3. n \in Nat
      BY <1>1 DEF n
    <3> QED
      BY <3>2, <3>3
  <2>2. rank \in [S -> 0..(n - 1)]
    BY <1>2
  <2>3. \A d, e \in S : rank[d] = rank[e] => d = e
    BY <1>2, <1>3
  <2>4. rank \in Injection(S, 0..(n - 1))
    BY <2>2, <2>3 DEF Injection, IsInjective
  <2>5. rank \in Surjection(S, 0..(n - 1))
    BY <2>1, <2>4, FS_Injection
  <2>6. k - 1 \in 0..(n - 1)
    BY <1>1
  <2> QED
    BY <2>5, <2>6 DEF Surjection
<1> QED
  BY <1>1, <1>2, <1>3, <1>4

\* Where read_line stops: behind its offset, at the next newline or the end.
LEMMA LineEndFacts ==
  ASSUME NEW X, NEW file \in Seq(X)
  PROVE  /\ \A o \in 0..(Len(file) - 1) : LineEnd(file, o) \in (o + 1)..Len(file)
         /\ \A i \in 1..Len(file) : file[i] = Newline => LineEnd(file, i - 1) = i
<1>1. ASSUME NEW o \in 0..(Len(file) - 1) PROVE LineEnd(file, o) \in (o + 1)..Len(file)
  <2> DEFINE ends == {i \in (o + 1)..Len(file) : file[i] = Newline}
  <2>1. CASE ends = {}
    BY <2>1 DEF LineEnd
  <2>2. CASE ends # {}
    <3>1. ends \in SUBSET Int /\ IsFiniteSet(ends)
      <4>1. IsFiniteSet((o + 1)..Len(file))
        BY FS_Interval
      <4> QED
        BY <4>1, FS_Subset
    <3> HIDE DEF ends
    <3>2. Cardinality(ends) >= 1 /\ Cardinality(ends) \in Nat
      BY <2>2, <3>1, FS_EmptySet, FS_CardinalityType
    <3>3. PICK e \in ends : Cardinality(Below(ends, e)) = 1 - 1
      <4>1. 1 \in 1..Cardinality(ends)
        BY <3>2
      <4> QED
        BY <3>1, <4>1, RankFacts
    <3>4. IsFiniteSet(Below(ends, e))
      BY <3>1, RankFacts
    <3>5. Below(ends, e) = {}
      BY <3>3, <3>4, FS_EmptySet
    <3>6. \E i \in ends : \A j \in ends : i <= j
      BY <3>1, <3>5 DEF Below
    <3>7. LineEnd(file, o) \in ends
      BY <2>2, <3>6 DEF LineEnd, ends
    <3> QED
      BY <3>7 DEF ends
  <2> QED
    BY <2>1, <2>2
<1>2. ASSUME NEW i \in 1..Len(file), file[i] = Newline PROVE LineEnd(file, i - 1) = i
  <2> DEFINE ends == {j \in (i - 1 + 1)..Len(file) : file[j] = Newline}
  <2>1. i \in ends /\ \A j \in ends : i <= j /\ j \in Int
    BY <1>2
  <2>2. LineEnd(file, i - 1) = CHOOSE j \in ends : \A k \in ends : j <= k
    BY <2>1 DEF LineEnd
  <2> QED
    BY <2>1, <2>2
<1> QED
  BY <1>1, <1>2

LineEntries == [offset : Nat, end : Nat]

\* Entries that are the lines of a file from an offset on.
AreLines(entries, file, start) ==
  LET n == Len(entries) IN
  /\ entries \in Seq(LineEntries)
  /\ n = 0 <=> start = Len(file)
  /\ n > 0 => entries[1].offset = start /\ entries[n].end = Len(file)
  /\ \A k \in 1..(n - 1) : entries[k].end = entries[k + 1].offset
  /\ \A k \in 1..n : /\ entries[k].end <= Len(file)
                     /\ \A i \in (entries[k].offset + 1)..(entries[k].end - 1) : file[i] # Newline

\* LinesFrom gives the lines.
LEMMA LinesFacts ==
  ASSUME NEW X, NEW file \in Seq(X), NEW start \in 0..Len(file)
  PROVE  AreLines(LinesFrom(file, start), file, start)
<1> DEFINE ends == {LineEnd(file, o) : o \in start..(Len(file) - 1)}
           n == Cardinality(ends)
           Nth(k) == CHOOSE e \in ends : Cardinality({d \in ends : d < e}) = k - 1
           rank(e) == Cardinality(Below(ends, e))
           entries == LinesFrom(file, start)
<1>1. \A o \in start..(Len(file) - 1) : LineEnd(file, o) \in (o + 1)..Len(file)
  BY LineEndFacts
<1>2. /\ ends \in SUBSET ((start + 1)..Len(file)) /\ ends \in SUBSET Int /\ Len(file) \in Nat
      /\ \A e \in ends : e \in Nat /\ start + 1 <= e /\ e <= Len(file)
  BY <1>1
<1>3. IsFiniteSet(ends)
  <2>1. IsFiniteSet((start + 1)..Len(file))
    BY FS_Interval
  <2> QED
    BY <1>2, <2>1, FS_Subset
<1>4. entries = [k \in 1..n |-> [offset |-> IF k = 1 THEN start ELSE Nth(k - 1), end |-> Nth(k)]]
  BY DEF LinesFrom
<1>5. start < Len(file) => Len(file) \in ends
  <2> SUFFICES ASSUME start < Len(file) PROVE Len(file) \in ends
    OBVIOUS
  <2>1. Len(file) - 1 \in start..(Len(file) - 1)
    OBVIOUS
  <2>2. LineEnd(file, Len(file) - 1) = Len(file)
    BY <1>1, <2>1
  <2> QED
    BY <2>1, <2>2
<1>6. \A i \in (start + 1)..Len(file) : file[i] = Newline => i \in ends
  <2> SUFFICES ASSUME NEW i \in (start + 1)..Len(file), file[i] = Newline PROVE i \in ends
    OBVIOUS
  <2>1. i - 1 \in start..(Len(file) - 1) /\ LineEnd(file, i - 1) = i
    BY LineEndFacts
  <2> QED
    BY <2>1
<1> HIDE DEF ends, entries
<1>7. /\ n \in Nat
      /\ \A e \in ends : rank(e) \in 0..(n - 1)
      /\ \A d, e \in ends : d < e => rank(d) < rank(e)
      /\ \A k \in 1..n : \E e \in ends : rank(e) = k - 1
  BY <1>2, <1>3, RankFacts
<1>8. \A k \in 1..n : Nth(k) \in ends /\ rank(Nth(k)) = k - 1
  BY <1>7 DEF Below
<1> HIDE DEF n, Nth, rank
<1>9. /\ entries \in Seq(LineEntries) /\ Len(entries) = n
      /\ \A k \in 1..n : entries[k] = [offset |-> IF k = 1 THEN start ELSE Nth(k - 1), end |-> Nth(k)]
  <2>1. \A k \in 1..n : Nth(k) \in Nat
    BY <1>2, <1>8
  <2>2. \A k \in 1..n : [offset |-> IF k = 1 THEN start ELSE Nth(k - 1), end |-> Nth(k)] \in LineEntries
    <3> SUFFICES ASSUME NEW k \in 1..n
                 PROVE  (IF k = 1 THEN start ELSE Nth(k - 1)) \in Nat /\ Nth(k) \in Nat
      BY DEF LineEntries
    <3>1. k # 1 => k - 1 \in 1..n
      BY <1>7
    <3> QED
      BY <2>1, <3>1
  <2> QED
    BY <1>4, <1>7, <2>2
<1>10. n = 0 <=> start = Len(file)
  <2>1. n = 0 <=> ends = {}
    BY <1>3, FS_EmptySet DEF n
  <2>2. start = Len(file) => ends = {}
    BY <1>2
  <2> QED
    BY <1>5, <2>1, <2>2
<1>11. n > 0 => Nth(n) = Len(file)
  <2> SUFFICES ASSUME n > 0, Nth(n) # Len(file) PROVE FALSE
    OBVIOUS
  <2>1. Nth(n) \in ends /\ rank(Nth(n)) = n - 1 /\ Len(file) \in ends
    BY <1>5, <1>7, <1>8, <1>10
  <2>2. Nth(n) < Len(file)
    <3>1. Nth(n) \in Nat /\ Nth(n) <= Len(file)
      BY <1>2, <2>1
    <3> QED
      BY <1>2, <3>1
  <2>3. rank(Nth(n)) < rank(Len(file)) /\ rank(Len(file)) \in 0..(n - 1)
    BY <1>7, <2>1, <2>2
  <2> QED
    BY <1>7, <2>1, <2>3
<1>12. ASSUME NEW k \in 1..n, NEW i \in (entries[k].offset + 1)..(entries[k].end - 1), file[i] = Newline
       PROVE  FALSE
  <2>1. entries[k].offset = (IF k = 1 THEN start ELSE Nth(k - 1)) /\ entries[k].end = Nth(k)
    BY <1>9
  <2>2. Nth(k) \in ends /\ rank(Nth(k)) = k - 1 /\ Nth(k) \in (start + 1)..Len(file)
    BY <1>2, <1>8
  <2>3. k # 1 => /\ Nth(k - 1) \in ends /\ rank(Nth(k - 1)) = k - 1 - 1
                 /\ Nth(k - 1) \in (start + 1)..Len(file)
    <3>1. k # 1 => k - 1 \in 1..n
      BY <1>7
    <3> QED
      BY <1>2, <1>8, <3>1
  <2>4. i \in (start + 1)..Len(file) /\ i < Nth(k) /\ (k # 1 => Nth(k - 1) < i)
    BY <2>1, <2>2, <2>3
  <2>5. i \in ends
    BY <1>6, <1>12, <2>4
  <2>6. rank(i) < k - 1 /\ rank(i) \in 0..(n - 1)
    BY <1>7, <2>2, <2>4, <2>5
  <2>7. k # 1 => k - 1 - 1 < rank(i)
    BY <1>7, <2>3, <2>4, <2>5
  <2> QED
    BY <1>7, <2>6, <2>7
<1>13. ASSUME NEW k \in 1..n PROVE entries[k].end <= Len(file)
  <2>1. entries[k].end = Nth(k)
    BY <1>9
  <2>2. Nth(k) <= Len(file)
    BY <1>2, <1>8
  <2> QED
    BY <2>1, <2>2
<1>14. \A k \in 1..(n - 1) : entries[k].end = entries[k + 1].offset
  BY <1>7, <1>9
<1>15. n > 0 => entries[1].offset = start /\ entries[n].end = Len(file)
  BY <1>7, <1>9, <1>11
<1> QED
  BY <1>9, <1>10, <1>12, <1>13, <1>14, <1>15 DEF AreLines, entries

\* The elements of a concatenation.
LEMMA JoinedFacts ==
  ASSUME NEW S, NEW s \in Seq(S), NEW t \in Seq(S)
  PROVE  /\ s \o t \in Seq(S) /\ Len(s \o t) = Len(s) + Len(t)
         /\ \A k \in 1..Len(s) : (s \o t)[k] = s[k]
         /\ \A k \in 1..Len(t) : (s \o t)[Len(s) + k] = t[k]
         /\ \A x \in ToSet(s \o t) : x \in ToSet(s) \/ x \in ToSet(t)
<1>1. /\ s \o t \in Seq(S) /\ Len(s \o t) = Len(s) + Len(t)
      /\ DOMAIN (s \o t) = 1..(Len(s) + Len(t)) /\ Len(s) \in Nat /\ Len(t) \in Nat
  OBVIOUS
<1>2. \A k \in 1..Len(s) : (s \o t)[k] = s[k]
  OBVIOUS
<1>3. \A k \in 1..Len(t) : (s \o t)[Len(s) + k] = t[k]
  OBVIOUS
<1>4. ASSUME NEW x \in ToSet(s \o t) PROVE x \in ToSet(s) \/ x \in ToSet(t)
  <2>1. PICK k \in 1..(Len(s) + Len(t)) : x = (s \o t)[k]
    BY <1>1, <1>4 DEF ToSet
  <2>2. CASE k <= Len(s)
    <3>1. k \in 1..Len(s)
      BY <1>1, <2>2
    <3> QED
      BY <1>2, <2>1, <3>1 DEF ToSet
  <2>3. CASE k > Len(s)
    <3>1. k - Len(s) \in 1..Len(t) /\ Len(s) + (k - Len(s)) = k
      BY <1>1, <2>3
    <3>2. x = t[k - Len(s)]
      BY <1>3, <2>1, <3>1
    <3> QED
      BY <3>1, <3>2 DEF ToSet
  <2> QED
    BY <1>1, <2>2, <2>3
<1> QED
  BY <1>1, <1>2, <1>3, <1>4

\* What read_log_tail returns: it fails on half a character, or the cursor is
\* the end of the file and the entries are its lines from the cursor on, or the
\* last of them.
LEMMA ReadLogTailFacts ==
  ASSUME NEW X, NEW file \in Seq(X), NEW cursor \in 0..Len(file), NEW lines \in Nat
  PROVE  LET read == ReadLogTail(file, cursor, lines)
             entries == LinesFrom(file, cursor)
         IN /\ read.failed \in BOOLEAN
            /\ read.failed => read.cursor = cursor /\ read.entries = <<>>
            /\ ~read.failed => read.cursor = Len(file)
            /\ read.entries \in Seq(LineEntries)
            /\ ~read.failed /\ Len(entries) <= lines => read.entries = entries
            /\ \A x \in ToSet(read.entries) : \E k \in 1..Len(entries) : x = entries[k]
<1> DEFINE read == ReadLogTail(file, cursor, lines)
           entries == LinesFrom(file, cursor)
           kept == IF Len(entries) > lines THEN SubSeq(entries, Len(entries) - lines + 1, Len(entries)) ELSE entries
<1>1. AreLines(entries, file, cursor)
  BY LinesFacts
<1> HIDE DEF entries
<1> DEFINE half == \E e \in ToSet(entries) : ~Utf8(file, e)
<1>0. read = IF half THEN [failed |-> TRUE, cursor |-> cursor, entries |-> <<>>]
             ELSE [failed |-> FALSE, cursor |-> IF entries = <<>> THEN cursor ELSE Last(entries).end, entries |-> kept]
  <2>1. cursor <= Len(file)
    OBVIOUS
  <2> QED
    BY <2>1 DEF ReadLogTail, entries
<1> HIDE DEF half
<1>7. CASE half
  <2>1. read = [failed |-> TRUE, cursor |-> cursor, entries |-> <<>>]
    BY <1>0, <1>7
  <2> HIDE DEF read
  <2>2. read.failed = TRUE /\ read.cursor = cursor /\ read.entries = <<>> /\ <<>> \in Seq(LineEntries)
    BY <2>1
  <2>3. \A x : x \notin ToSet(read.entries)
    BY <2>2 DEF ToSet
  <2> QED
    BY <2>2, <2>3 DEF read, entries
<1>8. CASE ~half
  <2>2. /\ read.failed = FALSE /\ read.entries = kept
        /\ read.cursor = IF entries = <<>> THEN cursor ELSE Last(entries).end
    BY <1>0, <1>8
  <2> HIDE DEF read
  <2>3. entries \in Seq(LineEntries) /\ Len(entries) \in Nat /\ (entries = <<>> <=> Len(entries) = 0)
    BY <1>1 DEF AreLines
  <2>4. read.cursor = Len(file)
    BY <1>1, <2>2, <2>3 DEF AreLines, Last
  <2>5. CASE Len(entries) > lines
    <3> DEFINE a == Len(entries) - lines + 1
    <3>1. a \in 1..(Len(entries) + 1)
      BY <2>3, <2>5
    <3>2. /\ kept = SubSeq(entries, a, Len(entries)) /\ kept \in Seq(LineEntries)
          /\ Len(kept) = lines /\ \A i \in 1..lines : kept[i] = entries[a + i - 1]
      BY <2>3, <2>5, <3>1
    <3>3. \A i \in 1..lines : a + i - 1 \in 1..Len(entries)
      BY <2>3, <2>5
    <3>4. \A x \in ToSet(kept) : \E k \in 1..Len(entries) : x = entries[k]
      <4> SUFFICES ASSUME NEW x \in ToSet(kept) PROVE \E k \in 1..Len(entries) : x = entries[k]
        OBVIOUS
      <4>1. PICK i \in DOMAIN kept : x = kept[i]
        BY DEF ToSet
      <4>2. i \in 1..lines
        BY <3>2, <4>1
      <4> QED
        BY <3>2, <3>3, <4>1, <4>2
    <3>5. kept \in Seq(LineEntries) /\ ~(Len(entries) <= lines)
      BY <2>3, <2>5, <3>2
    <3> HIDE DEF kept, a
    <3> QED
      BY <2>2, <2>4, <3>4, <3>5 DEF read, entries
  <2>6. CASE ~(Len(entries) > lines)
    <3>1. kept = entries
      BY <2>6
    <3>2. \A x \in ToSet(entries) : \E k \in 1..Len(entries) : x = entries[k]
      BY <2>3 DEF ToSet
    <3> QED
      BY <2>2, <2>3, <2>4, <3>1, <3>2 DEF read, entries
  <2> QED
    BY <2>5, <2>6
<1> QED
  BY <1>7, <1>8

\* log_tail for every file and every number of lines asked for: a client that
\* hands back its cursor goes on where it stopped, even in the middle of a
\* line, or where it was if the answer was an error for half a character at the
\* end of the file; it sees every byte once and in order as long as it keeps
\* up, and no entry runs over a newline.
THEOREM FollowsCorrect == \A X : \A lines \in Nat : FollowsFile(Seq(X), lines)
<1> SUFFICES ASSUME NEW X, NEW lines \in Nat, NEW file \in Seq(X), NEW n \in 0..Len(file)
             PROVE  LET first == ReadLogTail(SubSeq(file, 1, n), 0, lines)
                        second == ReadLogTail(file, first.cursor, lines)
                        all == first.entries \o second.entries
                    IN /\ first.cursor = IF first.failed THEN 0 ELSE n
                       /\ ~second.failed =>
                            /\ second.cursor = Len(file)
                            /\ /\ Len(LinesFrom(SubSeq(file, 1, n), 0)) <= lines
                               /\ Len(LinesFrom(file, first.cursor)) <= lines
                               => /\ \A k \in 1..(Len(all) - 1) : all[k].end = all[k + 1].offset
                                  /\ all # <<>> => all[1].offset = 0 /\ Last(all).end = Len(file)
                       /\ \A e \in ToSet(all) : \A i \in (e.offset + 1)..(e.end - 1) : file[i] # Newline
  BY DEF FollowsFile
<1> DEFINE before == SubSeq(file, 1, n)
           first == ReadLogTail(before, 0, lines)
           c == first.cursor
           second == ReadLogTail(file, c, lines)
           all == first.entries \o second.entries
           L == LinesFrom(before, 0)
           M == LinesFrom(file, c)
<1>1. before \in Seq(X) /\ Len(before) = n /\ 0 \in 0..Len(before) /\ \A i \in 1..n : before[i] = file[i]
  OBVIOUS
<1> HIDE DEF before
<1>3. /\ first.failed \in BOOLEAN /\ first.entries \in Seq(LineEntries)
      /\ first.failed => c = 0 /\ first.entries = <<>>
      /\ ~first.failed => c = n
      /\ ~first.failed /\ Len(L) <= lines => first.entries = L
      /\ \A x \in ToSet(first.entries) : \E k \in 1..Len(L) : x = L[k]
  BY <1>1, ReadLogTailFacts
<1>c. c \in 0..Len(file)
  BY <1>3
<1> HIDE DEF first, c
<1>2. AreLines(L, before, 0) /\ AreLines(M, file, c)
  BY <1>1, <1>c, LinesFacts
<1>4. /\ ~second.failed => second.cursor = Len(file)
      /\ second.entries \in Seq(LineEntries)
      /\ ~second.failed /\ Len(M) <= lines => second.entries = M
      /\ \A x \in ToSet(second.entries) : \E k \in 1..Len(M) : x = M[k]
  BY <1>c, ReadLogTailFacts, ZenonT(30)
<1> HIDE DEF L, M, second
<1>5. ASSUME ~second.failed, Len(L) <= lines, Len(M) <= lines
      PROVE  /\ \A k \in 1..(Len(all) - 1) : all[k].end = all[k + 1].offset
             /\ all # <<>> => all[1].offset = 0 /\ Last(all).end = Len(file)
  <2> DEFINE K == first.entries
             p == Len(K)
             q == Len(M)
  <2>0. \/ K = <<>> /\ c = 0
        \/ K = L /\ c = n
    BY <1>3, <1>5
  <2> HIDE DEF K
  <2>1. /\ K \in Seq(LineEntries) /\ M \in Seq(LineEntries) /\ p \in Nat /\ q \in Nat
        /\ p = 0 <=> c = 0
        /\ q = 0 <=> c = Len(file)
        /\ p > 0 => K[1].offset = 0 /\ K[p].end = c
        /\ q > 0 => M[1].offset = c /\ M[q].end = Len(file)
        /\ \A k \in 1..(p - 1) : K[k].end = K[k + 1].offset
        /\ \A k \in 1..(q - 1) : M[k].end = M[k + 1].offset
    <3>1. CASE K = <<>> /\ c = 0
      BY <1>2, <3>1 DEF AreLines
    <3>2. CASE K = L /\ c = n
      BY <1>1, <1>2, <3>2 DEF AreLines
    <3> QED
      BY <2>0, <3>1, <3>2
  <2>2. /\ all = K \o M /\ Len(all) = p + q /\ all \in Seq(LineEntries)
        /\ \A k \in 1..p : all[k] = K[k]
        /\ \A k \in 1..q : all[p + k] = M[k]
    <3>1. all = K \o M
      BY <1>4, <1>5 DEF K
    <3> QED
      BY <2>1, <3>1, JoinedFacts
  <2> HIDE DEF p, q, all
  <2>3. ASSUME NEW k \in 1..(Len(all) - 1) PROVE all[k].end = all[k + 1].offset
    <3>0. k \in 1..(p + q - 1)
      BY <2>1, <2>2
    <3>1. CASE k < p
      <4>1. k \in 1..p /\ k + 1 \in 1..p /\ k \in 1..(p - 1)
        BY <2>1, <3>0, <3>1
      <4>2. all[k] = K[k] /\ all[k + 1] = K[k + 1]
        BY <2>2, <4>1
      <4> QED
        BY <2>1, <4>1, <4>2
    <3>2. CASE k = p
      <4>1. p > 0 /\ q > 0 /\ 1 \in 1..q /\ p \in 1..p
        BY <2>1, <3>0, <3>2
      <4>2. all[p] = K[p] /\ all[p + 1] = M[1]
        BY <2>2, <4>1
      <4> QED
        BY <2>1, <3>2, <4>1, <4>2
    <3>3. CASE k > p
      <4> DEFINE j == k - p
      <4>1. j \in 1..(q - 1) /\ j + 1 \in 1..q /\ j \in 1..q /\ p + j = k /\ p + (j + 1) = k + 1
        BY <2>1, <3>0, <3>3
      <4> HIDE DEF j
      <4>2. all[k] = M[j] /\ all[k + 1] = M[j + 1]
        BY <2>2, <4>1
      <4> QED
        BY <2>1, <4>1, <4>2
    <3> QED
      BY <2>1, <3>0, <3>1, <3>2, <3>3
  <2>4. ASSUME all # <<>> PROVE all[1].offset = 0 /\ Last(all).end = Len(file)
    <3>1. Len(all) > 0 /\ Last(all) = all[Len(all)]
      BY <2>1, <2>2, <2>4 DEF Last
    <3>2. all[1].offset = 0
      <4>1. CASE p > 0
        <5>1. 1 \in 1..p
          BY <2>1, <4>1
        <5> QED
          BY <2>1, <2>2, <4>1, <5>1
      <4>2. CASE p = 0
        <5>1. q > 0 /\ 1 \in 1..q /\ p + 1 = 1 /\ c = 0
          BY <2>1, <2>2, <3>1, <4>2
        <5> QED
          BY <2>1, <2>2, <5>1
      <4> QED
        BY <2>1, <4>1, <4>2
    <3>3. all[Len(all)].end = Len(file)
      <4>1. CASE q > 0
        <5>1. q \in 1..q
          BY <2>1, <4>1
        <5> QED
          BY <2>1, <2>2, <4>1, <5>1
      <4>2. CASE q = 0
        <5>1. p > 0 /\ p \in 1..p /\ Len(all) = p /\ c = Len(file)
          BY <2>1, <2>2, <3>1, <4>2
        <5> QED
          BY <2>1, <2>2, <5>1
      <4> QED
        BY <2>1, <4>1, <4>2
    <3> QED
      BY <3>1, <3>2, <3>3
  <2> QED
    BY <2>3, <2>4
<1>6. ASSUME NEW e \in ToSet(all), NEW i \in (e.offset + 1)..(e.end - 1) PROVE file[i] # Newline
  <2>1. e \in ToSet(first.entries) \/ e \in ToSet(second.entries)
    BY <1>3, <1>4, <1>6, JoinedFacts
  <2>2. CASE e \in ToSet(first.entries)
    <3>1. PICK k \in 1..Len(L) : e = L[k]
      BY <1>3, <2>2
    <3>2. e \in LineEntries /\ e.end <= n /\ before[i] # Newline
      BY <1>1, <1>2, <1>6, <3>1 DEF AreLines
    <3>3. i \in 1..n
      BY <1>6, <3>2 DEF LineEntries
    <3> QED
      BY <1>1, <3>2, <3>3
  <2>3. CASE e \in ToSet(second.entries)
    <3>1. PICK k \in 1..Len(M) : e = M[k]
      BY <1>4, <2>3
    <3> QED
      BY <1>2, <1>6, <3>1 DEF AreLines
  <2> QED
    BY <2>1, <2>2, <2>3
<1> QED
  BY <1>3, <1>4, <1>5, <1>6 DEF first, c, second, all, L, M, before
=============================================================================
