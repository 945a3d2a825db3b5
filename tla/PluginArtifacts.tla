-------------------------- MODULE PluginArtifacts ---------------------------
(***************************************************************************)
(* From an installed plugin artifact to the code the Core runs: the scan   *)
(* of the plugin directories (mutsuki-service-plugin-loader/src/lib.rs),   *)
(* the staging of ABI artifacts into a directory named after their hash    *)
(* (abi_plugin/staging.rs), loading and handshake (abi_plugin.rs) and the  *)
(* assembly of a Core from the selected records (runtime lib.rs,           *)
(* runtime_bootstrapper), at boot and at every reload.  The scan checks    *)
(* the hash of the source, the staged copy is never hashed, and fs::copy   *)
(* is not atomic.  Reloads of several connections run beside each other    *)
(* (their mutate_lock is one of the connection), an operator upgrades and  *)
(* quarantines plugins, and the process crashes.  Which deployment of a    *)
(* plugin is selected is PluginDeployment's business.                      *)
(***************************************************************************)
EXTENDS Naturals, FiniteSets, Sequences

CONSTANTS
  PluginDirs,  \* plugin directories
  PluginOf,    \* the plugin id each of them declares
  Versions,    \* contents of an artifact, named by their hash
  Selected,    \* plugins the configuration enables
  Loaders,     \* connections that reload; one of them stands for the boot
  MaxUpgrades, \* bound: changes the operator makes
  MaxCrashes   \* bound: crashes

Missing == "missing"

Torn == "torn"        \* what an interrupted copy leaves

ASSUME ArtifactAssumption ==
  /\ IsFiniteSet(PluginDirs)
  /\ Missing \notin Versions /\ Torn \notin Versions
  /\ MaxUpgrades \in Nat /\ MaxCrashes \in Nat

\* PluginDeploymentKind::default_for_artifact.
DeploymentOf(type) == IF type = "native" THEN "builtin" ELSE type

CandidateKey(record) == <<record.plugin, DeploymentOf(record.type)>>

\* read_plugin_manifest and validate_manifest: a readable plugin.toml of the
\* supported api_version, without a secret in the environment it declares.
ManifestValid(record) == record.state = "valid"

\* resolve_abi_contract: exactly one ABI backend, with a codec and bridge of
\* HOST_ABI_INVENTORY.
HostAbiInventory == {"v1", "v2"}

ContractKnown(record) == Len(record.backends) = 1 /\ record.backends[1] \in HostAbiInventory

\* validate_abi_artifact: the artifact lies in the plugin's directory and has
\* the declared hash.
ArtifactValid(record, content) ==
  /\ ManifestValid(record)
  /\ record.type # "native"
  /\ record.type = "abi" => ContractKnown(record) /\ content = record.sha

\* BuiltinRegistry::load_all: what the executable registered, one manifest for
\* a plugin id; an invalid one is an error and not a diagnostic.
Builtin(manifests) == {[m EXCEPT !.entry = "builtin"] : m \in {n \in manifests : ManifestValid(n)}}

\* PluginInventory::scan: an invalid, quarantined or native artifact gets a
\* diagnostic; of several with one key none is kept, and the key gets one.
Scan(builtin, found, contents, disabled) ==
  LET valid == {e \in DOMAIN found : /\ found[e].plugin \notin disabled
                                     /\ ArtifactValid(found[e], contents[e])}
      all == builtin \cup {[found[e] EXCEPT !.entry = e] : e \in valid}
      alone == {r \in all : \A s \in all : CandidateKey(s) = CandidateKey(r) => s = r}
  IN [records |-> alone,
      diagnostics |-> DOMAIN found \ valid,
      ambiguous |-> {CandidateKey(r) : r \in all \ alone}]

\* is_bootable_record, register_stdio_runners and sidecar_specs: who runs the
\* runners of a record, the Core itself or the supervisor.
Bootable(record) == record.link \in {"none", "jsonl-stdio"}

CoreSpawns(record) == Bootable(record) /\ record.link = "jsonl-stdio" /\ record.runners > 0

Supervised(record) ==
  /\ record.type \in {"process", "python"} /\ record.link # "none"
  /\ ~(record.link = "jsonl-stdio" /\ record.runners > 0)

\* The scan of any directories keeps each deployment of a plugin at most once,
\* keeps nothing invalid or quarantined, and explains every directory it does
\* not keep, by a diagnostic of its own or by one for its key.
ScanSound(founds, contents, quarantines) ==
  \A found \in founds, disabled \in quarantines :
    LET builtin == Builtin({[entry |-> "none", plugin |-> "p", type |-> "native", sha |-> "v1", state |-> "valid",
                             backends |-> <<>>, link |-> "none", runners |-> 1]})
        result == Scan(builtin, found, contents, disabled)
        kept == {r.entry : r \in result.records}
    IN /\ \A r, s \in result.records : CandidateKey(r) = CandidateKey(s) => r = s
       /\ \A e \in kept \ {"builtin"} : found[e].plugin \notin disabled /\ ArtifactValid(found[e], contents[e])
       /\ \A e \in DOMAIN found :
            IF e \in kept THEN e \notin result.diagnostics
            ELSE e \in result.diagnostics \/ CandidateKey(found[e]) \in result.ambiguous

\* A sidecar has one master: no runner is both spawned by the Core and run by
\* the supervisor, and every process artifact with a link has one of the two.
RunnerHostedOnce(records) ==
  \A r \in records :
    /\ ~(CoreSpawns(r) /\ Supervised(r))
    /\ r.type \in {"process", "python"} /\ r.link # "none" => CoreSpawns(r) \/ Supervised(r)

-----------------------------------------------------------------------------
VARIABLES
  paSha,       \* the hash in each plugin.toml
  paContent,   \* the artifact beside it
  paDisabled,  \* quarantined plugins
  paStaged,    \* the staging directory
  paBoot,      \* how far each boot or reload is
  paPlan,      \* the records it has still to load
  paNew,       \* the libraries it has opened
  paServing,   \* what the running Core was assembled from
  paChanged,   \* targets whose source was replaced between scan and copy
  paHalf,      \* targets of which a copy was broken off
  paShared,    \* targets a load came to while another was about to write them
  paUpgrades,
  paCrashes

paVars == <<paSha, paContent, paDisabled, paStaged, paBoot, paPlan, paNew, paServing,
            paChanged, paHalf, paShared, paUpgrades, paCrashes>>

operator == <<paSha, paContent, paDisabled, paUpgrades>>

loads == <<paBoot, paPlan, paNew, paServing>>

taints == <<paChanged, paHalf, paShared>>

Record(e) == [entry |-> e, plugin |-> PluginOf[e], type |-> "abi", sha |-> paSha[e], state |-> "valid",
              backends |-> <<"v2">>, link |-> "none", runners |-> 1]

Loads == [plugin : Selected, sha : Versions, content : Versions \cup {Torn}]

\* The staged file of an artifact: run/abi/<plugin>/<hash>/<file>.
Targets == Selected \X Versions

\* Mutant: the directory is named after the plugin only.
StageTarget_ByPlugin(plugin, sha) == <<plugin, "v1">>

StageTarget(plugin, sha) == <<plugin, sha>>

ArtifactTypeOK ==
  /\ paSha \in [PluginDirs -> Versions] /\ paContent \in [PluginDirs -> Versions \cup {Missing}]
  /\ paDisabled \subseteq Selected
  /\ paStaged \in [Targets -> Versions \cup {Missing, Torn}]
  /\ paBoot \in [Loaders -> {"idle", "next", "create", "copy", "open", "handshake"}]
  /\ DOMAIN paPlan = Loaders /\ \A l \in Loaders : \A r \in paPlan[l] : r.plugin \in Selected
  /\ paNew \in [Loaders -> SUBSET Loads] /\ paServing \subseteq Loads
  /\ paChanged \cup paHalf \cup paShared \subseteq Targets
  /\ paUpgrades \in 0..MaxUpgrades /\ paCrashes \in 0..MaxCrashes

ArtifactInit ==
  /\ paSha \in [PluginDirs -> Versions] /\ paContent = paSha
  /\ paDisabled = {} /\ paStaged = [t \in Targets |-> Missing]
  /\ paBoot = [l \in Loaders |-> "idle"] /\ paPlan = [l \in Loaders |-> {}]
  /\ paNew = [l \in Loaders |-> {}] /\ paServing = {}
  /\ paChanged = {} /\ paHalf = {} /\ paShared = {} /\ paUpgrades = 0 /\ paCrashes = 0

-----------------------------------------------------------------------------
\* The operator: an upgrade replaces the artifact and the manifest, in either
\* order; a file in the disabled directory quarantines a plugin.
ReplaceArtifact(e, v) ==
  /\ paUpgrades < MaxUpgrades /\ paUpgrades' = paUpgrades + 1
  /\ v # paContent[e] /\ paContent' = [paContent EXCEPT ![e] = v]
  /\ UNCHANGED <<paSha, paDisabled, paStaged, loads, taints, paCrashes>>

RewriteManifest(e, v) ==
  /\ paUpgrades < MaxUpgrades /\ paUpgrades' = paUpgrades + 1
  /\ v # paSha[e] /\ paSha' = [paSha EXCEPT ![e] = v]
  /\ UNCHANGED <<paContent, paDisabled, paStaged, loads, taints, paCrashes>>

Quarantine(p) ==
  /\ paUpgrades < MaxUpgrades /\ paUpgrades' = paUpgrades + 1
  /\ paDisabled' = paDisabled \cup {p}
  /\ UNCHANGED <<paSha, paContent, paStaged, loads, taints, paCrashes>>

-----------------------------------------------------------------------------
Goes(l, pc, plan, new) ==
  /\ paBoot' = [paBoot EXCEPT ![l] = pc]
  /\ paPlan' = [paPlan EXCEPT ![l] = plan]
  /\ paNew' = [paNew EXCEPT ![l] = new]

\* An error anywhere: a failed boot ends the process, a failed reload leaves
\* the Core that runs.
GiveUp(l) == Goes(l, "idle", {}, {}) /\ UNCHANGED paServing

\* load_catalog: every selected plugin needs exactly one candidate.  Before
\* there is a Core there is no one who could ask for a reload.
ScanInventory(l) ==
  LET found == [e \in PluginDirs |-> Record(e)]
      records == Scan({}, found, paContent, paDisabled).records
  IN /\ paBoot[l] = "idle"
     /\ paServing # {} \/ \A m \in Loaders : paBoot[m] = "idle"
     /\ \A p \in Selected : Cardinality({r \in records : r.plugin = p}) = 1
     /\ Goes(l, "next", {r \in records : r.plugin \in Selected}, {})
     /\ UNCHANGED <<operator, paStaged, paServing, taints, paCrashes>>

TargetOf(r) == StageTarget(r.plugin, r.sha)

\* The record being loaded: the first of the plan.  Its order does not matter.
Loading(l) == CHOOSE r \in paPlan[l] : TRUE

Target(l) == TargetOf(Loading(l))

\* A load that found no file and has not written all of it.
Writing(l, t) == paBoot[l] \in {"create", "copy"} /\ Target(l) = t

\* Mutant: the artifact is copied at every load.
BeginStage_Overwrites(l) ==
  /\ paBoot[l] = "next" /\ paPlan[l] # {}
  /\ Goes(l, "create", paPlan[l], paNew[l])
  /\ paShared' = IF \E m \in Loaders : Writing(m, Target(l)) THEN paShared \cup {Target(l)}
                 ELSE paShared
  /\ UNCHANGED <<operator, paStaged, paServing, paChanged, paHalf, paCrashes>>

\* stage_artifact: is_file; an existing target is taken as it is.
BeginStage(l) ==
  /\ paBoot[l] = "next" /\ paPlan[l] # {}
  /\ Goes(l, IF paStaged[Target(l)] = Missing THEN "create" ELSE "open", paPlan[l], paNew[l])
  /\ paShared' = IF \E m \in Loaders : Writing(m, Target(l)) THEN paShared \cup {Target(l)}
                 ELSE paShared
  /\ UNCHANGED <<operator, paStaged, paServing, paChanged, paHalf, paCrashes>>

\* fs::copy opens the source and creates the target, or empties it.
CreateTarget(l) ==
  /\ paBoot[l] = "create" /\ paContent[Loading(l).entry] # Missing
  /\ Goes(l, "copy", paPlan[l], paNew[l])
  /\ paStaged' = [paStaged EXCEPT ![Target(l)] = Torn]
  /\ UNCHANGED <<operator, paServing, taints, paCrashes>>

\* The rest of fs::copy.  A source that was removed since then is still open.
CopyArtifact(l, v) ==
  /\ paBoot[l] = "copy" /\ paContent[Loading(l).entry] \in {v, Missing}
  /\ paStaged' = [paStaged EXCEPT ![Target(l)] = v]
  /\ paChanged' = IF v = Loading(l).sha THEN paChanged ELSE paChanged \cup {Target(l)}
  /\ Goes(l, "open", paPlan[l], paNew[l])
  /\ UNCHANGED <<operator, paServing, paHalf, paShared, paCrashes>>

\* The source is gone, or cannot be read, or the target cannot be written;
\* what was written stays.
CopyFails(l) ==
  /\ paBoot[l] \in {"create", "copy"}
  /\ paHalf' = IF paBoot[l] = "copy" THEN paHalf \cup {Target(l)} ELSE paHalf
  /\ GiveUp(l)
  /\ UNCHANGED <<operator, paStaged, paChanged, paShared, paCrashes>>

\* Library::new and the entry symbol, which may fail for any file: nothing
\* looks at the hash again, and half a library may be loaded or refused.
OpenStaged(l) ==
  /\ paBoot[l] = "open"
  /\ \/ GiveUp(l)
     \/ /\ Goes(l, "handshake", paPlan[l] \ {Loading(l)},
                paNew[l] \cup {[plugin |-> Loading(l).plugin, sha |-> Loading(l).sha,
                                content |-> paStaged[Target(l)]]})
        /\ UNCHANGED paServing
  /\ UNCHANGED <<operator, paStaged, taints, paCrashes>>

\* initialize and validate_initialized_plugin: the plugin may refuse its
\* configuration, and its manifest is compared without the artifact, so
\* another version may pass or may not.
Handshake(l) ==
  /\ paBoot[l] = "handshake"
  /\ \/ GiveUp(l)
     \/ Goes(l, "next", paPlan[l], paNew[l]) /\ UNCHANGED paServing
  /\ UNCHANGED <<operator, paStaged, taints, paCrashes>>

\* into_host_runtime, or the swap at the end of a reload, which may refuse.
Assemble(l) ==
  /\ paBoot[l] = "next" /\ paPlan[l] = {}
  /\ \/ GiveUp(l)
     \/ Goes(l, "idle", {}, {}) /\ paServing' = paNew[l]
  /\ UNCHANGED <<operator, paStaged, taints, paCrashes>>

CrashHost ==
  /\ paServing # {} \/ \E l \in Loaders : paBoot[l] # "idle"
  /\ paCrashes < MaxCrashes /\ paCrashes' = paCrashes + 1
  /\ paHalf' = paHalf \cup {Target(l) : l \in {m \in Loaders : paBoot[m] = "copy"}}
  /\ paBoot' = [l \in Loaders |-> "idle"] /\ paPlan' = [l \in Loaders |-> {}]
  /\ paNew' = [l \in Loaders |-> {}] /\ paServing' = {}
  /\ UNCHANGED <<operator, paStaged, paChanged, paShared>>

ArtifactNext ==
  \/ \E e \in PluginDirs, v \in Versions \cup {Missing} : ReplaceArtifact(e, v)
  \/ \E e \in PluginDirs, v \in Versions : RewriteManifest(e, v)
  \/ \E p \in Selected : Quarantine(p)
  \/ \E l \in Loaders :
       \/ ScanInventory(l) \/ BeginStage(l) \/ CreateTarget(l)
       \/ \E v \in Versions : CopyArtifact(l, v)
       \/ CopyFails(l) \/ OpenStaged(l) \/ Handshake(l) \/ Assemble(l)
  \/ CrashHost

ArtifactSpec == ArtifactInit /\ [][ArtifactNext]_paVars

-----------------------------------------------------------------------------
\* The Core runs what the manifests declare: every ABI plugin it was assembled
\* from has the content whose hash its record was scanned with, whatever was
\* upgraded and staged before.  It can have another version only where the
\* source was replaced between the scan and the copy of this very target, and
\* half a file only where a copy of this target was broken off or another load
\* was writing it: the staged file is not verified.  The Core has every
\* selected plugin, once.
StagedArtifactVerified ==
  /\ \A l \in paServing :
       LET t == StageTarget(l.plugin, l.sha) IN
       \/ l.content = l.sha
       \/ t \in paChanged
       \/ l.content = Torn /\ t \in paHalf \cup paShared
  /\ paServing # {} => \A p \in Selected : Cardinality({l \in paServing : l.plugin = p}) = 1

\* No upgrade, reload or crash rewrites the file of a library that is mapped,
\* because an existing target is never copied to; two loads that both found
\* none, and so both copy, are the exception.
MappedFileKept ==
  \A l \in paServing \cup UNION {paNew[m] : m \in Loaders} :
    LET t == StageTarget(l.plugin, l.sha) IN paStaged[t] = l.content \/ t \in paShared
=============================================================================
