-------------------------- MODULE PluginDeployment --------------------------
(***************************************************************************)
(* Deployment preferences and plugin reload:                               *)
(* crates/mutsuki-service-runtime/src/lib.rs, change_plugin_deployment,    *)
(* plugin_reload, reload_catalog, save_deployment_state, resolve_catalog.  *)
(*                                                                         *)
(* Every control connection runs at most one mutating request at a time    *)
(* (mutate_lock), so a request is named by its connection.  Requests of    *)
(* different connections interleave wherever no mutex is held across both  *)
(* steps.  A request is aborted only where it awaits: while the new        *)
(* generation is prepared and while the sidecars are reconciled.  The      *)
(* process may crash anywhere and is then started again from its files.    *)
(***************************************************************************)
EXTENDS Naturals, FiniteSets

CONSTANTS
  Conns,          \* control connections
  Plugins,        \* the enabled ids of plugins.configured
  Candidates,     \* the deployments found for each plugin, one record per kind
  SurfaceDiffers, \* <<plugin, kind>> whose business surface is not the builtin's
  MaxGeneration,  \* bound: Core generations explored
  Missing,        \* content of a file that does not exist
  Garbled,        \* content of a file that does not parse
  NoCore          \* host_runtime is None

Kinds == {"builtin", "abi", "process"}

Preference == [Plugins -> Kinds \cup {"none"}]

Choice == [Plugins -> Kinds]

Generation == [gen : Nat, chosen : Choice]

ASSUME DeploymentAssumption ==
  /\ Candidates \in [Plugins -> SUBSET Kinds]
  /\ SurfaceDiffers \subseteq Plugins \X Kinds
  /\ MaxGeneration \in Nat
  /\ Missing \notin Preference /\ Garbled \notin Preference
  /\ Missing \notin Generation /\ Garbled \notin Generation
  /\ NoCore \notin Generation
  /\ Missing # Garbled

VARIABLES
  disk,      \* plugin-deployments.json
  temp,      \* plugin-deployments.json.pending
  lock,      \* runtime.lock.json
  up,        \* the service process runs
  memory,    \* deployment_state
  core,      \* host_runtime: generation and choice of the running Core
  catalog,   \* the ServiceHost catalog: the chosen deployment of each plugin
  req,       \* the request of each connection
  interrupted, \* history: a change was aborted or met a failing file operation
  lockFailed   \* history: reading, writing or restoring runtime.lock.json failed

vars == <<disk, temp, lock, up, memory, core, catalog, req, interrupted, lockFailed>>

Empty == [p \in Plugins |-> "none"]

-----------------------------------------------------------------------------
(* resolve_catalog                                                         *)

Chosen(p, k) ==
  CASE k # "none" -> k
    [] k = "none" /\ Cardinality(Candidates[p]) = 1 -> CHOOSE c \in Candidates[p] : TRUE
    [] OTHER -> "builtin"

Selectable(p, k) ==
  /\ Chosen(p, k) \in Candidates[p]
  /\ k = "none" /\ Cardinality(Candidates[p]) > 1 => Candidates[p] \subseteq {"builtin", "abi"}
  /\ Chosen(p, k) # "builtin" /\ "builtin" \in Candidates[p]
       => <<p, Chosen(p, k)>> \notin SurfaceDiffers

Resolvable(pref) == \A p \in Plugins : Selectable(p, pref[p])

Resolve(pref) == [p \in Plugins |-> Chosen(p, pref[p])]

(* load_deployment_state: a missing file is the empty preference.          *)
Loaded(file) == IF file = Missing THEN Empty ELSE file

-----------------------------------------------------------------------------
(* A request: where it is, whether it changes a preference or only reloads, *)
(* whether it is restoring the old preference, the preferences before and   *)
(* after the change, and the generation and the lock file it has read.      *)
Steps == {"idle", "write", "check", "remove", "rename", "generation", "prepare",
          "lock", "swap", "catalog", "reconcile", "commit"}

NoRequest == [pc |-> "idle", change |-> FALSE, restoring |-> FALSE, previous |-> Empty,
              next |-> Empty, gen |-> 0, oldLock |-> Missing]

Requests == [pc : Steps, change : BOOLEAN, restoring : BOOLEAN, previous : Preference,
             next : Preference, gen : Nat, oldLock : Generation \cup {Missing, Garbled}]

Saving(c) == IF req[c].restoring THEN req[c].previous ELSE req[c].next

TypeOK ==
  /\ disk \in Preference \cup {Missing, Garbled}
  /\ temp \in Preference \cup {Missing, Garbled}
  /\ lock \in Generation \cup {Missing, Garbled}
  /\ up \in BOOLEAN
  /\ memory \in Preference
  /\ core \in Generation \cup {NoCore}
  /\ catalog \in Choice
  /\ req \in [Conns -> Requests]
  /\ interrupted \in BOOLEAN
  /\ lockFailed \in BOOLEAN

(* The service has never run.                                              *)
Init ==
  /\ disk = Missing
  /\ temp = Missing
  /\ lock = Missing
  /\ up = FALSE
  /\ memory = Empty
  /\ core = NoCore
  /\ catalog = [p \in Plugins |-> "builtin"]
  /\ req = [c \in Conns |-> NoRequest]
  /\ interrupted = FALSE
  /\ lockFailed = FALSE

fileVars == <<disk, temp, lock>>

serviceVars == <<up, memory, core, catalog>>

history == <<interrupted, lockFailed>>

At(c, step) == up /\ req[c].pc = step

Goto(c, step) == req' = [req EXCEPT ![c].pc = step]

(* ServiceRuntimeBuilder::start with boot_core: nothing else runs yet.  A  *)
(* file that does not parse or a preference that does not resolve is an    *)
(* error, and the service does not start.                                  *)
Boot ==
  /\ ~up
  /\ disk # Garbled
  /\ Resolvable(Loaded(disk))
  /\ up' = TRUE
  /\ memory' = Loaded(disk)
  /\ catalog' = Resolve(Loaded(disk))
  /\ core' = [gen |-> 0, chosen |-> Resolve(Loaded(disk))]
  /\ lock' = core'
  /\ interrupted' = FALSE
  /\ lockFailed' = FALSE
  /\ UNCHANGED <<disk, temp, req>>

(* boot_core fails although the preference resolves: a plugin does not     *)
(* load, the Core refuses its plan, or the lock file cannot be written.    *)
BootFails ==
  /\ ~up
  /\ disk # Garbled
  /\ Resolvable(Loaded(disk))
  /\ lock' \in {lock, Garbled}
  /\ UNCHANGED <<disk, temp, serviceVars, req, history>>

(* The process ends, at any point of any request.                          *)
Crash ==
  /\ up
  /\ up' = FALSE
  /\ core' = NoCore
  /\ req' = [c \in Conns |-> NoRequest]
  /\ UNCHANGED <<fileVars, memory, catalog, history>>

(* ServiceRuntime::shutdown takes the Core while connections still run.    *)
TakeCore ==
  /\ up
  /\ core # NoCore
  /\ core' = NoCore
  /\ UNCHANGED <<fileVars, up, memory, catalog, req, history>>

-----------------------------------------------------------------------------
(* change_plugin_deployment and plugin_reload, up to their first effect.   *)

\* Mutant: the new preference is saved before it is resolved.
BeginChange_Unchecked(c, p, k) ==
  /\ At(c, "idle")
  /\ LET next == [memory EXCEPT ![p] = k] IN
       req' = [req EXCEPT ![c] = [NoRequest EXCEPT !.pc = "write", !.change = TRUE,
                 !.previous = memory, !.next = next]]
  /\ UNCHANGED <<fileVars, serviceVars, history>>

\* Mutant: the requested kind is not parsed into a PluginDeploymentKind.
BeginChange_AnyKind(c, p, k) ==
  /\ At(c, "idle")
  /\ LET next == [memory EXCEPT ![p] = "wasm"] IN
       req' = [req EXCEPT ![c] = [NoRequest EXCEPT !.pc = "write", !.change = TRUE,
                 !.previous = memory, !.next = next]]
  /\ UNCHANGED <<fileVars, serviceVars, history>>

(* plugin_deployment_set, and plugin_deployment_clear for k = "none".  A   *)
(* preference that does not resolve is refused and changes nothing.        *)
BeginChange(c, p, k) ==
  /\ At(c, "idle")
  /\ LET next == [memory EXCEPT ![p] = k] IN
       /\ Resolvable(next)
       /\ req' = [req EXCEPT ![c] = [NoRequest EXCEPT !.pc = "write", !.change = TRUE,
                    !.previous = memory, !.next = next]]
  /\ UNCHANGED <<fileVars, serviceVars, history>>

BeginReload(c) ==
  /\ At(c, "idle")
  /\ Resolvable(memory)
  /\ req' = [req EXCEPT ![c] = [NoRequest EXCEPT !.pc = "generation", !.previous = memory,
                                                 !.next = memory]]
  /\ UNCHANGED <<fileVars, serviceVars, history>>

-----------------------------------------------------------------------------
(* save_deployment_state: write the pending file, remove the old one,      *)
(* rename.  An error makes the request return without undoing anything.    *)

SaveWrite(c) ==
  /\ At(c, "write")
  /\ temp' = Saving(c)
  /\ Goto(c, "check")
  /\ UNCHANGED <<disk, lock, serviceVars, history>>

SaveWriteFails(c) ==
  /\ At(c, "write")
  /\ temp' \in {temp, Garbled}
  /\ req' = [req EXCEPT ![c] = NoRequest]
  /\ interrupted' = TRUE
  /\ UNCHANGED <<disk, lock, serviceVars, lockFailed>>

SaveCheck(c) ==
  /\ At(c, "check")
  /\ Goto(c, IF disk = Missing THEN "rename" ELSE "remove")
  /\ UNCHANGED <<fileVars, serviceVars, history>>

SaveRemove(c) ==
  /\ At(c, "remove")
  /\ disk # Missing
  /\ disk' = Missing
  /\ Goto(c, "rename")
  /\ UNCHANGED <<temp, lock, serviceVars, history>>

(* Another connection removed the file since it was seen, or the file      *)
(* system refuses.                                                         *)
SaveRemoveFails(c) ==
  /\ At(c, "remove")
  /\ req' = [req EXCEPT ![c] = NoRequest]
  /\ interrupted' = TRUE
  /\ UNCHANGED <<fileVars, serviceVars, lockFailed>>

(* The first save is followed by the reload, the restoring one ends the    *)
(* request.                                                                *)
SaveRename(c) ==
  /\ At(c, "rename")
  /\ temp # Missing
  /\ disk' = temp
  /\ temp' = Missing
  /\ IF req[c].restoring
       THEN req' = [req EXCEPT ![c] = NoRequest] /\ interrupted' = FALSE
       ELSE Goto(c, "generation") /\ UNCHANGED interrupted
  /\ UNCHANGED <<lock, serviceVars, lockFailed>>

(* Another connection renamed the pending file first, or the file system   *)
(* refuses: the old file is gone already.                                  *)
SaveRenameFails(c) ==
  /\ At(c, "rename")
  /\ req' = [req EXCEPT ![c] = NoRequest]
  /\ interrupted' = TRUE
  /\ UNCHANGED <<fileVars, serviceVars, lockFailed>>

-----------------------------------------------------------------------------
(* reload_catalog                                                          *)

\* Mutant: a failed reload keeps the preference that was saved for it.
ReloadFailed_KeepsSaved(c) == req' = [req EXCEPT ![c] = NoRequest]

(* A failed reload ends a plugin_reload; a change saves the old preference *)
(* again.                                                                  *)
ReloadFailed(c) ==
  req' = [req EXCEPT ![c] = IF @.change THEN [@ EXCEPT !.pc = "write", !.restoring = TRUE]
                                        ELSE NoRequest]

ReadGeneration(c) ==
  /\ At(c, "generation")
  /\ IF core = NoCore
       THEN ReloadFailed(c)
       ELSE /\ core.gen < MaxGeneration
            /\ req' = [req EXCEPT ![c].pc = "prepare", ![c].gen = core.gen + 1]
  /\ UNCHANGED <<fileVars, serviceVars, history>>

(* runtime_bootstrapper and prepare_reload; loading an ABI plugin awaits.  *)
Prepare(c) ==
  /\ At(c, "prepare")
  /\ Goto(c, "lock") \/ ReloadFailed(c)
  /\ UNCHANGED <<fileVars, serviceVars, history>>

Prepared(c) == [gen |-> req[c].gen, chosen |-> Resolve(req[c].next)]

(* A lock file that cannot be read is taken for one that does not exist.   *)
WriteLock(c) ==
  /\ At(c, "lock")
  /\ lock' = Prepared(c)
  /\ \/ req' = [req EXCEPT ![c].pc = "swap", ![c].oldLock = lock] /\ UNCHANGED lockFailed
     \/ req' = [req EXCEPT ![c].pc = "swap", ![c].oldLock = Missing] /\ lockFailed' = TRUE
  /\ UNCHANGED <<disk, temp, serviceVars, interrupted>>

WriteLockFails(c) ==
  /\ At(c, "lock")
  /\ lock' \in {lock, Garbled}
  /\ lockFailed' = TRUE
  /\ ReloadFailed(c)
  /\ UNCHANGED <<disk, temp, serviceVars, interrupted>>

(* HostRuntime::reload drains and swaps the Core under the runtime mutex.  *)
SwapCore(c) ==
  /\ At(c, "swap")
  /\ core # NoCore
  /\ core' = Prepared(c)
  /\ Goto(c, "catalog")
  /\ UNCHANGED <<fileVars, up, memory, catalog, history>>

\* Mutant: the lock file is not restored after a failed swap.
SwapFails_KeepsLock(c) ==
  /\ At(c, "swap")
  /\ core # NoCore
  /\ ReloadFailed(c)
  /\ UNCHANGED <<fileVars, serviceVars, history>>

(* The Core refuses the new generation: restore_runtime_lock, which may    *)
(* fail in turn.                                                           *)
SwapFails(c) ==
  /\ At(c, "swap")
  /\ core # NoCore
  /\ \/ lock' = req[c].oldLock /\ UNCHANGED lockFailed
     \/ lock' \in {lock, Garbled} /\ lockFailed' = TRUE
  /\ ReloadFailed(c)
  /\ UNCHANGED <<disk, temp, serviceVars, interrupted>>

(* The Core was taken since its generation was read.                       *)
SwapWithoutCore(c) ==
  /\ At(c, "swap")
  /\ core = NoCore
  /\ ReloadFailed(c)
  /\ UNCHANGED <<fileVars, serviceVars, history>>

\* Mutant: the catalog is replaced only after the sidecars, behind an await.
SetCatalog_AfterReconcile(c) ==
  /\ At(c, "catalog")
  /\ Goto(c, "reconcile")
  /\ UNCHANGED <<fileVars, serviceVars, history>>

SetCatalog(c) ==
  /\ At(c, "catalog")
  /\ catalog' = Resolve(req[c].next)
  /\ Goto(c, "reconcile")
  /\ UNCHANGED <<fileVars, up, memory, core, history>>

(* RunnerSupervisor::reconcile (module RunnerSupervisor) returns; its      *)
(* errors do not fail the reload.                                          *)
Reconcile(c) ==
  /\ At(c, "reconcile")
  /\ Goto(c, "commit")
  /\ UNCHANGED <<fileVars, serviceVars, history>>

(* A change whose reload succeeded becomes the state in memory.            *)
Commit(c) ==
  /\ At(c, "commit")
  /\ memory' = IF req[c].change THEN req[c].next ELSE memory
  /\ interrupted' = (interrupted /\ ~req[c].change)
  /\ req' = [req EXCEPT ![c] = NoRequest]
  /\ UNCHANGED <<fileVars, up, core, catalog, lockFailed>>

(* The client cancels, its request times out, or the connection drains.    *)
AbortRequest(c) ==
  /\ At(c, "prepare") \/ At(c, "reconcile")
  /\ interrupted' = (interrupted \/ req[c].change)
  /\ req' = [req EXCEPT ![c] = NoRequest]
  /\ UNCHANGED <<fileVars, serviceVars, lockFailed>>

-----------------------------------------------------------------------------
SaveStep(c) ==
  \/ SaveWrite(c) \/ SaveWriteFails(c)
  \/ SaveCheck(c)
  \/ SaveRemove(c) \/ SaveRemoveFails(c)
  \/ SaveRename(c) \/ SaveRenameFails(c)

ReloadStep(c) ==
  \/ ReadGeneration(c)
  \/ Prepare(c)
  \/ WriteLock(c) \/ WriteLockFails(c)
  \/ SwapCore(c) \/ SwapFails(c) \/ SwapWithoutCore(c)
  \/ SetCatalog(c)
  \/ Reconcile(c)
  \/ Commit(c)

Next ==
  \/ Boot
  \/ BootFails
  \/ Crash
  \/ TakeCore
  \/ \E c \in Conns :
       \/ \E p \in Plugins, k \in Kinds \cup {"none"} : BeginChange(c, p, k)
       \/ BeginReload(c)
       \/ SaveStep(c)
       \/ ReloadStep(c)
       \/ AbortRequest(c)

Spec == Init /\ [][Next]_vars

-----------------------------------------------------------------------------
Quiet == up /\ \A c \in Conns : req[c].pc = "idle"

(* The catalog the control API reports is the one the running Core was     *)
(* built from, except inside the stretch without an await that installs    *)
(* both: "swaps Core to the new generation, then replaces the ServiceHost  *)
(* catalog" (docs/control-api.md; reload_catalog).                         *)
CatalogMatchesCore ==
  up /\ core # NoCore /\ (\A c \in Conns : req[c].pc # "catalog")
    => catalog = core.chosen

(* Unless it could not be read, written or restored, runtime.lock.json     *)
(* describes the running Core whenever no reload stands between writing it *)
(* and the swap, aborted and refused reloads included (write_runtime_lock, *)
(* restore_runtime_lock).                                                  *)
LockDescribesCore ==
  up /\ core # NoCore /\ ~lockFailed /\ (\A c \in Conns : req[c].pc # "swap")
    => lock = core

(* Whatever is on disk parses and resolves: no failed, aborted or crashed  *)
(* change leaves a preference file that load_deployment_state or           *)
(* resolve_catalog refuses at the next start (change_plugin_deployment     *)
(* resolves before it saves).  A crash between the save and the restoring  *)
(* one may leave a preference that boot_core cannot load, and a failed     *)
(* rename no file at all.                                                  *)
StoredPreferenceResolves ==
  /\ disk # Garbled
  /\ disk # Missing => Resolvable(disk)

(* After every change that ran to its end, successfully or not, the state  *)
(* in memory is the state on disk (change_plugin_deployment).              *)
CompletedChangeAgrees == Quiet /\ ~interrupted => Loaded(disk) = memory
=============================================================================
