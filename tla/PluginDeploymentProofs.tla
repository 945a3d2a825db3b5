----------------------- MODULE PluginDeploymentProofs -----------------------
(***************************************************************************)
(* Theorems about PluginDeployment.  Type correctness and what is deployed *)
(* hold for any set of connections; the agreement of files, memory,        *)
(* catalog and Core for any plugins and candidates, but one connection.    *)
(***************************************************************************)
EXTENDS PluginDeployment, TLAPS, FiniteSetTheorems

(* Every preference that is kept anywhere resolves, whoever wrote it.      *)
KeptInv ==
  /\ up => Resolvable(memory)
  /\ disk \in Preference => Resolvable(disk)
  /\ temp \in Preference => Resolvable(temp)
  /\ \A c \in Conns : req[c].pc # "idle" => Resolvable(req[c].next) /\ Resolvable(req[c].previous)

(* Core runs and the catalog reports only deployments that were found for  *)
(* the plugin, however reloads interleave (resolve_catalog, reload_catalog).*)
RunsWhatWasFound ==
  /\ core # NoCore => \A p \in Plugins : core.chosen[p] \in Candidates[p]
  /\ up => \A p \in Plugins : catalog[p] \in Candidates[p]

(* No request outlives the process that serves it.                         *)
DownInv == ~up => core = NoCore /\ \A c \in Conns : req[c] = NoRequest

(* The service runs for one control connection.                            *)
OneConnection == \A c, d \in Conns : c = d

SaveSteps == {"write", "check", "remove", "rename"}

(* What the request of the only connection knows of the files.             *)
FileInv ==
  /\ disk # Garbled
  /\ \A c \in Conns :
       /\ req[c].pc \in SaveSteps => req[c].change
       /\ req[c].restoring => req[c].change /\ req[c].pc \in SaveSteps
       /\ req[c].pc \in {"check", "remove", "rename"} => temp = Saving(c)
       /\ req[c].change /\ req[c].pc # "idle" => req[c].previous = memory
       /\ req[c].change /\ req[c].pc \notin SaveSteps \cup {"idle"} => disk = req[c].next
       /\ up /\ ~req[c].change /\ ~interrupted => Loaded(disk) = memory

(* What it knows of the generation that it installs.                       *)
SwapInv ==
  \A c \in Conns :
    /\ req[c].pc = "swap" => lock = Prepared(c)
    /\ req[c].pc = "swap" /\ core # NoCore /\ ~lockFailed => req[c].oldLock = core
    /\ req[c].pc = "catalog" /\ core # NoCore => core.chosen = Resolve(req[c].next)

(* NoRequest is not a change, and the next one starts from it.             *)
IdleInv == \A c \in Conns : req[c].pc = "idle" => req[c] = NoRequest

DeploymentInv == TypeOK /\ KeptInv /\ RunsWhatWasFound /\ DownInv

SerialInv ==
  DeploymentInv /\ FileInv /\ SwapInv /\ IdleInv /\ CatalogMatchesCore /\ LockDescribesCore

-----------------------------------------------------------------------------
(* resolve_catalog picks a deployment kind for every plugin ...            *)
LEMMA ResolveType ==
  ASSUME NEW pref \in Preference
  PROVE  Resolve(pref) \in Choice
<1>1. ASSUME NEW p \in Plugins, NEW k \in Kinds \cup {"none"} PROVE Chosen(p, k) \in Kinds
  <2>1. CASE k = "none" /\ Cardinality(Candidates[p]) = 1
    <3>1. Candidates[p] # {}
      BY <2>1, FS_EmptySet
    <3>2. Candidates[p] \subseteq Kinds
      BY DeploymentAssumption
    <3>3. (CHOOSE c \in Candidates[p] : TRUE) \in Candidates[p]
      BY <3>1
    <3>4. Chosen(p, k) = CHOOSE c \in Candidates[p] : TRUE
      BY <2>1 DEF Chosen
    <3> QED
      BY <3>2, <3>3, <3>4
  <2>2. CASE k # "none"
    BY <2>2 DEF Chosen, Kinds
  <2>3. CASE k = "none" /\ Cardinality(Candidates[p]) # 1
    BY <2>3 DEF Chosen, Kinds
  <2> QED
    BY <2>1, <2>2, <2>3
<1> QED
  BY <1>1 DEF Resolve, Choice, Preference

(* ... and a preference that it accepts only selects what was found.       *)
LEMMA ResolveFound ==
  ASSUME NEW pref, Resolvable(pref)
  PROVE  \A p \in Plugins : Resolve(pref)[p] \in Candidates[p]
  BY DEF Resolve, Resolvable, Selectable

(* The preference without a choice is a preference. *)
LEMMA EmptyType == Empty \in Preference
  BY DEF Empty, Preference

(* A connection without a request carries a well-typed record. *)
LEMMA NoRequestType == NoRequest \in Requests /\ NoRequest.pc = "idle" /\ ~NoRequest.change
  BY EmptyType DEF NoRequest, Requests, Steps

(* The file that is loaded at the start is a preference unless it does not *)
(* parse.                                                                  *)
LEMMA LoadedType ==
  ASSUME TypeOK, disk # Garbled
  PROVE  Loaded(disk) \in Preference
  BY EmptyType DEF Loaded, TypeOK

(* What a request is about to save is a preference.                        *)
LEMMA SavingType ==
  ASSUME TypeOK, NEW c \in Conns
  PROVE  Saving(c) \in Preference
  BY DEF Saving, TypeOK, Requests

(* What a reload is about to install is a generation.                      *)
LEMMA PreparedType ==
  ASSUME TypeOK, NEW c \in Conns
  PROVE  Prepared(c) \in Generation
<1>1. req[c] \in Requests
  BY DEF TypeOK
<1>2. req[c].next \in Preference /\ req[c].gen \in Nat
  BY <1>1 DEF Requests
<1>3. Resolve(req[c].next) \in Choice
  BY <1>2, ResolveType
<1> QED
  BY <1>2, <1>3 DEF Prepared, Generation

(* A request that fails to reload goes on as a request.                    *)
LEMMA ReloadFailedType ==
  ASSUME TypeOK, NEW c \in Conns, ReloadFailed(c)
  PROVE  req' \in [Conns -> Requests]
  BY NoRequestType, ZenonT(30) DEF ReloadFailed, TypeOK, Requests, Steps

-----------------------------------------------------------------------------
(* Type correctness, action by action.                                     *)
LEMMA DeploymentTypeStep == TypeOK /\ [Next]_vars => TypeOK'
<1> SUFFICES ASSUME TypeOK, [Next]_vars PROVE TypeOK'
  OBVIOUS
<1> USE DEF TypeOK
<1>1. CASE Boot
  <2>1. Loaded(disk) \in Preference
    BY <1>1, LoadedType DEF Boot
  <2>2. Resolve(Loaded(disk)) \in Choice
    BY <2>1, ResolveType
  <2>3. core' \in Generation
    BY <1>1, <2>2 DEF Boot, Generation
  <2> QED
    BY <1>1, <2>1, <2>2, <2>3 DEF Boot
<1>10. CASE BootFails
  BY <1>10 DEF BootFails, serviceVars, history
<1>2. CASE Crash
  BY <1>2, NoRequestType DEF Crash, fileVars, history
<1>3. CASE TakeCore
  BY <1>3 DEF TakeCore, fileVars, history
<1>4. ASSUME NEW c \in Conns, NEW p \in Plugins, NEW k \in Kinds \cup {"none"}, BeginChange(c, p, k)
      PROVE  TypeOK'
  <2>1. [memory EXCEPT ![p] = k] \in Preference
    BY DEF Preference
  <2>2. [NoRequest EXCEPT !.pc = "write", !.change = TRUE, !.previous = memory,
                          !.next = [memory EXCEPT ![p] = k]] \in Requests
    BY <2>1, NoRequestType DEF Requests, Steps
  <2>3. req' \in [Conns -> Requests]
    BY <1>4, <2>2 DEF BeginChange
  <2> QED
    BY <1>4, <2>3 DEF BeginChange, fileVars, serviceVars, history
<1>5. ASSUME NEW c \in Conns, BeginReload(c) PROVE TypeOK'
  <2>1. [NoRequest EXCEPT !.pc = "generation", !.previous = memory, !.next = memory] \in Requests
    BY NoRequestType DEF Requests, Steps
  <2> QED
    BY <1>5, <2>1 DEF BeginReload, fileVars, serviceVars, history
<1>6. ASSUME NEW c \in Conns, SaveStep(c) PROVE TypeOK'
  <2>1. req' \in [Conns -> Requests]
    BY <1>6, NoRequestType DEF SaveStep, SaveWrite, SaveWriteFails, SaveCheck, SaveRemove, SaveRemoveFails,
         SaveRename, SaveRenameFails, Goto, Requests, Steps
  <2>2. temp' \in Preference \cup {Missing, Garbled}
    BY <1>6, SavingType DEF SaveStep, SaveWrite, SaveWriteFails, SaveCheck, SaveRemove, SaveRemoveFails,
         SaveRename, SaveRenameFails, fileVars
  <2>3. disk' \in Preference \cup {Missing, Garbled}
    BY <1>6 DEF SaveStep, SaveWrite, SaveWriteFails, SaveCheck, SaveRemove, SaveRemoveFails,
         SaveRename, SaveRenameFails, fileVars
  <2>4. UNCHANGED <<lock, serviceVars, lockFailed>> /\ interrupted' \in BOOLEAN
    BY <1>6 DEF SaveStep, SaveWrite, SaveWriteFails, SaveCheck, SaveRemove, SaveRemoveFails,
         SaveRename, SaveRenameFails, fileVars, history
  <2> QED
    BY <2>1, <2>2, <2>3, <2>4 DEF serviceVars
<1>7. ASSUME NEW c \in Conns, ReloadStep(c) PROVE TypeOK'
  <2>1. CASE ReadGeneration(c)
    <3>1. CASE core = NoCore
      BY <2>1, <3>1, ReloadFailedType DEF ReadGeneration, fileVars, serviceVars, history
    <3>2. CASE core # NoCore
      <4>1. core.gen + 1 \in Nat
        BY <3>2 DEF Generation
      <4>2. req' \in [Conns -> Requests]
        BY <2>1, <3>2, <4>1 DEF ReadGeneration, Requests, Steps
      <4> QED
        BY <2>1, <4>2 DEF ReadGeneration, fileVars, serviceVars, history
    <3> QED
      BY <3>1, <3>2
  <2>2. CASE Prepare(c)
    <3>1. req' \in [Conns -> Requests]
      BY <2>2, ReloadFailedType DEF Prepare, Goto, Requests, Steps
    <3> QED
      BY <2>2, <3>1 DEF Prepare, fileVars, serviceVars, history
  <2>3. CASE WriteLock(c)
    <3>1. req' \in [Conns -> Requests]
      <4>1. ASSUME NEW l \in {lock, Missing}
            PROVE  [req[c] EXCEPT !.pc = "swap", !.oldLock = l] \in Requests
        BY DEF Requests, Steps
      <4>2. \E l \in {lock, Missing} :
              req' = [req EXCEPT ![c] = [req[c] EXCEPT !.pc = "swap", !.oldLock = l]]
        BY <2>3 DEF WriteLock
      <4> QED
        BY <4>1, <4>2
    <3>2. lock' \in Generation
      BY <2>3, PreparedType DEF WriteLock
    <3> QED
      BY <2>3, <3>1, <3>2 DEF WriteLock, serviceVars
  <2>4. CASE WriteLockFails(c)
    BY <2>4, ReloadFailedType DEF WriteLockFails, serviceVars
  <2>5. CASE SwapCore(c)
    <3>1. req' \in [Conns -> Requests]
      BY <2>5 DEF SwapCore, Goto, Requests, Steps
    <3> QED
      BY <2>5, <3>1, PreparedType DEF SwapCore, fileVars, history
  <2>6. CASE SwapFails(c)
    <3>1. lock' \in Generation \cup {Missing, Garbled}
      BY <2>6 DEF SwapFails, Requests
    <3> QED
      BY <2>6, <3>1, ReloadFailedType DEF SwapFails, serviceVars
  <2>7. CASE SwapWithoutCore(c)
    BY <2>7, ReloadFailedType DEF SwapWithoutCore, fileVars, serviceVars, history
  <2>8. CASE SetCatalog(c)
    <3>1. req' \in [Conns -> Requests] /\ req[c].next \in Preference
      BY <2>8 DEF SetCatalog, Goto, Requests, Steps
    <3>2. catalog' \in Choice
      BY <2>8, <3>1, ResolveType DEF SetCatalog
    <3> QED
      BY <2>8, <3>1, <3>2 DEF SetCatalog, fileVars, history
  <2>9. CASE Reconcile(c)
    <3>1. req' \in [Conns -> Requests]
      BY <2>9 DEF Reconcile, Goto, Requests, Steps
    <3> QED
      BY <2>9, <3>1 DEF Reconcile, fileVars, serviceVars, history
  <2>10. CASE Commit(c)
    <3>1. memory' \in Preference /\ interrupted' \in BOOLEAN
      BY <2>10 DEF Commit, Requests
    <3> QED
      BY <2>10, <3>1, NoRequestType DEF Commit, fileVars
  <2> QED
    BY <1>7, <2>1, <2>2, <2>3, <2>4, <2>5, <2>6, <2>7, <2>8, <2>9, <2>10 DEF ReloadStep
<1>8. ASSUME NEW c \in Conns, AbortRequest(c) PROVE TypeOK'
  BY <1>8, NoRequestType DEF AbortRequest, fileVars, serviceVars
<1>9. CASE UNCHANGED vars
  BY <1>9 DEF vars
<1> QED
  BY <1>1, <1>2, <1>3, <1>4, <1>5, <1>6, <1>7, <1>8, <1>9, <1>10 DEF Next

(* A service that never ran is well typed. *)
LEMMA DeploymentTypeInit == Init => TypeOK
<1>1. [p \in Plugins |-> "builtin"] \in Choice
  BY DEF Choice, Kinds
<1> QED
  BY <1>1, EmptyType, NoRequestType DEF Init, TypeOK

-----------------------------------------------------------------------------
(* A failed reload ends a request or turns it to restoring.                *)
LEMMA ReloadFailedGoesOn ==
  ASSUME TypeOK, NEW c \in Conns, ReloadFailed(c)
  PROVE  /\ \A d \in Conns : d # c => req'[d] = req[d]
         /\ ~req[c].change => req'[c] = NoRequest
         /\ req[c].change => /\ req'[c].pc = "write"
                            /\ req'[c].restoring
                            /\ req'[c].next = req[c].next
                            /\ req'[c].previous = req[c].previous
                            /\ req'[c].change
<1>1. req[c] \in Requests
  BY DEF TypeOK
<1>2. CASE req[c].change
  <2>1. req' = [req EXCEPT ![c] = [req[c] EXCEPT !.pc = "write", !.restoring = TRUE]]
    BY <1>2 DEF ReloadFailed
  <2> QED
    BY <1>1, <1>2, <2>1 DEF TypeOK, Requests
<1>3. CASE ~req[c].change
  <2>1. req' = [req EXCEPT ![c] = NoRequest]
    BY <1>3 DEF ReloadFailed
  <2> QED
    BY <1>3, <2>1 DEF TypeOK
<1> QED
  BY <1>2, <1>3

(* A step of a running request leaves the others alone and keeps what the  *)
(* request set out to do, or ends it.                                      *)
LEMMA RequestGoesOn ==
  ASSUME TypeOK, NEW c \in Conns, SaveStep(c) \/ ReloadStep(c) \/ AbortRequest(c)
  PROVE  /\ up /\ up'
         /\ req[c].pc # "idle"
         /\ \A d \in Conns : d # c => req'[d] = req[d]
         /\ \/ req'[c] = NoRequest
            \/ /\ req'[c].pc # "idle"
               /\ req'[c].next = req[c].next
               /\ req'[c].previous = req[c].previous
               /\ req'[c].change = req[c].change
<1> USE DEF TypeOK, Requests, Goto, At, serviceVars
<1>1. CASE SaveStep(c)
  BY <1>1 DEF SaveStep, SaveWrite, SaveWriteFails, SaveCheck, SaveRemove, SaveRemoveFails,
       SaveRename, SaveRenameFails
<1>2. CASE ReloadStep(c)
  <2>1. CASE ReadGeneration(c) \/ Prepare(c)
    BY <2>1, ReloadFailedGoesOn, ZenonT(30) DEF ReadGeneration, Prepare
  <2>2. CASE WriteLock(c) \/ SwapCore(c) \/ SetCatalog(c) \/ Reconcile(c) \/ Commit(c)
    BY <2>2 DEF WriteLock, SwapCore, SetCatalog, Reconcile, Commit
  <2>3. CASE WriteLockFails(c) \/ SwapFails(c) \/ SwapWithoutCore(c)
    BY <2>3, ReloadFailedGoesOn DEF WriteLockFails, SwapFails, SwapWithoutCore
  <2> QED
    BY <1>2, <2>1, <2>2, <2>3 DEF ReloadStep
<1>3. CASE AbortRequest(c)
  BY <1>3 DEF AbortRequest
<1> QED
  BY <1>1, <1>2, <1>3

(* Every preference that is kept resolves: it was resolved before the first *)
(* write, and every later write repeats it.                                *)
LEMMA KeptStep == DeploymentInv /\ [Next]_vars => KeptInv' /\ DownInv'
<1> SUFFICES ASSUME DeploymentInv, [Next]_vars PROVE KeptInv' /\ DownInv'
  OBVIOUS
<1> USE DEF DeploymentInv, KeptInv, DownInv
<1>0. Missing \notin Preference /\ Garbled \notin Preference
  BY DeploymentAssumption
<1>1. CASE Boot
  <2>1. memory' = Loaded(disk) /\ Resolvable(Loaded(disk)) /\ UNCHANGED <<disk, temp, req>> /\ up'
    BY <1>1 DEF Boot
  <2>2. \A c \in Conns : req[c].pc = "idle"
    BY <1>1, NoRequestType DEF Boot
  <2> QED
    BY <2>1, <2>2
<1>2. CASE Crash
  BY <1>2, NoRequestType DEF Crash, fileVars
<1>8. CASE BootFails
  BY <1>8 DEF BootFails, serviceVars
<1>3. CASE TakeCore
  BY <1>3 DEF TakeCore, fileVars
<1>4. ASSUME NEW c \in Conns,
             \/ \E p \in Plugins, k \in Kinds \cup {"none"} : BeginChange(c, p, k)
             \/ BeginReload(c)
      PROVE  KeptInv' /\ DownInv'
  <2>1. up /\ UNCHANGED <<fileVars, serviceVars>>
    BY <1>4 DEF BeginChange, BeginReload, At
  <2>2. Resolvable(req'[c].next) /\ req'[c].previous = memory
    BY <1>4, EmptyType, ZenonT(30) DEF BeginChange, BeginReload, TypeOK, NoRequest
  <2>3. \A d \in Conns : d # c => req'[d] = req[d]
    BY <1>4 DEF BeginChange, BeginReload, TypeOK
  <2> QED
    BY <2>1, <2>2, <2>3 DEF fileVars, serviceVars
<1>5. ASSUME NEW c \in Conns, SaveStep(c) PROVE KeptInv' /\ DownInv'
  <2>1. \A d \in Conns : req'[d].pc # "idle" => Resolvable(req'[d].next) /\ Resolvable(req'[d].previous)
    BY <1>5, RequestGoesOn, NoRequestType
  <2>2. up /\ up' /\ memory' = memory
    BY <1>5, RequestGoesOn DEF SaveStep, SaveWrite, SaveWriteFails, SaveCheck, SaveRemove,
         SaveRemoveFails, SaveRename, SaveRenameFails, serviceVars
  <2>3. Resolvable(Saving(c))
    BY <1>5, RequestGoesOn DEF Saving
  <2>4. disk' \in Preference => Resolvable(disk')
    BY <1>0, <1>5 DEF SaveStep, SaveWrite, SaveWriteFails, SaveCheck, SaveRemove, SaveRemoveFails,
         SaveRename, SaveRenameFails, fileVars
  <2>5. temp' \in Preference => Resolvable(temp')
    BY <1>0, <1>5, <2>3 DEF SaveStep, SaveWrite, SaveWriteFails, SaveCheck, SaveRemove, SaveRemoveFails,
         SaveRename, SaveRenameFails, fileVars
  <2> QED
    BY <2>1, <2>2, <2>4, <2>5
<1>6. ASSUME NEW c \in Conns, ReloadStep(c) \/ AbortRequest(c) PROVE KeptInv' /\ DownInv'
  <2>1. \A d \in Conns : req'[d].pc # "idle" => Resolvable(req'[d].next) /\ Resolvable(req'[d].previous)
    BY <1>6, RequestGoesOn, NoRequestType
  <2>2. up /\ up' /\ UNCHANGED <<disk, temp>>
    BY <1>6, RequestGoesOn DEF ReloadStep, ReadGeneration, Prepare, WriteLock, WriteLockFails, SwapCore,
         SwapFails, SwapWithoutCore, SetCatalog, Reconcile, Commit, AbortRequest, fileVars
  <2>3. memory' \in {memory, req[c].next} /\ Resolvable(req[c].next)
    BY <1>6, RequestGoesOn DEF ReloadStep, ReadGeneration, Prepare, WriteLock, WriteLockFails, SwapCore,
         SwapFails, SwapWithoutCore, SetCatalog, Reconcile, Commit, AbortRequest, serviceVars
  <2> QED
    BY <2>1, <2>2, <2>3
<1>7. CASE UNCHANGED vars
  BY <1>7 DEF vars
<1> QED
  BY <1>1, <1>2, <1>3, <1>4, <1>5, <1>6, <1>7, <1>8 DEF Next

(* A Core and a catalog are only ever made from a preference that resolves. *)
LEMMA FoundStep == DeploymentInv /\ [Next]_vars => RunsWhatWasFound'
<1> SUFFICES ASSUME DeploymentInv, [Next]_vars PROVE RunsWhatWasFound'
  OBVIOUS
<1> USE DEF DeploymentInv, RunsWhatWasFound
<1>1. CASE Boot
  BY <1>1, ResolveFound DEF Boot
<1>2. CASE Crash \/ TakeCore \/ BootFails
  BY <1>2 DEF Crash, TakeCore, BootFails, serviceVars
<1>3. ASSUME NEW c \in Conns,
             \/ \E p \in Plugins, k \in Kinds \cup {"none"} : BeginChange(c, p, k)
             \/ BeginReload(c)
             \/ SaveStep(c)
             \/ AbortRequest(c)
      PROVE  RunsWhatWasFound'
  <2>1. UNCHANGED serviceVars
    BY <1>3 DEF BeginChange, BeginReload, AbortRequest, SaveStep, SaveWrite, SaveWriteFails, SaveCheck,
         SaveRemove, SaveRemoveFails, SaveRename, SaveRenameFails
  <2> QED
    BY <2>1 DEF serviceVars
<1>4. ASSUME NEW c \in Conns, ReloadStep(c) PROVE RunsWhatWasFound'
  <2>1. Resolvable(req[c].next) /\ up
    BY <1>4, RequestGoesOn DEF KeptInv
  <2>2. \A p \in Plugins : Resolve(req[c].next)[p] \in Candidates[p]
    BY <2>1, ResolveFound
  <2>3. up' /\ core' \in {core, Prepared(c)} /\ catalog' \in {catalog, Resolve(req[c].next)}
    BY <1>4, <2>1 DEF ReloadStep, ReadGeneration, Prepare, WriteLock, WriteLockFails, SwapCore,
         SwapFails, SwapWithoutCore, SetCatalog, Reconcile, Commit, serviceVars
  <2>4. Prepared(c).chosen = Resolve(req[c].next)
    BY DEF Prepared
  <2> QED
    BY <2>1, <2>2, <2>3, <2>4
<1>5. CASE UNCHANGED vars
  BY <1>5 DEF vars
<1> QED
  BY <1>1, <1>2, <1>3, <1>4, <1>5 DEF Next

(* Every step keeps DeploymentInv. *)
LEMMA DeploymentInvStep == DeploymentInv /\ [Next]_vars => DeploymentInv'
  BY DeploymentTypeStep, KeptStep, FoundStep DEF DeploymentInv

(* The initial states satisfy DeploymentInv. *)
LEMMA DeploymentInvInit == Init => DeploymentInv
  BY DeploymentTypeInit, DeploymentAssumption, NoRequestType
     DEF Init, DeploymentInv, KeptInv, RunsWhatWasFound, DownInv

(* DeploymentInv is an invariant of the specification. *)
LEMMA DeploymentInvHolds == Spec => []DeploymentInv
  BY DeploymentInvInit, DeploymentInvStep, PTL DEF Spec

-----------------------------------------------------------------------------
(* With one connection, the request that is saving is alone with the files. *)
LEMMA SaveKeepsFiles ==
  ASSUME OneConnection, SerialInv, NEW c \in Conns, SaveStep(c)
  PROVE  FileInv'
<1> SUFFICES ASSUME NEW d \in Conns
             PROVE  /\ disk' # Garbled
                    /\ req'[d].pc \in SaveSteps => req'[d].change
                    /\ req'[d].restoring => req'[d].change /\ req'[d].pc \in SaveSteps
                    /\ req'[d].pc \in {"check", "remove", "rename"} => temp' = Saving(d)'
                    /\ req'[d].change /\ req'[d].pc # "idle" => req'[d].previous = memory'
                    /\ req'[d].change /\ req'[d].pc \notin SaveSteps \cup {"idle"} => disk' = req'[d].next
                    /\ up' /\ ~req'[d].change /\ ~interrupted' => Loaded(disk)' = memory'
  BY DEF FileInv
<1>0. d = c /\ req[c] \in Requests /\ req \in [Conns -> Requests]
  BY DEF OneConnection, SerialInv, DeploymentInv, TypeOK
<1>1. Saving(c) \in Preference /\ Saving(c) # Garbled /\ Saving(c) # Missing
  BY SavingType, DeploymentAssumption DEF SerialInv, DeploymentInv
<1>2. UNCHANGED memory
  BY DEF SaveStep, SaveWrite, SaveWriteFails, SaveCheck, SaveRemove, SaveRemoveFails, SaveRename,
       SaveRenameFails, serviceVars
<1>3. NoRequest.pc = "idle" /\ ~NoRequest.change /\ ~NoRequest.restoring
  BY DEF NoRequest
<1> USE DEF SerialInv, FileInv, SaveSteps, At, Goto
<1>4. CASE SaveWrite(c)
  <2>1. req'[c] = [req[c] EXCEPT !.pc = "check"] /\ temp' = Saving(c) /\ UNCHANGED <<disk, interrupted, up>>
    BY <1>0, <1>4 DEF SaveWrite, serviceVars, history
  <2>2. Saving(c)' = Saving(c)
    BY <1>0, <2>1 DEF Saving, Requests
  <2> QED
    BY <1>0, <1>2, <1>4, <2>1, <2>2 DEF SaveWrite, Requests
<1>5. CASE SaveWriteFails(c) \/ SaveRemoveFails(c) \/ SaveRenameFails(c)
  <2>1. req'[c] = NoRequest /\ interrupted' /\ UNCHANGED disk
    BY <1>0, <1>5 DEF SaveWriteFails, SaveRemoveFails, SaveRenameFails, fileVars
  <2> QED
    BY <1>0, <1>3, <2>1
<1>6. CASE SaveCheck(c) \/ SaveRemove(c)
  <2>1. /\ req'[c] \in {[req[c] EXCEPT !.pc = "rename"], [req[c] EXCEPT !.pc = "remove"]}
        /\ req[c].pc \in {"check", "remove"}
        /\ UNCHANGED <<temp, interrupted, up>> /\ disk' \in {disk, Missing}
    BY <1>0, <1>6 DEF SaveCheck, SaveRemove, serviceVars, history, fileVars
  <2>2. Saving(c)' = Saving(c)
    BY <1>0, <2>1 DEF Saving, Requests
  <2>3. disk' # Garbled
    BY <2>1, DeploymentAssumption
  <2> QED
    BY <1>0, <1>2, <2>1, <2>2, <2>3 DEF Requests
<1>7. CASE SaveRename(c)
  <2>1. disk' = Saving(c) /\ Loaded(disk)' = Saving(c)
    BY <1>1, <1>7 DEF SaveRename, Loaded
  <2>2. CASE req[c].restoring
    <3>1. req'[c] = NoRequest /\ Saving(c) = memory
      BY <1>0, <1>7, <2>2 DEF SaveRename, Saving
    <3> QED
      BY <1>0, <1>1, <1>2, <1>3, <2>1, <3>1
  <2>3. CASE ~req[c].restoring
    <3>1. req'[c] = [req[c] EXCEPT !.pc = "generation"] /\ Saving(c) = req[c].next /\ req[c].change
      BY <1>0, <1>7, <2>3 DEF SaveRename, Saving
    <3> QED
      BY <1>0, <1>1, <1>2, <1>7, <2>1, <2>3, <3>1 DEF Requests, SaveRename
  <2> QED
    BY <2>2, <2>3
<1> QED
  BY <1>4, <1>5, <1>6, <1>7 DEF SaveStep

(* A reload leaves the files alone; only the end of a change touches the   *)
(* memory.                                                                 *)
LEMMA ReloadKeepsFiles ==
  ASSUME OneConnection, SerialInv, NEW c \in Conns, ReloadStep(c) \/ AbortRequest(c)
  PROVE  FileInv'
<1> SUFFICES ASSUME NEW d \in Conns
             PROVE  /\ disk' # Garbled
                    /\ req'[d].pc \in SaveSteps => req'[d].change
                    /\ req'[d].restoring => req'[d].change /\ req'[d].pc \in SaveSteps
                    /\ req'[d].pc \in {"check", "remove", "rename"} => temp' = Saving(d)'
                    /\ req'[d].change /\ req'[d].pc # "idle" => req'[d].previous = memory'
                    /\ req'[d].change /\ req'[d].pc \notin SaveSteps \cup {"idle"} => disk' = req'[d].next
                    /\ up' /\ ~req'[d].change /\ ~interrupted' => Loaded(disk)' = memory'
  BY DEF FileInv
<1>0. d = c /\ req[c] \in Requests /\ req \in [Conns -> Requests] /\ TypeOK
  BY DEF OneConnection, SerialInv, DeploymentInv, TypeOK
<1>1. UNCHANGED <<disk, up>> /\ Loaded(disk)' = Loaded(disk)
  BY DEF ReloadStep, ReadGeneration, Prepare, WriteLock, WriteLockFails, SwapCore,
         SwapFails, SwapWithoutCore, SetCatalog, Reconcile, Commit, AbortRequest, fileVars, serviceVars, Loaded
<1>2. req[c].pc \notin SaveSteps \cup {"idle"} /\ up
  BY DEF ReloadStep, ReadGeneration, Prepare, WriteLock, WriteLockFails, SwapCore,
         SwapFails, SwapWithoutCore, SetCatalog, Reconcile, Commit, AbortRequest, At, SaveSteps
<1>3. NoRequest.pc = "idle" /\ ~NoRequest.change /\ ~NoRequest.restoring
  BY DEF NoRequest
<1> USE DEF SerialInv, FileInv, SaveSteps, At, Goto
<1>4. CASE ReloadFailed(c) /\ UNCHANGED <<memory, interrupted>>
  BY <1>0, <1>1, <1>2, <1>3, <1>4, ReloadFailedGoesOn
<1>5. CASE /\ UNCHANGED <<memory, interrupted>>
           /\ req'[c].pc \in Steps \ (SaveSteps \cup {"idle"})
           /\ UNCHANGED <<req[c].change, req[c].restoring, req[c].previous, req[c].next>>
  BY <1>0, <1>1, <1>2, <1>5
<1>6. CASE Commit(c)
  <2>1. req'[c] = NoRequest /\ (req[c].change => memory' = req[c].next)
        /\ (~req[c].change => memory' = memory /\ interrupted' = interrupted)
    BY <1>0, <1>6 DEF Commit, TypeOK
  <2>2. req[c].next \in Preference
    BY <1>0 DEF Requests
  <2>3. req[c].change => Loaded(disk) = req[c].next
    BY <1>2, <2>2, DeploymentAssumption DEF Loaded
  <2> QED
    BY <1>0, <1>1, <1>2, <1>3, <2>1, <2>3
<1>7. CASE AbortRequest(c)
  <2>1. req'[c] = NoRequest /\ memory' = memory /\ (~interrupted' => ~req[c].change /\ ~interrupted)
    BY <1>0, <1>7 DEF AbortRequest, serviceVars, TypeOK
  <2> QED
    BY <1>0, <1>1, <1>2, <1>3, <2>1
<1>8. CASE ReadGeneration(c) /\ ~ReloadFailed(c)
  BY <1>0, <1>5, <1>8 DEF ReadGeneration, serviceVars, history, Requests, Steps
<1>9. CASE Prepare(c) /\ ~ReloadFailed(c)
  BY <1>0, <1>5, <1>9 DEF Prepare, serviceVars, history, Requests, Steps
<1>10. CASE WriteLock(c)
  <2>1. UNCHANGED <<memory, interrupted>> /\ req'[c].pc = "swap"
    BY <1>0, <1>10 DEF WriteLock, serviceVars, Requests
  <2>2. UNCHANGED <<req[c].change, req[c].restoring, req[c].previous, req[c].next>>
    BY <1>0, <1>10 DEF WriteLock, Requests
  <2> QED
    BY <1>5, <2>1, <2>2 DEF Steps
<1>11. CASE SwapCore(c) \/ SetCatalog(c) \/ Reconcile(c)
  BY <1>0, <1>5, <1>11 DEF SwapCore, SetCatalog, Reconcile, serviceVars, history, Requests, Steps
<1> QED
  BY <1>4, <1>6, <1>7, <1>8, <1>9, <1>10, <1>11 DEF ReloadStep, ReadGeneration, Prepare, WriteLockFails,
       SwapFails, SwapWithoutCore, serviceVars, history

(* With one connection, nothing comes between writing the lock file, the   *)
(* swap and the catalog but the end of the Core.                           *)
LEMMA RequestKeepsCore ==
  ASSUME OneConnection, SerialInv, NEW c \in Conns, SaveStep(c) \/ ReloadStep(c) \/ AbortRequest(c)
  PROVE  SwapInv' /\ CatalogMatchesCore' /\ LockDescribesCore'
<1>0. \A d \in Conns : d = c
  BY DEF OneConnection
<1>1. req[c] \in Requests /\ req \in [Conns -> Requests] /\ TypeOK
  BY DEF SerialInv, DeploymentInv, TypeOK
<1>2. NoRequest.pc = "idle"
  BY DEF NoRequest
<1> SUFFICES /\ req'[c].pc = "swap" => lock' = Prepared(c)'
             /\ req'[c].pc = "swap" /\ core' # NoCore /\ ~lockFailed' => req'[c].oldLock = core'
             /\ req'[c].pc = "catalog" /\ core' # NoCore => core'.chosen = Resolve(req'[c].next)
             /\ core' # NoCore /\ req'[c].pc # "catalog" => catalog' = core'.chosen
             /\ core' # NoCore /\ ~lockFailed' /\ req'[c].pc # "swap" => lock' = core'
  BY <1>0 DEF SwapInv, CatalogMatchesCore, LockDescribesCore
<1>3. up /\ (core # NoCore /\ req[c].pc # "catalog" => catalog = core.chosen)
         /\ (core # NoCore /\ ~lockFailed /\ req[c].pc # "swap" => lock = core)
  BY <1>0, <1>1, RequestGoesOn DEF SerialInv, CatalogMatchesCore, LockDescribesCore
<1>4. /\ req[c].pc = "swap" => lock = Prepared(c)
      /\ req[c].pc = "swap" /\ core # NoCore /\ ~lockFailed => req[c].oldLock = core
      /\ req[c].pc = "catalog" /\ core # NoCore => core.chosen = Resolve(req[c].next)
  BY DEF SerialInv, SwapInv
<1> USE DEF At, Goto
<1>5. CASE SaveStep(c)
  <2>1. UNCHANGED <<core, catalog, lock, lockFailed>>
    BY <1>5 DEF SaveStep, SaveWrite, SaveWriteFails, SaveCheck, SaveRemove, SaveRemoveFails, SaveRename,
         SaveRenameFails, serviceVars, fileVars, history
  <2>2. req[c].pc \notin {"swap", "catalog"} /\ req'[c].pc \notin {"swap", "catalog"}
    BY <1>1, <1>2, <1>5 DEF SaveStep, SaveWrite, SaveWriteFails, SaveCheck, SaveRemove, SaveRemoveFails,
         SaveRename, SaveRenameFails, Requests
  <2> QED
    BY <1>3, <2>1, <2>2
<1>6. CASE AbortRequest(c) \/ ReadGeneration(c) \/ Prepare(c) \/ Reconcile(c) \/ Commit(c)
  <2>1. UNCHANGED <<core, catalog, lock, lockFailed>>
    BY <1>6 DEF AbortRequest, ReadGeneration, Prepare, Reconcile, Commit, serviceVars, fileVars, history
  <2>2. req[c].pc \notin {"swap", "catalog"} /\ req'[c].pc \notin {"swap", "catalog"}
    BY <1>1, <1>2, <1>6, ReloadFailedGoesOn DEF AbortRequest, ReadGeneration, Prepare, Reconcile,
         Commit, Requests
  <2> QED
    BY <1>3, <2>1, <2>2
<1>7. CASE WriteLock(c)
  <2>1. UNCHANGED <<core, catalog>> /\ lock' = Prepared(c) /\ req[c].pc = "lock"
    BY <1>7 DEF WriteLock, serviceVars
  <2>2. \/ req'[c] = [req[c] EXCEPT !.pc = "swap", !.oldLock = lock] /\ UNCHANGED lockFailed
        \/ req'[c] = [req[c] EXCEPT !.pc = "swap", !.oldLock = Missing] /\ lockFailed'
    BY <1>1, <1>7 DEF WriteLock
  <2>3. CASE /\ req'[c] = [req[c] EXCEPT !.pc = "swap", !.oldLock = lock]
             /\ UNCHANGED lockFailed
    <3>1. /\ req'[c].pc = "swap" /\ req'[c].next = req[c].next /\ req'[c].gen = req[c].gen
          /\ req'[c].oldLock = lock
      BY <1>1, <2>3 DEF Requests
    <3>2. Prepared(c)' = Prepared(c)
      BY <3>1 DEF Prepared
    <3> QED
      BY <1>3, <2>1, <2>3, <3>1, <3>2
  <2>4. CASE /\ req'[c] = [req[c] EXCEPT !.pc = "swap", !.oldLock = Missing]
             /\ lockFailed'
    <3>1. /\ req'[c].pc = "swap" /\ req'[c].next = req[c].next /\ req'[c].gen = req[c].gen
      BY <1>1, <2>4 DEF Requests
    <3>2. Prepared(c)' = Prepared(c)
      BY <3>1 DEF Prepared
    <3> QED
      BY <1>3, <2>1, <2>4, <3>1, <3>2
  <2> QED
    BY <2>2, <2>3, <2>4
<1>8. CASE WriteLockFails(c)
  <2>1. UNCHANGED <<core, catalog>> /\ lockFailed' /\ req[c].pc = "lock"
    BY <1>8 DEF WriteLockFails, serviceVars
  <2>2. req'[c].pc \notin {"swap", "catalog"}
    BY <1>1, <1>2, <1>8, ReloadFailedGoesOn DEF WriteLockFails
  <2> QED
    BY <1>3, <2>1, <2>2
<1>9. CASE SwapCore(c)
  <2>1. core' = Prepared(c) /\ lock' = Prepared(c) /\ UNCHANGED <<catalog, lockFailed>>
    BY <1>4, <1>9 DEF SwapCore, fileVars, history
  <2>2. req'[c] = [req[c] EXCEPT !.pc = "catalog"]
    BY <1>1, <1>9 DEF SwapCore
  <2>3. req'[c].pc = "catalog" /\ req'[c].next = req[c].next
    BY <1>1, <2>2 DEF Requests
  <2> QED
    BY <2>1, <2>3 DEF Prepared
<1>10. CASE SwapFails(c)
  <2>1. UNCHANGED <<core, catalog>> /\ req[c].pc = "swap"
        /\ ((lock' = req[c].oldLock /\ UNCHANGED lockFailed) \/ lockFailed')
    BY <1>10 DEF SwapFails, serviceVars
  <2>2. req'[c].pc \notin {"swap", "catalog"}
    BY <1>1, <1>2, <1>10, ReloadFailedGoesOn DEF SwapFails
  <2> QED
    BY <1>3, <1>4, <2>1, <2>2
<1>11. CASE SwapWithoutCore(c)
  <2>1. core' = NoCore
    BY <1>11 DEF SwapWithoutCore, serviceVars
  <2>2. req'[c].pc \notin {"swap", "catalog"}
    BY <1>1, <1>2, <1>11, ReloadFailedGoesOn DEF SwapWithoutCore
  <2> QED
    BY <2>1, <2>2
<1>12. CASE SetCatalog(c)
  <2>1. UNCHANGED <<core, lock, lockFailed>> /\ catalog' = Resolve(req[c].next) /\ req[c].pc = "catalog"
    BY <1>12 DEF SetCatalog, fileVars, history
  <2>2. req'[c].pc = "reconcile"
    BY <1>1, <1>12 DEF SetCatalog, Requests
  <2> QED
    BY <1>3, <1>4, <2>1, <2>2
<1> QED
  BY <1>5, <1>6, <1>7, <1>8, <1>9, <1>10, <1>11, <1>12 DEF ReloadStep

(* A request starts from the idle one.                                     *)
LEMMA IdleStep == DeploymentInv /\ IdleInv /\ [Next]_vars => IdleInv'
<1> SUFFICES ASSUME DeploymentInv, IdleInv, [Next]_vars PROVE IdleInv'
  OBVIOUS
<1> USE DEF DeploymentInv, IdleInv
<1>1. CASE Boot \/ BootFails \/ Crash \/ TakeCore
  BY <1>1 DEF Boot, BootFails, Crash, TakeCore
<1>2. ASSUME NEW c \in Conns,
             \/ \E p \in Plugins, k \in Kinds \cup {"none"} : BeginChange(c, p, k)
             \/ BeginReload(c)
      PROVE  IdleInv'
  BY <1>2 DEF BeginChange, BeginReload, NoRequest, TypeOK
<1>3. ASSUME NEW c \in Conns, SaveStep(c) \/ ReloadStep(c) \/ AbortRequest(c) PROVE IdleInv'
  BY <1>3, RequestGoesOn
<1>4. CASE UNCHANGED vars
  BY <1>4 DEF vars
<1> QED
  BY <1>1, <1>2, <1>3, <1>4 DEF Next

(* Beginning a request touches nothing but the request.                    *)
LEMMA BeginKeepsSerial ==
  ASSUME OneConnection, SerialInv, NEW c \in Conns,
         \/ \E p \in Plugins, k \in Kinds \cup {"none"} : BeginChange(c, p, k)
         \/ BeginReload(c)
  PROVE  FileInv' /\ SwapInv' /\ CatalogMatchesCore' /\ LockDescribesCore'
<1>0. \A d \in Conns : d = c
  BY DEF OneConnection
<1>1. UNCHANGED <<fileVars, serviceVars, history>> /\ req[c] = NoRequest /\ up /\ req[c].pc = "idle"
  BY DEF BeginChange, BeginReload, At, SerialInv, IdleInv
<1>2. /\ req'[c].pc \in {"write", "generation"} /\ req'[c].previous = memory /\ ~req'[c].restoring
      /\ req'[c].change <=> req'[c].pc = "write"
  BY ZenonT(30) DEF BeginChange, BeginReload, NoRequest, SerialInv, DeploymentInv, TypeOK
<1>3. ~req[c].change
  BY <1>1 DEF NoRequest
<1>4. FileInv'
  BY <1>0, <1>1, <1>2, <1>3 DEF SerialInv, FileInv, SaveSteps, fileVars, serviceVars, history, Loaded
<1>5. SwapInv' /\ CatalogMatchesCore' /\ LockDescribesCore'
  BY <1>0, <1>1, <1>2 DEF SerialInv, SwapInv, CatalogMatchesCore, LockDescribesCore, fileVars,
       serviceVars, history
<1> QED
  BY <1>4, <1>5

(* Every step keeps SerialInv. *)
LEMMA SerialInvStep == OneConnection /\ SerialInv /\ [Next]_vars => SerialInv'
<1> SUFFICES ASSUME OneConnection, SerialInv, [Next]_vars PROVE SerialInv'
  OBVIOUS
<1>0. DeploymentInv' /\ IdleInv'
  BY DeploymentInvStep, IdleStep DEF SerialInv
<1> SUFFICES FileInv' /\ SwapInv' /\ CatalogMatchesCore' /\ LockDescribesCore'
  BY <1>0 DEF SerialInv
<1>1. CASE Boot
  <2>1. \A c \in Conns : req[c] = NoRequest
    BY <1>1 DEF Boot, SerialInv, DeploymentInv, DownInv
  <2>2. UNCHANGED <<disk, req>> /\ disk # Garbled /\ memory' = Loaded(disk)
    BY <1>1 DEF Boot
  <2>3. FileInv'
    BY <2>1, <2>2 DEF FileInv, NoRequest, SaveSteps, Loaded
  <2>4. SwapInv' /\ CatalogMatchesCore' /\ LockDescribesCore'
    BY <1>1, <2>1 DEF Boot, SwapInv, CatalogMatchesCore, LockDescribesCore, NoRequest
  <2> QED
    BY <2>3, <2>4
<1>7. CASE BootFails
  <2>1. \A c \in Conns : req[c] = NoRequest
    BY <1>7 DEF BootFails, SerialInv, DeploymentInv, DownInv
  <2>2. ~up' /\ UNCHANGED <<disk, temp, req, memory, core, interrupted>>
    BY <1>7 DEF BootFails, serviceVars, history
  <2>3. FileInv'
    BY <2>1, <2>2 DEF SerialInv, FileInv, NoRequest, SaveSteps
  <2> QED
    BY <2>1, <2>2, <2>3 DEF SwapInv, CatalogMatchesCore, LockDescribesCore, NoRequest
<1>2. CASE Crash
  <2>1. \A c \in Conns : req'[c] = NoRequest
    BY <1>2 DEF Crash
  <2>2. ~up' /\ core' = NoCore /\ disk' = disk
    BY <1>2 DEF Crash, fileVars
  <2>3. FileInv'
    BY <2>1, <2>2 DEF SerialInv, FileInv, NoRequest, SaveSteps
  <2> QED
    BY <2>1, <2>2, <2>3 DEF SwapInv, CatalogMatchesCore, LockDescribesCore, NoRequest
<1>3. CASE TakeCore
  <2>1. core' = NoCore /\ UNCHANGED <<disk, temp, lock, up, memory, req, interrupted>>
    BY <1>3 DEF TakeCore, fileVars, history
  <2> QED
    BY <2>1 DEF SerialInv, FileInv, Saving, Loaded, SwapInv, Prepared, CatalogMatchesCore, LockDescribesCore
<1>4. ASSUME NEW c \in Conns,
             \/ \E p \in Plugins, k \in Kinds \cup {"none"} : BeginChange(c, p, k)
             \/ BeginReload(c)
      PROVE  FileInv' /\ SwapInv' /\ CatalogMatchesCore' /\ LockDescribesCore'
  BY <1>4, BeginKeepsSerial
<1>5. ASSUME NEW c \in Conns, SaveStep(c) \/ ReloadStep(c) \/ AbortRequest(c)
      PROVE  FileInv' /\ SwapInv' /\ CatalogMatchesCore' /\ LockDescribesCore'
  BY <1>5, SaveKeepsFiles, ReloadKeepsFiles, RequestKeepsCore
<1>6. CASE UNCHANGED vars
  BY <1>6 DEF vars, SerialInv, FileInv, Saving, Loaded, SwapInv, Prepared, CatalogMatchesCore, LockDescribesCore
<1> QED
  BY <1>1, <1>2, <1>3, <1>4, <1>5, <1>6, <1>7 DEF Next

(* The initial states satisfy SerialInv. *)
LEMMA SerialInvInit == Init => SerialInv
<1> SUFFICES ASSUME Init PROVE SerialInv
  OBVIOUS
<1>1. \A c \in Conns : req[c] = NoRequest
  BY DEF Init
<1>2. FileInv
  BY <1>1, DeploymentAssumption DEF Init, FileInv, NoRequest, SaveSteps
<1>3. SwapInv /\ IdleInv /\ CatalogMatchesCore /\ LockDescribesCore
  BY <1>1 DEF Init, SwapInv, IdleInv, NoRequest, CatalogMatchesCore, LockDescribesCore
<1> QED
  BY <1>2, <1>3, DeploymentInvInit DEF SerialInv

(* SerialInv is an invariant of the specification. *)
LEMMA SerialInvHolds == OneConnection => (Spec => []SerialInv)
<1> SUFFICES ASSUME OneConnection PROVE Spec => []SerialInv
  OBVIOUS
<1>1. SerialInv /\ [Next]_vars => SerialInv'
  BY SerialInvStep
<1> QED
  BY <1>1, SerialInvInit, PTL DEF Spec

-----------------------------------------------------------------------------
(* Type correctness of the deployment of plugins, for any set of           *)
(* connections.                                                            *)
THEOREM DeploymentTypeCorrect == Spec => []TypeOK
<1>1. DeploymentInv => TypeOK
  BY DEF DeploymentInv
<1> QED
  BY <1>1, DeploymentInvHolds, PTL

(* For any set of connections: a preference file that parses resolves,     *)
(* however saves and crashes interleave, so resolve_catalog never refuses  *)
(* it at the next start (change_plugin_deployment resolves before it       *)
(* saves).  Whether the Core then boots with it is not said.               *)
ParsedPreferenceResolves == disk \notin {Missing, Garbled} => Resolvable(disk)

(* ParsedPreferenceResolves holds on every path through saves and crashes  *)
(* (save_deployment_state).                                                *)
THEOREM ParsedPreferenceCorrect == Spec => []ParsedPreferenceResolves
<1>1. DeploymentInv => ParsedPreferenceResolves
  BY DEF DeploymentInv, TypeOK, KeptInv, ParsedPreferenceResolves
<1> QED
  BY <1>1, DeploymentInvHolds, PTL

(* For any set of connections: Core runs and the catalog reports only      *)
(* deployments that were found for the plugin, however reloads interleave  *)
(* (resolve_catalog, reload_catalog).                                      *)
THEOREM RunsWhatWasFoundCorrect == Spec => []RunsWhatWasFound
<1>1. DeploymentInv => RunsWhatWasFound
  BY DEF DeploymentInv
<1> QED
  BY <1>1, DeploymentInvHolds, PTL

(* With one connection, the file on disk parses and resolves, whatever     *)
(* failed, was aborted or crashed in between (save_deployment_state,       *)
(* load_deployment_state).                                                 *)
THEOREM StoredPreferenceCorrect == OneConnection => (Spec => []StoredPreferenceResolves)
<1> SUFFICES ASSUME OneConnection PROVE Spec => []StoredPreferenceResolves
  OBVIOUS
<1>1. SerialInv => StoredPreferenceResolves
  BY DEF SerialInv, FileInv, DeploymentInv, TypeOK, KeptInv, StoredPreferenceResolves
<1> QED
  BY <1>1, SerialInvHolds, PTL

(* With one connection, the reported catalog is the running Core's, aborts *)
(* and the end of the Core included (reload_catalog).                      *)
THEOREM CatalogCorrect == OneConnection => (Spec => []CatalogMatchesCore)
<1> SUFFICES ASSUME OneConnection PROVE Spec => []CatalogMatchesCore
  OBVIOUS
<1>1. SerialInv => CatalogMatchesCore
  BY DEF SerialInv
<1> QED
  BY <1>1, SerialInvHolds, PTL

(* With one connection, runtime.lock.json describes the running Core       *)
(* (write_runtime_lock, restore_runtime_lock).                             *)
THEOREM LockCorrect == OneConnection => (Spec => []LockDescribesCore)
<1> SUFFICES ASSUME OneConnection PROVE Spec => []LockDescribesCore
  OBVIOUS
<1>1. SerialInv => LockDescribesCore
  BY DEF SerialInv
<1> QED
  BY <1>1, SerialInvHolds, PTL

(* With one connection, a change that ran to its end leaves memory and     *)
(* disk in agreement (change_plugin_deployment).                           *)
THEOREM CompletedChangeCorrect == OneConnection /\ Conns # {} => (Spec => []CompletedChangeAgrees)
<1> SUFFICES ASSUME OneConnection, Conns # {} PROVE Spec => []CompletedChangeAgrees
  OBVIOUS
<1>1. SerialInv => CompletedChangeAgrees
  BY DEF SerialInv, IdleInv, FileInv, NoRequest, CompletedChangeAgrees, Quiet
<1> QED
  BY <1>1, SerialInvHolds, PTL
=============================================================================
