------------------------------- MODULE Daemon -------------------------------
(***************************************************************************)
(* Installing, starting, stopping and uninstalling the service             *)
(* (mutsuki-service-daemon/src/lib.rs, called by mutsuki-service-host/src/ *)
(* main.rs) under systemd, launchd and the Windows service manager.  Every *)
(* command of the CLI first loads the configuration, and so does the       *)
(* service when its manager launches it: ensure_control_token of           *)
(* mutsuki-service-config/src/lib.rs reads control.token or generates it,  *)
(* truncating and then writing the file.  The CLI may be killed, the       *)
(* machine may restart and any external command may fail at every step.    *)
(***************************************************************************)
EXTENDS Naturals

CONSTANTS
  MaxOps,      \* bound: commands given
  MaxFaults    \* bound: crashes of the service and restarts of the machine

ASSUME DaemonAssumption == MaxOps \in Nat /\ MaxFaults \in Nat

Cli == "cli"

Service == "service"

NoToken == 0      \* no token file; no token loaded yet

EmptyFile == 1       \* the file as fs::write has truncated it

GivenToken == 2       \* the token of --token

MaxToken == GivenToken + MaxOps + 2 * MaxFaults + MaxOps

VARIABLES
  dmOs,       \* the service manager
  dmOp,       \* the command being executed
  dmStep,     \* how far it is
  dmGiven,    \* it was given a token
  dmLoad,     \* ensure_control_token of the CLI and of the service
  dmTok,      \* the token each of them has
  dmFile,     \* run/control.token
  dmNext,     \* the next token to be generated
  dmDef,      \* the definition file, or the entry of the Windows manager
  dmMarked,   \* that entry is marked for deletion
  dmLoaded,   \* the manager has the definition loaded
  dmEnabled,  \* it is started with the machine
  dmProc,     \* the service process
  dmStale,    \* a token was persisted under, or generated beside, the service's
  dmIgnored,  \* a stop command failed and uninstall went on
  dmRemoved,  \* uninstall has returned Ok, and nothing was asked for since
  dmOps,
  dmFaults

manager == <<dmDef, dmMarked, dmLoaded, dmEnabled>>

tokens == <<dmLoad, dmTok, dmFile, dmNext, dmStale>>

history == <<dmIgnored, dmRemoved, dmOps, dmFaults>>

dmVars == <<dmOs, dmOp, dmStep, dmGiven, tokens, manager, dmProc, history>>

Unix == dmOs \in {"systemd", "launchd"}

Steps == {"idle", "begin", "persist", "own", "define", "reload", "enable", "disable",
          "remove", "unload", "wait_stopped", "delete", "wait_deleted"}

DaemonTypeOK ==
  /\ dmOs \in {"systemd", "launchd", "windows"}
  /\ dmOp \in {"install", "start", "stop", "uninstall"} /\ dmStep \in Steps /\ dmGiven \in BOOLEAN
  /\ dmLoad \in [{Cli, Service} -> {"idle", "read", "generate", "write"}]
  /\ dmTok \in [{Cli, Service} -> 0..MaxToken] /\ dmFile \in 0..MaxToken /\ dmNext \in 3..MaxToken + 1
  /\ dmDef \in BOOLEAN /\ dmMarked \in BOOLEAN /\ dmLoaded \in BOOLEAN /\ dmEnabled \in BOOLEAN
  /\ dmProc \in {"none", "loading", "starting", "running", "stopping", "stopped"}
  /\ dmStale \in BOOLEAN /\ dmIgnored \in BOOLEAN /\ dmRemoved \in BOOLEAN
  /\ dmOps \in 0..MaxOps /\ dmFaults \in 0..MaxFaults

DaemonInit ==
  /\ dmOs \in {"systemd", "launchd", "windows"}
  /\ dmOp = "install" /\ dmStep = "idle" /\ dmGiven = FALSE
  /\ dmLoad = [p \in {Cli, Service} |-> "idle"] /\ dmTok = [p \in {Cli, Service} |-> NoToken]
  /\ dmFile = NoToken /\ dmNext = GivenToken + 1
  /\ dmDef = FALSE /\ dmMarked = FALSE /\ dmLoaded = FALSE /\ dmEnabled = FALSE
  /\ dmProc = "none" /\ dmStale = FALSE /\ dmIgnored = FALSE /\ dmRemoved = FALSE
  /\ dmOps = 0 /\ dmFaults = 0

-----------------------------------------------------------------------------
\* ensure_control_token, in the CLI and in the service.
Other(p) == IF p = Cli THEN Service ELSE Cli

Generating(p) == dmLoad[p] \in {"generate", "write"}

\* Mutant: whatever the file holds is the token.
LoadReads_AnyContent(p) ==
  /\ dmLoad[p] = "read"
  /\ IF dmFile = NoToken
     THEN /\ dmLoad' = [dmLoad EXCEPT ![p] = "generate"]
          /\ dmStale' = (dmStale \/ Generating(Other(p)))
          /\ UNCHANGED dmTok
     ELSE /\ dmLoad' = [dmLoad EXCEPT ![p] = "idle"]
          /\ dmTok' = [dmTok EXCEPT ![p] = dmFile]
          /\ UNCHANGED dmStale
  /\ UNCHANGED <<dmFile, dmNext>>

LoadReads(p) ==
  /\ dmLoad[p] = "read"
  /\ IF dmFile \in {NoToken, EmptyFile}
     THEN /\ dmLoad' = [dmLoad EXCEPT ![p] = "generate"]
          /\ dmStale' = (dmStale \/ Generating(Other(p)))
          /\ UNCHANGED dmTok
     ELSE /\ dmLoad' = [dmLoad EXCEPT ![p] = "idle"]
          /\ dmTok' = [dmTok EXCEPT ![p] = dmFile]
          /\ UNCHANGED dmStale
  /\ UNCHANGED <<dmFile, dmNext>>

LoadTruncates(p) ==
  /\ dmLoad[p] = "generate"
  /\ dmFile' = EmptyFile /\ dmNext' = dmNext + 1
  /\ dmTok' = [dmTok EXCEPT ![p] = dmNext]
  /\ dmLoad' = [dmLoad EXCEPT ![p] = "write"]
  /\ UNCHANGED dmStale

LoadWrites(p) ==
  /\ dmLoad[p] = "write"
  /\ dmFile' = dmTok[p]
  /\ dmLoad' = [dmLoad EXCEPT ![p] = "idle"]
  /\ UNCHANGED <<dmTok, dmNext, dmStale>>

LoadToken(p) ==
  /\ LoadReads(p) \/ LoadTruncates(p) \/ LoadWrites(p)
  /\ UNCHANGED <<dmOs, dmOp, dmStep, dmGiven, manager, dmProc, history>>

-----------------------------------------------------------------------------
\* main: the configuration is loaded, then the command runs.
BeginOp(op, given) ==
  /\ dmStep = "idle" /\ dmOps < MaxOps
  /\ dmOp' = op /\ dmStep' = "begin" /\ dmGiven' = given /\ dmOps' = dmOps + 1
  /\ dmLoad' = [dmLoad EXCEPT ![Cli] = IF given THEN "idle" ELSE "read"]
  /\ dmTok' = [dmTok EXCEPT ![Cli] = IF given THEN GivenToken ELSE NoToken]
  /\ dmRemoved' = FALSE
  /\ UNCHANGED <<dmOs, dmFile, dmNext, dmStale, manager, dmProc, dmIgnored, dmFaults>>

\* The command runs on systems os and has come to step.
AtStep(os, op, step) == dmOs \in os /\ dmOp = op /\ dmStep = step /\ dmLoad[Cli] = "idle"

StepTo(step) == dmStep' = step

CommandDone == dmStep' = "idle"

\* A step fails and its error is returned: the steps before are not undone.
\* disable is not among them: its failure is ignored.
CommandFails ==
  /\ dmStep \notin {"idle", "disable"} /\ CommandDone
  /\ dmLoad' = [dmLoad EXCEPT ![Cli] = "idle"]
  /\ ~(dmOp = "uninstall" /\ dmStep = "begin" /\ Unix /\ dmLoad[Cli] = "idle")
  /\ UNCHANGED <<dmOs, dmOp, dmGiven, dmTok, dmFile, dmNext, dmStale, manager, dmProc, history>>

\* Ctrl-C, anywhere.
CliKilled ==
  /\ dmStep # "idle" /\ CommandDone
  /\ dmLoad' = [dmLoad EXCEPT ![Cli] = "idle"]
  /\ UNCHANGED <<dmOs, dmOp, dmGiven, dmTok, dmFile, dmNext, dmStale, manager, dmProc, history>>

\* persist_control_token, with the truncation of fs::write, and after it the
\* permissions and the owner.
PersistToken ==
  /\ \/ /\ AtStep({"systemd", "launchd", "windows"}, "install", "begin") /\ dmGiven
        /\ dmFile' = EmptyFile /\ StepTo("persist")
     \/ /\ dmStep = "persist"
        /\ dmFile' = GivenToken /\ StepTo("own")
  /\ dmStale' = (dmStale \/ dmProc # "none")
  /\ UNCHANGED <<dmOs, dmOp, dmGiven, dmLoad, dmTok, dmNext, manager, dmProc, history>>

\* validate_scope has passed; the token, if one was given, is stored.
BeginDefine ==
  /\ \/ AtStep({"systemd", "launchd", "windows"}, "install", "begin") /\ ~dmGiven
     \/ dmStep = "own"
  /\ StepTo("define")
  /\ UNCHANGED <<dmOs, dmOp, dmGiven, tokens, manager, dmProc, history>>

\* write_definition renames the file into place.
WriteDefinition ==
  /\ dmStep = "define" /\ Unix
  /\ dmDef' = TRUE /\ StepTo(IF dmOs = "systemd" THEN "reload" ELSE "enable")
  /\ UNCHANGED <<dmOs, dmOp, dmGiven, tokens, dmMarked, dmLoaded, dmEnabled, dmProc, history>>

\* create_service refuses an existing entry; the new one is started with the
\* machine.  The entry stays if set_description then fails.
CreateService ==
  /\ dmStep = "define" /\ dmOs = "windows" /\ ~dmDef
  /\ dmDef' = TRUE /\ dmEnabled' = TRUE /\ CommandDone
  /\ UNCHANGED <<dmOs, dmOp, dmGiven, tokens, dmMarked, dmLoaded, dmProc, history>>

DaemonReload ==
  /\ dmStep = "reload" /\ dmLoaded' = TRUE /\ StepTo("enable")
  /\ UNCHANGED <<dmOs, dmOp, dmGiven, tokens, dmDef, dmMarked, dmEnabled, dmProc, history>>

Enable ==
  /\ dmStep = "enable" /\ dmEnabled' = TRUE /\ CommandDone
  /\ UNCHANGED <<dmOs, dmOp, dmGiven, tokens, dmDef, dmMarked, dmLoaded, dmProc, history>>

-----------------------------------------------------------------------------
\* The manager starts a new process, which begins with its configuration.
Launch ==
  /\ dmProc' = "loading"
  /\ dmLoad' = [dmLoad EXCEPT ![Service] = "read"]
  /\ dmTok' = [dmTok EXCEPT ![Service] = NoToken]
  /\ dmStale' = (dmStale /\ Generating(Cli))
  /\ UNCHANGED <<dmFile, dmNext>>

ProcessStopped ==
  /\ dmProc' = "none"
  /\ dmLoad' = [dmLoad EXCEPT ![Service] = "idle"]
  /\ UNCHANGED <<dmTok, dmFile, dmNext, dmStale>>

\* There is no process, or it has told the Windows manager that it is stopped
\* and is on its way out.
Down == dmProc \in {"none", "stopped"}

LaunchIfDown == IF Down THEN Launch ELSE UNCHANGED <<tokens, dmProc>>

\* start: systemctl start loads the unit it finds.
StartUnit ==
  /\ AtStep({"systemd"}, "start", "begin") /\ CommandDone
  /\ dmDef \/ dmLoaded
  /\ dmLoaded' = TRUE /\ LaunchIfDown
  /\ UNCHANGED <<dmOs, dmOp, dmGiven, dmDef, dmMarked, dmEnabled, history>>

\* launchctl: kickstart -k restarts a loaded job, bootstrap loads another.
StartJob ==
  /\ AtStep({"launchd"}, "start", "begin") /\ CommandDone
  /\ dmDef \/ dmLoaded
  /\ dmLoaded' = TRUE /\ Launch
  /\ UNCHANGED <<dmOs, dmOp, dmGiven, dmDef, dmMarked, dmEnabled, history>>

\* The Windows manager answers a start in any state but stopped with "already
\* running", which counts as success.
StartService ==
  /\ AtStep({"windows"}, "start", "begin") /\ CommandDone
  /\ dmDef /\ ~dmMarked /\ LaunchIfDown
  /\ UNCHANGED <<dmOs, dmOp, dmGiven, dmLoaded, dmDef, dmMarked, dmEnabled, history>>

\* stop is a control request: the service accepts its own token only.
StopRequest ==
  /\ AtStep({dmOs}, "stop", "begin") /\ CommandDone
  /\ dmProc' = IF dmProc = "running" /\ dmTok[Cli] = dmTok[Service] THEN "stopping" ELSE dmProc
  /\ UNCHANGED <<dmOs, dmOp, dmGiven, tokens, manager, history>>

-----------------------------------------------------------------------------
\* uninstall under systemd: the unit is stopped, disabled, removed and unloaded.
\* A failing stop or disable is ignored.
StopUnit ==
  /\ AtStep({"systemd"}, "uninstall", "begin") /\ StepTo("disable")
  /\ \/ ProcessStopped /\ dmIgnored' = FALSE
     \/ dmIgnored' = (dmProc # "none") /\ UNCHANGED <<tokens, dmProc>>
  /\ UNCHANGED <<dmOs, dmOp, dmGiven, manager, dmRemoved, dmOps, dmFaults>>

Disable ==
  /\ dmStep = "disable" /\ StepTo("remove")
  /\ dmEnabled' \in {dmEnabled, FALSE}
  /\ UNCHANGED <<dmOs, dmOp, dmGiven, tokens, dmDef, dmMarked, dmLoaded, dmProc, history>>

RemoveUnit ==
  /\ dmStep = "remove" /\ dmOs = "systemd"
  /\ dmDef' = FALSE /\ StepTo("unload")
  /\ UNCHANGED <<dmOs, dmOp, dmGiven, tokens, dmMarked, dmLoaded, dmEnabled, dmProc, history>>

Unload ==
  /\ dmStep = "unload" /\ dmLoaded' = FALSE /\ dmRemoved' = TRUE /\ CommandDone
  /\ UNCHANGED <<dmOs, dmOp, dmGiven, tokens, dmDef, dmMarked, dmEnabled, dmProc,
                 dmIgnored, dmOps, dmFaults>>

\* uninstall under launchd: the job is booted out, or that fails and is ignored,
\* and the plist removed.
BootOut ==
  /\ AtStep({"launchd"}, "uninstall", "begin") /\ StepTo("remove")
  /\ \/ ProcessStopped /\ dmIgnored' = FALSE /\ dmLoaded' = FALSE
     \/ dmIgnored' = (dmProc # "none") /\ UNCHANGED <<tokens, dmProc, dmLoaded>>
  /\ UNCHANGED <<dmOs, dmOp, dmGiven, dmDef, dmMarked, dmEnabled, dmRemoved, dmOps, dmFaults>>

RemovePlist ==
  /\ dmStep = "remove" /\ dmOs = "launchd"
  /\ dmDef' = FALSE /\ dmRemoved' = TRUE /\ CommandDone
  /\ UNCHANGED <<dmOs, dmOp, dmGiven, tokens, dmMarked, dmLoaded, dmEnabled, dmProc,
                 dmIgnored, dmOps, dmFaults>>

\* uninstall on Windows.  A service that is starting accepts no stop control;
\* one that is stopping already is not waited for.
OpenService ==
  /\ AtStep({"windows"}, "uninstall", "begin")
  /\ dmIgnored' = FALSE /\ dmRemoved' = ~dmDef
  /\ \/ ~dmDef /\ CommandDone /\ UNCHANGED dmProc
     \/ dmDef /\ (Down \/ dmProc = "stopping") /\ StepTo("delete") /\ UNCHANGED dmProc
     \/ dmDef /\ dmProc = "running" /\ StepTo("wait_stopped") /\ dmProc' = "stopping"
  /\ UNCHANGED <<dmOs, dmOp, dmGiven, tokens, manager, dmOps, dmFaults>>

WaitStopped ==
  /\ dmStep = "wait_stopped" /\ Down /\ StepTo("delete")
  /\ UNCHANGED <<dmOs, dmOp, dmGiven, tokens, manager, dmProc, history>>

\* delete marks the entry; it goes when the service has reported its stop.
DeleteService ==
  /\ dmStep = "delete" /\ StepTo("wait_deleted")
  /\ dmDef' = ~Down /\ dmMarked' = ~Down
  /\ UNCHANGED <<dmOs, dmOp, dmGiven, tokens, dmLoaded, dmEnabled, dmProc, history>>

\* Mutant: uninstall returns without waiting for the entry to go.
WaitDeleted_NoWait ==
  /\ dmStep = "wait_deleted"
  /\ dmRemoved' = TRUE /\ CommandDone
  /\ UNCHANGED <<dmOs, dmOp, dmGiven, tokens, manager, dmProc, dmIgnored, dmOps, dmFaults>>

WaitDeleted ==
  /\ dmStep = "wait_deleted" /\ ~dmDef
  /\ dmRemoved' = TRUE /\ CommandDone
  /\ UNCHANGED <<dmOs, dmOp, dmGiven, tokens, manager, dmProc, dmIgnored, dmOps, dmFaults>>

-----------------------------------------------------------------------------
\* The service process.  On Windows run_service reports its states to the
\* manager, and the process ends some time after it has reported its stop: the
\* runtime is dropped after it.
ServiceProceeds ==
  /\ \/ dmProc = "loading" /\ dmLoad[Service] = "idle" /\ dmProc' = "starting" /\ UNCHANGED tokens
     \/ dmProc = "starting" /\ dmProc' = "running" /\ UNCHANGED tokens
     \/ dmProc = "stopping" /\ ~Unix /\ dmProc' = "stopped" /\ UNCHANGED tokens
     \/ dmProc = (IF Unix THEN "stopping" ELSE "stopped") /\ ProcessStopped
  /\ LET gone == dmMarked /\ Down' IN
       dmDef' = (dmDef /\ ~gone) /\ dmMarked' = (dmMarked /\ ~gone)
  /\ UNCHANGED <<dmOs, dmOp, dmStep, dmGiven, dmLoaded, dmEnabled, history>>

\* The process dies.  Restart=on-failure and KeepAlive launch it again.
ServiceCrashes ==
  /\ dmProc # "none" /\ dmFaults < MaxFaults /\ dmFaults' = dmFaults + 1
  /\ IF Unix /\ dmLoaded THEN Launch ELSE ProcessStopped
  /\ dmDef' = (dmDef /\ ~dmMarked) /\ dmMarked' = FALSE
  /\ UNCHANGED <<dmOs, dmOp, dmStep, dmGiven, dmLoaded, dmEnabled, dmIgnored, dmRemoved, dmOps>>

\* The machine restarts: what is defined is loaded, what is enabled started.
Reboot ==
  /\ dmFaults < MaxFaults /\ dmFaults' = dmFaults + 1
  /\ CommandDone /\ dmMarked' = FALSE /\ dmDef' = (dmDef /\ ~dmMarked)
  /\ dmLoaded' = (Unix /\ dmDef)
  /\ LET up == dmDef' /\ dmEnabled IN
       /\ dmProc' = IF up THEN "loading" ELSE "none"
       /\ dmLoad' = [p \in {Cli, Service} |-> IF p = Service /\ up THEN "read" ELSE "idle"]
  /\ dmTok' = [p \in {Cli, Service} |-> NoToken] /\ dmStale' = FALSE
  /\ UNCHANGED <<dmOs, dmOp, dmGiven, dmFile, dmNext, dmEnabled, dmIgnored, dmRemoved, dmOps>>

DaemonNext ==
  \/ \E op \in {"install", "start", "stop", "uninstall"}, given \in BOOLEAN : BeginOp(op, given)
  \/ \E p \in {Cli, Service} : LoadToken(p)
  \/ CommandFails \/ CliKilled
  \/ PersistToken \/ BeginDefine \/ WriteDefinition \/ CreateService \/ DaemonReload \/ Enable
  \/ StartUnit \/ StartJob \/ StartService \/ StopRequest
  \/ StopUnit \/ Disable \/ RemoveUnit \/ Unload \/ BootOut \/ RemovePlist
  \/ OpenService \/ WaitStopped \/ DeleteService \/ WaitDeleted
  \/ ServiceProceeds \/ ServiceCrashes \/ Reboot

DaemonSpec == DaemonInit /\ [][DaemonNext]_dmVars

-----------------------------------------------------------------------------
\* The running service and every CLI that loads the stored token agree on it,
\* and it is not empty, however often commands were killed while they wrote the
\* file, except where install persisted another token while the service was up
\* or both generated one at the same time.
TokenAgreement ==
  dmProc \in {"starting", "running"} /\ ~dmStale =>
    dmFile = dmTok[Service] /\ dmFile \notin {NoToken, EmptyFile}

\* "uninstall also stops a running service before removing its definition":
\* once it has returned Ok there is no definition and no service that goes on,
\* at most a process that has reported its stop.
UninstallStops == dmRemoved => ~dmDef /\ Down

\* UninstallStops fails only where a stop command failed and uninstall ignored
\* it (systemctl stop, launchctl bootout): whatever else fails is returned as
\* an error, and on Windows the wait for the entry to go covers a service that
\* was starting or stopping already.  The definition is gone in any case.
UninstallStopsUnlessIgnored == dmRemoved => ~dmDef /\ (Down \/ dmIgnored)
=============================================================================
