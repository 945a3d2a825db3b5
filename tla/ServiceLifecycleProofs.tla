------------------------ MODULE ServiceLifecycleProofs ------------------------
(***************************************************************************)
(* Theorems about ServiceLifecycle, for any set of connections.            *)
(***************************************************************************)
EXTENDS ServiceLifecycle, TLAPS

(* In which phases the Core and the event sources run.                     *)
PhaseInv ==
  /\ phase \in {"booted", "launched", "listening", "linked", "serving", "closing",
                "draining", "closed", "quiet", "stopped"} => core
  /\ sources => phase \in {"serving", "closing", "draining", "closed"}

(* The link serves nobody before it is started, and what shutdown has      *)
(* closed stays closed.                                                    *)
ClosedInv ==
  /\ phase \in Starting \ {"linked"} => peer[Link] = "none"
  /\ phase \in Stopping => peer[Link] = "none" \/ linkAborted
  /\ linkAborted => phase \in Stopping \cup {"exited"}
  /\ phase \in Stopping \ {"closing"} => drain

LifecycleInv == TypeOK /\ PhaseInv /\ ClosedInv

(* A process that has just started satisfies LifecycleInv. *)
LEMMA InitLifecycle == Init => LifecycleInv
BY LifecycleAssumption
DEF Init, LifecycleInv, TypeOK, PhaseInv, ClosedInv, Phases, Starting, Stopping,
    PeerStates, Peers

(* The steps of start and shutdown.                                        *)
LEMMA HostKeeps ==
  ASSUME LifecycleInv,
         StartStep \/ ShutdownStep \/ ShutdownSignalled \/ AcceptLoopEnds \/ LinkDropped
  PROVE  LifecycleInv'
<1> USE LifecycleAssumption
        DEF LifecycleInv, TypeOK, PhaseInv, ClosedInv, Phases, Starting, Stopping,
            PeerStates, Peers, peerVars, hostVars
<1>1. CASE BootCore
  BY <1>1 DEF BootCore
<1>2. CASE BootFails
  BY <1>2 DEF BootFails
<1>3. CASE StartSidecars
  BY <1>3 DEF StartSidecars
<1>4. CASE StartIpc
  BY <1>4 DEF StartIpc
<1>5. CASE IpcDisabled
  BY <1>5 DEF IpcDisabled
<1>6. CASE IpcFails
  BY <1>6 DEF IpcFails
<1>7. CASE StartLink
  BY <1>7 DEF StartLink
<1>8. CASE LinkFails
  BY <1>8 DEF LinkFails
<1>9. CASE StartSources
  BY <1>9 DEF StartSources
<1>10. CASE DropLink
  <2>1. linkAborted' \in BOOLEAN /\ (peer[Link] = "none" \/ linkAborted')
    BY <1>10 DEF DropLink
  <2>2. /\ phase' = "closing" /\ core
        /\ UNCHANGED <<core, sources, listening, drain, asked, runner, peer, method, holder>>
    BY <1>10 DEF DropLink
  <2>3. TypeOK'
    BY <2>1, <2>2
  <2>4. PhaseInv' /\ ClosedInv'
    BY <2>1, <2>2
  <2> QED
    BY <2>3, <2>4
<1>18. CASE LinkDropped
  <2>1. /\ peer' = [peer EXCEPT ![Link] = "gone"]
        /\ holder' = IF holder = Link THEN Nobody ELSE holder
        /\ runner' \in {"unknown", "started", "stopped"} /\ UNCHANGED method
        /\ UNCHANGED <<phase, core, sources, listening, drain, linkAborted, asked>> /\ linkAborted
        /\ peer[Link] # "gone"
    BY <1>18 DEF LinkDropped, Dropped
  <2>2. peer' \in [Peers -> PeerStates] /\ holder' \in Peers \cup {Nobody}
    BY <2>1
  <2>3. \A c \in Peers : holder' = c <=> peer'[c] = "restarting"
    BY <2>1
  <2>4. TypeOK'
    BY <2>1, <2>2, <2>3
  <2>5. PhaseInv'
    BY <2>1
  <2>6. phase \in Stopping => linkAborted'
    BY <2>1
  <2>7. ClosedInv'
    BY <2>1, <2>6
  <2> QED
    BY <2>4, <2>5, <2>7
<1>11. CASE SignalDrain
  BY <1>11 DEF SignalDrain
<1>12. CASE CloseListener
  BY <1>12 DEF CloseListener
<1>13. CASE StopSources
  BY <1>13 DEF StopSources
<1>14. CASE StopRunners
  BY <1>14 DEF StopRunners
<1>15. CASE TakeCore
  BY <1>15 DEF TakeCore
<1>16. CASE Exit
  BY <1>16 DEF Exit
<1>17. CASE AcceptLoopEnds
  BY <1>17, ZenonT(30) DEF AcceptLoopEnds
<1> QED
  BY <1>1, <1>2, <1>3, <1>4, <1>5, <1>6, <1>7, <1>8, <1>9, <1>10, <1>11, <1>12,
     <1>13, <1>14, <1>15, <1>16, <1>17, <1>18
  DEF StartStep, ShutdownStep, ShutdownRequested, ShutdownSignalled

(* The steps of a peer.                                                    *)
LEMMA PeerKeeps ==
  ASSUME LifecycleInv, NEW c \in Peers,
         PeerStep(c) \/ (c \in Conns /\ ConnectionStep(c))
  PROVE  LifecycleInv'
<1> USE LifecycleAssumption
        DEF LifecycleInv, TypeOK, PhaseInv, ClosedInv, Phases, Starting, Stopping,
            PeerStates, Peers, peerVars, hostVars
<1>1. ASSUME NEW m \in {"stop", "restart"}, Admit(c, m)
      PROVE  LifecycleInv'
  BY <1>1 DEF Admit
<1>2. CASE PayloadArrives(c)
  BY <1>2 DEF PayloadArrives
<1>3. CASE ReadFails(c)
  BY <1>3 DEF ReadFails
<1>4. CASE HandleStop(c)
  BY <1>4 DEF HandleStop
<1>5. CASE RestartBegins(c)
  BY <1>5 DEF RestartBegins
<1>6. CASE RestartEnds(c)
  BY <1>6 DEF RestartEnds
<1>7. CASE Reply(c)
  BY <1>7 DEF Reply
<1>8. CASE c \in Conns /\ Accept(c)
  BY <1>8 DEF Accept
<1>9. CASE c \in Conns /\ FirstByte(c)
  BY <1>9 DEF FirstByte
<1>10. CASE c \in Conns /\ ConnectionEnds(c)
  BY <1>10 DEF ConnectionEnds
<1>11. CASE c \in Conns /\ RequestCancelled(c)
  BY <1>11 DEF RequestCancelled, Dropped, Busy
<1>12. CASE c \in Conns /\ DrainDeadline(c)
  BY <1>12 DEF DrainDeadline, Dropped, Busy
<1> QED
  BY <1>1, <1>2, <1>3, <1>4, <1>5, <1>6, <1>7, <1>8, <1>9, <1>10, <1>11, <1>12
  DEF PeerStep, ConnectionStep

(* Every step of the service keeps LifecycleInv. *)
LEMMA NextKeeps == LifecycleInv /\ [Next]_vars => LifecycleInv'
<1> SUFFICES ASSUME LifecycleInv, [Next]_vars PROVE LifecycleInv'
  OBVIOUS
<1>1. CASE UNCHANGED vars
  BY <1>1 DEF LifecycleInv, TypeOK, PhaseInv, ClosedInv, vars
<1>2. CASE Next
  BY <1>2, HostKeeps, PeerKeeps DEF Next, Peers
<1> QED
  BY <1>1, <1>2

(* LifecycleInv is an invariant of the service. *)
LEMMA LifecycleInvariant == Spec => []LifecycleInv
BY InitLifecycle, NextKeeps, PTL DEF Spec

-----------------------------------------------------------------------------
(* Type correctness, with the owner of the supervisor's mutex always a     *)
(* request that is being served (start, shutdown, serve_binary).           *)
THEOREM LifecycleTypeCorrect == Spec => []TypeOK
<1>1. LifecycleInv => TypeOK
  BY DEF LifecycleInv
<1> QED
  BY <1>1, LifecycleInvariant, PTL

(* Event sources run only while the Core does, on every path through start *)
(* and shutdown (ServiceRuntimeBuilder::start, ServiceRuntime::shutdown).  *)
THEOREM CoreOutlivesSources == Spec => []CoreServesSources
<1>1. LifecycleInv => CoreServesSources
  BY DEF LifecycleInv, PhaseInv, CoreServesSources
<1> QED
  BY <1>1, LifecycleInvariant, PTL

(* No step lets a connection in after IpcServer::shutdown has returned,    *)
(* for any number of them, and the link only while its abort is pending    *)
(* (ServiceRuntime::shutdown, serve_binary, LinkControlServer::drop).      *)
THEOREM ClosedToRequests == Spec => NoRequestAfterClose
<1> DEFINE Closed == phase \in Stopping \ {"closing", "draining"}
           Barred == Closed => \A c \in Peers :
                       Admitted(c)' => Admitted(c) \/ (c = Link /\ linkAborted)
<1>1. LifecycleInv /\ [Next]_vars => [Barred]_vars
  <2> SUFFICES ASSUME LifecycleInv, Next, Closed, NEW d \in Peers, Admitted(d)'
               PROVE  Admitted(d) \/ (d = Link /\ linkAborted)
    BY DEF Stopping
  <2>1. drain /\ (peer[Link] = "none" \/ linkAborted) /\ peer \in [Peers -> PeerStates]
    BY DEF LifecycleInv, TypeOK, ClosedInv, Stopping
  <2>2. CASE peer' = peer
    BY <2>2 DEF Admitted, Busy
  <2>3. CASE peer' = [c \in Peers |-> "gone"]
    BY <2>3 DEF Admitted, Busy
  <2>4. ASSUME NEW c \in Peers, PeerStep(c) \/ ConnectionStep(c)
        PROVE  Admitted(d) \/ (d = Link /\ linkAborted)
    BY <2>1, <2>4, LifecycleAssumption
    DEF PeerStep, ConnectionStep, Admit, PayloadArrives, ReadFails, HandleStop,
        RestartBegins, RestartEnds, Reply, Accept, FirstByte, ConnectionEnds,
        RequestCancelled, DrainDeadline, Dropped, Admitted, Busy, Peers
  <2>5. CASE StartStep \/ ShutdownStep \/ ShutdownSignalled \/ AcceptLoopEnds
    BY <2>2, <2>3, <2>5
    DEF Stopping, StartStep, ShutdownStep, ShutdownRequested, ShutdownSignalled,
        AcceptLoopEnds, BootCore, BootFails, StartSidecars, StartIpc, IpcDisabled,
        IpcFails, StartLink, LinkFails, StartSources, DropLink, SignalDrain,
        CloseListener, StopSources, StopRunners, TakeCore, Exit, peerVars
  <2>6. CASE LinkDropped
    BY <2>1, <2>6 DEF LinkDropped, Dropped, Admitted, Busy
  <2> QED
    BY <2>4, <2>5, <2>6 DEF Next, Peers
<1> QED
  BY <1>1, LifecycleInvariant, PTL DEF Spec, NoRequestAfterClose
=============================================================================
