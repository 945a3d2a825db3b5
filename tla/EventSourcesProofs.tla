------------------------- MODULE EventSourcesProofs -------------------------
(***************************************************************************)
(* Theorems about EventSources, for any set of sources, any order of the   *)
(* sources map and any capacity of the command channels.                   *)
(***************************************************************************)
EXTENDS EventSources, TLAPS

(* What an actor reports, place by place.  An aborted actor reports what   *)
(* it last did.                                                            *)
StatusInv ==
  \A s \in Sources :
    /\ pc[s] = "starting" => status[s] = "starting"
    /\ pc[s] = "polling" => status[s] = "running"
    /\ pc[s] = "waiting" => status[s] = "failed"
    /\ pc[s] \in {"stop_polling", "stop_waiting"} => status[s] = "restarting"
    /\ pc[s] = "stop_final" => status[s] = "stopping"
    /\ pc[s] = "ended" => status[s] \in {"stopped", "failed"}

(* A token stays cancelled from the command to the next start.             *)
SignalInv ==
  \A s \in Sources :
    /\ pc[s] = "starting" /\ incarnation[s] # "never" => signalled[s]
    /\ pc[s] \in {"stop_polling", "stop_waiting"} => signalled[s]

(* A shutdown has still to join every source it has neither seen gone nor   *)
(* told to abort.                                                          *)
Released(s) == Gone(s) \/ s \in aborting

JoinInv ==
  /\ phase = "sending" => unjoined = KeyOrder
  /\ phase = "joining" =>
       \A s \in Sources : Released(s) \/ \E i \in 1..Len(unjoined) : unjoined[i] = s
  /\ phase = "down" => \A s \in Sources : Released(s)

SourcesInv == SourceTypeOK /\ StatusInv /\ SignalInv /\ JoinInv

-----------------------------------------------------------------------------
(* Receiving the oldest command of a channel shortens it.                  *)
LEMMA Received ==
  ASSUME NEW S, NEW q \in Seq(S), q # <<>>
  PROVE  Tail(q) \in Seq(S) /\ Len(Tail(q)) \in Nat /\ Len(Tail(q)) < Len(q) /\ Len(q) \in Nat
  OBVIOUS

(* Sending a command lengthens a channel by one.                           *)
LEMMA Sent ==
  ASSUME NEW S, NEW q \in Seq(S), NEW e \in S
  PROVE  Append(q, e) \in Seq(S) /\ Len(Append(q, e)) = Len(q) + 1 /\ Len(q) \in Nat
  OBVIOUS

(* A command channel stays within its capacity when one command is taken.  *)
LEMMA TakeType ==
  ASSUME SourceTypeOK, NEW s \in Sources, NEW command, Take(s, command)
  PROVE  queue' \in [Sources -> Seq({"restart", "shutdown"})]
         /\ \A r \in Sources : Len(queue'[r]) <= QueueCap
<1> DEFINE C == {"restart", "shutdown"}
<1>1. queue \in [Sources -> Seq(C)] /\ queue[s] \in Seq(C) /\ queue[s] # <<>>
      /\ queue' = [queue EXCEPT ![s] = Tail(queue[s])]
      /\ \A r \in Sources : Len(queue[r]) <= QueueCap
  BY DEF SourceTypeOK, Take
<1>2. Tail(queue[s]) \in Seq(C) /\ Len(Tail(queue[s])) < Len(queue[s])
      /\ Len(Tail(queue[s])) \in Nat /\ Len(queue[s]) \in Nat
  BY <1>1, Received
<1>3. queue' \in [Sources -> Seq(C)]
  BY <1>1, <1>2
<1>4. ASSUME NEW r \in Sources PROVE Len(queue'[r]) <= QueueCap
  <2>1. CASE r = s
    <3>1. queue'[r] = Tail(queue[s])
      BY <1>1, <2>1
    <3> QED
      BY <1>1, <1>2, <3>1, EventSourcesAssumption
  <2>2. CASE r # s
    BY <1>1, <2>2
  <2> QED
    BY <2>1, <2>2
<1> QED
  BY <1>3, <1>4

(* ... and when one is sent while there is room.                           *)
LEMMA SendType ==
  ASSUME SourceTypeOK, NEW s \in Sources, NEW command \in {"restart", "shutdown"},
         \/ Len(queue[s]) < QueueCap /\ queue' = [queue EXCEPT ![s] = Append(@, command)]
         \/ UNCHANGED queue
  PROVE  queue' \in [Sources -> Seq({"restart", "shutdown"})]
         /\ \A r \in Sources : Len(queue'[r]) <= QueueCap
<1> DEFINE C == {"restart", "shutdown"}
<1>1. queue \in [Sources -> Seq(C)] /\ queue[s] \in Seq(C)
      /\ \A r \in Sources : Len(queue[r]) <= QueueCap
  BY DEF SourceTypeOK
<1>2. CASE UNCHANGED queue
  BY <1>1, <1>2
<1>3. CASE Len(queue[s]) < QueueCap /\ queue' = [queue EXCEPT ![s] = Append(queue[s], command)]
  <2>1. Append(queue[s], command) \in Seq(C) /\ Len(Append(queue[s], command)) = Len(queue[s]) + 1
        /\ Len(queue[s]) \in Nat
    BY <1>1, Sent
  <2>2. queue' \in [Sources -> Seq(C)]
    BY <1>1, <1>3, <2>1
  <2>3. ASSUME NEW r \in Sources PROVE Len(queue'[r]) <= QueueCap
    <3>1. CASE r = s
      <4>1. queue'[r] = Append(queue[s], command)
        BY <1>1, <1>3, <3>1
      <4>2. Len(queue'[r]) = Len(queue[s]) + 1
        BY <2>1, <4>1
      <4>3. Len(queue[s]) < QueueCap /\ Len(queue[s]) \in Nat /\ QueueCap \in Nat
        BY <1>3, <2>1, EventSourcesAssumption
      <4> QED
        BY <4>2, <4>3
    <3>2. CASE r # s
      BY <1>1, <1>3, <3>2
    <3> QED
      BY <3>1, <3>2
  <2> QED
    BY <2>2, <2>3
<1> QED
  BY <1>2, <1>3

(* Type correctness, action by action (run_source_actor and the            *)
(* supervisor's operations).                                               *)
LEMMA SourcesTypeStep == SourceTypeOK /\ [SourceNext]_esVars => SourceTypeOK'
<1> SUFFICES ASSUME SourceTypeOK, [SourceNext]_esVars PROVE SourceTypeOK'
  OBVIOUS
<1> USE EventSourcesAssumption DEF SourceTypeOK, Actor
<1>1. ASSUME NEW s \in Sources, ActorStep(s) PROVE SourceTypeOK'
  <2>1. CASE StartSource(s)
    BY <2>1 DEF StartSource, ActorGoto, supervisorVars
  <2>2. CASE HandleRestart(s)
    <3>1. queue' \in [Sources -> Seq({"restart", "shutdown"})]
          /\ \A r \in Sources : Len(queue'[r]) <= QueueCap
      BY <2>2, TakeType DEF HandleRestart
    <3> QED
      BY <2>2, <3>1 DEF HandleRestart, ActorGoto, supervisorVars
  <2>3. CASE HandleShutdown(s)
    <3>1. queue' \in [Sources -> Seq({"restart", "shutdown"})]
          /\ \A r \in Sources : Len(queue'[r]) <= QueueCap
      BY <2>3, TakeType DEF HandleShutdown
    <3> QED
      BY <2>3, <3>1 DEF HandleShutdown, ActorGoto, supervisorVars
  <2>4. CASE StopFails(s)
    BY <2>4 DEF StopFails, ActorGoto, supervisorVars
  <2> QED
    BY <1>1, <2>1, <2>2, <2>3, <2>4 DEF ActorStep
<1>2. ASSUME NEW s \in Sources, SourceEnds(s) PROVE SourceTypeOK'
  BY <1>2 DEF SourceEnds, ActorGoto, supervisorVars
<1>13. ASSUME NEW s \in Sources, HandleClosed(s) PROVE SourceTypeOK'
  BY <1>13 DEF HandleClosed, ActorGoto, supervisorVars
<1>14. ASSUME NEW s \in Sources, AbortTakesEffect(s) PROVE SourceTypeOK'
  BY <1>14 DEF AbortTakesEffect, supervisorVars
<1>3. ASSUME NEW s \in Sources, StopSucceeds(s) PROVE SourceTypeOK'
  BY <1>3 DEF StopSucceeds, ActorGoto, supervisorVars
<1>4. ASSUME NEW s \in Sources, RestartLookup(s) PROVE SourceTypeOK'
  BY <1>4 DEF RestartLookup, actorVars
<1>5. ASSUME NEW s \in Sources, RestartSend(s) PROVE SourceTypeOK'
  <2>1. queue' \in [Sources -> Seq({"restart", "shutdown"})]
        /\ \A r \in Sources : Len(queue'[r]) <= QueueCap
    BY <1>5, SendType DEF RestartSend
  <2> QED
    BY <1>5, <2>1 DEF RestartSend
<1>6. ASSUME NEW s \in Sources, SendShutdown(s) PROVE SourceTypeOK'
  <2>1. queue' \in [Sources -> Seq({"restart", "shutdown"})]
        /\ \A r \in Sources : Len(queue'[r]) <= QueueCap
    BY <1>6, SendType DEF SendShutdown
  <2>2. unsent' \in Seq(Sources)
    BY <1>6, Received DEF SendShutdown
  <2> QED
    BY <1>6, <2>1, <2>2 DEF SendShutdown
<1>7. ASSUME NEW s \in Sources, JoinEnded(s) PROVE SourceTypeOK'
  <2>1. unjoined' \in Seq(Sources)
    BY <1>7, Received DEF JoinEnded
  <2> QED
    BY <1>7, <2>1 DEF JoinEnded, actorVars
<1>8. ASSUME NEW s \in Sources, JoinTimeout(s) PROVE SourceTypeOK'
  <2>1. unjoined' \in Seq(Sources)
    BY <1>8, Received DEF JoinTimeout
  <2> QED
    BY <1>8, <2>1 DEF JoinTimeout, actorVars
<1>9. CASE BeginShutdown
  BY <1>9 DEF BeginShutdown, actorVars
<1>10. CASE AllSent \/ AllJoined
  BY <1>10 DEF AllSent, AllJoined, actorVars
<1>11. CASE Abort
  <2>1. ASSUME NEW s \in Sources
        PROVE  queue'[s] \in Seq({"restart", "shutdown"}) /\ Len(queue'[s]) <= QueueCap
    <3>1. CASE queue'[s] = queue[s]
      BY <3>1
    <3>2. CASE Len(queue[s]) # QueueCap /\ queue'[s] = Append(queue[s], "shutdown")
      <4>1. Append(queue[s], "shutdown") \in Seq({"restart", "shutdown"})
            /\ Len(Append(queue[s], "shutdown")) = Len(queue[s]) + 1 /\ Len(queue[s]) \in Nat
        BY Sent
      <4>2. Len(queue[s]) <= QueueCap /\ QueueCap \in Nat
        OBVIOUS
      <4> QED
        BY <3>2, <4>1, <4>2
    <3> QED
      BY <1>11, <3>1, <3>2 DEF Abort
  <2>2. queue' = [s \in Sources |-> queue'[s]]
    BY <1>11 DEF Abort
  <2>3. queue' \in [Sources -> Seq({"restart", "shutdown"})]
    BY <2>1, <2>2
  <2> QED
    BY <1>11, <2>1, <2>3 DEF Abort
<1>12. CASE UNCHANGED esVars
  BY <1>12 DEF esVars
<1> QED
  BY <1>1, <1>2, <1>3, <1>4, <1>5, <1>6, <1>7, <1>8, <1>9, <1>10, <1>11, <1>12, <1>13, <1>14
  DEF SourceNext

(* The actors' steps keep what they report and what they have cancelled.   *)
LEMMA ActorKeepsInv ==
  ASSUME SourcesInv, NEW s \in Sources,
         ActorStep(s) \/ SourceEnds(s) \/ HandleClosed(s) \/ AbortTakesEffect(s) \/ StopSucceeds(s)
  PROVE  StatusInv' /\ SignalInv' /\ JoinInv'
<1> USE DEF SourcesInv, SourceTypeOK, StatusInv, SignalInv, ActorGoto
<1>1. ~Gone(s) /\ UNCHANGED supervisorVars
  BY DEF ActorStep, StartSource, HandleRestart, HandleShutdown, Take, StopFails, SourceEnds,
         HandleClosed, AbortTakesEffect, StopSucceeds, Gone
<1>2. \A r \in Sources \ {s} : pc'[r] = pc[r]
  BY DEF ActorStep, StartSource, HandleRestart, HandleShutdown, Take, StopFails, SourceEnds,
         HandleClosed, AbortTakesEffect, StopSucceeds
<1>3. JoinInv'
  BY <1>1, <1>2 DEF JoinInv, Released, Gone, supervisorVars
<1>4. StatusInv' /\ SignalInv'
  <2>1. CASE StartSource(s)
    BY <2>1, ZenonT(30) DEF StartSource
  <2>2. CASE HandleRestart(s)
    BY <2>2 DEF HandleRestart, Take
  <2>3. CASE HandleShutdown(s)
    BY <2>3 DEF HandleShutdown, Take
  <2>4. CASE StopFails(s)
    <3>1. StatusInv'
      BY <2>4, ZenonT(60) DEF StopFails
    <3>2. SignalInv'
      BY <2>4, ZenonT(60) DEF StopFails
    <3> QED
      BY <3>1, <3>2
  <2>5. CASE SourceEnds(s)
    BY <2>5 DEF SourceEnds
  <2>6. CASE StopSucceeds(s)
    BY <2>6, ZenonT(30) DEF StopSucceeds
  <2>7. CASE HandleClosed(s)
    BY <2>7 DEF HandleClosed
  <2>8. CASE AbortTakesEffect(s)
    BY <2>8 DEF AbortTakesEffect
  <2> QED
    BY <2>1, <2>2, <2>3, <2>4, <2>5, <2>6, <2>7, <2>8 DEF ActorStep
<1> QED
  BY <1>3, <1>4

(* The head of the join list leaves it once its actor is gone or aborting. *)
LEMMA JoinKeepsInv ==
  ASSUME SourcesInv, NEW s \in Sources, JoinEnded(s) \/ JoinTimeout(s)
  PROVE  JoinInv'
<1> USE DEF SourcesInv, SourceTypeOK, JoinInv, Released, Gone
<1>1. /\ phase = "joining" /\ phase' = "joining"
      /\ unjoined # <<>> /\ s = Head(unjoined) /\ unjoined' = Tail(unjoined)
  BY DEF JoinEnded, JoinTimeout
<1>2. Released(s)' /\ \A r \in Sources : Released(r) => Released(r)'
  BY DEF JoinEnded, JoinTimeout, actorVars
<1>3. ASSUME NEW r \in Sources, ~Released(r)'
      PROVE  \E i \in 1..Len(unjoined') : unjoined'[i] = r
  <2>1. PICK i \in 1..Len(unjoined) : unjoined[i] = r
    BY <1>1, <1>2, <1>3
  <2>2. i # 1
    BY <1>1, <1>2, <1>3, <2>1
  <2>3. i - 1 \in 1..Len(unjoined') /\ unjoined'[i - 1] = r
    BY <1>1, <2>1, <2>2
  <2> QED
    BY <2>3
<1> QED
  BY <1>1, <1>3

(* Every step keeps SourcesInv. *)
LEMMA SourcesInvStep == SourcesInv /\ [SourceNext]_esVars => SourcesInv'
<1> SUFFICES ASSUME SourcesInv, [SourceNext]_esVars PROVE SourcesInv'
  OBVIOUS
<1>0. SourceTypeOK'
  BY SourcesTypeStep DEF SourcesInv
<1> SUFFICES StatusInv' /\ SignalInv' /\ JoinInv'
  BY <1>0 DEF SourcesInv
<1> USE DEF SourcesInv
<1>1. ASSUME NEW s \in Sources,
             ActorStep(s) \/ SourceEnds(s) \/ HandleClosed(s) \/ AbortTakesEffect(s) \/ StopSucceeds(s)
      PROVE  StatusInv' /\ SignalInv' /\ JoinInv'
  BY <1>1, ActorKeepsInv
<1>2. ASSUME NEW s \in Sources, RestartLookup(s) \/ RestartSend(s) \/ SendShutdown(s)
      PROVE  StatusInv' /\ SignalInv' /\ JoinInv'
  BY <1>2 DEF RestartLookup, RestartSend, SendShutdown, actorVars, StatusInv, SignalInv, JoinInv, Released, Gone
<1>3. ASSUME NEW s \in Sources, JoinEnded(s) \/ JoinTimeout(s)
      PROVE  StatusInv' /\ SignalInv' /\ JoinInv'
  <2>1. StatusInv' /\ SignalInv'
    BY <1>3 DEF JoinEnded, JoinTimeout, actorVars, StatusInv, SignalInv, SourceTypeOK
  <2> QED
    BY <1>3, <2>1, JoinKeepsInv
<1>4. CASE BeginShutdown
  BY <1>4 DEF BeginShutdown, actorVars, StatusInv, SignalInv, JoinInv, Released, Gone
<1>5. CASE AllSent
  BY <1>5, EventSourcesAssumption DEF AllSent, actorVars, StatusInv, SignalInv, JoinInv, Released, Gone
<1>6. CASE AllJoined
  BY <1>6 DEF AllJoined, actorVars, StatusInv, SignalInv, JoinInv, Released, Gone
<1>7. CASE Abort
  BY <1>7 DEF Abort, StatusInv, SignalInv, JoinInv, Released, Gone, SourceTypeOK
<1>8. CASE UNCHANGED esVars
  BY <1>8 DEF esVars, StatusInv, SignalInv, JoinInv, Released, Gone
<1> QED
  BY <1>1, <1>2, <1>3, <1>4, <1>5, <1>6, <1>7, <1>8 DEF SourceNext

(* The initial states satisfy SourcesInv. *)
LEMMA SourcesInvInit == SourceInit => SourcesInv
  BY EventSourcesAssumption DEF SourceInit, SourcesInv, SourceTypeOK, Actor, StatusInv, SignalInv, JoinInv, Released, Gone

(* SourcesInv is an invariant of the specification. *)
LEMMA SourcesInvHolds == SourceSpec => []SourcesInv
  BY SourcesInvInit, SourcesInvStep, PTL DEF SourceSpec

-----------------------------------------------------------------------------
(* Type correctness of the event-source supervisor: no command channel     *)
(* ever holds more than its capacity (mpsc::channel).                      *)
THEOREM SourcesTypeCorrect == SourceSpec => []SourceTypeOK
<1>1. SourcesInv => SourceTypeOK
  BY DEF SourcesInv
<1> QED
  BY <1>1, SourcesInvHolds, PTL

(* What list reports is where the actor is (run_source_actor).             *)
THEOREM StatusCorrect == SourceSpec => []StatusTruthful
<1>1. SourcesInv => StatusTruthful
  BY DEF SourcesInv, SourceTypeOK, Actor, StatusInv, StatusTruthful
<1> QED
  BY <1>1, SourcesInvHolds, PTL

(* No incarnation of a source is started before the token of the previous  *)
(* one was cancelled (HostShutdownToken).                                  *)
THEOREM RestartCorrect == SourceSpec => []RestartAfterSignal
<1>1. SourcesInv => RestartAfterSignal
  BY DEF SourcesInv, SignalInv, RestartAfterSignal
<1> QED
  BY <1>1, SourcesInvHolds, PTL

(* After shutdown or abort every actor has returned or was told to abort;  *)
(* the abort itself is not awaited (EventSourceSupervisor::shutdown).      *)
THEOREM DownCorrect == SourceSpec => []DownMeansAborted
<1>1. SourcesInv => DownMeansAborted
  BY DEF SourcesInv, JoinInv, Released, DownMeansAborted
<1> QED
  BY <1>1, SourcesInvHolds, PTL
=============================================================================
