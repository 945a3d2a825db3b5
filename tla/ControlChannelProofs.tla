------------------------ MODULE ControlChannelProofs ------------------------
(***************************************************************************)
(* Theorems about ControlChannel, for any set of requests, any choice of   *)
(* mutating requests and any in-flight limit.                              *)
(***************************************************************************)
EXTENDS ControlChannel, TLAPS, FiniteSetTheorems

(* A stream nothing was written to.                                        *)
LEMMA EmptySeq ==
  ASSUME NEW S
  PROVE  <<>> \in Seq(S)
  OBVIOUS

(* What reading the first frame of a stream does to it.                    *)
LEMMA TailFacts ==
  ASSUME NEW S, NEW s \in Seq(S), s # <<>>
  PROVE  /\ Tail(s) \in Seq(S)
         /\ Head(s) \in S
         /\ Head(s) = s[1]
         /\ 1 \in 1..Len(s)
         /\ \A i \in 1..Len(Tail(s)) : i + 1 \in 1..Len(s) /\ Tail(s)[i] = s[i + 1]
  OBVIOUS

(* What writing a frame to a stream does to it.                            *)
LEMMA AppendFacts ==
  ASSUME NEW S, NEW s \in Seq(S), NEW e \in S
  PROVE  /\ Append(s, e) \in Seq(S)
         /\ Len(Append(s, e)) = Len(s) + 1
         /\ \A i \in 1..Len(Append(s, e)) :
              \/ i \in 1..Len(s) /\ Append(s, e)[i] = s[i]
              \/ i = Len(s) + 1 /\ Append(s, e)[i] = e
  OBVIOUS

(* The frames that the two sides write are frames of the wire.             *)
LEMMA FrameTypes ==
  ASSUME NEW r \in Requests
  PROVE  /\ Request(r) \in UpFrame
         /\ CancelFrame(r) \in UpFrame
         /\ \A b \in Bodies : Reply(r, b) \in DownFrame
         /\ Torn(r) \in DownFrame
  BY DEF Request, CancelFrame, Reply, Torn, UpFrame, DownFrame, Bodies

(* Every local failure is an outcome, and none of them is None.            *)
LEMMA OutcomeTypes ==
  /\ None \in Outcome
  /\ \A e \in LocalErrors : Failure(e) \in Outcome /\ Failure(e) # None
                            /\ Failure(e).kind = e /\ Failure(e).of = NoRequest
  BY DEF None, Failure, Outcome, LocalErrors

-----------------------------------------------------------------------------
(* The initial state is well typed.                                        *)
LEMMA TypeInit == Init => TypeOK
<1> SUFFICES ASSUME Init PROVE TypeOK
  OBVIOUS
<1>1. WireTypeOK
  BY EmptySeq DEF Init, WireInit, WireTypeOK
<1>2. SessionTypeOK
  <2>1. None \in Outcome
    BY OutcomeTypes
  <2> QED
    BY <2>1 DEF Init, SessionInit, SessionTypeOK, CallStates, ReaderErrors
<1>3. ServerTypeOK
  BY WireAssumption DEF Init, ServerInit, ServerTypeOK, LoopStates, TaskStates, Bodies
<1> QED
  BY <1>1, <1>2, <1>3 DEF TypeOK

(* A step of a call keeps the types of the session and of the wire.        *)
LEMMA TypeCall ==
  ASSUME TypeOK, NEW r \in Requests, CallStep(r) \/ WriteError(r), UNCHANGED serverVars
  PROVE  TypeOK'
<1> USE DEF TypeOK, WireTypeOK, SessionTypeOK, ServerTypeOK, wireVars, serverVars
<1>1. CASE SendRefusedClosed(r)
  BY <1>1, OutcomeTypes DEF SendRefusedClosed, Return, CallStates, LocalErrors
<1>2. CASE SendRefusedLimit(r)
  BY <1>2, OutcomeTypes DEF SendRefusedLimit, Return, CallStates, LocalErrors
<1>3. CASE SendAdmitted(r)
  BY <1>3 DEF SendAdmitted, CallStates
<1>4. CASE InsertPending(r)
  BY <1>4 DEF InsertPending, CallStates
<1>5. CASE EncodeFails(r)
  BY <1>5, OutcomeTypes DEF EncodeFails, Return, CallStates, LocalErrors
<1>6. CASE WriteRequest(r, ServerClosed)
  BY <1>6, FrameTypes, AppendFacts DEF WriteRequest, CallStates
<1>12. CASE BeginWrite(r)
  BY <1>12 DEF BeginWrite, CallStates
<1>7. CASE WriteFails(r, ServerClosed) \/ WriteFails(r, TRUE)
  BY <1>7, OutcomeTypes DEF WriteFails, Return, CallStates, LocalErrors
<1>8. CASE Receive(r)
  BY <1>8 DEF Receive, Return, CallStates
<1>9. CASE RequestTimeout(r)
  BY <1>9 DEF RequestTimeout, CallStates
<1>10. CASE RemoveExpired(r)
  BY <1>10 DEF RemoveExpired, CallStates
<1>11. CASE Cancel(r, ServerClosed) \/ Cancel(r, TRUE)
  <2>1. CancelFrame(r) \in UpFrame
    BY FrameTypes
  <2>2. Append(up, CancelFrame(r)) \in Seq(UpFrame)
    BY <2>1, AppendFacts
  <2>3. up' = up \/ up' = Append(up, CancelFrame(r))
    BY <1>11 DEF Cancel
  <2>4. up' \in Seq(UpFrame)
    BY <2>2, <2>3
  <2> QED
    BY <1>11, <2>4, OutcomeTypes DEF Cancel, Return, CallStates, LocalErrors
<1> QED
  BY <1>1, <1>2, <1>3, <1>4, <1>5, <1>6, <1>7, <1>8, <1>9, <1>10, <1>11, <1>12
  DEF CallStep, WriteError

(* A step of the reader task, or closing the session.                      *)
LEMMA TypeReader ==
  ASSUME TypeOK, ReaderStep \/ Close, UNCHANGED serverVars
  PROVE  TypeOK'
<1> USE DEF TypeOK, WireTypeOK, SessionTypeOK, ServerTypeOK, wireVars, serverVars
<1>1. CASE DeliverReply
  <2>1. Tail(down) \in Seq(DownFrame) /\ Head(down) \in DownFrame
    BY <1>1, TailFacts DEF DeliverReply
  <2>2. [kind |-> Head(down).body, of |-> Head(down).of] \in Outcome
    BY <2>1 DEF DownFrame, Outcome
  <2> QED
    BY <1>1, <2>1, <2>2 DEF DeliverReply
<1>2. CASE LateResponse \/ ReadUndecodable
  BY <1>2, TailFacts DEF LateResponse, ReadUndecodable, ReaderStops, ReaderErrors
<1>3. CASE ReadTorn(ServerClosed)
  BY <1>3, TailFacts DEF ReadTorn, ReaderStops, ReaderErrors
<1>4. CASE ReadFails \/ ReadEof(ServerClosed)
  BY <1>4 DEF ReadFails, ReadEof, ReaderStops, ReaderErrors
<1>5. CASE DrainPending
  <2>1. Handed \in Outcome
    BY OutcomeTypes DEF LocalErrors, Handed
  <2> QED
    BY <1>5, <2>1 DEF DrainPending
<1>6. CASE Close
  <2>1. Failure("closed") \in Outcome
    BY OutcomeTypes DEF LocalErrors
  <2> QED
    BY <1>6, <2>1 DEF Close
<1> QED
  BY <1>1, <1>2, <1>3, <1>4, <1>5, <1>6 DEF ReaderStep

(* A step of the server's read loop, or the drain signal.                  *)
LEMMA TypeLoop ==
  ASSUME TypeOK, LoopStep \/ LoopWaits \/ BeginDrain, UNCHANGED sessionVars
  PROVE  TypeOK'
<1> USE DEF TypeOK, WireTypeOK, SessionTypeOK, ServerTypeOK, wireVars, sessionVars, taskVars
<1> USE DEF LoopStates
<1>1. ASSUME NEW c, NEW k, NextFrame(c, k)
      PROVE  Tail(up) \in Seq(UpFrame) /\ Head(up) \in UpFrame /\ Head(up).id \in Requests
  <2>1. Tail(up) \in Seq(UpFrame) /\ Head(up) \in UpFrame
    BY <1>1, TailFacts DEF NextFrame
  <2> QED
    BY <2>1 DEF UpFrame
<1>2. CASE FirstByte \/ FirstEof \/ HeaderRefused \/ HeaderLimited
  BY <1>2 DEF FirstByte, FirstEof, HeaderRefused, HeaderLimited
<1>11. CASE HeaderAdmitted
  BY <1>11 DEF HeaderAdmitted
<1>12. CASE LoopReadFails
  BY <1>12 DEF LoopReadFails
<1>10. CASE RefuseDraining \/ UnknownOpcode
  <2>1. up' \in Seq(UpFrame)
    BY <1>1, <1>10 DEF RefuseDraining, UnknownOpcode, Payload
  <2>2. CASE RefuseDraining
    BY <2>1, <2>2 DEF RefuseDraining
  <2>3. CASE UnknownOpcode
    BY <2>1, <2>3 DEF UnknownOpcode
  <2> QED
    BY <1>10, <2>2, <2>3
<1>3. CASE RejectLimit \/ RejectBadBody
  <2>1. Head(up).id \in Requests /\ up' \in Seq(UpFrame)
    BY <1>1, <1>3 DEF RejectLimit, RejectBadBody, Payload
  <2>2. Reply(Head(up).id, "rejected") \in DownFrame
    BY <2>1, FrameTypes DEF Bodies
  <2>3. Append(down, Reply(Head(up).id, "rejected")) \in Seq(DownFrame)
    BY <2>2, AppendFacts
  <2>4. WriteRejection
    BY <1>3 DEF RejectLimit, RejectBadBody
  <2>5. down' \in Seq(DownFrame) /\ conn' \in {"reading", "failed"}
    BY <2>3, <2>4 DEF WriteRejection
  <2>6. CASE RejectLimit
    BY <2>1, <2>5, <2>6 DEF RejectLimit
  <2>7. CASE RejectBadBody
    BY <2>1, <2>5, <2>7 DEF RejectBadBody
  <2> QED
    BY <1>3, <2>6, <2>7
<1>4. CASE SpawnTask
  <2>1. Head(up).id \in Requests /\ up' \in Seq(UpFrame)
    BY <1>1, <1>4 DEF SpawnTask, Payload
  <2>2. task' \in [Requests -> TaskStates] /\ current' \in Requests
    BY <1>4, <2>1 DEF SpawnTask, TaskStates
  <2>3. ahead' \in [Requests -> SUBSET Mutating]
    BY <1>4, <2>1 DEF SpawnTask
  <2> QED
    BY <1>4, <2>1, <2>2, <2>3 DEF SpawnTask
<1>5. CASE InsertEntry
  BY <1>5, WireAssumption DEF InsertEntry
<1>6. CASE CancelPending
  BY <1>1, <1>6 DEF CancelPending
<1>7. CASE StopReading
  BY <1>7 DEF StopReading
<1>8. CASE DrainEntries
  BY <1>8 DEF DrainEntries
<1>9. CASE BeginDrain
  BY <1>9 DEF BeginDrain
<1> QED
  BY <1>2, <1>3, <1>4, <1>5, <1>6, <1>7, <1>8, <1>9, <1>10, <1>11, <1>12
  DEF LoopStep, LoopWaits, DrainedEmpty, DrainDeadline

(* A step of a spawned task.                                               *)
LEMMA TypeTask ==
  ASSUME TypeOK, NEW r \in Requests, TaskStep(r), UNCHANGED sessionVars
  PROVE  TypeOK'
<1> USE DEF TypeOK, WireTypeOK, SessionTypeOK, ServerTypeOK, wireVars, sessionVars, loopVars
<1>1. CASE StartMutating(r)
  BY <1>1 DEF StartMutating, TaskStates
<1>2. CASE StartReading(r)
  BY <1>2 DEF StartReading, TaskStates
<1>3. CASE HandlerReturns(r)
  BY <1>3 DEF HandlerReturns, Unlocked, TaskStates, Bodies
<1>4. CASE HandlerAborted(r)
  BY <1>4 DEF HandlerAborted, Unlocked, TaskStates, Bodies
<1>5. CASE WriteReply(r)
  <2>1. Reply(r, answer[r]) \in DownFrame
    BY FrameTypes
  <2>2. Append(down, Reply(r, answer[r])) \in Seq(DownFrame)
    BY <2>1, AppendFacts
  <2>3. down' = down \/ down' = Append(down, Reply(r, answer[r]))
    BY <1>5 DEF WriteReply
  <2>4. down' \in Seq(DownFrame)
    BY <2>2, <2>3
  <2> QED
    BY <1>5, <2>4 DEF WriteReply, TaskStates
<1>6. CASE ReplyNotEncodable(r)
  BY <1>6 DEF ReplyNotEncodable, TaskStates
<1>7. CASE RemoveEntry(r)
  BY <1>7 DEF RemoveEntry, TaskEnds, TaskStates
<1>8. CASE TaskDropped(r)
  BY <1>8 DEF TaskDropped, TaskEnds, Unlocked, TaskStates
<1>9. CASE TaskDroppedWriting(r)
  <2>1. down' \in Seq(DownFrame)
    BY <1>9, FrameTypes, AppendFacts DEF TaskDroppedWriting
  <2> QED
    BY <1>9, <2>1 DEF TaskDroppedWriting, TaskEnds, TaskStates
<1> QED
  BY <1>1, <1>2, <1>3, <1>4, <1>5, <1>6, <1>7, <1>8, <1>9 DEF TaskStep

(* Every step preserves the types.                                         *)
LEMMA TypeStep == TypeOK /\ [Next]_vars => TypeOK'
<1> SUFFICES ASSUME TypeOK, [Next]_vars PROVE TypeOK'
  OBVIOUS
<1>1. CASE ClientStep
  BY <1>1, TypeCall, TypeReader DEF ClientStep
<1>2. CASE ServerStep
  BY <1>2, TypeLoop, TypeTask DEF ServerStep
<1>3. CASE UNCHANGED vars
  BY <1>3 DEF vars, wireVars, sessionVars, serverVars, TypeOK, WireTypeOK, SessionTypeOK,
              ServerTypeOK
<1> QED
  BY <1>1, <1>2, <1>3 DEF Next

(* The session, the connection and the wire keep their types: in           *)
(* particular no frame names an unknown request and the semaphore of       *)
(* serve_binary is never acquired below zero.                              *)
THEOREM ChannelTypeCorrect == Spec => []TypeOK
  BY TypeInit, TypeStep, PTL DEF Spec

-----------------------------------------------------------------------------
(* A request is sent at most once, and it has a task only after that: what *)
(* makes tasks, permits and executions countable by request.               *)

Unsent == {"idle", "admitted", "inserted", "writing"}

(* At most one frame of up carries the request r, and its task does not    *)
(* exist yet; before the frame is written there is neither.                *)
SentOnce ==
  /\ \A i, j \in 1..Len(up) :
       up[i].kind = "request" /\ up[j].kind = "request" /\ up[i].id = up[j].id => i = j
  /\ \A i \in 1..Len(up) :
       up[i].kind = "request" => task[up[i].id] = "none" /\ call[up[i].id] \notin Unsent
  /\ \A r \in Requests : call[r] \in Unsent => task[r] = "none"

(* Nothing has been sent in the initial state.                             *)
LEMMA SentOnceInit == Init => SentOnce
  BY DEF Init, WireInit, SessionInit, ServerInit, SentOnce

(* A frame other than a new request only shortens up or adds a cancel.     *)
LEMMA SentOnceTail ==
  ASSUME TypeOK, SentOnce, up # <<>>, up' = Tail(up), UNCHANGED <<call, task>>
  PROVE  SentOnce'
<1>1. \A i \in 1..Len(up') : i + 1 \in 1..Len(up) /\ up'[i] = up[i + 1]
  BY TailFacts DEF TypeOK, WireTypeOK
<1>2. \A i \in 1..Len(up') : i \in Nat
  OBVIOUS
<1> QED
  BY <1>1, <1>2 DEF SentOnce

(* Every frame in flight names a request.                                  *)
LEMMA FramesInFlight ==
  ASSUME TypeOK
  PROVE  /\ \A i \in 1..Len(up) : up[i].id \in Requests
         /\ \A i \in 1..Len(down) : down[i].id \in Requests
<1>1. \A i \in 1..Len(up) : up[i] \in UpFrame
  BY DEF TypeOK, WireTypeOK
<1>2. \A i \in 1..Len(down) : down[i] \in DownFrame
  BY DEF TypeOK, WireTypeOK
<1> QED
  BY <1>1, <1>2 DEF UpFrame, DownFrame

(* A call that moves on without writing a request.                         *)
LEMMA SentOnceCall ==
  ASSUME TypeOK, SentOnce, NEW r \in Requests, NEW l \in CallStates,
         call' = [call EXCEPT ![r] = l], l \in Unsent => call[r] \in Unsent,
         UNCHANGED <<up, task>>
  PROVE  SentOnce'
<1>1. \A q \in Requests : call'[q] \in Unsent => call[q] \in Unsent
  BY DEF TypeOK, SessionTypeOK
<1>2. \A i \in 1..Len(up) : up[i].id \in Requests
  BY FramesInFlight
<1> QED
  BY <1>1, <1>2 DEF SentOnce

(* The steps of the loop that neither read a payload or a cancel frame nor *)
(* spawn a task.                                                           *)
QuietLoop ==
  \/ FirstByte \/ FirstEof
  \/ HeaderRefused \/ HeaderLimited \/ HeaderAdmitted
  \/ InsertEntry \/ StopReading \/ DrainEntries \/ LoopReadFails \/ BeginDrain

(* They leave the stream and the tasks alone.                              *)
LEMMA QuietFacts ==
  ASSUME QuietLoop
  PROVE  /\ UNCHANGED <<up, down, task, answer, mutateLock, handled>>
         /\ UNCHANGED aborted \/ conn' = "ended"
  BY DEF QuietLoop, FirstByte, FirstEof, HeaderRefused, HeaderLimited, HeaderAdmitted, InsertEntry,
         StopReading, DrainEntries, LoopReadFails, BeginDrain, taskVars, wireVars

(* Every step preserves it.                                                *)
LEMMA SentOnceStep == TypeOK /\ SentOnce /\ [Next]_vars => SentOnce'
<1> SUFFICES ASSUME TypeOK, SentOnce, [Next]_vars PROVE SentOnce'
  OBVIOUS
<1>0. \A i \in 1..Len(up) : up[i].id \in Requests
  BY FramesInFlight
<1>1. ASSUME NEW r \in Requests, CallStep(r) \/ WriteError(r), UNCHANGED serverVars PROVE SentOnce'
  <2> USE DEF Unsent, CallStates, serverVars, wireVars, Return
  <2>0. UNCHANGED task
    BY <1>1
  <2>1. CASE SendRefusedClosed(r) \/ SendRefusedLimit(r) \/ EncodeFails(r)
             \/ WriteFails(r, ServerClosed) \/ WriteFails(r, TRUE) \/ Receive(r)
    <3>1. call' = [call EXCEPT ![r] = "done"] /\ UNCHANGED up
      BY <2>1 DEF SendRefusedClosed, SendRefusedLimit, EncodeFails, WriteFails, Receive
    <3> QED
      BY <3>1, <2>0, SentOnceCall
  <2>2. CASE SendAdmitted(r)
    BY <2>2, <2>0, SentOnceCall DEF SendAdmitted
  <2>3. CASE InsertPending(r)
    BY <2>3, <2>0, SentOnceCall DEF InsertPending
  <2>8. CASE BeginWrite(r)
    BY <2>8, <2>0, SentOnceCall DEF BeginWrite
  <2>4. CASE WriteRequest(r, ServerClosed)
    <3>1. /\ Len(up') = Len(up) + 1
          /\ \A i \in 1..Len(up') : \/ i \in 1..Len(up) /\ up'[i] = up[i]
                                    \/ i = Len(up) + 1 /\ up'[i] = Request(r)
      BY <2>4, FrameTypes, AppendFacts DEF WriteRequest, TypeOK, WireTypeOK
    <3>2. \A i \in 1..Len(up) : up[i].kind = "request" => up[i].id # r
      BY <2>4 DEF WriteRequest, SentOnce
    <3>3. /\ call[r] = "writing"
          /\ call' = [call EXCEPT ![r] = "waiting"]
          /\ task[r] = "none"
      BY <2>4 DEF WriteRequest, SentOnce
    <3>4. \A q \in Requests : call'[q] \in Unsent => call[q] \in Unsent /\ q # r
      BY <3>3 DEF TypeOK, SessionTypeOK
    <3>5. Request(r).kind = "request" /\ Request(r).id = r
      BY DEF Request
    <3>6. \A i, j \in 1..Len(up') :
            up'[i].kind = "request" /\ up'[j].kind = "request" /\ up'[i].id = up'[j].id => i = j
      BY <3>1, <3>2, <3>5 DEF SentOnce
    <3>7. \A i \in 1..Len(up') :
            up'[i].kind = "request" => task'[up'[i].id] = "none" /\ call'[up'[i].id] \notin Unsent
      BY <1>0, <2>0, <3>1, <3>3, <3>4, <3>5 DEF SentOnce
    <3> QED
      BY <2>0, <3>4, <3>6, <3>7 DEF SentOnce
  <2>5. CASE RequestTimeout(r)
    BY <2>5, <2>0, SentOnceCall DEF RequestTimeout
  <2>6. CASE RemoveExpired(r)
    BY <2>6, <2>0, SentOnceCall DEF RemoveExpired
  <2>7. CASE Cancel(r, ServerClosed) \/ Cancel(r, TRUE)
    <3>1. \A i \in 1..Len(up') : up'[i].kind = "request" => i \in 1..Len(up) /\ up'[i] = up[i]
      <4>1. CASE UNCHANGED up
        BY <4>1
      <4>2. CASE up' = Append(up, CancelFrame(r))
        BY <4>2, FrameTypes, AppendFacts DEF TypeOK, WireTypeOK, CancelFrame
      <4> QED
        BY <2>7, <4>1, <4>2 DEF Cancel
    <3>2. \A q \in Requests : call'[q] \in Unsent => call[q] \in Unsent
      BY <2>7 DEF Cancel, TypeOK, SessionTypeOK
    <3> QED
      BY <1>0, <2>0, <3>1, <3>2 DEF SentOnce
  <2> QED
    BY <1>1, <2>1, <2>2, <2>3, <2>4, <2>5, <2>6, <2>7, <2>8 DEF CallStep, WriteError
<1>2. ASSUME ReaderStep \/ Close, UNCHANGED serverVars PROVE SentOnce'
  <2>1. UNCHANGED <<up, call, task>>
    BY <1>2 DEF ReaderStep, Close, DeliverReply, LateResponse, ReadUndecodable, ReadTorn, ReadFails, ReadEof, DrainPending,
                serverVars, wireVars
  <2> QED
    BY <2>1 DEF SentOnce
<1>3. ASSUME LoopStep \/ LoopWaits \/ BeginDrain, UNCHANGED sessionVars PROVE SentOnce'
  <2>0. UNCHANGED call
    BY <1>3 DEF sessionVars
  <2>1. CASE RefuseDraining \/ RejectLimit \/ RejectBadBody \/ UnknownOpcode \/ CancelPending
    <3>1. up # <<>> /\ up' = Tail(up) /\ UNCHANGED task
      BY <2>1 DEF RefuseDraining, RejectLimit, RejectBadBody, UnknownOpcode, CancelPending, Payload,
                  NextFrame, taskVars
    <3> QED
      BY <2>0, <3>1, SentOnceTail
  <2>2. CASE SpawnTask
    <3>1. /\ up # <<>> /\ up' = Tail(up) /\ Head(up) = up[1] /\ up[1].kind = "request"
          /\ task' = [task EXCEPT ![up[1].id] = "spawned"]
          /\ 1 \in 1..Len(up)
      BY <2>2, TailFacts DEF SpawnTask, Payload, NextFrame, TypeOK, WireTypeOK
    <3>2. \A i \in 1..Len(up') : i \in Nat /\ i + 1 \in 1..Len(up) /\ up'[i] = up[i + 1]
      BY <3>1, TailFacts DEF TypeOK, WireTypeOK
    <3>3. \A i \in 1..Len(up') : up'[i].kind = "request" => up'[i].id # up[1].id
      BY <3>1, <3>2 DEF SentOnce
    <3>4. call[up[1].id] \notin Unsent
      BY <3>1 DEF SentOnce
    <3>5. \A q \in Requests : q # up[1].id => task'[q] = task[q]
      BY <3>1 DEF TypeOK, ServerTypeOK
    <3>6. \A i, j \in 1..Len(up') :
            up'[i].kind = "request" /\ up'[j].kind = "request" /\ up'[i].id = up'[j].id => i = j
      BY <3>2 DEF SentOnce
    <3>7. \A i \in 1..Len(up') :
            up'[i].kind = "request" => task'[up'[i].id] = "none" /\ call'[up'[i].id] \notin Unsent
      BY <1>0, <2>0, <3>2, <3>3, <3>5 DEF SentOnce
    <3> QED
      BY <2>0, <3>4, <3>5, <3>6, <3>7 DEF SentOnce
  <2>3. CASE QuietLoop
    <3>1. UNCHANGED <<up, task>>
      BY <2>3, QuietFacts
    <3> QED
      BY <2>0, <3>1 DEF SentOnce
  <2> QED
    BY <1>3, <2>1, <2>2, <2>3
    DEF LoopStep, LoopWaits, QuietLoop, DrainedEmpty, DrainDeadline
<1>4. ASSUME NEW r \in Requests, TaskStep(r), UNCHANGED sessionVars PROVE SentOnce'
  <2>1. /\ UNCHANGED <<up, call>>
        /\ task[r] # "none"
        /\ \E l \in TaskStates : task' = [task EXCEPT ![r] = l]
    BY <1>4 DEF TaskStep, StartMutating, StartReading, HandlerReturns, HandlerAborted, WriteReply,
                ReplyNotEncodable, RemoveEntry, TaskDropped, TaskDroppedWriting, TaskEnds, Alive,
                TaskStates, sessionVars, loopVars, wireVars
  <2>2. \A q \in Requests : task[q] = "none" => task'[q] = "none"
    BY <2>1 DEF TypeOK, ServerTypeOK
  <2> QED
    BY <1>0, <2>1, <2>2 DEF SentOnce
<1>5. CASE UNCHANGED vars
  BY <1>5 DEF vars, wireVars, sessionVars, serverVars, SentOnce
<1> QED
  BY <1>1, <1>2, <1>3, <1>4, <1>5 DEF Next, ClientStep, ServerStep

(* The request whose frame makes the loop spawn a task has had none yet.   *)
LEMMA SpawnFresh ==
  ASSUME TypeOK, SentOnce, SpawnTask
  PROVE  /\ Head(up).id \in Requests
         /\ task[Head(up).id] = "none"
         /\ call[Head(up).id] \notin Unsent
<1>1. Head(up) = up[1] /\ 1 \in 1..Len(up) /\ up[1].kind = "request"
  BY TailFacts DEF SpawnTask, Payload, NextFrame, TypeOK, WireTypeOK
<1> QED
  BY <1>1, FramesInFlight DEF SentOnce

(* The steps of the loop that take a permit or give it back.               *)
PermitMoves == HeaderAdmitted \/ RejectBadBody \/ UnknownOpcode \/ LoopReadFails

(* Steps of the client, the reader and most of the loop touch no task and  *)
(* no permit.                                                              *)
LEMMA TasksUntouched ==
  ASSUME \/ ClientStep
         \/ FirstByte \/ FirstEof \/ HeaderRefused \/ HeaderLimited
         \/ RefuseDraining \/ RejectLimit \/ InsertEntry \/ CancelPending
         \/ StopReading \/ DrainEntries \/ BeginDrain
         \/ UNCHANGED vars
  PROVE  UNCHANGED taskVars /\ (conn = "receiving" <=> conn' = "receiving")
<1>1. UNCHANGED taskVars
  BY DEF ClientStep, FirstByte, FirstEof, HeaderRefused, HeaderLimited, RefuseDraining, RejectLimit,
         InsertEntry, CancelPending, StopReading, DrainEntries, BeginDrain, vars, serverVars,
         taskVars
<1>2. conn = "receiving" <=> conn' = "receiving"
  BY DEF ClientStep, FirstByte, FirstEof, HeaderRefused, HeaderLimited, RefuseDraining, RejectLimit,
         InsertEntry, CancelPending, StopReading, DrainEntries, BeginDrain, vars, serverVars,
         Payload, NextFrame, WriteRejection
<1> QED
  BY <1>1, <1>2

(* The remaining steps are the ones of the tasks, the spawn and the moves  *)
(* of a permit.                                                            *)
LEMMA StepCases ==
  ASSUME [Next]_vars
  PROVE  \/ UNCHANGED taskVars /\ (conn = "receiving" <=> conn' = "receiving")
         \/ PermitMoves /\ UNCHANGED sessionVars
         \/ SpawnTask /\ UNCHANGED sessionVars
         \/ (\E r \in Requests : TaskStep(r)) /\ UNCHANGED sessionVars
<1>1. CASE ClientStep \/ UNCHANGED vars
  BY <1>1, TasksUntouched
<1>2. CASE ServerStep
  <2>1. CASE LoopStep \/ LoopWaits \/ BeginDrain
    BY <1>2, <2>1, TasksUntouched
    DEF ServerStep, LoopStep, LoopWaits, PermitMoves, DrainedEmpty, DrainDeadline
  <2> QED
    BY <1>2, <2>1 DEF ServerStep
<1> QED
  BY <1>1, <1>2 DEF Next

(* Where the loop holds a permit, and what a move of one changes.          *)
LEMMA PermitMoveFacts ==
  ASSUME PermitMoves
  PROVE  /\ UNCHANGED <<task, answer, mutateLock, handled>>
         /\ \/ conn # "receiving" /\ conn' = "receiving" /\ permits > 0 /\ permits' = permits - 1
            \/ conn = "receiving" /\ conn' # "receiving" /\ permits' = permits + 1
            \/ conn # "receiving" /\ conn' # "receiving" /\ permits' = permits
  BY DEF PermitMoves, HeaderAdmitted, RejectBadBody, UnknownOpcode, LoopReadFails, Payload, NextFrame,
         WriteRejection

-----------------------------------------------------------------------------
(* mutate_lock.                                                            *)

(* The lock is free and no handler runs in the initial state.              *)
LEMMA MutateLockInit == Init => MutateLockLive
  BY WireAssumption DEF Init, ServerInit, MutateLockLive

(* Spawning gives no task the lock; only the start of a mutating handler   *)
(* takes it, and every way in which a handler ends releases it.            *)
LEMMA MutateLockStep ==
  TypeOK /\ SentOnce /\ MutateLockLive /\ [Next]_vars => MutateLockLive'
<1> SUFFICES ASSUME TypeOK, SentOnce, MutateLockLive, [Next]_vars PROVE MutateLockLive'
  OBVIOUS
<1> USE DEF MutateLockLive, TypeOK, ServerTypeOK
<1>1. CASE UNCHANGED taskVars
  BY <1>1 DEF taskVars
<1>4. CASE PermitMoves
  BY <1>4, PermitMoveFacts
<1>2. CASE SpawnTask
  <2>1. Head(up).id \in Requests /\ task[Head(up).id] = "none"
    BY <1>2, SpawnFresh
  <2> QED
    BY <1>2, <2>1 DEF SpawnTask
<1>3. ASSUME NEW r \in Requests, TaskStep(r) PROVE MutateLockLive'
  <2>1. CASE StartMutating(r)
    BY <2>1, WireAssumption DEF StartMutating
  <2>2. CASE StartReading(r)
    BY <2>2 DEF StartReading
  <2>3. CASE HandlerReturns(r) \/ HandlerAborted(r)
    BY <2>3, WireAssumption DEF HandlerReturns, HandlerAborted, Unlocked
  <2>4. CASE WriteReply(r) \/ ReplyNotEncodable(r) \/ RemoveEntry(r) \/ TaskDroppedWriting(r)
    BY <2>4 DEF WriteReply, ReplyNotEncodable, RemoveEntry, TaskDroppedWriting, TaskEnds
  <2>5. CASE TaskDropped(r)
    BY <2>5, WireAssumption DEF TaskDropped, TaskEnds, Unlocked
  <2> QED
    BY <1>3, <2>1, <2>2, <2>3, <2>4, <2>5 DEF TaskStep
<1> QED
  BY <1>1, <1>2, <1>3, <1>4, StepCases

(* Mutating handlers of a connection exclude each other, and mutate_lock   *)
(* is held exactly while one of them runs: no abort, cancellation or       *)
(* dropped task leaves it taken (dispatch_request).                        *)
THEOREM MutateLockCorrect == Spec => []MutateLockLive
<1>1. Init => TypeOK /\ SentOnce /\ MutateLockLive
  BY TypeInit, SentOnceInit, MutateLockInit
<1>2. TypeOK /\ SentOnce /\ MutateLockLive /\ [Next]_vars
        => (TypeOK /\ SentOnce /\ MutateLockLive)'
  BY TypeStep, SentOnceStep, MutateLockStep
<1> QED
  BY <1>1, <1>2, PTL DEF Spec

-----------------------------------------------------------------------------
(* pending_slots.                                                          *)

AliveTasks == {r \in Requests : Alive(r)}

(* The permits that the loop does not hold itself.                         *)
Lent == IF conn = "receiving" THEN MaxInFlight - 1 ELSE MaxInFlight

PermitInv == IsFiniteSet(AliveTasks) /\ permits + Cardinality(AliveTasks) = Lent

(* All permits are free and no task exists in the initial state.           *)
LEMMA PermitInit == Init => PermitInv
<1> SUFFICES ASSUME Init PROVE PermitInv
  OBVIOUS
<1>1. AliveTasks = {}
  BY DEF Init, ServerInit, AliveTasks, Alive
<1> QED
  BY <1>1, FS_EmptySet, WireAssumption DEF PermitInv, Lent, Init, ServerInit

(* A spawn moves one permit to a new task; the end of a task, by return or *)
(* by being dropped, moves it back; no other step does either.             *)
LEMMA PermitStep == TypeOK /\ SentOnce /\ PermitInv /\ [Next]_vars => PermitInv'
<1> SUFFICES ASSUME TypeOK, SentOnce, PermitInv, [Next]_vars PROVE PermitInv'
  OBVIOUS
<1> USE DEF TypeOK, ServerTypeOK
<1>0. IsFiniteSet(AliveTasks) /\ Cardinality(AliveTasks) \in Nat
  BY FS_CardinalityType DEF PermitInv
<1>1. CASE UNCHANGED taskVars /\ (conn = "receiving" <=> conn' = "receiving")
  <2>1. AliveTasks' = AliveTasks
    BY <1>1 DEF taskVars, AliveTasks, Alive
  <2> QED
    BY <1>1, <2>1 DEF PermitInv, Lent, taskVars
<1>4. CASE PermitMoves
  <2>1. AliveTasks' = AliveTasks
    BY <1>4, PermitMoveFacts DEF AliveTasks, Alive
  <2> QED
    BY <1>0, <1>4, <2>1, PermitMoveFacts, WireAssumption DEF PermitInv, Lent
<1>2. CASE SpawnTask
  <2>1. Head(up).id \in Requests /\ task[Head(up).id] = "none"
    BY <1>2, SpawnFresh
  <2>2. /\ AliveTasks' = AliveTasks \cup {Head(up).id}
        /\ Head(up).id \notin AliveTasks
    BY <1>2, <2>1 DEF SpawnTask, AliveTasks, Alive
  <2>3. IsFiniteSet(AliveTasks') /\ Cardinality(AliveTasks') = Cardinality(AliveTasks) + 1
    BY <1>0, <2>2, FS_AddElement
  <2>4. permits' = permits /\ conn = "receiving" /\ conn' # "receiving"
    BY <1>2 DEF SpawnTask, Payload, NextFrame
  <2> QED
    BY <1>0, <2>3, <2>4, WireAssumption DEF PermitInv, Lent
<1>3. ASSUME NEW r \in Requests, TaskStep(r) PROVE PermitInv'
  <2>0. UNCHANGED conn
    BY <1>3 DEF TaskStep, StartMutating, StartReading, HandlerReturns, HandlerAborted, WriteReply,
                ReplyNotEncodable, RemoveEntry, TaskDropped, TaskDroppedWriting, loopVars
  <2>1. CASE StartMutating(r) \/ StartReading(r) \/ HandlerReturns(r) \/ HandlerAborted(r)
             \/ WriteReply(r) \/ ReplyNotEncodable(r)
    <3>1. permits' = permits /\ Alive(r) /\ Alive(r)' /\ \A q \in Requests \ {r} : task'[q] = task[q]
      BY <2>1 DEF StartMutating, StartReading, HandlerReturns, HandlerAborted, WriteReply,
                  ReplyNotEncodable, Alive
    <3>2. AliveTasks' = AliveTasks
      BY <3>1 DEF AliveTasks, Alive
    <3> QED
      BY <2>0, <3>1, <3>2 DEF PermitInv, Lent
  <2>2. CASE RemoveEntry(r) \/ TaskDropped(r) \/ TaskDroppedWriting(r)
    <3>1. TaskEnds(r) /\ Alive(r)
      BY <2>2 DEF RemoveEntry, TaskDropped, TaskDroppedWriting, Alive
    <3>2. AliveTasks' = AliveTasks \ {r} /\ r \in AliveTasks
      BY <3>1 DEF TaskEnds, AliveTasks, Alive
    <3>3. IsFiniteSet(AliveTasks') /\ Cardinality(AliveTasks') = Cardinality(AliveTasks) - 1
      BY <1>0, <3>2, FS_RemoveElement
    <3>4. permits' = permits + 1
      BY <3>1 DEF TaskEnds
    <3> QED
      BY <1>0, <2>0, <3>3, <3>4 DEF PermitInv, Lent
  <2> QED
    BY <1>3, <2>1, <2>2 DEF TaskStep
<1> QED
  BY <1>1, <1>2, <1>3, <1>4, StepCases

(* Permits are neither leaked nor forged, so a connection never has more   *)
(* than MaxInFlight tasks, aborted ones included (serve_binary).           *)
THEOREM PermitsCorrect == Spec => []PermitsConserved
<1>1. Init => TypeOK /\ SentOnce /\ PermitInv
  BY TypeInit, SentOnceInit, PermitInit
<1>2. TypeOK /\ SentOnce /\ PermitInv /\ [Next]_vars => (TypeOK /\ SentOnce /\ PermitInv)'
  BY TypeStep, SentOnceStep, PermitStep
<1>3. PermitInv => PermitsConserved
  BY DEF PermitInv, Lent, PermitsConserved, AliveTasks
<1> QED
  BY <1>1, <1>2, <1>3, PTL DEF Spec

-----------------------------------------------------------------------------
(* The pending map.                                                        *)

(* Already from the moment its entry is inserted, a call is in the pending *)
(* map or its value has been sent.                                         *)
WaiterInv ==
  \A r \in Requests : call[r] \in {"inserted", "writing", "waiting"} => r \in pending \/ slot[r] # None

(* A step of a call only removes its own entry, and only when it stops     *)
(* waiting.                                                                *)
LEMMA WaiterCall ==
  ASSUME TypeOK, WaiterInv, NEW r \in Requests, CallStep(r) \/ WriteError(r)
  PROVE  WaiterInv'
<1> USE DEF WaiterInv, TypeOK, SessionTypeOK
<1>1. /\ UNCHANGED slot
      /\ pending \ {r} \subseteq pending'
      /\ \A q \in Requests \ {r} : call'[q] = call[q]
  BY DEF CallStep, WriteError, SendRefusedClosed, SendRefusedLimit, SendAdmitted, InsertPending, EncodeFails,
         BeginWrite, WriteRequest, WriteFails, Receive, RequestTimeout, RemoveExpired, Cancel, Return
<1>2. call'[r] \in {"inserted", "writing", "waiting"} => r \in pending' \/ slot'[r] # None
  BY DEF CallStep, WriteError, SendRefusedClosed, SendRefusedLimit, SendAdmitted, InsertPending, EncodeFails,
         BeginWrite, WriteRequest, WriteFails, Receive, RequestTimeout, RemoveExpired, Cancel, Return
<1> QED
  BY <1>1, <1>2

(* The reader removes an entry only together with sending its value, and   *)
(* at its end it sends to everybody that is left.                          *)
LEMMA WaiterReader ==
  ASSUME TypeOK, WaiterInv, ReaderStep \/ Close
  PROVE  WaiterInv'
<1> USE DEF WaiterInv, TypeOK, SessionTypeOK
<1>1. CASE DeliverReply
  <2>1. Head(down) \in DownFrame
    BY <1>1, TailFacts DEF DeliverReply, WireTypeOK
  <2>2. [kind |-> Head(down).body, of |-> Head(down).of] # None
    BY <2>1 DEF DownFrame, Bodies, None
  <2> QED
    BY <1>1, <2>1, <2>2 DEF DeliverReply, DownFrame
<1>2. CASE \/ LateResponse \/ ReadUndecodable \/ ReadTorn(ServerClosed)
           \/ ReadFails \/ ReadEof(ServerClosed)
  BY <1>2 DEF LateResponse, ReadUndecodable, ReadTorn, ReadFails, ReadEof
<1>3. CASE DrainPending
  <2>1. Handed # None
    BY OutcomeTypes DEF LocalErrors, Handed
  <2> QED
    BY <1>3, <2>1 DEF DrainPending
<1>4. CASE Close
  BY <1>4 DEF Close
<1> QED
  BY <1>1, <1>2, <1>3, <1>4 DEF ReaderStep

(* Steps of the server leave the session alone.                            *)
LEMMA WaiterStep == TypeOK /\ WaiterInv /\ [Next]_vars => WaiterInv'
<1> SUFFICES ASSUME TypeOK, WaiterInv, [Next]_vars PROVE WaiterInv'
  OBVIOUS
<1>1. CASE ClientStep
  BY <1>1, WaiterCall, WaiterReader DEF ClientStep
<1>2. CASE ServerStep \/ UNCHANGED vars
  BY <1>2 DEF ServerStep, vars, sessionVars, WaiterInv
<1> QED
  BY <1>1, <1>2 DEF Next

(* No interleaving of a call with the reader's last steps strands it: a    *)
(* call that waits is in the pending map or has its value                  *)
(* (ControlSession::send, spawn_reader).                                   *)
THEOREM WaiterCorrect == Spec => []WaiterReachable
<1>1. Init => TypeOK /\ WaiterInv
  BY TypeInit DEF Init, SessionInit, WaiterInv
<1>2. TypeOK /\ WaiterInv /\ [Next]_vars => (TypeOK /\ WaiterInv)'
  BY TypeStep, WaiterStep
<1>3. WaiterInv => WaiterReachable
  BY DEF WaiterInv, WaiterReachable
<1> QED
  BY <1>1, <1>2, <1>3, PTL DEF Spec

-----------------------------------------------------------------------------
(* The connection's pending map.                                           *)

(* As long as the loop has not failed, a live task is in the map, about to *)
(* be put into it by the loop, or aborted; a loop that ended emptied it.   *)
TaskRecorded ==
  /\ conn # "failed" =>
       \A r \in Requests : Alive(r) =>
         r \in entries \/ (conn = "inserting" /\ current = r) \/ r \in aborted
  /\ conn \in {"first", "ended"} => entries = {}

(* The loop takes a task out of the map only by aborting it, and a task    *)
(* takes itself out only when it ends.                                     *)
LEMMA TaskRecordedStep ==
  TypeOK /\ SentOnce /\ TaskRecorded /\ [Next]_vars => TaskRecorded'
<1> SUFFICES ASSUME TypeOK, SentOnce, TaskRecorded, [Next]_vars PROVE TaskRecorded'
  OBVIOUS
<1> USE DEF TaskRecorded, Alive
<1>1. CASE ClientStep \/ UNCHANGED vars
  BY <1>1 DEF ClientStep, vars, serverVars
<1>2. CASE LoopStep \/ LoopWaits \/ BeginDrain
  <2>1. CASE \/ FirstByte \/ FirstEof \/ HeaderRefused \/ HeaderLimited \/ HeaderAdmitted
             \/ RefuseDraining \/ RejectLimit \/ RejectBadBody \/ UnknownOpcode \/ LoopReadFails
             \/ StopReading \/ BeginDrain
    BY <2>1 DEF FirstByte, FirstEof, HeaderRefused, HeaderLimited, HeaderAdmitted, RefuseDraining,
                RejectLimit, RejectBadBody, UnknownOpcode, LoopReadFails, StopReading, BeginDrain,
                Payload, NextFrame, WriteRejection, taskVars
  <2>2. CASE SpawnTask
    <3>1. Head(up).id \in Requests
      BY <2>2, SpawnFresh
    <3> QED
      BY <2>2, <3>1 DEF SpawnTask, Payload, NextFrame, TypeOK, ServerTypeOK
  <2>3. CASE InsertEntry \/ CancelPending \/ DrainEntries
    BY <2>3 DEF InsertEntry, CancelPending, DrainEntries, NextFrame, taskVars
  <2> QED
    BY <1>2, <2>1, <2>2, <2>3 DEF LoopStep, LoopWaits, DrainedEmpty, DrainDeadline
<1>3. ASSUME NEW r \in Requests, TaskStep(r) PROVE TaskRecorded'
  <2> USE DEF TypeOK, ServerTypeOK
  <2>1. CASE RemoveEntry(r)
    BY <2>1 DEF RemoveEntry, TaskEnds
  <2>2. CASE ~RemoveEntry(r)
    <3>1. UNCHANGED loopVars /\ Alive(r) /\ \A q \in Requests \ {r} : task'[q] = task[q]
      BY <1>3, <2>2 DEF TaskStep, StartMutating, StartReading, HandlerReturns, HandlerAborted,
                        WriteReply, ReplyNotEncodable, TaskDropped, TaskDroppedWriting, TaskEnds
    <3> QED
      BY <3>1 DEF loopVars
  <2> QED
    BY <2>1, <2>2
<1> QED
  BY <1>1, <1>2, <1>3 DEF Next, ServerStep

(* A connection that ends normally leaves only aborted tasks behind,       *)
(* although a task is spawned before the map knows it (serve_binary,       *)
(* wait_pending_drain).                                                    *)
THEOREM DrainCorrect == Spec => []DrainedTasksAborted
<1>1. Init => TypeOK /\ SentOnce /\ TaskRecorded
  BY TypeInit, SentOnceInit DEF Init, ServerInit, TaskRecorded, Alive
<1>2. TypeOK /\ SentOnce /\ TaskRecorded /\ [Next]_vars => (TypeOK /\ SentOnce /\ TaskRecorded)'
  BY TypeStep, SentOnceStep, TaskRecordedStep
<1>3. TaskRecorded => DrainedTasksAborted
  BY DEF TaskRecorded, DrainedTasksAborted
<1> QED
  BY <1>1, <1>2, <1>3, PTL DEF Spec

-----------------------------------------------------------------------------
(* The channel implements ControlRpc.                                      *)

(* Whatever is on its way back to a call - in the task that produced it,   *)
(* on the wire or in the oneshot channel - belongs to that call, and if it *)
(* is a handler's response then that handler has run.                      *)
AnswersOwn ==
  /\ \A r \in Requests : task[r] \in {"none", "spawned", "handling"} => r \notin handled
  /\ \A r \in Requests : answer[r] = "handled" => r \in handled
  /\ \A i \in 1..Len(down) : down[i].kind = "reply" =>
       down[i].of = down[i].id /\ (down[i].body = "handled" => down[i].id \in handled)
  /\ \A r \in Requests : slot[r].kind \in Bodies =>
       slot[r].of = r /\ (slot[r].kind = "handled" => r \in handled)

(* Nothing has been handled or answered in the initial state.              *)
LEMMA AnswersOwnInit == Init => AnswersOwn
  BY DEF Init, WireInit, SessionInit, ServerInit, AnswersOwn, None, Bodies

(* Appending a reply of the request's own task keeps the frames right.     *)
LEMMA AnswersOwnAppend ==
  ASSUME TypeOK, AnswersOwn, NEW f \in DownFrame, down' \in {down, Append(down, f)},
         f.kind = "reply" => f.of = f.id /\ (f.body = "handled" => f.id \in handled)
  PROVE  \A i \in 1..Len(down') : down'[i].kind = "reply" =>
           down'[i].of = down'[i].id /\ (down'[i].body = "handled" => down'[i].id \in handled)
<1>1. CASE down' = down
  BY <1>1 DEF AnswersOwn
<1>2. CASE down' = Append(down, f)
  <2>1. \A i \in 1..Len(down') : (i \in 1..Len(down) /\ down'[i] = down[i]) \/ down'[i] = f
    BY <1>2, AppendFacts DEF TypeOK, WireTypeOK
  <2> QED
    BY <2>1 DEF AnswersOwn
<1> QED
  BY <1>1, <1>2

(* Steps of the client.                                                    *)
LEMMA AnswersOwnClient ==
  ASSUME TypeOK, AnswersOwn, ClientStep
  PROVE  AnswersOwn'
<1>0. UNCHANGED <<task, answer, handled>>
  BY DEF ClientStep, serverVars
<1>1. CASE \E r \in Requests : CallStep(r) \/ WriteError(r)
  <2>1. UNCHANGED <<down, slot>>
    BY <1>1 DEF CallStep, WriteError, SendRefusedClosed, SendRefusedLimit, SendAdmitted, InsertPending,
                EncodeFails, BeginWrite, WriteRequest, WriteFails, Receive, RequestTimeout, RemoveExpired,
                Cancel, wireVars
  <2> QED
    BY <1>0, <2>1 DEF AnswersOwn
<1>2. CASE ReaderStep \/ Close
  <2>1. ASSUME down # <<>>, down' = Tail(down)
        PROVE  \A i \in 1..Len(down') : i + 1 \in 1..Len(down) /\ down'[i] = down[i + 1]
    BY <2>1, TailFacts DEF TypeOK, WireTypeOK
  <2>2. CASE DeliverReply
    <3>1. Head(down) \in DownFrame /\ Head(down) = down[1] /\ 1 \in 1..Len(down)
      BY <2>2, TailFacts DEF DeliverReply, TypeOK, WireTypeOK
    <3>2. /\ down[1].of = down[1].id
          /\ down[1].body = "handled" => down[1].id \in handled
      BY <2>2, <3>1 DEF DeliverReply, AnswersOwn
    <3>3. slot' = [slot EXCEPT ![down[1].id] = [kind |-> down[1].body, of |-> down[1].of]]
      BY <2>2, <3>1 DEF DeliverReply
    <3>4. \A r \in Requests : slot'[r].kind \in Bodies =>
            slot'[r].of = r /\ (slot'[r].kind = "handled" => r \in handled)
      BY <3>2, <3>3 DEF AnswersOwn, TypeOK, SessionTypeOK
    <3>5. down # <<>> /\ down' = Tail(down)
      BY <2>2 DEF DeliverReply
    <3> QED
      BY <1>0, <2>1, <3>4, <3>5 DEF AnswersOwn
  <2>3. CASE LateResponse \/ ReadUndecodable \/ ReadTorn(ServerClosed)
    <3>1. down # <<>> /\ down' = Tail(down) /\ UNCHANGED slot
      BY <2>3 DEF LateResponse, ReadUndecodable, ReadTorn
    <3> QED
      BY <1>0, <2>1, <3>1 DEF AnswersOwn
  <2>4. CASE ReadFails \/ ReadEof(ServerClosed)
    BY <1>0, <2>4 DEF ReadFails, ReadEof, wireVars, AnswersOwn
  <2>5. CASE DrainPending \/ Close
    <3>1. UNCHANGED down
      BY <2>5 DEF DrainPending, Close, wireVars
    <3>2. \A r \in Requests : slot'[r] = slot[r] \/ slot'[r].kind \notin Bodies
      <4>1. Handed.kind \notin Bodies /\ Failure("closed").kind \notin Bodies
        BY DEF Handed, Failure, Bodies
      <4> QED
        BY <2>5, <4>1 DEF DrainPending, Close
    <3> QED
      BY <1>0, <3>1, <3>2 DEF AnswersOwn
  <2> QED
    BY <1>2, <2>2, <2>3, <2>4, <2>5 DEF ReaderStep
<1> QED
  BY <1>1, <1>2 DEF ClientStep

(* Steps of the server.                                                    *)
LEMMA AnswersOwnServer ==
  ASSUME TypeOK, SentOnce, AnswersOwn, ServerStep
  PROVE  AnswersOwn'
<1>0. UNCHANGED slot
  BY DEF ServerStep, sessionVars
<1>1. CASE RejectLimit \/ RejectBadBody
  <2>1. Head(up).id \in Requests
    BY <1>1, TailFacts, FramesInFlight
    DEF RejectLimit, RejectBadBody, Payload, NextFrame, TypeOK, WireTypeOK
  <2>2. /\ Reply(Head(up).id, "rejected") \in DownFrame
        /\ Reply(Head(up).id, "rejected").of = Reply(Head(up).id, "rejected").id
        /\ Reply(Head(up).id, "rejected").body # "handled"
    BY <2>1, FrameTypes DEF Bodies, Reply
  <2>3. down' \in {down, Append(down, Reply(Head(up).id, "rejected"))}
    BY <1>1 DEF RejectLimit, RejectBadBody, WriteRejection
  <2>4. \A i \in 1..Len(down') : down'[i].kind = "reply" =>
          down'[i].of = down'[i].id /\ (down'[i].body = "handled" => down'[i].id \in handled)
    BY <2>2, <2>3, AnswersOwnAppend
  <2>5. UNCHANGED <<task, answer, handled>>
    BY <1>1 DEF RejectLimit, RejectBadBody, taskVars
  <2> QED
    BY <1>0, <2>4, <2>5 DEF AnswersOwn
<1>2. CASE QuietLoop \/ RefuseDraining \/ UnknownOpcode \/ CancelPending
  <2>1. UNCHANGED <<task, answer, handled, down>>
    BY <1>2, QuietFacts DEF RefuseDraining, UnknownOpcode, CancelPending, taskVars
  <2> QED
    BY <1>0, <2>1 DEF AnswersOwn
<1>3. CASE SpawnTask
  <2>1. Head(up).id \in Requests /\ task[Head(up).id] = "none"
    BY <1>3, SpawnFresh
  <2> QED
    BY <1>0, <1>3, <2>1 DEF SpawnTask, AnswersOwn, TypeOK, ServerTypeOK
<1>4. ASSUME NEW r \in Requests, TaskStep(r) PROVE AnswersOwn'
  <2> USE DEF TypeOK, ServerTypeOK
  <2>1. CASE StartMutating(r) \/ StartReading(r)
    BY <1>0, <2>1 DEF StartMutating, StartReading, loopVars, wireVars, AnswersOwn
  <2>2. CASE HandlerReturns(r)
    <3>1. /\ UNCHANGED down
          /\ handled' = handled \cup {r}
          /\ answer' = [answer EXCEPT ![r] = "handled"]
          /\ task' = [task EXCEPT ![r] = "replying"]
      BY <2>2 DEF HandlerReturns, wireVars
    <3> QED
      BY <1>0, <3>1 DEF AnswersOwn
  <2>3. CASE HandlerAborted(r)
    BY <1>0, <2>3 DEF HandlerAborted, loopVars, wireVars, AnswersOwn
  <2>4. CASE WriteReply(r)
    <3>1. /\ Reply(r, answer[r]) \in DownFrame
          /\ Reply(r, answer[r]).of = Reply(r, answer[r]).id
          /\ Reply(r, answer[r]).body = answer[r] /\ Reply(r, answer[r]).id = r
      BY FrameTypes DEF Reply
    <3>2. down' \in {down, Append(down, Reply(r, answer[r]))}
      BY <2>4 DEF WriteReply
    <3>3. answer[r] = "handled" => r \in handled
      BY DEF AnswersOwn
    <3>4. \A i \in 1..Len(down') : down'[i].kind = "reply" =>
            down'[i].of = down'[i].id /\ (down'[i].body = "handled" => down'[i].id \in handled)
      BY <3>1, <3>2, <3>3, AnswersOwnAppend
    <3>5. UNCHANGED <<answer, handled>> /\ task' = [task EXCEPT ![r] = "removing"]
      BY <2>4 DEF WriteReply
    <3> QED
      BY <1>0, <3>4, <3>5 DEF AnswersOwn
  <2>5. CASE ReplyNotEncodable(r) \/ RemoveEntry(r) \/ TaskDropped(r)
    <3>1. /\ UNCHANGED <<answer, handled, down>>
          /\ task' = [task EXCEPT ![r] = "removing"] \/ task' = [task EXCEPT ![r] = "gone"]
      BY <2>5 DEF ReplyNotEncodable, RemoveEntry, TaskDropped, TaskEnds, wireVars
    <3> QED
      BY <1>0, <3>1 DEF AnswersOwn
  <2>6. CASE TaskDroppedWriting(r)
    <3>1. Torn(r) \in DownFrame /\ Torn(r).kind # "reply"
      BY FrameTypes DEF Torn
    <3>2. down' = Append(down, Torn(r))
      BY <2>6 DEF TaskDroppedWriting
    <3>3. \A i \in 1..Len(down') : down'[i].kind = "reply" =>
            down'[i].of = down'[i].id /\ (down'[i].body = "handled" => down'[i].id \in handled)
      BY <3>1, <3>2, AnswersOwnAppend
    <3>4. UNCHANGED <<answer, handled>> /\ task' = [task EXCEPT ![r] = "gone"]
      BY <2>6 DEF TaskDroppedWriting, TaskEnds
    <3> QED
      BY <1>0, <3>3, <3>4 DEF AnswersOwn
  <2> QED
    BY <1>4, <2>1, <2>2, <2>3, <2>4, <2>5, <2>6 DEF TaskStep
<1> QED
  BY <1>1, <1>2, <1>3, <1>4
  DEF ServerStep, LoopStep, LoopWaits, QuietLoop, DrainedEmpty, DrainDeadline

ChannelInv == TypeOK /\ SentOnce /\ AnswersOwn

(* The inductive invariant of the refinement.                              *)
LEMMA ChannelInvStep == ChannelInv /\ [Next]_vars => ChannelInv'
<1>1. AnswersOwn /\ UNCHANGED vars => AnswersOwn'
  BY DEF AnswersOwn, vars, wireVars, sessionVars, serverVars
<1> QED
  BY <1>1, TypeStep, SentOnceStep, AnswersOwnClient, AnswersOwnServer DEF ChannelInv, Next

(* The abstract status of every call.                                      *)
Status == [r \in Requests |-> IF call[r] \in {"idle", "done"} THEN call[r] ELSE "open"]

(* A call that returns o from an open or idle state is an Answer.          *)
LEMMA ReturnIsAnswer ==
  ASSUME TypeOK, NEW r \in Requests, NEW o \in Outcome, o # None, call[r] # "done",
         Return(r, o), UNCHANGED handled,
         o.kind = "handled" => r \in handled /\ o.of = r,
         o.kind = "rejected" => o.of = r
  PROVE  Rpc!Next
<1>1. Status' = [Status EXCEPT ![r] = "done"]
  BY DEF Status, Return, TypeOK, SessionTypeOK
<1>2. Status[r] # "done"
  BY DEF Status
<1>3. Rpc!Answer(r, o)
  BY <1>1, <1>2 DEF Rpc!Answer, Status, Return
<1> QED
  BY <1>3 DEF Rpc!Next

(* A call that moves between two states that are neither idle nor done.    *)
LEMMA MoveIsStutter ==
  ASSUME TypeOK, NEW r \in Requests, NEW l \in CallStates \ {"idle", "done"},
         call[r] \notin {"idle", "done"}, call' = [call EXCEPT ![r] = l],
         UNCHANGED <<result, handled>>
  PROVE  UNCHANGED Rpc!rpcVars
<1>1. Status' = Status
  BY DEF Status, TypeOK, SessionTypeOK
<1> QED
  BY <1>1 DEF Rpc!rpcVars, Status

(* Every step of a call is an abstract call, an answer or a stutter.       *)
LEMMA CallRefines ==
  ASSUME ChannelInv, NEW r \in Requests, CallStep(r) \/ WriteError(r), UNCHANGED serverVars
  PROVE  [Rpc!Next]_(Rpc!rpcVars)
<1> USE DEF ChannelInv
<1>0. UNCHANGED handled
  BY DEF serverVars
<1>1. ASSUME NEW e \in LocalErrors, call[r] # "done", Return(r, Failure(e)) PROVE Rpc!Next
  <2>1. /\ Failure(e) \in Outcome /\ Failure(e) # None
        /\ Failure(e).kind \notin {"handled", "rejected"}
    BY OutcomeTypes DEF LocalErrors
  <2> QED
    BY <1>0, <1>1, <2>1, ReturnIsAnswer
<1>2. CASE SendRefusedClosed(r)
  BY <1>1, <1>2 DEF SendRefusedClosed, LocalErrors
<1>3. CASE SendRefusedLimit(r)
  BY <1>1, <1>3 DEF SendRefusedLimit, LocalErrors
<1>4. CASE SendAdmitted(r)
  <2>1. Status' = [Status EXCEPT ![r] = "open"] /\ Status[r] = "idle"
    BY <1>4 DEF SendAdmitted, Status, TypeOK, SessionTypeOK
  <2>2. Rpc!Call(r)
    BY <1>0, <1>4, <2>1 DEF SendAdmitted, Rpc!Call, Status
  <2> QED
    BY <2>2 DEF Rpc!Next
<1>5. CASE InsertPending(r)
  BY <1>0, <1>5, MoveIsStutter DEF InsertPending, CallStates
<1>6. CASE EncodeFails(r)
  BY <1>1, <1>6 DEF EncodeFails, LocalErrors
<1>7. CASE WriteRequest(r, ServerClosed)
  BY <1>0, <1>7, MoveIsStutter DEF WriteRequest, CallStates
<1>13. CASE BeginWrite(r)
  BY <1>0, <1>13, MoveIsStutter DEF BeginWrite, CallStates
<1>8. CASE WriteFails(r, ServerClosed) \/ WriteFails(r, TRUE)
  BY <1>1, <1>8 DEF WriteFails, LocalErrors
<1>9. CASE Receive(r)
  <2>1. slot[r] \in Outcome /\ slot[r] # None /\ call[r] # "done" /\ Return(r, slot[r])
    BY <1>9 DEF Receive, TypeOK, SessionTypeOK
  <2>2. /\ slot[r].kind = "handled" => r \in handled /\ slot[r].of = r
        /\ slot[r].kind = "rejected" => slot[r].of = r
    BY DEF AnswersOwn, Bodies
  <2> QED
    BY <1>0, <2>1, <2>2, ReturnIsAnswer
<1>10. CASE RequestTimeout(r)
  BY <1>0, <1>10, MoveIsStutter DEF RequestTimeout, CallStates
<1>11. CASE RemoveExpired(r)
  BY <1>0, <1>11, MoveIsStutter DEF RemoveExpired, CallStates
<1>12. CASE Cancel(r, ServerClosed) \/ Cancel(r, TRUE)
  BY <1>1, <1>12 DEF Cancel, LocalErrors
<1> QED
  BY <1>2, <1>3, <1>4, <1>5, <1>6, <1>7, <1>8, <1>9, <1>10, <1>11, <1>12, <1>13
  DEF CallStep, WriteError

(* Of the other steps only the return of a handler is visible: it is the   *)
(* execution of its request.                                               *)
LEMMA OtherRefines ==
  ASSUME ChannelInv, [Next]_vars, 
         ~ \E r \in Requests : (CallStep(r) \/ WriteError(r)) /\ UNCHANGED serverVars
  PROVE  [Rpc!Next]_(Rpc!rpcVars)
<1>1. ASSUME UNCHANGED <<call, result, handled>> PROVE UNCHANGED Rpc!rpcVars
  BY <1>1 DEF Rpc!rpcVars
<1>2. CASE (ReaderStep \/ Close) /\ UNCHANGED serverVars
  BY <1>1, <1>2 DEF ReaderStep, Close, DeliverReply, LateResponse, ReadUndecodable, ReadTorn, ReadFails, ReadEof, DrainPending,
                    serverVars
<1>3. ASSUME NEW r \in Requests, HandlerReturns(r), UNCHANGED sessionVars PROVE Rpc!Next
  <2>1. r \notin handled /\ call[r] \notin Unsent
    BY <1>3 DEF HandlerReturns, ChannelInv, AnswersOwn, SentOnce
  <2>2. Status' = Status /\ Status[r] # "idle"
    BY <1>3, <2>1 DEF sessionVars, Status, Unsent
  <2>3. Rpc!Execute(r)
    BY <1>3, <2>1, <2>2 DEF Rpc!Execute, HandlerReturns, Status, sessionVars
  <2> QED
    BY <2>3 DEF Rpc!Next
<1>4. CASE ServerStep /\ ~ \E r \in Requests : HandlerReturns(r)
  <2>1. UNCHANGED handled
    BY <1>4 DEF ServerStep, LoopStep, LoopWaits, TaskStep, DrainedEmpty,
                DrainDeadline, FirstByte, FirstEof, HeaderRefused, HeaderLimited, HeaderAdmitted,
                RefuseDraining, RejectLimit, RejectBadBody, UnknownOpcode, LoopReadFails, SpawnTask,
                InsertEntry, CancelPending, StopReading, DrainEntries, BeginDrain, StartMutating,
                StartReading,
                HandlerAborted, WriteReply, ReplyNotEncodable, RemoveEntry, TaskDropped,
                TaskDroppedWriting, taskVars
  <2> QED
    BY <1>1, <1>4, <2>1 DEF ServerStep, sessionVars
<1>5. CASE UNCHANGED vars
  BY <1>1, <1>5 DEF vars, sessionVars, serverVars
<1> QED
  BY <1>2, <1>3, <1>4, <1>5 DEF Next, ClientStep, ServerStep

(* The session and the connection implement ControlRpc for any number of   *)
(* concurrent requests: no reply ever reaches another call, no handler     *)
(* runs twice for one request and every answer is final, whatever is       *)
(* cancelled, timed out, aborted or drained (session.rs, server_conn.rs).  *)
THEOREM ChannelImplementsRpc == Spec => ImplementsRpc
<1>1. Init => ChannelInv
  BY TypeInit, SentOnceInit, AnswersOwnInit DEF ChannelInv
<1>2. Init => Rpc!Init
  BY DEF Init, SessionInit, ServerInit, Rpc!Init
<1>3. ChannelInv /\ [Next]_vars => [Rpc!Next]_(Rpc!rpcVars)
  BY CallRefines, OtherRefines
<1> QED
  BY <1>1, <1>2, <1>3, ChannelInvStep, PTL DEF Spec, ImplementsRpc, Rpc!Spec

-----------------------------------------------------------------------------
(* The error of the reader.                                                *)

(* What may make the reader meet a cut frame: a call that gave up, or a    *)
(* drain deadline that aborted tasks.                                      *)
Disturbed == GaveUp \/ conn = "ended"

(* Only a call that returned has a result, so that a timeout stays one.    *)
TimeoutFinal == \A r \in Requests : result[r].kind = "timeout" => call[r] = "done"

(* The request is on the wire, its reply is, its task is at it.            *)
Asked(r) == \E i \in 1..Len(up) : up[i].kind = "request" /\ up[i].id = r

Replied(r) == \E i \in 1..Len(down) : down[i].kind = "reply" /\ down[i].id = r

Working(r) == task[r] \in {"spawned", "handling", "replying"}

(* A request is answered at most once, and then neither asked again nor    *)
(* worked on.                                                              *)
RepliedOnce ==
  /\ \A i, j \in 1..Len(down) :
       down[i].kind = "reply" /\ down[j].kind = "reply" /\ down[i].id = down[j].id => i = j
  /\ \A r \in Requests : Replied(r) => call[r] \notin Unsent /\ ~Working(r) /\ ~Asked(r)

(* As long as nothing has disturbed the channel no task is aborted and no  *)
(* frame is cut.                                                           *)
Calm ==
  ~Disturbed =>
    /\ readerErr # "torn"
    /\ aborted = {}
    /\ \A i \in 1..Len(up) : up[i].kind = "request"
    /\ \A i \in 1..Len(down) : down[i].kind = "reply"

(* As long as no call has given up, whatever can still be answered is in   *)
(* the pending map.                                                        *)
Answerable(r) == call[r] \in {"inserted", "writing"} \/ Asked(r) \/ Working(r) \/ Replied(r)

Kept ==
  ~GaveUp =>
    /\ readerErr # "late"
    /\ reader = "reading" => \A r \in Requests : Answerable(r) => r \in pending

(* What reading and writing do to the requests on the wire.                *)
LEMMA AskedFacts ==
  ASSUME TypeOK
  PROVE  /\ up # <<>> /\ up' = Tail(up) =>
              /\ \A r \in Requests : Asked(r)' => Asked(r)
              /\ SentOnce /\ Head(up).kind = "request" =>
                   \A r \in Requests : r = Head(up).id => Asked(r) /\ ~Asked(r)'
              /\ (\A i \in 1..Len(up) : up[i].kind = "request") =>
                   /\ Head(up).kind = "request"
                   /\ \A i \in 1..Len(up') : up'[i].kind = "request"
         /\ \A f \in UpFrame : up' = Append(up, f) =>
              /\ \A r \in Requests : Asked(r)' <=> Asked(r) \/ (f.kind = "request" /\ f.id = r)
              /\ f.kind = "request" /\ (\A i \in 1..Len(up) : up[i].kind = "request") =>
                   \A i \in 1..Len(up') : up'[i].kind = "request"
<1>1. ASSUME up # <<>>, up' = Tail(up)
      PROVE  /\ \A r \in Requests : Asked(r)' => Asked(r)
             /\ SentOnce /\ Head(up).kind = "request" =>
                   \A r \in Requests : r = Head(up).id => Asked(r) /\ ~Asked(r)'
             /\ (\A i \in 1..Len(up) : up[i].kind = "request") =>
                  /\ Head(up).kind = "request"
                  /\ \A i \in 1..Len(up') : up'[i].kind = "request"
  <2>1. /\ Head(up) = up[1] /\ 1 \in 1..Len(up)
        /\ \A i \in 1..Len(up') : i \in Nat /\ i # 0 /\ i + 1 \in 1..Len(up) /\ up'[i] = up[i + 1]
    BY <1>1, TailFacts DEF TypeOK, WireTypeOK
  <2>2. \A i \in 1..Len(up') : i + 1 # 1
    BY <2>1
  <2>3. \A r \in Requests : Asked(r)' => Asked(r)
    BY <2>1 DEF Asked
  <2>4. SentOnce /\ Head(up).kind = "request" =>
                   \A r \in Requests : r = Head(up).id => Asked(r) /\ ~Asked(r)'
    BY <2>1, <2>2 DEF Asked, SentOnce
  <2> QED
    BY <2>1, <2>3, <2>4
<1>2. ASSUME NEW f \in UpFrame, up' = Append(up, f)
      PROVE  /\ \A r \in Requests : Asked(r)' <=> Asked(r) \/ (f.kind = "request" /\ f.id = r)
             /\ f.kind = "request" /\ (\A i \in 1..Len(up) : up[i].kind = "request") =>
                  \A i \in 1..Len(up') : up'[i].kind = "request"
  <2>1. /\ Len(up') = Len(up) + 1 /\ Len(up) \in Nat
        /\ \A i \in 1..Len(up') : \/ i \in 1..Len(up) /\ up'[i] = up[i]
                                  \/ i = Len(up) + 1 /\ up'[i] = f
    BY <1>2, AppendFacts DEF TypeOK, WireTypeOK
  <2>2. (\A i \in 1..Len(up) : i \in 1..Len(up') /\ up'[i] = up[i])
        /\ Len(up) + 1 \in 1..Len(up') /\ up'[Len(up) + 1] = f
    BY <2>1
  <2> QED
    BY <2>1, <2>2 DEF Asked
<1> QED
  BY <1>1, <1>2

(* What reading does to the replies on the wire.                           *)
LEMMA RepliedTail ==
  ASSUME TypeOK, RepliedOnce, down # <<>>, down' = Tail(down)
  PROVE  /\ \A i, j \in 1..Len(down') :
              down'[i].kind = "reply" /\ down'[j].kind = "reply" /\ down'[i].id = down'[j].id => i = j
         /\ \A r \in Requests : Replied(r)' => Replied(r)
         /\ Head(down).kind = "reply" =>
              \A r \in Requests : r = Head(down).id => Replied(r) /\ ~Replied(r)'
         /\ (\A i \in 1..Len(down) : down[i].kind = "reply") =>
              Head(down).kind = "reply" /\ \A i \in 1..Len(down') : down'[i].kind = "reply"
<1>1. /\ Head(down) = down[1] /\ 1 \in 1..Len(down)
      /\ \A i \in 1..Len(down') : i \in Nat /\ i # 0 /\ i + 1 \in 1..Len(down) /\ down'[i] = down[i + 1]
  BY TailFacts DEF TypeOK, WireTypeOK
<1>2. \A i, j \in 1..Len(down') : i + 1 # 1 /\ (i + 1 = j + 1 => i = j)
  BY <1>1
<1>3. \A i, j \in 1..Len(down) :
        down[i].kind = "reply" /\ down[j].kind = "reply" /\ down[i].id = down[j].id => i = j
  BY DEF RepliedOnce
<1>4. \A i, j \in 1..Len(down') :
        down'[i].kind = "reply" /\ down'[j].kind = "reply" /\ down'[i].id = down'[j].id => i = j
  BY <1>1, <1>2, <1>3
<1>5. Head(down).kind = "reply" =>
              \A r \in Requests : r = Head(down).id => Replied(r) /\ ~Replied(r)'
  BY <1>1, <1>2, <1>3 DEF Replied
<1>6. \A r \in Requests : Replied(r)' => Replied(r)
  BY <1>1 DEF Replied
<1> QED
  BY <1>1, <1>4, <1>5, <1>6

(* What writing a frame does to them, when a reply is the first of its id. *)
LEMMA RepliedAppend ==
  ASSUME TypeOK, RepliedOnce, NEW f \in DownFrame, down' = Append(down, f),
         f.kind = "reply" => ~Replied(f.id)
  PROVE  /\ \A i, j \in 1..Len(down') :
              down'[i].kind = "reply" /\ down'[j].kind = "reply" /\ down'[i].id = down'[j].id => i = j
         /\ \A r \in Requests : Replied(r)' => Replied(r) \/ (f.kind = "reply" /\ f.id = r)
         /\ f.kind = "reply" /\ (\A i \in 1..Len(down) : down[i].kind = "reply") =>
              \A i \in 1..Len(down') : down'[i].kind = "reply"
<1>1. /\ Len(down') = Len(down) + 1
      /\ \A i \in 1..Len(down') : \/ i \in 1..Len(down) /\ down'[i] = down[i]
                                  \/ i = Len(down) + 1 /\ down'[i] = f
  BY AppendFacts DEF TypeOK, WireTypeOK
<1>2. \A i, j \in 1..Len(down) :
        down[i].kind = "reply" /\ down[j].kind = "reply" /\ down[i].id = down[j].id => i = j
  BY DEF RepliedOnce
<1>3. \A i \in 1..Len(down) : f.kind = "reply" /\ down[i].kind = "reply" => down[i].id # f.id
  BY DEF Replied
<1>4. \A i, j \in 1..Len(down') :
        down'[i].kind = "reply" /\ down'[j].kind = "reply" /\ down'[i].id = down'[j].id => i = j
  BY <1>1, <1>2, <1>3
<1>5. \A r \in Requests : Replied(r)' => Replied(r) \/ (f.kind = "reply" /\ f.id = r)
  BY <1>1 DEF Replied
<1> QED
  BY <1>1, <1>4, <1>5

(* A channel that was disturbed stays so: the loop does not come back from *)
(* its end, and a call that gave up returns its timeout.                   *)
LEMMA DisturbedStays ==
  ASSUME TypeOK, TimeoutFinal, [Next]_vars
  PROVE  TimeoutFinal' /\ (GaveUp => GaveUp') /\ (Disturbed => Disturbed')
<1>1. ASSUME NEW r \in Requests, CallStep(r) \/ WriteError(r), UNCHANGED serverVars
      PROVE  TimeoutFinal' /\ (GaveUp => GaveUp') /\ (Disturbed => Disturbed')
  <2>1. /\ \A q \in Requests \ {r} : call'[q] = call[q] /\ result'[q] = result[q]
        /\ UNCHANGED conn
    BY <1>1 DEF TypeOK, SessionTypeOK, serverVars, CallStep, WriteError, SendRefusedClosed, SendRefusedLimit,
                SendAdmitted, InsertPending, EncodeFails, BeginWrite, WriteRequest, WriteFails, Receive,
                RequestTimeout, RemoveExpired, Cancel, Return
  <2>2. /\ call[r] # "done"
        /\ call'[r] = "done" \/ result'[r] = result[r]
        /\ call[r] = "cancelling" => result'[r].kind = "timeout"
    BY <1>1 DEF TypeOK, SessionTypeOK, CallStep, WriteError, SendRefusedClosed, SendRefusedLimit, SendAdmitted,
                InsertPending, EncodeFails, BeginWrite, WriteRequest, WriteFails, Receive, RequestTimeout,
                RemoveExpired, Cancel, Return, Failure
  <2> QED
    BY <2>1, <2>2 DEF TimeoutFinal, GaveUp, Disturbed
<1>2. ASSUME UNCHANGED <<call, result>>, conn = "ended" => conn' = "ended"
      PROVE  TimeoutFinal' /\ (GaveUp => GaveUp') /\ (Disturbed => Disturbed')
  BY <1>2 DEF TimeoutFinal, GaveUp, Disturbed
<1>3. CASE (ReaderStep \/ Close) /\ UNCHANGED serverVars
  <2>1. UNCHANGED <<call, result, conn>>
    BY <1>3 DEF ReaderStep, Close, DeliverReply, LateResponse, ReadUndecodable, ReadTorn, ReadFails, ReadEof, DrainPending, serverVars
  <2> QED
    BY <1>2, <2>1
<1>4. CASE ServerStep
  <2>1. UNCHANGED <<call, result>>
    BY <1>4 DEF ServerStep, sessionVars
  <2>2. conn = "ended" => conn' = "ended"
    BY <1>4 DEF ServerStep, LoopStep, LoopWaits, TaskStep, DrainedEmpty,
                DrainDeadline, FirstByte, FirstEof, HeaderRefused, HeaderLimited, HeaderAdmitted,
                RefuseDraining, RejectLimit, RejectBadBody, UnknownOpcode, LoopReadFails, SpawnTask,
                InsertEntry, CancelPending, StopReading, DrainEntries, BeginDrain, Payload, NextFrame,
                StartMutating, StartReading, HandlerReturns, HandlerAborted, WriteReply, ReplyNotEncodable,
                RemoveEntry, TaskDropped, TaskDroppedWriting, loopVars
  <2> QED
    BY <1>2, <2>1, <2>2
<1>5. CASE UNCHANGED vars
  BY <1>2, <1>5 DEF vars, sessionVars, serverVars
<1> QED
  BY <1>1, <1>3, <1>4, <1>5 DEF Next, ClientStep

(* What a step of a call does to the wire, to the pending map and to the   *)
(* other calls.                                                            *)
LEMMA CallFacts ==
  ASSUME TypeOK, SentOnce, NEW r \in Requests, CallStep(r) \/ WriteError(r), UNCHANGED serverVars
  PROVE  /\ UNCHANGED <<down, task, aborted, reader, readerErr>>
         /\ \A q \in Requests : call'[q] \in Unsent => call[q] \in Unsent
         /\ \A q \in Requests : Asked(q)' => Asked(q) \/ (q = r /\ call[r] = "writing")
         /\ \A q \in Requests : call'[q] \in {"inserted", "writing"} =>
              call[q] \in {"inserted", "writing"} \/ q \in pending'
         /\ \A q \in Requests : q \in pending /\ q \notin pending' =>
              q = r /\ (call'[r] = "cancelling" \/ (call[r] = "writing" /\ call'[r] = "done" /\ UNCHANGED up))
         /\ call[r] # "cancelling" /\ (\A i \in 1..Len(up) : up[i].kind = "request") =>
              \A i \in 1..Len(up') : up'[i].kind = "request"
<1> USE DEF TypeOK, SessionTypeOK, Return, Unsent
<1>1. UNCHANGED <<down, task, aborted, reader, readerErr>>
  BY DEF CallStep, WriteError, SendRefusedClosed, SendRefusedLimit, SendAdmitted, InsertPending, EncodeFails,
         BeginWrite, WriteRequest, WriteFails, Receive, RequestTimeout, RemoveExpired, Cancel, serverVars, wireVars
<1>2. /\ \A q \in Requests : call'[q] \in Unsent => call[q] \in Unsent
      /\ \A q \in Requests : call'[q] \in {"inserted", "writing"} =>
              call[q] \in {"inserted", "writing"} \/ q \in pending'
      /\ \A q \in Requests : q \in pending /\ q \notin pending' =>
           q = r /\ (call'[r] = "cancelling" \/ (call[r] = "writing" /\ call'[r] = "done" /\ UNCHANGED up))
  BY DEF CallStep, WriteError, SendRefusedClosed, SendRefusedLimit, SendAdmitted, InsertPending, EncodeFails,
         BeginWrite, WriteRequest, WriteFails, Receive, RequestTimeout, RemoveExpired, Cancel, wireVars
<1>3. \/ UNCHANGED up
      \/ up' = Append(up, Request(r)) /\ call[r] = "writing"
      \/ up' = Append(up, CancelFrame(r)) /\ call[r] = "cancelling"
  BY DEF CallStep, WriteError, SendRefusedClosed, SendRefusedLimit, SendAdmitted, InsertPending, EncodeFails,
         BeginWrite, WriteRequest, WriteFails, Receive, RequestTimeout, RemoveExpired, Cancel, wireVars
<1>4. CASE UNCHANGED up
  BY <1>1, <1>2, <1>4 DEF Asked
<1>5. CASE up' = Append(up, Request(r)) /\ call[r] = "writing"
  <2>1. Request(r) \in UpFrame /\ Request(r).kind = "request" /\ Request(r).id = r
    BY FrameTypes DEF Request
  <2>2. /\ \A q \in Requests : Asked(q)' <=> Asked(q) \/ q = r
        /\ (\A i \in 1..Len(up) : up[i].kind = "request") =>
             \A i \in 1..Len(up') : up'[i].kind = "request"
    BY <1>5, <2>1, AskedFacts
  <2> QED
    BY <1>1, <1>2, <1>5, <2>2
<1>6. CASE up' = Append(up, CancelFrame(r)) /\ call[r] = "cancelling"
  <2>1. CancelFrame(r) \in UpFrame /\ CancelFrame(r).kind # "request"
    BY FrameTypes DEF CancelFrame
  <2>2. \A q \in Requests : Asked(q)' <=> Asked(q)
    BY <1>6, <2>1, AskedFacts
  <2> QED
    BY <1>1, <1>2, <1>6, <2>2
<1> QED
  BY <1>3, <1>4, <1>5, <1>6

(* The inductive invariant behind ProtocolFailureExplained.                *)
ReplyInv == TypeOK /\ SentOnce /\ TimeoutFinal /\ RepliedOnce /\ Calm /\ Kept

(* A step of a call: nothing new is answered, and an entry is removed only *)
(* for a request that was never written, or by a call that gives up.       *)
LEMMA ReplyCall ==
  ASSUME ReplyInv, [Next]_vars, NEW r \in Requests, CallStep(r) \/ WriteError(r), UNCHANGED serverVars
  PROVE  RepliedOnce' /\ Calm' /\ Kept'
<1> USE DEF ReplyInv
<1>1. /\ UNCHANGED <<down, task, aborted, reader, readerErr>>
      /\ \A q \in Requests : call'[q] \in Unsent => call[q] \in Unsent
      /\ \A q \in Requests : Asked(q)' => Asked(q) \/ (q = r /\ call[r] = "writing")
  BY CallFacts
<1>2. \A q \in Requests : (Replied(q)' <=> Replied(q)) /\ (Working(q)' <=> Working(q))
  BY <1>1 DEF Replied, Working
<1>3. RepliedOnce'
  <2>1. \A i, j \in 1..Len(down') :
          down'[i].kind = "reply" /\ down'[j].kind = "reply" /\ down'[i].id = down'[j].id => i = j
    BY <1>1 DEF RepliedOnce
  <2>2. \A q \in Requests : Replied(q)' => call'[q] \notin Unsent /\ ~Working(q)' /\ ~Asked(q)'
    BY <1>1, <1>2 DEF RepliedOnce, Unsent
  <2> QED
    BY <2>1, <2>2 DEF RepliedOnce
<1>4. Calm'
  <2> SUFFICES ASSUME ~Disturbed' PROVE Calm'
    BY DEF Calm
  <2>1. ~Disturbed
    BY DisturbedStays
  <2>2. call[r] # "cancelling"
    BY <2>1 DEF Disturbed, GaveUp
  <2> QED
    BY <1>1, <2>1, <2>2, CallFacts DEF Calm
<1>5. Kept'
  <2> SUFFICES ASSUME ~GaveUp' PROVE Kept'
    BY DEF Kept
  <2>1. ~GaveUp
    BY DisturbedStays
  <2>2. call[r] # "cancelling" /\ call'[r] # "cancelling"
    BY <2>1 DEF GaveUp
  <2>3. readerErr' # "late"
    BY <1>1, <2>1 DEF Kept
  <2>4. ASSUME reader' = "reading", NEW q \in Requests, Answerable(q)'
        PROVE  q \in pending'
    <3>1. q \in pending \/ q \in pending'
      <4>1. Answerable(q) \/ q \in pending'
        BY <1>1, <1>2, <2>4, CallFacts DEF Answerable
      <4> QED
        BY <1>1, <2>1, <2>4, <4>1 DEF Kept
    <3>2. CASE q \notin pending'
      <4>1. q = r /\ call[r] = "writing" /\ call'[r] = "done" /\ UNCHANGED up
        BY <2>2, <3>1, <3>2, CallFacts
      <4>2. ~Asked(r) /\ ~Working(r) /\ ~Replied(r)
        BY <4>1 DEF SentOnce, Asked, Working, RepliedOnce, Unsent
      <4>3. ~Asked(r)'
        BY <4>1, <4>2 DEF Asked
      <4> QED
        BY <1>2, <2>4, <4>1, <4>2, <4>3 DEF Answerable
    <3> QED
      BY <3>2
  <2> QED
    BY <2>3, <2>4 DEF Kept
<1> QED
  BY <1>3, <1>4, <1>5

(* A step of the reader: a reply is taken with its entry, and as long as   *)
(* the channel is undisturbed every reply finds one.                       *)
LEMMA ReplyReader ==
  ASSUME ReplyInv, [Next]_vars, ReaderStep \/ Close, UNCHANGED serverVars
  PROVE  RepliedOnce' /\ Calm' /\ Kept'
<1> USE DEF ReplyInv
<1>1. UNCHANGED <<up, call, task, aborted>>
  BY DEF ReaderStep, Close, DeliverReply, LateResponse, ReadUndecodable, ReadTorn, ReadFails, ReadEof, DrainPending, serverVars,
         wireVars
<1>2. \A q \in Requests : (Asked(q)' <=> Asked(q)) /\ (Working(q)' <=> Working(q))
  BY <1>1 DEF Asked, Working
<1>3. \/ UNCHANGED down
      \/ down # <<>> /\ down' = Tail(down)
  BY DEF ReaderStep, Close, DeliverReply, LateResponse, ReadUndecodable, ReadTorn, ReadFails, ReadEof, DrainPending, wireVars
<1>4. /\ \A i, j \in 1..Len(down') :
           down'[i].kind = "reply" /\ down'[j].kind = "reply" /\ down'[i].id = down'[j].id => i = j
      /\ \A q \in Requests : Replied(q)' => Replied(q)
      /\ (\A i \in 1..Len(down) : down[i].kind = "reply") => \A i \in 1..Len(down') : down'[i].kind = "reply"
  <2>1. CASE UNCHANGED down
    BY <2>1 DEF RepliedOnce, Replied
  <2>2. CASE down # <<>> /\ down' = Tail(down)
    BY <2>2, RepliedTail
  <2> QED
    BY <1>3, <2>1, <2>2
<1>5. RepliedOnce'
  BY <1>1, <1>2, <1>4 DEF RepliedOnce, Unsent
<1>6. Calm'
  <2> SUFFICES ASSUME ~Disturbed' PROVE Calm'
    BY DEF Calm
  <2>1. ~Disturbed
    BY DisturbedStays
  <2>2. \A i \in 1..Len(down) : down[i].kind = "reply"
    BY <2>1 DEF Calm
  <2>3. ~ReadTorn(ServerClosed)
    BY <2>2, TailFacts DEF ReadTorn, TypeOK, WireTypeOK
  <2>4. readerErr' # "torn"
    BY <2>1, <2>3 DEF Calm, ReaderStep, Close, DeliverReply, LateResponse, ReadUndecodable, ReadFails,
                      ReadEof, DrainPending, ReaderStops
  <2> QED
    BY <1>1, <1>4, <2>1, <2>4 DEF Calm
<1>7. Kept'
  <2> SUFFICES ASSUME ~GaveUp' PROVE Kept'
    BY DEF Kept
  <2>1. ~GaveUp
    BY DisturbedStays
  <2>2. down # <<>> => Head(down) = down[1] /\ 1 \in 1..Len(down) /\ Head(down).id \in Requests
    BY TailFacts, FramesInFlight DEF TypeOK, WireTypeOK
  <2>3. ~LateResponse
    <3> SUFFICES ASSUME LateResponse PROVE FALSE
      OBVIOUS
    <3>1. Replied(Head(down).id) /\ Head(down).id \in Requests
      BY <2>2 DEF LateResponse, Replied
    <3> QED
      BY <2>1, <3>1 DEF Kept, Answerable, LateResponse
  <2>4. readerErr' # "late"
    BY <2>1, <2>3 DEF Kept, ReaderStep, Close, DeliverReply, ReadUndecodable, ReadTorn, ReadFails,
                      ReadEof, DrainPending, ReaderStops
  <2>5. ASSUME reader' = "reading", NEW q \in Requests, Answerable(q)'
        PROVE  q \in pending'
    <3>1. DeliverReply
      BY <2>3, <2>5 DEF ReaderStep, Close, ReadUndecodable, ReadTorn, ReadFails, ReadEof, DrainPending,
                        ReaderStops
    <3>2. q \in pending
      BY <1>1, <1>2, <1>4, <2>1, <2>5, <3>1 DEF Kept, Answerable, DeliverReply
    <3>3. q = Head(down).id => FALSE
      <4> SUFFICES ASSUME q = Head(down).id PROVE FALSE
        OBVIOUS
      <4>1. ~Replied(q)' /\ Replied(q)
        BY <3>1, RepliedTail DEF DeliverReply
      <4>2. call[q] \notin {"inserted", "writing"} /\ ~Working(q) /\ ~Asked(q)
        BY <4>1 DEF RepliedOnce, Unsent
      <4> QED
        BY <1>1, <1>2, <2>5, <4>1, <4>2 DEF Answerable
    <3> QED
      BY <3>1, <3>2, <3>3 DEF DeliverReply
  <2> QED
    BY <2>4, <2>5 DEF Kept
<1> QED
  BY <1>5, <1>6, <1>7

(* A step of the server that only moves a request along keeps the calm.    *)
LEMMA ReplyServer ==
  ASSUME ReplyInv, [Next]_vars, UNCHANGED sessionVars,
         \A q \in Requests : Asked(q)' \/ Working(q)' \/ Replied(q)' => Asked(q) \/ Working(q) \/ Replied(q),
         ~Disturbed' /\ ~Disturbed =>
           /\ aborted' = {}
           /\ \A i \in 1..Len(up') : up'[i].kind = "request"
           /\ \A i \in 1..Len(down') : down'[i].kind = "reply"
  PROVE  Calm' /\ Kept'
<1> USE DEF ReplyInv
<1>1. Calm'
  <2> SUFFICES ASSUME ~Disturbed' PROVE Calm'
    BY DEF Calm
  <2>1. ~Disturbed
    BY DisturbedStays
  <2> QED
    BY <2>1 DEF Calm, sessionVars
<1>2. Kept'
  <2>1. GaveUp' <=> GaveUp
    BY DEF GaveUp, sessionVars
  <2>2. \A q \in Requests : Answerable(q)' => Answerable(q)
    BY DEF Answerable, sessionVars
  <2> QED
    BY <2>1, <2>2 DEF Kept, sessionVars
<1> QED
  BY <1>1, <1>2

(* A step of the loop: a refused request is answered, a spawned one worked *)
(* on, and neither is on the wire any more; tasks are aborted only for a   *)
(* cancel frame or at the end.                                             *)
LEMMA ReplyLoop ==
  ASSUME ReplyInv, [Next]_vars, LoopStep \/ LoopWaits \/ BeginDrain, UNCHANGED sessionVars
  PROVE  RepliedOnce' /\ Calm' /\ Kept'
<1> USE DEF ReplyInv
<1>0. UNCHANGED call
  BY DEF sessionVars
<1>1. CASE \/ RefuseDraining \/ UnknownOpcode \/ CancelPending
           \/ (RejectLimit \/ RejectBadBody) /\ UNCHANGED down
  <2>1. up # <<>> /\ up' = Tail(up) /\ UNCHANGED <<down, task>>
    BY <1>1 DEF RefuseDraining, UnknownOpcode, CancelPending, RejectLimit, RejectBadBody, Payload,
                NextFrame, taskVars
  <2>2. \A q \in Requests : /\ Asked(q)' => Asked(q)
                            /\ Working(q)' <=> Working(q)
                            /\ Replied(q)' <=> Replied(q)
    BY <2>1, AskedFacts DEF Working, Replied
  <2>3. RepliedOnce'
    BY <1>0, <2>1, <2>2 DEF RepliedOnce, Unsent
  <2>4. ~Disturbed => /\ aborted' = {}
                      /\ \A i \in 1..Len(up') : up'[i].kind = "request"
                      /\ \A i \in 1..Len(down') : down'[i].kind = "reply"
    <3> SUFFICES ASSUME ~Disturbed
                 PROVE  /\ aborted' = {}
                        /\ \A i \in 1..Len(up') : up'[i].kind = "request"
                        /\ \A i \in 1..Len(down') : down'[i].kind = "reply"
      OBVIOUS
    <3>1. Head(up).kind = "request" /\ \A i \in 1..Len(up') : up'[i].kind = "request"
      BY <2>1, AskedFacts DEF Calm
    <3>2. ~CancelPending
      BY <3>1 DEF CancelPending, NextFrame
    <3> QED
      BY <1>1, <2>1, <3>1, <3>2 
      DEF Calm, RefuseDraining, UnknownOpcode, RejectLimit, RejectBadBody
  <2> QED
    BY <2>2, <2>3, <2>4, ReplyServer
<1>2. CASE (RejectLimit \/ RejectBadBody) /\ ~UNCHANGED down
  <2> DEFINE r == Head(up).id
             f == Reply(r, "rejected")
  <2>1. /\ up # <<>> /\ up' = Tail(up) /\ Head(up).kind = "request"
        /\ down' = Append(down, f) /\ UNCHANGED <<task, aborted>>
    BY <1>2 DEF RejectLimit, RejectBadBody, WriteRejection, Payload, NextFrame, taskVars
  <2>2. r \in Requests
    BY <2>1, TailFacts, FramesInFlight DEF TypeOK, WireTypeOK
  <2>3. f \in DownFrame /\ f.kind = "reply" /\ f.id = r
    BY <2>2, FrameTypes DEF Reply, Bodies
  <2>4. /\ \A q \in Requests : Asked(q)' => Asked(q)
        /\ \A q \in Requests : q = r => Asked(q) /\ ~Asked(q)'
    BY <2>1, AskedFacts
  <2>5. ~Replied(r) /\ ~Working(r) /\ call[r] \notin Unsent
    <3>1. Asked(r)
      BY <2>2, <2>4
    <3> QED
      BY <2>2, <3>1 DEF RepliedOnce, SentOnce, Asked, Working
  <2>6. /\ \A i, j \in 1..Len(down') :
             down'[i].kind = "reply" /\ down'[j].kind = "reply" /\ down'[i].id = down'[j].id => i = j
        /\ \A q \in Requests : Replied(q)' => Replied(q) \/ q = r
        /\ (\A i \in 1..Len(down) : down[i].kind = "reply") =>
             \A i \in 1..Len(down') : down'[i].kind = "reply"
    BY <2>1, <2>3, <2>5, RepliedAppend
  <2>7. \A q \in Requests : Working(q)' <=> Working(q)
    BY <2>1 DEF Working
  <2>8. \A q \in Requests : Replied(q)' => call'[q] \notin Unsent /\ ~Working(q)' /\ ~Asked(q)'
    BY <1>0, <2>4, <2>5, <2>6, <2>7 DEF RepliedOnce
  <2>9. RepliedOnce'
    BY <2>6, <2>8 DEF RepliedOnce
  <2>10. ~Disturbed => /\ aborted' = {}
                       /\ \A i \in 1..Len(up') : up'[i].kind = "request"
                       /\ \A i \in 1..Len(down') : down'[i].kind = "reply"
    BY <2>1, <2>6, AskedFacts DEF Calm
  <2>11. \A q \in Requests : Asked(q)' \/ Working(q)' \/ Replied(q)' => Asked(q) \/ Working(q) \/ Replied(q)
    BY <2>4, <2>6, <2>7
  <2> QED
    BY <2>9, <2>10, <2>11, ReplyServer
<1>3. CASE SpawnTask
  <2> DEFINE r == Head(up).id
  <2>1. /\ up # <<>> /\ up' = Tail(up) /\ Head(up).kind = "request"
        /\ task' = [task EXCEPT ![r] = "spawned"] /\ UNCHANGED <<down, aborted>>
    BY <1>3 DEF SpawnTask, Payload, NextFrame
  <2>2. r \in Requests
    BY <1>3, SpawnFresh
  <2>3. /\ \A q \in Requests : Asked(q)' => Asked(q)
        /\ \A q \in Requests : q = r => Asked(q) /\ ~Asked(q)'
    BY <2>1, AskedFacts
  <2>4. \A q \in Requests : /\ Working(q)' => Working(q) \/ q = r
                            /\ Replied(q)' <=> Replied(q)
    BY <2>1, <2>2 DEF Working, Replied, TypeOK, ServerTypeOK
  <2>5. RepliedOnce'
    BY <1>0, <2>1, <2>3, <2>4 DEF RepliedOnce, Unsent
  <2>6. ~Disturbed => /\ aborted' = {}
                      /\ \A i \in 1..Len(up') : up'[i].kind = "request"
                      /\ \A i \in 1..Len(down') : down'[i].kind = "reply"
    BY <2>1, AskedFacts DEF Calm
  <2> QED
    BY <2>3, <2>4, <2>5, <2>6, ReplyServer
<1>4. CASE QuietLoop
  <2>1. /\ UNCHANGED <<up, down, task>>
        /\ UNCHANGED aborted \/ conn' = "ended"
    BY <1>4, QuietFacts
  <2>2. \A q \in Requests : /\ Asked(q)' <=> Asked(q)
                            /\ Working(q)' <=> Working(q)
                            /\ Replied(q)' <=> Replied(q)
    BY <2>1 DEF Asked, Working, Replied
  <2>3. RepliedOnce'
    BY <1>0, <2>1, <2>2 DEF RepliedOnce, Unsent
  <2>4. ~Disturbed' /\ ~Disturbed =>
          /\ aborted' = {}
          /\ \A i \in 1..Len(up') : up'[i].kind = "request"
          /\ \A i \in 1..Len(down') : down'[i].kind = "reply"
    BY <2>1 DEF Calm, Disturbed
  <2> QED
    BY <2>2, <2>3, <2>4, ReplyServer
<1> QED
  BY <1>1, <1>2, <1>3, <1>4 DEF LoopStep, LoopWaits, QuietLoop, DrainedEmpty, DrainDeadline

(* A step of a task: it writes one reply and then works no more; a frame   *)
(* is cut only by a task that was aborted.                                 *)
LEMMA ReplyTask ==
  ASSUME ReplyInv, [Next]_vars, NEW r \in Requests, TaskStep(r), UNCHANGED sessionVars
  PROVE  RepliedOnce' /\ Calm' /\ Kept'
<1> USE DEF ReplyInv
<1>0. /\ UNCHANGED <<call, up, aborted>>
      /\ \A q \in Requests \ {r} : task'[q] = task[q]
      /\ Working(r)' => Working(r)
  BY DEF TaskStep, StartMutating, StartReading, HandlerReturns, HandlerAborted, WriteReply,
         ReplyNotEncodable, RemoveEntry, TaskDropped, TaskDroppedWriting, TaskEnds, Working,
         sessionVars, loopVars, wireVars, TypeOK, ServerTypeOK
<1>1. \A q \in Requests : /\ Asked(q)' <=> Asked(q)
                          /\ Working(q)' => Working(q)
  BY <1>0 DEF Asked, Working
<1>2. CASE UNCHANGED down
  <2>1. \A q \in Requests : Replied(q)' <=> Replied(q)
    BY <1>2 DEF Replied
  <2>2. RepliedOnce'
    BY <1>0, <1>1, <1>2, <2>1 DEF RepliedOnce, Unsent
  <2>3. ~Disturbed => /\ aborted' = {}
                      /\ \A i \in 1..Len(up') : up'[i].kind = "request"
                      /\ \A i \in 1..Len(down') : down'[i].kind = "reply"
    BY <1>0, <1>2 DEF Calm
  <2> QED
    BY <1>1, <2>1, <2>2, <2>3, ReplyServer
<1>3. CASE ~UNCHANGED down
  <2>1. /\ task[r] = "replying" /\ task'[r] \in {"removing", "gone"}
        /\ \/ down' = Append(down, Reply(r, answer[r]))
           \/ down' = Append(down, Torn(r)) /\ r \in aborted
    BY <1>3 DEF TaskStep, StartMutating, StartReading, HandlerReturns, HandlerAborted, WriteReply,
                ReplyNotEncodable, RemoveEntry, TaskDropped, TaskDroppedWriting, TaskEnds, wireVars,
                TypeOK, ServerTypeOK
  <2>2. PICK f \in DownFrame : /\ down' = Append(down, f) /\ f.id = r
                               /\ f.kind # "reply" => r \in aborted
    <3>1. Reply(r, answer[r]) \in DownFrame /\ Torn(r) \in DownFrame
      BY FrameTypes DEF TypeOK, ServerTypeOK
    <3>2. Reply(r, answer[r]).kind = "reply" /\ Reply(r, answer[r]).id = r /\ Torn(r).id = r
      BY DEF Reply, Torn
    <3> QED
      BY <2>1, <3>1, <3>2
  <2>3. Working(r) /\ ~Working(r)' /\ ~Replied(r) /\ ~Asked(r) /\ call[r] \notin Unsent
    <3>1. Working(r) /\ ~Working(r)'
      BY <2>1 DEF Working
    <3>2. ~Asked(r) /\ call[r] \notin Unsent
      BY <2>1 DEF SentOnce, Asked
    <3> QED
      BY <3>1, <3>2 DEF RepliedOnce
  <2>4. /\ \A i, j \in 1..Len(down') :
             down'[i].kind = "reply" /\ down'[j].kind = "reply" /\ down'[i].id = down'[j].id => i = j
        /\ \A q \in Requests : Replied(q)' => Replied(q) \/ q = r
        /\ f.kind = "reply" /\ (\A i \in 1..Len(down) : down[i].kind = "reply") =>
             \A i \in 1..Len(down') : down'[i].kind = "reply"
    <3>1. f.kind = "reply" => ~Replied(f.id)
      BY <2>2, <2>3
    <3>2. /\ \A i, j \in 1..Len(down') :
               down'[i].kind = "reply" /\ down'[j].kind = "reply" /\ down'[i].id = down'[j].id => i = j
          /\ \A q \in Requests : Replied(q)' => Replied(q) \/ (f.kind = "reply" /\ f.id = q)
          /\ f.kind = "reply" /\ (\A i \in 1..Len(down) : down[i].kind = "reply") =>
               \A i \in 1..Len(down') : down'[i].kind = "reply"
      BY <2>2, <3>1, RepliedAppend
    <3> QED
      BY <2>2, <3>2
  <2>5. \A q \in Requests : Replied(q)' => call'[q] \notin Unsent /\ ~Working(q)' /\ ~Asked(q)'
    BY <1>0, <1>1, <2>3, <2>4 DEF RepliedOnce
  <2>6. RepliedOnce'
    BY <2>4, <2>5 DEF RepliedOnce
  <2>7. ~Disturbed => /\ aborted' = {}
                      /\ \A i \in 1..Len(up') : up'[i].kind = "request"
                      /\ \A i \in 1..Len(down') : down'[i].kind = "reply"
    <3> SUFFICES ASSUME ~Disturbed
                 PROVE  /\ aborted' = {}
                        /\ \A i \in 1..Len(up') : up'[i].kind = "request"
                        /\ \A i \in 1..Len(down') : down'[i].kind = "reply"
      OBVIOUS
    <3>1. /\ aborted = {}
          /\ \A i \in 1..Len(up) : up[i].kind = "request"
          /\ \A i \in 1..Len(down) : down[i].kind = "reply"
      BY DEF Calm
    <3>2. f.kind = "reply"
      BY <2>2, <3>1
    <3> QED
      BY <1>0, <2>4, <3>1, <3>2
  <2>8. \A q \in Requests : Asked(q)' \/ Working(q)' \/ Replied(q)' => Asked(q) \/ Working(q) \/ Replied(q)
    BY <1>1, <2>3, <2>4
  <2> QED
    BY <2>6, <2>7, <2>8, ReplyServer
<1> QED
  BY <1>2, <1>3

(* Every step keeps ReplyInv.                                              *)
LEMMA ReplyInvStep == ReplyInv /\ [Next]_vars => ReplyInv'
<1> SUFFICES ASSUME ReplyInv, [Next]_vars PROVE ReplyInv'
  OBVIOUS
<1>1. TypeOK' /\ SentOnce' /\ TimeoutFinal'
  BY TypeStep, SentOnceStep, DisturbedStays DEF ReplyInv
<1>2. CASE UNCHANGED vars
  <2>1. UNCHANGED <<up, down, call, result, pending, reader, readerErr, conn, task, aborted>>
    BY <1>2 DEF vars, wireVars, sessionVars, serverVars
  <2> QED
    BY <1>1, <2>1 DEF ReplyInv, RepliedOnce, Calm, Kept, Disturbed, GaveUp, Answerable, Asked, Working,
                      Replied
<1>3. CASE Next
  BY <1>1, <1>3, ReplyCall, ReplyReader, ReplyLoop, ReplyTask DEF ReplyInv, Next, ClientStep, ServerStep
<1> QED
  BY <1>2, <1>3

(* A reply meets its entry in the pending map, however inserts, writes,    *)
(* replies, deliveries and failing reads and writes interleave, unless a   *)
(* call of the session gave up before; and the reader meets a cut frame    *)
(* only after that or after the server aborted tasks at its drain deadline *)
(* (session.rs, read_binary_loop).                                         *)
THEOREM ProtocolFailureCorrect == Spec => []ProtocolFailureExplained
<1>1. Init => ReplyInv
  <2> SUFFICES ASSUME Init PROVE ReplyInv
    OBVIOUS
  <2>1. TimeoutFinal /\ RepliedOnce /\ Calm /\ Kept
    BY DEF Init, WireInit, SessionInit, ServerInit, None, TimeoutFinal, RepliedOnce, Calm, Kept,
           Answerable, Asked, Working, Replied
  <2> QED
    BY <2>1, TypeInit, SentOnceInit DEF ReplyInv
<1>2. ReplyInv => ProtocolFailureExplained
  BY DEF ReplyInv, Calm, Kept, Disturbed, ProtocolFailureExplained
<1> QED
  BY <1>1, <1>2, ReplyInvStep, PTL DEF Spec
=============================================================================
