--------------------------- MODULE ControlChannel ---------------------------
(***************************************************************************)
(* A client session and the server connection it talks to, composed over   *)
(* the wire: every step is a step of one call, of the reader task, of the  *)
(* server's read loop or of one server task.                               *)
(***************************************************************************)
EXTENDS ControlSession, ControlServer

vars == <<wireVars, sessionVars, serverVars>>

Init == WireInit /\ SessionInit /\ ServerInit

CallStep(r) ==
  \/ SendRefusedClosed(r)
  \/ SendRefusedLimit(r)
  \/ SendAdmitted(r)
  \/ InsertPending(r)
  \/ EncodeFails(r)
  \/ BeginWrite(r)
  \/ WriteRequest(r, ServerClosed)
  \/ WriteFails(r, ServerClosed)
  \/ Receive(r)
  \/ RequestTimeout(r)
  \/ RemoveExpired(r)
  \/ Cancel(r, ServerClosed)

(* A write fails although the server has not closed its end.                *)
WriteError(r) == WriteFails(r, TRUE) \/ Cancel(r, TRUE)

ReaderStep ==
  \/ DeliverReply
  \/ LateResponse
  \/ ReadUndecodable
  \/ ReadTorn(ServerClosed)
  \/ ReadFails
  \/ ReadEof(ServerClosed)
  \/ DrainPending

(* Steps that wait for nobody, for a timer or for the drain signal.         *)
LoopStep ==
  \/ FirstByte
  \/ HeaderRefused
  \/ HeaderLimited
  \/ HeaderAdmitted
  \/ InsertEntry
  \/ CancelPending
  \/ StopReading
  \/ DrainedEmpty
  \/ DrainDeadline

(* Steps that wait for the peer: for the first byte or a payload, or for    *)
(* room to write.                                                           *)
LoopWaits ==
  \/ FirstEof
  \/ RefuseDraining
  \/ RejectLimit
  \/ RejectBadBody
  \/ UnknownOpcode
  \/ SpawnTask
  \/ LoopReadFails

TaskStep(r) ==
  \/ StartMutating(r)
  \/ StartReading(r)
  \/ HandlerReturns(r)
  \/ HandlerAborted(r)
  \/ WriteReply(r)
  \/ ReplyNotEncodable(r)
  \/ RemoveEntry(r)
  \/ TaskDropped(r)
  \/ TaskDroppedWriting(r)

ClientStep ==
  /\ (\E r \in Requests : CallStep(r) \/ WriteError(r)) \/ ReaderStep \/ Close
  /\ UNCHANGED serverVars

ServerStep ==
  /\ (\E r \in Requests : TaskStep(r)) \/ LoopStep \/ LoopWaits \/ BeginDrain
  /\ UNCHANGED sessionVars

Next == ClientStep \/ ServerStep

Spec == Init /\ [][Next]_vars

-----------------------------------------------------------------------------
(* Fairness.  The runtime polls every runnable task and fires every timer:  *)
(* a call that has begun and the server's read loop make progress where     *)
(* nothing they wait for is missing, and an aborted task is dropped.        *)
(* Nothing says that a peer sends the rest of a frame or reads what is      *)
(* written, that a handler returns, that a caller calls or that anybody     *)
(* shuts the service down.                                                  *)

CallProgress(r) == call[r] # "idle" /\ CallStep(r) /\ UNCHANGED serverVars

LoopProgress == LoopStep /\ UNCHANGED sessionVars

DropProgress(r) == TaskDropped(r) /\ UNCHANGED sessionVars

Fairness ==
  /\ \A r \in Requests : WF_vars(CallProgress(r)) /\ WF_vars(DropProgress(r))
  /\ WF_vars(LoopProgress)

FairSpec == Spec /\ Fairness

-----------------------------------------------------------------------------
TypeOK == WireTypeOK /\ SessionTypeOK /\ ServerTypeOK

(* A waiting call is never forgotten: its entry stays in the pending map    *)
(* until a value is sent on its channel or the call itself expires, however *)
(* the reader's delivery and final drain race it.  An entry inserted after  *)
(* the drain stays too, and then only the call's own timer ends it          *)
(* (session.rs, send and spawn_reader).                                     *)
WaiterReachable ==
  \A r \in Requests : call[r] = "waiting" => r \in pending \/ slot[r] # None

(* No interleaving of spawn, completion, abort and drop leaks or forges a   *)
(* permit of pending_slots, so at most MaxInFlight handlers of a connection *)
(* exist at any time, aborted ones included; the loop holds one while it    *)
(* waits for a payload (server_conn.rs, serve_binary).                      *)
PermitsConserved ==
  permits + Cardinality({r \in Requests : Alive(r)})
    = IF conn = "receiving" THEN MaxInFlight - 1 ELSE MaxInFlight

(* mutate_lock is held exactly by the mutating task whose handler is        *)
(* running: mutating handlers of a connection exclude each other and no     *)
(* abort leaves the lock taken (server_conn.rs, dispatch_request).          *)
MutateLockLive ==
  \A r \in Requests : mutateLock = r <=> r \in Mutating /\ task[r] = "handling"

(* A connection that ends normally leaves no task of its own running except *)
(* aborted ones, although the task races the loop that records it           *)
(* (server_conn.rs, wait_pending_drain).                                    *)
DrainedTasksAborted ==
  conn = "ended" => \A r \in Requests : Alive(r) => r \in aborted

(* A call has given up.                                                     *)
GaveUp == \E r \in Requests : call[r] = "cancelling" \/ result[r].kind = "timeout"

(* A reply that no entry of the pending map waits for ends the session only *)
(* after one of its calls timed out, and a cut frame only after that or     *)
(* because the server aborted tasks at its drain deadline; the other errors *)
(* of the reader are the stream's own (session.rs, LateResponse;            *)
(* server_conn.rs, task.abort).                                             *)
ProtocolFailureExplained ==
  /\ readerErr = "late" => GaveUp
  /\ readerErr = "torn" => GaveUp \/ conn = "ended"

(* The server does not read what was written, and has not closed its end.   *)
UpBlocked == ~Room(up) /\ ~ServerClosed

(* Every send returns, whatever the reader and the handlers do, unless the  *)
(* server stops reading for good with its end of the stream open: the       *)
(* request timeout does not cover the writes (session.rs,                   *)
(* request_timeout_ms).                                                     *)
CallReturns ==
  \A r \in Requests : call[r] # "idle" ~> (call[r] = "done" \/ []UpBlocked)

(* The loop waits for a first byte, a payload or room to write, or it has   *)
(* returned an error and left a task that nobody aborts.                    *)
DrainStuck ==
  \/ conn \in {"first", "receiving", "limiting", "refusing"}
  \/ conn = "failed" /\ \E r \in Requests : Alive(r) /\ r \notin aborted

(* After begin_drain the server's end of the stream is released even if a   *)
(* handler never returns, unless the connection stays for good in one of    *)
(* the waits that do not look at the drain signal, or failed while tasks    *)
(* were running (server_conn.rs, serve_stream, serve_binary).               *)
DrainReleasesStream ==
  drain ~> (ServerClosed \/ []DrainStuck)

(* Mutating requests of one connection start in the order in which the      *)
(* connection read them: "Mutating ops stay ordered on a connection under   *)
(* multiplex" (mutsuki-service-control, is_mutating).                       *)
MutatingOrdered ==
  [][\A r \in Mutating : task[r] = "spawned" /\ task'[r] = "handling"
                           => \A q \in ahead[r] : task[q] # "spawned"]_vars

(* The session and the connection together implement the call semantics of  *)
(* ControlRpc: a call in any state between idle and done is open, and the   *)
(* handler runs that completed are the executions.                          *)
Rpc == INSTANCE ControlRpc WITH
  Outcomes  <- Outcome,
  NoOutcome <- None,
  status    <- [r \in Requests |-> IF call[r] \in {"idle", "done"} THEN call[r] ELSE "open"],
  outcome   <- result,
  executed  <- handled

ImplementsRpc == Rpc!Spec
=============================================================================
