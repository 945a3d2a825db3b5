--------------------------- MODULE ControlSession ---------------------------
(***************************************************************************)
(* The client side of a persistent binary control session:                 *)
(* crates/mutsuki-service-ipc/src/session.rs.  Every concurrent call of    *)
(* ControlSession::send is one request of Requests and runs through        *)
(*                                                                         *)
(*   idle -> admitted -> inserted -> writing -> waiting -> done            *)
(*                                                 \                       *)
(*                                   expired -> cancelling -> done         *)
(*                                                                         *)
(* with one arrow per stretch of code between two awaits of the shared     *)
(* state (the pending map, the writer, the oneshot channel).  The reader   *)
(* task runs beside the calls.  Only the wait for the answer has a timeout:*)
(* the encoder's lock and the writes are waited for as long as it takes.   *)
(*                                                                         *)
(* serverClosed is what the transport shows of the peer: the server        *)
(* dropped its end of the stream.                                          *)
(***************************************************************************)
EXTENDS ControlWire

VARIABLES
  call,       \* where each send is
  result,     \* what each send returned
  pending,    \* keys of ControlSession.pending
  slot,       \* the value sent on each request's oneshot channel
  reader,     \* the reader task: reading, ended (closed set), drained
  readerErr,  \* why the reader stopped
  closed      \* ControlSession.closed

sessionVars == <<call, result, pending, slot, reader, readerErr, closed>>

CallStates == {"idle", "admitted", "inserted", "writing", "waiting", "expired",
               "cancelling", "done"}

(* read_binary_loop returned Ok at the end of the stream, or the error of  *)
(* a late response, a cut frame, an undecodable frame or a failed read.    *)
ReaderErrors == {"closed", "late", "torn", "decode", "io"}

LocalErrors == {"closed", "limit", "encode", "io", "timeout", "protocol"}

Outcome == [kind : {"none"} \cup Bodies \cup LocalErrors,
            of   : Requests \cup {NoRequest}]

None == [kind |-> "none", of |-> NoRequest]

Failure(e) == [kind |-> e, of |-> NoRequest]

SessionTypeOK ==
  /\ call \in [Requests -> CallStates]
  /\ result \in [Requests -> Outcome]
  /\ pending \in SUBSET Requests
  /\ slot \in [Requests -> Outcome]
  /\ reader \in {"reading", "ended", "drained", "aborted"}
  /\ readerErr \in ReaderErrors
  /\ closed \in BOOLEAN

SessionInit ==
  /\ call = [r \in Requests |-> "idle"]
  /\ result = [r \in Requests |-> None]
  /\ pending = {}
  /\ slot = [r \in Requests |-> None]
  /\ reader = "reading"
  /\ readerErr = "closed"
  /\ closed = FALSE

Return(r, o) ==
  /\ call' = [call EXCEPT ![r] = "done"]
  /\ result' = [result EXCEPT ![r] = o]

-----------------------------------------------------------------------------
(* ControlSession::send, up to the release of the first pending lock.      *)

SendRefusedClosed(r) ==
  /\ call[r] = "idle"
  /\ closed
  /\ ~hungUp
  /\ Return(r, Failure("closed"))
  /\ UNCHANGED <<pending, slot, reader, readerErr, closed, wireVars>>

SendRefusedLimit(r) ==
  /\ call[r] = "idle"
  /\ ~closed
  /\ Cardinality(pending) >= MaxInFlight
  /\ Return(r, Failure("limit"))
  /\ UNCHANGED <<pending, slot, reader, readerErr, closed, wireVars>>

SendAdmitted(r) ==
  /\ call[r] = "idle"
  /\ ~closed
  /\ Cardinality(pending) < MaxInFlight
  /\ call' = [call EXCEPT ![r] = "admitted"]
  /\ UNCHANGED <<result, pending, slot, reader, readerErr, closed, wireVars>>

(* The pending lock is taken a second time to insert the entry: other      *)
(* calls and the reader may have run since the length was compared.        *)
InsertPending(r) ==
  /\ call[r] = "admitted"
  /\ pending' = pending \cup {r}
  /\ call' = [call EXCEPT ![r] = "inserted"]
  /\ UNCHANGED <<result, slot, reader, readerErr, closed, wireVars>>

(* A call holds encode_buf and payload_buf from its encoding to the end of *)
(* its write, so at most one call is writing.                              *)
EncoderFree == \A q \in Requests : call[q] # "writing"

(* The ? on the encoder returns without removing the pending entry.        *)
EncodeFails(r) ==
  /\ call[r] = "inserted"
  /\ EncoderFree
  /\ Return(r, Failure("encode"))
  /\ UNCHANGED <<pending, slot, reader, readerErr, closed, wireVars>>

BeginWrite(r) ==
  /\ call[r] = "inserted"
  /\ EncoderFree
  /\ call' = [call EXCEPT ![r] = "writing"]
  /\ UNCHANGED <<result, pending, slot, reader, readerErr, closed, wireVars>>

(* write_all_flush has no timeout: it waits until there is room.           *)
WriteRequest(r, serverClosed) ==
  /\ call[r] = "writing"
  /\ ~serverClosed
  /\ Room(up)
  /\ up' = Append(up, Request(r))
  /\ call' = [call EXCEPT ![r] = "waiting"]
  /\ UNCHANGED <<result, pending, slot, reader, readerErr, closed, down, hungUp>>

(* gone: the write fails, because the peer is gone or for its own reasons. *)
WriteFails(r, gone) ==
  /\ call[r] = "writing"
  /\ gone
  /\ pending' = pending \ {r}
  /\ Return(r, Failure("io"))
  /\ UNCHANGED <<slot, reader, readerErr, closed, wireVars>>

(* tokio::time::timeout polls the oneshot receiver before the timer.       *)
Receive(r) ==
  /\ call[r] = "waiting"
  /\ slot[r] # None
  /\ Return(r, slot[r])
  /\ UNCHANGED <<pending, slot, reader, readerErr, closed, wireVars>>

\* Mutant: the deadline is only enforced while the reader is alive.
RequestTimeout_ByReader(r) ==
  /\ call[r] = "waiting"
  /\ slot[r] = None
  /\ reader = "reading"
  /\ call' = [call EXCEPT ![r] = "expired"]
  /\ UNCHANGED <<result, pending, slot, reader, readerErr, closed, wireVars>>

RequestTimeout(r) ==
  /\ call[r] = "waiting"
  /\ slot[r] = None
  /\ call' = [call EXCEPT ![r] = "expired"]
  /\ UNCHANGED <<result, pending, slot, reader, readerErr, closed, wireVars>>

RemoveExpired(r) ==
  /\ call[r] = "expired"
  /\ pending' = pending \ {r}
  /\ call' = [call EXCEPT ![r] = "cancelling"]
  /\ UNCHANGED <<result, slot, reader, readerErr, closed, wireVars>>

(* ControlSession::cancel for an expired request: its pending entry is     *)
(* already gone, and a failed write is ignored by send.  Its write waits   *)
(* for room too, after the request's own timeout has passed.               *)
Cancel(r, gone) ==
  /\ call[r] = "cancelling"
  /\ \/ gone /\ UNCHANGED up
     \/ ~gone /\ Room(up) /\ up' = Append(up, CancelFrame(r))
  /\ Return(r, Failure("timeout"))
  /\ UNCHANGED <<pending, slot, reader, readerErr, closed, down, hungUp>>

-----------------------------------------------------------------------------
(* spawn_reader and read_binary_loop.                                      *)

ReaderStops(e) ==
  /\ reader' = "ended"
  /\ readerErr' = e
  /\ closed' = TRUE

\* Mutant: the response is paired with any pending request, not by its id.
DeliverReply_AnyPending ==
  /\ reader = "reading"
  /\ down # <<>>
  /\ Head(down).kind = "reply"
  /\ \E r \in pending :
       /\ pending' = pending \ {r}
       /\ slot' = [slot EXCEPT ![r] = [kind |-> Head(down).body, of |-> Head(down).of]]
  /\ down' = Tail(down)
  /\ UNCHANGED <<call, result, reader, readerErr, closed, up, hungUp>>

DeliverReply ==
  /\ reader = "reading"
  /\ down # <<>>
  /\ Head(down).kind = "reply"
  /\ Head(down).id \in pending
  /\ LET f == Head(down) IN
       /\ pending' = pending \ {f.id}
       /\ slot' = [slot EXCEPT ![f.id] = [kind |-> f.body, of |-> f.of]]
  /\ down' = Tail(down)
  /\ UNCHANGED <<call, result, reader, readerErr, closed, up, hungUp>>

(* A response whose request is no longer pending ends the whole session.   *)
LateResponse ==
  /\ reader = "reading"
  /\ down # <<>>
  /\ Head(down).kind = "reply"
  /\ Head(down).id \notin pending
  /\ down' = Tail(down)
  /\ ReaderStops("late")
  /\ UNCHANGED <<call, result, pending, slot, up, hungUp>>

(* A frame without the response flag, or a body that is no ControlResponse *)
(* or nests deeper than the limits allow.                                  *)
ReadUndecodable ==
  /\ reader = "reading"
  /\ down # <<>>
  /\ Head(down).kind = "reply"
  /\ down' = Tail(down)
  /\ ReaderStops("decode")
  /\ UNCHANGED <<call, result, pending, slot, up, hungUp>>

(* The bytes that follow a cut frame, or the end of the stream, make it    *)
(* undecodable.                                                            *)
ReadTorn(serverClosed) ==
  /\ reader = "reading"
  /\ down # <<>>
  /\ Head(down).kind = "torn"
  /\ Len(down) > 1 \/ serverClosed
  /\ down' = Tail(down)
  /\ ReaderStops("torn")
  /\ UNCHANGED <<call, result, pending, slot, up, hungUp>>

(* The read itself fails, or the stream ends inside a frame.               *)
ReadFails ==
  /\ reader = "reading"
  /\ ReaderStops("io")
  /\ UNCHANGED <<call, result, pending, slot, wireVars>>

ReadEof(serverClosed) ==
  /\ reader = "reading"
  /\ down = <<>>
  /\ serverClosed
  /\ ReaderStops("closed")
  /\ UNCHANGED <<call, result, pending, slot, wireVars>>

\* Mutant: the pending map is cleared without telling the callers.
DrainPending_Silent ==
  /\ reader = "ended"
  /\ reader' = "drained"
  /\ pending' = {}
  /\ UNCHANGED <<call, result, slot, readerErr, closed, wireVars>>

(* Ok becomes Closed and every error Protocol.                             *)
Handed == IF readerErr = "closed" THEN Failure("closed") ELSE Failure("protocol")

DrainPending ==
  /\ reader = "ended"
  /\ reader' = "drained"
  /\ slot' = [r \in Requests |-> IF r \in pending THEN Handed ELSE slot[r]]
  /\ pending' = {}
  /\ UNCHANGED <<call, result, readerErr, closed, wireVars>>

(* ControlSession::close takes the session by value, so no send is running.*)
Close ==
  /\ ~hungUp
  /\ \A r \in Requests : call[r] \in {"idle", "done"}
  /\ closed' = TRUE
  /\ slot' = [r \in Requests |-> IF r \in pending THEN Failure("closed") ELSE slot[r]]
  /\ pending' = {}
  /\ reader' = "aborted"
  /\ hungUp' = TRUE
  /\ UNCHANGED <<call, result, readerErr, up, down>>
=============================================================================
