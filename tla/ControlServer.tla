--------------------------- MODULE ControlServer ---------------------------
(***************************************************************************)
(* One server connection in the binary codec: the serve_binary loop of     *)
(* crates/mutsuki-service-ipc/src/server_conn.rs and the task it spawns    *)
(* for every request.  The tasks run on the multi-threaded tokio runtime,  *)
(* so the loop, the tasks and the drain signal interleave freely.          *)
(*                                                                         *)
(* JoinHandle::abort is a flag (aborted): a suspended task is dropped      *)
(* without running again, a task that another worker thread is polling     *)
(* runs on to its next suspension point, so an aborted task may still take *)
(* steps before it is dropped.                                             *)
(***************************************************************************)
EXTENDS ControlWire

VARIABLES
  conn,        \* where serve_stream and its serve_binary loop are
  current,     \* the request whose task was spawned but is not yet in entries
  entries,     \* keys of the connection's pending map
  task,        \* where each spawned task is
  answer,      \* the response a task has computed
  aborted,     \* tasks on which abort was called
  permits,     \* free permits of pending_slots
  mutateLock,  \* the task that holds mutate_lock
  ahead,       \* history: the mutating tasks still waiting when a request was read
  handled,     \* history: requests whose handler ran to completion
  drain        \* the value of the drain watch channel

serverVars == <<conn, current, entries, task, answer, aborted, permits,
                mutateLock, ahead, handled, drain>>

(* first: before the first byte; reading: in the select of the loop;       *)
(* receiving, limiting, refusing: the header is read and the payload is    *)
(* awaited, with a permit, to be answered "limit exceeded", or to be       *)
(* refused; inserting: the task is spawned; ended (Ok) and failed (Err).   *)
LoopStates == {"first", "reading", "receiving", "limiting", "refusing", "inserting",
               "draining", "ended", "failed"}

TaskStates == {"none", "spawned", "handling", "replying", "removing", "gone"}

Alive(r) == task[r] \in {"spawned", "handling", "replying", "removing"}

(* Both halves of the stream are dropped once the loop and every task end. *)
ServerClosed ==
  /\ conn \in {"ended", "failed"}
  /\ \A r \in Requests : ~Alive(r)

ServerTypeOK ==
  /\ conn \in LoopStates
  /\ current \in Requests \cup {NoRequest}
  /\ conn = "inserting" => current \in Requests
  /\ entries \in SUBSET Requests
  /\ task \in [Requests -> TaskStates]
  /\ answer \in [Requests -> Bodies]
  /\ aborted \in SUBSET Requests
  /\ permits \in Nat
  /\ mutateLock \in Requests \cup {NoRequest}
  /\ ahead \in [Requests -> SUBSET Mutating]
  /\ handled \in SUBSET Requests
  /\ drain \in BOOLEAN

ServerInit ==
  /\ conn = "first"
  /\ current = NoRequest
  /\ entries = {}
  /\ task = [r \in Requests |-> "none"]
  /\ answer = [r \in Requests |-> "rejected"]
  /\ aborted = {}
  /\ permits = MaxInFlight
  /\ mutateLock = NoRequest
  /\ ahead = [r \in Requests |-> {}]
  /\ handled = {}
  /\ drain = FALSE

taskVars == <<task, answer, permits, mutateLock, ahead, handled>>

loopVars == <<conn, current, entries, aborted, drain>>

-----------------------------------------------------------------------------
(* serve_stream waits for the first byte, which selects the codec, without *)
(* a timeout and without looking at drain.                                 *)

FirstByte ==
  /\ conn = "first"
  /\ up # <<>>
  /\ conn' = "reading"
  /\ UNCHANGED <<current, entries, aborted, drain, taskVars, wireVars>>

FirstEof ==
  /\ conn = "first"
  /\ hungUp
  /\ up = <<>>
  /\ conn' = "ended"
  /\ UNCHANGED <<current, entries, aborted, drain, taskVars, wireVars>>

-----------------------------------------------------------------------------
(* The read loop.  A frame leaves the stream when its payload is read.     *)

NextFrame(c, k) ==
  /\ conn = c
  /\ up # <<>>
  /\ Head(up).kind = k

(* The header of a request is read.  The select is biased towards the      *)
(* drain signal, but drain may also be raised while the header is being    *)
(* read: the request is then refused.                                      *)
HeaderRefused ==
  /\ NextFrame("reading", "request")
  /\ drain
  /\ conn' = "refusing"
  /\ UNCHANGED <<current, entries, aborted, drain, taskVars, wireVars>>

HeaderLimited ==
  /\ NextFrame("reading", "request")
  /\ ~drain
  /\ permits = 0
  /\ conn' = "limiting"
  /\ UNCHANGED <<current, entries, aborted, drain, taskVars, wireVars>>

\* Mutant: the request is taken without asking for a permit.
HeaderAdmitted_NoPermit ==
  /\ NextFrame("reading", "request")
  /\ ~drain
  /\ permits' = permits - 1
  /\ conn' = "receiving"
  /\ UNCHANGED <<current, entries, aborted, drain, task, answer, mutateLock, ahead, handled, wireVars>>

HeaderAdmitted ==
  /\ NextFrame("reading", "request")
  /\ ~drain
  /\ permits > 0
  /\ permits' = permits - 1
  /\ conn' = "receiving"
  /\ UNCHANGED <<current, entries, aborted, drain, task, answer, mutateLock, ahead, handled, wireVars>>

(* A payload is awaited without a timeout and without looking at drain.    *)
Payload(c) == NextFrame(c, "request") /\ up' = Tail(up)

(* The loop returns Err at once, without waiting for the running tasks.    *)
RefuseDraining ==
  /\ Payload("refusing")
  /\ conn' = "failed"
  /\ UNCHANGED <<current, entries, aborted, drain, taskVars, down, hungUp>>

(* The loop itself writes an error reply, waiting for room, and keeps      *)
(* reading; a write that fails ends it.                                    *)
WriteRejection ==
  \/ /\ conn' = "failed"
     /\ UNCHANGED down
  \/ /\ ~hungUp
     /\ Room(down)
     /\ down' = Append(down, Reply(Head(up).id, "rejected"))
     /\ conn' = "reading"

\* Mutant: the refused request's payload is not discarded, so it is read again.
RejectLimit_Reread ==
  /\ NextFrame("limiting", "request")
  /\ WriteRejection
  /\ UNCHANGED <<current, entries, aborted, drain, taskVars, up, hungUp>>

(* No permit is free.                                                      *)
RejectLimit ==
  /\ Payload("limiting")
  /\ WriteRejection
  /\ UNCHANGED <<current, entries, aborted, drain, taskVars, hungUp>>

(* The body does not decode: the permit is given back first.               *)
RejectBadBody ==
  /\ Payload("receiving")
  /\ permits' = permits + 1
  /\ WriteRejection
  /\ UNCHANGED <<current, entries, aborted, drain, task, answer, mutateLock, ahead, handled,
                 hungUp>>

(* A method this server does not know ends the connection.                 *)
UnknownOpcode ==
  /\ Payload("receiving")
  /\ permits' = permits + 1
  /\ conn' = "failed"
  /\ UNCHANGED <<current, entries, aborted, drain, task, answer, mutateLock, ahead, handled,
                 down, hungUp>>

SpawnTask ==
  /\ Payload("receiving")
  /\ LET r == Head(up).id IN
       /\ task' = [task EXCEPT ![r] = "spawned"]
       /\ current' = r
       /\ ahead' = [ahead EXCEPT ![r] = {q \in Mutating : task[q] = "spawned"}]
  /\ conn' = "inserting"
  /\ UNCHANGED <<entries, aborted, answer, permits, mutateLock, handled, drain, down, hungUp>>

(* A read fails: Err, and the permit the loop may hold is dropped with it. *)
LoopReadFails ==
  /\ conn \in {"first", "reading", "receiving", "limiting", "refusing"}
  /\ permits' = IF conn = "receiving" THEN permits + 1 ELSE permits
  /\ conn' = "failed"
  /\ UNCHANGED <<current, entries, aborted, drain, task, answer, mutateLock, ahead, handled, wireVars>>

(* The entry is inserted after the task was spawned: the task may already  *)
(* have finished and removed (nothing).                                    *)
InsertEntry ==
  /\ conn = "inserting"
  /\ entries' = entries \cup {current}
  /\ conn' = "reading"
  /\ current' = NoRequest
  /\ UNCHANGED <<aborted, drain, taskVars, wireVars>>

(* cancel_pending; a cancel frame has no payload to wait for.              *)
CancelPending ==
  /\ NextFrame("reading", "cancel")
  /\ up' = Tail(up)
  /\ LET r == Head(up).id IN
       IF r \in entries
         THEN entries' = entries \ {r} /\ aborted' = aborted \cup {r}
         ELSE UNCHANGED <<entries, aborted>>
  /\ UNCHANGED <<conn, current, drain, taskVars, down, hungUp>>

BeginDrain ==
  /\ ~drain
  /\ drain' = TRUE
  /\ UNCHANGED <<conn, current, entries, aborted, taskVars, wireVars>>

(* The loop stops reading on drain, on end of stream and on idle_timeout.  *)
StopReading ==
  /\ conn = "reading"
  /\ drain \/ up = <<>>
  /\ conn' = "draining"
  /\ UNCHANGED <<current, entries, aborted, drain, taskVars, wireVars>>

\* Mutant: the entries left at the deadline are dropped without an abort.
DrainEntries_NoAbort ==
  /\ conn = "draining"
  /\ entries' = {}
  /\ conn' = "ended"
  /\ UNCHANGED <<current, aborted, drain, taskVars, wireVars>>

(* wait_pending_drain returns when the map is empty or after 5 seconds,    *)
(* and aborts what is left.                                                *)
DrainEntries ==
  /\ conn = "draining"
  /\ aborted' = aborted \cup entries
  /\ entries' = {}
  /\ conn' = "ended"
  /\ UNCHANGED <<current, drain, taskVars, wireVars>>

DrainedEmpty == entries = {} /\ DrainEntries

\* Mutant: wait_pending_drain has no deadline.
DrainDeadline_Never == FALSE /\ DrainEntries

DrainDeadline == entries # {} /\ DrainEntries

-----------------------------------------------------------------------------
(* The spawned task.                                                       *)

(* dispatch_request for a mutating method waits for mutate_lock.           *)
StartMutating(r) ==
  /\ task[r] = "spawned"
  /\ r \in Mutating
  /\ mutateLock = NoRequest
  /\ mutateLock' = r
  /\ task' = [task EXCEPT ![r] = "handling"]
  /\ ahead' = [ahead EXCEPT ![r] = {}]
  /\ UNCHANGED <<answer, permits, handled, loopVars, wireVars>>

StartReading(r) ==
  /\ task[r] = "spawned"
  /\ r \notin Mutating
  /\ task' = [task EXCEPT ![r] = "handling"]
  /\ UNCHANGED <<answer, permits, mutateLock, ahead, handled, loopVars, wireVars>>

Unlocked(r) == IF mutateLock = r THEN NoRequest ELSE mutateLock

HandlerReturns(r) ==
  /\ task[r] = "handling"
  /\ task' = [task EXCEPT ![r] = "replying"]
  /\ answer' = [answer EXCEPT ![r] = "handled"]
  /\ handled' = handled \cup {r}
  /\ mutateLock' = Unlocked(r)
  /\ UNCHANGED <<permits, ahead, loopVars, wireVars>>

(* The abort watch wins the select: the handler is dropped where it stands.*)
HandlerAborted(r) ==
  /\ task[r] = "handling"
  /\ r \in aborted
  /\ task' = [task EXCEPT ![r] = "replying"]
  /\ answer' = [answer EXCEPT ![r] = "rejected"]
  /\ mutateLock' = Unlocked(r)
  /\ UNCHANGED <<permits, ahead, handled, loopVars, wireVars>>

(* A write waits for room; the failure of one is ignored.                  *)
WriteReply(r) ==
  /\ task[r] = "replying"
  /\ \/ UNCHANGED down
     \/ ~hungUp /\ Room(down) /\ down' = Append(down, Reply(r, answer[r]))
  /\ task' = [task EXCEPT ![r] = "removing"]
  /\ UNCHANGED <<answer, permits, mutateLock, ahead, handled, loopVars, up, hungUp>>

(* A response that exceeds the limits is dropped without a reply.          *)
ReplyNotEncodable(r) ==
  /\ task[r] = "replying"
  /\ task' = [task EXCEPT ![r] = "removing"]
  /\ UNCHANGED <<answer, permits, mutateLock, ahead, handled, loopVars, wireVars>>

TaskEnds(r) ==
  /\ task' = [task EXCEPT ![r] = "gone"]
  /\ permits' = permits + 1

RemoveEntry(r) ==
  /\ task[r] = "removing"
  /\ entries' = entries \ {r}
  /\ TaskEnds(r)
  /\ UNCHANGED <<conn, current, aborted, drain, answer, mutateLock, ahead,
                 handled, wireVars>>

\* Mutant: the permit is released by the last statement of the task, which a
\* dropped task never reaches.
TaskDropped_KeepsPermit(r) ==
  /\ Alive(r)
  /\ r \in aborted
  /\ task' = [task EXCEPT ![r] = "gone"]
  /\ mutateLock' = Unlocked(r)
  /\ UNCHANGED <<answer, permits, ahead, handled, loopVars, wireVars>>

\* Mutant: mutate_lock is released by hand, which a dropped task never does.
TaskDropped_KeepsLock(r) ==
  /\ Alive(r)
  /\ r \in aborted
  /\ TaskEnds(r)
  /\ UNCHANGED <<answer, mutateLock, ahead, handled, loopVars, wireVars>>

TaskDropped(r) ==
  /\ Alive(r)
  /\ r \in aborted
  /\ TaskEnds(r)
  /\ mutateLock' = Unlocked(r)
  /\ ahead' = [ahead EXCEPT ![r] = {}]
  /\ UNCHANGED <<answer, handled, loopVars, wireVars>>

(* Dropped in the middle of write_all: part of the frame is on the wire.   *)
TaskDroppedWriting(r) ==
  /\ task[r] = "replying"
  /\ r \in aborted
  /\ ~hungUp
  /\ TaskEnds(r)
  /\ down' = Append(down, Torn(r))
  /\ UNCHANGED <<answer, mutateLock, ahead, handled, loopVars, up, hungUp>>
=============================================================================
