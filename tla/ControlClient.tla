--------------------------- MODULE ControlClient ----------------------------
(***************************************************************************)
(* The reconnecting control client (mutsuki-service-ipc/src/client.rs):    *)
(* clones of one ControlClient share a session behind a tokio mutex.       *)
(* connect and the send that follows take the mutex one after the other,   *)
(* and send keeps it until the answer is there.  A send that fails because *)
(* the session is closed, or on I/O, drops the session and is repeated     *)
(* once.  The session is reduced to what such serialised callers see of    *)
(* it: requests the server has not handled, answers the reader has not     *)
(* read, and, in the JSONL codec, answers that carry no request id         *)
(* (session.rs, read_jsonl_loop, and server_conn.rs, serve_jsonl).         *)
(* ControlChannel has the session in full.                                 *)
(***************************************************************************)
EXTENDS Naturals, FiniteSets, Sequences

CONSTANTS
  Callers,   \* tasks that each own a clone of the client
  MaxCalls,  \* bound: calls a caller makes
  MaxCuts    \* bound: connections that break, connects and writes that fail

ASSUME ClientAssumption == MaxCalls \in Nat /\ MaxCuts \in Nat

Call == Callers \X (1..MaxCalls)

NoCall == <<>>

VARIABLES
  ccCodec,    \* "binary" or "jsonl"
  ccLock,     \* the tokio mutex: its owner, then those who wait, in order
  ccSession,  \* the session behind the mutex
  ccLeft,     \* how often each call is unhandled on connections dropped since
  ccPc,       \* where a caller is
  ccCalls,    \* calls a caller has begun
  ccTry,      \* which of its two attempts a caller is in
  ccResult,   \* how its last call ended
  ccRuns,     \* how often the server has executed a call
  ccExpired,  \* calls that timed out
  ccCut,      \* calls that were unanswered when their session broke
  ccCuts

ccVars == <<ccCodec, ccLock, ccSession, ccLeft, ccPc, ccCalls, ccTry, ccResult,
            ccRuns, ccExpired, ccCut, ccCuts>>

\* What ControlSession::connect returns, and what Option::None stands for.
Session == [open |-> TRUE, closed |-> FALSE, todo |-> <<>>, answers |-> <<>>]

NoSession == [Session EXCEPT !.open = FALSE]

Sessions == [open : BOOLEAN, closed : BOOLEAN, todo : Seq(Call), answers : Seq(Call)]

Pcs == {"idle", "connect", "lookup", "sending", "cancel", "reset", "close", "panic"}

Result(kind, of) == [kind |-> kind, of |-> of]

Results == [kind : {"none", "ok", "disconnect", "timeout", "protocol"}, of : Call \cup {NoCall}]

ClientTypeOK ==
  /\ ccCodec \in {"binary", "jsonl"}
  /\ ccLock \in Seq(Callers)
  /\ \A i, j \in DOMAIN ccLock : ccLock[i] = ccLock[j] => i = j
  /\ ccSession \in Sessions
  /\ ccPc \in [Callers -> Pcs]
  /\ ccCalls \in [Callers -> 0..MaxCalls]
  /\ ccTry \in [Callers -> 1..2]
  /\ ccResult \in [Callers -> Results]
  /\ ccLeft \in [Call -> 0..2]
  /\ ccRuns \in [Call -> Nat] /\ ccExpired \cup ccCut \subseteq Call /\ ccCuts \in 0..MaxCuts

ClientInit ==
  /\ ccCodec \in {"binary", "jsonl"}
  /\ ccLock = <<>> /\ ccSession = NoSession
  /\ ccPc = [c \in Callers |-> "idle"] /\ ccCalls = [c \in Callers |-> 0]
  /\ ccTry = [c \in Callers |-> 1]
  /\ ccResult = [c \in Callers |-> Result("none", NoCall)]
  /\ ccLeft = [r \in Call |-> 0]
  /\ ccRuns = [r \in Call |-> 0] /\ ccExpired = {} /\ ccCut = {} /\ ccCuts = 0

Current(c) == <<c, ccCalls[c]>>

Holds(c, pc) == ccLock # <<>> /\ Head(ccLock) = c /\ ccPc[c] = pc

At(c, pc) == ccPc' = [ccPc EXCEPT ![c] = pc]

\* The owner gives the mutex back, and queues again for its next lock().
Relock(c) == ccLock' = Append(Tail(ccLock), c)

Unlock == ccLock' = Tail(ccLock)

\* *session = None.  The server may still execute what it has read.
DropSession ==
  /\ ccSession' = NoSession
  /\ ccLeft' = [r \in Call |->
       ccLeft[r] + Cardinality({i \in DOMAIN ccSession.todo : ccSession.todo[i] = r})]

-----------------------------------------------------------------------------
BeginSend(c) ==
  /\ ccPc[c] = "idle" /\ ccCalls[c] < MaxCalls
  /\ ccCalls' = [ccCalls EXCEPT ![c] = @ + 1]
  /\ ccTry' = [ccTry EXCEPT ![c] = 1]
  /\ ccResult' = [ccResult EXCEPT ![c] = Result("none", NoCall)]
  /\ ccLock' = Append(ccLock, c) /\ At(c, "connect")
  /\ UNCHANGED <<ccCodec, ccSession, ccLeft, ccRuns, ccExpired, ccCut, ccCuts>>

\* connect: under the mutex, a session if there is none.
Connect(c) ==
  /\ Holds(c, "connect")
  /\ ccSession' = IF ccSession.open THEN ccSession ELSE Session
  /\ Relock(c) /\ At(c, "lookup")
  /\ UNCHANGED <<ccCodec, ccCalls, ccTry, ccResult, ccLeft, ccRuns, ccExpired, ccCut, ccCuts>>

\* Mutant: a timeout is repeated like a disconnect.
EndWithError_Timeouts(c, kind) ==
  /\ IF kind \in {"disconnect", "timeout"} /\ ccTry[c] = 1
     THEN Relock(c) /\ At(c, "reset") /\ UNCHANGED ccResult
     ELSE /\ Unlock /\ At(c, "idle")
          /\ ccResult' = [ccResult EXCEPT ![c] = Result(kind, NoCall)]
  /\ UNCHANGED <<ccCodec, ccCalls, ccTry>>

\* send's match on an error: a disconnect is repeated once, after the mutex
\* has been taken again to drop the session; any other error is the result.
EndWithError(c, kind) ==
  /\ IF kind = "disconnect" /\ ccTry[c] = 1
     THEN Relock(c) /\ At(c, "reset") /\ UNCHANGED ccResult
     ELSE /\ Unlock /\ At(c, "idle")
          /\ ccResult' = [ccResult EXCEPT ![c] = Result(kind, NoCall)]
  /\ UNCHANGED <<ccCodec, ccCalls, ccTry>>

ConnectFails(c) ==
  /\ Holds(c, "connect") /\ ~ccSession.open /\ ccCuts < MaxCuts
  /\ EndWithError(c, "disconnect")
  /\ ccCuts' = ccCuts + 1
  /\ UNCHANGED <<ccSession, ccLeft, ccRuns, ccExpired, ccCut>>

\* The mutex again: the session connect left may be gone.
LookupPanics(c) ==
  /\ Holds(c, "lookup") /\ ~ccSession.open
  /\ Unlock /\ At(c, "panic")
  /\ UNCHANGED <<ccCodec, ccSession, ccCalls, ccTry, ccResult, ccLeft, ccRuns, ccExpired, ccCut, ccCuts>>

WriteRequest(c) ==
  /\ Holds(c, "lookup") /\ ccSession.open /\ ~ccSession.closed
  /\ ccSession' = [ccSession EXCEPT !.todo = Append(@, Current(c))]
  /\ At(c, "sending")
  /\ UNCHANGED <<ccCodec, ccLock, ccCalls, ccTry, ccResult, ccLeft, ccRuns, ccExpired, ccCut, ccCuts>>

\* The session's reader has ended (Closed), or the write fails (Io).
SendRefused(c) ==
  /\ Holds(c, "lookup") /\ ccSession.open
  /\ \/ ccSession.closed /\ UNCHANGED ccCuts
     \/ ~ccSession.closed /\ ccCuts < MaxCuts /\ ccCuts' = ccCuts + 1
  /\ EndWithError(c, "disconnect")
  /\ UNCHANGED <<ccSession, ccLeft, ccRuns, ccExpired, ccCut>>

\* The rest of the requests without one of them.
Without(todo, i) == SubSeq(todo, 1, i - 1) \o SubSeq(todo, i + 1, Len(todo))

\* Mutant: send without its timeout.
RequestExpires_Never(c) == FALSE /\ UNCHANGED ccVars

\* The request timer fires, and the call is no longer pending.
RequestExpires(c) ==
  /\ Holds(c, "sending")
  /\ At(c, "cancel")
  /\ ccExpired' = ccExpired \cup {Current(c)}
  /\ UNCHANGED <<ccCodec, ccLock, ccSession, ccCalls, ccTry, ccResult, ccLeft, ccRuns, ccCut, ccCuts>>

\* cancel, under the client's mutex still.  In the binary codec it writes a
\* frame, which reaches the server before or after the request is executed, or
\* not at all; whether it was written is ignored.
CancelSent(c) ==
  /\ Holds(c, "cancel")
  /\ \/ UNCHANGED ccSession
     \/ /\ ccCodec = "binary"
        /\ \E i \in DOMAIN ccSession.todo :
             /\ ccSession.todo[i] = Current(c)
             /\ ccSession' = [ccSession EXCEPT !.todo = Without(@, i)]
  /\ EndWithError(c, "timeout")
  /\ UNCHANGED <<ccLeft, ccRuns, ccExpired, ccCut, ccCuts>>

Reset(c) ==
  /\ Holds(c, "reset")
  /\ DropSession
  /\ ccTry' = [ccTry EXCEPT ![c] = 2]
  /\ Relock(c) /\ At(c, "connect")
  /\ UNCHANGED <<ccCodec, ccCalls, ccResult, ccRuns, ccExpired, ccCut, ccCuts>>

BeginClose(c) ==
  /\ ccPc[c] = "idle" /\ ccCalls[c] > 0
  /\ ccLock' = Append(ccLock, c) /\ At(c, "close")
  /\ UNCHANGED <<ccCodec, ccSession, ccCalls, ccTry, ccResult, ccLeft, ccRuns, ccExpired, ccCut, ccCuts>>

Close(c) ==
  /\ Holds(c, "close")
  /\ DropSession
  /\ Unlock /\ At(c, "idle")
  /\ UNCHANGED <<ccCodec, ccCalls, ccTry, ccResult, ccRuns, ccExpired, ccCut, ccCuts>>

-----------------------------------------------------------------------------
\* serve_jsonl handles one line after the other; the binary connection has
\* one request of this client at a time, apart from expired ones.
Execute ==
  /\ ccSession.todo # <<>>
  /\ LET r == Head(ccSession.todo) IN
       /\ ccRuns' = [ccRuns EXCEPT ![r] = @ + 1]
       /\ ccSession' = [ccSession EXCEPT !.todo = Tail(@),
                                         !.answers = IF ccSession.closed THEN @ ELSE Append(@, r)]
  /\ UNCHANGED <<ccCodec, ccLock, ccLeft, ccPc, ccCalls, ccTry, ccResult, ccExpired, ccCut, ccCuts>>

\* A connection the client has dropped: nobody reads the answer.
ExecuteLeft(r) ==
  /\ ccLeft[r] > 0
  /\ ccRuns' = [ccRuns EXCEPT ![r] = @ + 1]
  /\ ccLeft' = [ccLeft EXCEPT ![r] = @ - 1]
  /\ UNCHANGED <<ccCodec, ccLock, ccSession, ccPc, ccCalls, ccTry, ccResult, ccExpired, ccCut, ccCuts>>

Deliver(c, answer) ==
  /\ ccSession' = [ccSession EXCEPT !.answers = Tail(@)]
  /\ ccResult' = [ccResult EXCEPT ![c] = Result("ok", answer)]
  /\ Unlock /\ At(c, "idle")
  /\ UNCHANGED <<ccCodec, ccCalls, ccTry>>

\* Mutant: binary answers are paired like lines.
Paired_Oldest(c, answer) == Holds(c, "sending")

\* read_binary_loop pairs by request id, read_jsonl_loop with the oldest
\* pending call, which is the only one.
Paired(c, answer) == Holds(c, "sending") /\ (ccCodec = "jsonl" \/ answer = Current(c))

ReadAnswer(c) ==
  /\ ccSession.answers # <<>> /\ Paired(c, Head(ccSession.answers))
  /\ Deliver(c, Head(ccSession.answers))
  /\ UNCHANGED <<ccLeft, ccRuns, ccExpired, ccCut, ccCuts>>

\* An answer nobody is paired with ends the reader, which fails the call that
\* is pending, if one is, with a protocol error.
LateAnswer ==
  /\ ccSession.answers # <<>> /\ \A c \in Callers : ~Paired(c, Head(ccSession.answers))
  /\ ccSession' = [ccSession EXCEPT !.closed = TRUE, !.answers = <<>>]
  /\ IF \E c \in Callers : Holds(c, "sending")
     THEN EndWithError(Head(ccLock), "protocol")
     ELSE UNCHANGED <<ccCodec, ccLock, ccPc, ccCalls, ccTry, ccResult>>
  /\ UNCHANGED <<ccLeft, ccRuns, ccExpired, ccCut, ccCuts>>

\* The connection breaks.  The reader sees the end of the stream and fails the
\* pending call with Closed, or an I/O error, which becomes a protocol error
\* and is not repeated.  What the server has read it may still execute.
Disconnect ==
  /\ ccSession.open /\ ~ccSession.closed /\ ccCuts < MaxCuts
  /\ ccCuts' = ccCuts + 1
  /\ \E todo \in {ccSession.todo, <<>>} :
       ccSession' = [ccSession EXCEPT !.closed = TRUE, !.answers = <<>>, !.todo = todo]
  /\ IF \E c \in Callers : Holds(c, "sending")
     THEN /\ \E kind \in {"disconnect", "protocol"} : EndWithError(Head(ccLock), kind)
          /\ ccCut' = ccCut \cup {Current(Head(ccLock))}
     ELSE UNCHANGED <<ccCodec, ccLock, ccPc, ccCalls, ccTry, ccResult, ccCut>>
  /\ UNCHANGED <<ccLeft, ccRuns, ccExpired>>

-----------------------------------------------------------------------------
ClientStep(c) ==
  \/ Connect(c) \/ ConnectFails(c) \/ LookupPanics(c) \/ WriteRequest(c)
  \/ SendRefused(c) \/ RequestExpires(c) \/ CancelSent(c) \/ Reset(c) \/ Close(c) \/ ReadAnswer(c)

ClientNext ==
  \/ \E c \in Callers : BeginSend(c) \/ BeginClose(c) \/ ClientStep(c)
  \/ \E r \in Call : ExecuteLeft(r)
  \/ Execute \/ LateAnswer \/ Disconnect

\* The owner of the mutex is in one of the awaits that nothing bounds: making
\* a connection, writing its request, writing the cancel frame.  A server that
\* does not accept, or does not read, keeps it there.
Blocked(c) ==
  \/ Holds(c, "connect") /\ ~ccSession.open
  \/ Holds(c, "lookup") /\ ccSession.open
  \/ Holds(c, "cancel") /\ ccCodec = "binary"

\* Every caller's task is polled, and the request timer fires; nothing is
\* assumed of the three awaits.
ClientFairness == \A c \in Callers : WF_ccVars(~Blocked(c) /\ ClientStep(c))

ClientSpec == ClientInit /\ [][ClientNext]_ccVars

-----------------------------------------------------------------------------
\* The assertion of send_with_session, expect("session connected"): the session
\* that connect has made is still there when the mutex is taken again.
SessionConnected == \A c \in Callers : ccPc[c] # "panic"

\* "Reconnect once on disconnect": the server executes a call at most twice,
\* and twice only when its first session broke before the answer was there.
RetryBounded ==
  \A r \in Call : ccRuns[r] <= 2 /\ (ccRuns[r] = 2 => r \in ccCut)

\* A caller gets the answer to its own call.  In the JSONL codec, whose answers
\* carry no id, one timed-out call shifts every later answer of the session.
AnswerOwnOrExpired ==
  \A c \in Callers : ccResult[c].kind = "ok" =>
    \/ ccResult[c].of = Current(c)
    \/ ccCodec = "jsonl" /\ ccExpired # {}

\* Every call returns, also one the server never answers, or from some time on
\* the mutex is with a caller in one of the three awaits without a timeout:
\* the mutex is handed from caller to caller, no caller waits for a lock it
\* holds itself, and only connect and the two writes can keep the others out.
ClientCallEnds ==
  \A c \in Callers :
    ccPc[c] \notin {"idle", "panic"} ~>
      \/ ccPc[c] \in {"idle", "panic"}
      \/ [](\E d \in Callers : Blocked(d))

\* The client implements RetryRpc: a caller between the begin of send and its
\* return is open, one that closes the client is not.
Retry == INSTANCE RetryRpc WITH
  codec  <- ccCodec,
  calls  <- ccCalls,
  open   <- {c \in Callers : ccPc[c] \notin {"idle", "close"}},
  result <- ccResult,
  runs   <- ccRuns

ImplementsRetryRpc == Retry!Spec
=============================================================================
