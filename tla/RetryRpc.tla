------------------------------ MODULE RetryRpc ------------------------------
(***************************************************************************)
(* What the reconnecting client promises its callers, whatever breaks,     *)
(* times out and is repeated in between.  It is weaker than ControlRpc,    *)
(* the promise of one session:                                             *)
(*                                                                         *)
(*   - a call returns once, and its result stays until the next call;      *)
(*   - the server executes a call at most twice, and only one that was     *)
(*     made, perhaps after it has returned an error;                       *)
(*   - a result that is an answer is the answer to a call that was         *)
(*     executed before, and to the caller's own call where answers carry   *)
(*     request ids.                                                        *)
(***************************************************************************)
EXTENDS Naturals

CONSTANTS Callers, MaxCalls

VARIABLES codec, calls, open, result, runs

retryVars == <<codec, calls, open, result, runs>>

Call == Callers \X (1..MaxCalls)

NoResult == [kind |-> "none", of |-> <<>>]

Failures == [kind : {"disconnect", "timeout", "protocol"}, of : {<<>>}]

Answers == [kind : {"ok"}, of : Call]

Init ==
  /\ codec \in {"binary", "jsonl"}
  /\ calls = [c \in Callers |-> 0] /\ open = {}
  /\ result = [c \in Callers |-> NoResult]
  /\ runs = [r \in Call |-> 0]

Begin(c) ==
  /\ c \notin open /\ calls[c] < MaxCalls
  /\ calls' = [calls EXCEPT ![c] = @ + 1]
  /\ open' = open \cup {c}
  /\ result' = [result EXCEPT ![c] = NoResult]
  /\ UNCHANGED <<codec, runs>>

Run(r) ==
  /\ r[2] <= calls[r[1]] /\ runs[r] < 2
  /\ runs' = [runs EXCEPT ![r] = @ + 1]
  /\ UNCHANGED <<codec, calls, open, result>>

Return(c, o) ==
  /\ c \in open
  /\ o \in Answers => runs[o.of] >= 1 /\ (codec = "binary" => o.of = <<c, calls[c]>>)
  /\ open' = open \ {c}
  /\ result' = [result EXCEPT ![c] = o]
  /\ UNCHANGED <<codec, calls, runs>>

Next ==
  \/ \E c \in Callers : Begin(c)
  \/ \E r \in Call : Run(r)
  \/ \E c \in Callers, o \in Failures \cup Answers : Return(c, o)

Spec == Init /\ [][Next]_retryVars
=============================================================================
