----------------------------- MODULE ControlRpc -----------------------------
(***************************************************************************)
(* What a control session promises its callers, whatever the wire, the     *)
(* timeouts, the cancellations and the shutdown do in between:             *)
(*                                                                         *)
(*   - a call returns once, and what it returned never changes;            *)
(*   - the handler of a request runs to completion at most once, and only  *)
(*     for a request somebody made;                                        *)
(*   - a call that returns a handler's response returns the response of    *)
(*     its own handler run, which is complete by then.                     *)
(*                                                                         *)
(* A call may fail although its handler runs, before or after.             *)
(***************************************************************************)
CONSTANTS Requests, Outcomes, NoOutcome

VARIABLES status, outcome, executed

rpcVars == <<status, outcome, executed>>

Init ==
  /\ status = [r \in Requests |-> "idle"]
  /\ outcome = [r \in Requests |-> NoOutcome]
  /\ executed = {}

Call(r) ==
  /\ status[r] = "idle"
  /\ status' = [status EXCEPT ![r] = "open"]
  /\ UNCHANGED <<outcome, executed>>

Execute(r) ==
  /\ status[r] # "idle"
  /\ r \notin executed
  /\ executed' = executed \cup {r}
  /\ UNCHANGED <<status, outcome>>

Answer(r, o) ==
  /\ status[r] # "done"
  /\ o.kind = "handled" => r \in executed /\ o.of = r
  /\ o.kind = "rejected" => o.of = r
  /\ status' = [status EXCEPT ![r] = "done"]
  /\ outcome' = [outcome EXCEPT ![r] = o]
  /\ UNCHANGED executed

Next ==
  \E r \in Requests :
    \/ Call(r)
    \/ Execute(r)
    \/ \E o \in Outcomes \ {NoOutcome} : Answer(r, o)

Spec == Init /\ [][Next]_rpcVars
=============================================================================
