-------------------------- MODULE MCControlChannel --------------------------
(* Instances of ControlChannel for TLC: two concurrent calls. *)
EXTENDS ControlChannel

CONSTANTS r1, r2
=============================================================================
