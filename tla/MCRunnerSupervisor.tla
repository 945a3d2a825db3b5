------------------------- MODULE MCRunnerSupervisor -------------------------
(* Two runners, each with two possible launch specifications. *)
EXTENDS RunnerSupervisor

CONSTANTS a, b, s1, s2
=============================================================================
