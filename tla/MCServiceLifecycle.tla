------------------------- MODULE MCServiceLifecycle -------------------------
(* Two connections to the control socket beside the link server. *)
EXTENDS ServiceLifecycle

CONSTANTS c1, c2
=============================================================================
