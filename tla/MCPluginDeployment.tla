------------------------- MODULE MCPluginDeployment -------------------------
(* Two plugins: one has a builtin and an ABI deployment with one surface,  *)
(* the other a builtin and an ABI deployment whose surfaces differ.        *)
EXTENDS PluginDeployment

CONSTANTS p1, p2, c1, c2

TwoCandidates == [p \in Plugins |-> {"builtin", "abi"}]

P2AbiDiffers == {<<p2, "abi">>}
=============================================================================
