--------------------------- MODULE MCBridgeDispatch ---------------------------
(* BridgeDispatch on a small set of requests. *)
EXTENDS BridgeDispatch, TLC

Symmetry == Permutations(Requests)
===============================================================================
