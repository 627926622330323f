----------------------------- MODULE MCRpcGrants -----------------------------
(* Small instances of RpcGrants. *)
EXTENDS RpcGrants, TLC

CONSTANTS t1, t2, g1, g2, g3

Symmetry == Permutations(Tokens) \cup Permutations(Grants)
=============================================================================
