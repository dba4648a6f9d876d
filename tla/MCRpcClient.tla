---------------------------- MODULE MCRpcClient ----------------------------
(***************************************************************************)
(* Finite instances of RpcClient.                                          *)
(***************************************************************************)
EXTENDS RpcClient, TLC

Symmetry == Permutations(Callers) \cup Permutations(Args)
=============================================================================
