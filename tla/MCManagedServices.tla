------------------------- MODULE MCManagedServices -------------------------
(* ManagedServices for TLC: the launchers of the policy model and of the     *)
(* retrievers.                                                              *)
EXTENDS ManagedServices, TLC

CONSTANTS p1, p2, p3

Vllm == <<"vllm">>
Retrievers == <<"bm25", "e5">>
PidSymmetry == Permutations(Pids)
=============================================================================
