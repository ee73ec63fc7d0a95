------------------------------ MODULE MCLLQueue ------------------------------
(* LLQueue with a few threads, values and addresses. *)
EXTENDS LLQueue, TLC

Symmetry == Permutations(Threads) \cup Permutations(Values) \cup Permutations(Addr)
=============================================================================
