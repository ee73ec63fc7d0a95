------------------------------ MODULE MCBLQueue ------------------------------
(* BLQueue with a few threads, values and addresses. *)
EXTENDS BLQueue, TLC

Symmetry == Permutations(Threads) \cup Permutations(Values) \cup Permutations(Addr)
=============================================================================
