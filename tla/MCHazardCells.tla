---------------------------- MODULE MCHazardCells ----------------------------
(* HazardCells with a few threads, cells and nodes. *)
EXTENDS HazardCells, TLC

Symmetry == Permutations(Threads) \cup Permutations(Cells) \cup Permutations(Addr)
==============================================================================
