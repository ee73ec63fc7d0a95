--------------------------- MODULE MCSimpleQueue ---------------------------
(* SimpleQueue with a few threads, values and addresses.  No symmetry: the  *)
(* run checks a liveness property too.                                      *)
EXTENDS SimpleQueue, TLC
=============================================================================
