----------------------------- MODULE MCSeqTree ------------------------------
(* Sequences as deep as three, that branch below the root, and one letter: *)
(* a name is empty or not, and two names are equal or not.                 *)
EXTENDS SeqTree

CONSTANTS zero, one

Few == {<<zero>>, <<zero, zero>>, <<zero, zero, zero>>, <<one>>}
=============================================================================
