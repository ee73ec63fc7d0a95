------------------------------ MODULE MCPoset ------------------------------
(* One poset of up to four elements, or two with up to three together.     *)
EXTENDS Poset, TLC

FourThenThree == 0 :> 4 @@ 1 :> 4 @@ 2 :> 3
Symmetric == Permutations(Value)
=============================================================================
