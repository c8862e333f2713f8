-------------------------- MODULE MCWorkingCopy --------------------------
(***************************************************************************)
(* Two copies and two items: each can lose the other's item.  Three pushes *)
(* are a put, another copy's put over it and a retry of the first.         *)
(***************************************************************************)
EXTENDS WorkingCopy, TLC

Symmetry == Permutations(Copies) \cup Permutations(Items)
=============================================================================
