---------------------------- MODULE MCManyPools ----------------------------
(***************************************************************************)
(* ManyPools with interchangeable markets and interchangeable depositors.  *)
(***************************************************************************)
EXTENDS ManyPools, TLC

Symmetry == Permutations(Slabs) \cup Permutations(Depositors)
=============================================================================
