---------------------------- MODULE MCStakeVault ----------------------------
(***************************************************************************)
(* StakeVault with interchangeable depositors.                             *)
(***************************************************************************)
EXTENDS StakeVaultRefinement, TLC

Symmetry == Permutations(Users)
=============================================================================
