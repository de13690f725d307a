--------------------------- MODULE MCTransaction ---------------------------
(***************************************************************************)
(* Values for Transaction: a u64 of eight different bytes, so that no two  *)
(* of them can change places unseen, and zero.                             *)
(***************************************************************************)
EXTENDS Transaction

SomeU64 == {zeros(8), [i \in 1 .. 8 |-> i]}

AllInstructions == DOMAIN StakeInstruction
=============================================================================
