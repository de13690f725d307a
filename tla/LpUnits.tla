------------------------------ MODULE LpUnits ------------------------------
(***************************************************************************)
(* Sums over depositors, counted token by token: of an amount of n the     *)
(* units are numbered 0 to n-1, and the total of a ledger is the number of *)
(* its units.                                                              *)
(***************************************************************************)
EXTENDS StakeMath, FiniteSets

\* amounts: a function from holders to U64.
units_of(amounts) == {unit \in (DOMAIN amounts) \X U64 : unit[2] < amounts[unit[1]]}

total_of(amounts) == Cardinality(units_of(amounts))
=============================================================================
