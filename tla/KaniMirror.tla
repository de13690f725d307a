----------------------------- MODULE KaniMirror -----------------------------
(***************************************************************************)
(* The crate kani-proofs does not verify math.rs but a copy of its         *)
(* functions in narrower integers.  Its proofs are about the program only  *)
(* as far as the copy computes what the program computes.  Here is the     *)
(* copy, at the width of StakeMath.                                        *)
(***************************************************************************)
EXTENDS StakeMath

kani_calc_lp_for_deposit(supply, value, deposit) ==
  IF supply = 0 /\ value = 0 THEN deposit
  ELSE IF supply = 0 \/ value = 0 THEN None
  ELSE checked((deposit * supply) \div value)

kani_calc_collateral_for_withdraw(supply, value, lp) ==
  IF supply = 0 THEN None ELSE checked((lp * value) \div supply)

kani_pool_value(deposited, withdrawn) == checked(deposited - withdrawn)

\* Withdrawals and flushes come off before the returned insurance is added.
kani_pool_value_with_flush(deposited, withdrawn, flushed, returned) ==
  LET net  == checked(deposited - withdrawn)
      kept == IF net = None THEN None ELSE checked(net - flushed)
  IN  IF kept = None THEN None ELSE checked(kept + returned)

kani_flush_available(deposited, withdrawn, flushed) ==
  saturating_sub(saturating_sub(deposited, withdrawn), flushed)

kani_cooldown_elapsed(current_slot, deposit_slot, cooldown_slots) ==
  current_slot >= saturating_add(deposit_slot, cooldown_slots)
=============================================================================
