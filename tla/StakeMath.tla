------------------------------ MODULE StakeMath ------------------------------
(***************************************************************************)
(* The pure LP arithmetic of math.rs.  u64 is scaled down to 0..MaxU64; a  *)
(* Rust Option<u64> is a member of U64 or None; intermediate u128 values   *)
(* never overflow in the code (products of two u64) and are plain naturals.*)
(***************************************************************************)
EXTENDS Integers

CONSTANT MaxU64        \* stands for u64::MAX

ASSUME MaxU64Assumption == MaxU64 \in Nat \ {0}

U64  == 0 .. MaxU64
None == -1             \* Option::None
OptU64 == U64 \cup {None}

BpsDenominator == 10000

\* checked_add, checked_sub and the u128 -> u64 range test: the exact result
\* when it fits a u64, None otherwise.
checked(x) == IF x \in U64 THEN x ELSE None

unwrap_or(opt, default) == IF opt = None THEN default ELSE opt

saturating_add(x, y) == IF x + y > MaxU64 THEN MaxU64 ELSE x + y
saturating_sub(x, y) == IF x < y THEN 0 ELSE x - y

lesser(x, y)  == IF x <= y THEN x ELSE y
greater(x, y) == IF x >= y THEN x ELSE y

-----------------------------------------------------------------------------
(* LP tokens and collateral *)

\* A plausible slip: rounding the pro-rata share up, against the pool.
calc_lp_rounding_up(total_lp_supply, total_pool_value, deposit_amount) ==
  IF total_lp_supply = 0
  THEN IF total_pool_value = 0 THEN deposit_amount ELSE None
  ELSE IF total_pool_value = 0 THEN None
       ELSE checked((deposit_amount * total_lp_supply + total_pool_value - 1)
                      \div total_pool_value)

\* A plausible slip: 1:1 for the first depositor whatever the pool holds.
calc_lp_ignoring_orphans(total_lp_supply, total_pool_value, deposit_amount) ==
  IF total_lp_supply = 0 THEN deposit_amount
  ELSE IF total_pool_value = 0 THEN None
       ELSE checked((deposit_amount * total_lp_supply) \div total_pool_value)

calc_lp_for_deposit(total_lp_supply, total_pool_value, deposit_amount) ==
  IF total_lp_supply = 0
  THEN IF total_pool_value = 0
       THEN deposit_amount    \* true first depositor: 1:1
       ELSE None              \* orphaned value: blocked
  ELSE IF total_pool_value = 0
       THEN None              \* fully flushed: would dilute the holders' claim
       ELSE checked((deposit_amount * total_lp_supply) \div total_pool_value)

\* A plausible slip: rounding the payout up, against the pool.
calc_collateral_rounding_up(total_lp_supply, total_pool_value, lp_amount) ==
  IF total_lp_supply = 0 THEN None
  ELSE checked((lp_amount * total_pool_value + total_lp_supply - 1)
                 \div total_lp_supply)

calc_collateral_for_withdraw(total_lp_supply, total_pool_value, lp_amount) ==
  IF total_lp_supply = 0 THEN None
  ELSE checked((lp_amount * total_pool_value) \div total_lp_supply)

-----------------------------------------------------------------------------
(* Pool value helpers that the crate exports beside StakePool's own *)

pool_value(total_deposited, total_withdrawn) ==
  checked(total_deposited - total_withdrawn)

pool_value_with_fees(total_deposited, total_withdrawn, total_fees_earned) ==
  LET net == pool_value(total_deposited, total_withdrawn)
  IN  IF net = None THEN None ELSE checked(net + total_fees_earned)

\* The formula before the fix of issue 9, which left returned insurance out.
flush_available_without_returned(total_deposited, total_returned, total_withdrawn, total_flushed) ==
  saturating_sub(saturating_sub(total_deposited, total_withdrawn), total_flushed)

flush_available(total_deposited, total_returned, total_withdrawn, total_flushed) ==
  saturating_sub(saturating_sub(saturating_add(total_deposited, total_returned),
                                total_withdrawn),
                 total_flushed)

-----------------------------------------------------------------------------
(* Withdrawal cooldown *)

\* The slot of the existing position and of now, averaged with the LP amounts
\* as weights, computed as an offset above the lower of the two.
blended_slot(existing_lp, existing_slot, new_lp, current_slot) ==
  LET lo == lesser(existing_slot, current_slot)
      weighted_span == existing_lp * (existing_slot - lo)
                         + new_lp * (current_slot - lo)
  IN  saturating_add(lo, weighted_span \div (existing_lp + new_lp))

\* The proportional freshness floor of issue 39.
freshness_floor(existing_lp, new_lp, current_slot, cooldown_slots) ==
  LET aged_credit == lesser((cooldown_slots * existing_lp)
                              \div (existing_lp + new_lp), MaxU64)
  IN  saturating_sub(current_slot, aged_credit)

\* The blend alone, as before issue 39.
weighted_slot_without_floor(existing_lp, existing_slot, new_lp, current_slot, cooldown_slots) ==
  IF existing_lp + new_lp = 0 THEN current_slot
  ELSE blended_slot(existing_lp, existing_slot, new_lp, current_slot)

\* The flat floor the comment in math.rs rejects: every top-up onto an aged
\* position is credited with a whole cooldown.
weighted_slot_with_flat_floor(existing_lp, existing_slot, new_lp, current_slot, cooldown_slots) ==
  IF existing_lp + new_lp = 0 THEN current_slot
  ELSE greater(blended_slot(existing_lp, existing_slot, new_lp, current_slot),
               saturating_sub(current_slot, cooldown_slots))

\* A plausible slip: the floor replaces the blend instead of lifting it.
weighted_slot_floor_only(existing_lp, existing_slot, new_lp, current_slot, cooldown_slots) ==
  IF existing_lp + new_lp = 0 THEN current_slot
  ELSE freshness_floor(existing_lp, new_lp, current_slot, cooldown_slots)

weighted_deposit_slot(existing_lp, existing_slot, new_lp, current_slot, cooldown_slots) ==
  IF existing_lp + new_lp = 0 THEN current_slot
  ELSE LET blended == blended_slot(existing_lp, existing_slot, new_lp, current_slot)
       IN  IF new_lp > 0
           THEN greater(blended, freshness_floor(existing_lp, new_lp,
                                                 current_slot, cooldown_slots))
           ELSE blended

-----------------------------------------------------------------------------
(* High-water mark (PERC-313) *)

hwm_floor(epoch_high_water_tvl, hwm_floor_bps) ==
  checked((epoch_high_water_tvl * hwm_floor_bps) \div BpsDenominator)

hwm_withdrawal_allowed(post_withdrawal_tvl, epoch_high_water_tvl, hwm_floor_bps) ==
  LET floor == hwm_floor(epoch_high_water_tvl, hwm_floor_bps)
  IN  /\ floor # None
      /\ post_withdrawal_tvl >= floor
=============================================================================
