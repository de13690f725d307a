------------------------------ MODULE StakePool ------------------------------
(***************************************************************************)
(* The account records of state.rs and the methods on them.  Fields that   *)
(* never change after InitPool and identify the one modelled market (slab, *)
(* mints, vault key, program id, bumps, discriminator) are left out.  Byte *)
(* 9 of _reserved, whose bits 0 and 1 are "resolved" and "hwm_enabled", is *)
(* the set of the flags that are set.                                      *)
(***************************************************************************)
EXTENDS StakeMath, Keys

Flags == {"resolved", "hwm_enabled"}
InsuranceLp == 0       \* pool_mode 0
TradingLp   == 1       \* pool_mode 1

StakePoolType ==
  [is_initialized        : BOOLEAN,
   admin_transferred     : BOOLEAN,
   admin                 : AllKeys,
   total_deposited       : U64,
   total_lp_supply       : U64,
   cooldown_slots        : U64,
   deposit_cap           : U64,
   total_flushed         : U64,
   total_returned        : U64,
   total_withdrawn       : U64,
   total_fees_earned     : U64,
   last_fee_accrual_slot : U64,
   last_vault_snapshot   : U64,
   pool_mode             : {InsuranceLp, TradingLp},
   flags                 : SUBSET Flags,
   hwm_floor_bps         : 0 .. BpsDenominator,
   epoch_high_water_tvl  : U64,
   hwm_last_epoch        : U64,
   pre_supply_vault_offset : U64]

\* A freshly created, zeroed program account.
ZeroedPool ==
  [is_initialized        |-> FALSE,
   admin_transferred     |-> FALSE,
   admin                 |-> ZeroKey,
   total_deposited       |-> 0,
   total_lp_supply       |-> 0,
   cooldown_slots        |-> 0,
   deposit_cap           |-> 0,
   total_flushed         |-> 0,
   total_returned        |-> 0,
   total_withdrawn       |-> 0,
   total_fees_earned     |-> 0,
   last_fee_accrual_slot |-> 0,
   last_vault_snapshot   |-> 0,
   pool_mode             |-> InsuranceLp,
   flags                 |-> {},
   hwm_floor_bps         |-> 0,
   epoch_high_water_tvl  |-> 0,
   hwm_last_epoch        |-> 0,
   pre_supply_vault_offset |-> 0]

StakeDepositType ==
  [is_initialized : BOOLEAN, last_deposit_slot : U64, lp_amount : U64]

ZeroedDeposit ==
  [is_initialized |-> FALSE, last_deposit_slot |-> 0, lp_amount |-> 0]

-----------------------------------------------------------------------------
(* Flags *)

is_resolved(p) == "resolved" \in p.flags
hwm_enabled(p) == "hwm_enabled" \in p.flags

set_resolved(p) == [p EXCEPT !.flags = @ \cup {"resolved"}]

\* A plausible slip: writing the whole byte instead of clearing one bit.
set_hwm_enabled_whole_byte(p, enabled) ==
  [p EXCEPT !.flags = IF enabled THEN @ \cup {"hwm_enabled"} ELSE {}]

set_hwm_enabled(p, enabled) ==
  [p EXCEPT !.flags = IF enabled THEN @ \cup {"hwm_enabled"}
                                 ELSE @ \ {"hwm_enabled"}]

-----------------------------------------------------------------------------
(* High-water mark *)

\* A plausible slip: no new peak within an epoch.
refresh_hwm_only_at_rollover(p, current_epoch, current_tvl) ==
  IF current_epoch # p.hwm_last_epoch
  THEN [p EXCEPT !.epoch_high_water_tvl = current_tvl,
                 !.hwm_last_epoch = current_epoch]
  ELSE p

\* A plausible slip: the peak of an old epoch survives the rollover.
refresh_hwm_never_rebased(p, current_epoch, current_tvl) ==
  [p EXCEPT !.epoch_high_water_tvl = greater(@, current_tvl),
            !.hwm_last_epoch = current_epoch]

refresh_hwm(p, current_epoch, current_tvl) ==
  IF current_epoch # p.hwm_last_epoch
  THEN [p EXCEPT !.epoch_high_water_tvl = current_tvl,
                 !.hwm_last_epoch = current_epoch]
  ELSE [p EXCEPT !.epoch_high_water_tvl = greater(@, current_tvl)]

-----------------------------------------------------------------------------
(* Pool value *)

\* A plausible slip: the formula the comment at total_pool_value warns about.
pool_value_without_flushed(p) ==
  LET positives == checked(p.total_deposited + p.total_returned +
                     (IF p.pool_mode = TradingLp THEN p.total_fees_earned ELSE 0))
      negatives == p.total_withdrawn
  IN  IF positives = None THEN None ELSE checked(positives - negatives)

\* The formula before the fix the comment describes: deposits less withdrawals
\* first, which underflows once fees have been paid out.
pool_value_underflowing(p) ==
  LET net == checked(p.total_deposited - p.total_withdrawn)
  IN  IF net = None THEN None
      ELSE checked(net - p.total_flushed + p.total_returned
             + (IF p.pool_mode = TradingLp THEN p.total_fees_earned ELSE 0))

\* All positive terms are summed (checked) before the negatives are taken off.
total_pool_value(p) ==
  LET positives == checked(p.total_deposited + p.total_returned +
                     (IF p.pool_mode = TradingLp THEN p.total_fees_earned ELSE 0))
      negatives == checked(p.total_withdrawn + p.total_flushed)
  IN  IF positives = None \/ negatives = None
      THEN None
      ELSE checked(positives - negatives)

\* A plausible slip: the fees already booked are left out of the baseline, and
\* are booked again by the next crank.
accrual_baseline_without_fees(p) ==
  checked(p.total_deposited - p.total_withdrawn)

\* The same fault in the crank's baseline.
accrual_baseline_underflowing(p) ==
  LET net == checked(p.total_deposited - p.total_withdrawn)
  IN  IF net = None THEN None ELSE checked(net + p.total_fees_earned)

accrual_baseline(p) ==
  LET positives == checked(p.total_deposited + p.total_fees_earned)
  IN  IF positives = None THEN None ELSE checked(positives - p.total_withdrawn)

\* StakePool::calc_lp_for_deposit: a value that cannot be computed counts as 0.
pool_calc_lp_for_deposit(p, amount) ==
  calc_lp_for_deposit(p.total_lp_supply, unwrap_or(total_pool_value(p), 0), amount)

\* StakePool::calc_collateral_for_withdraw: here it is an error.
pool_calc_collateral_for_withdraw(p, lp_amount) ==
  LET pv == total_pool_value(p)
  IN  IF pv = None THEN None
      ELSE calc_collateral_for_withdraw(p.total_lp_supply, pv, lp_amount)

-----------------------------------------------------------------------------
(* What the accounting means, in unbounded integers: the properties compare *)
(* the code's u64 arithmetic and the vault with this.                       *)

NetValue(p) ==
  p.total_deposited + p.total_returned
    + (IF p.pool_mode = TradingLp THEN p.total_fees_earned ELSE 0)
    - p.total_withdrawn - p.total_flushed
=============================================================================
