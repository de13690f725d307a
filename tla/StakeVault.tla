----------------------------- MODULE StakeVault -----------------------------
(***************************************************************************)
(* processor.rs: one action per instruction of the stake program, over the *)
(* pool account, the depositors' records, the vault and LP tokens and the  *)
(* wrapper market.  A Solana instruction is atomic: an error rolls every   *)
(* account back, so an early return or a failed CPI is a guard that does   *)
(* not hold.  What interleaves is the instructions of many signers, plain  *)
(* token transfers that bypass the program, the market and the clock.      *)
(***************************************************************************)
EXTENDS StakePool, SplToken, Wrapper, LpUnits

CONSTANTS
  Modes,             \* pool modes that InitPool / InitTradingPool create
  LegacyPools,       \* subset of BOOLEAN: start with a pool from before the handoff?
  Amounts,           \* collateral amounts of deposits, flushes and returns
  Donations,         \* amounts sent to the vault by plain token transfers
  LpMoves,           \* LP amounts moved or burned by plain token instructions
  Cooldowns,         \* cooldown_slots an admin may configure
  Caps,              \* deposit_cap values an admin may configure
  HwmBps,            \* hwm_floor_bps values an admin may submit
  Admins,            \* wallets that may administer the market at the start
  OracleKeys,        \* wallets the oracle authority may be rotated to
  PolicyKeys,        \* keys submitted to AdminSetInsurancePolicy
  InsuranceLevels,   \* levels the market's insurance fund may move to
  MaxSlot,           \* bound on the clock
  SlotsPerEpoch

ASSUME InputsAssumption ==
  /\ Modes \subseteq {InsuranceLp, TradingLp}
  /\ LegacyPools \subseteq BOOLEAN
  /\ Amounts \subseteq U64 /\ Donations \subseteq U64 /\ LpMoves \subseteq U64
  /\ Cooldowns \subseteq U64 /\ Caps \subseteq U64 /\ InsuranceLevels \subseteq U64
  /\ HwmBps \subseteq Nat
  /\ Admins \subseteq Accounts /\ OracleKeys \subseteq Accounts
  /\ PolicyKeys \subseteq AllKeys
  /\ MaxSlot \in U64
  /\ SlotsPerEpoch \in Nat \ {0}

ASSUME UsersAssumption == IsFiniteSet(Users)     \* a key has 32 bytes

VARIABLES pool,        \* the StakePool account
          deposits,    \* the StakeDeposit account of each user
          slot         \* Clock::slot

vars == <<pool, deposits, vault, held, market, slot>>

epoch == slot \div SlotsPerEpoch     \* Clock::epoch

TypeOK ==
  /\ pool \in StakePoolType
  /\ deposits \in [Users -> StakeDepositType]
  /\ TokenTypeOK
  /\ market \in MarketType
  /\ slot \in 0 .. MaxSlot

-----------------------------------------------------------------------------
(* Validation helpers *)

\* The signer is the admin recorded in an initialized pool.
is_pool_admin(signer) == pool.is_initialized /\ pool.admin = signer

validate_admin_cpi(signer) == is_pool_admin(signer) /\ pool.admin_transferred

any_pool_mode(p) == TRUE             \* a plausible slip: no mode check

validate_flush_pool_mode(p) == p.pool_mode = InsuranceLp

validate_withdraw_insurance_pool_mode(p) == p.pool_mode = InsuranceLp

any_return_vault(dest) == TRUE       \* a plausible slip: no destination check

\* dest names the token account passed as stake_vault.
validate_return_vault(dest) == dest = "pool_vault"

any_authority(authority) == TRUE     \* a plausible slip: any key is accepted

validate_vault_insurance_authority(authority) == authority = VaultAuth

-----------------------------------------------------------------------------
(* 0 and 13: InitPool, InitTradingPool *)

init_pool_state(admin, cooldown, cap) ==
  [ZeroedPool EXCEPT !.is_initialized = TRUE,
                     !.admin_transferred = TRUE,
                     !.admin = admin,
                     !.cooldown_slots = cooldown,
                     !.deposit_cap = cap]

\* A plausible slip: the pool is written without the wrapper handoff.
init_without_handoff(admin) == market' = market

\* The wrapper CPI that proves the initializer is the market's admin.
init_handoff(admin) == update_authority(admin, PoolPda)

InitPool(admin, cooldown, cap) ==
  /\ ~pool.is_initialized
  /\ init_handoff(admin)
  /\ pool' = init_pool_state(admin, cooldown, cap)
  /\ UNCHANGED <<deposits, vault, held, slot>>

InitTradingPool(admin, cooldown, cap) ==
  /\ ~pool.is_initialized
  /\ init_handoff(admin)
  /\ pool' = [init_pool_state(admin, cooldown, cap) EXCEPT !.pool_mode = TradingLp]
  /\ UNCHANGED <<deposits, vault, held, slot>>

-----------------------------------------------------------------------------
(* 1: Deposit *)

\* A plausible slip: the cap is tested before the amount is added.
cap_on_old_value(p, amount) ==
  p.deposit_cap > 0 => unwrap_or(total_pool_value(p), 0) <= p.deposit_cap

within_deposit_cap(p, amount) ==
  p.deposit_cap > 0 =>
    LET new_value == checked(unwrap_or(total_pool_value(p), 0) + amount)
    IN  new_value # None /\ new_value <= p.deposit_cap

deposit_refresh(p, current_epoch) ==
  IF hwm_enabled(p)
  THEN refresh_hwm(p, current_epoch, unwrap_or(total_pool_value(p), 0))
  ELSE p

\* A plausible slip: the record keeps only the latest deposit.
deposit_record_overwritten(d, lp, cooldown) ==
  [is_initialized    |-> TRUE,
   last_deposit_slot |-> weighted_deposit_slot(d.lp_amount, d.last_deposit_slot,
                                               lp, slot, cooldown),
   lp_amount         |-> lp]

\* The user's record after a deposit.
deposit_record(d, lp, cooldown) ==
  [is_initialized    |-> TRUE,
   last_deposit_slot |-> weighted_deposit_slot(d.lp_amount, d.last_deposit_slot,
                                               lp, slot, cooldown),
   lp_amount         |-> d.lp_amount + lp]

\* Everything that can fail a deposit: the handler's checks, the token program's
\* and the checked additions, in that order.
deposit_accepted(user, amount) ==
  LET lp == pool_calc_lp_for_deposit(pool, amount)
  IN  /\ amount > 0
      /\ pool.is_initialized
      /\ pool.admin_transferred
      /\ ~is_resolved(pool)
      /\ within_deposit_cap(pool, amount)
      /\ lp # None /\ lp > 0
      /\ vault_takes(amount)
      /\ mintable(user, lp)
      /\ pool.total_deposited + amount \in U64
      /\ pool.total_lp_supply + lp \in U64
      /\ deposits[user].lp_amount + lp \in U64

Deposit(user, amount) ==
  LET lp == pool_calc_lp_for_deposit(pool, amount)
  IN  /\ deposit_accepted(user, amount)
      /\ transfer_to_vault(amount)
      /\ mint_to(user, lp)
      /\ pool' = deposit_refresh([pool EXCEPT !.total_deposited = @ + amount,
                                              !.total_lp_supply = @ + lp], epoch)
      /\ deposits' = [deposits EXCEPT ![user] =
                        deposit_record(@, lp, pool.cooldown_slots)]
      /\ UNCHANGED <<market, slot>>

-----------------------------------------------------------------------------
(* 2: Withdraw *)

cooldown_ignored(d) == TRUE          \* a plausible slip: no cooldown gate

cooldown_elapsed(d) ==
  slot >= saturating_add(d.last_deposit_slot, pool.cooldown_slots)

\* A plausible slip: the stored peak is used without refreshing it first.
withdraw_hwm_stale(p, current_epoch) == p

\* The peak is brought up to date before the floor is tested.
withdraw_hwm(p, current_epoch) ==
  IF hwm_enabled(p)
  THEN refresh_hwm(p, current_epoch, unwrap_or(total_pool_value(p), 0))
  ELSE p

hwm_allows(p, collateral) ==
  hwm_enabled(p) =>
    LET post_tvl == checked(unwrap_or(total_pool_value(p), 0) - collateral)
    IN  /\ post_tvl # None
        /\ hwm_withdrawal_allowed(post_tvl, p.epoch_high_water_tvl, p.hwm_floor_bps)

\* Everything that can fail a withdrawal.
withdraw_accepted(user, lp) ==
  LET collateral == pool_calc_collateral_for_withdraw(pool, lp)
  IN  /\ lp > 0
      /\ pool.is_initialized
      /\ deposits[user].is_initialized
      /\ cooldown_elapsed(deposits[user])
      /\ lp <= deposits[user].lp_amount
      /\ collateral # None /\ collateral > 0
      /\ hwm_allows(withdraw_hwm(pool, epoch), collateral)
      /\ burnable(user, lp)
      /\ vault_has(collateral)
      /\ pool.total_withdrawn + collateral \in U64
      /\ lp <= pool.total_lp_supply

Withdraw(user, lp) ==
  LET collateral == pool_calc_collateral_for_withdraw(pool, lp)
      refreshed  == withdraw_hwm(pool, epoch)
  IN  /\ withdraw_accepted(user, lp)
      /\ burn(user, lp)
      /\ transfer_from_vault(collateral)
      /\ pool' = [refreshed EXCEPT !.total_withdrawn = @ + collateral,
                                   !.total_lp_supply = @ - lp]
      /\ deposits' = [deposits EXCEPT ![user].lp_amount = @ - lp]
      /\ UNCHANGED <<market, slot>>

-----------------------------------------------------------------------------
(* 3, 10: collateral to the market's insurance fund and back *)

\* A plausible slip: what users took out already still counts as available.
flush_ceiling_ignoring_withdrawn(p) ==
  LET inflows == checked(p.total_deposited + p.total_returned)
  IN  IF inflows = None THEN None ELSE checked(inflows - p.total_flushed)

\* The ceiling of process_flush_to_insurance, written out there with checked_*.
flush_ceiling(p) ==
  LET inflows == checked(p.total_deposited + p.total_returned)
  IN  IF inflows = None THEN None
      ELSE checked(inflows - p.total_withdrawn - p.total_flushed)

FlushToInsurance(caller, amount) ==
  LET available == flush_ceiling(pool)
  IN  /\ amount > 0
      /\ pool.is_initialized
      /\ validate_flush_pool_mode(pool)
      /\ pool.admin = caller
      /\ available # None /\ amount <= available
      /\ top_up_insurance(amount)
      /\ transfer_from_vault(amount)
      /\ pool.total_flushed + amount \in U64
      /\ pool' = [pool EXCEPT !.total_flushed = @ + amount]
      /\ UNCHANGED <<deposits, held, slot>>

AdminWithdrawInsurance(signer, amount, dest) ==
  /\ validate_admin_cpi(signer)
  /\ validate_withdraw_insurance_pool_mode(pool)
  /\ validate_return_vault(dest)
  /\ withdraw_insurance(VaultAuth, amount)
  /\ vault + amount \in U64
  /\ vault' = IF dest = "pool_vault" THEN vault + amount ELSE vault
  /\ pool.total_returned + amount \in U64
  /\ pool' = [pool EXCEPT !.total_returned = @ + amount]
  /\ UNCHANGED <<deposits, held, slot>>

-----------------------------------------------------------------------------
(* 4, 14: configuration, also while deposits are open and positions are aging *)

UpdateConfig(signer, new_cooldown_slots, new_deposit_cap) ==
  /\ is_pool_admin(signer)
  /\ pool' = [pool EXCEPT !.cooldown_slots = unwrap_or(new_cooldown_slots, @),
                          !.deposit_cap = unwrap_or(new_deposit_cap, @)]
  /\ UNCHANGED <<deposits, vault, held, market, slot>>

any_hwm_floor(bps) == TRUE           \* a plausible slip: no range check

valid_hwm_floor(bps) == bps \in 1 .. BpsDenominator

\* The floor is written only when enabling, after its range check.
AdminSetHwmConfig(signer, enabled, bps) ==
  /\ is_pool_admin(signer)
  /\ enabled => valid_hwm_floor(bps)
  /\ pool' = [set_hwm_enabled(pool, enabled)
                EXCEPT !.hwm_floor_bps = IF enabled THEN bps ELSE @]
  /\ UNCHANGED <<deposits, vault, held, market, slot>>

-----------------------------------------------------------------------------
(* 5, 6, 9, 11: admin instructions forwarded to the wrapper *)

TransferAdmin(signer) ==
  /\ is_pool_admin(signer)
  /\ ~pool.admin_transferred
  /\ update_authority(signer, PoolPda)
  /\ pool' = [pool EXCEPT !.admin_transferred = TRUE]
  /\ UNCHANGED <<deposits, vault, held, slot>>

\* new_authority signs the transaction, so it is a wallet.
AdminSetOracleAuthority(signer, new_authority) ==
  /\ validate_admin_cpi(signer)
  /\ update_oracle_authority(PoolPda, new_authority)
  /\ UNCHANGED <<pool, deposits, vault, held, slot>>

AdminResolveMarket(signer) ==
  /\ validate_admin_cpi(signer)
  /\ resolve_market(PoolPda)
  /\ pool' = set_resolved(pool)
  /\ UNCHANGED <<deposits, vault, held, slot>>

\* The legacy policy fields must all be zero: they carry nothing here.
AdminSetInsurancePolicy(signer, authority) ==
  /\ validate_vault_insurance_authority(authority)
  /\ validate_admin_cpi(signer)
  /\ update_insurance_authority(PoolPda, authority)
  /\ UNCHANGED <<pool, deposits, vault, held, slot>>

-----------------------------------------------------------------------------
(* 12: AccrueFees, the permissionless crank *)

\* A plausible slip: no special case for an empty pool.
accrue_always(p, current_balance) ==
  LET baseline == accrual_baseline(p)
      expected == IF baseline = None THEN None
                  ELSE checked(baseline + p.pre_supply_vault_offset)
  IN  IF expected = None THEN p
      ELSE [p EXCEPT !.total_fees_earned =
                        @ + saturating_sub(current_balance, expected)]

\* What the vault should hold: booked value plus what was there before any LP.
expected_balance(p) ==
  LET baseline == accrual_baseline(p)
  IN  IF baseline = None THEN None
      ELSE checked(baseline + p.pre_supply_vault_offset)

\* The pool after the crank has compared the vault with expected_balance.
accrue(p, current_balance) ==
  IF p.total_lp_supply = 0
  THEN [p EXCEPT !.pre_supply_vault_offset = current_balance]
  ELSE [p EXCEPT !.total_fees_earned =
                    @ + saturating_sub(current_balance, expected_balance(p))]

AccrueFees ==
  /\ pool.is_initialized
  /\ pool.pool_mode = TradingLp
  /\ pool.total_lp_supply > 0 => expected_balance(pool) # None
  /\ accrue(pool, vault).total_fees_earned \in U64
  /\ pool' = [accrue(pool, vault) EXCEPT !.last_fee_accrual_slot = slot,
                                         !.last_vault_snapshot = vault]
  /\ UNCHANGED <<deposits, vault, held, market, slot>>

-----------------------------------------------------------------------------
(* What happens beside the program *)

\* Trading fees, or anybody's tokens, sent straight to the vault account.
DirectTransfer(amount) ==
  /\ pool.is_initialized
  /\ amount > 0
  /\ transfer_to_vault(amount)
  /\ UNCHANGED <<pool, deposits, held, market, slot>>

\* LP tokens are ordinary SPL tokens: holders move and burn them.
TransferLp(from, to, lp) ==
  /\ lp > 0
  /\ transfer_lp(from, to, lp)
  /\ UNCHANGED <<pool, deposits, vault, market, slot>>

BurnLp(user, lp) ==
  /\ lp > 0
  /\ burn(user, lp)
  /\ UNCHANGED <<pool, deposits, vault, market, slot>>

InsuranceMoves(level) ==
  /\ insurance_moves(level)
  /\ UNCHANGED <<pool, deposits, vault, held, slot>>

\* The market's human admin resolves it directly, before handing it over.
MarketAdminResolves(signer) ==
  /\ resolve_market(signer)
  /\ UNCHANGED <<pool, deposits, vault, held, slot>>

Tick ==
  /\ slot < MaxSlot
  /\ slot' = slot + 1
  /\ UNCHANGED <<pool, deposits, vault, held, market>>

-----------------------------------------------------------------------------
(* The specification *)

\* Either no pool account exists yet, or it was created by a build whose
\* InitPool left the handoff to TransferAdmin (deposits were closed until then).
Init ==
  /\ \E admin \in Admins :
       /\ market = [admin |-> admin, insurance_authority |-> admin,
                    oracle_authority |-> admin, resolved |-> FALSE, insurance |-> 0]
       /\ \E legacy \in LegacyPools, mode \in Modes, cooldown \in Cooldowns, cap \in Caps :
            pool = IF legacy
                   THEN [init_pool_state(admin, cooldown, cap)
                           EXCEPT !.admin_transferred = FALSE, !.pool_mode = mode]
                   ELSE ZeroedPool
  /\ deposits = [u \in Users |-> ZeroedDeposit]
  /\ TokenInit
  /\ slot = 0

AdminStep(signer) ==
  \/ \E cooldown \in Cooldowns, cap \in Caps :
       \/ InsuranceLp \in Modes /\ InitPool(signer, cooldown, cap)
       \/ TradingLp \in Modes /\ InitTradingPool(signer, cooldown, cap)
  \/ \E amount \in Amounts : FlushToInsurance(signer, amount)
  \/ \E amount \in Amounts, dest \in {"pool_vault", "other_account"} :
       AdminWithdrawInsurance(signer, amount, dest)
  \/ \E cooldown \in Cooldowns \cup {None}, cap \in Caps \cup {None} :
       UpdateConfig(signer, cooldown, cap)
  \/ \E enabled \in BOOLEAN, bps \in HwmBps : AdminSetHwmConfig(signer, enabled, bps)
  \/ TransferAdmin(signer)
  \/ \E key \in OracleKeys : AdminSetOracleAuthority(signer, key)
  \/ AdminResolveMarket(signer)
  \/ \E key \in PolicyKeys : AdminSetInsurancePolicy(signer, key)
  \/ MarketAdminResolves(signer)

UserStep(user) ==
  \/ \E amount \in Amounts : Deposit(user, amount)
  \/ \E lp \in U64 : Withdraw(user, lp)
  \/ \E to \in Users, lp \in LpMoves : TransferLp(user, to, lp)
  \/ \E lp \in LpMoves : BurnLp(user, lp)

Environment ==
  \/ AccrueFees
  \/ \E amount \in Donations : DirectTransfer(amount)
  \/ \E level \in InsuranceLevels : InsuranceMoves(level)
  \/ Tick

Next ==
  \/ \E signer \in Accounts : AdminStep(signer)
  \/ \E user \in Users : UserStep(user)
  \/ Environment

Spec == Init /\ [][Next]_vars

-----------------------------------------------------------------------------
(* Safety *)

\* SOLVENCY.  The vault holds every token the accounting says the pool is worth,
\* on top of the balance set aside as pre-supply dust.  Four handlers and the
\* crank update the counters and the vault separately (processor.rs 531-539,
\* 783-791, 913-917, 1228-1236, 1344, 1362-1367); plain transfers may only add.
Solvent == vault >= NetValue(pool) + pool.pre_supply_vault_offset

\* Lifetime outflows never exceed lifetime inflows, so the checked subtraction
\* at the end of total_pool_value (state.rs 337-340) never underflows.
NotOverdrawn == NetValue(pool) >= 0

\* A trading pool's LP token is never worth less than the 1:1 it was first
\* minted at: neither rounding nor the crank nor any order of entries and exits
\* dilutes it (math.rs 40-48, 73-80; state.rs 313-341).
ParOrBetter == pool.pool_mode = TradingLp => NetValue(pool) >= pool.total_lp_supply

\* When the last LP token is gone no value stays behind in the books, so the
\* orphaned-value branch of calc_lp_for_deposit (math.rs 28-32) cannot close the
\* pool.  Only insurance returned by a resolved market to an empty insurance
\* pool may leave value without holders.
EmptyTogether ==
  pool.total_lp_supply = 0 /\ (pool.pool_mode = TradingLp \/ ~market.resolved)
    => NetValue(pool) = 0

\* The pool believes it controls the market only if the market's admin is the
\* pool PDA: no signer ever gets the deposit gate open (processor.rs 446-452)
\* while the market still answers to somebody else.
HandoffIsReal == pool.admin_transferred => market.admin = PoolPda

\* "A zero-LP trading pool must stay bootstrap-able" (processor.rs 1336): with
\* no LP outstanding, whatever tokens were sent to the vault and however often
\* the crank ran, any user can open the pool again.
Bootstrappable ==
  \A user \in Users, amount \in Amounts :
    /\ pool.is_initialized /\ pool.pool_mode = TradingLp
    /\ pool.admin_transferred /\ ~is_resolved(pool)
    /\ pool.total_lp_supply = 0 /\ pool.deposit_cap = 0
    /\ amount > 0 /\ vault + amount \in U64
    /\ pool.total_deposited + amount \in U64
    => deposit_accepted(user, amount)

\* Nothing but the cooldown, the high-water mark and the end of the u64 range
\* keeps a depositor who still holds the LP tokens from redeeming the whole
\* position at once (processor.rs 694-800), provided an LP token is worth at
\* least one base unit: always so in a trading pool, and in an insurance pool
\* as long as flushes have not taken it below par.
ExitIsOpen ==
  \A user \in Users :
    LET d == deposits[user]
    IN  /\ d.lp_amount > 0 /\ held[user] >= d.lp_amount
        /\ cooldown_elapsed(d) /\ ~hwm_enabled(pool)
        /\ total_pool_value(pool) # None
        /\ NetValue(pool) >= pool.total_lp_supply
        => withdraw_accepted(user, d.lp_amount)

\* What the records say each user may redeem.
recorded == [u \in Users |-> deposits[u].lp_amount]

\* The pool's LP supply is the sum of what the depositors' records say, however
\* LP tokens were moved or burned outside the program, and the wallets never
\* hold more than that (processor.rs 536-539, 610-612, 788-800).
RecordsMatchSupply ==
  /\ total_of(recorded) = pool.total_lp_supply
  /\ total_of(held) <= pool.total_lp_supply

\* The state in which unwrap_or(0) would price a deposit 1:1 although the value
\* of the pool is unknown (state.rs 371-374) is never reached: a pool without LP
\* has a computable value, as FINDINGS.md 213 claims.  Insurance returned by a
\* resolved market to an empty insurance pool is the exception again.
EmptyPoolIsPriced ==
  pool.total_lp_supply = 0 /\ (pool.pool_mode = TradingLp \/ ~market.resolved)
    => total_pool_value(pool) # None

\* "LP must always be redeemable" (processor.rs 341): while LP tokens are
\* outstanding the pool can compute what they are worth.
LpStaysPriced == pool.total_lp_supply > 0 => total_pool_value(pool) # None

\* The two pool modes keep to their own counters: a trading pool never flushes
\* or takes returned insurance, an insurance pool never books fees or dust.
ModesApart ==
  /\ pool.pool_mode = TradingLp => pool.total_flushed = 0 /\ pool.total_returned = 0
  /\ pool.pool_mode = InsuranceLp =>
       pool.total_fees_earned = 0 /\ pool.pre_supply_vault_offset = 0

\* The inductive invariant behind solvency.  AccrueFees compares the vault with
\* a baseline that leaves total_flushed and total_returned out (state.rs
\* 358-366): booking the difference is sound only because the modes stay apart,
\* and setting the whole balance aside (processor.rs 1344) only because an
\* empty trading pool has no value on its books.
Accounting == TypeOK /\ Solvent /\ NotOverdrawn /\ EmptyTogether /\ ModesApart

\* Nothing is written to the pool account before InitPool.
BlankUntilInit == ~pool.is_initialized => pool = ZeroedPool

\* Only a resolved market gives insurance back, and resolution is for good.
ReturnsFollowResolution == pool.total_returned > 0 => market.resolved

\* The inductive invariant behind the properties of the pool's life: what is on
\* the books, and what happened before it came there.
Lifecycle == Accounting /\ BlankUntilInit /\ ReturnsFollowResolution

\* A position is a record that a deposit has initialized.
RecordsAreOpen == \A u \in Users : deposits[u].lp_amount > 0 => deposits[u].is_initialized

\* The inductive invariant behind who holds what.
Positions == Lifecycle /\ RecordsMatchSupply /\ RecordsAreOpen

-----------------------------------------------------------------------------
(* Action properties *)

\* No instruction but a flush lowers the value behind one LP token: deposits and
\* withdrawals round in the pool's favour, fees and returned insurance only add
\* (math.rs 40-48, 73-80).
SharePriceNeverFalls ==
  [][ /\ pool.total_lp_supply > 0 /\ pool'.total_lp_supply > 0
      /\ pool'.total_flushed = pool.total_flushed
      => NetValue(pool') * pool.total_lp_supply
           >= NetValue(pool) * pool'.total_lp_supply ]_vars

\* A resolved pool stays resolved and takes no deposit again, although the flag
\* shares its byte with the high-water-mark switch (state.rs 220-241,
\* processor.rs 454-457).
ResolutionIsFinal ==
  [][ is_resolved(pool) => /\ is_resolved(pool')
                           /\ pool'.total_deposited = pool.total_deposited
                           /\ pool'.total_lp_supply <= pool.total_lp_supply ]_vars

\* A deposit leaves a capped pool at or below its cap (processor.rs 465-477).  The
\* cap is tested against unwrap_or(value, 0), so the one state without holders in
\* which the value may be unknown (see EmptyPoolIsPriced) is left out: there a
\* deposit passes whatever insurance has come back.
CapHolds ==
  [][ /\ pool'.total_deposited > pool.total_deposited /\ pool.deposit_cap > 0
      /\ \/ pool.pool_mode = TradingLp
         \/ ~market.resolved
         \/ total_pool_value(pool) # None
      => NetValue(pool') <= pool.deposit_cap ]_vars

\* Once the insurance authority is the vault authority PDA the program never
\* hands it to another key, while the market trades and collateral is out or
\* after resolution; and from a resolved market insurance leaves the fund only
\* into the vault and the books at the same time (processor.rs 238-257,
\* 1216-1236).
InsuranceStaysInCustody ==
  [][ market.insurance_authority = VaultAuth
      => /\ market'.insurance_authority = VaultAuth
         /\ market.resolved /\ market'.insurance < market.insurance
              => /\ vault' - vault = market.insurance - market'.insurance
                 /\ NetValue(pool') - NetValue(pool) = vault' - vault ]_vars
=============================================================================
