-------------------------- MODULE StakeVault_proofs --------------------------
(***************************************************************************)
(* Proofs about the stake program for every number of users, every width   *)
(* of the integers and every set of inputs.  First what each instruction   *)
(* does to the types and to the books; then the inductive invariant        *)
(* Accounting and what follows from it; who holds what; and that the       *)
(* program implements the share vault, each instruction being one step of  *)
(* ShareVault or none.                                                     *)
(***************************************************************************)
EXTENDS StakeVaultRefinement, StakeMath_proofs

-----------------------------------------------------------------------------
(* StakePool methods *)

\* When the code can compute the pool's value it is the exact net value, and
\* everything it adds up fits a u64.
LEMMA PoolValueExact ==
  ASSUME NEW p \in StakePoolType
  PROVE  /\ NetValue(p) \in Int
         /\ total_pool_value(p) \in OptU64
         /\ total_pool_value(p) # None =>
              /\ total_pool_value(p) = NetValue(p)
              /\ p.total_deposited + p.total_returned \in U64
              /\ p.pool_mode = TradingLp =>
                   p.total_deposited + p.total_returned + p.total_fees_earned \in U64
<1>. DEFINE booked == IF p.pool_mode = TradingLp THEN p.total_fees_earned ELSE 0
            plus == p.total_deposited + p.total_returned + booked
            minus == p.total_withdrawn + p.total_flushed
<1>1. /\ p.total_deposited \in Nat /\ p.total_returned \in Nat
      /\ p.total_withdrawn \in Nat /\ p.total_flushed \in Nat
      /\ p.total_fees_earned \in Nat
      /\ p.total_deposited \in U64 /\ p.total_returned \in U64
  BY MaxU64Assumption DEF StakePoolType, U64
<1>2. booked \in Nat BY <1>1
<1>3. NetValue(p) = plus - minus BY <1>1, <1>2 DEF NetValue
<1>4. total_pool_value(p) = IF checked(plus) = None \/ checked(minus) = None
                            THEN None ELSE checked(checked(plus) - checked(minus))
  BY DEF total_pool_value
<1>5. plus \in Nat /\ minus \in Nat BY <1>1, <1>2
<1>6. p.pool_mode = TradingLp => plus = p.total_deposited + p.total_returned + p.total_fees_earned
  OBVIOUS
<1>7. p.total_deposited + p.total_returned <= plus BY <1>1, <1>2
<1>. HIDE DEF booked, plus, minus
<1>8. NetValue(p) \in Int BY <1>3, <1>5
<1>9. CASE checked(plus) = None \/ checked(minus) = None
  BY <1>4, <1>8, <1>9 DEF OptU64
<1>10. CASE checked(plus) # None /\ checked(minus) # None
  <2>1. checked(plus) = plus /\ checked(minus) = minus /\ plus \in U64
    BY <1>5, <1>10, CheckedType
  <2>2. total_pool_value(p) = checked(plus - minus) BY <1>4, <1>10, <2>1
  <2>3. plus - minus \in Int BY <1>5
  <2>4. p.total_deposited + p.total_returned \in U64
    BY <1>1, <1>7, <2>1, MaxU64Assumption DEF U64
  <2> QED BY <1>3, <1>6, <1>8, <2>1, <2>2, <2>3, <2>4, CheckedType
<1> QED BY <1>9, <1>10

\* The code can compute the value of a pool whose inflows equal its outflows, if
\* their common sum fits a u64 (state.rs 319-341).
LEMMA ValueOfBalanced ==
  ASSUME NEW p \in StakePoolType, NEW x \in U64,
         x = p.total_withdrawn + p.total_flushed,
         x = p.total_deposited + p.total_returned
               + (IF p.pool_mode = TradingLp THEN p.total_fees_earned ELSE 0)
  PROVE  total_pool_value(p) # None
<1>1. x \in Int /\ x - x = 0 /\ 0 \in U64 BY MaxU64Assumption DEF U64
<1>2. checked(x) = x /\ checked(x) # None /\ checked(0) # None BY <1>1, CheckedType
<1> QED BY <1>1, <1>2 DEF total_pool_value

\* The accounting fields that neither a deposit nor a withdrawal changes.
Kept(p, q) ==
  /\ q.pool_mode = p.pool_mode
  /\ q.total_returned = p.total_returned
  /\ q.total_flushed = p.total_flushed
  /\ q.total_fees_earned = p.total_fees_earned
  /\ q.pre_supply_vault_offset = p.pre_supply_vault_offset

\* The flags, the handoff mark and the high-water-mark floor.
SameStatus(p, q) ==
  /\ q.is_initialized = p.is_initialized
  /\ q.admin_transferred = p.admin_transferred
  /\ q.flags = p.flags
  /\ q.hwm_floor_bps = p.hwm_floor_bps

\* q has the lifetime totals and the LP supply given.
Totals(q, deposited, withdrawn, supply) ==
  /\ q.total_deposited = deposited
  /\ q.total_withdrawn = withdrawn
  /\ q.total_lp_supply = supply

\* A refresh of the high-water mark keeps the type and touches nothing else.
LEMMA RefreshHwm ==
  ASSUME NEW p \in StakePoolType, NEW e \in U64, NEW tvl \in U64
  PROVE  /\ refresh_hwm(p, e, tvl) \in StakePoolType
         /\ Kept(p, refresh_hwm(p, e, tvl)) /\ SameStatus(p, refresh_hwm(p, e, tvl))
         /\ Totals(refresh_hwm(p, e, tvl), p.total_deposited, p.total_withdrawn,
                   p.total_lp_supply)
<1>1. CASE e # p.hwm_last_epoch
  BY <1>1 DEF refresh_hwm, StakePoolType, Kept, SameStatus, Totals
<1>2. CASE e = p.hwm_last_epoch
  <2>1. greater(p.epoch_high_water_tvl, tvl) \in U64 BY DEF greater, StakePoolType
  <2> QED BY <1>2, <2>1 DEF refresh_hwm, StakePoolType, Kept, SameStatus, Totals
<1> QED BY <1>1, <1>2

-----------------------------------------------------------------------------
(* Clock and high-water mark *)

\* The clock and the epoch derived from it are u64 values.
LEMMA EpochType ==
  ASSUME TypeOK
  PROVE  epoch \in U64 /\ slot \in U64
<1>1. slot \in Nat /\ slot <= MaxSlot /\ MaxSlot \in U64 /\ SlotsPerEpoch \in Nat \ {0}
  BY InputsAssumption DEF TypeOK, U64
<1>2. slot <= slot * SlotsPerEpoch BY <1>1
<1>3. epoch \in Nat /\ epoch <= slot BY <1>1, <1>2, DivFloor, DivUpper DEF epoch
<1> QED BY <1>1, <1>3, MaxU64Assumption DEF U64

\* The value that deposits and the high-water mark use is a u64 (state.rs 372).
LEMMA PoolValueOrZero ==
  ASSUME NEW p \in StakePoolType
  PROVE  unwrap_or(total_pool_value(p), 0) \in U64
  BY PoolValueExact, MaxU64Assumption DEF unwrap_or, OptU64, U64

\* Both uses of the high-water mark leave the books as they are.
LEMMA RefreshKeepsBooks ==
  ASSUME NEW p \in StakePoolType, TypeOK
  PROVE  /\ deposit_refresh(p, epoch) \in StakePoolType
         /\ Kept(p, deposit_refresh(p, epoch)) /\ SameStatus(p, deposit_refresh(p, epoch))
         /\ Totals(deposit_refresh(p, epoch), p.total_deposited, p.total_withdrawn,
                   p.total_lp_supply)
         /\ withdraw_hwm(p, epoch) = deposit_refresh(p, epoch)
<1>1. withdraw_hwm(p, epoch) = deposit_refresh(p, epoch)
  BY DEF withdraw_hwm, deposit_refresh
<1>2. CASE ~hwm_enabled(p) BY <1>1, <1>2 DEF deposit_refresh, Kept, SameStatus, Totals
<1>3. CASE hwm_enabled(p)
  <2>1. epoch \in U64 /\ unwrap_or(total_pool_value(p), 0) \in U64
    BY EpochType, PoolValueOrZero
  <2>2. deposit_refresh(p, epoch)
          = refresh_hwm(p, epoch, unwrap_or(total_pool_value(p), 0))
    BY <1>3 DEF deposit_refresh
  <2> QED BY <1>1, <2>1, <2>2, RefreshHwm
<1> QED BY <1>2, <1>3

-----------------------------------------------------------------------------
(* What each instruction does *)

\* A deposit keeps the types, adds the amount to the vault and to total_deposited
\* and the minted LP to the supply, and leaves the rest of the books alone
\* (processor.rs 406-620).
LEMMA DepositEffect ==
  ASSUME TypeOK, NEW user \in Users, NEW amount \in Amounts, Deposit(user, amount)
  PROVE  LET lp == pool_calc_lp_for_deposit(pool, amount)
         IN  /\ TypeOK'
             /\ amount \in U64 /\ amount > 0 /\ lp \in U64 /\ lp > 0
             /\ Kept(pool, pool') /\ SameStatus(pool, pool')
             /\ Totals(pool', pool.total_deposited + amount, pool.total_withdrawn,
                       pool.total_lp_supply + lp)
             /\ vault' = vault + amount
             /\ UNCHANGED market
             /\ ~is_resolved(pool)
<1>. DEFINE lp == pool_calc_lp_for_deposit(pool, amount)
            p1 == [pool EXCEPT !.total_deposited = @ + amount, !.total_lp_supply = @ + lp]
<1>1. amount \in U64 /\ amount > 0 BY InputsAssumption DEF Deposit, deposit_accepted
<1>2. pool \in StakePoolType BY DEF TypeOK
<1>3. pool.total_lp_supply \in U64 /\ unwrap_or(total_pool_value(pool), 0) \in U64
  BY <1>2, PoolValueOrZero DEF StakePoolType
<1>4. lp \in OptU64 BY <1>1, <1>3, LpType DEF pool_calc_lp_for_deposit
<1>5. lp \in U64 /\ lp > 0 BY <1>4 DEF Deposit, deposit_accepted, OptU64
<1>7. pool' = deposit_refresh(p1, epoch) BY DEF Deposit
<1>. HIDE DEF lp
<1>6. p1 \in StakePoolType
  <2>1. pool.total_deposited + amount \in U64 /\ pool.total_lp_supply + lp \in U64
    BY DEF Deposit, deposit_accepted, lp
  <2> QED BY <1>2, <2>1 DEF StakePoolType
<1>8. /\ pool' \in StakePoolType /\ Kept(p1, pool') /\ SameStatus(p1, pool')
      /\ Totals(pool', p1.total_deposited, p1.total_withdrawn, p1.total_lp_supply)
  BY <1>6, <1>7, RefreshKeepsBooks
<1>9. /\ Kept(pool, pool') /\ SameStatus(pool, pool')
      /\ Totals(pool', pool.total_deposited + amount, pool.total_withdrawn,
                pool.total_lp_supply + lp)
  BY <1>2, <1>8 DEF Kept, SameStatus, Totals, StakePoolType
<1>10. deposits' \in [Users -> StakeDepositType]
  <2>1. deposits \in [Users -> StakeDepositType] BY DEF TypeOK
  <2>2. deposits[user].lp_amount \in U64 /\ deposits[user].last_deposit_slot \in U64
    BY <2>1 DEF StakeDepositType
  <2>3. deposit_record(deposits[user], lp, pool.cooldown_slots) \in StakeDepositType
    <3>1. pool.cooldown_slots \in U64 BY <1>2 DEF StakePoolType
    <3>2. weighted_deposit_slot(deposits[user].lp_amount, deposits[user].last_deposit_slot,
                                lp, slot, pool.cooldown_slots) \in U64
      BY <1>5, <2>2, <3>1, EpochType, WeightedSlotType
    <3>3. deposits[user].lp_amount + lp \in U64 BY DEF Deposit, deposit_accepted, lp
    <3> QED BY <3>2, <3>3 DEF deposit_record, StakeDepositType
  <2>4. deposits' = [deposits EXCEPT ![user] =
                       deposit_record(deposits[user], lp, pool.cooldown_slots)]
    BY DEF Deposit, lp
  <2> QED BY <2>1, <2>3, <2>4
<1>11. TokenTypeOK'
  BY <1>5 DEF Deposit, TypeOK, TokenTypeOK, transfer_to_vault, vault_takes, mint_to,
              mintable, lp
<1>12. TypeOK' BY <1>8, <1>10, <1>11 DEF TypeOK, Deposit
<1> QED BY <1>1, <1>5, <1>8, <1>9, <1>12
        DEF Deposit, deposit_accepted, transfer_to_vault, lp

\* The first holder buys LP tokens 1:1; every other one gets the share of the supply
\* that the amount is of the value, rounded down, and the value is known (state.rs
\* 371-374, math.rs 20-49).
LEMMA DepositPrice ==
  ASSUME TypeOK, NEW user \in Users, NEW amount \in Amounts, Deposit(user, amount)
  PROVE  LET lp == pool_calc_lp_for_deposit(pool, amount)
             v  == total_pool_value(pool)
             s  == pool.total_lp_supply
         IN  /\ s = 0 => lp = amount
             /\ s > 0 => v # None /\ v > 0 /\ lp * v <= amount * s /\ amount * s < (lp + 1) * v
<1>. DEFINE lp == pool_calc_lp_for_deposit(pool, amount)
            known == unwrap_or(total_pool_value(pool), 0)
<1>1. amount \in U64 /\ lp # None BY DepositEffect, MaxU64Assumption DEF U64, None
<1>2. pool.total_lp_supply \in U64 /\ known \in U64
  BY PoolValueOrZero DEF TypeOK, StakePoolType
<1>3. lp = calc_lp_for_deposit(pool.total_lp_supply, known, amount)
  BY DEF pool_calc_lp_for_deposit
<1>. HIDE DEF lp, known
<1>4. pool.total_lp_supply = 0 => lp = amount BY <1>1, <1>2, <1>3, LpFirstDeposit
<1>5. pool.total_lp_supply > 0 =>
        /\ known > 0
        /\ lp * known <= amount * pool.total_lp_supply
        /\ amount * pool.total_lp_supply < (lp + 1) * known
  BY <1>1, <1>2, <1>3, LpIsShare
<1>6. known > 0 => total_pool_value(pool) # None /\ known = total_pool_value(pool)
  BY DEF known, unwrap_or
<1> QED BY <1>4, <1>5, <1>6 DEF lp

\* A withdrawal keeps the types, takes the collateral from the vault and adds it
\* to total_withdrawn, takes the burned LP from the supply, and leaves the rest of
\* the books alone (processor.rs 626-808).
LEMMA WithdrawEffect ==
  ASSUME TypeOK, NEW user \in Users, NEW lp \in U64, Withdraw(user, lp)
  PROVE  LET collateral == pool_calc_collateral_for_withdraw(pool, lp)
         IN  /\ TypeOK'
             /\ lp <= pool.total_lp_supply /\ collateral # None
             /\ collateral <= vault
             /\ Kept(pool, pool') /\ SameStatus(pool, pool')
             /\ Totals(pool', pool.total_deposited, pool.total_withdrawn + collateral,
                       pool.total_lp_supply - lp)
             /\ vault' = vault - collateral
             /\ UNCHANGED market
<1>. DEFINE collateral == pool_calc_collateral_for_withdraw(pool, lp)
            refreshed == withdraw_hwm(pool, epoch)
<1>1. pool \in StakePoolType /\ pool.total_lp_supply \in U64 BY DEF TypeOK, StakePoolType
<1>2. lp <= pool.total_lp_supply /\ collateral # None /\ collateral > 0
  BY DEF Withdraw, withdraw_accepted
<1>3. total_pool_value(pool) \in U64
  BY <1>1, <1>2, PoolValueExact DEF pool_calc_collateral_for_withdraw, OptU64
<1>4. collateral = calc_collateral_for_withdraw(pool.total_lp_supply, total_pool_value(pool), lp)
  BY <1>2 DEF pool_calc_collateral_for_withdraw
<1>5. collateral \in Nat
  BY <1>1, <1>2, <1>3, <1>4, CollateralIsShare, MaxU64Assumption DEF U64
<1>6. /\ refreshed \in StakePoolType /\ Kept(pool, refreshed) /\ SameStatus(pool, refreshed)
      /\ Totals(refreshed, pool.total_deposited, pool.total_withdrawn,
                pool.total_lp_supply)
  BY <1>1, RefreshKeepsBooks
<1>. HIDE DEF refreshed, collateral
<1>7. refreshed.total_withdrawn = pool.total_withdrawn
      /\ refreshed.total_lp_supply = pool.total_lp_supply
  BY <1>6 DEF Totals
<1>8. pool' = [refreshed EXCEPT !.total_withdrawn = @ + collateral,
                                !.total_lp_supply = @ - lp]
  BY DEF Withdraw, refreshed, collateral
<1>9. pool.total_withdrawn + collateral \in U64 BY DEF Withdraw, withdraw_accepted, collateral
<1>10. pool.total_lp_supply - lp \in U64
  BY <1>1, <1>2, MaxU64Assumption DEF U64
<1>11. pool' \in StakePoolType BY <1>6, <1>7, <1>8, <1>9, <1>10 DEF StakePoolType
<1>12. /\ Kept(pool, pool') /\ SameStatus(pool, pool')
       /\ Totals(pool', pool.total_deposited, pool.total_withdrawn + collateral,
                 pool.total_lp_supply - lp)
  BY <1>6, <1>8 DEF Kept, SameStatus, Totals, StakePoolType
<1>13. deposits' \in [Users -> StakeDepositType]
  <2>1. lp <= deposits[user].lp_amount /\ deposits \in [Users -> StakeDepositType]
    BY DEF Withdraw, withdraw_accepted, TypeOK
  <2>2. deposits[user] \in StakeDepositType /\ deposits[user].lp_amount \in U64
    BY <2>1 DEF StakeDepositType
  <2>3. deposits[user].lp_amount - lp \in U64 BY <2>1, <2>2, MaxU64Assumption DEF U64
  <2>4. [deposits[user] EXCEPT !.lp_amount = @ - lp] \in StakeDepositType
    BY <2>2, <2>3 DEF StakeDepositType
  <2>5. deposits' = [deposits EXCEPT ![user] = [deposits[user] EXCEPT !.lp_amount = @ - lp]]
    BY <2>1 DEF Withdraw
  <2> QED BY <2>1, <2>4, <2>5
<1>14. TokenTypeOK'
  BY <1>5, MaxU64Assumption
     DEF Withdraw, TypeOK, TokenTypeOK, transfer_from_vault, vault_has, burn, burnable,
         collateral, U64
<1>15. TypeOK' BY <1>11, <1>13, <1>14 DEF TypeOK, Withdraw
<1>16. collateral <= vault /\ vault' = vault - collateral /\ UNCHANGED market
  BY DEF Withdraw, transfer_from_vault, vault_has, collateral
<1> QED BY <1>2, <1>6, <1>12, <1>15, <1>16 DEF collateral

-----------------------------------------------------------------------------
(* Type correctness *)

\* A pool of the given mode with nothing on its books.
FreshPool(p, mode) ==
  /\ p \in StakePoolType
  /\ p.pool_mode = mode /\ p.flags = {}
  /\ p.total_returned = 0 /\ p.total_flushed = 0
  /\ p.total_fees_earned = 0 /\ p.pre_supply_vault_offset = 0
  /\ p.epoch_high_water_tvl = 0 /\ p.hwm_last_epoch = 0
  /\ Totals(p, 0, 0, 0)

\* What InitPool and InitTradingPool write is a fresh pool (processor.rs 372-393,
\* 1397).
LEMMA InitPoolState ==
  ASSUME NEW admin \in AllKeys, NEW cooldown \in U64, NEW cap \in U64,
         NEW mode \in {InsuranceLp, TradingLp}
  PROVE  LET q == init_pool_state(admin, cooldown, cap)
         IN  /\ FreshPool(ZeroedPool, InsuranceLp)
             /\ FreshPool(q, InsuranceLp)
             /\ FreshPool([q EXCEPT !.pool_mode = mode], mode)
             /\ FreshPool([q EXCEPT !.admin_transferred = FALSE, !.pool_mode = mode], mode)
<1>. DEFINE q == init_pool_state(admin, cooldown, cap)
<1>1. 0 \in U64 BY MaxU64Assumption DEF U64
<1>2. FreshPool(ZeroedPool, InsuranceLp)
  BY <1>1 DEF FreshPool, Totals, ZeroedPool, StakePoolType, AllKeys, BpsDenominator, InsuranceLp
<1>3. FreshPool(q, InsuranceLp)
  BY <1>2 DEF init_pool_state, FreshPool, Totals, StakePoolType
<1>. HIDE DEF q
<1>4. FreshPool([q EXCEPT !.pool_mode = mode], mode)
  BY <1>3 DEF FreshPool, Totals, StakePoolType
<1>5. FreshPool([q EXCEPT !.admin_transferred = FALSE, !.pool_mode = mode], mode)
  BY <1>3 DEF FreshPool, Totals, StakePoolType
<1> QED BY <1>2, <1>3, <1>4, <1>5 DEF q

\* The initial states are well typed, with empty books and no handoff.
LEMMA InitStates ==
  ASSUME Init
  PROVE  /\ TypeOK /\ vault = 0 /\ ~market.resolved
         /\ \E mode \in {InsuranceLp, TradingLp} : FreshPool(pool, mode)
         /\ ~pool.admin_transferred
<1>1. 0 \in U64 BY MaxU64Assumption DEF U64
<1>2. PICK admin \in Admins, legacy \in LegacyPools, mode \in Modes,
           cooldown \in Cooldowns, cap \in Caps :
        /\ market = [admin |-> admin, insurance_authority |-> admin,
                     oracle_authority |-> admin, resolved |-> FALSE, insurance |-> 0]
        /\ pool = IF legacy
                  THEN [init_pool_state(admin, cooldown, cap)
                          EXCEPT !.admin_transferred = FALSE, !.pool_mode = mode]
                  ELSE ZeroedPool
  BY DEF Init
<1>3. admin \in AllKeys /\ mode \in {InsuranceLp, TradingLp} /\ cooldown \in U64 /\ cap \in U64
  BY InputsAssumption DEF AllKeys
<1>4. FreshPool(pool, mode) \/ FreshPool(pool, InsuranceLp)
  BY <1>2, <1>3, InitPoolState
<1>5. ~pool.admin_transferred
  <2>1. init_pool_state(admin, cooldown, cap) \in StakePoolType
    BY <1>3, InitPoolState DEF FreshPool
  <2> QED BY <1>2, <2>1 DEF ZeroedPool, StakePoolType
<1>6. market \in MarketType /\ ~market.resolved BY <1>1, <1>2, <1>3 DEF MarketType
<1>7. deposits \in [Users -> StakeDepositType]
  BY <1>1 DEF Init, ZeroedDeposit, StakeDepositType
<1>8. TokenTypeOK /\ vault = 0 BY <1>1 DEF Init, TokenInit, TokenTypeOK
<1>9. slot \in 0 .. MaxSlot
  BY InputsAssumption, MaxU64Assumption DEF Init, U64
<1>10. pool \in StakePoolType BY <1>4 DEF FreshPool
<1> QED BY <1>3, <1>4, <1>5, <1>6, <1>7, <1>8, <1>9, <1>10 DEF TypeOK

\* Initialization leaves a fresh pool and the pool PDA as market admin
\* (processor.rs 333-393).
LEMMA InitPoolEffect ==
  ASSUME TypeOK, NEW signer \in Accounts, NEW cooldown \in Cooldowns, NEW cap \in Caps,
         InitPool(signer, cooldown, cap) \/ InitTradingPool(signer, cooldown, cap)
  PROVE  /\ TypeOK' /\ UNCHANGED vault
         /\ \E mode \in {InsuranceLp, TradingLp} : FreshPool(pool', mode)
         /\ ~pool.is_initialized /\ pool'.is_initialized
         /\ UNCHANGED deposits
         /\ market'.admin = PoolPda /\ market'.resolved = market.resolved
<1>1. cooldown \in U64 /\ cap \in U64 /\ signer \in AllKeys /\ PoolPda \in AllKeys
  BY InputsAssumption DEF AllKeys
<1>2. FreshPool(pool', InsuranceLp) \/ FreshPool(pool', TradingLp)
  <2>1. FreshPool(init_pool_state(signer, cooldown, cap), InsuranceLp)
    BY <1>1, InitPoolState
  <2>2. FreshPool([init_pool_state(signer, cooldown, cap) EXCEPT !.pool_mode = TradingLp],
                  TradingLp)
    BY <1>1, InitPoolState
  <2>3. CASE InitPool(signer, cooldown, cap) BY <2>1, <2>3, Zenon DEF InitPool
  <2>4. CASE InitTradingPool(signer, cooldown, cap) BY <2>2, <2>4, Zenon DEF InitTradingPool
  <2> QED BY <2>3, <2>4
<1>3. market' \in MarketType /\ market'.admin = PoolPda /\ market'.resolved = market.resolved
  BY <1>1 DEF InitPool, InitTradingPool, init_handoff, update_authority, TypeOK, MarketType
<1>4. pool' \in StakePoolType BY <1>2 DEF FreshPool
<1>5. TypeOK' /\ UNCHANGED vault
  BY <1>3, <1>4 DEF InitPool, InitTradingPool, TypeOK, TokenTypeOK
<1>6. ~pool.is_initialized /\ pool'.is_initialized /\ UNCHANGED deposits
  BY DEF InitPool, InitTradingPool, init_pool_state, ZeroedPool
<1> QED BY <1>2, <1>3, <1>5, <1>6

\* Flushes and returns keep the types (processor.rs 814-924, 1165-1243).
LEMMA InsuranceType ==
  ASSUME TypeOK, NEW signer \in Accounts, NEW amount \in Amounts
  PROVE  /\ FlushToInsurance(signer, amount) => TypeOK'
         /\ \A dest : AdminWithdrawInsurance(signer, amount, dest) => TypeOK'
<1>1. amount \in U64 BY InputsAssumption
<1>2. ASSUME FlushToInsurance(signer, amount) PROVE TypeOK'
  <2>1. pool' \in StakePoolType BY <1>2 DEF FlushToInsurance, TypeOK, StakePoolType
  <2>2. market' \in MarketType
    BY <1>2 DEF FlushToInsurance, top_up_insurance, TypeOK, MarketType
  <2>3. TokenTypeOK'
    BY <1>1, <1>2, MaxU64Assumption
       DEF FlushToInsurance, transfer_from_vault, vault_has, TypeOK, TokenTypeOK, U64
  <2> QED BY <1>2, <2>1, <2>2, <2>3 DEF FlushToInsurance, TypeOK
<1>3. ASSUME NEW dest, AdminWithdrawInsurance(signer, amount, dest) PROVE TypeOK'
  <2>1. pool' \in StakePoolType BY <1>3 DEF AdminWithdrawInsurance, TypeOK, StakePoolType
  <2>2. market.insurance - amount \in U64
    BY <1>1, <1>3, MaxU64Assumption
       DEF AdminWithdrawInsurance, withdraw_insurance, TypeOK, MarketType, U64
  <2>3. market' \in MarketType
    BY <1>3, <2>2 DEF AdminWithdrawInsurance, withdraw_insurance, TypeOK, MarketType
  <2>4. TokenTypeOK' BY <1>3 DEF AdminWithdrawInsurance, TypeOK, TokenTypeOK
  <2> QED BY <1>3, <2>1, <2>3, <2>4 DEF AdminWithdrawInsurance, TypeOK
<1> QED BY <1>2, <1>3

\* Configuration keeps the types (processor.rs 930-964, 1407-1455).
LEMMA ConfigType ==
  ASSUME TypeOK, NEW signer \in Accounts
  PROVE  /\ \A cooldown \in Cooldowns \cup {None}, cap \in Caps \cup {None} :
              UpdateConfig(signer, cooldown, cap) => TypeOK'
         /\ \A enabled \in BOOLEAN, bps \in HwmBps :
              AdminSetHwmConfig(signer, enabled, bps) => TypeOK'
<1>1. ASSUME NEW cooldown \in Cooldowns \cup {None}, NEW cap \in Caps \cup {None},
             UpdateConfig(signer, cooldown, cap)
      PROVE  TypeOK'
  <2>1. /\ unwrap_or(cooldown, pool.cooldown_slots) \in U64
        /\ unwrap_or(cap, pool.deposit_cap) \in U64
    BY InputsAssumption DEF TypeOK, StakePoolType, unwrap_or
  <2>2. pool' \in StakePoolType BY <1>1, <2>1 DEF UpdateConfig, TypeOK, StakePoolType
  <2> QED BY <1>1, <2>2 DEF UpdateConfig, TypeOK, TokenTypeOK
<1>2. ASSUME NEW enabled \in BOOLEAN, NEW bps \in HwmBps,
             AdminSetHwmConfig(signer, enabled, bps)
      PROVE  TypeOK'
  <2>1. pool \in StakePoolType BY DEF TypeOK
  <2>2. enabled => bps \in 0 .. BpsDenominator
    BY <1>2 DEF AdminSetHwmConfig, valid_hwm_floor, BpsDenominator
  <2>3. set_hwm_enabled(pool, enabled) \in StakePoolType
    BY <2>1 DEF set_hwm_enabled, StakePoolType, Flags
  <2>4. pool' \in StakePoolType
    BY <1>2, <2>2, <2>3 DEF AdminSetHwmConfig, StakePoolType
  <2> QED BY <1>2, <2>4 DEF AdminSetHwmConfig, TypeOK, TokenTypeOK
<1> QED BY <1>1, <1>2

\* The admin instructions forwarded to the wrapper keep the types (processor.rs
\* 970-1079, 1137-1159, 1249-1297).
LEMMA ForwardedType ==
  ASSUME TypeOK, NEW signer \in Accounts
  PROVE  /\ TransferAdmin(signer) => TypeOK'
         /\ \A key \in OracleKeys : AdminSetOracleAuthority(signer, key) => TypeOK'
         /\ AdminResolveMarket(signer) => TypeOK'
         /\ \A key \in PolicyKeys : AdminSetInsurancePolicy(signer, key) => TypeOK'
         /\ MarketAdminResolves(signer) => TypeOK'
<1>1. pool \in StakePoolType /\ market \in MarketType /\ PoolPda \in AllKeys
  BY DEF TypeOK, AllKeys
<1>2. TransferAdmin(signer) => TypeOK'
  BY <1>1 DEF TransferAdmin, update_authority, TypeOK, TokenTypeOK, StakePoolType, MarketType
<1>3. ASSUME NEW key \in OracleKeys, AdminSetOracleAuthority(signer, key) PROVE TypeOK'
  <2>1. key \in AllKeys BY InputsAssumption DEF AllKeys
  <2> QED BY <1>1, <1>3, <2>1 DEF AdminSetOracleAuthority, update_oracle_authority, TypeOK,
                               TokenTypeOK, MarketType
<1>4. ASSUME AdminResolveMarket(signer) PROVE TypeOK'
  <2>1. pool' \in StakePoolType
    BY <1>1, <1>4 DEF AdminResolveMarket, set_resolved, StakePoolType, Flags
  <2> QED BY <1>1, <1>4, <2>1 DEF AdminResolveMarket, resolve_market, TypeOK, TokenTypeOK,
                                  MarketType
<1>5. ASSUME NEW key \in PolicyKeys, AdminSetInsurancePolicy(signer, key) PROVE TypeOK'
  <2>1. key \in AllKeys BY InputsAssumption
  <2> QED BY <1>1, <1>5, <2>1 DEF AdminSetInsurancePolicy, update_insurance_authority, TypeOK,
                               TokenTypeOK, MarketType
<1>6. MarketAdminResolves(signer) => TypeOK'
  BY <1>1 DEF MarketAdminResolves, resolve_market, TypeOK, TokenTypeOK, MarketType
<1> QED BY <1>2, <1>3, <1>4, <1>5, <1>6

\* The crank, plain transfers, the market and the clock keep the types.
LEMMA EnvironmentType ==
  ASSUME TypeOK, Environment
  PROVE  TypeOK'
<1>1. CASE AccrueFees
  <2>1. vault \in U64 /\ slot \in U64 /\ pool \in StakePoolType
    BY EpochType DEF TypeOK, TokenTypeOK
  <2>2. accrue(pool, vault) \in StakePoolType
    BY <1>1, <2>1 DEF AccrueFees, accrue, StakePoolType
  <2>3. pool' \in StakePoolType BY <1>1, <2>1, <2>2 DEF AccrueFees, StakePoolType
  <2> QED BY <1>1, <2>3 DEF AccrueFees, TypeOK, TokenTypeOK
<1>2. ASSUME NEW amount \in Donations, DirectTransfer(amount) PROVE TypeOK'
  BY <1>2 DEF DirectTransfer, transfer_to_vault, vault_takes, TypeOK, TokenTypeOK
<1>3. ASSUME NEW level \in InsuranceLevels, InsuranceMoves(level) PROVE TypeOK'
  BY <1>3, InputsAssumption DEF InsuranceMoves, insurance_moves, TypeOK, TokenTypeOK, MarketType
<1>4. CASE Tick
  BY <1>4, InputsAssumption, MaxU64Assumption DEF Tick, TypeOK, TokenTypeOK, U64
<1> QED BY <1>1, <1>2, <1>3, <1>4 DEF Environment

\* LP tokens moved or burned beside the program keep the types.
LEMMA LpMoveType ==
  ASSUME TypeOK, NEW user \in Users, NEW lp \in LpMoves
  PROVE  /\ \A to \in Users : TransferLp(user, to, lp) => TypeOK'
         /\ BurnLp(user, lp) => TypeOK'
<1>1. lp \in U64 BY InputsAssumption
<1>2. ASSUME NEW to \in Users, TransferLp(user, to, lp) PROVE TypeOK'
  <2>1. held' \in [Users -> U64]
    BY <1>1, <1>2, MaxU64Assumption DEF TransferLp, transfer_lp, TypeOK, TokenTypeOK, U64
  <2> QED BY <1>2, <2>1 DEF TransferLp, TypeOK, TokenTypeOK
<1>3. ASSUME BurnLp(user, lp) PROVE TypeOK'
  <2>1. held' \in [Users -> U64]
    BY <1>1, <1>3, MaxU64Assumption DEF BurnLp, burn, burnable, TypeOK, TokenTypeOK, U64
  <2> QED BY <1>3, <2>1 DEF BurnLp, TypeOK, TokenTypeOK
<1> QED BY <1>2, <1>3

\* Every step of the specification keeps the types.
LEMMA TypeStep ==
  ASSUME TypeOK, [Next]_vars
  PROVE  TypeOK'
<1>1. ASSUME NEW signer \in Accounts, AdminStep(signer) PROVE TypeOK'
  BY <1>1, InitPoolEffect, InsuranceType, ConfigType, ForwardedType DEF AdminStep
<1>2. ASSUME NEW user \in Users, UserStep(user) PROVE TypeOK'
  BY <1>2, DepositEffect, WithdrawEffect, LpMoveType DEF UserStep
<1>3. CASE Environment BY <1>3, EnvironmentType
<1>4. CASE UNCHANGED vars BY <1>4 DEF vars, TypeOK, TokenTypeOK
<1> QED BY <1>1, <1>2, <1>3, <1>4 DEF Next

\* Type correctness: every u64 field of the pool and of the depositors' records
\* stays within its width, because each handler that adds or subtracts checks the
\* result before it is stored (processor.rs 531-539, 783-800, 913-917, 1228-1236,
\* 1362-1367).
THEOREM TypeCorrect == Spec => []TypeOK
<1>1. Init => TypeOK BY InitStates
<1>2. TypeOK /\ [Next]_vars => TypeOK' BY TypeStep
<1> QED BY <1>1, <1>2, PTL DEF Spec

\* The clock does not go back.
LEMMA ClockStep ==
  ASSUME TypeOK, [Next]_vars
  PROVE  slot' >= slot
<1>1. slot \in Nat BY InputsAssumption DEF TypeOK
<1>2. slot' = slot \/ slot' = slot + 1
  BY DEF Next, vars, AdminStep, UserStep, Environment, Tick, Deposit, Withdraw, TransferLp, BurnLp,
         AccrueFees, DirectTransfer, InsuranceMoves, InitPool, InitTradingPool,
         FlushToInsurance, AdminWithdrawInsurance, UpdateConfig, AdminSetHwmConfig,
         TransferAdmin, AdminSetOracleAuthority, AdminResolveMarket, AdminSetInsurancePolicy,
         MarketAdminResolves
<1> QED BY <1>1, <1>2

-----------------------------------------------------------------------------
(* The books *)

\* The counters as integers.
LEMMA PoolFields ==
  ASSUME NEW p \in StakePoolType
  PROVE  /\ p.total_deposited \in Nat /\ p.total_returned \in Nat
         /\ p.total_withdrawn \in Nat /\ p.total_flushed \in Nat
         /\ p.total_fees_earned \in Nat /\ p.pre_supply_vault_offset \in Nat
         /\ p.total_lp_supply \in Nat /\ p.total_lp_supply \in U64
         /\ p.pool_mode \in {InsuranceLp, TradingLp}
         /\ NetValue(p) \in Int
  BY PoolValueExact, MaxU64Assumption DEF StakePoolType, U64

\* A fresh pool is worth nothing.
LEMMA FreshBooks ==
  ASSUME NEW p, NEW mode \in {InsuranceLp, TradingLp}, FreshPool(p, mode)
  PROVE  NetValue(p) = 0
  BY DEF FreshPool, Totals, NetValue

\* A step that leaves the books alone and takes nothing out of the vault.
SameBooks ==
  /\ Kept(pool, pool')
  /\ Totals(pool', pool.total_deposited, pool.total_withdrawn, pool.total_lp_supply)
  /\ vault' >= vault
  /\ market.resolved => market'.resolved

\* What SharePriceNeverFalls says of one step.
PriceKept ==
  /\ pool.total_lp_supply > 0 /\ pool'.total_lp_supply > 0
  /\ pool'.total_flushed = pool.total_flushed
  => NetValue(pool') * pool.total_lp_supply >= NetValue(pool) * pool'.total_lp_supply

\* A step with the supply unchanged and the value not lowered keeps the price.
LEMMA PriceOfGain ==
  ASSUME Accounting, TypeOK', pool'.total_lp_supply = pool.total_lp_supply,
         NetValue(pool') >= NetValue(pool)
  PROVE  PriceKept
<1>1. NetValue(pool) \in Nat /\ NetValue(pool') \in Nat /\ pool.total_lp_supply \in Nat
  BY PoolFields DEF Accounting, TypeOK, NotOverdrawn
<1>2. NetValue(pool') * pool.total_lp_supply >= NetValue(pool) * pool.total_lp_supply
  BY <1>1, GainKeepsPrice
<1> QED BY <1>2 DEF PriceKept

\* Such a step keeps the books and the price.
LEMMA QuietStep ==
  ASSUME Accounting, TypeOK', SameBooks
  PROVE  Accounting' /\ PriceKept
<1>1. NetValue(pool') = NetValue(pool) BY DEF SameBooks, Kept, Totals, NetValue
<1>2. /\ NetValue(pool) \in Int /\ pool.pre_supply_vault_offset \in Nat
      /\ vault \in Nat /\ vault' \in Nat
  BY PoolFields, MaxU64Assumption DEF Accounting, TypeOK, TokenTypeOK, U64
<1>3. Solvent' /\ NotOverdrawn'
  BY <1>1, <1>2 DEF Accounting, Solvent, NotOverdrawn, SameBooks, Kept
<1>4. EmptyTogether' BY <1>1 DEF Accounting, EmptyTogether, SameBooks, Kept, Totals
<1>5. ModesApart' BY DEF Accounting, ModesApart, SameBooks, Kept
<1>6. PriceKept BY <1>1, <1>2, PriceOfGain DEF SameBooks, Totals
<1> QED BY <1>3, <1>4, <1>5, <1>6 DEF Accounting

\* The books are right at the start.
LEMMA AccountingInit ==
  ASSUME Init
  PROVE  Accounting
<1>1. PICK mode \in {InsuranceLp, TradingLp} : FreshPool(pool, mode) BY InitStates
<1>2. NetValue(pool) = 0 BY <1>1, FreshBooks
<1>3. TypeOK /\ vault = 0 BY InitStates
<1> QED BY <1>1, <1>2, <1>3 DEF Accounting, Solvent, NotOverdrawn, EmptyTogether, ModesApart,
                                FreshPool

\* The books are right when a pool has just been initialized.
LEMMA AccountingInitPool ==
  ASSUME Accounting, NEW signer \in Accounts, NEW cooldown \in Cooldowns, NEW cap \in Caps,
         InitPool(signer, cooldown, cap) \/ InitTradingPool(signer, cooldown, cap)
  PROVE  Accounting' /\ PriceKept
<1>1. TypeOK BY DEF Accounting
<1>2. PICK mode \in {InsuranceLp, TradingLp} : FreshPool(pool', mode) BY <1>1, InitPoolEffect
<1>3. NetValue(pool') = 0 BY <1>2, FreshBooks
<1>4. TypeOK' /\ vault' \in Nat
  BY <1>1, InitPoolEffect, MaxU64Assumption DEF TypeOK, TokenTypeOK, U64
<1> QED BY <1>2, <1>3, <1>4 DEF Accounting, Solvent, NotOverdrawn, EmptyTogether, ModesApart,
                                FreshPool, PriceKept, Totals

\* A deposit raises the vault and the books by the same amount.
LEMMA AccountingDeposit ==
  ASSUME Accounting, NEW user \in Users, NEW amount \in Amounts, Deposit(user, amount)
  PROVE  Accounting' /\ PriceKept
<1>. DEFINE lp == pool_calc_lp_for_deposit(pool, amount)
<1>1. TypeOK BY DEF Accounting
<1>2. /\ TypeOK' /\ amount \in U64 /\ amount > 0 /\ lp \in U64 /\ lp > 0
      /\ Kept(pool, pool')
      /\ Totals(pool', pool.total_deposited + amount, pool.total_withdrawn,
                pool.total_lp_supply + lp)
      /\ vault' = vault + amount
  BY <1>1, DepositEffect
<1>8. pool.total_lp_supply > 0 =>
        total_pool_value(pool) # None /\ lp * total_pool_value(pool) <= amount * pool.total_lp_supply
  BY <1>1, DepositPrice
<1>. HIDE DEF lp
<1>3. /\ pool.total_deposited \in Nat /\ pool.total_returned \in Nat
      /\ pool.total_withdrawn \in Nat /\ pool.total_flushed \in Nat
      /\ pool.total_fees_earned \in Nat /\ pool.pre_supply_vault_offset \in Nat
      /\ pool.total_lp_supply \in Nat /\ NetValue(pool) \in Int
      /\ vault \in Nat /\ amount \in Nat /\ lp \in Nat
  BY <1>1, <1>2, PoolFields, MaxU64Assumption DEF TypeOK, TokenTypeOK, U64
<1>4. NetValue(pool') = NetValue(pool) + amount
  BY <1>2, <1>3 DEF Kept, Totals, NetValue
<1>5. Solvent' /\ NotOverdrawn'
  BY <1>2, <1>3, <1>4 DEF Accounting, Solvent, NotOverdrawn, Kept
<1>6. EmptyTogether' BY <1>2, <1>3 DEF EmptyTogether, Totals
<1>7. ModesApart' BY <1>2 DEF Accounting, ModesApart, Kept
<1>9. PriceKept
  <2>1. SUFFICES ASSUME pool.total_lp_supply > 0 PROVE PriceKept BY DEF PriceKept
  <2>2. total_pool_value(pool) = NetValue(pool)
    BY <1>1, <1>8, <2>1, PoolValueExact DEF TypeOK
  <2>3. NetValue(pool) \in Nat BY <1>3 DEF Accounting, NotOverdrawn
  <2>4. lp * NetValue(pool) <= amount * pool.total_lp_supply BY <1>8, <2>1, <2>2
  <2>5. (NetValue(pool) + amount) * pool.total_lp_supply
          >= NetValue(pool) * (pool.total_lp_supply + lp)
    BY <1>3, <2>3, <2>4, EntryKeepsPrice
  <2> QED BY <1>2, <1>4, <2>5 DEF PriceKept, Totals
<1> QED BY <1>2, <1>5, <1>6, <1>7, <1>9 DEF Accounting

\* A withdrawal lowers the vault and the books by the same amount, never below
\* zero, and the last one empties the books.
LEMMA AccountingWithdraw ==
  ASSUME Accounting, NEW user \in Users, NEW lp \in U64, Withdraw(user, lp)
  PROVE  Accounting' /\ PriceKept
<1>. DEFINE collateral == pool_calc_collateral_for_withdraw(pool, lp)
            supply == pool.total_lp_supply
<1>1. TypeOK BY DEF Accounting
<1>2. /\ TypeOK' /\ lp <= supply /\ collateral # None
      /\ Kept(pool, pool')
      /\ Totals(pool', pool.total_deposited, pool.total_withdrawn + collateral, supply - lp)
      /\ vault' = vault - collateral /\ UNCHANGED market
  BY <1>1, WithdrawEffect
<1>3. pool \in StakePoolType BY <1>1 DEF TypeOK
<1>4. total_pool_value(pool) # None
  BY <1>2 DEF pool_calc_collateral_for_withdraw
<1>5. total_pool_value(pool) = NetValue(pool) /\ total_pool_value(pool) \in U64
  BY <1>3, <1>4, PoolValueExact DEF OptU64
<1>6. collateral = calc_collateral_for_withdraw(supply, NetValue(pool), lp)
  BY <1>4, <1>5 DEF pool_calc_collateral_for_withdraw
<1>7. supply \in U64 BY <1>3, PoolFields
<1>8. /\ collateral \in 0 .. NetValue(pool) /\ collateral * supply <= lp * NetValue(pool)
      /\ lp = supply => collateral = NetValue(pool)
  BY <1>2, <1>5, <1>6, <1>7, CollateralIsShare
<1>. HIDE DEF collateral, supply
<1>9. /\ pool.total_deposited \in Nat /\ pool.total_returned \in Nat
      /\ pool.total_withdrawn \in Nat /\ pool.total_flushed \in Nat
      /\ pool.total_fees_earned \in Nat /\ pool.pre_supply_vault_offset \in Nat
      /\ supply \in Nat /\ lp \in Nat /\ NetValue(pool) \in Nat
      /\ vault \in Nat /\ collateral \in Nat
  BY <1>1, <1>3, <1>5, <1>7, <1>8, PoolFields, MaxU64Assumption DEF TypeOK, TokenTypeOK, U64
<1>10. NetValue(pool') = NetValue(pool) - collateral
  BY <1>2, <1>9 DEF Kept, Totals, NetValue
<1>11. Solvent' /\ NotOverdrawn'
  BY <1>2, <1>8, <1>9, <1>10 DEF Accounting, Solvent, NotOverdrawn, Kept
<1>12. EmptyTogether'
  <2>1. pool'.total_lp_supply = 0 => lp = supply BY <1>2, <1>9 DEF Totals
  <2> QED BY <1>8, <1>9, <1>10, <2>1 DEF EmptyTogether
<1>13. ModesApart' BY <1>2 DEF Accounting, ModesApart, Kept
<1>14. PriceKept
  <2>1. collateral <= NetValue(pool) BY <1>8, <1>9
  <2>2. (NetValue(pool) - collateral) * supply >= NetValue(pool) * (supply - lp)
    BY <1>2, <1>8, <1>9, <2>1, ExitKeepsPrice
  <2> QED BY <1>2, <1>10, <2>2 DEF PriceKept, Totals, supply
<1> QED BY <1>2, <1>11, <1>12, <1>13, <1>14 DEF Accounting

\* A flush takes at most the booked value out of an insurance pool.
LEMMA AccountingFlush ==
  ASSUME Accounting, NEW signer \in Accounts, NEW amount \in Amounts,
         FlushToInsurance(signer, amount)
  PROVE  Accounting' /\ PriceKept
<1>1. TypeOK /\ pool \in StakePoolType BY DEF Accounting, TypeOK
<1>2. TypeOK' BY <1>1, InsuranceType
<1>3. amount \in Nat /\ amount > 0
  BY InputsAssumption, MaxU64Assumption DEF FlushToInsurance, U64
<1>4. /\ pool.total_deposited \in Nat /\ pool.total_returned \in Nat
      /\ pool.total_withdrawn \in Nat /\ pool.total_flushed \in Nat
      /\ pool.pre_supply_vault_offset \in Nat /\ vault \in Nat
  BY <1>1, PoolFields, MaxU64Assumption DEF TypeOK, TokenTypeOK, U64
<1>5. pool.pool_mode = InsuranceLp BY DEF FlushToInsurance, validate_flush_pool_mode
<1>6. NetValue(pool) = pool.total_deposited + pool.total_returned
                         - pool.total_withdrawn - pool.total_flushed
  BY <1>4, <1>5 DEF NetValue, InsuranceLp, TradingLp
<1>7. amount <= NetValue(pool)
  <2>. DEFINE inflows == pool.total_deposited + pool.total_returned
              rest == inflows - pool.total_withdrawn - pool.total_flushed
  <2>1. inflows \in Int /\ rest \in Int BY <1>4
  <2>2. flush_ceiling(pool) # None /\ amount <= flush_ceiling(pool)
    BY DEF FlushToInsurance
  <2>. HIDE DEF inflows
  <2>3. flush_ceiling(pool) = IF checked(inflows) = None THEN None
          ELSE checked(checked(inflows) - pool.total_withdrawn - pool.total_flushed)
    BY DEF flush_ceiling, inflows
  <2>4. checked(inflows) = inflows BY <2>1, <2>2, <2>3, CheckedType
  <2>5. flush_ceiling(pool) = checked(rest) BY <2>2, <2>3, <2>4
  <2>. HIDE DEF rest
  <2>6. flush_ceiling(pool) = rest BY <2>1, <2>2, <2>5, CheckedType
  <2> QED BY <1>3, <1>4, <1>6, <2>2, <2>6 DEF rest, inflows
<1>8. pool' = [pool EXCEPT !.total_flushed = @ + amount] BY DEF FlushToInsurance
<1>9. /\ pool'.total_deposited = pool.total_deposited
      /\ pool'.total_returned = pool.total_returned
      /\ pool'.total_withdrawn = pool.total_withdrawn
      /\ pool'.total_flushed = pool.total_flushed + amount
      /\ pool'.total_fees_earned = pool.total_fees_earned
      /\ pool'.pre_supply_vault_offset = pool.pre_supply_vault_offset
      /\ pool'.total_lp_supply = pool.total_lp_supply
      /\ pool'.pool_mode = pool.pool_mode
  BY <1>1, <1>8 DEF StakePoolType
<1>10. NetValue(pool') = NetValue(pool) - amount
  BY <1>3, <1>4, <1>5, <1>6, <1>9 DEF NetValue, InsuranceLp, TradingLp
<1>11. vault' = vault - amount /\ market'.resolved = market.resolved
  BY <1>1 DEF FlushToInsurance, transfer_from_vault, top_up_insurance, TypeOK, MarketType
<1>12. NetValue(pool) \in Int BY <1>1, PoolFields
<1>13. Solvent' /\ NotOverdrawn'
  BY <1>3, <1>4, <1>7, <1>9, <1>10, <1>11, <1>12 DEF Accounting, Solvent, NotOverdrawn
<1>14. EmptyTogether'
  BY <1>3, <1>5, <1>7, <1>9, <1>11, <1>12
     DEF Accounting, EmptyTogether, InsuranceLp, TradingLp
<1>15. ModesApart' BY <1>5, <1>9 DEF Accounting, ModesApart, InsuranceLp, TradingLp
<1>16. PriceKept BY <1>3, <1>4, <1>9 DEF PriceKept
<1> QED BY <1>2, <1>13, <1>14, <1>15, <1>16 DEF Accounting

\* Returned insurance reaches the vault and the books alike.
LEMMA AccountingReturn ==
  ASSUME Accounting, NEW signer \in Accounts, NEW amount \in Amounts, NEW dest,
         AdminWithdrawInsurance(signer, amount, dest)
  PROVE  Accounting' /\ PriceKept
<1>1. TypeOK /\ pool \in StakePoolType BY DEF Accounting, TypeOK
<1>2. TypeOK' BY <1>1, InsuranceType
<1>3. amount \in Nat BY InputsAssumption, MaxU64Assumption DEF U64
<1>4. /\ pool.total_deposited \in Nat /\ pool.total_returned \in Nat
      /\ pool.total_withdrawn \in Nat /\ pool.total_flushed \in Nat
      /\ pool.pre_supply_vault_offset \in Nat /\ vault \in Nat
      /\ NetValue(pool) \in Int
  BY <1>1, PoolFields, MaxU64Assumption DEF TypeOK, TokenTypeOK, U64
<1>5. pool.pool_mode = InsuranceLp /\ dest = "pool_vault"
  BY DEF AdminWithdrawInsurance, validate_withdraw_insurance_pool_mode, validate_return_vault
<1>6. pool' = [pool EXCEPT !.total_returned = @ + amount] BY DEF AdminWithdrawInsurance
<1>7. /\ pool'.total_deposited = pool.total_deposited
      /\ pool'.total_returned = pool.total_returned + amount
      /\ pool'.total_withdrawn = pool.total_withdrawn
      /\ pool'.total_flushed = pool.total_flushed
      /\ pool'.total_fees_earned = pool.total_fees_earned
      /\ pool'.pre_supply_vault_offset = pool.pre_supply_vault_offset
      /\ pool'.total_lp_supply = pool.total_lp_supply
      /\ pool'.pool_mode = pool.pool_mode
  BY <1>1, <1>6 DEF StakePoolType
<1>8. NetValue(pool') = NetValue(pool) + amount
  BY <1>3, <1>4, <1>5, <1>7 DEF NetValue, InsuranceLp, TradingLp
<1>9. vault' = vault + amount /\ market'.resolved
  BY <1>1, <1>5 DEF AdminWithdrawInsurance, withdraw_insurance, TypeOK, MarketType
<1>10. Solvent' /\ NotOverdrawn'
  BY <1>3, <1>4, <1>7, <1>8, <1>9 DEF Accounting, Solvent, NotOverdrawn
<1>11. EmptyTogether' BY <1>5, <1>7, <1>9 DEF EmptyTogether, InsuranceLp, TradingLp
<1>12. ModesApart' BY <1>5, <1>7 DEF Accounting, ModesApart, InsuranceLp, TradingLp
<1>13. PriceKept BY <1>2, <1>3, <1>4, <1>7, <1>8, PriceOfGain
<1> QED BY <1>2, <1>10, <1>11, <1>12, <1>13 DEF Accounting

\* The crank books no more than the vault holds above the books.
LEMMA AccountingAccrue ==
  ASSUME Accounting, AccrueFees
  PROVE  Accounting' /\ PriceKept
<1>. DEFINE supply == pool.total_lp_supply
            offset == pool.pre_supply_vault_offset
<1>1. TypeOK /\ pool \in StakePoolType /\ market' = market /\ vault' = vault
  BY DEF Accounting, TypeOK, AccrueFees
<1>2. TypeOK' BY <1>1, EnvironmentType DEF Environment
<1>3. /\ pool.total_deposited \in Nat /\ pool.total_fees_earned \in Nat
      /\ pool.total_withdrawn \in Nat /\ offset \in Nat
      /\ supply \in Nat /\ vault \in Nat /\ NetValue(pool) \in Int
  BY <1>1, PoolFields, MaxU64Assumption DEF TypeOK, TokenTypeOK, U64
<1>4. /\ pool.pool_mode = TradingLp
      /\ pool.total_flushed = 0 /\ pool.total_returned = 0
  BY DEF AccrueFees, Accounting, ModesApart
<1>5. NetValue(pool) = pool.total_deposited + pool.total_fees_earned - pool.total_withdrawn
  BY <1>3, <1>4 DEF NetValue
<1>. DEFINE booked == accrue(pool, vault)
<1>6. pool' = [booked EXCEPT !.last_fee_accrual_slot = slot, !.last_vault_snapshot = vault]
  BY DEF AccrueFees
<1>7. CASE supply = 0
  <2>1. booked = [pool EXCEPT !.pre_supply_vault_offset = vault] BY <1>7 DEF accrue
  <2>. HIDE DEF booked
  <2>2. /\ pool'.total_deposited = pool.total_deposited
        /\ pool'.total_returned = pool.total_returned
        /\ pool'.total_withdrawn = pool.total_withdrawn
        /\ pool'.total_flushed = pool.total_flushed
        /\ pool'.total_fees_earned = pool.total_fees_earned
        /\ pool'.pre_supply_vault_offset = vault
        /\ pool'.pool_mode = pool.pool_mode
    BY <1>1, <1>6, <2>1 DEF StakePoolType
  <2>3. NetValue(pool') = NetValue(pool) BY <2>2 DEF NetValue
  <2>4. NetValue(pool) = 0 BY <1>4, <1>7 DEF Accounting, EmptyTogether
  <2>5. Solvent' /\ NotOverdrawn' BY <1>1, <1>3, <2>2, <2>3, <2>4 DEF Solvent, NotOverdrawn
  <2>6. EmptyTogether' BY <2>3, <2>4 DEF EmptyTogether
  <2>7. ModesApart' BY <1>4, <2>2 DEF ModesApart, InsuranceLp, TradingLp
  <2>8. PriceKept BY <1>7 DEF PriceKept
  <2> QED BY <1>2, <2>5, <2>6, <2>7, <2>8 DEF Accounting
<1>8. CASE supply # 0
  <2>. DEFINE delta == saturating_sub(vault, expected_balance(pool))
  <2>1. expected_balance(pool) = NetValue(pool) + offset
    <3>. DEFINE positives == pool.total_deposited + pool.total_fees_earned
                net == positives - pool.total_withdrawn
    <3>1. positives \in Int /\ net \in Int /\ net + offset \in Int BY <1>3
    <3>2. expected_balance(pool) # None BY <1>3, <1>8 DEF AccrueFees
    <3>3. accrual_baseline(pool) = IF checked(positives) = None THEN None
                                   ELSE checked(checked(positives) - pool.total_withdrawn)
      BY DEF accrual_baseline
    <3>. HIDE DEF positives
    <3>4. expected_balance(pool) = IF accrual_baseline(pool) = None THEN None
                                   ELSE checked(accrual_baseline(pool) + offset)
      BY DEF expected_balance
    <3>5. checked(positives) = positives /\ accrual_baseline(pool) = checked(net)
      BY <3>1, <3>2, <3>3, <3>4, CheckedType
    <3>. HIDE DEF net
    <3>6. accrual_baseline(pool) = net BY <3>1, <3>2, <3>4, <3>5, CheckedType
    <3>7. expected_balance(pool) = checked(net + offset) BY <3>2, <3>4, <3>6
    <3>8. expected_balance(pool) = net + offset BY <3>1, <3>2, <3>7, CheckedType
    <3> QED BY <1>3, <1>5, <3>8 DEF net, positives
  <2>2. booked = [pool EXCEPT !.total_fees_earned = @ + delta] BY <1>8 DEF accrue
  <2>3. delta \in Nat /\ delta + (NetValue(pool) + offset) = vault
    BY <1>3, <2>1 DEF saturating_sub, Accounting, Solvent
  <2>. HIDE DEF booked, delta
  <2>4. /\ pool'.total_deposited = pool.total_deposited
        /\ pool'.total_returned = pool.total_returned
        /\ pool'.total_withdrawn = pool.total_withdrawn
        /\ pool'.total_flushed = pool.total_flushed
        /\ pool'.total_fees_earned = pool.total_fees_earned + delta
        /\ pool'.pre_supply_vault_offset = offset
        /\ pool'.total_lp_supply = supply
        /\ pool'.pool_mode = pool.pool_mode
    BY <1>1, <1>6, <2>2 DEF StakePoolType
  <2>5. NetValue(pool') = NetValue(pool) + delta
    BY <1>3, <1>4, <1>5, <2>3, <2>4 DEF NetValue
  <2>6. Solvent' /\ NotOverdrawn'
    BY <1>1, <1>3, <2>3, <2>4, <2>5 DEF Accounting, Solvent, NotOverdrawn
  <2>7. EmptyTogether' BY <1>3, <1>8, <2>4 DEF EmptyTogether
  <2>8. ModesApart' BY <1>4, <2>4 DEF ModesApart, InsuranceLp, TradingLp
  <2>9. PriceKept BY <1>2, <1>3, <2>3, <2>4, <2>5, PriceOfGain
  <2> QED BY <1>2, <2>6, <2>7, <2>8, <2>9 DEF Accounting
<1> QED BY <1>7, <1>8

\* The crank never lowers the value.
LEMMA CrankGains ==
  ASSUME Accounting, AccrueFees
  PROVE  NetValue(pool') >= NetValue(pool)
<1>1. pool \in StakePoolType /\ pool.pool_mode = TradingLp BY DEF Accounting, TypeOK, AccrueFees
<1>. DEFINE delta == saturating_sub(vault, expected_balance(pool))
<1>2. vault \in Nat BY MaxU64Assumption DEF Accounting, TypeOK, TokenTypeOK, U64
<1>3. pool.total_lp_supply # 0 => delta \in Nat
  <2>1. accrual_baseline(pool) \in OptU64 /\ pool.pre_supply_vault_offset \in Nat
    BY <1>1, PoolFields, CheckedType, MaxU64Assumption DEF accrual_baseline, OptU64, U64
  <2>2. expected_balance(pool) \in OptU64
    BY <2>1, CheckedType, MaxU64Assumption DEF expected_balance, OptU64, U64
  <2>3. pool.total_lp_supply # 0 => expected_balance(pool) # None
    BY <1>1, PoolFields DEF AccrueFees
  <2> QED BY <1>2, <2>2, <2>3, MaxU64Assumption DEF saturating_sub, OptU64, U64
<1>. HIDE DEF delta
<1>4. /\ pool'.total_deposited = pool.total_deposited
      /\ pool'.total_withdrawn = pool.total_withdrawn
      /\ pool'.total_returned = pool.total_returned
      /\ pool'.total_flushed = pool.total_flushed
      /\ pool'.pool_mode = pool.pool_mode
      /\ pool'.total_fees_earned = IF pool.total_lp_supply = 0 THEN pool.total_fees_earned
                                   ELSE pool.total_fees_earned + delta
  BY <1>1 DEF AccrueFees, accrue, delta, StakePoolType
<1> QED BY <1>1, <1>3, <1>4, PoolFields DEF NetValue

\* The instructions that touch no counter: configuration, the admin handoff and
\* what is forwarded to the wrapper.
LEMMA ConfigKeepsBooks ==
  ASSUME TypeOK, NEW signer \in Accounts
  PROVE  /\ \A cooldown \in Cooldowns \cup {None}, cap \in Caps \cup {None} :
              UpdateConfig(signer, cooldown, cap) => TypeOK' /\ SameBooks
         /\ \A enabled \in BOOLEAN, bps \in HwmBps :
              AdminSetHwmConfig(signer, enabled, bps) => TypeOK' /\ SameBooks
         /\ TransferAdmin(signer) => TypeOK' /\ SameBooks
         /\ \A key \in OracleKeys : AdminSetOracleAuthority(signer, key) => TypeOK' /\ SameBooks
         /\ AdminResolveMarket(signer) => TypeOK' /\ SameBooks
         /\ \A key \in PolicyKeys : AdminSetInsurancePolicy(signer, key) => TypeOK' /\ SameBooks
         /\ MarketAdminResolves(signer) => TypeOK' /\ SameBooks
<1>1. TypeOK /\ pool \in StakePoolType /\ market \in MarketType /\ vault \in Nat
  BY MaxU64Assumption DEF TypeOK, TokenTypeOK, U64
<1>3. ASSUME NEW cooldown \in Cooldowns \cup {None}, NEW cap \in Caps \cup {None},
             UpdateConfig(signer, cooldown, cap)
      PROVE  TypeOK' /\ SameBooks
  <2>1. TypeOK' BY <1>1, <1>3, ConfigType
  <2>2. SameBooks BY <1>1, <1>3 DEF SameBooks, UpdateConfig, Kept, Totals, StakePoolType
  <2> QED BY <2>1, <2>2
<1>4. ASSUME NEW enabled \in BOOLEAN, NEW bps \in HwmBps,
             AdminSetHwmConfig(signer, enabled, bps)
      PROVE  TypeOK' /\ SameBooks
  <2>1. TypeOK' BY <1>1, <1>4, ConfigType
  <2>2. SameBooks
    BY <1>1, <1>4 DEF SameBooks, AdminSetHwmConfig, set_hwm_enabled, Kept, Totals, StakePoolType
  <2> QED BY <2>1, <2>2
<1>5. ASSUME TransferAdmin(signer) PROVE TypeOK' /\ SameBooks
  <2>1. TypeOK' BY <1>1, <1>5, ForwardedType
  <2>2. SameBooks
    BY <1>1, <1>5 DEF SameBooks, TransferAdmin, update_authority, Kept, Totals, StakePoolType, MarketType
  <2> QED BY <2>1, <2>2
<1>6. ASSUME NEW key \in OracleKeys, AdminSetOracleAuthority(signer, key) PROVE TypeOK' /\ SameBooks
  <2>1. TypeOK' BY <1>1, <1>6, ForwardedType
  <2>2. SameBooks
    BY <1>1, <1>6 DEF SameBooks, AdminSetOracleAuthority, update_oracle_authority, Kept, Totals, MarketType
  <2> QED BY <2>1, <2>2
<1>7. ASSUME AdminResolveMarket(signer) PROVE TypeOK' /\ SameBooks
  <2>1. TypeOK' BY <1>1, <1>7, ForwardedType
  <2>2. SameBooks
    BY <1>1, <1>7 DEF SameBooks, AdminResolveMarket, resolve_market, set_resolved, Kept, Totals,
                      StakePoolType, MarketType
  <2> QED BY <2>1, <2>2
<1>8. ASSUME NEW key \in PolicyKeys, AdminSetInsurancePolicy(signer, key) PROVE TypeOK' /\ SameBooks
  <2>1. TypeOK' BY <1>1, <1>8, ForwardedType
  <2>2. SameBooks
    BY <1>1, <1>8 DEF SameBooks, AdminSetInsurancePolicy, update_insurance_authority, Kept, Totals,
                      MarketType
  <2> QED BY <2>1, <2>2
<1>9. ASSUME MarketAdminResolves(signer) PROVE TypeOK' /\ SameBooks
  <2>1. TypeOK' BY <1>1, <1>9, ForwardedType
  <2>2. SameBooks
    BY <1>1, <1>9 DEF SameBooks, MarketAdminResolves, resolve_market, Kept, Totals, MarketType
  <2> QED BY <2>1, <2>2
<1> QED BY <1>3, <1>4, <1>5, <1>6, <1>7, <1>8, <1>9

\* What happens beside the program, the crank apart, takes nothing from the vault.
LEMMA BesideKeepsBooks ==
  ASSUME TypeOK
  PROVE  /\ \A amount \in Donations : DirectTransfer(amount) => TypeOK' /\ SameBooks
         /\ \A level \in InsuranceLevels : InsuranceMoves(level) => TypeOK' /\ SameBooks
         /\ Tick => TypeOK' /\ SameBooks
         /\ \A user, to \in Users, lp \in LpMoves : TransferLp(user, to, lp) => TypeOK' /\ SameBooks
         /\ \A user \in Users, lp \in LpMoves : BurnLp(user, lp) => TypeOK' /\ SameBooks
<1>1. TypeOK /\ market \in MarketType /\ vault \in Nat
  BY MaxU64Assumption DEF TypeOK, TokenTypeOK, U64
<1>2. ASSUME pool' = pool, vault' >= vault, market'.resolved = market.resolved
      PROVE  SameBooks
  BY <1>2 DEF SameBooks, Kept, Totals
<1>3. ASSUME NEW amount \in Donations, DirectTransfer(amount) PROVE TypeOK' /\ SameBooks
  <2>1. TypeOK' BY <1>1, <1>3, EnvironmentType DEF Environment
  <2>2. vault' >= vault
    BY <1>1, <1>3, InputsAssumption, MaxU64Assumption DEF DirectTransfer, transfer_to_vault, U64
  <2> QED BY <1>2, <1>3, <2>1, <2>2 DEF DirectTransfer
<1>4. ASSUME NEW level \in InsuranceLevels, InsuranceMoves(level) PROVE TypeOK' /\ SameBooks
  <2>1. TypeOK' BY <1>1, <1>4, EnvironmentType DEF Environment
  <2>2. market'.resolved = market.resolved
    BY <1>1, <1>4 DEF InsuranceMoves, insurance_moves, MarketType
  <2> QED BY <1>1, <1>2, <1>4, <2>1, <2>2 DEF InsuranceMoves
<1>5. ASSUME Tick PROVE TypeOK' /\ SameBooks
  <2>1. TypeOK' BY <1>1, <1>5, EnvironmentType DEF Environment
  <2> QED BY <1>1, <1>2, <1>5, <2>1 DEF Tick
<1>6. ASSUME NEW user \in Users, NEW to \in Users, NEW lp \in LpMoves,
             TransferLp(user, to, lp) \/ BurnLp(user, lp)
      PROVE  TypeOK' /\ SameBooks
  <2>1. TypeOK' BY <1>1, <1>6, LpMoveType
  <2> QED BY <1>1, <1>2, <1>6, <2>1 DEF TransferLp, BurnLp
<1> QED BY <1>3, <1>4, <1>5, <1>6

\* Every step of the specification preserves the books and the share price.
LEMMA AccountingStep ==
  ASSUME Accounting, [Next]_vars
  PROVE  Accounting' /\ PriceKept
<1>1. TypeOK /\ TypeOK' BY TypeStep DEF Accounting
<1>2. ASSUME NEW signer \in Accounts, AdminStep(signer) PROVE Accounting' /\ PriceKept
  BY <1>1, <1>2, AccountingInitPool, AccountingFlush, AccountingReturn, ConfigKeepsBooks,
     QuietStep
     DEF AdminStep
<1>3. ASSUME NEW user \in Users, UserStep(user) PROVE Accounting' /\ PriceKept
  BY <1>1, <1>3, AccountingDeposit, AccountingWithdraw, BesideKeepsBooks, QuietStep
     DEF UserStep
<1>4. CASE Environment
  BY <1>1, <1>4, AccountingAccrue, BesideKeepsBooks, QuietStep DEF Environment
<1>5. CASE UNCHANGED vars
  <2>1. vault \in Nat BY <1>1, MaxU64Assumption DEF TypeOK, TokenTypeOK, U64
  <2>2. SameBooks BY <1>5, <2>1 DEF vars, SameBooks, Kept, Totals
  <2> QED BY <1>1, <2>2, QuietStep
<1> QED BY <1>2, <1>3, <1>4, <1>5 DEF Next

\* The books are right in every reachable state, whatever the instructions, their
\* signers and amounts, the market and plain token transfers do.
THEOREM BooksAreRight == Spec => []Accounting
<1>1. Init => Accounting BY AccountingInit
<1>2. Accounting /\ [Next]_vars => Accounting' BY AccountingStep
<1> QED BY <1>1, <1>2, PTL DEF Spec

\* Solvency: the vault always holds every token the pool's counters say it is
\* worth (processor.rs 531-539, 783-791, 913-917, 1228-1236, 1344, 1362-1367).
THEOREM Solvency == Spec => []Solvent
<1>1. Accounting => Solvent BY DEF Accounting
<1> QED BY <1>1, BooksAreRight, PTL

\* No lifetime of deposits, fees, flushes, returns and withdrawals overdraws the
\* books: the final subtraction of total_pool_value never underflows (state.rs
\* 337-340).
THEOREM NeverOverdrawn == Spec => []NotOverdrawn
<1>1. Accounting => NotOverdrawn BY DEF Accounting
<1> QED BY <1>1, BooksAreRight, PTL

\* The last LP token takes the last of the value with it, so that an empty pool
\* can be opened again (math.rs 28-32, processor.rs 1336-1348).
THEOREM NoOrphanedValue == Spec => []EmptyTogether
<1>1. Accounting => EmptyTogether BY DEF Accounting
<1> QED BY <1>1, BooksAreRight, PTL

\* No instruction but a flush, and nothing beside the program, lowers the value
\* behind an LP token (math.rs 40-48, 73-80; processor.rs 1228-1236, 1362-1367).
THEOREM PriceNeverFalls == Spec => SharePriceNeverFalls
<1>1. Accounting /\ [Next]_vars =>
        [ /\ pool.total_lp_supply > 0 /\ pool'.total_lp_supply > 0
          /\ pool'.total_flushed = pool.total_flushed
          => NetValue(pool') * pool.total_lp_supply
               >= NetValue(pool) * pool'.total_lp_supply ]_vars
  BY AccountingStep DEF PriceKept
<1> QED BY <1>1, BooksAreRight, PTL DEF Spec, SharePriceNeverFalls

-----------------------------------------------------------------------------
(* The life of a pool *)

\* What a step may do to the pool's status: nothing is written before InitPool, a
\* handoff is marked only with the market's admin handed over, resolution stays
\* (processor.rs 333-393, 970-1079, 1137-1159; state.rs 220-241).
StatusKept ==
  /\ pool' = pool \/ pool'.is_initialized
  /\ pool'.admin_transferred => pool.admin_transferred \/ market'.admin = PoolPda
  /\ market'.admin = market.admin \/ market'.admin = PoolPda
  /\ pool.is_initialized /\ is_resolved(pool) => is_resolved(pool')
  /\ market.resolved => market'.resolved

\* Admin instructions keep the status.
LEMMA AdminStatus ==
  ASSUME TypeOK, NEW signer \in Accounts, AdminStep(signer)
  PROVE  StatusKept
<1>1. pool \in StakePoolType /\ market \in MarketType BY DEF TypeOK
<1>2. ASSUME NEW cooldown \in Cooldowns, NEW cap \in Caps,
             InitPool(signer, cooldown, cap) \/ InitTradingPool(signer, cooldown, cap)
      PROVE  StatusKept
  BY <1>2, InitPoolEffect DEF StatusKept
<1>3. ASSUME NEW amount \in Amounts, FlushToInsurance(signer, amount) PROVE StatusKept
  BY <1>1, <1>3 DEF FlushToInsurance, top_up_insurance, StatusKept, is_resolved,
                    StakePoolType, MarketType
<1>4. ASSUME NEW amount \in Amounts, NEW dest, AdminWithdrawInsurance(signer, amount, dest)
      PROVE  StatusKept
  BY <1>1, <1>4 DEF AdminWithdrawInsurance, validate_admin_cpi, is_pool_admin,
                    withdraw_insurance, StatusKept, is_resolved, StakePoolType, MarketType
<1>5. ASSUME NEW cooldown \in Cooldowns \cup {None}, NEW cap \in Caps \cup {None},
             UpdateConfig(signer, cooldown, cap)
      PROVE  StatusKept
  BY <1>1, <1>5 DEF UpdateConfig, is_pool_admin, StatusKept, is_resolved, StakePoolType
<1>6. ASSUME NEW enabled \in BOOLEAN, NEW bps \in HwmBps,
             AdminSetHwmConfig(signer, enabled, bps)
      PROVE  StatusKept
  <2>1. pool'.is_initialized /\ pool'.admin_transferred = pool.admin_transferred
        /\ market' = market
    BY <1>1, <1>6 DEF AdminSetHwmConfig, is_pool_admin, set_hwm_enabled, StakePoolType
  <2>2. is_resolved(pool) => is_resolved(pool')
    BY <1>1, <1>6 DEF AdminSetHwmConfig, set_hwm_enabled, is_resolved, StakePoolType
  <2> QED BY <2>1, <2>2 DEF StatusKept
<1>7. ASSUME TransferAdmin(signer) PROVE StatusKept
  BY <1>1, <1>7 DEF TransferAdmin, is_pool_admin, update_authority, StatusKept, is_resolved,
                    StakePoolType, MarketType
<1>8. ASSUME NEW key \in OracleKeys, AdminSetOracleAuthority(signer, key) PROVE StatusKept
  BY <1>1, <1>8 DEF AdminSetOracleAuthority, update_oracle_authority, StatusKept, MarketType
<1>9. ASSUME AdminResolveMarket(signer) PROVE StatusKept
  BY <1>1, <1>9 DEF AdminResolveMarket, validate_admin_cpi, is_pool_admin, resolve_market,
                    set_resolved, StatusKept, is_resolved, StakePoolType, MarketType
<1>10. ASSUME NEW key \in PolicyKeys, AdminSetInsurancePolicy(signer, key) PROVE StatusKept
  BY <1>1, <1>10 DEF AdminSetInsurancePolicy, update_insurance_authority, StatusKept, MarketType
<1>11. ASSUME MarketAdminResolves(signer) PROVE StatusKept
  BY <1>1, <1>11 DEF MarketAdminResolves, resolve_market, StatusKept, MarketType
<1> QED BY <1>2, <1>3, <1>4, <1>5, <1>6, <1>7, <1>8, <1>9, <1>10, <1>11 DEF AdminStep

\* So does every step.
LEMMA StatusStep ==
  ASSUME TypeOK, [Next]_vars
  PROVE  StatusKept
<1>1. pool \in StakePoolType /\ market \in MarketType BY DEF TypeOK
<1>2. ASSUME NEW signer \in Accounts, AdminStep(signer) PROVE StatusKept BY <1>2, AdminStatus
<1>3. ASSUME NEW user \in Users, NEW amount \in Amounts, Deposit(user, amount) PROVE StatusKept
  <2>1. SameStatus(pool, pool') /\ market' = market BY <1>3, DepositEffect
  <2>2. pool.is_initialized BY <1>3 DEF Deposit, deposit_accepted
  <2> QED BY <2>1, <2>2 DEF StatusKept, SameStatus, is_resolved
<1>4. ASSUME NEW user \in Users, NEW lp \in U64, Withdraw(user, lp) PROVE StatusKept
  <2>1. SameStatus(pool, pool') /\ market' = market BY <1>4, WithdrawEffect
  <2>2. pool.is_initialized BY <1>4 DEF Withdraw, withdraw_accepted
  <2> QED BY <2>1, <2>2 DEF StatusKept, SameStatus, is_resolved
<1>5. ASSUME NEW user, NEW to, NEW lp, TransferLp(user, to, lp) \/ BurnLp(user, lp)
      PROVE  StatusKept
  BY <1>5 DEF TransferLp, BurnLp, StatusKept
<1>6. CASE AccrueFees
  BY <1>1, <1>6 DEF AccrueFees, accrue, StatusKept, is_resolved, StakePoolType
<1>7. CASE Environment /\ ~AccrueFees
  BY <1>1, <1>7 DEF Environment, DirectTransfer, InsuranceMoves, insurance_moves, Tick,
                    StatusKept, MarketType
<1>8. CASE UNCHANGED vars BY <1>8 DEF vars, StatusKept
<1> QED BY <1>2, <1>3, <1>4, <1>5, <1>6, <1>7, <1>8 DEF Next, UserStep, Environment

\* The deposit gate opens only after the market's admin has become the pool PDA,
\* through InitPool or, for a pool of an older build, through TransferAdmin, and
\* nothing the pool signs for takes it back (processor.rs 333-357, 446-452,
\* 970-1031).
THEOREM GateFollowsHandoff == Spec => []HandoffIsReal
<1>1. Init => HandoffIsReal BY InitStates DEF HandoffIsReal
<1>2. TypeOK /\ HandoffIsReal /\ [Next]_vars => HandoffIsReal'
  BY StatusStep DEF HandoffIsReal, StatusKept
<1> QED BY <1>1, <1>2, TypeCorrect, PTL DEF Spec

\* Insurance comes back from a resolved market only: every other step leaves
\* total_returned alone, or starts a pool.
LEMMA ReturnsStep ==
  ASSUME Lifecycle, [Next]_vars
  PROVE  ReturnsFollowResolution'
<1>1. TypeOK /\ TypeOK' /\ StatusKept BY TypeStep, StatusStep DEF Lifecycle, Accounting
<1>2. SUFFICES ASSUME pool'.total_returned # pool.total_returned
               PROVE  pool'.total_returned = 0 \/ market'.resolved
  BY <1>1, PoolFields DEF Lifecycle, ReturnsFollowResolution, StatusKept, TypeOK
<1>3. ASSUME NEW signer \in Accounts, AdminStep(signer)
      PROVE  pool'.total_returned = 0 \/ market'.resolved
  <2>1. ASSUME NEW cooldown \in Cooldowns, NEW cap \in Caps,
               InitPool(signer, cooldown, cap) \/ InitTradingPool(signer, cooldown, cap)
        PROVE  pool'.total_returned = 0
    BY <1>1, <2>1, InitPoolEffect DEF FreshPool
  <2>2. ASSUME NEW amount \in Amounts, FlushToInsurance(signer, amount) PROVE FALSE
    BY <1>1, <1>2, <2>2 DEF FlushToInsurance, TypeOK, StakePoolType
  <2>3. ASSUME NEW amount \in Amounts, NEW dest, AdminWithdrawInsurance(signer, amount, dest)
        PROVE  market'.resolved
    BY <1>1, <2>3 DEF AdminWithdrawInsurance, withdraw_insurance, StatusKept
  <2> QED BY <1>1, <1>2, <1>3, <2>1, <2>2, <2>3, ConfigKeepsBooks DEF AdminStep, SameBooks, Kept
<1>4. ASSUME NEW user \in Users, UserStep(user) PROVE FALSE
  BY <1>1, <1>2, <1>4, DepositEffect, WithdrawEffect DEF UserStep, Kept, TransferLp, BurnLp
<1>5. CASE AccrueFees
  BY <1>1, <1>2, <1>5 DEF AccrueFees, accrue, TypeOK, StakePoolType
<1>6. ~(Environment /\ ~AccrueFees) /\ ~UNCHANGED vars
  BY <1>2 DEF Environment, DirectTransfer, InsuranceMoves, Tick, vars
<1> QED BY <1>3, <1>4, <1>5, <1>6 DEF Next

\* The invariant of a pool's life.
LEMMA LifecycleInvariant == Spec => []Lifecycle
<1>1. Init => Lifecycle
  <2>1. SUFFICES ASSUME Init PROVE Lifecycle OBVIOUS
  <2>2. BlankUntilInit
    BY <2>1 DEF Init, BlankUntilInit, init_pool_state, ZeroedPool
  <2>3. ReturnsFollowResolution BY <2>1, InitStates DEF FreshPool, ReturnsFollowResolution
  <2> QED BY <2>1, <2>2, <2>3, AccountingInit DEF Lifecycle
<1>2. Lifecycle /\ [Next]_vars => Lifecycle'
  <2>1. SUFFICES ASSUME Lifecycle, [Next]_vars PROVE Lifecycle' OBVIOUS
  <2>2. Accounting' BY <2>1, AccountingStep DEF Lifecycle
  <2>3. BlankUntilInit'
    BY <2>1, StatusStep DEF Lifecycle, Accounting, StatusKept, BlankUntilInit
  <2> QED BY <2>1, <2>2, <2>3, ReturnsStep DEF Lifecycle
<1> QED BY <1>1, <1>2, PTL DEF Spec

\* A pool without LP tokens has a computable value, as FINDINGS.md 213 claims, in a
\* trading pool and until the market is resolved: its inflows equal its outflows,
\* and one side of that equation is a single u64 counter (state.rs 313-341).
THEOREM EmptyPoolPriced == Spec => []EmptyPoolIsPriced
<1>1. Lifecycle => EmptyPoolIsPriced
  <2>1. SUFFICES ASSUME Lifecycle, pool.total_lp_supply = 0,
                        pool.pool_mode = TradingLp \/ ~market.resolved
                 PROVE  total_pool_value(pool) # None
    BY DEF EmptyPoolIsPriced
  <2>2. pool \in StakePoolType BY <2>1 DEF Lifecycle, Accounting, TypeOK
  <2>. DEFINE fees == IF pool.pool_mode = TradingLp THEN pool.total_fees_earned ELSE 0
              plus == pool.total_deposited + pool.total_returned + fees
              minus == pool.total_withdrawn + pool.total_flushed
  <2>3. /\ pool.total_deposited \in U64 /\ pool.total_withdrawn \in U64
        /\ pool.total_deposited \in Nat /\ pool.total_withdrawn \in Nat
        /\ pool.total_returned \in Nat /\ pool.total_flushed \in Nat
        /\ pool.total_fees_earned \in Nat /\ pool.pool_mode \in {InsuranceLp, TradingLp}
    BY <2>2, PoolFields DEF StakePoolType
  <2>4. NetValue(pool) = 0 BY <2>1 DEF Lifecycle, Accounting, EmptyTogether
  <2>5. plus = minus BY <2>3, <2>4 DEF NetValue
  <2>6. CASE pool.pool_mode = TradingLp
    <3>1. minus = pool.total_withdrawn BY <2>1, <2>3, <2>6 DEF Lifecycle, Accounting, ModesApart
    <3> QED BY <2>2, <2>3, <2>5, <3>1, ValueOfBalanced
  <2>7. CASE pool.pool_mode = InsuranceLp
    <3>1. plus = pool.total_deposited
      BY <2>1, <2>3, <2>7
         DEF Lifecycle, ReturnsFollowResolution, InsuranceLp, TradingLp
    <3> QED BY <2>2, <2>3, <2>5, <3>1, ValueOfBalanced
  <2> QED BY <2>3, <2>6, <2>7
<1> QED BY <1>1, LifecycleInvariant, PTL

\* Only a deposit raises the supply or the deposits of a pool; the mode is chosen
\* once.
LEMMA GrowthStep ==
  ASSUME TypeOK, [Next]_vars
  PROVE  \/ \E user \in Users, amount \in Amounts : Deposit(user, amount)
         \/ /\ ~pool.is_initialized
            /\ \E mode \in {InsuranceLp, TradingLp} : FreshPool(pool', mode)
         \/ /\ pool'.total_deposited = pool.total_deposited
            /\ pool'.total_lp_supply <= pool.total_lp_supply
            /\ pool'.pool_mode = pool.pool_mode
<1>. DEFINE Begins == /\ ~pool.is_initialized
                      /\ \E mode \in {InsuranceLp, TradingLp} : FreshPool(pool', mode)
            NoGrowth == /\ pool'.total_deposited = pool.total_deposited
                        /\ pool'.total_lp_supply <= pool.total_lp_supply
                        /\ pool'.pool_mode = pool.pool_mode
<1>1. pool \in StakePoolType /\ pool.total_lp_supply \in Nat BY PoolFields DEF TypeOK
<1>2. SameBooks => NoGrowth BY <1>1 DEF SameBooks, Kept, Totals
<1>3. ASSUME NEW signer \in Accounts, AdminStep(signer) PROVE Begins \/ NoGrowth
  <2>1. ASSUME NEW cooldown \in Cooldowns, NEW cap \in Caps,
               InitPool(signer, cooldown, cap) \/ InitTradingPool(signer, cooldown, cap)
        PROVE  Begins
    BY <2>1, InitPoolEffect
  <2>2. ASSUME NEW amount \in Amounts, FlushToInsurance(signer, amount) PROVE NoGrowth
    BY <1>1, <2>2 DEF FlushToInsurance, StakePoolType
  <2>3. ASSUME NEW amount \in Amounts, NEW dest, AdminWithdrawInsurance(signer, amount, dest)
        PROVE  NoGrowth
    BY <1>1, <2>3 DEF AdminWithdrawInsurance, StakePoolType
  <2>. HIDE DEF Begins, NoGrowth
  <2> QED BY <1>2, <1>3, <2>1, <2>2, <2>3, ConfigKeepsBooks DEF AdminStep
<1>4. ASSUME NEW user \in Users, NEW lp \in U64, Withdraw(user, lp) PROVE NoGrowth
  <2>1. lp \in Nat BY MaxU64Assumption DEF U64
  <2> QED BY <1>1, <1>4, <2>1, WithdrawEffect DEF Kept, Totals
<1>5. ASSUME AccrueFees PROVE NoGrowth BY <1>1, <1>5 DEF AccrueFees, accrue, StakePoolType
<1>6. ASSUME Environment, ~AccrueFees PROVE NoGrowth
  BY <1>1, <1>6 DEF Environment, DirectTransfer, InsuranceMoves, Tick
<1>7. ASSUME NEW user, NEW to, NEW lp, TransferLp(user, to, lp) \/ BurnLp(user, lp)
      PROVE  NoGrowth
  BY <1>1, <1>7 DEF TransferLp, BurnLp
<1>8. ASSUME UNCHANGED vars PROVE NoGrowth BY <1>1, <1>8 DEF vars
<1>. HIDE DEF Begins, NoGrowth
<1>9. (\E user \in Users, amount \in Amounts : Deposit(user, amount)) \/ Begins \/ NoGrowth
  BY <1>3, <1>4, <1>5, <1>6, <1>7, <1>8 DEF Next, UserStep, Environment
<1> QED BY <1>9 DEF Begins, NoGrowth

\* A trading pool's LP token is worth par or more for ever.  While it has holders
\* the price cannot fall (PriceKept); the first of them enters at par.
THEOREM NeverBelowPar == Spec => []ParOrBetter
<1>1. Init => ParOrBetter
  <2>1. SUFFICES ASSUME Init PROVE ParOrBetter OBVIOUS
  <2>2. PICK mode \in {InsuranceLp, TradingLp} : FreshPool(pool, mode) BY <2>1, InitStates
  <2> QED BY <2>2, FreshBooks DEF ParOrBetter, FreshPool, Totals
<1>2. Lifecycle /\ ParOrBetter /\ [Next]_vars => ParOrBetter'
  <2>1. SUFFICES ASSUME Lifecycle, ParOrBetter, [Next]_vars, pool'.pool_mode = TradingLp
                 PROVE  NetValue(pool') >= pool'.total_lp_supply
    BY DEF ParOrBetter
  <2>2. Accounting /\ Accounting' /\ PriceKept BY <2>1, AccountingStep DEF Lifecycle
  <2>3. /\ pool.total_lp_supply \in Nat /\ pool'.total_lp_supply \in Nat
        /\ NetValue(pool) \in Nat /\ NetValue(pool') \in Nat
    BY <2>2, PoolFields DEF Accounting, TypeOK, NotOverdrawn
  <2>4. CASE pool'.total_lp_supply = 0 BY <2>3, <2>4
  <2>5. CASE pool'.total_lp_supply > 0 /\ pool.total_lp_supply > 0
    <3>1. pool.pool_mode = TradingLp
      <4>1. ~\E mode \in {InsuranceLp, TradingLp} : FreshPool(pool', mode)
        BY <2>5 DEF FreshPool, Totals
      <4> QED BY <2>1, <2>2, <4>1, GrowthStep, DepositEffect DEF Accounting, Kept
    <3>2. pool'.total_flushed = pool.total_flushed
      BY <2>1, <2>2, <3>1 DEF Accounting, ModesApart
    <3>3. NetValue(pool') * pool.total_lp_supply >= NetValue(pool) * pool'.total_lp_supply
      BY <2>2, <2>5, <3>2 DEF PriceKept
    <3>4. NetValue(pool) >= pool.total_lp_supply BY <2>1, <3>1 DEF ParOrBetter
    <3> QED BY <2>3, <2>5, <3>3, <3>4, ParIsKept
  <2>6. CASE pool'.total_lp_supply > 0 /\ pool.total_lp_supply = 0
    <3>1. PICK user \in Users, amount \in Amounts : Deposit(user, amount)
      <4>1. ~\E mode \in {InsuranceLp, TradingLp} : FreshPool(pool', mode)
        BY <2>6 DEF FreshPool, Totals
      <4>2. ~(pool'.total_lp_supply <= pool.total_lp_supply) BY <2>3, <2>6
      <4> QED BY <2>1, <2>2, <4>1, <4>2, GrowthStep DEF Accounting
    <3>. DEFINE lp == pool_calc_lp_for_deposit(pool, amount)
    <3>2. /\ amount \in U64 /\ lp \in U64 /\ pool \in StakePoolType
          /\ Kept(pool, pool')
          /\ Totals(pool', pool.total_deposited + amount, pool.total_withdrawn,
                    pool.total_lp_supply + lp)
      BY <2>2, <3>1, DepositEffect DEF Accounting, TypeOK
    <3>3. lp = amount BY <2>2, <2>6, <3>1, DepositPrice DEF Accounting
    <3>. HIDE DEF lp
    <3>4. NetValue(pool') = NetValue(pool) + amount
      BY <3>2, PoolFields, MaxU64Assumption DEF Kept, Totals, NetValue, U64
    <3> QED BY <2>3, <2>6, <3>2, <3>3, <3>4, MaxU64Assumption DEF Totals, U64
  <2> QED BY <2>3, <2>4, <2>5, <2>6
<1> QED BY <1>1, <1>2, LifecycleInvariant, PTL DEF Spec

\* Once resolved a pool stays resolved, takes no deposit and mints nothing, although
\* the high-water-mark switch writes the same byte (state.rs 220-241, processor.rs
\* 454-457).
THEOREM ResolvedForGood == Spec => ResolutionIsFinal
<1>1. Lifecycle /\ [Next]_vars =>
        [ is_resolved(pool) => /\ is_resolved(pool')
                               /\ pool'.total_deposited = pool.total_deposited
                               /\ pool'.total_lp_supply <= pool.total_lp_supply ]_vars
  <2>1. SUFFICES ASSUME Lifecycle, [Next]_vars, is_resolved(pool)
                 PROVE  /\ is_resolved(pool')
                        /\ pool'.total_deposited = pool.total_deposited
                        /\ pool'.total_lp_supply <= pool.total_lp_supply
    OBVIOUS
  <2>2. TypeOK BY <2>1 DEF Lifecycle, Accounting
  <2>3. pool.is_initialized
    BY <2>1 DEF Lifecycle, BlankUntilInit, ZeroedPool, is_resolved
  <2>4. ~\E user \in Users, amount \in Amounts : Deposit(user, amount)
    BY <2>1 DEF Deposit, deposit_accepted
  <2> QED BY <2>1, <2>2, <2>3, <2>4, StatusStep, GrowthStep DEF StatusKept
<1> QED BY <1>1, LifecycleInvariant, PTL DEF Spec, ResolutionIsFinal

\* A deposit leaves a capped pool at or below its cap whenever the value it is
\* tested against is the value the pool has (processor.rs 465-477).
THEOREM CapRespected == Spec => CapHolds
<1>1. Lifecycle /\ EmptyPoolIsPriced /\ [Next]_vars =>
        [ /\ pool'.total_deposited > pool.total_deposited /\ pool.deposit_cap > 0
          /\ \/ pool.pool_mode = TradingLp
             \/ ~market.resolved
             \/ total_pool_value(pool) # None
          => NetValue(pool') <= pool.deposit_cap ]_vars
  <2>1. SUFFICES ASSUME Lifecycle, EmptyPoolIsPriced, [Next]_vars,
                        pool'.total_deposited > pool.total_deposited, pool.deposit_cap > 0,
                        \/ pool.pool_mode = TradingLp
                        \/ ~market.resolved
                        \/ total_pool_value(pool) # None
                 PROVE  NetValue(pool') <= pool.deposit_cap
    OBVIOUS
  <2>2. TypeOK /\ pool \in StakePoolType BY <2>1 DEF Lifecycle, Accounting, TypeOK
  <2>3. PICK user \in Users, amount \in Amounts : Deposit(user, amount)
    <3>1. ~\E mode \in {InsuranceLp, TradingLp} : FreshPool(pool', mode)
      BY <2>1, <2>2, PoolFields DEF FreshPool, Totals
    <3>2. pool'.total_deposited # pool.total_deposited BY <2>1, <2>2, PoolFields
    <3> QED BY <2>1, <2>2, <3>1, <3>2, GrowthStep
  <2>4. total_pool_value(pool) # None
    <3>1. pool.total_lp_supply = 0 \/ pool.total_lp_supply > 0 BY <2>2, PoolFields
    <3> QED BY <2>1, <2>2, <2>3, <3>1, DepositPrice DEF EmptyPoolIsPriced
  <2>5. total_pool_value(pool) = NetValue(pool) /\ NetValue(pool) \in Int
    BY <2>2, <2>4, PoolValueExact
  <2>6. amount \in Nat /\ Kept(pool, pool')
        /\ pool'.total_deposited = pool.total_deposited + amount
        /\ pool'.total_withdrawn = pool.total_withdrawn
    BY <2>2, <2>3, DepositEffect, MaxU64Assumption DEF Totals, U64
  <2>7. NetValue(pool') = NetValue(pool) + amount
    BY <2>2, <2>6, PoolFields DEF Kept, NetValue
  <2>8. checked(NetValue(pool) + amount) # None
        /\ checked(NetValue(pool) + amount) <= pool.deposit_cap
    BY <2>1, <2>3, <2>4, <2>5 DEF Deposit, deposit_accepted, within_deposit_cap, unwrap_or
  <2> QED BY <2>5, <2>6, <2>7, <2>8, CheckedType
<1> QED BY <1>1, LifecycleInvariant, EmptyPoolPriced, PTL DEF Spec, CapHolds

\* Insurance never leaves custody: once the vault authority PDA is the insurance
\* authority, before resolution or after it, no step names another one, and all
\* that leaves the fund of a resolved market arrives in the vault and on the books
\* (processor.rs 238-257, 1216-1236, 1249-1297).
THEOREM InsuranceInCustody == Spec => InsuranceStaysInCustody
<1>. DEFINE Safe == /\ market'.insurance_authority = VaultAuth
                    /\ market.resolved /\ market'.insurance < market.insurance
                         => /\ vault' - vault = market.insurance - market'.insurance
                            /\ NetValue(pool') - NetValue(pool) = vault' - vault
<1>1. ASSUME TypeOK, [Next]_vars, market.insurance_authority = VaultAuth
      PROVE  Safe
  <2>1. /\ pool \in StakePoolType /\ market \in MarketType
        /\ market.insurance \in Nat /\ vault \in Nat
    BY <1>1, MaxU64Assumption DEF TypeOK, TokenTypeOK, MarketType, U64
  <2>2. ASSUME market'.insurance_authority = VaultAuth,
               market'.insurance \in Nat, market'.insurance >= market.insurance
        PROVE  Safe
    BY <2>1, <2>2
  <2>3. ASSUME NEW signer \in Accounts, NEW amount \in Amounts,
               FlushToInsurance(signer, amount)
        PROVE  Safe
    <3>1. amount \in Nat BY InputsAssumption, MaxU64Assumption DEF U64
    <3>2. market' = [market EXCEPT !.insurance = @ + amount]
      BY <2>3 DEF FlushToInsurance, top_up_insurance
    <3> QED BY <1>1, <2>1, <2>2, <3>1, <3>2 DEF MarketType
  <2>4. ASSUME NEW signer \in Accounts, NEW amount \in Amounts, NEW dest,
               AdminWithdrawInsurance(signer, amount, dest)
        PROVE  Safe
    <3>1. amount \in Nat BY InputsAssumption, MaxU64Assumption DEF U64
    <3>2. vault' = vault + amount
      BY <2>4 DEF AdminWithdrawInsurance, validate_return_vault
    <3>3. market'.insurance = market.insurance - amount
          /\ market'.insurance_authority = VaultAuth
      BY <1>1, <2>1, <2>4 DEF AdminWithdrawInsurance, withdraw_insurance, MarketType
    <3>4. NetValue(pool') = NetValue(pool) + amount
      <4>1. /\ Totals(pool', pool.total_deposited, pool.total_withdrawn, pool.total_lp_supply)
            /\ pool'.total_returned = pool.total_returned + amount
            /\ pool'.total_flushed = pool.total_flushed
            /\ pool'.total_fees_earned = pool.total_fees_earned
            /\ pool'.pool_mode = pool.pool_mode
        BY <2>1, <2>4 DEF AdminWithdrawInsurance, Totals, StakePoolType
      <4> QED BY <2>1, <3>1, <4>1, PoolFields DEF Totals, NetValue
    <3> QED BY <2>1, <3>1, <3>2, <3>3, <3>4, PoolFields
  <2>5. ASSUME NEW signer \in Accounts, NEW key, AdminSetInsurancePolicy(signer, key)
        PROVE  Safe
    BY <2>1, <2>2, <2>5 DEF AdminSetInsurancePolicy, validate_vault_insurance_authority,
                            update_insurance_authority, MarketType
  <2>6. ASSUME market' = market
               \/ market' = [market EXCEPT !.admin = PoolPda]
               \/ market' = [market EXCEPT !.resolved = TRUE]
               \/ \E key : market' = [market EXCEPT !.oracle_authority = key]
        PROVE  Safe
    BY <1>1, <2>1, <2>2, <2>6 DEF MarketType
  <2>. HIDE DEF Safe
  <2>7. ASSUME NEW signer \in Accounts, AdminStep(signer) PROVE Safe
    BY <2>3, <2>4, <2>5, <2>6, <2>7
       DEF AdminStep, InitPool, InitTradingPool, init_handoff, update_authority, UpdateConfig,
           AdminSetHwmConfig, TransferAdmin, AdminSetOracleAuthority, update_oracle_authority,
           AdminResolveMarket, resolve_market, MarketAdminResolves
  <2>8. ASSUME NEW user \in Users, UserStep(user) PROVE Safe
    BY <2>6, <2>8 DEF UserStep, Deposit, Withdraw, TransferLp, BurnLp
  <2>9. ASSUME NEW level, InsuranceMoves(level) PROVE Safe
    BY <1>1, <2>1, <2>9 DEF InsuranceMoves, insurance_moves, MarketType, Safe
  <2>10. ASSUME Environment PROVE Safe
    BY <2>6, <2>9, <2>10 DEF Environment, AccrueFees, DirectTransfer, Tick
  <2> QED BY <1>1, <2>6, <2>7, <2>8, <2>10 DEF Next, vars
<1>2. TypeOK /\ [Next]_vars =>
        [ market.insurance_authority = VaultAuth => Safe ]_vars
  BY <1>1
<1> QED BY <1>2, TypeCorrect, PTL DEF Spec, InsuranceStaysInCustody

-----------------------------------------------------------------------------
(* Who holds what *)

\* Records and wallets, as ledgers of finitely many holders.
LEMMA Ledgers ==
  ASSUME TypeOK
  PROVE  /\ recorded \in [Users -> U64] /\ held \in [Users -> U64]
         /\ total_of(recorded) \in Nat /\ total_of(held) \in Nat
         /\ \A u \in Users : recorded[u] = deposits[u].lp_amount /\ recorded[u] \in Nat
                             /\ held[u] \in Nat /\ deposits[u] \in StakeDepositType
<1>1. \A u \in Users : deposits[u] \in StakeDepositType /\ deposits[u].lp_amount \in U64
  BY DEF TypeOK, StakeDepositType
<1>2. recorded \in [Users -> U64] /\ \A u \in Users : recorded[u] = deposits[u].lp_amount
  BY <1>1 DEF recorded
<1>3. held \in [Users -> U64] BY DEF TypeOK, TokenTypeOK
<1> QED BY <1>1, <1>2, <1>3, UnitsFinite, UsersAssumption, MaxU64Assumption DEF U64

\* The same after a step that keeps the types.
LEMMA LedgersAfter ==
  ASSUME TypeOK'
  PROVE  recorded' \in [Users -> U64] /\ held' \in [Users -> U64]
<1>1. \A u \in Users : deposits'[u].lp_amount \in U64 BY DEF TypeOK, StakeDepositType
<1>2. recorded' \in [Users -> U64] BY <1>1 DEF recorded
<1> QED BY <1>2 DEF TypeOK, TokenTypeOK

\* A deposit adds the minted LP to the depositor's record, to the wallet and to the
\* supply (processor.rs 500-612).
LEMMA PositionsDeposit ==
  ASSUME Positions, NEW user \in Users, NEW amount \in Amounts, Deposit(user, amount)
  PROVE  RecordsMatchSupply' /\ RecordsAreOpen'
<1>. DEFINE lp == pool_calc_lp_for_deposit(pool, amount)
<1>1. TypeOK BY DEF Positions, Lifecycle, Accounting
<1>2. TypeOK' /\ lp \in U64 /\ lp > 0 /\ pool'.total_lp_supply = pool.total_lp_supply + lp
  BY <1>1, DepositEffect DEF Totals
<1>3. /\ deposits' = [deposits EXCEPT ![user] =
                        deposit_record(deposits[user], lp, pool.cooldown_slots)]
      /\ held' = [held EXCEPT ![user] = @ + lp]
  BY DEF Deposit, mint_to
<1>. HIDE DEF lp
<1>4. /\ \A u \in Users \ {user} : deposits'[u] = deposits[u] /\ held'[u] = held[u]
      /\ deposits'[user].lp_amount = deposits[user].lp_amount + lp
      /\ deposits'[user].is_initialized
      /\ held'[user] = held[user] + lp
  BY <1>1, <1>3 DEF TypeOK, TokenTypeOK, deposit_record
<1>5. /\ \A u \in Users \ {user} : recorded'[u] = recorded[u]
      /\ recorded'[user] = recorded[user] + lp
  BY <1>4 DEF recorded
<1>6. lp \in Nat BY <1>2, MaxU64Assumption DEF U64
<1>7. /\ recorded \in [Users -> U64] /\ recorded' \in [Users -> U64]
      /\ held \in [Users -> U64] /\ held' \in [Users -> U64]
      /\ recorded[user] \in Nat /\ held[user] \in Nat
      /\ total_of(recorded) \in Nat /\ total_of(held) \in Nat
  BY <1>1, <1>2, Ledgers, LedgersAfter
<1>8. total_of(recorded)' = total_of(recorded) + (recorded'[user] - recorded[user])
  BY <1>5, <1>7, TotalFollows, UsersAssumption
<1>9. total_of(held)' = total_of(held) + (held'[user] - held[user])
  BY <1>4, <1>7, TotalFollows, UsersAssumption
<1>10. pool.total_lp_supply \in Nat BY <1>1, PoolFields DEF TypeOK
<1>11. RecordsMatchSupply'
  BY <1>2, <1>4, <1>5, <1>6, <1>7, <1>8, <1>9, <1>10 DEF Positions, RecordsMatchSupply
<1>12. RecordsAreOpen' BY <1>4 DEF Positions, RecordsAreOpen
<1> QED BY <1>11, <1>12

\* A withdrawal takes the burned LP from the record, the wallet and the supply
\* (processor.rs 740-800).
LEMMA PositionsWithdraw ==
  ASSUME Positions, NEW user \in Users, NEW lp \in U64, Withdraw(user, lp)
  PROVE  RecordsMatchSupply' /\ RecordsAreOpen'
<1>1. TypeOK BY DEF Positions, Lifecycle, Accounting
<1>2. TypeOK' /\ pool'.total_lp_supply = pool.total_lp_supply - lp
  BY <1>1, WithdrawEffect DEF Totals
<1>3. /\ deposits' = [deposits EXCEPT ![user].lp_amount = @ - lp]
      /\ held' = [held EXCEPT ![user] = @ - lp]
      /\ deposits[user].is_initialized
  BY DEF Withdraw, withdraw_accepted, burn
<1>4. /\ \A u \in Users \ {user} : deposits'[u] = deposits[u] /\ held'[u] = held[u]
      /\ deposits'[user].lp_amount = deposits[user].lp_amount - lp
      /\ deposits'[user].is_initialized
      /\ held'[user] = held[user] - lp
  BY <1>1, <1>3 DEF TypeOK, TokenTypeOK, StakeDepositType
<1>5. /\ \A u \in Users \ {user} : recorded'[u] = recorded[u]
      /\ recorded'[user] = recorded[user] - lp
  BY <1>4 DEF recorded
<1>6. lp \in Nat BY MaxU64Assumption DEF U64
<1>7. /\ recorded \in [Users -> U64] /\ recorded' \in [Users -> U64]
      /\ held \in [Users -> U64] /\ held' \in [Users -> U64]
      /\ recorded[user] \in Nat /\ held[user] \in Nat
      /\ total_of(recorded) \in Nat /\ total_of(held) \in Nat
  BY <1>1, <1>2, Ledgers, LedgersAfter
<1>8. total_of(recorded)' = total_of(recorded) + (recorded'[user] - recorded[user])
  BY <1>5, <1>7, TotalFollows, UsersAssumption
<1>9. total_of(held)' = total_of(held) + (held'[user] - held[user])
  BY <1>4, <1>7, TotalFollows, UsersAssumption
<1>10. pool.total_lp_supply \in Nat BY <1>1, PoolFields DEF TypeOK
<1>11. RecordsMatchSupply'
  BY <1>2, <1>4, <1>5, <1>6, <1>7, <1>8, <1>9, <1>10 DEF Positions, RecordsMatchSupply
<1>12. RecordsAreOpen' BY <1>4 DEF Positions, RecordsAreOpen
<1> QED BY <1>11, <1>12

\* Moving LP tokens beside the program keeps their number and burning lowers it; no
\* record sees either.
LEMMA PositionsLpMove ==
  ASSUME Positions, NEW user \in Users, NEW lp \in LpMoves,
         (\E to \in Users : TransferLp(user, to, lp)) \/ BurnLp(user, lp)
  PROVE  RecordsMatchSupply' /\ RecordsAreOpen'
<1>1. TypeOK BY DEF Positions, Lifecycle, Accounting
<1>2. TypeOK' BY <1>1, LpMoveType
<1>3. pool' = pool /\ deposits' = deposits /\ recorded' = recorded
  BY DEF TransferLp, BurnLp, recorded
<1>4. held \in [Users -> U64] /\ held' \in [Users -> U64] /\ total_of(held) \in Nat
      /\ \A u \in Users : held[u] \in Nat
  BY <1>1, <1>2, Ledgers, LedgersAfter
<1>5. lp \in Nat /\ lp \in U64 BY InputsAssumption, MaxU64Assumption DEF U64
<1>6. total_of(held)' <= total_of(held)
  <2>1. CASE BurnLp(user, lp)
    <3>1. /\ held'[user] = held[user] - lp
          /\ \A u \in Users \ {user} : held'[u] = held[u]
      BY <1>4, <2>1 DEF BurnLp, burn
    <3>2. total_of(held)' = total_of(held) + (held'[user] - held[user])
      BY <1>4, <3>1, TotalFollows, UsersAssumption
    <3> QED BY <1>4, <1>5, <3>1, <3>2
  <2>2. ASSUME NEW to \in Users, TransferLp(user, to, lp)
        PROVE  total_of(held)' <= total_of(held)
    <3>. DEFINE between == [held EXCEPT ![user] = @ - lp]
    <3>1. /\ to # user /\ lp <= held[user]
          /\ held' = [held EXCEPT ![user] = @ - lp, ![to] = @ + lp]
      BY <2>2 DEF TransferLp, transfer_lp
    <3>2. between \in [Users -> U64]
      BY <1>4, <1>5, <3>1, MaxU64Assumption DEF U64
    <3>3. /\ between[user] = held[user] - lp /\ between[to] = held[to]
          /\ \A u \in Users \ {user} : between[u] = held[u]
          /\ held'[to] = between[to] + lp
          /\ \A u \in Users \ {to} : held'[u] = between[u]
      BY <1>4, <3>1
    <3>. HIDE DEF between
    <3>4. total_of(between) = total_of(held) + (between[user] - held[user])
      BY <1>4, <3>2, <3>3, TotalFollows, UsersAssumption
    <3>5. total_of(held)' = total_of(between) + (held'[to] - between[to])
      BY <1>4, <3>2, <3>3, TotalFollows, UsersAssumption
    <3> QED BY <1>4, <1>5, <3>3, <3>4, <3>5
  <2> QED BY <2>1, <2>2
<1>7. total_of(held)' \in Nat /\ pool.total_lp_supply \in Nat
  BY <1>1, <1>2, <1>4, UnitsFinite, UsersAssumption, PoolFields DEF TypeOK
<1>8. RecordsMatchSupply' BY <1>3, <1>4, <1>6, <1>7 DEF Positions, RecordsMatchSupply
<1>9. RecordsAreOpen' BY <1>3 DEF Positions, RecordsAreOpen
<1> QED BY <1>8, <1>9

\* Nothing else touches a record, a wallet or the supply; a new pool starts, as the
\* account it was written over, without supply.
LEMMA PositionsQuiet ==
  ASSUME Positions, [Next]_vars, ~\E user \in Users : UserStep(user)
  PROVE  UNCHANGED <<deposits, held>> /\ pool'.total_lp_supply = pool.total_lp_supply
<1>1. TypeOK /\ pool \in StakePoolType BY DEF Positions, Lifecycle, Accounting, TypeOK
<1>2. UNCHANGED <<deposits, held>>
  BY DEF Next, AdminStep, Environment, vars, AccrueFees, DirectTransfer, InsuranceMoves, Tick,
         InitPool, InitTradingPool, FlushToInsurance, AdminWithdrawInsurance, UpdateConfig,
         AdminSetHwmConfig, TransferAdmin, AdminSetOracleAuthority, AdminResolveMarket,
         AdminSetInsurancePolicy, MarketAdminResolves
<1>3. ASSUME NEW signer \in Accounts, AdminStep(signer)
      PROVE  pool'.total_lp_supply = pool.total_lp_supply
  <2>1. ASSUME NEW cooldown \in Cooldowns, NEW cap \in Caps,
               InitPool(signer, cooldown, cap) \/ InitTradingPool(signer, cooldown, cap)
        PROVE  pool'.total_lp_supply = pool.total_lp_supply
    <3>1. ~pool.is_initialized /\ pool'.total_lp_supply = 0
      BY <1>1, <2>1, InitPoolEffect DEF FreshPool, Totals
    <3> QED BY <3>1 DEF Positions, Lifecycle, BlankUntilInit, ZeroedPool
  <2>2. ASSUME NEW amount \in Amounts,
               FlushToInsurance(signer, amount)
                 \/ \E dest \in {"pool_vault", "other_account"} :
                      AdminWithdrawInsurance(signer, amount, dest)
        PROVE  pool'.total_lp_supply = pool.total_lp_supply
    BY <1>1, <2>2 DEF FlushToInsurance, AdminWithdrawInsurance, StakePoolType
  <2> QED BY <1>1, <1>3, <2>1, <2>2, ConfigKeepsBooks DEF AdminStep, SameBooks, Totals
<1>4. CASE AccrueFees BY <1>1, <1>4 DEF AccrueFees, accrue, StakePoolType
<1>5. CASE Environment /\ ~AccrueFees
  BY <1>5 DEF Environment, DirectTransfer, InsuranceMoves, Tick
<1>6. CASE UNCHANGED vars BY <1>6 DEF vars
<1> QED BY <1>2, <1>3, <1>4, <1>5, <1>6 DEF Next

\* The invariant of who holds what.
LEMMA PositionsInvariant == Spec => []Positions
<1>1. Init => RecordsMatchSupply /\ RecordsAreOpen
  <2>1. SUFFICES ASSUME Init PROVE RecordsMatchSupply /\ RecordsAreOpen OBVIOUS
  <2>2. TypeOK /\ pool.total_lp_supply = 0 BY <2>1, InitStates DEF FreshPool, Totals
  <2>3. \A u \in Users : deposits[u].lp_amount = 0 /\ held[u] = 0
    BY <2>1 DEF Init, TokenInit, ZeroedDeposit
  <2>4. \A u \in Users : recorded[u] = 0 /\ held[u] = 0 BY <2>2, <2>3, Ledgers
  <2>5. total_of(recorded) = 0 /\ total_of(held) = 0
    BY <2>2, <2>4, Ledgers, TotalOfNothing
  <2> QED BY <2>2, <2>3, <2>5 DEF RecordsMatchSupply, RecordsAreOpen
<1>2. Positions /\ [Next]_vars => RecordsMatchSupply' /\ RecordsAreOpen'
  <2>1. SUFFICES ASSUME Positions, [Next]_vars PROVE RecordsMatchSupply' /\ RecordsAreOpen'
    OBVIOUS
  <2>2. ASSUME NEW user \in Users, UserStep(user) PROVE RecordsMatchSupply' /\ RecordsAreOpen'
    BY <2>1, <2>2, PositionsDeposit, PositionsWithdraw, PositionsLpMove DEF UserStep
  <2>3. CASE ~\E user \in Users : UserStep(user)
    <3>1. UNCHANGED <<deposits, held>> /\ pool'.total_lp_supply = pool.total_lp_supply
      BY <2>1, <2>3, PositionsQuiet
    <3>2. recorded' = recorded BY <3>1 DEF recorded
    <3> QED BY <2>1, <3>1, <3>2 DEF Positions, RecordsMatchSupply, RecordsAreOpen
  <2> QED BY <2>2, <2>3
<1> QED BY <1>1, <1>2, LifecycleInvariant, PTL DEF Spec, Positions

\* The LP supply that prices every share is the sum of the depositors' records, for
\* any number of depositors, and the wallets never hold more: LP tokens moved or
\* burned beside the program change neither (processor.rs 536-539, 610-612,
\* 788-800).
THEOREM SupplyIsRecorded == Spec => []RecordsMatchSupply
<1>1. Positions => RecordsMatchSupply BY DEF Positions
<1> QED BY <1>1, PositionsInvariant, PTL

\* An empty trading pool takes any depositor's money, whatever was sent to its vault
\* and however often the crank ran: it has no value to orphan, and nobody holds LP
\* tokens of it any more (processor.rs 406-620, 1336-1348).
THEOREM EmptyPoolOpens == Spec => []Bootstrappable
<1>1. Positions /\ EmptyPoolIsPriced => Bootstrappable
  <2>1. SUFFICES ASSUME Positions, EmptyPoolIsPriced, NEW user \in Users, NEW amount \in Amounts,
                        pool.is_initialized, pool.pool_mode = TradingLp,
                        pool.admin_transferred, ~is_resolved(pool),
                        pool.total_lp_supply = 0, pool.deposit_cap = 0,
                        amount > 0, vault + amount \in U64,
                        pool.total_deposited + amount \in U64
                 PROVE  deposit_accepted(user, amount)
    BY DEF Bootstrappable
  <2>2. TypeOK /\ pool \in StakePoolType BY <2>1 DEF Positions, Lifecycle, Accounting, TypeOK
  <2>3. amount \in U64 /\ amount \in Nat BY InputsAssumption, MaxU64Assumption DEF U64
  <2>4. total_pool_value(pool) = 0
    <3>1. total_pool_value(pool) # None BY <2>1 DEF EmptyPoolIsPriced
    <3>2. NetValue(pool) = 0
      BY <2>1 DEF Positions, Lifecycle, Accounting, EmptyTogether
    <3> QED BY <2>2, <3>1, <3>2, PoolValueExact
  <2>5. pool_calc_lp_for_deposit(pool, amount) = amount
    BY <2>1, <2>4 DEF pool_calc_lp_for_deposit, calc_lp_for_deposit, unwrap_or
  <2>6. held[user] = 0 /\ deposits[user].lp_amount = 0
    <3>1. recorded[user] <= total_of(recorded) /\ held[user] <= total_of(held)
      BY <2>2, Ledgers, TotalBounds, UsersAssumption
    <3> QED BY <2>1, <2>2, <3>1, Ledgers DEF Positions, RecordsMatchSupply
  <2> QED BY <2>1, <2>3, <2>5, <2>6
          DEF deposit_accepted, within_deposit_cap, vault_takes, mintable, None
<1> QED BY <1>1, PositionsInvariant, EmptyPoolPriced, PTL

\* Depositors who still hold their LP tokens can always leave with all of them at
\* once when the cooldown is over and no high-water mark holds them, as long as an
\* LP token is worth a base unit and the code can compute it: the record, the supply
\* and the vault all have what it takes (processor.rs 626-808).
THEOREM ExitStaysOpen == Spec => []ExitIsOpen
<1>1. Positions => ExitIsOpen
  <2>1. SUFFICES ASSUME Positions, NEW user \in Users,
                        deposits[user].lp_amount > 0, held[user] >= deposits[user].lp_amount,
                        cooldown_elapsed(deposits[user]), ~hwm_enabled(pool),
                        total_pool_value(pool) # None,
                        NetValue(pool) >= pool.total_lp_supply
                 PROVE  withdraw_accepted(user, deposits[user].lp_amount)
    BY DEF ExitIsOpen
  <2>. DEFINE lp == deposits[user].lp_amount
              v == total_pool_value(pool)
              collateral == pool_calc_collateral_for_withdraw(pool, lp)
  <2>2. TypeOK /\ pool \in StakePoolType BY <2>1 DEF Positions, Lifecycle, Accounting, TypeOK
  <2>3. lp \in U64 /\ lp \in Nat /\ pool.total_lp_supply \in U64 /\ pool.total_lp_supply \in Nat
    BY <2>2, Ledgers, PoolFields DEF StakeDepositType, StakePoolType
  <2>4. lp <= pool.total_lp_supply
    <3>1. recorded[user] <= total_of(recorded)
      BY <2>2, Ledgers, TotalBounds, UsersAssumption
    <3> QED BY <2>1, <2>2, <3>1, Ledgers DEF Positions, RecordsMatchSupply
  <2>5. pool.is_initialized /\ deposits[user].is_initialized
    <3>1. pool.total_lp_supply > 0 BY <2>1, <2>3, <2>4
    <3> QED BY <2>1, <3>1
            DEF Positions, Lifecycle, BlankUntilInit, ZeroedPool, RecordsAreOpen
  <2>6. v \in U64 /\ v \in Nat /\ v = NetValue(pool) /\ v >= pool.total_lp_supply
    BY <2>1, <2>2, PoolValueExact, MaxU64Assumption DEF OptU64, U64
  <2>7. collateral # None /\ collateral \in 1 .. v
    <3>1. collateral = calc_collateral_for_withdraw(pool.total_lp_supply, v, lp)
      BY <2>1 DEF pool_calc_collateral_for_withdraw
    <3>. HIDE DEF collateral, v, lp
    <3>2. 0 < lp BY <2>1, <2>3 DEF lp
    <3> QED BY <2>3, <2>4, <2>6, <3>1, <3>2, CollateralIsPaid
  <2>. HIDE DEF collateral, v, lp
  <2>8. collateral \in Nat /\ collateral > 0 /\ collateral <= v BY <2>6, <2>7
  <2>9. vault_has(collateral)
    <3>1. vault \in Nat /\ pool.pre_supply_vault_offset \in Nat
      BY <2>2, PoolFields, MaxU64Assumption DEF TypeOK, TokenTypeOK, U64
    <3>2. vault >= NetValue(pool) + pool.pre_supply_vault_offset
      BY <2>1 DEF Positions, Lifecycle, Accounting, Solvent
    <3> QED BY <2>6, <2>8, <3>1, <3>2 DEF vault_has
  <2>10. pool.total_withdrawn + collateral \in U64
    <3>. DEFINE fees == IF pool.pool_mode = TradingLp THEN pool.total_fees_earned ELSE 0
                plus == pool.total_deposited + pool.total_returned + fees
    <3>1. /\ pool.total_deposited \in Nat /\ pool.total_returned \in Nat
          /\ pool.total_withdrawn \in Nat /\ pool.total_flushed \in Nat
          /\ pool.total_fees_earned \in Nat
      BY <2>2, PoolFields
    <3>2. plus \in U64 /\ fees \in Nat BY <2>1, <2>2, <3>1, PoolValueExact
    <3>3. NetValue(pool) + pool.total_withdrawn <= plus BY <3>1, <3>2 DEF NetValue
    <3>. HIDE DEF fees, plus
    <3> QED BY <2>6, <2>8, <3>1, <3>2, <3>3, MaxU64Assumption DEF U64
  <2>11. hwm_allows(withdraw_hwm(pool, epoch), collateral)
    BY <2>1 DEF hwm_allows, withdraw_hwm
  <2>12. withdraw_accepted(user, lp)
    BY <2>1, <2>3, <2>4, <2>5, <2>7, <2>8, <2>9, <2>10, <2>11
       DEF withdraw_accepted, burnable, collateral, lp
  <2> QED BY <2>12 DEF lp
<1> QED BY <1>1, PositionsInvariant, PTL

-----------------------------------------------------------------------------
(* The share vault *)

\* What has come into a pool over its life.
Inflows(p) == p.total_deposited + p.total_returned
                + (IF p.pool_mode = TradingLp THEN p.total_fees_earned ELSE 0)

\* The code can compute the value of a pool that is not overdrawn exactly while
\* what came into it fits a u64: exits and flushes neither lose nor regain the
\* price (state.rs 319-341).
LEMMA PricedWhile ==
  ASSUME NEW p \in StakePoolType, NetValue(p) >= 0
  PROVE  /\ Inflows(p) \in Nat
         /\ Inflows(p) \in U64 => total_pool_value(p) # None
         /\ total_pool_value(p) # None => Inflows(p) \in U64
<1>. DEFINE minus == p.total_withdrawn + p.total_flushed
            plus == Inflows(p)
<1>1. /\ p.total_deposited \in Nat /\ p.total_returned \in Nat
      /\ p.total_withdrawn \in Nat /\ p.total_flushed \in Nat
      /\ p.total_fees_earned \in Nat
  BY PoolFields
<1>2. plus \in Nat /\ minus \in Nat /\ NetValue(p) = plus - minus
  BY <1>1 DEF NetValue, Inflows
<1>3. total_pool_value(p) = IF checked(plus) = None \/ checked(minus) = None
                            THEN None ELSE checked(checked(plus) - checked(minus))
  BY DEF total_pool_value, Inflows
<1>. HIDE DEF plus, minus
<1>4. ASSUME plus \in U64 PROVE total_pool_value(p) # None
  <2>1. minus \in U64 /\ plus - minus \in U64 BY <1>2, <1>4, MaxU64Assumption DEF U64
  <2>2. checked(plus) = plus /\ checked(minus) = minus
        /\ checked(plus) # None /\ checked(minus) # None
    BY <1>2, <1>4, <2>1, CheckedType
  <2>3. checked(plus - minus) # None BY <1>2, <2>1, CheckedType
  <2> QED BY <1>3, <2>2, <2>3
<1>5. ASSUME total_pool_value(p) # None PROVE plus \in U64
  BY <1>2, <1>3, <1>5, CheckedType
<1> QED BY <1>2, <1>4, <1>5 DEF plus

\* A step between pools that are not overdrawn: with the same inflows the price is
\* as known as before, with more it may be lost but is not regained.
LEMMA PriceFollowsInflows ==
  ASSUME NEW p \in StakePoolType, NEW q \in StakePoolType,
         NetValue(p) >= 0, NetValue(q) >= 0, Inflows(q) >= Inflows(p)
  PROVE  /\ total_pool_value(q) # None => total_pool_value(p) # None
         /\ Inflows(q) = Inflows(p) =>
              (total_pool_value(p) # None => total_pool_value(q) # None)
<1>1. /\ Inflows(p) \in Nat /\ Inflows(q) \in Nat
      /\ Inflows(q) \in U64 => Inflows(p) \in U64
  BY PricedWhile, MaxU64Assumption DEF U64
<1> QED BY <1>1, PricedWhile

\* What the share vault sees of a step that leaves shares, supply, value, mode and
\* flags alone.
Unseen ==
  /\ pool'.is_initialized = pool.is_initialized
  /\ pool'.pool_mode = pool.pool_mode
  /\ is_resolved(pool') = is_resolved(pool)
  /\ pool'.total_lp_supply = pool.total_lp_supply
  /\ NetValue(pool') = NetValue(pool)
  /\ total_pool_value(pool') = total_pool_value(pool)
  /\ \A u \in Users : deposits'[u].lp_amount = deposits[u].lp_amount

\* If no token moves either it sees nothing.
LEMMA UnseenStutters ==
  ASSUME Unseen, vault' = vault
  PROVE  UNCHANGED SV!svars
<1>1. UNCHANGED <<vault_kind, is_resolved(pool), pool.total_lp_supply, NetValue(pool), vault,
                  total_pool_value(pool)>>
  BY DEF Unseen, vault_kind
<1>2. UNCHANGED [u \in Users |-> deposits[u].lp_amount] BY DEF Unseen
<1> QED BY <1>1, <1>2 DEF SV!svars

\* The code can tell that a pool nothing ever came into or out of is worth nothing.
LEMMA FreshIsPriced ==
  ASSUME NEW p \in StakePoolType, NEW mode \in {InsuranceLp, TradingLp}, FreshPool(p, mode)
  PROVE  total_pool_value(p) # None
<1>1. 0 \in U64 BY MaxU64Assumption DEF U64
<1>2. /\ p.total_withdrawn + p.total_flushed = 0
      /\ p.total_deposited + p.total_returned
            + (IF p.pool_mode = TradingLp THEN p.total_fees_earned ELSE 0) = 0
  BY DEF FreshPool, Totals
<1> QED BY <1>1, <1>2, ValueOfBalanced

\* The initial states are those of a vault nobody has opened, or of an empty one.
LEMMA InitRefines ==
  ASSUME Init
  PROVE  SV!Init
<1>1. PICK mode \in {InsuranceLp, TradingLp} : FreshPool(pool, mode) BY InitStates
<1>2. NetValue(pool) = 0 BY <1>1, FreshBooks
<1>3. pool.total_lp_supply = 0 /\ is_resolved(pool) = FALSE
  BY <1>1 DEF FreshPool, Totals, is_resolved
<1>4. vault = 0 BY InitStates
<1>5. [u \in Users |-> deposits[u].lp_amount] = [u \in Users |-> 0]
  BY DEF Init, ZeroedDeposit
<1>6. vault_kind \in {"none", "insurance", "trading"} BY DEF vault_kind
<1>7. total_pool_value(pool) # None BY <1>1, InitStates, FreshIsPriced DEF TypeOK
<1> QED BY <1>2, <1>3, <1>4, <1>5, <1>6, <1>7 DEF SV!Init

\* InitPool and InitTradingPool open the vault.
LEMMA InitPoolOpens ==
  ASSUME Lifecycle, NEW signer \in Accounts, NEW cooldown \in Cooldowns, NEW cap \in Caps,
         InitPool(signer, cooldown, cap) \/ InitTradingPool(signer, cooldown, cap)
  PROVE  SV!Open
<1>1. TypeOK BY DEF Lifecycle, Accounting
<1>2. /\ ~pool.is_initialized /\ pool'.is_initialized
      /\ UNCHANGED <<deposits, vault>>
  BY <1>1, InitPoolEffect
<1>3. PICK mode \in {InsuranceLp, TradingLp} : FreshPool(pool', mode)
  BY <1>1, InitPoolEffect
<1>4. pool = ZeroedPool BY <1>2 DEF Lifecycle, BlankUntilInit
<1>5. NetValue(pool) = 0 /\ NetValue(pool') = 0 BY <1>3, <1>4, FreshBooks DEF ZeroedPool, NetValue
<1>6. pool.total_lp_supply = 0 /\ pool'.total_lp_supply = 0
  BY <1>3, <1>4 DEF ZeroedPool, FreshPool, Totals
<1>7. is_resolved(pool) = FALSE /\ is_resolved(pool') = FALSE
  BY <1>3, <1>4 DEF ZeroedPool, FreshPool, is_resolved
<1>8. vault_kind = "none" /\ vault_kind' \in {"insurance", "trading"}
  BY <1>2 DEF vault_kind
<1>9. UNCHANGED [u \in Users |-> deposits[u].lp_amount] BY <1>2
<1>10. total_pool_value(pool) # None /\ total_pool_value(pool') # None
  <2>1. FreshPool(pool, InsuranceLp) /\ pool \in StakePoolType
    BY <1>1, <1>4 DEF FreshPool, Totals, ZeroedPool, TypeOK
  <2>2. pool' \in StakePoolType BY <1>1, InitPoolEffect DEF TypeOK
  <2> QED BY <1>3, <2>1, <2>2, FreshIsPriced
<1> QED BY <1>2, <1>5, <1>6, <1>7, <1>8, <1>9, <1>10 DEF SV!Open

\* A deposit is an entry: at par for the first holder, into a pool worth nothing or
\* of unknown worth, for the rounded-down share for every other one.
LEMMA DepositEnters ==
  ASSUME Lifecycle, NEW user \in Users, NEW amount \in Amounts, Deposit(user, amount)
  PROVE  SV!Enter(user)
<1>. DEFINE lp == pool_calc_lp_for_deposit(pool, amount)
            supply == pool.total_lp_supply
<1>1. TypeOK /\ pool \in StakePoolType BY DEF Lifecycle, Accounting, TypeOK
<1>2. /\ amount \in U64 /\ amount > 0 /\ lp \in U64 /\ lp > 0
      /\ Kept(pool, pool') /\ SameStatus(pool, pool')
      /\ Totals(pool', pool.total_deposited + amount, pool.total_withdrawn, supply + lp)
      /\ vault' = vault + amount
      /\ ~is_resolved(pool)
  BY <1>1, DepositEffect
<1>3. /\ supply = 0 => lp = amount
      /\ supply > 0 =>
           /\ total_pool_value(pool) # None /\ total_pool_value(pool) > 0
           /\ lp * total_pool_value(pool) <= amount * supply
           /\ amount * supply < (lp + 1) * total_pool_value(pool)
  BY <1>1, DepositPrice
<1>4. [u \in Users |-> deposits[u].lp_amount]'
        = [[u \in Users |-> deposits[u].lp_amount] EXCEPT ![user] = @ + lp]
  <2>1. deposits' = [deposits EXCEPT ![user] =
                       deposit_record(deposits[user], lp, pool.cooldown_slots)]
    BY DEF Deposit
  <2>2. deposit_record(deposits[user], lp, pool.cooldown_slots).lp_amount
          = deposits[user].lp_amount + lp
    BY DEF deposit_record
  <2>3. deposits \in [Users -> StakeDepositType] BY <1>1 DEF TypeOK
  <2>. HIDE DEF lp
  <2> QED BY <2>1, <2>2, <2>3
<1>. HIDE DEF lp, supply
<1>5. /\ amount \in Nat /\ lp \in Nat /\ supply \in Nat /\ NetValue(pool) \in Int
  BY <1>1, <1>2, PoolFields, MaxU64Assumption DEF U64, supply
<1>6. NetValue(pool') = NetValue(pool) + amount
  BY <1>1, <1>2, <1>5, PoolFields DEF Kept, Totals, NetValue
<1>7. pool'.total_lp_supply = supply + lp BY <1>2 DEF Totals
<1>8. pool.is_initialized BY DEF Deposit, deposit_accepted
<1>9. vault_kind # "none" /\ vault_kind' = vault_kind /\ is_resolved(pool') = is_resolved(pool)
  BY <1>2, <1>8 DEF vault_kind, SameStatus, Kept, is_resolved
<1>10. supply = 0 =>
         NetValue(pool) = 0 \/ (vault_kind = "insurance" /\ total_pool_value(pool) = None)
  <2>1. SUFFICES ASSUME supply = 0
                 PROVE  NetValue(pool) = 0
                          \/ (vault_kind = "insurance" /\ total_pool_value(pool) = None)
    OBVIOUS
  <2>2. CASE total_pool_value(pool) = None
    BY <1>8, <2>1, <2>2 DEF Lifecycle, Accounting, EmptyTogether, vault_kind, supply
  <2>3. CASE total_pool_value(pool) # None
    <3>1. total_pool_value(pool) = NetValue(pool) /\ NetValue(pool) \in U64
      BY <1>1, <2>3, PoolValueExact DEF OptU64
    <3>2. lp = calc_lp_for_deposit(0, NetValue(pool), amount)
      BY <2>1, <2>3, <3>1 DEF lp, supply, pool_calc_lp_for_deposit, unwrap_or
    <3>3. lp # None BY <1>5 DEF None
    <3> QED BY <1>2, <3>1, <3>2, <3>3, LpFirstDeposit
  <2> QED BY <2>2, <2>3
<1>11. supply # 0 =>
         /\ NetValue(pool) > 0
         /\ lp * NetValue(pool) <= amount * supply
         /\ amount * supply < (lp + 1) * NetValue(pool)
  BY <1>1, <1>3, <1>5, PoolValueExact
<1>12. NetValue(pool)' - NetValue(pool) = amount /\ (pool.total_lp_supply)' - pool.total_lp_supply = lp
  BY <1>5, <1>6, <1>7 DEF supply
<1>13. total_pool_value(pool') # None => total_pool_value(pool) # None
  <2>1. pool' \in StakePoolType BY <1>1, DepositEffect DEF TypeOK
  <2>2. NetValue(pool) >= 0 /\ NetValue(pool') >= 0
    BY <1>5, <1>6 DEF Lifecycle, Accounting, NotOverdrawn
  <2>3. Inflows(pool') >= Inflows(pool)
    BY <1>1, <1>2, <1>5, PoolFields DEF Kept, Totals, Inflows
  <2> QED BY <1>1, <2>1, <2>2, <2>3, PriceFollowsInflows
<1>14. supply > 0 => total_pool_value(pool) # None BY <1>3
<1>15. SV!MayLosePrice BY <1>13 DEF SV!MayLosePrice
<1>16. CASE supply = 0
  BY <1>2, <1>3, <1>4, <1>9, <1>10, <1>12, <1>15, <1>16 DEF SV!Enter, supply
<1>17. CASE supply > 0
  <2>1. /\ supply # 0 /\ total_pool_value(pool) # None /\ NetValue(pool) > 0
        /\ SV!RoundedShare(lp, amount, NetValue(pool), supply)
    BY <1>5, <1>11, <1>14, <1>17 DEF SV!RoundedShare
  <2> QED BY <1>2, <1>4, <1>9, <1>12, <1>15, <2>1 DEF SV!Enter, supply
<1> QED BY <1>5, <1>16, <1>17

\* A withdrawal is an exit for the rounded-down share.
LEMMA WithdrawLeaves ==
  ASSUME Lifecycle, NEW user \in Users, NEW lp \in U64, Withdraw(user, lp)
  PROVE  SV!Leave(user)
<1>. DEFINE collateral == pool_calc_collateral_for_withdraw(pool, lp)
            supply == pool.total_lp_supply
<1>1. TypeOK /\ pool \in StakePoolType BY DEF Lifecycle, Accounting, TypeOK
<1>2. /\ lp <= supply /\ collateral # None
      /\ Kept(pool, pool') /\ SameStatus(pool, pool')
      /\ Totals(pool', pool.total_deposited, pool.total_withdrawn + collateral, supply - lp)
      /\ vault' = vault - collateral
  BY <1>1, WithdrawEffect
<1>3. lp > 0 /\ collateral > 0 /\ lp <= deposits[user].lp_amount BY DEF Withdraw, withdraw_accepted
<1>4. total_pool_value(pool) # None BY <1>2 DEF pool_calc_collateral_for_withdraw
<1>5. total_pool_value(pool) = NetValue(pool) /\ NetValue(pool) \in U64 /\ supply \in U64
  BY <1>1, <1>4, PoolValueExact, PoolFields DEF OptU64
<1>6. collateral = calc_collateral_for_withdraw(supply, NetValue(pool), lp)
  BY <1>4, <1>5 DEF pool_calc_collateral_for_withdraw
<1>7. /\ collateral \in 0 .. NetValue(pool)
      /\ collateral * supply <= lp * NetValue(pool)
      /\ lp * NetValue(pool) < (collateral + 1) * supply
  BY <1>2, <1>5, <1>6, CollateralIsShare
<1>8. [u \in Users |-> deposits[u].lp_amount]'
        = [[u \in Users |-> deposits[u].lp_amount] EXCEPT ![user] = @ - lp]
  <2>1. deposits \in [Users -> StakeDepositType] BY <1>1 DEF TypeOK
  <2>2. deposits' = [deposits EXCEPT ![user] = [deposits[user] EXCEPT !.lp_amount = @ - lp]]
    BY <2>1 DEF Withdraw
  <2>3. deposits[user] \in StakeDepositType BY <2>1
  <2> QED BY <2>1, <2>2, <2>3 DEF StakeDepositType
<1>. HIDE DEF collateral, supply
<1>9. /\ collateral \in Nat /\ lp \in Nat /\ supply \in Nat /\ NetValue(pool) \in Nat
  BY <1>5, <1>7, MaxU64Assumption DEF U64
<1>10. NetValue(pool') = NetValue(pool) - collateral
  BY <1>1, <1>2, <1>9, PoolFields DEF Kept, Totals, NetValue
<1>11. pool'.total_lp_supply = supply - lp BY <1>2 DEF Totals
<1>12. vault_kind' = vault_kind /\ is_resolved(pool') = is_resolved(pool)
  BY <1>2 DEF vault_kind, SameStatus, Kept, is_resolved
<1>13. NetValue(pool) - NetValue(pool)' = collateral
       /\ pool.total_lp_supply - (pool.total_lp_supply)' = lp
  BY <1>9, <1>10, <1>11 DEF supply
<1>14. [u \in Users |-> deposits[u].lp_amount][user] = deposits[user].lp_amount OBVIOUS
<1>15. total_pool_value(pool') # None
  <2>1. pool' \in StakePoolType BY <1>1, WithdrawEffect DEF TypeOK
  <2>2. NetValue(pool) >= 0 /\ NetValue(pool') >= 0 BY <1>7, <1>9, <1>10
  <2>3. Inflows(pool') = Inflows(pool) BY <1>2 DEF Kept, Totals, Inflows
  <2>4. Inflows(pool) \in Nat BY <1>1, <2>2, PricedWhile
  <2> QED BY <1>1, <1>4, <2>1, <2>2, <2>3, <2>4, PriceFollowsInflows
<1> QED
  BY <1>2, <1>3, <1>4, <1>7, <1>8, <1>12, <1>13, <1>14, <1>15
     DEF SV!Leave, SV!RoundedShare, supply

\* A flush lends.
LEMMA FlushLends ==
  ASSUME Lifecycle, NEW signer \in Accounts, NEW amount \in Amounts,
         FlushToInsurance(signer, amount)
  PROVE  SV!Lend
<1>1. /\ Accounting /\ pool \in StakePoolType /\ vault \in Nat
  BY MaxU64Assumption DEF Lifecycle, Accounting, TypeOK, TokenTypeOK, U64
<1>2. Accounting' BY <1>1, AccountingFlush
<1>3. amount \in Nat /\ amount > 0
  BY InputsAssumption, MaxU64Assumption DEF FlushToInsurance, U64
<1>4. pool.is_initialized /\ pool.pool_mode = InsuranceLp
  BY DEF FlushToInsurance, validate_flush_pool_mode
<1>5. /\ pool'.is_initialized = pool.is_initialized /\ pool'.pool_mode = pool.pool_mode
      /\ is_resolved(pool') = is_resolved(pool)
      /\ Totals(pool', pool.total_deposited, pool.total_withdrawn, pool.total_lp_supply)
      /\ pool'.total_returned = pool.total_returned
      /\ pool'.total_flushed = pool.total_flushed + amount
      /\ pool'.total_fees_earned = pool.total_fees_earned
  BY <1>1 DEF FlushToInsurance, Totals, is_resolved, StakePoolType
<1>6. NetValue(pool') = NetValue(pool) - amount
  BY <1>1, <1>3, <1>5, PoolFields DEF Totals, NetValue
<1>7. vault' = vault - amount /\ deposits' = deposits
  BY DEF FlushToInsurance, transfer_from_vault
<1>8. NetValue(pool) \in Int /\ NetValue(pool') >= 0
  BY <1>1, <1>2, PoolFields DEF Accounting, NotOverdrawn
<1>9. vault_kind = "insurance" /\ vault_kind' = vault_kind
  BY <1>4, <1>5 DEF vault_kind, InsuranceLp, TradingLp
<1>10. 0 <= NetValue(pool)' /\ NetValue(pool)' < NetValue(pool)
       /\ vault' - vault = NetValue(pool)' - NetValue(pool)
  BY <1>1, <1>3, <1>6, <1>7, <1>8
<1>11. total_pool_value(pool) # None /\ total_pool_value(pool') # None
  <2>1. pool' \in StakePoolType BY <1>2 DEF Accounting, TypeOK
  <2>2. NetValue(pool) >= 0 BY <1>1 DEF Accounting, NotOverdrawn
  <2>3. Inflows(pool') = Inflows(pool) BY <1>5 DEF Totals, Inflows
  <2>4. Inflows(pool) = pool.total_deposited + pool.total_returned
        /\ pool.total_deposited + pool.total_returned \in Int
    BY <1>1, <1>4, PoolFields DEF Inflows, InsuranceLp, TradingLp
  <2>5. checked(pool.total_deposited + pool.total_returned) # None
    BY DEF FlushToInsurance, flush_ceiling
  <2>6. Inflows(pool) \in U64 BY <2>4, <2>5, CheckedType
  <2> QED BY <1>1, <1>8, <2>1, <2>2, <2>3, <2>6, PricedWhile
<1> QED BY <1>5, <1>7, <1>9, <1>10, <1>11 DEF SV!Lend, Totals

\* Returned insurance is recovered; a return of nothing is not seen.
LEMMA ReturnRecovers ==
  ASSUME Lifecycle, NEW signer \in Accounts, NEW amount \in Amounts, NEW dest,
         AdminWithdrawInsurance(signer, amount, dest)
  PROVE  SV!Recover \/ UNCHANGED SV!svars
<1>1. /\ pool \in StakePoolType /\ vault \in Nat
  BY MaxU64Assumption DEF Lifecycle, Accounting, TypeOK, TokenTypeOK, U64
<1>2. amount \in Nat BY InputsAssumption, MaxU64Assumption DEF U64
<1>3. pool.is_initialized /\ pool.pool_mode = InsuranceLp /\ dest = "pool_vault"
  BY DEF AdminWithdrawInsurance, validate_admin_cpi, is_pool_admin,
         validate_withdraw_insurance_pool_mode, validate_return_vault
<1>4. /\ pool'.is_initialized = pool.is_initialized /\ pool'.pool_mode = pool.pool_mode
      /\ is_resolved(pool') = is_resolved(pool)
      /\ Totals(pool', pool.total_deposited, pool.total_withdrawn, pool.total_lp_supply)
      /\ pool'.total_returned = pool.total_returned + amount
      /\ pool'.total_flushed = pool.total_flushed
      /\ pool'.total_fees_earned = pool.total_fees_earned
  BY <1>1 DEF AdminWithdrawInsurance, Totals, is_resolved, StakePoolType
<1>5. NetValue(pool') = NetValue(pool) + amount /\ NetValue(pool) \in Int
  BY <1>1, <1>2, <1>4, PoolFields DEF Totals, NetValue
<1>6. vault' = vault + amount /\ deposits' = deposits
  BY <1>3 DEF AdminWithdrawInsurance
<1>7. CASE amount = 0
  <2>1. pool'.total_returned = pool.total_returned BY <1>1, <1>4, <1>7, PoolFields
  <2>2. total_pool_value(pool') = total_pool_value(pool)
    BY <1>4, <2>1 DEF total_pool_value, Totals
  <2>3. Unseen BY <1>4, <1>5, <1>6, <1>7, <2>2 DEF Unseen, Totals
  <2> QED BY <1>1, <1>6, <1>7, <2>3, UnseenStutters
<1>8. CASE amount > 0
  <2>1. vault_kind = "insurance" /\ vault_kind' = vault_kind
    BY <1>3, <1>4 DEF vault_kind, InsuranceLp, TradingLp
  <2>2. NetValue(pool)' > NetValue(pool) /\ vault' - vault = NetValue(pool)' - NetValue(pool)
    BY <1>1, <1>2, <1>5, <1>6, <1>8
  <2>3. total_pool_value(pool') # None => total_pool_value(pool) # None
    <3>1. pool' \in StakePoolType
      BY <1>1 DEF AdminWithdrawInsurance, StakePoolType
    <3>2. NetValue(pool) >= 0 /\ NetValue(pool') >= 0
      BY <1>2, <1>5 DEF Lifecycle, Accounting, NotOverdrawn
    <3>3. Inflows(pool') >= Inflows(pool)
      BY <1>1, <1>2, <1>4, PoolFields DEF Totals, Inflows
    <3> QED BY <1>1, <3>1, <3>2, <3>3, PriceFollowsInflows
  <2> QED BY <1>4, <1>6, <2>1, <2>2, <2>3 DEF SV!Recover, SV!MayLosePrice, Totals
<1> QED BY <1>2, <1>7, <1>8

\* The crank credits the holders of a trading vault with tokens that are there; a
\* crank that finds none, or no holders, is not seen.
LEMMA AccrueCredits ==
  ASSUME Lifecycle, AccrueFees
  PROVE  SV!Credit \/ UNCHANGED SV!svars
<1>1. /\ Accounting /\ pool \in StakePoolType /\ vault' = vault /\ deposits' = deposits
      /\ pool.is_initialized /\ pool.pool_mode = TradingLp
  BY DEF Lifecycle, Accounting, TypeOK, AccrueFees
<1>2. Accounting' BY <1>1, AccountingAccrue
<1>3. /\ pool' \in StakePoolType
      /\ NetValue(pool) \in Int /\ NetValue(pool') \in Int /\ vault \in Nat
      /\ pool'.pre_supply_vault_offset \in Nat /\ pool.total_lp_supply \in Nat
  BY <1>1, <1>2, PoolFields, MaxU64Assumption DEF Accounting, TypeOK, TokenTypeOK, U64
<1>4. /\ pool'.is_initialized = pool.is_initialized /\ pool'.pool_mode = pool.pool_mode
      /\ is_resolved(pool') = is_resolved(pool)
      /\ Totals(pool', pool.total_deposited, pool.total_withdrawn, pool.total_lp_supply)
      /\ pool'.total_returned = pool.total_returned
      /\ pool'.total_flushed = pool.total_flushed
      /\ pool.total_lp_supply = 0 => pool'.total_fees_earned = pool.total_fees_earned
  BY <1>1 DEF AccrueFees, accrue, Totals, is_resolved, StakePoolType
<1>5. NetValue(pool') >= NetValue(pool) BY <1>1, CrankGains
<1>6. NetValue(pool') <= vault
  BY <1>1, <1>2, <1>3 DEF Accounting, Solvent
<1>7. CASE NetValue(pool') = NetValue(pool)
  <2>1. pool'.total_fees_earned = pool.total_fees_earned
    BY <1>1, <1>3, <1>4, <1>7, PoolFields DEF Totals, NetValue
  <2>2. total_pool_value(pool') = total_pool_value(pool)
    BY <1>4, <2>1 DEF total_pool_value, Totals
  <2>3. Unseen BY <1>1, <1>4, <1>7, <2>2 DEF Unseen, Totals
  <2> QED BY <1>1, <2>3, UnseenStutters
<1>8. CASE NetValue(pool') # NetValue(pool)
  <2>1. pool.total_lp_supply # 0 BY <1>4, <1>8 DEF Totals, NetValue
  <2>2. vault_kind = "trading" /\ vault_kind' = vault_kind
    BY <1>1, <1>4 DEF vault_kind
  <2>3. NetValue(pool)' > NetValue(pool) /\ NetValue(pool)' <= vault /\ pool.total_lp_supply > 0
    BY <1>3, <1>5, <1>6, <1>8, <2>1
  <2>4. NetValue(pool) >= 0 /\ NetValue(pool') >= 0
    BY <1>1, <1>2 DEF Accounting, NotOverdrawn
  <2>5. total_pool_value(pool) # None
    <3>1. accrual_baseline(pool) # None
      BY <2>3 DEF AccrueFees, expected_balance
    <3>2. checked(pool.total_deposited + pool.total_fees_earned) # None
      BY <3>1 DEF accrual_baseline
    <3>3. Inflows(pool) = pool.total_deposited + pool.total_fees_earned
          /\ pool.total_deposited + pool.total_fees_earned \in Int
      BY <1>1, PoolFields DEF Inflows, Accounting, ModesApart
    <3>4. Inflows(pool) \in U64 BY <3>2, <3>3, CheckedType
    <3> QED BY <1>1, <2>4, <3>4, PricedWhile
  <2> QED BY <1>1, <1>4, <2>2, <2>3, <2>5 DEF SV!Credit, SV!MayLosePrice, Totals
<1> QED BY <1>7, <1>8

\* Configuration, the admin's calls to the market, LP token moves, the insurance
\* fund and the clock change no one's part.
LEMMA QuietAdmin ==
  ASSUME Lifecycle, NEW signer \in Accounts
  PROVE  /\ \A cooldown, cap : UpdateConfig(signer, cooldown, cap) => UNCHANGED SV!svars
         /\ \A enabled \in BOOLEAN : \A bps :
              AdminSetHwmConfig(signer, enabled, bps) => UNCHANGED SV!svars
         /\ TransferAdmin(signer) => UNCHANGED SV!svars
         /\ \A key : AdminSetOracleAuthority(signer, key) => UNCHANGED SV!svars
         /\ \A key : AdminSetInsurancePolicy(signer, key) => UNCHANGED SV!svars
         /\ MarketAdminResolves(signer) => UNCHANGED SV!svars
<1>1. pool \in StakePoolType BY DEF Lifecycle, Accounting, TypeOK
<1>2. ASSUME pool' = pool, deposits' = deposits, vault' = vault PROVE UNCHANGED SV!svars
  BY <1>2, UnseenStutters DEF Unseen
<1>3. ASSUME NEW cooldown, NEW cap, UpdateConfig(signer, cooldown, cap)
      PROVE  UNCHANGED SV!svars
  <2>1. Unseen BY <1>1, <1>3
          DEF UpdateConfig, Unseen, is_resolved, NetValue, total_pool_value, StakePoolType
  <2> QED BY <1>3, <2>1, UnseenStutters DEF UpdateConfig
<1>4. ASSUME NEW enabled \in BOOLEAN, NEW bps, AdminSetHwmConfig(signer, enabled, bps)
      PROVE  UNCHANGED SV!svars
  <2>1. pool'.flags = IF enabled THEN pool.flags \cup {"hwm_enabled"}
                                 ELSE pool.flags \ {"hwm_enabled"}
    BY <1>1, <1>4 DEF AdminSetHwmConfig, set_hwm_enabled, StakePoolType
  <2>2. is_resolved(pool') = is_resolved(pool) BY <2>1 DEF is_resolved
  <2>3. Unseen
    BY <1>1, <1>4, <2>2
       DEF AdminSetHwmConfig, set_hwm_enabled, Unseen, NetValue, total_pool_value, StakePoolType
  <2> QED BY <1>4, <2>3, UnseenStutters DEF AdminSetHwmConfig
<1>5. ASSUME TransferAdmin(signer) PROVE UNCHANGED SV!svars
  <2>1. Unseen BY <1>1, <1>5
          DEF TransferAdmin, Unseen, is_resolved, NetValue, total_pool_value, StakePoolType
  <2> QED BY <1>5, <2>1, UnseenStutters DEF TransferAdmin
<1>6. ASSUME NEW key, AdminSetOracleAuthority(signer, key) PROVE UNCHANGED SV!svars
  BY <1>2, <1>6 DEF AdminSetOracleAuthority
<1>7. ASSUME NEW key, AdminSetInsurancePolicy(signer, key) PROVE UNCHANGED SV!svars
  BY <1>2, <1>7 DEF AdminSetInsurancePolicy
<1>8. ASSUME MarketAdminResolves(signer) PROVE UNCHANGED SV!svars
  BY <1>2, <1>8 DEF MarketAdminResolves
<1> QED BY <1>3, <1>4, <1>5, <1>6, <1>7, <1>8

\* Resolving through the program closes the vault.
LEMMA ResolveCloses ==
  ASSUME Lifecycle, NEW signer \in Accounts, AdminResolveMarket(signer)
  PROVE  SV!Close
<1>1. pool \in StakePoolType /\ pool.is_initialized /\ pool' = set_resolved(pool)
      /\ UNCHANGED <<deposits, vault>>
  BY DEF Lifecycle, Accounting, TypeOK, AdminResolveMarket, validate_admin_cpi, is_pool_admin
<1>2. is_resolved(pool') = TRUE
  BY <1>1 DEF set_resolved, is_resolved, StakePoolType
<1>3. UNCHANGED <<vault_kind, pool.total_lp_supply, NetValue(pool), total_pool_value(pool)>>
  BY <1>1 DEF set_resolved, vault_kind, NetValue, total_pool_value, StakePoolType
<1>4. vault_kind # "none" BY <1>1 DEF vault_kind
<1>5. UNCHANGED [u \in Users |-> deposits[u].lp_amount] BY <1>1
<1> QED BY <1>1, <1>2, <1>3, <1>4, <1>5 DEF SV!Close

\* Tokens sent straight to the vault are a gift: nobody's until the crank runs.
LEMMA TransferGives ==
  ASSUME Lifecycle, NEW amount \in Donations, DirectTransfer(amount)
  PROVE  SV!Gift
<1>1. vault \in Nat /\ amount \in Nat /\ amount > 0
  BY InputsAssumption, MaxU64Assumption
     DEF Lifecycle, Accounting, TypeOK, TokenTypeOK, U64, DirectTransfer
<1>2. vault' > vault BY <1>1 DEF DirectTransfer, transfer_to_vault
<1>3. pool.is_initialized /\ pool' = pool /\ deposits' = deposits BY DEF DirectTransfer
<1>4. vault_kind # "none" BY <1>3 DEF vault_kind
<1>5. UNCHANGED <<vault_kind, is_resolved(pool), pool.total_lp_supply, NetValue(pool),
                  total_pool_value(pool)>>
  BY <1>3 DEF vault_kind
<1>6. UNCHANGED [u \in Users |-> deposits[u].lp_amount] BY <1>3
<1> QED BY <1>2, <1>4, <1>5, <1>6 DEF SV!Gift

\* LP token moves, the market's insurance fund and the clock.
LEMMA QuietBeside ==
  ASSUME Lifecycle
  PROVE  /\ \A user, to, lp : TransferLp(user, to, lp) => UNCHANGED SV!svars
         /\ \A user, lp : BurnLp(user, lp) => UNCHANGED SV!svars
         /\ \A level : InsuranceMoves(level) => UNCHANGED SV!svars
         /\ Tick => UNCHANGED SV!svars
         /\ UNCHANGED vars => UNCHANGED SV!svars
<1>1. ASSUME pool' = pool, deposits' = deposits, vault' = vault PROVE UNCHANGED SV!svars
  BY <1>1, UnseenStutters DEF Unseen
<1> QED BY <1>1 DEF TransferLp, BurnLp, InsuranceMoves, Tick, vars

\* Every step of the program is a step of the share vault or none.
LEMMA StepRefines ==
  ASSUME Lifecycle, [Next]_vars
  PROVE  [SV!Next]_SV!svars
<1>1. ASSUME NEW signer \in Accounts, AdminStep(signer) PROVE [SV!Next]_SV!svars
  <2>1. ASSUME NEW cooldown \in Cooldowns, NEW cap \in Caps,
               InitPool(signer, cooldown, cap) \/ InitTradingPool(signer, cooldown, cap)
        PROVE  SV!Next
    BY <2>1, InitPoolOpens DEF SV!Next
  <2>2. ASSUME NEW amount \in Amounts, FlushToInsurance(signer, amount) PROVE SV!Next
    BY <2>2, FlushLends DEF SV!Next
  <2>3. ASSUME NEW amount \in Amounts, NEW dest, AdminWithdrawInsurance(signer, amount, dest)
        PROVE  SV!Next \/ UNCHANGED SV!svars
    BY <2>3, ReturnRecovers DEF SV!Next
  <2>4. ASSUME AdminResolveMarket(signer) PROVE SV!Next
    BY <2>4, ResolveCloses DEF SV!Next
  <2> QED BY <1>1, <2>1, <2>2, <2>3, <2>4, QuietAdmin DEF AdminStep
<1>2. ASSUME NEW user \in Users, UserStep(user) PROVE [SV!Next]_SV!svars
  <2>1. ASSUME NEW amount \in Amounts, Deposit(user, amount) PROVE SV!Next
    BY <2>1, DepositEnters DEF SV!Next
  <2>2. ASSUME NEW lp \in U64, Withdraw(user, lp) PROVE SV!Next
    BY <2>2, WithdrawLeaves DEF SV!Next
  <2> QED BY <1>2, <2>1, <2>2, QuietBeside DEF UserStep
<1>3. CASE Environment
  <2>1. ASSUME AccrueFees PROVE SV!Next \/ UNCHANGED SV!svars
    BY <2>1, AccrueCredits DEF SV!Next
  <2>2. ASSUME NEW amount \in Donations, DirectTransfer(amount) PROVE SV!Next
    BY <2>2, TransferGives DEF SV!Next
  <2> QED BY <1>3, <2>1, <2>2, QuietBeside DEF Environment
<1> QED BY <1>1, <1>2, <1>3, QuietBeside DEF Next

\* The seven counters, the flag byte, the records and the vault account together
\* do what ShareVault promises its holders, whatever instructions, token
\* transfers and cranks interleave (processor.rs 406-924, 1165-1243, 1298-1379).
THEOREM Refinement == Spec => ImplementsShareVault
<1>1. Init => SV!Init BY InitRefines
<1>2. Lifecycle /\ [Next]_vars => [SV!Next]_SV!svars BY StepRefines
<1> QED BY <1>1, <1>2, LifecycleInvariant, PTL DEF Spec, ImplementsShareVault, SV!Spec
==============================================================================
