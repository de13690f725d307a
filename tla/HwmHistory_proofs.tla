-------------------------- MODULE HwmHistory_proofs --------------------------
(***************************************************************************)
(* The high-water mark, for every number of users, every width of the      *)
(* integers, every length of an epoch and every set of inputs.             *)
(***************************************************************************)
EXTENDS HwmHistory, StakeVault_proofs

-----------------------------------------------------------------------------
(* What a step does to the mark *)

\* The mark is left alone.
Unmarked ==
  /\ pool'.hwm_last_epoch = pool.hwm_last_epoch
  /\ pool'.epoch_high_water_tvl = pool.epoch_high_water_tvl

\* The mark has been refreshed with the value tvl in the current epoch.
Marked(tvl) ==
  /\ pool'.hwm_last_epoch = epoch
  /\ pool'.epoch_high_water_tvl >= tvl
  /\ pool.hwm_last_epoch = epoch => pool'.epoch_high_water_tvl >= pool.epoch_high_water_tvl
  /\ \/ pool'.epoch_high_water_tvl = tvl
     \/ /\ pool.hwm_last_epoch = epoch
        /\ pool'.epoch_high_water_tvl = pool.epoch_high_water_tvl

\* A step that neither pays anybody out nor looks at the mark lowers the value only
\* by flushing.
Unwatched ==
  /\ Unmarked
  /\ pool'.total_withdrawn = pool.total_withdrawn
  /\ pool'.total_flushed = pool.total_flushed => NetValue(pool') >= NetValue(pool)

\* refresh_hwm starts the mark anew in a new epoch and raises it within one
\* (state.rs 289-301).
LEMMA RefreshMarks ==
  ASSUME NEW p \in StakePoolType, NEW e \in U64, NEW tvl \in U64
  PROVE  LET q == refresh_hwm(p, e, tvl)
         IN  /\ q.hwm_last_epoch = e
             /\ q.epoch_high_water_tvl >= tvl
             /\ p.hwm_last_epoch = e => q.epoch_high_water_tvl >= p.epoch_high_water_tvl
             /\ \/ q.epoch_high_water_tvl = tvl
                \/ p.hwm_last_epoch = e /\ q.epoch_high_water_tvl = p.epoch_high_water_tvl
<1>1. tvl \in Nat /\ p.epoch_high_water_tvl \in Nat BY MaxU64Assumption DEF U64, StakePoolType
<1>2. CASE e # p.hwm_last_epoch BY <1>1, <1>2 DEF refresh_hwm, StakePoolType
<1>3. CASE e = p.hwm_last_epoch BY <1>1, <1>3 DEF refresh_hwm, greater, StakePoolType
<1> QED BY <1>2, <1>3

\* A deposit marks the value it leaves, or less if that cannot be computed
\* (processor.rs 543-546).
LEMMA DepositMarks ==
  ASSUME Accounting, NEW user \in Users, NEW amount \in Amounts, Deposit(user, amount)
  PROVE  /\ NetValue(pool') >= NetValue(pool)
         /\ pool'.total_withdrawn = pool.total_withdrawn
         /\ slot' = slot
         /\ \/ Unmarked
            \/ \E tvl \in Nat : tvl <= NetValue(pool') /\ Marked(tvl)
<1>. DEFINE lp == pool_calc_lp_for_deposit(pool, amount)
            p1 == [pool EXCEPT !.total_deposited = @ + amount, !.total_lp_supply = @ + lp]
            tvl == unwrap_or(total_pool_value(p1), 0)
<1>1. TypeOK /\ pool \in StakePoolType BY DEF Accounting, TypeOK
<1>2. /\ amount \in Nat /\ TypeOK'
      /\ Kept(pool, pool')
      /\ Totals(pool', pool.total_deposited + amount, pool.total_withdrawn,
                pool.total_lp_supply + lp)
  BY <1>1, DepositEffect, MaxU64Assumption DEF U64
<1>3. pool' = deposit_refresh(p1, epoch) /\ slot' = slot BY DEF Deposit
<1>4. p1 \in StakePoolType
  <2>1. pool.total_deposited + amount \in U64 /\ pool.total_lp_supply + lp \in U64
    BY DEF Deposit, deposit_accepted
  <2>. HIDE DEF lp
  <2> QED BY <1>1, <2>1 DEF StakePoolType
<1>5. /\ p1.hwm_last_epoch = pool.hwm_last_epoch
      /\ p1.epoch_high_water_tvl = pool.epoch_high_water_tvl
  BY <1>1 DEF StakePoolType
<1>6. NetValue(p1) = NetValue(pool) + amount /\ NetValue(pool') = NetValue(pool) + amount
  <2>. HIDE DEF lp
  <2>1. NetValue(p1) = NetValue(pool) + amount
    BY <1>1, <1>2, PoolFields DEF NetValue, StakePoolType
  <2>2. NetValue(pool') = NetValue(pool) + amount
    BY <1>1, <1>2, PoolFields DEF NetValue, Kept, Totals
  <2> QED BY <2>1, <2>2
<1>. HIDE DEF p1, lp
<1>7. NetValue(pool) \in Nat BY <1>1, PoolFields DEF Accounting, NotOverdrawn
<1>8. tvl \in U64 /\ tvl \in Nat /\ tvl <= NetValue(pool')
  <2>1. tvl \in U64 /\ tvl \in Nat BY <1>4, PoolValueOrZero, MaxU64Assumption DEF U64
  <2>2. tvl = 0 \/ tvl = NetValue(p1) BY <1>4, PoolValueExact DEF unwrap_or
  <2> QED BY <1>2, <1>6, <1>7, <2>1, <2>2
<1>9. CASE ~hwm_enabled(p1)
  <2>1. Unmarked BY <1>3, <1>5, <1>9 DEF deposit_refresh, Unmarked
  <2> QED BY <1>2, <1>3, <1>6, <1>7, <2>1 DEF Totals
<1>10. CASE hwm_enabled(p1)
  <2>1. pool' = refresh_hwm(p1, epoch, tvl) BY <1>3, <1>10 DEF deposit_refresh
  <2>. HIDE DEF tvl
  <2>. HIDE DEF p1
  <2>2. epoch \in U64 BY <1>1, EpochType
  <2>3. /\ pool'.hwm_last_epoch = epoch
        /\ pool'.epoch_high_water_tvl >= tvl
        /\ p1.hwm_last_epoch = epoch => pool'.epoch_high_water_tvl >= p1.epoch_high_water_tvl
        /\ \/ pool'.epoch_high_water_tvl = tvl
           \/ /\ p1.hwm_last_epoch = epoch
              /\ pool'.epoch_high_water_tvl = p1.epoch_high_water_tvl
    BY <1>4, <1>8, <2>1, <2>2, RefreshMarks
  <2>4. Marked(tvl) BY <1>5, <2>3 DEF Marked
  <2> QED BY <1>2, <1>3, <1>6, <1>7, <1>8, <2>4 DEF Totals
<1> QED BY <1>9, <1>10

\* With protection on, a withdrawal marks the value it finds and leaves at least the
\* configured share of the mark (processor.rs 725-741, math.rs 266-289).
LEMMA WithdrawMarks ==
  ASSUME Accounting, NEW user \in Users, NEW lp \in U64, Withdraw(user, lp)
  PROVE  /\ slot' = slot
         /\ ~hwm_enabled(pool) => Unmarked
         /\ hwm_enabled(pool) =>
              /\ Marked(NetValue(pool))
              /\ NetValue(pool') >=
                   (pool'.epoch_high_water_tvl * pool.hwm_floor_bps) \div BpsDenominator
<1>. DEFINE collateral == pool_calc_collateral_for_withdraw(pool, lp)
            refreshed == withdraw_hwm(pool, epoch)
            v == NetValue(pool)
<1>1. TypeOK /\ pool \in StakePoolType BY DEF Accounting, TypeOK
<1>2. /\ collateral # None /\ Kept(pool, pool')
      /\ Totals(pool', pool.total_deposited, pool.total_withdrawn + collateral,
                pool.total_lp_supply - lp)
  BY <1>1, WithdrawEffect
<1>3. total_pool_value(pool) # None BY <1>2 DEF pool_calc_collateral_for_withdraw
<1>4. total_pool_value(pool) = v /\ v \in U64 BY <1>1, <1>3, PoolValueExact DEF OptU64
<1>5. lp <= pool.total_lp_supply /\ pool.total_lp_supply \in U64
  BY <1>1, PoolFields DEF Withdraw, withdraw_accepted
<1>6. collateral = calc_collateral_for_withdraw(pool.total_lp_supply, v, lp)
  BY <1>3, <1>4 DEF pool_calc_collateral_for_withdraw
<1>7. collateral \in 0 .. v BY <1>2, <1>4, <1>5, <1>6, CollateralIsShare
<1>8. /\ hwm_allows(refreshed, collateral) /\ slot' = slot
      /\ pool' = [refreshed EXCEPT !.total_withdrawn = @ + collateral,
                                   !.total_lp_supply = @ - lp]
  BY DEF Withdraw, withdraw_accepted
<1>9. /\ refreshed \in StakePoolType /\ Kept(pool, refreshed) /\ SameStatus(pool, refreshed)
      /\ Totals(refreshed, pool.total_deposited, pool.total_withdrawn, pool.total_lp_supply)
  BY <1>1, RefreshKeepsBooks
<1>10. ~hwm_enabled(pool) => refreshed = pool BY DEF withdraw_hwm
<1>11. hwm_enabled(pool) => refreshed = refresh_hwm(pool, epoch, v)
  BY <1>3, <1>4 DEF withdraw_hwm, unwrap_or
<1>. HIDE DEF collateral, refreshed, v
<1>12. /\ pool'.hwm_last_epoch = refreshed.hwm_last_epoch
       /\ pool'.epoch_high_water_tvl = refreshed.epoch_high_water_tvl
  BY <1>8, <1>9 DEF StakePoolType
<1>13. CASE ~hwm_enabled(pool) BY <1>8, <1>10, <1>12, <1>13 DEF Unmarked
<1>14. CASE hwm_enabled(pool)
  <2>1. Marked(v) BY <1>1, <1>4, <1>11, <1>12, <1>14, EpochType, RefreshMarks DEF Marked
  <2>2. v \in Nat /\ collateral \in Nat /\ v - collateral \in U64
    BY <1>4, <1>7, MaxU64Assumption DEF U64
  <2>3. NetValue(pool') = v - collateral
    BY <1>1, <1>2, <2>2, PoolFields DEF NetValue, Kept, Totals, v
  <2>4. hwm_enabled(refreshed) /\ refreshed.hwm_floor_bps = pool.hwm_floor_bps
    BY <1>9, <1>14 DEF SameStatus, hwm_enabled
  <2>5. total_pool_value(refreshed) = v
    BY <1>4, <1>9 DEF total_pool_value, Kept, Totals
  <2>6. unwrap_or(total_pool_value(refreshed), 0) = v
    BY <2>2, <2>5, MaxU64Assumption DEF unwrap_or, None
  <2>7. checked(v - collateral) = v - collateral BY <2>2, CheckedType
  <2>8. hwm_withdrawal_allowed(v - collateral, refreshed.epoch_high_water_tvl,
                               pool.hwm_floor_bps)
    BY <1>8, <2>4, <2>6, <2>7 DEF hwm_allows
  <2>. DEFINE floor == (refreshed.epoch_high_water_tvl * pool.hwm_floor_bps) \div BpsDenominator
  <2>9. floor \in Nat
    <3>1. refreshed.epoch_high_water_tvl \in Nat /\ pool.hwm_floor_bps \in Nat
      <4>1. refreshed.epoch_high_water_tvl \in U64 BY <1>9 DEF StakePoolType
      <4>2. pool.hwm_floor_bps \in 0 .. BpsDenominator BY <1>1 DEF StakePoolType
      <4> QED BY <4>1, <4>2, MaxU64Assumption DEF U64
    <3>2. refreshed.epoch_high_water_tvl * pool.hwm_floor_bps \in Nat BY <3>1
    <3> QED BY <3>2, DivFloor DEF BpsDenominator
  <2>10. checked(floor) # None /\ v - collateral >= checked(floor)
    BY <2>8 DEF hwm_withdrawal_allowed, hwm_floor
  <2>11. v - collateral >= floor
    <3>. HIDE DEF floor
    <3> QED BY <2>9, <2>10, CheckedType
  <2> QED BY <1>8, <1>12, <1>14, <2>1, <2>3, <2>11 DEF v
<1> QED BY <1>13, <1>14

\* Nothing else touches the mark.
LEMMA MarkStep ==
  ASSUME Accounting, [Next]_vars
  PROVE  \/ \E user \in Users, amount \in Amounts : Deposit(user, amount)
         \/ \E user \in Users, lp \in U64 : Withdraw(user, lp)
         \/ slot' = slot /\ \E mode \in {InsuranceLp, TradingLp} : FreshPool(pool', mode)
         \/ Unwatched
<1>. DEFINE Begins == slot' = slot /\ \E mode \in {InsuranceLp, TradingLp} : FreshPool(pool', mode)
<1>1. TypeOK /\ pool \in StakePoolType /\ NetValue(pool) \in Int
  BY PoolFields DEF Accounting, TypeOK
<1>2. ASSUME NEW signer \in Accounts, AdminStep(signer) PROVE Begins \/ Unwatched
  <2>1. ASSUME NEW cooldown \in Cooldowns, NEW cap \in Caps,
               InitPool(signer, cooldown, cap) \/ InitTradingPool(signer, cooldown, cap)
        PROVE  Begins
    BY <1>1, <2>1, InitPoolEffect DEF InitPool, InitTradingPool
  <2>2. ASSUME NEW amount \in Amounts, FlushToInsurance(signer, amount) PROVE Unwatched
    <3>1. amount \in Nat /\ amount > 0
      BY <2>2, InputsAssumption, MaxU64Assumption DEF FlushToInsurance, U64
    <3>2. pool'.total_flushed # pool.total_flushed
      BY <1>1, <2>2, <3>1, PoolFields DEF FlushToInsurance, StakePoolType
    <3> QED BY <1>1, <2>2, <3>2 DEF FlushToInsurance, Unwatched, Unmarked, StakePoolType
  <2>3. ASSUME NEW amount \in Amounts, NEW dest, AdminWithdrawInsurance(signer, amount, dest)
        PROVE  Unwatched
    <3>1. amount \in Nat BY InputsAssumption, MaxU64Assumption DEF U64
    <3>2. NetValue(pool') >= NetValue(pool)
      BY <1>1, <2>3, <3>1, PoolFields DEF AdminWithdrawInsurance, NetValue, StakePoolType
    <3> QED BY <1>1, <2>3, <3>2 DEF AdminWithdrawInsurance, Unwatched, Unmarked, StakePoolType
  <2>4. ASSUME SameBooks, Unmarked PROVE Unwatched
    <3>1. NetValue(pool') = NetValue(pool) BY <2>4 DEF SameBooks, Kept, Totals, NetValue
    <3> QED BY <1>1, <2>4, <3>1 DEF Unwatched, SameBooks, Totals
  <2>5. ASSUME NEW cooldown \in Cooldowns \cup {None}, NEW cap \in Caps \cup {None},
               UpdateConfig(signer, cooldown, cap)
        PROVE  Unwatched
    <3>1. Unmarked BY <1>1, <2>5 DEF UpdateConfig, Unmarked, StakePoolType
    <3> QED BY <1>1, <2>4, <2>5, <3>1, ConfigKeepsBooks
  <2>6. ASSUME NEW enabled \in BOOLEAN, NEW bps \in HwmBps,
               AdminSetHwmConfig(signer, enabled, bps)
        PROVE  Unwatched
    <3>1. Unmarked BY <1>1, <2>6 DEF AdminSetHwmConfig, set_hwm_enabled, Unmarked, StakePoolType
    <3> QED BY <1>1, <2>4, <2>6, <3>1, ConfigKeepsBooks
  <2>7. ASSUME TransferAdmin(signer) \/ AdminResolveMarket(signer) PROVE Unwatched
    <3>1. Unmarked
      BY <1>1, <2>7 DEF TransferAdmin, AdminResolveMarket, set_resolved, Unmarked, StakePoolType
    <3> QED BY <1>1, <2>4, <2>7, <3>1, ConfigKeepsBooks
  <2>8. ASSUME pool' = pool PROVE Unwatched BY <1>1, <2>8 DEF Unwatched, Unmarked
  <2>9. ASSUME \/ \E key \in OracleKeys : AdminSetOracleAuthority(signer, key)
               \/ \E key \in PolicyKeys : AdminSetInsurancePolicy(signer, key)
               \/ MarketAdminResolves(signer)
        PROVE  Unwatched
    BY <2>8, <2>9 DEF AdminSetOracleAuthority, AdminSetInsurancePolicy, MarketAdminResolves
  <2>. HIDE DEF Begins
  <2> QED BY <1>2, <2>1, <2>2, <2>3, <2>5, <2>6, <2>7, <2>9 DEF AdminStep
<1>3. ASSUME AccrueFees PROVE Unwatched
  <2>1. NetValue(pool') >= NetValue(pool) BY <1>3, CrankGains
  <2>2. Unmarked /\ pool'.total_withdrawn = pool.total_withdrawn
    BY <1>1, <1>3 DEF AccrueFees, accrue, Unmarked, StakePoolType
  <2> QED BY <2>1, <2>2 DEF Unwatched
<1>4. ASSUME pool' = pool PROVE Unwatched BY <1>1, <1>4 DEF Unwatched, Unmarked
<1>5. ASSUME Environment, ~AccrueFees PROVE Unwatched
  BY <1>4, <1>5 DEF Environment, DirectTransfer, InsuranceMoves, Tick
<1>6. ASSUME NEW user, NEW to, NEW lp, TransferLp(user, to, lp) \/ BurnLp(user, lp)
      PROVE  Unwatched
  BY <1>4, <1>6 DEF TransferLp, BurnLp
<1>7. ASSUME UNCHANGED vars PROVE Unwatched BY <1>4, <1>7 DEF vars
<1>. HIDE DEF Begins
<1>8. \/ \E user \in Users, amount \in Amounts : Deposit(user, amount)
      \/ \E user \in Users, lp \in U64 : Withdraw(user, lp)
      \/ Begins \/ Unwatched
  BY <1>2, <1>3, <1>5, <1>6, <1>7 DEF Next, UserStep
<1> QED BY <1>8 DEF Begins

\* The epoch never goes back.
LEMMA EpochStep ==
  ASSUME TypeOK, [Next]_vars
  PROVE  epoch \in Nat /\ epoch' \in Nat /\ epoch' >= epoch
<1>1. TypeOK' BY TypeStep
<1>2. slot \in Nat /\ slot' \in Nat /\ SlotsPerEpoch \in Nat \ {0}
  BY <1>1, InputsAssumption DEF TypeOK
<1>4. slot' >= slot BY ClockStep
<1>5. slot' \div SlotsPerEpoch >= slot \div SlotsPerEpoch
  BY <1>2, <1>4, DivMonotone, DivFloor
<1> QED BY <1>2, <1>5, DivFloor DEF epoch

-----------------------------------------------------------------------------
(* The mark is never too high *)

\* Besides HwmNeverOverstates itself: top is what its name says, and the mark is
\* never dated in the future, so that the next epoch starts without one.
MarkInv ==
  /\ Accounting
  /\ top \in Nat /\ NetValue(pool) <= top
  /\ pool.hwm_last_epoch <= epoch
  /\ HwmNeverOverstates

\* Every step keeps the mark at or below the highest value of the epoch.
LEMMA MarkInvStep ==
  ASSUME MarkInv, [HNext]_hvars
  PROVE  MarkInv'
<1>1. CASE UNCHANGED hvars
  <2>1. UNCHANGED vars BY <1>1 DEF hvars, vars
  <2>2. Accounting' BY <2>1, AccountingStep DEF MarkInv
  <2>3. epoch' = epoch BY <1>1 DEF hvars, epoch
  <2> QED BY <1>1, <2>2, <2>3 DEF MarkInv, hvars, HwmNeverOverstates
<1>2. CASE HNext
  <2>1. Accounting /\ Accounting' /\ Next BY <1>2, AccountingStep DEF MarkInv, HNext
  <2>2. /\ pool \in StakePoolType /\ pool' \in StakePoolType /\ TypeOK
        /\ NetValue(pool) \in Nat /\ NetValue(pool') \in Nat
    BY <2>1, PoolFields DEF Accounting, TypeOK, NotOverdrawn
  <2>3. /\ pool.hwm_last_epoch \in Nat /\ pool'.hwm_last_epoch \in Nat
        /\ pool.epoch_high_water_tvl \in Nat /\ pool'.epoch_high_water_tvl \in Nat
    BY <2>2, MaxU64Assumption DEF StakePoolType, U64
  <2>4. epoch \in Nat /\ epoch' \in Nat /\ epoch' >= epoch BY <2>1, <2>2, EpochStep
  <2>5. /\ top' \in Nat /\ NetValue(pool') <= top'
        /\ epoch' = epoch => top <= top'
    BY <1>2, <2>2 DEF HNext, HistoryNext, greater, MarkInv
  <2>6. SUFFICES /\ pool'.hwm_last_epoch <= epoch'
                 /\ pool'.hwm_last_epoch = epoch' => pool'.epoch_high_water_tvl <= top'
    BY <2>1, <2>5 DEF MarkInv, HwmNeverOverstates
  <2>7. ASSUME NEW tvl \in Nat, Marked(tvl), epoch' = epoch, tvl <= top'
        PROVE  /\ pool'.hwm_last_epoch <= epoch'
               /\ pool'.epoch_high_water_tvl <= top'
    BY <2>3, <2>4, <2>5, <2>7 DEF MarkInv, HwmNeverOverstates, Marked
  <2>8. ASSUME Unmarked
        PROVE  /\ pool'.hwm_last_epoch <= epoch'
               /\ pool'.hwm_last_epoch = epoch' => pool'.epoch_high_water_tvl <= top'
    BY <2>3, <2>4, <2>5, <2>8 DEF MarkInv, HwmNeverOverstates, Unmarked
  <2>9. ASSUME NEW user \in Users, NEW amount \in Amounts, Deposit(user, amount)
        PROVE  /\ pool'.hwm_last_epoch <= epoch'
               /\ pool'.hwm_last_epoch = epoch' => pool'.epoch_high_water_tvl <= top'
    <3>1. epoch' = epoch BY <2>9 DEF Deposit, epoch
    <3>2. Unmarked \/ \E tvl \in Nat : tvl <= NetValue(pool') /\ Marked(tvl)
      BY <2>1, <2>9, DepositMarks
    <3>3. \A tvl \in Nat : tvl <= NetValue(pool') => tvl <= top' BY <2>2, <2>5
    <3> QED BY <2>7, <2>8, <3>1, <3>2, <3>3
  <2>10. ASSUME NEW user \in Users, NEW lp \in U64, Withdraw(user, lp)
         PROVE  /\ pool'.hwm_last_epoch <= epoch'
                /\ pool'.hwm_last_epoch = epoch' => pool'.epoch_high_water_tvl <= top'
    <3>1. epoch' = epoch BY <2>10 DEF Withdraw, epoch
    <3>2. Unmarked \/ Marked(NetValue(pool)) BY <2>1, <2>10, WithdrawMarks
    <3>3. NetValue(pool) <= top' BY <2>2, <2>5, <3>1 DEF MarkInv
    <3> QED BY <2>2, <2>7, <2>8, <3>1, <3>2, <3>3
  <2>11. ASSUME NEW mode \in {InsuranceLp, TradingLp}, FreshPool(pool', mode)
         PROVE  /\ pool'.hwm_last_epoch <= epoch'
                /\ pool'.hwm_last_epoch = epoch' => pool'.epoch_high_water_tvl <= top'
    BY <2>4, <2>5, <2>11 DEF FreshPool
  <2> QED BY <2>1, <2>8, <2>9, <2>10, <2>11, MarkStep DEF Unwatched
<1> QED BY <1>1, <1>2

\* The mark a withdrawal is measured against is a value the pool really had in this
\* epoch: nothing carries the peak of a richer epoch over (state.rs 293-296).
THEOREM MarkIsReal == HSpec => []HwmNeverOverstates
<1>1. HInit => MarkInv
  <2>1. SUFFICES ASSUME HInit PROVE MarkInv OBVIOUS
  <2>2. Accounting BY <2>1, AccountingInit DEF HInit
  <2>3. PICK mode \in {InsuranceLp, TradingLp} : FreshPool(pool, mode)
    BY <2>1, InitStates DEF HInit
  <2>4. NetValue(pool) = 0 BY <2>3, FreshBooks
  <2>5. epoch \in Nat BY <2>2, EpochType, MaxU64Assumption DEF Accounting, U64
  <2> QED BY <2>1, <2>2, <2>3, <2>4, <2>5 DEF HInit, MarkInv, HwmNeverOverstates, FreshPool
<1>2. MarkInv /\ [HNext]_hvars => MarkInv' BY MarkInvStep
<1>3. MarkInv => HwmNeverOverstates BY DEF MarkInv
<1> QED BY <1>1, <1>2, <1>3, PTL DEF HSpec

-----------------------------------------------------------------------------
(* The mark is never too low *)

\* The peak is still there, or the mark remembers it.
PeakInv ==
  /\ Accounting
  /\ peak \in Nat
  /\ \/ peak <= NetValue(pool)
     \/ pool.hwm_last_epoch = epoch /\ peak <= pool.epoch_high_water_tvl

\* When a withdrawal lowers the value below the peak it has just marked it.
LEMMA PeakInvStep ==
  ASSUME PeakInv, [HNext]_hvars
  PROVE  PeakInv'
<1>1. CASE UNCHANGED hvars
  <2>1. UNCHANGED vars BY <1>1 DEF hvars, vars
  <2>2. Accounting' BY <2>1, AccountingStep DEF PeakInv
  <2>3. epoch' = epoch BY <1>1 DEF hvars, epoch
  <2> QED BY <1>1, <2>2, <2>3 DEF PeakInv, hvars
<1>2. CASE HNext
  <2>1. Accounting /\ Accounting' /\ Next BY <1>2, AccountingStep DEF PeakInv, HNext
  <2>2. /\ pool \in StakePoolType /\ pool' \in StakePoolType
        /\ NetValue(pool) \in Nat /\ NetValue(pool') \in Nat
    BY <2>1, PoolFields DEF Accounting, TypeOK, NotOverdrawn
  <2>3. pool.epoch_high_water_tvl \in Nat /\ pool'.epoch_high_water_tvl \in Nat
    BY <2>2, MaxU64Assumption DEF StakePoolType, U64
  <2>4. peak' \in Nat BY <1>2, <2>2 DEF HNext, HistoryNext, greater, PeakInv
  <2>. DEFINE SamePeriod == /\ epoch' = epoch
                       /\ hwm_enabled(pool) /\ hwm_enabled(pool')
                       /\ pool'.total_flushed = pool.total_flushed
  <2>5. peak' = IF SamePeriod THEN greater(peak, NetValue(pool')) ELSE NetValue(pool')
    BY <1>2 DEF HNext, HistoryNext
  <2>6. SUFFICES ASSUME SamePeriod, peak > NetValue(pool'), peak' = peak
                 PROVE  pool'.hwm_last_epoch = epoch /\ peak <= pool'.epoch_high_water_tvl
    <3>. HIDE DEF SamePeriod
    <3>1. peak' <= NetValue(pool') \/ (SamePeriod /\ peak > NetValue(pool') /\ peak' = peak)
      BY <2>2, <2>5 DEF greater, PeakInv
    <3>2. SamePeriod => epoch' = epoch BY DEF SamePeriod
    <3> QED BY <2>1, <2>4, <3>1, <3>2 DEF PeakInv
  <2>7. ASSUME NetValue(pool') >= NetValue(pool)
        PROVE  pool.hwm_last_epoch = epoch /\ peak <= pool.epoch_high_water_tvl
    BY <2>2, <2>6, <2>7 DEF PeakInv
  <2>8. ASSUME NEW user \in Users, NEW amount \in Amounts, Deposit(user, amount)
        PROVE  pool'.hwm_last_epoch = epoch /\ peak <= pool'.epoch_high_water_tvl
    <3>1. pool.hwm_last_epoch = epoch /\ peak <= pool.epoch_high_water_tvl
      BY <2>1, <2>7, <2>8, DepositMarks
    <3>2. Unmarked \/ \E tvl \in Nat : Marked(tvl) BY <2>1, <2>8, DepositMarks
    <3> QED BY <2>3, <3>1, <3>2 DEF Unmarked, Marked, PeakInv
  <2>9. ASSUME NEW user \in Users, NEW lp \in U64, Withdraw(user, lp)
        PROVE  pool'.hwm_last_epoch = epoch /\ peak <= pool'.epoch_high_water_tvl
    <3>1. Marked(NetValue(pool)) BY <2>1, <2>6, <2>9, WithdrawMarks
    <3> QED BY <2>2, <2>3, <3>1 DEF Marked, PeakInv
  <2>10. ASSUME Unwatched
         PROVE  pool'.hwm_last_epoch = epoch /\ peak <= pool'.epoch_high_water_tvl
    BY <2>6, <2>7, <2>10 DEF Unwatched, Unmarked
  <2>11. ~ \E mode \in {InsuranceLp, TradingLp} : FreshPool(pool', mode)
    BY <2>6 DEF FreshPool, hwm_enabled
  <2> QED BY <2>1, <2>8, <2>9, <2>10, <2>11, MarkStep
<1> QED BY <1>1, <1>2

\* With protection on, no withdrawal takes the pool below the configured share of
\* its highest value since the epoch began, protection was enabled or the last
\* flush, although the program sees the value only on deposits and withdrawals
\* (processor.rs 543-546, 725-741, state.rs 289-301).
THEOREM MarkProtects == HSpec => HwmProtects
<1>. DEFINE Protected ==
       hwm_enabled(pool) /\ pool'.total_withdrawn > pool.total_withdrawn
       => NetValue(pool') >= (peak * pool.hwm_floor_bps) \div BpsDenominator
<1>1. HInit => PeakInv
  <2>1. SUFFICES ASSUME HInit PROVE PeakInv OBVIOUS
  <2>2. Accounting BY <2>1, AccountingInit DEF HInit
  <2>3. NetValue(pool) = 0 BY <2>1, InitStates, FreshBooks DEF HInit
  <2> QED BY <2>1, <2>2, <2>3 DEF HInit, PeakInv
<1>2. PeakInv /\ [HNext]_hvars => PeakInv' BY PeakInvStep
<1>3. PeakInv /\ [HNext]_hvars => [Protected]_hvars
  <2>1. SUFFICES ASSUME PeakInv, HNext, hwm_enabled(pool),
                        pool'.total_withdrawn > pool.total_withdrawn
                 PROVE  NetValue(pool') >= (peak * pool.hwm_floor_bps) \div BpsDenominator
    OBVIOUS
  <2>2. Accounting /\ Accounting' /\ Next BY <2>1, AccountingStep DEF PeakInv, HNext
  <2>3. /\ pool \in StakePoolType /\ pool' \in StakePoolType
        /\ NetValue(pool) \in Nat /\ NetValue(pool') \in Nat /\ pool.total_withdrawn \in Nat
    BY <2>2, PoolFields DEF Accounting, TypeOK, NotOverdrawn
  <2>4. pool'.epoch_high_water_tvl \in U64 /\ pool.hwm_floor_bps \in 0 .. BpsDenominator
    BY <2>3 DEF StakePoolType
  <2>5. /\ pool'.epoch_high_water_tvl \in Nat /\ pool.hwm_floor_bps \in Nat
        /\ peak \in Nat /\ BpsDenominator \in Nat \ {0}
    <3>1. BpsDenominator \in Nat \ {0} BY DEF BpsDenominator
    <3>2. peak \in Nat BY <2>1 DEF PeakInv
    <3> QED BY <2>4, <3>1, <3>2, MaxU64Assumption DEF U64
  <2>6. /\ ~Unwatched
        /\ ~ \E user \in Users, amount \in Amounts : Deposit(user, amount)
        /\ ~ \E mode \in {InsuranceLp, TradingLp} : FreshPool(pool', mode)
    BY <2>1, <2>2, <2>3, DepositMarks DEF Unwatched, FreshPool, Totals
  <2>7. PICK user \in Users, lp \in U64 : Withdraw(user, lp)
    BY <2>2, <2>6, MarkStep
  <2>8. /\ Marked(NetValue(pool))
        /\ NetValue(pool') >= (pool'.epoch_high_water_tvl * pool.hwm_floor_bps) \div BpsDenominator
    BY <2>1, <2>2, <2>7, WithdrawMarks
  <2>9. peak <= pool'.epoch_high_water_tvl
    <3>1. pool.epoch_high_water_tvl \in Nat BY <2>3, MaxU64Assumption DEF StakePoolType, U64
    <3> QED BY <2>1, <2>3, <2>5, <2>8, <3>1 DEF Marked, PeakInv
  <2>. DEFINE hi == pool'.epoch_high_water_tvl * pool.hwm_floor_bps
              lo == peak * pool.hwm_floor_bps
  <2>10. hi \in Nat /\ lo \in Nat /\ lo <= hi BY <2>5, <2>9
  <2>11. NetValue(pool') >= hi \div BpsDenominator BY <2>8
  <2>. HIDE DEF hi, lo
  <2>12. /\ lo \div BpsDenominator <= hi \div BpsDenominator
         /\ lo \div BpsDenominator \in Nat /\ hi \div BpsDenominator \in Nat
    BY <2>5, <2>10, DivMonotone, DivFloor
  <2>13. NetValue(pool') >= lo \div BpsDenominator BY <2>3, <2>11, <2>12
  <2> QED BY <2>13 DEF lo
<1> QED BY <1>1, <1>2, <1>3, PTL DEF HSpec, HwmProtects
==============================================================================
