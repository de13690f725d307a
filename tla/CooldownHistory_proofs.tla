------------------------ MODULE CooldownHistory_proofs ------------------------
(***************************************************************************)
(* The withdrawal cooldown, for every number of users, every width of the  *)
(* integers, every cooldown and every order of top-ups, partial            *)
(* withdrawals and changes of the configuration.                           *)
(***************************************************************************)
EXTENDS CooldownHistory, StakeVault_proofs

\* The record a deposit writes, and what it is built from.
LEMMA DepositWrites ==
  ASSUME TypeOK, NEW user \in Users, NEW amount \in Amounts, Deposit(user, amount)
  PROVE  \E lp \in U64 :
           LET d == deposits[user]
               r == deposits'[user]
           IN  /\ lp > 0
               /\ r.lp_amount = d.lp_amount + lp
               /\ r.last_deposit_slot =
                    weighted_deposit_slot(d.lp_amount, d.last_deposit_slot, lp, slot,
                                          pool.cooldown_slots)
               /\ \A u \in Users \ {user} : deposits'[u] = deposits[u]
               /\ slot' = slot
<1>. DEFINE lp == pool_calc_lp_for_deposit(pool, amount)
<1>1. lp \in U64 /\ lp > 0 BY DepositEffect
<1>2. deposits' = [deposits EXCEPT ![user] =
                     deposit_record(deposits[user], lp, pool.cooldown_slots)]
      /\ slot' = slot
  BY DEF Deposit
<1>3. deposits \in [Users -> StakeDepositType] BY DEF TypeOK
<1>. HIDE DEF lp
<1>4. deposits'[user] = deposit_record(deposits[user], lp, pool.cooldown_slots)
      /\ \A u \in Users \ {user} : deposits'[u] = deposits[u]
  BY <1>2, <1>3
<1>5. /\ deposits'[user].lp_amount = deposits[user].lp_amount + lp
      /\ deposits'[user].last_deposit_slot =
           weighted_deposit_slot(deposits[user].lp_amount, deposits[user].last_deposit_slot,
                                 lp, slot, pool.cooldown_slots)
  BY <1>4 DEF deposit_record
<1> QED BY <1>1, <1>2, <1>4, <1>5

\* A withdrawal only takes LP tokens off the record.
LEMMA WithdrawWrites ==
  ASSUME TypeOK, NEW user \in Users, NEW lp \in U64, Withdraw(user, lp)
  PROVE  /\ deposits'[user].lp_amount <= deposits[user].lp_amount
         /\ deposits'[user].last_deposit_slot = deposits[user].last_deposit_slot
         /\ \A u \in Users \ {user} : deposits'[u] = deposits[u]
<1>1. deposits \in [Users -> StakeDepositType] BY DEF TypeOK
<1>2. deposits[user] \in StakeDepositType /\ deposits[user].lp_amount \in Nat /\ lp \in Nat
  BY <1>1, MaxU64Assumption DEF StakeDepositType, U64
<1>3. deposits' = [deposits EXCEPT ![user] = [deposits[user] EXCEPT !.lp_amount = @ - lp]]
  BY <1>1 DEF Withdraw
<1>4. /\ deposits'[user] = [deposits[user] EXCEPT !.lp_amount = @ - lp]
      /\ \A u \in Users \ {user} : deposits'[u] = deposits[u]
  BY <1>1, <1>3
<1> QED BY <1>2, <1>4 DEF StakeDepositType

\* Nothing but deposits and withdrawals writes a record.
LEMMA RecordStep ==
  ASSUME [Next]_vars
  PROVE  \/ \E user \in Users, amount \in Amounts : Deposit(user, amount)
         \/ \E user \in Users, lp \in U64 : Withdraw(user, lp)
         \/ deposits' = deposits
<1>1. ASSUME NEW signer \in Accounts, AdminStep(signer) PROVE deposits' = deposits
  BY <1>1 DEF AdminStep, InitPool, InitTradingPool,
         FlushToInsurance, AdminWithdrawInsurance, UpdateConfig, AdminSetHwmConfig,
         TransferAdmin, AdminSetOracleAuthority, AdminResolveMarket, AdminSetInsurancePolicy,
         MarketAdminResolves
<1>2. ASSUME Environment PROVE deposits' = deposits
  BY <1>2 DEF Environment, Tick, AccrueFees, DirectTransfer, InsuranceMoves
<1>3. ASSUME NEW user, NEW to, NEW lp, TransferLp(user, to, lp) \/ BurnLp(user, lp)
      PROVE  deposits' = deposits
  BY <1>3 DEF TransferLp, BurnLp
<1>4. ASSUME UNCHANGED vars PROVE deposits' = deposits BY <1>4 DEF vars
<1> QED BY <1>1, <1>2, <1>3, <1>4 DEF Next, UserStep

\* The fields of a record and of the clock as integers.
LEMMA RecordFields ==
  ASSUME TypeOK, NEW u \in Users
  PROVE  /\ deposits[u].lp_amount \in U64 /\ deposits[u].lp_amount \in Nat
         /\ deposits[u].last_deposit_slot \in U64 /\ deposits[u].last_deposit_slot \in Nat
         /\ pool.cooldown_slots \in U64 /\ pool.cooldown_slots \in Nat
         /\ slot \in U64 /\ slot \in Nat
<1>1. deposits[u] \in StakeDepositType /\ pool \in StakePoolType BY DEF TypeOK
<1>2. /\ deposits[u].lp_amount \in U64 /\ deposits[u].last_deposit_slot \in U64
      /\ pool.cooldown_slots \in U64
  BY <1>1 DEF StakeDepositType, StakePoolType
<1> QED BY <1>2, EpochType, MaxU64Assumption DEF U64

\* The fields of a record after the step.
LEMMA NextRecordFields ==
  ASSUME TypeOK', NEW u \in Users
  PROVE  deposits'[u].lp_amount \in Nat /\ deposits'[u].last_deposit_slot \in Nat
<1>1. deposits'[u] \in StakeDepositType BY DEF TypeOK
<1> QED BY <1>1, MaxU64Assumption DEF StakeDepositType, U64

-----------------------------------------------------------------------------
(* A top-up moves the unlock forward *)

\* No anchor lies in the future.
AnchorInv == TypeOK /\ \A u \in Users : deposits[u].last_deposit_slot <= slot

\* Every step keeps the anchors in the past, and moves only that of a depositor,
\* forward.
LEMMA AnchorStep ==
  ASSUME AnchorInv, [Next]_vars
  PROVE  /\ AnchorInv'
         /\ \A u \in Users :
              /\ deposits'[u].last_deposit_slot >= deposits[u].last_deposit_slot
              /\ deposits'[u].lp_amount > deposits[u].lp_amount =>
                   deposits'[u].last_deposit_slot <= slot
<1>1. TypeOK /\ TypeOK' BY TypeStep DEF AnchorInv
<1>2. slot \in Nat /\ slot' \in Nat /\ slot' >= slot
  BY <1>1, ClockStep, InputsAssumption DEF TypeOK
<1>3. SUFFICES ASSUME NEW u \in Users
               PROVE  /\ deposits'[u].last_deposit_slot <= slot
                      /\ deposits'[u].last_deposit_slot >= deposits[u].last_deposit_slot
  <2>1. \A u \in Users : deposits'[u].last_deposit_slot \in Nat BY <1>1, NextRecordFields
  <2> QED BY <1>1, <1>2, <1>3, <2>1 DEF AnchorInv
<1>4. /\ deposits[u].last_deposit_slot \in Nat /\ deposits[u].last_deposit_slot <= slot
  BY <1>1, RecordFields DEF AnchorInv
<1>5. CASE \E user \in Users, amount \in Amounts : Deposit(user, amount)
  <2>1. PICK user \in Users, amount \in Amounts : Deposit(user, amount) BY <1>5
  <2>2. PICK lp \in U64 :
          LET d == deposits[user]
              r == deposits'[user]
          IN  /\ lp > 0
              /\ r.lp_amount = d.lp_amount + lp
              /\ r.last_deposit_slot =
                   weighted_deposit_slot(d.lp_amount, d.last_deposit_slot, lp, slot,
                                         pool.cooldown_slots)
              /\ \A w \in Users \ {user} : deposits'[w] = deposits[w]
              /\ slot' = slot
    BY <1>1, <2>1, DepositWrites
  <2>3. CASE u # user BY <1>4, <2>2, <2>3
  <2>4. CASE u = user
    BY <1>1, <1>4, <2>2, <2>4, RecordFields, AnchorMovesForward
  <2> QED BY <2>3, <2>4
<1>6. CASE \E user \in Users, lp \in U64 : Withdraw(user, lp)
  <2>1. PICK user \in Users, lp \in U64 : Withdraw(user, lp) BY <1>6
  <2>2. deposits'[u].last_deposit_slot = deposits[u].last_deposit_slot
    BY <1>1, <2>1, WithdrawWrites
  <2> QED BY <1>4, <2>2
<1>7. CASE deposits' = deposits BY <1>4, <1>7
<1> QED BY <1>5, <1>6, <1>7, RecordStep

\* A top-up never unlocks an existing position sooner, and never locks it beyond
\* one full cooldown from now (math.rs 193-236).
THEOREM TopUpsOnlyDelay == HSpec => TopUpMovesUnlockForward
<1>1. HInit => AnchorInv
  <2>1. SUFFICES ASSUME Init PROVE AnchorInv BY DEF HInit
  <2>2. TypeOK /\ slot = 0 BY <2>1, InitStates DEF Init
  <2> QED BY <2>1, <2>2 DEF AnchorInv, Init, ZeroedDeposit
<1>2. [HNext]_hvars => [Next]_vars BY DEF HNext, hvars, vars
<1>3. AnchorInv /\ [HNext]_hvars => AnchorInv' BY <1>2, AnchorStep
<1>4. AnchorInv /\ [HNext]_hvars =>
        [ \A u \in Users :
            deposits'[u].lp_amount > deposits[u].lp_amount
            => /\ deposits'[u].last_deposit_slot <= slot
               /\ deposits[u].lp_amount > 0
                    => deposits'[u].last_deposit_slot >= deposits[u].last_deposit_slot ]_hvars
  BY <1>2, AnchorStep
<1> QED BY <1>1, <1>3, <1>4, PTL DEF HSpec, TopUpMovesUnlockForward

-----------------------------------------------------------------------------
(* Fresh capital waits *)

\* The anchor and the cooldown of the last deposit lie at least the fresh share of
\* that cooldown after it.
WaitInv ==
  /\ TypeOK
  /\ \A u \in Users :
       /\ entered[u].slot \in Nat /\ entered[u].cooldown \in Nat /\ entered[u].wait \in Nat
       /\ deposits[u].last_deposit_slot + entered[u].cooldown
            >= entered[u].slot + entered[u].wait

\* Every step keeps it: a deposit by the freshness floor, whatever the position was.
LEMMA WaitStep ==
  ASSUME WaitInv, [HNext]_hvars
  PROVE  WaitInv'
<1>1. CASE UNCHANGED hvars
  <2>1. UNCHANGED vars BY <1>1 DEF hvars, vars
  <2>2. TypeOK' BY <2>1, TypeStep DEF WaitInv
  <2> QED BY <1>1, <2>2 DEF WaitInv, hvars
<1>2. CASE HNext
  <2>1. TypeOK /\ TypeOK' /\ Next BY <1>2, TypeStep DEF WaitInv, HNext
  <2>. DEFINE Waits(u) ==
         /\ entered'[u].slot \in Nat /\ entered'[u].cooldown \in Nat /\ entered'[u].wait \in Nat
         /\ deposits'[u].last_deposit_slot + entered'[u].cooldown
              >= entered'[u].slot + entered'[u].wait
  <2>2. SUFFICES ASSUME NEW u \in Users PROVE Waits(u) BY <2>1 DEF WaitInv
  <2>3. deposits[u].lp_amount \in Nat BY <2>1, RecordFields
  <2>4. /\ deposits'[u].lp_amount > deposits[u].lp_amount =>
             entered'[u] = [slot |-> slot, cooldown |-> pool.cooldown_slots,
                            wait |-> fresh_share(pool.cooldown_slots,
                                                 deposits'[u].lp_amount - deposits[u].lp_amount,
                                                 deposits'[u].lp_amount)]
        /\ ~(deposits'[u].lp_amount > deposits[u].lp_amount) => entered'[u] = entered[u]
    BY <1>2 DEF HNext, HistoryNext
  <2>5. ASSUME deposits'[u].lp_amount <= deposits[u].lp_amount,
               deposits'[u].last_deposit_slot = deposits[u].last_deposit_slot
        PROVE  Waits(u)
    <3>1. deposits'[u].lp_amount \in Nat BY <2>1, NextRecordFields
    <3>2. entered'[u] = entered[u] BY <2>3, <2>4, <2>5, <3>1
    <3> QED BY <2>5, <3>2 DEF WaitInv
  <2>6. CASE \E user \in Users, amount \in Amounts : Deposit(user, amount)
    <3>1. PICK user \in Users, amount \in Amounts : Deposit(user, amount) BY <2>6
    <3>2. PICK lp \in U64 :
            LET d == deposits[user]
                r == deposits'[user]
            IN  /\ lp > 0
                /\ r.lp_amount = d.lp_amount + lp
                /\ r.last_deposit_slot =
                     weighted_deposit_slot(d.lp_amount, d.last_deposit_slot, lp, slot,
                                           pool.cooldown_slots)
                /\ \A w \in Users \ {user} : deposits'[w] = deposits[w]
                /\ slot' = slot
      BY <2>1, <3>1, DepositWrites
    <3>3. CASE u # user
      <4>1. deposits'[u] = deposits[u] BY <3>2, <3>3
      <4> QED BY <2>3, <2>5, <4>1
    <3>4. CASE u = user
      <4>. DEFINE e == deposits[u].lp_amount
                  es == deposits[u].last_deposit_slot
                  c == pool.cooldown_slots
                  new == (c * lp + (e + lp) - 1) \div (e + lp)
      <4>1. /\ e \in U64 /\ es \in U64 /\ c \in U64 /\ slot \in U64
            /\ e \in Nat /\ c \in Nat /\ slot \in Nat /\ lp \in Nat
        BY <2>1, RecordFields, MaxU64Assumption DEF U64
      <4>2. /\ deposits'[u].lp_amount = e + lp /\ lp > 0
            /\ deposits'[u].last_deposit_slot = weighted_deposit_slot(e, es, lp, slot, c)
        BY <3>2, <3>4
      <4>3. /\ new \in Nat
            /\ weighted_deposit_slot(e, es, lp, slot, c) + c >= slot + new
        BY <4>1, <4>2, FreshShareWaits
      <4>4. deposits'[u].lp_amount - e = lp /\ deposits'[u].lp_amount > e BY <4>1, <4>2
      <4>5. fresh_share(c, deposits'[u].lp_amount - e, deposits'[u].lp_amount) = new
        BY <4>2, <4>4 DEF fresh_share
      <4>6. entered'[u] = [slot |-> slot, cooldown |-> c, wait |-> new]
        BY <2>4, <4>4, <4>5
      <4>. HIDE DEF e, es, c, new
      <4> QED BY <4>1, <4>2, <4>3, <4>6
    <3> QED BY <3>3, <3>4
  <2>7. CASE \E user \in Users, lp \in U64 : Withdraw(user, lp)
    <3>1. PICK user \in Users, lp \in U64 : Withdraw(user, lp) BY <2>7
    <3>2. /\ deposits'[u].lp_amount <= deposits[u].lp_amount
          /\ deposits'[u].last_deposit_slot = deposits[u].last_deposit_slot
      BY <2>1, <2>3, <3>1, WithdrawWrites
    <3> QED BY <2>5, <3>2
  <2>8. CASE deposits' = deposits BY <2>3, <2>5, <2>8
  <2> QED BY <2>1, <2>6, <2>7, <2>8, RecordStep
<1> QED BY <1>1, <1>2

\* Only the owner of a record withdraws from it, after the cooldown.
LEMMA OutflowWaits ==
  ASSUME TypeOK, [Next]_vars, NEW u \in Users,
         deposits'[u].lp_amount < deposits[u].lp_amount
  PROVE  slot >= saturating_add(deposits[u].last_deposit_slot, pool.cooldown_slots)
<1>1. deposits[u].lp_amount \in Nat BY RecordFields
<1>2. ASSUME NEW user \in Users, NEW amount \in Amounts, Deposit(user, amount) PROVE FALSE
  <2>1. PICK lp \in U64 :
          /\ lp > 0
          /\ deposits'[user].lp_amount = deposits[user].lp_amount + lp
          /\ \A w \in Users \ {user} : deposits'[w] = deposits[w]
    BY <1>2, DepositWrites
  <2>2. lp \in Nat BY MaxU64Assumption DEF U64
  <2> QED BY <1>1, <2>1, <2>2
<1>3. ASSUME NEW user \in Users, NEW lp \in U64, Withdraw(user, lp)
      PROVE  slot >= saturating_add(deposits[u].last_deposit_slot, pool.cooldown_slots)
  <2>1. u = user BY <1>1, <1>3, WithdrawWrites
  <2> QED BY <1>3, <2>1 DEF Withdraw, withdraw_accepted, cooldown_elapsed
<1>4. deposits' # deposits BY <1>1
<1> QED BY <1>2, <1>3, <1>4, RecordStep

\* Issue 39: unless the admin has shortened the cooldown since, nobody withdraws
\* sooner after a deposit than the fresh share of the cooldown, however old the
\* rest of the position is and however it was built up (math.rs 193-236,
\* processor.rs 603-609, 705-711).
THEOREM NoEarlyExit == HSpec => FreshCapitalWaits
<1>1. HInit => WaitInv
  <2>1. SUFFICES ASSUME HInit PROVE WaitInv OBVIOUS
  <2>2. TypeOK BY <2>1, InitStates DEF HInit
  <2> QED BY <2>1, <2>2 DEF WaitInv, HInit, Init, ZeroedDeposit
<1>2. WaitInv /\ [HNext]_hvars => WaitInv' BY WaitStep
<1>3. WaitInv /\ [HNext]_hvars =>
        [ \A u \in Users :
            /\ deposits'[u].lp_amount < deposits[u].lp_amount
            /\ pool.cooldown_slots >= entered[u].cooldown
            => slot >= saturating_add(entered[u].slot, entered[u].wait) ]_hvars
  <2>1. SUFFICES ASSUME WaitInv, HNext, NEW u \in Users,
                        deposits'[u].lp_amount < deposits[u].lp_amount,
                        pool.cooldown_slots >= entered[u].cooldown
                 PROVE  slot >= saturating_add(entered[u].slot, entered[u].wait)
    OBVIOUS
  <2>2. TypeOK /\ Next BY <2>1 DEF WaitInv, HNext
  <2>3. slot >= saturating_add(deposits[u].last_deposit_slot, pool.cooldown_slots)
    BY <2>1, <2>2, OutflowWaits
  <2>4. /\ deposits[u].last_deposit_slot \in Nat /\ pool.cooldown_slots \in Nat /\ slot \in Nat
    BY <2>2, RecordFields
  <2>5. /\ entered[u].slot \in Nat /\ entered[u].cooldown \in Nat /\ entered[u].wait \in Nat
        /\ deposits[u].last_deposit_slot + entered[u].cooldown
             >= entered[u].slot + entered[u].wait
    BY <2>1 DEF WaitInv
  <2> QED BY <2>1, <2>3, <2>4, <2>5, MaxU64Assumption DEF saturating_add
<1> QED BY <1>1, <1>2, <1>3, PTL DEF HSpec, FreshCapitalWaits
===============================================================================
