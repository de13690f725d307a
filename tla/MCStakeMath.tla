----------------------------- MODULE MCStakeMath -----------------------------
(***************************************************************************)
(* The pure functions of math.rs, alone, against what they are meant to    *)
(* compute, over every argument up to the bounds.  A behaviour picks one   *)
(* tuple of arguments and stops there.                                     *)
(***************************************************************************)
EXTENDS StakePool, KaniMirror, FiniteSets

CONSTANTS MaxArg,      \* bound on supplies, values, amounts
          MaxTime      \* bound on slots and cooldowns

\* The arguments are u64 values.
ASSUME ArgsAssumption == MaxArg \in U64 /\ MaxTime \in U64

VARIABLE args

NoArgs == <<"none">>

\* supply, pool value, and two amounts
PickLp ==
  /\ args = NoArgs
  /\ \E s, v, a, b \in 0 .. MaxArg : args' = <<"lp", s, v, a, b>>

\* existing LP and slot, fresh LP, current slot, cooldown
PickSlot ==
  /\ args = NoArgs
  /\ \E e, n \in 0 .. MaxArg, es, cur, c \in 0 .. MaxTime :
       args' = <<"slot", e, es, n, cur, c>>

\* deposited, returned, withdrawn, flushed, fees
PickTotals ==
  /\ args = NoArgs
  /\ \E d, r, w, f, fees \in 0 .. MaxArg : args' = <<"totals", d, r, w, f, fees>>

Done == args # NoArgs /\ UNCHANGED args

Init == args = NoArgs
Next == PickLp \/ PickSlot \/ PickTotals \/ Done
Spec == Init /\ [][Next]_args

-----------------------------------------------------------------------------
(* What the functions are meant to compute, for given arguments *)

FairShare(s, v, a) ==
  LET lp == calc_lp_for_deposit(s, v, a)
      fair == {n \in 0 .. (a * s) : n * v <= a * s /\ (n + 1) * v > a * s}
  IN  IF s = 0 /\ v = 0 THEN lp = a
      ELSE IF s = 0 \/ v = 0 THEN lp = None
      ELSE IF lp = None THEN fair \cap U64 = {}
      ELSE fair = {lp}

RoundTrip(s, v, a) ==
  LET lp == calc_lp_for_deposit(s, v, a)
      back == calc_collateral_for_withdraw(s + lp, v + a, lp)
  IN  (lp # None /\ lp > 0 /\ s + lp \in U64 /\ v + a \in U64) =>
        /\ back # None /\ back <= a
        /\ a - back <= IF s = 0 THEN 0 ELSE v \div s + 1

SplitDeposit(s, v, a, b) ==
  LET lp1 == calc_lp_for_deposit(s, v, a)
      lp2 == calc_lp_for_deposit(s + lp1, v + a, b)
      whole == calc_lp_for_deposit(s, v, a + b)
  IN  (whole # None /\ lp1 # None /\ lp2 # None) => lp1 + lp2 <= whole

SplitWithdrawal(s, v, a, b) ==
  LET c1 == calc_collateral_for_withdraw(s, v, a)
      c2 == calc_collateral_for_withdraw(s - a, v - c1, b)
  IN  (a + b <= s /\ c1 # None /\ c2 # None)
        => c1 + c2 <= calc_collateral_for_withdraw(s, v, a + b)

FlooredAverage(e, es, n, cur, c) ==
  LET new == weighted_deposit_slot(e, es, n, cur, c)
      average == (e * es + n * cur) \div (e + n)
      floor == greater(cur - (c * e) \div (e + n), 0)
  IN  /\ e + n > 0 => new = (IF n > 0 THEN greater(average, floor) ELSE es)
      /\ es <= cur => new <= cur /\ (e > 0 => new >= es)
      /\ n > 0 /\ c > 0 => new + c > cur

insurance(d, r, w, f) ==
  [ZeroedPool EXCEPT !.total_deposited = d, !.total_returned = r,
                     !.total_withdrawn = w, !.total_flushed = f]
trading(d, w, fees) ==
  [ZeroedPool EXCEPT !.pool_mode = TradingLp, !.total_deposited = d,
                     !.total_withdrawn = w, !.total_fees_earned = fees]

Agreement(d, r, w, f, fees) ==
  LET value == total_pool_value(insurance(d, r, w, f))
      exported == pool_value_with_fees(d, w, fees)
  IN  /\ value # None
           => /\ value = NetValue(insurance(d, r, w, f))
              /\ flush_available(d, r, w, f) = value
      /\ total_pool_value(trading(d, w, fees)) = accrual_baseline(trading(d, w, fees))
      /\ d + fees \in U64
           => exported = IF w <= d THEN total_pool_value(trading(d, w, fees)) ELSE None

MirrorsPrices(s, v, a) ==
  /\ kani_calc_lp_for_deposit(s, v, a) = calc_lp_for_deposit(s, v, a)
  /\ kani_calc_collateral_for_withdraw(s, v, a) = calc_collateral_for_withdraw(s, v, a)
  /\ kani_pool_value(v, a) = pool_value(v, a)

MirrorsCooldown(e, es, cur, c) ==
  e > 0 =>
    (kani_cooldown_elapsed(cur, es, c)
       <=> cur >= saturating_add(weighted_deposit_slot(e, es, 0, cur, c), c))

MirrorsTotals(d, r, w, f) ==
  LET value == total_pool_value(insurance(d, r, w, f))
  IN  /\ value # None
           => kani_pool_value_with_flush(d, w, f, r) = IF w + f <= d THEN value ELSE None
      /\ kani_flush_available(d, w, f) = flush_available(d, 0, w, f)

-----------------------------------------------------------------------------
(* Properties *)

\* The LP minted for a deposit is the largest whole number whose value at the
\* present share price does not exceed the deposit, and None exactly when the
\* pool has supply or value but not both, or that number exceeds u64 (math.rs
\* 20-49).
LpIsFairShare == args[1] = "lp" => FairShare(args[2], args[3], args[4])

\* Depositing and leaving again at once never returns more than was put in, and
\* both roundings together cost at most the worth of one LP token and a unit; the
\* first depositor gets everything back (math.rs 20-49, 65-81).
RoundTripNeverGains == args[1] = "lp" => RoundTrip(args[2], args[3], args[4])

\* Splitting a deposit or a withdrawal in two never yields more than making it
\* in one piece (math.rs 20-49, 65-81).
SplittingNeverGains ==
  args[1] = "lp" => /\ SplitDeposit(args[2], args[3], args[4], args[5])
                    /\ SplitWithdrawal(args[2], args[3], args[4], args[5])

\* The anchored form of the blend equals the weighted average the doc comment
\* gives, then lifted to the freshness floor; the result lies between the old
\* slot and now, and fresh LP always leaves a nonzero cooldown running (math.rs
\* 138-150, 193-236).
SlotIsFlooredAverage ==
  args[1] = "slot" => FlooredAverage(args[2], args[3], args[4], args[5], args[6])

\* Where the totals are consistent the three ways of computing what a pool can
\* pay out agree: StakePool::total_pool_value of an insurance pool, the exported
\* flush_available, and for a trading pool the accrual baseline and the exported
\* pool_value_with_fees.  That one subtracts before it adds: it has no value once
\* withdrawals exceed deposits, however large the fees (state.rs 319-367, math.rs
\* 88-128).
ValuesAgree ==
  args[1] = "totals" => Agreement(args[2], args[3], args[4], args[5], args[6])

\* What the proofs of kani-proofs (lib.rs 29-81) are about.  The copy computes what
\* the program computes, for every argument and at every overflow: prices as in
\* math.rs 20-81, the pool's value as in math.rs 88-90, the unlocking of a position,
\* read off a top-up of nothing, as in math.rs 193-236.  With flushes it agrees
\* with state.rs 319-341 only while deposits cover withdrawals and flushes, and its
\* flush ceiling is that of math.rs 119-128 before any insurance has returned.
MirrorScope ==
  /\ args[1] = "lp" => MirrorsPrices(args[2], args[3], args[4])
  /\ args[1] = "slot" => MirrorsCooldown(args[2], args[3], args[5], args[6])
  /\ args[1] = "totals" => MirrorsTotals(args[2], args[3], args[4], args[5])
=============================================================================
