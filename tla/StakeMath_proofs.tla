-------------------------- MODULE StakeMath_proofs --------------------------
(***************************************************************************)
(* Facts about the arithmetic of math.rs, for every width of the integers. *)
(* The nonlinear steps (products and quotients of supply, value, amount    *)
(* and cooldown) are all here; the proofs about the program only use these *)
(* lemmas.                                                                 *)
(***************************************************************************)
EXTENDS LpUnits, FiniteSetTheorems, TLAPS

\* Integer division rounds down.
LEMMA DivFloor ==
  ASSUME NEW a \in Nat, NEW b \in Nat \ {0}
  PROVE  /\ a \div b \in Nat
         /\ b * (a \div b) <= a
         /\ a < b * (a \div b) + b
  OBVIOUS

\* A quotient is at most any k with a <= k * b.
LEMMA DivUpper ==
  ASSUME NEW a \in Nat, NEW b \in Nat \ {0}, NEW k \in Nat, a <= k * b
  PROVE  a \div b <= k
<1>1. a \div b \in Nat /\ b * (a \div b) <= a BY DivFloor
<1>. DEFINE q == a \div b
<1>. HIDE DEF q
<1>2. SUFFICES ASSUME q >= k + 1, q \in Nat, b * q <= a PROVE FALSE
  BY <1>1 DEF q
<1>3. b * q >= b * (k + 1) BY <1>2
<1>4. b * (k + 1) = k * b + b OBVIOUS
<1> QED BY <1>2, <1>3, <1>4

\* A quotient is at least any k with k * b <= a.
LEMMA DivLower ==
  ASSUME NEW a \in Nat, NEW b \in Nat \ {0}, NEW k \in Nat, k * b <= a
  PROVE  a \div b >= k
<1>1. a \div b \in Nat /\ a < b * (a \div b) + b BY DivFloor
<1>. DEFINE q == a \div b
<1>. HIDE DEF q
<1>2. SUFFICES ASSUME q + 1 <= k, q \in Nat, a < b * q + b PROVE FALSE
  BY <1>1 DEF q
<1>3. b * (q + 1) <= b * k BY <1>2
<1>4. b * (q + 1) = b * q + b /\ b * k = k * b BY <1>2
<1> QED BY <1>2, <1>3, <1>4

\* Dividing a multiple of b by b is exact.
LEMMA DivSelf ==
  ASSUME NEW b \in Nat \ {0}, NEW k \in Nat
  PROVE  (b * k) \div b = k
<1>1. b * k \in Nat /\ b * k <= k * b /\ k * b <= b * k OBVIOUS
<1> QED BY <1>1, DivUpper, DivLower, DivFloor

\* A quotient grows with its dividend.
LEMMA DivMonotone ==
  ASSUME NEW a \in Nat, NEW c \in Nat, NEW b \in Nat \ {0}, a <= c
  PROVE  a \div b <= c \div b
<1>1. a \div b \in Nat /\ b * (a \div b) <= a BY DivFloor
<1>2. b * (a \div b) = (a \div b) * b BY <1>1
<1>. DEFINE q == a \div b
<1>. HIDE DEF q
<1>3. q \in Nat /\ q * b <= c BY <1>1, <1>2 DEF q
<1>4. c \div b >= q BY <1>3, DivLower
<1> QED BY <1>1, <1>4, DivFloor DEF q

-----------------------------------------------------------------------------
(* Types of the results *)

\* A checked result is None or the exact value, and None only outside u64.
LEMMA CheckedType ==
  ASSUME NEW x \in Int
  PROVE  /\ checked(x) \in OptU64
         /\ checked(x) # None => checked(x) = x /\ x \in U64
         /\ x \in U64 => checked(x) = x /\ checked(x) # None
  BY MaxU64Assumption DEF checked, OptU64, U64, None

\* The LP amount of a deposit is an optional u64 (math.rs 20-49).
LEMMA LpType ==
  ASSUME NEW s \in U64, NEW v \in U64, NEW a \in U64
  PROVE  calc_lp_for_deposit(s, v, a) \in OptU64
<1>1. CASE s = 0 \/ v = 0
  BY <1>1, MaxU64Assumption DEF calc_lp_for_deposit, OptU64, U64, None
<1>2. CASE s # 0 /\ v # 0
  <2>1. a * s \in Nat /\ v \in Nat \ {0} BY <1>2, MaxU64Assumption DEF U64
  <2>2. (a * s) \div v \in Int BY <2>1, DivFloor
  <2> QED BY <1>2, <2>2, CheckedType DEF calc_lp_for_deposit
<1> QED BY <1>1, <1>2

\* A deposit into a pool with holders mints its pro-rata share, rounded down.
LEMMA LpIsShare ==
  ASSUME NEW s \in U64, NEW v \in U64, NEW a \in U64, s > 0,
         calc_lp_for_deposit(s, v, a) # None
  PROVE  /\ v > 0
         /\ calc_lp_for_deposit(s, v, a) \in U64
         /\ calc_lp_for_deposit(s, v, a) * v <= a * s
         /\ a * s < (calc_lp_for_deposit(s, v, a) + 1) * v
<1>1. v > 0 BY MaxU64Assumption DEF calc_lp_for_deposit, U64, None
<1>2. a * s \in Nat /\ v \in Nat \ {0} BY <1>1, MaxU64Assumption DEF U64
<1>. DEFINE q == (a * s) \div v
<1>3. q \in Nat /\ v * q <= a * s /\ a * s < v * q + v BY <1>2, DivFloor
<1>4. calc_lp_for_deposit(s, v, a) = checked(q)
  BY <1>1, MaxU64Assumption DEF calc_lp_for_deposit, U64
<1>. HIDE DEF q
<1>5. checked(q) = q /\ q \in U64 BY <1>3, <1>4, CheckedType
<1>6. v * q = q * v /\ (q + 1) * v = v * q + v BY <1>2, <1>3
<1> QED BY <1>1, <1>3, <1>4, <1>5, <1>6

\* A deposit into a pool without holders is priced 1:1, and only if it is empty.
LEMMA LpFirstDeposit ==
  ASSUME NEW v \in U64, NEW a \in U64, calc_lp_for_deposit(0, v, a) # None
  PROVE  v = 0 /\ calc_lp_for_deposit(0, v, a) = a
  BY MaxU64Assumption DEF calc_lp_for_deposit, U64, None

\* Burning lp tokens pays their pro-rata share rounded down, never more than the
\* whole pool, and burning all of them pays exactly the whole pool.
LEMMA CollateralIsShare ==
  ASSUME NEW s \in U64, NEW v \in U64, NEW lp \in U64, lp <= s,
         calc_collateral_for_withdraw(s, v, lp) # None
  PROVE  /\ s > 0
         /\ calc_collateral_for_withdraw(s, v, lp) \in 0 .. v
         /\ calc_collateral_for_withdraw(s, v, lp) * s <= lp * v
         /\ lp * v < (calc_collateral_for_withdraw(s, v, lp) + 1) * s
         /\ lp = s => calc_collateral_for_withdraw(s, v, lp) = v
<1>1. s > 0 BY MaxU64Assumption DEF calc_collateral_for_withdraw, U64, None
<1>2. lp * v \in Nat /\ s \in Nat \ {0} /\ v \in Nat /\ lp \in Nat
  BY <1>1, MaxU64Assumption DEF U64
<1>. DEFINE q == (lp * v) \div s
<1>3. q \in Nat /\ s * q <= lp * v /\ lp * v < s * q + s BY <1>2, DivFloor
<1>4. lp * v <= v * s BY <1>2
<1>5. q <= v BY <1>2, <1>4, DivUpper
<1>6. lp = s => q = v BY <1>2, DivSelf
<1>7. calc_collateral_for_withdraw(s, v, lp) = checked(q)
  BY <1>1, MaxU64Assumption DEF calc_collateral_for_withdraw, U64
<1>. HIDE DEF q
<1>8. checked(q) = q BY <1>3, <1>7, CheckedType
<1>9. s * q = q * s /\ (q + 1) * s = s * q + s BY <1>2, <1>3
<1> QED BY <1>1, <1>2, <1>3, <1>5, <1>6, <1>7, <1>8, <1>9

\* While an LP token is worth a base unit, burning any pays something.
LEMMA CollateralIsPaid ==
  ASSUME NEW s \in U64, NEW v \in U64, NEW lp \in U64, 0 < lp, lp <= s, s <= v
  PROVE  /\ calc_collateral_for_withdraw(s, v, lp) # None
         /\ calc_collateral_for_withdraw(s, v, lp) \in 1 .. v
<1>1. lp * v \in Nat /\ s \in Nat \ {0} /\ v \in Nat /\ lp \in Nat /\ v <= MaxU64 /\ MaxU64 \in Nat
  BY MaxU64Assumption DEF U64
<1>. DEFINE q == (lp * v) \div s
<1>2. q \in Nat BY <1>1, DivFloor
<1>3. lp * v <= v * s BY <1>1
<1>4. q <= v BY <1>1, <1>3, DivUpper
<1>5. 1 * s <= lp * v
  <2>1. v <= lp * v BY <1>1
  <2> QED BY <1>1, <2>1
<1>6. 1 <= q BY <1>1, <1>5, DivLower
<1>7. calc_collateral_for_withdraw(s, v, lp) = checked(q)
  BY <1>1 DEF calc_collateral_for_withdraw
<1>. HIDE DEF q
<1>8. checked(q) = q BY <1>1, <1>2, <1>4 DEF checked, U64
<1> QED BY <1>1, <1>2, <1>4, <1>6, <1>7, <1>8 DEF None

\* LP tokens minted for at most their share leave the others' share price intact.
LEMMA EntryKeepsPrice ==
  ASSUME NEW v \in Nat, NEW s \in Nat, NEW a \in Nat, NEW lp \in Nat, lp * v <= a * s
  PROVE  (v + a) * s >= v * (s + lp)
<1>1. (v + a) * s = v * s + a * s OBVIOUS
<1>2. v * (s + lp) = v * s + lp * v OBVIOUS
<1>3. v * s \in Nat /\ a * s \in Nat /\ lp * v \in Nat OBVIOUS
<1> QED BY <1>1, <1>2, <1>3

\* A payout of at most the share burned leaves the others' share price intact.
LEMMA ExitKeepsPrice ==
  ASSUME NEW v \in Nat, NEW s \in Nat, NEW c \in Nat, NEW lp \in Nat,
         c <= v, lp <= s, c * s <= lp * v
  PROVE  (v - c) * s >= v * (s - lp)
<1>1. (v - c) * s = v * s - c * s OBVIOUS
<1>2. v * (s - lp) = v * s - lp * v OBVIOUS
<1>3. v * s \in Nat /\ c * s \in Nat /\ lp * v \in Nat OBVIOUS
<1> QED BY <1>1, <1>2, <1>3

\* Value added with no LP minted does not lower the share price.
LEMMA GainKeepsPrice ==
  ASSUME NEW v \in Nat, NEW w \in Nat, NEW s \in Nat, v <= w
  PROVE  w * s >= v * s
  OBVIOUS

\* Who was at par and has not lost in price is at par.
LEMMA ParIsKept ==
  ASSUME NEW v \in Nat, NEW w \in Nat, NEW s \in Nat \ {0}, NEW t \in Nat,
         v >= s, w * s >= v * t
  PROVE  w >= t
<1>1. v * t >= s * t OBVIOUS
<1>2. SUFFICES ASSUME w + 1 <= t PROVE FALSE OBVIOUS
<1>3. s * t >= s * (w + 1) BY <1>2
<1>4. s * (w + 1) = w * s + s OBVIOUS
<1>5. w * s \in Nat /\ v * t \in Nat /\ s * t \in Nat OBVIOUS
<1> QED BY <1>1, <1>3, <1>4, <1>5

\* The new cooldown anchor is a slot.
LEMMA WeightedSlotType ==
  ASSUME NEW e \in U64, NEW es \in U64, NEW n \in U64, NEW cur \in U64, NEW c \in U64
  PROVE  weighted_deposit_slot(e, es, n, cur, c) \in U64
<1>1. CASE e + n = 0 BY <1>1 DEF weighted_deposit_slot
<1>2. CASE e + n # 0
  <2>. DEFINE total == e + n
              lo == lesser(es, cur)
              span == e * (es - lo) + n * (cur - lo)
              credit == (c * e) \div total
  <2>1. total \in Nat \ {0} BY <1>2, MaxU64Assumption DEF U64
  <2>2. lo \in U64 /\ es - lo \in Nat /\ cur - lo \in Nat
    BY MaxU64Assumption DEF lesser, U64
  <2>3. e * (es - lo) \in Nat /\ n * (cur - lo) \in Nat /\ c * e \in Nat
    BY <2>2, MaxU64Assumption DEF U64
  <2>4. span \in Nat BY <2>3
  <2>5. span \div total \in Nat /\ credit \in Nat
    BY <2>1, <2>3, <2>4, DivFloor
  <2>6. blended_slot(e, es, n, cur) \in U64
    <3>1. blended_slot(e, es, n, cur) = saturating_add(lo, span \div total)
      BY DEF blended_slot
    <3>. HIDE DEF lo, span, total
    <3> QED BY <3>1, <2>2, <2>5, MaxU64Assumption DEF saturating_add, U64
  <2>7. freshness_floor(e, n, cur, c) \in U64
    <3>1. freshness_floor(e, n, cur, c) = saturating_sub(cur, lesser(credit, MaxU64))
      BY DEF freshness_floor
    <3>. HIDE DEF credit
    <3> QED BY <3>1, <2>5, MaxU64Assumption DEF saturating_sub, lesser, U64
  <2> QED BY <1>2, <2>6, <2>7 DEF weighted_deposit_slot, greater
<1> QED BY <1>1, <1>2

\* The cooldown's share of the fresh capital, rounded up, and that of the capital
\* already there, rounded down, make up the whole cooldown.
LEMMA SharesOfCooldown ==
  ASSUME NEW c \in Nat, NEW e \in Nat, NEW n \in Nat, e + n > 0
  PROVE  /\ (c * e) \div (e + n) \in 0 .. c
         /\ (c * n + (e + n) - 1) \div (e + n) \in Nat
         /\ (c * e) \div (e + n) + (c * n + (e + n) - 1) \div (e + n) <= c
<1>. DEFINE t == e + n
            a == c * e
            b == c * n
            old == a \div t
            new == (b + t - 1) \div t
<1>1. t \in Nat \ {0} /\ a \in Nat /\ b \in Nat /\ b + t - 1 \in Nat OBVIOUS
<1>2. c * t = a + b OBVIOUS
<1>3. a <= c * t BY <1>1, <1>2
<1>. HIDE DEF t, a, b
<1>4. old \in Nat /\ t * old <= a BY <1>1, DivFloor
<1>5. old <= c BY <1>1, <1>3, DivUpper
<1>6. new \in Nat /\ t * new <= b + t - 1 BY <1>1, DivFloor
<1>. HIDE DEF old, new
<1>7. old + new <= c
  <2>1. SUFFICES ASSUME old + new >= c + 1 PROVE FALSE BY <1>4, <1>6
  <2>2. t * (old + new) >= t * (c + 1) BY <1>1, <1>4, <1>6, <2>1
  <2>3. t * (old + new) = t * old + t * new BY <1>1, <1>4, <1>6
  <2>4. t * (c + 1) = c * t + t BY <1>1
  <2>5. t * old \in Int /\ t * new \in Int BY <1>1, <1>4, <1>6
  <2> QED BY <1>1, <1>2, <1>4, <1>6, <2>2, <2>3, <2>4, <2>5
<1> QED BY <1>4, <1>5, <1>6, <1>7 DEF old, new, a, b, t

\* After a top-up the anchor and the cooldown together lie at least the fresh
\* share of the cooldown ahead of now (math.rs 218-229).
LEMMA FreshShareWaits ==
  ASSUME NEW e \in U64, NEW es \in U64, NEW n \in U64, NEW cur \in U64, NEW c \in U64, n > 0
  PROVE  /\ (c * n + (e + n) - 1) \div (e + n) \in Nat
         /\ weighted_deposit_slot(e, es, n, cur, c) + c
              >= cur + (c * n + (e + n) - 1) \div (e + n)
<1>. DEFINE old == (c * e) \div (e + n)
            new == (c * n + (e + n) - 1) \div (e + n)
            anchor == weighted_deposit_slot(e, es, n, cur, c)
            blend == blended_slot(e, es, n, cur)
            floor == freshness_floor(e, n, cur, c)
<1>1. c \in Nat /\ e \in Nat /\ n \in Nat /\ cur \in Nat /\ e + n > 0 /\ e + n # 0
  BY MaxU64Assumption DEF U64
<1>2. old \in 0 .. c /\ new \in Nat /\ old + new <= c BY <1>1, SharesOfCooldown
<1>3. anchor \in Nat BY WeightedSlotType, MaxU64Assumption DEF U64
<1>4. anchor = greater(blend, floor) BY <1>1 DEF weighted_deposit_slot
<1>5. floor = saturating_sub(cur, lesser(old, MaxU64)) BY DEF freshness_floor
<1>. HIDE DEF old, new, anchor, blend, floor
<1>6. lesser(old, MaxU64) = old BY <1>2, MaxU64Assumption DEF lesser, U64
<1>7. floor \in Nat /\ floor >= cur - old BY <1>1, <1>2, <1>5, <1>6 DEF saturating_sub
<1>8. anchor >= floor
  <2>1. CASE blend >= floor BY <1>4, <2>1 DEF greater
  <2>2. CASE ~(blend >= floor) BY <1>4, <1>7, <2>2 DEF greater
  <2> QED BY <2>1, <2>2
<1>9. anchor + c >= cur + new BY <1>1, <1>2, <1>3, <1>7, <1>8
<1> QED BY <1>2, <1>9 DEF new, anchor

\* A top-up moves the anchor forward, and not beyond now (math.rs 193-236).
LEMMA AnchorMovesForward ==
  ASSUME NEW e \in U64, NEW es \in U64, NEW n \in U64, NEW cur \in U64, NEW c \in U64,
         n > 0, es <= cur
  PROVE  /\ es <= weighted_deposit_slot(e, es, n, cur, c)
         /\ weighted_deposit_slot(e, es, n, cur, c) <= cur
<1>. DEFINE t == e + n
            gap == cur - es
            step == (n * gap) \div t
            old == (c * e) \div t
            blend == blended_slot(e, es, n, cur)
            floor == freshness_floor(e, n, cur, c)
<1>1. /\ c \in Nat /\ e \in Nat /\ n \in Nat /\ cur \in Nat /\ es \in Nat /\ cur <= MaxU64
      /\ MaxU64 \in Nat
  BY MaxU64Assumption DEF U64
<1>2. t \in Nat \ {0} /\ gap \in Nat /\ n * gap \in Nat /\ c * e \in Nat BY <1>1
<1>3. n * gap <= gap * t
  <2>1. gap * t = n * gap + e * gap BY <1>1
  <2>2. e * gap \in Nat BY <1>1
  <2> QED BY <1>2, <2>1, <2>2
<1>4. step \in Nat /\ step <= gap BY <1>2, <1>3, DivFloor, DivUpper
<1>5. old \in Nat BY <1>2, DivFloor
<1>6. e * (es - es) + n * (cur - es) = n * gap BY <1>1
<1>7. blend = saturating_add(es, step)
  <2>1. lesser(es, cur) = es BY DEF lesser
  <2> QED BY <1>6, <2>1 DEF blended_slot
<1>8. floor = saturating_sub(cur, lesser(old, MaxU64)) BY DEF freshness_floor
<1>9. weighted_deposit_slot(e, es, n, cur, c) = greater(blend, floor)
  BY <1>2 DEF weighted_deposit_slot
<1>10. es + gap = cur BY <1>1
<1>. HIDE DEF step, old, blend, floor, gap, t
<1>11. es + step <= MaxU64 BY <1>1, <1>2, <1>4, <1>10
<1>12. blend = es + step BY <1>1, <1>4, <1>7, <1>11 DEF saturating_add
<1>13. blend \in Nat /\ es <= blend /\ blend <= cur BY <1>1, <1>2, <1>4, <1>10, <1>12
<1>14. floor \in Nat /\ floor <= cur BY <1>1, <1>5, <1>8 DEF saturating_sub, lesser
<1>15. es <= greater(blend, floor) /\ greater(blend, floor) <= cur
  BY <1>1, <1>13, <1>14 DEF greater
<1> QED BY <1>9, <1>15

-----------------------------------------------------------------------------
(* Totals over holders *)

\* A ledger of finitely many holders has finitely many units.
LEMMA UnitsFinite ==
  ASSUME NEW S, IsFiniteSet(S), NEW f \in [S -> U64]
  PROVE  IsFiniteSet(units_of(f)) /\ total_of(f) \in Nat
<1>1. IsFiniteSet(U64) BY FS_Interval, MaxU64Assumption DEF U64
<1>2. IsFiniteSet(S \X U64) BY <1>1, FS_Product
<1>3. units_of(f) \in SUBSET (S \X U64)
  <2>1. units_of(f) \subseteq (DOMAIN f) \X U64 BY DEF units_of
  <2>2. DOMAIN f = S OBVIOUS
  <2> QED BY <2>1, <2>2
<1>4. IsFiniteSet(units_of(f)) BY <1>2, <1>3, FS_Subset
<1> QED BY <1>4, FS_CardinalityType DEF total_of

\* One holder's units are as many as the holder's amount.
LEMMA UnitsOfOne ==
  ASSUME NEW u, NEW n \in U64
  PROVE  LET own == {unit \in {u} \X U64 : unit[2] < n}
         IN  IsFiniteSet(own) /\ Cardinality(own) = n
<1>. DEFINE own == {unit \in {u} \X U64 : unit[2] < n}
            I == 0 .. (n - 1)
            g == [i \in I |-> <<u, i>>]
<1>1. n \in Nat /\ n <= MaxU64 /\ MaxU64 \in Nat BY MaxU64Assumption DEF U64
<1>2. IsFiniteSet(I) /\ Cardinality(I) = n
  <2>1. n - 1 \in Int BY <1>1
  <2>2. IsFiniteSet(I) /\ Cardinality(I) = IF 0 > n - 1 THEN 0 ELSE n - 1 - 0 + 1
    BY <2>1, FS_Interval
  <2> QED BY <1>1, <2>2
<1>3. g \in Bijection(I, own)
  <2>1. g \in [I -> own] BY <1>1 DEF U64
  <2>2. \A a, b \in I : g[a] = g[b] => a = b OBVIOUS
  <2>3. \A x \in own : \E i \in I : g[i] = x
    <3>1. TAKE x \in own
    <3>2. x[2] \in I /\ x = <<u, x[2]>> BY <1>1 DEF U64
    <3> QED BY <3>2
  <2>. HIDE DEF g, I, own
  <2>4. g \in Injection(I, own) BY <2>1, <2>2 DEF Injection, IsInjective
  <2>5. g \in Surjection(I, own) BY <2>1, <2>3 DEF Surjection
  <2> QED BY <2>4, <2>5 DEF Bijection
<1>. HIDE DEF g, I, own
<1>4. ExistsBijection(I, own) BY <1>3 DEF ExistsBijection
<1>5. IsFiniteSet(own) /\ Cardinality(own) = n BY <1>2, <1>4, FS_Bijection
<1> QED BY <1>5 DEF own

\* The units of everybody but u.
units_of_others(f, u) == {unit \in units_of(f) : unit[1] # u}

\* The total is what one holder has and what the others have.
LEMMA TotalSplits ==
  ASSUME NEW S, IsFiniteSet(S), NEW f \in [S -> U64], NEW u \in S
  PROVE  /\ Cardinality(units_of_others(f, u)) \in Nat
         /\ total_of(f) = f[u] + Cardinality(units_of_others(f, u))
<1>. DEFINE own == {unit \in {u} \X U64 : unit[2] < f[u]}
<1>1. IsFiniteSet(units_of(f)) BY UnitsFinite
<1>2. IsFiniteSet(own) /\ Cardinality(own) = f[u] BY UnitsOfOne
<1>3. units_of(f) = {unit \in S \X U64 : unit[2] < f[unit[1]]}
  <2>1. DOMAIN f = S OBVIOUS
  <2> QED BY <2>1 DEF units_of
<1>4. units_of(f) \cap own = own
  <2>1. \A x \in own : x[1] = u /\ x \in S \X U64 /\ x[2] < f[x[1]] OBVIOUS
  <2>. HIDE DEF own
  <2>2. own \subseteq units_of(f) BY <1>3, <2>1
  <2> QED BY <2>2
<1>5. units_of(f) \ own = units_of_others(f, u)
  <2>1. \A x \in units_of(f) : x \in own <=> x[1] = u BY <1>3
  <2>. HIDE DEF own
  <2> QED BY <2>1 DEF units_of_others
<1>. HIDE DEF own
<1>6. /\ IsFiniteSet(units_of_others(f, u))
      /\ Cardinality(units_of_others(f, u)) = Cardinality(units_of(f)) - f[u]
  <2>1. /\ IsFiniteSet(units_of(f) \ own)
        /\ Cardinality(units_of(f) \ own) = Cardinality(units_of(f)) - Cardinality(units_of(f) \cap own)
    BY <1>1, FS_Difference
  <2> QED BY <1>2, <1>4, <1>5, <2>1
<1>7. Cardinality(units_of_others(f, u)) \in Nat /\ total_of(f) \in Nat /\ f[u] \in Int
  BY <1>6, UnitsFinite, FS_CardinalityType, MaxU64Assumption DEF U64
<1> QED BY <1>6, <1>7 DEF total_of

\* No holder has more than all together.
LEMMA TotalBounds ==
  ASSUME NEW S, IsFiniteSet(S), NEW f \in [S -> U64], NEW u \in S
  PROVE  f[u] <= total_of(f)
<1>1. f[u] \in Int BY MaxU64Assumption DEF U64
<1> QED BY <1>1, TotalSplits

\* Changing one holder's amount changes the total by the same difference.
LEMMA TotalFollows ==
  ASSUME NEW S, IsFiniteSet(S), NEW f \in [S -> U64], NEW g \in [S -> U64], NEW u \in S,
         \A v \in S \ {u} : g[v] = f[v]
  PROVE  total_of(g) = total_of(f) + (g[u] - f[u])
<1>1. units_of_others(g, u) = units_of_others(f, u) BY DEF units_of_others, units_of
<1>2. f[u] \in Int /\ g[u] \in Int BY MaxU64Assumption DEF U64
<1> QED BY <1>1, <1>2, TotalSplits

\* Nobody holding anything is a total of zero.
LEMMA TotalOfNothing ==
  ASSUME NEW S, NEW f \in [S -> U64], \A v \in S : f[v] = 0
  PROVE  total_of(f) = 0
<1>1. units_of(f) = {} BY MaxU64Assumption DEF units_of, U64
<1> QED BY <1>1, FS_EmptySet DEF total_of
=============================================================================
