-------------------------- MODULE MCStakeMath_proofs --------------------------
(***************************************************************************)
(* What MCStakeMath checks of the functions of math.rs up to its bounds,   *)
(* proved for every argument and every width of the integers.              *)
(***************************************************************************)
EXTENDS MCStakeMath, StakeMath_proofs

\* A u64 is a natural number.
LEMMA U64IsNat == \A x \in U64 : x \in Nat /\ x <= MaxU64
  BY MaxU64Assumption DEF U64

-----------------------------------------------------------------------------
(* Prices *)

\* Only one whole number is the quotient rounded down.
LEMMA QuotientUnique ==
  ASSUME NEW x \in Nat, NEW v \in Nat \ {0}, NEW n \in Nat, NEW q \in Nat,
         n * v <= x, (n + 1) * v > x, q * v <= x, (q + 1) * v > x
  PROVE  n = q
<1>1. ASSUME NEW i \in Nat, NEW j \in Nat, i + 1 <= j, j * v <= x, (i + 1) * v > x
      PROVE  FALSE
  <2>1. (i + 1) * v <= j * v BY <1>1
  <2>2. (i + 1) * v \in Int /\ j * v \in Int OBVIOUS
  <2> QED BY <1>1, <2>1, <2>2
<1>2. ~(n + 1 <= q) BY <1>1
<1>3. ~(q + 1 <= n) BY <1>1
<1> QED BY <1>2, <1>3

\* The price of a deposit is the share rounded down, or None (math.rs 20-49).
LEMMA FairShareAll == \A s, v, a \in U64 : FairShare(s, v, a)
<1> SUFFICES ASSUME NEW s \in U64, NEW v \in U64, NEW a \in U64 PROVE FairShare(s, v, a)
  OBVIOUS
<1>. DEFINE lp == calc_lp_for_deposit(s, v, a)
            fair == {n \in 0 .. (a * s) : n * v <= a * s /\ (n + 1) * v > a * s}
<1>1. s \in Nat /\ v \in Nat /\ a \in Nat BY U64IsNat
<1>2. CASE s = 0 \/ v = 0
  <2>1. lp = IF s = 0 /\ v = 0 THEN a ELSE None BY <1>2 DEF calc_lp_for_deposit
  <2> QED BY <1>2, <2>1 DEF FairShare
<1>3. CASE s # 0 /\ v # 0
  <2>. DEFINE x == a * s
              q == x \div v
  <2>1. x \in Nat /\ v \in Nat \ {0} BY <1>1, <1>3
  <2>2. lp = checked(q) BY <1>3 DEF calc_lp_for_deposit
  <2>3. fair = {n \in 0 .. x : n * v <= x /\ (n + 1) * v > x} OBVIOUS
  <2>4. FairShare(s, v, a) <=> IF lp = None THEN fair \cap U64 = {} ELSE fair = {lp}
    BY <1>3 DEF FairShare
  <2>. HIDE DEF x, lp, fair
  <2>5. q \in Nat /\ v * q <= x /\ x < v * q + v BY <2>1, DivFloor
  <2>. HIDE DEF q
  <2>6. v * q = q * v /\ (q + 1) * v = v * q + v /\ q * v \in Int BY <2>1, <2>5
  <2>7. q * v <= x /\ (q + 1) * v > x BY <2>1, <2>5, <2>6
  <2>8. q <= q * v BY <2>1, <2>5
  <2>9. q \in 0 .. x BY <2>1, <2>5, <2>6, <2>7, <2>8
  <2>10. \A n \in fair : n = q BY <2>1, <2>3, <2>5, <2>7, QuotientUnique
  <2>11. fair = {q} BY <2>3, <2>7, <2>9, <2>10
  <2>12. lp = (IF q \in U64 THEN q ELSE None) BY <2>2 DEF checked
  <2>13. lp = None => q \notin U64 BY <2>5, <2>12 DEF None
  <2> QED BY <2>4, <2>11, <2>12, <2>13
<1> QED BY <1>2, <1>3

\* Entering and leaving at once pays back no more than was put in, and nearly all
\* of it (math.rs 20-49, 65-81).
LEMMA RoundTripAll == \A s, v, a \in U64 : RoundTrip(s, v, a)
<1>. DEFINE lpOf(s, v, a) == calc_lp_for_deposit(s, v, a)
<1> SUFFICES ASSUME NEW s \in U64, NEW v \in U64, NEW a \in U64,
                    lpOf(s, v, a) # None, lpOf(s, v, a) > 0,
                    s + lpOf(s, v, a) \in U64, v + a \in U64
             PROVE  LET back == calc_collateral_for_withdraw(s + lpOf(s, v, a), v + a, lpOf(s, v, a))
                    IN  /\ back # None /\ back <= a
                        /\ a - back <= IF s = 0 THEN 0 ELSE v \div s + 1
  BY DEF RoundTrip
<1>. DEFINE lp == lpOf(s, v, a)
            t == s + lp
            w == v + a
            back == calc_collateral_for_withdraw(t, w, lp)
            q == (lp * w) \div t
<1>1. s \in Nat /\ v \in Nat /\ a \in Nat /\ a <= MaxU64 BY U64IsNat
<1>2. lp \in U64 BY LpType DEF OptU64
<1>3. lp \in Nat \ {0} BY <1>2, U64IsNat
<1>4. s = 0 => v = 0 /\ lp = a BY LpFirstDeposit
<1>5. s > 0 => v > 0 /\ lp * v <= a * s /\ a * s < (lp + 1) * v BY LpIsShare
<1>. HIDE DEF lp
<1>6. t \in Nat \ {0} /\ w \in Nat BY <1>1, <1>3
<1>7. back = checked(q) BY <1>6 DEF calc_collateral_for_withdraw
<1>8. lp * v <= a * s
  <2>1. CASE s = 0 BY <1>3, <1>4, <2>1
  <2>2. CASE s > 0 BY <1>5, <2>2
  <2> QED BY <1>1, <2>1, <2>2
<1>9. q \in Nat /\ q <= a
  <2>1. lp * w = lp * v + lp * a BY <1>1, <1>3
  <2>2. a * t = a * s + lp * a BY <1>1, <1>3
  <2>3. lp * v \in Nat /\ lp * a \in Nat /\ a * s \in Nat BY <1>1, <1>3
  <2>4. lp * w \in Nat /\ lp * w <= a * t BY <2>1, <2>2, <2>3, <1>8
  <2> QED BY <1>1, <1>6, <2>4, DivUpper, DivFloor
<1>10. a - q <= IF s = 0 THEN 0 ELSE v \div s + 1
  <2>1. CASE s = 0
    <3>1. t = lp /\ w = a /\ lp = a BY <1>1, <1>3, <1>4, <2>1
    <3>2. q = (a * a) \div a /\ a \in Nat \ {0} BY <3>1, <1>3
    <3>3. q = a BY <3>2, DivSelf
    <3> QED BY <2>1, <3>3, <1>1
  <2>2. CASE s > 0
    <3>. DEFINE k == v \div s + 1
                r == v \div s
    <3>1. r \in Nat /\ v < s * r + s BY <1>1, <2>2, DivFloor
    <3>. HIDE DEF r
    <3>2. k = r + 1 /\ k \in Nat BY <3>1 DEF r
    <3>. HIDE DEF k
    <3>3. v <= k * s - 1
      <4>1. k * s = s * r + s BY <1>1, <3>1, <3>2
      <4>2. s * r \in Int BY <1>1, <3>1
      <4> QED BY <1>1, <3>1, <4>1, <4>2
    <3>4. CASE a <= k BY <1>1, <1>9, <2>2, <3>2, <3>4 DEF k
    <3>5. CASE a > k
      <4>. DEFINE m == a - k
      <4>1. m \in Nat BY <1>1, <3>2, <3>5
      <4>2. m * t = a * s + a * lp - k * s - k * lp BY <1>1, <1>3, <3>2
      <4>3. lp * w = lp * v + a * lp BY <1>1, <1>3
      <4>4. a * s < lp * v + v
        <5>1. (lp + 1) * v = lp * v + v BY <1>1, <1>3
        <5> QED BY <1>5, <2>2, <5>1
      <4>5. /\ a * s \in Nat /\ a * lp \in Nat /\ k * s \in Nat /\ k * lp \in Nat
            /\ lp * v \in Nat
        BY <1>1, <1>3, <3>2
      <4>6. m * t <= lp * w BY <4>2, <4>3, <4>4, <4>5, <3>3, <1>1
      <4>7. lp * w \in Nat BY <4>3, <4>5
      <4>. HIDE DEF m
      <4>8. q >= m BY <1>6, <4>1, <4>6, <4>7, DivLower
      <4> QED BY <1>1, <1>9, <2>2, <3>2, <4>8 DEF k, m
    <3> QED BY <1>1, <3>2, <3>4, <3>5
  <2> QED BY <1>1, <2>1, <2>2
<1>. HIDE DEF q, back
<1>11. q \in U64 BY <1>1, <1>9, MaxU64Assumption DEF U64
<1>12. back = q /\ back # None BY <1>7, <1>9, <1>11, CheckedType
<1> QED BY <1>9, <1>10, <1>12 DEF back, t, w, lp

\* The price of a deposit for any naturals, within u64 or not.
LEMMA LpQuotient ==
  ASSUME NEW s \in Nat \ {0}, NEW v \in Nat \ {0}, NEW a \in Nat,
         calc_lp_for_deposit(s, v, a) # None
  PROVE  /\ calc_lp_for_deposit(s, v, a) = (a * s) \div v
         /\ calc_lp_for_deposit(s, v, a) \in Nat
         /\ calc_lp_for_deposit(s, v, a) * v <= a * s
<1>. DEFINE x == a * s
            q == x \div v
<1>1. x \in Nat OBVIOUS
<1>2. calc_lp_for_deposit(s, v, a) = checked(q) BY DEF calc_lp_for_deposit
<1>3. q \in Nat /\ v * q <= x BY <1>1, DivFloor DEF x
<1>4. v * q = q * v BY <1>3
<1>. HIDE DEF x
<1>5. checked(q) = q BY <1>2, <1>3, CheckedType
<1> QED BY <1>2, <1>3, <1>4, <1>5 DEF x

\* Two deposits in a row get no more LP than one of both amounts (math.rs 20-49).
LEMMA SplitDepositAll == \A s, v, a, b \in U64 : SplitDeposit(s, v, a, b)
<1> SUFFICES ASSUME NEW s \in U64, NEW v \in U64, NEW a \in U64, NEW b \in U64,
                    calc_lp_for_deposit(s, v, a) # None,
                    calc_lp_for_deposit(s + calc_lp_for_deposit(s, v, a), v + a, b) # None,
                    calc_lp_for_deposit(s, v, a + b) # None
             PROVE  calc_lp_for_deposit(s, v, a)
                      + calc_lp_for_deposit(s + calc_lp_for_deposit(s, v, a), v + a, b)
                    <= calc_lp_for_deposit(s, v, a + b)
  BY DEF SplitDeposit
<1>. DEFINE lp1 == calc_lp_for_deposit(s, v, a)
            t == s + lp1
            w == v + a
            lp2 == calc_lp_for_deposit(t, w, b)
            whole == calc_lp_for_deposit(s, v, a + b)
<1>1. s \in Nat /\ v \in Nat /\ a \in Nat /\ b \in Nat BY U64IsNat
<1>2. CASE s = 0
  <2>1. v = 0 /\ lp1 = a BY <1>2, LpFirstDeposit
  <2>2. whole = a + b BY <1>2, <2>1 DEF calc_lp_for_deposit
  <2>3. t = a /\ w = a BY <1>1, <1>2, <2>1
  <2>4. lp2 = b
    <3>1. CASE a = 0 BY <2>3, <3>1 DEF calc_lp_for_deposit
    <3>2. CASE a # 0
      <4>1. lp2 = (b * a) \div a BY <1>1, <2>3, <3>2, LpQuotient
      <4>2. b * a = a * b BY <1>1
      <4> QED BY <1>1, <3>2, <4>1, <4>2, DivSelf
    <3> QED BY <3>1, <3>2
  <2> QED BY <1>1, <2>1, <2>2, <2>4
<1>3. CASE s # 0
  <2>1. v # 0 BY <1>3 DEF calc_lp_for_deposit
  <2>2. s \in Nat \ {0} /\ v \in Nat \ {0} BY <1>1, <1>3, <2>1
  <2>3. lp1 \in Nat /\ lp1 * v <= a * s BY <1>1, <2>2, LpQuotient
  <2>4. a + b \in Nat BY <1>1
  <2>5. whole = ((a + b) * s) \div v BY <2>2, <2>4, LpQuotient
  <2>. HIDE DEF lp1, whole
  <2>6. t \in Nat \ {0} /\ w \in Nat \ {0} BY <1>1, <2>2, <2>3
  <2>7. lp2 \in Nat /\ lp2 * w <= b * t BY <1>1, <2>6, LpQuotient DEF lp1
  <2>8. t * v <= s * w
    <3>1. t * v = s * v + lp1 * v BY <1>1, <2>3
    <3>2. s * w = s * v + a * s BY <1>1
    <3>3. s * v \in Int /\ lp1 * v \in Int /\ a * s \in Int BY <1>1, <2>3
    <3> QED BY <2>3, <3>1, <3>2, <3>3
  <2>. HIDE DEF lp2, t, w
  <2>9. lp2 * v <= b * s
    <3>1. (lp2 * w) * v <= (b * t) * v
      <4>1. lp2 * w \in Nat /\ b * t \in Nat BY <1>1, <2>6, <2>7
      <4>. DEFINE x == lp2 * w
                  y == b * t
      <4>. HIDE DEF x, y
      <4>2. x * v <= y * v BY <1>1, <2>7, <4>1 DEF x, y
      <4> QED BY <4>2 DEF x, y
    <3>2. b * (t * v) <= b * (s * w)
      <4>1. t * v \in Nat /\ s * w \in Nat BY <1>1, <2>6
      <4>. DEFINE x == t * v
                  y == s * w
      <4>. HIDE DEF x, y
      <4>2. b * x <= b * y BY <1>1, <2>8, <4>1 DEF x, y
      <4> QED BY <4>2 DEF x, y
    <3>3. (b * t) * v = b * (t * v) /\ (lp2 * w) * v = (lp2 * v) * w
          /\ b * (s * w) = (b * s) * w
      BY <1>1, <2>6, <2>7
    <3>4. lp2 * v \in Nat /\ b * s \in Nat BY <1>1, <2>7
    <3>. DEFINE x == lp2 * v
                y == b * s
    <3>5. (b * t) * v \in Int /\ b * (s * w) \in Int /\ (lp2 * w) * v \in Int
      BY <1>1, <2>6, <2>7
    <3>6. x * w <= y * w BY <3>1, <3>2, <3>3, <3>5
    <3>. HIDE DEF x, y
    <3>7. SUFFICES ASSUME y + 1 <= x PROVE FALSE BY <3>4 DEF x, y
    <3>8. x \in Nat /\ y \in Nat BY <3>4 DEF x, y
    <3>9. (y + 1) * w <= x * w BY <2>6, <3>7, <3>8
    <3>10. (y + 1) * w = y * w + w /\ y * w \in Int /\ x * w \in Int BY <2>6, <3>8
    <3> QED BY <2>6, <3>6, <3>9, <3>10
  <2>10. (lp1 + lp2) * v <= (a + b) * s
    <3>1. (lp1 + lp2) * v = lp1 * v + lp2 * v BY <1>1, <2>3, <2>7
    <3>2. (a + b) * s = a * s + b * s BY <1>1
    <3>3. lp1 * v \in Int /\ lp2 * v \in Int /\ a * s \in Int /\ b * s \in Int
      BY <1>1, <2>3, <2>7
    <3> QED BY <2>3, <2>9, <3>1, <3>2, <3>3
  <2>11. (a + b) * s \in Nat /\ lp1 + lp2 \in Nat BY <1>1, <2>3, <2>7
  <2>12. ((a + b) * s) \div v >= lp1 + lp2 BY <2>2, <2>10, <2>11, DivLower
  <2>13. ((a + b) * s) \div v \in Nat BY <2>2, <2>11, DivFloor
  <2>14. lp1 + lp2 <= whole BY <2>5, <2>11, <2>12, <2>13
  <2> QED BY <2>14 DEF lp1, lp2, whole, t, w
<1> QED BY <1>2, <1>3

\* Two withdrawals in a row pay no more than one of both amounts (math.rs 65-81).
LEMMA SplitWithdrawalAll == \A s, v, a, b \in U64 : SplitWithdrawal(s, v, a, b)
<1> SUFFICES ASSUME NEW s \in U64, NEW v \in U64, NEW a \in U64, NEW b \in U64, a + b <= s,
                    calc_collateral_for_withdraw(s, v, a) # None,
                    calc_collateral_for_withdraw(s - a, v - calc_collateral_for_withdraw(s, v, a),
                                                 b) # None
             PROVE  calc_collateral_for_withdraw(s, v, a)
                      + calc_collateral_for_withdraw(s - a,
                          v - calc_collateral_for_withdraw(s, v, a), b)
                    <= calc_collateral_for_withdraw(s, v, a + b)
  BY DEF SplitWithdrawal
<1>. DEFINE c1 == calc_collateral_for_withdraw(s, v, a)
            t == s - a
            u == v - c1
            c2 == calc_collateral_for_withdraw(t, u, b)
            q == ((a + b) * v) \div s
<1>1. s \in Nat /\ v \in Nat /\ a \in Nat /\ b \in Nat /\ s <= MaxU64 /\ v <= MaxU64 BY U64IsNat
<1>2. a <= s /\ a + b \in U64 BY <1>1, MaxU64Assumption DEF U64
<1>3. s > 0 /\ c1 \in 0 .. v /\ c1 * s <= a * v BY <1>2, CollateralIsShare
<1>. HIDE DEF c1
<1>4. c1 \in Nat /\ c1 <= v BY <1>1, <1>3
<1>5. t \in U64 /\ u \in U64 /\ b <= t BY <1>1, <1>2, <1>4, MaxU64Assumption DEF U64
<1>6. t > 0 /\ c2 \in 0 .. u /\ c2 * t <= b * u BY <1>5, CollateralIsShare DEF c1
<1>7. t \in Nat \ {0} /\ u \in Nat BY <1>5, <1>6, U64IsNat
<1>8. c2 \in Nat BY <1>6, <1>7
<1>. HIDE DEF c2
<1>9. (c1 + c2) * s <= (a + b) * v
  <2>. DEFINE left == t - b
  <2>1. left \in Nat BY <1>1, <1>5, <1>7
  <2>2. s * (c2 * t) <= s * (b * u)
    <3>1. c2 * t \in Nat /\ b * u \in Nat BY <1>1, <1>7, <1>8
    <3>. DEFINE x == c2 * t
                y == b * u
    <3>. HIDE DEF x, y
    <3>2. s * x <= s * y BY <1>1, <1>6, <3>1 DEF x, y
    <3> QED BY <3>2 DEF x, y
  <2>3. (c1 * s) * left <= (a * v) * left
    <3>1. c1 * s \in Nat /\ a * v \in Nat BY <1>1, <1>4
    <3>. DEFINE x == c1 * s
                y == a * v
    <3>. HIDE DEF x, y, left
    <3>2. x * left <= y * left BY <1>3, <2>1, <3>1 DEF x, y
    <3> QED BY <3>2 DEF x, y
  <2>4. ((c1 + c2) * s) * t = (c1 * s) * t + s * (c2 * t)
    <3>. HIDE DEF t
    <3> QED BY <1>1, <1>4, <1>7, <1>8
  <2>5. s * (b * u) = (s * b) * v - (c1 * s) * b BY <1>1, <1>4
  <2>6. (c1 * s) * left = (c1 * s) * t - (c1 * s) * b
    <3>. HIDE DEF t
    <3> QED BY <1>1, <1>4, <1>7
  <2>7. (a * v) * left + (s * b) * v = ((a + b) * v) * t
    <3>1. left = s - a - b BY <1>1
    <3>2. (a * v) * (s - a - b) = a * v * s - a * v * a - a * v * b BY <1>1
    <3>3. ((a + b) * v) * (s - a) = a * v * s + b * v * s - a * v * a - b * v * a BY <1>1
    <3>4. (s * b) * v = b * v * s /\ a * v * b = b * v * a BY <1>1
    <3>5. /\ a * v * s \in Int /\ a * v * a \in Int /\ b * v * s \in Int /\ b * v * a \in Int
      BY <1>1
    <3> QED BY <3>1, <3>2, <3>3, <3>4, <3>5
  <2>8. /\ (c1 * s) * t \in Int /\ s * (c2 * t) \in Int /\ s * (b * u) \in Int
        /\ (c1 * s) * b \in Int /\ (s * b) * v \in Int /\ (a * v) * left \in Int
        /\ (c1 * s) * left \in Int
    BY <1>1, <1>4, <1>7, <1>8, <2>1
  <2>9. ((c1 + c2) * s) * t <= ((a + b) * v) * t
    BY <2>2, <2>3, <2>4, <2>5, <2>6, <2>7, <2>8
  <2>. DEFINE x == (c1 + c2) * s
              y == (a + b) * v
  <2>10. x \in Nat /\ y \in Nat BY <1>1, <1>4, <1>8
  <2>. HIDE DEF x, y, t
  <2>11. SUFFICES ASSUME y + 1 <= x PROVE FALSE BY <2>10 DEF x, y
  <2>12. (y + 1) * t <= x * t BY <1>7, <2>10, <2>11
  <2>13. (y + 1) * t = y * t + t /\ y * t \in Int /\ x * t \in Int BY <1>7, <2>10
  <2>14. x * t <= y * t BY <2>9 DEF x, y
  <2> QED BY <1>7, <2>12, <2>13, <2>14
<1>10. /\ (a + b) * v \in Nat /\ c1 + c2 \in Nat /\ s \in Nat \ {0} /\ a + b \in Nat
  BY <1>1, <1>3, <1>4, <1>8
<1>11. q >= c1 + c2 /\ q \in Nat BY <1>9, <1>10, DivLower, DivFloor
<1>12. (a + b) * v <= v * s
  <2>1. (a + b) * v <= s * v BY <1>1, <1>10
  <2>2. s * v = v * s BY <1>1
  <2> QED BY <2>1, <2>2
<1>13. q <= v BY <1>1, <1>10, <1>12, DivUpper
<1>14. q \in U64 BY <1>1, <1>11, <1>13, MaxU64Assumption DEF U64
<1>15. calc_collateral_for_withdraw(s, v, a + b) = q
  BY <1>10, <1>14 DEF calc_collateral_for_withdraw, checked
<1>. HIDE DEF q
<1>16. c1 + c2 <= calc_collateral_for_withdraw(s, v, a + b) BY <1>10, <1>11, <1>15
<1> QED BY <1>16 DEF c1, c2, t, u

-----------------------------------------------------------------------------
(* Cooldown *)

\* Taking a multiple of the divisor out of the dividend first changes nothing.
LEMMA DivOffset ==
  ASSUME NEW k \in Nat, NEW t \in Nat \ {0}, NEW x \in Nat
  PROVE  (k * t + x) \div t = k + x \div t
<1>. DEFINE q == x \div t
            z == k * t + x
            d == k * t
<1>1. q \in Nat /\ t * q <= x /\ x < t * q + t BY DivFloor
<1>2. d \in Nat BY DEF d
<1>3. z \in Nat BY <1>2
<1>. HIDE DEF q
<1>4. (k + q) * t = d + t * q /\ (k + q + 1) * t = d + t * q + t /\ t * q \in Int
  BY <1>1
<1>. HIDE DEF d
<1>5. z = d + x BY DEF d
<1>. HIDE DEF z
<1>6. (k + q) * t <= z /\ (k + q + 1) * t > z BY <1>1, <1>2, <1>4, <1>5
<1>. DEFINE p == z \div t
<1>7. p \in Nat /\ t * p <= z /\ z < t * p + t BY <1>3, DivFloor
<1>. HIDE DEF p
<1>8. t * p = p * t /\ (p + 1) * t = t * p + t /\ t * p \in Int BY <1>7
<1>9. p * t <= z /\ (p + 1) * t > z BY <1>3, <1>7, <1>8
<1>10. k + q \in Nat BY <1>1
<1>11. p = k + q BY <1>3, <1>6, <1>7, <1>9, <1>10, QuotientUnique
<1> QED BY <1>11 DEF p, q, z

\* The blend, computed above the lower of two slots, is their weighted average and
\* does not saturate (math.rs 203-216).
LEMMA BlendIsAverage ==
  ASSUME NEW e \in U64, NEW es \in U64, NEW n \in U64, NEW cur \in U64, e + n > 0
  PROVE  /\ blended_slot(e, es, n, cur) = (e * es + n * cur) \div (e + n)
         /\ (e * es + n * cur) \div (e + n) \in Nat
<1>. DEFINE t == e + n
            lo == lesser(es, cur)
            hi == greater(es, cur)
            span == e * (es - lo) + n * (cur - lo)
            sum == e * es + n * cur
            q == span \div t
<1>1. /\ e \in Nat /\ n \in Nat /\ es \in Nat /\ cur \in Nat
      /\ es <= MaxU64 /\ cur <= MaxU64 /\ MaxU64 \in Nat
  BY U64IsNat, MaxU64Assumption
<1>2. t \in Nat \ {0} BY <1>1
<1>3. /\ lo \in Nat /\ lo <= es /\ lo <= cur
      /\ hi \in Nat /\ es <= hi /\ cur <= hi /\ hi <= MaxU64
  BY <1>1 DEF lesser, greater
<1>4. blended_slot(e, es, n, cur) = saturating_add(lo, q) BY DEF blended_slot
<1>. HIDE DEF lo, hi
<1>5. span \in Nat
  <2>1. es - lo \in Nat /\ cur - lo \in Nat BY <1>1, <1>3
  <2>. DEFINE x == es - lo
              y == cur - lo
  <2>. HIDE DEF x, y
  <2>2. e * x \in Nat /\ n * y \in Nat BY <1>1, <2>1 DEF x, y
  <2> QED BY <2>2 DEF x, y
<1>6. sum = lo * t + span BY <1>1, <1>3
<1>7. sum <= hi * t
  <2>1. e * es <= e * hi /\ n * cur <= n * hi BY <1>1, <1>3
  <2>2. hi * t = e * hi + n * hi BY <1>1, <1>3
  <2>3. e * es \in Int /\ n * cur \in Int /\ e * hi \in Int /\ n * hi \in Int BY <1>1, <1>3
  <2> QED BY <2>1, <2>2, <2>3
<1>8. sum \in Nat BY <1>1
<1>9. sum \div t = lo + q
  <2>. HIDE DEF span, t, sum
  <2> QED BY <1>2, <1>3, <1>5, <1>6, DivOffset
<1>. HIDE DEF sum, t, span
<1>10. sum \div t <= hi /\ sum \div t \in Nat BY <1>2, <1>3, <1>7, <1>8, DivUpper, DivFloor
<1>11. saturating_add(lo, q) = lo + q
  BY <1>1, <1>3, <1>9, <1>10 DEF saturating_add
<1> QED BY <1>4, <1>9, <1>10, <1>11 DEF sum, t

\* The whole of weighted_deposit_slot (math.rs 193-236).
LEMMA FlooredAverageAll == \A e, es, n, cur, c \in U64 : FlooredAverage(e, es, n, cur, c)
<1> SUFFICES ASSUME NEW e \in U64, NEW es \in U64, NEW n \in U64, NEW cur \in U64, NEW c \in U64
             PROVE  FlooredAverage(e, es, n, cur, c)
  OBVIOUS
<1>. DEFINE new == weighted_deposit_slot(e, es, n, cur, c)
            average == (e * es + n * cur) \div (e + n)
            credit == (c * e) \div (e + n)
            floor == greater(cur - credit, 0)
<1>1. /\ e \in Nat /\ n \in Nat /\ es \in Nat /\ cur \in Nat /\ c \in Nat /\ c <= MaxU64
      /\ MaxU64 \in Nat
  BY U64IsNat, MaxU64Assumption
<1>0. e + n > 0 => blended_slot(e, es, n, cur) = average BY BlendIsAverage
<1>2. e + n > 0 /\ n > 0 => new = greater(average, floor)
  <2> SUFFICES ASSUME e + n > 0, n > 0 PROVE new = greater(average, floor) OBVIOUS
  <2>1. credit \in 0 .. c BY <1>1, SharesOfCooldown
  <2>2. new = greater(blended_slot(e, es, n, cur), freshness_floor(e, n, cur, c))
    BY <1>1 DEF weighted_deposit_slot
  <2>3. blended_slot(e, es, n, cur) = average BY <1>0
  <2>4. freshness_floor(e, n, cur, c) = saturating_sub(cur, lesser(credit, MaxU64))
    BY DEF freshness_floor
  <2>. HIDE DEF credit, average
  <2>5. lesser(credit, MaxU64) = credit BY <1>1, <2>1 DEF lesser
  <2>6. saturating_sub(cur, credit) = floor BY <1>1, <2>1 DEF saturating_sub, greater
  <2> QED BY <2>2, <2>3, <2>4, <2>5, <2>6
<1>3. e + n > 0 /\ n = 0 => new = es
  <2> SUFFICES ASSUME e + n > 0, n = 0 PROVE new = es OBVIOUS
  <2>1. new = blended_slot(e, es, n, cur) BY <1>1 DEF weighted_deposit_slot
  <2>. HIDE DEF new
  <2>2. new = average BY <1>0, <2>1
  <2>3. e * es + n * cur = e * es /\ e + n = e /\ e \in Nat \ {0} BY <1>1
  <2>4. new = (e * es) \div e BY <2>2, <2>3
  <2> QED BY <1>1, <2>3, <2>4, DivSelf
<1>4. es <= cur => new <= cur /\ (e > 0 => new >= es)
  <2> SUFFICES ASSUME es <= cur PROVE new <= cur /\ (e > 0 => new >= es) OBVIOUS
  <2>1. CASE n > 0
    <3>1. new \in Nat BY WeightedSlotType, U64IsNat
    <3>2. es <= new /\ new <= cur BY <2>1, AnchorMovesForward
    <3>. HIDE DEF new
    <3> QED BY <1>1, <3>1, <3>2
  <2>2. CASE n = 0 /\ e > 0
    <3>1. new = es BY <1>1, <1>3, <2>2
    <3>. HIDE DEF new
    <3> QED BY <1>1, <3>1
  <2>3. CASE n = 0 /\ e = 0
    <3>1. new = cur BY <2>3 DEF weighted_deposit_slot
    <3>. HIDE DEF new
    <3> QED BY <1>1, <2>3, <3>1
  <2> QED BY <1>1, <2>1, <2>2, <2>3
<1>5. n > 0 /\ c > 0 => new + c > cur
  <2> SUFFICES ASSUME n > 0, c > 0 PROVE new + c > cur OBVIOUS
  <2>. DEFINE x == c * n + (e + n) - 1
              fresh == x \div (e + n)
  <2>1. fresh \in Nat /\ new + c >= cur + fresh BY FreshShareWaits
  <2>2. new \in Nat BY WeightedSlotType, U64IsNat
  <2>3. e + n \in Nat \ {0} BY <1>1
  <2>4. c * n \in Nat \ {0} BY <1>1
  <2>5. x \in Nat /\ 1 * (e + n) <= x
    <3>. DEFINE y == c * n
    <3>. HIDE DEF y
    <3>1. y \in Nat \ {0} BY <2>4 DEF y
    <3>2. y + (e + n) - 1 \in Nat /\ 1 * (e + n) <= y + (e + n) - 1 BY <1>1, <3>1
    <3> QED BY <3>2 DEF y
  <2>. HIDE DEF x, new
  <2>6. fresh >= 1 BY <2>3, <2>5, DivLower
  <2>. HIDE DEF fresh
  <2> QED BY <1>1, <2>1, <2>2, <2>6
<1>. HIDE DEF new, average, floor
<1>6. e + n > 0 => new = (IF n > 0 THEN greater(average, floor) ELSE es)
  BY <1>1, <1>2, <1>3
<1> QED BY <1>4, <1>5, <1>6 DEF FlooredAverage, new, average, floor, credit

-----------------------------------------------------------------------------
(* Pool values *)

\* What the two pools of the comparison hold.
LEMMA ComparedPools ==
  ASSUME NEW d, NEW r, NEW w, NEW f, NEW fees
  PROVE  /\ insurance(d, r, w, f).pool_mode = InsuranceLp
         /\ insurance(d, r, w, f).total_deposited = d
         /\ insurance(d, r, w, f).total_returned = r
         /\ insurance(d, r, w, f).total_withdrawn = w
         /\ insurance(d, r, w, f).total_flushed = f
         /\ trading(d, w, fees).pool_mode = TradingLp
         /\ trading(d, w, fees).total_deposited = d
         /\ trading(d, w, fees).total_returned = 0
         /\ trading(d, w, fees).total_withdrawn = w
         /\ trading(d, w, fees).total_flushed = 0
         /\ trading(d, w, fees).total_fees_earned = fees
  BY DEF insurance, trading, ZeroedPool

\* The value of an insurance pool, where it has one.
LEMMA InsuranceValue ==
  ASSUME NEW d \in U64, NEW r \in U64, NEW w \in U64, NEW f \in U64,
         total_pool_value(insurance(d, r, w, f)) # None
  PROVE  /\ total_pool_value(insurance(d, r, w, f)) = d + r - w - f
         /\ NetValue(insurance(d, r, w, f)) = d + r - w - f
         /\ d + r \in U64 /\ w + f \in U64 /\ w + f <= d + r
<1>. DEFINE p == insurance(d, r, w, f)
<1>1. d \in Nat /\ r \in Nat /\ w \in Nat /\ f \in Nat BY U64IsNat
<1>2. /\ p.total_deposited = d /\ p.total_returned = r /\ p.total_withdrawn = w
      /\ p.total_flushed = f /\ p.pool_mode # TradingLp
  BY ComparedPools DEF InsuranceLp, TradingLp
<1>. HIDE DEF p
<1>3. total_pool_value(p)
        = IF checked(d + r + 0) = None \/ checked(w + f) = None THEN None
          ELSE checked(checked(d + r + 0) - checked(w + f))
  BY <1>2 DEF total_pool_value
<1>4. d + r + 0 = d + r /\ d + r \in Int /\ w + f \in Int BY <1>1
<1>5. total_pool_value(p) # None BY DEF p
<1>6. /\ checked(d + r) = d + r /\ d + r \in U64
      /\ checked(w + f) = w + f /\ w + f \in U64
  BY <1>3, <1>4, <1>5, CheckedType
<1>7. total_pool_value(p) = checked((d + r) - (w + f))
      /\ (d + r) - (w + f) \in Int
  BY <1>3, <1>4, <1>5, <1>6
<1>8. total_pool_value(p) = (d + r) - (w + f) /\ (d + r) - (w + f) \in U64
  BY <1>5, <1>7, CheckedType
<1>9. (d + r) - (w + f) = d + r - w - f /\ w + f <= d + r
  BY <1>1, <1>8, MaxU64Assumption DEF U64
<1>10. NetValue(p) = d + r - w - f BY <1>1, <1>2 DEF NetValue
<1> QED BY <1>6, <1>8, <1>9, <1>10 DEF p

\* The value of a trading pool is the baseline of its fee accrual.
LEMMA TradingValue ==
  ASSUME NEW d \in U64, NEW w \in U64, NEW fees \in U64
  PROVE  /\ total_pool_value(trading(d, w, fees)) = accrual_baseline(trading(d, w, fees))
         /\ d + fees \in U64
              => total_pool_value(trading(d, w, fees)) = checked(d + fees - w)
<1>. DEFINE p == trading(d, w, fees)
<1>1. d \in Nat /\ w \in Nat /\ fees \in Nat BY U64IsNat
<1>2. /\ p.total_deposited = d /\ p.total_returned = 0 /\ p.total_withdrawn = w
      /\ p.total_flushed = 0 /\ p.total_fees_earned = fees /\ p.pool_mode = TradingLp
  BY ComparedPools
<1>. HIDE DEF p
<1>3. d + 0 + fees = d + fees /\ w + 0 = w /\ d + fees \in Int BY <1>1
<1>4. checked(w) = w /\ checked(w) # None BY <1>1, CheckedType
<1>5. total_pool_value(p) = IF checked(d + fees) = None THEN None
                            ELSE checked(checked(d + fees) - w)
  BY <1>2, <1>3, <1>4 DEF total_pool_value
<1>6. accrual_baseline(p) = IF checked(d + fees) = None THEN None
                            ELSE checked(checked(d + fees) - w)
  BY <1>2 DEF accrual_baseline
<1>7. d + fees \in U64 => checked(d + fees) = d + fees /\ checked(d + fees) # None
  BY <1>3, CheckedType
<1>8. total_pool_value(p) = accrual_baseline(p) BY <1>5, <1>6
<1>9. ASSUME d + fees \in U64 PROVE total_pool_value(p) = checked(d + fees - w)
  <2>. DEFINE x == d + fees
  <2>1. checked(x) = x /\ checked(x) # None BY <1>7, <1>9
  <2>2. total_pool_value(p) = IF checked(x) = None THEN None ELSE checked(checked(x) - w)
    BY <1>5
  <2>. HIDE DEF x
  <2>3. total_pool_value(p) = checked(x - w) BY <2>1, <2>2
  <2>4. x - w = d + fees - w BY <1>1 DEF x
  <2> QED BY <2>3, <2>4
<1> QED BY <1>8, <1>9 DEF p

\* The ways of computing what a pool can pay out agree (state.rs 319-367, math.rs
\* 88-128).
LEMMA AgreementAll == \A d, r, w, f, fees \in U64 : Agreement(d, r, w, f, fees)
<1> SUFFICES ASSUME NEW d \in U64, NEW r \in U64, NEW w \in U64, NEW f \in U64, NEW fees \in U64
             PROVE  Agreement(d, r, w, f, fees)
  OBVIOUS
<1>. DEFINE value == total_pool_value(insurance(d, r, w, f))
            other == total_pool_value(trading(d, w, fees))
<1>1. /\ d \in Nat /\ r \in Nat /\ w \in Nat /\ f \in Nat /\ fees \in Nat
      /\ d <= MaxU64 /\ MaxU64 \in Nat
  BY U64IsNat, MaxU64Assumption
<1>2. value # None => /\ value = NetValue(insurance(d, r, w, f))
                      /\ flush_available(d, r, w, f) = value
  <2> SUFFICES ASSUME value # None
               PROVE  /\ value = NetValue(insurance(d, r, w, f))
                      /\ flush_available(d, r, w, f) = value
    OBVIOUS
  <2>1. /\ value = d + r - w - f /\ NetValue(insurance(d, r, w, f)) = d + r - w - f
        /\ d + r \in U64 /\ w + f <= d + r
    BY InsuranceValue
  <2>2. saturating_add(d, r) = d + r BY <1>1, <2>1, U64IsNat DEF saturating_add
  <2>3. saturating_sub(d + r, w) = d + r - w BY <1>1, <2>1 DEF saturating_sub
  <2>4. saturating_sub(d + r - w, f) = d + r - w - f BY <1>1, <2>1 DEF saturating_sub
  <2> QED BY <2>1, <2>2, <2>3, <2>4 DEF flush_available
<1>3. other = accrual_baseline(trading(d, w, fees)) BY TradingValue
<1>4. d + fees \in U64 => pool_value_with_fees(d, w, fees) = IF w <= d THEN other ELSE None
  <2> SUFFICES ASSUME d + fees \in U64
               PROVE  pool_value_with_fees(d, w, fees) = IF w <= d THEN other ELSE None
    OBVIOUS
  <2>1. other = checked(d + fees - w) BY TradingValue
  <2>2. CASE w <= d
    <3>1. d - w \in U64 /\ d - w \in Int BY <1>1, <2>2 DEF U64
    <3>2. checked(d - w) = d - w /\ checked(d - w) # None BY <3>1, CheckedType
    <3>3. d - w + fees = d + fees - w BY <1>1
    <3> QED BY <2>1, <2>2, <3>2, <3>3 DEF pool_value_with_fees, pool_value
  <2>3. CASE ~(w <= d)
    <3>1. d - w \notin U64 BY <1>1, <2>3 DEF U64
    <3> QED BY <2>3, <3>1 DEF pool_value_with_fees, pool_value, checked
  <2> QED BY <2>2, <2>3
<1> QED BY <1>2, <1>3, <1>4 DEF Agreement

-----------------------------------------------------------------------------
(* The copy of the functions in kani-proofs *)

\* Prices (kani-proofs/src/lib.rs 29-51, math.rs 20-90).
LEMMA MirrorsPricesAll == \A s, v, a : MirrorsPrices(s, v, a)
  BY DEF MirrorsPrices, kani_calc_lp_for_deposit, calc_lp_for_deposit,
         kani_calc_collateral_for_withdraw, calc_collateral_for_withdraw,
         kani_pool_value, pool_value

\* Unlocking (kani-proofs/src/lib.rs 76-81, math.rs 193-236).
LEMMA MirrorsCooldownAll == \A e, es, cur, c \in U64 : MirrorsCooldown(e, es, cur, c)
<1> SUFFICES ASSUME NEW e \in U64, NEW es \in U64, NEW cur \in U64, NEW c \in U64, e > 0
             PROVE  weighted_deposit_slot(e, es, 0, cur, c) = es
  BY DEF MirrorsCooldown, kani_cooldown_elapsed
<1>1. 0 \in U64 /\ e + 0 > 0 /\ ~(0 > 0) BY U64IsNat, MaxU64Assumption DEF U64
<1>2. FlooredAverage(e, es, 0, cur, c) BY <1>1, FlooredAverageAll
<1> QED BY <1>1, <1>2 DEF FlooredAverage

\* Totals (kani-proofs/src/lib.rs 53-74, state.rs 319-341, math.rs 119-128).
LEMMA MirrorsTotalsAll == \A d, r, w, f \in U64 : MirrorsTotals(d, r, w, f)
<1> SUFFICES ASSUME NEW d \in U64, NEW r \in U64, NEW w \in U64, NEW f \in U64
             PROVE  MirrorsTotals(d, r, w, f)
  OBVIOUS
<1>. DEFINE value == total_pool_value(insurance(d, r, w, f))
            copy == kani_pool_value_with_flush(d, w, f, r)
<1>1. /\ d \in Nat /\ r \in Nat /\ w \in Nat /\ f \in Nat
      /\ d <= MaxU64 /\ MaxU64 \in Nat
  BY U64IsNat, MaxU64Assumption
<1>2. value # None => copy = IF w + f <= d THEN value ELSE None
  <2> SUFFICES ASSUME value # None PROVE copy = IF w + f <= d THEN value ELSE None OBVIOUS
  <2>1. value = d + r - w - f /\ d + r \in U64 /\ w + f <= d + r BY InsuranceValue
  <2>2. value \in U64 BY <1>1, <2>1 DEF U64
  <2>. HIDE DEF value
  <2>3. CASE w + f <= d
    <3>1. /\ d - w \in U64 /\ d - w \in Int /\ d - w - f \in U64 /\ d - w - f \in Int
          /\ d - w - f + r = value /\ value \in Int
      BY <1>1, <2>1, <2>3 DEF U64
    <3>2. /\ checked(d - w) = d - w /\ checked(d - w) # None
          /\ checked(d - w - f) = d - w - f /\ checked(d - w - f) # None
          /\ checked(value) = value
      BY <2>2, <3>1, CheckedType
    <3>. HIDE DEF copy
    <3>3. copy = value BY <3>1, <3>2 DEF copy, kani_pool_value_with_flush
    <3> QED BY <2>3, <3>3
  <2>4. CASE ~(w + f <= d)
    <3>1. CASE w <= d
      <4>1. /\ d - w \in U64 /\ d - w \in Int /\ d - w - f \notin U64
        BY <1>1, <2>4, <3>1 DEF U64
      <4>2. checked(d - w) = d - w /\ checked(d - w) # None BY <4>1, CheckedType
      <4>3. checked(d - w - f) = None BY <4>1 DEF checked
      <4> QED BY <2>4, <4>2, <4>3 DEF kani_pool_value_with_flush
    <3>2. CASE ~(w <= d)
      <4>1. d - w \notin U64 BY <1>1, <3>2 DEF U64
      <4>2. checked(d - w) = None BY <4>1 DEF checked
      <4> QED BY <2>4, <4>2 DEF kani_pool_value_with_flush
    <3> QED BY <3>1, <3>2
  <2> QED BY <2>3, <2>4
<1>3. kani_flush_available(d, w, f) = flush_available(d, 0, w, f)
  <2>1. saturating_add(d, 0) = d BY <1>1 DEF saturating_add
  <2> QED BY <2>1 DEF kani_flush_available, flush_available
<1> QED BY <1>2, <1>3 DEF MirrorsTotals

-----------------------------------------------------------------------------
(* The theorems *)

\* The arguments a behaviour has picked.
Picked ==
  \/ args = NoArgs
  \/ \E s, v, a, b \in 0 .. MaxArg : args = <<"lp", s, v, a, b>>
  \/ \E e, n \in 0 .. MaxArg, es, cur, c \in 0 .. MaxTime : args = <<"slot", e, es, n, cur, c>>
  \/ \E d, r, w, f, fees \in 0 .. MaxArg : args = <<"totals", d, r, w, f, fees>>

\* The arguments are u64 values in every state.
LEMMA ArgsAreU64 ==
  ASSUME Picked
  PROVE  /\ args[1] = "lp" => \A i \in 2 .. 5 : args[i] \in U64
         /\ args[1] = "slot" => \A i \in 2 .. 6 : args[i] \in U64
         /\ args[1] = "totals" => \A i \in 2 .. 6 : args[i] \in U64
<1>1. \A x \in 0 .. MaxArg : x \in U64 BY ArgsAssumption, MaxU64Assumption DEF U64
<1>2. \A x \in 0 .. MaxTime : x \in U64 BY ArgsAssumption, MaxU64Assumption DEF U64
<1>3. CASE args = NoArgs BY <1>3 DEF NoArgs
<1>4. ASSUME NEW s \in 0 .. MaxArg, NEW v \in 0 .. MaxArg, NEW a \in 0 .. MaxArg,
             NEW b \in 0 .. MaxArg, args = <<"lp", s, v, a, b>>
      PROVE  args[1] = "lp" /\ \A i \in 2 .. 5 : args[i] \in U64
  BY <1>1, <1>4
<1>5. ASSUME NEW e \in 0 .. MaxArg, NEW n \in 0 .. MaxArg, NEW es \in 0 .. MaxTime,
             NEW cur \in 0 .. MaxTime, NEW c \in 0 .. MaxTime,
             args = <<"slot", e, es, n, cur, c>>
      PROVE  args[1] = "slot" /\ \A i \in 2 .. 6 : args[i] \in U64
  BY <1>1, <1>2, <1>5
<1>6. ASSUME NEW d \in 0 .. MaxArg, NEW r \in 0 .. MaxArg, NEW w \in 0 .. MaxArg,
             NEW f \in 0 .. MaxArg, NEW fees \in 0 .. MaxArg,
             args = <<"totals", d, r, w, f, fees>>
      PROVE  args[1] = "totals" /\ \A i \in 2 .. 6 : args[i] \in U64
  BY <1>1, <1>6
<1> QED BY <1>3, <1>4, <1>5, <1>6 DEF Picked

LEMMA PickedAlways == Spec => []Picked
<1>1. Init => Picked BY DEF Init, Picked
<1>2. Picked /\ [Next]_args => Picked'
  BY DEF Picked, Next, PickLp, PickSlot, PickTotals, Done
<1> QED BY <1>1, <1>2, PTL DEF Spec

\* LP minted is the deposit's fair share rounded down, for all u64 arguments
\* (math.rs 20-49).
THEOREM MintedFairly == Spec => []LpIsFairShare
<1>1. Picked => LpIsFairShare BY ArgsAreU64, FairShareAll DEF LpIsFairShare
<1> QED BY <1>1, PickedAlways, PTL

\* No profit, and next to no loss, from entering and leaving at once, for all u64
\* arguments (math.rs 20-49, 65-81).
THEOREM NoFreeRoundTrip == Spec => []RoundTripNeverGains
<1>1. Picked => RoundTripNeverGains BY ArgsAreU64, RoundTripAll DEF RoundTripNeverGains
<1> QED BY <1>1, PickedAlways, PTL

\* No profit from splitting a deposit or a withdrawal, for all u64 arguments
\* (math.rs 20-49, 65-81).
THEOREM NoGainFromSplitting == Spec => []SplittingNeverGains
<1>1. Picked => SplittingNeverGains
  BY ArgsAreU64, SplitDepositAll, SplitWithdrawalAll DEF SplittingNeverGains
<1> QED BY <1>1, PickedAlways, PTL

\* The anchored blend is the weighted average under the freshness floor, for all
\* u64 arguments (math.rs 193-236).
THEOREM BlendComputesAverage == Spec => []SlotIsFlooredAverage
<1>1. Picked => SlotIsFlooredAverage BY ArgsAreU64, FlooredAverageAll DEF SlotIsFlooredAverage
<1> QED BY <1>1, PickedAlways, PTL

\* The several computations of a pool's value agree, for all u64 totals (state.rs
\* 319-367, math.rs 88-128).
THEOREM OneValue == Spec => []ValuesAgree
<1>1. Picked => ValuesAgree BY ArgsAreU64, AgreementAll DEF ValuesAgree
<1> QED BY <1>1, PickedAlways, PTL

\* What the Kani proofs say of their copy they say of the program, in the scope
\* MirrorScope gives, for all u64 arguments (kani-proofs/src/lib.rs 29-81).
THEOREM KaniCopyIsFaithful == Spec => []MirrorScope
<1>1. Picked => MirrorScope
  BY ArgsAreU64, MirrorsPricesAll, MirrorsCooldownAll, MirrorsTotalsAll DEF MirrorScope
<1> QED BY <1>1, PickedAlways, PTL
===============================================================================
