------------------------- MODULE Transaction_proofs -------------------------
(***************************************************************************)
(* An instruction arrives as it was meant or not at all, and the wrapper   *)
(* is asked for what the client asked for, for every set of instructions   *)
(* sent, every set of 64-bit values in them and any padding.               *)
(***************************************************************************)
EXTENDS Transaction, SequenceTheorems, TLAPS

-----------------------------------------------------------------------------
(* Bytes *)

\* f holds the concatenations of the first parts of s.
Partials(s, f) ==
  f = [i \in 1 .. Len(s) |-> IF i = 1 THEN s[i] ELSE f[i-1] \o s[i]]

\* FlattenSeq of a sequence is the last of them, if they exist.
LEMMA FlattenIsLast ==
  ASSUME NEW s, NEW g, Partials(s, g), Len(s) # 0
  PROVE  \E f : Partials(s, f) /\ FlattenSeq(s) = f[Len(s)]
<1>. DEFINE flatten == CHOOSE f :
              f = [i \in 1 .. Len(s) |-> IF i = 1 THEN s[i] ELSE f[i-1] \o s[i]]
<1>1. FlattenSeq(s) = flatten[Len(s)] BY DEF FlattenSeq
<1>2. flatten = [i \in 1 .. Len(s) |-> IF i = 1 THEN s[i] ELSE flatten[i-1] \o s[i]]
  BY DEF Partials
<1>. HIDE DEF flatten
<1> QED BY <1>1, <1>2 DEF Partials

\* It puts the fields of a variant, of which there are at most four, end to end.
LEMMA FlattenNone == ASSUME NEW s, Len(s) = 0 PROVE FlattenSeq(s) = s
BY DEF FlattenSeq

LEMMA FlattenOne == ASSUME NEW s, Len(s) = 1 PROVE FlattenSeq(s) = s[1]
<1>. DEFINE g == [i \in 1 .. Len(s) |-> s[1]]
<1>1. Partials(s, g) BY DEF Partials
<1>. HIDE DEF g
<1>0. Len(s) # 0 OBVIOUS
<1>2. PICK f : Partials(s, f) /\ FlattenSeq(s) = f[Len(s)] BY <1>0, <1>1, FlattenIsLast
<1> QED BY <1>2 DEF Partials

LEMMA FlattenTwo == ASSUME NEW s, Len(s) = 2 PROVE FlattenSeq(s) = s[1] \o s[2]
<1>. DEFINE g == [i \in 1 .. Len(s) |-> IF i = 1 THEN s[1] ELSE s[1] \o s[2]]
<1>1. Partials(s, g) BY DEF Partials
<1>. HIDE DEF g
<1>0. Len(s) # 0 OBVIOUS
<1>2. PICK f : Partials(s, f) /\ FlattenSeq(s) = f[Len(s)] BY <1>0, <1>1, FlattenIsLast
<1>3. f[1] = s[1] BY <1>2 DEF Partials
<1>4. f[2] = f[1] \o s[2] BY <1>2 DEF Partials
<1> QED BY <1>2, <1>3, <1>4

LEMMA FlattenFour ==
  ASSUME NEW s, Len(s) = 4 PROVE FlattenSeq(s) = ((s[1] \o s[2]) \o s[3]) \o s[4]
<1>. DEFINE two == s[1] \o s[2]
            three == two \o s[3]
            four == three \o s[4]
            g == <<s[1], two, three, four>>
<1>1. Partials(s, g)
  <2>1. g[1] = s[1] /\ g[2] = g[1] \o s[2] /\ g[3] = g[2] \o s[3] /\ g[4] = g[3] \o s[4]
    OBVIOUS
  <2>2. g = [i \in 1 .. 4 |-> g[i]] OBVIOUS
  <2>. HIDE DEF g
  <2>3. \A i \in 1 .. 4 : g[i] = IF i = 1 THEN s[i] ELSE g[i-1] \o s[i]
    <3>1. \A i \in 1 .. 4 : i = 1 \/ i = 2 \/ i = 3 \/ i = 4 OBVIOUS
    <3>2. 2 - 1 = 1 /\ 3 - 1 = 2 /\ 4 - 1 = 3 OBVIOUS
    <3> QED BY <2>1, <3>1, <3>2
  <2> QED BY <2>2, <2>3 DEF Partials
<1>. HIDE DEF g
<1>0. Len(s) # 0 OBVIOUS
<1>2. PICK f : Partials(s, f) /\ FlattenSeq(s) = f[Len(s)] BY <1>0, <1>1, FlattenIsLast
<1>3. \A i \in 1 .. 4 : f[i] = IF i = 1 THEN s[i] ELSE f[i-1] \o s[i] BY <1>2 DEF Partials
<1>4. f[1] = s[1] BY <1>3
<1>5. f[2] = f[2-1] \o s[2] BY <1>3
<1>6. f[3] = f[3-1] \o s[3] BY <1>3
<1>7. f[4] = f[4-1] \o s[4] BY <1>3
<1>8. 2 - 1 = 1 /\ 3 - 1 = 2 /\ 4 - 1 = 3 OBVIOUS
<1> QED BY <1>2, <1>4, <1>5, <1>6, <1>7, <1>8

\* s holds b behind its first n bytes.
Holds(s, n, b) ==
  /\ n \in Nat /\ n + Len(b) <= Len(s)
  /\ \A i \in 1 .. Len(b) : s[n + i] = b[i]

LEMMA HoldsItself == ASSUME NEW b \in Seq(Nat) PROVE Holds(b, 0, b)
BY DEF Holds

LEMMA HoldsAtEnd ==
  ASSUME NEW a \in Seq(Nat), NEW b \in Seq(Nat)
  PROVE  /\ a \o b \in Seq(Nat) /\ Len(a \o b) = Len(a) + Len(b) /\ Len(a) \in Nat
         /\ Holds(a \o b, Len(a), b)
BY DEF Holds

LEMMA HoldsStill ==
  ASSUME NEW s \in Seq(Nat), NEW b \in Seq(Nat), NEW c \in Seq(Nat), NEW n, Holds(s, n, b)
  PROVE  Holds(s \o c, n, b)
<1>1. /\ Len(s) \in Nat /\ Len(b) \in Nat /\ Len(c) \in Nat /\ n \in Nat
      /\ Len(s \o c) = Len(s) + Len(c) /\ n + Len(b) <= Len(s)
      /\ \A i \in 1 .. Len(s) : (s \o c)[i] = s[i]
  BY DEF Holds
<1>2. \A i \in 1 .. Len(b) : n + i \in 1 .. Len(s) BY <1>1
<1>3. \A i \in 1 .. Len(b) : (s \o c)[n + i] = b[i] BY <1>1, <1>2 DEF Holds
<1> QED BY <1>1, <1>3 DEF Holds

\* There the slice is b.
LEMMA SliceOfHeld ==
  ASSUME NEW s \in Seq(Nat), NEW b \in Seq(Nat), NEW n, Holds(s, n, b)
  PROVE  SubSeq(s, n + 1, n + Len(b)) = b /\ slice(s, <<n, n + Len(b)>>) = b
<1>. DEFINE lo == n + 1
            hi == n + Len(b)
            t == SubSeq(s, lo, hi)
<1>0. n \in Nat /\ n + Len(b) <= Len(s) /\ \A i \in 1 .. Len(b) : s[n + i] = b[i]
  BY DEF Holds
<1>1. Len(s) \in Nat /\ Len(b) \in Nat /\ lo \in Int /\ hi \in Int BY <1>0
<1>2. lo = n + 1 /\ hi = n + Len(b) OBVIOUS
<1>. HIDE DEF lo, hi
<1>3. \A i \in lo .. hi : s[i] \in Nat
  <2> TAKE i \in lo .. hi
  <2>1. i \in 1 .. Len(s) BY <1>0, <1>1, <1>2
  <2> QED BY <2>1, ElementOfSeq
<1>4. /\ t \in Seq(Nat)
      /\ Len(t) = IF lo <= hi THEN hi - lo + 1 ELSE 0
      /\ \A i \in 1 .. hi - lo + 1 : t[i] = s[lo + i - 1]
  BY <1>1, <1>3, SubSeqProperties
<1>. HIDE DEF t
<1>5. Len(t) = Len(b) BY <1>0, <1>1, <1>2, <1>4
<1>6. \A i \in 1 .. Len(b) : t[i] = b[i]
  <2> TAKE i \in 1 .. Len(b)
  <2>1. i \in 1 .. hi - lo + 1 /\ lo + i - 1 = n + i BY <1>0, <1>1, <1>2
  <2> QED BY <1>0, <1>4, <2>1
<1>7. t = b BY <1>4, <1>5, <1>6, SeqEqual
<1>8. SubSeq(s, n + 1, n + Len(b)) = b BY <1>7 DEF t, lo, hi
<1>9. slice(s, <<n, n + Len(b)>>) = SubSeq(s, n + 1, n + Len(b)) BY <1>0 DEF slice
<1> QED BY <1>8, <1>9

\* What a function on 1 .. n is as a sequence.
LEMMA FunctionIsSeq ==
  ASSUME NEW Bytes, NEW n \in Nat, NEW f \in [1 .. n -> Bytes]
  PROVE  f \in Seq(Bytes) /\ Len(f) = n
<1>1. f \in Seq(Bytes) BY SeqDef
<1>2. DOMAIN f = 1 .. Len(f) /\ Len(f) \in Nat BY <1>1, LenProperties
<1>3. 1 .. n = 1 .. Len(f) BY <1>2
<1>4. n = Len(f) BY <1>2, <1>3
<1> QED BY <1>1, <1>4

\* zeros is a sequence of that many bytes.
LEMMA Zeros == ASSUME NEW n \in Nat PROVE zeros(n) \in Seq(Nat) /\ Len(zeros(n)) = n
<1>1. zeros(n) \in [1 .. n -> Nat] BY DEF zeros
<1> QED BY <1>1, FunctionIsSeq

\* The keys have 32 bytes.
LEMMA PubkeyBytes ==
  /\ pubkey["pool_pda"] \in Seq(Nat) /\ Len(pubkey["pool_pda"]) = 32
  /\ pubkey["vault_auth"] \in Seq(Nat) /\ Len(pubkey["vault_auth"]) = 32
  /\ pubkey["new_authority"] \in Seq(Nat) /\ Len(pubkey["new_authority"]) = 32
<1>1. /\ pubkey["pool_pda"] \in [1 .. 32 -> Nat] /\ pubkey["vault_auth"] \in [1 .. 32 -> Nat]
      /\ pubkey["new_authority"] \in [1 .. 32 -> Nat]
  BY DEF pubkey
<1> QED BY <1>1, FunctionIsSeq

\* A field has as many bytes as its type.
LEMMA FieldBytes ==
  ASSUME NEW type \in {"u64", "u16", "u128", "flag", "Pubkey"}, NEW v \in FieldValues(type)
  PROVE  v \in Seq(Nat) /\ Len(v) = Width[type]
<1>1. CASE type = "u64"
  <2>1. v \in [1 .. 8 -> 0 .. 255] BY <1>1, WireAssumption DEF FieldValues, Width
  <2>2. v \in [1 .. 8 -> Nat] BY <2>1
  <2> QED BY <1>1, <2>2, FunctionIsSeq DEF Width
<1>2. CASE type = "u16"
  <2>1. v = zeros(2) \/ v = <<21, 22>> \/ v = <<17, 39>> BY <1>2 DEF FieldValues
  <2>2. zeros(2) \in Seq(Nat) /\ Len(zeros(2)) = 2 BY Zeros
  <2>3. \A m, n \in Nat : <<m, n>> \in Seq(Nat) /\ Len(<<m, n>>) = 2 OBVIOUS
  <2>4. Width["u16"] = 2 BY DEF Width
  <2> QED BY <1>2, <2>1, <2>2, <2>3, <2>4
<1>3. CASE type = "u128"
  <2>. DEFINE other == [i \in 1 .. 16 |-> 30 + i]
  <2>1. v = zeros(16) \/ v = other BY <1>3 DEF FieldValues
  <2>2. other \in [1 .. 16 -> Nat] OBVIOUS
  <2>. HIDE DEF other
  <2>3. other \in Seq(Nat) /\ Len(other) = 16 BY <2>2, FunctionIsSeq
  <2>4. zeros(16) \in Seq(Nat) /\ Len(zeros(16)) = 16 BY Zeros
  <2>5. Width["u128"] = 16 BY DEF Width
  <2> QED BY <1>3, <2>1, <2>3, <2>4, <2>5
<1>4. CASE type = "flag"
  <2>1. v = <<0>> \/ v = <<1>> \/ v = <<2>> BY <1>4 DEF FieldValues
  <2>2. \A n \in Nat : <<n>> \in Seq(Nat) /\ Len(<<n>>) = 1 OBVIOUS
  <2>3. Width["flag"] = 1 BY DEF Width
  <2> QED BY <1>4, <2>1, <2>2, <2>3
<1>5. CASE type = "Pubkey" BY <1>5, PubkeyBytes DEF FieldValues, Width
<1> QED BY <1>1, <1>2, <1>3, <1>4, <1>5

-----------------------------------------------------------------------------
(* The arms of the match *)

Types == {"u64", "u16", "u128", "flag", "Pubkey"}

\* An arm lays the fields of its variant end to end, from nothing up to four of them,
\* and the length it checks is where the last of them ends.
LaidNone(arm, types) == types = <<>> /\ arm.ranges = <<>> /\ arm.len = 0

LaidOne(arm, types, x) ==
  /\ x \in Types /\ types = <<x>>
  /\ arm.ranges = <<<<0, Width[x]>>>> /\ arm.len = Width[x]

LaidTwo(arm, types, x, y) ==
  LET b == Width[x]
      c == b + Width[y]
  IN  /\ x \in Types /\ y \in Types /\ types = <<x, y>>
      /\ arm.ranges = <<<<0, b>>, <<b, c>>>> /\ arm.len = c

LaidFour(arm, types, w, x, y, z) ==
  LET b == Width[w]
      c == b + Width[x]
      d == c + Width[y]
      e == d + Width[z]
  IN  /\ w \in Types /\ x \in Types /\ y \in Types /\ z \in Types /\ types = <<w, x, y, z>>
      /\ arm.ranges = <<<<0, b>>, <<b, c>>, <<c, d>>, <<d, e>>>> /\ arm.len = e

Laid(arm, types) ==
  \/ LaidNone(arm, types)
  \/ \E x : LaidOne(arm, types, x)
  \/ \E x, y : LaidTwo(arm, types, x, y)
  \/ \E w, x, y, z : LaidFour(arm, types, w, x, y, z)

\* The widths and ranges, written down separately, agree in all fifteen arms
\* (instruction.rs 209-336).
LEMMA ArmsLaid ==
  \A t \in DOMAIN Arms :
    /\ Arms[t].ix \in DOMAIN StakeInstruction
    /\ Laid(Arms[t], StakeInstruction[Arms[t].ix])
<1>0. DOMAIN Arms = 1 .. 15 BY DEF Arms
<1> SUFFICES ASSUME NEW t \in 1 .. 15
             PROVE  /\ Arms[t].ix \in DOMAIN StakeInstruction
                    /\ Laid(Arms[t], StakeInstruction[Arms[t].ix])
  BY <1>0
<1>w. /\ Width["flag"] = 1 /\ Width["u16"] = 2 /\ Width["u64"] = 8 /\ Width["u128"] = 16
      /\ Width["Pubkey"] = 32
  BY DEF Width
<1>1. CASE t = 1
  <2>1. Arms[t] = Arm("InitPool", 16, <<<<0, 8>>, <<8, 16>>>>)
    BY <1>1 DEF Arms
  <2>2. Arms[t].ix = "InitPool" BY <2>1 DEF Arm
  <2>3. /\ "InitPool" \in DOMAIN StakeInstruction
        /\ StakeInstruction["InitPool"] = <<"u64", "u64">>
    BY DEF StakeInstruction
  <2>4. LaidTwo(Arms[t], StakeInstruction[Arms[t].ix], "u64", "u64")
    BY <1>w, <2>1, <2>2, <2>3 DEF Arm, LaidTwo, Types
  <2> QED BY <2>2, <2>3, <2>4 DEF Laid
<1>2. CASE t = 2
  <2>1. Arms[t] = Arm("Deposit", 8, <<<<0, 8>>>>)
    BY <1>2 DEF Arms
  <2>2. Arms[t].ix = "Deposit" BY <2>1 DEF Arm
  <2>3. /\ "Deposit" \in DOMAIN StakeInstruction
        /\ StakeInstruction["Deposit"] = <<"u64">>
    BY DEF StakeInstruction
  <2>4. LaidOne(Arms[t], StakeInstruction[Arms[t].ix], "u64")
    BY <1>w, <2>1, <2>2, <2>3 DEF Arm, LaidOne, Types
  <2> QED BY <2>2, <2>3, <2>4 DEF Laid
<1>3. CASE t = 3
  <2>1. Arms[t] = Arm("Withdraw", 8, <<<<0, 8>>>>)
    BY <1>3 DEF Arms
  <2>2. Arms[t].ix = "Withdraw" BY <2>1 DEF Arm
  <2>3. /\ "Withdraw" \in DOMAIN StakeInstruction
        /\ StakeInstruction["Withdraw"] = <<"u64">>
    BY DEF StakeInstruction
  <2>4. LaidOne(Arms[t], StakeInstruction[Arms[t].ix], "u64")
    BY <1>w, <2>1, <2>2, <2>3 DEF Arm, LaidOne, Types
  <2> QED BY <2>2, <2>3, <2>4 DEF Laid
<1>4. CASE t = 4
  <2>1. Arms[t] = Arm("FlushToInsurance", 8, <<<<0, 8>>>>)
    BY <1>4 DEF Arms
  <2>2. Arms[t].ix = "FlushToInsurance" BY <2>1 DEF Arm
  <2>3. /\ "FlushToInsurance" \in DOMAIN StakeInstruction
        /\ StakeInstruction["FlushToInsurance"] = <<"u64">>
    BY DEF StakeInstruction
  <2>4. LaidOne(Arms[t], StakeInstruction[Arms[t].ix], "u64")
    BY <1>w, <2>1, <2>2, <2>3 DEF Arm, LaidOne, Types
  <2> QED BY <2>2, <2>3, <2>4 DEF Laid
<1>5. CASE t = 5
  <2>1. Arms[t] = Arm("UpdateConfig", 18, <<<<0, 1>>, <<1, 9>>, <<9, 10>>, <<10, 18>>>>)
    BY <1>5 DEF Arms
  <2>2. Arms[t].ix = "UpdateConfig" BY <2>1 DEF Arm
  <2>3. /\ "UpdateConfig" \in DOMAIN StakeInstruction
        /\ StakeInstruction["UpdateConfig"] = <<"flag", "u64", "flag", "u64">>
    BY DEF StakeInstruction
  <2>4. LaidFour(Arms[t], StakeInstruction[Arms[t].ix], "flag", "u64", "flag", "u64")
    BY <1>w, <2>1, <2>2, <2>3 DEF Arm, LaidFour, Types
  <2> QED BY <2>2, <2>3, <2>4 DEF Laid
<1>6. CASE t = 6
  <2>1. Arms[t] = Arm("TransferAdmin", 0, <<>>)
    BY <1>6 DEF Arms
  <2>2. Arms[t].ix = "TransferAdmin" BY <2>1 DEF Arm
  <2>3. /\ "TransferAdmin" \in DOMAIN StakeInstruction
        /\ StakeInstruction["TransferAdmin"] = <<>>
    BY DEF StakeInstruction
  <2>4. LaidNone(Arms[t], StakeInstruction[Arms[t].ix])
    BY <1>w, <2>1, <2>2, <2>3 DEF Arm, LaidNone, Types
  <2> QED BY <2>2, <2>3, <2>4 DEF Laid
<1>7. CASE t = 7
  <2>1. Arms[t] = Arm("AdminSetOracleAuthority", 32, <<<<0, 32>>>>)
    BY <1>7 DEF Arms
  <2>2. Arms[t].ix = "AdminSetOracleAuthority" BY <2>1 DEF Arm
  <2>3. /\ "AdminSetOracleAuthority" \in DOMAIN StakeInstruction
        /\ StakeInstruction["AdminSetOracleAuthority"] = <<"Pubkey">>
    BY DEF StakeInstruction
  <2>4. LaidOne(Arms[t], StakeInstruction[Arms[t].ix], "Pubkey")
    BY <1>w, <2>1, <2>2, <2>3 DEF Arm, LaidOne, Types
  <2> QED BY <2>2, <2>3, <2>4 DEF Laid
<1>8. CASE t = 8
  <2>1. Arms[t] = Arm("AdminSetRiskThreshold", 16, <<<<0, 16>>>>)
    BY <1>8 DEF Arms
  <2>2. Arms[t].ix = "AdminSetRiskThreshold" BY <2>1 DEF Arm
  <2>3. /\ "AdminSetRiskThreshold" \in DOMAIN StakeInstruction
        /\ StakeInstruction["AdminSetRiskThreshold"] = <<"u128">>
    BY DEF StakeInstruction
  <2>4. LaidOne(Arms[t], StakeInstruction[Arms[t].ix], "u128")
    BY <1>w, <2>1, <2>2, <2>3 DEF Arm, LaidOne, Types
  <2> QED BY <2>2, <2>3, <2>4 DEF Laid
<1>9. CASE t = 9
  <2>1. Arms[t] = Arm("AdminSetMaintenanceFee", 16, <<<<0, 16>>>>)
    BY <1>9 DEF Arms
  <2>2. Arms[t].ix = "AdminSetMaintenanceFee" BY <2>1 DEF Arm
  <2>3. /\ "AdminSetMaintenanceFee" \in DOMAIN StakeInstruction
        /\ StakeInstruction["AdminSetMaintenanceFee"] = <<"u128">>
    BY DEF StakeInstruction
  <2>4. LaidOne(Arms[t], StakeInstruction[Arms[t].ix], "u128")
    BY <1>w, <2>1, <2>2, <2>3 DEF Arm, LaidOne, Types
  <2> QED BY <2>2, <2>3, <2>4 DEF Laid
<1>10. CASE t = 10
  <2>1. Arms[t] = Arm("AdminResolveMarket", 0, <<>>)
    BY <1>10 DEF Arms
  <2>2. Arms[t].ix = "AdminResolveMarket" BY <2>1 DEF Arm
  <2>3. /\ "AdminResolveMarket" \in DOMAIN StakeInstruction
        /\ StakeInstruction["AdminResolveMarket"] = <<>>
    BY DEF StakeInstruction
  <2>4. LaidNone(Arms[t], StakeInstruction[Arms[t].ix])
    BY <1>w, <2>1, <2>2, <2>3 DEF Arm, LaidNone, Types
  <2> QED BY <2>2, <2>3, <2>4 DEF Laid
<1>11. CASE t = 11
  <2>1. Arms[t] = Arm("AdminWithdrawInsurance", 8, <<<<0, 8>>>>)
    BY <1>11 DEF Arms
  <2>2. Arms[t].ix = "AdminWithdrawInsurance" BY <2>1 DEF Arm
  <2>3. /\ "AdminWithdrawInsurance" \in DOMAIN StakeInstruction
        /\ StakeInstruction["AdminWithdrawInsurance"] = <<"u64">>
    BY DEF StakeInstruction
  <2>4. LaidOne(Arms[t], StakeInstruction[Arms[t].ix], "u64")
    BY <1>w, <2>1, <2>2, <2>3 DEF Arm, LaidOne, Types
  <2> QED BY <2>2, <2>3, <2>4 DEF Laid
<1>12. CASE t = 12
  <2>1. Arms[t] = Arm("AdminSetInsurancePolicy", 50,
                      <<<<0, 32>>, <<32, 40>>, <<40, 42>>, <<42, 50>>>>)
    BY <1>12 DEF Arms
  <2>2. Arms[t].ix = "AdminSetInsurancePolicy" BY <2>1 DEF Arm
  <2>3. /\ "AdminSetInsurancePolicy" \in DOMAIN StakeInstruction
        /\ StakeInstruction["AdminSetInsurancePolicy"] = <<"Pubkey", "u64", "u16", "u64">>
    BY DEF StakeInstruction
  <2>4. LaidFour(Arms[t], StakeInstruction[Arms[t].ix], "Pubkey", "u64", "u16", "u64")
    BY <1>w, <2>1, <2>2, <2>3 DEF Arm, LaidFour, Types
  <2> QED BY <2>2, <2>3, <2>4 DEF Laid
<1>13. CASE t = 13
  <2>1. Arms[t] = Arm("AccrueFees", 0, <<>>)
    BY <1>13 DEF Arms
  <2>2. Arms[t].ix = "AccrueFees" BY <2>1 DEF Arm
  <2>3. /\ "AccrueFees" \in DOMAIN StakeInstruction
        /\ StakeInstruction["AccrueFees"] = <<>>
    BY DEF StakeInstruction
  <2>4. LaidNone(Arms[t], StakeInstruction[Arms[t].ix])
    BY <1>w, <2>1, <2>2, <2>3 DEF Arm, LaidNone, Types
  <2> QED BY <2>2, <2>3, <2>4 DEF Laid
<1>14. CASE t = 14
  <2>1. Arms[t] = Arm("InitTradingPool", 16, <<<<0, 8>>, <<8, 16>>>>)
    BY <1>14 DEF Arms
  <2>2. Arms[t].ix = "InitTradingPool" BY <2>1 DEF Arm
  <2>3. /\ "InitTradingPool" \in DOMAIN StakeInstruction
        /\ StakeInstruction["InitTradingPool"] = <<"u64", "u64">>
    BY DEF StakeInstruction
  <2>4. LaidTwo(Arms[t], StakeInstruction[Arms[t].ix], "u64", "u64")
    BY <1>w, <2>1, <2>2, <2>3 DEF Arm, LaidTwo, Types
  <2> QED BY <2>2, <2>3, <2>4 DEF Laid
<1>15. CASE t = 15
  <2>1. Arms[t] = Arm("AdminSetHwmConfig", 3, <<<<0, 1>>, <<1, 3>>>>)
    BY <1>15 DEF Arms
  <2>2. Arms[t].ix = "AdminSetHwmConfig" BY <2>1 DEF Arm
  <2>3. /\ "AdminSetHwmConfig" \in DOMAIN StakeInstruction
        /\ StakeInstruction["AdminSetHwmConfig"] = <<"flag", "u16">>
    BY DEF StakeInstruction
  <2>4. LaidTwo(Arms[t], StakeInstruction[Arms[t].ix], "flag", "u16")
    BY <1>w, <2>1, <2>2, <2>3 DEF Arm, LaidTwo, Types
  <2> QED BY <2>2, <2>3, <2>4 DEF Laid
<1> QED BY <1>1, <1>2, <1>3, <1>4, <1>5, <1>6, <1>7, <1>8, <1>9, <1>10,
           <1>11, <1>12, <1>13, <1>14, <1>15

\* The fields of a variant are read back by its arm from their concatenation,
\* whatever follows.
ReadBack(arm, f, pad) ==
  /\ FlattenSeq(f) \in Seq(Nat) /\ Len(FlattenSeq(f)) = arm.len
  /\ [i \in DOMAIN arm.ranges |-> slice(FlattenSeq(f) \o pad, arm.ranges[i])] = f

LEMMA NoneReadBack ==
  ASSUME NEW arm, NEW types, LaidNone(arm, types),
         NEW f, f = [i \in DOMAIN types |-> f[i]], NEW pad \in Seq(Nat)
  PROVE  ReadBack(arm, f, pad)
<1>1. types = <<>> /\ arm.ranges = <<>> /\ arm.len = 0 BY DEF LaidNone
<1>2. f = <<>> BY <1>1
<1>3. FlattenSeq(f) = <<>> BY <1>2, FlattenNone
<1>4. [i \in DOMAIN arm.ranges |-> slice(FlattenSeq(f) \o pad, arm.ranges[i])] = <<>> BY <1>1
<1>5. FlattenSeq(f) \in Seq(Nat) /\ Len(FlattenSeq(f)) = 0 BY <1>3, EmptySeq
<1> QED BY <1>1, <1>2, <1>4, <1>5 DEF ReadBack

LEMMA OneReadBack ==
  ASSUME NEW arm, NEW types, NEW x, LaidOne(arm, types, x),
         NEW f, f = [i \in DOMAIN types |-> f[i]],
         \A i \in DOMAIN types : f[i] \in FieldValues(types[i]), NEW pad \in Seq(Nat)
  PROVE  ReadBack(arm, f, pad)
<1>. DEFINE a == f[1]
            all == a \o pad
<1>1. /\ x \in Types /\ types = <<x>>
      /\ arm.ranges = <<<<0, Width[x]>>>> /\ arm.len = Width[x]
  BY DEF LaidOne
<1>2. DOMAIN types = 1 .. 1 /\ types[1] = x BY <1>1
<1>3. f = [i \in 1 .. 1 |-> f[i]] BY <1>2
<1>4. Len(f) = 1 BY <1>3
<1>5. a \in FieldValues(x)
  <2>1. 1 \in DOMAIN types BY <1>2
  <2> QED BY <1>2, <2>1
<1>6. a \in Seq(Nat) /\ Len(a) = Width[x] BY <1>1, <1>5, FieldBytes DEF Types
<1>7. FlattenSeq(f) = a BY <1>4, FlattenOne
<1>. HIDE DEF a
<1>8. all \in Seq(Nat) /\ Holds(all, 0, a) BY <1>6, HoldsItself, HoldsStill, HoldsAtEnd
<1>. HIDE DEF all
<1>9. slice(all, <<0, 0 + Len(a)>>) = a BY <1>6, <1>8, SliceOfHeld
<1>10. DOMAIN arm.ranges = 1 .. 1 /\ arm.ranges[1] = <<0, 0 + Len(a)>>
  <2>1. Len(a) \in Nat BY <1>6
  <2>2. 0 + Len(a) = Width[x] BY <1>6, <2>1
  <2> QED BY <1>1, <2>2
<1>11. \A i \in 1 .. 1 : slice(all, arm.ranges[i]) = f[i]
  <2>1. \A i \in 1 .. 1 : i = 1 OBVIOUS
  <2> QED BY <1>9, <1>10, <2>1 DEF a
<1>12. [i \in DOMAIN arm.ranges |-> slice(FlattenSeq(f) \o pad, arm.ranges[i])] = f
  BY <1>3, <1>7, <1>10, <1>11 DEF all
<1> QED BY <1>1, <1>6, <1>7, <1>12 DEF ReadBack

LEMMA TwoReadBack ==
  ASSUME NEW arm, NEW types, NEW x, NEW y, LaidTwo(arm, types, x, y),
         NEW f, f = [i \in DOMAIN types |-> f[i]],
         \A i \in DOMAIN types : f[i] \in FieldValues(types[i]), NEW pad \in Seq(Nat)
  PROVE  ReadBack(arm, f, pad)
<1>. DEFINE a == f[1]
            b == f[2]
            ab == a \o b
            all == ab \o pad
<1>1. /\ x \in Types /\ y \in Types /\ types = <<x, y>>
      /\ arm.ranges = <<<<0, Width[x]>>, <<Width[x], Width[x] + Width[y]>>>>
      /\ arm.len = Width[x] + Width[y]
  BY DEF LaidTwo
<1>2. DOMAIN types = 1 .. 2 /\ types[1] = x /\ types[2] = y BY <1>1
<1>3. f = [i \in 1 .. 2 |-> f[i]] BY <1>2
<1>4. Len(f) = 2 BY <1>3
<1>5. a \in FieldValues(x) /\ b \in FieldValues(y)
  <2>1. 1 \in DOMAIN types /\ 2 \in DOMAIN types BY <1>2
  <2> QED BY <1>2, <2>1
<1>6. /\ a \in Seq(Nat) /\ Len(a) = Width[x] /\ b \in Seq(Nat) /\ Len(b) = Width[y]
      /\ Len(a) \in Nat /\ Len(b) \in Nat
  <2>1. a \in Seq(Nat) /\ Len(a) = Width[x] BY <1>1, <1>5, FieldBytes DEF Types
  <2>2. b \in Seq(Nat) /\ Len(b) = Width[y] BY <1>1, <1>5, FieldBytes DEF Types
  <2> QED BY <2>1, <2>2, LenProperties
<1>7. FlattenSeq(f) = ab BY <1>4, FlattenTwo
<1>. HIDE DEF a, b
<1>8. /\ ab \in Seq(Nat) /\ Len(ab) = Len(a) + Len(b)
      /\ Holds(ab, 0, a) /\ Holds(ab, Len(a), b)
  BY <1>6, HoldsItself, HoldsStill, HoldsAtEnd
<1>. HIDE DEF ab
<1>9. all \in Seq(Nat) /\ Holds(all, 0, a) /\ Holds(all, Len(a), b)
  BY <1>6, <1>8, HoldsStill, HoldsAtEnd
<1>. HIDE DEF all
<1>10. slice(all, <<0, 0 + Len(a)>>) = a BY <1>6, <1>9, SliceOfHeld
<1>11. slice(all, <<Len(a), Len(a) + Len(b)>>) = b BY <1>6, <1>9, SliceOfHeld
<1>12. /\ DOMAIN arm.ranges = 1 .. 2 /\ arm.ranges[1] = <<0, 0 + Len(a)>>
       /\ arm.ranges[2] = <<Len(a), Len(a) + Len(b)>>
  <2>1. 0 + Len(a) = Len(a) BY <1>6
  <2> QED BY <1>1, <1>6, <2>1
<1>13. \A i \in 1 .. 2 : slice(all, arm.ranges[i]) = f[i]
  <2>1. \A i \in 1 .. 2 : i = 1 \/ i = 2 OBVIOUS
  <2> QED BY <1>10, <1>11, <1>12, <2>1 DEF a, b
<1>14. [i \in DOMAIN arm.ranges |-> slice(FlattenSeq(f) \o pad, arm.ranges[i])] = f
  BY <1>3, <1>7, <1>12, <1>13 DEF all
<1> QED BY <1>1, <1>6, <1>7, <1>8, <1>14 DEF ReadBack

LEMMA FourReadBack ==
  ASSUME NEW arm, NEW types, NEW w, NEW x, NEW y, NEW z, LaidFour(arm, types, w, x, y, z),
         NEW f, f = [i \in DOMAIN types |-> f[i]],
         \A i \in DOMAIN types : f[i] \in FieldValues(types[i]), NEW pad \in Seq(Nat)
  PROVE  ReadBack(arm, f, pad)
<1>. DEFINE a == f[1]
            b == f[2]
            c == f[3]
            d == f[4]
            ab == a \o b
            abc == ab \o c
            abcd == abc \o d
            all == abcd \o pad
            B == Width[w]
            C == B + Width[x]
            D == C + Width[y]
            E == D + Width[z]
<1>1. /\ w \in Types /\ x \in Types /\ y \in Types /\ z \in Types /\ types = <<w, x, y, z>>
      /\ arm.ranges = <<<<0, B>>, <<B, C>>, <<C, D>>, <<D, E>>>> /\ arm.len = E
  BY DEF LaidFour
<1>2. /\ DOMAIN types = 1 .. 4
      /\ types[1] = w /\ types[2] = x /\ types[3] = y /\ types[4] = z
  BY <1>1
<1>3. f = [i \in 1 .. 4 |-> f[i]] BY <1>2
<1>4. Len(f) = 4 BY <1>3
<1>5. /\ a \in FieldValues(w) /\ b \in FieldValues(x)
      /\ c \in FieldValues(y) /\ d \in FieldValues(z)
  <2>1. 1 \in DOMAIN types /\ 2 \in DOMAIN types /\ 3 \in DOMAIN types /\ 4 \in DOMAIN types
    BY <1>2
  <2> QED BY <1>2, <2>1
<1>6. /\ a \in Seq(Nat) /\ Len(a) = Width[w] /\ Width[w] \in Nat
      /\ b \in Seq(Nat) /\ Len(b) = Width[x] /\ Width[x] \in Nat
      /\ c \in Seq(Nat) /\ Len(c) = Width[y] /\ Width[y] \in Nat
      /\ d \in Seq(Nat) /\ Len(d) = Width[z] /\ Width[z] \in Nat
  <2>1. a \in Seq(Nat) /\ Len(a) = Width[w] BY <1>1, <1>5, FieldBytes DEF Types
  <2>2. b \in Seq(Nat) /\ Len(b) = Width[x] BY <1>1, <1>5, FieldBytes DEF Types
  <2>3. c \in Seq(Nat) /\ Len(c) = Width[y] BY <1>1, <1>5, FieldBytes DEF Types
  <2>4. d \in Seq(Nat) /\ Len(d) = Width[z] BY <1>1, <1>5, FieldBytes DEF Types
  <2>5. Len(a) \in Nat /\ Len(b) \in Nat /\ Len(c) \in Nat /\ Len(d) \in Nat
    BY <2>1, <2>2, <2>3, <2>4, LenProperties
  <2> QED BY <2>1, <2>2, <2>3, <2>4, <2>5
<1>7. FlattenSeq(f) = abcd BY <1>4, FlattenFour
<1>. HIDE DEF a, b, c, d
<1>8. ab \in Seq(Nat) /\ Len(ab) = C /\ Holds(ab, 0, a) /\ Holds(ab, B, b)
  <2>1. Holds(a, 0, a) BY <1>6, HoldsItself
  <2>2. Holds(ab, 0, a) BY <1>6, <2>1, HoldsStill
  <2>3. ab \in Seq(Nat) /\ Len(ab) = Len(a) + Len(b) /\ Holds(ab, Len(a), b)
    BY <1>6, HoldsAtEnd
  <2> QED BY <1>6, <2>2, <2>3
<1>. HIDE DEF ab
<1>9. /\ abc \in Seq(Nat) /\ Len(abc) = D
      /\ Holds(abc, 0, a) /\ Holds(abc, B, b) /\ Holds(abc, C, c)
  BY <1>6, <1>8, HoldsStill, HoldsAtEnd
<1>. HIDE DEF abc
<1>10. /\ abcd \in Seq(Nat) /\ Len(abcd) = E
       /\ Holds(abcd, 0, a) /\ Holds(abcd, B, b) /\ Holds(abcd, C, c) /\ Holds(abcd, D, d)
  BY <1>6, <1>9, HoldsStill, HoldsAtEnd
<1>. HIDE DEF abcd
<1>11. /\ all \in Seq(Nat)
       /\ Holds(all, 0, a) /\ Holds(all, B, b) /\ Holds(all, C, c) /\ Holds(all, D, d)
  BY <1>6, <1>10, HoldsStill, HoldsAtEnd
<1>. HIDE DEF all
<1>12. /\ slice(all, <<0, 0 + Len(a)>>) = a /\ slice(all, <<B, B + Len(b)>>) = b
       /\ slice(all, <<C, C + Len(c)>>) = c /\ slice(all, <<D, D + Len(d)>>) = d
  <2>. HIDE DEF B, C, D, E
  <2> QED BY <1>6, <1>11, SliceOfHeld
<1>13. /\ DOMAIN arm.ranges = 1 .. 4
       /\ arm.ranges[1] = <<0, 0 + Len(a)>> /\ arm.ranges[2] = <<B, B + Len(b)>>
       /\ arm.ranges[3] = <<C, C + Len(c)>> /\ arm.ranges[4] = <<D, D + Len(d)>>
  <2>1. /\ 0 + Len(a) = B /\ B + Len(b) = C /\ C + Len(c) = D /\ D + Len(d) = E
    BY <1>6
  <2>. HIDE DEF B, C, D, E
  <2> QED BY <1>1, <2>1
<1>14. \A i \in 1 .. 4 : slice(all, arm.ranges[i]) = f[i]
  <2>1. \A i \in 1 .. 4 : i = 1 \/ i = 2 \/ i = 3 \/ i = 4 OBVIOUS
  <2>. HIDE DEF B, C, D, E
  <2> QED BY <1>12, <1>13, <2>1 DEF a, b, c, d
<1>15. [i \in DOMAIN arm.ranges |-> slice(FlattenSeq(f) \o pad, arm.ranges[i])] = f
  BY <1>3, <1>7, <1>13, <1>14 DEF all
<1>. HIDE DEF B, C, D, E
<1> QED BY <1>1, <1>7, <1>10, <1>15 DEF ReadBack

-----------------------------------------------------------------------------
(* Requests *)

\* A request names a variant, and gives each of its fields a value of its type.
LEMMA RequestForm ==
  ASSUME NEW r \in Requests
  PROVE  LET types == StakeInstruction[r.ix]
         IN  /\ r.ix \in DOMAIN StakeInstruction
             /\ r = [ix |-> r.ix, fields |-> r.fields]
             /\ r.fields = [i \in DOMAIN types |-> r.fields[i]]
             /\ \A i \in DOMAIN types : r.fields[i] \in FieldValues(types[i])
<1>1. PICK ix \in Sent :
        r \in LET types == StakeInstruction[ix]
                  values == UNION {FieldValues(types[i]) : i \in DOMAIN types}
              IN  {[ix |-> ix, fields |-> f] :
                     f \in {g \in [DOMAIN types -> values] :
                              \A i \in DOMAIN types : g[i] \in FieldValues(types[i])}}
  BY DEF Requests
<1>. DEFINE types == StakeInstruction[ix]
            values == UNION {FieldValues(types[i]) : i \in DOMAIN types}
<1>2. PICK f \in [DOMAIN types -> values] :
        /\ r = [ix |-> ix, fields |-> f]
        /\ \A i \in DOMAIN types : f[i] \in FieldValues(types[i])
  BY <1>1
<1>3. r.ix = ix /\ r.fields = f /\ f = [i \in DOMAIN types |-> f[i]] BY <1>2
<1>4. ix \in DOMAIN StakeInstruction BY WireAssumption
<1> QED BY <1>2, <1>3, <1>4

\* The arm that a client's tag selects.
ArmOf(ix) == CHOOSE t \in DOMAIN Arms : Arms[t].ix = ix

\* Every variant has an arm.
LEMMA ArmFound ==
  ASSUME NEW ix \in DOMAIN StakeInstruction
  PROVE  ArmOf(ix) \in DOMAIN Arms /\ Arms[ArmOf(ix)].ix = ix
<1>1. \E t \in DOMAIN Arms : Arms[t].ix = ix
  <2>1. DOMAIN Arms = 1 .. 15 BY DEF Arms
  <2>2. \A t \in 1 .. 15 : Arms[t].ix =
          <<"InitPool", "Deposit", "Withdraw", "FlushToInsurance", "UpdateConfig",
            "TransferAdmin", "AdminSetOracleAuthority", "AdminSetRiskThreshold",
            "AdminSetMaintenanceFee", "AdminResolveMarket", "AdminWithdrawInsurance",
            "AdminSetInsurancePolicy", "AccrueFees", "InitTradingPool",
            "AdminSetHwmConfig">>[t]
    BY DEF Arms, Arm
  <2>3. ix \in {"InitPool", "Deposit", "Withdraw", "FlushToInsurance", "UpdateConfig",
                "TransferAdmin", "AdminSetOracleAuthority", "AdminSetRiskThreshold",
                "AdminSetMaintenanceFee", "AdminResolveMarket", "AdminWithdrawInsurance",
                "AdminSetInsurancePolicy", "AccrueFees", "InitTradingPool",
                "AdminSetHwmConfig"}
    BY DEF StakeInstruction
  <2> QED BY <2>1, <2>2, <2>3
<1> QED BY <1>1 DEF ArmOf

\* What unpack makes of a tag and the bytes behind it.
LEMMA UnpackTagged ==
  ASSUME NEW t \in DOMAIN Arms, NEW rest \in Seq(Nat)
  PROVE  unpack(<<t - 1>> \o rest) =
           IF Len(rest) < Arms[t].len THEN InvalidInstructionData
           ELSE [ix |-> Arms[t].ix,
                 fields |-> [i \in DOMAIN Arms[t].ranges |-> slice(rest, Arms[t].ranges[i])]]
<1>. DEFINE d == <<t - 1>> \o rest
<1>1. t \in Nat /\ t - 1 \in Nat /\ (t - 1) + 1 = t
  <2>1. DOMAIN Arms = 1 .. 15 BY DEF Arms
  <2> QED BY <2>1
<1>2. d \in Seq(Nat) /\ d # <<>> /\ Head(d) = t - 1 /\ Tail(d) = rest
  <2>1. <<t - 1>> \in Seq(Nat) /\ Len(<<t - 1>>) = 1 BY <1>1
  <2>2. /\ d \in Seq(Nat) /\ Len(d) = 1 + Len(rest) /\ d[1] = t - 1
        /\ \A i \in 1 .. Len(rest) : d[1 + i] = rest[i]
    BY <1>1, <2>1
  <2>. HIDE DEF d
  <2>3. d # <<>> BY <2>2
  <2>4. Head(d) = t - 1 BY <2>2, <2>3
  <2>5. /\ Tail(d) \in Seq(Nat) /\ Len(Tail(d)) = Len(d) - 1
        /\ \A i \in 1 .. Len(Tail(d)) : Tail(d)[i] = d[i + 1]
    BY <2>2, <2>3, HeadTailProperties
  <2>6. Len(Tail(d)) = Len(rest) BY <2>2, <2>5
  <2>7. \A i \in 1 .. Len(rest) : Tail(d)[i] = rest[i]
    <3> TAKE i \in 1 .. Len(rest)
    <3>1. i + 1 = 1 + i OBVIOUS
    <3> QED BY <2>2, <2>5, <2>6, <3>1
  <2>8. Tail(d) = rest BY <2>5, <2>6, <2>7, SeqEqual
  <2> QED BY <2>2, <2>3, <2>4, <2>8
<1>. HIDE DEF d
<1>3. Head(d) + 1 \in DOMAIN Arms /\ Arms[Head(d) + 1] = Arms[t] BY <1>1, <1>2
<1>4. unpack(d) = IF Len(rest) < Arms[t].len THEN InvalidInstructionData
           ELSE [ix |-> Arms[t].ix,
                 fields |-> [i \in DOMAIN Arms[t].ranges |-> slice(rest, Arms[t].ranges[i])]]
  BY <1>2, <1>3 DEF unpack, too_short
<1> QED BY <1>4 DEF d

\* A request that lost bytes is refused, and what reaches the handlers otherwise is
\* the request.
LEMMA Decoding ==
  ASSUME NEW r \in Requests, NEW d \in Cuts(pack(r))
  PROVE  /\ Len(d) >= Len(pack(r)) => unpack(d) = r
         /\ ~(Len(d) >= Len(pack(r))) => unpack(d) = InvalidInstructionData
<1>. DEFINE t == ArmOf(r.ix)
            types == StakeInstruction[r.ix]
            flat == FlattenSeq(r.fields)
            p == pack(r)
<1>1. /\ r.ix \in DOMAIN StakeInstruction /\ r = [ix |-> r.ix, fields |-> r.fields]
      /\ r.fields = [i \in DOMAIN types |-> r.fields[i]]
      /\ \A i \in DOMAIN types : r.fields[i] \in FieldValues(types[i])
  BY RequestForm
<1>2. t \in DOMAIN Arms /\ Arms[t].ix = r.ix BY <1>1, ArmFound
<1>3. p = <<t - 1>> \o flat BY DEF pack, ArmOf
<1>4. Laid(Arms[t], types) BY <1>2, ArmsLaid
<1>. HIDE DEF t, types, flat, p
<1>5. ASSUME NEW pad \in Seq(Nat) PROVE ReadBack(Arms[t], r.fields, pad)
  <2>. DEFINE f == r.fields
  <2>1. /\ f = [i \in DOMAIN types |-> f[i]]
        /\ \A i \in DOMAIN types : f[i] \in FieldValues(types[i])
    BY <1>1 DEF types
  <2>. HIDE DEF f
  <2>2. CASE LaidNone(Arms[t], types) BY <2>1, <2>2, NoneReadBack DEF f
  <2>3. ASSUME NEW x, LaidOne(Arms[t], types, x) PROVE ReadBack(Arms[t], f, pad)
    BY <2>1, <2>3, OneReadBack
  <2>4. ASSUME NEW x, NEW y, LaidTwo(Arms[t], types, x, y) PROVE ReadBack(Arms[t], f, pad)
    BY <2>1, <2>4, TwoReadBack
  <2>5. ASSUME NEW w, NEW x, NEW y, NEW z, LaidFour(Arms[t], types, w, x, y, z)
        PROVE  ReadBack(Arms[t], f, pad)
    BY <2>1, <2>5, FourReadBack
  <2> QED BY <1>4, <2>2, <2>3, <2>4, <2>5 DEF Laid, f
<1>6. <<>> \in Seq(Nat) BY EmptySeq
<1>7. flat \in Seq(Nat) /\ Len(flat) = Arms[t].len /\ Len(flat) \in Nat
  BY <1>5, <1>6, LenProperties DEF ReadBack, flat
<1>8. t - 1 \in Nat /\ <<t - 1>> \in Seq(Nat) /\ Len(<<t - 1>>) = 1
  <2>1. DOMAIN Arms = 1 .. 15 BY DEF Arms
  <2>2. t - 1 \in Nat BY <1>2, <2>1
  <2> QED BY <2>2
<1>9. p \in Seq(Nat) /\ Len(p) = 1 + Len(flat) BY <1>3, <1>7, <1>8, ConcatProperties
<1>10. ASSUME NEW pad \in Seq(Nat), d = <<t - 1>> \o (flat \o pad)
       PROVE  Len(d) >= Len(p) /\ unpack(d) = r
  <2>1. flat \o pad \in Seq(Nat) /\ Len(flat \o pad) = Len(flat) + Len(pad) /\ Len(pad) \in Nat
    BY <1>7, ConcatProperties, LenProperties
  <2>2. Len(d) = 1 + (Len(flat) + Len(pad)) BY <1>8, <1>10, <2>1, ConcatProperties
  <2>3. ~(Len(flat \o pad) < Arms[t].len) BY <1>7, <2>1
  <2>4. unpack(d) = [ix |-> r.ix, fields |-> [i \in DOMAIN Arms[t].ranges |->
                                                slice(flat \o pad, Arms[t].ranges[i])]]
    BY <1>2, <1>10, <2>1, <2>3, UnpackTagged
  <2>5. unpack(d) = [ix |-> r.ix, fields |-> r.fields]
    BY <1>5, <2>4 DEF ReadBack, flat
  <2>6. Len(d) >= Len(p) BY <1>7, <1>9, <2>1, <2>2
  <2> QED BY <1>1, <2>5, <2>6
<1>11. ASSUME NEW n \in 1 .. Padding, d = p \o [i \in 1 .. n |-> 77]
       PROVE  Len(d) >= Len(p) /\ unpack(d) = r
  <2>. DEFINE pad == [i \in 1 .. n |-> 77]
  <2>1. pad \in [1 .. n -> Nat] OBVIOUS
  <2>. HIDE DEF pad
  <2>2. pad \in Seq(Nat) BY <2>1, SeqDef
  <2>3. d = <<t - 1>> \o (flat \o pad)
    BY <1>3, <1>7, <1>8, <1>11, <2>2, ConcatAssociative DEF pad
  <2> QED BY <1>10, <2>2, <2>3
<1>12. ASSUME NEW n \in 0 .. Len(p), d = SubSeq(p, 1, n)
       PROVE  /\ Len(d) >= Len(p) => unpack(d) = r
              /\ ~(Len(d) >= Len(p)) => unpack(d) = InvalidInstructionData
  <2>1. CASE n = Len(p)
    <3>1. d = p BY <1>9, <1>12, <2>1, SubSeqFull
    <3>2. flat = flat \o <<>> BY <1>7, ConcatEmptySeq
    <3>3. d = <<t - 1>> \o (flat \o <<>>) BY <1>3, <3>1, <3>2
    <3> QED BY <1>6, <1>9, <1>10, <3>1, <3>3
  <2>2. CASE n = 0
    <3>1. d = <<>> BY <1>12, <2>2, SubSeqEmpty
    <3>2. Len(d) = 0 BY <3>1
    <3>3. ~(Len(d) >= Len(p)) BY <1>7, <1>9, <3>2
    <3>4. unpack(d) = InvalidInstructionData BY <3>1 DEF unpack
    <3> QED BY <3>3, <3>4
  <2>3. CASE n \in 1 .. Len(p) - 1
    <3>. DEFINE rest == SubSeq(p, 2, n)
    <3>1. n \in Nat /\ n >= 1 /\ n < Len(p) /\ Len(p) \in Nat BY <1>7, <1>9, <2>3
    <3>2. \A i \in 2 .. n : p[i] \in Nat
      <4> TAKE i \in 2 .. n
      <4>1. i \in 1 .. Len(p) BY <3>1
      <4> QED BY <1>9, <4>1, ElementOfSeq
    <3>3. rest \in Seq(Nat) /\ Len(rest) = IF 2 <= n THEN n - 2 + 1 ELSE 0
      BY <3>1, <3>2, SubSeqProperties
    <3>4. Len(rest) = n - 1 BY <3>1, <3>3
    <3>5. p[1] = t - 1 BY <1>3, <1>7, <1>8
    <3>6. d = <<p[1]>> \o SubSeq(p, 1 + 1, n)
      <4>1. 1 \in 1 .. Len(p) /\ n \in 1 .. Len(p) BY <3>1
      <4> QED BY <1>9, <1>12, <4>1, SubSeqRecursiveFirst
    <3>7. d = <<t - 1>> \o rest
      <4>1. 1 + 1 = 2 OBVIOUS
      <4> QED BY <3>5, <3>6, <4>1
    <3>. HIDE DEF rest
    <3>8. Len(rest) < Arms[t].len BY <1>7, <1>9, <3>1, <3>4
    <3>9. unpack(d) = InvalidInstructionData BY <1>2, <3>3, <3>7, <3>8, UnpackTagged
    <3>10. Len(d) = 1 + Len(rest) BY <1>8, <3>3, <3>7, ConcatProperties
    <3> QED BY <3>1, <3>4, <3>9, <3>10
  <2>4. n = Len(p) \/ n = 0 \/ n \in 1 .. Len(p) - 1 BY <1>7, <1>9
  <2> QED BY <2>1, <2>2, <2>3, <2>4
<1>13. \/ \E n \in 0 .. Len(p) : d = SubSeq(p, 1, n)
       \/ \E n \in 1 .. Padding : d = p \o [i \in 1 .. n |-> 77]
  BY DEF Cuts, p
<1> QED BY <1>11, <1>12, <1>13 DEF p

-----------------------------------------------------------------------------
(* What goes to the wrapper *)

\* A tag and what is behind it.
LEMMA Tagged ==
  ASSUME NEW n \in Nat, NEW b \in Seq(Nat), NEW d, d = <<n>> \o b
  PROVE  d # <<>> /\ Head(d) = n /\ Len(d) = 1 + Len(b) /\ SubSeq(d, 2, 1 + Len(b)) = b
<1>1. <<n>> \in Seq(Nat) /\ Len(<<n>>) = 1 OBVIOUS
<1>2. d \in Seq(Nat) /\ Len(d) = 1 + Len(b) /\ Holds(d, 1, b) BY <1>1, HoldsAtEnd
<1>3. d[1] = n OBVIOUS
<1>4. d # <<>> BY <1>2
<1>5. Head(d) = n BY <1>2, <1>3, <1>4
<1>6. SubSeq(d, 1 + 1, 1 + Len(b)) = b BY <1>2, SliceOfHeld
<1>7. 1 + 1 = 2 OBVIOUS
<1> QED BY <1>2, <1>4, <1>5, <1>6, <1>7

\* The amount is padded to a u128.
LEMMA AmountBytes ==
  ASSUME NEW amount \in FieldValues("u64")
  PROVE  /\ push_u128_from_u64(amount) = amount \o zeros(8)
         /\ amount \o zeros(8) \in Seq(Nat) /\ Len(amount \o zeros(8)) = 16
<1>1. amount \in Seq(Nat) /\ Len(amount) = 8 BY FieldBytes DEF Width
<1>2. zeros(8) \in Seq(Nat) /\ Len(zeros(8)) = 8 BY Zeros
<1>3. amount \o zeros(8) \in Seq(Nat) /\ Len(amount \o zeros(8)) = 16
  <2>1. /\ amount \o zeros(8) \in Seq(Nat)
        /\ Len(amount \o zeros(8)) = Len(amount) + Len(zeros(8))
    BY <1>1, <1>2, HoldsAtEnd
  <2>2. 8 + 8 = 16 OBVIOUS
  <2> QED BY <1>1, <1>2, <2>1, <2>2
<1> QED BY <1>3 DEF push_u128_from_u64

\* Who signs a call.
Signers(metas) == {m.role : m \in {n \in Range(metas) : n.signer}}

LEMMA MetaFields ==
  ASSUME NEW role
  PROVE  /\ S(role).role = role /\ S(role).signer /\ ~S(role).writable
         /\ W(role).role = role /\ ~W(role).signer /\ W(role).writable
         /\ R(role).role = role /\ ~R(role).signer /\ ~R(role).writable
BY DEF S, W, R, Meta

LEMMA CallSigners ==
  /\ Signers(<<S("admin"), S("pool_pda"), W("slab")>>) = {"admin", "pool_pda"}
  /\ Signers(<<S("pool_pda"), W("slab")>>) = {"pool_pda"}
  /\ Signers(<<S("vault_auth"), W("slab"), W("vault"), W("wrapper_vault"),
               R("token_program")>>) = {"vault_auth"}
  /\ Signers(<<S("vault_auth"), W("slab"), W("vault"), W("wrapper_vault"),
               R("wrapper_vault_pda"), R("token_program")>>) = {"vault_auth"}
  /\ \A a : Signers(<<S("pool_pda"), S(a), W("slab")>>) = {"pool_pda", a}
<1>1. Signers(<<S("admin"), S("pool_pda"), W("slab")>>) = {"admin", "pool_pda"}
  <2>. DEFINE metas == <<S("admin"), S("pool_pda"), W("slab")>>
  <2>1. Range(metas) = {S("admin"), S("pool_pda"), W("slab")}
    BY DEF Range
  <2>. HIDE DEF metas
  <2>2. {n \in Range(metas) : n.signer} = {S("admin"), S("pool_pda")} BY <2>1, MetaFields
  <2>3. Signers(metas) = {"admin", "pool_pda"} BY <2>2, MetaFields DEF Signers
  <2> QED BY <2>3 DEF metas
<1>2. Signers(<<S("pool_pda"), W("slab")>>) = {"pool_pda"}
  <2>. DEFINE metas == <<S("pool_pda"), W("slab")>>
  <2>1. Range(metas) = {S("pool_pda"), W("slab")}
    BY DEF Range
  <2>. HIDE DEF metas
  <2>2. {n \in Range(metas) : n.signer} = {S("pool_pda")} BY <2>1, MetaFields
  <2>3. Signers(metas) = {"pool_pda"} BY <2>2, MetaFields DEF Signers
  <2> QED BY <2>3 DEF metas
<1>3. Signers(<<S("vault_auth"), W("slab"), W("vault"),
                W("wrapper_vault"), R("token_program")>>) = {"vault_auth"}
  <2>. DEFINE metas == <<S("vault_auth"), W("slab"), W("vault"),
                         W("wrapper_vault"), R("token_program")>>
  <2>1. Range(metas) = {S("vault_auth"), W("slab"), W("vault"),
                        W("wrapper_vault"), R("token_program")}
    BY DEF Range
  <2>. HIDE DEF metas
  <2>2. {n \in Range(metas) : n.signer} = {S("vault_auth")} BY <2>1, MetaFields
  <2>3. Signers(metas) = {"vault_auth"} BY <2>2, MetaFields DEF Signers
  <2> QED BY <2>3 DEF metas
<1>4. Signers(<<S("vault_auth"), W("slab"), W("vault"), W("wrapper_vault"),
                R("wrapper_vault_pda"), R("token_program")>>) = {"vault_auth"}
  <2>. DEFINE metas == <<S("vault_auth"), W("slab"), W("vault"), W("wrapper_vault"),
                         R("wrapper_vault_pda"), R("token_program")>>
  <2>1. Range(metas) = {S("vault_auth"), W("slab"), W("vault"), W("wrapper_vault"),
                        R("wrapper_vault_pda"), R("token_program")}
    BY DEF Range
  <2>. HIDE DEF metas
  <2>2. {n \in Range(metas) : n.signer} = {S("vault_auth")} BY <2>1, MetaFields
  <2>3. Signers(metas) = {"vault_auth"} BY <2>2, MetaFields DEF Signers
  <2> QED BY <2>3 DEF metas
<1>5. ASSUME NEW a PROVE Signers(<<S("pool_pda"), S(a), W("slab")>>) = {"pool_pda", a}
  <2>. DEFINE metas == <<S("pool_pda"), S(a), W("slab")>>
  <2>1. Range(metas) = {S("pool_pda"), S(a), W("slab")}
    BY DEF Range
  <2>. HIDE DEF metas
  <2>2. {n \in Range(metas) : n.signer} = {S("pool_pda"), S(a)} BY <2>1, MetaFields
  <2>3. Signers(metas) = {"pool_pda", a} BY <2>2, MetaFields DEF Signers
  <2> QED BY <2>3 DEF metas
<1> QED BY <1>1, <1>2, <1>3, <1>4, <1>5

\* How the wrapper takes a call, by its tag and its length.
LEMMA WrapperTakes ==
  ASSUME NEW c, NEW d, c.data = d, d # <<>>
  PROVE  /\ Head(d) = 9 /\ Len(d) = 17 =>
              wrapper_decode(c) =
                [op |-> "TopUpInsurance",
                 fields |-> <<SubSeq(d, 2, 17)>>,
                 signers |-> Signers(c.metas)]
         /\ Head(d) = 19 /\ Len(d) = 1 =>
              wrapper_decode(c) =
                [op |-> "ResolveMarket", fields |-> <<>>, signers |-> Signers(c.metas)]
         /\ Head(d) = 32 /\ Len(d) = 33 =>
              wrapper_decode(c) =
                [op |-> "UpdateAuthority",
                 fields |-> <<SubSeq(d, 2, 33)>>,
                 signers |-> Signers(c.metas)]
         /\ Head(d) = 41 /\ Len(d) = 17 =>
              wrapper_decode(c) =
                [op |-> "WithdrawInsurance",
                 fields |-> <<SubSeq(d, 2, 17)>>,
                 signers |-> Signers(c.metas)]
         /\ Head(d) = 65 /\ Len(d) = 36 =>
              wrapper_decode(c) =
                [op |-> "UpdateAssetAuthority",
                 fields |-> <<SubSeq(d, 2, 3), SubSeq(d, 4, 4), SubSeq(d, 5, 36)>>,
                 signers |-> Signers(c.metas)]
<1>1. Head(d) = 9 /\ Len(d) = 17 =>
     wrapper_decode(c) =
       [op |-> "TopUpInsurance", fields |-> <<SubSeq(d, 2, 17)>>, signers |-> Signers(c.metas)]
  BY DEF wrapper_decode, Signers
<1>2. Head(d) = 19 /\ Len(d) = 1 =>
     wrapper_decode(c) =
       [op |-> "ResolveMarket", fields |-> <<>>, signers |-> Signers(c.metas)]
  BY DEF wrapper_decode, Signers
<1>3. Head(d) = 32 /\ Len(d) = 33 =>
     wrapper_decode(c) =
       [op |-> "UpdateAuthority", fields |-> <<SubSeq(d, 2, 33)>>, signers |-> Signers(c.metas)]
  BY DEF wrapper_decode, Signers
<1>4. Head(d) = 41 /\ Len(d) = 17 =>
     wrapper_decode(c) =
       [op |-> "WithdrawInsurance", fields |-> <<SubSeq(d, 2, 17)>>, signers |-> Signers(c.metas)]
  BY DEF wrapper_decode, Signers
<1>5. Head(d) = 65 /\ Len(d) = 36 =>
     wrapper_decode(c) =
       [op |-> "UpdateAssetAuthority",
        fields |-> <<SubSeq(d, 2, 3), SubSeq(d, 4, 4), SubSeq(d, 5, 36)>>,
        signers |-> Signers(c.metas)]
  BY DEF wrapper_decode, Signers
<1> QED BY <1>1, <1>2, <1>3, <1>4, <1>5

LEMMA NothingAsked == wrapper_decode(NoCall) = NoOrder
BY DEF wrapper_decode, NoCall, Call

\* Handing over the admin: the pool's key travels, the admin and the pool sign.
LEMMA AuthorityAsked ==
  wrapper_decode(cpi_update_authority) =
    [op |-> "UpdateAuthority", fields |-> <<pubkey["pool_pda"]>>,
     signers |-> {"admin", "pool_pda"}]
<1>. DEFINE c == cpi_update_authority
            d == c.data
            k == pubkey["pool_pda"]
<1>1. d = <<32>> \o k /\ c.metas = <<S("admin"), S("pool_pda"), W("slab")>>
  BY DEF cpi_update_authority, Call, TAG_UPDATE_AUTHORITY
<1>2. k \in Seq(Nat) /\ Len(k) = 32 BY PubkeyBytes
<1>0. c.data = d OBVIOUS
<1>. HIDE DEF c, d, k
<1>3. 32 \in Nat OBVIOUS
<1>4. d # <<>> /\ Head(d) = 32 /\ Len(d) = 33 /\ SubSeq(d, 2, 33) = k
  <2>1. 33 = 1 + Len(k) BY <1>2
  <2>2. d = <<TAG_UPDATE_AUTHORITY>> \o k /\ TAG_UPDATE_AUTHORITY \in Nat
    BY <1>1, <1>3 DEF TAG_UPDATE_AUTHORITY
  <2>3. d # <<>> /\ Head(d) = 32 BY <1>2, <2>2, Tagged DEF TAG_UPDATE_AUTHORITY
  <2>4. Len(d) = 1 + Len(k) BY <1>2, <2>2, Tagged
  <2>5. SubSeq(d, 2, 1 + Len(k)) = k BY <1>2, <2>2, Tagged
  <2> QED BY <2>1, <2>3, <2>4, <2>5
<1>5. wrapper_decode(c) = [op |-> "UpdateAuthority", fields |-> <<k>>,
                           signers |-> Signers(c.metas)]
  BY <1>0, <1>4, WrapperTakes
<1>6. Signers(c.metas) = {"admin", "pool_pda"} BY <1>1, CallSigners
<1> QED BY <1>5, <1>6 DEF c, k

LEMMA ResolveAsked ==
  wrapper_decode(cpi_resolve_market) =
    [op |-> "ResolveMarket", fields |-> <<>>, signers |-> {"pool_pda"}]
<1>. DEFINE c == cpi_resolve_market
<1>1. c.data = <<19>> /\ c.metas = <<S("pool_pda"), W("slab")>>
  BY DEF cpi_resolve_market, Call, TAG_RESOLVE_MARKET
<1>. HIDE DEF c
<1>2. c.data # <<>> /\ Head(c.data) = 19 /\ Len(c.data) = 1 BY <1>1
<1>3. wrapper_decode(c) = [op |-> "ResolveMarket", fields |-> <<>>,
                           signers |-> Signers(c.metas)]
  BY <1>2, WrapperTakes
<1>4. Signers(c.metas) = {"pool_pda"} BY <1>1, CallSigners
<1> QED BY <1>3, <1>4 DEF c

\* The amounts arrive as numbers of 16 bytes.
LEMMA AmountsAsked ==
  ASSUME NEW amount \in FieldValues("u64")
  PROVE  /\ wrapper_decode(cpi_top_up_insurance(amount)) =
              [op |-> "TopUpInsurance", fields |-> <<amount \o zeros(8)>>,
               signers |-> {"vault_auth"}]
         /\ wrapper_decode(cpi_withdraw_insurance(amount)) =
              [op |-> "WithdrawInsurance", fields |-> <<amount \o zeros(8)>>,
               signers |-> {"vault_auth"}]
<1>. DEFINE b == amount \o zeros(8)
            c == cpi_top_up_insurance(amount)
            e == cpi_withdraw_insurance(amount)
            d == c.data
            g == e.data
<1>1. push_u128_from_u64(amount) = b /\ b \in Seq(Nat) /\ Len(b) = 16 BY AmountBytes
<1>2. /\ d = <<9>> \o b
      /\ c.metas = <<S("vault_auth"), W("slab"), W("vault"), W("wrapper_vault"),
                     R("token_program")>>
  BY <1>1 DEF cpi_top_up_insurance, Call, TAG_TOP_UP_INSURANCE
<1>3. /\ g = <<41>> \o b
      /\ e.metas = <<S("vault_auth"), W("slab"), W("vault"), W("wrapper_vault"),
                     R("wrapper_vault_pda"), R("token_program")>>
  BY <1>1 DEF cpi_withdraw_insurance, Call, TAG_WITHDRAW_INSURANCE
<1>0. c.data = d /\ e.data = g OBVIOUS
<1>. HIDE DEF b, c, d, e, g
<1>4. 9 \in Nat /\ 41 \in Nat /\ 17 = 1 + Len(b) BY <1>1
<1>5. d # <<>> /\ Head(d) = 9 /\ Len(d) = 17 /\ SubSeq(d, 2, 17) = b
  <2>1. d = <<9>> \o b BY <1>2
  <2>2. d # <<>> /\ Head(d) = 9 BY <1>1, <1>4, <2>1, Tagged
  <2>3. Len(d) = 1 + Len(b) BY <1>1, <1>4, <2>1, Tagged
  <2>4. SubSeq(d, 2, 1 + Len(b)) = b BY <1>1, <1>4, <2>1, Tagged
  <2> QED BY <1>4, <2>2, <2>3, <2>4
<1>6. g # <<>> /\ Head(g) = 41 /\ Len(g) = 17 /\ SubSeq(g, 2, 17) = b
  <2>1. g = <<TAG_WITHDRAW_INSURANCE>> \o b /\ TAG_WITHDRAW_INSURANCE \in Nat
    BY <1>3, <1>4 DEF TAG_WITHDRAW_INSURANCE
  <2>2. g # <<>> /\ Head(g) = 41 BY <1>1, <2>1, Tagged DEF TAG_WITHDRAW_INSURANCE
  <2>3. Len(g) = 1 + Len(b) BY <1>1, <2>1, Tagged
  <2>4. SubSeq(g, 2, 1 + Len(b)) = b BY <1>1, <2>1, Tagged
  <2> QED BY <1>4, <2>2, <2>3, <2>4
<1>7. wrapper_decode(c) = [op |-> "TopUpInsurance", fields |-> <<b>>,
                           signers |-> Signers(c.metas)]
  BY <1>0, <1>5, WrapperTakes
<1>8. wrapper_decode(e) = [op |-> "WithdrawInsurance", fields |-> <<b>>,
                           signers |-> Signers(e.metas)]
  BY <1>0, <1>6, WrapperTakes
<1>9. Signers(c.metas) = {"vault_auth"} /\ Signers(e.metas) = {"vault_auth"}
  BY <1>2, <1>3, CallSigners
<1> QED BY <1>7, <1>8, <1>9 DEF b, c, e

\* Asset 0, the kind of authority and the incoming key.
LEMMA AssetAsked ==
  ASSUME NEW to \in {"vault_auth", "new_authority"}, NEW kind \in Nat, NEW seeds
  PROVE  wrapper_decode(cpi_update_asset_authority(to, zeros(2), kind, seeds)) =
           [op |-> "UpdateAssetAuthority", fields |-> <<zeros(2), <<kind>>, pubkey[to]>>,
            signers |-> {"pool_pda", to}]
<1>. DEFINE z == zeros(2)
            k == <<kind>>
            a == <<65>>
            az == a \o z
            azk == az \o k
            c == cpi_update_asset_authority(to, zeros(2), kind, seeds)
            key == pubkey[to]
            d == c.data
<1>1. z \in Seq(Nat) /\ Len(z) = 2 BY Zeros
<1>2. k \in Seq(Nat) /\ Len(k) = 1 /\ a \in Seq(Nat) /\ Len(a) = 1 /\ a[1] = 65 OBVIOUS
<1>0. /\ d = azk \o key /\ c.data = d
      /\ c.metas = <<S("pool_pda"), S(to), W("slab")>>
  BY DEF cpi_update_asset_authority, Call, TAG_UPDATE_ASSET_AUTHORITY
<1>k. key \in Seq(Nat) /\ Len(key) = 32 BY PubkeyBytes
<1>. HIDE DEF c, d, key, z, k, a
<1>3. az \in Seq(Nat) /\ Len(az) = 3 /\ Holds(az, 0, a) /\ Holds(az, 1, z)
  <2>1. Holds(a, 0, a) BY <1>2, HoldsItself
  <2>2. Holds(az, 0, a) BY <1>1, <1>2, <2>1, HoldsStill
  <2>3. az \in Seq(Nat) /\ Len(az) = Len(a) + Len(z) /\ Holds(az, Len(a), z)
    BY <1>1, <1>2, HoldsAtEnd
  <2> QED BY <1>1, <1>2, <2>2, <2>3
<1>. HIDE DEF az
<1>4. /\ azk \in Seq(Nat) /\ Len(azk) = 4
      /\ Holds(azk, 0, a) /\ Holds(azk, 1, z) /\ Holds(azk, 3, k)
  <2>1. Holds(azk, 0, a) /\ Holds(azk, 1, z) BY <1>1, <1>2, <1>3, HoldsStill
  <2>2. azk \in Seq(Nat) /\ Len(azk) = Len(az) + Len(k) /\ Holds(azk, Len(az), k)
    BY <1>2, <1>3, HoldsAtEnd
  <2>3. 3 + 1 = 4 OBVIOUS
  <2> QED BY <1>2, <1>3, <2>1, <2>2, <2>3
<1>. HIDE DEF azk
<1>5. /\ d \in Seq(Nat) /\ Len(d) = 36
      /\ Holds(d, 0, a) /\ Holds(d, 1, z) /\ Holds(d, 3, k) /\ Holds(d, 4, key)
  <2>1. Holds(d, 0, a) /\ Holds(d, 1, z) /\ Holds(d, 3, k)
    BY <1>0, <1>1, <1>2, <1>4, <1>k, HoldsStill
  <2>2. d \in Seq(Nat) /\ Len(d) = Len(azk) + Len(key) /\ Holds(d, Len(azk), key)
    BY <1>0, <1>4, <1>k, HoldsAtEnd
  <2>3. 4 + 32 = 36 OBVIOUS
  <2> QED BY <1>4, <1>k, <2>1, <2>2, <2>3
<1>6. d # <<>>
  <2>1. Len(d) # 0 BY <1>5
  <2>2. Len(<<>>) = 0 OBVIOUS
  <2> QED BY <2>1, <2>2
<1>7. Head(d) = 65
  <2>1. 1 \in 1 .. Len(a) /\ 0 + 1 = 1 BY <1>2
  <2>2. d[0 + 1] = a[1] BY <1>5, <2>1 DEF Holds
  <2>3. d[1] = 65 BY <1>2, <2>1, <2>2
  <2> QED BY <1>5, <1>6, <2>3
<1>8. /\ SubSeq(d, 1 + 1, 1 + Len(z)) = z /\ SubSeq(d, 3 + 1, 3 + Len(k)) = k
      /\ SubSeq(d, 4 + 1, 4 + Len(key)) = key
  <2>1. SubSeq(d, 1 + 1, 1 + Len(z)) = z BY <1>1, <1>5, SliceOfHeld
  <2>2. SubSeq(d, 3 + 1, 3 + Len(k)) = k
    <3>1. d \in Seq(Nat) /\ k \in Seq(Nat) /\ Holds(d, 3, k) BY <1>2, <1>5
    <3> QED BY <3>1, SliceOfHeld, Zenon
  <2>3. SubSeq(d, 4 + 1, 4 + Len(key)) = key BY <1>5, <1>k, SliceOfHeld
  <2> QED BY <2>1, <2>2, <2>3
<1>9. /\ 1 + 1 = 2 /\ 1 + Len(z) = 3 /\ 3 + 1 = 4 /\ 3 + Len(k) = 4
      /\ 4 + 1 = 5 /\ 4 + Len(key) = 36
  BY <1>1, <1>2, <1>k
<1>10. SubSeq(d, 2, 3) = z /\ SubSeq(d, 4, 4) = k /\ SubSeq(d, 5, 36) = key
  BY <1>8, <1>9
<1>11. wrapper_decode(c) = [op |-> "UpdateAssetAuthority", fields |-> <<z, k, key>>,
                            signers |-> Signers(c.metas)]
  BY <1>0, <1>5, <1>6, <1>7, <1>10, WrapperTakes
<1>12. Signers(c.metas) = {"pool_pda", to} BY <1>0, CallSigners
<1> QED BY <1>11, <1>12 DEF c, z, k, key

\* The wrapper is asked for what an accepted request asks this program for.
LEMMA Asked ==
  ASSUME NEW r \in Requests, fields_accepted(r)
  PROVE  wrapper_decode(forward(r)) = Intended(r)
<1>1. /\ r.ix \in DOMAIN StakeInstruction
      /\ \A i \in DOMAIN StakeInstruction[r.ix] :
           r.fields[i] \in FieldValues(StakeInstruction[r.ix][i])
  BY RequestForm
<1>2. CASE r.ix \in {"InitPool", "InitTradingPool", "TransferAdmin"}
  BY <1>2, AuthorityAsked DEF forward, Intended
<1>3. CASE r.ix = "FlushToInsurance"
  <2>1. r.fields[1] \in FieldValues("u64") BY <1>1, <1>3 DEF StakeInstruction
  <2>2. forward(r) = cpi_top_up_insurance(r.fields[1]) BY <1>3 DEF forward
  <2> QED BY <1>3, <2>1, <2>2, AmountsAsked DEF Intended
<1>4. CASE r.ix = "AdminWithdrawInsurance"
  <2>1. r.fields[1] \in FieldValues("u64") BY <1>1, <1>4 DEF StakeInstruction
  <2>2. forward(r) = cpi_withdraw_insurance(r.fields[1]) BY <1>4 DEF forward
  <2> QED BY <1>4, <2>1, <2>2, AmountsAsked DEF Intended
<1>5. CASE r.ix = "AdminResolveMarket" BY <1>5, ResolveAsked DEF forward, Intended
<1>6. CASE r.ix = "AdminSetOracleAuthority"
  <2>1. r.fields[1] = pubkey["new_authority"] BY <1>6 DEF fields_accepted
  <2>2. forward(r) = cpi_update_asset_authority("new_authority", zeros(2), 4, {"pool_pda"})
    BY <1>6 DEF forward, ASSET_AUTH_ORACLE
  <2> QED BY <1>6, <2>1, <2>2, AssetAsked DEF Intended
<1>7. CASE r.ix = "AdminSetInsurancePolicy"
  <2>1. r.fields[1] = pubkey["vault_auth"] /\ legacy_fields_zero(r.fields)
    BY <1>7 DEF fields_accepted
  <2>2. forward(r) = cpi_update_asset_authority("vault_auth", zeros(2), 1, insurance_seeds)
    BY <1>7 DEF forward, ASSET_AUTH_INSURANCE
  <2>3. /\ r.fields[2] \in FieldValues("u64") /\ r.fields[3] \in FieldValues("u16")
        /\ r.fields[4] \in FieldValues("u64")
    BY <1>1, <1>7 DEF StakeInstruction
  <2>4. Len(r.fields[2]) = 8 /\ Len(r.fields[3]) = 2 /\ Len(r.fields[4]) = 8
    BY <2>3, FieldBytes DEF Width
  <2>5. \A i \in 2 .. 4 : r.fields[i] \in {zeros(2), zeros(8)}
    <3>1. \A i \in 2 .. 4 : i = 2 \/ i = 3 \/ i = 4 OBVIOUS
    <3> QED BY <2>1, <2>4, <3>1 DEF legacy_fields_zero
  <2> QED BY <1>7, <2>1, <2>2, <2>5, AssetAsked DEF Intended
<1>8. CASE r.ix \in {"Deposit", "Withdraw", "UpdateConfig", "AccrueFees", "AdminSetHwmConfig"}
  BY <1>8, NothingAsked DEF forward, Intended
<1>9. CASE r.ix \in {"AdminSetRiskThreshold", "AdminSetMaintenanceFee"}
  BY <1>9 DEF fields_accepted, retired
<1> QED BY <1>1, <1>2, <1>3, <1>4, <1>5, <1>6, <1>7, <1>8, <1>9 DEF StakeInstruction

-----------------------------------------------------------------------------
(* Accounts *)

\* Every handler finds its accounts in a list that grants all it can.
LEMMA GenerousFound ==
  ASSUME NEW ix \in DOMAIN StakeInstruction
  PROVE  found(Generous(ix), Taken[ix])
<1>1. CASE ix = "InitPool"
  BY <1>1 DEF found, Generous, Taken, process_init_pool_accounts, S, W, R, SW, Meta,
     writable_in
<1>2. CASE ix = "InitTradingPool"
  BY <1>2 DEF found, Generous, Taken, process_init_pool_accounts, S, W, R, SW, Meta,
     writable_in
<1>3. CASE ix = "Deposit"
  BY <1>3 DEF found, Generous, Taken, S, W, R, SW, Meta,
     writable_in
<1>4. CASE ix = "Withdraw"
  BY <1>4 DEF found, Generous, Taken, S, W, R, SW, Meta,
     writable_in
<1>5. CASE ix = "FlushToInsurance"
  BY <1>5 DEF found, Generous, Taken, S, W, R, SW, Meta,
     writable_in
<1>6. CASE ix = "UpdateConfig"
  BY <1>6 DEF found, Generous, Taken, process_config_accounts, S, W, R, SW, Meta,
     writable_in
<1>7. CASE ix = "TransferAdmin"
  BY <1>7 DEF found, Generous, Taken, S, W, R, SW, Meta,
     writable_in
<1>8. CASE ix = "AdminSetOracleAuthority"
  BY <1>8 DEF found, Generous, Taken, process_forward_accounts, S, W, R, SW, Meta,
     writable_in
<1>9. CASE ix = "AdminSetRiskThreshold"
  BY <1>9 DEF found, Generous, Taken, process_forward_accounts, S, W, R, SW, Meta,
     writable_in
<1>10. CASE ix = "AdminSetMaintenanceFee"
  BY <1>10 DEF found, Generous, Taken, process_forward_accounts, S, W, R, SW, Meta,
     writable_in
<1>11. CASE ix = "AdminResolveMarket"
  BY <1>11 DEF found, Generous, Taken, S, W, R, SW, Meta,
     writable_in
<1>12. CASE ix = "AdminWithdrawInsurance"
  BY <1>12 DEF found, Generous, Taken, S, W, R, SW, Meta,
     writable_in
<1>13. CASE ix = "AdminSetInsurancePolicy"
  BY <1>13 DEF found, Generous, Taken, process_forward_accounts, S, W, R, SW, Meta,
     writable_in
<1>14. CASE ix = "AccrueFees"
  BY <1>14 DEF found, Generous, Taken, S, W, R, SW, Meta,
     writable_in
<1>15. CASE ix = "AdminSetHwmConfig"
  BY <1>15 DEF found, Generous, Taken, process_config_accounts, S, W, R, SW, Meta,
     writable_in
<1> QED BY <1>1, <1>2, <1>3, <1>4, <1>5, <1>6, <1>7, <1>8,
           <1>9, <1>10, <1>11, <1>12, <1>13, <1>14, <1>15 DEF StakeInstruction

\* The lists that a client can sign.
LEMMA DocumentedSigns ==
  ASSUME NEW ix \in DOMAIN StakeInstruction
  PROVE  signatures_verify(Documented[ix]) <=> ix # "AdminSetInsurancePolicy"
<1>1. CASE ix = "InitPool"
  BY <1>1 DEF signatures_verify, Pdas, Documented, InitPoolDoc, S, W, R, SW, Meta
<1>2. CASE ix = "InitTradingPool"
  BY <1>2 DEF signatures_verify, Pdas, Documented, InitPoolDoc, S, W, R, SW, Meta
<1>3. CASE ix = "Deposit"
  BY <1>3 DEF signatures_verify, Pdas, Documented, S, W, R, SW, Meta
<1>4. CASE ix = "Withdraw"
  BY <1>4 DEF signatures_verify, Pdas, Documented, S, W, R, SW, Meta
<1>5. CASE ix = "FlushToInsurance"
  BY <1>5 DEF signatures_verify, Pdas, Documented, S, W, R, SW, Meta
<1>6. CASE ix = "UpdateConfig"
  BY <1>6 DEF signatures_verify, Pdas, Documented, ConfigDoc, S, W, R, SW, Meta
<1>7. CASE ix = "TransferAdmin"
  BY <1>7 DEF signatures_verify, Pdas, Documented, S, W, R, SW, Meta
<1>8. CASE ix = "AdminSetOracleAuthority"
  BY <1>8 DEF signatures_verify, Pdas, Documented, ForwardDoc, S, W, R, SW, Meta
<1>9. CASE ix = "AdminSetRiskThreshold"
  BY <1>9 DEF signatures_verify, Pdas, Documented, ForwardDoc, S, W, R, SW, Meta
<1>10. CASE ix = "AdminSetMaintenanceFee"
  BY <1>10 DEF signatures_verify, Pdas, Documented, ForwardDoc, S, W, R, SW, Meta
<1>11. CASE ix = "AdminResolveMarket"
  BY <1>11 DEF signatures_verify, Pdas, Documented, ForwardDoc, S, W, R, SW, Meta
<1>12. CASE ix = "AdminWithdrawInsurance"
  BY <1>12 DEF signatures_verify, Pdas, Documented, S, W, R, SW, Meta
<1>13. CASE ix = "AdminSetInsurancePolicy"
  <2>1. 5 \in DOMAIN Documented[ix] /\ Documented[ix][5] = S("vault_auth")
    BY <1>13 DEF Documented, ForwardDoc
  <2> QED BY <1>13, <2>1 DEF signatures_verify, Pdas, S, Meta
<1>14. CASE ix = "AccrueFees"
  BY <1>14 DEF signatures_verify, Pdas, Documented, S, W, R, SW, Meta
<1>15. CASE ix = "AdminSetHwmConfig"
  BY <1>15 DEF signatures_verify, Pdas, Documented, ConfigDoc, S, W, R, SW, Meta
<1> QED BY <1>1, <1>2, <1>3, <1>4, <1>5, <1>6, <1>7, <1>8,
           <1>9, <1>10, <1>11, <1>12, <1>13, <1>14, <1>15 DEF StakeInstruction

\* A list in the documentation is found unless it is one of the first five.
LEMMA DocumentedFound ==
  ASSUME NEW ix \in DOMAIN StakeInstruction
  PROVE  found(Documented[ix], Taken[ix]) <=> ix \notin Misdocumented \/ ix = "AdminSetInsurancePolicy"
<1>1. CASE ix = "InitPool"
  BY <1>1 DEF found, Documented, InitPoolDoc, Taken, process_init_pool_accounts, S, W, R, SW, Meta,
     writable_in, Misdocumented
<1>2. CASE ix = "InitTradingPool"
  BY <1>2 DEF found, Documented, InitPoolDoc, Taken, process_init_pool_accounts, S, W, R, SW, Meta,
     writable_in, Misdocumented
<1>3. CASE ix = "Deposit"
  BY <1>3 DEF found, Documented, Taken, S, W, R, SW, Meta,
     writable_in, Misdocumented
<1>4. CASE ix = "Withdraw"
  BY <1>4 DEF found, Documented, Taken, S, W, R, SW, Meta,
     writable_in, Misdocumented
<1>5. CASE ix = "FlushToInsurance"
  BY <1>5 DEF found, Documented, Taken, S, W, R, SW, Meta,
     writable_in, Misdocumented
<1>6. CASE ix = "UpdateConfig"
  BY <1>6 DEF found, Documented, ConfigDoc, Taken, process_config_accounts, S, W, R, SW, Meta,
     writable_in, Misdocumented
<1>7. CASE ix = "TransferAdmin"
  BY <1>7 DEF found, Documented, Taken, S, W, R, SW, Meta,
     writable_in, Misdocumented
<1>8. CASE ix = "AdminSetOracleAuthority"
  BY <1>8 DEF found, Documented, ForwardDoc, Taken, process_forward_accounts, S, W, R, SW, Meta,
     writable_in, Misdocumented
<1>9. CASE ix = "AdminSetRiskThreshold"
  BY <1>9 DEF found, Documented, ForwardDoc, Taken, process_forward_accounts, S, W, R, SW, Meta,
     writable_in, Misdocumented
<1>10. CASE ix = "AdminSetMaintenanceFee"
  BY <1>10 DEF found, Documented, ForwardDoc, Taken, process_forward_accounts, S, W, R, SW, Meta,
     writable_in, Misdocumented
<1>11. CASE ix = "AdminResolveMarket"
  BY <1>11 DEF found, Documented, ForwardDoc, Taken, S, W, R, SW, Meta,
     writable_in, Misdocumented
<1>12. CASE ix = "AdminWithdrawInsurance"
  BY <1>12 DEF found, Documented, Taken, S, W, R, SW, Meta,
     writable_in, Misdocumented
<1>13. CASE ix = "AdminSetInsurancePolicy"
  BY <1>13 DEF found, Documented, ForwardDoc, Taken, process_forward_accounts, S, W, R, SW, Meta,
     writable_in, Misdocumented
<1>14. CASE ix = "AccrueFees"
  BY <1>14 DEF found, Documented, Taken, S, W, R, SW, Meta,
     writable_in, Misdocumented
<1>15. CASE ix = "AdminSetHwmConfig"
  BY <1>15 DEF found, Documented, ConfigDoc, Taken, process_config_accounts, S, W, R, SW, Meta,
     writable_in, Misdocumented
<1> QED BY <1>1, <1>2, <1>3, <1>4, <1>5, <1>6, <1>7, <1>8,
           <1>9, <1>10, <1>11, <1>12, <1>13, <1>14, <1>15 DEF StakeInstruction

\* Nobody is asked for a signature that a PDA would have to give.
LEMMA TakenSigns ==
  ASSUME NEW ix \in DOMAIN StakeInstruction
  PROVE  signatures_verify(Taken[ix])
<1>1. CASE ix = "InitPool"
  BY <1>1 DEF signatures_verify, Pdas, Taken, process_init_pool_accounts, S, W, R, SW, Meta
<1>2. CASE ix = "InitTradingPool"
  BY <1>2 DEF signatures_verify, Pdas, Taken, process_init_pool_accounts, S, W, R, SW, Meta
<1>3. CASE ix = "Deposit"
  BY <1>3 DEF signatures_verify, Pdas, Taken, S, W, R, SW, Meta
<1>4. CASE ix = "Withdraw"
  BY <1>4 DEF signatures_verify, Pdas, Taken, S, W, R, SW, Meta
<1>5. CASE ix = "FlushToInsurance"
  BY <1>5 DEF signatures_verify, Pdas, Taken, S, W, R, SW, Meta
<1>6. CASE ix = "UpdateConfig"
  BY <1>6 DEF signatures_verify, Pdas, Taken, process_config_accounts, S, W, R, SW, Meta
<1>7. CASE ix = "TransferAdmin"
  BY <1>7 DEF signatures_verify, Pdas, Taken, S, W, R, SW, Meta
<1>8. CASE ix = "AdminSetOracleAuthority"
  BY <1>8 DEF signatures_verify, Pdas, Taken, process_forward_accounts, S, W, R, SW, Meta
<1>9. CASE ix = "AdminSetRiskThreshold"
  BY <1>9 DEF signatures_verify, Pdas, Taken, process_forward_accounts, S, W, R, SW, Meta
<1>10. CASE ix = "AdminSetMaintenanceFee"
  BY <1>10 DEF signatures_verify, Pdas, Taken, process_forward_accounts, S, W, R, SW, Meta
<1>11. CASE ix = "AdminResolveMarket"
  BY <1>11 DEF signatures_verify, Pdas, Taken, S, W, R, SW, Meta
<1>12. CASE ix = "AdminWithdrawInsurance"
  BY <1>12 DEF signatures_verify, Pdas, Taken, S, W, R, SW, Meta
<1>13. CASE ix = "AdminSetInsurancePolicy"
  BY <1>13 DEF signatures_verify, Pdas, Taken, process_forward_accounts, S, W, R, SW, Meta
<1>14. CASE ix = "AccrueFees"
  BY <1>14 DEF signatures_verify, Pdas, Taken, S, W, R, SW, Meta
<1>15. CASE ix = "AdminSetHwmConfig"
  BY <1>15 DEF signatures_verify, Pdas, Taken, process_config_accounts, S, W, R, SW, Meta
<1> QED BY <1>1, <1>2, <1>3, <1>4, <1>5, <1>6, <1>7, <1>8,
           <1>9, <1>10, <1>11, <1>12, <1>13, <1>14, <1>15 DEF StakeInstruction

\* A call names only accounts that the handler takes, and wants only the signatures
\* of those who sign or whom the program signs for.
WithinTaken(c, taken) ==
  \A m \in Range(c.metas) : \E i \in DOMAIN taken :
    taken[i].role = m.role /\ (m.signer => taken[i].signer \/ m.role \in c.seeds)

\* Where the generous list differs from the handler's.
LEMMA GenerousAccounts ==
  ASSUME NEW ix \in DOMAIN StakeInstruction
  PROVE  /\ DOMAIN Generous(ix) = DOMAIN Taken[ix]
         /\ \A i \in DOMAIN Taken[ix] :
              /\ Generous(ix)[i].role = Taken[ix][i].role
              /\ Generous(ix)[i].signer = Taken[ix][i].signer
              /\ Generous(ix)[i].writable
<1>1. CASE ix = "InitPool"
  BY <1>1 DEF Generous, Taken, process_init_pool_accounts, S, W, R, SW, Meta
<1>2. CASE ix = "InitTradingPool"
  BY <1>2 DEF Generous, Taken, process_init_pool_accounts, S, W, R, SW, Meta
<1>3. CASE ix = "Deposit"
  BY <1>3 DEF Generous, Taken, S, W, R, SW, Meta
<1>4. CASE ix = "Withdraw"
  BY <1>4 DEF Generous, Taken, S, W, R, SW, Meta
<1>5. CASE ix = "FlushToInsurance"
  BY <1>5 DEF Generous, Taken, S, W, R, SW, Meta
<1>6. CASE ix = "UpdateConfig"
  BY <1>6 DEF Generous, Taken, process_config_accounts, S, W, R, SW, Meta
<1>7. CASE ix = "TransferAdmin"
  BY <1>7 DEF Generous, Taken, S, W, R, SW, Meta
<1>8. CASE ix = "AdminSetOracleAuthority"
  <2>1. /\ DOMAIN Taken[ix] = 1 .. 5 /\ Taken[ix][1] = S("admin")
        /\ Taken[ix][2] = R("pool_pda") /\ Taken[ix][3] = R("slab")
        /\ Taken[ix][4] = R("percolator_program") /\ Taken[ix][5] = S("new_authority")
    BY <1>8 DEF Taken, process_forward_accounts
  <2>2. \A i \in 1 .. 5 : i = 1 \/ i = 2 \/ i = 3 \/ i = 4 \/ i = 5 OBVIOUS
  <2> QED BY <2>1, <2>2 DEF Generous, S, R, Meta
<1>9. CASE ix = "AdminSetRiskThreshold"
  BY <1>9 DEF Generous, Taken, process_forward_accounts, S, W, R, SW, Meta
<1>10. CASE ix = "AdminSetMaintenanceFee"
  BY <1>10 DEF Generous, Taken, process_forward_accounts, S, W, R, SW, Meta
<1>11. CASE ix = "AdminResolveMarket"
  BY <1>11 DEF Generous, Taken, S, W, R, SW, Meta
<1>12. CASE ix = "AdminWithdrawInsurance"
  BY <1>12 DEF Generous, Taken, S, W, R, SW, Meta
<1>13. CASE ix = "AdminSetInsurancePolicy"
  <2>1. /\ DOMAIN Taken[ix] = 1 .. 5 /\ Taken[ix][1] = S("admin")
        /\ Taken[ix][2] = R("pool_pda") /\ Taken[ix][3] = R("slab")
        /\ Taken[ix][4] = R("percolator_program") /\ Taken[ix][5] = R("vault_auth")
    BY <1>13 DEF Taken, process_forward_accounts
  <2>2. \A i \in 1 .. 5 : i = 1 \/ i = 2 \/ i = 3 \/ i = 4 \/ i = 5 OBVIOUS
  <2> QED BY <2>1, <2>2 DEF Generous, S, R, Meta
<1>14. CASE ix = "AccrueFees"
  BY <1>14 DEF Generous, Taken, S, W, R, SW, Meta
<1>15. CASE ix = "AdminSetHwmConfig"
  BY <1>15 DEF Generous, Taken, process_config_accounts, S, W, R, SW, Meta
<1> QED BY <1>1, <1>2, <1>3, <1>4, <1>5, <1>6, <1>7, <1>8,
           <1>9, <1>10, <1>11, <1>12, <1>13, <1>14, <1>15 DEF StakeInstruction

LEMMA GenerousSigns ==
  ASSUME NEW ix \in DOMAIN StakeInstruction
  PROVE  signatures_verify(Generous(ix))
BY GenerousAccounts, TakenSigns DEF signatures_verify

LEMMA GenerousGrants ==
  ASSUME NEW ix \in DOMAIN StakeInstruction, NEW c, WithinTaken(c, Taken[ix])
  PROVE  privileges_held(c, Generous(ix))
<1> SUFFICES ASSUME NEW m \in Range(c.metas)
             PROVE  \E i \in DOMAIN Generous(ix) :
                      /\ Generous(ix)[i].role = m.role
                      /\ m.signer => Generous(ix)[i].signer \/ m.role \in c.seeds
                      /\ m.writable => writable_in(Generous(ix), i)
  BY DEF privileges_held
<1>1. PICK i \in DOMAIN Taken[ix] :
        /\ Taken[ix][i].role = m.role
        /\ m.signer => Taken[ix][i].signer \/ m.role \in c.seeds
  BY DEF WithinTaken
<1> QED BY <1>1, GenerousAccounts DEF writable_in

\* What the accepted requests forward.
LEMMA Forwards ==
  ASSUME NEW r
  PROVE  /\ r.ix \in {"InitPool", "InitTradingPool", "TransferAdmin"} =>
              forward(r) = cpi_update_authority
         /\ r.ix = "FlushToInsurance" => forward(r) = cpi_top_up_insurance(r.fields[1])
         /\ r.ix = "AdminWithdrawInsurance" => forward(r) = cpi_withdraw_insurance(r.fields[1])
         /\ r.ix = "AdminResolveMarket" => forward(r) = cpi_resolve_market
         /\ r.ix = "AdminSetOracleAuthority" =>
              forward(r) = cpi_update_asset_authority("new_authority", zeros(2),
                                                      ASSET_AUTH_ORACLE, {"pool_pda"})
         /\ r.ix = "AdminSetInsurancePolicy" =>
              forward(r) = cpi_update_asset_authority("vault_auth", zeros(2),
                                                      ASSET_AUTH_INSURANCE, insurance_seeds)
         /\ r.ix \in {"Deposit", "Withdraw", "UpdateConfig", "AccrueFees", "AdminSetHwmConfig",
                      "AdminSetRiskThreshold", "AdminSetMaintenanceFee"} => forward(r) = NoCall
BY DEF forward

\* Every call stays within what its handler takes.
LEMMA CallsWithinTaken ==
  ASSUME NEW r \in Requests
  PROVE  WithinTaken(forward(r), Taken[r.ix])
<1>0. r.ix \in DOMAIN StakeInstruction BY RequestForm
<1>1. CASE r.ix = "InitPool"
  <2>1. forward(r) = cpi_update_authority
    BY <1>1, Forwards
  <2>2. WithinTaken(cpi_update_authority,
          Taken["InitPool"])
    BY DEF WithinTaken, Range, cpi_update_authority,
       Call, Taken, process_init_pool_accounts, S, W, R, SW, Meta
  <2> QED BY <1>1, <2>1, <2>2
<1>2. CASE r.ix = "InitTradingPool"
  <2>1. forward(r) = cpi_update_authority
    BY <1>2, Forwards
  <2>2. WithinTaken(cpi_update_authority,
          Taken["InitTradingPool"])
    BY DEF WithinTaken, Range, cpi_update_authority,
       Call, Taken, process_init_pool_accounts, S, W, R, SW, Meta
  <2> QED BY <1>2, <2>1, <2>2
<1>3. CASE r.ix = "FlushToInsurance"
  <2>1. forward(r) = cpi_top_up_insurance(r.fields[1])
    BY <1>3, Forwards
  <2>2. WithinTaken(cpi_top_up_insurance(r.fields[1]),
          Taken["FlushToInsurance"])
    BY DEF WithinTaken, Range, cpi_top_up_insurance,
       Call, Taken, S, W, R, SW, Meta
  <2> QED BY <1>3, <2>1, <2>2
<1>4. CASE r.ix = "TransferAdmin"
  <2>1. forward(r) = cpi_update_authority
    BY <1>4, Forwards
  <2>2. WithinTaken(cpi_update_authority,
          Taken["TransferAdmin"])
    BY DEF WithinTaken, Range, cpi_update_authority,
       Call, Taken, S, W, R, SW, Meta
  <2> QED BY <1>4, <2>1, <2>2
<1>5. CASE r.ix = "AdminSetOracleAuthority"
  <2>1. forward(r) = cpi_update_asset_authority("new_authority", zeros(2),
                                              ASSET_AUTH_ORACLE, {"pool_pda"})
    BY <1>5, Forwards
  <2>2. WithinTaken(cpi_update_asset_authority("new_authority", zeros(2),
                                              ASSET_AUTH_ORACLE, {"pool_pda"}),
          Taken["AdminSetOracleAuthority"])
    BY DEF WithinTaken, Range, cpi_update_asset_authority,
       Call, Taken, process_forward_accounts, S, W, R, SW, Meta
  <2> QED BY <1>5, <2>1, <2>2
<1>6. CASE r.ix = "AdminResolveMarket"
  <2>1. forward(r) = cpi_resolve_market
    BY <1>6, Forwards
  <2>2. WithinTaken(cpi_resolve_market,
          Taken["AdminResolveMarket"])
    BY DEF WithinTaken, Range, cpi_resolve_market,
       Call, Taken, S, W, R, SW, Meta
  <2> QED BY <1>6, <2>1, <2>2
<1>7. CASE r.ix = "AdminWithdrawInsurance"
  <2>1. forward(r) = cpi_withdraw_insurance(r.fields[1])
    BY <1>7, Forwards
  <2>2. WithinTaken(cpi_withdraw_insurance(r.fields[1]),
          Taken["AdminWithdrawInsurance"])
    BY DEF WithinTaken, Range, cpi_withdraw_insurance,
       Call, Taken, S, W, R, SW, Meta
  <2> QED BY <1>7, <2>1, <2>2
<1>8. CASE r.ix = "AdminSetInsurancePolicy"
  <2>1. forward(r) = cpi_update_asset_authority("vault_auth", zeros(2),
                                              ASSET_AUTH_INSURANCE, insurance_seeds)
    BY <1>8, Forwards
  <2>2. WithinTaken(cpi_update_asset_authority("vault_auth", zeros(2),
                                              ASSET_AUTH_INSURANCE, insurance_seeds),
          Taken["AdminSetInsurancePolicy"])
    BY DEF WithinTaken, Range, cpi_update_asset_authority, insurance_seeds,
       Call, Taken, process_forward_accounts, S, W, R, SW, Meta
  <2> QED BY <1>8, <2>1, <2>2
<1>9. CASE forward(r) = NoCall BY <1>9 DEF WithinTaken, Range, NoCall, Call
<1> QED BY <1>0, Forwards, <1>1, <1>2, <1>3, <1>4, <1>5, <1>6, <1>7, <1>8,
           <1>9 DEF StakeInstruction

\* The documented lists that are found grant the calls too.
LEMMA DocumentedGrants ==
  ASSUME NEW r \in Requests, r.ix \notin Misdocumented
  PROVE  privileges_held(forward(r), Documented[r.ix])
<1>0. r.ix \in DOMAIN StakeInstruction BY RequestForm
<1>1. CASE r.ix = "TransferAdmin"
  <2>1. forward(r) = cpi_update_authority
    BY <1>1, Forwards
  <2>2. privileges_held(cpi_update_authority,
          Documented["TransferAdmin"])
    BY DEF privileges_held, writable_in, Range, cpi_update_authority,
       Call, Documented, S, W, R, SW, Meta
  <2> QED BY <1>1, <2>1, <2>2
<1>2. CASE r.ix = "AdminSetOracleAuthority"
  <2>1. forward(r) = cpi_update_asset_authority("new_authority", zeros(2),
                                              ASSET_AUTH_ORACLE, {"pool_pda"})
    BY <1>2, Forwards
  <2>2. privileges_held(cpi_update_asset_authority("new_authority", zeros(2),
                                              ASSET_AUTH_ORACLE, {"pool_pda"}),
          Documented["AdminSetOracleAuthority"])
    BY DEF privileges_held, writable_in, Range, cpi_update_asset_authority,
       Call, Documented, ForwardDoc, S, W, R, SW, Meta
  <2> QED BY <1>2, <2>1, <2>2
<1>3. CASE forward(r) = NoCall BY <1>3 DEF privileges_held, writable_in, Range, NoCall, Call
<1> QED BY <1>0, Forwards, <1>1, <1>2, <1>3 DEF StakeInstruction, Misdocumented

-----------------------------------------------------------------------------
(* The stages *)

\* What has been established when the instruction is at a stage.
Routed ==
  /\ stage \in {"client", "sent", "rejected", "decoded", "handled", "done", "refused"}
  /\ stage # "client" =>
       /\ request \in Requests /\ list \in Lists(request.ix)
       /\ data \in Cuts(pack(request))
  /\ stage = "rejected" => ~signatures_verify(list)
  /\ stage \in {"decoded", "handled", "done", "refused"} =>
       signatures_verify(list) /\ decoded = unpack(data)
  /\ stage \in {"decoded", "handled", "done"} => decoded.ix # "Invalid"
  /\ stage \in {"handled", "done"} =>
       /\ found(list, Taken[decoded.ix]) /\ fields_accepted(decoded)
       /\ call = forward(decoded)
  /\ stage = "done" => order = wrapper_decode(call)
  /\ stage # "done" => order = NoOrder
  /\ stage = "refused" =>
       \/ decoded.ix = "Invalid"
       \/ ~found(list, Taken[decoded.ix])
       \/ ~fields_accepted(decoded)
       \/ ~privileges_held(forward(decoded), list)

LEMMA RoutedInit == Init => Routed
BY DEF Init, Routed

LEMMA RoutedStep == Routed /\ [Next]_vars => Routed'
<1> SUFFICES ASSUME Routed, [Next]_vars PROVE Routed' OBVIOUS
<1>1. CASE Send
  <2>1. PICK r \in Requests : \E l \in Lists(r.ix), d \in Cuts(pack(r)) :
          request' = r /\ list' = l /\ data' = d
    BY <1>1 DEF Send
  <2>2. request' \in Requests /\ list' \in Lists(request'.ix) /\ data' \in Cuts(pack(request'))
    BY <2>1
  <2>3. stage = "client" /\ stage' = "sent" /\ order' = order BY <1>1 DEF Send
  <2>4. order = NoOrder BY <2>3 DEF Routed
  <2> QED BY <2>2, <2>3, <2>4 DEF Routed
<1>2. CASE Unpack
  <2>1. /\ stage = "sent" /\ signatures_verify(list) /\ decoded' = unpack(data)
        /\ stage' = (IF decoded'.ix = "Invalid" THEN "refused" ELSE "decoded")
        /\ UNCHANGED <<request, list, data, call, order>>
    BY <1>2 DEF Unpack
  <2> QED BY <2>1 DEF Routed
<1>3. CASE Handle
  <2>1. stage = "decoded" /\ UNCHANGED <<request, list, data, decoded, order>>
    BY <1>3 DEF Handle
  <2>2. CASE found(list, Taken[decoded.ix]) /\ fields_accepted(decoded)
    <3>1. call' = forward(decoded) /\ stage' = "handled" BY <1>3, <2>2 DEF Handle
    <3> QED BY <2>1, <2>2, <3>1 DEF Routed
  <2>3. CASE ~(found(list, Taken[decoded.ix]) /\ fields_accepted(decoded))
    <3>1. stage' = "refused" BY <1>3, <2>3 DEF Handle
    <3> QED BY <2>1, <2>3, <3>1 DEF Routed
  <2> QED BY <2>2, <2>3
<1>4. CASE Invoke
  <2>1. stage = "handled" /\ UNCHANGED <<request, list, data, decoded, call>>
    BY <1>4 DEF Invoke
  <2>2. CASE privileges_held(call, list)
    <3>1. order' = wrapper_decode(call) /\ stage' = "done" BY <1>4, <2>2 DEF Invoke
    <3> QED BY <2>1, <3>1 DEF Routed
  <2>3. CASE ~privileges_held(call, list)
    <3>1. order' = NoOrder /\ stage' = "refused" BY <1>4, <2>3 DEF Invoke
    <3>2. ~privileges_held(forward(decoded), list) BY <2>1, <2>3 DEF Routed
    <3> QED BY <2>1, <3>1, <3>2 DEF Routed
  <2> QED BY <2>2, <2>3
<1>5. CASE Reject
  <2>1. /\ stage = "sent" /\ ~signatures_verify(list) /\ stage' = "rejected"
        /\ UNCHANGED <<request, list, data, decoded, call, order>>
    BY <1>5 DEF Reject
  <2> QED BY <2>1 DEF Routed
<1>6. CASE UNCHANGED vars BY <1>6 DEF Routed, vars
<1> QED BY <1>1, <1>2, <1>3, <1>4, <1>5, <1>6 DEF Next

LEMMA RoutedInvariant == Spec => []Routed
BY RoutedInit, RoutedStep, PTL DEF Spec

\* Behind unpack the instruction is the request or was refused.
LEMMA DecodedRequest ==
  ASSUME Routed, stage \notin {"client", "sent", "rejected"}
  PROVE  /\ request \in Requests /\ request.ix \in DOMAIN StakeInstruction
         /\ request.ix # "Invalid"
         /\ Whole => decoded = request
         /\ ~Whole => decoded.ix = "Invalid"
<1>1. request \in Requests /\ data \in Cuts(pack(request)) /\ decoded = unpack(data)
  BY DEF Routed
<1>2. request.ix \in DOMAIN StakeInstruction BY <1>1, RequestForm
<1>3. request.ix # "Invalid" BY <1>2 DEF StakeInstruction
<1>4. Whole => decoded = request BY <1>1, Decoding DEF Whole
<1>5. ~Whole => decoded = InvalidInstructionData BY <1>1, Decoding DEF Whole
<1>6. ~Whole => decoded.ix = "Invalid" BY <1>5 DEF InvalidInstructionData
<1> QED BY <1>1, <1>2, <1>3, <1>4, <1>6

-----------------------------------------------------------------------------
(* The theorems *)

\* The program acts on what the client meant or on nothing, for every value that a
\* u64 field can have and however many bytes follow (instruction.rs 209-336).
THEOREM RequestsDecoded == Spec => []DecodesTheRequest
<1>1. Routed => DecodesTheRequest
  <2> SUFFICES ASSUME Routed, stage \notin {"client", "sent", "rejected"}
               PROVE  /\ decoded.ix # "Invalid" <=> Whole
                      /\ decoded.ix # "Invalid" =>
                           decoded.ix = request.ix /\ Meaning(decoded) = Meaning(request)
    BY DEF DecodesTheRequest
  <2> QED BY DecodedRequest
<1> QED BY <1>1, RoutedInvariant, PTL

\* The wrapper gets the order that the client asked this program for, and no other
\* (cpi.rs 16-249, processor.rs 1085-1131, 1268-1274).
THEOREM WrapperAsked == Spec => []WrapperDoesWhatWasAsked
<1>1. Routed => WrapperDoesWhatWasAsked
  <2> SUFFICES ASSUME Routed, stage = "done" PROVE order = Intended(request)
    BY DEF WrapperDoesWhatWasAsked
  <2>1. /\ decoded.ix # "Invalid" /\ fields_accepted(decoded) /\ call = forward(decoded)
        /\ order = wrapper_decode(call)
    BY DEF Routed
  <2>2. request \in Requests /\ decoded = request BY <2>1, DecodedRequest
  <2> QED BY <2>1, <2>2, Asked
<1> QED BY <1>1, RoutedInvariant, PTL

\* The program's PDAs sign for the wrapper only in a transaction that the admin
\* signed (processor.rs 152-192, 283-285, 834-853).
THEOREM AdminSignsForPdas == Spec => []PdaSignsForTheAdmin
<1>1. Routed => PdaSignsForTheAdmin
  <2> SUFFICES ASSUME Routed, order # NoOrder
               PROVE  \E i \in DOMAIN list : list[i].role = "admin" /\ list[i].signer
    BY DEF PdaSignsForTheAdmin
  <2>1. stage = "done" BY DEF Routed
  <2>2. /\ decoded.ix # "Invalid" /\ found(list, Taken[decoded.ix])
        /\ call = forward(decoded) /\ order = wrapper_decode(call)
        /\ list \in Lists(request.ix)
    BY <2>1 DEF Routed
  <2>3. /\ request \in Requests /\ request.ix \in DOMAIN StakeInstruction /\ decoded = request
    BY <2>1, <2>2, DecodedRequest
  <2>4. forward(request) # NoCall BY <2>2, <2>3, NothingAsked
  <2>5. request.ix \in {"InitPool", "InitTradingPool", "TransferAdmin", "FlushToInsurance",
                        "AdminWithdrawInsurance", "AdminResolveMarket",
                        "AdminSetOracleAuthority", "AdminSetInsurancePolicy"}
    BY <2>3, <2>4, Forwards DEF StakeInstruction
  <2>6. /\ 1 \in DOMAIN Taken[request.ix] /\ Taken[request.ix][1].role = "admin"
        /\ Taken[request.ix][1].signer
    BY <2>5 DEF Taken, process_init_pool_accounts, process_forward_accounts, S, SW, Meta
  <2>7. list[1].role = "admin" /\ list[1].signer BY <2>2, <2>3, <2>6 DEF found
  <2>8. 1 \in DOMAIN list
    <3>1. 1 \in DOMAIN Documented[request.ix]
      BY <2>5 DEF Documented, InitPoolDoc, ForwardDoc
    <3>2. 1 \in DOMAIN Generous(request.ix) /\ 1 \in DOMAIN Unsigned(request.ix)
      BY <2>6 DEF Generous, Unsigned
    <3> QED BY <2>2, <3>1, <3>2 DEF Lists
  <2> QED BY <2>7, <2>8
<1> QED BY <1>1, RoutedInvariant, PTL

\* With every account in its place, writable, and signed by those who can, no
\* supported instruction is refused (cpi.rs 33-249).
THEOREM GenerousCallsRun == Spec => []CallsAreSigned
<1>1. Routed => CallsAreSigned
  <2> SUFFICES ASSUME Routed, stage \in {"refused", "rejected"},
                      list = Generous(request.ix), Whole
               PROVE  ~fields_accepted(request)
    BY DEF CallsAreSigned
  <2>1. request \in Requests /\ request.ix \in DOMAIN StakeInstruction
    BY RequestForm DEF Routed
  <2>2. stage = "refused" BY <2>1, GenerousSigns DEF Routed
  <2>3. request.ix # "Invalid" /\ decoded = request BY <2>2, DecodedRequest
  <2>4. found(list, Taken[decoded.ix]) BY <2>1, <2>3, GenerousFound
  <2>5. privileges_held(forward(decoded), list) BY <2>1, <2>3, CallsWithinTaken, GenerousGrants
  <2> QED BY <2>2, <2>3, <2>4, <2>5 DEF Routed
<1> QED BY <1>1, RoutedInvariant, PTL

\* The documented accounts are enough for every instruction but the six whose list
\* never works (instruction.rs 5-206).
THEOREM DocsSuffice == Spec => []DocumentedCallsRun
<1>1. Routed => DocumentedCallsRun
  <2> SUFFICES ASSUME Routed, list = Documented[request.ix]
               PROVE  /\ stage \in {"refused", "rejected"} /\ Whole =>
                           request.ix \in Misdocumented \/ ~fields_accepted(request)
                      /\ stage = "done" => request.ix \notin Misdocumented
    BY DEF DocumentedCallsRun
  <2>1. ASSUME stage \in {"refused", "rejected"}, Whole, request.ix \notin Misdocumented
        PROVE  ~fields_accepted(request)
    <3>1. request \in Requests /\ request.ix \in DOMAIN StakeInstruction
      BY <2>1, RequestForm DEF Routed
    <3>2. request.ix # "AdminSetInsurancePolicy" BY <2>1 DEF Misdocumented
    <3>3. stage = "refused" BY <2>1, <3>1, <3>2, DocumentedSigns DEF Routed
    <3>4. request.ix # "Invalid" /\ decoded = request BY <2>1, <3>3, DecodedRequest
    <3>5. found(list, Taken[decoded.ix]) BY <2>1, <3>1, <3>4, DocumentedFound
    <3>6. privileges_held(forward(decoded), list) BY <2>1, <3>1, <3>4, DocumentedGrants
    <3> QED BY <3>3, <3>4, <3>5, <3>6 DEF Routed
  <2>2. ASSUME stage = "done" PROVE request.ix \notin Misdocumented
    <3>1. /\ decoded.ix # "Invalid" /\ found(list, Taken[decoded.ix])
          /\ signatures_verify(list)
      BY <2>2 DEF Routed
    <3>2. request.ix \in DOMAIN StakeInstruction /\ decoded = request
      BY <2>2, <3>1, DecodedRequest
    <3>3. request.ix # "AdminSetInsurancePolicy" BY <3>1, <3>2, DocumentedSigns
    <3> QED BY <3>1, <3>2, <3>3, DocumentedFound
  <2> QED BY <2>1, <2>2
<1> QED BY <1>1, RoutedInvariant, PTL
=============================================================================
