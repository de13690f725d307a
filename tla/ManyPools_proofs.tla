--------------------------- MODULE ManyPools_proofs ---------------------------
(***************************************************************************)
(* Pools stay apart, for any number of markets and depositors and every    *)
(* width of the integers, whatever accounts an instruction is given.       *)
(***************************************************************************)
EXTENDS ManyPools, StakeMath_proofs

VaultOf(p) == <<"vault", p>>
MintOf(p)  == <<"lp_mint", p>>
RecordOf(p, u) == derive_deposit_pda(p, u)

PoolType ==
  [vault : VaultKeys, lp_mint : MintKeys, value : U64, total_lp_supply : U64,
   pre_supply_vault_offset : U64]
RecordType == [pool : PoolKeys, user : Depositors, lp_amount : U64]

\* InitPool recorded every pool's own vault and mint, and nothing rewires a pool.
Wired == \A p \in PoolKeys : pools[p].vault = VaultOf(p) /\ pools[p].lp_mint = MintOf(p)

\* A pool without LP tokens has no value on its books.
EmptyTogether == \A p \in PoolKeys : pools[p].total_lp_supply = 0 => pools[p].value = 0

\* The inductive invariant of the books.
Apart == TypeOK /\ Wired /\ EmptyTogether /\ EachPoolCovered

-----------------------------------------------------------------------------
(* Addresses *)

\* Vaults, mints and records of different pools or users are different.
LEMMA Distinct ==
  /\ \A p \in PoolKeys : VaultOf(p) \in VaultKeys /\ MintOf(p) \in MintKeys
  /\ \A p \in PoolKeys, u \in Depositors : RecordOf(p, u) \in DepositKeys
  /\ \A p, q \in PoolKeys : VaultOf(p) = VaultOf(q) => p = q
  /\ \A p, q \in PoolKeys : MintOf(p) = MintOf(q) => p = q
  /\ \A p, q \in PoolKeys, u, w \in Depositors : RecordOf(p, u) = RecordOf(q, w) => p = q /\ u = w
<1>1. \A p : VaultOf(p)[2] = p /\ MintOf(p)[2] = p BY DEF VaultOf, MintOf
<1>2. \A p, u : RecordOf(p, u)[2] = p /\ RecordOf(p, u)[3] = u
  BY DEF RecordOf, derive_deposit_pda
<1>3. \A p \in PoolKeys : VaultOf(p) \in VaultKeys /\ MintOf(p) \in MintKeys
  BY DEF VaultOf, MintOf, VaultKeys, MintKeys
<1>4. \A p \in PoolKeys, u \in Depositors : RecordOf(p, u) \in DepositKeys
  BY DEF RecordOf, DepositKeys
<1> QED BY <1>1, <1>2, <1>3, <1>4

\* The types, account by account.
LEMMA Types ==
  ASSUME TypeOK
  PROVE  /\ pools \in [PoolKeys -> PoolType]
         /\ records \in [DepositKeys -> RecordType]
         /\ vaults \in [VaultKeys -> U64]
         /\ held \in [Depositors \X MintKeys -> U64]
         /\ \A p \in PoolKeys :
              /\ pools[p] \in PoolType
              /\ pools[p].value \in U64 /\ pools[p].total_lp_supply \in U64
              /\ pools[p].pre_supply_vault_offset \in U64
              /\ pools[p].value \in Nat /\ pools[p].total_lp_supply \in Nat
              /\ pools[p].pre_supply_vault_offset \in Nat
              /\ vaults[VaultOf(p)] \in U64 /\ vaults[VaultOf(p)] \in Nat
<1>1. /\ pools \in [PoolKeys -> PoolType]
      /\ records \in [DepositKeys -> RecordType]
      /\ vaults \in [VaultKeys -> U64]
      /\ held \in [Depositors \X MintKeys -> U64]
  BY DEF TypeOK, PoolType, RecordType
<1>2. \A p \in PoolKeys :
        /\ pools[p] \in PoolType
        /\ pools[p].value \in U64 /\ pools[p].total_lp_supply \in U64
        /\ pools[p].pre_supply_vault_offset \in U64
        /\ vaults[VaultOf(p)] \in U64
  BY <1>1, Distinct DEF PoolType
<1>3. \A x \in U64 : x \in Nat BY MaxU64Assumption DEF U64
<1> QED BY <1>1, <1>2, <1>3

-----------------------------------------------------------------------------
(* What the instructions do *)

\* Pool p has been given the value, supply and offset; its keys are as they were.
Booked(p, value, supply, offset) ==
  /\ pools'[p].vault = pools[p].vault /\ pools'[p].lp_mint = pools[p].lp_mint
  /\ pools'[p].value = value
  /\ pools'[p].total_lp_supply = supply
  /\ pools'[p].pre_supply_vault_offset = offset

\* Nothing of another pool or another depositor has changed.
Confined(p, u) ==
  /\ \A q \in PoolKeys \ {p} : pools'[q] = pools[q] /\ vaults'[VaultOf(q)] = vaults[VaultOf(q)]
  /\ \A e \in DepositKeys \ {RecordOf(p, u)} : records'[e] = records[e]
  /\ \A h \in Depositors \X MintKeys : h # <<u, MintOf(p)>> => held'[h] = held[h]

\* A deposit reaches the vault, the mint and the record of the pool it names
\* (processor.rs 406-620).
LEMMA DepositEffect ==
  ASSUME TypeOK, Wired,
         NEW user \in Depositors, NEW amount \in Amounts \ {0}, NEW pool \in PoolKeys,
         NEW vault, NEW lp_mint, NEW vault_auth, NEW deposit,
         Deposit(user, amount, pool, vault, lp_mint, vault_auth, deposit)
  PROVE  \E lp \in U64 \ {0} :
           LET p == pools[pool]
               h == <<user, MintOf(pool)>>
               d == RecordOf(pool, user)
           IN  /\ TypeOK' /\ Confined(pool, user)
               /\ amount \in Nat \ {0}
               /\ Booked(pool, p.value + amount, p.total_lp_supply + lp,
                         p.pre_supply_vault_offset)
               /\ vaults'[VaultOf(pool)] = vaults[VaultOf(pool)] + amount
               /\ held'[h] = held[h] + lp
               /\ records'[d].lp_amount = records[d].lp_amount + lp
<1>. DEFINE p == pools[pool]
            lp == calc_lp_for_deposit(p.total_lp_supply, p.value, amount)
            h == <<user, MintOf(pool)>>
            d == RecordOf(pool, user)
<1>1. vault = VaultOf(pool) /\ lp_mint = MintOf(pool) /\ deposit = d
  BY DEF Deposit, Wired, deposit_vault_matches, deposit_mint_matches, deposit_pda_matches, RecordOf
<1>2. amount \in U64 /\ amount \in Nat \ {0} BY ManyAssumption, MaxU64Assumption DEF U64
<1>3. pools \in [PoolKeys -> PoolType] /\ p \in PoolType
      /\ p.total_lp_supply \in U64 /\ p.value \in U64
  BY Types
<1>4. lp \in OptU64 BY <1>2, <1>3, LpType
<1>5. lp \in U64 \ {0} BY <1>4, MaxU64Assumption DEF Deposit, OptU64
<1>6. /\ vaults[vault] + amount \in U64
      /\ vaults' = [vaults EXCEPT ![vault] = @ + amount]
      /\ held[<<user, lp_mint>>] + lp \in U64
      /\ held' = [held EXCEPT ![<<user, lp_mint>>] = @ + lp]
      /\ p.value + amount \in U64 /\ p.total_lp_supply + lp \in U64
      /\ pools' = [pools EXCEPT ![pool].value = @ + amount, ![pool].total_lp_supply = @ + lp]
      /\ records[deposit].lp_amount + lp \in U64
      /\ records' = [records EXCEPT ![deposit] =
                       [pool |-> pool, user |-> user, lp_amount |-> @.lp_amount + lp]]
  BY DEF Deposit
<1>. HIDE DEF lp, p, h, d
<1>7. /\ pools' \in [PoolKeys -> PoolType]
      /\ Booked(pool, p.value + amount, p.total_lp_supply + lp, p.pre_supply_vault_offset)
      /\ \A q \in PoolKeys \ {pool} : pools'[q] = pools[q]
  <2>. DEFINE new == [p EXCEPT !.value = @ + amount, !.total_lp_supply = @ + lp]
  <2>1. pools' = [pools EXCEPT ![pool] = new] BY <1>3, <1>6 DEF p
  <2>2. new \in PoolType BY <1>3, <1>6 DEF PoolType
  <2>3. /\ new.vault = p.vault /\ new.lp_mint = p.lp_mint
        /\ new.value = p.value + amount /\ new.total_lp_supply = p.total_lp_supply + lp
        /\ new.pre_supply_vault_offset = p.pre_supply_vault_offset
    BY <1>3 DEF PoolType
  <2>. HIDE DEF new
  <2>4. pools'[pool] = new /\ \A q \in PoolKeys \ {pool} : pools'[q] = pools[q]
    BY <1>3, <2>1
  <2> QED BY <1>3, <2>1, <2>2, <2>3, <2>4 DEF Booked, p
<1>8. /\ vaults' \in [VaultKeys -> U64]
      /\ vaults'[VaultOf(pool)] = vaults[VaultOf(pool)] + amount
      /\ \A q \in PoolKeys \ {pool} : vaults'[VaultOf(q)] = vaults[VaultOf(q)]
  BY <1>1, <1>6, Types, Distinct
<1>9. /\ held' \in [Depositors \X MintKeys -> U64]
      /\ held'[h] = held[h] + lp
      /\ \A g \in Depositors \X MintKeys : g # h => held'[g] = held[g]
  <2>1. h \in Depositors \X MintKeys /\ h = <<user, lp_mint>> BY <1>1, Distinct DEF h
  <2>2. held \in [Depositors \X MintKeys -> U64] BY Types
  <2>3. held' = [held EXCEPT ![h] = @ + lp] /\ held[h] + lp \in U64 BY <1>6, <2>1
  <2> QED BY <2>1, <2>2, <2>3
<1>10. /\ records' \in [DepositKeys -> RecordType]
       /\ records'[d].lp_amount = records[d].lp_amount + lp
       /\ \A e \in DepositKeys \ {d} : records'[e] = records[e]
  <2>1. d \in DepositKeys /\ records \in [DepositKeys -> RecordType] BY Types, Distinct DEF d
  <2>. DEFINE new == [pool |-> pool, user |-> user, lp_amount |-> records[d].lp_amount + lp]
  <2>2. new \in RecordType /\ new.lp_amount = records[d].lp_amount + lp
    BY <1>1, <1>6 DEF RecordType
  <2>3. records' = [records EXCEPT ![d] = new] BY <1>1, <1>6
  <2>. HIDE DEF new
  <2> QED BY <2>1, <2>2, <2>3
<1>11. TypeOK' BY <1>7, <1>8, <1>9, <1>10 DEF TypeOK, PoolType, RecordType
<1>12. Confined(pool, user) BY <1>7, <1>8, <1>9, <1>10 DEF Confined, h, d
<1> QED BY <1>2, <1>5, <1>7, <1>8, <1>9, <1>10, <1>11, <1>12 DEF p, h, d

\* So does a withdrawal; it pays what the burned LP tokens are worth, the last of
\* them the whole value (processor.rs 626-808).
LEMMA WithdrawEffect ==
  ASSUME TypeOK, Wired,
         NEW user \in Depositors, NEW lp \in U64 \ {0}, NEW pool \in PoolKeys,
         NEW vault, NEW lp_mint, NEW vault_auth, NEW deposit,
         Withdraw(user, lp, pool, vault, lp_mint, vault_auth, deposit)
  PROVE  \E paid \in Nat :
           LET p == pools[pool]
               h == <<user, MintOf(pool)>>
               d == RecordOf(pool, user)
           IN  /\ TypeOK' /\ Confined(pool, user)
               /\ paid <= p.value /\ lp <= p.total_lp_supply
               /\ lp = p.total_lp_supply => paid = p.value
               /\ Booked(pool, p.value - paid, p.total_lp_supply - lp,
                         p.pre_supply_vault_offset)
               /\ vaults'[VaultOf(pool)] = vaults[VaultOf(pool)] - paid
               /\ held'[h] = held[h] - lp
               /\ records'[d].lp_amount = records[d].lp_amount - lp
<1>. DEFINE p == pools[pool]
            paid == calc_collateral_for_withdraw(p.total_lp_supply, p.value, lp)
            h == <<user, MintOf(pool)>>
            d == RecordOf(pool, user)
<1>1. vault = VaultOf(pool) /\ lp_mint = MintOf(pool) /\ deposit = d
  BY DEF Withdraw, Wired, withdraw_vault_matches, withdraw_mint_matches,
         withdraw_record_matches, RecordOf
<1>2. lp \in U64 /\ lp \in Nat BY MaxU64Assumption DEF U64
<1>3. pools \in [PoolKeys -> PoolType] /\ p \in PoolType
      /\ p.total_lp_supply \in U64 /\ p.value \in U64
      /\ p.total_lp_supply \in Nat /\ p.value \in Nat
  BY Types
<1>4. paid # None /\ lp <= p.total_lp_supply BY DEF Withdraw
<1>5. paid \in 0 .. p.value /\ (lp = p.total_lp_supply => paid = p.value)
  BY <1>2, <1>3, <1>4, CollateralIsShare
<1>6. /\ vaults[vault] >= paid
      /\ vaults' = [vaults EXCEPT ![vault] = @ - paid]
      /\ held[<<user, lp_mint>>] >= lp
      /\ held' = [held EXCEPT ![<<user, lp_mint>>] = @ - lp]
      /\ pools' = [pools EXCEPT ![pool].value = @ - paid, ![pool].total_lp_supply = @ - lp]
      /\ lp <= records[deposit].lp_amount
      /\ records' = [records EXCEPT ![deposit].lp_amount = @ - lp]
  BY DEF Withdraw
<1>. HIDE DEF paid, p, h, d
<1>7. paid \in Nat /\ paid <= p.value BY <1>3, <1>5
<1>8. /\ pools' \in [PoolKeys -> PoolType]
      /\ Booked(pool, p.value - paid, p.total_lp_supply - lp, p.pre_supply_vault_offset)
      /\ \A q \in PoolKeys \ {pool} : pools'[q] = pools[q]
  <2>. DEFINE new == [p EXCEPT !.value = @ - paid, !.total_lp_supply = @ - lp]
  <2>1. pools' = [pools EXCEPT ![pool] = new] BY <1>3, <1>6 DEF p
  <2>2. p.value - paid \in U64 /\ p.total_lp_supply - lp \in U64
    BY <1>2, <1>3, <1>4, <1>7, MaxU64Assumption DEF U64
  <2>3. new \in PoolType BY <1>3, <2>2 DEF PoolType
  <2>4. /\ new.vault = p.vault /\ new.lp_mint = p.lp_mint
        /\ new.value = p.value - paid /\ new.total_lp_supply = p.total_lp_supply - lp
        /\ new.pre_supply_vault_offset = p.pre_supply_vault_offset
    BY <1>3 DEF PoolType
  <2>. HIDE DEF new
  <2>5. pools'[pool] = new /\ \A q \in PoolKeys \ {pool} : pools'[q] = pools[q]
    BY <1>3, <2>1
  <2> QED BY <1>3, <2>1, <2>3, <2>4, <2>5 DEF Booked, p
<1>9. /\ vaults' \in [VaultKeys -> U64]
      /\ vaults'[VaultOf(pool)] = vaults[VaultOf(pool)] - paid
      /\ \A q \in PoolKeys \ {pool} : vaults'[VaultOf(q)] = vaults[VaultOf(q)]
  <2>1. vaults \in [VaultKeys -> U64] /\ VaultOf(pool) \in VaultKeys BY Types, Distinct
  <2>2. vaults[VaultOf(pool)] \in U64 BY <2>1
  <2>3. vaults[VaultOf(pool)] - paid \in U64
    BY <1>1, <1>6, <1>7, <2>2, MaxU64Assumption DEF U64
  <2>4. vaults' = [vaults EXCEPT ![VaultOf(pool)] = @ - paid] BY <1>1, <1>6
  <2> QED BY <2>1, <2>3, <2>4, Distinct
<1>10. /\ held' \in [Depositors \X MintKeys -> U64]
       /\ held'[h] = held[h] - lp
       /\ \A g \in Depositors \X MintKeys : g # h => held'[g] = held[g]
  <2>1. h \in Depositors \X MintKeys /\ h = <<user, lp_mint>> BY <1>1, Distinct DEF h
  <2>2. held \in [Depositors \X MintKeys -> U64] BY Types
  <2>3. held' = [held EXCEPT ![h] = @ - lp] /\ held[h] >= lp BY <1>6, <2>1
  <2>4. held[h] \in U64 BY <2>1, <2>2
  <2>5. held[h] - lp \in U64 BY <1>2, <2>3, <2>4, MaxU64Assumption DEF U64
  <2> QED BY <2>1, <2>2, <2>3, <2>5
<1>11. /\ records' \in [DepositKeys -> RecordType]
       /\ records'[d].lp_amount = records[d].lp_amount - lp
       /\ \A e \in DepositKeys \ {d} : records'[e] = records[e]
  <2>1. d \in DepositKeys /\ records \in [DepositKeys -> RecordType] BY Types, Distinct DEF d
  <2>2. records[d] \in RecordType BY <2>1
  <2>3. records[d].lp_amount \in U64 BY <2>2 DEF RecordType
  <2>. DEFINE new == [records[d] EXCEPT !.lp_amount = @ - lp]
  <2>4. records' = [records EXCEPT ![d] = new] BY <1>1, <1>6, <2>1
  <2>5. records[d].lp_amount - lp \in U64
    BY <1>1, <1>2, <1>6, <2>3, MaxU64Assumption DEF U64
  <2>6. new \in RecordType /\ new.lp_amount = records[d].lp_amount - lp
    BY <2>2, <2>5 DEF RecordType
  <2>. HIDE DEF new
  <2> QED BY <2>1, <2>4, <2>6
<1>12. TypeOK' BY <1>8, <1>9, <1>10, <1>11 DEF TypeOK, PoolType, RecordType
<1>13. Confined(pool, user) BY <1>8, <1>9, <1>10, <1>11 DEF Confined, h, d
<1> QED BY <1>4, <1>5, <1>7, <1>8, <1>9, <1>10, <1>11, <1>12, <1>13 DEF p, h, d

\* AccrueFees books what its own vault holds beyond the expected balance, or moves
\* the offset of an empty pool to that balance; in both cases the books end no
\* higher than the vault (processor.rs 1329-1392).
LEMMA AccrueEffect ==
  ASSUME Apart, NEW pool \in PoolKeys, NEW vault, AccrueFees(pool, vault)
  PROVE  /\ TypeOK' /\ UNCHANGED <<records, vaults, held>>
         /\ \A q \in PoolKeys \ {pool} : pools'[q] = pools[q]
         /\ \E value, offset \in U64 :
              /\ Booked(pool, value, pools[pool].total_lp_supply, offset)
              /\ value + offset <= vaults[VaultOf(pool)]
              /\ pools[pool].total_lp_supply = 0 => value = 0
<1>. DEFINE p == pools[pool]
            v == vaults[VaultOf(pool)]
            empty == p.total_lp_supply = 0
            value == IF empty THEN p.value
                     ELSE p.value + saturating_sub(v, p.value + p.pre_supply_vault_offset)
            offset == IF empty THEN v ELSE p.pre_supply_vault_offset
            new == [p EXCEPT !.value = value, !.pre_supply_vault_offset = offset]
<1>1. /\ pools \in [PoolKeys -> PoolType] /\ p \in PoolType
      /\ p.value \in Nat /\ p.pre_supply_vault_offset \in Nat /\ v \in Nat
      /\ p.value \in U64 /\ p.pre_supply_vault_offset \in U64 /\ v \in U64
  BY Types DEF Apart
<1>2. vault = VaultOf(pool) BY DEF AccrueFees, accrue_vault_matches, Apart, Wired
<1>3. v >= p.value + p.pre_supply_vault_offset BY DEF Apart, EachPoolCovered, VaultOf
<1>4. empty => p.value = 0 BY DEF Apart, EmptyTogether
<1>5. /\ value \in U64 /\ offset \in U64 /\ value + offset <= v
      /\ empty => value = 0
  <2>1. CASE empty BY <2>1, <1>1, <1>4
  <2>2. CASE ~empty
    <3>1. saturating_sub(v, p.value + p.pre_supply_vault_offset)
            = v - (p.value + p.pre_supply_vault_offset)
      BY <1>1, <1>3 DEF saturating_sub
    <3>2. value = v - p.pre_supply_vault_offset /\ offset = p.pre_supply_vault_offset
      BY <2>2, <3>1, <1>1
    <3> QED BY <2>2, <3>2, <1>1, <1>3, MaxU64Assumption DEF U64
  <2> QED BY <2>1, <2>2
<1>6. pools' = [pools EXCEPT ![pool] = new]
  <2>1. CASE empty
    <3>1. pools' = [pools EXCEPT ![pool].pre_supply_vault_offset = v]
      BY <2>1, <1>2 DEF AccrueFees
    <3>2. new = [p EXCEPT !.pre_supply_vault_offset = v]
      BY <2>1, <1>1 DEF PoolType
    <3> QED BY <3>1, <3>2, <1>1
  <2>2. CASE ~empty
    <3>1. pools' = [pools EXCEPT ![pool].value =
                      @ + saturating_sub(v, p.value + p.pre_supply_vault_offset)]
      BY <2>2, <1>2 DEF AccrueFees
    <3>2. new = [p EXCEPT !.value = value]
      BY <2>2, <1>1 DEF PoolType
    <3> QED BY <2>2, <3>1, <3>2, <1>1
  <2> QED BY <2>1, <2>2
<1>7. UNCHANGED <<records, vaults, held>> BY DEF AccrueFees
<1>. HIDE DEF value, offset
<1>8. /\ new \in PoolType
      /\ new.vault = p.vault /\ new.lp_mint = p.lp_mint
      /\ new.value = value /\ new.pre_supply_vault_offset = offset
      /\ new.total_lp_supply = p.total_lp_supply
  BY <1>1, <1>5 DEF PoolType
<1>. HIDE DEF new
<1>9. /\ pools' \in [PoolKeys -> PoolType] /\ pools'[pool] = new
      /\ \A q \in PoolKeys \ {pool} : pools'[q] = pools[q]
  BY <1>1, <1>6, <1>8
<1>10. TypeOK' BY <1>7, <1>9 DEF TypeOK, PoolType, Apart
<1>11. Booked(pool, value, p.total_lp_supply, offset) BY <1>8, <1>9 DEF Booked
<1> QED BY <1>5, <1>7, <1>9, <1>10, <1>11

\* A plain transfer adds to one vault.
LEMMA TransferEffect ==
  ASSUME TypeOK, NEW vault \in VaultKeys, NEW amount \in Amounts \ {0},
         DirectTransfer(vault, amount)
  PROVE  /\ TypeOK' /\ UNCHANGED <<pools, records, held>>
         /\ \A p \in PoolKeys : vaults'[VaultOf(p)] >= vaults[VaultOf(p)]
<1>1. amount \in Nat BY ManyAssumption, MaxU64Assumption DEF U64
<1>2. vaults \in [VaultKeys -> U64] BY Types
<1>3. /\ vaults[vault] + amount \in U64
      /\ vaults' = [vaults EXCEPT ![vault] = @ + amount]
      /\ UNCHANGED <<pools, records, held>>
  BY DEF DirectTransfer
<1>4. vaults' \in [VaultKeys -> U64] BY <1>2, <1>3
<1>5. \A w \in VaultKeys : vaults'[w] >= vaults[w]
  <2> TAKE w \in VaultKeys
  <2>1. vaults[w] \in Nat BY <1>2, MaxU64Assumption DEF U64
  <2>2. vaults'[w] = IF w = vault THEN vaults[w] + amount ELSE vaults[w] BY <1>2, <1>3
  <2> QED BY <1>1, <2>1, <2>2
<1> QED BY <1>3, <1>4, <1>5, Distinct DEF TypeOK

\* Tokens of pool p that its depositors hold.
HoldingsIn(p) == [u \in Depositors |-> held[<<u, MintOf(p)>>]]

\* They are a ledger of finitely many holders.
LEMMA HoldingLedger ==
  ASSUME NEW p \in PoolKeys
  PROVE  /\ TypeOK => /\ HoldingsIn(p) \in [Depositors -> U64]
                      /\ total_of(HoldingsIn(p)) \in Nat
         /\ TypeOK' => /\ HoldingsIn(p)' \in [Depositors -> U64]
                       /\ total_of(HoldingsIn(p)') \in Nat
<1>1. \A u \in Depositors : <<u, MintOf(p)>> \in Depositors \X MintKeys BY Distinct
<1>2. ASSUME TypeOK PROVE HoldingsIn(p) \in [Depositors -> U64]
  BY <1>1, <1>2 DEF TypeOK, HoldingsIn
<1>3. ASSUME TypeOK' PROVE HoldingsIn(p)' \in [Depositors -> U64]
  BY <1>1, <1>3 DEF TypeOK, HoldingsIn, MintOf
<1> QED BY <1>2, <1>3, UnitsFinite, ManyAssumption

\* The total a pool's depositors hold follows one depositor's holding.
LEMMA HoldingsFollow ==
  ASSUME NEW p \in PoolKeys, NEW u \in Depositors, TypeOK, TypeOK',
         \A w \in Depositors \ {u} : held'[<<w, MintOf(p)>>] = held[<<w, MintOf(p)>>]
  PROVE  total_of(HoldingsIn(p)') = total_of(HoldingsIn(p))
           + (held'[<<u, MintOf(p)>>] - held[<<u, MintOf(p)>>])
<1>. DEFINE f == HoldingsIn(p)
            g == HoldingsIn(p)'
<1>1. f \in [Depositors -> U64] /\ g \in [Depositors -> U64] BY HoldingLedger
<1>2. \A w \in Depositors : f[w] = held[<<w, MintOf(p)>>] /\ g[w] = held'[<<w, MintOf(p)>>]
  BY DEF HoldingsIn, MintOf
<1>3. \A w \in Depositors \ {u} : g[w] = f[w] BY <1>2
<1>. HIDE DEF f, g
<1>4. total_of(g) = total_of(f) + (g[u] - f[u])
  BY <1>1, <1>3, TotalFollows, ManyAssumption
<1> QED BY <1>2, <1>4 DEF f, g

\* Moving LP tokens beside the program keeps the number of each pool's tokens and
\* burning lowers it; books, records and vaults see neither.
LEMMA LpMoveEffect ==
  ASSUME TypeOK, NEW user \in Depositors, NEW lp_mint \in MintKeys, NEW lp \in LpMoves \ {0},
         (\E to \in Depositors : TransferLp(user, to, lp_mint, lp))
           \/ BurnLp(user, lp_mint, lp)
  PROVE  /\ TypeOK' /\ UNCHANGED <<pools, records, vaults>>
         /\ \A p \in PoolKeys : total_of(HoldingsIn(p)') <= total_of(HoldingsIn(p))
<1>. DEFINE from == <<user, lp_mint>>
<1>1. UNCHANGED <<pools, records, vaults>> BY DEF TransferLp, BurnLp
<1>2. lp \in U64 /\ lp \in Nat BY ManyAssumption, MaxU64Assumption DEF U64
<1>3. held \in [Depositors \X MintKeys -> U64] BY DEF TypeOK
<1>4. from \in Depositors \X MintKeys /\ held[from] \in Nat
  BY <1>3, MaxU64Assumption DEF U64
<1>5. PICK mine \in PoolKeys : lp_mint = MintOf(mine) BY DEF MintKeys, MintOf
<1>6. \A p \in PoolKeys \ {mine} : MintOf(p) # lp_mint BY <1>5, Distinct
<1>7. \A p \in PoolKeys, w \in Depositors : <<w, MintOf(p)>> \in Depositors \X MintKeys
  BY Distinct
<1>8. ASSUME TypeOK', NEW p \in PoolKeys \ {mine},
             \A h \in Depositors \X MintKeys : h[2] # lp_mint => held'[h] = held[h]
      PROVE  total_of(HoldingsIn(p)') <= total_of(HoldingsIn(p))
  <2>1. \A w \in Depositors : held'[<<w, MintOf(p)>>] = held[<<w, MintOf(p)>>]
    <3> TAKE w \in Depositors
    <3>1. <<w, MintOf(p)>>[2] # lp_mint BY <1>6
    <3> QED BY <1>7, <1>8, <3>1
  <2>2. HoldingsIn(p)' = HoldingsIn(p) BY <2>1 DEF HoldingsIn, MintOf
  <2>3. total_of(HoldingsIn(p)) \in Nat BY HoldingLedger
  <2> QED BY <2>2, <2>3
<1>9. CASE BurnLp(user, lp_mint, lp)
  <2>1. held[from] >= lp /\ held' = [held EXCEPT ![from] = @ - lp]
    BY <1>9 DEF BurnLp
  <2>2. held[from] - lp \in U64
    <3>1. held[from] \in U64 BY <1>3, <1>4
    <3> QED BY <1>2, <2>1, <3>1, MaxU64Assumption DEF U64
  <2>. HIDE DEF from
  <2>3. held' \in [Depositors \X MintKeys -> U64] BY <1>3, <1>4, <2>1, <2>2
  <2>4. /\ held'[from] = held[from] - lp
        /\ \A h \in Depositors \X MintKeys : h # from => held'[h] = held[h]
    BY <1>3, <1>4, <2>1
  <2>5. TypeOK' BY <1>1, <2>3 DEF TypeOK
  <2>6. total_of(HoldingsIn(mine)') <= total_of(HoldingsIn(mine))
    <3>1. \A w \in Depositors \ {user} :
            held'[<<w, MintOf(mine)>>] = held[<<w, MintOf(mine)>>]
      <4> TAKE w \in Depositors \ {user}
      <4>1. <<w, MintOf(mine)>> # from BY DEF from
      <4> QED BY <1>7, <2>4, <4>1
    <3>2. total_of(HoldingsIn(mine)') = total_of(HoldingsIn(mine)) + (held'[from] - held[from])
      BY <1>5, <2>5, <3>1, HoldingsFollow DEF from
    <3>3. total_of(HoldingsIn(mine)) \in Nat BY HoldingLedger
    <3> QED BY <1>2, <1>4, <2>4, <3>2, <3>3
  <2>7. \A h \in Depositors \X MintKeys : h[2] # lp_mint => held'[h] = held[h]
    BY <2>4 DEF from
  <2> QED BY <1>1, <1>8, <2>5, <2>6, <2>7
<1>10. ASSUME NEW to \in Depositors, TransferLp(user, to, lp_mint, lp)
       PROVE  /\ TypeOK'
              /\ \A p \in PoolKeys : total_of(HoldingsIn(p)') <= total_of(HoldingsIn(p))
  <2>. DEFINE into == <<to, lp_mint>>
              f == HoldingsIn(mine)
              between == [f EXCEPT ![user] = @ - lp]
              g == HoldingsIn(mine)'
  <2>1. /\ to # user /\ held[from] >= lp /\ held[into] + lp \in U64
        /\ held' = [held EXCEPT ![from] = @ - lp, ![into] = @ + lp]
    BY <1>10 DEF TransferLp
  <2>2. held[from] - lp \in U64
    <3>1. held[from] \in U64 BY <1>3, <1>4
    <3> QED BY <1>2, <2>1, <3>1, MaxU64Assumption DEF U64
  <2>3. from # into /\ into \in Depositors \X MintKeys BY <2>1
  <2>5. f[user] = held[from] /\ f[to] = held[into] BY <1>5 DEF HoldingsIn
  <2>6. g[user] = held'[from] /\ g[to] = held'[into]
        /\ \A w \in Depositors : g[w] = held'[<<w, lp_mint>>] /\ f[w] = held[<<w, lp_mint>>]
    BY <1>5 DEF HoldingsIn, MintOf
  <2>7. \A w \in Depositors \ {user, to} :
          <<w, lp_mint>> \in Depositors \X MintKeys /\ <<w, lp_mint>> # from /\ <<w, lp_mint>> # into
    OBVIOUS
  <2>8. \A h \in Depositors \X MintKeys : h[2] # lp_mint => h # from /\ h # into OBVIOUS
  <2>. HIDE DEF from, into
  <2>9. held' \in [Depositors \X MintKeys -> U64] BY <1>3, <1>4, <2>1, <2>2, <2>3
  <2>10. /\ held'[from] = held[from] - lp /\ held'[into] = held[into] + lp
         /\ \A h \in Depositors \X MintKeys : h # from /\ h # into => held'[h] = held[h]
    BY <1>3, <1>4, <2>1, <2>3
  <2>11. TypeOK' BY <1>1, <2>9 DEF TypeOK
  <2>12. f \in [Depositors -> U64] /\ g \in [Depositors -> U64] /\ total_of(f) \in Nat
    BY <2>11, HoldingLedger
  <2>13. \A w \in Depositors \ {user, to} : g[w] = f[w] BY <2>6, <2>7, <2>10
  <2>. HIDE DEF f, g
  <2>14. /\ between \in [Depositors -> U64]
         /\ between[user] = f[user] - lp /\ between[to] = f[to]
         /\ \A w \in Depositors \ {user} : between[w] = f[w]
    BY <2>1, <2>2, <2>5, <2>12
  <2>15. g[user] = f[user] - lp /\ g[to] = f[to] + lp BY <2>5, <2>6, <2>10
  <2>. HIDE DEF between
  <2>16. \A w \in Depositors \ {to} : g[w] = between[w] BY <2>13, <2>14, <2>15
  <2>17. total_of(between) = total_of(f) + (between[user] - f[user])
    BY <2>12, <2>14, TotalFollows, ManyAssumption
  <2>18. total_of(g) = total_of(between) + (g[to] - between[to])
    BY <2>12, <2>14, <2>16, TotalFollows, ManyAssumption
  <2>19. f[user] \in Nat /\ f[to] \in Nat BY <2>12, MaxU64Assumption DEF U64
  <2>20. total_of(g) <= total_of(f)
    BY <1>2, <2>12, <2>14, <2>15, <2>17, <2>18, <2>19
  <2>21. total_of(HoldingsIn(mine)') <= total_of(HoldingsIn(mine)) BY <2>20 DEF f, g
  <2>22. \A h \in Depositors \X MintKeys : h[2] # lp_mint => held'[h] = held[h]
    BY <2>8, <2>10
  <2> QED BY <1>8, <2>11, <2>21, <2>22
<1> QED BY <1>1, <1>9, <1>10

-----------------------------------------------------------------------------
(* The invariant *)

LEMMA ApartInit == Init => Apart
<1> SUFFICES ASSUME Init PROVE Apart OBVIOUS
<1>1. 0 \in U64 BY MaxU64Assumption DEF U64
<1>2. \A p \in PoolKeys :
        /\ pools[p] = [vault |-> VaultOf(p), lp_mint |-> MintOf(p), value |-> 0,
                       total_lp_supply |-> 0, pre_supply_vault_offset |-> 0]
        /\ pools[p].vault = VaultOf(p) /\ pools[p].lp_mint = MintOf(p)
        /\ pools[p].value = 0 /\ pools[p].total_lp_supply = 0
        /\ pools[p].pre_supply_vault_offset = 0
  BY DEF Init, VaultOf, MintOf
<1>3. \A p \in PoolKeys : pools[p] \in PoolType
  <2> TAKE p \in PoolKeys
  <2>. DEFINE v == VaultOf(p)
              m == MintOf(p)
  <2>1. v \in VaultKeys /\ m \in MintKeys BY Distinct
  <2>2. pools[p] = [vault |-> v, lp_mint |-> m, value |-> 0, total_lp_supply |-> 0,
                    pre_supply_vault_offset |-> 0]
    BY <1>2
  <2>. HIDE DEF v, m
  <2> QED BY <1>1, <2>1, <2>2 DEF PoolType
<1>4. pools \in [PoolKeys -> PoolType]
  <2>1. pools = [p \in PoolKeys |-> pools[p]] BY DEF Init
  <2> QED BY <2>1, <1>3
<1>5. \A d \in DepositKeys : d[2] \in PoolKeys /\ d[3] \in Depositors
  BY DEF DepositKeys, derive_deposit_pda
<1>6. records \in [DepositKeys -> RecordType]
      /\ \A d \in DepositKeys : records[d].lp_amount = 0
  BY <1>1, <1>5 DEF Init, RecordType
<1>7. vaults \in [VaultKeys -> U64] /\ \A p \in PoolKeys : vaults[VaultOf(p)] = 0
  BY <1>1, Distinct DEF Init
<1>8. held \in [Depositors \X MintKeys -> U64]
      /\ \A h \in Depositors \X MintKeys : held[h] = 0
  BY <1>1 DEF Init
<1>9. TypeOK BY <1>4, <1>6, <1>7, <1>8 DEF TypeOK, PoolType, RecordType
<1>10. Wired /\ EmptyTogether BY <1>2 DEF Wired, EmptyTogether
<1>11. EachPoolCovered
  <2> SUFFICES ASSUME NEW q \in PoolKeys
               PROVE  vaults[VaultOf(q)] >= pools[q].value + pools[q].pre_supply_vault_offset
    BY DEF EachPoolCovered, VaultOf
  <2>1. vaults[VaultOf(q)] = 0 /\ pools[q].value = 0 /\ pools[q].pre_supply_vault_offset = 0
    BY <1>2, <1>7
  <2> QED BY <2>1
<1> QED BY <1>9, <1>10, <1>11 DEF Apart

\* A step confined to one pool and one depositor keeps the invariant when the
\* parts of it about that pool and that depositor are kept.
LEMMA ConfinedKeepsApart ==
  ASSUME Apart, TypeOK', NEW p \in PoolKeys, NEW u \in Depositors, Confined(p, u),
         NEW value \in Nat, NEW supply \in Nat, NEW offset \in Nat,
         Booked(p, value, supply, offset),
         supply = 0 => value = 0,
         vaults'[VaultOf(p)] >= value + offset
  PROVE  Apart'
<1>1. Wired'
  BY DEF Apart, Wired, Confined, Booked
<1>2. EmptyTogether'
  BY DEF Apart, EmptyTogether, Confined, Booked
<1>3. EachPoolCovered'
  <2> SUFFICES ASSUME NEW q \in PoolKeys
               PROVE  vaults'[VaultOf(q)] >= pools'[q].value + pools'[q].pre_supply_vault_offset
    BY DEF EachPoolCovered, VaultOf
  <2>1. CASE q = p BY <2>1 DEF Booked
  <2>2. CASE q # p
    <3>1. vaults[VaultOf(q)] >= pools[q].value + pools[q].pre_supply_vault_offset
      BY DEF Apart, EachPoolCovered, VaultOf
    <3> QED BY <2>2, <3>1 DEF Confined
  <2> QED BY <2>1, <2>2
<1> QED BY <1>1, <1>2, <1>3 DEF Apart

LEMMA ApartStep == Apart /\ [Next]_vars => Apart'
<1> SUFFICES ASSUME Apart, [Next]_vars PROVE Apart' OBVIOUS
<1>0. TypeOK /\ Wired BY DEF Apart
<1>1. ASSUME NEW user \in Depositors, NEW pool \in PoolKeys, NEW vault \in VaultKeys,
             NEW lp_mint \in MintKeys, NEW vault_auth \in AuthKeys,
             NEW deposit \in DepositKeys, NEW amount \in Amounts \ {0},
             Deposit(user, amount, pool, vault, lp_mint, vault_auth, deposit)
      PROVE  Apart'
  <2>. DEFINE p == pools[pool]
              h == <<user, MintOf(pool)>>
              d == RecordOf(pool, user)
  <2>1. PICK lp \in U64 \ {0} :
          /\ TypeOK' /\ Confined(pool, user)
          /\ amount \in Nat \ {0}
          /\ Booked(pool, p.value + amount, p.total_lp_supply + lp, p.pre_supply_vault_offset)
          /\ vaults'[VaultOf(pool)] = vaults[VaultOf(pool)] + amount
          /\ held'[h] = held[h] + lp
          /\ records'[d].lp_amount = records[d].lp_amount + lp
    BY <1>0, <1>1, DepositEffect
  <2>2. /\ p.value \in Nat /\ p.total_lp_supply \in Nat /\ p.pre_supply_vault_offset \in Nat
        /\ vaults[VaultOf(pool)] \in Nat
    BY <1>0, Types
  <2>3. lp \in Nat \ {0} BY MaxU64Assumption DEF U64
  <2>4. vaults[VaultOf(pool)] >= p.value + p.pre_supply_vault_offset
    BY DEF Apart, EachPoolCovered, VaultOf
  <2>. DEFINE value == p.value + amount
              supply == p.total_lp_supply + lp
              offset == p.pre_supply_vault_offset
  <2>6. /\ value \in Nat /\ supply \in Nat /\ offset \in Nat /\ supply # 0
        /\ vaults'[VaultOf(pool)] >= value + offset
    BY <2>1, <2>2, <2>3, <2>4
  <2>7. Booked(pool, value, supply, offset) BY <2>1
  <2>. HIDE DEF value, supply, offset
  <2> QED BY <2>1, <2>6, <2>7, ConfinedKeepsApart
<1>2. ASSUME NEW user \in Depositors, NEW pool \in PoolKeys, NEW vault \in VaultKeys,
             NEW lp_mint \in MintKeys, NEW vault_auth \in AuthKeys,
             NEW deposit \in DepositKeys, NEW lp \in U64 \ {0},
             Withdraw(user, lp, pool, vault, lp_mint, vault_auth, deposit)
      PROVE  Apart'
  <2>. DEFINE p == pools[pool]
              h == <<user, MintOf(pool)>>
              d == RecordOf(pool, user)
  <2>1. PICK paid \in Nat :
          /\ TypeOK' /\ Confined(pool, user)
          /\ paid <= p.value /\ lp <= p.total_lp_supply
          /\ lp = p.total_lp_supply => paid = p.value
          /\ Booked(pool, p.value - paid, p.total_lp_supply - lp, p.pre_supply_vault_offset)
          /\ vaults'[VaultOf(pool)] = vaults[VaultOf(pool)] - paid
          /\ held'[h] = held[h] - lp
          /\ records'[d].lp_amount = records[d].lp_amount - lp
    BY <1>0, <1>2, WithdrawEffect
  <2>2. /\ p.value \in Nat /\ p.total_lp_supply \in Nat /\ p.pre_supply_vault_offset \in Nat
        /\ vaults[VaultOf(pool)] \in Nat
    BY <1>0, Types
  <2>3. lp \in Nat \ {0} BY MaxU64Assumption DEF U64
  <2>4. vaults[VaultOf(pool)] >= p.value + p.pre_supply_vault_offset
    BY DEF Apart, EachPoolCovered, VaultOf
  <2>. DEFINE value == p.value - paid
              supply == p.total_lp_supply - lp
              offset == p.pre_supply_vault_offset
  <2>6. /\ value \in Nat /\ supply \in Nat /\ offset \in Nat
        /\ supply = 0 => value = 0
        /\ vaults'[VaultOf(pool)] >= value + offset
    BY <2>1, <2>2, <2>3, <2>4
  <2>7. Booked(pool, value, supply, offset) BY <2>1
  <2>. HIDE DEF value, supply, offset
  <2> QED BY <2>1, <2>6, <2>7, ConfinedKeepsApart
<1>3. ASSUME NEW pool \in PoolKeys, NEW vault \in VaultKeys, AccrueFees(pool, vault)
      PROVE  Apart'
  <2>1. /\ TypeOK' /\ UNCHANGED <<records, vaults, held>>
        /\ \A q \in PoolKeys \ {pool} : pools'[q] = pools[q]
    BY <1>3, AccrueEffect
  <2>2. PICK value \in U64, offset \in U64 :
          /\ Booked(pool, value, pools[pool].total_lp_supply, offset)
          /\ value + offset <= vaults[VaultOf(pool)]
          /\ pools[pool].total_lp_supply = 0 => value = 0
    BY <1>3, AccrueEffect
  <2>3. value \in Nat /\ offset \in Nat /\ vaults[VaultOf(pool)] \in Nat
    BY <1>0, Types, MaxU64Assumption DEF U64
  <2>4. Wired' /\ EmptyTogether'
    BY <2>1, <2>2 DEF Apart, Wired, EmptyTogether, Booked
  <2>5. EachPoolCovered'
    <3> SUFFICES ASSUME NEW q \in PoolKeys
                 PROVE  vaults'[VaultOf(q)] >= pools'[q].value + pools'[q].pre_supply_vault_offset
      BY DEF EachPoolCovered, VaultOf
    <3>1. CASE q = pool BY <3>1, <2>1, <2>2, <2>3 DEF Booked
    <3>2. CASE q # pool
      <4>1. vaults[VaultOf(q)] >= pools[q].value + pools[q].pre_supply_vault_offset
        BY DEF Apart, EachPoolCovered, VaultOf
      <4> QED BY <3>2, <4>1, <2>1
    <3> QED BY <3>1, <3>2
  <2> QED BY <2>1, <2>4, <2>5 DEF Apart
<1>4. ASSUME NEW vault \in VaultKeys, NEW amount \in Amounts \ {0},
             DirectTransfer(vault, amount)
      PROVE  Apart'
  <2>1. /\ TypeOK' /\ UNCHANGED <<pools, records, held>>
        /\ \A p \in PoolKeys : vaults'[VaultOf(p)] >= vaults[VaultOf(p)]
    BY <1>0, <1>4, TransferEffect
  <2>2. Wired' /\ EmptyTogether' BY <2>1 DEF Apart, Wired, EmptyTogether
  <2>3. EachPoolCovered'
    <3> SUFFICES ASSUME NEW q \in PoolKeys
                 PROVE  vaults'[VaultOf(q)] >= pools'[q].value + pools'[q].pre_supply_vault_offset
      BY DEF EachPoolCovered, VaultOf
    <3>1. vaults[VaultOf(q)] >= pools[q].value + pools[q].pre_supply_vault_offset
      BY DEF Apart, EachPoolCovered, VaultOf
    <3>2. vaults[VaultOf(q)] \in Nat /\ pools[q].value \in Nat
          /\ pools[q].pre_supply_vault_offset \in Nat
      BY <1>0, Types
    <3>3. vaults' \in [VaultKeys -> U64] BY <2>1 DEF TypeOK
    <3>4. vaults'[VaultOf(q)] \in Nat BY <3>3, Distinct, MaxU64Assumption DEF U64
    <3>5. vaults'[VaultOf(q)] >= vaults[VaultOf(q)] /\ pools' = pools BY <2>1
    <3> QED BY <3>1, <3>2, <3>4, <3>5
  <2> QED BY <2>1, <2>2, <2>3 DEF Apart
<1>5. ASSUME NEW user \in Depositors, NEW lp_mint \in MintKeys, NEW lp \in LpMoves \ {0},
             (\E to \in Depositors : TransferLp(user, to, lp_mint, lp))
               \/ BurnLp(user, lp_mint, lp)
      PROVE  Apart'
  <2>1. TypeOK' /\ UNCHANGED <<pools, records, vaults>> BY <1>0, <1>5, LpMoveEffect
  <2> QED BY <2>1 DEF Apart, Wired, EmptyTogether, EachPoolCovered, VaultOf, MintOf
<1>6. CASE UNCHANGED vars
  BY <1>6 DEF Apart, vars, TypeOK, Wired, EmptyTogether, EachPoolCovered, VaultOf, MintOf
<1> QED BY <1>1, <1>2, <1>3, <1>4, <1>5, <1>6 DEF Next

-----------------------------------------------------------------------------
(* Supplies *)

\* What the depositors' records of pool p say.
SharesIn(p) == [u \in Depositors |-> records[RecordOf(p, u)].lp_amount]

\* Every pool's supply is the sum of its own depositors' records.
SuppliesRecorded == \A p \in PoolKeys : pools[p].total_lp_supply = total_of(SharesIn(p))

\* No more tokens of a pool's mint are out than its supply.
HoldingsBounded == \A p \in PoolKeys : total_of(HoldingsIn(p)) <= pools[p].total_lp_supply

\* The records of a pool are a ledger of finitely many holders.
LEMMA ShareLedger ==
  ASSUME NEW p \in PoolKeys
  PROVE  /\ TypeOK => /\ SharesIn(p) \in [Depositors -> U64]
                      /\ total_of(SharesIn(p)) \in Nat
                      /\ \A u \in Depositors : SharesIn(p)[u] \in Nat
         /\ TypeOK' => SharesIn(p)' \in [Depositors -> U64]
<1>1. ASSUME TypeOK PROVE SharesIn(p) \in [Depositors -> U64]
  <2>1. \A u \in Depositors : records[RecordOf(p, u)] \in RecordType
    BY <1>1, Distinct DEF TypeOK, RecordType
  <2> QED BY <2>1 DEF SharesIn, RecordType
<1>2. ASSUME TypeOK' PROVE SharesIn(p)' \in [Depositors -> U64]
  <2>1. \A u \in Depositors : records'[RecordOf(p, u)] \in RecordType
    BY <1>2, Distinct DEF TypeOK, RecordType
  <2>2. SharesIn(p)' = [u \in Depositors |-> records'[RecordOf(p, u)].lp_amount]
    BY DEF SharesIn, RecordOf, derive_deposit_pda
  <2> QED BY <2>1, <2>2 DEF RecordType
<1>3. \A x \in U64 : x \in Nat BY MaxU64Assumption DEF U64
<1> QED BY <1>1, <1>2, <1>3, UnitsFinite, ManyAssumption

\* A step confined to one pool and one depositor keeps every supply recorded if it
\* changes that pool's supply by as much as that record.
LEMMA ConfinedKeepsSupplies ==
  ASSUME Apart, SuppliesRecorded, TypeOK', NEW p \in PoolKeys, NEW u \in Depositors,
         Confined(p, u), NEW change \in Int,
         pools'[p].total_lp_supply = pools[p].total_lp_supply + change,
         records'[RecordOf(p, u)].lp_amount = records[RecordOf(p, u)].lp_amount + change
  PROVE  SuppliesRecorded'
<1>1. TypeOK BY DEF Apart
<1>2. \A q : SharesIn(q)' = [w \in Depositors |-> records'[RecordOf(q, w)].lp_amount]
  BY DEF SharesIn, RecordOf, derive_deposit_pda
<1>3. SUFFICES ASSUME NEW q \in PoolKeys
               PROVE  pools'[q].total_lp_supply = total_of(SharesIn(q)')
  <2>1. \A r : total_of(SharesIn(r))' = total_of(SharesIn(r)')
    BY DEF total_of, units_of
  <2> QED BY <2>1 DEF SuppliesRecorded, total_of, units_of
<1>4. CASE q # p
  <2>1. \A w \in Depositors : records'[RecordOf(q, w)] = records[RecordOf(q, w)]
    BY <1>4, Distinct DEF Confined
  <2>2. SharesIn(q)' = SharesIn(q) BY <1>2, <2>1 DEF SharesIn
  <2> QED BY <1>4, <2>2 DEF SuppliesRecorded, Confined
<1>5. CASE q = p
  <2>. DEFINE f == SharesIn(p)
              g == SharesIn(p)'
  <2>1. /\ f \in [Depositors -> U64] /\ g \in [Depositors -> U64]
        /\ total_of(f) \in Nat /\ f[u] \in Nat
    BY <1>1, ShareLedger
  <2>2. \A w \in Depositors \ {u} : records'[RecordOf(p, w)] = records[RecordOf(p, w)]
    BY Distinct DEF Confined
  <2>3. \A w \in Depositors \ {u} : g[w] = f[w] BY <1>2, <2>2 DEF SharesIn
  <2>4. g[u] = f[u] + change BY <1>2 DEF SharesIn
  <2>5. pools[p].total_lp_supply = total_of(f) BY DEF SuppliesRecorded
  <2>. HIDE DEF f, g
  <2>6. total_of(g) = total_of(f) + (g[u] - f[u])
    BY <2>1, <2>3, TotalFollows, ManyAssumption
  <2>7. pools'[p].total_lp_supply = total_of(g) BY <2>1, <2>4, <2>5, <2>6
  <2> QED BY <1>5, <2>7 DEF g
<1> QED BY <1>4, <1>5

\* It keeps the tokens within the supplies if it changes the depositor's holding by
\* as much too.
LEMMA ConfinedKeepsHoldings ==
  ASSUME Apart, HoldingsBounded, TypeOK', NEW p \in PoolKeys, NEW u \in Depositors,
         Confined(p, u), NEW change \in Int,
         pools'[p].total_lp_supply = pools[p].total_lp_supply + change,
         held'[<<u, MintOf(p)>>] = held[<<u, MintOf(p)>>] + change
  PROVE  HoldingsBounded'
<1>1. TypeOK BY DEF Apart
<1>2. SUFFICES ASSUME NEW q \in PoolKeys
               PROVE  total_of(HoldingsIn(q)') <= pools'[q].total_lp_supply
  <2>1. \A r : total_of(HoldingsIn(r))' = total_of(HoldingsIn(r)')
    BY DEF total_of, units_of
  <2> QED BY <2>1 DEF HoldingsBounded, total_of, units_of
<1>3. total_of(HoldingsIn(q)) <= pools[q].total_lp_supply BY DEF HoldingsBounded
<1>4. \A w \in Depositors : <<w, MintOf(q)>> \in Depositors \X MintKeys BY Distinct
<1>5. CASE q # p
  <2>1. \A w \in Depositors : held'[<<w, MintOf(q)>>] = held[<<w, MintOf(q)>>]
    <3> TAKE w \in Depositors
    <3>1. <<w, MintOf(q)>> # <<u, MintOf(p)>> BY <1>5, Distinct
    <3> QED BY <1>4, <3>1 DEF Confined
  <2>2. HoldingsIn(q)' = HoldingsIn(q) BY <2>1 DEF HoldingsIn, MintOf
  <2> QED BY <1>3, <1>5, <2>2 DEF Confined
<1>6. CASE q = p
  <2>1. \A w \in Depositors \ {u} : held'[<<w, MintOf(p)>>] = held[<<w, MintOf(p)>>]
    <3> TAKE w \in Depositors \ {u}
    <3>1. <<w, MintOf(p)>> # <<u, MintOf(p)>> OBVIOUS
    <3> QED BY <1>4, <1>6, <3>1 DEF Confined
  <2>2. total_of(HoldingsIn(p)') = total_of(HoldingsIn(p))
          + (held'[<<u, MintOf(p)>>] - held[<<u, MintOf(p)>>])
    BY <1>1, <2>1, HoldingsFollow
  <2>3. total_of(HoldingsIn(p)) \in Nat /\ pools[p].total_lp_supply \in Nat
    BY <1>1, HoldingLedger, Types
  <2>4. held[<<u, MintOf(p)>>] \in Nat BY <1>1, <1>4, <1>6, Types, MaxU64Assumption DEF U64
  <2> QED BY <1>3, <1>6, <2>2, <2>3, <2>4
<1> QED BY <1>5, <1>6

\* What the records say and what is held stay with the supplies in every step.
Shares == SuppliesRecorded /\ HoldingsBounded

LEMMA SharesStep == Apart /\ Shares /\ [Next]_vars => Shares'
<1> SUFFICES ASSUME Apart, Shares, [Next]_vars PROVE Shares' OBVIOUS
<1>0. TypeOK /\ Wired BY DEF Apart
<1>1. ASSUME NEW user \in Depositors, NEW pool \in PoolKeys, NEW vault \in VaultKeys,
             NEW lp_mint \in MintKeys, NEW vault_auth \in AuthKeys,
             NEW deposit \in DepositKeys, NEW amount \in Amounts \ {0},
             Deposit(user, amount, pool, vault, lp_mint, vault_auth, deposit)
      PROVE  Shares'
  <2>1. PICK lp \in U64 \ {0} :
          LET p == pools[pool]
              h == <<user, MintOf(pool)>>
              d == RecordOf(pool, user)
          IN  /\ TypeOK' /\ Confined(pool, user)
              /\ amount \in Nat \ {0}
              /\ Booked(pool, p.value + amount, p.total_lp_supply + lp,
                        p.pre_supply_vault_offset)
              /\ vaults'[VaultOf(pool)] = vaults[VaultOf(pool)] + amount
              /\ held'[h] = held[h] + lp
              /\ records'[d].lp_amount = records[d].lp_amount + lp
    BY <1>0, <1>1, DepositEffect
  <2>2. pools'[pool].total_lp_supply = pools[pool].total_lp_supply + lp BY <2>1 DEF Booked
  <2>3. lp \in Int BY MaxU64Assumption DEF U64
  <2> QED BY <2>1, <2>2, <2>3, ConfinedKeepsSupplies, ConfinedKeepsHoldings DEF Shares
<1>2. ASSUME NEW user \in Depositors, NEW pool \in PoolKeys, NEW vault \in VaultKeys,
             NEW lp_mint \in MintKeys, NEW vault_auth \in AuthKeys,
             NEW deposit \in DepositKeys, NEW lp \in U64 \ {0},
             Withdraw(user, lp, pool, vault, lp_mint, vault_auth, deposit)
      PROVE  Shares'
  <2>. DEFINE r == records[RecordOf(pool, user)].lp_amount
              h == held[<<user, MintOf(pool)>>]
  <2>1. /\ TypeOK' /\ Confined(pool, user)
        /\ pools'[pool].total_lp_supply = pools[pool].total_lp_supply - lp
        /\ records'[RecordOf(pool, user)].lp_amount = r - lp
        /\ held'[<<user, MintOf(pool)>>] = h - lp
    BY <1>0, <1>2, WithdrawEffect DEF Booked
  <2>2. lp \in Nat /\ pools[pool].total_lp_supply \in Nat /\ r \in Nat /\ h \in Nat
    <3>1. \A u \in Depositors : SharesIn(pool)[u] \in Nat BY <1>0, ShareLedger
    <3>2. r = SharesIn(pool)[user] BY DEF SharesIn
    <3>3. pools[pool].total_lp_supply \in Nat BY <1>0, Types
    <3>4. lp \in Nat BY MaxU64Assumption DEF U64
    <3>5. <<user, MintOf(pool)>> \in Depositors \X MintKeys BY Distinct
    <3>6. h \in Nat BY <1>0, <3>5, Types, MaxU64Assumption DEF U64
    <3> QED BY <3>1, <3>2, <3>3, <3>4, <3>6
  <2>3. -lp \in Int BY <2>2
  <2>. DEFINE change == -lp
  <2>4. /\ pools'[pool].total_lp_supply = pools[pool].total_lp_supply + change
        /\ records'[RecordOf(pool, user)].lp_amount = r + change
        /\ held'[<<user, MintOf(pool)>>] = h + change
    BY <2>1, <2>2
  <2>. HIDE DEF change
  <2> QED BY <2>1, <2>3, <2>4, ConfinedKeepsSupplies, ConfinedKeepsHoldings DEF change, Shares
<1>3. ASSUME UNCHANGED records,
             \A p \in PoolKeys : pools'[p].total_lp_supply = pools[p].total_lp_supply
      PROVE  SuppliesRecorded'
  <2>1. \A p : total_of(SharesIn(p))' = total_of(SharesIn(p))
    BY <1>3 DEF SharesIn, total_of, units_of, RecordOf, derive_deposit_pda
  <2> QED BY <1>3, <2>1 DEF Shares, SuppliesRecorded
<1>4. ASSUME UNCHANGED held,
             \A p \in PoolKeys : pools'[p].total_lp_supply = pools[p].total_lp_supply
      PROVE  HoldingsBounded'
  <2>1. \A p : total_of(HoldingsIn(p))' = total_of(HoldingsIn(p))
    BY <1>4 DEF HoldingsIn, total_of, units_of, MintOf
  <2> QED BY <1>4, <2>1 DEF Shares, HoldingsBounded
<1>5. ASSUME NEW pool \in PoolKeys, NEW vault \in VaultKeys, AccrueFees(pool, vault)
      PROVE  Shares'
  BY <1>3, <1>4, <1>5, AccrueEffect DEF Booked, Shares
<1>6. ASSUME NEW user \in Depositors, NEW lp_mint \in MintKeys, NEW lp \in LpMoves \ {0},
             (\E to \in Depositors : TransferLp(user, to, lp_mint, lp))
               \/ BurnLp(user, lp_mint, lp)
      PROVE  Shares'
  <2>1. /\ TypeOK' /\ UNCHANGED <<pools, records>>
        /\ \A p \in PoolKeys : total_of(HoldingsIn(p)') <= total_of(HoldingsIn(p))
    BY <1>0, <1>6, LpMoveEffect
  <2>2. SuppliesRecorded' BY <1>3, <2>1
  <2>3. HoldingsBounded'
    <3>1. \A p : total_of(HoldingsIn(p))' = total_of(HoldingsIn(p)') BY DEF total_of, units_of
    <3>2. SUFFICES ASSUME NEW p \in PoolKeys
                   PROVE  total_of(HoldingsIn(p)') <= pools'[p].total_lp_supply
      BY <3>1 DEF HoldingsBounded, total_of, units_of
    <3>3. /\ total_of(HoldingsIn(p)) \in Nat /\ total_of(HoldingsIn(p)') \in Nat
          /\ pools[p].total_lp_supply \in Nat
      BY <1>0, <2>1, HoldingLedger, Types
    <3>4. total_of(HoldingsIn(p)) <= pools[p].total_lp_supply BY DEF Shares, HoldingsBounded
    <3> QED BY <2>1, <3>3, <3>4
  <2> QED BY <2>2, <2>3 DEF Shares
<1>7. CASE UNCHANGED <<pools, records, held>> BY <1>3, <1>4, <1>7 DEF Shares
<1> QED BY <1>1, <1>2, <1>5, <1>6, <1>7 DEF Next, DirectTransfer, vars

-----------------------------------------------------------------------------
(* The theorems *)

\* Every pool's own vault covers the value and the offset on its own books, for
\* any number of pools, whatever accounts the instructions are given
\* (processor.rs 439-444, 661-666, 1329-1332).
THEOREM PoolsCovered == Spec => []EachPoolCovered
<1>1. Apart => EachPoolCovered BY DEF Apart
<1> QED BY <1>1, ApartInit, ApartStep, PTL DEF Spec

\* Every pool's supply is the sum of its own depositors' records and no more LP
\* tokens of its mint are out, for any number of pools and depositors, whatever mint
\* or record was passed and wherever holders moved their tokens (processor.rs
\* 439-441, 548-558, 661-663, 677-704).
THEOREM SharesKeptApart == Spec => []SharesStayApart
<1>1. Init => Shares
  <2> SUFFICES ASSUME Init, NEW p \in PoolKeys
               PROVE  /\ pools[p].total_lp_supply = total_of(SharesIn(p))
                      /\ total_of(HoldingsIn(p)) <= pools[p].total_lp_supply
    BY DEF Shares, SuppliesRecorded, HoldingsBounded
  <2>1. TypeOK BY ApartInit DEF Apart
  <2>2. \A u \in Depositors : SharesIn(p)[u] = 0 BY Distinct DEF SharesIn, Init
  <2>3. SharesIn(p) \in [Depositors -> U64] BY <2>1, ShareLedger
  <2>4. total_of(SharesIn(p)) = 0 BY <2>2, <2>3, TotalOfNothing
  <2>5. \A u \in Depositors : HoldingsIn(p)[u] = 0 BY Distinct DEF HoldingsIn, Init
  <2>6. HoldingsIn(p) \in [Depositors -> U64] BY <2>1, HoldingLedger
  <2>7. total_of(HoldingsIn(p)) = 0 BY <2>5, <2>6, TotalOfNothing
  <2>8. pools[p].total_lp_supply = 0 BY DEF Init
  <2> QED BY <2>4, <2>7, <2>8
<1>2. Shares => SharesStayApart
  BY DEF Shares, SuppliesRecorded, HoldingsBounded, SharesIn, HoldingsIn, RecordOf, MintOf,
         SharesStayApart
<1> QED BY <1>1, <1>2, ApartInit, ApartStep, SharesStep, PTL DEF Spec

\* A step that changes the books or a record of one pool changes no other pool's
\* books, vault, records or tokens, and one that changes a record no other
\* depositor's (processor.rs 406-808, 1298-1379).
THEOREM PoolsKeptApart == Spec => OnePoolAtATime
<1>. DEFINE Alone(p) ==
              \A q \in PoolKeys \ {p} :
                /\ pools'[q] = pools[q] /\ vaults'[<<"vault", q>>] = vaults[<<"vault", q>>]
                /\ \A w \in Depositors : record_kept(q, w)
            Touched(p, u) ==
              LET d == derive_deposit_pda(p, u)
              IN  /\ pools'[p] # pools[p] \/ records'[d] # records[d] => Alone(p)
                  /\ records'[d] # records[d] =>
                       \A w \in Depositors \ {u} : record_kept(p, w)
            Step == \A p \in PoolKeys, u \in Depositors : Touched(p, u)
<1>1. ASSUME NEW pool \in PoolKeys, NEW user \in Depositors, Confined(pool, user)
      PROVE  Step
  <2>1. ASSUME NEW q \in PoolKeys, NEW w \in Depositors, q # pool \/ w # user
        PROVE  record_kept(q, w)
    <3>1. RecordOf(q, w) \in DepositKeys \ {RecordOf(pool, user)} BY <2>1, Distinct
    <3>2. <<w, MintOf(q)>> \in Depositors \X MintKeys /\ <<w, MintOf(q)>> # <<user, MintOf(pool)>>
      BY <2>1, Distinct
    <3> QED BY <1>1, <3>1, <3>2 DEF Confined, record_kept, RecordOf, MintOf
  <2>2. Alone(pool) BY <1>1, <2>1 DEF Confined, VaultOf
  <2>3. ASSUME NEW p \in PoolKeys, NEW u \in Depositors PROVE Touched(p, u)
    <3>1. records'[RecordOf(p, u)] # records[RecordOf(p, u)] => p = pool /\ u = user
      BY <2>1, <2>3 DEF record_kept, RecordOf
    <3>2. pools'[p] # pools[p] => p = pool BY <1>1 DEF Confined
    <3>3. \A w \in Depositors \ {user} : record_kept(pool, w) BY <2>1
    <3>. HIDE DEF Alone
    <3> QED BY <2>2, <3>1, <3>2, <3>3 DEF RecordOf
  <2> QED BY <2>3
<1>2. ASSUME NEW pool \in PoolKeys, UNCHANGED <<records, vaults, held>>,
             \A q \in PoolKeys \ {pool} : pools'[q] = pools[q]
      PROVE  Step
  <2>1. Alone(pool) BY <1>2 DEF record_kept
  <2>. HIDE DEF Alone
  <2> QED BY <1>2, <2>1
<1>3. ASSUME UNCHANGED <<pools, records>> PROVE Step BY <1>3
<1>4. ASSUME Apart, [Next]_vars PROVE Step
  <2>0. TypeOK /\ Wired BY <1>4 DEF Apart
  <2>1. ASSUME NEW pool \in PoolKeys, NEW vault \in VaultKeys, AccrueFees(pool, vault)
        PROVE  Step
    <3>1. UNCHANGED <<records, vaults, held>> /\ \A q \in PoolKeys \ {pool} : pools'[q] = pools[q]
      BY <1>4, <2>1, AccrueEffect
    <3> QED BY <1>2, <3>1
  <2>2. ASSUME NEW user \in Depositors, NEW pool \in PoolKeys, NEW vault \in VaultKeys,
               NEW lp_mint \in MintKeys, NEW vault_auth \in AuthKeys,
               NEW deposit \in DepositKeys, NEW amount \in Amounts \ {0},
               Deposit(user, amount, pool, vault, lp_mint, vault_auth, deposit)
        PROVE  Step
    <3>1. Confined(pool, user) BY <2>0, <2>2, DepositEffect
    <3> QED BY <3>1, <1>1
  <2>3. ASSUME NEW user \in Depositors, NEW pool \in PoolKeys, NEW vault \in VaultKeys,
               NEW lp_mint \in MintKeys, NEW vault_auth \in AuthKeys,
               NEW deposit \in DepositKeys, NEW lp \in U64 \ {0},
               Withdraw(user, lp, pool, vault, lp_mint, vault_auth, deposit)
        PROVE  Step
    <3>1. Confined(pool, user) BY <2>0, <2>3, WithdrawEffect
    <3> QED BY <3>1, <1>1
  <2>. HIDE DEF Step
  <2> QED BY <1>3, <1>4, <2>1, <2>2, <2>3 DEF Next, DirectTransfer, TransferLp, BurnLp, vars
<1>5. Apart /\ [Next]_vars => [Step]_vars BY <1>4
<1> QED BY <1>5, ApartInit, ApartStep, PTL DEF Spec, OnePoolAtATime
===============================================================================
