------------------------------ MODULE ManyPools ------------------------------
(***************************************************************************)
(* One program, many pools.  An instruction gets its accounts from the     *)
(* client, so nothing but the handlers' comparisons of keys, the seeds of  *)
(* the PDAs and the token program's own checks keeps the pool of one       *)
(* market, its vault, its LP mint and its records together.  The counters  *)
(* behind a pool's value are one number here (StakeVault has them), and    *)
(* the gates that only refuse (cooldown, cap, high-water mark) are open.   *)
(***************************************************************************)
EXTENDS LpUnits

CONSTANTS Slabs,        \* markets, each with a trading pool
          Depositors,
          Amounts,      \* of deposits and of plain transfers to a vault
          LpMoves       \* LP tokens moved or burned beside the program

ASSUME ManyAssumption ==
  Amounts \subseteq U64 /\ LpMoves \subseteq U64 /\ IsFiniteSet(Depositors)

-----------------------------------------------------------------------------
(* Addresses *)

derive_pool_pda(slab) == <<"stake_pool", slab>>
derive_vault_authority(pool) == <<"vault_auth", pool>>
derive_deposit_pda(pool, user) == <<"stake_deposit", pool, user>>

PoolKeys == {derive_pool_pda(s) : s \in Slabs}
AuthKeys == {derive_vault_authority(p) : p \in PoolKeys}
DepositKeys == {derive_deposit_pda(p, u) : p \in PoolKeys, u \in Depositors}

\* Vaults and mints are made by the client and recorded by InitPool.
VaultKeys == {<<"vault", p>> : p \in PoolKeys}
MintKeys == {<<"lp_mint", p>> : p \in PoolKeys}

VARIABLES
  pools,       \* pool key -> books and keys, see TypeOK
  records,     \* deposit key -> its owner and LP amount
  vaults,      \* vault key -> tokens
  held         \* <<user, mint>> -> LP tokens

vars == <<pools, records, vaults, held>>

TypeOK ==
  /\ pools \in [PoolKeys -> [vault : VaultKeys, lp_mint : MintKeys,
                             value : U64, total_lp_supply : U64,
                             pre_supply_vault_offset : U64]]
  /\ records \in [DepositKeys -> [pool : PoolKeys, user : Depositors, lp_amount : U64]]
  /\ vaults \in [VaultKeys -> U64]
  /\ held \in [Depositors \X MintKeys -> U64]

-----------------------------------------------------------------------------
(* Comparisons the handlers make *)

\* A plausible slip, for each of them: the account is taken as it comes.
unchecked(pool, key) == TRUE

deposit_vault_matches(pool, vault) == pools[pool].vault = vault
deposit_mint_matches(pool, lp_mint) == pools[pool].lp_mint = lp_mint
withdraw_vault_matches(pool, vault) == pools[pool].vault = vault
withdraw_mint_matches(pool, lp_mint) == pools[pool].lp_mint = lp_mint
accrue_vault_matches(pool, vault) == pools[pool].vault = vault

any_record(deposit, pool, user) == TRUE      \* the same slip for the record

deposit_pda_matches(deposit, pool, user) == deposit = derive_deposit_pda(pool, user)

\* Derivation, and what the record itself says.
withdraw_record_matches(deposit, pool, user) ==
  /\ deposit = derive_deposit_pda(pool, user)
  /\ records[deposit].user = user /\ records[deposit].pool = pool

-----------------------------------------------------------------------------
(* The token program: authorities are fixed when vault and mint are made *)

owner_of_vault(vault) == derive_vault_authority(vault[2])
authority_of_mint(lp_mint) == derive_vault_authority(lp_mint[2])

-----------------------------------------------------------------------------
(* Instructions, with whatever accounts of the program they are given *)

Deposit(user, amount, pool, vault, lp_mint, vault_auth, deposit) ==
  LET p  == pools[pool]
      lp == calc_lp_for_deposit(p.total_lp_supply, p.value, amount)
  IN  /\ deposit_mint_matches(pool, lp_mint)
      /\ deposit_vault_matches(pool, vault)
      /\ vault_auth = derive_vault_authority(pool)
      /\ lp # None /\ lp > 0
      /\ vaults[vault] + amount \in U64
      /\ vaults' = [vaults EXCEPT ![vault] = @ + amount]
      /\ authority_of_mint(lp_mint) = vault_auth
      /\ held[<<user, lp_mint>>] + lp \in U64
      /\ held' = [held EXCEPT ![<<user, lp_mint>>] = @ + lp]
      /\ p.value + amount \in U64 /\ p.total_lp_supply + lp \in U64
      /\ pools' = [pools EXCEPT ![pool].value = @ + amount,
                                ![pool].total_lp_supply = @ + lp]
      /\ deposit_pda_matches(deposit, pool, user)
      /\ records[deposit].lp_amount + lp \in U64
      /\ records' = [records EXCEPT ![deposit] =
                       [pool |-> pool, user |-> user, lp_amount |-> @.lp_amount + lp]]

Withdraw(user, lp, pool, vault, lp_mint, vault_auth, deposit) ==
  LET p == pools[pool]
      collateral == calc_collateral_for_withdraw(p.total_lp_supply, p.value, lp)
  IN  /\ withdraw_mint_matches(pool, lp_mint)
      /\ withdraw_vault_matches(pool, vault)
      /\ vault_auth = derive_vault_authority(pool)
      /\ withdraw_record_matches(deposit, pool, user)
      /\ lp <= records[deposit].lp_amount
      /\ collateral # None /\ collateral > 0
      /\ held[<<user, lp_mint>>] >= lp
      /\ held' = [held EXCEPT ![<<user, lp_mint>>] = @ - lp]
      /\ owner_of_vault(vault) = vault_auth /\ vaults[vault] >= collateral
      /\ vaults' = [vaults EXCEPT ![vault] = @ - collateral]
      /\ lp <= p.total_lp_supply
      /\ pools' = [pools EXCEPT ![pool].value = @ - collateral,
                                ![pool].total_lp_supply = @ - lp]
      /\ records' = [records EXCEPT ![deposit].lp_amount = @ - lp]

AccrueFees(pool, vault) ==
  LET p == pools[pool]
      expected == p.value + p.pre_supply_vault_offset
  IN  /\ accrue_vault_matches(pool, vault)
      /\ pools' = IF p.total_lp_supply = 0
                  THEN [pools EXCEPT ![pool].pre_supply_vault_offset = vaults[vault]]
                  ELSE [pools EXCEPT ![pool].value =
                                        @ + saturating_sub(vaults[vault], expected)]
      /\ UNCHANGED <<records, vaults, held>>

DirectTransfer(vault, amount) ==
  /\ vaults[vault] + amount \in U64
  /\ vaults' = [vaults EXCEPT ![vault] = @ + amount]
  /\ UNCHANGED <<pools, records, held>>

\* LP tokens are ordinary SPL tokens: holders move and burn them, and no record
\* sees it.
TransferLp(from, to, lp_mint, lp) ==
  /\ from # to
  /\ held[<<from, lp_mint>>] >= lp
  /\ held[<<to, lp_mint>>] + lp \in U64
  /\ held' = [held EXCEPT ![<<from, lp_mint>>] = @ - lp, ![<<to, lp_mint>>] = @ + lp]
  /\ UNCHANGED <<pools, records, vaults>>

BurnLp(user, lp_mint, lp) ==
  /\ held[<<user, lp_mint>>] >= lp
  /\ held' = [held EXCEPT ![<<user, lp_mint>>] = @ - lp]
  /\ UNCHANGED <<pools, records, vaults>>

-----------------------------------------------------------------------------
(* The specification *)

\* After an InitTradingPool for every market.
Init ==
  /\ pools = [p \in PoolKeys |-> [vault |-> <<"vault", p>>, lp_mint |-> <<"lp_mint", p>>,
                                  value |-> 0, total_lp_supply |-> 0,
                                  pre_supply_vault_offset |-> 0]]
  /\ records = [d \in DepositKeys |-> [pool |-> d[2], user |-> d[3], lp_amount |-> 0]]
  /\ vaults = [v \in VaultKeys |-> 0]
  /\ held = [h \in Depositors \X MintKeys |-> 0]

Next ==
  \/ \E user \in Depositors, pool \in PoolKeys, vault \in VaultKeys, lp_mint \in MintKeys,
        vault_auth \in AuthKeys, deposit \in DepositKeys :
       \/ \E amount \in Amounts \ {0} :
            Deposit(user, amount, pool, vault, lp_mint, vault_auth, deposit)
       \/ \E lp \in U64 \ {0} : Withdraw(user, lp, pool, vault, lp_mint, vault_auth, deposit)
  \/ \E pool \in PoolKeys, vault \in VaultKeys : AccrueFees(pool, vault)
  \/ \E vault \in VaultKeys, amount \in Amounts \ {0} : DirectTransfer(vault, amount)
  \/ \E user \in Depositors, lp_mint \in MintKeys, lp \in LpMoves \ {0} :
       \/ \E to \in Depositors : TransferLp(user, to, lp_mint, lp)
       \/ BurnLp(user, lp_mint, lp)

Spec == Init /\ [][Next]_vars

-----------------------------------------------------------------------------
(* Properties *)

\* Every pool can pay from its own vault what its own books promise: no sequence
\* of instructions with accounts of several pools books a token for one pool that
\* lies in the vault of another (processor.rs 439-444, 661-666, 1329-1332).
EachPoolCovered ==
  \A p \in PoolKeys :
    vaults[<<"vault", p>>] >= pools[p].value + pools[p].pre_supply_vault_offset

\* Each pool's total_lp_supply is the sum of its own depositors' records, and no
\* more LP tokens of its own mint are out than that, whatever mint or record was
\* passed: an instruction never takes the mint of one pool for a record of
\* another.  Tokens that holders moved or burned themselves may be fewer, and
\* elsewhere than the records say (processor.rs 439-441, 548-558, 661-663,
\* 677-704).
SharesStayApart ==
  \A p \in PoolKeys :
    /\ pools[p].total_lp_supply
         = total_of([u \in Depositors |-> records[derive_deposit_pda(p, u)].lp_amount])
    /\ total_of([u \in Depositors |-> held[<<u, <<"lp_mint", p>>>>]])
         <= pools[p].total_lp_supply

\* A step leaves alone whatever belongs to pool q and its depositor u.
record_kept(q, u) ==
  /\ records'[derive_deposit_pda(q, u)] = records[derive_deposit_pda(q, u)]
  /\ held'[<<u, <<"lp_mint", q>>>>] = held[<<u, <<"lp_mint", q>>>>]

\* An instruction touches one pool: where the books of a pool change, by a
\* deposit, an exit or a crank, or a record of one of its depositors does, every
\* other pool keeps its books, its vault, its records and its tokens; and where a
\* record changes, no other depositor's record and tokens of that pool do
\* (processor.rs 406-808, 1298-1379).
OnePoolAtATime ==
  [][ \A p \in PoolKeys, u \in Depositors :
        LET d == derive_deposit_pda(p, u)
        IN  /\ pools'[p] # pools[p] \/ records'[d] # records[d] =>
                 \A q \in PoolKeys \ {p} :
                   /\ pools'[q] = pools[q] /\ vaults'[<<"vault", q>>] = vaults[<<"vault", q>>]
                   /\ \A w \in Depositors : record_kept(q, w)
            /\ records'[d] # records[d] =>
                 \A w \in Depositors \ {u} : record_kept(p, w) ]_vars
=============================================================================
