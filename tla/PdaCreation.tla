----------------------------- MODULE PdaCreation -----------------------------
(***************************************************************************)
(* Where the pool and the records of its depositors come from: accounts at *)
(* addresses anybody can compute and pay lamports into before the program  *)
(* gets to create them (create_or_adopt_pda, called by InitPool and by a   *)
(* user's first Deposit).  The tokens that move in the same instructions   *)
(* are StakeVault's; here are lamports, owners and sizes.                  *)
(*                                                                         *)
(* A call of the system program yields the set of the ledgers it may leave *)
(* behind: one, or none if it fails and takes the instruction with it.     *)
(***************************************************************************)
EXTENDS Naturals, FiniteSets

CONSTANTS
  Slab,          \* the market
  Admin,         \* its admin, who creates the pool
  Users,         \* wallets that deposit
  Strangers,     \* wallets that pay lamports to any address
  MaxLamports,   \* bound on the lamports a wallet starts with
  PoolRent,      \* Rent::minimum_balance(STAKE_POOL_SIZE)
  DepositRent,   \* Rent::minimum_balance(STAKE_DEPOSIT_SIZE)
  Gifts          \* lamports a stranger pays at a time

ASSUME RentAssumption ==
  /\ MaxLamports \in Nat /\ PoolRent \in Nat \ {0} /\ DepositRent \in Nat \ {0}
  /\ Gifts \subseteq Nat \ {0}
  /\ Admin \notin Users /\ Strangers \cap (Users \cup {Admin}) = {}

Wallets == Users \cup Strangers \cup {Admin}

-----------------------------------------------------------------------------
(* Addresses: the seeds a PDA is derived from *)

derive_pool_pda(slab) == <<"stake_pool", slab>>
derive_deposit_pda(pool, user) == <<"stake_deposit", pool, user>>

Pool == derive_pool_pda(Slab)
Record(user) == derive_deposit_pda(Pool, user)

Pdas == {Pool} \cup {Record(u) : u \in Users}

\* A program-derived address lies off the curve: no wallet has its key.
ASSUME OffCurve == Wallets \cap Pdas = {}

-----------------------------------------------------------------------------
(* The ledger *)

VARIABLE ledger

AccountType ==
  [lamports : Nat, owner : {"system", "stake"},
   space : {"none", "pool", "deposit"}, is_initialized : BOOLEAN]

TypeOK == ledger \in [Wallets \cup Pdas -> AccountType]

minimum_balance(space) == IF space = "pool" THEN PoolRent ELSE DepositRent

data_is_empty(l, address) == l[address].space = "none"

-----------------------------------------------------------------------------
(* The system program *)

transfer(l, from, to, lamports) ==
  IF l[from].lamports < lamports THEN {}
  ELSE {[l EXCEPT ![from].lamports = @ - lamports, ![to].lamports = @ + lamports]}

allocate(l, target, space) ==
  IF ~data_is_empty(l, target) \/ l[target].owner # "system" THEN {}
  ELSE {[l EXCEPT ![target].space = space]}

assign(l, target, owner) ==
  IF l[target].owner # "system" THEN {} ELSE {[l EXCEPT ![target].owner = owner]}

\* Refuses an address that has lamports ("AccountAlreadyInUse").
create_account(l, payer, target, lamports, space, owner) ==
  IF l[target].lamports > 0 THEN {}
  ELSE UNION { UNION { assign(b, target, owner) : b \in allocate(a, target, space) }
               : a \in transfer(l, payer, target, lamports) }

-----------------------------------------------------------------------------
(* create_or_adopt_pda *)

\* A plausible slip: plain creation, which a single lamport blocks for good.
create_only(l, target, payer, owner, space) ==
  create_account(l, payer, target, minimum_balance(space), space, owner)

\* A plausible slip: whatever lamports are there already must be enough.
adopt_without_topping_up(l, target, payer, owner, space) ==
  IF l[target].lamports = 0
  THEN create_account(l, payer, target, minimum_balance(space), space, owner)
  ELSE UNION { assign(b, target, owner) : b \in allocate(l, target, space) }

\* A plausible slip: the whole rent is paid on top of what is there.
adopt_paying_in_full(l, target, payer, owner, space) ==
  LET need == minimum_balance(space)
  IN  IF l[target].lamports = 0
      THEN create_account(l, payer, target, need, space, owner)
      ELSE UNION { UNION { assign(b, target, owner) : b \in allocate(a, target, space) }
                   : a \in transfer(l, payer, target, need) }

create_or_adopt_pda(l, target, payer, owner, space) ==
  LET need == minimum_balance(space)
      have == l[target].lamports
      topped_up == IF have < need THEN transfer(l, payer, target, need - have) ELSE {l}
  IN  IF have = 0
      THEN create_account(l, payer, target, need, space, owner)
      ELSE UNION { UNION { assign(b, target, owner) : b \in allocate(a, target, space) }
                   : a \in topped_up }

-----------------------------------------------------------------------------
(* The instructions that create accounts *)

\* The contents are written last, into an account that is whole by then.
initialized(ledgers, address) == {[l EXCEPT ![address].is_initialized = TRUE] : l \in ledgers}

InitPool ==
  /\ data_is_empty(ledger, Pool)
  /\ ledger' \in initialized(create_or_adopt_pda(ledger, Pool, Admin, "stake", "pool"), Pool)

Deposit(user) ==
  /\ ledger[Pool].is_initialized
  /\ ~data_is_empty(ledger, Record(user)) => ledger[Record(user)].owner = "stake"
  /\ ledger' \in
       initialized(IF data_is_empty(ledger, Record(user))
                   THEN create_or_adopt_pda(ledger, Record(user), user, "stake", "deposit")
                   ELSE {ledger},
                   Record(user))

\* Lamports can be paid to any address, and only its owner can move them away.
PayInto(stranger, address, lamports) == ledger' \in transfer(ledger, stranger, address, lamports)

-----------------------------------------------------------------------------
(* The specification *)

EmptyAccount(lamports) ==
  [lamports |-> lamports, owner |-> "system", space |-> "none", is_initialized |-> FALSE]

Init ==
  \E endowment \in [Wallets -> 0 .. MaxLamports] :
    ledger = [a \in Wallets \cup Pdas |->
                EmptyAccount(IF a \in Wallets THEN endowment[a] ELSE 0)]

Next ==
  \/ InitPool
  \/ \E user \in Users : Deposit(user)
  \/ \E stranger \in Strangers, address \in Pdas, lamports \in Gifts :
       PayInto(stranger, address, lamports)

\* The admin and the users keep submitting; strangers may do as they like.
Spec ==
  /\ Init /\ [][Next]_ledger
  /\ WF_ledger(InitPool) /\ \A user \in Users : WF_ledger(Deposit(user))

-----------------------------------------------------------------------------
(* Properties *)

\* An account of the program is whole or is not there: whatever was paid into
\* its address before, at whatever moment, it belongs to the program, has its
\* size, has been written and holds its rent (processor.rs 108-146, 318-331,
\* 548-582).  Half of it (allocated but not assigned, or short of rent) could be
\* neither used nor created again.
CreatedWhole ==
  \A address \in Pdas :
    LET a == ledger[address]
        size == IF address = Pool THEN "pool" ELSE "deposit"
    IN  \/ a.owner = "system" /\ a.space = "none" /\ ~a.is_initialized
        \/ /\ a.owner = "stake" /\ a.space = size /\ a.is_initialized
           /\ a.lamports >= minimum_balance(size)

\* "so the create always succeeds regardless of pre-existing balance"
\* (processor.rs 106): no lamports paid into an address keep anybody out.  Who
\* can pay what the address still lacks gets the pool or the record, also when
\* it had been enough before the strangers came (processor.rs 108-146).
NobodyIsLockedOut ==
  /\ ledger[Admin].lamports + ledger[Pool].lamports >= PoolRent
       ~> ledger[Pool].is_initialized
  /\ \A user \in Users :
       /\ ledger[Pool].is_initialized
       /\ ledger[user].lamports + ledger[Record(user)].lamports >= DepositRent
       ~> ledger[Record(user)].is_initialized

\* A creator pays what the address lacks and no more, so that paying into an
\* address never makes its creation dearer (processor.rs 128-134).
PaysTheShortfall ==
  [][ \A address \in Pdas :
        LET payer == IF address = Pool THEN Admin ELSE address[3]
            need  == IF address = Pool THEN PoolRent ELSE DepositRent
            have  == ledger[address].lamports
        IN  ledger'[address].is_initialized /\ ~ledger[address].is_initialized
              => ledger[payer].lamports - ledger'[payer].lamports
                   = IF have < need THEN need - have ELSE 0 ]_ledger
=============================================================================
