-------------------------- MODULE PdaCreation_proofs --------------------------
(***************************************************************************)
(* What create_or_adopt_pda leaves behind, for every number of wallets,    *)
(* every rent and every amount paid into an address before its account is  *)
(* created.                                                                *)
(***************************************************************************)
EXTENDS PdaCreation, TLAPS

Ledgers == [Wallets \cup Pdas -> AccountType]

-----------------------------------------------------------------------------
(* Addresses *)

\* The pool's address is nobody's record, and a record belongs to one user.
LEMMA Addresses ==
  /\ Pool \in Pdas
  /\ \A u \in Users : Record(u) \in Pdas /\ Record(u) # Pool /\ Record(u)[3] = u
  /\ \A u, w \in Users : Record(u) = Record(w) => u = w
  /\ \A a \in Pdas : a # Pool => \E u \in Users : a = Record(u)
  /\ \A w \in Wallets, a \in Pdas : w # a
<1>1. \A u \in Users : Record(u)[3] = u BY DEF Record, derive_deposit_pda
<1>2. \A u \in Users : Record(u)[1] = "stake_deposit" BY DEF Record, derive_deposit_pda
<1>3. Pool[1] = "stake_pool" BY DEF Pool, derive_pool_pda
<1>4. \A u \in Users : Record(u) # Pool BY <1>2, <1>3
<1>5. \A u, w \in Users : Record(u) = Record(w) => u = w BY <1>1
<1>6. \A w \in Wallets, a \in Pdas : w # a BY OffCurve
<1> QED BY <1>1, <1>4, <1>5, <1>6 DEF Pdas

-----------------------------------------------------------------------------
(* The system program *)

\* A transfer moves the lamports and nothing else.
LEMMA TransferMoves ==
  ASSUME NEW l \in Ledgers, NEW from \in Wallets, NEW to \in Pdas, NEW x \in Nat,
         NEW m \in transfer(l, from, to, x)
  PROVE  /\ m \in Ledgers
         /\ m[from].lamports = l[from].lamports - x
         /\ m[to].lamports = l[to].lamports + x
         /\ m[to].owner = l[to].owner /\ m[to].space = l[to].space
         /\ m[to].is_initialized = l[to].is_initialized
         /\ \A a \in (Wallets \cup Pdas) \ {from, to} : m[a] = l[a]
<1>1. from # to BY Addresses
<1>2. l[from] \in AccountType /\ l[to] \in AccountType BY DEF Ledgers
<1>3. l[from].lamports \in Nat /\ l[to].lamports \in Nat BY <1>2 DEF AccountType
<1>4. /\ ~(l[from].lamports < x)
      /\ m = [l EXCEPT ![from].lamports = @ - x, ![to].lamports = @ + x]
  BY DEF transfer
<1>5. l[from].lamports >= x /\ l[from].lamports - x \in Nat /\ l[to].lamports + x \in Nat
  BY <1>3, <1>4
<1>6. /\ [l[from] EXCEPT !.lamports = @ - x] \in AccountType
      /\ [l[to] EXCEPT !.lamports = @ + x] \in AccountType
  BY <1>2, <1>5 DEF AccountType
<1>7. m = [l EXCEPT ![from] = [l[from] EXCEPT !.lamports = @ - x],
                    ![to] = [l[to] EXCEPT !.lamports = @ + x]]
  BY <1>1, <1>4 DEF Ledgers
<1>8. /\ m[from] = [l[from] EXCEPT !.lamports = @ - x]
      /\ m[to] = [l[to] EXCEPT !.lamports = @ + x]
      /\ m \in Ledgers
      /\ \A a \in (Wallets \cup Pdas) \ {from, to} : m[a] = l[a]
  BY <1>1, <1>6, <1>7 DEF Ledgers
<1> QED BY <1>2, <1>8 DEF AccountType

\* What allocate and assign make of an account that was not there.
LEMMA AllocateAssign ==
  ASSUME NEW l \in Ledgers, NEW target \in Pdas, NEW space \in {"pool", "deposit"},
         NEW b \in allocate(l, target, space), NEW m \in assign(b, target, "stake")
  PROVE  /\ m \in Ledgers
         /\ m[target].owner = "stake" /\ m[target].space = space
         /\ m[target].lamports = l[target].lamports
         /\ \A a \in (Wallets \cup Pdas) \ {target} : m[a] = l[a]
<1>1. l[target] \in AccountType BY DEF Ledgers
<1>2. b = [l EXCEPT ![target].space = space] BY DEF allocate
<1>3. b = [l EXCEPT ![target] = [l[target] EXCEPT !.space = space]] BY <1>2 DEF Ledgers
<1>4. [l[target] EXCEPT !.space = space] \in AccountType BY <1>1 DEF AccountType
<1>5. b \in Ledgers /\ b[target] = [l[target] EXCEPT !.space = space]
      /\ \A a \in (Wallets \cup Pdas) \ {target} : b[a] = l[a]
  BY <1>3, <1>4 DEF Ledgers
<1>6. m = [b EXCEPT ![target].owner = "stake"] BY DEF assign
<1>7. m = [b EXCEPT ![target] = [b[target] EXCEPT !.owner = "stake"]] BY <1>5, <1>6 DEF Ledgers
<1>8. [b[target] EXCEPT !.owner = "stake"] \in AccountType
  BY <1>4, <1>5 DEF AccountType
<1>9. m \in Ledgers /\ m[target] = [b[target] EXCEPT !.owner = "stake"]
      /\ \A a \in (Wallets \cup Pdas) \ {target} : m[a] = b[a]
  BY <1>5, <1>7, <1>8 DEF Ledgers
<1>10. /\ m[target].owner = "stake" /\ m[target].space = space
       /\ m[target].lamports = l[target].lamports
  BY <1>1, <1>5, <1>9 DEF AccountType
<1> QED BY <1>5, <1>9, <1>10

-----------------------------------------------------------------------------
(* create_or_adopt_pda *)

\* Whatever was paid into the address, the account ends up whole, the payer has
\* paid the shortfall, and nobody else is touched (processor.rs 108-146).
LEMMA CreationIsWhole ==
  ASSUME NEW l \in Ledgers, NEW target \in Pdas, NEW payer \in Wallets,
         NEW space \in {"pool", "deposit"},
         NEW m \in create_or_adopt_pda(l, target, payer, "stake", space)
  PROVE  LET need == minimum_balance(space)
             have == l[target].lamports
         IN  /\ m \in Ledgers
             /\ m[target].owner = "stake" /\ m[target].space = space
             /\ m[target].lamports >= need
             /\ l[payer].lamports - m[payer].lamports = IF have < need THEN need - have ELSE 0
             /\ \A a \in (Wallets \cup Pdas) \ {target, payer} : m[a] = l[a]
<1>. DEFINE need == minimum_balance(space)
            have == l[target].lamports
            short == IF have < need THEN need - have ELSE 0
<1>1. payer # target BY Addresses
<1>2. l[target] \in AccountType /\ l[payer] \in AccountType BY DEF Ledgers
<1>3. have \in Nat /\ l[payer].lamports \in Nat BY <1>2 DEF AccountType
<1>4. need \in Nat \ {0} BY RentAssumption DEF minimum_balance
<1>5. short \in Nat BY <1>3, <1>4
<1>6. ASSUME NEW a \in Ledgers,
             l[payer].lamports - a[payer].lamports = short,
             a[target].lamports >= need,
             \A x \in (Wallets \cup Pdas) \ {target, payer} : a[x] = l[x],
             NEW b \in allocate(a, target, space), m \in assign(b, target, "stake")
      PROVE  /\ m \in Ledgers
             /\ m[target].owner = "stake" /\ m[target].space = space
             /\ m[target].lamports >= need
             /\ l[payer].lamports - m[payer].lamports = short
             /\ \A x \in (Wallets \cup Pdas) \ {target, payer} : m[x] = l[x]
  <2>. HIDE DEF need, short, have
  <2>1. /\ m \in Ledgers
        /\ m[target].owner = "stake" /\ m[target].space = space
        /\ m[target].lamports = a[target].lamports
        /\ \A x \in (Wallets \cup Pdas) \ {target} : m[x] = a[x]
    BY <1>6, AllocateAssign
  <2>4. m[payer] = a[payer] BY <1>1, <2>1
  <2> QED BY <1>6, <2>1, <2>4
<1>7. ASSUME NEW x \in Nat, NEW a \in transfer(l, payer, target, x)
      PROVE  /\ a \in Ledgers
             /\ l[payer].lamports - a[payer].lamports = x
             /\ a[target].lamports = have + x
             /\ \A y \in (Wallets \cup Pdas) \ {target, payer} : a[y] = l[y]
  <2>1. /\ a \in Ledgers
        /\ a[payer].lamports = l[payer].lamports - x
        /\ a[target].lamports = have + x
        /\ \A y \in (Wallets \cup Pdas) \ {target, payer} : a[y] = l[y]
    BY <1>7, TransferMoves
  <2> QED BY <1>3, <2>1
<1>8. CASE have = 0
  <2>1. PICK a \in transfer(l, payer, target, need) :
          \E b \in allocate(a, target, space) : m \in assign(b, target, "stake")
    BY <1>8 DEF create_or_adopt_pda, create_account
  <2>2. short = need BY <1>4, <1>8
  <2>3. /\ a \in Ledgers /\ l[payer].lamports - a[payer].lamports = short
        /\ a[target].lamports >= need
        /\ \A x \in (Wallets \cup Pdas) \ {target, payer} : a[x] = l[x]
    <3>. HIDE DEF need, have, short
    <3> QED BY <1>4, <1>7, <1>8, <2>1, <2>2
  <2> QED BY <1>6, <2>1, <2>3
<1>9. CASE have # 0 /\ have < need
  <2>1. PICK a \in transfer(l, payer, target, need - have) :
          \E b \in allocate(a, target, space) : m \in assign(b, target, "stake")
    BY <1>9 DEF create_or_adopt_pda
  <2>2. short = need - have BY <1>9
  <2>3. /\ a \in Ledgers /\ l[payer].lamports - a[payer].lamports = short
        /\ a[target].lamports >= need
        /\ \A x \in (Wallets \cup Pdas) \ {target, payer} : a[x] = l[x]
    <3>. HIDE DEF need, have, short
    <3> QED BY <1>3, <1>4, <1>5, <1>7, <2>1, <2>2
  <2> QED BY <1>6, <2>1, <2>3
<1>10. CASE have # 0 /\ ~(have < need)
  <2>1. PICK b \in allocate(l, target, space) : m \in assign(b, target, "stake")
    BY <1>10 DEF create_or_adopt_pda
  <2>2. l[payer].lamports - l[payer].lamports = short /\ l[target].lamports >= need
    BY <1>3, <1>4, <1>10
  <2> QED BY <1>6, <2>1, <2>2
<1> QED BY <1>8, <1>9, <1>10

-----------------------------------------------------------------------------
(* The specification *)

\* Writing the contents.
LEMMA Written ==
  ASSUME NEW l \in Ledgers, NEW address \in Pdas,
         NEW m \in initialized({l}, address)
  PROVE  /\ m \in Ledgers
         /\ m[address].is_initialized
         /\ m[address].owner = l[address].owner /\ m[address].space = l[address].space
         /\ m[address].lamports = l[address].lamports
         /\ \A a \in (Wallets \cup Pdas) \ {address} : m[a] = l[a]
<1>1. l[address] \in AccountType BY DEF Ledgers
<1>2. m = [l EXCEPT ![address].is_initialized = TRUE] BY DEF initialized
<1>3. m = [l EXCEPT ![address] = [l[address] EXCEPT !.is_initialized = TRUE]]
  BY <1>2 DEF Ledgers
<1>4. [l[address] EXCEPT !.is_initialized = TRUE] \in AccountType BY <1>1 DEF AccountType
<1>5. m \in Ledgers /\ m[address] = [l[address] EXCEPT !.is_initialized = TRUE]
      /\ \A a \in (Wallets \cup Pdas) \ {address} : m[a] = l[a]
  BY <1>3, <1>4 DEF Ledgers
<1> QED BY <1>1, <1>5 DEF AccountType

\* An account of the given size is complete.
Whole(a, size) ==
  /\ a.owner = "stake" /\ a.space = size /\ a.is_initialized
  /\ a.lamports >= minimum_balance(size)

\* Nothing but lamports is at the address yet.
Absent(a) == a.owner = "system" /\ a.space = "none" /\ ~a.is_initialized

\* Creating an account and writing it.
LEMMA Creates ==
  ASSUME NEW l \in Ledgers, NEW target \in Pdas, NEW payer \in Wallets,
         NEW space \in {"pool", "deposit"},
         NEW m \in initialized(create_or_adopt_pda(l, target, payer, "stake", space), target)
  PROVE  LET need == minimum_balance(space)
             have == l[target].lamports
         IN  /\ m \in Ledgers
             /\ Whole(m[target], space)
             /\ l[payer].lamports - m[payer].lamports = IF have < need THEN need - have ELSE 0
             /\ \A a \in (Wallets \cup Pdas) \ {target, payer} : m[a] = l[a]
<1>. DEFINE need == minimum_balance(space)
            have == l[target].lamports
<1>1. PICK k \in create_or_adopt_pda(l, target, payer, "stake", space) :
        m \in initialized({k}, target)
  BY DEF initialized
<1>2. /\ k \in Ledgers
      /\ k[target].owner = "stake" /\ k[target].space = space
      /\ k[target].lamports >= need
      /\ l[payer].lamports - k[payer].lamports = IF have < need THEN need - have ELSE 0
      /\ \A a \in (Wallets \cup Pdas) \ {target, payer} : k[a] = l[a]
  BY CreationIsWhole
<1>3. /\ m \in Ledgers
      /\ m[target].is_initialized
      /\ m[target].owner = k[target].owner /\ m[target].space = k[target].space
      /\ m[target].lamports = k[target].lamports
      /\ \A a \in (Wallets \cup Pdas) \ {target} : m[a] = k[a]
  BY <1>1, <1>2, Written
<1>4. m[payer] = k[payer] BY <1>3, Addresses
<1> QED BY <1>2, <1>3, <1>4 DEF Whole

\* What a step does to the accounts of the program: an absent one stays absent or
\* is created at its payer's expense, and a whole one stays whole.
StepEffect ==
  /\ ledger' \in Ledgers
  /\ \A address \in Pdas :
       LET size  == IF address = Pool THEN "pool" ELSE "deposit"
           payer == IF address = Pool THEN Admin ELSE address[3]
           need  == minimum_balance(size)
           have  == ledger[address].lamports
       IN  /\ Whole(ledger[address], size) => Whole(ledger'[address], size)
           /\ Absent(ledger[address]) =>
                \/ Absent(ledger'[address])
                \/ /\ Whole(ledger'[address], size)
                   /\ ledger[payer].lamports - ledger'[payer].lamports
                        = IF have < need THEN need - have ELSE 0

\* The inductive invariant.
Created == TypeOK /\ CreatedWhole

\* It says that every account of the program is absent or whole.
LEMMA CreatedMeans ==
  Created <=> /\ ledger \in Ledgers
              /\ \A address \in Pdas :
                   \/ Absent(ledger[address])
                   \/ Whole(ledger[address], IF address = Pool THEN "pool" ELSE "deposit")
  BY DEF Created, TypeOK, Ledgers, CreatedWhole, Absent, Whole

\* Every step has such an effect.
LEMMA StepKeeps ==
  ASSUME Created, Next
  PROVE  StepEffect
<1>1. ledger \in Ledgers BY CreatedMeans
<1>2. \A address \in Pdas :
        \/ Absent(ledger[address])
        \/ Whole(ledger[address], IF address = Pool THEN "pool" ELSE "deposit")
  BY CreatedMeans
<1>3. CASE InitPool
  <2>1. /\ ledger' \in Ledgers
        /\ Whole(ledger'[Pool], "pool")
        /\ ledger[Admin].lamports - ledger'[Admin].lamports
             = IF ledger[Pool].lamports < minimum_balance("pool")
               THEN minimum_balance("pool") - ledger[Pool].lamports ELSE 0
        /\ \A a \in (Wallets \cup Pdas) \ {Pool, Admin} : ledger'[a] = ledger[a]
    <3>1. Pool \in Pdas /\ Admin \in Wallets BY Addresses DEF Wallets
    <3> QED BY <1>1, <1>3, <3>1, Creates DEF InitPool
  <2>2. \A a \in Pdas : a # Pool => ledger'[a] = ledger[a]
    <3>1. Admin \in Wallets BY DEF Wallets
    <3> QED BY <2>1, <3>1, Addresses
  <2> QED BY <2>1, <2>2 DEF StepEffect
<1>4. ASSUME NEW user \in Users, Deposit(user) PROVE StepEffect
  <2>. DEFINE r == Record(user)
  <2>1. r \in Pdas /\ r # Pool /\ r[3] = user /\ user \in Wallets BY Addresses DEF Wallets
  <2>2. CASE data_is_empty(ledger, r)
    <3>1. ledger' \in initialized(create_or_adopt_pda(ledger, r, user, "stake", "deposit"), r)
      BY <1>4, <2>2 DEF Deposit
    <3>. HIDE DEF r
    <3>2. /\ ledger' \in Ledgers
          /\ Whole(ledger'[r], "deposit")
          /\ ledger[user].lamports - ledger'[user].lamports
               = IF ledger[r].lamports < minimum_balance("deposit")
                 THEN minimum_balance("deposit") - ledger[r].lamports ELSE 0
          /\ \A a \in (Wallets \cup Pdas) \ {r, user} : ledger'[a] = ledger[a]
      BY <1>1, <2>1, <3>1, Creates
    <3>3. \A a \in Pdas : a # r => ledger'[a] = ledger[a] BY <2>1, <3>2, Addresses
    <3> QED BY <2>1, <3>2, <3>3 DEF StepEffect
  <2>3. CASE ~data_is_empty(ledger, r)
    <3>1. ledger' \in initialized({ledger}, r) BY <1>4, <2>3 DEF Deposit
    <3>. HIDE DEF r
    <3>2. /\ ledger' \in Ledgers
          /\ ledger'[r].is_initialized
          /\ ledger'[r].owner = ledger[r].owner /\ ledger'[r].space = ledger[r].space
          /\ ledger'[r].lamports = ledger[r].lamports
          /\ \A a \in (Wallets \cup Pdas) \ {r} : ledger'[a] = ledger[a]
      BY <1>1, <2>1, <3>1, Written
    <3>3. ~Absent(ledger[r]) BY <2>3 DEF Absent, data_is_empty
    <3>4. Whole(ledger[r], "deposit") => Whole(ledger'[r], "deposit") BY <3>2 DEF Whole
    <3>5. \A a \in Pdas : a # r => ledger'[a] = ledger[a] BY <3>2
    <3> QED BY <2>1, <3>2, <3>3, <3>4, <3>5 DEF StepEffect
  <2> QED BY <2>2, <2>3
<1>5. ASSUME NEW stranger \in Strangers, NEW address \in Pdas, NEW lamports \in Gifts,
             PayInto(stranger, address, lamports)
      PROVE  StepEffect
  <2>1. stranger \in Wallets /\ lamports \in Nat BY RentAssumption DEF Wallets
  <2>2. /\ ledger' \in Ledgers
        /\ ledger'[address].owner = ledger[address].owner
        /\ ledger'[address].space = ledger[address].space
        /\ ledger'[address].is_initialized = ledger[address].is_initialized
        /\ ledger'[address].lamports = ledger[address].lamports + lamports
        /\ \A a \in (Wallets \cup Pdas) \ {stranger, address} : ledger'[a] = ledger[a]
    BY <1>1, <1>5, <2>1, TransferMoves DEF PayInto
  <2>3. ledger[address] \in AccountType BY <1>1 DEF Ledgers
  <2>4. ledger[address].lamports \in Nat BY <2>3 DEF AccountType
  <2>5. \A size \in {"pool", "deposit"} :
          Whole(ledger[address], size) => Whole(ledger'[address], size)
    <3>1. \A size \in {"pool", "deposit"} : minimum_balance(size) \in Nat
      BY RentAssumption DEF minimum_balance
    <3> QED BY <2>1, <2>2, <2>4, <3>1 DEF Whole
  <2>6. Absent(ledger[address]) => Absent(ledger'[address]) BY <2>2 DEF Absent
  <2>7. \A a \in Pdas : a # address => ledger'[a] = ledger[a] BY <2>1, <2>2, Addresses
  <2> QED BY <2>2, <2>5, <2>6, <2>7 DEF StepEffect
<1> QED BY <1>3, <1>4, <1>5 DEF Next

\* Every step keeps the invariant.
LEMMA CreatedStep ==
  ASSUME Created, [Next]_ledger
  PROVE  Created'
<1>1. CASE UNCHANGED ledger BY <1>1 DEF Created, TypeOK, CreatedWhole
<1>2. CASE Next
  <2>1. StepEffect BY <1>2, StepKeeps
  <2>2. \A address \in Pdas :
          \/ Absent(ledger[address])
          \/ Whole(ledger[address], IF address = Pool THEN "pool" ELSE "deposit")
    BY CreatedMeans
  <2>3. \A address \in Pdas :
          \/ Absent(ledger'[address])
          \/ Whole(ledger'[address], IF address = Pool THEN "pool" ELSE "deposit")
    BY <2>1, <2>2 DEF StepEffect
  <2>4. ledger' \in Ledgers BY <2>1 DEF StepEffect
  <2> QED BY <2>3, <2>4 DEF Created, TypeOK, Ledgers, CreatedWhole, Absent, Whole
<1> QED BY <1>1, <1>2

\* At the start there are wallets and nothing else.
LEMMA CreatedInit ==
  ASSUME Init
  PROVE  Created
<1>1. PICK endowment \in [Wallets -> 0 .. MaxLamports] :
        ledger = [a \in Wallets \cup Pdas |->
                    EmptyAccount(IF a \in Wallets THEN endowment[a] ELSE 0)]
  BY DEF Init
<1>2. \A a \in Wallets : endowment[a] \in Nat BY RentAssumption
<1>3. \A x \in Nat : EmptyAccount(x) \in AccountType BY DEF EmptyAccount, AccountType
<1>4. TypeOK BY <1>1, <1>2, <1>3 DEF TypeOK
<1>5. \A a \in Pdas : Absent(ledger[a]) BY <1>1 DEF Absent, EmptyAccount
<1> QED BY <1>4, <1>5 DEF Created, CreatedWhole, Absent

\* The inductive invariant.
LEMMA CreatedInvariant == Spec => []Created
<1>1. Init => Created BY CreatedInit
<1>2. Created /\ [Next]_ledger => Created' BY CreatedStep
<1> QED BY <1>1, <1>2, PTL DEF Spec

\* Whatever is paid into an address and whenever, the account of the program at
\* that address is whole or is not there (processor.rs 108-146, 318-331, 548-582).
THEOREM WholeOrAbsent == Spec => []CreatedWhole
<1>1. Created => CreatedWhole BY DEF Created
<1> QED BY <1>1, CreatedInvariant, PTL

\* A creator pays exactly what the address lacks (processor.rs 128-134).
THEOREM ShortfallOnly == Spec => PaysTheShortfall
<1>. DEFINE Fair ==
       \A address \in Pdas :
         LET payer == IF address = Pool THEN Admin ELSE address[3]
             need  == IF address = Pool THEN PoolRent ELSE DepositRent
             have  == ledger[address].lamports
         IN  ledger'[address].is_initialized /\ ~ledger[address].is_initialized
               => ledger[payer].lamports - ledger'[payer].lamports
                    = IF have < need THEN need - have ELSE 0
<1>1. Created /\ [Next]_ledger => [Fair]_ledger
  <2>1. SUFFICES ASSUME Created, Next PROVE Fair OBVIOUS
  <2>2. StepEffect BY <2>1, StepKeeps
  <2>3. SUFFICES ASSUME NEW address \in Pdas,
                        ledger'[address].is_initialized, ~ledger[address].is_initialized
                 PROVE  LET payer == IF address = Pool THEN Admin ELSE address[3]
                            need  == IF address = Pool THEN PoolRent ELSE DepositRent
                            have  == ledger[address].lamports
                        IN  ledger[payer].lamports - ledger'[payer].lamports
                              = IF have < need THEN need - have ELSE 0
    OBVIOUS
  <2>4. Absent(ledger[address]) /\ ~Absent(ledger'[address])
    BY <2>1, <2>3, CreatedMeans DEF Absent, Whole
  <2>5. minimum_balance(IF address = Pool THEN "pool" ELSE "deposit")
          = IF address = Pool THEN PoolRent ELSE DepositRent
    BY DEF minimum_balance
  <2> QED BY <2>2, <2>4, <2>5 DEF StepEffect
<1> QED BY <1>1, CreatedInvariant, PTL DEF Spec, PaysTheShortfall
===============================================================================
