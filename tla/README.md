# Percolator LP vault: TLA+ models and proofs

A verification development for the stake program of this repository (`src/`):
TLA+ modules translated from `math.rs`, `state.rs`, `processor.rs`, `instruction.rs`
and `cpi.rs`, TLC runs that check them on small instances, and TLAPS proofs of all
their safety properties for every instance. Line numbers refer to the files under `src/` of the repository.

## The system

One Solana program. A *market* ("slab") of the percolator wrapper has one *pool*.
Users deposit collateral into the pool's *vault* (an SPL token account) and get LP
tokens; burning LP tokens pays collateral back pro rata. A pool is either

* an **insurance pool** (mode 0): the admin flushes collateral into the market's
  insurance fund and brings insurance back after the market is resolved; or
* a **trading pool** (mode 1): trading fees arrive as plain token transfers, and a
  permissionless crank (`AccrueFees`) books whatever the vault holds above the books.

| Part | State | Operations | Hard behaviour |
|---|---|---|---|
| LP arithmetic (`math.rs`) | none | LP for a deposit, collateral for LP, cooldown slot, high-water-mark floor | rounding, overflow, zero supply or zero value |
| Accounts (`state.rs`) | `StakePool`: lifetime counters, LP supply, config, flag byte, high-water mark, pre-supply offset; `StakeDeposit`: LP and slot per user | `total_pool_value`, `accrual_baseline`, `refresh_hwm`, flag accessors | counters that only grow; two flags in one byte |
| Handlers (`processor.rs`) | – | 15 instructions (13 can change state) | order of instructions by many signers; values read from counters and from the vault |
| Decoding (`instruction.rs`) | none | `unpack`: fifteen tags | lengths and ranges written down separately |
| Account creation (`create_or_adopt_pda`) | lamports, owner and size of the PDAs | create, or top up, allocate and assign | anybody may pay into the address first |
| Wrapper CPI (`cpi.rs`) | market admin, asset-0 authorities, resolved, insurance fund | five CPIs | who signs; the fund moves by itself while the market trades |
| SPL token | vault balance, LP balances | transfer, mint, burn | anybody may send tokens to the vault; LP tokens move and burn outside the program |

An instruction is atomic: an error rolls all accounts back. There are no threads,
messages or crashes to model. What interleaves is instructions of different
signers, transfers that bypass the program, the market and the clock. Handlers
interact only through the accounts: the crank reads a vault balance that deposits,
withdrawals and strangers change; the price of every deposit and exit reads the
counters; the high-water mark and the cooldown are snapshots taken by an earlier
instruction.

What makes each part correct: the vault covers the books (solvency); the books
never go negative and are empty when the LP supply is; no instruction but a flush
lowers the value of an LP token; depositors can get in and out; fresh capital
serves its share of the cooldown; the high-water mark protects the peak of the
epoch and never that of an older one; the deposit gate opens only after the market
answers to the pool; resolution is final; insurance stays in custody; accounts are
created whole; what the wrapper is told is what the client asked for; pools that
share the program do not touch each other.
`PROJECT.json` lists the hazards behind these, at their lines.

## Modules

| Module | Models | Notes |
|---|---|---|
| `StakeMath` | `math.rs`, all functions | `u64` is `0..MaxU64`; `Option` is a number or `None`; `u128` intermediates are naturals, since they never overflow in the code |
| `Keys` | identities | wallets, pool PDA, vault authority PDA, the zero key |
| `StakePool` | `state.rs`: records and methods | byte 9 of `_reserved` is a set of flags; `NetValue` is the value in unbounded integers, used by properties only |
| `SplToken` | token program (external) | a failing transfer is a guard that does not hold |
| `Wrapper` | market behind the CPIs (external) | rules taken from `cpi.rs`, the comments at the call sites and `instruction.rs`; where these differ (who may top up the insurance fund: `cpi.rs` 34-39 the authority, `processor.rs` 899-901 any owner of the tokens) the weaker rule, so that the results hold under both |
| `LpUnits` | – | sums over depositors, counted token by token |
| `StakeVault` | `processor.rs`: one action per handler, the environment, `Spec`, the properties | composes the six above |
| `ShareVault` | the abstract specification | holders, shares, value, assets, whether the value is still known; open, enter, leave, lend, recover, gift, credit, close; no counters and no widths |
| `StakeVaultRefinement` | – | the refinement mapping from `StakeVault` to `ShareVault` |
| `StakeLiveness` | – | what must eventually happen, each property with the fairness it needs as its premise, and `WindDownSpec` |
| `MCStakeVault` | – | the instance for TLC, with the refinement and the symmetry of users |
| `HwmHistory`, `CooldownHistory`, `FeeHistory` | – | `StakeVault` with history variables that observe and never guard |
| `PdaCreation` | `create_or_adopt_pda` and its callers | over an external model of the system program; lamports, owners, sizes |
| `ManyPools`, `MCManyPools` | deposit, withdrawal and crank with several pools | the client picks every account; LP tokens move and burn outside the program; a pool's counters are one number |
| `InstructionCodec` | `unpack` | data is a sequence of bytes |
| `AccountLists` | accounts by position | what the docs list and what each handler takes, with signer and writable flags |
| `WrapperWire` | `cpi.rs` | each call's bytes, accounts, privileges and seeds; the wrapper's decoding and the runtime's privilege rule are external |
| `Transaction`, `MCTransaction` | `process`: one instruction from the client to the wrapper | composes the three above |
| `KaniMirror` | the copy of the arithmetic in `kani-proofs` | compared with the functions in `MCStakeMath` |
| `MCStakeMath` | – | the pure functions over all small arguments |
| `StakeMath_proofs` | – | lemmas on the arithmetic; all nonlinear reasoning is here and in `MCStakeMath_proofs` |
| `StakeVault_proofs`, `HwmHistory_proofs`, `CooldownHistory_proofs`, `PdaCreation_proofs`, `ManyPools_proofs`, `MCStakeMath_proofs`, `Transaction_proofs` | – | the theorems about the module each is named after; `StakeVault_proofs` also has the refinement |

State and actions. `pool` is the pool account, `deposits[u]` the user's record,
`vault` and `held` the token balances, `market` the wrapper market, `slot` the
clock (`epoch` is derived from it). Every action has the name of its instruction
and contains the whole handler: its guards in the order of the early returns, the
CPIs, the counter updates with their overflow checks, the high-water-mark refresh
and the record update. For the two handlers depositors call, all guards together are a
predicate of the state (`deposit_accepted`, `withdraw_accepted`), so that properties can
say that an instruction would go through.
Error codes are not told apart: every early return is one guard. Definitions called "a
plausible slip" are not used by the specification: they are variants of the
definition that follows, used to confirm that each property notices such a bug.

Left out of the handlers: checks that an account passed in is the one recorded in
the pool (they fix *which* pool, mint and vault is meant; there is one of each),
except where the choice matters to a property: the signer, the destination of
returned insurance and the submitted insurance authority are inputs. `ManyPools` is
about the rest: there every account of `Deposit`, `Withdraw` and `AccrueFees` is
chosen by the client among those of several pools, and each comparison the handler
makes is a definition of its own.

The abstraction. `ShareVault` is what a depositor can rely on. Its steps name no
amount: they relate the values before and after, so the specification says what an
entry buys (the share, rounded down; par for the first), what an exit pays (the
share, rounded down), who may be credited with what (a trading vault with tokens
that are there and nobody's) and that nothing else moves a share or the value. The
mapping reads `value` off the counters (`NetValue`), `assets` off the vault and
`priced` off `total_pool_value`: a vault has a price as long as the sums of its
lifetime counters fit. The first holder enters at par and only into a vault worth
nothing, which is what the guard against orphaned value is for (`math.rs` 28-32). One
allowance had to be made: in an insurance pool whose market was resolved and whose
insurance came back when no LP was left, the value can be uncomputable, is then read as
0 when a deposit is priced (`state.rs` 372), and the first depositor enters at par over
that value. `Enter` grants this to an insurance vault that has lost its price and to no
other; where the value can be computed, entry into orphaned value is refused in both
modes.

The wire. `Transaction` follows one instruction: the client packs it and picks an
account list (the documented one, a generous one, one nobody signed), data may be
cut anywhere or padded, the runtime drops a transaction that lists a PDA as signer
(`Reject`; a PDA signs calls of its program, never a transaction), `unpack` decodes it,
the handler takes its accounts by
position and makes its CPI, the runtime compares privileges and the wrapper decodes.
The effect on the pool is `StakeVault`'s. Bytes of a number are all different, so
that no two can change places unseen. `Documented` has the lists of the doc comments as
they are written; the one thing added is that the first account pays the fee and is
writable by that (`writable_in`).

Initial states. Either no pool exists, or (`LegacyPools`) one created by a build
whose `InitPool` left the handoff to `TransferAdmin`; that instruction is otherwise
unreachable, since `InitPool` now sets `admin_transferred` itself.

## Runs

Runs of `StakeVault` and `ManyPools` check deadlock; none occurs, since the admin can
always resubmit a configuration and the crank can always run. A `Transaction` ends,
and in `PdaCreation` everybody may run out of lamports, so those do not.

| Run | Instance | Shows |
|---|---|---|
| `books` | both modes, two symmetric users, `u64` of 0..5, donations, LP transfers and burns, flush, an insurance fund that moves by itself, return | the books (`Accounting`, `Solvent`, `NotOverdrawn`), price (`ParOrBetter`, `SharePriceNeverFalls`), an empty pool can be opened (`EmptyTogether`, `EmptyPoolIsPriced`, `Bootstrappable`), a position can be closed (`ExitIsOpen`), supply equals the records (`RecordsMatchSupply`), `InsuranceStaysInCustody`, and the refinement (`ImplementsShareVault`) |
| `handoff_and_config` | both modes, legacy pools, two possible admins, all configuration, `u64` of 0..3 | `TypeOK`, `HandoffIsReal`, `ResolutionIsFinal`, `CapHolds` |
| `high_water_mark` | both modes, three epochs, `u64` of 0..3, floor 50%, fees | `HwmProtects`, `HwmNeverOverstates` |
| `cooldown` | one user, seven slots, cooldowns 0, 2 and 3, `u64` of 0..6 | `FreshCapitalWaits`, `TopUpMovesUnlockForward` |
| `lp_math` | arguments 0..6, slots 0..5, `u64` of 0..9 | the functions against reference definitions, the Kani copy against the functions (`MirrorScope`) |
| `liveness` | mode 1, two users, `u64` of 0..5, donations, cooldown 1, three slots | `FeesGetBooked`, `DepositorsGetOut` |
| `wind_down` | mode 0, deposits and flushes of 2, two users who leave in any parts, `u64` of 0..4, floor 50% switched on and off, four epochs | `WindsDown` |
| `pda_creation` | a pool, two users, rent 3 and 2, a stranger with gifts of 1 to 3, wallets of 0 to 4 | `CreatedWhole`, `NobodyIsLockedOut`, `PaysTheShortfall` |
| `many_pools` | two symmetric markets, two symmetric depositors, `u64` of 0..4, amounts 1 and 2, LP moves and burns of 1, every choice of accounts | `EachPoolCovered`, `SharesStayApart`, `OnePoolAtATime` |
| `wire` | all 15 instructions, every cut and one byte of padding, three account lists | `DecodesTheRequest`, `WrapperDoesWhatWasAsked`, `PdaSignsForTheAdmin`, `CallsAreSigned`, `DocumentedCallsRun` |

Bounds. `MaxU64` plays `u64::MAX`: lifetime counters reach it within a few
deposits, so overflow of every counter, of their sum and of a `u128` quotient
happens in the runs, and it also bounds the state space without cutting any
behaviour of the code. With amounts 1 to 3 prices that do not divide evenly occur
(one unit of fees on two LP tokens), so both roundings are exercised. Two users are
enough for one to gain at the expense of the other; the single-user runs check
properties of one position, and other users only change the price. `MaxSlot` in
the cooldown run is two cooldowns, so positions age past the cooldown and are topped up
afterwards; it equals `MaxU64` there, so that unlocks saturate; `SlotsPerEpoch` is 1 in the high-water-mark run so that each slot is
an epoch rollover. The cooldown and cap are 0 where a run is about neither.

Fairness. The program schedules nothing: a step happens when somebody submits it. So
each liveness property names who keeps submitting what, and nobody else is fair. In
`liveness` the specification itself has no fairness and each property carries its own
as a premise, so that neither leans on the other's:

* `KeepersCrank`, the premise of `FeesGetBooked`, is weak fairness on `AccrueFees`, which anybody may call and which
  succeeds whenever its baseline can be computed (`processor.rs` 1298-1379).
* `DepositorsTry`, the premise of `DepositorsGetOut`, is weak fairness on the clock and on each user's exit with the whole
  position. The crank and the admin are not fair, so a depositor depends on neither.
  The conclusion excludes a user who keeps topping up past the horizon of the clock
  (each top-up moves the unlock forward) and exhausted counters (`finding_unpriced`).
* `WindDownSpec` is about the high-water mark, where a position leaves in parts over
  several epochs. An epoch is long, so whoever can leave does before the next slot
  (the clock waits); and since the admin may flip the protection for ever, exits and
  the clock get strong fairness: a depositor who retries gets through.
* `PdaCreation!Spec` puts weak fairness on `InitPool` and on each user's first
  deposit; strangers may pay in at any moment or never.

`WindsDown` speaks of pools at par and a floor of 50%, and excepts collateral that the
admin flushed and has not brought back: `FlushToInsurance` does not ask whether the
market is resolved, and without the collateral the last tokens may be worth nothing. With a floor of 100%, or when
one LP token is worth more than the floor leaves, the last tokens stay while the
protection is on; that is what the configuration asks for.

### Disagreements between documentation and code

Two runs state what the documentation says and are violated by what the code does:

* `finding_dust`: `state.rs` 277 says vault dust from before the first deposit is
  excluded from fee accrual. The offset is recorded only by a crank that runs while
  the supply is zero (`processor.rs` 1342): send tokens, deposit, crank, and the
  tokens are fees. The first depositor gains; nobody loses.
* `finding_unpriced`: `processor.rs` 341 says LP must always be redeemable. Lifetime
  counters never decrease and their checked sum (`state.rs` 329-332) is not
  protected when a deposit or a crank raises one of them; past `u64::MAX` of
  lifetime volume the pool has no value and every withdrawal fails. With 6-decimal
  tokens this is far away; the run shows that nothing else prevents it.
The others need no run of their own. Where a passing property states what the code
does instead, it is named:

* `instruction.rs` 164-166 lets any signing wallet become insurance authority; the
  handler accepts the vault authority only (`processor.rs` 251).
* `lib.rs` 17 says LP tokens own the vault and what was flushed; `total_pool_value`
  subtracts what was flushed (`state.rs` 337), so who leaves while it is out gives up
  that part.
* `math.rs` 95 says `pool_value_with_fees` has a value whenever deposits and fees cover
  withdrawals; it underflows midway once withdrawals exceed deposits (`ValuesAgree`).
  The program does not call it.
* `README.md` 103 calls a deposit and withdrawal lossless; both roundings go down.
  `RoundTripNeverGains` bounds what can be lost, and nothing can be gained.
* The copy of the arithmetic that `kani-proofs` verifies calls itself identical
  (`lib.rs` 22-23, 68). `MirrorScope` says where it is: prices, plain value and cooldown.
  The value with flushes underflows midway, as the program did before it was fixed, and
  the flush ceiling does not know returned insurance, so the harnesses on these two say
  nothing about the program in states after a return. `exceeds_cap` (85-91) takes
  lifetime deposits; the program tests the cap against the current value, and its
  comment says why (`processor.rs` 465-468).
* Six account lists in `instruction.rs` do not work as they are written, those of the
  other nine instructions do (`DocumentedCallsRun`):
  `InitPool` and `InitTradingPool` (9-20), since the market must be writable
  (`processor.rs` 316); `AdminResolveMarket` (133-137), since the pool must be (1154);
  `AdminWithdrawInsurance` (143-152), since the vault authority comes before the vault
  and a clock at the end (1175-1181); `FlushToInsurance` (60, 66), which is called
  permissionless and is admin-only (847-853), so that a caller who is not the admin is
  refused; and `AdminSetInsurancePolicy` (173), whose account 4 is a `[signer]` although
  the only key the handler takes there is the vault authority PDA, which cannot sign a
  transaction.
* `README.md` 62 gives the seeds of a deposit record as `b"deposit"`; the code uses
  `b"stake_deposit"` (`state.rs` 400).

The claim of `FINDINGS.md` 213, that a pool without LP supply always has a
computable value, holds (`EmptyPoolIsPriced`) for trading pools and for insurance
pools until the market is resolved.

## Proofs

For every `MaxU64`, every set of users, amounts, keys and markets, and every bound on
the clock, TLAPS proves:

| Module | Theorem | Statement |
|---|---|---|
| `StakeVault_proofs` | `TypeCorrect` | `Spec => []TypeOK` |
| | `BooksAreRight` | `Spec => []Accounting` |
| | `Solvency` | `Spec => []Solvent` |
| | `NeverOverdrawn` | `Spec => []NotOverdrawn` |
| | `NoOrphanedValue` | `Spec => []EmptyTogether` |
| | `PriceNeverFalls` | `Spec => SharePriceNeverFalls` |
| | `EmptyPoolPriced` | `Spec => []EmptyPoolIsPriced` |
| | `NeverBelowPar` | `Spec => []ParOrBetter` |
| | `GateFollowsHandoff` | `Spec => []HandoffIsReal` |
| | `ResolvedForGood` | `Spec => ResolutionIsFinal` |
| | `CapRespected` | `Spec => CapHolds` |
| | `InsuranceInCustody` | `Spec => InsuranceStaysInCustody` |
| | `SupplyIsRecorded` | `Spec => []RecordsMatchSupply` |
| | `EmptyPoolOpens` | `Spec => []Bootstrappable` |
| | `ExitStaysOpen` | `Spec => []ExitIsOpen` |
| | `Refinement` | `Spec => ImplementsShareVault` |
| `HwmHistory_proofs` | `MarkIsReal` | `HSpec => []HwmNeverOverstates` |
| | `MarkProtects` | `HSpec => HwmProtects` |
| `CooldownHistory_proofs` | `NoEarlyExit` | `HSpec => FreshCapitalWaits` |
| | `TopUpsOnlyDelay` | `HSpec => TopUpMovesUnlockForward` |
| `PdaCreation_proofs` | `WholeOrAbsent` | `Spec => []CreatedWhole` |
| | `ShortfallOnly` | `Spec => PaysTheShortfall` |
| `ManyPools_proofs` | `PoolsCovered` | `Spec => []EachPoolCovered` |
| | `PoolsKeptApart` | `Spec => OnePoolAtATime` |
| | `SharesKeptApart` | `Spec => []SharesStayApart` |
| `MCStakeMath_proofs` | `MintedFairly` | `Spec => []LpIsFairShare` |
| | `NoFreeRoundTrip` | `Spec => []RoundTripNeverGains` |
| | `NoGainFromSplitting` | `Spec => []SplittingNeverGains` |
| | `BlendComputesAverage` | `Spec => []SlotIsFlooredAverage` |
| | `OneValue` | `Spec => []ValuesAgree` |
| | `KaniCopyIsFaithful` | `Spec => []MirrorScope` |
| `Transaction_proofs` | `RequestsDecoded` | `Spec => []DecodesTheRequest` |
| | `WrapperAsked` | `Spec => []WrapperDoesWhatWasAsked` |
| | `AdminSignsForPdas` | `Spec => []PdaSignsForTheAdmin` |
| | `GenerousCallsRun` | `Spec => []CallsAreSigned` |
| | `DocsSuffice` | `Spec => []DocumentedCallsRun` |

Assumptions, all evaluated by TLC in the runs: `MaxU64` is a positive natural, inputs
are u64 values and keys, `SlotsPerEpoch` is positive, wallets and the two PDAs are
distinct keys (`MaxU64Assumption`, `InputsAssumption`, `KeysAssumption`,
`ManyAssumption`, `ArgsAssumption`); rents are positive and payers are different
wallets (`RentAssumption`); a wallet's address is on the curve and a PDA's is not
(`OffCurve`); users and depositors are finitely many (`UsersAssumption`,
`ManyAssumption`: a key has 32 bytes); and a u64 on the wire is a sequence of eight
bytes (`WireAssumption`).

**The books.** Why `Solvent` is not inductive: the crank raises `total_fees_earned` by the
difference between the vault and `accrual_baseline`, which leaves out flushed and
returned collateral. This keeps the pool solvent only if a trading pool never has
either (`ModesApart`). The crank of an empty pool sets the whole balance aside,
which is sound only if an empty trading pool has no value on its books
(`EmptyTogether`); that in turn needs the last withdrawal to pay exactly the whole
value, hence `NotOverdrawn` and the exactness of `total_pool_value`.
`Accounting` is the conjunction of these and `TypeOK`.

`StakeMath_proofs` has the nonlinear facts: a deposit mints at most its share, a
withdrawal pays at most its share and exactly everything for the last LP token. Each
handler gets one lemma with its effect on vault and counters (`DepositEffect`,
`WithdrawEffect`, `InitPoolEffect`, ...) and one that it preserves `Accounting`;
instructions that touch no counter share `QuietStep`. The share price is proved in the
same pass: every step of `AccountingStep` establishes `Accounting'` together with
`PriceKept`, the comparison of the two prices as cross products, from `EntryKeepsPrice`
(LP rounded down), `ExitKeepsPrice` (payout rounded down) and `GainKeepsPrice` (value
up, supply unchanged). Par follows from the price: who was at par and has not lost in
price is at par.

**The life of a pool.** `Lifecycle` adds two facts about the past. `EmptyPoolIsPriced`
needs `ReturnsFollowResolution`: an empty insurance pool is balanced only if no
insurance came back to it, and only a resolved market gives it back.
`ResolutionIsFinal` needs `BlankUntilInit`: an account that is not initialized has no
flags that `InitPool` could reset.

**Who holds what.** `Positions` adds to `Lifecycle` that the supply is the sum of the
records, that the wallets hold no more, and that a record with LP was initialized. A
sum defined by recursion over users would need induction over a set. `total_of` instead
counts the units of a ledger, a finite set whose cardinality the library's theorems
split at one depositor (`TotalSplits`), so a change of one entry changes the total by as
much (`TotalFollows`). The two properties about what goes through are stated with the
guards themselves, without `ENABLED`. `ExitIsOpen`: a record is at most the supply
(`TotalBounds`), so the payout is at most the value; the vault covers that (`Solvent`),
and the outflow counter stays below the sum of inflows, which is a u64 wherever the pool
is priced. `Bootstrappable`: an empty trading pool is worth nothing, so a deposit is
priced at par, and nobody has a record or a token of it left that could overflow.

**The refinement.** Under the mapping each handler that moves value is one step of the
share vault (`DepositEnters`, `WithdrawLeaves`, `FlushLends`, `ReturnRecovers`,
`AccrueCredits`, `InitPoolOpens`, `ResolveCloses`, `TransferGives`), and the others
leave the mapped state alone. `Lifecycle` supplies what the abstract guards ask for. A
price, once lost, is not found again, since the inflow counters only grow
(`PriceFollowsInflows`, `PricedWhile`), and a pool that `InitPool` made has one
(`FreshIsPriced`).

**High-water mark.** `HwmNeverOverstates` is inductive with the facts that `top` bounds
the present value and that the mark is never dated in the future (`MarkInv`), so that a
new epoch begins without one. `HwmProtects` rests on `PeakInv`: either the pool is
still at its peak or the mark remembers it. A withdrawal is the only step that leaves
a peak behind without a flush, and it refreshes the mark before it lowers the value.

**Cooldown.** `TopUpsOnlyDelay` needs that no anchor lies in the future (`AnchorInv`).
`WaitInv` says that anchor plus cooldown lie at least the fresh share of the cooldown
after the last deposit. The deposit step is `FreshShareWaits`: the share of the fresh
capital rounded up and the credit of the old capital rounded down never exceed the
cooldown together, so the floor, which subtracts the credit, leaves room for the share.

**Account creation.** Every account at a PDA is absent or whole (`Created`). The central
lemma, `CreationIsWhole`, follows `create_or_adopt_pda` through both branches; that a
payer is never the address it pays for is `OffCurve`.

**Several pools.** `Apart` says that every pool is wired to its own vault and mint
(`Wired`), is covered, and is empty on its books when it has no LP. `Shares`, proved on
top of it with the same counting, says that each supply is the sum of the pool's own
records (`SuppliesRecorded`) and that the tokens of its mint are never more
(`HoldingsBounded`): a transfer keeps their sum, a burn outside the program lowers it
(`LpMoveEffect`). The effects of `Deposit` and `Withdraw` are `Confined` to one pool and
one depositor, whatever accounts were passed: the comparisons leave only the pool's own.

**Arithmetic.** The properties of `MCStakeMath` are operators of their arguments
(`FairShare`, `RoundTrip`, ...), proved for all u64 values; the theorems about its
specification follow, for every bound on the arguments.

**The wire.** `Routed` says what is established at each stage: the data are a cut of what
the client packed, `decoded` is what `unpack` makes of them, a handler that got through
found its accounts, signed, and accepted its fields, an order is what the wrapper decodes from the
call. The rest is about the operators. `Holds` says that a field lies at an offset of the
data; `ArmsLaid` computes from the table of arms that offsets, widths and least lengths
fit together, and the lemmas on reading back, one for each number of fields (none, one,
two, four), give `Decoding`: whole data decode to the request and cut data to nothing.
`FlattenSeq`, a fold, is unrolled for these lengths (`FlattenOne`, ...). `Asked` goes
through the calls of `cpi.rs`: what the wrapper reads from the bytes is what was meant,
the u128 of an amount being its eight bytes and eight zeros. For the account lists,
`CallsWithinTaken` shows that no call needs more than the flags of the handler's own
accounts, `GenerousFound` and `DocumentedFound` compare lists by position, and
`GenerousSigns` and `DocumentedSigns` say which of them a client can sign.

Two proof attempts failed for a reason and corrected a property. `CapHolds` is false
where the cap is tested against a value read as 0 (`state.rs` 372): a market resolved by
its own admin before `InitPool`, all LP withdrawn, and returned insurance that makes the
sum of counters overflow. TLC's bounds had been too small for it; the property now names
that state and the run has `MaxU64` 3. `FreshCapitalWaits` ignored that the unlock
saturates at `u64::MAX`; it now says so, and the run reaches it.

### Only model-checked

* Liveness (`FeesGetBooked`, `DepositorsGetOut`, `WindsDown`, `NobodyIsLockedOut`): beyond
  the prover. Every other property of a passing run is stated by a theorem.
* The two disagreements above are counterexamples, found by TLC.

Two limits of the theorems about `Transaction`: they hold for all u64 fields and any
padding, while fields of other types take the values `FieldValues` lists; and the
lists of accounts are the three of `Lists`, not every list a client could make up.

## Not modelled

* Error codes: every early return is a guard, and which error is returned is not told
  apart. Logging, the entrypoint.
* Byte layouts of the accounts (`bytemuck`), discriminators, bumps and the hash behind
  PDA derivation: addresses are tuples of seeds, so two seeds never collide.
* The flush and return of insurance with accounts of several pools: the wrapper
  matches its own vault and market, which is not visible here.
* The wrapper beyond the rules the program relies on. In particular, whether it
  refuses a second resolution, or a change of admin after resolution, is not visible
  here, and the model allows both.
* The Kani harnesses and the unit tests themselves.

## Plan

Done: every part of the program that keeps or moves state; the abstract share vault
and the refinement; liveness; the wire; several pools; and a theorem for every safety
property that a run checks. Left, should the code grow:

1. the flush and return of insurance in `ManyPools`, once the wrapper's own checks of
   its accounts are available to model;
2. arbitrary account lists in `Transaction`, with each handler's comparison of keys as a
   definition of its own, as `ManyPools` has for deposits and exits.
