---------------------------- MODULE StakeLiveness ----------------------------
(***************************************************************************)
(* What must eventually happen, and what that takes.  The program schedules*)
(* nothing: a step happens when somebody submits it.  So fairness is put   *)
(* only on the clock and on instructions whose sender wants them: the      *)
(* permissionless crank, and the exits of depositors who want to leave.    *)
(***************************************************************************)
EXTENDS StakeVault

-----------------------------------------------------------------------------
(* Keepers crank, depositors close their positions *)

CloseOut(user) == Withdraw(user, deposits[user].lp_amount)

\* Keepers: the crank pays for itself and anybody may call it.
KeepersCrank == WF_vars(AccrueFees)

\* Depositors who want to leave, and the clock.
DepositorsTry == WF_vars(Tick) /\ \A user \in Users : WF_vars(CloseOut(user))

\* Tokens in the vault that are on nobody's books.
Surplus == vault - NetValue(pool) - pool.pre_supply_vault_offset

\* Every sum of lifetime counters still fits a u64, also with s more of fees.
RoomFor(s) ==
  pool.total_deposited + pool.total_returned + pool.total_fees_earned + s \in U64

\* If keepers crank, fees that arrive are not left lying: while the lifetime
\* counters have room, a trading pool keeps coming back to books that account for
\* the whole vault, however deposits, exits and further transfers interleave, and
\* also after lifetime withdrawals have passed lifetime deposits (processor.rs
\* 1336-1374, state.rs 343-367).
FeesGetBooked ==
  KeepersCrank =>
    ((pool.is_initialized /\ pool.pool_mode = TradingLp)
       ~> (Surplus = 0 \/ ~RoomFor(Surplus)))

\* Slot from which the user may withdraw.
UnlockSlot(user) == deposits[user].last_deposit_slot + pool.cooldown_slots

\* Depositors who keep submitting the exit get out, with no keeper's help: whatever
\* the others do, the position is closed, unless its owner keeps topping it up past
\* the horizon of the clock, or the lifetime counters are exhausted (processor.rs
\* 626-800).
DepositorsGetOut ==
  DepositorsTry =>
    \A user \in Users :
      deposits[user].lp_amount > 0
        ~> \/ deposits[user].lp_amount = 0
           \/ UnlockSlot(user) > MaxSlot
           \/ ~RoomFor(0)

-----------------------------------------------------------------------------
(* Winding down under the high-water mark *)

WithdrawSome(user) == \E lp \in 1 .. deposits[user].lp_amount : Withdraw(user, lp)

SomebodyCanLeave ==
  \E user \in Users : \E lp \in 1 .. deposits[user].lp_amount : withdraw_accepted(user, lp)

\* An epoch is long: everybody who wants to leave and may does so within it.
\* The admin may flip the protection for ever, so the exits and the clock need
\* strong fairness: a depositor who retries gets through when it is off again.
LateTick == Tick /\ ~SomebodyCanLeave

WindDownSpec ==
  /\ Init /\ [][Next /\ (slot' # slot => ~SomebodyCanLeave)]_vars
  /\ SF_vars(LateTick)
  /\ \A user \in Users : SF_vars(WithdrawSome(user))

\* A resolved pool at par empties although every epoch lets only half of its
\* peak go: each rollover rebases the peak (state.rs 293-301), so the floor
\* (processor.rs 725-741) sinks with the pool and reaches zero with the last
\* tokens.  Only a flush can stop that, for as long as the collateral is out: the
\* handler does not ask whether the market is resolved (processor.rs 814-924).
\* MaxSlot epochs are enough to halve MaxU64 down to nothing.
WindsDown ==
  (is_resolved(pool) /\ slot = 0 /\ NetValue(pool) = pool.total_lp_supply)
    ~> \/ pool.total_lp_supply = 0
       \/ pool.total_flushed > pool.total_returned
=============================================================================
