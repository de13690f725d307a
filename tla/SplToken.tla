------------------------------ MODULE SplToken ------------------------------
(***************************************************************************)
(* The part of the SPL token program the stake program moves: the balance  *)
(* of the pool's vault account and the LP tokens each wallet holds.        *)
(* Depositors' collateral wallets are outside the model.  External code,   *)
(* modelled from how processor.rs calls it: a transfer fails rather than   *)
(* overflow the receiving balance or overdraw the paying one.              *)
(***************************************************************************)
EXTENDS StakeMath, Keys

VARIABLES vault,       \* amount of the vault token account
          held         \* LP tokens in each wallet

tokenVars == <<vault, held>>

TokenTypeOK ==
  /\ vault \in U64
  /\ held \in [Users -> U64]

TokenInit ==
  /\ vault = 0
  /\ held = [u \in Users |-> 0]

\* When the token program lets a movement through.
vault_takes(amount) == vault + amount \in U64
vault_has(amount)   == amount <= vault
mintable(user, lp)  == held[user] + lp \in U64
burnable(user, lp)  == lp <= held[user]

transfer_to_vault(amount) ==
  /\ vault_takes(amount)
  /\ vault' = vault + amount

transfer_from_vault(amount) ==
  /\ vault_has(amount)
  /\ vault' = vault - amount

mint_to(user, lp) ==
  /\ mintable(user, lp)
  /\ held' = [held EXCEPT ![user] = @ + lp]

burn(user, lp) ==
  /\ burnable(user, lp)
  /\ held' = [held EXCEPT ![user] = @ - lp]

transfer_lp(from, to, lp) ==
  /\ from # to
  /\ lp <= held[from]
  /\ held[to] + lp \in U64
  /\ held' = [held EXCEPT ![from] = @ - lp, ![to] = @ + lp]
=============================================================================
