------------------------ MODULE StakeVaultRefinement ------------------------
(***************************************************************************)
(* The stake program implements the share vault: seven lifetime counters   *)
(* in u64, the vault account, the records and the flag byte together do    *)
(* what ShareVault says, in either pool mode.                              *)
(***************************************************************************)
EXTENDS StakeVault

vault_kind ==
  IF ~pool.is_initialized THEN "none"
  ELSE IF pool.pool_mode = TradingLp THEN "trading" ELSE "insurance"

SV == INSTANCE ShareVault WITH
        Holders <- Users,
        kind    <- vault_kind,
        closed  <- is_resolved(pool),
        shares  <- [u \in Users |-> deposits[u].lp_amount],
        supply  <- pool.total_lp_supply,
        value   <- NetValue(pool),
        assets  <- vault,
        priced  <- total_pool_value(pool) # None

\* Every instruction is one step of the share vault or none: nobody enters or
\* leaves at more or less than the rounded-down share, holders are credited with
\* nothing that is not in the vault, a trading pool never lends, and whatever
\* the admin configures, transfers or cranks in between changes no one's part
\* (processor.rs 406-924, 1165-1243, 1298-1379).
ImplementsShareVault == SV!Spec
=============================================================================
