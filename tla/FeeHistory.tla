----------------------------- MODULE FeeHistory -----------------------------
(***************************************************************************)
(* StakeVault with a history variable for trading fees: the tokens that    *)
(* plain transfers brought to the vault while LP tokens were outstanding.  *)
(***************************************************************************)
EXTENDS StakeVault

VARIABLE earned

hvars == <<pool, deposits, vault, held, market, slot, earned>>

HistoryNext ==
  earned' = IF pool.total_lp_supply > 0 /\ pool' = pool /\ vault' > vault
            THEN earned + (vault' - vault)
            ELSE earned

HInit == Init /\ earned = 0
HNext == Next /\ HistoryNext
HSpec == HInit /\ [][HNext]_hvars

\* What the doc comment of pre_supply_vault_offset says (state.rs 275-279): dust
\* that arrived before the first LP deposit is excluded from later fee accrual,
\* so the fees booked are at most what arrived while LP tokens were outstanding.
PreSupplyDustIsNoFee == pool.total_fees_earned <= earned
=============================================================================
