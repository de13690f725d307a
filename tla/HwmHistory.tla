----------------------------- MODULE HwmHistory -----------------------------
(***************************************************************************)
(* StakeVault with history variables for the high-water mark.  They watch  *)
(* the value of the pool at every step, while the program looks at it only *)
(* on deposits and withdrawals; they never guard an action.                *)
(***************************************************************************)
EXTENDS StakeVault

VARIABLES
  peak,      \* highest value since the epoch began, protection was switched on
             \* or a flush lowered the pool, whichever came last
  top        \* highest value in the whole current epoch

hvars == <<pool, deposits, vault, held, market, slot, peak, top>>

HistoryNext ==
  /\ peak' = IF /\ epoch' = epoch
                /\ hwm_enabled(pool) /\ hwm_enabled(pool')
                /\ pool'.total_flushed = pool.total_flushed
             THEN greater(peak, NetValue(pool'))
             ELSE NetValue(pool')
  /\ top' = IF epoch' = epoch THEN greater(top, NetValue(pool')) ELSE NetValue(pool')

HInit == Init /\ peak = 0 /\ top = 0
HNext == Next /\ HistoryNext
HSpec == HInit /\ [][HNext]_hvars

\* With protection on, no withdrawal takes the pool below the configured share
\* of the highest value it had since the epoch began, protection was enabled or
\* the last flush: fees and returned insurance that raised the value without
\* touching the stored peak count too (processor.rs 543-546, 725-741, state.rs
\* 289-301).
HwmProtects ==
  [][ hwm_enabled(pool) /\ pool'.total_withdrawn > pool.total_withdrawn
      => NetValue(pool') >= (peak * pool.hwm_floor_bps) \div BpsDenominator ]_hvars

\* The stored peak is one the pool really had in this epoch: the mark of an
\* earlier, richer epoch never keeps later withdrawals locked (state.rs 293-296).
HwmNeverOverstates ==
  pool.hwm_last_epoch = epoch => pool.epoch_high_water_tvl <= top
=============================================================================
