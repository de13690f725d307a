--------------------------- MODULE CooldownHistory ---------------------------
(***************************************************************************)
(* StakeVault with a history variable for the withdrawal cooldown: when    *)
(* each user last put fresh capital in, under which cooldown, and the part *)
(* of it that the fresh share of the position calls for.                   *)
(***************************************************************************)
EXTENDS StakeVault

VARIABLE entered

hvars == <<pool, deposits, vault, held, market, slot, entered>>

\* cooldown * fresh / total, rounded up.
fresh_share(cooldown, fresh, total) == (cooldown * fresh + total - 1) \div total

HistoryNext ==
  entered' =
    [u \in Users |->
       LET old == deposits[u].lp_amount
           new == deposits'[u].lp_amount
       IN  IF new > old
           THEN [slot |-> slot, cooldown |-> pool.cooldown_slots,
                 wait |-> fresh_share(pool.cooldown_slots, new - old, new)]
           ELSE entered[u]]

HInit == Init /\ entered = [u \in Users |-> [slot |-> 0, cooldown |-> 0, wait |-> 0]]
HNext == Next /\ HistoryNext
HSpec == HInit /\ [][HNext]_hvars

\* Fresh capital waits: unless the admin has shortened the cooldown since, a
\* user withdraws no sooner after a deposit than the cooldown's share that this
\* deposit has in the position, whatever the age of the rest, or than the end of
\* the u64 range of slots (issue 39; math.rs 193-236, processor.rs 603-609,
\* 705-711).
FreshCapitalWaits ==
  [][ \A u \in Users :
        /\ deposits'[u].lp_amount < deposits[u].lp_amount
        /\ pool.cooldown_slots >= entered[u].cooldown
        => slot >= saturating_add(entered[u].slot, entered[u].wait) ]_hvars

\* A top-up never unlocks an existing position sooner than it would have been,
\* and never locks it beyond one full cooldown from now (math.rs 193-236).
TopUpMovesUnlockForward ==
  [][ \A u \in Users :
        deposits'[u].lp_amount > deposits[u].lp_amount
        => /\ deposits'[u].last_deposit_slot <= slot
           /\ deposits[u].lp_amount > 0
                => deposits'[u].last_deposit_slot >= deposits[u].last_deposit_slot ]_hvars
=============================================================================
