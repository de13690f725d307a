----------------------------- MODULE ShareVault -----------------------------
(***************************************************************************)
(* What the program promises its depositors, without counters, accounts,   *)
(* market or widths: a vault of tokens of which the holders of shares own  *)
(* a part.  Amounts are read off the step itself (value' - value), so the  *)
(* specification bounds nothing.                                           *)
(***************************************************************************)
EXTENDS Integers

CONSTANT Holders

VARIABLES
  kind,      \* "none" until the vault is opened, then "insurance" or "trading"
  closed,    \* no new shares are sold
  shares,    \* shares on record for each holder
  supply,    \* all shares
  value,     \* tokens the holders own together
  assets,    \* tokens in custody
  priced     \* can the vault still tell what it is worth?

svars == <<kind, closed, shares, supply, value, assets, priced>>

Init ==
  /\ kind \in {"none", "insurance", "trading"}
  /\ closed = FALSE
  /\ shares = [h \in Holders |-> 0]
  /\ supply = 0 /\ value = 0 /\ assets = 0
  /\ priced = TRUE

\* Tokens that come in may exhaust the books; a price that is lost stays lost.
MayLosePrice == priced' \in {priced, FALSE}

\* part is what the fraction n/d of whole comes to, rounded down.
RoundedShare(part, n, d, whole) == part * d <= n * whole /\ n * whole < (part + 1) * d

Open ==
  /\ kind = "none"
  /\ kind' \in {"insurance", "trading"}
  /\ UNCHANGED <<closed, shares, supply, value, assets, priced>>

\* The first holder buys at par, into a vault that is worth nothing; only what an
\* insurance vault recovered when nobody held a share, and can no longer put a
\* price on, may fall to that holder.  Every other one gets the share of the
\* supply that the tokens are of the value, and none while that is unknown.
Enter(h) ==
  LET amount == value' - value
      minted == supply' - supply
  IN  /\ kind # "none" /\ ~closed
      /\ amount > 0 /\ minted > 0
      /\ IF supply = 0
         THEN minted = amount /\ (value = 0 \/ (kind = "insurance" /\ ~priced))
         ELSE priced /\ value > 0 /\ RoundedShare(minted, amount, value, supply)
      /\ shares' = [shares EXCEPT ![h] = @ + minted]
      /\ assets' = assets + amount
      /\ MayLosePrice
      /\ UNCHANGED <<kind, closed>>

\* A holder gives up shares on record for their part of a value that is known.
Leave(h) ==
  LET burned == supply - supply'
      paid   == value - value'
  IN  /\ priced
      /\ burned > 0 /\ burned <= shares[h] /\ burned <= supply
      /\ paid > 0 /\ RoundedShare(paid, burned, supply, value)
      /\ shares' = [shares EXCEPT ![h] = @ - burned]
      /\ assets' = assets - paid
      /\ UNCHANGED <<kind, closed, priced>>

\* An insurance vault lends tokens out and may get more or less of them back.
Lend ==
  /\ kind = "insurance" /\ priced
  /\ 0 <= value' /\ value' < value
  /\ assets' - assets = value' - value
  /\ UNCHANGED <<kind, closed, shares, supply, priced>>

Recover ==
  /\ kind = "insurance"
  /\ value' > value
  /\ assets' - assets = value' - value
  /\ MayLosePrice
  /\ UNCHANGED <<kind, closed, shares, supply>>

\* Tokens arrive that nobody owns yet.
Gift ==
  /\ kind # "none"
  /\ assets' > assets
  /\ UNCHANGED <<kind, closed, shares, supply, value, priced>>

\* A trading vault gives its holders tokens that are there and nobody's.
Credit ==
  /\ kind = "trading" /\ supply > 0 /\ priced
  /\ value' > value /\ value' <= assets
  /\ MayLosePrice
  /\ UNCHANGED <<kind, closed, shares, supply, assets>>

Close ==
  /\ kind # "none"
  /\ closed' = TRUE
  /\ UNCHANGED <<kind, shares, supply, value, assets, priced>>

Next ==
  \/ Open \/ Lend \/ Recover \/ Gift \/ Credit \/ Close
  \/ \E h \in Holders : Enter(h) \/ Leave(h)

Spec == Init /\ [][Next]_svars
=============================================================================
