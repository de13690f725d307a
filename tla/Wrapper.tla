------------------------------- MODULE Wrapper -------------------------------
(***************************************************************************)
(* The percolator wrapper market behind the CPIs of cpi.rs, as far as the  *)
(* stake program depends on it: who its admin and its asset-0 authorities  *)
(* are, whether it is resolved, and the balance of its insurance fund.     *)
(* External code: the rules below are the ones that cpi.rs, instruction.rs *)
(* and the comments at the call sites rely on.                             *)
(***************************************************************************)
EXTENDS StakeMath, Keys

VARIABLE market

MarketType ==
  [admin               : AllKeys,
   insurance_authority : AllKeys,
   oracle_authority    : AllKeys,
   resolved            : BOOLEAN,
   insurance           : U64]

\* tag 32: the current admin and the incoming one both sign.
update_authority(current, new) ==
  /\ market.admin = current
  /\ market' = [market EXCEPT !.admin = new]

\* tag 65: the market admin rotates one asset-0 authority; the incoming key
\* signs too.
update_oracle_authority(current, new) ==
  /\ market.admin = current
  /\ market' = [market EXCEPT !.oracle_authority = new]

update_insurance_authority(current, new) ==
  /\ market.admin = current
  /\ market' = [market EXCEPT !.insurance_authority = new]

\* tag 19: only the market admin resolves.  Whether the wrapper refuses a second
\* resolution is not visible from here: the model lets it through.
resolve_market(signer) ==
  /\ market.admin = signer
  /\ market' = [market EXCEPT !.resolved = TRUE]

\* tag 9: a signer adds tokens of its own to the fund.  cpi.rs 34-39 calls the
\* signer the authority, processor.rs 899-901 asks only that the tokens are the
\* signer's: the model takes the weaker of the two.
top_up_insurance(amount) ==
  /\ market.insurance + amount \in U64
  /\ market' = [market EXCEPT !.insurance = @ + amount]

\* tag 41: terminal withdrawal by the insurance authority.
withdraw_insurance(signer, amount) ==
  /\ market.insurance_authority = signer
  /\ market.resolved
  /\ amount <= market.insurance
  /\ market' = [market EXCEPT !.insurance = @ - amount]

\* Trading moves the fund while the market runs: fees in, losses absorbed out.
insurance_moves(level) ==
  /\ ~market.resolved
  /\ market' = [market EXCEPT !.insurance = level]
=============================================================================
