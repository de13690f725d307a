----------------------------- MODULE WrapperWire -----------------------------
(***************************************************************************)
(* cpi.rs: the calls into the wrapper as they go over the wire, the data   *)
(* byte by byte and the accounts with the privileges they are passed with, *)
(* and how the wrapper reads them.                                         *)
(***************************************************************************)
EXTENDS InstructionCodec, AccountLists

TAG_TOP_UP_INSURANCE == 9
TAG_RESOLVE_MARKET == 19
TAG_UPDATE_AUTHORITY == 32
TAG_WITHDRAW_INSURANCE == 41
TAG_UPDATE_ASSET_AUTHORITY == 65

ASSET_AUTH_INSURANCE == 1
ASSET_AUTH_ORACLE == 4

\* The keys that travel in data, 32 bytes each.
pubkey ==
  [pool_pda |-> [i \in 1 .. 32 |-> 100 + i], vault_auth |-> [i \in 1 .. 32 |-> 140 + i],
   new_authority |-> [i \in 1 .. 32 |-> 180 + i]]

\* A plausible slip: the amount goes out as the u64 it is in this program.
push_u64(amount) == amount

push_u128_from_u64(amount) == amount \o zeros(8)

\* seeds: the PDAs that invoke_signed signs for.
Call(data, metas, seeds) == [data |-> data, metas |-> metas, seeds |-> seeds]

cpi_top_up_insurance(amount) ==
  Call(<<TAG_TOP_UP_INSURANCE>> \o push_u128_from_u64(amount),
       <<S("vault_auth"), W("slab"), W("vault"), W("wrapper_vault"), R("token_program")>>,
       {"vault_auth"})

cpi_update_authority ==
  Call(<<TAG_UPDATE_AUTHORITY>> \o pubkey["pool_pda"],
       <<S("admin"), S("pool_pda"), W("slab")>>,
       {"pool_pda"})

cpi_update_asset_authority(new_authority, asset_index, kind, seeds) ==
  Call(<<TAG_UPDATE_ASSET_AUTHORITY>> \o asset_index \o <<kind>> \o pubkey[new_authority],
       <<S("pool_pda"), S(new_authority), W("slab")>>,
       seeds)

cpi_resolve_market ==
  Call(<<TAG_RESOLVE_MARKET>>, <<S("pool_pda"), W("slab")>>, {"pool_pda"})

cpi_withdraw_insurance(amount) ==
  Call(<<TAG_WITHDRAW_INSURANCE>> \o push_u128_from_u64(amount),
       <<S("vault_auth"), W("slab"), W("vault"), W("wrapper_vault"),
         R("wrapper_vault_pda"), R("token_program")>>,
       {"vault_auth"})

NoCall == Call(<<>>, <<>>, {})

\* cpi_set_risk_threshold and cpi_set_maintenance_fee return an error and call
\* nothing.
retired(ix) == ix \in {"AdminSetRiskThreshold", "AdminSetMaintenanceFee"}

-----------------------------------------------------------------------------
(* The runtime and the wrapper *)

\* A call may not raise privileges: who signs it signed the transaction or is a
\* PDA of the calling program, what is writable was passed as writable.
privileges_held(call, list) ==
  \A m \in Range(call.metas) : \E i \in DOMAIN list :
    /\ list[i].role = m.role
    /\ m.signer => list[i].signer \/ m.role \in call.seeds
    /\ m.writable => writable_in(list, i)

NoOrder == [op |-> "none", fields |-> <<>>, signers |-> {}]

\* What the wrapper takes data for; data of another length is no order.
wrapper_decode(call) ==
  LET d == call.data
      signers == {m.role : m \in {n \in Range(call.metas) : n.signer}}
      order(op, fields) == [op |-> op, fields |-> fields, signers |-> signers]
  IN  CASE d = <<>> -> NoOrder
        [] Head(d) = 9 /\ Len(d) = 17 -> order("TopUpInsurance", <<SubSeq(d, 2, 17)>>)
        [] Head(d) = 19 /\ Len(d) = 1 -> order("ResolveMarket", <<>>)
        [] Head(d) = 32 /\ Len(d) = 33 -> order("UpdateAuthority", <<SubSeq(d, 2, 33)>>)
        [] Head(d) = 41 /\ Len(d) = 17 -> order("WithdrawInsurance", <<SubSeq(d, 2, 17)>>)
        [] Head(d) = 65 /\ Len(d) = 36 ->
             order("UpdateAssetAuthority",
                   <<SubSeq(d, 2, 3), SubSeq(d, 4, 4), SubSeq(d, 5, 36)>>)
        [] OTHER -> NoOrder
=============================================================================
