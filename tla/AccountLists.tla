---------------------------- MODULE AccountLists ----------------------------
(***************************************************************************)
(* The accounts of an instruction: what its documentation tells a client   *)
(* to pass, and what its handler takes, by position.                       *)
(***************************************************************************)
EXTENDS Naturals, Sequences

Meta(role, signer, writable) == [role |-> role, signer |-> signer, writable |-> writable]

R(role)  == Meta(role, FALSE, FALSE)     \* `[]`
W(role)  == Meta(role, FALSE, TRUE)      \* `[writable]`
S(role)  == Meta(role, TRUE, FALSE)      \* `[signer]`
SW(role) == Meta(role, TRUE, TRUE)       \* `[signer, writable]`

-----------------------------------------------------------------------------
(* The lists in the doc comments of StakeInstruction.  A "caller" is any     *)
(* wallet, not the admin's (the docs' "permissionless").  Account 4 of       *)
(* AdminSetInsurancePolicy, "New insurance authority or vault_auth PDA", is  *)
(* the latter: its handler takes no other.                                   *)

InitPoolDoc ==
  <<SW("admin"), R("slab"), W("pool_pda"), W("lp_mint"), W("vault"), R("vault_auth"),
    R("collateral_mint"), R("percolator_program"), R("token_program"),
    R("system_program"), R("rent")>>

ConfigDoc == <<S("admin"), W("pool_pda")>>

ForwardDoc == <<S("admin"), R("pool_pda"), W("slab"), R("percolator_program")>>

Documented ==
  [InitPool |-> InitPoolDoc,
   InitTradingPool |-> InitPoolDoc,
   Deposit |->
     <<S("user"), W("pool_pda"), W("user_ata"), W("vault"), W("lp_mint"), W("user_lp_ata"),
       R("vault_auth"), W("deposit_pda"), R("token_program"), R("clock"), R("system_program")>>,
   Withdraw |->
     <<S("user"), W("pool_pda"), W("user_lp_ata"), W("lp_mint"), W("vault"), W("user_ata"),
       R("vault_auth"), W("deposit_pda"), R("token_program"), R("clock")>>,
   FlushToInsurance |->
     <<S("caller"), W("pool_pda"), W("vault"), R("vault_auth"), W("slab"), W("wrapper_vault"),
       R("percolator_program"), R("token_program")>>,
   UpdateConfig |-> ConfigDoc,
   TransferAdmin |-> <<S("admin"), W("pool_pda"), W("slab"), R("percolator_program")>>,
   AdminSetOracleAuthority |-> Append(ForwardDoc, S("new_authority")),
   AdminSetRiskThreshold |-> ForwardDoc,
   AdminSetMaintenanceFee |-> ForwardDoc,
   AdminResolveMarket |-> ForwardDoc,
   AdminWithdrawInsurance |->
     <<S("admin"), W("pool_pda"), W("slab"), W("vault"), R("vault_auth"), W("wrapper_vault"),
       R("wrapper_vault_pda"), R("percolator_program"), R("token_program")>>,
   AdminSetInsurancePolicy |-> Append(ForwardDoc, S("vault_auth")),
   AccrueFees |-> <<S("caller"), W("pool_pda"), R("vault"), R("clock")>>,
   AdminSetHwmConfig |-> ConfigDoc]

-----------------------------------------------------------------------------
(* What the handlers take with next_account_info.  A signer is checked; an  *)
(* account is writable when the handler, or a token or system instruction   *)
(* it invokes, changes it.  Each handler compares the keys, or leaves that  *)
(* to the program it hands the account to: another account in the same     *)
(* place fails.                                                             *)

process_init_pool_accounts ==
  <<SW("admin"), W("slab"), W("pool_pda"), W("lp_mint"), W("vault"), R("vault_auth"),
    R("collateral_mint"), R("percolator_program"), R("token_program"),
    R("system_program"), R("rent")>>

\* A plausible slip: an account is added to a handler and not to its docs.
config_accounts_with_clock == <<S("admin"), W("pool_pda"), R("clock")>>

\* process_update_config and process_admin_set_hwm_config
process_config_accounts == <<S("admin"), W("pool_pda")>>

\* Handlers that only pass an order on.
process_forward_accounts ==
  <<S("admin"), R("pool_pda"), R("slab"), R("percolator_program")>>

Taken ==
  [InitPool |-> process_init_pool_accounts,
   InitTradingPool |-> process_init_pool_accounts,
   Deposit |->
     <<SW("user"), W("pool_pda"), W("user_ata"), W("vault"), W("lp_mint"), W("user_lp_ata"),
       R("vault_auth"), W("deposit_pda"), R("token_program"), R("clock"), R("system_program")>>,
   Withdraw |->
     <<S("user"), W("pool_pda"), W("user_lp_ata"), W("lp_mint"), W("vault"), W("user_ata"),
       R("vault_auth"), W("deposit_pda"), R("token_program"), R("clock")>>,
   FlushToInsurance |->
     <<S("admin"), W("pool_pda"), R("vault"), R("vault_auth"), R("slab"), R("wrapper_vault"),
       R("percolator_program"), R("token_program")>>,
   UpdateConfig |-> process_config_accounts,
   TransferAdmin |-> <<S("admin"), W("pool_pda"), R("slab"), R("percolator_program")>>,
   AdminSetOracleAuthority |-> Append(process_forward_accounts, S("new_authority")),
   AdminSetRiskThreshold |-> process_forward_accounts,
   AdminSetMaintenanceFee |-> process_forward_accounts,
   AdminResolveMarket |->
     <<S("admin"), W("pool_pda"), R("slab"), R("percolator_program")>>,
   AdminWithdrawInsurance |->
     <<S("admin"), W("pool_pda"), R("slab"), R("vault_auth"), R("vault"), R("wrapper_vault"),
       R("wrapper_vault_pda"), R("percolator_program"), R("token_program"), R("clock")>>,
   AdminSetInsurancePolicy |-> Append(process_forward_accounts, R("vault_auth")),
   AccrueFees |-> <<S("caller"), W("pool_pda"), R("vault"), R("clock")>>,
   AdminSetHwmConfig |-> process_config_accounts]

-----------------------------------------------------------------------------
(* The runtime and the checks together *)

\* Addresses that programs derive: nobody has a key for them.
Pdas == {"pool_pda", "vault_auth", "deposit_pda", "wrapper_vault_pda"}

\* The runtime drops a transaction unless every account that is listed as a
\* signer has signed it.
signatures_verify(list) == \A i \in DOMAIN list : list[i].signer => list[i].role \notin Pdas

\* The first account pays the transaction's fee and is writable by that.
writable_in(list, i) == list[i].writable \/ i = 1

\* A plausible slip: the handlers trust the list about who signed.
found_unsigned(list, taken) ==
  /\ Len(list) >= Len(taken)
  /\ \A i \in DOMAIN taken :
       /\ list[i].role = taken[i].role
       /\ taken[i].writable => writable_in(list, i)

\* The handler finds in list what it takes, signed and writable where it must be.
found(list, taken) ==
  /\ Len(list) >= Len(taken)
  /\ \A i \in DOMAIN taken :
       /\ list[i].role = taken[i].role
       /\ taken[i].signer => list[i].signer
       /\ taken[i].writable => writable_in(list, i)
=============================================================================
