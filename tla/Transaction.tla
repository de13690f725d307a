----------------------------- MODULE Transaction -----------------------------
(***************************************************************************)
(* One instruction on its way: packed by a client, maybe cut short or      *)
(* padded by a client of another version, decoded, matched with its        *)
(* accounts, forwarded to the wrapper and decoded there.  What it does to  *)
(* the pool is StakeVault's; the pool here is initialized, the admin is    *)
(* its admin, and nothing but the wire can refuse the instruction.         *)
(***************************************************************************)
EXTENDS WrapperWire, FiniteSets

CONSTANTS
  Sent,          \* instructions that clients send
  U64Values,     \* 8 bytes each
  Padding        \* most bytes that a client may add at the end

VARIABLES
  request,       \* what the client means: [ix, fields]
  list,          \* the accounts it passes
  data,          \* the bytes that arrive
  decoded,       \* the result of unpack
  call,          \* the CPI the handler makes
  order,         \* what the wrapper is asked to do
  stage

vars == <<request, list, data, decoded, call, order, stage>>

ASSUME WireAssumption ==
  /\ Sent \subseteq DOMAIN StakeInstruction
  /\ U64Values \subseteq [1 .. Width.u64 -> 0 .. 255]
  /\ Padding \in Nat

-----------------------------------------------------------------------------
(* The client *)

FieldValues(type) ==
  CASE type = "u64"    -> U64Values
    [] type = "u16"    -> {zeros(2), <<21, 22>>, <<17, 39>>}       \* 0, 5653, 10001
    [] type = "u128"   -> {zeros(16), [i \in 1 .. 16 |-> 30 + i]}
    [] type = "flag"   -> {<<0>>, <<1>>, <<2>>}
    [] type = "Pubkey" -> {pubkey["new_authority"], pubkey["vault_auth"]}

Requests ==
  UNION { LET types == StakeInstruction[ix]
              values == UNION {FieldValues(types[i]) : i \in DOMAIN types}
          IN  {[ix |-> ix, fields |-> f] :
                 f \in {g \in [DOMAIN types -> values] :
                          \A i \in DOMAIN types : g[i] \in FieldValues(types[i])}}
          : ix \in Sent }

\* Every account the handler takes, all writable, signed by whoever can sign.
Generous(ix) == [i \in DOMAIN Taken[ix] |-> [Taken[ix][i] EXCEPT !.writable = TRUE]]

\* The same without a signature.
Unsigned(ix) == [i \in DOMAIN Taken[ix] |-> Meta(Taken[ix][i].role, FALSE, TRUE)]

Lists(ix) == {Documented[ix], Generous(ix), Unsigned(ix)}

Cuts(bytes) == {SubSeq(bytes, 1, n) : n \in 0 .. Len(bytes)}
                 \cup {bytes \o [i \in 1 .. n |-> 77] : n \in 1 .. Padding}

Send ==
  /\ stage = "client"
  /\ \E r \in Requests : \E l \in Lists(r.ix), d \in Cuts(pack(r)) :
       request' = r /\ list' = l /\ data' = d
  /\ stage' = "sent"
  /\ UNCHANGED <<decoded, call, order>>

-----------------------------------------------------------------------------
(* The runtime and the program *)

\* A transaction without the signatures that it lists does not reach the program.
Reject ==
  /\ stage = "sent" /\ ~signatures_verify(list)
  /\ stage' = "rejected"
  /\ UNCHANGED <<request, list, data, decoded, call, order>>

Unpack ==
  /\ stage = "sent" /\ signatures_verify(list)
  /\ decoded' = unpack(data)
  /\ stage' = IF decoded'.ix = "Invalid" THEN "refused" ELSE "decoded"
  /\ UNCHANGED <<request, list, data, call, order>>

\* A plausible slip: legacy fields that are not zero are ignored.
legacy_fields_ignored(fields) == TRUE

legacy_fields_zero(fields) == \A i \in 2 .. 4 : fields[i] = zeros(Len(fields[i]))

\* Checked when the protection is switched on, on a u16 in little endian.
hwm_floor_in_range(bytes) == bytes[1] + 256 * bytes[2] \in 1 .. 10000

\* Checks of the handlers that concern the decoded fields; the retired ones pass
\* theirs and fail in the CPI helper.
fields_accepted(d) ==
  CASE d.ix \in {"Deposit", "Withdraw", "FlushToInsurance"} -> d.fields[1] # zeros(8)
    [] d.ix = "AdminSetOracleAuthority" -> d.fields[1] = pubkey["new_authority"]
    [] d.ix = "AdminSetInsurancePolicy" ->
         d.fields[1] = pubkey["vault_auth"] /\ legacy_fields_zero(d.fields)
    [] d.ix = "AdminSetHwmConfig" -> d.fields[1] = <<0>> \/ hwm_floor_in_range(d.fields[2])
    [] OTHER -> ~retired(d.ix)

\* A plausible slip: only the pool signs, not the incoming authority.
insurance_seeds_of_pool == {"pool_pda"}

insurance_seeds == {"pool_pda", "vault_auth"}

\* The wrapper call of each handler.
forward(d) ==
  CASE d.ix \in {"InitPool", "InitTradingPool", "TransferAdmin"} -> cpi_update_authority
    [] d.ix = "FlushToInsurance" -> cpi_top_up_insurance(d.fields[1])
    [] d.ix = "AdminWithdrawInsurance" -> cpi_withdraw_insurance(d.fields[1])
    [] d.ix = "AdminResolveMarket" -> cpi_resolve_market
    [] d.ix = "AdminSetOracleAuthority" ->
         cpi_update_asset_authority("new_authority", zeros(2), ASSET_AUTH_ORACLE, {"pool_pda"})
    [] d.ix = "AdminSetInsurancePolicy" ->
         cpi_update_asset_authority("vault_auth", zeros(2), ASSET_AUTH_INSURANCE,
                                    insurance_seeds)
    [] OTHER -> NoCall

Handle ==
  /\ stage = "decoded"
  /\ IF found(list, Taken[decoded.ix]) /\ fields_accepted(decoded)
     THEN call' = forward(decoded) /\ stage' = "handled"
     ELSE call' = NoCall /\ stage' = "refused"
  /\ UNCHANGED <<request, list, data, decoded, order>>

\* The runtime lets the call through, or fails it and the transaction with it.
Invoke ==
  /\ stage = "handled"
  /\ IF privileges_held(call, list)
     THEN order' = wrapper_decode(call) /\ stage' = "done"
     ELSE order' = NoOrder /\ stage' = "refused"
  /\ UNCHANGED <<request, list, data, decoded, call>>

Init ==
  /\ request = [ix |-> "none", fields |-> <<>>] /\ list = <<>> /\ data = <<>>
  /\ decoded = InvalidInstructionData /\ call = NoCall /\ order = NoOrder
  /\ stage = "client"

Next == Send \/ Reject \/ Unpack \/ Handle \/ Invoke

Spec == Init /\ [][Next]_vars

-----------------------------------------------------------------------------
(* Properties *)

Whole == Len(data) >= Len(pack(request))

\* What an option or a bool means: any flag but 0 is set, and the value behind a
\* flag that is not set means nothing.
Meaning(r) ==
  CASE r.ix = "UpdateConfig" ->
         [i \in {1, 3} |-> IF r.fields[i] = <<0>> THEN <<>> ELSE r.fields[i + 1]]
    [] r.ix = "AdminSetHwmConfig" -> <<r.fields[1] # <<0>>, r.fields[2]>>
    [] OTHER -> r.fields

\* The program acts on what the client meant or on nothing: data that lost bytes
\* is refused whole, bytes behind the fields are ignored, no arm of the match
\* slices past the end of the data or takes one field for another, although the
\* lengths and the ranges are written down separately (instruction.rs 209-336).
DecodesTheRequest ==
  stage \notin {"client", "sent", "rejected"} =>
    /\ decoded.ix # "Invalid" <=> Whole
    /\ decoded.ix # "Invalid" =>
         decoded.ix = request.ix /\ Meaning(decoded) = Meaning(request)

\* The order the wrapper should get for a request.
Intended(r) ==
  LET order_for(op, fields, signers) == [op |-> op, fields |-> fields, signers |-> signers]
  IN  CASE r.ix \in {"InitPool", "InitTradingPool", "TransferAdmin"} ->
             order_for("UpdateAuthority", <<pubkey["pool_pda"]>>, {"admin", "pool_pda"})
        [] r.ix = "FlushToInsurance" ->
             order_for("TopUpInsurance", <<r.fields[1] \o zeros(8)>>, {"vault_auth"})
        [] r.ix = "AdminWithdrawInsurance" ->
             order_for("WithdrawInsurance", <<r.fields[1] \o zeros(8)>>, {"vault_auth"})
        [] r.ix = "AdminResolveMarket" -> order_for("ResolveMarket", <<>>, {"pool_pda"})
        [] r.ix = "AdminSetOracleAuthority" ->
             order_for("UpdateAssetAuthority", <<zeros(2), <<4>>, r.fields[1]>>,
                       {"pool_pda", "new_authority"})
        [] r.ix = "AdminSetInsurancePolicy" /\ \A i \in 2 .. 4 : r.fields[i] \in {zeros(2), zeros(8)} ->
             order_for("UpdateAssetAuthority", <<zeros(2), <<1>>, r.fields[1]>>,
                       {"pool_pda", "vault_auth"})
        [] OTHER -> NoOrder

\* The wrapper does what the client asked this program for: the right operation
\* on the right asset and authority, the amount as a u128 of the same value, with
\* the signatures it wants.  Nothing else reaches it: no retired instruction, no
\* policy with legacy fields it would silently lose, no part of a handler that
\* was called with its data cut (cpi.rs 16-249, processor.rs 1085-1131, 1268-1274).
WrapperDoesWhatWasAsked ==
  stage = "done" => order = Intended(request)

\* Signatures of the program's PDAs are worth as much as the signature they are
\* given for: an order the pool or the vault authority signs goes out only in a
\* transaction its admin signed (processor.rs 152-192, 283-285, 834-853).
PdaSignsForTheAdmin ==
  order # NoOrder => \E i \in DOMAIN list : list[i].role = "admin" /\ list[i].signer

\* Nothing a client can grant is missing for the calls the handlers make: with
\* every account in the handler's place, writable, and signed by those who can,
\* each instruction the program still supports gets through (cpi.rs 33-249).
CallsAreSigned ==
  stage \in {"refused", "rejected"} /\ list = Generous(request.ix) /\ Whole
    => ~fields_accepted(request)

\* Instructions whose documented list cannot be used as it stands: the market must
\* be writable for InitPool (processor.rs 316), the pool for AdminResolveMarket
\* (1154); AdminWithdrawInsurance takes the vault authority before the vault, and a
\* clock (1175-1181); FlushToInsurance is for the admin, not for any caller
\* (847-853); and the authority that AdminSetInsurancePolicy takes, the docs'
\* account 4, is a PDA that cannot be the `[signer]` they call it (238-257).
Misdocumented ==
  {"InitPool", "InitTradingPool", "AdminResolveMarket", "AdminWithdrawInsurance",
   "FlushToInsurance", "AdminSetInsurancePolicy"}

\* The accounts that the docs of an instruction list (instruction.rs 5-206), in
\* their order and with their flags, are enough to call it, except for the six
\* whose list never works (FlushToInsurance's, with a caller who is not the admin).
DocumentedCallsRun ==
  /\ stage \in {"refused", "rejected"} /\ list = Documented[request.ix] /\ Whole
       => request.ix \in Misdocumented \/ ~fields_accepted(request)
  /\ stage = "done" /\ list = Documented[request.ix]
       => request.ix \notin Misdocumented
=============================================================================
