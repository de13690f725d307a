-------------------------- MODULE InstructionCodec --------------------------
(***************************************************************************)
(* StakeInstruction and its unpack.  Data is a sequence of bytes, and a    *)
(* number or a key is the sequence of its bytes: from_le_bytes and         *)
(* Pubkey::try_from turn those into a value one to one.                    *)
(***************************************************************************)
EXTENDS Naturals, Sequences, SequencesExt

zeros(n) == [i \in 1 .. n |-> 0]

\* The enum: the types of each variant's fields, in order of declaration.  An
\* Option<u64> travels as a flag byte and a u64.
StakeInstruction ==
  [InitPool |-> <<"u64", "u64">>, Deposit |-> <<"u64">>, Withdraw |-> <<"u64">>,
   FlushToInsurance |-> <<"u64">>, UpdateConfig |-> <<"flag", "u64", "flag", "u64">>,
   TransferAdmin |-> <<>>, AdminSetOracleAuthority |-> <<"Pubkey">>,
   AdminSetRiskThreshold |-> <<"u128">>, AdminSetMaintenanceFee |-> <<"u128">>,
   AdminResolveMarket |-> <<>>, AdminWithdrawInsurance |-> <<"u64">>,
   AdminSetInsurancePolicy |-> <<"Pubkey", "u64", "u16", "u64">>,
   AccrueFees |-> <<>>, InitTradingPool |-> <<"u64", "u64">>,
   AdminSetHwmConfig |-> <<"flag", "u16">>]

Width == [flag |-> 1, u16 |-> 2, u64 |-> 8, u128 |-> 16, Pubkey |-> 32]

-----------------------------------------------------------------------------
(* unpack *)

\* The arms of the match, tags 0 to 14: the variant, the least length of the
\* data after the tag, and the range rest[from..to] of each field.
Arm(ix, len, ranges) == [ix |-> ix, len |-> len, ranges |-> ranges]

Arms ==
  <<Arm("InitPool", 16, <<<<0, 8>>, <<8, 16>>>>),
    Arm("Deposit", 8, <<<<0, 8>>>>),
    Arm("Withdraw", 8, <<<<0, 8>>>>),
    Arm("FlushToInsurance", 8, <<<<0, 8>>>>),
    Arm("UpdateConfig", 18, <<<<0, 1>>, <<1, 9>>, <<9, 10>>, <<10, 18>>>>),
    Arm("TransferAdmin", 0, <<>>),
    Arm("AdminSetOracleAuthority", 32, <<<<0, 32>>>>),
    Arm("AdminSetRiskThreshold", 16, <<<<0, 16>>>>),
    Arm("AdminSetMaintenanceFee", 16, <<<<0, 16>>>>),
    Arm("AdminResolveMarket", 0, <<>>),
    Arm("AdminWithdrawInsurance", 8, <<<<0, 8>>>>),
    Arm("AdminSetInsurancePolicy", 50, <<<<0, 32>>, <<32, 40>>, <<40, 42>>, <<42, 50>>>>),
    Arm("AccrueFees", 0, <<>>),
    Arm("InitTradingPool", 16, <<<<0, 8>>, <<8, 16>>>>),
    Arm("AdminSetHwmConfig", 3, <<<<0, 1>>, <<1, 3>>>>)>>

\* Slicing past the end is a panic, not an error the caller sees.
slice(rest, range) ==
  IF range[2] <= Len(rest) THEN SubSeq(rest, range[1] + 1, range[2]) ELSE <<"panic">>

InvalidInstructionData == [ix |-> "Invalid", fields |-> <<>>]

\* A plausible slip: off by one against a length that still counts the tag.
too_short_counting_tag(rest, len) == Len(rest) + 1 < len

too_short(rest, len) == Len(rest) < len

unpack(data) ==
  IF data = <<>> \/ Head(data) + 1 \notin DOMAIN Arms THEN InvalidInstructionData
  ELSE LET arm  == Arms[Head(data) + 1]
           rest == Tail(data)
       IN  IF too_short(rest, arm.len) THEN InvalidInstructionData
           ELSE [ix |-> arm.ix,
                 fields |-> [i \in DOMAIN arm.ranges |-> slice(rest, arm.ranges[i])]]

-----------------------------------------------------------------------------
(* What clients pack: the tag and the fields in order, as the unit tests do *)

pack(request) ==
  LET tag == (CHOOSE t \in DOMAIN Arms : Arms[t].ix = request.ix) - 1
  IN  <<tag>> \o FlattenSeq(request.fields)
=============================================================================
