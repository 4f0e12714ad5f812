------------------------------ MODULE EvmcHost ------------------------------
(***************************************************************************)
(* The host of go/interpreter/evmc: what an interpreter that is loaded as  *)
(* an EVMC library sees of the run context, here the one of the            *)
(* conformance tests.  What the host passes on unchanged is used directly. *)
(***************************************************************************)
EXTENDS EvmState

AccountExists(c, address) == ~IsEmpty(c, address)
HostGetCodeHash(c, address) == IF IsEmpty(c, address) THEN 0 ELSE GetCodeHash(c, address)

\* The run context of the tests knows the last 256 blocks.
GetBlockHash(number) ==
  LET max == Ctx.number
      min == IF max > 256 THEN max - 256 ELSE 0
  IN  IF min > number \/ number >= max THEN 0 ELSE RecentBlockHash(max - number - 1)

\* EVMC knows no static calls, only calls with a flag.
HostCall(c, msg) ==
  Call(c, [kind |-> IF msg.kind = "CALL" /\ msg.static THEN "STATICCALL" ELSE msg.kind,
           sender |-> msg.sender, recipient |-> msg.recipient, code |-> msg.code_address,
           value |-> msg.value, input |-> msg.input, gas |-> msg.gas])
=============================================================================
