--------------------------- MODULE EvmConformance ---------------------------
(***************************************************************************)
(* The LFVM interpreter run step by step against the EVM specification of  *)
(* the conformance tests.  A behaviour starts in one of the test states,   *)
(* as ct run generates them, and executes until the contract ends.         *)
(***************************************************************************)
EXTENDS Lfvm, CtSpecification

CONSTANTS
  TestStates,   \* the states the tests start from, by family
  Plenty        \* more gas than one instruction of a test state takes

\* As MaxGasUsedByCt: the gas of the tests pays for the linear term of the
\* largest memory, so that an overflow of the quadratic one would show, but not
\* for that memory, for evmzero and evmrs have no other limit.  It is so far
\* below the largest gas that a callee's gas can be held twice.
ASSUME GasAssumption ==
  LET words == MaxMemoryExpansionSize \div WordBytes
  IN  /\ Plenty \in 3 * words .. MemoryCost(words) - 1
      /\ 2 * Plenty + 2300 <= MaxInt64

\* The other interpreters, as the tests reach them.
F == INSTANCE Sfvm
Z == INSTANCE Evmzero
R == INSTANCE Evmrs

VARIABLE state
vars == <<state>>

\* A test with plenty of gas is also made with what the instruction takes, one
\* less and one more, with the stipend of a call that is not made on top, and
\* around the threshold of SSTORE.
GasSamples(s) ==
  LET spent == Plenty - StepN([s EXCEPT !.future = <<>>]).gas
      op == GetOperation(s, s.pc).op
  IN  {gas \in (spent - 1 .. spent + 1) : gas >= 0}
      \cup (IF op \in {"CALL", "CALLCODE"} THEN spent + 2299 .. spent + 2301 ELSE {})
      \cup (IF op = "SSTORE" THEN 2299 .. 2301 ELSE {})

Init ==
  \E family \in DOMAIN TestStates : \E s \in TestStates[family] :
    \E gas \in {s.gas} \cup (IF s.gas = Plenty THEN GasSamples(s) ELSE {}) :
      state = [s EXCEPT !.gas = gas]

Step == state' = StepN(state)

Spec == Init /\ [][Step]_vars

-----------------------------------------------------------------------------
\* A call to an account that delegates to itself while it is cold: callEffect
\* asks whether the delegate is warm before it marks the target, genericCall
\* after.  The two are known to differ there.
DelegatesToItself(s) ==
  /\ GetOperation(s, s.pc).op \in {"CALL", "CALLCODE", "STATICCALL", "DELEGATECALL"}
  /\ Len(s.stack) > 1
  /\ AddressOf(s.stack[2]) \in ParseDelegationDesignator(GetCode(s, AddressOf(s.stack[2])))

\* Whatever rule of the specification applies to a state, one step of the
\* interpreter leads to a state that st.State.Eq takes for the one the rule
\* leads to: same gas to the last unit, same memory, stack, storage, access
\* lists, refunds, logs and journals, and a failure exactly where the rule fails.
Conforms ==
  DelegatesToItself(state) \/ \A t \in Effects(state), u \in {StepN(state)} : Eq(t, u)

\* evmzero takes every state to the same state as lfvm, also where the rules
\* have a gap: two interpreters that share no code and charge for memory,
\* accounts and calls in different orders agree to the last unit of gas
\* (RunInterpreter and Impl::Run of evmzero, steps of lfvm).
EvmzeroAgrees == \A t \in {StepN(state)}, u \in {Z!InterpretNSteps(state)} : Eq(t, u)

\* So does evmrs, which has no table of costs and stack heights, but pays, pops
\* and reaches for memory piece by piece, and adds the gas a callee leaves
\* before it subtracts what the callee got (Interpreter::run, Gas::add).
EvmrsAgrees == \A t \in {StepN(state)}, u \in {R!step_n(state)} : Eq(t, u)

\* And sfvm, which shares the instructions of lfvm but runs the EVM code itself:
\* the converted code of lfvm, with data packed into arguments and positions
\* shifted, behaves as the code it was made of, wherever a jump goes and
\* wherever the code ends (convert and opPush of lfvm, findJumpDestinations
\* and opPush of sfvm).
SfvmAgrees == \A t \in {StepN(state)}, u \in {F!StepN(state)} : Eq(t, u)

\* One instruction of the code that was converted with super instructions,
\* with the JUMP_TO that may follow.
SuperStep(s, converted) ==
  LET from == [s EXCEPT !.pc = evmToLfvm(s.code, converted, @)]
      ahead(c) == c.pc < Len(converted.code) /\ converted.code[c.pc + 1].op = "JUMP_TO"
      next(c) == IF Running(c) /\ ahead(c) THEN steps(c, converted.code) ELSE c
  IN  With(steps(from, converted.code), LAMBDA c :
      With(next(c), LAMBDA d :
        [d EXCEPT !.pc = IF Running(d) THEN lfvmToEvm(s.code, converted, @) ELSE s.pc]))

\* As many steps as the instruction has parts.
PlainSteps(s, op) ==
  FoldLeft(LAMBDA t, part : StepN(t), s, IF isSuperInstruction(op) THEN decompose(op) ELSE <<op>>)

\* SWAP2_SWAP1_POP_JUMP takes the low bits of a destination that no jump takes.
TruncatesDestination(s, op) ==
  op = "SWAP2_SWAP1_POP_JUMP" /\ Len(s.stack) > 2 /\ s.stack[3] > MaxInt32

\* A super instruction does what its parts do one after the other, with the same
\* gas, and fails where one of them fails: underflow and overflow of the stack
\* halfway through, a destination that is no JUMPDEST, memory that cannot be
\* paid.  Where the code before a jump destination became shorter, a JUMP_TO
\* leads to it (appendSuperInstructions, combineStackUsage, padNoOpsUntil).
SuperInstructionsAgree ==
  \A converted \in {convert(state.code, TRUE)} :
    LET pos == evmToLfvm(state.code, converted, state.pc)
        op == converted.code[pos + 1].op
    IN  (Running(state) /\ state.pc \in DOMAIN converted.observed) =>
          \/ TruncatesDestination(state, op)
          \/ \A t \in {PlainSteps(state, op)}, u \in {SuperStep(state, converted)} : Eq(t, u)

\* A store of the value that is there already into a cold slot has no rule: the
\* table of SSTORE takes it for impossible.
ColdNoOpStore(s) ==
  /\ GetOperation(s, s.pc).op = "SSTORE" /\ s.rev >= R09_Berlin /\ ~s.readOnly
  /\ Len(s.stack) > 1 /\ s.gas >= 2300
  /\ s.stack[1] \notin s.warmKeys /\ Get(s.storage, s.stack[1]) = s.stack[2]

\* Nor has the end of code whose last PUSH lacks data: the position counts as
\* data.  The generator of the tests makes no such code.
BehindMissingData(s) == ~IsCode(s, s.pc)

\* The rules leave no other case out: a test of a state without a rule would
\* count as passed without comparing anything (runTest).  Where several rules
\* apply they lead to the same state, so that it does not matter that a test
\* applies only the first one.
RulesDecideEveryState ==
  /\ Effects(state) # {} \/ ColdNoOpStore(state) \/ BehindMissingData(state)
  /\ \A t, u \in Effects(state) : Eq(t, u)
=============================================================================
