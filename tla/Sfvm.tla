-------------------------------- MODULE Sfvm --------------------------------
(***************************************************************************)
(* One iteration of the loop of the SFVM interpreter (go/interpreter/sfvm) *)
(* through the adapter of the tests.  It executes EVM code as it is: data  *)
(* of a PUSH is read from the code, and an analysis made before the run    *)
(* says where a jump may go.  All other functions are, line by line, those *)
(* of lfvm, and the operators here refer to them in groups.                *)
(***************************************************************************)
EXTENDS EvmState

L == INSTANCE Lfvm

-----------------------------------------------------------------------------
\* The analysis: the positions that jumps may go to.

\* Mutant: the last byte of data of a PUSH is taken for an instruction.
findJumpDestinationsShort(code) ==
  LET visit(found, pos) ==
        LET i == code[pos + 1]
        IN  IF pos < found.next THEN found
            ELSE IF i.op = "PUSH" THEN [found EXCEPT !.next = pos + i.n]
            ELSE IF i.op = "JUMPDEST" THEN [found EXCEPT !.marked = @ \cup {pos}] ELSE found
  IN  FoldLeft(visit, [next |-> 0, marked |-> {}], [k \in 1 .. Len(code) |-> k - 1]).marked

\* In one pass, skipping the data of each PUSH.
findJumpDestinations(code) ==
  LET visit(found, pos) ==
        LET i == code[pos + 1]
        IN  IF pos < found.next THEN found
            ELSE IF i.op = "PUSH" THEN [found EXCEPT !.next = pos + i.n + 1]
            ELSE IF i.op = "JUMPDEST" THEN [found EXCEPT !.marked = @ \cup {pos}] ELSE found
  IN  FoldLeft(visit, [next |-> 0, marked |-> {}], [k \in 1 .. Len(code) |-> k - 1]).marked

isJumpDest(analysis, idx) == idx \in analysis

checkJumpDest(c, destination) ==
  IF destination >= Len(c.code) \/ ~isJumpDest(findJumpDestinations(c.code), destination)
  THEN Fail(c)
  ELSE [c EXCEPT !.pc = destination - 1]

jumpTo(c, destination) ==
  IF ~IsUint64(destination) \/ Uint64(destination) > MaxInt32 THEN Fail(c)
  ELSE checkJumpDest(c, destination)

opJump(c) == jumpTo(Pop(c, 1), c.stack[1])
opJumpi(c) == IF c.stack[2] # 0 THEN jumpTo(Pop(c, 2), c.stack[1]) ELSE Pop(c, 2)

-----------------------------------------------------------------------------
opPc(c) == Push(c, c.pc)

\* Bytes that are missing at the end of the code are shifted in as zeros; the
\* program counter moves as if they were there.
opPush(c, n) ==
  LET start == MinOf(Len(c.code), c.pc + 1)
      end == MinOf(Len(c.code), start + n)
      value == FromBytes(SubSeq(CodeBytes(c), start + 1, end))
  IN  [Push(c, Lsh(value, ByteBits * (n - (end - start)))) EXCEPT !.pc = @ + n]

-----------------------------------------------------------------------------
\* As in lfvm, in the order of the source.

StackAndMemoryOps == {"POP", "PUSH0", "DUP", "SWAP", "MLOAD", "MSTORE", "MSTORE8", "MCOPY"}
LogicOps == L!ComparisonOps \cup {"SIGNEXTEND", "ISZERO", "NOT", "CLZ"}

stackAndMemoryOp(c, i) == L!wordOp(c, i)
storageOp(c, i) == L!effectOp(c, i)
genericDataCopy(c, source) == L!genericDataCopy(c, source)
logicOp(c, i) == L!wordOp(c, i)
arithmeticOp(c, i) == L!wordOp(c, i)
environmentOp(c, i) == Push(c, L!environmentOp(c, i.op))
balanceAndFeeOp(c, i) == L!dataOp(c, i)
opSelfdestruct(c) == L!opSelfdestruct(c)
blockAndCodeOp(c, i) == L!dataOp(c, i)
genericCreate(c, kind) == L!genericCreate(c, kind)
opExtCodeCopy(c) == L!opExtCodeCopy(c)
genericCall(c, kind) == L!genericCall(c, kind)
opCall(c) == L!opCall(c)
opReturnDataCopy(c) == L!opReturnDataCopy(c)
opLog(c, n) == L!opLog(c, n)

getStaticGasPriceInternal(i) == L!getStaticGasPriceInternal(i)
getStaticGasPrice(revision, i) ==
  IF revision >= R09_Berlin /\ i.op \in L!AccessOps THEN 0 ELSE getStaticGasPriceInternal(i)

computeStackUsage(i) == L!stackUsage(i)
checkStackLimits(c, i) ==
  LET usage == computeStackUsage(i)
  IN  Len(c.stack) >= -usage.from /\ Len(c.stack) <= MaxStackSize - usage.to

-----------------------------------------------------------------------------
\* The main loop

plainOp(c, i) ==
  CASE i.op = "PC" -> opPc(c)
    [] i.op = "PUSH" -> opPush(c, i.n)
    [] i.op = "JUMP" -> opJump(c)
    [] i.op = "JUMPI" -> opJumpi(c)
    [] i.op = "JUMPDEST" -> c
    [] i.op \in StackAndMemoryOps -> stackAndMemoryOp(c, i)
    [] i.op \in LogicOps -> logicOp(c, i)
    [] i.op \in L!ArithmeticOps \cup {"ADDMOD", "MULMOD", "EXP", "SHA3"} -> arithmeticOp(c, i)

PlainOps == {"PC", "PUSH", "JUMP", "JUMPI", "JUMPDEST", "ADDMOD", "MULMOD", "EXP", "SHA3"}
            \cup StackAndMemoryOps \cup LogicOps \cup L!ArithmeticOps

dispatch(c, i) ==
  CASE i.op \in PlainOps -> plainOp(c, i)
    [] i.op = "STOP" -> [c EXCEPT !.status = "stopped"]
    [] i.op \in {"RETURN", "REVERT"} ->
         L!opEndWithResult(c, IF i.op = "RETURN" THEN "stopped" ELSE "reverted")
    [] i.op \in {"SLOAD", "SSTORE", "TLOAD", "TSTORE"} -> storageOp(c, i)
    [] i.op \in L!PushOps -> environmentOp(c, i)
    [] i.op = "CALLDATALOAD" -> L!opCallDataload(c)
    [] i.op = "CALLDATACOPY" -> genericDataCopy(c, Ctx.callData)
    [] i.op = "CODECOPY" -> genericDataCopy(c, CodeBytes(c))
    [] i.op = "RETURNDATACOPY" -> opReturnDataCopy(c)
    [] i.op = "EXTCODECOPY" -> opExtCodeCopy(c)
    [] i.op \in {"BALANCE", "BASEFEE", "BLOBHASH", "BLOBBASEFEE"} -> balanceAndFeeOp(c, i)
    [] i.op \in {"BLOCKHASH", "EXTCODESIZE", "EXTCODEHASH"} -> blockAndCodeOp(c, i)
    [] i.op = "SELFDESTRUCT" -> opSelfdestruct(c)
    [] i.op = "LOG" -> opLog(c, i.n)
    [] i.op \in {"CREATE", "CREATE2"} -> genericCreate(c, i.op)
    [] i.op = "CALL" -> opCall(c)
    [] i.op \in {"CALLCODE", "STATICCALL", "DELEGATECALL"} -> genericCall(c, i.op)
    [] OTHER -> Fail(c)

\* One iteration.
steps(c) ==
  LET i == c.code[c.pc + 1]
  IN  IF c.pc >= Len(c.code) THEN [c EXCEPT !.status = "stopped"]
      ELSE IF ~checkStackLimits(c, i) THEN Fail(c)
      ELSE Then(L!useGas(c, getStaticGasPrice(c.rev, i)), LAMBDA d :
           Then(dispatch(d, i), LAMBDA e : [e EXCEPT !.pc = @ + 1]))

\* A state that is not running is handed back as it is.
StepN(s) == IF Running(s) THEN steps(s) ELSE s
=============================================================================
