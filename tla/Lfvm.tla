-------------------------------- MODULE Lfvm --------------------------------
(***************************************************************************)
(* The LFVM interpreter (go/interpreter/lfvm): one iteration of its main   *)
(* loop as a function from states to states.  An operation that returns an *)
(* error is one that yields a failed state; the conformance adapter runs   *)
(* the loop one instruction at a time and copies the context back.         *)
(*                                                                         *)
(* The program counter of the context `c' counts instructions of the       *)
(* converted code, which is handed to the operations that read it; c.code  *)
(* is still the EVM code, which CODESIZE and CODECOPY are about.           *)
(***************************************************************************)
EXTENDS LfvmConverter

isAtLeast(c, revision) == c.rev >= revision
Top(c) == c.stack[1]

useGas(c, amount) ==
  IF c.gas < 0 \/ amount < 0 \/ c.gas < amount THEN Fail(c)
  ELSE [c EXCEPT !.gas = @ - amount]

-----------------------------------------------------------------------------
\* Memory

\* The cost of the present memory is that of its size in words: it is kept in
\* currentMemoryCost by every expansion, and set to it by the adapter.
expandMemory(c, offset, size) ==
  LET needed == Uint64(offset + size)
      words == SizeInWords(needed)
      validSize == Uint64(words * WordBytes)
  IN  IF size = 0 THEN c
      ELSE IF needed < offset THEN Fail(c)
      ELSE IF Len(c.memory) >= needed THEN c
      ELSE IF validSize < needed \/ validSize > MaxMemoryExpansionSize THEN Fail(c)
      ELSE Then(useGas(c, MemoryCost(words) - MemoryCost(SizeInWords(Len(c.memory)))),
                LAMBDA d : [d EXCEPT !.memory = @ \o Zeros(validSize - Len(@))])

\* Makes the slice accessible; the slice itself is Span(memory, offset, size).
getSlice(c, offset, size) ==
  IF size = 0 THEN c
  ELSE IF ~IsUint64(offset) \/ ~IsUint64(size) THEN Fail(c)
  ELSE expandMemory(c, offset, size)

set(c, offset, value) ==
  Then(getSlice(c, offset, Len(value)), LAMBDA d :
    [d EXCEPT !.memory = Overwrite(@, offset, value)])

\* Data outside of memory, padded with zeros on the right.
getData(data, offset, size) ==
  [i \in 1 .. size |-> IF offset + i <= Len(data) THEN data[offset + i] ELSE 0]

-----------------------------------------------------------------------------
\* Control flow and stack

opEndWithResult(c, status) ==
  LET offset == c.stack[1]
      size == c.stack[2]
  IN  Then(getSlice(Pop(c, 2), offset, size), LAMBDA d :
        [d EXCEPT !.lastReturn = Span(d.memory, offset, size),
                  !.returnData = Span(d.memory, offset, size),
                  !.status = status])

\* To the position before the destination, which the loop then steps over.
\* Before the start of the code the index is out of range, and Go panics.
checkJumpDest(c, code, destination) ==
  IF destination < 0 THEN [c EXCEPT !.status = "panicked"]
  ELSE IF destination >= Len(code) \/ code[destination + 1].op # "JUMPDEST" THEN Fail(c)
  ELSE [c EXCEPT !.pc = destination - 1]

jumpTo(c, code, destination) ==
  IF ~IsUint64(destination) \/ Uint64(destination) > MaxInt32 THEN Fail(c)
  ELSE checkJumpDest(c, code, destination)

opJump(c, code) == jumpTo(Pop(c, 1), code, Top(c))
opJumpi(c, code) == IF c.stack[2] # 0 THEN jumpTo(Pop(c, 2), code, Top(c)) ELSE Pop(c, 2)
opJumpTo(c, arg) == [c EXCEPT !.pc = arg - 1]

\* Two bytes of data to each converted instruction, big-endian.
opPush(c, code, n) ==
  LET byte(k) == LET arg == code[c.pc + 1 + (k - 1) \div 2].arg
                 IN  IF k % 2 = 1 THEN HighByte(arg) ELSE LowByte(arg)
  IN  [Push(c, FromBytes([k \in 1 .. n |-> byte(k)])) EXCEPT !.pc = @ + (n + 1) \div 2 - 1]

opPush0(c) == IF isAtLeast(c, R12_Shanghai) THEN Push(c, 0) ELSE Fail(c)
opDup(c, pos) == Push(c, c.stack[pos])
opSwap(c, pos) ==
  [c EXCEPT !.stack = [@ EXCEPT ![1] = c.stack[pos + 1], ![pos + 1] = c.stack[1]]]

-----------------------------------------------------------------------------
\* Memory operations

opMload(c) ==
  LET offset == Top(c)
  IN  Then(getSlice(c, offset, WordBytes), LAMBDA d :
        PopPush(d, 1, FromBytes(Span(d.memory, offset, WordBytes))))
opMstore(c) == set(Pop(c, 2), c.stack[1], Bytes(c.stack[2]))
opMstore8(c) == set(Pop(c, 2), c.stack[1], <<Uint64(c.stack[2]) % ByteMod>>)

\* The source is made accessible before the words are paid for, the destination after.
opMcopy(c) ==
  LET dest == c.stack[1]
      src == c.stack[2]
      size == c.stack[3]
  IN  IF ~isAtLeast(c, R13_Cancun) THEN Fail(c)
      ELSE Then(getSlice(Pop(c, 3), src, size), LAMBDA d :
           Then(useGas(d, 3 * SizeInWords(Uint64(size))), LAMBDA e :
             set(e, dest, Span(d.memory, src, size))))

genericDataCopy(c, source) ==
  LET memOffset == c.stack[1]
      dataOffset == c.stack[2]
      length == c.stack[3]
  IN  Then(useGas(Pop(c, 3), 3 * SizeInWords(Uint64(length))), LAMBDA d :
      Then(getSlice(d, memOffset, length), LAMBDA e :
        [e EXCEPT !.memory = Overwrite(@, memOffset, getData(source, dataOffset, length))]))

opReturnDataCopy(c) ==
  LET memOffset == c.stack[1]
      start == c.stack[2]
      length == c.stack[3]
      end == Uint64(start + length)
  IN  IF ~IsUint64(start) \/ ~IsUint64(length) THEN Fail(c)
      ELSE Then(useGas(Pop(c, 3), 3 * SizeInWords(length)), LAMBDA d :
        IF end < start \/ end > Len(d.lastReturn) THEN Fail(d)
        ELSE set(d, memOffset, SubSeq(d.lastReturn, start + 1, end)))

opSha3(c) ==
  LET offset == c.stack[1]
      size == c.stack[2]
  IN  Then(getSlice(c, offset, size), LAMBDA d :
      Then(useGas(d, 6 * SizeInWords(Uint64(size))), LAMBDA e :
        PopPush(e, 2, Keccak256(Span(e.memory, offset, size)))))

opLog(c, n) ==
  LET offset == c.stack[1]
      size == c.stack[2]
      topics == SubSeq(c.stack, 3, n + 2)
  IN  IF c.readOnly THEN Fail(c)
      ELSE Then(getSlice(Pop(c, n + 2), offset, size), LAMBDA d :
           Then(useGas(d, 8 * Uint64(size)), LAMBDA e :
             AddLog(e, Span(e.memory, offset, size), topics)))

-----------------------------------------------------------------------------
\* Words.  The first argument is the top of the stack.

logicOp(op, a, b) ==
  CASE op = "AND" -> a & b
    [] op = "OR" -> a | b
    [] op = "XOR" -> a ^^ b
    [] op = "EQ" -> Bool(a = b)
    [] op = "LT" -> Bool(a < b)
    [] op = "GT" -> Bool(a > b)
    [] op = "SLT" -> Bool(Signed(a) < Signed(b))
    [] op = "SGT" -> Bool(Signed(a) > Signed(b))
    [] op = "SHR" -> IF a < WordBits THEN Rsh(b, a) ELSE 0
    [] op = "SHL" -> IF a < WordBits THEN Lsh(b, a) ELSE 0
    [] op = "SAR" -> IF a > WordBits THEN (IF Signed(b) >= 0 THEN 0 ELSE MaxWord)
                     ELSE SRsh(b, a)
    [] op = "SIGNEXTEND" -> ExtendSign(b, a)
    [] op = "BYTE" -> ByteAt(b, a)

arithmeticOp(op, a, b) ==
  CASE op = "ADD" -> Add(a, b)
    [] op = "SUB" -> Sub(a, b)
    [] op = "MUL" -> Mul(a, b)
    [] op = "DIV" -> Div(a, b)
    [] op = "SDIV" -> SDiv(a, b)
    [] op = "MOD" -> Mod(a, b)
    [] op = "SMOD" -> SMod(a, b)

opExp(c) ==
  Then(useGas(c, 50 * ByteLen(c.stack[2])), LAMBDA d :
    PopPush(d, 2, Exp(d.stack[1], d.stack[2])))

opClz(c) ==
  IF isAtLeast(c, R15_Osaka) THEN PopPush(c, 1, WordBits - BitLen(Top(c))) ELSE Fail(c)

-----------------------------------------------------------------------------
\* Super instructions.  `rest' is the stack from the third element on.

\* Without the check for large destinations that opJump makes.
opSwap2_Swap1_Pop_Jump(c, code) ==
  LET target == Int32(Uint64(c.stack[3]))
  IN  checkJumpDest([c EXCEPT !.stack = <<Top(c)>> \o SubSeq(@, 4, Len(@))], code, target)

opPush2_Jumpi(c, code, arg, taken) ==
  IF taken THEN checkJumpDest(Pop(c, 1), code, arg) ELSE Pop(c, 1)

opSwap1_Pop_Swap2_Swap1(c) ==
  [c EXCEPT !.stack = <<@[3], @[4], @[1]>> \o SubSeq(@, 5, Len(@))]

opPush1_Push4_Dup3(c, code) ==
  With(opPush(c, code, 1), LAMBDA d :
  With(opPush([d EXCEPT !.pc = @ + 1], code, 4), LAMBDA e : opDup(e, 3)))

opPush1_Push1_Push1_Shl_Sub(c, code, arg) ==
  LET value == Lsh(LowByte(arg), LowByte(code[c.pc + 2].arg))
  IN  [Push(c, Sub(value, HighByte(arg))) EXCEPT !.pc = @ + 1]

\* Those that only move elements of the stack.
stackOp(op, s) ==
  LET rest == SubSeq(s, 3, Len(s))
  IN  CASE op = "SWAP1_POP" -> <<s[1]>> \o rest
        [] op = "SWAP2_POP" -> <<s[2], s[1]>> \o Tail(rest)
        [] op = "SWAP2_SWAP1" -> <<s[2], s[3], s[1]>> \o Tail(rest)
        [] op = "POP_POP" -> rest
        [] op = "POP_SWAP2_SWAP1_POP" -> <<s[4], s[2]>> \o SubSeq(s, 5, Len(s))
        [] op = "DUP2_LT" -> <<Bool(s[2] < s[1])>> \o Tail(s)

superOp(c, code, i) ==
  LET arg == i.arg
      op == i.op
  IN  CASE op = "PUSH1_PUSH1" -> Push(Push(c, HighByte(arg)), LowByte(arg))
        [] op = "PUSH1_ADD" -> PopPush(c, 1, Add(Top(c), arg))
        [] op = "PUSH1_SHL" -> PopPush(c, 1, Lsh(Top(c), arg))
        [] op = "PUSH1_DUP1" -> Push(Push(c, arg), arg)
        [] op = "PUSH2_JUMP" -> checkJumpDest(c, code, arg)
        [] op = "PUSH2_JUMPI" -> opPush2_Jumpi(c, code, arg, Top(c) # 0)
        [] op = "ISZERO_PUSH2_JUMPI" -> opPush2_Jumpi(c, code, arg, Top(c) = 0)
        [] op = "DUP2_MSTORE" -> set(Pop(c, 1), c.stack[2], Bytes(c.stack[1]))
        [] op = "POP_JUMP" -> opJump(Pop(c, 1), code)
        [] op = "SWAP2_SWAP1_POP_JUMP" -> opSwap2_Swap1_Pop_Jump(c, code)
        [] op = "SWAP1_POP_SWAP2_SWAP1" -> opSwap1_Pop_Swap2_Swap1(c)
        [] op = "AND_SWAP1_POP_SWAP2_SWAP1" ->
             opSwap1_Pop_Swap2_Swap1(PopPush(c, 2, logicOp("AND", c.stack[1], c.stack[2])))
        [] op = "PUSH1_PUSH4_DUP3" -> opPush1_Push4_Dup3(c, code)
        [] op = "PUSH1_PUSH1_PUSH1_SHL_SUB" -> opPush1_Push1_Push1_Shl_Sub(c, code, arg)
        [] OTHER -> [c EXCEPT !.stack = stackOp(op, @)]

-----------------------------------------------------------------------------
\* The environment

\* The operations that push a value of the block, the transaction or the call.
environmentOp(c, op) ==
  CASE op = "ADDRESS" -> Ctx.self
    [] op = "ORIGIN" -> Ctx.origin
    [] op = "CALLER" -> Ctx.caller
    [] op = "CALLVALUE" -> Ctx.value
    [] op = "CALLDATASIZE" -> Len(Ctx.callData)
    [] op = "CODESIZE" -> Len(c.code)
    [] op = "GASPRICE" -> Ctx.gasPrice
    [] op = "COINBASE" -> Ctx.coinbase
    [] op = "TIMESTAMP" -> Ctx.timestamp
    [] op = "NUMBER" -> Ctx.number
    [] op = "PREVRANDAO" -> Ctx.prevRandao
    [] op = "GASLIMIT" -> Ctx.gasLimit
    [] op = "CHAINID" -> Ctx.chainId
    [] op = "SELFBALANCE" -> GetBalance(c, Ctx.self)
    [] op = "RETURNDATASIZE" -> Len(c.lastReturn)
    [] op = "MSIZE" -> Len(c.memory)
    [] op = "GAS" -> c.gas

opBaseFee(c) == IF isAtLeast(c, R10_London) THEN Push(c, Ctx.baseFee) ELSE Fail(c)
opBlobBaseFee(c) == IF isAtLeast(c, R13_Cancun) THEN Push(c, Ctx.blobBaseFee) ELSE Fail(c)
opBlobHash(c) ==
  IF ~isAtLeast(c, R13_Cancun) THEN Fail(c)
  ELSE PopPush(c, 1, IF IsUint64(Top(c)) /\ Top(c) < Len(Ctx.blobHashes)
                     THEN Ctx.blobHashes[Top(c) + 1] ELSE 0)

opCallDataload(c) == PopPush(c, 1, FromBytes(getData(Ctx.callData, Top(c), WordBytes)))

\* GetBlockHash of the adapter checks the same window once more.
opBlockhash(c) ==
  LET requested == Uint64(Top(c))
      oldest == Ctx.number - MinOf(Ctx.number, 256)
  IN  PopPush(c, 1, IF ~IsUint64(Top(c)) \/ requested >= Ctx.number \/ requested < oldest
                    THEN 0 ELSE RecentBlockHash(Ctx.number - requested - 1))

-----------------------------------------------------------------------------
\* Storage

opSload(c) ==
  LET key == Top(c)
      cost == IF key \in c.warmKeys THEN 100 ELSE 2100
  IN  Then(IF isAtLeast(c, R09_Berlin) THEN useGas(MarkKeyWarm(c, key), cost) ELSE c, LAMBDA d :
        PopPush(d, 1, Get(d.storage, key)))

\* The slot is marked and written before the costs are known to be covered.
opSstore(c) ==
  LET key == c.stack[1]
      value == c.stack[2]
      berlin == isAtLeast(c, R09_Berlin)
      status == GetStorageStatus(Get(c.original, key), Get(c.storage, key), value)
      cost == (IF berlin /\ key \notin c.warmKeys THEN 2100 ELSE 0)
              + getDynamicCostsForSstore(c.rev, status)
      accessed == IF berlin THEN MarkKeyWarm(c, key) ELSE c
  IN  IF c.readOnly \/ c.gas <= 2300 THEN Fail(c)
      ELSE Then(useGas(SetCurrent(Pop(accessed, 2), key, value), cost), LAMBDA d :
             [d EXCEPT !.refund = @ + getRefundForSstore(d.rev, status)])

opTload(c) ==
  IF isAtLeast(c, R13_Cancun) THEN PopPush(c, 1, Get(c.transient, Top(c))) ELSE Fail(c)

opTstore(c) ==
  IF isAtLeast(c, R13_Cancun) /\ ~c.readOnly
  THEN SetTransient(Pop(c, 2), c.stack[1], c.stack[2]) ELSE Fail(c)

-----------------------------------------------------------------------------
\* Accounts

getAccessCost(c, address) == IF address \in c.warm THEN 100 ELSE 2600

\* AccessAccount marks the account warm whether or not the gas suffices.
payAccess(c, address) == useGas(MarkWarm(c, address), getAccessCost(c, address))

\* Mutant: the account stays cold.
accessAccountCold(c, address) ==
  IF isAtLeast(c, R09_Berlin) THEN useGas(c, getAccessCost(c, address)) ELSE c

accessAccount(c, address) == IF isAtLeast(c, R09_Berlin) THEN payAccess(c, address) ELSE c

opBalance(c) ==
  LET address == AddressOf(Top(c))
  IN  Then(accessAccount(c, address), LAMBDA d : PopPush(d, 1, GetBalance(d, address)))
opExtcodesize(c) ==
  LET address == AddressOf(Top(c))
  IN  Then(accessAccount(c, address), LAMBDA d : PopPush(d, 1, Len(GetCode(d, address))))
opExtcodehash(c) ==
  LET address == AddressOf(Top(c))
  IN  Then(accessAccount(c, address), LAMBDA d :
        PopPush(d, 1, IF IsEmpty(d, address) THEN 0 ELSE GetCodeHash(d, address)))
opExtCodeCopy(c) ==
  LET address == AddressOf(Top(c))
  IN  Then(accessAccount(Pop(c, 1), address), LAMBDA d :
        genericDataCopy(d, GetCode(d, address)))

selfDestructNewAccountCost(beneficiaryEmpty, balance) ==
  IF beneficiaryEmpty /\ balance # 0 THEN 25000 ELSE 0

opSelfdestruct(c) ==
  LET beneficiary == AddressOf(Top(c))
      cold == isAtLeast(c, R09_Berlin) /\ beneficiary \notin c.warm
      accessed == IF isAtLeast(c, R09_Berlin) THEN MarkWarm(Pop(c, 1), beneficiary) ELSE Pop(c, 1)
      cost == (IF cold THEN 2600 ELSE 0)
              + selfDestructNewAccountCost(IsEmpty(c, beneficiary), GetBalance(c, Ctx.self))
  IN  IF c.readOnly THEN Fail(c)
      ELSE Then(useGas(accessed, cost), LAMBDA d :
             LET done == SelfDestruct(d, beneficiary)
             IN  [done.state EXCEPT
                    !.refund = @ + selfDestructRefund(done.first, d.rev),
                    !.status = "stopped"])

-----------------------------------------------------------------------------
\* Creations and calls

\* Too large an init code fails before anything is charged for it.
payInitCode(c, size) ==
  IF ~isAtLeast(c, R12_Shanghai) THEN c
  ELSE IF size > MaxInitCodeSize THEN Fail(c)
  ELSE useGas(c, 2 * SizeInWords(size))

\* The creation itself, once all but its own gas is paid for.  The salt of a
\* CREATE2 is passed on, and not recorded by the journal of the tests.
create(c, kind, value, input) ==
  LET gas == c.gas - c.gas \div 64
      called == Call(c, [kind |-> kind, sender |-> Ctx.self, recipient |-> 0, code |-> 0,
                         value |-> value, input |-> input, gas |-> gas])
      res == called.result
  IN  [Push(called.state, IF res.success THEN res.created ELSE 0) EXCEPT
         !.lastReturn = IF res.success THEN <<>> ELSE res.output,
         !.gas = c.gas - gas + called.gasLeft,
         !.refund = @ + res.refund]

genericCreate(c, kind) ==
  LET pops == IF kind = "CREATE2" THEN 4 ELSE 3
      value == c.stack[1]
      offset == c.stack[2]
      size == c.stack[3]
      hashing == IF kind = "CREATE2" THEN 6 * SizeInWords(size) ELSE 0
  IN  IF c.readOnly THEN Fail(c)
      ELSE Then(getSlice(Pop(c, pops), offset, size), LAMBDA d :
           Then(payInitCode(d, size), LAMBDA e :
           Then(useGas(e, hashing), LAMBDA f :
             IF value > GetBalance(f, Ctx.self)
             THEN [Push(f, 0) EXCEPT !.lastReturn = <<>>]
             ELSE create(f, kind, value, Span(f.memory, offset, size)))))

\* The delegate of an account is accessed, and paid for, like the account.
accessDelegate(c, address) ==
  LET delegates == ParseDelegationDesignator(GetCode(c, address))
  IN  IF isAtLeast(c, R14_Prague) /\ delegates # {}
      THEN payAccess(c, CHOOSE d \in delegates : TRUE) ELSE c

payTransfer(c, kind, value, address) ==
  Then(useGas(c, IF value # 0 THEN 9000 ELSE 0), LAMBDA d :
    useGas(d, IF kind = "CALL" /\ value # 0 /\ IsEmpty(d, address) THEN 25000 ELSE 0))

\* All but one 64th of the gas, unless less was asked for.
callGas(c, provided) ==
  LET most == c.gas - c.gas \div 64
  IN  IF provided <= MaxInt64 /\ most >= provided THEN provided ELSE most

\* The call itself: `c' has paid for everything but the gas of the call.  The
\* output overwrites the memory only up to the size that was asked for.
performCall(c, kind, provided, address, value, input, retOffset, retSize) ==
  LET asked == callGas(c, provided)
      gas == asked + (IF value # 0 THEN 2300 ELSE 0)
      as == IF c.readOnly /\ kind = "CALL" THEN "STATICCALL" ELSE kind
      called == Call(c,
        [kind |-> as,
         sender |-> IF as = "DELEGATECALL" THEN Ctx.caller ELSE Ctx.self,
         recipient |-> IF as \in {"CALL", "STATICCALL"} THEN address ELSE Ctx.self,
         code |-> address,
         value |-> IF as = "DELEGATECALL" THEN Ctx.value ELSE value,
         input |-> input, gas |-> gas])
      res == called.result
      written == SubSeq(res.output, 1, MinOf(Len(res.output), retSize))
  IN  IF value > GetBalance(c, Ctx.self)
      THEN [Push(c, 0) EXCEPT !.lastReturn = <<>>, !.gas = @ - asked + gas]
      ELSE [Push(called.state, Bool(res.success)) EXCEPT
              !.memory = Overwrite(@, retOffset, written),
              !.gas = @ - asked + called.gasLeft,
              !.refund = @ + res.refund,
              !.lastReturn = res.output]

genericCall(c, kind) ==
  LET args == IF kind \in {"CALL", "CALLCODE"} THEN c.stack
              ELSE <<c.stack[1], c.stack[2], 0>> \o SubSeq(c.stack, 3, 6)
      pops == IF kind \in {"CALL", "CALLCODE"} THEN 7 ELSE 6
      address == AddressOf(args[2])
      value == args[3]
  IN  Then(getSlice(Pop(c, pops), args[4], args[5]), LAMBDA d :
      Then(getSlice(d, args[6], args[7]), LAMBDA e :
      Then(accessAccount(e, address), LAMBDA f :
      Then(accessDelegate(f, address), LAMBDA g :
      Then(payTransfer(g, kind, value, address), LAMBDA h :
        performCall(h, kind, args[1], address, value, Span(h.memory, args[4], args[5]),
                    args[6], args[7]))))))

opCall(c) == IF c.readOnly /\ c.stack[3] # 0 THEN Fail(c) ELSE genericCall(c, "CALL")

-----------------------------------------------------------------------------
\* The tables of the main loop

AccessOps == {"SLOAD", "EXTCODECOPY", "EXTCODESIZE", "EXTCODEHASH", "BALANCE",
              "CALL", "CALLCODE", "STATICCALL", "DELEGATECALL"}
ComparisonOps == {"LT", "GT", "SLT", "SGT", "EQ", "AND", "OR", "XOR", "BYTE", "SHL", "SHR", "SAR"}
ArithmeticOps == {"ADD", "SUB", "MUL", "DIV", "SDIV", "MOD", "SMOD"}
BlockOps == {"COINBASE", "TIMESTAMP", "NUMBER", "PREVRANDAO", "GASLIMIT", "CHAINID"}
ContextOps == {"ADDRESS", "ORIGIN", "CALLER", "CALLVALUE", "CALLDATASIZE", "CODESIZE",
               "GASPRICE", "RETURNDATASIZE", "MSIZE", "GAS"}

UNKNOWN_GAS_PRICE == 999999

getStaticGasPriceInternal(i) ==
  CASE i.op \in {"PUSH", "DUP", "SWAP"} \cup ComparisonOps \cup {"ISZERO", "NOT"} -> 3
    [] i.op \in BlockOps \cup ContextOps -> 2
    [] i.op \in {"POP", "PC", "PUSH0", "BASEFEE", "BLOBBASEFEE"} -> 2
    [] i.op \in {"ADD", "SUB", "CALLDATALOAD", "CALLDATACOPY", "CODECOPY", "RETURNDATACOPY",
                 "BLOBHASH", "MLOAD", "MSTORE", "MSTORE8", "MCOPY"} -> 3
    [] i.op \in {"CLZ", "MUL", "DIV", "SDIV", "MOD", "SMOD", "SIGNEXTEND", "SELFBALANCE"} -> 5
    [] i.op \in {"ADDMOD", "MULMOD", "JUMP"} -> 8
    [] i.op \in {"EXP", "JUMPI"} -> 10
    [] i.op = "SHA3" -> 30
    [] i.op = "BLOCKHASH" -> 20
    [] i.op = "JUMPDEST" -> 1
    [] i.op = "JUMP_TO" -> 0
    [] i.op = "SLOAD" -> 800
    [] i.op \in AccessOps \ {"SLOAD"} -> 700
    [] i.op \in {"SSTORE", "RETURN", "REVERT", "STOP", "INVALID"} -> 0
    [] i.op \in {"TLOAD", "TSTORE"} -> 100
    [] i.op = "LOG" -> 375 * (i.n + 1)
    [] i.op \in {"CREATE", "CREATE2"} -> 32000
    [] i.op = "SELFDESTRUCT" -> 5000
    [] OTHER -> UNKNOWN_GAS_PRICE

\* A super instruction costs what its parts cost.
getStaticGasPrice(revision, i) ==
  IF revision >= R09_Berlin /\ i.op \in AccessOps THEN 0
  ELSE IF isSuperInstruction(i.op)
  THEN FoldLeft(LAMBDA sum, part : sum + getStaticGasPriceInternal(part), 0, decompose(i.op))
  ELSE getStaticGasPriceInternal(i)

\* The elements of the stack that an instruction reaches, relative to its
\* height, and how it changes the height.
stackUsage(i) ==
  LET usage(pops, pushes) ==
        [from |-> -pops, to |-> MaxOf(pushes - pops, 0), delta |-> pushes - pops]
  IN  CASE i.op = "PUSH" -> usage(0, 1)
        [] i.op = "DUP" -> usage(i.n, i.n + 1)
        [] i.op = "SWAP" -> usage(i.n + 1, i.n + 1)
        [] i.op = "LOG" -> usage(i.n + 2, 0)
        [] i.op \in BlockOps \cup ContextOps
                    \cup {"PC", "PUSH0", "SELFBALANCE", "BASEFEE", "BLOBBASEFEE"} -> usage(0, 1)
        [] i.op \in {"POP", "JUMP", "SELFDESTRUCT"} -> usage(1, 0)
        [] i.op \in {"ISZERO", "NOT", "BALANCE", "CALLDATALOAD", "EXTCODESIZE", "BLOCKHASH",
                     "MLOAD", "SLOAD", "TLOAD", "EXTCODEHASH", "BLOBHASH", "CLZ"} -> usage(1, 1)
        [] i.op \in {"MSTORE", "MSTORE8", "SSTORE", "TSTORE", "JUMPI", "RETURN", "REVERT"} ->
             usage(2, 0)
        [] i.op \in ArithmeticOps \cup ComparisonOps \cup {"EXP", "SIGNEXTEND", "SHA3"} ->
             usage(2, 1)
        [] i.op \in {"CALLDATACOPY", "CODECOPY", "RETURNDATACOPY", "MCOPY"} -> usage(3, 0)
        [] i.op \in {"ADDMOD", "MULMOD", "CREATE"} -> usage(3, 1)
        [] i.op = "EXTCODECOPY" -> usage(4, 0)
        [] i.op = "CREATE2" -> usage(4, 1)
        [] i.op \in {"STATICCALL", "DELEGATECALL"} -> usage(6, 1)
        [] i.op \in {"CALL", "CALLCODE"} -> usage(7, 1)
        [] OTHER -> usage(0, 0)

\* Mutant: all parts start from the same height.
combineStackUsageFlat(parts) ==
  FoldLeft(LAMBDA res, part :
             LET usage == stackUsage(part)
             IN  [from |-> MinOf(res.from, usage.from), to |-> MaxOf(res.to, usage.to),
                  delta |-> res.delta + usage.delta],
           [from |-> 0, to |-> 0, delta |-> 0], parts)

\* The parts of a super instruction one after the other.
combineStackUsage(parts) ==
  FoldLeft(LAMBDA res, part :
             LET usage == stackUsage(part)
             IN  [from |-> MinOf(res.from, usage.from + res.delta),
                  to |-> MaxOf(res.to, usage.to + res.delta),
                  delta |-> res.delta + usage.delta],
           [from |-> 0, to |-> 0, delta |-> 0], parts)

computeStackUsage(i) ==
  IF isSuperInstruction(i.op) THEN combineStackUsage(decompose(i.op)) ELSE stackUsage(i)

checkStackLimits(c, i) ==
  LET usage == computeStackUsage(i)
  IN  Len(c.stack) >= -usage.from /\ Len(c.stack) <= MaxStackSize - usage.to

-----------------------------------------------------------------------------
\* The main loop

\* The operations that leave words and memory to what the stack and the
\* context say.
wordOp(c, i) ==
  CASE i.op \in ComparisonOps \cup {"SIGNEXTEND"} ->
         PopPush(c, 2, logicOp(i.op, c.stack[1], c.stack[2]))
    [] i.op \in ArithmeticOps -> PopPush(c, 2, arithmeticOp(i.op, c.stack[1], c.stack[2]))
    [] i.op = "ISZERO" -> PopPush(c, 1, Bool(Top(c) = 0))
    [] i.op = "NOT" -> PopPush(c, 1, Complement(Top(c)))
    [] i.op = "ADDMOD" -> PopPush(c, 3, AddMod(c.stack[1], c.stack[2], c.stack[3]))
    [] i.op = "MULMOD" -> PopPush(c, 3, MulMod(c.stack[1], c.stack[2], c.stack[3]))
    [] i.op = "EXP" -> opExp(c)
    [] i.op = "CLZ" -> opClz(c)
    [] i.op = "SHA3" -> opSha3(c)
    [] i.op = "POP" -> Pop(c, 1)
    [] i.op = "PUSH0" -> opPush0(c)
    [] i.op = "DUP" -> opDup(c, i.n)
    [] i.op = "SWAP" -> opSwap(c, i.n)
    [] i.op = "MLOAD" -> opMload(c)
    [] i.op = "MSTORE" -> opMstore(c)
    [] i.op = "MSTORE8" -> opMstore8(c)
    [] i.op = "MCOPY" -> opMcopy(c)

dataOp(c, i) ==
  CASE i.op = "BASEFEE" -> opBaseFee(c)
    [] i.op = "BLOBBASEFEE" -> opBlobBaseFee(c)
    [] i.op = "BLOBHASH" -> opBlobHash(c)
    [] i.op = "BLOCKHASH" -> opBlockhash(c)
    [] i.op = "CALLDATALOAD" -> opCallDataload(c)
    [] i.op = "CALLDATACOPY" -> genericDataCopy(c, Ctx.callData)
    [] i.op = "CODECOPY" -> genericDataCopy(c, CodeBytes(c))
    [] i.op = "RETURNDATACOPY" -> opReturnDataCopy(c)
    [] i.op = "EXTCODESIZE" -> opExtcodesize(c)
    [] i.op = "EXTCODEHASH" -> opExtcodehash(c)
    [] i.op = "EXTCODECOPY" -> opExtCodeCopy(c)
    [] i.op = "BALANCE" -> opBalance(c)

effectOp(c, i) ==
  CASE i.op = "JUMPDEST" -> c
    [] i.op = "STOP" -> [c EXCEPT !.status = "stopped"]
    [] i.op = "RETURN" -> opEndWithResult(c, "stopped")
    [] i.op = "REVERT" -> opEndWithResult(c, "reverted")
    [] i.op = "SLOAD" -> opSload(c)
    [] i.op = "SSTORE" -> opSstore(c)
    [] i.op = "TLOAD" -> opTload(c)
    [] i.op = "TSTORE" -> opTstore(c)
    [] i.op = "LOG" -> opLog(c, i.n)
    [] i.op = "SELFDESTRUCT" -> opSelfdestruct(c)
    [] i.op \in {"CREATE", "CREATE2"} -> genericCreate(c, i.op)
    [] i.op = "CALL" -> opCall(c)
    [] i.op \in {"CALLCODE", "STATICCALL", "DELEGATECALL"} -> genericCall(c, i.op)
    [] OTHER -> Fail(c)

DataOps == {"BASEFEE", "BLOBBASEFEE", "BLOBHASH", "BLOCKHASH", "CALLDATALOAD", "CALLDATACOPY",
            "CODECOPY", "RETURNDATACOPY", "EXTCODESIZE", "EXTCODEHASH", "EXTCODECOPY", "BALANCE"}
WordOps == ComparisonOps \cup ArithmeticOps
           \cup {"SIGNEXTEND", "ISZERO", "NOT", "ADDMOD", "MULMOD", "EXP", "CLZ", "SHA3", "POP",
                 "PUSH0", "DUP", "SWAP", "MLOAD", "MSTORE", "MSTORE8", "MCOPY"}
PushOps == BlockOps \cup ContextOps \cup {"SELFBALANCE"}

\* All that does not depend on how the code is represented.
plainOp(c, i) ==
  IF i.op \in PushOps THEN Push(c, environmentOp(c, i.op))
  ELSE IF i.op \in WordOps THEN wordOp(c, i)
  ELSE IF i.op \in DataOps THEN dataOp(c, i)
  ELSE effectOp(c, i)

dispatch(c, code, i) ==
  CASE i.op = "PC" -> Push(c, i.arg)
    [] i.op = "PUSH" -> opPush(c, code, i.n)
    [] i.op = "JUMP" -> opJump(c, code)
    [] i.op = "JUMPI" -> opJumpi(c, code)
    [] i.op = "JUMP_TO" -> opJumpTo(c, i.arg)
    [] isSuperInstruction(i.op) -> superOp(c, code, i)
    [] OTHER -> plainOp(c, i)

\* One iteration.  Past the end of the code the execution stops, at no charge
\* and whatever is on the stack.
steps(c, code) ==
  LET i == code[c.pc + 1]
  IN  IF c.pc >= Len(code) THEN [c EXCEPT !.status = "stopped"]
      ELSE IF ~checkStackLimits(c, i) THEN Fail(c)
      ELSE Then(useGas(c, getStaticGasPrice(c.rev, i)), LAMBDA d :
           Then(dispatch(d, code, i), LAMBDA e : [e EXCEPT !.pc = @ + 1]))

-----------------------------------------------------------------------------
\* The adapter of the tests

\* One instruction, on code that was converted one way or the other.
StepConverted(s, converted) ==
  IF ~Fits(converted) THEN [s EXCEPT !.status = "panicked"]
  ELSE With(steps([s EXCEPT !.pc = evmToLfvm(s.code, converted, @)], converted.code), LAMBDA c :
         [c EXCEPT !.pc = IF Running(c) THEN lfvmToEvm(s.code, converted, @) ELSE s.pc])

\* A state that is not running is handed back as it is.
StepN(s) ==
  IF Running(s) THEN With(convert(s.code, FALSE), LAMBDA converted : StepConverted(s, converted))
  ELSE s
=============================================================================
