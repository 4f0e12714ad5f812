------------------------------ MODULE Evmzero -------------------------------
(***************************************************************************)
(* The evmzero interpreter (cpp/vm/evmzero) behind the EVMC host of        *)
(* go/interpreter/evmc: one instruction as a function from states to       *)
(* states, the way InterpretNSteps runs it for the conformance tests.      *)
(*                                                                         *)
(* Every instruction has a static description (OpInfo) that Run checks     *)
(* before it invokes the operation.  All run states that are errors are    *)
(* reported as one, a failure.  The depth of calls is 0 in the tests, so   *)
(* that the checks against kMaxCallDepth are left out.                     *)
(***************************************************************************)
EXTENDS EvmcHost

kMaxGas == MaxInt64

\* An operation asks for its dynamic costs in one piece or piece by piece;
\* nothing is charged for costs that are not positive.
Charge(c, costs) ==
  IF costs <= 0 THEN c
  ELSE IF costs > c.gas THEN Fail(c)
  ELSE [c EXCEPT !.gas = @ - costs]

Words(size) == Uint64(size + WordBytes - 1) \div WordBytes

-----------------------------------------------------------------------------
\* Memory

calc_memory_cost(size) ==
  LET words == Words(size)
      overflows == words # 0 /\ words > MaxInt64 \div words   \* words * words
  IN  IF size + WordBytes - 1 > MaxUint64 \/ overflows THEN kMaxGas ELSE MemoryCost(words)

\* The costs of reaching for a range, and the range as 64-bit numbers.  There is
\* no limit on the size of the memory other than the gas.
MemoryExpansionCost(c, offset, size) ==
  LET range == [offset |-> Uint64(offset), size |-> size]
      new_size == range.offset + size
  IN  IF ~IsUint64(size) \/ (~IsUint64(offset) /\ size # 0)
      THEN [gas_cost |-> kMaxGas, offset |-> 0, size |-> 0]
      ELSE range @@ [gas_cost |->
        IF size = 0 THEN 0
        ELSE IF new_size > MaxUint64 THEN kMaxGas
        ELSE IF new_size <= Len(c.memory) THEN 0
        ELSE calc_memory_cost(new_size) - calc_memory_cost(Len(c.memory))]

Grow(c, offset, size) ==
  IF size = 0 \/ offset + size <= Len(c.memory) THEN c
  ELSE [c EXCEPT !.memory = @ \o Zeros(Words(offset + size) * WordBytes - Len(@))]

\* Exactly `size' bytes are written, zeros where the buffer is too short.
ReadFromWithSize(c, buffer, offset, size) ==
  [Grow(c, offset, size) EXCEPT !.memory =
     Overwrite(@, offset, [i \in 1 .. size |-> IF i <= Len(buffer) THEN buffer[i] ELSE 0])]
ReadFrom(c, buffer, offset) == ReadFromWithSize(c, buffer, offset, Len(buffer))

Subspan(data, offset) == IF offset < Len(data) THEN SubSeq(data, offset + 1, Len(data)) ELSE <<>>

-----------------------------------------------------------------------------
\* Words.  top[0] is the first element of the stack.

SignExtend(index, value) ==
  LET leading == MinOf(index, WordBytes - 1)
      negative == ByteOf(value, WordBytes - 1 - leading) >= ByteMod \div 2
  IN  IF negative THEN Lsh(MaxWord, ByteBits * (leading + 1)) | value
      ELSE Rsh(MaxWord, ByteBits * (WordBytes - 1 - leading)) & value

ArithmeticShift(shift, value) ==
  LET negative == ByteOf(value, 0) >= ByteMod \div 2
  IN  IF shift > WordBits - 1 THEN (IF negative THEN MaxWord ELSE 0)
      ELSE Rsh(value, shift) | (IF negative THEN Lsh(MaxWord, WordBits - 1 - shift) ELSE 0)

\* A division by zero leaves the zero where it is.
Arithmetic(op, a, b) ==
  CASE op = "ADD" -> Add(a, b)
    [] op = "MUL" -> Mul(a, b)
    [] op = "SUB" -> Sub(a, b)
    [] op = "DIV" -> IF b # 0 THEN Div(a, b) ELSE b
    [] op = "SDIV" -> IF b # 0 THEN SDiv(a, b) ELSE b
    [] op = "MOD" -> IF b # 0 THEN Mod(a, b) ELSE b
    [] op = "SMOD" -> IF b # 0 THEN SMod(a, b) ELSE b
    [] op = "SIGNEXTEND" -> SignExtend(a, b)

Logic(op, a, b) ==
  CASE op = "LT" -> Bool(a < b)
    [] op = "GT" -> Bool(a > b)
    [] op = "SLT" -> Bool(Signed(a) < Signed(b))
    [] op = "SGT" -> Bool(Signed(b) < Signed(a))
    [] op = "EQ" -> Bool(a = b)
    [] op = "AND" -> a & b
    [] op = "OR" -> a | b
    [] op = "XOR" -> a ^^ b
    [] op = "BYTE" -> IF a < WordBytes THEN ByteOf(b, a) ELSE 0
    [] op = "SHL" -> Lsh(b, a)
    [] op = "SHR" -> Rsh(b, a)
    [] op = "SAR" -> ArithmeticShift(a, b)

LogicOps == {"LT", "GT", "SLT", "SGT", "EQ", "AND", "OR", "XOR", "BYTE", "SHL", "SHR", "SAR"}
ArithmeticOps == {"ADD", "MUL", "SUB", "DIV", "SDIV", "MOD", "SMOD", "SIGNEXTEND"}

WordOp(c, op) ==
  LET a == c.stack[1]
  IN  CASE op \in LogicOps -> PopPush(c, 2, Logic(op, a, c.stack[2]))
        [] op \in ArithmeticOps -> PopPush(c, 2, Arithmetic(op, a, c.stack[2]))
        [] op = "ADDMOD" ->
             PopPush(c, 3, IF c.stack[3] # 0 THEN AddMod(a, c.stack[2], c.stack[3]) ELSE 0)
        [] op = "MULMOD" ->
             PopPush(c, 3, IF c.stack[3] # 0 THEN MulMod(a, c.stack[2], c.stack[3]) ELSE 0)
        [] op = "ISZERO" -> PopPush(c, 1, Bool(a = 0))
        [] op = "NOT" -> PopPush(c, 1, Complement(a))
        [] op = "CLZ" -> PopPush(c, 1, WordBits - BitLen(a))
        [] op = "EXP" ->
             Then(Charge(c, 50 * ByteLen(c.stack[2])), LAMBDA d : PopPush(d, 2, Exp(a, d.stack[2])))

-----------------------------------------------------------------------------
\* Memory and data

Sha3(c) ==
  LET m == MemoryExpansionCost(c, c.stack[1], c.stack[2])
  IN  Then(Charge(c, 6 * Words(m.size) + m.gas_cost), LAMBDA d :
      Then(Grow(d, m.offset, m.size), LAMBDA e :
        PopPush(e, 2, Keccak256(Span(e.memory, m.offset, m.size)))))

\* CALLDATACOPY and CODECOPY, of the data from an offset on.
DataCopy(c, data) ==
  LET m == MemoryExpansionCost(c, c.stack[1], c.stack[3])
      view == Subspan(data, c.stack[2])
  IN  Then(Charge(c, 3 * Words(m.size) + m.gas_cost), LAMBDA d :
        Pop(ReadFromWithSize(d, view, m.offset, m.size), 3))

ReturnDataCopy(c) ==
  LET m == MemoryExpansionCost(c, c.stack[1], c.stack[3])
      end == c.stack[2] + c.stack[3]
  IN  Then(Charge(c, m.gas_cost + 3 * Words(m.size)), LAMBDA d :
        IF end > Len(c.lastReturn) THEN Fail(d)
        ELSE Pop(ReadFromWithSize(d, Subspan(c.lastReturn, c.stack[2]), m.offset, m.size), 3))

\* Mutant: only the destination is paid for.
McopyDestination(c) ==
  LET dest == MemoryExpansionCost(c, c.stack[1], c.stack[3])
      src == MemoryExpansionCost(c, c.stack[2], c.stack[3])
  IN  Then(Charge(c, 3 * Words(dest.size) + dest.gas_cost), LAMBDA d :
      Then(Grow(Grow(d, src.offset, dest.size), dest.offset, dest.size), LAMBDA e :
        Pop(ReadFrom(e, Span(e.memory, src.offset, dest.size), dest.offset), 3)))

Mcopy(c) ==
  LET dest == MemoryExpansionCost(c, c.stack[1], c.stack[3])
      src == MemoryExpansionCost(c, c.stack[2], c.stack[3])
  IN  Then(Charge(c, 3 * Words(dest.size) + MaxOf(dest.gas_cost, src.gas_cost)), LAMBDA d :
      Then(Grow(Grow(d, src.offset, dest.size), dest.offset, dest.size), LAMBDA e :
        Pop(ReadFrom(e, Span(e.memory, src.offset, dest.size), dest.offset), 3)))

Mload(c) ==
  LET m == MemoryExpansionCost(c, c.stack[1], WordBytes)
  IN  Then(Charge(c, m.gas_cost), LAMBDA d :
      Then(Grow(d, m.offset, WordBytes), LAMBDA e :
        PopPush(e, 1, FromBytes(Span(e.memory, m.offset, WordBytes)))))

\* MSTORE and MSTORE8: all bytes of the word or the last one.
Mstore(c, buffer) ==
  LET m == MemoryExpansionCost(c, c.stack[1], Len(buffer))
  IN  Then(Charge(c, m.gas_cost), LAMBDA d : Pop(ReadFrom(d, buffer, m.offset), 2))

Log(c, n) ==
  LET m == MemoryExpansionCost(c, c.stack[1], c.stack[2])
  IN  Then(Charge(c, m.gas_cost), LAMBDA d :
      Then(Charge(d, 8 * m.size), LAMBDA e :
      Then(Grow(e, m.offset, m.size), LAMBDA f :
        Pop(AddLog(f, Span(f.memory, m.offset, m.size), SubSeq(c.stack, 3, n + 2)), n + 2))))

Return(c, status) ==
  LET m == MemoryExpansionCost(c, c.stack[1], c.stack[2])
  IN  Then(Charge(c, m.gas_cost), LAMBDA d :
      Then(Grow(d, m.offset, m.size), LAMBDA e :
        [Pop(e, 2) EXCEPT !.returnData = Span(e.memory, m.offset, m.size), !.status = status]))

\* The block must be one that a signed number can name.
Blockhash(c) ==
  LET number == c.stack[1]
      upper == Ctx.number
      lower == IF upper < 257 THEN 0 ELSE upper - 256
  IN  PopPush(c, 1, IF number <= MaxInt64 /\ lower <= number /\ number < upper
                    THEN GetBlockHash(number) ELSE 0)

Blobhash(c) ==
  PopPush(c, 1, IF c.stack[1] < Len(Ctx.blobHashes) THEN Ctx.blobHashes[c.stack[1] + 1] ELSE 0)

Calldataload(c) ==
  LET view == Subspan(Ctx.callData, c.stack[1])
  IN  PopPush(c, 1, FromBytes([i \in 1 .. WordBytes |-> IF i <= Len(view) THEN view[i] ELSE 0]))

\* The operations that push a value of the message, the transaction or the block.
Nullary(c, op) ==
  CASE op = "ADDRESS" -> Ctx.self
    [] op = "ORIGIN" -> Ctx.origin
    [] op = "CALLER" -> Ctx.caller
    [] op = "CALLVALUE" -> Ctx.value
    [] op = "CALLDATASIZE" -> Len(Ctx.callData)
    [] op = "CODESIZE" -> Len(c.code)
    [] op = "GASPRICE" -> Ctx.gasPrice
    [] op = "RETURNDATASIZE" -> Len(c.lastReturn)
    [] op = "COINBASE" -> Ctx.coinbase
    [] op = "TIMESTAMP" -> Ctx.timestamp
    [] op = "NUMBER" -> Ctx.number
    [] op = "PREVRANDAO" -> Ctx.prevRandao
    [] op = "GASLIMIT" -> Ctx.gasLimit
    [] op = "CHAINID" -> Ctx.chainId
    [] op = "SELFBALANCE" -> GetBalance(c, Ctx.self)
    [] op = "BASEFEE" -> Ctx.baseFee
    [] op = "BLOBBASEFEE" -> Ctx.blobBaseFee
    [] op = "PC" -> c.pc
    [] op = "MSIZE" -> Len(c.memory)
    [] op = "GAS" -> c.gas
    [] op = "PUSH0" -> 0

NullaryOps == {"ADDRESS", "ORIGIN", "CALLER", "CALLVALUE", "CALLDATASIZE", "CODESIZE", "GASPRICE",
               "RETURNDATASIZE", "COINBASE", "TIMESTAMP", "NUMBER", "PREVRANDAO", "GASLIMIT",
               "CHAINID", "SELFBALANCE", "BASEFEE", "BLOBBASEFEE", "PC", "MSIZE", "GAS", "PUSH0"}

\* The padding lets a PUSH read beyond the end of the code.
PushData(c, n) ==
  LET byte(pos) == IF pos < Len(c.code) THEN ByteValue(c.code[pos + 1]) ELSE 0
  IN  [Push(c, FromBytes([i \in 1 .. n |-> byte(c.pc + i)])) EXCEPT !.pc = @ + n]

-----------------------------------------------------------------------------
\* Storage and accounts

Sload(c) ==
  LET key == c.stack[1]
      berlin == c.rev >= R09_Berlin
      cost == IF ~berlin THEN 800 ELSE IF key \in c.warmKeys THEN 100 ELSE 2100
  IN  Then(Charge(IF berlin THEN MarkKeyWarm(c, key) ELSE c, cost), LAMBDA d :
        PopPush(d, 1, Get(d.storage, key)))

SstoreCost(revision, status) ==
  IF status = "StorageAdded" THEN 20000
  ELSE IF status \in {"StorageModified", "StorageDeleted"}
       THEN (IF revision >= R09_Berlin THEN 2900 ELSE 5000)
  ELSE IF revision >= R09_Berlin THEN 100 ELSE 800

SstoreRefund(revision, status, key_is_warm) ==
  LET cleared == IF revision >= R10_London THEN 4800 ELSE 15000
      warm_cold_restored ==
        IF revision < R09_Berlin THEN 4200 ELSE IF key_is_warm THEN 5000 - 2100 - 100 ELSE 4900
  IN  CASE status \in {"StorageDeleted", "StorageModifiedDeleted"} -> cleared
        [] status = "StorageDeletedAdded" -> -cleared
        [] status = "StorageDeletedRestored" -> warm_cold_restored - cleared
        [] status = "StorageAddedDeleted" -> IF revision >= R09_Berlin THEN 19900 ELSE 19200
        [] status = "StorageModifiedRestored" -> warm_cold_restored
        [] OTHER -> 0

Sstore(c) ==
  LET key == c.stack[1]
      value == c.stack[2]
      berlin == c.rev >= R09_Berlin
      warm == berlin /\ key \in c.warmKeys
      status == GetStorageStatus(Get(c.original, key), Get(c.storage, key), value)
      written == SetCurrent(IF berlin THEN MarkKeyWarm(c, key) ELSE c, key, value)
      cold == IF berlin /\ ~warm THEN 2100 ELSE 0
  IN  IF c.gas <= 2300 THEN Fail(c)
      ELSE Then(Charge(written, SstoreCost(c.rev, status) + cold), LAMBDA d :
             [Pop(d, 2) EXCEPT !.refund = @ + SstoreRefund(c.rev, status, warm)])

address_access_cost(c, address) ==
  IF c.rev < R09_Berlin THEN 700 ELSE IF address \in c.warm THEN 100 ELSE 2600

\* The account is warm from then on, whether or not the gas suffices.
access_account(c, address) == IF c.rev >= R09_Berlin THEN MarkWarm(c, address) ELSE c

AccountInfo(c, op) ==
  LET address == AddressOf(c.stack[1])
      cost == address_access_cost(c, address)
  IN  Then(Charge(access_account(c, address), cost), LAMBDA d :
        PopPush(d, 1, CASE op = "BALANCE" -> GetBalance(d, address)
                        [] op = "EXTCODESIZE" -> Len(GetCode(d, address))
                        [] op = "EXTCODEHASH" -> HostGetCodeHash(d, address)))

\* The memory is paid for before the account is accessed.
ExtCodeCopy(c) ==
  LET address == AddressOf(c.stack[1])
      m == MemoryExpansionCost(c, c.stack[2], c.stack[4])
      view == IF IsUint64(c.stack[3]) THEN Subspan(GetCode(c, address), c.stack[3]) ELSE <<>>
      cost == 3 * Words(m.size) + address_access_cost(c, address)
  IN  Then(Charge(c, m.gas_cost), LAMBDA d :
      Then(Charge(access_account(d, address), cost), LAMBDA e :
        Pop(ReadFromWithSize(e, view, m.offset, m.size), 4)))

Selfdestruct(c) ==
  LET account == AddressOf(c.stack[1])
      created == IF GetBalance(c, Ctx.self) # 0 /\ ~AccountExists(c, account) THEN 25000 ELSE 0
      cold == IF c.rev >= R09_Berlin /\ account \notin c.warm THEN 2600 ELSE 0
  IN  Then(Charge(access_account(c, account), created + cold), LAMBDA d :
        LET done == SelfDestruct(d, account)
        IN  [Pop(done.state, 1) EXCEPT
               !.refund = @ + (IF done.first /\ d.rev < R10_London THEN 24000 ELSE 0),
               !.status = "stopped"])

-----------------------------------------------------------------------------
\* Creations and calls

InitCodeCost(c, size) ==
  IF c.rev < R12_Shanghai THEN c
  ELSE IF size > MaxInitCodeSize THEN Fail(c)
  ELSE Charge(c, 2 * Words(size))

\* What is left of a creation once its costs are paid; the return data is
\* cleared first, and replaced only if the init code reverts.
FinishCreate(c, op, m) ==
  LET endowment == c.stack[1]
      pops == IF op = "CREATE" THEN 3 ELSE 4
      msg == [kind |-> op, static |-> FALSE, sender |-> Ctx.self, recipient |-> 0,
              code_address |-> 0, value |-> endowment, gas |-> c.gas - c.gas \div 64,
              input |-> Span(c.memory, m.offset, m.size)]
      called == HostCall(c, msg)
      result == called.result
  IN  IF endowment # 0 /\ GetBalance(c, Ctx.self) < endowment
      THEN [PopPush(c, pops, 0) EXCEPT !.lastReturn = <<>>]
      ELSE [PopPush(called.state, pops, IF result.success THEN result.created ELSE 0) EXCEPT
              !.lastReturn = IF result.success THEN <<>> ELSE result.output,
              !.gas = @ - (msg.gas - called.gasLeft),
              !.refund = @ + result.refund]

CreateImpl(c, op) ==
  LET m == MemoryExpansionCost(c, c.stack[2], c.stack[3])
  IN  Then(Charge(c, m.gas_cost), LAMBDA d :
      Then(InitCodeCost(d, m.size), LAMBDA e :
      Then(Charge(e, IF op = "CREATE2" THEN 6 * Words(m.size) ELSE 0), LAMBDA f :
      Then(Grow(f, m.offset, m.size), LAMBDA g : FinishCreate(g, op, m)))))

\* A delegation designator is recognised by its length and its marker; its
\* target is looked up after the account itself has become warm.
delegation_designation(c, address) ==
  IF c.rev >= R14_Prague THEN ParseDelegationDesignator(GetCode(c, address)) ELSE {}

\* The costs other than those of memory and of the callee.
CallCosts(c, op, address, value) ==
  LET targets == delegation_designation(c, address)
      accessed == access_account(c, address)
      to_delegate == {address_access_cost(accessed, t) : t \in targets}
  IN  [costs |-> address_access_cost(c, address)
                 + (IF targets = {} THEN 0 ELSE CHOOSE cost \in to_delegate : TRUE)
                 + (IF value # 0 THEN 9000 ELSE 0)
                 + (IF op # "CALLCODE" /\ value # 0 /\ ~AccountExists(c, address)
                    THEN 25000 ELSE 0),
       state |-> [accessed EXCEPT !.warm = @ \cup targets]]

\* The call itself, the arguments having been popped.  The stipend is added both
\* to the gas of the message and to that of the caller.
FinishCall(c, op, args, input, output) ==
  LET value == args[3]
      stipend == IF value # 0 THEN 2300 ELSE 0
      msg == [kind |-> IF op = "STATICCALL" THEN "CALL" ELSE op,
              static |-> op = "STATICCALL" \/ c.readOnly,
              sender |-> IF op = "DELEGATECALL" THEN Ctx.caller ELSE Ctx.self,
              recipient |-> IF op \in {"CALL", "STATICCALL"} THEN AddressOf(args[2]) ELSE Ctx.self,
              code_address |-> AddressOf(args[2]),
              value |-> IF op = "DELEGATECALL" THEN Ctx.value ELSE value,
              input |-> Span(c.memory, input.offset, input.size),
              gas |-> MinOf(MinOf(args[1], kMaxGas), c.gas - c.gas \div 64) + stipend]
      called == HostCall([c EXCEPT !.gas = @ + stipend], msg)
      result == called.result
      size == MinOf(output.size, Len(result.output))
  IN  IF value # 0 /\ GetBalance(c, Ctx.self) < value
      THEN [Push(c, 0) EXCEPT !.lastReturn = <<>>, !.gas = @ + stipend]
      ELSE [Push(ReadFromWithSize(called.state, result.output, output.offset, size),
                 Bool(result.success)) EXCEPT
              !.lastReturn = result.output,
              !.gas = @ - (msg.gas - called.gasLeft),
              !.refund = @ + result.refund]

\* Input and output are paid for by the larger of the two expansions.  A value
\* in static mode is refused only after that.
CallImpl(c, op) ==
  LET args == IF op \in {"CALL", "CALLCODE"} THEN SubSeq(c.stack, 1, 7)
              ELSE <<c.stack[1], c.stack[2], 0>> \o SubSeq(c.stack, 3, 6)
      pops == IF op \in {"CALL", "CALLCODE"} THEN 7 ELSE 6
      input == MemoryExpansionCost(c, args[4], args[5])
      output == MemoryExpansionCost(c, args[6], args[7])
  IN  Then(Charge(c, MaxOf(input.gas_cost, output.gas_cost)), LAMBDA d :
        IF op = "CALL" /\ args[3] # 0 /\ d.readOnly THEN Fail(d)
        ELSE With(CallCosts(d, op, AddressOf(args[2]), args[3]), LAMBDA access :
          Then(Charge(access.state, access.costs), LAMBDA e :
          Then(Grow(Grow(e, output.offset, output.size), input.offset, input.size), LAMBDA f :
            FinishCall(Pop(f, pops), op, args, input, output)))))

-----------------------------------------------------------------------------
\* The descriptions of the instructions

CallOps == {"CALL", "CALLCODE", "STATICCALL", "DELEGATECALL"}

kInfo(i) ==
  LET info(pops, pushes, gas) == [pops |-> pops, pushes |-> pushes, static_gas |-> gas]
      op == i.op
  IN  CASE op \in LogicOps \cup {"ADD", "SUB"} -> info(2, 1, 3)
        [] op \in ArithmeticOps \ {"ADD", "SUB"} -> info(2, 1, 5)
        [] op \in NullaryOps \ {"SELFBALANCE"} -> info(0, 1, 2)
        [] op = "SELFBALANCE" -> info(0, 1, 5)
        [] op \in {"ISZERO", "NOT", "CALLDATALOAD", "BLOBHASH", "MLOAD"} -> info(1, 1, 3)
        [] op \in {"BALANCE", "EXTCODESIZE", "EXTCODEHASH", "SLOAD"} -> info(1, 1, 0)
        [] op = "CLZ" -> info(1, 1, 5)
        [] op = "BLOCKHASH" -> info(1, 1, 20)
        [] op = "TLOAD" -> info(1, 1, 100)
        [] op \in {"ADDMOD", "MULMOD"} -> info(3, 1, 8)
        [] op = "EXP" -> info(2, 1, 10)
        [] op = "SHA3" -> info(2, 1, 30)
        [] op \in {"CALLDATACOPY", "CODECOPY", "RETURNDATACOPY", "MCOPY"} -> info(3, 0, 3)
        [] op = "EXTCODECOPY" -> info(4, 0, 0)
        [] op = "POP" -> info(1, 0, 2)
        [] op \in {"MSTORE", "MSTORE8"} -> info(2, 0, 3)
        [] op \in {"SSTORE", "RETURN", "REVERT"} -> info(2, 0, 0)
        [] op = "TSTORE" -> info(2, 0, 100)
        [] op = "JUMP" -> info(1, 0, 8)
        [] op = "JUMPI" -> info(2, 0, 10)
        [] op = "JUMPDEST" -> info(0, 0, 1)
        [] op = "PUSH" -> info(0, 1, 3)
        [] op = "DUP" -> info(i.n, i.n + 1, 3)
        [] op = "SWAP" -> info(i.n + 1, i.n + 1, 3)
        [] op = "LOG" -> info(i.n + 2, 0, 375 + 375 * i.n)
        [] op = "SELFDESTRUCT" -> info(1, 0, 5000)
        [] op = "CREATE" -> info(3, 1, 32000)
        [] op = "CREATE2" -> info(4, 1, 32000)
        [] op \in {"STATICCALL", "DELEGATECALL"} -> info(6, 1, 0)
        [] op \in {"CALL", "CALLCODE"} -> info(7, 1, 0)
        [] OTHER -> info(0, 0, 0)

introduced_in(op) ==
  CASE op = "BASEFEE" -> R10_London
    [] op = "PUSH0" -> R12_Shanghai
    [] op \in {"BLOBHASH", "BLOBBASEFEE", "MCOPY", "TLOAD", "TSTORE"} -> R13_Cancun
    [] op = "CLZ" -> R15_Osaka
    [] OTHER -> R07_Istanbul

disallowed_in_static_call == {"SSTORE", "TSTORE", "LOG", "SELFDESTRUCT", "CREATE", "CREATE2"}

-----------------------------------------------------------------------------
\* The main loop

\* A pass over the code that skips the data of every PUSH.
CalculateValidJumpTargets(code) ==
  LET visit(acc, i) ==
        IF i < acc.next THEN acc
        ELSE IF code[i + 1].op = "PUSH" THEN [acc EXCEPT !.next = i + code[i + 1].n + 1]
        ELSE IF code[i + 1].op = "JUMPDEST" THEN [acc EXCEPT !.valid = @ \cup {i}]
        ELSE acc
  IN  FoldLeft(visit, [next |-> 0, valid |-> {}], [k \in 1 .. Len(code) |-> k - 1]).valid

CheckJumpDest(c, index) ==
  IsUint64(index) /\ index < Len(c.code) /\ index \in CalculateValidJumpTargets(c.code)

RunJump(c, op) ==
  LET taken == op = "JUMP" \/ c.stack[2] # 0
      pops == IF op = "JUMP" THEN 1 ELSE 2
  IN  IF ~taken THEN [Pop(c, pops) EXCEPT !.pc = @ + 1]
      ELSE IF CheckJumpDest(c, c.stack[1]) THEN [Pop(c, pops) EXCEPT !.pc = c.stack[1]]
      ELSE Fail(c)

Invoke(c, i) ==
  LET op == i.op
  IN  CASE op \in NullaryOps -> Push(c, Nullary(c, op))
        [] op \in LogicOps \cup ArithmeticOps
                  \cup {"ADDMOD", "MULMOD", "ISZERO", "NOT", "CLZ", "EXP"} -> WordOp(c, op)
        [] op = "SHA3" -> Sha3(c)
        [] op = "CALLDATACOPY" -> DataCopy(c, Ctx.callData)
        [] op = "CODECOPY" -> DataCopy(c, CodeBytes(c))
        [] op = "RETURNDATACOPY" -> ReturnDataCopy(c)
        [] op = "MCOPY" -> Mcopy(c)
        [] op = "MLOAD" -> Mload(c)
        [] op = "MSTORE" -> Mstore(c, Bytes(c.stack[2]))
        [] op = "MSTORE8" -> Mstore(c, <<ByteOf(c.stack[2], WordBytes - 1)>>)
        [] op = "LOG" -> Log(c, i.n)
        [] op = "RETURN" -> Return(c, "stopped")
        [] op = "REVERT" -> Return(c, "reverted")
        [] op = "BLOCKHASH" -> Blockhash(c)
        [] op = "BLOBHASH" -> Blobhash(c)
        [] op = "CALLDATALOAD" -> Calldataload(c)
        [] op = "PUSH" -> PushData(c, i.n)
        [] op = "DUP" -> Push(c, c.stack[i.n])
        [] op = "SWAP" ->
             [c EXCEPT !.stack = [@ EXCEPT ![1] = c.stack[i.n + 1], ![i.n + 1] = c.stack[1]]]
        [] op = "POP" -> Pop(c, 1)
        [] op = "JUMPDEST" -> c
        [] op = "SLOAD" -> Sload(c)
        [] op = "SSTORE" -> Sstore(c)
        [] op = "TLOAD" -> PopPush(c, 1, Get(c.transient, c.stack[1]))
        [] op = "TSTORE" -> SetTransient(Pop(c, 2), c.stack[1], c.stack[2])
        [] op \in {"BALANCE", "EXTCODESIZE", "EXTCODEHASH"} -> AccountInfo(c, op)
        [] op = "EXTCODECOPY" -> ExtCodeCopy(c)
        [] op = "SELFDESTRUCT" -> Selfdestruct(c)
        [] op \in {"CREATE", "CREATE2"} -> CreateImpl(c, op)
        [] op \in CallOps -> CallImpl(c, op)
        [] op = "STOP" -> [c EXCEPT !.status = "stopped"]
        [] OTHER -> Fail(c)

Run(c, i) ==
  LET info == kInfo(i)
      delta == info.pushes - info.pops
  IN  IF \/ c.rev < introduced_in(i.op)
         \/ c.readOnly /\ i.op \in disallowed_in_static_call
         \/ Len(c.stack) < info.pops
         \/ delta > 0 /\ MaxStackSize - Len(c.stack) < delta
      THEN Fail(c)
      ELSE Then(Charge(c, info.static_gas), LAMBDA d :
        IF i.op \in {"JUMP", "JUMPI"} THEN RunJump(d, i.op)
        ELSE Then(Invoke(d, i), LAMBDA e : [e EXCEPT !.pc = @ + 1]))

\* One instruction; the code is padded with STOPs.
InterpretNSteps(c) ==
  IF Running(c) THEN Run(c, IF c.pc < Len(c.code) THEN c.code[c.pc + 1] ELSE I("STOP")) ELSE c
=============================================================================
