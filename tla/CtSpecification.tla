-------------------------- MODULE CtSpecification ---------------------------
(***************************************************************************)
(* The EVM specification of the conformance tests (go/ct/spc): for every   *)
(* instruction a family of rules, each a condition on states and an effect *)
(* on them.  A family is given by the set of the states that the rules     *)
(* whose condition holds lead to; a condition that cannot be evaluated,    *)
(* because it names an element the stack does not have, does not hold.     *)
(***************************************************************************)
EXTENDS EvmState

When(condition, state) == IF condition THEN {state} ELSE {}

\* A condition on the element at a position of the stack, 0 being the top.
Param(s, i, P(_)) == Len(s.stack) > i /\ P(s.stack[i + 1])
AnyParam(s, i) == Len(s.stack) > i

\* The rules for an instruction that cannot be executed.
tooLittleGas(s, staticGas, condition) ==
  When(staticGas > 0 /\ s.gas < staticGas /\ condition, Fail(s))
tooFewElements(s, pops) == When(pops > 0 /\ Len(s.stack) < pops, Fail(s))
notEnoughSpace(s, pops, pushes, condition) ==
  When(pushes > pops /\ Len(s.stack) >= MaxStackSize /\ condition, Fail(s))

\* The regular rule charges the static gas and advances the program counter
\* before its effect.
regularCondition(s, staticGas, pops, pushes, condition) ==
  /\ s.gas >= staticGas
  /\ Len(s.stack) >= pops
  /\ Len(s.stack) <= MaxStackSize - MaxOf(pushes - pops, 0)
  /\ condition
regularStart(s, staticGas) == [s EXCEPT !.gas = @ - staticGas, !.pc = @ + 1]

rulesFor(s, staticGas, pops, pushes, condition, Effect(_)) ==
  UNION {tooLittleGas(s, staticGas, condition),
         tooFewElements(s, pops),
         notEnoughSpace(s, pops, pushes, condition),
         When(regularCondition(s, staticGas, pops, pushes, condition),
              With(regularStart(s, staticGas), Effect))}

-----------------------------------------------------------------------------
\* Memory and gas

ExpansionCosts(s, offset, size) ==
  LET result(cost, o, n) == [cost |-> cost, offset |-> o, size |-> n]
      newSize == offset + size
  IN  IF ~IsUint64(size) THEN result(MaxInt64, 0, 0)
      ELSE IF ~IsUint64(offset) THEN result(IF size = 0 THEN 0 ELSE MaxInt64, 0, 0)
      ELSE IF size = 0 \/ newSize <= Len(s.memory) THEN result(0, offset, size)
      ELSE IF newSize > MaxUint64 \/ newSize > MaxMemoryExpansionSize
           THEN result(MaxInt64, offset, size)
      ELSE result(MemoryCost(SizeInWords(newSize)) - MemoryCost(SizeInWords(Len(s.memory))),
                  offset, size)

Grow(s, offset, size) ==
  IF size = 0 \/ offset + size <= Len(s.memory) THEN s
  ELSE [s EXCEPT !.memory = @ \o Zeros(SizeInWords(offset + size) * WordBytes - Len(@))]

Write(s, data, offset) ==
  [Grow(s, offset, Len(data)) EXCEPT !.memory = Overwrite(@, offset, data)]

sumWithOverflow(a, b) ==
  IF a + b > MaxInt64 THEN [sum |-> 0, overflow |-> TRUE] ELSE [sum |-> a + b, overflow |-> FALSE]

\* Charge one or two dynamic costs and go on, unless there is too little gas.
Charge(s, cost, Effect(_)) ==
  With(s, LAMBDA t : IF t.gas < cost THEN Fail(t) ELSE With([t EXCEPT !.gas = @ - cost], Effect))
ChargeBoth(s, a, b, Effect(_)) ==
  With(sumWithOverflow(a, b), LAMBDA total :
    IF total.overflow THEN Fail(s) ELSE Charge(s, total.sum, Effect))

-----------------------------------------------------------------------------
\* Words

\* Srsh of the tests' own words; Shl and Shr are those of the library.
Srsh(value, shift) ==
  IF shift > WordBits THEN (IF Signed(value) >= 0 THEN 0 ELSE MaxWord) ELSE SRsh(value, shift)

binaryResult(op, a, b) ==
  CASE op = "ADD" -> Add(a, b)
    [] op = "MUL" -> Mul(a, b)
    [] op = "SUB" -> Sub(a, b)
    [] op = "DIV" -> Div(a, b)
    [] op = "SDIV" -> SDiv(a, b)
    [] op = "MOD" -> Mod(a, b)
    [] op = "SMOD" -> SMod(a, b)
    [] op = "SIGNEXTEND" -> ExtendSign(b, a)
    [] op = "LT" -> Bool(a < b)
    [] op = "GT" -> Bool(a > b)
    [] op = "SLT" -> Bool(Signed(a) < Signed(b))
    [] op = "SGT" -> Bool(Signed(a) > Signed(b))
    [] op = "EQ" -> Bool(a = b)
    [] op = "AND" -> a & b
    [] op = "OR" -> a | b
    [] op = "XOR" -> a ^^ b
    [] op = "BYTE" -> IF a > WordBytes - 1 THEN 0 ELSE Bytes(b)[a + 1]
    [] op = "SHL" -> IF a < WordBits THEN Lsh(b, a) ELSE 0
    [] op = "SHR" -> IF a < WordBits THEN Rsh(b, a) ELSE 0
    [] op = "SAR" -> Srsh(b, a)

binaryGas(op) ==
  IF op \in {"MUL", "DIV", "SDIV", "MOD", "SMOD", "SIGNEXTEND"} THEN 5 ELSE 3

BinaryOps == {"ADD", "MUL", "SUB", "DIV", "SDIV", "MOD", "SMOD", "SIGNEXTEND", "LT", "GT", "SLT",
              "SGT", "EQ", "AND", "OR", "XOR", "BYTE", "SHL", "SHR", "SAR"}

binaryOp(s, op) ==
  rulesFor(s, binaryGas(op), 2, 1, TRUE, LAMBDA t :
    PopPush(t, 2, binaryResult(op, t.stack[1], t.stack[2])))

trinaryOp(s, op) ==
  rulesFor(s, 8, 3, 1, TRUE, LAMBDA t :
    LET a == t.stack[1]
        b == t.stack[2]
        n == t.stack[3]
    IN  PopPush(t, 3, IF op = "ADDMOD" THEN AddMod(a, b, n) ELSE MulMod(a, b, n)))

unaryOp(s, op) ==
  rulesFor(s, 3, 1, 1, TRUE, LAMBDA t :
    PopPush(t, 1, IF op = "ISZERO" THEN Bool(t.stack[1] = 0) ELSE Complement(t.stack[1])))

\* The cost of the exponent is by the position of its first byte that is not zero.
exponentCost(e) ==
  LET set == {i \in 0 .. WordBytes - 1 : ByteOf(e, i) # 0}
  IN  IF set = {} THEN 0 ELSE 50 * (WordBytes - Min(set))

expRules(s) ==
  rulesFor(s, 10, 2, 1, TRUE, LAMBDA t :
    Charge(t, exponentCost(t.stack[2]), LAMBDA u :
      PopPush(u, 2, Exp(t.stack[1], t.stack[2]))))

clzRules(s) ==
  rulesFor(s, 5, 1, 1, s.rev >= R15_Osaka, LAMBDA t :
    PopPush(t, 1, WordBits - BitLen(t.stack[1])))
  \cup When(s.rev <= R14_Prague, Fail(s))

sha3Rules(s) ==
  rulesFor(s, 30, 2, 1, TRUE, LAMBDA t :
    LET span == ExpansionCosts(t, t.stack[1], t.stack[2])
    IN  Charge(t, span.cost, LAMBDA u :
        Charge(u, 6 * SizeInWords(span.size), LAMBDA v :
          LET w == Grow(v, span.offset, span.size)
          IN  PopPush(w, 2, Keccak256(Span(w.memory, span.offset, span.size))))))

-----------------------------------------------------------------------------
\* Stack, memory and control flow

pushOp(s, n) ==
  rulesFor(s, 3, 0, 1, TRUE, LAMBDA t :
    [Push(t, FromBytes([i \in 1 .. n |-> GetData(t, t.pc + i - 1)])) EXCEPT !.pc = @ + n])
dupOp(s, n) == rulesFor(s, 3, n, n + 1, TRUE, LAMBDA t : Push(t, t.stack[n]))
swapOp(s, n) ==
  rulesFor(s, 3, n + 1, n + 1, TRUE, LAMBDA t :
    [t EXCEPT !.stack = [@ EXCEPT ![1] = t.stack[n + 1], ![n + 1] = t.stack[1]]])
popRules(s) == rulesFor(s, 2, 1, 0, TRUE, LAMBDA t : Pop(t, 1))
push0Rules(s) ==
  rulesFor(s, 2, 0, 1, s.rev >= R12_Shanghai, LAMBDA t : Push(t, 0))
  \cup rulesFor(s, 2, 0, 1, s.rev <= R11_Paris, LAMBDA t : Fail(t))

\* MLOAD, MSTORE and MSTORE8
memoryRules(s, op) ==
  LET size == IF op = "MSTORE8" THEN 1 ELSE WordBytes
      data(t) == IF op = "MSTORE8" THEN <<Bytes(t.stack[2])[WordBytes]>> ELSE Bytes(t.stack[2])
      effect(t, offset) ==
        IF op = "MLOAD"
        THEN LET u == Grow(t, offset, size)
             IN  PopPush(u, 1, FromBytes(Span(u.memory, offset, size)))
        ELSE Write(Pop(t, 2), data(t), offset)
  IN  rulesFor(s, 3, IF op = "MLOAD" THEN 1 ELSE 2, IF op = "MLOAD" THEN 1 ELSE 0, TRUE, LAMBDA t :
        LET span == ExpansionCosts(t, t.stack[1], size)
        IN  Charge(t, span.cost, LAMBDA u : effect(u, span.offset)))

mcopyRules(s) ==
  rulesFor(s, 3, 3, 0, s.rev >= R13_Cancun, LAMBDA t :
    LET src == ExpansionCosts(t, t.stack[2], t.stack[3])
        dest == ExpansionCosts(t, t.stack[1], t.stack[3])
    IN  ChargeBoth(t, MaxOf(src.cost, dest.cost), 3 * SizeInWords(src.size), LAMBDA u :
          LET v == Grow(u, src.offset, src.size)
          IN  Write(Pop(v, 3), Span(v.memory, src.offset, src.size), dest.offset)))
  \cup When(s.rev <= R12_Shanghai, Fail(s))

JumpsTo(s, target) == IsCode(s, target) /\ GetOperation(s, target).op = "JUMPDEST"

\* Mutant: the rule for a target within data is missing.
jumpRulesOnCode(s) ==
  rulesFor(s, 8, 1, 0, Param(s, 0, LAMBDA p : JumpsTo(s, p)), LAMBDA t :
    [Pop(t, 1) EXCEPT !.pc = t.stack[1]])
  \cup rulesFor(s, 8, 1, 0, Param(s, 0, LAMBDA p : IsCode(s, p) /\ ~JumpsTo(s, p)),
                LAMBDA t : Fail(t))

jumpRules(s) ==
  rulesFor(s, 8, 1, 0, Param(s, 0, LAMBDA p : JumpsTo(s, p)), LAMBDA t :
    [Pop(t, 1) EXCEPT !.pc = t.stack[1]])
  \cup rulesFor(s, 8, 1, 0, Param(s, 0, LAMBDA p : ~IsCode(s, p)), LAMBDA t : Fail(t))
  \cup rulesFor(s, 8, 1, 0, Param(s, 0, LAMBDA p : IsCode(s, p) /\ ~JumpsTo(s, p)),
                LAMBDA t : Fail(t))

jumpiRules(s) ==
  LET taken == Param(s, 1, LAMBDA p : p # 0)
  IN  rulesFor(s, 10, 2, 0, taken /\ Param(s, 0, LAMBDA p : JumpsTo(s, p)), LAMBDA t :
        [Pop(t, 2) EXCEPT !.pc = t.stack[1]])
      \cup rulesFor(s, 10, 2, 0, Param(s, 1, LAMBDA p : p = 0), LAMBDA t : Pop(t, 2))
      \cup rulesFor(s, 10, 2, 0, taken /\ Param(s, 0, LAMBDA p : ~IsCode(s, p)),
                    LAMBDA t : Fail(t))
      \cup rulesFor(s, 10, 2, 0, taken /\ Param(s, 0, LAMBDA p : IsCode(s, p) /\ ~JumpsTo(s, p)),
                    LAMBDA t : Fail(t))

stopRules(s) == {[s EXCEPT !.status = "stopped", !.returnData = <<>>, !.pc = @ + 1]}

\* RETURN and REVERT
endRules(s, status) ==
  rulesFor(s, 0, 2, 0, TRUE, LAMBDA t :
    LET span == ExpansionCosts(t, t.stack[1], t.stack[2])
    IN  Charge(Pop(t, 2), span.cost, LAMBDA u :
          LET v == Grow(u, span.offset, span.size)
          IN  [v EXCEPT !.returnData = Span(v.memory, span.offset, span.size),
                        !.status = status]))

logOp(s, n) ==
  LET staticGas == 375 + 375 * n
  IN  rulesFor(s, staticGas, 2 + n, 0, ~s.readOnly, LAMBDA t :
        LET span == ExpansionCosts(t, t.stack[1], t.stack[2])
        IN  Charge(Pop(t, 2 + n), span.cost, LAMBDA u :
            Charge(u, 8 * span.size, LAMBDA v :
              LET w == Grow(v, span.offset, span.size)
              IN  AddLog(w, Span(w.memory, span.offset, span.size), SubSeq(t.stack, 3, n + 2)))))
      \cup rulesFor(s, staticGas, 2 + n, 0, s.readOnly, LAMBDA t : Fail(t))

-----------------------------------------------------------------------------
\* The environment

\* The values pushed by instructions that take nothing from the stack.  The
\* program counter has been advanced, and the gas charged.
pushedValue(t, op) ==
  CASE op = "PC" -> t.pc - 1
    [] op = "MSIZE" -> Len(t.memory)
    [] op = "GAS" -> t.gas
    [] op = "ADDRESS" -> Ctx.self
    [] op = "ORIGIN" -> Ctx.origin
    [] op = "CALLER" -> Ctx.caller
    [] op = "CALLVALUE" -> Ctx.value
    [] op = "NUMBER" -> Ctx.number
    [] op = "COINBASE" -> Ctx.coinbase
    [] op = "GASLIMIT" -> Ctx.gasLimit
    [] op = "PREVRANDAO" -> Ctx.prevRandao
    [] op = "GASPRICE" -> Ctx.gasPrice
    [] op = "TIMESTAMP" -> Ctx.timestamp
    [] op = "CHAINID" -> Ctx.chainId
    [] op = "CODESIZE" -> Len(t.code)
    [] op = "CALLDATASIZE" -> Len(Ctx.callData)
    [] op = "SELFBALANCE" -> GetBalance(t, Ctx.self)
    [] op = "RETURNDATASIZE" -> Len(t.lastReturn)

ValueOps == {"PC", "MSIZE", "GAS", "ADDRESS", "ORIGIN", "CALLER", "CALLVALUE", "NUMBER", "COINBASE",
             "GASLIMIT", "PREVRANDAO", "GASPRICE", "TIMESTAMP", "CHAINID", "CODESIZE",
             "CALLDATASIZE", "SELFBALANCE", "RETURNDATASIZE"}

valueRules(s, op) ==
  rulesFor(s, IF op = "SELFBALANCE" THEN 5 ELSE 2, 0, 1, TRUE, LAMBDA t :
    Push(t, pushedValue(t, op)))

baseFeeRules(s) ==
  rulesFor(s, 2, 0, 1, s.rev >= R10_London, LAMBDA t : Push(t, Ctx.baseFee))
  \cup When(s.rev <= R09_Berlin, Fail(s))
blobBaseFeeRules(s) ==
  rulesFor(s, 2, 0, 1, s.rev >= R13_Cancun, LAMBDA t : Push(t, Ctx.blobBaseFee))
  \cup When(s.rev <= R12_Shanghai, Fail(s))

HasBlobHash(index) == IsUint64(index) /\ index < Len(Ctx.blobHashes)
blobHashRules(s) ==
  rulesFor(s, 3, 1, 1, s.rev >= R13_Cancun /\ Param(s, 0, HasBlobHash), LAMBDA t :
    PopPush(t, 1, Ctx.blobHashes[t.stack[1] + 1]))
  \cup rulesFor(s, 3, 1, 1, s.rev >= R13_Cancun /\ Param(s, 0, LAMBDA p : ~HasBlobHash(p)),
                LAMBDA t : PopPush(t, 1, 0))
  \cup When(s.rev <= R12_Shanghai, Fail(s))

InRange256FromCurrentBlock(number) ==
  /\ IsUint64(number)
  /\ number >= MaxOf(Ctx.number - 256, 0)
  /\ number < Ctx.number
blockhashRules(s) ==
  rulesFor(s, 20, 1, 1, Param(s, 0, InRange256FromCurrentBlock), LAMBDA t :
    PopPush(t, 1, RecentBlockHash(Ctx.number - t.stack[1] - 1)))
  \cup rulesFor(s, 20, 1, 1, Param(s, 0, LAMBDA p : ~InRange256FromCurrentBlock(p)),
                LAMBDA t : PopPush(t, 1, 0))

\* The bytes from an offset on, as many as asked for, zeros beyond the end.
DataSlice(data, offset, size) ==
  LET start == MinOf(offset, Len(data))
      end == MinOf(start + size, Len(data))
  IN  SubSeq(data, start + 1, end) \o Zeros(size - (end - start))

callDataloadRules(s) ==
  rulesFor(s, 3, 1, 1, TRUE, LAMBDA t :
    PopPush(t, 1, IF IsUint64(t.stack[1])
                  THEN FromBytes(DataSlice(Ctx.callData, t.stack[1], WordBytes)) ELSE 0))

\* What the copies of code, call data and account code have in common; the
\* destination, the offset and the size are on top of the stack.
copyEffect(t, data) ==
  LET span == ExpansionCosts(t, t.stack[1], t.stack[3])
  IN  ChargeBoth(t, span.cost, 3 * SizeInWords(span.size), LAMBDA u :
        Write(Pop(u, 3), DataSlice(data, t.stack[2], span.size), span.offset))

codeCopyRules(s) == rulesFor(s, 3, 3, 0, TRUE, LAMBDA t : copyEffect(t, CodeBytes(t)))
callDataCopyRules(s) == rulesFor(s, 3, 3, 0, TRUE, LAMBDA t : copyEffect(t, Ctx.callData))

returnDataCopyRules(s) ==
  rulesFor(s, 3, 3, 0, TRUE, LAMBDA t :
    LET start == t.stack[2]
        size == t.stack[3]
        span == ExpansionCosts(t, t.stack[1], size)
    IN  IF ~IsUint64(start) \/ ~IsUint64(size) \/ start + size > MaxUint64
             \/ start + size > Len(t.lastReturn)
        THEN Fail(t)
        ELSE ChargeBoth(t, span.cost, 3 * SizeInWords(span.size), LAMBDA u :
               Write(Pop(u, 3), SubSeq(t.lastReturn, start + 1, start + size), span.offset)))

-----------------------------------------------------------------------------
\* Storage

sloadRules(s) ==
  LET load(t) == PopPush(t, 1, Get(t.storage, t.stack[1]))
  IN  rulesFor(s, 2100, 1, 1, s.rev >= R09_Berlin /\ Param(s, 0, LAMBDA k : k \notin s.warmKeys),
               LAMBDA t : MarkKeyWarm(load(t), t.stack[1]))
      \cup rulesFor(s, 100, 1, 1, s.rev >= R09_Berlin /\ Param(s, 0, LAMBDA k : k \in s.warmKeys),
                    LAMBDA t : load(t))
      \cup rulesFor(s, 800, 1, 1, s.rev = R07_Istanbul, LAMBDA t : load(t))

\* The configurations of SSTORE with what they cost and refund.  From Berlin on
\* those of a cold slot include the cost of the access; the ones that are left
\* out are said to imply that the slot is warm.
sstoreRules(rev) ==
  LET row(warm, config, cost, refund) ==
        [warm |-> warm, config |-> config, gasCost |-> cost, gasRefund |-> refund]
      clears == IF rev <= R09_Berlin THEN 15000 ELSE 4800
  IN  IF rev = R07_Istanbul
      THEN {row(w, "StorageAssigned", 800, 0) : w \in BOOLEAN}
           \cup {row(w, "StorageAdded", 20000, 0) : w \in BOOLEAN}
           \cup {row(w, "StorageAddedDeleted", 800, 19200) : w \in BOOLEAN}
           \cup {row(w, "StorageDeletedRestored", 800, -10800) : w \in BOOLEAN}
           \cup {row(w, "StorageDeletedAdded", 800, -15000) : w \in BOOLEAN}
           \cup {row(w, "StorageDeleted", 5000, 15000) : w \in BOOLEAN}
           \cup {row(w, "StorageModified", 5000, 0) : w \in BOOLEAN}
           \cup {row(w, "StorageModifiedDeleted", 800, 15000) : w \in BOOLEAN}
           \cup {row(w, "StorageModifiedRestored", 800, 4200) : w \in BOOLEAN}
      ELSE {row(FALSE, "StorageAdded", 22100, 0),
            row(FALSE, "StorageDeleted", 5000, clears),
            row(FALSE, "StorageModified", 5000, 0),
            row(TRUE, "StorageAssigned", 100, 0),
            row(TRUE, "StorageAdded", 20000, 0),
            row(TRUE, "StorageAddedDeleted", 100, 19900),
            row(TRUE, "StorageDeletedRestored", 100, 2800 - clears),
            row(TRUE, "StorageDeletedAdded", 100, -clears),
            row(TRUE, "StorageDeleted", 2900, clears),
            row(TRUE, "StorageModified", 2900, 0),
            row(TRUE, "StorageModifiedDeleted", 100, clears),
            row(TRUE, "StorageModifiedRestored", 100, 2800)}

StorageConfiguration(s, config) ==
  /\ AnyParam(s, 1)
  /\ config = GetStorageStatus(Get(s.original, s.stack[1]), Get(s.storage, s.stack[1]), s.stack[2])

\* At least 2301 gas must be there; what the configuration does not cost is
\* given back.
sstoreOpRegular(s, row) ==
  LET limit == MaxOf(row.gasCost, 2301)
      condition == /\ ~s.readOnly
                   /\ StorageConfiguration(s, row.config)
                   /\ s.rev >= R09_Berlin => row.warm = (s.stack[1] \in s.warmKeys)
  IN  rulesFor(s, limit, 2, 0, condition, LAMBDA t :
        LET key == t.stack[1]
            stored == SetCurrent(Pop(t, 2), key, t.stack[2])
        IN  [IF t.rev >= R09_Berlin THEN MarkKeyWarm(stored, key) ELSE stored EXCEPT
               !.gas = @ + limit - row.gasCost,
               !.refund = @ + row.gasRefund])

sstoreOpReadOnlyMode(s, row) ==
  rulesFor(s, MaxOf(row.gasCost, 2301), 2, 0, s.readOnly /\ StorageConfiguration(s, row.config),
           LAMBDA t : Fail(t))

allSstoreRules(s) ==
  UNION {sstoreOpRegular(s, row) \cup sstoreOpReadOnlyMode(s, row) : row \in sstoreRules(s.rev)}
  \cup When(s.gas < 2300, Fail(s))
  \cup When(Len(s.stack) < 2, Fail(s))

\* Two rules each, for a key with a value and for one without.
tloadRules(s) ==
  rulesFor(s, 100, 1, 1, s.rev >= R13_Cancun /\ Param(s, 0, LAMBDA k : Get(s.transient, k) # 0),
           LAMBDA t : PopPush(t, 1, Get(t.transient, t.stack[1])))
  \cup rulesFor(s, 100, 1, 1, s.rev >= R13_Cancun /\ Param(s, 0, LAMBDA k : Get(s.transient, k) = 0),
                LAMBDA t : PopPush(t, 1, 0))
  \cup When(s.rev <= R12_Shanghai, Fail(s))

tstoreRules(s) ==
  rulesFor(s, 100, 2, 0, s.rev >= R13_Cancun /\ ~s.readOnly /\ AnyParam(s, 0), LAMBDA t :
    SetTransient(Pop(t, 2), t.stack[1], t.stack[2]))
  \cup When(s.rev <= R12_Shanghai, Fail(s))
  \cup When(s.readOnly, Fail(s))

-----------------------------------------------------------------------------
\* Accounts

IsAddressWarm(s, i) == Param(s, i, LAMBDA p : AddressOf(p) \in s.warm)
IsAddressCold(s, i) == Param(s, i, LAMBDA p : AddressOf(p) \notin s.warm)

\* The rules of an instruction that takes an address from the stack: cold, warm
\* and before Berlin.
accessRules(s, pops, pushes, Effect(_)) ==
  rulesFor(s, 2600, pops, pushes, s.rev >= R09_Berlin /\ IsAddressCold(s, 0), LAMBDA t :
    MarkWarm(Effect(t), AddressOf(t.stack[1])))
  \cup rulesFor(s, 100, pops, pushes, s.rev >= R09_Berlin /\ IsAddressWarm(s, 0),
                LAMBDA t : Effect(t))
  \cup rulesFor(s, 700, pops, pushes, s.rev = R07_Istanbul, LAMBDA t : Effect(t))

balanceRules(s) ==
  accessRules(s, 1, 1, LAMBDA t : PopPush(t, 1, GetBalance(t, AddressOf(t.stack[1]))))
extCodeSizeRules(s) ==
  accessRules(s, 1, 1, LAMBDA t : PopPush(t, 1, Len(GetCode(t, AddressOf(t.stack[1])))))
extCodeCopyRules(s) ==
  accessRules(s, 4, 0, LAMBDA t : copyEffect(Pop(t, 1), GetCode(t, AddressOf(t.stack[1]))))

AddressIs(s, i, warm) == IF warm THEN IsAddressWarm(s, i) ELSE IsAddressCold(s, i)
AccountIs(s, i, empty) == Param(s, i, LAMBDA p : IsEmpty(s, AddressOf(p)) = empty)

\* One family of rules for each revision, for a warm or cold and an empty or used
\* account; those of other revisions than the state's do not apply.
extCodeHashRules(s) ==
  LET rules(warm, empty) ==
        rulesFor(s, IF s.rev < R09_Berlin THEN 700 ELSE IF warm THEN 100 ELSE 2600, 1, 1,
                 AddressIs(s, 0, warm) /\ AccountIs(s, 0, empty), LAMBDA t :
          LET address == AddressOf(t.stack[1])
              hash == IF IsEmpty(t, address) THEN 0 ELSE GetCodeHash(t, address)
              pushed == PopPush(t, 1, hash)
          IN  IF t.rev >= R09_Berlin /\ ~warm THEN MarkWarm(pushed, address) ELSE pushed)
  IN  UNION {rules(warm, empty) : warm \in BOOLEAN, empty \in BOOLEAN}

selfDestructEffect(t) ==
  LET beneficiary == AddressOf(t.stack[1])
      cold == t.rev > R07_Istanbul /\ beneficiary \notin t.warm
      creates == GetBalance(t, Ctx.self) # 0 /\ IsEmpty(t, beneficiary)
      cost == (IF cold THEN 2600 ELSE 0) + (IF creates THEN 25000 ELSE 0)
      touched == IF cold THEN MarkWarm(Pop(t, 1), beneficiary) ELSE Pop(t, 1)
  IN  Charge(touched, cost, LAMBDA u :
        LET refunded == [u EXCEPT !.refund = @ + (IF u.rev < R10_London /\ ~u.destructed
                                                   THEN 24000 ELSE 0),
                                  !.status = "stopped"]
        IN  IF u.rev < R13_Cancun \/ u.isNew
            THEN [refunded EXCEPT !.destructed = TRUE,
                                  !.destructs = Append(@, <<Ctx.self, beneficiary>>)]
            ELSE refunded)

\* The rules for one combination of conditions on the originator, the beneficiary
\* and the contract.
makeSelfDestructRules(s, hasFunds, hasSelfDestructed, empty, warm, isNew) ==
  LET funds == GetBalance(s, Ctx.self)
      condition == /\ ~s.readOnly
                   /\ IF hasFunds THEN funds > 0 ELSE funds = 0
                   /\ s.destructed = hasSelfDestructed
                   /\ AccountIs(s, 0, empty)
                   /\ AddressIs(s, 0, warm)
                   /\ s.isNew = isNew
  IN  rulesFor(s, 5000, 1, 0, condition, selfDestructEffect)

selfDestructRules(s) ==
  UNION {makeSelfDestructRules(s, c[1], c[2], c[3], c[4], c[5]) : c \in [1 .. 5 -> BOOLEAN]}
  \cup rulesFor(s, 5000, 1, 0, s.readOnly, LAMBDA t : Fail(t))

-----------------------------------------------------------------------------
\* Creations and calls

\* The creation, once everything but its own gas is paid for.
createCall(t, kind, value, input) ==
  LET limit == t.gas - t.gas \div 64
      called == Call(t, [kind |-> kind, sender |-> Ctx.self, recipient |-> 0, code |-> 0,
                         value |-> value, input |-> input, gas |-> limit])
      res == called.result
      after == [called.state EXCEPT !.gas = @ - (limit - called.gasLeft),
                                    !.refund = @ + res.refund]
  IN  IF res.success THEN [Push(after, res.created) EXCEPT !.lastReturn = <<>>]
      ELSE [Push(after, 0) EXCEPT !.lastReturn = res.output]

createEffect(t, kind) ==
  LET value == t.stack[1]
      span == ExpansionCosts(t, t.stack[2], t.stack[3])
      words == SizeInWords(span.size)
      shanghai == t.rev >= R12_Shanghai
      extra == (IF shanghai THEN 2 * words ELSE 0) + (IF kind = "CREATE2" THEN 6 * words ELSE 0)
      popped == Pop(t, IF kind = "CREATE2" THEN 4 ELSE 3)
  IN  IF shanghai /\ (~IsUint64(t.stack[3]) \/ span.size > MaxInitCodeSize) THEN Fail(t)
      ELSE ChargeBoth(popped, span.cost, extra, LAMBDA u :
             LET v == Grow(u, span.offset, span.size)
             IN  IF GetBalance(v, Ctx.self) < value
                 THEN [Push(v, 0) EXCEPT !.lastReturn = <<>>]
                 ELSE createCall(v, kind, value, Span(v.memory, span.offset, span.size)))

\* The read-only rule of CREATE2 is stated with three elements, like that of CREATE.
createRules(s, kind) ==
  rulesFor(s, 32000, 3, 1, s.readOnly, LAMBDA t : Fail(t))
  \cup rulesFor(s, 32000, IF kind = "CREATE2" THEN 4 ELSE 3, 1, ~s.readOnly,
                LAMBDA t : createEffect(t, kind))

\* The cost of the delegate's access, which is warm from then on.
delegateAccess(t, target) ==
  LET delegates == IF t.rev >= R14_Prague THEN ParseDelegationDesignator(GetCode(t, target)) ELSE {}
  IN  [cost |-> IF delegates = {} THEN 0 ELSE IF delegates \subseteq t.warm THEN 100 ELSE 2600,
       state |-> [t EXCEPT !.warm = @ \cup delegates]]

\* The call, once everything but its own gas is paid for.
nestedCall(t, op, gas, target, value, input, ret) ==
  LET limit == t.gas - t.gas \div 64
      endowment == IF IsUint64(gas) /\ gas < limit THEN gas ELSE limit
      stipend == IF value # 0 THEN 2300 ELSE 0
      called == Call(t,
        [kind |-> IF (t.readOnly /\ op = "CALL") \/ op = "STATICCALL" THEN "STATICCALL" ELSE op,
         sender |-> IF op = "DELEGATECALL" THEN Ctx.caller ELSE Ctx.self,
         recipient |-> IF op \in {"DELEGATECALL", "CALLCODE"} THEN Ctx.self ELSE target,
         code |-> target,
         value |-> IF op = "DELEGATECALL" THEN Ctx.value ELSE value,
         input |-> input, gas |-> endowment + stipend])
      res == called.result
      output == SubSeq(res.output, 1, MinOf(Len(res.output), ret.size))
  IN  IF value # 0 /\ GetBalance(t, Ctx.self) < value
      THEN [Push(t, 0) EXCEPT !.lastReturn = <<>>, !.gas = @ + stipend]
      ELSE [Push(Write(called.state, output, ret.offset), Bool(res.success)) EXCEPT
              !.gas = @ + stipend - (endowment + stipend - called.gasLeft),
              !.refund = @ + res.refund,
              !.lastReturn = res.output]

callEffect(t, accessCost, op) ==
  LET hasValue == op \in {"CALL", "CALLCODE"}
      args == IF hasValue THEN t.stack ELSE <<t.stack[1], t.stack[2], 0>> \o SubSeq(t.stack, 3, 6)
      target == AddressOf(args[2])
      value == args[3]
      input == ExpansionCosts(t, args[4], args[5])
      ret == ExpansionCosts(t, args[6], args[7])
      delegate == delegateAccess(t, target)
      transfer == (IF value # 0 THEN 9000 ELSE 0)
                  + (IF value # 0 /\ IsEmpty(t, target) /\ op # "CALLCODE" THEN 25000 ELSE 0)
  IN  ChargeBoth(Pop(delegate.state, IF hasValue THEN 7 ELSE 6), MaxOf(input.cost, ret.cost),
                 transfer + accessCost + delegate.cost, LAMBDA u :
        LET v == IF u.rev >= R09_Berlin THEN MarkWarm(u, target) ELSE u
            w == Grow(Grow(v, input.offset, input.size), ret.offset, ret.size)
        IN  nestedCall(w, op, args[1], target, value, Span(w.memory, input.offset, input.size), ret))

\* Whether the code of an account is a delegation designator, and its target warm.
DelegationOf(s, address) ==
  LET delegates == ParseDelegationDesignator(GetCode(s, address))
  IN  IF delegates = {} THEN "none" ELSE IF delegates \subseteq s.warm THEN "warm" ELSE "cold"

getRulesForCall(s, op, warm, static, zeroValue, delegation) ==
  LET hasValue == op \in {"CALL", "CALLCODE"}
      istanbul == s.rev = R07_Istanbul
      accessCost == IF istanbul THEN 0 ELSE IF warm THEN 100 ELSE 2600
      condition ==
        /\ AddressIs(s, 1, warm)
        /\ s.readOnly = static
        /\ s.rev >= R14_Prague => Param(s, 1, LAMBDA p : DelegationOf(s, AddressOf(p)) = delegation)
        /\ hasValue => Param(s, 2, LAMBDA v : (v = 0) = zeroValue)
  IN  rulesFor(s, IF istanbul THEN 700 ELSE 0, IF hasValue THEN 7 ELSE 6, 1, condition, LAMBDA t :
        IF op = "CALL" /\ static /\ ~zeroValue THEN Fail(t) ELSE callEffect(t, accessCost, op))

\* One family of rules for each revision and for each combination of a warm or cold
\* target, a read-only context, a value and, from Prague on, a delegate.
callRules(s, op) ==
  LET delegations == IF s.rev >= R14_Prague THEN {"none", "warm", "cold"} ELSE {"none"}
  IN  UNION {getRulesForCall(s, op, warm, static, zeroValue, delegation) :
               warm \in BOOLEAN, static \in BOOLEAN, zeroValue \in BOOLEAN,
               delegation \in delegations}

-----------------------------------------------------------------------------
\* The rules of the instruction the program counter is at

stackAndMemoryRules(s, i) ==
  CASE i.op \in BinaryOps -> binaryOp(s, i.op)
    [] i.op \in {"ADDMOD", "MULMOD"} -> trinaryOp(s, i.op)
    [] i.op \in {"ISZERO", "NOT"} -> unaryOp(s, i.op)
    [] i.op = "EXP" -> expRules(s)
    [] i.op = "CLZ" -> clzRules(s)
    [] i.op = "SHA3" -> sha3Rules(s)
    [] i.op = "PUSH" -> pushOp(s, i.n)
    [] i.op = "DUP" -> dupOp(s, i.n)
    [] i.op = "SWAP" -> swapOp(s, i.n)
    [] i.op = "POP" -> popRules(s)
    [] i.op = "PUSH0" -> push0Rules(s)
    [] i.op \in {"MLOAD", "MSTORE", "MSTORE8"} -> memoryRules(s, i.op)
    [] i.op = "MCOPY" -> mcopyRules(s)
    [] OTHER -> {}

environmentRules(s, i) ==
  CASE i.op \in ValueOps -> valueRules(s, i.op)
    [] i.op = "BASEFEE" -> baseFeeRules(s)
    [] i.op = "BLOBBASEFEE" -> blobBaseFeeRules(s)
    [] i.op = "BLOBHASH" -> blobHashRules(s)
    [] i.op = "BLOCKHASH" -> blockhashRules(s)
    [] i.op = "CALLDATALOAD" -> callDataloadRules(s)
    [] i.op = "CODECOPY" -> codeCopyRules(s)
    [] i.op = "CALLDATACOPY" -> callDataCopyRules(s)
    [] i.op = "RETURNDATACOPY" -> returnDataCopyRules(s)
    [] i.op = "BALANCE" -> balanceRules(s)
    [] i.op = "EXTCODESIZE" -> extCodeSizeRules(s)
    [] i.op = "EXTCODECOPY" -> extCodeCopyRules(s)
    [] i.op = "EXTCODEHASH" -> extCodeHashRules(s)
    [] OTHER -> {}

controlAndEffectRules(s, i) ==
  CASE i.op = "STOP" -> stopRules(s)
    [] i.op = "INVALID" -> {Fail(s)}
    [] i.op = "JUMP" -> jumpRules(s)
    [] i.op = "JUMPI" -> jumpiRules(s)
    [] i.op = "JUMPDEST" -> rulesFor(s, 1, 0, 0, TRUE, LAMBDA t : t)
    [] i.op = "RETURN" -> endRules(s, "stopped")
    [] i.op = "REVERT" -> endRules(s, "reverted")
    [] i.op = "LOG" -> logOp(s, i.n)
    [] i.op = "SLOAD" -> sloadRules(s)
    [] i.op = "SSTORE" -> allSstoreRules(s)
    [] i.op = "TLOAD" -> tloadRules(s)
    [] i.op = "TSTORE" -> tstoreRules(s)
    [] i.op = "SELFDESTRUCT" -> selfDestructRules(s)
    [] i.op \in {"CREATE", "CREATE2"} -> createRules(s, i.op)
    [] i.op \in {"CALL", "CALLCODE", "STATICCALL", "DELEGATECALL"} -> callRules(s, i.op)
    [] OTHER -> {}

\* What the rules for a state allow it to become; terminal states stay.
Effects(s) ==
  IF ~Running(s) THEN {s}
  ELSE LET i == GetOperation(s, s.pc)
       IN  UNION {stackAndMemoryRules(s, i), environmentRules(s, i), controlAndEffectRules(s, i)}
=============================================================================
