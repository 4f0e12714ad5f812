---------------------------- MODULE RuleLanguage ----------------------------
(***************************************************************************)
(* The language in which the rules of the specification of the conformance *)
(* tests are written: expressions over a state, conditions on them, how a  *)
(* condition is checked on a state, how it constrains a generator, and     *)
(* which values of the property it is about it asks to test.               *)
(*                                                                         *)
(* A condition is a record: its kind, the variable of the expression it is *)
(* about ("" if it has none), a relation and a value. A condition and its  *)
(* negation (IsCode and IsData, ...) are one kind with the values 1 and 0. *)
(* Values of every domain are integers.                                    *)
(***************************************************************************)
EXTENDS StateGenerator

CONSTANTS
  ConstantValue,   \* the value of the one constant of the rules
  GasSample        \* a gas value that is always tested: 200

Bool(b) == IF b THEN 1 ELSE 0

\* Eq, Ne, Lt, Le, Gt and Ge of an expression and a value.
Compares(kind, v, rel, rhs) == [kind |-> kind, arg |-> v, rel |-> rel, rhs |-> rhs]
Is(kind, v, rhs) == Compares(kind, v, "=", rhs)
StorageConfiguration(config, key, newValue) ==
  [kind |-> "storage", arg |-> key, newValue |-> newValue, rel |-> "=", rhs |-> 1, config |-> config]
RevisionBounds(min, max) ==
  [kind |-> "revision", arg |-> "", rel |-> "in", rhs |-> min, max |-> max]

Expressions == {"status", "pc", "gas", "readOnly", "balance", "op", "stackSize", "param", "valueParam"}

\* The delegation states.
NoDelegationDesignation == 0
WarmDelegationDesignation == 1
ColdDelegationDesignation == 2

-----------------------------------------------------------------------------
(* Evaluation on a state *)

Position(v) == IF v = "param_0" THEN 0 ELSE 1

\* A parameter that is not on the stack cannot be evaluated.
CanEvalWord(s, v) == v \in {"param_0", "param_1"} => Position(v) < Len(s.stack)

EvalWord(s, v) ==
  CASE v = "PC" -> s.pc
    [] v = "self" -> s.self
    [] v = "constant_1" -> ConstantValue
    [] OTHER -> s.stack[Position(v) + 1]

CodePosition(w) == IsUint64(w) /\ w <= MaxInt64

\* Neither can an operation that is data.
CanEval(s, kind, v) ==
  /\ CanEvalWord(s, v)
  /\ kind = "op" /\ CodePosition(EvalWord(s, v)) => IsCode(s.code, EvalWord(s, v))

isInRange256(s, w) ==
  /\ IsUint64(w)
  /\ (IF s.block > BlockWindow THEN s.block - BlockWindow ELSE 0) <= w
  /\ w < s.block

EvalDelegation(s, a) ==
  LET code == GetCode(s.accounts, a)
  IN IF code.kind # "designator" THEN NoDelegationDesignation
     ELSE IF code.to \in s.accounts.warm THEN WarmDelegationDesignation
     ELSE ColdDelegationDesignation

\* What the conditions with two values, or with the states of a delegation, look at.
Fact(s, kind, w) ==
  LET a == NewAddress(w)
  IN CASE kind = "isCode" -> Bool(CodePosition(w) => IsCode(s.code, w))
       [] kind = "storageWarm" -> Bool(w \in s.storage.warm)
       [] kind = "transient" -> Bool(Lookup(s.transient, w) # 0)
       [] kind = "empty" -> Bool(IsEmpty(s.accounts, a))
       [] kind = "addressWarm" -> Bool(a \in s.accounts.warm)
       [] kind = "newContract" -> Bool(s.destructed.newContract)
       [] kind = "selfDestructed" -> Bool(s.destructed.selfDestructed)
       [] kind = "inRange" -> Bool(isInRange256(s, w))
       [] kind = "blobHash" -> Bool(IsUint64(w) /\ w < s.transaction)
       [] kind = "delegation" -> EvalDelegation(s, a)

Eval(s, kind, v) ==
  LET w == EvalWord(s, v)
  IN CASE kind = "status" -> s.status
       [] kind = "pc" -> s.pc
       [] kind = "gas" -> s.gas
       [] kind = "readOnly" -> s.readOnly
       [] kind = "balance" -> GetBalance(s.accounts, NewAddress(w))
       [] kind = "op" -> IF CodePosition(w) THEN GetOperation(s.code, w) ELSE 0
       [] kind = "stackSize" -> Len(s.stack)
       [] kind \in {"param", "valueParam"} -> w
       [] kind = "revision" -> RevisionOf(s)
       [] OTHER -> Fact(s, kind, w)

Accepts(c, value) ==
  CASE c.rel = "=" -> value = c.rhs
    [] c.rel = "#" -> value # c.rhs
    [] c.rel = "<" -> value < c.rhs
    [] c.rel = "<=" -> value <= c.rhs
    [] c.rel = ">" -> value > c.rhs
    [] c.rel = ">=" -> value >= c.rhs
    [] c.rel = "in" -> c.rhs <= value /\ value <= c.max

CheckStorage(s, c) ==
  LET key == EvalWord(s, c.arg)
  IN /\ CanEvalWord(s, c.arg) /\ CanEvalWord(s, c.newValue)
     /\ CheckStorageStatusConfig(c.config, Lookup(s.storage.original, key),
                                 Lookup(s.storage.current, key), EvalWord(s, c.newValue))

Check(s, c) ==
  IF c.kind = "storage" THEN CheckStorage(s, c)
  ELSE CanEval(s, c.kind, c.arg) /\ Accepts(c, Eval(s, c.kind, c.arg))

-----------------------------------------------------------------------------
(* Domains: the neighbours of a value, and the samples of its surroundings. *)
(* Arithmetic wraps on words and on program counters.                       *)

Wrapped(kind, n) ==
  CASE kind \in {"balance", "param", "valueParam"} -> n % (MaxWord + 1)
    [] kind = "pc" -> n % (MaxUint16 + 1)
    [] kind = "op" -> n % (LastPush + 1)
    [] OTHER -> n

Predecessor(kind, n) == Wrapped(kind, n - 1)
Successor(kind, n) == Wrapped(kind, n + 1)

SomethingNotEqual(kind, n) ==
  CASE kind = "status" -> IF n = 0 THEN 1 ELSE 0
    [] kind = "readOnly" -> 1 - n
    [] kind = "stackSize" -> (n + 1) % MaxStackSize
    [] kind = "delegation" -> (n + 1) % 3
    [] OTHER -> Successor(kind, n)

Surroundings(kind, n) == {Predecessor(kind, n), n, Successor(kind, n)}

\* The powers of two and ends of ranges among the samples of words.
NumericParameterSamples ==
  {0, 1, MaxUint64 + 1, MaxWord \div 2, MaxWord \div 2 + 1, MaxWord}

\* Mutant: of an operation only itself is tried.
SamplesOfTheBound(kind, n) ==
  CASE kind \in {"status", "readOnly", "op"} -> {n}
    [] kind = "stackSize" -> {0, MaxStackSize} \cup (Surroundings(kind, n) \cap 0 .. MaxStackSize)
    [] kind = "gas" ->
         {Min({gas, MaxGasUsedByCt}) : gas \in {0, GasSample, MaxGasUsedByCt} \cup Surroundings(kind, n)}
    [] kind = "pc" -> {0, MaxUint16} \cup Surroundings(kind, n) \cup {1, 2, 4}
    [] kind = "valueParam" -> Surroundings(kind, n)
    [] kind \in {"param", "balance"} -> Surroundings(kind, n) \cup NumericParameterSamples

Samples(kind, n) ==
  CASE kind \in {"status", "readOnly"} -> {n}
    [] kind = "op" -> {n, Successor(kind, n)}
    [] kind = "stackSize" -> {0, MaxStackSize} \cup (Surroundings(kind, n) \cap 0 .. MaxStackSize)
    [] kind = "gas" ->
         {Min({gas, MaxGasUsedByCt}) : gas \in {0, GasSample, MaxGasUsedByCt} \cup Surroundings(kind, n)}
    [] kind = "pc" -> {0, MaxUint16} \cup Surroundings(kind, n) \cup {1, 2, 4}
    [] kind = "valueParam" -> Surroundings(kind, n)
    [] kind \in {"param", "balance"} -> Surroundings(kind, n) \cup NumericParameterSamples

Revisions == {R99_UnknownNextRevision} \cup 0 .. NewestSupportedRevision

DelegationSamples(n) == {n, SomethingNotEqual("delegation", n)}

BlockNumberOffsets ==
  {MinInt64, -1, 0, 1, BlockWindow - 1, BlockWindow, BlockWindow + 1, MaxInt64}

-----------------------------------------------------------------------------
(* Constraining a generator *)

\* The expression of a variable: where its value comes from.
BindTo(g, v) ==
  CASE v = "" -> g
    [] v = "PC" -> BindPc(g, v)
    [] v = "self" -> BindToSelfAddress(g, v)
    [] v = "constant_1" -> BindValue(g, v, ConstantValue)
    [] OTHER -> [g EXCEPT !.stack = BindStack(@, Position(v), v)]

RestrictBalance(a, v, rel, n) ==
  CASE rel = "<" -> AddBalanceUpperBound(a, v, Minus(n, 1))
    [] rel = "<=" -> AddBalanceUpperBound(a, v, n)
    [] rel = "=" -> AddBalanceUpperBound(AddBalanceLowerBound(a, v, n), v, n)
    [] rel = ">=" -> AddBalanceLowerBound(a, v, n)
    [] rel = ">" -> AddBalanceLowerBound(a, v, Plus(n, 1))

RestrictGas(g, rel, n) ==
  CASE rel = "<" -> AddGasUpperBound(g, n - 1)
    [] rel = "<=" -> AddGasUpperBound(g, n)
    [] rel = "=" -> SetGas(g, n)
    [] rel = ">=" -> AddGasLowerBound(g, n)
    [] rel = ">" -> AddGasLowerBound(g, n + 1)

RestrictStackSize(g, rel, n) ==
  CASE rel = "<" -> AddMaxSize(g, n - 1)
    [] rel = "<=" -> AddMaxSize(g, n)
    [] rel = "=" -> SetSize(g, n)
    [] rel = ">=" -> AddMinSize(g, n)
    [] rel = ">" -> AddMinSize(g, n + 1)

\* Restrict of an expression; the others support equality only.
RestrictExpression(g, kind, v, rel, n) ==
  CASE kind = "status" -> SetStatus(g, n)
    [] kind = "pc" -> SetPc(g, n)
    [] kind = "readOnly" -> SetReadOnly(g, n)
    [] kind = "gas" -> RestrictGas(g, rel, n)
    [] kind = "stackSize" -> [g EXCEPT !.stack = RestrictStackSize(@, rel, n)]
    [] kind = "balance" -> [BindTo(g, v) EXCEPT !.accounts = RestrictBalance(@, v, rel, n)]
    [] kind = "op" -> [BindTo(g, v) EXCEPT !.code = AddOperation(@, v, n)]
    [] kind \in {"param", "valueParam"} -> [g EXCEPT !.stack = SetValue(@, Position(v), n)]

\* What a condition with two values, or a test value of it, adds.
RestrictCode(code, v, n) == IF n = 1 THEN AddIsCode(code, v) ELSE AddIsData(code, v)

RestrictSlot(storage, v, n) == IF n = 1 THEN BindWarm(storage, v) ELSE BindCold(storage, v)

RestrictTransient(transient, v, n) ==
  IF n = 1 THEN BindToNonZero(transient, v) ELSE BindToZero(transient, v)

RestrictAccount(accounts, kind, v, n) ==
  CASE kind = "empty" /\ n = 1 -> BindToAddressOfEmptyAccount(accounts, v)
    [] kind = "empty" /\ n = 0 -> BindToAddressOfNonEmptyAccount(accounts, v)
    [] kind = "addressWarm" /\ n = 1 -> BindWarmAddress(accounts, v)
    [] kind = "addressWarm" /\ n = 0 -> BindColdAddress(accounts, v)

RestrictDestructed(destructed, kind, n) ==
  IF kind = "newContract" THEN MarkNewContract(destructed, n = 1)
  ELSE MarkSelfDestructed(destructed, n = 1)

RestrictRange(block, v, n) ==
  IF n = 1 THEN RestrictVariableToOneOfTheLast256Blocks(block, v)
  ELSE RestrictVariableToNoneOfTheLast256Blocks(block, v)

RestrictBlobHash(transaction, v, n) ==
  IF n = 1 THEN IsPresentBlobHashIndex(transaction, v) ELSE IsAbsentBlobHashIndex(transaction, v)

RestrictDelegation(accounts, v, n) ==
  IF n = NoDelegationDesignation THEN BindToAddressOfNotDelegatingAccount(accounts, v)
  ELSE BindToAddressOfDelegatingAccount(accounts, v, n = WarmDelegationDesignation)

RestrictFact(g, kind, v, n) ==
  LET b == BindTo(g, v)
  IN CASE kind = "isCode" -> [b EXCEPT !.code = RestrictCode(@, v, n)]
       [] kind = "storageWarm" -> [b EXCEPT !.storage = RestrictSlot(@, v, n)]
       [] kind = "transient" -> [b EXCEPT !.transient = RestrictTransient(@, v, n)]
       [] kind \in {"empty", "addressWarm"} -> [b EXCEPT !.accounts = RestrictAccount(@, kind, v, n)]
       [] kind \in {"newContract", "selfDestructed"} ->
            [b EXCEPT !.destructed = RestrictDestructed(@, kind, n)]
       [] kind = "inRange" -> [b EXCEPT !.block = RestrictRange(@, v, n)]
       [] kind = "blobHash" -> [b EXCEPT !.transaction = RestrictBlobHash(@, v, n)]
       [] kind = "delegation" -> [b EXCEPT !.accounts = RestrictDelegation(@, v, n)]

RestrictStorage(g, c) ==
  [BindTo(BindTo(g, c.arg), c.newValue)
     EXCEPT !.storage = BindConfiguration(@, c.config, c.arg, c.newValue)]

\* A strict bound is passed on to an expression that takes it as a strict one again.
RestrictComparison(g, c) ==
  LET Bound(rel, n) == RestrictExpression(g, c.kind, c.arg, rel, n)
  IN CASE c.rel = "#" -> Bound("=", SomethingNotEqual(c.kind, c.rhs))
       [] c.rel = "<" -> Bound("<", Predecessor(c.kind, c.rhs))
       [] c.rel = ">" -> Bound(">", Successor(c.kind, c.rhs))
       [] OTHER -> Bound(c.rel, c.rhs)

RestrictBy(g, c) ==
  CASE c.kind \in Expressions -> RestrictComparison(g, c)
    [] c.kind = "storage" -> RestrictStorage(g, c)
    [] c.kind = "revision" -> [g EXCEPT !.block = AddRevisionBounds(@, c.rhs, c.max)]
    [] OTHER -> RestrictFact(g, c.kind, c.arg, c.rhs)

-----------------------------------------------------------------------------
(* Test values *)

\* The name of the property a condition is about. Names of different conditions can
\* agree: warm storage and warm accounts, a parameter and a block number.
PropertyOf(c) ==
  CASE c.kind \in {"storageWarm", "addressWarm"} -> <<"warm", c.arg>>
    [] c.kind \in {"param", "valueParam", "inRange"} -> <<"param", c.arg>>
    [] c.kind = "storage" -> <<c.config, c.arg, c.newValue>>
    [] OTHER -> <<c.kind, c.arg>>

\* Values are tested on both sides of a condition, but for warm and cold accounts,
\* storage configurations, a status and the read-only mode: other rules have those.
TestValues(c) ==
  CASE c.kind \in Expressions -> Samples(c.kind, c.rhs)
    [] c.kind = "revision" ->
         IF c.rhs = c.max /\ c.rhs # R99_UnknownNextRevision THEN {c.rhs}
         ELSE Revisions
    [] c.kind = "inRange" -> BlockNumberOffsets
    [] c.kind \in {"addressWarm", "storage"} -> {c.rhs}
    [] c.kind = "delegation" -> DelegationSamples(c.rhs)
    [] OTHER -> {0, 1}

\* Constrains a generator to states in which the property of a condition has a value.
RestrictToValue(g, c, value) ==
  CASE c.kind \in Expressions -> RestrictExpression(g, c.kind, c.arg, "=", value)
    [] c.kind = "storage" -> RestrictStorage(g, c)
    [] c.kind = "revision" -> [g EXCEPT !.block = SetRevision(@, value)]
    [] c.kind = "inRange" ->
         [BindTo(g, c.arg) EXCEPT !.block = SetBlockNumberOffsetValue(@, c.arg, value)]
    [] OTHER -> RestrictFact(g, c.kind, c.arg, value)

\* The property of a condition has a value in a state.
HasValue(s, c, value) ==
  CASE c.kind = "storage" -> CheckStorage(s, c)
    [] c.kind = "inRange" -> CanEvalWord(s, c.arg) /\ s.block - EvalWord(s, c.arg) = value
    [] OTHER -> CanEval(s, c.kind, c.arg) /\ Eval(s, c.kind, c.arg) = value
=============================================================================
