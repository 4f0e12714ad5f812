------------------------- MODULE ContextGenerators -------------------------
(***************************************************************************)
(* The generators of the stack, of the block context and of the            *)
(* transaction context of conformance tests. They solve constraints on     *)
(* variables against the size of the stack, the block number and the       *)
(* number of blob hashes.                                                  *)
(***************************************************************************)
EXTENDS Assignments, ConstraintSolvers

CONSTANTS
  MaxStackSize,
  BlockWindow,     \* how many recent blocks BLOCKHASH reaches: 256
  ForkLength,      \* the blocks of one revision
  NewestSupportedRevision

ASSUME ContextAssumption ==
  /\ 0 < BlockWindow /\ 2 * BlockWindow < MaxUint64
  /\ ForkLength * (NewestSupportedRevision + 1) < MaxUint64

-----------------------------------------------------------------------------
(* StackGenerator *)

NewStackGenerator == [size |-> NewRangeSolver(0, MaxStackSize), constValues |-> {}, varValues |-> {}]

AddMinSize(g, size) == [g EXCEPT !.size = RangeAddLowerBoundary(@, size)]
AddMaxSize(g, size) == [g EXCEPT !.size = RangeAddUpperBoundary(@, size)]
SetSize(g, size) == [g EXCEPT !.size = RangeAddEqualityConstraint(@, size)]
SetValue(g, pos, value) == [g EXCEPT !.constValues = @ \cup {[pos |-> pos, value |-> value]}]
BindStack(g, pos, v) == [g EXCEPT !.varValues = @ \cup {[pos |-> pos, variable |-> v]}]

CloneStack(g) == [size |-> g.size, constValues |-> g.constValues, varValues |-> g.varValues]

\* The stack from the top; two constraints on a position fail even if they agree. Values
\* nothing constrains are random; the largest word stands for them.
GenerateStack(g, asg) ==
  LET unbound == {con \in g.varValues : ~IsBound(asg, con.variable)}
      constraints == {<<"const", con.pos, con.value>> : con \in g.constValues}
                     \cup {<<con.variable, con.pos, asg[con.variable]>> : con \in g.varValues}
      size == RangeAddLowerBoundary(g.size, Max({-1} \cup {con[2] : con \in constraints}) + 1)
      Value(i) == LET at == {con \in constraints : con[2] = i - 1}
                  IN IF at = {} THEN MaxWord ELSE (CHOOSE con \in at : TRUE)[3]
  IN IF unbound # {} THEN {Failed(Generated(asg, <<>>), ErrUnboundVariable)}
     ELSE IF \/ ~RangeIsSatisfiable(size)
             \/ \E a, b \in constraints : a # b /\ a[2] = b[2]
          THEN Unsatisfied(asg)
     ELSE {Generated(asg, [i \in 1 .. n |-> Value(i)]) : n \in RangeGenerate(size)}

-----------------------------------------------------------------------------
(* Revisions: the first blocks of the revisions are equally far apart, and *)
(* the next revision, which is not known yet, follows the newest one       *)

R99_UnknownNextRevision == 99

GetForkBlock(revision) == ForkLength * Min({revision, NewestSupportedRevision + 1})

GetRevisionForBlock(block) ==
  IF block >= GetForkBlock(NewestSupportedRevision + 1) THEN R99_UnknownNextRevision
  ELSE block \div ForkLength

GetBlockRangeLengthFor(revision) ==
  IF revision <= NewestSupportedRevision THEN GetForkBlock(revision + 1) - GetForkBlock(revision)
  ELSE MaxUint64

-----------------------------------------------------------------------------
(* BlockContextGenerator *)

MaxInt64 == MaxUint64 \div 2
MinInt64 == -MaxInt64 - 1
Negated(offset) == IF offset = MinInt64 THEN MinInt64 ELSE -offset

NewBlockContextGenerator ==
  [number |-> NewRangeSolver(0, MaxUint64), inRange |-> <<>>, offset |-> <<>>,
   unsatisfiable |-> FALSE]

markUnsatisfiable == [NewBlockContextGenerator EXCEPT !.unsatisfiable = TRUE]

\* A map gets an entry for a variable, unless it has another one already.
RestrictVariable(g, map, v, value, with) ==
  IF g.unsatisfiable \/ (v \in DOMAIN map /\ map[v] # value) THEN markUnsatisfiable ELSE with

RestrictVariableToOneOfTheLast256Blocks(g, v) ==
  RestrictVariable(g, g.inRange, v, TRUE, [g EXCEPT !.inRange = Bind(@, v, TRUE)])
RestrictVariableToNoneOfTheLast256Blocks(g, v) ==
  RestrictVariable(g, g.inRange, v, FALSE, [g EXCEPT !.inRange = Bind(@, v, FALSE)])
SetBlockNumberOffsetValue(g, v, offset) ==
  RestrictVariable(g, g.offset, v, offset, [g EXCEPT !.offset = Bind(@, v, offset)])

AddRevisionBounds(g, lower, upper) ==
  LET len == GetBlockRangeLengthFor(upper)
      first == GetForkBlock(upper)
      last == IF len >= MaxUint64 - first THEN MaxUint64 ELSE first + len - 1
      number == RangeAddUpperBoundary(RangeAddLowerBoundary(g.number, GetForkBlock(lower)), last)
  IN IF g.unsatisfiable \/ lower > upper \/ ~RangeIsSatisfiable(number) THEN markUnsatisfiable
     ELSE [g EXCEPT !.number = number]

SetRevision(g, revision) == AddRevisionBounds(g, revision, revision)

CloneBlockContext(g) ==
  IF g.unsatisfiable THEN markUnsatisfiable
  ELSE [number |-> g.number, inRange |-> g.inRange, offset |-> g.offset, unsatisfiable |-> FALSE]

addOffset(value, offset) == Plus(value, offset)
OffsetOverflows(value, offset) ==
  IF offset < 0 THEN addOffset(value, offset) > value ELSE addOffset(value, offset) < value

\* The constraints on the block number that follow from a bound variable, or from one
\* that is still to be bound; NoNumber if no block number satisfies them.
NoNumber == <<>>

OffsetNumbers(solver, asg, g, v) ==
  IF ~IsBound(asg, v) THEN solver
  ELSE IF OffsetOverflows(asg[v], g.offset[v]) \/ ~IsUint64(addOffset(asg[v], g.offset[v]))
       THEN NoNumber
  ELSE IntervalAddEqualityConstraint(solver, addOffset(asg[v], g.offset[v]))

RangeNumbers(solver, asg, g, v) ==
  IF ~IsBound(asg, v) THEN IF g.inRange[v] THEN IntervalAddLowerBoundary(solver, 1) ELSE solver
  ELSE IF ~g.inRange[v]
       THEN IF asg[v] < MaxUint64
            THEN IntervalExclude(solver, asg[v] + 1,
                                 IF asg[v] < MaxUint64 - BlockWindow THEN asg[v] + BlockWindow
                                 ELSE MaxUint64)
            ELSE solver
  ELSE IF asg[v] >= MaxUint64 THEN NoNumber
  ELSE LET after == IntervalAddLowerBoundary(solver, asg[v] + 1)
       IN IF asg[v] + BlockWindow > MaxUint64 THEN after
          ELSE IntervalAddUpperBoundary(after, asg[v] + BlockWindow)

\* Constraints of variables commute, so that their order does not matter.
generateBlockNumber(g, asg) ==
  LET start == IntervalAddUpperBoundary(
                 IntervalAddLowerBoundary(NewIntervalSolver(0, MaxUint64), g.number.min),
                 g.number.max)
      offsets == FoldSet(LAMBDA v, solver : OffsetNumbers(solver, asg, g, v), start, DOMAIN g.offset)
  IN IntervalGenerate(
       FoldSet(LAMBDA v, solver : RangeNumbers(solver, asg, g, v), offsets, DOMAIN g.inRange))

bindVariablesInValueConstraints(o, g, number) ==
  LET required == [v \in DOMAIN g.offset |-> addOffset(number, Negated(g.offset[v]))]
  IN IF \E v \in DOMAIN g.offset : OffsetOverflows(number, Negated(g.offset[v]))
     THEN Failed(o, ErrUnsatisfiable)
     ELSE [o EXCEPT !.asg = [v \in DOMAIN @ \cup DOMAIN required |->
                               IF v \in DOMAIN @ THEN @[v] ELSE required[v]]]

isInRange(lower, value, upper) == IsUint64(value) /\ lower <= value /\ value <= upper

\* The numbers that are not among the last blocks; the window below a small number
\* wraps round, and excludes nothing.
OutOfRangeNumbers(number) ==
  IntervalGenerate(IntervalExclude(NewIntervalSolver(0, MaxUint64),
                                   Uint64(number - BlockWindow), Uint64(number - 1)))

bindVariableInRange(o, g, number, v) ==
  LET lower == Max({0, number - BlockWindow})
      numbers == IF g.inRange[v] THEN RangeGenerate(NewRangeSolver(lower, Uint64(number - 1)))
                 ELSE OutOfRangeNumbers(number)
  IN IF IsBound(o.asg, v)
     THEN {IF g.inRange[v] = isInRange(lower, o.asg[v], number) THEN o
           ELSE Failed(o, ErrUnsatisfiable)}
     ELSE IF numbers = {} THEN {Failed(o, ErrUnsatisfiable)}
     ELSE {[o EXCEPT !.asg = Bind(@, v, n)] : n \in numbers}

bindVariablesInRangeConstraints(o, g, number) ==
  ForEach({o}, SetToSeq(DOMAIN g.inRange), LAMBDA p, v : bindVariableInRange(p, g, number, v))

\* Of the block context, the block number.
GenerateBlockContext(g, asg) ==
  LET numbers == generateBlockNumber(g, asg)
  IN IF g.unsatisfiable \/ numbers = {} THEN Unsatisfied(asg)
     ELSE UNION {bindVariablesInRangeConstraints(
                   bindVariablesInValueConstraints(Generated(asg, number), g, number), g, number) :
                   number \in numbers}

-----------------------------------------------------------------------------
(* TransactionContextGenerator: which variables index a blob hash *)

NewTransactionContextGenerator == [present |-> <<>>, unsatisfiable |-> FALSE]

BlobHashIndex(g, v, present) ==
  IF g.unsatisfiable \/ (v \in DOMAIN g.present /\ g.present[v] # present)
  THEN [present |-> <<>>, unsatisfiable |-> TRUE]
  ELSE [g EXCEPT !.present = Bind(@, v, present)]

IsPresentBlobHashIndex(g, v) == BlobHashIndex(g, v, TRUE)
IsAbsentBlobHashIndex(g, v) == BlobHashIndex(g, v, FALSE)

CloneTransactionContext(g) == [present |-> g.present, unsatisfiable |-> g.unsatisfiable]

\* Of the transaction context, the number of blob hashes.
GenerateTransactionContext(g, asg) ==
  LET Bound(present) == {asg[v] : v \in {w \in DOMAIN g.present :
                                           IsBound(asg, w) /\ g.present[w] = present}}
      present == Max({0} \cup Bound(TRUE))
      absent == Min({MaxUint64} \cup Bound(FALSE))
      count == IF absent # 0 THEN present + 1 ELSE present
      free == {v \in DOMAIN g.present : ~IsBound(asg, v)}
      Indices(v) == IF g.present[v] THEN 0 .. Uint64(count - 1) ELSE count .. MaxUint64
      Index(o, v) == {[o EXCEPT !.asg = Bind(@, v, i)] : i \in Indices(v)}
  IN IF \/ g.unsatisfiable
        \/ \E w \in Bound(TRUE) : ~IsUint64(w)
        \/ present > absent \/ present = MaxUint64
     THEN Unsatisfied(asg)
     ELSE ForEach({Generated(asg, count)}, SetToSeq(free), Index)
=============================================================================
