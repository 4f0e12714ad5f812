--------------------------- MODULE CodeGenerator ---------------------------
(***************************************************************************)
(* The generator of code for conformance tests: operations at fixed        *)
(* positions or at the positions of variables, and variables that must     *)
(* point to an instruction or to the data of a PUSH. Positions start at 0; *)
(* an operation is a byte 0 .. LastPush, of which PUSH1 .. LastPush carry  *)
(* 1, 2, ... bytes of data, and PUSH0 is the one before PUSH1.             *)
(***************************************************************************)
EXTENDS Assignments

CONSTANTS
  MaxCodeSize,  \* the largest size of a code
  LastPush      \* the PUSH with the most data

PUSH1 == 2
OpCode == 0 .. LastPush
NoPush == {op \in OpCode : op < PUSH1}

DataSize(op) == IF op >= PUSH1 THEN op - PUSH1 + 1 ELSE 0
Width(op) == DataSize(op) + 1

-----------------------------------------------------------------------------
(* st.Code *)

\* The positions that NewCode marks as data; the data of a last PUSH may lie behind
\* the end of the code.
RECURSIVE DataFrom(_, _)
DataFrom(code, pos) ==
  IF pos >= Len(code) THEN {}
  ELSE (pos + 1 .. pos + DataSize(code[pos + 1])) \cup DataFrom(code, pos + Width(code[pos + 1]))

IsCode(code, pos) == pos \notin DataFrom(code, 0)

\* The operation at a position that holds code; STOP is behind the code.
GetOperation(code, pos) == IF pos < Len(code) THEN code[pos + 1] ELSE 0

-----------------------------------------------------------------------------
(* Constraints *)

NewCodeGenerator == [constOps |-> <<>>, varOps |-> <<>>, isCode |-> <<>>, isData |-> <<>>]

SetOperation(g, pos, op) == [g EXCEPT !.constOps = Append(@, [pos |-> pos, op |-> op])]
AddOperation(g, v, op) == [g EXCEPT !.varOps = Append(@, [variable |-> v, op |-> op])]
AddIsCode(g, v) == [g EXCEPT !.isCode = Append(@, v)]
AddIsData(g, v) == [g EXCEPT !.isData = Append(@, v)]

CloneCode(g) ==
  [constOps |-> g.constOps, varOps |-> g.varOps, isCode |-> g.isCode, isData |-> g.isData]

-----------------------------------------------------------------------------
(* The solver for variables. Its search for a position, round the code from *)
(* a random start, finds every suitable position from some start and fails  *)
(* if there is none.                                                        *)

markUsed(used, pos, op) ==
  [p \in DOMAIN used \cup (pos .. pos + DataSize(op)) |->
     IF p = pos THEN "code" ELSE IF p > pos /\ p <= pos + DataSize(op) THEN "data" ELSE used[p]]

isUnused(s, pos) == pos \notin DOMAIN s.used
Holds(s, pos, use) == pos \in DOMAIN s.used /\ s.used[pos] = use

fits(s, pos, op) ==
  /\ Width(op) <= s.size - pos
  /\ \A p \in pos .. pos + DataSize(op) : isUnused(s, p)

largestFit(s, pos) ==
  Max({n \in 0 .. s.size - pos : n <= LastPush /\ \A p \in pos .. pos + n - 1 : isUnused(s, p)})

Placed(s, pos, op) ==
  [s EXCEPT !.ops = Append(@, [pos |-> pos, op |-> op]), !.used = markUsed(@, pos, op)]

assign(s, v, pos) == [s EXCEPT !.asg = Bind(@, v, pos)]

\* The outcomes of trying the positions of a set.
AtOneOf(s, positions, At(_)) ==
  IF positions = {} THEN {Failed(s, ErrUnsatisfiable)} ELSE UNION {At(p) : p \in positions}

newVarCodeConstraintSolver(size, ops, asg) ==
  [size |-> size, ops |-> ops, asg |-> asg, err |-> Ok, bound |-> <<>>,
   used |-> FoldLeft(LAMBDA used, con : markUsed(used, con.pos, con.op), <<>>, ops)]

solveVarOp(s, con) ==
  IF con.variable \in DOMAIN s.bound
  THEN {IF s.bound[con.variable] = con.op THEN s ELSE Failed(s, ErrUnsatisfiable)}
  ELSE AtOneOf(s, {p \in 0 .. s.size - 1 : fits(s, p, con.op)},
               LAMBDA p : {[assign(Placed(s, p, con.op), con.variable, p)
                              EXCEPT !.bound = Bind(@, con.variable, con.op)]})

solveIsCode(s, v) ==
  IF IsBound(s.asg, v) /\ s.asg[v] >= s.size THEN {Failed(s, ErrUnsatisfiable)}
  ELSE IF IsBound(s.asg, v) /\ Holds(s, s.asg[v], "code") THEN {s}
  ELSE AtOneOf(s, {p \in 0 .. s.size - 1 : ~Holds(s, p, "data")},
               LAMBDA p : {assign(t, v, p) :
                             t \in IF isUnused(s, p) THEN {Placed(s, p, op) : op \in NoPush} ELSE {s}})

solveIsData(s, v) ==
  IF IsBound(s.asg, v) /\ s.asg[v] < s.size /\ Holds(s, s.asg[v], "code")
  THEN {Failed(s, ErrUnsatisfiable)}
  ELSE AtOneOf(s, {p \in 0 .. s.size - 1 :
                     Holds(s, p, "data") \/ (isUnused(s, p) /\ largestFit(s, p) >= 2)},
               LAMBDA p : IF Holds(s, p, "data") THEN {assign(s, v, p)}
                          ELSE {assign(Placed(s, p, PUSH1 + n - 1), v, p + d) :
                                  <<n, d>> \in {x \in (1 .. largestFit(s, p) - 1) \X (1 .. LastPush) :
                                                  x[2] <= x[1]}})

solve(s, varOps, varIsCode, varIsData) ==
  ForEach(ForEach(ForEach({s}, varOps, solveVarOp), varIsCode, solveIsCode), varIsData, solveIsData)

-----------------------------------------------------------------------------
(* Generate *)

\* The smallest size that is tried for constant operations, in their order.
ConstantSize(ops) ==
  FoldLeft(LAMBDA min, con : IF con.pos > min THEN con.pos + 1 ELSE min, 0, ops)

MinSize(g, ops, varOps) ==
  LET varSize == FoldLeft(LAMBDA n, con : n + Width(con.op), ConstantSize(ops), varOps)
      kinds == {con.op : con \in ToSet(ops) \cup ToSet(varOps)}
      size == Max({varSize, Cardinality(kinds)})
  IN Max({size, IF g.isCode # <<>> THEN 1 ELSE 0, IF g.isData # <<>> THEN 2 ELSE 0})

\* The codes built from the constraints, or none if an operation overlaps the next.
\* Data and the bytes behind the last operation are random; STOP stands for them.
RECURSIVE Build(_, _, _)
Build(code, ops, size) ==
  LET i == Len(code)
      next == Head(ops).pos
      Padded(op) == code \o <<op>> \o [d \in 1 .. DataSize(op) |-> 0]
  IN IF ops = <<>> THEN {code \o [p \in 1 .. size - i |-> 0]}
     ELSE IF next < i THEN {}
     ELSE IF next = i
          THEN IF Len(ops) = 1 THEN {code \o <<Head(ops).op>> \o [p \in 1 .. size - i - 1 |-> 0]}
               ELSE Build(Padded(Head(ops).op), Tail(ops), size)
     ELSE UNION {Build(Padded(op), ops, size) : op \in {o \in OpCode : DataSize(o) < next - i}}

\* The first pass of Generate: operations of bound variables are at fixed positions.
ConstantOps(g, asg) ==
  g.constOps
  \o LET bound == SelectSeq(g.varOps, LAMBDA con : IsBound(asg, con.variable))
     IN [k \in DOMAIN bound |-> [pos |-> asg[bound[k].variable], op |-> bound[k].op]]

GenerateCode(g, asg) ==
  LET ops == ConstantOps(g, asg)
      varOps == SelectSeq(g.varOps, LAMBDA con : ~IsBound(asg, con.variable))
      failed == [asg |-> asg, err |-> ErrUnsatisfiable, val |-> <<>>]
      min == MinSize(g, ops, varOps)
      sizes == IF min >= MaxCodeSize THEN {MaxCodeSize} ELSE min .. MaxCodeSize
      solved == UNION {solve(newVarCodeConstraintSolver(size, ops, asg), varOps, g.isCode, g.isData) :
                         size \in sizes}
      Result(s) ==
        LET codes == IF \E con \in ToSet(s.ops) : con.pos >= s.size THEN {}
                     ELSE Build(<<>>, SortSeq(s.ops, LAMBDA a, b : a.pos < b.pos), s.size)
        IN IF s.err # Ok \/ codes = {} THEN {failed}
           ELSE {[asg |-> s.asg, err |-> Ok, val |-> code] : code \in codes}
  IN IF \E con \in ToSet(ops) : con.pos > MaxCodeSize THEN {failed}
     ELSE UNION {Result(s) : s \in solved}
=============================================================================
