--------------------------- MODULE StateGenerator ---------------------------
(***************************************************************************)
(* The generator of states for conformance tests. Its constraints are a    *)
(* record with one field for every part of a state that can be             *)
(* constrained; generating a state runs through the parts in a fixed order *)
(* and fills in the assignment of variables as it goes, so that a part can *)
(* only meet what the parts before it have bound.                          *)
(*                                                                         *)
(* Memory, call context, call data, call journal and hashes are random,    *)
(* take no constraints and bind nothing; they are left out, and so is the  *)
(* gas refund, which no condition of a rule constrains.                    *)
(***************************************************************************)
EXTENDS CodeGenerator, ContextGenerators, WorldGenerators, AccountsGenerator

CONSTANTS
  MaxGasUsedByCt,  \* the most gas of a state
  MaxUint16        \* the largest program counter

NumStatusCodes == 4

\* The parts of a state, in the order in which they are generated.
Parts == <<"bindings", "status", "code", "readOnly", "pc", "gas", "self", "destructed", "storage",
           "transient", "accounts", "transaction", "block", "stack">>

NewStateGenerator ==
  [bindings |-> {}, status |-> {}, readOnly |-> {},
   pc |-> [constants |-> {}, variables |-> {}],
   gas |-> NewRangeSolver(0, MaxGasUsedByCt),
   self |-> [constants |-> {}, variables |-> {}],
   code |-> NewCodeGenerator, stack |-> NewStackGenerator, storage |-> NewStorageGenerator,
   transient |-> NewTransientStorageGenerator, accounts |-> NewAccountGenerator,
   block |-> NewBlockContextGenerator, destructed |-> NewSelfDestructedGenerator,
   transaction |-> NewTransactionContextGenerator]

Clone(g) ==
  [bindings |-> g.bindings, status |-> g.status, readOnly |-> g.readOnly, pc |-> g.pc,
   gas |-> g.gas, self |-> g.self, code |-> CloneCode(g.code), stack |-> CloneStack(g.stack),
   storage |-> CloneStorage(g.storage), transient |-> CloneTransientStorage(g.transient),
   accounts |-> CloneAccounts(g.accounts), block |-> CloneBlockContext(g.block),
   destructed |-> CloneSelfDestructed(g.destructed),
   transaction |-> CloneTransactionContext(g.transaction)]

-----------------------------------------------------------------------------
(* Constraints on the parts that have no generator of their own *)

BindValue(g, v, value) == [g EXCEPT !.bindings = @ \cup {[variable |-> v, value |-> value]}]
SetStatus(g, status) == [g EXCEPT !.status = @ \cup {status}]
SetReadOnly(g, readOnly) == [g EXCEPT !.readOnly = @ \cup {readOnly}]
SetPc(g, pc) == [g EXCEPT !.pc.constants = @ \cup {pc}]
BindPc(g, v) == [g EXCEPT !.pc.variables = @ \cup {v}]
SetSelfAddress(g, address) == [g EXCEPT !.self.constants = @ \cup {address}]
BindToSelfAddress(g, v) == [g EXCEPT !.self.variables = @ \cup {v}]
SetGas(g, gas) == [g EXCEPT !.gas = RangeAddEqualityConstraint(@, gas)]
AddGasLowerBound(g, gas) == [g EXCEPT !.gas = RangeAddLowerBoundary(@, gas)]
AddGasUpperBound(g, gas) == [g EXCEPT !.gas = RangeAddUpperBoundary(@, gas)]

-----------------------------------------------------------------------------
(* The steps of generateWith *)

\* The one value of a set of constraints, any of a range if there is none.
OneOf(constraints, any, asg) ==
  IF Cardinality(constraints) > 1 THEN Unsatisfied(asg)
  ELSE {Generated(asg, value) : value \in IF constraints = {} THEN any ELSE constraints}

EnforceBindings(g, asg) ==
  IF \E a, b \in g.bindings : a.variable = b.variable /\ a.value # b.value THEN Unsatisfied(asg)
  ELSE {Generated([v \in {b.variable : b \in g.bindings} |->
                     (CHOOSE b \in g.bindings : b.variable = v).value], <<>>)}

StatusCodes == 0 .. NumStatusCodes - 1

PickStatus(g, asg) ==
  IF \E status \in g.status : status \notin StatusCodes THEN Unsatisfied(asg)
  ELSE OneOf(g.status, StatusCodes, asg)

PickReadOnly(g, asg) == OneOf(g.readOnly, {0, 1}, asg)

PickPc(g, asg, code) ==
  IF \E v \in g.pc.variables : ~IsBound(asg, v)
  THEN {Failed(Generated(asg, 0), ErrUnboundVariable)}
  ELSE OneOf(g.pc.constants \cup {Uint64(asg[v]) % (MaxUint16 + 1) : v \in g.pc.variables},
             IF code = <<>> THEN {0} ELSE 0 .. Len(code) - 1, asg)

PickGas(g, asg) ==
  IF RangeIsSatisfiable(g.gas) THEN {Generated(asg, gas) : gas \in RangeGenerate(g.gas)}
  ELSE Unsatisfied(asg)

PickSelfAddress(g, asg) ==
  LET addresses == g.self.constants
                   \cup {NewAddress(asg[v]) : v \in {w \in g.self.variables : IsBound(asg, w)}}
  IN IF Cardinality(addresses) > 1 THEN Unsatisfied(asg)
     ELSE {Generated([v \in DOMAIN asg \cup g.self.variables |->
                        IF v \in g.self.variables THEN a ELSE asg[v]], a) :
             a \in IF addresses = {} THEN {MaxAddress} ELSE addresses}

\* What generating one part may lead to, after the parts before it.
GeneratePart(part, g, asg, s) ==
  CASE part = "bindings" -> EnforceBindings(g, asg)
    [] part = "status" -> PickStatus(g, asg)
    [] part = "code" -> GenerateCode(g.code, asg)
    [] part = "readOnly" -> PickReadOnly(g, asg)
    [] part = "pc" -> PickPc(g, asg, s.code)
    [] part = "gas" -> PickGas(g, asg)
    [] part = "self" -> PickSelfAddress(g, asg)
    [] part = "destructed" -> GenerateSelfDestructed(g.destructed, asg)
    [] part = "storage" -> GenerateStorage(g.storage, asg)
    [] part = "transient" -> GenerateTransientStorage(g.transient, asg)
    [] part = "accounts" -> GenerateAccounts(g.accounts, asg, s.self)
    [] part = "transaction" -> GenerateTransactionContext(g.transaction, asg)
    [] part = "block" -> GenerateBlockContext(g.block, asg)
    [] part = "stack" -> GenerateStack(g.stack, asg)

\* A state as it is before its parts are generated.
BlankState ==
  [bindings |-> <<>>, status |-> 0, code |-> <<>>, readOnly |-> 0, pc |-> 0, gas |-> 0,
   self |-> MaxAddress, destructed |-> [newContract |-> FALSE, selfDestructed |-> FALSE],
   storage |-> [original |-> <<>>, current |-> <<>>, warm |-> {}], transient |-> <<>>,
   accounts |-> NoAccounts, transaction |-> 0, block |-> 0, stack |-> <<>>]

RevisionOf(s) == GetRevisionForBlock(s.block)
=============================================================================
