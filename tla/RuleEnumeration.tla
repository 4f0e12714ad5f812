-------------------------- MODULE RuleEnumeration --------------------------
(***************************************************************************)
(* How the states of conformance tests come from a rule. A rule can be     *)
(* asked for one state that satisfies its condition: every condition       *)
(* constrains a generator. Or its test cases are enumerated: for every     *)
(* property of its conditions one of the test values is chosen, each on a  *)
(* clone of the generator; the sibling clones of the enumeration are the   *)
(* choices of this specification. Either way a state is then generated     *)
(* part by part.                                                           *)
(***************************************************************************)
EXTENDS RuleLanguage

CONSTANTS
  Rule,        \* the conjunctions of conditions that are tried
  SolverBounds \* the bounds with which the interval solver is checked

VARIABLES
  rule,        \* the conditions of the rule
  mode,        \* "satisfy" or "enumerate"
  generator,
  chosen,      \* the test values chosen so far, with their conditions
  stage,       \* "restrict", the part to be generated, or how the generation ended
  assignment,
  state

vars == <<rule, mode, generator, chosen, stage, assignment, state>>

-----------------------------------------------------------------------------

\* Parts nothing constrains are random, and no condition of the rule reads them: they
\* are passed over.
FollowingPart(g, i) ==
  LET parts == {j \in i + 1 .. Len(Parts) : g[Parts[j]] # NewStateGenerator[Parts[j]]}
  IN IF parts = {} THEN Ok ELSE Parts[Min(parts)]

PartIndex(part) == CHOOSE i \in DOMAIN Parts : Parts[i] = part

\* Properties in the order of their names, which put those of a parameter side by side.
PropertyNames ==
  <<{"delegation"}, {"storage"}, {"transient"}, {"balance"}, {"op"}, {"empty"}, {"gas"},
    {"selfDestructed"}, {"isCode"}, {"newContract"}, {"param", "valueParam", "inRange", "blobHash"},
    {"pc"}, {"readOnly"}, {"revision"}, {"stackSize"}, {"status"}, {"storageWarm", "addressWarm"}>>

PropertyRank(c) ==
  100 * (CHOOSE i \in DOMAIN PropertyNames : c.kind \in PropertyNames[i])
  + 10 * (IF c.arg = "" THEN 0 ELSE Rank(c.arg)) + Bool(c.kind = "blobHash")

\* The conditions whose properties have no value yet.
Pending(values) ==
  {c \in ToSet(rule) : \A t \in values : PropertyOf(t.of) # PropertyOf(c)}

Init ==
  /\ rule \in Rule
  /\ mode \in {"satisfy", "enumerate"}
  /\ generator = NewStateGenerator
  /\ chosen = {}
  /\ stage = "restrict"
  /\ assignment = Unassigned
  /\ state = BlankState

\* GenerateSatisfyingState: all conditions constrain the generator, in their order.
RestrictRule ==
  /\ stage = "restrict" /\ mode = "satisfy"
  /\ \A c \in ToSet(rule) : c.kind # "delegation"
  /\ generator' = FoldLeft(RestrictBy, generator, rule)
  /\ stage' = FollowingPart(generator', 0)
  /\ UNCHANGED <<rule, mode, chosen, assignment, state>>

\* One level of enumerateTestStates: a value for the first property that has none.
ChooseValue ==
  /\ stage = "restrict" /\ mode = "enumerate"
  /\ \E c \in Pending(chosen) :
       /\ \A d \in Pending(chosen) : PropertyRank(c) <= PropertyRank(d)
       /\ \E value \in TestValues(c) :
            /\ generator' = RestrictToValue(Clone(generator), c, value)
            /\ chosen' = chosen \cup {[of |-> c, value |-> value]}
  /\ UNCHANGED <<rule, mode, stage, assignment, state>>

\* All properties have values: EnumerateTestCases lets the generator make a state.
StartGenerating ==
  /\ stage = "restrict" /\ mode = "enumerate"
  /\ Pending(chosen) = {}
  /\ stage' = FollowingPart(generator, 0)
  /\ UNCHANGED <<rule, mode, generator, chosen, assignment, state>>

\* One step of generateWith.
Generate(part) ==
  /\ stage = part
  /\ \E o \in GeneratePart(part, generator, assignment, state) :
       /\ assignment' = o.asg
       /\ state' = IF o.err = Ok THEN [state EXCEPT ![part] = o.val] ELSE state
       /\ stage' = IF o.err = Ok THEN FollowingPart(generator, PartIndex(part)) ELSE o.err
  /\ UNCHANGED <<rule, mode, generator, chosen>>

Next ==
  \/ RestrictRule \/ ChooseValue \/ StartGenerating
  \/ \E part \in ToSet(Parts) : Generate(part)

Spec == Init /\ [][Next]_vars

-----------------------------------------------------------------------------
(* Properties *)

\* What the state was made for.
Demands == IF mode = "satisfy" THEN {[of |-> c, value |-> c.rhs] : c \in ToSet(rule)} ELSE chosen

\* Where the generators are known to fall short, and what they then yield:
\* - in the first blocks the window to keep out of wraps, nothing is excluded, and the
\*   number that is drawn is that of an earlier block;
\* - the least offset is its own negation: the number is 2^63 below and not above;
\* - a balance drawn for an account that is not empty is zero, its only content;
\* - of warm storage and blob hashes, variables are not compared by their values, so that
\*   one with the same value asks for the opposite.
Exempt(t) ==
  LET c == t.of
      word == EvalWord(state, c.arg)
  IN \/ /\ c.kind = "inRange" /\ mode = "satisfy" /\ t.value = 0
        /\ word < state.block /\ state.block < BlockWindow
     \/ /\ c.kind = "inRange" /\ mode = "enumerate" /\ t.value = MinInt64
        /\ word = state.block + MinInt64
     \/ /\ c.kind = "empty" /\ t.value = 0
        /\ \E d \in ToSet(rule) : d.kind = "balance" /\ d.arg = c.arg
        /\ GetBalance(state.accounts, NewAddress(word)) = 0
     \/ /\ c.kind \in {"storageWarm", "blobHash"}
        /\ \E u \in Demands : /\ u.of.kind = c.kind /\ u.value # t.value
                              /\ EvalWord(state, u.of.arg) = word

\* A state generated to satisfy a rule satisfies all conditions of it (state.go calls the
\* generator a sound constraint solver), although its parts are generated one after the
\* other and share variables. And every variable that the program counter or the stack
\* refers to has been bound by the parts before: one that is not is an internal error,
\* which ends the enumeration of all further test cases of a rule.
GeneratedStatesSatisfyTheRule ==
  /\ stage # ErrUnboundVariable
  /\ mode = "satisfy" /\ stage = Ok => \A t \in Demands : Check(state, t.of) \/ Exempt(t)

\* A state generated for test values has every one of them: an enumerated test case is on
\* the side of each condition it was made for.
TestCasesHaveTheirValues ==
  mode = "enumerate" /\ stage = Ok =>
    \A t \in chosen : HasValue(state, t.of, t.value) \/ Exempt(t)

\* The values a property can have, and those a condition on it accepts.
ValuesOf(kind) ==
  CASE kind = "gas" -> 0 .. MaxGasUsedByCt
    [] kind = "stackSize" -> 0 .. MaxStackSize
    [] kind = "status" -> 0 .. NumStatusCodes - 1
    [] kind = "op" -> OpCode
    [] kind = "pc" -> 0 .. MaxUint16
    [] kind \in {"param", "valueParam", "balance"} -> 0 .. MaxWord
    [] kind = "revision" -> {R99_UnknownNextRevision} \cup 0 .. NewestSupportedRevision
    [] kind = "inRange" -> MinInt64 .. MaxInt64
    [] kind = "delegation" -> 0 .. 2
    [] OTHER -> {0, 1}

AcceptsValue(c, n) ==
  IF c.kind = "inRange" THEN c.rhs = Bool(1 <= n /\ n <= BlockWindow) ELSE Accepts(c, n)

\* If the conditions of a rule on one property have a common solution, then the test values
\* of the property hold one: sampling around the bounds misses no side of a condition.
RulesAreProbed ==
  stage = "restrict" /\ chosen = {} =>
    \A c \in ToSet(rule) :
      LET same == {d \in ToSet(rule) : PropertyOf(d) = PropertyOf(c)}
          Solves(n) == \A d \in same : AcceptsValue(d, n)
      IN (\E n \in ValuesOf(c.kind) : Solves(n)) => \E d \in same : \E n \in TestValues(d) : Solves(n)

\* The interval solver leaves exactly the numbers that all operations on it keep, in any
\* order of operations, and although min - 1, max + 1 and the sizes of intervals wrap at
\* the ends of the type (stated once, at the start of the rule without conditions).
IntervalSolverIsExact ==
  rule = <<>> /\ mode = "satisfy" /\ stage = "restrict" =>
    \A a, b, c \in IntervalOperations(SolverBounds) :
      IntervalGenerate(FoldLeft(IntervalApply, NewIntervalSolver(0, MaxUint64), <<a, b, c>>))
        = {n \in 0 .. MaxUint64 : Keeps(a, n) /\ Keeps(b, n) /\ Keeps(c, n)}
=============================================================================
