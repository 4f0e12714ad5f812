------------------------- MODULE ConstraintSolvers -------------------------
(***************************************************************************)
(* The two solvers for numbers under the state generators of the           *)
(* conformance tests: a RangeSolver keeps one range, an IntervalSolver a   *)
(* list of disjoint intervals from which ranges can be excluded. Solving   *)
(* yields any number that is left, and no number means unsatisfiable. The  *)
(* intervals are solved for in numbers of type uint64.                     *)
(***************************************************************************)
EXTENDS Assignments

-----------------------------------------------------------------------------
(* RangeSolver *)

NewRangeSolver(min, max) == [min |-> min, max |-> max]

RangeAddLowerBoundary(s, v) == IF v > s.min THEN [s EXCEPT !.min = v] ELSE s

RangeAddUpperBoundary(s, v) == IF v < s.max THEN [s EXCEPT !.max = v] ELSE s

RangeAddEqualityConstraint(s, v) == RangeAddUpperBoundary(RangeAddLowerBoundary(s, v), v)

RangeIsSatisfiable(s) == s.min <= s.max

\* The values Generate may return; none is ErrUnsatisfiable.
RangeGenerate(s) == s.min .. s.max

-----------------------------------------------------------------------------
(* IntervalSolver: a sequence of intervals [low, high] in ascending order *)

NewIntervalSolver(min, max) == IF min > max THEN <<>> ELSE <<[low |-> min, high |-> max]>>

\* How an interval lies to the one that is excluded; equal intervals are a case of
\* "superset", which drops the interval just the same.
getRelationTo(i, other) ==
  IF i.high < other.low THEN "isBefore"
  ELSE IF i.low > other.high THEN "isAfter"
  ELSE IF i.low < other.low /\ other.high < i.high THEN "isSubset"
  ELSE IF other.low <= i.low /\ i.high <= other.high THEN "isSuperset"
  ELSE IF other.low <= i.high /\ i.high <= other.high THEN "intersectsWithEnd"
  ELSE "intersectsWithStart"

\* Mutant: an excluded range that reaches past one end leaves the other remainder.
RemainderSwapped(i, min, max) ==
  LET relation == getRelationTo(i, [low |-> min, high |-> max])
      newLeft == [low |-> i.low, high |-> Uint64(min - 1)]
      newRight == [low |-> Uint64(max + 1), high |-> i.high]
  IN CASE relation = "isSubset" -> <<newLeft, newRight>>
       [] relation = "isSuperset" -> <<>>
       [] relation = "intersectsWithStart" -> <<newLeft>>
       [] relation = "intersectsWithEnd" -> <<newRight>>
       [] OTHER -> <<i>>

\* What excluding min .. max leaves of one interval.
Remainder(i, min, max) ==
  LET relation == getRelationTo(i, [low |-> min, high |-> max])
      newLeft == [low |-> i.low, high |-> Uint64(min - 1)]
      newRight == [low |-> Uint64(max + 1), high |-> i.high]
  IN CASE relation = "isSubset" -> <<newLeft, newRight>>
       [] relation = "isSuperset" -> <<>>
       [] relation = "intersectsWithStart" -> <<newRight>>
       [] relation = "intersectsWithEnd" -> <<newLeft>>
       [] OTHER -> <<i>>

IntervalExclude(s, min, max) ==
  IF max < min THEN s ELSE FlattenSeq([k \in DOMAIN s |-> Remainder(s[k], min, max)])

IntervalAddLowerBoundary(s, v) ==
  IF s = <<>> \/ v <= s[1].low THEN s ELSE IntervalExclude(s, s[1].low, Uint64(v - 1))

IntervalAddUpperBoundary(s, v) ==
  IF s = <<>> \/ v >= Last(s).high THEN s ELSE IntervalExclude(s, Uint64(v + 1), Last(s).high)

IntervalAddEqualityConstraint(s, v) ==
  IntervalAddLowerBoundary(IntervalAddUpperBoundary(s, v), v)

\* The number at a position of the concatenated intervals.
RECURSIVE SampleAt(_, _)
SampleAt(s, sample) ==
  LET size == Uint64(s[1].high - s[1].low + 1)
  IN IF size > sample THEN s[1].low + sample ELSE SampleAt(Tail(s), sample - size)

\* Zero for no intervals, and also if nothing has been excluded from all numbers.
DomainSize(s) == FoldLeft(LAMBDA n, i : Uint64(n + i.high - i.low + 1), 0, s)

IntervalGenerate(s) ==
  IF s = <<>> THEN {}
  ELSE IF DomainSize(s) = 0 THEN 0 .. MaxUint64
  ELSE {SampleAt(s, sample) : sample \in 0 .. DomainSize(s) - 1}

-----------------------------------------------------------------------------
(* The operations of an IntervalSolver as records, to apply them in any order *)

IntervalApply(s, o) ==
  CASE o.op = "exclude" -> IntervalExclude(s, o.min, o.max)
    [] o.op = "lower" -> IntervalAddLowerBoundary(s, o.min)
    [] o.op = "upper" -> IntervalAddUpperBoundary(s, o.min)
    [] o.op = "equal" -> IntervalAddEqualityConstraint(s, o.min)

\* The same operation on the set of numbers itself.
Keeps(o, n) ==
  CASE o.op = "exclude" -> ~(o.min <= n /\ n <= o.max)
    [] o.op = "lower" -> n >= o.min
    [] o.op = "upper" -> n <= o.min
    [] o.op = "equal" -> n = o.min

IntervalOperations(bounds) ==
  [op : {"exclude"}, min : bounds, max : bounds]
  \cup [op : {"lower", "upper", "equal"}, min : bounds, max : {0}]
=============================================================================
