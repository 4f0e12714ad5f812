---------------------------- MODULE Assignments ----------------------------
(***************************************************************************)
(* What the state generators of the conformance tests share: words, with   *)
(* the ranges of uint64 numbers and of addresses among them, the variables *)
(* of a rule, and the assignment of words to variables that a generation   *)
(* fills in step by step.                                                  *)
(*                                                                         *)
(* A random word or address is drawn from a part of the range that no      *)
(* constant of a rule reaches, and differs from what was drawn before: a   *)
(* draw of 20 or 32 random bytes hits a given value with no probability    *)
(* worth modelling. The largest address and word are left for draws that   *)
(* nothing else may meet: the account under test, fillers of the stack.    *)
(***************************************************************************)
EXTENDS Integers, Sequences, FiniteSets, FiniteSetsExt, SequencesExt

CONSTANTS
  MaxUint64,   \* the largest uint64
  MaxAddress,  \* the largest address, one less than a power of the word's base
  MaxWord      \* the largest word of 256 bits

ASSUME RangesAssumption ==
  /\ 0 < MaxUint64 /\ 2 * MaxUint64 < MaxAddress /\ 2 * MaxAddress < MaxWord
  /\ (MaxWord + 1) % (MaxAddress + 1) = 0

IsUint64(w) == w <= MaxUint64

\* The arithmetic of uint64 numbers wraps.
Uint64(n) == n % (MaxUint64 + 1)

\* U256.Add and U256.Sub.
Plus(a, b) == (a + b) % (MaxWord + 1)
Minus(a, b) == (a - b) % (MaxWord + 1)

NewAddress(w) == w % (MaxAddress + 1)

RandomAddress(used) ==
  Min({a \in (MaxAddress + 1) \div 2 .. MaxAddress - 1 : \A u \in used : NewAddress(u) # a})

RandU256(used) ==
  Min({w \in MaxWord + 1 - (MaxAddress + 1) \div 2 .. MaxWord - 1 :
         \A u \in used : NewAddress(u) # NewAddress(w)})

-----------------------------------------------------------------------------
(* Variables and assignments *)

\* In the order of their names.
Variables == <<"PC", "constant_1", "param_0", "param_1", "self">>

Rank(v) == CHOOSE i \in DOMAIN Variables : Variables[i] = v

Unassigned == <<>>

IsBound(assignment, v) == v \in DOMAIN assignment

Bind(assignment, v, w) ==
  [x \in DOMAIN assignment \cup {v} |-> IF x = v THEN w ELSE assignment[x]]

\* The entry a Go map yields for a key, the zero value if it has none.
Lookup(map, key) == IF key \in DOMAIN map THEN map[key] ELSE 0

-----------------------------------------------------------------------------
(* Outcomes of a generator: what may be left after it with the error, if   *)
(* any, that it returned.                                                  *)

Ok == "ok"
ErrUnsatisfiable == "unsatisfiable"
ErrUnboundVariable == "unbound"

Failed(o, error) == [o EXCEPT !.err = error]

Generated(asg, value) == [asg |-> asg, err |-> Ok, val |-> value]
Unsatisfied(asg) == {Failed(Generated(asg, <<>>), ErrUnsatisfiable)}

\* What is left of a generator's own bookkeeping when it returns.
Outcome(o) == [asg |-> o.asg, err |-> o.err, val |-> o.val]

\* Step(o, x) for every element x of a sequence, as long as no error is returned.
ForEach(outcomes, seq, Step(_, _)) ==
  LET after[i \in 0 .. Len(seq)] ==
        IF i = 0 THEN outcomes
        ELSE UNION {IF o.err = Ok THEN Step(o, seq[i]) ELSE {o} : o \in after[i - 1]}
  IN after[Len(seq)]

\* The elements of a small set, in the order of their keys.
Sorted(S, Key(_)) == SetToSortSeq(S, LAMBDA a, b : Key(a) < Key(b))

\* Two neighbours of a sequence are in conflict.
NeighboursClash(seq, Clash(_, _)) ==
  \E i \in 1 .. Len(seq) - 1 : Clash(seq[i], seq[i + 1])
=============================================================================
