-------------------------- MODULE CollectionLemmas --------------------------
(***************************************************************************)
(* Facts about the data the models are built from: stacks kept as          *)
(* sequences whose last element is the top, and totals of functions.  The  *)
(* ones about totals need induction, which is stated for sets so that no   *)
(* prover has to guess a predicate.                                        *)
(***************************************************************************)
EXTENDS Integers, Sequences, FiniteSets, Totals, TLAPS

-----------------------------------------------------------------------------
(* Stacks *)

\* Pushing keeps what is below and puts the new element on top.
LEMMA PushProperties ==
  ASSUME NEW S, NEW q \in Seq(S), NEW x \in S
  PROVE  /\ Append(q, x) \in Seq(S)
         /\ Append(q, x) # <<>>
         /\ Len(q) \in Nat
         /\ Len(Append(q, x)) = Len(q) + 1
         /\ DOMAIN Append(q, x) = 1 .. Len(q) + 1
         /\ Append(q, x)[Len(q) + 1] = x
         /\ \A i \in 1 .. Len(q) : Append(q, x)[i] = q[i]
OBVIOUS

\* Popping keeps everything but the top.
LEMMA PopProperties ==
  ASSUME NEW S, NEW q \in Seq(S), q # <<>>
  PROVE  LET p == SubSeq(q, 1, Len(q) - 1)
         IN  /\ p \in Seq(S)
             /\ Len(q) \in Nat \ {0}
             /\ Len(p) = Len(q) - 1
             /\ DOMAIN p = 1 .. Len(q) - 1
             /\ \A i \in 1 .. Len(q) - 1 : p[i] = q[i]
             /\ q[Len(q)] \in S
<1>1. Len(q) \in Nat \ {0} /\ q[Len(q)] \in S
  OBVIOUS
<1>2. \A i \in 1 .. Len(q) - 1 : q[i] \in S
  OBVIOUS
<1> DEFINE n == Len(q) - 1
          p == SubSeq(q, 1, n)
<1>3. n \in Int /\ 1 \in Int /\ \A i \in 1 .. n : q[i] \in S
  BY <1>1, <1>2
<1>4. /\ p \in Seq(S)
      /\ Len(p) = IF 1 <= n THEN n - 1 + 1 ELSE 0
      /\ \A i \in 1 .. n - 1 + 1 : p[i] = q[1 + i - 1]
  BY <1>3
<1>5. n \in Nat /\ Len(q) = n + 1
  BY <1>1
<1>6. Len(p) = n /\ \A i \in 1 .. n : p[i] = q[i]
  <2> HIDE DEF n, p
  <2>1. Len(p) = n
    BY <1>4, <1>5
  <2>2. ASSUME NEW i \in 1 .. n PROVE p[i] = q[i]
    <3>1. i \in 1 .. n - 1 + 1 /\ 1 + i - 1 = i
      BY <1>5
    <3> QED
      BY <1>4, <3>1
  <2> QED
    BY <2>1, <2>2
<1> QED
  BY <1>1, <1>4, <1>6

\* How to recognise a stack with one entry more, or one less.
LEMMA PushEqual ==
  ASSUME NEW S, NEW q \in Seq(S), NEW x \in S, NEW e \in Seq(S), Len(e) = Len(q) + 1,
         e[Len(q) + 1] = x, \A i \in 1 .. Len(q) : e[i] = q[i]
  PROVE  e = Append(q, x)
<1>1. Append(q, x) \in Seq(S) /\ Len(Append(q, x)) = Len(q) + 1 /\ Len(q) \in Nat
      /\ Append(q, x)[Len(q) + 1] = x /\ \A i \in 1 .. Len(q) : Append(q, x)[i] = q[i]
  BY PushProperties
<1>2. \A i \in 1 .. Len(e) : e[i] = Append(q, x)[i]
  BY <1>1
<1> QED
  BY <1>1, <1>2

LEMMA PopEqual ==
  ASSUME NEW S, NEW q \in Seq(S), q # <<>>, NEW e \in Seq(S), Len(e) = Len(q) - 1,
         \A i \in 1 .. Len(e) : e[i] = q[i]
  PROVE  e = SubSeq(q, 1, Len(q) - 1)
<1> DEFINE p == SubSeq(q, 1, Len(q) - 1)
<1>1. p \in Seq(S) /\ Len(p) = Len(q) - 1 /\ \A i \in 1 .. Len(q) - 1 : p[i] = q[i]
  BY PopProperties
<1> HIDE DEF p
<1>2. e = p
  BY <1>1
<1> QED
  BY <1>2 DEF p

-----------------------------------------------------------------------------
(* Induction *)

\* Induction over the naturals, for a set instead of a predicate.
Induction ==
  \A T : 0 \in T /\ (\A n \in Nat : n \in T => n + 1 \in T) => Nat \subseteq T

LEMMA NaturalsInSet ==
  ASSUME Induction, NEW T, 0 \in T, \A n \in Nat : n \in T => n + 1 \in T
  PROVE  Nat \subseteq T
BY Zenon DEF Induction

-----------------------------------------------------------------------------
(* Sums over finite sets *)

\* The sum of f[x] for x in S, by the recursion of the community modules.
SumOver(f, S) == MapThenSumSet(LAMBDA x : f[x], S)

Pick(s) == CHOOSE x \in s : TRUE

Sums(f, S, g) == g = [s \in SUBSET S |-> IF s = {} THEN 0 ELSE f[Pick(s)] + g[s \ {Pick(s)}]]

LEMMA SumOverUnfolds ==
  ASSUME NEW f, NEW S
  PROVE  SumOver(f, S) = (CHOOSE g : Sums(f, S, g))[S]
  BY DEF SumOver, MapThenSumSet, MapThenFoldSet, Sums, Pick

\* Finite, without a detour through cardinalities: g[1], ..., g[n] lists all of S.
Lists(g, n, S) == \A x \in S : \E i \in 1 .. n : g[i] = x
Listed(S) == \E n \in Nat : \E g : Lists(g, n, S)

\* The subsets that some list of length n covers.
Level(S, n) == {s \in SUBSET S : \E g : Lists(g, n, s)}

LEMMA FiniteIsListed == ASSUME NEW S, IsFiniteSet(S) PROVE Listed(S)
<1>1. PICK q \in Seq(S) : \A x \in S : \E i \in 1 .. Len(q) : q[i] = x
  BY DEF IsFiniteSet
<1>2. Len(q) \in Nat /\ Lists(q, Len(q), S)
  BY <1>1 DEF Lists
<1> QED
  BY <1>2, Zenon DEF Listed

LEMMA SubsetIsListed == ASSUME NEW S, Listed(S), NEW R \in SUBSET S PROVE Listed(R)
<1>1. PICK n \in Nat : \E g : Lists(g, n, S)
  BY DEF Listed
<1>2. \E g : Lists(g, n, R)
  BY <1>1 DEF Lists
<1> QED
  BY <1>2 DEF Listed

LEMMA IntervalIsListed == ASSUME NEW n \in Nat PROVE Listed(1 .. n)
<1> DEFINE g == [i \in 1 .. n |-> i]
<1>1. Lists(g, n, 1 .. n)
  BY DEF Lists
<1> QED
  BY <1>1, Zenon DEF Listed

LEMMA LevelFacts ==
  ASSUME NEW S, NEW n \in Nat
  PROVE  /\ \A s \in Level(S, 0) : s = {}
         /\ {} \in Level(S, n)
         /\ Level(S, n) \subseteq Level(S, n + 1)
<1>1. \A s \in Level(S, 0) : s = {}
  BY DEF Level, Lists
<1>2. {} \in Level(S, n)
  BY DEF Level, Lists
<1>3. Level(S, n) \subseteq Level(S, n + 1)
  <2>1. 1 .. n \subseteq 1 .. n + 1
    OBVIOUS
  <2> QED
    BY <2>1, Zenon DEF Level, Lists
<1> QED
  BY <1>1, <1>2, <1>3

LEMMA LevelStep ==
  ASSUME NEW S, NEW n \in Nat, NEW s \in Level(S, n + 1)
  PROVE  /\ s \in SUBSET S
         /\ s # {} => Pick(s) \in s /\ s \ {Pick(s)} \in Level(S, n)
         /\ \A x \in s : s \ {x} \in Level(S, n)
<1>1. ASSUME NEW x \in s PROVE s \ {x} \in Level(S, n)
  <2>1. PICK g : Lists(g, n + 1, s)
    BY DEF Level
  <2>2. PICK k \in 1 .. n + 1 : g[k] = x
    BY <2>1 DEF Lists
  <2> DEFINE h == [i \in 1 .. n |-> IF i < k THEN g[i] ELSE g[i + 1]]
  <2>3. ASSUME NEW y \in s \ {x} PROVE \E i \in 1 .. n : h[i] = y
    <3>1. PICK j \in 1 .. n + 1 : g[j] = y
      BY <2>1 DEF Lists
    <3>2. j # k
      BY <2>2, <3>1
    <3>3. CASE j < k
      <4>1. j \in 1 .. n /\ h[j] = y
        BY <3>1, <3>3
      <4> QED
        BY <4>1
    <3>4. CASE j > k
      <4>1. j - 1 \in 1 .. n /\ ~(j - 1 < k) /\ (j - 1) + 1 = j
        BY <3>4
      <4>2. h[j - 1] = y
        BY <3>1, <4>1
      <4> QED
        BY <4>1, <4>2
    <3> QED
      BY <3>2, <3>3, <3>4
  <2>4. Lists(h, n, s \ {x})
    <3> HIDE DEF h
    <3> QED
      BY <2>3 DEF Lists
  <2> HIDE DEF h
  <2> QED
    BY <2>4 DEF Level
<1>2. s \in SUBSET S /\ (s # {} => Pick(s) \in s)
  BY DEF Level, Pick
<1> QED
  BY <1>1, <1>2

\* All subsets of a finite set are on one level.
LEMMA TopLevel == ASSUME NEW S, Listed(S) PROVE \E n \in Nat : Level(S, n) = SUBSET S
<1>1. PICK n \in Nat : \E g : Lists(g, n, S)
  BY DEF Listed
<1>2. Level(S, n) = SUBSET S
  BY <1>1 DEF Level, Lists
<1> QED
  BY <1>2

\* The recursion of the sum has a solution.
LEMMA SumsExist ==
  ASSUME Induction, NEW f, NEW S, Listed(S)
  PROVE  \E g : Sums(f, S, g)
<1> DEFINE Step(g, s) == IF s = {} THEN 0 ELSE f[Pick(s)] + g[s \ {Pick(s)}]
           T == {n \in Nat : \E g : g = [s \in Level(S, n) |-> Step(g, s)]}
<1>1. 0 \in T
  <2>1. Level(S, 0) = {{}}
    <3>1. 0 \in Nat /\ {} \in Level(S, 0)
      BY LevelFacts
    <3>2. \A s \in Level(S, 0) : s = {}
      BY <3>1, LevelFacts, Zenon
    <3> QED
      BY <3>1, <3>2
  <2> DEFINE g == [s \in Level(S, 0) |-> 0]
  <2>2. g = [s \in Level(S, 0) |-> Step(g, s)]
    BY <2>1
  <2> QED
    BY <2>2, Zenon
<1>2. ASSUME NEW n \in Nat, n \in T PROVE n + 1 \in T
  <2>1. PICK g : g = [s \in Level(S, n) |-> Step(g, s)]
    BY <1>2
  <2> DEFINE h == [s \in Level(S, n + 1) |-> IF s \in Level(S, n) THEN g[s] ELSE Step(g, s)]
  <2>2. ASSUME NEW s \in Level(S, n + 1) PROVE h[s] = Step(h, s)
    <3>1. CASE s = {}
      <4>1. {} \in Level(S, n)
        BY LevelFacts
      <4> QED
        BY <2>1, <2>2, <3>1, <4>1
    <3>2. CASE s # {}
      <4> DEFINE r == s \ {Pick(s)}
      <4>1. r \in Level(S, n)
        BY <3>2, LevelStep, Zenon
      <4>2. r \in Level(S, n + 1)
        BY <4>1, LevelFacts
      <4>3. h[r] = g[r]
        BY <4>1, <4>2
      <4>4. g[s] = Step(g, s) \/ s \notin Level(S, n)
        BY <2>1, Zenon
      <4>5. h[s] = Step(g, s)
        BY <2>2, <4>4
      <4> QED
        BY <3>2, <4>3, <4>5
    <3> QED
      BY <3>1, <3>2
  <2>3. h = [s \in Level(S, n + 1) |-> Step(h, s)]
    <3>1. h = [s \in Level(S, n + 1) |-> h[s]]
      OBVIOUS
    <3> HIDE DEF h, Step
    <3> QED
      BY <2>2, <3>1
  <2>4. \E k : k = [s \in Level(S, n + 1) |-> Step(k, s)]
    <3> HIDE DEF h, Step
    <3> QED
      BY <2>3
  <2> HIDE DEF Step
  <2> QED
    BY <2>4
<1>3. Nat \subseteq T
  <2> HIDE DEF T
  <2> QED
    BY <1>1, <1>2, NaturalsInSet
<1>4. PICK n \in Nat : Level(S, n) = SUBSET S
  BY TopLevel
<1>5. n \in T
  BY <1>3, Zenon
<1> QED
  BY <1>4, <1>5, Zenon DEF Sums

\* So the sum is what the recursion says, for every choice of the next element.
LEMMA SumOverIsSum ==
  ASSUME Induction, NEW f, NEW S, Listed(S)
  PROVE  \E g : Sums(f, S, g) /\ SumOver(f, S) = g[S]
  BY SumsExist, SumOverUnfolds

\* Two solutions agree where both are defined and the terms are the same.
LEMMA SumsAgree ==
  ASSUME Induction, NEW f, NEW e, NEW S, Listed(S), NEW R, Listed(R),
         NEW g, Sums(f, S, g), NEW h, Sums(e, R, h),
         NEW A \in SUBSET (S \cap R), \A x \in A : f[x] = e[x]
  PROVE  g[A] = h[A]
<1> DEFINE T == {n \in Nat : \A s \in Level(A, n) : g[s] = h[s]}
<1>1. Listed(A)
  BY SubsetIsListed
<1>2. 0 \in T
  <2>1. ASSUME NEW s \in Level(A, 0) PROVE g[s] = h[s]
    <3>1. s = {}
      BY LevelFacts
    <3> QED
      BY <3>1 DEF Sums
  <2> QED
    BY <2>1
<1>3. ASSUME NEW n \in Nat, n \in T PROVE n + 1 \in T
  <2>1. ASSUME NEW s \in Level(A, n + 1) PROVE g[s] = h[s]
    <3>1. CASE s = {}
      BY <3>1 DEF Sums
    <3>2. CASE s # {}
      <4> DEFINE r == s \ {Pick(s)}
      <4>1. s \in SUBSET A /\ r \in Level(A, n) /\ Pick(s) \in A
        BY <3>2, LevelStep, Zenon
      <4>2. g[r] = h[r]
        BY <1>3, <4>1
      <4>3. g[s] = f[Pick(s)] + g[r]
        BY <3>2, <4>1, Zenon DEF Sums
      <4>4. h[s] = e[Pick(s)] + h[r]
        BY <3>2, <4>1, Zenon DEF Sums
      <4> QED
        BY <4>1, <4>2, <4>3, <4>4
    <3> QED
      BY <3>1, <3>2
  <2> QED
    BY <2>1
<1>4. Nat \subseteq T
  <2> HIDE DEF T
  <2> QED
    BY <1>2, <1>3, NaturalsInSet
<1>5. PICK n \in Nat : Level(A, n) = SUBSET A
  BY <1>1, TopLevel
<1>6. n \in T
  BY <1>4
<1> QED
  BY <1>5, <1>6

\* A sum depends on the terms in the set only.
LEMMA SumOverCongruence ==
  ASSUME Induction, NEW f, NEW e, NEW S, Listed(S), \A x \in S : f[x] = e[x]
  PROVE  SumOver(f, S) = SumOver(e, S)
<1>1. PICK g : Sums(f, S, g) /\ SumOver(f, S) = g[S]
  BY SumOverIsSum
<1>2. PICK h : Sums(e, S, h) /\ SumOver(e, S) = h[S]
  BY SumOverIsSum
<1>3. g[S] = h[S]
  BY <1>1, <1>2, SumsAgree
<1> QED
  BY <1>1, <1>2, <1>3

LEMMA SumOverEmpty ==
  ASSUME Induction, NEW f PROVE SumOver(f, {}) = 0
<1>1. Listed({})
  BY DEF Listed, Lists
<1>2. PICK g : Sums(f, {}, g) /\ SumOver(f, {}) = g[{}]
  BY <1>1, SumOverIsSum
<1> QED
  BY <1>2 DEF Sums

\* A sum of integers is one, and any term can be split off.
LEMMA SumsSplit ==
  ASSUME Induction, NEW f, NEW S, Listed(S), \A x \in S : f[x] \in Int, NEW g, Sums(f, S, g)
  PROVE  \A A \in SUBSET S : g[A] \in Int /\ \A x \in A : g[A] = f[x] + g[A \ {x}]
<1> DEFINE P(s) == g[s] \in Int /\ \A x \in s : g[s] = f[x] + g[s \ {x}]
           T == {n \in Nat : \A s \in Level(S, n) : P(s)}
<1>1. 0 \in T
  <2>1. ASSUME NEW s \in Level(S, 0) PROVE P(s)
    <3>1. s = {}
      BY LevelFacts
    <3> QED
      BY <3>1 DEF Sums
  <2> QED
    BY <2>1
<1>2. ASSUME NEW n \in Nat, n \in T PROVE n + 1 \in T
  <2>1. ASSUME NEW s \in Level(S, n + 1) PROVE P(s)
    <3>1. CASE s = {}
      BY <3>1 DEF Sums
    <3>2. CASE s # {}
      <4> DEFINE c == Pick(s)
      <4>1. s \in SUBSET S /\ c \in s
        BY <3>2, LevelStep, Zenon
      <4>2. \A x \in s : s \ {x} \in Level(S, n) /\ f[x] \in Int
        BY <4>1, LevelStep, Zenon
      <4>3. g[s] = f[c] + g[s \ {c}]
        BY <3>2, <4>1, Zenon DEF Sums
      <4>4. \A x \in s : g[s \ {x}] \in Int
        BY <1>2, <4>2
      <4>5. ASSUME NEW x \in s, x # c PROVE g[s] = f[x] + g[s \ {x}]
        <5>1. (s \ {x}) \ {c} = (s \ {c}) \ {x}
          OBVIOUS
        <5>2. g[s \ {c}] = f[x] + g[(s \ {c}) \ {x}]
          BY <1>2, <4>1, <4>2, <4>5, Zenon
        <5>3. g[s \ {x}] = f[c] + g[(s \ {x}) \ {c}]
          BY <1>2, <4>1, <4>2, <4>5
        <5>4. (s \ {c}) \ {x} \in Level(S, n)
          <6>1. s \ {c} \in Level(S, n + 1) /\ x \in s \ {c}
            BY <4>1, <4>2, <4>5, LevelFacts
          <6> QED
            BY <6>1, LevelStep, Zenon
        <5>5. g[(s \ {c}) \ {x}] \in Int
          BY <1>2, <5>4
        <5>6. f[x] \in Int /\ f[c] \in Int
          BY <4>1, <4>2
        <5>7. g[s \ {x}] = f[c] + g[(s \ {c}) \ {x}]
          BY <5>1, <5>3
        <5> QED
          BY ONLY <4>3, <5>2, <5>5, <5>6, <5>7
      <4>6. g[s] \in Int
        BY <4>1, <4>2, <4>3, <4>4
      <4>7. ASSUME NEW x \in s PROVE g[s] = f[x] + g[s \ {x}]
        <5>1. CASE x = c
          BY <4>3, <5>1
        <5>2. CASE x # c
          BY <4>5, <5>2
        <5> QED
          BY <5>1, <5>2
      <4> QED
        BY <4>6, <4>7
    <3> QED
      BY <3>1, <3>2
  <2> QED
    BY <2>1
<1>3. Nat \subseteq T
  <2> HIDE DEF T
  <2> QED
    BY <1>1, <1>2, NaturalsInSet
<1>4. PICK n \in Nat : Level(S, n) = SUBSET S
  BY TopLevel
<1>5. n \in T
  BY <1>3
<1> QED
  BY <1>4, <1>5, Zenon

LEMMA SumOverSplit ==
  ASSUME Induction, NEW f, NEW S, Listed(S), \A x \in S : f[x] \in Int
  PROVE  /\ SumOver(f, S) \in Int
         /\ \A x \in S : SumOver(f, S) = f[x] + SumOver(f, S \ {x}) /\ SumOver(f, S \ {x}) \in Int
<1>1. PICK g : Sums(f, S, g) /\ SumOver(f, S) = g[S]
  BY SumOverIsSum
<1>2. SumOver(f, S) \in Int
  BY <1>1, SumsSplit
<1>3. ASSUME NEW x \in S
      PROVE  SumOver(f, S) = f[x] + SumOver(f, S \ {x}) /\ SumOver(f, S \ {x}) \in Int
  <2>1. Listed(S \ {x})
    BY SubsetIsListed
  <2>2. PICK h : Sums(f, S \ {x}, h) /\ SumOver(f, S \ {x}) = h[S \ {x}]
    BY <2>1, SumOverIsSum
  <2>3. h[S \ {x}] = g[S \ {x}]
    BY <1>1, <2>1, <2>2, SumsAgree
  <2>4. g[S] = f[x] + g[S \ {x}] /\ g[S \ {x}] \in Int
    <3>1. \A A \in SUBSET S : g[A] \in Int /\ \A y \in A : g[A] = f[y] + g[A \ {y}]
      BY <1>1, SumsSplit
    <3>2. S \in SUBSET S /\ S \ {x} \in SUBSET S
      OBVIOUS
    <3> QED
      BY <3>1, <3>2, Zenon
  <2> QED
    BY <1>1, <2>2, <2>3, <2>4
<1> QED
  BY <1>2, <1>3

\* A sum of naturals is one.
LEMMA SumOverNat ==
  ASSUME Induction, NEW f, NEW S, Listed(S), \A x \in S : f[x] \in Nat
  PROVE  SumOver(f, S) \in Nat
<1>1. PICK g : Sums(f, S, g) /\ SumOver(f, S) = g[S]
  BY SumOverIsSum
<1> DEFINE T == {n \in Nat : \A s \in Level(S, n) : g[s] \in Nat}
<1>2. 0 \in T
  <2>1. ASSUME NEW s \in Level(S, 0) PROVE g[s] \in Nat
    <3>1. s = {}
      BY LevelFacts
    <3> QED
      BY <1>1, <3>1 DEF Sums
  <2> QED
    BY <2>1
<1>3. ASSUME NEW n \in Nat, n \in T PROVE n + 1 \in T
  <2>1. ASSUME NEW s \in Level(S, n + 1) PROVE g[s] \in Nat
    <3>1. CASE s = {}
      BY <1>1, <3>1 DEF Sums
    <3>2. CASE s # {}
      <4> DEFINE r == s \ {Pick(s)}
      <4>1. s \in SUBSET S /\ r \in Level(S, n) /\ Pick(s) \in S
        BY <3>2, LevelStep, Zenon
      <4>2. g[r] \in Nat
        BY <1>3, <4>1
      <4>3. g[s] = f[Pick(s)] + g[r]
        BY <1>1, <3>2, <4>1, Zenon DEF Sums
      <4>4. f[Pick(s)] \in Nat
        BY <4>1
      <4> QED
        BY <4>2, <4>3, <4>4
    <3> QED
      BY <3>1, <3>2
  <2> QED
    BY <2>1
<1>4. Nat \subseteq T
  <2> HIDE DEF T
  <2> QED
    BY <1>2, <1>3, NaturalsInSet
<1>5. PICK n \in Nat : Level(S, n) = SUBSET S
  BY TopLevel
<1>6. n \in T
  BY <1>4
<1> QED
  BY <1>1, <1>5, <1>6

\* Changing one term changes the sum by as much.
LEMMA SumOverUpdate ==
  ASSUME Induction, NEW f, NEW e, NEW S, Listed(S), NEW x \in S,
         \A y \in S : f[y] \in Int /\ e[y] \in Int,
         \A y \in S \ {x} : e[y] = f[y]
  PROVE  SumOver(e, S) = SumOver(f, S) - f[x] + e[x]
<1>1. Listed(S \ {x})
  BY SubsetIsListed
<1>2. SumOver(e, S \ {x}) = SumOver(f, S \ {x})
  BY <1>1, SumOverCongruence
<1>3. SumOver(f, S) = f[x] + SumOver(f, S \ {x}) /\ SumOver(f, S \ {x}) \in Int
  BY SumOverSplit, Zenon
<1>4. SumOver(e, S) = e[x] + SumOver(e, S \ {x})
  BY SumOverSplit
<1> QED
  BY <1>2, <1>3, <1>4

-----------------------------------------------------------------------------
(* Totals *)

LEMMA TotalIsSumOver ==
  ASSUME NEW f PROVE Total(f) = SumOver(f, DOMAIN f)
  BY DEF Total, SumOver

LEMMA TotalType ==
  ASSUME Induction, NEW S, Listed(S), NEW f \in [S -> Int]
  PROVE  Total(f) \in Int
<1>1. Total(f) = SumOver(f, S)
  BY TotalIsSumOver
<1> QED
  BY <1>1, SumOverSplit

\* No value exceeds the total, nor do two of them together.
LEMMA TotalBounds ==
  ASSUME Induction, NEW S, Listed(S), NEW f \in [S -> Nat]
  PROVE  /\ Total(f) \in Nat
         /\ \A x \in S : f[x] <= Total(f)
         /\ \A x \in S, y \in S : x # y => f[x] + f[y] <= Total(f)
<1>1. Total(f) = SumOver(f, S)
  BY TotalIsSumOver
<1>2. Total(f) \in Nat
  BY <1>1, SumOverNat
<1>3. ASSUME NEW x \in S
      PROVE  /\ f[x] <= Total(f)
             /\ \A y \in S : x # y => f[x] + f[y] <= Total(f)
  <2>1. Listed(S \ {x}) /\ \A z \in S : f[z] \in Int
    BY SubsetIsListed
  <2>2. SumOver(f, S) = f[x] + SumOver(f, S \ {x})
    BY <2>1, SumOverSplit
  <2>3. SumOver(f, S \ {x}) \in Nat
    BY <2>1, SumOverNat
  <2>4. ASSUME NEW y \in S, x # y PROVE f[x] + f[y] <= Total(f)
    <3>1. Listed((S \ {x}) \ {y}) /\ y \in S \ {x}
      BY <2>4, SubsetIsListed
    <3>2. SumOver(f, S \ {x}) = f[y] + SumOver(f, (S \ {x}) \ {y})
      BY <2>1, <3>1, SumOverSplit
    <3>3. SumOver(f, (S \ {x}) \ {y}) \in Nat
      BY <3>1, SumOverNat
    <3> QED
      BY <1>1, <2>2, <3>2, <3>3
  <2> QED
    BY <1>1, <2>2, <2>3, <2>4
<1> QED
  BY <1>2, <1>3

\* Changing one value changes the total by as much.
LEMMA TotalUpdate ==
  ASSUME Induction, NEW S, Listed(S), NEW f \in [S -> Int], NEW x \in S, NEW v \in Int
  PROVE  Total([f EXCEPT ![x] = v]) = Total(f) - f[x] + v
<1> DEFINE e == [f EXCEPT ![x] = v]
<1>1. e \in [S -> Int] /\ e[x] = v /\ \A y \in S \ {x} : e[y] = f[y]
  OBVIOUS
<1>2. SumOver(e, S) = SumOver(f, S) - f[x] + e[x]
  <2> HIDE DEF e
  <2> QED
    BY <1>1, SumOverUpdate
<1>3. DOMAIN f = S /\ DOMAIN e = S
  BY <1>1
<1>4. Total(f) = SumOver(f, S)
  BY <1>3, TotalIsSumOver
<1>5. Total(e) = SumOver(e, S)
  <2> HIDE DEF e
  <2> QED
    BY <1>3, TotalIsSumOver
<1> QED
  BY <1>1, <1>2, <1>4, <1>5

\* The total of nothing.
LEMMA TotalEmpty ==
  ASSUME Induction, NEW f, DOMAIN f = {} PROVE Total(f) = 0
  BY TotalIsSumOver, SumOverEmpty

\* A stack of numbers that grows by one.
LEMMA TotalExtend ==
  ASSUME Induction, NEW n \in Nat, NEW f \in [1 .. n -> Int], NEW e \in [1 .. n + 1 -> Int],
         \A i \in 1 .. n : e[i] = f[i]
  PROVE  Total(e) = Total(f) + e[n + 1]
<1>1. Listed(1 .. n) /\ Listed(1 .. n + 1)
  BY IntervalIsListed
<1>2. (1 .. n + 1) \ {n + 1} = 1 .. n /\ n + 1 \in 1 .. n + 1
  OBVIOUS
<1>3. \A x \in 1 .. n + 1 : e[x] \in Int
  OBVIOUS
<1>4. SumOver(e, 1 .. n + 1) = e[n + 1] + SumOver(e, 1 .. n) /\ SumOver(e, 1 .. n) \in Int
  <2>1. /\ SumOver(e, 1 .. n + 1) = e[n + 1] + SumOver(e, (1 .. n + 1) \ {n + 1})
        /\ SumOver(e, (1 .. n + 1) \ {n + 1}) \in Int
    BY <1>1, <1>2, <1>3, SumOverSplit, Zenon
  <2> QED
    BY <1>2, <2>1, Zenon
<1>5. SumOver(e, 1 .. n) = SumOver(f, 1 .. n)
  BY <1>1, SumOverCongruence
<1>6. Total(f) = SumOver(f, 1 .. n) /\ Total(e) = SumOver(e, 1 .. n + 1)
  BY TotalIsSumOver
<1> QED
  BY <1>2, <1>3, <1>4, <1>5, <1>6

\* Two functions that differ in one value only.
LEMMA TotalDiffers ==
  ASSUME Induction, NEW S, Listed(S), NEW f \in [S -> Int], NEW e \in [S -> Int], NEW x \in S,
         \A y \in S \ {x} : e[y] = f[y]
  PROVE  Total(e) = Total(f) - f[x] + e[x]
<1>1. Total(f) = SumOver(f, S) /\ Total(e) = SumOver(e, S)
  BY TotalIsSumOver
<1> QED
  BY <1>1, SumOverUpdate

\* The totals of stacks of numbers: what grows by one entry, and what changes in
\* the last one.
LEMMA StackTotals ==
  ASSUME Induction, NEW n \in Nat, NEW f \in [1 .. n -> Int]
  PROVE  /\ Total(f) \in Int
         /\ n = 0 => Total(f) = 0
         /\ \A e \in [1 .. n + 1 -> Int] :
              (\A i \in 1 .. n : e[i] = f[i]) => Total(e) = Total(f) + e[n + 1]
         /\ \A e \in [1 .. n -> Int] :
              (\A i \in 1 .. n : i # n => e[i] = f[i]) /\ n # 0 => Total(e) = Total(f) - f[n] + e[n]
<1>1. Listed(1 .. n)
  BY IntervalIsListed
<1>2. Total(f) \in Int
  BY <1>1, TotalType
<1>3. n = 0 => Total(f) = 0
  BY TotalEmpty
<1>4. ASSUME NEW e \in [1 .. n -> Int], \A i \in 1 .. n : i # n => e[i] = f[i], n # 0
      PROVE  Total(e) = Total(f) - f[n] + e[n]
  BY <1>1, <1>4, TotalDiffers
<1> QED
  BY <1>2, <1>3, <1>4, TotalExtend, Zenon

\* Larger values have a larger total.
LEMMA TotalMonotone ==
  ASSUME Induction, NEW S, Listed(S), NEW f \in [S -> Int], NEW e \in [S -> Int],
         \A x \in S : f[x] <= e[x]
  PROVE  Total(f) <= Total(e)
<1>1. PICK g : Sums(f, S, g) /\ SumOver(f, S) = g[S]
  BY SumOverIsSum
<1>2. PICK h : Sums(e, S, h) /\ SumOver(e, S) = h[S]
  BY SumOverIsSum
<1>3. \A s \in SUBSET S : g[s] \in Int /\ h[s] \in Int
  BY <1>1, <1>2, SumsSplit
<1> DEFINE T == {n \in Nat : \A s \in Level(S, n) : g[s] <= h[s]}
<1>4. \A s \in SUBSET S : s = {} => g[s] <= h[s]
  BY <1>1, <1>2 DEF Sums
<1>5. 0 \in T
  <2>1. ASSUME NEW s \in Level(S, 0) PROVE g[s] <= h[s]
    <3>1. s \in SUBSET S /\ s = {}
      BY LevelFacts
    <3> QED
      BY <1>4, <3>1
  <2> QED
    BY <2>1
<1>6. ASSUME NEW n \in Nat, n \in T PROVE n + 1 \in T
  <2>1. ASSUME NEW s \in Level(S, n + 1) PROVE g[s] <= h[s]
    <3>1. s \in SUBSET S
      BY DEF Level
    <3>2. CASE s # {}
      <4> DEFINE r == s \ {Pick(s)}
      <4>1. r \in SUBSET S /\ r \in Level(S, n) /\ Pick(s) \in S
        BY <3>1, <3>2, LevelStep, Zenon
      <4>2. g[r] <= h[r] /\ g[r] \in Int /\ h[r] \in Int
        BY <1>3, <1>6, <4>1
      <4>3. g[s] = f[Pick(s)] + g[r] /\ h[s] = e[Pick(s)] + h[r]
        BY <1>1, <1>2, <3>1, <3>2, Zenon DEF Sums
      <4>4. f[Pick(s)] \in Int /\ e[Pick(s)] \in Int /\ f[Pick(s)] <= e[Pick(s)]
        BY <4>1
      <4> QED
        BY <4>2, <4>3, <4>4
    <3> QED
      BY <1>4, <3>1, <3>2
  <2> QED
    BY <2>1
<1>7. Nat \subseteq T
  <2> HIDE DEF T
  <2> QED
    BY <1>5, <1>6, NaturalsInSet
<1>8. PICK n \in Nat : Level(S, n) = SUBSET S
  BY TopLevel
<1>9. g[S] <= h[S]
  <2>1. n \in T
    BY <1>7
  <2> QED
    BY <1>8, <2>1
<1>10. Total(f) = SumOver(f, S) /\ Total(e) = SumOver(e, S)
  BY TotalIsSumOver
<1> QED
  BY <1>1, <1>2, <1>9, <1>10

-----------------------------------------------------------------------------
(* The refunds of a stack of calls *)

\* The size of what each call earned, instead of the sum.
Size(x) == IF x >= 0 THEN x ELSE -x
Turnover(fs, n) == Total([i \in 1 .. n |-> Size(fs[i].refund)])

LEMMA EarnedFacts ==
  ASSUME Induction, NEW fs, NEW m \in Nat, \A i \in 1 .. m : fs[i].refund \in Int
  PROVE  /\ Earned(fs, 0) = 0 /\ Turnover(fs, 0) = 0
         /\ \A n \in 0 .. m : Earned(fs, n) \in Int /\ Turnover(fs, n) \in Nat
                              /\ Earned(fs, n) <= Turnover(fs, n)
         /\ \A n \in 0 .. m - 1 : /\ Earned(fs, n + 1) = Earned(fs, n) + fs[n + 1].refund
                                  /\ Turnover(fs, n + 1) = Turnover(fs, n) + Size(fs[n + 1].refund)
<1> DEFINE f(n) == [i \in 1 .. n |-> fs[i].refund]
           g(n) == [i \in 1 .. n |-> Size(fs[i].refund)]
<1>1. \A n \in 0 .. m : f(n) \in [1 .. n -> Int] /\ g(n) \in [1 .. n -> Nat]
                        /\ g(n) \in [1 .. n -> Int]
  BY DEF Size
<1>2. \A n \in 0 .. m : \A i \in 1 .. n : f(n)[i] <= g(n)[i]
  BY DEF Size
<1>3. \A n : Earned(fs, n) = Total(f(n)) /\ Turnover(fs, n) = Total(g(n))
  BY DEF Earned, Turnover
<1>4. ASSUME NEW n \in 0 .. m - 1
      PROVE  /\ \A i \in 1 .. n : f(n + 1)[i] = f(n)[i] /\ g(n + 1)[i] = g(n)[i]
             /\ f(n + 1)[n + 1] = fs[n + 1].refund /\ g(n + 1)[n + 1] = Size(fs[n + 1].refund)
             /\ n \in 0 .. m /\ n + 1 \in 0 .. m /\ n \in Nat
  OBVIOUS
<1>5. DOMAIN f(0) = {} /\ DOMAIN g(0) = {}
  OBVIOUS
<1> HIDE DEF f, g
<1>6. Earned(fs, 0) = 0 /\ Turnover(fs, 0) = 0
  BY <1>3, <1>5, TotalEmpty
<1>7. ASSUME NEW n \in 0 .. m
      PROVE  Earned(fs, n) \in Int /\ Turnover(fs, n) \in Nat /\ Earned(fs, n) <= Turnover(fs, n)
  <2>1. n \in Nat /\ Listed(1 .. n)
    BY IntervalIsListed
  <2>2. Total(f(n)) \in Int /\ Total(g(n)) \in Nat
    BY <1>1, <2>1, TotalType, TotalBounds
  <2>3. Total(f(n)) <= Total(g(n))
    BY <1>1, <1>2, <2>1, TotalMonotone, Zenon
  <2> QED
    BY <1>3, <2>2, <2>3
<1>8. ASSUME NEW n \in 0 .. m - 1
      PROVE  /\ Earned(fs, n + 1) = Earned(fs, n) + fs[n + 1].refund
             /\ Turnover(fs, n + 1) = Turnover(fs, n) + Size(fs[n + 1].refund)
  <2>1. Total(f(n + 1)) = Total(f(n)) + f(n + 1)[n + 1]
    BY <1>1, <1>4, TotalExtend, Zenon
  <2>2. Total(g(n + 1)) = Total(g(n)) + g(n + 1)[n + 1]
    BY <1>1, <1>4, TotalExtend, Zenon
  <2> QED
    BY <1>3, <1>4, <2>1, <2>2
<1> QED
  BY <1>6, <1>7, <1>8

LEMMA EarnedSame ==
  ASSUME NEW fs, NEW gs, NEW n \in Nat, \A i \in 1 .. n : gs[i].refund = fs[i].refund
  PROVE  Earned(gs, n) = Earned(fs, n) /\ Turnover(gs, n) = Turnover(fs, n)
<1>1. [i \in 1 .. n |-> gs[i].refund] = [i \in 1 .. n |-> fs[i].refund]
  OBVIOUS
<1>2. [i \in 1 .. n |-> Size(gs[i].refund)] = [i \in 1 .. n |-> Size(fs[i].refund)]
  OBVIOUS
<1> QED
  BY <1>1, <1>2 DEF Earned, Turnover
=============================================================================
