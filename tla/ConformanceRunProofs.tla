------------------------ MODULE ConformanceRunProofs ------------------------
(***************************************************************************)
(* The conformance test pipeline closes its channels in time, reports      *)
(* success only when everything was tested, reports each failure once and  *)
(* keeps to its limit of issues, for any number of rules, test cases and   *)
(* workers.                                                                *)
(***************************************************************************)
EXTENDS ConformanceRun, FiniteSetTheorems, TLAPS

-----------------------------------------------------------------------------
(* The shape of the state and the phases of the pipeline *)

\* What the phases of ForEachState guarantee: a goroutine that is done saw its
\* channel closed and empty, and the two closes follow the waits.
Phases ==
  /\ ruleClosed <=> main # "feed"
  /\ ruleClosed => fed = NumRules
  /\ stateClosed <=> main \notin {"feed", "waitRules"}
  /\ stateClosed => \A g \in Generator : gen[g].pc = "done"
  /\ main \in {"waitPrinter", "returned"} => \A t \in Tester : tester[t].pc = "done"
  /\ \A g \in Generator : gen[g].pc = "done" => ruleClosed /\ taken = fed
  /\ \A t \in Tester : tester[t].pc = "done" => stateClosed /\ stateChannel = {}

\* What goroutines hold while they work on a test case.
Holding ==
  /\ \A g \in Generator : gen[g].pc = "send" => nextCase(g) \in TestCase
  /\ \A g \in Generator : gen[g].pc \in {"enumerate", "send"} => gen[g].next > 0
  /\ \A t \in Tester : tester[t].pc \in {"check", "test"} => tester[t].case \in TestCase
  /\ IsFiniteSet(stateChannel)

Shape == TypeOK /\ Holding

LEMMA CapacityIsPositive == Capacity \in Nat \ {0}
  BY RunAssumption DEF Capacity

LEMMA ShapeInit == Init => Shape
<1> SUFFICES ASSUME Init PROVE Shape
  BY Zenon
<1>1. IsFiniteSet(stateChannel) /\ Cardinality(stateChannel) = 0
  BY FS_EmptySet, Zenon DEF Init
<1>2. Cardinality(stateChannel) <= Capacity /\ fed - taken <= Capacity
  BY <1>1, CapacityIsPositive DEF Init
<1>3. fed \in 0 .. NumRules /\ taken \in 0 .. fed
  BY RunAssumption DEF Init
<1>4. gen \in [Generator -> [pc : {"recv", "enumerate", "send", "storeError", "done"},
                             rule : Nat, next : Nat]]
  BY Zenon DEF Init, Waiting
<1>5. tester \in [Tester -> [pc : {"recv", "check", "test", "issue", "panic", "abort", "done"},
                             case : TestCase \cup {NoCase}]]
  BY Zenon DEF Init, TesterAt
<1>6. TypeOK
  BY <1>2, <1>3, <1>4, <1>5, Zenon DEF Init, TypeOK
<1>7. Holding
  BY <1>1, Zenon DEF Init, Holding, Waiting, TesterAt
<1> QED
  BY <1>6, <1>7, Zenon DEF Shape

LEMMA ShapeNext == Shape /\ [Next]_vars => Shape'
<1> SUFFICES ASSUME Shape, [Next]_vars PROVE Shape'
  BY Zenon
<1> USE RunAssumption, CapacityIsPositive DEF Shape, TypeOK, Holding, nextCase
<1>1. CASE UNCHANGED vars
  BY <1>1, Zenon DEF vars
<1>2. CASE Main
  <2>1. CASE FeedRule
    BY <2>1 DEF FeedRule
  <2>2. CASE CloseRules
    BY <2>2, Zenon DEF CloseRules
  <2>3. CASE CloseStates
    BY <2>3, Zenon DEF CloseStates
  <2>4. CASE StopPrinter
    BY <2>4, Zenon DEF StopPrinter
  <2>5. CASE Return
    BY <2>5, Zenon DEF Return
  <2> QED
    BY <1>2, <2>1, <2>2, <2>3, <2>4, <2>5, Zenon DEF Main
<1>3. CASE PrinterDone
  BY <1>3, Zenon DEF PrinterDone
<1>4. ASSUME NEW g \in Generator, Generate(g) PROVE Shape'
  <2>1. CASE ReceiveRule(g)
    BY <2>1 DEF ReceiveRule
  <2>2. CASE NoMoreRules(g)
    BY <2>2 DEF NoMoreRules
  <2>3. CASE Enumerate(g)
    <3>1. CASE abortTests
      BY <2>3, <3>1, Zenon DEF Enumerate, Waiting
    <3>2. CASE ~abortTests /\ ~fullMode /\ nextCase(g) \in Excluded
      BY <2>3, <3>2 DEF Enumerate
    <3>3. CASE ~abortTests /\ ~(~fullMode /\ nextCase(g) \in Excluded)
      BY <2>3, <3>3, Zenon DEF Enumerate
    <3> QED
      BY <3>1, <3>2, <3>3, Zenon
  <2>4. CASE Send(g)
    <3>1. /\ IsFiniteSet(stateChannel \cup {nextCase(g)})
          /\ Cardinality(stateChannel \cup {nextCase(g)})
               = IF nextCase(g) \in stateChannel THEN Cardinality(stateChannel)
                 ELSE Cardinality(stateChannel) + 1
          /\ Cardinality(stateChannel) \in Nat
      BY FS_AddElement, FS_CardinalityType, Zenon
    <3>2. Cardinality(stateChannel') <= Capacity /\ IsFiniteSet(stateChannel')
      BY <2>4, <3>1 DEF Send
    <3> QED
      BY <2>4, <3>1, <3>2 DEF Send
  <2>5. CASE RuleDone(g)
    BY <2>5, Zenon DEF RuleDone, Waiting
  <2>6. CASE GenerationFails(g)
    BY <2>6, Zenon DEF GenerationFails, Waiting
  <2>7. CASE StoreError(g)
    BY <2>7 DEF StoreError
  <2> QED
    BY <1>4, <2>1, <2>2, <2>3, <2>4, <2>5, <2>6, <2>7, Zenon DEF Generate
<1>5. ASSUME NEW t \in Tester, TestCases(t) PROVE Shape'
  <2>1. ASSUME NEW c \in TestCase, ReceiveCase(t, c) PROVE Shape'
    <3>1. /\ IsFiniteSet(stateChannel \ {c})
          /\ Cardinality(stateChannel \ {c})
               = IF c \in stateChannel THEN Cardinality(stateChannel) - 1
                 ELSE Cardinality(stateChannel)
          /\ Cardinality(stateChannel) \in Nat
      BY FS_RemoveElement, FS_CardinalityType, Zenon
    <3>2. Cardinality(stateChannel') <= Capacity /\ IsFiniteSet(stateChannel')
      BY <2>1, <3>1 DEF ReceiveCase
    <3> QED
      BY <2>1, <3>1, <3>2, Zenon DEF ReceiveCase
  <2>2. CASE NoMoreCases(t)
    BY <2>2 DEF NoMoreCases
  <2>3. CASE CheckIssues(t)
    BY <2>3 DEF CheckIssues, TesterAt
  <2>4. ASSUME NEW o \in Outcomes, Test(t, o) PROVE Shape'
    BY <2>4, Zenon DEF Test, TesterAt, Failed
  <2>5. CASE AddIssue(t)
    BY <2>5 DEF AddIssue, TesterAt
  <2>6. CASE StoreAbort(t)
    BY <2>6, Zenon DEF StoreAbort, TesterAt
  <2> QED
    BY <1>5, <2>1, <2>2, <2>3, <2>4, <2>5, <2>6, Zenon DEF TestCases
<1> QED
  BY <1>1, <1>2, <1>3, <1>4, <1>5, Zenon DEF Next

LEMMA PhasesInit == Init => Phases
  BY RunAssumption DEF Init, Phases, Waiting, TesterAt

LEMMA PhasesNext == Shape /\ Phases /\ [Next]_vars => Phases'
<1> SUFFICES ASSUME Shape, Phases, [Next]_vars PROVE Phases'
  BY Zenon
<1> USE RunAssumption DEF Shape, TypeOK, Phases
<1>1. CASE UNCHANGED vars
  BY <1>1, Zenon DEF vars
<1>2. CASE Main
  <2>1. CASE FeedRule
    BY <2>1, Zenon DEF FeedRule
  <2>2. CASE CloseRules
    BY <2>2, Zenon DEF CloseRules
  <2>3. CASE CloseStates
    BY <2>3, Zenon DEF CloseStates
  <2>4. CASE StopPrinter
    BY <2>4, Zenon DEF StopPrinter
  <2>5. CASE Return
    BY <2>5, Zenon DEF Return
  <2> QED
    BY <1>2, <2>1, <2>2, <2>3, <2>4, <2>5, Zenon DEF Main
<1>3. CASE PrinterDone
  BY <1>3, Zenon DEF PrinterDone
<1>4. ASSUME NEW g \in Generator, Generate(g) PROVE Phases'
  <2>1. CASE ReceiveRule(g)
    BY <2>1 DEF ReceiveRule
  <2>2. CASE NoMoreRules(g)
    BY <2>2, Zenon DEF NoMoreRules
  <2>3. CASE Enumerate(g)
    <3>1. gen'[g].pc # "done" /\ gen[g].pc # "done"
      BY <2>3, Zenon DEF Enumerate, Waiting
    <3>2. \A h \in Generator \ {g} : gen'[h] = gen[h]
      BY <2>3, Zenon DEF Enumerate
    <3> QED
      BY <2>3, <3>1, <3>2, Zenon DEF Enumerate
  <2>4. CASE Send(g)
    BY <2>4 DEF Send
  <2>5. CASE RuleDone(g)
    BY <2>5, Zenon DEF RuleDone, Waiting
  <2>6. CASE GenerationFails(g)
    BY <2>6, Zenon DEF GenerationFails, Waiting
  <2>7. CASE StoreError(g)
    BY <2>7, Zenon DEF StoreError
  <2> QED
    BY <1>4, <2>1, <2>2, <2>3, <2>4, <2>5, <2>6, <2>7, Zenon DEF Generate
<1>5. ASSUME NEW t \in Tester, TestCases(t) PROVE Phases'
  <2>1. ASSUME NEW c \in TestCase, ReceiveCase(t, c) PROVE Phases'
    BY <2>1, Zenon DEF ReceiveCase
  <2>2. CASE NoMoreCases(t)
    BY <2>2, Zenon DEF NoMoreCases
  <2>3. CASE CheckIssues(t)
    BY <2>3, Zenon DEF CheckIssues, TesterAt
  <2>4. ASSUME NEW o \in Outcomes, Test(t, o) PROVE Phases'
    BY <2>4, Zenon DEF Test, TesterAt, Failed
  <2>5. CASE AddIssue(t)
    BY <2>5, Zenon DEF AddIssue, TesterAt
  <2>6. CASE StoreAbort(t)
    BY <2>6, Zenon DEF StoreAbort, TesterAt
  <2> QED
    BY <1>5, <2>1, <2>2, <2>3, <2>4, <2>5, <2>6, Zenon DEF TestCases
<1> QED
  BY <1>1, <1>2, <1>3, <1>4, <1>5, Zenon DEF Next

-----------------------------------------------------------------------------
(* No test case is lost *)

\* Something went wrong and is reported, or is about to be.
Reported ==
  \/ returnError \/ issues > 0
  \/ \E g \in Generator : gen[g].pc = "storeError"
  \/ \E t \in Tester : tester[t].pc \in {"issue", "panic"}

\* Where the i-th test case of rule r may be.
Tracked(r, i) ==
  \/ r > taken
  \/ \E g \in Generator : /\ gen[g].pc \in {"enumerate", "send"}
                          /\ gen[g].rule = r /\ gen[g].next <= i
  \/ <<r, i>> \in stateChannel
  \/ \E t \in Tester : tester[t].pc \in {"check", "test"} /\ tester[t].case = <<r, i>>
  \/ verdict[<<r, i>>] = "passed"

\* An abort has a reason that is reported, and while there is nothing to report
\* every test case to be tested is on its way or has passed.
Accounted ==
  /\ abortTests => Reported
  /\ \A t \in Tester : tester[t].pc = "abort" => issues > 0
  /\ \A r \in Rule : \A i \in 1 .. NumCases[r] :
       <<r, i>> \in Selected => Reported \/ Tracked(r, i)

LEMMA CasesAreNumbered ==
  ASSUME NEW c PROVE c \in TestCase <=> \E r \in Rule : \E i \in 1 .. NumCases[r] : c = <<r, i>>
  BY DEF TestCase

LEMMA AccountedInit == Init => Accounted
<1> SUFFICES ASSUME Init PROVE Accounted
  OBVIOUS
<1>1. \A r \in Rule : r > taken
  BY RunAssumption DEF Init, Rule
<1> QED
  BY <1>1, Zenon DEF Init, Accounted, Tracked, TesterAt

IInv == Shape /\ Phases /\ Accounted

\* What was to be reported stays so.
LEMMA ReportedStays == Shape /\ Reported /\ [Next]_vars => Reported'
<1> SUFFICES ASSUME Shape, Reported, [Next]_vars PROVE Reported'
  BY Zenon
<1> USE DEF Shape, TypeOK, Reported
<1>1. CASE UNCHANGED vars
  BY <1>1, Zenon DEF vars
<1>2. CASE Main \/ PrinterDone
  BY <1>2, Zenon DEF Main, FeedRule, CloseRules, CloseStates, StopPrinter, Return, PrinterDone
<1>3. ASSUME NEW g \in Generator, Generate(g) PROVE Reported'
  <2>1. UNCHANGED <<issues, tester>> /\ (returnError => returnError')
    BY <1>3, Zenon DEF Generate, ReceiveRule, NoMoreRules, Enumerate, Send, RuleDone, GenerationFails,
                StoreError
  <2>2. CASE StoreError(g)
    BY <2>2, Zenon DEF StoreError
  <2>3. CASE ~StoreError(g)
    <3>1. gen[g].pc # "storeError" /\ \A h \in Generator \ {g} : gen'[h] = gen[h]
      BY <1>3, <2>3, Zenon DEF Generate, ReceiveRule, NoMoreRules, Enumerate, Send, RuleDone,
                        GenerationFails
    <3> QED
      BY <2>1, <3>1, Zenon
  <2> QED
    BY <2>2, <2>3, Zenon
<1>4. ASSUME NEW t \in Tester, TestCases(t) PROVE Reported'
  <2>1. UNCHANGED <<returnError, gen>>
    BY <1>4, Zenon DEF TestCases, ReceiveCase, NoMoreCases, CheckIssues, Test, AddIssue, StoreAbort
  <2>2. CASE AddIssue(t)
    BY <2>2 DEF AddIssue
  <2>3. CASE ~AddIssue(t)
    <3>1. /\ UNCHANGED issues
          /\ tester[t].pc \notin {"issue", "panic"}
          /\ \A u \in Tester \ {t} : tester'[u] = tester[u]
      BY <1>4, <2>3, Zenon DEF TestCases, ReceiveCase, NoMoreCases, CheckIssues, Test, StoreAbort
    <3> QED
      BY <2>1, <3>1, Zenon
  <2> QED
    BY <2>2, <2>3, Zenon
<1> QED
  BY <1>1, <1>2, <1>3, <1>4, Zenon DEF Next

\* While there is nothing to report, a test case moves along the pipeline.
LEMMA TrackedStays ==
  ASSUME Shape, Phases, Accounted, [Next]_vars, ~Reported',
         NEW r \in Rule, NEW i \in 1 .. NumCases[r], <<r, i>> \in Selected, Tracked(r, i)
  PROVE  Tracked(r, i)'
<1> USE DEF Shape, TypeOK, Tracked
<1>0. ~Reported /\ ~abortTests /\ <<r, i>> \in TestCase /\ r \in Nat /\ i \in Nat
  BY ReportedStays, CasesAreNumbered, RunAssumption DEF Accounted, Rule
<1>1. CASE UNCHANGED vars
  BY <1>1, Zenon DEF vars
<1>2. CASE Main \/ PrinterDone
  BY <1>2, Zenon DEF Main, FeedRule, CloseRules, CloseStates, StopPrinter, Return, PrinterDone
<1>3. ASSUME NEW g \in Generator, Generate(g) PROVE Tracked(r, i)'
  <2>1. CASE ReceiveRule(g)
    <3>1. CASE r > taken
      <4>1. CASE r > taken + 1
        BY <2>1, <4>1, Zenon DEF ReceiveRule
      <4>2. CASE r = taken + 1
        BY <1>0, <2>1, <4>2 DEF ReceiveRule
      <4>3. r > taken + 1 \/ r = taken + 1
        <5>1. taken \in Int /\ r \in Int
          BY <1>0
        <5> QED
          BY ONLY <3>1, <5>1
      <4> QED
        BY <4>1, <4>2, <4>3, Zenon
    <3>2. CASE ~(r > taken)
      BY <2>1, <3>2, Zenon DEF ReceiveRule
    <3> QED
      BY <3>1, <3>2, Zenon
  <2>2. CASE NoMoreRules(g)
    BY <2>2, Zenon DEF NoMoreRules
  <2>3. CASE Enumerate(g)
    <3>1. CASE ~fullMode /\ nextCase(g) \in Excluded
      <4>1. gen' = [gen EXCEPT ![g].next = @ + 1]
        BY <1>0, <2>3, <3>1, Zenon DEF Enumerate
      <4>2. ~(gen[g].rule = r /\ gen[g].next = i)
        BY <3>1, Zenon DEF nextCase, Selected
      <4>3. CASE \E h \in Generator : /\ gen[h].pc \in {"enumerate", "send"}
                                     /\ gen[h].rule = r /\ gen[h].next <= i
        <5>1. PICK h \in Generator : /\ gen[h].pc \in {"enumerate", "send"}
                                    /\ gen[h].rule = r /\ gen[h].next <= i
          BY <4>3, Zenon
        <5>2. gen'[h].pc = gen[h].pc /\ gen'[h].rule = gen[h].rule
          BY <4>1, Zenon
        <5>3. gen'[h].next <= i
          <6>1. CASE h = g
            <7>1. gen[g].next \in Nat /\ gen'[g].next = gen[g].next + 1
              BY <4>1, Zenon
            <7>2. gen[g].next <= i /\ gen[g].next # i
              BY <4>2, <5>1, <6>1, Zenon
            <7>3. i \in Nat
              BY <1>0, Zenon
            <7>4. gen[g].next + 1 <= i
              BY ONLY <7>1, <7>2, <7>3
            <7> QED
              BY ONLY <6>1, <7>1, <7>4, Zenon
          <6>2. CASE h # g
            BY <4>1, <5>1, <6>2, Zenon
          <6> QED
            BY <6>1, <6>2, Zenon
        <5> QED
          BY <5>1, <5>2, <5>3, Zenon
      <4>4. CASE ~\E h \in Generator : /\ gen[h].pc \in {"enumerate", "send"}
                                      /\ gen[h].rule = r /\ gen[h].next <= i
        BY <2>3, <4>4, Zenon DEF Enumerate
      <4> QED
        BY <4>3, <4>4, Zenon
    <3>2. CASE ~(~fullMode /\ nextCase(g) \in Excluded)
      <4>1. gen' = [gen EXCEPT ![g].pc = "send"]
        BY <1>0, <2>3, <3>2, Zenon DEF Enumerate
      <4> QED
        BY <1>0, <2>3, <4>1 DEF Enumerate
    <3> QED
      BY <3>1, <3>2, Zenon
  <2>4. CASE Send(g)
    <3>1. CASE gen[g].rule = r /\ gen[g].next = i
      BY <2>4, <3>1, Zenon DEF Send, nextCase
    <3>2. CASE ~(gen[g].rule = r /\ gen[g].next = i)
      BY <1>0, <2>4, <3>2 DEF Send
    <3> QED
      BY <3>1, <3>2, Zenon
  <2>5. CASE RuleDone(g)
    <3>1. ~(gen[g].rule = r /\ gen[g].next <= i)
      <4> SUFFICES ASSUME gen[g].rule = r, gen[g].next <= i PROVE FALSE
        BY Zenon
      <4>1. gen[g].next \in 1 .. NumCases[r]
        BY <1>0, <2>5, RunAssumption DEF Holding, RuleDone
      <4>2. nextCase(g) \in TestCase
        BY <4>1, CasesAreNumbered, Zenon DEF nextCase
      <4> QED
        BY <2>5, <4>2, Zenon DEF RuleDone
    <3> QED
      BY <2>5, <3>1, Zenon DEF RuleDone, Waiting
  <2>6. CASE GenerationFails(g)
    BY <2>6 DEF GenerationFails, Reported
  <2>7. CASE StoreError(g)
    BY <2>7, Zenon DEF StoreError, Reported
  <2> QED
    BY <1>3, <2>1, <2>2, <2>3, <2>4, <2>5, <2>6, <2>7, Zenon DEF Generate
<1>4. ASSUME NEW t \in Tester, TestCases(t) PROVE Tracked(r, i)'
  <2>1. ASSUME NEW c \in TestCase, ReceiveCase(t, c) PROVE Tracked(r, i)'
    BY <2>1, Zenon DEF ReceiveCase
  <2>2. CASE NoMoreCases(t)
    BY <2>2, Zenon DEF NoMoreCases
  <2>3. CASE CheckIssues(t)
    BY <1>0, <2>3, RunAssumption DEF CheckIssues, TesterAt, Reported
  <2>4. ASSUME NEW o \in Outcomes, Test(t, o) PROVE Tracked(r, i)'
    <3>1. ~Failed(o)
      BY <2>4, Zenon DEF Test, TesterAt, Reported, Failed
    <3> QED
      BY <1>0, <2>4, <3>1, Zenon DEF Test, TesterAt
  <2>5. CASE AddIssue(t)
    BY <1>0, <2>5, Zenon DEF AddIssue, Reported
  <2>6. CASE StoreAbort(t)
    BY <1>0, <2>6, Zenon DEF StoreAbort, TesterAt
  <2> QED
    BY <1>4, <2>1, <2>2, <2>3, <2>4, <2>5, <2>6, Zenon DEF TestCases
<1> QED
  BY <1>1, <1>2, <1>3, <1>4, Zenon DEF Next

LEMMA AccountedNext == Shape /\ Phases /\ Accounted /\ [Next]_vars => Accounted'
<1> SUFFICES ASSUME Shape, Phases, Accounted, [Next]_vars PROVE Accounted'
  BY Zenon
<1>1. Reported => Reported'
  BY ReportedStays, Zenon
<1>2. (abortTests => Reported)'
  <2>1. CASE abortTests
    BY <1>1, <2>1, Zenon DEF Accounted
  <2>2. CASE ~abortTests /\ abortTests'
    <3>1. CASE \E g \in Generator : GenerationFails(g)
      BY <3>1 DEF GenerationFails, Waiting, Reported, Shape, TypeOK
    <3>2. CASE \E t \in Tester : StoreAbort(t)
      BY <3>2, Zenon DEF StoreAbort, Accounted, Reported, Shape, TypeOK
    <3>3. (\E g \in Generator : GenerationFails(g)) \/ (\E t \in Tester : StoreAbort(t))
      BY <2>2, Zenon DEF Next, vars, Main, FeedRule, CloseRules, CloseStates, StopPrinter, Return,
                  PrinterDone, Generate, ReceiveRule, NoMoreRules, Enumerate, Send, RuleDone,
                  StoreError, TestCases, ReceiveCase, NoMoreCases, CheckIssues, Test, AddIssue
    <3> QED
      BY <3>1, <3>2, <3>3, Zenon
  <2> QED
    BY <2>1, <2>2, Zenon
<1>3. (\A t \in Tester : tester[t].pc = "abort" => issues > 0)'
  <2>1. CASE UNCHANGED <<tester, issues>>
    BY <2>1, Zenon DEF Accounted
  <2>2. ASSUME NEW t \in Tester, TestCases(t)
        PROVE (\A u \in Tester : tester[u].pc = "abort" => issues > 0)'
    <3> USE DEF Shape, TypeOK, Accounted
    <3>1. ASSUME NEW c \in TestCase, ReceiveCase(t, c)
          PROVE (\A u \in Tester : tester[u].pc = "abort" => issues > 0)'
      BY <3>1, Zenon DEF ReceiveCase
    <3>2. CASE NoMoreCases(t)
      BY <3>2, Zenon DEF NoMoreCases
    <3>3. CASE CheckIssues(t)
      BY <3>3, RunAssumption DEF CheckIssues, TesterAt
    <3>4. ASSUME NEW o \in Outcomes, Test(t, o)
          PROVE (\A u \in Tester : tester[u].pc = "abort" => issues > 0)'
      BY <3>4, Zenon DEF Test, TesterAt, Failed
    <3>5. CASE AddIssue(t)
      BY <3>5 DEF AddIssue
    <3>6. CASE StoreAbort(t)
      BY <3>6, Zenon DEF StoreAbort, TesterAt
    <3> QED
      BY <2>2, <3>1, <3>2, <3>3, <3>4, <3>5, <3>6, Zenon DEF TestCases
  <2>3. UNCHANGED <<tester, issues>> \/ \E t \in Tester : TestCases(t)
    BY Zenon DEF Next, vars, Main, FeedRule, CloseRules, CloseStates, StopPrinter, Return,
           PrinterDone, Generate, ReceiveRule, NoMoreRules, Enumerate, Send, RuleDone,
           GenerationFails, StoreError
  <2> QED
    BY <2>1, <2>2, <2>3, Zenon
<1>4. ASSUME NEW r \in Rule, NEW i \in 1 .. NumCases[r], <<r, i>> \in Selected
      PROVE (Reported \/ Tracked(r, i))'
  BY <1>1, <1>4, TrackedStays, Zenon DEF Accounted
<1>5. Selected' = Selected
  BY Zenon DEF Selected, TestCase
<1> QED
  BY <1>2, <1>3, <1>4, <1>5, Zenon DEF Accounted

\* Success has been earned when everyone is done and nothing is to be reported.
LEMMA DoneMeansTested == IInv => NoSendAfterClose /\ SuccessMeansTested
<1> SUFFICES ASSUME IInv PROVE NoSendAfterClose /\ SuccessMeansTested
  BY Zenon
<1>1. NoSendAfterClose
  BY Zenon DEF IInv, Phases, NoSendAfterClose
<1>2. ASSUME main = "returned", ~returnError, issues = 0, NEW c \in Selected
      PROVE verdict[c] = "passed"
  <2>1. /\ \A g \in Generator : gen[g].pc = "done"
        /\ \A t \in Tester : tester[t].pc = "done"
    BY <1>2, Zenon DEF IInv, Phases
  <2>2. stateChannel = {} /\ taken = NumRules
    <3>1. \E g \in Generator : TRUE
      BY RunAssumption, FS_EmptySet, Zenon
    <3>2. \E t \in Tester : TRUE
      BY RunAssumption, FS_EmptySet, Zenon
    <3> QED
      BY <3>1, <3>2, <2>1, Zenon DEF IInv, Phases
  <2>3. ~Reported
    BY <1>2, <2>1 DEF Reported
  <2>4. PICK r \in Rule : \E i \in 1 .. NumCases[r] : c = <<r, i>>
    BY CasesAreNumbered, Zenon DEF Selected
  <2>5. PICK i \in 1 .. NumCases[r] : c = <<r, i>>
    BY <2>4, Zenon
  <2>6. Tracked(r, i)
    BY <1>2, <2>3, <2>5, Zenon DEF IInv, Accounted
  <2>7. ~(r > taken)
    BY <2>2, RunAssumption DEF Rule
  <2> QED
    BY <2>1, <2>2, <2>5, <2>6, <2>7, Zenon DEF Tracked
<1> QED
  BY <1>1, <1>2, Zenon DEF SuccessMeansTested

\* Every state of the conformance test pipeline (ForEachState with opRun) is well
\* formed, for any number of rules, test cases, workers and places: in particular
\* no channel holds more than it has places for.
THEOREM TypeCorrect == Spec => []TypeOK
<1>1. Shape /\ [Next]_vars => Shape'
  BY ShapeNext, Zenon
<1>2. Shape => TypeOK
  BY Zenon DEF Shape
<1> QED
  BY <1>1, <1>2, ShapeInit, PTL DEF Spec

\* The inductive invariant of the pipeline.
LEMMA Inductive == Spec => []IInv
<1>1. Init => IInv
  BY ShapeInit, PhasesInit, AccountedInit, Zenon DEF IInv
<1>2. IInv /\ [Next]_vars => IInv'
  BY ShapeNext, PhasesNext, AccountedNext, Zenon DEF IInv
<1> QED
  BY <1>1, <1>2, PTL DEF Spec

\* No goroutine of ForEachState sends on a closed channel, for any number of
\* generators and testers.
THEOREM ChannelsCloseInTime == Spec => []NoSendAfterClose
<1>1. IInv => NoSendAfterClose
  BY DoneMeansTested, Zenon
<1> QED
  BY <1>1, Inductive, PTL

\* When "ct run" says that all tests passed, every test case of every rule was
\* tested and passed, for any number of rules, test cases and workers and wherever
\* tests panic, issues reach their limit or the generation of a state fails.
THEOREM SuccessIsEarned == Spec => []SuccessMeansTested
<1>1. IInv => SuccessMeansTested
  BY DoneMeansTested, Zenon
<1> QED
  BY <1>1, Inductive, PTL

-----------------------------------------------------------------------------
(* Every failure is counted, once *)

Enumerating(g) == gen[g].pc \in {"enumerate", "send"}
Working(t) == tester[t].pc \in {"check", "test"}

\* The i-th test case of rule r has not been sent yet.
Ahead(r, i) ==
  \/ r > taken
  \/ \E g \in Generator : Enumerating(g) /\ gen[g].rule = r /\ gen[g].next <= i

\* Nobody tests a test case that another one tests or has tested: generators work
\* on rules of their own, and a test case is ahead, in the channel, with one
\* tester or behind.
Once ==
  /\ \A g \in Generator : Enumerating(g) => gen[g].rule <= taken
  /\ \A g, h \in Generator : Enumerating(g) /\ Enumerating(h) /\ gen[g].rule = gen[h].rule => g = h
  /\ \A r \in Rule : \A i \in 1 .. NumCases[r] : Ahead(r, i) =>
       /\ verdict[<<r, i>>] = "untested" /\ <<r, i>> \notin stateChannel
       /\ \A t \in Tester : ~(Working(t) /\ tester[t].case = <<r, i>>)
  /\ \A c \in stateChannel : verdict[c] = "untested"
  /\ \A t \in Tester : Working(t) =>
       verdict[tester[t].case] = "untested" /\ tester[t].case \notin stateChannel
  /\ \A t, u \in Tester : Working(t) /\ Working(u) /\ tester[t].case = tester[u].case => t = u

FailedCases == {c \in TestCase : verdict[c] = "failed"}
Unreported == {t \in Tester : tester[t].pc \in {"issue", "panic"}}

\* The failures are the issues that were collected and those about to be.
Counted ==
  /\ IsFiniteSet(FailedCases)
  /\ issues + Cardinality(Unreported) = Cardinality(FailedCases)

\* Those who may still add an issue without looking at their number again.
Late == {t \in Tester : tester[t].pc \in {"test", "issue", "panic"}}
Bounded == issues + Cardinality(Late) < maxErrors + numJobs

LEMMA OnceInit == Init => Once
<1> SUFFICES ASSUME Init PROVE Once
  OBVIOUS
<1>1. \A r \in Rule : \A i \in 1 .. NumCases[r] : verdict[<<r, i>>] = "untested"
  BY CasesAreNumbered, Zenon DEF Init
<1> QED
  BY <1>1, Zenon DEF Init, Once, Enumerating, Working, Waiting, TesterAt

\* The steps that neither hand over a test case nor judge one.
LEMMA OnceKept ==
  ASSUME Shape, Once, UNCHANGED <<taken, stateChannel, verdict>>,
         \A g \in Generator : Enumerating(g)' =>
           Enumerating(g) /\ gen'[g].rule = gen[g].rule /\ gen[g].next <= gen'[g].next
           /\ gen'[g].next \in Nat,
         \A t \in Tester : Working(t)' => Working(t) /\ tester'[t].case = tester[t].case
  PROVE  Once'
<1>1. ASSUME NEW r \in Rule, NEW i \in 1 .. NumCases[r], Ahead(r, i)' PROVE Ahead(r, i)
  <2>1. CASE r > taken
    BY <2>1, Zenon DEF Ahead
  <2>2. CASE ~(r > taken)
    <3>1. PICK g \in Generator : Enumerating(g)' /\ gen'[g].rule = r /\ gen'[g].next <= i
      BY <1>1, <2>2, Zenon DEF Ahead
    <3>2. Enumerating(g) /\ gen[g].rule = r /\ gen[g].next <= gen'[g].next
      BY <3>1, Zenon
    <3>3. gen[g].next <= i
      <4>1. gen[g].next \in Nat /\ gen'[g].next \in Nat /\ i \in Nat
        BY <3>1, RunAssumption DEF Shape, TypeOK
      <4> QED
        BY <3>1, <3>2, <4>1
    <3> QED
      BY <3>2, <3>3, Zenon DEF Ahead
  <2> QED
    BY <2>1, <2>2, Zenon
<1>2. (\A g \in Generator : Enumerating(g) => gen[g].rule <= taken)'
  BY Zenon DEF Once
<1>3. (\A g, h \in Generator : Enumerating(g) /\ Enumerating(h) /\ gen[g].rule = gen[h].rule => g = h)'
  BY Zenon DEF Once
<1>4. (\A r \in Rule : \A i \in 1 .. NumCases[r] : Ahead(r, i) =>
         /\ verdict[<<r, i>>] = "untested" /\ <<r, i>> \notin stateChannel
         /\ \A t \in Tester : ~(Working(t) /\ tester[t].case = <<r, i>>))'
  <2> SUFFICES ASSUME NEW r \in Rule, NEW i \in 1 .. NumCases[r], Ahead(r, i)'
               PROVE  /\ verdict'[<<r, i>>] = "untested" /\ <<r, i>> \notin stateChannel'
                      /\ \A t \in Tester : ~(Working(t)' /\ tester'[t].case = <<r, i>>)
    BY Zenon
  <2>1. Ahead(r, i)
    BY <1>1, Zenon
  <2> QED
    BY <2>1 DEF Once
<1>5. (\A c \in stateChannel : verdict[c] = "untested")'
  BY Zenon DEF Once
<1>6. (\A t \in Tester : Working(t) =>
         verdict[tester[t].case] = "untested" /\ tester[t].case \notin stateChannel)'
  BY Zenon DEF Once
<1>7. (\A t, u \in Tester : Working(t) /\ Working(u) /\ tester[t].case = tester[u].case => t = u)'
  BY Zenon DEF Once
<1> QED
  BY <1>2, <1>3, <1>4, <1>5, <1>6, <1>7, Zenon DEF Once

\* A rule that was received is nobody else's, and its test cases were ahead before.
LEMMA OnceReceiveRule ==
  ASSUME Shape, Once, NEW g \in Generator, ReceiveRule(g)
  PROVE  Once'
<1>1. /\ taken \in Nat /\ taken' = taken + 1 /\ UNCHANGED <<stateChannel, tester, verdict>>
      /\ gen[g].pc = "recv"
  BY RunAssumption DEF ReceiveRule, Shape, TypeOK
<1>2. \A h \in Generator \ {g} : gen'[h] = gen[h]
  BY DEF ReceiveRule
<1>3. Enumerating(g)' => gen'[g].rule = taken + 1
  BY <1>1, Zenon DEF ReceiveRule, Enumerating, Shape, TypeOK
<1>4. ASSUME NEW h \in Generator, h # g, Enumerating(h)'
      PROVE  Enumerating(h) /\ gen'[h] = gen[h] /\ gen[h].rule <= taken /\ gen[h].rule \in Nat
  <2>1. Enumerating(h) /\ gen'[h] = gen[h]
    BY <1>2, <1>4, Zenon DEF Enumerating
  <2> QED
    BY <1>4, <2>1, Zenon DEF Once, Shape, TypeOK
<1>5. ASSUME NEW r \in Rule, NEW i \in 1 .. NumCases[r], Ahead(r, i)' PROVE Ahead(r, i)
  <2>1. r \in Nat
    BY RunAssumption DEF Rule
  <2>2. CASE r > taken + 1
    BY <1>1, <2>1, <2>2 DEF Ahead
  <2>3. CASE ~(r > taken + 1)
    <3>1. PICK h \in Generator : Enumerating(h)' /\ gen'[h].rule = r /\ gen'[h].next <= i
      BY <1>1, <1>5, <2>3, Zenon DEF Ahead
    <3>2. CASE h = g
      BY <1>1, <1>3, <2>1, <3>1, <3>2 DEF Ahead
    <3>3. CASE h # g
      BY <1>4, <3>1, <3>3, Zenon DEF Ahead
    <3> QED
      BY <3>2, <3>3, Zenon
  <2> QED
    BY <2>2, <2>3, Zenon
<1>6. (\A h \in Generator : Enumerating(h) => gen[h].rule <= taken)'
  <2> SUFFICES ASSUME NEW h \in Generator, Enumerating(h)' PROVE gen'[h].rule <= taken + 1
    BY <1>1, Zenon
  <2>1. CASE h = g
    BY <1>1, <1>3, <2>1
  <2>2. CASE h # g
    BY <1>1, <1>4, <2>2
  <2> QED
    BY <2>1, <2>2, Zenon
<1>7. (\A h, k \in Generator : Enumerating(h) /\ Enumerating(k) /\ gen[h].rule = gen[k].rule => h = k)'
  <2> SUFFICES ASSUME NEW h \in Generator, NEW k \in Generator, Enumerating(h)', Enumerating(k)',
                      gen'[h].rule = gen'[k].rule
               PROVE  h = k
    BY Zenon
  <2>1. CASE h # g /\ k # g
    BY <1>4, <2>1, Zenon DEF Once
  <2>2. CASE h = g /\ k # g
    BY <1>1, <1>3, <1>4, <2>2
  <2>3. CASE h # g /\ k = g
    BY <1>1, <1>3, <1>4, <2>3
  <2> QED
    BY <2>1, <2>2, <2>3, Zenon
<1>8. (\A r \in Rule : \A i \in 1 .. NumCases[r] : Ahead(r, i) =>
         /\ verdict[<<r, i>>] = "untested" /\ <<r, i>> \notin stateChannel
         /\ \A t \in Tester : ~(Working(t) /\ tester[t].case = <<r, i>>))'
  <2> SUFFICES ASSUME NEW r \in Rule, NEW i \in 1 .. NumCases[r], Ahead(r, i)'
               PROVE  /\ verdict'[<<r, i>>] = "untested" /\ <<r, i>> \notin stateChannel'
                      /\ \A t \in Tester : ~(Working(t)' /\ tester'[t].case = <<r, i>>)
    BY Zenon
  <2>1. Ahead(r, i)
    BY <1>5, Zenon
  <2> QED
    BY <1>1, <2>1, Zenon DEF Once, Working
<1> QED
  BY <1>1, <1>6, <1>7, <1>8, Zenon DEF Once, Working

\* The test case a generator sends was ahead before and is not any more.
LEMMA OnceSend ==
  ASSUME Shape, Once, NEW g \in Generator, Send(g)
  PROVE  Once'
<1> DEFINE r0 == gen[g].rule
           i0 == gen[g].next
<1>1. /\ UNCHANGED <<taken, tester, verdict>> /\ stateChannel' = stateChannel \cup {<<r0, i0>>}
      /\ gen[g].pc = "send" /\ Enumerating(g) /\ taken \in Nat
  BY RunAssumption DEF Send, nextCase, Enumerating, Shape, TypeOK
<1>2. r0 \in Rule /\ i0 \in 1 .. NumCases[r0] /\ <<r0, i0>> \in TestCase
  <2>1. <<r0, i0>> \in TestCase
    BY <1>1, Zenon DEF Shape, Holding, nextCase
  <2>2. PICK r \in Rule : \E i \in 1 .. NumCases[r] : <<r0, i0>> = <<r, i>>
    BY <2>1, CasesAreNumbered, Zenon
  <2> QED
    BY <2>1, <2>2, Zenon
<1>3. r0 \in Nat /\ i0 \in Nat /\ r0 <= taken
  BY <1>1, Zenon DEF Shape, TypeOK, Once
<1>4. /\ \A h \in Generator \ {g} : gen'[h] = gen[h]
      /\ gen'[g].rule = r0 /\ gen'[g].next = i0 + 1
  BY Zenon DEF Send, Shape, TypeOK
<1>5. Ahead(r0, i0)
  BY <1>1, <1>3 DEF Ahead
<1>6. /\ verdict[<<r0, i0>>] = "untested"
      /\ \A t \in Tester : ~(Working(t) /\ tester[t].case = <<r0, i0>>)
  BY <1>2, <1>5, Zenon DEF Once
<1>7. \A h \in Generator : Enumerating(h)' => Enumerating(h) /\ gen'[h].rule = gen[h].rule
  BY <1>1, <1>4, Zenon DEF Enumerating
<1> HIDE DEF r0, i0
<1>8. ASSUME NEW r \in Rule, NEW i \in 1 .. NumCases[r], Ahead(r, i)'
      PROVE  Ahead(r, i) /\ <<r, i>> # <<r0, i0>>
  <2>1. r \in Nat /\ i \in Nat
    BY RunAssumption DEF Rule
  <2>2. CASE r > taken
    BY <1>3, <2>1, <2>2, <1>1 DEF Ahead
  <2>3. CASE ~(r > taken)
    <3>1. PICK h \in Generator : Enumerating(h)' /\ gen'[h].rule = r /\ gen'[h].next <= i
      BY <1>1, <1>8, <2>3, Zenon DEF Ahead
    <3>2. CASE h = g
      <4>1. r = r0 /\ i0 + 1 <= i
        BY <1>4, <3>1, <3>2, Zenon
      <4>2. gen[g].rule = r /\ gen[g].next <= i /\ i0 # i
        BY <1>3, <2>1, <4>1 DEF r0, i0
      <4> QED
        BY <1>1, <4>2, Zenon DEF Ahead
    <3>3. CASE h # g
      <4>1. Enumerating(h) /\ gen[h].rule = r /\ gen[h].next <= i
        BY <1>4, <1>7, <3>1, <3>3, Zenon
      <4>2. r # r0
        BY <1>1, <3>3, <4>1, Zenon DEF Once, r0
      <4> QED
        BY <4>1, <4>2, Zenon DEF Ahead
    <3> QED
      BY <3>2, <3>3, Zenon
  <2> QED
    BY <2>2, <2>3, Zenon
<1>9. (\A h \in Generator : Enumerating(h) => gen[h].rule <= taken)'
  BY <1>1, <1>7, Zenon DEF Once
<1>10. (\A h, k \in Generator : Enumerating(h) /\ Enumerating(k) /\ gen[h].rule = gen[k].rule => h = k)'
  BY <1>7, Zenon DEF Once
<1>11. (\A r \in Rule : \A i \in 1 .. NumCases[r] : Ahead(r, i) =>
         /\ verdict[<<r, i>>] = "untested" /\ <<r, i>> \notin stateChannel
         /\ \A t \in Tester : ~(Working(t) /\ tester[t].case = <<r, i>>))'
  <2> SUFFICES ASSUME NEW r \in Rule, NEW i \in 1 .. NumCases[r], Ahead(r, i)'
               PROVE  /\ verdict'[<<r, i>>] = "untested" /\ <<r, i>> \notin stateChannel'
                      /\ \A t \in Tester : ~(Working(t)' /\ tester'[t].case = <<r, i>>)
    OBVIOUS
  <2>1. Ahead(r, i) /\ <<r, i>> # <<r0, i0>>
    BY <1>8, Zenon
  <2>2. /\ verdict[<<r, i>>] = "untested" /\ <<r, i>> \notin stateChannel
        /\ \A t \in Tester : ~(Working(t) /\ tester[t].case = <<r, i>>)
    BY <2>1, Zenon DEF Once
  <2> QED
    BY <1>1, <2>1, <2>2, Zenon DEF Working
<1>12. (\A c \in stateChannel : verdict[c] = "untested")'
  BY <1>1, <1>6, Zenon DEF Once
<1>13. (\A t \in Tester : Working(t) =>
         verdict[tester[t].case] = "untested" /\ tester[t].case \notin stateChannel)'
  BY <1>1, <1>6, Zenon DEF Once, Working
<1>14. (\A t, u \in Tester : Working(t) /\ Working(u) /\ tester[t].case = tester[u].case => t = u)'
  BY <1>1, Zenon DEF Once, Working
<1> QED
  BY <1>9, <1>10, <1>11, <1>12, <1>13, <1>14, Zenon DEF Once

\* What the testers do does not concern the generators.
LEMMA AheadKept ==
  ASSUME UNCHANGED <<taken, gen>>, NEW r, NEW i
  PROVE  Ahead(r, i)' <=> Ahead(r, i)
BY Zenon DEF Ahead, Enumerating

LEMMA OnceReceiveCase ==
  ASSUME Shape, Once, NEW t \in Tester, NEW c \in TestCase, ReceiveCase(t, c)
  PROVE  Once'
<1>1. /\ UNCHANGED <<taken, gen, verdict>> /\ stateChannel' = stateChannel \ {c} /\ c \in stateChannel
      /\ tester' = [tester EXCEPT ![t] = [pc |-> "check", case |-> c]]
      /\ tester \in [Tester -> [pc : {"recv", "check", "test", "issue", "panic", "abort", "done"},
                                case : TestCase \cup {NoCase}]]
  BY Zenon DEF ReceiveCase, Shape, TypeOK
<1>2. tester'[t].case = c /\ \A u \in Tester \ {t} : tester'[u] = tester[u]
  BY <1>1, Zenon
<1>3. verdict[c] = "untested" /\ \A u \in Tester : Working(u) => tester[u].case # c
  BY <1>1, Zenon DEF Once
<1>4. \A u \in Tester \ {t} : Working(u)' => Working(u) /\ tester'[u].case = tester[u].case
                                            /\ tester'[u].case # c
  BY <1>2, <1>3, Zenon DEF Working
<1>5. (\A r \in Rule : \A i \in 1 .. NumCases[r] : Ahead(r, i) =>
         /\ verdict[<<r, i>>] = "untested" /\ <<r, i>> \notin stateChannel
         /\ \A u \in Tester : ~(Working(u) /\ tester[u].case = <<r, i>>))'
  <2> SUFFICES ASSUME NEW r \in Rule, NEW i \in 1 .. NumCases[r], Ahead(r, i)'
               PROVE  /\ verdict'[<<r, i>>] = "untested" /\ <<r, i>> \notin stateChannel'
                      /\ \A u \in Tester : ~(Working(u)' /\ tester'[u].case = <<r, i>>)
    BY Zenon
  <2>1. /\ verdict[<<r, i>>] = "untested" /\ <<r, i>> \notin stateChannel
        /\ \A u \in Tester : ~(Working(u) /\ tester[u].case = <<r, i>>)
    BY <1>1, AheadKept, Zenon DEF Once
  <2>2. c # <<r, i>>
    BY <1>1, <2>1, Zenon
  <2> QED
    BY <1>1, <1>2, <1>4, <2>1, <2>2, Zenon
<1>6. (\A u \in Tester : Working(u) =>
         verdict[tester[u].case] = "untested" /\ tester[u].case \notin stateChannel)'
  <2> SUFFICES ASSUME NEW u \in Tester, Working(u)'
               PROVE  verdict'[tester'[u].case] = "untested" /\ tester'[u].case \notin stateChannel'
    BY Zenon
  <2>1. CASE u = t
    BY <1>1, <1>2, <1>3, <2>1, Zenon
  <2>2. CASE u # t
    BY <1>1, <1>4, <2>2, Zenon DEF Once
  <2> QED
    BY <2>1, <2>2, Zenon
<1>7. (\A u, v \in Tester : Working(u) /\ Working(v) /\ tester[u].case = tester[v].case => u = v)'
  <2> SUFFICES ASSUME NEW u \in Tester, NEW v \in Tester, Working(u)', Working(v)',
                      tester'[u].case = tester'[v].case
               PROVE  u = v
    BY Zenon
  <2>1. CASE u # t /\ v # t
    BY <1>4, <2>1, Zenon DEF Once
  <2>2. CASE (u = t) # (v = t)
    BY <1>2, <1>4, <2>2, Zenon
  <2> QED
    BY <2>1, <2>2, Zenon
<1>8. (\A g \in Generator : Enumerating(g) => gen[g].rule <= taken)'
  BY <1>1, Zenon DEF Once, Enumerating
<1>9. (\A g, h \in Generator : Enumerating(g) /\ Enumerating(h) /\ gen[g].rule = gen[h].rule => g = h)'
  BY <1>1, Zenon DEF Once, Enumerating
<1>10. (\A d \in stateChannel : verdict[d] = "untested")'
  BY <1>1, Zenon DEF Once
<1> QED
  BY <1>5, <1>6, <1>7, <1>8, <1>9, <1>10, Zenon DEF Once

LEMMA OnceTest ==
  ASSUME Shape, Once, NEW t \in Tester, NEW o \in Outcomes, Test(t, o)
  PROVE  Once'
<1> DEFINE c == tester[t].case
<1>1. /\ UNCHANGED <<taken, gen, stateChannel>>
      /\ tester' = [tester EXCEPT ![t] = TesterAt(IF Failed(o) THEN o ELSE "recv")]
      /\ verdict' = [verdict EXCEPT ![c] = IF Failed(o) THEN "failed" ELSE "passed"]
      /\ tester[t].pc = "test" /\ Working(t)
  BY Zenon DEF Test, Working
<1>2. \A u \in Tester : Working(u)' => u # t /\ Working(u) /\ tester'[u] = tester[u]
  BY <1>1, Zenon DEF Working, TesterAt, Failed, Shape, TypeOK
<1>3. \A u \in Tester : Working(u)' => tester[u].case # c
  BY <1>1, <1>2, Zenon DEF Once
<1>4. \A d \in TestCase : d # c => verdict'[d] = verdict[d]
  BY <1>1, Zenon DEF Shape, TypeOK
<1>5. c \notin stateChannel
  BY <1>1, Zenon DEF Once
<1> HIDE DEF c
<1>6. (\A r \in Rule : \A i \in 1 .. NumCases[r] : Ahead(r, i) =>
         /\ verdict[<<r, i>>] = "untested" /\ <<r, i>> \notin stateChannel
         /\ \A u \in Tester : ~(Working(u) /\ tester[u].case = <<r, i>>))'
  <2> SUFFICES ASSUME NEW r \in Rule, NEW i \in 1 .. NumCases[r], Ahead(r, i)'
               PROVE  /\ verdict'[<<r, i>>] = "untested" /\ <<r, i>> \notin stateChannel'
                      /\ \A u \in Tester : ~(Working(u)' /\ tester'[u].case = <<r, i>>)
    BY Zenon
  <2>1. /\ verdict[<<r, i>>] = "untested" /\ <<r, i>> \notin stateChannel
        /\ \A u \in Tester : ~(Working(u) /\ tester[u].case = <<r, i>>)
    BY <1>1, AheadKept, Zenon DEF Once
  <2>2. <<r, i>> \in TestCase /\ <<r, i>> # c
    BY <1>1, <2>1, CasesAreNumbered, Zenon DEF c
  <2> QED
    BY <1>1, <1>2, <1>4, <2>1, <2>2, Zenon
<1>7. (\A d \in stateChannel : verdict[d] = "untested")'
  BY <1>1, <1>4, <1>5, Zenon DEF Once, Shape, TypeOK
<1>8. (\A u \in Tester : Working(u) =>
         verdict[tester[u].case] = "untested" /\ tester[u].case \notin stateChannel)'
  <2> SUFFICES ASSUME NEW u \in Tester, Working(u)'
               PROVE  verdict'[tester'[u].case] = "untested" /\ tester'[u].case \notin stateChannel'
    BY Zenon
  <2>1. Working(u) /\ tester'[u] = tester[u] /\ tester[u].case # c
    BY <1>2, <1>3, Zenon
  <2>2. tester[u].case \in TestCase
    BY <2>1, Zenon DEF Shape, Holding, Working
  <2> QED
    BY <1>1, <1>4, <2>1, <2>2 DEF Once
<1>9. (\A u, v \in Tester : Working(u) /\ Working(v) /\ tester[u].case = tester[v].case => u = v)'
  BY <1>2, Zenon DEF Once
<1>10. (\A g \in Generator : Enumerating(g) => gen[g].rule <= taken)'
  BY <1>1, Zenon DEF Once, Enumerating
<1>11. (\A g, h \in Generator : Enumerating(g) /\ Enumerating(h) /\ gen[g].rule = gen[h].rule => g = h)'
  BY <1>1, Zenon DEF Once, Enumerating
<1> QED
  BY <1>6, <1>7, <1>8, <1>9, <1>10, <1>11, Zenon DEF Once

LEMMA OnceNext == Shape /\ Once /\ [Next]_vars => Once'
<1> SUFFICES ASSUME Shape, Once, [Next]_vars PROVE Once'
  OBVIOUS
<1>0. \A g \in Generator : gen[g].next \in Nat
  BY Zenon DEF Shape, TypeOK
<1>1. ASSUME UNCHANGED <<taken, gen, stateChannel, tester, verdict>> PROVE Once'
  <2>1. /\ \A g \in Generator : Enumerating(g)' => Enumerating(g) /\ gen'[g] = gen[g]
        /\ \A t \in Tester : Working(t)' => Working(t) /\ tester'[t] = tester[t]
    BY <1>1, Zenon DEF Enumerating, Working
  <2> QED
    BY <1>0, <1>1, <2>1, OnceKept
<1>2. CASE UNCHANGED vars \/ Main \/ PrinterDone
  BY <1>1, <1>2, Zenon DEF vars, Main, FeedRule, CloseRules, CloseStates, StopPrinter, Return, PrinterDone
<1>3. ASSUME NEW g \in Generator, Generate(g) PROVE Once'
  <2>1. ASSUME UNCHANGED <<taken, stateChannel, verdict, tester>>,
               \A h \in Generator \ {g} : gen'[h] = gen[h],
               Enumerating(g)' => /\ Enumerating(g) /\ gen'[g].rule = gen[g].rule
                                  /\ gen[g].next <= gen'[g].next /\ gen'[g].next \in Nat
        PROVE  Once'
    <3>1. \A h \in Generator : Enumerating(h)' =>
            Enumerating(h) /\ gen'[h].rule = gen[h].rule /\ gen[h].next <= gen'[h].next
            /\ gen'[h].next \in Nat
      <4> SUFFICES ASSUME NEW h \in Generator, h # g, Enumerating(h)'
                   PROVE  Enumerating(h) /\ gen'[h].rule = gen[h].rule /\ gen[h].next <= gen'[h].next
                          /\ gen'[h].next \in Nat
        BY <2>1, Zenon
      <4>1. gen'[h] = gen[h]
        BY <2>1, Zenon
      <4> QED
        BY <1>0, <4>1 DEF Enumerating
    <3>2. \A t \in Tester : Working(t)' => Working(t) /\ tester'[t].case = tester[t].case
      BY <2>1, Zenon DEF Working
    <3> QED
      BY <2>1, <3>1, <3>2, OnceKept, Zenon
  <2> USE DEF Shape, TypeOK
  <2>2. CASE NoMoreRules(g)
    BY <2>1, <2>2, Zenon DEF NoMoreRules, Enumerating
  <2>3. CASE Enumerate(g)
    <3>1. /\ UNCHANGED <<taken, stateChannel, verdict, tester>>
          /\ \A h \in Generator \ {g} : gen'[h] = gen[h]
          /\ Enumerating(g)
      BY <2>3, Zenon DEF Enumerate, Enumerating
    <3>2. Enumerating(g)' => /\ gen'[g].rule = gen[g].rule
                             /\ gen[g].next <= gen'[g].next /\ gen'[g].next \in Nat
      <4>1. CASE abortTests
        BY <2>3, <4>1, Zenon DEF Enumerate, Enumerating, Waiting
      <4>2. CASE ~abortTests /\ ~fullMode /\ nextCase(g) \in Excluded
        BY <1>0, <2>3, <4>2 DEF Enumerate
      <4>3. CASE ~abortTests /\ ~(~fullMode /\ nextCase(g) \in Excluded)
        BY <1>0, <2>3, <4>3 DEF Enumerate
      <4> QED
        BY <4>1, <4>2, <4>3, Zenon
    <3> QED
      BY <2>1, <3>1, <3>2, Zenon
  <2>4. CASE RuleDone(g)
    BY <2>1, <2>4, Zenon DEF RuleDone, Enumerating, Waiting
  <2>5. CASE GenerationFails(g)
    BY <2>1, <2>5, Zenon DEF GenerationFails, Enumerating, Waiting
  <2>6. CASE StoreError(g)
    BY <2>1, <2>6, Zenon DEF StoreError, Enumerating
  <2> QED
    BY <1>3, <2>2, <2>3, <2>4, <2>5, <2>6, OnceReceiveRule, OnceSend, Zenon DEF Generate
<1>4. ASSUME NEW t \in Tester, TestCases(t) PROVE Once'
  <2>1. ASSUME UNCHANGED <<taken, stateChannel, verdict, gen>>,
               \A u \in Tester \ {t} : tester'[u] = tester[u],
               Working(t)' => Working(t) /\ tester'[t].case = tester[t].case
        PROVE  Once'
    <3>1. \A h \in Generator : Enumerating(h)' => Enumerating(h) /\ gen'[h] = gen[h]
      BY <2>1, Zenon DEF Enumerating
    <3>2. \A u \in Tester : Working(u)' => Working(u) /\ tester'[u].case = tester[u].case
      BY <2>1, Zenon DEF Working
    <3> QED
      BY <1>0, <2>1, <3>1, <3>2, OnceKept
  <2> USE DEF Shape, TypeOK
  <2>2. CASE NoMoreCases(t)
    BY <2>1, <2>2, Zenon DEF NoMoreCases, Working
  <2>3. CASE CheckIssues(t)
    BY <2>1, <2>3, Zenon DEF CheckIssues, Working, TesterAt
  <2>4. CASE AddIssue(t)
    BY <2>1, <2>4, Zenon DEF AddIssue, Working, TesterAt
  <2>5. CASE StoreAbort(t)
    BY <2>1, <2>5, Zenon DEF StoreAbort, Working, TesterAt
  <2> QED
    BY <1>4, <2>2, <2>3, <2>4, <2>5, OnceReceiveCase, OnceTest, Zenon DEF TestCases
<1> QED
  BY <1>2, <1>3, <1>4, Zenon DEF Next

LEMMA TesterSets ==
  ASSUME NEW S \in SUBSET Tester
  PROVE  IsFiniteSet(S) /\ Cardinality(S) \in Nat /\ Cardinality(S) <= numJobs
BY RunAssumption, FS_Subset, FS_CardinalityType

LEMMA CountsInit == Init => Counted /\ Bounded
<1> SUFFICES ASSUME Init PROVE Counted /\ Bounded
  BY Zenon
<1>1. FailedCases = {} /\ Unreported = {} /\ Late = {}
  BY Zenon DEF Init, FailedCases, Unreported, Late, TesterAt
<1> QED
  BY <1>1, FS_EmptySet, RunAssumption DEF Init, Counted, Bounded

LEMMA CountsNext ==
  ASSUME Shape, Once, Counted, Bounded, [Next]_vars
  PROVE  Counted' /\ Bounded'
<1> USE DEF Shape, TypeOK
<1>1. ASSUME issues' = issues, FailedCases' = FailedCases, Unreported' = Unreported, Late' = Late
      PROVE  Counted' /\ Bounded'
  BY <1>1, Zenon DEF Counted, Bounded
<1>2. ASSUME UNCHANGED <<tester, issues, verdict>> PROVE Counted' /\ Bounded'
  BY <1>1, <1>2, Zenon DEF FailedCases, Unreported, Late
<1>3. CASE UNCHANGED vars \/ Main \/ PrinterDone
  BY <1>2, <1>3, Zenon DEF vars, Main, FeedRule, CloseRules, CloseStates, StopPrinter, Return, PrinterDone
<1>4. ASSUME NEW g \in Generator, Generate(g) PROVE Counted' /\ Bounded'
  BY <1>2, <1>4, Zenon DEF Generate, ReceiveRule, NoMoreRules, Enumerate, Send, RuleDone, GenerationFails,
                    StoreError
<1>5. ASSUME NEW t \in Tester, TestCases(t) PROVE Counted' /\ Bounded'
  <2>1. /\ Unreported \in SUBSET Tester /\ Late \in SUBSET Tester
        /\ Unreported' \in SUBSET Tester /\ Late' \in SUBSET Tester
    BY Zenon DEF Unreported, Late
  <2>2. /\ IsFiniteSet(Unreported) /\ Cardinality(Unreported) \in Nat
        /\ IsFiniteSet(Late) /\ Cardinality(Late) \in Nat
        /\ Cardinality(Late') \in Nat /\ Cardinality(Late') <= numJobs
    BY <2>1, TesterSets, Zenon
  <2>3. ASSUME UNCHANGED <<issues, verdict>>,
               \A u \in Tester \ {t} : tester'[u] = tester[u],
               tester[t].pc \notin {"test", "issue", "panic"},
               tester'[t].pc \notin {"test", "issue", "panic"}
        PROVE  Counted' /\ Bounded'
    BY <1>1, <2>3 DEF FailedCases, Unreported, Late
  <2>4. ASSUME NEW c \in TestCase, ReceiveCase(t, c) PROVE Counted' /\ Bounded'
    BY <2>3, <2>4, Zenon DEF ReceiveCase
  <2>5. CASE NoMoreCases(t)
    BY <2>3, <2>5, Zenon DEF NoMoreCases
  <2>6. CASE StoreAbort(t)
    BY <2>3, <2>6, Zenon DEF StoreAbort, TesterAt
  <2>7. CASE CheckIssues(t)
    <3>1. CASE issues >= maxErrors
      BY <2>3, <2>7, <3>1, Zenon DEF CheckIssues, TesterAt
    <3>2. CASE ~(issues >= maxErrors)
      <4>1. UNCHANGED <<issues, verdict>> /\ Unreported' = Unreported
        BY <2>7, <3>2, Zenon DEF CheckIssues, Unreported
      <4>2. Counted'
        BY <4>1, Zenon DEF Counted, FailedCases
      <4>3. Bounded'
        BY <2>2, <3>2, <4>1, RunAssumption DEF Bounded
      <4> QED
        BY <4>2, <4>3, Zenon
    <3> QED
      BY <3>1, <3>2, Zenon
  <2>8. ASSUME NEW o \in Outcomes, Test(t, o) PROVE Counted' /\ Bounded'
    <3> DEFINE c == tester[t].case
    <3>1. /\ issues' = issues /\ tester[t].pc = "test"
          /\ tester' = [tester EXCEPT ![t] = TesterAt(IF Failed(o) THEN o ELSE "recv")]
          /\ verdict' = [verdict EXCEPT ![c] = IF Failed(o) THEN "failed" ELSE "passed"]
      BY <2>8, Zenon DEF Test
    <3>2. c \in TestCase /\ verdict[c] = "untested" /\ t \in Late /\ t \notin Unreported
          /\ c \notin FailedCases
      BY <3>1, Zenon DEF Holding, Once, Working, Late, Unreported, FailedCases
    <3>3. CASE Failed(o)
      <4>1. Unreported' = Unreported \cup {t} /\ Late' = Late
        BY <3>1, <3>3, Zenon DEF Unreported, Late, Failed, TesterAt
      <4>2. FailedCases' = FailedCases \cup {c}
        BY <3>1, <3>2, <3>3, Zenon DEF FailedCases
      <4> HIDE DEF c
      <4>3. /\ Cardinality(Unreported') = Cardinality(Unreported) + 1
            /\ IsFiniteSet(FailedCases')
            /\ Cardinality(FailedCases') = Cardinality(FailedCases) + 1
        BY <2>2, <3>2, <4>1, <4>2, FS_AddElement, Zenon DEF Counted
      <4>4. Cardinality(FailedCases) \in Nat
        BY FS_CardinalityType, Zenon DEF Counted
      <4>5. Counted'
        BY <2>2, <3>1, <4>3, <4>4 DEF Counted
      <4> QED
        BY <3>1, <4>1, <4>5, Zenon DEF Bounded
    <3>4. CASE ~Failed(o)
      <4>1. Unreported' = Unreported /\ Late' = Late \ {t}
        BY <3>1, <3>2, <3>4, Zenon DEF Unreported, Late, TesterAt
      <4>2. FailedCases' = FailedCases
        BY <3>1, <3>2, <3>4, Zenon DEF FailedCases
      <4>3. Cardinality(Late') = Cardinality(Late) - 1
        BY <2>2, <3>2, <4>1, FS_RemoveElement, Zenon
      <4>4. Counted'
        BY <3>1, <4>1, <4>2, Zenon DEF Counted
      <4>5. Bounded'
        BY <2>2, <3>1, <4>3, RunAssumption DEF Bounded
      <4> QED
        BY <4>4, <4>5, Zenon
    <3> QED
      BY <3>3, <3>4, Zenon
  <2>9. CASE AddIssue(t)
    <3>1. issues' = issues + 1 /\ t \in Unreported /\ t \in Late /\ verdict' = verdict
      BY <2>9, Zenon DEF AddIssue, Unreported, Late
    <3>2. Unreported' = Unreported \ {t} /\ Late' = Late \ {t} /\ FailedCases' = FailedCases
      BY <2>9, Zenon DEF AddIssue, Unreported, Late, FailedCases, TesterAt
    <3>3. Cardinality(Unreported') = Cardinality(Unreported) - 1
          /\ Cardinality(Late') = Cardinality(Late) - 1
      BY <2>2, <3>1, <3>2, FS_RemoveElement, Zenon
    <3>4. Counted'
      BY <2>2, <3>1, <3>2, <3>3 DEF Counted
    <3>5. Bounded'
      BY <2>2, <3>1, <3>3, RunAssumption DEF Bounded
    <3> QED
      BY <3>4, <3>5
  <2> QED
    BY <1>5, <2>4, <2>5, <2>6, <2>7, <2>8, <2>9, Zenon DEF TestCases
<1> QED
  BY <1>3, <1>4, <1>5, Zenon DEF Next

LEMMA CountsInductive == Spec => [](Once /\ Counted /\ Bounded)
<1>1. Init => Once /\ Counted /\ Bounded
  BY OnceInit, CountsInit, Zenon
<1>2. Shape /\ (Once /\ Counted /\ Bounded) /\ [Next]_vars => (Once /\ Counted /\ Bounded)'
  BY OnceNext, CountsNext, Zenon
<1>3. IInv => Shape
  BY Zenon DEF IInv
<1> QED
  BY <1>1, <1>2, <1>3, Inductive, PTL DEF Spec

\* When ForEachState returns, AddIssue was called exactly once for each test case
\* that failed, for any number of rules, test cases and workers: no test case is
\* tested twice and no failure is lost between a test and the collector.
THEOREM FailuresReportedOnce == Spec => []FailuresAreReported
<1>1. IInv /\ Counted => FailuresAreReported
  <2> SUFFICES ASSUME IInv, Counted, main = "returned" PROVE issues = Cardinality(FailedCases)
    BY Zenon DEF FailuresAreReported, FailedCases
  <2>1. Unreported = {}
    BY Zenon DEF IInv, Phases, Unreported
  <2>2. Cardinality(Unreported) = 0
    BY <2>1, FS_EmptySet, Zenon
  <2>3. issues \in Nat
    BY Zenon DEF IInv, Shape, TypeOK
  <2> QED
    BY <2>2, <2>3 DEF Counted
<1> QED
  BY <1>1, Inductive, CountsInductive, PTL

\* However many testers run, they exceed the limit of issues by less than their
\* number: the issues still to come count against it from the check on.
THEOREM IssuesAlwaysBounded == Spec => []IssuesBounded
<1>1. IInv /\ Bounded => IssuesBounded
  <2> SUFFICES ASSUME IInv, Bounded PROVE IssuesBounded
    BY Zenon
  <2>1. Late \in SUBSET Tester /\ issues \in Nat
    BY Zenon DEF Late, IInv, Shape, TypeOK
  <2>2. Cardinality(Late) \in Nat
    BY <2>1, TesterSets, Zenon
  <2> QED
    BY <2>1, <2>2, RunAssumption DEF Bounded, IssuesBounded
<1> QED
  BY <1>1, Inductive, CountsInductive, PTL
=============================================================================
