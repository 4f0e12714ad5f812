--------------------------- MODULE ConformanceRun ---------------------------
(***************************************************************************)
(* The pipeline of the conformance test driver: ForEachState, which feeds  *)
(* rules to a team of generators and their test cases to a team of         *)
(* testers, with opRun of "ct run" as the operation on each test case.     *)
(*                                                                         *)
(* The rules are numbered in the order they are sent in, so two counters   *)
(* tell what is in the first channel.  The second one is the set of what   *)
(* it holds: the order of test cases matters to nobody, and no test case   *)
(* is in it twice.                                                         *)
(***************************************************************************)
EXTENDS Integers, FiniteSets

CONSTANTS
  NumRules,       \* the number of rules that pass the filter
  NumCases,       \* the number of test cases each rule enumerates
  Excluded,       \* the test cases that do not satisfy the condition of their rule
  fullMode,       \* whether they are tested all the same
  Generator,      \* numJobs goroutines that generate test cases
  Tester,         \* numJobs goroutines that test them
  numJobs,
  ChannelFactor,  \* places per job in a channel, 10 in the code
  maxErrors,      \* the number of issues to stop at
  Outcomes,       \* what a test may result in
  NoCase          \* not a test case

Rule == 1 .. NumRules
TestCase == UNION {{<<r, i>> : i \in 1 .. NumCases[r]} : r \in Rule}
Outcome == {"pass", "skipped", "unsupported", "issue", "panic"}

ASSUME RunAssumption ==
  /\ numJobs \in Nat \ {0} /\ ChannelFactor \in Nat \ {0} /\ maxErrors \in Nat \ {0}
  /\ IsFiniteSet(Generator) /\ Cardinality(Generator) = numJobs
  /\ IsFiniteSet(Tester) /\ Cardinality(Tester) = numJobs
  /\ NumRules \in Nat /\ NumCases \in [Rule -> Nat]
  /\ Excluded \subseteq TestCase /\ fullMode \in BOOLEAN
  /\ Outcomes \subseteq Outcome
  /\ NoCase \notin TestCase

VARIABLES
  main,          \* where ForEachState is
  fed,           \* the number of rules it has sent
  taken,         \* the number of rules the generators have received
  ruleClosed,
  stateChannel, stateClosed,
  gen,           \* where each generator is, with its rule and its next test case
  tester,        \* where each tester is, with its test case
  abortTests,    \* the flag both teams poll
  returnError,   \* whether an error was stored for the caller
  issues,        \* the number of issues collected
  printer,       \* "on" until the progress printer is done
  verdict        \* history: "untested", "passed" or "failed" for each test case

vars == <<main, fed, taken, ruleClosed, stateChannel, stateClosed, gen, tester,
          abortTests, returnError, issues, printer, verdict>>

Capacity == ChannelFactor * numJobs
Waiting == [pc |-> "recv", rule |-> 0, next |-> 0]
TesterAt(pc) == [pc |-> pc, case |-> NoCase]
Failed(o) == o \in {"issue", "panic"}

Init ==
  /\ main = "feed"
  /\ fed = 0 /\ taken = 0 /\ ruleClosed = FALSE
  /\ stateChannel = {} /\ stateClosed = FALSE
  /\ gen = [g \in Generator |-> Waiting]
  /\ tester = [t \in Tester |-> TesterAt("recv")]
  /\ abortTests = FALSE
  /\ returnError = FALSE
  /\ issues = 0
  /\ printer = "on"
  /\ verdict = [c \in TestCase |-> "untested"]

-----------------------------------------------------------------------------
(* ForEachState *)

FeedRule ==
  /\ main = "feed" /\ fed < NumRules
  /\ fed - taken < Capacity
  /\ fed' = fed + 1
  /\ UNCHANGED <<main, taken, ruleClosed, stateChannel, stateClosed, gen, tester, abortTests,
                 returnError, issues, printer, verdict>>

CloseRules ==
  /\ main = "feed" /\ fed = NumRules
  /\ ruleClosed' = TRUE
  /\ main' = "waitRules"
  /\ UNCHANGED <<fed, taken, stateChannel, stateClosed, gen, tester, abortTests,
                 returnError, issues, printer, verdict>>

\* Mutant: the state channel is closed while generators are still sending.
CloseStatesEarly ==
  /\ main = "waitRules"
  /\ stateClosed' = TRUE
  /\ main' = "waitStates"
  /\ UNCHANGED <<fed, taken, ruleClosed, stateChannel, gen, tester, abortTests,
                 returnError, issues, printer, verdict>>

\* rulesWaitGroup.Wait and close(stateChannel)
CloseStates ==
  /\ main = "waitRules"
  /\ \A g \in Generator : gen[g].pc = "done"
  /\ stateClosed' = TRUE
  /\ main' = "waitStates"
  /\ UNCHANGED <<fed, taken, ruleClosed, stateChannel, gen, tester, abortTests,
                 returnError, issues, printer, verdict>>

\* stateWaitGroup.Wait and close(done)
StopPrinter ==
  /\ main = "waitStates"
  /\ \A t \in Tester : tester[t].pc = "done"
  /\ main' = "waitPrinter"
  /\ UNCHANGED <<fed, taken, ruleClosed, stateChannel, stateClosed, gen, tester,
                 abortTests, returnError, issues, printer, verdict>>

\* The printer prints for the last time and closes printerDone.
PrinterDone ==
  /\ main = "waitPrinter" /\ printer = "on"
  /\ printer' = "off"
  /\ UNCHANGED <<main, fed, taken, ruleClosed, stateChannel, stateClosed, gen, tester,
                 abortTests, returnError, issues, verdict>>

Return ==
  /\ main = "waitPrinter" /\ printer = "off"
  /\ main' = "returned"
  /\ UNCHANGED <<fed, taken, ruleClosed, stateChannel, stateClosed, gen, tester,
                 abortTests, returnError, issues, printer, verdict>>

-----------------------------------------------------------------------------
(* The generators *)

\* "for rule := range ruleChannel"; a rule received after an abort is dropped.
ReceiveRule(g) ==
  /\ gen[g].pc = "recv" /\ taken < fed
  /\ taken' = taken + 1
  /\ gen' = IF abortTests THEN gen
            ELSE [gen EXCEPT ![g] = [pc |-> "enumerate", rule |-> taken + 1, next |-> 1]]
  /\ UNCHANGED <<main, fed, ruleClosed, stateChannel, stateClosed, tester, abortTests,
                 returnError, issues, printer, verdict>>

NoMoreRules(g) ==
  /\ gen[g].pc = "recv" /\ taken = fed /\ ruleClosed
  /\ gen' = [gen EXCEPT ![g].pc = "done"]
  /\ UNCHANGED <<main, fed, taken, ruleClosed, stateChannel, stateClosed, tester,
                 abortTests, returnError, issues, printer, verdict>>

nextCase(g) == <<gen[g].rule, gen[g].next>>

\* EnumerateTestCases and the function it calls for each test case: an abort ends
\* the enumeration, a test case that does not apply is skipped.  The flag may be
\* set between the look at it and the send.
Enumerate(g) ==
  /\ gen[g].pc = "enumerate" /\ nextCase(g) \in TestCase
  /\ gen' = IF abortTests THEN [gen EXCEPT ![g] = Waiting]
            ELSE IF ~fullMode /\ nextCase(g) \in Excluded THEN [gen EXCEPT ![g].next = @ + 1]
            ELSE [gen EXCEPT ![g].pc = "send"]
  /\ UNCHANGED <<main, fed, taken, ruleClosed, stateChannel, stateClosed, tester,
                 abortTests, returnError, issues, printer, verdict>>

\* "stateChannel <- state.Clone()"; a closed channel would panic.
Send(g) ==
  /\ gen[g].pc = "send"
  /\ Cardinality(stateChannel) < Capacity
  /\ stateChannel' = stateChannel \cup {nextCase(g)}
  /\ gen' = [gen EXCEPT ![g].pc = "enumerate", ![g].next = @ + 1]
  /\ UNCHANGED <<main, fed, taken, ruleClosed, stateClosed, tester, abortTests,
                 returnError, issues, printer, verdict>>

RuleDone(g) ==
  /\ gen[g].pc = "enumerate" /\ nextCase(g) \notin TestCase
  /\ gen' = [gen EXCEPT ![g] = Waiting]
  /\ UNCHANGED <<main, fed, taken, ruleClosed, stateChannel, stateClosed, tester,
                 abortTests, returnError, issues, printer, verdict>>

\* The generation of a state fails: the enumeration stops and the flag is set.
GenerationFails(g) ==
  /\ gen[g].pc = "enumerate" /\ nextCase(g) \in TestCase
  /\ abortTests' = TRUE
  /\ gen' = [gen EXCEPT ![g] = [Waiting EXCEPT !.pc = "storeError"]]
  /\ UNCHANGED <<main, fed, taken, ruleClosed, stateChannel, stateClosed, tester,
                 returnError, issues, printer, verdict>>

\* Mutant: the error is dropped.
StoreErrorNever(g) ==
  /\ gen[g].pc = "storeError"
  /\ gen' = [gen EXCEPT ![g].pc = "recv"]
  /\ UNCHANGED <<main, fed, taken, ruleClosed, stateChannel, stateClosed, tester,
                 abortTests, returnError, issues, printer, verdict>>

StoreError(g) ==
  /\ gen[g].pc = "storeError"
  /\ returnError' = TRUE
  /\ gen' = [gen EXCEPT ![g].pc = "recv"]
  /\ UNCHANGED <<main, fed, taken, ruleClosed, stateChannel, stateClosed, tester,
                 abortTests, issues, printer, verdict>>

-----------------------------------------------------------------------------
(* The testers, with opRun *)

ReceiveCase(t, c) ==
  /\ tester[t].pc = "recv" /\ c \in stateChannel
  /\ stateChannel' = stateChannel \ {c}
  /\ tester' = [tester EXCEPT ![t] = [pc |-> "check", case |-> c]]
  /\ UNCHANGED <<main, fed, taken, ruleClosed, stateClosed, gen, abortTests,
                 returnError, issues, printer, verdict>>

NoMoreCases(t) ==
  /\ tester[t].pc = "recv" /\ stateChannel = {} /\ stateClosed
  /\ tester' = [tester EXCEPT ![t].pc = "done"]
  /\ UNCHANGED <<main, fed, taken, ruleClosed, stateChannel, stateClosed, gen,
                 abortTests, returnError, issues, printer, verdict>>

\* Mutant: the limit is compared with > instead of >=.
CheckIssuesLate(t) ==
  /\ tester[t].pc = "check"
  /\ tester' = [tester EXCEPT ![t] = IF issues > maxErrors THEN TesterAt("abort") ELSE [@ EXCEPT !.pc = "test"]]
  /\ UNCHANGED <<main, fed, taken, ruleClosed, stateChannel, stateClosed, gen,
                 abortTests, returnError, issues, printer, verdict>>

\* "issuesCollector.NumIssues() >= maxErrors"
CheckIssues(t) ==
  /\ tester[t].pc = "check"
  /\ tester' = [tester EXCEPT ![t] = IF issues >= maxErrors THEN TesterAt("abort") ELSE [@ EXCEPT !.pc = "test"]]
  /\ UNCHANGED <<main, fed, taken, ruleClosed, stateChannel, stateClosed, gen,
                 abortTests, returnError, issues, printer, verdict>>

\* runTest, for a program counter that is not on data.
Test(t, o) ==
  /\ tester[t].pc = "test"
  /\ verdict' = [verdict EXCEPT ![tester[t].case] = IF Failed(o) THEN "failed" ELSE "passed"]
  /\ tester' = [tester EXCEPT ![t] = TesterAt(IF Failed(o) THEN o ELSE "recv")]
  /\ UNCHANGED <<main, fed, taken, ruleClosed, stateChannel, stateClosed, gen,
                 abortTests, returnError, issues, printer>>

\* Mutant: a panic stops the run but is not recorded.
AddIssueNoPanic(t) ==
  /\ tester[t].pc \in {"issue", "panic"}
  /\ issues' = IF tester[t].pc = "issue" THEN issues + 1 ELSE issues
  /\ tester' = [tester EXCEPT ![t] = TesterAt(IF @.pc = "panic" THEN "abort" ELSE "recv")]
  /\ UNCHANGED <<main, fed, taken, ruleClosed, stateChannel, stateClosed, gen,
                 abortTests, returnError, printer, verdict>>

\* AddIssue; the deferred function of opRun turns a panic into an abort.
AddIssue(t) ==
  /\ tester[t].pc \in {"issue", "panic"}
  /\ issues' = issues + 1
  /\ tester' = [tester EXCEPT ![t] = TesterAt(IF @.pc = "panic" THEN "abort" ELSE "recv")]
  /\ UNCHANGED <<main, fed, taken, ruleClosed, stateChannel, stateClosed, gen,
                 abortTests, returnError, printer, verdict>>

\* Mutant: a tester that aborts stops receiving.
StoreAbortLeaves(t) ==
  /\ tester[t].pc = "abort"
  /\ abortTests' = TRUE
  /\ tester' = [tester EXCEPT ![t] = TesterAt("done")]
  /\ UNCHANGED <<main, fed, taken, ruleClosed, stateChannel, stateClosed, gen,
                 returnError, issues, printer, verdict>>

\* The tester keeps receiving, so that no generator waits for a place for ever.
StoreAbort(t) ==
  /\ tester[t].pc = "abort"
  /\ abortTests' = TRUE
  /\ tester' = [tester EXCEPT ![t] = TesterAt("recv")]
  /\ UNCHANGED <<main, fed, taken, ruleClosed, stateChannel, stateClosed, gen,
                 returnError, issues, printer, verdict>>

Main == FeedRule \/ CloseRules \/ CloseStates \/ StopPrinter \/ Return

Generate(g) ==
  \/ ReceiveRule(g) \/ NoMoreRules(g)
  \/ Enumerate(g) \/ Send(g) \/ RuleDone(g) \/ GenerationFails(g) \/ StoreError(g)

TestCases(t) ==
  \/ \E c \in TestCase : ReceiveCase(t, c)
  \/ NoMoreCases(t)
  \/ CheckIssues(t)
  \/ \E o \in Outcomes : Test(t, o)
  \/ AddIssue(t) \/ StoreAbort(t)

Next ==
  \/ Main
  \/ PrinterDone
  \/ \E g \in Generator : Generate(g)
  \/ \E t \in Tester : TestCases(t)

Spec == Init /\ [][Next]_vars

\* Every goroutine that can make a step is scheduled eventually.
Fairness ==
  /\ WF_vars(Main) /\ WF_vars(PrinterDone)
  /\ \A g \in Generator : WF_vars(Generate(g))
  /\ \A t \in Tester : WF_vars(TestCases(t))

FairSpec == Spec /\ Fairness

-----------------------------------------------------------------------------
(* Properties *)

\* The variables have the shapes declared above, and no channel holds more than
\* it has places for.
TypeOK ==
  /\ main \in {"feed", "waitRules", "waitStates", "waitPrinter", "returned"}
  /\ fed \in 0 .. NumRules /\ taken \in 0 .. fed /\ fed - taken <= Capacity
  /\ ruleClosed \in BOOLEAN
  /\ stateChannel \subseteq TestCase /\ Cardinality(stateChannel) <= Capacity
  /\ stateClosed \in BOOLEAN
  /\ gen \in [Generator -> [pc : {"recv", "enumerate", "send", "storeError", "done"},
                            rule : Nat, next : Nat]]
  /\ tester \in [Tester -> [pc : {"recv", "check", "test", "issue", "panic", "abort", "done"},
                            case : TestCase \cup {NoCase}]]
  /\ abortTests \in BOOLEAN /\ returnError \in BOOLEAN
  /\ issues \in Nat
  /\ printer \in {"on", "off"}
  /\ verdict \in [TestCase -> {"untested", "passed", "failed"}]

\* Nothing is sent on a channel that was closed, which would panic: the order of
\* the two closes and waits of ForEachState keeps every sender ahead of them.
NoSendAfterClose ==
  /\ ruleClosed => fed = NumRules
  /\ stateClosed => \A g \in Generator : gen[g].pc = "done"

Selected == IF fullMode THEN TestCase ELSE TestCase \ Excluded

\* A run that ForEachState reports as successful and that collected no issue
\* ("All tests passed successfully!") has tested every test case of every rule:
\* none was lost in a channel, dropped by a goroutine that saw an abort, or still
\* in progress, and none failed.  Tested means given to opRun: a state it passes over
\* (the program counter is at data, no rule applies, the revision is not supported)
\* counts as passed, as it does there.
SuccessMeansTested ==
  main = "returned" /\ ~returnError /\ issues = 0 =>
    \A c \in Selected : verdict[c] = "passed"

\* Every test case that failed is among the collected issues, once, when
\* ForEachState returns.
FailuresAreReported ==
  main = "returned" =>
    issues = Cardinality({c \in TestCase : verdict[c] = "failed"})

\* The limit of issues is checked before a test and counted after it: it is
\* exceeded by less than the number of testers.
IssuesBounded == issues < maxErrors + numJobs

\* ForEachState returns, whatever the tests result in and wherever the
\* generation fails: no goroutine waits for ever on a full or an empty channel.
Terminates == <>(main = "returned")
=============================================================================
