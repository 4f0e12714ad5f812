-------------------------- MODULE RunContextRefund --------------------------
(***************************************************************************)
(* How the Floria run context keeps the refund counter of RefundJournal:   *)
(* there is no counter, every running interpreter has its own, and a       *)
(* successful call hands its share to the caller's.                        *)
(***************************************************************************)
EXTENDS RunContext

CONSTANT MaxRefund  \* a bound no behaviour of the instance reaches

\* The refund of the transaction so far, spread over the running interpreters.
\* calculateGasLeft ignores the refund of a transaction that failed.
TransactionRefund(fs, stage, last) ==
  IF stage # "done" THEN Earned(fs, Len(fs)) ELSE IF last.success THEN last.refund ELSE 0

\* What the call of frame i falls back to when it fails.
Entry(fs, i) ==
  [current |-> fs[i].snapshot.storage, destructed |-> fs[i].snapshot.destructed,
   refund |-> Earned(fs, i - 1)]
Entries(fs) == [i \in DOMAIN fs |-> Entry(fs, i)]

Journal == INSTANCE RefundJournal WITH
  Slot <- Address, Value <- Word, Account <- Address,
  MaxDepth <- MaxRecursiveDepth + 1,
  current <- world.storage, destructed <- world.destructed,
  refund <- TransactionRefund(frames, phase, result), journal <- Entries(frames)

\* checkAndDeployCode rejects the code the init code returned.
RejectsCode ==
  phase = "run" /\ top.kind \in CreateKinds /\ \E output \in Code : Stop(output, FALSE)

\* The scattered counters behave as the one journalled counter: but for the steps
\* that reject the code of a create, which keep the refund its init code earned,
\* the refund of a transaction is what its surviving instructions earned.
RefundsAreJournalled ==
  Journal!Init /\ [][RejectsCode \/ Journal!Next]_Journal!vars

\* executeCreate: "If a check fails the snapshot will be restored and revert all
\* changes on the created address".  With them, the refund the init code earned
\* for them is undone, so that a create that fails leaves the refund of its
\* caller as it was.
RejectedCodeEarnsNothing ==
  [][Len(frames') < Len(frames) /\ frames' # <<>> /\ ~result'.success =>
       frames'[Len(frames')].refund = frames[Len(frames')].refund]_vars
=============================================================================
