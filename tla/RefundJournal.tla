---------------------------- MODULE RefundJournal ----------------------------
(***************************************************************************)
(* What a transaction's refund counter promises, whoever keeps it.  SSTORE *)
(* and SELFDESTRUCT earn or give back refund inside nested calls; a call   *)
(* that succeeds keeps its effects, a call that fails takes both the       *)
(* storage and the refund back to where they were when it began.           *)
(*                                                                         *)
(* This is the abstract view of the snapshots of tosca.TransactionContext  *)
(* together with the refund rules of the interpreter; how the processors   *)
(* keep the counter is modelled in the modules that refine this one.       *)
(***************************************************************************)
EXTENDS StorageGas, Sequences, FiniteSets

CONSTANTS
  Slot,        \* the storage slots, of all accounts
  Value,       \* the words a slot may hold
  Account,     \* the accounts that may self-destruct
  MaxDepth,    \* bound: calls that may be open at a time
  MaxRefund    \* bound: the largest refund a behaviour may collect

\* What the modules that keep the counter have to establish of these.
ConstantAssumption ==
  /\ IsFiniteSet(Slot)
  /\ Value \subseteq Nat /\ Zero \in Value
  /\ MaxDepth \in Nat \ {0}
  /\ MaxRefund \in Nat

VARIABLES
  revision,    \* the revision of the block, fixed for the transaction
  original,    \* the storage before the transaction
  current,     \* the storage now
  destructed,  \* the accounts that self-destructed
  refund,      \* the refund earned so far
  journal      \* one snapshot of the three above per open call

vars == <<revision, original, current, destructed, refund, journal>>

Storage == [Slot -> Value]
Snapshot == [current : Storage, destructed : SUBSET Account, refund : Int]

\* What CreateSnapshot saves.
Now == [current |-> current, destructed |-> destructed, refund |-> refund]

Init ==
  /\ revision \in Revision
  /\ original \in Storage
  /\ current = original
  /\ destructed = {}
  /\ refund = 0
  /\ journal = <<>>

Begin ==
  /\ Len(journal) < MaxDepth
  /\ journal' = Append(journal, Now)
  /\ UNCHANGED <<revision, original, current, destructed, refund>>

Sstore(s, new) ==
  LET earned == getRefundForSstore(revision, GetStorageStatus(original[s], current[s], new))
  IN  /\ journal # <<>>
      /\ refund + earned <= MaxRefund
      /\ current' = [current EXCEPT ![s] = new]
      /\ refund' = refund + earned
      /\ UNCHANGED <<revision, original, destructed, journal>>

\* The innermost call self-destructs, which ends it successfully.  From Cancun
\* on, a contract that is not new is not destructed.
SelfDestruct(a) ==
  LET earned == selfDestructRefund(a \notin destructed, revision)
  IN  /\ journal # <<>>
      /\ refund + earned <= MaxRefund
      /\ \/ destructed' = destructed \cup {a}
         \/ revision >= R13_Cancun /\ UNCHANGED destructed
      /\ refund' = refund + earned
      /\ journal' = SubSeq(journal, 1, Len(journal) - 1)
      /\ UNCHANGED <<revision, original, current>>

\* The innermost call succeeds.
Commit ==
  /\ journal # <<>>
  /\ journal' = SubSeq(journal, 1, Len(journal) - 1)
  /\ UNCHANGED <<revision, original, current, destructed, refund>>

\* The innermost call fails: RestoreSnapshot.
Abort ==
  LET saved == journal[Len(journal)]
  IN  /\ journal # <<>>
      /\ current' = saved.current
      /\ destructed' = saved.destructed
      /\ refund' = saved.refund
      /\ journal' = SubSeq(journal, 1, Len(journal) - 1)
      /\ UNCHANGED <<revision, original>>

Next ==
  \/ Begin
  \/ \E s \in Slot, new \in Value : Sstore(s, new)
  \/ \E a \in Account : SelfDestruct(a)
  \/ Commit
  \/ Abort

Spec == Init /\ [][Next]_vars

-----------------------------------------------------------------------------
(* Properties *)

\* The state variables have the shapes declared above.
TypeOK ==
  /\ revision \in Revision
  /\ original \in Storage
  /\ current \in Storage
  /\ destructed \in SUBSET Account
  /\ refund \in Int
  /\ journal \in Seq(Snapshot)
  /\ Len(journal) <= MaxDepth

\* The slots emptied by this transaction.
Cleared(storage) == {s \in Slot : original[s] # Zero /\ storage[s] = Zero}

Covers(amount, storage) == amount >= ClearRefund(revision) * Cardinality(Cleared(storage))

\* At every point of the transaction, and in every state a failing call could
\* still fall back to, the refund counter holds at least the clearing refund of
\* each slot that is empty now but was not before the transaction.  So the
\* refund an SSTORE takes back is always there: the counter that opSstore
\* decreases for StorageDeletedAdded never goes below zero.
RefundCover ==
  /\ Covers(refund, current)
  /\ \A i \in DOMAIN journal : Covers(journal[i].refund, journal[i].current)

\* The refund of a transaction is never negative, neither now nor after any
\* number of enclosing calls fail (opSstore subtracts what was granted only).
RefundNeverNegative ==
  /\ refund >= 0
  /\ \A i \in DOMAIN journal : journal[i].refund >= 0
=============================================================================
