------------------------- MODULE RefundJournalProofs -------------------------
(***************************************************************************)
(* The refund counter always covers the clearing refunds of the slots that *)
(* are empty now, for any number of slots, values and nested calls.        *)
(***************************************************************************)
EXTENDS RefundJournal, FiniteSetTheorems, TLAPS

USE DEF ConstantAssumption

\* Induction over the naturals, for a set instead of a predicate.
LEMMA NaturalsInSet ==
  ASSUME NEW T, 0 \in T, \A n \in Nat : n \in T => n + 1 \in T
  PROVE  Nat \subseteq T
<1> SUFFICES ASSUME Nat \ T # {} PROVE FALSE
  OBVIOUS
<1>1. IsWellFoundedOn(OpToRel(<, Nat), Nat)
  BY NatLessThanWellFounded, Zenon
<1> DEFINE R == OpToRel(<, Nat)
<1>2. PICK m \in Nat \ T : \A k \in Nat \ T : <<k, m>> \notin R
  <2> HIDE DEF R
  <2> QED
   BY <1>1, WFMin, Zenon DEF R
<1>3. m # 0 /\ m - 1 \in Nat
  OBVIOUS
<1>4. m - 1 \notin T
  BY <1>3
<1>5. <<m - 1, m>> \in R
  BY <1>3 DEF OpToRel
<1> QED
  BY <1>2, <1>3, <1>4, <1>5, Zenon

\* What one slot adds to the amount that has to be covered.
Debt(r, o, c) == IF o # Zero /\ c = Zero THEN ClearRefund(r) ELSE 0

\* The heart of the argument: whatever the status of an update, the refund of
\* getRefundForSstore is at least the change of the slot's debt.
LEMMA SstoreEarnsDebt ==
  ASSUME NEW r \in Revision, NEW o \in Nat, NEW c \in Nat, NEW n \in Nat
  PROVE  LET earned == getRefundForSstore(r, GetStorageStatus(o, c, n))
         IN  /\ earned \in Int
             /\ earned >= Debt(r, o, n) - Debt(r, o, c)
BY DEF Revision, getRefundForSstore, GetStorageStatus, Debt, Zero, ClearRefund, RestoreRefund,
       R07_Istanbul, R09_Berlin, R10_London, R15_Osaka

\* A self-destruct never takes refund back.
LEMMA SelfDestructEarns ==
  ASSUME NEW r \in Revision, NEW d \in BOOLEAN
  PROVE  selfDestructRefund(d, r) \in Nat
BY DEF selfDestructRefund

LEMMA ClearRefundPositive ==
  ASSUME NEW r \in Revision
  PROVE  ClearRefund(r) \in Nat
BY DEF ClearRefund

\* The journal without its last entry.
LEMMA Popped ==
  ASSUME NEW q \in Seq(Snapshot), q # <<>>
  PROVE  LET p == SubSeq(q, 1, Len(q) - 1)
         IN  /\ p \in Seq(Snapshot) /\ Len(p) = Len(q) - 1
             /\ \A i \in DOMAIN p : i \in DOMAIN q /\ p[i] = q[i]
             /\ q[Len(q)] \in Snapshot
<1> DEFINE n == Len(q) - 1
           p == SubSeq(q, 1, n)
<1>1. n \in Nat /\ n = Len(q) - 1 /\ q[Len(q)] \in Snapshot /\ \A i \in 1 .. n : q[i] \in Snapshot
  OBVIOUS
<1> HIDE DEF n
<1>2. p \in Seq(Snapshot) /\ Len(p) = n
  BY <1>1
<1>3. \A i \in 1 .. n : p[i] = q[i]
  BY <1>1
<1>4. DOMAIN p = 1 .. n /\ DOMAIN q = 1 .. n + 1
  BY <1>1, <1>2
<1> QED
  BY <1>1, <1>2, <1>3, <1>4 DEF n

LEMMA TypeInit == ASSUME ConstantAssumption PROVE Init => TypeOK
BY ConstantAssumption DEF Init, TypeOK, Storage

LEMMA TypeNext == ASSUME ConstantAssumption PROVE TypeOK /\ [Next]_vars => TypeOK'
<1> SUFFICES ASSUME TypeOK, [Next]_vars PROVE TypeOK'
  OBVIOUS
<1> USE DEF TypeOK, Storage
<1>1. CASE Begin
  <2>1. Now \in Snapshot
    BY DEF Now, Snapshot
  <2> QED
    BY <1>1, <2>1, ConstantAssumption DEF Begin
<1>2. ASSUME NEW s \in Slot, NEW new \in Value, Sstore(s, new) PROVE TypeOK'
  <2>1. original[s] \in Nat /\ current[s] \in Nat /\ new \in Nat
    BY ConstantAssumption, Zenon
  <2>2. getRefundForSstore(revision, GetStorageStatus(original[s], current[s], new)) \in Int
    BY <2>1, SstoreEarnsDebt
  <2> QED
    BY <1>2, <2>2 DEF Sstore
<1>3. ASSUME NEW a \in Account, SelfDestruct(a) PROVE TypeOK'
  <2>1. journal' \in Seq(Snapshot) /\ Len(journal') = Len(journal) - 1
    BY <1>3, Popped DEF SelfDestruct
  <2> QED
    BY <1>3, <2>1, SelfDestructEarns, ConstantAssumption DEF SelfDestruct
<1>4. CASE Commit
  <2>1. journal' \in Seq(Snapshot) /\ Len(journal') = Len(journal) - 1
    BY <1>4, Popped DEF Commit
  <2> QED
    BY <1>4, <2>1, ConstantAssumption DEF Commit
<1>5. CASE Abort
  <2> DEFINE saved == journal[Len(journal)]
  <2>1. saved \in Snapshot /\ journal' \in Seq(Snapshot) /\ Len(journal') = Len(journal) - 1
    BY <1>5, Popped DEF Abort
  <2>2. saved.current \in Storage /\ saved.destructed \in SUBSET Account /\ saved.refund \in Int
    BY <2>1 DEF Snapshot
  <2> QED
    BY <1>5, <2>1, <2>2, ConstantAssumption DEF Abort
<1>6. CASE UNCHANGED vars
  BY <1>6 DEF vars
<1> QED
  BY <1>1, <1>2, <1>3, <1>4, <1>5, <1>6 DEF Next

\* The variables keep their shapes.
THEOREM TypeCorrect == ASSUME ConstantAssumption PROVE Spec => []TypeOK
BY TypeInit, TypeNext, ConstantAssumption, PTL DEF Spec

\* Emptying, refilling or leaving a slot moves the number of cleared slots, and
\* with it the amount to be covered, by exactly the slot's change of debt.
LEMMA ClearedAfterWrite ==
  ASSUME ConstantAssumption, TypeOK, NEW s \in Slot, NEW new \in Value
  PROVE  LET k == ClearRefund(revision)
             after == [current EXCEPT ![s] = new]
         IN  /\ Cardinality(Cleared(current)) \in Nat
             /\ Cardinality(Cleared(after)) \in Nat
             /\ k * Cardinality(Cleared(after)) =
                  k * Cardinality(Cleared(current))
                    + Debt(revision, original[s], new) - Debt(revision, original[s], current[s])
<1> DEFINE k == ClearRefund(revision)
           after == [current EXCEPT ![s] = new]
<1>1. IsFiniteSet(Cleared(current)) /\ IsFiniteSet(Cleared(after))
  <2>1. Cleared(current) \subseteq Slot /\ Cleared(after) \subseteq Slot
    BY DEF Cleared
  <2> QED
    BY <2>1, FS_Subset, ConstantAssumption, Zenon
<1>2. Cardinality(Cleared(current)) \in Nat /\ Cardinality(Cleared(after)) \in Nat
  BY <1>1, FS_CardinalityType
<1>3. k \in Nat
  BY ClearRefundPositive DEF TypeOK
<1>4. CASE original[s] # Zero /\ current[s] # Zero /\ new = Zero
  <2>1. Cleared(after) = Cleared(current) \cup {s} /\ s \notin Cleared(current)
    BY <1>4 DEF Cleared, TypeOK, Storage
  <2>2. Cardinality(Cleared(after)) = Cardinality(Cleared(current)) + 1
    BY <2>1, <1>1, FS_AddElement, Zenon
  <2> QED
    BY <1>2, <1>3, <1>4, <2>2 DEF Debt
<1>5. CASE original[s] # Zero /\ current[s] = Zero /\ new # Zero
  <2>1. Cleared(after) = Cleared(current) \ {s} /\ s \in Cleared(current)
    BY <1>5 DEF Cleared, TypeOK, Storage
  <2>2. Cardinality(Cleared(after)) = Cardinality(Cleared(current)) - 1
    BY <2>1, <1>1, FS_RemoveElement, Zenon
  <2> QED
    BY <1>2, <1>3, <1>5, <2>2 DEF Debt
<1>6. CASE original[s] = Zero \/ (current[s] = Zero <=> new = Zero)
  <2>1. Cleared(after) = Cleared(current)
    BY <1>6 DEF Cleared, TypeOK, Storage
  <2>2. Debt(revision, original[s], new) = Debt(revision, original[s], current[s])
    BY <1>6 DEF Debt
  <2>3. Debt(revision, original[s], new) \in Nat
    BY <1>3 DEF Debt
  <2> QED
    BY <1>2, <1>3, <2>1, <2>2, <2>3
<1> QED
  BY <1>2, <1>4, <1>5, <1>6

LEMMA CoverInit == ASSUME ConstantAssumption PROVE Init => RefundCover
<1> SUFFICES ASSUME Init PROVE RefundCover
  OBVIOUS
<1>1. Cleared(current) = {}
  BY DEF Init, Cleared
<1>2. ClearRefund(revision) * Cardinality(Cleared(current)) = 0
  BY <1>1, FS_EmptySet, ClearRefundPositive DEF Init
<1> QED
  BY <1>2 DEF RefundCover, Covers, Init

\* The conjunct on the snapshots is the strengthening that makes the invariant
\* inductive: Abort brings one of them back.
LEMMA CoverNext ==
  ASSUME ConstantAssumption
  PROVE  TypeOK /\ RefundCover /\ [Next]_vars => RefundCover'
<1> SUFFICES ASSUME TypeOK, RefundCover, [Next]_vars PROVE RefundCover'
  OBVIOUS
<1>1. CASE Begin
  <2>1. /\ Len(journal') = Len(journal) + 1
        /\ \A i \in 1 .. Len(journal) : journal'[i] = journal[i]
        /\ journal'[Len(journal) + 1] = Now
        /\ DOMAIN journal = 1 .. Len(journal) /\ DOMAIN journal' = 1 .. Len(journal')
        /\ Len(journal) \in Nat
    BY <1>1 DEF Begin, TypeOK
  <2>2. UNCHANGED <<revision, original, current, refund>>
    BY <1>1 DEF Begin
  <2>3. ASSUME NEW i \in DOMAIN journal'
        PROVE  Covers(journal'[i].refund, journal'[i].current)
    <3>1. CASE i = Len(journal) + 1
      BY <2>1, <3>1 DEF Now, RefundCover
    <3>2. CASE i \in DOMAIN journal
      BY <2>1, <3>2 DEF RefundCover
    <3> QED
      BY <2>1, <3>1, <3>2
  <2> QED
    BY <2>2, <2>3 DEF RefundCover, Covers, Cleared
<1>2. ASSUME NEW s \in Slot, NEW new \in Value, Sstore(s, new) PROVE RefundCover'
  <2> DEFINE earned == getRefundForSstore(revision, GetStorageStatus(original[s], current[s], new))
             k == ClearRefund(revision)
  <2>1. original[s] \in Nat /\ current[s] \in Nat /\ new \in Nat
    BY ConstantAssumption, Zenon DEF TypeOK, Storage
  <2>2. /\ earned \in Int
        /\ earned >= Debt(revision, original[s], new) - Debt(revision, original[s], current[s])
    BY <2>1, SstoreEarnsDebt, Zenon DEF TypeOK
  <2>3. /\ Cardinality(Cleared(current)) \in Nat
        /\ Cardinality(Cleared([current EXCEPT ![s] = new])) \in Nat
        /\ k * Cardinality(Cleared([current EXCEPT ![s] = new])) =
             k * Cardinality(Cleared(current))
               + Debt(revision, original[s], new) - Debt(revision, original[s], current[s])
    BY ClearedAfterWrite, ConstantAssumption
  <2>4. /\ Debt(revision, original[s], new) \in Nat
        /\ Debt(revision, original[s], current[s]) \in Nat
        /\ k \in Nat
    BY ClearRefundPositive DEF Debt, TypeOK
  <2>5. /\ current' = [current EXCEPT ![s] = new]
        /\ refund' = refund + earned
        /\ UNCHANGED <<revision, original, journal>>
    BY <1>2 DEF Sstore
  <2>6. refund + earned >= k * Cardinality(Cleared([current EXCEPT ![s] = new]))
    <3> DEFINE m == k * Cardinality(Cleared(current))
    <3>1. m \in Nat /\ refund >= m /\ refund \in Int
      BY <2>3, <2>4 DEF RefundCover, Covers, TypeOK
    <3> QED
      BY <3>1, <2>2, <2>3, <2>4
  <2> QED
    BY <2>5, <2>6 DEF RefundCover, Covers, Cleared
<1>3. ASSUME NEW a \in Account, SelfDestruct(a) PROVE RefundCover'
  <2>1. selfDestructRefund(a \notin destructed, revision) \in Nat
    BY SelfDestructEarns, Zenon DEF TypeOK
  <2>2. refund' >= refund /\ UNCHANGED <<revision, original, current>>
    BY <1>3, <2>1 DEF SelfDestruct, TypeOK
  <2>3. \A storage : ClearRefund(revision) * Cardinality(Cleared(storage)) \in Int
    <3>1. \A storage : Cleared(storage) \subseteq Slot
      BY DEF Cleared
    <3> QED
      BY <3>1, FS_Subset, FS_CardinalityType, ClearRefundPositive, ConstantAssumption DEF TypeOK
  <2>4. refund \in Int /\ refund' \in Int
    BY <1>3, <2>1 DEF SelfDestruct, TypeOK
  <2>5. \A i \in DOMAIN journal' : i \in DOMAIN journal /\ journal'[i] = journal[i]
    BY <1>3, Popped DEF SelfDestruct, TypeOK
  <2> QED
    BY <2>2, <2>3, <2>4, <2>5 DEF RefundCover, Covers, Cleared
<1>4. CASE Commit
  BY <1>4 DEF Commit, RefundCover, Covers, Cleared, TypeOK
<1>5. CASE Abort
  BY <1>5 DEF Abort, RefundCover, Covers, Cleared, TypeOK
<1>6. CASE UNCHANGED vars
  BY <1>6 DEF vars, RefundCover, Covers, Cleared
<1> QED
  BY <1>1, <1>2, <1>3, <1>4, <1>5, <1>6 DEF Next

\* The counter covers the cleared slots, in the current state and in every
\* snapshot.
THEOREM RefundAlwaysCovers == ASSUME ConstantAssumption PROVE Spec => []RefundCover
BY CoverInit, CoverNext, TypeCorrect, ConstantAssumption, PTL DEF Spec

LEMMA CoverIsNeverNegative ==
  ASSUME ConstantAssumption PROVE TypeOK /\ RefundCover => RefundNeverNegative
<1> SUFFICES ASSUME TypeOK, RefundCover PROVE RefundNeverNegative
  OBVIOUS
<1>1. ASSUME NEW storage PROVE ClearRefund(revision) * Cardinality(Cleared(storage)) \in Nat
  <2>1. Cleared(storage) \subseteq Slot
    BY DEF Cleared
  <2> QED
    BY <2>1, FS_Subset, FS_CardinalityType, ClearRefundPositive, ConstantAssumption DEF TypeOK
<1>2. refund >= 0
  BY <1>1 DEF RefundCover, Covers, TypeOK
<1>3. ASSUME NEW i \in DOMAIN journal PROVE journal[i].refund >= 0
  <2>1. journal[i].refund \in Int
    <3>1. journal[i] \in Snapshot
      BY DEF TypeOK
    <3> QED
      BY <3>1 DEF Snapshot
  <2>2. journal[i].refund >= ClearRefund(revision) * Cardinality(Cleared(journal[i].current))
    BY DEF RefundCover, Covers
  <2> QED
    BY <1>1, <2>1, <2>2
<1> QED
  BY <1>2, <1>3 DEF RefundNeverNegative

\* Hence the refund of a transaction is never negative, and no failing call can
\* make it so.
THEOREM RefundIsNeverNegative == ASSUME ConstantAssumption PROVE Spec => []RefundNeverNegative
BY CoverIsNeverNegative, TypeCorrect, RefundAlwaysCovers, ConstantAssumption, PTL
=============================================================================
