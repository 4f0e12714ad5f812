----------------------------- MODULE StorageGas -----------------------------
(***************************************************************************)
(* The pure part of the SSTORE gas rules: the classification of a storage  *)
(* update by the original (committed), the current and the new value of    *)
(* the slot, and the refund an SSTORE of each class earns or gives back.   *)
(***************************************************************************)
EXTENDS Integers

\* The EVM revisions, in the order of their numbers.
R07_Istanbul == 0
R09_Berlin == 1
R10_London == 2
R11_Paris == 3
R12_Shanghai == 4
R13_Cancun == 5
R14_Prague == 6
R15_Osaka == 7
Revision == R07_Istanbul .. R15_Osaka

\* The word that stands for an empty slot.
Zero == 0

\* The table of world_state.go; X, Y and Z there are non-zero and distinct.
GetStorageStatus(original, current, new) ==
  IF current = new THEN "StorageAssigned"
  ELSE IF original = Zero /\ current = Zero THEN "StorageAdded"
  ELSE IF original # Zero /\ current = original /\ new = Zero THEN "StorageDeleted"
  ELSE IF original # Zero /\ current = original THEN "StorageModified"
  ELSE IF original # Zero /\ current = Zero /\ new # original THEN "StorageDeletedAdded"
  ELSE IF original # Zero /\ new = Zero THEN "StorageModifiedDeleted"
  ELSE IF original # Zero /\ current = Zero THEN "StorageDeletedRestored"
  ELSE IF original = Zero /\ new = Zero THEN "StorageAddedDeleted"
  ELSE IF original # Zero /\ new = original THEN "StorageModifiedRestored"
  ELSE "StorageAssigned"

\* The charge for an access to a slot that is already warm.
WarmCost(revision) == IF revision >= R09_Berlin THEN 100 ELSE 800

getDynamicCostsForSstore(revision, status) ==
  IF status = "StorageAdded" THEN 20000
  ELSE IF status \in {"StorageModified", "StorageDeleted"}
       THEN (IF revision >= R09_Berlin THEN 2900 ELSE 5000)
  ELSE WarmCost(revision)

\* The refund for emptying a slot that was not empty before the transaction.
ClearRefund(revision) == IF revision >= R10_London THEN 4800 ELSE 15000

\* The refund for putting a slot back to what it was before the transaction.
RestoreRefund(revision) == IF revision >= R09_Berlin THEN 5000 - 2100 - 100 ELSE 4200

\* Mutant: the amount taken back was not lowered with the London revision.
getRefundForSstoreStale(revision, status) ==
  IF status \in {"StorageDeleted", "StorageModifiedDeleted"} THEN ClearRefund(revision)
  ELSE IF status = "StorageDeletedAdded" THEN -15000
  ELSE IF status = "StorageDeletedRestored" THEN RestoreRefund(revision) - ClearRefund(revision)
  ELSE IF status = "StorageAddedDeleted" THEN (IF revision >= R09_Berlin THEN 19900 ELSE 19200)
  ELSE IF status = "StorageModifiedRestored" THEN RestoreRefund(revision)
  ELSE 0

getRefundForSstore(revision, status) ==
  IF status \in {"StorageDeleted", "StorageModifiedDeleted"} THEN ClearRefund(revision)
  ELSE IF status = "StorageDeletedAdded" THEN -ClearRefund(revision)
  ELSE IF status = "StorageDeletedRestored" THEN RestoreRefund(revision) - ClearRefund(revision)
  ELSE IF status = "StorageAddedDeleted" THEN (IF revision >= R09_Berlin THEN 19900 ELSE 19200)
  ELSE IF status = "StorageModifiedRestored" THEN RestoreRefund(revision)
  ELSE 0

\* The refund of the first SELFDESTRUCT of an account, abolished in London.
selfDestructRefund(destructed, revision) ==
  IF destructed /\ revision < R10_London THEN 24000 ELSE 0
=============================================================================
