----------------------- MODULE FloriaProcessorProofs -----------------------
(***************************************************************************)
(* What the Floria processor guarantees for every set of transactions,     *)
(* blocks, prices and limits, and that the Opera processor agrees with it. *)
(***************************************************************************)
EXTENDS OperaProcessor, CollectionLemmas, TLAPS

\* The provers of a step that names none.
USE SMTT(20), Zenon

-----------------------------------------------------------------------------
(* Arithmetic *)

\* Values stay values.
LEMMA ModuloType ==
  ASSUME NEW x \in Int
  PROVE  x % ValueLimit \in Value
BY ProcessorAssumption DEF Value

LEMMA ValueIsNat ==
  ASSUME NEW v \in Value
  PROVE  v \in Nat /\ v < ValueLimit
BY ProcessorAssumption DEF Value

LEMMA SmallModulo ==
  ASSUME NEW x \in Nat, x < ValueLimit
  PROVE  x % ValueLimit = x
BY ProcessorAssumption

LEMMA ProductType ==
  ASSUME NEW a \in Nat, NEW b \in Nat
  PROVE  a * b \in Nat
OBVIOUS

\* A lower price never costs more.
LEMMA Monotone ==
  ASSUME NEW a \in Nat, NEW b \in Nat, NEW n \in Nat, a <= b
  PROVE  a * n <= b * n
OBVIOUS

-----------------------------------------------------------------------------
(* The helpers *)

LEMMA TransactionFields ==
  ASSUME NEW t \in Transaction
  PROVE  /\ t.sender \in Account /\ t.recipient \in Account /\ t.create \in BOOLEAN
         /\ t.nonce \in Nat /\ t.value \in Value /\ t.gasLimit \in Nat
         /\ t.gasFeeCap \in Value /\ t.gasTipCap \in Value /\ t.blobGasFeeCap \in Value
         /\ t.blobs \in Int
         /\ t.zeros \in Nat /\ t.nonZeros \in Nat /\ t.addresses \in Nat /\ t.keys \in Nat
BY ProcessorAssumption DEF Transaction, Nonce, NoBlobs

LEMMA SetupGasType ==
  ASSUME NEW t \in Transaction
  PROVE  calculateSetupGas(t) \in Nat /\ calculateSetupGas(t) >= TxGas
<1>1. t.zeros \in Nat /\ t.nonZeros \in Nat /\ t.addresses \in Nat /\ t.keys \in Nat
  BY TransactionFields
<1>2. SizeInWords(t.zeros + t.nonZeros) \in Nat
  BY <1>1 DEF SizeInWords
<1> QED
  BY <1>1, <1>2 DEF calculateSetupGas, TxGas, TxGasContractCreation, TxDataNonZeroGasEIP2028,
     TxDataZeroGasEIP2028, TxAccessListAddressGas, TxAccessListStorageKeyGas, InitCodeWordGas

\* A price the check accepts lies between the base fee and the cap.
LEMMA GasPriceBounds ==
  ASSUME block \in Block, NEW t \in Transaction, gasPriceCheck(t)
  PROVE  /\ calculateGasPrice(t) \in Value
         /\ ~freeSimulation(t) => block.baseFee <= calculateGasPrice(t)
         /\ calculateGasPrice(t) <= t.gasFeeCap
<1>1. t.gasFeeCap \in Value /\ t.gasTipCap \in Value /\ block.baseFee \in Value
  BY TransactionFields DEF Block
<1>2. /\ t.gasFeeCap \in Nat /\ t.gasFeeCap < ValueLimit
      /\ t.gasTipCap \in Nat /\ t.gasTipCap < ValueLimit
      /\ block.baseFee \in Nat /\ block.baseFee < ValueLimit
      /\ ValueLimit \in Nat \ {0}
  BY <1>1, ValueIsNat, ProcessorAssumption
<1>3. CASE freeSimulation(t)
  BY <1>2, <1>3 DEF freeSimulation, calculateGasPrice, Value
<1>4. CASE ~freeSimulation(t)
  <2> DEFINE room == Sub(t.gasFeeCap, block.baseFee)
             tip == IF t.gasTipCap < room THEN t.gasTipCap ELSE room
  <2>1. block.baseFee <= t.gasFeeCap
    BY <1>4 DEF gasPriceCheck
  <2>2. room = t.gasFeeCap - block.baseFee
    <3>1. t.gasFeeCap - block.baseFee \in Nat /\ t.gasFeeCap - block.baseFee < ValueLimit
      BY <1>2, <2>1
    <3> QED
      BY <3>1, SmallModulo DEF Sub
  <2>3. tip \in Nat /\ tip <= t.gasFeeCap - block.baseFee
    BY <1>2, <2>1, <2>2
  <2> HIDE DEF tip
  <2>4. block.baseFee + tip \in Nat /\ block.baseFee + tip <= t.gasFeeCap
    BY <1>2, <2>3
  <2>5. Add(block.baseFee, tip) = block.baseFee + tip
    BY <1>2, <2>4, SmallModulo DEF Add
  <2>6. calculateGasPrice(t) = block.baseFee + tip
    BY <1>4, <2>5 DEF calculateGasPrice, tip
  <2> QED
    BY <1>2, <2>3, <2>4, <2>6 DEF Value
<1> QED
  BY <1>3, <1>4

\* What is left after the settlement: at most what the cap on refunds allows.
LEMMA GasLeftBounds ==
  ASSUME TypeOK, result.gasLeft <= gas, tx.gasLimit >= calculateSetupGas(tx)
  PROVE  LET setupGas == calculateSetupGas(tx)
         IN  /\ calculateGasLeft \in Nat
             /\ tx.gasLimit - calculateGasLeft \in Nat
             /\ tx.gasLimit - calculateGasLeft
                  >= setupGas - setupGas \div (IF block.revision < R10_London THEN 2 ELSE 5)
<1> DEFINE setupGas == calculateSetupGas(tx)
           part == IF block.revision < R10_London THEN 2 ELSE 5
           left == charged(result.gasLeft)
           used == tx.gasLimit - left
           refund == IF result.refund > used \div part THEN used \div part ELSE result.refund
<1>1. setupGas \in Nat /\ tx.gasLimit \in Nat /\ result.gasLeft \in Nat /\ result.refund \in Nat
  BY SetupGasType, TransactionFields DEF TypeOK
<1>2. left \in Nat /\ left <= result.gasLeft
  BY <1>1 DEF charged
<1>3. used \in Nat /\ used >= setupGas
  <2> HIDE DEF left, setupGas
  <2>1. result.gasLeft <= tx.gasLimit - setupGas
    BY DEF gas, setupGas
  <2> QED
    BY <1>1, <1>2, <2>1
<1>4. part \in {2, 5}
  OBVIOUS
<1>5. refund \in Nat /\ refund <= used \div part
  <2> HIDE DEF used, part
  <2> QED
    BY <1>1, <1>3, <1>4
<1>6. used - used \div part >= setupGas - setupGas \div part /\ used \div part <= used
  <2> HIDE DEF used, part, setupGas
  <2> QED
    BY <1>1, <1>3, <1>4
<1>7. calculateGasLeft = IF result.success THEN left + refund ELSE left
  BY DEF calculateGasLeft
<1> HIDE DEF refund, used, part, setupGas, left
<1>8. used \div part \in Nat
  BY <1>3, <1>4
<1>9. tx.gasLimit = used + left
  BY <1>1, <1>2 DEF used
<1>10. CASE result.success
  BY <1>1, <1>2, <1>3, <1>5, <1>6, <1>7, <1>8, <1>9, <1>10 DEF setupGas, part
<1>11. CASE ~result.success
  <2>1. setupGas \div part \in Nat
    BY <1>1, <1>4
  <2> QED
    BY <1>1, <1>2, <1>3, <1>7, <1>9, <1>11, <2>1 DEF setupGas, part
<1> QED
  BY <1>10, <1>11

-----------------------------------------------------------------------------
(* The inductive invariant *)

\* What holds while a transaction is in progress.
InProgress ==
  /\ phase # "idle" => tx.gasLimit >= calculateSetupGas(tx)
  /\ phase = "executed" => result.gasLeft <= gas

\* A call in progress has counted its nonce.
CallCounted ==
  ~OffChainSimulation /\ ~tx.create /\ (phase # "idle" \/ receipt # NoReceipt) =>
    nonce[tx.sender] > tx.nonce

\* The block is one of those considered: no blob fee before Cancun.
BlockFromBlocks == block.revision < R13_Cancun => block.blobBaseFee = 0

IInv == TypeOK /\ BlockFromBlocks /\ InProgress /\ SetupIsPaid /\ CallCounted

LEMMA InitiallyInvariant ==
  ASSUME Init
  PROVE  IInv
<1>1. tx \in Transaction
  BY InputAssumption DEF Init
<1>2. TypeOK
  <2>1. block \in Block /\ balance \in [Account -> Value] /\ 0 \in Value
    BY InputAssumption, ProcessorAssumption DEF Init, Value
  <2>2. nonce \in [Account -> Nonce]
    BY ProcessorAssumption DEF Init, Nonce
  <2>3. count \in 0 .. MaxTransactions
    BY ProcessorAssumption DEF Init
  <2> QED
    BY <1>1, <2>1, <2>2, <2>3 DEF Init, TypeOK, NoResult, NoReceipt
<1>3. BlockFromBlocks
  BY InputAssumption DEF Init, BlockFromBlocks
<1> QED
  BY <1>2, <1>3 DEF Init, IInv, InProgress, SetupIsPaid, CallCounted

LEMMA AcceptInvariant ==
  ASSUME IInv, NEW t \in Transactions, Accept(t)
  PROVE  IInv'
<1>1. t \in Transaction /\ tx' = t /\ phase' = "bought" /\ block' = block
  BY InputAssumption DEF Accept
<1>2. /\ t.sender \in Account /\ t.gasLimit \in Nat /\ t.blobs \in Int /\ t.create \in BOOLEAN
      /\ t.nonce \in Nat
  BY <1>1, TransactionFields
<1>3. gasPrice' \in Value
  BY <1>1, GasPriceBounds DEF IInv, TypeOK, Accept, Acceptable
<1>4. balance' \in [Account -> Value]
  <2> DEFINE cost == Add(Scale(gasPrice', t.gasLimit), blobFee(t, block.blobBaseFee))
  <2>1. balance \in [Account -> Value] /\ balance' = [balance EXCEPT ![t.sender] = Sub(@, cost)]
    BY DEF IInv, TypeOK, Accept, buyGasInternal
  <2>2. cost \in Int
    <3>1. block.blobBaseFee \in Nat /\ gasPrice' \in Nat /\ BlobTxBlobGasPerBlob \in Nat
      BY <1>3, ValueIsNat DEF IInv, TypeOK, Block, BlobTxBlobGasPerBlob
    <3>2. blobFee(t, block.blobBaseFee) \in Int
      <4>1. t.blobs * BlobTxBlobGasPerBlob \in Int
        BY <1>2, <3>1
      <4>2. block.blobBaseFee * (t.blobs * BlobTxBlobGasPerBlob) \in Int
        BY <3>1, <4>1
      <4> QED
        BY <4>2, ModuloType, ValueIsNat DEF blobFee, Scale
    <3>3. Scale(gasPrice', t.gasLimit) \in Int
      <4>1. gasPrice' * t.gasLimit \in Int
        BY <1>2, <3>1
      <4> QED
        BY <4>1, ModuloType, ValueIsNat DEF Scale
    <3>4. Scale(gasPrice', t.gasLimit) + blobFee(t, block.blobBaseFee) \in Int
      BY <3>2, <3>3
    <3> QED
      BY <3>4, ModuloType, ValueIsNat DEF Add
  <2> HIDE DEF cost
  <2>3. Sub(balance[t.sender], cost) \in Value
    <3>1. balance[t.sender] - cost \in Int
      BY <1>2, <2>1, <2>2, ValueIsNat
    <3> QED
      BY <3>1, ModuloType DEF Sub
  <2> QED
    BY <1>2, <2>1, <2>3
<1>5. nonce \in [Account -> Nonce] /\ nonce' \in [Account -> Nonce]
  BY <1>2, ProcessorAssumption DEF IInv, TypeOK, Accept, Nonce
<1>6. held' \in Nat
  <2>1. block.blobBaseFee \in Nat /\ gasPrice' \in Nat
    BY <1>3, ValueIsNat DEF IInv, TypeOK, Block
  <2>2. gasPrice' * t.gasLimit \in Nat
    BY <1>2, <2>1, ProductType
  <2>3. blobCharge(t) \in Nat
    <3>1. CASE t.blobs > 0
      <4>1. t.blobs * BlobTxBlobGasPerBlob \in Nat
        BY <1>2, <3>1 DEF BlobTxBlobGasPerBlob
      <4>2. block.blobBaseFee * (t.blobs * BlobTxBlobGasPerBlob) \in Nat
        BY <2>1, <4>1, ProductType
      <4> QED
        BY <3>1, <4>2 DEF blobCharge
    <3>2. CASE ~(t.blobs > 0)
      BY <3>2 DEF blobCharge
    <3> QED
      BY <3>1, <3>2
  <2> QED
    BY <2>2, <2>3 DEF Accept, Charge
<1>7. count' \in 0 .. MaxTransactions
  BY ProcessorAssumption DEF IInv, TypeOK, Accept
<1>8. TypeOK'
  BY <1>1, <1>3, <1>4, <1>5, <1>6, <1>7 DEF IInv, TypeOK, Accept
<1>9. InProgress'
  <2>1. t.gasLimit >= calculateSetupGas(t)
    BY DEF Accept, Acceptable
  <2>2. calculateSetupGas(tx)' = calculateSetupGas(t)
    BY <1>1 DEF calculateSetupGas
  <2> QED
    BY <1>1, <2>1, <2>2 DEF InProgress
<1>10. SetupIsPaid'
  BY <1>1 DEF SetupIsPaid
<1>11. CallCounted'
  <2> SUFFICES ASSUME ~OffChainSimulation, ~t.create PROVE nonce'[t.sender] > t.nonce
    BY <1>1 DEF CallCounted
  <2>1. t.nonce = nonce[t.sender] /\ nonce[t.sender] + 1 < NonceLimit
    BY DEF Accept, Acceptable, checkTransaction, nonceCheck
  <2>2. nonce'[t.sender] = (nonce[t.sender] + 1) % NonceLimit
    BY <1>2, <1>5 DEF Accept
  <2>3. (nonce[t.sender] + 1) % NonceLimit = nonce[t.sender] + 1
    BY <1>2, <2>1, ProcessorAssumption
  <2> QED
    BY <1>2, <2>1, <2>2, <2>3
<1>12. BlockFromBlocks'
  BY <1>1 DEF IInv, BlockFromBlocks
<1> QED
  BY <1>8, <1>9, <1>10, <1>11, <1>12 DEF IInv

\* The steps that leave the transaction, the block and the nonces of calls alone.
LEMMA SameSetup ==
  ASSUME tx' = tx, block' = block
  PROVE  calculateSetupGas(tx)' = calculateSetupGas(tx) /\ gas' = gas
BY DEF calculateSetupGas, gas

LEMMA NonceCounted ==
  ASSUME TypeOK, tx.create => nonce[tx.sender] + 1 < NonceLimit,
         nonce' = IF tx.create THEN [nonce EXCEPT ![tx.sender] = @ + 1] ELSE nonce
  PROVE  nonce' \in [Account -> Nonce]
<1>1. tx.sender \in Account /\ nonce \in [Account -> Nonce]
  BY TransactionFields DEF TypeOK
<1> QED
  BY <1>1, ProcessorAssumption DEF Nonce

LEMMA ExecuteInvariant ==
  ASSUME IInv, NEW success \in BOOLEAN, NEW gasLeft \in GasLefts, NEW refund \in Refunds,
         NEW to \in Account, Execute(success, gasLeft, refund, to)
  PROVE  IInv'
<1>1. tx' = tx /\ block' = block /\ phase = "bought" /\ phase' = "executed" /\ receipt' = receipt
  BY DEF Execute
<1>2. tx.sender \in Account /\ tx.value \in Nat /\ balance \in [Account -> Value]
  BY TransactionFields, ValueIsNat DEF IInv, TypeOK
<1>3. balance' \in [Account -> Value]
  <2>1. tx.value <= balance[tx.sender] /\ balance[tx.sender] \in Nat /\ balance[tx.sender] < ValueLimit
    BY <1>2, ValueIsNat DEF Execute, canTransferValue
  <2>2. balance[tx.sender] - tx.value \in Value
    BY <1>2, <2>1, ProcessorAssumption DEF Value
  <2> DEFINE taken == [balance EXCEPT ![tx.sender] = @ - tx.value]
  <2>3. taken \in [Account -> Value] /\ taken[to] <= balance[to]
    BY <1>2, <2>2 DEF Value
  <2>4. taken[to] + tx.value \in Value
    <3>1. balance[to] + tx.value < ValueLimit /\ balance[to] \in Nat /\ taken[to] \in Nat
      BY <1>2, <2>3, ValueIsNat DEF Execute
    <3> HIDE DEF taken
    <3> QED
      BY <1>2, <2>3, <3>1, ProcessorAssumption DEF Value
  <2> QED
    BY <1>2, <2>3, <2>4 DEF Execute, Move
<1>4. nonce' \in [Account -> Nonce]
  BY NonceCounted DEF IInv, Execute
<1>5. result' \in [success : BOOLEAN, gasLeft : Nat, refund : Nat]
  BY ProcessorAssumption DEF Execute
<1>6. TypeOK'
  BY <1>3, <1>4, <1>5 DEF IInv, TypeOK, Execute
<1>7. InProgress'
  BY <1>1, SameSetup DEF IInv, InProgress, Execute
<1>8. SetupIsPaid'
  BY <1>1 DEF SetupIsPaid
<1>9. CallCounted'
  BY <1>1 DEF IInv, CallCounted, Execute
<1>10. BlockFromBlocks'
  BY <1>1 DEF IInv, BlockFromBlocks
<1> QED
  BY <1>6, <1>7, <1>8, <1>9, <1>10 DEF IInv

LEMMA NothingInvariant ==
  ASSUME IInv, ExecuteNothing
  PROVE  IInv'
<1>1. tx' = tx /\ block' = block /\ phase = "bought" /\ phase' = "executed"
      /\ receipt' = receipt /\ nonce' = nonce
  BY DEF ExecuteNothing
<1>2. gas \in Nat
  BY <1>1, SetupGasType, TransactionFields DEF IInv, TypeOK, InProgress, gas
<1>3. TypeOK'
  BY <1>2 DEF IInv, TypeOK, ExecuteNothing
<1>4. InProgress'
  BY <1>1, <1>2, SameSetup DEF IInv, InProgress, ExecuteNothing
<1>5. SetupIsPaid' /\ CallCounted' /\ BlockFromBlocks'
  BY <1>1 DEF IInv, SetupIsPaid, CallCounted, BlockFromBlocks
<1> QED
  BY <1>3, <1>4, <1>5 DEF IInv

LEMMA ErrorInvariant ==
  ASSUME IInv, ExecuteError
  PROVE  IInv'
<1>1. tx' = tx /\ block' = block /\ phase = "bought" /\ phase' = "idle"
  BY DEF ExecuteError
<1>2. nonce' \in [Account -> Nonce]
  BY NonceCounted DEF IInv, ExecuteError
<1>3. tx.gasLimit \in Nat /\ calculateSetupGas(tx) \in Nat /\ tx.gasLimit >= calculateSetupGas(tx)
  BY <1>1, TransactionFields, SetupGasType DEF IInv, TypeOK, InProgress
<1>4. TypeOK'
  BY <1>2, <1>3 DEF IInv, TypeOK, ExecuteError
<1>5. SetupIsPaid'
  <2> DEFINE setupGas == calculateSetupGas(tx)
  <2>1. receipt'.gasUsed = tx.gasLimit
    BY DEF ExecuteError
  <2>2. setupGas \div 2 >= 0 /\ setupGas \div 5 >= 0
    BY <1>3
  <2> HIDE DEF setupGas
  <2>3. tx.gasLimit >= setupGas - setupGas \div 2 /\ tx.gasLimit >= setupGas - setupGas \div 5
    BY <1>3, <2>2 DEF setupGas
  <2> QED
    BY <1>1, <1>3, <2>1, <2>3, SameSetup DEF SetupIsPaid, setupGas
<1>6. InProgress' /\ CallCounted' /\ BlockFromBlocks'
  BY <1>1 DEF IInv, InProgress, CallCounted, BlockFromBlocks, ExecuteError
<1> QED
  BY <1>4, <1>5, <1>6 DEF IInv

LEMMA SettleInvariant ==
  ASSUME IInv, returnExcessGas
  PROVE  IInv'
<1>1. tx' = tx /\ block' = block /\ phase = "executed" /\ phase' = "idle" /\ nonce' = nonce
  BY DEF returnExcessGas
<1> DEFINE gasLeft == calculateGasLeft
           gasUsed == tx.gasLimit - gasLeft
           setupGas == calculateSetupGas(tx)
<1>2. /\ gasLeft \in Nat /\ gasUsed \in Nat
      /\ gasUsed >= setupGas - setupGas \div (IF block.revision < R10_London THEN 2 ELSE 5)
  BY <1>1, GasLeftBounds DEF IInv, InProgress
<1>3. tx.sender \in Account /\ tx.gasLimit \in Nat /\ tx.create \in BOOLEAN /\ tx.blobs \in Int
  BY TransactionFields DEF IInv, TypeOK
<1>4. gasPrice \in Nat /\ block.baseFee \in Nat /\ block.blobBaseFee \in Nat
  BY ValueIsNat DEF IInv, TypeOK, Block
<1> HIDE DEF gasLeft, gasUsed
<1>5. \A b \in [Account -> Value] : refundGasInternal(b, gasLeft) \in [Account -> Value]
  <2> SUFFICES ASSUME NEW b \in [Account -> Value]
               PROVE  refundGasInternal(b, gasLeft) \in [Account -> Value]
    OBVIOUS
  <2>1. Scale(gasPrice, gasLeft) \in Int
    BY <1>2, <1>4, ModuloType, ValueIsNat, ProductType DEF Scale
  <2>2. b[tx.sender] + Scale(gasPrice, gasLeft) \in Int
    BY <1>3, <2>1, ValueIsNat
  <2>3. Add(b[tx.sender], Scale(gasPrice, gasLeft)) \in Value
    BY <2>2, ModuloType DEF Add
  <2> QED
    BY <1>3, <2>3 DEF refundGasInternal
<1>6. \A b \in [Account -> Value] : paymentToCoinbase(b, gasUsed) \in [Account -> Value]
  <2> SUFFICES ASSUME NEW b \in [Account -> Value]
               PROVE  paymentToCoinbase(b, gasUsed) \in [Account -> Value]
    OBVIOUS
  <2>1. effectiveTip \in Nat
    BY <1>4, ModuloType, ValueIsNat DEF effectiveTip, Sub
  <2>2. Scale(effectiveTip, gasUsed) \in Int
    BY <1>2, <2>1, ModuloType, ValueIsNat, ProductType DEF Scale
  <2>3. b[Coinbase] + Scale(effectiveTip, gasUsed) \in Int
    BY <2>2, ValueIsNat, ProcessorAssumption
  <2>4. Add(b[Coinbase], Scale(effectiveTip, gasUsed)) \in Value
    BY <2>3, ModuloType DEF Add
  <2> QED
    BY <2>4, ProcessorAssumption DEF paymentToCoinbase
<1>7. burnt' \in Nat
  <2>1. burntPrice \in Nat
    BY <1>4 DEF burntPrice
  <2>2. burntPrice * gasUsed \in Nat
    BY <1>2, <2>1, ProductType
  <2>3. blobCharge(tx) \in Nat
    <3>1. CASE tx.blobs > 0
      <4>1. tx.blobs * BlobTxBlobGasPerBlob \in Nat
        BY <1>3, <3>1 DEF BlobTxBlobGasPerBlob
      <4>2. block.blobBaseFee * (tx.blobs * BlobTxBlobGasPerBlob) \in Nat
        BY <1>4, <4>1, ProductType
      <4> QED
        BY <3>1, <4>2 DEF blobCharge
    <3>2. CASE ~(tx.blobs > 0)
      BY <3>2 DEF blobCharge
    <3> QED
      BY <3>1, <3>2
  <2> QED
    BY <2>2, <2>3 DEF IInv, TypeOK, returnExcessGas, gasUsed, gasLeft
<1>8. balance' \in [Account -> Value]
  BY <1>5, <1>6 DEF IInv, TypeOK, returnExcessGas, gasUsed, gasLeft
<1>9. receipt' = [success |-> result.success, gasUsed |-> gasUsed, contractAddress |-> tx.create]
  BY DEF returnExcessGas, gasUsed, gasLeft
<1>10. TypeOK'
  BY <1>2, <1>3, <1>7, <1>8, <1>9 DEF IInv, TypeOK, returnExcessGas
<1>11. SetupIsPaid'
  <2>1. gasUsed <= tx.gasLimit
    BY <1>2, <1>3 DEF gasUsed
  <2> QED
    BY <1>1, <1>2, <1>9, <2>1, SameSetup DEF SetupIsPaid
<1>12. InProgress' /\ CallCounted' /\ BlockFromBlocks'
  BY <1>1 DEF IInv, InProgress, CallCounted, BlockFromBlocks
<1> QED
  BY <1>10, <1>11, <1>12 DEF IInv

LEMMA Invariance ==
  ASSUME IInv, [Next]_vars
  PROVE  IInv'
<1>1. CASE UNCHANGED vars
  BY <1>1, SameSetup DEF vars, IInv, TypeOK, BlockFromBlocks, InProgress, SetupIsPaid, CallCounted
<1>2. ASSUME NEW t \in Transactions, Reject(t) PROVE IInv'
  <2>1. count' \in 0 .. MaxTransactions
    BY <1>2, ProcessorAssumption DEF IInv, TypeOK, Reject
  <2>2. tx' = tx /\ block' = block
    BY <1>2 DEF Reject
  <2> QED
    BY <1>2, <2>1, <2>2, SameSetup
       DEF IInv, TypeOK, BlockFromBlocks, InProgress, SetupIsPaid, CallCounted, Reject
<1> QED
  BY <1>1, <1>2, AcceptInvariant, NothingInvariant, ExecuteInvariant, ErrorInvariant, SettleInvariant
     DEF Next

LEMMA AlwaysInvariant == Spec => []IInv
BY InitiallyInvariant, Invariance, PTL DEF Spec

-----------------------------------------------------------------------------
(* What follows from it *)

\* The processor keeps balances, nonces, prices and receipts in their types.
THEOREM TypeCorrect == Spec => []TypeOK
<1>1. IInv => TypeOK
  BY DEF IInv
<1> QED
  BY <1>1, AlwaysInvariant, PTL

\* Whatever an execution leaves and collects, calculateGasLeft makes it pay for
\* the set-up and never more than the gas limit.
THEOREM SetupAlwaysPaid == Spec => []SetupIsPaid
<1>1. IInv => SetupIsPaid
  BY DEF IInv
<1> QED
  BY <1>1, AlwaysInvariant, PTL

\* Outside of simulations no call is executed twice, with the rules of Sonic and
\* with those of Ethereum.
THEOREM CallsAreExecutedOnce == ~OffChainSimulation => (Spec => []CallsExecutedOnce)
<1> SUFFICES ASSUME ~OffChainSimulation PROVE Spec => []CallsExecutedOnce
  OBVIOUS
<1>1. IInv => CallsExecutedOnce
  BY DEF IInv, CallCounted, CallsExecutedOnce
<1> QED
  BY <1>1, AlwaysInvariant, PTL

\* The blob fee of no transaction wraps around at its own cap.
BlobFeesFit ==
  \A t \in Transactions : t.blobs > 0 =>
    t.blobGasFeeCap * (t.blobs * BlobTxBlobGasPerBlob) < ValueLimit

\* The balance check covers the purchase.
LEMMA AcceptIsCovered ==
  ASSUME ~OffChainSimulation, BlobFeesFit, IInv, NEW t \in Transactions, Accept(t)
  PROVE  /\ held' \in Nat /\ held' <= balance[t.sender]
         /\ balance' = [balance EXCEPT ![t.sender] = balance[t.sender] - held']
         /\ ethCompatible => t.value <= balance[t.sender] - held'
<1> DEFINE price == gasPrice'
           cap == IF ethCompatible /\ t.gasFeeCap # 0 THEN t.gasFeeCap ELSE price
           value == IF ethCompatible THEN t.value ELSE 0
           blobs == t.blobs * BlobTxBlobGasPerBlob
<1>1. t \in Transaction /\ tx' = t /\ price = calculateGasPrice(t)
  BY InputAssumption DEF Accept
<1>2. /\ t.sender \in Account /\ t.gasLimit \in Nat /\ t.blobs \in Int
      /\ t.gasFeeCap \in Nat /\ t.blobGasFeeCap \in Nat /\ t.value \in Nat
  BY <1>1, TransactionFields, ValueIsNat
<1>3. price \in Nat /\ price <= t.gasFeeCap /\ cap \in Nat /\ price <= cap
  <2>1. price \in Value /\ price <= t.gasFeeCap
    BY <1>1, GasPriceBounds DEF IInv, TypeOK, Accept, Acceptable
  <2> QED
    BY <1>2, <2>1, ValueIsNat
<1>4. block.blobBaseFee \in Nat /\ value \in Nat
  BY <1>2, ValueIsNat DEF IInv, TypeOK, Block
<1>5. price * t.gasLimit \in Nat /\ cap * t.gasLimit \in Nat /\ price * t.gasLimit <= cap * t.gasLimit
  BY <1>2, <1>3, Monotone, ProductType
<1> HIDE DEF cap, value, price
<1>6. /\ blobCharge(t) \in Nat
      /\ blobFee(t, t.blobGasFeeCap) \in Nat
      /\ blobCharge(t) <= blobFee(t, t.blobGasFeeCap)
  <2>1. CASE t.blobs > 0
    <3>1. blobs \in Nat
      BY <1>2, <2>1 DEF BlobTxBlobGasPerBlob
    <3>2. block.blobBaseFee <= t.blobGasFeeCap
      <4>1. block.revision >= R13_Cancun => t.blobGasFeeCap >= block.blobBaseFee
        BY <2>1 DEF Accept, Acceptable, checkTransaction, checkBlobs
      <4>2. block.revision < R13_Cancun => block.blobBaseFee = 0
        BY DEF IInv, BlockFromBlocks
      <4>3. block.revision \in Int
        BY DEF IInv, TypeOK, Block, Revision, R07_Istanbul, R15_Osaka
      <4> QED
        BY <1>2, <1>4, <4>1, <4>2, <4>3 DEF R13_Cancun
    <3> HIDE DEF blobs
    <3>3. /\ block.blobBaseFee * blobs \in Nat /\ t.blobGasFeeCap * blobs \in Nat
          /\ block.blobBaseFee * blobs <= t.blobGasFeeCap * blobs
      BY <1>2, <1>4, <3>1, <3>2, Monotone, ProductType
    <3>4. t.blobGasFeeCap * blobs < ValueLimit
      BY <2>1 DEF BlobFeesFit, blobs
    <3>5. blobFee(t, t.blobGasFeeCap) = t.blobGasFeeCap * blobs
      BY <2>1, <3>3, <3>4, SmallModulo DEF blobFee, Scale, blobs
    <3>6. blobCharge(t) = block.blobBaseFee * blobs
      BY <2>1 DEF blobCharge, blobs
    <3> QED
      BY <3>3, <3>5, <3>6
  <2>2. CASE ~(t.blobs > 0)
    BY <2>2 DEF blobCharge, blobFee
  <2> QED
    BY <2>1, <2>2
<1>7. cap * t.gasLimit + value + blobFee(t, t.blobGasFeeCap) <= balance[t.sender]
  BY <1>1 DEF Accept, Acceptable, balanceCheck, cap, value, price
<1>8. balance[t.sender] \in Nat /\ balance[t.sender] < ValueLimit /\ balance \in [Account -> Value]
  BY <1>2, ValueIsNat DEF IInv, TypeOK
<1> DEFINE cost == price * t.gasLimit + blobCharge(t)
<1>9. ValueLimit \in Nat \ {0}
  BY ProcessorAssumption
<1>10. /\ cost \in Nat /\ cost <= balance[t.sender]
       /\ price * t.gasLimit < ValueLimit /\ blobCharge(t) < ValueLimit /\ cost < ValueLimit
  BY <1>4, <1>5, <1>6, <1>7, <1>8, <1>9
<1>11. Add(Scale(price, t.gasLimit), blobFee(t, block.blobBaseFee)) = cost
  <2>1. Scale(price, t.gasLimit) = price * t.gasLimit
    BY <1>5, <1>10, SmallModulo DEF Scale
  <2>2. blobFee(t, block.blobBaseFee) = blobCharge(t)
    BY <1>6, <1>10, SmallModulo DEF blobFee, blobCharge, Scale
  <2> QED
    BY <1>10, <2>1, <2>2, SmallModulo DEF Add
<1> HIDE DEF cost
<1>12. Sub(balance[t.sender], cost) = balance[t.sender] - cost
  <2>1. balance[t.sender] - cost \in Nat /\ balance[t.sender] - cost < ValueLimit
    BY <1>8, <1>9, <1>10
  <2> QED
    BY <2>1, SmallModulo DEF Sub
<1>13. balance' = [balance EXCEPT ![t.sender] = Sub(balance[t.sender], cost)]
  BY <1>2, <1>8, <1>11 DEF Accept, buyGasInternal, price
<1>14. held' = cost
  BY DEF Accept, Charge, cost, price
<1>15. ethCompatible => t.value <= balance[t.sender] - cost
  BY <1>2, <1>5, <1>6, <1>7, <1>8 DEF value, cost
<1> QED
  BY <1>10, <1>12, <1>13, <1>14, <1>15

\* The check made with the caps covers the purchase made with the prices of the
\* block, provided no blob fee wraps around at its own cap.
THEOREM PurchaseAlwaysCovered ==
  ~OffChainSimulation /\ BlobFeesFit => (Spec => PurchaseIsCovered)
<1> SUFFICES ASSUME ~OffChainSimulation, BlobFeesFit PROVE Spec => PurchaseIsCovered
  OBVIOUS
<1> DEFINE Covered == phase = "idle" /\ phase' = "bought" =>
                        balance'[tx'.sender] = balance[tx'.sender] - held'
<1>1. ASSUME IInv, [Next]_vars PROVE [Covered]_vars
  <2>1. SUFFICES ASSUME Next, phase = "idle", phase' = "bought" PROVE Covered
    BY <1>1
  <2>2. PICK t \in Transactions : Accept(t)
    BY <2>1 DEF Next, Reject, ExecuteNothing, Execute, ExecuteError, returnExcessGas
  <2>3. tx' = t /\ t.sender \in Account /\ balance \in [Account -> Value]
    BY <1>1, <2>2, InputAssumption, TransactionFields DEF Accept, IInv, TypeOK
  <2>4. balance' = [balance EXCEPT ![t.sender] = balance[t.sender] - held']
    BY <1>1, <2>2, AcceptIsCovered
  <2> QED
    BY <2>3, <2>4
<1>2. Spec => [][Covered]_vars
  BY <1>1, AlwaysInvariant, PTL DEF Spec
<1> QED
  BY <1>2 DEF PurchaseIsCovered

-----------------------------------------------------------------------------
(* Where the money goes *)

\* All the money there is fits into a Value: 2^256 is far more than any chain
\* has issued.
SupplyFits == \A b \in Balances : Total(b) < ValueLimit

\* What the sender of the open transaction has paid is known, and the price of
\* its gas covers the base fee.
PaymentKnown ==
  /\ phase = "idle" => held = 0
  /\ phase # "idle" => held = Charge(tx, gasPrice) /\ gasPrice >= block.baseFee

\* A create in progress can be executed, and counts its nonce then.
CreateCounted ==
  ethCompatible /\ tx.create =>
    /\ phase = "bought" => /\ nonce[tx.sender] = tx.nonce /\ tx.nonce + 1 < NonceLimit
                           /\ tx.value <= balance[tx.sender]
    /\ phase = "executed" \/ (phase = "idle" /\ receipt # NoReceipt) => nonce[tx.sender] > tx.nonce

MoneyInv == EveryUnitIsAccountedFor /\ PaymentKnown /\ CreateCounted

\* What the totals of balances rest on.
INSTANCE WellFoundedInduction

LEMMA InductionHolds == Induction
<1> SUFFICES ASSUME NEW T, 0 \in T, \A n \in Nat : n \in T => n + 1 \in T, Nat \ T # {}
             PROVE  FALSE
  BY Zenon DEF Induction
<1>1. IsWellFoundedOn(OpToRel(<, Nat), Nat)
  BY NatLessThanWellFounded, Zenon
<1> DEFINE R == OpToRel(<, Nat)
<1>2. PICK m \in Nat \ T : \A k \in Nat \ T : <<k, m>> \notin R
  <2> HIDE DEF R
  <2> QED
   BY <1>1, WFMin, Zenon DEF R
<1>3. m # 0 /\ m - 1 \in Nat
  OBVIOUS
<1>4. m - 1 \notin T
  BY <1>3
<1>5. <<m - 1, m>> \in R
  BY <1>3 DEF OpToRel
<1> QED
  BY <1>2, <1>3, <1>4, <1>5, Zenon

LEMMA AccountListed == Listed(Account)
BY ProcessorAssumption, FiniteIsListed

LEMMA BalanceTypes ==
  ASSUME NEW b \in [Account -> Value]
  PROVE  /\ b \in [Account -> Int] /\ b \in [Account -> Nat]
         /\ Total(b) \in Nat
         /\ \A a \in Account : b[a] <= Total(b)
         /\ \A a \in Account, c \in Account : a # c => b[a] + b[c] <= Total(b)
<1>1. b \in [Account -> Int] /\ b \in [Account -> Nat]
  BY ValueIsNat
<1> QED
  BY <1>1, InductionHolds, TotalBounds, AccountListed

\* A payment to an account adds to the supply what it adds to the account.
LEMMA Payment ==
  ASSUME NEW b \in [Account -> Value], NEW a \in Account, NEW v \in Int
  PROVE  Total([b EXCEPT ![a] = b[a] + v]) = Total(b) + v
<1>1. b \in [Account -> Int] /\ b[a] \in Int /\ Total(b) \in Int
  BY BalanceTypes
<1> DEFINE w == b[a] + v
<1>2. w \in Int
  BY <1>1
<1>3. Total([b EXCEPT ![a] = w]) = Total(b) - b[a] + w
  <2>1. Listed(Account)
    BY AccountListed
  <2> HIDE DEF w
  <2> QED
    BY <1>1, <1>2, <2>1, InductionHolds, TotalUpdate, Zenon
<1> QED
  BY <1>1, <1>3

LEMMA ChargeType ==
  ASSUME TypeOK
  PROVE  blobCharge(tx) \in Nat /\ gasPrice * tx.gasLimit \in Nat /\ Charge(tx, gasPrice) \in Nat
<1>1. block.blobBaseFee \in Nat /\ gasPrice \in Nat /\ tx.gasLimit \in Nat /\ tx.blobs \in Int
  BY ValueIsNat, TransactionFields DEF TypeOK, Block
<1>2. gasPrice * tx.gasLimit \in Nat
  BY <1>1, ProductType
<1>3. blobCharge(tx) \in Nat
  <2>1. CASE tx.blobs > 0
    <3>1. tx.blobs * BlobTxBlobGasPerBlob \in Nat
      BY <1>1, <2>1 DEF BlobTxBlobGasPerBlob
    <3>2. block.blobBaseFee * (tx.blobs * BlobTxBlobGasPerBlob) \in Nat
      BY <1>1, <3>1, ProductType
    <3> QED
      BY <2>1, <3>2 DEF blobCharge
  <2>2. CASE ~(tx.blobs > 0)
    BY <2>2 DEF blobCharge
  <2> QED
    BY <2>1, <2>2
<1> QED
  BY <1>2, <1>3 DEF Charge

\* What the accounts have and what was paid is bounded by what there was.
LEMMA SupplyBound ==
  ASSUME TypeOK, SupplyFits, EveryUnitIsAccountedFor
  PROVE  Supply \in Nat /\ Supply + held < ValueLimit
<1>1. PICK b \in Balances : Supply + held + burnt = Total(b)
  BY DEF EveryUnitIsAccountedFor
<1>2. Total(b) \in Nat /\ Total(b) < ValueLimit
  BY BalanceTypes, InputAssumption DEF SupplyFits
<1>3. Supply \in Nat /\ held \in Nat /\ burnt \in Nat
  BY BalanceTypes DEF TypeOK, Supply
<1> QED
  BY <1>1, <1>2, <1>3, ProcessorAssumption

\* Nothing is lost when what one of the three loses another one gains.
LEMMA Balanced ==
  ASSUME EveryUnitIsAccountedFor, (Supply + held + burnt)' = Supply + held + burnt
  PROVE  EveryUnitIsAccountedFor'
BY DEF EveryUnitIsAccountedFor

LEMMA InitiallyMoneyInv ==
  ASSUME Init
  PROVE  MoneyInv
<1>1. Supply \in Nat
  BY InputAssumption, BalanceTypes DEF Init, Supply
<1>2. EveryUnitIsAccountedFor
  <2>1. Supply + held + burnt = Total(balance) /\ balance \in Balances
    BY <1>1 DEF Init, Supply
  <2> QED
    BY <2>1 DEF EveryUnitIsAccountedFor
<1> QED
  BY <1>2 DEF Init, MoneyInv, PaymentKnown, CreateCounted

LEMMA AcceptMoney ==
  ASSUME ~OffChainSimulation, BlobFeesFit, IInv, MoneyInv, NEW t \in Transactions, Accept(t)
  PROVE  MoneyInv'
<1>1. t \in Transaction /\ tx' = t /\ phase' = "bought" /\ phase = "idle" /\ burnt' = burnt
      /\ block' = block /\ ethCompatible' = ethCompatible /\ receipt' = receipt
  BY InputAssumption DEF Accept
<1>2. /\ held' \in Nat
      /\ balance' = [balance EXCEPT ![t.sender] = balance[t.sender] - held']
      /\ ethCompatible => t.value <= balance[t.sender] - held'
  BY AcceptIsCovered
<1>3. t.sender \in Account /\ balance \in [Account -> Value] /\ burnt \in Nat
  BY <1>1, TransactionFields DEF IInv, TypeOK
<1>4. EveryUnitIsAccountedFor'
  <2>1. balance[t.sender] \in Int /\ Total(balance) \in Int
    BY <1>3, BalanceTypes
  <2> DEFINE v == 0 - held'
  <2>2. v \in Int /\ balance[t.sender] - held' = balance[t.sender] + v
    BY <1>2, <2>1
  <2>3. Total(balance') = Total(balance) + v
    <3> HIDE DEF v
    <3>1. balance' = [balance EXCEPT ![t.sender] = balance[t.sender] + v]
      BY <1>2, <2>2, Zenon
    <3>2. Total([balance EXCEPT ![t.sender] = balance[t.sender] + v]) = Total(balance) + v
      BY <1>3, <2>2, Payment, Zenon
    <3> QED
      BY <3>1, <3>2
  <2>4. held = 0
    BY <1>1 DEF MoneyInv, PaymentKnown
  <2>5. (Supply + held + burnt)' = Supply + held + burnt
    BY <1>1, <1>2, <1>3, <2>1, <2>3, <2>4 DEF Supply
  <2> QED
    BY <2>5, Balanced DEF MoneyInv
<1>5. PaymentKnown'
  <2>1. held' = Charge(tx, gasPrice)'
    BY <1>1 DEF Accept, Charge, blobCharge
  <2>2. gasPrice' >= block.baseFee
    BY <1>1, GasPriceBounds DEF IInv, TypeOK, Accept, Acceptable, freeSimulation
  <2> QED
    BY <1>1, <2>1, <2>2 DEF PaymentKnown
<1>6. CreateCounted'
  <2> SUFFICES ASSUME ethCompatible, t.create
               PROVE  /\ nonce'[t.sender] = t.nonce /\ t.nonce + 1 < NonceLimit
                      /\ t.value <= balance'[t.sender]
    BY <1>1 DEF CreateCounted
  <2>1. nonce' = nonce /\ t.nonce = nonce[t.sender] /\ nonce[t.sender] + 1 < NonceLimit
    BY DEF Accept, Acceptable, checkTransaction, nonceCheck
  <2> QED
    BY <1>2, <1>3, <2>1
<1> QED
  BY <1>4, <1>5, <1>6 DEF MoneyInv

LEMMA ExecuteMoney ==
  ASSUME IInv, MoneyInv, NEW success \in BOOLEAN, NEW gasLeft \in GasLefts,
         NEW refund \in Refunds, NEW to \in Account, Execute(success, gasLeft, refund, to)
  PROVE  MoneyInv'
<1>1. /\ phase = "bought" /\ phase' = "executed" /\ tx' = tx /\ block' = block
      /\ gasPrice' = gasPrice /\ held' = held /\ burnt' = burnt
      /\ ethCompatible' = ethCompatible /\ receipt' = receipt
  BY DEF Execute
<1>2. /\ tx.sender \in Account /\ tx.value \in Nat /\ balance \in [Account -> Value]
      /\ nonce \in [Account -> Nonce] /\ tx.nonce \in Nat
  BY TransactionFields, ValueIsNat DEF IInv, TypeOK
<1>3. Total(balance') = Total(balance)
  <2>1. CASE success
    <3> DEFINE v == 0 - tx.value
               taken == [balance EXCEPT ![tx.sender] = balance[tx.sender] + v]
    <3>1. tx.value <= balance[tx.sender] /\ balance[tx.sender] \in Nat
          /\ balance[tx.sender] < ValueLimit /\ Total(balance) \in Int
      BY <1>2, BalanceTypes, ValueIsNat DEF Execute, canTransferValue
    <3>2. v \in Int /\ balance[tx.sender] - tx.value = balance[tx.sender] + v
          /\ balance[tx.sender] + v \in Value
      BY <1>2, <3>1, ProcessorAssumption DEF Value
    <3>3. balance' = [taken EXCEPT ![to] = taken[to] + tx.value]
      BY <1>2, <2>1, <3>2, Zenon DEF Execute, Move
    <3> HIDE DEF v
    <3>4. Total(taken) = Total(balance) + v
      BY <1>2, <3>2, Payment, Zenon
    <3>5. taken \in [Account -> Value]
      BY <1>2, <3>2
    <3> HIDE DEF taken
    <3>6. Total(balance') = Total(taken) + tx.value
      <4>1. tx.value \in Int
        BY <1>2
      <4>2. Total([taken EXCEPT ![to] = taken[to] + tx.value]) = Total(taken) + tx.value
        BY <3>5, <4>1, Payment, Zenon
      <4> QED
        BY <3>3, <4>2
    <3> QED
      BY <1>2, <3>1, <3>4, <3>6 DEF v
  <2>2. CASE ~success
    BY <2>2 DEF Execute
  <2> QED
    BY <2>1, <2>2
<1>4. EveryUnitIsAccountedFor'
  BY <1>1, <1>3, Balanced DEF MoneyInv, Supply
<1>5. PaymentKnown'
  BY <1>1 DEF MoneyInv, PaymentKnown, Charge, blobCharge
<1>6. CreateCounted'
  <2> SUFFICES ASSUME ethCompatible, tx.create PROVE nonce'[tx.sender] > tx.nonce
    BY <1>1 DEF CreateCounted
  <2>1. nonce' = [nonce EXCEPT ![tx.sender] = nonce[tx.sender] + 1] /\ nonce[tx.sender] = tx.nonce
    BY <1>1 DEF Execute, MoneyInv, CreateCounted
  <2> QED
    BY <1>2, <2>1
<1> QED
  BY <1>4, <1>5, <1>6 DEF MoneyInv

\* The value of a create with the Ethereum rules is there, and its transfer
\* overflows no balance: runContext.Call does not return at once.
LEMMA CreateIsExecuted ==
  ASSUME SupplyFits, IInv, MoneyInv, ethCompatible, tx.create, phase = "bought"
  PROVE  canTransferValue /\ nonce[tx.sender] + 1 < NonceLimit
<1>1. /\ tx.sender \in Account /\ tx.value \in Nat /\ balance \in [Account -> Value]
      /\ NoAddress \in Account /\ held \in Nat
  BY TransactionFields, ValueIsNat, ProcessorAssumption DEF IInv, TypeOK
<1>2. nonce[tx.sender] + 1 < NonceLimit /\ tx.value <= balance[tx.sender]
  BY DEF MoneyInv, CreateCounted
<1>3. Total(balance) \in Nat /\ Total(balance) + held < ValueLimit
  BY SupplyBound DEF IInv, MoneyInv, Supply
<1>4. ASSUME tx.sender # NoAddress PROVE balance[NoAddress] + tx.value < ValueLimit
  <2>1. balance[NoAddress] + balance[tx.sender] <= Total(balance)
        /\ balance[NoAddress] \in Nat /\ balance[tx.sender] \in Nat
    BY <1>1, <1>4, BalanceTypes
  <2> QED
    BY <1>1, <1>2, <1>3, <2>1, ProcessorAssumption
<1> QED
  BY <1>2, <1>4 DEF canTransferValue

LEMMA NothingMoney ==
  ASSUME SupplyFits, IInv, MoneyInv, ExecuteNothing
  PROVE  MoneyInv'
<1>1. /\ phase = "bought" /\ phase' = "executed" /\ tx' = tx /\ block' = block /\ nonce' = nonce
      /\ gasPrice' = gasPrice /\ held' = held /\ burnt' = burnt /\ balance' = balance
      /\ ethCompatible' = ethCompatible /\ receipt' = receipt
  BY DEF ExecuteNothing
<1>2. ~(ethCompatible /\ tx.create)
  <2> SUFFICES ASSUME ethCompatible, tx.create PROVE FALSE
    OBVIOUS
  <2>1. canTransferValue /\ nonce[tx.sender] + 1 < NonceLimit
    BY <1>1, CreateIsExecuted
  <2>2. nonce[tx.sender] \in Nat
    BY TransactionFields DEF IInv, TypeOK, Nonce
  <2> QED
    BY <2>1, <2>2, ProcessorAssumption DEF ExecuteNothing
<1>3. EveryUnitIsAccountedFor'
  BY <1>1, Balanced DEF MoneyInv, Supply
<1>4. PaymentKnown' /\ CreateCounted'
  BY <1>1, <1>2 DEF MoneyInv, PaymentKnown, CreateCounted, Charge, blobCharge
<1> QED
  BY <1>3, <1>4 DEF MoneyInv

LEMMA ErrorMoney ==
  ASSUME IInv, MoneyInv, ExecuteError
  PROVE  MoneyInv'
<1>1. /\ phase = "bought" /\ phase' = "idle" /\ tx' = tx /\ held' = 0 /\ burnt' = burnt + held
      /\ balance' = balance /\ ethCompatible' = ethCompatible
  BY DEF ExecuteError
<1>2. /\ tx.sender \in Account /\ balance \in [Account -> Value] /\ nonce \in [Account -> Nonce]
      /\ tx.nonce \in Nat /\ held \in Nat /\ burnt \in Nat
  BY TransactionFields DEF IInv, TypeOK
<1>3. EveryUnitIsAccountedFor'
  <2>1. Supply \in Nat /\ Supply' = Supply
    BY <1>1, <1>2, BalanceTypes DEF Supply
  <2>2. (Supply + held + burnt)' = Supply + held + burnt
    BY <1>1, <1>2, <2>1
  <2> QED
    BY <2>2, Balanced DEF MoneyInv
<1>4. CreateCounted'
  <2> SUFFICES ASSUME ethCompatible, tx.create PROVE nonce'[tx.sender] > tx.nonce
    BY <1>1 DEF CreateCounted
  <2>1. nonce' = [nonce EXCEPT ![tx.sender] = nonce[tx.sender] + 1] /\ nonce[tx.sender] = tx.nonce
    BY <1>1 DEF ExecuteError, MoneyInv, CreateCounted
  <2> QED
    BY <1>2, <2>1
<1> QED
  BY <1>1, <1>3, <1>4 DEF MoneyInv, PaymentKnown

\* What is returned, what the coinbase gets and what is burnt is the price of the
\* gas that was bought.
LEMMA SharesAddUp ==
  ASSUME NEW price \in Nat, NEW tip \in Nat, NEW fee \in Nat, tip + fee = price,
         NEW left \in Nat, NEW used \in Nat
  PROVE  /\ price * left \in Nat /\ tip * used \in Nat /\ fee * used \in Nat
         /\ price * left + tip * used + fee * used = price * (left + used)
<1>1. price * left \in Nat /\ tip * used \in Nat /\ fee * used \in Nat /\ price * used \in Nat
  BY ProductType
<1>2. price * used = tip * used + fee * used
  OBVIOUS
<1>3. price * (left + used) = price * left + price * used
  OBVIOUS
<1> QED
  BY <1>1, <1>2, <1>3

\* A payment that stays below what there is does not wrap around.
LEMMA PaymentFits ==
  ASSUME NEW b \in [Account -> Value], NEW a \in Account, NEW v \in Nat,
         Total(b) + v < ValueLimit
  PROVE  /\ [b EXCEPT ![a] = Add(b[a], v % ValueLimit)] \in [Account -> Value]
         /\ Total([b EXCEPT ![a] = Add(b[a], v % ValueLimit)]) = Total(b) + v
<1>1. Total(b) \in Nat /\ b[a] \in Nat /\ b[a] <= Total(b) /\ ValueLimit \in Nat \ {0}
  BY BalanceTypes, ProcessorAssumption
<1>2. v < ValueLimit /\ b[a] + v \in Nat /\ b[a] + v < ValueLimit
  BY <1>1
<1>3. Add(b[a], v % ValueLimit) = b[a] + v
  BY <1>2, SmallModulo DEF Add
<1>4. b[a] + v \in Value
  BY <1>2, ProcessorAssumption DEF Value
<1>5. Total([b EXCEPT ![a] = b[a] + v]) = Total(b) + v
  <2>1. v \in Int
    OBVIOUS
  <2> QED
    BY <2>1, Payment, Zenon
<1> QED
  BY <1>3, <1>4, <1>5, Zenon

LEMMA SettleMoney ==
  ASSUME SupplyFits, IInv, MoneyInv, returnExcessGas
  PROVE  MoneyInv'
<1>1. /\ phase = "executed" /\ phase' = "idle" /\ tx' = tx /\ nonce' = nonce /\ held' = 0
      /\ ethCompatible' = ethCompatible
  BY DEF returnExcessGas
<1> DEFINE left == calculateGasLeft
           used == tx.gasLimit - left
           tip == IF ethCompatible THEN effectiveTip ELSE 0
           b1 == refundGasInternal(balance, left)
<1>2. left \in Nat /\ used \in Nat
  BY <1>1, GasLeftBounds DEF IInv, InProgress
<1>3. /\ tx.sender \in Account /\ tx.gasLimit \in Nat /\ Coinbase \in Account
      /\ balance \in [Account -> Value] /\ burnt \in Nat /\ held \in Nat
  BY TransactionFields, ProcessorAssumption DEF IInv, TypeOK
<1>4. gasPrice \in Nat /\ gasPrice < ValueLimit /\ block.baseFee \in Nat /\ gasPrice >= block.baseFee
  BY <1>1, ValueIsNat DEF IInv, TypeOK, Block, MoneyInv, PaymentKnown
<1>5. held = gasPrice * tx.gasLimit + blobCharge(tx) /\ blobCharge(tx) \in Nat
  BY <1>1, ChargeType DEF IInv, MoneyInv, PaymentKnown, Charge
<1>6. balance' = paymentToCoinbase(b1, used)
      /\ burnt' = burnt + burntPrice * used + blobCharge(tx)
  BY DEF returnExcessGas
<1>7. tip \in Nat /\ burntPrice \in Nat /\ tip + burntPrice = gasPrice
  <2>1. CASE ~ethCompatible
    BY <1>4, <2>1 DEF burntPrice
  <2>2. CASE ethCompatible /\ block.revision >= R10_London
    <3>1. gasPrice - block.baseFee \in Nat /\ gasPrice - block.baseFee < ValueLimit
      BY <1>4, ProcessorAssumption
    <3>2. effectiveTip = gasPrice - block.baseFee
      BY <2>2, <3>1, SmallModulo DEF effectiveTip, Sub
    <3> QED
      BY <1>4, <2>2, <3>1, <3>2 DEF burntPrice
  <2>3. CASE ethCompatible /\ ~(block.revision >= R10_London)
    BY <1>4, <2>3 DEF burntPrice, effectiveTip
  <2> QED
    BY <2>1, <2>2, <2>3
<1>8. left + used = tx.gasLimit
  BY <1>2, <1>3
<1> HIDE DEF left, used, tip
<1>9. /\ gasPrice * left \in Nat /\ tip * used \in Nat /\ burntPrice * used \in Nat
      /\ gasPrice * left + tip * used + burntPrice * used = gasPrice * tx.gasLimit
  BY <1>2, <1>4, <1>7, <1>8, SharesAddUp
<1>10. Total(balance) \in Nat /\ Total(balance) + held < ValueLimit
  BY SupplyBound DEF IInv, MoneyInv, Supply
<1>11. b1 \in [Account -> Value] /\ Total(b1) = Total(balance) + gasPrice * left
  <2>1. Total(balance) + gasPrice * left < ValueLimit
    BY <1>5, <1>9, <1>10, ProcessorAssumption
  <2> DEFINE v == gasPrice * left
  <2>2. v \in Nat /\ Total(balance) + v < ValueLimit
    BY <1>9, <2>1
  <2>3. b1 = [balance EXCEPT ![tx.sender] = Add(balance[tx.sender], v % ValueLimit)]
    BY DEF refundGasInternal, Scale
  <2> HIDE DEF b1, v
  <2>4. b1 \in [Account -> Value] /\ Total(b1) = Total(balance) + v
    BY <1>3, <2>2, <2>3, PaymentFits, Zenon
  <2> QED
    BY <2>4 DEF v
<1> HIDE DEF b1
<1>12. Total(balance') = Total(b1) + tip * used
  <2>1. CASE ethCompatible
    <3>1. tip = effectiveTip
      BY <2>1 DEF tip
    <3> DEFINE v == tip * used
    <3>2. balance' = [b1 EXCEPT ![Coinbase] = Add(b1[Coinbase], v % ValueLimit)]
      BY <1>6, <2>1, <3>1 DEF paymentToCoinbase, Scale
    <3>3. v \in Nat /\ Total(b1) + v < ValueLimit
      BY <1>5, <1>9, <1>10, <1>11, ProcessorAssumption
    <3> HIDE DEF v
    <3>4. Total(balance') = Total(b1) + v
      <4>1. b1 \in [Account -> Value] /\ Coinbase \in Account
        BY <1>3, <1>11
      <4>2. Total([b1 EXCEPT ![Coinbase] = Add(b1[Coinbase], v % ValueLimit)]) = Total(b1) + v
        BY <3>3, <4>1, PaymentFits, Zenon
      <4> QED
        BY <3>2, <4>2
    <3> QED
      BY <3>4 DEF v
  <2>2. CASE ~ethCompatible
    <3>1. tip = 0 /\ balance' = b1
      BY <1>6, <2>2 DEF tip, paymentToCoinbase
    <3>2. tip * used = 0
      BY <1>2, <3>1
    <3> QED
      BY <1>9, <1>10, <1>11, <3>1, <3>2
  <2> QED
    BY <2>1, <2>2
<1>13. EveryUnitIsAccountedFor'
  <2>1. (Supply + held + burnt)' = Supply + held + burnt
    <3>1. Total(balance') = Total(balance) + gasPrice * left + tip * used
      BY <1>11, <1>12
    <3>2. Total(balance') + 0 + burnt' = Total(balance) + held + burnt
      BY <1>3, <1>5, <1>6, <1>9, <1>10, <3>1
    <3> QED
      BY <1>1, <3>2 DEF Supply
  <2> QED
    BY <2>1, Balanced DEF MoneyInv
<1>14. CreateCounted'
  BY <1>1 DEF MoneyInv, CreateCounted
<1> QED
  BY <1>1, <1>13, <1>14 DEF MoneyInv, PaymentKnown

LEMMA MoneyInvariance ==
  ASSUME ~OffChainSimulation, BlobFeesFit, SupplyFits, IInv, MoneyInv, [Next]_vars
  PROVE  MoneyInv'
<1>1. ASSUME UNCHANGED <<ethCompatible, block, balance, nonce, tx, phase, gasPrice, receipt, held, burnt>>
      PROVE  MoneyInv'
  BY <1>1 DEF MoneyInv, EveryUnitIsAccountedFor, Supply, PaymentKnown, CreateCounted, Charge, blobCharge
<1>2. CASE UNCHANGED vars
  BY <1>1, <1>2 DEF vars
<1>3. ASSUME NEW t \in Transactions, Reject(t) PROVE MoneyInv'
  BY <1>1, <1>3 DEF Reject
<1> QED
  BY <1>2, <1>3, AcceptMoney, ExecuteMoney, NothingMoney, ErrorMoney, SettleMoney DEF Next

LEMMA AlwaysMoneyInv ==
  ASSUME ~OffChainSimulation, BlobFeesFit, SupplyFits
  PROVE  Spec => []MoneyInv
<1>1. ASSUME IInv, MoneyInv, [Next]_vars PROVE MoneyInv'
  BY <1>1, MoneyInvariance
<1> QED
  BY <1>1, InitiallyMoneyInv, AlwaysInvariant, PTL DEF Spec

\* The accounts lose exactly what the receipts say: neither the purchase nor the
\* refund nor the payment to the coinbase wraps around, for any transactions,
\* blocks and balances, as long as no blob fee wraps around at its own cap and
\* all the money there is fits into a Value.
THEOREM EveryUnitAccountedFor ==
  ~OffChainSimulation /\ BlobFeesFit /\ SupplyFits => (Spec => []EveryUnitIsAccountedFor)
<1> SUFFICES ASSUME ~OffChainSimulation, BlobFeesFit, SupplyFits
             PROVE  Spec => []EveryUnitIsAccountedFor
  OBVIOUS
<1>1. MoneyInv => EveryUnitIsAccountedFor
  BY DEF MoneyInv
<1> QED
  BY <1>1, AlwaysMoneyInv, PTL

\* Under the same conditions no create is executed twice with the Ethereum rules:
\* the reserved value makes sure that runContext.Call gets as far as the nonce.
THEOREM CreatesAreExecutedOnce ==
  ~OffChainSimulation /\ BlobFeesFit /\ SupplyFits => (Spec => []CreatesExecutedOnce)
<1> SUFFICES ASSUME ~OffChainSimulation, BlobFeesFit, SupplyFits
             PROVE  Spec => []CreatesExecutedOnce
  OBVIOUS
<1>1. MoneyInv => CreatesExecutedOnce
  BY DEF MoneyInv, CreateCounted, CreatesExecutedOnce
<1> QED
  BY <1>1, AlwaysMoneyInv, PTL

-----------------------------------------------------------------------------
(* Opera in step with Floria *)

Result == [success : BOOLEAN, gasLeft : Nat, refund : Nat]

\* Opera's state is Floria's, but for the result of an execution that was settled.
Same(r) ==
  opera = [balance |-> balance, nonce |-> nonce, phase |-> phase, tx |-> tx,
           gasPrice |-> gasPrice, result |-> r, receipt |-> receipt]

Agreement ==
  comparable =>
    /\ ~ethCompatible
    /\ phase # "idle" => calculateSetupGas(tx) = IntrinsicGas(tx)
    /\ \E r \in Result : Same(r) /\ (phase = "executed" => r = result)

\* Each step of the two is a step of Floria, or none.
LEMMA StepOfFloria ==
  ASSUME NextBoth
  PROVE  [Next]_vars
<1>1. ASSUME NEW t \in Transactions, SubmitToBoth(t) PROVE Next
  BY <1>1 DEF SubmitToBoth, Next
<1>2. ASSUME NEW success \in BOOLEAN, NEW gasLeft \in GasLefts, NEW refund \in Refunds,
             NEW to \in Account, RunBoth(success, gasLeft, refund, to)
      PROVE  Next
  BY <1>2 DEF RunBoth, Next
<1>3. CASE RunNeither
  BY <1>3 DEF RunNeither, Next
<1>4. CASE SettleBoth
  BY <1>4 DEF SettleBoth, Next
<1>5. CASE FailBoth
  BY <1>5 DEF FailBoth, Next
<1>6. CASE FloriaAlone
  BY <1>6 DEF FloriaAlone
<1>7. CASE OperaAlone
  BY <1>7 DEF OperaAlone
<1> QED
  BY <1>1, <1>2, <1>3, <1>4, <1>5, <1>6, <1>7 DEF NextBoth

LEMMA BothIncludesFloria == SpecBoth => Spec
<1>1. ASSUME [NextBoth]_<<vars, operaVars>> PROVE [Next]_vars
  BY <1>1, StepOfFloria
<1> QED
  BY <1>1, PTL DEF SpecBoth, InitBoth, Spec

LEMMA InitiallyAgree ==
  ASSUME InitBoth
  PROVE  Agreement
<1>1. Same(NoResult)
  BY DEF InitBoth, Init, OperaInit, Same
<1>2. NoResult \in Result
  BY DEF NoResult, Result
<1> QED
  BY <1>1, <1>2, Zenon DEF Agreement, InitBoth, Init, OperaInit

\* The two ask for the same of a transaction they are not known to treat
\* differently.
LEMMA ChecksAgree ==
  ASSUME ~OffChainSimulation, ~ethCompatible, IInv, opera.nonce = nonce, opera.balance = balance,
         NEW t \in Transactions, ~TreatedDifferently(t)
  PROVE  /\ calculateSetupGas(t) = IntrinsicGas(t)
         /\ calculateGasPrice(t) = operaGasPrice(t)
         /\ blobFee(t, block.blobBaseFee) = 0
         /\ Acceptable(t) <=> operaGasPriceCheck(t) /\ preCheck(t)
<1>1. t \in Transaction
  BY InputAssumption
<1>2. /\ t.sender \in Account /\ t.gasLimit \in Nat /\ t.gasFeeCap \in Nat /\ t.gasTipCap \in Nat
      /\ t.nonce \in Nat /\ t.nonce < NonceLimit /\ t.create \in BOOLEAN
  <2>1. t.nonce \in Nonce
    BY <1>1 DEF Transaction
  <2> QED
    BY <1>1, <2>1, TransactionFields, ValueIsNat, ProcessorAssumption DEF Nonce
<1>3. t.blobs = -1 /\ ~(t.blobs > 0) /\ ~(t.create /\ block.revision >= R12_Shanghai)
      /\ t.gasTipCap <= t.gasFeeCap /\ t.nonce + 1 # NonceLimit /\ t.gasLimit >= IntrinsicGas(t)
      /\ ~(operaGasPrice(t) * t.gasLimit >= ValueLimit)
  <2>1. IntrinsicGas(t) \in Nat
    <3>1. t.zeros \in Nat /\ t.nonZeros \in Nat /\ t.addresses \in Nat /\ t.keys \in Nat
      BY <1>1, TransactionFields
    <3> QED
      BY <3>1 DEF IntrinsicGas, TxGas, TxGasContractCreation, TxDataNonZeroGasEIP2028,
         TxDataZeroGasEIP2028, TxAccessListAddressGas, TxAccessListStorageKeyGas
  <2> QED
    BY <1>2, <2>1 DEF TreatedDifferently, NoBlobs
<1>4. calculateSetupGas(t) = IntrinsicGas(t)
  <2>1. t.zeros \in Nat /\ t.nonZeros \in Nat /\ t.addresses \in Nat /\ t.keys \in Nat
    BY <1>1, TransactionFields
  <2> QED
    BY <1>3, <2>1 DEF calculateSetupGas, IntrinsicGas, TxGas, TxGasContractCreation,
       TxDataNonZeroGasEIP2028, TxDataZeroGasEIP2028, TxAccessListAddressGas, TxAccessListStorageKeyGas
<1>5. calculateGasPrice(t) = operaGasPrice(t)
  BY DEF calculateGasPrice, operaGasPrice, freeSimulation
<1>6. \A price : blobFee(t, price) = 0
  BY <1>3 DEF blobFee
<1>7. checkTransaction(t) <=> nonceCheck(t) /\ eoaCheck(t)
  BY <1>3 DEF checkTransaction, checkBlobs, initCodeSizeCheck, NoBlobs
<1>8. nonceCheck(t) <=> opera.nonce[t.sender] = t.nonce
  <2>1. nonce[t.sender] = t.nonce => nonce[t.sender] + 1 < NonceLimit
    BY <1>2, <1>3, ProcessorAssumption
  <2> QED
    BY <2>1 DEF nonceCheck
<1>9. gasPriceCheck(t) <=> operaGasPriceCheck(t)
  BY <1>2, <1>3 DEF gasPriceCheck, operaGasPriceCheck, freeSimulation
<1>10. balanceCheck(t) <=> opera.balance[t.sender] >= mgval(t)
  <2>1. operaGasPrice(t) \in Nat
    <3>1. block.baseFee \in Nat
      BY ValueIsNat DEF IInv, TypeOK, Block
    <3>2. Sub(t.gasFeeCap, block.baseFee) \in Nat
      BY <1>2, <3>1, ModuloType, ValueIsNat DEF Sub
    <3> QED
      BY <1>2, <3>1, <3>2, ModuloType, ValueIsNat DEF operaGasPrice, Add
  <2> DEFINE cost == operaGasPrice(t) * t.gasLimit
  <2>2. cost \in Nat /\ cost < ValueLimit
    BY <1>2, <1>3, <2>1, ProductType, ProcessorAssumption
  <2>3. mgval(t) = cost % ValueLimit
    BY DEF mgval, Scale
  <2>4. balanceCheck(t) <=> (cost + 0 + 0 < ValueLimit /\ balance[t.sender] >= cost + 0 + 0)
    BY <1>5, <1>6 DEF balanceCheck
  <2> HIDE DEF cost
  <2>5. mgval(t) = cost /\ cost + 0 + 0 = cost
    BY <2>2, <2>3, SmallModulo
  <2> QED
    BY <2>2, <2>4, <2>5
<1>11. Acceptable(t) <=> operaGasPriceCheck(t) /\ preCheck(t)
  BY <1>3, <1>4, <1>7, <1>8, <1>9, <1>10 DEF Acceptable, preCheck, eoaCheck
<1> QED
  BY <1>4, <1>5, <1>6, <1>11

LEMMA SubmitAgrees ==
  ASSUME ~OffChainSimulation, IInv, Agreement, NEW t \in Transactions, SubmitToBoth(t)
  PROVE  Agreement'
<1> SUFFICES ASSUME comparable' PROVE Agreement'
  BY DEF Agreement
<1>1. comparable /\ ~TreatedDifferently(t) /\ ethCompatible' = ethCompatible /\ block' = block
  BY Zenon DEF SubmitToBoth, Accept, Reject
<1>2. PICK r \in Result : Same(r)
  BY <1>1 DEF Agreement
<1>3. /\ opera.nonce = nonce /\ opera.balance = balance /\ ~ethCompatible
      /\ opera.phase = phase
  BY <1>1, <1>2 DEF Agreement, Same
<1>4. /\ calculateSetupGas(t) = IntrinsicGas(t)
      /\ calculateGasPrice(t) = operaGasPrice(t)
      /\ blobFee(t, block.blobBaseFee) = 0
      /\ Acceptable(t) <=> operaGasPriceCheck(t) /\ preCheck(t)
  BY <1>1, <1>3, ChecksAgree
<1>5. t \in Transaction /\ t.gasLimit \in Nat /\ t.sender \in Account /\ t.create \in BOOLEAN
  BY InputAssumption, TransactionFields
<1>6. ~OperaRejectsAfterPurchase(t)
  BY <1>1 DEF TreatedDifferently, OperaRejectsAfterPurchase
<1>7. CASE Reject(t)
  <2>1. opera' = opera
    BY <1>4, <1>6, <1>7 DEF SubmitToBoth, Reject, OperaRejects, OperaAccepts
  <2>2. Same(r)' /\ phase' = "idle"
    BY <1>2, <1>7, <2>1 DEF Same, Reject
  <2> QED
    BY <1>1, <1>3, <2>2 DEF Agreement
<1>8. CASE Accept(t)
  <2>1. OperaAccepts(t)
    BY <1>4, <1>6, <1>8 DEF SubmitToBoth, Accept, OperaRejects
  <2>2. tx' = t /\ gasPrice' = operaGasPrice(t) /\ phase' = "bought" /\ receipt' = receipt
    BY <1>4, <1>8 DEF Accept
  <2>3. gasPrice' \in Nat
    BY <1>4, <1>5, <1>8, <2>2, GasPriceBounds, ValueIsNat DEF IInv, TypeOK, Accept, Acceptable
  <2>4. balance' = buyGas(t)
    <3> DEFINE cost == gasPrice' * t.gasLimit
    <3>1. cost \in Nat
      BY <1>5, <2>3, ProductType
    <3>2. Scale(gasPrice', t.gasLimit) = cost % ValueLimit /\ mgval(t) = cost % ValueLimit
      BY <2>2 DEF Scale, mgval
    <3> HIDE DEF cost
    <3>3. cost % ValueLimit \in Nat /\ cost % ValueLimit < ValueLimit
      BY <3>1, ModuloType, ValueIsNat
    <3>4. Add(cost % ValueLimit, 0) = cost % ValueLimit
      BY <3>3, SmallModulo DEF Add
    <3>5. balance' = [balance EXCEPT ![t.sender] = Sub(balance[t.sender], cost % ValueLimit)]
      BY <1>4, <1>8, <3>2, <3>4, Zenon DEF Accept, buyGasInternal
    <3> QED
      BY <1>3, <3>2, <3>5 DEF buyGas
  <2>5. nonce' = [nonce EXCEPT ![t.sender] = IF t.create THEN nonce[t.sender]
                                             ELSE (nonce[t.sender] + 1) % NonceLimit]
    <3>1. nonce \in [Account -> Nonce]
      BY DEF IInv, TypeOK
    <3> QED
      BY <1>5, <1>8, <3>1, Zenon DEF Accept
  <2>6. Same(r)'
    <3>1. opera' = [opera EXCEPT !.balance = balance', !.tx = t, !.gasPrice = gasPrice',
                                 !.nonce = nonce', !.phase = "bought"]
      BY <1>2, <2>1, <2>2, <2>4, <2>5 DEF OperaAccepts, Same
    <3> QED
      BY <1>2, <2>2, <3>1, Zenon DEF Same
  <2>7. (calculateSetupGas(tx) = IntrinsicGas(tx))'
    BY <1>1, <1>4, <2>2 DEF calculateSetupGas, IntrinsicGas
  <2> QED
    BY <1>1, <1>3, <2>2, <2>6, <2>7 DEF Agreement
<1> QED
  BY <1>7, <1>8 DEF SubmitToBoth

\* Where all the money fits into a Value the recipient's balance never overflows:
\* both execute a transaction, or neither.
LEMMA TransfersAgree ==
  ASSUME SupplyFits, IInv, MoneyInv, Agreement, comparable, phase = "bought"
  PROVE  (canTransferValue <=> canTransferFunc) /\ gas = operaGas
<1>1. PICK r \in Result : Same(r)
  BY DEF Agreement
<1>2. opera.balance = balance /\ opera.tx = tx
  BY <1>1 DEF Same
<1>3. gas = operaGas
  BY <1>2 DEF Agreement, gas, operaGas
<1> DEFINE recipient == IF tx.create THEN NoAddress ELSE tx.recipient
<1>4. /\ tx.sender \in Account /\ tx.value \in Nat /\ balance \in [Account -> Value]
      /\ recipient \in Account /\ held \in Nat
  BY TransactionFields, ValueIsNat, ProcessorAssumption DEF IInv, TypeOK
<1>5. canTransferValue <=> \/ tx.value = 0
                           \/ /\ balance[tx.sender] >= tx.value
                              /\ tx.sender = recipient \/ balance[recipient] + tx.value < ValueLimit
  BY DEF canTransferValue
<1>6. canTransferFunc <=> balance[tx.sender] >= tx.value
  BY <1>2 DEF canTransferFunc
<1> HIDE DEF recipient
<1>7. Total(balance) \in Nat /\ Total(balance) + held < ValueLimit
  BY SupplyBound DEF IInv, MoneyInv, Supply
<1>8. balance[recipient] \in Nat /\ balance[tx.sender] \in Nat
      /\ (tx.sender # recipient => balance[tx.sender] + balance[recipient] <= Total(balance))
  BY <1>4, BalanceTypes
<1> QED
  BY <1>3, <1>4, <1>5, <1>6, <1>7, <1>8, ProcessorAssumption

LEMMA RunAgrees ==
  ASSUME IInv, Agreement, NEW success \in BOOLEAN, NEW gasLeft \in GasLefts,
         NEW refund \in Refunds, NEW to \in Account, RunBoth(success, gasLeft, refund, to)
  PROVE  Agreement'
<1>1. /\ comparable /\ phase = "bought" /\ phase' = "executed" /\ tx' = tx /\ block' = block
      /\ gasPrice' = gasPrice /\ receipt' = receipt /\ ethCompatible' = ethCompatible
      /\ result' = [success |-> success, gasLeft |-> gasLeft, refund |-> refund]
  BY DEF RunBoth, Execute
<1>2. PICK r \in Result : Same(r)
  BY <1>1 DEF Agreement
<1>3. opera.balance = balance /\ opera.nonce = nonce /\ opera.tx = tx
  BY <1>2 DEF Same
<1>4. /\ tx.sender \in Account /\ tx.value \in Nat /\ balance \in [Account -> Value]
      /\ nonce \in [Account -> Nonce]
  BY TransactionFields, ValueIsNat DEF IInv, TypeOK
<1>5. nonce' = Counted
  BY <1>3, <1>4, Zenon DEF RunBoth, Execute, Counted
<1>6. Move(balance, tx.sender, to, tx.value) = transferFunc(balance, tx.sender, to, tx.value)
  <2>1. /\ balance[tx.sender] \in Nat /\ balance[tx.sender] < ValueLimit /\ balance[to] \in Nat
        /\ tx.value <= balance[tx.sender] /\ balance[to] + tx.value < ValueLimit
    <3>1. balance[tx.sender] \in Value /\ balance[to] \in Value
      BY <1>4
    <3>2. /\ balance[tx.sender] \in Nat /\ balance[tx.sender] < ValueLimit /\ balance[to] \in Nat
      BY <3>1, ValueIsNat
    <3>3. canTransferValue /\ balance[to] + tx.value < ValueLimit
      BY Zenon DEF RunBoth, Execute
    <3>4. tx.value = 0 \/ balance[tx.sender] >= tx.value
      BY <3>3 DEF canTransferValue
    <3> QED
      BY <1>4, <3>2, <3>3, <3>4
  <2>2. Sub(balance[tx.sender], tx.value) = balance[tx.sender] - tx.value
    <3>1. balance[tx.sender] - tx.value \in Nat /\ balance[tx.sender] - tx.value < ValueLimit
      BY <1>4, <2>1, ProcessorAssumption
    <3> QED
      BY <3>1, SmallModulo, Zenon DEF Sub
  <2>3. Add(balance[to], tx.value) = balance[to] + tx.value
    BY <1>4, <2>1, SmallModulo DEF Add
  <2>4. CASE tx.value = 0 \/ tx.sender = to
    <3> DEFINE moved == Move(balance, tx.sender, to, tx.value)
    <3>1. DOMAIN moved = Account /\ moved = [a \in Account |-> moved[a]]
      BY <1>4, Zenon DEF Move
    <3>2. ASSUME NEW a \in Account PROVE moved[a] = balance[a]
      <4>1. balance[a] \in Nat
        BY <1>4, ValueIsNat
      <4> QED
        BY <1>4, <2>1, <2>4, <4>1 DEF Move
    <3> HIDE DEF moved
    <3>3. moved = balance
      BY <1>4, <3>1, <3>2
    <3> QED
      BY <2>4, <3>3 DEF transferFunc, moved
  <2>5. CASE ~(tx.value = 0 \/ tx.sender = to)
    BY <1>4, <2>2, <2>3, <2>5, Zenon DEF Move, transferFunc
  <2> QED
    BY <2>4, <2>5
<1>7. opera' = [opera EXCEPT !.result = result', !.balance = balance', !.nonce = nonce',
                             !.phase = "executed"]
  BY <1>1, <1>2, <1>3, <1>5, <1>6, Zenon DEF RunBoth, Execute, OperaExecutes, Same
<1>8. Same(result)'
  BY <1>1, <1>2, <1>7, Zenon DEF Same
<1>9. result' \in Result
  BY <1>1, ProcessorAssumption DEF Result
<1>10. (calculateSetupGas(tx) = IntrinsicGas(tx))'
  BY <1>1 DEF Agreement, calculateSetupGas, IntrinsicGas
<1> QED
  BY <1>1, <1>8, <1>9, <1>10 DEF Agreement

LEMMA NeitherAgrees ==
  ASSUME IInv, Agreement, RunNeither
  PROVE  Agreement'
<1>1. /\ comparable /\ phase = "bought" /\ phase' = "executed" /\ tx' = tx /\ block' = block
      /\ gasPrice' = gasPrice /\ receipt' = receipt /\ ethCompatible' = ethCompatible
      /\ balance' = balance /\ nonce' = nonce
      /\ result' = [success |-> FALSE, gasLeft |-> gas, refund |-> 0]
  BY Zenon DEF RunNeither, ExecuteNothing
<1>2. PICK r \in Result : Same(r)
  BY <1>1 DEF Agreement
<1>3. operaGas = gas
  BY <1>1, <1>2 DEF Agreement, Same, gas, operaGas
<1>4. gas \in Nat
  BY <1>1, SetupGasType, TransactionFields DEF IInv, TypeOK, InProgress, gas
<1>5. opera' = [opera EXCEPT !.result = result', !.phase = "executed"]
  BY <1>1, <1>3 DEF RunNeither, OperaExecutesNothing
<1>6. Same(result)'
  BY <1>1, <1>2, <1>5, Zenon DEF Same
<1>7. result' \in Result
  BY <1>1, <1>4 DEF Result
<1>8. (calculateSetupGas(tx) = IntrinsicGas(tx))'
  BY <1>1 DEF Agreement, calculateSetupGas, IntrinsicGas
<1> QED
  BY <1>1, <1>6, <1>7, <1>8 DEF Agreement

\* The settlement of Opera, as one record.
LEMMA SettledRecord ==
  ASSUME NEW q, Same(q), NEW r
  PROVE  Settled(opera, r) =
           [balance |-> [balance EXCEPT ![tx.sender] = Add(balance[tx.sender], Scale(gasPrice, operaGasLeft(r)))],
            nonce |-> nonce, phase |-> "idle", tx |-> tx, gasPrice |-> gasPrice, result |-> r,
            receipt |-> [success |-> r.success, gasUsed |-> tx.gasLimit - operaGasLeft(r),
                         contractAddress |-> tx.create]]
<1> DEFINE left == operaGasLeft(r)
           paid == [balance EXCEPT ![tx.sender] = Add(balance[tx.sender], Scale(gasPrice, left))]
           new == [success |-> r.success, gasUsed |-> tx.gasLimit - left, contractAddress |-> tx.create]
<1>1. opera.tx = tx /\ opera.balance = balance /\ opera.gasPrice = gasPrice
  BY DEF Same
<1>2. Settled(opera, r) = [opera EXCEPT !.balance = paid, !.receipt = new, !.result = r, !.phase = "idle"]
  BY <1>1 DEF Settled
<1> HIDE DEF left, paid, new
<1>3. ASSUME NEW o, o = [opera EXCEPT !.balance = paid, !.receipt = new, !.result = r, !.phase = "idle"]
      PROVE  o = [balance |-> paid, nonce |-> nonce, phase |-> "idle", tx |-> tx,
                  gasPrice |-> gasPrice, result |-> r, receipt |-> new]
  BY <1>3, Zenon DEF Same
<1> QED
  BY <1>2, <1>3 DEF paid, new, left

LEMMA SettleAgrees ==
  ASSUME IInv, Agreement, SettleBoth
  PROVE  Agreement'
<1>1. /\ comparable /\ phase = "executed" /\ phase' = "idle" /\ tx' = tx
      /\ gasPrice' = gasPrice /\ ethCompatible' = ethCompatible /\ nonce' = nonce
      /\ ~ethCompatible
  BY DEF SettleBoth, returnExcessGas, Agreement
<1>2. Same(result) /\ result \in Result
  BY <1>1 DEF Agreement
<1>3. opera.tx = tx /\ opera.result = result
  BY <1>2 DEF Same
<1>4. operaGasLeft(result) = calculateGasLeft
  <2>1. result.gasLeft \in Nat
    BY <1>2 DEF Result
  <2>2. charged(result.gasLeft) \in Int
        /\ charged(result.gasLeft) = IF isInternal THEN result.gasLeft
                                     ELSE result.gasLeft - result.gasLeft \div 10
    BY <1>1, <1>3, <2>1 DEF charged, isInternal
  <2> DEFINE left == charged(result.gasLeft)
             most == (tx.gasLimit - left) \div (IF block.revision < R10_London THEN 2 ELSE 5)
  <2>3. operaGasLeft(result) = left + (IF ~result.success THEN 0
                                       ELSE IF result.refund > most THEN most ELSE result.refund)
    BY <1>3, <2>2 DEF operaGasLeft
  <2>4. calculateGasLeft = IF ~result.success THEN left
                           ELSE left + (IF result.refund > most THEN most ELSE result.refund)
    BY DEF calculateGasLeft
  <2> HIDE DEF left, most
  <2>5. left \in Int
    BY <2>2 DEF left
  <2> QED
    BY <2>3, <2>4, <2>5
<1>5. opera' = Settled(opera, result)
  BY <1>3 DEF SettleBoth, OperaSettles
<1>6. Settled(opera, result) =
        [balance |-> [balance EXCEPT ![tx.sender] = Add(balance[tx.sender], Scale(gasPrice, calculateGasLeft))],
         nonce |-> nonce, phase |-> "idle", tx |-> tx, gasPrice |-> gasPrice, result |-> result,
         receipt |-> [success |-> result.success, gasUsed |-> tx.gasLimit - calculateGasLeft,
                      contractAddress |-> tx.create]]
  BY <1>2, <1>4, SettledRecord, Zenon
<1>7. balance' = [balance EXCEPT ![tx.sender] = Add(balance[tx.sender], Scale(gasPrice, calculateGasLeft))]
  BY <1>1 DEF SettleBoth, returnExcessGas, paymentToCoinbase, refundGasInternal
<1>8. receipt' = [success |-> result.success, gasUsed |-> tx.gasLimit - calculateGasLeft,
                  contractAddress |-> tx.create]
  BY DEF SettleBoth, returnExcessGas
<1>9. opera' = [balance |-> balance', nonce |-> nonce', phase |-> phase', tx |-> tx',
                gasPrice |-> gasPrice', result |-> result, receipt |-> receipt']
  BY <1>1, <1>5, <1>6, <1>7, <1>8
<1> QED
  BY <1>1, <1>2, <1>9 DEF Agreement, Same

LEMMA FailAgrees ==
  ASSUME IInv, Agreement, FailBoth
  PROVE  Agreement'
<1> SUFFICES ASSUME comparable' PROVE Agreement'
  BY DEF Agreement
<1>1. /\ comparable /\ phase = "bought" /\ phase' = "idle" /\ tx' = tx /\ ~tx.create
      /\ gasPrice' = gasPrice /\ ethCompatible' = ethCompatible /\ ~ethCompatible
      /\ balance' = balance /\ nonce' = nonce
      /\ receipt' = [success |-> FALSE, gasUsed |-> tx.gasLimit, contractAddress |-> FALSE]
  BY Zenon DEF FailBoth, ExecuteError, Agreement
<1>2. PICK r \in Result : Same(r)
  BY <1>1 DEF Agreement
<1>3. opera.tx = tx /\ opera.result = r /\ opera.nonce = nonce
  BY <1>2 DEF Same
<1>4. /\ tx.sender \in Account /\ tx.gasLimit \in Nat /\ balance \in [Account -> Value]
      /\ nonce \in [Account -> Nonce] /\ gasPrice \in Nat /\ tx.create \in BOOLEAN
  BY TransactionFields, ValueIsNat DEF IInv, TypeOK
<1> DEFINE f == [r EXCEPT !.success = FALSE, !.gasLeft = 0]
<1>5. f \in Result /\ f.success = FALSE /\ f.gasLeft = 0
  BY <1>2, Zenon DEF Result
<1>6. Counted = nonce
  BY <1>1, <1>3, <1>4 DEF Counted
<1>7. operaGasLeft(f) = 0
  <2> HIDE DEF f
  <2>1. 0 \div 10 = 0
    OBVIOUS
  <2> QED
    BY <1>5, <2>1 DEF operaGasLeft
<1>8. [opera EXCEPT !.nonce = Counted] = opera
  BY <1>2, <1>6 DEF Same
<1>9. opera' = Settled(opera, f)
  BY <1>3, <1>8 DEF FailBoth, OperaExecutesError
<1> HIDE DEF f
<1>10. Settled(opera, f) =
        [balance |-> [balance EXCEPT ![tx.sender] = Add(balance[tx.sender], Scale(gasPrice, 0))],
         nonce |-> nonce, phase |-> "idle", tx |-> tx, gasPrice |-> gasPrice, result |-> f,
         receipt |-> [success |-> f.success, gasUsed |-> tx.gasLimit - 0,
                      contractAddress |-> tx.create]]
  BY <1>2, <1>7, SettledRecord, Zenon
<1>11. Add(balance[tx.sender], Scale(gasPrice, 0)) = balance[tx.sender]
  <2>1. balance[tx.sender] \in Nat /\ balance[tx.sender] < ValueLimit
    BY <1>4, ValueIsNat
  <2>2. gasPrice * 0 = 0
    BY <1>4
  <2>3. Scale(gasPrice, 0) = 0
    BY <2>2, SmallModulo, ProcessorAssumption DEF Scale
  <2> QED
    BY <2>1, <2>3, SmallModulo DEF Add
<1>12. [balance EXCEPT ![tx.sender] = balance[tx.sender]] = balance /\ tx.gasLimit - 0 = tx.gasLimit
  BY <1>4
<1>13. opera' = [balance |-> balance', nonce |-> nonce', phase |-> phase', tx |-> tx',
                 gasPrice |-> gasPrice', result |-> f, receipt |-> receipt']
  BY <1>1, <1>4, <1>5, <1>9, <1>10, <1>11, <1>12, Zenon
<1> QED
  BY <1>1, <1>5, <1>13, Zenon DEF Agreement, Same

LEMMA AgreementInvariance ==
  ASSUME ~OffChainSimulation, IInv, Agreement, [NextBoth]_<<vars, operaVars>>
  PROVE  Agreement'
<1>1. CASE UNCHANGED <<vars, operaVars>>
  BY <1>1 DEF vars, operaVars, Agreement, Same, calculateSetupGas, IntrinsicGas
<1>2. CASE FloriaAlone \/ OperaAlone
  BY <1>2, Zenon DEF FloriaAlone, OperaAlone, operaVars, Agreement
<1> QED
  BY <1>1, <1>2, SubmitAgrees, RunAgrees, NeitherAgrees, SettleAgrees, FailAgrees DEF NextBoth

\* With the Sonic rules, and up to the first transaction they are known to treat
\* differently, Opera and Floria accept, execute and settle alike, for any
\* transactions, blocks and balances whose total fits into a Value.
THEOREM OperaAlwaysAgrees ==
  ~OffChainSimulation /\ BlobFeesFit /\ SupplyFits => (SpecBoth => []OperaAgrees)
<1> SUFFICES ASSUME ~OffChainSimulation, BlobFeesFit, SupplyFits PROVE SpecBoth => []OperaAgrees
  OBVIOUS
<1>1. IInv /\ MoneyInv /\ Agreement => OperaAgrees
  <2> SUFFICES ASSUME IInv, MoneyInv, Agreement, comparable PROVE OperaAgrees
    BY DEF OperaAgrees
  <2>1. PICK r \in Result : Same(r)
    BY DEF Agreement
  <2>2. phase = "bought" => (canTransferValue <=> canTransferFunc) /\ gas = operaGas
    BY TransfersAgree
  <2> QED
    BY <2>1, <2>2 DEF OperaAgrees, Same
<1>2. IInv /\ Agreement /\ [NextBoth]_<<vars, operaVars>> => Agreement'
  BY AgreementInvariance
<1>3. InitBoth => Agreement
  BY InitiallyAgree
<1>4. SpecBoth => []IInv /\ []MoneyInv
  BY BothIncludesFloria, AlwaysInvariant, AlwaysMoneyInv, PTL
<1> QED
  BY <1>1, <1>2, <1>3, <1>4, PTL DEF SpecBoth
=============================================================================
