--------------------------- MODULE FloriaProcessor ---------------------------
(***************************************************************************)
(* The Floria processor around the run context: the checks a transaction   *)
(* has to pass, the gas its sender buys, what the execution may return     *)
(* (promised by RunContext), and the settlement of the gas that is left.   *)
(*                                                                         *)
(* Value arithmetic is modulo ValueLimit as in tosca.Value; the balance    *)
(* check alone computes with big integers, except for the blob fee.        *)
(***************************************************************************)
EXTENDS StorageGas, Totals

CONSTANTS
  Account,             \* the accounts
  NoAddress,           \* the zero address, sender of internal transactions
  Contracts,           \* the accounts with code
  Coinbase,            \* of the block
  OffChainSimulation,  \* Config.OffChainSimulation
  Blocks,              \* the blocks considered
  Transactions,        \* the transactions considered
  Balances,            \* the balances before the first transaction
  GasLefts, Refunds,   \* what an execution may leave and collect
  ValueLimit,          \* values are kept modulo this number, 2^256 in the code
  NonceLimit,          \* nonces are kept modulo this number, 2^64 in the code
  MaxTransactions      \* bound: transactions submitted

TxGas == 21000
TxGasContractCreation == 53000
TxDataNonZeroGasEIP2028 == 16
TxDataZeroGasEIP2028 == 4
TxAccessListAddressGas == 2400
TxAccessListStorageKeyGas == 1900
InitCodeWordGas == 2
maxInitCodeSize == 2 * 24576
BlobTxBlobGasPerBlob == 131072

Value == 0 .. ValueLimit - 1
Nonce == 0 .. NonceLimit - 1
NoBlobs == -1  \* BlobHashes is nil

Block == [revision : Revision, baseFee : Value, blobBaseFee : Value]

\* A nil Recipient is a create; blobs is the number of blob hashes; zeros and
\* nonZeros count the input bytes; addresses and keys count the access list.
Transaction == [sender : Account, create : BOOLEAN, recipient : Account, nonce : Nonce,
                value : Value, gasLimit : Nat, gasFeeCap : Value, gasTipCap : Value,
                blobs : Nat \cup {NoBlobs}, validBlobs : BOOLEAN, blobGasFeeCap : Value,
                zeros : Nat, nonZeros : Nat, addresses : Nat, keys : Nat]

ASSUME ProcessorAssumption ==
  /\ ValueLimit \in Nat \ {0} /\ NonceLimit \in Nat \ {0, 1} /\ MaxTransactions \in Nat
  /\ IsFiniteSet(Account) /\ Contracts \subseteq Account
  /\ NoAddress \in Account /\ Coinbase \in Account
  /\ OffChainSimulation \in BOOLEAN
  /\ GasLefts \subseteq Nat /\ Refunds \subseteq Nat

\* Blob fees exist from Cancun on.
ASSUME InputAssumption ==
  /\ Transactions \subseteq Transaction /\ Transactions # {}
  /\ Blocks \subseteq Block
  /\ \A b \in Blocks : b.revision < R13_Cancun => b.blobBaseFee = 0
  /\ Balances \subseteq [Account -> Value]

VARIABLES
  ethCompatible,  \* Config.EthCompatible of the processor
  block,     \* the block
  balance,   \* of every account
  nonce,     \* of every account
  tx,        \* the transaction executed last
  phase,     \* "idle", "bought" or "executed"
  gasPrice,  \* what the sender pays for a unit of gas
  result,    \* the CallResult of the execution
  receipt,   \* of the last transaction that was executed
  count,     \* transactions submitted so far
  held,      \* history: what the sender of the open transaction has paid
  burnt      \* history: what the settled transactions cost according to their receipts

vars == <<ethCompatible, block, balance, nonce, tx, phase, gasPrice, result, receipt, count, held, burnt>>

-----------------------------------------------------------------------------
(* Arithmetic of tosca.Value *)

Add(a, b) == (a + b) % ValueLimit
Sub(a, b) == (a - b) % ValueLimit
Scale(a, n) == (a * n) % ValueLimit

-----------------------------------------------------------------------------
(* The checks *)

\* Mutant: nonces may be skipped.
nonceCheckGap(t) == t.nonce >= nonce[t.sender] /\ nonce[t.sender] + 1 < NonceLimit

nonceCheck(t) == t.nonce = nonce[t.sender] /\ nonce[t.sender] + 1 < NonceLimit

eoaCheck(t) == t.sender \notin Contracts

checkBlobs(t) ==
  /\ t.blobs # NoBlobs => ~t.create /\ t.blobs > 0 /\ t.validBlobs
  /\ /\ block.revision >= R13_Cancun /\ t.blobs > 0
     /\ ~OffChainSimulation \/ t.blobGasFeeCap # 0
     => t.blobGasFeeCap >= block.blobBaseFee

initCodeSizeCheck(t) ==
  block.revision >= R12_Shanghai /\ t.create => t.zeros + t.nonZeros <= maxInitCodeSize

checkTransaction(t) ==
  /\ OffChainSimulation \/ nonceCheck(t)
  /\ OffChainSimulation \/ eoaCheck(t)
  /\ checkBlobs(t)
  /\ initCodeSizeCheck(t)

freeSimulation(t) == OffChainSimulation /\ t.gasFeeCap = 0 /\ t.gasTipCap = 0

gasPriceCheck(t) == freeSimulation(t) \/ (t.gasFeeCap >= block.baseFee /\ t.gasFeeCap >= t.gasTipCap)

calculateGasPrice(t) ==
  IF freeSimulation(t) THEN 0
  ELSE LET room == Sub(t.gasFeeCap, block.baseFee)
       IN  Add(block.baseFee, IF t.gasTipCap < room THEN t.gasTipCap ELSE room)

\* The blob fee at a price, by Value.Scale; none without blobs.
blobFee(t, price) == IF t.blobs > 0 THEN Scale(price, t.blobs * BlobTxBlobGasPerBlob) ELSE 0

\* Mutant: the fee for blobs is forgotten.
balanceCheckNoBlobs(t) ==
  LET price == IF ethCompatible /\ t.gasFeeCap # 0 THEN t.gasFeeCap ELSE calculateGasPrice(t)
      capGas == price * t.gasLimit + (IF ethCompatible THEN t.value ELSE 0)
  IN  capGas < ValueLimit /\ balance[t.sender] >= capGas

\* Mutant: the value is not reserved on Ethereum.
balanceCheckNoValue(t) ==
  LET price == IF ethCompatible /\ t.gasFeeCap # 0 THEN t.gasFeeCap ELSE calculateGasPrice(t)
      capGas == price * t.gasLimit + blobFee(t, t.blobGasFeeCap)
  IN  capGas < ValueLimit /\ balance[t.sender] >= capGas

balanceCheck(t) ==
  LET price == IF ethCompatible /\ t.gasFeeCap # 0 THEN t.gasFeeCap ELSE calculateGasPrice(t)
      capGas == price * t.gasLimit + (IF ethCompatible THEN t.value ELSE 0)
                + blobFee(t, t.blobGasFeeCap)
  IN  capGas < ValueLimit /\ balance[t.sender] >= capGas

SizeInWords(n) == (n + 31) \div 32

calculateSetupGas(t) ==
  (IF t.create THEN TxGasContractCreation ELSE TxGas)
  + t.zeros * TxDataZeroGasEIP2028 + t.nonZeros * TxDataNonZeroGasEIP2028
  + (IF t.create /\ block.revision >= R12_Shanghai
     THEN SizeInWords(t.zeros + t.nonZeros) * InitCodeWordGas ELSE 0)
  + t.addresses * TxAccessListAddressGas + t.keys * TxAccessListStorageKeyGas

Acceptable(t) ==
  /\ checkTransaction(t)
  /\ gasPriceCheck(t)
  /\ balanceCheck(t)
  /\ t.gasLimit >= calculateSetupGas(t)

-----------------------------------------------------------------------------
(* One transaction after the other *)

NoResult == [success |-> FALSE, gasLeft |-> 0, refund |-> 0]
NoReceipt == [success |-> FALSE, gasUsed |-> 0, contractAddress |-> FALSE]

Init ==
  /\ ethCompatible \in BOOLEAN
  /\ block \in Blocks
  /\ balance \in Balances
  /\ nonce = [a \in Account |-> 0]
  /\ tx = CHOOSE t \in Transactions : TRUE
  /\ phase = "idle"
  /\ gasPrice = 0
  /\ result = NoResult
  /\ receipt = NoReceipt
  /\ count = 0
  /\ held = 0
  /\ burnt = 0

\* What the sender pays before the execution, in unbounded numbers.
blobCharge(t) == IF t.blobs > 0 THEN block.blobBaseFee * (t.blobs * BlobTxBlobGasPerBlob) ELSE 0
Charge(t, price) == price * t.gasLimit + blobCharge(t)

buyGasInternal(t, price) ==
  LET cost == Add(Scale(price, t.gasLimit), blobFee(t, block.blobBaseFee))
  IN  [balance EXCEPT ![t.sender] = Sub(@, cost)]

\* Run up to runContext.Call.  The nonce is counted here for a call only.
Accept(t) ==
  /\ phase = "idle" /\ count < MaxTransactions
  /\ Acceptable(t)
  /\ tx' = t
  /\ gasPrice' = calculateGasPrice(t)
  /\ balance' = buyGasInternal(t, gasPrice')
  /\ nonce' = IF t.create THEN nonce ELSE [nonce EXCEPT ![t.sender] = (@ + 1) % NonceLimit]
  /\ held' = Charge(t, gasPrice')
  /\ phase' = "bought"
  /\ count' = count + 1
  /\ UNCHANGED <<ethCompatible, block, result, receipt, burnt>>

\* An error instead of a receipt: nothing has happened.
Reject(t) ==
  /\ phase = "idle" /\ count < MaxTransactions
  /\ ~Acceptable(t)
  /\ count' = count + 1
  /\ UNCHANGED <<ethCompatible, block, balance, nonce, tx, phase, gasPrice, result, receipt, held, burnt>>

gas == tx.gasLimit - calculateSetupGas(tx)

\* canTransferValue of a call; a create checks the zero address instead of the
\* one it will create.
canTransferValue ==
  LET recipient == IF tx.create THEN NoAddress ELSE tx.recipient
  IN  \/ tx.value = 0
      \/ /\ balance[tx.sender] >= tx.value
         /\ tx.sender = recipient \/ balance[recipient] + tx.value < ValueLimit

\* runContext.Call returns at once, with all the gas.
ExecuteNothing ==
  /\ phase = "bought"
  /\ ~canTransferValue \/ (tx.create /\ nonce[tx.sender] + 1 = NonceLimit)
  /\ result' = [success |-> FALSE, gasLeft |-> gas, refund |-> 0]
  /\ phase' = "executed"
  /\ UNCHANGED <<ethCompatible, block, balance, nonce, tx, gasPrice, receipt, count, held, burnt>>

Move(b, from, to, amount) ==
  LET taken == [b EXCEPT ![from] = @ - amount]
  IN  [taken EXCEPT ![to] = @ + amount]

\* The call runs: a failure moves nothing, a success moves the value on to some
\* account.  A create has counted the nonce.
Execute(success, gasLeft, refund, to) ==
  /\ phase = "bought"
  /\ canTransferValue
  /\ tx.create => nonce[tx.sender] + 1 < NonceLimit
  /\ gasLeft <= gas
  /\ balance[to] + tx.value < ValueLimit
  /\ result' = [success |-> success, gasLeft |-> gasLeft, refund |-> refund]
  /\ balance' = IF success THEN Move(balance, tx.sender, to, tx.value) ELSE balance
  /\ nonce' = IF tx.create THEN [nonce EXCEPT ![tx.sender] = @ + 1] ELSE nonce
  /\ phase' = "executed"
  /\ UNCHANGED <<ethCompatible, block, tx, gasPrice, receipt, count, held, burnt>>

\* An error of the interpreter: the gas bought is not returned.
ExecuteError ==
  /\ phase = "bought"
  /\ canTransferValue
  /\ tx.create => nonce[tx.sender] + 1 < NonceLimit
  /\ nonce' = IF tx.create THEN [nonce EXCEPT ![tx.sender] = @ + 1] ELSE nonce
  /\ receipt' = [success |-> FALSE, gasUsed |-> tx.gasLimit, contractAddress |-> FALSE]
  /\ held' = 0
  /\ burnt' = burnt + held
  /\ phase' = "idle"
  /\ UNCHANGED <<ethCompatible, block, balance, tx, gasPrice, result, count>>

-----------------------------------------------------------------------------
(* The settlement *)

\* 10% of what is left is charged for transactions that are not internal.
charged(gasLeft) ==
  IF ~ethCompatible /\ tx.sender # NoAddress THEN gasLeft - gasLeft \div 10 ELSE gasLeft

\* Mutant: the refund is not capped.
calculateGasLeftUncapped ==
  LET gasLeft == charged(result.gasLeft)
  IN  IF result.success THEN gasLeft + result.refund ELSE gasLeft

calculateGasLeft ==
  LET gasLeft == charged(result.gasLeft)
      maxRefund == (tx.gasLimit - gasLeft) \div (IF block.revision < R10_London THEN 2 ELSE 5)
  IN  IF ~result.success THEN gasLeft
      ELSE gasLeft + (IF result.refund > maxRefund THEN maxRefund ELSE result.refund)

refundGasInternal(b, gasLeft) ==
  [b EXCEPT ![tx.sender] = Add(@, Scale(gasPrice, gasLeft))]

effectiveTip ==
  IF block.revision >= R10_London THEN Sub(gasPrice, block.baseFee) ELSE gasPrice

\* Mutant: the coinbase gets the whole price, the base fee included.
paymentToCoinbaseFull(b, gasUsed) ==
  IF ethCompatible
  THEN [b EXCEPT ![Coinbase] = Add(@, Scale(gasPrice, gasUsed))]
  ELSE b

paymentToCoinbase(b, gasUsed) ==
  IF ethCompatible
  THEN [b EXCEPT ![Coinbase] = Add(@, Scale(effectiveTip, gasUsed))]
  ELSE b

\* What a unit of gas costs that nobody receives: the whole price on Sonic, the
\* base fee on Ethereum.
burntPrice == IF ~ethCompatible THEN gasPrice ELSE IF block.revision >= R10_London THEN block.baseFee ELSE 0

returnExcessGas ==
  LET gasLeft == calculateGasLeft
      gasUsed == tx.gasLimit - gasLeft
  IN  /\ phase = "executed"
      /\ balance' = paymentToCoinbase(refundGasInternal(balance, gasLeft), gasUsed)
      /\ receipt' = [success |-> result.success, gasUsed |-> gasUsed, contractAddress |-> tx.create]
      /\ held' = 0
      /\ burnt' = burnt + burntPrice * gasUsed + blobCharge(tx)
      /\ phase' = "idle"
      /\ UNCHANGED <<ethCompatible, block, nonce, tx, gasPrice, result, count>>

Next ==
  \/ \E t \in Transactions : Accept(t)
  \/ \E t \in Transactions : Reject(t)
  \/ ExecuteNothing
  \/ \E success \in BOOLEAN, gasLeft \in GasLefts, refund \in Refunds, to \in Account :
       Execute(success, gasLeft, refund, to)
  \/ ExecuteError
  \/ returnExcessGas

Spec == Init /\ [][Next]_vars

-----------------------------------------------------------------------------
(* Properties *)

\* The variables have the shapes declared above; the history variables are numbers.
TypeOK ==
  /\ ethCompatible \in BOOLEAN
  /\ block \in Block
  /\ balance \in [Account -> Value]
  /\ nonce \in [Account -> Nonce]
  /\ tx \in Transaction
  /\ phase \in {"idle", "bought", "executed"}
  /\ gasPrice \in Value
  /\ result \in [success : BOOLEAN, gasLeft : Nat, refund : Nat]
  /\ receipt \in [success : BOOLEAN, gasUsed : Nat, contractAddress : BOOLEAN]
  /\ count \in 0 .. MaxTransactions
  /\ held \in Nat /\ burnt \in Nat

Supply == Total(balance)

\* The accounts lose exactly what the receipts say, neither more nor less: no
\* Sub, Add or Scale of the purchase, the refund and the payment to the coinbase
\* ever wraps around, and the price the sender was checked for covers the price
\* they are charged.
EveryUnitIsAccountedFor ==
  \E b \in Balances : Supply + held + burnt = Total(b)

\* A transaction that was executed pays for its set-up: whatever it collects in
\* refunds, at least half of the set-up gas (four fifths from London on) is used,
\* and never more than the limit.
SetupIsPaid ==
  LET setupGas == calculateSetupGas(tx)
  IN  phase = "idle" /\ receipt # NoReceipt =>
        /\ receipt.gasUsed <= tx.gasLimit
        /\ receipt.gasUsed >= setupGas - setupGas \div (IF block.revision < R10_London THEN 2 ELSE 5)

\* buyGasInternal "does not check for sufficient balance and requires the balance
\* check to be performed in advance": the check, made with the caps of the
\* transaction, covers what is taken at the prices of the block.
PurchaseIsCovered ==
  [][phase = "idle" /\ phase' = "bought" =>
       balance'[tx'.sender] = balance[tx'.sender] - held']_vars

\* A call that was executed, with or without success, cannot be executed again.
CallsExecutedOnce ==
  phase = "idle" /\ receipt # NoReceipt /\ ~tx.create => nonce[tx.sender] > tx.nonce

\* The nonce of a transaction is "used to prevent replay attacks"
\* (tosca/processor.go): with the Ethereum rules, where the balance check reserves
\* the value, a create that was executed, and paid for, cannot be executed again
\* either.  (With the Sonic rules it can: a create whose value the sender cannot
\* pay is charged and leaves the nonce as it was.)
CreatesExecutedOnce ==
  ethCompatible /\ phase = "idle" /\ receipt # NoReceipt /\ tx.create => nonce[tx.sender] > tx.nonce
=============================================================================
