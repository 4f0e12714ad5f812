--------------------------- MODULE OperaProcessor ---------------------------
(***************************************************************************)
(* The Opera processor, which mimics the transaction handling of the       *)
(* Sonic client around go-ethereum, side by side with Floria: both get the *)
(* same transactions on the same state, and the executions of their EVMs   *)
(* have the same outcomes.  The comparison ends with the first transaction *)
(* that the two are known to treat differently.                            *)
(***************************************************************************)
EXTENDS FloriaProcessor

VARIABLES
  opera,      \* the state the Opera processor works on
  comparable  \* FALSE for the Ethereum rules, or after a known difference

operaVars == <<opera, comparable>>

OperaInit ==
  /\ opera = [balance |-> balance, nonce |-> nonce, phase |-> "idle", tx |-> tx, gasPrice |-> 0,
              result |-> NoResult, receipt |-> NoReceipt]
  /\ comparable = ~ethCompatible

-----------------------------------------------------------------------------
(* The checks *)

operaGasPriceCheck(t) == t.gasFeeCap >= block.baseFee

operaGasPrice(t) ==
  LET room == Sub(t.gasFeeCap, block.baseFee)
  IN  Add(block.baseFee, IF t.gasTipCap < room THEN t.gasTipCap ELSE room)

mgval(t) == Scale(operaGasPrice(t), t.gasLimit)

preCheck(t) ==
  /\ opera.nonce[t.sender] = t.nonce
  /\ t.sender \notin Contracts
  /\ opera.balance[t.sender] >= mgval(t)

buyGas(t) == [opera.balance EXCEPT ![t.sender] = Sub(@, mgval(t))]

IntrinsicGas(t) ==
  (IF t.create THEN TxGasContractCreation ELSE TxGas)
  + t.nonZeros * TxDataNonZeroGasEIP2028 + t.zeros * TxDataZeroGasEIP2028
  + t.addresses * TxAccessListAddressGas + t.keys * TxAccessListStorageKeyGas

\* An error before anything has happened.
OperaRejects(t) ==
  /\ opera.phase = "idle"
  /\ ~(operaGasPriceCheck(t) /\ preCheck(t))
  /\ UNCHANGED opera

\* The gas is bought before the intrinsic gas is checked, and is not returned with
\* the error.
OperaRejectsAfterPurchase(t) ==
  /\ opera.phase = "idle"
  /\ operaGasPriceCheck(t) /\ preCheck(t)
  /\ t.gasLimit < IntrinsicGas(t)
  /\ opera' = [opera EXCEPT !.balance = buyGas(t)]

\* Up to the EVM; the nonce is counted here for a call only.
OperaAccepts(t) ==
  /\ opera.phase = "idle"
  /\ operaGasPriceCheck(t) /\ preCheck(t)
  /\ t.gasLimit >= IntrinsicGas(t)
  /\ opera' = [opera EXCEPT !.balance = buyGas(t), !.tx = t, !.gasPrice = operaGasPrice(t),
                            !.nonce[t.sender] = IF t.create THEN @ ELSE (@ + 1) % NonceLimit,
                            !.phase = "bought"]

-----------------------------------------------------------------------------
(* The execution in go-ethereum's EVM *)

operaGas == opera.tx.gasLimit - IntrinsicGas(opera.tx)

canTransferFunc == opera.balance[opera.tx.sender] >= opera.tx.value

transferFunc(b, from, to, amount) ==
  IF amount = 0 \/ from = to THEN b
  ELSE [b EXCEPT ![from] = Sub(b[from], amount), ![to] = Add(b[to], amount)]

\* evm.Create counts the nonce unless that overflows.
NonceOverflows == opera.tx.create /\ opera.nonce[opera.tx.sender] + 1 = NonceLimit
Counted ==
  [opera.nonce EXCEPT ![opera.tx.sender] = IF opera.tx.create THEN @ + 1 ELSE @]

OperaExecutesNothing ==
  /\ opera.phase = "bought"
  /\ ~canTransferFunc \/ NonceOverflows
  /\ opera' = [opera EXCEPT !.result = [success |-> FALSE, gasLeft |-> operaGas, refund |-> 0],
                            !.phase = "executed"]

OperaExecutes(success, gasLeft, refund, to) ==
  /\ opera.phase = "bought"
  /\ canTransferFunc /\ ~NonceOverflows
  /\ gasLeft <= operaGas
  /\ opera' = [opera EXCEPT
       !.result = [success |-> success, gasLeft |-> gasLeft, refund |-> refund],
       !.balance = IF success THEN transferFunc(@, opera.tx.sender, to, opera.tx.value) ELSE @,
       !.nonce = Counted,
       !.phase = "executed"]

-----------------------------------------------------------------------------
(* The settlement *)

isInternal == opera.tx.sender = NoAddress

\* Mutant: the refund is capped by the gas used before the excess is charged.
operaGasLeftCappedEarly(r) ==
  LET gasLeft == IF isInternal THEN r.gasLeft ELSE r.gasLeft - r.gasLeft \div 10
      maxRefund == (opera.tx.gasLimit - r.gasLeft) \div (IF block.revision < R10_London THEN 2 ELSE 5)
  IN  gasLeft + (IF ~r.success THEN 0 ELSE IF r.refund > maxRefund THEN maxRefund ELSE r.refund)

operaGasLeft(r) ==
  LET gasLeft == IF isInternal THEN r.gasLeft ELSE r.gasLeft - r.gasLeft \div 10
      maxRefund == (opera.tx.gasLimit - gasLeft) \div (IF block.revision < R10_London THEN 2 ELSE 5)
  IN  gasLeft + (IF ~r.success THEN 0 ELSE IF r.refund > maxRefund THEN maxRefund ELSE r.refund)

\* A contract address is set for every create, also for one that failed.
Settled(o, r) ==
  LET gasLeft == operaGasLeft(r)
  IN  [o EXCEPT !.balance[o.tx.sender] = Add(@, Scale(o.gasPrice, gasLeft)),
                !.receipt = [success |-> r.success, gasUsed |-> o.tx.gasLimit - gasLeft,
                             contractAddress |-> o.tx.create],
                !.result = r,
                !.phase = "idle"]

OperaSettles ==
  /\ opera.phase = "executed"
  /\ opera' = Settled(opera, opera.result)

\* go-ethereum takes an error of the interpreter for a failure that uses up the gas.
OperaExecutesError ==
  /\ opera.phase = "bought"
  /\ canTransferFunc /\ ~NonceOverflows
  /\ opera' = Settled([opera EXCEPT !.nonce = Counted], [opera.result EXCEPT !.success = FALSE, !.gasLeft = 0])

-----------------------------------------------------------------------------
(* The two side by side *)

\* Opera knows neither blobs, nor the size limit and the price of init code, nor
\* the rule that the tip is no more than the cap, nor the last nonce; it multiplies
\* modulo 2^256; and it takes the price of a transaction without the gas for its
\* set-up.
TreatedDifferently(t) ==
  \/ t.blobs # NoBlobs
  \/ t.create /\ block.revision >= R12_Shanghai
  \/ t.gasTipCap > t.gasFeeCap
  \/ t.nonce + 1 = NonceLimit
  \/ operaGasPrice(t) * t.gasLimit >= ValueLimit
  \/ t.gasLimit < IntrinsicGas(t)

SubmitToBoth(t) ==
  /\ comparable
  /\ Accept(t) \/ Reject(t)
  /\ OperaRejects(t) \/ OperaRejectsAfterPurchase(t) \/ OperaAccepts(t)
  /\ comparable' = ~TreatedDifferently(t)

\* Both have accepted the transaction and reach the same end.
RunBoth(success, gasLeft, refund, to) ==
  /\ comparable
  /\ Execute(success, gasLeft, refund, to) /\ OperaExecutes(success, gasLeft, refund, to)
  /\ UNCHANGED comparable

RunNeither == comparable /\ ExecuteNothing /\ OperaExecutesNothing /\ UNCHANGED comparable

SettleBoth == comparable /\ returnExcessGas /\ OperaSettles /\ UNCHANGED comparable

\* The receipt that Floria returns with the error has no contract address.
FailBoth == comparable /\ ExecuteError /\ OperaExecutesError /\ comparable' = ~tx.create

\* The comparison has ended: each finishes on its own, Opera its last transaction.
FloriaAlone == ~comparable /\ opera.phase = "idle" /\ Next /\ UNCHANGED operaVars

OperaAlone ==
  /\ ~comparable /\ phase = "idle"
  /\ \/ OperaExecutesNothing
     \/ \E success \in BOOLEAN, gasLeft \in GasLefts, refund \in Refunds, to \in Account :
          OperaExecutes(success, gasLeft, refund, to)
     \/ OperaExecutesError
     \/ OperaSettles
  /\ UNCHANGED <<vars, comparable>>

NextBoth ==
  \/ \E t \in Transactions : SubmitToBoth(t)
  \/ \E success \in BOOLEAN, gasLeft \in GasLefts, refund \in Refunds, to \in Account :
       RunBoth(success, gasLeft, refund, to)
  \/ RunNeither
  \/ SettleBoth
  \/ FailBoth
  \/ FloriaAlone
  \/ OperaAlone

InitBoth == Init /\ OperaInit

SpecBoth == InitBoth /\ [][NextBoth]_<<vars, operaVars>>

-----------------------------------------------------------------------------
(* Properties *)

\* The integration tests run the same scenarios on every processor and expect the
\* same of all: with the Sonic rules, and as long as no transaction was submitted
\* that they are known to treat differently, Floria and Opera accept the same
\* transactions, take and return the same amounts at every stage, give the
\* execution the same gas or refuse it alike, count the same nonces and return the
\* same receipts.
OperaAgrees ==
  comparable =>
    /\ opera.phase = phase /\ opera.balance = balance /\ opera.nonce = nonce
    /\ phase = "bought" => (canTransferValue <=> canTransferFunc) /\ gas = operaGas
    /\ phase = "idle" => opera.receipt = receipt
=============================================================================
