--------------------------- MODULE StateContracts ---------------------------
(***************************************************************************)
(* The built-in contract through which the driver writes the state at the  *)
(* end of an epoch.  Floria has an implementation of its own; the Opera    *)
(* and the geth processor each keep a copy of the one that runs in         *)
(* production.  A call is its method, the length of its arguments and the  *)
(* arguments decoded; code is represented by its length.                   *)
(***************************************************************************)
EXTENDS Integers

CONSTANTS
  Address, DriverAddress,
  NonceLimit,  \* 2^64 in the code
  ValueLimit   \* 2^256 in the code

callValueTransferGas == 9000
createGas == 32000
createDataGas == 200
memoryGas == 3
sStoreSetGasEIP2200 == 20000

\* "short" has less than the four bytes of a method; "unknown" is no method.
Methods == {"short", "unknown", "setBalance", "copyCode", "swapCode", "setStorage", "incNonce"}

Failed(w) == [success |-> FALSE, gasLeft |-> 0, world |-> w]
Done(w, gas) == [success |-> TRUE, gasLeft |-> gas, world |-> w]

CodeCost(n) == n * (createDataGas + memoryGas)

-----------------------------------------------------------------------------
(* Floria *)

executeStateSetBalance(w, c, sender, gas) ==
  IF c.length # 64 \/ gas < callValueTransferGas \/ c.account = sender THEN Failed(w)
  ELSE Done([w EXCEPT !.balance[c.account] = c.value], gas - callValueTransferGas)

\* The difference is cut to 64 bits before it is looked at.
executeStateContractIncNonce(w, c, sender, gas) ==
  LET valueUint == c.value % NonceLimit
  IN  IF \/ c.length # 64 \/ gas < callValueTransferGas \/ c.account = sender
         \/ valueUint <= 0 \/ 256 <= valueUint
      THEN Failed(w)
      ELSE Done([w EXCEPT !.nonce[c.account] = (@ + valueUint) % NonceLimit],
                gas - callValueTransferGas)

executeStateContractCopyCode(w, c, gas) ==
  LET cost == createGas + CodeCost(w.code[c.other])
  IN  IF c.length # 64 \/ gas < cost THEN Failed(w)
      ELSE Done(IF c.account = c.other THEN w ELSE [w EXCEPT !.code[c.account] = w.code[c.other]],
                gas - cost)

executeStateContractSwapCode(w, c, gas) ==
  LET cost == 2 * createGas + (CodeCost(w.code[c.account]) + CodeCost(w.code[c.other])) \div 2
  IN  IF c.length # 64 \/ gas < cost THEN Failed(w)
      ELSE Done(IF c.account = c.other THEN w
                ELSE [w EXCEPT !.code[c.account] = w.code[c.other], !.code[c.other] = w.code[c.account]],
                gas - cost)

executeStateContractSetStorage(w, c, gas) ==
  IF c.length # 96 \/ gas < sStoreSetGasEIP2200 THEN Failed(w)
  ELSE Done([w EXCEPT !.storage[c.account] = c.value], gas - sStoreSetGasEIP2200)

runStateContract(w, c, sender, gas) ==
  IF sender # DriverAddress THEN Failed(w)
  ELSE CASE c.method = "setBalance" -> executeStateSetBalance(w, c, sender, gas)
         [] c.method = "copyCode" -> executeStateContractCopyCode(w, c, gas)
         [] c.method = "swapCode" -> executeStateContractSwapCode(w, c, gas)
         [] c.method = "setStorage" -> executeStateContractSetStorage(w, c, gas)
         [] c.method = "incNonce" -> executeStateContractIncNonce(w, c, sender, gas)
         [] OTHER -> Failed(w)

-----------------------------------------------------------------------------
(* Opera and geth: one method after the other, in stages *)

\* What a method charges before it looks at its arguments, and their length.
BaseCost(method) ==
  CASE method \in {"setBalance", "incNonce"} -> callValueTransferGas
    [] method = "copyCode" -> createGas
    [] method = "swapCode" -> 2 * createGas
    [] method = "setStorage" -> sStoreSetGasEIP2200

Length(method) == IF method = "setStorage" THEN 96 ELSE 64

\* Mutant: a nonce may grow by 256.
RefusedAbove(c, origin) ==
  \/ c.method \in {"setBalance", "incNonce"} /\ c.account = origin
  \/ c.method = "incNonce" /\ (c.value > 256 \/ c.value <= 0)

\* The origin of the transaction is protected; a nonce grows by less than 256.
Refused(c, origin) ==
  \/ c.method \in {"setBalance", "incNonce"} /\ c.account = origin
  \/ c.method = "incNonce" /\ (c.value >= 256 \/ c.value <= 0)

DataCost(w, c) ==
  LET cost0 == CodeCost(w.code[c.account])
      cost1 == CodeCost(w.code[c.other])
  IN  CASE c.method = "copyCode" -> cost1
        [] c.method = "swapCode" -> (cost0 + cost1) \div 2
        [] OTHER -> 0

\* The balance is changed by its difference to the value.
Written(w, c) ==
  LET balance == w.balance[c.account]
  IN  CASE c.method = "setBalance" ->
             [w EXCEPT !.balance[c.account] =
                IF balance >= c.value THEN @ - (balance - c.value)
                ELSE (@ + (c.value - balance)) % ValueLimit]
        [] c.method = "copyCode" /\ c.account # c.other ->
             [w EXCEPT !.code[c.account] = w.code[c.other]]
        [] c.method = "swapCode" /\ c.account # c.other ->
             [w EXCEPT !.code[c.account] = w.code[c.other], !.code[c.other] = w.code[c.account]]
        [] c.method = "setStorage" -> [w EXCEPT !.storage[c.account] = c.value]
        [] c.method = "incNonce" -> [w EXCEPT !.nonce[c.account] = (@ + c.value) % NonceLimit]
        [] OTHER -> w

preCompiledStateContract(w, c, caller, origin, suppliedGas) ==
  IF caller # DriverAddress \/ c.method \in {"short", "unknown"} THEN Failed(w)
  ELSE LET rest == suppliedGas - BaseCost(c.method)
       IN  IF suppliedGas < BaseCost(c.method) \/ c.length # Length(c.method)
              \/ Refused(c, origin) \/ rest < DataCost(w, c)
           THEN Failed(w)
           ELSE Done(Written(w, c), rest - DataCost(w, c))

\* The copy of the geth processor is the same, line by line.
PreCompiledContract(w, c, caller, origin, suppliedGas) ==
  preCompiledStateContract(w, c, caller, origin, suppliedGas)

-----------------------------------------------------------------------------

\* The driver, which calls, is protected by Floria where the others protect the
\* origin of the transaction; and Floria cuts the increment of a nonce to 64 bits.
KnownDifference(c, sender, origin) ==
  /\ c.method \in {"setBalance", "incNonce"}
  /\ \/ origin # sender /\ c.account \in {origin, sender}
     \/ c.method = "incNonce" /\ c.value >= NonceLimit

\* What Floria reads of a call.
Cut(c) == IF c.method = "incNonce" THEN [c EXCEPT !.value = @ % NonceLimit] ELSE c

\* Whichever processor runs the driver's call, it has the same effect on the state,
\* succeeds or fails alike and leaves the same gas, but for the known differences;
\* and there Floria does what the others do for the increment that is cut and with
\* the driver protected.  So a nonce never grows by more than 255 at once, whatever
\* the increment was before it was cut, and the driver never changes its own account.
Agree(worlds, calls, gases) ==
  \A w \in worlds, c \in calls, gas \in gases, sender \in Address, origin \in Address :
    LET floria == runStateContract(w, c, sender, gas)
        opera == preCompiledStateContract(w, c, sender, origin, gas)
        geth == PreCompiledContract(w, c, sender, origin, gas)
    IN  /\ KnownDifference(c, sender, origin) \/ floria = opera
        /\ geth = opera
        /\ floria = preCompiledStateContract(w, Cut(c), sender, sender, gas)
        /\ \A a \in Address :
             /\ (floria.world.nonce[a] - w.nonce[a]) % NonceLimit \in 0 .. 255
             /\ a = sender => /\ floria.world.nonce[a] = w.nonce[a]
                              /\ floria.world.balance[a] = w.balance[a]
=============================================================================
