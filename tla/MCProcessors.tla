---------------------------- MODULE MCProcessors ----------------------------
(***************************************************************************)
(* Instances of Floria and Opera side by side, and of their state          *)
(* contracts: accounts with the driver and the origin of a transaction,    *)
(* values around the limits of a nonce's increment, gas around the prices. *)
(***************************************************************************)
EXTENDS OperaProcessor, MCFloriaProcessor

Contract == INSTANCE StateContracts
  WITH Address <- {"driver", "origin", "other"}, DriverAddress <- "driver",
       NonceLimit <- 1024, ValueLimit <- 4096

ContractAccounts == {"driver", "origin", "other"}

ContractWorlds ==
  {[balance |-> [a \in ContractAccounts |-> b],
    nonce |-> [a \in ContractAccounts |-> 1000],
    code |-> [a \in ContractAccounts |-> IF a = "other" THEN l ELSE 3],
    storage |-> [a \in ContractAccounts |-> 1]] :
     b \in {0, 256, 4095}, l \in {0, 10}}

CallsOf(methods, others, values) ==
  [method : methods, length : {64, 96}, account : ContractAccounts, other : others, value : values]

ContractCalls ==
  CallsOf({"setBalance", "incNonce"}, {"other"}, {0, 1, 255, 256, 1024, 1025})
  \cup CallsOf({"copyCode", "swapCode"}, {"origin", "other"}, {0})
  \cup CallsOf({"setStorage", "short", "unknown"}, {"other"}, {2})

\* Around the prices of the methods on the code above.
ContractGas == {8999, 9000, 19999, 20000, 31999, 32000, 34029, 34030, 64608, 64609, 65319}

\* The driver's calls, which the Sonic rules know, have the same effect, succeed or
\* fail alike and leave the same gas whichever processor's state contract runs
\* them, but for the known differences (which address is protected, and increments
\* of a nonce of 2^64 and more), where Floria does what the others do for the low 64
\* bits and the sender: no increment, however large, raises a nonce by more than 255,
\* and the driver's own account is left alone.
StateContractsAgree ==
  ~ethCompatible /\ count = 0 => Contract!Agree(ContractWorlds, ContractCalls, ContractGas)
=============================================================================
