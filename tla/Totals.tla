------------------------------- MODULE Totals -------------------------------
(* The sum of the values of a function, for the properties that say that gas, *)
(* refunds or balances are conserved.                                         *)
EXTENDS FiniteSetsExt

Total(f) == MapThenSumSet(LAMBDA x : f[x], DOMAIN f)

\* The refund collected by the first n frames of a stack of calls.
Earned(fs, n) == Total([i \in 1 .. n |-> fs[i].refund])
=============================================================================
