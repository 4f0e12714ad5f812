---------------------------- MODULE MCRunContext ----------------------------
(***************************************************************************)
(* Instances of RunContext.  The accounts: the user who sends the          *)
(* transaction, the contracts "a", "driver" and "old", a precompiled       *)
(* contract, the state contract, the zero address, and the accounts "n1",  *)
(* "n2" and "m" that do not exist yet.                                     *)
(***************************************************************************)
EXTENDS RunContextRefund

CallAddress == {"user", "a", "driver", "pre", "sc", "zero", "n1"}
NewAddress == {"user", "a", "old", "zero", "n1", "n2", "m"}
RefundAddress == {"user", "a", "old", "zero", "n1", "n2"}

\* The first contract of the user, which "driver" would create too, and the first
\* one of "a".  Everything later lands on an occupied address.
CreateByNonce ==
  LET place == [n1 |-> {<<"user", 0>>, <<"driver", 1>>}, n2 |-> {<<"a", 1>>}]
  IN  [an \in Address \X Nonce |->
         IF \E n \in DOMAIN place \cap Address : an \in place[n]
         THEN CHOOSE n \in DOMAIN place \cap Address : an \in place[n]
         ELSE IF "old" \in Address THEN "old" ELSE "a"]

\* "a" always uses the same salt and init code.
CreateBySalt == [a \in Address |-> IF a = "a" /\ "m" \in Address THEN "m"
                                   ELSE IF "old" \in Address THEN "old" ELSE "a"]

Contracts == {"a", "driver", "old"}

StartWorld(balance, storage) ==
  [balance |-> balance,
   nonce |-> [a \in Address |-> IF a \in Contracts THEN 1 ELSE 0],
   code |-> [a \in Address |-> IF a \in Contracts THEN "code" ELSE NoCode],
   storage |-> storage, logs |-> <<>>, warm |-> {}, destructed |-> {}]

\* "n2" owns something although it does not exist yet.
Balances == [a \in Address |-> IF a = "user" THEN 2 ELSE IF a \in {"a", "n2"} THEN 1 ELSE 0]

\* More value than a word holds: another unit is too much for "a" and for "n2".
LargeBalances ==
  [a \in Address |-> IF a = "user" THEN 1 ELSE IF a \in {"a", "n2"} THEN ValueLimit - 1 ELSE 0]

EmptyStorageWorlds == {StartWorld(Balances, [a \in Address |-> Zero])}

\* The slot of "a" may be set before the transaction; it does not matter to which
\* word.
StorageWorlds ==
  {StartWorld(Balances, [a \in Address |-> IF a = "a" THEN v ELSE Zero]) : v \in {Zero, 1}}

StorageAndBalanceWorlds ==
  StorageWorlds \cup {StartWorld(LargeBalances, [a \in Address |-> Zero])}
=============================================================================
