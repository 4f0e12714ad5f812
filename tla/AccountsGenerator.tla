------------------------- MODULE AccountsGenerator -------------------------
(***************************************************************************)
(* The generator of accounts for conformance tests: which variables hold   *)
(* the address of an empty, of a warm or of a delegating account, and      *)
(* which balances the accounts have.                                       *)
(*                                                                         *)
(* Accounts are their balances, their codes (for those that have been set) *)
(* and the set of warm addresses. A code is empty, some bytes, or a        *)
(* delegation to an address.                                               *)
(***************************************************************************)
EXTENDS Assignments

NoCode == [kind |-> "empty", to |-> 0]
SomeBytes == [kind |-> "bytes", to |-> 0]
NewDelegationDesignator(a) == [kind |-> "designator", to |-> a]

NoAccounts == [balance |-> <<>>, code |-> <<>>, warm |-> {}]

GetBalance(accounts, a) == Lookup(accounts.balance, a)
GetCode(accounts, a) == IF a \in DOMAIN accounts.code THEN accounts.code[a] ELSE NoCode
IsEmpty(accounts, a) == GetBalance(accounts, a) = 0 /\ GetCode(accounts, a) = NoCode
Exists(accounts, a) == a \in DOMAIN accounts.balance \cup DOMAIN accounts.code

-----------------------------------------------------------------------------
(* Constraints *)

NewAccountGenerator ==
  [empty |-> {}, minBalance |-> {}, maxBalance |-> {}, warmCold |-> {}, delegation |-> {}]

BindToAddressOfEmptyAccount(g, v) == [g EXCEPT !.empty = @ \cup {[address |-> v, empty |-> TRUE]}]
BindToAddressOfNonEmptyAccount(g, v) ==
  [g EXCEPT !.empty = @ \cup {[address |-> v, empty |-> FALSE]}]

AddBalanceLowerBound(g, v, value) ==
  [g EXCEPT !.minBalance = @ \cup {[address |-> v, value |-> value]}]
AddBalanceUpperBound(g, v, value) ==
  [g EXCEPT !.maxBalance = @ \cup {[address |-> v, value |-> value]}]

BindWarmAddress(g, v) == [g EXCEPT !.warmCold = @ \cup {[address |-> v, warm |-> TRUE]}]
BindColdAddress(g, v) == [g EXCEPT !.warmCold = @ \cup {[address |-> v, warm |-> FALSE]}]

BindToAddressOfDelegatingAccount(g, v, warm) ==
  [g EXCEPT !.delegation = @ \cup {[address |-> v, isDelegated |-> TRUE, warm |-> warm]}]
BindToAddressOfNotDelegatingAccount(g, v) ==
  [g EXCEPT !.delegation = @ \cup {[address |-> v, isDelegated |-> FALSE, warm |-> FALSE]}]

\* Mutant: the clone forgets the lower bounds of balances.
CloneAccountsUnbounded(g) ==
  [empty |-> g.empty, warmCold |-> g.warmCold, minBalance |-> {}, maxBalance |-> g.maxBalance,
   delegation |-> g.delegation]

CloneAccounts(g) ==
  [empty |-> g.empty, warmCold |-> g.warmCold, minBalance |-> g.minBalance,
   maxBalance |-> g.maxBalance, delegation |-> g.delegation]

\* The orders in which constraints are sorted, by variable first.
EmptyKey(con) == 2 * Rank(con.address) + IF con.empty THEN 0 ELSE 1
WarmKey(con) == 2 * Rank(con.address) + IF con.warm THEN 0 ELSE 1
BalanceKey(con) == (MaxWord + 1) * Rank(con.address) + con.value
DelegationKey(con) ==
  4 * Rank(con.address) + (IF con.isDelegated THEN 2 ELSE 0) + (IF con.warm THEN 1 ELSE 0)

-----------------------------------------------------------------------------
(* Generate *)

areVariablesClashing(asg, a, b) ==
  a = b \/ (IsBound(asg, a) /\ IsBound(asg, b) /\ asg[a] = asg[b])

\* Constraints are compared with their neighbours in the sorted order only.
InConflict(g, asg) ==
  LET SameAccount(a, b) == areVariablesClashing(asg, a.address, b.address)
  IN \/ NeighboursClash(Sorted(g.empty, EmptyKey),
                        LAMBDA a, b : SameAccount(a, b) /\ a.empty # b.empty)
     \/ NeighboursClash(Sorted(g.delegation, DelegationKey),
                        LAMBDA a, b : /\ SameAccount(a, b)
                                      /\ a.isDelegated # b.isDelegated \/ a.warm # b.warm)
     \/ \E d \in g.delegation, e \in g.empty : SameAccount(d, e) /\ e.empty
     \/ NeighboursClash(Sorted(g.warmCold, WarmKey),
                        LAMBDA a, b : SameAccount(a, b) /\ a.warm # b.warm)

getUnusedAddress(o) == RandomAddress(o.used \cup Range(o.asg))

getBoundOrBindNewAddress(o, v) ==
  IF IsBound(o.asg, v) THEN o ELSE [o EXCEPT !.asg = Bind(@, v, getUnusedAddress(o))]

AddressOf(o, v) == NewAddress(o.asg[v])

SetBalance(o, a, value) == [o EXCEPT !.val.balance = Bind(@, a, value)]
SetCode(o, a, code) == [o EXCEPT !.val.code = Bind(@, a, code)]
SetWarm(o, a) == [o EXCEPT !.val.warm = @ \cup {a}]

MarkEmpty(o, con) ==
  LET p == getBoundOrBindNewAddress(o, con.address)
      a == AddressOf(p, con.address)
  IN IF a \in (IF con.empty THEN p.nonEmpty ELSE p.empty) THEN {Failed(p, ErrUnsatisfiable)}
     ELSE IF con.empty THEN {[p EXCEPT !.empty = @ \cup {a}]}
     ELSE {[p EXCEPT !.nonEmpty = @ \cup {a}]}

FillEmpty(o, a) == {SetCode(SetBalance(o, a, 0), a, NoCode)}
FillNonEmpty(o, a) ==
  {SetBalance(o, a, 1), SetCode(o, a, SomeBytes), SetCode(SetBalance(o, a, 1), a, SomeBytes)}

FillAccounts(o) ==
  ForEach(ForEach({o}, SetToSeq(o.empty), FillEmpty), SetToSeq(o.nonEmpty), FillNonEmpty)

WarmUp(o, con) ==
  LET p == getBoundOrBindNewAddress(o, con.address)
  IN {IF con.warm THEN SetWarm(p, AddressOf(p, con.address)) ELSE p}

BindAddress(o, con) == {getBoundOrBindNewAddress(o, con.address)}

\* The bounds on the balance of one account, those of all variables that hold its address.
LowerBound(g, o, a) ==
  Max({0} \cup {con.value : con \in {c \in g.minBalance : AddressOf(o, c.address) = a}})
UpperBound(g, o, a) ==
  IF a \in o.empty THEN 0
  ELSE Min({MaxWord} \cup {con.value : con \in {c \in g.maxBalance : AddressOf(o, c.address) = a}})

DrawBalance(g, o, a) ==
  IF LowerBound(g, o, a) > UpperBound(g, o, a) THEN {Failed(o, ErrUnsatisfiable)}
  ELSE {SetBalance(o, a, value) : value \in LowerBound(g, o, a) .. UpperBound(g, o, a)}

\* A lower bound of zero is no bound.
Bounds(g) == {con \in g.minBalance : con.value > 0} \cup g.maxBalance

processBalanceConstraints(g, o) ==
  UNION {ForEach({p}, SetToSeq({AddressOf(p, con.address) : con \in Bounds(g)} \cup p.empty),
                 LAMBDA q, a : DrawBalance(g, q, a)) :
           p \in ForEach({o}, Sorted(g.minBalance, BalanceKey) \o Sorted(g.maxBalance, BalanceKey),
                         BindAddress)}

Delegate(o, con) ==
  LET p == getBoundOrBindNewAddress(o, con.address)
      a == AddressOf(p, con.address)
      to == getUnusedAddress(p)
      q == [SetCode(p, a, NewDelegationDesignator(to)) EXCEPT !.used = @ \cup {to}]
  IN {IF ~con.isDelegated THEN SetCode(p, a, SomeBytes)
      ELSE IF con.warm THEN SetWarm(q, to) ELSE q}

\* The account that executes the code has a balance and a code of its own.
AddSelf(o, self) ==
  SetCode(IF Exists(o.val, self) THEN o ELSE SetBalance(o, self, RandU256(o.used)), self, SomeBytes)

GenerateAccounts(g, asg, self) ==
  LET start == [asg |-> asg, err |-> Ok, used |-> {self}, empty |-> {}, nonEmpty |-> {},
                val |-> NoAccounts]
      Then(outcomes, Step(_)) == UNION {IF o.err = Ok THEN Step(o) ELSE {o} : o \in outcomes}
      filled == Then(ForEach({start}, Sorted(g.empty, EmptyKey), MarkEmpty), FillAccounts)
      warmed == ForEach(filled, Sorted(g.warmCold, WarmKey), WarmUp)
      funded == Then(warmed, LAMBDA o : processBalanceConstraints(g, o))
      outcomes == ForEach(funded, Sorted(g.delegation, DelegationKey), Delegate)
  IN IF InConflict(g, asg) THEN Unsatisfied(asg)
     ELSE {Outcome(AddSelf(o, self)) : o \in outcomes}
=============================================================================
