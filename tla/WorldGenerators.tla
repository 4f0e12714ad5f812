-------------------------- MODULE WorldGenerators --------------------------
(***************************************************************************)
(* The generators of the world a conformance test runs in: the storage of  *)
(* the account under test, its transient storage, and whether the account  *)
(* has self-destructed and is new. Every Generate is the set of its        *)
(* possible outcomes: the assignment, the error and what was generated.    *)
(* The random entries that are added for variety are left out: they are at *)
(* keys nothing refers to.                                                 *)
(***************************************************************************)
EXTENDS Assignments, StorageGas

-----------------------------------------------------------------------------
(* StorageGenerator *)

NewStorageGenerator == [cfg |-> {}, warmCold |-> {}]

BindConfiguration(g, config, key, newValue) ==
  [g EXCEPT !.cfg = @ \cup {[config |-> config, key |-> key, newValue |-> newValue]}]
BindWarm(g, key) == [g EXCEPT !.warmCold = @ \cup {[key |-> key, warm |-> TRUE]}]
BindCold(g, key) == [g EXCEPT !.warmCold = @ \cup {[key |-> key, warm |-> FALSE]}]

CloneStorage(g) == [cfg |-> g.cfg, warmCold |-> g.warmCold]

\* In the order of the constants of tosca.StorageStatus.
StorageStatus ==
  <<"StorageAssigned", "StorageAdded", "StorageDeleted", "StorageModified", "StorageDeletedAdded",
    "StorageModifiedDeleted", "StorageDeletedRestored", "StorageAddedDeleted",
    "StorageModifiedRestored">>

CheckStorageStatusConfig(config, org, cur, new) == config = GetStorageStatus(org, cur, new)

\* Every other status needs a new value that is not zero.
NewValueMustBeZero(config) ==
  config \in {"StorageAddedDeleted", "StorageDeleted", "StorageModifiedDeleted"}

\* The order in which constraints are sorted: by status, key and new value, or by key.
ConfigKey(con) ==
  100 * (CHOOSE i \in DOMAIN StorageStatus : StorageStatus[i] = con.config)
  + 10 * Rank(con.key) + Rank(con.newValue)
WarmColdKey(con) == 2 * Rank(con.key) + IF con.warm THEN 0 ELSE 1

\* A word that is none of the given ones; what is drawn is not drawn again.
Draw(o, exclusive) == RandU256(o.used \cup exclusive)

\* The key of a variable, drawn if it has none.
getKey(o, v) ==
  IF IsBound(o.asg, v) THEN o
  ELSE LET key == Draw(o, {})
       IN [o EXCEPT !.asg = Bind(@, v, key), !.used = @ \cup {key}]

\* Mutant: a restored slot is given another original value than the new one.
SlotValuesUnrestored(o, config, new) ==
  LET x == Draw(o, {0, new})
      y == Draw(o, {0, new, x})
  IN CASE config = "StorageAdded" -> <<0, 0>>
       [] config = "StorageAddedDeleted" -> <<0, x>>
       [] config \in {"StorageDeletedRestored", "StorageDeletedAdded"} -> <<x, 0>>
       [] config \in {"StorageDeleted", "StorageModified"} -> <<x, x>>
       [] config \in {"StorageModifiedDeleted", "StorageModifiedRestored"} -> <<x, y>>
       [] config = "StorageAssigned" -> <<x, y>>

\* The original and the current value of a slot with which writing new has the status.
SlotValues(o, config, new) ==
  LET x == Draw(o, {0, new})
      y == Draw(o, {0, new, x})
  IN CASE config = "StorageAdded" -> <<0, 0>>
       [] config = "StorageAddedDeleted" -> <<0, x>>
       [] config = "StorageDeletedRestored" -> <<new, 0>>
       [] config = "StorageDeletedAdded" -> <<x, 0>>
       [] config \in {"StorageDeleted", "StorageModified"} -> <<x, x>>
       [] config = "StorageModifiedDeleted" -> <<x, y>>
       [] config = "StorageModifiedRestored" -> <<new, x>>
       [] config = "StorageAssigned" -> <<x, y>>

WithSlot(o, key, original, current) ==
  [o EXCEPT !.val.original = Bind(@, key, original), !.val.current = Bind(@, key, current),
            !.used = @ \cup {original, current}]

ConfigureSlot(o, con) ==
  LET p == getKey(o, con.key)
      new == IF IsBound(p.asg, con.newValue) THEN p.asg[con.newValue]
             ELSE IF NewValueMustBeZero(con.config) THEN 0 ELSE Draw(p, {0})
      q == [p EXCEPT !.asg = Bind(@, con.newValue, new), !.used = @ \cup {new}]
      slot == SlotValues(q, con.config, new)
  IN IF (new = 0) # NewValueMustBeZero(con.config) THEN {Failed(p, ErrUnsatisfiable)}
     ELSE {WithSlot(q, q.asg[con.key], slot[1], slot[2])}

WarmSlot(o, con) ==
  LET p == getKey(o, con.key)
      key == p.asg[con.key]
      original == Draw(p, {})
      q == IF key \in DOMAIN p.val.original THEN p
           ELSE WithSlot(p, key, original, Draw(p, {original}))
  IN {[q EXCEPT !.val.warm = IF con.warm THEN @ \cup {key} ELSE @ \ {key}]}

GenerateStorage(g, asg) ==
  LET cfg == Sorted(g.cfg, ConfigKey)
      warmCold == Sorted(g.warmCold, WarmColdKey)
      start == [asg |-> asg, err |-> Ok, used |-> Range(asg),
                val |-> [original |-> <<>>, current |-> <<>>, warm |-> {}]]
      outcomes == ForEach(ForEach({start}, cfg, ConfigureSlot), warmCold, WarmSlot)
  IN IF \/ NeighboursClash(cfg, LAMBDA a, b : a.key = b.key)
        \/ NeighboursClash(warmCold, LAMBDA a, b : a.key = b.key)
     THEN Unsatisfied(asg)
     ELSE {Outcome(o) : o \in outcomes}

-----------------------------------------------------------------------------
(* TransientStorageGenerator *)

NewTransientStorageGenerator == [nonZero |-> <<>>, unsatisfiable |-> FALSE]

\* A map from variables to what is required of them, where a second, different
\* requirement is a conflict.
Require(g, map, v, required) ==
  IF v \in DOMAIN map THEN [g EXCEPT !.unsatisfiable = @ \/ map[v] # required]
  ELSE [g EXCEPT !.nonZero = Bind(@, v, required)]

BindToNonZero(g, key) == Require(g, g.nonZero, key, TRUE)
BindToZero(g, key) == Require(g, g.nonZero, key, FALSE)

CloneTransientStorage(g) == [nonZero |-> g.nonZero, unsatisfiable |-> g.unsatisfiable]

\* A variable that is not bound reads as zero in the comparison of keys.
TransientClash(g, asg, v) ==
  /\ IsBound(asg, v)
  /\ \E other \in DOMAIN g.nonZero :
       asg[v] = Lookup(asg, other) /\ g.nonZero[v] # g.nonZero[other]

BindTransientSlot(g, o, v) ==
  LET p == getKey(o, v)
      value == Draw(p, {})
  IN IF TransientClash(g, o.asg, v) THEN {Failed(o, ErrUnsatisfiable)}
     ELSE IF g.nonZero[v]
          THEN {[p EXCEPT !.val = Bind(@, p.asg[v], value), !.used = @ \cup {value}]}
     ELSE {p}

\* The constraints are visited in any order, that of a Go map.
GenerateTransientStorage(g, asg) ==
  LET start == [asg |-> asg, err |-> Ok, used |-> Range(asg), val |-> <<>>]
      outcomes == UNION {ForEach({start}, order, LAMBDA o, v : BindTransientSlot(g, o, v)) :
                           order \in SetToSeqs(DOMAIN g.nonZero)}
  IN IF g.unsatisfiable THEN Unsatisfied(asg)
     ELSE {Outcome(o) : o \in outcomes}

-----------------------------------------------------------------------------
(* SelfDestructedGenerator: the values that each of two flags must have *)

NewSelfDestructedGenerator == [newContract |-> {}, selfDestructed |-> {}]

MarkNewContract(g, b) == [g EXCEPT !.newContract = @ \cup {b}]
MarkSelfDestructed(g, b) == [g EXCEPT !.selfDestructed = @ \cup {b}]

CloneSelfDestructed(g) ==
  [newContract |-> g.newContract, selfDestructed |-> g.selfDestructed]

\* The values one flag may get.
FlagValues(musts) == {b \in BOOLEAN : \A must \in musts : b = must}

GenerateSelfDestructed(g, asg) ==
  IF FlagValues(g.newContract) = {} \/ FlagValues(g.selfDestructed) = {} THEN Unsatisfied(asg)
  ELSE {Generated(asg, [newContract |-> n, selfDestructed |-> d]) :
          n \in FlagValues(g.newContract), d \in FlagValues(g.selfDestructed)}
=============================================================================
