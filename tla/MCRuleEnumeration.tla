------------------------- MODULE MCRuleEnumeration -------------------------
(***************************************************************************)
(* RuleEnumeration for TLC: rules of one condition, of two conditions that *)
(* can meet, and of the shapes the specification has.                      *)
(***************************************************************************)
EXTENDS RuleEnumeration

P0 == "param_0"
P1 == "param_1"

ContextConditions ==
  {Is("status", "", 0), Is("readOnly", "", 0), Is("readOnly", "", 1),
   Compares("gas", "", ">=", 2), Compares("gas", "", "<", 3), Compares("gas", "", ">", 0),
   Compares("stackSize", "", ">=", 2), Compares("stackSize", "", "<", 2),
   Compares("stackSize", "", "<=", 2), Is("pc", "", 1),
   Is("param", P0, 0), Compares("param", P0, "#", 0), Compares("valueParam", P1, "#", 0),
   RevisionBounds(0, NewestSupportedRevision), RevisionBounds(1, 1),
   RevisionBounds(R99_UnknownNextRevision, R99_UnknownNextRevision)}

CodeConditions ==
  [kind : {"op"}, arg : {"PC", P0}, rel : {"=", "#"}, rhs : {1, 2}]
  \cup [kind : {"isCode"}, arg : {P0, P1}, rel : {"="}, rhs : {0, 1}]
  \cup {Is("isCode", "PC", 1)}

StorageConditions ==
  {StorageConfiguration(config, P0, P1) : config \in ToSet(StorageStatus)}
  \cup [kind : {"storageWarm", "transient"}, arg : {P0}, rel : {"="}, rhs : {0, 1}]
  \cup {Is("transient", P1, 0), Is("transient", P1, 1)}

AccountConditions ==
  [kind : {"empty", "addressWarm"}, arg : {P0, P1}, rel : {"="}, rhs : {0, 1}]
  \cup {Compares("balance", "self", ">", 0), Is("balance", "self", 0),
        Compares("balance", P0, "<", 3), Compares("balance", P0, ">=", 1)}
  \cup [kind : {"delegation"}, arg : {P0}, rel : {"="}, rhs : 0 .. 2]
  \cup [kind : {"newContract", "selfDestructed"}, arg : {""}, rel : {"="}, rhs : {0, 1}]

BlockConditions ==
  [kind : {"inRange", "blobHash"}, arg : {P0, P1, "constant_1"}, rel : {"="}, rhs : {0, 1}]

Conditions ==
  ContextConditions \cup CodeConditions \cup StorageConditions \cup AccountConditions \cup BlockConditions

\* Conditions on different parts that share no variable do not meet in a generator.
Meet(a, b) ==
  \/ a.arg = b.arg /\ a.arg # ""
  \/ \E group \in {ContextConditions, CodeConditions, StorageConditions, AccountConditions,
                   BlockConditions} : {a, b} \subseteq group

\* Test values of different types with one property name cannot be compared (Compare
\* panics), and of warm storage and warm accounts only one would be tested.
NamesClash(a, b) ==
  /\ PropertyOf(a) = PropertyOf(b) /\ a.kind # b.kind
  /\ {a.kind, b.kind} # {"param", "valueParam"}

Pairs ==
  {SetToSeq({p[1], p[2]}) :
     p \in {q \in Conditions \X Conditions : Meet(q[1], q[2]) /\ ~NamesClash(q[1], q[2])}}

\* The shapes of rules for jumps, stores, calls and block hashes.
Shapes ==
  {<<Is("status", "", 0), Is("op", "PC", 1), Is("isCode", P0, 1), Compares("op", P0, "#", 1)>>,
   <<Is("op", "PC", 0), Is("isCode", P0, 1), Is("op", P0, 1), Compares("param", P1, "#", 0)>>,
   <<Is("op", "PC", 1), Compares("gas", "", ">=", 2), Compares("stackSize", "", ">=", 2),
     Is("readOnly", "", 0), StorageConfiguration("StorageDeletedRestored", P0, P1),
     Is("storageWarm", P0, 0)>>,
   <<Is("op", "PC", 1), Is("addressWarm", P0, 0), Is("empty", P0, 0),
     Compares("valueParam", P1, "#", 0), Compares("balance", "self", ">", 0), Is("delegation", P0, 1)>>,
   <<Is("op", "PC", 1), Is("inRange", P0, 1), RevisionBounds(0, NewestSupportedRevision)>>}

\* Two conditions of a kind, on a constant and on a parameter that code generation can
\* bind to the same word.
Aliases ==
  {<<Is("isCode", P0, 1), Is(kind, P0, a), Is(kind, "constant_1", b)>> :
     kind \in {"storageWarm", "transient", "empty", "addressWarm", "inRange", "blobHash"},
     a \in {0, 1}, b \in {0, 1}}

MCRule == {<<>>} \cup Pairs \cup Shapes \cup Aliases
=============================================================================
