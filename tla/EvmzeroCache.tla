----------------------------- MODULE EvmzeroCache -----------------------------
(***************************************************************************)
(* The LRU cache of evmzero, which holds the analysis of contracts by code *)
(* hash, and Keccak hashes by input.  It is shared by all threads that use *)
(* the interpreter.  Each of its operations holds the mutex from beginning *)
(* to end and is one step; GetOrInsert is two of them, and the value it    *)
(* inserts is made in between, without the mutex.                          *)
(*                                                                         *)
(* All entries are in the list from the start: the ones that were not used *)
(* yet are at its end, in the order in which Clear linked them.            *)
(***************************************************************************)
EXTENDS Integers, Sequences, FiniteSets

CONSTANTS
  Key,       \* the contents that have a key: code with a hash, or an input of 32 or 64 bytes
  Uncached,  \* the contents that have none
  ZeroKey,   \* the key of an entry that was never used, and the hash of code without one
  Capacity,
  Thread

ASSUME CacheAssumption ==
  /\ ZeroKey \in Key
  /\ Key \cap Uncached = {}
  /\ Capacity \in Nat /\ Capacity >= 2

VARIABLES
  entries,  \* the entries, by position
  index,    \* the position of the entry of each key, or Nil
  head,     \* the most recently used entry
  tail,     \* the least recently used entry
  pc,       \* where each thread is in GetOrInsert
  request,  \* the content each thread asks about
  value     \* what the thread made, then what it was given

list == <<entries, index, head, tail>>
vars == <<entries, index, head, tail, pc, request, value>>

Nil == 0
Beyond == Capacity + 1  \* the address behind the last entry
Position == 1 .. Capacity
Pointer == 0 .. Capacity + 1
Content == Key \cup Uncached

\* What make_value returns: the analysis of a code, or the hash of an input.
Make(content) == <<"made", content>>
NoValue == <<"none", ZeroKey>>
Value == {Make(content) : content \in Content} \cup {NoValue}
Entry == [key : Key, value : Value, pred : Pointer, succ : Pointer]

\* Clear: the last entry gets a successor, too.
Empty ==
  [p \in Position |-> [key |-> ZeroKey, value |-> NoValue, pred |-> p - 1, succ |-> p + 1]]

Init ==
  /\ entries = Empty
  /\ index = [key \in Key |-> Nil]
  /\ head = 1
  /\ tail = Capacity
  /\ pc = [t \in Thread |-> "idle"]
  /\ request = [t \in Thread |-> ZeroKey]
  /\ value = [t \in Thread |-> Make(ZeroKey)]

Clear ==
  /\ entries' = Empty
  /\ index' = [key \in Key |-> Nil]
  /\ head' = 1
  /\ tail' = Capacity
  /\ UNCHANGED <<pc, request, value>>

\* Mutant: code without a hash is looked up under the zero hash.
CallCached(t, content) ==
  /\ pc[t] = "idle"
  /\ request' = [request EXCEPT ![t] = content]
  /\ value' = [value EXCEPT ![t] = NoValue]
  /\ pc' = [pc EXCEPT ![t] = "get"]
  /\ UNCHANGED list

\* Execute and Hash: only a content with a key goes to the cache.
Call(t, content) ==
  /\ pc[t] = "idle"
  /\ request' = [request EXCEPT ![t] = content]
  /\ value' = [value EXCEPT ![t] = NoValue]
  /\ pc' = [pc EXCEPT ![t] = IF content \in Key THEN "get" ELSE "bypass"]
  /\ UNCHANGED list

Bypass(t) ==
  /\ pc[t] = "bypass"
  /\ value' = [value EXCEPT ![t] = Make(request[t])]
  /\ pc' = [pc EXCEPT ![t] = "idle"]
  /\ UNCHANGED <<list, request>>

\* The key of the request; the zero hash for code that has none.
RequestKey(t) == IF request[t] \in Key THEN request[t] ELSE ZeroKey

\* Entry p, which is not in the list E, becomes its head.
LinkFirst(E, p) ==
  [E EXCEPT ![p].pred = Nil, ![p].succ = head, ![head].pred = p]

\* Mutant: the tail stays where it is.
TouchKeepsTail(p) ==
  IF p = head THEN UNCHANGED <<entries, head, tail>>
  ELSE LET e == entries[p]
           opened == [entries EXCEPT ![e.pred].succ = e.succ]
           closed == IF e.succ = Nil THEN opened ELSE [opened EXCEPT ![e.succ].pred = e.pred]
       IN  /\ entries' = LinkFirst(closed, p)
           /\ head' = p
           /\ UNCHANGED tail

\* Moves an entry to the front.
Touch(p) ==
  IF p = head THEN UNCHANGED <<entries, head, tail>>
  ELSE LET e == entries[p]
           opened == [entries EXCEPT ![e.pred].succ = e.succ]
           closed == IF e.succ = Nil THEN opened ELSE [opened EXCEPT ![e.succ].pred = e.pred]
       IN  /\ entries' = LinkFirst(closed, p)
           /\ head' = p
           /\ tail' = IF e.succ = Nil THEN e.pred ELSE tail

Get(t) ==
  LET p == index[RequestKey(t)]
  IN  /\ pc[t] = "get"
      /\ IF p = Nil
         THEN /\ pc' = [pc EXCEPT ![t] = "make"]
              /\ UNCHANGED <<entries, head, tail, value>>
         ELSE /\ Touch(p)
              /\ value' = [value EXCEPT ![t] = entries[p].value]
              /\ pc' = [pc EXCEPT ![t] = "idle"]
      /\ UNCHANGED <<index, request>>

\* make_value, between the two critical sections.
MakeValue(t) ==
  /\ pc[t] = "make"
  /\ value' = [value EXCEPT ![t] = Make(request[t])]
  /\ pc' = [pc EXCEPT ![t] = "insert"]
  /\ UNCHANGED <<list, request>>

Held == {key \in Key : index[key] # Nil}

\* Mutant: the key of the entry that is taken stays in the index.
GetNewHeadKeepsKey(key, v) ==
  LET closed == [entries EXCEPT ![entries[tail].pred].succ = Nil]
  IN  /\ entries' = [LinkFirst(closed, tail) EXCEPT ![tail].key = key, ![tail].value = v]
      /\ index' = [index EXCEPT ![key] = tail]
      /\ tail' = entries[tail].pred
      /\ head' = tail

\* Mutant: the new tail keeps the successor it had.
GetNewHeadLinked(key, v) ==
  LET kept == IF Cardinality(Held) >= Capacity
              THEN [index EXCEPT ![entries[tail].key] = Nil] ELSE index
  IN  /\ entries' = [LinkFirst(entries, tail) EXCEPT ![tail].key = key, ![tail].value = v]
      /\ index' = [kept EXCEPT ![key] = tail]
      /\ tail' = entries[tail].pred
      /\ head' = tail

\* GetNewHead, and what InsertOrAssign then does with the entry: the last entry
\* moves to the front and takes up the key.
GetNewHead(key, v) ==
  LET closed == [entries EXCEPT ![entries[tail].pred].succ = Nil]
      kept == IF Cardinality(Held) >= Capacity
              THEN [index EXCEPT ![entries[tail].key] = Nil] ELSE index
  IN  /\ entries' = [LinkFirst(closed, tail) EXCEPT ![tail].key = key, ![tail].value = v]
      /\ index' = [kept EXCEPT ![key] = tail]
      /\ tail' = entries[tail].pred
      /\ head' = tail

\* Another thread may have inserted the key since Get: its value is replaced, and
\* the entry stays where it is.
InsertOrAssign(t) ==
  LET key == RequestKey(t)
      p == index[key]
  IN  /\ pc[t] = "insert"
      /\ \/ /\ p # Nil
            /\ entries' = [entries EXCEPT ![p].value = value[t]]
            /\ UNCHANGED <<index, head, tail>>
         \/ /\ p = Nil
            /\ GetNewHead(key, value[t])
      /\ pc' = [pc EXCEPT ![t] = "idle"]
      /\ UNCHANGED <<request, value>>

Next ==
  \/ Clear
  \/ \E t \in Thread :
       \/ \E content \in Content : Call(t, content)
       \/ Bypass(t)
       \/ Get(t)
       \/ MakeValue(t)
       \/ InsertOrAssign(t)

Spec == Init /\ [][Next]_vars

-----------------------------------------------------------------------------
(* Properties *)

\* The state variables have the shapes declared above.
TypeOK ==
  /\ entries \in [Position -> Entry]
  /\ index \in [Key -> Position \cup {Nil}]
  /\ head \in Position
  /\ tail \in Position
  /\ pc \in [Thread -> {"idle", "bypass", "get", "make", "insert"}]
  /\ request \in [Thread -> Content]
  /\ value \in [Thread -> Value]

\* The pointers the operations follow without a check lead to entries: the
\* neighbours of an entry that Get may move, and the predecessor of the tail.  So
\* the pointer behind the last entry that Clear leaves there is never followed.
PointersAreSafe ==
  /\ entries[tail].pred \in Position
  /\ \A key \in Held :
       LET e == entries[index[key]]
       IN  /\ index[key] # head => e.pred \in Position
           /\ e.succ \in Position \cup {Nil}

\* Every key leads to an entry that holds it and a value made for it, and each
\* link of the list has its counterpart, whatever the order in which threads
\* look up, insert, assign and clear.
CacheIsConsistent ==
  /\ \A key \in Held : /\ entries[index[key]].key = key
                       /\ entries[index[key]].value = Make(key)
  /\ \A p \in Position :
       LET e == entries[p]
       IN  /\ e.pred = Nil <=> p = head
           /\ e.succ \notin Position <=> p = tail
           /\ p # head => entries[e.pred].succ = p
           /\ p # tail => entries[e.succ].pred = p

\* The positions along the list.
Chain ==
  LET at[i \in Position] ==
        IF i = 1 THEN head
        ELSE IF at[i - 1] \in Position THEN entries[at[i - 1]].succ ELSE Nil
  IN  at

\* The keys the cache holds, in the order of the list.
Order ==
  LET used == SelectSeq(Chain, LAMBDA p : p \in Position /\ index[entries[p].key] = p)
  IN  [i \in DOMAIN used |-> entries[used[i]].key]

Lru == INSTANCE LruCache WITH order <- Order

\* "Adding elements beyond Capacity will cause the least recently used elements
\* to be removed": Get makes a key it finds the most recent one, InsertOrAssign
\* adds a key it does not find in place of the least recent one when the cache is
\* full, and changes nothing else about the order when it does find it.
KeepsLruOrder ==
  [][\A t \in Thread :
       /\ pc[t] = "get" /\ pc'[t] = "idle" => Lru!Touch(RequestKey(t))
       /\ pc[t] = "insert" /\ pc'[t] = "idle" =>
            IF RequestKey(t) \in Held THEN Order' = Order ELSE Lru!Add(RequestKey(t))]_vars

\* A caller of GetOrInsert gets the value made for its own content, also when
\* another thread inserted, replaced or evicted the entry between its two critical
\* sections, and never the one of other code that has no hash either.
ReturnsTheValue ==
  \A t \in Thread : pc[t] = "idle" => value[t] = Make(request[t])
=============================================================================
