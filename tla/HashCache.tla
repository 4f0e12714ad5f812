------------------------------ MODULE HashCache ------------------------------
(***************************************************************************)
(* The cache of Keccak hashes that all executions of an interpreter share: *)
(* a fixed array of entries, an index by key, and a doubly linked list in  *)
(* the order of use.  A lock protects all of it, but is given up while a   *)
(* hash is computed, and a hash that was found is read after the unlock.   *)
(*                                                                         *)
(* Threads are the goroutines that execute SHA3 instructions.  What one    *)
(* does under the lock is one step, except that filling in the hash of an  *)
(* entry is a step of its own: a thread that found the entry earlier reads *)
(* the field without the lock, and may read it half written.               *)
(***************************************************************************)
EXTENDS Integers, Sequences, FiniteSets

CONSTANTS
  Key,       \* the inputs that are hashed
  ZeroKey,   \* the zero value among them
  Capacity,  \* the number of entries, which newHashCache makes at least 2
  Thread,    \* the goroutines
  NoThread   \* the lock is free

ASSUME CacheAssumption ==
  /\ ZeroKey \in Key
  /\ Capacity \in Nat /\ Capacity >= 2
  /\ NoThread \notin Thread

VARIABLES
  entries,   \* the entries, by position
  index,     \* the position of the entry of each key, or Nil
  head,      \* the most recently used entry
  tail,      \* the least recently used entry
  nextFree,  \* the position of the next free entry
  lock,      \* who holds the lock
  pc,        \* where each thread is in getHash
  request,   \* the key each thread wants hashed
  found,     \* the entry each thread found
  result     \* what getHash returned to each thread, until it calls again

list == <<entries, index, head, tail, nextFree>>
vars == <<entries, index, head, tail, nextFree, lock, pc, request, found, result>>

Nil == 0
Position == 1 .. Capacity
Keccak(key) == <<"Keccak256", key>>
NoHash == <<"zero", ZeroKey>>
Torn == <<"torn", ZeroKey>>
Hash == {Keccak(key) : key \in Key} \cup {NoHash, Torn}
Entry == [key : Key, hash : Hash, pred : Position \cup {Nil}, succ : Position \cup {Nil}]

\* newHashCache
Init ==
  /\ entries = [p \in Position |->
       [key |-> ZeroKey, hash |-> IF p = 1 THEN Keccak(ZeroKey) ELSE NoHash,
        pred |-> Nil, succ |-> Nil]]
  /\ index = [key \in Key |-> IF key = ZeroKey THEN 1 ELSE Nil]
  /\ head = 1
  /\ tail = 1
  /\ nextFree = 2
  /\ lock = NoThread
  /\ pc = [t \in Thread |-> "idle"]
  /\ request = [t \in Thread |-> ZeroKey]
  /\ found = [t \in Thread |-> Nil]
  /\ result = [t \in Thread |-> Keccak(ZeroKey)]

Call(t, key) ==
  /\ pc[t] = "idle"
  /\ pc' = [pc EXCEPT ![t] = "lookup"]
  /\ request' = [request EXCEPT ![t] = key]
  /\ result' = [result EXCEPT ![t] = NoHash]
  /\ UNCHANGED <<entries, index, head, tail, nextFree, lock, found>>

\* Mutant: the tail is not moved when the entry was the last one.
MoveToFrontKeepsTail(p) ==
  LET e == entries[p]
      opened == [entries EXCEPT ![e.pred].succ = e.succ]
      closed == IF e.succ = Nil THEN opened ELSE [opened EXCEPT ![e.succ].pred = e.pred]
  IN  /\ entries' = [closed EXCEPT ![p].pred = Nil, ![p].succ = head, ![head].pred = p]
      /\ UNCHANGED tail
      /\ head' = p

\* Mutant: the successor of the entry keeps pointing back at it.
MoveToFrontOneWay(p) ==
  LET e == entries[p]
      closed == [entries EXCEPT ![e.pred].succ = e.succ]
  IN  /\ entries' = [closed EXCEPT ![p].pred = Nil, ![p].succ = head, ![head].pred = p]
      /\ tail' = IF e.succ # Nil THEN tail ELSE e.pred
      /\ head' = p

\* Unlinks entry p, which is not the head, and links it in at the front.
MoveToFront(p) ==
  LET e == entries[p]
      opened == [entries EXCEPT ![e.pred].succ = e.succ]
      closed == IF e.succ = Nil THEN opened ELSE [opened EXCEPT ![e.succ].pred = e.pred]
  IN  /\ entries' = [closed EXCEPT ![p].pred = Nil, ![p].succ = head, ![head].pred = p]
      /\ tail' = IF e.succ # Nil THEN tail ELSE e.pred
      /\ head' = p

\* The first critical section of getHash.
Lookup(t) ==
  LET p == index[request[t]]
  IN  /\ pc[t] = "lookup"
      /\ lock = NoThread
      /\ found' = [found EXCEPT ![t] = p]
      /\ IF p = Nil
         THEN pc' = [pc EXCEPT ![t] = "compute"] /\ UNCHANGED <<entries, head, tail>>
         ELSE /\ pc' = [pc EXCEPT ![t] = "hit"]
              /\ IF p = head THEN UNCHANGED <<entries, head, tail>> ELSE MoveToFront(p)
      /\ UNCHANGED <<index, nextFree, lock, request, result>>

\* "return entry.hash", after the unlock.
ReadHash(t) ==
  /\ pc[t] = "hit"
  /\ result' = [result EXCEPT ![t] = entries[found[t]].hash]
  /\ found' = [found EXCEPT ![t] = Nil]
  /\ pc' = [pc EXCEPT ![t] = "idle"]
  /\ UNCHANGED <<entries, index, head, tail, nextFree, lock, request>>

full == nextFree > Capacity

\* getFree: a free entry, or the least recently used one.
Free == IF full THEN tail ELSE nextFree

\* The entry is linked in at the front; its hash is being written.
AddEntry(t, p) ==
  LET kept == IF full THEN [entries EXCEPT ![entries[p].pred].succ = Nil] ELSE entries
      others == IF full THEN [index EXCEPT ![entries[p].key] = Nil] ELSE index
  IN  /\ entries' = [kept EXCEPT
           ![p] = [key |-> request[t], hash |-> Torn, pred |-> Nil, succ |-> head],
           ![head].pred = p]
      /\ index' = [others EXCEPT ![request[t]] = p]
      /\ head' = p
      /\ tail' = IF full THEN entries[p].pred ELSE tail
      /\ nextFree' = IF full THEN nextFree ELSE nextFree + 1

\* Mutant: a key that was added concurrently is added again.
InsertBlindly(t) ==
  /\ pc[t] = "compute"
  /\ lock = NoThread
  /\ AddEntry(t, Free)
  /\ found' = [found EXCEPT ![t] = Free]
  /\ lock' = t
  /\ pc' = [pc EXCEPT ![t] = "fill"]
  /\ UNCHANGED <<request, result>>

\* Mutant: a key that was added concurrently sends the thread back to try again.
InsertSpins(t) ==
  /\ pc[t] = "compute"
  /\ lock = NoThread
  /\ IF index[request[t]] # Nil THEN UNCHANGED <<list, lock, pc, found>>
     ELSE /\ AddEntry(t, Free)
          /\ found' = [found EXCEPT ![t] = Free]
          /\ lock' = t
          /\ pc' = [pc EXCEPT ![t] = "fill"]
  /\ UNCHANGED <<request, result>>

\* The second critical section, once the hash is computed: the key may have been
\* added by another thread in between.
Insert(t) ==
  /\ pc[t] = "compute"
  /\ lock = NoThread
  /\ \/ /\ index[request[t]] # Nil
        /\ result' = [result EXCEPT ![t] = Keccak(request[t])]
        /\ pc' = [pc EXCEPT ![t] = "idle"]
        /\ UNCHANGED <<list, lock, found>>
     \/ /\ index[request[t]] = Nil
        /\ AddEntry(t, Free)
        /\ found' = [found EXCEPT ![t] = Free]
        /\ lock' = t
        /\ pc' = [pc EXCEPT ![t] = "fill"]
        /\ UNCHANGED result
  /\ UNCHANGED request

\* The hash is in place, the lock released.
Fill(t) ==
  /\ pc[t] = "fill"
  /\ entries' = [entries EXCEPT ![found[t]].hash = Keccak(request[t])]
  /\ result' = [result EXCEPT ![t] = Keccak(request[t])]
  /\ lock' = NoThread
  /\ found' = [found EXCEPT ![t] = Nil]
  /\ pc' = [pc EXCEPT ![t] = "idle"]
  /\ UNCHANGED <<index, head, tail, nextFree, request>>

Next ==
  \E t \in Thread :
    \/ \E key \in Key : Call(t, key)
    \/ Lookup(t)
    \/ ReadHash(t)
    \/ Insert(t)
    \/ Fill(t)

Spec == Init /\ [][Next]_vars

\* Goroutines are scheduled again and again, and sync.Mutex hands the lock to a
\* goroutine that has waited for long.
Fairness ==
  \A t \in Thread : /\ SF_vars(Lookup(t)) /\ SF_vars(Insert(t))
                    /\ WF_vars(ReadHash(t)) /\ WF_vars(Fill(t))

FairSpec == Spec /\ Fairness

-----------------------------------------------------------------------------
(* Properties *)

\* The state variables have the shapes declared above.
TypeOK ==
  /\ entries \in [Position -> Entry]
  /\ index \in [Key -> Position \cup {Nil}]
  /\ head \in Position
  /\ tail \in Position
  /\ nextFree \in 2 .. Capacity + 1
  /\ lock \in Thread \cup {NoThread}
  /\ pc \in [Thread -> {"idle", "lookup", "hit", "compute", "fill"}]
  /\ request \in [Thread -> Key]
  /\ found \in [Thread -> Position \cup {Nil}]
  /\ result \in [Thread -> Hash]

Used == 1 .. nextFree - 1

\* Index and entries agree: each used entry is the one its key leads to, each
\* indexed key leads to an entry that holds it and its hash.  So no key is
\* cached twice, however the lookups and insertions of the threads interleave.
IndexIsExact ==
  /\ \A p \in Used : index[entries[p].key] = p
  /\ \A key \in Key : index[key] # Nil =>
       /\ index[key] \in Used
       /\ entries[index[key]].key = key
       /\ lock = NoThread => entries[index[key]].hash = Keccak(key)

\* The list leads from head to tail and back.
ListIsLinked ==
  /\ head \in Used /\ tail \in Used
  /\ \A p \in Used :
       LET e == entries[p]
       IN  /\ e.pred = Nil <=> p = head
           /\ e.succ = Nil <=> p = tail
           /\ e.pred # Nil => e.pred \in Used /\ entries[e.pred].succ = p
           /\ e.succ # Nil => e.succ \in Used /\ entries[e.succ].pred = p

\* The keys along the list.
Order ==
  LET at[i \in Used] == IF i = 1 THEN head
                        ELSE IF at[i - 1] = Nil THEN Nil ELSE entries[at[i - 1]].succ
  IN  [i \in Used |-> IF at[i] = Nil THEN Nil ELSE entries[at[i]].key]

Lru == INSTANCE LruCache WITH order <- Order

\* getHash keeps its keys as an LRU cache does: the entry that is used again is
\* the one that was not asked for the longest, and a key that is found becomes
\* the most recently used one, wherever in the list its entry was.
EvictsLeastRecentlyUsed ==
  /\ Lru!Spec
  /\ [][\A t \in Thread : pc[t] = "lookup" /\ pc'[t] = "hit" => Lru!Touch(request[t])]_vars

\* "The cache is thread-safe": getHash returns the hash of the key it was asked
\* for.
ReturnsTheHash ==
  \A t \in Thread : pc[t] = "idle" => result[t] = Keccak(request[t])

\* Every call of getHash returns: no path of it keeps the lock.
CallsReturn == \A t \in Thread : pc[t] # "idle" ~> pc[t] = "idle"
=============================================================================
