------------------------------ MODULE LruCache ------------------------------
(***************************************************************************)
(* What a fixed-capacity cache with least-recently-used eviction promises: *)
(* the keys it holds, the most recently used one first.                    *)
(***************************************************************************)
EXTENDS Naturals, Sequences

CONSTANTS Key, ZeroKey, Capacity

VARIABLE order  \* the keys in the cache, the most recently used one first

\* The cache is never empty.
Init == order = <<ZeroKey>>

Held == {order[i] : i \in DOMAIN order}

\* A key that is found becomes the most recent one.
Touch(k) ==
  \E i \in DOMAIN order :
    /\ order[i] = k
    /\ order' = <<k>> \o (SubSeq(order, 1, i - 1) \o SubSeq(order, i + 1, Len(order)))

\* A key that is not found is added, in place of the least recent one when the
\* cache is full.
Add(k) ==
  /\ k \notin Held
  /\ order' = <<k>> \o (IF Len(order) < Capacity THEN order
                        ELSE SubSeq(order, 1, Len(order) - 1))

Next == \E k \in Key : Touch(k) \/ Add(k)

Spec == Init /\ [][Next]_order
=============================================================================
