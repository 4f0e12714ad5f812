--------------------------- MODULE HashCacheProofs ---------------------------
(***************************************************************************)
(* Index, entries and list of the hash cache stay consistent for any       *)
(* number of threads, keys and entries.                                    *)
(***************************************************************************)
EXTENDS HashCache, WellFoundedInduction, TLAPS

\* The provers of a step that names none.
USE SMTT(20), Zenon

\* The links between the entries below n, from h to tl.
Linked(E, h, tl, n) ==
  /\ h \in 1 .. n - 1 /\ tl \in 1 .. n - 1
  /\ n > 2 => h # tl
  /\ \A p \in 1 .. n - 1 :
       /\ E[p].pred = Nil <=> p = h
       /\ E[p].succ = Nil <=> p = tl
       /\ E[p].pred # Nil => E[p].pred \in 1 .. n - 1 /\ E[E[p].pred].succ = p
       /\ E[p].succ # Nil => E[p].succ \in 1 .. n - 1 /\ E[E[p].succ].pred = p

\* Keys and entries lead to each other.
Indexed(E, ix, n) ==
  /\ \A p \in 1 .. n - 1 : ix[E[p].key] = p
  /\ \A key \in Key : ix[key] # Nil => ix[key] \in 1 .. n - 1 /\ E[ix[key]].key = key

\* The hashes of all keys but those in X are in place.
Filled(E, ix, X) == \A key \in Key \ X : ix[key] # Nil => E[ix[key]].hash = Keccak(key)

\* The key whose hash is being written.
Pending == IF lock = NoThread THEN {} ELSE {request[lock]}

\* Only the thread that writes a hash holds the lock.
Locked ==
  \A t \in Thread :
    /\ pc[t] = "fill" <=> lock = t
    /\ pc[t] = "fill" => found[t] = index[request[t]] /\ found[t] # Nil
    /\ pc[t] = "hit" => found[t] # Nil

IInv ==
  /\ TypeOK
  /\ Linked(entries, head, tail, nextFree)
  /\ Indexed(entries, index, nextFree)
  /\ Filled(entries, index, Pending)
  /\ Locked

LEMMA IInvImplies == IInv => TypeOK /\ IndexIsExact /\ ListIsLinked
<1> SUFFICES ASSUME IInv PROVE IndexIsExact /\ ListIsLinked
  BY DEF IInv
<1>1. ListIsLinked
  BY DEF IInv, Linked, ListIsLinked, Used
<1>2. IndexIsExact
  <2>1. lock = NoThread => \A key \in Key : index[key] # Nil => entries[index[key]].hash = Keccak(key)
    BY DEF IInv, Filled, Pending
  <2> QED
    BY <2>1 DEF IInv, Indexed, IndexIsExact, Used
<1> QED
  BY <1>1, <1>2

LEMMA NilIsNoPosition == Nil \notin Position
  BY CacheAssumption DEF Position, Nil

\* The entries with the links of p taken out, and p linked in before h.
SetPred(E, p, v) == [E EXCEPT ![p].pred = v]
SetSucc(E, p, v) == [E EXCEPT ![p].succ = v]
Unlinked(E, p) ==
  IF E[p].succ = Nil THEN SetSucc(E, E[p].pred, E[p].succ)
  ELSE SetPred(SetSucc(E, E[p].pred, E[p].succ), E[p].succ, E[p].pred)
Moved(E, p, h) == SetPred(SetSucc(SetPred(Unlinked(E, p), p, Nil), p, h), h, p)

LEMMA SetPredFields ==
  ASSUME NEW E \in [Position -> Entry], NEW p \in Position, NEW v \in Position \cup {Nil}
  PROVE  /\ SetPred(E, p, v) \in [Position -> Entry]
         /\ \A q \in Position :
              /\ SetPred(E, p, v)[q].key = E[q].key /\ SetPred(E, p, v)[q].hash = E[q].hash
              /\ SetPred(E, p, v)[q].pred = IF q = p THEN v ELSE E[q].pred
              /\ SetPred(E, p, v)[q].succ = E[q].succ
  BY DEF SetPred, Entry

LEMMA SetSuccFields ==
  ASSUME NEW E \in [Position -> Entry], NEW p \in Position, NEW v \in Position \cup {Nil}
  PROVE  /\ SetSucc(E, p, v) \in [Position -> Entry]
         /\ \A q \in Position :
              /\ SetSucc(E, p, v)[q].key = E[q].key /\ SetSucc(E, p, v)[q].hash = E[q].hash
              /\ SetSucc(E, p, v)[q].pred = E[q].pred
              /\ SetSucc(E, p, v)[q].succ = IF q = p THEN v ELSE E[q].succ
  BY DEF SetSucc, Entry

LEMMA UnlinkedFields ==
  ASSUME NEW E \in [Position -> Entry], NEW p \in Position, E[p].pred \in Position
  PROVE  /\ Unlinked(E, p) \in [Position -> Entry]
         /\ \A q \in Position :
              /\ Unlinked(E, p)[q].key = E[q].key /\ Unlinked(E, p)[q].hash = E[q].hash
              /\ Unlinked(E, p)[q].pred = IF q = E[p].succ THEN E[p].pred ELSE E[q].pred
              /\ Unlinked(E, p)[q].succ = IF q = E[p].pred THEN E[p].succ ELSE E[q].succ
<1>1. E[p] \in Entry
  OBVIOUS
<1>2. E[p].succ \in Position \cup {Nil}
  BY <1>1 DEF Entry
<1>3. CASE E[p].succ = Nil
  BY <1>2, <1>3, SetSuccFields, NilIsNoPosition DEF Unlinked
<1>4. CASE E[p].succ # Nil
  <2> DEFINE S == SetSucc(E, E[p].pred, E[p].succ)
  <2>1. /\ S \in [Position -> Entry]
        /\ \A q \in Position :
              /\ S[q].key = E[q].key /\ S[q].hash = E[q].hash
              /\ S[q].pred = E[q].pred
              /\ S[q].succ = IF q = E[p].pred THEN E[p].succ ELSE E[q].succ
    BY <1>2, SetSuccFields
  <2>2. Unlinked(E, p) = SetPred(S, E[p].succ, E[p].pred)
    BY <1>4 DEF Unlinked
  <2>3. E[p].succ \in Position
    BY <1>2, <1>4
  <2> HIDE DEF S
  <2> QED
    BY <2>1, <2>2, <2>3, SetPredFields
<1> QED
  BY <1>3, <1>4

\* The entries after MoveToFront, field by field.
LEMMA MovedFields ==
  ASSUME NEW E \in [Position -> Entry], NEW p \in Position, NEW h \in Position, p # h,
         E[p].pred \in Position
  PROVE  /\ Moved(E, p, h) \in [Position -> Entry]
         /\ \A q \in Position :
              /\ Moved(E, p, h)[q].key = E[q].key /\ Moved(E, p, h)[q].hash = E[q].hash
              /\ Moved(E, p, h)[q].pred =
                   IF q = p THEN Nil ELSE IF q = h THEN p
                   ELSE IF q = E[p].succ THEN E[p].pred ELSE E[q].pred
              /\ Moved(E, p, h)[q].succ =
                   IF q = p THEN h ELSE IF q = E[p].pred THEN E[p].succ ELSE E[q].succ
<1> DEFINE U == Unlinked(E, p)
           A == SetPred(U, p, Nil)
           B == SetSucc(A, p, h)
<1>1. /\ U \in [Position -> Entry]
      /\ \A q \in Position :
              /\ U[q].key = E[q].key /\ U[q].hash = E[q].hash
              /\ U[q].pred = IF q = E[p].succ THEN E[p].pred ELSE E[q].pred
              /\ U[q].succ = IF q = E[p].pred THEN E[p].succ ELSE E[q].succ
  BY UnlinkedFields
<1>2. Moved(E, p, h) = SetPred(B, h, p)
  BY DEF Moved
<1> HIDE DEF U
<1>a. /\ U \in [Position -> Entry] /\ Nil \in Position \cup {Nil}
      /\ h \in Position \cup {Nil} /\ p \in Position \cup {Nil}
  BY <1>1
<1>3. /\ A \in [Position -> Entry]
      /\ \A q \in Position :
              /\ A[q].key = U[q].key /\ A[q].hash = U[q].hash
              /\ A[q].pred = IF q = p THEN Nil ELSE U[q].pred
              /\ A[q].succ = U[q].succ
  BY ONLY <1>a, p \in Position, SetPredFields
<1> HIDE DEF A
<1>b. A \in [Position -> Entry]
  BY <1>3
<1>4. /\ B \in [Position -> Entry]
      /\ \A q \in Position :
              /\ B[q].key = A[q].key /\ B[q].hash = A[q].hash
              /\ B[q].pred = A[q].pred
              /\ B[q].succ = IF q = p THEN h ELSE A[q].succ
  BY ONLY <1>a, <1>b, p \in Position, SetSuccFields
<1> HIDE DEF B
<1>c. B \in [Position -> Entry]
  BY <1>4
<1>5. /\ SetPred(B, h, p) \in [Position -> Entry]
      /\ \A q \in Position :
              /\ SetPred(B, h, p)[q].key = B[q].key /\ SetPred(B, h, p)[q].hash = B[q].hash
              /\ SetPred(B, h, p)[q].pred = IF q = h THEN p ELSE B[q].pred
              /\ SetPred(B, h, p)[q].succ = B[q].succ
  BY ONLY <1>a, <1>c, h \in Position, SetPredFields
<1> QED
  BY <1>1, <1>2, <1>3, <1>4, <1>5

LEMMA MovedLinked ==
  ASSUME NEW E \in [Position -> Entry], NEW n \in 2 .. Capacity + 1, NEW h, NEW tl,
         Linked(E, h, tl, n), NEW p \in 1 .. n - 1, p # h
  PROVE  /\ p \in Position /\ h \in Position /\ E[p].pred \in Position
         /\ Linked(Moved(E, p, h), p, IF E[p].succ # Nil THEN tl ELSE E[p].pred, n)
<1> DEFINE M == Moved(E, p, h)
           last == IF E[p].succ # Nil THEN tl ELSE E[p].pred
<1>1. 1 .. n - 1 \subseteq Position
  BY CacheAssumption DEF Position
<1>2. Nil \notin 1 .. n - 1
  BY DEF Nil
<1>3. /\ p \in Position /\ h \in Position /\ tl \in 1 .. n - 1
      /\ E[p].pred \in 1 .. n - 1 /\ E[p].pred \in Position /\ E[E[p].pred].succ = p
      /\ E[p].succ # Nil => E[p].succ \in 1 .. n - 1 /\ E[E[p].succ].pred = p
      /\ E[p].succ # h
  BY <1>1, <1>2 DEF Linked
<1>4. \A q \in 1 .. n - 1 :
        /\ M[q].pred = IF q = p THEN Nil ELSE IF q = h THEN p
                       ELSE IF q = E[p].succ THEN E[p].pred ELSE E[q].pred
        /\ M[q].succ = IF q = p THEN h ELSE IF q = E[p].pred THEN E[p].succ ELSE E[q].succ
  BY <1>1, <1>3, MovedFields
<1> HIDE DEF M
<1>5. last \in 1 .. n - 1 /\ p # last
  BY <1>3 DEF Linked
<1>6. ASSUME NEW q \in 1 .. n - 1
      PROVE  /\ M[q].pred = Nil <=> q = p
             /\ M[q].pred # Nil => M[q].pred \in 1 .. n - 1 /\ M[M[q].pred].succ = q
  BY <1>2, <1>3, <1>4 DEF Linked
<1>7. ASSUME NEW q \in 1 .. n - 1
      PROVE  /\ M[q].succ = Nil <=> q = last
             /\ M[q].succ # Nil => M[q].succ \in 1 .. n - 1 /\ M[M[q].succ].pred = q
  BY <1>2, <1>3, <1>4 DEF Linked
<1>8. Linked(M, p, last, n)
  BY <1>5, <1>6, <1>7 DEF Linked
<1> QED
  BY <1>3, <1>8 DEF M

\* The entries with p holding key k, without a hash yet, in front of h.
Added(E, p, k, h) ==
  [E EXCEPT ![p] = [key |-> k, hash |-> Torn, pred |-> Nil, succ |-> h], ![h].pred = p]

LEMMA AddedFields ==
  ASSUME NEW E \in [Position -> Entry], NEW p \in Position, NEW h \in Position, p # h,
         NEW k \in Key
  PROVE  /\ Added(E, p, k, h) \in [Position -> Entry]
         /\ \A q \in Position :
              /\ Added(E, p, k, h)[q].key = IF q = p THEN k ELSE E[q].key
              /\ Added(E, p, k, h)[q].hash = IF q = p THEN Torn ELSE E[q].hash
              /\ Added(E, p, k, h)[q].pred = IF q = p THEN Nil ELSE IF q = h THEN p ELSE E[q].pred
              /\ Added(E, p, k, h)[q].succ = IF q = p THEN h ELSE E[q].succ
<1> DEFINE new == [key |-> k, hash |-> Torn, pred |-> Nil, succ |-> h]
           N == [E EXCEPT ![p] = new]
<1>2. Added(E, p, k, h) = SetPred(N, h, p)
  BY DEF Added, SetPred
<1>3. new \in Entry
  BY DEF Entry, Hash
<1>5. new.key = k /\ new.hash = Torn /\ new.pred = Nil /\ new.succ = h
  OBVIOUS
<1> HIDE DEF new
<1>4. /\ N \in [Position -> Entry]
      /\ \A q \in Position : N[q] = IF q = p THEN new ELSE E[q]
  BY <1>3
<1> HIDE DEF N
<1>6. /\ SetPred(N, h, p) \in [Position -> Entry]
      /\ \A q \in Position :
              /\ SetPred(N, h, p)[q].key = N[q].key /\ SetPred(N, h, p)[q].hash = N[q].hash
              /\ SetPred(N, h, p)[q].pred = IF q = h THEN p ELSE N[q].pred
              /\ SetPred(N, h, p)[q].succ = N[q].succ
  BY <1>4, SetPredFields
<1> QED
  BY <1>2, <1>4, <1>5, <1>6

\* A free entry is added at the front.
LEMMA AddedToFree ==
  ASSUME NEW E \in [Position -> Entry], NEW n \in 2 .. Capacity, NEW h, NEW tl,
         NEW ix \in [Key -> Position \cup {Nil}], NEW k \in Key, ix[k] = Nil,
         Linked(E, h, tl, n), Indexed(E, ix, n), Filled(E, ix, {})
  PROVE  LET F == Added(E, n, k, h)
             jx == [ix EXCEPT ![k] = n]
         IN  /\ F \in [Position -> Entry]
             /\ jx \in [Key -> Position \cup {Nil}]
             /\ Linked(F, n, tl, n + 1)
             /\ Indexed(F, jx, n + 1)
             /\ Filled(F, jx, {k})
<1> DEFINE F == Added(E, n, k, h)
           jx == [ix EXCEPT ![k] = n]
<1>1. /\ 1 .. n - 1 \subseteq Position /\ n \in Position
      /\ (n + 1) - 1 = n /\ 1 .. n = (1 .. n - 1) \cup {n} /\ n \notin 1 .. n - 1
      /\ Nil \notin 1 .. n /\ n + 1 > 2
  BY CacheAssumption DEF Position, Nil
<1>2. h \in Position /\ h # n /\ h \in 1 .. n - 1 /\ tl \in 1 .. n - 1
  BY <1>1 DEF Linked
<1>3. /\ F \in [Position -> Entry]
      /\ \A q \in Position :
              /\ F[q].key = IF q = n THEN k ELSE E[q].key
              /\ F[q].hash = IF q = n THEN Torn ELSE E[q].hash
              /\ F[q].pred = IF q = n THEN Nil ELSE IF q = h THEN n ELSE E[q].pred
              /\ F[q].succ = IF q = n THEN h ELSE E[q].succ
  <2>1. E \in [Position -> Entry] /\ n \in Position /\ h \in Position /\ n # h /\ k \in Key
    BY <1>1, <1>2
  <2> QED
    BY ONLY <2>1, AddedFields
<1> HIDE DEF F
<1>4. Linked(F, n, tl, n + 1)
  <2>1. ASSUME NEW q \in 1 .. n
        PROVE  /\ F[q].pred = Nil <=> q = n
               /\ F[q].pred # Nil => F[q].pred \in 1 .. n /\ F[F[q].pred].succ = q
    BY <1>1, <1>2, <1>3 DEF Linked
  <2>2. ASSUME NEW q \in 1 .. n
        PROVE  /\ F[q].succ = Nil <=> q = tl
               /\ F[q].succ # Nil => F[q].succ \in 1 .. n /\ F[F[q].succ].pred = q
    BY <1>1, <1>2, <1>3 DEF Linked
  <2> QED
    BY <1>1, <1>2, <2>1, <2>2 DEF Linked
<1>5. /\ jx \in [Key -> Position \cup {Nil}]
      /\ \A key \in Key : jx[key] = IF key = k THEN n ELSE ix[key]
  BY <1>1
<1> HIDE DEF jx
<1>6. \A q \in 1 .. n - 1 : E[q].key \in Key /\ E[q].key # k
  <2>1. \A q \in 1 .. n - 1 : E[q] \in Entry
    BY <1>1
  <2> QED
    BY <1>1, <2>1 DEF Indexed, Entry
<1>7. Indexed(F, jx, n + 1)
  BY <1>1, <1>3, <1>5, <1>6 DEF Indexed
<1>8. Filled(F, jx, {k})
  BY <1>1, <1>3, <1>5 DEF Indexed, Filled
<1> QED
  BY <1>3, <1>4, <1>5, <1>7, <1>8 DEF F, jx

\* The least recently used entry is used again.
LEMMA AddedToFull ==
  ASSUME NEW E \in [Position -> Entry], NEW n, n = Capacity + 1, NEW h, NEW tl,
         NEW ix \in [Key -> Position \cup {Nil}], NEW k \in Key, ix[k] = Nil,
         Linked(E, h, tl, n), Indexed(E, ix, n), Filled(E, ix, {})
  PROVE  LET F == Added(SetSucc(E, E[tl].pred, Nil), tl, k, h)
             jx == [[ix EXCEPT ![E[tl].key] = Nil] EXCEPT ![k] = tl]
         IN  /\ F \in [Position -> Entry]
             /\ jx \in [Key -> Position \cup {Nil}]
             /\ Linked(F, tl, E[tl].pred, n)
             /\ Indexed(F, jx, n)
             /\ Filled(F, jx, {k})
<1> DEFINE F == Added(SetSucc(E, E[tl].pred, Nil), tl, k, h)
           jx == [[ix EXCEPT ![E[tl].key] = Nil] EXCEPT ![k] = tl]
<1>1. 1 .. n - 1 = Position /\ Nil \notin Position /\ n > 2
  BY CacheAssumption DEF Position, Nil
<1>a. /\ h \in Position /\ tl \in Position /\ h # tl
      /\ \A q \in Position :
           /\ E[q].pred = Nil <=> q = h
           /\ E[q].succ = Nil <=> q = tl
           /\ E[q].pred # Nil => E[q].pred \in Position /\ E[E[q].pred].succ = q
           /\ E[q].succ # Nil => E[q].succ \in Position /\ E[E[q].succ].pred = q
  BY <1>1 DEF Linked
<1>b. /\ \A q \in Position : ix[E[q].key] = q
      /\ \A key \in Key : ix[key] # Nil => ix[key] \in Position /\ E[ix[key]].key = key
  BY <1>1, Zenon DEF Indexed
<1>2. /\ h \in Position /\ tl \in Position /\ h # tl
      /\ E[tl].pred \in Position /\ E[tl].pred # tl /\ E[E[tl].pred].succ = tl
      /\ E[tl].succ = Nil
  BY <1>a
<1>3. /\ F \in [Position -> Entry]
      /\ \A q \in Position :
              /\ F[q].key = IF q = tl THEN k ELSE E[q].key
              /\ F[q].hash = IF q = tl THEN Torn ELSE E[q].hash
              /\ F[q].pred = IF q = tl THEN Nil ELSE IF q = h THEN tl ELSE E[q].pred
              /\ F[q].succ = IF q = tl THEN h ELSE IF q = E[tl].pred THEN Nil ELSE E[q].succ
  <2> DEFINE S == SetSucc(E, E[tl].pred, Nil)
  <2>1. /\ S \in [Position -> Entry]
        /\ \A q \in Position :
              /\ S[q].key = E[q].key /\ S[q].hash = E[q].hash
              /\ S[q].pred = E[q].pred
              /\ S[q].succ = IF q = E[tl].pred THEN Nil ELSE E[q].succ
    <3>1. E \in [Position -> Entry] /\ E[tl].pred \in Position /\ Nil \in Position \cup {Nil}
      BY <1>2
    <3> QED
      BY ONLY <3>1, SetSuccFields
  <2> HIDE DEF S
  <2>2. S \in [Position -> Entry] /\ tl \in Position /\ h \in Position /\ tl # h /\ k \in Key
    BY <1>2, <2>1
  <2>3. /\ Added(S, tl, k, h) \in [Position -> Entry]
        /\ \A q \in Position :
              /\ Added(S, tl, k, h)[q].key = IF q = tl THEN k ELSE S[q].key
              /\ Added(S, tl, k, h)[q].hash = IF q = tl THEN Torn ELSE S[q].hash
              /\ Added(S, tl, k, h)[q].pred = IF q = tl THEN Nil ELSE IF q = h THEN tl ELSE S[q].pred
              /\ Added(S, tl, k, h)[q].succ = IF q = tl THEN h ELSE S[q].succ
    BY ONLY <2>2, AddedFields
  <2>4. F = Added(S, tl, k, h)
    BY DEF S
  <2> HIDE DEF F
  <2> QED
    BY <2>1, <2>3, <2>4
<1> HIDE DEF F
<1>4. Linked(F, tl, E[tl].pred, n)
  <2>1. ASSUME NEW q \in Position
        PROVE  /\ F[q].pred = Nil <=> q = tl
               /\ F[q].pred # Nil => F[q].pred \in Position /\ F[F[q].pred].succ = q
    <3>1. CASE q = tl
      BY <3>1, <1>3
    <3>2. CASE q = h
      BY <3>2, <1>1, <1>2, <1>3
    <3>3. CASE q # tl /\ q # h
      <4>1. F[q].pred = E[q].pred
        BY <3>3, <1>3
      <4>2. E[q].pred \in Position /\ E[E[q].pred].succ = q
        BY <3>3, <1>a
      <4>3. E[q].pred # tl /\ E[q].pred # E[tl].pred
        BY <3>3, <4>2, <1>1, <1>2
      <4>4. F[E[q].pred].succ = E[E[q].pred].succ
        BY <4>2, <4>3, <1>3
      <4> QED
        BY <3>3, <4>1, <4>2, <4>4, <1>1
    <3> QED
      BY <3>1, <3>2, <3>3
  <2>2. ASSUME NEW q \in Position
        PROVE  /\ F[q].succ = Nil <=> q = E[tl].pred
               /\ F[q].succ # Nil => F[q].succ \in Position /\ F[F[q].succ].pred = q
    <3>1. CASE q = tl
      <4>1. F[q].succ = h /\ F[h].pred = tl
        BY <3>1, <1>2, <1>3
      <4>2. h # Nil /\ E[tl].pred # tl
        BY <1>1, <1>a, <1>2
      <4> QED
        BY <3>1, <4>1, <4>2, <1>2
    <3>2. CASE q # tl /\ q = E[tl].pred
      BY <3>2, <1>3
    <3>3. CASE q # tl /\ q # E[tl].pred
      <4>1. F[q].succ = E[q].succ
        BY <3>3, <1>3
      <4>2. E[q].succ # Nil /\ E[q].succ \in Position /\ E[E[q].succ].pred = q
        BY <3>3, <1>a
      <4>3. E[q].succ # tl /\ E[q].succ # h
        BY <3>3, <4>2, <1>1, <1>a, <1>2
      <4>4. F[E[q].succ].pred = E[E[q].succ].pred
        BY <4>2, <4>3, <1>3
      <4> QED
        BY <3>3, <4>1, <4>2, <4>4
    <3> QED
      BY <3>1, <3>2, <3>3
  <2> QED
    BY <1>1, <1>2, <2>1, <2>2 DEF Linked
<1>5. \A q \in Position : E[q].key \in Key /\ E[q].key # k
  <2>1. \A q \in Position : E[q] \in Entry
    OBVIOUS
  <2> QED
    BY <1>1, <1>b, <2>1 DEF Entry
<1>6. /\ jx \in [Key -> Position \cup {Nil}]
      /\ \A key \in Key : jx[key] = IF key = k THEN tl ELSE IF key = E[tl].key THEN Nil ELSE ix[key]
  BY <1>2, <1>5
<1> HIDE DEF jx
<1>7. Indexed(F, jx, n)
  <2>1. \A q \in Position : jx[F[q].key] = q
    BY <1>1, <1>b, <1>2, <1>3, <1>5, <1>6
  <2>2. \A key \in Key : jx[key] # Nil => jx[key] \in Position /\ F[jx[key]].key = key
    BY <1>1, <1>b, <1>2, <1>3, <1>5, <1>6
  <2> QED
    BY <1>1, <2>1, <2>2 DEF Indexed
<1>8. Filled(F, jx, {k})
  BY <1>1, <1>b, <1>2, <1>3, <1>5, <1>6 DEF Filled
<1> QED
  BY <1>3, <1>4, <1>6, <1>7, <1>8 DEF F, jx

-----------------------------------------------------------------------------

LEMMA InitEstablishes == Init => IInv
<1> SUFFICES ASSUME Init PROVE IInv
  OBVIOUS
<1> USE CacheAssumption
<1>1. Keccak(ZeroKey) \in Hash /\ NoHash \in Hash
  BY DEF Hash
<1>2. entries \in [Position -> Entry]
  BY <1>1 DEF Init, Entry
<1>3. TypeOK
  BY <1>1, <1>2 DEF Init, TypeOK, Position
<1>4. 1 .. nextFree - 1 = {1} /\ 1 \in Position /\ Nil # 1
  BY DEF Init, Position, Nil
<1>5. Linked(entries, head, tail, nextFree)
  BY <1>4 DEF Init, Linked
<1>6. Indexed(entries, index, nextFree)
  BY <1>4 DEF Init, Indexed
<1>7. Filled(entries, index, Pending)
  BY <1>4 DEF Init, Filled
<1>8. Locked
  BY DEF Init, Locked
<1> QED
  BY <1>3, <1>5, <1>6, <1>7, <1>8 DEF IInv

\* Steps that leave the cache alone.
LEMMA ThreadStepKeeps ==
  ASSUME IInv, TypeOK', UNCHANGED <<list, lock>>, Locked', Pending' = Pending
  PROVE  IInv'
  BY DEF IInv, Linked, Indexed, Filled, list

LEMMA CallKeeps ==
  ASSUME IInv, NEW t \in Thread, NEW key \in Key, Call(t, key)
  PROVE  IInv'
<1>0. NoHash \in Hash
  BY DEF Hash
<1>1. TypeOK'
  BY <1>0 DEF IInv, TypeOK, Call
<1>2. Locked'
  BY DEF IInv, TypeOK, Locked, Call
<1>3. Pending' = Pending
  BY DEF IInv, TypeOK, Locked, Pending, Call
<1> QED
  BY <1>1, <1>2, <1>3, ThreadStepKeeps DEF Call, list

LEMMA ReadHashKeeps ==
  ASSUME IInv, NEW t \in Thread, ReadHash(t)
  PROVE  IInv'
<1>1. entries[found[t]] \in Entry
  BY DEF IInv, TypeOK, Locked, ReadHash
<1>2. entries[found[t]].hash \in Hash
  BY <1>1 DEF Entry
<1>3. TypeOK'
  BY <1>2 DEF IInv, TypeOK, ReadHash
<1>4. Locked'
  BY CacheAssumption DEF IInv, TypeOK, Locked, ReadHash
<1>5. Pending' = Pending
  BY DEF Pending, ReadHash
<1> QED
  BY <1>3, <1>4, <1>5, ThreadStepKeeps DEF ReadHash, list

LEMMA FillKeeps ==
  ASSUME IInv, NEW t \in Thread, Fill(t)
  PROVE  IInv'
<1> DEFINE k == request[t]
           p == index[k]
<1>1. /\ k \in Key /\ lock = t /\ t # NoThread /\ found[t] = p /\ p # Nil /\ p \in Position
      /\ entries[p].key = k /\ entries[p] \in Entry
  BY CacheAssumption DEF IInv, TypeOK, Locked, Indexed, Fill
<1>2. entries' = [entries EXCEPT ![p].hash = Keccak(k)]
  BY <1>1 DEF Fill
<1>3. Keccak(k) \in Hash
  BY <1>1 DEF Hash
<1> HIDE DEF k, p
<1>4. /\ entries' \in [Position -> Entry]
      /\ \A q \in Position :
           /\ entries'[q].key = entries[q].key
           /\ entries'[q].pred = entries[q].pred
           /\ entries'[q].succ = entries[q].succ
           /\ entries'[q].hash = IF q = p THEN Keccak(k) ELSE entries[q].hash
  <2>1. entries \in [Position -> Entry]
    BY DEF IInv, TypeOK
  <2> QED
    BY <2>1, <1>1, <1>2, <1>3 DEF Entry
<1>5. TypeOK'
  BY <1>1, <1>3, <1>4 DEF IInv, TypeOK, Fill, k
<1>6. 1 .. nextFree - 1 \subseteq Position
  BY CacheAssumption DEF IInv, TypeOK, Position
<1>7. Linked(entries, head, tail, nextFree)'
  BY <1>4, <1>6 DEF IInv, Linked, Fill
<1>8. Indexed(entries, index, nextFree)'
  BY <1>4, <1>6 DEF IInv, Indexed, Fill
<1>9. Filled(entries, index, Pending)'
  <2>1. Pending = {k} /\ Pending' = {}
    BY <1>1 DEF Pending, Fill, k
  <2>2. ASSUME NEW key \in Key, index[key] # Nil
        PROVE  entries'[index[key]].hash = Keccak(key)
    <3>1. index[key] \in Position /\ entries[index[key]].key = key
      BY <2>2, <1>6 DEF IInv, Indexed
    <3>2. CASE key = k
      BY <3>1, <3>2, <1>4 DEF p
    <3>3. CASE key # k
      BY <3>1, <3>3, <2>1, <2>2, <1>1, <1>4 DEF IInv, Filled
    <3> QED
      BY <3>2, <3>3
  <2> QED
    BY <2>1, <2>2 DEF Filled, Fill
<1>10. Locked'
  BY <1>1, CacheAssumption DEF IInv, TypeOK, Locked, Fill
<1> QED
  BY <1>5, <1>7, <1>8, <1>9, <1>10 DEF IInv

LEMMA MoveToFrontMoves ==
  ASSUME NEW p, MoveToFront(p)
  PROVE  /\ entries' = Moved(entries, p, head) /\ head' = p
         /\ tail' = IF entries[p].succ # Nil THEN tail ELSE entries[p].pred
  BY Zenon DEF MoveToFront, Moved, Unlinked, SetPred, SetSucc

LEMMA LookupKeeps ==
  ASSUME IInv, NEW t \in Thread, Lookup(t)
  PROVE  IInv'
<1> DEFINE p == index[request[t]]
<1>1. /\ request[t] \in Key /\ p \in Position \cup {Nil} /\ lock = NoThread
      /\ p # Nil => p \in 1 .. nextFree - 1
  BY DEF IInv, TypeOK, Indexed, Lookup
<1>2. Locked'
  BY <1>1, CacheAssumption DEF IInv, TypeOK, Locked, Lookup
<1>3. Pending = {} /\ Pending' = {}
  BY <1>1 DEF Pending, Lookup
<1>4. /\ found' \in [Thread -> Position \cup {Nil}]
      /\ pc' \in [Thread -> {"idle", "lookup", "hit", "compute", "fill"}]
  BY <1>1 DEF IInv, TypeOK, Lookup
<1>5. CASE UNCHANGED <<entries, head, tail>>
  <2>1. TypeOK'
    BY <1>4, <1>5 DEF IInv, TypeOK, Lookup
  <2> QED
    BY <2>1, <1>2, <1>3, <1>5, ThreadStepKeeps DEF Lookup, list
<1>6. CASE p # Nil /\ p # head /\ MoveToFront(p)
  <2> DEFINE last == IF entries[p].succ # Nil THEN tail ELSE entries[p].pred
  <2>1. /\ entries \in [Position -> Entry] /\ nextFree \in 2 .. Capacity + 1
        /\ Linked(entries, head, tail, nextFree) /\ p \in 1 .. nextFree - 1
    BY <1>1, <1>6 DEF IInv, TypeOK
  <2>2. /\ p \in Position /\ head \in Position /\ entries[p].pred \in Position
        /\ Linked(Moved(entries, p, head), p, last, nextFree)
    BY <1>6, <2>1, MovedLinked
  <2>3. /\ entries' = Moved(entries, p, head)
        /\ head' = p /\ tail' = last
    BY <1>6, MoveToFrontMoves
  <2>4. /\ Moved(entries, p, head) \in [Position -> Entry]
        /\ \A q \in Position :
             /\ Moved(entries, p, head)[q].key = entries[q].key
             /\ Moved(entries, p, head)[q].hash = entries[q].hash
    BY <1>6, <2>1, <2>2, MovedFields
  <2>5. 1 .. nextFree - 1 \subseteq Position
    BY CacheAssumption DEF IInv, TypeOK, Position
  <2> HIDE DEF p, last
  <2>6. UNCHANGED <<index, nextFree, lock, request, result>>
    BY DEF Lookup
  <2>7. Linked(entries, head, tail, nextFree)'
    BY <2>2, <2>3, <2>6
  <2>8. TypeOK'
    <3>1. last \in Position
      BY <2>2, <2>5 DEF Linked
    <3> QED
      BY <1>4, <2>2, <2>3, <2>4, <2>6, <3>1 DEF IInv, TypeOK
  <2>9. Indexed(entries, index, nextFree)'
    BY <2>3, <2>4, <2>5, <2>6 DEF IInv, Indexed
  <2>10. Filled(entries, index, Pending)'
    BY <1>3, <2>3, <2>4, <2>5, <2>6 DEF IInv, Indexed, Filled
  <2> QED
    BY <1>2, <2>7, <2>8, <2>9, <2>10 DEF IInv
<1> QED
  BY <1>5, <1>6 DEF Lookup

LEMMA InsertKeeps ==
  ASSUME IInv, NEW t \in Thread, Insert(t)
  PROVE  IInv'
<1>1. CASE index[request[t]] # Nil
  <2>1. /\ result' = [result EXCEPT ![t] = Keccak(request[t])]
        /\ pc' = [pc EXCEPT ![t] = "idle"]
        /\ UNCHANGED <<list, lock, found, request>>
        /\ pc[t] = "compute" /\ lock = NoThread
    BY <1>1 DEF Insert
  <2>2. Keccak(request[t]) \in Hash
    BY DEF IInv, TypeOK, Hash
  <2>3. TypeOK'
    BY <2>1, <2>2 DEF IInv, TypeOK, list
  <2>4. Locked'
    BY <2>1, CacheAssumption DEF IInv, TypeOK, Locked, list
  <2>5. Pending' = Pending
    BY <2>1 DEF Pending
  <2> QED
    BY <2>1, <2>3, <2>4, <2>5, ThreadStepKeeps
<1>2. CASE index[request[t]] = Nil
  <2> DEFINE k == request[t]
             F == Added(IF full THEN SetSucc(entries, entries[tail].pred, Nil) ELSE entries, Free, k, head)
             ix == IF full THEN [index EXCEPT ![entries[tail].key] = Nil] ELSE index
             jx == [ix EXCEPT ![k] = Free]
  <2>1. /\ pc[t] = "compute" /\ lock = NoThread /\ AddEntry(t, Free)
        /\ found' = [found EXCEPT ![t] = Free] /\ lock' = t
        /\ pc' = [pc EXCEPT ![t] = "fill"]
        /\ UNCHANGED <<result, request>>
    BY <1>2 DEF Insert
  <2>2. /\ entries' = F /\ index' = jx /\ head' = Free
        /\ tail' = IF full THEN entries[tail].pred ELSE tail
        /\ nextFree' = IF full THEN nextFree ELSE nextFree + 1
    BY <2>1 DEF AddEntry, Added, SetSucc, Free
  <2>3. /\ entries \in [Position -> Entry] /\ nextFree \in 2 .. Capacity + 1
        /\ index \in [Key -> Position \cup {Nil}] /\ k \in Key /\ index[k] = Nil
        /\ Linked(entries, head, tail, nextFree) /\ Indexed(entries, index, nextFree)
        /\ Filled(entries, index, {})
    BY <1>2, <2>1 DEF IInv, TypeOK, Pending
  <2>4. /\ entries' \in [Position -> Entry] /\ index' \in [Key -> Position \cup {Nil}]
        /\ nextFree' \in 2 .. Capacity + 1
        /\ Linked(entries', head', tail', nextFree')
        /\ Indexed(entries', index', nextFree')
        /\ Filled(entries', index', {k})
        /\ index'[k] = Free /\ Free \in Position
    <3>1. CASE full
      <4>1. nextFree = Capacity + 1 /\ nextFree' = nextFree /\ Free = tail /\ tail \in Position
        BY <2>2, <2>3, <3>1, CacheAssumption DEF full, Free, IInv, TypeOK
      <4>2. /\ entries' = Added(SetSucc(entries, entries[tail].pred, Nil), tail, k, head)
            /\ index' = [[index EXCEPT ![entries[tail].key] = Nil] EXCEPT ![k] = tail]
            /\ head' = tail /\ tail' = entries[tail].pred
        BY <2>2, <3>1, <4>1
      <4> HIDE DEF k
      <4>3. index'[k] = tail
        BY <2>3, <4>2
      <4>4. /\ entries' \in [Position -> Entry] /\ index' \in [Key -> Position \cup {Nil}]
            /\ Linked(entries', head', tail', nextFree)
            /\ Indexed(entries', index', nextFree)
            /\ Filled(entries', index', {k})
        BY <2>3, <4>1, <4>2, AddedToFull, Zenon
      <4> QED
        BY <2>3, <4>1, <4>3, <4>4
    <3>2. CASE ~full
      <4>1. /\ nextFree \in 2 .. Capacity /\ nextFree' = nextFree + 1 /\ Free = nextFree
            /\ nextFree \in Position /\ nextFree' \in 2 .. Capacity + 1
        BY <2>2, <2>3, <3>2, CacheAssumption DEF full, Free, Position
      <4>2. /\ entries' = Added(entries, nextFree, k, head)
            /\ index' = [index EXCEPT ![k] = nextFree]
            /\ head' = nextFree /\ tail' = tail
        BY <2>2, <3>2, <4>1
      <4> HIDE DEF k
      <4>3. index'[k] = nextFree
        BY <2>3, <4>2
      <4>4. /\ entries' \in [Position -> Entry] /\ index' \in [Key -> Position \cup {Nil}]
            /\ Linked(entries', head', tail', nextFree + 1)
            /\ Indexed(entries', index', nextFree + 1)
            /\ Filled(entries', index', {k})
        BY <2>3, <4>1, <4>2, AddedToFree, Zenon
      <4> QED
        BY <4>1, <4>3, <4>4
    <3> QED
      BY <3>1, <3>2
  <2> HIDE DEF F, jx, ix
  <2>5. 1 .. nextFree' - 1 \subseteq Position
    <3>1. nextFree' \in 2 .. Capacity + 1
      BY <2>4
    <3>2. \A m \in 2 .. Capacity + 1 : 1 .. m - 1 \subseteq Position
      BY ONLY CacheAssumption DEF Position
    <3> QED
      BY ONLY <3>1, <3>2, Zenon
  <2>6. head' \in Position /\ tail' \in Position
    BY <2>4, <2>5, Zenon DEF Linked
  <2>7. TypeOK'
    BY <2>1, <2>4, <2>6 DEF IInv, TypeOK
  <2>8. Pending' = {k}
    BY <2>1, CacheAssumption DEF Pending
  <2>9. Free # Nil
    BY <2>4, NilIsNoPosition
  <2>10. Locked'
    <3>1. \A u \in Thread \ {t} : pc'[u] = pc[u] /\ found'[u] = found[u] /\ pc[u] # "fill"
      BY <2>1, CacheAssumption DEF IInv, TypeOK, Locked
    <3>2. pc'[t] = "fill" /\ found'[t] = Free /\ request'[t] = k
      BY <2>1 DEF IInv, TypeOK
    <3> QED
      BY <2>1, <2>4, <2>9, <3>1, <3>2 DEF IInv, Locked
  <2> QED
    BY <2>4, <2>7, <2>8, <2>10 DEF IInv
<1> QED
  BY <1>1, <1>2

LEMMA Inductive == Spec => []IInv
<1>1. IInv /\ [Next]_vars => IInv'
  <2> SUFFICES ASSUME IInv, [Next]_vars PROVE IInv'
    OBVIOUS
  <2>1. CASE UNCHANGED vars
    <3>1. TypeOK'
      BY <2>1 DEF IInv, TypeOK, vars
    <3>2. Locked' /\ Pending' = Pending
      BY <2>1 DEF IInv, Locked, Pending, vars
    <3> QED
      BY <2>1, <3>1, <3>2, ThreadStepKeeps DEF vars, list
  <2> QED
    BY <2>1, CallKeeps, LookupKeeps, ReadHashKeeps, InsertKeeps, FillKeeps DEF Next
<1> QED
  BY <1>1, InitEstablishes, PTL DEF Spec

\* The arrays, the positions and the threads of the hash cache stay in range,
\* whatever the capacity: nextFree never runs past the entries.
THEOREM TypeCorrect == Spec => []TypeOK
  BY Inductive, IInvImplies, PTL

\* getHash never caches a key twice and never leads a key to another key's entry,
\* however many threads look up and insert at the same time.
THEOREM IndexStaysExact == Spec => []IndexIsExact
  BY Inductive, IInvImplies, PTL

\* Moving an entry to the front, adding one and evicting one keep the two
\* directions of the list of hashCache consistent.
THEOREM ListStaysLinked == Spec => []ListIsLinked
  BY Inductive, IInvImplies, PTL

-----------------------------------------------------------------------------
(* Induction *)

\* Induction over the naturals, for a set instead of a predicate.
LEMMA NaturalsInSet ==
  ASSUME NEW T, 0 \in T, \A n \in Nat : n \in T => n + 1 \in T
  PROVE  Nat \subseteq T
<1> SUFFICES ASSUME Nat \ T # {} PROVE FALSE
  OBVIOUS
<1>1. IsWellFoundedOn(OpToRel(<, Nat), Nat)
  BY NatLessThanWellFounded, Zenon
<1> DEFINE R == OpToRel(<, Nat)
<1>2. PICK m \in Nat \ T : \A k \in Nat \ T : <<k, m>> \notin R
  <2> HIDE DEF R
  <2> QED
   BY <1>1, WFMin, Zenon DEF R
<1>3. m # 0 /\ m - 1 \in Nat
  OBVIOUS
<1>4. m - 1 \notin T
  BY <1>3
<1>5. <<m - 1, m>> \in R
  BY <1>3 DEF OpToRel
<1> QED
  BY <1>2, <1>3, <1>4, <1>5, Zenon

-----------------------------------------------------------------------------
(* Permutations of 1 .. n, and sequences in which an element moves to the front *)

\* c is a permutation of 1 .. n, and d its inverse.
Inverses(n, c, d) ==
  /\ c \in [1 .. n -> 1 .. n] /\ d \in [1 .. n -> 1 .. n]
  /\ \A j \in 1 .. n : d[c[j]] = j /\ c[d[j]] = j

\* c with its element at i moved to the front.
ToFront(n, c, i) ==
  [j \in 1 .. n |-> IF j = 1 THEN c[i] ELSE IF j <= i THEN c[j - 1] ELSE c[j]]

LEMMA ToFrontPermutes ==
  ASSUME NEW n \in Nat, NEW c, NEW d, Inverses(n, c, d), NEW i \in 1 .. n
  PROVE  \E e : Inverses(n, ToFront(n, c, i), e)
<1> DEFINE f == ToFront(n, c, i)
           e == [q \in 1 .. n |-> IF d[q] = i THEN 1 ELSE IF d[q] < i THEN d[q] + 1 ELSE d[q]]
<1>1. /\ \A j \in 1 .. n : c[j] \in 1 .. n /\ d[j] \in 1 .. n
      /\ \A j \in 1 .. n : d[c[j]] = j /\ c[d[j]] = j
  BY DEF Inverses
<1>2. \A j \in 1 .. n : f[j] = IF j = 1 THEN c[i] ELSE IF j <= i THEN c[j - 1] ELSE c[j]
  BY DEF ToFront
<1>3. f \in [1 .. n -> 1 .. n]
  BY <1>1 DEF ToFront
<1>4. e \in [1 .. n -> 1 .. n]
  BY <1>1
<1>5. \A q \in 1 .. n : e[q] = IF d[q] = i THEN 1 ELSE IF d[q] < i THEN d[q] + 1 ELSE d[q]
  OBVIOUS
<1> HIDE DEF e, f
<1>6. ASSUME NEW j \in 1 .. n PROVE e[f[j]] = j
  <2>1. CASE j = 1
    BY <1>1, <1>2, <1>5, <2>1
  <2>2. CASE j # 1 /\ j <= i
    <3>1. j - 1 \in 1 .. n /\ j - 1 < i /\ j - 1 # i /\ (j - 1) + 1 = j
      BY <2>2
    <3>2. f[j] = c[j - 1] /\ d[c[j - 1]] = j - 1 /\ c[j - 1] \in 1 .. n
      BY <1>1, <1>2, <2>2, <3>1
    <3> QED
      BY <1>5, <3>1, <3>2
  <2>3. CASE j > i
    BY <1>1, <1>2, <1>5, <2>3
  <2> QED
    BY <2>1, <2>2, <2>3
<1>7. ASSUME NEW q \in 1 .. n PROVE f[e[q]] = q
  <2>1. CASE d[q] = i
    BY <1>1, <1>2, <1>5, <2>1
  <2>2. CASE d[q] < i
    <3>1. /\ d[q] + 1 \in 1 .. n /\ d[q] + 1 <= i /\ d[q] + 1 # 1 /\ (d[q] + 1) - 1 = d[q]
          /\ e[q] = d[q] + 1
      BY <1>1, <1>5, <2>2
    <3> QED
      BY <1>1, <1>2, <3>1
  <2>3. CASE d[q] > i
    BY <1>1, <1>2, <1>5, <2>3
  <2> QED
    BY <1>1, <2>1, <2>2, <2>3
<1>8. Inverses(n, f, e)
  <2>1. \A j \in 1 .. n : e[f[j]] = j /\ f[e[j]] = j
    BY <1>6, <1>7
  <2> QED
    BY ONLY <1>3, <1>4, <2>1 DEF Inverses
<1> QED
  BY <1>8 DEF f

\* A permutation of 1 .. n with n + 1 put in front of it.
PushTop(n, c) == [j \in 1 .. n + 1 |-> IF j = 1 THEN n + 1 ELSE c[j - 1]]

LEMMA PushPermutes ==
  ASSUME NEW n \in Nat, NEW c, NEW d, Inverses(n, c, d)
  PROVE  \E e : Inverses(n + 1, PushTop(n, c), e)
<1> DEFINE f == PushTop(n, c)
           e == [q \in 1 .. n + 1 |-> IF q = n + 1 THEN 1 ELSE d[q] + 1]
<1>1. /\ \A j \in 1 .. n : c[j] \in 1 .. n /\ d[j] \in 1 .. n
      /\ \A j \in 1 .. n : d[c[j]] = j /\ c[d[j]] = j
  BY DEF Inverses
<1>2. /\ f[1] = n + 1 /\ e[n + 1] = 1
      /\ \A j \in 1 .. n : f[j + 1] = c[j] /\ e[j] = d[j] + 1
  BY DEF PushTop
<1>3. f \in [1 .. n + 1 -> 1 .. n + 1] /\ e \in [1 .. n + 1 -> 1 .. n + 1]
  BY <1>1 DEF PushTop
<1> HIDE DEF e, f
<1>4. \A j \in 1 .. n + 1 : j = 1 \/ (j - 1 \in 1 .. n /\ (j - 1) + 1 = j)
  OBVIOUS
<1>5. ASSUME NEW j \in 1 .. n + 1 PROVE e[f[j]] = j
  <2>1. CASE j = 1
    BY <1>2, <2>1
  <2>2. CASE j - 1 \in 1 .. n /\ (j - 1) + 1 = j
    <3>1. f[(j - 1) + 1] = c[j - 1] /\ c[j - 1] \in 1 .. n
      BY <1>1, <1>2, <2>2
    <3>2. e[c[j - 1]] = d[c[j - 1]] + 1 /\ d[c[j - 1]] = j - 1
      BY <1>1, <1>2, <2>2, <3>1
    <3> QED
      BY <2>2, <3>1, <3>2
  <2> QED
    BY <1>4, <2>1, <2>2
<1>6. ASSUME NEW q \in 1 .. n + 1 PROVE f[e[q]] = q
  <2>1. CASE q = n + 1
    BY <1>2, <2>1
  <2>2. CASE q \in 1 .. n
    <3>1. e[q] = d[q] + 1 /\ d[q] \in 1 .. n /\ c[d[q]] = q
      BY <1>1, <1>2, <2>2
    <3> QED
      BY <1>2, <3>1
  <2> QED
    BY <2>1, <2>2
<1>7. Inverses(n + 1, f, e)
  <2>1. \A j \in 1 .. n + 1 : e[f[j]] = j /\ f[e[j]] = j
    BY <1>5, <1>6
  <2> QED
    BY ONLY <1>3, <2>1 DEF Inverses
<1> QED
  BY <1>7 DEF f

LEMMA SameSequence ==
  ASSUME NEW S, NEW p \in Seq(S), NEW q \in Seq(S), Len(p) = Len(q),
         \A i \in 1 .. Len(p) : p[i] = q[i]
  PROVE  p = q
OBVIOUS

\* A sequence with x put in front of it.
Extends(e, x, s) ==
  Len(e) = Len(s) + 1 /\ e[1] = x /\ \A j \in 1 .. Len(s) : e[j + 1] = s[j]

LEMMA ConsEqual ==
  ASSUME NEW S, NEW s \in Seq(S), NEW x \in S, NEW e \in Seq(S), Extends(e, x, s)
  PROVE  e = <<x>> \o s
<1> USE DEF Extends
<1> DEFINE u == <<x>>
<1>1. u \in Seq(S) /\ Len(u) = 1 /\ u[1] = x /\ Len(s) \in Nat
  OBVIOUS
<1> HIDE DEF u
<1> DEFINE f == u \o s
<1>2. /\ f \in Seq(S) /\ Len(f) = 1 + Len(s)
      /\ \A j \in 1 .. 1 + Len(s) : f[j] = IF j <= 1 THEN u[j] ELSE s[j - 1]
  <2>0. u \in Seq(S) /\ s \in Seq(S)
    BY <1>1
  <2>1. /\ f \in Seq(S) /\ Len(f) = Len(u) + Len(s)
        /\ \A j \in 1 .. Len(u) + Len(s) : f[j] = IF j <= Len(u) THEN u[j] ELSE s[j - Len(u)]
    BY ONLY <2>0
  <2> QED
    BY <1>1, <2>1
<1> HIDE DEF f
<1>3. ASSUME NEW j \in 1 .. Len(e) PROVE e[j] = f[j]
  <2>1. CASE j = 1
    BY <1>1, <1>2, <2>1
  <2>2. CASE j # 1
    <3>1. /\ j - 1 \in 1 .. Len(s) /\ (j - 1) + 1 = j
          /\ j \in 1 .. 1 + Len(s) /\ ~(j <= 1)
      BY <1>1, <2>2
    <3>2. e[(j - 1) + 1] = s[j - 1]
      BY <3>1
    <3>3. f[j] = s[j - 1]
      BY <1>2, <3>1
    <3> QED
      BY <3>1, <3>2, <3>3
  <2> QED
    BY <2>1, <2>2
<1>4. Len(e) = Len(f)
  BY <1>1, <1>2
<1>5. e = f
  BY ONLY e \in Seq(S), <1>2, <1>3, <1>4, SameSequence
<1> QED
  BY <1>5 DEF f, u

\* A sequence without its element at i, and with x put in front of it.
Displaces(e, x, s, i) ==
  /\ Len(e) = Len(s) /\ e[1] = x
  /\ \A j \in 1 .. i - 1 : e[j + 1] = s[j]
  /\ \A j \in i + 1 .. Len(s) : e[j] = s[j]

LEMMA ToFrontEqual ==
  ASSUME NEW S, NEW s \in Seq(S), NEW i \in 1 .. Len(s), NEW x \in S,
         NEW e \in Seq(S), Displaces(e, x, s, i)
  PROVE  e = <<x>> \o (SubSeq(s, 1, i - 1) \o SubSeq(s, i + 1, Len(s)))
<1> DEFINE a == SubSeq(s, 1, i - 1)
           b == SubSeq(s, i + 1, Len(s))
<1>0. Len(s) \in Nat /\ \A j \in 1 .. Len(s) : s[j] \in S
  OBVIOUS
<1>1. a \in Seq(S) /\ Len(a) = i - 1 /\ \A j \in 1 .. i - 1 : a[j] = s[j]
  <2>1. 1 \in Int /\ i - 1 \in Int /\ \A j \in 1 .. i - 1 : s[j] \in S
    BY <1>0
  <2>2. /\ a \in Seq(S) /\ Len(a) = IF 1 <= i - 1 THEN (i - 1) - 1 + 1 ELSE 0
        /\ \A j \in 1 .. (i - 1) - 1 + 1 : a[j] = s[1 + j - 1]
    BY <2>1
  <2> QED
    BY <1>0, <2>2
<1>2. b \in Seq(S) /\ Len(b) = Len(s) - i /\ \A j \in 1 .. Len(s) - i : b[j] = s[i + j]
  <2>1. i + 1 \in Int /\ Len(s) \in Int /\ \A j \in i + 1 .. Len(s) : s[j] \in S
    BY <1>0
  <2>2. /\ b \in Seq(S) /\ Len(b) = IF i + 1 <= Len(s) THEN Len(s) - (i + 1) + 1 ELSE 0
        /\ \A j \in 1 .. Len(s) - (i + 1) + 1 : b[j] = s[(i + 1) + j - 1]
    BY <2>1
  <2>3. \A j \in 1 .. Len(s) - i : j \in 1 .. Len(s) - (i + 1) + 1 /\ (i + 1) + j - 1 = i + j
    BY <1>0
  <2>4. Len(b) = Len(s) - i
    BY <1>0, <2>2
  <2> QED
    BY <2>2, <2>3, <2>4
<1> HIDE DEF a, b
<1> DEFINE r == a \o b
<1>3. /\ r \in Seq(S) /\ Len(r) = (i - 1) + (Len(s) - i)
      /\ \A j \in 1 .. (i - 1) + (Len(s) - i) :
           r[j] = IF j <= i - 1 THEN a[j] ELSE b[j - (i - 1)]
  <2>1. a \in Seq(S) /\ b \in Seq(S)
    BY <1>1, <1>2
  <2>2. /\ r \in Seq(S) /\ Len(r) = Len(a) + Len(b)
        /\ \A j \in 1 .. Len(a) + Len(b) : r[j] = IF j <= Len(a) THEN a[j] ELSE b[j - Len(a)]
    BY ONLY <2>1
  <2> QED
    BY <1>1, <1>2, <2>2
<1> HIDE DEF r
<1>4. Len(r) = Len(s) - 1 /\ Len(e) = Len(r) + 1
  BY <1>0, <1>3 DEF Displaces
<1>5. ASSUME NEW j \in 1 .. Len(r) PROVE e[j + 1] = r[j]
  <2>1. CASE j <= i - 1
    BY <1>0, <1>1, <1>3, <1>4, <2>1 DEF Displaces
  <2>2. CASE j > i - 1
    <3>1. /\ j - (i - 1) \in 1 .. Len(s) - i /\ i + (j - (i - 1)) = j + 1
          /\ j + 1 \in i + 1 .. Len(s) /\ j \in 1 .. (i - 1) + (Len(s) - i) /\ ~(j <= i - 1)
      BY <1>0, <1>4, <2>2
    <3>2. r[j] = b[j - (i - 1)]
      BY <1>3, <3>1
    <3>3. b[j - (i - 1)] = s[i + (j - (i - 1))]
      BY <1>2, <3>1
    <3> QED
      BY <3>1, <3>2, <3>3 DEF Displaces
  <2> QED
    BY <1>0, <1>4, <2>1, <2>2
<1>6. e = <<x>> \o r
  <2>1. r \in Seq(S) /\ e \in Seq(S) /\ x \in S
    BY <1>3
  <2>2. Extends(e, x, r)
    BY <1>4, <1>5 DEF Extends, Displaces
  <2> QED
    BY ONLY <2>1, <2>2, ConsEqual
<1> QED
  BY <1>6 DEF r, a, b

-----------------------------------------------------------------------------
(* The order of use *)

\* The list visits every entry below n once: c[i] is the i-th entry on the way
\* from h to tl, d[p] the place of entry p.
Walk(E, h, tl, n, c, d) ==
  /\ Inverses(n - 1, c, d)
  /\ c[1] = h /\ c[n - 1] = tl
  /\ \A i \in 1 .. n - 2 : E[c[i]].succ = c[i + 1]

\* The keys on the way.
Keys(E, n, c) == [i \in 1 .. n - 1 |-> E[c[i]].key]

\* What the recursion of Order computes.
Visits(E, h, n, g) ==
  g = [i \in 1 .. n - 1 |-> IF i = 1 THEN h
                            ELSE IF g[i - 1] = Nil THEN Nil ELSE E[g[i - 1]].succ]

LEMMA OrderUnfolds ==
  Order = LET at == CHOOSE g : Visits(entries, head, nextFree, g)
          IN  [i \in Used |-> IF at[i] = Nil THEN Nil ELSE entries[at[i]].key]
  BY DEF Order, Visits, Used

\* There is only one way along the list.
LEMMA WalkVisits ==
  ASSUME NEW E, NEW h, NEW tl, NEW n \in Nat, n >= 2, NEW c, NEW d, Walk(E, h, tl, n, c, d)
  PROVE  /\ Visits(E, h, n, c)
         /\ \A g : Visits(E, h, n, g) => g = c
<1>1. /\ c \in [1 .. n - 1 -> 1 .. n - 1] /\ c[1] = h
      /\ \A i \in 1 .. n - 1 : c[i] \in 1 .. n - 1 /\ c[i] # Nil
      /\ \A i \in 1 .. n - 2 : E[c[i]].succ = c[i + 1]
  BY DEF Walk, Inverses, Nil
<1>3. \A i \in 1 .. n - 1 :
        c[i] = IF i = 1 THEN h ELSE IF c[i - 1] = Nil THEN Nil ELSE E[c[i - 1]].succ
  <2> SUFFICES ASSUME NEW i \in 1 .. n - 1
               PROVE  c[i] = IF i = 1 THEN h ELSE IF c[i - 1] = Nil THEN Nil ELSE E[c[i - 1]].succ
    OBVIOUS
  <2>1. CASE i = 1
    BY <1>1, <2>1
  <2>2. CASE i # 1
    <3>1. i - 1 \in 1 .. n - 2 /\ i - 1 \in 1 .. n - 1 /\ (i - 1) + 1 = i
      BY <2>2
    <3>2. E[c[i - 1]].succ = c[(i - 1) + 1] /\ c[i - 1] # Nil
      BY ONLY <1>1, <3>1, Zenon
    <3> QED
      BY <2>2, <3>1, <3>2
  <2> QED
    BY <2>1, <2>2
<1>4. Visits(E, h, n, c)
  BY <1>1, <1>3 DEF Visits
<1>5. ASSUME NEW g, Visits(E, h, n, g) PROVE g = c
  <2>1. /\ DOMAIN g = 1 .. n - 1
        /\ \A i \in 1 .. n - 1 :
             g[i] = IF i = 1 THEN h ELSE IF g[i - 1] = Nil THEN Nil ELSE E[g[i - 1]].succ
        /\ g = [i \in 1 .. n - 1 |-> g[i]]
    BY <1>5 DEF Visits
  <2> DEFINE T == {i \in Nat : i + 1 \in 1 .. n - 1 => g[i + 1] = c[i + 1]}
  <2>2. 0 \in T
    <3>1. 1 \in 1 .. n - 1 /\ 0 + 1 = 1
      OBVIOUS
    <3>2. g[1] = h
      BY <2>1, <3>1
    <3> QED
      BY <1>1, <3>1, <3>2
  <2>3. ASSUME NEW i \in Nat, i \in T PROVE i + 1 \in T
    <3> SUFFICES ASSUME (i + 1) + 1 \in 1 .. n - 1 PROVE g[(i + 1) + 1] = c[(i + 1) + 1]
      OBVIOUS
    <3>1. /\ i + 1 \in 1 .. n - 1 /\ i + 1 \in 1 .. n - 2 /\ ((i + 1) + 1) - 1 = i + 1
          /\ (i + 1) + 1 # 1
      OBVIOUS
    <3>2. g[i + 1] = c[i + 1]
      BY <2>3, <3>1
    <3> DEFINE j == (i + 1) + 1
    <3>3. g[j] = IF j = 1 THEN h ELSE IF g[j - 1] = Nil THEN Nil ELSE E[g[j - 1]].succ
      <4> HIDE DEF j
      <4>1. j \in 1 .. n - 1
        BY DEF j
      <4> QED
        BY ONLY <2>1, <4>1, Zenon
    <3>4. j # 1 /\ j - 1 = i + 1
      BY <3>1
    <3>5. c[i + 1] # Nil /\ E[c[i + 1]].succ = c[j]
      BY ONLY <1>1, <3>1, Zenon
    <3> HIDE DEF j
    <3>6. g[j] = c[j]
      BY <3>2, <3>3, <3>4, <3>5
    <3> QED
      BY <3>6 DEF j
  <2>4. Nat \subseteq T
    <3> HIDE DEF T
    <3> QED
      BY <2>2, <2>3, NaturalsInSet
  <2>5. ASSUME NEW i \in 1 .. n - 1 PROVE g[i] = c[i]
    <3>1. i - 1 \in T /\ (i - 1) + 1 = i
      BY <2>4
    <3> QED
      BY <3>1
  <2> QED
    BY <1>1, <2>1, <2>5
<1> QED
  BY <1>4, <1>5

LEMMA WalkIsOrder ==
  ASSUME TypeOK
  PROVE  \A c, d : Walk(entries, head, tail, nextFree, c, d) => Order = Keys(entries, nextFree, c)
<1> SUFFICES ASSUME NEW c, NEW d, Walk(entries, head, tail, nextFree, c, d)
             PROVE  Order = Keys(entries, nextFree, c)
  OBVIOUS
<1>1. nextFree \in Nat /\ nextFree >= 2
  BY DEF TypeOK
<1>2. (CHOOSE g : Visits(entries, head, nextFree, g)) = c
  BY <1>1, WalkVisits
<1>3. \A i \in 1 .. nextFree - 1 : c[i] # Nil
  BY <1>1 DEF Walk, Inverses, Nil
<1> QED
  BY <1>2, <1>3, OrderUnfolds DEF Keys, Used

\* Neighbours on the way are neighbours in the list.
LEMMA WalkFacts ==
  ASSUME NEW E, NEW h, NEW tl, NEW n \in Nat, n >= 2, Linked(E, h, tl, n),
         NEW c, NEW d, Walk(E, h, tl, n, c, d), NEW p \in 1 .. n - 1, p # h
  PROVE  /\ d[p] \in 2 .. n - 1 /\ c[d[p]] = p
         /\ E[p].pred = c[d[p] - 1]
         /\ p = tl <=> d[p] = n - 1
         /\ p # tl => E[p].succ = c[d[p] + 1]
<1> DEFINE i == d[p]
<1>1. /\ \A j \in 1 .. n - 1 : c[j] \in 1 .. n - 1 /\ d[j] \in 1 .. n - 1
      /\ \A j \in 1 .. n - 1 : d[c[j]] = j /\ c[d[j]] = j
      /\ c[1] = h /\ c[n - 1] = tl
      /\ \A j \in 1 .. n - 2 : E[c[j]].succ = c[j + 1]
  BY DEF Walk, Inverses
<1>2. i \in 1 .. n - 1 /\ c[i] = p
  BY <1>1
<1> HIDE DEF i
<1>3. i # 1 /\ i \in 2 .. n - 1 /\ i - 1 \in 1 .. n - 2 /\ i - 1 \in 1 .. n - 1 /\ (i - 1) + 1 = i
  BY <1>1, <1>2
<1>4. E[c[i - 1]].succ = c[(i - 1) + 1] /\ c[i - 1] \in 1 .. n - 1
  BY ONLY <1>1, <1>3, Zenon
<1>5. E[c[i - 1]].succ = p
  BY <1>2, <1>3, <1>4
<1>6. Nil \notin 1 .. n - 1
  BY DEF Nil
<1>7. E[p].pred = c[i - 1]
  BY <1>4, <1>5, <1>6 DEF Linked
<1>8. p = tl <=> i = n - 1
  <2>1. n - 1 \in 1 .. n - 1
    OBVIOUS
  <2>2. d[c[n - 1]] = n - 1
    BY <1>1, <2>1
  <2> QED
    BY <1>1, <1>2, <2>2 DEF i
<1>9. ASSUME p # tl PROVE E[p].succ = c[i + 1]
  <2>1. i \in 1 .. n - 2
    BY <1>2, <1>8, <1>9
  <2> QED
    BY ONLY <1>1, <1>2, <2>1, Zenon
<1> QED
  BY <1>2, <1>3, <1>7, <1>8, <1>9 DEF i

\* Moving an entry to the front moves it to the front of the way.
LEMMA MovedWalk ==
  ASSUME NEW E \in [Position -> Entry], NEW n \in 2 .. Capacity + 1, NEW h, NEW tl,
         Linked(E, h, tl, n), NEW c, NEW d, Walk(E, h, tl, n, c, d), NEW p \in 1 .. n - 1, p # h
  PROVE  \E e : Walk(Moved(E, p, h), p, IF E[p].succ # Nil THEN tl ELSE E[p].pred, n,
                     ToFront(n - 1, c, d[p]), e)
<1> DEFINE M == Moved(E, p, h)
           last == IF E[p].succ # Nil THEN tl ELSE E[p].pred
           i == d[p]
           f == ToFront(n - 1, c, i)
<1>1. n \in Nat /\ n >= 2 /\ n - 1 \in Nat /\ 1 .. n - 1 \subseteq Position
  BY CacheAssumption DEF Position
<1>2. /\ i \in 2 .. n - 1 /\ c[i] = p
      /\ E[p].pred = c[i - 1]
      /\ p = tl <=> i = n - 1
      /\ p # tl => E[p].succ = c[i + 1]
  BY <1>1, WalkFacts
<1>3. /\ p \in Position /\ h \in Position /\ E[p].pred \in Position
  BY <1>1, MovedLinked
<1>4. \A q \in 1 .. n - 1 :
        M[q].succ = IF q = p THEN h ELSE IF q = E[p].pred THEN E[p].succ ELSE E[q].succ
  BY <1>1, <1>3, MovedFields
<1>a. Inverses(n - 1, c, d) /\ Walk(E, h, tl, n, c, d)
  BY DEF Walk
<1>5. /\ \A j \in 1 .. n - 1 : c[j] \in 1 .. n - 1 /\ d[j] \in 1 .. n - 1
      /\ \A j \in 1 .. n - 1 : d[c[j]] = j /\ c[d[j]] = j
      /\ c[1] = h /\ c[n - 1] = tl
      /\ \A j \in 1 .. n - 2 : E[c[j]].succ = c[j + 1]
  BY ONLY <1>a DEF Walk, Inverses
<1> HIDE DEF i, M
<1>6. PICK e : Inverses(n - 1, f, e)
  <2> DEFINE k == n - 1
  <2>1. k \in Nat /\ i \in 1 .. k
    BY <1>1, <1>2
  <2>3. Inverses(k, c, d)
    BY <1>a
  <2> HIDE DEF k
  <2>2. \E e : Inverses(k, ToFront(k, c, i), e)
    BY ONLY <2>1, <2>3, ToFrontPermutes, Zenon
  <2> QED
    BY <2>2 DEF k
<1>7. \A j \in 1 .. n - 1 : f[j] = IF j = 1 THEN c[i] ELSE IF j <= i THEN c[j - 1] ELSE c[j]
  BY DEF ToFront
<1> HIDE DEF f
<1>b. f \in [1 .. n - 1 -> 1 .. n - 1]
  BY ONLY <1>6 DEF Inverses
<1>8. f[1] = p
  BY <1>1, <1>2, <1>7
<1>9. f[n - 1] = last
  <2>1. E[p].succ = Nil <=> p = tl
    BY DEF Linked
  <2>2. n - 1 \in 1 .. n - 1 /\ n - 1 # 1
    BY <1>2
  <2>3. CASE p = tl
    <3>1. f[n - 1] = c[(n - 1) - 1]
      BY <1>2, <1>7, <2>2, <2>3
    <3> QED
      BY <1>2, <2>1, <2>3, <3>1
  <2>4. CASE p # tl
    BY <1>2, <1>5, <1>7, <2>1, <2>2, <2>4
  <2> QED
    BY <2>3, <2>4
<1>10. ASSUME NEW j \in 1 .. n - 2 PROVE M[f[j]].succ = f[j + 1]
  <2>1. j \in 1 .. n - 1 /\ j + 1 \in 1 .. n - 1 /\ j + 1 # 1 /\ (j + 1) - 1 = j
    OBVIOUS
  <2>2. f[j + 1] = IF j + 1 <= i THEN c[j] ELSE c[j + 1]
    BY <1>7, <2>1
  <2>3. f[j] \in 1 .. n - 1
    BY <1>b, <2>1
  <2>4. CASE j = 1
    <3>1. f[j + 1] = h
      BY <1>2, <1>5, <2>2, <2>4
    <3> QED
      BY <1>4, <1>8, <2>3, <2>4, <3>1
  <2>5. CASE j # 1 /\ j < i
    <3>1. /\ j - 1 \in 1 .. n - 2 /\ j - 1 \in 1 .. n - 1 /\ (j - 1) + 1 = j
          /\ j - 1 # i /\ j - 1 # i - 1 /\ i - 1 \in 1 .. n - 1
      BY <1>2, <2>5
    <3>2. f[j] = c[j - 1] /\ f[j + 1] = c[j]
      BY <1>2, <1>7, <2>1, <2>2, <2>5
    <3>3. E[c[j - 1]].succ = c[(j - 1) + 1]
      BY ONLY <1>5, <3>1, Zenon
    <3>4. d[c[j - 1]] = j - 1 /\ d[c[i - 1]] = i - 1 /\ d[p] = i
      BY <1>5, <3>1 DEF i
    <3>5. c[j - 1] # p /\ c[j - 1] # E[p].pred
      BY <1>2, <3>1, <3>4
    <3>6. M[c[j - 1]].succ = E[c[j - 1]].succ
      BY <1>4, <2>3, <3>2, <3>5
    <3> QED
      BY <3>1, <3>2, <3>3, <3>6
  <2>6. CASE j # 1 /\ j = i
    <3>1. f[j] = c[j - 1] /\ f[j + 1] = c[i + 1]
      BY <1>2, <1>7, <2>1, <2>2, <2>6
    <3>2. p # tl /\ E[p].succ = c[i + 1]
      BY <1>2, <2>1, <2>6
    <3>3. f[j] = E[p].pred
      BY <1>2, <2>6, <3>1
    <3>4. E[p].pred # p
      <4>1. d[c[i - 1]] = i - 1 /\ d[p] = i /\ i - 1 # i
        BY <1>2, <1>5 DEF i
      <4> QED
        BY <1>2, <4>1
    <3>5. M[f[j]].succ = E[p].succ
      BY <1>4, <2>3, <3>3, <3>4
    <3> QED
      BY <3>1, <3>2, <3>5
  <2>7. CASE j > i
    <3>1. f[j] = c[j] /\ f[j + 1] = c[j + 1]
      BY <1>2, <1>7, <2>1, <2>2, <2>7
    <3>2. E[c[j]].succ = c[j + 1]
      BY <1>5
    <3>3. d[c[j]] = j /\ d[c[i - 1]] = i - 1 /\ d[p] = i /\ j # i /\ j # i - 1
      BY <1>2, <1>5, <2>1, <2>7 DEF i
    <3>4. c[j] # p /\ c[j] # E[p].pred
      BY <1>2, <3>3
    <3>5. M[c[j]].succ = E[c[j]].succ
      BY <1>4, <2>3, <3>1, <3>4
    <3> QED
      BY <3>1, <3>2, <3>5
  <2> QED
    BY <1>2, <2>4, <2>5, <2>6, <2>7
<1>11. Walk(M, p, last, n, f, e)
  BY <1>6, <1>8, <1>9, <1>10 DEF Walk
<1> QED
  BY <1>11 DEF M, f, i

\* A new entry comes first on the way, in front of all others.
LEMMA AddedToFreeWalk ==
  ASSUME NEW E \in [Position -> Entry], NEW n \in 2 .. Capacity, NEW h, NEW tl, NEW k \in Key,
         Linked(E, h, tl, n), NEW c, NEW d, Walk(E, h, tl, n, c, d)
  PROVE  \E e : Walk(Added(E, n, k, h), n, tl, n + 1, PushTop(n - 1, c), e)
<1> DEFINE F == Added(E, n, k, h)
           f == PushTop(n - 1, c)
<1>1. /\ n \in Nat /\ n >= 2 /\ n - 1 \in Nat /\ (n - 1) + 1 = n /\ (n + 1) - 1 = n
      /\ 1 .. n - 1 \subseteq Position /\ n \in Position /\ n \notin 1 .. n - 1
  BY CacheAssumption DEF Position
<1>2. h \in Position /\ h # n
  BY <1>1 DEF Linked
<1>3. \A q \in Position : F[q].succ = IF q = n THEN h ELSE E[q].succ
  <2>1. E \in [Position -> Entry] /\ n \in Position /\ h \in Position /\ n # h /\ k \in Key
    BY <1>1, <1>2
  <2> QED
    BY ONLY <2>1, AddedFields
<1>a. Inverses(n - 1, c, d) /\ Walk(E, h, tl, n, c, d)
  BY DEF Walk
<1>4. /\ \A j \in 1 .. n - 1 : c[j] \in 1 .. n - 1
      /\ c[1] = h /\ c[n - 1] = tl
      /\ \A j \in 1 .. n - 2 : E[c[j]].succ = c[j + 1]
  BY ONLY <1>a DEF Walk, Inverses
<1>5. /\ f[1] = n
      /\ \A j \in 1 .. n - 1 : f[j + 1] = c[j]
  BY <1>1 DEF PushTop
<1> HIDE DEF F
<1>6. PICK e : Inverses(n, f, e)
  <2> DEFINE m == n - 1
  <2>1. m \in Nat /\ Inverses(m, c, d)
    BY <1>1, <1>a
  <2> HIDE DEF m
  <2>2. \E e : Inverses(m + 1, PushTop(m, c), e)
    BY ONLY <2>1, PushPermutes, Zenon
  <2> QED
    BY <1>1, <2>2 DEF m
<1> HIDE DEF f
<1>7. f[n] = tl
  <2>1. n - 1 \in 1 .. n - 1
    BY <1>1
  <2>2. f[(n - 1) + 1] = c[n - 1]
    BY <1>5, <2>1
  <2> QED
    BY <1>1, <1>4, <2>2
<1>8. ASSUME NEW j \in 1 .. n - 1 PROVE F[f[j]].succ = f[j + 1]
  <2>1. f[j + 1] = c[j]
    BY <1>5
  <2>2. CASE j = 1
    BY <1>1, <1>3, <1>4, <1>5, <2>1, <2>2
  <2>3. CASE j # 1
    <3>1. j - 1 \in 1 .. n - 2 /\ j - 1 \in 1 .. n - 1 /\ (j - 1) + 1 = j
      BY <1>1, <2>3
    <3>2. f[(j - 1) + 1] = c[j - 1] /\ E[c[j - 1]].succ = c[(j - 1) + 1] /\ c[j - 1] \in 1 .. n - 1
      BY ONLY <1>4, <1>5, <3>1, Zenon
    <3>3. F[c[j - 1]].succ = E[c[j - 1]].succ
      BY <1>1, <1>3, <3>2
    <3> QED
      BY <2>1, <3>1, <3>2, <3>3
  <2> QED
    BY <2>2, <2>3
<1>9. Walk(F, n, tl, n + 1, f, e)
  <2>1. (n + 1) - 2 = n - 1
    BY <1>1
  <2>2. \A j \in 1 .. n - 1 : F[f[j]].succ = f[j + 1]
    BY <1>8
  <2> QED
    BY <1>1, <1>5, <1>6, <1>7, <2>1, <2>2 DEF Walk
<1> QED
  BY <1>9 DEF F, f

\* The entry that is used again comes first, the one before it last.
LEMMA AddedToFullWalk ==
  ASSUME NEW E \in [Position -> Entry], NEW n, n = Capacity + 1, NEW h, NEW tl, NEW k \in Key,
         Linked(E, h, tl, n), NEW c, NEW d, Walk(E, h, tl, n, c, d)
  PROVE  \E e : Walk(Added(SetSucc(E, E[tl].pred, Nil), tl, k, h), tl, E[tl].pred, n,
                     ToFront(n - 1, c, n - 1), e)
<1> DEFINE F == Added(SetSucc(E, E[tl].pred, Nil), tl, k, h)
           M == Moved(E, tl, h)
           f == ToFront(n - 1, c, n - 1)
<1>1. n \in 2 .. Capacity + 1 /\ n > 2 /\ n \in Nat /\ 1 .. n - 1 = Position /\ Nil \notin Position
  BY CacheAssumption DEF Position, Nil
<1>2. /\ h \in Position /\ tl \in Position /\ h # tl /\ tl \in 1 .. n - 1
      /\ E[tl].pred \in Position /\ E[tl].pred # tl /\ E[tl].succ = Nil
  BY <1>1 DEF Linked
<1>3. d[tl] = n - 1
  BY <1>1, <1>2, WalkFacts
<1>4. PICK e : Walk(M, tl, E[tl].pred, n, f, e)
  <2> DEFINE last == IF E[tl].succ # Nil THEN tl ELSE E[tl].pred
             g == ToFront(n - 1, c, d[tl])
  <2>1. \E e : Walk(M, tl, last, n, g, e)
    BY <1>1, <1>2, MovedWalk
  <2>2. last = E[tl].pred /\ g = f
    BY <1>2, <1>3
  <2> HIDE DEF last, g, M, f
  <2> QED
    BY <2>1, <2>2, Zenon
<1>5. \A q \in Position : M[q].succ = IF q = tl THEN h ELSE IF q = E[tl].pred THEN Nil ELSE E[q].succ
  BY <1>2, MovedFields
<1>6. \A q \in Position : F[q].succ = IF q = tl THEN h ELSE IF q = E[tl].pred THEN Nil ELSE E[q].succ
  <2> DEFINE S == SetSucc(E, E[tl].pred, Nil)
  <2>1. /\ S \in [Position -> Entry]
        /\ \A q \in Position : S[q].succ = IF q = E[tl].pred THEN Nil ELSE E[q].succ
    <3>1. E \in [Position -> Entry] /\ E[tl].pred \in Position /\ Nil \in Position \cup {Nil}
      BY <1>2
    <3> QED
      BY ONLY <3>1, SetSuccFields
  <2> HIDE DEF S
  <2>2. S \in [Position -> Entry] /\ tl \in Position /\ h \in Position /\ tl # h /\ k \in Key
    BY <1>2, <2>1, Zenon
  <2>3. \A q \in Position : Added(S, tl, k, h)[q].succ = IF q = tl THEN h ELSE S[q].succ
    BY ONLY <2>2, AddedFields
  <2> QED
    BY <2>1, <2>3, Zenon DEF S
<1> HIDE DEF F, M, f
<1>7. \A j \in 1 .. n - 2 : f[j] \in 1 .. n - 1
  <2>1. f \in [1 .. n - 1 -> 1 .. n - 1]
    BY ONLY <1>4, Zenon DEF Walk, Inverses
  <2> QED
    BY <1>1, <2>1
<1>8. Walk(F, tl, E[tl].pred, n, f, e)
  BY <1>1, <1>4, <1>5, <1>6, <1>7 DEF Walk
<1> QED
  BY <1>8, Zenon DEF F, f

Keyed(E, n) == \A q \in 1 .. n - 1 : E[q].key \in Key

LEMMA KeysSequence ==
  ASSUME NEW E, NEW n \in Nat, n >= 2, NEW c, NEW d, Inverses(n - 1, c, d), Keyed(E, n)
  PROVE  /\ Keys(E, n, c) \in Seq(Key) /\ Len(Keys(E, n, c)) = n - 1
         /\ \A i \in 1 .. n - 1 : Keys(E, n, c)[i] = E[c[i]].key
<1>1. n - 1 \in Nat /\ \A i \in 1 .. n - 1 : c[i] \in 1 .. n - 1
  BY DEF Inverses
<1>2. \A i \in 1 .. n - 1 : E[c[i]].key \in Key
  BY <1>1, Zenon DEF Keyed
<1> QED
  BY <1>1, <1>2 DEF Keys

\* F has the keys of E, but k at p.
Rekeyed(E, F, n, p, k) ==
  \A q \in 1 .. n - 1 : F[q].key = IF q = p THEN k ELSE E[q].key

\* The entry at place i of the walk c of E is at the front in F, with key k.
FrontMoves(E, F, n, c, d, e, i, k) ==
  /\ n \in Nat /\ n >= 2 /\ i \in 1 .. n - 1 /\ k \in Key
  /\ Inverses(n - 1, c, d) /\ Inverses(n - 1, ToFront(n - 1, c, i), e)
  /\ Keyed(E, n) /\ Rekeyed(E, F, n, c[i], k)

FrontKeys(E, F, n, c, i, k) ==
  LET s == Keys(E, n, c)
  IN  Keys(F, n, ToFront(n - 1, c, i)) =
        <<k>> \o (SubSeq(s, 1, i - 1) \o SubSeq(s, i + 1, Len(s)))

LEMMA KeysToFront ==
  ASSUME NEW E, NEW F, NEW n, NEW c, NEW d, NEW e, NEW i, NEW k,
         FrontMoves(E, F, n, c, d, e, i, k)
  PROVE  FrontKeys(E, F, n, c, i, k)
<1> n \in Nat /\ n >= 2 /\ i \in 1 .. n - 1 /\ k \in Key
  BY Zenon DEF FrontMoves
<1> Inverses(n - 1, c, d) /\ Inverses(n - 1, ToFront(n - 1, c, i), e)
  BY Zenon DEF FrontMoves
<1> Keyed(E, n) /\ Rekeyed(E, F, n, c[i], k)
  BY Zenon DEF FrontMoves
<1> DEFINE f == ToFront(n - 1, c, i)
           s == Keys(E, n, c)
           r == Keys(F, n, f)
<1>1. /\ \A j \in 1 .. n - 1 : c[j] \in 1 .. n - 1 /\ d[c[j]] = j
      /\ \A j \in 1 .. n - 1 : f[j] = IF j = 1 THEN c[i] ELSE IF j <= i THEN c[j - 1] ELSE c[j]
  <2>1. Inverses(n - 1, c, d)
    BY Zenon
  <2>2. \A j \in 1 .. n - 1 : c[j] \in 1 .. n - 1 /\ d[c[j]] = j
    BY ONLY <2>1, Zenon DEF Inverses
  <2>3. \A j \in 1 .. n - 1 : f[j] = IF j = 1 THEN c[i] ELSE IF j <= i THEN c[j - 1] ELSE c[j]
    BY Zenon DEF ToFront
  <2> QED
    BY <2>2, <2>3, Zenon
<1>2. s \in Seq(Key) /\ Len(s) = n - 1 /\ \A j \in 1 .. n - 1 : s[j] = E[c[j]].key
  BY KeysSequence
<1>3. Keyed(F, n) /\ Inverses(n - 1, f, e)
  BY Zenon DEF Keyed, Rekeyed
<1> HIDE DEF f, s
<1>4. r \in Seq(Key) /\ Len(r) = n - 1 /\ \A j \in 1 .. n - 1 : r[j] = F[f[j]].key
  BY <1>3, KeysSequence
<1> HIDE DEF r
<1>5. r[1] = k
  BY <1>1, <1>4 DEF Rekeyed
<1>6. ASSUME NEW j \in 1 .. i - 1 PROVE r[j + 1] = s[j]
  <2>1. j \in 1 .. n - 1 /\ j + 1 \in 1 .. n - 1 /\ j + 1 # 1 /\ j + 1 <= i /\ (j + 1) - 1 = j /\ j # i
    OBVIOUS
  <2>2. f[j + 1] = c[j] /\ c[j] # c[i] /\ c[j] \in 1 .. n - 1
    BY <1>1, <2>1
  <2>3. r[j + 1] = F[f[j + 1]].key /\ s[j] = E[c[j]].key
    BY <1>2, <1>4, <2>1, Zenon
  <2> QED
    BY <2>2, <2>3, Zenon DEF Rekeyed
<1>7. ASSUME NEW j \in i + 1 .. n - 1 PROVE r[j] = s[j]
  <2>1. j \in 1 .. n - 1 /\ j # 1 /\ ~(j <= i) /\ j # i
    OBVIOUS
  <2>2. f[j] = c[j] /\ c[j] # c[i] /\ c[j] \in 1 .. n - 1
    BY <1>1, <2>1
  <2> QED
    BY <1>2, <1>4, <2>1, <2>2 DEF Rekeyed
<1>8. r = <<k>> \o (SubSeq(s, 1, i - 1) \o SubSeq(s, i + 1, Len(s)))
  <2>1. Displaces(r, k, s, i)
    BY <1>2, <1>4, <1>5, <1>6, <1>7, Zenon DEF Displaces
  <2>2. s \in Seq(Key) /\ r \in Seq(Key) /\ i \in 1 .. Len(s) /\ k \in Key
    BY <1>2, <1>4, Zenon
  <2> QED
    BY ONLY <2>1, <2>2, ToFrontEqual, Zenon
<1> USE DEF r, f, s
<1> QED
  BY ONLY <1>8, Zenon DEF FrontKeys

\* A new entry, at n, is at the front in F, with key k.
TopPushed(E, F, n, c, d, e, k) ==
  /\ n \in Nat /\ n >= 2 /\ k \in Key
  /\ Inverses(n - 1, c, d) /\ Inverses(n, PushTop(n - 1, c), e)
  /\ Keyed(E, n) /\ \A q \in 1 .. n : F[q].key = IF q = n THEN k ELSE E[q].key

PushedKeys(E, F, n, c, k) == Keys(F, n + 1, PushTop(n - 1, c)) = <<k>> \o Keys(E, n, c)

LEMMA KeysPushed ==
  ASSUME NEW E, NEW F, NEW n, NEW c, NEW d, NEW e, NEW k, TopPushed(E, F, n, c, d, e, k)
  PROVE  PushedKeys(E, F, n, c, k)
<1> n \in Nat /\ n >= 2 /\ k \in Key
  BY Zenon DEF TopPushed
<1> Inverses(n - 1, c, d) /\ Inverses(n, PushTop(n - 1, c), e)
  BY Zenon DEF TopPushed
<1> Keyed(E, n) /\ \A q \in 1 .. n : F[q].key = IF q = n THEN k ELSE E[q].key
  BY Zenon DEF TopPushed
<1> DEFINE f == PushTop(n - 1, c)
           s == Keys(E, n, c)
           m == n + 1
           r == Keys(F, m, f)
<1>1. /\ \A j \in 1 .. n - 1 : c[j] \in 1 .. n - 1
      /\ f[1] = n /\ \A j \in 1 .. n - 1 : f[j + 1] = c[j]
  <2>1. Inverses(n - 1, c, d) /\ n \in Nat /\ n >= 2
    BY Zenon
  <2>2. \A j \in 1 .. n - 1 : c[j] \in 1 .. n - 1
    BY ONLY <2>1, Zenon DEF Inverses
  <2>3. f[1] = n /\ \A j \in 1 .. n - 1 : f[j + 1] = c[j]
    BY ONLY <2>1 DEF PushTop
  <2> QED
    BY <2>2, <2>3, Zenon
<1>2. s \in Seq(Key) /\ Len(s) = n - 1 /\ \A j \in 1 .. n - 1 : s[j] = E[c[j]].key
  BY KeysSequence
<1>a. m \in Nat /\ m >= 2 /\ m - 1 = n
  OBVIOUS
<1> HIDE DEF f, s, m
<1>3. Keyed(F, m)
  BY <1>a DEF Keyed
<1>b. Inverses(m - 1, f, e)
  BY <1>a, Zenon DEF f
<1>4. r \in Seq(Key) /\ Len(r) = m - 1 /\ \A j \in 1 .. m - 1 : r[j] = F[f[j]].key
  BY <1>3, <1>a, <1>b, KeysSequence
<1> HIDE DEF r
<1>5. r[1] = k
  BY <1>a, <1>1, <1>4
<1>6. ASSUME NEW j \in 1 .. n - 1 PROVE r[j + 1] = s[j]
  <2>1. j + 1 \in 1 .. m - 1 /\ c[j] \in 1 .. n - 1 /\ c[j] \in 1 .. n /\ c[j] # n
    BY <1>a, <1>1
  <2>2. r[j + 1] = F[f[j + 1]].key /\ f[j + 1] = c[j] /\ s[j] = E[c[j]].key
    BY <1>1, <1>2, <1>4, <2>1, Zenon
  <2> QED
    BY <2>1, <2>2, Zenon
<1>7. Len(r) = Len(s) + 1
  BY <1>a, <1>2, <1>4
<1>8. r = <<k>> \o s
  <2>1. Extends(r, k, s)
    BY <1>2, <1>5, <1>6, <1>7, Zenon DEF Extends
  <2> QED
    BY <1>2, <1>4, <2>1, ConsEqual, Zenon
<1> QED
  BY <1>8, Zenon DEF r, f, s, m, PushedKeys

-----------------------------------------------------------------------------
(* Every step of the hash cache is one of an LRU cache, or leaves the order. *)

LEMMA NextOrder ==
  TypeOK' => \A c, d : Walk(entries', head', tail', nextFree', c, d)
                         => Order' = Keys(entries', nextFree', c)
<1>1. TypeOK => \A c, d : Walk(entries, head, tail, nextFree, c, d)
                            => Order = Keys(entries, nextFree, c)
  BY WalkIsOrder, Zenon
<1>2. (TypeOK => \A c, d : Walk(entries, head, tail, nextFree, c, d)
                             => Order = Keys(entries, nextFree, c))'
  BY <1>1, PTL
<1> QED
  BY <1>2, Zenon

LEMMA TypedKeys ==
  ASSUME NEW E \in [Position -> Entry], NEW n \in 2 .. Capacity + 1
  PROVE  Keyed(E, n) /\ n \in Nat /\ n >= 2 /\ 1 .. n - 1 \subseteq Position
<1>1. n \in Nat /\ n >= 2 /\ 1 .. n - 1 \subseteq Position
  BY CacheAssumption DEF Position
<1>2. \A q \in 1 .. n - 1 : E[q] \in Entry
  BY <1>1, Zenon
<1> QED
  BY <1>1, <1>2, Zenon DEF Keyed, Entry

LEMMA InitOrder ==
  Init => Lru!Init /\ \E c, d : Walk(entries, head, tail, nextFree, c, d)
<1> SUFFICES ASSUME Init PROVE Lru!Init /\ \E c, d : Walk(entries, head, tail, nextFree, c, d)
  BY Zenon
<1> DEFINE c == [j \in 1 .. 1 |-> 1]
<1>1. nextFree = 2 /\ head = 1 /\ tail = 1 /\ nextFree - 1 = 1 /\ 1 .. nextFree - 2 = {}
  BY DEF Init
<1>2. Inverses(1, c, c) /\ c[1] = 1
  BY DEF Inverses
<1> HIDE DEF c
<1>3. Walk(entries, head, tail, nextFree, c, c)
  BY <1>1, <1>2, Zenon DEF Walk
<1>4. Order = Keys(entries, nextFree, c)
  BY <1>3, InitEstablishes, WalkIsOrder, Zenon DEF IInv
<1>5. entries[1].key = ZeroKey
  BY CacheAssumption DEF Init, Position
<1>6. Keys(entries, nextFree, c) = [j \in 1 .. 1 |-> ZeroKey]
  BY <1>1, <1>2, <1>5 DEF Keys
<1>7. Order = <<ZeroKey>>
  BY <1>4, <1>6
<1> QED
  BY <1>3, <1>7, Zenon DEF Lru!Init

\* A step that keeps the links and the keys keeps the order.
LEMMA SameOrder ==
  ASSUME TypeOK, TypeOK', NEW c, NEW d, Walk(entries, head, tail, nextFree, c, d),
         UNCHANGED <<head, tail, nextFree>>,
         \A q \in 1 .. nextFree - 1 : /\ entries'[q].succ = entries[q].succ
                                      /\ entries'[q].key = entries[q].key
  PROVE  Walk(entries', head', tail', nextFree', c, d) /\ Order' = Order
<1>1. /\ Inverses(nextFree - 1, c, d) /\ c[1] = head /\ c[nextFree - 1] = tail
      /\ \A i \in 1 .. nextFree - 2 : entries[c[i]].succ = c[i + 1]
  BY Zenon DEF Walk
<1>2. \A i \in 1 .. nextFree - 1 : c[i] \in 1 .. nextFree - 1
  BY <1>1, Zenon DEF Inverses
<1>3. nextFree \in Nat /\ \A i \in 1 .. nextFree - 2 : i \in 1 .. nextFree - 1
  BY DEF TypeOK
<1>4. \A i \in 1 .. nextFree - 2 : entries'[c[i]].succ = c[i + 1]
  BY <1>1, <1>2, <1>3, Zenon
<1>5. Walk(entries', head', tail', nextFree', c, d)
  BY <1>1, <1>4, Zenon DEF Walk
<1>6. Keys(entries', nextFree', c) = Keys(entries, nextFree, c)
  BY <1>2, Zenon DEF Keys
<1>7. Order = Keys(entries, nextFree, c)
  BY WalkIsOrder, Zenon
<1>8. Order' = Keys(entries', nextFree', c)
  BY <1>5, NextOrder, Zenon
<1> QED
  BY <1>5, <1>6, <1>7, <1>8, Zenon

\* The order when the entry at place i comes first and takes up key k.
LEMMA FrontOrder ==
  ASSUME TypeOK, TypeOK', NEW c, NEW d, Walk(entries, head, tail, nextFree, c, d),
         nextFree' = nextFree, NEW i \in 1 .. nextFree - 1, NEW k \in Key, NEW e,
         Walk(entries', head', tail', nextFree', ToFront(nextFree - 1, c, i), e),
         Rekeyed(entries, entries', nextFree, c[i], k)
  PROVE  /\ Order \in Seq(Key) /\ Len(Order) = nextFree - 1
         /\ \A j \in 1 .. nextFree - 1 : Order[j] = entries[c[j]].key
         /\ Order' = <<k>> \o (SubSeq(Order, 1, i - 1) \o SubSeq(Order, i + 1, Len(Order)))
<1> DEFINE f == ToFront(nextFree - 1, c, i)
<1>1. Keyed(entries, nextFree) /\ nextFree \in Nat /\ nextFree >= 2
  BY TypedKeys, Zenon DEF TypeOK
<1>2. Inverses(nextFree - 1, c, d) /\ Inverses(nextFree - 1, f, e)
  BY Zenon DEF Walk
<1>3. Order = Keys(entries, nextFree, c)
  BY WalkIsOrder, Zenon
<1>4. Order' = Keys(entries', nextFree, f)
  BY NextOrder, Zenon
<1>5. /\ Order \in Seq(Key) /\ Len(Order) = nextFree - 1
      /\ \A j \in 1 .. nextFree - 1 : Order[j] = entries[c[j]].key
  BY <1>1, <1>2, <1>3, KeysSequence
<1>6. FrontMoves(entries, entries', nextFree, c, d, e, i, k)
  BY <1>1, <1>2, Zenon DEF FrontMoves
<1>7. FrontKeys(entries, entries', nextFree, c, i, k)
  BY ONLY <1>6, KeysToFront, Zenon
<1>8. Order' = <<k>> \o (SubSeq(Order, 1, i - 1) \o SubSeq(Order, i + 1, Len(Order)))
  BY ONLY <1>3, <1>4, <1>7, Zenon DEF FrontKeys
<1> QED
  BY ONLY <1>5, <1>8, Zenon

\* The identity is the move of the first one to the front.
LEMMA FirstToFront ==
  ASSUME NEW m \in Nat, m >= 1, NEW c, NEW d, Inverses(m, c, d)
  PROVE  ToFront(m, c, 1) = c
<1>1. c \in [1 .. m -> 1 .. m]
  BY Zenon DEF Inverses
<1>2. \A j \in 1 .. m : (IF j = 1 THEN c[1] ELSE IF j <= 1 THEN c[j - 1] ELSE c[j]) = c[j]
  OBVIOUS
<1> QED
  BY <1>1, <1>2, Zenon DEF ToFront

LEMMA LookupOrder ==
  ASSUME IInv, TypeOK', NEW c, NEW d, Walk(entries, head, tail, nextFree, c, d),
         NEW t \in Thread, Lookup(t), index[request[t]] # Nil
  PROVE  /\ \E f, e : Walk(entries', head', tail', nextFree', f, e)
         /\ Lru!Touch(request[t])
<1> DEFINE k == request[t]
           p == index[k]
           i == d[p]
<1>1. /\ TypeOK /\ entries \in [Position -> Entry] /\ nextFree \in 2 .. Capacity + 1
      /\ k \in Key /\ p \in 1 .. nextFree - 1 /\ entries[p].key = k
      /\ Linked(entries, head, tail, nextFree)
  BY Zenon DEF IInv, TypeOK, Indexed
<1>2. Inverses(nextFree - 1, c, d) /\ c[1] = head
  BY Zenon DEF Walk
<1>3. /\ i \in 1 .. nextFree - 1 /\ c[i] = p
      /\ p = head => i = 1
  <2>1. nextFree - 1 >= 1 /\ nextFree - 1 \in Nat /\ 1 \in 1 .. nextFree - 1
    BY <1>1
  <2>2. p \in 1 .. nextFree - 1
    BY <1>1, Zenon
  <2> HIDE DEF p
  <2> QED
    BY <1>2, <2>1, <2>2, Zenon DEF Inverses
<1> HIDE DEF i
<1>4. \E e : Walk(entries', head', tail', nextFree', ToFront(nextFree - 1, c, i), e)
  <2>1. CASE p = head
    <3>1. UNCHANGED <<entries, head, tail, nextFree>>
      BY <2>1, Zenon DEF Lookup
    <3>2. nextFree - 1 >= 1 /\ nextFree - 1 \in Nat
      BY <1>1
    <3>3. ToFront(nextFree - 1, c, i) = c
      BY <1>2, <1>3, <2>1, <3>2, FirstToFront, Zenon
    <3> QED
      BY <3>1, <3>3, Zenon
  <2>2. CASE p # head
    <3>1. MoveToFront(p) /\ nextFree' = nextFree
      BY <2>2, Zenon DEF Lookup
    <3>2. /\ entries' = Moved(entries, p, head) /\ head' = p
          /\ tail' = IF entries[p].succ # Nil THEN tail ELSE entries[p].pred
      BY <3>1, MoveToFrontMoves, Zenon
    <3> HIDE DEF p
    <3>3. \E e : Walk(Moved(entries, p, head), p,
                      IF entries[p].succ # Nil THEN tail ELSE entries[p].pred, nextFree,
                      ToFront(nextFree - 1, c, d[p]), e)
      BY <1>1, <2>2, MovedWalk, Zenon
    <3> QED
      BY <3>1, <3>2, <3>3, Zenon DEF i
  <2> QED
    BY <2>1, <2>2, Zenon
<1>5. Rekeyed(entries, entries', nextFree, c[i], k) /\ nextFree' = nextFree
  <2>1. 1 .. nextFree - 1 \subseteq Position
    BY <1>1, TypedKeys, Zenon
  <2>2. CASE UNCHANGED entries
    BY <1>1, <1>3, <2>2, Zenon DEF Rekeyed, Lookup
  <2>3. CASE p # head /\ MoveToFront(p)
    <3>1. p \in Position /\ head \in Position /\ entries[p].pred \in Position
      BY <1>1, <2>1, <2>3, Zenon DEF Linked
    <3>2. entries' = Moved(entries, p, head)
      BY <2>3, MoveToFrontMoves, Zenon
    <3> HIDE DEF p
    <3>3. \A q \in Position : Moved(entries, p, head)[q].key = entries[q].key
      BY <1>1, <2>3, <3>1, MovedFields
    <3> QED
      BY <1>1, <1>3, <2>1, <3>2, <3>3, Zenon DEF Rekeyed, Lookup
  <2> QED
    BY <2>2, <2>3, Zenon DEF Lookup
<1>6. PICK e : Walk(entries', head', tail', nextFree', ToFront(nextFree - 1, c, i), e)
  BY <1>4, Zenon
<1> HIDE DEF p, k
<1>7. /\ Order \in Seq(Key) /\ Len(Order) = nextFree - 1
      /\ \A j \in 1 .. nextFree - 1 : Order[j] = entries[c[j]].key
      /\ Order' = <<k>> \o (SubSeq(Order, 1, i - 1) \o SubSeq(Order, i + 1, Len(Order)))
  BY <1>1, <1>3, <1>5, <1>6, FrontOrder, Zenon
<1>9. i \in DOMAIN Order /\ Order[i] = k
  <2>1. Order[i] = k
    BY <1>1, <1>3, <1>7, Zenon
  <2>2. DOMAIN Order = 1 .. Len(Order)
    BY ONLY <1>7
  <2> QED
    BY <1>3, <1>7, <2>1, <2>2, Zenon
<1>10. Lru!Touch(k)
  BY ONLY <1>7, <1>9, Zenon DEF Lru!Touch
<1> QED
  BY ONLY <1>6, <1>10, Zenon DEF k

LEMMA NotHeld ==
  ASSUME IInv, NEW c, NEW d, Walk(entries, head, tail, nextFree, c, d),
         NEW k \in Key, index[k] = Nil
  PROVE  /\ k \notin Lru!Held
         /\ Order \in Seq(Key) /\ Len(Order) = nextFree - 1
<1>1. Keyed(entries, nextFree) /\ nextFree \in Nat /\ nextFree >= 2
  BY TypedKeys, Zenon DEF IInv, TypeOK
<1>2. Inverses(nextFree - 1, c, d) /\ \A j \in 1 .. nextFree - 1 : c[j] \in 1 .. nextFree - 1
  BY Zenon DEF Walk, Inverses
<1>3. Order = Keys(entries, nextFree, c)
  BY WalkIsOrder, Zenon DEF IInv
<1>4. /\ Order \in Seq(Key) /\ Len(Order) = nextFree - 1
      /\ \A j \in 1 .. nextFree - 1 : Order[j] = entries[c[j]].key
  BY <1>1, <1>2, <1>3, KeysSequence
<1>5. \A q \in 1 .. nextFree - 1 : index[entries[q].key] = q /\ q # Nil
  BY DEF IInv, Indexed, Nil
<1>6. \A j \in DOMAIN Order : Order[j] # k
  BY <1>2, <1>4, <1>5
<1> QED
  BY <1>4, <1>6, Zenon DEF Lru!Held

LEMMA InsertFreeOrder ==
  ASSUME IInv, TypeOK', NEW c, NEW d, Walk(entries, head, tail, nextFree, c, d),
         NEW k \in Key, index[k] = Nil, ~full,
         entries' = Added(entries, nextFree, k, head),
         head' = nextFree, tail' = tail, nextFree' = nextFree + 1
  PROVE  /\ \E f, e : Walk(entries', head', tail', nextFree', f, e)
         /\ Lru!Add(k)
<1>1. /\ TypeOK /\ entries \in [Position -> Entry] /\ nextFree \in 2 .. Capacity
      /\ nextFree \in 2 .. Capacity + 1 /\ Linked(entries, head, tail, nextFree)
  BY CacheAssumption DEF IInv, TypeOK, full
<1>2. \E e : Walk(Added(entries, nextFree, k, head), nextFree, tail, nextFree + 1,
                  PushTop(nextFree - 1, c), e)
  BY ONLY <1>1, k \in Key, Walk(entries, head, tail, nextFree, c, d), AddedToFreeWalk, Zenon
<1>3. PICK e : Walk(entries', head', tail', nextFree', PushTop(nextFree - 1, c), e)
  BY <1>2, Zenon
<1>4. Inverses(nextFree - 1, c, d) /\ Inverses(nextFree, PushTop(nextFree - 1, c), e)
  <2>1. nextFree' - 1 = nextFree
    BY <1>1
  <2> QED
    BY <1>3, <2>1, Zenon DEF Walk
<1>5. \A q \in 1 .. nextFree : entries'[q].key = IF q = nextFree THEN k ELSE entries[q].key
  <2>1. /\ nextFree \in Position /\ head \in Position /\ nextFree # head
        /\ 1 .. nextFree \subseteq Position
    BY <1>1, CacheAssumption DEF Position, Linked
  <2>2. \A q \in Position : Added(entries, nextFree, k, head)[q].key =
          IF q = nextFree THEN k ELSE entries[q].key
    BY <1>1, <2>1, AddedFields
  <2> QED
    BY <2>1, <2>2, Zenon
<1>6. TopPushed(entries, entries', nextFree, c, d, e, k)
  BY <1>1, <1>4, <1>5, TypedKeys, Zenon DEF TopPushed
<1>7. PushedKeys(entries, entries', nextFree, c, k)
  BY ONLY <1>6, KeysPushed, Zenon
<1>8. Order = Keys(entries, nextFree, c)
  BY <1>1, WalkIsOrder, Zenon
<1>9. Order' = Keys(entries', nextFree + 1, PushTop(nextFree - 1, c))
  BY <1>3, NextOrder, Zenon
<1>10. Order' = <<k>> \o Order
  BY ONLY <1>7, <1>8, <1>9, Zenon DEF PushedKeys
<1>11. k \notin Lru!Held /\ Len(Order) = nextFree - 1
  BY NotHeld, Zenon
<1>12. Len(Order) < Capacity
  BY <1>1, <1>11, CacheAssumption
<1>13. Lru!Add(k)
  BY ONLY <1>10, <1>11, <1>12, Zenon DEF Lru!Add
<1> QED
  BY ONLY <1>3, <1>13, Zenon

LEMMA InsertFullOrder ==
  ASSUME IInv, TypeOK', NEW c, NEW d, Walk(entries, head, tail, nextFree, c, d),
         NEW k \in Key, index[k] = Nil, full,
         entries' = Added(SetSucc(entries, entries[tail].pred, Nil), tail, k, head),
         head' = tail, tail' = entries[tail].pred, nextFree' = nextFree
  PROVE  /\ \E f, e : Walk(entries', head', tail', nextFree', f, e)
         /\ Lru!Add(k)
<1> DEFINE i == nextFree - 1
<1>1. /\ TypeOK /\ entries \in [Position -> Entry] /\ nextFree = Capacity + 1
      /\ nextFree \in 2 .. Capacity + 1 /\ Linked(entries, head, tail, nextFree)
  BY CacheAssumption DEF IInv, TypeOK, full
<1>2. \E e : Walk(Added(SetSucc(entries, entries[tail].pred, Nil), tail, k, head), tail,
                  entries[tail].pred, nextFree, ToFront(nextFree - 1, c, nextFree - 1), e)
  BY ONLY <1>1, k \in Key, Walk(entries, head, tail, nextFree, c, d), AddedToFullWalk, Zenon
<1>3. PICK e : Walk(entries', head', tail', nextFree', ToFront(nextFree - 1, c, i), e)
  BY <1>2, Zenon
<1>4. c[i] = tail /\ i \in 1 .. nextFree - 1 /\ i = Capacity
  BY <1>1, CacheAssumption DEF Walk
<1>5. Rekeyed(entries, entries', nextFree, c[i], k)
  <2>1. /\ head \in Position /\ tail \in Position /\ tail # head
        /\ 1 .. nextFree - 1 \subseteq Position /\ entries[tail].pred \in Position
    BY <1>1, CacheAssumption DEF Position, Linked
  <2> DEFINE S == SetSucc(entries, entries[tail].pred, Nil)
  <2>2. S \in [Position -> Entry] /\ \A q \in Position : S[q].key = entries[q].key
    BY <1>1, <2>1, SetSuccFields
  <2>3. entries' = Added(S, tail, k, head)
    BY Zenon
  <2> HIDE DEF S
  <2>4. \A q \in Position : Added(S, tail, k, head)[q].key = IF q = tail THEN k ELSE S[q].key
    BY <2>1, <2>2, AddedFields
  <2> QED
    BY <1>4, <2>1, <2>2, <2>3, <2>4, Zenon DEF Rekeyed
<1> HIDE DEF i
<1>6. /\ Order \in Seq(Key) /\ Len(Order) = nextFree - 1
      /\ Order' = <<k>> \o (SubSeq(Order, 1, i - 1) \o SubSeq(Order, i + 1, Len(Order)))
  BY <1>1, <1>3, <1>4, <1>5, FrontOrder, Zenon
<1>7. Len(Order) = i /\ Len(Order) \in Nat /\ Len(Order) = Capacity
  BY <1>4, <1>6 DEF i
<1>8. SubSeq(Order, 1, i - 1) \o SubSeq(Order, i + 1, Len(Order)) = SubSeq(Order, 1, Len(Order) - 1)
  <2>1. SubSeq(Order, i + 1, Len(Order)) = <<>>
    BY <1>4, <1>6, <1>7, CacheAssumption
  <2>2. SubSeq(Order, 1, i - 1) \in Seq(Key)
    BY <1>4, <1>6, <1>7, CacheAssumption
  <2>3. SubSeq(Order, 1, i - 1) \o <<>> = SubSeq(Order, 1, i - 1)
    BY <2>2
  <2> QED
    BY ONLY <1>7, <2>1, <2>3, Zenon
<1>9. k \notin Lru!Held
  BY NotHeld, Zenon
<1>10. ~(Len(Order) < Capacity)
  BY <1>7, CacheAssumption
<1>11. Order' = <<k>> \o SubSeq(Order, 1, Len(Order) - 1)
  BY ONLY <1>6, <1>8, Zenon
<1>12. Lru!Add(k)
  BY ONLY <1>9, <1>10, <1>11, Zenon DEF Lru!Add
<1> QED
  BY ONLY <1>3, <1>12, Zenon

LEMMA InsertOrder ==
  ASSUME IInv, TypeOK', NEW c, NEW d, Walk(entries, head, tail, nextFree, c, d),
         NEW t \in Thread, Insert(t), index[request[t]] = Nil
  PROVE  /\ \E f, e : Walk(entries', head', tail', nextFree', f, e)
         /\ Lru!Add(request[t])
<1>1. AddEntry(t, Free) /\ request[t] \in Key
  BY Zenon DEF Insert, IInv, TypeOK
<1>2. CASE full
  <2>1. Free = tail
    BY <1>2, Zenon DEF Free
  <2>2. /\ entries' = Added(SetSucc(entries, entries[tail].pred, Nil), tail, request[t], head)
        /\ head' = tail /\ tail' = entries[tail].pred /\ nextFree' = nextFree
    BY <1>1, <1>2, <2>1, Zenon DEF AddEntry, Added, SetSucc
  <2> QED
    BY <1>1, <1>2, <2>2, InsertFullOrder, Zenon
<1>3. CASE ~full
  <2>1. Free = nextFree
    BY <1>3, Zenon DEF Free
  <2>2. /\ entries' = Added(entries, nextFree, request[t], head)
        /\ head' = nextFree /\ tail' = tail /\ nextFree' = nextFree + 1
    BY <1>1, <1>3, <2>1, Zenon DEF AddEntry, Added
  <2> QED
    BY <1>1, <1>3, <2>2, InsertFreeOrder, Zenon
<1> QED
  BY <1>2, <1>3, Zenon

\* The entries up to nextFree form one list from head to tail.
Walked == \E c, d : Walk(entries, head, tail, nextFree, c, d)

\* What a step does to the order of use.
OrderStep ==
  /\ [Lru!Next]_Order
  /\ \A t \in Thread : pc[t] = "lookup" /\ pc'[t] = "hit" => Lru!Touch(request[t])

\* Only a lookup that finds its key leads a thread to "hit".
LEMMA OnlyLookupHits ==
  ASSUME IInv, NEW t \in Thread, NEW u \in Thread, pc[t] = "lookup", pc'[t] = "hit",
         \/ \E key \in Key : Call(u, key)
         \/ Lookup(u) \/ ReadHash(u) \/ Insert(u) \/ Fill(u)
  PROVE  u = t /\ Lookup(t) /\ index[request[t]] # Nil
<1>1. pc \in [Thread -> {"idle", "lookup", "hit", "compute", "fill"}]
  BY Zenon DEF IInv, TypeOK
<1>2. \/ pc' = [pc EXCEPT ![u] = "lookup"] \/ pc' = [pc EXCEPT ![u] = "idle"]
      \/ pc' = [pc EXCEPT ![u] = "compute"] \/ pc' = [pc EXCEPT ![u] = "fill"]
      \/ pc' = [pc EXCEPT ![u] = "hit"] /\ Lookup(u) /\ index[request[u]] # Nil
  BY Zenon DEF Call, Lookup, ReadHash, Insert, Fill
<1> QED
  BY <1>1, <1>2, Zenon

LEMMA KeepsOrder ==
  ASSUME IInv, TypeOK', Walked, UNCHANGED <<head, tail, nextFree>>,
         \A q \in 1 .. nextFree - 1 : /\ entries'[q].succ = entries[q].succ
                                      /\ entries'[q].key = entries[q].key
  PROVE  Walked' /\ Order' = Order
<1>1. PICK c, d : Walk(entries, head, tail, nextFree, c, d)
  BY Zenon DEF Walked
<1>2. Walk(entries', head', tail', nextFree', c, d) /\ Order' = Order
  BY <1>1, SameOrder, Zenon DEF IInv
<1> QED
  BY <1>2, Zenon DEF Walked

LEMMA ThreadOrder ==
  ASSUME IInv, IInv', Walked, NEW t \in Thread,
         \/ \E key \in Key : Call(t, key)
         \/ Lookup(t) \/ ReadHash(t) \/ Insert(t) \/ Fill(t)
  PROVE  /\ Walked' /\ [Lru!Next]_Order
         /\ Lookup(t) /\ index[request[t]] # Nil => Lru!Touch(request[t])
<1>1. TypeOK' /\ request[t] \in Key
  BY Zenon DEF IInv, TypeOK
<1>2. PICK c, d : Walk(entries, head, tail, nextFree, c, d)
  BY Zenon DEF Walked
<1>3. CASE Lookup(t) /\ index[request[t]] # Nil
  <2>1. (\E f, e : Walk(entries', head', tail', nextFree', f, e)) /\ Lru!Touch(request[t])
    BY <1>1, <1>2, <1>3, LookupOrder, Zenon
  <2>2. Lru!Next
    BY ONLY <1>1, <2>1, Zenon DEF Lru!Next
  <2> QED
    BY ONLY <2>1, <2>2, Zenon DEF Walked
<1>4. CASE Insert(t) /\ index[request[t]] = Nil
  <2>1. (\E f, e : Walk(entries', head', tail', nextFree', f, e)) /\ Lru!Add(request[t])
    BY <1>1, <1>2, <1>4, InsertOrder, Zenon
  <2>2. Lru!Next
    BY ONLY <1>1, <2>1, Zenon DEF Lru!Next
  <2>3. ~Lookup(t)
    BY <1>4, Zenon DEF Lookup, Insert
  <2> QED
    BY ONLY <2>1, <2>2, <2>3, Zenon DEF Walked
<1>5. CASE Fill(t)
  <2>1. UNCHANGED <<head, tail, nextFree>> /\ ~Lookup(t)
    BY <1>5, Zenon DEF Fill, Lookup
  <2>2. \A q \in 1 .. nextFree - 1 : /\ entries'[q].succ = entries[q].succ
                                     /\ entries'[q].key = entries[q].key
    <3>1. entries \in [Position -> Entry] /\ 1 .. nextFree - 1 \subseteq Position
      BY TypedKeys, Zenon DEF IInv, TypeOK
    <3>2. \A q \in Position : entries'[q].succ = entries[q].succ /\ entries'[q].key = entries[q].key
      BY <1>5, <3>1, Zenon DEF Fill, Entry
    <3> QED
      BY <3>1, <3>2, Zenon
  <2> QED
    BY <1>1, <2>1, <2>2, KeepsOrder, Zenon
<1>6. CASE UNCHANGED <<entries, head, tail, nextFree>> /\ ~(Lookup(t) /\ index[request[t]] # Nil)
  BY <1>1, <1>6, KeepsOrder, Zenon
<1> QED
  BY <1>3, <1>4, <1>5, <1>6, Zenon DEF Call, Lookup, ReadHash, Insert, list

\* EvictsLeastRecentlyUsed: the steps of all threads on the list, seen as the keys
\* along it, are those of an LRU cache, and a lookup that finds its key makes that
\* key the most recent one.
THEOREM LeastRecentlyUsedEvicted == Spec => EvictsLeastRecentlyUsed
<1>1. Init => Walked /\ Lru!Init
  BY InitOrder, Zenon DEF Walked
<1>2. IInv /\ IInv' /\ Walked /\ [Next]_vars => Walked' /\ OrderStep
  <2> SUFFICES ASSUME IInv, IInv', Walked, [Next]_vars PROVE Walked' /\ OrderStep
    BY Zenon
  <2>1. CASE UNCHANGED vars
    <3>1. Walked' /\ Order' = Order
      BY <2>1, KeepsOrder, Zenon DEF IInv, vars
    <3> QED
      BY <2>1, <3>1, Zenon DEF OrderStep, vars
  <2>2. CASE Next
    <3>1. PICK u \in Thread : \/ \E key \in Key : Call(u, key)
                              \/ Lookup(u) \/ ReadHash(u) \/ Insert(u) \/ Fill(u)
      BY <2>2, Zenon DEF Next
    <3>2. /\ Walked' /\ [Lru!Next]_Order
          /\ Lookup(u) /\ index[request[u]] # Nil => Lru!Touch(request[u])
      BY <3>1, ThreadOrder, Zenon
    <3>3. ASSUME NEW t \in Thread, pc[t] = "lookup", pc'[t] = "hit" PROVE Lru!Touch(request[t])
      BY <3>1, <3>2, <3>3, OnlyLookupHits, Zenon
    <3> QED
      BY <3>2, <3>3, Zenon DEF OrderStep
  <2> QED
    BY <2>1, <2>2, Zenon
<1>3. Spec => []IInv
  BY Inductive, Zenon
<1>4. Spec => [](IInv /\ Walked)
  BY <1>1, <1>2, <1>3, PTL DEF Spec
<1> QED
  BY <1>1, <1>2, <1>4, PTL DEF Spec, OrderStep, Lru!Spec, EvictsLeastRecentlyUsed
=============================================================================
