-------------------------- MODULE EvmzeroCacheProofs --------------------------
(***************************************************************************)
(* The cache of evmzero stays consistent, follows no bad pointer and gives *)
(* every caller its own value, for any number of threads, keys and entries.*)
(*                                                                         *)
(* The entries that were never used are the first m ones, linked as Clear  *)
(* left them, with entry m as the tail: the size of the index then tells   *)
(* whether the tail has a key to erase.                                    *)
(***************************************************************************)
EXTENDS EvmzeroCache, FiniteSetTheorems, TLAPS

\* The links of the entries, from h to tl.
Linked(E, h, tl) ==
  /\ h \in Position /\ tl \in Position /\ h # tl
  /\ \A p \in Position :
       /\ E[p].pred = Nil <=> p = h
       /\ E[p].succ \notin Position <=> p = tl
       /\ p # h => E[p].pred \in Position /\ E[E[p].pred].succ = p
       /\ p # tl => E[E[p].succ].pred = p

\* The first m entries were never used; the others and the keys lead to each other.
Filled(E, ix, tl, m) ==
  /\ \A p \in m + 1 .. Capacity : ix[E[p].key] = p
  /\ \A key \in Key : ix[key] # Nil =>
       /\ ix[key] \in m + 1 .. Capacity
       /\ E[ix[key]].key = key
       /\ E[ix[key]].value = Make(key)
  /\ m >= 1 => tl = m
  /\ \A p \in 2 .. m : E[p].pred = p - 1
  /\ m < Capacity => E[tl].succ = Nil

Consistent(E, ix, h, tl) ==
  /\ Linked(E, h, tl)
  /\ \E m \in 0 .. Capacity : Filled(E, ix, tl, m)

\* What a thread has made of its request.
Served ==
  \A t \in Thread :
    /\ pc[t] \in {"get", "make", "insert"} => request[t] \in Key
    /\ pc[t] \in {"idle", "insert"} => value[t] = Make(request[t])

IInv == TypeOK /\ Consistent(entries, index, head, tail) /\ Served

LEMMA NilIsNoPosition == Nil \notin Position /\ Beyond \notin Position
  BY CacheAssumption DEF Position, Nil, Beyond

LEMMA IInvImplies ==
  IInv => TypeOK /\ PointersAreSafe /\ CacheIsConsistent /\ ReturnsTheValue
<1> SUFFICES ASSUME IInv PROVE PointersAreSafe /\ CacheIsConsistent /\ ReturnsTheValue
  BY Zenon DEF IInv
<1>1. Linked(entries, head, tail)
  BY Zenon DEF IInv, Consistent
<1>2. PICK m \in 0 .. Capacity : Filled(entries, index, tail, m)
  BY Zenon DEF IInv, Consistent
<1>3. m + 1 .. Capacity \subseteq Position
  BY CacheAssumption DEF Position
<1>4. PointersAreSafe
  <2>1. entries[tail].pred \in Position
    BY <1>1, Zenon DEF Linked
  <2>2. ASSUME NEW key \in Held
        PROVE  /\ index[key] # head => entries[index[key]].pred \in Position
               /\ entries[index[key]].succ \in Position \cup {Nil}
    <3>1. index[key] \in m + 1 .. Capacity /\ index[key] \in Position
      BY <1>2, <1>3, Zenon DEF Held, Filled
    <3>2. m < Capacity
      BY <3>1, CacheAssumption
    <3> QED
      BY <1>1, <1>2, <3>1, <3>2, Zenon DEF Linked, Filled
  <2> QED
    BY <2>1, <2>2, Zenon DEF PointersAreSafe
<1>5. CacheIsConsistent
  BY <1>1, <1>2, Zenon DEF Linked, Filled, CacheIsConsistent, Held
<1>6. ReturnsTheValue
  BY Zenon DEF IInv, Served, ReturnsTheValue
<1> QED
  BY <1>4, <1>5, <1>6, Zenon

\* Before the cache is full the tail was never used, and the index is smaller than
\* the array of entries; from then on both have the same size.
LEMMA HeldSize ==
  ASSUME TypeOK, NEW m \in 0 .. Capacity, Filled(entries, index, tail, m)
  PROVE  Cardinality(Held) >= Capacity <=> m = 0
<1> DEFINE U == m + 1 .. Capacity
           f == [p \in U |-> entries[p].key]
<1>1. Capacity \in Nat /\ m \in Int /\ U \subseteq Position /\ Nil \notin U
  BY CacheAssumption DEF Position, Nil
<1>2. IsFiniteSet(U) /\ Cardinality(U) = Capacity - m
  <2>1. /\ m + 1 \in Int /\ Capacity \in Int
        /\ (IF m + 1 > Capacity THEN 0 ELSE Capacity - (m + 1) + 1) = Capacity - m
    BY <1>1
  <2> QED
    BY <2>1, FS_Interval, Zenon
<1>3. \A p \in U : entries[p].key \in Key
  <2>1. \A p \in U : entries[p] \in Entry
    BY <1>1, Zenon DEF TypeOK
  <2> QED
    BY <2>1, Zenon DEF Entry
<1>4. \A p \in U : index[entries[p].key] = p
  BY Zenon DEF Filled
<1>5. \A key \in Held : index[key] \in U /\ entries[index[key]].key = key
  BY Zenon DEF Filled, Held
<1>6. \A p \in U : entries[p].key \in Held
  BY <1>1, <1>3, <1>4, Zenon DEF Held
<1> HIDE DEF U
<1>7. f \in Bijection(U, Held)
  <2>1. f \in [U -> Held]
    BY <1>6, Zenon
  <2>2. \A p, q \in U : f[p] = f[q] => p = q
    BY <1>4, Zenon
  <2>3. \A key \in Held : \E p \in U : f[p] = key
    BY <1>5, Zenon
  <2> QED
    BY <2>1, <2>2, <2>3, Zenon DEF Bijection, Injection, Surjection, IsInjective
<1>8. ExistsBijection(U, Held)
  BY <1>7, Zenon DEF ExistsBijection
<1>9. Cardinality(Held) = Capacity - m
  BY <1>2, <1>8, FS_Bijection, Zenon
<1> QED
  BY <1>1, <1>9

-----------------------------------------------------------------------------
(* The entries after Touch and GetNewHead, field by field. *)

SetPred(E, p, v) == [E EXCEPT ![p].pred = v]
SetSucc(E, p, v) == [E EXCEPT ![p].succ = v]
SetKey(E, p, k) == [E EXCEPT ![p].key = k]
SetValue(E, p, v) == [E EXCEPT ![p].value = v]
Unlinked(E, p) ==
  IF E[p].succ = Nil THEN SetSucc(E, E[p].pred, E[p].succ)
  ELSE SetPred(SetSucc(E, E[p].pred, E[p].succ), E[p].succ, E[p].pred)
First(E, p, h) == SetPred(SetSucc(SetPred(E, p, Nil), p, h), h, p)

LEMMA SetPredFields ==
  ASSUME NEW E \in [Position -> Entry], NEW p \in Position, NEW v \in Pointer
  PROVE  /\ SetPred(E, p, v) \in [Position -> Entry]
         /\ \A q \in Position :
              /\ SetPred(E, p, v)[q].key = E[q].key /\ SetPred(E, p, v)[q].value = E[q].value
              /\ SetPred(E, p, v)[q].pred = IF q = p THEN v ELSE E[q].pred
              /\ SetPred(E, p, v)[q].succ = E[q].succ
  BY Zenon DEF SetPred, Entry

LEMMA SetSuccFields ==
  ASSUME NEW E \in [Position -> Entry], NEW p \in Position, NEW v \in Pointer
  PROVE  /\ SetSucc(E, p, v) \in [Position -> Entry]
         /\ \A q \in Position :
              /\ SetSucc(E, p, v)[q].key = E[q].key /\ SetSucc(E, p, v)[q].value = E[q].value
              /\ SetSucc(E, p, v)[q].pred = E[q].pred
              /\ SetSucc(E, p, v)[q].succ = IF q = p THEN v ELSE E[q].succ
  BY Zenon DEF SetSucc, Entry

LEMMA SetContentFields ==
  ASSUME NEW E \in [Position -> Entry], NEW p \in Position, NEW k \in Key, NEW v \in Value
  PROVE  LET F == SetValue(SetKey(E, p, k), p, v)
         IN  /\ F \in [Position -> Entry]
             /\ \A q \in Position :
                  /\ F[q].key = IF q = p THEN k ELSE E[q].key
                  /\ F[q].value = IF q = p THEN v ELSE E[q].value
                  /\ F[q].pred = E[q].pred /\ F[q].succ = E[q].succ
<1> DEFINE K == SetKey(E, p, k)
<1>1. /\ K \in [Position -> Entry]
      /\ \A q \in Position :
           /\ K[q].key = IF q = p THEN k ELSE E[q].key
           /\ K[q].value = E[q].value /\ K[q].pred = E[q].pred /\ K[q].succ = E[q].succ
  BY Zenon DEF SetKey, Entry
<1> HIDE DEF K
<1>2. /\ SetValue(K, p, v) \in [Position -> Entry]
      /\ \A q \in Position :
           /\ SetValue(K, p, v)[q].value = IF q = p THEN v ELSE K[q].value
           /\ SetValue(K, p, v)[q].key = K[q].key
           /\ SetValue(K, p, v)[q].pred = K[q].pred /\ SetValue(K, p, v)[q].succ = K[q].succ
  BY <1>1 DEF SetValue, Entry
<1> QED
  BY <1>1, <1>2, Zenon DEF K

LEMMA FirstFields ==
  ASSUME NEW E \in [Position -> Entry], NEW p \in Position, NEW h \in Position, p # h
  PROVE  /\ First(E, p, h) \in [Position -> Entry]
         /\ \A q \in Position :
              /\ First(E, p, h)[q].key = E[q].key /\ First(E, p, h)[q].value = E[q].value
              /\ First(E, p, h)[q].pred = IF q = p THEN Nil ELSE IF q = h THEN p ELSE E[q].pred
              /\ First(E, p, h)[q].succ = IF q = p THEN h ELSE E[q].succ
<1> DEFINE A == SetPred(E, p, Nil)
           B == SetSucc(A, p, h)
<1>1. Nil \in Pointer /\ h \in Pointer /\ p \in Pointer
  BY CacheAssumption DEF Position, Pointer, Nil
<1>2. /\ A \in [Position -> Entry]
      /\ \A q \in Position :
           /\ A[q].key = E[q].key /\ A[q].value = E[q].value
           /\ A[q].pred = IF q = p THEN Nil ELSE E[q].pred
           /\ A[q].succ = E[q].succ
  BY <1>1, SetPredFields
<1> HIDE DEF A
<1>a. A \in [Position -> Entry]
  BY <1>2, Zenon
<1>3. /\ B \in [Position -> Entry]
      /\ \A q \in Position :
           /\ B[q].key = A[q].key /\ B[q].value = A[q].value
           /\ B[q].pred = A[q].pred
           /\ B[q].succ = IF q = p THEN h ELSE A[q].succ
  BY ONLY <1>1, <1>a, p \in Position, SetSuccFields
<1> HIDE DEF B
<1>b. B \in [Position -> Entry]
  BY <1>3, Zenon
<1>4. /\ SetPred(B, h, p) \in [Position -> Entry]
      /\ \A q \in Position :
           /\ SetPred(B, h, p)[q].key = B[q].key /\ SetPred(B, h, p)[q].value = B[q].value
           /\ SetPred(B, h, p)[q].pred = IF q = h THEN p ELSE B[q].pred
           /\ SetPred(B, h, p)[q].succ = B[q].succ
  BY ONLY <1>1, <1>b, h \in Position, SetPredFields
<1>5. First(E, p, h) = SetPred(B, h, p)
  BY Zenon DEF First, A, B
<1> QED
  BY <1>2, <1>3, <1>4, <1>5

LEMMA UnlinkedFields ==
  ASSUME NEW E \in [Position -> Entry], NEW p \in Position, E[p].pred \in Position,
         E[p].succ \in Position \cup {Nil}
  PROVE  /\ Unlinked(E, p) \in [Position -> Entry]
         /\ \A q \in Position :
              /\ Unlinked(E, p)[q].key = E[q].key /\ Unlinked(E, p)[q].value = E[q].value
              /\ Unlinked(E, p)[q].pred = IF q = E[p].succ THEN E[p].pred ELSE E[q].pred
              /\ Unlinked(E, p)[q].succ = IF q = E[p].pred THEN E[p].succ ELSE E[q].succ
<1>1. E[p].succ \in Pointer /\ E[p].pred \in Pointer
  BY CacheAssumption DEF Position, Pointer, Nil
<1>3. CASE E[p].succ = Nil
  BY <1>1, <1>3, SetSuccFields, NilIsNoPosition DEF Unlinked
<1>4. CASE E[p].succ # Nil
  <2> DEFINE S == SetSucc(E, E[p].pred, E[p].succ)
  <2>1. /\ S \in [Position -> Entry]
        /\ \A q \in Position :
              /\ S[q].key = E[q].key /\ S[q].value = E[q].value
              /\ S[q].pred = E[q].pred
              /\ S[q].succ = IF q = E[p].pred THEN E[p].succ ELSE E[q].succ
    BY <1>1, SetSuccFields
  <2>2. Unlinked(E, p) = SetPred(S, E[p].succ, E[p].pred)
    BY <1>4, Zenon DEF Unlinked
  <2>3. E[p].succ \in Position
    BY <1>4, Zenon
  <2> HIDE DEF S
  <2>4. S \in [Position -> Entry] /\ E[p].pred \in Pointer
    BY <1>1, <2>1, Zenon
  <2>5. /\ SetPred(S, E[p].succ, E[p].pred) \in [Position -> Entry]
        /\ \A q \in Position :
              LET P == SetPred(S, E[p].succ, E[p].pred)
              IN  /\ P[q].key = S[q].key /\ P[q].value = S[q].value
                  /\ P[q].pred = IF q = E[p].succ THEN E[p].pred ELSE S[q].pred
                  /\ P[q].succ = S[q].succ
    BY ONLY <2>3, <2>4, SetPredFields
  <2> QED
    BY <2>1, <2>2, <2>5
<1> QED
  BY <1>3, <1>4, Zenon

\* Touch moves an entry of the index to the front.
LEMMA TouchedConsistent ==
  ASSUME NEW E \in [Position -> Entry], NEW ix \in [Key -> Position \cup {Nil}], NEW h, NEW tl,
         Consistent(E, ix, h, tl), NEW k \in Key, ix[k] # Nil, ix[k] # h
  PROVE  LET p == ix[k]
             M == First(Unlinked(E, p), p, h)
             last == IF E[p].succ = Nil THEN E[p].pred ELSE tl
         IN  /\ M \in [Position -> Entry]
             /\ E[p].pred \in Position
             /\ Consistent(M, ix, p, last)
<1> DEFINE p == ix[k]
           U == Unlinked(E, p)
           M == First(U, p, h)
           last == IF E[p].succ = Nil THEN E[p].pred ELSE tl
<1>1. PICK m \in 0 .. Capacity : Filled(E, ix, tl, m)
  BY Zenon DEF Consistent
<1>2. /\ Linked(E, h, tl) /\ h \in Position /\ tl \in Position /\ Nil \notin Position
  BY NilIsNoPosition, Zenon DEF Consistent, Linked
<1>3. /\ p \in m + 1 .. Capacity /\ p \in Position /\ p # h /\ m < Capacity
      /\ m + 1 .. Capacity \subseteq Position /\ m \in Nat /\ 2 .. m \subseteq Position
  BY <1>1, CacheAssumption DEF Filled, Position
<1>4. /\ E[p].pred \in Position /\ E[E[p].pred].succ = p /\ E[p].succ # h
      /\ E[p].succ \in Position \cup {Nil}
      /\ E[p].succ \in Position => E[E[p].succ].pred = p
      /\ E[p].succ = Nil <=> p = tl
  BY <1>1, <1>2, <1>3 DEF Linked, Filled
<1> HIDE DEF p
<1>5. /\ U \in [Position -> Entry]
      /\ \A q \in Position :
           /\ U[q].key = E[q].key /\ U[q].value = E[q].value
           /\ U[q].pred = IF q = E[p].succ THEN E[p].pred ELSE E[q].pred
           /\ U[q].succ = IF q = E[p].pred THEN E[p].succ ELSE E[q].succ
  BY <1>3, <1>4, UnlinkedFields
<1> HIDE DEF U
<1>6. /\ M \in [Position -> Entry]
      /\ \A q \in Position :
           /\ M[q].key = U[q].key /\ M[q].value = U[q].value
           /\ M[q].pred = IF q = p THEN Nil ELSE IF q = h THEN p ELSE U[q].pred
           /\ M[q].succ = IF q = p THEN h ELSE U[q].succ
  <2>1. U \in [Position -> Entry] /\ p \in Position /\ h \in Position /\ p # h
    BY <1>2, <1>3, <1>5, Zenon
  <2> QED
    BY ONLY <2>1, FirstFields
<1> HIDE DEF M
<1>7. \A q \in Position :
        /\ M[q].key = E[q].key /\ M[q].value = E[q].value
        /\ M[q].pred = IF q = p THEN Nil ELSE IF q = h THEN p
                       ELSE IF q = E[p].succ THEN E[p].pred ELSE E[q].pred
        /\ M[q].succ = IF q = p THEN h ELSE IF q = E[p].pred THEN E[p].succ ELSE E[q].succ
  BY <1>5, <1>6
<1>8. last \in Position /\ p # last
  <2>1. E[p].succ = Nil => E[p].pred # p
    BY <1>2, <1>3, <1>4, Zenon
  <2> QED
    BY <1>2, <1>4, <2>1, Zenon
<1>9. Linked(M, p, last)
  <2>1. ASSUME NEW q \in Position
        PROVE  /\ M[q].pred = Nil <=> q = p
               /\ q # p => M[q].pred \in Position /\ M[M[q].pred].succ = q
    <3>1. CASE q = p
      BY <1>3, <1>7, <3>1, Zenon
    <3>2. CASE q # p /\ q = h
      <4>1. M[q].pred = p /\ M[p].succ = h
        BY <1>3, <1>7, <3>2, Zenon
      <4> QED
        BY <1>2, <1>3, <3>2, <4>1, Zenon
    <3>3. CASE q # p /\ q # h /\ q = E[p].succ
      <4>1. M[q].pred = E[p].pred /\ E[p].pred # p
        BY <1>4, <1>7, <3>3, Zenon
      <4>2. M[E[p].pred].succ = E[p].succ
        BY <1>4, <1>7, <4>1, Zenon
      <4> QED
        BY <1>2, <1>4, <3>3, <4>1, <4>2, Zenon
    <3>4. CASE q # p /\ q # h /\ q # E[p].succ
      <4>1. M[q].pred = E[q].pred
        BY <1>7, <3>4, Zenon
      <4>2. E[q].pred \in Position /\ E[E[q].pred].succ = q
        BY <1>2, <3>4, Zenon DEF Linked
      <4>3. E[q].pred # p /\ E[q].pred # E[p].pred
        BY <1>4, <3>4, <4>2, Zenon
      <4>4. M[E[q].pred].succ = q
        BY <1>7, <4>2, <4>3, Zenon
      <4> QED
        BY <1>2, <3>4, <4>1, <4>2, <4>4, Zenon
    <3> QED
      BY <3>1, <3>2, <3>3, <3>4, Zenon
  <2>2. ASSUME NEW q \in Position
        PROVE  /\ M[q].succ \notin Position <=> q = last
               /\ q # last => M[M[q].succ].pred = q
    <3>1. CASE q = p
      BY <1>2, <1>3, <1>7, <1>8, <3>1, Zenon
    <3>2. CASE q # p /\ q = E[p].pred
      <4>1. M[q].succ = E[p].succ
        BY <1>7, <3>2, Zenon
      <4>2. CASE E[p].succ = Nil
        BY <1>2, <3>2, <4>1, <4>2, Zenon
      <4>3. CASE E[p].succ \in Position
        <5>1. E[p].succ # p /\ E[p].succ # h /\ E[p].succ # Nil
          BY <1>2, <1>4, <3>2, <4>3, Zenon
        <5>2. M[E[p].succ].pred = q
          BY <1>7, <3>2, <4>3, <5>1, Zenon
        <5>3. q # tl
          BY <1>2, <1>3, <1>4, <3>2 DEF Linked
        <5> QED
          BY <4>1, <4>3, <5>1, <5>2, <5>3, Zenon
      <4> QED
        BY <1>4, <4>2, <4>3, Zenon
    <3>3. CASE q # p /\ q # E[p].pred
      <4>1. M[q].succ = E[q].succ
        BY <1>7, <3>3, Zenon
      <4>2. /\ E[q].succ \notin Position <=> q = tl
            /\ q # tl => E[q].succ \in Position /\ E[E[q].succ].pred = q
        BY <1>2, Zenon DEF Linked
      <4>3. q = tl <=> q = last
        BY <1>2, <1>4, <3>3, Zenon
      <4>4. q # tl => E[q].succ # p /\ E[q].succ # h /\ E[q].succ # E[p].succ
        BY <1>2, <1>4, <3>3, <4>2 DEF Linked
      <4> QED
        BY <1>7, <4>1, <4>2, <4>3, <4>4
    <3> QED
      BY <3>1, <3>2, <3>3, Zenon
  <2> QED
    BY <1>3, <1>8, <2>1, <2>2, Zenon DEF Linked
<1>10. Filled(M, ix, last, m)
  <2>1. \A q \in m + 1 .. Capacity : ix[M[q].key] = q
    BY <1>1, <1>3, <1>7, Zenon DEF Filled
  <2>2. \A key \in Key : ix[key] # Nil =>
          ix[key] \in m + 1 .. Capacity /\ M[ix[key]].key = key /\ M[ix[key]].value = Make(key)
    BY <1>1, <1>3, <1>7 DEF Filled
  <2>3. m >= 1 => last = m
    <3>1. m >= 1 => tl = m /\ p # m
      BY <1>1, <1>3 DEF Filled
    <3> QED
      BY <1>4, <3>1, Zenon
  <2>4. ASSUME NEW q \in 2 .. m PROVE M[q].pred = q - 1
    <3>1. E[q].pred = q - 1 /\ q \in Position /\ q - 1 # Nil /\ q # p /\ q - 1 # p
      BY <1>1, <1>3 DEF Filled, Nil
    <3>2. q # h /\ q # E[p].succ
      BY <1>2, <1>4, <3>1 DEF Linked
    <3> QED
      BY <1>7, <3>1, <3>2, Zenon
  <2>5. M[last].succ = Nil
    <3>1. CASE p = tl
      BY <1>4, <1>7, <1>8, <3>1, Zenon
    <3>2. CASE p # tl
      <4>1. last = tl /\ E[tl].succ = Nil /\ E[p].pred # tl
        BY <1>1, <1>2, <1>3, <1>4, <3>2 DEF Filled
      <4> QED
        BY <1>2, <1>7, <3>2, <4>1, Zenon
    <3> QED
      BY <3>1, <3>2, Zenon
  <2> QED
    BY <2>1, <2>2, <2>3, <2>4, <2>5, Zenon DEF Filled
<1> QED
  BY <1>4, <1>6, <1>9, <1>10, Zenon DEF Consistent, p, M, U

\* GetNewHead: the tail moves to the front and takes up key k.
NewHead(E, h, tl, k) ==
  SetValue(SetKey(First(SetSucc(E, E[tl].pred, Nil), tl, h), tl, k), tl, Make(k))
NewIndex(E, ix, tl, k, erase) ==
  [(IF erase THEN [ix EXCEPT ![E[tl].key] = Nil] ELSE ix) EXCEPT ![k] = tl]

LEMMA NewHeadFields ==
  ASSUME NEW E \in [Position -> Entry], NEW h, NEW tl, Linked(E, h, tl), NEW k \in Key
  PROVE  LET F == NewHead(E, h, tl, k)
         IN  /\ F \in [Position -> Entry]
             /\ E[tl].pred \in Position
             /\ \A q \in Position :
                  /\ F[q].key = IF q = tl THEN k ELSE E[q].key
                  /\ F[q].value = IF q = tl THEN Make(k) ELSE E[q].value
                  /\ F[q].pred = IF q = tl THEN Nil ELSE IF q = h THEN tl ELSE E[q].pred
                  /\ F[q].succ = IF q = tl THEN h
                                 ELSE IF q = E[tl].pred THEN Nil ELSE E[q].succ
<1> DEFINE S == SetSucc(E, E[tl].pred, Nil)
           G == First(S, tl, h)
<1>1. E[tl].pred \in Position /\ Nil \in Pointer /\ Make(k) \in Value
  BY CacheAssumption DEF Linked, Pointer, Nil, Value, Content
<1>2. /\ S \in [Position -> Entry]
      /\ \A q \in Position :
           /\ S[q].key = E[q].key /\ S[q].value = E[q].value /\ S[q].pred = E[q].pred
           /\ S[q].succ = IF q = E[tl].pred THEN Nil ELSE E[q].succ
  BY <1>1, SetSuccFields
<1> HIDE DEF S
<1>3. S \in [Position -> Entry] /\ tl \in Position /\ h \in Position /\ tl # h
  BY <1>2, Zenon DEF Linked
<1>4. /\ G \in [Position -> Entry]
      /\ \A q \in Position :
           /\ G[q].key = S[q].key /\ G[q].value = S[q].value
           /\ G[q].pred = IF q = tl THEN Nil ELSE IF q = h THEN tl ELSE S[q].pred
           /\ G[q].succ = IF q = tl THEN h ELSE S[q].succ
  BY ONLY <1>3, FirstFields
<1> HIDE DEF G
<1>5. G \in [Position -> Entry] /\ tl \in Position /\ k \in Key /\ Make(k) \in Value
  BY <1>1, <1>3, <1>4, Zenon
<1> DEFINE F == SetValue(SetKey(G, tl, k), tl, Make(k))
<1>6. /\ F \in [Position -> Entry]
      /\ \A q \in Position :
           /\ F[q].key = IF q = tl THEN k ELSE G[q].key
           /\ F[q].value = IF q = tl THEN Make(k) ELSE G[q].value
           /\ F[q].pred = G[q].pred /\ F[q].succ = G[q].succ
  BY ONLY <1>5, SetContentFields
<1>7. NewHead(E, h, tl, k) = F
  BY Zenon DEF NewHead, G, S
<1> HIDE DEF F
<1> QED
  BY <1>1, <1>2, <1>4, <1>6, <1>7

LEMMA NewHeadLinked ==
  ASSUME NEW E \in [Position -> Entry], NEW h, NEW tl, Linked(E, h, tl), NEW k \in Key
  PROVE  Linked(NewHead(E, h, tl, k), tl, E[tl].pred)
<1> DEFINE F == NewHead(E, h, tl, k)
           last == E[tl].pred
<1>1. \A q \in Position :
        /\ F[q].pred = IF q = tl THEN Nil ELSE IF q = h THEN tl ELSE E[q].pred
        /\ F[q].succ = IF q = tl THEN h ELSE IF q = last THEN Nil ELSE E[q].succ
  BY NewHeadFields
<1>2. /\ h \in Position /\ tl \in Position /\ h # tl /\ Nil \notin Position
      /\ last \in Position /\ E[last].succ = tl /\ last # tl
      /\ \A q \in Position :
           /\ E[q].pred = Nil <=> q = h
           /\ E[q].succ \notin Position <=> q = tl
           /\ q # h => E[q].pred \in Position /\ E[E[q].pred].succ = q
           /\ q # tl => E[E[q].succ].pred = q
  BY NilIsNoPosition, Zenon DEF Linked
<1> HIDE DEF F, last
<1>3. ASSUME NEW q \in Position
      PROVE  /\ F[q].pred = Nil <=> q = tl
             /\ q # tl => F[q].pred \in Position /\ F[F[q].pred].succ = q
  <2>1. CASE q = tl
    BY <1>1, <2>1, Zenon
  <2>2. CASE q = h
    BY <1>1, <1>2, <2>2
  <2>3. CASE q # tl /\ q # h
    <3>1. F[q].pred = E[q].pred /\ E[q].pred \in Position /\ E[E[q].pred].succ = q
      BY <1>1, <1>2, <2>3, Zenon
    <3>2. E[q].pred # tl /\ E[q].pred # last
      BY <1>2, <2>3, <3>1
    <3> QED
      BY <1>1, <1>2, <2>3, <3>1, <3>2
  <2> QED
    BY <2>1, <2>2, <2>3, Zenon
<1>4. ASSUME NEW q \in Position
      PROVE  /\ F[q].succ \notin Position <=> q = last
             /\ q # last => F[F[q].succ].pred = q
  <2>1. CASE q = tl
    BY <1>1, <1>2, <2>1
  <2>2. CASE q = last
    BY <1>1, <1>2, <2>2
  <2>3. CASE q # tl /\ q # last
    <3>1. F[q].succ = E[q].succ /\ E[q].succ \in Position /\ E[E[q].succ].pred = q
      BY <1>1, <1>2, <2>3, Zenon
    <3>2. E[q].succ # tl /\ E[q].succ # h
      BY <1>2, <2>3, <3>1 DEF last
    <3> QED
      BY <1>1, <2>3, <3>1, <3>2, Zenon
  <2> QED
    BY <2>1, <2>2, <2>3, Zenon
<1> QED
  BY <1>2, <1>3, <1>4, Zenon DEF Linked, F, last

LEMMA NewHeadFilled ==
  ASSUME NEW E \in [Position -> Entry], NEW ix \in [Key -> Position \cup {Nil}], NEW h, NEW tl,
         Linked(E, h, tl), NEW m \in 0 .. Capacity, Filled(E, ix, tl, m),
         NEW k \in Key, ix[k] = Nil, NEW erase \in BOOLEAN, erase <=> m = 0
  PROVE  /\ NewIndex(E, ix, tl, k, erase) \in [Key -> Position \cup {Nil}]
         /\ Filled(NewHead(E, h, tl, k), NewIndex(E, ix, tl, k, erase), E[tl].pred,
                   IF m = 0 THEN 0 ELSE m - 1)
<1> DEFINE F == NewHead(E, h, tl, k)
           jx == NewIndex(E, ix, tl, k, erase)
           last == E[tl].pred
           n == IF m = 0 THEN 0 ELSE m - 1
<1>1. /\ last \in Position
      /\ \A q \in Position :
           /\ F[q].key = IF q = tl THEN k ELSE E[q].key
           /\ F[q].value = IF q = tl THEN Make(k) ELSE E[q].value
           /\ F[q].pred = IF q = tl THEN Nil ELSE IF q = h THEN tl ELSE E[q].pred
           /\ F[q].succ = IF q = tl THEN h ELSE IF q = last THEN Nil ELSE E[q].succ
  BY NewHeadFields
<1>2. /\ h \in Position /\ tl \in Position /\ h # tl /\ Nil \notin Position /\ last # tl
      /\ E[h].pred = Nil
  BY NilIsNoPosition, Zenon DEF Linked
<1>3. /\ m \in Nat /\ n \in 0 .. Capacity /\ m + 1 .. Capacity \subseteq Position
      /\ n + 1 .. Capacity = (m + 1 .. Capacity) \cup {tl}
      /\ m >= 1 => tl = m
  BY <1>2, CacheAssumption DEF Filled, Position
<1>4. E[tl].key \in Key /\ \A q \in m + 1 .. Capacity : E[q].key \in Key /\ E[q].key # k
  <2>1. E[tl] \in Entry /\ \A q \in m + 1 .. Capacity : E[q] \in Entry
    BY <1>2, <1>3, Zenon
  <2>2. \A q \in m + 1 .. Capacity : ix[E[q].key] = q /\ q # Nil
    BY <1>2, <1>3 DEF Filled
  <2> QED
    BY <2>1, <2>2, Zenon DEF Entry
<1>5. /\ jx \in [Key -> Position \cup {Nil}]
      /\ \A key \in Key :
           jx[key] = IF key = k THEN tl ELSE IF m = 0 /\ key = E[tl].key THEN Nil ELSE ix[key]
  BY <1>2, <1>4, Zenon DEF NewIndex
<1>6. m = 0 => ix[E[tl].key] = tl
  BY <1>2, CacheAssumption DEF Filled, Position
<1> HIDE DEF F, jx, last, n
<1>7. \A q \in n + 1 .. Capacity : jx[F[q].key] = q
  <2> TAKE q \in n + 1 .. Capacity
  <2>1. CASE q = tl
    BY <1>1, <1>2, <1>5, <2>1, Zenon
  <2>2. CASE q # tl
    <3>1. q \in m + 1 .. Capacity /\ q \in Position /\ ix[E[q].key] = q
      BY <1>3, <2>2, Zenon DEF Filled
    <3>2. m = 0 => E[q].key # E[tl].key
      BY <1>6, <2>2, <3>1, Zenon
    <3> QED
      BY <1>1, <1>4, <1>5, <2>2, <3>1, <3>2, Zenon
  <2> QED
    BY <2>1, <2>2, Zenon
<1>8. \A key \in Key : jx[key] # Nil =>
        jx[key] \in n + 1 .. Capacity /\ F[jx[key]].key = key /\ F[jx[key]].value = Make(key)
  <2> SUFFICES ASSUME NEW key \in Key, jx[key] # Nil
               PROVE  /\ jx[key] \in n + 1 .. Capacity
                      /\ F[jx[key]].key = key /\ F[jx[key]].value = Make(key)
    BY Zenon
  <2>1. CASE key = k
    BY <1>1, <1>2, <1>3, <1>5, <2>1, Zenon
  <2>2. CASE key # k
    <3>1. /\ jx[key] = ix[key] /\ ix[key] \in m + 1 .. Capacity /\ ix[key] \in Position
          /\ E[ix[key]].key = key /\ E[ix[key]].value = Make(key)
      BY <1>3, <1>5, <2>2, Zenon DEF Filled
    <3>2. ix[key] # tl
      <4>1. CASE m = 0
        BY <1>5, <2>2, <3>1, <4>1, Zenon
      <4>2. CASE m # 0
        BY <1>3, <3>1, <4>2
      <4> QED
        BY <4>1, <4>2, Zenon
    <3> QED
      BY <1>1, <1>3, <3>1, <3>2, Zenon
  <2> QED
    BY <2>1, <2>2, Zenon
<1>9. n >= 1 => last = n
  BY <1>3 DEF Filled, n, last
<1>10. ASSUME NEW q \in 2 .. n PROVE F[q].pred = q - 1
  <2>1. q \in 2 .. m /\ q \in Position /\ q # tl /\ q - 1 # Nil
    BY <1>3, CacheAssumption DEF n, Position, Nil
  <2>2. E[q].pred = q - 1
    BY <2>1, Zenon DEF Filled
  <2> QED
    BY <1>1, <1>2, <2>1, <2>2, Zenon
<1>11. F[last].succ = Nil
  BY <1>1, <1>2, Zenon
<1> QED
  BY <1>5, <1>7, <1>8, <1>9, <1>10, <1>11, Zenon DEF Filled, F, jx, last, n

-----------------------------------------------------------------------------
(* Clear and the steps of the threads. *)

LEMMA ClearedConsistent ==
  /\ Empty \in [Position -> Entry]
  /\ [key \in Key |-> Nil] \in [Key -> Position \cup {Nil}]
  /\ 1 \in Position /\ Capacity \in Position
  /\ Consistent(Empty, [key \in Key |-> Nil], 1, Capacity)
<1> USE CacheAssumption
<1>1. 1 \in Position /\ Capacity \in Position /\ 1 # Capacity
  BY DEF Position
<1>2. NoValue \in Value
  BY Zenon DEF Value
<1>3. ASSUME NEW p \in Position
      PROVE  /\ p - 1 \in Pointer /\ p + 1 \in Pointer
             /\ p - 1 = Nil <=> p = 1
             /\ p + 1 \notin Position <=> p = Capacity
             /\ p # 1 => p - 1 \in Position /\ (p - 1) + 1 = p
             /\ p # Capacity => (p + 1) - 1 = p
  BY DEF Position, Pointer, Nil
<1>4. Empty \in [Position -> Entry]
  BY <1>2, <1>3, Zenon DEF Empty, Entry
<1>5. \A p \in Position : Empty[p].pred = p - 1 /\ Empty[p].succ = p + 1
  BY Zenon DEF Empty
<1>6. Linked(Empty, 1, Capacity)
  <2>1. ASSUME NEW p \in Position
        PROVE  /\ p # 1 => Empty[p].pred \in Position /\ Empty[Empty[p].pred].succ = p
               /\ p # Capacity => Empty[Empty[p].succ].pred = p
    <3>1. p # 1 => Empty[p].pred = p - 1 /\ p - 1 \in Position /\ Empty[p - 1].succ = p
      BY <1>3, <1>5, Zenon
    <3>2. p # Capacity => Empty[p].succ = p + 1 /\ p + 1 \in Position /\ Empty[p + 1].pred = p
      BY <1>3, <1>5, Zenon
    <3> QED
      BY <3>1, <3>2, Zenon
  <2>2. ASSUME NEW p \in Position
        PROVE  /\ Empty[p].pred = Nil <=> p = 1
               /\ Empty[p].succ \notin Position <=> p = Capacity
    BY <1>3, <1>5
  <2> QED
    BY ONLY <1>1, <2>1, <2>2, Zenon DEF Linked
<1>7. Filled(Empty, [key \in Key |-> Nil], Capacity, Capacity)
  <2>1. Capacity + 1 .. Capacity = {} /\ 2 .. Capacity \subseteq Position
    BY DEF Position
  <2> QED
    BY <1>5, <2>1 DEF Filled
<1>8. Capacity \in 0 .. Capacity
  OBVIOUS
<1> QED
  BY <1>1, <1>4, <1>6, <1>7, <1>8, Zenon DEF Consistent

LEMMA InitEstablishes == Init => IInv
<1> SUFFICES ASSUME Init PROVE IInv
  BY Zenon
<1>1. ZeroKey \in Content /\ Make(ZeroKey) \in Value
  BY CacheAssumption, Zenon DEF Content, Value
<1>2. TypeOK
  BY <1>1, ClearedConsistent, Zenon DEF Init, TypeOK
<1>3. Consistent(entries, index, head, tail)
  BY ClearedConsistent, Zenon DEF Init
<1>4. Served
  BY CacheAssumption, Zenon DEF Init, Served
<1> QED
  BY <1>2, <1>3, <1>4, Zenon DEF IInv

LEMMA ClearKeeps == ASSUME IInv, Clear PROVE IInv'
<1>1. TypeOK'
  BY ClearedConsistent, Zenon DEF IInv, TypeOK, Clear
<1>2. Consistent(entries, index, head, tail)'
  BY ClearedConsistent, Zenon DEF Clear
<1>3. Served'
  BY Zenon DEF IInv, Served, Clear
<1> QED
  BY <1>1, <1>2, <1>3, Zenon DEF IInv

\* Steps that leave the cache alone.
LEMMA ThreadStepKeeps ==
  ASSUME IInv, TypeOK', UNCHANGED list, Served'
  PROVE  IInv'
  BY Zenon DEF IInv, Consistent, Linked, Filled, list

LEMMA CallKeeps == ASSUME IInv, NEW t \in Thread, NEW c \in Content, Call(t, c) PROVE IInv'
<1>1. NoValue \in Value
  BY Zenon DEF Value
<1>2. TypeOK'
  BY <1>1, Zenon DEF IInv, TypeOK, Call, list
<1>3. Served'
  BY Zenon DEF IInv, TypeOK, Served, Call
<1> QED
  BY <1>2, <1>3, ThreadStepKeeps, Zenon DEF Call

LEMMA BypassKeeps == ASSUME IInv, NEW t \in Thread, Bypass(t) PROVE IInv'
<1>1. Make(request[t]) \in Value
  BY Zenon DEF IInv, TypeOK, Value
<1>2. TypeOK'
  BY <1>1, Zenon DEF IInv, TypeOK, Bypass, list
<1>3. Served'
  BY Zenon DEF IInv, TypeOK, Served, Bypass
<1> QED
  BY <1>2, <1>3, ThreadStepKeeps, Zenon DEF Bypass

LEMMA MakeValueKeeps == ASSUME IInv, NEW t \in Thread, MakeValue(t) PROVE IInv'
<1>1. Make(request[t]) \in Value
  BY DEF IInv, TypeOK, Value
<1>2. TypeOK'
  BY <1>1, Zenon DEF IInv, TypeOK, MakeValue, list
<1>3. Served'
  BY Zenon DEF IInv, TypeOK, Served, MakeValue
<1> QED
  BY <1>2, <1>3, ThreadStepKeeps, Zenon DEF MakeValue

LEMMA GetKeeps == ASSUME IInv, NEW t \in Thread, Get(t) PROVE IInv'
<1> DEFINE k == request[t]
           p == index[k]
<1>1. /\ pc[t] = "get" /\ k \in Key /\ RequestKey(t) = k /\ p \in Position \cup {Nil}
      /\ UNCHANGED <<index, request>>
  BY Zenon DEF IInv, TypeOK, Served, Get, RequestKey
<1>2. CASE p = Nil
  <2>1. pc' = [pc EXCEPT ![t] = "make"] /\ UNCHANGED <<entries, head, tail, value>>
    BY <1>1, <1>2, Zenon DEF Get
  <2>2. TypeOK'
    BY <1>1, <2>1, Zenon DEF IInv, TypeOK
  <2>3. Served'
    BY <1>1, <2>1, Zenon DEF IInv, TypeOK, Served
  <2> QED
    BY <1>1, <2>1, <2>2, <2>3, ThreadStepKeeps, Zenon DEF list
<1>3. CASE p # Nil
  <2>1. /\ Touch(p) /\ value' = [value EXCEPT ![t] = entries[p].value]
        /\ pc' = [pc EXCEPT ![t] = "idle"]
    BY <1>1, <1>3, Zenon DEF Get
  <2>2. entries[p].value = Make(k) /\ Make(k) \in Value
    BY <1>1, <1>3, Zenon DEF IInv, Consistent, Filled, Value, Content
  <2>3. /\ pc' \in [Thread -> {"idle", "bypass", "get", "make", "insert"}]
        /\ value' \in [Thread -> Value]
    BY <2>1, <2>2, Zenon DEF IInv, TypeOK
  <2>4. Served'
    BY <1>1, <2>1, <2>2, Zenon DEF IInv, TypeOK, Served
  <2>5. CASE p = head
    <3>1. UNCHANGED list
      BY <1>1, <2>1, <2>5, Zenon DEF Touch, list
    <3>2. TypeOK'
      BY <1>1, <2>3, <3>1, Zenon DEF IInv, TypeOK, list
    <3> QED
      BY <2>4, <3>1, <3>2, ThreadStepKeeps, Zenon
  <2>6. CASE p # head
    <3> DEFINE M == First(Unlinked(entries, p), p, head)
               last == IF entries[p].succ = Nil THEN entries[p].pred ELSE tail
    <3>1. entries' = M /\ head' = p /\ tail' = last
      BY <2>1, <2>6, Zenon DEF Touch, LinkFirst, First, Unlinked, SetPred, SetSucc
    <3>2. /\ entries \in [Position -> Entry] /\ index \in [Key -> Position \cup {Nil}]
          /\ Consistent(entries, index, head, tail) /\ tail \in Position
      BY Zenon DEF IInv, TypeOK
    <3>3. M \in [Position -> Entry] /\ entries[p].pred \in Position /\ Consistent(M, index, p, last)
      BY <1>1, <1>3, <2>6, <3>2, TouchedConsistent, Zenon
    <3> HIDE DEF M
    <3>4. TypeOK'
      BY <1>1, <1>3, <2>3, <3>1, <3>2, <3>3, Zenon DEF IInv, TypeOK
    <3>5. Consistent(entries, index, head, tail)'
      BY <1>1, <3>1, <3>3, Zenon
    <3> QED
      BY <2>4, <3>4, <3>5, Zenon DEF IInv
  <2> QED
    BY <2>5, <2>6, Zenon
<1> QED
  BY <1>2, <1>3, Zenon

LEMMA InsertOrAssignKeeps == ASSUME IInv, NEW t \in Thread, InsertOrAssign(t) PROVE IInv'
<1> DEFINE k == request[t]
           p == index[k]
<1>1. /\ pc[t] = "insert" /\ k \in Key /\ RequestKey(t) = k /\ p \in Position \cup {Nil}
      /\ value[t] = Make(k) /\ Make(k) \in Value
      /\ pc' = [pc EXCEPT ![t] = "idle"] /\ UNCHANGED <<request, value>>
  BY Zenon DEF IInv, TypeOK, Served, InsertOrAssign, RequestKey
<1>2. /\ Served'
      /\ pc' \in [Thread -> {"idle", "bypass", "get", "make", "insert"}]
  BY <1>1, Zenon DEF IInv, TypeOK, Served
<1>3. /\ entries \in [Position -> Entry] /\ index \in [Key -> Position \cup {Nil}]
      /\ Linked(entries, head, tail)
  BY Zenon DEF IInv, TypeOK, Consistent
<1>4. PICK m \in 0 .. Capacity : Filled(entries, index, tail, m)
  BY Zenon DEF IInv, Consistent
<1>5. CASE p # Nil
  <2>1. /\ entries' = [entries EXCEPT ![p].value = Make(k)] /\ UNCHANGED <<index, head, tail>>
    BY <1>1, <1>5, Zenon DEF InsertOrAssign
  <2>2. p \in Position /\ entries[p].value = Make(k)
    BY <1>1, <1>4, <1>5, Zenon DEF Filled
  <2>3. entries' = entries
    BY <1>3, <2>1, <2>2, Zenon DEF Entry
  <2>4. TypeOK'
    BY <1>1, <1>2, <2>1, <2>3, Zenon DEF IInv, TypeOK
  <2> QED
    BY <1>2, <2>1, <2>3, <2>4, ThreadStepKeeps, Zenon DEF list
<1>6. CASE p = Nil
  <2> DEFINE erase == Cardinality(Held) >= Capacity
             F == NewHead(entries, head, tail, k)
             jx == NewIndex(entries, index, tail, k, erase)
  <2>1. /\ entries' = F /\ index' = jx /\ head' = tail /\ tail' = entries[tail].pred
    BY <1>1, <1>6, Zenon DEF InsertOrAssign, GetNewHead, LinkFirst, NewHead, NewIndex, First,
                      SetPred, SetSucc, SetKey, SetValue
  <2>2. erase \in BOOLEAN /\ (erase <=> m = 0)
    BY <1>4, HeldSize DEF IInv
  <2> HIDE DEF erase
  <2>3. F \in [Position -> Entry] /\ entries[tail].pred \in Position
    BY <1>1, <1>3, NewHeadFields, Zenon
  <2>4. Linked(F, tail, entries[tail].pred)
    BY <1>1, <1>3, NewHeadLinked, Zenon
  <2>5. /\ jx \in [Key -> Position \cup {Nil}]
        /\ Filled(F, jx, entries[tail].pred, IF m = 0 THEN 0 ELSE m - 1)
    BY <1>1, <1>3, <1>4, <1>6, <2>2, NewHeadFilled, Zenon
  <2>6. (IF m = 0 THEN 0 ELSE m - 1) \in 0 .. Capacity
    BY CacheAssumption
  <2> HIDE DEF F, jx
  <2>7. Consistent(entries, index, head, tail)'
    BY <2>1, <2>4, <2>5, <2>6, Zenon DEF Consistent
  <2>8. TypeOK'
    BY <1>1, <1>2, <1>3, <2>1, <2>3, <2>5, Zenon DEF IInv, TypeOK
  <2> QED
    BY <1>2, <2>7, <2>8, Zenon DEF IInv
<1> QED
  BY <1>5, <1>6, Zenon

LEMMA Inductive == Spec => []IInv
<1>1. IInv /\ [Next]_vars => IInv'
  <2> SUFFICES ASSUME IInv, [Next]_vars PROVE IInv'
    BY Zenon
  <2>1. CASE UNCHANGED vars
    <3>1. TypeOK' /\ Served'
      BY <2>1, Zenon DEF IInv, TypeOK, Served, vars
    <3> QED
      BY <2>1, <3>1, ThreadStepKeeps, Zenon DEF vars, list
  <2> QED
    BY <2>1, ClearKeeps, CallKeeps, BypassKeeps, GetKeeps, MakeValueKeeps, InsertOrAssignKeeps, Zenon
    DEF Next
<1> QED
  BY <1>1, InitEstablishes, PTL DEF Spec

\* Entries, index and threads of LruCache stay in range, whatever its capacity.
THEOREM TypeCorrect == Spec => []TypeOK
  BY Inductive, IInvImplies, PTL

\* Touch and GetNewHead follow the pointers of entries without a check, and the
\* last entry's successor is not null after Clear: no operation ever follows a
\* pointer that does not lead to an entry.
THEOREM PointersStaySafe == Spec => []PointersAreSafe
  BY Inductive, IInvImplies, PTL

\* Index and list of LruCache stay consistent, however many threads look up,
\* insert, assign and clear.
THEOREM CacheStaysConsistent == Spec => []CacheIsConsistent
  BY Inductive, IInvImplies, PTL

\* GetOrInsert returns what was made for the content it was asked about, although
\* it gives up the mutex between looking up and inserting.
THEOREM CallersGetTheirValue == Spec => []ReturnsTheValue
  BY Inductive, IInvImplies, PTL
=============================================================================
