-------------------------- MODULE GethAdapterProofs --------------------------
(***************************************************************************)
(* For any accounts, gas and call depth: the read-only flag in the gas of  *)
(* a call protects the state during static calls, no call returns more gas *)
(* than it was given, and no gas is lost on the way through geth.  When    *)
(* the gas limit keeps the refund below the shift, the shifted counter of  *)
(* the StateDB and those of the interpreters together implement the        *)
(* journalled counter of RefundJournal.                                    *)
(***************************************************************************)
EXTENDS GethAdapter, CollectionLemmas, TLAPS

\* The provers of a step that names none.
USE SMTT(20), Zenon

\* What TypeOK says of the frames, and the gas along the stack: what a caller
\* keeps and what it gave away are together no more than what it was given.
Funded(fs, db) ==
  /\ \A i \in 1 .. Len(fs) :
       /\ fs[i].snapshot \in DOMAIN db.snapshots
       /\ fs[i].gas <= fs[i].given
       /\ fs[i].given <= GasLimit
  /\ \A i \in 1 .. Len(fs) - 1 : fs[i].gas + fs[i + 1].given <= fs[i].given

\* A frame that runs because of a static call is read-only, and in a read-only
\* frame the world is as it was when the frame was entered.
Sealed(fs, db, w) ==
  \A i \in 1 .. Len(fs) :
    /\ fs[i].kind = "StaticCall" => fs[i].readOnly
    /\ fs[i].readOnly => w = db.snapshots[fs[i].snapshot].world
    /\ \A j \in 1 .. Len(fs) : i <= j /\ fs[i].readOnly => fs[j].readOnly

Shape ==
  /\ revision \in Revision
  /\ original \in Storage
  /\ world \in World
  /\ stateDB \in StateDB
  /\ frames \in Seq(Frame)
  /\ spent \in Nat
  /\ receipt \in Receipt \cup {Running}

IInv == Shape /\ Funded(frames, stateDB) /\ Sealed(frames, stateDB, world)

LEMMA IInvImplies == IInv => TypeOK /\ StaticCallsAreProtected
BY DEF IInv, Shape, Funded, Sealed, TypeOK, StaticCallsAreProtected

\* What the StateDB does to its counter and its snapshots.
LEMMA RefundType ==
  ASSUME NEW db \in StateDB, NEW amount \in Int
  PROVE  /\ AddRefund(db, amount) \in StateDB
         /\ SubRefund(db, amount) \in StateDB
         /\ AddRefund(db, amount).snapshots = db.snapshots
         /\ SubRefund(db, amount).snapshots = db.snapshots
<1>1. refundLimit \in Nat \ {0} /\ db.refund \in Int
  BY EncodingAssumption DEF StateDB
<1>2. (db.refund + amount) % refundLimit \in 0 .. refundLimit - 1
  BY <1>1
<1>3. (db.refund - amount) % refundLimit \in 0 .. refundLimit - 1
  BY <1>1
<1> QED
  BY <1>2, <1>3, Zenon DEF StateDB, AddRefund, SubRefund

LEMMA SnapshotType ==
  ASSUME NEW db \in StateDB, world \in World
  PROVE  /\ Snapshot(db) \in StateDB
         /\ Len(db.snapshots) \in Nat
         /\ Len(Snapshot(db).snapshots) = Len(db.snapshots) + 1
         /\ DOMAIN db.snapshots = 1 .. Len(db.snapshots)
         /\ DOMAIN Snapshot(db).snapshots = 1 .. Len(db.snapshots) + 1
         /\ Snapshot(db).snapshots[Len(db.snapshots) + 1].world = world
         /\ \A k \in DOMAIN db.snapshots : Snapshot(db).snapshots[k] = db.snapshots[k]
<1> DEFINE Kept == [world : World, refund : 0 .. refundLimit - 1]
           x == [world |-> world, refund |-> db.refund]
<1>1. db.snapshots \in Seq(Kept) /\ x \in Kept
  BY Zenon DEF StateDB
<1>2. Snapshot(db) = [db EXCEPT !.snapshots = Append(db.snapshots, x)]
  BY Zenon DEF Snapshot
<1>3. Snapshot(db).snapshots = Append(db.snapshots, x)
  BY <1>2, Zenon DEF StateDB
<1>4. Append(db.snapshots, x) \in Seq(Kept)
  BY <1>1
<1>5. Snapshot(db) \in StateDB
  BY <1>2, <1>4, Zenon DEF StateDB
<1>6. x.world = world
  BY Zenon
<1> HIDE DEF Kept, x
<1>7. /\ Len(db.snapshots) \in Nat
      /\ DOMAIN db.snapshots = 1 .. Len(db.snapshots)
      /\ Len(Append(db.snapshots, x)) = Len(db.snapshots) + 1
      /\ DOMAIN Append(db.snapshots, x) = 1 .. Len(db.snapshots) + 1
      /\ Append(db.snapshots, x)[Len(db.snapshots) + 1] = x
      /\ \A k \in 1 .. Len(db.snapshots) : Append(db.snapshots, x)[k] = db.snapshots[k]
  BY <1>1, PushProperties
<1> QED
  BY <1>3, <1>5, <1>6, <1>7, Zenon

LEMMA RevertType ==
  ASSUME NEW db \in StateDB, NEW k \in DOMAIN db.snapshots
  PROVE  /\ RevertToSnapshot(db, k) \in StateDB
         /\ RevertToSnapshot(db, k).snapshots = db.snapshots
         /\ db.snapshots[k].world \in World
<1> DEFINE Kept == [world : World, refund : 0 .. refundLimit - 1]
<1>1. db.snapshots[k] \in Kept
  <2>1. db.snapshots \in Seq(Kept)
    BY Zenon DEF StateDB
  <2> HIDE DEF Kept
  <2> QED
    BY <2>1
<1> QED
  BY <1>1, Zenon DEF StateDB, RevertToSnapshot

LEMMA UndoType ==
  ASSUME NEW db \in StateDB, NEW failed \in BOOLEAN
  PROVE  /\ undoRefundShift(db, failed) \in StateDB
         /\ undoRefundShift(db, failed).snapshots = db.snapshots
<1>1. db.refund \in Int /\ refundShift \in Int
  BY EncodingAssumption DEF StateDB
<1>2. Min({refundShift, db.refund}) \in {refundShift, db.refund}
  <2>1. \E x \in {refundShift, db.refund} : \A y \in {refundShift, db.refund} : x =< y
    BY <1>1
  <2> QED
    BY <2>1, Zenon DEF Min
<1>3. Min({refundShift, db.refund}) \in Int
  BY <1>1, <1>2, Zenon
<1> QED
  BY <1>1, <1>3, RefundType, Zenon DEF undoRefundShift

\* The safeguard: nothing negative, nothing above what was given.
LEMMA GasLeftBound ==
  ASSUME NEW returnGas \in Nat, NEW given \in Nat
  PROVE  gasLeft(returnGas, given) \in 0 .. given
<1>1. Signed(returnGas) \in Int
  BY EncodingAssumption DEF Signed
<1> DEFINE a == Signed(returnGas)
           b == Min({a, given})
<1>2. b \in {a, given} /\ b <= a /\ b <= given
  <2> HIDE DEF a
  <2>1. \E x \in {a, given} : \A y \in {a, given} : x =< y
    BY <1>1 DEF a
  <2>2. b \in {a, given} /\ \A y \in {a, given} : b =< y
    BY <2>1, Zenon DEF Min
  <2> QED
    BY <2>2, Zenon
<1>3. b \in Int
  BY <1>1, <1>2
<1>4. Max({0, b}) \in {0, b} /\ Max({0, b}) >= 0
  <2> HIDE DEF b
  <2>1. \E x \in {0, b} : \A y \in {0, b} : x >= y
    BY <1>3
  <2>2. Max({0, b}) \in {0, b} /\ \A y \in {0, b} : Max({0, b}) >= y
    BY <2>1, Zenon DEF Max
  <2> QED
    BY <2>2, Zenon
<1>5. gasLeft(returnGas, given) = Max({0, b})
  BY Zenon DEF gasLeft
<1> QED
  <2> HIDE DEF b
  <2> QED
    BY <1>2, <1>3, <1>4, <1>5

\* Entering a call keeps the invariant, if the new frame gets the gas that was
\* given, not more than the caller has, and is read-only when the caller is.
LEMMA EnterKeeps ==
  ASSUME IInv,
         NEW callers \in Seq(Frame), Funded(callers, stateDB), Sealed(callers, stateDB, world),
         NEW kind \in Kind, NEW address \in Contract \cup Fresh, NEW gas \in Nat,
         NEW given \in 0 .. GasLimit,
         kind = "Create" => address \in Fresh /\ \A i \in 1 .. Len(callers) : ~callers[i].readOnly,
         decodeGas(Len(callers), gas) = given,
         callers # <<>> => callers[Len(callers)].gas + given <= callers[Len(callers)].given,
         kind = "Create" => ~decodeReadOnly(Len(callers), kind = "StaticCall", gas),
         (callers # <<>> /\ callers[Len(callers)].readOnly)
           => decodeReadOnly(Len(callers), kind = "StaticCall", gas),
         Enter(callers, kind, address, gas, given)
  PROVE  /\ world' \in World /\ stateDB' \in StateDB /\ frames' \in Seq(Frame)
         /\ Funded(frames', stateDB') /\ Sealed(frames', stateDB', world')
<1> DEFINE n == Len(callers)
           db == Snapshot(stateDB)
           f == [kind |-> kind, address |-> address,
                 readOnly |-> decodeReadOnly(n, kind = "StaticCall", gas),
                 snapshot |-> Len(db.snapshots), given |-> given,
                 gas |-> decodeGas(n, gas), refund |-> 0]
<1>1. /\ stateDB \in StateDB /\ world \in World /\ GasLimit \in Nat
      /\ n \in Nat
  BY EncodingAssumption DEF IInv, Shape
<1>2. /\ db \in StateDB
      /\ Len(stateDB.snapshots) \in Nat
      /\ Len(db.snapshots) = Len(stateDB.snapshots) + 1
      /\ DOMAIN stateDB.snapshots = 1 .. Len(stateDB.snapshots)
      /\ DOMAIN db.snapshots = 1 .. Len(stateDB.snapshots) + 1
      /\ db.snapshots[Len(stateDB.snapshots) + 1].world = world
      /\ \A k \in DOMAIN stateDB.snapshots : db.snapshots[k] = stateDB.snapshots[k]
  BY <1>1, SnapshotType, Zenon
<1>3. stateDB' \in StateDB /\ stateDB'.snapshots = db.snapshots
  <2> DEFINE created == IF kind = "Create" THEN CreateContract(db, address) ELSE db
  <2>1. created \in StateDB /\ created.snapshots = db.snapshots
    <3> HIDE DEF db
    <3> QED
      BY <1>2, Zenon DEF CreateContract, StateDB
  <2>2. stateDB' = IF n = 0 THEN AddRefund(created, refundShift) ELSE created
    BY Zenon DEF Enter
  <2>3. refundShift \in Int
    BY EncodingAssumption
  <2> HIDE DEF created, db
  <2>4. AddRefund(created, refundShift) \in StateDB
        /\ AddRefund(created, refundShift).snapshots = created.snapshots
    BY <2>1, <2>3, RefundType, Zenon
  <2> QED
    BY <2>1, <2>2, <2>4, Zenon
<1>4. world' \in World
  BY <1>1, Zenon DEF Enter, World
<1>5. f \in Frame
  <2> HIDE DEF db
  <2> QED
    BY <1>1, <1>2 DEF Frame, decodeReadOnly
<1>6. frames' = Append(callers, f)
  BY Zenon DEF Enter
<1>7. /\ frames' \in Seq(Frame)
      /\ Len(frames') = n + 1
      /\ frames'[n + 1] = f
      /\ \A i \in 1 .. n : frames'[i] = callers[i]
  <2> HIDE DEF f
  <2> QED
    BY <1>5, <1>6, PushProperties
<1>8. /\ f.snapshot = Len(db.snapshots) /\ f.given = given /\ f.gas = given
      /\ f.kind = kind /\ f.readOnly = decodeReadOnly(n, kind = "StaticCall", gas)
  BY Zenon
<1>9. kind = "StaticCall" => decodeReadOnly(n, kind = "StaticCall", gas)
  BY Zenon DEF decodeReadOnly
<1>10. callers # <<>> => n >= 1
  OBVIOUS
<1> HIDE DEF f, db, n
<1>11. Funded(frames', stateDB')
  <2>1. ASSUME NEW i \in 1 .. n + 1
        PROVE  /\ frames'[i].snapshot \in DOMAIN stateDB'.snapshots
               /\ frames'[i].gas <= frames'[i].given
               /\ frames'[i].given <= GasLimit
    <3>1. CASE i = n + 1
      BY <3>1, <1>1, <1>2, <1>3, <1>7, <1>8
    <3>2. CASE i # n + 1
      <4>1. i \in 1 .. n /\ frames'[i] = callers[i]
        BY <3>2, <1>1, <1>7
      <4>2. /\ callers[i].snapshot \in DOMAIN stateDB.snapshots
            /\ callers[i].gas <= callers[i].given
            /\ callers[i].given <= GasLimit
        BY <4>1, Zenon DEF Funded, n
      <4>3. callers[i].snapshot \in DOMAIN stateDB'.snapshots
        BY <4>2, <1>2, <1>3
      <4> QED
        BY <4>1, <4>2, <4>3, Zenon
    <3> QED
      BY <3>1, <3>2, Zenon
  <2>2. ASSUME NEW i \in 1 .. n PROVE frames'[i].gas + frames'[i + 1].given <= frames'[i].given
    <3>1. CASE i = n
      <4>1. callers # <<>>
        BY <3>1, <1>1 DEF n
      <4> QED
        BY <4>1, <3>1, <1>1, <1>7, <1>8, Zenon DEF n
    <3>2. CASE i # n
      <4>1. i \in 1 .. n - 1 /\ frames'[i] = callers[i] /\ frames'[i + 1] = callers[i + 1]
        BY <3>2, <1>1, <1>7
      <4> QED
        BY <4>1, Zenon DEF Funded, n
    <3> QED
      BY <3>1, <3>2, Zenon
  <2> QED
    BY <2>1, <2>2, <1>1, <1>7 DEF Funded
<1>12. Sealed(frames', stateDB', world')
  <2>1. ASSUME NEW i \in 1 .. n, callers[i].readOnly
        PROVE  /\ f.readOnly
               /\ kind # "Create"
               /\ world = stateDB.snapshots[callers[i].snapshot].world
    <3>1. callers # <<>> /\ n \in 1 .. n /\ i <= n
      BY <1>1 DEF n
    <3>2. callers[n].readOnly /\ world = stateDB.snapshots[callers[i].snapshot].world
      BY <2>1, <3>1, Zenon DEF Sealed, n
    <3> QED
      BY <2>1, <3>1, <3>2, <1>8, Zenon DEF n
  <2>2. kind # "Create" => world' = world
    BY Zenon DEF Enter
  <2>3. kind = "Create" => ~f.readOnly
    BY <1>8, Zenon DEF n
  <2>4. ASSUME NEW i \in 1 .. n + 1
        PROVE  /\ frames'[i].kind = "StaticCall" => frames'[i].readOnly
               /\ frames'[i].readOnly => world' = stateDB'.snapshots[frames'[i].snapshot].world
               /\ \A j \in 1 .. n + 1 : i <= j /\ frames'[i].readOnly => frames'[j].readOnly
    <3>1. CASE i = n + 1
      <4>1. f.readOnly => world' = stateDB'.snapshots[f.snapshot].world
        BY <2>2, <2>3, <1>2, <1>3, <1>8, Zenon
      <4> QED
        BY <3>1, <4>1, <1>1, <1>7, <1>8, <1>9
    <3>2. CASE i # n + 1
      <4>1. i \in 1 .. n /\ frames'[i] = callers[i]
        BY <3>2, <1>1, <1>7
      <4>2. callers[i].kind = "StaticCall" => callers[i].readOnly
        BY <4>1, Zenon DEF Sealed, n
      <4>3. callers[i].snapshot \in DOMAIN stateDB.snapshots
        BY <4>1, Zenon DEF Funded, n
      <4>4. callers[i].readOnly => world' = stateDB'.snapshots[callers[i].snapshot].world
        BY <4>1, <4>3, <2>1, <2>2, <1>2, <1>3, Zenon
      <4>5. ASSUME NEW j \in 1 .. n + 1, i <= j, callers[i].readOnly PROVE frames'[j].readOnly
        <5>1. CASE j = n + 1
          BY <5>1, <4>1, <4>5, <2>1, <1>7, Zenon
        <5>2. CASE j # n + 1
          <6>1. j \in 1 .. n /\ frames'[j] = callers[j]
            BY <5>2, <1>1, <1>7
          <6> QED
            BY <6>1, <4>1, <4>5, Zenon DEF Sealed, n
        <5> QED
          BY <5>1, <5>2, Zenon
      <4> QED
        BY <4>1, <4>2, <4>4, <4>5, Zenon
    <3> QED
      BY <3>1, <3>2, Zenon
  <2> QED
    BY <2>4, <1>7, Zenon DEF Sealed
<1> QED
  BY <1>3, <1>4, <1>7, <1>11, <1>12, Zenon

\* The running frame may lose gas and collect refund, and change the world
\* unless it is read-only.
LEMMA UpdateTop ==
  ASSUME IInv, frames # <<>>, NEW g \in Frame,
         g.kind = top.kind, g.readOnly = top.readOnly, g.snapshot = top.snapshot,
         g.given = top.given, g.gas <= top.gas,
         NEW w, top.readOnly => w = world
  PROVE  LET fs == [frames EXCEPT ![running] = g]
         IN  /\ fs \in Seq(Frame)
             /\ Len(fs) = running
             /\ fs # <<>>
             /\ fs[running] = g
             /\ Funded(fs, stateDB)
             /\ Sealed(fs, stateDB, w)
<1> DEFINE fs == [frames EXCEPT ![running] = g]
<1>1. /\ frames \in Seq(Frame) /\ running \in Nat \ {0} /\ running = Len(frames)
      /\ Funded(frames, stateDB) /\ Sealed(frames, stateDB, world)
  BY DEF IInv, Shape, running
<1>2. /\ fs \in Seq(Frame) /\ Len(fs) = running /\ fs[running] = g
      /\ \A i \in 1 .. running : i # running => fs[i] = frames[i]
  BY <1>1
<1>3. fs # <<>>
  BY <1>1, <1>2, Zenon
<1> HIDE DEF fs
<1>4. top = frames[running] /\ running \in 1 .. running
  BY <1>1 DEF top
<1>5. \A i \in 1 .. running :
        /\ fs[i].kind = frames[i].kind /\ fs[i].readOnly = frames[i].readOnly
        /\ fs[i].snapshot = frames[i].snapshot /\ fs[i].given = frames[i].given
        /\ fs[i].gas <= frames[i].gas
        /\ fs[i].gas \in Nat /\ frames[i].gas \in Nat /\ frames[i].given \in Nat
  <2> TAKE i \in 1 .. running
  <2>1. frames[i] \in Frame /\ fs[i] \in Frame
    BY <1>1, <1>2
  <2>2. fs[i].gas \in Nat /\ frames[i].gas \in Nat /\ frames[i].given \in Nat
    BY <2>1, Zenon DEF Frame
  <2> QED
    BY <1>2, <1>4, <2>2
<1>6. Funded(fs, stateDB)
  <2>1. ASSUME NEW i \in 1 .. running
        PROVE  /\ fs[i].snapshot \in DOMAIN stateDB.snapshots
               /\ fs[i].gas <= fs[i].given
               /\ fs[i].given <= GasLimit
    <3>1. /\ frames[i].snapshot \in DOMAIN stateDB.snapshots
          /\ frames[i].gas <= frames[i].given
          /\ frames[i].given <= GasLimit
      BY <1>1, Zenon DEF Funded
    <3> QED
      BY <3>1, <1>5
  <2>2. ASSUME NEW i \in 1 .. running - 1 PROVE fs[i].gas + fs[i + 1].given <= fs[i].given
    <3>1. frames[i].gas + frames[i + 1].given <= frames[i].given
      BY <1>1, Zenon DEF Funded
    <3>2. i \in 1 .. running /\ i + 1 \in 1 .. running
      BY <1>1
    <3> QED
      BY <3>1, <3>2, <1>5
  <2> QED
    BY <2>1, <2>2, <1>2, Zenon DEF Funded
<1>7. Sealed(fs, stateDB, w)
  <2>1. ASSUME NEW i \in 1 .. running
        PROVE  /\ fs[i].kind = "StaticCall" => fs[i].readOnly
               /\ fs[i].readOnly => w = stateDB.snapshots[fs[i].snapshot].world
               /\ \A j \in 1 .. running : i <= j /\ fs[i].readOnly => fs[j].readOnly
    <3>1. /\ frames[i].kind = "StaticCall" => frames[i].readOnly
          /\ frames[i].readOnly => world = stateDB.snapshots[frames[i].snapshot].world
          /\ \A j \in 1 .. running : i <= j /\ frames[i].readOnly => frames[j].readOnly
      BY <1>1, Zenon DEF Sealed
    <3>2. frames[i].readOnly => top.readOnly
      BY <3>1, <1>1, <1>4
    <3> QED
      BY <3>1, <3>2, <1>5, Zenon
  <2> QED
    BY <2>1, <1>2, Zenon DEF Sealed
<1> QED
  BY <1>2, <1>3, <1>6, <1>7, Zenon DEF fs

\* The caller gets back at most what it gave.
LEMMA PopTop ==
  ASSUME IInv, frames # <<>>, running # 1,
         NEW db \in StateDB, db.snapshots = stateDB.snapshots,
         NEW w, top.readOnly => w = world,
         NEW back \in 0 .. top.given
  PROVE  LET fs == [SubSeq(frames, 1, running - 1) EXCEPT ![running - 1].gas = @ + back]
         IN  /\ fs \in Seq(Frame)
             /\ Funded(fs, db)
             /\ Sealed(fs, db, w)
<1> DEFINE n == running - 1
           p == SubSeq(frames, 1, n)
           g == [p[n] EXCEPT !.gas = @ + back]
           fs == [p EXCEPT ![n] = g]
<1>1. /\ frames \in Seq(Frame) /\ running \in Nat \ {0} /\ running = Len(frames)
      /\ Funded(frames, stateDB) /\ Sealed(frames, stateDB, world)
  BY DEF IInv, Shape, running
<1>2. n \in Nat \ {0}
  BY <1>1
<1>3. /\ p \in Seq(Frame) /\ Len(p) = n /\ \A i \in 1 .. n : p[i] = frames[i]
  BY <1>1, PopProperties, Zenon DEF running
<1>4. \A i \in 1 .. running :
        /\ frames[i] \in Frame
        /\ frames[i].gas \in Nat /\ frames[i].given \in Nat
  <2>1. \A i \in 1 .. running : frames[i] \in Frame
    BY <1>1
  <2> QED
    BY <2>1, Zenon DEF Frame
<1>5. n \in 1 .. n /\ n \in 1 .. running /\ n + 1 = running /\ running \in 1 .. running
  BY <1>1, <1>2
<1>6. top = frames[running] /\ back \in Nat /\ back <= frames[n + 1].given
  BY <1>4, <1>5 DEF top
<1>7. frames[n].gas + back <= frames[n].given /\ frames[n].gas + back \in Nat
  <2>1. n \in 1 .. Len(frames) - 1
    BY <1>1, <1>5, Zenon
  <2>2. frames[n].gas + frames[n + 1].given <= frames[n].given
    BY <2>1, <1>1, Zenon DEF Funded
  <2>3. frames[n].gas \in Nat /\ frames[n].given \in Nat /\ frames[n + 1].given \in Nat
    BY <1>4, <1>5, Zenon
  <2> HIDE DEF n
  <2> QED
    BY <2>2, <2>3, <1>6
<1>8. g \in Frame /\ g.gas = frames[n].gas + back /\ g.given = frames[n].given
      /\ g.snapshot = frames[n].snapshot /\ g.kind = frames[n].kind
      /\ g.readOnly = frames[n].readOnly
  <2>1. p[n] = frames[n] /\ frames[n] \in Frame
    BY <1>3, <1>4, <1>5, Zenon
  <2> QED
    BY <2>1, <1>7, Zenon DEF Frame
<1>9. fs = [SubSeq(frames, 1, running - 1) EXCEPT ![running - 1].gas = @ + back]
  BY Zenon
<1> HIDE DEF n, p, g
<1>10. /\ fs \in Seq(Frame) /\ Len(fs) = n /\ fs[n] = g
       /\ \A i \in 1 .. n : i # n => fs[i] = frames[i]
  BY <1>2, <1>3, <1>8
<1> HIDE DEF fs
<1>11. Funded(fs, db)
  <2>1. ASSUME NEW i \in 1 .. n
        PROVE  /\ fs[i].snapshot \in DOMAIN db.snapshots
               /\ fs[i].gas <= fs[i].given
               /\ fs[i].given <= GasLimit
    <3>1. i \in 1 .. Len(frames)
      BY <1>1, <1>2, <1>5
    <3>2. /\ frames[i].snapshot \in DOMAIN stateDB.snapshots
          /\ frames[i].gas <= frames[i].given
          /\ frames[i].given <= GasLimit
      BY <3>1, <1>1, Zenon DEF Funded
    <3> QED
      BY <3>2, <1>7, <1>8, <1>10, Zenon
  <2>2. ASSUME NEW i \in 1 .. n - 1 PROVE fs[i].gas + fs[i + 1].given <= fs[i].given
    <3>1. i \in 1 .. Len(frames) - 1 /\ i # n /\ i \in 1 .. n /\ i + 1 \in 1 .. n
      BY <1>1, <1>2, <1>5
    <3>2. frames[i].gas + frames[i + 1].given <= frames[i].given
      BY <3>1, <1>1, Zenon DEF Funded
    <3>3. fs[i] = frames[i] /\ fs[i + 1].given = frames[i + 1].given
      BY <3>1, <1>8, <1>10, Zenon
    <3> QED
      BY <3>2, <3>3, Zenon
  <2> QED
    BY <2>1, <2>2, <1>10, Zenon DEF Funded
<1>12. Sealed(fs, db, w)
  <2>1. \A i \in 1 .. n : fs[i].kind = frames[i].kind /\ fs[i].readOnly = frames[i].readOnly
                          /\ fs[i].snapshot = frames[i].snapshot
    BY <1>8, <1>10, Zenon
  <2>2. ASSUME NEW i \in 1 .. n
        PROVE  /\ fs[i].kind = "StaticCall" => fs[i].readOnly
               /\ fs[i].readOnly => w = db.snapshots[fs[i].snapshot].world
               /\ \A j \in 1 .. n : i <= j /\ fs[i].readOnly => fs[j].readOnly
    <3>1. i \in 1 .. Len(frames) /\ i <= running /\ \A j \in 1 .. n : j \in 1 .. Len(frames)
      BY <1>1, <1>2, <1>5
    <3>2. /\ frames[i].kind = "StaticCall" => frames[i].readOnly
          /\ frames[i].readOnly => world = stateDB.snapshots[frames[i].snapshot].world
          /\ \A j \in 1 .. Len(frames) : i <= j /\ frames[i].readOnly => frames[j].readOnly
      BY <3>1, <1>1, Zenon DEF Sealed
    <3>3. frames[i].readOnly => top.readOnly
      BY <3>1, <3>2, <1>1, <1>5, <1>6, Zenon
    <3> QED
      BY <3>1, <3>2, <3>3, <2>1, Zenon
  <2> QED
    BY <2>2, <1>10, Zenon DEF Sealed
<1> QED
  BY <1>9, <1>10, <1>11, <1>12, Zenon

LEMMA LeaveKeeps ==
  ASSUME IInv, frames # <<>>,
         NEW f \in Frame, f.kind = top.kind, f.snapshot = top.snapshot, f.given = top.given,
         f.gas <= top.gas,
         NEW w \in World, top.readOnly => w = world,
         NEW outcome, NEW rejected \in BOOLEAN,
         Leave(f, w, outcome, rejected)
  PROVE  IInv'
<1> DEFINE success == outcome = "success"
           kept == success /\ ~rejected
           db1 == IF ~success THEN stateDB
                  ELSE IF f.refund >= 0 THEN AddRefund(stateDB, f.refund)
                  ELSE SubRefund(stateDB, -f.refund)
           db2 == IF running = 1 THEN undoRefundShift(db1, outcome = "failure") ELSE db1
           returnGas == IF kept \/ outcome = "revert" THEN f.gas ELSE 0
<1>1. /\ Shape /\ Funded(frames, stateDB) /\ Sealed(frames, stateDB, world)
      /\ running = Len(frames) /\ running \in Nat \ {0}
  BY DEF IInv, Shape, running
<1>2. top \in Frame /\ top.snapshot \in DOMAIN stateDB.snapshots /\ top.gas <= top.given
      /\ (top.readOnly => world = stateDB.snapshots[top.snapshot].world)
  <2>1. running \in 1 .. Len(frames) /\ frames \in Seq(Frame)
    BY <1>1 DEF Shape
  <2> QED
    BY <2>1, <1>1 DEF top, Funded, Sealed
<1>3. f.refund \in Int /\ f.gas \in Nat /\ top.gas \in Nat /\ top.given \in Nat
  BY <1>2, Zenon DEF Frame
<1>4. db1 \in StateDB /\ db1.snapshots = stateDB.snapshots
  <2>1. stateDB \in StateDB /\ f.refund \in Int /\ -f.refund \in Int
    BY <1>1, <1>3 DEF Shape
  <2> QED
    BY <2>1, RefundType, Zenon
<1>5. db2 \in StateDB /\ db2.snapshots = stateDB.snapshots
  <2> HIDE DEF db1
  <2>1. (outcome = "failure") \in BOOLEAN
    BY Zenon
  <2>2. /\ undoRefundShift(db1, outcome = "failure") \in StateDB
        /\ undoRefundShift(db1, outcome = "failure").snapshots = db1.snapshots
    BY <2>1, <1>4, UndoType, Zenon
  <2> QED
    BY <2>2, <1>4, Zenon
<1>6. stateDB' \in StateDB /\ stateDB'.snapshots = stateDB.snapshots
  <2>1. stateDB' = IF kept THEN db2 ELSE RevertToSnapshot(db2, f.snapshot)
    BY Zenon DEF Leave
  <2> HIDE DEF db2
  <2>2. f.snapshot \in DOMAIN db2.snapshots
    BY <1>2, <1>5, Zenon
  <2>3. RevertToSnapshot(db2, f.snapshot) \in StateDB
        /\ RevertToSnapshot(db2, f.snapshot).snapshots = db2.snapshots
    BY <2>2, <1>5, RevertType, Zenon
  <2> QED
    BY <2>1, <2>3, <1>5, Zenon
<1>7. world' \in World /\ (top.readOnly => world' = world)
  <2>1. world' = IF kept THEN w ELSE stateDB.snapshots[f.snapshot].world
    BY Zenon DEF Leave
  <2>2. stateDB.snapshots[f.snapshot].world \in World
    BY <1>1, <1>2, RevertType, Zenon DEF Shape
  <2> QED
    BY <2>1, <2>2, <1>2, Zenon
<1>8. returnGas \in Nat /\ returnGas <= f.gas
  BY <1>3
<1>9. spent' \in Nat
  <2>1. spent' = spent + top.gas - returnGas
    BY Zenon DEF Leave
  <2> HIDE DEF returnGas
  <2> QED
    BY <2>1, <1>1, <1>3, <1>8 DEF Shape
<1>10. receipt' \in Receipt \cup {Running}
  <2> DEFINE address == IF kept /\ f.kind = "Create" THEN stateDB.createdContract ELSE NoAddress
             r == [done |-> TRUE, success |-> kept, gas |-> returnGas, address |-> address]
  <2>1. address \in Fresh \cup {NoAddress}
    <3>1. stateDB.createdContract \in Fresh \cup {NoAddress}
      BY <1>1, Zenon DEF Shape, StateDB
    <3> QED
      BY <3>1, Zenon
  <2>2. receipt' = receipt \/ receipt' = r
    BY Zenon DEF Leave
  <2>3. kept \in BOOLEAN
    BY Zenon
  <2>4. r \in Receipt
    <3> HIDE DEF returnGas, kept, address
    <3> QED
      BY <2>1, <2>3, <1>8, Zenon DEF Receipt
  <2> HIDE DEF r
  <2> QED
    BY <2>2, <2>4, <1>1, Zenon DEF Shape
<1>11. revision' = revision /\ original' = original
  BY Zenon DEF Leave
<1>12. /\ frames' \in Seq(Frame) /\ Funded(frames', stateDB')
       /\ Sealed(frames', stateDB', world')
  <2>1. CASE running = 1
    <3>1. frames' = <<>>
      BY <2>1, Zenon DEF Leave
    <3> QED
      BY <3>1 DEF Funded, Sealed
  <2>2. CASE running # 1
    <3> DEFINE back == gasLeft(returnGas, f.given)
    <3>1. frames' = [SubSeq(frames, 1, running - 1) EXCEPT ![running - 1].gas = @ + back]
      BY <2>2, Zenon DEF Leave
    <3>2. back \in 0 .. top.given
      <4> HIDE DEF returnGas
      <4> QED
        BY <1>3, <1>8, GasLeftBound, Zenon
    <3> HIDE DEF back
    <3> QED
      BY <2>2, <3>1, <3>2, <1>6, <1>7, PopTop, Zenon
  <2> QED
    BY <2>1, <2>2, Zenon
<1> QED
  BY <1>1, <1>6, <1>7, <1>9, <1>10, <1>11, <1>12, Zenon DEF IInv, Shape

\* The caller of a nested call: it has paid, and the rest is as before.
LEMMA PaidKeeps ==
  ASSUME IInv, NEW given \in 0 .. GasLimit, CanPay(given)
  PROVE  /\ Paid(given) \in Seq(Frame) /\ Len(Paid(given)) = running /\ Paid(given) # <<>>
         /\ running \in Nat \ {0}
         /\ Paid(given)[running] = [top EXCEPT !.gas = @ - 1 - given]
         /\ Paid(given)[running].gas + given <= Paid(given)[running].given
         /\ Paid(given)[running].readOnly = top.readOnly
         /\ Funded(Paid(given), stateDB) /\ Sealed(Paid(given), stateDB, world)
<1> DEFINE g == [top EXCEPT !.gas = @ - 1 - given]
<1>1. frames # <<>> /\ top.gas >= 1 + given /\ given \in Nat
  BY EncodingAssumption DEF CanPay
<1>2. frames \in Seq(Frame) /\ running = Len(frames) /\ running \in Nat \ {0}
  BY <1>1 DEF IInv, Shape, running
<1>3. top \in Frame /\ top.gas <= top.given
  BY <1>2 DEF IInv, Funded, top
<1>4. top.gas \in Nat /\ top.given \in Nat
  BY <1>3, Zenon DEF Frame
<1>5. g \in Frame /\ g.gas = top.gas - 1 - given /\ g.kind = top.kind
      /\ g.readOnly = top.readOnly /\ g.snapshot = top.snapshot /\ g.given = top.given
  BY <1>1, <1>3, <1>4 DEF Frame
<1>6. Paid(given) = [frames EXCEPT ![running] = g]
  BY Zenon DEF Paid, top
<1>7. g.gas <= top.gas /\ g.gas + given <= g.given
  BY <1>1, <1>3, <1>4, <1>5
<1> HIDE DEF g
<1>8. LET fs == [frames EXCEPT ![running] = g]
      IN  /\ fs \in Seq(Frame) /\ Len(fs) = running /\ fs # <<>> /\ fs[running] = g
          /\ Funded(fs, stateDB) /\ Sealed(fs, stateDB, world)
  BY <1>1, <1>5, <1>7, UpdateTop, Zenon
<1> QED
  BY <1>2, <1>5, <1>6, <1>7, <1>8, Zenon DEF g

\* What a nested call gets back does not bring its caller above what it had.
LEMMA ReturnedKeeps ==
  ASSUME IInv, NEW given \in 0 .. GasLimit, CanPay(given), NEW back \in 0 .. given
  PROVE  LET fs == [Paid(given) EXCEPT ![running].gas = @ + back]
         IN  fs \in Seq(Frame) /\ Funded(fs, stateDB) /\ Sealed(fs, stateDB, world)
<1> DEFINE g == [top EXCEPT !.gas = @ - 1 - given + back]
<1>1. frames # <<>> /\ top.gas >= 1 + given /\ given \in Nat /\ back \in Nat /\ back <= given
  BY EncodingAssumption DEF CanPay
<1>2. frames \in Seq(Frame) /\ running = Len(frames) /\ running \in Nat \ {0}
  BY <1>1 DEF IInv, Shape, running
<1>3. top \in Frame
  BY <1>2 DEF top
<1>4. top.gas \in Nat
  BY <1>3, Zenon DEF Frame
<1>5. g \in Frame /\ g.gas = top.gas - 1 - given + back /\ g.kind = top.kind
      /\ g.readOnly = top.readOnly /\ g.snapshot = top.snapshot /\ g.given = top.given
  BY <1>1, <1>3, <1>4 DEF Frame
<1>6. [Paid(given) EXCEPT ![running].gas = @ + back] = [frames EXCEPT ![running] = g]
  <2>1. frames[running] = top /\ top \in Frame /\ running \in DOMAIN frames
    BY <1>2, <1>3 DEF top
  <2> QED
    BY <2>1, <1>2, Zenon DEF Paid, Frame
<1>7. g.gas <= top.gas
  BY <1>1, <1>4, <1>5
<1> HIDE DEF g
<1>8. LET fs == [frames EXCEPT ![running] = g]
      IN  fs \in Seq(Frame) /\ Funded(fs, stateDB) /\ Sealed(fs, stateDB, world)
  BY <1>1, <1>5, <1>7, UpdateTop, Zenon
<1> QED
  BY <1>6, <1>8, Zenon

\* An additional snapshot disturbs no frame.
LEMMA SnapshotKeeps ==
  ASSUME IInv, NEW fs \in Seq(Frame), Funded(fs, stateDB), Sealed(fs, stateDB, world)
  PROVE  Funded(fs, Snapshot(stateDB)) /\ Sealed(fs, Snapshot(stateDB), world)
<1> DEFINE db == Snapshot(stateDB)
<1>1. /\ Len(stateDB.snapshots) \in Nat
      /\ DOMAIN stateDB.snapshots = 1 .. Len(stateDB.snapshots)
      /\ DOMAIN db.snapshots = 1 .. Len(stateDB.snapshots) + 1
      /\ \A k \in DOMAIN stateDB.snapshots : db.snapshots[k] = stateDB.snapshots[k]
  BY SnapshotType, Zenon DEF IInv, Shape
<1> HIDE DEF db
<1>2. \A i \in 1 .. Len(fs) : fs[i].snapshot \in DOMAIN stateDB.snapshots
  BY Zenon DEF Funded
<1>3. \A i \in 1 .. Len(fs) : /\ fs[i].snapshot \in DOMAIN db.snapshots
                              /\ db.snapshots[fs[i].snapshot] = stateDB.snapshots[fs[i].snapshot]
  BY <1>1, <1>2
<1>4. Funded(fs, db)
  BY <1>3, Zenon DEF Funded
<1>5. Sealed(fs, db, world)
  BY <1>3, Zenon DEF Sealed
<1> QED
  BY <1>4, <1>5, Zenon DEF db

\* Of what kind and where a nested call runs.
LEMMA NestedCall ==
  ASSUME IInv, NEW kind \in Kind \ {"Create"}, NEW to \in Contract \cup Fresh,
         NEW given \in 0 .. GasLimit, Call(kind, to, given)
  PROVE  IInv'
<1> DEFINE address == IF kind \in {"DelegateCall", "CallCode"} THEN top.address ELSE to
           gas == encodeReadOnlyInGas(given, to, top.readOnly)
           nested == nestedKind(kind)
<1>1. /\ CanPay(given) /\ spent' = spent + 1 /\ UNCHANGED <<revision, original, receipt>>
      /\ Enter(Paid(given), nested, address, gas, given)
  BY Zenon DEF Call
<1>2. /\ Paid(given) \in Seq(Frame) /\ Len(Paid(given)) = running /\ Paid(given) # <<>>
      /\ running \in Nat \ {0}
      /\ Paid(given)[running].gas + given <= Paid(given)[running].given
      /\ Paid(given)[running].readOnly = top.readOnly
      /\ Funded(Paid(given), stateDB) /\ Sealed(Paid(given), stateDB, world)
  BY <1>1, PaidKeeps, Zenon
<1>3. nested \in Kind /\ nested # "Create"
  BY Zenon DEF nestedKind, Kind
<1>4. address \in Contract \cup Fresh
  <2>1. top \in Frame
    BY <1>1 DEF IInv, Shape, CanPay, top, running
  <2> QED
    BY <2>1, Zenon DEF Frame
<1>5. given \in Nat /\ readOnlyBit \in Nat /\ given < readOnlyBit /\ to \notin Precompile
  BY EncodingAssumption, DomainAssumption
<1>6. gas = IF top.readOnly THEN given + readOnlyBit ELSE given
  BY <1>5, Zenon DEF encodeReadOnlyInGas
<1>7. gas \in Nat /\ decodeGas(running, gas) = given
  BY <1>2, <1>5, <1>6 DEF decodeGas
<1>8. top.readOnly => decodeReadOnly(running, nested = "StaticCall", gas)
  BY <1>2, <1>5, <1>6 DEF decodeReadOnly
<1> HIDE DEF gas, nested, address
<1>9. /\ world' \in World /\ stateDB' \in StateDB /\ frames' \in Seq(Frame)
      /\ Funded(frames', stateDB') /\ Sealed(frames', stateDB', world')
  BY <1>1, <1>2, <1>3, <1>4, <1>7, <1>8, EnterKeeps, Zenon
<1> QED
  BY <1>1, <1>9 DEF IInv, Shape

LEMMA NestedCreate ==
  ASSUME IInv, NEW address \in Fresh, NEW given \in 0 .. GasLimit, Create(address, given)
  PROVE  IInv'
<1>1. CanPay(given) /\ ~top.readOnly /\ UNCHANGED <<revision, original, receipt>>
  BY Zenon DEF Create
<1>2. /\ Paid(given) \in Seq(Frame) /\ Len(Paid(given)) = running /\ Paid(given) # <<>>
      /\ running \in Nat \ {0}
      /\ Paid(given)[running].gas + given <= Paid(given)[running].given
      /\ Paid(given)[running].readOnly = top.readOnly
      /\ Funded(Paid(given), stateDB) /\ Sealed(Paid(given), stateDB, world)
  BY <1>1, PaidKeeps, Zenon
<1>3. given \in Nat /\ readOnlyBit \in Nat /\ given < readOnlyBit
  BY EncodingAssumption
<1>4. spent' \in Nat
  BY <1>3 DEF Create, IInv, Shape
<1>5. CASE Enter(Paid(given), "Create", address, given, given)
  <2>1. \A i \in 1 .. Len(Paid(given)) : ~Paid(given)[i].readOnly
    BY <1>1, <1>2 DEF Sealed
  <2>2. decodeGas(running, given) = given
    BY <1>3 DEF decodeGas
  <2>3. ~decodeReadOnly(running, "Create" = "StaticCall", given)
    BY <1>3 DEF decodeReadOnly
  <2>4. "Create" \in Kind /\ address \in Contract \cup Fresh
    BY Zenon DEF Kind
  <2>5. /\ world' \in World /\ stateDB' \in StateDB /\ frames' \in Seq(Frame)
        /\ Funded(frames', stateDB') /\ Sealed(frames', stateDB', world')
    BY <1>1, <1>2, <1>3, <1>5, <2>1, <2>2, <2>3, <2>4, EnterKeeps, Zenon
  <2> QED
    BY <1>1, <1>4, <2>5, Zenon DEF IInv, Shape
<1>6. CASE frames' = Paid(given) /\ UNCHANGED <<world, stateDB>>
  BY <1>1, <1>2, <1>4, <1>6, Zenon DEF IInv, Shape
<1> QED
  BY <1>5, <1>6, Zenon DEF Create

\* Calls that do not start an interpreter.
LEMMA CallReturns ==
  ASSUME IInv, NEW given \in 0 .. GasLimit, CanPay(given), NEW returnGas \in Nat,
         stateDB' = Snapshot(stateDB),
         frames' = [Paid(given) EXCEPT ![running].gas = @ + gasLeft(returnGas, given)],
         spent' \in Nat, UNCHANGED <<revision, original, world, receipt>>
  PROVE  IInv'
<1> DEFINE back == gasLeft(returnGas, given)
<1>1. given \in Nat
  BY EncodingAssumption
<1>2. back \in 0 .. given
  BY <1>1, GasLeftBound, Zenon
<1> HIDE DEF back
<1>3. frames' = [Paid(given) EXCEPT ![running].gas = @ + back]
  BY Zenon DEF back
<1>4. frames' \in Seq(Frame) /\ Funded(frames', stateDB) /\ Sealed(frames', stateDB, world)
  BY <1>2, <1>3, ReturnedKeeps, Zenon
<1>5. Funded(frames', stateDB') /\ Sealed(frames', stateDB', world)
  BY <1>4, SnapshotKeeps, Zenon
<1>6. stateDB' \in StateDB
  BY SnapshotType, Zenon DEF IInv, Shape
<1> QED
  BY <1>4, <1>5, <1>6, Zenon DEF IInv, Shape

LEMMA StoreStep ==
  ASSUME IInv, NEW slot \in Slot, NEW word \in Word, Sstore(slot, word)
  PROVE  IInv'
<1> DEFINE earned == getRefundForSstore(revision,
                       GetStorageStatus(original[slot], world.current[slot], word))
           paid == [top EXCEPT !.gas = @ - 1 - 0]
           g == [paid EXCEPT !.refund = @ + earned]
<1>1. frames # <<>> /\ top.gas >= 1 /\ ~top.readOnly
  BY DEF Sstore, CanPay
<1>2. frames \in Seq(Frame) /\ running = Len(frames) /\ running \in Nat \ {0}
  BY <1>1 DEF IInv, Shape, running
<1>3. top \in Frame
  BY <1>2 DEF top
<1>4. top.gas \in Nat /\ top.refund \in Int
  BY <1>3 DEF Frame
<1>5. earned \in Int
  BY DEF getRefundForSstore, ClearRefund, RestoreRefund
<1>6. g \in Frame /\ g.gas = top.gas - 1 /\ g.kind = top.kind
      /\ g.readOnly = top.readOnly /\ g.snapshot = top.snapshot /\ g.given = top.given
  <2> HIDE DEF earned
  <2>1. top.gas - 1 - 0 \in Nat /\ top.refund + earned \in Int
    BY <1>1, <1>4, <1>5
  <2>2. paid \in Frame /\ paid.gas = top.gas - 1 /\ paid.kind = top.kind /\ paid.refund = top.refund
        /\ paid.readOnly = top.readOnly /\ paid.snapshot = top.snapshot /\ paid.given = top.given
    BY <2>1, <1>3, <1>4 DEF Frame
  <2> HIDE DEF paid
  <2> QED
    BY <2>1, <2>2, Zenon DEF Frame
<1>7. frames' = [frames EXCEPT ![running] = g]
  <2>1. frames[running] = top /\ running \in DOMAIN frames
    BY <1>2 DEF top
  <2>2. frames' = [Paid(0) EXCEPT ![running].refund = @ + earned]
    BY Zenon DEF Sstore
  <2>3. Paid(0) = [frames EXCEPT ![running] = paid]
    BY <2>1, Zenon DEF Paid, top
  <2> HIDE DEF earned, paid
  <2> QED
    BY <2>1, <2>2, <2>3, <1>2, Zenon
<1>8. g.gas <= top.gas
  BY <1>4, <1>6
<1>9. world' \in World /\ spent' \in Nat /\ UNCHANGED <<revision, original, stateDB, receipt>>
  BY DEF Sstore, IInv, Shape, World, Storage
<1> HIDE DEF g
<1>10. LET fs == [frames EXCEPT ![running] = g]
       IN  fs \in Seq(Frame) /\ Funded(fs, stateDB) /\ Sealed(fs, stateDB, world')
  BY <1>1, <1>6, <1>8, UpdateTop, Zenon
<1> QED
  BY <1>7, <1>9, <1>10, Zenon DEF IInv, Shape

LEMMA LeaveStep ==
  ASSUME IInv, NEW outcome, NEW rejected \in BOOLEAN, frames # <<>>,
         Leave(top, world, outcome, rejected)
  PROVE  IInv'
<1>1. frames \in Seq(Frame) /\ running = Len(frames) /\ running \in Nat \ {0} /\ world \in World
  BY DEF IInv, Shape, running
<1>2. top \in Frame
  BY <1>1 DEF top
<1>3. top.gas <= top.gas
  BY <1>2 DEF Frame
<1> QED
  BY <1>1, <1>2, <1>3, LeaveKeeps, Zenon

LEMMA SelfDestructStep ==
  ASSUME IInv, SelfDestruct
  PROVE  IInv'
<1> DEFINE a == top.address
           gone == revision < R13_Cancun \/ a \in world.created
           earned == selfDestructRefund(a \notin world.destructed, revision)
           f == [top EXCEPT !.gas = @ - 1, !.refund = @ + earned]
           w == IF gone THEN [world EXCEPT !.destructed = @ \cup {a}] ELSE world
<1>1. frames # <<>> /\ top.gas >= 1 /\ ~top.readOnly /\ Leave(f, w, "success", FALSE)
  <2>1. CanPay(0) /\ ~top.readOnly /\ Leave(f, w, "success", FALSE)
    BY Zenon DEF SelfDestruct
  <2>2. CanPay(0) => frames # <<>> /\ top.gas >= 1
    BY DEF CanPay
  <2> QED
    BY <2>1, <2>2, Zenon
<1>2. frames \in Seq(Frame) /\ running = Len(frames) /\ running \in Nat \ {0} /\ world \in World
  BY <1>1 DEF IInv, Shape, running
<1>3. top \in Frame
  BY <1>2 DEF top
<1>4. top.gas \in Nat /\ top.refund \in Int /\ a \in Contract \cup Fresh
  BY <1>3, Zenon DEF Frame
<1>5. earned \in Int
  BY DEF selfDestructRefund
<1>6. w \in World
  BY <1>2, <1>4, Zenon DEF World
<1>7. f \in Frame /\ f.gas = top.gas - 1 /\ f.kind = top.kind
      /\ f.snapshot = top.snapshot /\ f.given = top.given
  <2> HIDE DEF earned
  <2>1. top.gas - 1 \in Nat /\ top.refund + earned \in Int
    BY <1>1, <1>4, <1>5
  <2> QED
    BY <2>1, <1>3, Zenon DEF Frame
<1>8. f.gas <= top.gas
  BY <1>4, <1>7
<1> HIDE DEF f, w
<1> QED
  BY <1>1, <1>6, <1>7, <1>8, LeaveKeeps, Zenon

LEMMA Initially == Init => IInv
<1> SUFFICES ASSUME Init PROVE IInv
  BY Zenon
<1>1. 0 \in 0 .. refundLimit - 1
  BY EncodingAssumption
<1>2. stateDB \in StateDB
  BY <1>1 DEF Init, StateDB
<1>3. world \in World
  BY Zenon DEF Init, World
<1>4. Funded(frames, stateDB) /\ Sealed(frames, stateDB, world)
  BY DEF Init, Funded, Sealed
<1> QED
  BY <1>2, <1>3, <1>4, DomainAssumption DEF Init, IInv, Shape

LEMMA Invariance == IInv /\ [Next]_vars => IInv'
<1> SUFFICES ASSUME IInv, [Next]_vars PROVE IInv'
  BY Zenon
<1>1. ASSUME NEW kind \in {"Call", "Create"}, NEW to, Start(kind, to),
             IF kind = "Call" THEN to \in Contract ELSE to \in Fresh
      PROVE  IInv'
  <2>1. /\ Enter(<<>>, kind, to, GasLimit, GasLimit)
        /\ UNCHANGED <<revision, original, spent, receipt>>
    BY <1>1, Zenon DEF Start
  <2>2. GasLimit \in Nat /\ GasLimit \in 0 .. GasLimit
    BY EncodingAssumption
  <2>3. /\ <<>> \in Seq(Frame) /\ Len(<<>>) = 0
        /\ Funded(<<>>, stateDB) /\ Sealed(<<>>, stateDB, world)
    BY DEF Funded, Sealed
  <2>4. decodeGas(Len(<<>>), GasLimit) = GasLimit
    BY <2>3 DEF decodeGas
  <2>5. kind = "Create" => ~decodeReadOnly(Len(<<>>), kind = "StaticCall", GasLimit)
    BY <2>3 DEF decodeReadOnly
  <2>6. kind \in Kind /\ to \in Contract \cup Fresh /\ (kind = "Create" => to \in Fresh)
    BY <1>1, Zenon DEF Kind
  <2> DEFINE callers == <<>>
  <2> HIDE DEF callers
  <2>7. /\ world' \in World /\ stateDB' \in StateDB /\ frames' \in Seq(Frame)
        /\ Funded(frames', stateDB') /\ Sealed(frames', stateDB', world')
    <3>1. callers = <<>> /\ \A i \in 1 .. Len(callers) : ~callers[i].readOnly
      BY <2>3 DEF callers
    <3>2. /\ callers \in Seq(Frame) /\ Funded(callers, stateDB) /\ Sealed(callers, stateDB, world)
          /\ Enter(callers, kind, to, GasLimit, GasLimit)
          /\ decodeGas(Len(callers), GasLimit) = GasLimit
          /\ kind = "Create" => ~decodeReadOnly(Len(callers), kind = "StaticCall", GasLimit)
      BY <2>1, <2>3, <2>4, <2>5, Zenon DEF callers
    <3> QED
      BY <2>2, <2>6, <3>1, <3>2, EnterKeeps, Zenon
  <2> QED
    BY <2>1, <2>7, Zenon DEF IInv, Shape
<1>2. ASSUME NEW kind \in Kind \ {"Create"}, NEW given \in 0 .. GasLimit,
             NEW to \in Contract \cup world.created, Call(kind, to, given)
      PROVE  IInv'
  <2>1. to \in Contract \cup Fresh
    BY Zenon DEF IInv, Shape, World
  <2> QED
    BY <1>2, <2>1, NestedCall, Zenon
<1>3. ASSUME NEW kind \in Kind, NEW given \in 0 .. GasLimit, NEW to \in Eoa,
             CallWithoutCode(kind, to, given)
      PROVE  IInv'
  <2> DEFINE gas == encodeReadOnlyInGas(given, to, top.readOnly)
             returnGas == IF nestedKind(kind) = "Call" THEN gas ELSE decodeGas(running, gas)
  <2>1. returnGas \in Nat
    BY EncodingAssumption DEF encodeReadOnlyInGas, decodeGas
  <2>2. /\ CanPay(given) /\ stateDB' = Snapshot(stateDB)
        /\ frames' = [Paid(given) EXCEPT ![running].gas = @ + gasLeft(returnGas, given)]
        /\ spent' = spent + 1 /\ UNCHANGED <<revision, original, world, receipt>>
    BY <1>3, Zenon DEF CallWithoutCode
  <2>3. spent' \in Nat
    BY <2>2 DEF IInv, Shape
  <2> HIDE DEF returnGas
  <2> QED
    BY <2>1, <2>2, <2>3, CallReturns, Zenon
<1>4. ASSUME NEW to \in Precompile, NEW given \in 0 .. GasLimit, CallPrecompile(to, given)
      PROVE  IInv'
  <2> DEFINE gas == encodeReadOnlyInGas(given, to, top.readOnly)
             returnGas == IF gas >= 1 THEN gas - 1 ELSE 0
  <2>1. returnGas \in Nat
    BY EncodingAssumption DEF encodeReadOnlyInGas
  <2>2. /\ CanPay(given) /\ stateDB' = Snapshot(stateDB)
        /\ frames' = [Paid(given) EXCEPT ![running].gas = @ + gasLeft(returnGas, given)]
        /\ spent' = spent + 1 + Min({1, given})
        /\ UNCHANGED <<revision, original, world, receipt>>
    BY <1>4, Zenon DEF CallPrecompile
  <2>3. given \in Nat
    BY EncodingAssumption
  <2>4. Min({1, given}) \in {1, given}
    <3>1. \E x \in {1, given} : \A y \in {1, given} : x =< y
      BY <2>3
    <3> QED
      BY <3>1, Zenon DEF Min
  <2>5. spent' \in Nat
    BY <2>2, <2>3, <2>4 DEF IInv, Shape
  <2> HIDE DEF returnGas
  <2> QED
    BY <2>1, <2>2, <2>5, CallReturns, Zenon
<1>5. ASSUME NEW to \in Fresh, NEW given \in 0 .. GasLimit, Create(to, given) PROVE IInv'
  BY <1>5, NestedCreate, Zenon
<1>6. CASE OtherInstruction
  <2>1. CanPay(0) /\ 0 \in 0 .. GasLimit
    BY <1>6, EncodingAssumption DEF OtherInstruction
  <2>2. Paid(0) \in Seq(Frame) /\ Funded(Paid(0), stateDB) /\ Sealed(Paid(0), stateDB, world)
    BY <2>1, PaidKeeps, Zenon
  <2> QED
    BY <1>6, <2>2 DEF OtherInstruction, IInv, Shape
<1>7. ASSUME NEW slot \in Slot, NEW word \in Word, Sstore(slot, word) PROVE IInv'
  BY <1>7, StoreStep, Zenon
<1>8. ASSUME NEW rejected \in BOOLEAN, Stop(rejected) PROVE IInv'
  BY <1>8, LeaveStep, Zenon DEF Stop
<1>9. ASSUME NEW hasOutput \in BOOLEAN, Revert(hasOutput) PROVE IInv'
  BY <1>9, LeaveStep, Zenon DEF Revert
<1>10. CASE Fail
  BY <1>10, LeaveStep, Zenon DEF Fail
<1>11. CASE SelfDestruct
  BY <1>11, SelfDestructStep, Zenon
<1>12. CASE UNCHANGED vars
  BY <1>12, Zenon DEF vars, IInv, Shape
<1>13. CASE \E kind \in Kind \ {"Create"}, given \in 0 .. GasLimit :
              \/ \E to \in Contract \cup world.created : Call(kind, to, given)
              \/ \E to \in Eoa : CallWithoutCode(kind, to, given)
  BY <1>13, <1>2, <1>3, Zenon
<1>14. CASE \E to \in Contract : Start("Call", to)
  BY <1>14, <1>1, Zenon
<1>15. CASE \E to \in Fresh : Start("Create", to)
  BY <1>15, <1>1, Zenon
<1> QED
  BY <1>4, <1>5, <1>6, <1>7, <1>8, <1>9, <1>10, <1>11, <1>12, <1>13, <1>14, <1>15, Zenon DEF Next

\* The variables of the adapter, the StateDB and geth's frames keep their
\* shapes, and no call returns more gas than it was given.
THEOREM TypeCorrect == Spec => []TypeOK
BY Initially, Invariance, IInvImplies, PTL DEF Spec

\* Nothing changes during a static call, at any depth: the read-only mode gets
\* through geth to every nested Interpret.
THEOREM StaticCallsStayProtected == Spec => []StaticCallsAreProtected
BY Initially, Invariance, IInvImplies, PTL DEF Spec

-----------------------------------------------------------------------------
(* The gas of the transaction *)

Held(fs) == Total([i \in DOMAIN fs |-> fs[i].gas])

LEMMA HeldFacts ==
  ASSUME Induction, NEW fs \in Seq(Frame)
  PROVE  /\ Held(fs) \in Nat
         /\ fs = <<>> => Held(fs) = 0
         /\ \A f \in Frame : Held(Append(fs, f)) = Held(fs) + f.gas
         /\ fs # <<>> => /\ fs[Len(fs)].gas \in Nat
                         /\ \A g \in Frame : Held([fs EXCEPT ![Len(fs)] = g])
                                               = Held(fs) - fs[Len(fs)].gas + g.gas
                         /\ Held(fs) = Held(SubSeq(fs, 1, Len(fs) - 1)) + fs[Len(fs)].gas
<1> DEFINE n == Len(fs)
           G(s) == [i \in DOMAIN s |-> s[i].gas]
<1>1. ASSUME NEW s \in Seq(Frame)
      PROVE  Len(s) \in Nat /\ G(s) \in [1 .. Len(s) -> Nat] /\ G(s) \in [1 .. Len(s) -> Int]
  <2>1. \A i \in DOMAIN s : s[i] \in Frame
    OBVIOUS
  <2>2. \A i \in DOMAIN s : s[i].gas \in Nat
    BY <2>1, Zenon DEF Frame
  <2> QED
    BY <2>2
<1>2. Held(fs) \in Nat /\ (fs = <<>> => Held(fs) = 0)
  <2>1. Listed(1 .. n)
    BY <1>1, IntervalIsListed, Zenon
  <2>2. Held(fs) = Total(G(fs))
    BY Zenon DEF Held
  <2> DEFINE e == G(fs)
  <2>3. e \in [1 .. n -> Nat]
    BY <1>1, Zenon
  <2> HIDE DEF e
  <2>4. Total(e) \in Nat
    BY <2>1, <2>3, TotalBounds, Zenon
  <2>5. n = 0 => Total(e) = 0
    BY <2>3, TotalEmpty
  <2> QED
    BY <2>2, <2>4, <2>5 DEF e
<1>3. ASSUME NEW f \in Frame PROVE Held(Append(fs, f)) = Held(fs) + f.gas
  <2> DEFINE s == Append(fs, f)
             e == G(s)
             d == G(fs)
  <2>1. s \in Seq(Frame) /\ Len(s) = n + 1 /\ s[n + 1] = f /\ \A i \in 1 .. n : s[i] = fs[i]
    BY PushProperties
  <2>2. n \in Nat /\ d \in [1 .. n -> Int] /\ e \in [1 .. n + 1 -> Int]
    <3> HIDE DEF s
    <3> QED
      BY <1>1, <2>1, Zenon
  <2>3. e[n + 1] = f.gas /\ \A i \in 1 .. n : e[i] = d[i]
    <3> HIDE DEF s
    <3> QED
      BY <1>1, <2>1
  <2>4. Held(s) = Total(e) /\ Held(fs) = Total(d)
    BY Zenon DEF Held
  <2> HIDE DEF e, d, n, s
  <2>5. Total(e) = Total(d) + e[n + 1]
    BY <2>2, <2>3, TotalExtend, Zenon
  <2> QED
    BY <2>3, <2>4, <2>5, Zenon DEF s
<1>4. ASSUME fs # <<>>, NEW g \in Frame
      PROVE  Held([fs EXCEPT ![n] = g]) = Held(fs) - fs[n].gas + g.gas
  <2> DEFINE s == [fs EXCEPT ![n] = g]
             e == G(s)
             d == G(fs)
  <2>1. n \in Nat \ {0} /\ s \in Seq(Frame) /\ Len(s) = n /\ s[n] = g
        /\ \A i \in 1 .. n : i # n => s[i] = fs[i]
    BY <1>4
  <2>2. d \in [1 .. n -> Int] /\ e \in [1 .. n -> Int]
    <3> HIDE DEF s
    <3> QED
      BY <1>1, <2>1, Zenon
  <2>3. e[n] = g.gas /\ d[n] = fs[n].gas /\ \A i \in 1 .. n : i # n => e[i] = d[i]
    <3> HIDE DEF s
    <3> QED
      BY <1>1, <2>1
  <2>4. Held(s) = Total(e) /\ Held(fs) = Total(d)
    BY Zenon DEF Held
  <2> HIDE DEF e, d, n, s
  <2>5. Total(e) = Total(d) - d[n] + e[n]
    BY <2>1, <2>2, <2>3, StackTotals, Zenon
  <2> QED
    BY <2>3, <2>4, <2>5, Zenon DEF s
<1>5. ASSUME fs # <<>>
      PROVE  Held(fs) = Held(SubSeq(fs, 1, n - 1)) + fs[n].gas /\ fs[n].gas \in Nat
  <2> DEFINE s == SubSeq(fs, 1, n - 1)
             e == G(s)
             d == G(fs)
             m == n - 1
  <2>1. s \in Seq(Frame) /\ Len(s) = m /\ m \in Nat /\ n = m + 1 /\ \A i \in 1 .. m : s[i] = fs[i]
    BY <1>5, PopProperties
  <2>2. d \in [1 .. m + 1 -> Int] /\ e \in [1 .. m -> Int] /\ fs[n] \in Frame
    <3> HIDE DEF s
    <3> QED
      BY <1>1, <2>1
  <2>3. d[m + 1] = fs[n].gas /\ \A i \in 1 .. m : d[i] = e[i]
    <3> HIDE DEF s
    <3> QED
      BY <1>1, <2>1
  <2>4. Held(s) = Total(e) /\ Held(fs) = Total(d)
    BY Zenon DEF Held
  <2>5. fs[n].gas \in Nat
    BY <2>2, Zenon DEF Frame
  <2> HIDE DEF e, d, n, s, m
  <2>6. Total(d) = Total(e) + d[m + 1]
    BY <2>1, <2>2, <2>3, TotalExtend, Zenon
  <2> QED
    BY <2>3, <2>4, <2>5, <2>6, Zenon DEF s
<1> QED
  BY <1>2, <1>3, <1>4, <1>5, Zenon

\* What is not with a frame was used up.
Balanced ==
  IF receipt.done THEN frames = <<>> /\ spent + receipt.gas = GasLimit
  ELSE IF frames = <<>> THEN spent = 0 ELSE spent + Held(frames) = GasLimit

\* A call that returns no more than it was given, without the flag, is believed.
LEMMA GasLeftIsExact ==
  ASSUME NEW returnGas \in Nat, NEW given \in Nat, returnGas <= given, given < readOnlyBit
  PROVE  gasLeft(returnGas, given) = returnGas
<1>1. Signed(returnGas) = returnGas
  BY EncodingAssumption DEF Signed
<1>2. Min({returnGas, given}) = returnGas
  BY DEF Min
<1>3. Max({0, returnGas}) = returnGas
  BY DEF Max
<1> QED
  BY <1>1, <1>2, <1>3, Zenon DEF gasLeft

LEMMA PaidHeld ==
  ASSUME Induction, IInv, NEW given \in 0 .. GasLimit, CanPay(given)
  PROVE  /\ Paid(given) \in Seq(Frame) /\ given \in Nat /\ Held(Paid(given)) \in Nat
         /\ Held(Paid(given)) = Held(frames) - 1 - given
         /\ frames # <<>> /\ Held(frames) \in Nat
<1> DEFINE g == [top EXCEPT !.gas = @ - 1 - given]
<1>1. frames # <<>> /\ top.gas >= 1 + given /\ given \in Nat
  BY EncodingAssumption DEF CanPay
<1>2. frames \in Seq(Frame) /\ running = Len(frames) /\ running \in Nat \ {0}
      /\ top = frames[Len(frames)]
  BY <1>1 DEF IInv, Shape, running, top
<1>3. top \in Frame
  BY <1>2
<1>4. g \in Frame /\ g.gas = top.gas - 1 - given /\ top.gas \in Nat
  BY <1>1, <1>3 DEF Frame
<1>5. Paid(given) = [frames EXCEPT ![Len(frames)] = g]
  BY <1>2, Zenon DEF Paid
<1>6. Paid(given) \in Seq(Frame)
  BY <1>2, <1>4, <1>5
<1> HIDE DEF g
<1>7. /\ Held(frames) \in Nat
      /\ Held([frames EXCEPT ![Len(frames)] = g]) = Held(frames) - frames[Len(frames)].gas + g.gas
  BY <1>1, <1>2, <1>4, HeldFacts, Zenon
<1>8. Held(Paid(given)) \in Nat
  BY <1>6, HeldFacts, Zenon
<1> QED
  BY <1>1, <1>2, <1>4, <1>5, <1>6, <1>7, <1>8

LEMMA EnterBalances ==
  ASSUME Induction, NEW callers \in Seq(Frame), NEW kind, NEW address, NEW gas, NEW given,
         Enter(callers, kind, address, gas, given), frames' \in Seq(Frame),
         decodeGas(Len(callers), gas) = given
  PROVE  frames' # <<>> /\ Held(frames') = Held(callers) + given
<1> DEFINE f == [kind |-> kind, address |-> address,
                 readOnly |-> decodeReadOnly(Len(callers), kind = "StaticCall", gas),
                 snapshot |-> Len(Snapshot(stateDB).snapshots), given |-> given,
                 gas |-> decodeGas(Len(callers), gas), refund |-> 0]
<1>1. frames' = Append(callers, f)
  BY Zenon DEF Enter
<1>2. f.gas = given
  BY Zenon
<1> HIDE DEF f
<1>3. frames' # <<>> /\ Len(callers) + 1 \in DOMAIN frames' /\ frames'[Len(callers) + 1] = f
  BY <1>1
<1>4. f \in Frame
  BY <1>3
<1> QED
  BY <1>1, <1>2, <1>3, <1>4, HeldFacts, Zenon

LEMMA MoreGas ==
  ASSUME NEW h \in Frame, NEW k \in Nat
  PROVE  /\ [h EXCEPT !.gas = @ + k] \in Frame /\ h.gas \in Nat
         /\ [h EXCEPT !.gas = @ + k].gas = h.gas + k
<1>1. h.gas \in Nat
  BY Zenon DEF Frame
<1> QED
  BY <1>1 DEF Frame

\* A call that comes back at once.
LEMMA ReturnBalances ==
  ASSUME Induction, IInv, NEW given \in 0 .. GasLimit, CanPay(given), NEW back \in 0 .. given,
         frames' = [Paid(given) EXCEPT ![running].gas = @ + back], frames' \in Seq(Frame)
  PROVE  frames' # <<>> /\ Held(frames') = Held(frames) - 1 - given + back
<1> DEFINE fs == Paid(given)
           h == fs[Len(fs)]
           g == [h EXCEPT !.gas = @ + back]
<1>1. /\ fs \in Seq(Frame) /\ Len(fs) = running /\ running \in Nat \ {0} /\ fs # <<>>
  BY PaidKeeps, Zenon
<1>2. Held(fs) = Held(frames) - 1 - given /\ given \in Nat /\ Held(frames) \in Nat
  BY PaidHeld, Zenon
<1> HIDE DEF fs
<1>3. h \in Frame /\ back \in Nat
  BY <1>1, <1>2
<1>4. h.gas \in Nat /\ g \in Frame /\ g.gas = h.gas + back
  <2> HIDE DEF h
  <2> QED
    BY <1>3, MoreGas, Zenon
<1>6. frames' = [fs EXCEPT ![Len(fs)] = g]
  BY <1>1, Zenon DEF fs
<1>7. frames' # <<>>
  BY <1>1, <1>6
<1> HIDE DEF g
<1>8. Held(frames') = Held(fs) - h.gas + g.gas
  BY <1>1, <1>4, <1>6, HeldFacts, Zenon
<1>9. Held(fs) \in Nat
  BY <1>1, HeldFacts, Zenon
<1> HIDE DEF h
<1> QED
  BY <1>2, <1>3, <1>4, <1>7, <1>8, <1>9

LEMMA LeaveBalances ==
  ASSUME Induction, IInv, Balanced, frames # <<>>,
         NEW f \in Frame, f.given = top.given, f.gas <= top.gas,
         NEW w, NEW outcome, NEW rejected, Leave(f, w, outcome, rejected)
  PROVE  Balanced'
<1> DEFINE kept == outcome = "success" /\ ~rejected
           returnGas == IF kept \/ outcome = "revert" THEN f.gas ELSE 0
           n == Len(frames)
           p == SubSeq(frames, 1, n - 1)
<1>1. frames \in Seq(Frame) /\ running = n /\ n \in Nat \ {0} /\ top = frames[n] /\ spent \in Nat
  BY DEF IInv, Shape, running, top
<1>2. top \in Frame /\ top.gas <= top.given /\ top.given <= GasLimit
  BY <1>1 DEF IInv, Funded
<1>3. f.gas \in Nat /\ top.gas \in Nat /\ top.given \in Nat
  BY <1>2, Zenon DEF Frame
<1>4. returnGas \in Nat /\ returnGas <= top.gas
  BY <1>3
<1>5. spent' = spent + top.gas - returnGas
  BY Zenon DEF Leave
<1>6. ~receipt.done /\ spent + Held(frames) = GasLimit /\ GasLimit \in Nat
      /\ GasLimit < readOnlyBit /\ readOnlyBit \in Nat
  BY EncodingAssumption, Zenon DEF Balanced
<1>7. /\ p \in Seq(Frame) /\ Len(p) = n - 1
      /\ Held(frames) = Held(p) + top.gas /\ Held(p) \in Nat
  <2>1. p \in Seq(Frame) /\ Len(p) = n - 1
    BY <1>1, PopProperties, Zenon
  <2>2. Held(frames) = Held(p) + frames[n].gas
    BY <1>1, HeldFacts, Zenon
  <2>3. Held(p) \in Nat
    <3> HIDE DEF p
    <3> QED
      BY <2>1, HeldFacts, Zenon
  <2> QED
    BY <1>1, <2>1, <2>2, <2>3, Zenon
<1>8. CASE running = 1
  <2>1. p = <<>>
    BY <1>1, <1>7, <1>8
  <2>2. Held(p) = 0
    BY <1>7, <2>1, HeldFacts, Zenon
  <2>3. frames' = <<>> /\ receipt'.done /\ receipt'.gas = returnGas
    BY <1>8 DEF Leave
  <2> HIDE DEF returnGas, p, n
  <2>4. spent' + receipt'.gas = GasLimit
    BY <1>1, <1>3, <1>4, <1>5, <1>6, <1>7, <2>2, <2>3
  <2> QED
    BY <2>3, <2>4, Zenon DEF Balanced
<1>9. CASE running # 1
  <2> DEFINE h == p[Len(p)]
             g == [h EXCEPT !.gas = @ + returnGas]
  <2>1. frames' = [p EXCEPT ![n - 1].gas = @ + gasLeft(returnGas, f.given)] /\ receipt' = receipt
    BY <1>1, <1>9, Zenon DEF Leave
  <2>2. gasLeft(returnGas, f.given) = returnGas
    <3> HIDE DEF returnGas
    <3> QED
      BY <1>2, <1>3, <1>4, <1>6, GasLeftIsExact
  <2>3. frames' = [p EXCEPT ![Len(p)] = g]
    BY <1>7, <2>1, <2>2, Zenon
  <2> HIDE DEF returnGas, p
  <2>4. p # <<>> /\ h \in Frame
    BY <1>1, <1>7, <1>9
  <2> HIDE DEF n
  <2>5. h.gas \in Nat /\ g \in Frame /\ g.gas = h.gas + returnGas
    <3> HIDE DEF h
    <3> QED
      BY <1>4, <2>4, MoreGas, Zenon
  <2>7. frames' # <<>>
    BY <1>7, <2>3, <2>4
  <2> HIDE DEF g
  <2>8. Held(frames') = Held(p) - h.gas + g.gas
    BY <1>7, <2>3, <2>4, <2>5, HeldFacts, Zenon
  <2> HIDE DEF h
  <2>9. spent' + Held(frames') = GasLimit
    <3>1. Held(frames') = Held(p) + returnGas /\ Held(p) \in Nat /\ returnGas \in Nat
      BY <1>4, <1>7, <2>5, <2>8
    <3>2. spent + Held(p) + top.gas = GasLimit /\ spent \in Nat /\ top.gas \in Nat
      BY <1>1, <1>3, <1>6, <1>7
    <3> QED
      BY <1>5, <3>1, <3>2
  <2> QED
    BY <1>6, <2>1, <2>7, <2>9, Zenon DEF Balanced
<1> QED
  BY <1>8, <1>9, Zenon

LEMMA BalancedInit == Init => Balanced
BY DEF Init, Balanced, Running

LEMMA BalancedNext == ASSUME Induction PROVE IInv /\ Balanced /\ [Next]_vars => Balanced'
<1> SUFFICES ASSUME IInv, Balanced, [Next]_vars PROVE Balanced'
  BY Zenon
<1>0. IInv' /\ frames' \in Seq(Frame) /\ spent \in Nat /\ spent' \in Nat /\ GasLimit \in Nat
      /\ GasLimit < readOnlyBit /\ readOnlyBit \in Nat
  BY Invariance, EncodingAssumption, Zenon DEF IInv, Shape
\* A step that leaves the running frame, or one above it, in charge.
<1>1. ASSUME frames # <<>>, frames' # <<>>, receipt' = receipt,
             spent' + Held(frames') = spent + Held(frames)
      PROVE  Balanced'
  BY <1>1, Zenon DEF Balanced
<1>2. ASSUME NEW kind, NEW to, Start(kind, to) PROVE Balanced'
  <2> DEFINE callers == <<>>
  <2>1. frames = <<>> /\ ~receipt.done /\ UNCHANGED <<spent, receipt>>
        /\ Enter(callers, kind, to, GasLimit, GasLimit)
    BY <1>2, Zenon DEF Start
  <2>2. callers \in Seq(Frame) /\ Len(callers) = 0 /\ callers = <<>>
    OBVIOUS
  <2> HIDE DEF callers
  <2>3. decodeGas(Len(callers), GasLimit) = GasLimit
    BY <2>2 DEF decodeGas
  <2>4. frames' # <<>> /\ Held(frames') = Held(callers) + GasLimit
    BY <1>0, <2>1, <2>2, <2>3, EnterBalances, Zenon
  <2>5. Held(callers) = 0
    BY <2>2, HeldFacts, Zenon
  <2> QED
    BY <1>0, <2>1, <2>4, <2>5 DEF Balanced
<1>3. ASSUME NEW kind \in Kind \ {"Create"}, NEW given \in 0 .. GasLimit,
             NEW to \in Contract \cup world.created, Call(kind, to, given)
      PROVE  Balanced'
  <2> DEFINE address == IF kind \in {"DelegateCall", "CallCode"} THEN top.address ELSE to
             gas == encodeReadOnlyInGas(given, to, top.readOnly)
             nested == nestedKind(kind)
             callers == Paid(given)
  <2>1. /\ CanPay(given) /\ spent' = spent + 1 /\ receipt' = receipt
        /\ Enter(callers, nested, address, gas, given)
    BY <1>3, Zenon DEF Call
  <2>2. /\ callers \in Seq(Frame) /\ given \in Nat /\ Held(callers) \in Nat
        /\ Held(callers) = Held(frames) - 1 - given
        /\ frames # <<>> /\ Held(frames) \in Nat
    BY <2>1, PaidHeld, Zenon
  <2>3. Len(callers) = running /\ running \in Nat \ {0}
    BY <2>1, PaidKeeps, Zenon
  <2>4. decodeGas(running, gas) = given
    <3>1. to \notin Precompile
      BY DomainAssumption, Zenon DEF IInv, Shape, World
    <3>2. given < readOnlyBit
      BY <1>0
    <3> QED
      BY <1>0, <2>2, <2>3, <3>1, <3>2 DEF encodeReadOnlyInGas, decodeGas
  <2> HIDE DEF address, gas, nested, callers
  <2>5. frames' # <<>> /\ Held(frames') = Held(callers) + given
    BY <1>0, <2>1, <2>2, <2>3, <2>4, EnterBalances, Zenon
  <2>6. spent' + Held(frames') = spent + Held(frames)
    BY <1>0, <2>1, <2>2, <2>5
  <2> QED
    BY <1>1, <2>1, <2>2, <2>5, <2>6, Zenon
<1>4. ASSUME NEW given \in 0 .. GasLimit, CanPay(given), NEW cost \in 0 .. given,
             NEW returnGas \in Nat, returnGas = given - cost,
             frames' = [Paid(given) EXCEPT ![running].gas = @ + gasLeft(returnGas, given)],
             spent' = spent + 1 + cost, receipt' = receipt
      PROVE  Balanced'
  <2>1. given \in Nat /\ cost \in Nat /\ returnGas \in 0 .. given /\ frames # <<>>
        /\ Held(frames) \in Nat
    BY <1>0, <1>4, PaidHeld
  <2>2. gasLeft(returnGas, given) = returnGas
    BY <1>0, <1>4, <2>1, GasLeftIsExact
  <2>3. frames' = [Paid(given) EXCEPT ![running].gas = @ + returnGas]
    BY <1>4, <2>2, Zenon
  <2>4. frames' # <<>> /\ Held(frames') = Held(frames) - 1 - given + returnGas
    BY <1>0, <1>4, <2>1, <2>3, ReturnBalances, Zenon
  <2>5. spent' + Held(frames') = spent + Held(frames)
    BY <1>0, <1>4, <2>1, <2>4
  <2> QED
    BY <1>1, <1>4, <2>1, <2>4, <2>5, Zenon
<1>5. ASSUME NEW kind \in Kind, NEW given \in 0 .. GasLimit, NEW to \in Eoa,
             CallWithoutCode(kind, to, given)
      PROVE  Balanced'
  <2> DEFINE gas == encodeReadOnlyInGas(given, to, top.readOnly)
             returnGas == IF nestedKind(kind) = "Call" THEN gas ELSE decodeGas(running, gas)
  <2>1. /\ CanPay(given) /\ receipt' = receipt /\ spent' = spent + 1
        /\ frames' = [Paid(given) EXCEPT ![running].gas = @ + gasLeft(returnGas, given)]
    BY <1>5, Zenon DEF CallWithoutCode
  <2>2. given \in Nat /\ given < readOnlyBit /\ running \in Nat \ {0}
    BY <1>0, <2>1, PaidKeeps
  <2>3. gas = given \/ (top.readOnly /\ gas = given + readOnlyBit)
    <3>1. CASE to \notin Precompile /\ top.readOnly
      BY <3>1, Zenon DEF encodeReadOnlyInGas
    <3>2. CASE ~(to \notin Precompile /\ top.readOnly)
      BY <3>2, Zenon DEF encodeReadOnlyInGas
    <3> QED
      BY <3>1, <3>2, Zenon
  <2>4. nestedKind(kind) = "Call" => ~top.readOnly
    BY Zenon DEF nestedKind
  <2>5. returnGas = given
    BY <1>0, <2>2, <2>3, <2>4 DEF decodeGas, encodeReadOnlyInGas
  <2> HIDE DEF returnGas
  <2>6. 0 \in 0 .. given /\ returnGas \in Nat /\ returnGas = given - 0 /\ spent' = spent + 1 + 0
    BY <1>0, <2>1, <2>2, <2>5
  <2> QED
    BY <1>4, <2>1, <2>6, Zenon
<1>6. ASSUME NEW to \in Precompile, NEW given \in 0 .. GasLimit, CallPrecompile(to, given)
      PROVE  Balanced'
  <2> DEFINE cost == Min({1, given})
             returnGas == IF given >= 1 THEN given - 1 ELSE 0
  <2>1. encodeReadOnlyInGas(given, to, top.readOnly) = given
    BY Zenon DEF encodeReadOnlyInGas
  <2>2. /\ CanPay(given) /\ receipt' = receipt /\ spent' = spent + 1 + cost
        /\ frames' = [Paid(given) EXCEPT ![running].gas = @ + gasLeft(returnGas, given)]
    BY <1>6, <2>1, Zenon DEF CallPrecompile
  <2>3. given \in Nat
    BY <1>0
  <2>4. cost = IF given >= 1 THEN 1 ELSE 0
    <3>1. CASE given >= 1
      BY <2>3, <3>1 DEF Min
    <3>2. CASE given = 0
      BY <3>2 DEF Min
    <3> QED
      BY <2>3, <3>1, <3>2
  <2>5. cost \in 0 .. given /\ returnGas \in Nat /\ returnGas = given - cost
    BY <2>3, <2>4
  <2> HIDE DEF cost, returnGas
  <2> QED
    BY <1>4, <2>2, <2>5, Zenon
<1>7. ASSUME NEW to \in Fresh, NEW given \in 0 .. GasLimit, Create(to, given) PROVE Balanced'
  <2> DEFINE callers == Paid(given)
  <2>1. CanPay(given) /\ receipt' = receipt
    BY <1>7, Zenon DEF Create
  <2>2. /\ callers \in Seq(Frame) /\ given \in Nat /\ Held(callers) \in Nat
        /\ Held(callers) = Held(frames) - 1 - given
        /\ frames # <<>> /\ Held(frames) \in Nat
    BY <2>1, PaidHeld, Zenon
  <2>3. Len(callers) = running /\ running \in Nat \ {0} /\ callers # <<>>
    BY <2>1, PaidKeeps, Zenon
  <2>4. CASE Enter(callers, "Create", to, given, given) /\ spent' = spent + 1
    <3>1. decodeGas(Len(callers), given) = given
      BY <1>0 DEF decodeGas
    <3> HIDE DEF callers
    <3>2. frames' # <<>> /\ Held(frames') = Held(callers) + given
      BY <1>0, <2>2, <2>4, <3>1, EnterBalances, Zenon
    <3>3. spent' + Held(frames') = spent + Held(frames)
      BY <1>0, <2>2, <2>4, <3>2
    <3> QED
      BY <1>1, <2>1, <2>2, <3>2, <3>3, Zenon
  <2>5. CASE frames' = callers /\ spent' = spent + 1 + given
    <3>1. spent' + Held(frames') = spent + Held(frames)
      BY <1>0, <2>2, <2>5
    <3> QED
      BY <1>1, <2>1, <2>2, <2>3, <2>5, <3>1, Zenon
  <2> QED
    BY <1>7, <2>4, <2>5, Zenon DEF Create
<1>8. CASE OtherInstruction
  <2>1. CanPay(0) /\ 0 \in 0 .. GasLimit /\ frames' = Paid(0) /\ spent' = spent + 1
        /\ receipt' = receipt
    BY <1>0, <1>8 DEF OtherInstruction
  <2>2. Held(Paid(0)) = Held(frames) - 1 - 0 /\ frames # <<>> /\ Held(frames) \in Nat
    BY <2>1, PaidHeld, Zenon
  <2>3. Paid(0) # <<>>
    BY <2>1, PaidKeeps, Zenon
  <2>4. spent' + Held(frames') = spent + Held(frames)
    BY <1>0, <2>1, <2>2
  <2> QED
    BY <1>1, <2>1, <2>2, <2>3, <2>4, Zenon
<1>9. ASSUME NEW slot \in Slot, NEW word \in Word, Sstore(slot, word) PROVE Balanced'
  <2> DEFINE earned == getRefundForSstore(revision,
                         GetStorageStatus(original[slot], world.current[slot], word))
             fs == Paid(0)
             h == fs[Len(fs)]
             g == [h EXCEPT !.refund = @ + earned]
  <2>1. /\ CanPay(0) /\ 0 \in 0 .. GasLimit /\ spent' = spent + 1 /\ receipt' = receipt
        /\ frames' = [fs EXCEPT ![running].refund = @ + earned]
    BY <1>0, <1>9 DEF Sstore
  <2>2. /\ fs \in Seq(Frame) /\ Held(fs) \in Nat /\ Held(fs) = Held(frames) - 1 - 0
        /\ frames # <<>> /\ Held(frames) \in Nat
    BY <2>1, PaidHeld, Zenon
  <2>3. Len(fs) = running /\ running \in Nat \ {0} /\ fs # <<>>
    BY <2>1, PaidKeeps, Zenon
  <2>4. frames' = [fs EXCEPT ![Len(fs)] = g]
    BY <2>1, <2>3, Zenon
  <2> HIDE DEF fs, earned
  <2>5. h \in Frame
    BY <2>2, <2>3
  <2>6. g \in Frame /\ g.gas = h.gas /\ h.gas \in Nat /\ frames' # <<>>
    <3>1. frames'[Len(fs)] = g /\ Len(fs) \in DOMAIN frames' /\ frames' # <<>>
      BY <2>2, <2>3, <2>4
    <3>2. g \in Frame
      BY <1>0, <3>1
    <3> HIDE DEF h
    <3> QED
      BY <2>5, <3>1, <3>2, Zenon DEF Frame
  <2> HIDE DEF g
  <2>7. Held(frames') = Held(fs) - h.gas + g.gas
    BY <2>2, <2>3, <2>4, <2>6, HeldFacts, Zenon
  <2> HIDE DEF h
  <2>8. spent' + Held(frames') = spent + Held(frames)
    <3>1. spent' = spent + 1
      BY <2>1, Zenon
    <3>2. Held(frames') = Held(fs)
      BY <2>2, <2>6, <2>7
    <3> QED
      BY <1>0, <2>2, <3>1, <3>2
  <2> QED
    BY <1>1, <2>1, <2>2, <2>6, <2>8, Zenon
<1>10. ASSUME NEW outcome, NEW rejected, frames # <<>>, Leave(top, world, outcome, rejected)
       PROVE  Balanced'
  <2>1. top \in Frame
    BY <1>10 DEF IInv, Shape, top, running
  <2>2. top.gas <= top.gas
    BY <2>1 DEF Frame
  <2> QED
    BY <1>10, <2>1, <2>2, LeaveBalances, Zenon
<1>11. CASE SelfDestruct
  <2> DEFINE a == top.address
             earned == selfDestructRefund(a \notin world.destructed, revision)
             f == [top EXCEPT !.gas = @ - 1, !.refund = @ + earned]
             w == IF revision < R13_Cancun \/ a \in world.created
                  THEN [world EXCEPT !.destructed = @ \cup {a}] ELSE world
  <2>1. frames # <<>> /\ top.gas >= 1 /\ Leave(f, w, "success", FALSE)
    <3>1. CanPay(0) /\ Leave(f, w, "success", FALSE)
      BY <1>11, Zenon DEF SelfDestruct
    <3>2. CanPay(0) => frames # <<>> /\ top.gas >= 1
      BY DEF CanPay
    <3> QED
      BY <3>1, <3>2, Zenon
  <2>2. top \in Frame
    BY <2>1 DEF IInv, Shape, top, running
  <2>3. top.gas \in Nat /\ top.refund \in Int /\ earned \in Int
    BY <2>2 DEF Frame, selfDestructRefund
  <2>4. f \in Frame /\ f.gas <= top.gas /\ f.given = top.given
    <3> HIDE DEF earned
    <3>1. top.gas - 1 \in Nat /\ top.refund + earned \in Int /\ top.gas - 1 <= top.gas
      BY <2>1, <2>3
    <3> QED
      BY <2>2, <3>1, Zenon DEF Frame
  <2> HIDE DEF f, w
  <2> QED
    BY <2>1, <2>4, LeaveBalances, Zenon
<1>12. CASE UNCHANGED vars
  BY <1>12, Zenon DEF vars, Balanced
<1>13. CASE \E kind \in Kind \ {"Create"}, given \in 0 .. GasLimit :
              \/ \E to \in Contract \cup world.created : Call(kind, to, given)
              \/ \E to \in Eoa : CallWithoutCode(kind, to, given)
  BY <1>3, <1>5, <1>13, Zenon
<1>14. CASE \/ \E rejected \in BOOLEAN : Stop(rejected)
            \/ \E hasOutput \in BOOLEAN : Revert(hasOutput)
            \/ Fail
  BY <1>10, <1>14, Zenon DEF Stop, Revert, Fail
<1> QED
  BY <1>2, <1>6, <1>7, <1>8, <1>9, <1>11, <1>12, <1>13, <1>14, Zenon DEF Next

-----------------------------------------------------------------------------
(* The refund counter *)

\* The most a single instruction moves the counter, in either direction.
MostEarned == 24000

\* The gas of the transaction cannot earn more than the bound on the refund.
RefundsFit == MostEarned * GasLimit <= MaxRefund

\* What was reported, before any of the open calls and now, and what was not: no
\* more than the gas spent can account for.
Bounded(fs, db, units) ==
  /\ \A i \in 1 .. Len(fs) :
       Size(Unshifted(Saved(fs, db, i).refund, i - 1)) + Turnover(fs, i - 1) <= MostEarned * units
  /\ Size(Unshifted(db.refund, Len(fs))) + Turnover(fs, Len(fs)) <= MostEarned * units

\* Journal has the rules of the fees that this module has.
LEMMA SameRules ==
  /\ \A r, status : Journal!getRefundForSstore(r, status) = getRefundForSstore(r, status)
  /\ \A o, c, n : Journal!GetStorageStatus(o, c, n) = GetStorageStatus(o, c, n)
  /\ \A d, r : Journal!selfDestructRefund(d, r) = selfDestructRefund(d, r)
  /\ \A r : Journal!ClearRefund(r) = ClearRefund(r)
<1>1. \A r : Journal!ClearRefund(r) = ClearRefund(r) /\ Journal!RestoreRefund(r) = RestoreRefund(r)
  BY DEF ClearRefund, Journal!ClearRefund, RestoreRefund, Journal!RestoreRefund,
         R10_London, Journal!R10_London, R09_Berlin, Journal!R09_Berlin
<1>2. \A r, status : Journal!getRefundForSstore(r, status) = getRefundForSstore(r, status)
  BY <1>1 DEF getRefundForSstore, Journal!getRefundForSstore, R09_Berlin, Journal!R09_Berlin
<1>3. \A o, c, n : Journal!GetStorageStatus(o, c, n) = GetStorageStatus(o, c, n)
  BY DEF GetStorageStatus, Journal!GetStorageStatus, Zero, Journal!Zero
<1>4. \A d, r : Journal!selfDestructRefund(d, r) = selfDestructRefund(d, r)
  BY DEF selfDestructRefund, Journal!selfDestructRefund, R10_London, Journal!R10_London
<1> QED
  BY <1>1, <1>2, <1>3, <1>4

Remembered == [world : World, refund : 0 .. refundLimit - 1]

LEMMA ViewFacts ==
  ASSUME Induction, NEW fs \in Seq(Frame), NEW db \in StateDB, Funded(fs, db)
  PROVE  /\ Len(fs) \in Nat /\ DOMAIN fs = 1 .. Len(fs)
         /\ \A i \in 1 .. Len(fs) : /\ fs[i] \in Frame /\ fs[i].refund \in Int
                                    /\ Saved(fs, db, i) \in Remembered
                                    /\ Saved(fs, db, i).world \in World
                                    /\ Saved(fs, db, i).refund \in Nat
         /\ db.refund \in Nat /\ refundShift \in Nat
         /\ \A n \in 0 .. Len(fs) : Earned(fs, n) \in Int /\ Turnover(fs, n) \in Nat
                                    /\ Earned(fs, n) <= Turnover(fs, n)
         /\ Earned(fs, 0) = 0 /\ Turnover(fs, 0) = 0
         /\ \A n \in 0 .. Len(fs) - 1 :
              /\ Earned(fs, n + 1) = Earned(fs, n) + fs[n + 1].refund
              /\ Turnover(fs, n + 1) = Turnover(fs, n) + Size(fs[n + 1].refund)
         /\ Refund(fs, db) \in Int
         /\ \A i \in 1 .. Len(fs) : /\ Entry(fs, db, i) \in Journal!Snapshot
                                    /\ Entries(fs, db)[i] = Entry(fs, db, i)
         /\ Entries(fs, db) \in Seq(Journal!Snapshot) /\ Len(Entries(fs, db)) = Len(fs)
<1>1. Len(fs) \in Nat /\ DOMAIN fs = 1 .. Len(fs) /\ \A i \in 1 .. Len(fs) : fs[i] \in Frame
  OBVIOUS
<1>2. \A i \in 1 .. Len(fs) : fs[i].refund \in Int
  BY <1>1, Zenon DEF Frame
<1>3. ASSUME NEW i \in 1 .. Len(fs) PROVE Saved(fs, db, i) \in Remembered
  <2>1. db.snapshots \in Seq(Remembered)
    BY Zenon DEF StateDB, Remembered
  <2>2. fs[i].snapshot \in DOMAIN db.snapshots
    BY Zenon DEF Funded
  <2> QED
    BY <2>1, <2>2 DEF Saved
<1>4. ASSUME NEW i \in 1 .. Len(fs)
      PROVE  Saved(fs, db, i).world \in World /\ Saved(fs, db, i).refund \in Nat
  BY <1>3, EncodingAssumption DEF Remembered
<1>5. db.refund \in Nat /\ refundShift \in Nat
  BY EncodingAssumption DEF StateDB
<1>6. /\ \A n \in 0 .. Len(fs) : Earned(fs, n) \in Int /\ Turnover(fs, n) \in Nat
                                 /\ Earned(fs, n) <= Turnover(fs, n)
      /\ Earned(fs, 0) = 0 /\ Turnover(fs, 0) = 0
      /\ \A n \in 0 .. Len(fs) - 1 :
           /\ Earned(fs, n + 1) = Earned(fs, n) + fs[n + 1].refund
           /\ Turnover(fs, n + 1) = Turnover(fs, n) + Size(fs[n + 1].refund)
  BY <1>1, <1>2, EarnedFacts, Zenon
<1>7. Refund(fs, db) \in Int
  <2>1. Earned(fs, Len(fs)) \in Int
    BY <1>1, <1>6
  <2> QED
    BY <1>5, <2>1 DEF Refund, Unshifted
<1>8. ASSUME NEW i \in 1 .. Len(fs) PROVE Entry(fs, db, i) \in Journal!Snapshot
  <2> DEFINE x == Unshifted(Saved(fs, db, i).refund, i - 1) + Earned(fs, i - 1)
             w == Saved(fs, db, i).world
  <2>1. i - 1 \in 0 .. Len(fs)
    BY <1>1
  <2>2. Earned(fs, i - 1) \in Int /\ Saved(fs, db, i).refund \in Nat
    BY <1>4, <1>6, <2>1, Zenon
  <2>3. x \in Int
    BY <1>5, <2>2 DEF Unshifted
  <2>4. w.current \in [Slot -> Word] /\ w.destructed \in SUBSET (Contract \cup Fresh)
    BY <1>4, Zenon DEF World, Storage
  <2>5. Entry(fs, db, i) = [current |-> w.current, destructed |-> w.destructed, refund |-> x]
    BY Zenon DEF Entry
  <2> HIDE DEF x, w
  <2> QED
    BY <2>3, <2>4, <2>5 DEF Journal!Snapshot, Journal!Storage
<1>9. \A i \in 1 .. Len(fs) : Entries(fs, db)[i] = Entry(fs, db, i)
  BY <1>1, Zenon DEF Entries
<1>10. Entries(fs, db) \in [1 .. Len(fs) -> Journal!Snapshot]
  BY <1>1, <1>8, Zenon DEF Entries
<1>11. Entries(fs, db) \in Seq(Journal!Snapshot) /\ Len(Entries(fs, db)) = Len(fs)
  BY <1>1, <1>10
<1> QED
  BY <1>1, <1>2, <1>3, <1>4, <1>5, <1>6, <1>7, <1>8, <1>9, <1>11, Zenon

\* Entries depend on the snapshots of the calls and on what the callers earned.
Agree(fs, db, gs, eb, k) ==
  /\ \A i \in 1 .. k : Saved(gs, eb, i) = Saved(fs, db, i)
  /\ \A i \in 1 .. k - 1 : gs[i].refund = fs[i].refund

LEMMA EntriesAgree ==
  ASSUME NEW fs, NEW db, NEW gs, NEW eb, NEW k \in Nat, Agree(fs, db, gs, eb, k)
  PROVE  \A i \in 1 .. k : /\ Entry(gs, eb, i) = Entry(fs, db, i)
                           /\ Earned(gs, i - 1) = Earned(fs, i - 1)
                           /\ Turnover(gs, i - 1) = Turnover(fs, i - 1)
<1> TAKE i \in 1 .. k
<1>1. i - 1 \in Nat /\ \A j \in 1 .. i - 1 : gs[j].refund = fs[j].refund
  BY DEF Agree
<1>2. Earned(gs, i - 1) = Earned(fs, i - 1) /\ Turnover(gs, i - 1) = Turnover(fs, i - 1)
  <2> DEFINE n == i - 1
  <2>1. n \in Nat /\ \A j \in 1 .. n : gs[j].refund = fs[j].refund
    BY <1>1, Zenon
  <2> HIDE DEF n
  <2>2. Earned(gs, n) = Earned(fs, n) /\ Turnover(gs, n) = Turnover(fs, n)
    BY <2>1, EarnedSame, Zenon
  <2> QED
    BY <2>2, Zenon DEF n
<1>3. Saved(gs, eb, i) = Saved(fs, db, i)
  BY Zenon DEF Agree
<1> QED
  BY <1>2, <1>3, Zenon DEF Entry

\* What the entries below a changed part of the stack keep.
LEMMA BoundKept ==
  ASSUME Induction, NEW fs \in Seq(Frame), NEW db \in StateDB, Funded(fs, db),
         NEW gs \in Seq(Frame), NEW eb \in StateDB,
         NEW k \in Nat, k <= Len(fs),
         Agree(fs, db, gs, eb, k),
         NEW s \in Nat, NEW t \in Nat, s <= t, Bounded(fs, db, s)
  PROVE  /\ \A i \in 1 .. k :
              /\ Entry(gs, eb, i) = Entry(fs, db, i)
              /\ Size(Unshifted(Saved(gs, eb, i).refund, i - 1)) + Turnover(gs, i - 1)
                   <= MostEarned * t
         /\ MostEarned * s \in Nat /\ MostEarned * t \in Nat /\ MostEarned * s <= MostEarned * t
<1>1. \A i \in 1 .. k : Entry(gs, eb, i) = Entry(fs, db, i) /\ Turnover(gs, i - 1) = Turnover(fs, i - 1)
  BY EntriesAgree
<1>2. MostEarned * s <= MostEarned * t /\ MostEarned * s \in Nat /\ MostEarned * t \in Nat
  BY DEF MostEarned
<1>3. ASSUME NEW i \in 1 .. k
      PROVE  Size(Unshifted(Saved(gs, eb, i).refund, i - 1)) + Turnover(gs, i - 1) <= MostEarned * t
  <2>1. i \in 1 .. Len(fs) /\ i - 1 \in 0 .. Len(fs)
    OBVIOUS
  <2>2. Size(Unshifted(Saved(fs, db, i).refund, i - 1)) + Turnover(fs, i - 1) <= MostEarned * s
    BY <2>1, Zenon DEF Bounded
  <2>3. Turnover(fs, i - 1) \in Nat /\ Unshifted(Saved(fs, db, i).refund, i - 1) \in Int
    <3>1. Turnover(fs, i - 1) \in Nat /\ Saved(fs, db, i).refund \in Nat /\ refundShift \in Nat
      BY <2>1, ViewFacts, Zenon
    <3> QED
      BY ONLY <3>1 DEF Unshifted
  <2>4. Saved(gs, eb, i) = Saved(fs, db, i)
    BY Zenon DEF Agree
  <2>5. Size(Unshifted(Saved(fs, db, i).refund, i - 1)) + Turnover(fs, i - 1) <= MostEarned * t
    BY <1>2, <2>2, <2>3 DEF Size
  <2> QED
    BY <1>1, <2>4, <2>5, Zenon
<1> QED
  BY <1>1, <1>2, <1>3, Zenon

\* A step that concerns neither refunds nor snapshots, like most instructions.
LEMMA QuietStep ==
  ASSUME Induction, IInv, IInv', Bounded(frames, stateDB, spent), Len(frames') = Len(frames),
         \A i \in 1 .. Len(frames) : /\ frames'[i].refund = frames[i].refund
                                     /\ Saved(frames', stateDB', i) = Saved(frames, stateDB, i),
         stateDB'.refund = stateDB.refund, UNCHANGED <<revision, original, world>>,
         spent <= spent'
  PROVE  UNCHANGED Journal!vars /\ Bounded(frames', stateDB', spent')
<1> DEFINE n == Len(frames)
           fs == frames
           gs == frames'
           db == stateDB
           eb == stateDB'
<1>1. fs \in Seq(Frame) /\ db \in StateDB /\ Funded(fs, db) /\ spent \in Nat
  BY Zenon DEF IInv, Shape
<1>2. gs \in Seq(Frame) /\ eb \in StateDB /\ Funded(gs, eb) /\ spent' \in Nat
  BY Zenon DEF IInv, Shape
<1>3. n \in Nat
  BY <1>1
<1>4. Agree(fs, db, gs, eb, n)
  BY <1>3 DEF Agree
<1>8. /\ \A i \in 1 .. n :
           /\ Entry(gs, eb, i) = Entry(fs, db, i)
           /\ Size(Unshifted(Saved(gs, eb, i).refund, i - 1)) + Turnover(gs, i - 1)
                <= MostEarned * spent'
      /\ MostEarned * spent \in Nat /\ MostEarned * spent' \in Nat
      /\ MostEarned * spent <= MostEarned * spent'
  <2>1. n <= Len(fs)
    BY <1>3
  <2> QED
    BY <1>1, <1>2, <1>3, <1>4, <2>1, BoundKept, Zenon
<1>5. Earned(gs, n) = Earned(fs, n) /\ Turnover(gs, n) = Turnover(fs, n)
  BY <1>3, EarnedSame, Zenon
<1>6. Refund(gs, eb) = Refund(fs, db)
  BY <1>5, Zenon DEF Refund
<1>7. Entries(gs, eb) = Entries(fs, db)
  BY <1>1, <1>2, <1>8 DEF Entries
<1>9. Bounded(gs, eb, spent')
  <2>1. Size(Unshifted(eb.refund, n)) + Turnover(gs, n) <= MostEarned * spent'
    <3>1. Size(Unshifted(db.refund, n)) + Turnover(fs, n) <= MostEarned * spent
      BY Zenon DEF Bounded
    <3>2. n \in 0 .. n /\ Turnover(fs, n) \in Nat /\ Unshifted(db.refund, n) \in Int
      BY <1>1, <1>3, ViewFacts DEF Unshifted
    <3> QED
      BY <1>5, <1>8, <3>1, <3>2 DEF Size
  <2> QED
    BY <1>8, <2>1, Zenon DEF Bounded
<1> QED
  BY <1>6, <1>7, <1>9, Zenon DEF Journal!vars

\* Interpret is entered: CreateSnapshot.
LEMMA BeginStep ==
  ASSUME Induction, IInv, IInv', Bounded(frames, stateDB, spent), NEW n \in Nat, n = Len(frames),
         n < CallCreateDepth + 2, Len(frames') = n + 1,
         \A i \in 1 .. n : /\ frames'[i].refund = frames[i].refund
                           /\ Saved(frames', stateDB', i) = Saved(frames, stateDB, i),
         frames'[n + 1].refund = 0,
         Saved(frames', stateDB', n + 1) = [world |-> world, refund |-> stateDB.refund],
         Unshifted(stateDB'.refund, n + 1) = Unshifted(stateDB.refund, n),
         world'.current = world.current, world'.destructed = world.destructed,
         UNCHANGED <<revision, original>>, spent <= spent'
  PROVE  Journal!Begin /\ Bounded(frames', stateDB', spent')
<1> DEFINE fs == frames
           gs == frames'
           db == stateDB
           eb == stateDB'
           m == n + 1
<1>1. fs \in Seq(Frame) /\ db \in StateDB /\ Funded(fs, db) /\ spent \in Nat
  BY Zenon DEF IInv, Shape
<1>2. gs \in Seq(Frame) /\ eb \in StateDB /\ Funded(gs, eb) /\ spent' \in Nat
  BY Zenon DEF IInv, Shape
<1>3. /\ \A i \in 1 .. n :
           /\ Entry(gs, eb, i) = Entry(fs, db, i)
           /\ Size(Unshifted(Saved(gs, eb, i).refund, i - 1)) + Turnover(gs, i - 1)
                <= MostEarned * spent'
      /\ MostEarned * spent \in Nat /\ MostEarned * spent' \in Nat
      /\ MostEarned * spent <= MostEarned * spent'
  <2>1. n <= Len(fs) /\ Agree(fs, db, gs, eb, n)
    BY DEF Agree
  <2> QED
    BY <1>1, <1>2, <2>1, BoundKept, Zenon
<1>4. Earned(gs, n) = Earned(fs, n) /\ Turnover(gs, n) = Turnover(fs, n)
  BY EarnedSame, Zenon
<1>5. Earned(fs, n) \in Int /\ Turnover(fs, n) \in Nat /\ db.refund \in Nat /\ refundShift \in Nat
      /\ Refund(fs, db) \in Int
      /\ Entries(fs, db) \in Seq(Journal!Snapshot) /\ Len(Entries(fs, db)) = n
      /\ \A i \in 1 .. n : Entries(fs, db)[i] = Entry(fs, db, i)
  <2>1. n \in 0 .. Len(fs)
    OBVIOUS
  <2> QED
    BY <1>1, <2>1, ViewFacts, Zenon
<1>6. Earned(gs, m) = Earned(gs, n) + 0 /\ Turnover(gs, m) = Turnover(gs, n) + Size(0)
  <2>1. n \in 0 .. Len(gs) - 1
    OBVIOUS
  <2> QED
    BY <1>2, <2>1, ViewFacts, Zenon
<1>7. Entries(gs, eb) \in Seq(Journal!Snapshot) /\ Len(Entries(gs, eb)) = m
      /\ Entry(gs, eb, m) \in Journal!Snapshot
      /\ \A i \in 1 .. m : Entries(gs, eb)[i] = Entry(gs, eb, i)
  <2>1. m \in 1 .. Len(gs)
    OBVIOUS
  <2> QED
    BY <1>2, <2>1, ViewFacts, Zenon
<1>8. Refund(gs, eb) = Refund(fs, db)
  <2>1. Earned(gs, m) = Earned(fs, n)
    BY <1>4, <1>5, <1>6
  <2> QED
    BY <2>1, Zenon DEF Refund
<1>9. Entry(gs, eb, m) = Journal!Now
  <2>1. m - 1 = n /\ Refund(fs, db) = Unshifted(db.refund, n) + Earned(fs, n)
    BY DEF Refund
  <2>2. Earned(gs, m - 1) = Earned(fs, n)
    BY <1>4, <2>1, Zenon
  <2>3. Unshifted(Saved(gs, eb, m).refund, m - 1) = Unshifted(db.refund, n)
    BY <2>1
  <2> QED
    BY <2>1, <2>2, <2>3 DEF Entry, Journal!Now
<1>10. Entries(gs, eb) = Append(Entries(fs, db), Journal!Now)
  <2> DEFINE q == Entries(fs, db)
             e == Entries(gs, eb)
             x == Journal!Now
  <2>1. q \in Seq(Journal!Snapshot) /\ e \in Seq(Journal!Snapshot) /\ x \in Journal!Snapshot /\ Len(q) = n
        /\ Len(e) = n + 1 /\ e[n + 1] = x /\ \A i \in 1 .. n : e[i] = q[i]
    BY <1>3, <1>5, <1>7, <1>9
  <2> HIDE DEF q, e, x
  <2>2. e = Append(q, x)
    BY <2>1, PushEqual, Zenon
  <2> QED
    BY <2>2, Zenon DEF q, e, x
<1>11. Journal!Begin
  BY <1>5, <1>8, <1>10, Zenon DEF Journal!Begin
<1>12. Bounded(gs, eb, spent')
  <2>1. Unshifted(db.refund, n) \in Int
    BY <1>5 DEF Unshifted
  <2>2. Size(Unshifted(db.refund, n)) + Turnover(fs, n) <= MostEarned * spent
    BY Zenon DEF Bounded
  <2>3. Size(Unshifted(db.refund, n)) + Turnover(fs, n) <= MostEarned * spent'
    BY <1>3, <1>5, <2>1, <2>2 DEF Size
  <2>4. Size(Unshifted(Saved(gs, eb, m).refund, m - 1)) + Turnover(gs, m - 1) <= MostEarned * spent'
    <3>1. m - 1 = n /\ Saved(gs, eb, m).refund = db.refund
      OBVIOUS
    <3> QED
      BY <1>4, <2>3, <3>1, Zenon
  <2>5. Size(Unshifted(eb.refund, m)) + Turnover(gs, m) <= MostEarned * spent'
    <3>1. Turnover(gs, m) = Turnover(fs, n)
      BY <1>4, <1>5, <1>6 DEF Size
    <3> QED
      BY <2>3, <3>1, Zenon
  <2>6. \A i \in 1 .. Len(gs) : i \in 1 .. n \/ i = m
    OBVIOUS
  <2> QED
    BY <1>3, <2>4, <2>5, <2>6, Zenon DEF Bounded
<1> QED
  BY <1>11, <1>12, Zenon

\* What a single instruction earns or gives back.
LEMMA EarnedBySstore ==
  ASSUME NEW r \in Revision, NEW status
  PROVE  getRefundForSstore(r, status) \in Int /\ Size(getRefundForSstore(r, status)) <= MostEarned
BY DEF getRefundForSstore, ClearRefund, RestoreRefund, Size, MostEarned

LEMMA EarnedBySelfDestruct ==
  ASSUME NEW d, NEW r
  PROVE  selfDestructRefund(d, r) \in Nat /\ Size(selfDestructRefund(d, r)) <= MostEarned
BY DEF selfDestructRefund, Size, MostEarned

\* The running interpreter counts the refund of an SSTORE.
LEMMA WriteStep ==
  ASSUME Induction, IInv, IInv', Bounded(frames, stateDB, spent), NEW n \in Nat \ {0}, n = Len(frames),
         Len(frames') = n, NEW slot \in Slot, NEW word \in Word,
         \A i \in 1 .. n - 1 : frames'[i].refund = frames[i].refund,
         frames'[n].refund = frames[n].refund + getRefundForSstore(revision,
           GetStorageStatus(original[slot], world.current[slot], word)),
         \A i \in 1 .. n : Saved(frames', stateDB', i) = Saved(frames, stateDB, i),
         stateDB'.refund = stateDB.refund, UNCHANGED <<revision, original>>,
         world' = [world EXCEPT !.current[slot] = word],
         spent' = spent + 1, MostEarned * spent' <= MaxRefund
  PROVE  Journal!Sstore(slot, word) /\ Bounded(frames', stateDB', spent')
<1> DEFINE fs == frames
           gs == frames'
           db == stateDB
           eb == stateDB'
           m == n - 1
           x == Unshifted(db.refund, n)
           earned == getRefundForSstore(revision,
                       GetStorageStatus(original[slot], world.current[slot], word))
<1>1. fs \in Seq(Frame) /\ db \in StateDB /\ Funded(fs, db) /\ spent \in Nat /\ world \in World
      /\ revision \in Revision
  BY Zenon DEF IInv, Shape
<1>2. gs \in Seq(Frame) /\ eb \in StateDB /\ Funded(gs, eb) /\ spent' \in Nat
  BY Zenon DEF IInv, Shape
<1>3. /\ \A i \in 1 .. n :
           /\ Entry(gs, eb, i) = Entry(fs, db, i)
           /\ Size(Unshifted(Saved(gs, eb, i).refund, i - 1)) + Turnover(gs, i - 1)
                <= MostEarned * spent'
      /\ MostEarned * spent \in Nat /\ MostEarned * spent' \in Nat
  <2>1. n <= Len(fs) /\ Agree(fs, db, gs, eb, n) /\ spent <= spent'
    BY <1>1 DEF Agree
  <2> QED
    BY <1>1, <1>2, <2>1, BoundKept
<1>4. earned \in Int /\ Size(earned) <= MostEarned
  BY <1>1, EarnedBySstore, Zenon
<1>5. m \in Nat /\ n = m + 1 /\ m \in 0 .. Len(fs) - 1 /\ m \in 0 .. Len(fs)
  OBVIOUS
<1>6. Earned(gs, m) = Earned(fs, m) /\ Turnover(gs, m) = Turnover(fs, m)
  <2> HIDE DEF m
  <2> QED
    BY <1>5, EarnedSame, Zenon DEF m
<1>7. /\ Earned(fs, n) = Earned(fs, m) + fs[n].refund /\ Earned(fs, m) \in Int
      /\ Turnover(fs, n) = Turnover(fs, m) + Size(fs[n].refund) /\ Turnover(fs, m) \in Nat
      /\ fs[n].refund \in Int /\ x \in Int
  <2>1. n \in 1 .. Len(fs)
    OBVIOUS
  <2>2. x \in Int
    BY <1>1, ViewFacts DEF Unshifted
  <2> HIDE DEF m, x
  <2> QED
    BY <1>1, <1>5, <2>1, <2>2, ViewFacts, Zenon
<1>8. /\ Earned(gs, n) = Earned(gs, m) + gs[n].refund
      /\ Turnover(gs, n) = Turnover(gs, m) + Size(gs[n].refund)
  <2> HIDE DEF m
  <2> QED
    BY <1>2, <1>5, ViewFacts
<1> HIDE DEF earned, m, x
<1>9. Size(x) + Turnover(fs, n) <= MostEarned * spent
  BY Zenon DEF Bounded, x
<1>10. MostEarned * spent' = MostEarned * spent + MostEarned
  BY <1>1 DEF MostEarned
<1>11. gs[n].refund = fs[n].refund + earned
  BY Zenon DEF earned
<1>12. Size(x) + Turnover(gs, n) <= MostEarned * spent'
  <2>1. Size(gs[n].refund) <= Size(fs[n].refund) + Size(earned)
    BY <1>4, <1>7, <1>11 DEF Size
  <2>2. Size(x) \in Nat /\ Size(fs[n].refund) \in Nat /\ Size(earned) \in Nat /\ Size(gs[n].refund) \in Nat
    <3>1. \A y \in Int : Size(y) \in Nat
      BY DEF Size
    <3>2. gs[n].refund \in Int
      BY <1>4, <1>7, <1>11
    <3> QED
      BY <1>4, <1>7, <3>1, <3>2, Zenon
  <2>3. MostEarned \in Nat
    BY DEF MostEarned
  <2>4. Turnover(gs, n) <= Turnover(fs, n) + Size(earned) /\ Turnover(fs, n) \in Nat
        /\ Turnover(gs, n) \in Nat
    BY <1>6, <1>7, <1>8, <2>1, <2>2
  <2> QED
    BY <1>3, <1>4, <1>9, <1>10, <2>2, <2>3, <2>4
<1>13. Bounded(gs, eb, spent')
  <2>1. eb.refund = db.refund /\ Len(gs) = n
    BY Zenon
  <2> QED
    BY <1>3, <1>12, <2>1, Zenon DEF Bounded, x
<1>14. Refund(gs, eb) = Refund(fs, db) + earned /\ Refund(gs, eb) \in Int /\ Refund(fs, db) \in Int
  <2>1. Refund(gs, eb) = x + Earned(gs, n) /\ Refund(fs, db) = x + Earned(fs, n)
    BY Zenon DEF Refund, x
  <2>2. Earned(gs, n) = Earned(fs, n) + earned /\ Earned(fs, n) \in Int
    BY <1>4, <1>6, <1>7, <1>8, <1>11
  <2> QED
    BY <1>4, <1>7, <2>1, <2>2
<1>15. Refund(gs, eb) <= MaxRefund
  <2>1. Refund(gs, eb) = x + Earned(gs, n) /\ MaxRefund \in Nat
    BY EncodingAssumption, Zenon DEF Refund, x
  <2>2. Earned(gs, n) <= Turnover(gs, n) /\ Earned(gs, n) \in Int /\ Turnover(gs, n) \in Nat
    <3>1. n \in 0 .. Len(gs)
      OBVIOUS
    <3> QED
      BY <1>2, <3>1, ViewFacts, Zenon
  <2>3. x <= Size(x) /\ Size(x) \in Nat
    BY <1>7 DEF Size
  <2> QED
    BY <1>3, <1>7, <1>12, <2>1, <2>2, <2>3
<1>16. Entries(gs, eb) = Entries(fs, db)
  BY <1>1, <1>2, <1>3 DEF Entries
<1>17. Entries(fs, db) # <<>>
  <2>1. Len(Entries(fs, db)) = n
    BY <1>1, ViewFacts, Zenon
  <2> QED
    BY <2>1, Zenon
<1>18. world'.current = [world.current EXCEPT ![slot] = word] /\ world'.destructed = world.destructed
  BY <1>1, Zenon DEF World
<1>19. earned = Journal!getRefundForSstore(revision,
                  Journal!GetStorageStatus(original[slot], world.current[slot], word))
  BY SameRules, Zenon DEF earned
<1>20. Journal!Sstore(slot, word)
  BY <1>14, <1>15, <1>16, <1>17, <1>18, <1>19, Zenon DEF Journal!Sstore
<1> QED
  BY <1>13, <1>20, Zenon

\* What leaving a call does to the calls below it.
LEMMA PoppedEntries ==
  ASSUME Induction, IInv, IInv', Bounded(frames, stateDB, spent), NEW m \in Nat,
         m + 1 = Len(frames), Len(frames') = m,
         \A i \in 1 .. m : /\ frames'[i].refund = frames[i].refund
                           /\ Saved(frames', stateDB', i) = Saved(frames, stateDB, i),
         spent <= spent'
  PROVE  /\ \A i \in 1 .. m :
              Size(Unshifted(Saved(frames', stateDB', i).refund, i - 1)) + Turnover(frames', i - 1)
                <= MostEarned * spent'
         /\ Entries(frames', stateDB')
              = SubSeq(Entries(frames, stateDB), 1, Len(Entries(frames, stateDB)) - 1)
         /\ Entries(frames, stateDB) # <<>>
         /\ Entries(frames, stateDB)[Len(Entries(frames, stateDB))] = Entry(frames, stateDB, m + 1)
         /\ Earned(frames', m) = Earned(frames, m) /\ Turnover(frames', m) = Turnover(frames, m)
         /\ Earned(frames, m) \in Int /\ Turnover(frames, m) \in Nat
         /\ Earned(frames, m + 1) = Earned(frames, m) + frames[m + 1].refund
         /\ Turnover(frames, m + 1) = Turnover(frames, m) + Size(frames[m + 1].refund)
         /\ frames[m + 1].refund \in Int
         /\ Saved(frames, stateDB, m + 1).refund \in Nat
         /\ stateDB.refund \in Nat /\ stateDB'.refund \in Nat /\ refundShift \in Nat
<1> DEFINE fs == frames
           gs == frames'
           db == stateDB
           eb == stateDB'
           q == Entries(fs, db)
           e == Entries(gs, eb)
<1>1. fs \in Seq(Frame) /\ db \in StateDB /\ Funded(fs, db) /\ spent \in Nat
  BY Zenon DEF IInv, Shape
<1>2. gs \in Seq(Frame) /\ eb \in StateDB /\ Funded(gs, eb) /\ spent' \in Nat
  BY Zenon DEF IInv, Shape
<1>3. \A i \in 1 .. m :
        /\ Entry(gs, eb, i) = Entry(fs, db, i)
        /\ Size(Unshifted(Saved(gs, eb, i).refund, i - 1)) + Turnover(gs, i - 1)
             <= MostEarned * spent'
  <2>1. m <= Len(fs) /\ Agree(fs, db, gs, eb, m)
    BY DEF Agree
  <2> QED
    BY <1>1, <1>2, <2>1, BoundKept, Zenon
<1>4. Earned(gs, m) = Earned(fs, m) /\ Turnover(gs, m) = Turnover(fs, m)
  BY EarnedSame, Zenon
<1>5. m \in 0 .. Len(fs) /\ m \in 0 .. Len(fs) - 1 /\ m + 1 \in 1 .. Len(fs)
  OBVIOUS
<1>6. /\ Earned(fs, m) \in Int /\ Turnover(fs, m) \in Nat
      /\ Earned(fs, m + 1) = Earned(fs, m) + fs[m + 1].refund
      /\ Turnover(fs, m + 1) = Turnover(fs, m) + Size(fs[m + 1].refund)
      /\ fs[m + 1].refund \in Int /\ Saved(fs, db, m + 1).refund \in Nat
      /\ db.refund \in Nat /\ refundShift \in Nat
  BY <1>1, <1>5, ViewFacts, Zenon
<1>7. eb.refund \in Nat
  BY <1>2, ViewFacts, Zenon
<1>8. q \in Seq(Journal!Snapshot) /\ Len(q) = m + 1 /\ \A i \in 1 .. m + 1 : q[i] = Entry(fs, db, i)
  BY <1>1, ViewFacts, Zenon
<1>9. e \in Seq(Journal!Snapshot) /\ Len(e) = m /\ \A i \in 1 .. m : e[i] = Entry(gs, eb, i)
  BY <1>2, ViewFacts, Zenon
<1>10. e = SubSeq(q, 1, Len(q) - 1) /\ q # <<>> /\ q[Len(q)] = Entry(fs, db, m + 1)
  <2> HIDE DEF q, e
  <2>1. q # <<>> /\ Len(e) = Len(q) - 1 /\ q[Len(q)] = Entry(fs, db, m + 1)
    BY <1>8, <1>9
  <2>2. \A i \in 1 .. Len(e) : e[i] = q[i]
    BY <1>3, <1>8, <1>9
  <2>3. e = SubSeq(q, 1, Len(q) - 1)
    BY <1>8, <1>9, <2>1, <2>2, PopEqual, Zenon
  <2> QED
    BY <2>1, <2>3, Zenon
<1> QED
  BY <1>3, <1>4, <1>6, <1>7, <1>10, Zenon

\* A call is left and the StateDB has its refund, and earned on top of it.
LEMMA KeepStep ==
  ASSUME Induction, IInv, IInv', Bounded(frames, stateDB, spent), NEW m \in Nat,
         m + 1 = Len(frames), Len(frames') = m,
         \A i \in 1 .. m : /\ frames'[i].refund = frames[i].refund
                           /\ Saved(frames', stateDB', i) = Saved(frames, stateDB, i),
         NEW earned \in Int,
         Unshifted(stateDB'.refund, m) =
           Unshifted(stateDB.refund, m + 1) + frames[m + 1].refund + earned,
         spent <= spent', MostEarned * spent + Size(earned) <= MostEarned * spent'
  PROVE  /\ Refund(frames', stateDB') = Refund(frames, stateDB) + earned
         /\ Entries(frames', stateDB')
              = SubSeq(Entries(frames, stateDB), 1, Len(Entries(frames, stateDB)) - 1)
         /\ Entries(frames, stateDB) # <<>>
         /\ Bounded(frames', stateDB', spent')
<1> DEFINE fs == frames
           gs == frames'
           db == stateDB
           eb == stateDB'
           x == Unshifted(db.refund, m + 1)
           y == Unshifted(eb.refund, m)
           r == fs[m + 1].refund
<1>1. /\ \A i \in 1 .. m :
           Size(Unshifted(Saved(gs, eb, i).refund, i - 1)) + Turnover(gs, i - 1)
             <= MostEarned * spent'
      /\ Entries(gs, eb) = SubSeq(Entries(fs, db), 1, Len(Entries(fs, db)) - 1)
      /\ Entries(fs, db) # <<>>
      /\ Earned(gs, m) = Earned(fs, m) /\ Turnover(gs, m) = Turnover(fs, m)
      /\ Earned(fs, m) \in Int /\ Turnover(fs, m) \in Nat
      /\ Earned(fs, m + 1) = Earned(fs, m) + r
      /\ Turnover(fs, m + 1) = Turnover(fs, m) + Size(r)
      /\ r \in Int /\ db.refund \in Nat /\ refundShift \in Nat
  BY PoppedEntries, Zenon
<1>2. x \in Int /\ y = x + r + earned
  BY <1>1 DEF Unshifted
<1>3. Refund(fs, db) = x + Earned(fs, m + 1) /\ Refund(gs, eb) = y + Earned(gs, m)
  BY Zenon DEF Refund
<1>4. Size(x) + Turnover(fs, m + 1) <= MostEarned * spent
  BY DEF Bounded
<1>5. MostEarned * spent \in Nat /\ MostEarned * spent' \in Nat
  <2>1. spent \in Nat /\ spent' \in Nat
    BY Zenon DEF IInv, Shape
  <2> QED
    BY <2>1 DEF MostEarned
<1> HIDE DEF x, y, r
<1>6. Refund(gs, eb) = Refund(fs, db) + earned
  BY <1>1, <1>2, <1>3
<1>7. Size(y) <= Size(x) + Size(r) + Size(earned)
  BY <1>1, <1>2 DEF Size
<1>8. Size(x) \in Nat /\ Size(r) \in Nat /\ Size(earned) \in Nat /\ Size(y) \in Nat
  <2>1. \A z \in Int : Size(z) \in Nat
    BY DEF Size
  <2>2. y \in Int
    BY <1>1, <1>2
  <2> QED
    BY <1>1, <1>2, <2>1, <2>2, Zenon
<1>9. Size(y) + Turnover(gs, m) <= MostEarned * spent'
  <2>1. /\ Turnover(gs, m) = Turnover(fs, m) /\ Turnover(fs, m) \in Nat
        /\ Turnover(fs, m + 1) = Turnover(fs, m) + Size(r)
        /\ MostEarned * spent + Size(earned) <= MostEarned * spent'
    BY <1>1, Zenon
  <2> QED
    BY ONLY <1>4, <1>5, <1>7, <1>8, <2>1
<1>10. Bounded(gs, eb, spent')
  BY <1>1, <1>9, Zenon DEF Bounded, y
<1> QED
  BY <1>1, <1>6, <1>10, Zenon

\* A call is left and everything is as it was before.
LEMMA AbortStep ==
  ASSUME Induction, IInv, IInv', Bounded(frames, stateDB, spent), NEW m \in Nat,
         m + 1 = Len(frames), Len(frames') = m,
         \A i \in 1 .. m : /\ frames'[i].refund = frames[i].refund
                           /\ Saved(frames', stateDB', i) = Saved(frames, stateDB, i),
         stateDB'.refund = Saved(frames, stateDB, m + 1).refund,
         world' = Saved(frames, stateDB, m + 1).world,
         UNCHANGED <<revision, original>>, spent <= spent'
  PROVE  Journal!Abort /\ Bounded(frames', stateDB', spent')
<1> DEFINE fs == frames
           gs == frames'
           db == stateDB
           eb == stateDB'
           x == Unshifted(Saved(fs, db, m + 1).refund, m)
<1>1. /\ \A i \in 1 .. m :
           Size(Unshifted(Saved(gs, eb, i).refund, i - 1)) + Turnover(gs, i - 1)
             <= MostEarned * spent'
      /\ Entries(gs, eb) = SubSeq(Entries(fs, db), 1, Len(Entries(fs, db)) - 1)
      /\ Entries(fs, db) # <<>>
      /\ Entries(fs, db)[Len(Entries(fs, db))] = Entry(fs, db, m + 1)
      /\ Earned(gs, m) = Earned(fs, m) /\ Turnover(gs, m) = Turnover(fs, m)
      /\ Turnover(fs, m) \in Nat
      /\ Saved(fs, db, m + 1).refund \in Nat /\ refundShift \in Nat
  BY PoppedEntries, Zenon
<1>2. Refund(gs, eb) = Entry(fs, db, m + 1).refund
  <2>1. m + 1 - 1 = m
    OBVIOUS
  <2>2. Refund(gs, eb) = x + Earned(gs, m)
    BY Zenon DEF Refund
  <2>3. Entry(fs, db, m + 1).refund = x + Earned(fs, m)
    BY <2>1 DEF Entry
  <2> QED
    BY <1>1, <2>2, <2>3, Zenon
<1>3. /\ Entry(fs, db, m + 1).current = world'.current
      /\ Entry(fs, db, m + 1).destructed = world'.destructed
  BY Zenon DEF Entry
<1>4. Journal!Abort
  BY <1>1, <1>2, <1>3, Zenon DEF Journal!Abort
<1>5. Size(x) + Turnover(gs, m) <= MostEarned * spent'
  <2>1. m + 1 \in 1 .. Len(fs) /\ m + 1 - 1 = m
    OBVIOUS
  <2>2. Size(x) + Turnover(fs, m) <= MostEarned * spent
    BY <2>1 DEF Bounded
  <2>3. x \in Int
    BY <1>1 DEF Unshifted
  <2>4. MostEarned * spent <= MostEarned * spent' /\ MostEarned * spent \in Nat
        /\ MostEarned * spent' \in Nat
    <3>1. spent \in Nat /\ spent' \in Nat
      BY DEF IInv, Shape
    <3>2. \A s, t \in Nat : s <= t => MostEarned * s <= MostEarned * t /\ MostEarned * s \in Nat
                                     /\ MostEarned * t \in Nat
      BY DEF MostEarned
    <3> QED
      BY <3>1, <3>2, Zenon
  <2>5. Size(x) \in Nat
    BY <2>3 DEF Size
  <2> HIDE DEF x
  <2> QED
    BY <1>1, <2>2, <2>4, <2>5
<1>6. Bounded(gs, eb, spent')
  BY <1>1, <1>5, Zenon DEF Bounded
<1> QED
  BY <1>4, <1>6, Zenon

\* The frames after the caller paid, and the snapshots after another one.
LEMMA PaidSame ==
  ASSUME IInv, NEW given \in 0 .. GasLimit, CanPay(given)
  PROVE  /\ Paid(given) \in Seq(Frame) /\ Len(Paid(given)) = Len(frames) /\ frames # <<>>
         /\ \A i \in 1 .. Len(frames) : /\ Paid(given)[i].refund = frames[i].refund
                                        /\ Paid(given)[i].snapshot = frames[i].snapshot
<1>1. frames \in Seq(Frame) /\ running = Len(frames) /\ frames # <<>> /\ Len(frames) \in Nat
  BY DEF IInv, Shape, running, CanPay
<1>2. Paid(given) \in Seq(Frame) /\ Len(Paid(given)) = Len(frames)
  BY <1>1, PaidKeeps, Zenon
<1>3. ASSUME NEW i \in 1 .. Len(frames)
      PROVE  /\ Paid(given)[i].refund = frames[i].refund
             /\ Paid(given)[i].snapshot = frames[i].snapshot
  <2>1. frames[i] \in Frame
    BY <1>1
  <2>2. CASE i = running
    <3>1. Paid(given)[i] = [frames[i] EXCEPT !.gas = @ - 1 - given]
      BY <1>1, <2>2 DEF Paid
    <3> QED
      BY <2>1, <3>1, Zenon DEF Frame
  <2>3. CASE i # running
    <3>1. Paid(given)[i] = frames[i]
      BY <1>1, <2>3 DEF Paid
    <3> QED
      BY <3>1, Zenon
  <2> QED
    BY <2>2, <2>3, Zenon
<1> QED
  BY <1>1, <1>2, <1>3, Zenon

LEMMA SnapshotsSame ==
  ASSUME IInv, NEW fs, NEW db,
         db.snapshots = Append(stateDB.snapshots, [world |-> world, refund |-> stateDB.refund]),
         NEW n \in Nat, n <= Len(frames), \A i \in 1 .. n : fs[i].snapshot = frames[i].snapshot
  PROVE  /\ \A i \in 1 .. n : Saved(fs, db, i) = Saved(frames, stateDB, i)
         /\ Len(db.snapshots) = Len(stateDB.snapshots) + 1
         /\ db.snapshots[Len(stateDB.snapshots) + 1] = [world |-> world, refund |-> stateDB.refund]
<1> DEFINE x == [world |-> world, refund |-> stateDB.refund]
           q == stateDB.snapshots
<1>1. q \in Seq(Remembered) /\ x \in Remembered
  BY Zenon DEF IInv, Shape, StateDB, Remembered
<1>2. \A i \in 1 .. n : frames[i].snapshot \in DOMAIN q
  BY DEF IInv, Funded
<1>3. db.snapshots = Append(q, x)
  BY Zenon
<1> HIDE DEF x, q
<1>4. /\ Len(Append(q, x)) = Len(q) + 1 /\ Append(q, x)[Len(q) + 1] = x
      /\ \A k \in DOMAIN q : Append(q, x)[k] = q[k]
  BY <1>1, PushProperties
<1>5. ASSUME NEW i \in 1 .. n PROVE Saved(fs, db, i) = Saved(frames, stateDB, i)
  BY <1>2, <1>3, <1>4, Zenon DEF Saved, q
<1> QED
  BY <1>3, <1>4, <1>5, Zenon DEF q, x

\* The same for a state of geth that a call entered.
LEMMA EnterState ==
  ASSUME IInv, NEW callers \in Seq(Frame), NEW kind, NEW address, NEW gas, NEW given,
         Enter(callers, kind, address, gas, given)
  PROVE  /\ stateDB'.snapshots =
              Append(stateDB.snapshots, [world |-> world, refund |-> stateDB.refund])
         /\ stateDB'.refund = IF Len(callers) = 0 THEN (stateDB.refund + refundShift) % refundLimit
                              ELSE stateDB.refund
         /\ world'.current = world.current /\ world'.destructed = world.destructed
         /\ Len(frames') = Len(callers) + 1
         /\ \A i \in 1 .. Len(callers) : frames'[i] = callers[i]
         /\ frames'[Len(callers) + 1].refund = 0
         /\ frames'[Len(callers) + 1].snapshot = Len(stateDB'.snapshots)
<1> DEFINE db == Snapshot(stateDB)
           created == IF kind = "Create" THEN CreateContract(db, address) ELSE db
           f == [kind |-> kind, address |-> address,
                 readOnly |-> decodeReadOnly(Len(callers), kind = "StaticCall", gas),
                 snapshot |-> Len(db.snapshots), given |-> given,
                 gas |-> decodeGas(Len(callers), gas), refund |-> 0]
           x == [world |-> world, refund |-> stateDB.refund]
<1>1. /\ stateDB' = IF Len(callers) = 0 THEN AddRefund(created, refundShift) ELSE created
      /\ world' = IF kind = "Create" THEN [world EXCEPT !.created = @ \cup {address}] ELSE world
      /\ frames' = Append(callers, f)
  BY Zenon DEF Enter
<1>2. stateDB \in StateDB /\ world \in World
  BY Zenon DEF IInv, Shape
<1>3. db.snapshots = Append(stateDB.snapshots, x) /\ db.refund = stateDB.refund
      /\ db \in StateDB
  <2>1. db \in StateDB
    BY <1>2, SnapshotType, Zenon
  <2> QED
    BY <1>2, <2>1, Zenon DEF Snapshot, StateDB
<1> HIDE DEF db
<1>4. created.snapshots = db.snapshots /\ created.refund = db.refund
      /\ AddRefund(created, refundShift).snapshots = db.snapshots
      /\ AddRefund(created, refundShift).refund = (db.refund + refundShift) % refundLimit
  <2>1. \A d \in StateDB : /\ AddRefund(d, refundShift).snapshots = d.snapshots
                           /\ AddRefund(d, refundShift).refund = (d.refund + refundShift) % refundLimit
    BY Zenon DEF AddRefund, StateDB
  <2>2. CASE kind = "Create"
    BY <1>3, <2>2, Zenon DEF CreateContract, AddRefund, StateDB
  <2>3. CASE kind # "Create"
    BY <1>3, <2>1, <2>3, Zenon
  <2> QED
    BY <2>2, <2>3, Zenon
<1>5. world'.current = world.current /\ world'.destructed = world.destructed
  BY <1>1, <1>2, Zenon DEF World
<1>6. stateDB'.snapshots = db.snapshots
      /\ stateDB'.refund = IF Len(callers) = 0 THEN (stateDB.refund + refundShift) % refundLimit
                           ELSE stateDB.refund
  <2> HIDE DEF created
  <2> QED
    BY <1>1, <1>3, <1>4, Zenon
<1>7. f.refund = 0 /\ f.snapshot = Len(db.snapshots)
  BY Zenon
<1> HIDE DEF f, created, x
<1>8. /\ Len(frames') = Len(callers) + 1 /\ frames'[Len(callers) + 1] = f
      /\ \A i \in 1 .. Len(callers) : frames'[i] = callers[i]
  BY <1>1
<1> QED
  BY <1>3, <1>5, <1>6, <1>7, <1>8, Zenon DEF x

LEMMA NoWrap == \A a \in Nat : a < refundLimit => a % refundLimit = a
BY EncodingAssumption

LEMMA EnterBegins ==
  ASSUME Induction, IInv, IInv', Bounded(frames, stateDB, spent), NEW callers \in Seq(Frame),
         NEW n \in Nat, n = Len(frames), Len(callers) = n,
         \A i \in 1 .. n : /\ callers[i].refund = frames[i].refund
                           /\ callers[i].snapshot = frames[i].snapshot,
         NEW kind, NEW address, NEW gas, NEW given, Enter(callers, kind, address, gas, given),
         n < CallCreateDepth + 2, n = 0 => stateDB.refund < refundShift,
         UNCHANGED <<revision, original>>, spent <= spent'
  PROVE  Journal!Begin /\ Bounded(frames', stateDB', spent')
<1>1. /\ stateDB'.snapshots =
           Append(stateDB.snapshots, [world |-> world, refund |-> stateDB.refund])
      /\ stateDB'.refund = IF n = 0 THEN (stateDB.refund + refundShift) % refundLimit
                           ELSE stateDB.refund
      /\ world'.current = world.current /\ world'.destructed = world.destructed
      /\ Len(frames') = n + 1
      /\ \A i \in 1 .. n : frames'[i] = callers[i]
      /\ frames'[n + 1].refund = 0
      /\ frames'[n + 1].snapshot = Len(stateDB'.snapshots)
  BY EnterState, Zenon
<1>2. \A i \in 1 .. n : /\ frames'[i].refund = frames[i].refund
                        /\ frames'[i].snapshot = frames[i].snapshot
  BY <1>1, Zenon
<1>3. /\ \A i \in 1 .. n : Saved(frames', stateDB', i) = Saved(frames, stateDB, i)
      /\ Len(stateDB'.snapshots) = Len(stateDB.snapshots) + 1
      /\ stateDB'.snapshots[Len(stateDB.snapshots) + 1]
           = [world |-> world, refund |-> stateDB.refund]
  <2> DEFINE fs == frames'
             db == stateDB'
  <2>1. /\ db.snapshots = Append(stateDB.snapshots, [world |-> world, refund |-> stateDB.refund])
        /\ n <= Len(frames) /\ \A i \in 1 .. n : fs[i].snapshot = frames[i].snapshot
    BY <1>1, <1>2
  <2> HIDE DEF fs, db
  <2>2. /\ \A i \in 1 .. n : Saved(fs, db, i) = Saved(frames, stateDB, i)
        /\ Len(db.snapshots) = Len(stateDB.snapshots) + 1
        /\ db.snapshots[Len(stateDB.snapshots) + 1] = [world |-> world, refund |-> stateDB.refund]
    BY <2>1, SnapshotsSame, Zenon
  <2> QED
    BY <2>2, Zenon DEF fs, db
<1>4. Saved(frames', stateDB', n + 1) = [world |-> world, refund |-> stateDB.refund]
  BY <1>1, <1>3, Zenon DEF Saved
<1>5. Unshifted(stateDB'.refund, n + 1) = Unshifted(stateDB.refund, n)
  <2>1. CASE n = 0
    <3>1. stateDB.refund \in Nat /\ refundShift \in Nat /\ refundLimit \in Nat
          /\ 2 * refundShift <= refundLimit
      BY EncodingAssumption DEF IInv, Shape, StateDB
    <3>2. stateDB.refund + refundShift \in Nat /\ stateDB.refund + refundShift < refundLimit
      BY <2>1, <3>1
    <3>3. (stateDB.refund + refundShift) % refundLimit = stateDB.refund + refundShift
      BY <3>2, NoWrap, Zenon
    <3> QED
      BY <1>1, <2>1, <3>1, <3>3 DEF Unshifted
  <2>2. CASE n # 0
    <3>1. stateDB'.refund = stateDB.refund /\ n + 1 # 0
      BY <1>1, <2>2
    <3> QED
      BY <2>2, <3>1, Zenon DEF Unshifted
  <2> QED
    BY <2>1, <2>2, Zenon
<1> QED
  BY <1>1, <1>2, <1>3, <1>4, <1>5, BeginStep, Zenon

\* The gas limit bounds what was spent, and with it the refund.
LEMMA SpentFits == ASSUME Induction PROVE IInv /\ Balanced => spent <= GasLimit
<1> SUFFICES ASSUME IInv, Balanced PROVE spent <= GasLimit
  BY Zenon
<1>1. GasLimit \in Nat /\ spent \in Nat /\ frames \in Seq(Frame)
      /\ receipt \in Receipt \cup {Running}
  BY EncodingAssumption, Zenon DEF IInv, Shape
<1>2. CASE receipt.done
  <2>1. receipt.gas \in Nat
    <3>1. ~Running.done
      BY Zenon DEF Running
    <3>2. receipt \in Receipt
      BY <1>1, <1>2, <3>1, Zenon
    <3> QED
      BY <3>2, Zenon DEF Receipt
  <2> QED
    BY <1>1, <1>2, <2>1 DEF Balanced
<1>3. CASE ~receipt.done /\ frames = <<>>
  BY <1>1, <1>3 DEF Balanced
<1>4. CASE ~receipt.done /\ frames # <<>>
  <2>1. Held(frames) \in Nat
    BY <1>1, HeldFacts
  <2> QED
    BY <1>1, <1>4, <2>1 DEF Balanced
<1> QED
  BY <1>2, <1>3, <1>4, Zenon

LEMMA EarnedFits ==
  ASSUME RefundsFit, IInv, NEW units \in Nat, units <= GasLimit
  PROVE  MostEarned * units <= MaxRefund /\ MostEarned * units \in Nat
<1>1. GasLimit \in Nat /\ MaxRefund \in Nat /\ MostEarned * GasLimit <= MaxRefund
  BY EncodingAssumption, Zenon DEF RefundsFit
<1> QED
  BY <1>1 DEF MostEarned

\* How Leave finds the calls below.
LEMMA LeaveBelow ==
  ASSUME IInv, frames # <<>>,
         NEW f \in Frame, f.snapshot = top.snapshot, f.given = top.given, f.gas <= top.gas,
         NEW w, NEW outcome, NEW rejected, Leave(f, w, outcome, rejected)
  PROVE  /\ Len(frames) - 1 \in Nat /\ Len(frames') = Len(frames) - 1
         /\ \A i \in 1 .. Len(frames) - 1 : /\ frames'[i].refund = frames[i].refund
                                            /\ frames'[i].snapshot = frames[i].snapshot
         /\ UNCHANGED <<revision, original>>
         /\ spent <= spent'
<1> DEFINE n == Len(frames)
           p == SubSeq(frames, 1, n - 1)
           kept == outcome = "success" /\ ~rejected
           returnGas == IF kept \/ outcome = "revert" THEN f.gas ELSE 0
<1>1. frames \in Seq(Frame) /\ running = n /\ n \in Nat \ {0} /\ top = frames[n] /\ spent \in Nat
  BY DEF IInv, Shape, running, top
<1>2. p \in Seq(Frame) /\ Len(p) = n - 1 /\ \A i \in 1 .. n - 1 : p[i] = frames[i]
  BY <1>1, PopProperties, Zenon
<1>3. UNCHANGED <<revision, original>> /\ spent' = spent + top.gas - returnGas
  BY Zenon DEF Leave
<1>4. top \in Frame
  BY <1>1
<1>5. spent <= spent'
  <2>1. top.gas \in Nat /\ f.gas \in Nat
    BY <1>4, Zenon DEF Frame
  <2>2. returnGas \in Nat /\ returnGas <= top.gas
    BY <2>1
  <2> HIDE DEF returnGas
  <2> QED
    BY <1>1, <1>3, <2>1, <2>2
<1>6. CASE n = 1
  <2>1. frames' = <<>>
    BY <1>1, <1>6, Zenon DEF Leave
  <2> QED
    BY <1>1, <1>3, <1>5, <1>6, <2>1
<1>7. CASE n # 1
  <2> DEFINE back == gasLeft(returnGas, f.given)
  <2>1. frames' = [p EXCEPT ![n - 1].gas = @ + back]
    BY <1>1, <1>7, Zenon DEF Leave
  <2> HIDE DEF p, back
  <2>2. Len(frames') = n - 1
    BY <1>1, <1>2, <2>1
  <2>3. ASSUME NEW i \in 1 .. n - 1
        PROVE  frames'[i].refund = frames[i].refund /\ frames'[i].snapshot = frames[i].snapshot
    <3>1. frames[i] \in Frame /\ p[i] = frames[i] /\ DOMAIN p = 1 .. n - 1
      BY <1>1, <1>2
    <3>2. frames'[i] = IF i = n - 1 THEN [frames[i] EXCEPT !.gas = @ + back] ELSE frames[i]
      BY <2>1, <3>1, Zenon
    <3> QED
      BY <3>1, <3>2, Zenon DEF Frame
  <2> QED
    BY <1>1, <1>3, <1>5, <2>2, <2>3
<1> QED
  BY <1>6, <1>7, Zenon

LEMMA LeaveAborts ==
  ASSUME Induction, IInv, IInv', Bounded(frames, stateDB, spent), frames # <<>>,
         NEW f \in Frame, f.snapshot = top.snapshot, f.given = top.given, f.gas <= top.gas,
         NEW w, NEW outcome, NEW rejected \in BOOLEAN, Leave(f, w, outcome, rejected),
         ~(outcome = "success" /\ ~rejected)
  PROVE  Journal!Abort /\ Bounded(frames', stateDB', spent')
<1> DEFINE success == outcome = "success"
           db1 == IF ~success THEN stateDB
                  ELSE IF f.refund >= 0 THEN AddRefund(stateDB, f.refund)
                  ELSE SubRefund(stateDB, -f.refund)
           db2 == IF running = 1 THEN undoRefundShift(db1, outcome = "failure") ELSE db1
           m == Len(frames) - 1
           k == top.snapshot
<1>1. stateDB' = RevertToSnapshot(db2, k) /\ world' = stateDB.snapshots[k].world
  BY Zenon DEF Leave
<1>2. stateDB \in StateDB /\ f.refund \in Int /\ -f.refund \in Int
  BY DEF IInv, Shape, Frame
<1>3. db1 \in StateDB /\ db1.snapshots = stateDB.snapshots
  BY <1>2, RefundType, Zenon
<1> HIDE DEF db1
<1>4. db2 \in StateDB /\ db2.snapshots = stateDB.snapshots
  BY <1>3, UndoType, Zenon
<1> HIDE DEF db2
<1>5. m \in Nat /\ m + 1 = Len(frames) /\ Len(frames') = m
      /\ UNCHANGED <<revision, original>> /\ spent <= spent'
      /\ \A i \in 1 .. m : /\ frames'[i].refund = frames[i].refund
                           /\ frames'[i].snapshot = frames[i].snapshot
  <2>1. /\ Len(frames) - 1 \in Nat /\ Len(frames') = Len(frames) - 1
        /\ \A i \in 1 .. Len(frames) - 1 : /\ frames'[i].refund = frames[i].refund
                                           /\ frames'[i].snapshot = frames[i].snapshot
        /\ UNCHANGED <<revision, original>> /\ spent <= spent'
    BY LeaveBelow, Zenon
  <2>2. Len(frames) \in Nat
    BY DEF IInv, Shape
  <2> QED
    BY <2>1, <2>2
<1>6. stateDB'.snapshots = stateDB.snapshots /\ stateDB'.refund = stateDB.snapshots[k].refund
  BY <1>1, <1>4, Zenon DEF RevertToSnapshot, StateDB
<1>7. Saved(frames, stateDB, m + 1) = stateDB.snapshots[k]
  BY <1>5, Zenon DEF Saved, top, running
<1>8. \A i \in 1 .. m : Saved(frames', stateDB', i) = Saved(frames, stateDB, i)
  BY <1>5, <1>6, Zenon DEF Saved
<1> HIDE DEF m
<1> QED
  BY <1>1, <1>5, <1>6, <1>7, <1>8, AbortStep, Zenon

\* The report of an interpreter that succeeded, with the shift and without it.
LEMMA ReportedRefund ==
  ASSUME NEW db \in StateDB, NEW amount \in Int, NEW total \in Int,
         db.refund + amount = total + refundShift, -refundShift <= total, total < refundShift
  PROVE  LET db1 == IF amount >= 0 THEN AddRefund(db, amount) ELSE SubRefund(db, -amount)
         IN  /\ db1 \in StateDB /\ db1.snapshots = db.snapshots
             /\ db1.refund = total + refundShift
             /\ total >= 0 => /\ undoRefundShift(db1, FALSE).refund = total
                              /\ undoRefundShift(db1, FALSE).snapshots = db.snapshots
<1> DEFINE db1 == IF amount >= 0 THEN AddRefund(db, amount) ELSE SubRefund(db, -amount)
           t == total + refundShift
<1>1. refundShift \in Nat /\ refundLimit \in Nat /\ 2 * refundShift <= refundLimit
      /\ db.refund \in Nat /\ -amount \in Int
  BY EncodingAssumption DEF StateDB
<1>2. t \in Nat /\ t < refundLimit
  BY <1>1
<1>3. t % refundLimit = t
  BY <1>2, NoWrap, Zenon
<1>4. db1 \in StateDB /\ db1.snapshots = db.snapshots
  BY <1>1, RefundType, Zenon
<1>5. db1.refund = t
  <2>1. CASE amount >= 0
    <3>1. db1.refund = (db.refund + amount) % refundLimit
      BY <2>1, Zenon DEF AddRefund, StateDB
    <3> QED
      BY <1>3, <3>1, Zenon
  <2>2. CASE ~(amount >= 0)
    <3>1. db1.refund = (db.refund - (-amount)) % refundLimit
      BY <2>2, Zenon DEF SubRefund, StateDB
    <3>2. db.refund - (-amount) = t
      BY <1>1
    <3> QED
      BY <1>3, <3>1, <3>2, Zenon
  <2> QED
    BY <2>1, <2>2, Zenon
<1> HIDE DEF db1
<1>6. ASSUME total >= 0
      PROVE  /\ undoRefundShift(db1, FALSE).refund = total
             /\ undoRefundShift(db1, FALSE).snapshots = db.snapshots
  <2>1. Min({refundShift, db1.refund}) = refundShift
    <3>1. refundShift <= db1.refund /\ db1.refund \in Nat
      BY <1>1, <1>2, <1>5, <1>6
    <3> QED
      BY <1>1, <3>1 DEF Min
  <2>2. undoRefundShift(db1, FALSE) = SubRefund(db1, refundShift)
    BY <2>1, Zenon DEF undoRefundShift
  <2>3. SubRefund(db1, refundShift).refund = (db1.refund - refundShift) % refundLimit
        /\ SubRefund(db1, refundShift).snapshots = db1.snapshots
    BY <1>4, Zenon DEF SubRefund, StateDB
  <2>4. db1.refund - refundShift = total /\ total \in Nat /\ total < refundLimit
    BY <1>1, <1>5, <1>6
  <2>5. total % refundLimit = total
    BY <2>4, NoWrap, Zenon
  <2> QED
    BY <1>4, <2>2, <2>3, <2>4, <2>5, Zenon
<1> QED
  BY <1>4, <1>5, <1>6, Zenon DEF db1

LEMMA LeaveEarns ==
  ASSUME Induction, RefundsFit, IInv, IInv', Bounded(frames, stateDB, spent), spent' <= GasLimit,
         Refund(frames, stateDB) >= 0, frames # <<>>,
         NEW f \in Frame, f.snapshot = top.snapshot, f.given = top.given, f.gas <= top.gas,
         NEW earned \in Nat, f.refund = top.refund + earned,
         MostEarned * spent + Size(earned) <= MostEarned * spent',
         NEW w, Leave(f, w, "success", FALSE)
  PROVE  /\ Refund(frames', stateDB') = Refund(frames, stateDB) + earned
         /\ Refund(frames', stateDB') <= MaxRefund
         /\ Entries(frames', stateDB')
              = SubSeq(Entries(frames, stateDB), 1, Len(Entries(frames, stateDB)) - 1)
         /\ Entries(frames, stateDB) # <<>>
         /\ Bounded(frames', stateDB', spent')
         /\ world' = w /\ UNCHANGED <<revision, original>>
<1> DEFINE db1 == IF f.refund >= 0 THEN AddRefund(stateDB, f.refund)
                  ELSE SubRefund(stateDB, -f.refund)
           db2 == IF running = 1 THEN undoRefundShift(db1, FALSE) ELSE db1
           m == Len(frames) - 1
           r == frames[m + 1].refund
           x == Unshifted(stateDB.refund, m + 1)
           y == x + r + earned
<1>1. stateDB' = db2 /\ world' = w
  BY Zenon DEF Leave
<1>2. m \in Nat /\ m + 1 = Len(frames) /\ running = m + 1 /\ Len(frames') = m
      /\ UNCHANGED <<revision, original>> /\ spent <= spent'
      /\ \A i \in 1 .. m : /\ frames'[i].refund = frames[i].refund
                           /\ frames'[i].snapshot = frames[i].snapshot
  <2>1. /\ Len(frames) - 1 \in Nat /\ Len(frames') = Len(frames) - 1
        /\ \A i \in 1 .. Len(frames) - 1 : /\ frames'[i].refund = frames[i].refund
                                           /\ frames'[i].snapshot = frames[i].snapshot
        /\ UNCHANGED <<revision, original>> /\ spent <= spent'
    BY LeaveBelow, Zenon
  <2>2. Len(frames) \in Nat
    BY DEF IInv, Shape
  <2> QED
    BY <2>1, <2>2 DEF running
<1>3. top = frames[m + 1]
  BY <1>2, Zenon DEF top
<1> HIDE DEF m
<1>4. /\ Earned(frames, 0) = 0 /\ Earned(frames, m) \in Int /\ Turnover(frames, m) \in Nat
      /\ Earned(frames, m + 1) = Earned(frames, m) + r
      /\ Turnover(frames, m + 1) = Turnover(frames, m) + Size(r)
      /\ r \in Int /\ stateDB.refund \in Nat /\ refundShift \in Nat /\ stateDB \in StateDB
  <2>1. frames \in Seq(Frame) /\ stateDB \in StateDB /\ Funded(frames, stateDB)
    BY Zenon DEF IInv, Shape
  <2>2. m \in 0 .. Len(frames) /\ m \in 0 .. Len(frames) - 1 /\ m + 1 \in 1 .. Len(frames)
    BY <1>2
  <2> QED
    BY <2>1, <2>2, ViewFacts, Zenon
<1>5. x = stateDB.refund - refundShift /\ x \in Int /\ y \in Int
  <2>1. m + 1 # 0
    BY <1>2
  <2> QED
    BY <1>4, <2>1 DEF Unshifted
<1>6. Size(x) + Turnover(frames, m + 1) <= MostEarned * spent
  BY <1>2, Zenon DEF Bounded
<1>7. MostEarned * spent' <= MaxRefund /\ MostEarned * spent \in Nat /\ MostEarned * spent' \in Nat
      /\ MaxRefund \in Nat /\ MaxRefund < refundShift
  <2>1. spent \in Nat /\ spent' \in Nat /\ GasLimit \in Nat
    BY EncodingAssumption, Zenon DEF IInv, Shape
  <2>2. spent <= GasLimit
    BY <1>2, <2>1
  <2> QED
    BY <2>1, <2>2, EarnedFits, EncodingAssumption, Zenon
<1>8. f.refund = r + earned /\ earned \in Int
  BY <1>3
<1> HIDE DEF x, r
<1>9. Size(y) <= Size(x) + Size(r) + Size(earned)
  <2>1. \A a, b, c \in Int : Size(a + b + c) <= Size(a) + Size(b) + Size(c)
    BY DEF Size
  <2> QED
    BY <1>4, <1>5, <1>8, <2>1, Zenon
<1>10. Size(x) \in Nat /\ Size(r) \in Nat /\ Size(earned) \in Nat /\ Size(y) \in Nat
  <2>1. \A z \in Int : Size(z) \in Nat
    BY DEF Size
  <2> QED
    BY <1>4, <1>5, <1>8, <2>1, Zenon
<1>11. Size(y) < refundShift
  BY <1>4, <1>6, <1>7, <1>9, <1>10
<1>12. stateDB.refund + f.refund = y + refundShift
  <2>1. \A a, s, b, c \in Int : a + (b + c) = (a - s) + b + c + s
    OBVIOUS
  <2>2. stateDB.refund + (r + earned) = (stateDB.refund - refundShift) + r + earned + refundShift
    BY <1>4, <1>8, <2>1
  <2>3. y = (stateDB.refund - refundShift) + r + earned
    BY <1>5, Zenon
  <2> HIDE DEF y
  <2> QED
    BY <1>8, <2>2, <2>3, Zenon
<1> HIDE DEF y
<1>13. -refundShift <= y /\ y < refundShift
  BY <1>4, <1>5, <1>11 DEF Size
<1>14. /\ db1 \in StateDB /\ db1.snapshots = stateDB.snapshots /\ db1.refund = y + refundShift
       /\ y >= 0 => /\ undoRefundShift(db1, FALSE).refund = y
                    /\ undoRefundShift(db1, FALSE).snapshots = stateDB.snapshots
  <2> DEFINE amount == f.refund
  <2>1. /\ stateDB \in StateDB /\ amount \in Int /\ y \in Int
        /\ stateDB.refund + amount = y + refundShift /\ -refundShift <= y /\ y < refundShift
    BY <1>4, <1>5, <1>8, <1>12, <1>13
  <2> HIDE DEF amount
  <2>2. LET d == IF amount >= 0 THEN AddRefund(stateDB, amount) ELSE SubRefund(stateDB, -amount)
        IN  /\ d \in StateDB /\ d.snapshots = stateDB.snapshots /\ d.refund = y + refundShift
            /\ y >= 0 => /\ undoRefundShift(d, FALSE).refund = y
                         /\ undoRefundShift(d, FALSE).snapshots = stateDB.snapshots
    BY ONLY <2>1, ReportedRefund, Zenon
  <2> QED
    BY <2>2, Zenon DEF amount
<1> HIDE DEF db1
<1>15. m = 0 => y >= 0
  <2>1. Refund(frames, stateDB) = x + Earned(frames, m + 1)
    BY <1>2, Zenon DEF Refund, x
  <2>2. m = 0 => Earned(frames, m + 1) = r
    BY <1>4
  <2>3. m = 0 => x + r >= 0
    BY <2>1, <2>2, Zenon
  <2>4. \A a, b \in Int : a + b >= 0 => a + b + earned >= 0
    OBVIOUS
  <2> QED
    BY <1>4, <1>5, <2>3, <2>4, Zenon DEF y
<1>16. stateDB'.snapshots = stateDB.snapshots /\ Unshifted(stateDB'.refund, m) = y
  <2>1. CASE m = 0
    <3>1. stateDB' = undoRefundShift(db1, FALSE)
      BY <1>1, <1>2, <2>1
    <3> QED
      BY <1>14, <1>15, <2>1, <3>1, Zenon DEF Unshifted
  <2>2. CASE m # 0
    <3>0. running # 1
      BY <1>2, <2>2
    <3>1. stateDB' = db1
      BY <1>1, <3>0, Zenon
    <3> QED
      BY <1>4, <1>5, <1>14, <2>2, <3>1 DEF Unshifted
  <2> QED
    BY <2>1, <2>2, Zenon
<1>17. \A i \in 1 .. m : Saved(frames', stateDB', i) = Saved(frames, stateDB, i)
  BY <1>2, <1>16, Zenon DEF Saved
<1>18. Unshifted(stateDB'.refund, m) =
         Unshifted(stateDB.refund, m + 1) + frames[m + 1].refund + earned
  BY <1>16, Zenon DEF y, x, r
<1>19. /\ Refund(frames', stateDB') = Refund(frames, stateDB) + earned
       /\ Entries(frames', stateDB')
            = SubSeq(Entries(frames, stateDB), 1, Len(Entries(frames, stateDB)) - 1)
       /\ Entries(frames, stateDB) # <<>>
       /\ Bounded(frames', stateDB', spent')
  BY <1>2, <1>8, <1>17, <1>18, KeepStep, Zenon
<1>20. Refund(frames', stateDB') <= MaxRefund
  <2>1. Refund(frames', stateDB') = y + Earned(frames', m)
    BY <1>2, <1>16, Zenon DEF Refund
  <2>2. Size(y) + Turnover(frames', m) <= MostEarned * spent'
    BY <1>2, <1>16, <1>19, Zenon DEF Bounded
  <2>3. Earned(frames', m) <= Turnover(frames', m) /\ Earned(frames', m) \in Int
        /\ Turnover(frames', m) \in Nat
    <3> DEFINE gs == frames'
               eb == stateDB'
    <3>1. gs \in Seq(Frame) /\ eb \in StateDB /\ Funded(gs, eb) /\ m \in 0 .. Len(gs)
      BY <1>2 DEF IInv, Shape
    <3> HIDE DEF gs, eb
    <3>2. Earned(gs, m) <= Turnover(gs, m) /\ Earned(gs, m) \in Int /\ Turnover(gs, m) \in Nat
      BY <3>1, ViewFacts, Zenon
    <3> QED
      BY <3>2, Zenon DEF gs
  <2>4. y <= Size(y)
    BY <1>5 DEF Size
  <2> QED
    BY <1>5, <1>7, <1>10, <2>1, <2>2, <2>3, <2>4
<1> QED
  BY <1>1, <1>2, <1>19, <1>20, Zenon

\* A call that comes back at once.
LEMMA ReturnIsQuiet ==
  ASSUME Induction, IInv, IInv', Bounded(frames, stateDB, spent),
         NEW given \in 0 .. GasLimit, CanPay(given), NEW back,
         stateDB' = Snapshot(stateDB),
         frames' = [Paid(given) EXCEPT ![running].gas = @ + back],
         UNCHANGED <<revision, original, world>>, spent <= spent'
  PROVE  UNCHANGED Journal!vars /\ Bounded(frames', stateDB', spent')
<1> DEFINE fs == Paid(given)
           n == Len(frames)
<1>1. /\ fs \in Seq(Frame) /\ Len(fs) = n /\ n \in Nat /\ running = n
      /\ \A i \in 1 .. n : /\ fs[i].refund = frames[i].refund
                           /\ fs[i].snapshot = frames[i].snapshot
  BY PaidSame DEF IInv, Shape, running
<1> HIDE DEF fs
<1>2. frames' = [fs EXCEPT ![n].gas = @ + back]
  BY <1>1, Zenon DEF fs
<1>3. Len(frames') = n
  BY <1>1, <1>2
<1>4. ASSUME NEW i \in 1 .. n
      PROVE  frames'[i].refund = frames[i].refund /\ frames'[i].snapshot = frames[i].snapshot
  <2>1. fs[i] \in Frame
    BY <1>1
  <2>2. frames'[i] = IF i = n THEN [fs[i] EXCEPT !.gas = @ + back] ELSE fs[i]
    BY <1>1, <1>2
  <2>3. frames'[i].refund = fs[i].refund /\ frames'[i].snapshot = fs[i].snapshot
    BY <2>1, <2>2 DEF Frame
  <2> QED
    BY <1>1, <2>3, Zenon
<1>5. /\ stateDB'.snapshots = Append(stateDB.snapshots, [world |-> world, refund |-> stateDB.refund])
      /\ stateDB'.refund = stateDB.refund
  <2>1. stateDB \in StateDB
    BY Zenon DEF IInv, Shape
  <2> QED
    BY <2>1, Zenon DEF Snapshot, StateDB
<1>6. \A i \in 1 .. n : Saved(frames', stateDB', i) = Saved(frames, stateDB, i)
  <2> DEFINE gs == frames'
             db == stateDB'
  <2>1. /\ db.snapshots = Append(stateDB.snapshots, [world |-> world, refund |-> stateDB.refund])
        /\ n <= Len(frames) /\ \A i \in 1 .. n : gs[i].snapshot = frames[i].snapshot
    BY <1>1, <1>4, <1>5
  <2> HIDE DEF gs, db, n
  <2>2. \A i \in 1 .. n : Saved(gs, db, i) = Saved(frames, stateDB, i)
    BY <1>1, <2>1, SnapshotsSame, Zenon
  <2> QED
    BY <2>2, Zenon DEF gs, db
<1> QED
  BY <1>3, <1>4, <1>5, <1>6, QuietStep, Zenon

\* An instruction that only costs gas.
LEMMA PayIsQuiet ==
  ASSUME Induction, IInv, IInv', Bounded(frames, stateDB, spent),
         NEW given \in 0 .. GasLimit, CanPay(given), frames' = Paid(given),
         UNCHANGED <<revision, original, world, stateDB>>, spent <= spent'
  PROVE  UNCHANGED Journal!vars /\ Bounded(frames', stateDB', spent')
<1>1. /\ Len(frames') = Len(frames)
      /\ \A i \in 1 .. Len(frames) : /\ frames'[i].refund = frames[i].refund
                                     /\ frames'[i].snapshot = frames[i].snapshot
  BY PaidSame, Zenon
<1>2. \A i \in 1 .. Len(frames) : Saved(frames', stateDB', i) = Saved(frames, stateDB, i)
  BY <1>1, Zenon DEF Saved
<1> QED
  BY <1>1, <1>2, QuietStep, Zenon

LEMMA SstoreWrites ==
  ASSUME Induction, RefundsFit, IInv, IInv', Bounded(frames, stateDB, spent), spent' <= GasLimit,
         NEW slot \in Slot, NEW word \in Word, Sstore(slot, word)
  PROVE  Journal!Sstore(slot, word) /\ Bounded(frames', stateDB', spent')
<1> DEFINE fs == Paid(0)
           n == Len(frames)
           earned == getRefundForSstore(revision,
                       GetStorageStatus(original[slot], world.current[slot], word))
<1>1. /\ CanPay(0) /\ world' = [world EXCEPT !.current[slot] = word]
      /\ frames' = [fs EXCEPT ![running].refund = @ + earned]
      /\ spent' = spent + 1 /\ UNCHANGED <<revision, original, stateDB>>
  BY Zenon DEF Sstore
<1>2. 0 \in 0 .. GasLimit /\ spent' \in Nat /\ spent \in Nat
  BY EncodingAssumption DEF IInv, Shape
<1>3. /\ fs \in Seq(Frame) /\ Len(fs) = n /\ n \in Nat \ {0} /\ running = n
      /\ \A i \in 1 .. n : /\ fs[i].refund = frames[i].refund
                           /\ fs[i].snapshot = frames[i].snapshot
  BY <1>1, <1>2, PaidSame DEF IInv, Shape, running
<1> HIDE DEF fs, earned
<1>4. Len(frames') = n
  BY <1>1, <1>3
<1>5. ASSUME NEW i \in 1 .. n
      PROVE  /\ frames'[i].refund = IF i = n THEN frames[n].refund + earned ELSE frames[i].refund
             /\ frames'[i].snapshot = frames[i].snapshot
  <2>1. fs[i] \in Frame
    BY <1>3
  <2>2. frames'[i] = IF i = n THEN [fs[i] EXCEPT !.refund = @ + earned] ELSE fs[i]
    BY <1>1, <1>3
  <2>3. /\ frames'[i].refund = IF i = n THEN fs[i].refund + earned ELSE fs[i].refund
        /\ frames'[i].snapshot = fs[i].snapshot
    BY <2>1, <2>2, Zenon DEF Frame
  <2> QED
    BY <1>3, <2>3, Zenon
<1>6. /\ \A i \in 1 .. n - 1 : frames'[i].refund = frames[i].refund
      /\ frames'[n].refund = frames[n].refund + earned
      /\ \A i \in 1 .. n : Saved(frames', stateDB', i) = Saved(frames, stateDB, i)
  <2>1. \A i \in 1 .. n : Saved(frames', stateDB', i) = Saved(frames, stateDB, i)
    BY <1>1, <1>5, Zenon DEF Saved
  <2>2. \A i \in 1 .. n - 1 : i \in 1 .. n /\ i # n
    BY <1>3
  <2>3. n \in 1 .. n
    BY <1>3
  <2> QED
    BY <1>5, <2>1, <2>2, <2>3, Zenon
<1>7. MostEarned * spent' <= MaxRefund
  BY <1>2, EarnedFits, Zenon
<1>8. stateDB'.refund = stateDB.refund
  BY <1>1, Zenon
<1> HIDE DEF n
<1> QED
  BY <1>1, <1>3, <1>4, <1>6, <1>7, <1>8, WriteStep, Zenon DEF earned, n

\* Each step of the adapter and of geth is a step of the journal, or none.
LEMMA JournalStep ==
  ASSUME Induction, RefundsFit, IInv, Balanced, Bounded(frames, stateDB, spent), IInv', spent' <= GasLimit,
         Refund(frames, stateDB) >= 0, [Next]_vars
  PROVE  [Journal!Next]_(Journal!vars) /\ Bounded(frames', stateDB', spent')
<1> DEFINE n == Len(frames)
           Goal == [Journal!Next]_(Journal!vars) /\ Bounded(frames', stateDB', spent')
<1> SUFFICES Goal
  BY Zenon
<1>0. frames \in Seq(Frame) /\ n \in Nat /\ running = n /\ spent \in Nat /\ spent' \in Nat
      /\ GasLimit \in Nat /\ CallCreateDepth \in Nat
  BY EncodingAssumption DEF IInv, Shape, running
<1>1. ASSUME NEW kind, NEW to, Start(kind, to) PROVE Goal
  <2> DEFINE callers == <<>>
  <2>1. frames = callers /\ ~receipt.done /\ UNCHANGED <<revision, original, spent>>
        /\ Enter(callers, kind, to, GasLimit, GasLimit)
    BY <1>1, Zenon DEF Start
  <2>2. callers \in Seq(Frame) /\ Len(callers) = 0 /\ callers = <<>>
    OBVIOUS
  <2> HIDE DEF callers
  <2>3. stateDB.refund < refundShift
    <3>1. spent = 0
      BY <2>1, <2>2, Zenon DEF Balanced
    <3>2. Size(Unshifted(stateDB.refund, 0)) + Turnover(frames, 0) <= MostEarned * spent
      BY <2>1, <2>2, Zenon DEF Bounded
    <3>3. Turnover(frames, 0) = 0 /\ stateDB.refund \in Nat
      BY ViewFacts, Zenon DEF IInv, Shape
    <3>4. MostEarned * spent = 0
      BY <3>1 DEF MostEarned
    <3>5. Unshifted(stateDB.refund, 0) = stateDB.refund
      BY Zenon DEF Unshifted
    <3>6. stateDB.refund = 0
      BY <3>2, <3>3, <3>4, <3>5 DEF Size
    <3> QED
      BY <3>6, EncodingAssumption
  <2>4. 0 = n /\ 0 < CallCreateDepth + 2 /\ spent <= spent'
    BY <1>0, <2>1, <2>2
  <2>5. \A i \in 1 .. 0 : /\ callers[i].refund = frames[i].refund
                          /\ callers[i].snapshot = frames[i].snapshot
    OBVIOUS
  <2>6. Journal!Begin /\ Bounded(frames', stateDB', spent')
    BY <2>1, <2>2, <2>3, <2>4, <2>5, EnterBegins, Zenon
  <2> QED
    BY <2>6, Zenon DEF Journal!Next
<1>2. ASSUME NEW given \in 0 .. GasLimit, CanPay(given), running <= CallCreateDepth,
             NEW kind, NEW address, NEW gas, Enter(Paid(given), kind, address, gas, given),
             UNCHANGED <<revision, original>>, spent' = spent + 1
      PROVE  Goal
  <2> DEFINE callers == Paid(given)
  <2>1. /\ callers \in Seq(Frame) /\ Len(callers) = n /\ frames # <<>>
        /\ \A i \in 1 .. n : /\ callers[i].refund = frames[i].refund
                             /\ callers[i].snapshot = frames[i].snapshot
    BY <1>2, PaidSame, Zenon
  <2>2. n # 0 /\ n < CallCreateDepth + 2 /\ spent <= spent'
    BY <1>0, <1>2, <2>1
  <2>3. Enter(callers, kind, address, gas, given)
    BY <1>2, Zenon
  <2> HIDE DEF callers, n
  <2>4. Journal!Begin /\ Bounded(frames', stateDB', spent')
    BY <1>0, <1>2, <2>1, <2>2, <2>3, EnterBegins, Zenon DEF n
  <2> QED
    BY <2>4, Zenon DEF Journal!Next
<1>3. ASSUME NEW kind, NEW given \in 0 .. GasLimit, NEW to, Call(kind, to, given) PROVE Goal
  BY <1>2, <1>3, Zenon DEF Call
<1>4. ASSUME NEW kind, NEW given \in 0 .. GasLimit, NEW to, CallWithoutCode(kind, to, given)
      PROVE  Goal
  <2> DEFINE gas == encodeReadOnlyInGas(given, to, top.readOnly)
             back == gasLeft(IF nestedKind(kind) = "Call" THEN gas ELSE decodeGas(running, gas), given)
  <2>1. /\ CanPay(given) /\ stateDB' = Snapshot(stateDB)
        /\ frames' = [Paid(given) EXCEPT ![running].gas = @ + back]
        /\ spent' = spent + 1 /\ UNCHANGED <<revision, original, world>>
    BY <1>4, Zenon DEF CallWithoutCode
  <2>2. spent <= spent'
    BY <1>0, <2>1
  <2> HIDE DEF back
  <2> QED
    BY <2>1, <2>2, ReturnIsQuiet, Zenon
<1>5. ASSUME NEW to, NEW given \in 0 .. GasLimit, CallPrecompile(to, given) PROVE Goal
  <2> DEFINE gas == encodeReadOnlyInGas(given, to, top.readOnly)
             back == gasLeft(IF gas >= 1 THEN gas - 1 ELSE 0, given)
             cost == Min({1, given})
  <2>1. /\ CanPay(given) /\ stateDB' = Snapshot(stateDB)
        /\ frames' = [Paid(given) EXCEPT ![running].gas = @ + back]
        /\ spent' = spent + 1 + cost /\ UNCHANGED <<revision, original, world>>
    BY <1>5, Zenon DEF CallPrecompile
  <2>2. cost \in Nat
    <3>1. given \in Nat
      BY <1>0
    <3>2. \E x \in {1, given} : \A y \in {1, given} : x =< y
      BY <3>1
    <3> QED
      BY <3>1, <3>2 DEF Min
  <2> HIDE DEF back, cost
  <2>3. spent <= spent'
    BY <1>0, <2>1, <2>2
  <2> QED
    BY <2>1, <2>3, ReturnIsQuiet, Zenon
<1>6. ASSUME NEW to, NEW given \in 0 .. GasLimit, Create(to, given) PROVE Goal
  <2>1. CanPay(given) /\ running <= CallCreateDepth /\ UNCHANGED <<revision, original>>
    BY <1>6, Zenon DEF Create
  <2>2. CASE Enter(Paid(given), "Create", to, given, given) /\ spent' = spent + 1
    BY <1>2, <2>1, <2>2, Zenon
  <2>3. CASE frames' = Paid(given) /\ spent' = spent + 1 + given /\ UNCHANGED <<world, stateDB>>
    <3>1. spent <= spent'
      BY <1>0, <2>3
    <3> QED
      BY <2>1, <2>3, <3>1, PayIsQuiet, Zenon
  <2> QED
    BY <1>6, <2>2, <2>3, Zenon DEF Create
<1>7. CASE OtherInstruction
  <2>1. /\ CanPay(0) /\ frames' = Paid(0) /\ spent' = spent + 1 /\ 0 \in 0 .. GasLimit
        /\ UNCHANGED <<revision, original, world, stateDB>>
    BY <1>0, <1>7 DEF OtherInstruction
  <2>2. spent <= spent'
    BY <1>0, <2>1
  <2> QED
    BY <2>1, <2>2, PayIsQuiet, Zenon
<1>8. ASSUME NEW slot \in Slot, NEW word \in Word, Sstore(slot, word) PROVE Goal
  <2>1. Journal!Sstore(slot, word) /\ Bounded(frames', stateDB', spent')
    BY <1>8, SstoreWrites, Zenon
  <2> QED
    BY <2>1, Zenon DEF Journal!Next
<1>9. frames # <<>> => top \in Frame
  BY <1>0 DEF top
<1>10. ASSUME frames # <<>>, NEW outcome, NEW rejected \in BOOLEAN,
              Leave(top, world, outcome, rejected)
       PROVE  Goal
  <2>1. top \in Frame /\ top.gas <= top.gas /\ top.refund \in Int /\ top.gas \in Nat
    BY <1>9, <1>10 DEF Frame
  <2>2. CASE ~(outcome = "success" /\ ~rejected)
    <3>1. Journal!Abort /\ Bounded(frames', stateDB', spent')
      BY <1>10, <2>1, <2>2, LeaveAborts, Zenon
    <3> QED
      BY <3>1, Zenon DEF Journal!Next
  <2>3. CASE outcome = "success" /\ ~rejected
    <3>1. Leave(top, world, "success", FALSE)
      BY <1>10, <2>3, Zenon
    <3>2. spent' = spent
      <4>1. spent' = spent + top.gas - top.gas
        BY <3>1 DEF Leave
      <4> QED
        BY <1>0, <2>1, <4>1
    <3>3. 0 \in Nat /\ top.refund = top.refund + 0 /\ MostEarned * spent + Size(0) <= MostEarned * spent'
      BY <1>0, <2>1, <3>2 DEF Size, MostEarned
    <3>4. /\ Refund(frames', stateDB') = Refund(frames, stateDB) + 0
          /\ Entries(frames', stateDB')
               = SubSeq(Entries(frames, stateDB), 1, Len(Entries(frames, stateDB)) - 1)
          /\ Entries(frames, stateDB) # <<>>
          /\ Bounded(frames', stateDB', spent')
          /\ world' = world /\ UNCHANGED <<revision, original>>
      BY <1>10, <2>1, <3>1, <3>3, LeaveEarns, Zenon
    <3>5. Refund(frames', stateDB') = Refund(frames, stateDB)
      <4>1. Refund(frames, stateDB) \in Int
        BY ViewFacts, Zenon DEF IInv, Shape
      <4> QED
        BY <3>4, <4>1
    <3>6. Journal!Commit
      BY <3>4, <3>5, Zenon DEF Journal!Commit
    <3> QED
      BY <3>4, <3>6, Zenon DEF Journal!Next
  <2> QED
    BY <2>2, <2>3, Zenon
<1>11. CASE SelfDestruct
  <2> DEFINE a == top.address
             earned == selfDestructRefund(a \notin world.destructed, revision)
             f == [top EXCEPT !.gas = @ - 1, !.refund = @ + earned]
             gone == revision < R13_Cancun \/ a \in world.created
             w == IF gone THEN [world EXCEPT !.destructed = @ \cup {a}] ELSE world
  <2>1. frames # <<>> /\ top.gas >= 1 /\ Leave(f, w, "success", FALSE)
    <3>1. CanPay(0) /\ Leave(f, w, "success", FALSE)
      BY <1>11, Zenon DEF SelfDestruct
    <3>2. CanPay(0) => frames # <<>> /\ top.gas >= 1
      BY DEF CanPay
    <3> QED
      BY <3>1, <3>2, Zenon
  <2>2. top \in Frame /\ top.gas \in Nat /\ top.refund \in Int /\ a \in Contract \cup Fresh
    BY <1>9, <2>1, Zenon DEF Frame
  <2>3. earned \in Nat /\ Size(earned) <= MostEarned
    BY EarnedBySelfDestruct, Zenon
  <2>4. world \in World /\ revision \in Revision
    BY Zenon DEF IInv, Shape
  <2>5. w.current = world.current
        /\ (w.destructed = world.destructed \cup {a}
            \/ (revision >= R13_Cancun /\ w.destructed = world.destructed))
    <3>1. revision \in Int /\ R13_Cancun \in Int
      BY <2>4 DEF Revision, R13_Cancun, R07_Istanbul, R15_Osaka
    <3> QED
      BY <2>4, <3>1 DEF World
  <2>6. earned = Journal!selfDestructRefund(a \notin world.destructed, revision)
    BY SameRules, Zenon
  <2> HIDE DEF earned, w
  <2>7. /\ f \in Frame /\ f.gas = top.gas - 1 /\ f.refund = top.refund + earned
        /\ f.given = top.given /\ f.snapshot = top.snapshot
    <3>1. top.gas - 1 \in Nat /\ top.refund + earned \in Int
      BY <2>1, <2>2, <2>3
    <3> QED
      BY <2>2, <3>1, Zenon DEF Frame
  <2> HIDE DEF f
  <2>8. f.gas <= top.gas
    BY <2>1, <2>2, <2>7
  <2>9. spent' = spent + 1
    <3>1. spent' = spent + top.gas - f.gas
      BY <2>1, Zenon DEF Leave
    <3> QED
      BY <1>0, <2>1, <2>2, <2>7, <3>1
  <2>10. MostEarned * spent + Size(earned) <= MostEarned * spent'
    <3>1. MostEarned * spent' = MostEarned * spent + MostEarned /\ MostEarned * spent \in Nat
          /\ MostEarned \in Nat
      BY <1>0, <2>9 DEF MostEarned
    <3>2. Size(earned) \in Nat
      BY <2>3 DEF Size
    <3> QED
      BY <2>3, <3>1, <3>2
  <2>11. /\ Refund(frames', stateDB') = Refund(frames, stateDB) + earned
         /\ Refund(frames', stateDB') <= MaxRefund
         /\ Entries(frames', stateDB')
              = SubSeq(Entries(frames, stateDB), 1, Len(Entries(frames, stateDB)) - 1)
         /\ Entries(frames, stateDB) # <<>>
         /\ Bounded(frames', stateDB', spent')
         /\ world' = w /\ UNCHANGED <<revision, original>>
    BY <2>1, <2>3, <2>7, <2>8, <2>10, LeaveEarns, Zenon
  <2>12. Journal!R13_Cancun = R13_Cancun
    BY Zenon DEF Journal!R13_Cancun, R13_Cancun
  <2>13. Journal!SelfDestruct(a)
    BY <2>5, <2>6, <2>11, <2>12, Zenon DEF Journal!SelfDestruct
  <2> QED
    BY <2>2, <2>11, <2>13, Zenon DEF Journal!Next
<1>12. CASE UNCHANGED vars
  <2>1. frames' = frames /\ stateDB' = stateDB /\ spent' = spent
        /\ UNCHANGED <<revision, original, world>>
    BY <1>12, Zenon DEF vars
  <2> QED
    BY <2>1, Zenon DEF Journal!vars
<1> HIDE DEF Goal
<1>13. CASE \E kind \in Kind \ {"Create"}, given \in 0 .. GasLimit :
              \/ \E to \in Contract \cup world.created : Call(kind, to, given)
              \/ \E to \in Eoa : CallWithoutCode(kind, to, given)
  BY <1>3, <1>4, <1>13, Zenon
<1>14. CASE \/ \E rejected \in BOOLEAN : Stop(rejected)
            \/ \E hasOutput \in BOOLEAN : Revert(hasOutput)
            \/ Fail
  BY <1>10, <1>14, Zenon DEF Stop, Revert, Fail
<1> QED
  BY <1>1, <1>5, <1>6, <1>7, <1>8, <1>11, <1>12, <1>13, <1>14, Zenon DEF Next

-----------------------------------------------------------------------------
(* The refinement *)

\* Journal, with what is proved of RefundJournal.
P == INSTANCE RefundJournalProofs WITH
  Value <- Word, Account <- Contract \cup Fresh, MaxDepth <- CallCreateDepth + 2,
  current <- world.current, destructed <- world.destructed,
  refund <- Refund(frames, stateDB), journal <- Entries(frames, stateDB)

\* What the totals of stacks rest on.
LEMMA InductionHolds == Induction
BY P!NaturalsInSet, Zenon DEF Induction

\* No gas is lost or made by the detour through geth, for any gas limit, depth
\* and order of calls: each unit is held by a frame, used up or returned.
THEOREM GasIsConserved == Spec => []NoGasLost
<1>1. Balanced => NoGasLost
  BY DEF Balanced, NoGasLost, GasHeld, Held
<1>2. IInv /\ Balanced /\ [Next]_vars => Balanced'
  BY InductionHolds, BalancedNext
<1> QED
  BY <1>1, <1>2, Initially, Invariance, BalancedInit, PTL DEF Spec

LEMMA ProvedConstants == P!ConstantAssumption
BY JournalAssumption DEF Journal!ConstantAssumption, P!ConstantAssumption, Journal!Zero, P!Zero,
                         Journal!IsFiniteSet, P!IsFiniteSet

LEMMA ProvedInit == Journal!Init => P!Init
BY DEF Journal!Init, P!Init, Journal!Storage, P!Storage, Journal!Revision, P!Revision,
       Journal!R07_Istanbul, P!R07_Istanbul, Journal!R15_Osaka, P!R15_Osaka

LEMMA ProvedRules ==
  /\ \A r : P!ClearRefund(r) = Journal!ClearRefund(r)
  /\ \A r, status : P!getRefundForSstore(r, status) = Journal!getRefundForSstore(r, status)
  /\ \A o, c, n : P!GetStorageStatus(o, c, n) = Journal!GetStorageStatus(o, c, n)
  /\ \A d, r : P!selfDestructRefund(d, r) = Journal!selfDestructRefund(d, r)
<1>1. \A r : /\ P!ClearRefund(r) = Journal!ClearRefund(r)
             /\ P!RestoreRefund(r) = Journal!RestoreRefund(r)
  BY DEF P!ClearRefund, Journal!ClearRefund, P!R10_London, Journal!R10_London,
         P!RestoreRefund, Journal!RestoreRefund, P!R09_Berlin, Journal!R09_Berlin
<1>2. \A r, status : P!getRefundForSstore(r, status) = Journal!getRefundForSstore(r, status)
  BY <1>1 DEF P!getRefundForSstore, Journal!getRefundForSstore, P!R09_Berlin, Journal!R09_Berlin
<1>3. \A o, c, n : P!GetStorageStatus(o, c, n) = Journal!GetStorageStatus(o, c, n)
  BY DEF P!GetStorageStatus, Journal!GetStorageStatus, P!Zero, Journal!Zero
<1>4. \A d, r : P!selfDestructRefund(d, r) = Journal!selfDestructRefund(d, r)
  BY DEF P!selfDestructRefund, Journal!selfDestructRefund, P!R10_London, Journal!R10_London
<1> QED
  BY <1>1, <1>2, <1>3, <1>4

LEMMA ProvedNext == [Journal!Next]_(Journal!vars) => [P!Next]_(P!vars)
<1>1. Journal!Begin => P!Begin
  BY DEF Journal!Begin, P!Begin, Journal!Now, P!Now
<1>2. ASSUME NEW s \in Slot, NEW new \in Word, Journal!Sstore(s, new) PROVE P!Sstore(s, new)
  BY <1>2, ProvedRules DEF Journal!Sstore, P!Sstore
<1>3. ASSUME NEW a \in Contract \cup Fresh, Journal!SelfDestruct(a) PROVE P!SelfDestruct(a)
  BY <1>3, ProvedRules, Zenon DEF Journal!SelfDestruct, P!SelfDestruct, Journal!R13_Cancun, P!R13_Cancun
<1>4. Journal!Commit => P!Commit
  BY DEF Journal!Commit, P!Commit
<1>5. Journal!Abort => P!Abort
  BY DEF Journal!Abort, P!Abort
<1>6. UNCHANGED Journal!vars => UNCHANGED P!vars
  BY DEF Journal!vars, P!vars
<1> QED
  BY <1>1, <1>2, <1>3, <1>4, <1>5, <1>6 DEF Journal!Next, P!Next

LEMMA SameCover == P!RefundCover /\ P!RefundNeverNegative => RefundIsCovered
<1>0. \A S : Journal!Cardinality(S) = P!Cardinality(S)
  BY DEF Journal!Cardinality, P!Cardinality
<1>1. \A amount, storage : Journal!Covers(amount, storage) <=> P!Covers(amount, storage)
  BY <1>0, ProvedRules, Zenon DEF Journal!Covers, P!Covers, Journal!Cleared, P!Cleared, Journal!Zero, P!Zero
<1>2. P!RefundCover => Journal!RefundCover
  BY <1>1 DEF Journal!RefundCover, P!RefundCover
<1>3. P!RefundNeverNegative => Journal!RefundNeverNegative
  BY DEF Journal!RefundNeverNegative, P!RefundNeverNegative
<1> QED
  BY <1>2, <1>3 DEF RefundIsCovered

\* The inductive invariant of the refinement.
Tracked ==
  /\ IInv /\ Balanced /\ Bounded(frames, stateDB, spent)
  /\ P!TypeOK /\ P!RefundCover

LEMMA TrackedInit == Init => Tracked /\ Journal!Init
<1> SUFFICES ASSUME Init PROVE Tracked /\ Journal!Init
  OBVIOUS
<1>1. IInv /\ Balanced
  BY Initially, BalancedInit
<1>2. frames \in Seq(Frame) /\ stateDB \in StateDB /\ Funded(frames, stateDB)
  BY <1>1 DEF IInv, Shape
<1>3. Earned(frames, 0) = 0 /\ Turnover(frames, 0) = 0
  BY <1>2, ViewFacts, InductionHolds
<1>4. frames = <<>> /\ stateDB.refund = 0 /\ spent = 0 /\ Len(frames) = 0
  BY DEF Init
<1>5. Unshifted(stateDB.refund, Len(frames)) = 0
  BY <1>4 DEF Unshifted
<1>6. Bounded(frames, stateDB, spent)
  BY <1>3, <1>4, <1>5 DEF Bounded, Size, MostEarned
<1>7. Refund(frames, stateDB) = 0
  BY <1>3, <1>4, <1>5 DEF Refund
<1>8. Entries(frames, stateDB) = <<>>
  BY <1>4 DEF Entries
<1>9. Journal!Init
  BY <1>7, <1>8, DomainAssumption
     DEF Init, Journal!Init, Journal!Storage, Storage, Journal!Revision, Revision,
         Journal!R07_Istanbul, R07_Istanbul, Journal!R15_Osaka, R15_Osaka
<1>10. P!TypeOK /\ P!RefundCover
  BY <1>9, ProvedInit, ProvedConstants, P!TypeInit, P!CoverInit
<1> QED
  BY <1>1, <1>6, <1>9, <1>10 DEF Tracked

LEMMA TrackedNext ==
  ASSUME RefundsFit
  PROVE  Tracked /\ [Next]_vars => Tracked' /\ [Journal!Next]_(Journal!vars)
<1>0. IInv /\ Balanced => spent <= GasLimit
  BY InductionHolds, SpentFits
<1>1. (IInv /\ Balanced => spent <= GasLimit)'
  BY <1>0, PTL
<1> SUFFICES ASSUME Tracked, [Next]_vars PROVE Tracked' /\ [Journal!Next]_(Journal!vars)
  OBVIOUS
<1>2. IInv' /\ Balanced'
  BY InductionHolds, Invariance, BalancedNext DEF Tracked
<1>3. Refund(frames, stateDB) >= 0
  <2>1. P!RefundNeverNegative
    BY ProvedConstants, P!CoverIsNeverNegative DEF Tracked
  <2> QED
    BY <2>1 DEF P!RefundNeverNegative
<1>4. [Journal!Next]_(Journal!vars) /\ Bounded(frames', stateDB', spent')
  BY <1>1, <1>2, <1>3, InductionHolds, JournalStep DEF Tracked
<1>5. P!TypeOK'
  BY <1>4, ProvedNext, ProvedConstants, P!TypeNext DEF Tracked
<1>6. P!RefundCover'
  BY <1>4, ProvedNext, ProvedConstants, P!CoverNext DEF Tracked
<1> QED
  BY <1>2, <1>4, <1>5, <1>6 DEF Tracked

\* For any storage, depth and gas: the StateDB's shifted counter, the counters of
\* the running interpreters and geth's reverts implement the journalled counter.
THEOREM RefundRefinement == RefundsFit => (Spec => RefundsAreJournalled)
<1> SUFFICES ASSUME RefundsFit PROVE Spec => RefundsAreJournalled
  OBVIOUS
<1>1. Init => Tracked /\ Journal!Init
  BY TrackedInit
<1>2. Tracked /\ [Next]_vars => Tracked'
  BY TrackedNext
<1>3. Tracked /\ [Next]_vars => [Journal!Next]_(Journal!vars)
  BY TrackedNext
<1> QED
  BY <1>1, <1>2, <1>3, PTL DEF Spec, RefundsAreJournalled, Journal!Spec

\* The counter of the transaction, as it is spread over StateDB and interpreters,
\* always covers what a later SSTORE may take back, and is never negative.
THEOREM RefundAlwaysCovered == RefundsFit => (Spec => []RefundIsCovered)
<1> SUFFICES ASSUME RefundsFit PROVE Spec => []RefundIsCovered
  OBVIOUS
<1>1. Init => Tracked
  BY TrackedInit
<1>2. Tracked /\ [Next]_vars => Tracked'
  BY TrackedNext
<1>3. Tracked => RefundIsCovered
  BY ProvedConstants, SameCover, P!CoverIsNeverNegative DEF Tracked
<1> QED
  BY <1>1, <1>2, <1>3, PTL DEF Spec
=============================================================================
