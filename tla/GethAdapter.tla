----------------------------- MODULE GethAdapter -----------------------------
(***************************************************************************)
(* A Tosca interpreter inside go-ethereum: the processors "geth" and       *)
(* "opera" let geth's EVM run a transaction, and geth_adapter plugs a      *)
(* Tosca interpreter into it.  Two things do not fit, and the adapter gets *)
(* them across by an encoding.                                             *)
(*                                                                         *)
(*  - A Tosca interpreter reports its refund when it returns, so the       *)
(*    counter of the StateDB may have to go below zero in between.  It is  *)
(*    unsigned; the outermost call shifts it by refundShift, and takes the *)
(*    shift off at the end.                                                *)
(*  - geth has no way to tell a nested call that it runs read-only.  The   *)
(*    adapter adds readOnlyBit to the gas of the call on the way into      *)
(*    geth, and takes it off on the way out.                               *)
(*                                                                         *)
(* One frame is one activation of Interpret; geth's EVM between two of     *)
(* them (snapshot, call, revert) is external code, modelled by what the    *)
(* adapter relies on.  Gas is counted in units, one for each instruction.  *)
(***************************************************************************)
EXTENDS StorageGas, Sequences, Totals

CONSTANTS
  Contract,         \* the contracts there are before the transaction
  Eoa,              \* accounts without code
  Precompile,       \* the precompiled contracts
  Fresh,            \* the addresses a create may get
  NoAddress,        \* stands for a missing address
  Slot, Word,       \* the storage
  Revisions,        \* the revisions to look at
  refundShift,      \* 2^60 in the code
  refundLimit,      \* 2^64 in the code: the refund counter is a uint64
  readOnlyBit,      \* 2^63 in the code: the highest bit of the gas
  CallCreateDepth,  \* 1024 in geth
  GasLimit,         \* bound: the gas of the transaction
  MaxRefund         \* a bound no behaviour of the instance reaches

ASSUME EncodingAssumption ==
  /\ {refundShift, refundLimit, readOnlyBit, CallCreateDepth, GasLimit, MaxRefund} \subseteq Nat
  /\ GasLimit < readOnlyBit
  /\ MaxRefund < refundShift
  /\ 2 * refundShift <= refundLimit

ASSUME DomainAssumption ==
  /\ Revisions \subseteq Revision
  /\ Word \subseteq Nat
  /\ (Contract \cup Fresh) \cap Precompile = {}

VARIABLES
  revision,  \* the revision of the block
  original,  \* the storage before the transaction
  world,     \* what the transaction context keeps and a snapshot brings back
  stateDB,   \* the StateDB: refund, snapshots and createdContract
  frames,    \* the activations of Interpret; the last one is running
  spent,     \* the gas used up so far
  receipt    \* the outcome, once there is one

vars == <<revision, original, world, stateDB, frames, spent, receipt>>

Kind == {"Call", "StaticCall", "DelegateCall", "CallCode", "Create"}
Storage == [Slot -> Word]
World == [current : Storage, destructed : SUBSET (Contract \cup Fresh), created : SUBSET Fresh]
StateDB == [refund : 0 .. refundLimit - 1,
            snapshots : Seq([world : World, refund : 0 .. refundLimit - 1]),
            createdContract : Fresh \cup {NoAddress}]
Frame == [kind : Kind, address : Contract \cup Fresh, readOnly : BOOLEAN,
          snapshot : Nat, given : Nat, gas : Nat, refund : Int]
Running == [done |-> FALSE]
Receipt == [done : {TRUE}, success : BOOLEAN, gas : Nat, address : Fresh \cup {NoAddress}]

running == Len(frames)
top == frames[running]

-----------------------------------------------------------------------------
(* The StateDB *)

AddRefund(db, amount) == [db EXCEPT !.refund = (@ + amount) % refundLimit]
SubRefund(db, amount) == [db EXCEPT !.refund = (@ - amount) % refundLimit]

\* Snapshots are numbered from 1 here, and never removed.
Snapshot(db) == [db EXCEPT !.snapshots = Append(@, [world |-> world, refund |-> db.refund])]

\* Mutant: only the transaction context goes back.
RevertToSnapshotKeepsRefund(db, snapshot) == db

RevertToSnapshot(db, snapshot) == [db EXCEPT !.refund = db.snapshots[snapshot].refund]

CreateContract(db, address) == [db EXCEPT !.createdContract = address]

-----------------------------------------------------------------------------
(* The encodings of the adapter *)

\* Mutant: the flag is not set.
encodeReadOnlyInGasNever(gas, recipient, readOnly) == gas

encodeReadOnlyInGas(gas, recipient, readOnly) ==
  IF recipient \notin Precompile /\ readOnly THEN gas + readOnlyBit ELSE gas

\* What Interpret makes of the gas it is handed at a depth.
decodeReadOnly(depth, readOnly, gas) == readOnly \/ (depth > 0 /\ gas >= readOnlyBit)


decodeGas(depth, gas) == IF depth > 0 /\ gas >= readOnlyBit THEN gas - readOnlyBit ELSE gas

\* The conversion of a uint64 to tosca.Gas, an int64.
Signed(gas) == IF gas >= readOnlyBit THEN gas - 2 * readOnlyBit ELSE gas

\* The safeguard at the end of Call: the gas a call returns to its caller.
gasLeft(returnGas, given) == Max({0, Min({Signed(returnGas), given})})

undoRefundShift(db, failed) ==
  IF failed THEN SubRefund(db, db.refund) ELSE SubRefund(db, Min({refundShift, db.refund}))

-----------------------------------------------------------------------------
(* Into geth and back *)

Init ==
  /\ revision \in Revisions
  /\ original \in Storage
  /\ world = [current |-> original, destructed |-> {}, created |-> {}]
  /\ stateDB = [refund |-> 0, snapshots |-> <<>>, createdContract |-> NoAddress]
  /\ frames = <<>>
  /\ spent = 0
  /\ receipt = Running

\* The code of geth's EVM up to the interpreter, and Interpret up to the Tosca
\* interpreter: gas is what geth was handed for the call, given what the caller
\* asked for, callers the frames below.
Enter(callers, kind, address, gas, given) ==
  LET depth == Len(callers)
      db == Snapshot(stateDB)
      created == IF kind = "Create" THEN CreateContract(db, address) ELSE db
      shifted == IF depth = 0 THEN AddRefund(created, refundShift) ELSE created
  IN  /\ stateDB' = shifted
      /\ world' = IF kind = "Create" THEN [world EXCEPT !.created = @ \cup {address}] ELSE world
      /\ frames' = Append(callers,
           [kind |-> kind, address |-> address,
            readOnly |-> decodeReadOnly(depth, kind = "StaticCall", gas),
            snapshot |-> Len(db.snapshots), given |-> given,
            gas |-> decodeGas(depth, gas), refund |-> 0])

\* The processor hands the transaction to geth.
Start(kind, address) ==
  /\ frames = <<>> /\ ~receipt.done
  /\ Enter(<<>>, kind, address, GasLimit, GasLimit)
  /\ UNCHANGED <<revision, original, spent, receipt>>

\* The frames after the caller paid for a call instruction: one unit, and what
\* it forwards.
Paid(forwarded) == [frames EXCEPT ![running].gas = @ - 1 - forwarded]

\* genericCall: the kind of a nested call.
\* Mutant: calls in static mode remain calls.
nestedKindUnchanged(kind) == kind

nestedKind(kind) == IF top.readOnly /\ kind = "Call" THEN "StaticCall" ELSE kind

CanPay(forwarded) == frames # <<>> /\ top.gas >= 1 + forwarded

\* A call of a contract.
Call(kind, to, given) ==
  LET address == IF kind \in {"DelegateCall", "CallCode"} THEN top.address ELSE to
  IN  /\ CanPay(given)
      /\ running <= CallCreateDepth
      /\ Enter(Paid(given), nestedKind(kind), address,
               encodeReadOnlyInGas(given, to, top.readOnly), given)
      /\ spent' = spent + 1
      /\ UNCHANGED <<revision, original, receipt>>

\* A call of an account without code.  geth's Call returns the gas as it came;
\* its other calls run the interpreter, which stops at once.
CallWithoutCode(kind, to, given) ==
  LET gas == encodeReadOnlyInGas(given, to, top.readOnly)
      returnGas == IF nestedKind(kind) = "Call" THEN gas ELSE decodeGas(running, gas)
  IN  /\ CanPay(given)
      /\ running <= CallCreateDepth
      /\ stateDB' = Snapshot(stateDB)
      /\ frames' = [Paid(given) EXCEPT ![running].gas = @ + gasLeft(returnGas, given)]
      /\ spent' = spent + 1
      /\ UNCHANGED <<revision, original, world, receipt>>

\* A call of a precompiled contract, which costs a unit or runs out of gas.
CallPrecompile(to, given) ==
  LET gas == encodeReadOnlyInGas(given, to, top.readOnly)
      cost == Min({1, given})
      returnGas == IF gas >= 1 THEN gas - 1 ELSE 0
  IN  /\ CanPay(given)
      /\ running <= CallCreateDepth
      /\ stateDB' = Snapshot(stateDB)
      /\ frames' = [Paid(given) EXCEPT ![running].gas = @ + gasLeft(returnGas, given)]
      /\ spent' = spent + 1 + cost
      /\ UNCHANGED <<revision, original, world, receipt>>

\* A create, refused in static mode.  It fails for all its gas when the address
\* is taken.
Create(address, given) ==
  /\ CanPay(given)
  /\ ~top.readOnly
  /\ running <= CallCreateDepth
  /\ \/ /\ address \notin world.created
        /\ Enter(Paid(given), "Create", address, given, given)
        /\ spent' = spent + 1
     \/ /\ address \in world.created
        /\ frames' = Paid(given)
        /\ spent' = spent + 1 + given
        /\ UNCHANGED <<world, stateDB>>
  /\ UNCHANGED <<revision, original, receipt>>

\* Every other instruction, and a call that geth refuses because of its depth,
\* the caller's balance or nonce: gethToVMErrors gives its gas back.
OtherInstruction ==
  /\ CanPay(0)
  /\ frames' = Paid(0)
  /\ spent' = spent + 1
  /\ UNCHANGED <<revision, original, world, stateDB, receipt>>

Sstore(slot, word) ==
  LET status == GetStorageStatus(original[slot], world.current[slot], word)
  IN  /\ CanPay(0)
      /\ ~top.readOnly
      /\ world' = [world EXCEPT !.current[slot] = word]
      /\ frames' = [Paid(0) EXCEPT ![running].refund = @ + getRefundForSstore(revision, status)]
      /\ spent' = spent + 1
      /\ UNCHANGED <<revision, original, stateDB, receipt>>

\* The end of Interpret, of geth's call around it and of the adapter's Call
\* that made it.  The interpreter of frame f left world w and reports success,
\* revert or failure; geth may reject the code a create returns.
Leave(f, w, outcome, rejected) ==
  LET success == outcome = "success"
      kept == success /\ ~rejected
      db1 == IF ~success THEN stateDB
             ELSE IF f.refund >= 0 THEN AddRefund(stateDB, f.refund)
             ELSE SubRefund(stateDB, -f.refund)
      db2 == IF running = 1 THEN undoRefundShift(db1, outcome = "failure") ELSE db1
      returnGas == IF kept \/ outcome = "revert" THEN f.gas ELSE 0
  IN  /\ stateDB' = IF kept THEN db2 ELSE RevertToSnapshot(db2, f.snapshot)
      /\ world' = IF kept THEN w ELSE stateDB.snapshots[f.snapshot].world
      /\ spent' = spent + top.gas - returnGas
      /\ IF running = 1
         THEN /\ frames' = <<>>
              /\ receipt' = [done |-> TRUE, success |-> kept, gas |-> returnGas,
                             address |-> IF kept /\ f.kind = "Create"
                                         THEN stateDB.createdContract ELSE NoAddress]
         ELSE /\ frames' = [SubSeq(frames, 1, running - 1) EXCEPT
                             ![running - 1].gas = @ + gasLeft(returnGas, f.given)]
              /\ UNCHANGED receipt
      /\ UNCHANGED <<revision, original>>

Stop(rejected) ==
  /\ frames # <<>>
  /\ rejected => top.kind = "Create"
  /\ Leave(top, world, "success", rejected)

\* A revert that leaves neither gas nor output looks like a failure to geth.
Revert(hasOutput) ==
  /\ frames # <<>>
  /\ Leave(top, world, IF top.gas > 0 \/ hasOutput THEN "revert" ELSE "failure", FALSE)

Fail ==
  /\ frames # <<>>
  /\ Leave(top, world, "failure", FALSE)

\* The SelfDestruct of the adapter, which ends the frame.
SelfDestruct ==
  LET a == top.address
      gone == revision < R13_Cancun \/ a \in world.created
      earned == selfDestructRefund(a \notin world.destructed, revision)
  IN  /\ CanPay(0)
      /\ ~top.readOnly
      /\ Leave([top EXCEPT !.gas = @ - 1, !.refund = @ + earned],
               IF gone THEN [world EXCEPT !.destructed = @ \cup {a}] ELSE world,
               "success", FALSE)

Next ==
  \/ \E to \in Contract : Start("Call", to)
  \/ \E to \in Fresh : Start("Create", to)
  \/ \E kind \in Kind \ {"Create"}, given \in 0 .. GasLimit :
       \/ \E to \in Contract \cup world.created : Call(kind, to, given)
       \/ \E to \in Eoa : CallWithoutCode(kind, to, given)
  \/ \E to \in Precompile, given \in 0 .. GasLimit : CallPrecompile(to, given)
  \/ \E to \in Fresh, given \in 0 .. GasLimit : Create(to, given)
  \/ OtherInstruction
  \/ \E slot \in Slot, word \in Word : Sstore(slot, word)
  \/ \E rejected \in BOOLEAN : Stop(rejected)
  \/ \E hasOutput \in BOOLEAN : Revert(hasOutput)
  \/ Fail
  \/ SelfDestruct

Spec == Init /\ [][Next]_vars

-----------------------------------------------------------------------------
(* Properties *)

\* The state variables have the shapes declared above; in particular no frame
\* ever has more gas than its caller gave it, be it from a call that returns or
\* from a read-only flag that decodeReadOnlyFromGas left in.
TypeOK ==
  /\ revision \in Revision
  /\ original \in Storage
  /\ world \in World
  /\ stateDB \in StateDB
  /\ frames \in Seq(Frame)
  /\ \A i \in DOMAIN frames :
       /\ frames[i].snapshot \in DOMAIN stateDB.snapshots
       /\ frames[i].gas <= frames[i].given
       /\ frames[i].given <= GasLimit
  /\ spent \in Nat
  /\ receipt \in Receipt \cup {Running}

\* A static call changes nothing, however deep and by whatever kinds of calls
\* it goes on: the flag that Call hides in the gas reaches every Interpret.
StaticCallsAreProtected ==
  \A i \in DOMAIN frames :
    frames[i].kind = "StaticCall" => world = stateDB.snapshots[frames[i].snapshot].world

\* The gas of all frames.
GasHeld == Total([i \in DOMAIN frames |-> frames[i].gas])

\* Every unit of the transaction's gas is held by a frame, was used up or is
\* returned: the flag in the gas neither adds gas nor makes the safeguard at
\* the end of Call drop any.
NoGasLost ==
  IF receipt.done THEN spent + receipt.gas = GasLimit
  ELSE frames # <<>> => spent + GasHeld = GasLimit

\* The refund of the transaction so far: what the StateDB has, without the shift,
\* and what the interpreters on the stack have not reported yet.
Unshifted(refund, depth) == IF depth = 0 THEN refund ELSE refund - refundShift
Refund(fs, db) == Unshifted(db.refund, Len(fs)) + Earned(fs, Len(fs))

\* What the call of frame i falls back to when it fails.
Saved(fs, db, i) == db.snapshots[fs[i].snapshot]
Entry(fs, db, i) ==
  LET saved == Saved(fs, db, i)
  IN  [current |-> saved.world.current, destructed |-> saved.world.destructed,
       refund |-> Unshifted(saved.refund, i - 1) + Earned(fs, i - 1)]
Entries(fs, db) == [i \in DOMAIN fs |-> Entry(fs, db, i)]

Journal == INSTANCE RefundJournal WITH
  Value <- Word, Account <- Contract \cup Fresh, MaxDepth <- CallCreateDepth + 2,
  current <- world.current, destructed <- world.destructed,
  refund <- Refund(frames, stateDB), journal <- Entries(frames, stateDB)

\* The shifted counter of the StateDB, the counters of the running interpreters
\* and geth's reverts together behave as the one journalled counter: the shift
\* is never visible after the transaction, and no report is lost or kept twice,
\* also when geth rejects the code of a create.
RefundsAreJournalled == Journal!Spec

\* At every point of the transaction, and in every state a failing call could
\* still fall back to, the counter covers the clearing refund of each slot that
\* is empty now but was not before the transaction, and is never negative: the
\* refund that a later SSTORE takes back is there, in spite of the order in which
\* the interpreters report.
RefundIsCovered == Journal!RefundCover /\ Journal!RefundNeverNegative

ASSUME JournalAssumption == Journal!ConstantAssumption
=============================================================================
