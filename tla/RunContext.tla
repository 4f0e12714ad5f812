----------------------------- MODULE RunContext -----------------------------
(***************************************************************************)
(* The execution of one transaction by the Floria processor: the run       *)
(* context (processor/floria/run_context.go) that opens and closes calls,  *)
(* and the instructions of the interpreter that reach it or that change    *)
(* the world state.                                                        *)
(*                                                                         *)
(* An open call whose code is running is a frame; the Go call stack of     *)
(* runContext.Call and Interpreter.Run is the sequence of frames, the last *)
(* one on top.  Which instruction a contract executes next is free, so the *)
(* model covers every contract.  Gas is left out: an instruction or a call *)
(* that runs out of gas is one of the failures a frame may always meet.    *)
(*                                                                         *)
(* The world state belongs to the client (tosca.TransactionContext); it is *)
(* one record here, and a snapshot is a copy of it.                        *)
(***************************************************************************)
EXTENDS StorageGas, Sequences, Totals

CONSTANTS
  Address,            \* the accounts
  Precompiled,        \* the addresses of the precompiled contracts
  StateContract,      \* the address of the built-in state contract
  Driver,             \* the only account that may use the state contract
  Sender,             \* the sender of the transaction
  NoAddress,          \* the zero address, the recipient of a create
  Coinbase,           \* the account that gets the fees of the block
  Delegates,          \* the accounts a delegation designation may name
  CreateAddress,      \* CreateAddress[<<a, n>>]: the n-th contract a creates
  Create2Address,     \* Create2Address[a]: what a creates with CREATE2
  Word,               \* the words a storage slot may hold
  ValueLimit,         \* balances are kept modulo this number, 2^256 in the code
  NonceLimit,         \* nonces are kept modulo this number, 2^64 in the code
  MaxNonceIncrement,  \* the state contract's limit for incNonce, 255 in the code
  Amount,             \* the values a call may transfer
  Kinds,              \* the call kinds the contracts use
  Effects,            \* the state changing instructions the contracts use
  DeployResults,      \* whether the code a create returns may be deployed
  Revisions,          \* the revisions considered
  Worlds,             \* the states before the transaction
  MaxRecursiveDepth,  \* the depth limit, 1024 in the code
  MaxOps              \* bound: instructions executed in the transaction

CallKinds == {"Call", "StaticCall", "CallCode", "DelegateCall"}
CreateKinds == {"Create", "Create2"}
NoCode == "none"
Code == {NoCode, "code"}
Balance == 0 .. ValueLimit - 1
Nonce == 0 .. NonceLimit - 1

VARIABLES
  revision,  \* of the block
  original,  \* the storage before the transaction, GetCommittedStorage
  world,     \* the state of the TransactionContext
  depth,     \* runContext.depth
  static,    \* runContext.static
  frames,    \* the calls whose code is running
  phase,     \* "start", "run" or "done"
  result,    \* the last CallResult a caller received
  ops        \* instructions executed so far

vars == <<revision, original, world, depth, static, frames, phase, result, ops>>

World == [balance : [Address -> Balance], nonce : [Address -> Nonce],
          code : [Address -> Code], storage : [Address -> Word],
          logs : Seq(Address), warm : SUBSET Address, destructed : SUBSET Address]

Frame == [kind : CallKinds \cup CreateKinds, sender : Address, recipient : Address,
          static : BOOLEAN,      \* Parameters.Static of the interpreter
          staticSet : BOOLEAN,   \* this call set runContext.static
          snapshot : World,
          before : World,        \* the world when runContext.Call was entered
          refund : Int]          \* context.refund of the interpreter

Result == [success : BOOLEAN, refund : Int]

ASSUME LimitAssumption ==
  /\ ValueLimit \in Nat \ {0}
  /\ NonceLimit \in Nat \ {0, 1}
  /\ MaxNonceIncrement \in Nat \ {0}
  /\ MaxRecursiveDepth \in Nat
  /\ MaxOps \in Nat

ASSUME AddressAssumption ==
  /\ IsFiniteSet(Address)
  /\ Precompiled \subseteq Address
  /\ {StateContract, Driver, Sender, NoAddress, Coinbase} \cup Delegates \subseteq Address
  /\ CreateAddress \in [Address \X Nonce -> Address]
  /\ Create2Address \in [Address -> Address]

ASSUME InputAssumption ==
  /\ Word \subseteq Nat /\ Zero \in Word
  /\ Amount \subseteq Balance
  /\ Kinds \subseteq CallKinds \cup CreateKinds
  /\ Effects \subseteq {"Sstore", "Log", "SelfDestruct"}
  /\ DeployResults \subseteq BOOLEAN
  /\ Revisions \subseteq Revision

ASSUME WorldAssumption ==
  /\ Worlds \subseteq World
  /\ \A w \in Worlds : w.logs = <<>> /\ w.warm = {} /\ w.destructed = {}

top == frames[Len(frames)]
lower == SubSeq(frames, 1, Len(frames) - 1)

-----------------------------------------------------------------------------
(* Helpers of the run context; w is the world they read or change. *)

\* Mutant: only the balance of the sender is checked.
canTransferValueUnbounded(w, value, sender, recipient) ==
  value = 0 \/ w.balance[sender] >= value

canTransferValue(w, value, sender, recipient) ==
  \/ value = 0
  \/ /\ w.balance[sender] >= value
     /\ sender = recipient \/ w.balance[recipient] + value < ValueLimit

transferValue(w, value, sender, recipient) ==
  IF value = 0 \/ sender = recipient THEN w
  ELSE [w EXCEPT !.balance[sender] = (@ - value) % ValueLimit,
                 !.balance[recipient] = (@ + value) % ValueLimit]

isEmpty(w, a) == w.nonce[a] = 0 /\ w.storage[a] = Zero /\ w.code[a] = NoCode

\* AccessAccount is called from Berlin on.
AccessAccount(w, a) == IF revision >= R09_Berlin THEN [w EXCEPT !.warm = @ \cup {a}] ELSE w

\* Mutant: the snapshot is not restored.
RestoredNot(success, w, snapshot) == w

\* The deferred function of executeCall and executeCreate: the world w is left
\* by a result that is successful, the snapshot comes back otherwise.
Restored(success, w, snapshot) == IF success THEN w ELSE snapshot

\* The CallResult reaches the interpreter of the innermost of the frames fs, or
\* the processor when there is none.
Return(fs, success, refund, w) ==
  /\ world' = w
  /\ result' = [success |-> success, refund |-> refund]
  /\ IF fs = <<>>
     THEN frames' = fs /\ phase' = "done"
     ELSE frames' = [fs EXCEPT ![Len(fs)].refund = @ + refund] /\ phase' = "run"

\* A call that ends before any code runs: depth and static are back to what
\* they were.
ReturnAtOnce(success, w) ==
  /\ Return(frames, success, 0, w)
  /\ UNCHANGED <<depth, static>>

\* Interpreter.Run starts on the code of the call.
runInterpreter(kind, p, w, before, snapshot) ==
  /\ world' = w
  /\ depth' = depth + 1
  /\ static' = (static \/ kind = "StaticCall")
  /\ frames' = Append(frames,
       [kind |-> kind, sender |-> p.sender, recipient |-> p.recipient,
        static |-> static \/ kind = "StaticCall", staticSet |-> ~static /\ kind = "StaticCall",
        snapshot |-> snapshot, before |-> before, refund |-> 0])
  /\ phase' = "run"
  /\ UNCHANGED result

\* The state contract accepts five methods, from the driver only.
runStateContract(w, sender) ==
  /\ sender = Driver
  /\ \/ \E a \in Address \ {sender}, v \in Amount : ReturnAtOnce(TRUE, [w EXCEPT !.balance[a] = v])
     \/ \E to \in Address, from \in Address : ReturnAtOnce(TRUE, [w EXCEPT !.code[to] = w.code[from]])
     \/ \E a \in Address, b \in Address :
          ReturnAtOnce(TRUE, [w EXCEPT !.code[a] = w.code[b], !.code[b] = w.code[a]])
     \/ \E a \in Address, v \in Word : ReturnAtOnce(TRUE, [w EXCEPT !.storage[a] = v])
     \/ \E a \in Address \ {sender}, n \in 1 .. MaxNonceIncrement :
          ReturnAtOnce(TRUE, [w EXCEPT !.nonce[a] = (@ + n) % NonceLimit])

executeCall(kind, p, before) ==
  LET transfers == kind \in {"Call", "CallCode"}
      coverable == transfers => canTransferValue(before, p.value, p.sender, p.recipient)
      w == IF transfers THEN transferValue(before, p.value, p.sender, p.recipient) ELSE before
      builtIn == kind = "Call" /\ p.codeAddress = StateContract
      code == IF kind \in {"Call", "StaticCall"} THEN w.code[p.recipient] ELSE w.code[p.codeAddress]
  IN  \/ depth > MaxRecursiveDepth /\ ReturnAtOnce(FALSE, before)
      \/ /\ depth <= MaxRecursiveDepth /\ ~coverable
         /\ ReturnAtOnce(FALSE, Restored(FALSE, before, before))
      \/ /\ depth <= MaxRecursiveDepth /\ coverable /\ builtIn
         /\ \/ ReturnAtOnce(FALSE, Restored(FALSE, w, before))
            \/ runStateContract(w, p.sender)
      \/ /\ depth <= MaxRecursiveDepth /\ coverable /\ ~builtIn /\ p.codeAddress \in Precompiled
         /\ \E success \in BOOLEAN : ReturnAtOnce(success, Restored(success, w, before))
      \/ /\ depth <= MaxRecursiveDepth /\ coverable /\ ~builtIn /\ p.codeAddress \notin Precompiled
         /\ \/ code = NoCode /\ ReturnAtOnce(TRUE, w)
            \/ code # NoCode /\ runInterpreter(kind, p, w, before, before)

\* The nonce has been incremented when createAddress reads it.
createAddress(kind, w, sender) ==
  IF kind = "Create" THEN CreateAddress[<<sender, w.nonce[sender] - 1>>] ELSE Create2Address[sender]

\* Mutant: the nonce of the new account stays zero while it is constructed.
CreateContractUnmarked(w, a) == w

CreateContract(w, a) == [w EXCEPT !.nonce[a] = 1]

executeCreate(kind, p, before) ==
  LET setUp == /\ depth <= MaxRecursiveDepth
               /\ canTransferValue(before, p.value, p.sender, NoAddress)
               /\ before.nonce[p.sender] + 1 < NonceLimit
      counted == [before EXCEPT !.nonce[p.sender] = @ + 1]
      created == createAddress(kind, counted, p.sender)
      snapshot == AccessAccount(counted, created)
      w == transferValue(CreateContract(snapshot, created), p.value, p.sender, created)
  IN  \/ ~setUp /\ ReturnAtOnce(FALSE, before)
      \/ setUp /\ ~isEmpty(snapshot, created) /\ ReturnAtOnce(FALSE, snapshot)
      \/ /\ setUp /\ isEmpty(snapshot, created)
         /\ \/ p.initCode = NoCode /\ ReturnAtOnce(TRUE, w)
            \/ /\ p.initCode # NoCode
               /\ runInterpreter(kind, [p EXCEPT !.recipient = created], w, before, snapshot)

-----------------------------------------------------------------------------
(* The transaction *)

Init ==
  /\ revision \in Revisions
  /\ world \in Worlds
  /\ original = world.storage
  /\ depth = 0 /\ static = FALSE /\ frames = <<>>
  /\ phase = "start"
  /\ result = [success |-> FALSE, refund |-> 0]
  /\ ops = 0

\* From Berlin on; a nil list warms nothing.  The accounts are the sender and, of
\* a call, the recipient.
setUpAccessList(w, accounts, list) ==
  IF list = {} \/ revision < R09_Berlin THEN w
  ELSE [w EXCEPT !.warm = accounts \cup Precompiled \cup list
                            \cup (IF revision >= R12_Shanghai THEN {Coinbase} ELSE {})]

\* runTransaction: a call counts the sender's nonce here, a create counts it in
\* executeCreate.
StartCall(to, value, list) ==
  LET listed == setUpAccessList(world, {Sender, to}, list)
      counted == [listed EXCEPT !.nonce[Sender] = (@ + 1) % NonceLimit]
      p == [sender |-> Sender, recipient |-> to, codeAddress |-> to, value |-> value]
  IN  /\ phase = "start"
      /\ executeCall("Call", p, counted)
      /\ UNCHANGED <<revision, original, ops>>

StartCreate(value, initCode, list) ==
  LET p == [sender |-> Sender, recipient |-> NoAddress, value |-> value, initCode |-> initCode]
  IN  /\ phase = "start"
      /\ executeCreate("Create", p, setUpAccessList(world, {Sender}, list))
      /\ UNCHANGED <<revision, original, ops>>

-----------------------------------------------------------------------------
(* Instructions of the running contract.  A write instruction in a static     *)
(* frame is an error: the frame then ends with Fail.                          *)

Executes ==
  /\ phase = "run"
  /\ ops < MaxOps
  /\ ops' = ops + 1
  /\ UNCHANGED <<revision, original>>

Stays == UNCHANGED <<depth, static, phase, result>>

opSstore(new) ==
  LET a == top.recipient
      status == GetStorageStatus(original[a], world.storage[a], new)
  IN  /\ Executes
      /\ "Sstore" \in Effects
      /\ ~top.static
      /\ world' = [world EXCEPT !.storage[a] = new]
      /\ frames' = [frames EXCEPT ![Len(frames)].refund = @ + getRefundForSstore(revision, status)]
      /\ Stays

opLog ==
  /\ Executes
  /\ "Log" \in Effects
  /\ ~top.static
  /\ world' = [world EXCEPT !.logs = Append(@, top.recipient)]
  /\ UNCHANGED frames
  /\ Stays

\* Mutant: a CALL of a static frame stays a CALL.
nestedKindUnchanged(kind) == kind

\* A CALL of a static frame becomes a STATICCALL.
nestedKind(kind) == IF top.static /\ kind = "Call" THEN "StaticCall" ELSE kind

\* genericCall warms the callee and, from Prague on, the account its code may
\* delegate to: the worlds that are left.
accessed(to) ==
  LET w == AccessAccount(world, to)
      delegates == {a \in Delegates : revision >= R14_Prague /\ world.code[to] # NoCode}
  IN  {w} \cup {AccessAccount(w, a) : a \in delegates}

\* opCall and genericCall: the value check of a static frame, the balance
\* check, and the parameters of the nested call.
genericCall(kind, to, value) ==
  LET a == top.recipient
      p == [sender |-> IF kind = "DelegateCall" THEN top.sender ELSE a,
            recipient |-> IF kind \in {"CallCode", "DelegateCall"} THEN a ELSE to,
            codeAddress |-> to, value |-> value]
  IN  /\ Executes
      /\ kind \in {"DelegateCall", "StaticCall"} => value = 0
      /\ ~(top.static /\ kind = "Call" /\ value # 0)
      /\ \E w \in accessed(to) :
           IF world.balance[a] < value
           THEN world' = w /\ UNCHANGED frames /\ Stays
           ELSE executeCall(nestedKind(kind), p, w)

genericCreate(kind, value, initCode) ==
  LET a == top.recipient
      p == [sender |-> a, recipient |-> NoAddress, value |-> value, initCode |-> initCode]
  IN  /\ Executes
      /\ ~top.static
      /\ IF world.balance[a] < value
         THEN UNCHANGED <<world, frames>> /\ Stays
         ELSE executeCreate(kind, p, world)

-----------------------------------------------------------------------------
(* The end of a frame; the deferred functions restore depth and static. *)

\* Mutant: every call resets the static flag, not only the one that set it.
LeaveResets ==
  /\ phase = "run"
  /\ depth' = depth - 1
  /\ static' = FALSE

Leave ==
  /\ phase = "run"
  /\ depth' = depth - 1
  /\ static' = (static /\ ~top.staticSet)

\* executeCall and executeCreate after a successful run.  checkAndDeployCode may
\* reject the code a create returns: the world is restored, the refund of the
\* result is not touched.
Succeed(w, refund, output, deployable) ==
  LET isCreate == top.kind \in CreateKinds
  IN  /\ Leave
      /\ \/ ~isCreate /\ Return(lower, TRUE, refund, w)
         \/ /\ isCreate /\ deployable
            /\ Return(lower, TRUE, refund, [w EXCEPT !.code[top.recipient] = output])
         \/ /\ isCreate /\ ~deployable
            /\ Return(lower, FALSE, refund, Restored(FALSE, w, top.snapshot))

\* STOP and RETURN; there is nothing to reject in an empty output.
Stop(output, deployable) ==
  /\ output = NoCode => deployable
  /\ Succeed(world, top.refund, output, deployable)
  /\ UNCHANGED <<revision, original, ops>>

\* floriaContext.SelfDestruct moves the balance before the account is marked.
paidOut(a, beneficiary) ==
  LET emptied == [world.balance EXCEPT ![a] = 0]
  IN  [emptied EXCEPT ![beneficiary] = (@ + world.balance[a]) % ValueLimit]

\* opSelfdestruct; the frame ends successfully.
opSelfdestruct(beneficiary) ==
  LET a == top.recipient
      w == AccessAccount(world, beneficiary)
      earned == selfDestructRefund(a \notin world.destructed, revision)
  IN  /\ Executes
      /\ "SelfDestruct" \in Effects
      /\ ~top.static
      /\ Succeed([w EXCEPT !.balance = paidOut(a, beneficiary), !.destructed = @ \cup {a}],
                 top.refund + earned, NoCode, TRUE)

\* Mutant: the refund of a failed frame reaches the caller.
FailKeepsRefund ==
  /\ Leave
  /\ Return(lower, FALSE, top.refund, Restored(FALSE, world, top.snapshot))
  /\ UNCHANGED <<revision, original, ops>>

\* REVERT, a violated rule, or an error of the interpreter: no refund is
\* reported and the deferred function restores the snapshot.
Fail ==
  /\ Leave
  /\ Return(lower, FALSE, 0, Restored(FALSE, world, top.snapshot))
  /\ UNCHANGED <<revision, original, ops>>

Start ==
  \/ \E to \in Address, value \in Amount, list \in SUBSET Precompiled : StartCall(to, value, list)
  \/ \E value \in Amount, initCode \in Code, list \in SUBSET Precompiled :
       StartCreate(value, initCode, list)

Instruction ==
  \/ \E new \in Word : opSstore(new)
  \/ opLog
  \/ \E beneficiary \in Address : opSelfdestruct(beneficiary)
  \/ \E kind \in Kinds \cap CallKinds, to \in Address, value \in Amount : genericCall(kind, to, value)
  \/ \E kind \in Kinds \cap CreateKinds, value \in Amount, initCode \in Code :
       genericCreate(kind, value, initCode)

Next ==
  \/ Start
  \/ Instruction
  \/ \E output \in Code, deployable \in DeployResults : Stop(output, deployable)
  \/ Fail

Spec == Init /\ [][Next]_vars

-----------------------------------------------------------------------------
(* Properties *)

\* The variables have the shapes declared above.
TypeOK ==
  /\ revision \in Revision
  /\ original \in [Address -> Word]
  /\ world \in World
  /\ depth \in Nat
  /\ static \in BOOLEAN
  /\ frames \in Seq(Frame)
  /\ phase \in {"start", "run", "done"}
  /\ result \in Result
  /\ ops \in 0 .. MaxOps

\* runContext keeps its depth and its static flag by hand, across every early
\* return and deferred function of executeCall and executeCreate.  They always
\* agree with the calls that are really open: depth is their number and never
\* passes the limit by more than the one call that incrementDepth lets in, the
\* flag is set exactly while a static call is among them, and each interpreter
\* was given the flag that holds for its own calls.
BookkeepingIsExact ==
  /\ depth = Len(frames)
  /\ depth <= MaxRecursiveDepth + 1
  /\ static <=> \E i \in DOMAIN frames : frames[i].kind = "StaticCall"
  /\ \A i \in DOMAIN frames :
       frames[i].static <=> \E j \in 1 .. i : frames[j].kind = "StaticCall"

\* All of the world a contract can observe, but for the access list.
Visible(w) == <<w.balance, w.nonce, w.code, w.storage, w.logs, w.destructed>>

\* While a static call is open nothing below it has changed the world, whatever
\* the contracts it reached try: calls with value, CALLCODE to itself, calls to
\* the state contract, creates and self-destructs included.
StaticCallsChangeNothing ==
  \A i \in DOMAIN frames :
    frames[i].static => Visible(world) = Visible(frames[i].before)

\* Two creates in progress never construct the same account, though its code is
\* still empty when its init code calls back into the creator and derives its
\* address again: executeCreate sets its nonce before the init code runs.
ConstructionIsExclusive ==
  \A i, j \in DOMAIN frames :
    frames[i].kind \in CreateKinds /\ frames[j].kind \in CreateKinds /\ i # j =>
      frames[i].recipient # frames[j].recipient

\* What a call may change before any code runs.
Holdings(w) == <<w.balance, w.code, w.destructed>>

\* A call that fails leaves the world as runContext.Call found it.  A create that
\* fails keeps the two changes made before its snapshot: the nonce of the
\* creator is spent and, from Berlin on, the address is warm.  A call or create
\* that fails before any code runs, as by the depth limit, a balance too small
\* or too large, or a state contract or precompiled contract that fails after
\* the value has moved, moves no value and changes no code either.
FailureUndoes ==
  [][~result'.success =>
       /\ Len(frames') < Len(frames) =>
            world' = IF top.kind \in CreateKinds
                     THEN AccessAccount([top.before EXCEPT !.nonce[top.sender] = @ + 1], top.recipient)
                     ELSE top.before
       /\ Len(frames') = Len(frames) => Holdings(world') = Holdings(world)]_vars

Supply(w) == Total(w.balance)

\* No call, create or self-destruct creates or destroys value: outside of the
\* state contract the balances always add up to what they were when the
\* transaction started, in spite of the modular arithmetic of transferValue, as
\* long as all value fits a word.  Even if it does not, no call that runs code
\* loses any, as canTransferValue checks for the overflow of its recipient; a
\* create checks another account and a self-destruct none.
SupplyIsConserved ==
  [][LET first == IF frames = <<>> THEN world ELSE frames[1].before
         calls == Len(frames') > Len(frames) /\ frames'[Len(frames')].kind \in CallKinds
     IN  Supply(first) < ValueLimit \/ calls => Supply(world') = Supply(world)]_vars
=============================================================================
