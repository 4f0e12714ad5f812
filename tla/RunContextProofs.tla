-------------------------- MODULE RunContextProofs --------------------------
(***************************************************************************)
(* What the run context guarantees for every set of accounts, every depth  *)
(* limit and every contract: types, the book-keeping of depth and static,  *)
(* the protection of static calls, the roll-back of failed calls, that no  *)
(* account is constructed twice at a time, that value is conserved, and    *)
(* that the refunds of the frames implement the journalled counter.        *)
(***************************************************************************)
EXTENDS RunContextRefund, CollectionLemmas, TLAPS

\* The provers of a step that names none.
USE SMTT(20), Zenon

-----------------------------------------------------------------------------
(* The helpers stay inside World. *)

CallParams == [sender : Address, recipient : Address, codeAddress : Address, value : Balance]
CreateParams == [sender : Address, recipient : Address, value : Balance, initCode : Code]

\* Reducing an integer modulo a limit gives a number below the limit.
LEMMA ModuloType ==
  ASSUME NEW n \in Nat \ {0}, NEW x \in Int
  PROVE  x % n \in 0 .. n - 1
OBVIOUS

LEMMA TransferType ==
  ASSUME NEW w \in World, NEW value \in Balance, NEW sender \in Address, NEW recipient \in Address
  PROVE  /\ transferValue(w, value, sender, recipient) \in World
         /\ sender = recipient => transferValue(w, value, sender, recipient) = w
<1>1. w.balance \in [Address -> Balance]
  BY Zenon DEF World
<1>2. /\ (w.balance[sender] - value) % ValueLimit \in Balance
      /\ (w.balance[recipient] + value) % ValueLimit \in Balance
  <2>1. w.balance[sender] - value \in Int /\ w.balance[recipient] + value \in Int
    BY <1>1, LimitAssumption DEF Balance
  <2> QED
    BY <2>1, ModuloType, LimitAssumption, Zenon DEF Balance
<1>3. ASSUME sender # recipient
      PROVE  transferValue(w, value, sender, recipient) \in World
  <2> DEFINE b == [w.balance EXCEPT ![sender] = (@ - value) % ValueLimit,
                                    ![recipient] = (@ + value) % ValueLimit]
  <2>1. b \in [Address -> Balance]
    BY <1>1, <1>2, <1>3, Zenon
  <2>2. [w EXCEPT !.balance = b] \in World
    BY <2>1, Zenon DEF World
  <2>3. [w EXCEPT !.balance[sender] = (@ - value) % ValueLimit,
                  !.balance[recipient] = (@ + value) % ValueLimit] = [w EXCEPT !.balance = b]
    BY Zenon DEF World
  <2> QED
    BY <2>2, <2>3, Zenon DEF transferValue
<1> QED
  BY <1>3, Zenon DEF transferValue

LEMMA AccessType ==
  ASSUME NEW w \in World, NEW a \in Address
  PROVE  /\ AccessAccount(w, a) \in World
         /\ Visible(AccessAccount(w, a)) = Visible(w)
BY Zenon DEF AccessAccount, World, Visible

LEMMA NonceType ==
  ASSUME NEW w \in World, NEW a \in Address, NEW n \in Nonce
  PROVE  [w EXCEPT !.nonce[a] = n] \in World
BY Zenon DEF World

LEMMA CodeType ==
  ASSUME NEW w \in World, NEW a \in Address, NEW c \in Code
  PROVE  [w EXCEPT !.code[a] = c] \in World
BY Zenon DEF World

LEMMA BalanceType ==
  ASSUME NEW w \in World, NEW a \in Address, NEW v \in Balance
  PROVE  [w EXCEPT !.balance[a] = v] \in World
BY Zenon DEF World

LEMMA StorageType ==
  ASSUME NEW w \in World, NEW a \in Address, NEW v \in Word
  PROVE  [w EXCEPT !.storage[a] = v] \in World
BY Zenon DEF World

LEMMA SwapType ==
  ASSUME NEW w \in World, NEW a \in Address, NEW b \in Address
  PROVE  [w EXCEPT !.code[a] = w.code[b], !.code[b] = w.code[a]] \in World
BY Zenon DEF World

LEMMA StateContractType ==
  ASSUME NEW w \in World, NEW sender \in Address, runStateContract(w, sender)
  PROVE  \E after \in World : ReturnAtOnce(TRUE, after)
<1>1. ASSUME NEW a \in Address \ {sender}, NEW v \in Amount, ReturnAtOnce(TRUE, [w EXCEPT !.balance[a] = v])
      PROVE  \E after \in World : ReturnAtOnce(TRUE, after)
  BY <1>1, BalanceType, InputAssumption, Zenon
<1>2. ASSUME NEW to \in Address, NEW from \in Address, ReturnAtOnce(TRUE, [w EXCEPT !.code[to] = w.code[from]])
      PROVE  \E after \in World : ReturnAtOnce(TRUE, after)
  <2>1. w.code[from] \in Code
    BY Zenon DEF World
  <2> QED
    BY <1>2, <2>1, CodeType, Zenon
<1>3. ASSUME NEW a \in Address, NEW b \in Address,
             ReturnAtOnce(TRUE, [w EXCEPT !.code[a] = w.code[b], !.code[b] = w.code[a]])
      PROVE  \E after \in World : ReturnAtOnce(TRUE, after)
  BY <1>3, SwapType, Zenon
<1>4. ASSUME NEW a \in Address, NEW v \in Word, ReturnAtOnce(TRUE, [w EXCEPT !.storage[a] = v])
      PROVE  \E after \in World : ReturnAtOnce(TRUE, after)
  BY <1>4, StorageType, Zenon
<1>5. ASSUME NEW a \in Address \ {sender}, NEW n \in 1 .. MaxNonceIncrement,
             ReturnAtOnce(TRUE, [w EXCEPT !.nonce[a] = (@ + n) % NonceLimit])
      PROVE  \E after \in World : ReturnAtOnce(TRUE, after)
  <2>1. w.nonce[a] \in Nonce
    BY Zenon DEF World
  <2>2. (w.nonce[a] + n) % NonceLimit \in Nonce
    <3>1. w.nonce[a] + n \in Int /\ NonceLimit \in Nat \ {0}
      BY <2>1, LimitAssumption DEF Nonce
    <3> QED
      BY <3>1, ModuloType, Zenon DEF Nonce
  <2>3. [w EXCEPT !.nonce[a] = (@ + n) % NonceLimit] \in World
    BY <2>2, Zenon DEF World
  <2> QED
    BY <1>5, <2>3, Zenon
<1> QED
  BY <1>1, <1>2, <1>3, <1>4, <1>5, Zenon DEF runStateContract

-----------------------------------------------------------------------------
(* What executeCall and executeCreate may do. *)

\* A call returns at once or runs code on a new frame whose snapshot is the
\* world it found.  Only a CALL, or a CALLCODE between two accounts, changes
\* the world before its code runs.
LEMMA ExecuteCallCases ==
  ASSUME NEW kind \in CallKinds, NEW p \in CallParams, NEW before \in World,
         executeCall(kind, p, before)
  PROVE  \E w \in World :
           /\ kind # "Call" /\ (kind = "CallCode" => p.sender = p.recipient) => w = before
           /\ \/ \E success \in BOOLEAN : ReturnAtOnce(success, w) /\ (~success => w = before)
              \/ depth <= MaxRecursiveDepth /\ runInterpreter(kind, p, w, before, before)
<1> DEFINE transfers == kind \in {"Call", "CallCode"}
           w == IF transfers THEN transferValue(before, p.value, p.sender, p.recipient) ELSE before
           quiet == kind # "Call" /\ (kind = "CallCode" => p.sender = p.recipient)
<1>1. p.value \in Balance /\ p.sender \in Address /\ p.recipient \in Address
  BY Zenon DEF CallParams
<1>2. w \in World /\ (quiet => w = before)
  BY <1>1, TransferType, Zenon
<1>3. CASE ReturnAtOnce(FALSE, before)
  BY <1>3, Zenon
<1>4. CASE ReturnAtOnce(TRUE, w)
  BY <1>2, <1>4, Zenon
<1>5. CASE kind = "Call" /\ runStateContract(w, p.sender)
  BY <1>1, <1>2, <1>5, StateContractType, Zenon
<1>6. CASE depth <= MaxRecursiveDepth /\ runInterpreter(kind, p, w, before, before)
  BY <1>2, <1>6, Zenon
<1> QED
  BY <1>3, <1>4, <1>5, <1>6, Zenon DEF executeCall, Restored

\* A create returns at once or runs the init code on a new frame whose snapshot
\* is the world it found, with the nonce of the creator counted.
LEMMA ExecuteCreateCases ==
  ASSUME NEW kind \in CreateKinds, NEW p \in CreateParams, NEW before \in World,
         executeCreate(kind, p, before)
  PROVE  \E w \in World :
           \/ /\ ReturnAtOnce(FALSE, w) /\ Holdings(w) = Holdings(before)
           \/ ReturnAtOnce(TRUE, w)
           \/ \E created \in Address :
                LET snapshot == AccessAccount([before EXCEPT !.nonce[p.sender] = @ + 1], created)
                IN  /\ depth <= MaxRecursiveDepth
                    /\ snapshot \in World
                    /\ runInterpreter(kind, [p EXCEPT !.recipient = created], w, before, snapshot)
<1> DEFINE setUp == /\ depth <= MaxRecursiveDepth
                    /\ canTransferValue(before, p.value, p.sender, NoAddress)
                    /\ before.nonce[p.sender] + 1 < NonceLimit
           counted == [before EXCEPT !.nonce[p.sender] = @ + 1]
           created == createAddress(kind, counted, p.sender)
           snapshot == AccessAccount(counted, created)
           w == transferValue(CreateContract(snapshot, created), p.value, p.sender, created)
<1>1. p.value \in Balance /\ p.sender \in Address
  BY Zenon DEF CreateParams
<1>2. CASE ~setUp
  BY <1>2, Zenon DEF executeCreate
<1>3. CASE setUp
  <2>1. before.nonce[p.sender] \in Nonce
    BY <1>1, Zenon DEF World
  <2>2. before.nonce[p.sender] + 1 \in Nonce
    BY <1>3, <2>1, LimitAssumption DEF Nonce
  <2>3. counted \in World /\ counted.nonce[p.sender] - 1 \in Nonce
    <3>1. counted = [before EXCEPT !.nonce[p.sender] = before.nonce[p.sender] + 1]
      BY Zenon
    <3>2. counted.nonce[p.sender] = before.nonce[p.sender] + 1
      BY <1>1, Zenon DEF World
    <3>3. counted.nonce[p.sender] - 1 = before.nonce[p.sender]
      BY <2>1, <3>2 DEF Nonce
    <3> QED
      BY <1>1, <2>1, <2>2, <3>1, <3>3, NonceType, Zenon
  <2>4. created \in Address
    BY <1>1, <2>3, AddressAssumption, Zenon DEF createAddress
  <2>5. snapshot \in World /\ Holdings(snapshot) = Holdings(before)
    BY <2>3, <2>4, AccessType, Zenon DEF AccessAccount, Holdings, World
  <2>6. w \in World
    <3>1. 1 \in Nonce
      BY LimitAssumption DEF Nonce
    <3> QED
      BY <1>1, <2>4, <2>5, <3>1, NonceType, TransferType, Zenon DEF CreateContract
  <2>7. \/ ReturnAtOnce(FALSE, snapshot)
        \/ ReturnAtOnce(TRUE, w)
        \/ runInterpreter(kind, [p EXCEPT !.recipient = created], w, before, snapshot)
    BY <1>3, Zenon DEF executeCreate
  <2> QED
    BY <1>3, <2>4, <2>5, <2>6, <2>7, Zenon
<1> QED
  BY <1>2, <1>3, Zenon

-----------------------------------------------------------------------------
(* The inductive invariant. *)

\* Code runs exactly while there is a frame.
PhaseMatches == phase = "run" <=> frames # <<>>

\* The call that has to reset the static flag is the outermost static one.
ResetByOutermost ==
  \A i \in DOMAIN frames :
    frames[i].staticSet <=> /\ frames[i].kind = "StaticCall"
                            /\ \A j \in 1 .. i - 1 : frames[j].kind # "StaticCall"

\* The world a frame would fall back to.
FallBack(f) ==
  f.snapshot = IF f.kind \in CreateKinds
               THEN AccessAccount([f.before EXCEPT !.nonce[f.sender] = @ + 1], f.recipient)
               ELSE f.before

SnapshotsAreTimely == \A i \in DOMAIN frames : FallBack(frames[i])

\* The current world and every world that may come back look alike to the
\* frames of a static call, and none of these is a create.
StaticWorldsAgree ==
  \A i \in DOMAIN frames : frames[i].static =>
    /\ frames[i].kind \notin CreateKinds
    /\ Visible(world) = Visible(frames[i].before)
    /\ Visible(frames[i].snapshot) = Visible(frames[i].before)

IInv ==
  /\ TypeOK
  /\ PhaseMatches
  /\ BookkeepingIsExact
  /\ ResetByOutermost
  /\ SnapshotsAreTimely
  /\ StaticWorldsAgree

-----------------------------------------------------------------------------
(* Every step does one of four things to the frames. *)

\* A call comes and goes.
AtOnce ==
  \E success \in BOOLEAN, w \in World :
    /\ ReturnAtOnce(success, w)
    /\ ~success => Holdings(w) = Holdings(world)
    /\ static => Visible(w) = Visible(world)

\* A call starts to run code.
Opens ==
  \E f \in Frame, w \in World :
    /\ depth <= MaxRecursiveDepth
    /\ f.static <=> static \/ f.kind = "StaticCall"
    /\ f.staticSet <=> ~static /\ f.kind = "StaticCall"
    /\ FallBack(f)
    /\ f.static => /\ f.kind \notin CreateKinds
                   /\ Visible(w) = Visible(f.before)
                   /\ Visible(f.snapshot) = Visible(f.before)
    /\ static => Visible(f.before) = Visible(world)
    /\ world' = w
    /\ depth' = depth + 1
    /\ static' = (static \/ f.kind = "StaticCall")
    /\ frames' = Append(frames, f)
    /\ phase' = "run"
    /\ UNCHANGED result

\* The running code changes the world, or its refund, or nothing.
Works ==
  \E w \in World, refund \in Int :
    /\ phase = "run"
    /\ Holdings(w) = Holdings(world)
    /\ static => Visible(w) = Visible(world)
    /\ world' = w
    /\ frames' = [frames EXCEPT ![Len(frames)].refund = refund]
    /\ Stays

\* The running code ends.
Closes ==
  \E success \in BOOLEAN, refund \in Int, w \in World :
    /\ Leave
    /\ Return(lower, success, refund, w)
    /\ ~success => w = top.snapshot
    /\ static => Visible(w) = Visible(world)

\* A running frame and its interpreter agree with the run context.
LEMMA TopFacts ==
  ASSUME IInv, phase = "run"
  PROVE  /\ top \in Frame
         /\ Len(frames) \in Nat \ {0}
         /\ Len(frames) \in DOMAIN frames
         /\ top.static = static
         /\ lower \in Seq(Frame)
         /\ Len(lower) = Len(frames) - 1
         /\ \A i \in 1 .. Len(frames) - 1 : lower[i] = frames[i]
<1>1. frames \in Seq(Frame) /\ frames # <<>>
  BY Zenon DEF IInv, TypeOK, PhaseMatches
<1>2. /\ top \in Frame
      /\ Len(frames) \in Nat \ {0}
      /\ Len(frames) \in DOMAIN frames
      /\ DOMAIN frames = 1 .. Len(frames)
      /\ lower \in Seq(Frame)
      /\ Len(lower) = Len(frames) - 1
      /\ \A i \in 1 .. Len(frames) - 1 : lower[i] = frames[i]
  BY <1>1, PopProperties DEF top, lower
<1>3. top.static \in BOOLEAN /\ static \in BOOLEAN
  BY <1>2, Zenon DEF Frame, IInv, TypeOK
<1>4. top.static <=> static
  BY <1>2, Zenon DEF top, IInv, BookkeepingIsExact
<1> QED
  BY <1>2, <1>3, <1>4, Zenon

\* Starting the interpreter opens a frame.
LEMMA RunOpens ==
  ASSUME IInv,
         NEW kind \in CallKinds \cup CreateKinds, NEW p, p.sender \in Address, p.recipient \in Address,
         NEW w \in World, NEW before \in World, NEW snapshot \in World,
         runInterpreter(kind, p, w, before, snapshot),
         depth <= MaxRecursiveDepth,
         snapshot = IF kind \in CreateKinds
                    THEN AccessAccount([before EXCEPT !.nonce[p.sender] = @ + 1], p.recipient)
                    ELSE before,
         static \/ kind = "StaticCall" => w = before /\ kind \in CallKinds,
         static => Visible(before) = Visible(world)
  PROVE  Opens
<1> DEFINE f == [kind |-> kind, sender |-> p.sender, recipient |-> p.recipient,
                 static |-> static \/ kind = "StaticCall",
                 staticSet |-> ~static /\ kind = "StaticCall",
                 snapshot |-> snapshot, before |-> before, refund |-> 0]
<1>1. f \in Frame
  BY DEF Frame
<1>2. f.static => /\ f.kind \notin CreateKinds
                  /\ Visible(w) = Visible(f.before)
                  /\ Visible(f.snapshot) = Visible(f.before)
  BY Zenon DEF CallKinds, CreateKinds
<1>3. FallBack(f)
  BY Zenon DEF FallBack
<1> QED
  BY <1>1, <1>2, <1>3, Zenon DEF Opens, runInterpreter

\* The access list is no part of what a contract can observe.
LEMMA VisibleParts ==
  ASSUME NEW v, NEW w, Visible(w) = Visible(v)
  PROVE  /\ w.balance = v.balance /\ w.nonce = v.nonce /\ w.code = v.code
         /\ w.storage = v.storage /\ w.destructed = v.destructed
         /\ Holdings(w) = Holdings(v)
BY DEF Visible, Holdings

LEMMA AccessedFacts ==
  ASSUME world \in World, NEW to \in Address, NEW w \in accessed(to)
  PROVE  w \in World /\ Visible(w) = Visible(world)
<1> DEFINE v == AccessAccount(world, to)
<1>1. v \in World /\ Visible(v) = Visible(world)
  BY AccessType, Zenon
<1>2. CASE w = v
  BY <1>1, <1>2, Zenon
<1>3. ASSUME NEW a \in Delegates, w = AccessAccount(v, a) PROVE w \in World /\ Visible(w) = Visible(world)
  <2>1. a \in Address
    BY AddressAssumption, Zenon
  <2> HIDE DEF v
  <2> QED
    BY <1>1, <1>3, <2>1, AccessType, Zenon
<1>4. w = v \/ \E a \in Delegates : w = AccessAccount(v, a)
  BY Zenon DEF accessed
<1> QED
  BY <1>2, <1>3, <1>4, Zenon

LEMMA ListIsInvisible ==
  ASSUME NEW w \in World, NEW accounts \in SUBSET Address, NEW list \in SUBSET Precompiled
  PROVE  setUpAccessList(w, accounts, list) \in World
         /\ Visible(setUpAccessList(w, accounts, list)) = Visible(w)
<1> DEFINE listed == accounts \cup Precompiled \cup list
                       \cup (IF revision >= R12_Shanghai THEN {Coinbase} ELSE {})
           v == [w EXCEPT !.warm = listed]
<1>1. setUpAccessList(w, accounts, list) = w \/ setUpAccessList(w, accounts, list) = v
  BY Zenon DEF setUpAccessList
<1>2. listed \in SUBSET Address
  BY AddressAssumption, Zenon
<1> HIDE DEF listed
<1>3. /\ v \in World /\ v.balance = w.balance /\ v.nonce = w.nonce /\ v.code = w.code
      /\ v.storage = w.storage /\ v.logs = w.logs /\ v.destructed = w.destructed
  BY <1>2, Zenon DEF World
<1> HIDE DEF v
<1> QED
  BY <1>1, <1>3, Zenon DEF Visible

\* A create outside of static calls comes and goes or opens a frame.
LEMMA CreateOpens ==
  ASSUME IInv, ~static, NEW kind \in CreateKinds, NEW p \in CreateParams,
         NEW before \in World, Visible(before) = Visible(world),
         executeCreate(kind, p, before)
  PROVE  AtOnce \/ Opens
<1>1. Holdings(before) = Holdings(world)
  BY VisibleParts, Zenon
<1>2. PICK w \in World :
        \/ ReturnAtOnce(FALSE, w) /\ Holdings(w) = Holdings(before)
        \/ ReturnAtOnce(TRUE, w)
        \/ \E created \in Address :
             LET snapshot == AccessAccount([before EXCEPT !.nonce[p.sender] = @ + 1], created)
             IN  /\ depth <= MaxRecursiveDepth
                 /\ snapshot \in World
                 /\ runInterpreter(kind, [p EXCEPT !.recipient = created], w, before, snapshot)
  BY ExecuteCreateCases, Zenon
<1>3. CASE (ReturnAtOnce(FALSE, w) /\ Holdings(w) = Holdings(before)) \/ ReturnAtOnce(TRUE, w)
  BY <1>1, <1>3, Zenon DEF AtOnce
<1>4. ASSUME NEW created \in Address,
             depth <= MaxRecursiveDepth,
             AccessAccount([before EXCEPT !.nonce[p.sender] = @ + 1], created) \in World,
             runInterpreter(kind, [p EXCEPT !.recipient = created], w, before,
                            AccessAccount([before EXCEPT !.nonce[p.sender] = @ + 1], created))
      PROVE  Opens
  <2> DEFINE q == [p EXCEPT !.recipient = created]
             snapshot == AccessAccount([before EXCEPT !.nonce[p.sender] = @ + 1], created)
  <2>1. q.sender = p.sender /\ q.sender \in Address /\ q.recipient = created
    BY Zenon DEF CreateParams
  <2>2. kind \in CallKinds \cup CreateKinds /\ kind # "StaticCall"
    BY Zenon DEF CreateKinds
  <2>3. snapshot = AccessAccount([before EXCEPT !.nonce[q.sender] = @ + 1], q.recipient)
    BY <2>1, Zenon
  <2>4. snapshot \in World /\ runInterpreter(kind, q, w, before, snapshot)
    BY <1>4, Zenon
  <2> HIDE DEF q, snapshot
  <2> QED
    BY <1>4, <2>1, <2>2, <2>3, <2>4, RunOpens, Zenon
<1> QED
  BY <1>2, <1>3, <1>4, Zenon

LEMMA StartCases ==
  ASSUME IInv, Start
  PROVE  AtOnce \/ Opens
<1>1. phase = "start" /\ frames = <<>> /\ world \in World /\ ~static
  <2>1. phase = "start"
    BY Zenon DEF Start, StartCall, StartCreate
  <2>2. frames = <<>>
    BY <2>1, Zenon DEF IInv, PhaseMatches
  <2>3. DOMAIN frames = {}
    BY <2>2
  <2> QED
    BY <2>1, <2>2, <2>3, Zenon DEF IInv, TypeOK, BookkeepingIsExact
<1>2. ASSUME NEW to \in Address, NEW value \in Amount, NEW list \in SUBSET Precompiled,
             StartCall(to, value, list)
      PROVE  AtOnce \/ Opens
  <2> DEFINE listed == setUpAccessList(world, {Sender, to}, list)
             n == (listed.nonce[Sender] + 1) % NonceLimit
             counted == [listed EXCEPT !.nonce[Sender] = n]
             p == [sender |-> Sender, recipient |-> to, codeAddress |-> to, value |-> value]
  <2>1. listed \in World /\ Visible(listed) = Visible(world)
    <3>1. {Sender, to} \in SUBSET Address
      BY AddressAssumption, Zenon
    <3> QED
      BY <1>1, <3>1, ListIsInvisible, Zenon
  <2>2. executeCall("Call", p, counted)
    BY <1>2, Zenon DEF StartCall
  <2> HIDE DEF listed
  <2>3. counted \in World /\ Holdings(counted) = Holdings(world)
    <3>1. listed.nonce[Sender] + 1 \in Int /\ NonceLimit \in Nat \ {0}
      BY <2>1, LimitAssumption, AddressAssumption DEF World, Nonce
    <3>2. n \in Nonce
      BY <3>1, ModuloType, Zenon DEF Nonce
    <3> HIDE DEF n
    <3>3. counted \in World
      BY <2>1, <3>2, AddressAssumption, NonceType, Zenon
    <3>4. Holdings(counted) = Holdings(listed)
      BY <2>1, Zenon DEF Holdings, World
    <3>5. Holdings(listed) = Holdings(world)
      BY <2>1, VisibleParts, Zenon
    <3> QED
      BY <3>3, <3>4, <3>5, Zenon
  <2>4. p \in CallParams
    BY AddressAssumption, InputAssumption, Zenon DEF CallParams
  <2>6. PICK w \in World :
          \/ \E success \in BOOLEAN : ReturnAtOnce(success, w) /\ (~success => w = counted)
          \/ depth <= MaxRecursiveDepth /\ runInterpreter("Call", p, w, counted, counted)
    <3> HIDE DEF counted, p
    <3> QED
      BY <2>2, <2>3, <2>4, ExecuteCallCases, Zenon DEF CallKinds
  <2>7. CASE \E success \in BOOLEAN : ReturnAtOnce(success, w) /\ (~success => w = counted)
    BY <1>1, <2>3, <2>7, Zenon DEF AtOnce
  <2>8. CASE depth <= MaxRecursiveDepth /\ runInterpreter("Call", p, w, counted, counted)
    <3>1. "Call" \in CallKinds \cup CreateKinds /\ "Call" \notin CreateKinds
      BY Zenon DEF CallKinds, CreateKinds
    <3>2. p.sender \in Address /\ p.recipient \in Address
      BY AddressAssumption, Zenon
    <3> HIDE DEF counted, p
    <3> QED
      BY <1>1, <2>3, <2>8, <3>1, <3>2, RunOpens, Zenon
  <2> QED
    BY <2>6, <2>7, <2>8, Zenon
<1>3. ASSUME NEW value \in Amount, NEW initCode \in Code, NEW list \in SUBSET Precompiled,
             StartCreate(value, initCode, list)
      PROVE  AtOnce \/ Opens
  <2> DEFINE p == [sender |-> Sender, recipient |-> NoAddress, value |-> value, initCode |-> initCode]
             listed == setUpAccessList(world, {Sender}, list)
  <2>1. p \in CreateParams
    BY AddressAssumption, InputAssumption, Zenon DEF CreateParams
  <2>2. executeCreate("Create", p, listed)
    BY <1>3, Zenon DEF StartCreate
  <2>3. "Create" \in CreateKinds
    BY Zenon DEF CreateKinds
  <2>4. listed \in World /\ Visible(listed) = Visible(world)
    <3>1. {Sender} \in SUBSET Address
      BY AddressAssumption, Zenon
    <3> QED
      BY <1>1, <3>1, ListIsInvisible, Zenon
  <2> HIDE DEF p, listed
  <2> QED
    BY <1>1, <2>1, <2>2, <2>3, <2>4, CreateOpens, Zenon
<1> QED
  BY <1>2, <1>3, Zenon DEF Start

\* Code in a static call may fall back to its snapshot unnoticed.
LEMMA StaticTop ==
  ASSUME IInv, phase = "run", static
  PROVE  top.kind \notin CreateKinds /\ Visible(top.snapshot) = Visible(world)
<1>1. Len(frames) \in DOMAIN frames /\ top.static
  BY TopFacts, Zenon
<1>2. frames[Len(frames)].static
  BY <1>1, Zenon DEF top
<1> QED
  BY <1>1, <1>2 DEF IInv, StaticWorldsAgree, top

\* A successful run closes its frame, whether or not its code is deployed.
LEMMA SucceedCloses ==
  ASSUME IInv, phase = "run",
         NEW w \in World, NEW refund \in Int, NEW output \in Code, NEW deployable \in BOOLEAN,
         static => Visible(w) = Visible(world),
         Succeed(w, refund, output, deployable)
  PROVE  Closes
<1>1. top \in Frame /\ Len(frames) \in DOMAIN frames /\ top.static = static
  BY TopFacts, Zenon
<1>2. top.recipient \in Address /\ top.snapshot \in World
  BY <1>1, Zenon DEF Frame
<1>3. static => top.kind \notin CreateKinds
  BY StaticTop, Zenon
<1>4. [w EXCEPT !.code[top.recipient] = output] \in World
  BY <1>2, CodeType, Zenon
<1>5. CASE top.kind \notin CreateKinds
  BY <1>5, Zenon DEF Succeed, Closes
<1>6. CASE top.kind \in CreateKinds /\ deployable
  BY <1>4, <1>6, <1>3, Zenon DEF Succeed, Closes
<1>7. CASE top.kind \in CreateKinds /\ ~deployable
  BY <1>2, <1>7, <1>3, Zenon DEF Succeed, Closes, Restored
<1> QED
  BY <1>5, <1>6, <1>7, Zenon

LEMMA InstructionCases ==
  ASSUME IInv, Instruction
  PROVE  AtOnce \/ Opens \/ Works \/ Closes
<1>1. phase = "run"
  BY Zenon DEF Instruction, opSstore, opLog, opSelfdestruct, genericCall, genericCreate, Executes
<1>2. /\ top \in Frame
      /\ Len(frames) \in DOMAIN frames
      /\ top.static = static
      /\ world \in World
      /\ frames \in Seq(Frame)
      /\ revision \in Revision
      /\ original \in [Address -> Word]
  BY <1>1, TopFacts, Zenon DEF IInv, TypeOK
<1>3. top.recipient \in Address /\ top.sender \in Address /\ top.refund \in Int
  BY <1>2, Zenon DEF Frame
<1>4. ASSUME NEW new \in Word, opSstore(new) PROVE Works
  <2> DEFINE earned == getRefundForSstore(revision,
                         GetStorageStatus(original[top.recipient], world.storage[top.recipient], new))
             w == [world EXCEPT !.storage[top.recipient] = new]
  <2>1. w \in World
    BY <1>2, <1>3, StorageType
  <2>2. earned \in Int
    BY DEF getRefundForSstore, ClearRefund, RestoreRefund
  <2>3. frames' = [frames EXCEPT ![Len(frames)].refund = top.refund + earned]
    BY <1>4, Zenon DEF opSstore, top
  <2>4. world' = w /\ Stays /\ ~static /\ Holdings(w) = Holdings(world)
    BY <1>2, <1>4, Zenon DEF opSstore, Holdings, World
  <2>5. top.refund + earned \in Int
    BY <1>3, <2>2
  <2> HIDE DEF earned, w
  <2> QED
    BY <1>1, <2>1, <2>3, <2>4, <2>5, Zenon DEF Works
<1>5. CASE opLog
  <2> DEFINE w == [world EXCEPT !.logs = Append(@, top.recipient)]
  <2>1. w \in World
    <3>1. world.logs \in Seq(Address)
      BY <1>2, Zenon DEF World
    <3>2. Append(world.logs, top.recipient) \in Seq(Address)
      BY <1>3, <3>1
    <3> QED
      BY <1>2, <3>2, Zenon DEF World
  <2>2. frames' = [frames EXCEPT ![Len(frames)].refund = top.refund]
    BY <1>2, <1>5 DEF opLog, top, Frame
  <2>3. world' = w /\ Stays /\ ~static /\ Holdings(w) = Holdings(world)
    BY <1>2, <1>5, Zenon DEF opLog, Holdings, World
  <2> HIDE DEF w
  <2> QED
    BY <1>1, <1>3, <2>1, <2>2, <2>3, Zenon DEF Works
<1>6. ASSUME NEW w \in World, Visible(w) = Visible(world), world' = w, UNCHANGED frames, Stays
      PROVE  Works
  <2>1. frames' = [frames EXCEPT ![Len(frames)].refund = top.refund]
    BY <1>2, <1>6 DEF top, Frame
  <2> QED
    BY <1>1, <1>2, <1>3, <1>6, <2>1, VisibleParts, Zenon DEF Works
<1>7. ASSUME NEW kind \in Kinds \cap CallKinds, NEW to \in Address, NEW value \in Amount,
             genericCall(kind, to, value)
      PROVE  AtOnce \/ Opens \/ Works
  <2> DEFINE p == [sender |-> IF kind = "DelegateCall" THEN top.sender ELSE top.recipient,
                   recipient |-> IF kind \in {"CallCode", "DelegateCall"} THEN top.recipient ELSE to,
                   codeAddress |-> to, value |-> value]
             k == nestedKind(kind)
             quiet == k # "Call" /\ (k = "CallCode" => p.sender = p.recipient)
  <2>1. PICK v \in accessed(to) :
          IF world.balance[top.recipient] < value
          THEN world' = v /\ UNCHANGED frames /\ Stays
          ELSE executeCall(k, p, v)
    BY <1>7, Zenon DEF genericCall
  <2>2. v \in World /\ Visible(v) = Visible(world) /\ Holdings(v) = Holdings(world)
    BY <1>2, AccessedFacts, VisibleParts, Zenon
  <2>3. CASE world' = v /\ UNCHANGED frames /\ Stays
    BY <1>6, <2>2, <2>3, Zenon
  <2>4. CASE executeCall(k, p, v)
    <3>1. p \in CallParams /\ p.sender \in Address /\ p.recipient \in Address
      BY <1>3, InputAssumption, Zenon DEF CallParams
    <3>2. k \in CallKinds /\ k \notin CreateKinds
      BY Zenon DEF nestedKind, CallKinds, CreateKinds
    <3>3. static \/ k = "StaticCall" => quiet
      BY <1>2, Zenon DEF nestedKind
    <3> HIDE DEF p, k
    <3>5. PICK w \in World :
            /\ quiet => w = v
            /\ \/ \E success \in BOOLEAN : ReturnAtOnce(success, w) /\ (~success => w = v)
               \/ depth <= MaxRecursiveDepth /\ runInterpreter(k, p, w, v, v)
      BY <2>2, <2>4, <3>1, <3>2, ExecuteCallCases, Zenon
    <3> HIDE DEF quiet
    <3>6. CASE \E success \in BOOLEAN : ReturnAtOnce(success, w) /\ (~success => w = v)
      BY <2>2, <3>3, <3>5, <3>6, Zenon DEF AtOnce
    <3>7. CASE depth <= MaxRecursiveDepth /\ runInterpreter(k, p, w, v, v)
      BY <2>2, <3>1, <3>2, <3>3, <3>5, <3>7, RunOpens, Zenon
    <3> QED
      BY <3>5, <3>6, <3>7, Zenon
  <2> QED
    BY <2>1, <2>3, <2>4, Zenon
<1>8. ASSUME NEW kind \in Kinds \cap CreateKinds, NEW value \in Amount, NEW initCode \in Code,
             genericCreate(kind, value, initCode)
      PROVE  AtOnce \/ Opens \/ Works
  <2> DEFINE p == [sender |-> top.recipient, recipient |-> NoAddress, value |-> value,
                   initCode |-> initCode]
  <2>1. p \in CreateParams /\ ~static
    BY <1>2, <1>3, <1>8, AddressAssumption, InputAssumption, Zenon DEF CreateParams, genericCreate
  <2>2. (UNCHANGED <<world, frames>> /\ Stays) \/ executeCreate(kind, p, world)
    BY <1>8, Zenon DEF genericCreate
  <2> HIDE DEF p
  <2> QED
    BY <1>2, <1>6, <2>1, <2>2, CreateOpens, Zenon
<1>9. ASSUME NEW beneficiary \in Address, opSelfdestruct(beneficiary) PROVE Closes
  <2> DEFINE a == top.recipient
             paid == paidOut(a, beneficiary)
             refund == top.refund + selfDestructRefund(a \notin world.destructed, revision)
             v == AccessAccount(world, beneficiary)
             w == [v EXCEPT !.balance = paid, !.destructed = @ \cup {a}]
  <2>1. paid \in [Address -> Balance]
    <3>1. world.balance \in [Address -> Balance]
      BY <1>2, Zenon DEF World
    <3>2. 0 \in Balance
      BY LimitAssumption DEF Balance
    <3>3. [world.balance EXCEPT ![a] = 0] \in [Address -> Balance]
      BY <1>3, <3>1, <3>2, Zenon
    <3>4. \A b \in Balance, c \in Balance : (b + c) % ValueLimit \in Balance
      BY ModuloType, LimitAssumption DEF Balance
    <3> QED
      BY <1>3, <3>1, <3>3, <3>4, Zenon DEF paidOut
  <2>2. w \in World
    <3>1. v \in World
      BY <1>2, AccessType, Zenon
    <3> HIDE DEF paid, v
    <3> QED
      BY <1>3, <2>1, <3>1, Zenon DEF World
  <2>3. refund \in Int
    BY <1>3 DEF selfDestructRefund
  <2>4. Succeed(w, refund, NoCode, TRUE) /\ ~static
    BY <1>2, <1>9, Zenon DEF opSelfdestruct
  <2> HIDE DEF w, refund
  <2>5. NoCode \in Code
    BY Zenon DEF Code
  <2> QED
    BY <1>1, <2>2, <2>3, <2>4, <2>5, SucceedCloses, Zenon
<1> QED
  BY <1>4, <1>5, <1>7, <1>8, <1>9, Zenon DEF Instruction

LEMMA EndCases ==
  ASSUME IInv,
         Fail \/ \E output \in Code, deployable \in DeployResults : Stop(output, deployable)
  PROVE  Closes
<1>1. phase = "run"
  BY Zenon DEF Fail, Stop, Succeed, Leave
<1>2. /\ top \in Frame
      /\ Len(frames) \in DOMAIN frames
      /\ top.static = static
      /\ world \in World
  BY <1>1, TopFacts, Zenon DEF IInv, TypeOK
<1>3. top.refund \in Int /\ top.snapshot \in World
  BY <1>2, Zenon DEF Frame
<1>4. static => Visible(top.snapshot) = Visible(world)
  BY <1>1, StaticTop, Zenon
<1>5. CASE Fail
  <2>1. Leave /\ Return(lower, FALSE, 0, top.snapshot)
    BY <1>5, Zenon DEF Fail, Restored
  <2>2. 0 \in Int
    OBVIOUS
  <2> QED
    BY <1>3, <1>4, <2>1, <2>2, Zenon DEF Closes
<1>6. ASSUME NEW output \in Code, NEW deployable \in DeployResults, Stop(output, deployable)
      PROVE  Closes
  <2>1. Succeed(world, top.refund, output, deployable) /\ deployable \in BOOLEAN
    BY <1>6, InputAssumption, Zenon DEF Stop
  <2> QED
    BY <1>1, <1>2, <1>3, <1>4, <2>1, SucceedCloses, Zenon
<1> QED
  BY <1>5, <1>6, Zenon

\* The cases of Next.
LEMMA StepCases ==
  ASSUME IInv, Next
  PROVE  /\ AtOnce \/ Opens \/ Works \/ Closes
         /\ UNCHANGED <<revision, original>>
         /\ ops' \in 0 .. MaxOps
         /\ phase # "done"
<1>1. CASE Start
  <2>1. UNCHANGED <<revision, original, ops>> /\ phase = "start"
    BY <1>1, Zenon DEF Start, StartCall, StartCreate
  <2> QED
    BY <1>1, <2>1, StartCases, Zenon DEF IInv, TypeOK
<1>2. CASE Instruction
  <2>1. Executes
    BY <1>2, Zenon DEF Instruction, opSstore, opLog, opSelfdestruct, genericCall, genericCreate
  <2>2. ops' \in 0 .. MaxOps
    BY <2>1, LimitAssumption DEF Executes, IInv, TypeOK
  <2> QED
    BY <1>2, <2>1, <2>2, InstructionCases, Zenon DEF Executes
<1>3. CASE Fail \/ \E output \in Code, deployable \in DeployResults : Stop(output, deployable)
  <2>1. UNCHANGED <<revision, original, ops>> /\ phase = "run"
    BY <1>3, Zenon DEF Fail, Stop, Succeed, Leave
  <2> QED
    BY <1>3, <2>1, EndCases, Zenon DEF IInv, TypeOK
<1> QED
  BY <1>1, <1>2, <1>3, Zenon DEF Next

-----------------------------------------------------------------------------
(* The open frames fs, a depth d, a static flag s and a world w that fit      *)
(* together, and the three ways a step changes them.                          *)

Fits(fs, d, s, w) ==
  /\ d = Len(fs)
  /\ d <= MaxRecursiveDepth + 1
  /\ s <=> \E i \in DOMAIN fs : fs[i].kind = "StaticCall"
  /\ \A i \in DOMAIN fs : fs[i].static <=> \E j \in 1 .. i : fs[j].kind = "StaticCall"
  /\ \A i \in DOMAIN fs :
       fs[i].staticSet <=> /\ fs[i].kind = "StaticCall"
                           /\ \A j \in 1 .. i - 1 : fs[j].kind # "StaticCall"
  /\ \A i \in DOMAIN fs : fs[i].static =>
       /\ fs[i].kind \notin CreateKinds
       /\ Visible(w) = Visible(fs[i].before)
       /\ Visible(fs[i].snapshot) = Visible(fs[i].before)
  /\ \A i \in DOMAIN fs : FallBack(fs[i])

\* The invariant in these terms.
LEMMA InvariantFits ==
  IInv <=> TypeOK /\ PhaseMatches /\ Fits(frames, depth, static, world)
BY Zenon DEF IInv, BookkeepingIsExact, ResetByOutermost, SnapshotsAreTimely, StaticWorldsAgree, Fits

\* The frames as they are, or the top one with another refund.
LEMMA FitsRefund ==
  ASSUME NEW fs \in Seq(Frame), fs # <<>>, NEW d, NEW s, NEW w, NEW refund \in Int,
         Fits(fs, d, s, w), NEW gs, gs = [fs EXCEPT ![Len(fs)].refund = refund]
  PROVE  gs \in Seq(Frame) /\ gs # <<>> /\ Fits(gs, d, s, w)
<1>1. Len(fs) \in DOMAIN fs /\ DOMAIN fs = 1 .. Len(fs) /\ fs[Len(fs)] \in Frame
  OBVIOUS
<1>2. [fs[Len(fs)] EXCEPT !.refund = refund] \in Frame
  BY <1>1, Zenon DEF Frame
<1>3. gs \in Seq(Frame) /\ Len(gs) = Len(fs) /\ DOMAIN gs = DOMAIN fs
  BY <1>1, <1>2
<1>4. ASSUME NEW i \in DOMAIN fs
      PROVE  /\ gs[i].kind = fs[i].kind
             /\ gs[i].static = fs[i].static
             /\ gs[i].staticSet = fs[i].staticSet
             /\ gs[i].before = fs[i].before
             /\ gs[i].snapshot = fs[i].snapshot
             /\ gs[i].sender = fs[i].sender
             /\ gs[i].recipient = fs[i].recipient
  <2>1. CASE i = Len(fs)
    BY <1>1, <2>1, Zenon DEF Frame
  <2>2. CASE i # Len(fs)
    BY <2>2, Zenon
  <2> QED
    BY <2>1, <2>2, Zenon
<1>5. ASSUME NEW i \in DOMAIN fs PROVE FallBack(gs[i])
  <2>1. FallBack(fs[i])
    BY Zenon DEF Fits
  <2> QED
    BY <1>4, <2>1, Zenon DEF FallBack
<1>6. \A i \in DOMAIN fs : \A j \in 1 .. i : j \in DOMAIN fs
  BY <1>1
<1>7. Fits(gs, d, s, w)
  <2>1. s <=> \E i \in DOMAIN gs : gs[i].kind = "StaticCall"
    BY <1>3, <1>4 DEF Fits
  <2>2. ASSUME NEW i \in DOMAIN gs
        PROVE  gs[i].static <=> \E j \in 1 .. i : gs[j].kind = "StaticCall"
    <3>1. gs[i].static = fs[i].static /\ \A j \in 1 .. i : gs[j].kind = fs[j].kind
      BY <1>3, <1>4, <1>6, Zenon
    <3>2. fs[i].static <=> \E j \in 1 .. i : fs[j].kind = "StaticCall"
      BY <1>3, Zenon DEF Fits
    <3> QED
      BY <3>1, <3>2, Zenon
  <2>3. ASSUME NEW i \in DOMAIN gs
        PROVE  gs[i].staticSet <=> /\ gs[i].kind = "StaticCall"
                                   /\ \A j \in 1 .. i - 1 : gs[j].kind # "StaticCall"
    <3>1. \A j \in 1 .. i - 1 : j \in DOMAIN fs
      BY <1>1, <1>3
    <3>2. /\ gs[i].staticSet = fs[i].staticSet
          /\ gs[i].kind = fs[i].kind
          /\ \A j \in 1 .. i - 1 : gs[j].kind = fs[j].kind
      BY <1>3, <1>4, <3>1, Zenon
    <3>3. fs[i].staticSet <=> /\ fs[i].kind = "StaticCall"
                              /\ \A j \in 1 .. i - 1 : fs[j].kind # "StaticCall"
      BY <1>3, Zenon DEF Fits
    <3> QED
      BY <3>2, <3>3, Zenon
  <2>4. ASSUME NEW i \in DOMAIN gs, gs[i].static
        PROVE  /\ gs[i].kind \notin CreateKinds
               /\ Visible(w) = Visible(gs[i].before)
               /\ Visible(gs[i].snapshot) = Visible(gs[i].before)
    BY <1>3, <1>4, <2>4 DEF Fits
  <2> QED
    BY <1>3, <1>5, <2>1, <2>2, <2>3, <2>4, Zenon DEF Fits
<1> QED
  BY <1>3, <1>7

\* Another world, alike where a static call is open.
LEMMA FitsWorld ==
  ASSUME NEW fs \in Seq(Frame), NEW d, NEW s, NEW v, NEW w,
         Fits(fs, d, s, v), s => Visible(w) = Visible(v)
  PROVE  Fits(fs, d, s, w)
<1>1. DOMAIN fs = 1 .. Len(fs)
  OBVIOUS
<1>2. ASSUME NEW i \in DOMAIN fs, fs[i].static PROVE s
  <2>1. PICK j \in 1 .. i : fs[j].kind = "StaticCall"
    BY <1>2, Zenon DEF Fits
  <2>2. j \in DOMAIN fs
    BY <1>1
  <2> QED
    BY <2>1, <2>2, Zenon DEF Fits
<1>3. ASSUME NEW i \in DOMAIN fs, fs[i].static
      PROVE  /\ fs[i].kind \notin CreateKinds
             /\ Visible(w) = Visible(fs[i].before)
             /\ Visible(fs[i].snapshot) = Visible(fs[i].before)
  BY <1>2, <1>3, Zenon DEF Fits
<1> QED
  BY <1>3, Zenon DEF Fits

LEMMA FitsPush ==
  ASSUME NEW fs \in Seq(Frame), NEW d, NEW s \in BOOLEAN, NEW v, NEW w, NEW f \in Frame,
         Fits(fs, d, s, v),
         d <= MaxRecursiveDepth,
         f.static <=> s \/ f.kind = "StaticCall",
         f.staticSet <=> ~s /\ f.kind = "StaticCall",
         FallBack(f),
         f.static => /\ f.kind \notin CreateKinds
                     /\ Visible(w) = Visible(f.before)
                     /\ Visible(f.snapshot) = Visible(f.before),
         s => Visible(f.before) = Visible(v)
  PROVE  Fits(Append(fs, f), d + 1, s \/ f.kind = "StaticCall", w)
<1> DEFINE gs == Append(fs, f)
           n == Len(fs)
<1>1. /\ n \in Nat
      /\ DOMAIN fs = 1 .. n
      /\ Len(gs) = n + 1
      /\ DOMAIN gs = 1 .. n + 1
      /\ gs[n + 1] = f
      /\ \A i \in 1 .. n : gs[i] = fs[i]
  BY PushProperties
<1>2. d = n /\ d + 1 <= MaxRecursiveDepth + 1
  BY <1>1, LimitAssumption DEF Fits
<1> HIDE DEF gs, n
<1>3. s <=> \E i \in 1 .. n : gs[i].kind = "StaticCall"
  BY <1>1, Zenon DEF Fits
<1>4. (s \/ f.kind = "StaticCall") <=> \E i \in DOMAIN gs : gs[i].kind = "StaticCall"
  <2>1. \A i : i \in 1 .. n + 1 <=> i \in 1 .. n \/ i = n + 1
    BY <1>1
  <2> QED
    BY <1>1, <1>3, <2>1, Zenon
<1>5. ASSUME NEW i \in DOMAIN gs
      PROVE  /\ gs[i].static <=> \E j \in 1 .. i : gs[j].kind = "StaticCall"
             /\ gs[i].staticSet <=> /\ gs[i].kind = "StaticCall"
                                    /\ \A j \in 1 .. i - 1 : gs[j].kind # "StaticCall"
             /\ FallBack(gs[i])
             /\ gs[i].static => /\ gs[i].kind \notin CreateKinds
                                /\ Visible(w) = Visible(gs[i].before)
                                /\ Visible(gs[i].snapshot) = Visible(gs[i].before)
  <2>1. CASE i = n + 1
    <3>1. gs[i] = f /\ 1 .. i - 1 = 1 .. n /\ 1 .. i = DOMAIN gs
      BY <1>1, <2>1
    <3> QED
      BY <1>3, <1>4, <3>1, Zenon
  <2>2. CASE i # n + 1
    <3>1. i \in 1 .. n /\ i \in DOMAIN fs
      BY <1>1, <2>2
    <3>2. gs[i] = fs[i] /\ (\A j \in 1 .. i : gs[j] = fs[j]) /\ (\A j \in 1 .. i - 1 : gs[j] = fs[j])
      BY <1>1, <3>1
    <3>3. gs[i].static <=> \E j \in 1 .. i : gs[j].kind = "StaticCall"
      BY <3>1, <3>2, Zenon DEF Fits
    <3>4. gs[i].staticSet <=> /\ gs[i].kind = "StaticCall"
                              /\ \A j \in 1 .. i - 1 : gs[j].kind # "StaticCall"
      BY <3>1, <3>2, Zenon DEF Fits
    <3>5. FallBack(gs[i])
      BY <3>1, <3>2, Zenon DEF Fits
    <3>6. ASSUME gs[i].static
          PROVE  /\ gs[i].kind \notin CreateKinds
                 /\ Visible(w) = Visible(gs[i].before)
                 /\ Visible(gs[i].snapshot) = Visible(gs[i].before)
      <4>1. s
        <5>1. PICK j \in 1 .. i : gs[j].kind = "StaticCall"
          BY <3>3, <3>6, Zenon
        <5>2. j \in 1 .. n
          BY <1>1, <3>1
        <5> QED
          BY <1>3, <5>1, <5>2, Zenon
      <4>2. Visible(w) = Visible(v)
        BY <4>1, Zenon
      <4>3. /\ fs[i].kind \notin CreateKinds
            /\ Visible(v) = Visible(fs[i].before)
            /\ Visible(fs[i].snapshot) = Visible(fs[i].before)
        BY <3>1, <3>2, <3>6, Zenon DEF Fits
      <4> QED
        BY <3>2, <4>2, <4>3, Zenon
    <3> QED
      BY <3>3, <3>4, <3>5, <3>6, Zenon
  <2> QED
    BY <2>1, <2>2, Zenon
<1>6. Fits(gs, d + 1, s \/ f.kind = "StaticCall", w)
  BY <1>1, <1>2, <1>4, <1>5, Zenon DEF Fits
<1> QED
  BY <1>6, Zenon DEF gs

LEMMA FitsPop ==
  ASSUME NEW fs \in Seq(Frame), fs # <<>>, NEW d, NEW s \in BOOLEAN, NEW w, Fits(fs, d, s, w)
  PROVE  Fits(SubSeq(fs, 1, Len(fs) - 1), d - 1, s /\ ~fs[Len(fs)].staticSet, w)
<1> DEFINE gs == SubSeq(fs, 1, Len(fs) - 1)
           n == Len(fs)
<1>1. /\ n \in Nat \ {0}
      /\ DOMAIN fs = 1 .. n
      /\ Len(gs) = n - 1
      /\ DOMAIN gs = 1 .. n - 1
      /\ \A i \in 1 .. n - 1 : gs[i] = fs[i]
  BY PopProperties
<1>2. d - 1 = Len(gs) /\ d - 1 <= MaxRecursiveDepth + 1
  BY <1>1, LimitAssumption DEF Fits
<1> HIDE DEF gs
<1>3. (s /\ ~fs[n].staticSet) <=> \E i \in DOMAIN gs : gs[i].kind = "StaticCall"
  <2>1. n \in DOMAIN fs /\ \A i : i \in 1 .. n <=> i \in 1 .. n - 1 \/ i = n
    BY <1>1
  <2>2. fs[n].staticSet <=> /\ fs[n].kind = "StaticCall"
                            /\ \A j \in 1 .. n - 1 : fs[j].kind # "StaticCall"
    BY <2>1, Zenon DEF Fits
  <2>3. s <=> \E i \in 1 .. n : fs[i].kind = "StaticCall"
    BY <1>1, Zenon DEF Fits
  <2> HIDE DEF n
  <2> QED
    BY <1>1, <2>1, <2>2, <2>3, Zenon
<1>4. ASSUME NEW i \in DOMAIN gs
      PROVE  /\ gs[i].static <=> \E j \in 1 .. i : gs[j].kind = "StaticCall"
             /\ gs[i].staticSet <=> /\ gs[i].kind = "StaticCall"
                                    /\ \A j \in 1 .. i - 1 : gs[j].kind # "StaticCall"
             /\ FallBack(gs[i])
             /\ gs[i].static => /\ gs[i].kind \notin CreateKinds
                                /\ Visible(w) = Visible(gs[i].before)
                                /\ Visible(gs[i].snapshot) = Visible(gs[i].before)
  <2>1. i \in DOMAIN fs /\ gs[i] = fs[i]
    BY <1>1
  <2>2. (\A j \in 1 .. i : gs[j] = fs[j]) /\ (\A j \in 1 .. i - 1 : gs[j] = fs[j])
    BY <1>1
  <2> QED
    BY <2>1, <2>2, Zenon DEF Fits
<1>5. Fits(gs, d - 1, s /\ ~fs[n].staticSet, w)
  BY <1>2, <1>3, <1>4, Zenon DEF Fits
<1> QED
  BY <1>5, Zenon DEF gs

-----------------------------------------------------------------------------
(* The invariant is inductive. *)

\* Handing a result to the innermost frame of fs keeps a fitting stack fitting.
LEMMA ReturnFits ==
  ASSUME TypeOK, NEW fs \in Seq(Frame), NEW d \in Nat, NEW s \in BOOLEAN, NEW w \in World,
         NEW success \in BOOLEAN, NEW refund \in Int,
         Fits(fs, d, s, w),
         Return(fs, success, refund, w), depth' = d, static' = s,
         UNCHANGED <<revision, original>>, ops' \in 0 .. MaxOps
  PROVE  IInv'
<1>1. world' = w /\ result' \in Result
  BY Zenon DEF Return, Result
<1>2. frames' \in Seq(Frame) /\ Fits(frames', d, s, w) /\ (phase' = "run" <=> frames' # <<>>)
      /\ phase' \in {"start", "run", "done"}
  <2>1. CASE fs = <<>>
    BY <2>1, Zenon DEF Return
  <2>2. CASE fs # <<>>
    <3>1. fs[Len(fs)] \in Frame /\ Len(fs) \in DOMAIN fs
      BY <2>2
    <3> DEFINE sum == fs[Len(fs)].refund + refund
    <3>2. sum \in Int
      BY <3>1 DEF Frame
    <3>3. frames' = [fs EXCEPT ![Len(fs)].refund = sum]
      BY <2>2, <3>1, Zenon DEF Return
    <3> HIDE DEF sum
    <3>4. frames' \in Seq(Frame) /\ frames' # <<>> /\ Fits(frames', d, s, w)
      BY <2>2, <3>2, <3>3, FitsRefund, Zenon
    <3> QED
      BY <2>2, <3>4, Zenon DEF Return
  <2> QED
    BY <2>1, <2>2, Zenon
<1>3. TypeOK'
  BY <1>1, <1>2, Zenon DEF TypeOK
<1>4. PhaseMatches'
  BY <1>2, Zenon DEF PhaseMatches
<1>5. Fits(frames, depth, static, world)'
  BY <1>1, <1>2, Zenon DEF Fits, FallBack, AccessAccount, Visible
<1> QED
  BY <1>3, <1>4, <1>5, Zenon DEF IInv, BookkeepingIsExact, ResetByOutermost, SnapshotsAreTimely,
                          StaticWorldsAgree, Fits

\* Frames that fit after a step that keeps the revision.
LEMMA FitsNext ==
  ASSUME TypeOK', PhaseMatches', revision' = revision,
         Fits(frames', depth', static', world')
  PROVE  IInv'
<1>1. \A f : FallBack(f) <=> FallBack(f)'
  BY Zenon DEF FallBack, AccessAccount
<1>2. Fits(frames, depth, static, world)'
  BY <1>1, Zenon DEF Fits
<1> QED
  BY <1>2, Zenon DEF IInv, BookkeepingIsExact, ResetByOutermost, SnapshotsAreTimely, StaticWorldsAgree, Fits

LEMMA Invariance ==
  ASSUME IInv, [Next]_vars
  PROVE  IInv'
<1>1. CASE UNCHANGED vars
  <2>1. TypeOK' /\ PhaseMatches' /\ revision' = revision
    BY <1>1, Zenon DEF vars, IInv, TypeOK, PhaseMatches
  <2>2. Fits(frames', depth', static', world')
    BY <1>1, InvariantFits, Zenon DEF vars
  <2> QED
    BY <2>1, <2>2, FitsNext, Zenon
<1>2. CASE Next
  <2>1. /\ AtOnce \/ Opens \/ Works \/ Closes
        /\ UNCHANGED <<revision, original>>
        /\ ops' \in 0 .. MaxOps
    BY <1>2, StepCases, Zenon
  <2>2. /\ TypeOK /\ frames \in Seq(Frame) /\ depth \in Nat /\ static \in BOOLEAN
        /\ Fits(frames, depth, static, world)
        /\ phase = "run" <=> frames # <<>>
    BY InvariantFits, Zenon DEF TypeOK, PhaseMatches
  <2>3. CASE AtOnce
    <3>1. PICK success \in BOOLEAN, w \in World :
            ReturnAtOnce(success, w) /\ (static => Visible(w) = Visible(world))
      BY <2>3, Zenon DEF AtOnce
    <3>2. Fits(frames, depth, static, w)
      BY <2>2, <3>1, FitsWorld, Zenon
    <3>3. Return(frames, success, 0, w) /\ depth' = depth /\ static' = static
      BY <3>1, Zenon DEF ReturnAtOnce
    <3> QED
      BY <2>1, <2>2, <3>2, <3>3, ReturnFits
  <2>4. CASE Closes
    <3>1. PICK success \in BOOLEAN, refund \in Int, w \in World :
            /\ Leave
            /\ Return(lower, success, refund, w)
            /\ static => Visible(w) = Visible(world)
      BY <2>4, Zenon DEF Closes
    <3> DEFINE s == static /\ ~top.staticSet
    <3>2. Fits(frames, depth, static, w)
      BY <2>2, <3>1, FitsWorld, Zenon
    <3>3. frames # <<>> /\ depth' = depth - 1 /\ static' = s
      BY <2>2, <3>1, Zenon DEF Leave
    <3>4. Fits(lower, depth - 1, s, w)
      BY <2>2, <3>2, <3>3, FitsPop, Zenon DEF lower, top
    <3>5. lower \in Seq(Frame) /\ depth - 1 \in Nat /\ s \in BOOLEAN
      BY <2>2, <3>3, PopProperties DEF lower, Fits
    <3> HIDE DEF s
    <3> QED
      BY <2>1, <2>2, <3>1, <3>3, <3>4, <3>5, ReturnFits, Zenon
  <2>5. CASE Works
    <3>1. PICK w \in World, refund \in Int :
            /\ phase = "run"
            /\ static => Visible(w) = Visible(world)
            /\ world' = w
            /\ frames' = [frames EXCEPT ![Len(frames)].refund = refund]
            /\ Stays
      BY <2>5, Zenon DEF Works
    <3>2. Fits(frames, depth, static, w)
      BY <2>2, <3>1, FitsWorld, Zenon
    <3>3. frames' \in Seq(Frame) /\ frames' # <<>> /\ Fits(frames', depth, static, w)
      BY <2>2, <3>1, <3>2, FitsRefund, Zenon
    <3>4. TypeOK'
      BY <2>1, <2>2, <3>1, <3>3, Zenon DEF TypeOK, Stays
    <3>5. PhaseMatches'
      BY <3>1, <3>3, Zenon DEF PhaseMatches, Stays
    <3> QED
      BY <2>1, <3>1, <3>3, <3>4, <3>5, FitsNext, Zenon DEF Stays
  <2>6. CASE Opens
    <3>1. PICK f \in Frame, w \in World :
            /\ depth <= MaxRecursiveDepth
            /\ f.static <=> static \/ f.kind = "StaticCall"
            /\ f.staticSet <=> ~static /\ f.kind = "StaticCall"
            /\ FallBack(f)
            /\ f.static => /\ f.kind \notin CreateKinds
                           /\ Visible(w) = Visible(f.before)
                           /\ Visible(f.snapshot) = Visible(f.before)
            /\ static => Visible(f.before) = Visible(world)
            /\ world' = w
            /\ depth' = depth + 1
            /\ static' = (static \/ f.kind = "StaticCall")
            /\ frames' = Append(frames, f)
            /\ phase' = "run"
            /\ UNCHANGED result
      BY <2>6, Zenon DEF Opens
    <3>2. Fits(Append(frames, f), depth + 1, static \/ f.kind = "StaticCall", w)
      BY <2>2, <3>1, FitsPush, Zenon
    <3>3. frames' \in Seq(Frame) /\ frames' # <<>>
      BY <2>2, <3>1, PushProperties
    <3>4. Fits(frames', depth', static', world')
      BY <3>1, <3>2, Zenon
    <3>5. TypeOK'
      BY <2>1, <2>2, <3>1, <3>3 DEF TypeOK
    <3>6. PhaseMatches'
      BY <3>1, <3>3, Zenon DEF PhaseMatches
    <3> QED
      BY <2>1, <3>4, <3>5, <3>6, FitsNext, Zenon
  <2> QED
    BY <2>1, <2>3, <2>4, <2>5, <2>6, Zenon
<1> QED
  BY <1>1, <1>2, Zenon

LEMMA InitiallyInvariant ==
  ASSUME Init
  PROVE  IInv
<1>1. frames = <<>> /\ DOMAIN frames = {} /\ Len(frames) = 0
  BY DEF Init
<1>2. TypeOK
  <2>1. world \in World /\ revision \in Revision
    BY InputAssumption, WorldAssumption, Zenon DEF Init
  <2>2. original \in [Address -> Word]
    BY <2>1, Zenon DEF Init, World
  <2>3. result \in Result /\ ops \in 0 .. MaxOps /\ depth \in Nat
    BY LimitAssumption DEF Init, Result
  <2>4. frames \in Seq(Frame)
    BY <1>1
  <2> QED
    BY <2>1, <2>2, <2>3, <2>4, Zenon DEF Init, TypeOK
<1> QED
  BY <1>1, <1>2, LimitAssumption DEF Init, IInv, PhaseMatches, BookkeepingIsExact, ResetByOutermost,
                                     SnapshotsAreTimely, StaticWorldsAgree

LEMMA AlwaysInvariant == Spec => []IInv
BY InitiallyInvariant, Invariance, PTL DEF Spec

-----------------------------------------------------------------------------
(* What follows from it. *)

\* Whatever the contracts do, runContext and the world keep their types.
THEOREM TypeCorrect == Spec => []TypeOK
<1>1. IInv => TypeOK
  BY Zenon DEF IInv
<1> QED
  BY <1>1, AlwaysInvariant, PTL

\* depth and static of runContext always describe the calls that are open, for
\* every depth limit and every nesting of calls.
THEOREM BookkeepingAlwaysExact == Spec => []BookkeepingIsExact
<1>1. IInv => BookkeepingIsExact
  BY Zenon DEF IInv
<1> QED
  BY <1>1, AlwaysInvariant, PTL

\* No contract reached through a static call changes what can be observed.
THEOREM StaticCallsAreProtected == Spec => []StaticCallsChangeNothing
<1>1. IInv => StaticCallsChangeNothing
  BY Zenon DEF IInv, StaticWorldsAgree, StaticCallsChangeNothing
<1> QED
  BY <1>1, AlwaysInvariant, PTL

\* A failed call or create is undone, however deep it failed.
THEOREM FailedCallsAreUndone == Spec => FailureUndoes
<1> DEFINE Undoes ==
             ~result'.success =>
               /\ Len(frames') < Len(frames) =>
                    world' = IF top.kind \in CreateKinds
                             THEN AccessAccount([top.before EXCEPT !.nonce[top.sender] = @ + 1],
                                                top.recipient)
                             ELSE top.before
               /\ Len(frames') = Len(frames) => Holdings(world') = Holdings(world)
<1>1. ASSUME IInv, Next PROVE Undoes
  <2> SUFFICES ASSUME ~result'.success PROVE Undoes
    BY Zenon
  <2>1. AtOnce \/ Opens \/ Works \/ Closes
    BY <1>1, StepCases, Zenon
  <2>2. frames \in Seq(Frame) /\ Len(frames) \in Nat
    BY <1>1 DEF IInv, TypeOK
  <2>3. CASE AtOnce
    <3>1. PICK success \in BOOLEAN, w \in World :
            ReturnAtOnce(success, w) /\ (~success => Holdings(w) = Holdings(world))
      BY <2>3, Zenon DEF AtOnce
    <3>2. result'.success = success /\ world' = w
      BY <3>1, Zenon DEF ReturnAtOnce, Return
    <3>3. Len(frames') = Len(frames)
      BY <2>2, <3>1 DEF ReturnAtOnce, Return
    <3>4. ~(Len(frames') < Len(frames))
      BY <2>2, <3>3
    <3> QED
      BY <3>1, <3>2, <3>4, Zenon
  <2>4. CASE Opens
    <3>1. PICK f \in Frame : frames' = Append(frames, f)
      BY <2>4, Zenon DEF Opens
    <3>2. Len(frames') = Len(frames) + 1
      BY <2>2, <3>1, PushProperties, Zenon
    <3>3. ~(Len(frames') < Len(frames)) /\ Len(frames') # Len(frames)
      BY <2>2, <3>2
    <3> QED
      BY <3>3, Zenon
  <2>5. CASE Works
    <3>1. Len(frames') = Len(frames) /\ Holdings(world') = Holdings(world)
      BY <2>2, <2>5 DEF Works
    <3>2. ~(Len(frames') < Len(frames))
      BY <2>2, <3>1
    <3> QED
      BY <3>1, <3>2, Zenon
  <2>6. CASE Closes
    <3>1. PICK success \in BOOLEAN, refund \in Int, w \in World :
            Leave /\ Return(lower, success, refund, w) /\ (~success => w = top.snapshot)
      BY <2>6, Zenon DEF Closes
    <3>2. phase = "run" /\ world' = top.snapshot
      BY <3>1, Zenon DEF Return, Leave
    <3>3. /\ Len(frames) \in Nat \ {0} /\ Len(frames) \in DOMAIN frames
          /\ lower \in Seq(Frame) /\ Len(lower) = Len(frames) - 1
      BY <1>1, <3>2, TopFacts, Zenon
    <3>4. Len(frames') = Len(lower)
      BY <3>1, <3>3 DEF Return
    <3>5. Len(frames') # Len(frames)
      BY <3>3, <3>4
    <3>6. FallBack(top)
      BY <1>1, <3>3, Zenon DEF IInv, SnapshotsAreTimely, top
    <3> QED
      BY <3>2, <3>5, <3>6, Zenon DEF FallBack
  <2> QED
    BY <2>1, <2>3, <2>4, <2>5, <2>6, Zenon
<1>3. IInv /\ [Next]_vars => [Undoes]_vars
  BY <1>1, Zenon
<1>4. Spec => [][Undoes]_vars
  BY <1>3, AlwaysInvariant, PTL DEF Spec
<1> QED
  BY <1>4, Zenon DEF FailureUndoes

-----------------------------------------------------------------------------
(* What a call does to value, storage and nonces before any code runs. *)

\* The driver account is not the one whose code runs, or who sends the
\* transaction: the state contract refuses everybody else.
DriverIdle ==
  /\ phase = "start" => Sender # Driver
  /\ phase = "run" => top.recipient # Driver

Conserves(v, w) ==
  /\ w.storage = v.storage
  /\ w.destructed = v.destructed
  /\ Supply(v) < ValueLimit => Supply(w) = Supply(v)

Ages(v, w) == \A a \in Address : w.nonce[a] >= v.nonce[a]

Counted(k) == {(k + n) % NonceLimit : n \in 1 .. MaxNonceIncrement}

Counts(v, w) == \A a \in Address : w.nonce[a] \in {v.nonce[a]} \cup Counted(v.nonce[a])

LEMMA NonceFacts ==
  ASSUME NEW w \in World
  PROVE  \A a \in Address : /\ w.nonce[a] \in Nat /\ w.nonce[a] < NonceLimit
                            /\ w.nonce[a] >= w.nonce[a]
BY LimitAssumption DEF World, Nonce

LEMMA AddressListed == Listed(Address)
BY AddressAssumption, FiniteIsListed, Zenon

LEMMA SupplyFacts ==
  ASSUME Induction, NEW b \in [Address -> Balance]
  PROVE  /\ b \in [Address -> Int]
         /\ Total(b) \in Nat
         /\ \A x \in Address : b[x] \in Nat /\ b[x] < ValueLimit /\ b[x] <= Total(b)
         /\ \A x \in Address, y \in Address : x # y => b[x] + b[y] <= Total(b)
<1>1. b \in [Address -> Nat] /\ b \in [Address -> Int]
      /\ \A x \in Address : b[x] \in Nat /\ b[x] < ValueLimit
  BY LimitAssumption DEF Balance
<1> QED
  BY <1>1, TotalBounds, AddressListed, Zenon

LEMMA ValueModulo == \A x \in Nat : x < ValueLimit => x % ValueLimit = x
BY LimitAssumption

LEMMA ConservesSame ==
  ASSUME NEW v \in World, NEW w, w.storage = v.storage, w.destructed = v.destructed,
         w.nonce = v.nonce, w.balance = v.balance
  PROVE  Conserves(v, w) /\ Ages(v, w) /\ Counts(v, w)
<1>1. \A a \in Address : w.nonce[a] >= v.nonce[a]
  BY NonceFacts, Zenon
<1> QED
  BY <1>1, Zenon DEF Conserves, Ages, Counts, Supply

LEMMA TransferConserves ==
  ASSUME Induction, NEW w \in World, NEW value \in Balance, NEW sender \in Address, NEW recipient \in Address,
         value = 0 \/ w.balance[sender] >= value
  PROVE  LET v == transferValue(w, value, sender, recipient)
         IN  /\ Conserves(w, v) /\ Ages(w, v) /\ Counts(w, v)
             /\ v.nonce = w.nonce /\ v.code = w.code
<1>1. CASE value = 0 \/ sender = recipient
  BY <1>1, ConservesSame, Zenon DEF transferValue
<1>2. CASE value # 0 /\ sender # recipient
  <2> DEFINE x == (w.balance[sender] - value) % ValueLimit
             y == (w.balance[recipient] + value) % ValueLimit
             b == [w.balance EXCEPT ![sender] = x]
             c == [b EXCEPT ![recipient] = y]
             v == [w EXCEPT !.balance = c]
  <2>1. w.balance \in [Address -> Balance]
    BY Zenon DEF World
  <2>2. transferValue(w, value, sender, recipient) = v
    BY <1>2, <2>1, Zenon DEF transferValue, World
  <2>3. v.storage = w.storage /\ v.destructed = w.destructed /\ v.nonce = w.nonce
        /\ v.code = w.code /\ v.balance = c
    BY Zenon DEF World
  <2> HIDE DEF v
  <2>4. ASSUME Supply(w) < ValueLimit PROVE Supply(v) = Supply(w)
    <3>1. /\ w.balance \in [Address -> Int] /\ Total(w.balance) \in Nat
          /\ w.balance[sender] \in Nat /\ w.balance[sender] < ValueLimit
          /\ w.balance[recipient] \in Nat
          /\ w.balance[sender] + w.balance[recipient] <= Total(w.balance)
      BY <1>2, <2>1, SupplyFacts, Zenon
    <3>2. value \in Nat /\ value <= w.balance[sender] /\ ValueLimit \in Nat
          /\ Total(w.balance) < ValueLimit
      BY <1>2, <2>4, LimitAssumption DEF Balance, Supply
    <3>3. x = w.balance[sender] - value
      <4>1. w.balance[sender] - value \in Nat /\ w.balance[sender] - value < ValueLimit
        BY <3>1, <3>2
      <4> QED
        BY <4>1, ValueModulo, Zenon
    <3>4. y = w.balance[recipient] + value
      <4>1. w.balance[recipient] + value \in Nat /\ w.balance[recipient] + value < ValueLimit
        BY <3>1, <3>2
      <4> QED
        BY <4>1, ValueModulo, Zenon
    <3> HIDE DEF x, y
    <3>5. x \in Int /\ y \in Int
      BY <3>1, <3>2, <3>3, <3>4
    <3>6. b \in [Address -> Int] /\ b[recipient] = w.balance[recipient]
      BY <1>2, <3>1, <3>5, Zenon
    <3>7. Total(b) = Total(w.balance) - w.balance[sender] + x
      BY <3>1, <3>5, TotalUpdate, AddressListed, Zenon
    <3> HIDE DEF b
    <3>8. Total(c) = Total(b) - b[recipient] + y
      BY <3>5, <3>6, TotalUpdate, AddressListed, Zenon
    <3>9. Total(c) = Total(w.balance)
      BY <3>1, <3>2, <3>3, <3>4, <3>6, <3>7, <3>8
    <3> QED
      BY <2>3, <3>9, Zenon DEF Supply
  <2>5. \A a \in Address : v.nonce[a] >= w.nonce[a]
    BY <2>3, NonceFacts, Zenon
  <2> QED
    BY <2>2, <2>3, <2>4, <2>5, Zenon DEF Conserves, Ages, Counts
<1> QED
  BY <1>1, <1>2, Zenon

\* The state contract advances no nonce by more than its limit.
LEMMA StateContractCounts ==
  ASSUME NEW w \in World, NEW sender \in Address, runStateContract(w, sender)
  PROVE  /\ sender = Driver
         /\ \E after \in World : ReturnAtOnce(TRUE, after) /\ Counts(w, after)
<1> DEFINE P == \E after \in World : ReturnAtOnce(TRUE, after) /\ Counts(w, after)
<1>0. w.nonce \in [Address -> Nonce]
  BY Zenon DEF World
<1>1. ASSUME NEW a \in Address \ {sender}, NEW v \in Amount, ReturnAtOnce(TRUE, [w EXCEPT !.balance[a] = v])
      PROVE  P
  <2> DEFINE after == [w EXCEPT !.balance[a] = v]
  <2>1. after \in World /\ after.nonce = w.nonce
    BY BalanceType, InputAssumption, Zenon DEF World
  <2> QED
    BY <1>1, <2>1, Zenon DEF Counts
<1>2. ASSUME NEW to \in Address, NEW from \in Address, ReturnAtOnce(TRUE, [w EXCEPT !.code[to] = w.code[from]])
      PROVE  P
  <2> DEFINE after == [w EXCEPT !.code[to] = w.code[from]]
  <2>1. w.code[from] \in Code
    BY Zenon DEF World
  <2>2. after \in World /\ after.nonce = w.nonce
    BY <2>1, CodeType, Zenon DEF World
  <2> QED
    BY <1>2, <2>2, Zenon DEF Counts
<1>3. ASSUME NEW a \in Address, NEW b \in Address,
             ReturnAtOnce(TRUE, [w EXCEPT !.code[a] = w.code[b], !.code[b] = w.code[a]])
      PROVE  P
  <2> DEFINE after == [w EXCEPT !.code[a] = w.code[b], !.code[b] = w.code[a]]
  <2>1. after \in World /\ after.nonce = w.nonce
    BY SwapType, Zenon DEF World
  <2> QED
    BY <1>3, <2>1, Zenon DEF Counts
<1>4. ASSUME NEW a \in Address, NEW v \in Word, ReturnAtOnce(TRUE, [w EXCEPT !.storage[a] = v])
      PROVE  P
  <2> DEFINE after == [w EXCEPT !.storage[a] = v]
  <2>1. after \in World /\ after.nonce = w.nonce
    BY StorageType, Zenon DEF World
  <2> QED
    BY <1>4, <2>1, Zenon DEF Counts
<1>5. ASSUME NEW a \in Address \ {sender}, NEW m \in 1 .. MaxNonceIncrement,
             ReturnAtOnce(TRUE, [w EXCEPT !.nonce[a] = (@ + m) % NonceLimit])
      PROVE  P
  <2> DEFINE n == (w.nonce[a] + m) % NonceLimit
             after == [w EXCEPT !.nonce[a] = n]
  <2>1. n \in Nonce /\ n \in Counted(w.nonce[a])
    <3>1. w.nonce[a] + m \in Int /\ NonceLimit \in Nat \ {0}
      BY <1>0, LimitAssumption DEF Nonce
    <3> QED
      BY <3>1, ModuloType, Zenon DEF Nonce, Counted
  <2>2. ReturnAtOnce(TRUE, after)
    BY <1>5, Zenon
  <2>3. after \in World
    <3> HIDE DEF n
    <3> QED
      BY <2>1, NonceType, Zenon
  <2>4. \A b \in Address : after.nonce[b] = IF b = a THEN n ELSE w.nonce[b]
    <3> HIDE DEF n
    <3> QED
      BY Zenon DEF World
  <2>5. Counts(w, after)
    <3> HIDE DEF after, n
    <3> QED
      BY <2>1, <2>4, Zenon DEF Counts
  <2> QED
    BY <2>2, <2>3, <2>5, Zenon
<1> QED
  BY <1>1, <1>2, <1>3, <1>4, <1>5, Zenon DEF runStateContract

\* Only a CALL of the driver may reach the state contract: any other call moves
\* value at most before its code runs.
LEMMA CallEffect ==
  ASSUME Induction, NEW kind \in CallKinds, NEW p \in CallParams, NEW before \in World,
         executeCall(kind, p, before)
  PROVE  \E w \in World :
           /\ Counts(before, w)
           /\ kind # "Call" \/ p.sender # Driver => Conserves(before, w) /\ Ages(before, w)
           /\ \/ \E success \in BOOLEAN : ReturnAtOnce(success, w)
              \/ depth <= MaxRecursiveDepth /\ runInterpreter(kind, p, w, before, before)
<1> DEFINE transfers == kind \in {"Call", "CallCode"}
           possible == depth <= MaxRecursiveDepth
                       /\ (transfers => canTransferValue(before, p.value, p.sender, p.recipient))
           w == IF transfers THEN transferValue(before, p.value, p.sender, p.recipient) ELSE before
<1>1. p.value \in Balance /\ p.sender \in Address /\ p.recipient \in Address
  BY Zenon DEF CallParams
<1>2. w \in World
  BY <1>1, TransferType, Zenon
<1>3. Conserves(before, before) /\ Ages(before, before) /\ Counts(before, before)
  BY ConservesSame, Zenon
<1>4. ASSUME possible
      PROVE  Conserves(before, w) /\ Ages(before, w) /\ Counts(before, w) /\ w.nonce = before.nonce
  <2>1. CASE ~transfers
    BY <1>3, <2>1, Zenon
  <2>2. CASE transfers
    <3>1. p.value = 0 \/ before.balance[p.sender] >= p.value
      BY <1>4, <2>2, Zenon DEF canTransferValue
    <3> QED
      BY <1>1, <2>2, <3>1, TransferConserves, Zenon
  <2> QED
    BY <2>1, <2>2, Zenon
<1>5. CASE ReturnAtOnce(FALSE, before)
  BY <1>3, <1>5, Zenon
<1>6. CASE possible /\ ReturnAtOnce(TRUE, w)
  BY <1>2, <1>4, <1>6, Zenon
<1>7. CASE possible /\ kind = "Call" /\ runStateContract(w, p.sender)
  <2> HIDE DEF w
  <2>1. /\ p.sender = Driver
        /\ \E after \in World : ReturnAtOnce(TRUE, after) /\ Counts(w, after)
    BY <1>1, <1>2, <1>7, StateContractCounts, Zenon
  <2>2. PICK after \in World : ReturnAtOnce(TRUE, after) /\ Counts(w, after)
    BY <2>1, Zenon
  <2>3. Counts(before, after)
    BY <1>4, <1>7, <2>2, Zenon DEF Counts
  <2> QED
    BY <1>7, <2>1, <2>2, <2>3, Zenon
<1>8. CASE possible /\ runInterpreter(kind, p, w, before, before)
  BY <1>2, <1>4, <1>8, Zenon
<1> QED
  BY <1>5, <1>6, <1>7, <1>8, Zenon DEF executeCall, Restored

\* A create spends a nonce of the creator, marks the account it found empty and
\* moves value to it.
LEMMA CreateEffect ==
  ASSUME Induction, NEW kind \in CreateKinds, NEW p \in CreateParams, NEW before \in World,
         executeCreate(kind, p, before)
  PROVE  \E w \in World :
           /\ Counts(before, w) /\ Conserves(before, w) /\ Ages(before, w)
           /\ \/ \E success \in BOOLEAN : ReturnAtOnce(success, w)
              \/ \E created \in Address, snapshot \in World :
                   /\ depth <= MaxRecursiveDepth
                   /\ Counts(before, snapshot) /\ Conserves(before, snapshot) /\ Ages(before, snapshot)
                   /\ before.nonce[created] = 0 /\ w.nonce[created] = 1
                   /\ runInterpreter(kind, [p EXCEPT !.recipient = created], w, before, snapshot)
<1> DEFINE setUp == /\ depth <= MaxRecursiveDepth
                    /\ canTransferValue(before, p.value, p.sender, NoAddress)
                    /\ before.nonce[p.sender] + 1 < NonceLimit
           counted == [before EXCEPT !.nonce[p.sender] = @ + 1]
           created == createAddress(kind, counted, p.sender)
           snapshot == AccessAccount(counted, created)
           marked == CreateContract(snapshot, created)
           w == transferValue(marked, p.value, p.sender, created)
<1>1. p.value \in Balance /\ p.sender \in Address
  BY Zenon DEF CreateParams
<1>2. CASE ~setUp
  <2>1. ReturnAtOnce(FALSE, before)
    BY <1>2, Zenon DEF executeCreate
  <2> QED
    BY <2>1, ConservesSame, Zenon
<1>3. CASE setUp
  <2>0. \/ ~isEmpty(snapshot, created) /\ ReturnAtOnce(FALSE, snapshot)
        \/ isEmpty(snapshot, created) /\ ReturnAtOnce(TRUE, w)
        \/ /\ isEmpty(snapshot, created)
           /\ runInterpreter(kind, [p EXCEPT !.recipient = created], w, before, snapshot)
    BY <1>3, Zenon DEF executeCreate
  <2>1. /\ before.nonce \in [Address -> Nonce]
        /\ before.balance \in [Address -> Balance]
        /\ before.nonce[p.sender] \in Nonce
        /\ \A a \in Address : before.nonce[a] \in Nat
    BY <1>1, LimitAssumption DEF World, Nonce
  <2>2. /\ before.nonce[p.sender] + 1 \in Nonce
        /\ before.nonce[p.sender] + 1 = (before.nonce[p.sender] + 1) % NonceLimit
    BY <1>3, <2>1, LimitAssumption DEF Nonce
  <2> DEFINE n == before.nonce[p.sender] + 1
  <2>3. /\ counted \in World
        /\ counted.nonce = [before.nonce EXCEPT ![p.sender] = n]
        /\ counted.storage = before.storage /\ counted.destructed = before.destructed
        /\ counted.balance = before.balance
    <3>1. counted = [before EXCEPT !.nonce[p.sender] = n]
      BY Zenon
    <3> QED
      BY <1>1, <2>2, <3>1, NonceType, Zenon DEF World
  <2>4. counted.nonce[p.sender] - 1 \in Nonce
    <3>1. counted.nonce[p.sender] = n
      BY <1>1, <2>1, <2>3, Zenon
    <3>2. n - 1 = before.nonce[p.sender]
      BY <2>1 DEF Nonce
    <3> QED
      BY <2>1, <3>1, <3>2, Zenon
  <2>5. created \in Address
    BY <1>1, <2>4, AddressAssumption, Zenon DEF createAddress
  <2> HIDE DEF counted, created
  <2>6. /\ snapshot \in World /\ snapshot.nonce = counted.nonce
        /\ snapshot.storage = before.storage /\ snapshot.destructed = before.destructed
        /\ snapshot.balance = before.balance
    BY <2>3, <2>5, AccessType, Zenon DEF AccessAccount, World
  <2> HIDE DEF snapshot
  <2>7. \A a \in Address : snapshot.nonce[a] = IF a = p.sender THEN n ELSE before.nonce[a]
    BY <1>1, <2>1, <2>3, <2>6, Zenon
  <2>8. n \in Nat /\ n >= before.nonce[p.sender] /\ n # 0 /\ n \in Counted(before.nonce[p.sender])
    <3>1. n \in Nat /\ n >= before.nonce[p.sender] /\ n # 0 /\ 1 \in 1 .. MaxNonceIncrement
      BY <2>1, <2>2, LimitAssumption DEF Nonce
    <3> QED
      BY <2>2, <3>1, Zenon DEF Counted
  <2> HIDE DEF n
  <2>9. \A a \in Address : before.nonce[a] >= before.nonce[a]
    BY <2>1
  <2>10. Counts(before, snapshot) /\ Conserves(before, snapshot) /\ Ages(before, snapshot)
    BY <2>6, <2>7, <2>8, <2>9, Zenon DEF Counts, Conserves, Ages, Supply
  <2>11. CASE ReturnAtOnce(FALSE, snapshot)
    BY <2>6, <2>10, <2>11, Zenon
  <2>12. CASE isEmpty(snapshot, created)
    <3>1. snapshot.nonce[created] = 0 /\ created # p.sender /\ before.nonce[created] = 0
      BY <2>5, <2>7, <2>8, <2>12, Zenon DEF isEmpty
    <3>2. 1 \in Nonce /\ 1 \in Counted(0) /\ 1 >= 0
      <4>1. 1 \in Nonce /\ 1 = (0 + 1) % NonceLimit /\ 1 \in 1 .. MaxNonceIncrement /\ 1 >= 0
        BY LimitAssumption DEF Nonce
      <4> QED
        BY <4>1, Zenon DEF Counted
    <3>3. /\ marked \in World
          /\ marked.nonce = [snapshot.nonce EXCEPT ![created] = 1]
          /\ marked.storage = before.storage /\ marked.destructed = before.destructed
          /\ marked.balance = before.balance
      BY <2>5, <2>6, <3>2, NonceType, Zenon DEF CreateContract, World
    <3> HIDE DEF marked
    <3>4. /\ \A a \in Address : marked.nonce[a] = IF a = created THEN 1 ELSE snapshot.nonce[a]
          /\ marked.nonce[created] = 1
      BY <2>1, <2>3, <2>5, <2>6, <3>3, Zenon
    <3>5. p.value = 0 \/ marked.balance[p.sender] >= p.value
      BY <1>3, <3>3, Zenon DEF canTransferValue
    <3>6. w \in World /\ w.nonce = marked.nonce /\ Conserves(marked, w)
      BY <1>1, <2>5, <3>3, <3>5, TransferType, TransferConserves
    <3> HIDE DEF w
    <3>7. Conserves(before, w)
      BY <3>3, <3>6, Zenon DEF Conserves, Supply
    <3>8. Counts(before, w) /\ Ages(before, w)
      <4>1. ASSUME NEW a \in Address
            PROVE  /\ w.nonce[a] \in {before.nonce[a]} \cup Counted(before.nonce[a])
                   /\ w.nonce[a] >= before.nonce[a]
        <5>1. CASE a = created
          BY <3>1, <3>2, <3>4, <3>6, <5>1, Zenon
        <5>2. CASE a # created
          BY <2>7, <2>8, <2>9, <3>4, <3>6, <5>2, Zenon
        <5> QED
          BY <5>1, <5>2, Zenon
      <4> QED
        BY <4>1, Zenon DEF Counts, Ages
    <3>9. w.nonce[created] = 1
      BY <3>4, <3>6, Zenon
    <3>10. CASE ReturnAtOnce(TRUE, w)
      BY <3>6, <3>7, <3>8, <3>10, Zenon
    <3>11. CASE runInterpreter(kind, [p EXCEPT !.recipient = created], w, before, snapshot)
      BY <1>3, <2>5, <2>6, <2>10, <3>1, <3>6, <3>7, <3>8, <3>9, <3>11, Zenon
    <3>12. ReturnAtOnce(TRUE, w) \/ ReturnAtOnce(FALSE, snapshot)
           \/ runInterpreter(kind, [p EXCEPT !.recipient = created], w, before, snapshot)
      BY <2>0, Zenon
    <3> QED
      BY <2>11, <3>10, <3>11, <3>12, Zenon
  <2>13. isEmpty(snapshot, created) \/ ReturnAtOnce(FALSE, snapshot)
    BY <2>0, Zenon
  <2> QED
    BY <2>11, <2>12, <2>13, Zenon
<1> QED
  BY <1>2, <1>3, Zenon

-----------------------------------------------------------------------------
(* What a step that calls or creates does to the world and to the frames. *)

\* The world w a call leaves, or may restore, is close to the one it found.
Mild(w) ==
  /\ DriverIdle => Conserves(world, w)
  /\ phase = "run" => Counts(world, w) /\ (DriverIdle => Ages(world, w))

Idles == Visible(world') = Visible(world) /\ UNCHANGED <<frames, phase, result>>

Comes == \E success \in BOOLEAN, w \in World : Mild(w) /\ Return(frames, success, 0, w)

Enters ==
  \E f \in Frame, w \in World :
    /\ Mild(w) /\ Mild(f.snapshot)
    /\ f.refund = 0
    /\ f.kind \in CreateKinds => world.nonce[f.recipient] = 0 /\ w.nonce[f.recipient] = 1
    /\ depth <= MaxRecursiveDepth
    /\ world' = w
    /\ frames' = Append(frames, f)
    /\ phase' = "run"
    /\ UNCHANGED result

Calls ==
  \/ Start
  \/ \E kind \in Kinds \cap CallKinds, to \in Address, value \in Amount : genericCall(kind, to, value)
  \/ \E kind \in Kinds \cap CreateKinds, value \in Amount, initCode \in Code :
       genericCreate(kind, value, initCode)

LEMMA EntersFrame ==
  ASSUME NEW kind \in CallKinds \cup CreateKinds, NEW p, p.sender \in Address, p.recipient \in Address,
         static \in BOOLEAN,
         NEW w \in World, NEW before \in World, NEW snapshot \in World,
         runInterpreter(kind, p, w, before, snapshot), depth <= MaxRecursiveDepth,
         Mild(w), Mild(snapshot),
         kind \in CreateKinds => world.nonce[p.recipient] = 0 /\ w.nonce[p.recipient] = 1
  PROVE  Enters
<1> DEFINE f == [kind |-> kind, sender |-> p.sender, recipient |-> p.recipient,
                 static |-> static \/ kind = "StaticCall",
                 staticSet |-> ~static /\ kind = "StaticCall",
                 snapshot |-> snapshot, before |-> before, refund |-> 0]
<1>1. f \in Frame
  BY DEF Frame
<1>2. f.snapshot = snapshot /\ f.kind = kind /\ f.recipient = p.recipient /\ f.refund = 0
  BY Zenon
<1>3. /\ world' = w /\ frames' = Append(frames, f) /\ phase' = "run" /\ UNCHANGED result
  BY Zenon DEF runInterpreter
<1> HIDE DEF f
<1> QED
  BY <1>1, <1>2, <1>3, Zenon DEF Enters

\* Worlds that differ in their access lists only.
LEMMA MildAcross ==
  ASSUME NEW before, Visible(before) = Visible(world), NEW w,
         phase = "run" => Counts(before, w),
         DriverIdle => Conserves(before, w),
         phase = "run" /\ DriverIdle => Ages(before, w)
  PROVE  Mild(w)
<1>1. /\ before.balance = world.balance /\ before.nonce = world.nonce
      /\ before.storage = world.storage /\ before.destructed = world.destructed
  BY VisibleParts, Zenon
<1> QED
  BY <1>1, Zenon DEF Mild, Conserves, Counts, Ages, Supply

LEMMA CreateCalls ==
  ASSUME Induction, IInv, NEW kind \in CreateKinds, NEW p \in CreateParams,
         NEW before \in World, Visible(before) = Visible(world),
         executeCreate(kind, p, before)
  PROVE  Comes \/ Enters
<1>1. static \in BOOLEAN /\ p.sender \in Address /\ before.nonce = world.nonce
  BY VisibleParts, Zenon DEF IInv, TypeOK, CreateParams
<1>2. PICK w \in World :
        /\ Counts(before, w) /\ Conserves(before, w) /\ Ages(before, w)
        /\ \/ \E success \in BOOLEAN : ReturnAtOnce(success, w)
           \/ \E created \in Address, snapshot \in World :
                /\ depth <= MaxRecursiveDepth
                /\ Counts(before, snapshot) /\ Conserves(before, snapshot) /\ Ages(before, snapshot)
                /\ before.nonce[created] = 0 /\ w.nonce[created] = 1
                /\ runInterpreter(kind, [p EXCEPT !.recipient = created], w, before, snapshot)
  BY CreateEffect, Zenon
<1>3. Mild(w)
  BY <1>2, MildAcross, Zenon
<1>4. CASE \E success \in BOOLEAN : ReturnAtOnce(success, w)
  BY <1>3, <1>4, Zenon DEF Comes, ReturnAtOnce
<1>5. ASSUME NEW created \in Address, NEW snapshot \in World,
             depth <= MaxRecursiveDepth,
             Counts(before, snapshot), Conserves(before, snapshot), Ages(before, snapshot),
             before.nonce[created] = 0, w.nonce[created] = 1,
             runInterpreter(kind, [p EXCEPT !.recipient = created], w, before, snapshot)
      PROVE  Enters
  <2> DEFINE q == [p EXCEPT !.recipient = created]
  <2>1. q.sender = p.sender /\ q.sender \in Address /\ q.recipient = created
    BY <1>1, Zenon DEF CreateParams
  <2>2. Mild(snapshot) /\ world.nonce[created] = 0
    BY <1>1, <1>5, MildAcross, Zenon
  <2>3. runInterpreter(kind, q, w, before, snapshot)
    BY <1>5, Zenon
  <2>4. kind \in CallKinds \cup CreateKinds
    BY Zenon
  <2> HIDE DEF q
  <2> QED
    BY <1>1, <1>3, <1>5, <2>1, <2>2, <2>3, <2>4, EntersFrame, Zenon
<1> QED
  BY <1>2, <1>4, <1>5, Zenon

LEMMA RunCalls ==
  ASSUME Induction, IInv, phase = "run", NEW kind \in CallKinds, NEW p \in CallParams,
         kind = "Call" => p.sender = top.recipient,
         NEW before \in World, Visible(before) = Visible(world),
         executeCall(kind, p, before)
  PROVE  Comes \/ Enters
<1>1. static \in BOOLEAN /\ p.sender \in Address /\ p.recipient \in Address
  BY Zenon DEF IInv, TypeOK, CallParams
<1>2. PICK w \in World :
        /\ Counts(before, w)
        /\ kind # "Call" \/ p.sender # Driver => Conserves(before, w) /\ Ages(before, w)
        /\ \/ \E success \in BOOLEAN : ReturnAtOnce(success, w)
           \/ depth <= MaxRecursiveDepth /\ runInterpreter(kind, p, w, before, before)
  BY <1>1, CallEffect, Zenon
<1>3. Mild(w)
  <2>1. DriverIdle => kind # "Call" \/ p.sender # Driver
    BY Zenon DEF DriverIdle
  <2> QED
    BY <1>2, <2>1, MildAcross, Zenon
<1>4. Mild(before)
  <2>1. Counts(before, before) /\ Conserves(before, before) /\ Ages(before, before)
    BY ConservesSame, Zenon
  <2> QED
    BY <2>1, MildAcross, Zenon
<1>5. kind \in CallKinds \cup CreateKinds /\ kind \notin CreateKinds
  BY Zenon DEF CallKinds, CreateKinds
<1>6. CASE \E success \in BOOLEAN : ReturnAtOnce(success, w)
  BY <1>3, <1>6, Zenon DEF Comes, ReturnAtOnce
<1>7. CASE depth <= MaxRecursiveDepth /\ runInterpreter(kind, p, w, before, before)
  BY <1>1, <1>3, <1>4, <1>5, <1>7, EntersFrame, Zenon
<1> QED
  BY <1>2, <1>6, <1>7, Zenon

LEMMA StartCalls ==
  ASSUME Induction, IInv, NEW to \in Address, NEW value \in Amount, NEW list \in SUBSET Precompiled,
         StartCall(to, value, list)
  PROVE  Comes \/ Enters
<1> DEFINE listed == setUpAccessList(world, {Sender, to}, list)
           n == (listed.nonce[Sender] + 1) % NonceLimit
           counted == [listed EXCEPT !.nonce[Sender] = n]
           p == [sender |-> Sender, recipient |-> to, codeAddress |-> to, value |-> value]
<1>1. phase = "start" /\ executeCall("Call", p, counted)
  BY Zenon DEF StartCall
<1>2. static \in BOOLEAN /\ listed \in World /\ Visible(listed) = Visible(world)
  <2>1. {Sender, to} \in SUBSET Address /\ world \in World /\ static \in BOOLEAN
    BY AddressAssumption, Zenon DEF IInv, TypeOK
  <2> QED
    BY <2>1, ListIsInvisible, Zenon
<1> HIDE DEF listed
<1>3. n \in Nonce
  <2>1. listed.nonce[Sender] + 1 \in Int /\ NonceLimit \in Nat \ {0}
    BY <1>2, LimitAssumption, AddressAssumption DEF World, Nonce
  <2> QED
    BY <2>1, ModuloType, Zenon DEF Nonce
<1>4. /\ counted \in World /\ counted.storage = world.storage
      /\ counted.destructed = world.destructed /\ counted.balance = world.balance
  <2>1. /\ listed.storage = world.storage
        /\ listed.destructed = world.destructed /\ listed.balance = world.balance
    BY <1>2, VisibleParts, Zenon
  <2> HIDE DEF n
  <2>2. counted \in World
    BY <1>2, <1>3, AddressAssumption, NonceType, Zenon
  <2> QED
    BY <1>2, <2>1, <2>2, Zenon DEF World
<1>5. p \in CallParams /\ p.sender = Sender /\ p.sender \in Address /\ p.recipient \in Address
  BY AddressAssumption, InputAssumption, Zenon DEF CallParams
<1>6. "Call" \in CallKinds /\ "Call" \in CallKinds \cup CreateKinds /\ "Call" \notin CreateKinds
  BY Zenon DEF CallKinds, CreateKinds
<1> HIDE DEF counted, p
<1>7. PICK w \in World :
        /\ p.sender # Driver => Conserves(counted, w)
        /\ \/ \E success \in BOOLEAN : ReturnAtOnce(success, w)
           \/ depth <= MaxRecursiveDepth /\ runInterpreter("Call", p, w, counted, counted)
  <2>1. \E w \in World :
           /\ Counts(counted, w)
           /\ "Call" # "Call" \/ p.sender # Driver => Conserves(counted, w) /\ Ages(counted, w)
           /\ \/ \E success \in BOOLEAN : ReturnAtOnce(success, w)
              \/ depth <= MaxRecursiveDepth /\ runInterpreter("Call", p, w, counted, counted)
    BY <1>1, <1>4, <1>5, <1>6, CallEffect, Zenon
  <2> QED
    BY <2>1, Zenon
<1>8. Mild(w) /\ Mild(counted)
  <2>1. phase # "run"
    BY <1>1, Zenon
  <2>2. Conserves(world, counted)
    BY <1>4, Zenon DEF Conserves, Supply
  <2>3. DriverIdle => Conserves(world, w)
    BY <1>1, <1>4, <1>5, <1>7, Zenon DEF DriverIdle, Conserves, Supply
  <2> QED
    BY <2>1, <2>2, <2>3, Zenon DEF Mild
<1>9. CASE \E success \in BOOLEAN : ReturnAtOnce(success, w)
  BY <1>8, <1>9, Zenon DEF Comes, ReturnAtOnce
<1>10. CASE depth <= MaxRecursiveDepth /\ runInterpreter("Call", p, w, counted, counted)
  BY <1>2, <1>4, <1>5, <1>6, <1>8, <1>10, EntersFrame, Zenon
<1> QED
  BY <1>7, <1>9, <1>10, Zenon

\* A call comes and goes, or starts to run code, or is refused by the
\* instruction; only instructions are counted.
LEMMA CallsCases ==
  ASSUME Induction, IInv, Calls
  PROVE  /\ Idles \/ Comes \/ Enters
         /\ phase # "start" => phase = "run" /\ ops < MaxOps /\ ops' = ops + 1
         /\ phase = "start" => ops' = ops
<1>1. ASSUME NEW kind \in Kinds \cap CallKinds, NEW to \in Address, NEW value \in Amount,
             genericCall(kind, to, value)
      PROVE  /\ Idles \/ Comes \/ Enters
             /\ phase = "run" /\ ops < MaxOps /\ ops' = ops + 1
  <2> DEFINE a == top.recipient
             p == [sender |-> IF kind = "DelegateCall" THEN top.sender ELSE a,
                   recipient |-> IF kind \in {"CallCode", "DelegateCall"} THEN a ELSE to,
                   codeAddress |-> to, value |-> value]
  <2>1. phase = "run" /\ ops < MaxOps /\ ops' = ops + 1
    BY <1>1, Zenon DEF genericCall, Executes
  <2>2. PICK v \in accessed(to) :
          IF world.balance[a] < value THEN world' = v /\ UNCHANGED frames /\ Stays
          ELSE executeCall(nestedKind(kind), p, v)
    BY <1>1, Zenon DEF genericCall
  <2>3. top \in Frame
    BY <2>1, TopFacts, Zenon
  <2>4. a \in Address /\ top.sender \in Address /\ value \in Balance
    BY <2>3, InputAssumption, Zenon DEF Frame
  <2>5. p \in CallParams
    BY <2>4, Zenon DEF CallParams
  <2>6. nestedKind(kind) \in CallKinds /\ (nestedKind(kind) = "Call" => kind = "Call")
    BY Zenon DEF nestedKind, CallKinds
  <2>7. nestedKind(kind) = "Call" => p.sender = top.recipient
    BY <2>6, Zenon
  <2> HIDE DEF p
  <2>8. v \in World /\ Visible(v) = Visible(world)
    BY AccessedFacts, Zenon DEF IInv, TypeOK
  <2>9. CASE executeCall(nestedKind(kind), p, v)
    BY <2>1, <2>5, <2>6, <2>7, <2>8, <2>9, RunCalls, Zenon
  <2>10. CASE world' = v /\ UNCHANGED frames /\ Stays
    BY <2>1, <2>8, <2>10, Zenon DEF Idles, Stays
  <2> QED
    BY <2>1, <2>2, <2>9, <2>10, Zenon
<1>2. ASSUME NEW kind \in Kinds \cap CreateKinds, NEW value \in Amount, NEW initCode \in Code,
             genericCreate(kind, value, initCode)
      PROVE  /\ Idles \/ Comes \/ Enters
             /\ phase = "run" /\ ops < MaxOps /\ ops' = ops + 1
  <2> DEFINE p == [sender |-> top.recipient, recipient |-> NoAddress, value |-> value, initCode |-> initCode]
  <2>1. phase = "run" /\ ops < MaxOps /\ ops' = ops + 1
    BY <1>2, Zenon DEF genericCreate, Executes
  <2>2. \/ UNCHANGED <<world, frames>> /\ Stays
        \/ executeCreate(kind, p, world)
    BY <1>2, Zenon DEF genericCreate
  <2>3. p \in CreateParams
    BY <2>1, TopFacts, InputAssumption, AddressAssumption, Zenon DEF Frame, CreateParams
  <2> HIDE DEF p
  <2>4. world \in World
    BY Zenon DEF IInv, TypeOK
  <2>5. CASE executeCreate(kind, p, world)
    BY <2>1, <2>3, <2>4, <2>5, CreateCalls, Zenon
  <2>6. CASE UNCHANGED <<world, frames>> /\ Stays
    BY <2>1, <2>6, Zenon DEF Idles, Stays
  <2> QED
    BY <2>2, <2>5, <2>6, Zenon
<1>3. ASSUME NEW value \in Amount, NEW initCode \in Code, NEW list \in SUBSET Precompiled,
             StartCreate(value, initCode, list)
      PROVE  Comes \/ Enters
  <2> DEFINE p == [sender |-> Sender, recipient |-> NoAddress, value |-> value, initCode |-> initCode]
             listed == setUpAccessList(world, {Sender}, list)
  <2>1. executeCreate("Create", p, listed)
    BY <1>3, Zenon DEF StartCreate
  <2>2. p \in CreateParams /\ "Create" \in CreateKinds
    BY InputAssumption, AddressAssumption, Zenon DEF CreateParams, CreateKinds
  <2>3. listed \in World /\ Visible(listed) = Visible(world)
    <3>1. {Sender} \in SUBSET Address /\ world \in World
      BY AddressAssumption, Zenon DEF IInv, TypeOK
    <3> QED
      BY <3>1, ListIsInvisible, Zenon
  <2> HIDE DEF p, listed
  <2> QED
    BY <2>1, <2>2, <2>3, CreateCalls, Zenon
<1>4. CASE Start
  <2>1. phase = "start" /\ ops' = ops
    BY <1>4, Zenon DEF Start, StartCall, StartCreate
  <2>2. Comes \/ Enters
    <3> HIDE DEF IInv
    <3>1. ASSUME NEW to \in Address, NEW value \in Amount, NEW list \in SUBSET Precompiled,
                 StartCall(to, value, list)
          PROVE  Comes \/ Enters
      BY <3>1, StartCalls, Zenon
    <3> QED
      BY <1>3, <1>4, <3>1, Zenon DEF Start
  <2> QED
    BY <2>1, <2>2, Zenon
<1> QED
  BY <1>1, <1>2, <1>4, Zenon DEF Calls

\* A step calls, executes one of the other instructions, or ends a frame.
LEMMA NextCases ==
  ASSUME [Next]_vars
  PROVE  \/ Calls
         \/ \E new \in Word : opSstore(new)
         \/ opLog
         \/ \E beneficiary \in Address : opSelfdestruct(beneficiary)
         \/ \E output \in Code, deployable \in DeployResults : Stop(output, deployable)
         \/ Fail
         \/ UNCHANGED vars
BY Zenon DEF Next, Instruction, Calls

\* The stacks fs and gs differ in the refunds of their frames only.
Similar(gs, fs) ==
  /\ gs \in Seq(Frame) /\ fs \in Seq(Frame) /\ Len(gs) = Len(fs)
  /\ \A i \in 1 .. Len(fs) : /\ gs[i].kind = fs[i].kind
                             /\ gs[i].recipient = fs[i].recipient
                             /\ gs[i].snapshot = fs[i].snapshot

\* The top frame collects a refund.
Credited(fs, r) == [fs EXCEPT ![Len(fs)].refund = r]

LEMMA SimilarUpdate ==
  ASSUME NEW fs \in Seq(Frame), fs # <<>>, NEW r \in Int
  PROVE  /\ Similar(Credited(fs, r), fs)
         /\ Credited(fs, r)[Len(fs)].refund = r
         /\ \A i \in 1 .. Len(fs) : i # Len(fs) => Credited(fs, r)[i] = fs[i]
<1> DEFINE g == [fs[Len(fs)] EXCEPT !.refund = r]
           gs == [fs EXCEPT ![Len(fs)] = g]
<1>1. Len(fs) \in 1 .. Len(fs) /\ DOMAIN fs = 1 .. Len(fs) /\ fs[Len(fs)] \in Frame
  OBVIOUS
<1>2. /\ g \in Frame /\ g.refund = r /\ g.kind = fs[Len(fs)].kind
      /\ g.recipient = fs[Len(fs)].recipient /\ g.snapshot = fs[Len(fs)].snapshot
  BY <1>1, Zenon DEF Frame
<1> HIDE DEF g
<1>3. /\ gs \in Seq(Frame) /\ Len(gs) = Len(fs)
      /\ \A i \in 1 .. Len(fs) : gs[i] = IF i = Len(fs) THEN g ELSE fs[i]
  BY <1>1, <1>2
<1>4. Credited(fs, r) = gs
  BY Zenon DEF g, Credited
<1> HIDE DEF gs
<1> QED
  BY <1>1, <1>2, <1>3, <1>4, Zenon DEF Similar

LEMMA ReturnSimilar ==
  ASSUME NEW fs \in Seq(Frame), NEW success, NEW r \in Int, NEW w, Return(fs, success, r, w)
  PROVE  /\ Similar(frames', fs) /\ world' = w
         /\ result' = [success |-> success, refund |-> r]
         /\ fs = <<>> => phase' = "done" /\ frames' = <<>>
         /\ fs # <<>> => phase' = "run" /\ frames'[Len(fs)].refund = fs[Len(fs)].refund + r
         /\ \A i \in 1 .. Len(fs) : i # Len(fs) => frames'[i] = fs[i]
<1>1. CASE fs = <<>>
  BY <1>1, Zenon DEF Return, Similar
<1>2. CASE fs # <<>>
  <2>1. Len(fs) \in DOMAIN fs /\ fs[Len(fs)] \in Frame
    BY <1>2
  <2> DEFINE q == fs[Len(fs)].refund + r
  <2>2. q \in Int
    BY <2>1 DEF Frame
  <2>3. /\ frames' = Credited(fs, q)
        /\ world' = w /\ result' = [success |-> success, refund |-> r] /\ phase' = "run"
    BY <1>2, <2>1, Zenon DEF Return, Credited
  <2> HIDE DEF q
  <2>4. /\ Similar(frames', fs)
        /\ frames'[Len(fs)].refund = q
        /\ \A i \in 1 .. Len(fs) : i # Len(fs) => frames'[i] = fs[i]
    BY ONLY fs \in Seq(Frame), <1>2, <2>2, <2>3, SimilarUpdate, Zenon
  <2> QED
    BY <1>2, <2>3, <2>4, Zenon DEF q
<1> QED
  BY <1>1, <1>2, Zenon

LEMMA FrameFacts ==
  ASSUME IInv
  PROVE  /\ frames \in Seq(Frame) /\ world \in World /\ Len(frames) \in Nat
         /\ phase = "run" => frames # <<>>
         /\ phase # "run" => frames = <<>>
         /\ ops \in Nat /\ ops <= MaxOps /\ MaxOps \in Nat
         /\ \A i \in 1 .. Len(frames) : frames[i] \in Frame /\ frames[i].snapshot \in World
                                        /\ frames[i].recipient \in Address
                                        /\ frames[i].refund \in Int
<1>1. frames \in Seq(Frame) /\ world \in World /\ ops \in 0 .. MaxOps /\ MaxOps \in Nat
  BY LimitAssumption, Zenon DEF IInv, TypeOK
<1>2. \A i \in 1 .. Len(frames) : frames[i] \in Frame
  BY <1>1
<1>3. \A i \in 1 .. Len(frames) : /\ frames[i].snapshot \in World
                                  /\ frames[i].recipient \in Address
                                  /\ frames[i].refund \in Int
  BY <1>2, Zenon DEF Frame
<1>4. phase = "run" <=> frames # <<>>
  BY Zenon DEF IInv, PhaseMatches
<1> QED
  BY <1>1, <1>2, <1>3, <1>4

\* What the instructions other than calls do, and how a frame ends.
LEMMA SstoreEffect ==
  ASSUME IInv, NEW new \in Word, opSstore(new)
  PROVE  /\ phase = "run" /\ ops < MaxOps /\ ops' = ops + 1 /\ phase' = "run" /\ result' = result
         /\ world' = [world EXCEPT !.storage[top.recipient] = new]
         /\ world'.nonce = world.nonce /\ world'.balance = world.balance
         /\ world'.destructed = world.destructed
         /\ Similar(frames', frames)
         /\ frames'[Len(frames)].refund = top.refund +
              getRefundForSstore(revision, GetStorageStatus(original[top.recipient],
                                             world.storage[top.recipient], new))
         /\ \A i \in 1 .. Len(frames) : i # Len(frames) => frames'[i] = frames[i]
<1> DEFINE r == getRefundForSstore(revision, GetStorageStatus(original[top.recipient],
                                             world.storage[top.recipient], new))
           q == top.refund + r
<1>1. /\ phase = "run" /\ ops < MaxOps /\ ops' = ops + 1 /\ phase' = phase /\ result' = result
      /\ world' = [world EXCEPT !.storage[top.recipient] = new]
      /\ frames' = [frames EXCEPT ![Len(frames)].refund = q]
  BY Zenon DEF opSstore, Executes, Stays, top
<1>2. frames \in Seq(Frame) /\ frames # <<>> /\ world \in World /\ top.refund \in Int
      /\ Len(frames) \in 1 .. Len(frames)
  BY <1>1, FrameFacts, TopFacts DEF Frame
<1>3. r \in Int
  BY DEF getRefundForSstore, ClearRefund, RestoreRefund
<1>4. q \in Int
  BY <1>2, <1>3
<1> HIDE DEF q, r
<1>5. /\ Similar(frames', frames) /\ frames'[Len(frames)].refund = q
      /\ \A i \in 1 .. Len(frames) : i # Len(frames) => frames'[i] = frames[i]
  <2> DEFINE gs == Credited(frames, q)
  <2>1. /\ Similar(gs, frames) /\ gs[Len(frames)].refund = q
        /\ \A i \in 1 .. Len(frames) : i # Len(frames) => gs[i] = frames[i]
    BY <1>2, <1>4, SimilarUpdate, Zenon
  <2>2. frames' = gs
    BY <1>1, Zenon DEF Credited
  <2> HIDE DEF gs
  <2> QED
    BY <2>1, <2>2, Zenon
<1>6. /\ world'.nonce = world.nonce /\ world'.balance = world.balance
      /\ world'.destructed = world.destructed
  BY <1>1, <1>2, Zenon DEF World
<1> QED
  BY <1>1, <1>5, <1>6, Zenon DEF q, r

LEMMA LogEffect ==
  ASSUME IInv, opLog
  PROVE  /\ phase = "run" /\ ops < MaxOps /\ ops' = ops + 1 /\ phase' = "run" /\ result' = result
         /\ world'.nonce = world.nonce /\ world'.balance = world.balance
         /\ world'.destructed = world.destructed /\ world'.storage = world.storage
         /\ frames' = frames
<1>1. /\ phase = "run" /\ ops < MaxOps /\ ops' = ops + 1 /\ phase' = phase /\ result' = result
      /\ world' = [world EXCEPT !.logs = Append(@, top.recipient)]
      /\ frames' = frames
  BY Zenon DEF opLog, Executes, Stays
<1> QED
  BY <1>1, FrameFacts, Zenon DEF World

LEMMA FailEffect ==
  ASSUME IInv, Fail
  PROVE  /\ phase = "run" /\ ops' = ops
         /\ top.snapshot \in World
         /\ Return(lower, FALSE, 0, top.snapshot)
<1>1. phase = "run" /\ ops' = ops /\ Return(lower, FALSE, 0, top.snapshot)
  BY Zenon DEF Fail, Leave, Restored
<1> QED
  BY <1>1, TopFacts, Zenon DEF Frame

\* The world has the balances, nonces, storage and destructed accounts of v.
SameState(w, v) ==
  /\ w.balance = v.balance /\ w.nonce = v.nonce
  /\ w.storage = v.storage /\ w.destructed = v.destructed

LEMMA StopEffect ==
  ASSUME IInv, NEW output \in Code, NEW deployable \in DeployResults, Stop(output, deployable)
  PROVE  /\ phase = "run" /\ ops' = ops
         /\ top.refund \in Int /\ top.snapshot \in World
         /\ \/ \E w \in World : SameState(w, world) /\ Return(lower, TRUE, top.refund, w)
            \/ /\ RejectsCode
               /\ Return(lower, FALSE, top.refund, top.snapshot)
<1>1. phase = "run" /\ ops' = ops /\ Succeed(world, top.refund, output, deployable)
  BY Zenon DEF Stop, Succeed, Leave
<1>2. top \in Frame /\ world \in World
  BY <1>1, TopFacts, FrameFacts, Zenon
<1>3. top.refund \in Int /\ top.snapshot \in World /\ top.recipient \in Address
  BY <1>2, Zenon DEF Frame
<1>4. CASE Return(lower, TRUE, top.refund, world)
  BY <1>1, <1>2, <1>3, <1>4, Zenon DEF SameState
<1>5. CASE Return(lower, TRUE, top.refund, [world EXCEPT !.code[top.recipient] = output])
  <2> DEFINE w == [world EXCEPT !.code[top.recipient] = output]
  <2>1. w \in World /\ SameState(w, world)
    BY <1>2, <1>3, CodeType, Zenon DEF World, SameState
  <2> QED
    BY <1>1, <1>3, <1>5, <2>1, Zenon
<1>6. CASE top.kind \in CreateKinds /\ ~deployable /\ Return(lower, FALSE, top.refund, top.snapshot)
  <2>1. deployable = FALSE
    BY <1>6, InputAssumption, Zenon
  <2>2. RejectsCode
    BY <1>1, <1>6, <2>1, Zenon DEF RejectsCode
  <2> QED
    BY <1>1, <1>3, <1>6, <2>2, Zenon
<1> QED
  BY <1>1, <1>4, <1>5, <1>6, Zenon DEF Succeed, Restored

\* A self-destruct moves the whole balance, also to the account itself.
LEMMA PaidOutSupply ==
  ASSUME Induction, NEW a \in Address, NEW beneficiary \in Address, world \in World,
         Total(world.balance) < ValueLimit
  PROVE  Total(paidOut(a, beneficiary)) = Total(world.balance)
<1> DEFINE e == [world.balance EXCEPT ![a] = 0]
           y == (e[beneficiary] + world.balance[a]) % ValueLimit
           c == [e EXCEPT ![beneficiary] = y]
<1>1. /\ world.balance \in [Address -> Balance]
      /\ world.balance \in [Address -> Int] /\ Total(world.balance) \in Nat
      /\ world.balance[a] \in Nat /\ world.balance[beneficiary] \in Nat
  BY SupplyFacts, Zenon DEF World
<1>2. e \in [Address -> Balance] /\ 0 \in Int
  BY <1>1, LimitAssumption DEF Balance
<1>3. Total(e) = Total(world.balance) - world.balance[a]
  <2>1. Total(e) = Total(world.balance) - world.balance[a] + 0
    BY <1>1, <1>2, TotalUpdate, AddressListed
  <2>2. Total(e) \in Nat
    BY <1>2, SupplyFacts, Zenon
  <2> QED
    BY <1>1, <2>1, <2>2
<1>4. paidOut(a, beneficiary) = c
  BY Zenon DEF paidOut
<1> HIDE DEF e
<1>5. e[beneficiary] \in Nat /\ e[beneficiary] <= Total(e) /\ Total(e) \in Nat /\ e \in [Address -> Int]
  BY <1>2, SupplyFacts, Zenon
<1>6. y = e[beneficiary] + world.balance[a]
  <2>1. /\ e[beneficiary] + world.balance[a] \in Nat
        /\ e[beneficiary] + world.balance[a] < ValueLimit
    BY <1>1, <1>3, <1>5, LimitAssumption
  <2> QED
    BY <2>1, ValueModulo, Zenon
<1> HIDE DEF y
<1>7. y \in Int
  BY <1>1, <1>5, <1>6
<1>8. Total(c) = Total(e) - e[beneficiary] + y
  BY <1>5, <1>7, TotalUpdate, AddressListed, Zenon
<1> QED
  BY <1>1, <1>3, <1>4, <1>5, <1>6, <1>8

LEMMA SelfDestructEffect ==
  ASSUME IInv, NEW beneficiary \in Address, opSelfdestruct(beneficiary)
  PROVE  /\ phase = "run" /\ ops < MaxOps /\ ops' = ops + 1
         /\ top.refund + selfDestructRefund(top.recipient \notin world.destructed, revision) \in Int
         /\ \E w \in World :
              /\ w.nonce = world.nonce /\ w.storage = world.storage
              /\ w.balance = paidOut(top.recipient, beneficiary)
              /\ w.destructed = world.destructed \cup {top.recipient}
              /\ Return(lower, TRUE,
                   top.refund + selfDestructRefund(top.recipient \notin world.destructed, revision), w)
<1> DEFINE r == top.refund + selfDestructRefund(top.recipient \notin world.destructed, revision)
           b == paidOut(top.recipient, beneficiary)
           x == AccessAccount(world, beneficiary)
           v == [x EXCEPT !.balance = b, !.destructed = @ \cup {top.recipient}]
           u == [v EXCEPT !.code[top.recipient] = NoCode]
<1>1. phase = "run" /\ ops < MaxOps /\ ops' = ops + 1 /\ Succeed(v, r, NoCode, TRUE)
  BY Zenon DEF opSelfdestruct, Executes
<1>2. top \in Frame /\ world \in World
  BY <1>1, TopFacts, FrameFacts, Zenon
<1>3. top.refund \in Int /\ top.recipient \in Address
  BY <1>2 DEF Frame
<1>4. r \in Int
  BY <1>3 DEF selfDestructRefund
<1>5. b \in [Address -> Balance]
  <2> DEFINE e == [world.balance EXCEPT ![top.recipient] = 0]
             y == (e[beneficiary] + world.balance[top.recipient]) % ValueLimit
  <2>1. e \in [Address -> Balance] /\ world.balance[top.recipient] \in Balance
    BY <1>2, <1>3, LimitAssumption DEF World, Balance
  <2> HIDE DEF e
  <2>2. y \in Balance
    <3>1. e[beneficiary] + world.balance[top.recipient] \in Int /\ ValueLimit \in Nat \ {0}
      BY <2>1, LimitAssumption DEF Balance
    <3> QED
      BY <3>1, ModuloType, Zenon DEF Balance
  <2>3. b = [e EXCEPT ![beneficiary] = y]
    BY Zenon DEF paidOut, e
  <2> HIDE DEF y, b
  <2> QED
    BY <2>1, <2>2, <2>3, Zenon
<1> HIDE DEF b, r
<1>6. /\ v \in World /\ v.nonce = world.nonce /\ v.storage = world.storage
      /\ v.balance = b /\ v.destructed = world.destructed \cup {top.recipient}
  <2>1. /\ x \in World /\ x.nonce = world.nonce /\ x.storage = world.storage
        /\ x.destructed = world.destructed
    BY <1>2, AccessType, VisibleParts, Zenon
  <2> HIDE DEF x
  <2> QED
    BY <1>3, <1>5, <2>1, Zenon DEF World
<1> HIDE DEF v
<1>7. /\ u \in World /\ u.nonce = v.nonce /\ u.storage = v.storage
      /\ u.balance = v.balance /\ u.destructed = v.destructed
  BY <1>3, <1>6, Zenon DEF World, Code
<1>8. Return(lower, TRUE, r, v) \/ Return(lower, TRUE, r, u)
  BY <1>1, Zenon DEF Succeed
<1> HIDE DEF u
<1>9. \E w \in World :
              /\ w.nonce = world.nonce /\ w.storage = world.storage
              /\ w.balance = b
              /\ w.destructed = world.destructed \cup {top.recipient}
              /\ Return(lower, TRUE, r, w)
  BY <1>6, <1>7, <1>8, Zenon
<1> QED
  BY <1>1, <1>4, <1>9, Zenon DEF b, r

-----------------------------------------------------------------------------
(* An account under construction keeps a nonce.                               *)

\* The nonces do not come round within one transaction.
NoncesLast == MaxNonceIncrement * MaxOps + 2 <= NonceLimit

\* A nonce that was 1 when its account was created, at most n instructions ago.
Live(n) == {k \in Nat : k >= 1 /\ (NoncesLast => k <= MaxNonceIncrement * n + 1)}

\* The account of every create in progress has such a nonce in w, and in every
\* world a later frame may restore, and no later frame constructs it.
Marked(fs, w, n) ==
  \A i \in 1 .. Len(fs) : fs[i].kind \in CreateKinds =>
    /\ w.nonce[fs[i].recipient] \in Live(n)
    /\ \A j \in i + 1 .. Len(fs) :
         /\ fs[j].snapshot.nonce[fs[i].recipient] \in Live(n)
         /\ fs[j].kind \in CreateKinds => fs[j].recipient # fs[i].recipient

Survives(v, w, n, m) == \A a \in Address : v.nonce[a] \in Live(n) => w.nonce[a] \in Live(m)

LEMMA WearGrows ==
  ASSUME NEW n \in Nat, NEW m \in Nat, n <= m
  PROVE  /\ MaxNonceIncrement * n \in Nat /\ MaxNonceIncrement * m \in Nat
         /\ MaxNonceIncrement * n <= MaxNonceIncrement * m
         /\ MaxNonceIncrement * (n + 1) = MaxNonceIncrement * n + MaxNonceIncrement
<1>1. MaxNonceIncrement \in Nat
  BY LimitAssumption
<1>2. \A x \in Nat, y \in Nat : x * y \in Nat
  OBVIOUS
<1>3. \A x \in Nat, y \in Nat, z \in Nat : x * (y + z) = x * y + x * z
  OBVIOUS
<1>4. PICK d \in Nat : m = n + d
  <2>1. m - n \in Nat /\ m = n + (m - n)
    OBVIOUS
  <2> QED
    BY <2>1, Zenon
<1>5. MaxNonceIncrement * m = MaxNonceIncrement * n + MaxNonceIncrement * d
  BY <1>1, <1>3, <1>4, Zenon
<1>6. /\ MaxNonceIncrement * n \in Nat /\ MaxNonceIncrement * m \in Nat
      /\ MaxNonceIncrement * d \in Nat
  BY <1>1, <1>2, Zenon
<1>7. MaxNonceIncrement * (n + 1) = MaxNonceIncrement * n + MaxNonceIncrement
  BY <1>1
<1>8. \A x \in Nat, y \in Nat, z \in Nat : x = y + z => y <= x
  OBVIOUS
<1> QED
  BY <1>5, <1>6, <1>7, <1>8, Zenon

LEMMA LiveGrows ==
  ASSUME NEW n \in Nat, NEW m \in Nat, n <= m
  PROVE  \A k : k \in Live(n) => k \in Live(m)
<1> DEFINE x == MaxNonceIncrement * n
           y == MaxNonceIncrement * m
<1>1. x \in Nat /\ y \in Nat /\ x <= y
  BY WearGrows, Zenon
<1>2. /\ Live(n) = {k \in Nat : k >= 1 /\ (NoncesLast => k <= x + 1)}
      /\ Live(m) = {k \in Nat : k >= 1 /\ (NoncesLast => k <= y + 1)}
  BY Zenon DEF Live
<1> HIDE DEF x, y
<1> QED
  BY <1>1, <1>2

\* A call wears a nonce off by at most the limit of incNonce.
LEMMA MildSurvives ==
  ASSUME IInv, NoncesLast \/ DriverIdle, NEW w \in World, Mild(w), phase = "run", ops < MaxOps
  PROVE  Survives(world, w, ops, ops + 1)
<1>1. ASSUME NEW a \in Address, world.nonce[a] \in Live(ops)
      PROVE  w.nonce[a] \in Live(ops + 1)
  <2> DEFINE k == world.nonce[a]
             l == w.nonce[a]
             x == MaxNonceIncrement * ops
             y == MaxNonceIncrement * (ops + 1)
             z == MaxNonceIncrement * MaxOps
  <2>1. l \in {k} \cup Counted(k) /\ (DriverIdle => l >= k)
    BY Zenon DEF Mild, Counts, Ages
  <2>2. k \in Nat /\ k >= 1 /\ (NoncesLast => k <= x + 1) /\ k < NonceLimit
    BY <1>1, FrameFacts, NonceFacts, Zenon DEF Live
  <2>3. /\ l \in Nat /\ ops \in Nat /\ ops < MaxOps /\ MaxOps \in Nat /\ NonceLimit \in Nat \ {0, 1}
        /\ MaxNonceIncrement \in Nat \ {0}
    BY NonceFacts, FrameFacts, LimitAssumption, Zenon
  <2>4. ops + 1 \in Nat /\ ops + 1 <= MaxOps /\ ops <= ops
    BY <2>3
  <2>5. x \in Nat /\ y = x + MaxNonceIncrement /\ y \in Nat /\ z \in Nat /\ y <= z
    BY <2>3, <2>4, WearGrows, Zenon
  <2>6. Live(ops + 1) = {n \in Nat : n >= 1 /\ (NoncesLast => n <= y + 1)}
    BY Zenon DEF Live
  <2>7. NoncesLast <=> z + 2 <= NonceLimit
    BY Zenon DEF NoncesLast
  <2> HIDE DEF k, l, x, y, z
  <2>8. CASE NoncesLast
    <3>1. ASSUME NEW n \in 1 .. MaxNonceIncrement, l = (k + n) % NonceLimit
          PROVE  l >= 1 /\ l <= y + 1
      <4>1. k + n < NonceLimit /\ k + n \in Nat /\ k + n <= y + 1 /\ k + n >= 1
        BY <2>2, <2>3, <2>5, <2>7, <2>8
      <4>2. (k + n) % NonceLimit = k + n
        BY <2>3, <4>1
      <4> QED
        BY <3>1, <4>1, <4>2, Zenon
    <3>2. ASSUME l = k PROVE l >= 1 /\ l <= y + 1
      BY <2>2, <2>3, <2>5, <2>8, <3>2
    <3>3. \A m : m \in Counted(k) => \E n \in 1 .. MaxNonceIncrement : m = (k + n) % NonceLimit
      BY Zenon DEF Counted
    <3>4. l >= 1 /\ l <= y + 1
      BY <2>1, <3>1, <3>2, <3>3, Zenon
    <3>5. l \in Live(ops + 1)
      BY <2>3, <2>6, <3>4, Zenon
    <3> QED
      BY <3>5, Zenon DEF l
  <2>9. CASE ~NoncesLast /\ l >= k
    <3>1. l >= 1
      BY <2>2, <2>3, <2>9
    <3>2. l \in Live(ops + 1)
      BY <2>3, <2>6, <2>9, <3>1, Zenon
    <3> QED
      BY <3>2, Zenon DEF l
  <2> QED
    BY <2>1, <2>8, <2>9, Zenon
<1> QED
  BY <1>1, Zenon DEF Survives

LEMMA MarkedKept ==
  ASSUME NEW fs \in Seq(Frame), NEW gs, Similar(gs, fs), NEW v, NEW w,
         NEW n \in Nat, NEW m \in Nat, n <= m, Marked(fs, v, n), Survives(v, w, n, m)
  PROVE  Marked(gs, w, m)
<1>1. \A k : k \in Live(n) => k \in Live(m)
  BY LiveGrows, Zenon
<1>2. \A i \in 1 .. Len(fs) : fs[i] \in Frame
  OBVIOUS
<1>3. \A i \in 1 .. Len(fs) : fs[i].recipient \in Address
  BY <1>2, Zenon DEF Frame
<1>4. Len(gs) = Len(fs) /\ Len(fs) \in Nat
  BY DEF Similar
<1> SUFFICES ASSUME NEW i \in 1 .. Len(gs), gs[i].kind \in CreateKinds
             PROVE  /\ w.nonce[gs[i].recipient] \in Live(m)
                    /\ \A j \in i + 1 .. Len(gs) :
                         /\ gs[j].snapshot.nonce[gs[i].recipient] \in Live(m)
                         /\ gs[j].kind \in CreateKinds => gs[j].recipient # gs[i].recipient
  BY Zenon DEF Marked
<1>5. i \in 1 .. Len(fs) /\ fs[i].kind \in CreateKinds /\ gs[i].recipient = fs[i].recipient
  BY <1>4, Zenon DEF Similar
<1>6. /\ v.nonce[fs[i].recipient] \in Live(n)
      /\ \A j \in i + 1 .. Len(fs) :
           /\ fs[j].snapshot.nonce[fs[i].recipient] \in Live(n)
           /\ fs[j].kind \in CreateKinds => fs[j].recipient # fs[i].recipient
  BY <1>5, Zenon DEF Marked
<1>7. w.nonce[gs[i].recipient] \in Live(m)
  BY <1>3, <1>5, <1>6, Zenon DEF Survives
<1>8. ASSUME NEW j \in i + 1 .. Len(gs)
      PROVE  /\ gs[j].snapshot.nonce[gs[i].recipient] \in Live(m)
             /\ gs[j].kind \in CreateKinds => gs[j].recipient # gs[i].recipient
  <2>1. j \in 1 .. Len(fs) /\ j \in i + 1 .. Len(fs)
    BY <1>4, <1>5
  <2>2. gs[j].snapshot = fs[j].snapshot /\ gs[j].kind = fs[j].kind /\ gs[j].recipient = fs[j].recipient
    BY <2>1, Zenon DEF Similar
  <2> QED
    BY <1>1, <1>5, <1>6, <2>1, <2>2, Zenon
<1> QED
  BY <1>7, <1>8, Zenon

LEMMA MarkedLower ==
  ASSUME IInv, phase = "run", NEW n \in Nat, Marked(frames, world, n)
  PROVE  Marked(lower, world, n) /\ Marked(lower, top.snapshot, n)
<1>1. /\ Len(frames) \in Nat \ {0} /\ Len(lower) = Len(frames) - 1
      /\ \A i \in 1 .. Len(frames) - 1 : lower[i] = frames[i]
  BY TopFacts, Zenon
<1>2. ASSUME NEW i \in 1 .. Len(lower), lower[i].kind \in CreateKinds
      PROVE  /\ world.nonce[lower[i].recipient] \in Live(n)
             /\ top.snapshot.nonce[lower[i].recipient] \in Live(n)
             /\ \A j \in i + 1 .. Len(lower) :
                  /\ lower[j].snapshot.nonce[lower[i].recipient] \in Live(n)
                  /\ lower[j].kind \in CreateKinds => lower[j].recipient # lower[i].recipient
  <2>1. i \in 1 .. Len(frames) /\ lower[i] = frames[i] /\ Len(frames) \in i + 1 .. Len(frames)
    BY <1>1
  <2>2. \A j \in i + 1 .. Len(lower) : j \in i + 1 .. Len(frames) /\ lower[j] = frames[j]
    BY <1>1, <2>1
  <2> QED
    BY <1>2, <2>1, <2>2, Zenon DEF Marked, top
<1> QED
  BY <1>2, Zenon DEF Marked

LEMMA MarkedPush ==
  ASSUME NEW fs \in Seq(Frame), NEW f \in Frame, NEW v, NEW w, NEW n \in Nat,
         Marked(fs, w, n), Marked(fs, v, n), Marked(fs, f.snapshot, n),
         f.kind \in CreateKinds => v.nonce[f.recipient] = 0 /\ w.nonce[f.recipient] = 1
  PROVE  Marked(Append(fs, f), w, n)
<1> DEFINE gs == Append(fs, f)
<1>1. /\ Len(fs) \in Nat /\ Len(gs) = Len(fs) + 1
      /\ \A i \in 1 .. Len(fs) : gs[i] = fs[i]
      /\ gs[Len(fs) + 1] = f
  BY PushProperties
<1> HIDE DEF gs
<1>2. 1 \in Live(n) /\ 0 \notin Live(n)
  <2> DEFINE x == MaxNonceIncrement * n
  <2>1. x \in Nat /\ Live(n) = {k \in Nat : k >= 1 /\ (NoncesLast => k <= x + 1)}
    BY WearGrows DEF Live
  <2> HIDE DEF x
  <2> QED
    BY <2>1
<1> SUFFICES ASSUME NEW i \in 1 .. Len(gs), gs[i].kind \in CreateKinds
             PROVE  /\ w.nonce[gs[i].recipient] \in Live(n)
                    /\ \A j \in i + 1 .. Len(gs) :
                         /\ gs[j].snapshot.nonce[gs[i].recipient] \in Live(n)
                         /\ gs[j].kind \in CreateKinds => gs[j].recipient # gs[i].recipient
  BY Zenon DEF Marked, gs
<1>3. CASE i = Len(fs) + 1
  <2>1. i + 1 .. Len(gs) = {}
    BY <1>1, <1>3
  <2> QED
    BY <1>1, <1>2, <1>3, <2>1, Zenon
<1>4. CASE i \in 1 .. Len(fs)
  <2>1. gs[i] = fs[i]
    BY <1>1, <1>4, Zenon
  <2>2. /\ w.nonce[fs[i].recipient] \in Live(n)
        /\ v.nonce[fs[i].recipient] \in Live(n)
        /\ f.snapshot.nonce[fs[i].recipient] \in Live(n)
        /\ \A j \in i + 1 .. Len(fs) :
             /\ fs[j].snapshot.nonce[fs[i].recipient] \in Live(n)
             /\ fs[j].kind \in CreateKinds => fs[j].recipient # fs[i].recipient
    BY <1>4, <2>1, Zenon DEF Marked
  <2>3. ASSUME NEW j \in i + 1 .. Len(gs)
        PROVE  /\ gs[j].snapshot.nonce[fs[i].recipient] \in Live(n)
               /\ gs[j].kind \in CreateKinds => gs[j].recipient # fs[i].recipient
    <3>1. CASE j = Len(fs) + 1
      BY <1>1, <1>2, <2>2, <3>1, Zenon
    <3>2. CASE j # Len(fs) + 1
      <4>1. j \in i + 1 .. Len(fs) /\ j \in 1 .. Len(fs)
        BY <1>1, <1>4, <3>2
      <4> QED
        BY <1>1, <2>2, <4>1, Zenon
    <3> QED
      BY <3>1, <3>2, Zenon
  <2> QED
    BY <2>1, <2>2, <2>3, Zenon
<1> QED
  BY <1>1, <1>3, <1>4

LEMMA MarkedReturn ==
  ASSUME NEW fs \in Seq(Frame), NEW success, NEW r \in Int, NEW v, NEW w, Return(fs, success, r, w),
         NEW n \in Nat, NEW m \in Nat, n <= m, Marked(fs, v, n), Survives(v, w, n, m)
  PROVE  Marked(frames', world', m)
<1>1. Similar(frames', fs) /\ world' = w
  BY ReturnSimilar, Zenon
<1> QED
  BY <1>1, MarkedKept, Zenon

LEMMA MarkedNext ==
  ASSUME Induction, IInv, Marked(frames, world, ops), NoncesLast \/ DriverIdle, [Next]_vars
  PROVE  Marked(frames', world', ops')
<1>1. /\ frames \in Seq(Frame) /\ ops \in Nat /\ ops + 1 \in Nat /\ ops <= ops /\ ops <= ops + 1
      /\ world \in World /\ 0 \in Int
      /\ phase = "run" => lower \in Seq(Frame)
  BY FrameFacts, TopFacts
<1>2. \A v : Survives(v, v, ops, ops) /\ Survives(v, v, ops, ops + 1)
  BY <1>1, LiveGrows, Zenon DEF Survives
<1>3. ASSUME NEW v, NEW w, w.nonce = v.nonce
      PROVE  Survives(v, w, ops, ops) /\ Survives(v, w, ops, ops + 1)
  BY <1>2, <1>3, Zenon DEF Survives
<1>4. Similar(frames, frames)
  BY <1>1, Zenon DEF Similar
<1>5. CASE Calls
  <2>1. /\ Idles \/ Comes \/ Enters
        /\ phase # "start" => phase = "run" /\ ops < MaxOps /\ ops' = ops + 1
        /\ phase = "start" => ops' = ops
    BY <1>5, CallsCases, Zenon
  <2>2. CASE phase = "start"
    <3>1. frames = <<>> /\ \A v : Marked(<<>>, v, ops)
      BY <2>2, FrameFacts DEF Marked
    <3>2. CASE Idles
      BY <2>1, <2>2, <3>1, <3>2, Zenon DEF Idles
    <3>3. CASE Comes
      <4>1. PICK success \in BOOLEAN, w \in World : Return(frames, success, 0, w)
        BY <3>3, Zenon DEF Comes
      <4>2. frames' = <<>>
        BY <1>1, <3>1, <4>1, ReturnSimilar, Zenon
      <4> QED
        BY <2>1, <2>2, <3>1, <4>2, Zenon
    <3>4. CASE Enters
      <4>1. PICK f \in Frame, w \in World :
              /\ f.kind \in CreateKinds => world.nonce[f.recipient] = 0 /\ w.nonce[f.recipient] = 1
              /\ world' = w /\ frames' = Append(frames, f)
        BY <3>4, Zenon DEF Enters
      <4> QED
        BY <1>1, <2>1, <2>2, <3>1, <4>1, MarkedPush, Zenon
    <3> QED
      BY <2>1, <3>2, <3>3, <3>4, Zenon
  <2>3. CASE phase = "run"
    <3>1. ops < MaxOps /\ ops' = ops + 1
      BY <2>1, <2>3, Zenon
    <3>2. CASE Idles
      <4>1. frames' = frames /\ world'.nonce = world.nonce
        BY <3>2, VisibleParts, Zenon DEF Idles
      <4>2. Survives(world, world', ops, ops + 1)
        BY <1>3, <4>1, Zenon
      <4> QED
        BY <1>1, <1>4, <3>1, <4>1, <4>2, MarkedKept, Zenon
    <3>3. CASE Comes
      <4>1. PICK success \in BOOLEAN, w \in World : Mild(w) /\ Return(frames, success, 0, w)
        BY <3>3, Zenon DEF Comes
      <4>2. Survives(world, w, ops, ops + 1)
        BY <2>3, <3>1, <4>1, MildSurvives, Zenon
      <4>3. Marked(frames', world', ops + 1)
        BY <1>1, <4>1, <4>2, MarkedReturn, Zenon
      <4> QED
        BY <3>1, <4>3, Zenon
    <3>4. CASE Enters
      <4>1. PICK f \in Frame, w \in World :
              /\ Mild(w) /\ Mild(f.snapshot)
              /\ f.kind \in CreateKinds => world.nonce[f.recipient] = 0 /\ w.nonce[f.recipient] = 1
              /\ world' = w /\ frames' = Append(frames, f)
        BY <3>4, Zenon DEF Enters
      <4>2. f.snapshot \in World
        BY Zenon DEF Frame
      <4>3. Survives(world, w, ops, ops + 1) /\ Survives(world, f.snapshot, ops, ops + 1)
        BY <2>3, <3>1, <4>1, <4>2, MildSurvives, Zenon
      <4>4. /\ Marked(frames, w, ops + 1) /\ Marked(frames, world, ops + 1)
            /\ Marked(frames, f.snapshot, ops + 1)
        BY <1>1, <1>2, <1>4, <4>3, MarkedKept, Zenon
      <4> QED
        BY <1>1, <3>1, <4>1, <4>4, MarkedPush, Zenon
    <3> QED
      BY <2>1, <3>2, <3>3, <3>4
  <2> QED
    BY <2>1, <2>2, <2>3, Zenon
<1>6. ASSUME NEW new \in Word, opSstore(new)
      PROVE  Marked(frames', world', ops')
  <2>1. ops' = ops + 1 /\ world'.nonce = world.nonce /\ Similar(frames', frames)
    BY <1>6, SstoreEffect, Zenon
  <2>2. Survives(world, world', ops, ops + 1)
    BY <1>3, <2>1, Zenon
  <2> QED
    BY <1>1, <2>1, <2>2, MarkedKept, Zenon
<1>7. CASE opLog
  <2>1. ops' = ops + 1 /\ world'.nonce = world.nonce /\ frames' = frames
    BY <1>7, LogEffect, Zenon
  <2>2. Survives(world, world', ops, ops + 1)
    BY <1>3, <2>1, Zenon
  <2> QED
    BY <1>1, <1>4, <2>1, <2>2, MarkedKept, Zenon
<1>8. ASSUME NEW beneficiary \in Address, opSelfdestruct(beneficiary)
      PROVE  Marked(frames', world', ops')
  <2> DEFINE r == top.refund + selfDestructRefund(top.recipient \notin world.destructed, revision)
  <2>1. phase = "run" /\ ops' = ops + 1 /\ r \in Int
    BY <1>8, SelfDestructEffect, Zenon
  <2>2. PICK w \in World : w.nonce = world.nonce /\ Return(lower, TRUE, r, w)
    BY <1>8, SelfDestructEffect, Zenon
  <2> HIDE DEF r
  <2>3. Marked(lower, world, ops)
    BY <1>1, <2>1, MarkedLower, Zenon
  <2>4. Survives(world, w, ops, ops + 1)
    BY <1>3, <2>2, Zenon
  <2>5. Marked(frames', world', ops + 1)
    BY <1>1, <2>1, <2>2, <2>3, <2>4, MarkedReturn, Zenon
  <2> QED
    BY <2>1, <2>5, Zenon
<1>9. ASSUME NEW output \in Code, NEW deployable \in DeployResults, Stop(output, deployable)
      PROVE  Marked(frames', world', ops')
  <2>1. /\ phase = "run" /\ ops' = ops /\ top.refund \in Int
        /\ \/ \E w \in World : SameState(w, world) /\ Return(lower, TRUE, top.refund, w)
           \/ Return(lower, FALSE, top.refund, top.snapshot)
    BY <1>9, StopEffect, Zenon
  <2>2. Marked(lower, world, ops) /\ Marked(lower, top.snapshot, ops)
    BY <1>1, <2>1, MarkedLower, Zenon
  <2>3. ASSUME NEW w \in World, SameState(w, world), Return(lower, TRUE, top.refund, w)
        PROVE  Marked(frames', world', ops)
    <3>1. Survives(world, w, ops, ops)
      BY <1>3, <2>3, Zenon DEF SameState
    <3> QED
      BY <1>1, <2>1, <2>2, <2>3, <3>1, MarkedReturn, Zenon
  <2>4. CASE Return(lower, FALSE, top.refund, top.snapshot)
    <3>1. Marked(frames', world', ops)
      BY <1>1, <1>2, <2>1, <2>2, <2>4, MarkedReturn, Zenon
    <3> QED
      BY <2>1, <3>1, Zenon
  <2> QED
    BY <2>1, <2>3, <2>4, Zenon
<1>10. CASE Fail
  <2>1. phase = "run" /\ ops' = ops /\ Return(lower, FALSE, 0, top.snapshot)
    BY <1>10, FailEffect, Zenon
  <2>2. Marked(lower, top.snapshot, ops)
    BY <1>1, <2>1, MarkedLower, Zenon
  <2>3. Marked(frames', world', ops)
    BY <1>1, <1>2, <2>1, <2>2, MarkedReturn, Zenon
  <2> QED
    BY <2>1, <2>3, Zenon
<1>11. CASE UNCHANGED vars
  BY <1>11, Zenon DEF vars
<1> QED
  BY <1>5, <1>6, <1>7, <1>8, <1>9, <1>10, <1>11, NextCases, Zenon

LEMMA MarkedInit ==
  ASSUME Init
  PROVE  Marked(frames, world, ops)
BY DEF Init, Marked

LEMMA MarkedExcludes ==
  ASSUME IInv, Marked(frames, world, ops)
  PROVE  ConstructionIsExclusive
<1>1. DOMAIN frames = 1 .. Len(frames) /\ Len(frames) \in Nat
  BY FrameFacts
<1>3. ASSUME NEW i \in DOMAIN frames, NEW j \in DOMAIN frames, j # i,
             frames[i].kind \in CreateKinds, frames[j].kind \in CreateKinds
      PROVE  frames[j].recipient # frames[i].recipient
  <2>1. CASE i < j
    <3>1. j \in i + 1 .. Len(frames)
      BY <1>1, <2>1
    <3> QED
      BY <1>1, <1>3, <3>1, Zenon DEF Marked
  <2>2. CASE j < i
    <3>1. i \in j + 1 .. Len(frames)
      BY <1>1, <2>2
    <3> QED
      BY <1>1, <1>3, <3>1, Zenon DEF Marked
  <2> QED
    BY <1>1, <1>3, <2>1, <2>2
<1> QED
  BY <1>3, Zenon DEF ConstructionIsExclusive

-----------------------------------------------------------------------------
(* No step creates or destroys value.                                         *)

\* The balances of a block chain add up to less than 2^256.
SupplyFits == \A w \in Worlds : Supply(w) < ValueLimit

\* Every world that may come back holds as much value as the current one.
Steady(fs, w) ==
  /\ Supply(w) < ValueLimit
  /\ \A i \in 1 .. Len(fs) : Supply(fs[i].snapshot) = Supply(w)

LEMMA SteadyReturn ==
  ASSUME NEW fs \in Seq(Frame), NEW success, NEW r \in Int, NEW w, Return(fs, success, r, w),
         Steady(fs, world), Supply(w) = Supply(world)
  PROVE  Steady(frames', world') /\ Supply(world') = Supply(world)
<1>1. Similar(frames', fs) /\ world' = w
  BY ReturnSimilar, Zenon
<1> QED
  BY <1>1, Zenon DEF Steady, Similar

LEMMA SteadyNext ==
  ASSUME Induction, IInv, Steady(frames, world), DriverIdle, [Next]_vars
  PROVE  Steady(frames', world') /\ Supply(world') = Supply(world)
<1> DEFINE Goal == Steady(frames', world') /\ Supply(world') = Supply(world)
<1> SUFFICES Goal
  BY Zenon
<1>1. /\ frames \in Seq(Frame) /\ world \in World /\ 0 \in Int
      /\ phase = "run" => lower \in Seq(Frame) /\ Steady(lower, world) /\ Supply(top.snapshot) = Supply(world)
  <2>1. frames \in Seq(Frame) /\ world \in World
    BY FrameFacts, Zenon
  <2>2. CASE phase = "run"
    <3>1. /\ lower \in Seq(Frame) /\ Len(frames) \in Nat \ {0} /\ Len(lower) = Len(frames) - 1
          /\ \A i \in 1 .. Len(frames) - 1 : lower[i] = frames[i]
      BY <2>2, TopFacts, Zenon
    <3>2. \A i \in 1 .. Len(lower) : i \in 1 .. Len(frames) /\ lower[i] = frames[i]
      BY <3>1
    <3>3. Len(frames) \in 1 .. Len(frames)
      BY <3>1
    <3> QED
      BY <2>1, <3>1, <3>2, <3>3 DEF Steady, top
  <2> QED
    BY <2>1, <2>2
<1>2. \A w : Mild(w) => Supply(w) = Supply(world)
  BY Zenon DEF Mild, Conserves, Steady
<1>3. CASE Calls
  <2>1. Idles \/ Comes \/ Enters
    BY <1>3, CallsCases, Zenon
  <2>2. CASE Idles
    <3>1. frames' = frames /\ world'.balance = world.balance
      BY <2>2, VisibleParts, Zenon DEF Idles
    <3> QED
      BY <3>1, Zenon DEF Steady, Supply
  <2>3. CASE Comes
    <3>1. PICK success \in BOOLEAN, w \in World : Mild(w) /\ Return(frames, success, 0, w)
      BY <2>3, Zenon DEF Comes
    <3> QED
      BY <1>1, <1>2, <3>1, SteadyReturn, Zenon
  <2>4. CASE Enters
    <3>1. PICK f \in Frame, w \in World :
            Mild(w) /\ Mild(f.snapshot) /\ world' = w /\ frames' = Append(frames, f)
      BY <2>4, Zenon DEF Enters
    <3>2. /\ Len(frames) \in Nat /\ Len(frames') = Len(frames) + 1
          /\ \A i \in 1 .. Len(frames) : frames'[i] = frames[i]
          /\ frames'[Len(frames) + 1] = f
      BY <1>1, <3>1, PushProperties
    <3>3. \A i \in 1 .. Len(frames') : i \in 1 .. Len(frames) \/ i = Len(frames) + 1
      BY <3>2
    <3> QED
      BY <1>2, <3>1, <3>2, <3>3, Zenon DEF Steady
  <2> QED
    BY <2>1, <2>2, <2>3, <2>4, Zenon
<1>4. ASSUME NEW new \in Word, opSstore(new)
      PROVE  Goal
  <2>1. world'.balance = world.balance /\ Similar(frames', frames)
    BY <1>4, SstoreEffect, Zenon
  <2> QED
    BY <2>1, Zenon DEF Steady, Similar, Supply
<1>5. CASE opLog
  <2>1. world'.balance = world.balance /\ frames' = frames
    BY <1>5, LogEffect, Zenon
  <2> QED
    BY <2>1, Zenon DEF Steady, Supply
<1>6. ASSUME NEW beneficiary \in Address, opSelfdestruct(beneficiary)
      PROVE  Goal
  <2> DEFINE r == top.refund + selfDestructRefund(top.recipient \notin world.destructed, revision)
  <2>1. phase = "run" /\ r \in Int
    BY <1>6, SelfDestructEffect, Zenon
  <2>2. PICK w \in World : w.balance = paidOut(top.recipient, beneficiary) /\ Return(lower, TRUE, r, w)
    BY <1>6, SelfDestructEffect, Zenon
  <2> HIDE DEF r
  <2>3. top.recipient \in Address
    BY <2>1, TopFacts, Zenon DEF Frame
  <2>4. Supply(w) = Supply(world)
    BY <1>1, <2>2, <2>3, PaidOutSupply DEF Steady, Supply
  <2> QED
    BY <1>1, <2>1, <2>2, <2>4, SteadyReturn, Zenon
<1>7. ASSUME NEW output \in Code, NEW deployable \in DeployResults, Stop(output, deployable)
      PROVE  Goal
  <2>1. /\ phase = "run" /\ top.refund \in Int
        /\ \/ \E w \in World : SameState(w, world) /\ Return(lower, TRUE, top.refund, w)
           \/ Return(lower, FALSE, top.refund, top.snapshot)
    BY <1>7, StopEffect, Zenon
  <2>2. ASSUME NEW w \in World, SameState(w, world), Return(lower, TRUE, top.refund, w)
        PROVE  Goal
    <3>1. Supply(w) = Supply(world)
      BY <2>2, Zenon DEF SameState, Supply
    <3> QED
      BY <1>1, <2>1, <2>2, <3>1, SteadyReturn, Zenon
  <2>3. CASE Return(lower, FALSE, top.refund, top.snapshot)
    BY <1>1, <2>1, <2>3, SteadyReturn, Zenon
  <2> QED
    BY <2>1, <2>2, <2>3, Zenon
<1>8. CASE Fail
  <2>1. phase = "run" /\ Return(lower, FALSE, 0, top.snapshot)
    BY <1>8, FailEffect, Zenon
  <2> QED
    BY <1>1, <2>1, SteadyReturn, Zenon
<1>9. CASE UNCHANGED vars
  BY <1>9, Zenon DEF vars
<1> HIDE DEF Goal
<1> QED
  BY <1>3, <1>4, <1>5, <1>6, <1>7, <1>8, <1>9, NextCases, Zenon

-----------------------------------------------------------------------------
(* The scattered refund counters implement the journalled one.                *)

\* The most a single instruction moves the counter.
MostEarned == 24000

\* The instructions of the transaction cannot earn more than the bound on the
\* refund.
RefundsFit == MostEarned * MaxOps <= MaxRefund /\ MaxRefund \in Nat

\* What any number of frames earned: no more than n instructions can.
Bounded(fs, n) == \A k \in 0 .. Len(fs) : Earned(fs, k) <= MostEarned * n

\* Journal has the rules of the fees that this module has.
LEMMA SameRules ==
  /\ \A r, status : Journal!getRefundForSstore(r, status) = getRefundForSstore(r, status)
  /\ \A o, c, n : Journal!GetStorageStatus(o, c, n) = GetStorageStatus(o, c, n)
  /\ \A d, r : Journal!selfDestructRefund(d, r) = selfDestructRefund(d, r)
<1>1. \A r : Journal!ClearRefund(r) = ClearRefund(r) /\ Journal!RestoreRefund(r) = RestoreRefund(r)
  BY DEF ClearRefund, Journal!ClearRefund, RestoreRefund, Journal!RestoreRefund,
         R10_London, Journal!R10_London, R09_Berlin, Journal!R09_Berlin
<1>2. \A r, status : Journal!getRefundForSstore(r, status) = getRefundForSstore(r, status)
  BY <1>1 DEF getRefundForSstore, Journal!getRefundForSstore, R09_Berlin, Journal!R09_Berlin
<1>3. \A o, c, n : Journal!GetStorageStatus(o, c, n) = GetStorageStatus(o, c, n)
  BY DEF GetStorageStatus, Journal!GetStorageStatus, Zero, Journal!Zero
<1>4. \A d, r : Journal!selfDestructRefund(d, r) = selfDestructRefund(d, r)
  BY DEF selfDestructRefund, Journal!selfDestructRefund, R10_London, Journal!R10_London
<1> QED
  BY <1>2, <1>3, <1>4

LEMMA EarnedBySstore ==
  ASSUME NEW r, NEW status
  PROVE  getRefundForSstore(r, status) \in Int /\ getRefundForSstore(r, status) <= MostEarned
BY DEF getRefundForSstore, ClearRefund, RestoreRefund, MostEarned

LEMMA EarnedBySelfDestruct ==
  ASSUME NEW d, NEW r
  PROVE  selfDestructRefund(d, r) \in Nat /\ selfDestructRefund(d, r) <= MostEarned
BY DEF selfDestructRefund, MostEarned

\* What the first k of the frames earned.
LEMMA EarnedTypes ==
  ASSUME Induction, NEW fs \in Seq(Frame)
  PROVE  /\ Earned(fs, 0) = 0 /\ Len(fs) \in Nat
         /\ \A k \in 0 .. Len(fs) : Earned(fs, k) \in Int
         /\ \A k \in 1 .. Len(fs) : Earned(fs, k) = Earned(fs, k - 1) + fs[k].refund
<1>1. \A i \in 1 .. Len(fs) : fs[i] \in Frame
  OBVIOUS
<1>2. Len(fs) \in Nat /\ \A i \in 1 .. Len(fs) : fs[i].refund \in Int
  BY <1>1 DEF Frame
<1>3. /\ Earned(fs, 0) = 0
      /\ \A k \in 0 .. Len(fs) : Earned(fs, k) \in Int
      /\ \A k \in 0 .. Len(fs) - 1 : Earned(fs, k + 1) = Earned(fs, k) + fs[k + 1].refund
  BY <1>2, EarnedFacts, Zenon
<1>4. ASSUME NEW k \in 1 .. Len(fs)
      PROVE  Earned(fs, k) = Earned(fs, k - 1) + fs[k].refund
  <2>1. k - 1 \in 0 .. Len(fs) - 1 /\ (k - 1) + 1 = k
    BY <1>2
  <2> QED
    BY <1>3, <2>1, Zenon
<1> QED
  BY <1>2, <1>3, <1>4, Zenon

\* The shape of the journal.
LEMMA EntriesShape ==
  ASSUME Induction, NEW fs \in Seq(Frame)
  PROVE  /\ Entries(fs) \in Seq(Journal!Snapshot)
         /\ Len(Entries(fs)) = Len(fs)
         /\ \A i \in 1 .. Len(fs) : Entries(fs)[i] = Entry(fs, i)
<1>1. DOMAIN fs = 1 .. Len(fs) /\ Len(fs) \in Nat
  OBVIOUS
<1>2. ASSUME NEW i \in 1 .. Len(fs)
      PROVE  Entry(fs, i) \in Journal!Snapshot
  <2>1. fs[i] \in Frame
    OBVIOUS
  <2>2. fs[i].snapshot \in World
    BY <2>1, Zenon DEF Frame
  <2>3. i - 1 \in 0 .. Len(fs)
    BY <1>1
  <2>4. Earned(fs, i - 1) \in Int
    BY <2>3, EarnedTypes, Zenon
  <2> QED
    BY <2>2, <2>4, Zenon DEF Entry, World, Journal!Snapshot, Journal!Storage
<1>3. Entries(fs) \in [1 .. Len(fs) -> Journal!Snapshot]
  BY <1>1, <1>2, Zenon DEF Entries
<1> QED
  BY <1>1, <1>3 DEF Entries

\* Two stacks whose frames agree up to k, but for the refund of the k-th.
Alike(gs, fs, k) ==
  /\ \A i \in 1 .. k : gs[i].snapshot = fs[i].snapshot
  /\ \A i \in 1 .. k - 1 : gs[i].refund = fs[i].refund

LEMMA EntriesKeep ==
  ASSUME NEW fs, NEW gs, NEW k \in Nat, Alike(gs, fs, k)
  PROVE  /\ \A i \in 1 .. k : Entry(gs, i) = Entry(fs, i)
         /\ \A i \in 0 .. k - 1 : Earned(gs, i) = Earned(fs, i)
<1>1. ASSUME NEW i \in 0 .. k - 1 PROVE Earned(gs, i) = Earned(fs, i)
  <2>1. i \in Nat /\ \A j \in 1 .. i : gs[j].refund = fs[j].refund
    BY DEF Alike
  <2> QED
    BY <2>1, EarnedSame, Zenon
<1>2. ASSUME NEW i \in 1 .. k PROVE Entry(gs, i) = Entry(fs, i)
  <2>1. i - 1 \in 0 .. k - 1
    OBVIOUS
  <2> QED
    BY <1>1, <2>1, Zenon DEF Entry, Alike
<1> QED
  BY <1>1, <1>2, Zenon

\* Nothing the journal knows of changes.
LEMMA QuietStep ==
  ASSUME Induction, IInv, frames' = frames, phase # "done",
         phase' = "done" => frames' = <<>> /\ result'.refund = 0,
         world'.storage = world.storage, world'.destructed = world.destructed,
         UNCHANGED <<revision, original>>
  PROVE  UNCHANGED Journal!vars
<1>1. frames \in Seq(Frame)
  BY FrameFacts, Zenon
<1>2. Earned(frames, 0) = 0 /\ Len(<<>>) = 0
  BY <1>1, EarnedTypes, Zenon
<1>3. TransactionRefund(frames', phase', result') = TransactionRefund(frames, phase, result)
  BY <1>2, Zenon DEF TransactionRefund
<1> QED
  BY <1>3, Zenon DEF Journal!vars

\* A call returns before any code runs.
LEMMA ComesQuietly ==
  ASSUME Induction, IInv, phase # "done", NEW success, NEW w, Return(frames, success, 0, w),
         w.storage = world.storage, w.destructed = world.destructed,
         UNCHANGED <<revision, original>>
  PROVE  /\ UNCHANGED Journal!vars
         /\ Len(frames') = Len(frames)
         /\ \A k \in 0 .. Len(frames) : Earned(frames', k) = Earned(frames, k)
<1>1. frames \in Seq(Frame) /\ 0 \in Int /\ Len(frames) \in Nat
      /\ \A i \in 1 .. Len(frames) : frames[i].refund \in Int
  BY FrameFacts
<1>2. /\ Similar(frames', frames) /\ world' = w
      /\ result' = [success |-> success, refund |-> 0]
      /\ frames = <<>> => phase' = "done" /\ frames' = <<>>
      /\ frames # <<>> => phase' = "run" /\ frames'[Len(frames)].refund = frames[Len(frames)].refund + 0
      /\ \A i \in 1 .. Len(frames) : i # Len(frames) => frames'[i] = frames[i]
  BY <1>1, ReturnSimilar, Zenon
<1>3. frames' \in Seq(Frame) /\ Len(frames') = Len(frames)
      /\ \A i \in 1 .. Len(frames) : frames'[i].snapshot = frames[i].snapshot
  BY <1>2, Zenon DEF Similar
<1>4. \A i \in 1 .. Len(frames) : frames'[i].refund = frames[i].refund
  <2>1. ASSUME NEW i \in 1 .. Len(frames) PROVE frames'[i].refund = frames[i].refund
    <3>1. CASE i = Len(frames)
      <4>1. frames # <<>> /\ frames[i].refund \in Int
        BY <1>1, <3>1
      <4> QED
        BY <1>2, <3>1, <4>1
    <3>2. CASE i # Len(frames)
      BY <1>2, <3>2, Zenon
    <3> QED
      BY <3>1, <3>2, Zenon
  <2> QED
    BY <2>1, Zenon
<1>5. \A k \in 0 .. Len(frames) : Earned(frames', k) = Earned(frames, k)
  <2>1. ASSUME NEW k \in 0 .. Len(frames) PROVE Earned(frames', k) = Earned(frames, k)
    <3>1. k \in Nat /\ \A i \in 1 .. k : frames'[i].refund = frames[i].refund
      BY <1>1, <1>4
    <3> QED
      BY <3>1, EarnedSame, Zenon
  <2> QED
    BY <2>1, Zenon
<1>6. Entries(frames') = Entries(frames)
  <2> DEFINE n == Len(frames)
  <2>1. \A i \in 1 .. n : Entry(frames', i) = Entry(frames, i)
    <3>1. n \in Nat /\ Alike(frames', frames, n)
      BY <1>1, <1>3, <1>4 DEF Alike
    <3> QED
      BY <3>1, EntriesKeep, Zenon
  <2>2. DOMAIN frames = 1 .. n /\ DOMAIN frames' = 1 .. n
    BY <1>1, <1>3
  <2> QED
    BY <2>1, <2>2, Zenon DEF Entries
<1>7. TransactionRefund(frames', phase', result') = TransactionRefund(frames, phase, result)
  <2>1. CASE frames = <<>>
    <3>1. phase' = "done" /\ result'.refund = 0 /\ Len(frames) = 0
      BY <1>2, <2>1, Zenon
    <3> QED
      BY <1>1, <3>1, EarnedTypes, Zenon DEF TransactionRefund
  <2>2. CASE frames # <<>>
    <3>1. phase' = "run" /\ Len(frames) \in 0 .. Len(frames)
      BY <1>1, <1>2, <2>2
    <3> QED
      BY <1>3, <1>5, <3>1, Zenon DEF TransactionRefund
  <2> QED
    BY <2>1, <2>2, Zenon
<1> QED
  BY <1>2, <1>3, <1>5, <1>6, <1>7, Zenon DEF Journal!vars

\* A call starts to run code: Begin.
LEMMA EntersBegin ==
  ASSUME Induction, IInv, phase # "done", NEW f \in Frame, NEW w,
         w.storage = world.storage, w.destructed = world.destructed,
         f.snapshot.storage = world.storage, f.snapshot.destructed = world.destructed,
         f.refund = 0, depth <= MaxRecursiveDepth,
         world' = w, frames' = Append(frames, f), phase' = "run",
         UNCHANGED <<revision, original>>
  PROVE  /\ Journal!Begin
         /\ Len(frames') = Len(frames) + 1
         /\ \A k \in 0 .. Len(frames) : Earned(frames', k) = Earned(frames, k)
         /\ Earned(frames', Len(frames) + 1) = Earned(frames, Len(frames))
<1> DEFINE n == Len(frames)
<1>1. frames \in Seq(Frame) /\ n \in Nat /\ depth = n /\ depth \in Nat
  BY FrameFacts, Zenon DEF IInv, BookkeepingIsExact
<1>2. /\ frames' \in Seq(Frame) /\ Len(frames') = n + 1
      /\ \A i \in 1 .. n : frames'[i] = frames[i]
      /\ frames'[n + 1] = f
  BY <1>1, PushProperties
<1>3. \A k \in 0 .. n : Earned(frames', k) = Earned(frames, k)
  <2>1. ASSUME NEW k \in 0 .. n PROVE Earned(frames', k) = Earned(frames, k)
    <3>1. k \in Nat /\ \A i \in 1 .. k : frames'[i].refund = frames[i].refund
      BY <1>1, <1>2
    <3> QED
      BY <3>1, EarnedSame, Zenon
  <2> QED
    BY <2>1, Zenon
<1>4. Earned(frames', n + 1) = Earned(frames, n)
  <2>1. n + 1 \in 1 .. Len(frames') /\ (n + 1) - 1 = n /\ n \in 0 .. n
    BY <1>1, <1>2
  <2>2. Earned(frames', n + 1) = Earned(frames', n) + 0
    BY <1>2, <2>1, EarnedTypes, Zenon
  <2>3. Earned(frames, n) \in Int
    BY <1>1, <2>1, EarnedTypes, Zenon
  <2> QED
    BY <1>3, <2>1, <2>2, <2>3
<1>5. TransactionRefund(frames, phase, result) = Earned(frames, n)
      /\ TransactionRefund(frames', phase', result') = Earned(frames, n)
  BY <1>2, <1>4, Zenon DEF TransactionRefund
<1>6. Entries(frames') = Append(Entries(frames), Journal!Now)
  <2> DEFINE q == Entries(frames)
             e == Entries(frames')
             x == Journal!Now
  <2>1. /\ q \in Seq(Journal!Snapshot) /\ Len(q) = n
        /\ \A i \in 1 .. n : q[i] = Entry(frames, i)
    BY <1>1, EntriesShape, Zenon
  <2>2. /\ e \in Seq(Journal!Snapshot) /\ Len(e) = n + 1
        /\ \A i \in 1 .. n + 1 : e[i] = Entry(frames', i)
    BY <1>2, EntriesShape, Zenon
  <2>3. \A i \in 1 .. n : Entry(frames', i) = Entry(frames, i)
    <3>1. ASSUME NEW i \in 1 .. n PROVE Entry(frames', i) = Entry(frames, i)
      <4>1. i - 1 \in 0 .. n
        BY <1>1
      <4> QED
        BY <1>2, <1>3, <4>1, Zenon DEF Entry
    <3> QED
      BY <3>1, Zenon
  <2>4. Entry(frames', n + 1) = x
    <3>1. (n + 1) - 1 = n /\ n \in 0 .. n
      BY <1>1
    <3> QED
      BY <1>2, <1>3, <1>5, <3>1, Zenon DEF Entry, Journal!Now
  <2>5. n + 1 \in 1 .. n + 1 /\ \A i \in 1 .. n : i \in 1 .. n + 1
    BY <1>1
  <2> HIDE DEF q, e, x
  <2>6. e[n + 1] = x /\ \A i \in 1 .. n : e[i] = q[i]
    BY <2>1, <2>2, <2>3, <2>4, <2>5, Zenon
  <2>7. x \in Journal!Snapshot
    BY <1>1, <2>2, <2>5, <2>6
  <2>8. e = Append(q, x)
    BY <2>1, <2>2, <2>6, <2>7, PushEqual, Zenon
  <2> QED
    BY <2>8, Zenon DEF e, q, x
<1>7. Len(Entries(frames)) < MaxRecursiveDepth + 1
  <2>1. Len(Entries(frames)) = n
    BY <1>1, EntriesShape, Zenon
  <2> QED
    BY <1>1, <2>1, LimitAssumption
<1> QED
  BY <1>2, <1>3, <1>4, <1>5, <1>6, <1>7, Zenon DEF Journal!Begin

\* The running frame ends and reports r to the frame below it, or to the
\* transaction.
LEMMA PopStep ==
  ASSUME Induction, IInv, phase = "run",
         NEW success \in BOOLEAN, NEW r \in Int, NEW w, Return(lower, success, r, w)
  PROVE  LET n == Len(frames)
         IN  /\ world' = w
             /\ n \in Nat \ {0} /\ Len(frames') = n - 1
             /\ Earned(frames, n) = Earned(frames, n - 1) + top.refund
             /\ Earned(frames, n) \in Int /\ Earned(frames, n - 1) \in Int
             /\ Entries(frames) # <<>>
             /\ Entries(frames)[Len(Entries(frames))] = Entry(frames, n)
             /\ Entries(frames') = SubSeq(Entries(frames), 1, Len(Entries(frames)) - 1)
             /\ \A k \in 0 .. n - 2 : Earned(frames', k) = Earned(frames, k)
             /\ n = 1 => Earned(frames', 0) = 0
             /\ n # 1 => Earned(frames', n - 1) = Earned(frames, n - 1) + r
             /\ success \/ r = 0 => TransactionRefund(frames', phase', result') = Earned(frames, n - 1) + r
<1> DEFINE n == Len(frames)
<1>1. /\ frames \in Seq(Frame) /\ n \in Nat \ {0} /\ n \in 1 .. n
      /\ lower \in Seq(Frame) /\ Len(lower) = n - 1 /\ top = frames[n]
      /\ \A i \in 1 .. n - 1 : lower[i] = frames[i]
  BY FrameFacts, TopFacts DEF top
<1>2. /\ Similar(frames', lower) /\ world' = w
      /\ result' = [success |-> success, refund |-> r]
      /\ lower = <<>> => phase' = "done" /\ frames' = <<>>
      /\ lower # <<>> => phase' = "run" /\ frames'[Len(lower)].refund = lower[Len(lower)].refund + r
      /\ \A i \in 1 .. Len(lower) : i # Len(lower) => frames'[i] = lower[i]
  BY <1>1, ReturnSimilar, Zenon
<1>3. frames' \in Seq(Frame) /\ Len(frames') = n - 1
      /\ \A i \in 1 .. n - 1 : frames'[i].snapshot = frames[i].snapshot
  BY <1>1, <1>2, Zenon DEF Similar
<1>4. \A i \in 1 .. n - 2 : frames'[i] = frames[i]
  <2>1. ASSUME NEW i \in 1 .. n - 2 PROVE frames'[i] = frames[i]
    <3>1. i \in 1 .. Len(lower) /\ i # Len(lower) /\ i \in 1 .. n - 1
      BY <1>1
    <3> QED
      BY <1>1, <1>2, <3>1, Zenon
  <2> QED
    BY <2>1, Zenon
<1>5. /\ \A i \in 1 .. n - 1 : Entry(frames', i) = Entry(frames, i)
      /\ \A k \in 0 .. n - 2 : Earned(frames', k) = Earned(frames, k)
  <2> DEFINE m == n - 1
  <2>1. m \in Nat /\ Alike(frames', frames, m)
    BY <1>1, <1>3, <1>4 DEF Alike
  <2>2. /\ \A i \in 1 .. m : Entry(frames', i) = Entry(frames, i)
        /\ \A k \in 0 .. m - 1 : Earned(frames', k) = Earned(frames, k)
    <3> HIDE DEF m
    <3> QED
      BY <2>1, EntriesKeep, Zenon
  <2>3. m - 1 = n - 2
    BY <1>1
  <2> QED
    BY <2>2, <2>3, Zenon
<1>6. /\ Earned(frames, n) = Earned(frames, n - 1) + top.refund
      /\ Earned(frames, n) \in Int /\ Earned(frames, n - 1) \in Int
  <2>1. n \in 0 .. n /\ n - 1 \in 0 .. n
    BY <1>1
  <2> QED
    BY <1>1, <2>1, EarnedTypes, Zenon
<1>7. n = 1 => Earned(frames', 0) = 0 /\ Earned(frames, n - 1) = 0
  <2>1. Earned(frames', 0) = 0
    BY <1>3, EarnedTypes, Zenon
  <2>2. Earned(frames, 0) = 0
    BY <1>1, EarnedTypes, Zenon
  <2>3. n = 1 => n - 1 = 0
    OBVIOUS
  <2> QED
    BY <2>1, <2>2, <2>3, Zenon
<1>8. ASSUME n # 1 PROVE Earned(frames', n - 1) = Earned(frames, n - 1) + r
  <2>1. n - 1 \in 1 .. Len(frames') /\ n - 1 \in 1 .. Len(frames) /\ (n - 1) - 1 = n - 2
        /\ n - 2 \in 0 .. n - 2 /\ n - 2 \in 0 .. n
    BY <1>1, <1>3, <1>8
  <2>2. /\ Earned(frames', n - 1) = Earned(frames', n - 2) + frames'[n - 1].refund
        /\ Earned(frames, n - 1) = Earned(frames, n - 2) + frames[n - 1].refund
        /\ Earned(frames, n - 2) \in Int
    <3>1. Earned(frames', n - 1) = Earned(frames', (n - 1) - 1) + frames'[n - 1].refund
      BY <1>3, <2>1, EarnedTypes, Zenon
    <3>2. Earned(frames, n - 1) = Earned(frames, (n - 1) - 1) + frames[n - 1].refund
      BY <1>1, <2>1, EarnedTypes, Zenon
    <3>3. Earned(frames, n - 2) \in Int
      BY <1>1, <2>1, EarnedTypes, Zenon
    <3> QED
      BY <2>1, <3>1, <3>2, <3>3, Zenon
  <2>3. frames'[n - 1].refund = frames[n - 1].refund + r
    <3>1. lower # <<>> /\ lower[n - 1] = frames[n - 1]
      BY <1>1, <1>8
    <3> QED
      BY <1>1, <1>2, <3>1, Zenon
  <2>4. frames[n - 1].refund \in Int
    BY <1>1, <2>1, FrameFacts, Zenon
  <2>5. Earned(frames', n - 2) = Earned(frames, n - 2)
    BY <1>5, <2>1, Zenon
  <2> QED
    BY <2>2, <2>3, <2>4, <2>5
<1>9. success \/ r = 0 => TransactionRefund(frames', phase', result') = Earned(frames, n - 1) + r
  <2>1. CASE n = 1
    <3>1. phase' = "done" /\ result'.success = success /\ result'.refund = r
      BY <1>1, <1>2, <2>1
    <3>2. Earned(frames, n - 1) + r = r
      BY <1>7, <2>1
    <3> QED
      BY <3>1, <3>2, Zenon DEF TransactionRefund
  <2>2. CASE n # 1
    <3>1. phase' = "run"
      BY <1>1, <1>2, <2>2
    <3> QED
      BY <1>3, <1>8, <2>2, <3>1, Zenon DEF TransactionRefund
  <2> QED
    BY <2>1, <2>2, Zenon
<1>10. /\ Entries(frames) # <<>>
       /\ Entries(frames)[Len(Entries(frames))] = Entry(frames, n)
       /\ Entries(frames') = SubSeq(Entries(frames), 1, Len(Entries(frames)) - 1)
  <2> DEFINE q == Entries(frames)
             e == Entries(frames')
  <2>1. /\ q \in Seq(Journal!Snapshot) /\ Len(q) = n
        /\ \A i \in 1 .. n : q[i] = Entry(frames, i)
    BY <1>1, EntriesShape, Zenon
  <2>2. /\ e \in Seq(Journal!Snapshot) /\ Len(e) = n - 1
        /\ \A i \in 1 .. n - 1 : e[i] = Entry(frames', i)
    BY <1>3, EntriesShape, Zenon
  <2> HIDE DEF q, e
  <2>3. q # <<>> /\ q[Len(q)] = Entry(frames, n)
    BY <1>1, <2>1, Zenon
  <2>4. \A i \in 1 .. Len(e) : e[i] = q[i]
    BY <1>1, <1>5, <2>1, <2>2
  <2>5. e = SubSeq(q, 1, Len(q) - 1)
    BY <2>1, <2>2, <2>3, <2>4, PopEqual
  <2> QED
    BY <2>3, <2>5, Zenon DEF q, e
<1> QED
  BY <1>1, <1>2, <1>3, <1>5, <1>6, <1>7, <1>8, <1>9, <1>10, Zenon

LEMMA BoundGrows ==
  ASSUME NEW n \in Nat
  PROVE  \A x \in Int : x <= MostEarned * n => x <= MostEarned * (n + 1)
BY DEF MostEarned

LEMMA RevisionFixed ==
  ASSUME [Next]_vars
  PROVE  UNCHANGED <<revision, original>>
BY Zenon DEF Next, Start, StartCall, StartCreate, Instruction, opSstore, opLog, opSelfdestruct,
       genericCall, genericCreate, Executes, Stop, Fail, vars

\* What the frames earned stays in bounds when one of them ends.
LEMMA PopBounded ==
  ASSUME Induction, IInv, phase = "run",
         NEW success \in BOOLEAN, NEW r \in Int, NEW w, Return(lower, success, r, w),
         NEW m \in Nat, Bounded(frames, m), Earned(frames, Len(frames) - 1) + r <= MostEarned * m
  PROVE  Bounded(frames', m)
<1> DEFINE n == Len(frames)
<1>1. /\ n \in Nat \ {0} /\ Len(frames') = n - 1
      /\ \A k \in 0 .. n - 2 : Earned(frames', k) = Earned(frames, k)
      /\ n = 1 => Earned(frames', 0) = 0
      /\ n # 1 => Earned(frames', n - 1) = Earned(frames, n - 1) + r
  BY PopStep
<1>2. 0 <= MostEarned * m
  BY DEF MostEarned
<1>3. ASSUME NEW k \in 0 .. Len(frames') PROVE Earned(frames', k) <= MostEarned * m
  <2>1. CASE k \in 0 .. n - 2
    <3>1. k \in 0 .. Len(frames)
      BY <1>1, <2>1
    <3> QED
      BY <1>1, <2>1, <3>1, Zenon DEF Bounded
  <2>2. CASE k = n - 1 /\ n = 1
    <3>1. k = 0
      BY <2>2
    <3> QED
      BY <1>1, <1>2, <2>2, <3>1, Zenon
  <2>3. CASE k = n - 1 /\ n # 1
    BY <1>1, <2>3, Zenon
  <2> QED
    BY <1>1, <2>1, <2>2, <2>3
<1> QED
  BY <1>3, Zenon DEF Bounded

\* A storage write: Sstore.
LEMMA SstoreJournalled ==
  ASSUME Induction, IInv, IInv', RefundsFit, Bounded(frames, ops), [Next]_vars, NEW new \in Word, opSstore(new)
  PROVE  Journal!Next /\ Bounded(frames', ops')
<1> DEFINE n == Len(frames)
           a == top.recipient
           e == getRefundForSstore(revision, GetStorageStatus(original[a], world.storage[a], new))
<1>1. /\ phase = "run" /\ ops' = ops + 1 /\ phase' = "run"
      /\ world' = [world EXCEPT !.storage[a] = new]
      /\ world'.destructed = world.destructed
      /\ Similar(frames', frames)
      /\ frames'[n].refund = top.refund + e
      /\ \A i \in 1 .. n : i # n => frames'[i] = frames[i]
  BY SstoreEffect, Zenon
<1>2. /\ frames \in Seq(Frame) /\ n \in Nat \ {0} /\ n \in 1 .. n /\ n \in 0 .. n /\ n - 1 \in 0 .. n
      /\ n - 1 \in 0 .. n - 1
      /\ top = frames[n] /\ world \in World /\ ops \in Nat
  BY <1>1, FrameFacts, TopFacts DEF top
<1>3. a \in Address /\ top.refund \in Int
  BY <1>2, FrameFacts, Zenon
<1>4. frames' \in Seq(Frame) /\ Len(frames') = n /\ Alike(frames', frames, n)
  BY <1>1, <1>2 DEF Similar, Alike
<1>5. e \in Int /\ e <= MostEarned
  BY EarnedBySstore, Zenon
<1> HIDE DEF e, a
<1>6. /\ \A i \in 1 .. n : Entry(frames', i) = Entry(frames, i)
      /\ \A k \in 0 .. n - 1 : Earned(frames', k) = Earned(frames, k)
  BY <1>2, <1>4, EntriesKeep, Zenon
<1>7. /\ Earned(frames, n) \in Int /\ Earned(frames, n - 1) \in Int
      /\ Earned(frames', n) = Earned(frames, n) + e
  <2>1. Earned(frames, n) = Earned(frames, n - 1) + top.refund /\ Earned(frames, n - 1) \in Int
        /\ Earned(frames, n) \in Int
    BY <1>2, EarnedTypes, Zenon
  <2>2. Earned(frames', n) = Earned(frames', n - 1) + frames'[n].refund
    BY <1>2, <1>4, EarnedTypes, Zenon
  <2> QED
    BY <1>1, <1>2, <1>3, <1>5, <1>6, <2>1, <2>2
<1>8. Earned(frames, n) + e <= MostEarned * (ops + 1)
  <2>1. Earned(frames, n) <= MostEarned * ops
    BY <1>2, Zenon DEF Bounded
  <2>2. \A x \in Int, y \in Int, m \in Nat :
          x <= MostEarned * m /\ y <= MostEarned => x + y <= MostEarned * (m + 1)
    BY DEF MostEarned
  <2> QED
    BY <1>2, <1>5, <1>7, <2>1, <2>2, Zenon
<1>9. Bounded(frames', ops')
  <2>1. ASSUME NEW k \in 0 .. Len(frames') PROVE Earned(frames', k) <= MostEarned * (ops + 1)
    <3>1. CASE k = n
      BY <1>7, <1>8, <3>1, Zenon
    <3>2. CASE k # n
      <4>1. k \in 0 .. n - 1 /\ k \in 0 .. n
        BY <1>2, <1>4, <3>2
      <4>2. Earned(frames, k) \in Int /\ Earned(frames, k) <= MostEarned * ops
        BY <1>2, <4>1, EarnedTypes, Zenon DEF Bounded
      <4> QED
        BY <1>2, <1>6, <4>1, <4>2, BoundGrows, Zenon
    <3> QED
      BY <3>1, <3>2, Zenon
  <2> QED
    BY <1>1, <2>1, Zenon DEF Bounded
<1>10. TransactionRefund(frames, phase, result) = Earned(frames, n)
       /\ TransactionRefund(frames', phase', result') = Earned(frames, n) + e
  BY <1>1, <1>4, <1>7, Zenon DEF TransactionRefund
<1>11. Entries(frames') = Entries(frames) /\ Entries(frames) # <<>>
  <2>1. DOMAIN frames = 1 .. n /\ DOMAIN frames' = 1 .. n
    BY <1>2, <1>4
  <2>2. Len(Entries(frames)) = n
    BY <1>2, EntriesShape
  <2> QED
    BY <1>2, <1>6, <2>1, <2>2, Zenon DEF Entries
<1>12. Earned(frames, n) + e <= MaxRefund
  <2>1. ops' \in Nat /\ ops' <= MaxOps /\ MaxOps \in Nat
    BY LimitAssumption DEF IInv, TypeOK
  <2>2. ops + 1 <= MaxOps
    BY <1>1, <2>1
  <2>3. \A m \in Nat, k \in Nat : m <= k => MostEarned * m <= MostEarned * k
    BY DEF MostEarned
  <2>4. MostEarned * (ops + 1) <= MostEarned * MaxOps
    BY <1>2, <2>1, <2>2, <2>3
  <2> QED
    BY <1>2, <1>5, <1>7, <1>8, <2>1, <2>4 DEF RefundsFit, MostEarned
<1>13. world'.storage = [world.storage EXCEPT ![a] = new]
  BY <1>1, <1>2, Zenon DEF World
<1>14. e = Journal!getRefundForSstore(revision, Journal!GetStorageStatus(original[a], world.storage[a], new))
  BY SameRules, Zenon DEF e
<1>15. UNCHANGED <<revision, original>>
  BY RevisionFixed, Zenon
<1>16. Journal!Sstore(a, new)
  BY <1>1, <1>10, <1>11, <1>12, <1>13, <1>14, <1>15, Zenon DEF Journal!Sstore
<1> QED
  BY <1>3, <1>9, <1>16, Zenon DEF Journal!Next

\* A self-destruct: SelfDestruct.
LEMMA SelfDestructJournalled ==
  ASSUME Induction, IInv, IInv', RefundsFit, Bounded(frames, ops), [Next]_vars,
         NEW beneficiary \in Address, opSelfdestruct(beneficiary)
  PROVE  Journal!Next /\ Bounded(frames', ops')
<1> DEFINE n == Len(frames)
           a == top.recipient
           e == selfDestructRefund(a \notin world.destructed, revision)
           r == top.refund + e
<1>1. phase = "run" /\ ops' = ops + 1 /\ r \in Int
  BY SelfDestructEffect, Zenon
<1>2. PICK w \in World : /\ w.storage = world.storage
                         /\ w.destructed = world.destructed \cup {a}
                         /\ Return(lower, TRUE, r, w)
  BY SelfDestructEffect, Zenon
<1>3. a \in Address /\ top.refund \in Int
  BY <1>1, TopFacts, Zenon DEF Frame
<1>4. e \in Nat /\ e <= MostEarned
  BY EarnedBySelfDestruct, Zenon
<1> HIDE DEF r
<1>5. /\ world' = w
      /\ n \in Nat \ {0}
      /\ Earned(frames, n) = Earned(frames, n - 1) + top.refund
      /\ Earned(frames, n) \in Int /\ Earned(frames, n - 1) \in Int
      /\ Entries(frames) # <<>>
      /\ Entries(frames') = SubSeq(Entries(frames), 1, Len(Entries(frames)) - 1)
      /\ TransactionRefund(frames', phase', result') = Earned(frames, n - 1) + r
  BY <1>1, <1>2, PopStep, Zenon
<1>6. r = top.refund + e
  BY Zenon DEF r
<1> HIDE DEF e, a
<1>7. Earned(frames, n - 1) + r = Earned(frames, n) + e
  BY <1>3, <1>4, <1>5, <1>6
<1>8. ops \in Nat /\ ops + 1 \in Nat /\ n \in 0 .. n
  BY <1>5, FrameFacts
<1>9. Earned(frames, n) + e <= MostEarned * (ops + 1)
  <2>1. Earned(frames, n) <= MostEarned * ops
    BY <1>8 DEF Bounded
  <2>2. \A x \in Int, y \in Int, m \in Nat :
          x <= MostEarned * m /\ y <= MostEarned => x + y <= MostEarned * (m + 1)
    BY DEF MostEarned
  <2> QED
    BY <1>4, <1>5, <1>8, <2>1, <2>2
<1>10. Bounded(frames', ops')
  <2>1. Bounded(frames, ops + 1)
    <3>1. frames \in Seq(Frame)
      BY FrameFacts, Zenon
    <3>2. \A k \in 0 .. Len(frames) : Earned(frames, k) \in Int
      BY <3>1, EarnedTypes, Zenon
    <3> QED
      BY <1>8, <3>2, BoundGrows, Zenon DEF Bounded
  <2>2. Earned(frames, Len(frames) - 1) + r <= MostEarned * (ops + 1)
    BY <1>7, <1>9, Zenon
  <2>3. Bounded(frames', ops + 1)
    BY <1>1, <1>2, <1>8, <2>1, <2>2, PopBounded, Zenon
  <2> QED
    BY <1>1, <2>3, Zenon
<1>11. TransactionRefund(frames, phase, result) = Earned(frames, n)
  BY <1>1 DEF TransactionRefund
<1>12. Earned(frames, n) + e <= MaxRefund
  <2>1. ops' \in Nat /\ ops' <= MaxOps /\ MaxOps \in Nat
    BY LimitAssumption DEF IInv, TypeOK
  <2>2. ops + 1 <= MaxOps
    BY <1>1, <2>1
  <2>3. \A m \in Nat, k \in Nat : m <= k => MostEarned * m <= MostEarned * k
    BY DEF MostEarned
  <2>4. MostEarned * (ops + 1) <= MostEarned * MaxOps
    BY <1>8, <2>1, <2>2, <2>3, Zenon
  <2> QED
    BY <1>4, <1>5, <1>8, <1>9, <2>1, <2>4 DEF RefundsFit, MostEarned
<1>13. e = Journal!selfDestructRefund(a \notin world.destructed, revision)
  BY SameRules, Zenon DEF e
<1>14. UNCHANGED <<revision, original>>
  BY RevisionFixed, Zenon
<1>15. Journal!SelfDestruct(a)
  BY <1>2, <1>5, <1>7, <1>11, <1>12, <1>13, <1>14, Zenon DEF Journal!SelfDestruct
<1> QED
  BY <1>3, <1>10, <1>15, Zenon DEF Journal!Next

\* A step that calls: Begin, or nothing the journal knows of.
LEMMA CallsJournalled ==
  ASSUME Induction, IInv, DriverIdle, Bounded(frames, ops), [Next]_vars, Calls
  PROVE  (Journal!Next \/ UNCHANGED Journal!vars) /\ Bounded(frames', ops')
<1>1. /\ Idles \/ Comes \/ Enters
      /\ phase # "start" => phase = "run" /\ ops' = ops + 1
      /\ phase = "start" => ops' = ops
  BY CallsCases, Zenon
<1>2. phase # "done"
  BY <1>1, Zenon
<1>3. UNCHANGED <<revision, original>>
  BY RevisionFixed, Zenon
<1>4. frames \in Seq(Frame) /\ ops \in Nat /\ Len(frames) \in Nat
  BY FrameFacts, Zenon
<1>5. \A k \in 0 .. Len(frames) : Earned(frames, k) \in Int /\ Earned(frames, k) <= MostEarned * ops'
  <2>1. \A k \in 0 .. Len(frames) : Earned(frames, k) \in Int /\ Earned(frames, k) <= MostEarned * ops
    BY <1>4, EarnedTypes, Zenon DEF Bounded
  <2>2. ops' = ops \/ ops' = ops + 1
    BY <1>1, Zenon
  <2> QED
    BY <1>4, <2>1, <2>2, BoundGrows, Zenon
<1>6. CASE Idles
  <2>1. /\ frames' = frames /\ phase' = phase
        /\ world'.storage = world.storage /\ world'.destructed = world.destructed
    BY <1>6, VisibleParts, Zenon DEF Idles
  <2>2. UNCHANGED Journal!vars
    BY <1>2, <1>3, <2>1, QuietStep, Zenon
  <2> QED
    BY <1>5, <2>1, <2>2, Zenon DEF Bounded
<1>7. CASE Comes
  <2>1. PICK success \in BOOLEAN, w \in World : Mild(w) /\ Return(frames, success, 0, w)
    BY <1>7, Zenon DEF Comes
  <2>2. w.storage = world.storage /\ w.destructed = world.destructed
    BY <2>1, Zenon DEF Mild, Conserves
  <2>3. /\ UNCHANGED Journal!vars
        /\ Len(frames') = Len(frames)
        /\ \A k \in 0 .. Len(frames) : Earned(frames', k) = Earned(frames, k)
    BY <1>2, <1>3, <2>1, <2>2, ComesQuietly, Zenon
  <2> QED
    BY <1>5, <2>3, Zenon DEF Bounded
<1>8. CASE Enters
  <2>1. PICK f \in Frame, w \in World :
          /\ Mild(w) /\ Mild(f.snapshot) /\ f.refund = 0 /\ depth <= MaxRecursiveDepth
          /\ world' = w /\ frames' = Append(frames, f) /\ phase' = "run"
    BY <1>8, Zenon DEF Enters
  <2>2. /\ w.storage = world.storage /\ w.destructed = world.destructed
        /\ f.snapshot.storage = world.storage /\ f.snapshot.destructed = world.destructed
    BY <2>1, Zenon DEF Mild, Conserves
  <2>3. /\ Journal!Begin
        /\ Len(frames') = Len(frames) + 1
        /\ \A k \in 0 .. Len(frames) : Earned(frames', k) = Earned(frames, k)
        /\ Earned(frames', Len(frames) + 1) = Earned(frames, Len(frames))
    BY <1>2, <1>3, <2>1, <2>2, EntersBegin, Zenon
  <2>4. ASSUME NEW k \in 0 .. Len(frames') PROVE Earned(frames', k) <= MostEarned * ops'
    <3>1. k \in 0 .. Len(frames) \/ k = Len(frames) + 1
      BY <1>4, <2>3
    <3>2. Len(frames) \in 0 .. Len(frames)
      BY <1>4
    <3> QED
      BY <1>5, <2>3, <3>1, <3>2, Zenon
  <2> QED
    BY <2>3, <2>4, Zenon DEF Journal!Next, Bounded
<1> QED
  BY <1>1, <1>6, <1>7, <1>8, Zenon

\* A frame that ends with STOP or RETURN: Commit, unless its code is rejected.
LEMMA StopJournalled ==
  ASSUME Induction, IInv, Bounded(frames, ops), [Next]_vars,
         NEW output \in Code, NEW deployable \in DeployResults, Stop(output, deployable)
  PROVE  (RejectsCode \/ Journal!Next) /\ Bounded(frames', ops')
<1> DEFINE n == Len(frames)
<1>1. /\ phase = "run" /\ ops' = ops /\ top.refund \in Int
      /\ \/ \E w \in World : SameState(w, world) /\ Return(lower, TRUE, top.refund, w)
         \/ RejectsCode /\ Return(lower, FALSE, top.refund, top.snapshot)
  BY StopEffect, Zenon
<1>2. ops \in Nat /\ UNCHANGED <<revision, original>>
  BY FrameFacts, RevisionFixed, Zenon
<1>3. ASSUME NEW success \in BOOLEAN, NEW w, Return(lower, success, top.refund, w)
      PROVE  Bounded(frames', ops')
  <2>1. n \in Nat \ {0} /\ Earned(frames, n) = Earned(frames, n - 1) + top.refund
    BY <1>1, <1>3, PopStep, Zenon
  <2>2. n \in 0 .. n
    BY <2>1
  <2>3. Earned(frames, Len(frames) - 1) + top.refund <= MostEarned * ops
    BY <2>1, <2>2, Zenon DEF Bounded
  <2>4. Bounded(frames', ops)
    BY <1>1, <1>2, <1>3, <2>3, PopBounded, Zenon
  <2> QED
    BY <1>1, <2>4, Zenon
<1>4. ASSUME NEW w \in World, SameState(w, world), Return(lower, TRUE, top.refund, w)
      PROVE  Journal!Commit
  <2>1. /\ world' = w
        /\ Earned(frames, n) = Earned(frames, n - 1) + top.refund
        /\ Entries(frames) # <<>>
        /\ Entries(frames') = SubSeq(Entries(frames), 1, Len(Entries(frames)) - 1)
        /\ TransactionRefund(frames', phase', result') = Earned(frames, n - 1) + top.refund
    BY <1>1, <1>4, PopStep, Zenon
  <2>2. TransactionRefund(frames, phase, result) = Earned(frames, n)
    BY <1>1, Zenon DEF TransactionRefund
  <2> QED
    BY <1>2, <1>4, <2>1, <2>2, Zenon DEF Journal!Commit, SameState
<1> QED
  BY <1>1, <1>3, <1>4, Zenon DEF Journal!Next

\* A frame that fails: Abort.
LEMMA FailJournalled ==
  ASSUME Induction, IInv, Bounded(frames, ops), [Next]_vars, Fail
  PROVE  Journal!Next /\ Bounded(frames', ops')
<1> DEFINE n == Len(frames)
<1>0. FALSE \in BOOLEAN /\ 0 \in Int
  OBVIOUS
<1>1. phase = "run" /\ ops' = ops /\ Return(lower, FALSE, 0, top.snapshot)
  BY FailEffect, Zenon
<1>2. ops \in Nat /\ UNCHANGED <<revision, original>>
  BY FrameFacts, RevisionFixed, Zenon
<1>3. /\ world' = top.snapshot
      /\ n \in Nat \ {0} /\ Earned(frames, n - 1) \in Int
      /\ Entries(frames) # <<>>
      /\ Entries(frames)[Len(Entries(frames))] = Entry(frames, n)
      /\ Entries(frames') = SubSeq(Entries(frames), 1, Len(Entries(frames)) - 1)
      /\ TransactionRefund(frames', phase', result') = Earned(frames, n - 1) + 0
  BY <1>0, <1>1, PopStep, Zenon
<1>4. Earned(frames, n - 1) + 0 = Earned(frames, n - 1)
  BY <1>3
<1>5. /\ Entry(frames, n).current = top.snapshot.storage
      /\ Entry(frames, n).destructed = top.snapshot.destructed
      /\ Entry(frames, n).refund = Earned(frames, n - 1)
  BY Zenon DEF Entry, top
<1>6. Journal!Abort
  BY <1>2, <1>3, <1>4, <1>5, Zenon DEF Journal!Abort
<1>7. Bounded(frames', ops')
  <2>1. n - 1 \in 0 .. n
    BY <1>3
  <2>2. Earned(frames, Len(frames) - 1) + 0 <= MostEarned * ops
    BY <1>4, <2>1, Zenon DEF Bounded
  <2>3. Bounded(frames', ops)
    BY <1>0, <1>1, <1>2, <2>2, PopBounded, Zenon
  <2> QED
    BY <1>1, <2>3, Zenon
<1> QED
  BY <1>6, <1>7, Zenon DEF Journal!Next

LEMMA JournalStep ==
  ASSUME Induction, IInv, IInv', RefundsFit, DriverIdle, Bounded(frames, ops), [Next]_vars
  PROVE  (RejectsCode \/ Journal!Next \/ UNCHANGED Journal!vars) /\ Bounded(frames', ops')
<1>1. CASE Calls
  BY <1>1, CallsJournalled, Zenon
<1>2. ASSUME NEW new \in Word, opSstore(new)
      PROVE  Journal!Next /\ Bounded(frames', ops')
  BY <1>2, SstoreJournalled, Zenon
<1>3. CASE opLog
  <2>1. /\ phase = "run" /\ ops' = ops + 1 /\ phase' = "run" /\ frames' = frames
        /\ world'.destructed = world.destructed /\ world'.storage = world.storage
    BY <1>3, LogEffect, Zenon
  <2>2. UNCHANGED Journal!vars
    BY <2>1, QuietStep, RevisionFixed, Zenon
  <2>3. frames \in Seq(Frame) /\ ops \in Nat
    BY FrameFacts, Zenon
  <2>4. \A k \in 0 .. Len(frames) : Earned(frames, k) \in Int
    BY <2>3, EarnedTypes, Zenon
  <2> QED
    BY <2>1, <2>2, <2>3, <2>4, BoundGrows, Zenon DEF Bounded
<1>4. ASSUME NEW beneficiary \in Address, opSelfdestruct(beneficiary)
      PROVE  Journal!Next /\ Bounded(frames', ops')
  BY <1>4, SelfDestructJournalled
<1>5. ASSUME NEW output \in Code, NEW deployable \in DeployResults, Stop(output, deployable)
      PROVE  (RejectsCode \/ Journal!Next) /\ Bounded(frames', ops')
  BY <1>5, StopJournalled, Zenon
<1>6. CASE Fail
  BY <1>6, FailJournalled, Zenon
<1>7. CASE UNCHANGED vars
  BY <1>7, Zenon DEF vars, Journal!vars
<1> QED
  BY <1>1, <1>2, <1>3, <1>4, <1>5, <1>6, <1>7, NextCases, Zenon

LEMMA JournalInit ==
  ASSUME Induction, Init
  PROVE  Journal!Init /\ Bounded(frames, ops)
<1>1. frames = <<>> /\ frames \in Seq(Frame) /\ phase = "start" /\ ops = 0 /\ Len(frames) = 0
  BY DEF Init
<1>2. Earned(frames, 0) = 0
  BY <1>1, EarnedTypes, Zenon
<1>3. TransactionRefund(frames, phase, result) = 0
  BY <1>1, <1>2, Zenon DEF TransactionRefund
<1>4. Entries(frames) = <<>>
  BY <1>1 DEF Entries
<1>5. /\ revision \in Revision /\ original = world.storage
      /\ world \in World /\ world.destructed = {}
  BY InputAssumption, WorldAssumption, Zenon DEF Init
<1>6. original \in [Address -> Word]
  BY <1>5, Zenon DEF World
<1>7. Journal!Init
  BY <1>3, <1>4, <1>5, <1>6
     DEF Journal!Init, Journal!Storage, Journal!Revision, Revision, Journal!R07_Istanbul,
         R07_Istanbul, Journal!R15_Osaka, R15_Osaka
<1>8. Bounded(frames, ops)
  BY <1>1, <1>2 DEF Bounded, MostEarned
<1> QED
  BY <1>7, <1>8, Zenon

-----------------------------------------------------------------------------
(* The results that rest on induction *)

INSTANCE WellFoundedInduction

LEMMA InductionHolds == Induction
<1> SUFFICES ASSUME NEW T, 0 \in T, \A n \in Nat : n \in T => n + 1 \in T, Nat \ T # {}
             PROVE  FALSE
  BY Zenon DEF Induction
<1>1. IsWellFoundedOn(OpToRel(<, Nat), Nat)
  BY NatLessThanWellFounded, Zenon
<1> DEFINE R == OpToRel(<, Nat)
<1>2. PICK m \in Nat \ T : \A k \in Nat \ T : <<k, m>> \notin R
  <2> HIDE DEF R
  <2> QED
   BY <1>1, WFMin, Zenon DEF R
<1>3. m # 0 /\ m - 1 \in Nat
  OBVIOUS
<1>4. m - 1 \notin T
  BY <1>3
<1>5. <<m - 1, m>> \in R
  BY <1>3 DEF OpToRel
<1> QED
  BY <1>2, <1>3, <1>4, <1>5, Zenon

\* An account under construction cannot be created again by the calls its init
\* code makes: executeCreate counts the nonce of the new account before the init
\* code runs, and neither a roll-back of a nested call nor a wrapped nonce takes
\* the mark away.  Only the state contract increments nonces without a check for
\* overflow, so the transaction either is too short for a nonce to come round or
\* leaves the driver account idle.
THEOREM ConstructionAlwaysExclusive ==
  /\ NoncesLast => (Spec => []ConstructionIsExclusive)
  /\ Spec /\ []DriverIdle => []ConstructionIsExclusive
<1>1. Init => Marked(frames, world, ops)
  BY MarkedInit, Zenon
<1>2. IInv /\ Marked(frames, world, ops) => ConstructionIsExclusive
  BY MarkedExcludes, Zenon
<1>3. ASSUME NoncesLast PROVE Spec => []ConstructionIsExclusive
  <2>1. IInv /\ Marked(frames, world, ops) /\ [Next]_vars => Marked(frames, world, ops)'
    BY <1>3, InductionHolds, MarkedNext, Zenon
  <2> QED
    BY <1>1, <1>2, <2>1, AlwaysInvariant, PTL DEF Spec
<1>4. Spec /\ []DriverIdle => []ConstructionIsExclusive
  <2>1. IInv /\ Marked(frames, world, ops) /\ DriverIdle /\ [Next]_vars => Marked(frames, world, ops)'
    BY InductionHolds, MarkedNext, Zenon
  <2> QED
    BY <1>1, <1>2, <2>1, AlwaysInvariant, PTL DEF Spec
<1> QED
  BY <1>3, <1>4, Zenon

\* Calls, creates and self-destructs only move value: whatever calls succeed,
\* fail or are rolled back, the balances add up to what they were, as long as
\* all value fits a word and the driver account, which the state contract
\* allows to set balances, is idle.
THEOREM SupplyAlwaysConserved ==
  SupplyFits => (Spec /\ []DriverIdle => SupplyIsConserved)
<1> SUFFICES ASSUME SupplyFits PROVE Spec /\ []DriverIdle => SupplyIsConserved
  BY Zenon
<1>1. Init => Steady(frames, world)
  <2> SUFFICES ASSUME Init PROVE Steady(frames, world)
    BY Zenon
  <2>1. frames = <<>> /\ Supply(world) < ValueLimit
    BY Zenon DEF Init, SupplyFits
  <2> QED
    BY <2>1 DEF Steady
<1>2. IInv /\ Steady(frames, world) /\ DriverIdle /\ [Next]_vars => Steady(frames, world)'
  BY InductionHolds, SteadyNext, Zenon
<1> DEFINE first == IF frames = <<>> THEN world ELSE frames[1].before
           calls == Len(frames') > Len(frames) /\ frames'[Len(frames')].kind \in CallKinds
           Kept == Supply(first) < ValueLimit \/ calls => Supply(world') = Supply(world)
<1>3. IInv /\ Steady(frames, world) /\ DriverIdle /\ [Next]_vars => [Kept]_vars
  BY InductionHolds, SteadyNext, Zenon
<1>4. (Spec /\ []DriverIdle) => [][Kept]_vars
  BY <1>1, <1>2, <1>3, AlwaysInvariant, PTL DEF Spec
<1> QED
  BY <1>4, Zenon DEF SupplyIsConserved

\* For any accounts, depth limit and contracts: the refund counters of the
\* running interpreters, handed from call to caller, implement the journalled
\* counter, but for the steps in which checkAndDeployCode rejects the code of a
\* create.  The driver account is idle, as the state contract writes storage
\* outside of the refund rules.
THEOREM RefundRefinement ==
  RefundsFit => (Spec /\ []DriverIdle => RefundsAreJournalled)
<1> SUFFICES ASSUME RefundsFit PROVE Spec /\ []DriverIdle => RefundsAreJournalled
  OBVIOUS
<1>1. Init => Journal!Init /\ Bounded(frames, ops)
  BY InductionHolds, JournalInit, Zenon
<1>2. IInv /\ IInv' /\ DriverIdle /\ Bounded(frames, ops) /\ [Next]_vars => Bounded(frames, ops)'
  BY InductionHolds, JournalStep, Zenon
<1>3. IInv /\ IInv' /\ DriverIdle /\ Bounded(frames, ops) /\ [Next]_vars
        => [RejectsCode \/ Journal!Next]_(Journal!vars)
  BY InductionHolds, JournalStep, Zenon
<1> QED
  BY <1>1, <1>2, <1>3, AlwaysInvariant, PTL DEF Spec, RefundsAreJournalled
=============================================================================
