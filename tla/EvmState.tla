------------------------------ MODULE EvmState ------------------------------
(***************************************************************************)
(* The state of one contract execution as the conformance tests see it     *)
(* (package ct/st): what the interpreter owns (program counter, stack,     *)
(* memory, gas) and what it reaches through its run context (storage,      *)
(* accounts, logs, and the journals of nested calls and self-destructs).   *)
(* States are records, and the operations functions from states to states. *)
(*                                                                         *)
(* Code is a sequence of bytes.  A byte is given by the instruction it is  *)
(* when it is executed, an operation with a number (PUSH 2, DUP 1, LOG 3); *)
(* DATA is a byte that is no instruction.  Which bytes are executed and    *)
(* which are data of a PUSH only depends on the bytes before them.         *)
(***************************************************************************)
EXTENDS EvmWords, StorageGas

CONSTANTS
  MaxStackSize,            \* the capacity of the stack, 1024 in the code
  MaxMemoryExpansionSize,  \* the largest memory, in bytes
  MaxInitCodeSize,         \* the largest init code from Shanghai on
  QuadCoeffDiv,            \* the divisor of the quadratic memory cost, 512 in the code
  Ctx                      \* the block, transaction and call an execution belongs to

ASSUME ScaleAssumption ==
  /\ MaxStackSize \in Nat \ {0} /\ QuadCoeffDiv \in Nat \ {0}
  /\ MaxMemoryExpansionSize \in 0 .. MaxUint64 - WordBytes
  /\ MaxMemoryExpansionSize % WordBytes = 0
  /\ MaxInitCodeSize \in 0 .. MaxMemoryExpansionSize

\* F of a value that TLC computes once, however often F refers to it.
With(value, F(_)) == CHOOSE result \in {F(v) : v \in {value}} : TRUE

I(op) == [op |-> op, n |-> 0]
IN_(op, n) == [op |-> op, n |-> n]
Data(byte) == [op |-> "DATA", n |-> byte]

\* A position is data if a PUSH before it, itself no data, reaches that far,
\* also behind the end of the code; all others are code.
IsCode(s, pos) ==
  LET covers(j, p) == s.code[j + 1].op = "PUSH" /\ p <= j + s.code[j + 1].n
      isCode[p \in Nat] == ~\E j \in 0 .. MinOf(p, Len(s.code)) - 1 : covers(j, p) /\ isCode[j]
  IN  isCode[pos]
GetOperation(s, pos) ==
  IF ~IsCode(s, pos) THEN I("NONE")
  ELSE IF pos >= Len(s.code) THEN I("STOP") ELSE s.code[pos + 1]

\* The value of a byte; that of an instruction is the number of its family.
ByteValue(byte) == IF byte.op = "DATA" THEN byte.n ELSE byte.n + 1
CodeBytes(s) == [i \in 1 .. Len(s.code) |-> ByteValue(s.code[i])]
GetData(s, pos) == IF pos >= Len(s.code) THEN 0 ELSE ByteValue(s.code[pos + 1])

-----------------------------------------------------------------------------
\* Maps whose missing keys read as zero.
Get(map, key) == IF key \in DOMAIN map THEN map[key] ELSE 0
Put(map, key, value) == (key :> value) @@ map
EqualIgnoringZeros(a, b) == \A k \in DOMAIN a \cup DOMAIN b : Get(a, k) = Get(b, k)

\* Accounts are partial: an address that is missing has no balance and no code.
GetAccount(s, a) ==
  IF a \in DOMAIN s.accounts THEN s.accounts[a] ELSE [balance |-> 0, code |-> <<>>]
GetBalance(s, a) == GetAccount(s, a).balance
GetCode(s, a) == GetAccount(s, a).code
IsEmpty(s, a) == GetAccount(s, a) = [balance |-> 0, code |-> <<>>]

\* The digest is appended to a copy of the result, so the result stays zero.
GetCodeHash(s, a) == 0

\* A designator is a marker followed by the address of the delegate.
Marker == <<29, 1>>
ParseDelegationDesignator(code) ==
  IF Len(code) = 3 /\ SubSeq(code, 1, 2) = Marker THEN {code[3]} ELSE {}

RecentBlockHash(index) == index + 1

-----------------------------------------------------------------------------
Running(s) == s.status = "running"
Fail(s) == [s EXCEPT !.status = "failed"]

\* Go on only if there was no error.
Then(c, F(_)) == With(c, LAMBDA d : IF Running(d) THEN F(d) ELSE d)

Push(s, w) == [s EXCEPT !.stack = <<w>> \o @]
Pop(s, n) == [s EXCEPT !.stack = SubSeq(@, n + 1, Len(@))]
PopPush(s, n, w) == Push(Pop(s, n), w)

MarkWarm(s, a) == [s EXCEPT !.warm = @ \cup {a}]
MarkKeyWarm(s, k) == [s EXCEPT !.warmKeys = @ \cup {k}]
SetCurrent(s, k, v) == [s EXCEPT !.storage = Put(@, k, v)]
SetTransient(s, k, v) ==
  [s EXCEPT !.transient = IF v = 0 THEN [x \in DOMAIN @ \ {k} |-> @[x]] ELSE Put(@, k, v)]
AddLog(s, data, topics) == [s EXCEPT !.logs = Append(@, [data |-> data, topics |-> topics])]

\* The part of the memory from an offset on; an empty part is nowhere.
Span(memory, offset, size) ==
  IF size = 0 THEN <<>> ELSE SubSeq(memory, offset + 1, offset + size)
Overwrite(memory, offset, data) ==
  With(data, LAMBDA d :
    [i \in 1 .. Len(memory) |->
       IF i > offset /\ i <= offset + Len(d) THEN d[i - offset] ELSE memory[i]])

MemoryCost(words) == (words * words) \div QuadCoeffDiv + 3 * words

\* What CallJournal.Call does: it records the call and plays back the next
\* recorded result, an immediate failure when there is none left.
NoFuture == [success |-> FALSE, output |-> <<>>, cost |-> 0, refund |-> 0, created |-> 0]
Call(s, call) ==
  LET result == IF s.future = <<>> THEN NoFuture ELSE Head(s.future)
  IN  [state |-> [s EXCEPT !.past = Append(@, call),
                           !.future = IF @ = <<>> THEN <<>> ELSE Tail(@)],
       result |-> result,
       gasLeft |-> MaxOf(call.gas - result.cost, 0)]

\* Of the adapter: the journal records every destruction that takes effect, and
\* the answer is whether it was the first.
SelfDestruct(s, beneficiary) ==
  IF s.rev < R13_Cancun \/ s.isNew
  THEN [state |-> [s EXCEPT !.destructs = Append(@, <<Ctx.self, beneficiary>>),
                            !.destructed = TRUE],
        first |-> ~s.destructed]
  ELSE [state |-> s, first |-> FALSE]

\* When two states count as the same: failures always do, a terminal state by
\* what can be observed of it, a running one also by its stack and memory.
Eq(s, t) ==
  /\ s.status = t.status
  /\ \/ s.status = "failed"
     \/ /\ \A f \in {"code", "rev", "readOnly", "gas", "refund", "past", "future", "accounts",
                     "warm", "warmKeys", "logs", "isNew", "destructed", "destructs"} :
             s[f] = t[f]
        /\ EqualIgnoringZeros(s.storage, t.storage)
        /\ EqualIgnoringZeros(s.original, t.original)
        /\ EqualIgnoringZeros(s.transient, t.transient)
        /\ \/ ~Running(s) /\ s.returnData = t.returnData
           \/ /\ Running(s)
              /\ s.pc = t.pc \/ (s.pc >= Len(s.code) /\ t.pc >= Len(t.code))
              /\ s.stack = t.stack /\ s.memory = t.memory /\ s.lastReturn = t.lastReturn
=============================================================================
