--------------------------- MODULE LfvmConverter ----------------------------
(***************************************************************************)
(* The conversion of EVM code to the code of lfvm (converter.go): the data *)
(* of a PUSH moves into the arguments of instructions, two bytes to each,  *)
(* frequent sequences become super instructions, and jump destinations     *)
(* keep their positions, reached over a JUMP_TO where the code before them *)
(* became shorter.  Also the map of positions that the conformance adapter *)
(* makes of it (ct.go).                                                    *)
(***************************************************************************)
EXTENDS EvmState

\* An instruction has an operation, with its number, and a 16-bit argument.
Instruction(i, arg) == [op |-> i.op, n |-> i.n, arg |-> arg]

Uint16(hi, lo) == hi * ByteMod + lo
MaxUint16 == Uint16(ByteMod - 1, ByteMod - 1)
HighByte(arg) == arg \div ByteMod
LowByte(arg) == arg % ByteMod

\* The super instructions with what they stand for, in the order in which the
\* converter looks for them.
SuperInstructions ==
  LET push(n) == IN_("PUSH", n)
      swap(n) == IN_("SWAP", n)
      dup(n) == IN_("DUP", n)
      pop == I("POP")
  IN  << <<"PUSH1_PUSH4_DUP3", <<push(1), push(4), dup(3)>>>>,
         <<"PUSH1_PUSH1_PUSH1_SHL_SUB", <<push(1), push(1), push(1), I("SHL"), I("SUB")>>>>,
         <<"AND_SWAP1_POP_SWAP2_SWAP1", <<I("AND"), swap(1), pop, swap(2), swap(1)>>>>,
         <<"ISZERO_PUSH2_JUMPI", <<I("ISZERO"), push(2), I("JUMPI")>>>>,
         <<"SWAP2_SWAP1_POP_JUMP", <<swap(2), swap(1), pop, I("JUMP")>>>>,
         <<"SWAP1_POP_SWAP2_SWAP1", <<swap(1), pop, swap(2), swap(1)>>>>,
         <<"POP_SWAP2_SWAP1_POP", <<pop, swap(2), swap(1), pop>>>>,
         <<"PUSH2_JUMP", <<push(2), I("JUMP")>>>>,
         <<"PUSH2_JUMPI", <<push(2), I("JUMPI")>>>>,
         <<"PUSH1_PUSH1", <<push(1), push(1)>>>>,
         <<"PUSH1_ADD", <<push(1), I("ADD")>>>>,
         <<"PUSH1_SHL", <<push(1), I("SHL")>>>>,
         <<"PUSH1_DUP1", <<push(1), dup(1)>>>>,
         <<"SWAP1_POP", <<swap(1), pop>>>>,
         <<"POP_JUMP", <<pop, I("JUMP")>>>>,
         <<"POP_POP", <<pop, pop>>>>,
         <<"SWAP2_SWAP1", <<swap(2), swap(1)>>>>,
         <<"SWAP2_POP", <<swap(2), pop>>>>,
         <<"DUP2_MSTORE", <<dup(2), I("MSTORE")>>>>,
         <<"DUP2_LT", <<dup(2), I("LT")>>>> >>

SuperOps == {SuperInstructions[k][1] : k \in DOMAIN SuperInstructions}
isSuperInstruction(op) == op \in SuperOps
decompose(op) ==
  SuperInstructions[CHOOSE k \in DOMAIN SuperInstructions : SuperInstructions[k][1] = op][2]

Width(i) == IF i.op = "PUSH" THEN i.n + 1 ELSE 1
TotalWidth(instructions) == FoldLeft(LAMBDA sum, i : sum + Width(i), 0, instructions)

-----------------------------------------------------------------------------
\* The builder: the instructions so far, the capacity of the slice they are
\* written to, and where each instruction of the EVM code went (the observer).

append(b, instructions) == [b EXCEPT !.code = @ \o instructions]

\* Ends at a position, whatever was there.
padNoOpsUntil(b, pos) ==
  [b EXCEPT !.code = [k \in 1 .. pos |-> IF k <= Len(@) THEN @[k] ELSE Instruction(I("NOOP"), 0)]]

\* The arguments for the data bytes of a super instruction: the first is that
\* of the instruction itself, the others are those of DATA instructions.
superArguments(op, d) ==
  CASE op = "PUSH1_PUSH4_DUP3" -> <<Uint16(d[1], 0), Uint16(d[2], d[3]), Uint16(d[4], d[5])>>
    [] op = "PUSH1_PUSH1_PUSH1_SHL_SUB" -> <<Uint16(d[1], d[2]), d[3]>>
    [] op \in {"ISZERO_PUSH2_JUMPI", "PUSH2_JUMP", "PUSH2_JUMPI", "PUSH1_PUSH1"} ->
         <<Uint16(d[1], d[2])>>
    [] op \in {"PUSH1_ADD", "PUSH1_SHL", "PUSH1_DUP1"} -> <<d[1]>>
    [] OTHER -> <<0>>

WithData(i, args) ==
  [k \in 1 .. Len(args) |-> Instruction(IF k = 1 THEN i ELSE I("DATA"), args[k])]

\* Whether the instructions are those at a position, and the data between them.
RECURSIVE Matches(_, _, _)
Matches(code, pos, instructions) ==
  \/ instructions = <<>>
  \/ /\ pos + TotalWidth(instructions) <= Len(code)
     /\ code[pos + 1] = Head(instructions)
     /\ Matches(code, pos + Width(Head(instructions)), Tail(instructions))

RECURSIVE DataOf(_, _, _)
DataOf(code, pos, instructions) ==
  IF instructions = <<>> THEN <<>>
  ELSE [k \in 1 .. Width(Head(instructions)) - 1 |-> ByteValue(code[pos + 1 + k])]
       \o DataOf(code, pos + Width(Head(instructions)), Tail(instructions))

\* The super instructions that fit, first the one that is taken.
Candidates(code, pos) ==
  SelectSeq(SuperInstructions, LAMBDA candidate : Matches(code, pos, candidate[2]))

appendSuperInstruction(b, pos, code, candidate) ==
  append(b, WithData(I(candidate[1]),
                     superArguments(candidate[1], DataOf(code, pos, candidate[2]))))

\* A PUSH of n bytes, of which zeros are missing at the end of the code; then
\* the slice is made longer as well.
appendPush(b, pos, code) ==
  LET n == code[pos + 1].n
      missing == pos + n + 2 - Len(code)
      extension == IF missing > 0 THEN (missing + 1) \div 2 ELSE 0
      data == [k \in 1 .. n + 1 |->
                 IF k <= n /\ pos + 1 + k <= Len(code) THEN ByteValue(code[pos + 1 + k]) ELSE 0]
      args == [k \in 1 .. (n + 1) \div 2 |-> Uint16(data[2 * k - 1], data[2 * k])]
  IN  append([b EXCEPT !.capacity = @ + extension], WithData(code[pos + 1], args))

\* The new builder, and the number of bytes converted.
appendInstructions(b, pos, code, withSuperInstructions) ==
  With(IF withSuperInstructions THEN Candidates(code, pos) ELSE <<>>, LAMBDA candidates :
    LET i == code[pos + 1]
    IN  IF candidates # <<>>
        THEN <<appendSuperInstruction(b, pos, code, Head(candidates)),
               TotalWidth(Head(candidates)[2])>>
        ELSE IF i.op = "PC" /\ pos > MaxUint16 THEN <<append(b, <<Instruction(I("INVALID"), 0)>>), 2>>
        ELSE IF i.op = "PC" THEN <<append(b, <<Instruction(i, pos)>>), 1>>
        ELSE IF i.op = "PUSH" THEN <<appendPush(b, pos, code), Width(i)>>
        ELSE <<append(b, <<Instruction(i, 0)>>), 1>>)

RECURSIVE convertFrom(_, _, _, _)
convertFrom(b, pos, code, withSuperInstructions) ==
  LET skip == IF Len(b.code) < pos
              THEN append(b, <<Instruction(I("JUMP_TO"), pos % (MaxUint16 + 1))>>)
              ELSE b
      destination == append(padNoOpsUntil(skip, pos), <<Instruction(I("JUMPDEST"), 0)>>)
  IN  IF pos >= Len(code) THEN b
      ELSE IF code[pos + 1].op = "JUMPDEST"
      THEN With([destination EXCEPT !.observed = (pos :> pos) @@ @], LAMBDA next :
             convertFrom(next, pos + 1, code, withSuperInstructions))
      ELSE With(appendInstructions([b EXCEPT !.observed = (pos :> Len(b.code)) @@ @],
                                   pos, code, withSuperInstructions), LAMBDA next :
             convertFrom(next[1], pos + next[2], code, withSuperInstructions))

convert(code, withSuperInstructions) ==
  convertFrom([code |-> <<>>, capacity |-> Len(code), observed |-> <<>>], 0, code,
              withSuperInstructions)

\* Of the instructions of a conversion none was written behind the slice.
Fits(converted) == Len(converted.code) <= converted.capacity

-----------------------------------------------------------------------------
\* The map of positions.  Positions without an instruction map to 0.

evmToLfvm(code, converted, pos) ==
  IF pos = Len(code) THEN Len(converted.code) ELSE Get(converted.observed, pos)

lfvmToEvm(code, converted, pos) ==
  LET from == {p \in DOMAIN converted.observed : converted.observed[p] = pos}
  IN  IF pos = Len(converted.code) THEN Len(code)
      ELSE IF converted.code[pos + 1].op = "JUMP_TO" THEN converted.code[pos + 1].arg
      ELSE IF from # {} THEN Max(from) ELSE 0
=============================================================================
