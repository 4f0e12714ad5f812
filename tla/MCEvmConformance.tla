------------------------- MODULE MCEvmConformance ---------------------------
(***************************************************************************)
(* The test states of EvmConformance.  They are made like those of ct run: *)
(* for every instruction its parameters take the sample values of          *)
(* go/ct/rlz/parameters.go, scaled to the words of the model, and the rest *)
(* of the state the values that the conditions of the rules tell apart.    *)
(***************************************************************************)
EXTENDS EvmConformance

TestCtx ==
  [self |-> 1, caller |-> 7, origin |-> 8, coinbase |-> 9, value |-> 3, number |-> 300,
   timestamp |-> 50, gasLimit |-> 4000, gasPrice |-> 6, prevRandao |-> MaxWord - 5, baseFee |-> 11,
   blobBaseFee |-> 12, chainId |-> 250, callData |-> <<1, 2, 3, 4, 5>>, blobHashes |-> <<91, 92>>]

\* Account 2 has code and is warm, 3 delegates to it and 4 to the cold account
\* 5; account 6 is empty and 12 delegates to itself.
TestAccounts ==
  (1 :> [balance |-> 5, code |-> <<1>>]) @@ (2 :> [balance |-> 0, code |-> <<7, 8, 9>>])
  @@ (3 :> [balance |-> 0, code |-> Marker \o <<2>>])
  @@ (4 :> [balance |-> 1, code |-> Marker \o <<5>>]) @@ (5 :> [balance |-> 2, code |-> <<>>])
  @@ (12 :> [balance |-> 0, code |-> Marker \o <<12>>])

Base ==
  [status |-> "running", rev |-> R15_Osaka, readOnly |-> FALSE, pc |-> 0, gas |-> Plenty,
   refund |-> 0, stack |-> <<>>, memory |-> <<>>, code |-> <<>>, lastReturn |-> <<21, 22, 23>>,
   returnData |-> <<>>, storage |-> (0 :> 1), original |-> (0 :> 1), warmKeys |-> {},
   transient |-> (0 :> 1), accounts |-> TestAccounts, warm |-> {2}, logs |-> <<>>,
   past |-> <<>>, future |-> <<>>, isNew |-> FALSE, destructed |-> FALSE, destructs |-> <<>>]

\* The instruction, its data if it is a PUSH, and the end of the code.
CodeOf(i) == <<i>> \o (IF i.op = "PUSH" THEN [k \in 1 .. i.n |-> Data(30 - k)] ELSE <<>>)
At(i, stack) == [Base EXCEPT !.code = CodeOf(i), !.stack = stack]

Numeric == {0, 1, WordBytes - 2, WordBytes - 1, WordBytes, WordBits - 1, WordBits, WordBits + 1,
            MaxUint64 + 1, SignBit - 1, SignBit, MaxWord}
Few == {0, 1, 5, SignBit, MaxWord}
Offset == {0, WordBytes - 1, WordBytes, MaxMemoryExpansionSize, MaxUint64, MaxUint64 + 1}
DataOffset == {0, 2, WordBytes, MaxUint64, MaxWord}
Size == {0, WordBytes - 1, WordBytes, WordBytes + 1, MaxMemoryExpansionSize,
         MaxMemoryExpansionSize + 1, MaxUint64, MaxUint64 + 1}
InitCodeSize == Size \cup (MaxInitCodeSize - 1 .. MaxInitCodeSize + 1)
Target == {0, 1, 3, 4, 6, 100, MaxInt32 + 1, MaxUint64 + 2, MaxWord}
Address == {1, 2, 3, 4, 6, 12, AddressMod + 2}
Gas == {0, 1, 5000, MaxInt64, MaxInt64 + 1}
Value == {0, 1, MaxWord}

TwoWords == [k \in 1 .. 2 * WordBytes |-> k]
Success == [success |-> TRUE, output |-> <<11, 12, 13, 14, 15>>, cost |-> 700, refund |-> 4,
            created |-> 17]
Failure == [success |-> FALSE, output |-> <<16>>, cost |-> Plenty, refund |-> 0, created |-> 0]
Futures == {<<>>, <<Success>>, <<Failure>>}

-----------------------------------------------------------------------------
Pairs(S, T) == {<<a, b>> : a \in S, b \in T}
Triples(S, T, U) == {<<a, b, c>> : a \in S, b \in T, c \in U}

Words ==
  {At(I(op), args) : op \in BinaryOps \cup {"EXP"}, args \in Pairs(Numeric, Numeric)}
  \cup {At(I(op), args) : op \in {"ADDMOD", "MULMOD"}, args \in Triples(Few, Few, Few)}
  \cup {At(I(op), <<a>>) : op \in {"ISZERO", "NOT", "CLZ", "CALLDATALOAD"}, a \in Numeric}
  \cup {At(I(op), <<a>>) : op \in {"BLOCKHASH", "BLOBHASH"},
                           a \in {0, 1, 2, 43, 44, 299, 300, MaxUint64 + 1, MaxUint64 + 300}}

\* Those that reach for memory, empty or of two words.
Memory ==
  {[At(i, args) EXCEPT !.memory = m] :
     i \in {I("MLOAD"), I("MSTORE"), I("MSTORE8")}, args \in Pairs(Offset, {MaxWord - 9}),
     m \in {<<>>, TwoWords}}
  \cup {[At(i, args) EXCEPT !.memory = m] :
          i \in {I("SHA3"), I("RETURN"), I("REVERT")}, args \in Pairs(Offset, Size),
          m \in {<<>>, TwoWords}}
  \cup {[At(IN_("LOG", n), args \o [k \in 1 .. n |-> 101 + k]) EXCEPT !.memory = TwoWords] :
          n \in 0 .. 4, args \in Pairs(Offset, Size)}
  \cup {[At(I(op), args) EXCEPT !.memory = m] :
          op \in {"CODECOPY", "CALLDATACOPY", "RETURNDATACOPY"},
          args \in Triples(Offset, DataOffset, Size), m \in {<<>>, TwoWords}}
  \cup {[At(I("MCOPY"), args) EXCEPT !.memory = TwoWords] : args \in Triples(Offset, Offset, Size)}
  \cup {[At(I("EXTCODECOPY"), <<a>> \o args) EXCEPT !.rev = r] :
          a \in {2, 3, 6}, args \in Triples({0, WordBytes}, DataOffset, Size),
          r \in {R07_Istanbul, R09_Berlin}}

Jumps ==
  {[At(I(op), <<target, condition>>) EXCEPT !.code =
      <<I(op), I("JUMPDEST"), I("STOP"), IN_("PUSH", 1), Data(0), I("STOP"), I("JUMPDEST")>>] :
     op \in {"JUMP", "JUMPI"}, target \in Target, condition \in {0, 1}}
  \cup {[At(I("JUMP"), <<target>>) EXCEPT !.code = <<I("JUMP")>> \o data \o <<I("JUMPDEST"), I("PC")>>] :
          target \in 0 .. 8, data \in {<<IN_("PUSH", 2), I("JUMPDEST"), IN_("PUSH", 3), I("JUMPDEST")>>,
                                      <<IN_("PUSH", 3), I("JUMPDEST"), IN_("PUSH", 1)>>,
                                      <<IN_("PUSH", 1), IN_("PUSH", 1), I("JUMPDEST")>>}}

\* A PUSH at the end of the code, with less data than it wants, and what
\* precedes it.
Truncated ==
  {[Base EXCEPT !.code = before \o <<IN_("PUSH", n)>> \o [k \in 1 .. MinOf(m, n) |-> Data(30 - k)]] :
     before \in {<<>>, <<I("PC")>>, <<IN_("PUSH", 2), Data(3), Data(4)>>, <<I("PC"), I("JUMPDEST")>>},
     n \in 1 .. WordBytes, m \in 0 .. WordBytes - 1}

\* Every super instruction, at every height of the stack, before a jump
\* destination, another instruction or the end of the code.  Its data and some
\* elements of the stack are where the jump destination is, or would be.
SuperCode(super, target) ==
  LET bytes(i) == <<i>> \o (IF i.op = "PUSH"
                            THEN [k \in 1 .. i.n |-> Data(IF k = i.n THEN target ELSE 0)]
                            ELSE <<>>)
  IN  FoldLeft(LAMBDA code, i : code \o bytes(i), <<>>, super[2])
SuperAt(before, super, after, n, g) ==
  LET target == Len(before) + TotalWidth(super[2]) + Bool(Head(after).op = "STOP")
      large == 2 * (MaxInt32 + 1) + target
  IN  {[Base EXCEPT !.code = before \o SuperCode(super, target) \o after, !.pc = Len(before),
          !.gas = g, !.stack = SubSeq(top \o <<4, 5, 6, 7, 8>>, 1, n)] :
         top \in {<<0, target, target>>, <<target, 0, large>>, <<3, target, MaxInt32 + 1>>}}
Supers ==
  UNION {SuperAt(before, SuperInstructions[k], after, n, g) :
           before \in {<<>>, <<IN_("PUSH", 1), Data(1), I("JUMPDEST")>>},
           k \in DOMAIN SuperInstructions, n \in 0 .. MaxStackSize, g \in {8, 1000},
           after \in {<<I("JUMPDEST"), I("PC")>>, <<I("STOP"), I("JUMPDEST")>>, <<I("STOP")>>}}

\* Every value a slot can have had, has and is to get; a slot that was written
\* in the course of the transaction is warm.
Slots ==
  {s \in {[At(I("SSTORE"), <<0, new>>) EXCEPT !.rev = r, !.original = (0 :> o), !.storage = (0 :> c),
             !.warmKeys = w, !.readOnly = ro, !.refund = 30000] :
            new \in 0 .. 3, r \in Revision, o \in 0 .. 1, c \in 0 .. 2, w \in {{}, {0}},
            ro \in BOOLEAN} :
     s.storage = s.original \/ 0 \in s.warmKeys}
  \cup {[At(I(op), <<k, v>>) EXCEPT !.rev = r, !.warmKeys = w, !.readOnly = ro] :
          op \in {"SLOAD", "TLOAD", "TSTORE"}, k \in {0, 1}, v \in {0, 9}, r \in Revision,
          w \in {{}, {0}}, ro \in BOOLEAN}

Accounts ==
  {[At(I(op), <<a>>) EXCEPT !.rev = r] :
     op \in {"BALANCE", "EXTCODESIZE", "EXTCODEHASH"}, a \in Address, r \in Revision}
  \cup {[At(I("SELFDESTRUCT"), <<a>>) EXCEPT !.rev = r, !.readOnly = ro, !.isNew = new,
           !.destructed = d, !.destructs = IF d THEN <<<<1, 2>>>> ELSE <<>>,
           !.accounts[1].balance = b] :
          a \in {2, 4, 6}, r \in Revision, ro \in BOOLEAN, new \in BOOLEAN, d \in BOOLEAN,
          b \in {0, 5}}

Creates ==
  {[At(I(op), <<v>> \o args \o <<77>>) EXCEPT !.rev = r, !.future = f, !.readOnly = ro] :
     op \in {"CREATE", "CREATE2"}, v \in Value, args \in Pairs({0, MaxUint64 + 1}, {0, WordBytes + 1}),
     r \in {R11_Paris, R12_Shanghai}, f \in Futures, ro \in BOOLEAN}
  \cup {[At(I(op), <<0>> \o args \o <<77>>) EXCEPT !.rev = r] :
          op \in {"CREATE", "CREATE2"}, args \in Pairs(Offset, InitCodeSize),
          r \in {R11_Paris, R12_Shanghai}}

\* The value is only there for CALL and CALLCODE.
CallAt(op, gas, address, value, memory) ==
  At(I(op), <<gas, address>> \o (IF op \in {"CALL", "CALLCODE"} THEN <<value>> ELSE <<>>) \o memory)
CallOps == {"CALL", "CALLCODE", "STATICCALL", "DELEGATECALL"}

Calls ==
  {[CallAt(op, g, a, v, <<0, 2, 3, 3>>) EXCEPT !.rev = r, !.readOnly = ro, !.future = f,
      !.memory = TwoWords] :
     op \in CallOps, g \in Gas, a \in Address, v \in Value,
     r \in {R07_Istanbul, R13_Cancun, R14_Prague}, ro \in BOOLEAN, f \in {<<Success>>}}
  \cup {[CallAt(op, g, a, v, <<0, 2, 3, 3>>) EXCEPT !.future = f] :
          op \in CallOps, g \in {5000}, a \in {2, 6}, v \in {0, 1}, f \in Futures}
  \cup {[CallAt(op, 5000, 2, 0, args \o rets) EXCEPT !.future = <<Success>>, !.memory = m] :
          op \in CallOps, args \in Pairs({0, WordBytes, MaxUint64}, {0, 2, MaxUint64 + 1}),
          rets \in Pairs({0, WordBytes - 1, MaxUint64 + 1}, {0, 3, MaxMemoryExpansionSize + 1}),
          m \in {<<>>, TwoWords}}

\* Every instruction at every height of the stack and in every revision.
Instructions ==
  {I(op) : op \in (WordOps \ {"PUSH", "DUP", "SWAP"}) \cup DataOps \cup PushOps \cup CallOps
                  \cup {"PC", "JUMPDEST", "STOP", "RETURN", "REVERT", "JUMP", "JUMPI", "SLOAD", "SSTORE",
                        "TLOAD", "TSTORE", "SELFDESTRUCT", "CREATE", "CREATE2", "INVALID"}}
  \cup {IN_("PUSH", n) : n \in 1 .. WordBytes}
  \cup {IN_(op, n) : op \in {"DUP", "SWAP"}, n \in 1 .. 3} \cup {IN_("LOG", n) : n \in 0 .. 4}
Heights ==
  {[At(i, [k \in 1 .. n |-> k]) EXCEPT !.rev = r, !.gas = g] :
     i \in Instructions, n \in 0 .. MaxStackSize, r \in Revision, g \in {1, Plenty - 1}}

\* Short programs, to meet states that come about by running.
Pieces ==
  {<<IN_("PUSH", 1), Data(0)>>, <<IN_("DUP", 2)>>, <<IN_("SWAP", 1)>>}
  \cup {<<I(op)>> : op \in {"SLOAD", "SSTORE", "TSTORE", "MSTORE", "JUMPI", "JUMPDEST", "SHA3",
                            "BALANCE", "STATICCALL", "SELFDESTRUCT", "RETURN"}}
Programs ==
  {[Base EXCEPT !.code = <<I("JUMPDEST")>> \o p \o q \o r, !.readOnly = ro, !.gas = 50000,
     !.stack = <<0, 2, 1, 2, 0, 4>>, !.future = <<Success>>] :
     p \in Pieces, q \in Pieces, r \in Pieces, ro \in BOOLEAN}
\* Back to the start until the gas is gone.
Loop ==
  [Base EXCEPT !.code = <<I("JUMPDEST"), IN_("PUSH", 1), Data(0), I("JUMP")>>, !.gas = 100]

MCTestStates ==
  [words |-> Words, memory |-> Memory, jumps |-> Jumps \cup Truncated, slots |-> Slots, accounts |-> Accounts,
   creates |-> Creates, calls |-> Calls, heights |-> Heights, programs |-> Programs, supers |-> Supers,
   others |-> {Loop, Base}]
=============================================================================
