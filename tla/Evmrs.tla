-------------------------------- MODULE Evmrs --------------------------------
(***************************************************************************)
(* The evmrs interpreter (rust/src) behind the EVMC host: one instruction  *)
(* as a function from states to states, the way Interpreter::run runs it   *)
(* with a bound of one step.                                               *)
(*                                                                         *)
(* There is no table of stack heights and costs.  Every instruction is a   *)
(* sequence of operations that may fail (Rust's ? operator): consume gas,  *)
(* pop, reach for memory, push.  All kinds of failure end in one status.   *)
(***************************************************************************)
EXTENDS EvmcHost

Checked(c, condition) == IF condition THEN c ELSE Fail(c)

-----------------------------------------------------------------------------
\* Gas, which is never more than an i64 holds

consume(c, gas) == IF c.gas < gas THEN Fail(c) ELSE [c EXCEPT !.gas = @ - gas]
add_gas(c, gas) == IF c.gas + gas > MaxInt64 THEN Fail(c) ELSE [c EXCEPT !.gas = @ + gas]

fits_word_size(len) == len + WordBytes - 1 <= MaxUint64
word_size(len) == (len + WordBytes - 1) \div WordBytes

consume_copy_cost(c, len) ==
  Then(Checked(c, fits_word_size(len)), LAMBDA d : consume(d, 3 * word_size(len)))

\* The host marks the account, and tells whether it was marked before.
consume_address_access_cost(c, addr) ==
  IF c.rev < R09_Berlin THEN c
  ELSE consume(MarkWarm(c, addr), IF addr \in c.warm THEN 100 ELSE 2600)

consume_positive_value_cost(c, value) == consume(c, IF value # 0 THEN 9000 ELSE 0)

consume_value_to_empty_account_cost(c, value, addr) ==
  consume(c, IF value # 0 /\ ~AccountExists(c, addr) THEN 25000 ELSE 0)

consume_delegate_resolution_cost(c, addr) ==
  LET delegation == ParseDelegationDesignator(GetCode(c, addr))
  IN  IF c.rev < R14_Prague \/ delegation = {} THEN c
      ELSE consume_address_access_cost(c, CHOOSE a \in delegation : TRUE)

-----------------------------------------------------------------------------
\* Stack and code

check_underflow(c, n) == Checked(c, Len(c.stack) >= n)
push_checked(c, value) == IF Len(c.stack) >= MaxStackSize THEN Fail(c) ELSE Push(c, value)
next(c) == [c EXCEPT !.pc = @ + 1]

\* What nearly every instruction starts with; its arguments stay on the stack
\* until it is done, where nothing but the instruction sees them.
enter(c, cost, pops) == Then(consume(c, cost), LAMBDA d : check_underflow(d, pops))

\* The type of a byte, and how many bytes of data follow it.
code_byte_type(byte) ==
  CASE byte.op = "PUSH" -> <<"Opcode", byte.n>>
    [] byte.op = "JUMPDEST" -> <<"JumpDest", 0>>
    [] byte.op = "DATA" -> <<"DataOrInvalid", 0>>
    [] OTHER -> <<"Opcode", 0>>

\* The types of all bytes; those that are not reached are data.
RECURSIVE analyze_from(_, _, _)
analyze_from(code, pc, types) ==
  IF pc >= Len(code) THEN types
  ELSE LET type == code_byte_type(code[pc + 1])
       IN  analyze_from(code, pc + 1 + type[2], [types EXCEPT ![pc + 1] = type[1]])
analyze_code(code) == analyze_from(code, 0, [k \in 1 .. Len(code) |-> "DataOrInvalid"])

try_jump(c, dest) ==
  IF IsUint64(dest) /\ dest < Len(c.code) /\ analyze_code(c.code)[dest + 1] = "JumpDest"
  THEN [c EXCEPT !.pc = dest] ELSE Fail(c)

get_push_data(c, n) ==
  FromBytes([i \in 1 .. n |-> GetData(c, c.pc + i)])

-----------------------------------------------------------------------------
\* Memory

\* The squares must fit 64 bits.
consume_expansion_cost(c, new_len) ==
  LET words == word_size(new_len)
  IN  IF words > MaxUint64 \div words \/ ~fits_word_size(new_len) THEN Fail(c)
      ELSE consume(c, MemoryCost(words) - MemoryCost(word_size(Len(c.memory))))

expand(c, new_len_bytes) ==
  LET new_len == word_size(new_len_bytes) * WordBytes
  IN  IF ~fits_word_size(new_len_bytes) THEN Fail(c)
      ELSE IF new_len <= Len(c.memory) THEN c
      ELSE Then(consume_expansion_cost(c, new_len), LAMBDA d :
             [d EXCEPT !.memory = @ \o Zeros(new_len - Len(@))])

\* Pays for the memory that a slice needs; its content is Span of the result.
get_mut_slice(c, offset, len) ==
  IF len = 0 THEN c
  ELSE Then(Checked(c, IsUint64(offset) /\ offset + len <= MaxUint64), LAMBDA d :
         expand(d, offset + len))

\* Mutant: only the end of the destination is reached for.
copy_within_destination(c, src_offset, dest_offset, len) ==
  LET end == dest_offset + len
  IN  Then(Checked(c, IsUint64(src_offset) /\ IsUint64(len) /\ end <= MaxUint64), LAMBDA d :
      Then(consume_copy_cost(d, len), LAMBDA e :
      Then(expand(e, end), LAMBDA f :
        [f EXCEPT !.memory = Overwrite(@, dest_offset,
           [i \in 1 .. len |-> IF src_offset + i <= Len(f.memory) THEN f.memory[src_offset + i]
                               ELSE 0])])))

copy_within(c, src_offset, dest_offset, len) ==
  LET end == MaxOf(src_offset, dest_offset) + len
  IN  Then(Checked(c, IsUint64(len) /\ end <= MaxUint64), LAMBDA d :
      Then(consume_copy_cost(d, len), LAMBDA e :
      Then(expand(e, end), LAMBDA f :
        [f EXCEPT !.memory = Overwrite(@, dest_offset, Span(f.memory, src_offset, len))])))

\* The part of the data that there is, given an offset that may be any word.
get_within_bounds(data, offset, len) ==
  LET end == offset + len
  IN  IF len = 0 \/ ~IsUint64(offset) \/ end > MaxUint64 \/ offset >= Len(data) THEN <<>>
      ELSE SubSeq(data, offset + 1, MinOf(end, Len(data)))

\* The slice is paid for before the copy is.
copy_padded(c, dest_offset, len, src) ==
  Then(get_mut_slice(c, dest_offset, len), LAMBDA d :
  Then(consume_copy_cost(d, len), LAMBDA e :
    [e EXCEPT !.memory = Overwrite(@, dest_offset,
       [i \in 1 .. len |-> IF i <= Len(src) THEN src[i] ELSE 0])]))

-----------------------------------------------------------------------------
\* u256, which is made of two halves

HalfBits == WordBits \div 2
\* Shifted left out of a half and back, the sign moving in.
sign_fill(half, shift) ==
  LET left == (half * 2^shift) % Half
      sign == IF left >= Half \div 2 THEN Half - 2^(HalfBits - shift) ELSE 0
  IN  left \div 2^shift + sign

signextend(size, rhs) ==
  LET lo == sign_fill(rhs % Half, (WordBytes \div 2 - 1 - size) * ByteBits)
      hi == sign_fill(rhs \div Half, (WordBytes - 1 - size) * ByteBits)
  IN  IF size >= WordBytes - 1 THEN rhs
      ELSE IF size < WordBytes \div 2 THEN (IF lo >= Half \div 2 THEN Half - 1 ELSE 0) * Half + lo
      ELSE hi * Half + (rhs % Half)

byte_at(value, index) ==
  LET pos == WordBytes - 1 - index
      half == IF pos < WordBytes \div 2 THEN value % Half ELSE value \div Half
  IN  IF index >= WordBytes THEN 0
      ELSE (half \div 2^((pos % (WordBytes \div 2)) * ByteBits)) % ByteMod

sar(value, shift) ==
  IF shift >= WordBits THEN (IF Signed(value) < 0 THEN MaxWord ELSE 0)
  ELSE (Signed(value) \div 2^shift) % WordMod

binary_ops(op, a, b) ==
  CASE op = "ADD" -> Add(a, b)
    [] op = "MUL" -> Mul(a, b)
    [] op = "SUB" -> Sub(a, b)
    [] op = "DIV" -> IF b = 0 THEN 0 ELSE Div(a, b)
    [] op = "SDIV" -> IF b = 0 THEN 0 ELSE SDiv(a, b)
    [] op = "MOD" -> IF b = 0 THEN 0 ELSE Mod(a, b)
    [] op = "SMOD" -> IF b = 0 THEN 0 ELSE SMod(a, b)
    [] op = "SIGNEXTEND" -> signextend(a, b)
    [] op = "LT" -> Bool(a < b)
    [] op = "GT" -> Bool(a > b)
    [] op = "SLT" -> Bool(Signed(a) < Signed(b))
    [] op = "SGT" -> Bool(Signed(a) > Signed(b))
    [] op = "EQ" -> Bool(a = b)
    [] op = "AND" -> a & b
    [] op = "OR" -> a | b
    [] op = "XOR" -> a ^^ b
    [] op = "BYTE" -> byte_at(b, a)
    [] op = "SHL" -> Lsh(b, a)
    [] op = "SHR" -> Rsh(b, a)
    [] op = "SAR" -> sar(b, a)

BinaryOp == {"ADD", "MUL", "SUB", "DIV", "SDIV", "MOD", "SMOD", "SIGNEXTEND", "LT", "GT", "SLT",
             "SGT", "EQ", "AND", "OR", "XOR", "BYTE", "SHL", "SHR", "SAR"}

binary_op(c, op) ==
  LET cost == IF op \in {"MUL", "DIV", "SDIV", "MOD", "SMOD", "SIGNEXTEND"} THEN 5 ELSE 3
  IN  Then(enter(c, cost, 2), LAMBDA d : next(PopPush(d, 2, binary_ops(op, d.stack[1], d.stack[2]))))

unary_ops(op, a) ==
  CASE op = "ISZERO" -> Bool(a = 0)
    [] op = "NOT" -> Complement(a)
    [] op = "CLZ" -> WordBits - BitLen(a)
unary_op(c, op) ==
  Then(enter(c, IF op = "CLZ" THEN 5 ELSE 3, 1), LAMBDA d :
    next(PopPush(d, 1, unary_ops(op, d.stack[1]))))

\* ADDMOD and MULMOD.
modular_op(c, op) ==
  Then(enter(c, 8, 3), LAMBDA d :
    LET a == d.stack[1]
        b == d.stack[2]
        m == d.stack[3]
    IN  next(PopPush(d, 3, IF m = 0 THEN 0
                           ELSE IF op = "ADDMOD" THEN AddMod(a, b, m) ELSE MulMod(a, b, m))))

exp(c) ==
  Then(enter(c, 10, 2), LAMBDA d :
  Then(consume(d, 50 * ((BitLen(d.stack[2]) + ByteBits - 1) \div ByteBits)), LAMBDA e :
    next(PopPush(e, 2, Exp(e.stack[1], e.stack[2])))))

push_value_ops(c, op) ==
  CASE op = "ADDRESS" -> Ctx.self
    [] op = "ORIGIN" -> Ctx.origin
    [] op = "CALLER" -> Ctx.caller
    [] op = "CALLVALUE" -> Ctx.value
    [] op = "CALLDATASIZE" -> Len(Ctx.callData)
    [] op = "CODESIZE" -> Len(c.code)
    [] op = "GASPRICE" -> Ctx.gasPrice
    [] op = "RETURNDATASIZE" -> Len(c.lastReturn)
    [] op = "COINBASE" -> Ctx.coinbase
    [] op = "TIMESTAMP" -> Ctx.timestamp
    [] op = "NUMBER" -> Ctx.number
    [] op = "PREVRANDAO" -> Ctx.prevRandao
    [] op = "GASLIMIT" -> Ctx.gasLimit
    [] op = "CHAINID" -> Ctx.chainId
    [] op = "SELFBALANCE" -> GetBalance(c, Ctx.self)
    [] op = "BASEFEE" -> Ctx.baseFee
    [] op = "BLOBBASEFEE" -> Ctx.blobBaseFee
    [] op = "PC" -> c.pc
    [] op = "MSIZE" -> Len(c.memory)
    [] op = "GAS" -> c.gas
    [] op = "PUSH0" -> 0

PushValueOp == {"ADDRESS", "ORIGIN", "CALLER", "CALLVALUE", "CALLDATASIZE", "CODESIZE", "GASPRICE",
                "RETURNDATASIZE", "COINBASE", "TIMESTAMP", "NUMBER", "PREVRANDAO", "GASLIMIT",
                "CHAINID", "SELFBALANCE", "BASEFEE", "BLOBBASEFEE", "PC", "MSIZE", "GAS", "PUSH0"}

push_value_op(c, op) ==
  Then(consume(c, IF op = "SELFBALANCE" THEN 5 ELSE 2), LAMBDA d :
  Then(push_checked(d, push_value_ops(d, op)), LAMBDA e : next(e)))

push_n(c, n) ==
  Then(consume(c, 3), LAMBDA d :
  Then(push_checked(d, get_push_data(d, n)), LAMBDA e : [e EXCEPT !.pc = @ + n + 1]))

dup(c, n) ==
  Then(enter(c, 3, n), LAMBDA d : Then(push_checked(d, d.stack[n]), LAMBDA e : next(e)))

swap(c, n) ==
  Then(enter(c, 3, n + 1), LAMBDA d :
    next([d EXCEPT !.stack = [@ EXCEPT ![1] = d.stack[n + 1], ![n + 1] = d.stack[1]]]))

-----------------------------------------------------------------------------
\* Memory and data

sha3(c) ==
  Then(enter(c, 30, 2), LAMBDA d :
    LET offset == d.stack[1]
        len == d.stack[2]
    IN  Then(Checked(d, IsUint64(len) /\ fits_word_size(len)), LAMBDA e :
        Then(consume(e, 6 * word_size(len)), LAMBDA f :
        Then(get_mut_slice(f, offset, len), LAMBDA g :
          next(PopPush(g, 2, Keccak256(Span(g.memory, offset, len))))))))

\* CALLDATACOPY and CODECOPY.
data_copy(c, data) ==
  Then(enter(c, 3, 3), LAMBDA d :
    LET dest_offset == d.stack[1]
        len == d.stack[3]
    IN  IF len = 0 THEN next(Pop(d, 3))
        ELSE Then(Checked(d, IsUint64(len)), LAMBDA e :
             Then(copy_padded(e, dest_offset, len, get_within_bounds(data, d.stack[2], len)),
                  LAMBDA f : next(Pop(f, 3)))))

\* The bounds of the data are checked before anything is paid for.
return_data_copy(c) ==
  Then(enter(c, 3, 3), LAMBDA d :
    LET dest_offset == d.stack[1]
        offset == d.stack[2]
        len == d.stack[3]
    IN  IF offset + len > MaxUint64 \/ offset + len > Len(d.lastReturn) THEN Fail(d)
        ELSE IF len = 0 THEN next(Pop(d, 3))
        ELSE Then(copy_padded(d, dest_offset, len, SubSeq(d.lastReturn, offset + 1, offset + len)),
                  LAMBDA e : next(Pop(e, 3))))

\* What the offset is cut down to is copied, and cleared again if it was cut.
ext_code_copy(c) ==
  LET addr == AddressOf(c.stack[1])
      code == GetCode(c, addr)
      len == c.stack[4]
      offset == Uint64(c.stack[3])
      copied == IF offset < Len(code) THEN SubSeq(code, offset + 1, MinOf(offset + len, Len(code)))
                ELSE <<>>
      src == IF IsUint64(c.stack[3]) THEN copied ELSE <<>>
  IN  Then(enter(c, IF c.rev < R09_Berlin THEN 700 ELSE 0, 4), LAMBDA d :
      Then(consume_address_access_cost(d, addr), LAMBDA e :
        IF len = 0 THEN next(Pop(e, 4))
        ELSE Then(Checked(e, IsUint64(len)), LAMBDA f :
             Then(copy_padded(f, c.stack[2], len, src), LAMBDA g : next(Pop(g, 4))))))

m_copy(c) ==
  Then(enter(c, 3, 3), LAMBDA d :
    IF d.stack[3] = 0 THEN next(Pop(d, 3))
    ELSE Then(copy_within(d, d.stack[2], d.stack[1], d.stack[3]), LAMBDA e : next(Pop(e, 3))))

m_load(c) ==
  Then(enter(c, 3, 1), LAMBDA d :
  Then(get_mut_slice(d, d.stack[1], WordBytes), LAMBDA e :
    next(PopPush(e, 1, FromBytes(Span(e.memory, e.stack[1], WordBytes))))))

\* MSTORE and MSTORE8: `size' bytes from the end of the word.
m_store(c, size) ==
  Then(enter(c, 3, 2), LAMBDA d :
  Then(get_mut_slice(d, d.stack[1], size), LAMBDA e :
    next(Pop([e EXCEPT !.memory = Overwrite(@, e.stack[1],
                 SubSeq(Bytes(e.stack[2]), WordBytes - size + 1, WordBytes))], 2))))

call_data_load(c) ==
  Then(enter(c, 3, 1), LAMBDA d :
    LET offset == d.stack[1]
        byte(i) == IF IsUint64(offset) /\ offset + i <= Len(Ctx.callData)
                   THEN Ctx.callData[offset + i] ELSE 0
    IN  next(PopPush(d, 1, FromBytes([i \in 1 .. WordBytes |-> byte(i)]))))

\* A number that is no i64 becomes a negative one, which the host has no hash of.
block_hash(c) ==
  Then(enter(c, 20, 1), LAMBDA d :
    LET number == d.stack[1]
        signed == IF number > MaxInt64 THEN number - (MaxUint64 + 1) ELSE number
    IN  next(PopPush(d, 1, IF IsUint64(number) THEN GetBlockHash(signed) ELSE 0)))

blob_hash(c) ==
  Then(enter(c, 3, 1), LAMBDA d :
    next(PopPush(d, 1, IF IsUint64(d.stack[1]) /\ d.stack[1] < Len(Ctx.blobHashes)
                       THEN Ctx.blobHashes[d.stack[1] + 1] ELSE 0)))

\* RETURN and REVERT.
return_(c, status) ==
  Then(check_underflow(c, 2), LAMBDA d :
    LET offset == d.stack[1]
        len == d.stack[2]
    IN  Then(Checked(d, IsUint64(len)), LAMBDA e :
        Then(get_mut_slice(e, offset, len), LAMBDA f :
          [Pop(f, 2) EXCEPT !.returnData = Span(f.memory, offset, len), !.status = status])))

check_not_read_only(c) == Checked(c, ~c.readOnly)

\* The topics are popped after the range, with a check of their own.
log(c, n) ==
  Then(check_not_read_only(c), LAMBDA b :
  Then(enter(b, 375, n + 2), LAMBDA d :
    LET offset == d.stack[1]
        len == d.stack[2]
        cost == 375 * n + 8 * len
    IN  Then(Checked(d, IsUint64(len) /\ cost <= MaxUint64), LAMBDA e :
        Then(consume(e, cost), LAMBDA f :
        Then(get_mut_slice(f, offset, len), LAMBDA g :
          next(Pop(AddLog(g, Span(g.memory, offset, len), SubSeq(g.stack, 3, n + 2)), n + 2)))))))

-----------------------------------------------------------------------------
\* Storage and accounts

s_load(c) ==
  LET key == c.stack[1]
      berlin == c.rev >= R09_Berlin
  IN  Then(enter(c, IF berlin THEN 0 ELSE 800, 1), LAMBDA d :
      Then(IF berlin THEN consume(MarkKeyWarm(d, key), IF key \in d.warmKeys THEN 100 ELSE 2100)
           ELSE d, LAMBDA e :
        next(PopPush(e, 1, Get(e.storage, key)))))

\* The three costs and the three refunds of a revision.
sstore_gas(rev) ==
  IF rev >= R10_London THEN [dyn |-> <<100, 2900, 20000>>, refund |-> <<2800, 4800, 19900>>]
  ELSE IF rev >= R09_Berlin THEN [dyn |-> <<100, 2900, 20000>>, refund |-> <<2800, 15000, 19900>>]
  ELSE [dyn |-> <<800, 5000, 20000>>, refund |-> <<4200, 15000, 19200>>]

dyn_gas(g, status) ==
  IF status = "StorageAdded" THEN g.dyn[3]
  ELSE IF status \in {"StorageDeleted", "StorageModified"} THEN g.dyn[2]
  ELSE g.dyn[1]

gas_refund_change(g, status) ==
  CASE status \in {"StorageDeleted", "StorageModifiedDeleted"} -> g.refund[2]
    [] status = "StorageDeletedAdded" -> -g.refund[2]
    [] status = "StorageDeletedRestored" -> g.refund[1] - g.refund[2]
    [] status = "StorageAddedDeleted" -> g.refund[3]
    [] status = "StorageModifiedRestored" -> g.refund[1]
    [] OTHER -> 0

\* The slot is written before it is accessed; the access has no effect on the
\* status, and a failure undoes both.
sstore(c) ==
  Then(check_not_read_only(c), LAMBDA b :
  Then(Checked(b, b.gas > 2300), LAMBDA b2 :
  Then(check_underflow(b2, 2), LAMBDA d :
    LET key == d.stack[1]
        value == d.stack[2]
        status == GetStorageStatus(Get(d.original, key), Get(d.storage, key), value)
        berlin == d.rev >= R09_Berlin
        written == SetCurrent(d, key, value)
        accessed == IF berlin THEN MarkKeyWarm(written, key) ELSE written
        cold == IF berlin /\ key \notin d.warmKeys THEN 2100 ELSE 0
        g == sstore_gas(d.rev)
    IN  Then(consume(accessed, dyn_gas(g, status) + cold), LAMBDA e :
          next([Pop(e, 2) EXCEPT !.refund = @ + gas_refund_change(g, status)])))))

t_load(c) ==
  Then(enter(c, 100, 1), LAMBDA d : next(PopPush(d, 1, Get(d.transient, d.stack[1]))))
t_store(c) ==
  Then(check_not_read_only(c), LAMBDA b :
  Then(enter(b, 100, 2), LAMBDA d : next(SetTransient(Pop(d, 2), d.stack[1], d.stack[2]))))

\* BALANCE, EXTCODESIZE and EXTCODEHASH.
account_info(c, op) ==
  Then(enter(c, IF c.rev < R09_Berlin THEN 700 ELSE 0, 1), LAMBDA d :
    LET addr == AddressOf(d.stack[1])
    IN  Then(consume_address_access_cost(d, addr), LAMBDA e :
          next(PopPush(e, 1, CASE op = "BALANCE" -> GetBalance(e, addr)
                               [] op = "EXTCODESIZE" -> Len(GetCode(e, addr))
                               [] op = "EXTCODEHASH" -> HostGetCodeHash(e, addr)))))

self_destruct(c) ==
  Then(check_not_read_only(c), LAMBDA b :
  Then(enter(b, 5000, 1), LAMBDA d :
    LET addr == AddressOf(d.stack[1])
        berlin == d.rev >= R09_Berlin
        created == GetBalance(d, Ctx.self) > 0 /\ ~AccountExists(d, addr)
    IN  Then(IF berlin THEN consume(MarkWarm(d, addr), IF addr \in d.warm THEN 0 ELSE 2600)
             ELSE d, LAMBDA e :
        Then(consume(e, IF created THEN 25000 ELSE 0), LAMBDA f :
          LET done == SelfDestruct(f, addr)
          IN  [Pop(done.state, 1) EXCEPT
                 !.refund = @ + (IF f.rev <= R09_Berlin /\ done.first THEN 24000 ELSE 0),
                 !.status = "stopped"]))))

-----------------------------------------------------------------------------
\* Creations and calls

create_costs(c, op, len) ==
  Then(Checked(c, IsUint64(len) /\ fits_word_size(len)), LAMBDA d :
  Then(IF d.rev < R12_Shanghai THEN d
       ELSE IF len > MaxInitCodeSize THEN Fail(d) ELSE consume(d, 2 * word_size(len)), LAMBDA e :
    consume(e, IF op = "CREATE2" THEN 6 * word_size(len) ELSE 0)))

\* The creation once it is paid for: the gas of the callee is taken away
\* before, and what it leaves is given back.
finish_create(c, op, value, init_code) ==
  LET gas_limit == c.gas - c.gas \div 64
      msg == [kind |-> op, static |-> c.readOnly, sender |-> Ctx.self, recipient |-> 0,
              code_address |-> 0, value |-> value, gas |-> gas_limit, input |-> init_code]
      called == HostCall([c EXCEPT !.gas = @ - gas_limit], msg)
      result == called.result
  IN  IF value > GetBalance(c, Ctx.self)
      THEN Then(push_checked([c EXCEPT !.lastReturn = <<>>], 0), LAMBDA d : next(d))
      ELSE Then(add_gas(called.state, called.gasLeft), LAMBDA d :
           Then(push_checked([d EXCEPT !.refund = @ + result.refund,
                                       !.lastReturn = IF result.success THEN <<>> ELSE result.output],
                             IF result.success THEN result.created ELSE 0), LAMBDA e : next(e)))

create_or_create2(c, op) ==
  LET pops == IF op = "CREATE2" THEN 4 ELSE 3
  IN  Then(consume(c, 32000), LAMBDA a :
      Then(check_not_read_only(a), LAMBDA b :
      Then(check_underflow(b, pops), LAMBDA d :
        LET offset == d.stack[2]
            len == d.stack[3]
        IN  Then(create_costs(d, op, len), LAMBDA e :
            Then(get_mut_slice(e, offset, len), LAMBDA f :
              finish_create(Pop(f, pops), op, d.stack[1], Span(f.memory, offset, len)))))))

\* The call itself, once its costs are paid.  The stipend is given to the caller
\* first; the callee's gas is taken away after what it left was added.
finish_call(c, msg, stipend, ret_offset, ret_len) ==
  Then(add_gas(c, stipend), LAMBDA d :
    IF stipend # 0 /\ msg.value > GetBalance(d, Ctx.self)
    THEN Then(push_checked([d EXCEPT !.lastReturn = <<>>], 0), LAMBDA e : next(e))
    ELSE With(HostCall(d, msg), LAMBDA called :
      LET output == called.result.output
          min_len == MinOf(Len(output), ret_len)
          written == [called.state EXCEPT
                        !.lastReturn = output,
                        !.memory = Overwrite(@, ret_offset, SubSeq(output, 1, min_len))]
      IN  Then(add_gas(written, called.gasLeft), LAMBDA e :
          Then(consume(e, msg.gas), LAMBDA f :
          Then(push_checked([f EXCEPT !.refund = @ + called.result.refund],
                            Bool(called.result.success)), LAMBDA g : next(g))))))

call_costs(c, op, addr, value) ==
  Then(consume_address_access_cost(c, addr), LAMBDA d :
  Then(consume_positive_value_cost(d, value), LAMBDA e :
  Then(IF op = "CALL" THEN consume_value_to_empty_account_cost(e, value, addr) ELSE e, LAMBDA f :
    consume_delegate_resolution_cost(f, addr))))

\* call_or_call_code and static_or_delegate_call, which has no value.
call(c, op) ==
  LET valued == op \in {"CALL", "CALLCODE"}
      pops == IF valued THEN 7 ELSE 6
  IN  Then(enter(c, IF c.rev < R09_Berlin THEN 700 ELSE 0, pops), LAMBDA d :
        LET gas == d.stack[1]
            addr == AddressOf(d.stack[2])
            value == IF valued THEN d.stack[3] ELSE 0
            args == SubSeq(d.stack, pops - 3, pops - 2)   \* offset and length
            ret == SubSeq(d.stack, pops - 1, pops)
            stipend == IF value # 0 THEN 2300 ELSE 0
            message(s) ==
              [kind |-> IF op = "STATICCALL" THEN "CALL" ELSE op,
               static |-> op = "STATICCALL" \/ s.readOnly,
               sender |-> IF op = "DELEGATECALL" THEN Ctx.caller ELSE Ctx.self,
               recipient |-> IF op \in {"CALL", "STATICCALL"} THEN addr ELSE Ctx.self,
               code_address |-> addr,
               value |-> IF op = "DELEGATECALL" THEN Ctx.value ELSE value,
               input |-> Span(s.memory, args[1], args[2]),
               gas |-> MinOf(MinOf(gas, MaxUint64), s.gas - s.gas \div 64) + stipend]
        IN  Then(Checked(d, op = "CALL" /\ value # 0 => ~d.readOnly), LAMBDA e :
            Then(Checked(e, IsUint64(args[2]) /\ IsUint64(ret[2])), LAMBDA f :
            Then(call_costs(f, op, addr, value), LAMBDA g :
            Then(get_mut_slice(g, ret[1], ret[2]), LAMBDA h :
            Then(get_mut_slice(h, args[1], args[2]), LAMBDA k :
              finish_call(Pop(k, pops), message(k), stipend, ret[1], ret[2])))))))

-----------------------------------------------------------------------------
\* The dispatch of one step

check_min_revision(c, op) ==
  Checked(c, c.rev >= CASE op = "BASEFEE" -> R10_London
                        [] op = "PUSH0" -> R12_Shanghai
                        [] op \in {"BLOBHASH", "BLOBBASEFEE", "MCOPY", "TLOAD", "TSTORE"} -> R13_Cancun
                        [] op = "CLZ" -> R15_Osaka
                        [] OTHER -> R07_Istanbul)

jump(c) == Then(enter(c, 8, 1), LAMBDA d : try_jump(Pop(d, 1), d.stack[1]))
jump_i(c) ==
  Then(enter(c, 10, 2), LAMBDA d :
    IF d.stack[2] = 0 THEN next(Pop(d, 2)) ELSE try_jump(Pop(d, 2), d.stack[1]))

jumptable(c, i) ==
  LET op == i.op
  IN  CASE op \in BinaryOp -> binary_op(c, op)
        [] op \in {"ISZERO", "NOT", "CLZ"} -> unary_op(c, op)
        [] op \in {"ADDMOD", "MULMOD"} -> modular_op(c, op)
        [] op = "EXP" -> exp(c)
        [] op \in PushValueOp -> push_value_op(c, op)
        [] op = "SHA3" -> sha3(c)
        [] op = "CALLDATALOAD" -> call_data_load(c)
        [] op = "CALLDATACOPY" -> data_copy(c, Ctx.callData)
        [] op = "CODECOPY" -> data_copy(c, CodeBytes(c))
        [] op = "EXTCODECOPY" -> ext_code_copy(c)
        [] op = "RETURNDATACOPY" -> return_data_copy(c)
        [] op = "BLOCKHASH" -> block_hash(c)
        [] op = "BLOBHASH" -> blob_hash(c)
        [] op = "POP" -> Then(enter(c, 2, 1), LAMBDA d : next(Pop(d, 1)))
        [] op = "MLOAD" -> m_load(c)
        [] op = "MSTORE" -> m_store(c, WordBytes)
        [] op = "MSTORE8" -> m_store(c, 1)
        [] op = "MCOPY" -> m_copy(c)
        [] op = "SLOAD" -> s_load(c)
        [] op = "SSTORE" -> sstore(c)
        [] op = "TLOAD" -> t_load(c)
        [] op = "TSTORE" -> t_store(c)
        [] op = "JUMP" -> jump(c)
        [] op = "JUMPI" -> jump_i(c)
        [] op = "JUMPDEST" -> Then(consume(c, 1), LAMBDA d : next(d))
        [] op = "PUSH" -> push_n(c, i.n)
        [] op = "DUP" -> dup(c, i.n)
        [] op = "SWAP" -> swap(c, i.n)
        [] op = "LOG" -> log(c, i.n)
        [] op \in {"BALANCE", "EXTCODESIZE", "EXTCODEHASH"} -> account_info(c, op)
        [] op \in {"CREATE", "CREATE2"} -> create_or_create2(c, op)
        [] op \in {"CALL", "CALLCODE", "STATICCALL", "DELEGATECALL"} -> call(c, op)
        [] op = "RETURN" -> return_(c, "stopped")
        [] op = "REVERT" -> return_(c, "reverted")
        [] op = "SELFDESTRUCT" -> self_destruct(c)
        [] op = "STOP" -> [c EXCEPT !.status = "stopped"]
        [] OTHER -> Fail(c)

\* Beyond the end of the code the execution has stopped; data is no instruction.
step_n(c) ==
  IF ~Running(c) THEN c
  ELSE IF c.pc >= Len(c.code) THEN [c EXCEPT !.status = "stopped"]
  ELSE Then(check_min_revision(c, c.code[c.pc + 1].op), LAMBDA d : jumptable(d, c.code[c.pc + 1]))
=============================================================================
