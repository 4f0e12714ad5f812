------------------------------ MODULE EvmWords ------------------------------
(***************************************************************************)
(* The machine words of the EVM, scaled down: a byte has 5 bits instead of *)
(* 8, a word 4 bytes instead of 32, and the uint64 of Go, to which offsets *)
(* and sizes are converted, 18 bits instead of 64.  Each width leaves room *)
(* for the values above it that the code has to tell apart: words that are *)
(* not a uint64, uint64s that are not an int64, shifts beyond the width.   *)
(*                                                                         *)
(* The arithmetic of the holiman/uint256 library is given by what its      *)
(* documentation promises.  Intermediate results stay below 2^31.          *)
(***************************************************************************)
EXTENDS Integers, Sequences, SequencesExt, Bitwise

ByteBits == 5
WordBytes == 4
WordBits == ByteBits * WordBytes
ByteMod == 2^ByteBits
WordMod == 2^WordBits
MaxWord == WordMod - 1
SignBit == 2^(WordBits - 1)
MaxUint64 == 2^18 - 1
MaxInt64 == 2^17 - 1
MaxInt32 == 2^12 - 1
AddressMod == ByteMod     \* an address is the last byte of a word

Word == 0 .. MaxWord
Byte == 0 .. ByteMod - 1

IsUint64(w) == w <= MaxUint64
Uint64(w) == w % (MaxUint64 + 1)
Int32(n) == ((n + MaxInt32 + 1) % (2 * MaxInt32 + 2)) - MaxInt32 - 1
AddressOf(w) == w % AddressMod
Bool(b) == IF b THEN 1 ELSE 0
MinOf(a, b) == IF a < b THEN a ELSE b
MaxOf(a, b) == IF a > b THEN a ELSE b

\* The number of words that hold `size' bytes, without overflow.
SizeInWords(size) ==
  IF size > MaxUint64 - (WordBytes - 1) THEN MaxUint64 \div WordBytes + 1
  ELSE (size + WordBytes - 1) \div WordBytes

\* The i-th byte of a word, 0 being the most significant one.
ByteOf(w, i) == (w \div ByteMod^(WordBytes - 1 - i)) % ByteMod
Bytes(w) == [i \in 1 .. WordBytes |-> ByteOf(w, i - 1)]
FromBytes(data) == FoldLeft(LAMBDA acc, b : (acc * ByteMod + b) % WordMod, 0, data)
BitLen(w) == Min({n \in 0 .. WordBits : w < 2^n})
ByteLen(w) == Min({n \in 0 .. WordBytes : w < ByteMod^n})
Zeros(n) == [i \in 1 .. n |-> 0]

\* Keccak256, of which only the dependence on the data is used.
Keccak256(data) == FoldLeft(LAMBDA acc, b : (acc * 31 + b + 1) % WordMod, 7, data)

-----------------------------------------------------------------------------
\* uint256

Signed(w) == IF w >= SignBit THEN w - WordMod ELSE w
Abs(n) == IF n < 0 THEN -n ELSE n
Half == 2^(WordBits \div 2)

Add(a, b) == (a + b) % WordMod
Sub(a, b) == (a - b) % WordMod
Mul(a, b) == (((((a \div Half) * b) % Half) * Half) + (a % Half) * b) % WordMod
Div(a, b) == IF b = 0 THEN 0 ELSE a \div b
Mod(a, b) == IF b = 0 THEN 0 ELSE a % b
SDiv(a, b) ==
  LET q == Div(Abs(Signed(a)), Abs(Signed(b)))
  IN  (IF (Signed(a) < 0) = (Signed(b) < 0) THEN q ELSE -q) % WordMod
SMod(a, b) ==
  LET r == Mod(Abs(Signed(a)), Abs(Signed(b)))
  IN  (IF Signed(a) < 0 THEN -r ELSE r) % WordMod
AddMod(a, b, m) == Mod(a + b, m)
MulMod(a, b, m) ==
  IF m = 0 THEN 0
  ELSE ((((((a \div Half) * b) % m) * Half) % m) + (((a % Half) * b) % m)) % m
Exp(base, exponent) ==
  LET square == [w \in Word |-> Mul(w, w)]
      times == [w \in Word |-> Mul(w, base)]
      power[n \in 0 .. WordBits] ==    \* base to the upper n bits of the exponent
        IF n = 0 THEN 1
        ELSE IF (exponent \div 2^(WordBits - n)) % 2 = 0 THEN square[power[n - 1]]
        ELSE times[square[power[n - 1]]]
  IN  power[WordBits]
ExtendSign(w, byteNum) ==
  IF byteNum > WordBytes - 2 THEN w
  ELSE LET bits == (byteNum + 1) * ByteBits
           low == w % 2^bits
       IN  IF low >= 2^(bits - 1) THEN low + (WordMod - 2^bits) ELSE low
ByteAt(w, n) == IF n >= WordBytes THEN 0 ELSE ByteOf(w, n)
Complement(w) == MaxWord - w
Lsh(w, n) == IF n >= WordBits THEN 0 ELSE (w % 2^(WordBits - n)) * 2^n
Rsh(w, n) == IF n >= WordBits THEN 0 ELSE w \div 2^n
SRsh(w, n) ==
  IF w < SignBit THEN Rsh(w, n)
  ELSE IF n >= WordBits THEN MaxWord ELSE (Signed(w) \div 2^n) % WordMod
=============================================================================
