------------------------------- MODULE Words -------------------------------
(***************************************************************************)
(* The machine words the three processors compute with: Rust's u8, u16     *)
(* and u32, with wrapping arithmetic, shifts, rotations and sign           *)
(* extension.  A word is a natural number below M; the bitwise operations  *)
(* see it as the set of its one bits.  ByteBits is 8 in the code; with     *)
(* fewer bits per byte every word, halfword and byte keeps its place in    *)
(* the larger one, and TLC can go through more of them.                    *)
(***************************************************************************)
EXTENDS Integers, FiniteSetsExt, Functions

CONSTANT ByteBits
ASSUME WordsAssumption == ByteBits \in Nat \ {0}

Width == 4 * ByteBits          \* bits of a word
Span(n) == 2^(n * ByteBits)    \* values of n bytes
M == Span(4)
Word == 0 .. M - 1
Position == 0 .. Width - 1

BitsOf == [x \in Word |-> {i \in Position : (x \div 2^i) % 2 = 1}]
ValueOf == [S \in SUBSET Position |-> SumFunction([i \in S |-> 2^i])]

And(x, y) == ValueOf[BitsOf[x] \cap BitsOf[y]]
Or(x, y) == ValueOf[BitsOf[x] \cup BitsOf[y]]
Xor(x, y) == ValueOf[SymDiff(BitsOf[x], BitsOf[y])]
Not(x) == M - 1 - x

\* Two's complement, for any even number m of values.
Negative(x, m) == x >= m \div 2
Signed(x, m) == IF Negative(x, m) THEN x - m ELSE x
SignExtended(x, n) == Signed(x % Span(n), Span(n)) % M   \* x as iN as i32 as u32

\* Shifts by less than the number of bits they act on.
ShiftedLeft(x, n) == (x * 2^n) % M
ShiftedRight(x, n) == x \div 2^n
ArithmeticRight(x, n) == (Signed(x, M) \div 2^n) % M
RotatedRight(x, n) == ((x \div 2^n) + (x * 2^(Width - n))) % M
Bit(x, n) == (x \div 2^n) % 2 = 1

ByteAt(x, k) == (x \div Span(k)) % Span(1)
OfBytes(b, n) == SumFunction([k \in 0 .. n - 1 |-> b[k] * Span(k)])
SwapBytes(x, n) == OfBytes([k \in 0 .. n - 1 |-> ByteAt(x, n - 1 - k)], n)

\* An instruction word of 32 bits is the set of its one bits.
Bits(n) == {i \in 0 .. 30 : (n \div 2^i) % 2 = 1}
Match(raw, mask, value) == raw \cap Bits(mask) = Bits(value)   \* (raw & mask) == value

\* (raw >> lo) & (2^n - 1)
Field(raw, lo, n) == SumFunction([i \in raw \cap (lo .. lo + n - 1) |-> 2^(i - lo)])

\* The numbers of n bits, without and with a sign.
Unsigned(n) == 0 .. 2^n - 1
TwosComplement(n) == -(2^(n - 1)) .. 2^(n - 1) - 1

\* The same field as a two's complement number.
SignedField(raw, lo, n) ==
  Field(raw, lo, n - 1) - (IF lo + n - 1 \in raw THEN 2^(n - 1) ELSE 0)
=============================================================================
