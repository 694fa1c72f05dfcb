------------------------------ MODULE X86Flags ------------------------------
(***************************************************************************)
(* The arithmetic of the x86 core: an operand size is its number of bytes, *)
(* a set of flags the names of those that are one, and every result and    *)
(* flag is that of the low n bytes of the operands.                        *)
(***************************************************************************)
EXTENDS Words

EFlags == {"CF", "RSVD1", "PF", "AF", "ZF", "SF", "TF", "IF", "DF", "OF"}
OpSize == {1, 2, 4}

SetFlag(flags, f, on) == IF on THEN flags \cup {f} ELSE flags \ {f}

EvenParity(res) ==
  Cardinality({i \in 0 .. ByteBits - 1 : Bit(res, i)}) % 2 = 0

\* ZF, SF and PF of an n-byte result.
ResultFlags(flags, res, n) ==
  SetFlag(SetFlag(SetFlag(flags, "ZF", res % Span(n) = 0),
                  "SF", Negative(res % Span(n), Span(n))),
          "PF", EvenParity(res))

\* Mutant: flags are only ever set.
SetLogicFlagsSticky(flags, res, n) ==
  (flags \cup ResultFlags(flags, res, n)) \ {"CF", "OF"}

SetLogicFlags(flags, res, n) == ResultFlags(flags, res, n) \ {"CF", "OF"}

CarryIn(flags, carry) == IF carry /\ "CF" \in flags THEN 1 ELSE 0

DoAdd(flags, x, y, carry, n) ==
  LET a == x % Span(n)   b == y % Span(n)
      t == (a + b) % Span(n)
      r == (t + CarryIn(flags, carry)) % Span(n)
      c == a + b >= Span(n) \/ t + CarryIn(flags, carry) >= Span(n)
      o == /\ Negative(a, Span(n)) # Negative(r, Span(n))
           /\ Negative(b, Span(n)) # Negative(r, Span(n))
  IN [res |-> r,
      flags |-> SetFlag(SetFlag(ResultFlags(flags, r, n), "CF", c), "OF", o)]

DoSub(flags, x, y, borrow, n) ==
  LET a == x % Span(n)   b == y % Span(n)
      t == (a - b) % Span(n)
      r == (t - CarryIn(flags, borrow)) % Span(n)
      c == a < b \/ t < CarryIn(flags, borrow)
      o == /\ Negative(a, Span(n)) # Negative(b, Span(n))
           /\ Negative(a, Span(n)) # Negative(r, Span(n))
  IN [res |-> r,
      flags |-> SetFlag(SetFlag(ResultFlags(flags, r, n), "CF", c), "OF", o)]

Conditions == << "O", "NO", "B", "AE", "E", "NE", "BE", "A",
                 "S", "NS", "P", "NP", "L", "GE", "LE", "G" >>
Condition == {Conditions[k] : k \in 1 .. 16}

CheckCondition(flags, cond) ==
  LET z == "ZF" \in flags   s == "SF" \in flags
      v == "OF" \in flags   c == "CF" \in flags
  IN CASE cond = "O" -> v             [] cond = "NO" -> ~v
       [] cond = "B" -> c             [] cond = "AE" -> ~c
       [] cond = "E" -> z             [] cond = "NE" -> ~z
       [] cond = "BE" -> c \/ z       [] cond = "A" -> ~c /\ ~z
       [] cond = "S" -> s             [] cond = "NS" -> ~s
       [] cond = "P" -> "PF" \in flags
       [] cond = "NP" -> "PF" \notin flags
       [] cond = "L" -> s # v         [] cond = "GE" -> s = v
       [] cond = "LE" -> z \/ s # v   [] cond = "G" -> ~z /\ s = v
=============================================================================
