------------------------------ MODULE ArmFlags ------------------------------
(***************************************************************************)
(* The arithmetic of the ARM core: the four adders with the flags they     *)
(* set, and the conditions that read the flags.  A set of flags holds the  *)
(* names of those that are one.                                            *)
(***************************************************************************)
EXTENDS Words

CpsrBit == {"N", "Z", "C", "V", "Q", "J", "E", "A", "I", "F", "T"}

IsSet(flags, f) == f \in flags

SetFlag(flags, f, on) == IF on THEN flags \cup {f} ELSE flags \ {f}

SetLogicFlags(flags, res, carry) ==
  SetFlag(SetFlag(SetFlag(flags, "N", Negative(res, M)), "Z", res = 0), "C", carry)

Nzcv(flags, res, carry, overflow) ==
  SetFlag(SetLogicFlags(flags, res, carry), "V", overflow)

SameSign(a, b) == Negative(a, M) = Negative(b, M)

DoAdd(flags, a, b, update) ==
  LET res == (a + b) % M
      overflow == SameSign(a, b) /\ ~SameSign(a, res)
  IN [res |-> res,
      flags |-> IF update THEN Nzcv(flags, res, a + b >= M, overflow) ELSE flags]

\* Mutant: the overflow of an addition.
DoSubOverflowOfAdd(flags, a, b, update) ==
  LET res == (a - b) % M
      overflow == SameSign(a, b) /\ ~SameSign(a, res)
  IN [res |-> res,
      flags |-> IF update THEN Nzcv(flags, res, ~(a < b), overflow) ELSE flags]

DoSub(flags, a, b, update) ==
  LET res == (a - b) % M
      overflow == ~SameSign(a, b) /\ ~SameSign(a, res)
  IN [res |-> res,
      flags |-> IF update THEN Nzcv(flags, res, ~(a < b), overflow) ELSE flags]

DoAddCarry(flags, a, b, c, update) ==
  LET res1 == (a + b) % M
      res2 == (res1 + c) % M
      carry == a + b >= M \/ res1 + c >= M
      overflow == SameSign(a, b) /\ ~SameSign(a, res2)
  IN [res |-> res2,
      flags |-> IF update THEN Nzcv(flags, res2, carry, overflow) ELSE flags]

\* Mutant: the borrow of the second subtraction is lost.
DoSubCarryOneBorrow(flags, a, b, notC, update) ==
  LET res1 == (a - b) % M
      res2 == (res1 - notC) % M
      overflow == ~SameSign(a, b) /\ ~SameSign(a, res2)
  IN [res |-> res2,
      flags |-> IF update THEN Nzcv(flags, res2, ~(a < b), overflow) ELSE flags]

DoSubCarry(flags, a, b, notC, update) ==
  LET res1 == (a - b) % M
      res2 == (res1 - notC) % M
      borrow == a < b \/ res1 < notC
      overflow == ~SameSign(a, b) /\ ~SameSign(a, res2)
  IN [res |-> res2,
      flags |-> IF update THEN Nzcv(flags, res2, ~borrow, overflow) ELSE flags]

Condition == {"Eq", "Ne", "Cs", "Cc", "Mi", "Pl", "Vs", "Vc",
              "Hi", "Ls", "Ge", "Lt", "Gt", "Le", "Al", "Nv"}

CheckCondition(flags, cond) ==
  LET n == IsSet(flags, "N")   z == IsSet(flags, "Z")
      c == IsSet(flags, "C")   v == IsSet(flags, "V")
  IN CASE cond = "Eq" -> z          [] cond = "Ne" -> ~z
       [] cond = "Cs" -> c          [] cond = "Cc" -> ~c
       [] cond = "Mi" -> n          [] cond = "Pl" -> ~n
       [] cond = "Vs" -> v          [] cond = "Vc" -> ~v
       [] cond = "Hi" -> c /\ ~z    [] cond = "Ls" -> ~c \/ z
       [] cond = "Ge" -> n = v      [] cond = "Lt" -> n # v
       [] cond = "Gt" -> ~z /\ (n = v)
       [] cond = "Le" -> z \/ (n # v)
       [] cond = "Al" -> TRUE       [] cond = "Nv" -> FALSE
=============================================================================
