----------------------------- MODULE X86Execute -----------------------------
(***************************************************************************)
(* execute_instr of the x86 core.  A machine s has the eight general       *)
(* registers s.regs, EIP in s.pc, the flags that are set in s.flags and    *)
(* its memory (GuestMemory).  An error is left in s.err with whatever the  *)
(* instruction had done before it; "panic" is the end of the process.      *)
(***************************************************************************)
EXTENDS X86Decode, GuestMemory

EAX == 0
ECX == 1
EDX == 2
EBX == 3
ESP == 4
EBP == 5
ESI == 6
EDI == 7

X86Init == [regs |-> [r \in GpReg |-> 0], pc |-> 0, flags |-> {"RSVD1"}]

Put(s, r, v) == [s EXCEPT !.regs[r] = v]
PutFlags(s, flags) == [s EXCEPT !.flags = flags]

-----------------------------------------------------------------------------
\* Operands

\* Mutant: the index is not scaled.
CalcAddrUnscaled(s, m) ==
  LET base == IF m.base = {} THEN 0 ELSE s.regs[CHOOSE r \in m.base : TRUE]
      index == IF m.index = {} THEN 0 ELSE s.regs[CHOOSE r \in m.index : TRUE]
  IN ((m.disp % M) + base + index) % M

CalcAddr(s, m) ==
  LET base == IF m.base = {} THEN 0 ELSE s.regs[CHOOSE r \in m.base : TRUE]
      index == IF m.index = {} THEN 0 ELSE s.regs[CHOOSE r \in m.index : TRUE] * m.scale
  IN ((m.disp % M) + base + index) % M

\* Byte registers 4 to 7 are the second bytes of registers 0 to 3.
ByteReg(s, r) == ByteAt(s.regs[r % 4], r \div 4)
WithByte(x, k, b) == x - ByteAt(x, k) * Span(k) + (b % Span(1)) * Span(k)
WithLow(x, n, v) == x - (x % Span(n)) + (v % Span(n))

Readable(s, op) == op.kind = "mem" => Reachable(s, CalcAddr(s, op.addr), op.size)

LoadOp(s, op) ==
  CASE op.kind = "reg" /\ op.size = 1 -> ByteReg(s, op.reg)
    [] op.kind = "reg" /\ op.size # 1 -> s.regs[op.reg] % Span(op.size)
    [] op.kind = "mem" -> Loaded(s, CalcAddr(s, op.addr), op.size)
    [] op.kind = "imm" -> op.val % Span(op.size)

StoreOp(s, op, v) ==
  CASE op.kind = "reg" /\ op.size = 1 ->
         Put(s, op.reg % 4, WithByte(s.regs[op.reg % 4], op.reg \div 4, v))
    [] op.kind = "reg" /\ op.size # 1 -> Put(s, op.reg, WithLow(s.regs[op.reg], op.size, v))
    [] op.kind = "mem" -> Stored(s, CalcAddr(s, op.addr), op.size, v)
    [] op.kind = "imm" -> Fails(s, "device")

-----------------------------------------------------------------------------
\* Arithmetic and logic: the adders set the flags before the result is
\* stored, the logical operations after.

Mov(s, i) == IF ~Readable(s, i.src) THEN Fails(s, "fault")
             ELSE StoreOp(s, i.dest, LoadOp(s, i.src))

Adder(s, i) ==
  LET v1 == LoadOp(s, i.dest)   v2 == LoadOp(s, i.src)   n == i.dest.size
      out == CASE i.op \in {"Add", "Adc"} -> DoAdd(s.flags, v1, v2, i.op = "Adc", n)
               [] i.op \in {"Sub", "Sbb", "Cmp"} -> DoSub(s.flags, v1, v2, i.op = "Sbb", n)
      t == PutFlags(s, out.flags)
  IN IF i.op = "Cmp" THEN t ELSE StoreOp(t, i.dest, out.res)

StoreLogic(s, dest, res) ==
  LET t == StoreOp(s, dest, res)
  IN IF t.err = "ok" THEN PutFlags(t, SetLogicFlags(s.flags, res, dest.size)) ELSE t

Logic(s, i) ==
  LET v1 == LoadOp(s, i.dest)   v2 == LoadOp(s, i.src)
  IN CASE i.op = "Xor" -> StoreLogic(s, i.dest, Xor(v1, v2))
       [] i.op = "And" -> StoreLogic(s, i.dest, And(v1, v2))
       [] i.op = "Or" -> StoreLogic(s, i.dest, Or(v1, v2))
       [] i.op = "Test" -> PutFlags(s, SetLogicFlags(s.flags, And(v1, v2), i.dest.size))

Binary(s, i) ==
  IF ~Readable(s, i.dest) \/ ~Readable(s, i.src) THEN Fails(s, "fault")
  ELSE IF i.op \in {"Add", "Adc", "Sub", "Sbb", "Cmp"} THEN Adder(s, i) ELSE Logic(s, i)

\* INC and DEC keep CF.
Unary(s, i) ==
  LET v == LoadOp(s, i.dest)   n == i.dest.size
      out == CASE i.op = "Inc" -> DoAdd(s.flags, v, 1, FALSE, n)
               [] i.op = "Dec" -> DoSub(s.flags, v, 1, FALSE, n)
               [] i.op = "Neg" -> DoSub(s.flags, 0, v, FALSE, n)
               [] i.op = "Not" -> [res |-> Span(n) - 1 - v, flags |-> s.flags]
      flags == IF i.op \in {"Inc", "Dec"} THEN SetFlag(out.flags, "CF", "CF" \in s.flags)
               ELSE out.flags
  IN IF ~Readable(s, i.dest) THEN Fails(s, "fault")
     ELSE StoreOp(PutFlags(s, flags), i.dest, out.res)

\* MUL and DIV use EAX and EDX whatever the size of the operand.
Mul(s, i) ==
  LET res == s.regs[EAX] * LoadOp(s, i.dest)
      t == Put(Put(s, EAX, res % M), EDX, res \div M)
  IN IF ~Readable(s, i.dest) THEN Fails(s, "fault")
     ELSE PutFlags(t, IF res >= M THEN s.flags \cup {"CF", "OF"} ELSE s.flags \ {"CF", "OF"})

Imul(s, i) ==
  LET res == Signed(LoadOp(s, i.dest), M) * Signed(LoadOp(s, i.src), M)
      t == StoreOp(s, i.dest, res % M)
  IN IF ~Readable(s, i.dest) \/ ~Readable(s, i.src) THEN Fails(s, "fault")
     ELSE PutFlags(t, IF res # Signed(res % M, M) THEN s.flags \cup {"CF", "OF"}
                      ELSE s.flags \ {"CF", "OF"})

Div(s, i) ==
  LET divisor == LoadOp(s, i.dest)
      dividend == s.regs[EDX] * M + s.regs[EAX]
  IN IF ~Readable(s, i.dest) THEN Fails(s, "fault")
     ELSE IF divisor = 0 \/ dividend \div divisor >= M THEN Fails(s, "device")
     ELSE Put(Put(s, EAX, dividend \div divisor), EDX, dividend % divisor)

\* The count is a byte, CL or an immediate, and so covers every amount; it is
\* taken modulo the bits of a doubleword whatever the size.
ShiftCount(s, op) == (IF op.kind = "imm" THEN op.val ELSE s.regs[op.reg]) % Width

\* The carry of SHL is bit (bits of the operand - c) of the operand: for a
\* larger c the subtraction overflows, after the result has been stored.
Shift(s, i) ==
  LET v == LoadOp(s, i.dest)   n == i.dest.size
      c == ShiftCount(s, i.count)
      res == CASE i.op = "Shl" -> ShiftedLeft(v, c)
               [] i.op = "Shr" -> ShiftedRight(v, c)
               [] i.op = "Sar" -> ArithmeticRight(SignExtended(v, n), c)
      out == IF i.op = "Shl" THEN n * ByteBits - c ELSE c - 1     \* the bit shifted out
      t == StoreLogic(s, i.dest, res)
  IN IF ~Readable(s, i.dest) THEN Fails(s, "fault")
     ELSE IF c = 0 THEN s
     ELSE IF t.err # "ok" THEN t
     ELSE IF out < 0 THEN Fails(t, "panic")
     ELSE PutFlags(t, SetFlag(t.flags, "CF", Bit(v, out)))

Extend(s, i) ==
  LET v == LoadOp(s, i.src)
  IN IF ~Readable(s, i.src) THEN Fails(s, "fault")
     ELSE StoreOp(s, i.dest, IF i.op = "Movzx8" THEN v ELSE SignExtended(v, 1))

\* CBW and CWDE, CWD and CDQ
Convert(s, i) ==
  LET half == i.size \div 2
  IN IF i.op = "Cbw"
     THEN Put(s, EAX, WithLow(s.regs[EAX], i.size, SignExtended(s.regs[EAX], half)))
     ELSE Put(s, EDX, WithLow(s.regs[EDX], i.size,
            IF Negative(s.regs[EAX] % Span(i.size), Span(i.size)) THEN Span(i.size) - 1 ELSE 0))

-----------------------------------------------------------------------------
\* The stack and control flow.  PUSH, CALL and LEAVE move ESP before the
\* access that may fail, POP and RET after it.

StackSize(op) == IF op.size = 2 THEN 2 ELSE 4

Down(s, n) == Put(s, ESP, (s.regs[ESP] - n) % M)
Up(s, n) == Put(s, ESP, (s.regs[ESP] + n) % M)

Push(s, i) ==
  LET n == StackSize(i.dest)
      t == Down(s, n)
  IN IF ~Readable(s, i.dest) THEN Fails(s, "fault")
     ELSE Stored(t, t.regs[ESP], n, LoadOp(s, i.dest))

\* Mutant: ESP moves before the load that may fail, as in PUSH.
PopEager(s, i) ==
  LET n == StackSize(i.dest)
  IN IF ~Reachable(s, s.regs[ESP], n) THEN Fails(Up(s, n), "fault")
     ELSE StoreOp(Up(s, n), i.dest, Loaded(s, s.regs[ESP], n))

Pop(s, i) ==
  LET n == StackSize(i.dest)
  IN IF ~Reachable(s, s.regs[ESP], n) THEN Fails(s, "fault")
     ELSE StoreOp(Up(s, n), i.dest, Loaded(s, s.regs[ESP], n))

Jump(s, rel) == [s EXCEPT !.pc = (@ + rel) % M]

Call(s, i) ==
  LET t == Down(s, 4)
      u == Stored(t, t.regs[ESP], 4, s.pc)
  IN IF u.err = "ok" THEN Jump(u, i.rel) ELSE u

Ret(s) ==
  IF ~Reachable(s, s.regs[ESP], 4) THEN Fails(s, "fault")
  ELSE [Up(s, 4) EXCEPT !.pc = Loaded(s, s.regs[ESP], 4)]

Leave(s) ==
  LET t == Put(s, ESP, s.regs[EBP])
  IN IF ~Reachable(t, t.regs[ESP], 4) THEN Fails(t, "fault")
     ELSE Up(Put(t, EBP, Loaded(t, t.regs[ESP], 4)), 4)

\* Mutant: the counter is tested before it is counted down.
LoopTestsFirst(s, i) ==
  LET t == Put(s, ECX, (s.regs[ECX] - 1) % M)
      zf == "ZF" \in s.flags
  IN CASE i.op = "Jecxz" -> IF s.regs[ECX] = 0 THEN Jump(s, i.rel) ELSE s
       [] i.op # "Jecxz" -> IF /\ s.regs[ECX] # 0
                               /\ i.op = "Loope" => zf
                               /\ i.op = "Loopne" => ~zf
                            THEN Jump(t, i.rel) ELSE t

Loop(s, i) ==
  LET t == Put(s, ECX, (s.regs[ECX] - 1) % M)
      zf == "ZF" \in s.flags
  IN CASE i.op = "Jecxz" -> IF s.regs[ECX] = 0 THEN Jump(s, i.rel) ELSE s
       [] i.op # "Jecxz" -> IF /\ t.regs[ECX] # 0
                               /\ i.op = "Loope" => zf
                               /\ i.op = "Loopne" => ~zf
                            THEN Jump(t, i.rel) ELSE t

-----------------------------------------------------------------------------
\* String operations: one element, then the registers move; a repeated one
\* counts ECX down after each element and stops at one that fails.

StringStep(s, n) == IF "DF" \in s.flags THEN -n ELSE n

Advanced(s, R, n) ==
  [s EXCEPT !.regs = [r \in GpReg |-> IF r \in R THEN (@[r] + StringStep(s, n)) % M ELSE @[r]]]

Lods(s, n) ==
  IF ~Reachable(s, s.regs[ESI], n) THEN Fails(s, "fault")
  ELSE Put(Advanced(s, {ESI}, n), EAX, WithLow(s.regs[EAX], n, Loaded(s, s.regs[ESI], n)))

Stos(s, n) ==
  LET t == Stored(s, s.regs[EDI], n, s.regs[EAX] % Span(n))
  IN IF t.err = "ok" THEN Advanced(t, {EDI}, n) ELSE t

\* Mutant: the pointers move by one byte whatever the size.
MovsByOne(s, n) ==
  LET t == Stored(s, s.regs[EDI], n, Loaded(s, s.regs[ESI], n))
  IN IF ~Reachable(s, s.regs[ESI], n) THEN Fails(s, "fault")
     ELSE IF t.err = "ok" THEN Advanced(t, {ESI, EDI}, 1) ELSE t

Movs(s, n) ==
  LET t == Stored(s, s.regs[EDI], n, Loaded(s, s.regs[ESI], n))
  IN IF ~Reachable(s, s.regs[ESI], n) THEN Fails(s, "fault")
     ELSE IF t.err = "ok" THEN Advanced(t, {ESI, EDI}, n) ELSE t

Scas(s, n) ==
  IF ~Reachable(s, s.regs[EDI], n) THEN Fails(s, "fault")
  ELSE Advanced(PutFlags(s, DoSub(s.flags, s.regs[EAX], Loaded(s, s.regs[EDI], n), FALSE, n).flags),
                {EDI}, n)

Cmps(s, n) ==
  LET src == Loaded(s, s.regs[ESI], n)   dst == Loaded(s, s.regs[EDI], n)
  IN IF ~Reachable(s, s.regs[ESI], n) \/ ~Reachable(s, s.regs[EDI], n) THEN Fails(s, "fault")
     ELSE Advanced(PutFlags(s, DoSub(s.flags, src, dst, FALSE, n).flags), {ESI, EDI}, n)

StringOp(s, i) ==
  CASE i.op = "Lods" -> Lods(s, i.size)   [] i.op = "Stos" -> Stos(s, i.size)
    [] i.op = "Movs" -> Movs(s, i.size)   [] i.op = "Scas" -> Scas(s, i.size)
    [] i.op = "Cmps" -> Cmps(s, i.size)

\* Mutant: the two prefixes are exchanged.
RepEndsExchanged(s, i) ==
  /\ i.op \in {"Scas", "Cmps"}
  /\ \/ i.rep = {"Repne"} /\ "ZF" \notin s.flags
     \/ i.rep = {"Rep"} /\ "ZF" \in s.flags

\* REPE stops at the first difference, REPNE at the first equality.
RepEnds(s, i) ==
  /\ i.op \in {"Scas", "Cmps"}
  /\ \/ i.rep = {"Rep"} /\ "ZF" \notin s.flags
     \/ i.rep = {"Repne"} /\ "ZF" \in s.flags

Round(r, i) ==
  LET t == StringOp(r.m, i)
      u == Put(t, ECX, (t.regs[ECX] - 1) % M)
  IN IF ~r.on THEN r
     ELSE IF t.err # "ok" THEN [m |-> t, on |-> FALSE]
     ELSE [m |-> u, on |-> ~RepEnds(u, i)]

Repeated(s, i) ==
  LET round[k \in Nat] ==        \* the machine after k rounds, and whether to go on
        IF k = 0 THEN [m |-> s, on |-> TRUE] ELSE Round(round[k - 1], i)
  IN round[s.regs[ECX]].m

String(s, i) == IF i.rep = {} THEN StringOp(s, i) ELSE Repeated(s, i)

-----------------------------------------------------------------------------

System(s, i) ==
  CASE i.op \in {"Syscall", "Sysret", "Sysenter", "Sysexit", "In", "Out", "Ins", "Outs"} ->
         Fails(s, "not_implemented")
    [] i.op = "Int" -> IF s.handles THEN s
                       ELSE Fails(s, IF i.vec = 3 THEN "breakpoint" ELSE "not_implemented")
    [] i.op = "Cld" -> PutFlags(s, s.flags \ {"DF"})
    [] i.op = "Std" -> PutFlags(s, s.flags \cup {"DF"})
    [] i.op = "Nop" -> s
    [] i.op = "Hlt" -> Fails(s, "breakpoint")
    [] i.op = "Unknown" -> Fails(s, "invalid")

Flow(s, i) ==
  CASE i.op = "Push" -> Push(s, i)
    [] i.op = "Pop" -> Pop(s, i)
    [] i.op = "Call" -> Call(s, i)
    [] i.op = "Ret" -> Ret(s)
    [] i.op = "Leave" -> Leave(s)
    [] i.op = "Jmp" -> Jump(s, i.rel)
    [] i.op = "Jcc" -> IF CheckCondition(s.flags, i.cond) THEN Jump(s, i.rel) ELSE s
    [] i.op \in {"Loop", "Loope", "Loopne", "Jecxz"} -> Loop(s, i)

ExecuteX86(s, i) ==
  CASE i.op = "Mov" -> Mov(s, i)
    [] i.op = "Lea" -> Put(s, i.reg, CalcAddr(s, i.addr))
    [] i.op \in {"Add", "Adc", "Sub", "Sbb", "Xor", "And", "Or", "Cmp", "Test"} -> Binary(s, i)
    [] i.op \in {"Inc", "Dec", "Neg", "Not"} -> Unary(s, i)
    [] i.op = "Mul" -> Mul(s, i)
    [] i.op = "Imul" -> Imul(s, i)
    [] i.op = "Div" -> Div(s, i)
    [] i.op \in {"Shl", "Shr", "Sar"} -> Shift(s, i)
    [] i.op \in {"Movzx8", "Movsx8"} -> Extend(s, i)
    [] i.op \in {"Cbw", "Cwd"} -> Convert(s, i)
    [] i.op \in {"Lods", "Stos", "Movs", "Scas", "Cmps"} -> String(s, i)
    [] i.op \in {"Push", "Pop", "Call", "Ret", "Leave", "Jmp", "Jcc",
                 "Loop", "Loope", "Loopne", "Jecxz"} -> Flow(s, i)
    [] OTHER -> System(s, i)

\* Mutant: EIP stays behind the instruction that failed.
NotRewound(s, t) == t

Rewound(s, t) == IF t.err = "ok" THEN t ELSE [t EXCEPT !.pc = s.pc]

X86Decoded(s, instr, bytes, length) ==
  IF bytes > length THEN Fails(s, "panic")
  ELSE Rewound(s, ExecuteX86([s EXCEPT !.pc = (s.pc + bytes) % M], instr))

\* One instruction: the decoder sees the window of the region from EIP on;
\* EIP moves past the bytes it took, and back after an error.
X86Step(s, window) ==
  LET Run(decoded) == X86Decoded(s, decoded.instr, decoded.next - 1, Len(window))
  IN Run(DecodeX86(window))
=============================================================================
