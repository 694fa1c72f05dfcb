----------------------------- MODULE X86Decode -----------------------------
(***************************************************************************)
(* X86Decoder: from the bytes that follow EIP in the fetched region, the   *)
(* window, to an instruction and the number of bytes it took.  A read past *)
(* the window is a panic of the slice.  Bytes are those of the code, 0 to  *)
(* 255; an immediate or a displacement is the number it encodes.           *)
(***************************************************************************)
EXTENDS X86Flags, Sequences

GpReg == 0 .. 7
Option(S) == {{}} \cup {{x} : x \in S}
RepPrefix == {"Rep", "Repne"}
MinI32 == -2147483647 - 1
MaxI32 == 2147483647
Rel == MinI32 .. MaxI32

MemoryAddr == [base : Option(GpReg), index : Option(GpReg), scale : {1, 2, 4, 8}, disp : Rel]

\* The size of an operand is a field of it, as Operand::size() gives it.
RegOperand == [kind : {"reg"}, size : OpSize, reg : GpReg]
MemOperand == [kind : {"mem"}, size : OpSize, addr : MemoryAddr]
ImmOperand == [kind : {"imm"}, size : {1}, val : 0 .. 255]
                \cup [kind : {"imm"}, size : {2}, val : Unsigned(16)]
                \cup [kind : {"imm"}, size : {4}, val : Rel]
Operand == RegOperand \cup MemOperand \cup ImmOperand

\* In the order of the opcodes 0x00, 0x08 .. 0x38.
AluOps == << "Add", "Or", "Adc", "Sbb", "And", "Sub", "Xor", "Cmp" >>

\* The count of a shift is CL or a byte that follows.
Instr ==
  [op : {AluOps[k] : k \in 1 .. 8} \cup {"Mov", "Test", "Movzx8", "Movsx8", "Imul"},
   dest : Operand, src : Operand]
    \cup [op : {"Push", "Pop", "Inc", "Dec", "Neg", "Not", "Mul", "Div"}, dest : Operand]
    \cup [op : {"Lea"}, reg : GpReg, addr : MemoryAddr]
    \cup [op : {"Shl", "Shr", "Sar"}, dest : Operand, count : RegOperand \cup ImmOperand]
    \cup [op : {"Lods", "Stos", "Movs", "Scas", "Cmps", "Ins", "Outs"},
          size : OpSize, rep : Option(RepPrefix)]
    \cup [op : {"Cbw", "Cwd"}, size : OpSize]
    \cup [op : {"In", "Out"}, size : OpSize, port : Operand]
    \cup [op : {"Jmp", "Loop", "Loope", "Loopne", "Jecxz", "Call"}, rel : Rel]
    \cup [op : {"Jcc"}, cond : Condition, rel : Rel]
    \cup [op : {"Int"}, vec : 0 .. 255]
    \cup [op : {"Cld", "Std", "Ret", "Leave", "Nop", "Hlt",
                "Syscall", "Sysret", "Sysenter", "Sysexit"}]
    \cup [op : {"Unknown"}, byte : 0 .. 255]

-----------------------------------------------------------------------------
\* Reads.  Past the end they give 0: the instruction is then too long for d.

At(d, q) == IF q \in DOMAIN d THEN d[q] ELSE 0
At16(d, q) == At(d, q) + 256 * At(d, q + 1)
Narrow(b) == IF b >= 128 THEN b - 256 ELSE b      \* as i8
At32(d, q) == At16(d, q) + 65536 * (At(d, q + 2) + 256 * Narrow(At(d, q + 3)))

Immediate(d, q, n) ==
  [kind |-> "imm", size |-> n,
   val |-> CASE n = 1 -> At(d, q) [] n = 2 -> At16(d, q) [] n = 4 -> At32(d, q)]

\* Mutant: the register number is not reduced to three bits.
MapRegUnmasked(r, n) == [kind |-> "reg", size |-> n, reg |-> r]

MapReg(r, n) == [kind |-> "reg", size |-> n, reg |-> r % 8]

DecodeModRm(d, q, n) ==
  LET mode == At(d, q) \div 64
      rm == At(d, q) % 8
      sib == rm = 4
      base == IF sib THEN At(d, q + 1) % 8 ELSE rm
      index == (At(d, q + 1) \div 8) % 8
      absolute == mode = 0 /\ base = 5
      at == IF sib THEN q + 2 ELSE q + 1              \* the displacement
      addr == [base |-> IF absolute THEN {} ELSE {base},
               index |-> IF sib /\ index # 4 THEN {index} ELSE {},
               scale |-> IF sib THEN 2^(At(d, q + 1) \div 64) ELSE 1,
               disp |-> IF mode = 1 THEN Narrow(At(d, at))
                        ELSE IF absolute \/ mode = 2 THEN At32(d, at) ELSE 0]
  IN [operand |-> IF mode = 3 THEN MapReg(rm, n)
                  ELSE [kind |-> "mem", size |-> n, addr |-> addr],
      reg |-> (At(d, q) \div 8) % 8,
      next |-> IF mode = 3 THEN q + 1
               ELSE IF mode = 1 THEN at + 1
               ELSE IF absolute \/ mode = 2 THEN at + 4 ELSE at]

BuildAlu(k, dest, src) == [op |-> AluOps[k + 1], dest |-> dest, src |-> src]

-----------------------------------------------------------------------------
\* Decoding.  q is the position after the opcode, next the one after it all.

Is(instr, next) == [instr |-> instr, next |-> next]
Unknown(b) == [op |-> "Unknown", byte |-> b]

\* m is the decoded ModRM behind the opcode, where there is one.
TwoByte(d, q, wide, b, m) ==
  LET system == [c \in {\h05, \h07, \h34, \h35} |->
                   CASE c = \h05 -> "Syscall" [] c = \h07 -> "Sysret"
                     [] c = \h34 -> "Sysenter" [] c = \h35 -> "Sysexit"]
      To(op) == Is([op |-> op, dest |-> MapReg(m.reg, wide), src |-> m.operand], m.next)
  IN CASE b \in DOMAIN system -> Is([op |-> system[b]], q + 1)
       [] b \in \h80 .. \h8F ->
            Is([op |-> "Jcc", cond |-> Conditions[b - \h80 + 1], rel |-> At32(d, q + 1)], q + 5)
       [] b = \hAF -> To("Imul")
       [] b = \hB6 -> To("Movzx8")
       [] b = \hBE -> To("Movsx8")
       [] OTHER -> Is(Unknown(\h0F), q + 1)

DecodeTwoByte(d, q, wide) ==
  TwoByte(d, q, wide, At(d, q), DecodeModRm(d, q + 1, IF At(d, q) = \hAF THEN wide ELSE 1))

DecodeAlu(d, q, op, size, m) ==
  LET reg == MapReg(m.reg, size)
      k == op \div 8
  IN CASE op % 8 \in {0, 1} -> Is(BuildAlu(k, m.operand, reg), m.next)
       [] op % 8 \in {2, 3} -> Is(BuildAlu(k, reg, m.operand), m.next)
       [] op % 8 \in {4, 5} ->
            Is(BuildAlu(k, MapReg(0, size), Immediate(d, q, size)), q + size)
       [] op % 8 \in {6, 7} -> Is(Unknown(op), q)

\* 0x80 .. 0x83: a byte immediate of 0x83 is sign-extended.
DecodeAluImmediate(d, op, size, m) ==
  LET narrow == Narrow(At(d, m.next))
  IN IF op = \h83
     THEN Is(BuildAlu(m.reg, m.operand,
                      [kind |-> "imm", size |-> size,
                       val |-> IF size = 2 THEN narrow % 65536 ELSE narrow]), m.next + 1)
     ELSE Is(BuildAlu(m.reg, m.operand, Immediate(d, m.next, size)), m.next + size)

\* TEST and MOV with ModRM, MOV and LEA to a register, moves of immediates.
DecodeMove(d, q, op, size, wide, m) ==
  LET reg == MapReg(m.reg, size)
  IN CASE op \in {\h84, \h85} -> Is([op |-> "Test", dest |-> m.operand, src |-> reg], m.next)
       [] op \in {\h88, \h89} -> Is([op |-> "Mov", dest |-> m.operand, src |-> reg], m.next)
       [] op \in {\h8A, \h8B} -> Is([op |-> "Mov", dest |-> reg, src |-> m.operand], m.next)
       [] op = \h8D -> IF m.operand.kind # "mem" THEN Is(Unknown(op), m.next)
                       ELSE Is([op |-> "Lea", reg |-> m.reg, addr |-> m.operand.addr], m.next)
       [] op \in {\hA8, \hA9} ->
            Is([op |-> "Test", dest |-> MapReg(0, size), src |-> Immediate(d, q, size)], q + size)
       [] op \in \hB8 .. \hBF ->
            Is([op |-> "Mov", dest |-> MapReg(op - \hB8, wide), src |-> Immediate(d, q, wide)],
               q + wide)
       [] op \in {\hC6, \hC7} ->
            Is([op |-> "Mov", dest |-> m.operand, src |-> Immediate(d, m.next, size)],
               m.next + size)

DecodeShift(d, op, m) ==
  LET shift == [r \in {4, 5, 6, 7} |->
                  CASE r \in {4, 6} -> "Shl" [] r = 5 -> "Shr" [] r = 7 -> "Sar"]
      count == IF op = \hC1 THEN Immediate(d, m.next, 1) ELSE MapReg(1, 1)   \* CL
      next == IF op = \hC1 THEN m.next + 1 ELSE m.next
  IN IF m.reg \in DOMAIN shift
     THEN Is([op |-> shift[m.reg], dest |-> m.operand, count |-> count], next)
     ELSE Is(Unknown(op), next)

\* 0xF6 and 0xF7
DecodeUnary(d, op, size, m) ==
  LET unary == [r \in {2, 3, 4, 6} |->
                  CASE r = 2 -> "Not" [] r = 3 -> "Neg" [] r = 4 -> "Mul" [] r = 6 -> "Div"]
  IN IF m.reg \in {0, 1}
     THEN Is([op |-> "Test", dest |-> m.operand, src |-> Immediate(d, m.next, size)],
             m.next + size)
     ELSE IF m.reg \in DOMAIN unary
     THEN Is([op |-> unary[m.reg], dest |-> m.operand], m.next)
     ELSE Is(Unknown(op), m.next)

\* String operations by the opcode of their byte form.
StringOps == [b \in {\h6C, \h6E, \hA4, \hA6, \hAA, \hAC, \hAE} |->
                CASE b = \h6C -> "Ins"  [] b = \h6E -> "Outs" [] b = \hA4 -> "Movs"
                  [] b = \hA6 -> "Cmps" [] b = \hAA -> "Stos" [] b = \hAC -> "Lods"
                  [] b = \hAE -> "Scas"]

LoopOps == << "Loopne", "Loope", "Loop", "Jecxz" >>

DecodeControl(d, q, op) ==
  CASE op = \hE8 -> Is([op |-> "Call", rel |-> At32(d, q)], q + 4)
    [] op = \hC3 -> Is([op |-> "Ret"], q)
    [] op = \hC9 -> Is([op |-> "Leave"], q)
    [] op = \hCC -> Is([op |-> "Int", vec |-> 3], q)
    [] op = \hCD -> Is([op |-> "Int", vec |-> At(d, q)], q + 1)
    [] op \in \hE0 .. \hE3 ->
         Is([op |-> LoopOps[op - \hE0 + 1], rel |-> Narrow(At(d, q))], q + 1)
    [] op = \hFC -> Is([op |-> "Cld"], q)
    [] op = \hFD -> Is([op |-> "Std"], q)
    [] op \in \h70 .. \h7F ->
         Is([op |-> "Jcc", cond |-> Conditions[op - \h70 + 1], rel |-> Narrow(At(d, q))], q + 1)
    [] op = \hEB -> Is([op |-> "Jmp", rel |-> Narrow(At(d, q))], q + 1)
    [] op = \hE9 -> Is([op |-> "Jmp", rel |-> At32(d, q)], q + 4)
    [] OTHER -> Is(Unknown(op), q)

DecodePort(d, q, op, size) ==
  LET name == IF op \in {\hE4, \hE5, \hEC, \hED} THEN "In" ELSE "Out"
  IN IF op <= \hE7 THEN Is([op |-> name, size |-> size, port |-> Immediate(d, q, 1)], q + 1)
     ELSE Is([op |-> name, size |-> size, port |-> MapReg(2, 2)], q)   \* DX

DecodeOpcode(d, q, op, wide, size, rep, m) ==
  LET even == op - (op % 2)
      reg == MapReg(op, wide)
  IN CASE op = \h90 -> Is([op |-> "Nop"], q)
       [] op = \h0F -> DecodeTwoByte(d, q, wide)
       [] op \in (\h00 .. \h3F) \ {\h0F} -> DecodeAlu(d, q, op, size, m)
       [] op \in \h40 .. \h47 -> Is([op |-> "Inc", dest |-> reg], q)
       [] op \in \h48 .. \h4F -> Is([op |-> "Dec", dest |-> reg], q)
       [] op \in \h50 .. \h57 -> Is([op |-> "Push", dest |-> reg], q)
       [] op \in \h58 .. \h5F -> Is([op |-> "Pop", dest |-> reg], q)
       [] op \in \h80 .. \h83 -> DecodeAluImmediate(d, op, size, m)
       [] op \in {\h84, \h85, \h88, \h89, \h8A, \h8B, \hA8, \hA9, \hC6, \hC7, \h8D}
                   \cup (\hB8 .. \hBF) -> DecodeMove(d, q, op, size, wide, m)
       [] op \in {\hC1, \hD3} -> DecodeShift(d, op, m)
       [] op \in {\hF6, \hF7} -> DecodeUnary(d, op, size, m)
       [] even \in DOMAIN StringOps ->
            Is([op |-> StringOps[even], size |-> size, rep |-> rep], q)
       [] op = \h98 -> Is([op |-> "Cbw", size |-> wide], q)
       [] op = \h99 -> Is([op |-> "Cwd", size |-> wide], q)
       [] op \in (\hE4 .. \hE7) \cup (\hEC .. \hEF) -> DecodePort(d, q, op, size)
       [] OTHER -> DecodeControl(d, q, op)

\* Operands of even opcodes are bytes, but for LEA and the shifts.
OperandSize(op, wide) == IF op % 2 = 0 THEN 1 ELSE wide

DecodeFrom(d, q, op, wide, rep) ==
  DecodeOpcode(d, q, op, wide, OperandSize(op, wide), rep,
               DecodeModRm(d, q, IF op \in {\h8D, \hC1, \hD3} THEN wide ELSE OperandSize(op, wide)))

\* The last of several repeat prefixes wins; segment overrides are ignored.
Prefixes == {\h66, \hF2, \hF3, \h2E, \h36, \h3E, \h26, \h64, \h65}

DecodeX86(d) ==
  LET p == CHOOSE k \in 0 .. Len(d) : /\ \A j \in 1 .. k : d[j] \in Prefixes
                                      /\ At(d, k + 1) \notin Prefixes
      reps == {j \in 1 .. p : d[j] \in {\hF2, \hF3}}
      rep == {IF d[j] = \hF3 THEN "Rep" ELSE "Repne" : j \in {k \in reps : k = Max(reps)}}
      wide == IF \E j \in 1 .. p : d[j] = \h66 THEN 2 ELSE 4
  IN DecodeFrom(d, p + 2, At(d, p + 1), wide, rep)
=============================================================================
