----------------------------- MODULE Encodings -----------------------------
(***************************************************************************)
(* The reference the decoders are checked against: the encodings of the    *)
(* ARM, RV32I and IA-32 instructions, as the architecture manuals lay them *)
(* out.  An ARM or RV32I word is the set of its one bits; \cup puts its    *)
(* fields together.  An IA-32 instruction is a sequence of bytes.          *)
(***************************************************************************)
EXTENDS Words, Sequences, TLC

Place(v, lo) == {lo + b : b \in Bits(v)}
On(b, pos) == IF b THEN {pos} ELSE {}
IndexIn(seq, x) == CHOOSE k \in DOMAIN seq : seq[k] = x

-----------------------------------------------------------------------------
\* ARM (A32)

ArmCond == << "Eq", "Ne", "Cs", "Cc", "Mi", "Pl", "Vs", "Vc",
              "Hi", "Ls", "Ge", "Lt", "Gt", "Le", "Al" >>
ArmData == << "And", "Eor", "Sub", "Rsb", "Add", "Adc", "Sbc", "Rsc",
              "Tst", "Teq", "Cmp", "Cmn", "Orr", "Mov", "Bic", "Mvn" >>
ArmShift == << "Lsl", "Lsr", "Asr", "Ror" >>

RotateFor(val, carry) ==
  CHOOSE r \in 0 .. 15 : /\ {(b + 2 * r) % 32 : b \in val} \subseteq 0 .. 7
                         /\ (r = 0) = (carry = {})
ImmediateBits(op2, r) == Place(r, 8) \cup {(b + 2 * r) % 32 : b \in op2.val}

ShifterBits(op2) ==
  IF "val" \in DOMAIN op2
  THEN {25} \cup ImmediateBits(op2, RotateFor(op2.val, op2.carry_out))
  ELSE Place(op2.rm, 0) \cup Place(IndexIn(ArmShift, op2.shift.shift_type) - 1, 5)
         \cup (IF "rs" \in DOMAIN op2.shift THEN {4} \cup Place(op2.shift.rs, 8)
               ELSE Place(op2.shift.amount, 7))

TransferBits(i) ==
  On(i.pre, 24) \cup On(i.up, 23) \cup On(i.writeback, 21) \cup Place(i.rn, 16) \cup Place(i.rd, 12)

WordTransfer(i) ==
  Bits(\h04000000) \cup TransferBits(i) \cup On(i.op \in {"Ldrb", "Strb"}, 22)
    \cup On(i.op \in {"Ldr", "Ldrb"}, 20)
    \cup (IF "val" \in DOMAIN i.offset THEN i.offset.val ELSE {25} \cup ShifterBits(i.offset))

HalfTransfer(i) ==
  Bits(\h00000090) \cup TransferBits(i) \cup On(i.op # "Strh", 20)
    \cup Place(CASE i.op \in {"Ldrh", "Strh"} -> 1 [] i.op = "Ldrsb" -> 2 [] i.op = "Ldrsh" -> 3, 5)
    \cup (IF "val" \in DOMAIN i.offset
          THEN {22} \cup {IF b < 4 THEN b ELSE b + 4 : b \in i.offset.val}
          ELSE Place(i.offset.rm, 0))

MediaBits(i) ==
  CASE i.op = "Bfc" -> Bits(\h07C0001F) \cup Place(i.lsb + i.width - 1, 16) \cup Place(i.lsb, 7)
    [] i.op = "Bfi" -> Bits(\h07C00010) \cup Place(i.lsb + i.width - 1, 16) \cup Place(i.lsb, 7)
                         \cup Place(i.rn, 0)
    [] i.op = "Ubfx" -> Bits(\h07E00050) \cup Place(i.width - 1, 16) \cup Place(i.lsb, 7) \cup Place(i.rn, 0)
    [] i.op = "Sbfx" -> Bits(\h07A00050) \cup Place(i.width - 1, 16) \cup Place(i.lsb, 7) \cup Place(i.rn, 0)
    [] i.op = "Rev" -> Bits(\h06BF0F30) \cup Place(i.rm, 0)
    [] i.op = "Rev16" -> Bits(\h06BF0FB0) \cup Place(i.rm, 0)
    [] i.op = "Revsh" -> Bits(\h06FF0FB0) \cup Place(i.rm, 0)
    [] i.op = "Clz" -> Bits(\h016F0F10) \cup Place(i.rm, 0)
    [] OTHER -> (CASE i.op = "Sxtb" -> Bits(\h06A00070) [] i.op = "Sxth" -> Bits(\h06B00070)
                   [] i.op = "Uxtb" -> Bits(\h06E00070) [] i.op = "Uxth" -> Bits(\h06F00070))
                  \cup Place(i.rot, 10) \cup Place(i.rm, 0)
                  \cup Place(IF i.rn = {} THEN 15 ELSE CHOOSE n \in i.rn : TRUE, 16)

ArmBody(i) ==
  CASE i.op \in {ArmData[k] : k \in 1 .. 16} ->
         Place(IndexIn(ArmData, i.op) - 1, 21) \cup On(i.s, 20) \cup Place(i.rn, 16)
           \cup Place(i.rd, 12) \cup ShifterBits(i.op2)
    [] i.op \in {"Movw", "Movt"} ->
         Bits(IF i.op = "Movw" THEN \h03000000 ELSE \h03400000) \cup Place(i.rd, 12)
           \cup Place(i.imm16 \div 4096, 16) \cup Place(i.imm16 % 4096, 0)
    [] i.op = "Mrs" -> Bits(\h010F0000) \cup On(i.use_spsr, 22) \cup Place(i.rd, 12)
    [] i.op = "Msr" ->
         On(i.use_spsr, 22) \cup {16 + b : b \in i.mask}
           \cup (IF "val" \in DOMAIN i.op2
                 THEN Bits(\h0320F000)
                        \cup ImmediateBits(i.op2, CHOOSE r \in 0 .. 15 :
                               {(b + 2 * r) % 32 : b \in i.op2.val} \subseteq 0 .. 7)
                 ELSE Bits(\h0120F000) \cup Place(i.op2.rm, 0))
    [] i.op \in {"Mul", "Mla"} ->
         Bits(\h00000090) \cup On(i.op = "Mla", 21) \cup On(i.s, 20) \cup Place(i.rd, 16)
           \cup (IF i.op = "Mla" THEN Place(i.rn, 12) ELSE {}) \cup Place(i.rs, 8) \cup Place(i.rm, 0)
    [] i.op \in {"Umull", "Umlal", "Smull", "Smlal"} ->
         Bits(\h00800090) \cup On(i.op \in {"Smull", "Smlal"}, 22)
           \cup On(i.op \in {"Umlal", "Smlal"}, 21) \cup On(i.s, 20) \cup Place(i.rd_hi, 16)
           \cup Place(i.rd_lo, 12) \cup Place(i.rs, 8) \cup Place(i.rm, 0)
    [] i.op \in {"Bfc", "Bfi", "Ubfx", "Sbfx", "Rev", "Rev16", "Revsh", "Clz",
                 "Sxtb", "Sxth", "Uxtb", "Uxth"} -> MediaBits(i) \cup Place(i.rd, 12)
    [] i.op \in {"Ldr", "Str", "Ldrb", "Strb"} -> WordTransfer(i)
    [] i.op \in {"Ldrh", "Strh", "Ldrsb", "Ldrsh"} -> HalfTransfer(i)
    [] i.op \in {"Ldm", "Stm"} ->
         Bits(\h08000000) \cup On(i.p, 24) \cup On(i.u, 23) \cup On(i.w, 21)
           \cup On(i.op = "Ldm", 20) \cup Place(i.rn, 16) \cup i.reg_list
    [] i.op \in {"B", "Bl"} ->
         Bits(\h0A000000) \cup On(i.op = "Bl", 24) \cup Place((i.target \div 4) % 16777216, 0)
    [] i.op = "Bx" -> Bits(\h012FFF10) \cup Place(i.rm, 0)
    [] i.op = "Blx" -> Bits(\h012FFF30) \cup Place(i.rm, 0)
    [] i.op = "Svc" -> Bits(\h0F000000) \cup Place(i.imm, 0)
    [] i.op = "Bkpt" -> Bits(\h01200070) \cup Place(i.imm16 \div 16, 8) \cup Place(i.imm16 % 16, 0)
    [] i.op = "Nop" -> Bits(\h0320F000)

ArmEncode(i) ==
  ArmBody(i) \cup Place(IF i.op = "Bkpt" THEN 14 ELSE IndexIn(ArmCond, i.cond) - 1, 28)

-----------------------------------------------------------------------------
\* RV32I

RvFormat(op, f3, f7) == [op |-> op, f3 |-> f3, f7 |-> f7]
RvTable == << RvFormat("Add", 0, 0), RvFormat("Sub", 0, 32), RvFormat("Sll", 1, 0),
              RvFormat("Slt", 2, 0), RvFormat("Sltu", 3, 0), RvFormat("Xor", 4, 0),
              RvFormat("Srl", 5, 0), RvFormat("Sra", 5, 32), RvFormat("Or", 6, 0),
              RvFormat("And", 7, 0),
              RvFormat("Addi", 0, 0), RvFormat("Slti", 2, 0), RvFormat("Sltiu", 3, 0),
              RvFormat("Xori", 4, 0), RvFormat("Ori", 6, 0), RvFormat("Andi", 7, 0),
              RvFormat("Slli", 1, 0), RvFormat("Srli", 5, 0), RvFormat("Srai", 5, 32),
              RvFormat("Beq", 0, 0), RvFormat("Bne", 1, 0), RvFormat("Blt", 4, 0),
              RvFormat("Bge", 5, 0), RvFormat("Bltu", 6, 0), RvFormat("Bgeu", 7, 0),
              RvFormat("Lb", 0, 0), RvFormat("Lh", 1, 0), RvFormat("Lw", 2, 0),
              RvFormat("Lbu", 4, 0), RvFormat("Lhu", 5, 0),
              RvFormat("Sb", 0, 0), RvFormat("Sh", 1, 0), RvFormat("Sw", 2, 0),
              RvFormat("Jalr", 0, 0) >>

RvKind(op) ==
  LET k == CHOOSE k \in DOMAIN RvTable : RvTable[k].op = op
  IN RvTable[k] @@ [kind |-> CASE k \in 1 .. 10 -> "reg" [] k \in 11 .. 16 -> "imm"
                               [] k \in 17 .. 19 -> "shift" [] k \in 20 .. 25 -> "branch"
                               [] k \in 26 .. 30 -> "load" [] k \in 31 .. 33 -> "store"
                               [] k = 34 -> "jalr"]

RvFields(i, k, f3, imm) ==
  CASE k.kind = "reg" -> Place(\h33, 0) \cup f3 \cup Place(k.f7, 25) \cup Place(i.rd, 7)
                              \cup Place(i.rs1, 15) \cup Place(i.rs2, 20)
       [] k.kind \in {"imm", "load", "jalr"} ->
            Place(CASE k.kind = "imm" -> \h13 [] k.kind = "load" -> \h03 [] k.kind = "jalr" -> \h67, 0)
              \cup f3 \cup Place(i.rd, 7) \cup Place(i.rs1, 15) \cup Place(imm, 20)
       [] k.kind = "shift" -> Place(\h13, 0) \cup f3 \cup Place(k.f7, 25) \cup Place(i.rd, 7)
                                \cup Place(i.rs1, 15) \cup Place(i.shamt, 20)
       [] k.kind = "store" -> Place(\h23, 0) \cup f3 \cup Place(imm % 32, 7) \cup Place(i.rs1, 15)
                                \cup Place(i.rs2, 20) \cup Place(imm \div 32, 25)
       [] k.kind = "branch" ->
            Place(\h63, 0) \cup f3 \cup Place(i.rs1, 15) \cup Place(i.rs2, 20)
                 \cup {CASE n = 12 -> 31 [] n \in 5 .. 10 -> n + 20 [] n \in 1 .. 4 -> n + 7
                         [] n = 11 -> 7 : n \in Bits(i.imm % 8192)}    \* 12|10:5|4:1|11

RvTyped(i, k) == RvFields(i, k, Place(k.f3, 12), i.imm % 4096)

RiscvEncode(i) ==
  CASE i.op = "Lui" -> i.imm \cup Place(\h37, 0) \cup Place(i.rd, 7)
    [] i.op = "Auipc" -> i.imm \cup Place(\h17, 0) \cup Place(i.rd, 7)
    [] i.op = "Jal" ->
         LET b == Bits(i.imm % 2097152)       \* 20|10:1|11|19:12
         IN Place(\h6F, 0) \cup Place(i.rd, 7)
              \cup {CASE n = 20 -> 31 [] n \in 1 .. 10 -> n + 20 [] n = 11 -> 20
                      [] n \in 12 .. 19 -> n : n \in b}
    [] i.op = "Ecall" -> Place(\h73, 0)
    [] i.op = "Ebreak" -> Place(\h73, 0) \cup {20}
    [] OTHER -> RvTyped(i, RvKind(i.op))
-----------------------------------------------------------------------------
\* IA-32.  An operand in memory as ModRM, SIB and a displacement of n bytes;
\* base, index are singletons or absent, ESP is no index, and EBP needs a
\* displacement.  The displacement is not negative.

LeBytes(v, n) == [k \in 1 .. n |-> (v \div 256^(k - 1)) % 256]
The(S) == CHOOSE x \in S : TRUE

ModRm(mode, reg, rm) == 64 * mode + 8 * reg + rm

MemoryOperand(reg, base, index, scale, disp, n) ==
  LET mode == IF base = {} \/ n = 0 THEN 0 ELSE IF n = 1 THEN 1 ELSE 2
      bits == IF base = {} THEN 5 ELSE The(base)
      ss == CHOOSE k \in 0 .. 3 : 2^k = scale
  IN (IF index # {} \/ base = {4}
      THEN << ModRm(mode, reg, 4), ModRm(ss, IF index = {} THEN 4 ELSE The(index), bits) >>
      ELSE << ModRm(mode, reg, bits) >>)
       \o LeBytes(disp, n)

\* The displacements a base can have: none without a base is 32 bits.
DispBytes(base) == IF base = {} THEN {4} ELSE IF base = {5} THEN {1, 4} ELSE {0, 1, 4}

\* The opcode map: an opcode, the digit in ModRM's reg field (-1 if any, -2 if
\* there is no ModRM), what follows, and the name.  "z" is an immediate of the
\* operand size.
Opcode(bytes, digit, follows, name) ==
  [bytes |-> bytes, digit |-> digit, follows |-> follows, name |-> name]
AluNames == << "Add", "Or", "Adc", "Sbb", "And", "Sub", "Xor", "Cmp" >>
JumpOnCondition == 0 .. 15

OpcodeMap ==
  UNION {{Opcode(<< 8 * k - 8 + j >>, -1, "", AluNames[k]) : j \in 0 .. 3} : k \in 1 .. 8}
    \cup {Opcode(<< 8 * k - 4 >>, -2, "b", AluNames[k]) : k \in 1 .. 8}
    \cup {Opcode(<< 8 * k - 3 >>, -2, "z", AluNames[k]) : k \in 1 .. 8}
    \cup {Opcode(<< \h80 >>, k - 1, "b", AluNames[k]) : k \in 1 .. 8}
    \cup {Opcode(<< \h81 >>, k - 1, "z", AluNames[k]) : k \in 1 .. 8}
    \cup {Opcode(<< \h83 >>, k - 1, "b", AluNames[k]) : k \in 1 .. 8}
    \cup UNION {{Opcode(<< \h40 + r >>, -2, "", "Inc"), Opcode(<< \h48 + r >>, -2, "", "Dec"),
                 Opcode(<< \h50 + r >>, -2, "", "Push"), Opcode(<< \h58 + r >>, -2, "", "Pop"),
                 Opcode(<< \hB8 + r >>, -2, "z", "Mov")} : r \in 0 .. 7}
    \cup UNION {{Opcode(<< \h70 + c >>, -2, "b", "Jcc"),
                 Opcode(<< \h0F, \h80 + c >>, -2, "d", "Jcc")} : c \in JumpOnCondition}
    \cup UNION {{Opcode(<< \h84 + w >>, -1, "", "Test"), Opcode(<< \h88 + w >>, -1, "", "Mov"),
                 Opcode(<< \h8A + w >>, -1, "", "Mov"), Opcode(<< \hA4 + w >>, -2, "", "Movs"),
                 Opcode(<< \hA6 + w >>, -2, "", "Cmps"), Opcode(<< \hAA + w >>, -2, "", "Stos"),
                 Opcode(<< \hAC + w >>, -2, "", "Lods"), Opcode(<< \hAE + w >>, -2, "", "Scas"),
                 Opcode(<< \hF6 + w >>, 2, "", "Not"), Opcode(<< \hF6 + w >>, 3, "", "Neg"),
                 Opcode(<< \hF6 + w >>, 4, "", "Mul"), Opcode(<< \hF6 + w >>, 6, "", "Div"),
                 Opcode(<< \hE4 + w >>, -2, "b", "In"), Opcode(<< \hE6 + w >>, -2, "b", "Out"),
                 Opcode(<< \hEC + w >>, -2, "", "In"), Opcode(<< \hEE + w >>, -2, "", "Out"),
                 Opcode(<< \h6C + w >>, -2, "", "Ins"), Opcode(<< \h6E + w >>, -2, "", "Outs")} : w \in 0 .. 1}
    \cup {Opcode(<< \hA8 >>, -2, "b", "Test"), Opcode(<< \hA9 >>, -2, "z", "Test"),
          Opcode(<< \hC6 >>, 0, "b", "Mov"), Opcode(<< \hC7 >>, 0, "z", "Mov"),
          Opcode(<< \hF6 >>, 0, "b", "Test"), Opcode(<< \hF7 >>, 0, "z", "Test"),
          Opcode(<< \hC1 >>, 4, "b", "Shl"), Opcode(<< \hC1 >>, 5, "b", "Shr"), Opcode(<< \hC1 >>, 7, "b", "Sar"),
          Opcode(<< \hD3 >>, 4, "", "Shl"), Opcode(<< \hD3 >>, 5, "", "Shr"), Opcode(<< \hD3 >>, 7, "", "Sar"),
          Opcode(<< \h0F, \hAF >>, -1, "", "Imul"), Opcode(<< \h0F, \hB6 >>, -1, "", "Movzx8"),
          Opcode(<< \h0F, \hBE >>, -1, "", "Movsx8"),
          Opcode(<< \h90 >>, -2, "", "Nop"), Opcode(<< \h98 >>, -2, "", "Cbw"), Opcode(<< \h99 >>, -2, "", "Cwd"),
          Opcode(<< \hC3 >>, -2, "", "Ret"), Opcode(<< \hC9 >>, -2, "", "Leave"),
          Opcode(<< \hCC >>, -2, "", "Int"), Opcode(<< \hCD >>, -2, "b", "Int"),
          Opcode(<< \hE0 >>, -2, "b", "Loopne"), Opcode(<< \hE1 >>, -2, "b", "Loope"),
          Opcode(<< \hE2 >>, -2, "b", "Loop"), Opcode(<< \hE3 >>, -2, "b", "Jecxz"),
          Opcode(<< \hE8 >>, -2, "d", "Call"), Opcode(<< \hE9 >>, -2, "d", "Jmp"),
          Opcode(<< \hEB >>, -2, "b", "Jmp"), Opcode(<< \hFC >>, -2, "", "Cld"), Opcode(<< \hFD >>, -2, "", "Std"),
          Opcode(<< \h0F, \h05 >>, -2, "", "Syscall"), Opcode(<< \h0F, \h07 >>, -2, "", "Sysret"),
          Opcode(<< \h0F, \h34 >>, -2, "", "Sysenter"), Opcode(<< \h0F, \h35 >>, -2, "", "Sysexit")}

\* What follows the opcode: operand bytes, then the immediate.
Follows(c, operand, wide) ==
  operand \o LeBytes(200, CASE c.follows = "" -> 0 [] c.follows = "b" -> 1
                            [] c.follows = "d" -> 4 [] c.follows = "z" -> wide)
=============================================================================
