------------------------------- MODULE MCGuest ------------------------------
(***************************************************************************)
(* Guest programs for TLC.  A byte has two bits, so a word has eight, and  *)
(* the data memory is two adjacent regions of two words each.  Every       *)
(* program carries what the claims need to know about it: which registers  *)
(* hold the operands, and which the result.                                *)
(***************************************************************************)
EXTENDS Guest, Encodings

Seqs == INSTANCE SequencesExt

Low == 96 .. 103
High == 104 .. 111
MCRegions == {Low, High}
MCImage == [c \in Low \cup High |-> (c + c \div 3) % 4]

V == {0, 1, M \div 2 - 1, M \div 2, M - 1}
Wide4 == {0, 1, M \div 2, M - 1}

-----------------------------------------------------------------------------
\* Assembling.  about says what a claim has to know.

Assembled(arch, source, claim, about) ==
  [arch |-> arch, source |-> source, claim |-> claim, about |-> about,
   regs |-> {<<>>}, flags |-> {{}}, mapped |-> {Regions}, handles |-> FALSE, vector |-> 0, statuses |-> {}]

Encoded(p) ==
  [code |-> CASE p.arch = "arm" -> [k \in DOMAIN p.source |-> ArmEncode(p.source[k])]
              [] p.arch = "riscv" -> [k \in DOMAIN p.source |-> RiscvEncode(p.source[k])]
              [] p.arch = "x86" -> Seqs!FlattenSeq(p.source)] @@ p
EachEncoded(programs) == [k \in DOMAIN programs |-> Encoded(programs[k])]

From(p, regs) == [p EXCEPT !.regs = regs]
Paged(p) == [p EXCEPT !.mapped = SUBSET Regions]
WithFlags(p, flags) == [p EXCEPT !.flags = flags]

\* ARM
Rm(m) == [rm |-> m, shift |-> [shift_type |-> "Lsl", amount |-> 0]]
Imm(v) == [val |-> Bits(v), carry_out |-> {}]
Data(op, s, rd, rn, op2) ==
  [op |-> op, cond |-> "Al", s |-> s, rd |-> rd, rn |-> rn, op2 |-> op2]
Cond(i, c) == [i EXCEPT !.cond = c]
Mem(op, rd, rn, offset, pre, writeback, up) ==
  [op |-> op, cond |-> "Al", rd |-> rd, rn |-> rn, offset |-> offset,
   pre |-> pre, writeback |-> writeback, up |-> up]
At0(op, rd, rn, k) == Mem(op, rd, rn, Imm(k), TRUE, FALSE, TRUE)
Block(op, rn, list, p, u, w) ==
  [op |-> op, cond |-> "Al", rn |-> rn, reg_list |-> list, p |-> p, u |-> u, w |-> w]
To(op, target) == [op |-> op, cond |-> "Al", target |-> target]
Through(op, rm) == [op |-> op, cond |-> "Al", rm |-> rm]
Long(op, lo, hi, rm, rs) ==
  [op |-> op, cond |-> "Al", s |-> TRUE, rd_lo |-> lo, rd_hi |-> hi, rm |-> rm, rs |-> rs]
Slice(op, rd, rn, lsb, width) ==
  [op |-> op, cond |-> "Al", rd |-> rd, rn |-> rn, lsb |-> lsb, width |-> width]
Unary(op, rd, rm) == [op |-> op, cond |-> "Al", rd |-> rd, rm |-> rm]
Widen(op, rd, rm, rot, rn) ==
  [op |-> op, cond |-> "Al", rd |-> rd, rm |-> rm, rot |-> rot, rn |-> rn]
ToStatus(use_spsr, mask, op2) ==
  [op |-> "Msr", cond |-> "Al", use_spsr |-> use_spsr, mask |-> mask, op2 |-> op2]
FromStatus(rd, use_spsr) == [op |-> "Mrs", cond |-> "Al", rd |-> rd, use_spsr |-> use_spsr]

\* RV32I
RReg(op, rd, rs1, rs2) == [op |-> op, rd |-> rd, rs1 |-> rs1, rs2 |-> rs2]
RImm(op, rd, rs1, imm) == [op |-> op, rd |-> rd, rs1 |-> rs1, imm |-> imm]
RShift(op, rd, rs1, shamt) == [op |-> op, rd |-> rd, rs1 |-> rs1, shamt |-> shamt]
RPut(op, rs1, rs2, imm) == [op |-> op, rs1 |-> rs1, rs2 |-> rs2, imm |-> imm]
RJal(rd, imm) == [op |-> "Jal", rd |-> rd, imm |-> imm]

-----------------------------------------------------------------------------
\* A program about whose end a claim is made, and the machine it ended with.
Finished(claim) ==
  /\ Prog.claim = claim
  /\ machine.err = "ok"
  /\ Pc(machine) = Bytes
  /\ ~slipped

Was(r) == first.regs[r]
Is(r) == machine.regs[r]
Raised(f) == f \in (IF Prog.arch = "arm" THEN machine.cpsr.flags ELSE machine.flags)

-----------------------------------------------------------------------------
\* Carry chains: numbers of two words, << low, high >>.

Chain(op, a, b, res, carry, overflow) ==
  [op |-> op, a |-> a, b |-> b, res |-> res, carry |-> carry, overflow |-> overflow]

ArmChain(op, low, high) ==
  From(Assembled("arm", << Data(low, TRUE, 4, 0, Rm(1)), Data(high, TRUE, 5, 2, Rm(3)) >>,
                 "wide", Chain(op, << 0, 2 >>, << 1, 3 >>, << 4, 5 >>, "C", "V")),
       [0 .. 3 -> Wide4])

X86Chain(op, source) ==
  From(Assembled("x86", source, "wide",
                 Chain(op, << 0, 2 >>, << 1, 3 >>, << 0, 2 >>, "CF", "OF")), [0 .. 3 -> Wide4])

RiscvChain(op, source) ==
  From(Assembled("riscv", source, "wide",
                 Chain(op, << 1, 3 >>, << 2, 4 >>, << 5, 7 >>, "none", "none")), [1 .. 4 -> Wide4])

WidePrograms ==
  << ArmChain("add", "Add", "Adc"), ArmChain("sub", "Sub", "Sbc"), ArmChain("rsb", "Rsb", "Rsc"),
     \* ADD EAX,ECX; INC ESI; ADC EDX,EBX    SUB EAX,ECX; DEC ESI; SBB EDX,EBX
     X86Chain("add", << << \h01, \hC8 >>, << \h46 >>, << \h11, \hDA >> >>),
     X86Chain("sub", << << \h29, \hC8 >>, << \h4E >>, << \h19, \hDA >> >>),
     RiscvChain("add", << RReg("Add", 5, 1, 2), RReg("Sltu", 6, 5, 1),
                          RReg("Add", 7, 3, 4), RReg("Add", 7, 7, 6) >>),
     RiscvChain("sub", << RReg("Sub", 5, 1, 2), RReg("Sltu", 6, 1, 2),
                          RReg("Sub", 7, 3, 4), RReg("Sub", 7, 7, 6) >>) >>

\* Chains of adds and subtracts through the carry flag, with an INC or DEC in
\* between on x86 and with SLTU in its place on RV32I, compute numbers of two
\* words, and the flags of the last one are those of the wide result.
WideArithmetic ==
  Finished("wide") =>
    LET about == Prog.about
        MM == M * M
        N(r, R(_)) == R(r[1]) + M * R(r[2])
        a == IF about.op = "rsb" THEN N(about.b, Was) ELSE N(about.a, Was)
        b == IF about.op = "rsb" THEN N(about.a, Was) ELSE N(about.b, Was)
        exact == IF about.op = "add" THEN a + b ELSE a - b
        signed == IF about.op = "add" THEN Signed(a, MM) + Signed(b, MM)
                  ELSE Signed(a, MM) - Signed(b, MM)
        carry == IF about.op = "add" THEN exact >= MM
                 ELSE (exact < 0) = (Prog.arch = "x86")    \* ARM's C is "no borrow"
    IN /\ N(about.res, Is) = exact % MM
       /\ Prog.arch # "riscv" =>
             /\ Raised(about.carry) = carry
             /\ Raised(about.overflow) = (signed # Signed(signed % MM, MM))

-----------------------------------------------------------------------------
\* Comparisons: one program for each condition of each processor.

ArmRelation == << "eq", "ne", "uge", "ult", "neg", "pos", "ovf", "novf",
                  "ugt", "ule", "sge", "slt", "sgt", "sle" >>
X86Relation == << "ovf", "novf", "ult", "uge", "eq", "ne", "ule", "ugt",
                  "neg", "pos", "even", "odd", "slt", "sge", "sle", "sgt" >>
RiscvRelation == ("Beq" :> "eq") @@ ("Bne" :> "ne") @@ ("Blt" :> "slt") @@ ("Bge" :> "sge")
                   @@ ("Bltu" :> "ult") @@ ("Bgeu" :> "uge")
RiscvBranches == << "Beq", "Bne", "Blt", "Bge", "Bltu", "Bgeu" >>

\* Registers a and b are compared, n bytes of them; res is set if it holds.
Comparison(relation, a, b, n, res, otherwise) ==
  [relation |-> relation, a |-> a, b |-> b, n |-> n, res |-> res, otherwise |-> otherwise]

\* CMP r0,r1; MOV<c> r2,#1
ArmComparison(k) ==
  From(Assembled("arm", << Data("Cmp", TRUE, 0, 0, Rm(1)),
                           Cond(Data("Mov", FALSE, 2, 0, Imm(1)), ArmCond[k]) >>,
                 "compare", Comparison(ArmRelation[k], 0, 1, 4, 2, 0)), [0 .. 1 -> V])

\* CMP, Jcc (short or near) over a two byte INC EDX.
X86Comparison(k, n, compare, jump) ==
  From(Assembled("x86", << compare, jump, << \h42 >> >>,
                 "compare", Comparison(X86Relation[k], 0, 1, n, 2, 1)), [0 .. 1 -> V])

\* B<c> x1,x2 over ADDI x3,x0,1.
RiscvComparison(op) ==
  From(Assembled("riscv", << RPut(op, 1, 2, 8), RImm("Addi", 3, 0, 1) >>,
                 "compare", Comparison(RiscvRelation[op], 1, 2, 4, 3, 1)), [1 .. 2 -> V])

ConditionPrograms ==
  [k \in 1 .. 14 |-> ArmComparison(k)]
    \o [k \in 1 .. 16 |-> X86Comparison(k, 4, << \h39, \hC8 >>, << \h70 + k - 1, 1 >>)]
    \o [k \in 1 .. 16 |-> X86Comparison(k, 2, << \h66, \h39, \hC8 >>,
                                        << \h0F, \h80 + k - 1, 1, 0, 0, 0 >>)]
    \o [k \in 1 .. 16 |-> X86Comparison(k, 1, << \h38, \hC8 >>, << \h70 + k - 1, 1 >>)]
    \o [k \in 1 .. 6 |-> RiscvComparison(RiscvBranches[k])]

Holds(relation, a, b, m) ==
  LET x == Signed(a, m)   y == Signed(b, m)   less == (a - b) % m
      overflow == x - y # Signed(less, m)
      even == Cardinality({i \in 0 .. ByteBits - 1 : Bit(less, i)}) % 2 = 0
  IN CASE relation = "eq" -> a = b        [] relation = "ne" -> a # b
       [] relation = "ult" -> a < b       [] relation = "uge" -> a >= b
       [] relation = "ugt" -> a > b       [] relation = "ule" -> a <= b
       [] relation = "slt" -> x < y       [] relation = "sge" -> x >= y
       [] relation = "sgt" -> x > y       [] relation = "sle" -> x <= y
       [] relation = "neg" -> 2 * less >= m   [] relation = "pos" -> 2 * less < m
       [] relation = "ovf" -> overflow    [] relation = "novf" -> ~overflow
       [] relation = "even" -> even       [] relation = "odd" -> ~even

\* After a comparison every condition of every processor decides what its name
\* says of the two operands, as signed or as unsigned numbers, for operands of
\* every size; a taken branch skips the next instruction and no more.
ConditionsDecide ==
  Finished("compare") =>
    LET about == Prog.about
        m == Span(about.n)
    IN Is(about.res) =
         IF Holds(about.relation, Was(about.a) % m, Was(about.b) % m, m)
         THEN 1 - about.otherwise ELSE about.otherwise

-----------------------------------------------------------------------------
\* Bitwise operations, against sums: a & b and a | b make a + b.

Bitwise2(a, b, and, or, xor) == [a |-> a, b |-> b, and |-> and, or |-> or, xor |-> xor]

BitwisePrograms ==
  << \* AND r4; ORR r5; EOR r6; MVN r7; BIC r7,r7,r1 (neither); TST; EQ r8; TEQ; EQ r9
     From(Assembled("arm", << Data("And", FALSE, 4, 0, Rm(1)), Data("Orr", FALSE, 5, 0, Rm(1)),
                              Data("Eor", FALSE, 6, 0, Rm(1)), Data("Mvn", FALSE, 7, 0, Rm(0)),
                              Data("Bic", FALSE, 7, 7, Rm(1)), Data("Tst", TRUE, 0, 0, Rm(1)),
                              Cond(Data("Mov", FALSE, 8, 0, Imm(1)), "Eq"),
                              Data("Teq", TRUE, 0, 0, Rm(1)),
                              Cond(Data("Mov", FALSE, 9, 0, Imm(1)), "Eq") >>,
                    "bitwise", Bitwise2(0, 1, 4, 5, 6) @@ [neither |-> 7, disjoint |-> 8, same |-> 9]),
          [0 .. 1 -> {0, 1, 6, 83, 170, 255}]),
     \* MOV EDX,EAX; AND EDX,ECX; MOV EBX,EAX; OR EBX,ECX; MOV ESI,EAX; XOR ESI,ECX;
     \* MOV EDI,EBX; NOT EDI; TEST EAX,ECX; JNE; INC EBP
     From(Assembled("x86", << << \h89, \hC2 >>, << \h21, \hCA >>, << \h89, \hC3 >>, << \h09, \hCB >>,
                              << \h89, \hC6 >>, << \h31, \hCE >>, << \h89, \hDF >>, << \hF7, \hD7 >>,
                              << \h85, \hC8 >>, << \h75, 1 >>, << \h45 >> >>,
                    "bitwise", Bitwise2(0, 1, 2, 3, 6) @@ [neither |-> 7, disjoint |-> 5]),
          [0 .. 1 -> {0, 1, 6, 83, 170, 255}]),
     From(Assembled("riscv", << RReg("And", 4, 1, 2), RReg("Or", 5, 1, 2), RReg("Xor", 6, 1, 2),
                                RImm("Xori", 7, 5, -1) >>,
                    "bitwise", Bitwise2(1, 2, 4, 5, 6) @@ [neither |-> 7]),
          [1 .. 2 -> {0, 1, 6, 83, 170, 255}]) >>

\* The bitwise operations agree with the arithmetic ones: what two words have
\* in common and what they have together add up to their sum, the difference
\* of these is what they differ in, and the tests see when it is nothing.
BitwiseAddsUp ==
  Finished("bitwise") =>
    LET about == Prog.about
        a == Was(about.a)   b == Was(about.b)
        Tells(f, fact) == f \in DOMAIN about => (Is(about[f]) = IF fact THEN 1 ELSE 0)
    IN /\ Is(about.and) + Is(about.or) = a + b
       /\ Is(about.xor) = Is(about.or) - Is(about.and)
       /\ Is(about.neither) = M - 1 - Is(about.or)
       /\ Tells("disjoint", Is(about.and) = 0)
       /\ Tells("same", a = b)

-----------------------------------------------------------------------------
\* Shifts by every amount, from a register and from the instruction.

Shifts(type, val, res, amount) ==
  [type |-> type, val |-> val, res |-> res, amount |-> amount, n |-> 4]
Halved(shifts) == [shifts EXCEPT !.n = 2]

ArmShiftBy(type, shift, amount) ==
  Assembled("arm", << Data("Mov", TRUE, 2, 0, [rm |-> 0, shift |-> shift]) >>,
            "shift", Shifts(type, 0, 2, amount))

\* The bits of SHL, SHR and SAR r/m32 in ModRM: /4, /5 and /7, on EDX.
X86ShiftNo == ("Lsl" :> \hE2) @@ ("Lsr" :> \hEA) @@ ("Asr" :> \hFA)
RiscvShift == ("Lsl" :> "Sll") @@ ("Lsr" :> "Srl") @@ ("Asr" :> "Sra")
RiscvShiftImm == ("Lsl" :> "Slli") @@ ("Lsr" :> "Srli") @@ ("Asr" :> "Srai")

\* A register gives its low byte, which has 8 * Width values.
Amounts == (0 .. Width + 2) \cup {2 * Width, 2 * Width + 1, 8 * Width - 1, 8 * Width}
Pairs(r, X, q, Y) == {(r :> x) @@ (q :> y) : x \in X, y \in Y}
ShiftPrograms ==
  Seqs!FlattenSeq([t \in 1 .. 4 |->
     << From(WithFlags(ArmShiftBy(ArmShift[t], [shift_type |-> ArmShift[t], rs |-> 1],
                                  [from |-> "reg", by |-> 1]), {{}, {"C"}}),
             Pairs(0, V, 1, Amounts)) >>
     \o [n \in 1 .. 10 |->
          From(WithFlags(ArmShiftBy(ArmShift[t], [shift_type |-> ArmShift[t], amount |-> n - 1],
                                    [from |-> "imm", by |-> n - 1]), {{}, {"C"}}), [{0} -> V])]])
  \o Seqs!FlattenSeq([t \in 1 .. 3 |->
     << From(Assembled("x86", << << \hD3, X86ShiftNo[ArmShift[t]] >> >>,   \* by CL
                       "shift", Shifts(ArmShift[t], 2, 2, [from |-> "reg", by |-> 1])),
             Pairs(2, V, 1, Amounts)),
        From(Assembled("x86", << << \h66, \hD3, X86ShiftNo[ArmShift[t]] >> >>,   \* of DX
                       "shift", Halved(Shifts(ArmShift[t], 2, 2, [from |-> "reg", by |-> 1]))),
             Pairs(2, V, 1, Amounts)),
        From(Assembled("riscv", << RReg(RiscvShift[ArmShift[t]], 3, 1, 2) >>,
                       "shift", Shifts(ArmShift[t], 1, 3, [from |-> "reg", by |-> 2])),
             Pairs(1, V, 2, Amounts)) >>
     \o [n \in 1 .. 9 |->
          From(Assembled("x86", << << \hC1, X86ShiftNo[ArmShift[t]], n - 1 >> >>,
                         "shift", Shifts(ArmShift[t], 2, 2, [from |-> "imm", by |-> n - 1])),
               [{2} -> V])]
     \o [n \in 1 .. 8 |->
          From(Assembled("riscv", << RShift(RiscvShiftImm[ArmShift[t]], 3, 1, n - 1) >>,
                         "shift", Shifts(ArmShift[t], 1, 3, [from |-> "imm", by |-> n - 1])),
               [{1} -> V])]])

\* One bit at a time: the word, and the bit that falls out.
OneBit(type, x, m) ==
  CASE type = "Lsl" -> [val |-> (2 * x) % m, out |-> 2 * x >= m]
    [] type = "Lsr" -> [val |-> x \div 2, out |-> x % 2 = 1]
    [] type = "Asr" -> [val |-> x \div 2 + (x \div (m \div 2)) * (m \div 2), out |-> x % 2 = 1]
    [] type = "Ror" -> [val |-> x \div 2 + (x % 2) * (m \div 2), out |-> x % 2 = 1]

OneByOne(type, x, out, n, m) ==
  LET by[k \in 0 .. n] == IF k = 0 THEN [val |-> x, out |-> out] ELSE OneBit(type, by[k - 1].val, m)
  IN by[n]

\* A shift by n is n shifts by one bit, in the value and in the bit that falls
\* out last, also when n is the width of a word or more.  RV32I and x86 take n
\* modulo the width.  On ARM a shift by zero means by a whole word to the
\* right, and for ROR one bit through the carry: the immediate encodings are
\* defined so, and evaluate_operand2 treats a zero in a register alike.  On x86
\* a count may exceed the bits of a 16 bit operand: SHR and SAR then still give
\* the value, their carry is not claimed, and SHL ends in the overflow of the
\* subtraction that finds its carry, which is the only end of the process.
ShiftsBitByBit ==
  Prog.claim = "shift" /\ (Finished("shift") \/ machine.err # "ok") =>
    LET about == Prog.about
        m == Span(about.n)
        given == IF about.amount.from = "imm" THEN about.amount.by ELSE Was(about.amount.by) % (8 * Width)
        x == Was(about.val) % m
        carry == "C" \in first.cpsr.flags
        n == CASE Prog.arch # "arm" -> given % Width
               [] Prog.arch = "arm" /\ given # 0 -> given
               [] Prog.arch = "arm" /\ given = 0 ->
                    IF about.type \in {"Lsr", "Asr"} THEN Width ELSE 0
        expected ==
          CASE Prog.arch = "arm" /\ given = 0 /\ about.type = "Ror" ->
                 [val |-> x \div 2 + (IF carry THEN M \div 2 ELSE 0), out |-> x % 2 = 1]
            [] Prog.arch = "arm" /\ ~(given = 0 /\ about.type = "Ror") ->
                 OneByOne(about.type, x, carry, n, m)
            [] Prog.arch # "arm" -> OneByOne(about.type, x, FALSE, n, m)
        kept == IF about.n = 4 THEN 0 ELSE Was(about.res) - (Was(about.res) % m)
    IN /\ Is(about.res) = kept + expected.val
       /\ Prog.arch = "arm" => Raised("C") = expected.out
       /\ Prog.arch = "x86" /\ n \in 1 .. about.n * ByteBits => Raised("CF") = expected.out
       /\ machine.err = "ok" \/ (machine.err = "panic" /\ about.type = "Lsl" /\ n > about.n * ByteBits)

-----------------------------------------------------------------------------
\* Saving registers and returning.

StackPointers == 96 .. 116
Saves(moved, counter) == [moved |-> moved, counter |-> counter]
Kept(R) == {<< r, r >> : r \in R}

\* STM in each of its modes and LDM in the one that undoes it.
StackModes == << << TRUE, FALSE >>, << FALSE, FALSE >>, << TRUE, TRUE >>, << FALSE, TRUE >> >>
ArmStack(k) ==
  LET p == StackModes[k][1]   u == StackModes[k][2]
  IN Paged(From(Assembled("arm", << Block("Stm", 13, {0, 1, 4}, p, u, TRUE),
                                    Data("Mvn", FALSE, 1, 0, Rm(0)), Data("Add", FALSE, 0, 0, Rm(1)),
                                    Block("Ldm", 13, {0, 1, 4}, ~p, ~u, TRUE) >>,
                          "saved", Saves(Kept({0, 1, 4, 13}), {})),
                {(0 :> 7) @@ (1 :> 255) @@ (4 :> 85) @@ (13 :> sp) : sp \in StackPointers}))

\* BL f; ADD r0,r0,#1; B end;
\* f: STMDB sp!,{r4,lr}; MOV r4,#9; BL g; LDMIA sp!,{r4,pc};  g: BX lr
ArmCalls(call) ==
  Paged(From(Assembled("arm", << call, Data("Add", FALSE, 0, 0, Imm(1)), To("B", 16),
                                 Block("Stm", 13, {4, 14}, TRUE, FALSE, TRUE),
                                 Data("Mov", FALSE, 4, 0, Imm(9)), To("Bl", 0),
                                 Block("Ldm", 13, {4, 15}, FALSE, TRUE, TRUE),
                                 Through("Bx", 14) >>,
                       "saved", Saves(Kept({4, 13}), {0})),
             {(0 :> 7) @@ (4 :> 85) @@ (5 :> 12) @@ (13 :> sp) : sp \in StackPointers}))

X86Stack ==
  \* PUSH EAX; PUSH ECX; POP EDX; POP EBX
  << Paged(From(Assembled("x86", << << \h50 >>, << \h51 >>, << \h5A >>, << \h5B >> >>, "saved",
                          Saves({<< 2, 1 >>, << 3, 0 >>, << 4, 4 >>}, {})),
                [{0, 1} -> {0, 77, 255}] )),
     \* PUSH AX; PUSH CX; POP AX; POP CX; exchanged
     Paged(From(Assembled("x86", << << \h66, \h50 >>, << \h66, \h51 >>, << \h66, \h58 >>, << \h66, \h59 >> >>,
                          "saved", Saves({<< 0, 1 >>, << 1, 0 >>, << 4, 4 >>}, {})),
                [{0, 1} -> {0, 5, 15}])),
     \* CALL f; INC EAX; JMP end; f: PUSH EBP; MOV EBP,ESP; SUB ESP,4; LEAVE; RET
     Paged(From(Assembled("x86", << << \hE8, 3, 0, 0, 0 >>, << \h40 >>, << \hEB, 8 >>, << \h55 >>,
                                    << \h89, \hE5 >>, << \h83, \hEC, 4 >>, << \hC9 >>, << \hC3 >> >>,
                          "saved", Saves(Kept({4, 5}), {0})),
                [{5} -> {0, 255}])) >>
WithEsp(p) == [p EXCEPT !.regs = {g @@ (4 :> sp) : g \in p.regs, sp \in StackPointers}]

\* JAL x1,f; ADDI x10,x10,1; JAL x0,end;
\* f: ADDI x2,x2,-8; SW x1,0(x2); SW x8,4(x2); JAL x1,g; LW x8,4(x2); LW x1,0(x2); ADDI x2,x2,8;
\* JALR x0,0(x1);  g: XORI x8,x8,-1; JALR x0,0(x1)
RiscvCalls ==
  Paged(From(Assembled("riscv", << RJal(1, 12), RImm("Addi", 10, 10, 1), RJal(0, 44),
                                   RImm("Addi", 2, 2, -8), RPut("Sw", 2, 1, 0), RPut("Sw", 2, 8, 4),
                                   RJal(1, 20), RImm("Lw", 8, 2, 4), RImm("Lw", 1, 2, 0),
                                   RImm("Addi", 2, 2, 8), RImm("Jalr", 0, 1, 0),
                                   RImm("Xori", 8, 8, -1), RImm("Jalr", 0, 1, 0) >>,
                       "saved", Saves(Kept({2, 8}), {10})),
             {(8 :> 85) @@ (10 :> 7) @@ (2 :> sp) : sp \in StackPointers}))

StackPrograms ==
  [k \in 1 .. 4 |-> ArmStack(k)]
    \o << ArmCalls(To("Bl", 4)), ArmCalls(Through("Blx", 5)) >>
    \o [k \in 1 .. 3 |-> WithEsp(X86Stack[k])] \o << RiscvCalls >>

\* What is saved on the stack comes back, from the place it was saved at: the
\* four addressing modes of STM and LDM undo each other, PUSH and POP of both
\* sizes pair up last in, first out, and calls, nested ones too, return to the
\* next instruction exactly once, with the stack pointer and the saved
\* registers as they were, whatever part of the stack the host still had to map.
StackBalances ==
  Finished("saved") =>
    /\ \A pair \in Prog.about.moved : Is(pair[1]) = Was(pair[2])
    /\ \A r \in Prog.about.counter : Is(r) = Was(r) + 1

-----------------------------------------------------------------------------
\* Repeated string operations.  DF counts down.

StringProgram(prefix, opcode, claim, size, sources, targets, counts) ==
  Paged(WithFlags(From(Assembled("x86", << << prefix, opcode >> >>, claim, [size |-> size]),
                       {(0 :> 1) @@ (6 :> src) @@ (7 :> dst) @@ (1 :> n) :
                          src \in sources, dst \in targets, n \in counts}),
                  {{}, {"DF"}}))

Ends == {96, 97, 99, 100, 103, 104, 111}
StringPrograms ==
  << StringProgram(\hF3, \hA4, "copy", 1, Ends, Ends, {0, 1, 3, 6}),      \* REP MOVSB
     StringProgram(\hF3, \hA5, "copy", 4, {96, 100, 104, 108}, {96, 98, 100, 104, 108}, {0, 1, 3}),
     StringProgram(\hF3, \hAA, "fill", 1, {0}, Ends, {0, 1, 3, 6}),       \* REP STOSB
     StringProgram(\hF3, \hAB, "fill", 4, {0}, Ends, {0, 1, 2}),
     StringProgram(\hF2, \hAE, "find", 1, {0}, Ends, {0, 1, 3, 6}),       \* REPNE SCASB
     StringProgram(\hF3, \hA6, "differ", 1, Ends, Ends, {0, 1, 3, 6}),    \* REPE CMPSB
     StringProgram(\hF3, \hAC, "last", 1, Ends, {0}, {1, 3, 6}) >>        \* REP LODSB

\* Byte j of a string at a, in the order it is gone through, and the registers
\* after n elements.
Backwards == "DF" \in first.flags
ByteNo(a, j) == (IF Backwards THEN a - j ELSE a + j) % M
Elements(n) == n * Prog.about.size
Went(n, R) ==
  /\ Is(1) = Was(1) - n
  /\ \A r \in R : Is(r) = ByteNo(Was(r), Elements(n))

\* A repeated MOVS copies ECX elements.  Where the target overlaps the end of
\* the source, it repeats the bytes between the two.  Nothing else changes,
\* wherever it was interrupted by faults.
StringsCopy ==
  Finished("copy") =>
    LET n == Elements(Was(1))
        apart == IF Backwards THEN Was(6) - Was(7) ELSE Was(7) - Was(6)
        From1(j) == first.mem[ByteNo(Was(6), IF apart > 0 THEN j % apart ELSE j)]
        target == {ByteNo(Was(7), j) : j \in 0 .. n - 1}
    IN (Prog.about.size = 1 \/ (~Backwards /\ apart \notin 1 .. 3)) =>
         /\ Went(Was(1), {6, 7})
         /\ \A j \in 0 .. n - 1 : machine.mem[ByteNo(Was(7), j)] = From1(j)
         /\ \A c \in Cells \ target : machine.mem[c] = first.mem[c]

\* A repeated STOS fills ECX elements and LODS gets the last one; SCAS stops
\* behind the first element equal to AL, and CMPS behind the first that differs,
\* with ZF telling which it was, or behind the last one.
StringsSearch ==
  LET n == Was(1)
      At1(r, j) == IF ByteNo(Was(r), j) \in Cells THEN first.mem[ByteNo(Was(r), j)] ELSE -1
      Stops(Q(_)) == {j \in 0 .. n - 1 : Q(j)}
      Behind(S) == IF S = {} THEN n ELSE (CHOOSE j \in S : \A k \in S : j <= k) + 1
      Found(j) == At1(7, j) = 1
      Differs(j) == At1(6, j) # At1(7, j)
  IN /\ Finished("fill") /\ (Prog.about.size = 1 \/ ~Backwards) =>
          /\ Went(n, {7})
          /\ \A c \in Cells : machine.mem[c] =
                IF \E j \in 0 .. Elements(n) - 1 : c = ByteNo(Was(7), j)
                THEN (IF (c - Was(7)) % Prog.about.size = 0 THEN 1 ELSE 0) ELSE first.mem[c]
     /\ Finished("last") => Went(n, {6}) /\ Is(0) = At1(6, n - 1)
     /\ Finished("find") =>
          /\ Went(Behind(Stops(Found)), {7})
          /\ n > 0 => Raised("ZF") = (Stops(Found) # {})
     /\ Finished("differ") =>
          /\ Went(Behind(Stops(Differs)), {6, 7})
          /\ n > 0 => Raised("ZF") = (Stops(Differs) = {})

-----------------------------------------------------------------------------
\* Words put together and taken apart: bit fields, byte orders, narrow accesses.

BitFieldPrograms ==
  Seqs!FlattenSeq([lsb1 \in 1 .. 8 |-> [width \in 1 .. 9 - lsb1 |->
    From(Assembled("arm", << Slice("Bfi", 2, 0, lsb1 - 1, width), Slice("Ubfx", 3, 2, lsb1 - 1, width),
                             Slice("Sbfx", 4, 2, lsb1 - 1, width),
                             [op |-> "Bfc", cond |-> "Al", rd |-> 5, lsb |-> lsb1 - 1, width |-> width] >>,
                   "field", [lsb |-> lsb1 - 1, width |-> width]),
         {(0 :> x) @@ (2 :> y) @@ (5 :> y) : x, y \in {0, 83, 170, 255}})]])

\* BFI puts the low bits of a register into a field that UBFX and SBFX get back
\* out, with and without its sign, and BFC clears, without touching a bit
\* outside the field, wherever it lies and however wide it is: where the
\* decoder knows it, see Misread.
BitFieldsKeepApart ==
  Finished("field") =>
    LET lsb == Prog.about.lsb   width == Prog.about.width
        x == Was(0) % 2^width
        outside == Position \ (lsb .. lsb + width - 1)
        Outside(v) == BitsOf[v] \cap outside
    IN /\ Is(3) = x
       /\ Is(4) = Signed(x, 2^width) % M
       /\ Outside(Is(2)) = Outside(Was(2))
       /\ Outside(Is(5)) = Outside(Was(5))
       /\ BitsOf[Is(5)] \subseteq outside

-----------------------------------------------------------------------------
\* Products, quotients and signs.

ProductPrograms ==
  << From(Assembled("arm", << Long("Umull", 4, 5, 0, 1), Long("Umlal", 4, 5, 2, 3) >>,
                    "sum of products", [kind |-> "long"]), [0 .. 3 -> Wide4]),
     From(Assembled("arm", << [op |-> "Mul", cond |-> "Al", s |-> FALSE, rd |-> 4, rm |-> 0, rs |-> 1],
                              [op |-> "Mla", cond |-> "Al", s |-> TRUE, rd |-> 4, rm |-> 2, rs |-> 3,
                               rn |-> 4] >>,
                    "sum of products", [kind |-> "short"]), [0 .. 3 -> Wide4]),
     \* MUL ECX; MOV ESI,EAX; MOV EDI,EDX; DIV ECX
     From(Assembled("x86", << << \hF7, \hE1 >>, << \h89, \hC6 >>, << \h89, \hD7 >>, << \hF7, \hF1 >> >>,
                    "quotient", <<>>), [0 .. 1 -> V \cup {3, 100}]),
     \* MOV ECX,EAX; IMUL ECX,EDX; CDQ; NEG EDX after a copy of EDX to ESI
     From(Assembled("x86", << << \h89, \hC1 >>, << \h0F, \hAF, \hCA >>, << \h89, \hC3 >>,
                              << \hF7, \hDB >>, << \h99 >> >>,
                    "signed", <<>>), Pairs(0, V, 2, V)) >>

\* The long multiplies of ARM add up products of whole words, with the flags of
\* the long result; MUL of x86 is undone by DIV; IMUL and NEG take words as
\* signed numbers, and CDQ repeats the sign of EAX.
ProductsAreWhole ==
  /\ Finished("sum of products") =>
       LET sum == Was(0) * Was(1) + Was(2) * Was(3)
           long == Prog.about.kind = "long"
           m == IF long THEN M * M ELSE M
       IN /\ Is(4) + (IF long THEN M * Is(5) ELSE 0) = sum % m
          /\ Raised("N") = (2 * (sum % m) >= m)
          /\ Raised("Z") = (sum % m = 0)
  /\ Finished("quotient") =>
       /\ Is(6) + M * Is(7) = Was(0) * Was(1)
       /\ Is(0) = Was(0) /\ Is(2) = 0
       /\ Raised("CF") = (Was(0) * Was(1) >= M)
  /\ Prog.claim = "quotient" /\ machine.err # "ok" => Was(1) = 0
  /\ Finished("signed") =>
       /\ Is(1) = (Signed(Was(0), M) * Signed(Was(2), M)) % M
       /\ Is(3) = (-Was(0)) % M
       /\ Raised("CF") = (Was(0) # 0)
       /\ Signed(Is(0) + M * Is(2), M * M) = Signed(Was(0), M)

-----------------------------------------------------------------------------
\* Bytes in words, halfwords and memory.

Part(reg, at, n, signed) == [reg |-> reg, at |-> at, n |-> n, signed |-> signed]
Apart(arch, source, word, base, parts) ==
  Paged(From(Assembled(arch, source, "apart", [word |-> word, base |-> base, parts |-> parts]),
             Pairs(word, {0, 83, 170, 228}, base, 95 .. 112)))

ApartPrograms ==
  << \* the word is stored post-indexed and read back pre-indexed
     Apart("arm", << Mem("Str", 0, 1, Imm(4), FALSE, FALSE, TRUE),
                     Mem("Ldr", 7, 1, Imm(4), TRUE, TRUE, FALSE),
                     At0("Ldrb", 2, 1, 0), At0("Ldrb", 3, 1, 3), At0("Ldrsb", 6, 1, 1),
                     At0("Ldrh", 4, 1, 2), At0("Ldrsh", 5, 1, 2) >>, 0, 1,
           {Part(7, 0, 4, FALSE), Part(2, 0, 1, FALSE), Part(3, 3, 1, FALSE), Part(6, 1, 1, TRUE),
            Part(4, 2, 2, FALSE), Part(5, 2, 2, TRUE)}),
     \* extensions of rotated registers, without memory
     Apart("arm", << Widen("Sxtb", 2, 0, 1, {}), Widen("Uxtb", 3, 0, 3, {}), Widen("Sxth", 4, 0, 2, {}),
                     Widen("Uxth", 5, 0, 1, {}), Widen("Uxtb", 6, 0, 2, {7}) >>, 0, 1,
           {Part(2, 1, 1, TRUE), Part(3, 3, 1, FALSE), Part(4, 2, 2, TRUE), Part(5, 1, 2, FALSE),
            Part(6, 2, 1, FALSE)}),
     Apart("riscv", << RPut("Sw", 2, 1, 0), RImm("Lbu", 3, 2, 3), RImm("Lb", 4, 2, 1),
                       RImm("Lhu", 5, 2, 2), RImm("Lh", 6, 2, 2), RImm("Lw", 7, 2, 0) >>, 1, 2,
           {Part(3, 3, 1, FALSE), Part(4, 1, 1, TRUE), Part(5, 2, 2, FALSE), Part(6, 2, 2, TRUE),
            Part(7, 0, 4, FALSE)}),
     \* MOV [EBP],EAX; MOVZX ECX,[EBP+3]; MOVSX EDX,[EBP+1]; MOV BX,[EBP+2]; MOV ESI,[EBP]
     Apart("x86", << << \h89, \h45, 0 >>, << \h0F, \hB6, \h4D, 3 >>, << \h0F, \hBE, \h55, 1 >>,
                     << \h66, \h8B, \h5D, 2 >>, << \h8B, \h75, 0 >> >>, 0, 5,
           {Part(1, 3, 1, FALSE), Part(2, 1, 1, TRUE), Part(3, 2, 2, FALSE), Part(6, 0, 4, FALSE)}) >>

\* Two bytes and a halfword are stored, a word is read.
Joined(arch, source, low, next, high, base, word) ==
  Paged(From(Assembled(arch, source, "joined", [low |-> low, next |-> next, high |-> high, word |-> word]),
             {(low :> 6) @@ (next :> 9) @@ (high :> 171) @@ (base :> a) : a \in 95 .. 112}))

JoinedPrograms ==
  << Joined("arm", << At0("Strb", 0, 1, 0), At0("Strb", 2, 1, 1), At0("Strh", 3, 1, 2),
                      At0("Ldr", 4, 1, 0) >>, 0, 2, 3, 1, 4),
     Joined("riscv", << RPut("Sb", 2, 1, 0), RPut("Sb", 2, 3, 1), RPut("Sh", 2, 4, 2),
                        RImm("Lw", 5, 2, 0) >>, 1, 3, 4, 2, 5),
     \* MOV [EBP],AL; MOV [EBP+1],BL; MOV [EBP+2],CX; MOV EDX,[EBP]
     Joined("x86", << << \h88, \h45, 0 >>, << \h88, \h5D, 1 >>, << \h66, \h89, \h4D, 2 >>,
                      << \h8B, \h55, 0 >> >>, 0, 3, 1, 5, 2) >>

\* MSR CPSR_x,#0x200 sets the E flag, #0 clears it.
BigEndian(on) == ToStatus(FALSE, {1}, [val |-> IF on THEN {9} ELSE {}, carry_out |-> {}])
SwapPrograms ==
  << Paged(From(Assembled("arm", << BigEndian(TRUE), At0("Str", 0, 1, 0), At0("Strh", 0, 1, 4),
                                    At0("Ldr", 2, 1, 0), BigEndian(FALSE), At0("Ldr", 3, 1, 0),
                                    At0("Ldrh", 4, 1, 4), Unary("Rev", 5, 0), Unary("Rev16", 6, 0),
                                    Unary("Revsh", 7, 0), Unary("Rev16", 8, 6), Unary("Clz", 9, 0) >>,
                          "swapped", <<>>),
                Pairs(0, {0, 1, 27, 83, 170, 228}, 1, {96, 98, 100, 104}))) >>

\* Memory is little-endian for accesses of every width and on every processor:
\* parts of a stored word are its bytes in place, zero- or sign-extended, and
\* bytes and halfwords stored side by side make up a word, also when a region
\* had to be mapped between them.  The E flag turns the bytes of a word and of
\* a halfword round on their way to memory and back, which is what REV, REV16
\* and REVSH do in a register.
BytesKeepTheirPlace ==
  LET Bytes2(x, at, n) == OfBytes([k \in 0 .. n - 1 |-> ByteAt(x, (at + k) % 4)], n)
  IN /\ Finished("apart") =>
          \A part \in Prog.about.parts :
             LET bytes == Bytes2(Was(Prog.about.word), part.at, part.n)
             IN Is(part.reg) = IF part.signed THEN Signed(bytes, Span(part.n)) % M ELSE bytes
     /\ Finished("apart") => Is(Prog.about.base) = Was(Prog.about.base)
     /\ Finished("joined") =>
          Is(Prog.about.word) = (Was(Prog.about.low) % Span(1)) + Span(1) * (Was(Prog.about.next) % Span(1))
                                  + Span(2) * (Was(Prog.about.high) % Span(2))
     /\ Finished("swapped") =>
          /\ Is(2) = Was(0)
          /\ Is(3) = OfBytes([k \in 0 .. 3 |-> ByteAt(Was(0), 3 - k)], 4)
          /\ Is(5) = Is(3) /\ Is(8) = Was(0)
          /\ Is(4) = Is(6) % Span(2)
          /\ Is(7) = Signed(Is(4), Span(2)) % M
          /\ Was(0) = 0 => Is(9) = Width
          /\ Was(0) # 0 => Was(0) \in 2^(Width - 1 - Is(9)) .. 2^(Width - Is(9)) - 1

-----------------------------------------------------------------------------
\* An interrupt handler that saves nothing but the status it was called with.

\* loop: SUBS r0,r0,#1; ADC r1,r1,r1; BNE loop; B end;
\* handler: MRS r8,SPSR; CMP r8... (clobbers the flags); MSR CPSR_fsxc,r8; BKPT;  end:
InterruptPrograms ==
  << [From(WithFlags(Assembled("arm",
        << Data("Sub", TRUE, 0, 0, Imm(1)), Data("Adc", FALSE, 1, 1, Rm(1)), Cond(To("B", -16), "Ne"),
           To("B", 12), FromStatus(8, TRUE), Data("Cmp", TRUE, 0, 9, Rm(9)),
           ToStatus(FALSE, 0 .. 3, Rm(8)), [op |-> "Bkpt", imm16 |-> 0] >>,
        "interrupted", <<>>), {{}, {"C", "V"}, {"E", "F"}}), [0 .. 1 -> 1 .. 2])
      EXCEPT !.vector = 16, !.statuses = {8}] >>

\* The run without interrupts: at most as many steps as words in memory.
RECURSIVE Undisturbed(_)
Undisturbed(m) == IF m.err = "ok" /\ InCode(m) THEN Undisturbed(Stepped(m)) ELSE m

\* The program an interrupt came upon does not notice it, whenever it came: a
\* handler that puts the saved status back, and a host that puts the saved PC
\* back, leave every register and every flag as an undisturbed run makes them.
InterruptsLeaveNoTrace ==
  LET EndsAs(end) == /\ machine.cpsr = end.cpsr
                     /\ \A r \in (0 .. 15) \ {8} : Is(r) = end.regs[r]
  IN Finished("interrupted") => EndsAs(Undisturbed(first))

-----------------------------------------------------------------------------
\* Every instruction there and back.  These programs stop at once: they are
\* here for the instructions they are about.

SomeOps == {Rm(3), [rm |-> 1, shift |-> [shift_type |-> "Asr", amount |-> 19]],
            [rm |-> 9, shift |-> [shift_type |-> "Ror", rs |-> 12]], Imm(171),
            [val |-> {31, 0}, carry_out |-> {TRUE}], [val |-> {9, 2}, carry_out |-> {FALSE}]}

ArmSamples ==
  {Cond(Data(ArmData[k], s \/ k \in 9 .. 12, 4, 11, op2), ArmCond[k - (k \div 16)]) :
     k \in 1 .. 16, s \in BOOLEAN, op2 \in SomeOps}
    \cup {[op |-> op, cond |-> "Ne", rd |-> 12, imm16 |-> 43981] : op \in {"Movw", "Movt"}}
    \cup {FromStatus(7, b) : b \in BOOLEAN}
    \cup {ToStatus(b, mask, op2) : b \in BOOLEAN, mask \in {{0, 3}, {1, 2}},
             op2 \in {Rm(3), [val |-> {31, 0}, carry_out |-> {}]}}
    \cup {[op |-> "Mul", cond |-> "Al", s |-> s, rd |-> 1, rm |-> 6, rs |-> 11] : s \in BOOLEAN}
    \cup {[op |-> "Mla", cond |-> "Al", s |-> s, rd |-> 1, rm |-> 6, rs |-> 11, rn |-> 13] : s \in BOOLEAN}
    \cup {Long(op, 1, 6, 11, 13) : op \in {"Umull", "Umlal", "Smull", "Smlal"}}
    \cup {Slice(op, 3, 9, lsb, width) : op \in {"Ubfx", "Sbfx"}, lsb \in {0, 5, 12}, width \in {1, 9, 20}}
    \cup {Slice("Bfi", 3, 9, lsb, width) : lsb \in {0, 5, 12}, width \in {1, 4, 20}}
    \cup {[op |-> "Bfc", cond |-> "Al", rd |-> 5, lsb |-> lsb, width |-> 4] : lsb \in {0, 5, 12}}
    \cup {Unary(op, 3, 9) : op \in {"Rev", "Rev16", "Revsh", "Clz"}}
    \cup {Widen(op, 3, 9, rot, rn) : op \in {"Sxtb", "Sxth", "Uxtb", "Uxth"}, rot \in 0 .. 3, rn \in {{}, {7}}}
    \cup {Mem(op, 9, 6, offset, pre, w, up) : op \in {"Ldr", "Str", "Ldrb", "Strb"},
             offset \in {Imm(2741), Rm(3), [rm |-> 1, shift |-> [shift_type |-> "Lsr", amount |-> 19]]},
             pre, w, up \in BOOLEAN}
    \cup {Mem(op, 9, 6, offset, pre, w, up) : op \in {"Ldrh", "Strh", "Ldrsb", "Ldrsh"},
             offset \in {Imm(171), Rm(3)}, pre, w, up \in BOOLEAN}
    \cup {Block(op, 13, {0, 3, 15}, p, u, w) : op \in {"Ldm", "Stm"}, p, u, w \in BOOLEAN}
    \cup {To(op, target) : op \in {"B", "Bl"}, target \in {0, 4, -4, 33554428, -33554432}}
    \cup {Through(op, 14) : op \in {"Bx", "Blx"}}
    \cup {[op |-> "Svc", cond |-> "Le", imm |-> 1193046], [op |-> "Bkpt", imm16 |-> 43981],
          [op |-> "Nop", cond |-> "Al"]}

\* What the ARM decoder takes for something else.  The mask of the long signed
\* multiplies cannot match their value; the multiplies are looked for before
\* the extra loads and stores without looking at the bits that tell them apart,
\* of which post-indexed ones have none else; and BFI and BFC are looked for
\* with a bit of lsb and one of msb in the mask.
Misread(i) ==
  \/ i.op \in {"Smull", "Smlal"}
  \/ i.op \in {"Ldrh", "Strh", "Ldrsb", "Ldrsh"} /\ ~i.pre
  \/ i.op \in {"Bfi", "Bfc"} /\ (i.lsb % 2 = 1 \/ i.lsb + i.width > 16)

RiscvSamples ==
  {[op |-> op, rd |-> 21, imm |-> {12, 17, 31}] : op \in {"Lui", "Auipc"}}
    \cup {RJal(1, imm) : imm \in {2, 4, -2, 1048574, -1048576, 699050}}
    \cup {RImm(op, 21, 10, imm) : imm \in {0, 1, -1, 2047, -2048},
            op \in {"Jalr", "Lb", "Lh", "Lw", "Lbu", "Lhu", "Addi", "Slti", "Sltiu", "Xori", "Ori", "Andi"}}
    \cup {RPut(op, 21, 10, imm) : op \in {"Sb", "Sh", "Sw"}, imm \in {0, 1, -1, 2047, -2048, 682}}
    \cup {RPut(op, 21, 10, imm) : op \in DOMAIN RiscvRelation, imm \in {0, 2, -2, 4094, -4096, 2730, 1364}}
    \cup {RShift(op, 21, 10, n) : op \in {"Slli", "Srli", "Srai"}, n \in {0, 1, 21, 31}}
    \cup {RReg(op, 21, 10, 7) : op \in {"Add", "Sub", "Sll", "Slt", "Sltu", "Xor", "Srl", "Sra", "Or", "And"}}
    \cup {[op |-> "Ecall"], [op |-> "Ebreak"]}

\* Bytes, the name of what they encode, and the operand size.
X86Operands(digit) ==
  {<< ModRm(3, digit, 6) >>, MemoryOperand(digit, {6}, {}, 1, 0, 0),
   MemoryOperand(digit, {5}, {}, 1, 100, 1), MemoryOperand(digit, {4}, {7}, 4, 305419896, 4),
   MemoryOperand(digit, {}, {}, 1, 305419896, 4)}
X86Samples ==
  UNION {{[bytes |-> prefix \o c.bytes \o Follows(c, operand, wide), name |-> c.name, opcode |-> c.bytes,
           wide |-> wide] :
            operand \in IF c.digit = -2 THEN {<<>>} ELSE X86Operands(IF c.digit = -1 THEN 5 ELSE c.digit)} :
           << c, prefix, wide >> \in OpcodeMap \X {<<>>, << \hF3 >>, << \h2E, \hF2 >>} \X {4}
                             \cup OpcodeMap \X {<< \h66 >>, << \hF2, \h66 >>} \X {2}}

\* Words whose opcode fields take every value.
ArmWords == {Bits(\h00034512) \cup {b + 20 : b \in high} \cup {b + 4 : b \in low} \cup {29, 30, 31} :
               high \in SUBSET (0 .. 7), low \in SUBSET (0 .. 3)}
RiscvWords == {{b \in 0 .. 6 : b \in op} \cup {b + 12 : b \in f3} \cup f7 :
                 op \in SUBSET (0 .. 6), f3 \in SUBSET (0 .. 2), f7 \in SUBSET {20, 30}}
X86Windows == {<< b, x, 9, 9, 9, 9, 9, 9 >> : b \in 0 .. 255, x \in {0, 37, 92, 148, 200, 255}}

DecodePrograms ==
  << Assembled("arm", << [op |-> "Bkpt", imm16 |-> 0] >>, "decode", <<>>),
     Assembled("riscv", << [op |-> "Ebreak"] >>, "decode", <<>>),
     Assembled("x86", << << \hCC >> >>, "decode", <<>>) >>

\* Each decoder takes apart what the manual puts together, field by field and
\* byte by byte, except for the words Misread names, and makes an instruction
\* of the executor's type of everything else.  The x86 decoder finds the next
\* instruction where the encoding ends, whatever the prefixes and operands.
DecodesBack ==
  Prog.claim = "decode" /\ machine = first =>
    CASE Prog.arch = "arm" ->
           /\ \A i \in ArmSamples : ~Misread(i) => Arm!DecodeArm(ArmEncode(i)) = i
           /\ \A w \in ArmWords : Arm!DecodeArm(w) \in Arm!Instr
      [] Prog.arch = "riscv" ->
           /\ \A i \in RiscvSamples : Rv!DecodeRiscv(RiscvEncode(i)) = i
           /\ \A w \in RiscvWords : Rv!DecodeRiscv(w) \in Rv!Instr
      [] Prog.arch = "x86" ->
           /\ \A x \in X86Samples :
                LET d == X86!DecodeX86(x.bytes)
                    size == IF x.opcode[1] % 2 = 0 THEN 1 ELSE x.wide
                IN /\ d.instr.op = x.name
                   /\ d.next - 1 = Len(x.bytes)
                   /\ x.name \in {"Test", "Not", "Movs", "Scas", "In", "Out"} =>
                        size = IF "dest" \in DOMAIN d.instr THEN d.instr.dest.size ELSE d.instr.size
                   /\ x.name \in {"Push", "Pop", "Imul", "Movzx8", "Shl"} => d.instr.dest.size = x.wide
           /\ \A w \in X86Windows : X86!DecodeX86(w).instr \in X86!Instr

\* The decoder names the words it looks for: "64-bit Multiplies", "Extra
\* Load/Stores", "BFC / BFI".  This is DecodesBack without its exceptions.
DecodesAll ==
  Prog.claim = "decode" /\ machine = first /\ Prog.arch = "arm" =>
    \A i \in ArmSamples : Arm!DecodeArm(ArmEncode(i)) = i

\* LEA EDX, of every base, index, scale and displacement.
AddressPrograms ==
  Seqs!FlattenSeq(Seqs!FlattenSeq(
    [b1 \in 1 .. 9 |-> [x1 \in 1 .. 9 |->
      LET base == IF b1 = 9 THEN {} ELSE {b1 - 1}
          index == IF x1 = 9 \/ x1 = 5 THEN {} ELSE {x1 - 1}
          scale == IF index = {} THEN 1 ELSE 2^((b1 + x1) % 4)
          One(n) ==
            From(Assembled("x86", << << \h8D >> \o MemoryOperand(2, base, index, scale, 3, n) >>, "address",
                           [base |-> base, index |-> index, scale |-> scale,
                            disp |-> IF n = 0 THEN 0 ELSE 3]),
                 {[r \in 0 .. 7 |-> 31 * r + 7]})
      IN [n \in 1 .. Cardinality(DispBytes(base)) |->
            One(IF base = {} THEN 4 ELSE IF base = {5} /\ n = 1 THEN 1 ELSE << 4, 1, 0 >>[n])]]]))

\* An operand in memory is at the sum of its base, its scaled index and its
\* displacement, whichever of the forms of ModRM and SIB the assembler had to
\* choose for it: without a base, without an index, with EBP or ESP as base.
AddressesAreSums ==
  Finished("address") =>
    LET a == Prog.about
    IN Is(2) = ((IF a.base = {} THEN 0 ELSE Was(The(a.base)))
                + (IF a.index = {} THEN 0 ELSE a.scale * Was(The(a.index))) + a.disp) % M

-----------------------------------------------------------------------------
\* Counted loops, and the ways out of them.

LoopProgram(arch, source, while, from, count, until, counts) ==
  From(Assembled(arch, source, "loop", [while |-> while, from |-> from, count |-> count, until |-> until]),
       {(from :> x) @@ (count :> n) @@ (until :> y) : x \in {0, 253}, n \in counts, y \in {0, 2, 4, 255}})

LoopPrograms ==
  << \* JECXZ end; loop: INC EDX; LOOP loop
     LoopProgram("x86", << << \hE3, 3 >>, << \h42 >>, << \hE2, 253 >> >>, "always", 2, 1, 3, 0 .. 5),
     \* JECXZ end; loop: INC EDX; CMP EDX,EBX; LOOPNE loop
     LoopProgram("x86", << << \hE3, 5 >>, << \h42 >>, << \h39, \hDA >>, << \hE0, 251 >> >>,
                 "different", 2, 1, 3, 0 .. 5),
     \* JECXZ end; loop: INC EDX; TEST EDX,EBX; LOOPE loop
     LoopProgram("x86", << << \hE3, 5 >>, << \h42 >>, << \h85, \hDA >>, << \hE1, 251 >> >>,
                 "disjoint", 2, 1, 3, 0 .. 5),
     \* loop: ADD r2,r2,#1; SUBS r1,r1,#1; TEQNE r2,r3; BNE loop
     LoopProgram("arm", << Data("Add", FALSE, 2, 2, Imm(1)), Data("Sub", TRUE, 1, 1, Imm(1)),
                           Cond(Data("Teq", TRUE, 0, 2, Rm(3)), "Ne"), Cond(To("B", -20), "Ne") >>,
                 "different", 2, 1, 3, 1 .. 5),
     \* loop: ADDI x2,x2,1; ADDI x1,x1,-1; BEQ x2,x3,end; BNE x1,x0,loop
     LoopProgram("riscv", << RImm("Addi", 2, 2, 1), RImm("Addi", 1, 1, -1), RPut("Beq", 2, 3, 8),
                             RPut("Bne", 1, 0, -12) >>, "different", 2, 1, 3, 1 .. 5) >>

\* A loop runs as often as its counter says, not at all when it is zero and
\* tested first, and ends early at the first round its condition fails.
LoopsCountDown ==
  Finished("loop") =>
    LET about == Prog.about
        x == Was(about.from)   n == Was(about.count)   y == Was(about.until)
        Goes(k) == LET v == (x + k) % M
                   IN CASE about.while = "always" -> TRUE
                        [] about.while = "different" -> v # y
                        [] about.while = "disjoint" -> \A b \in 0 .. Width - 1 : ~(Bit(v, b) /\ Bit(y, b))
        rounds == CHOOSE k \in 0 .. n : /\ k = n \/ (k > 0 /\ ~Goes(k))
                                        /\ \A j \in 1 .. k - 1 : Goes(j)
    IN /\ Is(about.from) = (x + rounds) % M
       /\ Is(about.count) = n - rounds

-----------------------------------------------------------------------------
\* No claim is made about these but those about every program: block loads with
\* write-back and of their own base, pops from a stack that is not there, and
\* system instructions with and without a hook that handles the interrupt.

Handled(p) == [p EXCEPT !.handles = TRUE]
SystemSource ==
  << Assembled("arm", << [op |-> "Svc", cond |-> "Al", imm |-> 0], Data("Mvn", FALSE, 1, 0, Rm(0)) >>, "none", <<>>),
     Assembled("riscv", << [op |-> "Ecall"], RImm("Xori", 1, 0, -1) >>, "none", <<>>),
     Assembled("riscv", << [op |-> "Ebreak"] >>, "none", <<>>),
     Assembled("x86", << << \hCD, \h80 >>, << \h40 >>, << \hCC >>, << \hFD >>, << \hFC >> >>, "none", <<>>),
     Assembled("x86", << << \h0F, \h05 >> >>, "none", <<>>),
     Assembled("x86", << << \h99 >>, << \hE4, \h60 >> >>, "none", <<>>),
     Assembled("x86", << << \h81, \hC0, 0 >> >>, "none", <<>>) >>      \* the code ends in an immediate

OtherPrograms ==
  << Paged(From(Assembled("arm", << Block("Ldm", 13, {0, 1, 4}, FALSE, TRUE, TRUE),
                                    Block("Ldm", 13, {2, 13}, TRUE, FALSE, TRUE) >>, "none", <<>>),
                {(13 :> sp) : sp \in StackPointers})),
     Paged(From(Assembled("arm", << Block("Ldm", 3, {0, 3}, FALSE, TRUE, TRUE) >>, "none", <<>>),
                [{3} -> {100}])),
     Paged(From(Assembled("arm", << Block("Ldm", 0, {0, 1}, FALSE, TRUE, FALSE) >>, "none", <<>>),
                {(0 :> base) : base \in StackPointers})),
     Paged(From(Assembled("x86", << << \hC9 >>, << \h98 >>, << \h66, \h98 >>, << \h66, \hAD >> >>, "none", <<>>),
                {(5 :> bp) @@ (6 :> 108) @@ (0 :> 85) : bp \in StackPointers})),
     \* REP MOVSW
     Paged(From(Assembled("x86", << << \h66, \hF3, \hA5 >> >>, "none", <<>>),
                {(6 :> src) @@ (7 :> 103) @@ (1 :> n) : src \in {100, 101, 102, 106}, n \in {1, 2}})),
     \* POP EAX; POP DX; RET
     Paged(From(Assembled("x86", << << \h58 >>, << \h66, \h5A >>, << \hC3 >> >>, "none", <<>>),
                {(4 :> sp) : sp \in StackPointers})) >>
    \o SystemSource \o [k \in DOMAIN SystemSource |-> Handled(SystemSource[k])]

AllPrograms == WidePrograms \o ConditionPrograms \o BitwisePrograms \o ShiftPrograms
                \o StackPrograms \o StringPrograms \o BitFieldPrograms \o ProductPrograms
                \o ApartPrograms \o JoinedPrograms \o SwapPrograms \o InterruptPrograms
                \o DecodePrograms \o AddressPrograms \o LoopPrograms \o OtherPrograms

MCPrograms == EachEncoded(AllPrograms)
MCDecodePrograms == EachEncoded(DecodePrograms)
=============================================================================
