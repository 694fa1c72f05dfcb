------------------------------- MODULE Riscv -------------------------------
(***************************************************************************)
(* The RV32I core: decode_riscv from a 32-bit word, the set of its one     *)
(* bits, to an instruction, and execute_instr on a machine s with the      *)
(* registers s.regs, the program counter s.pc and its memory.  The upper   *)
(* immediates keep their bits as a set.                                    *)
(***************************************************************************)
EXTENDS GuestMemory

Register == 0 .. 31

Instr ==
  [op : {"Lui", "Auipc"}, rd : Register, imm : SUBSET (12 .. 31)]
    \cup [op : {"Jal"}, rd : Register, imm : TwosComplement(21)]
    \cup [op : {"Beq", "Bne", "Blt", "Bge", "Bltu", "Bgeu"},
          rs1 : Register, rs2 : Register, imm : TwosComplement(13)]
    \cup [op : {"Jalr", "Lb", "Lh", "Lw", "Lbu", "Lhu",
                "Addi", "Slti", "Sltiu", "Xori", "Ori", "Andi"},
          rd : Register, rs1 : Register, imm : TwosComplement(12)]
    \cup [op : {"Sb", "Sh", "Sw"}, rs1 : Register, rs2 : Register, imm : TwosComplement(12)]
    \cup [op : {"Slli", "Srli", "Srai"}, rd : Register, rs1 : Register, shamt : 0 .. 31]
    \cup [op : {"Add", "Sub", "Sll", "Slt", "Sltu", "Xor", "Srl", "Sra", "Or", "And"},
          rd : Register, rs1 : Register, rs2 : Register]
    \cup [op : {"Ecall", "Ebreak"}]
    \cup [op : {"Unknown"}, raw : SUBSET (0 .. 31)]

Unknown(raw) == [op |-> "Unknown", raw |-> raw]

BranchOp == [f \in {0, 1, 4, 5, 6, 7} |->
               CASE f = 0 -> "Beq" [] f = 1 -> "Bne" [] f = 4 -> "Blt"
                 [] f = 5 -> "Bge" [] f = 6 -> "Bltu" [] f = 7 -> "Bgeu"]
LoadOp == [f \in {0, 1, 2, 4, 5} |->
             CASE f = 0 -> "Lb" [] f = 1 -> "Lh" [] f = 2 -> "Lw" [] f = 4 -> "Lbu" [] f = 5 -> "Lhu"]
StoreOp == [f \in {0, 1, 2} |-> CASE f = 0 -> "Sb" [] f = 1 -> "Sh" [] f = 2 -> "Sw"]
ImmediateOp == [f \in {0, 2, 3, 4, 6, 7} |->
                  CASE f = 0 -> "Addi" [] f = 2 -> "Slti" [] f = 3 -> "Sltiu"
                    [] f = 4 -> "Xori" [] f = 6 -> "Ori" [] f = 7 -> "Andi"]
\* By funct3, and by funct7 where it decides.
RegisterOp == [f \in 0 .. 7 |->
                 CASE f = 0 -> "Add" [] f = 1 -> "Sll" [] f = 2 -> "Slt" [] f = 3 -> "Sltu"
                   [] f = 4 -> "Xor" [] f = 5 -> "Srl" [] f = 6 -> "Or" [] f = 7 -> "And"]
RegisterOp32 == [f \in {0, 5} |-> CASE f = 0 -> "Sub" [] f = 5 -> "Sra"]

DecodeAluImmediate(raw) ==
  LET rd == Field(raw, 7, 5)   rs1 == Field(raw, 15, 5)
      funct3 == Field(raw, 12, 3)   funct7 == Field(raw, 25, 7)
      ShiftOp(op) == [op |-> op, rd |-> rd, rs1 |-> rs1, shamt |-> Field(raw, 20, 5)]
  IN CASE funct3 = 1 -> ShiftOp("Slli")
       [] funct3 = 5 -> IF funct7 = 0 THEN ShiftOp("Srli")
                        ELSE IF funct7 = 32 THEN ShiftOp("Srai") ELSE Unknown(raw)
       [] OTHER -> [op |-> ImmediateOp[funct3], rd |-> rd, rs1 |-> rs1,
                    imm |-> SignedField(raw, 20, 12)]

DecodeRiscv(raw) ==
  LET opcode == Field(raw, 0, 7)   funct3 == Field(raw, 12, 3)
      rd == Field(raw, 7, 5)       rs1 == Field(raw, 15, 5)   rs2 == Field(raw, 20, 5)
      funct7 == Field(raw, 25, 7)
      immI == SignedField(raw, 20, 12)
      immS == SignedField(raw, 25, 7) * 32 + rd
      immB == SignedField(raw, 31, 1) * 4096 + Field(raw, 7, 1) * 2048
                + Field(raw, 25, 6) * 32 + Field(raw, 8, 4) * 2
      immJ == SignedField(raw, 31, 1) * 1048576 + Field(raw, 12, 8) * 4096
                + Field(raw, 20, 1) * 2048 + Field(raw, 21, 10) * 2
      upper == raw \cap (12 .. 31)
  IN CASE opcode = \h37 -> [op |-> "Lui", rd |-> rd, imm |-> upper]
       [] opcode = \h17 -> [op |-> "Auipc", rd |-> rd, imm |-> upper]
       [] opcode = \h6F -> [op |-> "Jal", rd |-> rd, imm |-> immJ]
       [] opcode = \h67 -> [op |-> "Jalr", rd |-> rd, rs1 |-> rs1, imm |-> immI]
       [] opcode = \h63 /\ funct3 \in DOMAIN BranchOp ->
            [op |-> BranchOp[funct3], rs1 |-> rs1, rs2 |-> rs2, imm |-> immB]
       [] opcode = \h03 /\ funct3 \in DOMAIN LoadOp ->
            [op |-> LoadOp[funct3], rd |-> rd, rs1 |-> rs1, imm |-> immI]
       [] opcode = \h23 /\ funct3 \in DOMAIN StoreOp ->
            [op |-> StoreOp[funct3], rs1 |-> rs1, rs2 |-> rs2, imm |-> immS]
       [] opcode = \h13 -> DecodeAluImmediate(raw)
       [] opcode = \h33 /\ funct7 = 0 ->
            [op |-> RegisterOp[funct3], rd |-> rd, rs1 |-> rs1, rs2 |-> rs2]
       [] opcode = \h33 /\ funct7 = 32 /\ funct3 \in DOMAIN RegisterOp32 ->
            [op |-> RegisterOp32[funct3], rd |-> rd, rs1 |-> rs1, rs2 |-> rs2]
       [] opcode = \h73 /\ Field(raw, 20, 12) = 0 -> [op |-> "Ecall"]
       [] opcode = \h73 /\ Field(raw, 20, 12) = 1 -> [op |-> "Ebreak"]
       [] OTHER -> Unknown(raw)

-----------------------------------------------------------------------------

RiscvInit == [regs |-> [r \in Register |-> 0], pc |-> 0]

WriteReg(s, r, v) == IF r = 0 THEN s ELSE [s EXCEPT !.regs[r] = v]

Less(a, b) == Signed(a, M) < Signed(b, M)   \* as i32

Taken(op, a, b) ==
  CASE op = "Beq" -> a = b        [] op = "Bne" -> a # b
    [] op = "Blt" -> Less(a, b)   [] op = "Bge" -> ~Less(a, b)
    [] op = "Bltu" -> a < b       [] op = "Bgeu" -> a >= b

Size(op) == CASE op \in {"Lb", "Lbu", "Sb"} -> 1
              [] op \in {"Lh", "Lhu", "Sh"} -> 2
              [] op \in {"Lw", "Sw"} -> 4

LoadTo(s, i, a) ==
  LET val == Loaded(s, a, Size(i.op))
  IN IF ~Reachable(s, a, Size(i.op)) THEN Fails(s, "fault")
     ELSE WriteReg(s, i.rd, IF i.op \in {"Lb", "Lh"} THEN SignExtended(val, Size(i.op)) ELSE val)

StoreFrom(s, i, a) == Stored(s, a, Size(i.op), s.regs[i.rs2] % Span(Size(i.op)))

\* The ALU on two operands, the second a register or an immediate.
AluImmediate(op, a, b) ==
  CASE op \in {"Add", "Addi"} -> (a + b) % M
    [] op \in {"Slt", "Slti"} -> IF Less(a, b) THEN 1 ELSE 0
    [] op \in {"Sltu", "Sltiu"} -> IF a < b THEN 1 ELSE 0
    [] op \in {"Xor", "Xori"} -> Xor(a, b)
    [] op \in {"Or", "Ori"} -> Or(a, b)
    [] op \in {"And", "Andi"} -> And(a, b)

AluRegister(op, a, b) ==
  CASE op = "Sub" -> (a - b) % M
    [] op \in {"Sll", "Slli"} -> ShiftedLeft(a, b % Width)
    [] op \in {"Srl", "Srli"} -> ShiftedRight(a, b % Width)
    [] op \in {"Sra", "Srai"} -> ArithmeticRight(a, b % Width)
    [] OTHER -> AluImmediate(op, a, b)

ExecuteRiscv(s, i) ==
  LET nextPc == s.pc
      currentPc == (nextPc - 4) % M
      Jump(t, target) == [t EXCEPT !.pc = target % M]
      upper == ValueOf[i.imm \cap Position]
      a == s.regs[i.rs1]
  IN CASE i.op = "Lui" -> WriteReg(s, i.rd, upper)
       [] i.op = "Auipc" -> WriteReg(s, i.rd, (currentPc + upper) % M)
       [] i.op = "Jal" -> Jump(WriteReg(s, i.rd, nextPc), currentPc + i.imm)
       [] i.op = "Jalr" -> LET target == (a + i.imm) % M
                           IN Jump(WriteReg(s, i.rd, nextPc), target - (target % 2))
       [] i.op \in {BranchOp[f] : f \in DOMAIN BranchOp} ->
            IF Taken(i.op, a, s.regs[i.rs2]) THEN Jump(s, currentPc + i.imm) ELSE s
       [] i.op \in {"Lb", "Lh", "Lw", "Lbu", "Lhu"} -> LoadTo(s, i, (a + i.imm) % M)
       [] i.op \in {"Sb", "Sh", "Sw"} -> StoreFrom(s, i, (a + i.imm) % M)
       [] i.op \in {ImmediateOp[f] : f \in DOMAIN ImmediateOp} ->
            WriteReg(s, i.rd, AluImmediate(i.op, a, i.imm % M))
       [] i.op \in {"Slli", "Srli", "Srai"} -> WriteReg(s, i.rd, AluRegister(i.op, a, i.shamt))
       [] i.op \in {RegisterOp[f] : f \in 0 .. 7} \cup {"Sub", "Sra"} ->
            WriteReg(s, i.rd, AluRegister(i.op, a, s.regs[i.rs2]))
       [] i.op = "Ecall" -> IF s.handles THEN s ELSE Fails(s, "not_implemented")
       [] i.op = "Ebreak" -> Fails(s, "breakpoint")
       [] i.op = "Unknown" -> Fails(s, "invalid")

\* One instruction: the PC moves on before it and back after an error.
Rewound(s, t) == IF t.err = "ok" THEN t ELSE [t EXCEPT !.pc = s.pc]

RiscvStep(s, raw) ==
  Rewound(s, ExecuteRiscv([s EXCEPT !.pc = (s.pc + 4) % M], DecodeRiscv(raw)))
=============================================================================
