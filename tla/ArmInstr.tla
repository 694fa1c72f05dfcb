------------------------------ MODULE ArmInstr ------------------------------
(***************************************************************************)
(* The decoded ARM instructions.  Each kind of instruction is a set of     *)
(* records whose field op names the variant; an absent Option is {}, a     *)
(* present one a singleton; an immediate of the shifter is the set of its  *)
(* one bits, because a 32-bit number is out of TLC's range.                *)
(***************************************************************************)
EXTENDS ArmFlags

Register == 0 .. 15
BitNo == 0 .. 31

Option(S) == {{}} \cup {{x} : x \in S}

\* Variant k of the enumeration is encoded as k - 1.
Conditions == << "Eq", "Ne", "Cs", "Cc", "Mi", "Pl", "Vs", "Vc",
                 "Hi", "Ls", "Ge", "Lt", "Gt", "Le", "Al", "Nv" >>
ConditionFrom(n) == Conditions[n + 1]

ShiftTypes == << "Lsl", "Lsr", "Asr", "Ror" >>
ShiftType == {ShiftTypes[k] : k \in 1 .. 4}

Shift == [shift_type : ShiftType, amount : BitNo] \cup [shift_type : ShiftType, rs : Register]
Operand2 == [val : SUBSET BitNo, carry_out : Option(BOOLEAN)]
              \cup [rm : Register, shift : Shift]

\* A variant without rd, rn or s has those bits of its word in the field.
DataProcessingInstr ==
  [op : {"And", "Eor", "Sub", "Rsb", "Add", "Adc", "Sbc", "Rsc", "Tst", "Teq",
         "Cmp", "Cmn", "Orr", "Mov", "Bic", "Mvn"},
   cond : Condition, s : BOOLEAN, rd : Register, rn : Register, op2 : Operand2]

MoveInstr == [op : {"Movw", "Movt"}, cond : Condition, rd : Register, imm16 : Unsigned(16)]

StatusInstr ==
  [op : {"Mrs"}, cond : Condition, rd : Register, use_spsr : BOOLEAN]
    \cup [op : {"Msr"}, cond : Condition, use_spsr : BOOLEAN, mask : SUBSET (0 .. 3),
          op2 : Operand2]

MultiplyInstr ==
  [op : {"Mul"}, cond : Condition, s : BOOLEAN, rd : Register, rm : Register, rs : Register]
    \cup [op : {"Mla"}, cond : Condition, s : BOOLEAN, rd : Register, rm : Register,
          rs : Register, rn : Register]
    \cup [op : {"Umull", "Umlal", "Smull", "Smlal"}, cond : Condition, s : BOOLEAN,
          rd_lo : Register, rd_hi : Register, rm : Register, rs : Register]

MediaInstr ==
  [op : {"Bfc"}, cond : Condition, rd : Register, lsb : BitNo, width : 1 .. 32]
    \cup [op : {"Bfi", "Ubfx", "Sbfx"}, cond : Condition, rd : Register, rn : Register,
          lsb : BitNo, width : 1 .. 32]
    \cup [op : {"Rev", "Rev16", "Revsh", "Clz"}, cond : Condition, rd : Register,
          rm : Register]
    \cup [op : {"Sxtb", "Sxth", "Uxtb", "Uxth"}, cond : Condition, rd : Register,
          rm : Register, rot : 0 .. 3, rn : Option(Register)]

TransferInstr ==
  [op : {"Ldr", "Str", "Ldrb", "Strb", "Ldrh", "Strh", "Ldrsb", "Ldrsh"},
   cond : Condition, rd : Register, rn : Register, offset : Operand2,
   pre : BOOLEAN, writeback : BOOLEAN, up : BOOLEAN]

BlockTransferInstr ==
  [op : {"Ldm", "Stm"}, cond : Condition, rn : Register, reg_list : SUBSET Register,
   p : BOOLEAN, u : BOOLEAN, w : BOOLEAN]

ControlInstr ==
  [op : {"B", "Bl"}, cond : Condition, target : TwosComplement(26)]
    \cup [op : {"Bx", "Blx"}, cond : Condition, rm : Register]
    \cup [op : {"Svc"}, cond : Condition, imm : Unsigned(24)]
    \cup [op : {"Bkpt"}, imm16 : Unsigned(16)]
    \cup [op : {"Nop"}, cond : Condition]
    \cup [op : {"Unknown"}, raw : SUBSET BitNo]

Instr == DataProcessingInstr \cup MoveInstr \cup StatusInstr \cup MultiplyInstr
           \cup MediaInstr \cup TransferInstr \cup BlockTransferInstr \cup ControlInstr
=============================================================================
