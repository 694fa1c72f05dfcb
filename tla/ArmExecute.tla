----------------------------- MODULE ArmExecute -----------------------------
(***************************************************************************)
(* execute_instr of the ARM core: what each instruction makes of a machine *)
(* s.  The machine has sixteen registers s.regs, the status s.cpsr, a      *)
(* saved status and a saved return address for each banked mode, s.spsr    *)
(* and s.lr, and its memory (GuestMemory).  A status is a record of the    *)
(* flags that are set and the mode; MRS puts the whole of it in a          *)
(* register.  An error is left in s.err together with whatever the         *)
(* instruction had done before it; "panic" is the overflow check of a      *)
(* debug build.                                                            *)
(***************************************************************************)
EXTENDS ArmDecode, GuestMemory

ModeNo == [User |-> 16, Fiq |-> 17, Irq |-> 18, Supervisor |-> 19,
           Abort |-> 23, Undefined |-> 27, System |-> 31]
Mode == DOMAIN ModeNo
ModeFrom(n) == IF \E m \in Mode : ModeNo[m] = n
               THEN CHOOSE m \in Mode : ModeNo[m] = n ELSE "Supervisor"

Banked == {"Supervisor", "Irq", "Fiq", "Abort", "Undefined"}   \* get_bank_index

FlagNo == [N |-> 31, Z |-> 30, C |-> 29, V |-> 28, Q |-> 27, J |-> 24,
           E |-> 9, A |-> 8, I |-> 7, F |-> 6, T |-> 5]
StatusOf(bits) == [flags |-> {f \in CpsrBit : FlagNo[f] \in bits},
                   mode |-> ModeFrom(Field(bits, 0, 5))]

ArmInit == [regs |-> [r \in Register |-> 0],
            cpsr |-> [flags |-> {}, mode |-> "Supervisor"],
            spsr |-> [b \in Banked |-> [flags |-> {}, mode |-> "Supervisor"]],
            lr |-> [b \in Banked |-> 0]]

\* Mutant: the status is saved after it has been changed.
TriggerExceptionLate(s, mode, target) ==
  IF mode \notin Banked THEN s
  ELSE LET now == [flags |-> s.cpsr.flags \cup {"I"}, mode |-> mode]
       IN [s EXCEPT !.spsr[mode] = now, !.lr[mode] = s.regs[15],
                    !.cpsr = now, !.regs[15] = target]

TriggerException(s, mode, target) ==
  IF mode \notin Banked THEN s
  ELSE [s EXCEPT !.spsr[mode] = s.cpsr,
                 !.lr[mode] = s.regs[15],
                 !.cpsr = [flags |-> s.cpsr.flags \cup {"I"}, mode |-> mode],
                 !.regs[15] = target]

Reg(s, r) == IF r = 15 THEN (s.regs[15] + 4) % M ELSE s.regs[r]
Put(s, r, v) == [s EXCEPT !.regs[r] = v]
Carry(s) == IF IsSet(s.cpsr.flags, "C") THEN 1 ELSE 0

-----------------------------------------------------------------------------
\* The shifter: a value and the carry out of it.

\* Mutant: an amount of zero means no shift whatever the type.
ShiftByZeroIsNone(val, type, c) == [val |-> val, carry |-> c = 1]

ShiftByZero(val, type, c) ==
  LET top == Bit(val, Width - 1)
  IN CASE type = "Lsl" -> [val |-> val, carry |-> c = 1]
       [] type = "Lsr" -> [val |-> 0, carry |-> top]
       [] type = "Asr" -> [val |-> IF top THEN M - 1 ELSE 0, carry |-> top]
       [] type = "Ror" -> [val |-> c * 2^(Width - 1) + ShiftedRight(val, 1),
                           carry |-> Bit(val, 0)]

ShiftBy(val, type, amount) ==
  LET out == amount <= Width /\ Bit(val, amount - 1)     \* last bit out to the right
      amt == amount % Width
  IN CASE type = "Lsl" -> IF amount >= Width
                          THEN [val |-> 0, carry |-> amount = Width /\ Bit(val, 0)]
                          ELSE [val |-> ShiftedLeft(val, amount),
                                carry |-> Bit(val, Width - amount)]
       [] type = "Lsr" -> [val |-> IF amount >= Width THEN 0 ELSE ShiftedRight(val, amount),
                           carry |-> out]
       [] type = "Asr" -> IF amount >= Width
                          THEN ShiftByZero(val, "Asr", 0)
                          ELSE [val |-> ArithmeticRight(val, amount), carry |-> out]
       [] type = "Ror" -> IF amt = 0 THEN [val |-> val, carry |-> Bit(val, Width - 1)]
                          ELSE [val |-> RotatedRight(val, amt), carry |-> Bit(val, amt - 1)]

\* A register gives its low byte, eight times as many values as bits in a word.
EvaluateOperand2(s, op2) ==
  IF "val" \in DOMAIN op2
  THEN [val |-> ValueOf[op2.val \cap Position],
        carry |-> IF op2.carry_out = {} THEN Carry(s) = 1 ELSE TRUE \in op2.carry_out]
  ELSE LET val == Reg(s, op2.rm)
           type == op2.shift.shift_type
           amount == IF "rs" \in DOMAIN op2.shift
                     THEN Reg(s, op2.shift.rs) % (8 * Width) ELSE op2.shift.amount
       IN IF amount = 0 THEN ShiftByZero(val, type, Carry(s)) ELSE ShiftBy(val, type, amount)

-----------------------------------------------------------------------------
\* Data processing

Arithmetic(s, i, f, a, b) ==
  CASE i.op = "Sub" -> DoSub(f, a, b, i.s)
    [] i.op = "Rsb" -> DoSub(f, b, a, i.s)
    [] i.op = "Add" -> DoAdd(f, a, b, i.s)
    [] i.op = "Adc" -> DoAddCarry(f, a, b, Carry(s), i.s)
    [] i.op = "Sbc" -> DoSubCarry(f, a, b, 1 - Carry(s), i.s)
    [] i.op = "Rsc" -> DoSubCarry(f, b, a, 1 - Carry(s), i.s)
    [] i.op = "Cmp" -> DoSub(f, a, b, TRUE)
    [] i.op = "Cmn" -> DoAdd(f, a, b, TRUE)

Logic(s, i, a, op2) ==
  LET res == CASE i.op \in {"And", "Tst"} -> And(a, op2.val)
               [] i.op \in {"Eor", "Teq"} -> Xor(a, op2.val)
               [] i.op = "Orr" -> Or(a, op2.val)
               [] i.op = "Bic" -> And(a, Not(op2.val))
               [] i.op = "Mov" -> op2.val
               [] i.op = "Mvn" -> Not(op2.val)
      Out(v) ==
        [res |-> v,
         flags |-> IF i.op \in {"Tst", "Teq"} \/ i.s
                   THEN SetLogicFlags(s.cpsr.flags, v, op2.carry) ELSE s.cpsr.flags]
  IN Out(res)

DataProcessing(s, i) ==
  LET Into(out) ==
        [s EXCEPT !.cpsr.flags = out.flags,
                  !.regs = IF i.op \in {"Tst", "Teq", "Cmp", "Cmn"} THEN @
                           ELSE [@ EXCEPT ![i.rd] = out.res]]
      On(a, op2) == IF i.op \in {"Sub", "Rsb", "Add", "Adc", "Sbc", "Rsc", "Cmp", "Cmn"}
                    THEN Arithmetic(s, i, s.cpsr.flags, a, op2.val) ELSE Logic(s, i, a, op2)
  IN Into(On(Reg(s, i.rn), EvaluateOperand2(s, i.op2)))

Move(s, i) ==
  Put(s, i.rd, IF i.op = "Movw" THEN i.imm16 % Span(2)
               ELSE (Reg(s, i.rd) % Span(2)) + (i.imm16 % Span(2)) * Span(2))

\* MRS and MSR; in a mode without a bank the saved status is the current one.
Saved(s, i) == i.use_spsr /\ s.cpsr.mode \in Banked

Mrs(s, i) == Put(s, i.rd, IF Saved(s, i) THEN s.spsr[s.cpsr.mode] ELSE s.cpsr)

Msr(s, i) ==
  LET val == IF "val" \in DOMAIN i.op2 THEN StatusOf(i.op2.val)
             ELSE EvaluateOperand2(s, i.op2).val
      Merged(psr) ==
        [flags |-> {f \in CpsrBit : IF FlagNo[f] \div 8 \in i.mask
                                    THEN f \in val.flags ELSE f \in psr.flags},
         mode |-> IF 0 \in i.mask THEN ModeFrom(ModeNo[val.mode]) ELSE psr.mode]
  IN IF Saved(s, i) THEN [s EXCEPT !.spsr[s.cpsr.mode] = Merged(@)]
     ELSE [s EXCEPT !.cpsr = Merged(@)]

-----------------------------------------------------------------------------
\* Multiplies

NZ(s, i, negative, zero) ==
  IF i.s THEN [s EXCEPT !.cpsr.flags = SetFlag(SetFlag(@, "N", negative), "Z", zero)] ELSE s

Multiply(s, i) ==
  LET mul == (Reg(s, i.rm) * Reg(s, i.rs)) % M
      res == IF i.op = "Mla" THEN (mul + Reg(s, i.rn)) % M ELSE mul
  IN NZ(Put(s, i.rd, res), i, Negative(res, M), res = 0)

\* Mutant: only the low word is accumulated.
MultiplyLongLow(s, i) ==
  LET a == Reg(s, i.rm)   b == Reg(s, i.rs)
      mul == IF i.op \in {"Smull", "Smlal"} THEN Signed(a, M) * Signed(b, M) ELSE a * b
      accum == IF i.op \in {"Umlal", "Smlal"} THEN Reg(s, i.rd_lo) ELSE 0
      res == (mul + accum) % (M * M)
  IN NZ(Put(Put(s, i.rd_lo, res % M), i.rd_hi, res \div M), i, Negative(res, M * M), res = 0)

MultiplyLong(s, i) ==
  LET a == Reg(s, i.rm)   b == Reg(s, i.rs)
      mul == IF i.op \in {"Smull", "Smlal"} THEN Signed(a, M) * Signed(b, M) ELSE a * b
      accum == IF i.op \in {"Umlal", "Smlal"} THEN Reg(s, i.rd_lo) + M * Reg(s, i.rd_hi) ELSE 0
      res == (mul + accum) % (M * M)
  IN NZ(Put(Put(s, i.rd_lo, res % M), i.rd_hi, res \div M), i, Negative(res, M * M), res = 0)

-----------------------------------------------------------------------------
\* Bit fields, reversals and extensions

\* Mutant: the - 1 that makes a mask of a power of two is missing.
OnesPower(n) == 2^n

Ones(n) == 2^n - 1

BitField(s, i) ==
  LET mask == ShiftedLeft(Ones(i.width) % M, i.lsb)
  IN CASE i.op = "Bfc" -> Put(s, i.rd, And(s.regs[i.rd], Not(mask)))
       [] i.op = "Bfi" -> LET val == ShiftedLeft(And(Reg(s, i.rn), Ones(i.width) % M), i.lsb)
                          IN Put(s, i.rd, Or(And(Reg(s, i.rd), Not(mask)), val))
       [] i.op = "Ubfx" -> Put(s, i.rd, And(ShiftedRight(Reg(s, i.rn), i.lsb), Ones(i.width) % M))
       [] i.op = "Sbfx" -> IF i.lsb + i.width > Width THEN Fails(s, "panic")
                           ELSE Put(s, i.rd, ArithmeticRight(
                                  ShiftedLeft(Reg(s, i.rn), Width - i.lsb - i.width),
                                  Width - i.width))

Reversal(s, i) ==
  LET val == Reg(s, i.rm)
      low == SwapBytes(val % Span(2), 2)
  IN Put(s, i.rd, CASE i.op = "Rev" -> SwapBytes(val, 4)
                    [] i.op = "Rev16" -> low + Span(2) * SwapBytes(val \div Span(2), 2)
                    [] i.op = "Revsh" -> SignExtended(low, 2)
                    [] i.op = "Clz" -> Cardinality({k \in Position : val < 2^k}))

Extension(s, i) ==
  LET rotated == RotatedRight(Reg(s, i.rm), i.rot * ByteBits)
      val == CASE i.op = "Sxtb" -> SignExtended(rotated, 1)
               [] i.op = "Sxth" -> SignExtended(rotated, 2)
               [] i.op = "Uxtb" -> rotated % Span(1)
               [] i.op = "Uxth" -> rotated % Span(2)
  IN Put(s, i.rd, IF i.rn = {} THEN val
                  ELSE (Reg(s, CHOOSE n \in i.rn : TRUE) + val) % M)

-----------------------------------------------------------------------------
\* Loads and stores: with the E flag words and halfwords are byte-swapped.

\* Mutant: halfwords keep their order.
SwappedWords(s, v, n) == IF IsSet(s.cpsr.flags, "E") /\ n = 4 THEN SwapBytes(v, n) ELSE v

Swapped(s, v, n) == IF IsSet(s.cpsr.flags, "E") THEN SwapBytes(v, n) ELSE v

ReadData(s, a, n) == Swapped(s, Loaded(s, a, n), n)
WriteData(s, a, n, v) == Stored(s, a, n, Swapped(s, v, n))

\* The base moved by the offset, and the address the access is at.
Moved(s, i) ==
  (Reg(s, i.rn) + (IF i.up THEN 1 ELSE -1) * EvaluateOperand2(s, i.offset).val) % M
Address(s, i, moved) == IF i.pre THEN moved ELSE Reg(s, i.rn)

WriteBack(s, i, moved) ==
  IF (i.writeback \/ ~i.pre) /\ i.rn # 15 THEN Put(s, i.rn, moved) ELSE s

\* a is the address of the access, moved the base after it.
Load(s, i, n, val, a, moved) ==
  IF ~Reachable(s, a, n) THEN Fails(s, "fault") ELSE WriteBack(Put(s, i.rd, val), i, moved)

Store(s, i, n, a, moved) ==
  LET Then(t) == IF t.err = "ok" THEN WriteBack(t, i, moved) ELSE t
  IN Then(WriteData(s, a, n, Reg(s, i.rd) % Span(n)))

Ldr(s, i, a, moved) == Load(s, i, 4, ReadData(s, a, 4), a, moved)
Str(s, i, a, moved) == Store(s, i, 4, a, moved)
Ldrb(s, i, a, moved) == Load(s, i, 1, ReadData(s, a, 1), a, moved)
Strb(s, i, a, moved) == Store(s, i, 1, a, moved)
Ldrh(s, i, a, moved) == Load(s, i, 2, ReadData(s, a, 2), a, moved)
Strh(s, i, a, moved) == Store(s, i, 2, a, moved)
Ldrsb(s, i, a, moved) == Load(s, i, 1, SignExtended(ReadData(s, a, 1), 1), a, moved)
Ldrsh(s, i, a, moved) == Load(s, i, 2, SignExtended(ReadData(s, a, 2), 2), a, moved)

\* Mutant: "before" is taken for "one up" in descending blocks too.
BlockAddressBefore(s, i, r) ==
  LET low == IF i.u THEN Reg(s, i.rn) ELSE Reg(s, i.rn) - 4 * Cardinality(i.reg_list)
      start == IF i.p THEN low + 4 ELSE low
  IN (start + 4 * Cardinality({q \in i.reg_list : q < r})) % M

\* The address of register r of a block, and the base after the block.
BlockAddress(s, i, r) ==
  LET low == IF i.u THEN Reg(s, i.rn) ELSE Reg(s, i.rn) - 4 * Cardinality(i.reg_list)
      start == IF i.p = i.u THEN low + 4 ELSE low
  IN (start + 4 * Cardinality({q \in i.reg_list : q < r})) % M

BlockMoved(s, i) ==
  LET total == 4 * Cardinality(i.reg_list)
  IN IF i.w THEN Put(s, i.rn, (IF i.u THEN s.regs[i.rn] + total ELSE s.regs[i.rn] - total) % M)
     ELSE s

\* The registers the loop goes through before an access that fails.
BlockDone(s, i) ==
  {r \in i.reg_list : \A q \in i.reg_list : q <= r => Reachable(s, BlockAddress(s, i, q), 4)}

Ldm(s, i) ==
  LET done == BlockDone(s, i)
      t == [BlockMoved(s, i) EXCEPT !.regs =
              [r \in Register |-> IF r \in done THEN ReadData(s, BlockAddress(s, i, r), 4)
                                  ELSE @[r]]]
  IN IF done = i.reg_list THEN t ELSE Fails(t, "fault")

Stm(s, i) ==
  LET done == BlockDone(s, i)
      t == [s EXCEPT !.mem =
              [c \in DOMAIN s.mem |->
                 IF \E r \in done : c - BlockAddress(s, i, r) \in 0 .. 3
                 THEN LET r == CHOOSE r \in done : c - BlockAddress(s, i, r) \in 0 .. 3
                      IN ByteAt(Swapped(s, Reg(s, r), 4), c - BlockAddress(s, i, r))
                 ELSE s.mem[c]]]
  IN IF done = i.reg_list THEN BlockMoved(t, i) ELSE Fails(t, "fault")

-----------------------------------------------------------------------------
\* Branches and system instructions

Link(s, i) == IF i.op \in {"Bl", "Blx"} THEN Put(s, 14, s.regs[15]) ELSE s

Branch(s, i) == Put(Link(s, i), 15, (s.regs[15] + 4 + i.target) % M)

\* BLX links before it reads its register, which may be the link register.
BranchExchange(s, i) ==
  LET t == Link(s, i)
      val == Reg(t, i.rm)
  IN Put([t EXCEPT !.cpsr.flags = SetFlag(@, "T", Bit(val, 0))], 15, val - (val % 2))

System(s, i) ==
  CASE i.op = "Svc" -> IF s.handles THEN s ELSE Fails(s, "not_implemented")
    [] i.op = "Bkpt" -> Fails(s, "breakpoint")
    [] i.op = "Nop" -> s
    [] i.op = "Unknown" -> Fails(s, "invalid")

InstrCondition(i) == IF i.op \in {"Bkpt", "Unknown"} THEN "Al" ELSE i.cond

Single(s, i, a, moved) ==
  CASE i.op = "Ldr" -> Ldr(s, i, a, moved)      [] i.op = "Str" -> Str(s, i, a, moved)
    [] i.op = "Ldrb" -> Ldrb(s, i, a, moved)    [] i.op = "Strb" -> Strb(s, i, a, moved)
    [] i.op = "Ldrh" -> Ldrh(s, i, a, moved)    [] i.op = "Strh" -> Strh(s, i, a, moved)
    [] i.op = "Ldrsb" -> Ldrsb(s, i, a, moved)  [] i.op = "Ldrsh" -> Ldrsh(s, i, a, moved)

Transfer(s, i) ==
  LET At(moved) == Single(s, i, Address(s, i, moved), moved)
  IN CASE i.op = "Ldm" -> Ldm(s, i)
       [] i.op = "Stm" -> Stm(s, i)
       [] OTHER -> At(Moved(s, i))

ExecuteArm(s, i) ==
  IF ~CheckCondition(s.cpsr.flags, InstrCondition(i)) THEN s
  ELSE CASE i.op \in {DataOps[k] : k \in 1 .. 16} -> DataProcessing(s, i)
         [] i.op \in {"Movw", "Movt"} -> Move(s, i)
         [] i.op = "Mrs" -> Mrs(s, i)
         [] i.op = "Msr" -> Msr(s, i)
         [] i.op \in {"Mul", "Mla"} -> Multiply(s, i)
         [] i.op \in {"Umull", "Umlal", "Smull", "Smlal"} -> MultiplyLong(s, i)
         [] i.op \in {"Bfc", "Bfi", "Ubfx", "Sbfx"} -> BitField(s, i)
         [] i.op \in {"Rev", "Rev16", "Revsh", "Clz"} -> Reversal(s, i)
         [] i.op \in {"Sxtb", "Sxth", "Uxtb", "Uxth"} -> Extension(s, i)
         [] i.op \in {"B", "Bl"} -> Branch(s, i)
         [] i.op \in {"Bx", "Blx"} -> BranchExchange(s, i)
         [] i.op \in {"Svc", "Bkpt", "Nop", "Unknown"} -> System(s, i)
         [] OTHER -> Transfer(s, i)

\* One instruction: the PC moves on before it and back after an error.
Rewound(s, t) == IF t.err = "ok" THEN t ELSE Put(t, 15, s.regs[15])

ArmStep(s, raw) == Rewound(s, ExecuteArm(Put(s, 15, (s.regs[15] + 4) % M), DecodeArm(raw)))
=============================================================================
