----------------------------- MODULE ArmDecode -----------------------------
(***************************************************************************)
(* decode_arm: from a 32-bit word to an instruction.  A word is the set of *)
(* its one bits.  The tests are the decoder's masks and values, in its     *)
(* order, since the first that matches wins.                               *)
(***************************************************************************)
EXTENDS ArmInstr

\* The bits of (raw & (2^n - 1)).rotate_right(r)
Rotated(raw, n, r) == {(i - r) % 32 : i \in raw \cap (0 .. n - 1)}

Plain(rm) == [rm |-> rm, shift |-> [shift_type |-> "Lsl", amount |-> 0]]

Unknown(raw) == [op |-> "Unknown", raw |-> raw]

DecodeMedia(cond, raw) ==
  LET rd == Field(raw, 12, 4)   rm == Field(raw, 0, 4)   rn == Field(raw, 16, 4)
      lsb == Field(raw, 7, 5)   msb == Field(raw, 16, 5)
      width == (IF msb > lsb THEN msb - lsb ELSE 0) + 1
      Reversal(op) == [op |-> op, cond |-> cond, rd |-> rd, rm |-> rm]
      extension == [e \in {\h6A, \h6B, \h6E, \h6F} |->
                      CASE e = \h6A -> "Sxtb" [] e = \h6B -> "Sxth"
                        [] e = \h6E -> "Uxtb" [] e = \h6F -> "Uxth"]
      extOp == Field(raw, 20, 8)
  IN IF Match(raw, \h0FF000F0, \h07C00010)
     THEN IF rm = 15
          THEN [op |-> "Bfc", cond |-> cond, rd |-> rd, lsb |-> lsb, width |-> width]
          ELSE [op |-> "Bfi", cond |-> cond, rd |-> rd, rn |-> rm, lsb |-> lsb, width |-> width]
     ELSE IF Match(raw, \h0FA00070, \h07A00050)
     THEN [op |-> IF 22 \in raw THEN "Ubfx" ELSE "Sbfx", cond |-> cond, rd |-> rd,
           rn |-> rm, lsb |-> lsb, width |-> msb + 1]
     ELSE IF Match(raw, \h0FF00FF0, \h06B00F30) THEN Reversal("Rev")
     ELSE IF Match(raw, \h0FF00FF0, \h06B00FB0) THEN Reversal("Rev16")
     ELSE IF Match(raw, \h0FF00FF0, \h06F00FB0) THEN Reversal("Revsh")
     ELSE IF extOp \in DOMAIN extension
     THEN [op |-> extension[extOp], cond |-> cond, rd |-> rd, rm |-> rm,
           rot |-> Field(raw, 10, 2), rn |-> IF rn = 15 THEN {} ELSE {rn}]
     ELSE Unknown(raw)

\* The words the block of multiplies and extra loads and stores answers.
IsExtra(raw) ==
  \/ Field(raw, 5, 2) = 1
  \/ Field(raw, 5, 2) \in {2, 3} /\ 20 \in raw
IsMultiplyOrExtra(raw) ==
  /\ Match(raw, \h90, \h90)
  /\ \/ Match(raw, \h0F800000, 0)
     \/ Match(raw, \h0F800000, \h00800000)
     \/ Match(raw, \h0F800000, \h00C00000)
     \/ Match(raw, \h0E000000, 0) /\ IsExtra(raw)

DecodeMultiply(cond, raw) ==
  LET s == 20 \in raw   a == 21 \in raw
      rm == Field(raw, 0, 4)    rs == Field(raw, 8, 4)
      rn == Field(raw, 12, 4)   rd == Field(raw, 16, 4)
      Long(op) == [op |-> op, cond |-> cond, s |-> s, rd_lo |-> rn, rd_hi |-> rd,
                   rm |-> rm, rs |-> rs]
  IN IF Match(raw, \h0F800000, 0)
     THEN IF a
          THEN [op |-> "Mla", cond |-> cond, s |-> s, rd |-> rd, rm |-> rm, rs |-> rs, rn |-> rn]
          ELSE [op |-> "Mul", cond |-> cond, s |-> s, rd |-> rd, rm |-> rm, rs |-> rs]
     ELSE IF Match(raw, \h0F800000, \h00800000)
     THEN Long(IF a THEN "Umlal" ELSE "Umull")
     ELSE Long(IF a THEN "Smlal" ELSE "Smull")

DecodeExtra(cond, raw) ==
  LET load == 20 \in raw
      op == CASE Field(raw, 5, 2) = 1 -> IF load THEN "Ldrh" ELSE "Strh"
              [] Field(raw, 5, 2) = 2 -> "Ldrsb"
              [] Field(raw, 5, 2) = 3 -> "Ldrsh"
      imm8 == {i - 4 : i \in raw \cap (8 .. 11)} \cup (raw \cap (0 .. 3))
  IN [op |-> op, cond |-> cond, rd |-> Field(raw, 12, 4), rn |-> Field(raw, 16, 4),
      offset |-> IF 22 \in raw THEN [val |-> imm8, carry_out |-> {}]
                 ELSE Plain(Field(raw, 0, 4)),
      pre |-> 24 \in raw, writeback |-> 21 \in raw, up |-> 23 \in raw]

DecodeMsr(cond, raw, op2) ==
  [op |-> "Msr", cond |-> cond, use_spsr |-> 22 \in raw,
   mask |-> {i - 16 : i \in raw \cap (16 .. 19)}, op2 |-> op2]

DecodeShiftedRegister(raw) ==
  LET type == ShiftTypes[Field(raw, 5, 2) + 1]
  IN [rm |-> Field(raw, 0, 4),
      shift |-> IF 4 \in raw THEN [shift_type |-> type, rs |-> Field(raw, 8, 4)]
                ELSE [shift_type |-> type, amount |-> Field(raw, 7, 5)]]

DecodeOperand2(raw, immediate) ==
  LET rotate == Field(raw, 8, 4) * 2
      val == Rotated(raw, 8, rotate)
  IN IF immediate
     THEN [val |-> val, carry_out |-> IF rotate = 0 THEN {} ELSE {31 \in val}]
     ELSE DecodeShiftedRegister(raw)

DataOps == << "And", "Eor", "Sub", "Rsb", "Add", "Adc", "Sbc", "Rsc",
              "Tst", "Teq", "Cmp", "Cmn", "Orr", "Mov", "Bic", "Mvn" >>

DecodeOpcode(cond, raw, immediate) ==
  [op |-> DataOps[Field(raw, 21, 4) + 1], cond |-> cond, s |-> 20 \in raw,
   rd |-> Field(raw, 12, 4), rn |-> Field(raw, 16, 4), op2 |-> DecodeOperand2(raw, immediate)]

DecodeMisc(cond, raw, immediate) ==
  LET rd == Field(raw, 12, 4)   rm == Field(raw, 0, 4)
      imm16 == Field(raw, 16, 4) * 4096 + Field(raw, 0, 12)
  IN IF Match(raw, \h0FFF0FF0, \h016F0F10)
     THEN [op |-> "Clz", cond |-> cond, rd |-> rd, rm |-> rm]
     ELSE IF Match(raw, \h0FF000F0, \h01200070)
     THEN [op |-> "Bkpt", imm16 |-> Field(raw, 8, 12) * 16 + rm]
     ELSE IF ~immediate /\ Match(raw, \h0FFFFFF0, \h012FFF10)
     THEN [op |-> "Bx", cond |-> cond, rm |-> rm]
     ELSE IF ~immediate /\ Match(raw, \h0FFFFFF0, \h012FFF30)
     THEN [op |-> "Blx", cond |-> cond, rm |-> rm]
     ELSE IF immediate /\ Match(raw, \h0FF00000, \h03000000)
     THEN [op |-> "Movw", cond |-> cond, rd |-> rd, imm16 |-> imm16]
     ELSE IF immediate /\ Match(raw, \h0FF00000, \h03400000)
     THEN [op |-> "Movt", cond |-> cond, rd |-> rd, imm16 |-> imm16]
     ELSE Unknown(raw)

DecodeDataProcOrMisc(cond, raw, immediate) ==
  LET misc == DecodeMisc(cond, raw, immediate)
      msrImmediate == [val |-> Rotated(raw, 8, Field(raw, 8, 4) * 2), carry_out |-> {}]
  IN IF misc.op # "Unknown" THEN misc
     ELSE IF ~immediate /\ IsMultiplyOrExtra(raw)
     THEN IF \/ Match(raw, \h0F800000, 0)
             \/ Match(raw, \h0F800000, \h00800000)
             \/ Match(raw, \h0F800000, \h00C00000)
          THEN DecodeMultiply(cond, raw)
          ELSE DecodeExtra(cond, raw)
     ELSE IF Match(raw, \h0FBF0FFF, \h010F0000)
     THEN [op |-> "Mrs", cond |-> cond, rd |-> Field(raw, 12, 4), use_spsr |-> 22 \in raw]
     ELSE IF ~immediate /\ Match(raw, \h0FB00FF0, \h01200000)
     THEN DecodeMsr(cond, raw, Plain(Field(raw, 0, 4)))
     ELSE IF immediate /\ Match(raw, \h0FB00000, \h03200000)
     THEN DecodeMsr(cond, raw, msrImmediate)
     ELSE DecodeOpcode(cond, raw, immediate)

DecodeLoadStore(cond, raw, shifted) ==
  [op |-> IF 20 \in raw THEN (IF 22 \in raw THEN "Ldrb" ELSE "Ldr")
          ELSE (IF 22 \in raw THEN "Strb" ELSE "Str"),
   cond |-> cond, rd |-> Field(raw, 12, 4), rn |-> Field(raw, 16, 4),
   offset |-> IF shifted THEN DecodeShiftedRegister(raw)   \* bit 4 is clear here
             ELSE [val |-> raw \cap (0 .. 11), carry_out |-> {}],
   pre |-> 24 \in raw, writeback |-> 21 \in raw, up |-> 23 \in raw]

\* Mutant: P and U are exchanged.
DecodeLoadStoreMultipleExchanged(cond, raw) ==
  [op |-> IF 20 \in raw THEN "Ldm" ELSE "Stm", cond |-> cond, rn |-> Field(raw, 16, 4),
   reg_list |-> raw \cap (0 .. 15), p |-> 23 \in raw, u |-> 24 \in raw, w |-> 21 \in raw]

DecodeLoadStoreMultiple(cond, raw) ==
  [op |-> IF 20 \in raw THEN "Ldm" ELSE "Stm", cond |-> cond, rn |-> Field(raw, 16, 4),
   reg_list |-> raw \cap (0 .. 15), p |-> 24 \in raw, u |-> 23 \in raw, w |-> 21 \in raw]

DecodeBranch(cond, raw) ==
  [op |-> IF 24 \in raw THEN "Bl" ELSE "B", cond |-> cond,
   target |-> 4 * SignedField(raw, 0, 24)]

DecodeCoprocOrSvc(cond, raw) ==
  IF Field(raw, 24, 4) = 15
  THEN [op |-> "Svc", cond |-> cond, imm |-> Field(raw, 0, 24)]
  ELSE Unknown(raw)

DecodeType(cond, raw, opType) ==
  CASE opType = 0 -> DecodeDataProcOrMisc(cond, raw, FALSE)
    [] opType = 1 -> DecodeDataProcOrMisc(cond, raw, TRUE)
    [] opType = 2 -> DecodeLoadStore(cond, raw, FALSE)
    [] opType = 3 -> IF 4 \in raw THEN DecodeMedia(cond, raw)
                     ELSE DecodeLoadStore(cond, raw, TRUE)
    [] opType = 4 -> DecodeLoadStoreMultiple(cond, raw)
    [] opType = 5 -> DecodeBranch(cond, raw)
    [] opType = 6 -> Unknown(raw)
    [] opType = 7 -> DecodeCoprocOrSvc(cond, raw)

DecodeArm(raw) ==
  LET cond == ConditionFrom(Field(raw, 28, 4))
  IN IF cond = "Nv" THEN Unknown(raw)
     ELSE IF Match(raw, \h0FFFFFFF, \h0320F000) THEN [op |-> "Nop", cond |-> cond]
     ELSE DecodeType(cond, raw, Field(raw, 25, 3))
=============================================================================
