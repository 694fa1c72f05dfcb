---------------------------- MODULE RestartProofs ----------------------------
(***************************************************************************)
(* Rewinding the PC is enough: an RV32I or ARM instruction that faulted    *)
(* can be tried again once the host has mapped a region, however often,    *)
(* and what a fault shows of it is old or new.                             *)
(*                                                                         *)
(* The inductive invariant (RestartInv) adds to that of GuestProofs what k *)
(* failed tries of an instruction may have left of the machine it began on *)
(* (RvSame, ArmLeft).  A byte is the old one or the new one; the list of   *)
(* an LDM holds what some earlier try has loaded, while the base has       *)
(* slipped k times.  A lemma per group of instructions shows that a try    *)
(* that starts from what k tries left fails and leaves what k + 1 may, or  *)
(* ends as with all regions mapped (RvTryAgain, ArmTryAgain); that a run   *)
(* restarts and that its faults are partial follow from it.                *)
(***************************************************************************)
EXTENDS GuestProofs

-----------------------------------------------------------------------------
(* Trying again                                                            *)

\* The region that holds a ends there.
Cut(a) == \E R \in Regions : a \in R /\ a + 1 \notin R

\* What failed tries of storing the n bytes of v at a leave of the memory mem.
Attempted(mem, a, n, v) ==
  {mem} \cup (IF n = 2 /\ Cut(a) THEN {Filled(mem, a, 1, v)} ELSE {})

\* What is reachable with some of the regions is with all of them.
LEMMA ReachableAll ==
  ASSUME NEW s, NEW t, s.mapped \in SUBSET Regions, t.mapped = Regions, NEW a, NEW n
  PROVE  Reachable(s, a, n) => Reachable(t, a, n)
BY DEF Reachable

\* Two bytes that lie in different regions are never reached at once.
LEMMA CutUnreachable ==
  ASSUME NEW s, s.mapped \in SUBSET Regions, NEW a, Cut(a)
  PROVE  ~Reachable(s, a, 2)
<1> SUFFICES ASSUME Reachable(s, a, 2) PROVE FALSE
  OBVIOUS
<1>1. PICK R \in Regions : a \in R /\ a + 1 \notin R
  BY DEF Cut
<1>2. PICK T \in Regions : a \in T /\ a + 2 - 1 \in T
  BY DEF Reachable
<1>3. R = T
  BY <1>1, <1>2, RegionsAssumption
<1>4. a \in Int
  BY <1>1, RegionsAssumption, WordArithmetic
<1>5. a + 2 - 1 = a + 1
  BY <1>4
<1> QED BY <1>1, <1>2, <1>3, <1>5

\* Storing twice is storing once.
LEMMA FilledTwice ==
  ASSUME NEW mem \in [Cells -> Byte], NEW a, NEW n \in Nat, NEW v \in Int
  PROVE  Filled(Filled(mem, a, n, v), a, n, v) = Filled(mem, a, n, v)
<1> DEFINE once == Filled(mem, a, n, v)
<1>1. DOMAIN mem = Cells /\ DOMAIN once = Cells
  BY FilledType DEF Filled
<1>2. \A c \in Cells : Filled(once, a, n, v)[c] = once[c]
  BY <1>1 DEF Filled
<1>3. /\ once = [c \in Cells |-> once[c]]
      /\ Filled(once, a, n, v) = [c \in Cells |-> Filled(once, a, n, v)[c]]
  BY <1>1 DEF Filled
<1> QED BY <1>2, <1>3

\* The machine m with the memory mem, its instruction having faulted.
Faulted(m, mem) == Fails([m EXCEPT !.mem = mem], "fault")

\* A store is complete, or leaves what it had stored so far.
LEMMA StoreTried ==
  ASSUME NEW m, [m EXCEPT !.mem = m.mem] = m, m.mapped \in SUBSET Regions,
         NEW mem \in [Cells -> Byte], NEW a, NEW n \in {1, 2, 4}, NEW v \in Int,
         m.mem \in Attempted(mem, a, n, v)
  PROVE  \/ /\ Reachable(m, a, n)
            /\ Stored(m, a, n, v) = [m EXCEPT !.mem = Filled(mem, a, n, v)]
         \/ /\ ~Reachable(m, a, n)
            /\ \E x \in Attempted(mem, a, n, v) :
                  Stored(m, a, n, v) = Faulted(m, x)
<1>1. CASE Reachable(m, a, n)
  <2>1. ~(n = 2 /\ Cut(a))
    BY <1>1, CutUnreachable
  <2>2. m.mem = mem
    BY <2>1 DEF Attempted
  <2>3. Stored(m, a, n, v) = [m EXCEPT !.mem = Filled(m.mem, a, n, v)]
    BY <1>1 DEF Stored
  <2> QED BY <1>1, <2>2, <2>3
<1>2. CASE ~Reachable(m, a, n) /\ ~(n = 2 /\ Reachable(m, a, 1))
  <2>1. Stored(m, a, n, v) = Faulted(m, m.mem)
    BY <1>2 DEF Stored, Faulted
  <2> QED BY <1>2, <2>1
<1>3. CASE ~Reachable(m, a, n) /\ n = 2 /\ Reachable(m, a, 1)
  <2> DEFINE x == Filled(mem, a, 1, v)
  <2>1. Cut(a)
    <3>1. PICK R \in m.mapped : a \in R /\ ~(a \in R /\ a + 2 - 1 \in R)
      BY <1>3 DEF Reachable
    <3>2. R \in Regions /\ a \in Int /\ a + 2 - 1 = a + 1
      BY <3>1, RegionsAssumption, WordArithmetic
    <3> QED BY <3>1, <3>2 DEF Cut
  <2>2. m.mem \in {mem, x} /\ x \in Attempted(mem, a, n, v)
    BY <1>3, <2>1 DEF Attempted
  <2>3. Filled(m.mem, a, 1, v) = x
    BY <2>2, FilledTwice
  <2>4. Stored(m, a, n, v) = Faulted(m, x)
    BY <1>3, <2>3 DEF Stored, Faulted
  <2> QED BY <1>3, <2>2, <2>4
<1> QED BY <1>1, <1>2, <1>3

\* What a failed try leaves is what was there or what a store with all regions
\* mapped leaves.
LEMMA AttemptIsPart ==
  ASSUME NEW t, t.mapped = Regions, NEW a, NEW n, NEW v, NEW x \in Attempted(t.mem, a, n, v)
  PROVE  x = t.mem \/ Stored(t, a, n, v) = Faulted(t, x)
<1> SUFFICES ASSUME x # t.mem PROVE Stored(t, a, n, v) = Faulted(t, x)
  OBVIOUS
<1>1. n = 2 /\ Cut(a) /\ x = Filled(t.mem, a, 1, v)
  BY DEF Attempted
<1>2. ~Reachable(t, a, 2)
  BY <1>1, CutUnreachable
<1>3. Reachable(t, a, 1)
  <2>1. PICK R \in Regions : a \in R
    BY <1>1 DEF Cut
  <2>2. a \in Int
    BY <2>1, RegionsAssumption, WordArithmetic
  <2>3. a + 1 - 1 = a
    BY <2>2
  <2> QED BY <2>1, <2>3 DEF Reachable
<1> QED BY <1>1, <1>2, <1>3 DEF Stored, Faulted

-----------------------------------------------------------------------------
(* RV32I                                                                   *)

\* The names of the loads and of the stores.
RvLoads == {"Lb", "Lh", "Lw", "Lbu", "Lhu"}
RvStores == {"Sb", "Sh", "Sw"}

\* The address of a load or store, what a load puts in its register, what a store stores.
RvAddress(s, i) == (s.regs[i.rs1] + i.imm) % M
RvValue(s, i) ==
  LET val == Loaded(s, RvAddress(s, i), Rv!Size(i.op))
  IN IF i.op \in {"Lb", "Lh"} THEN SignExtended(val, Rv!Size(i.op)) ELSE val
RvSource(s, i) == s.regs[i.rs2] % Span(Rv!Size(i.op))

\* What loads, stores and the other instructions do.
LEMMA RvMeaning ==
  ASSUME NEW s, NEW i
  PROVE  LET current == (s.pc - 4) % M
             a == s.regs[i.rs1]
             Is(t) == Rv!ExecuteRiscv(s, i) = t
             Sets(v) == Is(Rv!WriteReg(s, i.rd, v))
         IN /\ i.op = "Lui" => Sets(ValueOf[i.imm \cap Position])
            /\ i.op = "Auipc" => Sets((current + ValueOf[i.imm \cap Position]) % M)
            /\ i.op = "Jal" => Is([Rv!WriteReg(s, i.rd, s.pc) EXCEPT !.pc = (current + i.imm) % M])
            /\ i.op = "Jalr" =>
                 LET target == RvAddress(s, i)
                 IN Is([Rv!WriteReg(s, i.rd, s.pc) EXCEPT !.pc = (target - (target % 2)) % M])
            /\ i.op \in {"Beq", "Bne", "Blt", "Bge", "Bltu", "Bgeu"} =>
                 Is(IF Rv!Taken(i.op, a, s.regs[i.rs2])
                    THEN [s EXCEPT !.pc = (current + i.imm) % M] ELSE s)
            /\ i.op \in RvLoads =>
                 Is(IF Reachable(s, RvAddress(s, i), Rv!Size(i.op))
                    THEN Rv!WriteReg(s, i.rd, RvValue(s, i)) ELSE Fails(s, "fault"))
            /\ i.op \in RvStores =>
                 Is(Stored(s, RvAddress(s, i), Rv!Size(i.op), RvSource(s, i)))
            /\ i.op \in {"Addi", "Slti", "Sltiu", "Xori", "Ori", "Andi"} =>
                 Sets(Rv!AluImmediate(i.op, a, i.imm % M))
            /\ i.op \in {"Slli", "Srli", "Srai"} => Sets(Rv!AluRegister(i.op, a, i.shamt))
            /\ i.op \in {"Add", "Sub", "Sll", "Slt", "Sltu", "Xor", "Srl", "Sra", "Or", "And"} =>
                 Sets(Rv!AluRegister(i.op, a, s.regs[i.rs2]))
            /\ i.op = "Ecall" => Is(IF s.handles THEN s ELSE Fails(s, "not_implemented"))
            /\ i.op = "Ebreak" => Is(Fails(s, "breakpoint"))
            /\ i.op = "Unknown" => Is(Fails(s, "invalid"))
<1> DEFINE current == (s.pc - 4) % M
           a == s.regs[i.rs1]
           upper == ValueOf[i.imm \cap Position]
<1>1. i.op = "Lui" => Rv!ExecuteRiscv(s, i) = Rv!WriteReg(s, i.rd, upper)
  <2> SUFFICES ASSUME i.op = "Lui" PROVE Rv!ExecuteRiscv(s, i) = Rv!WriteReg(s, i.rd, upper)
    OBVIOUS
  <2>1. Rv!ExecuteRiscv(s, i) = Rv!WriteReg(s, i.rd, Rv!ValueOf[i.imm \cap Rv!Position])
    BY RvGroups, ZenonT(60) DEF Rv!ExecuteRiscv
  <2> QED BY <2>1, RvModulus
<1>2. i.op = "Auipc" => Rv!ExecuteRiscv(s, i) = Rv!WriteReg(s, i.rd, (current + upper) % M)
  <2> SUFFICES ASSUME i.op = "Auipc"
               PROVE Rv!ExecuteRiscv(s, i) = Rv!WriteReg(s, i.rd, (current + upper) % M)
    OBVIOUS
  <2>1. Rv!ExecuteRiscv(s, i)
          = Rv!WriteReg(s, i.rd, (((s.pc - 4) % Rv!M) + Rv!ValueOf[i.imm \cap Rv!Position]) % Rv!M)
    BY RvGroups, ZenonT(60) DEF Rv!ExecuteRiscv
  <2> QED BY <2>1, RvModulus
<1>3. i.op = "Jal" =>
        Rv!ExecuteRiscv(s, i) = [Rv!WriteReg(s, i.rd, s.pc) EXCEPT !.pc = (current + i.imm) % M]
  <2> SUFFICES ASSUME i.op = "Jal"
               PROVE  Rv!ExecuteRiscv(s, i)
                        = [Rv!WriteReg(s, i.rd, s.pc) EXCEPT !.pc = (current + i.imm) % M]
    OBVIOUS
  <2> DEFINE t == Rv!WriteReg(s, i.rd, s.pc)
  <2>1. Rv!ExecuteRiscv(s, i) = [t EXCEPT !.pc = (((s.pc - 4) % Rv!M) + i.imm) % Rv!M]
    BY RvGroups, ZenonT(60) DEF Rv!ExecuteRiscv
  <2> QED BY <2>1, RvModulus
<1>4. i.op = "Jalr" =>
        Rv!ExecuteRiscv(s, i) = [Rv!WriteReg(s, i.rd, s.pc) EXCEPT
                                  !.pc = (RvAddress(s, i) - (RvAddress(s, i) % 2)) % M]
  <2> SUFFICES ASSUME i.op = "Jalr"
               PROVE  Rv!ExecuteRiscv(s, i)
                        = [Rv!WriteReg(s, i.rd, s.pc) EXCEPT
                            !.pc = (RvAddress(s, i) - (RvAddress(s, i) % 2)) % M]
    OBVIOUS
  <2> DEFINE t == Rv!WriteReg(s, i.rd, s.pc)
             target == (a + i.imm) % Rv!M
  <2>1. Rv!ExecuteRiscv(s, i) = [t EXCEPT !.pc = (target - (target % 2)) % Rv!M]
    BY RvGroups, ZenonT(60) DEF Rv!ExecuteRiscv
  <2> QED BY <2>1, RvModulus DEF RvAddress
<1>5. i.op \in {"Beq", "Bne", "Blt", "Bge", "Bltu", "Bgeu"} =>
        Rv!ExecuteRiscv(s, i) = IF Rv!Taken(i.op, a, s.regs[i.rs2])
                                THEN [s EXCEPT !.pc = (current + i.imm) % M] ELSE s
  <2> SUFFICES ASSUME i.op \in {"Beq", "Bne", "Blt", "Bge", "Bltu", "Bgeu"}
               PROVE  Rv!ExecuteRiscv(s, i) = IF Rv!Taken(i.op, a, s.regs[i.rs2])
                                              THEN [s EXCEPT !.pc = (current + i.imm) % M] ELSE s
    OBVIOUS
  <2>1. i.op \notin {"Lui", "Auipc", "Jal", "Jalr"}
    OBVIOUS
  <2>2. Rv!ExecuteRiscv(s, i) = IF Rv!Taken(i.op, a, s.regs[i.rs2])
           THEN [s EXCEPT !.pc = (((s.pc - 4) % Rv!M) + i.imm) % Rv!M] ELSE s
    BY <2>1, RvGroups, Zenon DEF Rv!ExecuteRiscv
  <2> QED BY <2>2, RvModulus
<1>6. i.op \in RvLoads =>
        Rv!ExecuteRiscv(s, i) = IF Reachable(s, RvAddress(s, i), Rv!Size(i.op))
                                THEN Rv!WriteReg(s, i.rd, RvValue(s, i)) ELSE Fails(s, "fault")
  <2> SUFFICES ASSUME i.op \in RvLoads
               PROVE  Rv!ExecuteRiscv(s, i) = IF Reachable(s, RvAddress(s, i), Rv!Size(i.op))
                                 THEN Rv!WriteReg(s, i.rd, RvValue(s, i)) ELSE Fails(s, "fault")
    OBVIOUS
  <2>1. Rv!ExecuteRiscv(s, i) = Rv!LoadTo(s, i, RvAddress(s, i))
    BY RvGroups, RvModulus, SMT DEF Rv!ExecuteRiscv, RvLoads, RvAddress
  <2> QED BY <2>1, RvWords, RvMemory DEF Rv!LoadTo, RvValue
<1>7. i.op \in RvStores =>
        Rv!ExecuteRiscv(s, i) = Stored(s, RvAddress(s, i), Rv!Size(i.op), RvSource(s, i))
  <2> SUFFICES ASSUME i.op \in RvStores
               PROVE  Rv!ExecuteRiscv(s, i)
                        = Stored(s, RvAddress(s, i), Rv!Size(i.op), RvSource(s, i))
    OBVIOUS
  <2>1. Rv!ExecuteRiscv(s, i) = Rv!StoreFrom(s, i, RvAddress(s, i))
    BY RvGroups, RvModulus, SMT DEF Rv!ExecuteRiscv, RvStores, RvAddress
  <2> QED BY <2>1, RvWords, RvMemory DEF Rv!StoreFrom, RvSource
<1>8. i.op \in {"Addi", "Slti", "Sltiu", "Xori", "Ori", "Andi"} =>
        Rv!ExecuteRiscv(s, i) = Rv!WriteReg(s, i.rd, Rv!AluImmediate(i.op, a, i.imm % M))
  <2> SUFFICES ASSUME i.op \in {"Addi", "Slti", "Sltiu", "Xori", "Ori", "Andi"}
               PROVE  Rv!ExecuteRiscv(s, i)
                        = Rv!WriteReg(s, i.rd, Rv!AluImmediate(i.op, a, i.imm % M))
    OBVIOUS
  <2>1. i.op \notin {"Lui", "Auipc", "Jal", "Jalr", "Beq", "Bne", "Blt", "Bge", "Bltu", "Bgeu",
                     "Lb", "Lh", "Lw", "Lbu", "Lhu", "Sb", "Sh", "Sw"}
    OBVIOUS
  <2>2. Rv!ExecuteRiscv(s, i) = Rv!WriteReg(s, i.rd, Rv!AluImmediate(i.op, a, i.imm % Rv!M))
    BY <2>1, RvGroups, ZenonT(60) DEF Rv!ExecuteRiscv
  <2> QED BY <2>2, RvModulus
<1>9. i.op \in {"Slli", "Srli", "Srai"} =>
        Rv!ExecuteRiscv(s, i) = Rv!WriteReg(s, i.rd, Rv!AluRegister(i.op, a, i.shamt))
  <2> SUFFICES ASSUME i.op \in {"Slli", "Srli", "Srai"}
               PROVE  Rv!ExecuteRiscv(s, i) = Rv!WriteReg(s, i.rd, Rv!AluRegister(i.op, a, i.shamt))
    OBVIOUS
  <2> QED BY RvGroups, RvWords, SMT DEF Rv!ExecuteRiscv
<1>10. i.op \in {"Add", "Sub", "Sll", "Slt", "Sltu", "Xor", "Srl", "Sra", "Or", "And"} =>
         Rv!ExecuteRiscv(s, i) = Rv!WriteReg(s, i.rd, Rv!AluRegister(i.op, a, s.regs[i.rs2]))
  <2> SUFFICES ASSUME i.op \in {"Add", "Sub", "Sll", "Slt", "Sltu", "Xor", "Srl", "Sra", "Or", "And"}
               PROVE  Rv!ExecuteRiscv(s, i)
                        = Rv!WriteReg(s, i.rd, Rv!AluRegister(i.op, a, s.regs[i.rs2]))
    OBVIOUS
  <2>1. i.op \notin {"Lui", "Auipc", "Jal", "Jalr", "Beq", "Bne", "Blt", "Bge", "Bltu", "Bgeu",
                     "Lb", "Lh", "Lw", "Lbu", "Lhu", "Sb", "Sh", "Sw",
                     "Addi", "Slti", "Sltiu", "Xori", "Ori", "Andi", "Slli", "Srli", "Srai"}
    OBVIOUS
  <2> QED BY <2>1, RvGroups, ZenonT(60) DEF Rv!ExecuteRiscv
<1>11. i.op = "Ecall" => Rv!ExecuteRiscv(s, i) = IF s.handles THEN s ELSE Fails(s, "not_implemented")
  BY RvGroups, RvMemory, SMT DEF Rv!ExecuteRiscv
<1>12. i.op = "Ebreak" => Rv!ExecuteRiscv(s, i) = Fails(s, "breakpoint")
  BY RvGroups, RvMemory, SMT DEF Rv!ExecuteRiscv
<1>13. i.op = "Unknown" => Rv!ExecuteRiscv(s, i) = Fails(s, "invalid")
  BY RvGroups, RvMemory, SMT DEF Rv!ExecuteRiscv
<1> QED BY <1>1, <1>2, <1>3, <1>4, <1>5, <1>6, <1>7, <1>8, <1>9, <1>10, <1>11, <1>12, <1>13

\* Another machine with the same registers writes the same into one.
LEMMA RvWritesAlike ==
  ASSUME NEW w \in RvMachine, NEW X, NEW r, NEW v
  PROVE  /\ Rv!WriteReg([w EXCEPT !.mapped = X], r, v) = [Rv!WriteReg(w, r, v) EXCEPT !.mapped = X]
         /\ Rv!WriteReg(w, r, v).err = w.err
BY DEF Rv!WriteReg, RvMachine

\* An instruction that is no load and no store does not ask which regions are
\* mapped.
LEMMA RvAlike ==
  ASSUME NEW w \in RvMachine, w.err = "ok", NEW X, NEW i \in Rv!Instr,
         i.op \notin RvLoads \cup RvStores
  PROVE  /\ Rv!ExecuteRiscv([w EXCEPT !.mapped = X], i)
              = [Rv!ExecuteRiscv(w, i) EXCEPT !.mapped = X]
         /\ Rv!ExecuteRiscv(w, i).err # "fault"
<1> DEFINE u == [w EXCEPT !.mapped = X]
           t == Rv!ExecuteRiscv(w, i)
           next == (w.pc - 4) % M
           a == w.regs[i.rs1]
           upper == ValueOf[i.imm \cap Position]
           Alike == Rv!ExecuteRiscv(u, i) = [t EXCEPT !.mapped = X] /\ t.err # "fault"
<1>1. u.regs = w.regs /\ u.pc = w.pc /\ u.handles = w.handles /\ RvAddress(u, i) = RvAddress(w, i)
  BY DEF RvMachine, RvAddress
<1> HIDE DEF u
<1>2. ASSUME NEW v, t = Rv!WriteReg(w, i.rd, v), Rv!ExecuteRiscv(u, i) = Rv!WriteReg(u, i.rd, v)
      PROVE  Alike
  BY <1>2, RvWritesAlike DEF u
<1>3. ASSUME NEW pc, t = [Rv!WriteReg(w, i.rd, w.pc) EXCEPT !.pc = pc], i.rd \in Rv!Register,
             Rv!ExecuteRiscv(u, i) = [Rv!WriteReg(u, i.rd, w.pc) EXCEPT !.pc = pc]
      PROVE  Alike
  <2> DEFINE x == Rv!WriteReg(w, i.rd, w.pc)
  <2>1. x \in RvMachine /\ x.err = "ok"
    BY <1>3, RvWriteReg, RvWritesAlike, RvSet
  <2>2. Rv!WriteReg(u, i.rd, w.pc) = [x EXCEPT !.mapped = X]
    BY RvWritesAlike DEF u
  <2>3. t = [x EXCEPT !.pc = pc]
    BY <1>3
  <2> HIDE DEF x, t
  <2>4. [[x EXCEPT !.mapped = X] EXCEPT !.pc = pc] = [[x EXCEPT !.pc = pc] EXCEPT !.mapped = X]
    BY <2>1 DEF RvMachine
  <2>5. [x EXCEPT !.pc = pc].err = "ok"
    BY <2>1 DEF RvMachine
  <2> QED BY <1>3, <2>2, <2>3, <2>4, <2>5
<1> SUFFICES Alike
  BY DEF u
<1> HIDE DEF t
<1>4. CASE i.op = "Lui"
  <2>1. t = Rv!WriteReg(w, i.rd, upper) /\ Rv!ExecuteRiscv(u, i) = Rv!WriteReg(u, i.rd, upper)
    BY <1>4, RvMeaning DEF t
  <2> HIDE DEF upper
  <2> QED BY <1>2, <2>1
<1>5. CASE i.op = "Auipc"
  <2> DEFINE v == (next + upper) % M
  <2>1. t = Rv!WriteReg(w, i.rd, v)
    BY <1>5, RvMeaning DEF t
  <2>2. Rv!ExecuteRiscv(u, i) = Rv!WriteReg(u, i.rd, (((u.pc - 4) % M) + upper) % M)
    BY <1>5, RvMeaning
  <2>3. Rv!ExecuteRiscv(u, i) = Rv!WriteReg(u, i.rd, v)
    BY <1>1, <2>2
  <2> HIDE DEF v
  <2> QED BY <1>2, <2>1, <2>3
<1>6. CASE i.op = "Jal"
  <2> DEFINE v == (next + i.imm) % M
  <2>1. t = [Rv!WriteReg(w, i.rd, w.pc) EXCEPT !.pc = v]
    BY <1>6, RvMeaning DEF t
  <2>2. Rv!ExecuteRiscv(u, i) = [Rv!WriteReg(u, i.rd, u.pc) EXCEPT !.pc = (((u.pc - 4) % M) + i.imm) % M]
    BY <1>6, RvMeaning
  <2>3. Rv!ExecuteRiscv(u, i) = [Rv!WriteReg(u, i.rd, w.pc) EXCEPT !.pc = v]
    BY <1>1, <2>2
  <2>4. i.rd \in Rv!Register
    BY <1>6, RvFields
  <2> HIDE DEF v
  <2> QED BY <1>3, <2>1, <2>3, <2>4
<1>7. CASE i.op = "Jalr"
  <2> DEFINE target == RvAddress(w, i)
             v == (target - (target % 2)) % M
  <2>1. t = [Rv!WriteReg(w, i.rd, w.pc) EXCEPT !.pc = v]
    BY <1>7, RvMeaning DEF t
  <2>2. Rv!ExecuteRiscv(u, i) = [Rv!WriteReg(u, i.rd, u.pc) EXCEPT
                                   !.pc = (RvAddress(u, i) - (RvAddress(u, i) % 2)) % M]
    BY <1>7, RvMeaning
  <2>3. Rv!ExecuteRiscv(u, i) = [Rv!WriteReg(u, i.rd, w.pc) EXCEPT !.pc = v]
    BY <1>1, <2>2
  <2>4. i.rd \in Rv!Register
    BY <1>7, RvFields
  <2> HIDE DEF v
  <2> QED BY <1>3, <2>1, <2>3, <2>4
<1>8. CASE i.op \in {"Beq", "Bne", "Blt", "Bge", "Bltu", "Bgeu"}
  <2> DEFINE taken == Rv!Taken(i.op, a, w.regs[i.rs2])
             v == (next + i.imm) % M
  <2>1. t = IF taken THEN [w EXCEPT !.pc = v] ELSE w
    BY <1>8, RvMeaning DEF t
  <2>2. Rv!ExecuteRiscv(u, i) = IF Rv!Taken(i.op, u.regs[i.rs1], u.regs[i.rs2])
                                THEN [u EXCEPT !.pc = (((u.pc - 4) % M) + i.imm) % M] ELSE u
    BY <1>8, RvMeaning
  <2>3. Rv!ExecuteRiscv(u, i) = IF taken THEN [u EXCEPT !.pc = v] ELSE u
    BY <1>1, <2>2
  <2> HIDE DEF taken, v
  <2> QED BY <2>1, <2>3 DEF RvMachine, u
<1>9. CASE i.op \in {"Addi", "Slti", "Sltiu", "Xori", "Ori", "Andi"}
  <2> DEFINE v == Rv!AluImmediate(i.op, w.regs[i.rs1], i.imm % M)
  <2>1. t = Rv!WriteReg(w, i.rd, v)
    BY <1>9, RvMeaning DEF t
  <2>2. Rv!ExecuteRiscv(u, i) = Rv!WriteReg(u, i.rd, Rv!AluImmediate(i.op, u.regs[i.rs1], i.imm % M))
    BY <1>9, RvMeaning
  <2>3. Rv!ExecuteRiscv(u, i) = Rv!WriteReg(u, i.rd, v)
    BY <1>1, <2>2
  <2> HIDE DEF v
  <2> QED BY <1>2, <2>1, <2>3
<1>10. CASE i.op \in {"Slli", "Srli", "Srai"}
  <2> DEFINE v == Rv!AluRegister(i.op, w.regs[i.rs1], i.shamt)
  <2>1. t = Rv!WriteReg(w, i.rd, v)
    BY <1>10, RvMeaning DEF t
  <2>2. Rv!ExecuteRiscv(u, i) = Rv!WriteReg(u, i.rd, Rv!AluRegister(i.op, u.regs[i.rs1], i.shamt))
    BY <1>10, RvMeaning
  <2>3. Rv!ExecuteRiscv(u, i) = Rv!WriteReg(u, i.rd, v)
    BY <1>1, <2>2
  <2> HIDE DEF v
  <2> QED BY <1>2, <2>1, <2>3
<1>11. CASE i.op \in {"Add", "Sub", "Sll", "Slt", "Sltu", "Xor", "Srl", "Sra", "Or", "And"}
  <2> DEFINE v == Rv!AluRegister(i.op, w.regs[i.rs1], w.regs[i.rs2])
  <2>1. t = Rv!WriteReg(w, i.rd, v)
    BY <1>11, RvMeaning DEF t
  <2>2. Rv!ExecuteRiscv(u, i) = Rv!WriteReg(u, i.rd, Rv!AluRegister(i.op, u.regs[i.rs1], u.regs[i.rs2]))
    BY <1>11, RvMeaning
  <2>3. Rv!ExecuteRiscv(u, i) = Rv!WriteReg(u, i.rd, v)
    BY <1>1, <2>2
  <2> HIDE DEF v
  <2> QED BY <1>2, <2>1, <2>3
<1>12. CASE i.op \in {"Ecall", "Ebreak", "Unknown"}
  <2> DEFINE e == IF i.op = "Ecall" THEN "not_implemented"
                  ELSE IF i.op = "Ebreak" THEN "breakpoint" ELSE "invalid"
  <2>1. t = IF i.op = "Ecall" /\ w.handles THEN w ELSE Fails(w, e)
    BY <1>12, RvMeaning DEF t
  <2>2. Rv!ExecuteRiscv(u, i) = IF i.op = "Ecall" /\ w.handles THEN u ELSE Fails(u, e)
    BY <1>1, <1>12, RvMeaning
  <2>3. e # "fault"
    OBVIOUS
  <2> HIDE DEF e
  <2> QED BY <2>1, <2>2, <2>3 DEF Fails, RvMachine, u
<1> QED BY <1>4, <1>5, <1>6, <1>7, <1>8, <1>9, <1>10, <1>11, <1>12, RvFields DEF RvLoads, RvStores

\* The machine m is what failed tries of instruction i left of the machine s: a
\* store may have stored a part, nothing else has changed.
RvSame(s, m, i) ==
  /\ m.regs = s.regs /\ m.pc = s.pc /\ m.handles = s.handles
  /\ m.mem \in IF i.op \in RvStores
               THEN Attempted(s.mem, RvAddress(s, i), Rv!Size(i.op), RvSource(s, i))
               ELSE {s.mem}

\* What executing instruction i does on a machine w that failed tries have left,
\* f being the machine with all regions mapped.
LEMMA RvTried ==
  ASSUME NEW w \in RvMachine, NEW f \in RvMachine, NEW i \in Rv!Instr,
         w.err = "ok", f.err = "ok", f.mapped = Regions, RvSame(f, w, i)
  PROVE  LET t == Rv!ExecuteRiscv(w, i)
             g == Rv!ExecuteRiscv(f, i)
         IN /\ t.err = "fault" => RvSame(f, t, i)
            /\ t.err # "fault" => t = [g EXCEPT !.mapped = w.mapped]
<1> DEFINE t == Rv!ExecuteRiscv(w, i)
           g == Rv!ExecuteRiscv(f, i)
           at == RvAddress(f, i)
           n == Rv!Size(i.op)
           v == RvSource(f, i)
           X == w.mapped
<1>1. RvAddress(w, i) = at /\ RvSource(w, i) = v /\ X \in SUBSET Regions
  BY DEF RvSame, RvAddress, RvSource, RvMachine
<1>2. w = [f EXCEPT !.mapped = X, !.mem = w.mem]
  BY DEF RvSame, RvMachine
<1>3. Reachable(w, at, n) => Reachable(f, at, n)
  BY <1>1, ReachableAll
<1>4. CASE i.op \in RvLoads
  <2>1. w.mem = f.mem
    BY <1>4 DEF RvSame, RvLoads, RvStores
  <2>2. RvValue(w, i) = RvValue(f, i)
    BY <1>1, <2>1 DEF RvValue, Loaded
  <2>3. /\ t = IF Reachable(w, at, n) THEN Rv!WriteReg(w, i.rd, RvValue(f, i)) ELSE Fails(w, "fault")
        /\ g = IF Reachable(f, at, n) THEN Rv!WriteReg(f, i.rd, RvValue(f, i)) ELSE Fails(f, "fault")
    BY <1>1, <1>4, <2>2, RvMeaning
  <2>4. w = [f EXCEPT !.mapped = X]
    BY <1>2, <2>1 DEF RvMachine
  <2>5. CASE Reachable(w, at, n)
    <3>1. t = [g EXCEPT !.mapped = X] /\ t.err = "ok"
      BY <1>3, <2>3, <2>4, <2>5, RvWritesAlike
    <3> QED BY <3>1
  <2>6. CASE ~Reachable(w, at, n)
    <3>1. t = Fails(w, "fault")
      BY <2>3, <2>6
    <3>2. t.err = "fault" /\ RvSame(f, t, i)
      BY <3>1 DEF Fails, RvSame, RvMachine
    <3> QED BY <3>2
  <2> QED BY <2>5, <2>6
<1>5. CASE i.op \in RvStores
  <2>1. t = Stored(w, at, n, v) /\ g = Stored(f, at, n, v)
    <3>1. t = Stored(w, RvAddress(w, i), n, RvSource(w, i))
      BY <1>5, RvMeaning
    <3>2. g = Stored(f, at, n, v)
      BY <1>5, RvMeaning
    <3> HIDE DEF t, n, at, v
    <3> QED BY <1>1, <3>1, <3>2
  <2>2. w.mem \in Attempted(f.mem, at, n, v)
    BY <1>5 DEF RvSame
  <2>3. [w EXCEPT !.mem = w.mem] = w /\ f.mem \in [Cells -> Byte]
    BY DEF RvMachine
  <2>4. n \in {1, 2, 4} /\ v \in Int
    <3>1. n \in {1, 2, 4} /\ f.regs[i.rs2] \in Word
      BY <1>5, RvFields, RvSet DEF Rv!Size, RvStores
    <3>2. f.regs[i.rs2] \in Int
      BY <3>1, WordArithmetic
    <3> HIDE DEF n
    <3>3. f.regs[i.rs2] % Span(n) \in Word
      BY <3>1, <3>2, NarrowType
    <3> QED BY <3>1, <3>3, WordArithmetic DEF RvSource, n
  <2> HIDE DEF n, at, v, t, g
  <2>5. CASE Reachable(w, at, n)
    <3>1. t = [w EXCEPT !.mem = Filled(f.mem, at, n, v)]
      BY <1>1, <2>1, <2>2, <2>3, <2>4, <2>5, StoreTried
    <3>2. g = [f EXCEPT !.mem = Filled(f.mem, at, n, v)]
      BY <1>3, <2>1, <2>5 DEF Stored
    <3>3. t = [g EXCEPT !.mapped = X] /\ t.err = "ok"
      BY <1>2, <3>1, <3>2 DEF RvMachine
    <3> QED BY <3>3 DEF t, g
  <2>6. CASE ~Reachable(w, at, n)
    <3>1. PICK x \in Attempted(f.mem, at, n, v) : t = Faulted(w, x)
      <4>1. \/ Reachable(w, at, n)
            \/ \E x \in Attempted(f.mem, at, n, v) :
                   Stored(w, at, n, v) = Faulted(w, x)
        BY <1>1, <2>2, <2>3, <2>4, StoreTried
      <4> QED BY <2>1, <2>6, <4>1
    <3>2. t.err = "fault" /\ t.regs = w.regs /\ t.pc = w.pc /\ t.handles = w.handles /\ t.mem = x
      BY <3>1 DEF Faulted, Fails, RvMachine
    <3>3. RvSame(f, t, i)
      BY <1>5, <3>1, <3>2 DEF RvSame, at, n, v
    <3> QED BY <3>2, <3>3 DEF t, g
  <2> QED BY <2>5, <2>6
<1>6. CASE i.op \notin RvLoads \cup RvStores
  <2>1. w = [f EXCEPT !.mapped = X]
    BY <1>2, <1>6 DEF RvSame, RvMachine
  <2>2. t = [g EXCEPT !.mapped = X] /\ g.err # "fault" /\ g \in RvMachine
    <3>1. Rv!ExecuteRiscv([f EXCEPT !.mapped = X], i) = [g EXCEPT !.mapped = X] /\ g.err # "fault"
      BY <1>6, RvAlike
    <3>2. g \in RvMachine
      BY RvExecutes
    <3> HIDE DEF g, X
    <3> QED BY <2>1, <3>1, <3>2
  <2> HIDE DEF t, g
  <2>3. t.err # "fault"
    BY <2>2 DEF RvMachine
  <2> QED BY <2>2, <2>3 DEF t, g
<1> QED BY <1>4, <1>5, <1>6

\* Trying an instruction again faults and leaves what the tries before it left,
\* or ends like the instruction with all regions mapped.
LEMMA RvTries ==
  ASSUME NEW s \in RvMachine, NEW m \in RvMachine, NEW raw \in SUBSET (0 .. 31),
         m.err = "ok", RvSame(s, m, Rv!DecodeRiscv(raw))
  PROVE  LET T == Rv!RiscvStep(m, raw)
             full == Rv!RiscvStep(Mapped(s), raw)
         IN /\ T.err = "fault" => RvSame(s, T, Rv!DecodeRiscv(raw))
            /\ T.err # "fault" => T = [full EXCEPT !.mapped = m.mapped]
<1> DEFINE i == Rv!DecodeRiscv(raw)
           next == (s.pc + 4) % M
           w == [m EXCEPT !.pc = next]
           f == [Mapped(s) EXCEPT !.pc = next]
           t == Rv!ExecuteRiscv(w, i)
           g == Rv!ExecuteRiscv(f, i)
<1>1. next \in Word
  <2>1. s.pc \in Word /\ s.pc \in Int
    BY RvSet, WordArithmetic
  <2>2. s.pc + 4 \in Int
    BY <2>1
  <2> QED BY <2>2, WordType
<1> HIDE DEF next, i
<1>2. w \in RvMachine /\ f \in RvMachine /\ i \in Rv!Instr
  BY <1>1, RvDecodes DEF RvMachine, Mapped, i, Errors
<1>3. w.err = "ok" /\ f.err = "ok" /\ f.mapped = Regions /\ w.mapped = m.mapped
  BY DEF RvMachine, Mapped
<1>4. RvAddress(f, i) = RvAddress(s, i) /\ RvSource(f, i) = RvSource(s, i)
      /\ f.mem = s.mem /\ f.regs = s.regs /\ f.handles = s.handles
  BY DEF RvAddress, RvSource, Mapped, RvMachine
<1>5. m.pc = s.pc /\ m.regs = s.regs /\ m.handles = s.handles /\ w.pc = f.pc
      /\ w.mem = m.mem /\ w.regs = m.regs /\ w.handles = m.handles
  BY DEF RvSame, Mapped, RvMachine
<1>6. RvSame(f, w, i)
  BY <1>4, <1>5 DEF RvSame, i
<1>7. /\ t.err = "fault" => RvSame(f, t, i)
      /\ t.err # "fault" => t = [g EXCEPT !.mapped = m.mapped]
  <2> HIDE DEF w, f
  <2> QED BY <1>2, <1>3, <1>6, RvTried
<1>8. t \in RvMachine /\ g \in RvMachine
  BY <1>2, RvExecutes
<1>9. /\ Rv!RiscvStep(m, raw) = IF t.err = "ok" THEN t ELSE [t EXCEPT !.pc = s.pc]
      /\ Rv!RiscvStep(Mapped(s), raw) = IF g.err = "ok" THEN g ELSE [g EXCEPT !.pc = s.pc]
  <2>1. Mapped(s).pc = s.pc
    BY DEF Mapped, RvMachine
  <2> QED BY <1>5, <2>1, RvModulus DEF Rv!RiscvStep, Rv!Rewound, i, next
<1> HIDE DEF t, g, w, f
<1>10. CASE t.err = "fault"
  <2>1. Rv!RiscvStep(m, raw) = [t EXCEPT !.pc = s.pc]
    BY <1>9, <1>10
  <2>2. RvSame(f, t, i)
    BY <1>7, <1>10
  <2>3. RvSame(s, [t EXCEPT !.pc = s.pc], i)
    BY <1>4, <1>8, <2>2 DEF RvSame, RvMachine
  <2>4. [t EXCEPT !.pc = s.pc].err = "fault"
    BY <1>8, <1>10 DEF RvMachine
  <2> QED BY <2>1, <2>3, <2>4 DEF i
<1>11. CASE t.err # "fault"
  <2>1. t = [g EXCEPT !.mapped = m.mapped] /\ t.err = g.err
    BY <1>7, <1>8, <1>11 DEF RvMachine
  <2>2. [[g EXCEPT !.mapped = m.mapped] EXCEPT !.pc = s.pc]
          = [[g EXCEPT !.pc = s.pc] EXCEPT !.mapped = m.mapped]
    BY <1>8 DEF RvMachine
  <2>3. Rv!RiscvStep(m, raw) = [Rv!RiscvStep(Mapped(s), raw) EXCEPT !.mapped = m.mapped]
    BY <1>9, <2>1, <2>2
  <2>4. Rv!RiscvStep(m, raw).err = t.err
    BY <1>8, <1>9 DEF RvMachine
  <2> QED BY <1>11, <2>3, <2>4
<1> QED BY <1>10, <1>11

\* What a try left in the memory is what was there or what the instruction
\* with all regions mapped leaves.
LEMMA RvPart ==
  ASSUME NEW s \in RvMachine, NEW m, NEW raw \in SUBSET (0 .. 31),
         RvSame(s, m, Rv!DecodeRiscv(raw))
  PROVE  m.mem = s.mem \/ m.mem = Rv!RiscvStep(Mapped(s), raw).mem
<1> DEFINE i == Rv!DecodeRiscv(raw)
           f == [Mapped(s) EXCEPT !.pc = (s.pc + 4) % M]
           g == Rv!ExecuteRiscv(f, i)
           at == RvAddress(s, i)
           n == Rv!Size(i.op)
           v == RvSource(s, i)
<1> SUFFICES ASSUME m.mem # s.mem PROVE m.mem = Rv!RiscvStep(Mapped(s), raw).mem
  OBVIOUS
<1>1. i.op \in RvStores /\ m.mem \in Attempted(s.mem, at, n, v)
  BY DEF RvSame
<1> HIDE DEF i
<1>2. f.mapped = Regions /\ f.mem = s.mem /\ RvAddress(f, i) = at /\ RvSource(f, i) = v
  BY DEF Mapped, RvMachine, RvAddress, RvSource
<1>3. g = Stored(f, at, n, v)
  <2>1. g = Stored(f, RvAddress(f, i), n, RvSource(f, i))
    BY <1>1, RvMeaning
  <2> HIDE DEF f, g, n, at, v
  <2> QED BY <1>2, <2>1
<1>4. g = Faulted(f, m.mem)
  <2> HIDE DEF f, g, n, at, v
  <2> QED BY <1>1, <1>2, <1>3, AttemptIsPart
<1>5. g.mem = m.mem /\ g.err = "fault"
  BY <1>4 DEF Faulted, Fails, Mapped, RvMachine
<1>6. Rv!RiscvStep(Mapped(s), raw) = IF g.err = "ok" THEN g ELSE [g EXCEPT !.pc = s.pc]
  <2>1. Mapped(s).pc = s.pc
    BY DEF Mapped, RvMachine
  <2> QED BY <2>1, RvModulus DEF Rv!RiscvStep, Rv!Rewound, i
<1>7. [g EXCEPT !.pc = s.pc].mem = g.mem
  <2> HIDE DEF g
  <2> QED OBVIOUS
<1> HIDE DEF g
<1> QED BY <1>5, <1>6, <1>7

-----------------------------------------------------------------------------
(* A step of RV32I                                                         *)

\* The word that an RV32I machine is on.
RvWord(m) == Prog.code[(m.pc \div 4) + 1]

\* A step of an RV32I program is one on its word.
LEMMA RvStepped ==
  ASSUME ProgramOK, Prog.arch = "riscv", NEW m \in RvMachine, InCode(m)
  PROVE  /\ Stepped(m) = Rv!RiscvStep(m, RvWord(m))
         /\ Instruction(m) = Rv!DecodeRiscv(RvWord(m))
         /\ RvWord(m) \in SUBSET (0 .. 31)
         /\ Instruction(m) \in Rv!Instr
<1>1. Stepped(m) = Rv!RiscvStep(m, RvWord(m)) /\ Instruction(m) = Rv!DecodeRiscv(RvWord(m))
  BY DEF Stepped, Instruction, RvWord, Pc
<1>2. m.pc \in Word
  BY RvSet
<1>3. Prog.code \in Seq(SUBSET (0 .. 31)) /\ Len(Prog.code) \in Nat
      /\ DOMAIN Prog.code = 1 .. Len(Prog.code)
  BY DEF ProgramOK
<1>4. m.pc < 4 * Len(Prog.code)
  BY DEF InCode, Pc, Bytes
<1>5. (m.pc \div 4) + 1 \in DOMAIN Prog.code
  BY <1>2, <1>3, <1>4, WordIndex
<1>6. RvWord(m) \in SUBSET (0 .. 31)
  BY <1>3, <1>5, ElementType DEF RvWord
<1> QED BY <1>1, <1>6, RvDecodes

\* A try on what the tries before it left.
LEMMA RvTryAgain ==
  ASSUME ProgramOK, Prog.arch = "riscv", NEW s \in RvMachine, InCode(s), NEW m \in RvMachine,
         m.err = "ok", RvSame(s, m, Instruction(s))
  PROVE  /\ Stepped(m) \in RvMachine
         /\ Stepped(m).err = "fault" => RvSame(s, Stepped(m), Instruction(s))
         /\ Stepped(m).err # "fault" =>
              Stepped(m) = [Stepped(Mapped(s)) EXCEPT !.mapped = Stepped(m).mapped]
<1> DEFINE raw == RvWord(s)   full == Mapped(s)
<1>1. m.pc = s.pc /\ full.pc = s.pc /\ full \in RvMachine
  BY DEF RvSame, Mapped, RvMachine, Errors
<1> HIDE DEF full
<1>2. InCode(m) /\ InCode(full) /\ RvWord(m) = raw /\ RvWord(full) = raw
  BY <1>1 DEF InCode, Pc, RvWord
<1>3. Stepped(m) = Rv!RiscvStep(m, raw) /\ Stepped(full) = Rv!RiscvStep(full, raw)
      /\ Instruction(s) = Rv!DecodeRiscv(raw) /\ raw \in SUBSET (0 .. 31)
  <2> HIDE DEF raw
  <2> QED BY <1>1, <1>2, RvStepped DEF raw
<1> HIDE DEF raw
<1>4. Stepped(m) \in RvMachine /\ Stepped(full) \in RvMachine
  BY <1>1, <1>3, RvSteps
<1>5. /\ Stepped(m).err = "fault" => RvSame(s, Stepped(m), Instruction(s))
      /\ Stepped(m).err # "fault" => Stepped(m) = [Stepped(full) EXCEPT !.mapped = m.mapped]
  BY <1>3, RvTries DEF full
<1>6. [Stepped(full) EXCEPT !.mapped = m.mapped].mapped = m.mapped
  BY <1>4 DEF RvMachine
<1> QED BY <1>4, <1>5, <1>6 DEF full

-----------------------------------------------------------------------------
(* ARM                                                                     *)

\* The machine w with the regions X mapped.
Sees(w, X) == [w EXCEPT !.mapped = X]

\* A machine, whatever its fields hold.
ArmShape(w) ==
  w \in [mem : {w.mem}, mapped : {w.mapped}, handles : {w.handles}, err : {w.err},
         regs : {w.regs}, cpsr : {w.cpsr}, spsr : {w.spsr}, lr : {w.lr}]

\* The instruction made of u what it made of w, and it is no fault.
ArmAlike(u, w, X) == u = Sees(w, X) /\ w.err # "fault" /\ ArmShape(w)

\* A machine has that shape.
LEMMA ArmShaped ==
  ASSUME NEW T, NEW w \in ArmMachine(T)
  PROVE  ArmShape(w)
BY DEF ArmShape, ArmMachine

\* Only the mapped regions differ.
LEMMA ArmSeen ==
  ASSUME NEW w, NEW X, ArmShape(w)
  PROVE  /\ Sees(w, X).regs = w.regs /\ Sees(w, X).cpsr = w.cpsr /\ Sees(w, X).spsr = w.spsr
         /\ Sees(w, X).lr = w.lr /\ Sees(w, X).handles = w.handles /\ Sees(w, X).err = w.err
         /\ Sees(w, X).mem = w.mem /\ Sees(w, X).mapped = X /\ ArmShape(Sees(w, X))
BY DEF ArmShape, Sees

\* What an instruction reads of its registers and flags does not depend on the
\* rest of the machine.
LEMMA ArmReadsSame ==
  ASSUME NEW u, NEW w, u.regs = w.regs, u.cpsr = w.cpsr
  PROVE  /\ \A r : Arm!Reg(u, r) = Arm!Reg(w, r)
         /\ Arm!Carry(u) = Arm!Carry(w)
         /\ \A o : Arm!EvaluateOperand2(u, o) = Arm!EvaluateOperand2(w, o)
         /\ \A i : Arm!Saved(u, i) = Arm!Saved(w, i)
<1>2. \A r : Arm!Reg(u, r) = Arm!Reg(w, r)
  BY DEF Arm!Reg
<1>3. Arm!Carry(u) = Arm!Carry(w)
  BY DEF Arm!Carry
<1>4. \A o : Arm!EvaluateOperand2(u, o) = Arm!EvaluateOperand2(w, o)
  <2> SUFFICES ASSUME NEW o PROVE Arm!EvaluateOperand2(u, o) = Arm!EvaluateOperand2(w, o)
    OBVIOUS
  <2>1. CASE "val" \in DOMAIN o
    BY <1>3, <2>1 DEF Arm!EvaluateOperand2
  <2>2. CASE "val" \notin DOMAIN o
    <3> DEFINE Amount(x) == IF "rs" \in DOMAIN o.shift THEN Arm!Reg(x, o.shift.rs) % (8 * Arm!Width)
                            ELSE o.shift.amount
               Value(x) == IF Amount(x) = 0
                           THEN Arm!ShiftByZero(Arm!Reg(x, o.rm), o.shift.shift_type, Arm!Carry(x))
                           ELSE Arm!ShiftBy(Arm!Reg(x, o.rm), o.shift.shift_type, Amount(x))
    <3>1. Arm!EvaluateOperand2(u, o) = Value(u) /\ Arm!EvaluateOperand2(w, o) = Value(w)
      BY <2>2 DEF Arm!EvaluateOperand2
    <3>2. Amount(u) = Amount(w)
      BY <1>2
    <3>3. Value(u) = Value(w)
      <4> HIDE DEF Amount
      <4> QED BY <1>2, <1>3, <3>2
    <3> QED BY <3>1, <3>3
  <2> QED BY <2>1, <2>2
<1>5. \A i : Arm!Saved(u, i) = Arm!Saved(w, i)
  BY DEF Arm!Saved
<1> QED BY <1>2, <1>3, <1>4, <1>5

\* So it does not depend on the mapped regions.
LEMMA ArmReadsAlike ==
  ASSUME NEW w, NEW X, ArmShape(w)
  PROVE  /\ \A r : Arm!Reg(Sees(w, X), r) = Arm!Reg(w, r)
         /\ Arm!Carry(Sees(w, X)) = Arm!Carry(w)
         /\ \A o : Arm!EvaluateOperand2(Sees(w, X), o) = Arm!EvaluateOperand2(w, o)
         /\ \A i : Arm!Saved(Sees(w, X), i) = Arm!Saved(w, i)
<1> DEFINE u == Sees(w, X)
<1>1. u.regs = w.regs /\ u.cpsr = w.cpsr
  BY ArmSeen
<1> HIDE DEF u
<1> QED BY <1>1, ArmReadsSame DEF u

\* What it writes is the same too.
LEMMA ArmWritesAlike ==
  ASSUME NEW w, NEW X, ArmShape(w), w.err # "fault"
  PROVE  /\ ArmAlike(Sees(w, X), w, X)
         /\ \A r, v : ArmAlike(Arm!Put(Sees(w, X), r, v), Arm!Put(w, r, v), X)
         /\ \A f : ArmAlike([Sees(w, X) EXCEPT !.cpsr.flags = f], [w EXCEPT !.cpsr.flags = f], X)
         /\ \A c : ArmAlike([Sees(w, X) EXCEPT !.cpsr = c], [w EXCEPT !.cpsr = c], X)
         /\ \A b, c : ArmAlike([Sees(w, X) EXCEPT !.spsr[b] = c], [w EXCEPT !.spsr[b] = c], X)
         /\ \A f, g : ArmAlike([Sees(w, X) EXCEPT !.cpsr.flags = f, !.regs = g],
                               [w EXCEPT !.cpsr.flags = f, !.regs = g], X)
         /\ \A e : e # "fault" => ArmAlike(Fails(Sees(w, X), e), Fails(w, e), X)
<1>1. ArmAlike(Sees(w, X), w, X)
  BY DEF ArmAlike
<1>2. ASSUME NEW r, NEW v PROVE ArmAlike(Arm!Put(Sees(w, X), r, v), Arm!Put(w, r, v), X)
  BY DEF ArmAlike, Sees, ArmShape, Arm!Put
<1>3. ASSUME NEW f PROVE ArmAlike([Sees(w, X) EXCEPT !.cpsr.flags = f], [w EXCEPT !.cpsr.flags = f], X)
  BY DEF ArmAlike, Sees, ArmShape
<1>4. ASSUME NEW c PROVE ArmAlike([Sees(w, X) EXCEPT !.cpsr = c], [w EXCEPT !.cpsr = c], X)
  BY DEF ArmAlike, Sees, ArmShape
<1>5. ASSUME NEW b, NEW c
      PROVE  ArmAlike([Sees(w, X) EXCEPT !.spsr[b] = c], [w EXCEPT !.spsr[b] = c], X)
  BY DEF ArmAlike, Sees, ArmShape
<1>6. ASSUME NEW f, NEW g
      PROVE  ArmAlike([Sees(w, X) EXCEPT !.cpsr.flags = f, !.regs = g],
                      [w EXCEPT !.cpsr.flags = f, !.regs = g], X)
  BY DEF ArmAlike, Sees, ArmShape
<1>7. ASSUME NEW e, e # "fault" PROVE ArmAlike(Fails(Sees(w, X), e), Fails(w, e), X)
  BY <1>7 DEF ArmAlike, Sees, ArmShape, Fails
<1> QED BY <1>1, <1>2, <1>3, <1>4, <1>5, <1>6, <1>7

\* Data processing.
LEMMA ArmDataAlike ==
  ASSUME NEW w, NEW X, NEW i, ArmShape(w), w.err # "fault"
  PROVE  ArmAlike(Arm!DataProcessing(Sees(w, X), i), Arm!DataProcessing(w, i), X)
<1> DEFINE u == Sees(w, X)
           Out(s) == LET a == Arm!Reg(s, i.rn)
                         op2 == Arm!EvaluateOperand2(s, i.op2)
                     IN IF i.op \in {"Sub", "Rsb", "Add", "Adc", "Sbc", "Rsc", "Cmp", "Cmn"}
                        THEN Arm!Arithmetic(s, i, s.cpsr.flags, a, op2.val)
                        ELSE Arm!Logic(s, i, a, op2)
           Regs(s) == IF i.op \in {"Tst", "Teq", "Cmp", "Cmn"} THEN s.regs
                      ELSE [s.regs EXCEPT ![i.rd] = Out(s).res]
<1>1. u.regs = w.regs /\ u.cpsr = w.cpsr
  BY ArmSeen
<1>2. /\ \A r : Arm!Reg(u, r) = Arm!Reg(w, r)
      /\ Arm!Carry(u) = Arm!Carry(w)
      /\ \A o : Arm!EvaluateOperand2(u, o) = Arm!EvaluateOperand2(w, o)
  BY ArmReadsAlike
<1>3. /\ Arm!DataProcessing(u, i) = [u EXCEPT !.cpsr.flags = Out(u).flags, !.regs = Regs(u)]
      /\ Arm!DataProcessing(w, i) = [w EXCEPT !.cpsr.flags = Out(w).flags, !.regs = Regs(w)]
  BY DEF Arm!DataProcessing
<1> HIDE DEF u
<1>4. \A a, b : Arm!Arithmetic(u, i, u.cpsr.flags, a, b) = Arm!Arithmetic(w, i, w.cpsr.flags, a, b)
  BY <1>1, <1>2 DEF Arm!Arithmetic
<1>5. \A a, op2 : Arm!Logic(u, i, a, op2) = Arm!Logic(w, i, a, op2)
  BY <1>1 DEF Arm!Logic
<1>6. Out(u) = Out(w)
  BY <1>1, <1>2, <1>4, <1>5
<1>7. Regs(u) = Regs(w)
  <2> HIDE DEF Out
  <2> QED BY <1>1, <1>6
<1> HIDE DEF Out, Regs
<1>8. Arm!DataProcessing(u, i) = [u EXCEPT !.cpsr.flags = Out(w).flags, !.regs = Regs(w)]
  BY <1>3, <1>6, <1>7
<1>9. ArmAlike([u EXCEPT !.cpsr.flags = Out(w).flags, !.regs = Regs(w)],
               [w EXCEPT !.cpsr.flags = Out(w).flags, !.regs = Regs(w)], X)
  <2> DEFINE f == Out(w).flags   g == Regs(w)
  <2> HIDE DEF f, g
  <2>1. ArmAlike([u EXCEPT !.cpsr.flags = f, !.regs = g],
                 [w EXCEPT !.cpsr.flags = f, !.regs = g], X)
    BY ArmWritesAlike DEF u
  <2> QED BY <2>1 DEF f, g
<1>10. ArmAlike(Arm!DataProcessing(u, i), Arm!DataProcessing(w, i), X)
  BY <1>3, <1>8, <1>9, Zenon
<1> QED BY <1>10 DEF u

\* The moves, the reversals and the extensions.
LEMMA ArmPutsAlike ==
  ASSUME NEW w, NEW X, NEW i, ArmShape(w), w.err # "fault"
  PROVE  /\ ArmAlike(Arm!Move(Sees(w, X), i), Arm!Move(w, i), X)
         /\ ArmAlike(Arm!Reversal(Sees(w, X), i), Arm!Reversal(w, i), X)
         /\ ArmAlike(Arm!Extension(Sees(w, X), i), Arm!Extension(w, i), X)
         /\ ArmAlike(Arm!Mrs(Sees(w, X), i), Arm!Mrs(w, i), X)
<1> DEFINE u == Sees(w, X)
<1>1. u.regs = w.regs /\ u.cpsr = w.cpsr /\ u.spsr = w.spsr
  BY ArmSeen
<1>2. /\ \A r : Arm!Reg(u, r) = Arm!Reg(w, r)
      /\ Arm!Saved(u, i) = Arm!Saved(w, i)
  BY ArmReadsAlike
<1>3. \A r, v : ArmAlike(Arm!Put(u, r, v), Arm!Put(w, r, v), X)
  BY ArmWritesAlike
<1> HIDE DEF u
<1>4. ArmAlike(Arm!Move(u, i), Arm!Move(w, i), X)
  BY <1>2, <1>3 DEF Arm!Move
<1>5. ArmAlike(Arm!Reversal(u, i), Arm!Reversal(w, i), X)
  <2> DEFINE Low(s) == Arm!SwapBytes(Arm!Reg(s, i.rm) % Arm!Span(2), 2)
             Value(s) == CASE i.op = "Rev" -> Arm!SwapBytes(Arm!Reg(s, i.rm), 4)
                           [] i.op = "Rev16" -> Low(s) + Arm!Span(2)
                                * Arm!SwapBytes(Arm!Reg(s, i.rm) \div Arm!Span(2), 2)
                           [] i.op = "Revsh" -> Arm!SignExtended(Low(s), 2)
                           [] i.op = "Clz" ->
                                Arm!Cardinality({k \in Arm!Position : Arm!Reg(s, i.rm) < 2^k})
  <2>1. Arm!Reversal(u, i) = Arm!Put(u, i.rd, Value(u)) /\ Arm!Reversal(w, i) = Arm!Put(w, i.rd, Value(w))
    BY DEF Arm!Reversal
  <2>2. Value(u) = Value(w)
    <3>1. Low(u) = Low(w) /\ Arm!Reg(u, i.rm) = Arm!Reg(w, i.rm)
      BY <1>2
    <3> HIDE DEF Low
    <3> QED BY <3>1, Zenon
  <2> HIDE DEF Value
  <2> QED BY <1>3, <2>1, <2>2
<1>6. ArmAlike(Arm!Extension(u, i), Arm!Extension(w, i), X)
  <2> DEFINE Rotated(s) == Arm!RotatedRight(Arm!Reg(s, i.rm), i.rot * ByteBits)
             Part(s) == CASE i.op = "Sxtb" -> Arm!SignExtended(Rotated(s), 1)
                          [] i.op = "Sxth" -> Arm!SignExtended(Rotated(s), 2)
                          [] i.op = "Uxtb" -> Rotated(s) % Arm!Span(1)
                          [] i.op = "Uxth" -> Rotated(s) % Arm!Span(2)
             n == CHOOSE n \in i.rn : TRUE
             Value(s) == IF i.rn = {} THEN Part(s) ELSE (Arm!Reg(s, n) + Part(s)) % Arm!M
  <2>1. Arm!Extension(u, i) = Arm!Put(u, i.rd, Value(u)) /\ Arm!Extension(w, i) = Arm!Put(w, i.rd, Value(w))
    BY DEF Arm!Extension
  <2>2. Part(u) = Part(w)
    <3>1. Rotated(u) = Rotated(w)
      BY <1>2
    <3> HIDE DEF Rotated
    <3> QED BY <3>1
  <2>3. Value(u) = Value(w)
    <3> HIDE DEF Part, n
    <3> QED BY <1>2, <2>2
  <2> HIDE DEF Value
  <2> QED BY <1>3, <2>1, <2>3
<1>7. ArmAlike(Arm!Mrs(u, i), Arm!Mrs(w, i), X)
  BY <1>1, <1>2, <1>3, Zenon DEF Arm!Mrs
<1> QED BY <1>4, <1>5, <1>6, <1>7 DEF u

\* MSR.
LEMMA ArmMsrAlike ==
  ASSUME NEW w, NEW X, NEW i, ArmShape(w), w.err # "fault"
  PROVE  ArmAlike(Arm!Msr(Sees(w, X), i), Arm!Msr(w, i), X)
<1> DEFINE u == Sees(w, X)
           Val(s) == IF "val" \in DOMAIN i.op2 THEN Arm!StatusOf(i.op2.val)
                     ELSE Arm!EvaluateOperand2(s, i.op2).val
           Merged(val, psr) ==
             [flags |-> {f \in Arm!CpsrBit : IF Arm!FlagNo[f] \div 8 \in i.mask
                                             THEN f \in val.flags ELSE f \in psr.flags},
              mode |-> IF 0 \in i.mask THEN Arm!ModeFrom(Arm!ModeNo[val.mode]) ELSE psr.mode]
           New(s) == IF Arm!Saved(s, i)
                     THEN [s EXCEPT !.spsr[s.cpsr.mode] = Merged(Val(s), s.spsr[s.cpsr.mode])]
                     ELSE [s EXCEPT !.cpsr = Merged(Val(s), s.cpsr)]
<1>1. Arm!Msr(u, i) = New(u) /\ Arm!Msr(w, i) = New(w)
  BY DEF Arm!Msr
<1>2. u.cpsr = w.cpsr /\ u.spsr = w.spsr /\ Arm!Saved(u, i) = Arm!Saved(w, i)
      /\ Arm!EvaluateOperand2(u, i.op2) = Arm!EvaluateOperand2(w, i.op2)
  BY ArmSeen, ArmReadsAlike
<1>3. /\ \A c : ArmAlike([u EXCEPT !.cpsr = c], [w EXCEPT !.cpsr = c], X)
      /\ \A b, c : ArmAlike([u EXCEPT !.spsr[b] = c], [w EXCEPT !.spsr[b] = c], X)
  BY ArmWritesAlike
<1> HIDE DEF u
<1>4. Val(u) = Val(w)
  BY <1>2
<1> HIDE DEF Val, Merged
<1>5. ArmAlike(New(u), New(w), X)
  <2>1. CASE Arm!Saved(w, i)
    BY <1>2, <1>3, <1>4, <2>1
  <2>2. CASE ~Arm!Saved(w, i)
    BY <1>2, <1>3, <1>4, <2>2
  <2> QED BY <2>1, <2>2
<1> HIDE DEF New
<1>6. ArmAlike(Arm!Msr(u, i), Arm!Msr(w, i), X)
  BY <1>1, <1>5
<1> QED BY <1>6 DEF u

\* Writing again to a machine that is alike.
LEMMA ArmAlikePut ==
  ASSUME NEW u, NEW w, NEW X, NEW r, NEW v, ArmAlike(u, w, X)
  PROVE  ArmAlike(Arm!Put(u, r, v), Arm!Put(w, r, v), X)
<1>1. u = Sees(w, X) /\ w.err # "fault" /\ ArmShape(w)
  BY DEF ArmAlike
<1> QED BY <1>1, ArmWritesAlike

\* Setting its flags, and what is read of it.
LEMMA ArmAlikeFlags ==
  ASSUME NEW u, NEW w, NEW X, NEW f, ArmAlike(u, w, X)
  PROVE  /\ ArmAlike([u EXCEPT !.cpsr.flags = f], [w EXCEPT !.cpsr.flags = f], X)
         /\ u.regs = w.regs /\ u.cpsr = w.cpsr /\ \A r : Arm!Reg(u, r) = Arm!Reg(w, r)
<1>1. u = Sees(w, X) /\ w.err # "fault" /\ ArmShape(w)
  BY DEF ArmAlike
<1>2. ArmAlike([u EXCEPT !.cpsr.flags = f], [w EXCEPT !.cpsr.flags = f], X)
  BY <1>1, ArmWritesAlike
<1>3. u.regs = w.regs /\ u.cpsr = w.cpsr
  BY <1>1, ArmSeen
<1>4. \A r : Arm!Reg(u, r) = Arm!Reg(w, r)
  BY <1>1, ArmReadsAlike
<1> QED BY <1>2, <1>3, <1>4

\* The branches.
LEMMA ArmBranchAlike ==
  ASSUME NEW w, NEW X, NEW i, ArmShape(w), w.err # "fault"
  PROVE  /\ ArmAlike(Arm!Branch(Sees(w, X), i), Arm!Branch(w, i), X)
         /\ ArmAlike(Arm!BranchExchange(Sees(w, X), i), Arm!BranchExchange(w, i), X)
<1> DEFINE u == Sees(w, X)
           lu == Arm!Link(u, i)   lw == Arm!Link(w, i)
           Flags(t) == Arm!SetFlag(t.cpsr.flags, "T", Arm!Bit(Arm!Reg(t, i.rm), 0))
           Target(t) == Arm!Reg(t, i.rm) - (Arm!Reg(t, i.rm) % 2)
<1>1. u.regs = w.regs /\ ArmAlike(u, w, X)
  BY ArmSeen, ArmWritesAlike
<1> HIDE DEF u
<1>2. ArmAlike(lu, lw, X)
  BY <1>1, ArmAlikePut DEF Arm!Link
<1>3. /\ Arm!Branch(u, i) = Arm!Put(lu, 15, (u.regs[15] + 4 + i.target) % Arm!M)
      /\ Arm!Branch(w, i) = Arm!Put(lw, 15, (w.regs[15] + 4 + i.target) % Arm!M)
  BY DEF Arm!Branch
<1>4. /\ Arm!BranchExchange(u, i) = Arm!Put([lu EXCEPT !.cpsr.flags = Flags(lu)], 15, Target(lu))
      /\ Arm!BranchExchange(w, i) = Arm!Put([lw EXCEPT !.cpsr.flags = Flags(lw)], 15, Target(lw))
  BY DEF Arm!BranchExchange
<1> HIDE DEF lu, lw
<1>5. ArmAlike(Arm!Branch(u, i), Arm!Branch(w, i), X)
  BY <1>1, <1>2, <1>3, ArmAlikePut
<1>6. Flags(lu) = Flags(lw) /\ Target(lu) = Target(lw)
  BY <1>2, ArmAlikeFlags
<1> HIDE DEF Flags, Target
<1>7. ArmAlike([lu EXCEPT !.cpsr.flags = Flags(lw)], [lw EXCEPT !.cpsr.flags = Flags(lw)], X)
  BY <1>2, ArmAlikeFlags
<1>8. ArmAlike(Arm!BranchExchange(u, i), Arm!BranchExchange(w, i), X)
  BY <1>4, <1>6, <1>7, ArmAlikePut
<1> QED BY <1>5, <1>8 DEF u

\* Setting N and Z.
LEMMA ArmNZAlike ==
  ASSUME NEW u, NEW w, NEW X, NEW i, NEW n, NEW z, ArmAlike(u, w, X)
  PROVE  ArmAlike(Arm!NZ(u, i, n, z), Arm!NZ(w, i, n, z), X)
<1> DEFINE f == Arm!SetFlag(Arm!SetFlag(w.cpsr.flags, "N", n), "Z", z)
<1>1. u.cpsr = w.cpsr
  BY ArmAlikeFlags
<1>2. /\ Arm!NZ(u, i, n, z) = IF i.s THEN [u EXCEPT !.cpsr.flags = f] ELSE u
      /\ Arm!NZ(w, i, n, z) = IF i.s THEN [w EXCEPT !.cpsr.flags = f] ELSE w
  BY <1>1 DEF Arm!NZ
<1> HIDE DEF f
<1>3. ArmAlike([u EXCEPT !.cpsr.flags = f], [w EXCEPT !.cpsr.flags = f], X)
  BY ArmAlikeFlags
<1> QED BY <1>2, <1>3

\* The multiplies.
LEMMA ArmMultiplyAlike ==
  ASSUME NEW w, NEW X, NEW i, ArmShape(w), w.err # "fault"
  PROVE  /\ ArmAlike(Arm!Multiply(Sees(w, X), i), Arm!Multiply(w, i), X)
         /\ ArmAlike(Arm!MultiplyLong(Sees(w, X), i), Arm!MultiplyLong(w, i), X)
<1> DEFINE u == Sees(w, X)
           mul == (Arm!Reg(w, i.rm) * Arm!Reg(w, i.rs)) % Arm!M
           res == IF i.op = "Mla" THEN (mul + Arm!Reg(w, i.rn)) % Arm!M ELSE mul
           a == Arm!Reg(w, i.rm)   b == Arm!Reg(w, i.rs)
           long == IF i.op \in {"Smull", "Smlal"}
                   THEN Arm!Signed(a, Arm!M) * Arm!Signed(b, Arm!M) ELSE a * b
           accum == IF i.op \in {"Umlal", "Smlal"}
                    THEN Arm!Reg(w, i.rd_lo) + Arm!M * Arm!Reg(w, i.rd_hi) ELSE 0
           wide == (long + accum) % (Arm!M * Arm!M)
<1>1. ArmAlike(u, w, X) /\ \A r : Arm!Reg(u, r) = Arm!Reg(w, r)
  BY ArmWritesAlike, ArmReadsAlike
<1> HIDE DEF u
<1>2. /\ Arm!Multiply(u, i) = Arm!NZ(Arm!Put(u, i.rd, res), i, Arm!Negative(res, Arm!M), res = 0)
      /\ Arm!Multiply(w, i) = Arm!NZ(Arm!Put(w, i.rd, res), i, Arm!Negative(res, Arm!M), res = 0)
  BY <1>1 DEF Arm!Multiply
<1>3. /\ Arm!MultiplyLong(u, i)
           = Arm!NZ(Arm!Put(Arm!Put(u, i.rd_lo, wide % Arm!M), i.rd_hi, wide \div Arm!M), i,
                    Arm!Negative(wide, Arm!M * Arm!M), wide = 0)
      /\ Arm!MultiplyLong(w, i)
           = Arm!NZ(Arm!Put(Arm!Put(w, i.rd_lo, wide % Arm!M), i.rd_hi, wide \div Arm!M), i,
                    Arm!Negative(wide, Arm!M * Arm!M), wide = 0)
  BY <1>1 DEF Arm!MultiplyLong
<1> HIDE DEF res, wide
<1>4. ArmAlike(Arm!Multiply(u, i), Arm!Multiply(w, i), X)
  <2>1. ArmAlike(Arm!Put(u, i.rd, res), Arm!Put(w, i.rd, res), X)
    BY <1>1, ArmAlikePut
  <2> QED BY <1>2, <2>1, ArmNZAlike
<1>5. ArmAlike(Arm!MultiplyLong(u, i), Arm!MultiplyLong(w, i), X)
  <2> DEFINE lo == wide % Arm!M   hi == wide \div Arm!M
             pu == Arm!Put(u, i.rd_lo, lo)   pw == Arm!Put(w, i.rd_lo, lo)
  <2> HIDE DEF lo, hi
  <2>1. ArmAlike(pu, pw, X)
    BY <1>1, ArmAlikePut
  <2> HIDE DEF pu, pw
  <2>2. ArmAlike(Arm!Put(pu, i.rd_hi, hi), Arm!Put(pw, i.rd_hi, hi), X)
    BY <2>1, ArmAlikePut
  <2> QED BY <1>3, <2>2, ArmNZAlike DEF lo, hi, pu, pw
<1> QED BY <1>4, <1>5 DEF u

\* The bit fields: SBFX may fail, which is no fault.
LEMMA ArmBitFieldAlike ==
  ASSUME NEW w, NEW X, NEW i, ArmShape(w), w.err # "fault",
         i.op \in {"Bfc", "Bfi", "Ubfx", "Sbfx"}
  PROVE  ArmAlike(Arm!BitField(Sees(w, X), i), Arm!BitField(w, i), X)
<1> DEFINE u == Sees(w, X)
           mask == Arm!ShiftedLeft(Arm!Ones(i.width) % Arm!M, i.lsb)
           clear == Arm!And(w.regs[i.rd], Arm!Not(mask))
           insert == Arm!Or(Arm!And(Arm!Reg(w, i.rd), Arm!Not(mask)),
                            Arm!ShiftedLeft(Arm!And(Arm!Reg(w, i.rn), Arm!Ones(i.width) % Arm!M), i.lsb))
           extract == Arm!And(Arm!ShiftedRight(Arm!Reg(w, i.rn), i.lsb), Arm!Ones(i.width) % Arm!M)
           signed == Arm!ArithmeticRight(
                       Arm!ShiftedLeft(Arm!Reg(w, i.rn), Arm!Width - i.lsb - i.width),
                       Arm!Width - i.width)
<1>1. ArmAlike(u, w, X) /\ u.regs = w.regs /\ \A r : Arm!Reg(u, r) = Arm!Reg(w, r)
  <2>1. ArmAlike(u, w, X)
    BY ArmWritesAlike
  <2> QED BY <2>1, ArmAlikeFlags
<1>2. \A s, e : Arm!Fails(s, e) = Fails(s, e)
  BY ArmMemory
<1>3. ArmAlike(Fails(u, "panic"), Fails(w, "panic"), X)
  <2>1. "panic" # "fault"
    OBVIOUS
  <2> QED BY <2>1, ArmWritesAlike
<1> HIDE DEF u
<1>4. CASE i.op = "Bfc"
  <2>1. Arm!BitField(u, i) = Arm!Put(u, i.rd, clear) /\ Arm!BitField(w, i) = Arm!Put(w, i.rd, clear)
    BY <1>1, <1>4 DEF Arm!BitField
  <2> HIDE DEF clear
  <2> QED BY <1>1, <2>1, ArmAlikePut DEF u
<1>5. CASE i.op = "Bfi"
  <2>1. Arm!BitField(u, i) = Arm!Put(u, i.rd, insert) /\ Arm!BitField(w, i) = Arm!Put(w, i.rd, insert)
    BY <1>1, <1>5 DEF Arm!BitField
  <2> HIDE DEF insert
  <2> QED BY <1>1, <2>1, ArmAlikePut DEF u
<1>6. CASE i.op = "Ubfx"
  <2>1. Arm!BitField(u, i) = Arm!Put(u, i.rd, extract) /\ Arm!BitField(w, i) = Arm!Put(w, i.rd, extract)
    BY <1>1, <1>6 DEF Arm!BitField
  <2> HIDE DEF extract
  <2> QED BY <1>1, <2>1, ArmAlikePut DEF u
<1>7. CASE i.op = "Sbfx"
  <2>1. /\ Arm!BitField(u, i) = IF i.lsb + i.width > Arm!Width THEN Fails(u, "panic")
                                ELSE Arm!Put(u, i.rd, signed)
        /\ Arm!BitField(w, i) = IF i.lsb + i.width > Arm!Width THEN Fails(w, "panic")
                                ELSE Arm!Put(w, i.rd, signed)
    BY <1>1, <1>2, <1>7 DEF Arm!BitField
  <2> HIDE DEF signed
  <2>2. ArmAlike(Arm!Put(u, i.rd, signed), Arm!Put(w, i.rd, signed), X)
    BY <1>1, ArmAlikePut
  <2> QED BY <1>3, <2>1, <2>2 DEF u
<1> QED BY <1>4, <1>5, <1>6, <1>7

\* System calls, breakpoints and unknown instructions.
LEMMA ArmSystemAlike ==
  ASSUME NEW w, NEW X, NEW i, ArmShape(w), w.err # "fault",
         i.op \in {"Svc", "Bkpt", "Nop", "Unknown"}
  PROVE  ArmAlike(Arm!System(Sees(w, X), i), Arm!System(w, i), X)
<1> DEFINE u == Sees(w, X)
<1>1. u.handles = w.handles /\ ArmAlike(u, w, X)
  BY ArmSeen, ArmWritesAlike
<1>2. \A s, e : Arm!Fails(s, e) = Fails(s, e)
  BY ArmMemory
<1>3. \A e : e # "fault" => ArmAlike(Fails(u, e), Fails(w, e), X)
  BY ArmWritesAlike
<1>4. /\ ArmAlike(Fails(u, "not_implemented"), Fails(w, "not_implemented"), X)
      /\ ArmAlike(Fails(u, "breakpoint"), Fails(w, "breakpoint"), X)
      /\ ArmAlike(Fails(u, "invalid"), Fails(w, "invalid"), X)
  <2>1. "not_implemented" # "fault" /\ "breakpoint" # "fault" /\ "invalid" # "fault"
    OBVIOUS
  <2> HIDE DEF u
  <2> QED BY <1>3, <2>1
<1> HIDE DEF u
<1>5. CASE i.op = "Svc"
  BY <1>1, <1>2, <1>4, <1>5 DEF Arm!System, u
<1>6. CASE i.op = "Bkpt"
  BY <1>1, <1>2, <1>4, <1>6 DEF Arm!System, u
<1>7. CASE i.op = "Nop"
  BY <1>1, <1>7 DEF Arm!System, u
<1>8. CASE i.op = "Unknown"
  BY <1>1, <1>2, <1>4, <1>8 DEF Arm!System, u
<1> QED BY <1>5, <1>6, <1>7, <1>8

\* The names of the loads and stores.
ArmTransfers == {"Ldr", "Str", "Ldrb", "Strb", "Ldrh", "Strh", "Ldrsb", "Ldrsh", "Ldm", "Stm"}

\* Whether an instruction is executed.
ArmTaken(s, i) == Arm!CheckCondition(s.cpsr.flags, Arm!InstrCondition(i))

\* What executes which instruction.
LEMMA ArmMeaning ==
  ASSUME NEW s, NEW i
  PROVE  LET e == Arm!ExecuteArm(s, i)
         IN /\ ~ArmTaken(s, i) => e = s
            /\ ArmTaken(s, i) =>
                 /\ i.op \in {"And", "Eor", "Sub", "Rsb", "Add", "Adc", "Sbc", "Rsc", "Tst", "Teq",
                         "Cmp", "Cmn", "Orr", "Mov", "Bic", "Mvn"} => e = Arm!DataProcessing(s, i)
                 /\ i.op \in {"Movw", "Movt"} => e = Arm!Move(s, i)
                 /\ i.op = "Mrs" => e = Arm!Mrs(s, i)
                 /\ i.op = "Msr" => e = Arm!Msr(s, i)
                 /\ i.op \in {"Mul", "Mla"} => e = Arm!Multiply(s, i)
                 /\ i.op \in {"Umull", "Umlal", "Smull", "Smlal"} => e = Arm!MultiplyLong(s, i)
                 /\ i.op \in {"Bfc", "Bfi", "Ubfx", "Sbfx"} => e = Arm!BitField(s, i)
                 /\ i.op \in {"Rev", "Rev16", "Revsh", "Clz"} => e = Arm!Reversal(s, i)
                 /\ i.op \in {"Sxtb", "Sxth", "Uxtb", "Uxth"} => e = Arm!Extension(s, i)
                 /\ i.op \in {"B", "Bl"} => e = Arm!Branch(s, i)
                 /\ i.op \in {"Bx", "Blx"} => e = Arm!BranchExchange(s, i)
                 /\ i.op \in {"Svc", "Bkpt", "Nop", "Unknown"} => e = Arm!System(s, i)
                 /\ i.op \in ArmTransfers => e = Arm!Transfer(s, i)
<1> DEFINE e == Arm!ExecuteArm(s, i)
<1>1. ~ArmTaken(s, i) => e = s
  BY DEF Arm!ExecuteArm, ArmTaken
<1> SUFFICES ASSUME ArmTaken(s, i)
             PROVE  /\ i.op \in {"And", "Eor", "Sub", "Rsb", "Add", "Adc", "Sbc", "Rsc", "Tst", "Teq",
                         "Cmp", "Cmn", "Orr", "Mov", "Bic", "Mvn"} => e = Arm!DataProcessing(s, i)
                    /\ i.op \in {"Movw", "Movt"} => e = Arm!Move(s, i)
                    /\ i.op = "Mrs" => e = Arm!Mrs(s, i)
                    /\ i.op = "Msr" => e = Arm!Msr(s, i)
                    /\ i.op \in {"Mul", "Mla"} => e = Arm!Multiply(s, i)
                    /\ i.op \in {"Umull", "Umlal", "Smull", "Smlal"} => e = Arm!MultiplyLong(s, i)
                    /\ i.op \in {"Bfc", "Bfi", "Ubfx", "Sbfx"} => e = Arm!BitField(s, i)
                    /\ i.op \in {"Rev", "Rev16", "Revsh", "Clz"} => e = Arm!Reversal(s, i)
                    /\ i.op \in {"Sxtb", "Sxth", "Uxtb", "Uxth"} => e = Arm!Extension(s, i)
                    /\ i.op \in {"B", "Bl"} => e = Arm!Branch(s, i)
                    /\ i.op \in {"Bx", "Blx"} => e = Arm!BranchExchange(s, i)
                    /\ i.op \in {"Svc", "Bkpt", "Nop", "Unknown"} => e = Arm!System(s, i)
                    /\ i.op \in ArmTransfers => e = Arm!Transfer(s, i)
  BY <1>1
<1>2. e =
        CASE i.op \in {"And", "Eor", "Sub", "Rsb", "Add", "Adc", "Sbc", "Rsc", "Tst", "Teq",
                       "Cmp", "Cmn", "Orr", "Mov", "Bic", "Mvn"} -> Arm!DataProcessing(s, i)
          [] i.op \in {"Movw", "Movt"} -> Arm!Move(s, i)
          [] i.op = "Mrs" -> Arm!Mrs(s, i)
          [] i.op = "Msr" -> Arm!Msr(s, i)
          [] i.op \in {"Mul", "Mla"} -> Arm!Multiply(s, i)
          [] i.op \in {"Umull", "Umlal", "Smull", "Smlal"} -> Arm!MultiplyLong(s, i)
          [] i.op \in {"Bfc", "Bfi", "Ubfx", "Sbfx"} -> Arm!BitField(s, i)
          [] i.op \in {"Rev", "Rev16", "Revsh", "Clz"} -> Arm!Reversal(s, i)
          [] i.op \in {"Sxtb", "Sxth", "Uxtb", "Uxth"} -> Arm!Extension(s, i)
          [] i.op \in {"B", "Bl"} -> Arm!Branch(s, i)
          [] i.op \in {"Bx", "Blx"} -> Arm!BranchExchange(s, i)
          [] i.op \in {"Svc", "Bkpt", "Nop", "Unknown"} -> Arm!System(s, i)
          [] OTHER -> Arm!Transfer(s, i)
  BY ArmGroups, Zenon DEF Arm!ExecuteArm, ArmTaken
<1> HIDE DEF e
<1>3. i.op \in {"And", "Eor", "Sub", "Rsb", "Add", "Adc", "Sbc", "Rsc", "Tst", "Teq",
                         "Cmp", "Cmn", "Orr", "Mov", "Bic", "Mvn"} => e = Arm!DataProcessing(s, i)
  BY <1>2
<1>4. i.op \in {"Movw", "Movt"} => e = Arm!Move(s, i)
  BY <1>2
<1>5. i.op = "Mrs" => e = Arm!Mrs(s, i)
  BY <1>2
<1>6. i.op = "Msr" => e = Arm!Msr(s, i)
  BY <1>2
<1>7. i.op \in {"Mul", "Mla"} => e = Arm!Multiply(s, i)
  BY <1>2
<1>8. i.op \in {"Umull", "Umlal", "Smull", "Smlal"} => e = Arm!MultiplyLong(s, i)
  BY <1>2
<1>9. i.op \in {"Bfc", "Bfi", "Ubfx", "Sbfx"} => e = Arm!BitField(s, i)
  BY <1>2
<1>10. i.op \in {"Rev", "Rev16", "Revsh", "Clz"} => e = Arm!Reversal(s, i)
  BY <1>2
<1>11. i.op \in {"Sxtb", "Sxth", "Uxtb", "Uxth"} => e = Arm!Extension(s, i)
  BY <1>2
<1>12. i.op \in {"B", "Bl"} => e = Arm!Branch(s, i)
  BY <1>2
<1>13. i.op \in {"Bx", "Blx"} => e = Arm!BranchExchange(s, i)
  BY <1>2
<1>14. i.op \in {"Svc", "Bkpt", "Nop", "Unknown"} => e = Arm!System(s, i)
  BY <1>2
<1>15. i.op \in ArmTransfers => e = Arm!Transfer(s, i)
  BY <1>2 DEF ArmTransfers
<1> QED BY <1>3, <1>4, <1>5, <1>6, <1>7, <1>8, <1>9, <1>10, <1>11, <1>12, <1>13, <1>14, <1>15 DEF e

\* An instruction that is no transfer does not ask which regions are mapped.
LEMMA ArmAlikes ==
  ASSUME NEW w, NEW X, NEW i \in Arm!Instr, ArmShape(w), w.err # "fault",
         i.op \notin ArmTransfers
  PROVE  ArmAlike(Arm!ExecuteArm(Sees(w, X), i), Arm!ExecuteArm(w, i), X)
<1> DEFINE u == Sees(w, X)   eu == Arm!ExecuteArm(u, i)   ew == Arm!ExecuteArm(w, i)
<1>1. ArmTaken(u, i) <=> ArmTaken(w, i)
  BY ArmSeen DEF ArmTaken
<1>2. ArmAlike(u, w, X)
  BY ArmWritesAlike
<1>3. ASSUME ~ArmTaken(w, i) PROVE ArmAlike(eu, ew, X)
  <2>1. eu = u /\ ew = w
    BY <1>1, <1>3, ArmMeaning
  <2> QED BY <1>2, <2>1
<1> SUFFICES ASSUME ArmTaken(w, i) PROVE ArmAlike(eu, ew, X)
  BY <1>3
<1> HIDE DEF eu, ew, u
<1>5. ASSUME i.op \in {"And", "Eor", "Sub", "Rsb", "Add", "Adc", "Sbc", "Rsc", "Tst", "Teq",
                       "Cmp", "Cmn", "Orr", "Mov", "Bic", "Mvn"}
      PROVE  ArmAlike(eu, ew, X)
  BY <1>1, ArmMeaning, <1>5, ArmDataAlike DEF u, eu, ew
<1>6. ASSUME i.op \in {"Movw", "Movt"} PROVE ArmAlike(eu, ew, X)
  BY <1>1, ArmMeaning, <1>6, ArmPutsAlike DEF u, eu, ew
<1>7. ASSUME i.op = "Mrs" PROVE ArmAlike(eu, ew, X)
  BY <1>1, ArmMeaning, <1>7, ArmPutsAlike DEF u, eu, ew
<1>8. ASSUME i.op = "Msr" PROVE ArmAlike(eu, ew, X)
  BY <1>1, ArmMeaning, <1>8, ArmMsrAlike DEF u, eu, ew
<1>9. ASSUME i.op \in {"Mul", "Mla"} PROVE ArmAlike(eu, ew, X)
  BY <1>1, ArmMeaning, <1>9, ArmMultiplyAlike DEF u, eu, ew
<1>10. ASSUME i.op \in {"Umull", "Umlal", "Smull", "Smlal"} PROVE ArmAlike(eu, ew, X)
  BY <1>1, ArmMeaning, <1>10, ArmMultiplyAlike DEF u, eu, ew
<1>11. ASSUME i.op \in {"Bfc", "Bfi", "Ubfx", "Sbfx"} PROVE ArmAlike(eu, ew, X)
  BY <1>1, ArmMeaning, <1>11, ArmBitFieldAlike DEF u, eu, ew
<1>12. ASSUME i.op \in {"Rev", "Rev16", "Revsh", "Clz"} PROVE ArmAlike(eu, ew, X)
  BY <1>1, ArmMeaning, <1>12, ArmPutsAlike DEF u, eu, ew
<1>13. ASSUME i.op \in {"Sxtb", "Sxth", "Uxtb", "Uxth"} PROVE ArmAlike(eu, ew, X)
  BY <1>1, ArmMeaning, <1>13, ArmPutsAlike DEF u, eu, ew
<1>14. ASSUME i.op \in {"B", "Bl"} PROVE ArmAlike(eu, ew, X)
  BY <1>1, ArmMeaning, <1>14, ArmBranchAlike DEF u, eu, ew
<1>15. ASSUME i.op \in {"Bx", "Blx"} PROVE ArmAlike(eu, ew, X)
  BY <1>1, ArmMeaning, <1>15, ArmBranchAlike DEF u, eu, ew
<1>16. ASSUME i.op \in {"Svc", "Bkpt", "Nop", "Unknown"} PROVE ArmAlike(eu, ew, X)
  BY <1>1, ArmMeaning, <1>16, ArmSystemAlike DEF u, eu, ew
<1>17. i.op \notin ArmTransfers
  OBVIOUS
<1> QED BY <1>5, <1>6, <1>7, <1>8, <1>9, <1>10, <1>11, <1>12, <1>13, <1>14, <1>15, <1>16, <1>17,
           ArmKinds DEF ArmTransfers

-----------------------------------------------------------------------------
(* Single transfers of ARM                                                 *)

\* The names of the single loads and stores, and how many bytes they move.
ArmLoads == {"Ldr", "Ldrb", "Ldrh", "Ldrsb", "Ldrsh"}
ArmStores == {"Str", "Strb", "Strh"}
ArmSize(op) == IF op \in {"Ldr", "Str"} THEN 4 ELSE IF op \in {"Ldrb", "Strb", "Ldrsb"} THEN 1 ELSE 2

\* The address, what a load puts in its register, what a store stores, and the
\* write-back that follows a success.
ArmAt(s, i) == Arm!Address(s, i, Arm!Moved(s, i))
ArmValue(s, i) ==
  LET val == Arm!ReadData(s, ArmAt(s, i), ArmSize(i.op))
  IN IF i.op \in {"Ldrsb", "Ldrsh"} THEN Arm!SignExtended(val, ArmSize(i.op)) ELSE val
ArmSource(s, i) == Arm!Swapped(s, Arm!Reg(s, i.rd) % Arm!Span(ArmSize(i.op)), ArmSize(i.op))
ArmThen(t, i, moved) == IF t.err = "ok" THEN Arm!WriteBack(t, i, moved) ELSE t

\* What loads and stores do.
LEMMA ArmSingleMeaning ==
  ASSUME NEW s, NEW i
  PROVE  /\ i.op \in ArmLoads =>
              Arm!Transfer(s, i) = IF Reachable(s, ArmAt(s, i), ArmSize(i.op))
                THEN Arm!WriteBack(Arm!Put(s, i.rd, ArmValue(s, i)), i, Arm!Moved(s, i))
                ELSE Fails(s, "fault")
         /\ i.op \in ArmStores =>
              Arm!Transfer(s, i) = ArmThen(Stored(s, ArmAt(s, i), ArmSize(i.op), ArmSource(s, i)), i,
                                           Arm!Moved(s, i))
<1> DEFINE a == ArmAt(s, i)   moved == Arm!Moved(s, i)
<1>1. i.op \in ArmLoads \cup ArmStores => Arm!Transfer(s, i) = Arm!Single(s, i, a, moved)
  <2> SUFFICES ASSUME i.op \in ArmLoads \cup ArmStores
               PROVE  Arm!Transfer(s, i) = Arm!Single(s, i, a, moved)
    OBVIOUS
  <2>1. i.op # "Ldm" /\ i.op # "Stm"
    BY DEF ArmLoads, ArmStores
  <2> QED BY <2>1 DEF Arm!Transfer, ArmAt
<1> HIDE DEF moved
<1>2. ASSUME i.op \in ArmLoads
      PROVE  Arm!Single(s, i, a, moved) = Arm!Load(s, i, ArmSize(i.op), ArmValue(s, i), a, moved)
  <2>1. CASE i.op = "Ldr"
    BY <2>1 DEF Arm!Single, Arm!Ldr, ArmSize, ArmValue
  <2>2. CASE i.op = "Ldrb"
    BY <2>2 DEF Arm!Single, Arm!Ldrb, ArmSize, ArmValue
  <2>3. CASE i.op = "Ldrh"
    BY <2>3 DEF Arm!Single, Arm!Ldrh, ArmSize, ArmValue
  <2>4. CASE i.op = "Ldrsb"
    BY <2>4 DEF Arm!Single, Arm!Ldrsb, ArmSize, ArmValue
  <2>5. CASE i.op = "Ldrsh"
    BY <2>5 DEF Arm!Single, Arm!Ldrsh, ArmSize, ArmValue
  <2> QED BY <1>2, <2>1, <2>2, <2>3, <2>4, <2>5 DEF ArmLoads
<1>3. ASSUME i.op \in ArmStores
      PROVE  Arm!Single(s, i, a, moved) = Arm!Store(s, i, ArmSize(i.op), a, moved)
  <2>1. CASE i.op = "Str"
    BY <2>1 DEF Arm!Single, Arm!Str, ArmSize
  <2>2. CASE i.op = "Strb"
    BY <2>2 DEF Arm!Single, Arm!Strb, ArmSize
  <2>3. CASE i.op = "Strh"
    BY <2>3 DEF Arm!Single, Arm!Strh, ArmSize
  <2> QED BY <1>3, <2>1, <2>2, <2>3 DEF ArmStores
<1> HIDE DEF a
<1>4. Arm!Load(s, i, ArmSize(i.op), ArmValue(s, i), a, moved)
        = IF Reachable(s, a, ArmSize(i.op))
          THEN Arm!WriteBack(Arm!Put(s, i.rd, ArmValue(s, i)), i, moved) ELSE Fails(s, "fault")
  BY ArmMemory DEF Arm!Load
<1>5. Arm!Store(s, i, ArmSize(i.op), a, moved)
        = ArmThen(Stored(s, a, ArmSize(i.op), ArmSource(s, i)), i, moved)
  <2> DEFINE n == ArmSize(i.op)   v == Arm!Reg(s, i.rd) % Arm!Span(n)
  <2>1. Arm!WriteData(s, a, n, v) = Stored(s, a, n, Arm!Swapped(s, v, n))
    BY ArmMemory DEF Arm!WriteData
  <2>2. Arm!Store(s, i, n, a, moved) = ArmThen(Arm!WriteData(s, a, n, v), i, moved)
    BY DEF Arm!Store, ArmThen
  <2> QED BY <2>1, <2>2 DEF ArmSource
<1> QED BY <1>1, <1>2, <1>3, <1>4, <1>5 DEF a, moved

\* Writing back alike.
LEMMA ArmWriteBackAlike ==
  ASSUME NEW u, NEW w, NEW X, NEW i, NEW moved, ArmAlike(u, w, X)
  PROVE  ArmAlike(Arm!WriteBack(u, i, moved), Arm!WriteBack(w, i, moved), X)
BY ArmAlikePut DEF Arm!WriteBack

\* What failed tries of a single transfer leave of the memory.
ArmLeaves(f, i) ==
  IF i.op \in ArmStores THEN Attempted(f.mem, ArmAt(f, i), ArmSize(i.op), ArmSource(f, i))
  ELSE {f.mem}

\* A store's value has the size of the store.
LEMMA ArmSourceType ==
  ASSUME NEW T, 15 \notin T, NEW s \in ArmMachine(T), NEW i \in Arm!TransferInstr,
         KeepsStatuses(i, T)
  PROVE  ArmSource(s, i) \in Int /\ ArmSize(i.op) \in {1, 2, 4}
<1> DEFINE n == ArmSize(i.op)   v == Arm!Reg(s, i.rd)
<1>1. n \in {1, 2, 4}
  BY DEF ArmSize
<1>2. v \in Word
  BY ArmTransferFields, ArmReg
<1>3. v \in Int
  BY <1>2, WordArithmetic
<1> HIDE DEF n, v
<1>4. v % Span(n) \in 0 .. Span(n) - 1
  BY <1>1, <1>3, NarrowType
<1>5. Arm!Swapped(s, v % Span(n), n) \in 0 .. Span(n) - 1
  BY <1>1, <1>4, ArmSwapped
<1>6. Arm!Swapped(s, v % Span(n), n) \in Int
  BY <1>1, <1>5, BytesAreWords
<1>7. Arm!Span(n) = Span(n)
  BY ArmModulus
<1> QED BY <1>1, <1>6, <1>7 DEF n, v, ArmSource

\* A single transfer that is tried again: it faults and leaves the memory as a
\* try may, or ends as with all regions mapped.
LEMMA ArmSingleTried ==
  ASSUME NEW T, 15 \notin T, NEW w \in ArmMachine(T), NEW f \in ArmMachine(T),
         NEW i \in Arm!TransferInstr, KeepsStatuses(i, T),
         w.err = "ok", f.err = "ok", f.mapped = Regions, w.handles = f.handles,
         w.regs = f.regs, w.cpsr = f.cpsr, w.spsr = f.spsr, w.lr = f.lr, w.mem \in ArmLeaves(f, i)
  PROVE  LET t == Arm!Transfer(w, i)
             g == Arm!Transfer(f, i)
         IN /\ t.err = "fault" => t = Faulted(w, t.mem) /\ t.mem \in ArmLeaves(f, i)
            /\ t.err # "fault" => t = Sees(g, w.mapped)
<1> DEFINE t == Arm!Transfer(w, i)
           g == Arm!Transfer(f, i)
           X == w.mapped
           n == ArmSize(i.op)
           at == ArmAt(f, i)
           v == ArmSource(f, i)
           moved == Arm!Moved(f, i)
<1>1. w.regs = f.regs /\ w.cpsr = f.cpsr /\ X \in SUBSET Regions
  BY DEF ArmMachine
<1>2. /\ \A r : Arm!Reg(w, r) = Arm!Reg(f, r)
      /\ \A o : Arm!EvaluateOperand2(w, o) = Arm!EvaluateOperand2(f, o)
      /\ \A x, m : Arm!Swapped(w, x, m) = Arm!Swapped(f, x, m)
  BY <1>1, ArmReadsSame DEF Arm!Swapped
<1>3. Arm!Moved(w, i) = moved /\ ArmAt(w, i) = at /\ ArmSource(w, i) = v
  BY <1>2 DEF Arm!Moved, ArmAt, Arm!Address, ArmSource
<1>4. Reachable(w, at, n) => Reachable(f, at, n)
  <2> HIDE DEF at, n
  <2> QED BY <1>1, ReachableAll
<1>5. ArmShape(w) /\ ArmShape(f)
  BY ArmShaped
<1>6. i.op \in ArmLoads \cup ArmStores
  BY ArmTransferFields DEF ArmLoads, ArmStores
<1>7. CASE i.op \in ArmLoads
  <2>1. w.mem = f.mem
    BY <1>7 DEF ArmLeaves, ArmLoads, ArmStores
  <2>2. w = Sees(f, X)
    BY <2>1 DEF Sees, ArmMachine
  <2>3. ArmValue(w, i) = ArmValue(f, i)
    <3>1. \A a, m : Arm!Loaded(w, a, m) = Arm!Loaded(f, a, m)
      BY <2>1 DEF Arm!Loaded
    <3>2. Arm!ReadData(w, at, n) = Arm!ReadData(f, at, n)
      BY <1>2, <3>1 DEF Arm!ReadData
    <3> QED BY <1>3, <3>2 DEF ArmValue
  <2> DEFINE val == ArmValue(f, i)
             Loads(s) == Arm!WriteBack(Arm!Put(s, i.rd, val), i, moved)
  <2>4. /\ t = IF Reachable(w, at, n) THEN Loads(w) ELSE Fails(w, "fault")
        /\ g = IF Reachable(f, at, n) THEN Loads(f) ELSE Fails(f, "fault")
    BY <1>3, <1>7, <2>3, ArmSingleMeaning
  <2> HIDE DEF val
  <2>5. ArmAlike(Loads(w), Loads(f), X)
    <3>1. ArmAlike(w, f, X)
      BY <1>5, <2>2 DEF ArmAlike
    <3> QED BY <3>1, ArmAlikePut, ArmWriteBackAlike
  <2> HIDE DEF Loads, t, g
  <2>6. CASE Reachable(w, at, n)
    <3>1. t = Loads(w) /\ g = Loads(f)
      BY <1>4, <2>4, <2>6
    <3>2. t = Sees(g, X) /\ t.err # "fault"
      BY <2>5, <3>1, ArmSeen DEF ArmAlike
    <3> QED BY <3>2 DEF Sees, t, g
  <2>7. CASE ~Reachable(w, at, n)
    <3>1. t = Fails(w, "fault")
      BY <2>4, <2>7
    <3>2. t.err = "fault" /\ t.mem = w.mem /\ Faulted(w, t.mem) = t
      BY <3>1 DEF Fails, Faulted, ArmMachine
    <3> QED BY <3>2 DEF t, g
  <2> QED BY <2>6, <2>7
<1>8. CASE i.op \in ArmStores
  <2>1. t = ArmThen(Stored(w, at, n, v), i, moved) /\ g = ArmThen(Stored(f, at, n, v), i, moved)
    <3> HIDE DEF t, g, at, n, v, moved
    <3>1. Arm!Transfer(w, i) = ArmThen(Stored(w, ArmAt(w, i), ArmSize(i.op), ArmSource(w, i)), i,
                                       Arm!Moved(w, i))
      BY <1>8, ArmSingleMeaning
    <3>2. Arm!Transfer(f, i) = ArmThen(Stored(f, ArmAt(f, i), ArmSize(i.op), ArmSource(f, i)), i,
                                       Arm!Moved(f, i))
      BY <1>8, ArmSingleMeaning
    <3> QED BY <1>3, <3>1, <3>2 DEF t, g, at, n, v, moved
  <2>2. w.mem \in Attempted(f.mem, at, n, v) /\ ArmLeaves(f, i) = Attempted(f.mem, at, n, v)
    BY <1>8 DEF ArmLeaves
  <2>3. [w EXCEPT !.mem = w.mem] = w /\ f.mem \in [Cells -> Byte]
    BY DEF ArmMachine
  <2>4. n \in {1, 2, 4} /\ v \in Int
    BY ArmSourceType
  <2> HIDE DEF n, at, v, moved, t, g
  <2>5. CASE Reachable(w, at, n)
    <3> DEFINE full == Filled(f.mem, at, n, v)
               sw == Stored(w, at, n, v)   sf == Stored(f, at, n, v)
    <3>1. sw = [w EXCEPT !.mem = full]
      BY <1>1, <2>2, <2>3, <2>4, <2>5, StoreTried
    <3>2. sf = [f EXCEPT !.mem = full]
      BY <1>4, <2>5 DEF Stored
    <3> HIDE DEF full, sw, sf
    <3>3. sw = Sees(sf, X) /\ sf.err = "ok" /\ ArmShape(sf) /\ sw.err = "ok"
      BY <3>1, <3>2 DEF Sees, ArmShape, ArmMachine
    <3>4. ArmAlike(sw, sf, X)
      BY <3>3 DEF ArmAlike
    <3>5. t = Arm!WriteBack(sw, i, moved) /\ g = Arm!WriteBack(sf, i, moved)
      BY <2>1, <3>3 DEF ArmThen, sw, sf
    <3>6. ArmAlike(t, g, X)
      BY <3>4, <3>5, ArmWriteBackAlike
    <3>7. t = Sees(g, X) /\ t.err # "fault"
      BY <3>6, ArmSeen DEF ArmAlike
    <3> QED BY <3>7 DEF Sees, t, g
  <2>6. CASE ~Reachable(w, at, n)
    <3>1. PICK x \in Attempted(f.mem, at, n, v) : Stored(w, at, n, v) = Faulted(w, x)
      BY <1>1, <2>2, <2>3, <2>4, <2>6, StoreTried
    <3>2. Faulted(w, x).err = "fault" /\ Faulted(w, x).mem = x
      BY DEF Faulted, Fails, ArmMachine
    <3>3. t = Faulted(w, x)
      BY <2>1, <3>1, <3>2 DEF ArmThen
    <3> QED BY <2>2, <3>1, <3>2, <3>3 DEF t, g
  <2> QED BY <2>5, <2>6
<1> QED BY <1>6, <1>7, <1>8

-----------------------------------------------------------------------------
(* STM                                                                     *)

\* Memory is made of words, and of more than a block's sixteen.
LEMMA BlocksFit ==
  \E h \in Nat : M = 4 * h /\ h >= 16
<1>1. Span(1) >= 4
  <2>1. 2 \in Nat /\ 2 <= ByteBits /\ ByteBits \in Nat /\ 1 * ByteBits = ByteBits
    BY WordsAssumption, BlocksAssumption
  <2>2. 2^2 <= 2^ByteBits
    BY <2>1, PowersGrow
  <2>3. 2^1 = 2 * 2^0 /\ 2^2 = 2 * 2^1 /\ 2^0 = 1
    BY PowerSucc
  <2> QED BY <2>1, <2>2, <2>3 DEF Span
<1>2. \A a, b, c \in Nat : b >= a /\ c >= a /\ a >= 1 => b * c >= a * a
  OBVIOUS
<1>3. Span(2) >= 16
  <2>1. Span(1) * Span(1) >= 4 * 4
    BY <1>1, <1>2, Spans
  <2> QED BY <2>1, Spans
<1>4. M >= 64
  <2>1. Span(2) * Span(2) >= 16 * 16
    BY <1>2, <1>3, Spans
  <2> QED BY <2>1, Spans
<1>5. \E h \in Nat : M = 4 * h
  <2>1. Width - 2 \in Nat /\ (Width - 2) + 1 = Width - 1 /\ (Width - 1) + 1 = Width
        /\ Width - 1 \in Nat
    BY Spans
  <2>2. M = 2 * 2^(Width - 1) /\ 2^(Width - 1) = 2 * 2^(Width - 2) /\ 2^(Width - 2) \in Nat
    BY <2>1, PowerSucc, Spans
  <2>3. \A k \in Nat : 2 * (2 * k) = 4 * k
    OBVIOUS
  <2> QED BY <2>2, <2>3
<1> QED BY <1>4, <1>5

\* Words whose addresses are a few words apart do not overlap.
LEMMA WordsApart ==
  ASSUME NEW b \in Int, NEW j \in 0 .. 15, NEW k \in 0 .. 15, j < k, NEW c \in Int,
         c - ((b + 4 * j) % M) \in 0 .. 3
  PROVE  ~(c - ((b + 4 * k) % M) \in 0 .. 3)
<1> SUFFICES ASSUME c - ((b + 4 * k) % M) \in 0 .. 3 PROVE FALSE
  OBVIOUS
<1>1. PICK h \in Nat : M = 4 * h /\ h >= 16
  BY BlocksFit
<1> DEFINE x == (b + 4 * j) % M   y == (b + 4 * k) % M
           p == (b + 4 * j) \div M   q == (b + 4 * k) \div M
<1>2. \A d \in Nat : d >= 1 => \A z \in Int :
         z = d * (z \div d) + (z % d) /\ z \div d \in Int /\ z % d \in Int
  OBVIOUS
<1>3. M \in Nat /\ M >= 1 /\ b + 4 * j \in Int /\ b + 4 * k \in Int
  BY <1>1
<1> HIDE DEF M
<1>4. /\ b + 4 * j = M * p + x /\ b + 4 * k = M * q + y
      /\ p \in Int /\ q \in Int /\ x \in Int /\ y \in Int
  BY <1>2, <1>3
<1> HIDE DEF p, q, x, y
<1>5. c - x \in 0 .. 3 /\ c - y \in 0 .. 3
  BY DEF x, y
<1>6. y - x = 4 * (k - j) - M * (q - p)
  <2>1. M * (q - p) = M * q - M * p
    BY <1>3, <1>4
  <2> QED BY <1>3, <1>4, <2>1
<1> DEFINE e == h * (q - p)
<1>7. M * (q - p) = 4 * e /\ e \in Int
  BY <1>1, <1>4
<1>8. e <= 0 \/ e >= 16
  <2>1. q - p \in Int
    BY <1>4
  <2>2. \A d \in Int : d <= 0 => h * d <= 0
    OBVIOUS
  <2>3. \A d \in Int : d >= 1 => h * d >= h
    OBVIOUS
  <2> QED BY <1>1, <2>1, <2>2, <2>3
<1> HIDE DEF e
<1>9. y - x = 4 * ((k - j) - e)
  BY <1>4, <1>6, <1>7
<1> QED BY <1>4, <1>5, <1>7, <1>8, <1>9

\* How many registers of a list come before r.
Before(L, r) == Cardinality({q \in L : q < r})

\* A later register comes after more of them.
LEMMA LaterIsFarther ==
  ASSUME NEW L \in SUBSET Arm!Register, NEW r \in L, NEW q \in L, r < q
  PROVE  Before(L, r) \in 0 .. 15 /\ Before(L, q) \in 0 .. 15 /\ Before(L, r) < Before(L, q)
<1> DEFINE A == {p \in L : p < r}   B == {p \in L : p < q}
<1>1. IsFiniteSet(0 .. 14) /\ Cardinality(0 .. 14) = 15
  <2>1. 0 \in Int /\ 14 \in Int /\ ~(0 > 14) /\ 14 - 0 + 1 = 15
    OBVIOUS
  <2> QED BY <2>1, FS_Interval
<1>2. A \in SUBSET (0 .. 14) /\ B \in SUBSET (0 .. 14) /\ r \in 0 .. 15 /\ q \in 0 .. 15
  <2>1. \A p \in L : p \in 0 .. 15
    BY DEF Arm!Register
  <2>2. r \in 0 .. 15 /\ q \in 0 .. 15
    BY <2>1
  <2>3. ASSUME NEW p \in L, p < r \/ p < q PROVE p \in 0 .. 14
    BY <2>1, <2>2, <2>3
  <2> QED BY <2>2, <2>3
<1>3. /\ IsFiniteSet(A) /\ Cardinality(A) <= 15 /\ Cardinality(A) \in Nat
      /\ IsFiniteSet(B) /\ Cardinality(B) <= 15 /\ Cardinality(B) \in Nat
  BY <1>1, <1>2, FS_Subset, FS_CardinalityType
<1>4. r \notin A /\ A \cup {r} \in SUBSET B
  <2>1. \A p \in L : p \in 0 .. 15
    BY DEF Arm!Register
  <2>2. \A p \in L : p < r => p < q
    BY <1>2, <2>1
  <2> QED BY <1>2, <2>2
<1>5. Cardinality(A \cup {r}) = Cardinality(A) + 1
  <2> HIDE DEF A
  <2> QED BY <1>3, <1>4, FS_AddElement
<1>6. Cardinality(A \cup {r}) <= Cardinality(B)
  <2> HIDE DEF A, B
  <2> QED BY <1>3, <1>4, FS_Subset
<1> HIDE DEF A, B
<1>7. Cardinality(A) \in 0 .. 15 /\ Cardinality(B) \in 0 .. 15 /\ Cardinality(A) < Cardinality(B)
  BY <1>3, <1>5, <1>6
<1> QED BY <1>7 DEF Before, A, B

\* Byte c is one of the word of register r in a block.
InWord(s, i, r, c) == c - Arm!BlockAddress(s, i, r) \in 0 .. 3

\* The words of a block do not overlap.
LEMMA BlockApart ==
  ASSUME NEW T, 15 \notin T, NEW s \in ArmMachine(T), NEW i \in Arm!BlockTransferInstr,
         KeepsStatuses(i, T), NEW r \in i.reg_list, NEW q \in i.reg_list, NEW c \in Int,
         InWord(s, i, r, c), InWord(s, i, q, c)
  PROVE  r = q
<1> DEFINE base == Arm!Reg(s, i.rn)
           low == IF i.u THEN base ELSE base - 4 * Cardinality(i.reg_list)
           b == IF i.p = i.u THEN low + 4 ELSE low
<1>1. i.reg_list \in SUBSET Arm!Register
  BY ArmBlockFields
<1>2. base \in Int
  <2>1. base \in Word
    BY ArmBlockFields, ArmReg
  <2> QED BY <2>1, WordArithmetic
<1>3. Cardinality(i.reg_list) \in Nat
  BY <1>1, RegisterCount
<1>4. b \in Int
  <2> DEFINE n == Cardinality(i.reg_list)
  <2> HIDE DEF base, n
  <2>1. n \in Nat
    BY <1>3 DEF n
  <2> QED BY <1>2, <2>1 DEF n
<1>5. \A p : Arm!BlockAddress(s, i, p) = (b + 4 * Before(i.reg_list, p)) % M
  <2> SUFFICES ASSUME NEW p
               PROVE  Arm!BlockAddress(s, i, p) = (b + 4 * Before(i.reg_list, p)) % M
    OBVIOUS
  <2>1. Arm!BlockAddress(s, i, p) = (b + 4 * Cardinality({x \in i.reg_list : x < p})) % Arm!M
    BY ArmCardinality DEF Arm!BlockAddress
  <2> HIDE DEF b
  <2> QED BY <2>1, ArmModulus DEF Before
<1> HIDE DEF b
<1>6. ASSUME NEW x \in i.reg_list, NEW y \in i.reg_list, x < y, InWord(s, i, x, c), InWord(s, i, y, c)
      PROVE  FALSE
  <2> DEFINE j == Before(i.reg_list, x)   k == Before(i.reg_list, y)
  <2>1. j \in 0 .. 15 /\ k \in 0 .. 15 /\ j < k
    BY <1>1, <1>6, LaterIsFarther
  <2>2. c - ((b + 4 * j) % M) \in 0 .. 3 /\ c - ((b + 4 * k) % M) \in 0 .. 3
    BY <1>5, <1>6 DEF InWord
  <2> HIDE DEF j, k
  <2> QED BY <1>4, <2>1, <2>2, WordsApart
<1>7. r \in Int /\ q \in Int
  BY <1>1 DEF Arm!Register
<1>8. r < q \/ q < r \/ r = q
  BY <1>7
<1> QED BY <1>6, <1>8

\* The addresses of a block depend on the base alone.
LEMMA BlockSame ==
  ASSUME NEW u, NEW w, NEW i, Arm!Reg(u, i.rn) = Arm!Reg(w, i.rn)
  PROVE  \A r : Arm!BlockAddress(u, i, r) = Arm!BlockAddress(w, i, r)
BY DEF Arm!BlockAddress

\* With more regions a block gets at least as far.
LEMMA DoneGrows ==
  ASSUME NEW u, NEW w, NEW i, u.mapped \in SUBSET Regions, w.mapped = Regions,
         Arm!Reg(u, i.rn) = Arm!Reg(w, i.rn)
  PROVE  /\ Arm!BlockDone(u, i) \subseteq Arm!BlockDone(w, i)
         /\ Arm!BlockDone(w, i) \subseteq i.reg_list
<1>1. \A r : Arm!BlockAddress(u, i, r) = Arm!BlockAddress(w, i, r)
  BY BlockSame
<1>2. \A a : Arm!Reachable(u, a, 4) => Arm!Reachable(w, a, 4)
  BY ReachableAll, ArmMemory
<1> QED BY <1>1, <1>2 DEF Arm!BlockDone

\* The write-back alike.
LEMMA ArmBlockMovedAlike ==
  ASSUME NEW u, NEW w, NEW X, NEW i, ArmAlike(u, w, X)
  PROVE  ArmAlike(Arm!BlockMoved(u, i), Arm!BlockMoved(w, i), X)
<1> DEFINE total == 4 * Arm!Cardinality(i.reg_list)
           d == (IF i.u THEN w.regs[i.rn] + total ELSE w.regs[i.rn] - total) % Arm!M
<1>1. u.regs = w.regs
  BY ArmAlikeFlags
<1>2. /\ Arm!BlockMoved(u, i) = IF i.w THEN Arm!Put(u, i.rn, d) ELSE u
      /\ Arm!BlockMoved(w, i) = IF i.w THEN Arm!Put(w, i.rn, d) ELSE w
  BY <1>1 DEF Arm!BlockMoved
<1> HIDE DEF d
<1> QED BY <1>2, ArmAlikePut

\* What a block stores at c for register r.
BlockByte(s, i, r, c) ==
  Arm!ByteAt(Arm!Swapped(s, Arm!Reg(s, r), 4), c - Arm!BlockAddress(s, i, r))

\* What STM leaves in the memory, and the machine that it has done so in.
StmMem(s, i) ==
  [c \in DOMAIN s.mem |->
     IF \E r \in Arm!BlockDone(s, i) : InWord(s, i, r, c)
     THEN BlockByte(s, i, CHOOSE r \in Arm!BlockDone(s, i) : InWord(s, i, r, c), c)
     ELSE s.mem[c]]

\* What STM does, taken apart.
LEMMA StmMeaning ==
  ASSUME NEW s, NEW i
  PROVE  Arm!Stm(s, i) = IF Arm!BlockDone(s, i) = i.reg_list
                         THEN Arm!BlockMoved([s EXCEPT !.mem = StmMem(s, i)], i)
                         ELSE Faulted(s, StmMem(s, i))
BY ArmMemory DEF Arm!Stm, StmMem, BlockByte, InWord, Faulted

\* The byte STM stores, whichever register is chosen for it.
LEMMA StmByte ==
  ASSUME NEW T, 15 \notin T, NEW s \in ArmMachine(T), NEW i \in Arm!BlockTransferInstr,
         KeepsStatuses(i, T), NEW c \in Cells
  PROVE  /\ \A r \in Arm!BlockDone(s, i) : InWord(s, i, r, c) => StmMem(s, i)[c] = BlockByte(s, i, r, c)
         /\ (\A r \in Arm!BlockDone(s, i) : ~InWord(s, i, r, c)) => StmMem(s, i)[c] = s.mem[c]
<1>1. DOMAIN s.mem = Cells
  BY DEF ArmMachine
<1>2. c \in Int
  BY RegionsAssumption, WordArithmetic DEF Cells
<1>3. ASSUME NEW r \in Arm!BlockDone(s, i), InWord(s, i, r, c)
      PROVE  StmMem(s, i)[c] = BlockByte(s, i, r, c)
  <2> DEFINE q == CHOOSE q \in Arm!BlockDone(s, i) : InWord(s, i, q, c)
  <2>1. q \in Arm!BlockDone(s, i) /\ InWord(s, i, q, c)
    BY <1>3
  <2>2. StmMem(s, i)[c] = BlockByte(s, i, q, c)
    BY <1>1, <1>3 DEF StmMem
  <2> HIDE DEF q
  <2>3. q = r
    <3>1. q \in i.reg_list /\ r \in i.reg_list
      BY <2>1 DEF Arm!BlockDone
    <3> QED BY <1>2, <1>3, <2>1, <3>1, BlockApart
  <2> QED BY <2>2, <2>3
<1>4. ASSUME \A r \in Arm!BlockDone(s, i) : ~InWord(s, i, r, c)
      PROVE  StmMem(s, i)[c] = s.mem[c]
  BY <1>1, <1>4 DEF StmMem
<1> QED BY <1>3, <1>4

\* What failed tries of STM leave of the memory: cells of the block may have
\* what a try with all regions mapped gives them.
StmLeaves(f, i, mem) ==
  \A c \in Cells : \/ mem[c] = f.mem[c]
                   \/ mem[c] = StmMem(f, i)[c] /\ \E r \in i.reg_list : InWord(f, i, r, c)

\* STM that is tried again: it faults and leaves the memory as a try may, or
\* ends as with all regions mapped.
LEMMA StmTried ==
  ASSUME NEW T, 15 \notin T, NEW w \in ArmMachine(T), NEW f \in ArmMachine(T),
         NEW i \in Arm!BlockTransferInstr, KeepsStatuses(i, T),
         w.err = "ok", f.err = "ok", f.mapped = Regions, w.handles = f.handles,
         w.regs = f.regs, w.cpsr = f.cpsr, w.spsr = f.spsr, w.lr = f.lr, StmLeaves(f, i, w.mem)
  PROVE  LET t == Arm!Stm(w, i)
             g == Arm!Stm(f, i)
         IN /\ t.err = "fault" => t = Faulted(w, t.mem) /\ StmLeaves(f, i, t.mem)
            /\ t.err # "fault" => t = Sees(g, w.mapped)
            /\ g.mem = StmMem(f, i)
<1> DEFINE t == Arm!Stm(w, i)
           g == Arm!Stm(f, i)
           X == w.mapped
           done == Arm!BlockDone(w, i)
           all == Arm!BlockDone(f, i)
           mw == StmMem(w, i)
           mf == StmMem(f, i)
           tw == [w EXCEPT !.mem = mw]
           tf == [f EXCEPT !.mem = mf]
<1>1. w.regs = f.regs /\ w.cpsr = f.cpsr /\ X \in SUBSET Regions
  BY DEF ArmMachine
<1>2. /\ \A r : Arm!Reg(w, r) = Arm!Reg(f, r)
      /\ \A x, m : Arm!Swapped(w, x, m) = Arm!Swapped(f, x, m)
  BY <1>1, ArmReadsSame DEF Arm!Swapped
<1>3. \A r : Arm!BlockAddress(w, i, r) = Arm!BlockAddress(f, i, r)
  BY <1>2, BlockSame
<1>4. done \subseteq all /\ all \subseteq i.reg_list
  BY <1>1, <1>2, DoneGrows
<1>5. \A r, c : /\ InWord(w, i, r, c) <=> InWord(f, i, r, c)
                /\ BlockByte(w, i, r, c) = BlockByte(f, i, r, c)
  BY <1>2, <1>3 DEF InWord, BlockByte
<1> HIDE DEF done, all
<1>6. ASSUME NEW c \in Cells
      PROVE  /\ \A r \in done : InWord(f, i, r, c) => mw[c] = mf[c]
             /\ (\A r \in done : ~InWord(f, i, r, c)) => mw[c] = w.mem[c]
             /\ (\A r \in all : ~InWord(f, i, r, c)) => mf[c] = f.mem[c]
  <2>1. /\ \A r \in done : InWord(w, i, r, c) => mw[c] = BlockByte(w, i, r, c)
        /\ (\A r \in done : ~InWord(w, i, r, c)) => mw[c] = w.mem[c]
    BY StmByte DEF done
  <2>2. /\ \A r \in all : InWord(f, i, r, c) => mf[c] = BlockByte(f, i, r, c)
        /\ (\A r \in all : ~InWord(f, i, r, c)) => mf[c] = f.mem[c]
    BY StmByte DEF all
  <2> QED BY <1>4, <1>5, <2>1, <2>2
<1>7. /\ t = IF done = i.reg_list THEN Arm!BlockMoved(tw, i) ELSE Faulted(w, mw)
      /\ g = IF all = i.reg_list THEN Arm!BlockMoved(tf, i) ELSE Faulted(f, mf)
  BY StmMeaning DEF done, all
<1>8. mw = [c \in Cells |-> mw[c]] /\ mf = [c \in Cells |-> mf[c]]
  BY DEF StmMem, ArmMachine
<1> HIDE DEF mw, mf
<1>9. ArmShape(tf) /\ tf.err = "ok" /\ tf.mem = mf
  BY DEF ArmShape, ArmMachine
<1>10. g.mem = mf
  <2>1. Arm!BlockMoved(tf, i).mem = mf
    <3>1. \A d : Arm!Put(tf, i.rn, d).mem = mf
      BY DEF Arm!Put, ArmMachine
    <3> HIDE DEF tf
    <3> QED BY <1>9, <3>1 DEF Arm!BlockMoved
  <2>2. Faulted(f, mf).mem = mf
    BY DEF Faulted, Fails, ArmMachine
  <2> HIDE DEF g, tf
  <2> QED BY <1>7, <2>1, <2>2
<1>11. CASE done = i.reg_list
  <2>1. all = done
    BY <1>4, <1>11
  <2>2. \A c \in Cells : mw[c] = mf[c]
    <3> SUFFICES ASSUME NEW c \in Cells PROVE mw[c] = mf[c]
      OBVIOUS
    <3>1. CASE \E r \in done : InWord(f, i, r, c)
      BY <1>6, <3>1
    <3>2. CASE \A r \in done : ~InWord(f, i, r, c)
      <4>1. mw[c] = w.mem[c] /\ mf[c] = f.mem[c]
        BY <1>6, <2>1, <3>2
      <4>2. w.mem[c] = f.mem[c]
        BY <1>11, <3>2 DEF StmLeaves
      <4> QED BY <4>1, <4>2
    <3> QED BY <3>1, <3>2
  <2>3. mw = mf
    BY <1>8, <2>2
  <2>4. tw = Sees(tf, X)
    BY <2>3 DEF Sees, ArmMachine
  <2> HIDE DEF tw, tf
  <2>5. ArmAlike(tw, tf, X)
    BY <1>9, <2>4 DEF ArmAlike
  <2>6. t = Arm!BlockMoved(tw, i) /\ g = Arm!BlockMoved(tf, i)
    BY <1>7, <1>11, <2>1
  <2> HIDE DEF t, g
  <2>7. ArmAlike(t, g, X)
    BY <2>5, <2>6, ArmBlockMovedAlike
  <2>8. t = Sees(g, X) /\ t.err # "fault"
    BY <2>7, ArmSeen DEF ArmAlike
  <2> QED BY <1>10, <2>8 DEF Sees, t, g, mf
<1>12. CASE done # i.reg_list
  <2>1. t = Faulted(w, mw)
    BY <1>7, <1>12
  <2>2. t.err = "fault" /\ t.mem = mw
    BY <2>1 DEF Faulted, Fails, ArmMachine
  <2>3. StmLeaves(f, i, mw)
    <3> SUFFICES ASSUME NEW c \in Cells
                 PROVE  \/ mw[c] = f.mem[c]
                        \/ mw[c] = mf[c] /\ \E r \in i.reg_list : InWord(f, i, r, c)
      BY DEF StmLeaves, mf
    <3>1. CASE \E r \in done : InWord(f, i, r, c)
      BY <1>4, <1>6, <3>1
    <3>2. CASE \A r \in done : ~InWord(f, i, r, c)
      <4>1. mw[c] = w.mem[c]
        BY <1>6, <3>2
      <4>2. \/ w.mem[c] = f.mem[c]
            \/ w.mem[c] = mf[c] /\ \E r \in i.reg_list : InWord(f, i, r, c)
        BY DEF StmLeaves, mf
      <4> QED BY <4>1, <4>2
    <3> QED BY <3>1, <3>2
  <2> HIDE DEF t, g
  <2> QED BY <1>10, <2>1, <2>2, <2>3 DEF t, g, mf
<1> QED BY <1>11, <1>12

-----------------------------------------------------------------------------
(* LDM                                                                     *)

\* What the write-back makes of the registers.
LEMMA BlockMovedRegs ==
  ASSUME NEW T, 15 \notin T, NEW s \in ArmMachine(T), NEW i \in Arm!BlockTransferInstr,
         KeepsStatuses(i, T)
  PROVE  /\ Arm!BlockMoved(s, i) = [s EXCEPT !.regs = Arm!BlockMoved(s, i).regs]
         /\ DOMAIN Arm!BlockMoved(s, i).regs = Arm!Register
         /\ \A r \in Arm!Register \ {i.rn} : Arm!BlockMoved(s, i).regs[r] = s.regs[r]
<1> DEFINE total == 4 * Arm!Cardinality(i.reg_list)
           d == (IF i.u THEN s.regs[i.rn] + total ELSE s.regs[i.rn] - total) % Arm!M
<1>1. Arm!BlockMoved(s, i) = IF i.w THEN Arm!Put(s, i.rn, d) ELSE s
  BY DEF Arm!BlockMoved
<1> HIDE DEF d
<1>2. DOMAIN s.regs = Arm!Register
  BY ArmSet DEF ArmRegs
<1>3. i.rn \in Arm!Register
  BY ArmBlockFields
<1>4. Arm!Put(s, i.rn, d) = [s EXCEPT !.regs = [s.regs EXCEPT ![i.rn] = d]]
  BY DEF Arm!Put, ArmMachine
<1>5. Arm!Put(s, i.rn, d).regs = [s.regs EXCEPT ![i.rn] = d]
  BY <1>4 DEF ArmMachine
<1>6. s = [s EXCEPT !.regs = s.regs]
  BY DEF ArmMachine
<1>7. CASE i.w
  BY <1>1, <1>2, <1>4, <1>5, <1>7
<1>8. CASE ~i.w
  BY <1>1, <1>2, <1>6, <1>8
<1> QED BY <1>7, <1>8

\* The registers LDM leaves.
LdmRegs(s, i) ==
  [r \in Arm!Register |-> IF r \in Arm!BlockDone(s, i)
                          THEN Arm!ReadData(s, Arm!BlockAddress(s, i, r), 4)
                          ELSE Arm!BlockMoved(s, i).regs[r]]

\* The machine s with the registers x, LDM having succeeded or failed.
Filling(s, x) == [s EXCEPT !.regs = x]
Halfway(s, x) == [s EXCEPT !.regs = x, !.err = "fault"]

\* What LDM does, taken apart.
LEMMA LdmMeaning ==
  ASSUME NEW T, 15 \notin T, NEW s \in ArmMachine(T), NEW i \in Arm!BlockTransferInstr,
         KeepsStatuses(i, T)
  PROVE  Arm!Ldm(s, i) = IF Arm!BlockDone(s, i) = i.reg_list
                         THEN Filling(s, LdmRegs(s, i)) ELSE Halfway(s, LdmRegs(s, i))
<1> DEFINE b == Arm!BlockMoved(s, i)
<1>1. b = [s EXCEPT !.regs = b.regs]
  BY BlockMovedRegs
<1>2. Arm!Ldm(s, i) = IF Arm!BlockDone(s, i) = i.reg_list
                      THEN [b EXCEPT !.regs = LdmRegs(s, i)]
                      ELSE Fails([b EXCEPT !.regs = LdmRegs(s, i)], "fault")
  BY ArmMemory DEF Arm!Ldm, LdmRegs
<1> HIDE DEF b
<1>3. [b EXCEPT !.regs = LdmRegs(s, i)] = [s EXCEPT !.regs = LdmRegs(s, i)]
  BY <1>1 DEF ArmMachine
<1>4. Fails([s EXCEPT !.regs = LdmRegs(s, i)], "fault")
        = [s EXCEPT !.regs = LdmRegs(s, i), !.err = "fault"]
  BY DEF Fails, ArmMachine
<1> QED BY <1>2, <1>3, <1>4 DEF Filling, Halfway

\* LDM that fails before the last register of its list has not loaded its base
\* or the PC.
LEMMA LdmKeepsBase ==
  ASSUME NEW T, 15 \notin T, NEW s \in ArmMachine(T), NEW i \in Arm!BlockTransferInstr,
         KeepsStatuses(i, T), Arm!BlockDone(s, i) # i.reg_list, i.op = "Ldm"
  PROVE  /\ ~LosesBase(i) => i.rn \notin Arm!BlockDone(s, i)
         /\ 15 \notin Arm!BlockDone(s, i)
<1>1. i.reg_list \in SUBSET (0 .. 15) /\ i.rn \in 0 .. 15
  BY ArmBlockFields DEF Arm!Register
<1>2. ASSUME NEW z \in Arm!BlockDone(s, i), \A q \in i.reg_list : q <= z
      PROVE  FALSE
  <2>1. \A q \in i.reg_list : Reachable(s, Arm!BlockAddress(s, i, q), 4)
    BY <1>2, ArmMemory DEF Arm!BlockDone
  <2>2. i.reg_list = Arm!BlockDone(s, i)
    BY <2>1, ArmMemory DEF Arm!BlockDone
  <2> QED BY <2>2
<1>3. \A z \in Arm!BlockDone(s, i) : \E q \in i.reg_list : ~(q <= z)
  BY <1>2
<1>4. Arm!BlockDone(s, i) \in SUBSET i.reg_list
  BY DEF Arm!BlockDone
<1>5. \A x \in 0 .. 15, y \in 0 .. 15 : ~(y <= x) => y > x /\ x # 15
  OBVIOUS
<1>6. 15 \notin Arm!BlockDone(s, i)
  BY <1>1, <1>3, <1>4, <1>5
<1>7. i.rn \in Arm!BlockDone(s, i) => LosesBase(i)
  BY <1>1, <1>3, <1>4, <1>5 DEF LosesBase
<1> QED BY <1>6, <1>7

\* LDM that is tried again on a machine that may have loaded other registers of
\* the list than the base: it moves the base again and faults, or ends as with
\* all regions mapped and none of them loaded.
LEMMA LdmTried ==
  ASSUME NEW T, 15 \notin T, NEW w \in ArmMachine(T), NEW f \in ArmMachine(T),
         NEW i \in Arm!BlockTransferInstr, KeepsStatuses(i, T), i.op = "Ldm", ~LosesBase(i),
         w.err = "ok", f.err = "ok", f.mapped = Regions, w.handles = f.handles,
         w.mem = f.mem, w.cpsr = f.cpsr, w.spsr = f.spsr, w.lr = f.lr,
         \A r \in Arm!Register : r \notin i.reg_list \ {i.rn, 15} => w.regs[r] = f.regs[r]
  PROVE  LET t == Arm!Ldm(w, i)
             g == Arm!Ldm(f, i)
         IN /\ t.err = "fault" =>
                 \A r \in Arm!Register :
                    \/ t.regs[r] = Arm!BlockMoved(w, i).regs[r]
                    \/ r \in i.reg_list \ {i.rn, 15} /\ t.regs[r] = g.regs[r]
            /\ t.err # "fault" => t = Sees(g, w.mapped)
<1> DEFINE t == Arm!Ldm(w, i)
           g == Arm!Ldm(f, i)
           done == Arm!BlockDone(w, i)
           all == Arm!BlockDone(f, i)
           x == LdmRegs(w, i)
           y == LdmRegs(f, i)
<1>1. w.mem = f.mem /\ w.cpsr = f.cpsr /\ w.mapped \in SUBSET Regions
  BY DEF ArmMachine
<1>2. i.rn \in Arm!Register /\ i.reg_list \in SUBSET Arm!Register /\ 15 \in Arm!Register
  BY ArmBlockFields DEF Arm!Register
<1>3. w.regs[i.rn] = f.regs[i.rn] /\ w.regs[15] = f.regs[15]
  BY <1>2
<1>4. Arm!Reg(w, i.rn) = Arm!Reg(f, i.rn)
  BY <1>3 DEF Arm!Reg
<1>5. \A r : Arm!BlockAddress(w, i, r) = Arm!BlockAddress(f, i, r)
  BY <1>4, BlockSame
<1>6. done \subseteq all /\ all \subseteq i.reg_list
  BY <1>1, <1>4, DoneGrows
<1>7. \A a : Arm!ReadData(w, a, 4) = Arm!ReadData(f, a, 4)
  BY <1>1 DEF Arm!ReadData, Arm!Loaded, Arm!Swapped
<1>8. Arm!BlockMoved(w, i).regs[i.rn] = Arm!BlockMoved(f, i).regs[i.rn]
  <2> DEFINE total == 4 * Arm!Cardinality(i.reg_list)
             d == (IF i.u THEN w.regs[i.rn] + total ELSE w.regs[i.rn] - total) % Arm!M
  <2>1. /\ Arm!BlockMoved(w, i) = IF i.w THEN Arm!Put(w, i.rn, d) ELSE w
        /\ Arm!BlockMoved(f, i) = IF i.w THEN Arm!Put(f, i.rn, d) ELSE f
    BY <1>3 DEF Arm!BlockMoved
  <2> HIDE DEF d
  <2>2. Arm!Put(w, i.rn, d).regs[i.rn] = d /\ Arm!Put(f, i.rn, d).regs[i.rn] = d
    <3>1. w.regs \in [Arm!Register -> Word \cup Status] /\ f.regs \in [Arm!Register -> Word \cup Status]
      BY ArmSet DEF ArmRegs
    <3>2. /\ Arm!Put(w, i.rn, d).regs = [w.regs EXCEPT ![i.rn] = d]
          /\ Arm!Put(f, i.rn, d).regs = [f.regs EXCEPT ![i.rn] = d]
      BY DEF Arm!Put, ArmMachine
    <3> QED BY <1>2, <3>1, <3>2
  <2> QED BY <1>3, <2>1, <2>2
<1>9. /\ \A r \in Arm!Register \ {i.rn} : Arm!BlockMoved(w, i).regs[r] = w.regs[r]
      /\ \A r \in Arm!Register \ {i.rn} : Arm!BlockMoved(f, i).regs[r] = f.regs[r]
  BY BlockMovedRegs
<1>10. \A r \in Arm!Register :
         /\ x[r] = IF r \in done THEN Arm!ReadData(f, Arm!BlockAddress(f, i, r), 4)
                   ELSE Arm!BlockMoved(w, i).regs[r]
         /\ y[r] = IF r \in all THEN Arm!ReadData(f, Arm!BlockAddress(f, i, r), 4)
                   ELSE Arm!BlockMoved(f, i).regs[r]
  BY <1>5, <1>7 DEF LdmRegs
<1>11. x = [r \in Arm!Register |-> x[r]] /\ y = [r \in Arm!Register |-> y[r]]
  BY DEF LdmRegs
<1>12. /\ t = IF done = i.reg_list THEN Filling(w, x) ELSE Halfway(w, x)
       /\ g = IF all = i.reg_list THEN Filling(f, y) ELSE Halfway(f, y)
  BY LdmMeaning
<1>13. done # i.reg_list => i.rn \notin done /\ 15 \notin done
  BY LdmKeepsBase
<1> HIDE DEF t, g, done, all, x, y
<1>14. g.regs = y
  <2>1. Filling(f, y).regs = y /\ Halfway(f, y).regs = y
    BY DEF Filling, Halfway, ArmMachine
  <2> QED BY <1>12, <2>1
<1>15. CASE done = i.reg_list
  <2>1. all = i.reg_list
    BY <1>6, <1>15
  <2>2. \A r \in Arm!Register : x[r] = y[r]
    <3> SUFFICES ASSUME NEW r \in Arm!Register PROVE x[r] = y[r]
      OBVIOUS
    <3>1. CASE r \in done
      BY <1>10, <1>15, <2>1, <3>1
    <3>2. CASE r \notin done /\ r = i.rn
      BY <1>8, <1>10, <1>15, <2>1, <3>2
    <3>3. CASE r \notin done /\ r # i.rn
      <4>1. w.regs[r] = f.regs[r]
        BY <1>15, <3>3
      <4> QED BY <1>9, <1>10, <1>15, <2>1, <3>3, <4>1
    <3> QED BY <3>1, <3>2, <3>3
  <2>3. x = y
    BY <1>11, <2>2
  <2>4. t = Filling(w, x) /\ g = Filling(f, x)
    BY <1>12, <1>15, <2>1, <2>3
  <2>5. t.err # "fault"
    BY <2>4 DEF ArmMachine, Filling
  <2>6. t = Sees(g, w.mapped)
    <3>1. w = [f EXCEPT !.mapped = w.mapped, !.regs = w.regs]
      BY DEF ArmMachine
    <3>2. Filling(w, x) = Sees(Filling(f, x), w.mapped)
      BY <3>1 DEF ArmMachine, Filling, Sees
    <3> QED BY <2>4, <3>2
  <2> QED BY <2>5, <2>6 DEF t, g
<1>16. CASE done # i.reg_list
  <2>1. t = [w EXCEPT !.regs = x, !.err = "fault"]
    BY <1>12, <1>16 DEF Halfway
  <2>2. t.regs = x /\ t.err = "fault"
    BY <2>1 DEF ArmMachine
  <2>3. ASSUME NEW r \in Arm!Register
        PROVE  \/ x[r] = Arm!BlockMoved(w, i).regs[r]
               \/ r \in i.reg_list \ {i.rn, 15} /\ x[r] = y[r]
    <3>1. CASE r \in done
      BY <1>6, <1>10, <1>13, <1>16, <3>1
    <3>2. CASE r \notin done
      BY <1>10, <3>2
    <3> QED BY <3>1, <3>2
  <2> QED BY <1>14, <2>2, <2>3 DEF t, g
<1> QED BY <1>15, <1>16

\* Whatever its list, LDM writes registers only.
LEMMA LdmWrites ==
  ASSUME NEW T, 15 \notin T, NEW w \in ArmMachine(T), NEW i \in Arm!BlockTransferInstr,
         KeepsStatuses(i, T), i.op = "Ldm"
  PROVE  LET t == Arm!Ldm(w, i)
         IN /\ t.mem = w.mem /\ t.mapped = w.mapped /\ t.handles = w.handles
            /\ t.cpsr = w.cpsr /\ t.spsr = w.spsr /\ t.lr = w.lr
            /\ t.regs = LdmRegs(w, i)
<1> DEFINE x == LdmRegs(w, i)
<1>1. Arm!Ldm(w, i) = Filling(w, x) \/ Arm!Ldm(w, i) = Halfway(w, x)
  BY LdmMeaning
<1> HIDE DEF x
<1> QED BY <1>1 DEF Filling, Halfway, ArmMachine, x

-----------------------------------------------------------------------------
(* A step of ARM                                                           *)

\* The machine an instruction executes on: the PC is past it.
Moving(m) == Arm!Put(m, 15, (m.regs[15] + 4) % M)

\* Machines that agree in every part are the same.
LEMMA ArmEqual ==
  ASSUME NEW T, NEW u \in ArmMachine(T), NEW v \in ArmMachine(T),
         u.mem = v.mem, u.mapped = v.mapped, u.handles = v.handles, u.err = v.err,
         u.regs = v.regs, u.cpsr = v.cpsr, u.spsr = v.spsr, u.lr = v.lr
  PROVE  u = v
BY DEF ArmMachine

\* Registers that agree one by one are the same.
LEMMA ArmRegsEqual ==
  ASSUME NEW T, NEW u \in ArmMachine(T), NEW v \in ArmMachine(T),
         \A r \in Arm!Register : u.regs[r] = v.regs[r]
  PROVE  u.regs = v.regs
<1>1. /\ u.regs \in [Arm!Register -> Word \cup Status]
      /\ v.regs \in [Arm!Register -> Word \cup Status]
  BY ArmSet DEF ArmRegs
<1> DEFINE x == u.regs   y == v.regs
<1>2. \A r \in Arm!Register : x[r] = y[r]
  OBVIOUS
<1> HIDE DEF x, y
<1>3. x = y
  BY <1>1, <1>2 DEF x, y
<1> QED BY <1>3 DEF x, y

\* Writing a register changes that register only.
LEMMA PutParts ==
  ASSUME NEW T, NEW s \in ArmMachine(T), NEW r \in Arm!Register, NEW v
  PROVE  LET p == Arm!Put(s, r, v)
         IN /\ p.mem = s.mem /\ p.mapped = s.mapped /\ p.handles = s.handles /\ p.err = s.err
            /\ p.cpsr = s.cpsr /\ p.spsr = s.spsr /\ p.lr = s.lr
            /\ p.regs[r] = v
            /\ \A q \in Arm!Register : q # r => p.regs[q] = s.regs[q]
<1> DEFINE p == Arm!Put(s, r, v)
<1>1. p = [s EXCEPT !.regs = [s.regs EXCEPT ![r] = v]]
  BY DEF Arm!Put, ArmMachine
<1>2. s.regs \in [Arm!Register -> Word \cup Status]
  BY ArmSet DEF ArmRegs
<1>3. p.regs = [s.regs EXCEPT ![r] = v]
  BY <1>1 DEF ArmMachine
<1>4. /\ p.mem = s.mem /\ p.mapped = s.mapped /\ p.handles = s.handles /\ p.err = s.err
      /\ p.cpsr = s.cpsr /\ p.spsr = s.spsr /\ p.lr = s.lr
  BY <1>1 DEF ArmMachine
<1> HIDE DEF p
<1>5. p.regs[r] = v /\ \A q \in Arm!Register : q # r => p.regs[q] = s.regs[q]
  BY <1>2, <1>3
<1> QED BY <1>4, <1>5 DEF p

\* Moving the PC on keeps the rest of the machine.
LEMMA MovingParts ==
  ASSUME NEW T, 15 \notin T, NEW m \in ArmMachine(T)
  PROVE  LET p == Moving(m)
         IN /\ p \in ArmMachine(T)
            /\ p.mem = m.mem /\ p.mapped = m.mapped /\ p.handles = m.handles /\ p.err = m.err
            /\ p.cpsr = m.cpsr /\ p.spsr = m.spsr /\ p.lr = m.lr
            /\ p.regs[15] = (m.regs[15] + 4) % M /\ m.regs[15] \in Word
            /\ \A q \in Arm!Register : q # 15 => p.regs[q] = m.regs[q]
<1>1. m.regs[15] \in Word /\ 15 \in Arm!Register
  BY ArmSet DEF Arm!Register
<1>2. (m.regs[15] + 4) % M \in Word
  <2>1. m.regs[15] + 4 \in Int
    <3>1. m.regs[15] \in Int
      BY <1>1, WordArithmetic
    <3> QED BY <3>1
  <2> QED BY <2>1, WordType
<1> DEFINE d == (m.regs[15] + 4) % M
<1> HIDE DEF d
<1>3. Arm!Put(m, 15, d) \in ArmMachine(T)
  BY <1>2, ArmJump DEF d
<1>4. Moving(m) = Arm!Put(m, 15, d)
  BY DEF Moving, d
<1> QED BY <1>1, <1>3, <1>4, PutParts DEF d

\* Rewinding an instruction that failed puts the PC back.
LEMMA RewoundParts ==
  ASSUME NEW T, 15 \notin T, NEW m \in ArmMachine(T), NEW t \in ArmMachine(T)
  PROVE  LET p == Arm!Rewound(m, t)
         IN /\ p.mem = t.mem /\ p.mapped = t.mapped /\ p.handles = t.handles /\ p.err = t.err
            /\ p.cpsr = t.cpsr /\ p.spsr = t.spsr /\ p.lr = t.lr
            /\ p \in ArmMachine(T)
            /\ t.err = "ok" => p = t
            /\ t.err # "ok" => p.regs[15] = m.regs[15]
            /\ \A q \in Arm!Register : q # 15 => p.regs[q] = t.regs[q]
<1>1. m.regs[15] \in Word /\ 15 \in Arm!Register
  BY ArmSet DEF Arm!Register
<1>2. Arm!Put(t, 15, m.regs[15]) \in ArmMachine(T)
  BY <1>1, ArmJump
<1>3. CASE t.err = "ok"
  BY <1>3 DEF Arm!Rewound
<1>4. CASE t.err # "ok"
  <2>1. Arm!Rewound(m, t) = Arm!Put(t, 15, m.regs[15])
    BY <1>4 DEF Arm!Rewound
  <2> QED BY <1>1, <1>2, <1>4, <2>1, PutParts
<1> QED BY <1>3, <1>4

\* Instructions that end alike are rewound alike.
LEMMA RewoundAlike ==
  ASSUME NEW T, NEW m, NEW p, m.regs[15] = p.regs[15], NEW g \in ArmMachine(T), NEW X, NEW t,
         t = Sees(g, X)
  PROVE  Arm!Rewound(m, t) = Sees(Arm!Rewound(p, g), X)
<1>1. t.err = g.err
  BY DEF ArmMachine, Sees
<1>2. \A v : Arm!Put(t, 15, v) = Sees(Arm!Put(g, 15, v), X)
  BY DEF Arm!Put, ArmMachine, Sees
<1>3. CASE g.err = "ok"
  BY <1>1, <1>3 DEF Arm!Rewound
<1>4. CASE g.err # "ok"
  BY <1>1, <1>2, <1>4 DEF Arm!Rewound
<1> QED BY <1>3, <1>4

\* The word that an ARM machine is on.
ArmWord(m) == Prog.code[(m.regs[15] \div 4) + 1]

\* A step of an ARM program is one on its word, which is the same with all
\* regions mapped.
LEMMA ArmStepped ==
  ASSUME ProgramOK, Prog.arch = "arm", NEW m \in ArmMachine(Prog.statuses), InCode(m)
  PROVE  /\ Stepped(m) = Arm!Rewound(m, Arm!ExecuteArm(Moving(m), Instruction(m)))
         /\ Instruction(m) = Arm!DecodeArm(ArmWord(m))
         /\ Instruction(m) \in Arm!Instr
         /\ KeepsStatuses(Instruction(m), Prog.statuses)
         /\ 15 \notin Prog.statuses
<1> DEFINE T == Prog.statuses   k == (m.regs[15] \div 4) + 1   raw == Prog.code[k]
<1>1. 15 \notin T
  BY DEF ProgramOK
<1>2. m.regs[15] \in Word
  BY <1>1, ArmSet DEF Arm!Register
<1>3. Prog.code \in Seq(SUBSET (0 .. 31)) /\ Len(Prog.code) \in Nat
      /\ DOMAIN Prog.code = 1 .. Len(Prog.code)
  BY DEF ProgramOK
<1>4. m.regs[15] < 4 * Len(Prog.code)
  BY DEF InCode, Pc, Bytes
<1>5. k \in DOMAIN Prog.code
  BY <1>2, <1>3, <1>4, WordIndex
<1> HIDE DEF k
<1>6. raw \in SUBSET (0 .. 31)
  BY <1>3, <1>5, ElementType
<1>7. KeepsStatuses(Arm!DecodeArm(raw), T)
  BY <1>5 DEF ProgramOK
<1>8. Stepped(m) = Arm!ArmStep(m, raw) /\ Instruction(m) = Arm!DecodeArm(raw)
  BY DEF Stepped, Instruction, Pc, k
<1>9. ArmWord(m) = raw
  BY DEF ArmWord, k
<1> HIDE DEF raw
<1>10. Arm!DecodeArm(raw) \in Arm!Instr
  BY <1>6, ArmDecodes
<1>11. Stepped(m) = Arm!Rewound(m, Arm!ExecuteArm(Moving(m), Instruction(m)))
  BY <1>8, ArmModulus DEF Arm!ArmStep, Moving
<1> QED BY <1>1, <1>7, <1>8, <1>9, <1>10, <1>11

\* The instruction is that of any machine with the same PC.
LEMMA ArmSameWord ==
  ASSUME Prog.arch = "arm", NEW m, NEW p, m.regs[15] = p.regs[15]
  PROVE  /\ InCode(m) <=> InCode(p)
         /\ Instruction(m) = Instruction(p)
BY DEF InCode, Pc, Instruction

-----------------------------------------------------------------------------
(* Slipping                                                                *)

\* By how much an LDM moves its base.
Total(i) == 4 * Cardinality(i.reg_list)

\* On ARM only the base of an LDM with write-back slips.
LEMMA SlippedParts ==
  ASSUME Prog.arch = "arm", NEW T, 15 \notin T, NEW s \in ArmMachine(T),
         NEW i \in Arm!Instr, KeepsStatuses(i, T), NEW k \in Nat
  PROVE  LET p == Slipped(s, k, i)
         IN /\ p \in ArmMachine(T)
            /\ p.mem = s.mem /\ p.mapped = s.mapped /\ p.handles = s.handles /\ p.err = s.err
            /\ p.cpsr = s.cpsr /\ p.spsr = s.spsr /\ p.lr = s.lr
            /\ ~WritesBack(i) => p = s
            /\ p.regs[15] = s.regs[15]
            /\ i.op \in {"Ldm", "Stm"} =>
                  \A r \in Arm!Register : r # i.rn => p.regs[r] = s.regs[r]
            /\ WritesBack(i) =>
                  /\ s.regs[i.rn] \in Word
                  /\ p.regs[i.rn] = (IF i.u THEN s.regs[i.rn] + k * Total(i)
                                     ELSE s.regs[i.rn] - k * Total(i)) % M
<1> DEFINE p == Slipped(s, k, i)
           d == (IF i.u THEN s.regs[i.rn] + k * Total(i) ELSE s.regs[i.rn] - k * Total(i)) % M
<1>1. CASE ~WritesBack(i)
  <2>1. p = s
    BY <1>1 DEF Slipped, MovesStack
  <2> QED BY <1>1, <2>1
<1>2. CASE WritesBack(i)
  <2>1. i \in Arm!BlockTransferInstr /\ i.rn # 15
    BY <1>2, ArmKinds DEF WritesBack
  <2>2. i.rn \in Arm!Register \ T /\ i.reg_list \in SUBSET Arm!Register /\ 15 \in Arm!Register
    BY <2>1, ArmBlockFields DEF Arm!Register
  <2>3. s.regs[i.rn] \in Word
    BY <2>2, ArmSet
  <2>4. Total(i) \in Nat
    <3>1. Cardinality(i.reg_list) \in Nat
      BY <2>2, RegisterCount
    <3> QED BY <3>1 DEF Total
  <2>5. d \in Word
    <3>1. s.regs[i.rn] \in Int
      BY <2>3, WordArithmetic
    <3>2. k * Total(i) \in Int
      BY <2>4
    <3>3. s.regs[i.rn] + k * Total(i) \in Int /\ s.regs[i.rn] - k * Total(i) \in Int
      BY <3>1, <3>2
    <3> QED BY <3>3, WordType
  <2>6. p = Arm!Put(s, i.rn, d)
    <3> HIDE DEF d
    <3>0. ~MovesStack(i)
      BY DEF MovesStack
    <3>1. p = [s EXCEPT !.regs = [s.regs EXCEPT ![i.rn] = d]]
      BY <1>2, <3>0 DEF Slipped, Total, d
    <3>2. Arm!Put(s, i.rn, d) = [s EXCEPT !.regs = [s.regs EXCEPT ![i.rn] = d]]
      BY DEF Arm!Put, ArmMachine
    <3> HIDE DEF p
    <3> QED BY <3>1, <3>2
  <2> HIDE DEF p, d
  <2>7. p \in ArmMachine(T)
    BY <2>2, <2>5, <2>6, ArmPut
  <2>8. /\ p.mem = s.mem /\ p.mapped = s.mapped /\ p.handles = s.handles /\ p.err = s.err
        /\ p.cpsr = s.cpsr /\ p.spsr = s.spsr /\ p.lr = s.lr
        /\ p.regs[i.rn] = d
        /\ \A r \in Arm!Register : r # i.rn => p.regs[r] = s.regs[r]
    BY <2>2, <2>6, PutParts
  <2> QED BY <1>2, <2>1, <2>2, <2>3, <2>7, <2>8 DEF p, d
<1> QED BY <1>1, <1>2

\* Before the first failed try nothing has slipped.
LEMMA NotSlipped ==
  ASSUME Prog.arch = "arm", NEW T, 15 \notin T, NEW s \in ArmMachine(T),
         NEW i \in Arm!Instr, KeepsStatuses(i, T)
  PROVE  Slipped(s, 0, i) = s
<1> DEFINE p == Slipped(s, 0, i)
<1> HIDE DEF p
<1>1. CASE ~WritesBack(i)
  BY <1>1, SlippedParts
<1>2. CASE WritesBack(i)
  <2>1. i.op = "Ldm"
    BY <1>2 DEF WritesBack
  <2>2. /\ p \in ArmMachine(T)
        /\ p.mem = s.mem /\ p.mapped = s.mapped /\ p.handles = s.handles /\ p.err = s.err
        /\ p.cpsr = s.cpsr /\ p.spsr = s.spsr /\ p.lr = s.lr
        /\ \A r \in Arm!Register : r # i.rn => p.regs[r] = s.regs[r]
        /\ s.regs[i.rn] \in Word
        /\ p.regs[i.rn] = (IF i.u THEN s.regs[i.rn] + 0 * Total(i)
                           ELSE s.regs[i.rn] - 0 * Total(i)) % M
    BY <1>2, <2>1, SlippedParts DEF p
  <2>3. p.regs[i.rn] = s.regs[i.rn]
    <3>1. Total(i) \in Nat
      <4>1. i \in Arm!BlockTransferInstr
        BY <2>1, ArmKinds
      <4>2. Cardinality(i.reg_list) \in Nat
        BY <4>1, ArmBlockFields, RegisterCount
      <4> QED BY <4>2 DEF Total
    <3> DEFINE b == s.regs[i.rn]   t == Total(i)
    <3>2. b \in Word /\ t \in Nat
      BY <2>2, <3>1
    <3> HIDE DEF b, t
    <3>3. b \in Int
      BY <3>2, WordArithmetic
    <3>4. b + 0 * t = b /\ b - 0 * t = b
      BY <3>2, <3>3
    <3>5. b % M = b
      BY <3>2, WordType
    <3> QED BY <2>2, <3>4, <3>5 DEF b, t
  <2>4. p.regs = s.regs
    BY <2>2, <2>3, ArmRegsEqual
  <2> QED BY <2>2, <2>4, ArmEqual DEF p
<1> QED BY <1>1, <1>2

\* The remainder is the only one.
LEMMA RemainderUnique ==
  ASSUME NEW d \in Nat, d >= 1, NEW q \in Int, NEW r \in Int, 0 <= r, r < d
  PROVE  (d * q + r) % d = r
<1> DEFINE z == d * q + r   p == z \div d   s == z % d
<1>1. z \in Int
  OBVIOUS
<1>2. \A x \in Int : x = d * (x \div d) + (x % d) /\ x \div d \in Int /\ 0 <= x % d /\ x % d < d
                     /\ x % d \in Int
  OBVIOUS
<1>3. z = d * p + s /\ p \in Int /\ 0 <= s /\ s < d /\ s \in Int
  <2> HIDE DEF z
  <2> QED BY <1>1, <1>2
<1> HIDE DEF p, s
<1>4. d * q + r = d * p + s
  BY <1>3
<1>5. d * (q - p) = s - r
  <2>1. d * (q - p) = d * q - d * p
    BY <1>3
  <2>2. d * q \in Int /\ d * p \in Int
    BY <1>3
  <2> QED BY <1>3, <1>4, <2>1, <2>2
<1>6. q - p = 0
  <2>1. \A e \in Int : (e >= 1 => d * e >= d) /\ (e <= -1 => d * e <= -d)
    OBVIOUS
  <2>2. q - p \in Int
    BY <1>3
  <2> DEFINE e == q - p
  <2>3. e \in Int /\ d * e = s - r /\ (e >= 1 => d * e >= d) /\ (e <= -1 => d * e <= -d)
    BY <1>5, <2>1, <2>2
  <2> HIDE DEF e
  <2>4. e = 0
    BY <1>3, <2>3
  <2> QED BY <2>4 DEF e
<1>7. d * (q - p) = 0
  BY <1>6
<1>8. s = r
  BY <1>3, <1>5, <1>7
<1> QED BY <1>8 DEF s

\* Reducing a word before something is added makes no difference.
LEMMA ModMoves ==
  ASSUME NEW x \in Int, NEW y \in Int
  PROVE  /\ ((x % M) + y) % M = (x + y) % M
         /\ ((x % M) - y) % M = (x - y) % M
<1> DEFINE q == x \div M   r == x % M
<1>0. M \in Nat /\ M >= 1
  BY WordType
<1> HIDE DEF M
<1>1. \A z \in Int : z = M * (z \div M) + (z % M) /\ z \div M \in Int /\ 0 <= z % M /\ z % M < M
                     /\ z % M \in Int
  BY <1>0
<1>2. x = M * q + r /\ q \in Int /\ r \in Int
  BY <1>1
<1> HIDE DEF q, r
<1>3. ASSUME NEW w \in Int PROVE (r + w) % M = (x + w) % M
  <2> DEFINE p == (r + w) \div M   s == (r + w) % M
  <2>1. r + w \in Int
    BY <1>2
  <2>2. r + w = M * p + s /\ p \in Int /\ s \in Int /\ 0 <= s /\ s < M
    BY <1>1, <2>1
  <2> HIDE DEF p, s
  <2>3. x + w = M * (q + p) + s
    <3>1. M * (q + p) = M * q + M * p
      BY <1>0, <1>2, <2>2
    <3>2. M * q \in Int /\ M * p \in Int
      BY <1>0, <1>2, <2>2
    <3> QED BY <1>2, <2>2, <3>1, <3>2
  <2>4. q + p \in Int
    BY <1>2, <2>2
  <2>5. (M * (q + p) + s) % M = s
    BY <1>0, <2>2, <2>4, RemainderUnique
  <2> QED BY <2>3, <2>5 DEF s
<1>4. (r + y) % M = (x + y) % M
  BY <1>3
<1>5. (r + (-y)) % M = (x + (-y)) % M
  BY <1>3
<1>6. r + (-y) = r - y /\ x + (-y) = x - y
  BY <1>2
<1> QED BY <1>4, <1>5, <1>6 DEF r

\* The base that has slipped is moved on by the next try.
LEMMA BaseMovesOn ==
  ASSUME Prog.arch = "arm", NEW T, 15 \notin T, NEW s \in ArmMachine(T), NEW m \in ArmMachine(T),
         NEW i \in Arm!Instr, KeepsStatuses(i, T), NEW k \in Nat, i.op = "Ldm", i.rn # 15,
         m.regs[i.rn] = Slipped(s, k, i).regs[i.rn]
  PROVE  Arm!BlockMoved(m, i).regs[i.rn] = Slipped(s, k + 1, i).regs[i.rn]
<1> DEFINE b == s.regs[i.rn]   t == Total(i)   a == m.regs[i.rn]
           c == Slipped(s, k + 1, i).regs[i.rn]
           d == (IF i.u THEN a + t ELSE a - t) % M
<1>1. i \in Arm!BlockTransferInstr /\ k + 1 \in Nat
  BY ArmKinds
<1>2. i.rn \in Arm!Register \ T /\ i.reg_list \in SUBSET Arm!Register
  BY <1>1, ArmBlockFields
<1>3. t \in Nat
  <2>1. Cardinality(i.reg_list) \in Nat
    BY <1>2, RegisterCount
  <2> QED BY <2>1 DEF Total
<1>4. Arm!BlockMoved(m, i) = IF i.w THEN Arm!Put(m, i.rn, d) ELSE m
  BY ArmCardinality, ArmModulus DEF Arm!BlockMoved, Total
<1>5. CASE ~i.w
  <2>1. ~WritesBack(i)
    BY <1>5 DEF WritesBack
  <2>2. Slipped(s, k, i) = s /\ Slipped(s, k + 1, i) = s
    BY <1>1, <2>1, SlippedParts
  <2>3. Arm!BlockMoved(m, i) = m
    BY <1>4, <1>5
  <2> QED BY <2>2, <2>3
<1>6. CASE i.w
  <2>1. WritesBack(i)
    BY <1>6 DEF WritesBack
  <2>2. b \in Word /\ a = (IF i.u THEN b + k * t ELSE b - k * t) % M
    BY <2>1, SlippedParts
  <2>3. c = (IF i.u THEN b + (k + 1) * t ELSE b - (k + 1) * t) % M
    BY <1>1, <2>1, SlippedParts
  <2>4. Arm!BlockMoved(m, i).regs[i.rn] = d
    <3> HIDE DEF d
    <3>1. Arm!Put(m, i.rn, d).regs[i.rn] = d
      BY <1>2, PutParts
    <3> QED BY <1>4, <1>6, <3>1
  <2>5. d = c
    <3> DEFINE e == k * t
    <3>1. (k + 1) * t = e + t /\ e \in Int
      BY <1>3
    <3>2. b \in Int
      BY <2>2, WordArithmetic
    <3>3. a = (IF i.u THEN b + e ELSE b - e) % M /\ c = (IF i.u THEN b + (e + t) ELSE b - (e + t)) % M
      BY <2>2, <2>3, <3>1
    <3> HIDE DEF a, b, c, e, t
    <3>4. CASE i.u
      <4>1. d = (((b + e) % M) + t) % M
        BY <3>3, <3>4
      <4>2. b + e \in Int /\ t \in Int /\ (b + e) + t = b + (e + t)
        BY <1>3, <3>1, <3>2
      <4>3. (((b + e) % M) + t) % M = ((b + e) + t) % M
        BY <4>2, ModMoves
      <4> QED BY <3>3, <3>4, <4>1, <4>2, <4>3
    <3>5. CASE ~i.u
      <4>1. d = (((b - e) % M) - t) % M
        BY <3>3, <3>5
      <4>2. b - e \in Int /\ t \in Int /\ (b - e) - t = b - (e + t)
        BY <1>3, <3>1, <3>2
      <4>3. (((b - e) % M) - t) % M = ((b - e) - t) % M
        BY <4>2, ModMoves
      <4> QED BY <3>3, <3>5, <4>1, <4>2, <4>3
    <3> QED BY <3>4, <3>5
  <2> QED BY <2>4, <2>5
<1> QED BY <1>5, <1>6

-----------------------------------------------------------------------------
(* A try on what the tries before it left                                  *)

\* The machine that s executes on with all regions mapped.
Armed(s) == Moving(Mapped(s))

\* Each register of an LDM's list may have been loaded by an earlier try; the
\* base has slipped.
LdmLeaves(s, m, k, i) ==
  \A r \in Arm!Register :
     \/ m.regs[r] = Slipped(s, k, i).regs[r]
     \/ /\ r \in i.reg_list \ {i.rn, 15}
        /\ \E j \in 0 .. k - 1 : m.regs[r] = Stepped(Mapped(Slipped(s, j, i))).regs[r]

\* What k failed tries of i that began on s may have left.
ArmLeft(s, m, k, i) ==
  /\ m.handles = s.handles /\ m.cpsr = s.cpsr /\ m.spsr = s.spsr /\ m.lr = s.lr
  /\ m.regs[15] = s.regs[15]
  /\ ArmTaken(s, i) \/ (k = 0 /\ m.mem = s.mem)
  /\ i.op = "Ldm" => m.mem = s.mem /\ (LosesBase(i) \/ LdmLeaves(s, m, k, i))
  /\ i.op = "Stm" => m.regs = s.regs /\ StmLeaves(Armed(s), i, m.mem)
  /\ i.op \notin {"Ldm", "Stm"} => m.regs = s.regs /\ m.mem \in ArmLeaves(Armed(s), i)

\* The machine m is about to try the instruction of s for the k+1st time.
ArmTry(s, m, k) ==
  /\ ProgramOK /\ Prog.arch = "arm"
  /\ s \in ArmMachine(Prog.statuses) /\ InCode(s)
  /\ m \in ArmMachine(Prog.statuses) /\ m.err = "ok"
  /\ k \in Nat
  /\ ArmLeft(s, m, k, Instruction(s))

\* It fails and leaves the machine as k+1 tries may, or ends as with all
\* regions mapped on what has slipped.
ArmTried(s, m, k) ==
  LET i == Instruction(s)
      t == Stepped(m)
  IN /\ t.err = "fault" => ArmLeft(s, t, k + 1, i)
     /\ t.err # "fault" =>
          \/ LosesBase(i)
          \/ t = [Stepped(Mapped(Slipped(s, k, i))) EXCEPT !.mapped = m.mapped]

\* Machines that agree except in the regions mapped.
LEMMA ArmSameBut ==
  ASSUME NEW T, NEW u \in ArmMachine(T), NEW v \in ArmMachine(T),
         u.handles = v.handles, u.err = v.err, u.cpsr = v.cpsr, u.spsr = v.spsr, u.lr = v.lr,
         u.mem = v.mem, u.regs = v.regs
  PROVE  u = Sees(v, u.mapped)
BY DEF ArmMachine, Sees

\* With all regions mapped.
LEMMA MappedParts ==
  ASSUME NEW T, NEW s \in ArmMachine(T)
  PROVE  LET p == Mapped(s)
         IN /\ p \in ArmMachine(T)
            /\ p.mem = s.mem /\ p.mapped = Regions /\ p.handles = s.handles /\ p.err = "ok"
            /\ p.regs = s.regs /\ p.cpsr = s.cpsr /\ p.spsr = s.spsr /\ p.lr = s.lr
<1>1. Mapped(s) \in ArmMachine(T)
  BY DEF Mapped, ArmMachine, Errors
<1>2. /\ Mapped(s).mem = s.mem /\ Mapped(s).mapped = Regions /\ Mapped(s).handles = s.handles
      /\ Mapped(s).err = "ok" /\ Mapped(s).regs = s.regs /\ Mapped(s).cpsr = s.cpsr
      /\ Mapped(s).spsr = s.spsr /\ Mapped(s).lr = s.lr
  BY DEF Mapped, ArmMachine
<1> QED BY <1>1, <1>2

\* What a try executes, and what it would with all regions mapped.
LEMMA ArmTrySetup ==
  ASSUME NEW s, NEW m, NEW k, ArmTry(s, m, k)
  PROVE  LET T == Prog.statuses
             i == Instruction(s)
             p == Slipped(s, k, i)
             w == Moving(m)
             f == Armed(p)
             t == Arm!ExecuteArm(w, i)
             g == Arm!ExecuteArm(f, i)
         IN /\ 15 \notin T /\ i \in Arm!Instr /\ KeepsStatuses(i, T)
            /\ Stepped(m) = Arm!Rewound(m, t)
            /\ Stepped(Mapped(p)) = Arm!Rewound(Mapped(p), g)
            /\ Mapped(p) \in ArmMachine(T) /\ p \in ArmMachine(T)
            /\ w \in ArmMachine(T) /\ f \in ArmMachine(T)
            /\ t \in ArmMachine(T) /\ g \in ArmMachine(T)
            /\ w.mapped = m.mapped /\ w.mem = m.mem /\ w.err = "ok"
            /\ f.mapped = Regions /\ f.mem = s.mem /\ f.err = "ok"
            /\ w.handles = f.handles /\ w.cpsr = f.cpsr /\ w.spsr = f.spsr /\ w.lr = f.lr
            /\ w.handles = s.handles /\ w.cpsr = s.cpsr /\ w.spsr = s.spsr /\ w.lr = s.lr
            /\ w.regs[15] = f.regs[15]
            /\ m.regs[15] = Mapped(p).regs[15]
            /\ \A r \in Arm!Register : r # 15 => w.regs[r] = m.regs[r]
            /\ \A r \in Arm!Register : r # 15 => f.regs[r] = p.regs[r]
            /\ (ArmTaken(w, i) <=> ArmTaken(s, i)) /\ (ArmTaken(f, i) <=> ArmTaken(s, i))
<1> DEFINE T == Prog.statuses
           i == Instruction(s)
           p == Slipped(s, k, i)
           n == Mapped(p)
           w == Moving(m)
           f == Armed(p)
           t == Arm!ExecuteArm(w, i)
           g == Arm!ExecuteArm(f, i)
<1>1. /\ ProgramOK /\ Prog.arch = "arm" /\ s \in ArmMachine(T) /\ InCode(s)
      /\ m \in ArmMachine(T) /\ m.err = "ok" /\ k \in Nat
      /\ m.handles = s.handles /\ m.cpsr = s.cpsr /\ m.spsr = s.spsr /\ m.lr = s.lr
      /\ m.regs[15] = s.regs[15]
  BY DEF ArmTry, ArmLeft
<1>2. 15 \notin T /\ i \in Arm!Instr /\ KeepsStatuses(i, T)
  BY <1>1, ArmStepped
<1> HIDE DEF i
<1>3. /\ p \in ArmMachine(T) /\ p.mem = s.mem /\ p.handles = s.handles
      /\ p.cpsr = s.cpsr /\ p.spsr = s.spsr /\ p.lr = s.lr /\ p.regs[15] = s.regs[15]
  BY <1>1, <1>2, SlippedParts
<1> HIDE DEF p
<1>4. /\ n \in ArmMachine(T) /\ n.mem = s.mem /\ n.mapped = Regions /\ n.handles = s.handles
      /\ n.err = "ok" /\ n.regs = p.regs /\ n.cpsr = s.cpsr /\ n.spsr = s.spsr /\ n.lr = s.lr
  BY <1>3, MappedParts
<1>5. f = Moving(n)
  BY DEF Armed
<1> HIDE DEF n, f, w
<1>6. /\ w \in ArmMachine(T) /\ w.mem = m.mem /\ w.mapped = m.mapped /\ w.handles = m.handles
      /\ w.err = m.err /\ w.cpsr = m.cpsr /\ w.spsr = m.spsr /\ w.lr = m.lr
      /\ w.regs[15] = (m.regs[15] + 4) % M
      /\ \A r \in Arm!Register : r # 15 => w.regs[r] = m.regs[r]
  BY <1>1, <1>2, MovingParts DEF w
<1>7. /\ f \in ArmMachine(T) /\ f.mem = n.mem /\ f.mapped = n.mapped /\ f.handles = n.handles
      /\ f.err = n.err /\ f.cpsr = n.cpsr /\ f.spsr = n.spsr /\ f.lr = n.lr
      /\ f.regs[15] = (n.regs[15] + 4) % M
      /\ \A r \in Arm!Register : r # 15 => f.regs[r] = n.regs[r]
  BY <1>2, <1>4, <1>5, MovingParts
<1>8. t \in ArmMachine(T) /\ g \in ArmMachine(T)
  BY <1>2, <1>6, <1>7, ArmExecutes
<1>9. n.regs[15] = s.regs[15]
  BY <1>3, <1>4
<1>10. InCode(m) /\ InCode(n) /\ Instruction(m) = i /\ Instruction(n) = i
  BY <1>1, <1>9, ArmSameWord DEF i
<1>11. Stepped(m) = Arm!Rewound(m, t)
  BY <1>1, <1>10, ArmStepped DEF w
<1>12. Stepped(n) = Arm!Rewound(n, g)
  BY <1>1, <1>4, <1>5, <1>10, ArmStepped
<1>13. (ArmTaken(w, i) <=> ArmTaken(s, i)) /\ (ArmTaken(f, i) <=> ArmTaken(s, i))
  BY <1>1, <1>4, <1>6, <1>7 DEF ArmTaken
<1>14. w.regs[15] = f.regs[15] /\ m.regs[15] = n.regs[15]
  BY <1>1, <1>6, <1>7, <1>9
<1>15. \A r \in Arm!Register : r # 15 => f.regs[r] = p.regs[r]
  BY <1>4, <1>7
<1> HIDE DEF t, g
<1> QED BY <1>1, <1>2, <1>3, <1>4, <1>6, <1>7, <1>8, <1>11, <1>12, <1>13, <1>14, <1>15
        DEF i, p, n, w, f, t, g

\* A try that ends as with all regions mapped.
LEMMA ArmTryEnds ==
  ASSUME NEW s, NEW m, NEW k, ArmTry(s, m, k),
         Arm!ExecuteArm(Moving(m), Instruction(s))
           = Sees(Arm!ExecuteArm(Armed(Slipped(s, k, Instruction(s))), Instruction(s)), m.mapped),
         Arm!ExecuteArm(Moving(m), Instruction(s)).err # "fault"
  PROVE  ArmTried(s, m, k)
<1> DEFINE T == Prog.statuses
           i == Instruction(s)
           p == Mapped(Slipped(s, k, i))
           t == Arm!ExecuteArm(Moving(m), i)
           g == Arm!ExecuteArm(Armed(Slipped(s, k, i)), i)
<1>1. /\ Stepped(m) = Arm!Rewound(m, t) /\ Stepped(p) = Arm!Rewound(p, g)
      /\ g \in ArmMachine(T) /\ t \in ArmMachine(T) /\ m.regs[15] = p.regs[15]
      /\ m \in ArmMachine(T) /\ 15 \notin T
  BY ArmTrySetup DEF ArmTry
<1>2. t = Sees(g, m.mapped) /\ t.err # "fault"
  OBVIOUS
<1> HIDE DEF t, g, p
<1>3. Arm!Rewound(m, t) = Sees(Arm!Rewound(p, g), m.mapped)
  BY <1>1, <1>2, RewoundAlike
<1>4. Arm!Rewound(m, t).err = t.err
  BY <1>1, RewoundParts
<1> QED BY <1>1, <1>2, <1>3, <1>4 DEF ArmTried, Sees, p

\* An instruction that is not executed.
LEMMA ArmTrySkipped ==
  ASSUME NEW s, NEW m, NEW k, ArmTry(s, m, k), ~ArmTaken(s, Instruction(s)),
         ~LosesBase(Instruction(s))
  PROVE  ArmTried(s, m, k)
<1> DEFINE T == Prog.statuses
           i == Instruction(s)
           p == Slipped(s, k, i)
           w == Moving(m)
           f == Armed(p)
<1>1. /\ 15 \notin T /\ i \in Arm!Instr /\ KeepsStatuses(i, T)
      /\ w \in ArmMachine(T) /\ f \in ArmMachine(T) /\ m \in ArmMachine(T) /\ s \in ArmMachine(T)
      /\ p \in ArmMachine(T)
      /\ w.mapped = m.mapped /\ w.mem = m.mem /\ w.err = "ok"
      /\ f.mem = s.mem /\ f.err = "ok"
      /\ w.handles = f.handles /\ w.cpsr = f.cpsr /\ w.spsr = f.spsr /\ w.lr = f.lr
      /\ w.regs[15] = f.regs[15]
      /\ \A r \in Arm!Register : r # 15 => w.regs[r] = m.regs[r]
      /\ \A r \in Arm!Register : r # 15 => f.regs[r] = p.regs[r]
      /\ ~ArmTaken(w, i) /\ ~ArmTaken(f, i)
  BY ArmTrySetup DEF ArmTry
<1>2. ProgramOK /\ Prog.arch = "arm" /\ ArmLeft(s, m, k, i)
  BY DEF ArmTry
<1>3. k = 0 /\ m.mem = s.mem
  BY <1>2 DEF ArmLeft
<1> HIDE DEF i
<1>4. p = s
  BY <1>1, <1>2, <1>3, NotSlipped
<1> HIDE DEF p, w, f
<1>5. \A r \in Arm!Register : m.regs[r] = s.regs[r]
  <2>1. CASE i.op = "Ldm"
    <3>1. LdmLeaves(s, m, 0, i)
      <4>1. ~LosesBase(i)
        BY DEF i
      <4> QED BY <1>2, <1>3, <2>1, <4>1 DEF ArmLeft
    <3>2. Slipped(s, 0, i) = s
      BY <1>3, <1>4 DEF p
    <3>3. ~ \E j \in 0 .. 0 - 1 : TRUE
      OBVIOUS
    <3> QED BY <3>1, <3>2, <3>3 DEF LdmLeaves
  <2>2. CASE i.op # "Ldm"
    BY <1>2, <2>2 DEF ArmLeft
  <2> QED BY <2>1, <2>2
<1>6. \A r \in Arm!Register : w.regs[r] = f.regs[r]
  BY <1>1, <1>4, <1>5
<1>7. w.regs = f.regs
  BY <1>1, <1>6, ArmRegsEqual
<1>8. w = Sees(f, m.mapped)
  <2>1. w = Sees(f, w.mapped)
    BY <1>1, <1>3, <1>7, ArmSameBut
  <2> QED BY <1>1, <2>1
<1>9. Arm!ExecuteArm(w, i) = w /\ Arm!ExecuteArm(f, i) = f
  BY <1>1, ArmMeaning
<1> QED BY <1>1, <1>8, <1>9, ArmTryEnds DEF i, p, w, f

\* All but an LDM try again on what they began on, but for the memory.
LEMMA ArmTryUnslipped ==
  ASSUME NEW s, NEW m, NEW k, ArmTry(s, m, k), Instruction(s).op # "Ldm"
  PROVE  LET i == Instruction(s)
         IN /\ Slipped(s, k, i) = s /\ ~LosesBase(i)
            /\ m.regs = s.regs /\ Moving(m).regs = Armed(s).regs
<1> DEFINE T == Prog.statuses
           i == Instruction(s)
           p == Slipped(s, k, i)
           w == Moving(m)
           f == Armed(p)
<1>1. /\ 15 \notin T /\ i \in Arm!Instr /\ KeepsStatuses(i, T)
      /\ w \in ArmMachine(T) /\ f \in ArmMachine(T)
      /\ w.regs[15] = f.regs[15]
      /\ \A r \in Arm!Register : r # 15 => w.regs[r] = m.regs[r]
      /\ \A r \in Arm!Register : r # 15 => f.regs[r] = p.regs[r]
  BY ArmTrySetup
<1>2. Prog.arch = "arm" /\ ArmLeft(s, m, k, i) /\ s \in ArmMachine(T) /\ k \in Nat
  BY DEF ArmTry
<1>3. i.op # "Ldm"
  OBVIOUS
<1> HIDE DEF i
<1>4. ~WritesBack(i) /\ ~LosesBase(i)
  BY <1>3 DEF WritesBack, LosesBase
<1>5. p = s
  BY <1>1, <1>2, <1>4, SlippedParts
<1>6. m.regs = s.regs
  BY <1>2, <1>3 DEF ArmLeft
<1> HIDE DEF p, w, f
<1>7. \A r \in Arm!Register : w.regs[r] = f.regs[r]
  BY <1>1, <1>5, <1>6
<1>8. w.regs = f.regs
  BY <1>1, <1>7, ArmRegsEqual
<1>9. f = Armed(s)
  BY <1>5 DEF f
<1> QED BY <1>4, <1>5, <1>6, <1>8, <1>9 DEF i, p, w

\* An instruction that does not touch memory.
LEMMA ArmTryPlain ==
  ASSUME NEW s, NEW m, NEW k, ArmTry(s, m, k), Instruction(s).op \notin ArmTransfers
  PROVE  ArmTried(s, m, k)
<1> DEFINE T == Prog.statuses
           i == Instruction(s)
           p == Slipped(s, k, i)
           w == Moving(m)
           f == Armed(p)
           t == Arm!ExecuteArm(w, i)
           g == Arm!ExecuteArm(f, i)
<1>1. /\ i \in Arm!Instr
      /\ w \in ArmMachine(T) /\ f \in ArmMachine(T)
      /\ w.mapped = m.mapped /\ w.mem = m.mem /\ w.err = "ok"
      /\ f.mem = s.mem /\ f.err = "ok"
      /\ w.handles = f.handles /\ w.cpsr = f.cpsr /\ w.spsr = f.spsr /\ w.lr = f.lr
  BY ArmTrySetup
<1>2. i.op \notin ArmTransfers
  OBVIOUS
<1>3. i.op # "Ldm" /\ i.op # "Stm" /\ i.op \notin ArmStores
  BY <1>2 DEF ArmTransfers, ArmStores
<1>4. p = s /\ w.regs = Armed(s).regs
  BY <1>3, ArmTryUnslipped
<1>5. f = Armed(s) /\ w.regs = f.regs
  BY <1>4
<1>6. m.mem = f.mem
  <2>1. ArmLeft(s, m, k, i)
    BY DEF ArmTry
  <2>2. m.mem \in ArmLeaves(Armed(s), i)
    BY <1>3, <2>1 DEF ArmLeft
  <2> HIDE DEF f, i
  <2> QED BY <1>3, <1>5, <2>2 DEF ArmLeaves
<1> HIDE DEF i, p, w, f
<1>7. w = Sees(f, m.mapped)
  <2>1. w = Sees(f, w.mapped)
    BY <1>1, <1>5, <1>6, ArmSameBut
  <2> QED BY <1>1, <2>1
<1>8. ArmShape(f)
  BY <1>1, ArmShaped
<1>9. ArmAlike(t, g, m.mapped)
  <2>1. ArmAlike(Arm!ExecuteArm(Sees(f, m.mapped), i), Arm!ExecuteArm(f, i), m.mapped)
    BY <1>1, <1>2, <1>8, ArmAlikes
  <2> QED BY <1>7, <2>1
<1>10. t = Sees(g, m.mapped) /\ t.err # "fault"
  <2> HIDE DEF t, g
  <2> QED BY <1>9, ArmSeen DEF ArmAlike
<1> QED BY <1>10, ArmTryEnds DEF i, p, w, f, t, g

\* What a try that faults leaves, when all that it changes is the memory.
LEMMA ArmTryFaults ==
  ASSUME NEW s, NEW m, NEW k, ArmTry(s, m, k), Instruction(s).op # "Ldm",
         ArmTaken(s, Instruction(s)), NEW mem,
         Arm!ExecuteArm(Moving(m), Instruction(s)) = Faulted(Moving(m), mem),
         Instruction(s).op = "Stm" => StmLeaves(Armed(s), Instruction(s), mem),
         Instruction(s).op # "Stm" => mem \in ArmLeaves(Armed(s), Instruction(s))
  PROVE  ArmTried(s, m, k)
<1> DEFINE T == Prog.statuses
           i == Instruction(s)
           w == Moving(m)
           t == Arm!ExecuteArm(w, i)
           z == Stepped(m)
<1>1. /\ 15 \notin T
      /\ Stepped(m) = Arm!Rewound(m, t)
      /\ w \in ArmMachine(T) /\ t \in ArmMachine(T)
      /\ w.handles = s.handles /\ w.cpsr = s.cpsr /\ w.spsr = s.spsr /\ w.lr = s.lr
      /\ \A r \in Arm!Register : r # 15 => w.regs[r] = m.regs[r]
  BY ArmTrySetup
<1>2. t = Faulted(w, mem)
  OBVIOUS
<1>3. m \in ArmMachine(T) /\ s \in ArmMachine(T) /\ ArmLeft(s, m, k, i)
  BY DEF ArmTry
<1>4. m.regs = s.regs /\ m.regs[15] = s.regs[15]
  BY <1>3, ArmTryUnslipped DEF ArmLeft
<1>5. /\ i.op # "Ldm" /\ ArmTaken(s, i)
      /\ i.op = "Stm" => StmLeaves(Armed(s), i, mem)
      /\ i.op # "Stm" => mem \in ArmLeaves(Armed(s), i)
  OBVIOUS
<1> HIDE DEF i, w, t
<1>6. /\ t.err = "fault" /\ t.mem = mem /\ t.handles = w.handles /\ t.cpsr = w.cpsr
      /\ t.spsr = w.spsr /\ t.lr = w.lr /\ t.regs = w.regs
  BY <1>1, <1>2 DEF Faulted, Fails, ArmMachine
<1> HIDE DEF z
<1>7. /\ z.mem = t.mem /\ z.handles = t.handles /\ z.err = t.err
      /\ z.cpsr = t.cpsr /\ z.spsr = t.spsr /\ z.lr = t.lr
      /\ z \in ArmMachine(T) /\ z.regs[15] = m.regs[15]
      /\ \A q \in Arm!Register : q # 15 => z.regs[q] = t.regs[q]
  <2>1. t.err # "ok"
    BY <1>6
  <2> QED BY <1>1, <1>3, <2>1, RewoundParts DEF z
<1>8. \A r \in Arm!Register : z.regs[r] = s.regs[r]
  BY <1>1, <1>4, <1>6, <1>7
<1>9. z.regs = s.regs
  BY <1>3, <1>7, <1>8, ArmRegsEqual
<1>10. ArmLeft(s, z, k + 1, i)
  <2>1. /\ z.handles = s.handles /\ z.cpsr = s.cpsr /\ z.spsr = s.spsr /\ z.lr = s.lr
        /\ z.regs[15] = s.regs[15] /\ z.mem = mem
    BY <1>1, <1>4, <1>6, <1>7
  <2> QED BY <1>5, <1>9, <2>1 DEF ArmLeft
<1>11. z.err = "fault"
  BY <1>6, <1>7
<1> QED BY <1>10, <1>11 DEF ArmTried, i, z

\* A single load or store.
LEMMA ArmTrySingle ==
  ASSUME NEW s, NEW m, NEW k, ArmTry(s, m, k), ArmTaken(s, Instruction(s)),
         Instruction(s) \in Arm!TransferInstr
  PROVE  ArmTried(s, m, k)
<1> DEFINE T == Prog.statuses
           i == Instruction(s)
           p == Slipped(s, k, i)
           w == Moving(m)
           f == Armed(p)
           t == Arm!ExecuteArm(w, i)
           g == Arm!ExecuteArm(f, i)
<1>1. /\ 15 \notin T /\ KeepsStatuses(i, T)
      /\ w \in ArmMachine(T) /\ f \in ArmMachine(T)
      /\ w.mapped = m.mapped /\ w.mem = m.mem /\ w.err = "ok"
      /\ f.mapped = Regions /\ f.err = "ok"
      /\ w.handles = f.handles /\ w.cpsr = f.cpsr /\ w.spsr = f.spsr /\ w.lr = f.lr
      /\ ArmTaken(w, i) /\ ArmTaken(f, i)
  BY ArmTrySetup
<1>2. i \in Arm!TransferInstr /\ ArmTaken(s, i)
  OBVIOUS
<1>3. i.op # "Ldm" /\ i.op # "Stm" /\ i.op \in ArmTransfers
  BY <1>2, ArmVariants DEF ArmTransfers
<1>4. p = s /\ w.regs = Armed(s).regs
  BY <1>3, ArmTryUnslipped
<1>5. f = Armed(s) /\ w.regs = f.regs
  BY <1>4
<1>6. w.mem \in ArmLeaves(f, i)
  <2>1. ArmLeft(s, m, k, i)
    BY DEF ArmTry
  <2>2. m.mem \in ArmLeaves(Armed(s), i)
    BY <1>3, <2>1 DEF ArmLeft
  <2> HIDE DEF f, i, w
  <2> QED BY <1>1, <1>5, <2>2
<1> HIDE DEF i, p, w, f
<1>8. t = Arm!Transfer(w, i) /\ g = Arm!Transfer(f, i)
  BY <1>1, <1>3, ArmMeaning
<1>9. /\ t.err = "fault" => t = Faulted(w, t.mem) /\ t.mem \in ArmLeaves(f, i)
      /\ t.err # "fault" => t = Sees(g, m.mapped)
  <2>1. /\ Arm!Transfer(w, i).err = "fault" =>
             /\ Arm!Transfer(w, i) = Faulted(w, Arm!Transfer(w, i).mem)
             /\ Arm!Transfer(w, i).mem \in ArmLeaves(f, i)
        /\ Arm!Transfer(w, i).err # "fault" =>
             Arm!Transfer(w, i) = Sees(Arm!Transfer(f, i), w.mapped)
    BY <1>1, <1>2, <1>5, <1>6, ArmSingleTried
  <2> HIDE DEF t, g
  <2> QED BY <1>1, <1>8, <2>1
<1>10. CASE t.err = "fault"
  <2>1. t = Faulted(w, t.mem) /\ t.mem \in ArmLeaves(Armed(s), i)
    BY <1>5, <1>9, <1>10
  <2> HIDE DEF t
  <2>2. PICK mem : mem = t.mem
    OBVIOUS
  <2>3. t = Faulted(w, mem) /\ mem \in ArmLeaves(Armed(s), i)
    BY <2>1, <2>2
  <2> QED BY <1>2, <1>3, <2>3, ArmTryFaults DEF i, w, t
<1>11. CASE t.err # "fault"
  <2>1. t = Sees(g, m.mapped)
    BY <1>9, <1>11
  <2> QED BY <1>11, <2>1, ArmTryEnds DEF i, p, w, f, t, g
<1> QED BY <1>10, <1>11

\* STM.
LEMMA ArmTryStm ==
  ASSUME NEW s, NEW m, NEW k, ArmTry(s, m, k), ArmTaken(s, Instruction(s)),
         Instruction(s) \in Arm!BlockTransferInstr, Instruction(s).op = "Stm"
  PROVE  ArmTried(s, m, k)
<1> DEFINE T == Prog.statuses
           i == Instruction(s)
           p == Slipped(s, k, i)
           w == Moving(m)
           f == Armed(p)
           t == Arm!ExecuteArm(w, i)
           g == Arm!ExecuteArm(f, i)
<1>1. /\ 15 \notin T /\ KeepsStatuses(i, T)
      /\ w \in ArmMachine(T) /\ f \in ArmMachine(T)
      /\ w.mapped = m.mapped /\ w.mem = m.mem /\ w.err = "ok"
      /\ f.mapped = Regions /\ f.err = "ok"
      /\ w.handles = f.handles /\ w.cpsr = f.cpsr /\ w.spsr = f.spsr /\ w.lr = f.lr
      /\ ArmTaken(w, i) /\ ArmTaken(f, i)
  BY ArmTrySetup
<1>2. i \in Arm!BlockTransferInstr /\ ArmTaken(s, i) /\ i.op = "Stm"
  OBVIOUS
<1>3. i.op # "Ldm" /\ i.op \in ArmTransfers
  BY <1>2 DEF ArmTransfers
<1>4. p = s /\ w.regs = Armed(s).regs
  BY <1>3, ArmTryUnslipped
<1>5. f = Armed(s) /\ w.regs = f.regs
  BY <1>4
<1>6. StmLeaves(f, i, w.mem)
  <2>1. ArmLeft(s, m, k, i)
    BY DEF ArmTry
  <2>2. StmLeaves(Armed(s), i, m.mem)
    BY <1>2, <2>1 DEF ArmLeft
  <2> HIDE DEF f, i, w
  <2> QED BY <1>1, <1>5, <2>2
<1> HIDE DEF i, p, w, f
<1>8. t = Arm!Stm(w, i) /\ g = Arm!Stm(f, i)
  <2>1. t = Arm!Transfer(w, i) /\ g = Arm!Transfer(f, i)
    BY <1>1, <1>3, ArmMeaning
  <2> QED BY <1>2, <2>1 DEF Arm!Transfer
<1>9. /\ t.err = "fault" => t = Faulted(w, t.mem) /\ StmLeaves(f, i, t.mem)
      /\ t.err # "fault" => t = Sees(g, m.mapped)
  <2>1. /\ Arm!Stm(w, i).err = "fault" =>
             /\ Arm!Stm(w, i) = Faulted(w, Arm!Stm(w, i).mem)
             /\ StmLeaves(f, i, Arm!Stm(w, i).mem)
        /\ Arm!Stm(w, i).err # "fault" =>
             Arm!Stm(w, i) = Sees(Arm!Stm(f, i), w.mapped)
    BY <1>1, <1>2, <1>5, <1>6, StmTried
  <2> HIDE DEF t, g
  <2> QED BY <1>1, <1>8, <2>1
<1>10. CASE t.err = "fault"
  <2>1. t = Faulted(w, t.mem) /\ StmLeaves(Armed(s), i, t.mem)
    BY <1>5, <1>9, <1>10
  <2> HIDE DEF t
  <2>2. PICK mem : mem = t.mem
    OBVIOUS
  <2>3. t = Faulted(w, mem) /\ StmLeaves(Armed(s), i, mem)
    BY <2>1, <2>2
  <2> QED BY <1>2, <1>3, <2>3, ArmTryFaults DEF i, w, t
<1>11. CASE t.err # "fault"
  <2>1. t = Sees(g, m.mapped)
    BY <1>9, <1>11
  <2> QED BY <1>11, <2>1, ArmTryEnds DEF i, p, w, f, t, g
<1> QED BY <1>10, <1>11

\* What a try of LDM that faults leaves in the parts of the machine that are not
\* registers.
LEMMA ArmTryLdmParts ==
  ASSUME NEW s, NEW m, NEW k, ArmTry(s, m, k), ArmTaken(s, Instruction(s)),
         Instruction(s).op = "Ldm"
  PROVE  LET i == Instruction(s)
             t == Arm!Ldm(Moving(m), i)
             z == Stepped(m)
         IN /\ i \in Arm!BlockTransferInstr
            /\ Arm!ExecuteArm(Moving(m), i) = t
            /\ Arm!ExecuteArm(Armed(Slipped(s, k, i)), i) = Arm!Ldm(Armed(Slipped(s, k, i)), i)
            /\ z.err = t.err
            /\ z.mem = s.mem /\ z.handles = s.handles /\ z.cpsr = s.cpsr /\ z.spsr = s.spsr
            /\ z.lr = s.lr /\ (t.err # "ok" => z.regs[15] = s.regs[15])
            /\ \A r \in Arm!Register : r # 15 => z.regs[r] = t.regs[r]
<1> DEFINE T == Prog.statuses
           i == Instruction(s)
           w == Moving(m)
           f == Armed(Slipped(s, k, i))
           t == Arm!Ldm(w, i)
           z == Stepped(m)
<1>1. /\ 15 \notin T /\ i \in Arm!Instr /\ KeepsStatuses(i, T)
      /\ z = Arm!Rewound(m, Arm!ExecuteArm(w, i))
      /\ w \in ArmMachine(T) /\ Arm!ExecuteArm(w, i) \in ArmMachine(T)
      /\ w.mem = m.mem
      /\ w.handles = s.handles /\ w.cpsr = s.cpsr /\ w.spsr = s.spsr /\ w.lr = s.lr
      /\ ArmTaken(w, i) /\ ArmTaken(f, i)
  BY ArmTrySetup
<1>2. i.op = "Ldm"
  OBVIOUS
<1>3. ArmLeft(s, m, k, i) /\ m \in ArmMachine(T)
  BY DEF ArmTry
<1> HIDE DEF i, w, f, z
<1>4. i \in Arm!BlockTransferInstr /\ i.op \in ArmTransfers
  BY <1>1, <1>2, ArmKinds DEF ArmTransfers
<1>5. Arm!ExecuteArm(w, i) = Arm!Transfer(w, i) /\ Arm!ExecuteArm(f, i) = Arm!Transfer(f, i)
  BY <1>1, <1>4, ArmMeaning
<1>6. Arm!ExecuteArm(w, i) = t /\ Arm!ExecuteArm(f, i) = Arm!Ldm(f, i)
  BY <1>2, <1>5 DEF Arm!Transfer
<1>7. t.mem = w.mem /\ t.handles = w.handles /\ t.cpsr = w.cpsr /\ t.spsr = w.spsr /\ t.lr = w.lr
  BY <1>1, <1>2, <1>4, LdmWrites
<1>8. m.mem = s.mem /\ m.regs[15] = s.regs[15]
  BY <1>2, <1>3 DEF ArmLeft
<1> HIDE DEF t
<1>9. /\ z.mem = t.mem /\ z.handles = t.handles /\ z.err = t.err
      /\ z.cpsr = t.cpsr /\ z.spsr = t.spsr /\ z.lr = t.lr
      /\ t.err # "ok" => z.regs[15] = m.regs[15]
      /\ \A q \in Arm!Register : q # 15 => z.regs[q] = t.regs[q]
  BY <1>1, <1>3, <1>6, RewoundParts
<1> QED BY <1>1, <1>4, <1>6, <1>7, <1>8, <1>9 DEF i, w, f, t, z

\* An LDM that loads its base before its last register.
LEMMA ArmTryBaseLost ==
  ASSUME NEW s, NEW m, NEW k, ArmTry(s, m, k), LosesBase(Instruction(s))
  PROVE  ArmTried(s, m, k)
<1> DEFINE T == Prog.statuses
           i == Instruction(s)
           w == Moving(m)
           z == Stepped(m)
<1>1. i.op = "Ldm" /\ LosesBase(i)
  BY DEF LosesBase
<1>2. CASE ArmTaken(s, i)
  <2>1. /\ z.mem = s.mem /\ z.handles = s.handles /\ z.cpsr = s.cpsr /\ z.spsr = s.spsr
        /\ z.lr = s.lr /\ (z.err # "ok" => z.regs[15] = s.regs[15])
    BY <1>1, <1>2, ArmTryLdmParts
  <2> HIDE DEF i, z
  <2>2. z.err = "fault" => ArmLeft(s, z, k + 1, i)
    BY <1>1, <1>2, <2>1 DEF ArmLeft
  <2> QED BY <1>1, <2>2 DEF ArmTried, i, z
<1>3. CASE ~ArmTaken(s, i)
  <2>1. /\ z = Arm!Rewound(m, Arm!ExecuteArm(w, i)) /\ w.err = "ok" /\ ~ArmTaken(w, i)
    BY <1>3, ArmTrySetup
  <2> HIDE DEF i, z, w
  <2>2. Arm!ExecuteArm(w, i) = w
    BY <2>1, ArmMeaning
  <2>3. z.err # "fault"
    BY <2>1, <2>2 DEF Arm!Rewound
  <2> QED BY <1>1, <2>3 DEF ArmTried, i, z
<1> QED BY <1>2, <1>3

\* Any other LDM.
LEMMA ArmTryLdm ==
  ASSUME NEW s, NEW m, NEW k, ArmTry(s, m, k), ArmTaken(s, Instruction(s)),
         Instruction(s).op = "Ldm", ~LosesBase(Instruction(s))
  PROVE  ArmTried(s, m, k)
<1> DEFINE T == Prog.statuses
           i == Instruction(s)
           p == Slipped(s, k, i)
           w == Moving(m)
           f == Armed(p)
           t == Arm!Ldm(w, i)
           g == Arm!Ldm(f, i)
           z == Stepped(m)
           next == Slipped(s, k + 1, i)
           full == Stepped(Mapped(p))
<1>1. /\ 15 \notin T /\ i \in Arm!Instr /\ KeepsStatuses(i, T)
      /\ Mapped(p) \in ArmMachine(T) /\ p \in ArmMachine(T)
      /\ w \in ArmMachine(T) /\ f \in ArmMachine(T)
      /\ full = Arm!Rewound(Mapped(p), Arm!ExecuteArm(f, i))
      /\ Arm!ExecuteArm(f, i) \in ArmMachine(T)
      /\ w.mapped = m.mapped /\ w.mem = m.mem /\ w.err = "ok"
      /\ f.mapped = Regions /\ f.mem = s.mem /\ f.err = "ok"
      /\ w.handles = f.handles /\ w.cpsr = f.cpsr /\ w.spsr = f.spsr /\ w.lr = f.lr
      /\ w.regs[15] = f.regs[15]
      /\ \A r \in Arm!Register : r # 15 => w.regs[r] = m.regs[r]
      /\ \A r \in Arm!Register : r # 15 => f.regs[r] = p.regs[r]
  BY ArmTrySetup
<1>2. /\ i \in Arm!BlockTransferInstr
      /\ Arm!ExecuteArm(w, i) = t /\ Arm!ExecuteArm(f, i) = g
      /\ z.err = t.err
      /\ z.mem = s.mem /\ z.handles = s.handles /\ z.cpsr = s.cpsr /\ z.spsr = s.spsr
      /\ z.lr = s.lr /\ (t.err # "ok" => z.regs[15] = s.regs[15])
      /\ \A r \in Arm!Register : r # 15 => z.regs[r] = t.regs[r]
  BY ArmTryLdmParts
<1>3. i.op = "Ldm" /\ ~LosesBase(i) /\ ArmTaken(s, i)
  OBVIOUS
<1>4. /\ Prog.arch = "arm" /\ s \in ArmMachine(T) /\ m \in ArmMachine(T) /\ k \in Nat
      /\ ArmLeft(s, m, k, i)
  BY DEF ArmTry
<1> HIDE DEF i
<1>5. m.mem = s.mem /\ LdmLeaves(s, m, k, i) /\ k + 1 \in Nat
  BY <1>3, <1>4 DEF ArmLeft
<1>6. i.rn \in Arm!Register
  BY <1>1, <1>2, ArmBlockFields
<1>7. /\ p.regs[15] = s.regs[15] /\ next.regs[15] = s.regs[15]
      /\ \A r \in Arm!Register : r # i.rn => p.regs[r] = s.regs[r] /\ next.regs[r] = s.regs[r]
  BY <1>1, <1>3, <1>4, <1>5, SlippedParts
<1>8. \A r \in Arm!Register :
         \/ m.regs[r] = p.regs[r]
         \/ /\ r \in i.reg_list \ {i.rn, 15}
            /\ \E j \in 0 .. k - 1 : m.regs[r] = Stepped(Mapped(Slipped(s, j, i))).regs[r]
  BY <1>5 DEF LdmLeaves
<1> HIDE DEF p, w, f, z, next, full
<1>9. \A r \in Arm!Register : r \notin i.reg_list \ {i.rn, 15} => w.regs[r] = f.regs[r]
  BY <1>1, <1>8
<1>10. /\ t.err = "fault" =>
             \A r \in Arm!Register :
                \/ t.regs[r] = Arm!BlockMoved(w, i).regs[r]
                \/ r \in i.reg_list \ {i.rn, 15} /\ t.regs[r] = g.regs[r]
       /\ t.err # "fault" => t = Sees(g, w.mapped)
  BY <1>1, <1>2, <1>3, <1>5, <1>9, LdmTried
<1>11. \A r \in Arm!Register : r # i.rn => Arm!BlockMoved(w, i).regs[r] = w.regs[r]
  BY <1>1, <1>2, BlockMovedRegs
<1>12. i.rn # 15 => Arm!BlockMoved(w, i).regs[i.rn] = next.regs[i.rn]
  <2> SUFFICES ASSUME i.rn # 15 PROVE Arm!BlockMoved(w, i).regs[i.rn] = next.regs[i.rn]
    OBVIOUS
  <2>1. w.regs[i.rn] = Slipped(s, k, i).regs[i.rn]
    BY <1>1, <1>6, <1>8 DEF p
  <2> QED BY <1>1, <1>3, <1>4, <2>1, BaseMovesOn DEF next
<1>13. \A r \in Arm!Register : r # 15 => full.regs[r] = g.regs[r]
  BY <1>1, <1>2, RewoundParts
<1> HIDE DEF t, g
<1>14. CASE t.err = "fault"
  <2>1. ASSUME NEW r \in Arm!Register
        PROVE  \/ z.regs[r] = next.regs[r]
               \/ /\ r \in i.reg_list \ {i.rn, 15}
                  /\ \E j \in 0 .. k : z.regs[r] = Stepped(Mapped(Slipped(s, j, i))).regs[r]
    <3>1. CASE r = 15
      BY <1>2, <1>7, <1>14, <3>1
    <3>2. CASE r # 15 /\ r \in i.reg_list \ {i.rn, 15} /\ t.regs[r] = g.regs[r]
      <4>1. z.regs[r] = full.regs[r]
        BY <1>2, <1>13, <3>2
      <4>2. k \in 0 .. k
        BY <1>4
      <4> QED BY <3>2, <4>1, <4>2 DEF full, p
    <3>3. CASE r # 15 /\ t.regs[r] = Arm!BlockMoved(w, i).regs[r] /\ r = i.rn
      BY <1>2, <1>12, <3>3
    <3>4. CASE r # 15 /\ t.regs[r] = Arm!BlockMoved(w, i).regs[r] /\ r # i.rn
      <4>1. z.regs[r] = m.regs[r]
        BY <1>1, <1>2, <1>11, <3>4
      <4>2. CASE m.regs[r] = p.regs[r]
        BY <1>7, <3>4, <4>1, <4>2
      <4>3. CASE /\ r \in i.reg_list \ {i.rn, 15}
                 /\ \E j \in 0 .. k - 1 : m.regs[r] = Stepped(Mapped(Slipped(s, j, i))).regs[r]
        <5>1. 0 .. k - 1 \subseteq 0 .. k
          BY <1>4
        <5> QED BY <4>1, <4>3, <5>1
      <4> QED BY <1>8, <4>2, <4>3
    <3> QED BY <1>10, <1>14, <3>1, <3>2, <3>3, <3>4
  <2>2. LdmLeaves(s, z, k + 1, i)
    <3>1. (k + 1) - 1 = k
      BY <1>4
    <3> QED BY <2>1, <3>1 DEF LdmLeaves, next
  <2>3. z.regs[15] = s.regs[15]
    BY <1>2, <1>14
  <2>4. ArmLeft(s, z, k + 1, i)
    BY <1>2, <1>3, <2>2, <2>3 DEF ArmLeft
  <2>5. z.err = "fault"
    BY <1>2, <1>14
  <2> QED BY <2>4, <2>5 DEF ArmTried, i, z
<1>15. CASE t.err # "fault"
  <2>1. Arm!ExecuteArm(w, i) = Sees(Arm!ExecuteArm(f, i), m.mapped)
    BY <1>1, <1>2, <1>10, <1>15
  <2>2. Arm!ExecuteArm(w, i).err # "fault"
    BY <1>2, <1>15
  <2> QED BY <2>1, <2>2, ArmTryEnds DEF i, p, w, f
<1> QED BY <1>14, <1>15

\* A try of any ARM instruction on what the tries before it left.
LEMMA ArmTryAgain ==
  ASSUME NEW s, NEW m, NEW k, ArmTry(s, m, k)
  PROVE  ArmTried(s, m, k)
<1> DEFINE i == Instruction(s)
<1>1. i \in Arm!Instr
  BY ArmTrySetup
<1>2. CASE LosesBase(i)
  BY <1>2, ArmTryBaseLost
<1>3. CASE ~LosesBase(i) /\ ~ArmTaken(s, i)
  BY <1>3, ArmTrySkipped
<1>4. CASE ~LosesBase(i) /\ ArmTaken(s, i)
  <2>1. CASE i.op \notin ArmTransfers
    BY <2>1, ArmTryPlain
  <2>2. CASE i.op \in ArmTransfers \ {"Ldm", "Stm"}
    <3>1. i \in Arm!TransferInstr
      <4> HIDE DEF i
      <4> QED BY <1>1, <2>2, ArmKinds DEF ArmTransfers
    <3> QED BY <1>4, <3>1, ArmTrySingle
  <2>3. CASE i.op = "Stm"
    <3>1. i \in Arm!BlockTransferInstr
      <4> HIDE DEF i
      <4> QED BY <1>1, <2>3, ArmKinds
    <3> QED BY <1>4, <2>3, <3>1, ArmTryStm
  <2>4. CASE i.op = "Ldm"
    BY <1>4, <2>4, ArmTryLdm
  <2> QED BY <2>1, <2>2, <2>3, <2>4
<1> QED BY <1>2, <1>3, <1>4

-----------------------------------------------------------------------------
(* Tries in a run                                                          *)

\* What k failed tries of i that began on s may have left.
Left(s, m, k, i) == IF Prog.arch = "riscv" THEN RvSame(s, m, i) ELSE ArmLeft(s, m, k, i)

\* What failed tries have left, and how a try that succeeds after them ends: as
\* with all regions mapped on what has slipped.
TriesOK ==
  Prog.arch # "x86" =>
    /\ start \in Machines
    /\ machine.err = "fault" =>
         InCode(start) /\ Left(start, machine, tries + 1, Instruction(start))
    /\ tries > 0 => InCode(start)
    /\ tries > 0 /\ machine.err # "fault" =>
         \/ LosesBase(Instruction(start))
         \/ machine = Sees(Stepped(Mapped(Slipped(start, tries, Instruction(start)))),
                           machine.mapped)

\* The inductive invariant of the tries.
RestartInv == GuestInv /\ tries \in Nat /\ TriesOK

\* Nothing of an RV32I instruction's state slips or is torn.
LEMMA RvSlipped ==
  ASSUME Prog.arch = "riscv", NEW i \in Rv!Instr, NEW m, NEW k
  PROVE  Slipped(m, k, i) = m /\ Torn(i) = {} /\ ~LosesBase(i)
<1>1. i.op \notin {"Ldm", "Push"}
  BY DEF Rv!Instr
<1> QED BY <1>1 DEF Slipped, Torn, LosesBase, WritesBack, MovesStack

\* Programs other than x86's are of one of two processors.
LEMMA TwoProcessors ==
  ASSUME ProgramOK, Prog.arch # "x86"
  PROVE  \/ Prog.arch = "riscv" /\ Machines = RvMachine
         \/ Prog.arch = "arm" /\ Machines = ArmMachine(Prog.statuses)
BY DEF ProgramOK, Machines

\* An instruction begins as no failed try leaves it.
LEMMA LeftBegins ==
  ASSUME ProgramOK, Prog.arch # "x86", NEW s \in Machines, InCode(s)
  PROVE  Left(s, s, 0, Instruction(s))
<1> DEFINE i == Instruction(s)   T == Prog.statuses   f == Armed(s)
<1>1. CASE Prog.arch = "riscv"
  <2>1. s.mem \in IF i.op \in RvStores
          THEN Attempted(s.mem, RvAddress(s, i), Rv!Size(i.op), RvSource(s, i)) ELSE {s.mem}
    BY DEF Attempted
  <2> HIDE DEF i
  <2>2. RvSame(s, s, i)
    BY <2>1 DEF RvSame
  <2> QED BY <1>1, <2>2 DEF Left, i
<1>2. CASE Prog.arch = "arm"
  <2>1. s \in ArmMachine(T)
    BY <1>2, TwoProcessors
  <2>2. i \in Arm!Instr /\ KeepsStatuses(i, T) /\ 15 \notin T
    BY <1>2, <2>1, ArmStepped
  <2> HIDE DEF i, f
  <2>3. Slipped(s, 0, i) = s
    BY <1>2, <2>1, <2>2, NotSlipped
  <2>4. LdmLeaves(s, s, 0, i)
    BY <2>3 DEF LdmLeaves
  <2>5. f.mem = s.mem
    <3>1. Mapped(s) \in ArmMachine(T) /\ Mapped(s).mem = s.mem
      BY <2>1, MappedParts
    <3> QED BY <2>2, <3>1, MovingParts DEF f, Armed
  <2>6. StmLeaves(f, i, s.mem)
    BY <2>5 DEF StmLeaves
  <2>7. s.mem \in ArmLeaves(f, i)
    BY <2>5 DEF ArmLeaves, Attempted
  <2>8. ArmLeft(s, s, 0, i)
    BY <2>4, <2>6, <2>7 DEF ArmLeft, f
  <2> QED BY <1>2, <2>8 DEF Left, i
<1> QED BY <1>1, <1>2, TwoProcessors

\* The machine m once the host has mapped R.
Granted(m, R) == [m EXCEPT !.mapped = @ \cup {R}, !.err = "ok"]

\* Mapping a region does not change what the tries have left.
LEMMA LeftMapped ==
  ASSUME ProgramOK, Prog.arch # "x86", NEW s, NEW m \in Machines, NEW k, NEW i, Left(s, m, k, i),
         NEW R \in Regions
  PROVE  LET n == Granted(m, R)
         IN n \in Machines /\ n.err = "ok" /\ n.mapped = m.mapped \cup {R} /\ Left(s, n, k, i)
<1> DEFINE n == Granted(m, R)
<1>1. CASE Prog.arch = "riscv"
  <2>1. m \in RvMachine /\ RvSame(s, m, i)
    BY <1>1, TwoProcessors DEF Left
  <2>2. n \in RvMachine /\ n.err = "ok" /\ n.mapped = m.mapped \cup {R}
    BY <2>1 DEF RvMachine, Errors, Granted
  <2>3. RvSame(s, n, i)
    BY <2>1 DEF RvSame, RvMachine, Granted
  <2> HIDE DEF n
  <2> QED BY <1>1, <2>2, <2>3, TwoProcessors DEF Left, n
<1>2. CASE Prog.arch = "arm"
  <2> DEFINE T == Prog.statuses
  <2>1. m \in ArmMachine(T) /\ ArmLeft(s, m, k, i)
    BY <1>2, TwoProcessors DEF Left
  <2>2. n \in ArmMachine(T) /\ n.err = "ok" /\ n.mapped = m.mapped \cup {R}
    BY <2>1 DEF ArmMachine, Errors, Granted
  <2>3. /\ n.mem = m.mem /\ n.regs = m.regs /\ n.handles = m.handles /\ n.cpsr = m.cpsr
        /\ n.spsr = m.spsr /\ n.lr = m.lr
    BY <2>1 DEF ArmMachine, Granted
  <2> HIDE DEF n
  <2>4. LdmLeaves(s, m, k, i) => LdmLeaves(s, n, k, i)
    BY <2>3 DEF LdmLeaves
  <2>5. ArmLeft(s, n, k, i)
    BY <2>1, <2>3, <2>4 DEF ArmLeft
  <2> QED BY <1>2, <2>2, <2>5, TwoProcessors DEF Left, n
<1> QED BY <1>1, <1>2, TwoProcessors

\* A try on what the tries before it left.
LEMMA TryAgain ==
  ASSUME ProgramOK, Prog.arch # "x86", NEW s \in Machines, InCode(s), NEW m \in Machines,
         m.err = "ok", NEW k \in Nat, Left(s, m, k, Instruction(s))
  PROVE  LET i == Instruction(s)
             t == Stepped(m)
         IN /\ t.err = "fault" => Left(s, t, k + 1, i)
            /\ t.err # "fault" =>
                 LosesBase(i) \/ t = Sees(Stepped(Mapped(Slipped(s, k, i))), t.mapped)
<1> DEFINE i == Instruction(s)   t == Stepped(m)   full == Stepped(Mapped(Slipped(s, k, i)))
<1>1. CASE Prog.arch = "riscv"
  <2>1. s \in RvMachine /\ m \in RvMachine /\ RvSame(s, m, i)
    BY <1>1, TwoProcessors DEF Left
  <2>2. /\ t.err = "fault" => RvSame(s, t, i)
        /\ t.err # "fault" => t = [Stepped(Mapped(s)) EXCEPT !.mapped = t.mapped]
    BY <1>1, <2>1, RvTryAgain
  <2>3. Slipped(s, k, i) = s
    <3>1. i \in Rv!Instr
      BY <1>1, <2>1, RvStepped
    <3> QED BY <1>1, <3>1, RvSlipped
  <2> QED BY <1>1, <2>2, <2>3 DEF Left, Sees
<1>2. CASE Prog.arch = "arm"
  <2> DEFINE T == Prog.statuses
  <2>1. s \in ArmMachine(T) /\ m \in ArmMachine(T) /\ ArmLeft(s, m, k, i)
    BY <1>2, TwoProcessors DEF Left
  <2>2. ArmTry(s, m, k)
    BY <1>2, <2>1 DEF ArmTry
  <2>3. ArmTried(s, m, k)
    BY <2>2, ArmTryAgain
  <2>4. /\ t.err = "fault" => ArmLeft(s, t, k + 1, i)
        /\ t.err # "fault" => LosesBase(i) \/ t = Sees(full, m.mapped)
    BY <2>3 DEF ArmTried, Sees
  <2>5. full \in ArmMachine(T)
    <3> DEFINE n == Mapped(Slipped(s, k, i))   g == Arm!ExecuteArm(Armed(Slipped(s, k, i)), i)
    <3>1. full = Arm!Rewound(n, g) /\ n \in ArmMachine(T) /\ g \in ArmMachine(T) /\ 15 \notin T
      BY <2>2, ArmTrySetup
    <3> HIDE DEF n, g, full
    <3> QED BY <3>1, RewoundParts
  <2> HIDE DEF full, t
  <2>6. Sees(full, m.mapped).mapped = m.mapped
    BY <2>5, ArmShaped, ArmSeen
  <2> QED BY <1>2, <2>4, <2>6 DEF Left, full, t
<1> QED BY <1>1, <1>2, TwoProcessors

\* What may be left of an instruction depends on no variable but the program.
LEMMA SlippedRigid ==
  ASSUME program' = program, NEW s, NEW k, NEW i
  PROVE  /\ Slipped(s, k, i)' = Slipped(s, k, i)
         /\ Stepped(Mapped(Slipped(s, k, i)))' = Stepped(Mapped(Slipped(s, k, i)))
<1>1. Slipped(s, k, i)' = Slipped(s, k, i)
  BY DEF Slipped, MovesStack, Prog
<1>2. Mapped(Slipped(s, k, i))' = Mapped(Slipped(s, k, i))
  BY <1>1 DEF Mapped
<1> DEFINE a == Mapped(Slipped(s, k, i))
<1>3. a' = a
  BY <1>2
<1> HIDE DEF a
<1>4. Stepped(a)' = Stepped(a)
  BY <1>3 DEF Stepped, Pc, Prog
<1> QED BY <1>1, <1>4 DEF a

\* Nor does what failed tries of it have left.
LEMMA LeftRigid ==
  ASSUME program' = program, NEW s, NEW m, NEW k, NEW i
  PROVE  Left(s, m, k, i)' <=> Left(s, m, k, i)
<1>1. LdmLeaves(s, m, k, i)' <=> LdmLeaves(s, m, k, i)
  <2>1. \A j : Slipped(s, j, i)' = Slipped(s, j, i)
    BY SlippedRigid
  <2>2. \A j : Stepped(Mapped(Slipped(s, j, i)))' = Stepped(Mapped(Slipped(s, j, i)))
    BY SlippedRigid
  <2> QED BY ONLY <2>1, <2>2 DEF LdmLeaves
<1>2. ArmLeft(s, m, k, i)' <=> ArmLeft(s, m, k, i)
  BY <1>1 DEF ArmLeft
<1>3. RvSame(s, m, i)' <=> RvSame(s, m, i)
  OBVIOUS
<1> QED BY <1>2, <1>3 DEF Left, Prog

\* A program begins before its first instruction.
LEMMA RestartInitial == Init => RestartInv
<1> SUFFICES ASSUME Init PROVE RestartInv
  OBVIOUS
<1>1. GuestInv
  BY GuestInitial
<1>2. start = machine /\ tries = 0
  BY DEF Init
<1>3. machine.err = "ok"
  <2>1. PICK k \in DOMAIN Programs : Begins(Programs[k])
    BY DEF Init
  <2>2. PICK regs, flags, mapped : machine = Booted(Programs[k], regs, flags, mapped)
    BY <2>1 DEF Begins
  <2>3. WellFormed(Programs[k])
    BY GuestAssumption
  <2> QED BY <2>2, <2>3, BootedOk
<1>4. start \in Machines
  BY <1>1, <1>2 DEF GuestInv
<1> QED BY <1>1, <1>2, <1>3, <1>4 DEF RestartInv, TriesOK

\* The first try of an instruction leaves it as a try may.
LEMMA RestartStep == RestartInv /\ Step => RestartInv'
<1> SUFFICES ASSUME RestartInv, Step PROVE RestartInv'
  OBVIOUS
<1>1. GuestInv'
  BY GuestStep DEF RestartInv
<1>2. tries' = 0 /\ start' = machine /\ machine' = Stepped(machine) /\ program' = program
      /\ machine.err = "ok" /\ InCode(machine)
  BY DEF Step
<1>3. ASSUME Prog.arch # "x86"
      PROVE  /\ machine \in Machines
             /\ machine'.err = "fault" => Left(machine, machine', 1, Instruction(machine))
  <2>1. ProgramOK /\ machine \in Machines
    BY DEF RestartInv, GuestInv
  <2>2. Left(machine, machine, 0, Instruction(machine))
    BY <1>2, <1>3, <2>1, LeftBegins
  <2>3. 0 \in Nat /\ 0 + 1 = 1
    OBVIOUS
  <2> QED BY <1>2, <1>3, <2>1, <2>2, <2>3, TryAgain
<1>4. /\ InCode(start)' <=> InCode(machine)
      /\ Instruction(start)' = Instruction(machine)
      /\ Machines' = Machines
      /\ Prog' = Prog
  BY <1>2 DEF InCode, Instruction, Pc, Bytes, Prog, Machines
<1>5. Left(start, machine, tries + 1, Instruction(start))'
        <=> Left(machine, machine', 1, Instruction(machine))
  <2>1. tries' + 1 = 1
    BY <1>2
  <2>2. \A s, m, k, i : Left(s, m, k, i)' <=> Left(s, m, k, i)
    BY <1>2, LeftRigid
  <2> QED BY <1>2, <1>4, <2>1, <2>2
<1>6. TriesOK'
  BY <1>2, <1>3, <1>4, <1>5 DEF TriesOK
<1> QED BY <1>1, <1>2, <1>6 DEF RestartInv

\* So does every further try.
LEMMA RestartRetry == \A R \in Regions : RestartInv /\ Retry(R) => RestartInv'
<1> SUFFICES ASSUME NEW R \in Regions, RestartInv, Retry(R) PROVE RestartInv'
  OBVIOUS
<1> DEFINE n == Granted(machine, R)
           i == Instruction(start)
           full == Stepped(Mapped(Slipped(start, tries + 1, i)))
<1>1. GuestInv' /\ tries \in Nat
  BY GuestRetry DEF RestartInv
<1>2. tries' = tries + 1 /\ start' = start /\ machine' = Stepped(n) /\ program' = program
      /\ machine.err = "fault"
  BY DEF Retry, Granted
<1>3. ASSUME Prog.arch # "x86"
      PROVE  /\ start \in Machines /\ InCode(start)
             /\ machine'.err = "fault" => Left(start, machine', tries + 1 + 1, i)
             /\ machine'.err # "fault" => LosesBase(i) \/ machine' = Sees(full, machine'.mapped)
  <2>1. ProgramOK /\ machine \in Machines
    BY <1>3 DEF RestartInv, GuestInv
  <2>2. start \in Machines /\ InCode(start) /\ Left(start, machine, tries + 1, i)
    BY <1>2, <1>3 DEF RestartInv, TriesOK
  <2>3. tries + 1 \in Nat
    BY <1>1
  <2> HIDE DEF i
  <2>4. n \in Machines /\ n.err = "ok" /\ Left(start, n, tries + 1, i)
    BY <1>3, <2>1, <2>2, LeftMapped
  <2> HIDE DEF n, full
  <2>5. /\ Stepped(n).err = "fault" => Left(start, Stepped(n), tries + 1 + 1, i)
        /\ Stepped(n).err # "fault" => LosesBase(i) \/ Stepped(n) = Sees(full, Stepped(n).mapped)
    BY <1>3, <2>1, <2>2, <2>3, <2>4, TryAgain DEF i, full
  <2> QED BY <1>2, <2>2, <2>5
<1>4. /\ InCode(start)' <=> InCode(start)
      /\ Instruction(start)' = Instruction(start)
      /\ Machines' = Machines
      /\ Prog' = Prog
  BY <1>2 DEF InCode, Instruction, Pc, Bytes, Prog, Machines
<1>5. Left(start, machine, tries + 1, Instruction(start))' <=> Left(start, machine', tries + 1 + 1, i)
  <2>1. \A s, m, k, j : Left(s, m, k, j)' <=> Left(s, m, k, j)
    BY <1>2, LeftRigid
  <2> QED BY <1>2, <1>4, <2>1
<1>6. Stepped(Mapped(Slipped(start, tries, Instruction(start))))' = full
  <2>1. \A s, k, j : Stepped(Mapped(Slipped(s, k, j)))' = Stepped(Mapped(Slipped(s, k, j)))
    BY <1>2, SlippedRigid
  <2> QED BY <1>2, <1>4, <2>1
<1>7. TriesOK'
  BY <1>2, <1>3, <1>4, <1>5, <1>6 DEF TriesOK
<1> QED BY <1>1, <1>2, <1>7 DEF RestartInv

\* Every action keeps it.
LEMMA RestartNext == RestartInv /\ [Next]_vars => RestartInv'
<1> SUFFICES ASSUME RestartInv, [Next]_vars PROVE RestartInv'
  OBVIOUS
<1>1. GuestInv'
  BY GuestNext DEF RestartInv
<1>2. CASE Step
  BY <1>2, RestartStep
<1>3. CASE \E R \in Regions : Retry(R)
  BY <1>3, RestartRetry
<1>4. CASE Interrupt \/ Return
  <2>1. tries' = 0 /\ start' = machine' /\ machine.err # "fault" /\ 0 \in Nat
    BY <1>4 DEF Interrupt, Return
  <2>2. machine'.err # "fault"
    <3>1. CASE Interrupt
      BY <2>1, <3>1 DEF Interrupt, Arm!TriggerException
    <3>2. CASE Return
      <4>1. ProgramOK /\ Prog.arch = "arm" /\ machine \in ArmMachine(Prog.statuses)
        BY <3>2 DEF Return, RestartInv, GuestInv, Machines
      <4> QED BY <3>2, <4>1 DEF Return, ArmMachine
    <3> QED BY <1>4, <3>1, <3>2
  <2>3. start' \in Machines'
    BY <1>1, <2>1 DEF GuestInv
  <2> QED BY <1>1, <2>1, <2>2, <2>3 DEF RestartInv, TriesOK
<1>5. CASE UNCHANGED vars
  <2>1. program' = program /\ machine' = machine /\ start' = start /\ tries' = tries
    BY <1>5 DEF vars
  <2>2. /\ InCode(start)' <=> InCode(start)
        /\ Instruction(start)' = Instruction(start)
        /\ Machines' = Machines
        /\ Prog' = Prog
    BY <2>1 DEF InCode, Instruction, Pc, Bytes, Prog, Machines
  <2>3. Left(start, machine, tries + 1, Instruction(start))'
          <=> Left(start, machine, tries + 1, Instruction(start))
    <3>1. \A s, m, k, j : Left(s, m, k, j)' <=> Left(s, m, k, j)
      BY <2>1, LeftRigid
    <3> QED BY <2>1, <2>2, <3>1
  <2>4. Stepped(Mapped(Slipped(start, tries, Instruction(start))))'
          = Stepped(Mapped(Slipped(start, tries, Instruction(start))))
    <3>1. \A s, k, j : Stepped(Mapped(Slipped(s, k, j)))' = Stepped(Mapped(Slipped(s, k, j)))
      BY <2>1, SlippedRigid
    <3> QED BY <2>1, <2>2, <3>1
  <2> QED BY <1>1, <2>1, <2>2, <2>3, <2>4 DEF RestartInv, TriesOK
<1> QED BY <1>2, <1>3, <1>4, <1>5 DEF Next

\* The tries of an instruction leave what the invariant says.
THEOREM RestartInvariant == Spec => []RestartInv
<1>1. Init => RestartInv
  BY RestartInitial
<1>2. RestartInv /\ [Next]_vars => RestartInv'
  BY RestartNext
<1> QED BY <1>1, <1>2, PTL DEF Spec

-----------------------------------------------------------------------------
(* What a fault shows                                                      *)

\* No byte of memory is torn but by an x86 processor.
LEMMA NotTorn ==
  ASSUME ProgramOK, Prog.arch # "x86", NEW s \in Machines, InCode(s)
  PROVE  Torn(Instruction(s)) = {}
<1>1. Instruction(s) \in Rv!Instr \/ Instruction(s) \in Arm!Instr
  <2>1. CASE Prog.arch = "riscv" /\ Machines = RvMachine
    BY <2>1, RvStepped
  <2>2. CASE Prog.arch = "arm" /\ Machines = ArmMachine(Prog.statuses)
    BY <2>2, ArmStepped
  <2> QED BY <2>1, <2>2, TwoProcessors
<1>2. ASSUME NEW i \in Rv!Instr PROVE i.op # "Push"
  BY DEF Rv!Instr
<1>3. ASSUME NEW i \in Arm!Instr PROVE i.op # "Push"
  BY DEF Arm!Instr, Arm!DataProcessingInstr, Arm!MoveInstr, Arm!StatusInstr, Arm!MultiplyInstr,
         Arm!MediaInstr, Arm!TransferInstr, Arm!BlockTransferInstr, Arm!ControlInstr
<1>4. Instruction(s).op # "Push"
  BY <1>1, <1>2, <1>3
<1> QED BY <1>4 DEF Torn

\* An instruction with all regions mapped makes a machine of a machine.
LEMMA CompleteTyped ==
  ASSUME ProgramOK, Prog.arch # "x86", NEW s \in Machines, InCode(s), NEW k \in Nat
  PROVE  Stepped(Mapped(Slipped(s, k, Instruction(s)))) \in Machines
<1> DEFINE i == Instruction(s)   T == Prog.statuses   p == Slipped(s, k, i)
<1>1. CASE Prog.arch = "riscv" /\ Machines = RvMachine
  <2>1. i \in Rv!Instr
    BY <1>1, RvStepped
  <2> HIDE DEF i
  <2>2. p = s
    BY <1>1, <2>1, RvSlipped
  <2>3. Mapped(s) \in RvMachine /\ Mapped(s).pc = s.pc
    BY <1>1 DEF Mapped, RvMachine, Errors
  <2>4. InCode(Mapped(s)) /\ Mapped(s) \in Machines
    BY <1>1, <2>3 DEF InCode, Pc
  <2>5. Stepped(Mapped(s)) \in Machines
    BY <2>4, SteppedType
  <2> HIDE DEF p
  <2> QED BY <2>2, <2>5 DEF i, p
<1>2. CASE Prog.arch = "arm" /\ Machines = ArmMachine(T)
  <2>1. s \in ArmMachine(T)
    BY <1>2
  <2>2. i \in Arm!Instr /\ KeepsStatuses(i, T) /\ 15 \notin T
    BY <1>2, <2>1, ArmStepped
  <2> HIDE DEF i
  <2>3. p \in ArmMachine(T) /\ p.regs[15] = s.regs[15]
    BY <1>2, <2>1, <2>2, SlippedParts
  <2> HIDE DEF p
  <2>4. Mapped(p) \in ArmMachine(T) /\ Mapped(p).regs[15] = s.regs[15]
    BY <2>3, MappedParts
  <2>5. InCode(Mapped(p)) /\ Mapped(p) \in Machines
    BY <1>2, <2>4, ArmSameWord
  <2>6. Stepped(Mapped(p)) \in Machines
    BY <2>5, SteppedType
  <2> QED BY <2>6 DEF i, p
<1> QED BY <1>1, <1>2, TwoProcessors

\* An instruction that faulted can be tried again.
LEMMA Restarts == RestartInv /\ Prog.arch # "x86" => Restartable
<1> SUFFICES ASSUME RestartInv, Prog.arch # "x86", tries > 0, machine.err = "ok",
                    ~LosesBase(Instruction(start))
             PROVE  machine = [Stepped(Mapped(Slipped(start, tries, Instruction(start)))) EXCEPT
                     !.mapped = machine.mapped,
                     !.mem = [c \in Cells |-> IF c \in Torn(Instruction(start)) THEN machine.mem[c] ELSE @[c]]]
  BY DEF Restartable
<1> DEFINE i == Instruction(start)   full == Stepped(Mapped(Slipped(start, tries, i)))
<1>1. /\ ProgramOK /\ tries \in Nat /\ start \in Machines /\ InCode(start)
      /\ machine = Sees(full, machine.mapped)
  BY DEF RestartInv, TriesOK, GuestInv
<1>2. Torn(i) = {}
  BY <1>1, NotTorn
<1>3. full \in Machines
  BY <1>1, CompleteTyped
<1> HIDE DEF full, i
<1>4. full = [full EXCEPT !.mem = full.mem] /\ full.mem = [c \in Cells |-> full.mem[c]]
  <2>1. CASE full \in RvMachine
    BY <2>1 DEF RvMachine
  <2>2. CASE full \in ArmMachine(Prog.statuses)
    BY <2>2 DEF ArmMachine
  <2> QED BY <1>1, <1>3, <2>1, <2>2, TwoProcessors
<1>5. [full EXCEPT !.mapped = machine.mapped, !.mem = [c \in Cells |-> full.mem[c]]]
        = [full EXCEPT !.mapped = machine.mapped]
  <2>1. [full EXCEPT !.mapped = machine.mapped, !.mem = full.mem]
          = [[full EXCEPT !.mem = full.mem] EXCEPT !.mapped = machine.mapped]
    OBVIOUS
  <2> QED BY <1>4, <2>1
<1>6. machine = [full EXCEPT !.mapped = machine.mapped,
                             !.mem = [c \in Cells |-> IF c \in Torn(i) THEN machine.mem[c] ELSE @[c]]]
  BY <1>1, <1>2, <1>5 DEF Sees
<1> QED BY <1>6 DEF i, full

\* What a failed ARM instruction has left of the memory is, byte by byte, of
\* before or after it.
LEMMA ArmPart ==
  ASSUME ProgramOK, Prog.arch = "arm", NEW s \in ArmMachine(Prog.statuses), InCode(s),
         NEW m, NEW k, k # 0, ArmLeft(s, m, k, Instruction(s)), NEW c \in Cells
  PROVE  m.mem[c] = s.mem[c] \/ m.mem[c] = Stepped(Mapped(s)).mem[c]
<1> DEFINE T == Prog.statuses
           i == Instruction(s)
           n == Mapped(s)
           f == Armed(s)
           g == Arm!ExecuteArm(f, i)
<1>1. i \in Arm!Instr /\ KeepsStatuses(i, T) /\ 15 \notin T
  BY ArmStepped
<1>2. /\ ArmTaken(s, i)
      /\ i.op = "Ldm" => m.mem = s.mem
      /\ i.op = "Stm" => StmLeaves(f, i, m.mem)
      /\ i.op \notin {"Ldm", "Stm"} => m.mem \in ArmLeaves(f, i)
  BY DEF ArmLeft
<1>3. /\ n \in ArmMachine(T) /\ n.mem = s.mem /\ n.mapped = Regions /\ n.err = "ok"
      /\ n.cpsr = s.cpsr /\ n.regs = s.regs
  BY MappedParts
<1>4. InCode(n) /\ Instruction(n) = i
  BY <1>3, ArmSameWord
<1>5. f = Moving(n)
  BY DEF Armed
<1> HIDE DEF i, n, f
<1>6. f \in ArmMachine(T) /\ f.mem = s.mem /\ f.mapped = Regions /\ f.err = "ok" /\ f.cpsr = s.cpsr
  BY <1>1, <1>3, <1>5, MovingParts
<1>7. g \in ArmMachine(T)
  BY <1>1, <1>6, ArmExecutes
<1>8. Stepped(n).mem = g.mem
  <2>1. Stepped(n) = Arm!Rewound(n, g)
    BY <1>3, <1>4, <1>5, ArmStepped
  <2> HIDE DEF g
  <2> QED BY <1>1, <1>3, <1>7, <2>1, RewoundParts
<1>9. ArmTaken(f, i)
  BY <1>2, <1>6 DEF ArmTaken
<1>10. CASE i.op = "Ldm"
  BY <1>2, <1>10
<1>11. CASE i.op = "Stm"
  <2>1. i \in Arm!BlockTransferInstr
    BY <1>1, <1>11, ArmKinds
  <2>2. g = Arm!Stm(f, i)
    <3>1. i.op \in ArmTransfers
      BY <1>11 DEF ArmTransfers
    <3>2. g = Arm!Transfer(f, i)
      BY <1>9, <3>1, ArmMeaning
    <3> QED BY <1>11, <3>2 DEF Arm!Transfer
  <2>3. StmLeaves(f, i, f.mem)
    BY DEF StmLeaves
  <2>4. Arm!Stm(f, i).mem = StmMem(f, i)
    BY <1>1, <1>6, <2>1, <2>3, StmTried
  <2>5. g.mem = StmMem(f, i)
    BY <2>2, <2>4
  <2>6. StmLeaves(f, i, m.mem)
    BY <1>2, <1>11
  <2> HIDE DEF g
  <2> QED BY <1>6, <1>8, <2>5, <2>6 DEF StmLeaves, n
<1>12. CASE i.op \notin {"Ldm", "Stm"}
  <2>1. CASE m.mem = f.mem
    BY <1>6, <2>1
  <2>2. CASE m.mem # f.mem
    <3>1. i.op \in ArmStores /\ m.mem \in Attempted(f.mem, ArmAt(f, i), ArmSize(i.op), ArmSource(f, i))
      BY <1>2, <1>12, <2>2 DEF ArmLeaves
    <3>2. Stored(f, ArmAt(f, i), ArmSize(i.op), ArmSource(f, i)) = Faulted(f, m.mem)
      BY <1>6, <2>2, <3>1, AttemptIsPart
    <3>3. g = Arm!Transfer(f, i)
      <4>1. i.op \in ArmTransfers
        BY <3>1 DEF ArmStores, ArmTransfers
      <4> QED BY <1>9, <4>1, ArmMeaning
    <3>4. g = ArmThen(Faulted(f, m.mem), i, Arm!Moved(f, i))
      BY <3>1, <3>2, <3>3, ArmSingleMeaning
    <3>5. Faulted(f, m.mem).err = "fault" /\ Faulted(f, m.mem).mem = m.mem
      BY <1>6 DEF Faulted, Fails, ArmMachine
    <3> HIDE DEF g
    <3>6. g.mem = m.mem
      BY <3>4, <3>5 DEF ArmThen
    <3> QED BY <1>8, <3>6 DEF n
  <2> QED BY <2>1, <2>2
<1> QED BY <1>10, <1>11, <1>12

\* What an RV32I instruction that faulted has left is of a state before or after it.
LEMMA RvIsPartial == RestartInv /\ Prog.arch = "riscv" => FaultIsPartial
<1> SUFFICES ASSUME RestartInv, Prog.arch = "riscv", machine.err = "fault"
             PROVE  Pc(machine) = Pc(start) /\ Between(Instruction(start), Complete(Instruction(start)))
  BY DEF FaultIsPartial
<1> DEFINE i == Instruction(start)   full == Stepped(Mapped(start))
<1>1. start \in RvMachine /\ InCode(start) /\ RvSame(start, machine, i) /\ ProgramOK
      /\ machine \in RvMachine /\ tries \in Nat
  BY DEF RestartInv, TriesOK, GuestInv, Machines, Left
<1>2. i \in Rv!Instr /\ i = Rv!DecodeRiscv(RvWord(start)) /\ RvWord(start) \in SUBSET (0 .. 31)
  BY <1>1, RvStepped
<1>3. full = Rv!RiscvStep(Mapped(start), RvWord(start))
  <2>1. Mapped(start) \in RvMachine /\ Mapped(start).pc = start.pc
    BY <1>1 DEF Mapped, RvMachine, Errors
  <2>2. InCode(Mapped(start)) /\ RvWord(Mapped(start)) = RvWord(start)
    BY <1>1, <2>1 DEF InCode, Pc, RvWord
  <2> HIDE DEF full
  <2>3. Stepped(Mapped(start)) = Rv!RiscvStep(Mapped(start), RvWord(Mapped(start)))
    BY <1>1, <2>1, <2>2, RvStepped
  <2> QED BY <2>2, <2>3 DEF full
<1> HIDE DEF i, full
<1>4. machine.mem = start.mem \/ machine.mem = full.mem
  BY <1>1, <1>2, <1>3, RvPart
<1>5. start \in Complete(i) /\ full \in Complete(i)
  <2>1. 0 \in 0 .. tries + 1 /\ 0 \in 0 .. tries
    BY <1>1
  <2>2. Slipped(start, 0, i) = start
    BY <1>2, RvSlipped
  <2> QED BY <2>1, <2>2 DEF Complete, full
<1>6. machine.regs = start.regs /\ machine.pc = start.pc
  BY <1>1 DEF RvSame
<1>7. Between(i, Complete(i))
  BY <1>4, <1>5, <1>6 DEF Between
<1> QED BY <1>6, <1>7 DEF Pc, i

\* What an ARM instruction that faulted has left is of the states before it and
\* after it, its base slipping.
LEMMA ArmIsPartial == RestartInv /\ Prog.arch = "arm" => FaultIsPartial
<1> SUFFICES ASSUME RestartInv, Prog.arch = "arm", machine.err = "fault"
             PROVE  Pc(machine) = Pc(start) /\ Between(Instruction(start), Complete(Instruction(start)))
  BY DEF FaultIsPartial
<1> DEFINE T == Prog.statuses   i == Instruction(start)   full == Stepped(Mapped(start))
<1>1. /\ start \in ArmMachine(T) /\ InCode(start) /\ ArmLeft(start, machine, tries + 1, i)
      /\ ProgramOK /\ machine \in ArmMachine(T) /\ tries \in Nat
  BY DEF RestartInv, TriesOK, GuestInv, Machines, Left
<1>2. i \in Arm!Instr /\ KeepsStatuses(i, T) /\ 15 \notin T
  BY <1>1, ArmStepped
<1>3. \A c \in Cells : machine.mem[c] = start.mem[c] \/ machine.mem[c] = full.mem[c]
  BY <1>1, ArmPart
<1> HIDE DEF i, full
<1>4. start \in Complete(i) /\ full \in Complete(i)
  <2>1. 0 \in 0 .. tries + 1 /\ 0 \in 0 .. tries
    BY <1>1
  <2>2. Slipped(start, 0, i) = start
    BY <1>1, <1>2, NotSlipped
  <2> QED BY <2>1, <2>2 DEF Complete, full
<1>5. ASSUME ~LosesBase(i)
      PROVE  \A r \in DOMAIN machine.regs : \E m \in Complete(i) : machine.regs[r] = m.regs[r]
  <2>1. CASE i.op = "Ldm"
    <3>1. LdmLeaves(start, machine, tries + 1, i)
      BY <1>1, <1>5, <2>1 DEF ArmLeft
    <3>2. tries + 1 \in 0 .. tries + 1
      BY <1>1
    <3>3. DOMAIN machine.regs = Arm!Register
      BY <1>1 DEF ArmMachine, ArmRegs
    <3>4. Slipped(start, tries + 1, i) \in Complete(i)
      BY <3>2 DEF Complete
    <3>5. \A j \in 0 .. tries : Stepped(Mapped(Slipped(start, j, i))) \in Complete(i)
      BY DEF Complete
    <3>6. ASSUME NEW r \in Arm!Register
          PROVE  \E m \in Complete(i) : machine.regs[r] = m.regs[r]
      <4>1. CASE machine.regs[r] = Slipped(start, tries + 1, i).regs[r]
        BY <3>4, <4>1
      <4>2. CASE \E j \in 0 .. tries :
                   machine.regs[r] = Stepped(Mapped(Slipped(start, j, i))).regs[r]
        BY <3>5, <4>2
      <4>3. 0 .. (tries + 1) - 1 = 0 .. tries
        BY <1>1
      <4> QED BY <3>1, <4>1, <4>2, <4>3 DEF LdmLeaves
    <3> QED BY <3>3, <3>6
  <2>2. CASE i.op # "Ldm"
    <3>1. machine.regs = start.regs
      BY <1>1, <2>2 DEF ArmLeft
    <3> QED BY <1>4, <3>1
  <2> QED BY <2>1, <2>2
<1>6. machine.regs[15] = start.regs[15] /\ machine.cpsr = start.cpsr
  BY <1>1 DEF ArmLeft
<1>7. Between(i, Complete(i))
  BY <1>3, <1>4, <1>5, <1>6 DEF Between
<1> QED BY <1>6, <1>7 DEF Pc, i

\* An RV32I or ARM instruction that faulted can be tried again: rewinding the PC
\* is enough, and the base that an LDM with write-back has moved is the one
\* thing a try that succeeds still shows of those that failed.
THEOREM InstructionsRestart == Spec => [](Prog.arch # "x86" => Restartable)
BY RestartInvariant, Restarts, PTL

\* A fault of an RV32I or ARM instruction shows the host no register and no byte
\* of memory that is neither of before nor of after the instruction.
THEOREM FaultsArePartial == Spec => [](Prog.arch # "x86" => FaultIsPartial)
<1>1. RestartInv /\ Prog.arch # "x86" => FaultIsPartial
  <2>1. RestartInv => ProgramOK
    BY DEF RestartInv, GuestInv
  <2> QED BY <2>1, TwoProcessors, RvIsPartial, ArmIsPartial
<1> QED BY <1>1, RestartInvariant, PTL
=============================================================================
