------------------------------- MODULE Guest --------------------------------
(***************************************************************************)
(* A guest program on one of the three processors: the instructions run    *)
(* one after the other on a machine whose memory the host maps on demand.  *)
(* An instruction that faults is tried again after the host has mapped a   *)
(* region, which is what rewinding the PC is for; on ARM the host may also *)
(* raise an interrupt between two instructions.  The code lies outside the *)
(* data memory, at address 0, so that fetching it always succeeds.         *)
(***************************************************************************)
EXTENDS GuestMemory, Sequences

CONSTANTS
  Programs,   \* a sequence of programs, see Begins below
  Image,      \* the bytes the data memory starts with
  MaxInterrupts   \* bound on the interrupts the host raises

Arm == INSTANCE ArmExecute
Rv == INSTANCE Riscv
X86 == INSTANCE X86Execute

VARIABLES
  program,    \* the program that runs, see Loaded
  machine,    \* the processor and its memory
  first,      \* the machine the program began with
  start,      \* the machine at the beginning of the latest instruction
  tries,      \* how often that instruction has been tried again
  slipped,    \* whether an instruction that cannot be tried again has been
  interrupts  \* how many interrupts the host has raised

vars == << program, machine, first, start, tries, slipped, interrupts >>

\* The architecture, the code (words as sets of bits, or bytes), the address of
\* the interrupt handler or 0, whether a hook handles its system calls, the
\* registers it keeps a status in, and the claim that is made about its end.
Fields == {"arch", "code", "vector", "handles", "statuses", "claim", "about"}
Prog == program
Bytes == IF Prog.arch = "x86" THEN Len(Prog.code) ELSE 4 * Len(Prog.code)

Pc(m) == IF Prog.arch = "arm" THEN m.regs[15] ELSE m.pc
InCode(m) == Pc(m) < Bytes /\ (Prog.arch = "x86" \/ Pc(m) % 4 = 0)

\* step: fetch, decode and execute the instruction at the PC.
Stepped(m) ==
  CASE Prog.arch = "arm" -> Arm!ArmStep(m, Prog.code[(Pc(m) \div 4) + 1])
    [] Prog.arch = "riscv" -> Rv!RiscvStep(m, Prog.code[(Pc(m) \div 4) + 1])
    [] Prog.arch = "x86" -> X86!X86Step(m, SubSeq(Prog.code, Pc(m) + 1, Len(Prog.code)))

Instruction(m) ==
  CASE Prog.arch = "arm" -> Arm!DecodeArm(Prog.code[(Pc(m) \div 4) + 1])
    [] Prog.arch = "riscv" -> Rv!DecodeRiscv(Prog.code[(Pc(m) \div 4) + 1])
    [] Prog.arch = "x86" -> X86!DecodeX86(SubSeq(Prog.code, Pc(m) + 1, Len(Prog.code))).instr

\* Cpu::init, and what the host writes into the registers.
Booted(p, regs, flags, mapped) ==
  LET Given(all) == [r \in DOMAIN all |-> IF r \in DOMAIN regs THEN regs[r] ELSE all[r]]
  IN CASE p.arch = "arm" ->
            [mem |-> Image, mapped |-> mapped, handles |-> p.handles, err |-> "ok",
             regs |-> Given(Arm!ArmInit.regs), cpsr |-> [Arm!ArmInit.cpsr EXCEPT !.flags = flags],
             spsr |-> Arm!ArmInit.spsr, lr |-> Arm!ArmInit.lr]
       [] p.arch = "riscv" ->
            [mem |-> Image, mapped |-> mapped, handles |-> p.handles, err |-> "ok",
             regs |-> Given(Rv!RiscvInit.regs), pc |-> Rv!RiscvInit.pc]
       [] p.arch = "x86" ->
            [mem |-> Image, mapped |-> mapped, handles |-> p.handles, err |-> "ok",
             regs |-> Given(X86!X86Init.regs), pc |-> X86!X86Init.pc,
             flags |-> X86!X86Init.flags \cup flags]

\* p also has the registers and flags the program may begin with, and the
\* regions that may be mapped from the start.
Begins(p) ==
  /\ program = [f \in Fields |-> p[f]]
  /\ \E regs \in p.regs, flags \in p.flags, mapped \in p.mapped :
        machine = Booted(p, regs, flags, mapped)

Init ==
  /\ \E k \in DOMAIN Programs : Begins(Programs[k])
  /\ first = machine
  /\ start = machine
  /\ tries = 0
  /\ slipped = FALSE
  /\ interrupts = 0

-----------------------------------------------------------------------------
\* MRS puts a status in a register, which no other instruction may then read
\* or write as a word, except MSR.

OperandRegisters(o) ==
  IF "val" \in DOMAIN o THEN {}
  ELSE {o.rm} \cup (IF "rs" \in DOMAIN o.shift THEN {o.shift.rs} ELSE {})

WordRegisters(i) ==
  CASE i.op \in {Arm!DataOps[k] : k \in 1 .. 16} -> {i.rd, i.rn} \cup OperandRegisters(i.op2)
    [] i.op \in {"Movw", "Movt", "Bfc"} -> {i.rd}
    [] i.op = "Mul" -> {i.rd, i.rm, i.rs}
    [] i.op = "Mla" -> {i.rd, i.rm, i.rs, i.rn}
    [] i.op \in {"Umull", "Umlal", "Smull", "Smlal"} -> {i.rd_lo, i.rd_hi, i.rm, i.rs}
    [] i.op \in {"Bfi", "Ubfx", "Sbfx"} -> {i.rd, i.rn}
    [] i.op \in {"Rev", "Rev16", "Revsh", "Clz"} -> {i.rd, i.rm}
    [] i.op \in {"Sxtb", "Sxth", "Uxtb", "Uxth"} -> {i.rd, i.rm} \cup i.rn
    [] i.op \in {"Ldr", "Str", "Ldrb", "Strb", "Ldrh", "Strh", "Ldrsb", "Ldrsh"} ->
         {i.rd, i.rn} \cup OperandRegisters(i.offset)
    [] i.op \in {"Ldm", "Stm"} -> {i.rn} \cup i.reg_list
    [] i.op \in {"Bx", "Blx"} -> {i.rm}
    [] OTHER -> {}

KeepsStatuses(i, statuses) ==
  IF i.op = "Mrs" THEN i.rd \in statuses ELSE WordRegisters(i) \cap statuses = {}

-----------------------------------------------------------------------------
\* What the programs may be: any words or bytes for code, any data, and on ARM
\* no instruction that would take a status for a word.

WellFormed(p) ==
  /\ p.vector \in Word
  /\ p.handles \in BOOLEAN
  /\ \A regs \in p.regs : \A r \in DOMAIN regs : regs[r] \in Word
  /\ p.mapped \subseteq SUBSET Regions
  /\ \/ /\ p.arch = "arm"
        /\ p.code \in Seq(SUBSET (0 .. 31))
        /\ p.flags \subseteq SUBSET Arm!CpsrBit
        /\ 15 \notin p.statuses
        /\ \A k \in DOMAIN p.code : KeepsStatuses(Arm!DecodeArm(p.code[k]), p.statuses)
     \/ /\ p.arch = "riscv"
        /\ p.code \in Seq(SUBSET (0 .. 31))
        /\ p.statuses = {}
     \/ /\ p.arch = "x86"
        /\ p.code \in Seq(0 .. 255)
        /\ p.flags \subseteq SUBSET X86!EFlags
        /\ p.statuses = {}

ASSUME GuestAssumption ==
  /\ Image \in [Cells -> 0 .. Span(1) - 1]
  /\ \A k \in DOMAIN Programs : WellFormed(Programs[k])

\* No block of sixteen registers is so long that it wraps onto itself.
ASSUME BlocksAssumption == ByteBits >= 2

-----------------------------------------------------------------------------
\* What a failed try leaves behind that the next one starts from: PUSH and
\* CALL have moved ESP, LDM with write-back has moved its base.  LDM has lost
\* its base if it has loaded it before it fails at a later register.

WritesBack(i) == i.op = "Ldm" /\ i.w /\ i.rn # 15
LosesBase(i) == i.op = "Ldm" /\ i.rn \in i.reg_list /\ \E q \in i.reg_list : q > i.rn
MovesStack(i) == Prog.arch = "x86" /\ i.op \in {"Push", "Call"}
Slips(i) == WritesBack(i) \/ LosesBase(i) \/ MovesStack(i)

\* The machine m after k failed tries of instruction i.
Slipped(m, k, i) ==
  LET total == 4 * Cardinality(i.reg_list)
  IN CASE WritesBack(i) ->
            [m EXCEPT !.regs[i.rn] = (IF i.u THEN @ + k * total ELSE @ - k * total) % M]
       [] MovesStack(i) ->
            [m EXCEPT !.regs[X86!ESP] =
               (@ - k * (IF i.op = "Call" THEN 4 ELSE X86!StackSize(i.dest))) % M]
       [] OTHER -> m

-----------------------------------------------------------------------------
Step ==
  /\ machine.err = "ok"
  /\ InCode(machine)
  /\ machine' = Stepped(machine)
  /\ start' = machine
  /\ tries' = 0
  /\ UNCHANGED << program, first, slipped, interrupts >>

\* After a fault the host maps a region and calls step again.
Retry(R) ==
  /\ machine.err = "fault"
  /\ R \notin machine.mapped
  /\ machine' = Stepped([machine EXCEPT !.mapped = @ \cup {R}, !.err = "ok"])
  /\ tries' = tries + 1
  /\ slipped' = (slipped \/ Slips(Instruction(start)))
  /\ UNCHANGED << program, first, start, interrupts >>

\* The host raises an interrupt, unless one is being handled.
Interrupt ==
  /\ Prog.arch = "arm"
  /\ interrupts < MaxInterrupts
  /\ machine.err = "ok"
  /\ Pc(machine) < Prog.vector
  /\ "I" \notin machine.cpsr.flags
  /\ machine' = Arm!TriggerException(machine, "Irq", Prog.vector)
  /\ start' = machine'
  /\ tries' = 0
  /\ interrupts' = interrupts + 1
  /\ UNCHANGED << program, first, slipped >>

\* No instruction reads the banked return address: the handler ends in a
\* breakpoint, and the host takes the address from banked_lr.
Return ==
  /\ Prog.arch = "arm"
  /\ machine.err = "breakpoint"
  /\ Prog.vector > 0 /\ Pc(machine) >= Prog.vector
  /\ machine' = [machine EXCEPT !.regs[15] = machine.lr["Irq"], !.err = "ok"]
  /\ start' = machine'
  /\ tries' = 0
  /\ UNCHANGED << program, first, slipped, interrupts >>

Next == Step \/ Interrupt \/ Return \/ \E R \in Regions : Retry(R)

Spec == Init /\ [][Next]_vars

-----------------------------------------------------------------------------
(* Properties                                                              *)

Errors == {"ok", "fault", "panic", "invalid", "breakpoint", "not_implemented", "device"}
Status == [flags : SUBSET Arm!CpsrBit, mode : Arm!Mode]

\* Every register of the machine holds a word, those that MRS writes aside; the
\* decoder makes of every word and of every byte sequence an instruction of
\* the type the executor expects.
TypeOK ==
  /\ machine.err \in Errors
  /\ machine.mem \in [Cells -> 0 .. Span(1) - 1]
  /\ machine.mapped \subseteq Regions
  /\ \A r \in DOMAIN machine.regs \ Prog.statuses : machine.regs[r] \in Word
  /\ Prog.arch = "arm" => machine.cpsr \in Status
  /\ Prog.arch = "x86" => machine.flags \subseteq X86!EFlags
  /\ InCode(machine) => Instruction(machine) \in
        (CASE Prog.arch = "arm" -> Arm!Instr
           [] Prog.arch = "riscv" -> Rv!Instr
           [] Prog.arch = "x86" -> X86!Instr)

\* The machine a try begins with once every region is mapped.
Mapped(m) == [m EXCEPT !.mapped = Regions, !.err = "ok"]

\* "REWIND EIP so the debugger highlights the exact faulting line": rewinding
\* the PC is enough to try an instruction again.  An instruction that faulted,
\* in the middle of a block transfer or of a repeated string operation, with a
\* halfword half written, ends as if all its memory had been there from the
\* start, and PUSH, CALL and LDM with write-back end as if they had begun with
\* the stack or base that their failed tries left.  The low byte of a 16 bit
\* PUSH that failed at the end of a region stays where it is.  An LDM that has
\* loaded its own base cannot be tried again.
Torn(i) ==
  IF i \in [op : {"Push"}, dest : [kind : {"reg"}, size : {2}, reg : X86!GpReg]]
  THEN {(start.regs[X86!ESP] - 2 * k) % M : k \in 1 .. tries} ELSE {}

Restartable ==
  LET Restarts(i) ==
        machine = [Stepped(Mapped(Slipped(start, tries, i))) EXCEPT
                     !.mapped = machine.mapped,
                     !.mem = [c \in Cells |-> IF c \in Torn(i) THEN machine.mem[c] ELSE @[c]]]
  IN tries > 0 /\ machine.err = "ok" =>
       LosesBase(Instruction(start)) \/ Restarts(Instruction(start))

\* A fault shows the host no state that is neither before nor after the
\* instruction: the PC is on it, and each byte of memory, each register and
\* the flags have their old value or the one a complete try would give them.
\* The base that an LDM with write-back has moved and would have loaded too has
\* neither.  LEAVE (ESP is EBP), repeated string operations (the registers say
\* how far it got) and an LDM that has loaded its own base are the exceptions.
Repeats(i) == "rep" \in DOMAIN i /\ i.rep # {}

\* The machines a byte or a register may have its value from.
Complete(i) ==
  {Slipped(start, k, i) : k \in 0 .. tries + 1}
    \cup {Stepped(Mapped(Slipped(start, k, i))) : k \in 0 .. tries}

Between(i, machines) ==
  /\ \A c \in Cells : \E m \in machines : machine.mem[c] = m.mem[c]
  /\ ~Repeats(i) /\ ~LosesBase(i) =>
        /\ \A r \in DOMAIN machine.regs :
              \/ \E m \in machines : machine.regs[r] = m.regs[r]
              \/ i.op = "Leave" /\ r = X86!ESP /\ machine.regs[r] = start.regs[X86!EBP]
        /\ Prog.arch = "x86" => machine.flags = start.flags
        /\ Prog.arch = "arm" => machine.cpsr = start.cpsr

FaultIsPartial ==
  LET Partial(i) == Between(i, Complete(i))
  IN machine.err = "fault" => Pc(machine) = Pc(start) /\ Partial(Instruction(start))

=============================================================================
