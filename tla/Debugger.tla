------------------------------ MODULE Debugger ------------------------------
(***************************************************************************)
(* The registers of a processor as the host sees them, by number: reg_read *)
(* and reg_write of src/emu.rs, its start, and the debugger of src/gdb.rs, *)
(* which transfers the sixteen registers and the CPSR of an ARM whatever   *)
(* processor it finds.  What the guest makes of its registers while it     *)
(* runs is left open.                                                      *)
(***************************************************************************)
EXTENDS Integers, Sequences, FiniteSets

CONSTANTS
    WordLimit,   \* number of values of a register; stands for 2^32
    HostValues,  \* the u64 values the host writes
    Ids,         \* the register numbers the host uses
    Pictures,    \* the registers a debugger may write: [r, cpsr]
    Supervisor,  \* the CPSR of ARM at the beginning
    Rsvd1        \* the EFLAGS of x86 at the beginning

ASSUME DebuggerAssumption ==
    /\ WordLimit \in Nat \ {0}
    /\ HostValues \subseteq Nat
    /\ Ids \subseteq Nat
    /\ Supervisor \in 0 .. WordLimit - 1 /\ Rsvd1 \in 0 .. WordLimit - 1
    /\ Pictures \subseteq [r : [0 .. 15 -> 0 .. WordLimit - 1], cpsr : 0 .. WordLimit - 1]

Value   == 0 .. WordLimit - 1
Arch    == {"arm", "riscv", "x86"}
Picture == [r : [0 .. 15 -> Value], cpsr : Value]

VARIABLES
    arch,     \* the processor
    regs,     \* its registers by number: the CPSR of ARM is 16, the PC of RISC-V 32
    picture,  \* what the debugger has last read or written
    agreed,   \* whether nobody has touched the registers since
    state,    \* "idle", "started" and "running" inside start, or "panicked"
    aim       \* what start was asked for, until the guest runs

debugVars == <<arch, regs, picture, agreed, state, aim>>

LastId(a) == CASE a = "arm" -> 16 [] a = "riscv" -> 32 [] a = "x86" -> 15
PcId(a)   == CASE a = "arm" -> 15 [] a = "riscv" -> 32 [] a = "x86" -> 8
SpId(a)   == CASE a = "arm" -> 13 [] a = "riscv" -> 2  [] a = "x86" -> 4

Pc == regs[PcId(arch)]

\* Mutant: the last register is not among the known ones.
KnownTooFew(a, id) == id < LastId(a)

\* A number beyond the last register is InvalidRegister, an index out of bounds
\* on x86.
Known(a, id) == id <= LastId(a)

\* Mutant: all 64 bits of the value are kept.
WrittenWhole(a, rs, id, val) ==
    IF ~Known(a, id) \/ (a = "riscv" /\ id = 0) THEN rs ELSE [rs EXCEPT ![id] = val]

\* write_reg: the value as u32; x0 of RISC-V stays zero.
Written(a, rs, id, val) ==
    IF ~Known(a, id) \/ (a = "riscv" /\ id = 0) THEN rs
    ELSE [rs EXCEPT ![id] = val % WordLimit]

NoAim == [entry |-> 0, sp |-> 0]

DebuggerInit ==
    /\ arch \in Arch
    /\ regs = [id \in 0 .. LastId(arch) |->
                  CASE arch = "arm" /\ id = 16 -> Supervisor
                    [] arch = "x86" /\ id = 9  -> Rsvd1
                    [] OTHER                   -> 0]
    /\ picture = [r |-> [i \in 0 .. 15 |-> 0], cpsr |-> 0]
    /\ agreed = FALSE
    /\ state = "idle"
    /\ aim = NoAim

-----------------------------------------------------------------------------
(* The host                                                                *)

\* reg_write.  InvalidRegister changes nothing; x86 panics instead.
HostWrites(id, val) ==
    /\ state = "idle"
    /\ regs' = Written(arch, regs, id, val)
    /\ state' = IF arch = "x86" /\ ~Known(arch, id) THEN "panicked" ELSE state
    /\ agreed' = FALSE
    /\ UNCHANGED <<arch, picture, aim>>

\* start writes registers 15 and 13, and then runs until an error.
Start(entry, sp) ==
    /\ state = "idle"
    /\ regs' = Written(arch, Written(arch, regs, 15, entry), 13, sp)
    /\ state' = "started"
    /\ agreed' = FALSE
    /\ aim' = [entry |-> entry, sp |-> sp]
    /\ UNCHANGED <<arch, picture>>

\* step_batch by start or by the host: the guest changes a register, the
\* loop of start ends with an error of the guest only.
Runs ==
    /\ state \in {"idle", "started", "running"}
    /\ \E id \in Ids \cap DOMAIN regs, val \in HostValues : regs' = Written(arch, regs, id, val)
    /\ agreed' = FALSE
    /\ state' \in IF state = "idle" THEN {"idle"} ELSE {"running", "idle"}
    /\ aim' = NoAim
    /\ UNCHANGED <<arch, picture>>

-----------------------------------------------------------------------------
(* The debugger                                                            *)

\* read_registers unwraps reg_read(16).
ReadRegisters ==
    /\ state = "idle"
    /\ IF Known(arch, 16)
       THEN /\ picture' = [r |-> [i \in 0 .. 15 |-> regs[i]], cpsr |-> regs[16]]
            /\ agreed' = TRUE
            /\ UNCHANGED state
       ELSE state' = "panicked" /\ UNCHANGED <<picture, agreed>>
    /\ UNCHANGED <<arch, regs, aim>>

\* The sixteen registers one by one, as far as the processor knows them.
AllWritten(p) ==
    [id \in DOMAIN regs |-> IF id \in 0 .. 15 THEN Written(arch, regs, id, p.r[id])[id] ELSE regs[id]]

\* write_registers: the same of reg_write(16).
WriteRegisters(p) ==
    /\ state = "idle"
    /\ regs' = Written(arch, AllWritten(p), 16, p.cpsr)
    /\ state' = IF Known(arch, 16) THEN state ELSE "panicked"
    /\ picture' = p
    /\ agreed' = Known(arch, 16)
    /\ UNCHANGED <<arch, aim>>

\* resume and step return without running the guest.
Resumes ==
    /\ state = "idle"
    /\ UNCHANGED debugVars

DebuggerNext ==
    \/ \E id \in Ids, val \in HostValues : HostWrites(id, val)
    \/ \E entry, sp \in HostValues : Start(entry, sp)
    \/ Runs
    \/ ReadRegisters
    \/ \E p \in Pictures : WriteRegisters(p)
    \/ WriteRegisters(picture)
    \/ Resumes

DebuggerSpec == DebuggerInit /\ [][DebuggerNext]_debugVars

-----------------------------------------------------------------------------
(* Properties                                                              *)

DebuggerTypeOK ==
    /\ arch \in Arch
    /\ regs \in [0 .. LastId(arch) -> Value]
    /\ picture \in Picture
    /\ agreed \in BOOLEAN
    /\ state \in {"idle", "started", "running", "panicked"}
    /\ aim \in [entry : Nat, sp : Nat]

\* Until somebody else touches the registers, the debugger's picture is what the
\* processor has, read or written, but for x0 of RISC-V, which no write reaches;
\* so writing back what was read disturbs nothing.
PictureAgrees ==
    agreed =>
        /\ \A i \in 0 .. 15 : regs[i] = IF arch = "riscv" /\ i = 0 THEN 0 ELSE picture.r[i]
        /\ regs[16] = picture.cpsr

\* On ARM, where 15 and 13 are the PC and the stack pointer ("15 = PC, 13 = SP for
\* standard ARM"), start hands the guest the entry point and the stack it was given.
StartsOnArm ==
    state = "started" /\ arch = "arm" =>
        Pc = aim.entry % WordLimit /\ regs[SpId(arch)] = aim.sp % WordLimit

\* Where registers beyond the last are an error, no access stops the host.
NoPanicOffX86 == arch # "x86" => state # "panicked"

\* The debugger and start on the processor they were written for, and as far as
\* the others have the registers they name.
DebuggerAgrees == PictureAgrees /\ StartsOnArm /\ NoPanicOffX86

\* start "starts execution from a given point" (emu.rs), on whatever processor.
StartsAtEntryPoint == state = "started" => Pc = aim.entry % WordLimit
=============================================================================
