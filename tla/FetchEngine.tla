---------------------------- MODULE FetchEngine -----------------------------
(***************************************************************************)
(* The execution loop as src/arch/armv7/mod.rs implements it (and, with    *)
(* the same lines, src/arch/rv32i/mod.rs): StepLoop with a direct pointer  *)
(* into the code's RAM, refreshed only when the PC leaves it, and a        *)
(* direct-mapped cache of decoded instructions.                            *)
(***************************************************************************)
EXTENDS StepLoop

CONSTANT CacheSize   \* DECODE_CACHE_SIZE

ASSUME CacheAssumption == CacheSize \in Nat \ {0}

VARIABLES
    win,     \* fetch_slice, fetch_base, fetch_len
    cache    \* cache_tags, cache_raw, cache_instrs

engineVars == <<win, cache>>
vars == <<regions, heap, pc, call, win, cache>>

Slot     == 0 .. CacheSize - 1
SlotOf(p) == (p \div ILen) % CacheSize

\* The tag of an empty slot, 0xFFFFFFFF, is a PC like any other.
EmptyTag   == PcLimit - 1
EmptyEntry == [tag |-> EmptyTag, raw |-> NoWord, instr |-> "undef"]

Init ==
    /\ LoopInit
    /\ win = [buf |-> NoBuf, base |-> 0, len |-> 0]
    /\ cache = [s \in Slot |-> EmptyEntry]

-----------------------------------------------------------------------------
\* Mutant: a PC below the window is not noticed.
LeavesWindowAbove == NextPc(pc) > (win.base + win.len) % PcLimit

\* The test that guards refresh_fetch_ptr, in u32 arithmetic.
LeavesWindow ==
    \/ pc < win.base
    \/ NextPc(pc) > (win.base + win.len) % PcLimit

\* Mutant: the window is taken to begin at the PC.
RefreshAtPc ==
    \E i \in Owners(regions, pc) :
        /\ regions[i].kind = "ram"
        /\ win' = [buf |-> regions[i].buf, base |-> pc, len |-> regions[i].len]

\* refresh_fetch_ptr: the pointer, base and length of the Ram that holds the
\* PC.  The rest of the word is not looked at.
Refresh ==
    \E i \in Owners(regions, pc) :
        /\ regions[i].kind = "ram"
        /\ win' = [buf |-> regions[i].buf, base |-> regions[i].start, len |-> regions[i].len]

EnterWindow ==
    /\ call.phase = "fetch"
    /\ \/ ~LeavesWindow /\ Proceed /\ UNCHANGED win
       \/ LeavesWindow /\ Refresh /\ Proceed
       \/ LeavesWindow /\ ~Executable(pc) /\ Fail /\ UNCHANGED win
    /\ UNCHANGED cache

\* The Ram behind the pointer has not been dropped.
WindowLive ==
    \E i \in DOMAIN regions :
        /\ regions[i].buf = win.buf
        /\ regions[i].start = win.base
        /\ regions[i].len = win.len

\* The unchecked read through the pointer.  Behind the end of the buffer, and
\* in a buffer that was dropped, it reads whatever is there.
PointerReads ==
    LET off == call.at - win.base
    IN  IF win.buf # NoBuf /\ WindowLive /\ off >= 0 /\ off + ILen <= win.len
        THEN {BytesAt(heap[win.buf], off, ILen)}
        ELSE Word

\* Mutant: the tag alone decides.
HitByTag(raw) == cache[SlotOf(call.at)].tag = call.at

Hit(raw) == LET e == cache[SlotOf(call.at)] IN e.tag = call.at /\ e.raw = raw

ReadThroughPointer ==
    /\ call.phase = "read"
    /\ \E raw \in PointerReads :
          \/ /\ Hit(raw)
             /\ Decoded(raw, cache[SlotOf(call.at)].instr)
             /\ UNCHANGED cache
          \/ /\ ~Hit(raw)
             /\ Decoded(raw, Decode[raw])
             /\ cache' = [cache EXCEPT ![SlotOf(call.at)] =
                             [tag |-> call.at, raw |-> raw, instr |-> Decode[raw]]]
    /\ UNCHANGED win

-----------------------------------------------------------------------------
Step ==
    \/ EnterWindow
    \/ CodeHook /\ UNCHANGED engineVars
    \/ ReadThroughPointer
    \/ Execute /\ UNCHANGED engineVars
    \/ InterruptHook /\ UNCHANGED engineVars

Next ==
    \/ Host /\ UNCHANGED engineVars
    \/ \E max \in 0 .. MaxBatch : Begin(max) /\ UNCHANGED engineVars
    \/ Step

Spec == Init /\ [][Next]_vars

\* A call runs on the host's thread until it returns: hooks return, and nothing
\* else runs in between.
FairSpec == Spec /\ WF_vars(Step)

-----------------------------------------------------------------------------
(* Properties                                                              *)

Call  == [phase : Phases, at : Pc, raw : Word, instr : Instr, hook : Nat,
          max : Nat, count : Nat, ok : BOOLEAN, from : Pc]
Entry == [tag : Pc, raw : Word, instr : Instr]

\* The values every variable ranges over.
TypeOK ==
    /\ regions \in Seq(Region)
    /\ heap \in [Buf -> Content]
    /\ pc \in Pc
    /\ call \in Call
    /\ win \in [buf : Buf \cup {NoBuf}, base : Nat, len : Nat]
    /\ cache \in [Slot -> Entry]

\* The decode cache never shows: the instruction about to execute is the
\* decoding of the word that was read for it, after code was overwritten, after
\* another instruction took the slot, after the code was unmapped and replaced.
\* The PC whose value marks empty slots is excepted, unless an empty slot
\* happens to hold what the zero word decodes to.
ExecutesWhatWasRead ==
    call.phase \in {"execute", "interrupt hook"} =>
        \/ call.instr = Decode[call.raw]
        \/ call.at = EmptyTag /\ call.raw = NoWord

\* The pointer is null, or the buffer, start and length of a mapped region.
WindowIsARegion == win.buf # NoBuf => WindowLive

\* There is one way only to come to a dangling pointer: the host or a hook unmaps
\* the region it was taken from (mem_unmap, bus.unmap).  No mapping, no other
\* unmapping, no patch and no step of the engine does it, and a refreshed pointer
\* never dangles, even if the one before it did.
OnlyUnmapDangles ==
    [][ /\ win' # win => WindowIsARegion'
        /\ WindowIsARegion /\ ~WindowIsARegion' =>
              /\ call.phase \in {"idle", "code hook", "interrupt hook"}
              /\ regions' \in Retained(regions, win.base) ]_vars

\* Fetching is reading the bus (docs/plan.md: "let instr = bus.read_32(self.pc())?"):
\* the word executed is the one the bus holds at that address, and there is one.
FetchIsBusRead ==
    [][call.phase = "read" => IsBusWord(call.at, call'.raw)]_vars

\* The PC advances from where it is when the instruction is fetched (docs/plan.md:
\* "Increment PC: self.write_reg(15, self.pc() + 4)", after the hooks are triggered),
\* so that a code hook can send execution elsewhere.
PcAdvancesFromPc == [][call.phase = "read" => pc' = NextPc(pc)]_vars

\* The PC of the instruction a batch has come to if it has not branched.
OnLine(c) == (c.from + c.count * ILen) % PcLimit

\* step_batch "returns the exact number of instructions executed before yielding
\* or branching": as long as a batch goes on it executes consecutive
\* instructions, as many as it has counted and not more than it was asked for.
\* No hook can divert it without ending it.
BatchIsStraightLine ==
    /\ call.phase = "fetch" => pc = OnLine(call)
    /\ call.phase \notin {"idle", "fetch"} => call.at = OnLine(call)
    /\ call.phase # "idle" => call.count < call.max

\* "REWIND PC so the debugger highlights the exact faulting line": an Err does
\* not say how many instructions the batch had executed, but the PC does, unless
\* it was a code hook that failed.
ErrorTellsHowFar ==
    [][call.phase \notin {"idle", "code hook"} /\ call'.phase = "idle" /\ ~call'.ok
         => pc' = OnLine(call)]_vars

\* Hidden behind the loop of StepLoop: on code that stays mapped, the pointer
\* and the cache are invisible, self-modifying code, remapping by hooks and all.
ImplementsStepLoop == LoopSpec

\* Every call returns.
CallsReturn == call.phase # "idle" ~> call.phase = "idle"
=============================================================================
