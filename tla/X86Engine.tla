----------------------------- MODULE X86Engine ------------------------------
(***************************************************************************)
(* step and step_batch of the x86 engine (src/arch/x86/mod.rs).  It shares *)
(* with StepLoop what the bus, the hooks and the host do.  Its own are     *)
(* instructions of several lengths, decoded from a slice that ends where   *)
(* the RAM ends; a window that is refreshed only when EIP leaves it; and   *)
(* batches that go on behind a branch.  There is no decode cache.          *)
(*                                                                         *)
(* ILen is the length of the longest instruction.  A word of StepLoop is   *)
(* an instruction filled up with Zero.                                     *)
(***************************************************************************)
EXTENDS StepLoop

CONSTANT Length   \* how many bytes an instruction has, by its first byte

ASSUME LengthAssumption == Length \in [Byte -> 1 .. ILen]

VARIABLE win      \* fetch_slice, fetch_base, fetch_len

vars == <<regions, heap, pc, call, win>>

Init ==
    /\ LoopInit
    /\ win = [buf |-> NoBuf, base |-> 0, len |-> 0]

-----------------------------------------------------------------------------
\* Mutant: EIP right behind the window is taken to be in it.
LeavesWindowLate == pc < win.base \/ pc > (win.base + win.len) % PcLimit

\* The test that guards refresh_fetch_ptr, in u32 arithmetic.
LeavesWindow == pc < win.base \/ pc >= (win.base + win.len) % PcLimit

\* refresh_fetch_ptr: the Ram that holds the byte at EIP.
Refresh ==
    \E i \in Owners(regions, pc) :
        /\ regions[i].kind = "ram"
        /\ win' = [buf |-> regions[i].buf, base |-> regions[i].start, len |-> regions[i].len]

EnterWindow ==
    /\ call.phase = "fetch"
    /\ \/ ~LeavesWindow /\ Proceed /\ UNCHANGED win
       \/ LeavesWindow /\ Refresh /\ Proceed
       \/ LeavesWindow /\ ~Executable(pc) /\ Fail /\ UNCHANGED win

-----------------------------------------------------------------------------
\* The Ram behind the pointer has not been dropped.
WindowLive ==
    \E i \in DOMAIN regions :
        /\ regions[i].buf = win.buf
        /\ regions[i].start = win.base
        /\ regions[i].len = win.len

Offset == call.at - win.base

\* The length of the slice, in u32 arithmetic: far too long when EIP is in a
\* region but behind the end of its RAM.
Available == (win.len - Offset) % PcLimit

\* What the slice may hold.  Behind the end of the buffer, and in a buffer that
\* was dropped, that is whatever is there.
SliceHolds(w) ==
    WindowLive => \A k \in 1 .. ILen :
        Offset + k <= win.len => w[k] = heap[win.buf][Offset + k - 1]

LengthOf(w) == Length[w[1]]
Taken(w) == [k \in 1 .. ILen |-> IF k <= LengthOf(w) THEN w[k] ELSE Zero]

\* Mutant: the next instruction does not wrap around.
NextEipUnbounded(w) == call.at + LengthOf(w)

NextEip(w) == (call.at + LengthOf(w)) % PcLimit

\* EIP moves past the instruction before it executes, whatever the code hooks
\* made of it.
Decoded86(w) ==
    /\ call' = [call EXCEPT !.phase = "execute", !.raw = Taken(w), !.instr = Decode[Taken(w)]]
    /\ pc' = NextEip(w)

\* The decoder indexes the slice: behind its end Rust panics, and the call
\* never returns.
Panic ==
    /\ call' = [call EXCEPT !.phase = "panic"]
    /\ UNCHANGED pc

ReadThroughSlice ==
    /\ call.phase = "read"
    /\ \E w \in {v \in Word : SliceHolds(v)} :
          IF LengthOf(w) <= Available THEN Decoded86(w) ELSE Panic
    /\ UNCHANGED <<regions, heap, win>>

-----------------------------------------------------------------------------
\* Mutant: only instructions that fall through are counted.
Complete86Uncounted(p) ==
    LET done == IF p = NextEip(call.raw) THEN call.count + 1 ELSE call.count
    IN  /\ pc' = p
        /\ call' = IF done = call.max
                   THEN Returned(TRUE, done)
                   ELSE [Returned(TRUE, done) EXCEPT !.phase = "fetch", !.max = call.max]

\* The instruction is done with EIP at p; branch or not, the batch goes on
\* until it has executed as many as it was asked for.
Complete86(p) ==
    LET done == call.count + 1
    IN  /\ pc' = p
        /\ call' = IF done = call.max
                   THEN Returned(TRUE, done)
                   ELSE [Returned(TRUE, done) EXCEPT !.phase = "fetch", !.max = call.max]

Execute86 ==
    /\ call.phase = "execute"
    /\ \/ /\ call.instr = "plain"
          /\ Complete86(pc)
          /\ UNCHANGED <<regions, heap>>
       \/ /\ call.instr = "jump"
          /\ \E p \in Targets : Complete86(p)
          /\ UNCHANGED <<regions, heap>>
       \/ /\ call.instr = "store"
          /\ \E p \in Pokes :
                /\ heap' = HeapAfterPoke(p)
                /\ IF PokeHits(p) THEN Complete86(pc) ELSE Rewind
          /\ UNCHANGED regions
       \/ /\ call.instr = "undef" \/ (call.instr = "svc" /\ IntHooks = 0)
          /\ Rewind
          /\ UNCHANGED <<regions, heap>>
       \/ /\ call.instr = "svc" /\ IntHooks > 0
          /\ call' = [call EXCEPT !.phase = "interrupt hook", !.hook = 1]
          /\ UNCHANGED <<regions, heap, pc>>
    /\ UNCHANGED win

\* INT, while its hooks run.
InterruptHook86 ==
    /\ call.phase = "interrupt hook"
    /\ Meddle(IntHookMay)
    /\ \E p \in PcAfter(IntHookMay) :
          \/ Complete86(p)
          \/ call.hook < IntHooks /\ pc' = p /\ call' = [call EXCEPT !.hook = @ + 1]
          \/ call.hook = IntHooks /\ Rewind
          \/ "fail" \in IntHookMay /\ Rewind
    /\ UNCHANGED win

-----------------------------------------------------------------------------
Step ==
    \/ EnterWindow
    \/ CodeHook /\ UNCHANGED win
    \/ ReadThroughSlice
    \/ Execute86
    \/ InterruptHook86

Next ==
    \/ Host /\ UNCHANGED win
    \/ \E max \in 0 .. MaxBatch : Begin(max) /\ UNCHANGED win
    \/ Step

Spec == Init /\ [][Next]_vars

\* A call runs on the host's thread until it returns: hooks return, and nothing
\* else runs in between.
FairSpec == Spec /\ WF_vars(Step)

-----------------------------------------------------------------------------
(* Properties                                                              *)

Call == [phase : Phases \cup {"panic"}, at : Pc, raw : Word, instr : Instr, hook : Nat,
         max : Nat, count : Nat, ok : BOOLEAN, from : Pc]

\* The values every variable ranges over.
TypeOK ==
    /\ regions \in Seq(Region)
    /\ heap \in [Buf -> Content]
    /\ pc \in Pc
    /\ call \in Call
    /\ win \in [buf : Buf \cup {NoBuf}, base : Nat, len : Nat]

InBuffer(i, a) ==
    i \in Owners(regions, a) /\ regions[i].kind = "ram" /\ a - regions[i].start < regions[i].len

BusByte(i, a) == heap[regions[i].buf][a - regions[i].start]

\* The window and the slice do not show: while nobody unmaps, the bytes that
\* are decoded are those the bus holds when the hooks are done, from EIP on and
\* all out of one RAM.  The engine panics only at an instruction that this RAM
\* does not hold whole.  Nothing is said of an EIP behind the end of its RAM.
FetchesTheBus ==
    [][call.phase = "read" =>
        \A i \in DOMAIN regions : InBuffer(i, call.at) =>
            LET n == Length[BusByte(i, call.at)]
            IN  IF call'.phase = "panic"
                THEN ~InBuffer(i, call.at + n - 1)
                ELSE \A k \in 1 .. n :
                        /\ InBuffer(i, call.at + k - 1)
                        /\ call'.raw[k] = BusByte(i, call.at + k - 1)]_vars

\* What a call returns tells the host how far it came.  An Ok counts no more
\* instructions than were asked for, and fewer only if the last of them branched;
\* whether a branch must end the batch is BatchEndsAtBranch.  An Err leaves EIP on
\* the instruction that failed ("REWIND EIP so the debugger highlights the exact
\* faulting line"), wherever it or its interrupt hooks had moved EIP; a code hook
\* that fails leaves EIP where it and the hooks before it put it.
ReturnTellsHowFar ==
    [][call.phase # "idle" /\ call'.phase = "idle" =>
        /\ call'.ok => call'.count \in 1 .. call.max
        /\ call'.ok /\ call'.count < call.max => pc' # NextEip(call.raw)
        /\ ~call'.ok /\ call.phase = "fetch" => pc' = pc
        /\ ~call'.ok /\ call.phase \notin {"fetch", "code hook"} => pc' = call.at]_vars

\* step_batch "returns the exact number of instructions executed before yielding
\* or branching" (the Cpu trait, interface.rs): a batch goes on only behind an
\* instruction that left EIP on the next one.
BatchEndsAtBranch ==
    [][call.phase \in {"execute", "interrupt hook"} /\ call'.phase = "fetch"
         => pc' = NextEip(call.raw)]_vars

\* Every call returns, or dies of a panic.
CallsReturn == call.phase # "idle" ~> call.phase \in {"idle", "panic"}
=============================================================================
