------------------------------ MODULE StepLoop ------------------------------
(***************************************************************************)
(* What step and step_batch of the Cpu trait (src/interface.rs) promise    *)
(* for the two fixed-width architectures, armv7 and rv32i: per instruction,*)
(* run the code hooks, read the instruction at the PC from memory, decode  *)
(* it, execute it with the PC already advanced, and on an error put the PC *)
(* back.  There is no fetch pointer and no decode cache here; FetchEngine  *)
(* adds them and is checked to implement this module.                      *)
(*                                                                         *)
(* Embedder code (interrupt hooks, code hooks, the host between two calls) *)
(* may write memory, map and unmap regions and set the PC.  It keeps the   *)
(* region table tidy; MemoryBus shows that resolution is then exact, so    *)
(* the bus's own cached index is left out.                                 *)
(*                                                                         *)
(* Instructions are what the loop can tell apart: "plain" (PC advances),   *)
(* "jump" (writes the PC), "store" (writes memory, may fault), "svc"       *)
(* (raises an interrupt), "undef" (fails).                                 *)
(***************************************************************************)
EXTENDS BusRegions

CONSTANTS
    PcLimit,      \* number of PC values; stands for 2^32
    ILen,         \* bytes per instruction; 4 in the code
    Decode,       \* decode_arm / decode_riscv: from words to instructions
    CodeHooks,    \* number of registered code hooks
    IntHooks,     \* number of registered interrupt hooks
    MaxBatch,     \* bound on the max_instrs a host asks for
    Targets,      \* PC values that jumps, hooks and the host set
    Pokes,        \* writes that instructions and embedder code make: [addr, byte]
    Requests,     \* what embedder code maps: [start, size, kind, len]
    MaxRegions,   \* bound on the number of regions
    HostMay, CodeHookMay, IntHookMay   \* powers: subsets of Powers

Pc     == 0 .. PcLimit - 1
Word   == [1 .. ILen -> Byte]
Powers == {"pc", "poke", "map", "unmap", "fail"}
Instr  == {"plain", "jump", "store", "svc", "undef"}

ASSUME LoopAssumption ==
    /\ PcLimit \in Nat \ {0} /\ PcLimit <= AddrLimit
    /\ ILen \in Nat \ {0}
    /\ Decode \in [Word -> Instr]
    /\ CodeHooks \in Nat /\ IntHooks \in Nat /\ MaxBatch \in Nat /\ MaxRegions \in Nat
    /\ Targets \subseteq Pc
    /\ Pokes \subseteq [addr : Addr, byte : Byte]
    /\ Requests \subseteq [start : Addr, size : 0 .. AddrLimit - 1, kind : Kind, len : 0 .. MaxLen]
    /\ HostMay \subseteq Powers /\ CodeHookMay \subseteq Powers /\ IntHookMay \subseteq Powers

VARIABLES
    regions, heap,   \* the bus
    pc,              \* the program counter
    call             \* the call of step or step_batch under way

loopVars == <<regions, heap, pc, call>>

Phases == {"idle", "fetch", "code hook", "read", "execute", "interrupt hook"}
NoWord == [k \in 1 .. ILen |-> Zero]

\* Between calls: what the latest one returned.  An Err carries no count.  The
\* field from is not in the code: it remembers the PC the call began at.
Returned(ok, count) ==
    [phase |-> "idle", at |-> 0, raw |-> NoWord, instr |-> "plain", hook |-> 0,
     max |-> 0, count |-> count, ok |-> ok, from |-> 0]

LoopInit ==
    /\ regions = <<>>
    /\ heap = [b \in Buf |-> Zeroed]
    /\ pc = 0
    /\ call = Returned(TRUE, 0)

\* Mutant: the PC does not wrap around.
NextPcUnbounded(p) == p + ILen

NextPc(p) == (p + ILen) % PcLimit

-----------------------------------------------------------------------------
(* Memory as the loop sees it.                                             *)

\* One 8 bit write; on a tidy table the owner of the address is the region
\* resolve_mut finds.
PokeHits(p) ==
    \E i \in Owners(regions, p.addr) :
        regions[i].kind = "mmio" \/ p.addr - regions[i].start < regions[i].len

HeapAfterPoke(p) ==
    [b \in Buf |-> [k \in 0 .. MaxLen - 1 |->
        IF \E i \in Owners(regions, p.addr) :
              regions[i].buf = b /\ p.addr - regions[i].start = k /\ k < regions[i].len
        THEN p.byte ELSE heap[b][k]]]

\* The regions that hold the whole word at p.
HoldsWord(i, p) ==
    /\ i \in Owners(regions, p)
    /\ regions[i].kind = "ram"
    /\ p - regions[i].start + ILen <= regions[i].len

\* What read_32 would return for the word at p.
IsBusWord(p, w) ==
    \E i \in DOMAIN regions :
        HoldsWord(i, p) /\ w = BytesAt(heap[regions[i].buf], p - regions[i].start, ILen)

InRam(p) == \E i \in DOMAIN regions : HoldsWord(i, p)

\* refresh_fetch_ptr accepts a PC in a region backed by a Ram.
Executable(p) == \E i \in Owners(regions, p) : regions[i].kind = "ram"

-----------------------------------------------------------------------------
(* What embedder code does to the bus and the PC when it has these powers.  *)

MapTidy(q) ==
    /\ Len(regions) < MaxRegions
    /\ \E b \in Buf :
          LET r == [start |-> q.start, size |-> q.size, kind |-> q.kind,
                    buf |-> IF q.kind = "ram" THEN b ELSE NoBuf,
                    len |-> IF q.kind = "ram" THEN q.len ELSE 0]
          IN  /\ q.kind = "ram" => b \notin BuffersOf(regions)
              /\ regions' \in PushedAndSorted(regions, r)
              /\ Tidy(regions')
              /\ heap' = IF q.kind = "ram" THEN [heap EXCEPT ![b] = Zeroed] ELSE heap

Meddle(powers) ==
    \/ UNCHANGED <<regions, heap>>
    \/ "poke" \in powers /\ \E p \in Pokes : heap' = HeapAfterPoke(p) /\ UNCHANGED regions
    \/ "map" \in powers /\ \E q \in Requests : MapTidy(q)
    \/ "unmap" \in powers /\ \E s \in {regions[i].start : i \in DOMAIN regions} :
          regions' \in Retained(regions, s) /\ heap' = Surviving(heap, regions')

PcAfter(powers) == {pc} \cup (IF "pc" \in powers THEN Targets ELSE {})

-----------------------------------------------------------------------------
(* Calls                                                                   *)

\* The host works on the bus and the registers between two calls.
Host ==
    /\ call.phase = "idle"
    /\ Meddle(HostMay)
    /\ pc' \in PcAfter(HostMay)
    /\ UNCHANGED call

\* step_batch(max); step is step_batch(1) with the count dropped.
Begin(max) ==
    /\ call.phase = "idle"
    /\ call' = IF max = 0 THEN Returned(TRUE, 0)
               ELSE [Returned(TRUE, 0) EXCEPT !.phase = "fetch", !.max = max, !.from = pc]
    /\ UNCHANGED <<regions, heap, pc>>

\* The instruction starts: code hooks first, if there are any.
Proceed ==
    /\ call' = [call EXCEPT !.phase = IF CodeHooks = 0 THEN "read" ELSE "code hook",
                            !.hook  = IF CodeHooks = 0 THEN 0 ELSE 1,
                            !.at    = pc]
    /\ UNCHANGED <<regions, heap, pc>>

Fail ==
    /\ call' = Returned(FALSE, 0)
    /\ UNCHANGED <<regions, heap, pc>>

Enter ==
    /\ call.phase = "fetch"
    /\ IF Executable(pc) THEN Proceed ELSE Fail

\* trigger_code: the hooks run in order; the first error ends the call.
CodeHook ==
    /\ call.phase = "code hook"
    /\ Meddle(CodeHookMay)
    /\ pc' \in PcAfter(CodeHookMay)
    /\ \/ /\ call.hook < CodeHooks
          /\ call' = [call EXCEPT !.hook = @ + 1]
       \/ /\ call.hook = CodeHooks
          /\ call' = [call EXCEPT !.hook = 0, !.phase = "read"]
       \/ /\ "fail" \in CodeHookMay
          /\ call' = Returned(FALSE, 0)

\* The word has been read and decoded and the PC moves past it, whatever the
\* code hooks made of it.
Decoded(raw, instr) ==
    /\ call' = [call EXCEPT !.phase = "execute", !.raw = raw, !.instr = instr]
    /\ pc' = NextPc(call.at)
    /\ UNCHANGED <<regions, heap>>

\* A word that does not lie in one RAM buffer has no defined value.
Read ==
    /\ call.phase = "read"
    /\ \E raw \in Word :
          /\ InRam(call.at) => IsBusWord(call.at, raw)
          /\ Decoded(raw, Decode[raw])

-----------------------------------------------------------------------------
(* Execution.                                                              *)

\* Mutant: a branch does not end the batch.
CompleteThroughBranches(p) ==
    LET done == call.count + 1
    IN  /\ pc' = p
        /\ call' = IF done = call.max
                   THEN Returned(TRUE, done)
                   ELSE [Returned(TRUE, done) EXCEPT !.phase = "fetch", !.max = call.max,
                                                     !.from = call.from]

\* The instruction is done with the PC at p.  A PC other than the next one is
\* a branch, which ends the batch; so does the last instruction asked for.
Complete(p) ==
    LET done == call.count + 1
    IN  /\ pc' = p
        /\ call' = IF p # NextPc(call.at) \/ done = call.max
                   THEN Returned(TRUE, done)
                   ELSE [Returned(TRUE, done) EXCEPT !.phase = "fetch", !.max = call.max,
                                                     !.from = call.from]

\* Mutant: the PC stays where the instruction or the hooks left it.
RewindForgotten ==
    /\ pc' = pc
    /\ call' = Returned(FALSE, 0)

\* Mutant: the failing instruction is tried again instead of being reported.
RewindAndRetry ==
    /\ pc' = call.at
    /\ call' = [call EXCEPT !.phase = "fetch", !.hook = 0]

\* The instruction fails: the PC goes back to it.
Rewind ==
    /\ pc' = call.at
    /\ call' = Returned(FALSE, 0)

Execute ==
    /\ call.phase = "execute"
    /\ \/ /\ call.instr = "plain"
          /\ Complete(pc)
          /\ UNCHANGED <<regions, heap>>
       \/ /\ call.instr = "jump"
          /\ \E p \in Targets : Complete(p)
          /\ UNCHANGED <<regions, heap>>
       \/ /\ call.instr = "store"
          /\ \E p \in Pokes :
                /\ heap' = HeapAfterPoke(p)
                /\ IF PokeHits(p) THEN Complete(pc) ELSE Rewind
          /\ UNCHANGED regions
       \/ /\ call.instr = "undef" \/ (call.instr = "svc" /\ IntHooks = 0)
          /\ Rewind
          /\ UNCHANGED <<regions, heap>>
       \/ /\ call.instr = "svc" /\ IntHooks > 0
          /\ call' = [call EXCEPT !.phase = "interrupt hook", !.hook = 1]
          /\ UNCHANGED <<regions, heap, pc>>

\* trigger_interrupt: the first hook that answers true consumes the interrupt;
\* if none does, or one fails, the instruction fails.
InterruptHook ==
    /\ call.phase = "interrupt hook"
    /\ Meddle(IntHookMay)
    /\ \E p \in PcAfter(IntHookMay) :
          \/ Complete(p)
          \/ /\ call.hook < IntHooks
             /\ pc' = p
             /\ call' = [call EXCEPT !.hook = @ + 1]
          \/ call.hook = IntHooks /\ Rewind
          \/ "fail" \in IntHookMay /\ Rewind

-----------------------------------------------------------------------------
LoopNext ==
    \/ Host
    \/ \E max \in 0 .. MaxBatch : Begin(max)
    \/ Enter
    \/ CodeHook
    \/ Read
    \/ Execute
    \/ InterruptHook

LoopSpec == LoopInit /\ [][LoopNext]_loopVars
=============================================================================
