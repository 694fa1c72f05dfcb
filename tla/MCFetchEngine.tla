--------------------------- MODULE MCFetchEngine ----------------------------
(***************************************************************************)
(* Instances of the fetch engine for TLC.  An instruction is two bytes     *)
(* long and a byte has two values, so that memory can hold one instruction *)
(* of four of the five kinds and a PC can be misaligned.                   *)
(***************************************************************************)
EXTENDS FetchEngine, TLC

CONSTANTS z, o, b1, b2

MCByte == {z, o}
MCBuf  == {b1, b2}

Req(s, size, kind, len) == [start |-> s, size |-> size, kind |-> kind, len |-> len]
Poke(a, v) == [addr |-> a, byte |-> v]

\* zz falls through; oo, zo and oz are the kinds a run is about.
DecodeAs(oo, zo, oz) ==
    [w \in Word |->
        CASE w = <<o, o>> -> oo
          [] w = <<z, o>> -> zo
          [] w = <<o, z>> -> oz
          [] OTHER        -> "plain"]

StoreCode == DecodeAs("store", "jump", "svc")
TrapCode  == DecodeAs("svc", "jump", "undef")

\* Two instructions in one RAM, one in the RAM behind it, which may also be too
\* short for its region.
CodeRequests == {Req(0, 4, "ram", 4), Req(4, 2, "ram", 2), Req(4, 2, "ram", 1)}

\* The same with every instruction whole in its RAM.
WholeRequests == {Req(0, 4, "ram", 4), Req(4, 2, "ram", 2)}

\* RAM that goes on behind the last PC, so that code runs at the PC whose value
\* marks empty cache slots.
HighRequests == {Req(0, 4, "ram", 4), Req(8, 4, "ram", 4)}

\* Code is patched; one write falls into the second region, one outside.
CodePokes == {Poke(0, o), Poke(1, o), Poke(1, z), Poke(5, o), Poke(7, o)}

Nothing   == {}
\* The documented way to grow memory from a system call hook is bus.map().
Grow      == {"map", "pc", "fail"}
Patch     == {"poke"}
PatchGrow == {"poke", "map", "pc"}
Replace   == {"poke", "map", "unmap"}
Move      == {"poke", "map", "unmap", "pc"}
Watch     == {"poke", "pc", "fail"}

AnyTargets  == {0, 1, 2, 4}
EvenTargets == {0, 2, 4}
HighTargets == {0, 1, 2, 9}

Symmetry == Permutations(MCBuf)
=============================================================================
