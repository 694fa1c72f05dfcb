----------------------------- MODULE MCEmbedder ------------------------------
(***************************************************************************)
(* An instance of the embedder's side for TLC: images whose segments abut, *)
(* overlap, have more or fewer bytes in the file than in memory, are of    *)
(* another type or go beyond the end of a truncated file; pins in the first *)
(* two bytes of the input register, and the registers of the lamp.         *)
(***************************************************************************)
EXTENDS Embedder, TLC

CONSTANTS z, o, b1, b2

MCByte == {z, o}
MCBuf  == {b1, b2}

Req(s, size, kind, len) == [start |-> s, size |-> size, kind |-> kind, len |-> len]
MCRequests == {Req(4, 2, "ram", 2), Req(6, 1, "mmio", 0), Req(1, 2, "ram", 1)}

Seg(vaddr, memsz, filesz, offset) ==
    [type |-> "PT_LOAD", vaddr |-> vaddr, memsz |-> memsz, filesz |-> filesz, offset |-> offset]
Note == [Seg(4, 2, 2, 0) EXCEPT !.type = "PT_NOTE"]

Elf(segments) == [parses |-> TRUE, segments |-> segments, data |-> <<z, o, o>>]

MCImages ==
    {Elf(<<Seg(4, 1, 1, 1), Seg(1, 3, 2, 1)>>),   \* two that abut, one with a .bss
     Elf(<<Seg(4, 1, 3, 0)>>),                        \* too long for its memory
     Elf(<<Seg(0, 2, 1, 1), Seg(1, 2, 2, 1)>>),         \* overlapping
     Elf(<<Note, Seg(2, 2, 0, 0)>>),                  \* nothing to load, nothing in the file
     Elf(<<Seg(5, 0, 1, 1), Seg(0, 2, 2, 2)>>),         \* no memory; a truncated file
     [Elf(<<>>) EXCEPT !.parses = FALSE]}

Block(a, data) == [addr |-> a, data |-> data]
MCBlocks == {Block(3, <<o, o>>), Block(5, <<o, z, o>>), Block(0, <<>>)}
MCPeeks  == {[addr |-> 0, n |-> 2], [addr |-> 3, n |-> 2], [addr |-> 1, n |-> 0]}

\* The last byte of a register, the input register, and behind the last register.
MCOffsets     == {3, 16, 32}
MCLineOffsets == {0, 1, 24}
MCValues      == {{2, 5, 13}}
MCLineValues  == {{0, 9}, {2, 5, 13}}
MCPins        == {1, 9}

\* An empty board and one with the lamp lit.
MCBoards == {[r \in 0 .. 7 |-> {}], [r \in 0 .. 7 |-> 0 .. 31]}

MCPictures == {[r |-> [i \in 0 .. 15 |-> 1], cpsr |-> 2],
               [r |-> [i \in 0 .. 15 |-> IF i = 15 THEN 2 ELSE 0], cpsr |-> 1]}

=============================================================================
