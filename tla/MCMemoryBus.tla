---------------------------- MODULE MCMemoryBus -----------------------------
(***************************************************************************)
(* Instances of the memory bus for TLC.  Bytes and buffers are model       *)
(* values; the requests are chosen so that regions can abut, overlap, nest,*)
(* start at the same address, be shorter than their size, be longer, and   *)
(* end at the top of the address space.                                    *)
(***************************************************************************)
EXTENDS BusImplementsFlatMemory, TLC

CONSTANTS z, o, b1, b2

MCByte == {z, o}
MCBuf  == {b1, b2}

Req(s, size, kind, len) == [start |-> s, size |-> size, kind |-> kind, len |-> len]

\* Tidy and untidy requests over eight addresses; 0, 2 and 3 are side by side.
WildRequests ==
    {Req(0, 2, "ram", 2), Req(1, 3, "ram", 2), Req(2, 1, "mmio", 0),
     Req(3, 2, "ram", 1), Req(6, 2, "ram", 2), Req(0, 5, "mmio", 0),
     Req(4, 1, "ram", 2), Req(5, 0, "ram", 1)}

\* Requests that abut, leave a hole, cover a device, and reuse an address; in
\* the RAM of four bytes a word fits, in the one of three it does not.
TidyRequests ==
    {Req(0, 2, "ram", 2), Req(2, 2, "ram", 1), Req(2, 1, "mmio", 0),
     Req(0, 4, "ram", 4), Req(1, 4, "ram", 3)}

Symmetry == Permutations(MCBuf)
=============================================================================
