---------------------- MODULE BusImplementsFlatMemory -----------------------
(***************************************************************************)
(* The refinement mapping from the bus to FlatMemory: what each address    *)
(* holds is read through the region table and the buffers.  The cached     *)
(* index and the progress of a block transfer are hidden; each byte of a   *)
(* transfer is an access of its own.                                       *)
(***************************************************************************)
EXTENDS MemoryBus

\* What stands for an address without a byte is not a byte (Rust's u8).
ASSUME MarksAreNoBytes == Byte \cap {"device", "unmapped", "hole"} = {}

\* What a table says of an address: the start of the mapping it belongs to, and,
\* with the contents mem of the buffers, what it holds.
OwnerIn(rs, a) ==
    IF Owners(rs, a) = {} THEN -1
    ELSE rs[CHOOSE i \in Owners(rs, a) : TRUE].start

CellIn(rs, mem, a) ==
    LET r == rs[CHOOSE i \in Owners(rs, a) : TRUE]
    IN  CASE Owners(rs, a) = {}                 -> "unmapped"
          [] Owners(rs, a) # {} /\ r.kind = "mmio" -> "device"
          [] Owners(rs, a) # {} /\ r.kind = "ram" ->
                IF a - r.start < r.len THEN mem[r.buf][a - r.start] ELSE "hole"

OwnerOf(a) == OwnerIn(regions, a)
CellOf(a)  == CellIn(regions, heap, a)

Flat == INSTANCE FlatMemory WITH
            owner <- [a \in Addr |-> OwnerOf(a)],
            cell  <- [a \in Addr |-> CellOf(a)],
            reply <- [op |-> reply.op, addr |-> reply.addr, n |-> reply.n,
                      ok |-> reply.ok, data |-> reply.data]

\* On a tidy table every step of the bus is a step of a flat memory: mapping
\* zeroes exactly the new area, unmapping forgets exactly one mapping, accesses
\* are served by the right device or fault, no cached index shows, and a failing
\* write leaves at most the first byte of a halfword behind.
ImplementsFlatMemory == Flat!Spec
=============================================================================
