----------------------------- MODULE MemoryBus ------------------------------
(***************************************************************************)
(* The memory bus of src/bus.rs: map, unmap, the 8, 16 and 32 bit accesses *)
(* and the block transfers read_bytes and write_bytes, over any region     *)
(* table the embedder may build, overlapping regions and regions whose RAM *)
(* is shorter or longer than the region included.                          *)
(*                                                                         *)
(* A call on the bus is one step, except a block transfer, which is one    *)
(* step per byte: every byte is resolved again.  The bus is borrowed       *)
(* mutably for the whole transfer, so no other call comes in between.      *)
(***************************************************************************)
EXTENDS BusRegions

CONSTANTS
    Requests,     \* what embedders pass to map: [start, size, kind, len]
    Widths,       \* access widths in use, a subset of {1, 2, 4}
    MaxRegions,   \* bound on the number of mapped regions
    MaxBlock      \* bound on the length of a block transfer

ASSUME MemoryBusAssumption ==
    /\ Requests \subseteq [start : Addr, size : 0 .. AddrLimit - 1,
                           kind : Kind, len : 0 .. MaxLen]
    /\ Widths \subseteq {1, 2, 4}
    /\ MaxRegions \in Nat
    /\ MaxBlock \in Nat

VARIABLES
    regions,   \* Vec<MemoryRegion>
    last,      \* last_region_idx, counted from 1 as sequences are
    heap,      \* the bytes of every RAM buffer; those in no region are free
    reply,     \* what the latest 8, 16 or 32 bit access answered
    xfer       \* the latest block transfer

busVars == <<regions, last, heap>>
vars    == <<regions, last, heap, reply, xfer>>

NoReply == [op |-> "none", addr |-> 0, n |-> 0, ok |-> TRUE, at |-> 0, data |-> <<>>]
NoXfer  == [op |-> "none", addr |-> 0, len |-> 0, data |-> <<>>, done |-> 0, status |-> "idle"]

Ok(op, a, n, data) ==
    [op |-> op, addr |-> a, n |-> n, ok |-> TRUE, at |-> a, data |-> data]
MemoryFault(op, a, n, at) ==
    [op |-> op, addr |-> a, n |-> n, ok |-> FALSE, at |-> at, data |-> <<>>]

Init ==
    /\ regions = <<>>
    /\ last = 1
    /\ heap = [b \in Buf |-> Zeroed]
    /\ reply = NoReply
    /\ xfer = NoXfer

Idle == xfer.status # "busy"

-----------------------------------------------------------------------------
(* map and unmap                                                           *)

RegionOf(q, b) ==
    [start |-> q.start, size |-> q.size, kind |-> q.kind,
     buf |-> IF q.kind = "ram" THEN b ELSE NoBuf,
     len |-> IF q.kind = "ram" THEN q.len ELSE 0]

\* Map a device; a RAM device comes with a fresh, zeroed buffer.  Nothing is
\* checked against the regions already there.
Map(q) ==
    /\ Idle
    /\ Len(regions) < MaxRegions
    /\ \E b \in Buf :
          /\ q.kind = "ram" => b \notin BuffersOf(regions)
          /\ regions' \in PushedAndSorted(regions, RegionOf(q, b))
          /\ heap' = IF q.kind = "ram" THEN [heap EXCEPT ![b] = Zeroed] ELSE heap
    /\ last' = 1
    /\ reply' = NoReply /\ xfer' = NoXfer

Unmap(s) ==
    /\ Idle
    /\ regions' \in Retained(regions, s)
    /\ heap' = Surviving(heap, regions')
    /\ last' = 1
    /\ reply' = NoReply /\ xfer' = NoXfer

-----------------------------------------------------------------------------
(* Accesses.  pos is the position resolve_mut found, 0 for none.           *)

Resolve(a, pos) ==
    /\ pos \in Resolved(regions, last, a)
    /\ last' = NewLast(last, pos)

\* A device that is not RAM answers what it likes.
ReadReplies(a, n, pos) ==
    LET r   == regions[pos]
        off == a - r.start
    IN  CASE pos = 0 -> {MemoryFault("read", a, n, a)}
          [] pos # 0 /\ r.kind = "mmio" ->
                {Ok("read", a, n, d) : d \in [1 .. n -> Byte]}
          [] pos # 0 /\ r.kind = "ram" ->
                {IF AccessOk(r, off, n)
                 THEN Ok("read", a, n, BytesAt(heap[r.buf], off, n))
                 ELSE MemoryFault("read", a, n, FaultOffset(r, off, n))}

WriteReply(a, n, pos) ==
    LET r   == regions[pos]
        off == a - r.start
    IN  CASE pos = 0 -> MemoryFault("write", a, n, a)
          [] pos # 0 /\ r.kind = "mmio" -> Ok("write", a, n, <<>>)
          [] pos # 0 /\ r.kind = "ram" ->
                IF AccessOk(r, off, n)
                THEN Ok("write", a, n, <<>>)
                ELSE MemoryFault("write", a, n, FaultOffset(r, off, n))

\* The bytes transferred before the end of the buffer stay written.
HeapAfterWrite(a, data, n, pos) ==
    LET r   == regions[pos]
        off == a - r.start
    IN  IF pos # 0 /\ r.kind = "ram"
        THEN [heap EXCEPT ![r.buf] = Stored(@, off, data, BytesDone(r, off, n))]
        ELSE heap

ReadAccess(a, n) ==
    \E pos \in Resolved(regions, last, a) :
        /\ Resolve(a, pos)
        /\ reply' \in ReadReplies(a, n, pos)
        /\ UNCHANGED <<regions, heap>>

WriteAccess(a, data, n) ==
    \E pos \in Resolved(regions, last, a) :
        /\ Resolve(a, pos)
        /\ reply' = WriteReply(a, n, pos)
        /\ heap' = HeapAfterWrite(a, data, n, pos)
        /\ UNCHANGED regions

\* read_8, read_16, read_32
Read(a, n) ==
    /\ Idle
    /\ ReadAccess(a, n)
    /\ xfer' = NoXfer

\* write_8, write_16, write_32
Write(a, data) ==
    /\ Idle
    /\ WriteAccess(a, data, Len(data))
    /\ xfer' = NoXfer

-----------------------------------------------------------------------------
(* Block transfers, one byte per step, ended by the first fault.           *)

StartReadBytes(a, n) ==
    /\ Idle
    /\ xfer' = [op |-> "read", addr |-> a, len |-> n, data |-> <<>>, done |-> 0,
                status |-> IF n = 0 THEN "done" ELSE "busy"]
    /\ reply' = NoReply
    /\ UNCHANGED busVars

StartWriteBytes(a, data) ==
    /\ Idle
    /\ xfer' = [op |-> "write", addr |-> a, len |-> Len(data), data |-> data, done |-> 0,
                status |-> IF data = <<>> THEN "done" ELSE "busy"]
    /\ reply' = NoReply
    /\ UNCHANGED busVars

\* Mutant: the address does not advance.
NextAddrStuck == xfer.addr

NextAddr == (xfer.addr + xfer.done) % AddrLimit

NextStatus(ok) ==
    IF ~ok THEN "failed" ELSE IF xfer.done + 1 = xfer.len THEN "done" ELSE "busy"

ReadNextByte ==
    /\ xfer.status = "busy" /\ xfer.op = "read"
    /\ ReadAccess(NextAddr, 1)
    /\ xfer' = [xfer EXCEPT !.status = NextStatus(reply'.ok),
                            !.done   = IF reply'.ok THEN @ + 1 ELSE @,
                            !.data   = @ \o reply'.data]

WriteNextByte ==
    /\ xfer.status = "busy" /\ xfer.op = "write"
    /\ WriteAccess(NextAddr, <<xfer.data[xfer.done + 1]>>, 1)
    /\ xfer' = [xfer EXCEPT !.status = NextStatus(reply'.ok),
                            !.done   = IF reply'.ok THEN @ + 1 ELSE @]

-----------------------------------------------------------------------------
Accesses ==
    \/ \E a \in Addr, n \in Widths : Read(a, n)
    \/ \E a \in Addr, n \in Widths : \E data \in [1 .. n -> Byte] : Write(a, data)
    \/ \E a \in Addr, n \in 0 .. MaxBlock : StartReadBytes(a, n)
    \/ \E a \in Addr, n \in 0 .. MaxBlock : \E data \in [1 .. n -> Byte] :
          StartWriteBytes(a, data)
    \/ ReadNextByte
    \/ WriteNextByte
    \/ \E s \in Addr : Unmap(s)

Next ==
    \/ \E q \in Requests : Map(q)
    \/ Accesses

Spec == Init /\ [][Next]_vars

\* The bus of an embedder who keeps the region table tidy.
TidyNext ==
    \/ \E q \in Requests : Map(q) /\ Tidy(regions')
    \/ Accesses

TidySpec == Init /\ [][TidyNext]_vars

-----------------------------------------------------------------------------
(* Properties                                                              *)

Op    == {"none", "read", "write"}
Reply == [op : Op, addr : Addr, n : 0 .. 4, ok : BOOLEAN, at : Nat, data : Seq(Byte)]
Xfer  == [op : Op, addr : Addr, len : Nat, data : Seq(Byte), done : Nat,
          status : {"idle", "busy", "done", "failed"}]

\* The values every variable ranges over; a transfer under way has bytes left,
\* and a write knows all of them.
TypeOK ==
    /\ regions \in Seq(Region)
    /\ last \in Nat \ {0}
    /\ heap \in [Buf -> Content]
    /\ reply \in Reply
    /\ xfer \in Xfer
    /\ xfer.status = "busy" => xfer.done < xfer.len
    /\ xfer.op = "write" => Len(xfer.data) = xfer.len

\* map keeps the table sorted by start and unmap does not disturb the order:
\* binary_search_by relies on it, whatever overlaps.
RegionsSorted == Sorted(regions)

\* On a tidy table resolve_mut answers with the one region that holds the
\* address, and with a fault when there is none: neither the index cached by
\* earlier accesses, nor the searches, maps and unmaps that came before can be
\* told from the answer.
ResolveAgrees ==
    Tidy(regions) =>
        \A a \in Addr :
            /\ Owners(regions, a) = {} => Resolved(regions, last, a) = {0}
            /\ \A i \in Owners(regions, a) : Resolved(regions, last, a) = {i}

\* A RAM byte or a device of table rs answers at address a.
Answering(rs, a) ==
    \E i \in Owners(rs, a) :
        rs[i].kind = "mmio" \/ a - rs[i].start < rs[i].len

\* With contents mem, a region of table rs answers at address a: a device, or a
\* RAM whose byte there is v.
AnswersWith(rs, mem, a, v) ==
    \E i \in Owners(rs, a) :
        \/ rs[i].kind = "mmio"
        \/ a - rs[i].start < rs[i].len /\ mem[rs[i].buf][a - rs[i].start] = v

\* read_bytes and write_bytes cross region boundaries: whatever the regions
\* overlap, the bytes counted as transferred are bytes of regions at consecutive
\* addresses, in order, wherever regions begin and end in between, and never
\* beyond the top of the address space; a transfer that fails has some left.  On
\* a tidy table it stops exactly at the first address nobody answers.
BlockTransferExact ==
    LET at(k) == xfer.addr + k - 1
    IN  /\ \A k \in 1 .. xfer.done :
              at(k) \in Addr /\ AnswersWith(regions, heap, at(k), xfer.data[k])
        /\ xfer.status = "done" => xfer.done = xfer.len
        /\ xfer.status = "failed" =>
              /\ xfer.done < xfer.len
              /\ Tidy(regions) => ~Answering(regions, at(xfer.done + 1))
=============================================================================
