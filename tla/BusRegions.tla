----------------------------- MODULE BusRegions -----------------------------
(***************************************************************************)
(* The data of the memory bus (src/bus.rs) and of the RAM behind it        *)
(* (src/device/ram.rs), as values: a region table, address resolution with *)
(* its one-entry lookup cache, and RAM accesses of one, two or four bytes. *)
(* The state machines MemoryBus and FetchEngine are built on this module.  *)
(*                                                                         *)
(* A region is a record [start, size, kind, buf, len].  A "ram" region     *)
(* names the buffer buf that backs it and the buffer's length len, which   *)
(* need not be the region's size.  An "mmio" region stands for every       *)
(* device that is not a Ram: it has no buffer and len = 0.  The access     *)
(* permissions of a region are not part of the record because nothing in   *)
(* the program reads them.                                                 *)
(***************************************************************************)
EXTENDS Integers, Sequences, FiniteSets, Functions

CONSTANTS
    AddrLimit,   \* number of addresses; stands for 2^64
    Byte,        \* values of a byte
    Zero,        \* the byte a fresh Ram is filled with
    Buf,         \* identities of RAM buffers (host heap allocations)
    NoBuf,       \* the buffer of a region that is not RAM
    MaxLen       \* longest RAM buffer

ASSUME BusAssumption ==
    /\ AddrLimit \in Nat \ {0}
    /\ MaxLen \in Nat
    /\ Zero \in Byte
    /\ NoBuf \notin Buf

Addr    == 0 .. AddrLimit - 1
Kind    == {"ram", "mmio"}
Region  == {r \in [start : Addr, size : 0 .. AddrLimit - 1, kind : Kind,
                   buf : Buf \cup {NoBuf}, len : 0 .. MaxLen] :
               r.kind = "ram" => r.buf # NoBuf}
Content == [0 .. MaxLen - 1 -> Byte]
Zeroed  == [i \in 0 .. MaxLen - 1 |-> Zero]

-----------------------------------------------------------------------------
(* Regions and the region table.                                           *)

\* start + size in u64 arithmetic: a region that ends at the very top of
\* the address space has end 0.
EndOf(r) == (r.start + r.size) % AddrLimit

\* The bounds check of the cached entry, and "Equal" of the comparator.
Contains(r, a) == a >= r.start /\ a < EndOf(r)

\* The comparator resolve_mut hands to binary_search_by.
Compare(r, a) ==
    CASE a < r.start                      -> "Greater"
      [] a >= r.start /\ a >= EndOf(r)    -> "Less"
      [] a >= r.start /\ a <  EndOf(r)    -> "Equal"

\* The contract of slice::binary_search_by: the table is partitioned into
\* entries that compare Less, then Equal, then Greater.
Partitioned(rs, a) ==
    \E lo, hi \in 0 .. Len(rs) :
        /\ lo <= hi
        /\ \A i \in DOMAIN rs :
              Compare(rs[i], a) = IF i <= lo THEN "Less"
                                  ELSE IF i <= hi THEN "Equal" ELSE "Greater"

\* Every position binary_search_by may return, 0 for Err.  On a partitioned
\* table it finds some Equal entry if there is one; on another table it may
\* also miss the Equal entries.
Equals(rs, a) == {i \in DOMAIN rs : Compare(rs[i], a) = "Equal"}

SearchResults(rs, a) ==
    IF Partitioned(rs, a) /\ Equals(rs, a) # {}
    THEN Equals(rs, a)
    ELSE Equals(rs, a) \cup {0}

\* Mutant: the cached entry is tested against the end of its region only.
CachedBelowEnd(rs, last, a) == last \in DOMAIN rs /\ a < EndOf(rs[last])

\* The cached position answers if it is in the table and its region holds the
\* address; otherwise the search does.  0 is a MemoryFault.
Cached(rs, last, a) == last \in DOMAIN rs /\ Contains(rs[last], a)

Resolved(rs, last, a) ==
    IF Cached(rs, last, a) THEN {last} ELSE SearchResults(rs, a)

\* Mutant: a failed search is cached as well.
NewLastAlways(last, pos) == pos

\* The cache keeps the last hit; a fault leaves it alone.
NewLast(last, pos) == IF pos = 0 THEN last ELSE pos

\* Mutant: map pushes without sorting.
PushedOnly(rs, r) == {Append(rs, r)}

\* push(r) followed by the stable sort_by_key(start): a permutation of the
\* pushed table ordered by start and, between equal starts, by position.
SortedBy(rs, p) ==
    \A i, j \in DOMAIN rs : i < j =>
        \/ rs[p[i]].start < rs[p[j]].start
        \/ rs[p[i]].start = rs[p[j]].start /\ p[i] < p[j]

PushedAndSorted(rs, r) ==
    LET pushed == Append(rs, r)
    IN  {[i \in DOMAIN pushed |-> pushed[p[i]]] :
            p \in {q \in Bijection(DOMAIN pushed, DOMAIN pushed) : SortedBy(pushed, q)}}

\* retain(|r| r.start != s): the surviving regions in their old order.
Retained(rs, s) ==
    LET keep == {i \in DOMAIN rs : rs[i].start # s}
        n    == Cardinality(keep)
    IN  {[i \in 1 .. n |-> rs[f[i]]] :
            f \in {g \in Bijection(1 .. n, keep) :
                      \A i, j \in 1 .. n : i < j => g[i] < g[j]}}

BuffersOf(rs) == {rs[i].buf : i \in DOMAIN rs} \ {NoBuf}

\* The buffers when rs is all that is left: the others have been dropped.
Surviving(heap, rs) == [b \in Buf |-> IF b \in BuffersOf(rs) THEN heap[b] ELSE Zeroed]

-----------------------------------------------------------------------------
(* Accesses to a Ram.  One and four bytes are a single bounds-checked slice *)
(* access.  Two bytes are two accesses of one byte, because BusDevice       *)
(* forwards only the 8 and 32 bit operations and inherits the default       *)
(* read_16 and write_16 of the Device trait.                                *)

\* Mutant: an access of any width goes byte by byte.
BytesDoneBytewise(r, off, n) ==
    IF off + n <= r.len THEN n ELSE IF off < r.len THEN r.len - off ELSE 0

\* How many of the n bytes at offset off are transferred before the access
\* ends.  n when it succeeds.
BytesDone(r, off, n) ==
    IF off + n <= r.len THEN n
    ELSE IF n = 2 /\ off < r.len THEN 1 ELSE 0

AccessOk(r, off, n) == BytesDone(r, off, n) = n

\* The address a failing access reports: an offset into the device.
FaultOffset(r, off, n) == off + BytesDone(r, off, n)

BytesAt(mem, off, n) == [k \in 1 .. n |-> mem[off + k - 1]]

Stored(mem, off, data, n) ==
    [i \in DOMAIN mem |-> IF i \in off .. off + n - 1 THEN data[i - off + 1] ELSE mem[i]]

-----------------------------------------------------------------------------
(* Region tables a careful embedder builds: no region is empty, leaves the  *)
(* address space or overlaps another, and no buffer is longer than its      *)
(* region.  The bus does not require it.                                    *)

Fits(r) == r.size > 0 /\ r.start + r.size < AddrLimit /\ r.len <= r.size

Disjoint(r, q) == r.start + r.size <= q.start \/ q.start + q.size <= r.start

Tidy(rs) ==
    /\ \A i \in DOMAIN rs : Fits(rs[i])
    /\ \A i, j \in DOMAIN rs : i # j => Disjoint(rs[i], rs[j])

Sorted(rs) == \A i, j \in DOMAIN rs : i < j => rs[i].start <= rs[j].start

Owners(rs, a) == {i \in DOMAIN rs : rs[i].start <= a /\ a < rs[i].start + rs[i].size}
=============================================================================
