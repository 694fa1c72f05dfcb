----------------------------- MODULE FlatMemory -----------------------------
(***************************************************************************)
(* What the memory bus promises an embedder who maps regions that neither  *)
(* overlap nor leave the address space: a flat memory.  There is no region *)
(* table, no search and no lookup cache here, only what every address      *)
(* holds and which mapping it belongs to.                                  *)
(***************************************************************************)
EXTENDS Integers, Sequences

CONSTANTS AddrLimit, Byte, Zero, Widths

Addr    == 0 .. AddrLimit - 1
NoOwner == -1

VARIABLES
    owner,   \* start of the mapping an address belongs to, or NoOwner
    cell,    \* a byte, "device", "unmapped", or "hole" behind the end of a RAM
    reply    \* the answer of the latest access, its fault address left out

vars == <<owner, cell, reply>>

Answer(op, a, n, ok, data) == [op |-> op, addr |-> a, n |-> n, ok |-> ok, data |-> data]
NoAnswer == Answer("none", 0, 0, TRUE, <<>>)

Init ==
    /\ owner = [a \in Addr |-> NoOwner]
    /\ cell  = [a \in Addr |-> "unmapped"]
    /\ reply = NoAnswer

-----------------------------------------------------------------------------
\* A mapping takes addresses nobody has; RAM of len bytes reads as zero.
MapArea(s, size, kind, len) ==
    LET area == s .. s + size - 1
    IN  /\ area # {} /\ area \subseteq Addr
        /\ \A a \in area : owner[a] = NoOwner
        /\ owner' = [a \in Addr |-> IF a \in area THEN s ELSE owner[a]]
        /\ cell'  = [a \in Addr |->
                       IF a \notin area THEN cell[a]
                       ELSE IF kind = "mmio" THEN "device"
                       ELSE IF a < s + len THEN Zero ELSE "hole"]

\* Unmapping takes away exactly the mapping that starts at s, if there is one.
UnmapArea(s) ==
    /\ owner' = [a \in Addr |-> IF owner[a] = s THEN NoOwner ELSE owner[a]]
    /\ cell'  = [a \in Addr |-> IF owner[a] = s THEN "unmapped" ELSE cell[a]]

\* Changes of the map and the start of a block transfer answer nothing.
Remap ==
    /\ reply' = NoAnswer
    /\ \/ \E s \in Addr, size \in Addr, kind \in {"ram", "mmio"} : \E len \in 0 .. size :
             MapArea(s, size, kind, len)
       \/ \E s \in Addr : UnmapArea(s)
       \/ UNCHANGED <<owner, cell>>

-----------------------------------------------------------------------------
\* An access to RAM may not leave its mapping nor reach a hole.
Backed(a, n) ==
    \A b \in a .. a + n - 1 :
        b \in Addr /\ owner[b] = owner[a] /\ cell[b] \in Byte

ReadRam(a, n) ==
    /\ reply' = IF Backed(a, n)
                THEN Answer("read", a, n, TRUE, [k \in 1 .. n |-> cell[a + k - 1]])
                ELSE Answer("read", a, n, FALSE, <<>>)
    /\ cell[a] # "device"
    /\ UNCHANGED <<owner, cell>>

Put(a, data, n) ==
    cell' = [b \in Addr |-> IF b \in a .. a + n - 1 THEN data[b - a + 1] ELSE cell[b]]

WriteRam(a, data) ==
    /\ reply' = Answer("write", a, Len(data), TRUE, <<>>)
    /\ Backed(a, Len(data))
    /\ Put(a, data, Len(data))
    /\ UNCHANGED owner

\* A write that does not fit fails and writes nothing, except that a halfword
\* whose first byte is the last one of its RAM leaves that byte behind.
WriteRamFails(a, data) ==
    /\ reply' = Answer("write", a, Len(data), FALSE, <<>>)
    /\ cell[a] # "device"
    /\ ~Backed(a, Len(data))
    /\ IF Len(data) = 2 /\ Backed(a, 1) THEN Put(a, data, 1) ELSE UNCHANGED cell
    /\ UNCHANGED owner

DeviceAccess(a, n) ==
    /\ reply' \in {Answer("read", a, n, TRUE, d) : d \in [1 .. n -> Byte]}
                     \cup {Answer("write", a, n, TRUE, <<>>)}
    /\ cell[a] = "device"
    /\ UNCHANGED <<owner, cell>>

\* An access of n bytes at address a; the first conjunct only says early what
\* each disjunct says of the answer.
Access(a, n) ==
    /\ reply'.addr = a /\ reply'.n = n
    /\ \/ ReadRam(a, n)
       \/ DeviceAccess(a, n)
       \/ \E data \in [1 .. n -> Byte] : WriteRam(a, data) \/ WriteRamFails(a, data)

Next ==
    \/ Remap
    \/ \E a \in Addr, n \in Widths \cup {1} : Access(a, n)

Spec == Init /\ [][Next]_vars
=============================================================================
