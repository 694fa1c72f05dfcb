---------------------------- MODULE RegisterBytes ----------------------------
(***************************************************************************)
(* What a GPIO port promises whoever accesses it: a row of bytes.  There   *)
(* is no word, no shift and no mask here, only the byte an offset names.   *)
(* A value is the set of the numbers of its bits that are one.             *)
(***************************************************************************)
EXTENDS Integers

CONSTANTS Offsets, Values, Pins   \* the arguments of accesses

Bytes == 0 .. 31   \* eight registers of four bytes

VARIABLES
    cell,     \* what every byte holds
    access    \* the latest access: what it was and what it answered

vars == <<cell, access>>

Access(op, off, n, val) == [op |-> op, off |-> off, n |-> n, val |-> val]

Init ==
    /\ cell \in [Bytes -> SUBSET (0 .. 7)]
    /\ access = Access("none", 0, 0, {})

\* Byte k of a value.
ByteOf(val, k) == {b \in 0 .. 7 : (8 * k) + b \in val}

\* The byte that byte k of an access of n bytes is for; a word is the whole
\* register its offset is in.
Place(off, n, k) == IF n = 4 THEN off - (off % 4) + k ELSE off + k

\* The bytes an access reaches: it does not go beyond the register it begins in.
Reached(off, n) == {k \in 0 .. n - 1 : Place(off, n, k) \div 4 = off \div 4 /\ off < 32}

Reading(off, n) ==
    /\ access' = Access("read", off, n,
                        {b \in 0 .. (8 * n) - 1 :
                            b \div 8 \in Reached(off, n) /\ b % 8 \in cell[Place(off, n, b \div 8)]})
    /\ UNCHANGED cell

Writing(off, n, val) ==
    /\ access' = Access("write", off, n, val)
    /\ \A k \in Reached(off, n) : cell'[Place(off, n, k)] = ByteOf(val, k)
    /\ cell' \in [Bytes -> SUBSET (0 .. 7)]
    /\ \A c \in Bytes : (\A k \in Reached(off, n) : c # Place(off, n, k)) => cell'[c] = cell[c]

\* The input pins are the bits of the four bytes at 16.
Driving(pin, high) ==
    /\ access' = Access("drive", pin, 0, {})
    /\ cell' = [cell EXCEPT ![16 + (pin \div 8)] =
                   IF high THEN @ \cup {pin % 8} ELSE @ \ {pin % 8}]

\* The lamp is bit 5 of the outputs, if bit 10 of the modes makes it one.
Lit == 2 \in cell[1] /\ 5 \in cell[20]

Looking ==
    /\ access' = Access("lamp", 0, 0, IF Lit THEN {0} ELSE {})
    /\ UNCHANGED cell

\* The conjuncts that come first only say early what the rest says of access.
Next ==
    \/ /\ access'.op = "read"
       /\ \E off \in Offsets, n \in {1, 2, 4} :
             access'.off = off /\ access'.n = n /\ Reading(off, n)
    \/ /\ access'.op = "write"
       /\ \E off \in Offsets, n \in {1, 2, 4} :
             access'.off = off /\ access'.n = n /\ \E val \in Values : Writing(off, n, val)
    \/ /\ access'.op = "drive"
       /\ \E pin \in Pins, high \in BOOLEAN : Driving(pin, high)
    \/ Looking

Spec == Init /\ [][Next]_vars
=============================================================================
