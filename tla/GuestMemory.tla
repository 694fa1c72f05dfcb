---------------------------- MODULE GuestMemory ----------------------------
(***************************************************************************)
(* What an instruction sees of the bus: a load or a store of one, two or   *)
(* four bytes succeeds if the region that holds its first byte is mapped   *)
(* and holds the others too.  BusImplementsFlatMemory shows that the bus   *)
(* and its RAMs behave like this on tidy region tables.  A machine s has   *)
(* its memory in s.mem, the regions mapped so far in s.mapped, and in      *)
(* s.err how its last instruction ended.                                   *)
(***************************************************************************)
EXTENDS Words

CONSTANT Regions   \* the regions the host may map, as sets of addresses
ASSUME RegionsAssumption ==
  \A R \in Regions : /\ R \subseteq Word
                     /\ \A a, b \in R : a .. b \subseteq R
                     /\ \A T \in Regions : R \cap T # {} => R = T

Cells == UNION Regions

\* resolve_mut finds a region for the first byte and its RAM has all n.
Reachable(s, a, n) == \E R \in s.mapped : a \in R /\ a + n - 1 \in R

Loaded(s, a, n) == OfBytes([k \in 0 .. n - 1 |-> s.mem[a + k]], n)

Fails(s, e) == [s EXCEPT !.err = e]

Filled(mem, a, n, v) ==
  [c \in DOMAIN mem |-> IF c - a \in 0 .. n - 1 THEN ByteAt(v, c - a) ELSE mem[c]]

\* A halfword goes out bytewise: at the last byte of a region it is torn.
Stored(s, a, n, v) ==
  IF Reachable(s, a, n) THEN [s EXCEPT !.mem = Filled(@, a, n, v)]
  ELSE IF n = 2 /\ Reachable(s, a, 1)
  THEN Fails([s EXCEPT !.mem = Filled(@, a, 1, v)], "fault")
  ELSE Fails(s, "fault")
=============================================================================
