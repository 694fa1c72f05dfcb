--------------------------- MODULE StepLoopProofs ----------------------------
(***************************************************************************)
(* What the engines of all architectures share: embedder code, whatever    *)
(* its powers, leaves the bus and the PC in their types.                   *)
(***************************************************************************)
EXTENDS StepLoop, BusRegionsProofs

\* Advancing the PC wraps within its range.
LEMMA NextPcTyped ==
  ASSUME LoopAssumption, NEW p \in Pc
  PROVE  NextPc(p) \in Pc
<1>1. ASSUME NEW N \in Nat \ {0}, NEW x \in Nat PROVE x % N \in 0 .. N - 1
  BY SMT
<1>2. p + ILen \in Nat /\ PcLimit \in Nat \ {0}
  BY DEF Pc, LoopAssumption
<1> QED
  BY <1>1, <1>2 DEF NextPc, Pc

\* One byte written by embedder code or by a store.
LEMMA PokeTyped ==
  ASSUME LoopAssumption, heap \in [Buf -> Content], NEW p \in Pokes
  PROVE  HeapAfterPoke(p) \in [Buf -> Content]
<1>1. p.byte \in Byte
  BY DEF LoopAssumption
<1>2. ASSUME NEW b \in Buf, NEW k \in 0 .. MaxLen - 1 PROVE heap[b][k] \in Byte
  BY DEF Content
<1> QED
  BY <1>1, <1>2 DEF HeapAfterPoke, Content

\* Whatever its powers, embedder code leaves the bus well typed.
LEMMA MeddleTyped ==
  ASSUME BusAssumption, LoopAssumption, regions \in Seq(Region), heap \in [Buf -> Content],
         NEW powers, Meddle(powers)
  PROVE  regions' \in Seq(Region) /\ heap' \in [Buf -> Content]
<1>1. regions \in Seq(Region) /\ heap \in [Buf -> Content]
  OBVIOUS
<1>2. CASE UNCHANGED <<regions, heap>>
  BY <1>1, <1>2
<1>3. ASSUME NEW p \in Pokes, heap' = HeapAfterPoke(p), UNCHANGED regions
      PROVE  regions' \in Seq(Region) /\ heap' \in [Buf -> Content]
  BY <1>1, <1>3, PokeTyped
<1>4. ASSUME NEW q \in Requests, MapTidy(q)
      PROVE  regions' \in Seq(Region) /\ heap' \in [Buf -> Content]
  <2> DEFINE r(b) == [start |-> q.start, size |-> q.size, kind |-> q.kind,
                      buf |-> IF q.kind = "ram" THEN b ELSE NoBuf,
                      len |-> IF q.kind = "ram" THEN q.len ELSE 0]
  <2>1. PICK b \in Buf :
          /\ regions' \in PushedAndSorted(regions, r(b))
          /\ heap' = IF q.kind = "ram" THEN [heap EXCEPT ![b] = Zeroed] ELSE heap
    BY <1>4 DEF MapTidy
  <2>2. r(b) \in Region
    BY DEF Region, Kind, LoopAssumption, BusAssumption
  <2> HIDE DEF r
  <2>3. regions' \in Seq(Region)
    BY <1>1, <2>1, <2>2, PushedAndSortedIsSorted
  <2>4. Zeroed \in Content
    BY DEF Zeroed, Content, BusAssumption
  <2> QED BY <1>1, <2>1, <2>3, <2>4
<1>5. ASSUME NEW s, regions' \in Retained(regions, s), heap' = Surviving(heap, regions')
      PROVE  regions' \in Seq(Region) /\ heap' \in [Buf -> Content]
  BY <1>1, <1>5, RetainedIsSorted, SurvivingIsTyped
<1> QED
  BY <1>2, <1>3, <1>4, <1>5 DEF Meddle

\* Embedder code sets the PC to a PC.
LEMMA PcAfterTyped ==
  ASSUME LoopAssumption, pc \in Pc, NEW powers
  PROVE  PcAfter(powers) \subseteq Pc
BY DEF PcAfter, LoopAssumption
-----------------------------------------------------------------------------
(* What embedder code leaves of the region table                            *)

\* The powers to unmap are given to nobody.
NobodyUnmaps == "unmap" \notin HostMay \cup CodeHookMay \cup IntHookMay

\* The region MapTidy makes of a request and a buffer.
Requested(q, b) ==
    [start |-> q.start, size |-> q.size, kind |-> q.kind,
     buf |-> IF q.kind = "ram" THEN b ELSE NoBuf,
     len |-> IF q.kind = "ram" THEN q.len ELSE 0]

\* It is a region, and the one that is pushed.
LEMMA MapPushes ==
  ASSUME BusAssumption, LoopAssumption, NEW q \in Requests, MapTidy(q)
  PROVE  /\ Tidy(regions')
         /\ \E b \in Buf : /\ Requested(q, b) \in Region
                           /\ regions' \in PushedAndSorted(regions, Requested(q, b))
<1>1. PICK b \in Buf : regions' \in PushedAndSorted(regions, Requested(q, b)) /\ Tidy(regions')
  BY DEF MapTidy, Requested
<1>2. Requested(q, b) \in Region
  BY DEF Requested, Region, Kind, LoopAssumption, BusAssumption
<1> QED BY <1>1, <1>2

\* Embedder code that may not unmap loses no region.
LEMMA MeddleKeepsRegions ==
  ASSUME BusAssumption, LoopAssumption, regions \in Seq(Region),
         NEW powers, "unmap" \notin powers, Meddle(powers)
  PROVE  \A i \in DOMAIN regions : \E j \in DOMAIN regions' : regions'[j] = regions[i]
<1>1. CASE UNCHANGED regions
  BY <1>1
<1>2. ASSUME NEW q \in Requests, MapTidy(q)
      PROVE  \A i \in DOMAIN regions : \E j \in DOMAIN regions' : regions'[j] = regions[i]
  BY <1>2, MapPushes, PushedAndSortedKeepsAll
<1> QED BY <1>1, <1>2 DEF Meddle

\* Embedder code keeps the table tidy.
LEMMA MeddleKeepsTidy ==
  ASSUME BusAssumption, LoopAssumption, regions \in Seq(Region), Tidy(regions),
         NEW powers, Meddle(powers)
  PROVE  Tidy(regions')
<1>1. ASSUME NEW s, regions' \in Retained(regions, s) PROVE Tidy(regions')
  BY <1>1, TidyAfterUnmap
<1> QED BY <1>1, MapPushes DEF Meddle

\* The window w is a RAM of the table.
InTable(rs, w) ==
    \E j \in DOMAIN rs :
        /\ rs[j].kind = "ram"
        /\ w.buf = rs[j].buf /\ w.base = rs[j].start /\ w.len = rs[j].len

\* It is the RAM that owns address a.
WindowOwns(rs, w, a) ==
    \E j \in Owners(rs, a) :
        /\ rs[j].kind = "ram"
        /\ w.buf = rs[j].buf /\ w.base = rs[j].start /\ w.len = rs[j].len

\* No pointer has been taken yet.
NullWindow(w) == w.buf = NoBuf /\ w.base = 0 /\ w.len = 0

\* The window stays where it is while no region is lost.
LEMMA WindowStays ==
  ASSUME NEW rs, NEW new, NEW w, NEW a,
         \A i \in DOMAIN rs : \E j \in DOMAIN new : new[j] = rs[i]
  PROVE  /\ InTable(rs, w) => InTable(new, w)
         /\ WindowOwns(rs, w, a) => WindowOwns(new, w, a)
<1>1. ASSUME InTable(rs, w) PROVE InTable(new, w)
  BY <1>1 DEF InTable
<1>2. ASSUME WindowOwns(rs, w, a) PROVE WindowOwns(new, w, a)
  BY <1>2 DEF WindowOwns, Owners
<1> QED BY <1>1, <1>2
=============================================================================
