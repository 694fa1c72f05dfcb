-------------------------- MODULE MemoryBusProofs ---------------------------
(***************************************************************************)
(* Theorems about MemoryBus for every value of its constants: any address  *)
(* space, any set of map requests, any number of regions.  IInv says that  *)
(* every value is well typed and that the table is sorted, where           *)
(* BusRegionsProofs knows what resolution answers.  BlockInv adds that no  *)
(* two regions share a buffer and that the bytes a block transfer has      *)
(* moved are where they belong; FlatInv adds the tidy table on which the   *)
(* bus implements a flat memory.                                           *)
(***************************************************************************)
EXTENDS BusImplementsFlatMemory, BusRegionsProofs

-----------------------------------------------------------------------------
(* Types                                                                   *)

\* The offset of an address in the region resolution found.
LEMMA OffsetTyped ==
  ASSUME BusAssumption, TypeOK, NEW a \in Addr, NEW pos \in Resolved(regions, last, a), pos # 0
  PROVE  regions[pos] \in Region /\ a - regions[pos].start \in Nat
<1>1. pos \in DOMAIN regions /\ Contains(regions[pos], a)
  BY ResolvedPosition DEF TypeOK
<1>2. regions[pos] \in Region
  BY <1>1 DEF TypeOK
<1> QED
  BY <1>1, <1>2 DEF Contains, Region, Addr, BusAssumption

\* The cached position stays a position.
LEMMA NewLastTyped ==
  ASSUME BusAssumption, TypeOK, NEW a \in Addr, NEW pos \in Resolved(regions, last, a)
  PROVE  NewLast(last, pos) \in Nat \ {0}
<1>1. CASE pos = 0
  BY <1>1 DEF NewLast, TypeOK
<1>2. CASE pos # 0
  <2>1. pos \in DOMAIN regions
    BY <1>2, ResolvedPosition DEF TypeOK
  <2>2. DOMAIN regions = 1 .. Len(regions) /\ Len(regions) \in Nat
    BY DEF TypeOK
  <2> QED BY <1>2, <2>1, <2>2 DEF NewLast
<1> QED BY <1>1, <1>2

\* A read answers with bytes or with a fault.
LEMMA ReadReplyTyped ==
  ASSUME BusAssumption, TypeOK, NEW a \in Addr, NEW n \in 1 .. 4,
         NEW pos \in Resolved(regions, last, a), NEW rep \in ReadReplies(a, n, pos)
  PROVE  rep \in Reply /\ (rep.ok => rep.data \in [1 .. n -> Byte])
<1>1. CASE pos = 0
  <2>1. rep = MemoryFault("read", a, n, a)
    BY <1>1 DEF ReadReplies
  <2>2. a \in Nat /\ <<>> \in Seq(Byte)
    BY DEF Addr, BusAssumption
  <2> QED BY <2>1, <2>2 DEF MemoryFault, Reply, Op
<1>2. CASE pos # 0 /\ regions[pos].kind = "mmio"
  <2>1. PICK d \in [1 .. n -> Byte] : rep = Ok("read", a, n, d)
    BY <1>2 DEF ReadReplies
  <2>2. d \in Seq(Byte)
    OBVIOUS
  <2> QED BY <2>1, <2>2 DEF Ok, Reply, Op, Addr, BusAssumption
<1>3. CASE pos # 0 /\ regions[pos].kind = "ram"
  <2> DEFINE r   == regions[pos]
             off == a - r.start
  <2>1. r \in Region /\ off \in Nat
    BY <1>3, OffsetTyped
  <2>2. r.buf \in Buf /\ heap[r.buf] \in Content
    BY <1>3, <2>1 DEF Region, TypeOK
  <2> HIDE DEF r, off
  <2>3. CASE AccessOk(r, off, n)
    <3>1. BytesAt(heap[r.buf], off, n) \in [1 .. n -> Byte]
      <4>1. off + n <= MaxLen
        BY <2>1, <2>3, BytesDoneBound DEF AccessOk
      <4>2. ASSUME NEW k \in 1 .. n PROVE heap[r.buf][off + k - 1] \in Byte
        BY <2>1, <2>2, <4>1 DEF Content, BusAssumption
      <4> QED BY <4>2 DEF BytesAt
    <3>2. BytesAt(heap[r.buf], off, n) \in Seq(Byte)
      BY <3>1
    <3>3. rep = Ok("read", a, n, BytesAt(heap[r.buf], off, n))
      BY <1>3, <2>3 DEF ReadReplies, r, off
    <3> QED BY <3>1, <3>2, <3>3 DEF Ok, Reply, Op, Addr, BusAssumption
  <2>4. CASE ~AccessOk(r, off, n)
    <3>1. rep = MemoryFault("read", a, n, FaultOffset(r, off, n))
      BY <1>3, <2>4 DEF ReadReplies, r, off
    <3>2. FaultOffset(r, off, n) \in Nat
      BY <2>1, BytesDoneBound DEF FaultOffset
    <3> QED BY <3>1, <3>2 DEF MemoryFault, Reply, Op
  <2> QED BY <2>3, <2>4
<1>4. pos = 0 \/ regions[pos].kind \in Kind
  BY OffsetTyped DEF Region
<1> QED
  BY <1>1, <1>2, <1>3, <1>4 DEF Kind

\* A write answers with success or with a fault.
LEMMA WriteReplyTyped ==
  ASSUME BusAssumption, TypeOK, NEW a \in Addr, NEW n \in 1 .. 4,
         NEW pos \in Resolved(regions, last, a)
  PROVE  WriteReply(a, n, pos) \in Reply
<1> DEFINE r   == regions[pos]
           off == a - r.start
<1>1. /\ a \in Nat /\ <<>> \in Seq(Byte)
      /\ pos # 0 => r \in Region /\ off \in Nat
  BY OffsetTyped DEF Addr, BusAssumption
<1>2. \/ pos = 0 /\ WriteReply(a, n, pos) = MemoryFault("write", a, n, a)
      \/ WriteReply(a, n, pos) = Ok("write", a, n, <<>>)
      \/ pos # 0 /\ WriteReply(a, n, pos) = MemoryFault("write", a, n, FaultOffset(r, off, n))
  <2>1. pos = 0 \/ r.kind \in Kind
    BY <1>1 DEF Region
  <2> QED BY <2>1 DEF WriteReply, Kind
<1>3. pos # 0 => FaultOffset(r, off, n) \in Nat
  <2> HIDE DEF r, off
  <2> QED BY <1>1, BytesDoneBound DEF FaultOffset
<1>4. \A at \in Nat : MemoryFault("write", a, n, at) \in Reply
  BY <1>1 DEF MemoryFault, Reply, Op
<1>5. Ok("write", a, n, <<>>) \in Reply
  BY <1>1 DEF Ok, Reply, Op
<1> HIDE DEF r, off
<1> QED
  BY <1>1, <1>2, <1>3, <1>4, <1>5

\* A write leaves every buffer as long as it was.
LEMMA HeapAfterWriteTyped ==
  ASSUME BusAssumption, TypeOK, NEW a \in Addr, NEW n \in 1 .. 4,
         NEW data \in [1 .. n -> Byte], NEW pos \in Resolved(regions, last, a)
  PROVE  HeapAfterWrite(a, data, n, pos) \in [Buf -> Content]
<1> DEFINE r   == regions[pos]
           off == a - r.start
           done == BytesDone(r, off, n)
<1>1. heap \in [Buf -> Content]
  BY DEF TypeOK
<1>2. CASE ~(pos # 0 /\ r.kind = "ram")
  BY <1>1, <1>2 DEF HeapAfterWrite
<1>3. CASE pos # 0 /\ r.kind = "ram"
  <2>1. r \in Region /\ off \in Nat
    BY <1>3, OffsetTyped
  <2>2. r.buf \in Buf
    BY <1>3, <2>1 DEF Region
  <2>3. HeapAfterWrite(a, data, n, pos)
          = [heap EXCEPT ![r.buf] = Stored(heap[r.buf], off, data, done)]
    BY <1>1, <1>3, <2>2 DEF HeapAfterWrite
  <2> HIDE DEF r, off
  <2>4. done \in 0 .. n
    BY <2>1, BytesDoneBound
  <2> HIDE DEF done
  <2>5. Stored(heap[r.buf], off, data, done) \in Content
    <3>1. heap[r.buf] \in Content /\ DOMAIN heap[r.buf] = 0 .. MaxLen - 1
      BY <1>1, <2>2 DEF Content
    <3>2. ASSUME NEW i \in 0 .. MaxLen - 1
          PROVE  (IF i \in off .. off + done - 1 THEN data[i - off + 1] ELSE heap[r.buf][i])
                   \in Byte
      <4>1. CASE i \in off .. off + done - 1
        <5>1. i - off + 1 \in 1 .. n
          BY <2>1, <2>4, <4>1 DEF BusAssumption
        <5> QED BY <4>1, <5>1
      <4>2. CASE i \notin off .. off + done - 1
        BY <3>1, <4>2 DEF Content
      <4> QED BY <4>1, <4>2
    <3> QED BY <3>1, <3>2 DEF Stored, Content
  <2> QED BY <1>1, <2>2, <2>3, <2>5
<1> QED BY <1>2, <1>3

-----------------------------------------------------------------------------
(* The inductive invariant                                                 *)

IInv == TypeOK /\ RegionsSorted

\* The empty bus satisfies the invariant.
LEMMA InitEstablishesIInv ==
  ASSUME BusAssumption, Init
  PROVE  IInv
<1>1. Zeroed \in Content
  BY DEF Zeroed, Content, BusAssumption
<1>2. NoReply \in Reply /\ NoXfer \in Xfer /\ NoXfer.op = "none" /\ NoXfer.status = "idle"
  <2>1. 0 \in Addr /\ <<>> \in Seq(Byte)
    BY DEF Addr, BusAssumption
  <2> QED BY <2>1 DEF NoReply, NoXfer, Reply, Xfer, Op
<1>3. <<>> \in Seq(Region) /\ Sorted(<<>>)
  BY DEF Sorted
<1> QED
  BY <1>1, <1>2, <1>3 DEF Init, IInv, TypeOK, RegionsSorted

\* The table does not change in an access, so it stays sorted.
LEMMA ReadAccessTyped ==
  ASSUME BusAssumption, IInv, NEW a \in Addr, NEW n \in 1 .. 4, ReadAccess(a, n)
  PROVE  /\ regions' \in Seq(Region) /\ RegionsSorted'
         /\ last' \in Nat \ {0} /\ heap' \in [Buf -> Content] /\ reply' \in Reply
<1>1. PICK pos \in Resolved(regions, last, a) :
        /\ last' = NewLast(last, pos)
        /\ reply' \in ReadReplies(a, n, pos)
        /\ UNCHANGED <<regions, heap>>
  BY DEF ReadAccess, Resolve
<1>2. last' \in Nat \ {0} /\ reply' \in Reply
  BY <1>1, NewLastTyped, ReadReplyTyped DEF IInv
<1> QED
  BY <1>1, <1>2 DEF IInv, TypeOK, RegionsSorted

\* A write changes bytes, not the table.
LEMMA WriteAccessTyped ==
  ASSUME BusAssumption, IInv, NEW a \in Addr, NEW n \in 1 .. 4,
         NEW data \in [1 .. n -> Byte], WriteAccess(a, data, n)
  PROVE  /\ regions' \in Seq(Region) /\ RegionsSorted'
         /\ last' \in Nat \ {0} /\ heap' \in [Buf -> Content] /\ reply' \in Reply
<1>1. PICK pos \in Resolved(regions, last, a) :
        /\ last' = NewLast(last, pos)
        /\ reply' = WriteReply(a, n, pos)
        /\ heap' = HeapAfterWrite(a, data, n, pos)
        /\ UNCHANGED regions
  BY DEF WriteAccess, Resolve
<1>2. last' \in Nat \ {0} /\ reply' \in Reply /\ heap' \in [Buf -> Content]
  BY <1>1, NewLastTyped, WriteReplyTyped, HeapAfterWriteTyped DEF IInv
<1> QED
  BY <1>1, <1>2 DEF IInv, TypeOK, RegionsSorted

\* The values between accesses and transfers.
LEMMA EmptyTyped ==
  ASSUME BusAssumption
  PROVE  /\ NoReply \in Reply /\ NoXfer \in Xfer
         /\ NoXfer.op = "none" /\ NoXfer.status = "idle" /\ 1 \in Nat \ {0}
<1>1. 0 \in Addr /\ <<>> \in Seq(Byte)
  BY DEF Addr, BusAssumption
<1> QED BY <1>1 DEF NoReply, NoXfer, Reply, Xfer, Op

\* What can be mapped at all.
Mappable == [start : Addr, size : 0 .. AddrLimit - 1, kind : Kind, len : 0 .. MaxLen]

\* map keeps the invariant, whatever is mapped over what.
LEMMA MapKeepsIInv ==
  ASSUME BusAssumption, IInv, NEW q \in Mappable, Map(q)
  PROVE  IInv'
<1>1. PICK b \in Buf :
        /\ regions' \in PushedAndSorted(regions, RegionOf(q, b))
        /\ heap' = IF q.kind = "ram" THEN [heap EXCEPT ![b] = Zeroed] ELSE heap
  BY DEF Map
<1>2. RegionOf(q, b) \in Region
  BY DEF RegionOf, Region, Kind, Mappable, BusAssumption
<1>3. regions' \in Seq(Region) /\ Sorted(regions')
  BY <1>1, <1>2, PushedAndSortedIsSorted DEF IInv, TypeOK
<1>4. heap' \in [Buf -> Content]
  <2>1. Zeroed \in Content
    BY DEF Zeroed, Content, BusAssumption
  <2> QED BY <1>1, <2>1 DEF IInv, TypeOK
<1>5. last' = 1 /\ reply' = NoReply /\ xfer' = NoXfer
  BY DEF Map
<1> QED
  BY <1>3, <1>4, <1>5, EmptyTyped DEF IInv, TypeOK, RegionsSorted

\* unmap keeps the invariant.
LEMMA UnmapKeepsIInv ==
  ASSUME BusAssumption, IInv, NEW s \in Addr, Unmap(s)
  PROVE  IInv'
<1>1. regions' \in Seq(Region) /\ Sorted(regions')
  BY RetainedIsSorted DEF Unmap, IInv, TypeOK, RegionsSorted
<1>2. heap' \in [Buf -> Content]
  BY SurvivingIsTyped DEF Unmap, IInv, TypeOK
<1>3. last' = 1 /\ reply' = NoReply /\ xfer' = NoXfer
  BY DEF Unmap
<1> QED
  BY <1>1, <1>2, <1>3, EmptyTyped DEF IInv, TypeOK, RegionsSorted

\* Starting a block transfer touches nothing but the transfer.
LEMMA StartBlockKeepsIInv ==
  ASSUME BusAssumption, IInv, NEW a \in Addr, NEW n \in Nat, NEW data \in [1 .. n -> Byte],
         StartReadBytes(a, n) \/ StartWriteBytes(a, data)
  PROVE  IInv'
<1>1. UNCHANGED busVars /\ reply' = NoReply
  BY DEF StartReadBytes, StartWriteBytes
<1>2. data \in Seq(Byte) /\ Len(data) = n /\ <<>> \in Seq(Byte) /\ (n = 0 <=> data = <<>>)
  OBVIOUS
<1>3. /\ xfer' \in Xfer
      /\ xfer'.status = "busy" => xfer'.done < xfer'.len
      /\ xfer'.op = "write" => Len(xfer'.data) = xfer'.len
  <2>1. CASE StartReadBytes(a, n)
    <3>1. xfer' = [op |-> "read", addr |-> a, len |-> n, data |-> <<>>, done |-> 0,
                   status |-> IF n = 0 THEN "done" ELSE "busy"]
      BY <2>1 DEF StartReadBytes
    <3> QED BY <1>2, <3>1 DEF Xfer, Op
  <2>2. CASE StartWriteBytes(a, data)
    <3>1. xfer' = [op |-> "write", addr |-> a, len |-> n, data |-> data, done |-> 0,
                   status |-> IF n = 0 THEN "done" ELSE "busy"]
      BY <1>2, <2>2 DEF StartWriteBytes
    <3> QED BY <1>2, <3>1 DEF Xfer, Op
  <2> QED BY <2>1, <2>2
<1> QED
  BY <1>1, <1>3, EmptyTyped DEF IInv, TypeOK, RegionsSorted, busVars

\* The address of the next byte of a transfer wraps at the top.
LEMMA NextAddrTyped ==
  ASSUME BusAssumption, TypeOK
  PROVE  NextAddr \in Addr
<1>1. ASSUME NEW N \in Nat \ {0}, NEW x \in Nat PROVE x % N \in 0 .. N - 1
  BY SMT
<1>2. xfer.addr + xfer.done \in Nat
  BY DEF TypeOK, Xfer, Addr, BusAssumption
<1> QED
  BY <1>1, <1>2 DEF NextAddr, Addr, BusAssumption

\* The bookkeeping of a byte of a block transfer: a transfer that stays busy has
\* moved on by one byte and has bytes left.
LEMMA ProgressTyped ==
  ASSUME xfer \in Xfer, xfer.done < xfer.len, NEW ok \in BOOLEAN
  PROVE  /\ NextStatus(ok) \in {"busy", "done", "failed"}
         /\ (IF ok THEN xfer.done + 1 ELSE xfer.done) \in Nat
         /\ NextStatus(ok) = "busy" => (IF ok THEN xfer.done + 1 ELSE xfer.done) < xfer.len
<1>1. xfer.done \in Nat /\ xfer.len \in Nat
  BY DEF Xfer
<1>2. CASE ok
  BY <1>1, <1>2 DEF NextStatus
<1>3. CASE ~ok
  BY <1>1, <1>3 DEF NextStatus
<1> QED BY <1>2, <1>3

\* A byte of read_bytes keeps the invariant.
LEMMA ReadNextByteKeepsIInv ==
  ASSUME BusAssumption, IInv, ReadNextByte
  PROVE  IInv'
<1>1. NextAddr \in Addr /\ 1 \in 1 .. 4
  BY NextAddrTyped DEF IInv
<1>2. /\ regions' \in Seq(Region) /\ RegionsSorted'
      /\ last' \in Nat \ {0} /\ heap' \in [Buf -> Content] /\ reply' \in Reply
  BY <1>1, ReadAccessTyped DEF ReadNextByte
<1>3. /\ xfer' \in Xfer /\ xfer'.op = "read"
      /\ xfer'.status = "busy" => xfer'.done < xfer'.len
  <2>1. xfer \in Xfer /\ xfer.done < xfer.len /\ xfer.op = "read"
    BY DEF IInv, TypeOK, ReadNextByte
  <2>2. reply'.ok \in BOOLEAN /\ reply'.data \in Seq(Byte)
    BY <1>2 DEF Reply
  <2> DEFINE status == NextStatus(reply'.ok)
             done   == IF reply'.ok THEN xfer.done + 1 ELSE xfer.done
             data   == xfer.data \o reply'.data
  <2>3. xfer' = [xfer EXCEPT !.status = status, !.done = done, !.data = data]
    BY DEF ReadNextByte
  <2>4. data \in Seq(Byte)
    BY <2>1, <2>2 DEF Xfer
  <2>5. status \in {"busy", "done", "failed"} /\ done \in Nat
        /\ (status = "busy" => done < xfer.len)
    BY <2>1, <2>2, ProgressTyped
  <2> HIDE DEF status, done, data
  <2> QED BY <2>1, <2>3, <2>4, <2>5 DEF Xfer
<1> QED
  BY <1>2, <1>3 DEF IInv, TypeOK

\* A byte of write_bytes keeps the invariant.
LEMMA WriteNextByteKeepsIInv ==
  ASSUME BusAssumption, IInv, WriteNextByte
  PROVE  IInv'
<1> DEFINE byte == <<xfer.data[xfer.done + 1]>>
<1>1. NextAddr \in Addr /\ 1 \in 1 .. 4
  BY NextAddrTyped DEF IInv
<1>2. xfer \in Xfer /\ xfer.done < xfer.len /\ xfer.op = "write" /\ Len(xfer.data) = xfer.len
  BY DEF IInv, TypeOK, WriteNextByte
<1>3. byte \in [1 .. 1 -> Byte]
  <2>1. xfer.data \in Seq(Byte) /\ xfer.done + 1 \in 1 .. Len(xfer.data)
    BY <1>2 DEF Xfer
  <2>2. xfer.data[xfer.done + 1] \in Byte
    BY <2>1
  <2> QED BY <2>2
<1>4. /\ regions' \in Seq(Region) /\ RegionsSorted'
      /\ last' \in Nat \ {0} /\ heap' \in [Buf -> Content] /\ reply' \in Reply
  BY <1>1, <1>3, WriteAccessTyped DEF WriteNextByte
<1>5. /\ xfer' \in Xfer /\ Len(xfer'.data) = xfer'.len
      /\ xfer'.status = "busy" => xfer'.done < xfer'.len
  <2> DEFINE status == NextStatus(reply'.ok)
             done   == IF reply'.ok THEN xfer.done + 1 ELSE xfer.done
  <2>1. xfer' = [xfer EXCEPT !.status = status, !.done = done]
    BY DEF WriteNextByte
  <2>2. reply'.ok \in BOOLEAN
    BY <1>4 DEF Reply
  <2>3. status \in {"busy", "done", "failed"} /\ done \in Nat
        /\ (status = "busy" => done < xfer.len)
    BY <1>2, <2>2, ProgressTyped
  <2> HIDE DEF status, done
  <2> QED BY <1>2, <2>1, <2>3 DEF Xfer
<1> QED
  BY <1>4, <1>5 DEF IInv, TypeOK

\* Accesses are one to four bytes wide.
LEMMA WidthsTyped ==
  ASSUME MemoryBusAssumption, NEW n \in Widths
  PROVE  n \in 1 .. 4
BY DEF MemoryBusAssumption

\* Everything but map keeps the invariant.
LEMMA AccessesKeepIInv ==
  ASSUME BusAssumption, MemoryBusAssumption, IInv, Accesses
  PROVE  IInv'
<1>1. ASSUME NEW a \in Addr, NEW n \in Widths, Read(a, n) PROVE IInv'
  <2>1. xfer' = NoXfer /\ ReadAccess(a, n)
    BY <1>1 DEF Read
  <2> QED BY <2>1, ReadAccessTyped, WidthsTyped, EmptyTyped DEF IInv, TypeOK
<1>2. ASSUME NEW a \in Addr, NEW n \in Widths, NEW data \in [1 .. n -> Byte], Write(a, data)
      PROVE  IInv'
  <2>1. n \in 1 .. 4
    BY WidthsTyped
  <2>2. Len(data) = n
    BY <2>1
  <2>3. xfer' = NoXfer /\ WriteAccess(a, data, n)
    BY <1>2, <2>2 DEF Write
  <2> QED BY <2>1, <2>3, WriteAccessTyped, EmptyTyped DEF IInv, TypeOK
<1>3. ASSUME NEW a \in Addr, NEW n \in 0 .. MaxBlock, StartReadBytes(a, n) PROVE IInv'
  <2>1. n \in Nat
    BY DEF MemoryBusAssumption
  <2>2. [k \in 1 .. n |-> Zero] \in [1 .. n -> Byte]
    BY DEF BusAssumption
  <2> QED BY <1>3, <2>1, <2>2, StartBlockKeepsIInv
<1>4. ASSUME NEW a \in Addr, NEW n \in 0 .. MaxBlock, NEW data \in [1 .. n -> Byte],
             StartWriteBytes(a, data)
      PROVE  IInv'
  <2>1. n \in Nat
    BY DEF MemoryBusAssumption
  <2> QED BY <1>4, <2>1, StartBlockKeepsIInv
<1> QED
  BY <1>1, <1>2, <1>3, <1>4, ReadNextByteKeepsIInv, WriteNextByteKeepsIInv, UnmapKeepsIInv
     DEF Accesses

\* Every step of the bus, tidy embedder or not, keeps the invariant.
LEMMA NextKeepsIInv ==
  ASSUME BusAssumption, MemoryBusAssumption, IInv, [Next]_vars
  PROVE  IInv'
<1>1. CASE Next
  <2>1. Requests \subseteq Mappable
    BY DEF MemoryBusAssumption, Mappable
  <2> QED BY <1>1, <2>1, AccessesKeepIInv, MapKeepsIInv DEF Next
<1>2. CASE UNCHANGED vars
  BY <1>2 DEF vars, IInv, TypeOK, RegionsSorted
<1> QED BY <1>1, <1>2

\* The inductive invariant holds in every reachable state.
THEOREM InvariantHolds == Spec => []IInv
<1>1. Init => IInv
  BY InitEstablishesIInv, BusAssumption
<1>2. IInv /\ [Next]_vars => IInv'
  BY NextKeepsIInv, BusAssumption, MemoryBusAssumption
<1> QED
  BY <1>1, <1>2, PTL DEF Spec

-----------------------------------------------------------------------------
(* The theorems                                                            *)

\* Type correctness of the bus: after any sequence of maps, unmaps, accesses and
\* block transfers every buffer still holds MaxLen bytes, the table holds regions,
\* and a transfer under way has bytes left.
THEOREM TypeCorrect == Spec => []TypeOK
<1>1. IInv => TypeOK
  BY DEF IInv
<1> QED BY <1>1, InvariantHolds, PTL

\* The table is sorted by start in every reachable state, whatever is mapped.
THEOREM RegionsStaySorted == Spec => []RegionsSorted
<1>1. IInv => RegionsSorted
  BY DEF IInv
<1> QED BY <1>1, InvariantHolds, PTL

\* In every reachable state whose regions do not overlap, resolve_mut answers
\* with the owner of the address: the cached index never shows.
THEOREM ResolveIsExact == Spec => []ResolveAgrees
<1>1. IInv => ResolveAgrees
  BY ResolvedIsOwner, BusAssumption DEF IInv, TypeOK, RegionsSorted, ResolveAgrees
<1> QED BY <1>1, InvariantHolds, PTL
-----------------------------------------------------------------------------
(* Block transfers                                                         *)

\* On a tidy table one region says whether an address answers.
LEMMA OwnerDecides ==
  ASSUME BusAssumption, TypeOK, Tidy(regions), NEW a \in Addr, NEW i \in Owners(regions, a)
  PROVE  Answering(regions, a) <=> regions[i].kind = "mmio" \/ a - regions[i].start < regions[i].len
<1>1. \A j \in Owners(regions, a) : j = i
  BY OwnerUnique DEF TypeOK
<1> QED
  BY <1>1 DEF Answering

\* The region an access of an owned address goes to.
LEMMA OwnerServes ==
  ASSUME BusAssumption, IInv, Tidy(regions), NEW a \in Addr, NEW i \in Owners(regions, a)
  PROVE  /\ Resolved(regions, last, a) = {i} /\ i # 0
         /\ regions[i] \in Region /\ regions[i].kind \in Kind
         /\ regions[i].start \in Nat /\ regions[i].size \in Nat
         /\ a - regions[i].start \in Nat /\ regions[i].len \in Nat
         /\ regions[i].kind = "ram" => regions[i].buf \in Buf
<1>1. i \in DOMAIN regions /\ i # 0 /\ regions[i].start <= a /\ a \in Nat
  <2>1. DOMAIN regions = 1 .. Len(regions) /\ Len(regions) \in Nat
    BY DEF IInv, TypeOK
  <2> QED BY <2>1 DEF Owners, Addr, BusAssumption
<1>2. Resolved(regions, last, a) = {i}
  BY ResolvedIsOwner DEF IInv, TypeOK, RegionsSorted
<1> QED
  BY <1>1, <1>2, RegionNumbers DEF IInv, TypeOK

\* An access of an address without an owner.
LEMMA NobodyServes ==
  ASSUME BusAssumption, IInv, Tidy(regions), NEW a \in Addr, Owners(regions, a) = {}
  PROVE  Resolved(regions, last, a) = {0}
BY ResolvedIsOwner DEF IInv, TypeOK, RegionsSorted

\* The position resolution found is that of a device, or of a RAM that reaches to
\* the address.
Answers(pos, a) ==
    pos # 0 /\ (regions[pos].kind = "mmio" \/ a - regions[pos].start < regions[pos].len)

\* On a tidy table it is found exactly where somebody answers.
LEMMA AnswersIsAnswering ==
  ASSUME BusAssumption, IInv, Tidy(regions), NEW a \in Addr, NEW pos \in Resolved(regions, last, a)
  PROVE  Answers(pos, a) <=> Answering(regions, a)
<1>1. CASE Owners(regions, a) = {}
  BY <1>1, NobodyServes DEF Answers, Answering
<1>2. ASSUME NEW i \in Owners(regions, a) PROVE Answers(pos, a) <=> Answering(regions, a)
  BY OwnerServes, OwnerDecides DEF Answers, IInv
<1> QED BY <1>1, <1>2

\* Whatever overlaps, the region resolution finds owns the address, and no region
\* owns the top of the address space: an end past it wraps and is below the start.
LEMMA FoundOwns ==
  ASSUME BusAssumption, IInv, NEW a \in Addr, NEW pos \in Resolved(regions, last, a), pos # 0
  PROVE  /\ pos \in Owners(regions, a) /\ pos \in DOMAIN regions /\ a + 1 < AddrLimit
         /\ regions[pos].kind \in Kind /\ a \in Nat /\ regions[pos].start \in Nat
         /\ a - regions[pos].start \in Nat
         /\ regions[pos].len \in Nat /\ regions[pos].len <= MaxLen
         /\ regions[pos].kind = "ram" => regions[pos].buf \in Buf
<1>1. pos \in DOMAIN regions /\ Contains(regions[pos], a)
  BY ResolvedPosition DEF IInv, TypeOK
<1> DEFINE r == regions[pos]
           x == r.start + r.size
<1>2. /\ r \in Region /\ r.start \in Nat /\ r.size \in Nat /\ r.len \in Nat /\ r.len <= MaxLen
      /\ r.kind \in Kind /\ (r.kind = "ram" => r.buf \in Buf)
  BY <1>1, RegionNumbers DEF IInv, TypeOK, BusAssumption
<1>3. a \in Nat /\ r.start <= a /\ a < EndOf(r)
  BY <1>1 DEF Contains, Addr, BusAssumption
<1>4. EndOf(r) \in Nat /\ EndOf(r) <= AddrLimit - 1 /\ EndOf(r) = x % AddrLimit
  BY <1>2, EndTyped DEF EndOf, Addr, BusAssumption
<1>5. EndOf(r) <= x
  <2>1. ASSUME NEW N \in Nat \ {0}, NEW y \in 0 .. N - 1 PROVE y % N = y
    BY SMT
  <2>2. CASE x < AddrLimit
    <3>1. x \in 0 .. AddrLimit - 1
      BY <1>2, <2>2 DEF BusAssumption
    <3> QED BY <1>2, <1>4, <2>1, <3>1 DEF BusAssumption
  <2>3. CASE ~(x < AddrLimit)
    BY <1>2, <1>4, <2>3 DEF BusAssumption
  <2> QED BY <2>2, <2>3
<1>6. a < x /\ a + 1 < AddrLimit
  BY <1>2, <1>3, <1>4, <1>5 DEF BusAssumption
<1> QED
  BY <1>1, <1>2, <1>3, <1>6 DEF Owners

\* Reading a byte, whatever the regions overlap: it is answered by the region
\* that resolution found, with the byte at the address's offset.
LEMMA ReadsOneByte ==
  ASSUME BusAssumption, IInv, NEW a \in Addr, ReadAccess(a, 1)
  PROVE  /\ UNCHANGED <<regions, heap>> /\ reply'.ok \in BOOLEAN
         /\ reply'.data \in Seq(Byte) /\ Len(reply'.data) = IF reply'.ok THEN 1 ELSE 0
         /\ \E pos \in Resolved(regions, last, a) :
               /\ reply'.ok <=> Answers(pos, a)
               /\ reply'.ok => \/ regions[pos].kind = "mmio"
                               \/ heap[regions[pos].buf][a - regions[pos].start] = reply'.data[1]
<1>1. PICK pos \in Resolved(regions, last, a) :
        reply' \in ReadReplies(a, 1, pos) /\ UNCHANGED <<regions, heap>>
  BY DEF ReadAccess, Resolve
<1>2. reply' \in Reply /\ (reply'.ok => reply'.data \in [1 .. 1 -> Byte])
  BY <1>1, ReadReplyTyped DEF IInv
<1>3. reply'.ok \in BOOLEAN /\ reply'.data \in Seq(Byte) /\ (reply'.ok => Len(reply'.data) = 1)
  BY <1>2 DEF Reply
<1> DEFINE off == a - regions[pos].start
<1>4. /\ reply'.ok <=> Answers(pos, a)
      /\ ~reply'.ok => reply'.data = <<>>
      /\ reply'.ok => \/ regions[pos].kind = "mmio"
                      \/ heap[regions[pos].buf][off] = reply'.data[1]
  <2>1. CASE pos = 0
    <3>1. reply' = MemoryFault("read", a, 1, a)
      BY <1>1, <2>1 DEF ReadReplies
    <3> QED BY <2>1, <3>1 DEF Answers, MemoryFault
  <2>2. CASE pos # 0 /\ regions[pos].kind = "mmio"
    BY <1>1, <2>2 DEF ReadReplies, Ok, Answers
  <2>3. CASE pos # 0 /\ regions[pos].kind = "ram"
    <3>1. reply' = IF AccessOk(regions[pos], off, 1)
                   THEN Ok("read", a, 1, BytesAt(heap[regions[pos].buf], off, 1))
                   ELSE MemoryFault("read", a, 1, FaultOffset(regions[pos], off, 1))
      BY <1>1, <2>3 DEF ReadReplies
    <3>2. off \in Nat /\ regions[pos].len \in Nat
      BY <2>3, FoundOwns
    <3>3. AccessOk(regions[pos], off, 1) <=> off < regions[pos].len
      BY <3>2 DEF AccessOk, BytesDone
    <3>4. BytesAt(heap[regions[pos].buf], off, 1)[1] = heap[regions[pos].buf][off]
      BY <3>2 DEF BytesAt
    <3>5. Answers(pos, a) <=> off < regions[pos].len
      BY <2>3 DEF Answers
    <3> HIDE DEF off
    <3> QED BY <2>3, <3>1, <3>3, <3>4, <3>5 DEF Ok, MemoryFault
  <2>4. pos = 0 \/ regions[pos].kind \in Kind
    BY FoundOwns
  <2> QED BY <2>1, <2>2, <2>3, <2>4 DEF Kind
<1>5. ~reply'.ok => Len(reply'.data) = 0
  BY <1>4
<1> QED
  BY <1>1, <1>3, <1>4, <1>5

\* Writing a byte, whatever the regions overlap: it is stored at the address's
\* offset in the buffer of the region that resolution found, and nowhere else.
LEMMA StoresOneByte ==
  ASSUME BusAssumption, IInv, NEW a \in Addr, NEW v \in Byte, WriteAccess(a, <<v>>, 1)
  PROVE  /\ UNCHANGED regions /\ reply'.ok \in BOOLEAN
         /\ \E pos \in Resolved(regions, last, a) :
               /\ reply'.ok <=> Answers(pos, a)
               /\ heap' = IF Answers(pos, a) /\ regions[pos].kind = "ram"
                          THEN [heap EXCEPT ![regions[pos].buf] =
                                  [heap[regions[pos].buf] EXCEPT ![a - regions[pos].start] = v]]
                          ELSE heap
<1>1. PICK pos \in Resolved(regions, last, a) :
        /\ reply' = WriteReply(a, 1, pos) /\ heap' = HeapAfterWrite(a, <<v>>, 1, pos)
        /\ UNCHANGED regions
  BY DEF WriteAccess, Resolve
<1>2. heap \in [Buf -> Content]
  BY DEF IInv, TypeOK
<1> DEFINE off == a - regions[pos].start
           mem == heap[regions[pos].buf]
<1>3. /\ reply'.ok \in BOOLEAN /\ (reply'.ok <=> Answers(pos, a))
      /\ heap' = IF Answers(pos, a) /\ regions[pos].kind = "ram"
                 THEN [heap EXCEPT ![regions[pos].buf] = [mem EXCEPT ![off] = v]]
                 ELSE heap
  <2>1. CASE pos = 0
    <3>1. reply' = MemoryFault("write", a, 1, a) /\ heap' = heap
      BY <1>1, <2>1 DEF WriteReply, HeapAfterWrite
    <3> QED BY <2>1, <3>1 DEF Answers, MemoryFault
  <2>2. CASE pos # 0 /\ regions[pos].kind = "mmio"
    <3>1. reply'.ok = TRUE /\ heap' = heap
      BY <1>1, <2>2 DEF WriteReply, HeapAfterWrite, Ok
    <3> QED BY <2>2, <3>1 DEF Answers
  <2>3. CASE pos # 0 /\ regions[pos].kind = "ram"
    <3>1. /\ off \in Nat /\ regions[pos].len \in Nat /\ regions[pos].len <= MaxLen
          /\ regions[pos].buf \in Buf /\ mem \in Content
      BY <1>2, <2>3, FoundOwns
    <3>2. /\ reply' = IF AccessOk(regions[pos], off, 1)
                      THEN Ok("write", a, 1, <<>>)
                      ELSE MemoryFault("write", a, 1, FaultOffset(regions[pos], off, 1))
          /\ heap' = [heap EXCEPT ![regions[pos].buf] =
                         Stored(mem, off, <<v>>, BytesDone(regions[pos], off, 1))]
      <4>1. heap' = [heap EXCEPT ![regions[pos].buf] =
                        Stored(@, off, <<v>>, BytesDone(regions[pos], off, 1))]
        BY <1>1, <2>3 DEF HeapAfterWrite
      <4> QED BY <1>1, <1>2, <2>3, <3>1, <4>1 DEF WriteReply
    <3>3. BytesDone(regions[pos], off, 1) = IF off < regions[pos].len THEN 1 ELSE 0
      BY <3>1 DEF BytesDone
    <3>4. Answers(pos, a) <=> off < regions[pos].len
      BY <2>3 DEF Answers
    <3>5. DOMAIN mem = 0 .. MaxLen - 1 /\ mem = [x \in 0 .. MaxLen - 1 |-> mem[x]]
      BY <3>1 DEF Content
    <3> HIDE DEF off, mem
    <3>6. CASE off < regions[pos].len
      <4>1. Stored(mem, off, <<v>>, 1) = [mem EXCEPT ![off] = v]
        <5>1. off \in 0 .. MaxLen - 1
          BY <3>1, <3>6 DEF BusAssumption
        <5>2. ASSUME NEW x \in 0 .. MaxLen - 1
              PROVE  (IF x \in off .. off + 1 - 1 THEN <<v>>[x - off + 1] ELSE mem[x])
                       = IF x = off THEN v ELSE mem[x]
          <6>1. CASE x = off
            BY <3>1, <6>1
          <6>2. CASE x # off
            BY <3>1, <6>2
          <6> QED BY <6>1, <6>2
        <5> QED BY <3>5, <5>1, <5>2 DEF Stored
      <4>2. heap' = [heap EXCEPT ![regions[pos].buf] = [mem EXCEPT ![off] = v]]
        BY <3>2, <3>3, <3>6, <4>1
      <4>3. reply'.ok = TRUE
        BY <3>2, <3>3, <3>6 DEF AccessOk, Ok
      <4> QED BY <2>3, <3>4, <3>6, <4>2, <4>3
    <3>7. CASE ~(off < regions[pos].len)
      <4>1. Stored(mem, off, <<v>>, 0) = mem
        <5>1. \A x \in 0 .. MaxLen - 1 : x \notin off .. off + 0 - 1
          BY <3>1
        <5> QED BY <3>5, <5>1 DEF Stored
      <4>2. heap' = heap
        BY <1>2, <3>2, <3>3, <3>7, <4>1 DEF mem
      <4>3. reply'.ok = FALSE
        BY <3>2, <3>3, <3>7 DEF AccessOk, MemoryFault
      <4> QED BY <3>4, <3>7, <4>2, <4>3
    <3> QED BY <3>6, <3>7
  <2>4. pos = 0 \/ regions[pos].kind \in Kind
    BY FoundOwns
  <2> QED BY <2>1, <2>2, <2>3, <2>4 DEF Kind
<1> QED
  BY <1>1, <1>3

\* On a tidy table that region is the owner.
LEMMA WritesOneByte ==
  ASSUME BusAssumption, IInv, Tidy(regions), NEW a \in Addr, NEW v \in Byte,
         WriteAccess(a, <<v>>, 1)
  PROVE  /\ UNCHANGED regions /\ reply'.ok \in BOOLEAN
         /\ reply'.ok <=> Answering(regions, a)
         /\ ~reply'.ok => heap' = heap
         /\ \A i \in Owners(regions, a) :
               heap' = IF regions[i].kind = "ram" /\ a - regions[i].start < regions[i].len
                       THEN [heap EXCEPT ![regions[i].buf] =
                               [heap[regions[i].buf] EXCEPT ![a - regions[i].start] = v]]
                       ELSE heap
<1>1. PICK pos \in Resolved(regions, last, a) :
        /\ reply'.ok <=> Answers(pos, a)
        /\ heap' = IF Answers(pos, a) /\ regions[pos].kind = "ram"
                   THEN [heap EXCEPT ![regions[pos].buf] =
                           [heap[regions[pos].buf] EXCEPT ![a - regions[pos].start] = v]]
                   ELSE heap
  BY StoresOneByte
<1>2. UNCHANGED regions /\ reply'.ok \in BOOLEAN
  BY StoresOneByte
<1>3. ASSUME NEW i \in Owners(regions, a)
      PROVE  pos = i /\ (Answers(pos, a) /\ regions[pos].kind = "ram"
                           <=> regions[i].kind = "ram" /\ a - regions[i].start < regions[i].len)
  BY OwnerServes DEF Answers
<1>4. \A i \in Owners(regions, a) :
         heap' = IF regions[i].kind = "ram" /\ a - regions[i].start < regions[i].len
                 THEN [heap EXCEPT ![regions[i].buf] =
                         [heap[regions[i].buf] EXCEPT ![a - regions[i].start] = v]]
                 ELSE heap
  BY <1>1, <1>3
<1> QED
  BY <1>1, <1>2, <1>4, AnswersIsAnswering

\* A byte stored through one address shows at that address only: no other RAM
\* shares the buffer, and no other address of the region the offset.
LEMMA StoreIsLocal ==
  ASSUME BusAssumption, IInv, BuffersDistinct(regions),
         NEW a \in Addr, NEW v \in Byte, WriteAccess(a, <<v>>, 1)
  PROVE  /\ \A c \in Addr : \A w :
               c # a /\ AnswersWith(regions, heap, c, w) => AnswersWith(regions', heap', c, w)
         /\ reply'.ok => AnswersWith(regions', heap', a, v)
<1>1. PICK pos \in Resolved(regions, last, a) :
        /\ reply'.ok <=> Answers(pos, a)
        /\ heap' = IF Answers(pos, a) /\ regions[pos].kind = "ram"
                   THEN [heap EXCEPT ![regions[pos].buf] =
                           [heap[regions[pos].buf] EXCEPT ![a - regions[pos].start] = v]]
                   ELSE heap
  BY StoresOneByte
<1>2. heap \in [Buf -> Content] /\ regions' = regions
  BY StoresOneByte DEF IInv, TypeOK
<1>3. CASE ~(Answers(pos, a) /\ regions[pos].kind = "ram")
  <2>1. heap' = heap
    BY <1>1, <1>3
  <2>2. ASSUME Answers(pos, a) PROVE AnswersWith(regions, heap, a, v)
    <3>1. pos \in Owners(regions, a) /\ regions[pos].kind = "mmio"
      BY <1>3, <2>2, FoundOwns DEF Answers, Kind
    <3> QED BY <3>1 DEF AnswersWith
  <2> QED BY <1>1, <1>2, <2>1, <2>2
<1>4. CASE Answers(pos, a) /\ regions[pos].kind = "ram"
  <2> DEFINE b   == regions[pos].buf
             off == a - regions[pos].start
  <2>1. /\ off \in Nat /\ off < regions[pos].len /\ b \in Buf
        /\ pos \in Owners(regions, a) /\ pos \in DOMAIN regions
        /\ regions[pos].start \in Nat /\ regions[pos].len \in Nat /\ regions[pos].len <= MaxLen
    BY <1>4, FoundOwns DEF Answers
  <2>2. heap' = [heap EXCEPT ![b] = [heap[b] EXCEPT ![off] = v]]
    BY <1>1, <1>4
  <2>3. off \in 0 .. MaxLen - 1 /\ heap[b] \in Content
    <3> HIDE DEF b, off
    <3> QED BY <1>2, <2>1 DEF BusAssumption
  <2>4. /\ heap'[b][off] = v
        /\ \A x : x # off => heap'[b][x] = heap[b][x]
        /\ \A d : d # b => heap'[d] = heap[d]
    <3> HIDE DEF b, off
    <3> QED BY <1>2, <2>1, <2>2, <2>3 DEF Content
  <2>5. AnswersWith(regions', heap', a, v)
    BY <1>2, <2>1, <2>4 DEF AnswersWith
  <2>6. ASSUME NEW c \in Addr, NEW w, c # a, NEW j \in Owners(regions, c),
               regions[j].kind # "mmio", heap[regions[j].buf][c - regions[j].start] = w
        PROVE  heap'[regions[j].buf][c - regions[j].start] = w
    <3>1. j \in DOMAIN regions /\ regions[j].start \in Nat /\ regions[j].kind = "ram"
      BY <2>6, RegionNumbers DEF Owners, IInv, TypeOK, Kind
    <3>2. CASE j = pos
      <4>1. c - regions[j].start # off
        BY <2>6, <3>1, <3>2 DEF Addr, BusAssumption
      <4> HIDE DEF off
      <4> QED BY <2>4, <2>6, <3>2, <4>1
    <3>3. CASE j # pos
      <4>1. regions[j].buf # b
        BY <1>4, <2>1, <3>1, <3>3 DEF BuffersDistinct
      <4> QED BY <2>4, <2>6, <4>1
    <3> QED BY <3>2, <3>3
  <2>7. \A c \in Addr : \A w :
           c # a /\ AnswersWith(regions, heap, c, w) => AnswersWith(regions', heap', c, w)
    BY <1>2, <2>6 DEF AnswersWith
  <2> QED BY <2>5, <2>7
<1> QED
  BY <1>3, <1>4

\* What a transfer has moved so far, in plain sums: no transfer reaches the top
\* of the address space, where nobody answers, and a read has collected as many
\* bytes as it has come.
Transferred ==
    /\ xfer.addr + xfer.done < AddrLimit
    /\ xfer.op = "read" => Len(xfer.data) = xfer.done
    /\ \A k \in 1 .. xfer.done : AnswersWith(regions, heap, xfer.addr + k - 1, xfer.data[k])
    /\ xfer.status = "done" => xfer.done = xfer.len
    /\ xfer.status = "failed" =>
          /\ xfer.done < xfer.len
          /\ Tidy(regions) => ~Answering(regions, xfer.addr + xfer.done)

\* The invariant of the block transfers: a store reaches one address only because
\* no two RAMs share a buffer.
BlockInv ==
    /\ IInv
    /\ BuffersDistinct(regions)
    /\ Transferred

\* The address of the last byte moved is still in the address space.
LEMMA TransferredIsExact ==
  ASSUME BusAssumption, BlockInv
  PROVE  BlockTransferExact
<1>1. xfer.addr \in Nat /\ xfer.done \in Nat /\ xfer.addr + xfer.done < AddrLimit
  BY DEF BlockInv, IInv, TypeOK, Xfer, Addr, BusAssumption, Transferred
<1>2. \A k \in 1 .. xfer.done : xfer.addr + k - 1 \in Addr
  BY <1>1 DEF Addr, BusAssumption
<1>3. xfer.addr + (xfer.done + 1) - 1 = xfer.addr + xfer.done
  BY <1>1
<1> QED
  BY <1>2, <1>3 DEF BlockInv, Transferred, BlockTransferExact

\* Between transfers there is nothing to say of them.
LEMMA NoTransferYet ==
  ASSUME BusAssumption
  PROVE  (xfer = NoXfer => Transferred) /\ (xfer' = NoXfer => Transferred')
BY DEF NoXfer, Transferred, BusAssumption

\* The next byte goes to the next address: the last one was not the top.
LEMMA NextAddrExact ==
  ASSUME BusAssumption, BlockInv
  PROVE  NextAddr = xfer.addr + xfer.done /\ NextAddr \in Addr
<1>1. ASSUME NEW N \in Nat \ {0}, NEW x \in 0 .. N - 1 PROVE x % N = x
  BY SMT
<1>2. xfer.addr + xfer.done \in 0 .. AddrLimit - 1
  BY DEF BlockInv, IInv, TypeOK, Xfer, Addr, BusAssumption, Transferred
<1> QED
  BY <1>1, <1>2 DEF NextAddr, Addr, BusAssumption
-----------------------------------------------------------------------------
(* Every step keeps the invariant of the block transfers                   *)

\* A transfer under way, as numbers.
LEMMA TransferUnderWay ==
  ASSUME BusAssumption, BlockInv, xfer.status = "busy"
  PROVE  /\ xfer \in Xfer /\ xfer.done < xfer.len
         /\ xfer.addr \in Nat /\ xfer.done \in Nat /\ xfer.len \in Nat
         /\ xfer.data \in Seq(Byte)
         /\ xfer.op = "write" => Len(xfer.data) = xfer.len
         /\ xfer.op = "read" => Len(xfer.data) = xfer.done
<1>1. xfer \in Xfer /\ xfer.done < xfer.len /\ (xfer.op = "write" => Len(xfer.data) = xfer.len)
  BY DEF BlockInv, IInv, TypeOK
<1>2. xfer.op = "read" => Len(xfer.data) = xfer.done
  BY DEF BlockInv, Transferred
<1> QED
  BY <1>1, <1>2 DEF Xfer, Addr, BusAssumption

\* The bookkeeping of a byte: if it was answered the transfer has moved on by one,
\* if not it has failed where it was.
LEMMA ByteCounted ==
  ASSUME xfer \in Xfer, xfer.done < xfer.len, NEW ok \in BOOLEAN, NEW done, NEW status,
         done = IF ok THEN xfer.done + 1 ELSE xfer.done, status = NextStatus(ok)
  PROVE  /\ status = "done" => done = xfer.len
         /\ status = "failed" => done < xfer.len /\ ~ok
<1>1. xfer.done \in Nat /\ xfer.len \in Nat
  BY DEF Xfer
<1> QED
  BY <1>1 DEF NextStatus

\* Appending.
LEMMA Appended ==
  ASSUME NEW s \in Seq(Byte), NEW t \in Seq(Byte), NEW u, u = s \o t, NEW n, n = Len(s)
  PROVE  /\ Len(u) = n + Len(t)
         /\ \A k \in 1 .. n : u[k] = s[k]
         /\ Len(t) = 1 => u[n + 1] = t[1]
<1>1. n \in Nat /\ Len(u) = n + Len(t)
  OBVIOUS
<1>2. \A k \in 1 .. n : u[k] = s[k]
  OBVIOUS
<1>3. ASSUME Len(t) = 1 PROVE u[n + 1] = t[1]
  <2>1. n + 1 \in 1 .. Len(s) + Len(t)
    BY <1>1, <1>3
  <2>2. u[n + 1] = IF n + 1 <= Len(s) THEN s[n + 1] ELSE t[n + 1 - Len(s)]
    BY <2>1
  <2> QED BY <1>1, <2>2
<1> QED BY <1>1, <1>2, <1>3

\* A byte of read_bytes.
LEMMA ReadNextByteKeepsTransferred ==
  ASSUME BusAssumption, BlockInv, ReadNextByte
  PROVE  Transferred'
<1> DEFINE ok == reply'.ok
           a  == xfer.addr + xfer.done
<1>1. /\ ReadAccess(NextAddr, 1) /\ xfer.op = "read" /\ xfer.status = "busy"
      /\ xfer' = [xfer EXCEPT !.status = NextStatus(ok), !.done = IF ok THEN @ + 1 ELSE @,
                              !.data = @ \o reply'.data]
      /\ UNCHANGED <<regions, heap>>
  BY DEF ReadNextByte, ReadAccess
<1>2. /\ xfer \in Xfer /\ xfer.done < xfer.len
      /\ xfer.addr \in Nat /\ xfer.done \in Nat /\ xfer.len \in Nat
      /\ xfer.data \in Seq(Byte) /\ Len(xfer.data) = xfer.done
  BY <1>1, TransferUnderWay
<1>3. NextAddr = a /\ a \in Addr
  BY NextAddrExact
<1>4. /\ ok \in BOOLEAN
      /\ reply'.data \in Seq(Byte) /\ (Len(reply'.data) = IF ok THEN 1 ELSE 0)
      /\ ok => AnswersWith(regions, heap, a, reply'.data[1]) /\ a + 1 < AddrLimit
      /\ Tidy(regions) => (ok <=> Answering(regions, a))
  <2>1. IInv /\ ReadAccess(a, 1)
    BY <1>1, <1>3 DEF BlockInv
  <2> HIDE DEF a
  <2>2. PICK pos \in Resolved(regions, last, a) :
          /\ ok <=> Answers(pos, a)
          /\ ok => \/ regions[pos].kind = "mmio"
                   \/ heap[regions[pos].buf][a - regions[pos].start] = reply'.data[1]
    BY <1>3, <2>1, ReadsOneByte
  <2>3. ok \in BOOLEAN /\ reply'.data \in Seq(Byte) /\ (Len(reply'.data) = IF ok THEN 1 ELSE 0)
    BY <1>3, <2>1, ReadsOneByte
  <2>4. ASSUME ok PROVE AnswersWith(regions, heap, a, reply'.data[1]) /\ a + 1 < AddrLimit
    <3>1. pos # 0 /\ (regions[pos].kind = "mmio" \/ a - regions[pos].start < regions[pos].len)
      BY <2>2, <2>4 DEF Answers
    <3>2. pos \in Owners(regions, a) /\ a + 1 < AddrLimit
      BY <1>3, <2>1, <3>1, FoundOwns
    <3> QED BY <2>2, <2>4, <3>1, <3>2 DEF AnswersWith
  <2>5. Tidy(regions) => (ok <=> Answering(regions, a))
    BY <1>3, <2>1, <2>2, AnswersIsAnswering
  <2> QED BY <2>3, <2>4, <2>5
<1>5. \A c : \A w : AnswersWith(regions', heap', c, w) <=> AnswersWith(regions, heap, c, w)
  BY <1>1 DEF AnswersWith
<1>6. /\ Tidy(regions') <=> Tidy(regions)
      /\ \A c : Answering(regions', c) <=> Answering(regions, c)
  BY <1>1 DEF Answering
<1> HIDE DEF ok, a
<1>7. /\ xfer'.addr = xfer.addr /\ xfer'.len = xfer.len /\ xfer'.op = "read"
      /\ xfer'.done = (IF ok THEN xfer.done + 1 ELSE xfer.done)
      /\ xfer'.status = NextStatus(ok) /\ xfer'.data = xfer.data \o reply'.data
  BY <1>1, <1>2 DEF Xfer
<1>8. /\ Len(xfer'.data) = xfer'.done
      /\ \A k \in 1 .. xfer.done : xfer'.data[k] = xfer.data[k]
      /\ ok => xfer'.data[xfer.done + 1] = reply'.data[1]
  <2>1. /\ xfer.data \in Seq(Byte) /\ reply'.data \in Seq(Byte)
        /\ xfer.done = Len(xfer.data) /\ xfer'.data = xfer.data \o reply'.data
    BY <1>2, <1>4, <1>7
  <2>2. /\ Len(xfer'.data) = xfer.done + Len(reply'.data)
        /\ \A k \in 1 .. xfer.done : xfer'.data[k] = xfer.data[k]
        /\ Len(reply'.data) = 1 => xfer'.data[xfer.done + 1] = reply'.data[1]
    <3> DEFINE s == xfer.data
               t == reply'.data
               u == xfer'.data
               n == xfer.done
    <3>1. s \in Seq(Byte) /\ t \in Seq(Byte) /\ u = s \o t /\ n = Len(s)
      BY <2>1
    <3> HIDE DEF s, t, u, n
    <3>2. /\ Len(u) = n + Len(t)
          /\ \A k \in 1 .. n : u[k] = s[k]
          /\ Len(t) = 1 => u[n + 1] = t[1]
      BY <3>1, Appended
    <3> QED BY <3>2 DEF s, t, u, n
  <2>3. Len(reply'.data) = (IF ok THEN 1 ELSE 0) /\ xfer'.done = IF ok THEN xfer.done + 1 ELSE xfer.done
    BY <1>4, <1>7
  <2>4. CASE ok
    BY <1>2, <2>2, <2>3, <2>4
  <2>5. CASE ~ok
    BY <1>2, <2>2, <2>3, <2>5
  <2> QED BY <2>4, <2>5
<1>9. \A k \in 1 .. xfer'.done : AnswersWith(regions, heap, xfer.addr + k - 1, xfer'.data[k])
  <2>1. \A k \in 1 .. xfer.done : AnswersWith(regions, heap, xfer.addr + k - 1, xfer'.data[k])
    BY <1>8 DEF BlockInv, Transferred
  <2>2. ok => AnswersWith(regions, heap, a, xfer'.data[xfer.done + 1])
    BY <1>4, <1>8
  <2>3. a = xfer.addr + (xfer.done + 1) - 1
    BY <1>2 DEF a
  <2>4. \A k \in 1 .. xfer'.done : k \in 1 .. xfer.done \/ (ok /\ k = xfer.done + 1)
    BY <1>2, <1>7
  <2> QED BY <2>1, <2>2, <2>3, <2>4
<1>10. xfer'.addr + xfer'.done < AddrLimit
  <2>1. CASE ok
    BY <1>2, <1>4, <1>7, <2>1 DEF a
  <2>2. CASE ~ok
    BY <1>2, <1>7, <2>2 DEF BlockInv, Transferred
  <2> QED BY <2>1, <2>2
<1>11. /\ xfer'.status = "done" => xfer'.done = xfer'.len
       /\ xfer'.status = "failed" =>
             /\ xfer'.done < xfer'.len
             /\ Tidy(regions) => ~Answering(regions, xfer'.addr + xfer'.done)
  <2>1. /\ xfer'.status = "done" => xfer'.done = xfer.len
        /\ xfer'.status = "failed" => xfer'.done < xfer.len /\ ~ok
    BY <1>2, <1>4, <1>7, ByteCounted
  <2> QED BY <1>4, <1>7, <2>1 DEF a
<1> QED
  BY <1>5, <1>6, <1>7, <1>8, <1>9, <1>10, <1>11 DEF Transferred

\* A byte of write_bytes: the bytes written before stay where they are, because
\* the addresses of a transfer differ.
LEMMA WriteNextByteKeepsTransferred ==
  ASSUME BusAssumption, BlockInv, WriteNextByte
  PROVE  Transferred'
<1> DEFINE ok == reply'.ok
           a  == xfer.addr + xfer.done
           v  == xfer.data[xfer.done + 1]
<1>1. /\ WriteAccess(NextAddr, <<v>>, 1) /\ xfer.op = "write" /\ xfer.status = "busy"
      /\ xfer' = [xfer EXCEPT !.status = NextStatus(ok), !.done = IF ok THEN @ + 1 ELSE @]
      /\ UNCHANGED regions
  BY DEF WriteNextByte, WriteAccess
<1>2. /\ xfer \in Xfer /\ xfer.done < xfer.len
      /\ xfer.addr \in Nat /\ xfer.done \in Nat /\ xfer.len \in Nat
      /\ xfer.data \in Seq(Byte) /\ Len(xfer.data) = xfer.len
  BY <1>1, TransferUnderWay
<1>3. NextAddr = a /\ a \in Addr
  BY NextAddrExact
<1>4. v \in Byte
  BY <1>2
<1>5. /\ ok \in BOOLEAN
      /\ ok => a + 1 < AddrLimit
      /\ Tidy(regions) => (ok <=> Answering(regions, a))
      /\ \A c \in Addr : \A w :
            c # a /\ AnswersWith(regions, heap, c, w) => AnswersWith(regions', heap', c, w)
      /\ ok => AnswersWith(regions', heap', a, v)
  <2>1. WriteAccess(a, <<v>>, 1) /\ a \in Addr
    BY <1>1, <1>3
  <2>2. IInv /\ BuffersDistinct(regions)
    BY DEF BlockInv
  <2> HIDE DEF a, v
  <2>3. PICK pos \in Resolved(regions, last, a) : ok <=> Answers(pos, a)
    BY <1>4, <2>1, <2>2, StoresOneByte
  <2>4. ok \in BOOLEAN
    BY <1>4, <2>1, <2>2, StoresOneByte
  <2>5. ok => a + 1 < AddrLimit
    BY <2>1, <2>2, <2>3, FoundOwns DEF Answers
  <2>6. Tidy(regions) => (ok <=> Answering(regions, a))
    BY <2>1, <2>2, <2>3, AnswersIsAnswering
  <2>7. /\ \A c \in Addr : \A w :
              c # a /\ AnswersWith(regions, heap, c, w) => AnswersWith(regions', heap', c, w)
        /\ ok => AnswersWith(regions', heap', a, v)
    BY <1>4, <2>1, <2>2, StoreIsLocal
  <2> QED BY <2>4, <2>5, <2>6, <2>7
<1>6. /\ Tidy(regions') <=> Tidy(regions)
      /\ \A c : Answering(regions', c) <=> Answering(regions, c)
  BY <1>1 DEF Answering
<1> HIDE DEF ok, a, v
<1>7. /\ xfer'.addr = xfer.addr /\ xfer'.len = xfer.len /\ xfer'.op = "write"
      /\ xfer'.done = (IF ok THEN xfer.done + 1 ELSE xfer.done)
      /\ xfer'.status = NextStatus(ok) /\ xfer'.data = xfer.data
  BY <1>1, <1>2 DEF Xfer
<1>8. \A k \in 1 .. xfer'.done : AnswersWith(regions', heap', xfer.addr + k - 1, xfer.data[k])
  <2>1. ASSUME NEW k \in 1 .. xfer.done
        PROVE  AnswersWith(regions', heap', xfer.addr + k - 1, xfer.data[k])
    <3>1. xfer.addr + k - 1 \in Addr /\ xfer.addr + k - 1 # a
      BY <1>2, <1>3 DEF Addr, BusAssumption, a
    <3>2. AnswersWith(regions, heap, xfer.addr + k - 1, xfer.data[k])
      BY DEF BlockInv, Transferred
    <3> QED BY <1>5, <3>1, <3>2
  <2>2. ok => AnswersWith(regions', heap', a, xfer.data[xfer.done + 1])
    BY <1>5 DEF v
  <2>3. a = xfer.addr + (xfer.done + 1) - 1
    BY <1>2 DEF a
  <2>4. \A k \in 1 .. xfer'.done : k \in 1 .. xfer.done \/ (ok /\ k = xfer.done + 1)
    BY <1>2, <1>7
  <2> QED BY <2>1, <2>2, <2>3, <2>4
<1>9. xfer'.addr + xfer'.done < AddrLimit
  <2>1. CASE ok
    BY <1>2, <1>5, <1>7, <2>1 DEF a
  <2>2. CASE ~ok
    BY <1>2, <1>7, <2>2 DEF BlockInv, Transferred
  <2> QED BY <2>1, <2>2
<1>10. /\ xfer'.status = "done" => xfer'.done = xfer'.len
       /\ xfer'.status = "failed" =>
             /\ xfer'.done < xfer'.len
             /\ Tidy(regions) => ~Answering(regions, xfer'.addr + xfer'.done)
  <2>1. /\ xfer'.status = "done" => xfer'.done = xfer.len
        /\ xfer'.status = "failed" => xfer'.done < xfer.len /\ ~ok
    BY <1>2, <1>5, <1>7, ByteCounted
  <2> QED BY <1>5, <1>7, <2>1 DEF a
<1> QED
  BY <1>6, <1>7, <1>8, <1>9, <1>10 DEF Transferred

\* The start of a transfer has moved nothing yet.
LEMMA StartBlockKeepsTransferred ==
  ASSUME BusAssumption, NEW a \in Addr, NEW n \in Nat, NEW data \in [1 .. n -> Byte],
         StartReadBytes(a, n) \/ StartWriteBytes(a, data)
  PROVE  Transferred'
<1>1. data \in Seq(Byte) /\ Len(data) = n /\ (n = 0 <=> data = <<>>)
  OBVIOUS
<1>2. /\ xfer'.addr = a /\ xfer'.done = 0 /\ xfer'.len = n
      /\ xfer'.op = "read" => xfer'.data = <<>>
      /\ xfer'.status = IF n = 0 THEN "done" ELSE "busy"
  BY <1>1 DEF StartReadBytes, StartWriteBytes
<1>3. a + 0 < AddrLimit /\ (xfer'.op = "read" => Len(xfer'.data) = 0)
  BY <1>2 DEF Addr, BusAssumption
<1> QED
  BY <1>2, <1>3 DEF Transferred

\* map gives a RAM a buffer of its own.
LEMMA MapKeepsBuffersApart ==
  ASSUME BusAssumption, BlockInv, NEW q \in Mappable, Map(q)
  PROVE  BuffersDistinct(regions')
<1>1. PICK b \in Buf :
        /\ q.kind = "ram" => b \notin BuffersOf(regions)
        /\ regions' \in PushedAndSorted(regions, RegionOf(q, b))
  BY DEF Map
<1>2. RegionOf(q, b) \in Region
  BY DEF RegionOf, Region, Kind, Mappable, BusAssumption
<1>3. RegionOf(q, b).kind = "ram" => RegionOf(q, b).buf \notin BuffersOf(regions)
  BY <1>1 DEF RegionOf
<1> QED
  BY <1>1, <1>2, <1>3, MapKeepsBuffersDistinct DEF BlockInv, IInv, TypeOK

\* map, whatever is mapped.
LEMMA MapKeepsBlockInv ==
  ASSUME BusAssumption, BlockInv, NEW q \in Mappable, Map(q)
  PROVE  BlockInv'
<1>1. IInv'
  BY MapKeepsIInv DEF BlockInv
<1>2. BuffersDistinct(regions')
  BY MapKeepsBuffersApart
<1>3. Transferred'
  BY NoTransferYet DEF Map
<1> QED BY <1>1, <1>2, <1>3 DEF BlockInv

\* The start of a transfer of any length.
LEMMA StartBlockKeepsBlockInv ==
  ASSUME BusAssumption, BlockInv, NEW a \in Addr, NEW n \in Nat, NEW data \in [1 .. n -> Byte],
         StartReadBytes(a, n) \/ StartWriteBytes(a, data)
  PROVE  BlockInv'
<1>1. IInv'
  BY StartBlockKeepsIInv DEF BlockInv
<1>2. Transferred'
  BY StartBlockKeepsTransferred
<1>3. regions' = regions
  BY DEF StartReadBytes, StartWriteBytes, busVars
<1> QED BY <1>1, <1>2, <1>3 DEF BlockInv

\* Accesses and unmap.
LEMMA AccessesKeepBlockInv ==
  ASSUME BusAssumption, MemoryBusAssumption, BlockInv, Accesses
  PROVE  BlockInv'
<1>1. IInv'
  BY AccessesKeepIInv DEF BlockInv
<1>2. ASSUME regions' = regions PROVE BuffersDistinct(regions')
  BY <1>2 DEF BlockInv
<1>3. ASSUME regions' = regions, Transferred' PROVE BlockInv'
  BY <1>1, <1>2, <1>3 DEF BlockInv
<1>4. ASSUME NEW a \in Addr, NEW n \in Widths, Read(a, n) PROVE BlockInv'
  BY <1>3, <1>4, NoTransferYet DEF Read, ReadAccess
<1>5. ASSUME NEW a \in Addr, NEW n \in Widths, NEW data \in [1 .. n -> Byte], Write(a, data)
      PROVE  BlockInv'
  BY <1>3, <1>5, NoTransferYet DEF Write, WriteAccess
<1>6. ASSUME NEW a \in Addr, NEW n \in 0 .. MaxBlock, StartReadBytes(a, n) PROVE BlockInv'
  <2>1. n \in Nat /\ [k \in 1 .. n |-> Zero] \in [1 .. n -> Byte]
    BY DEF MemoryBusAssumption, BusAssumption
  <2> QED BY <1>6, <2>1, StartBlockKeepsBlockInv
<1>7. ASSUME NEW a \in Addr, NEW n \in 0 .. MaxBlock, NEW data \in [1 .. n -> Byte],
             StartWriteBytes(a, data)
      PROVE  BlockInv'
  <2>1. n \in Nat
    BY DEF MemoryBusAssumption
  <2> QED BY <1>7, <2>1, StartBlockKeepsBlockInv
<1>8. ASSUME ReadNextByte PROVE BlockInv'
  <2>1. regions' = regions
    BY <1>8 DEF ReadNextByte, ReadAccess
  <2> QED BY <1>3, <1>8, <2>1, ReadNextByteKeepsTransferred
<1>9. ASSUME WriteNextByte PROVE BlockInv'
  <2>1. regions' = regions
    BY <1>9 DEF WriteNextByte, WriteAccess
  <2> QED BY <1>3, <1>9, <2>1, WriteNextByteKeepsTransferred
<1>10. ASSUME NEW s \in Addr, Unmap(s) PROVE BlockInv'
  <2>1. regions' \in Retained(regions, s) /\ xfer' = NoXfer
    BY <1>10 DEF Unmap
  <2>2. BuffersDistinct(regions')
    BY <2>1, UnmapKeepsBuffersDistinct DEF BlockInv, IInv, TypeOK
  <2> QED BY <1>1, <2>1, <2>2, NoTransferYet DEF BlockInv
<1> QED
  BY <1>4, <1>5, <1>6, <1>7, <1>8, <1>9, <1>10 DEF Accesses

\* Every step of the bus.
LEMMA NextKeepsBlockInv ==
  ASSUME BusAssumption, MemoryBusAssumption, BlockInv, [Next]_vars
  PROVE  BlockInv'
<1>1. ASSUME NEW q \in Requests, Map(q) PROVE BlockInv'
  <2>1. q \in Mappable
    BY DEF MemoryBusAssumption, Mappable
  <2> QED BY <1>1, <2>1, MapKeepsBlockInv
<1>2. CASE UNCHANGED vars
  <2>1. IInv'
    BY <1>2, NextKeepsIInv DEF BlockInv
  <2>2. Transferred'
    BY <1>2 DEF vars, BlockInv, Transferred, Answering, AnswersWith
  <2> QED BY <1>2, <2>1, <2>2 DEF vars, BlockInv
<1> QED
  BY <1>1, <1>2, AccessesKeepBlockInv DEF Next

\* The empty bus.
LEMMA InitEstablishesBlockInv ==
  ASSUME BusAssumption, Init
  PROVE  BlockInv
<1>1. BuffersDistinct(regions)
  BY DEF Init, BuffersDistinct
<1>2. Transferred
  BY NoTransferYet DEF Init
<1> QED
  BY <1>1, <1>2, InitEstablishesIInv DEF BlockInv

\* read_bytes and write_bytes in every reachable state, over regions of any size
\* and whatever they overlap: the bytes moved are bytes of regions at consecutive
\* addresses, none of them beyond the top, a transfer that is done moved all, one
\* that failed did not, and on a tidy table it stopped exactly where nobody answers.
THEOREM BlockTransfersAreExact == Spec => []BlockTransferExact
<1>1. Init => BlockInv
  BY InitEstablishesBlockInv, BusAssumption
<1>2. BlockInv /\ [Next]_vars => BlockInv'
  BY NextKeepsBlockInv, BusAssumption, MemoryBusAssumption
<1>3. BlockInv => BlockTransferExact
  BY TransferredIsExact, BusAssumption
<1> QED
  BY <1>1, <1>2, <1>3, PTL DEF Spec
-----------------------------------------------------------------------------
(* What a table says of an address                                         *)

\* The one owner of an address tells what it belongs to and what it holds.
LEMMA OwnerTells ==
  ASSUME BusAssumption, NEW rs \in Seq(Region), Tidy(rs), NEW a \in Addr,
         NEW i \in Owners(rs, a)
  PROVE  /\ OwnerIn(rs, a) = rs[i].start
         /\ \A mem : CellIn(rs, mem, a) =
              IF rs[i].kind = "mmio" THEN "device"
              ELSE IF a - rs[i].start < rs[i].len THEN mem[rs[i].buf][a - rs[i].start]
              ELSE "hole"
<1> DEFINE c == CHOOSE j \in Owners(rs, a) : TRUE
<1>1. c \in Owners(rs, a) /\ Owners(rs, a) # {}
  OBVIOUS
<1>2. c = i
  BY <1>1, OwnerUnique
<1>3. rs[i].kind \in Kind
  BY RegionNumbers DEF Owners
<1> HIDE DEF c
<1> QED
  BY <1>1, <1>2, <1>3 DEF OwnerIn, CellIn, Kind, c

\* An address without an owner.
LEMMA NoOwnerTells ==
  ASSUME NEW rs, NEW mem, NEW a, Owners(rs, a) = {}
  PROVE  OwnerIn(rs, a) = -1 /\ CellIn(rs, mem, a) = "unmapped"
BY DEF OwnerIn, CellIn

\* The owners of an address after map are those before, and the new region if
\* the address is in it.
LEMMA OwnersAfterMap ==
  ASSUME BusAssumption, NEW rs \in Seq(Region), NEW r \in Region,
         NEW new \in PushedAndSorted(rs, r), NEW a \in Addr
  PROVE  /\ \A i \in Owners(rs, a) : \E j \in Owners(new, a) : new[j] = rs[i]
         /\ a \in r.start .. r.start + r.size - 1 => \E j \in Owners(new, a) : new[j] = r
         /\ \A j \in Owners(new, a) :
               \/ a \in r.start .. r.start + r.size - 1
               \/ \E i \in Owners(rs, a) : new[j] = rs[i]
<1>1. PICK k \in DOMAIN new, place \in [DOMAIN rs -> DOMAIN new] :
        /\ new[k] = r
        /\ \A i \in DOMAIN rs : new[place[i]] = rs[i]
        /\ \A j \in DOMAIN new : j = k \/ \E i \in DOMAIN rs : j = place[i]
  BY AfterMap
<1>2. ASSUME NEW i \in Owners(rs, a) PROVE \E j \in Owners(new, a) : new[j] = rs[i]
  BY <1>1 DEF Owners
<1>3. r.start \in Nat /\ r.size \in Nat /\ a \in Nat
  BY DEF Region, Addr, BusAssumption
<1>4. ASSUME a \in r.start .. r.start + r.size - 1 PROVE \E j \in Owners(new, a) : new[j] = r
  BY <1>1, <1>3, <1>4 DEF Owners
<1>5. ASSUME NEW j \in Owners(new, a)
      PROVE  \/ a \in r.start .. r.start + r.size - 1
             \/ \E i \in Owners(rs, a) : new[j] = rs[i]
  <2>1. j \in DOMAIN new /\ new[j].start <= a /\ a < new[j].start + new[j].size
    BY DEF Owners
  <2>2. CASE j = k
    BY <1>1, <1>3, <2>1, <2>2
  <2>3. CASE j # k
    BY <1>1, <2>1, <2>3 DEF Owners
  <2> QED BY <2>2, <2>3
<1> QED
  BY <1>2, <1>4, <1>5

\* The owners of an address after unmap are those that start elsewhere.
LEMMA OwnersAfterUnmap ==
  ASSUME NEW rs \in Seq(Region), NEW s, NEW new \in Retained(rs, s), NEW a \in Addr
  PROVE  /\ \A i \in Owners(rs, a) : rs[i].start # s => \E j \in Owners(new, a) : new[j] = rs[i]
         /\ \A j \in Owners(new, a) : \E i \in Owners(rs, a) : new[j] = rs[i] /\ rs[i].start # s
<1>1. PICK from \in [DOMAIN new -> DOMAIN rs] :
        /\ \A j \in DOMAIN new : new[j] = rs[from[j]] /\ new[j].start # s
        /\ \A i \in DOMAIN rs : rs[i].start # s => \E j \in DOMAIN new : from[j] = i
  BY AfterUnmap
<1>2. ASSUME NEW i \in Owners(rs, a), rs[i].start # s
      PROVE  \E j \in Owners(new, a) : new[j] = rs[i]
  BY <1>1, <1>2 DEF Owners
<1>3. ASSUME NEW j \in Owners(new, a)
      PROVE  \E i \in Owners(rs, a) : new[j] = rs[i] /\ rs[i].start # s
  BY <1>1 DEF Owners
<1> QED
  BY <1>2, <1>3

\* map changes what the addresses of the new region hold, and nothing else.
LEMMA CellsAfterMap ==
  ASSUME BusAssumption, NEW rs \in Seq(Region), NEW r \in Region,
         NEW new \in PushedAndSorted(rs, r), Tidy(new), NEW mem, NEW mem2,
         \A b \in BuffersOf(rs) : mem2[b] = mem[b], r.kind = "ram" => mem2[r.buf] = Zeroed,
         NEW a \in Addr
  PROVE  IF a \in r.start .. r.start + r.size - 1
         THEN /\ OwnerIn(rs, a) = -1 /\ OwnerIn(new, a) = r.start
              /\ CellIn(new, mem2, a) = IF r.kind = "mmio" THEN "device"
                                        ELSE IF a < r.start + r.len THEN Zero ELSE "hole"
         ELSE OwnerIn(new, a) = OwnerIn(rs, a) /\ CellIn(new, mem2, a) = CellIn(rs, mem, a)
<1>1. /\ new \in Seq(Region) /\ Tidy(rs)
      /\ \A i \in DOMAIN rs : Disjoint(rs[i], r)
  BY AfterMap, TidyBeforeMap
<1>2. /\ r.start \in Nat /\ r.size \in Nat /\ r.len \in Nat /\ r.len <= MaxLen
      /\ r.kind \in Kind /\ a \in Nat
  BY DEF Region, Addr, BusAssumption
<1>3. CASE a \in r.start .. r.start + r.size - 1
  <2>1. Owners(rs, a) = {}
    <3>1. ASSUME NEW i \in Owners(rs, a) PROVE FALSE
      <4>1. /\ rs[i].start \in Nat /\ rs[i].size \in Nat /\ Disjoint(rs[i], r)
            /\ rs[i].start <= a /\ a < rs[i].start + rs[i].size
        BY <1>1, RegionNumbers DEF Owners
      <4> QED BY <1>2, <1>3, <4>1 DEF Disjoint
    <3> QED BY <3>1
  <2>2. PICK j \in Owners(new, a) : new[j] = r
    BY <1>3, OwnersAfterMap
  <2>3. /\ OwnerIn(new, a) = r.start
        /\ CellIn(new, mem2, a) = IF r.kind = "mmio" THEN "device"
                                  ELSE IF a - r.start < r.len THEN mem2[r.buf][a - r.start]
                                  ELSE "hole"
    BY <1>1, <2>2, OwnerTells
  <2>4. OwnerIn(rs, a) = -1
    BY <2>1, NoOwnerTells
  <2>5. a - r.start < r.len <=> a < r.start + r.len
    BY <1>2
  <2>6. r.kind = "ram" /\ a - r.start < r.len => mem2[r.buf][a - r.start] = Zero
    <3>1. a - r.start < r.len => a - r.start \in 0 .. MaxLen - 1
      BY <1>2, <1>3 DEF BusAssumption
    <3> QED BY <3>1 DEF Zeroed
  <2> QED BY <1>2, <1>3, <2>3, <2>4, <2>5, <2>6 DEF Kind
<1>4. CASE a \notin r.start .. r.start + r.size - 1
  <2>1. CASE Owners(rs, a) = {}
    <3>1. Owners(new, a) = {}
      BY <1>4, <2>1, OwnersAfterMap
    <3> QED BY <1>4, <2>1, <3>1, NoOwnerTells
  <2>2. ASSUME NEW i \in Owners(rs, a)
        PROVE  OwnerIn(new, a) = OwnerIn(rs, a) /\ CellIn(new, mem2, a) = CellIn(rs, mem, a)
    <3>1. PICK j \in Owners(new, a) : new[j] = rs[i]
      BY OwnersAfterMap
    <3>2. rs[i].kind = "mmio" \/ mem2[rs[i].buf] = mem[rs[i].buf]
      <4>1. i \in DOMAIN rs /\ rs[i].kind \in Kind
        BY RegionNumbers DEF Owners
      <4> QED BY <4>1, BufferTaken DEF Kind
    <3>3. OwnerIn(new, a) = OwnerIn(rs, a)
      BY <1>1, <3>1, OwnerTells
    <3>4. CellIn(new, mem2, a) =
              IF rs[i].kind = "mmio" THEN "device"
              ELSE IF a - rs[i].start < rs[i].len THEN mem2[rs[i].buf][a - rs[i].start]
              ELSE "hole"
      BY <1>1, <3>1, OwnerTells
    <3>5. CellIn(rs, mem, a) =
              IF rs[i].kind = "mmio" THEN "device"
              ELSE IF a - rs[i].start < rs[i].len THEN mem[rs[i].buf][a - rs[i].start]
              ELSE "hole"
      BY <1>1, OwnerTells
    <3> QED BY <3>2, <3>3, <3>4, <3>5
  <2> QED BY <1>4, <2>1, <2>2
<1> QED
  BY <1>3, <1>4

\* unmap takes away what belonged to the mapping that starts at s.
LEMMA CellsAfterUnmap ==
  ASSUME BusAssumption, NEW rs \in Seq(Region), Tidy(rs), NEW s \in Addr,
         NEW new \in Retained(rs, s), NEW mem, NEW mem2,
         \A b \in BuffersOf(new) : mem2[b] = mem[b], NEW a \in Addr
  PROVE  IF OwnerIn(rs, a) = s
         THEN OwnerIn(new, a) = -1 /\ CellIn(new, mem2, a) = "unmapped"
         ELSE OwnerIn(new, a) = OwnerIn(rs, a) /\ CellIn(new, mem2, a) = CellIn(rs, mem, a)
<1>1. new \in Seq(Region) /\ Tidy(new)
  BY AfterUnmap, TidyAfterUnmap
<1>2. s # -1
  BY DEF Addr
<1>3. CASE Owners(rs, a) = {}
  <2>1. Owners(new, a) = {}
    BY <1>3, OwnersAfterUnmap
  <2> QED BY <1>2, <1>3, <2>1, NoOwnerTells
<1>4. ASSUME NEW i \in Owners(rs, a), rs[i].start = s
      PROVE  /\ OwnerIn(rs, a) = s
             /\ OwnerIn(new, a) = -1 /\ CellIn(new, mem2, a) = "unmapped"
  <2>1. OwnerIn(rs, a) = s
    BY <1>4, OwnerTells
  <2>2. Owners(new, a) = {}
    <3>1. ASSUME NEW j \in Owners(new, a) PROVE FALSE
      <4>1. PICK k \in Owners(rs, a) : rs[k].start # s
        BY OwnersAfterUnmap
      <4> QED BY <1>4, <4>1, OwnerUnique
    <3> QED BY <3>1
  <2> QED BY <2>1, <2>2, NoOwnerTells
<1>5. ASSUME NEW i \in Owners(rs, a), rs[i].start # s
      PROVE  /\ OwnerIn(rs, a) # s
             /\ OwnerIn(new, a) = OwnerIn(rs, a) /\ CellIn(new, mem2, a) = CellIn(rs, mem, a)
  <2>1. PICK j \in Owners(new, a) : new[j] = rs[i]
    BY <1>5, OwnersAfterUnmap
  <2>2. rs[i].kind = "mmio" \/ mem2[rs[i].buf] = mem[rs[i].buf]
    <3>1. j \in DOMAIN new /\ rs[i].kind \in Kind
      BY <2>1, RegionNumbers DEF Owners
    <3> QED BY <1>1, <2>1, <3>1, BufferTaken DEF Kind
  <2>3. OwnerIn(new, a) = OwnerIn(rs, a) /\ OwnerIn(rs, a) # s
    BY <1>1, <1>5, <2>1, OwnerTells
  <2>4. CellIn(new, mem2, a) =
            IF rs[i].kind = "mmio" THEN "device"
            ELSE IF a - rs[i].start < rs[i].len THEN mem2[rs[i].buf][a - rs[i].start]
            ELSE "hole"
    BY <1>1, <2>1, OwnerTells
  <2>5. CellIn(rs, mem, a) =
            IF rs[i].kind = "mmio" THEN "device"
            ELSE IF a - rs[i].start < rs[i].len THEN mem[rs[i].buf][a - rs[i].start]
            ELSE "hole"
    BY OwnerTells
  <2> QED BY <2>2, <2>3, <2>4, <2>5
<1> QED
  BY <1>3, <1>4, <1>5
-----------------------------------------------------------------------------
(* The bus of a tidy embedder is a flat memory                             *)

\* What the refinement needs: the table is tidy, and no two RAMs share a buffer.
FlatInv == BlockInv /\ Tidy(regions)

\* A tidy embedder's table stays tidy.
LEMMA TidyNextKeepsFlatInv ==
  ASSUME BusAssumption, MemoryBusAssumption, FlatInv, [TidyNext]_vars
  PROVE  FlatInv'
<1>1. [Next]_vars
  BY DEF TidyNext, Next
<1>2. BlockInv'
  BY <1>1, NextKeepsBlockInv DEF FlatInv
<1>3. ASSUME NEW q \in Requests, Map(q), Tidy(regions') PROVE Tidy(regions')
  BY <1>3
<1>4. ASSUME regions' = regions PROVE Tidy(regions')
  BY <1>4 DEF FlatInv
<1>5. ASSUME NEW s \in Addr, Unmap(s) PROVE Tidy(regions')
  BY <1>5, TidyAfterUnmap DEF Unmap, FlatInv, BlockInv, IInv, TypeOK
<1>6. ASSUME Accesses PROVE Tidy(regions')
  <2>1. \/ regions' = regions
        \/ \E s \in Addr : Unmap(s)
    BY <1>6 DEF Accesses, Read, Write, ReadAccess, WriteAccess, StartReadBytes, StartWriteBytes,
                ReadNextByte, WriteNextByte, busVars
  <2> QED BY <1>4, <1>5, <2>1
<1>7. ASSUME UNCHANGED vars PROVE Tidy(regions')
  BY <1>4, <1>7 DEF vars
<1>8. Tidy(regions')
  BY <1>3, <1>6, <1>7 DEF TidyNext
<1> QED
  BY <1>2, <1>8 DEF FlatInv

\* The empty bus is the empty memory.
LEMMA InitIsFlat ==
  ASSUME BusAssumption, Init
  PROVE  Flat!Init /\ FlatInv
<1>1. regions = <<>> /\ reply = NoReply
  BY DEF Init
<1>2. \A a \in Addr : OwnerOf(a) = -1 /\ CellOf(a) = "unmapped"
  <2>1. \A a \in Addr : Owners(regions, a) = {}
    BY <1>1 DEF Owners
  <2> QED BY <2>1, NoOwnerTells DEF OwnerOf, CellOf
<1>3. [op |-> reply.op, addr |-> reply.addr, n |-> reply.n, ok |-> reply.ok,
       data |-> reply.data] = Flat!NoAnswer
  BY <1>1 DEF NoReply, Flat!NoAnswer, Flat!Answer
<1>4. Flat!Init
  BY <1>2, <1>3 DEF Flat!Init, Flat!Addr, Flat!NoOwner, Addr
<1>5. Tidy(regions)
  BY <1>1 DEF Tidy
<1> QED
  BY <1>4, <1>5, InitEstablishesBlockInv DEF FlatInv

\* The answer a flat memory shows when the bus has answered nothing.
LEMMA NothingAnswered ==
  ASSUME reply' = NoReply
  PROVE  [op |-> reply'.op, addr |-> reply'.addr, n |-> reply'.n, ok |-> reply'.ok,
          data |-> reply'.data] = Flat!NoAnswer
BY DEF NoReply, Flat!NoAnswer, Flat!Answer

\* map takes an area nobody has.
LEMMA MapIsFlat ==
  ASSUME BusAssumption, MemoryBusAssumption, FlatInv, NEW q \in Requests, Map(q), Tidy(regions')
  PROVE  Flat!Next
<1>1. PICK b \in Buf :
        /\ q.kind = "ram" => b \notin BuffersOf(regions)
        /\ regions' \in PushedAndSorted(regions, RegionOf(q, b))
        /\ heap' = IF q.kind = "ram" THEN [heap EXCEPT ![b] = Zeroed] ELSE heap
  BY DEF Map
<1> DEFINE r == RegionOf(q, b)
           area == q.start .. q.start + q.size - 1
           len == IF q.kind = "ram" THEN q.len ELSE 0
<1>2. /\ r \in Region /\ q.kind \in Kind /\ q.start \in Addr /\ q.size \in Addr
      /\ q.len \in Nat /\ q.start \in Nat /\ q.size \in Nat
      /\ r.start = q.start /\ r.size = q.size /\ r.kind = q.kind /\ r.len = len
      /\ q.kind = "ram" => r.buf = b
  BY DEF RegionOf, Region, Kind, MemoryBusAssumption, BusAssumption, Addr
<1>3. regions \in Seq(Region) /\ heap \in [Buf -> Content]
  BY DEF FlatInv, BlockInv, IInv, TypeOK
<1>4. /\ \A d \in BuffersOf(regions) : heap'[d] = heap[d]
      /\ q.kind = "ram" => heap'[b] = Zeroed
  <2>1. \A d \in BuffersOf(regions) : d \in Buf
    <3>1. \A i \in DOMAIN regions : regions[i] \in Region
      BY <1>3
    <3> QED BY <3>1 DEF BuffersOf, Region
  <2> QED BY <1>1, <1>3, <2>1
<1>5. Fits(r)
  BY <1>1, <1>2, <1>3, TidyBeforeMap
<1>6. area # {} /\ area \subseteq Addr /\ len \in 0 .. q.size
  <2>1. q.size > 0 /\ q.start + q.size < AddrLimit /\ len <= q.size
    BY <1>2, <1>5 DEF Fits
  <2>2. q.start \in area
    BY <1>2, <2>1
  <2> QED BY <1>2, <2>1, <2>2 DEF Addr, BusAssumption
<1> HIDE DEF r
<1>7. ASSUME NEW a \in Addr
      PROVE  IF a \in area
             THEN /\ OwnerIn(regions, a) = -1 /\ OwnerIn(regions', a) = q.start
                  /\ CellIn(regions', heap', a) = IF q.kind = "mmio" THEN "device"
                                                 ELSE IF a < q.start + len THEN Zero ELSE "hole"
             ELSE /\ OwnerIn(regions', a) = OwnerIn(regions, a)
                  /\ CellIn(regions', heap', a) = CellIn(regions, heap, a)
  <2>1. /\ regions' \in PushedAndSorted(regions, r)
        /\ r.kind = "ram" => heap'[r.buf] = Zeroed
    BY <1>1, <1>2, <1>4 DEF r
  <2>2. IF a \in r.start .. r.start + r.size - 1
        THEN /\ OwnerIn(regions, a) = -1 /\ OwnerIn(regions', a) = r.start
             /\ CellIn(regions', heap', a) = IF r.kind = "mmio" THEN "device"
                                            ELSE IF a < r.start + r.len THEN Zero ELSE "hole"
        ELSE /\ OwnerIn(regions', a) = OwnerIn(regions, a)
             /\ CellIn(regions', heap', a) = CellIn(regions, heap, a)
    BY <1>2, <1>3, <1>4, <2>1, CellsAfterMap
  <2> QED BY <1>2, <2>2
<1> HIDE DEF area, len
<1>8. Flat!MapArea(q.start, q.size, q.kind, len)
  <2>1. area # {} /\ area \subseteq Addr /\ \A a \in area : OwnerIn(regions, a) = -1
    BY <1>6, <1>7
  <2>2. \A a \in Addr : OwnerIn(regions', a) = IF a \in area THEN q.start ELSE OwnerIn(regions, a)
    BY <1>7
  <2>3. \A a \in Addr : CellIn(regions', heap', a) =
                          IF a \notin area THEN CellIn(regions, heap, a)
                          ELSE IF q.kind = "mmio" THEN "device"
                          ELSE IF a < q.start + len THEN Zero ELSE "hole"
    BY <1>7
  <2> QED BY <2>1, <2>2, <2>3 DEF Flat!MapArea, Flat!Addr, Flat!NoOwner, Addr, OwnerOf, CellOf, area
<1>9. Flat!Remap
  <2>1. reply' = NoReply
    BY DEF Map
  <2> QED BY <1>2, <1>6, <1>8, <2>1, NothingAnswered DEF Flat!Remap, Flat!Addr, Addr, Kind
<1> QED
  BY <1>9 DEF Flat!Next

\* unmap takes away one mapping.
LEMMA UnmapIsFlat ==
  ASSUME BusAssumption, FlatInv, NEW s \in Addr, Unmap(s)
  PROVE  Flat!Next
<1>1. regions' \in Retained(regions, s) /\ heap' = Surviving(heap, regions') /\ reply' = NoReply
  BY DEF Unmap
<1>2. regions \in Seq(Region) /\ heap \in [Buf -> Content] /\ Tidy(regions)
  BY DEF FlatInv, BlockInv, IInv, TypeOK
<1>3. \A b \in BuffersOf(regions') : heap'[b] = heap[b]
  <2>1. \A b \in BuffersOf(regions') : b \in Buf
    <3>1. \A i \in DOMAIN regions' : regions'[i] \in Region
      BY <1>1, <1>2, AfterUnmap
    <3> QED BY <3>1 DEF BuffersOf, Region
  <2> QED BY <1>1, <2>1 DEF Surviving
<1>4. ASSUME NEW a \in Addr
      PROVE  IF OwnerIn(regions, a) = s
             THEN OwnerIn(regions', a) = -1 /\ CellIn(regions', heap', a) = "unmapped"
             ELSE /\ OwnerIn(regions', a) = OwnerIn(regions, a)
                  /\ CellIn(regions', heap', a) = CellIn(regions, heap, a)
  BY <1>1, <1>2, <1>3, CellsAfterUnmap
<1>5. Flat!UnmapArea(s)
  BY <1>4 DEF Flat!UnmapArea, Flat!Addr, Flat!NoOwner, Addr, OwnerOf, CellOf
<1> QED
  BY <1>1, <1>5, NothingAnswered DEF Flat!Next, Flat!Remap, Flat!Addr, Addr

\* The start of a block transfer only clears the answer.
LEMMA StartIsFlat ==
  ASSUME UNCHANGED busVars, reply' = NoReply
  PROVE  Flat!Next
<1>1. /\ [a \in Addr |-> OwnerOf(a)]' = [a \in Addr |-> OwnerOf(a)]
      /\ [a \in Addr |-> CellOf(a)]' = [a \in Addr |-> CellOf(a)]
  BY DEF busVars, OwnerOf, CellOf
<1> QED
  BY <1>1, NothingAnswered DEF Flat!Next, Flat!Remap

\* When an access is backed by RAM: it fits behind its first address in the
\* buffer of the region that owns it.
LEMMA BackedIsFitting ==
  ASSUME BusAssumption, MarksAreNoBytes, FlatInv, NEW a \in Addr, NEW n \in 1 .. 4
  PROVE  /\ Owners(regions, a) = {} => ~Flat!Backed(a, n)
         /\ \A i \in Owners(regions, a) :
               Flat!Backed(a, n) <=> /\ regions[i].kind = "ram"
                                     /\ a - regions[i].start + n <= regions[i].len
<1>1. regions \in Seq(Region) /\ heap \in [Buf -> Content] /\ Tidy(regions)
  BY DEF FlatInv, BlockInv, IInv, TypeOK
<1>2. a \in Nat /\ a \in a .. a + n - 1 /\ a + n - 1 \in a .. a + n - 1
  BY DEF Addr, BusAssumption
<1>3. Flat!Backed(a, n) <=>
        \A b \in a .. a + n - 1 :
            /\ b \in Addr
            /\ OwnerIn(regions, b) = OwnerIn(regions, a)
            /\ CellIn(regions, heap, b) \in Byte
  <2>1. \A b \in a .. a + n - 1 : b \in Flat!Addr <=> b \in Addr
    BY DEF Flat!Addr, Addr
  <2> QED BY <2>1 DEF Flat!Backed, OwnerOf, CellOf
<1>4. ASSUME Owners(regions, a) = {} PROVE ~Flat!Backed(a, n)
  <2>1. CellIn(regions, heap, a) = "unmapped"
    BY <1>4, NoOwnerTells
  <2> QED BY <1>2, <1>3, <2>1 DEF MarksAreNoBytes
<1>5. ASSUME NEW i \in Owners(regions, a)
      PROVE  Flat!Backed(a, n) <=> /\ regions[i].kind = "ram"
                                   /\ a - regions[i].start + n <= regions[i].len
  <2> DEFINE r == regions[i]
  <2>1. /\ i \in DOMAIN regions /\ r.start \in Nat /\ r.size \in Nat /\ r.len \in Nat
        /\ r.kind \in Kind
        /\ r.kind = "ram" => r.buf \in Buf
        /\ r.start <= a /\ a < r.start + r.size
        /\ r.len <= r.size /\ r.start + r.size < AddrLimit /\ r.len <= MaxLen
    <3>1. i \in DOMAIN regions /\ r.start <= a /\ a < r.start + r.size
      BY DEF Owners
    <3>2. r.len \in 0 .. MaxLen /\ Fits(r)
      BY <1>1, <3>1, RegionNumbers DEF Tidy
    <3>3. r.len <= MaxLen
      BY <3>2 DEF BusAssumption
    <3> QED BY <1>1, <3>1, <3>2, <3>3, RegionNumbers DEF Fits
  <2>2. OwnerIn(regions, a) = r.start
    BY <1>1, OwnerTells
  <2>3. ASSUME NEW b \in Addr, i \in Owners(regions, b)
        PROVE  /\ OwnerIn(regions, b) = r.start
               /\ CellIn(regions, heap, b) =
                    IF r.kind = "mmio" THEN "device"
                    ELSE IF b - r.start < r.len THEN heap[r.buf][b - r.start] ELSE "hole"
    BY <1>1, <2>3, OwnerTells
  <2>4. ASSUME NEW b \in Addr, OwnerIn(regions, b) = r.start, CellIn(regions, heap, b) \in Byte
        PROVE  i \in Owners(regions, b) /\ r.kind = "ram" /\ b - r.start < r.len
    <3>1. Owners(regions, b) # {}
      BY <2>4, NoOwnerTells DEF MarksAreNoBytes
    <3>2. PICK j : j \in Owners(regions, b)
      BY <3>1
    <3>3. j \in DOMAIN regions /\ regions[j].start = r.start
      BY <1>1, <2>4, <3>2, OwnerTells DEF Owners
    <3>4. j = i
      BY <1>1, <2>1, <3>3, StartsDiffer
    <3>5. i \in Owners(regions, b)
      BY <3>2, <3>4
    <3>6. CellIn(regions, heap, b) =
            IF r.kind = "mmio" THEN "device"
            ELSE IF b - r.start < r.len THEN heap[r.buf][b - r.start] ELSE "hole"
      BY <2>3, <3>5
    <3>7. r.kind # "mmio" /\ b - r.start < r.len
      BY <2>4, <3>6 DEF MarksAreNoBytes
    <3> QED BY <2>1, <3>5, <3>7 DEF Kind
  <2> HIDE DEF r
  <2>5. ASSUME r.kind = "ram", a - r.start + n <= r.len, NEW b \in a .. a + n - 1
        PROVE  /\ b \in Addr
               /\ OwnerIn(regions, b) = OwnerIn(regions, a)
               /\ CellIn(regions, heap, b) \in Byte
    <3>1. b \in Addr /\ b \in Nat /\ r.start <= b /\ b < r.start + r.size /\ b - r.start < r.len
          /\ b - r.start \in 0 .. MaxLen - 1
      BY <1>2, <2>1, <2>5 DEF Addr, BusAssumption
    <3>2. i \in Owners(regions, b)
      BY <2>1, <3>1 DEF Owners, r
    <3>3. heap[r.buf][b - r.start] \in Byte
      <4>1. r.buf \in Buf
        BY <2>1, <2>5
      <4>2. heap[r.buf] \in [0 .. MaxLen - 1 -> Byte]
        BY <1>1, <4>1 DEF Content
      <4> QED BY <3>1, <4>2
    <3> QED BY <2>2, <2>3, <2>5, <3>1, <3>2, <3>3
  <2>6. ASSUME Flat!Backed(a, n)
        PROVE  r.kind = "ram" /\ a - r.start + n <= r.len
    <3> DEFINE b == a + n - 1
    <3>1. b \in Addr /\ OwnerIn(regions, b) = r.start /\ CellIn(regions, heap, b) \in Byte
      BY <1>2, <1>3, <2>2, <2>6
    <3>2. r.kind = "ram" /\ b - r.start < r.len
      BY <2>4, <3>1
    <3> QED BY <1>2, <2>1, <3>2
  <2> QED BY <1>3, <2>5, <2>6 DEF r
<1> QED
  BY <1>4, <1>5

\* What an address of the owner's region holds for a flat memory.
LEMMA DeviceCell ==
  ASSUME BusAssumption, MarksAreNoBytes, FlatInv, NEW a \in Addr
  PROVE  CellIn(regions, heap, a) = "device" <=>
           \E i \in Owners(regions, a) : regions[i].kind = "mmio"
<1>1. regions \in Seq(Region) /\ heap \in [Buf -> Content] /\ Tidy(regions)
  BY DEF FlatInv, BlockInv, IInv, TypeOK
<1>2. CASE Owners(regions, a) = {}
  BY <1>2, NoOwnerTells
<1>3. ASSUME NEW i \in Owners(regions, a)
      PROVE  CellIn(regions, heap, a) = "device" <=> regions[i].kind = "mmio"
  <2>1. CellIn(regions, heap, a) =
          IF regions[i].kind = "mmio" THEN "device"
          ELSE IF a - regions[i].start < regions[i].len
          THEN heap[regions[i].buf][a - regions[i].start] ELSE "hole"
    BY <1>1, OwnerTells
  <2>2. regions[i].kind # "mmio" /\ a - regions[i].start < regions[i].len =>
          heap[regions[i].buf][a - regions[i].start] \in Byte
    <3>1. /\ regions[i] \in Region /\ regions[i].start \in Nat /\ regions[i].len \in 0 .. MaxLen
          /\ regions[i].start <= a /\ a \in Nat
      BY <1>1, RegionNumbers DEF Owners, Addr, BusAssumption
    <3>2. regions[i].kind # "mmio" => regions[i].buf \in Buf
      BY <3>1 DEF Region, Kind
    <3>3. a - regions[i].start < regions[i].len => a - regions[i].start \in 0 .. MaxLen - 1
      BY <3>1 DEF BusAssumption
    <3> QED BY <1>1, <3>2, <3>3 DEF Content
  <2> QED BY <2>1, <2>2 DEF MarksAreNoBytes
<1>4. ASSUME NEW i \in Owners(regions, a)
      PROVE  regions[i].kind = "mmio" <=> \E j \in Owners(regions, a) : regions[j].kind = "mmio"
  BY <1>1, OwnerUnique
<1> QED
  BY <1>2, <1>3, <1>4

\* The answer of the bus as a flat memory shows it.
Shown(rep) == [op |-> rep.op, addr |-> rep.addr, n |-> rep.n, ok |-> rep.ok, data |-> rep.data]

\* What it shows of the two kinds of answer.
LEMMA ShownIs ==
  ASSUME NEW op, NEW a, NEW n, NEW data, NEW at
  PROVE  /\ Shown(Ok(op, a, n, data)) = Flat!Answer(op, a, n, TRUE, data)
         /\ Shown(MemoryFault(op, a, n, at)) = Flat!Answer(op, a, n, FALSE, <<>>)
BY DEF Shown, Ok, MemoryFault, Flat!Answer

\* A read is answered by the device, by the RAM behind the address, or by a fault.
LEMMA ReadIsFlat ==
  ASSUME BusAssumption, MarksAreNoBytes, FlatInv, NEW a \in Addr, NEW n \in 1 .. 4,
         n \in Widths \cup {1}, ReadAccess(a, n)
  PROVE  Flat!Next
<1>1. PICK pos \in Resolved(regions, last, a) :
        reply' \in ReadReplies(a, n, pos) /\ UNCHANGED <<regions, heap>>
  BY DEF ReadAccess, Resolve
<1>2. regions \in Seq(Region) /\ heap \in [Buf -> Content] /\ Tidy(regions) /\ IInv
  BY DEF FlatInv, BlockInv, IInv, TypeOK
<1>3. /\ [x \in Addr |-> OwnerOf(x)]' = [x \in Addr |-> OwnerOf(x)]
      /\ [x \in Addr |-> CellOf(x)]' = [x \in Addr |-> CellOf(x)]
  BY <1>1 DEF OwnerOf, CellOf
<1>4. CellOf(a) = "device" <=> \E i \in Owners(regions, a) : regions[i].kind = "mmio"
  BY DeviceCell DEF CellOf
<1>5. /\ Flat!Backed(a, n) =>
            [k \in 1 .. n |-> [x \in Addr |-> CellOf(x)][a + k - 1]] = [k \in 1 .. n |-> CellOf(a + k - 1)]
      /\ [x \in Addr |-> CellOf(x)][a] = CellOf(a)
  <2>1. Flat!Backed(a, n) => \A k \in 1 .. n : a + k - 1 \in Addr
    <3>1. a \in Nat
      BY DEF Addr, BusAssumption
    <3>2. \A k \in 1 .. n : a + k - 1 \in a .. a + n - 1
      BY <3>1
    <3>3. Flat!Backed(a, n) => \A b \in a .. a + n - 1 : b \in Flat!Addr
      BY DEF Flat!Backed
    <3> QED BY <3>2, <3>3 DEF Flat!Addr, Addr
  <2> QED BY <2>1
<1>6. ASSUME Shown(reply') = IF Flat!Backed(a, n)
                             THEN Flat!Answer("read", a, n, TRUE, [k \in 1 .. n |-> CellOf(a + k - 1)])
                             ELSE Flat!Answer("read", a, n, FALSE, <<>>),
             CellOf(a) # "device"
      PROVE  Flat!ReadRam(a, n)
  BY <1>3, <1>5, <1>6 DEF Flat!ReadRam, Shown, Flat!Addr, Addr
<1>7. ASSUME NEW d \in [1 .. n -> Byte], Shown(reply') = Flat!Answer("read", a, n, TRUE, d),
             CellOf(a) = "device"
      PROVE  Flat!DeviceAccess(a, n)
  BY <1>3, <1>5, <1>7 DEF Flat!DeviceAccess, Shown, Flat!Addr, Addr
<1>8. ASSUME Shown(reply').addr = a, Shown(reply').n = n, Flat!ReadRam(a, n) \/ Flat!DeviceAccess(a, n)
      PROVE  Flat!Next
  BY <1>8 DEF Flat!Next, Flat!Access, Shown, Flat!Addr, Addr
<1>9. CASE Owners(regions, a) = {}
  <2>1. reply' = MemoryFault("read", a, n, a)
    BY <1>1, <1>2, <1>9, NobodyServes DEF ReadReplies
  <2>2. Shown(reply') = Flat!Answer("read", a, n, FALSE, <<>>)
    BY <2>1, ShownIs
  <2>3. ~Flat!Backed(a, n)
    BY <1>9, BackedIsFitting
  <2>4. Shown(reply').addr = a /\ Shown(reply').n = n
    BY <2>2 DEF Flat!Answer
  <2> QED BY <1>4, <1>6, <1>8, <1>9, <2>2, <2>3, <2>4
<1>10. ASSUME NEW i \in Owners(regions, a) PROVE Flat!Next
  <2> DEFINE r   == regions[i]
             off == a - r.start
  <2>1. pos = i /\ pos # 0 /\ r \in Region /\ r.kind \in Kind /\ off \in Nat /\ r.len \in Nat
    BY <1>1, <1>2, OwnerServes
  <2>2. Flat!Backed(a, n) <=> r.kind = "ram" /\ off + n <= r.len
    BY BackedIsFitting
  <2>3. CellOf(a) = "device" <=> r.kind = "mmio"
    BY <1>2, <1>4, OwnerUnique
  <2>4. CASE r.kind = "mmio"
    <3>1. PICK d \in [1 .. n -> Byte] : reply' = Ok("read", a, n, d)
      BY <1>1, <2>1, <2>4 DEF ReadReplies
    <3>2. Shown(reply') = Flat!Answer("read", a, n, TRUE, d)
      BY <3>1, ShownIs
    <3>3. Shown(reply').addr = a /\ Shown(reply').n = n
      BY <3>2 DEF Flat!Answer
    <3> HIDE DEF r, off
    <3> QED BY <1>7, <1>8, <2>3, <2>4, <3>2, <3>3
  <2>5. CASE r.kind = "ram"
    <3>1. reply' = IF AccessOk(r, off, n)
                   THEN Ok("read", a, n, BytesAt(heap[r.buf], off, n))
                   ELSE MemoryFault("read", a, n, FaultOffset(r, off, n))
      BY <1>1, <2>1, <2>5 DEF ReadReplies
    <3>2. AccessOk(r, off, n) <=> off + n <= r.len
      <4> HIDE DEF r, off
      <4> QED BY <2>1 DEF AccessOk, BytesDone
    <3>3. off + n <= r.len => BytesAt(heap[r.buf], off, n) = [k \in 1 .. n |-> CellOf(a + k - 1)]
      <4>1. ASSUME off + n <= r.len, NEW k \in 1 .. n
            PROVE  CellOf(a + k - 1) = heap[r.buf][off + k - 1]
        <5>1. /\ a \in Nat /\ r.start \in Nat /\ r.size \in Nat /\ a - r.start \in Nat
              /\ r.len <= r.size /\ r.start + r.size < AddrLimit /\ i \in DOMAIN regions
          <6>1. i \in DOMAIN regions
            BY DEF Owners
          <6>2. Fits(r)
            BY <1>2, <6>1 DEF Tidy
          <6> QED BY <1>2, <2>1, <6>1, <6>2, RegionNumbers DEF Fits, Addr, BusAssumption
        <5>2. /\ a + k - 1 \in Addr /\ r.start <= a + k - 1 /\ a + k - 1 < r.start + r.size
              /\ (a + k - 1) - r.start = off + k - 1 /\ (a + k - 1) - r.start < r.len
          <6> HIDE DEF r
          <6> QED BY <2>1, <4>1, <5>1 DEF Addr, BusAssumption
        <5>3. i \in Owners(regions, a + k - 1)
          BY <5>1, <5>2 DEF Owners
        <5> QED BY <1>2, <2>5, <5>2, <5>3, OwnerTells DEF CellOf
      <4> HIDE DEF r, off
      <4> QED BY <4>1 DEF BytesAt
    <3> HIDE DEF r, off
    <3>4. Shown(reply') = IF Flat!Backed(a, n)
                          THEN Flat!Answer("read", a, n, TRUE, [k \in 1 .. n |-> CellOf(a + k - 1)])
                          ELSE Flat!Answer("read", a, n, FALSE, <<>>)
      <4>1. CASE off + n <= r.len
        <5>1. reply' = Ok("read", a, n, [k \in 1 .. n |-> CellOf(a + k - 1)])
          BY <3>1, <3>2, <3>3, <4>1
        <5>2. Shown(reply') = Flat!Answer("read", a, n, TRUE, [k \in 1 .. n |-> CellOf(a + k - 1)])
          BY <5>1, ShownIs
        <5> QED BY <2>2, <2>5, <4>1, <5>2
      <4>2. CASE ~(off + n <= r.len)
        <5>1. reply' = MemoryFault("read", a, n, FaultOffset(r, off, n))
          BY <3>1, <3>2, <4>2
        <5> QED BY <2>2, <4>2, <5>1, ShownIs
      <4> QED BY <4>1, <4>2
    <3>5. Shown(reply').addr = a /\ Shown(reply').n = n
      BY <3>4 DEF Flat!Answer
    <3> QED BY <1>6, <1>8, <2>3, <2>5, <3>4, <3>5
  <2> QED BY <2>1, <2>4, <2>5 DEF Kind
<1> QED
  BY <1>9, <1>10

\* The offsets of the addresses of an access, and of those outside it.
LEMMA OffsetsOfAccess ==
  ASSUME NEW a \in Nat, NEW c \in Nat, NEW d \in Nat, NEW s \in Nat, NEW off \in Nat,
         NEW size \in Nat, NEW len \in Nat, NEW max \in Nat,
         s <= a, off = a - s, off + d <= len, len <= size, len <= max
  PROVE  /\ c \in a .. a + d - 1 =>
               /\ s <= c /\ c < s + size /\ c - s < len /\ c - s \in 0 .. max - 1
               /\ c - s \in off .. off + d - 1 /\ (c - s) - off + 1 = c - a + 1
         /\ c \notin a .. a + d - 1 /\ s <= c /\ c - s < len =>
               c - s \in 0 .. max - 1 /\ c - s \notin off .. off + d - 1
<1>1. ASSUME c \in a .. a + d - 1
      PROVE  /\ s <= c /\ c < s + size /\ c - s < len /\ c - s \in 0 .. max - 1
             /\ c - s \in off .. off + d - 1 /\ (c - s) - off + 1 = c - a + 1
  BY <1>1
<1>2. ASSUME c \notin a .. a + d - 1, s <= c, c - s < len
      PROVE  c - s \in 0 .. max - 1 /\ c - s \notin off .. off + d - 1
  BY <1>2
<1> QED BY <1>1, <1>2

\* The buffers once d bytes of data are stored in region r from address a on.
StoredInRegion(mem, r, a, data, d) == [mem EXCEPT ![r.buf] = Stored(@, a - r.start, data, d)]

\* Storing d bytes into the RAM that owns an address changes what the d addresses
\* from there on hold, and nothing else.
LEMMA CellsAfterStore ==
  ASSUME BusAssumption, NEW rs \in Seq(Region), Tidy(rs), BuffersDistinct(rs),
         NEW mem \in [Buf -> Content], NEW a \in Addr, NEW i \in Owners(rs, a),
         rs[i].kind = "ram", NEW d \in Nat, NEW data, a - rs[i].start + d <= rs[i].len,
         NEW c \in Addr
  PROVE  CellIn(rs, StoredInRegion(mem, rs[i], a, data, d), c) =
           IF c \in a .. a + d - 1 THEN data[c - a + 1] ELSE CellIn(rs, mem, c)
<1> DEFINE r    == rs[i]
           off  == a - r.start
           mem2 == StoredInRegion(mem, rs[i], a, data, d)
<1>1. /\ i \in DOMAIN rs /\ r.start \in Nat /\ r.size \in Nat /\ r.len \in Nat /\ r.buf \in Buf
      /\ r.len <= MaxLen /\ r.len <= r.size /\ r.start + r.size < AddrLimit
      /\ r.start <= a /\ a < r.start + r.size /\ a \in Nat /\ c \in Nat
      /\ MaxLen \in Nat /\ off \in Nat /\ off + d <= r.len
  <2>1. i \in DOMAIN rs /\ r.start <= a /\ a < r.start + r.size
    BY DEF Owners
  <2>2. Fits(r) /\ r.len \in 0 .. MaxLen /\ r.start \in Nat /\ r.size \in Nat /\ r.buf \in Buf
    BY <2>1, RegionNumbers DEF Tidy
  <2> QED BY <2>1, <2>2 DEF Fits, Addr, BusAssumption
<1>2. mem[r.buf] \in Content
  BY <1>1
<1>3. /\ mem2[r.buf] = Stored(mem[r.buf], off, data, d)
      /\ \A b \in Buf : b # r.buf => mem2[b] = mem[b]
  BY <1>1 DEF StoredInRegion
<1> SUFFICES CellIn(rs, mem2, c) =
               IF c \in a .. a + d - 1 THEN data[c - a + 1] ELSE CellIn(rs, mem, c)
  OBVIOUS
<1> HIDE DEF mem2
<1>4. ASSUME NEW x \in 0 .. MaxLen - 1
      PROVE  mem2[r.buf][x] = IF x \in off .. off + d - 1 THEN data[x - off + 1] ELSE mem[r.buf][x]
  <2> HIDE DEF r, off
  <2>1. DOMAIN mem[r.buf] = 0 .. MaxLen - 1
    BY <1>2 DEF Content
  <2> QED BY <1>3, <2>1 DEF Stored
<1>5. CASE c \in a .. a + d - 1
  <2>1. /\ r.start <= c /\ c < r.start + r.size /\ c - r.start < r.len
        /\ c - r.start \in 0 .. MaxLen - 1 /\ c - r.start \in off .. off + d - 1
        /\ (c - r.start) - off + 1 = c - a + 1
    <3> DEFINE s == r.start
               size == r.size
               len == r.len
               max == MaxLen
    <3>1. /\ off = a - s /\ s \in Nat /\ size \in Nat /\ len \in Nat /\ max \in Nat
          /\ off \in Nat /\ len <= max /\ len <= size /\ off + d <= len
          /\ a \in Nat /\ c \in Nat /\ s <= a
      BY <1>1
    <3>2. /\ s <= c /\ c < s + size /\ c - s < len /\ c - s \in 0 .. max - 1
          /\ c - s \in off .. off + d - 1 /\ (c - s) - off + 1 = c - a + 1
      <4> HIDE DEF r, off, s, size, len, max
      <4> QED BY <1>5, <3>1, OffsetsOfAccess
    <3> QED BY <3>2
  <2>2. i \in Owners(rs, c)
    BY <1>1, <2>1 DEF Owners
  <2>3. CellIn(rs, mem2, c) = mem2[r.buf][c - r.start]
    BY <2>1, <2>2, OwnerTells
  <2>4. mem2[r.buf][c - r.start] = data[c - a + 1]
    <3> HIDE DEF r, off
    <3> QED BY <1>4, <2>1
  <2> QED BY <1>5, <2>3, <2>4
<1>6. CASE c \notin a .. a + d - 1
  <2>1. CASE Owners(rs, c) = {}
    BY <1>6, <2>1, NoOwnerTells
  <2>2. ASSUME NEW j \in Owners(rs, c) PROVE CellIn(rs, mem2, c) = CellIn(rs, mem, c)
    <3>1. /\ j \in DOMAIN rs /\ rs[j].start \in Nat /\ rs[j].len \in Nat /\ rs[j].len <= MaxLen
          /\ rs[j].start <= c /\ rs[j].kind \in Kind
          /\ rs[j].kind = "ram" => rs[j].buf \in Buf
      <4>1. j \in DOMAIN rs /\ rs[j].start <= c
        BY DEF Owners
      <4>2. rs[j].len \in 0 .. MaxLen
        BY <4>1, RegionNumbers
      <4> QED BY <4>1, <4>2, RegionNumbers DEF BusAssumption
    <3>2. \A m : CellIn(rs, m, c) =
             IF rs[j].kind = "mmio" THEN "device"
             ELSE IF c - rs[j].start < rs[j].len THEN m[rs[j].buf][c - rs[j].start] ELSE "hole"
      BY OwnerTells
    <3>3. ASSUME rs[j].kind # "mmio", c - rs[j].start < rs[j].len
          PROVE  mem2[rs[j].buf][c - rs[j].start] = mem[rs[j].buf][c - rs[j].start]
      <4>1. rs[j].kind = "ram" /\ rs[j].buf \in Buf
        BY <3>1, <3>3 DEF Kind
      <4>2. CASE j = i
        <5>1. c - r.start \in 0 .. MaxLen - 1 /\ c - r.start \notin off .. off + d - 1
          <6> DEFINE s == r.start
                     size == r.size
                     len == r.len
                     max == MaxLen
          <6>1. /\ off = a - s /\ s \in Nat /\ size \in Nat /\ len \in Nat /\ max \in Nat
                /\ off \in Nat /\ len <= max /\ len <= size /\ off + d <= len
                /\ a \in Nat /\ c \in Nat /\ s <= a
            BY <1>1
          <6>2. s <= c /\ c - s < len
            BY <3>1, <3>3, <4>2
          <6>3. c - s \in 0 .. max - 1 /\ c - s \notin off .. off + d - 1
            <7> HIDE DEF r, off, s, size, len, max
            <7> QED BY <1>6, <6>1, <6>2, OffsetsOfAccess
          <6> QED BY <6>3
        <5> HIDE DEF off
        <5> QED BY <1>4, <4>2, <5>1
      <4>3. CASE j # i
        <5>1. rs[j].buf # r.buf
          BY <1>1, <3>1, <4>1, <4>3 DEF BuffersDistinct
        <5> QED BY <1>3, <4>1, <5>1
      <4> QED BY <4>2, <4>3
    <3> QED BY <3>2, <3>3
  <2> QED BY <1>6, <2>1, <2>2
<1> QED
  BY <1>5, <1>6

\* A write reaches the device, the RAM behind the address as far as it goes, or
\* nothing.
LEMMA WriteIsFlat ==
  ASSUME BusAssumption, MarksAreNoBytes, FlatInv, NEW a \in Addr, NEW n \in 1 .. 4,
         n \in Widths \cup {1}, NEW data \in [1 .. n -> Byte], WriteAccess(a, data, n)
  PROVE  Flat!Next
<1>1. PICK pos \in Resolved(regions, last, a) :
        /\ reply' = WriteReply(a, n, pos) /\ heap' = HeapAfterWrite(a, data, n, pos)
        /\ UNCHANGED regions
  BY DEF WriteAccess, Resolve
<1>2. /\ regions \in Seq(Region) /\ heap \in [Buf -> Content] /\ Tidy(regions) /\ IInv
      /\ BuffersDistinct(regions) /\ Len(data) = n
  BY DEF FlatInv, BlockInv, IInv, TypeOK
<1>3. [x \in Addr |-> OwnerOf(x)]' = [x \in Addr |-> OwnerOf(x)]
  BY <1>1 DEF OwnerOf
<1>4. CellOf(a) = "device" <=> \E i \in Owners(regions, a) : regions[i].kind = "mmio"
  BY DeviceCell DEF CellOf
<1>5. heap' = heap => [x \in Addr |-> CellOf(x)]' = [x \in Addr |-> CellOf(x)]
  BY <1>1 DEF CellOf
<1>6. [x \in Addr |-> CellOf(x)][a] = CellOf(a)
  OBVIOUS
<1>7. ASSUME NEW d \in Nat,
             \A c \in Addr : CellIn(regions', heap', c) =
               IF c \in a .. a + d - 1 THEN data[c - a + 1] ELSE CellIn(regions, heap, c)
      PROVE  Flat!Put(a, data, d)
  BY <1>7 DEF Flat!Put, Flat!Addr, Addr, CellOf
<1>8. ASSUME Shown(reply') = Flat!Answer("write", a, n, TRUE, <<>>), Flat!Backed(a, n),
             Flat!Put(a, data, n)
      PROVE  Flat!WriteRam(a, data)
  BY <1>2, <1>3, <1>8 DEF Flat!WriteRam, Shown
<1>9. ASSUME Shown(reply') = Flat!Answer("write", a, n, FALSE, <<>>), ~Flat!Backed(a, n),
             CellOf(a) # "device",
             IF n = 2 /\ Flat!Backed(a, 1) THEN Flat!Put(a, data, 1)
             ELSE [x \in Addr |-> CellOf(x)]' = [x \in Addr |-> CellOf(x)]
      PROVE  Flat!WriteRamFails(a, data)
  BY <1>2, <1>3, <1>6, <1>9 DEF Flat!WriteRamFails, Shown, Flat!Addr, Addr
<1>10. ASSUME Shown(reply') = Flat!Answer("write", a, n, TRUE, <<>>), heap' = heap,
              CellOf(a) = "device"
       PROVE  Flat!DeviceAccess(a, n)
  BY <1>3, <1>5, <1>6, <1>10 DEF Flat!DeviceAccess, Shown, Flat!Addr, Addr
<1>11. ASSUME Shown(reply').addr = a, Shown(reply').n = n,
              \/ Flat!WriteRam(a, data) \/ Flat!WriteRamFails(a, data) \/ Flat!DeviceAccess(a, n)
       PROVE  Flat!Next
  BY <1>11 DEF Flat!Next, Flat!Access, Shown, Flat!Addr, Addr
<1>12. \A ok : Shown(reply') = Flat!Answer("write", a, n, ok, <<>>)
                 => Shown(reply').addr = a /\ Shown(reply').n = n
  BY DEF Flat!Answer
<1>13. CASE Owners(regions, a) = {}
  <2>1. reply' = MemoryFault("write", a, n, a) /\ heap' = heap
    BY <1>1, <1>2, <1>13, NobodyServes DEF WriteReply, HeapAfterWrite
  <2>2. Shown(reply') = Flat!Answer("write", a, n, FALSE, <<>>)
    BY <2>1, ShownIs
  <2>3. ~Flat!Backed(a, n) /\ ~Flat!Backed(a, 1)
    BY <1>13, BackedIsFitting
  <2>4. Flat!WriteRamFails(a, data)
    BY <1>4, <1>5, <1>9, <1>13, <2>1, <2>2, <2>3
  <2> QED BY <1>11, <1>12, <2>2, <2>4
<1>14. ASSUME NEW i \in Owners(regions, a) PROVE Flat!Next
  <2> DEFINE r    == regions[i]
             off  == a - r.start
             done == BytesDone(r, off, n)
  <2>1. pos = i /\ pos # 0 /\ r \in Region /\ r.kind \in Kind /\ off \in Nat /\ r.len \in Nat
    BY <1>1, <1>2, OwnerServes
  <2>2. /\ Flat!Backed(a, n) <=> r.kind = "ram" /\ off + n <= r.len
        /\ Flat!Backed(a, 1) <=> r.kind = "ram" /\ off + 1 <= r.len
    BY BackedIsFitting
  <2>3. CellOf(a) = "device" <=> r.kind = "mmio"
    BY <1>2, <1>4, OwnerUnique
  <2>4. CASE r.kind = "mmio"
    <3>1. reply' = Ok("write", a, n, <<>>) /\ heap' = heap
      BY <1>1, <2>1, <2>4 DEF WriteReply, HeapAfterWrite
    <3>2. Shown(reply') = Flat!Answer("write", a, n, TRUE, <<>>)
      BY <3>1, ShownIs
    <3> HIDE DEF r, off
    <3> QED BY <1>10, <1>11, <1>12, <2>3, <2>4, <3>1, <3>2
  <2>5. CASE r.kind = "ram"
    <3>1. /\ reply' = IF AccessOk(r, off, n) THEN Ok("write", a, n, <<>>)
                      ELSE MemoryFault("write", a, n, FaultOffset(r, off, n))
          /\ heap' = [heap EXCEPT ![r.buf] = Stored(@, off, data, done)]
      BY <1>1, <2>1, <2>5 DEF WriteReply, HeapAfterWrite
    <3>2. /\ AccessOk(r, off, n) <=> off + n <= r.len
          /\ done = IF off + n <= r.len THEN n ELSE IF n = 2 /\ off + 1 <= r.len THEN 1 ELSE 0
          /\ done \in Nat /\ (off + done <= r.len \/ done = 0)
      <4> HIDE DEF r, off
      <4> QED BY <2>1 DEF AccessOk, BytesDone
    <3>3. CASE off + done <= r.len
      <4>1. \A c \in Addr : CellIn(regions', heap', c) =
              IF c \in a .. a + done - 1 THEN data[c - a + 1] ELSE CellIn(regions, heap, c)
        <5> DEFINE stored == heap'
        <5>1. /\ stored = StoredInRegion(heap, regions[i], a, data, done)
              /\ a - regions[i].start + done <= regions[i].len /\ done \in Nat
              /\ regions[i].kind = "ram" /\ regions' = regions
          BY <1>1, <2>5, <3>1, <3>2, <3>3 DEF StoredInRegion
        <5>2. ASSUME NEW c \in Addr
              PROVE  CellIn(regions, stored, c) =
                       IF c \in a .. a + done - 1 THEN data[c - a + 1] ELSE CellIn(regions, heap, c)
          <6> HIDE DEF done, stored, r, off
          <6> QED BY <1>2, <5>1, CellsAfterStore
        <5> HIDE DEF done
        <5> QED BY <5>1, <5>2
      <4>2. Flat!Put(a, data, done)
        <5> HIDE DEF done
        <5> QED BY <1>7, <3>2, <4>1
      <4> HIDE DEF r, off, done
      <4>3. CASE off + n <= r.len
        <5>1. Shown(reply') = Flat!Answer("write", a, n, TRUE, <<>>)
          BY <3>1, <3>2, <4>3, ShownIs
        <5> QED BY <1>8, <1>11, <1>12, <2>2, <2>5, <3>2, <4>2, <4>3, <5>1
      <4>4. CASE ~(off + n <= r.len)
        <5>1. Shown(reply') = Flat!Answer("write", a, n, FALSE, <<>>)
          BY <3>1, <3>2, <4>4, ShownIs
        <5>2. CASE n = 2 /\ off + 1 <= r.len
          BY <1>9, <1>11, <1>12, <2>2, <2>3, <2>5, <3>2, <4>2, <4>4, <5>1, <5>2
        <5>3. CASE ~(n = 2 /\ off + 1 <= r.len)
          <6>1. done = 0
            BY <3>2, <4>4, <5>3
          <6>2. [x \in Addr |-> CellOf(x)]' = [x \in Addr |-> CellOf(x)]
            <7>1. \A c \in Addr : c \notin a .. a + 0 - 1
              BY DEF Addr, BusAssumption
            <7> QED BY <4>1, <6>1, <7>1 DEF CellOf
          <6> QED BY <1>9, <1>11, <1>12, <2>2, <2>3, <2>5, <4>4, <5>1, <5>3, <6>2
        <5> QED BY <5>2, <5>3
      <4> QED BY <4>3, <4>4
    <3>4. CASE ~(off + done <= r.len)
      <4>1. done = 0 /\ ~(off + n <= r.len) /\ ~(off + 1 <= r.len)
        <5> HIDE DEF r, off, done
        <5> QED BY <2>1, <3>2, <3>4
      <4>2. heap' = heap
        <5>1. r.buf \in Buf
          BY <2>1, <2>5 DEF Region
        <5>2. heap[r.buf] \in [0 .. MaxLen - 1 -> Byte]
          BY <1>2, <5>1 DEF Content
        <5> HIDE DEF r, done
        <5>3. Stored(heap[r.buf], off, data, 0) = heap[r.buf]
          <6>1. \A x \in 0 .. MaxLen - 1 : x \notin off .. off + 0 - 1
            BY <2>1
          <6> HIDE DEF off
          <6> QED BY <5>2, <6>1 DEF Stored
        <5> HIDE DEF off
        <5> QED BY <1>2, <3>1, <4>1, <5>1, <5>3
      <4> HIDE DEF r, off, done
      <4>3. Shown(reply') = Flat!Answer("write", a, n, FALSE, <<>>)
        BY <3>1, <3>2, <4>1, ShownIs
      <4> QED BY <1>5, <1>9, <1>11, <1>12, <2>2, <2>3, <2>5, <4>1, <4>2, <4>3
    <3> QED BY <3>3, <3>4
  <2> QED BY <2>1, <2>4, <2>5 DEF Kind
<1> QED
  BY <1>13, <1>14
\* Every step of the bus on a tidy table is a step of the flat memory, or leaves
\* what it shows alone.
LEMMA StepIsFlat ==
  ASSUME BusAssumption, MemoryBusAssumption, MarksAreNoBytes, FlatInv, [TidyNext]_vars
  PROVE  [Flat!Next]_(Flat!vars)
<1>1. ASSUME NEW q \in Requests, Map(q), Tidy(regions') PROVE Flat!Next
  BY <1>1, MapIsFlat
<1>2. ASSUME NEW a \in Addr, NEW n \in Widths, Read(a, n) PROVE Flat!Next
  BY <1>2, ReadIsFlat, WidthsTyped DEF Read
<1>3. ASSUME NEW a \in Addr, NEW n \in Widths, NEW data \in [1 .. n -> Byte], Write(a, data)
      PROVE  Flat!Next
  <2>1. n \in 1 .. 4
    BY WidthsTyped
  <2>2. Len(data) = n
    BY <2>1
  <2> QED BY <1>3, <2>1, <2>2, WriteIsFlat DEF Write
<1>4. ASSUME NEW a \in Addr, NEW n \in 0 .. MaxBlock, StartReadBytes(a, n) PROVE Flat!Next
  BY <1>4, StartIsFlat DEF StartReadBytes
<1>5. ASSUME NEW a \in Addr, NEW n \in 0 .. MaxBlock, NEW data \in [1 .. n -> Byte],
             StartWriteBytes(a, data)
      PROVE  Flat!Next
  BY <1>5, StartIsFlat DEF StartWriteBytes
<1>6. CASE ReadNextByte
  <2>1. NextAddr \in Addr
    BY NextAddrTyped DEF FlatInv, BlockInv, IInv
  <2>2. ReadAccess(NextAddr, 1)
    BY <1>6 DEF ReadNextByte
  <2> QED BY <2>1, <2>2, ReadIsFlat
<1>7. CASE WriteNextByte
  <2> DEFINE data == <<xfer.data[xfer.done + 1]>>
  <2>1. NextAddr \in Addr
    BY NextAddrTyped DEF FlatInv, BlockInv, IInv
  <2>2. data \in [1 .. 1 -> Byte]
    <3>1. xfer \in Xfer /\ xfer.op = "write" /\ xfer.status = "busy"
      BY <1>7 DEF FlatInv, BlockInv, IInv, TypeOK, WriteNextByte
    <3>2. xfer.data[xfer.done + 1] \in Byte
      BY <3>1 DEF Xfer, FlatInv, BlockInv, IInv, TypeOK
    <3> QED BY <3>2
  <2>3. WriteAccess(NextAddr, data, 1)
    BY <1>7 DEF WriteNextByte
  <2> HIDE DEF data
  <2> QED BY <2>1, <2>2, <2>3, WriteIsFlat
<1>8. ASSUME NEW s \in Addr, Unmap(s) PROVE Flat!Next
  BY <1>8, UnmapIsFlat
<1>9. CASE UNCHANGED vars
  BY <1>9 DEF vars, Flat!vars, OwnerOf, CellOf
<1> QED
  BY <1>1, <1>2, <1>3, <1>4, <1>5, <1>6, <1>7, <1>8, <1>9 DEF TidyNext, Accesses

\* An embedder who maps regions that neither overlap nor leave the address space
\* is given a flat memory: behind the sorted table, the binary search and the
\* cached index (bus.rs's find_device) every address keeps one owner and one
\* content, whatever was mapped, unmapped and accessed before.
THEOREM ImplementsFlat == TidySpec => ImplementsFlatMemory
<1>1. Init => Flat!Init /\ FlatInv
  BY InitIsFlat, BusAssumption
<1>2. FlatInv /\ [TidyNext]_vars => FlatInv'
  BY TidyNextKeepsFlatInv, BusAssumption, MemoryBusAssumption
<1>3. FlatInv /\ [TidyNext]_vars => [Flat!Next]_(Flat!vars)
  BY StepIsFlat, BusAssumption, MemoryBusAssumption, MarksAreNoBytes
<1> QED
  BY <1>1, <1>2, <1>3, PTL DEF TidySpec, ImplementsFlatMemory, Flat!Spec
=============================================================================
