------------------------------- MODULE Loader -------------------------------
(***************************************************************************)
(* Bringing a program into the memory of the emulator: the ELF loader of   *)
(* src/loader/elf.rs, which maps one RAM per segment and copies the file's *)
(* bytes into it, the raw loader of src/loader/raw.rs and the debugger's   *)
(* memory accesses of src/gdb.rs.  All of them work through MemoryBus, a   *)
(* byte at a time, and any of them may stop half way.                      *)
(***************************************************************************)
EXTENDS BusImplementsFlatMemory

CONSTANTS
    Images,   \* ELF files, see below
    Blocks,   \* what load_raw and the debugger transfer: [addr, data]
    Peeks     \* what the debugger reads: [addr, n]

\* A file is its bytes and what its program headers say of them; parses tells
\* whether goblin accepts it.  A segment gets a RAM, so MaxLen bounds it, too.
ProgramHeader == [type : STRING, vaddr : Addr, memsz : {n \in Addr : n <= MaxLen},
                  filesz : Nat, offset : Nat]
Image == [parses : BOOLEAN, segments : Seq(ProgramHeader), data : Seq(Byte)]

ASSUME LoaderAssumption ==
    /\ Images \subseteq Image
    /\ Blocks \subseteq [addr : Addr, data : Seq(Byte)]
    /\ Peeks \subseteq [addr : Addr, n : Nat]

VARIABLES
    load,     \* the latest loading or transfer
    before    \* the regions and buffers when it began

loadVars == <<regions, last, heap, reply, xfer, load, before>>

NoImage == [parses |-> FALSE, segments |-> <<>>, data |-> <<>>]
NoLoad  == [op |-> "none", image |-> NoImage, seg |-> 1, status |-> "idle"]

Loading == load.status \in {"header", "slice", "copy"}
Able    == ~Loading /\ load.status # "panicked"

LoaderInit ==
    /\ Init
    /\ load = NoLoad
    /\ before = [regions |-> regions, heap |-> heap]

Begin(op, image, status) ==
    /\ Able
    /\ load' = [op |-> op, image |-> image, seg |-> 1, status |-> status]
    /\ before' = [regions |-> regions, heap |-> heap]

-----------------------------------------------------------------------------
(* load_elf                                                                *)

\* Within the bounds on regions and buffers there is room for the segments.
Room(image) ==
    /\ Len(regions) + Len(image.segments) <= MaxRegions
    /\ Len(image.segments) <= Cardinality(Buf \ BuffersOf(regions))

\* A file that does not parse ends here.
LoadElf(image) ==
    /\ Room(image)
    /\ Begin("elf", image, IF image.parses THEN "header" ELSE "failed")
    /\ UNCHANGED vars

Loadable(s) == s.type = "PT_LOAD" /\ s.memsz # 0

AtHeader == load.status = "header" /\ load.seg <= Len(load.image.segments)
Segment  == load.image.segments[load.seg]
NextHeader == [load EXCEPT !.seg = @ + 1, !.status = "header"]

SkipHeader ==
    /\ AtHeader
    /\ ~Loadable(Segment)
    /\ load' = NextHeader
    /\ UNCHANGED <<vars, before>>

\* Mutant: the RAM of a segment starts at the page its address is in.
SegmentRamOfPage(s) ==
    [start |-> s.vaddr - (s.vaddr % 2), size |-> s.memsz + (s.vaddr % 2), kind |-> "ram",
     len |-> s.memsz + (s.vaddr % 2)]

SegmentRam(s) == [start |-> s.vaddr, size |-> s.memsz, kind |-> "ram", len |-> s.memsz]

\* Mutant: a segment's bytes are taken from the start of the file.
FileBytesFromStart(image, s) == SubSeq(image.data, 1, s.filesz)

\* &data[file_start..file_end]
FileBytes(image, s) == SubSeq(image.data, s.offset + 1, s.offset + s.filesz)
InFile(image, s) == s.offset + s.filesz <= Len(image.data)

\* The RAM is mapped before the slice of the file is taken, which panics when
\* the file is too short.
MapSegment ==
    /\ AtHeader
    /\ Loadable(Segment)
    /\ Map(SegmentRam(Segment))
    /\ load' = IF Segment.filesz = 0 THEN NextHeader
               ELSE [load EXCEPT !.status =
                        IF InFile(load.image, Segment) THEN "slice" ELSE "panicked"]
    /\ UNCHANGED before

CopySegment ==
    /\ load.status = "slice"
    /\ StartWriteBytes(Segment.vaddr, FileBytes(load.image, Segment))
    /\ load' = [load EXCEPT !.status = "copy"]
    /\ UNCHANGED before

FinishElf ==
    /\ load.status = "header"
    /\ load.seg > Len(load.image.segments)
    /\ load' = [load EXCEPT !.status = "done"]
    /\ UNCHANGED <<vars, before>>

-----------------------------------------------------------------------------
(* load_raw, write_addrs and read_addrs, and the byte steps of them all    *)

WriteBlock(b) ==
    /\ Begin("write", NoImage, IF b.data = <<>> THEN "done" ELSE "copy")
    /\ StartWriteBytes(b.addr, b.data)

ReadBlock(b) ==
    /\ Begin("read", NoImage, IF b.n = 0 THEN "done" ELSE "copy")
    /\ StartReadBytes(b.addr, b.n)

\* A fault ends the loading, whatever has been mapped and written so far.
AfterByte ==
    CASE xfer'.status = "busy"                       -> load
      [] xfer'.status = "failed"                     -> [load EXCEPT !.status = "failed"]
      [] xfer'.status = "done" /\ load.op = "elf"    -> NextHeader
      [] xfer'.status = "done" /\ load.op # "elf"    -> [load EXCEPT !.status = "done"]

CopyByte ==
    /\ load.status = "copy"
    /\ WriteNextByte \/ ReadNextByte
    /\ load' = AfterByte
    /\ UNCHANGED before

-----------------------------------------------------------------------------
(* mem_map and mem_unmap                                                   *)

Forget == load' = NoLoad /\ before' = [regions |-> regions', heap |-> heap']

HostMaps(q)   == Able /\ Map(q) /\ Forget
HostUnmaps(s) == Able /\ Unmap(s) /\ Forget

LoaderNext ==
    \/ \E image \in Images : LoadElf(image)
    \/ SkipHeader
    \/ MapSegment
    \/ CopySegment
    \/ FinishElf
    \/ CopyByte
    \/ \E b \in Blocks : WriteBlock(b)
    \/ \E b \in Peeks : ReadBlock(b)
    \/ \E q \in Requests : HostMaps(q)
    \/ \E s \in Addr : HostUnmaps(s)

-----------------------------------------------------------------------------
(* Properties                                                              *)

LoadType == [op : {"none", "elf", "write", "read"}, image : Images \cup {NoImage}, seg : Nat,
             status : {"idle", "header", "slice", "copy", "done", "failed", "panicked"}]

LoadTypeOK ==
    /\ TypeOK
    /\ load \in LoadType
    /\ load.seg \in 1 .. Len(load.image.segments) + 1
    /\ load.status = "copy" <=> xfer.status = "busy"

\* Every segment has room for what the file holds of it, and the file holds it.
Sound(image) ==
    \A k \in DOMAIN image.segments :
        LET s == image.segments[k]
        IN  Loadable(s) => s.filesz <= s.memsz /\ InFile(image, s)

SegmentHolds(image, s) ==
    \A i \in 0 .. s.memsz - 1 :
        CellOf(s.vaddr + i) = IF i < s.filesz THEN image.data[s.offset + i + 1] ELSE Zero

\* load_elf of a sound file into room nobody has taken always succeeds, and then
\* every loadable segment is in memory: the file's bytes, and zeros behind them.
\* Segments that abut one another or the host's regions do not disturb it, nor
\* does the region the last access before went to.
ImageLoaded ==
    load.op = "elf" /\ load.image.parses /\ Sound(load.image) /\ Tidy(regions) =>
        /\ load.status \notin {"failed", "panicked"}
        /\ load.status = "done" =>
              \A k \in DOMAIN load.image.segments :
                  Loadable(load.image.segments[k]) => SegmentHolds(load.image, load.image.segments[k])

\* n addresses from a on, over the top if need be.
Run(a, n) == {(a + k) % AddrLimit : k \in 0 .. n - 1}

\* The addresses an operation maps or copies to.  A segment may have more bytes in
\* the file than in memory.
Target ==
    CASE load.op \in {"none", "read"} -> {}
      [] load.op = "write" -> Run(xfer.addr, xfer.len)
      [] load.op = "elf" ->
            UNION {Run(s.vaddr, s.memsz) \cup Run(s.vaddr, s.filesz) :
                      s \in {q \in Range(load.image.segments) : Loadable(q)}}

\* The address region r gives to the byte k of its device.
AddressIn(r, k) == (r.start + k) % AddrLimit

\* However a loading or a transfer ends, by success, by a fault half way or by a
\* panic over a truncated file, and whatever the regions and segments overlap: no
\* region is lost, those that have come lie in the target, and a byte of RAM has
\* changed only where its own region gives it an address of the target, whichever
\* region answered.
LoaderKeepsTheRest ==
    /\ Range(before.regions) \subseteq Range(regions)
    /\ \A r \in Range(regions) \ Range(before.regions) :
          \A k \in 0 .. r.size - 1 : AddressIn(r, k) \in Target
    /\ \A r \in {q \in Range(regions) : q.kind = "ram"} :
          \A k \in 0 .. r.len - 1 :
             AddressIn(r, k) \notin Target => heap[r.buf][k] = before.heap[r.buf][k]
=============================================================================
