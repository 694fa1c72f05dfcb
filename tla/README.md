# hyperemu, specified

TLA+ models of hyperemu (`src/`), the TLC runs that check them and the proofs
TLAPS checks. hyperemu is an emulator library: an embedder builds a `HyperEmu`
out of a CPU (armv7, rv32i or x86), a memory bus and a hook registry, maps
devices, loads code, and steps the CPU. Everything runs on the embedder's
thread; what makes it hard is that embedder code (hooks, devices, the host
between two calls) runs in the middle of an instruction with a mutable CPU and
a mutable bus, and that the engine keeps two caches and a raw pointer across
all of that.

## Inventory

| component | state | operations | interacts with |
|---|---|---|---|
| `bus.rs` MemoryBus | region table sorted by start; index of the last region used | map, unmap, resolve_mut, read/write of 8, 16, 32 bits, read_bytes, write_bytes | devices, by `&mut` calls; CPU engines, loaders, GDB, hooks call it |
| `device/ram.rs`, `device/mod.rs` | a byte vector | bounds-checked accesses; little-endian defaults of the trait | reached through `BusDevice` |
| `bus.rs` BusDevice | Ram, Box, Rc/RefCell or Arc/Mutex device | forwards 8 and 32 bit accesses | host threads share the Arc kind |
| `arch/armv7/mod.rs`, `arch/rv32i/mod.rs` | registers, PC, fetch pointer with base and length, decode cache | step, step_batch | bus, hooks, `execute.rs` |
| `arch/x86/mod.rs` | registers, fetch pointer | step, step_batch (which does not stop at branches) | bus, hooks, `execute.rs` |
| `arch/*/decode.rs`, `execute.rs` | none of their own | decode a word; execute it on registers and bus | interrupt hooks (SVC, ECALL, INT) |
| `hook.rs` HookRegistry | code hooks, interrupt hooks | add, trigger_code, trigger_interrupt | closures of the embedder |
| `emu.rs` HyperEmu | CPU, bus, hooks | mem_map, mem_unmap, reg_read/write, step, step_batch, start, load_* | all of the above |
| `gdb.rs` | a borrowed HyperEmu | registers and memory for gdbstub; resume and step do nothing | HyperEmu |
| `loader/raw.rs`, `loader/elf.rs` | none | map segments and copy bytes | bus |
| `device/stm32_gpio.rs`, `device/uart.rs` | a register file; a host stream | accesses, pin setters | bus; the host's GUI |
| `config.rs`, `error.rs` | types only | | |

What makes each one correct:

* **Bus.** An access is served by the one region that holds its address,
  whatever was accessed, mapped or unmapped before; the table stays sorted;
  block transfers cross region boundaries without losing, repeating or
  misplacing a byte; a failing access changes nothing and names its address.
* **Engine.** Running an instruction is reading the word the bus holds at the
  PC, decoding and executing it: the pointer and the cache do not show. A
  failing instruction leaves the PC on itself. A batch executes as many
  instructions as it says, stops behind a branch, and returns.
* **Hooks.** They run in order; a failure ends the instruction, a consumer ends
  the interrupt.
* **Instructions.** They compute what arithmetic says; a fault in mid-instruction
  leaves registers and memory in a state from which the instruction can be
  explained and tried again; an interrupt between two of them leaves no trace;
  the decoders take apart what the manuals put together.
* **Loaders, GDB, devices.** Segments land where the file says; register numbers
  mean what the CPU says; narrow device accesses change the bytes addressed.

The hazards, line by line, each with the properties that would catch it going
wrong, are in `PROJECT.json`.

## Modules

| module | what it is | code |
|---|---|---|
| `BusRegions` | pure operators: regions, resolution, sorting, RAM accesses | `bus.rs`, `ram.rs`, `device/mod.rs` |
| `MemoryBus` | the bus as a state machine | `bus.rs` |
| `FlatMemory`, `BusImplementsFlatMemory` | what the bus promises: a flat memory with holes, no table and no cache; the refinement mapping | abstract |
| `StepLoop` | what step and step_batch promise: hooks, bus read, decode, execute, rewind | `interface.rs`, `hook.rs`, the loops of the engines |
| `FetchEngine` | the same with fetch pointer and decode cache; implements `StepLoop` | `armv7/mod.rs`, `rv32i/mod.rs` |
| `X86Engine` | instructions of several lengths out of the same kind of window, batches through branches | `x86/mod.rs` |
| `Words`, `GuestMemory` | machine words, their bits and widths; loads and stores as instructions see them | `u8`, `u16`, `u32`; the accesses of `bus.rs` and `ram.rs` |
| `ArmFlags`, `ArmInstr`, `ArmDecode`, `ArmExecute` | flags and conditions, decoded instructions, the decoder on real words, `execute_instr` with exceptions | `armv7/*.rs` |
| `Riscv` | decoder and `execute_instr` | `rv32i/*.rs` |
| `X86Flags`, `X86Decode`, `X86Execute` | flags, the decoder on byte sequences, `execute_instr` | `x86/*.rs` |
| `Encodings` | the reference for the decoders: encoders from the architecture manuals | |
| `Guest` | a program on one of the three processors; composes the executors with faults, retries and interrupts | the `step` of each processor |
| `Loader` | loading images and transferring blocks; composes with `MemoryBus` | `loader/*.rs`, `gdb.rs` memory |
| `Ports` | the GPIO port and the serial line between a guest and a host thread | `stm32_gpio.rs`, `uart.rs`, `bus.rs` SharedArc |
| `RegisterBytes` | what a port promises: a row of bytes | abstract |
| `Debugger` | registers by number, `start`, the GDB target | `emu.rs`, `gdb.rs`, `read_reg`/`write_reg` of each processor |
| `Embedder` | `Loader`, `Ports` and `Debugger` side by side | `emu.rs` |
| `MCMemoryBus`, `MCFetchEngine`, `MCX86Engine`, `MCGuest`, `MCEmbedder` | values of the constants for TLC | |
| `BusRegionsProofs`, `MemoryBusProofs`, `StepLoopProofs`, `FetchEngineProofs`, `X86EngineProofs`, `EmbedderProofs`, `GuestProofs`, `RestartProofs` | lemmas and theorems | |

### State and actions against the code

`MemoryBus`: `regions` is the `Vec<MemoryRegion>`, `last` is `last_region_idx`
(from 1, as TLA+ sequences are), `heap` the byte vectors of all `Ram`s, indexed
by an identity so that a region can be dropped and its buffer reused; `reply`
and `xfer` are what callers see. `Map`, `Unmap`, `Read`, `Write` are one call
each. `binary_search_by` is modelled by its contract: any matching entry when
the table is partitioned with respect to the address, possibly nothing
otherwise. `read_bytes` and `write_bytes` take a step per byte, since each byte
is resolved anew and can fail. Devices other than RAM answer anything and never
fail. `BusDevice` inherits `read_16` and `write_16` from the trait, so a
halfword is two byte accesses on a device (`BytesDone`).

`StepLoop`, `FetchEngine`, `X86Engine`: `call` is the invocation under way. Its
phases are the points where control can leave the engine: "fetch", "code hook",
"read", "execute", "interrupt hook". Embedder code is `Meddle`: a byte write, a
map or an unmap, and any PC. The constants `HostMay`, `CodeHookMay` and
`IntHookMay` say what it may do in an instance. `call.from` is a ghost: it
remembers where the call began, for `BatchIsStraightLine` and
`ErrorTellsHowFar`. Instructions are kinds: "plain", "jump", "store", "svc",
"undef". `Decode` (and `Length` on x86) is a constant: the properties hold for
any decoder that is a function of the bytes. `win` is `fetch_slice`,
`fetch_base`, `fetch_len`; a read outside the buffer, or of a buffer that is
gone, is undefined behaviour in the code and yields any word in the model. On
x86 the decoder indexes a slice, so an instruction that the slice cuts off is a
panic ("panic"), not a fault.
Embedders in `StepLoop` keep the region table tidy: no region is empty, leaves
the address space or overlaps another, and no buffer is longer than its region.
The bus's cached index does not appear there because on tidy tables it cannot
be observed (`ResolveIsExact`).

`Guest`: `machine` is the processor with the memory it sees: registers, status
or flags, PC, the bytes, the regions mapped so far, and in `err` how the last
instruction ended. One step is one `step` of the processor: decode the word (or
bytes) at the PC with the model of the decoder and apply the model of
`execute_instr`. `Retry` maps one more region after a fault and steps again;
`Interrupt` and `Return` are `trigger_exception` and a host that takes the PC
back from `banked_lr`, since no instruction can. `first`, `start`, `tries`,
`slipped` are ghosts that remember where the program and the instruction began.
The words that are decoded have 32 bits, as in the code, and are sets of bit
numbers; the registers have `4 * ByteBits` bits.

`Loader`: `load` is the loading or the debugger's transfer under way. A segment
is mapped (`MapSegment`), its slice of the file is taken, which may panic, and
then goes over the bus byte by byte with the actions of `MemoryBus`. `before`
is a ghost: the regions and buffers at the start.

`Ports`: `port` is the register file, a word the set of its one bits; `line` is
what went out to the host. A guest's halfword on a device behind a mutex is two
byte accesses, and between them the host thread may drive pins, read or write
(`GuestReadsHigh` and its like come as separate steps). `driven`, `levels`,
`idrWritten`, `meant`, `refused` are ghosts. `access` is what the port saw last
and is what `RegisterBytes` speaks about.

`Debugger`: `regs` are the registers by their numbers in `read_reg`, on the
processor `arch`. `HostWrites`, `Start`, `Runs`, `ReadRegisters`,
`WriteRegisters`, `Resumes` are `reg_write`, `start`, a step of the guest, and
the four of `gdb.rs`. `picture`, `agreed` and `aim` are what the debugger and
the caller of `start` believe.

`Embedder` puts the last three together. They share no state, so a behaviour is
a session of one of them; nothing is lost by not mixing them.

Integer widths: addresses are taken modulo `AddrLimit` (2^64 in the code), PCs
modulo `PcLimit` (2^32), registers modulo their width, as in a release build,
where Rust arithmetic wraps; a debug build panics at those places instead.

## Runs

| run | result | shows |
|---|---|---|
| `bus_wild` | pass | any region table, overlaps, nesting, equal starts, empty regions and wrap at the top included: `TypeOK`, `RegionsSorted`, `BlockTransferExact` (on a tidy table a transfer also stops exactly at the first hole), and whenever the table is tidy, `ResolveAgrees` |
| `bus_flat` | pass | tidy tables with a device and RAM a word fits into or not: every step is a step of `FlatMemory` |
| `engine_loop` | pass | two code hooks that patch code, set the PC and fail, two interrupt hooks that map, set the PC, decline and fail, a host that maps and patches: `ImplementsStepLoop`, `BatchIsStraightLine`, `ErrorTellsHowFar`, and under fairness `CallsReturn` |
| `engine_replace` | pass | code unmapped and replaced, also by hooks: `TypeOK`, `ExecutesWhatWasRead`, and `OnlyUnmapDangles`, the one way to a dangling fetch pointer |
| `x86_engine` | pass | instructions of one and two bytes, whole and cut off at the end of a RAM, hooks that patch, map, fail and move EIP: `FetchesTheBus`, `ReturnTellsHowFar`, and under fairness `CallsReturn` |
| `guest` | pass | programs on the three processors, see below |
| `embedder` | pass | images, devices and the debugger, see below |
| `engine_unmapped` | violated | the host unmaps the region of code that ran: the next fetch goes through the dangling pointer (`docs/plan.md:182`) |
| `engine_redirect` | violated | a PC set by a code hook is overwritten (`docs/plan.md:183`) |
| `arm_decode` | violated | signed long multiplies, post-indexed halfword transfers and some bit fields decode as something else (`decode.rs:246`, `292`, `37`) |
| `x86_branches` | violated | an x86 batch goes on at the target of a jump (`interface.rs:16`) |
| `start_entry` | violated | `start` does not start RV32I at the entry point (`emu.rs:86`) |

`guest` runs every program of `MCGuest` from every combination of its initial
registers and, where memory is at issue, of its initially mapped regions. What
is claimed of all of them: `TypeOK`; `Restartable`, an instruction that faulted
and is tried again ends as if its memory had been there from the start (with
what PUSH, CALL and LDM have already done to the stack or base accounted for);
`FaultIsPartial`, what the host sees after a fault is old or new, never
something else; for RV32I and ARM both are proved of every program too. Of the programs for it, at their ends:

* arithmetic: `WideArithmetic` (carry chains), `ConditionsDecide` (every condition
  after a comparison), `BitwiseAddsUp`, `ShiftsBitByBit`, `ProductsAreWhole`,
  `BitFieldsKeepApart`;
* memory: `StackBalances` (STM/LDM in four modes, PUSH/POP, calls), `StringsCopy`,
  `StringsSearch`, `BytesKeepTheirPlace` (every width, both byte orders),
  `AddressesAreSums` (ModRM and SIB);
* control: `LoopsCountDown`, `InterruptsLeaveNoTrace` (two interrupts anywhere in
  a program, compared with the run without any);
* decoding: `DecodesBack` (what `Encodings` encodes comes back, and every other
  word gives an instruction of the type the executor expects).

`embedder`: `ImageLoaded` and `LoaderKeepsTheRest` for the loaders and the
debugger's memory; `ImplementsRegisterBytes`, `PinsReadTruly` and `SentOnce` for
the devices; `DebuggerAgrees` for registers, with `start` among them.
`LoaderKeepsTheRest` has no exceptions: regions may overlap, and a segment may
overlap others or have more bytes in the file than in memory. Its target is then
what the file's bytes reach. `DebuggerAgrees` claims of `start` what holds on
ARM, which its comment is about, and of panics that only x86 has them; what the
documentation claims of `start` on every processor is in `start_entry`.

`DecodesBack` leaves out the words `Misread` names, which the ARM decoder takes
for others; `arm_decode` is the same claim without that exception.

### Bounds

* `bus_*`: six to eight addresses, two byte values, two buffers, up to three
  regions. Three regions make a stale index point below, at and above the right
  one; two buffers let one be freed and reused; eight addresses hold requests
  that abut, overlap, nest, share a start, are empty, are shorter or longer than
  their RAM, and end exactly at the top. Transfers of up to three bytes cross
  two boundaries. `bus_flat` has RAM of four and of three bytes, so that every
  width fits at one offset and not at the next; single bytes are transfers of one.
* `engine_*`: instructions of two bytes, ten PCs, two cache slots (one where
  collisions do not matter), two regions, two hooks of each sort, batches of
  three. Two slots and three instruction addresses force collisions; two bytes
  per instruction let a write patch half of one and let a PC be misaligned. The
  batch's inner block of 16 is left out: it ends for the same reasons as the
  outer loop.
* `x86_engine`: instructions of one and two bytes, five EIPs, eight addresses, two
  adjacent regions (the second whole, too short, empty or a device), one hook of
  each sort, batches of two. A two-byte instruction can straddle the end of a
  RAM with and without a neighbour, and one hook can patch the instruction, map
  behind it and move EIP between the test of the window and its use.
* `guest`: `ByteBits` is 2, so registers have 8 bits and halfwords 4; all the
  places where a carry, a sign or a shift by the width matters exist in them.
  Operands are zero, one, the signed extremes and all ones, with a few
  values in between where a loop counts or a string is searched. The data memory is two adjacent regions of two words, mapped in
  any order, so that stacks, strings and block transfers fault at every element.
  `MaxInterrupts` is 2.
* `engine_unmapped` and `x86_branches` use the instances of the passing runs without
  what would lead to another violation first: whole RAM only, no hooks.
* `embedder`: eight addresses, two buffers, three regions; six images with
  segments that abut, overlap, are longer in the file than in memory, of another
  type, empty, or beyond the end of the file. Port accesses of every width at
  the last byte of a register, at the input register and behind the last one;
  pins in the first and the second byte of the input register, so that a halfword
  load can be torn. Three bytes on the line (`MaxMeant`), each of which may be refused.
  Register values modulo 4, written from values that fit and that do not.
* `MaxRegions`, `MaxBlock`, `MaxBatch`, `MaxInterrupts`, `MaxMeant` are bounds in
  guards and quantifiers; nothing else is bounded.
* Symmetry over buffers is used where only safety is checked: buffers are
  compared for equality only.
* Deadlock is not checked where the system may stop: programs end, calls panic,
  and hosts need not go on.

Where the implementation of `StepLoop` is checked, nobody unmaps and the PC
stays clear of its top; `engine_unmapped` shows what an unmap does; what happens
at the top is told under "What the code does that a reader may not expect". A word that is not all in one RAM has no
defined value in `StepLoop`: the engine reads it past the end of the buffer.
`FetchesTheBus` says nothing, likewise, while somebody has unmapped the
region under the window, and of an EIP in a region but behind its RAM.

### Fairness

`FairSpec` of both engines is weak fairness of `Step`, an engine step. A call
runs on the host's thread and nothing else runs until it returns; it needs only
that hooks return. Nothing is assumed of hooks' answers nor of the host.

## Proofs

All for every value of the constants that meets the named assumptions.

* `MemoryBusProofs`: `TypeCorrect`, `RegionsStaySorted`, `ResolveIsExact`. The
  argument for resolution: in a sorted and disjoint table, `Compare` is "Less"
  for every region below the owner and "Greater" above, so the table is
  partitioned (`Partitioned`) and the search returns the only equal entry; the
  cached index answers only after the same bounds test, so it can name no other
  region. The inductive invariant is `TypeOK` with sortedness; `Tidy` is a
  hypothesis, not an invariant, because the bus does not enforce it.
  `BlockTransfersAreExact` holds for tables of any overlaps. It needs two more
  conjuncts (`BlockInv`): no two RAMs share a buffer (`BuffersDistinct`), without
  which a store would reach a second address, and `Transferred`, which states
  `BlockTransferExact` so that it survives the next byte. Whichever region
  resolution finds owns the address (`FoundOwns`), so a byte is stored at one place
  of one buffer, and no other address of any region sees it (`StoresOneByte`,
  `StoreIsLocal`). No region owns the top of the address space, so a transfer that
  reaches it fails there rather than wrap. Tidiness is needed only for where a
  failed transfer stopped: on an untidy table resolution may miss an owner.
  `ImplementsFlat` is the refinement of `FlatMemory`, for the embedder of
  `TidySpec`, who maps only into free space: every action of the bus is the
  action of the same name on the flat memory, or a stutter (`FlatInv`). It assumes that
  the three marks `FlatMemory` uses for cells without a byte are no byte values
  (`MarksAreNoBytes`), a matter of notation.
* `FetchEngineProofs`: `EngineTypeCorrect`; `DecodeCacheIsInvisible`, whose
  inductive invariant says that every cache entry decodes its own raw word or is
  an untouched empty entry; `BatchRunsStraight`, inductive together with the
  types, which rests on wrapping `count` times being wrapping once
  (`WrapsAsOne`), and from it `ErrorLocatesInstruction`; and
  `DanglesOnlyByUnmap`, which assumes nothing of what hooks and host may do: a pointer
  to a region goes on pointing to one through every mapping, patch and step, and
  through every unmapping of another region. `EngineImplementsStepLoop` is the
  refinement, under the assumptions `NobodyUnmaps`, that neither hooks nor host have
  the power to unmap, and `StaysClearOfTop`, that no code lies within two
  instructions of the last PC. Neither can be dropped: `engine_unmapped` shows it of
  the first, and at the top the window test of `mod.rs:336` wraps around. `LoopInv` adds to the cache's invariant
  a tidy table, a PC clear of the top, and `WindowHolds`: the
  pointer is null or points to a mapped RAM, and between its test and the read
  the instruction lies inside that RAM whatever a code hook maps or patches in
  between. So the word read through the pointer is the one the bus holds
  (`PointerReadsBus`), entering and reading an instruction are the loop's own
  steps (`EnterIsEnter`, `ReadIsRead`), and all others are the same in both.
* `X86EngineProofs`: `X86TypeCorrect`, and `X86ReturnTellsHowFar`, for any table of
  lengths: a call ends with success only from `Complete86`, with the count at the
  maximum, and every other end rewinds EIP or leaves it. (The property would let a
  batch end behind a branch, too.) The type invariant is inductive as it stands; one lemma per action says which types it leaves and
  that what the step returns is right. `X86FetchesTheBus` needs `NobodyUnmaps` and an
  instruction shorter than the range of EIP; its `SliceInv` says of the slice what
  `WindowHolds` says of the pointer. `StepLoopProofs` holds what both engines need: what
  hooks and the host may do to the bus and the PC stays in type.
* `EmbedderProofs`, on the ports: `EachByteOnce` and `PinsAreRead`. `LineInv` adds to `SentOnce`
  that only positions of bytes that were meant are refused and drops its guard:
  the second half of a halfword goes to another offset and sends nothing, so the
  count is right in between, too. `PinInv` adds to `PinsReadTruly` what is known
  of a halfword load after its first byte: the bits so far are levels seen, the
  levels seen include those of now, and no bit above the first byte is set.
  `PortIsBytes` is the refinement: every step of the two devices is a step of the
  row of bytes or leaves it alone. The argument goes bit by bit: bit
  `b` of byte `c` is bit `8 * (c % 4) + b` of register `c \div 4` (`ByteAt`), a
  shifted, masked and merged word has at that bit what the byte-wise reading says
  (`DownBit`, `ReplacedBit`), whence `ReadIsBytes` and `WriteIsBytes`. `CallKnown`
  says that the second half of a halfword is at an offset and of a value the
  abstract specification allows.
* `EmbedderProofs`, on the debugger: `DebuggerIsRight`. `DebuggerAgrees` becomes inductive with the
  types, with x0 of RV32I being zero (otherwise a picture read from it could not
  be written back), and with no picture ever agreed on x86 (register 16 does not exist there).
* `EmbedderProofs`, on the loaders: `LoadersKeepTheRest`, `SoundImagesLoad` and
  `EmbedderTypeCorrect`, for any files that meet `LoaderAssumption` (which only
  types them: they may overlap, be truncated, or have
  more bytes in the file than in memory; `MaxLen` bounds a segment as it bounds any RAM).
  `LoaderInv` is `BlockInv`, the types, `LoaderKeepsTheRest`, which is inductive
  beside them, and two facts about a loading in progress. `LoaderKeepsTheRest`
  survives a byte because whichever region answers, the byte's place in that region's
  buffer has an address of the target and the buffer is nobody else's
  (`StoreKeepsRest`), and a mapping because its buffer is one nobody had
  (`MapKeepsRest`); neither needs the table to be tidy. `TransferIsOurs`: the
  block transfer under way is the current segment's, or the host's block.
  `ImageIsLoading`: while the table is tidy and the file sound, every segment
  before the current one is a mapped RAM and shows its bytes, the current one shows
  as many as were copied and zeros behind them. Two things make it inductive. A
  byte goes to one address (`ByteFrame`), and that address is none of an earlier
  segment's: the earlier segment's RAM is in the table (`Mapped`), so mapping the
  current one over it would have left the table untidy (`EarlierApart`).
  `EmbedderInv` puts the invariants of loaders, ports, line and debugger side by
  side; a step of one moves no variable of another.
* `BusRegionsProofs`: what pushing and sorting, and retaining, do to a table,
  what resolution may return.
* `GuestProofs`: `GuestTypeOK`, for any programs of the three processors, memory,
  regions and length of a byte. For each processor there are three results.
  *The decoder makes an instruction of the type the executor expects*
  (`RvDecodes`, `ArmDecodes`, `X86Decodes`), of every 32 bit word and of every byte
  sequence, however its prefixes pile up and wherever it is cut off: no register
  number, immediate, shift amount or register list is out of range.
  *An instruction keeps the machine*, whatever it does and wherever it faults
  (`RvExecutes`, `ArmExecutes`, `X86Executes`): there is one lemma per group of
  `execute_instr`, which follows its cases.
  *A step keeps the machine and goes back to its instruction if it fails*
  (`RvSteps`, `ArmSteps`, `X86Steps`): the PC is where it was, also when the
  instruction had already branched, loaded the PC or called.
  `TypeOK` alone is not inductive: `Retry` executes at the PC without asking
  whether it is in the code. `GuestInv` adds that after a fault it is, which is
  what the third result gives, and that the program is one of those allowed.
  The assumptions: regions are intervals of words that do not overlap
  (`RegionsAssumption`, the tidy tables on which the bus is a flat memory), a
  byte has at least one bit (`WordsAssumption`), the image has bytes and the
  programs are `WellFormed` (`GuestAssumption`). `WellFormed` lets the code be any words or
  bytes, with one restriction on ARM. The model keeps the status that MRS reads
  as a record rather than as a number, so a program names the registers
  (`statuses`, not the PC) it keeps one in, and its other instructions use none of these as a
  word (`KeepsStatuses`); MSR may read any register. RV32I and x86 programs are
  unrestricted. The lemmas on words, for any length of a byte: a field of n bits is
  below `2^n`, a sum of distinct powers below the next power, a number of n bytes
  below `Span(n)`, the shifts and bitwise operations of words are words.
* `RestartProofs`: `InstructionsRestart` and `FaultsArePartial` are
  `Restartable` and `FaultIsPartial` for all RV32I and ARM programs, however the
  host maps the regions and however often it tries. Neither property is inductive:
  they speak of the last fault, or of an end after some, and say too little of what
  the failed tries left. `RestartInv` says that (`Left`): the machine is the one the
  instruction began on but for what `RvSame` and `ArmLeft` allow. A store has stored
  nothing, or the first byte of a halfword whose two bytes lie in different regions
  (`Attempted`; such a halfword cannot be reached however much is mapped). An STM has
  stored some of its words (`StmLeaves`). An LDM has slipped its base once per try
  (`Slipped`), and a register of its list holds what it had or what some earlier try
  would have loaded from the base of its time (`LdmLeaves`), unless it has lost its
  base. A load leaves nothing behind, and no other instruction faults for want of memory,
  nor does one whose condition fails. `RvTryAgain` and
  `ArmTryAgain` make it inductive: a try that begins on what k tries left fails and
  leaves what k + 1 may, or ends as with all regions mapped on what has slipped. For
  a plain instruction this is that it reads nothing of what is mapped
  (`RvAlike`, `ArmAlikes`); for a block it is that the words a try moves are a prefix of the
  list, that those of an STM do not overlap, and that an LDM's try loads all over
  again what the ones before had loaded. That no two words of a block are the same
  needs the block to be shorter than memory: sixteen words, so a byte of at least
  two bits (`BlocksAssumption`; a real one has eight, the runs' has two).

The sums in `Words` are folds of the community modules and the rounds of a
repeated string operation are a recursive function, so both need induction. The
library's induction theorems cannot be used (they take an operator as a
parameter); `SetInduction` and `SubsetInduction` say the same of sets, by the
well-foundedness of `<`, and `RunningExists` and `RecursionExists` get from
them that the recursions have solutions. That is enough for what such a value
ranges over. What it equals for each input is another matter and left to TLC.

Only model-checked:

* `Restartable` and `FaultIsPartial` on x86. The argument would be the one proved for
  the other two, but an x86 instruction reads and writes in more places (memory operands of
  every instruction, PUSH and CALL that slip, the torn halfword of `Torn`), and a
  repeated string operation goes on from the registers its failed try left, so that
  its rounds before and after the fault have to be shown to add up: an equation
  about a recursive function, which is induction over data.
* The claims of `MCGuest` about the ends of programs (`WideArithmetic` to
  `LoopsCountDown`): each is about the programs of one instance, and about what
  arithmetic and bit patterns come to, which is the kind of equation named above.
  `MCGuest` itself declares a RECURSIVE operator, with which nothing can be proved.
* `CallsReturn` of both engines: the prover handles neither fairness nor `ENABLED`.

## What the code does that a reader may not expect

The violated runs show five disagreements between the code and what its comments
and plan say. The models have these as well, as the code does them:

* A RAM that ends in the middle of an instruction is read past its end: the fetch
  pointer is taken from the first byte alone (`armv7/mod.rs:225`). The plan's
  `bus.read_32` would fail.
* A first instruction at the last instruction address is read through a pointer
  that was never set: `pc_val.wrapping_add(4)` is 0, so the window test does not
  find that the PC has left the window (`armv7/mod.rs:336`).
* A failing `write_16` to RAM has stored its low byte: `BusDevice` does not forward
  it, so it takes the trait's default and never `Ram::write_16`, which checks both
  bytes first (`device/mod.rs:20`, `BytesDone`).
* A fault inside RAM carries the offset into the RAM (`ram.rs:22`), where `error.rs:5`
  speaks of an address.
* Register 16, which the debugger transfers as the CPSR, is x16 on RV32I and a panic
  on x86 (`x86/mod.rs:134`), which has no such register; on the other two a number
  that names no register is the error of `error.rs:11` (`NoPanicOffX86`).
* A segment with more bytes in the file than in memory goes on into the RAM the host
  has mapped behind it (`elf.rs:52`, `LoaderKeepsTheRest`).
* `is_idr_pin_high` answers the opposite of what `set_idr_pin` set
  (`PinsReadTruly`).
* PUSH, CALL and LDM with write-back have moved the stack pointer or the base
  when they fault, and a retry starts from there (`Restartable`).
* An LDM that has its own base in its list, with other registers behind it, has
  lost the base if it faults after loading it, and cannot be tried again
  (`LosesBase`, the exception in `Restartable` and `FaultIsPartial`).
* ARM shifts by a register that holds zero are treated like the immediate
  encodings of zero (`ShiftsBitByBit`).

## What is left

A `Guest` on top of `X86Engine`
or `FetchEngine`, with self-modifying programs, would join the two halves of the
project; today the engines are checked for any decoder and the guests for a
memory that behaves like `FlatMemory`.

## Not modelled

* Access permissions, which no code reads; logging and formatting; `config.rs` and
  `error.rs`, which only declare types.
* The panics of a `RefCell` borrowed twice and of a poisoned lock: misuse by the
  embedder.
* goblin's parsing of an ELF file, which here succeeds or fails, and gdbstub's
  protocol.
* The bytes of the host's stream behind the UART, beyond whether it takes them.
* Pins above 31, whose shift overflows; the carry of SAR and SHR of a 16 bit
  operand by more than 16; accesses to instructions behind the end of a RAM.
* Timing: nothing in the code waits or times out, and nothing is persisted.
