--------------------------- MODULE X86EngineProofs ---------------------------
(***************************************************************************)
(* Theorems about X86Engine for every value of its constants: any number   *)
(* of hooks with any powers, any decoder, instructions of any lengths.     *)
(***************************************************************************)
EXTENDS X86Engine, StepLoopProofs

-----------------------------------------------------------------------------
(* Small facts about the engine's values                                   *)

\* What a call returns is a value of the call variable.
LEMMA ReturnedTyped ==
  ASSUME BusAssumption, LoopAssumption, NEW ok \in BOOLEAN, NEW count \in Nat
  PROVE  Returned(ok, count) \in Call
<1>1. NoWord \in Word /\ 0 \in Pc
  BY DEF NoWord, Word, Pc, BusAssumption, LoopAssumption
<1> QED
  BY <1>1 DEF Returned, Call, Phases, Instr

\* What a batch that goes on is, and what it looks like from outside.
LEMMA GoesOn ==
  ASSUME BusAssumption, LoopAssumption, NEW count \in Nat, NEW max \in Nat
  PROVE  /\ [Returned(TRUE, count) EXCEPT !.phase = "fetch", !.max = max] \in Call
         /\ [Returned(TRUE, count) EXCEPT !.phase = "fetch", !.max = max].phase = "fetch"
<1> DEFINE ret == Returned(TRUE, count)
<1>1. ret \in Call
  BY ReturnedTyped
<1> HIDE DEF ret
<1>2. /\ [ret EXCEPT !.phase = "fetch", !.max = max] \in Call
      /\ [ret EXCEPT !.phase = "fetch", !.max = max].phase = "fetch"
  BY <1>1 DEF Call, Phases
<1> QED
  BY <1>2 DEF ret

\* What a call returns says so.
LEMMA ReturnedSays ==
  ASSUME NEW ok, NEW count
  PROVE  /\ Returned(ok, count).phase = "idle"
         /\ Returned(ok, count).ok = ok /\ Returned(ok, count).count = count
BY DEF Returned

\* The bytes an instruction takes from the slice, filled up, are a word.
LEMMA TakenTyped ==
  ASSUME BusAssumption, LoopAssumption, LengthAssumption, NEW w \in Word
  PROVE  /\ LengthOf(w) \in 1 .. ILen /\ LengthOf(w) \in Nat
         /\ Taken(w) \in Word /\ Decode[Taken(w)] \in Instr
<1>1. 1 \in 1 .. ILen /\ w[1] \in Byte
  BY DEF Word, LoopAssumption
<1>2. LengthOf(w) \in 1 .. ILen /\ LengthOf(w) \in Nat
  BY <1>1 DEF LengthOf, LengthAssumption, LoopAssumption
<1>3. Taken(w) \in Word
  <2> HIDE DEF LengthOf
  <2> QED
    BY DEF Taken, Word, BusAssumption
<1> QED
  BY <1>2, <1>3 DEF LoopAssumption

\* EIP wraps within its range.
LEMMA NextEipTyped ==
  ASSUME BusAssumption, LoopAssumption, LengthAssumption, NEW w \in Word, call.at \in Pc
  PROVE  NextEip(w) \in Pc
<1>1. ASSUME NEW N \in Nat \ {0}, NEW x \in Nat PROVE x % N \in 0 .. N - 1
  BY SMT
<1>2. call.at + LengthOf(w) \in Nat /\ PcLimit \in Nat \ {0}
  <2> HIDE DEF LengthOf
  <2> QED
    BY TakenTyped DEF Pc, LoopAssumption
<1> QED
  BY <1>1, <1>2 DEF NextEip, Pc

-----------------------------------------------------------------------------
(* One lemma per action: the types it leaves, and what ReturnTellsHowFar   *)
(* says of the step                                                        *)

BusTyped == regions \in Seq(Region) /\ heap \in [Buf -> Content]
CpuTyped == pc \in Pc /\ call \in Call
WinTyped == win \in [buf : Buf \cup {NoBuf}, base : Nat, len : Nat]

\* A step that ends a call, as ReturnTellsHowFar has it.
TellsStep ==
    call.phase # "idle" /\ call'.phase = "idle" =>
        /\ call'.ok => call'.count \in 1 .. call.max
        /\ call'.ok /\ call'.count < call.max => pc' # NextEip(call.raw)
        /\ ~call'.ok /\ call.phase = "fetch" => pc' = pc
        /\ ~call'.ok /\ call.phase \notin {"fetch", "code hook"} => pc' = call.at

\* The initial state is well typed.
LEMMA InitTyped ==
  ASSUME BusAssumption, LoopAssumption, Init
  PROVE  TypeOK
<1>1. Zeroed \in Content /\ <<>> \in Seq(Region)
  BY DEF Zeroed, Content, BusAssumption
<1>2. 0 \in Pc
  BY DEF Pc, LoopAssumption
<1>3. Returned(TRUE, 0) \in Call
  BY ReturnedTyped
<1> QED
  BY <1>1, <1>2, <1>3 DEF Init, LoopInit, TypeOK

\* Between two calls.
LEMMA HostTyped ==
  ASSUME BusAssumption, LoopAssumption, TypeOK, Host
  PROVE  BusTyped' /\ CpuTyped' /\ TellsStep
BY MeddleTyped, PcAfterTyped DEF Host, TypeOK, BusTyped, CpuTyped, TellsStep

\* A call begins.
LEMMA BeginTyped ==
  ASSUME BusAssumption, LoopAssumption, TypeOK, NEW max \in 0 .. MaxBatch, Begin(max)
  PROVE  BusTyped' /\ CpuTyped' /\ TellsStep
<1>1. UNCHANGED <<regions, heap, pc>> /\ call.phase = "idle"
  BY DEF Begin
<1>2. call' \in Call
  <2> DEFINE ret == Returned(TRUE, 0)
  <2>1. ret \in Call
    BY ReturnedTyped
  <2> HIDE DEF ret
  <2>2. call' = ret \/ call' = [ret EXCEPT !.phase = "fetch", !.max = max, !.from = pc]
    BY DEF Begin, ret
  <2>3. max \in Nat /\ pc \in Pc
    BY DEF LoopAssumption, TypeOK
  <2> QED BY <2>1, <2>2, <2>3 DEF Call, Phases
<1> QED BY <1>1, <1>2 DEF TypeOK, BusTyped, CpuTyped, TellsStep

\* A failure before the instruction, which leaves EIP.
LEMMA FailTyped ==
  ASSUME BusAssumption, LoopAssumption, TypeOK, call.phase = "fetch", Fail
  PROVE  BusTyped' /\ CpuTyped' /\ TellsStep
<1>1. call' = Returned(FALSE, 0) /\ UNCHANGED <<regions, heap, pc>>
  BY DEF Fail
<1>2. call' \in Call /\ call'.ok = FALSE
  BY <1>1, ReturnedTyped, ReturnedSays
<1> QED BY <1>1, <1>2 DEF TypeOK, BusTyped, CpuTyped, TellsStep

\* An instruction is entered, through the window or after a refresh.
LEMMA EnterTyped ==
  ASSUME BusAssumption, LoopAssumption, TypeOK, EnterWindow
  PROVE  BusTyped' /\ CpuTyped' /\ WinTyped' /\ TellsStep
<1>1. CASE Proceed
  <2>1. UNCHANGED <<regions, heap, pc>>
    BY <1>1 DEF Proceed
  <2>2. call' \in Call /\ call'.phase # "idle"
    BY <1>1 DEF Proceed, TypeOK, Call, Phases
  <2>3. WinTyped'
    <3>1. CASE UNCHANGED win
      BY <3>1 DEF TypeOK, WinTyped
    <3>2. CASE Refresh
      <4>1. PICK i \in Owners(regions, pc) :
              win' = [buf |-> regions[i].buf, base |-> regions[i].start, len |-> regions[i].len]
        BY <3>2 DEF Refresh
      <4>2. i \in DOMAIN regions
        BY DEF Owners
      <4>3. regions[i] \in Region
        BY <4>2 DEF TypeOK
      <4>4. /\ regions[i].buf \in Buf \cup {NoBuf}
            /\ regions[i].start \in Nat /\ regions[i].len \in Nat
        BY <4>3 DEF Region, Addr, BusAssumption
      <4> QED BY <4>1, <4>4 DEF WinTyped
    <3> QED BY <3>1, <3>2 DEF EnterWindow, Fail
  <2> QED BY <2>1, <2>2, <2>3 DEF TypeOK, BusTyped, CpuTyped, TellsStep
<1>2. CASE Fail /\ UNCHANGED win
  BY <1>2, FailTyped DEF EnterWindow, TypeOK, WinTyped
<1> QED BY <1>1, <1>2 DEF EnterWindow

\* The next hook's turn.
LEMMA NextHookTyped ==
  ASSUME TypeOK, call' = [call EXCEPT !.hook = call.hook + 1]
  PROVE  call' \in Call /\ call'.phase = call.phase
<1>1. call \in Call
  BY DEF TypeOK
<1>2. call.hook + 1 \in Nat
  BY <1>1 DEF Call
<1> QED BY <1>1, <1>2 DEF Call

\* A code hook runs.
LEMMA CodeHookTyped ==
  ASSUME BusAssumption, LoopAssumption, TypeOK, CodeHook
  PROVE  BusTyped' /\ CpuTyped' /\ TellsStep
<1>1. BusTyped' /\ pc' \in Pc /\ call.phase = "code hook"
  BY MeddleTyped, PcAfterTyped DEF CodeHook, TypeOK, BusTyped
<1>2. CASE call' = [call EXCEPT !.hook = call.hook + 1]
  BY <1>1, <1>2, NextHookTyped DEF CpuTyped, TellsStep
<1>3. CASE call' = [call EXCEPT !.hook = 0, !.phase = "read"]
  <2>1. call' \in Call /\ call'.phase = "read"
    BY <1>3 DEF TypeOK, Call, Phases
  <2> QED BY <1>1, <2>1 DEF CpuTyped, TellsStep
<1>4. CASE call' = Returned(FALSE, 0)
  <2>1. call' \in Call /\ call'.ok = FALSE
    BY <1>4, ReturnedTyped, ReturnedSays
  <2> QED BY <1>1, <2>1 DEF CpuTyped, TellsStep
<1> QED BY <1>2, <1>3, <1>4 DEF CodeHook

\* The instruction is taken from the slice, or the slice is too short.
LEMMA ReadTyped ==
  ASSUME BusAssumption, LoopAssumption, LengthAssumption, TypeOK, ReadThroughSlice
  PROVE  BusTyped' /\ CpuTyped' /\ TellsStep
<1>1. call \in Call /\ call.at \in Pc /\ UNCHANGED <<regions, heap>>
  BY DEF TypeOK, Call, ReadThroughSlice
<1>2. PICK w \in Word : Decoded86(w) \/ Panic
  BY DEF ReadThroughSlice
<1>3. CASE Decoded86(w)
  <2>1. Taken(w) \in Word /\ Decode[Taken(w)] \in Instr /\ NextEip(w) \in Pc
    BY <1>1, TakenTyped, NextEipTyped
  <2>2. /\ call' = [call EXCEPT !.phase = "execute", !.raw = Taken(w),
                                !.instr = Decode[Taken(w)]]
        /\ pc' = NextEip(w)
    BY <1>3 DEF Decoded86
  <2> DEFINE raw == Taken(w)
             instr == Decode[Taken(w)]
  <2> HIDE DEF raw, instr
  <2>3. call' \in Call /\ call'.phase = "execute"
    <3>1. raw \in Word /\ instr \in Instr
      BY <2>1 DEF raw, instr
    <3>2. call' = [call EXCEPT !.phase = "execute", !.raw = raw, !.instr = instr]
      BY <2>2 DEF raw, instr
    <3> QED BY <1>1, <3>1, <3>2 DEF Call, Phases
  <2> QED BY <1>1, <2>1, <2>2, <2>3 DEF TypeOK, BusTyped, CpuTyped, TellsStep
<1>4. CASE Panic
  <2>1. call' \in Call /\ call'.phase = "panic" /\ pc' = pc
    BY <1>1, <1>4 DEF Panic, Call
  <2> QED BY <1>1, <2>1 DEF TypeOK, BusTyped, CpuTyped, TellsStep
<1> QED BY <1>2, <1>3, <1>4

\* An instruction that fails rewinds EIP and returns.
LEMMA RewindTyped ==
  ASSUME BusAssumption, LoopAssumption, TypeOK, call.phase # "fetch", Rewind
  PROVE  CpuTyped' /\ TellsStep
<1>1. pc' = call.at /\ call' = Returned(FALSE, 0) /\ call.at \in Pc
  BY DEF Rewind, TypeOK, Call
<1>2. call' \in Call /\ call'.ok = FALSE
  BY <1>1, ReturnedTyped, ReturnedSays
<1> QED BY <1>1, <1>2 DEF CpuTyped, TellsStep

\* An instruction that is done goes on with the next, or ends the batch.
LEMMA CompleteTyped ==
  ASSUME BusAssumption, LoopAssumption, TypeOK, NEW p \in Pc, Complete86(p)
  PROVE  CpuTyped' /\ TellsStep
<1>1. call \in Call /\ call.max \in Nat /\ call.count + 1 \in Nat
  BY DEF TypeOK, Call
<1>2. CASE call.count + 1 = call.max
  <2>1. pc' = p /\ call' = Returned(TRUE, call.count + 1)
    BY <1>2 DEF Complete86
  <2>2. call' \in Call /\ call'.ok = TRUE /\ call'.count = call.max
    BY <1>1, <1>2, <2>1, ReturnedTyped, ReturnedSays
  <2>3. call.max \in 1 .. call.max /\ ~(call.max < call.max)
    BY <1>1, <1>2 DEF TypeOK, Call
  <2> QED BY <2>1, <2>2, <2>3 DEF CpuTyped, TellsStep
<1>3. CASE call.count + 1 # call.max
  <2>1. /\ pc' = p
        /\ call' = [Returned(TRUE, call.count + 1) EXCEPT !.phase = "fetch", !.max = call.max]
    BY <1>3 DEF Complete86
  <2>2. call' \in Call /\ call'.phase = "fetch"
    BY <1>1, <2>1, GoesOn
  <2> QED BY <2>1, <2>2 DEF CpuTyped, TellsStep
<1> QED BY <1>2, <1>3

\* The instruction executes.
LEMMA ExecuteTyped ==
  ASSUME BusAssumption, LoopAssumption, TypeOK, Execute86
  PROVE  BusTyped' /\ CpuTyped' /\ TellsStep
<1>1. /\ call \in Call /\ pc \in Pc /\ BusTyped
      /\ call.phase = "execute" /\ call.phase # "fetch"
  BY DEF TypeOK, BusTyped, Execute86
<1>2. CASE (Complete86(pc) \/ \E p \in Targets : Complete86(p)) /\ UNCHANGED <<regions, heap>>
  BY <1>1, <1>2, CompleteTyped, RewindTyped DEF BusTyped, LoopAssumption
<1>3. ASSUME NEW p \in Pokes, heap' = HeapAfterPoke(p), UNCHANGED regions,
             Complete86(pc) \/ Rewind
      PROVE  BusTyped' /\ CpuTyped' /\ TellsStep
  BY <1>1, <1>3, CompleteTyped, RewindTyped, PokeTyped DEF BusTyped
<1>4. CASE Rewind /\ UNCHANGED <<regions, heap>>
  BY <1>1, <1>4, CompleteTyped, RewindTyped DEF BusTyped
<1>5. CASE /\ call' = [call EXCEPT !.phase = "interrupt hook", !.hook = 1]
           /\ UNCHANGED <<regions, heap, pc>>
  <2>1. call' \in Call /\ call'.phase = "interrupt hook"
    BY <1>1, <1>5 DEF Call, Phases
  <2> QED BY <1>1, <1>5, <2>1 DEF BusTyped, CpuTyped, TellsStep
<1> QED
  BY <1>2, <1>3, <1>4, <1>5 DEF Execute86

\* An interrupt hook runs.
LEMMA InterruptHookTyped ==
  ASSUME BusAssumption, LoopAssumption, TypeOK, InterruptHook86
  PROVE  BusTyped' /\ CpuTyped' /\ TellsStep
<1>1. BusTyped' /\ call.phase = "interrupt hook" /\ call.phase # "fetch"
  BY MeddleTyped DEF InterruptHook86, BusTyped, TypeOK
<1>2. PICK p \in PcAfter(IntHookMay) :
        \/ Complete86(p)
        \/ pc' = p /\ call' = [call EXCEPT !.hook = call.hook + 1]
        \/ Rewind
  BY DEF InterruptHook86
<1>3. p \in Pc
  BY PcAfterTyped DEF TypeOK
<1>4. CASE Complete86(p) \/ Rewind
  BY <1>1, <1>3, <1>4, CompleteTyped, RewindTyped
<1>5. CASE pc' = p /\ call' = [call EXCEPT !.hook = call.hook + 1]
  BY <1>1, <1>3, <1>5, NextHookTyped DEF CpuTyped, TellsStep
<1> QED BY <1>2, <1>4, <1>5

\* Every step is well typed, and a return tells how far the call came.
LEMMA NextTyped ==
  ASSUME BusAssumption, LoopAssumption, LengthAssumption, TypeOK, [Next]_vars
  PROVE  TypeOK' /\ (TellsStep \/ UNCHANGED vars)
<1>1. ASSUME BusTyped', CpuTyped', WinTyped' PROVE TypeOK'
  BY <1>1 DEF BusTyped, CpuTyped, WinTyped, TypeOK
<1>2. UNCHANGED win => WinTyped'
  BY DEF WinTyped, TypeOK
<1>3. CASE UNCHANGED vars
  BY <1>3 DEF vars, TypeOK
<1>4. CASE Host /\ UNCHANGED win
  BY <1>1, <1>2, <1>4, HostTyped
<1>5. ASSUME NEW max \in 0 .. MaxBatch, Begin(max) /\ UNCHANGED win
      PROVE  TypeOK' /\ TellsStep
  BY <1>1, <1>2, <1>5, BeginTyped
<1>6. CASE EnterWindow
  BY <1>1, <1>6, EnterTyped
<1>7. CASE CodeHook /\ UNCHANGED win
  BY <1>1, <1>2, <1>7, CodeHookTyped
<1>8. CASE ReadThroughSlice
  BY <1>1, <1>2, <1>8, ReadTyped DEF ReadThroughSlice
<1>9. CASE Execute86
  BY <1>1, <1>2, <1>9, ExecuteTyped DEF Execute86
<1>10. CASE InterruptHook86
  BY <1>1, <1>2, <1>10, InterruptHookTyped DEF InterruptHook86
<1> QED
  BY <1>3, <1>4, <1>5, <1>6, <1>7, <1>8, <1>9, <1>10 DEF Next, Step

-----------------------------------------------------------------------------
\* Every variable of the x86 engine stays in its type (x86/mod.rs).
THEOREM X86TypeCorrect ==
  ASSUME BusAssumption, LoopAssumption, LengthAssumption PROVE Spec => []TypeOK
<1>1. Init => TypeOK
  BY InitTyped
<1>2. TypeOK /\ [Next]_vars => TypeOK'
  BY NextTyped
<1> QED
  BY <1>1, <1>2, PTL DEF Spec

\* What a call of the x86 engine returns tells the host how far it came, for every
\* decoder and whatever hooks and branches do: an Ok counts at least one instruction
\* and no more than were asked for, fewer only behind a branch, and an Err leaves
\* EIP on the instruction that failed (x86/mod.rs, execute_one_extended and
\* step_batch).
THEOREM X86ReturnTellsHowFar ==
  ASSUME BusAssumption, LoopAssumption, LengthAssumption PROVE Spec => ReturnTellsHowFar
<1>1. TypeOK /\ [Next]_vars => TellsStep \/ UNCHANGED vars
  BY NextTyped
<1> QED
  BY <1>1, X86TypeCorrect, PTL DEF Spec, ReturnTellsHowFar, TellsStep
-----------------------------------------------------------------------------
(* What is decoded is what the bus holds.                                   *)

\* The instruction being entered lies in the RAM the slice is taken from, from the
\* moment its code hooks run until it is decoded.
SliceInv ==
    /\ TypeOK /\ Tidy(regions)
    /\ NullWindow(win) \/ InTable(regions, win)
    /\ call.phase \in {"code hook", "read"} => WindowOwns(regions, win, call.at)

\* What FetchesTheBus says of a step.
FetchStep ==
    call.phase = "read" =>
        \A i \in DOMAIN regions : InBuffer(i, call.at) =>
            LET n == Length[BusByte(i, call.at)]
            IN  IF call'.phase = "panic"
                THEN ~InBuffer(i, call.at + n - 1)
                ELSE \A k \in 1 .. n :
                        /\ InBuffer(i, call.at + k - 1)
                        /\ call'.raw[k] = BusByte(i, call.at + k - 1)

\* An EIP in the window is in the RAM the slice is taken from: behind the wrap of
\* the window's end there are fewer EIPs, never others.
LEMMA InsideIsOwned ==
  ASSUME BusAssumption, LoopAssumption, SliceInv, ~LeavesWindow
  PROVE  WindowOwns(regions, win, pc)
<1>1. ASSUME NEW N \in Nat \ {0}, NEW x \in Nat PROVE x % N \in Nat /\ x % N <= x
  <2>1. (x % N) \in 0 .. N - 1
    BY SMT
  <2>2. CASE x < N
    <3>1. x % N = x
      BY <2>2, SMT
    <3> QED BY <3>1
  <2>3. CASE ~(x < N)
    BY <2>1, <2>3
  <2> QED BY <2>2, <2>3
<1>2. /\ pc \in Nat /\ PcLimit \in Nat \ {0} /\ regions \in Seq(Region)
      /\ win.base \in Nat /\ win.len \in Nat
  <2>1. TypeOK
    BY DEF SliceInv
  <2>2. pc \in Pc /\ regions \in Seq(Region) /\ win.base \in Nat /\ win.len \in Nat
    BY <2>1 DEF TypeOK
  <2> QED BY <2>2 DEF Pc, LoopAssumption
<1> DEFINE end == (win.base + win.len) % PcLimit
<1>3. end \in Nat /\ end <= win.base + win.len
  <2> DEFINE sum == win.base + win.len
  <2>1. sum \in Nat
    BY <1>2
  <2> HIDE DEF sum
  <2>2. sum % PcLimit \in Nat /\ sum % PcLimit <= sum
    BY <1>1, <1>2, <2>1
  <2> QED BY <2>2 DEF sum
<1>4. pc >= win.base /\ pc < end
  <2>1. ~(pc < win.base) /\ ~(pc >= end)
    BY DEF LeavesWindow
  <2> HIDE DEF end
  <2> QED BY <1>2, <1>3, <2>1
<1>5. win.base <= pc /\ pc < win.base + win.len
  <2> HIDE DEF end
  <2> QED BY <1>2, <1>3, <1>4
<1>6. ~NullWindow(win)
  BY <1>2, <1>5 DEF NullWindow
<1>7. PICK j \in DOMAIN regions :
        /\ regions[j].kind = "ram" /\ win.buf = regions[j].buf
        /\ win.base = regions[j].start /\ win.len = regions[j].len
  BY <1>6 DEF SliceInv, InTable
<1>8. /\ regions[j].start \in Nat /\ regions[j].size \in Nat /\ regions[j].len \in Nat
      /\ regions[j].len <= regions[j].size
  BY <1>2, <1>7, RegionNumbers DEF SliceInv, Tidy, Fits
<1>9. j \in Owners(regions, pc)
  BY <1>2, <1>5, <1>7, <1>8 DEF Owners
<1> QED BY <1>7, <1>9 DEF WindowOwns

\* The step that decodes finds in the slice what the bus holds, and panics only
\* where the RAM ends too early.
LEMMA ReadFetches ==
  ASSUME BusAssumption, LoopAssumption, LengthAssumption, MaxLen < PcLimit, SliceInv,
         ReadThroughSlice
  PROVE  FetchStep
<1> SUFFICES ASSUME NEW i \in DOMAIN regions, InBuffer(i, call.at)
             PROVE  LET n == Length[BusByte(i, call.at)]
                    IN  IF call'.phase = "panic"
                        THEN ~InBuffer(i, call.at + n - 1)
                        ELSE \A k \in 1 .. n :
                                /\ InBuffer(i, call.at + k - 1)
                                /\ call'.raw[k] = BusByte(i, call.at + k - 1)
  BY DEF FetchStep
<1>1. /\ call \in Call /\ call.at \in Nat /\ call.at \in Addr /\ regions \in Seq(Region)
      /\ call.phase = "read" /\ WindowOwns(regions, win, call.at) /\ Tidy(regions)
      /\ PcLimit \in Nat \ {0} /\ ILen \in Nat \ {0} /\ MaxLen \in Nat
  BY DEF SliceInv, TypeOK, Call, Pc, Addr, LoopAssumption, BusAssumption, ReadThroughSlice
<1>2. /\ regions[i].kind = "ram" /\ win.buf = regions[i].buf
      /\ win.base = regions[i].start /\ win.len = regions[i].len
  BY <1>1, OwnerUnique DEF WindowOwns, InBuffer
<1> DEFINE s    == regions[i].start
           size == regions[i].size
           len  == regions[i].len
           off  == call.at - s
           mem  == heap[regions[i].buf]
           n    == Length[BusByte(i, call.at)]
<1>3. /\ s \in Nat /\ size \in Nat /\ len \in Nat /\ len <= size /\ len < PcLimit
      /\ s <= call.at /\ off < len
  <2>1. s \in Nat /\ size \in Nat /\ len \in 0 .. MaxLen /\ len <= size
    BY <1>1, RegionNumbers DEF Tidy, Fits
  <2>2. s <= call.at /\ off < len
    BY DEF InBuffer, Owners
  <2> QED BY <1>1, <2>1, <2>2
<1>4. off \in Nat /\ call.at = s + off
  BY <1>1, <1>3
<1>5. Available = len - off
  <2>1. ASSUME NEW N \in Nat \ {0}, NEW x \in 0 .. N - 1 PROVE x % N = x
    BY SMT
  <2>2. len - off \in 0 .. PcLimit - 1
    <3> HIDE DEF len, off
    <3> QED BY <1>1, <1>3, <1>4
  <2> QED BY <1>1, <1>2, <2>1, <2>2 DEF Available, Offset
<1>6. PICK w \in Word :
        /\ SliceHolds(w)
        /\ IF LengthOf(w) <= Available THEN Decoded86(w) ELSE Panic
  BY DEF ReadThroughSlice
<1>7. \A k \in 1 .. ILen : off + k <= len => w[k] = mem[off + k - 1]
  <2>1. WindowLive
    BY <1>2 DEF WindowLive
  <2> QED BY <1>2, <1>6, <2>1 DEF SliceHolds, Offset
<1>8. n = LengthOf(w) /\ n \in 1 .. ILen /\ n \in Nat
  <2>1. w[1] = mem[off]
    <3> HIDE DEF len, mem, off
    <3>1. 1 \in 1 .. ILen /\ off + 1 <= len /\ off + 1 - 1 = off
      BY <1>1, <1>3, <1>4
    <3>2. w[1] = mem[off + 1 - 1]
      BY <1>7, <3>1
    <3> QED BY <3>1, <3>2
  <2>2. BusByte(i, call.at) = w[1]
    BY <2>1 DEF BusByte
  <2> QED BY <2>2, TakenTyped DEF LengthOf
<1>9. \A k \in 1 .. n :
        /\ InBuffer(i, call.at + k - 1) <=> off + k <= len
        /\ BusByte(i, call.at + k - 1) = mem[off + k - 1]
  <2> SUFFICES ASSUME NEW k \in 1 .. n
               PROVE  /\ InBuffer(i, call.at + k - 1) <=> off + k <= len
                      /\ BusByte(i, call.at + k - 1) = mem[off + k - 1]
    OBVIOUS
  <2> DEFINE a == call.at + k - 1
  <2>1. k \in Nat /\ k >= 1
    BY <1>8
  <2>2. a - s = off + k - 1 /\ s <= a /\ (off + k <= len => a < s + size)
        /\ (off + k <= len <=> a - s < len)
    <3> HIDE DEF s, size, len, off
    <3> QED BY <1>1, <1>3, <1>4, <2>1
  <2>3. InBuffer(i, a) <=> s <= a /\ a < s + size /\ a - s < len
    <3> HIDE DEF a
    <3> QED BY <1>2 DEF InBuffer, Owners
  <2>4. BusByte(i, a) = mem[a - s]
    BY DEF BusByte
  <2> HIDE DEF s, size, len, off, mem, a
  <2> QED BY <2>2, <2>3, <2>4 DEF a
<1>10. CASE n <= len - off
  <2>1. Decoded86(w)
    BY <1>5, <1>6, <1>8, <1>10
  <2>2. call'.raw = Taken(w) /\ call'.phase = "execute"
    <3> DEFINE raw == Taken(w)
    <3> HIDE DEF raw
    <3> QED BY <1>1, <2>1 DEF Decoded86, Call, raw
  <2>3. ASSUME NEW k \in 1 .. n
        PROVE  InBuffer(i, call.at + k - 1) /\ call'.raw[k] = BusByte(i, call.at + k - 1)
    <3>1. k \in 1 .. ILen /\ k <= n /\ off + k <= len
      <4> HIDE DEF len, off, n
      <4> QED BY <1>1, <1>3, <1>4, <1>8, <1>10
    <3>2. Taken(w)[k] = w[k]
      BY <1>8, <3>1 DEF Taken
    <3>3. w[k] = mem[off + k - 1]
      <4> HIDE DEF len, off, mem
      <4> QED BY <1>7, <3>1
    <3> QED BY <1>9, <2>2, <3>1, <3>2, <3>3
  <2> QED BY <2>2, <2>3
<1>11. CASE ~(n <= len - off)
  <2>1. Panic
    BY <1>5, <1>6, <1>8, <1>11
  <2>2. call'.phase = "panic"
    BY <1>1, <2>1 DEF Panic, Call
  <2>3. n \in 1 .. n /\ ~(off + n <= len)
    <3> HIDE DEF len, off, n
    <3> QED BY <1>3, <1>4, <1>8, <1>11
  <2>4. ~InBuffer(i, call.at + n - 1)
    BY <1>9, <2>3
  <2> QED BY <2>2, <2>4
<1> QED BY <1>10, <1>11
\* SliceInv goes on when the table grows and the window stays, or the window is
\* taken anew.
LEMMA SliceInvFrom ==
  ASSUME BusAssumption, LoopAssumption, SliceInv, TypeOK', UNCHANGED win,
         UNCHANGED regions \/ \E powers : "unmap" \notin powers /\ Meddle(powers),
         \/ call'.phase \notin {"code hook", "read"}
         \/ call.phase \in {"code hook", "read"} /\ call'.at = call.at
  PROVE  SliceInv'
<1>1. /\ regions \in Seq(Region) /\ Tidy(regions)
      /\ NullWindow(win) \/ InTable(regions, win)
      /\ call.phase \in {"code hook", "read"} => WindowOwns(regions, win, call.at)
  BY DEF SliceInv, TypeOK
<1> DEFINE new == regions'
<1>2. /\ Tidy(new)
      /\ \A i \in DOMAIN regions : \E j \in DOMAIN new : new[j] = regions[i]
  <2>1. CASE UNCHANGED regions
    BY <1>1, <2>1
  <2>2. ASSUME NEW powers, "unmap" \notin powers, Meddle(powers)
        PROVE  /\ Tidy(new)
               /\ \A i \in DOMAIN regions : \E j \in DOMAIN new : new[j] = regions[i]
    BY <1>1, <2>2, MeddleKeepsTidy, MeddleKeepsRegions
  <2> QED BY <2>1, <2>2
<1> HIDE DEF new
<1>3. /\ InTable(regions, win) => InTable(new, win)
      /\ \A a : WindowOwns(regions, win, a) => WindowOwns(new, win, a)
  BY <1>2, WindowStays
<1> QED BY <1>1, <1>2, <1>3 DEF SliceInv, new

\* Entering an instruction takes the slice from the RAM that owns it.
LEMMA EnterKeepsSlice ==
  ASSUME BusAssumption, LoopAssumption, SliceInv, TypeOK', EnterWindow
  PROVE  SliceInv'
<1>1. /\ call \in Call /\ Tidy(regions) /\ UNCHANGED regions
      /\ NullWindow(win) \/ InTable(regions, win)
  BY DEF SliceInv, TypeOK, EnterWindow, Proceed, Fail
<1>2. ASSUME Proceed, WindowOwns(regions, win', pc) PROVE SliceInv'
  <2>1. call'.at = pc
    BY <1>1, <1>2 DEF Proceed, Call
  <2>2. InTable(regions, win')
    BY <1>2 DEF WindowOwns, InTable, Owners
  <2> QED BY <1>1, <1>2, <2>1, <2>2 DEF SliceInv
<1>3. CASE ~LeavesWindow /\ Proceed /\ UNCHANGED win
  BY <1>2, <1>3, InsideIsOwned
<1>4. CASE LeavesWindow /\ Refresh /\ Proceed
  <2>1. WindowOwns(regions, win', pc)
    BY <1>4 DEF Refresh, WindowOwns
  <2> QED BY <1>2, <1>4, <2>1
<1>5. CASE Fail /\ UNCHANGED win
  <2>1. call'.phase = "idle"
    BY <1>5, ReturnedSays DEF Fail
  <2> QED BY <1>1, <1>5, <2>1 DEF SliceInv
<1> QED BY <1>3, <1>4, <1>5 DEF EnterWindow

\* However an instruction ends, no other is being entered yet.
LEMMA EndsOutside ==
  ASSUME BusAssumption, LoopAssumption, TypeOK, NEW p, Complete86(p) \/ Rewind
  PROVE  call'.phase \notin {"code hook", "read"}
<1>1. call.count + 1 \in Nat /\ call.max \in Nat
  BY DEF TypeOK, Call
<1>2. CASE Rewind
  BY <1>2, ReturnedSays DEF Rewind
<1>3. CASE Complete86(p)
  <2>1. \/ call' = Returned(TRUE, call.count + 1)
        \/ call' = [Returned(TRUE, call.count + 1) EXCEPT !.phase = "fetch", !.max = call.max]
    BY <1>3 DEF Complete86
  <2>2. Returned(TRUE, call.count + 1).phase = "idle"
    BY DEF Returned
  <2>3. [Returned(TRUE, call.count + 1) EXCEPT !.phase = "fetch", !.max = call.max].phase = "fetch"
    BY <1>1, GoesOn
  <2> QED BY <2>1, <2>2, <2>3
<1> QED BY <1>2, <1>3

\* Every step keeps the slice where the instruction is, and decodes what the bus
\* holds.
LEMMA NextFetches ==
  ASSUME BusAssumption, LoopAssumption, LengthAssumption, NobodyUnmaps, MaxLen < PcLimit,
         SliceInv, [Next]_vars
  PROVE  SliceInv' /\ (FetchStep \/ UNCHANGED vars)
<1>1. TypeOK' /\ TypeOK /\ call \in Call
  BY NextTyped DEF SliceInv, TypeOK
<1>2. \A powers \in {HostMay, CodeHookMay, IntHookMay} : "unmap" \notin powers
  BY DEF NobodyUnmaps
<1>3. CASE UNCHANGED vars
  <2>1. UNCHANGED <<regions, call, win>>
    BY <1>3 DEF vars
  <2> QED BY <1>1, <1>3, <2>1 DEF SliceInv
<1>4. call.phase # "read" => FetchStep
  BY DEF FetchStep
<1>5. CASE Host /\ UNCHANGED win
  BY <1>1, <1>2, <1>4, <1>5, SliceInvFrom DEF Host
<1>6. ASSUME NEW max \in 0 .. MaxBatch, Begin(max), UNCHANGED win
      PROVE  SliceInv' /\ FetchStep
  <2>1. call'.phase \notin {"code hook", "read"}
    <3>1. Returned(TRUE, 0).phase = "idle"
      BY DEF Returned
    <3>2. [Returned(TRUE, 0) EXCEPT !.phase = "fetch", !.max = max, !.from = pc].phase = "fetch"
      BY DEF Returned
    <3> QED BY <1>6, <3>1, <3>2 DEF Begin
  <2> QED BY <1>1, <1>4, <1>6, <2>1, SliceInvFrom DEF Begin
<1>7. CASE EnterWindow
  BY <1>1, <1>4, <1>7, EnterKeepsSlice DEF EnterWindow
<1>8. CASE CodeHook /\ UNCHANGED win
  <2>1. call.phase = "code hook" /\ Meddle(CodeHookMay)
    BY <1>8 DEF CodeHook
  <2>2. call'.phase \notin {"code hook", "read"} \/ call'.at = call.at
    <3>1. CASE call' = Returned(FALSE, 0)
      BY <3>1, ReturnedSays
    <3>2. CASE \/ call' = [call EXCEPT !.hook = call.hook + 1]
               \/ call' = [call EXCEPT !.hook = 0, !.phase = "read"]
      BY <1>1, <3>2 DEF Call
    <3> QED BY <1>8, <3>1, <3>2 DEF CodeHook
  <2> QED BY <1>1, <1>2, <1>4, <1>8, <2>1, <2>2, SliceInvFrom
<1>9. CASE ReadThroughSlice
  <2>1. UNCHANGED <<regions, win>>
    BY <1>9 DEF ReadThroughSlice
  <2>2. PICK w \in Word : Decoded86(w) \/ Panic
    BY <1>9 DEF ReadThroughSlice
  <2>3. CASE Panic
    <3>1. call'.phase = "panic"
      BY <1>1, <2>3 DEF Panic, Call
    <3> QED BY <1>1, <1>9, <2>1, <3>1, ReadFetches, SliceInvFrom
  <2>4. CASE Decoded86(w)
    <3> DEFINE raw == Taken(w)
    <3> HIDE DEF raw
    <3>1. call'.phase = "execute"
      BY <1>1, <2>4 DEF Decoded86, Call, raw
    <3> QED BY <1>1, <1>9, <2>1, <3>1, ReadFetches, SliceInvFrom
  <2> QED BY <2>2, <2>3, <2>4
<1>10. CASE Execute86
  <2>1. UNCHANGED <<regions, win>> /\ call.phase = "execute"
    BY <1>10 DEF Execute86
  <2>2. CASE \E p : Complete86(p) \/ Rewind
    BY <1>1, <1>4, <2>1, <2>2, EndsOutside, SliceInvFrom
  <2>3. CASE call' = [call EXCEPT !.phase = "interrupt hook", !.hook = 1]
    <3>1. call'.phase = "interrupt hook"
      BY <1>1, <2>3 DEF Call
    <3> QED BY <1>1, <1>4, <2>1, <3>1, SliceInvFrom
  <2> QED BY <1>10, <2>2, <2>3 DEF Execute86
<1>11. CASE InterruptHook86
  <2>1. Meddle(IntHookMay) /\ UNCHANGED win /\ call.phase = "interrupt hook"
    BY <1>11 DEF InterruptHook86
  <2>2. CASE \E p : Complete86(p) \/ Rewind
    BY <1>1, <1>2, <1>4, <2>1, <2>2, EndsOutside, SliceInvFrom
  <2>3. CASE call' = [call EXCEPT !.hook = call.hook + 1]
    <3>1. call'.phase = "interrupt hook"
      BY <1>1, <2>1, <2>3, NextHookTyped
    <3> QED BY <1>1, <1>2, <1>4, <2>1, <3>1, SliceInvFrom
  <2> QED BY <1>11, <2>2, <2>3 DEF InterruptHook86
<1> QED
  BY <1>3, <1>5, <1>6, <1>7, <1>8, <1>9, <1>10, <1>11 DEF Next, Step

\* The window and the slice of the x86 engine (x86/mod.rs, refresh_fetch_ptr and
\* step_batch) do not show while nobody unmaps and no RAM is longer than EIP can
\* count: the bytes decoded are those the bus holds from EIP on when the hooks are
\* done, and the decoder panics only at an instruction its RAM does not hold whole.
THEOREM X86FetchesTheBus ==
  ASSUME NobodyUnmaps, MaxLen < PcLimit
  PROVE  Spec => FetchesTheBus
<1>1. Init => SliceInv
  <2> SUFFICES ASSUME Init PROVE SliceInv
    OBVIOUS
  <2>1. regions = <<>> /\ NullWindow(win) /\ call.phase = "idle"
    BY ReturnedSays DEF Init, LoopInit, NullWindow
  <2> QED
    BY <2>1, InitTyped, BusAssumption, LoopAssumption DEF SliceInv, Tidy
<1>2. SliceInv /\ [Next]_vars => SliceInv' /\ (FetchStep \/ UNCHANGED vars)
  BY NextFetches, BusAssumption, LoopAssumption, LengthAssumption, NobodyUnmaps, MaxLen < PcLimit
<1>3. FetchesTheBus <=> [][FetchStep]_vars
  BY DEF FetchesTheBus, FetchStep
<1> QED
  BY <1>1, <1>2, <1>3, PTL DEF Spec
=============================================================================
