------------------------- MODULE FetchEngineProofs --------------------------
(***************************************************************************)
(* Theorems about FetchEngine for every value of its constants: any number *)
(* of hooks with any powers, any decoder, any size of the decode cache.    *)
(***************************************************************************)
EXTENDS FetchEngine, StepLoopProofs

-----------------------------------------------------------------------------
(* Small facts about the loop's values                                     *)

\* Every PC has a slot in the decode cache.
LEMMA SlotTyped ==
  ASSUME LoopAssumption, CacheAssumption, NEW p \in Pc
  PROVE  SlotOf(p) \in Slot
<1>1. ASSUME NEW N \in Nat \ {0}, NEW x \in Nat PROVE x % N \in 0 .. N - 1 /\ x \div N \in Nat
  BY SMT
<1>2. p \in Nat /\ ILen \in Nat \ {0}
  BY DEF Pc, LoopAssumption
<1>3. p \div ILen \in Nat
  BY <1>1, <1>2
<1> QED
  BY <1>1, <1>3 DEF SlotOf, Slot, CacheAssumption

\* What a call returns is a value of the call variable.
LEMMA ReturnedTyped ==
  ASSUME BusAssumption, LoopAssumption, NEW ok \in BOOLEAN, NEW count \in Nat
  PROVE  Returned(ok, count) \in Call
<1>1. NoWord \in Word /\ 0 \in Pc
  BY DEF NoWord, Word, Pc, BusAssumption, LoopAssumption
<1> QED
  BY <1>1 DEF Returned, Call, Phases, Instr

\* How the execution of an instruction ends.
LEMMA EndTypes ==
  ASSUME BusAssumption, LoopAssumption, TypeOK, NEW p \in Pc, Complete(p) \/ Rewind
  PROVE  pc' \in Pc /\ call' \in Call
<1>1. call \in Call /\ call.at \in Pc /\ call.max \in Nat /\ call.count + 1 \in Nat
      /\ call.from \in Pc
  BY DEF TypeOK, Call
<1>2. CASE Rewind
  BY <1>1, <1>2, ReturnedTyped DEF Rewind
<1>3. CASE Complete(p)
  <2> DEFINE ret == Returned(TRUE, call.count + 1)
  <2>1. ret \in Call
    BY <1>1, ReturnedTyped
  <2> HIDE DEF ret
  <2>2. call' = ret \/ call' = [ret EXCEPT !.phase = "fetch", !.max = call.max, !.from = call.from]
    BY <1>3 DEF Complete, ret
  <2>3. [ret EXCEPT !.phase = "fetch", !.max = call.max, !.from = call.from] \in Call
    BY <1>1, <2>1 DEF Call, Phases
  <2> QED BY <1>3, <2>1, <2>2, <2>3 DEF Complete
<1> QED BY <1>2, <1>3

-----------------------------------------------------------------------------
(* Type correctness, one lemma per action                                  *)

BusTyped == regions \in Seq(Region) /\ heap \in [Buf -> Content]
CpuTyped == pc \in Pc /\ call \in Call
EngineTyped ==
    /\ win \in [buf : Buf \cup {NoBuf}, base : Nat, len : Nat]
    /\ cache \in [Slot -> Entry]

\* The initial state is well typed.
LEMMA InitTyped ==
  ASSUME BusAssumption, LoopAssumption, CacheAssumption, Init
  PROVE  TypeOK
<1>1. Zeroed \in Content /\ <<>> \in Seq(Region)
  BY DEF Zeroed, Content, BusAssumption
<1>2. 0 \in Pc /\ call \in Call
  <2>1. 0 \in Pc
    BY DEF Pc, LoopAssumption
  <2>2. Returned(TRUE, 0) \in Call
    BY ReturnedTyped
  <2> QED BY <2>1, <2>2 DEF Init, LoopInit
<1>3. EmptyEntry \in Entry
  BY DEF EmptyEntry, EmptyTag, Entry, Pc, Instr, NoWord, Word, LoopAssumption, BusAssumption
<1> QED
  BY <1>1, <1>2, <1>3 DEF Init, LoopInit, TypeOK

\* Between two calls.
LEMMA HostTyped ==
  ASSUME BusAssumption, LoopAssumption, TypeOK, Host
  PROVE  BusTyped' /\ CpuTyped'
BY MeddleTyped, PcAfterTyped DEF Host, TypeOK, BusTyped, CpuTyped

\* A call begins.
LEMMA BeginTyped ==
  ASSUME BusAssumption, LoopAssumption, TypeOK, NEW max \in 0 .. MaxBatch, Begin(max)
  PROVE  BusTyped' /\ CpuTyped'
<1>1. UNCHANGED <<regions, heap, pc>>
  BY DEF Begin
<1>2. call' \in Call
  <2> DEFINE ret == Returned(TRUE, 0)
  <2>1. ret \in Call
    BY ReturnedTyped
  <2> HIDE DEF ret
  <2>2. call' = ret \/ call' = [ret EXCEPT !.phase = "fetch", !.max = max, !.from = pc]
    BY DEF Begin, ret
  <2>3. max \in Nat /\ pc \in Pc
    BY DEF LoopAssumption, TypeOK
  <2> QED BY <2>1, <2>2, <2>3 DEF Call, Phases
<1> QED BY <1>1, <1>2 DEF TypeOK, BusTyped, CpuTyped

\* An instruction is entered, through the window or after a refresh.
LEMMA EnterTyped ==
  ASSUME BusAssumption, LoopAssumption, TypeOK, EnterWindow
  PROVE  BusTyped' /\ CpuTyped' /\ EngineTyped'
<1>1. UNCHANGED <<regions, heap, pc, cache>>
  BY DEF EnterWindow, Proceed, Fail
<1>2. call' \in Call
  <2>1. CASE Proceed
    BY <2>1 DEF Proceed, TypeOK, Call, Phases
  <2>2. CASE Fail
    BY <2>2, ReturnedTyped DEF Fail
  <2> QED BY <2>1, <2>2 DEF EnterWindow
<1>3. win' \in [buf : Buf \cup {NoBuf}, base : Nat, len : Nat]
  <2>1. CASE UNCHANGED win
    BY <2>1 DEF TypeOK
  <2>2. CASE Refresh
    <3>1. PICK i \in Owners(regions, pc) :
            win' = [buf |-> regions[i].buf, base |-> regions[i].start, len |-> regions[i].len]
      BY <2>2 DEF Refresh
    <3>2. i \in DOMAIN regions
      BY DEF Owners
    <3>3. regions[i] \in Region
      BY <3>2 DEF TypeOK
    <3>4. /\ regions[i].buf \in Buf \cup {NoBuf}
          /\ regions[i].start \in Nat /\ regions[i].len \in Nat
      BY <3>3 DEF Region, Addr, BusAssumption
    <3> QED BY <3>1, <3>4
  <2> QED BY <2>1, <2>2 DEF EnterWindow
<1> QED BY <1>1, <1>2, <1>3 DEF TypeOK, BusTyped, CpuTyped, EngineTyped

\* The next hook's turn.
LEMMA NextHookTyped ==
  ASSUME TypeOK
  PROVE  [call EXCEPT !.hook = call.hook + 1] \in Call
<1>1. call \in Call
  BY DEF TypeOK
<1>2. call.hook + 1 \in Nat
  BY <1>1 DEF Call
<1> QED BY <1>1, <1>2 DEF Call

\* A code hook runs.
LEMMA CodeHookTyped ==
  ASSUME BusAssumption, LoopAssumption, TypeOK, CodeHook
  PROVE  BusTyped' /\ CpuTyped'
<1>1. BusTyped' /\ pc' \in Pc
  BY MeddleTyped, PcAfterTyped DEF CodeHook, TypeOK, BusTyped
<1>2. call' \in Call
  <2>1. CASE call' = [call EXCEPT !.hook = call.hook + 1]
    BY <2>1, NextHookTyped
  <2>2. CASE call' = [call EXCEPT !.hook = 0, !.phase = "read"]
    BY <2>2 DEF TypeOK, Call, Phases
  <2>3. CASE call' = Returned(FALSE, 0)
    BY <2>3, ReturnedTyped
  <2> QED BY <2>1, <2>2, <2>3 DEF CodeHook
<1> QED BY <1>1, <1>2 DEF CpuTyped

\* The raw word is a word even when the pointer dangles.
LEMMA PointerReadsTyped ==
  ASSUME BusAssumption, LoopAssumption, TypeOK
  PROVE  PointerReads \subseteq Word
<1> DEFINE off == call.at - win.base
<1>1. CASE win.buf # NoBuf /\ WindowLive /\ off >= 0 /\ off + ILen <= win.len
  <2>1. win.buf \in Buf /\ win.len \in 0 .. MaxLen /\ off \in Nat
    <3>1. PICK i \in DOMAIN regions : regions[i].len = win.len
      BY <1>1 DEF WindowLive
    <3>2. regions[i] \in Region
      BY <3>1 DEF TypeOK
    <3>3. call.at \in Nat /\ win.base \in Nat
      BY DEF TypeOK, Call, Pc
    <3> QED BY <1>1, <3>1, <3>2, <3>3 DEF TypeOK, Region
  <2>2. heap[win.buf] \in Content
    BY <2>1 DEF TypeOK
  <2> HIDE DEF off
  <2>3. ASSUME NEW k \in 1 .. ILen PROVE heap[win.buf][off + k - 1] \in Byte
    BY <1>1, <2>1, <2>2 DEF Content, LoopAssumption, BusAssumption
  <2>4. BytesAt(heap[win.buf], off, ILen) \in Word
    BY <2>3 DEF BytesAt, Word
  <2> QED BY <1>1, <2>4 DEF PointerReads, off
<1>2. CASE ~(win.buf # NoBuf /\ WindowLive /\ off >= 0 /\ off + ILen <= win.len)
  BY <1>2 DEF PointerReads
<1> QED BY <1>1, <1>2

\* The instruction is read and decoded, from the cache or afresh.
LEMMA ReadTyped ==
  ASSUME BusAssumption, LoopAssumption, CacheAssumption, TypeOK, ReadThroughPointer
  PROVE  BusTyped' /\ CpuTyped' /\ EngineTyped'
<1>1. call \in Call /\ call.at \in Pc /\ SlotOf(call.at) \in Slot
  BY SlotTyped DEF TypeOK, Call
<1>2. PICK raw \in PointerReads :
        \/ Decoded(raw, cache[SlotOf(call.at)].instr) /\ UNCHANGED cache
        \/ /\ Decoded(raw, Decode[raw])
           /\ cache' = [cache EXCEPT ![SlotOf(call.at)] =
                          [tag |-> call.at, raw |-> raw, instr |-> Decode[raw]]]
  BY DEF ReadThroughPointer
<1>3. raw \in Word /\ Decode[raw] \in Instr
  BY PointerReadsTyped DEF LoopAssumption
<1>4. cache[SlotOf(call.at)].instr \in Instr
  BY <1>1 DEF TypeOK, Entry
<1>5. ASSUME NEW instr \in Instr, Decoded(raw, instr)
      PROVE  BusTyped' /\ CpuTyped'
  <2>1. call' \in Call
    BY <1>1, <1>3, <1>5 DEF Decoded, Call, Phases
  <2>2. pc' \in Pc
    BY <1>1, <1>5, NextPcTyped DEF Decoded
  <2> QED BY <1>5, <2>1, <2>2 DEF Decoded, BusTyped, CpuTyped, TypeOK
<1>6. EngineTyped'
  <2>1. [tag |-> call.at, raw |-> raw, instr |-> Decode[raw]] \in Entry
    BY <1>1, <1>3 DEF Entry
  <2>2. cache' \in [Slot -> Entry]
    BY <1>1, <1>2, <2>1 DEF TypeOK
  <2> QED BY <2>2 DEF ReadThroughPointer, EngineTyped, TypeOK
<1> QED BY <1>2, <1>3, <1>4, <1>5, <1>6

\* The instruction executes.
LEMMA ExecuteTyped ==
  ASSUME BusAssumption, LoopAssumption, TypeOK, Execute
  PROVE  BusTyped' /\ CpuTyped'
<1>1. call \in Call /\ pc \in Pc /\ BusTyped
  BY DEF TypeOK, BusTyped
<1>2. CASE (Complete(pc) \/ \E p \in Targets : Complete(p)) /\ UNCHANGED <<regions, heap>>
  BY <1>1, <1>2, EndTypes DEF BusTyped, CpuTyped, LoopAssumption
<1>3. ASSUME NEW p \in Pokes, heap' = HeapAfterPoke(p), UNCHANGED regions,
             Complete(pc) \/ Rewind
      PROVE  BusTyped' /\ CpuTyped'
  BY <1>1, <1>3, EndTypes, PokeTyped DEF BusTyped, CpuTyped
<1>4. CASE Rewind /\ UNCHANGED <<regions, heap>>
  BY <1>1, <1>4, EndTypes DEF BusTyped, CpuTyped
<1>5. CASE /\ call' = [call EXCEPT !.phase = "interrupt hook", !.hook = 1]
           /\ UNCHANGED <<regions, heap, pc>>
  BY <1>1, <1>5 DEF BusTyped, CpuTyped, Call, Phases
<1> QED
  BY <1>2, <1>3, <1>4, <1>5 DEF Execute

\* An interrupt hook runs.
LEMMA InterruptHookTyped ==
  ASSUME BusAssumption, LoopAssumption, TypeOK, InterruptHook
  PROVE  BusTyped' /\ CpuTyped'
<1>1. BusTyped'
  BY MeddleTyped DEF InterruptHook, BusTyped, TypeOK
<1>2. PICK p \in PcAfter(IntHookMay) :
        \/ Complete(p)
        \/ pc' = p /\ call' = [call EXCEPT !.hook = call.hook + 1]
        \/ Rewind
  BY DEF InterruptHook
<1>3. p \in Pc
  BY PcAfterTyped DEF TypeOK
<1>4. CASE Complete(p) \/ Rewind
  BY <1>1, <1>3, <1>4, EndTypes DEF CpuTyped
<1>5. CASE pc' = p /\ call' = [call EXCEPT !.hook = call.hook + 1]
  BY <1>1, <1>3, <1>5, NextHookTyped DEF CpuTyped
<1> QED BY <1>2, <1>4, <1>5

\* Every step is well typed.
LEMMA NextTyped ==
  ASSUME BusAssumption, LoopAssumption, CacheAssumption, TypeOK, [Next]_vars
  PROVE  TypeOK'
<1>1. ASSUME BusTyped', CpuTyped', EngineTyped' PROVE TypeOK'
  BY <1>1 DEF BusTyped, CpuTyped, EngineTyped, TypeOK
<1>2. UNCHANGED engineVars => EngineTyped'
  BY DEF engineVars, EngineTyped, TypeOK
<1>3. CASE UNCHANGED vars
  BY <1>3 DEF vars, TypeOK
<1>4. CASE Host /\ UNCHANGED engineVars
  BY <1>1, <1>2, <1>4, HostTyped
<1>5. ASSUME NEW max \in 0 .. MaxBatch, Begin(max) /\ UNCHANGED engineVars PROVE TypeOK'
  BY <1>1, <1>2, <1>5, BeginTyped
<1>6. CASE EnterWindow
  BY <1>1, <1>6, EnterTyped
<1>7. CASE CodeHook /\ UNCHANGED engineVars
  BY <1>1, <1>2, <1>7, CodeHookTyped
<1>8. CASE ReadThroughPointer
  BY <1>1, <1>8, ReadTyped
<1>9. CASE Execute /\ UNCHANGED engineVars
  BY <1>1, <1>2, <1>9, ExecuteTyped
<1>10. CASE InterruptHook /\ UNCHANGED engineVars
  BY <1>1, <1>2, <1>10, InterruptHookTyped
<1> QED
  BY <1>3, <1>4, <1>5, <1>6, <1>7, <1>8, <1>9, <1>10 DEF Next, Step

\* Type correctness of the engine: whatever hooks and host do, the PC stays in
\* range and every cache slot holds an entry.
THEOREM EngineTypeCorrect == Spec => []TypeOK
<1>1. Init => TypeOK
  BY InitTyped, BusAssumption, LoopAssumption, CacheAssumption
<1>2. TypeOK /\ [Next]_vars => TypeOK'
  BY NextTyped, BusAssumption, LoopAssumption, CacheAssumption
<1> QED BY <1>1, <1>2, PTL DEF Spec

-----------------------------------------------------------------------------
(* The decode cache never shows.  ExecutesWhatWasRead is not inductive by   *)
(* itself: it needs to know that every slot is sound, not only the one the  *)
(* current instruction hit.                                                 *)

\* A slot holds a word with its decoding, or is still empty.
CacheSound ==
    \A s \in Slot :
        \/ cache[s].instr = Decode[cache[s].raw]
        \/ cache[s].tag = EmptyTag /\ cache[s].raw = NoWord

CacheInv == TypeOK /\ CacheSound /\ ExecutesWhatWasRead

\* Reading an instruction, hit or miss, leaves the cache sound and hands out the
\* decoding of the word.
LEMMA ReadKeepsCacheInv ==
  ASSUME BusAssumption, LoopAssumption, CacheAssumption, CacheInv, ReadThroughPointer
  PROVE  CacheSound' /\ ExecutesWhatWasRead'
<1> DEFINE s == SlotOf(call.at)
<1>1. s \in Slot /\ call \in Call /\ cache \in [Slot -> Entry]
  BY SlotTyped DEF CacheInv, TypeOK, Call
<1>2. PICK raw \in PointerReads :
        \/ Hit(raw) /\ Decoded(raw, cache[s].instr) /\ UNCHANGED cache
        \/ /\ Decoded(raw, Decode[raw])
           /\ cache' = [cache EXCEPT ![s] =
                          [tag |-> call.at, raw |-> raw, instr |-> Decode[raw]]]
  BY DEF ReadThroughPointer
<1> HIDE DEF s
<1>3. CASE Hit(raw) /\ Decoded(raw, cache[s].instr) /\ UNCHANGED cache
  <2>1. cache[s].tag = call.at /\ cache[s].raw = raw
    BY <1>3 DEF Hit, s
  <2>2. call'.raw = raw /\ call'.instr = cache[s].instr /\ call'.at = call.at
    BY <1>1, <1>3 DEF Decoded, Call
  <2>3. ExecutesWhatWasRead'
    BY <1>1, <2>1, <2>2 DEF CacheInv, CacheSound, ExecutesWhatWasRead
  <2> QED BY <1>3, <2>3 DEF CacheInv, CacheSound
<1>4. CASE /\ Decoded(raw, Decode[raw])
           /\ cache' = [cache EXCEPT ![s] =
                          [tag |-> call.at, raw |-> raw, instr |-> Decode[raw]]]
  <2>1. call'.raw = raw /\ call'.instr = Decode[raw]
    BY <1>1, <1>4 DEF Decoded, Call
  <2>2. CacheSound'
    BY <1>1, <1>4 DEF CacheInv, CacheSound
  <2> QED BY <2>1, <2>2 DEF ExecutesWhatWasRead
<1> QED BY <1>2, <1>3, <1>4

\* Every other step leaves the cache alone and hands the instruction on unchanged,
\* or ends it.
LEMMA OthersKeepCacheInv ==
  ASSUME CacheInv, UNCHANGED cache,
         \/ UNCHANGED call
         \/ call'.phase \notin {"execute", "interrupt hook"}
         \/ /\ call.phase \in {"execute", "interrupt hook"}
            /\ call'.raw = call.raw /\ call'.instr = call.instr /\ call'.at = call.at
  PROVE  CacheSound' /\ ExecutesWhatWasRead'
BY DEF CacheInv, CacheSound, ExecutesWhatWasRead

\* Every step keeps the cache invariant.
LEMMA NextKeepsCacheInv ==
  ASSUME BusAssumption, LoopAssumption, CacheAssumption, CacheInv, [Next]_vars
  PROVE  CacheInv'
<1>1. TypeOK'
  BY NextTyped DEF CacheInv
<1> SUFFICES CacheSound' /\ ExecutesWhatWasRead'
  BY <1>1 DEF CacheInv
<1>2. call \in Call
  BY DEF CacheInv, TypeOK
<1>3. \A ok, count : Returned(ok, count).phase = "idle"
  BY DEF Returned
<1>4. \A ok, count, max, from :
        [Returned(ok, count) EXCEPT !.phase = "fetch", !.max = max, !.from = from].phase
            = "fetch"
  BY DEF Returned
<1>5. ASSUME NEW p, Complete(p) \/ Rewind
      PROVE  call'.phase \notin {"execute", "interrupt hook"}
  <2>1. CASE Rewind
    BY <1>3, <2>1 DEF Rewind
  <2>2. CASE Complete(p)
    <3> DEFINE ret == Returned(TRUE, call.count + 1)
    <3>1. \/ call' = ret
          \/ call' = [ret EXCEPT !.phase = "fetch", !.max = call.max, !.from = call.from]
      BY <2>2 DEF Complete
    <3>2. /\ ret.phase = "idle"
          /\ [ret EXCEPT !.phase = "fetch", !.max = call.max, !.from = call.from].phase = "fetch"
      BY DEF Returned
    <3> QED BY <3>1, <3>2
  <2> QED BY <1>5, <2>1, <2>2
<1>6. CASE UNCHANGED vars
  BY <1>6, OthersKeepCacheInv DEF vars
<1>7. CASE Host /\ UNCHANGED engineVars
  BY <1>7, OthersKeepCacheInv DEF Host, engineVars
<1>8. ASSUME NEW max \in 0 .. MaxBatch, Begin(max) /\ UNCHANGED engineVars
      PROVE  CacheSound' /\ ExecutesWhatWasRead'
  BY <1>3, <1>4, <1>8, OthersKeepCacheInv DEF Begin, engineVars
<1>9. CASE EnterWindow
  BY <1>2, <1>3, <1>9, OthersKeepCacheInv DEF EnterWindow, Proceed, Fail, Call
<1>10. CASE CodeHook /\ UNCHANGED engineVars
  BY <1>2, <1>3, <1>10, OthersKeepCacheInv DEF CodeHook, engineVars, Call
<1>11. CASE ReadThroughPointer
  BY <1>11, ReadKeepsCacheInv
<1>12. CASE Execute /\ UNCHANGED engineVars
  <2>1. \/ call'.phase \notin {"execute", "interrupt hook"}
        \/ /\ call'.raw = call.raw /\ call'.instr = call.instr /\ call'.at = call.at
    BY <1>2, <1>5, <1>12 DEF Execute, Call
  <2> QED BY <1>12, <2>1, OthersKeepCacheInv DEF Execute, engineVars
<1>13. CASE InterruptHook /\ UNCHANGED engineVars
  <2>1. \/ call'.phase \notin {"execute", "interrupt hook"}
        \/ /\ call'.raw = call.raw /\ call'.instr = call.instr /\ call'.at = call.at
    BY <1>2, <1>5, <1>13 DEF InterruptHook, Call
  <2> QED BY <1>13, <2>1, OthersKeepCacheInv DEF InterruptHook, engineVars
<1> QED
  BY <1>6, <1>7, <1>8, <1>9, <1>10, <1>11, <1>12, <1>13 DEF Next, Step

\* What executes is the decoding of the word that was read for it, in every
\* reachable state: under any overwriting, remapping and replacing of the code, for
\* any decoder and any size of the cache.
THEOREM DecodeCacheIsInvisible == Spec => []ExecutesWhatWasRead
<1>1. Init => CacheInv
  <2> SUFFICES ASSUME Init PROVE CacheInv
    OBVIOUS
  <2>1. TypeOK
    BY InitTyped, BusAssumption, LoopAssumption, CacheAssumption
  <2>2. CacheSound
    BY DEF Init, CacheSound, EmptyEntry
  <2>3. ExecutesWhatWasRead
    BY DEF Init, LoopInit, Returned, ExecutesWhatWasRead
  <2> QED BY <2>1, <2>2, <2>3 DEF CacheInv
<1>2. CacheInv /\ [Next]_vars => CacheInv'
  BY NextKeepsCacheInv, BusAssumption, LoopAssumption, CacheAssumption
<1>3. CacheInv => ExecutesWhatWasRead
  BY DEF CacheInv
<1> QED BY <1>1, <1>2, <1>3, PTL DEF Spec

-----------------------------------------------------------------------------
(* The pointer dangles only after an unmap of its own region.               *)

\* A live window stays live when the regions at its start are all kept and the
\* window stays.
LEMMA WindowSurvives ==
  ASSUME WindowIsARegion, UNCHANGED win,
         \A i \in DOMAIN regions :
            regions[i].start = win.base => \E j \in DOMAIN regions' : regions'[j] = regions[i]
  PROVE  WindowIsARegion'
BY DEF WindowIsARegion, WindowLive

\* Embedder code leaves every region that starts at s, or has unmapped from s.
LEMMA MeddleKeepsOrUnmaps ==
  ASSUME BusAssumption, LoopAssumption, regions \in Seq(Region), NEW powers, Meddle(powers), NEW s
  PROVE  \/ regions' \in Retained(regions, s)
         \/ \A i \in DOMAIN regions :
               regions[i].start = s => \E j \in DOMAIN regions' : regions'[j] = regions[i]
<1>1. CASE UNCHANGED regions
  BY <1>1
<1>2. ASSUME NEW q \in Requests, MapTidy(q)
      PROVE  \A i \in DOMAIN regions : \E j \in DOMAIN regions' : regions'[j] = regions[i]
  BY <1>2, MapPushes, PushedAndSortedKeepsAll
<1>3. ASSUME NEW t, regions' \in Retained(regions, t), t # s
      PROVE  \A i \in DOMAIN regions :
                regions[i].start = s => \E j \in DOMAIN regions' : regions'[j] = regions[i]
  <2>1. PICK from \in [DOMAIN regions' -> DOMAIN regions] :
          /\ \A j \in DOMAIN regions' : regions'[j] = regions[from[j]]
          /\ \A i \in DOMAIN regions :
                regions[i].start # t => \E j \in DOMAIN regions' : from[j] = i
    BY <1>3, AfterUnmap
  <2> QED BY <1>3, <2>1
<1> QED BY <1>1, <1>2, <1>3 DEF Meddle

\* What a step may do to the pointer.
DanglesByUnmap ==
    /\ win' # win => WindowIsARegion'
    /\ WindowIsARegion /\ ~WindowIsARegion' =>
          /\ call.phase \in {"idle", "code hook", "interrupt hook"}
          /\ regions' \in Retained(regions, win.base)

\* Every step changes the pointer to a live one, or leaves it as live as it was
\* unless it unmaps from its base.
LEMMA NextDanglesByUnmap ==
  ASSUME BusAssumption, LoopAssumption, TypeOK, [Next]_vars
  PROVE  DanglesByUnmap
<1>1. UNCHANGED <<regions, win>> => DanglesByUnmap
  BY WindowSurvives DEF DanglesByUnmap
<1>2. ASSUME NEW powers, Meddle(powers), UNCHANGED win,
             call.phase \in {"idle", "code hook", "interrupt hook"}
      PROVE  DanglesByUnmap
  <2>1. \/ regions' \in Retained(regions, win.base)
        \/ \A i \in DOMAIN regions : regions[i].start = win.base =>
              \E j \in DOMAIN regions' : regions'[j] = regions[i]
    BY <1>2, MeddleKeepsOrUnmaps DEF TypeOK
  <2> QED BY <1>2, <2>1, WindowSurvives DEF DanglesByUnmap
<1>3. CASE UNCHANGED vars
  BY <1>1, <1>3 DEF vars, loopVars
<1>4. CASE Host /\ UNCHANGED engineVars
  BY <1>2, <1>4 DEF Host, engineVars
<1>5. ASSUME NEW max \in 0 .. MaxBatch, Begin(max) /\ UNCHANGED engineVars
      PROVE  DanglesByUnmap
  BY <1>1, <1>5 DEF Begin, engineVars
<1>6. CASE EnterWindow
  <2>1. UNCHANGED regions
    BY <1>6 DEF EnterWindow, Proceed, Fail
  <2>2. CASE UNCHANGED win
    BY <1>1, <2>1, <2>2
  <2>3. CASE Refresh
    <3>1. PICK i \in DOMAIN regions :
            win' = [buf |-> regions[i].buf, base |-> regions[i].start, len |-> regions[i].len]
      BY <2>3 DEF Refresh, Owners
    <3>2. WindowIsARegion'
      BY <2>1, <3>1 DEF WindowIsARegion, WindowLive
    <3> QED BY <3>2 DEF DanglesByUnmap
  <2> QED BY <1>6, <2>2, <2>3 DEF EnterWindow
<1>7. CASE CodeHook /\ UNCHANGED engineVars
  BY <1>2, <1>7 DEF CodeHook, engineVars
<1>8. CASE ReadThroughPointer
  <2>1. UNCHANGED <<regions, win>>
    BY <1>8 DEF ReadThroughPointer, Decoded
  <2> QED BY <1>1, <2>1
<1>9. CASE Execute /\ UNCHANGED engineVars
  BY <1>1, <1>9 DEF Execute, engineVars
<1>10. CASE InterruptHook /\ UNCHANGED engineVars
  BY <1>2, <1>10 DEF InterruptHook, engineVars
<1> QED
  BY <1>3, <1>4, <1>5, <1>6, <1>7, <1>8, <1>9, <1>10 DEF Next, Step

\* Whatever the host and the hooks may do, the fetch pointer comes to dangle in one
\* way only: one of them unmaps the region it was taken from, between calls or in
\* the middle of one.  Mapping more memory from a system call hook, as docs/plan.md
\* has it for SYS_SBRK, does not disturb it, and taking it anew mends it.
THEOREM DanglesOnlyByUnmap == Spec => OnlyUnmapDangles
<1>1. Init => TypeOK
  BY InitTyped, BusAssumption, LoopAssumption, CacheAssumption
<1>2. TypeOK /\ [Next]_vars => TypeOK'
  BY NextTyped, BusAssumption, LoopAssumption, CacheAssumption
<1>3. TypeOK /\ [Next]_vars => [DanglesByUnmap]_vars
  BY NextDanglesByUnmap, BusAssumption, LoopAssumption
<1>4. [][DanglesByUnmap]_vars => OnlyUnmapDangles
  <2>1. [DanglesByUnmap]_vars =>
           [/\ win' # win => WindowIsARegion'
            /\ WindowIsARegion /\ ~WindowIsARegion' =>
                  /\ call.phase \in {"idle", "code hook", "interrupt hook"}
                  /\ regions' \in Retained(regions, win.base)]_vars
    BY DEF DanglesByUnmap
  <2> QED BY <2>1, PTL DEF OnlyUnmapDangles
<1> QED BY <1>1, <1>2, <1>3, <1>4, PTL DEF Spec

-----------------------------------------------------------------------------
(* A batch runs along a straight line of addresses, wrapping at the top.    *)

\* A remainder is unique.
LEMMA RemainderIsUnique ==
  ASSUME NEW m \in Nat \ {0}, NEW a \in Nat, NEW b \in Nat,
         NEW s \in 0 .. m - 1, NEW t \in 0 .. m - 1, (m * a) + s = (m * b) + t
  PROVE  s = t
<1>1. ASSUME NEW d \in Nat, d >= 1 PROVE m * d >= m
  BY <1>1
<1>2. CASE a > b
  <2>1. m * (a - b) >= m
    BY <1>1, <1>2, a - b \in Nat
  <2>2. m * (a - b) = (m * a) - (m * b)
    OBVIOUS
  <2> QED BY <2>1, <2>2
<1>3. CASE b > a
  <2>1. m * (b - a) >= m
    BY <1>1, <1>3, b - a \in Nat
  <2>2. m * (b - a) = (m * b) - (m * a)
    OBVIOUS
  <2> QED BY <2>1, <2>2
<1> QED BY <1>2, <1>3

\* Division with remainder.
LEMMA DivisionWithRemainder ==
  ASSUME NEW m \in Nat \ {0}, NEW x \in Nat
  PROVE  /\ (x \div m) \in Nat /\ (x % m) \in 0 .. m - 1
         /\ x = (m * (x \div m)) + (x % m)
OBVIOUS

\* Advancing step by step, with a wrap at every step, is advancing at once.
LEMMA WrapsAsOne ==
  ASSUME NEW m \in Nat \ {0}, NEW x \in Nat, NEW k \in Nat
  PROVE  ((x % m) + k) % m = (x + k) % m
<1> DEFINE q == x \div m
           y == (x % m) + k
           r == y \div m
           s == y % m
           b == (x + k) \div m
           t == (x + k) % m
<1>1. q \in Nat /\ (x % m) \in Nat /\ x = (m * q) + (x % m)
  BY DivisionWithRemainder
<1>2. y \in Nat /\ x + k \in Nat /\ x + k = (m * q) + y
  BY <1>1
<1> HIDE DEF q, y
<1>3. r \in Nat /\ s \in 0 .. m - 1 /\ y = (m * r) + s
  BY <1>2, DivisionWithRemainder
<1>4. b \in Nat /\ t \in 0 .. m - 1 /\ x + k = (m * b) + t
  BY <1>2, DivisionWithRemainder
<1> HIDE DEF r, s, b, t
<1>5. q + r \in Nat /\ m * (q + r) = (m * q) + (m * r)
  BY <1>1, <1>3
<1>6. (m * (q + r)) + s = (m * b) + t
  <2> DEFINE u == m * q
             v == m * r
             w == m * (q + r)
             z == m * b
  <2>1. u \in Nat /\ v \in Nat /\ w \in Nat /\ z \in Nat
    BY <1>1, <1>3, <1>4, <1>5
  <2>2. x + k = u + y /\ y = v + s /\ w = u + v /\ x + k = z + t
    BY <1>2, <1>3, <1>4, <1>5
  <2> HIDE DEF u, v, w, z
  <2>3. w + s = z + t
    BY <1>2, <1>3, <1>4, <2>1, <2>2
  <2> QED BY <2>3 DEF w, z
<1>7. s = t
  BY <1>3, <1>4, <1>5, <1>6, RemainderIsUnique
<1> QED BY <1>7 DEF s, t, y

\* The line a call runs along begins at the PC and each completed instruction moves
\* it on by one.
LEMMA LineSteps ==
  ASSUME LoopAssumption, NEW from \in Pc, NEW count \in Nat
  PROVE  /\ (from + 0 * ILen) % PcLimit = from
         /\ NextPc((from + count * ILen) % PcLimit) = (from + (count + 1) * ILen) % PcLimit
<1>1. PcLimit \in Nat \ {0} /\ ILen \in Nat /\ from \in Nat /\ from < PcLimit
  BY DEF LoopAssumption, Pc
<1>2. (from + 0 * ILen) % PcLimit = from
  BY <1>1
<1>3. count * ILen \in Nat /\ (count + 1) * ILen = count * ILen + ILen
  BY <1>1
<1>4. from + count * ILen \in Nat
      /\ (from + count * ILen) + ILen = from + (count + 1) * ILen
  BY <1>1, <1>3
<1>5. (((from + count * ILen) % PcLimit) + ILen) % PcLimit
        = ((from + count * ILen) + ILen) % PcLimit
  BY <1>1, <1>4, WrapsAsOne
<1> QED BY <1>2, <1>4, <1>5 DEF NextPc

\* Nothing that leaves the call on its instruction takes the batch off its line, and
\* ending the call does not either.
LEMMA KeepsLine ==
  ASSUME BatchIsStraightLine,
         \/ call'.phase = "idle"
         \/ UNCHANGED <<pc, call>>
         \/ /\ call.phase \notin {"idle", "fetch"} /\ call'.phase \notin {"idle", "fetch"}
            /\ call'.at = call.at /\ call'.from = call.from
            /\ call'.count = call.count /\ call'.max = call.max
  PROVE  BatchIsStraightLine'
BY DEF BatchIsStraightLine, OnLine

\* One more than a smaller number is at most the greater.
LEMMA NextStaysBelow ==
  ASSUME NEW a \in Nat, NEW b \in Nat, a < b, a + 1 # b
  PROVE  a + 1 < b
OBVIOUS

\* However an instruction ends, the batch is over or on its line.
LEMMA EndKeepsLine ==
  ASSUME LoopAssumption, TypeOK, BatchIsStraightLine,
         call.phase \in {"execute", "interrupt hook"}, NEW p, Complete(p) \/ Rewind
  PROVE  BatchIsStraightLine'
<1>1. \A ok, count : Returned(ok, count).phase = "idle"
  BY DEF Returned
<1>2. CASE Rewind
  BY <1>1, <1>2, KeepsLine DEF Rewind
<1>3. CASE Complete(p) /\ (p # NextPc(call.at) \/ call.count + 1 = call.max)
  BY <1>1, <1>3, KeepsLine DEF Complete
<1>4. CASE Complete(p) /\ ~(p # NextPc(call.at) \/ call.count + 1 = call.max)
  <2>1. /\ pc' = NextPc(call.at)
        /\ call' = [Returned(TRUE, call.count + 1) EXCEPT
                      !.phase = "fetch", !.max = call.max, !.from = call.from]
    BY <1>4 DEF Complete
  <2>2. /\ call'.phase = "fetch" /\ call'.max = call.max
        /\ call'.from = call.from /\ call'.count = call.count + 1
    BY <2>1 DEF Returned
  <2>3. call.from \in Pc /\ call.count \in Nat /\ call.max \in Nat
    BY DEF TypeOK, Call
  <2>4. call.at = OnLine(call) /\ call.count < call.max
    BY DEF BatchIsStraightLine
  <2>5. pc' = OnLine(call)'
    <3>1. pc' = NextPc(OnLine(call))
      BY <2>1, <2>4
    <3>2. NextPc(OnLine(call)) = (call.from + (call.count + 1) * ILen) % PcLimit
      BY <2>3, LineSteps DEF OnLine
    <3>3. OnLine(call)' = (call.from + (call.count + 1) * ILen) % PcLimit
      BY <2>2 DEF OnLine
    <3> QED BY <3>1, <3>2, <3>3
  <2>6. call'.count < call'.max
    <3>1. call.count + 1 # call.max
      BY <1>4
    <3>2. call.count + 1 < call.max
      BY <2>3, <2>4, <3>1, NextStaysBelow
    <3> QED BY <2>2, <3>2
  <2> QED BY <2>2, <2>5, <2>6 DEF BatchIsStraightLine
<1> QED BY <1>2, <1>3, <1>4

\* Every step keeps the batch on its line.
LEMMA NextKeepsLine ==
  ASSUME LoopAssumption, TypeOK, BatchIsStraightLine, [Next]_vars
  PROVE  BatchIsStraightLine'
<1>1. call \in Call /\ pc \in Pc
  BY DEF TypeOK
<1>2. \A ok, count : Returned(ok, count).phase = "idle"
  BY DEF Returned
<1>3. CASE UNCHANGED vars
  BY <1>3, KeepsLine DEF vars
<1>4. CASE Host
  BY <1>2, <1>4, KeepsLine DEF Host, BatchIsStraightLine, OnLine
<1>5. ASSUME NEW max \in 0 .. MaxBatch, Begin(max)
      PROVE  BatchIsStraightLine'
  <2>1. CASE max = 0
    BY <1>2, <1>5, <2>1, KeepsLine DEF Begin
  <2>2. CASE max # 0
    <3>1. UNCHANGED pc
          /\ call' = [Returned(TRUE, 0) EXCEPT !.phase = "fetch", !.max = max, !.from = pc]
      BY <1>5, <2>2 DEF Begin
    <3>2. /\ call'.phase = "fetch" /\ call'.max = max
          /\ call'.from = pc /\ call'.count = 0
      BY <3>1 DEF Returned
    <3>3. pc' = OnLine(call)'
      BY <1>1, <3>1, <3>2, LineSteps DEF OnLine
    <3>4. call'.count < call'.max
      BY <2>2, <3>2 DEF LoopAssumption
    <3> QED BY <3>2, <3>3, <3>4 DEF BatchIsStraightLine
  <2> QED BY <2>1, <2>2
<1>6. CASE EnterWindow
  <2>1. CASE Proceed
    <3>1. /\ call.phase = "fetch" /\ call'.at = pc /\ call'.phase \in {"read", "code hook"}
          /\ call'.from = call.from /\ call'.count = call.count /\ call'.max = call.max
      BY <1>1, <1>6, <2>1 DEF EnterWindow, Proceed, Call
    <3> QED BY <3>1 DEF BatchIsStraightLine, OnLine
  <2>2. CASE Fail
    BY <1>2, <2>2, KeepsLine DEF Fail
  <2> QED BY <1>6, <2>1, <2>2 DEF EnterWindow
<1>7. CASE CodeHook
  <2>1. \/ call'.phase = "idle"
        \/ /\ call.phase = "code hook" /\ call'.phase \in {"code hook", "read"}
           /\ call'.at = call.at /\ call'.from = call.from
           /\ call'.count = call.count /\ call'.max = call.max
    BY <1>1, <1>2, <1>7 DEF CodeHook, Call
  <2> QED BY <2>1, KeepsLine
<1>8. CASE ReadThroughPointer
  <2>1. PICK raw, instr : Decoded(raw, instr)
    BY <1>8 DEF ReadThroughPointer
  <2>2. /\ call.phase = "read" /\ call'.phase = "execute"
        /\ call'.at = call.at /\ call'.from = call.from
        /\ call'.count = call.count /\ call'.max = call.max
    BY <1>1, <1>8, <2>1 DEF ReadThroughPointer, Decoded, Call
  <2> QED BY <2>2, KeepsLine
<1>9. CASE Execute
  <2>1. CASE \E p : Complete(p) \/ Rewind
    BY <1>9, <2>1, EndKeepsLine DEF Execute
  <2>2. CASE call' = [call EXCEPT !.phase = "interrupt hook", !.hook = 1]
    BY <1>1, <1>9, <2>2, KeepsLine DEF Execute, Call
  <2> QED BY <1>9, <2>1, <2>2 DEF Execute
<1>10. CASE InterruptHook
  <2>1. CASE \E p : Complete(p) \/ Rewind
    BY <1>10, <2>1, EndKeepsLine DEF InterruptHook
  <2>2. CASE call' = [call EXCEPT !.hook = call.hook + 1]
    BY <1>1, <1>10, <2>2, KeepsLine DEF InterruptHook, Call
  <2> QED BY <1>10, <2>1, <2>2 DEF InterruptHook
<1> QED
  BY <1>3, <1>4, <1>5, <1>6, <1>7, <1>8, <1>9, <1>10 DEF Next, Step

\* In the initial state no call is under way.
LEMMA InitOnLine == Init => BatchIsStraightLine
BY DEF Init, LoopInit, Returned, BatchIsStraightLine

\* As long as a batch goes on it has executed consecutive instructions, exactly as
\* many as it has counted: no hook, store, patch or remapping diverts it unnoticed,
\* and the wrap of the PC at the top of the address space does not miscount it.
THEOREM BatchRunsStraight == Spec => []BatchIsStraightLine
<1>1. Init => TypeOK /\ BatchIsStraightLine
  BY InitTyped, InitOnLine, BusAssumption, LoopAssumption, CacheAssumption
<1>2. TypeOK /\ BatchIsStraightLine /\ [Next]_vars => TypeOK' /\ BatchIsStraightLine'
  BY NextTyped, NextKeepsLine, BusAssumption, LoopAssumption, CacheAssumption
<1> QED BY <1>1, <1>2, PTL DEF Spec

\* The step that reports an error leaves the PC on the line, at the instruction the
\* batch had come to.
LEMMA ErrorStepsOnLine ==
  ASSUME TypeOK, BatchIsStraightLine, [Next]_vars
  PROVE  [call.phase \notin {"idle", "code hook"} /\ call'.phase = "idle" /\ ~call'.ok
            => pc' = OnLine(call)]_vars
<1> SUFFICES ASSUME Next, call.phase \notin {"idle", "code hook"},
                    call'.phase = "idle", ~call'.ok
             PROVE  pc' = OnLine(call)
  OBVIOUS
<1>1. call \in Call
  BY DEF TypeOK
<1>2. ASSUME NEW p, Complete(p) PROVE FALSE
  <2> DEFINE ret == Returned(TRUE, call.count + 1)
  <2>1. ret.ok = TRUE
        /\ [ret EXCEPT !.phase = "fetch", !.max = call.max, !.from = call.from].ok = TRUE
    BY DEF Returned
  <2>2. \/ call' = ret
        \/ call' = [ret EXCEPT !.phase = "fetch", !.max = call.max, !.from = call.from]
    BY <1>2 DEF Complete
  <2> QED BY <2>1, <2>2
<1>3. CASE EnterWindow
  BY <1>1, <1>3 DEF EnterWindow, Proceed, Fail, BatchIsStraightLine, Call
<1>4. CASE ReadThroughPointer
  BY <1>1, <1>4 DEF ReadThroughPointer, Decoded, Call
<1>5. CASE Execute
  BY <1>1, <1>2, <1>5 DEF Execute, Rewind, BatchIsStraightLine, Call
<1>6. CASE InterruptHook
  BY <1>1, <1>2, <1>6 DEF InterruptHook, Rewind, BatchIsStraightLine, Call
<1> QED
  BY <1>3, <1>4, <1>5, <1>6 DEF Next, Step, Host, Begin, CodeHook

\* A host that gets an error, and no count with it, can still tell from the PC how
\* far the batch came, unless it was a code hook that failed.
THEOREM ErrorLocatesInstruction == Spec => ErrorTellsHowFar
<1>1. Init => TypeOK /\ BatchIsStraightLine
  BY InitTyped, InitOnLine, BusAssumption, LoopAssumption, CacheAssumption
<1>2. TypeOK /\ BatchIsStraightLine /\ [Next]_vars => TypeOK' /\ BatchIsStraightLine'
  BY NextTyped, NextKeepsLine, BusAssumption, LoopAssumption, CacheAssumption
<1>3. TypeOK /\ BatchIsStraightLine /\ [Next]_vars
        => [call.phase \notin {"idle", "code hook"} /\ call'.phase = "idle" /\ ~call'.ok
              => pc' = OnLine(call)]_vars
  BY ErrorStepsOnLine
<1> QED BY <1>1, <1>2, <1>3, PTL DEF Spec, ErrorTellsHowFar
-----------------------------------------------------------------------------
(* The pointer and the cache are invisible: the engine implements StepLoop. *)
(* Where the test that guards refresh_fetch_ptr wraps around, it does not   *)
(* answer what it means to: the code keeps clear of the last PC values.     *)

\* No code lies within two instructions of the last PC, and nothing jumps there.
StaysClearOfTop ==
    /\ ILen < PcLimit
    /\ \A q \in Requests : q.start + q.size + 2 * ILen <= PcLimit
    /\ \A t \in Targets : t + ILen < PcLimit

\* So it is of every region mapped.
TableClear(rs) == \A i \in DOMAIN rs : rs[i].start + rs[i].size + 2 * ILen <= PcLimit

\* The instruction being entered lies in the RAM the pointer points to, from the
\* moment its code hooks run until it is read.
WindowHolds ==
    /\ NullWindow(win) \/ InTable(regions, win)
    /\ call.phase \in {"code hook", "read"} => WindowOwns(regions, win, call.at)

LoopInv ==
    /\ CacheInv
    /\ Tidy(regions) /\ TableClear(regions)
    /\ pc + ILen < PcLimit /\ call.at + ILen < PcLimit
    /\ WindowHolds

\* The next PC below the top is behind this one.
LEMMA NextPcBelowTop ==
  ASSUME LoopAssumption, NEW p \in Pc, p + ILen < PcLimit
  PROVE  NextPc(p) = p + ILen
<1>1. ASSUME NEW N \in Nat \ {0}, NEW x \in 0 .. N - 1 PROVE x % N = x
  BY SMT
<1>2. PcLimit \in Nat \ {0} /\ p + ILen \in 0 .. PcLimit - 1
  BY DEF Pc, LoopAssumption
<1> QED BY <1>1, <1>2 DEF NextPc

\* A PC in a region is clear of the top, and so is the next.
LEMMA OwnedIsClear ==
  ASSUME BusAssumption, LoopAssumption, NEW rs \in Seq(Region), TableClear(rs),
         NEW p \in Pc, NEW i \in Owners(rs, p)
  PROVE  p + ILen < PcLimit /\ NextPc(p) + ILen < PcLimit
<1>1. /\ i \in DOMAIN rs /\ p < rs[i].start + rs[i].size /\ p \in Nat
      /\ ILen \in Nat /\ PcLimit \in Nat
  BY DEF Owners, Pc, LoopAssumption
<1>2. rs[i].start \in Nat /\ rs[i].size \in Nat /\ rs[i].start + rs[i].size + 2 * ILen <= PcLimit
  BY <1>1, RegionNumbers DEF TableClear
<1> DEFINE end == rs[i].start + rs[i].size
<1>3. end \in Nat /\ p < end /\ end + 2 * ILen <= PcLimit
  BY <1>1, <1>2
<1> HIDE DEF end
<1>4. p + ILen < PcLimit /\ (p + ILen) + ILen < PcLimit
  BY <1>1, <1>3
<1> QED BY <1>4, NextPcBelowTop

\* Embedder code keeps the regions clear of the top.
LEMMA MeddleKeepsClear ==
  ASSUME BusAssumption, LoopAssumption, StaysClearOfTop, regions \in Seq(Region),
         TableClear(regions), NEW powers, "unmap" \notin powers, Meddle(powers)
  PROVE  TableClear(regions')
<1>1. ASSUME NEW q \in Requests, MapTidy(q) PROVE TableClear(regions')
  <2>1. PICK b \in Buf : /\ Requested(q, b) \in Region
                         /\ regions' \in PushedAndSorted(regions, Requested(q, b))
    BY <1>1, MapPushes
  <2>2. Requested(q, b).start = q.start /\ Requested(q, b).size = q.size
    BY DEF Requested
  <2>3. \A j \in DOMAIN regions' :
          regions'[j] = Requested(q, b) \/ \E i \in DOMAIN regions : regions'[j] = regions[i]
    <3> DEFINE new == regions'
               r   == Requested(q, b)
    <3>1. new \in PushedAndSorted(regions, r) /\ r \in Region
      BY <2>1
    <3> HIDE DEF new, r
    <3>2. \A j \in DOMAIN new : new[j] = r \/ \E i \in DOMAIN regions : new[j] = regions[i]
      BY <3>1, AfterMap
    <3> QED BY <3>2 DEF new, r
  <2> QED BY <2>2, <2>3 DEF TableClear, StaysClearOfTop
<1>2. CASE UNCHANGED regions
  BY <1>2
<1> QED BY <1>1, <1>2 DEF Meddle

\* A PC in the window, by the test that guards refresh_fetch_ptr, is in the RAM the
\* pointer points to.
LEMMA InsideIsOwned ==
  ASSUME BusAssumption, LoopAssumption, TypeOK, Tidy(regions), TableClear(regions),
         pc + ILen < PcLimit, WindowHolds, ~LeavesWindow
  PROVE  WindowOwns(regions, win, pc)
<1>1. ASSUME NEW N \in Nat \ {0}, NEW x \in 0 .. N - 1 PROVE x % N = x
  BY SMT
<1>2. pc \in Pc /\ pc \in Nat /\ ILen \in Nat \ {0} /\ PcLimit \in Nat \ {0} /\ regions \in Seq(Region)
  BY DEF TypeOK, Pc, LoopAssumption
<1>3. NextPc(pc) = pc + ILen
  BY <1>2, NextPcBelowTop
<1>4. pc >= win.base /\ pc + ILen <= (win.base + win.len) % PcLimit
  <2>1. win.base \in Nat /\ win.len \in Nat
    BY DEF TypeOK
  <2>2. ASSUME NEW N \in Nat \ {0}, NEW x \in Nat PROVE x % N \in Nat
    BY SMT
  <2>3. (win.base + win.len) % PcLimit \in Nat
    BY <1>2, <2>1, <2>2
  <2> QED BY <1>2, <1>3, <2>1, <2>3 DEF LeavesWindow
<1>5. CASE NullWindow(win)
  <2>1. (win.base + win.len) % PcLimit = 0
    BY <1>1, <1>2, <1>5 DEF NullWindow
  <2> QED BY <1>2, <1>4, <2>1
<1>6. CASE InTable(regions, win)
  <2>1. PICK j \in DOMAIN regions :
          /\ regions[j].kind = "ram" /\ win.buf = regions[j].buf
          /\ win.base = regions[j].start /\ win.len = regions[j].len
    BY <1>6 DEF InTable
  <2> DEFINE s == regions[j].start
             size == regions[j].size
             len == regions[j].len
  <2>2. /\ s \in Nat /\ size \in Nat /\ len \in Nat /\ len <= size
        /\ s + size + 2 * ILen <= PcLimit
    BY <2>1, RegionNumbers, <1>2 DEF Tidy, Fits, TableClear
  <2>3. (s + len) % PcLimit = s + len
    <3> HIDE DEF s, size, len
    <3>1. s + len \in 0 .. PcLimit - 1
      BY <1>2, <2>2
    <3> QED BY <1>1, <1>2, <3>1
  <2>4. s <= pc /\ pc + ILen <= s + len
    BY <1>4, <2>1, <2>3
  <2>5. s <= pc /\ pc < s + size
    <3> HIDE DEF s, size, len
    <3> QED BY <1>2, <2>2, <2>4
  <2>6. j \in Owners(regions, pc)
    BY <2>1, <2>5 DEF Owners
  <2> QED BY <2>1, <2>6 DEF WindowOwns
<1> QED BY <1>5, <1>6 DEF WindowHolds

\* When the pointer's RAM owns the instruction, the pointer reads what the bus
\* holds there, if the RAM holds all of it.
LEMMA PointerReadsBus ==
  ASSUME BusAssumption, LoopAssumption, TypeOK, Tidy(regions),
         WindowOwns(regions, win, call.at), NEW raw \in PointerReads, InRam(call.at)
  PROVE  IsBusWord(call.at, raw)
<1>1. PICK j \in Owners(regions, call.at) :
        /\ regions[j].kind = "ram" /\ win.buf = regions[j].buf
        /\ win.base = regions[j].start /\ win.len = regions[j].len
  BY DEF WindowOwns
<1>2. PICK i \in DOMAIN regions : HoldsWord(i, call.at)
  BY DEF InRam
<1>3. regions \in Seq(Region) /\ call.at \in Pc /\ call.at \in Addr
  BY DEF TypeOK, Call, Pc, Addr, LoopAssumption, BusAssumption
<1>4. i = j
  BY <1>2, <1>3, OwnerUnique DEF HoldsWord
<1>5. /\ j \in DOMAIN regions /\ regions[j].start \in Nat /\ regions[j].start <= call.at
      /\ call.at - regions[j].start + ILen <= regions[j].len
      /\ regions[j].buf \in Buf /\ regions[j].buf # NoBuf
  BY <1>1, <1>2, <1>3, <1>4, RegionNumbers DEF HoldsWord, Owners, BusAssumption
<1>6. WindowLive
  BY <1>1, <1>5 DEF WindowLive
<1>7. call.at - win.base >= 0 /\ call.at - win.base + ILen <= win.len /\ win.buf # NoBuf
  BY <1>1, <1>3, <1>5 DEF Pc
<1>8. raw = BytesAt(heap[regions[j].buf], call.at - regions[j].start, ILen)
  BY <1>1, <1>6, <1>7 DEF PointerReads
<1> QED BY <1>2, <1>4, <1>8 DEF IsBusWord

\* What happens to the table while nobody unmaps and the pointer stays.
LEMMA TableKept ==
  ASSUME BusAssumption, LoopAssumption, StaysClearOfTop, LoopInv, UNCHANGED win,
         UNCHANGED regions \/ \E powers : "unmap" \notin powers /\ Meddle(powers)
  PROVE  /\ Tidy(regions') /\ TableClear(regions')
         /\ NullWindow(win') \/ InTable(regions', win')
         /\ \A a : WindowOwns(regions, win, a) => WindowOwns(regions', win', a)
<1>1. /\ regions \in Seq(Region) /\ Tidy(regions) /\ TableClear(regions) /\ TypeOK
      /\ NullWindow(win) \/ InTable(regions, win)
  BY DEF LoopInv, CacheInv, TypeOK, WindowHolds
<1>2. CASE UNCHANGED regions
  BY <1>1, <1>2
<1>3. ASSUME NEW powers, "unmap" \notin powers, Meddle(powers)
      PROVE  /\ Tidy(regions') /\ TableClear(regions')
             /\ \A i \in DOMAIN regions : \E j \in DOMAIN regions' : regions'[j] = regions[i]
  BY <1>1, <1>3, MeddleKeepsTidy, MeddleKeepsClear, MeddleKeepsRegions
<1>4. ASSUME NEW powers, "unmap" \notin powers, Meddle(powers)
      PROVE  /\ NullWindow(win') \/ InTable(regions', win')
             /\ \A a : WindowOwns(regions, win, a) => WindowOwns(regions', win', a)
  <2> DEFINE new == regions'
  <2>1. \A i \in DOMAIN regions : \E j \in DOMAIN new : new[j] = regions[i]
    BY <1>3, <1>4
  <2> HIDE DEF new
  <2>2. /\ InTable(regions, win) => InTable(new, win)
        /\ \A a : WindowOwns(regions, win, a) => WindowOwns(new, win, a)
    BY <2>1, WindowStays
  <2> QED BY <1>1, <2>2 DEF new
<1> QED BY <1>2, <1>3, <1>4

\* Where embedder code may send execution.
LEMMA PcAfterClear ==
  ASSUME StaysClearOfTop, LoopInv, NEW powers, NEW p \in PcAfter(powers)
  PROVE  p + ILen < PcLimit
BY DEF StaysClearOfTop, LoopInv, PcAfter

\* What a call returns is not about to be read.
LEMMA ReturnedIsClear ==
  ASSUME LoopAssumption, StaysClearOfTop, NEW ok, NEW count
  PROVE  /\ Returned(ok, count).at + ILen < PcLimit
         /\ Returned(ok, count).phase \notin {"code hook", "read"}
         /\ \A max, from :
              /\ [Returned(ok, count) EXCEPT !.phase = "fetch", !.max = max, !.from = from].at
                    + ILen < PcLimit
              /\ [Returned(ok, count) EXCEPT !.phase = "fetch", !.max = max, !.from = from].phase
                    \notin {"code hook", "read"}
<1>1. 0 + ILen < PcLimit
  BY DEF StaysClearOfTop, LoopAssumption
<1> QED BY <1>1 DEF Returned

\* However an instruction ends, the next one is clear of the top.
LEMMA EndIsClear ==
  ASSUME LoopAssumption, StaysClearOfTop, LoopInv, NEW p, p + ILen < PcLimit,
         Complete(p) \/ Rewind
  PROVE  /\ pc' + ILen < PcLimit /\ call'.at + ILen < PcLimit
         /\ call'.phase \notin {"code hook", "read"}
<1>1. CASE Rewind
  BY <1>1, ReturnedIsClear DEF Rewind, LoopInv
<1>2. CASE Complete(p)
  <2>1. \/ call' = Returned(TRUE, call.count + 1)
        \/ call' = [Returned(TRUE, call.count + 1) EXCEPT
                      !.phase = "fetch", !.max = call.max, !.from = call.from]
    BY <1>2 DEF Complete
  <2>2. pc' = p
    BY <1>2 DEF Complete
  <2>3. call'.at + ILen < PcLimit /\ call'.phase \notin {"code hook", "read"}
    <3>1. CASE call' = Returned(TRUE, call.count + 1)
      BY <3>1, ReturnedIsClear
    <3>2. CASE call' = [Returned(TRUE, call.count + 1) EXCEPT
                          !.phase = "fetch", !.max = call.max, !.from = call.from]
      BY <3>2, ReturnedIsClear
    <3> QED BY <2>1, <3>1, <3>2
  <2> QED BY <2>2, <2>3
<1> QED BY <1>1, <1>2

\* What is left of LoopInv when the decode cache is known to be sound.
LEMMA LoopInvFrom ==
  ASSUME CacheInv', Tidy(regions'), TableClear(regions'), pc' + ILen < PcLimit,
         call'.at + ILen < PcLimit, NullWindow(win') \/ InTable(regions', win'),
         call'.phase \in {"code hook", "read"} => WindowOwns(regions', win', call'.at)
  PROVE  LoopInv'
BY DEF LoopInv, WindowHolds

\* An instruction is entered if and only if it is executable, whether the pointer
\* is refreshed or not.
LEMMA EnterIsEnter ==
  ASSUME BusAssumption, LoopAssumption, StaysClearOfTop, LoopInv, EnterWindow, CacheInv'
  PROVE  Enter /\ LoopInv'
<1>1. /\ TypeOK /\ regions \in Seq(Region) /\ Tidy(regions) /\ TableClear(regions) /\ call \in Call
      /\ WindowHolds /\ pc + ILen < PcLimit /\ call.at + ILen < PcLimit
  BY DEF LoopInv, CacheInv, TypeOK
<1>2. UNCHANGED <<regions, heap, pc>>
  BY DEF EnterWindow, Proceed, Fail
<1>3. ASSUME Proceed, WindowOwns(regions, win', pc)
      PROVE  Enter /\ LoopInv'
  <2>1. Executable(pc)
    BY <1>3 DEF WindowOwns, Executable
  <2>2. Enter
    BY <1>3, <2>1 DEF Enter, EnterWindow
  <2>3. call'.at = pc
    BY <1>1, <1>3 DEF Proceed, Call
  <2>4. InTable(regions, win')
    BY <1>3 DEF WindowOwns, InTable, Owners
  <2> QED BY <1>1, <1>2, <1>3, <2>2, <2>3, <2>4, LoopInvFrom
<1>4. CASE ~LeavesWindow /\ Proceed /\ UNCHANGED win
  BY <1>1, <1>3, <1>4, InsideIsOwned
<1>5. CASE LeavesWindow /\ Refresh /\ Proceed
  <2>1. WindowOwns(regions, win', pc)
    BY <1>5 DEF Refresh, WindowOwns
  <2> QED BY <1>3, <1>5, <2>1
<1>6. CASE LeavesWindow /\ ~Executable(pc) /\ Fail /\ UNCHANGED win
  <2>1. Enter
    BY <1>6 DEF Enter, EnterWindow
  <2>2. call'.at + ILen < PcLimit /\ call'.phase \notin {"code hook", "read"}
    BY <1>6, ReturnedIsClear DEF Fail
  <2> QED BY <1>1, <1>2, <1>6, <2>1, <2>2, LoopInvFrom DEF WindowHolds
<1> QED BY <1>4, <1>5, <1>6 DEF EnterWindow

\* Reading through the pointer and the decode cache is reading the bus and
\* decoding.
LEMMA ReadIsRead ==
  ASSUME BusAssumption, LoopAssumption, CacheAssumption, LoopInv, ReadThroughPointer, CacheInv'
  PROVE  Read /\ LoopInv'
<1>1. /\ TypeOK /\ regions \in Seq(Region) /\ Tidy(regions) /\ TableClear(regions) /\ call \in Call
      /\ call.at \in Pc /\ call.at + ILen < PcLimit /\ call.phase = "read"
      /\ NullWindow(win) \/ InTable(regions, win)
      /\ WindowOwns(regions, win, call.at)
  BY DEF LoopInv, CacheInv, TypeOK, Call, WindowHolds, ReadThroughPointer
<1> DEFINE e == cache[SlotOf(call.at)]
<1>2. PICK raw \in PointerReads :
        \/ Hit(raw) /\ Decoded(raw, e.instr)
        \/ Decoded(raw, Decode[raw])
  BY DEF ReadThroughPointer
<1>3. raw \in Word
  BY <1>1, PointerReadsTyped
<1>4. InRam(call.at) => IsBusWord(call.at, raw)
  BY <1>1, PointerReadsBus
<1>5. call.at # EmptyTag
  BY <1>1 DEF EmptyTag, Pc, LoopAssumption
<1>6. Hit(raw) => e.instr = Decode[raw]
  <2>1. SlotOf(call.at) \in Slot
    BY <1>1, SlotTyped
  <2> QED BY <1>5, <2>1 DEF Hit, LoopInv, CacheInv, CacheSound
<1>7. Decoded(raw, Decode[raw])
  BY <1>2, <1>6
<1>8. Read
  BY <1>1, <1>3, <1>4, <1>7 DEF Read
<1>9. call'.phase = "execute" /\ call'.at = call.at /\ pc' = NextPc(call.at)
      /\ UNCHANGED <<regions, win>>
  BY <1>1, <1>7 DEF Decoded, Call, ReadThroughPointer
<1>10. NextPc(call.at) + ILen < PcLimit
  <2>1. PICK j \in Owners(regions, call.at) : TRUE
    BY <1>1 DEF WindowOwns
  <2> QED BY <1>1, <2>1, OwnedIsClear
<1> QED BY <1>1, <1>8, <1>9, <1>10, LoopInvFrom
\* Every other step is a step of the loop already, and keeps the pointer where the
\* code is.
LEMMA OtherStepsKeepLoopInv ==
  ASSUME BusAssumption, LoopAssumption, StaysClearOfTop, NobodyUnmaps, LoopInv, CacheInv',
         UNCHANGED engineVars,
         \/ Host \/ CodeHook \/ Execute \/ InterruptHook
         \/ \E max \in 0 .. MaxBatch : Begin(max)
  PROVE  LoopInv'
<1>1. /\ call \in Call /\ UNCHANGED win /\ pc + ILen < PcLimit /\ call.at + ILen < PcLimit
      /\ call.phase \in {"code hook", "read"} => WindowOwns(regions, win, call.at)
  BY DEF LoopInv, CacheInv, TypeOK, WindowHolds, engineVars
<1>2. UNCHANGED regions \/ \E powers : "unmap" \notin powers /\ Meddle(powers)
  BY DEF Host, CodeHook, Execute, InterruptHook, Begin, NobodyUnmaps
<1>3. /\ Tidy(regions') /\ TableClear(regions')
      /\ NullWindow(win') \/ InTable(regions', win')
      /\ \A a : WindowOwns(regions, win, a) => WindowOwns(regions', win', a)
  BY <1>1, <1>2, TableKept
<1>4. ASSUME pc' + ILen < PcLimit, call'.at + ILen < PcLimit,
             \/ call'.phase \notin {"code hook", "read"}
             \/ call.phase \in {"code hook", "read"} /\ call'.at = call.at
      PROVE  LoopInv'
  BY <1>1, <1>3, <1>4, LoopInvFrom
<1>5. CASE Host
  <2>1. pc' + ILen < PcLimit /\ UNCHANGED call /\ call.phase = "idle"
    BY <1>5, PcAfterClear DEF Host
  <2> QED BY <1>1, <1>4, <2>1
<1>6. ASSUME NEW max \in 0 .. MaxBatch, Begin(max) PROVE LoopInv'
  <2>1. call'.at + ILen < PcLimit /\ call'.phase \notin {"code hook", "read"}
    <3>1. CASE max = 0
      BY <1>6, <3>1, ReturnedIsClear DEF Begin
    <3>2. CASE max # 0
      <4>1. call' = [Returned(TRUE, 0) EXCEPT !.phase = "fetch", !.max = max, !.from = pc]
        BY <1>6, <3>2 DEF Begin
      <4> QED BY <4>1, ReturnedIsClear
    <3> QED BY <3>1, <3>2
  <2> QED BY <1>1, <1>4, <1>6, <2>1 DEF Begin
<1>7. CASE CodeHook
  <2>1. pc' + ILen < PcLimit /\ call.phase = "code hook"
    BY <1>7, PcAfterClear DEF CodeHook
  <2>2. CASE call' = Returned(FALSE, 0)
    BY <1>4, <2>1, <2>2, ReturnedIsClear
  <2>3. CASE \/ call' = [call EXCEPT !.hook = call.hook + 1]
             \/ call' = [call EXCEPT !.hook = 0, !.phase = "read"]
    <3>1. call'.at = call.at
      BY <1>1, <2>3 DEF Call
    <3> QED BY <1>1, <1>4, <2>1, <3>1
  <2> QED BY <1>7, <2>2, <2>3 DEF CodeHook
<1>8. ASSUME NEW p, p + ILen < PcLimit, Complete(p) \/ Rewind PROVE LoopInv'
  BY <1>4, <1>8, EndIsClear
<1>9. CASE Execute
  <2>1. CASE Complete(pc) \/ Rewind
    BY <1>1, <1>8, <2>1
  <2>2. ASSUME NEW p \in Targets, Complete(p) PROVE LoopInv'
    BY <1>8, <2>2 DEF StaysClearOfTop
  <2>3. CASE call' = [call EXCEPT !.phase = "interrupt hook", !.hook = 1] /\ UNCHANGED pc
    <3>1. call'.at = call.at /\ call'.phase = "interrupt hook"
      BY <1>1, <2>3 DEF Call
    <3> QED BY <1>1, <1>4, <2>3, <3>1
  <2> QED BY <1>9, <2>1, <2>2, <2>3 DEF Execute
<1>10. CASE InterruptHook
  <2>1. PICK p \in PcAfter(IntHookMay) :
          \/ Complete(p) \/ Rewind
          \/ pc' = p /\ call' = [call EXCEPT !.hook = call.hook + 1]
    BY <1>10 DEF InterruptHook
  <2>2. p + ILen < PcLimit
    BY PcAfterClear
  <2>3. CASE pc' = p /\ call' = [call EXCEPT !.hook = call.hook + 1]
    <3>1. call'.at = call.at /\ call'.phase = "interrupt hook"
      BY <1>1, <1>10, <2>3 DEF Call, InterruptHook
    <3> QED BY <1>1, <1>4, <2>2, <2>3, <3>1
  <2> QED BY <1>8, <2>1, <2>2, <2>3
<1> QED BY <1>5, <1>6, <1>7, <1>9, <1>10

\* Every step of the engine is a step of the loop.
LEMMA StepIsLoopStep ==
  ASSUME BusAssumption, LoopAssumption, CacheAssumption, StaysClearOfTop, NobodyUnmaps,
         LoopInv, [Next]_vars
  PROVE  LoopInv' /\ [LoopNext]_loopVars
<1>1. CacheInv'
  BY NextKeepsCacheInv DEF LoopInv
<1>2. CASE UNCHANGED vars
  <2>1. UNCHANGED <<regions, pc, call, win>>
    BY <1>2 DEF vars
  <2> QED BY <1>1, <1>2, <2>1 DEF vars, loopVars, LoopInv, WindowHolds
<1>3. CASE EnterWindow
  BY <1>1, <1>3, EnterIsEnter DEF LoopNext
<1>4. CASE ReadThroughPointer
  BY <1>1, <1>4, ReadIsRead DEF LoopNext
<1>5. CASE /\ UNCHANGED engineVars
           /\ \/ Host \/ CodeHook \/ Execute \/ InterruptHook
              \/ \E max \in 0 .. MaxBatch : Begin(max)
  BY <1>1, <1>5, OtherStepsKeepLoopInv DEF LoopNext
<1> QED BY <1>2, <1>3, <1>4, <1>5 DEF Next, Step

\* In the initial state there is no region, and no pointer.
LEMMA InitIsLoop ==
  ASSUME BusAssumption, LoopAssumption, CacheAssumption, StaysClearOfTop, Init
  PROVE  LoopInit /\ LoopInv
<1>1. CacheInv
  <2>1. TypeOK
    BY InitTyped
  <2>2. CacheSound
    BY DEF Init, CacheSound, EmptyEntry
  <2>3. ExecutesWhatWasRead
    BY DEF Init, LoopInit, Returned, ExecutesWhatWasRead
  <2> QED BY <2>1, <2>2, <2>3 DEF CacheInv
<1>2. regions = <<>> /\ pc = 0 /\ call = Returned(TRUE, 0) /\ NullWindow(win)
  BY DEF Init, LoopInit, NullWindow
<1>3. Tidy(regions) /\ TableClear(regions)
  BY <1>2 DEF Tidy, TableClear
<1>4. 0 + ILen < PcLimit
  BY DEF StaysClearOfTop, LoopAssumption
<1> QED
  BY <1>1, <1>2, <1>3, <1>4, ReturnedIsClear DEF LoopInv, WindowHolds, Init

\* The direct pointer into RAM and the decode cache (armv7/mod.rs and
\* rv32i/mod.rs, refresh_fetch_ptr and step_batch) never show: as long as nobody
\* unmaps and the code keeps clear of the top of the PC's range, the engine does
\* what reading and decoding every instruction from the bus would do, with hooks
\* that patch the code, map memory and divert the PC at every point where they run.
THEOREM EngineImplementsStepLoop ==
  ASSUME NobodyUnmaps, StaysClearOfTop
  PROVE  Spec => ImplementsStepLoop
<1>1. Init => LoopInit /\ LoopInv
  BY InitIsLoop, BusAssumption, LoopAssumption, CacheAssumption, StaysClearOfTop
<1>2. LoopInv /\ [Next]_vars => LoopInv' /\ [LoopNext]_loopVars
  BY StepIsLoopStep, BusAssumption, LoopAssumption, CacheAssumption, StaysClearOfTop, NobodyUnmaps
<1> QED BY <1>1, <1>2, PTL DEF Spec, ImplementsStepLoop, LoopSpec
=============================================================================
