--------------------------- MODULE EmbedderProofs ----------------------------
(***************************************************************************)
(* What the host works with besides the engine: the ports, the debugger    *)
(* and the loaders, each in a part of its own with its inductive           *)
(* invariant, and at the end the embedder that has them all.               *)
(***************************************************************************)
EXTENDS Embedder, MemoryBusProofs, FiniteSetTheorems, SequenceTheorems

(***************************************************************************)
(* For every set of accesses and whatever the host does between two of     *)
(* them: the serial line gets each byte once and in order, what a load     *)
(* reports of a pin is a level the pin had while the load went on, and the *)
(* port with its words, shifts and masks implements RegisterBytes.         *)
(*                                                                         *)
(* The first needs that only positions of bytes that were meant are        *)
(* refused (LineInv).  The second needs to know the first byte of a        *)
(* halfword load while the second is still to come, and that the levels    *)
(* seen include those of now (PinInv).  The third is about one bit at a    *)
(* time: bit b of byte 4q + s is bit 8s + b of register q (ByteAt).  What  *)
(* a read reports and what a write leaves is stated for a bit of a         *)
(* register first (DownBit, ReplacedBit), and then for the bytes an offset *)
(* names (ReadIsBytes, WriteIsBytes).                                      *)
(***************************************************************************)

-----------------------------------------------------------------------------
(* Types                                                                   *)

CallType == [op : {"none", "read", "write"}, dev : {"gpio", "uart"}, off : Nat, n : {1, 2, 4},
             val : SUBSET Word, done : {1, 2, 4}]

PortType == [0 .. 7 -> SUBSET Word]

TypedInv ==
    /\ port \in PortType
    /\ call \in CallType
    /\ call.done = call.n \/ (call.n = 2 /\ call.done = 1)
    /\ driven \subseteq Pins
    /\ levels \in [Pins -> SUBSET BOOLEAN]

\* Shifting and cutting words gives words.
LEMMA ShiftTypes ==
  ASSUME NEW val \in SUBSET Word, NEW k \in Nat, NEW n \in {1, 2, 4}
  PROVE  /\ Up(val, k) \in SUBSET Word /\ Down(val, k) \in SUBSET Word
         /\ Low(val, n) \in SUBSET Word /\ Low(val, 1) \in SUBSET (0 .. 7)
<1> QED
  BY DEF Up, Down, Low

\* A shift within a register.
LEMMA BitShiftRange ==
  ASSUME NEW off \in Nat
  PROVE  /\ off % 4 \in 0 .. 3 /\ off \div 4 \in Nat /\ off = 4 * (off \div 4) + (off % 4)
         /\ BitShift(off) \in {0, 8, 16, 24} /\ BitShift(off) \in Nat
<1>1. off % 4 \in 0 .. 3 /\ off \div 4 \in Nat /\ off = 4 * (off \div 4) + (off % 4)
  BY SMT
<1> HIDE DEF BitShift
<1>2. \A x \in 0 .. 3 : 8 * x \in {0, 8, 16, 24}
  BY SMT
<1> QED
  BY <1>1, <1>2 DEF BitShift

\* Reads and writes of the port, in their types.
LEMMA GpioTypes ==
  ASSUME NEW p \in PortType, NEW off \in Nat, NEW n \in {1, 2, 4}, NEW val \in SUBSET Word
  PROVE  /\ GpioRead(p, off, n) \in SUBSET Word
         /\ GpioRead(p, off, 1) \in SUBSET (0 .. 7)
         /\ GpioWritten(p, off, val, n) \in PortType
         /\ off \div 4 # 4 => GpioWritten(p, off, val, n)[4] = p[4]
<1>1. DOMAIN p = 0 .. 7 /\ \A r \in 0 .. 7 : p[r] \in SUBSET Word
  BY DEF PortType
<1>2. /\ GpioRead(p, off, n) \in SUBSET Word
      /\ GpioRead(p, off, 1) \in SUBSET (0 .. 7)
  <2>1. CASE off \div 4 \notin 0 .. 7
    BY <1>1, <2>1 DEF GpioRead
  <2>2. CASE off \div 4 \in 0 .. 7
    <3>1. p[off \div 4] \in SUBSET Word /\ BitShift(off) \in Nat
      BY <1>1, <2>2, BitShiftRange
    <3> DEFINE down == Down(p[off \div 4], BitShift(off))
    <3>2. down \in SUBSET Word
      BY <3>1, ShiftTypes
    <3>3. Low(down, n) \in SUBSET Word /\ Low(down, 1) \in SUBSET (0 .. 7)
      <4> HIDE DEF down
      <4> QED
        BY <3>2, ShiftTypes
    <3> QED
      BY <1>1, <2>2, <3>1, <3>3 DEF GpioRead
  <2> QED
    BY <2>1, <2>2
<1>3. ASSUME NEW reg \in SUBSET Word PROVE Replaced(reg, off, val, n) \in SUBSET Word
  BY BitShiftRange, ShiftTypes DEF Replaced
<1>4. CASE off \div 4 \notin 0 .. 7
  BY <1>1, <1>2, <1>4 DEF GpioWritten
<1>5. CASE off \div 4 \in 0 .. 7
  <2>1. PICK x \in SUBSET Word : GpioWritten(p, off, val, n) = [p EXCEPT ![off \div 4] = x]
    BY <1>1, <1>3, <1>5 DEF GpioWritten
  <2> QED
    BY <1>1, <1>2, <1>5, <2>1 DEF PortType
<1> QED
  BY <1>4, <1>5

\* What the serial line answers is a word.
LEMMA UartTypes ==
  ASSUME NEW off \in Nat, NEW n \in {1, 2, 4}
  PROVE  UartRead(off, n) \in SUBSET Word /\ UartByte(off) \in SUBSET Word
<1> QED
  BY DEF UartRead, UartByte, Up, Word

\* A call that begins.
LEMMA CalledTypes ==
  ASSUME NEW op \in {"read", "write"}, NEW dev \in {"gpio", "uart"}, NEW off \in Nat,
         NEW n \in {1, 2, 4}, NEW val \in SUBSET Word, Called(op, dev, off, n, val)
  PROVE  /\ call' \in CallType
         /\ call'.done = call'.n \/ (call'.n = 2 /\ call'.done = 1)
         /\ levels' \in [Pins -> SUBSET BOOLEAN]
<1>1. levels' \in [Pins -> SUBSET BOOLEAN]
  <2>1. \A pin \in Pins : {high \in BOOLEAN : high <=> pin \in driven} \in SUBSET BOOLEAN
    BY Zenon
  <2> QED
    BY <2>1, Zenon DEF Called
<1>2. /\ call' \in CallType
      /\ call'.done = call'.n \/ (call'.n = 2 /\ call'.done = 1)
  BY DEF Called, CallType
<1> QED
  BY <1>1, <1>2

\* The second half of a call.
LEMMA SecondTypes ==
  ASSUME TypedInv, Busy, NEW val \in SUBSET Word, call' = [call EXCEPT !.val = val, !.done = 2]
  PROVE  /\ call' \in CallType /\ call'.done = call'.n
         /\ call'.op = call.op /\ call'.dev = call.dev /\ call'.off = call.off
         /\ call'.n = 2 /\ call.n = 2 /\ call.done = 1 /\ call'.val = val
<1>1. call \in CallType /\ call.n = 2 /\ call.done = 1
  BY DEF TypedInv, CallType, Busy
<1>2. call' = [op |-> call.op, dev |-> call.dev, off |-> call.off, n |-> call.n, val |-> val,
               done |-> 2]
  BY <1>1 DEF CallType
<1> QED
  BY <1>1, <1>2 DEF CallType

\* A step of the host between two halves, or after a call.
LEMMA BetweenTypes ==
  ASSUME TypedInv, NEW seen \in [Pins -> SUBSET BOOLEAN], Between(seen)
  PROVE  /\ call' \in CallType
         /\ call'.done = call'.n \/ (call'.n = 2 /\ call'.done = 1)
         /\ levels' \in [Pins -> SUBSET BOOLEAN]
<1>1. CASE Busy
  BY <1>1 DEF Between, TypedInv
<1>2. CASE ~Busy
  <2>1. levels' \in [Pins -> SUBSET BOOLEAN]
    BY <1>2, Zenon DEF Between
  <2>2. call' = NoCall
    BY <1>2 DEF Between
  <2> QED
    BY <2>1, <2>2 DEF NoCall, CallType
<1> QED
  BY <1>1, <1>2

\* Every step keeps the types.
LEMMA TypedStep ==
  ASSUME PortsAssumption, TypedInv, [PortNext \/ LineNext]_portVars
  PROVE  TypedInv'
<1>1. /\ Offsets \subseteq Nat /\ LineOffsets \subseteq Nat
      /\ Values \subseteq SUBSET Word /\ LineValues \subseteq SUBSET Word
      /\ Pins \subseteq 0 .. 31
  BY DEF PortsAssumption, Word
<1>2. /\ port \in PortType /\ driven \subseteq Pins /\ levels \in [Pins -> SUBSET BOOLEAN]
      /\ call.off \in Nat /\ call.val \in SUBSET Word
  BY DEF TypedInv, CallType
<1>3. ASSUME NEW off \in Offsets, NEW n \in {1, 2, 4}, GuestRead(off, n) PROVE TypedInv'
  <2>1. PICK m \in {1, 2, 4} : Called("read", "gpio", off, n, GpioRead(port, off, m))
    BY <1>3 DEF GuestRead
  <2>2. GpioRead(port, off, m) \in SUBSET Word
    BY <1>1, <1>2, GpioTypes
  <2>3. UNCHANGED <<port, driven>>
    BY <1>3 DEF GuestRead
  <2> QED
    BY <1>1, <1>2, <2>1, <2>2, <2>3, CalledTypes DEF TypedInv
<1>4. CASE GuestReadsHigh
  <2>1. call.val \cup Up(GpioRead(port, call.off + 1, 1), 8) \in SUBSET Word
    <3>1. GpioRead(port, call.off + 1, 1) \in SUBSET Word
      <4>1. call.off + 1 \in Nat /\ 1 \in {1, 2, 4} /\ {} \in SUBSET Word
        BY <1>2
      <4> QED
        BY <1>2, <4>1, GpioTypes
    <3> QED
      BY <1>2, <3>1, ShiftTypes
  <2>2. /\ call' = [call EXCEPT !.val = call.val \cup Up(GpioRead(port, call.off + 1, 1), 8),
                                !.done = 2]
        /\ Busy /\ UNCHANGED <<port, driven, levels>>
    BY <1>4 DEF GuestReadsHigh
  <2> QED
    BY <1>2, <2>1, <2>2, SecondTypes DEF TypedInv
<1>5. ASSUME NEW off \in Offsets, NEW n \in {1, 2, 4}, NEW val \in Values, GuestWrite(off, n, val)
      PROVE  TypedInv'
  <2>1. PICK m \in {1, 2, 4}, v \in {val, Low(val, 1)} : StoresGpio(off, m, v)
    BY <1>5 DEF GuestWrite
  <2>2. v \in SUBSET Word /\ val \in SUBSET Word /\ off \in Nat
    BY <1>1, ShiftTypes
  <2>3. port' \in PortType
    BY <1>2, <2>1, <2>2, GpioTypes DEF StoresGpio
  <2>4. Called("write", "gpio", off, n, val) /\ driven' = driven
    BY <1>5 DEF GuestWrite
  <2> QED
    BY <1>2, <2>2, <2>3, <2>4, CalledTypes DEF TypedInv
<1>6. CASE GuestWritesHigh
  <2>1. Low(Down(call.val, 8), 1) \in SUBSET Word
    BY <1>2, ShiftTypes
  <2>2. StoresGpio(call.off + 1, 1, Low(Down(call.val, 8), 1))
    BY <1>6 DEF GuestWritesHigh
  <2>3. port' \in PortType
    BY <1>2, <2>1, <2>2, GpioTypes DEF StoresGpio
  <2>4. Busy /\ call' = [call EXCEPT !.done = 2] /\ UNCHANGED <<driven, levels>>
    BY <1>6 DEF GuestWritesHigh
  <2> QED
    BY <1>2, <2>3, <2>4 DEF TypedInv, CallType, Busy
<1>7. ASSUME NEW pin \in Pins, NEW high \in BOOLEAN, HostSetsPin(pin, high) PROVE TypedInv'
  <2>1. port' \in PortType
    <3>1. pin \in Word
      BY <1>1 DEF Word
    <3>2. \A reg \in SUBSET Word : reg \cup {pin} \in SUBSET Word /\ reg \ {pin} \in SUBSET Word
      BY <3>1
    <3> QED
      BY <1>2, <1>7, <3>2 DEF HostSetsPin, PinSet, PortType
  <2>2. driven' \subseteq Pins
    BY <1>2, <1>7 DEF HostSetsPin
  <2>3. [levels EXCEPT ![pin] = levels[pin] \cup {high}] \in [Pins -> SUBSET BOOLEAN]
    BY <1>2
  <2>4. Between([levels EXCEPT ![pin] = levels[pin] \cup {high}])
    BY <1>7 DEF HostSetsPin
  <2> QED
    BY <2>1, <2>2, <2>3, <2>4, BetweenTypes DEF TypedInv
<1>8. ASSUME NEW off \in Offsets, HostReads16(off) PROVE TypedInv'
  BY <1>2, <1>8, BetweenTypes DEF HostReads16, TypedInv
<1>9. ASSUME NEW off \in Offsets, NEW val \in Values, HostWrites16(off, val) PROVE TypedInv'
  <2>1. Low(val, 2) \in SUBSET Word /\ off \in Nat
    BY <1>1, ShiftTypes
  <2>2. StoresGpio(off, 2, Low(val, 2)) /\ Between(levels) /\ driven' = driven
    BY <1>9 DEF HostWrites16
  <2>3. port' \in PortType
    BY <1>2, <2>1, <2>2, GpioTypes DEF StoresGpio
  <2> QED
    BY <1>2, <2>2, <2>3, BetweenTypes DEF TypedInv
<1>10. CASE HostLooksAtLed
  BY <1>2, <1>10, BetweenTypes DEF HostLooksAtLed, TypedInv
<1>11. ASSUME NEW off \in LineOffsets, NEW n \in {1, 2, 4}, GuestReadsLine(off, n)
       PROVE  TypedInv'
  <2>1. PICK m \in {1, 2, 4} : Called("read", "uart", off, n, UartRead(off, m))
    BY <1>11 DEF GuestReadsLine
  <2>2. off \in Nat /\ UartRead(off, m) \in SUBSET Word
    BY <1>1, UartTypes
  <2>3. UNCHANGED <<port, driven>>
    BY <1>11 DEF GuestReadsLine
  <2> QED
    BY <1>2, <2>1, <2>2, <2>3, CalledTypes DEF TypedInv
<1>12. CASE GuestReadsLineHigh
  <2>1. call.val \cup Up(UartByte(call.off + 1), 8) \in SUBSET Word
    BY <1>2, UartTypes, ShiftTypes
  <2>2. /\ call' = [call EXCEPT !.val = call.val \cup Up(UartByte(call.off + 1), 8), !.done = 2]
        /\ Busy /\ UNCHANGED <<port, driven, levels>>
    BY <1>12 DEF GuestReadsLineHigh
  <2> QED
    BY <1>2, <2>1, <2>2, SecondTypes DEF TypedInv
<1>13. ASSUME NEW off \in LineOffsets, NEW n \in {1, 2, 4}, NEW val \in LineValues,
              GuestSends(off, n, val)
       PROVE  TypedInv'
  <2>1. Called("write", "uart", off, n, val) /\ UNCHANGED <<port, driven>>
    BY <1>13 DEF GuestSends
  <2>2. off \in Nat /\ val \in SUBSET Word
    BY <1>1
  <2> QED
    BY <1>2, <2>1, <2>2, CalledTypes DEF TypedInv
<1>14. CASE GuestSendsHigh
  <2>1. Busy /\ call' = [call EXCEPT !.done = 2] /\ UNCHANGED <<port, driven, levels>>
    BY <1>14 DEF GuestSendsHigh
  <2> QED
    BY <1>2, <2>1 DEF TypedInv, CallType, Busy
<1>15. CASE UNCHANGED portVars
  BY <1>15 DEF portVars, TypedInv
<1> QED
  BY <1>3, <1>4, <1>5, <1>6, <1>7, <1>8, <1>9, <1>10, <1>11, <1>12, <1>13, <1>14, <1>15
  DEF PortNext, LineNext

\* An idle board.
LEMMA PortsInitTyped ==
  ASSUME PortsAssumption, PortsInit PROVE TypedInv
<1>1. port \in PortType
  BY DEF PortsInit, PortsAssumption, PortType, Word
<1>2. levels \in [Pins -> SUBSET BOOLEAN] /\ driven \subseteq Pins
  BY Zenon DEF PortsInit
<1>3. call \in CallType /\ call.done = call.n
  BY DEF PortsInit, NoCall, CallType
<1> QED
  BY <1>1, <1>2, <1>3 DEF TypedInv

\* The types hold in every behaviour.
THEOREM AlwaysTyped ==
  ASSUME PortsAssumption PROVE PortsSpec => []TypedInv
<1>1. PortsInit => TypedInv
  BY PortsInitTyped
<1>2. TypedInv /\ [PortNext \/ LineNext]_portVars => TypedInv'
  BY TypedStep
<1> QED
  BY <1>1, <1>2, PTL DEF PortsSpec

-----------------------------------------------------------------------------
(* The serial line                                                         *)

LineInv ==
    /\ line \in Seq(SUBSET (0 .. 7)) /\ meant \in Seq(SUBSET (0 .. 7))
    /\ refused \subseteq 1 .. Len(meant)
    /\ Len(line) + Cardinality(refused) = Len(meant)
    /\ \A i \in DOMAIN meant \ refused :
          line[Cardinality((1 .. i) \ refused)] = meant[i]

\* Of the first i positions, as many are not refused as the difference says.
LEMMA Remaining ==
  ASSUME NEW n \in Nat, NEW R \in SUBSET (1 .. n), NEW i \in 1 .. n, i \notin R
  PROVE  Cardinality((1 .. i) \ R) \in 1 .. n - Cardinality(R)
<1>1. IsFiniteSet(1 .. n) /\ Cardinality(1 .. n) = n
  BY FS_Interval
<1>2. IsFiniteSet(R) /\ Cardinality(R) \in Nat
  BY <1>1, FS_Subset, FS_CardinalityType
<1>3. /\ IsFiniteSet((1 .. n) \ R)
      /\ Cardinality((1 .. n) \ R) = n - Cardinality((1 .. n) \cap R)
  BY <1>1, FS_Difference
<1>4. (1 .. n) \cap R = R
  OBVIOUS
<1>5. (1 .. i) \ R \subseteq (1 .. n) \ R
  OBVIOUS
<1>6. /\ IsFiniteSet((1 .. i) \ R)
      /\ Cardinality((1 .. i) \ R) <= Cardinality((1 .. n) \ R)
  BY <1>3, <1>5, FS_Subset
<1>7. i \in (1 .. i) \ R
  OBVIOUS
<1>8. Cardinality((1 .. i) \ R) \in Nat /\ Cardinality((1 .. i) \ R) # 0
  BY <1>6, <1>7, FS_CardinalityType, FS_EmptySet
<1> QED
  BY <1>2, <1>3, <1>4, <1>6, <1>8

\* Counting positions when one more comes behind them.
LEMMA Positions ==
  ASSUME NEW n \in Nat, NEW R \in SUBSET (1 .. n)
  PROVE  /\ IsFiniteSet(R) /\ Cardinality(R) \in Nat
         /\ R \subseteq 1 .. n + 1 /\ R \cup {n + 1} \subseteq 1 .. n + 1
         /\ Cardinality(R \cup {n + 1}) = Cardinality(R) + 1
         /\ Cardinality((1 .. n + 1) \ R) = (n + 1) - Cardinality(R)
         /\ \A i \in 1 .. n : (1 .. i) \ (R \cup {n + 1}) = (1 .. i) \ R
<1>1. \A i \in R : i \in 1 .. n /\ i \in 1 .. n + 1 /\ i # n + 1
  OBVIOUS
<1>2. IsFiniteSet(1 .. n) /\ IsFiniteSet(1 .. n + 1) /\ Cardinality(1 .. n + 1) = n + 1
  BY FS_Interval
<1>3. IsFiniteSet(R) /\ Cardinality(R) \in Nat
  BY <1>2, FS_Subset, FS_CardinalityType
<1>4. n + 1 \in 1 .. n + 1 /\ n + 1 \notin R
  BY <1>1
<1>5. Cardinality(R \cup {n + 1}) = Cardinality(R) + 1
  BY <1>3, <1>4, FS_AddElement
<1>6. (1 .. n + 1) \cap R = R
  BY <1>1, Zenon
<1>7. Cardinality((1 .. n + 1) \ R) = (n + 1) - Cardinality(R)
  <2>1. Cardinality((1 .. n + 1) \ R) = Cardinality(1 .. n + 1) - Cardinality((1 .. n + 1) \cap R)
    BY <1>2, FS_Difference, Zenon
  <2> QED
    BY <1>2, <1>6, <2>1, Zenon
<1>8. ASSUME NEW i \in 1 .. n PROVE (1 .. i) \ (R \cup {n + 1}) = (1 .. i) \ R
  <2>1. n + 1 \notin 1 .. i
    OBVIOUS
  <2> QED
    BY <2>1, Zenon
<1>9. R \subseteq 1 .. n + 1 /\ R \cup {n + 1} \subseteq 1 .. n + 1
  BY <1>1, <1>4, Zenon
<1> QED
  BY <1>3, <1>5, <1>7, <1>8, <1>9

\* A sequence with one more element.
LEMMA LineAppended ==
  ASSUME NEW T, NEW s \in Seq(T), NEW e \in T
  PROVE  /\ Append(s, e) \in Seq(T) /\ Len(s) \in Nat
         /\ DOMAIN s = 1 .. Len(s) /\ DOMAIN Append(s, e) = 1 .. Len(s) + 1
         /\ Len(Append(s, e)) = Len(s) + 1
         /\ Append(s, e)[Len(s) + 1] = e
         /\ \A i \in 1 .. Len(s) : Append(s, e)[i] = s[i]
<1> QED
  BY SMT

\* A byte that is sent or refused.
LEMMA ByteSentKeeps ==
  ASSUME LineInv, NEW b \in SUBSET (0 .. 7), NEW took \in BOOLEAN,
         line' = IF took THEN Append(line, b) ELSE line,
         refused' = IF took THEN refused ELSE refused \cup {Len(line) + Cardinality(refused) + 1},
         meant' = Append(meant, b)
  PROVE  LineInv'
<1> DEFINE n == Len(meant)
           l == Len(line)
           c == Cardinality(refused)
           place(i) == Cardinality((1 .. i) \ refused)
<1>1. /\ n \in Nat /\ DOMAIN meant = 1 .. n
      /\ meant' \in Seq(SUBSET (0 .. 7)) /\ Len(meant') = n + 1 /\ DOMAIN meant' = 1 .. n + 1
      /\ meant'[n + 1] = b /\ \A i \in 1 .. n : meant'[i] = meant[i]
  BY LineAppended DEF LineInv
<1>2. /\ l \in Nat
      /\ Append(line, b) \in Seq(SUBSET (0 .. 7)) /\ Len(Append(line, b)) = l + 1
      /\ Append(line, b)[l + 1] = b /\ \A i \in 1 .. l : Append(line, b)[i] = line[i]
  BY LineAppended DEF LineInv
<1>3. refused \in SUBSET (1 .. n)
  BY DEF LineInv
<1>4. /\ c \in Nat
      /\ refused \subseteq 1 .. n + 1 /\ refused \cup {n + 1} \subseteq 1 .. n + 1
      /\ Cardinality(refused \cup {n + 1}) = c + 1
      /\ place(n + 1) = (n + 1) - c
      /\ \A i \in 1 .. n : (1 .. i) \ (refused \cup {n + 1}) = (1 .. i) \ refused
  <2> HIDE DEF n
  <2> QED
    BY <1>1, <1>3, Positions
<1>5. l = n - c
  BY <1>1, <1>2, <1>4 DEF LineInv
<1>6. ASSUME NEW i \in 1 .. n, i \notin refused PROVE place(i) \in 1 .. l
  <2> HIDE DEF n, l
  <2> QED
    BY <1>1, <1>3, <1>5, <1>6, Remaining
<1>7. ASSUME NEW i \in 1 .. n, i \notin refused PROVE line[place(i)] = meant[i]
  BY <1>1, <1>7 DEF LineInv
<1>8. CASE took
  <2>1. line' = Append(line, b) /\ refused' = refused
    BY <1>8
  <2>2. refused' \subseteq 1 .. n + 1 /\ Cardinality(refused') = c
    BY <1>4, <2>1
  <2>3. Len(line') + Cardinality(refused') = Len(meant')
    <3> HIDE DEF n, l, c
    <3> QED
      BY <1>1, <1>2, <1>4, <1>5, <2>1, <2>2
  <2>4. ASSUME NEW i \in 1 .. n + 1, i \notin refused
        PROVE  Append(line, b)[place(i)] = meant'[i]
    <3> HIDE DEF n, l, c, place
    <3>1. CASE i \in 1 .. n
      <4>1. place(i) \in 1 .. l /\ line[place(i)] = meant[i]
        BY <1>6, <1>7, <2>4, <3>1
      <4> QED
        BY <1>1, <1>2, <3>1, <4>1
    <3>2. CASE i = n + 1
      <4>1. place(i) = l + 1
        BY <1>1, <1>2, <1>4, <1>5, <3>2
      <4> QED
        BY <1>1, <1>2, <3>2, <4>1
    <3>3. i \in 1 .. n \/ i = n + 1
      BY <1>1
    <3> QED
      BY <3>1, <3>2, <3>3, Zenon
  <2>5. \A i \in DOMAIN meant' \ refused' : line'[Cardinality((1 .. i) \ refused')] = meant'[i]
    BY <1>1, <2>1, <2>4
  <2> QED
    BY <1>1, <1>2, <2>1, <2>2, <2>3, <2>5 DEF LineInv
<1>9. CASE ~took
  <2>1. refused' = refused \cup {n + 1} /\ line' = line
    <3>1. l + c + 1 = n + 1
      <4> HIDE DEF n, l, c
      <4> QED
        BY <1>1, <1>2, <1>4, <1>5
    <3> QED
      BY <1>9, <3>1
  <2>2. refused' \subseteq 1 .. n + 1 /\ Cardinality(refused') = c + 1
    BY <1>4, <2>1
  <2>3. Len(line') + Cardinality(refused') = Len(meant')
    <3>1. Len(line') = l
      BY <2>1
    <3> HIDE DEF n, l, c
    <3> QED
      BY <1>1, <1>2, <1>4, <1>5, <2>2, <3>1
  <2>4. ASSUME NEW i \in DOMAIN meant' \ refused'
        PROVE  line'[Cardinality((1 .. i) \ refused')] = meant'[i]
    <3> HIDE DEF n, l, c
    <3>1. i \in 1 .. n /\ i \notin refused
      BY <1>1, <2>1
    <3>2. (1 .. i) \ refused' = (1 .. i) \ refused
      BY <1>4, <2>1, <3>1
    <3>3. line[place(i)] = meant[i] /\ meant'[i] = meant[i]
      BY <1>1, <1>7, <3>1
    <3> QED
      BY <2>1, <3>2, <3>3
  <2>5. line' \in Seq(SUBSET (0 .. 7))
    BY <2>1 DEF LineInv
  <2> QED
    BY <1>1, <2>2, <2>3, <2>4, <2>5 DEF LineInv
<1> QED
  BY <1>8, <1>9

\* Every step keeps it: only stores to the line touch it, and of those only
\* the byte at offset 0.
LEMMA LineStep ==
  ASSUME PortsAssumption, TypedInv, LineInv, [PortNext \/ LineNext]_portVars
  PROVE  LineInv'
<1>1. ASSUME UNCHANGED <<line, refused, meant>> PROVE LineInv'
  BY <1>1 DEF LineInv
<1>2. ASSUME NEW off \in LineOffsets, NEW n \in {1, 2, 4}, NEW val \in LineValues,
             GuestSends(off, n, val)
      PROVE  LineInv'
  <2>1. CASE off = 0
    <3>1. PICK took \in BOOLEAN : UartWrite(off, val, took)
      BY <1>2 DEF GuestSends
    <3>2. Low(val, 1) \in SUBSET (0 .. 7)
      BY DEF Low
    <3>3. meant' = Append(meant, Low(val, 1))
      BY <1>2, <2>1 DEF GuestSends
    <3>4. /\ line' = IF took THEN Append(line, Low(val, 1)) ELSE line
          /\ refused' = IF took THEN refused
                        ELSE refused \cup {Len(line) + Cardinality(refused) + 1}
      BY <2>1, <3>1 DEF UartWrite, Sends
    <3> QED
      BY <3>2, <3>3, <3>4, ByteSentKeeps
  <2>2. CASE off # 0
    BY <1>1, <1>2, <2>2 DEF GuestSends, UartWrite, Sends
  <2> QED
    BY <2>1, <2>2
<1>3. CASE GuestSendsHigh
  <2>1. call.off + 1 # 0
    BY DEF TypedInv, CallType
  <2> QED
    BY <1>1, <1>3, <2>1 DEF GuestSendsHigh, UartWrite, Sends
<1>4. ASSUME NEW off \in LineOffsets, NEW n \in {1, 2, 4}, GuestReadsLine(off, n) PROVE LineInv'
  BY <1>1, <1>4 DEF GuestReadsLine
<1>5. CASE GuestReadsLineHigh
  BY <1>1, <1>5 DEF GuestReadsLineHigh
<1>6. CASE PortNext
  BY <1>1, <1>6 DEF PortNext, GuestRead, GuestReadsHigh, GuestWrite, GuestWritesHigh, HostSetsPin,
     HostReads16, HostWrites16, HostLooksAtLed
<1>7. CASE UNCHANGED portVars
  BY <1>1, <1>7 DEF portVars
<1> QED
  BY <1>2, <1>3, <1>4, <1>5, <1>6, <1>7 DEF LineNext

\* Nothing is on the line in the beginning.
LEMMA PortsInitOnLine == PortsInit => LineInv
BY FS_EmptySet DEF PortsInit, LineInv

\* Each byte stored to the line is sent once and in order, or refused, for
\* every set of offsets and values (uart.rs, the halfwords of device/mod.rs).
THEOREM EachByteOnce ==
  ASSUME PortsAssumption PROVE PortsSpec => []SentOnce
<1>1. PortsInit => LineInv
  BY PortsInitOnLine
<1>2. TypedInv /\ LineInv /\ [PortNext \/ LineNext]_portVars => LineInv'
  BY LineStep
<1>3. LineInv => SentOnce
  BY DEF LineInv, SentOnce
<1> QED
  BY <1>1, <1>2, <1>3, AlwaysTyped, PTL DEF PortsSpec

-----------------------------------------------------------------------------
(* The pins                                                                *)

PinInv ==
    ~idrWritten =>
        /\ \A pin \in Pins : pin \in port[4] <=> pin \in driven
        /\ call.op = "read" /\ call.dev = "gpio" =>
            /\ Busy => /\ call.val \subseteq 0 .. 7
                       /\ \A pin \in Pins : (pin \in driven) \in levels[pin]
            /\ call.off \div 4 = 4 =>
                  \A b \in 0 .. (8 * call.done) - 1 :
                      PinOf(call.off, call.n, b) \in Pins =>
                          (b \in call.val) \in levels[PinOf(call.off, call.n, b)]

\* The bits a read of the input register reports.
LEMMA ReadBits ==
  ASSUME NEW p \in PortType, NEW off \in Nat, off \div 4 = 4
  PROVE  /\ GpioRead(p, off, 4) = p[4]
         /\ \A n \in {1, 2} : \A b \in 0 .. (8 * n) - 1 :
               b \in GpioRead(p, off, n) <=> b + BitShift(off) \in p[4]
<1>1. DOMAIN p = 0 .. 7 /\ p[4] \in SUBSET Word /\ BitShift(off) \in Nat
  BY BitShiftRange DEF PortType
<1>2. GpioRead(p, off, 4) = p[4]
  BY <1>1 DEF GpioRead
<1>3. ASSUME NEW n \in {1, 2}, NEW b \in 0 .. (8 * n) - 1
      PROVE  b \in GpioRead(p, off, n) <=> b + BitShift(off) \in p[4]
  <2> DEFINE k == BitShift(off)
  <2>1. GpioRead(p, off, n) = Low(Down(p[4], k), n)
    BY <1>1 DEF GpioRead
  <2>2. b \in Int /\ b \in Word /\ b \in 0 .. (8 * n) - 1 /\ k \in Nat
    BY <1>1 DEF Word
  <2> HIDE DEF k
  <2>3. \A x \in Word : x - k = b <=> x = b + k
    BY <2>2 DEF Word
  <2>4. b \in Low(Down(p[4], k), n) <=> \E x \in p[4] : x - k = b
    BY <2>2 DEF Low, Down
  <2>5. (\E x \in p[4] : x - k = b) <=> b + k \in p[4]
    BY <1>1, <2>2, <2>3
  <2> QED
    BY <2>1, <2>4, <2>5 DEF k
<1> QED
  BY <1>2, <1>3

\* The byte behind another one, unless that is the last of its register.
LEMMA NextByte ==
  ASSUME NEW off \in Nat, off \div 4 = 4
  PROVE  \/ off % 4 = 3 /\ BitShift(off) = 24
         \/ (off + 1) \div 4 = 4 /\ BitShift(off + 1) = BitShift(off) + 8
<1>1. off \in 16 .. 19
  BY BitShiftRange
<1> QED
  BY <1>1 DEF BitShift

\* A new load sees the levels of now.
LEMMA NewReadSees ==
  ASSUME PortsAssumption, TypedInv, PinInv, NEW off \in Nat, NEW n \in {1, 2, 4},
         GuestRead(off, n)
  PROVE  PinInv'
<1> DEFINE m   == IF n = 2 THEN 1 ELSE n
           val == GpioRead(port, off, m)
<1>1. /\ UNCHANGED <<port, driven, idrWritten>>
      /\ call' = [op |-> "read", dev |-> "gpio", off |-> off, n |-> n, val |-> val, done |-> m]
      /\ levels' = [pin \in Pins |-> {high \in BOOLEAN : high <=> pin \in driven}]
  BY DEF GuestRead, Called
<1> SUFFICES ASSUME ~idrWritten' PROVE PinInv'
  BY DEF PinInv
<1>2. port \in PortType /\ \A pin \in Pins : pin \in port[4] <=> pin \in driven
  BY <1>1 DEF PinInv, TypedInv
<1>3. m \in {1, 2, 4} /\ m \in {1, 4} /\ (m = 4 <=> n = 4)
  OBVIOUS
<1>4. val \subseteq 0 .. 7 \/ m = 4
  BY <1>2, <1>3, GpioTypes
<1> HIDE DEF val, m
<1>5. Busy' => val \subseteq 0 .. 7
  BY <1>1, <1>3, <1>4 DEF Busy
<1>6. \A pin \in Pins : (pin \in driven') \in levels'[pin]
  <2> SUFFICES ASSUME NEW pin \in Pins PROVE (pin \in driven') \in levels'[pin]
    OBVIOUS
  <2>1. levels'[pin] = {high \in BOOLEAN : high <=> pin \in driven}
    <3>1. levels' = [q \in Pins |-> {high \in BOOLEAN : high <=> q \in driven}]
      BY <1>1
    <3> QED
      BY <3>1, Zenon
  <2>2. pin \in driven' <=> pin \in driven
    BY <1>1
  <2>3. (pin \in driven') \in BOOLEAN
    OBVIOUS
  <2> QED
    BY <2>1, <2>2, <2>3, Zenon
<1>7. ASSUME off \div 4 = 4, NEW b \in 0 .. (8 * m) - 1, PinOf(off, n, b) \in Pins
      PROVE  (b \in val) \in levels'[PinOf(off, n, b)]
  <2>1. b \in val <=> PinOf(off, n, b) \in port[4]
    BY <1>2, <1>3, <1>7, ReadBits DEF val, PinOf
  <2>2. (b \in val) = (PinOf(off, n, b) \in driven')
    <3>1. b \in val <=> PinOf(off, n, b) \in driven'
      BY <1>1, <1>2, <1>7, <2>1
    <3> QED
      BY <3>1
  <2>3. (PinOf(off, n, b) \in driven') \in levels'[PinOf(off, n, b)]
    BY <1>6, <1>7, Zenon
  <2> QED
    BY <2>2, <2>3, Zenon
<1>8. /\ call'.off = off /\ call'.n = n /\ call'.val = val /\ call'.done = m
  BY <1>1
<1> QED
  BY <1>1, <1>2, <1>5, <1>6, <1>7, <1>8, Zenon DEF PinInv

\* The second byte of a halfword.
LEMMA SecondReadSees ==
  ASSUME PortsAssumption, TypedInv, PinInv, GuestReadsHigh
  PROVE  PinInv'
<1> DEFINE off == call.off
           high == GpioRead(port, off + 1, 1)
           val == call.val \cup Up(high, 8)
<1>1. /\ UNCHANGED <<port, driven, idrWritten, levels>> /\ Busy
      /\ call.op = "read" /\ call.dev = "gpio"
      /\ call' = [call EXCEPT !.val = val, !.done = 2]
  BY DEF GuestReadsHigh
<1>2. port \in PortType /\ off \in Nat /\ call.val \in SUBSET Word
  BY DEF TypedInv, CallType
<1>3. high \in SUBSET (0 .. 7) /\ high \in SUBSET Word
  <2>1. off + 1 \in Nat /\ 1 \in {1, 2, 4} /\ {} \in SUBSET Word
    BY <1>2
  <2> QED
    BY <1>2, <2>1, GpioTypes
<1>4. val \in SUBSET Word
  BY <1>2, <1>3, ShiftTypes
<1>5. /\ call'.op = "read" /\ call'.dev = "gpio" /\ call'.off = off /\ call'.n = 2 /\ call'.done = 2
      /\ call.n = 2 /\ call.done = 1 /\ call'.val = val
  <2> HIDE DEF val, off
  <2> QED
    BY <1>1, <1>4, SecondTypes DEF off
<1> SUFFICES ASSUME ~idrWritten' PROVE PinInv'
  BY DEF PinInv
<1>6. /\ call.val \subseteq 0 .. 7
      /\ \A pin \in Pins : pin \in port[4] <=> pin \in driven
      /\ \A pin \in Pins : (pin \in driven) \in levels[pin]
  BY <1>1 DEF PinInv
<1>7. ~Busy'
  BY <1>5 DEF Busy
<1>8. ASSUME off \div 4 = 4, NEW b \in 0 .. 15, PinOf(off, 2, b) \in Pins
      PROVE  (b \in val) \in levels[PinOf(off, 2, b)]
  <2>1. PinOf(off, 2, b) = b + BitShift(off)
    BY DEF PinOf
  <2>2. CASE b \in 0 .. 7
    <3>1. (b \in val) = (b \in call.val)
      <4>1. b \in val <=> b \in call.val
        BY <1>3, <2>2 DEF Up
      <4> QED
        BY <4>1
    <3>2. (b \in call.val) \in levels[PinOf(off, 2, b)]
      BY <1>1, <1>5, <1>8, <2>2 DEF PinInv
    <3> QED
      BY <3>1, <3>2, Zenon
  <2>3. CASE b \in 8 .. 15
    <3>1. b \in val <=> b - 8 \in high
      <4> HIDE DEF high
      <4>1. b \notin call.val
        BY <1>6, <2>3
      <4>2. b \in Up(high, 8) <=> b - 8 \in high
        BY <1>3, <2>3 DEF Up, Word
      <4> QED
        BY <4>1, <4>2
    <3>2. off % 4 # 3 \/ BitShift(off) # 24
      <4>1. PinOf(off, 2, b) \in 0 .. 31
        BY <1>8 DEF PortsAssumption
      <4> QED
        BY <2>1, <2>3, <4>1
    <3>3. (off + 1) \div 4 = 4 /\ BitShift(off + 1) = BitShift(off) + 8
      BY <1>2, <1>8, <3>2, NextByte
    <3>4. b - 8 \in high <=> (b - 8) + BitShift(off + 1) \in port[4]
      <4>1. b - 8 \in 0 .. (8 * 1) - 1 /\ off + 1 \in Nat
        BY <1>2, <2>3
      <4> QED
        BY <1>2, <3>3, <4>1, ReadBits
    <3>5. (b - 8) + BitShift(off + 1) = PinOf(off, 2, b)
      BY <1>2, <2>1, <2>3, <3>3, BitShiftRange
    <3>6. (b \in val) = (PinOf(off, 2, b) \in driven)
      <4>1. b \in val <=> PinOf(off, 2, b) \in driven
        BY <1>6, <1>8, <3>1, <3>4, <3>5
      <4> QED
        BY <4>1
    <3> QED
      BY <1>6, <1>8, <3>6, Zenon
  <2> QED
    BY <2>2, <2>3
<1>9. \A b \in 0 .. (8 * 2) - 1 : b \in 0 .. 15
  BY SMT
<1> HIDE DEF val, off
<1> QED
  BY <1>1, <1>5, <1>6, <1>7, <1>8, <1>9, Zenon DEF PinInv

\* A step that leaves the input register and the pins alone, and the load under
\* way, or ends it.
LEMMA ElsewhereSees ==
  ASSUME TypedInv, PinInv,
         ~idrWritten' => ~idrWritten /\ port'[4] = port[4],
         driven' = driven,
         \/ UNCHANGED <<call, levels>>
         \/ call'.op # "read"
         \/ call'.dev # "gpio"
  PROVE  PinInv'
<1> SUFFICES ASSUME ~idrWritten' PROVE PinInv'
  BY DEF PinInv
<1>1. \A pin \in Pins : pin \in port'[4] <=> pin \in driven'
  BY DEF PinInv
<1>2. CASE call'.op # "read" \/ call'.dev # "gpio"
  BY <1>1, <1>2 DEF PinInv
<1>3. CASE UNCHANGED <<call, levels>>
  <2>1. Busy' = Busy
    BY <1>3 DEF Busy
  <2> QED
    BY <1>1, <1>3, <2>1, Zenon DEF PinInv
<1> QED
  BY <1>2, <1>3

\* The host drives a pin.
LEMMA DrivingSees ==
  ASSUME PortsAssumption, TypedInv, PinInv, NEW pin \in Pins, NEW high \in BOOLEAN,
         HostSetsPin(pin, high)
  PROVE  PinInv'
<1>1. /\ port' = PinSet(port, pin, high) /\ idrWritten' = idrWritten
      /\ driven' = IF high THEN driven \cup {pin} ELSE driven \ {pin}
      /\ Between([levels EXCEPT ![pin] = levels[pin] \cup {high}])
  BY DEF HostSetsPin
<1> SUFFICES ASSUME ~idrWritten' PROVE PinInv'
  BY DEF PinInv
<1>2. \A q \in Pins : q \in port[4] <=> q \in driven
  BY <1>1 DEF PinInv
<1>3. port'[4] = IF high THEN port[4] \cup {pin} ELSE port[4] \ {pin}
  BY <1>1 DEF PinSet, TypedInv, PortType
<1>4. \A q \in Pins : q \in port'[4] <=> q \in driven'
  BY <1>1, <1>2, <1>3
<1>5. CASE ~Busy
  <2>1. call' = NoCall
    BY <1>1, <1>5 DEF Between
  <2>2. call'.op # "read"
    BY <2>1 DEF NoCall
  <2> QED
    BY <1>4, <2>2 DEF PinInv
<1>6. CASE Busy
  <2>1. call' = call /\ levels' = [levels EXCEPT ![pin] = levels[pin] \cup {high}]
    BY <1>1, <1>6 DEF Between
  <2>2. \A q \in Pins : levels[q] \subseteq levels'[q]
    BY <2>1 DEF TypedInv
  <2>3. high \in levels'[pin]
    BY <2>1 DEF TypedInv
  <2>4. pin \in driven' <=> high
    BY <1>1
  <2>5. \A q \in Pins : q # pin => (q \in driven' <=> q \in driven)
    BY <1>1
  <2>6. (pin \in driven') \in levels'[pin]
    BY <2>3, <2>4, Zenon
  <2>7. Busy'
    BY <1>6, <2>1 DEF Busy
  <2> SUFFICES ASSUME call.op = "read", call.dev = "gpio" PROVE PinInv'
    BY <1>4, <2>1 DEF PinInv
  <2>8. /\ call.val \subseteq 0 .. 7
        /\ \A q \in Pins : (q \in driven) \in levels[q]
        /\ call.off \div 4 = 4 =>
              \A b \in 0 .. (8 * call.done) - 1 :
                  PinOf(call.off, call.n, b) \in Pins =>
                      (b \in call.val) \in levels[PinOf(call.off, call.n, b)]
    BY <1>1, <1>6, Zenon DEF PinInv
  <2>9. ASSUME NEW q \in Pins PROVE (q \in driven') \in levels'[q]
    <3>1. CASE q = pin
      BY <2>6, <3>1, Zenon
    <3>2. CASE q # pin
      <4>1. (q \in driven') = (q \in driven)
        <5>1. q \in driven' <=> q \in driven
          BY <2>5, <3>2
        <5> QED
          BY <5>1
      <4>2. (q \in driven) \in levels'[q]
        BY <2>2, <2>8, Zenon
      <4> QED
        BY <4>1, <4>2, Zenon
    <3> QED
      BY <3>1, <3>2
  <2>10. call.off \div 4 = 4 =>
            \A b \in 0 .. (8 * call.done) - 1 :
                PinOf(call.off, call.n, b) \in Pins =>
                    (b \in call.val) \in levels'[PinOf(call.off, call.n, b)]
    BY <2>2, <2>8, Zenon
  <2> QED
    BY <1>4, <2>1, <2>8, <2>9, <2>10, Zenon DEF PinInv
<1> QED
  BY <1>5, <1>6

\* Every step keeps it.
LEMMA PinStep ==
  ASSUME PortsAssumption, TypedInv, PinInv, [PortNext \/ LineNext]_portVars
  PROVE  PinInv'
<1>1. /\ Offsets \subseteq Nat /\ LineOffsets \subseteq Nat
      /\ Values \subseteq SUBSET Word /\ call.off \in Nat /\ call.val \in SUBSET Word
      /\ port \in PortType
  BY DEF PortsAssumption, Word, TypedInv, CallType
\* What a store leaves of the input register.
<1>2. ASSUME NEW off \in Nat, NEW n \in {1, 2, 4}, NEW val \in SUBSET Word,
             StoresGpio(off, n, val)
      PROVE  ~idrWritten' => ~idrWritten /\ port'[4] = port[4]
  <2>1. off \div 4 # 4 => GpioWritten(port, off, val, n)[4] = port[4]
    BY <1>1, GpioTypes
  <2>2. port' = GpioWritten(port, off, val, n) /\ idrWritten' = (idrWritten \/ off \div 4 = 4)
    BY <1>2 DEF StoresGpio, WritesIdr
  <2> QED
    BY <2>1, <2>2
\* The host leaves the load under way alone, and ends it if it is done.
<1>3. ASSUME Between(levels) PROVE UNCHANGED <<call, levels>> \/ call'.op # "read"
  BY <1>3 DEF Between, NoCall
<1>4. ASSUME NEW off \in Offsets, NEW n \in {1, 2, 4}, GuestRead(off, n) PROVE PinInv'
  BY <1>1, <1>4, NewReadSees
<1>5. CASE GuestReadsHigh
  BY <1>5, SecondReadSees
<1>6. ASSUME NEW off \in Offsets, NEW n \in {1, 2, 4}, NEW val \in Values, GuestWrite(off, n, val)
      PROVE  PinInv'
  <2>1. PICK m \in {1, 2, 4}, v \in {val, Low(val, 1)} : StoresGpio(off, m, v)
    BY <1>6 DEF GuestWrite
  <2>2. v \in SUBSET Word /\ off \in Nat
    BY <1>1, ShiftTypes
  <2>3. call'.op # "read" /\ driven' = driven
    BY <1>6 DEF GuestWrite, Called
  <2> QED
    BY <1>2, <2>1, <2>2, <2>3, ElsewhereSees
<1>7. CASE GuestWritesHigh
  <2>1. Low(Down(call.val, 8), 1) \in SUBSET Word /\ call.off + 1 \in Nat
    <3>1. Down(call.val, 8) \in SUBSET Word /\ 1 \in {1, 2, 4}
      BY <1>1, ShiftTypes, ZenonT(40)
    <3> QED
      BY <1>1, <3>1, ShiftTypes
  <2>2. StoresGpio(call.off + 1, 1, Low(Down(call.val, 8), 1))
    BY <1>7 DEF GuestWritesHigh
  <2>3. call'.op # "read" /\ driven' = driven
    BY <1>7 DEF GuestWritesHigh, TypedInv, CallType
  <2> QED
    BY <1>2, <2>1, <2>2, <2>3, ElsewhereSees
<1>8. ASSUME NEW pin \in Pins, NEW high \in BOOLEAN, HostSetsPin(pin, high) PROVE PinInv'
  BY <1>8, DrivingSees
<1>9. ASSUME NEW off \in Offsets, HostReads16(off) PROVE PinInv'
  BY <1>3, <1>9, ElsewhereSees DEF HostReads16
<1>10. ASSUME NEW off \in Offsets, NEW val \in Values, HostWrites16(off, val) PROVE PinInv'
  <2>1. Low(val, 2) \in SUBSET Word /\ off \in Nat
    BY <1>1, ShiftTypes
  <2>2. StoresGpio(off, 2, Low(val, 2)) /\ Between(levels) /\ driven' = driven
    BY <1>10 DEF HostWrites16
  <2> QED
    BY <1>2, <1>3, <2>1, <2>2, ElsewhereSees
<1>11. CASE HostLooksAtLed
  BY <1>3, <1>11, ElsewhereSees DEF HostLooksAtLed
<1>12. CASE LineNext
  <2>1. UNCHANGED <<port, driven, idrWritten>>
    BY <1>12 DEF LineNext, GuestReadsLine, GuestReadsLineHigh, GuestSends, GuestSendsHigh
  <2>2. call'.dev # "gpio"
    <3>1. ASSUME NEW op, NEW off, NEW n, NEW val, Called(op, "uart", off, n, val)
          PROVE  call'.dev # "gpio"
      BY <3>1 DEF Called
    <3>2. CASE GuestReadsLineHigh \/ GuestSendsHigh
      BY <3>2 DEF GuestReadsLineHigh, GuestSendsHigh, TypedInv, CallType
    <3> QED
      BY <1>12, <3>1, <3>2 DEF LineNext, GuestReadsLine, GuestSends
  <2> QED
    BY <2>1, <2>2, ElsewhereSees
<1>13. CASE UNCHANGED portVars
  BY <1>13, ElsewhereSees DEF portVars
<1> QED
  BY <1>4, <1>5, <1>6, <1>7, <1>8, <1>9, <1>10, <1>11, <1>12, <1>13 DEF PortNext

\* What a load reports of a pin is a level the pin had meanwhile, and the host's
\* query answers the opposite of what it has set, for every set of accesses and
\* pins (stm32_gpio.rs, the two locked halves of a halfword).
THEOREM PinsAreRead ==
  ASSUME PortsAssumption PROVE PortsSpec => []PinsReadTruly
<1>1. PortsInit => PinInv
  <2> SUFFICES ASSUME PortsInit PROVE PinInv
    OBVIOUS
  <2>1. \A pin \in Pins : pin \in port[4] <=> pin \in driven
    BY DEF PortsInit
  <2>2. call.op # "read"
    BY DEF PortsInit, NoCall
  <2> QED
    BY <2>1, <2>2 DEF PinInv
<1>2. TypedInv /\ PinInv /\ [PortNext \/ LineNext]_portVars => PinInv'
  BY PinStep
<1>3. TypedInv /\ PinInv => PinsReadTruly
  <2> SUFFICES ASSUME TypedInv, PinInv, ~idrWritten PROVE PinsReadTruly
    BY DEF PinsReadTruly
  <2>1. \A pin \in Pins : IsIdrPinHigh(port, pin) = (pin \notin driven)
    BY Zenon DEF PinInv, IsIdrPinHigh
  <2>2. ~Busy => call.done = call.n
    BY DEF TypedInv, CallType, Busy
  <2> QED
    BY <2>1, <2>2, Zenon DEF PinInv, PinsReadTruly
<1> QED
  BY <1>1, <1>2, <1>3, AlwaysTyped, PTL DEF PortsSpec

-----------------------------------------------------------------------------
(* The port as a row of bytes                                              *)

\* The bytes of the registers p: what the refinement maps cell to.
Cell(p) == [c \in 0 .. 31 |-> {b \in 0 .. 7 : (8 * (c % 4)) + b \in p[c \div 4]}]

-----------------------------------------------------------------------------
(* Bits and bytes                                                          *)

\* A bit of a byte is a bit of its register.
LEMMA ByteAt ==
  ASSUME NEW p \in PortType, NEW q \in 0 .. 7, NEW s \in 0 .. 3
  PROVE  /\ (4 * q) + s \in 0 .. 31
         /\ Cell(p)[(4 * q) + s] = {b \in 0 .. 7 : (8 * s) + b \in p[q]}
<1>1. (4 * q) + s \in 0 .. 31 /\ ((4 * q) + s) % 4 = s /\ ((4 * q) + s) \div 4 = q
  BY SMT
<1> QED
  BY <1>1 DEF Cell

\* Every byte has a register and a place in it.
LEMMA ByteSplit ==
  ASSUME NEW c \in 0 .. 31
  PROVE  \E q \in 0 .. 7, s \in 0 .. 3 : c = (4 * q) + s
<1>1. c \div 4 \in 0 .. 7 /\ c % 4 \in 0 .. 3 /\ c = (4 * (c \div 4)) + (c % 4)
  BY SMT
<1> QED
  BY <1>1

\* The bytes an access reaches.
LEMMA ReachedBytes ==
  ASSUME NEW off \in Nat, NEW n \in {1, 2, 4}, NEW k \in 0 .. n - 1
  PROVE  LET q == off \div 4
             r == off % 4
         IN  /\ k \in Row!Reached(off, n) <=> q \in 0 .. 7 /\ (n = 4 \/ r + k < 4)
             /\ Row!Place(off, n, k) = (4 * q) + (IF n = 4 THEN k ELSE r + k)
<1> DEFINE q == off \div 4
           r == off % 4
<1>1. r \in 0 .. 3 /\ q \in Nat /\ off = (4 * q) + r
  BY SMT
<1> HIDE DEF q, r
<1>2. Row!Place(off, n, k) = (4 * q) + (IF n = 4 THEN k ELSE r + k)
  <2>1. Row!Place(off, n, k) = IF n = 4 THEN (off - r) + k ELSE off + k
    BY <1>1 DEF Row!Place, r
  <2> QED
    BY <1>1, <2>1
<1>3. off < 32 <=> q \in 0 .. 7
  BY <1>1
<1>4. ((4 * q) + (IF n = 4 THEN k ELSE r + k)) \div 4 = q <=> n = 4 \/ r + k < 4
  BY <1>1
<1>5. k \in Row!Reached(off, n) <=> Row!Place(off, n, k) \div 4 = q /\ off < 32
  BY DEF Row!Reached, q
<1> QED
  BY <1>2, <1>3, <1>4, <1>5 DEF q, r

\* A bit of a shifted and cut register.
LEMMA DownBit ==
  ASSUME NEW reg \in SUBSET Word, NEW k \in Nat, NEW n \in {1, 2}, NEW b \in 0 .. (8 * n) - 1
  PROVE  b \in Low(Down(reg, k), n) <=> b + k \in reg
<1>1. b \in Int /\ b \in Word /\ b \in 0 .. (8 * n) - 1
  BY DEF Word
<1>2. \A x \in Word : x - k = b <=> x = b + k
  BY <1>1 DEF Word
<1>3. b \in Low(Down(reg, k), n) <=> \E x \in reg : x - k = b
  BY <1>1 DEF Low, Down
<1>4. (\E x \in reg : x - k = b) <=> b + k \in reg
  BY <1>1, <1>2
<1> QED
  BY <1>3, <1>4

\* A bit of a cut value, shifted up.
LEMMA UpBit ==
  ASSUME NEW val \in SUBSET Word, NEW k \in Nat, NEW n \in {1, 2}, NEW x \in Word
  PROVE  x \in Up(Low(val, n), k) <=> x - k \in 0 .. (8 * n) - 1 /\ x - k \in val
<1>1. x \in Int /\ \A b \in Word : b + k = x <=> b = x - k
  BY DEF Word
<1>2. x \in Up(Low(val, n), k) <=> \E b \in val : b \in 0 .. (8 * n) - 1 /\ b + k = x
  BY DEF Up, Low
<1>3. (\E b \in val : b \in 0 .. (8 * n) - 1 /\ b + k = x)
         <=> x - k \in 0 .. (8 * n) - 1 /\ x - k \in val
  BY <1>1
<1> QED
  BY <1>2, <1>3

\* A bit of a register after a narrow write.
LEMMA ReplacedBit ==
  ASSUME NEW reg \in SUBSET Word, NEW off \in Nat, NEW val \in SUBSET Word, NEW n \in {1, 2},
         NEW x \in Word
  PROVE  x \in Replaced(reg, off, val, n) <=>
            IF x - BitShift(off) \in 0 .. (8 * n) - 1 THEN x - BitShift(off) \in val ELSE x \in reg
<1> DEFINE k == BitShift(off)
<1>1. k \in Nat
  BY BitShiftRange
<1> HIDE DEF k
<1>2. x \in Up(Low(val, n), k) <=> x - k \in 0 .. (8 * n) - 1 /\ x - k \in val
  BY <1>1, UpBit
<1>3. x \in Up(Low(Word, n), k) <=> x - k \in 0 .. (8 * n) - 1
  <2>1. x \in Up(Low(Word, n), k) <=> x - k \in 0 .. (8 * n) - 1 /\ x - k \in Word
    BY <1>1, UpBit
  <2>2. x - k \in 0 .. (8 * n) - 1 => x - k \in Word
    BY <1>1 DEF Word
  <2> QED
    BY <2>1, <2>2
<1>4. x \in Replaced(reg, off, val, n) <=>
         (x \in reg /\ x \notin Up(Low(Word, n), k)) \/ x \in Up(Low(val, n), k)
  BY DEF Replaced, k
<1> QED
  BY <1>2, <1>3, <1>4 DEF k

-----------------------------------------------------------------------------
(* Reads and writes                                                        *)

\* What a read reports.
LEMMA ReadIsBytes ==
  ASSUME NEW p \in PortType, NEW off \in Nat, NEW n \in {1, 2, 4}
  PROVE  GpioRead(p, off, n) =
            {b \in 0 .. (8 * n) - 1 :
                /\ b \div 8 \in Row!Reached(off, n)
                /\ b % 8 \in Cell(p)[Row!Place(off, n, b \div 8)]}
<1> DEFINE q == off \div 4
           r == off % 4
<1>1. r \in 0 .. 3 /\ q \in Nat /\ BitShift(off) = 8 * r
  BY BitShiftRange DEF BitShift
<1>2. DOMAIN p = 0 .. 7 /\ \A u \in 0 .. 7 : p[u] \in SUBSET Word
  BY DEF PortType
<1>3. GpioRead(p, off, n) \subseteq 0 .. (8 * n) - 1
  <2>1. CASE q \notin 0 .. 7
    BY <1>2, <2>1 DEF GpioRead
  <2>2. CASE q \in 0 .. 7 /\ n = 4
    BY <1>2, <2>2 DEF GpioRead, Word
  <2>3. CASE q \in 0 .. 7 /\ n # 4
    BY <1>2, <2>3 DEF GpioRead, Low
  <2> QED
    BY <2>1, <2>2, <2>3
<1>4. ASSUME NEW b \in 0 .. (8 * n) - 1
      PROVE  b \in GpioRead(p, off, n) <=>
                /\ b \div 8 \in Row!Reached(off, n)
                /\ b % 8 \in Cell(p)[Row!Place(off, n, b \div 8)]
  <2> DEFINE k == b \div 8
             j == b % 8
  <2>1. k \in 0 .. n - 1 /\ k \in 0 .. 3 /\ j \in 0 .. 7 /\ b = (8 * k) + j
    BY SMT
  <2>2. /\ k \in Row!Reached(off, n) <=> q \in 0 .. 7 /\ (n = 4 \/ r + k < 4)
        /\ Row!Place(off, n, k) = (4 * q) + (IF n = 4 THEN k ELSE r + k)
    <3> HIDE DEF k
    <3> QED
      BY <2>1, ReachedBytes
  <2> HIDE DEF k, j, q, r
  <2>3. CASE q \notin 0 .. 7
    BY <1>2, <2>2, <2>3 DEF GpioRead, q, k
  <2>4. CASE q \in 0 .. 7 /\ n = 4
    <3>1. GpioRead(p, off, n) = p[q]
      BY <1>2, <2>4 DEF GpioRead, q
    <3>2. Cell(p)[(4 * q) + k] = {x \in 0 .. 7 : (8 * k) + x \in p[q]}
      BY <2>1, <2>4, ByteAt
    <3> QED
      BY <2>1, <2>2, <2>4, <3>1, <3>2 DEF k, j
  <2>5. CASE q \in 0 .. 7 /\ n # 4 /\ r + k < 4
    <3>1. b \in GpioRead(p, off, n) <=> b + (8 * r) \in p[q]
      <4>1. GpioRead(p, off, n) = Low(Down(p[q], 8 * r), n)
        BY <1>1, <1>2, <2>5 DEF GpioRead, q
      <4>2. p[q] \in SUBSET Word /\ 8 * r \in Nat /\ n \in {1, 2}
        BY <1>1, <1>2, <2>5
      <4> QED
        BY <4>1, <4>2, DownBit
    <3>2. r + k \in 0 .. 3
      BY <1>1, <2>1, <2>5
    <3>3. Cell(p)[(4 * q) + (r + k)] = {x \in 0 .. 7 : (8 * (r + k)) + x \in p[q]}
      BY <2>5, <3>2, ByteAt
    <3>4. (8 * (r + k)) + j = b + (8 * r)
      BY <1>1, <2>1
    <3> QED
      BY <2>1, <2>2, <2>5, <3>1, <3>3, <3>4 DEF k, j
  <2>6. CASE q \in 0 .. 7 /\ n # 4 /\ ~(r + k < 4)
    <3>1. b \in GpioRead(p, off, n) <=> b + (8 * r) \in p[q]
      <4>1. GpioRead(p, off, n) = Low(Down(p[q], 8 * r), n)
        BY <1>1, <1>2, <2>6 DEF GpioRead, q
      <4>2. p[q] \in SUBSET Word /\ 8 * r \in Nat /\ n \in {1, 2}
        BY <1>1, <1>2, <2>6
      <4> QED
        BY <4>1, <4>2, DownBit
    <3>2. b + (8 * r) \notin Word
      BY <1>1, <2>1, <2>6 DEF Word
    <3> QED
      BY <1>2, <2>2, <2>6, <3>1, <3>2 DEF k, j
  <2> QED
    BY <2>3, <2>4, <2>5, <2>6
<1> QED
  BY <1>3, <1>4

\* What a write leaves: the bytes it reaches, and the others.
LEMMA WriteIsBytes ==
  ASSUME NEW p \in PortType, NEW off \in Nat, NEW n \in {1, 2, 4}, NEW val \in SUBSET Word
  PROVE  LET w == GpioWritten(p, off, val, n)
         IN  /\ \A k \in Row!Reached(off, n) :
                   Cell(w)[Row!Place(off, n, k)] = Row!ByteOf(val, k)
             /\ \A c \in 0 .. 31 :
                   (\A k \in Row!Reached(off, n) : c # Row!Place(off, n, k)) =>
                       Cell(w)[c] = Cell(p)[c]
<1> DEFINE q == off \div 4
           r == off % 4
           w == GpioWritten(p, off, val, n)
<1>1. r \in 0 .. 3 /\ q \in Nat /\ BitShift(off) = 8 * r
  BY BitShiftRange DEF BitShift
<1>2. DOMAIN p = 0 .. 7 /\ \A u \in 0 .. 7 : p[u] \in SUBSET Word
  BY DEF PortType
<1>3. w \in PortType
  BY GpioTypes
<1>4. \A u \in 0 .. 7 : u # q => w[u] = p[u]
  BY <1>2 DEF GpioWritten
<1>5. ASSUME q \in 0 .. 7, n = 4 PROVE w[q] = val
  BY <1>2, <1>5 DEF GpioWritten
<1>6. ASSUME q \in 0 .. 7, n # 4, NEW x \in Word
      PROVE  x \in w[q] <=> IF x - (8 * r) \in 0 .. (8 * n) - 1 THEN x - (8 * r) \in val
                            ELSE x \in p[q]
  <2>1. w[q] = Replaced(p[q], off, val, n)
    BY <1>2, <1>6 DEF GpioWritten
  <2>2. p[q] \in SUBSET Word /\ n \in {1, 2}
    BY <1>2, <1>6
  <2>3. x \in Replaced(p[q], off, val, n) <=>
           IF x - BitShift(off) \in 0 .. (8 * n) - 1 THEN x - BitShift(off) \in val ELSE x \in p[q]
    <3> HIDE DEF q
    <3> QED
      BY <2>2, ReplacedBit
  <2> QED
    BY <1>1, <2>1, <2>3
<1> HIDE DEF q, r, w
<1>7. ASSUME NEW k \in 0 .. n - 1
      PROVE  /\ k \in Row!Reached(off, n) <=> q \in 0 .. 7 /\ (n = 4 \/ r + k < 4)
             /\ Row!Place(off, n, k) = (4 * q) + (IF n = 4 THEN k ELSE r + k)
  BY ReachedBytes DEF q, r
<1>8. ASSUME NEW k \in Row!Reached(off, n)
      PROVE  Cell(w)[Row!Place(off, n, k)] = Row!ByteOf(val, k)
  <2>1. k \in 0 .. n - 1 /\ k \in 0 .. 3
    BY DEF Row!Reached
  <2>2. q \in 0 .. 7 /\ (n = 4 \/ r + k < 4)
        /\ Row!Place(off, n, k) = (4 * q) + (IF n = 4 THEN k ELSE r + k)
    BY <1>7, <1>8, <2>1
  <2>3. CASE n = 4
    <3>1. Cell(w)[(4 * q) + k] = {b \in 0 .. 7 : (8 * k) + b \in w[q]}
      BY <1>3, <2>1, <2>2, ByteAt
    <3> QED
      BY <1>5, <2>2, <2>3, <3>1 DEF Row!ByteOf
  <2>4. CASE n # 4
    <3>1. r + k \in 0 .. 3
      BY <1>1, <2>1, <2>2, <2>4
    <3>2. Cell(w)[(4 * q) + (r + k)] = {b \in 0 .. 7 : (8 * (r + k)) + b \in w[q]}
      BY <1>3, <2>2, <3>1, ByteAt
    <3>3. ASSUME NEW b \in 0 .. 7
          PROVE  (8 * (r + k)) + b \in w[q] <=> (8 * k) + b \in val
      <4>1. (8 * (r + k)) + b \in Word
        BY <3>1 DEF Word
      <4>2. /\ ((8 * (r + k)) + b) - (8 * r) = (8 * k) + b
            /\ (8 * k) + b \in 0 .. (8 * n) - 1
        BY <1>1, <2>1
      <4> QED
        BY <1>6, <2>2, <2>4, <4>1, <4>2
    <3> QED
      BY <2>2, <2>4, <3>2, <3>3 DEF Row!ByteOf
  <2> QED
    BY <2>3, <2>4
<1>9. ASSUME NEW c \in 0 .. 31, \A k \in Row!Reached(off, n) : c # Row!Place(off, n, k)
      PROVE  Cell(w)[c] = Cell(p)[c]
  <2>1. PICK u \in 0 .. 7, s \in 0 .. 3 : c = (4 * u) + s
    BY ByteSplit
  <2>2. /\ Cell(w)[c] = {b \in 0 .. 7 : (8 * s) + b \in w[u]}
        /\ Cell(p)[c] = {b \in 0 .. 7 : (8 * s) + b \in p[u]}
    BY <1>3, <2>1, ByteAt
  <2>3. CASE u # q
    BY <1>4, <2>2, <2>3
  <2>4. CASE u = q /\ n = 4
    <3>1. s \in 0 .. n - 1
      BY <2>4
    <3>2. s \in Row!Reached(off, n) /\ c = Row!Place(off, n, s)
      BY <1>7, <2>1, <2>4, <3>1
    <3> QED
      BY <1>9, <3>2
  <2>5. CASE u = q /\ n # 4
    <3>1. ASSUME NEW b \in 0 .. 7
          PROVE  (8 * s) + b \in w[q] <=> (8 * s) + b \in p[q]
      <4> DEFINE x == (8 * s) + b
      <4>1. x \in Word
        BY DEF Word
      <4>2. x - (8 * r) \notin 0 .. (8 * n) - 1
        <5> SUFFICES ASSUME x - (8 * r) \in 0 .. (8 * n) - 1 PROVE FALSE
          OBVIOUS
        <5>1. s - r \in 0 .. n - 1
          BY <1>1, <2>5
        <5>2. r + (s - r) = s
          BY <1>1
        <5>3. s - r \in Row!Reached(off, n) /\ Row!Place(off, n, s - r) = (4 * q) + s
          BY <1>7, <2>5, <5>1, <5>2
        <5> QED
          BY <1>9, <2>1, <2>5, <5>3
      <4> HIDE DEF x
      <4>3. x \in w[q] <=> x \in p[q]
        BY <1>6, <2>5, <4>1, <4>2
      <4> QED
        BY <4>3 DEF x
    <3> QED
      BY <2>2, <2>5, <3>1
  <2> QED
    BY <2>3, <2>4, <2>5
<1> QED
  BY <1>8, <1>9 DEF w

\* Driving a pin.
LEMMA PinIsBit ==
  ASSUME NEW p \in PortType, NEW pin \in 0 .. 31, NEW high \in BOOLEAN
  PROVE  Cell(PinSet(p, pin, high)) =
            [Cell(p) EXCEPT ![16 + (pin \div 8)] =
                IF high THEN @ \cup {pin % 8} ELSE @ \ {pin % 8}]
<1> DEFINE w == PinSet(p, pin, high)
           s == pin \div 8
           j == pin % 8
           after == [Cell(p) EXCEPT ![16 + s] =
                        IF high THEN Cell(p)[16 + s] \cup {j} ELSE Cell(p)[16 + s] \ {j}]
<1>1. s \in 0 .. 3 /\ j \in 0 .. 7 /\ pin = (8 * s) + j
  BY SMT
<1>2. DOMAIN p = 0 .. 7 /\ p[4] \in SUBSET Word /\ pin \in Word
  BY DEF PortType, Word
<1>3. /\ w[4] = IF high THEN p[4] \cup {pin} ELSE p[4] \ {pin}
      /\ \A u \in 0 .. 7 : u # 4 => w[u] = p[u]
      /\ w \in PortType
  <2>1. /\ w[4] = IF high THEN p[4] \cup {pin} ELSE p[4] \ {pin}
        /\ \A u \in 0 .. 7 : u # 4 => w[u] = p[u]
    BY <1>2 DEF PinSet
  <2>2. (IF high THEN p[4] \cup {pin} ELSE p[4] \ {pin}) \in SUBSET Word
    BY <1>2
  <2> QED
    BY <2>1, <2>2 DEF PinSet, PortType
<1> HIDE DEF w, s, j
<1>4. ASSUME NEW c \in 0 .. 31 PROVE Cell(w)[c] = after[c]
  <2>1. PICK u \in 0 .. 7, t \in 0 .. 3 : c = (4 * u) + t
    BY ByteSplit
  <2>2. /\ Cell(w)[c] = {b \in 0 .. 7 : (8 * t) + b \in w[u]}
        /\ Cell(p)[c] = {b \in 0 .. 7 : (8 * t) + b \in p[u]}
    BY <1>3, <2>1, ByteAt
  <2>3. c = 16 + s <=> u = 4 /\ t = s
    BY <1>1, <2>1
  <2>4. DOMAIN Cell(p) = 0 .. 31 /\ 16 + s \in 0 .. 31
    BY <1>1 DEF Cell
  <2>5. after[c] = IF c = 16 + s
                   THEN IF high THEN Cell(p)[c] \cup {j} ELSE Cell(p)[c] \ {j}
                   ELSE Cell(p)[c]
    <3> HIDE DEF Cell
    <3> QED
      BY <2>4
  <2> HIDE DEF after
  <2>6. CASE u # 4
    BY <1>3, <2>2, <2>3, <2>5, <2>6
  <2>7. CASE u = 4
    <3>1. ASSUME NEW b \in 0 .. 7 PROVE (8 * t) + b = pin <=> t = s /\ b = j
      BY <1>1
    <3>2. ASSUME NEW b \in 0 .. 7
          PROVE  b \in Cell(w)[c] <=> b \in after[c]
      BY <1>1, <1>3, <2>2, <2>3, <2>5, <2>7, <3>1
    <3>3. Cell(w)[c] \subseteq 0 .. 7 /\ after[c] \subseteq 0 .. 7
      BY <1>1, <2>2, <2>5
    <3> QED
      BY <3>2, <3>3
  <2> QED
    BY <2>6, <2>7
<1>5. Cell(w) = after
  <2>1. DOMAIN Cell(w) = 0 .. 31 /\ DOMAIN after = 0 .. 31
    BY DEF Cell
  <2>2. Cell(w) = [c \in 0 .. 31 |-> Cell(w)[c]] /\ after = [c \in 0 .. 31 |-> after[c]]
    BY DEF Cell
  <2> HIDE DEF after
  <2> QED
    BY <1>4, <2>2
<1> QED
  BY <1>5 DEF w, s, j

\* The lamp.
LEMMA LampIsLit ==
  ASSUME NEW p \in PortType
  PROVE  IsLedOn(p) <=> 2 \in Cell(p)[1] /\ 5 \in Cell(p)[20]
<1>1. Cell(p)[(4 * 0) + 1] = {b \in 0 .. 7 : (8 * 1) + b \in p[0]}
  BY ByteAt
<1>2. Cell(p)[(4 * 5) + 0] = {b \in 0 .. 7 : (8 * 0) + b \in p[5]}
  BY ByteAt
<1>3. /\ (4 * 0) + 1 = 1 /\ (4 * 5) + 0 = 20
      /\ 2 \in 0 .. 7 /\ 5 \in 0 .. 7 /\ (8 * 1) + 2 = 10 /\ (8 * 0) + 5 = 5
  BY SMT
<1>4. Cell(p)[1] = {b \in 0 .. 7 : (8 * 1) + b \in p[0]}
  BY <1>1
<1>5. Cell(p)[20] = {b \in 0 .. 7 : (8 * 0) + b \in p[5]}
  BY <1>2
<1>6. 2 \in Cell(p)[1] <=> 10 \in p[0]
  BY <1>3, <1>4
<1>7. 5 \in Cell(p)[20] <=> 5 \in p[5]
  BY <1>3, <1>5
<1> QED
  BY <1>6, <1>7 DEF IsLedOn, IsModerPinHigh, IsOdrPinHigh

-----------------------------------------------------------------------------
(* The refinement                                                          *)

\* Cells hold bytes.
LEMMA CellType ==
  ASSUME NEW p \in PortType PROVE Cell(p) \in [0 .. 31 -> SUBSET (0 .. 7)]
<1> QED
  BY DEF Cell

\* What the abstract specification calls cell.
LEMMA CellIsMapped ==
  /\ [c \in 0 .. 31 |-> PortByte(c)] = Cell(port)
  /\ [c \in 0 .. 31 |-> PortByte(c)]' = Cell(port')
<1> QED
  BY DEF PortByte, Cell

\* A read of the port, by whoever.
LEMMA ReadStep ==
  ASSUME TypedInv, NEW off \in PortOffsets, off \in Nat, NEW n \in {1, 2, 4},
         access' = Access("read", off, n, GpioRead(port, off, n)), port' = port
  PROVE  Row!Next
<1>1. Row!Reading(off, n)
  <2>1. port \in PortType
    BY DEF TypedInv
  <2>2. access' = Row!Access("read", off, n, GpioRead(port, off, n))
    BY DEF Access, Row!Access
  <2>3. GpioRead(port, off, n) =
           {b \in 0 .. (8 * n) - 1 :
               /\ b \div 8 \in Row!Reached(off, n)
               /\ b % 8 \in Cell(port)[Row!Place(off, n, b \div 8)]}
    BY <2>1, ReadIsBytes
  <2>4. [c \in 0 .. 31 |-> PortByte(c)]' = [c \in 0 .. 31 |-> PortByte(c)]
    BY CellIsMapped
  <2>5. access' = Row!Access("read", off, n,
                      {b \in 0 .. (8 * n) - 1 :
                          /\ b \div 8 \in Row!Reached(off, n)
                          /\ b % 8 \in Cell(port)[Row!Place(off, n, b \div 8)]})
    BY <2>2, <2>3
  <2> QED
    BY <2>4, <2>5, CellIsMapped, Zenon DEF Row!Reading
<1>2. access'.op = "read" /\ access'.off = off /\ access'.n = n
  BY DEF Access
<1> QED
  BY <1>1, <1>2 DEF Row!Next

\* A write.
LEMMA WriteStep ==
  ASSUME TypedInv, NEW off \in PortOffsets, off \in Nat, NEW n \in {1, 2, 4},
         NEW val \in PortValues, val \in SUBSET Word, StoresGpio(off, n, val)
  PROVE  Row!Next
<1>1. /\ access' = Access("write", off, n, val)
      /\ port' = GpioWritten(port, off, val, n)
  BY DEF StoresGpio
<1>2. port \in PortType /\ port' \in PortType
  BY <1>1, GpioTypes DEF TypedInv
<1>3. Row!Writing(off, n, val)
  <2>1. access' = Row!Access("write", off, n, val)
    BY <1>1 DEF Access, Row!Access
  <2>2. Cell(port') \in [0 .. 31 -> SUBSET (0 .. 7)]
    BY <1>2, CellType
  <2>3. /\ \A k \in Row!Reached(off, n) :
              Cell(port')[Row!Place(off, n, k)] = Row!ByteOf(val, k)
        /\ \A c \in 0 .. 31 :
              (\A k \in Row!Reached(off, n) : c # Row!Place(off, n, k)) =>
                  Cell(port')[c] = Cell(port)[c]
    BY <1>1, <1>2, WriteIsBytes, SMTT(40)
  <2> QED
    BY <2>1, <2>2, <2>3, CellIsMapped DEF Row!Writing, Row!Bytes
<1>4. access'.op = "write" /\ access'.off = off /\ access'.n = n
  BY <1>1 DEF Access
<1> QED
  BY <1>3, <1>4 DEF Row!Next


\* The second half of a halfword is for an offset, and with a value, that the
\* first half was called with.
CallKnown ==
    Busy /\ call.dev = "gpio" =>
        /\ call.off \in Offsets
        /\ call.op = "write" => call.val \in Values

\* Every step keeps it.
LEMMA KnownStep ==
  ASSUME PortsAssumption, TypedInv, CallKnown, [PortNext \/ LineNext]_portVars
  PROVE  CallKnown'
<1>1. ASSUME NEW off \in Offsets, NEW n, NEW val, Called("read", "gpio", off, n, val)
      PROVE  CallKnown'
  BY <1>1 DEF Called, CallKnown
<1>2. ASSUME NEW off \in Offsets, NEW n, NEW val \in Values, Called("write", "gpio", off, n, val)
      PROVE  CallKnown'
  BY <1>2 DEF Called, CallKnown
<1>3. ASSUME NEW op, NEW off, NEW n, NEW val, Called(op, "uart", off, n, val) PROVE CallKnown'
  BY <1>3 DEF Called, CallKnown
<1>4. ASSUME NEW seen, Between(seen) PROVE CallKnown'
  BY <1>4 DEF Between, NoCall, CallKnown, Busy
<1>5. CASE GuestReadsHigh \/ GuestReadsLineHigh
  <2>1. \E val \in SUBSET Word : Busy /\ call' = [call EXCEPT !.val = val, !.done = 2]
    <3>1. PICK val : /\ Busy /\ call' = [call EXCEPT !.val = val, !.done = 2]
                     /\ val \in SUBSET Word
      <4>1. CASE GuestReadsHigh
        <5>1. call.off + 1 \in Nat /\ 1 \in {1, 2, 4} /\ {} \in SUBSET Word /\ port \in PortType
          BY DEF TypedInv, CallType
        <5>2. GpioRead(port, call.off + 1, 1) \in SUBSET Word
          BY <5>1, GpioTypes
        <5>3. call.val \cup Up(GpioRead(port, call.off + 1, 1), 8) \in SUBSET Word
          BY <5>2, ShiftTypes DEF TypedInv, CallType
        <5> QED
          BY <4>1, <5>3 DEF GuestReadsHigh
      <4>2. CASE GuestReadsLineHigh
        <5>1. call.off + 1 \in Nat
          BY DEF TypedInv, CallType
        <5>2. UartByte(call.off + 1) \in SUBSET Word
          BY <5>1, UartTypes
        <5>3. call.val \cup Up(UartByte(call.off + 1), 8) \in SUBSET Word
          BY <5>2, ShiftTypes DEF TypedInv, CallType
        <5> QED
          BY <4>2, <5>3 DEF GuestReadsLineHigh
      <4> QED
        BY <1>5, <4>1, <4>2
    <3> QED
      BY <3>1
  <2>2. call' \in CallType /\ call'.done = call'.n
    BY <2>1, SecondTypes
  <2>3. ~Busy'
    BY <2>2 DEF Busy, CallType
  <2> QED
    BY <2>3 DEF CallKnown
<1>6. CASE GuestWritesHigh \/ GuestSendsHigh
  <2>1. Busy /\ call' = [call EXCEPT !.done = 2]
    BY <1>6 DEF GuestWritesHigh, GuestSendsHigh
  <2>2. ~Busy'
    BY <2>1 DEF TypedInv, CallType, Busy
  <2> QED
    BY <2>2 DEF CallKnown
<1>7. CASE UNCHANGED portVars
  BY <1>7 DEF portVars, CallKnown, Busy
<1> QED
  BY <1>1, <1>2, <1>3, <1>4, <1>5, <1>6, <1>7
  DEF PortNext, LineNext, GuestRead, GuestWrite, HostSetsPin, HostReads16, HostWrites16,
      HostLooksAtLed, GuestReadsLine, GuestSends

\* Every step of the devices is a step of the row of bytes, or leaves it alone.
LEMMA RowStep ==
  ASSUME PortsAssumption, TypedInv, CallKnown, [PortNext \/ LineNext]_portVars
  PROVE  [Row!Next]_(Row!vars)
<1>1. /\ Offsets \subseteq Nat /\ Values \subseteq SUBSET Word /\ Pins \subseteq 0 .. 31
      /\ port \in PortType
  BY DEF PortsAssumption, Word, TypedInv
<1>2. ASSUME NEW off \in Offsets
      PROVE  off \in PortOffsets /\ off + 1 \in PortOffsets /\ off \in Nat /\ off + 1 \in Nat
  <2>1. off \in Nat /\ off = off + 0
    BY <1>1
  <2> QED
    BY <2>1 DEF PortOffsets
<1>3. ASSUME NEW val \in Values, NEW n \in {1, 2, 4}
      PROVE  /\ Low(val, n) \in PortValues /\ Low(val, n) \in SUBSET Word
             /\ val \in PortValues /\ val \in SUBSET Word
             /\ Low(Down(val, 8), 1) \in PortValues /\ Low(Down(val, 8), 1) \in SUBSET Word
  <2>1. val \in SUBSET Word /\ Low(val, n) \in SUBSET Word
    BY <1>1, ShiftTypes
  <2>2. Low(val, 4) = val
    <3>1. (8 * 4) - 1 = 31
      OBVIOUS
    <3> QED
      BY <2>1, <3>1 DEF Low, Word
  <2>3. Down(val, 8) \in SUBSET Word
    BY <2>1, ShiftTypes
  <2>4. Low(Down(val, 8), 1) \in SUBSET Word
    BY <2>3, ShiftTypes
  <2> QED
    BY <2>1, <2>2, <2>4 DEF PortValues
<1>4. ASSUME UNCHANGED <<port, access>> PROVE UNCHANGED Row!vars
  BY <1>4, CellIsMapped DEF Row!vars
<1>5. ASSUME NEW off \in Offsets, NEW n \in {1, 2, 4}, GuestRead(off, n) PROVE Row!Next
  <2>1. PICK m \in {1, 2, 4} : access' = Access("read", off, m, GpioRead(port, off, m))
    BY <1>5 DEF GuestRead
  <2>2. port' = port
    BY <1>5 DEF GuestRead
  <2> QED
    BY <1>2, <2>1, <2>2, ReadStep
<1>6. CASE GuestReadsHigh
  <2>1. call.off \in Offsets
    BY <1>6 DEF GuestReadsHigh, CallKnown
  <2>2. access' = Access("read", call.off + 1, 1, GpioRead(port, call.off + 1, 1))
        /\ port' = port
    BY <1>6 DEF GuestReadsHigh
  <2>3. call.off + 1 \in PortOffsets /\ call.off + 1 \in Nat
    BY <1>2, <2>1
  <2> QED
    BY <2>2, <2>3, ReadStep
<1>7. ASSUME NEW off \in Offsets, NEW n \in {1, 2, 4}, NEW val \in Values, GuestWrite(off, n, val)
      PROVE  Row!Next
  <2>1. PICK m \in {1, 2, 4}, v \in {val, Low(val, 1)} : StoresGpio(off, m, v)
    BY <1>7 DEF GuestWrite
  <2>2. v \in PortValues /\ v \in SUBSET Word
    BY <1>3
  <2> QED
    BY <1>2, <2>1, <2>2, WriteStep
<1>8. CASE GuestWritesHigh
  <2>1. call.off \in Offsets /\ call.val \in Values
    BY <1>8 DEF GuestWritesHigh, CallKnown
  <2>2. StoresGpio(call.off + 1, 1, Low(Down(call.val, 8), 1))
    BY <1>8 DEF GuestWritesHigh
  <2>3. call.off + 1 \in PortOffsets /\ call.off + 1 \in Nat
    BY <1>2, <2>1
  <2>4. Low(Down(call.val, 8), 1) \in PortValues /\ Low(Down(call.val, 8), 1) \in SUBSET Word
    BY <1>3, <2>1
  <2> QED
    BY <2>2, <2>3, <2>4, WriteStep
<1>9. ASSUME NEW pin \in Pins, NEW high \in BOOLEAN, HostSetsPin(pin, high) PROVE Row!Next
  <2>1. pin \in 0 .. 31
    BY <1>1
  <2>2. access' = Row!Access("drive", pin, 0, {}) /\ access'.op = "drive"
    BY <1>9 DEF HostSetsPin, Access, Row!Access
  <2>3. Cell(port') = [Cell(port) EXCEPT ![16 + (pin \div 8)] =
                          IF high THEN Cell(port)[16 + (pin \div 8)] \cup {pin % 8}
                          ELSE Cell(port)[16 + (pin \div 8)] \ {pin % 8}]
    BY <1>1, <1>9, <2>1, PinIsBit DEF HostSetsPin
  <2>4. Row!Driving(pin, high)
    BY <2>2, <2>3, CellIsMapped, Zenon DEF Row!Driving
  <2> QED
    BY <2>2, <2>4 DEF Row!Next
<1>10. ASSUME NEW off \in Offsets, HostReads16(off) PROVE Row!Next
  BY <1>2, <1>10, ReadStep DEF HostReads16
<1>11. ASSUME NEW off \in Offsets, NEW val \in Values, HostWrites16(off, val) PROVE Row!Next
  <2>1. StoresGpio(off, 2, Low(val, 2))
    BY <1>11 DEF HostWrites16
  <2> QED
    BY <1>2, <1>3, <2>1, WriteStep
<1>12. CASE HostLooksAtLed
  <2>1. access' = Row!Access("lamp", 0, 0, IF IsLedOn(port) THEN {0} ELSE {}) /\ port' = port
    BY <1>12 DEF HostLooksAtLed, Access, Row!Access
  <2>2. IsLedOn(port) <=> Row!Lit
    <3>1. Row!Lit <=> 2 \in Cell(port)[1] /\ 5 \in Cell(port)[20]
      BY CellIsMapped DEF Row!Lit
    <3> QED
      BY <1>1, <3>1, LampIsLit
  <2>3. access' = Row!Access("lamp", 0, 0, IF Row!Lit THEN {0} ELSE {})
    BY <2>1, <2>2
  <2>4. [c \in 0 .. 31 |-> PortByte(c)]' = [c \in 0 .. 31 |-> PortByte(c)]
    BY <2>1, CellIsMapped
  <2>5. Row!Looking
    BY <2>3, <2>4, Zenon DEF Row!Looking
  <2> QED
    BY <2>5 DEF Row!Next
<1>13. CASE LineNext
  BY <1>4, <1>13 DEF LineNext, GuestReadsLine, GuestReadsLineHigh, GuestSends, GuestSendsHigh
<1>14. CASE UNCHANGED portVars
  BY <1>4, <1>14 DEF portVars
<1> QED
  BY <1>5, <1>6, <1>7, <1>8, <1>9, <1>10, <1>11, <1>12, <1>13, <1>14 DEF PortNext

\* Every access to the port, by the guest or the host, reads and replaces the
\* bytes its offset names and no others, for every set of accesses
\* (stm32_gpio.rs, device/mod.rs).
THEOREM PortIsBytes ==
  ASSUME PortsAssumption PROVE PortsSpec => ImplementsRegisterBytes
<1>1. PortsInit => Row!Init
  <2> SUFFICES ASSUME PortsInit PROVE Row!Init
    OBVIOUS
  <2>1. port \in PortType
    BY DEF PortsInit, PortsAssumption, PortType, Word
  <2>2. [c \in 0 .. 31 |-> PortByte(c)] \in [0 .. 31 -> SUBSET (0 .. 7)]
    BY <2>1, CellType, CellIsMapped
  <2>3. access = Row!Access("none", 0, 0, {})
    BY DEF PortsInit, Access, Row!Access
  <2> QED
    BY <2>2, <2>3 DEF Row!Init, Row!Bytes
<1>2. PortsInit => CallKnown
  BY DEF PortsInit, NoCall, CallKnown, Busy
<1>3. TypedInv /\ CallKnown /\ [PortNext \/ LineNext]_portVars => CallKnown'
  BY KnownStep
<1>4. TypedInv /\ CallKnown /\ [PortNext \/ LineNext]_portVars => [Row!Next]_(Row!vars)
  BY RowStep
<1> QED
  BY <1>1, <1>2, <1>3, <1>4, AlwaysTyped, PTL DEF PortsSpec, ImplementsRegisterBytes, Row!Spec

(***************************************************************************)
(* For every width of the registers and whatever the host writes: the      *)
(* registers stay in their type, and the debugger and start agree with the *)
(* processor as far as DebuggerAgrees says.                                *)
(*                                                                         *)
(* The picture agrees with the registers because both sides of a transfer  *)
(* use the same numbers; on x86 no transfer is ever completed, so that     *)
(* agreed stays false there (NeverOnX86), and because nothing writes x0 of   *)
(* RISC-V (ZeroIsZero), which makes the rest inductive.                    *)
(***************************************************************************)

\* A register write keeps the registers registers.
LEMMA WrittenTyped ==
  ASSUME DebuggerAssumption, NEW a \in Arch, NEW rs \in [0 .. LastId(a) -> Value],
         NEW id \in Nat, NEW val \in Nat
  PROVE  Written(a, rs, id, val) \in [0 .. LastId(a) -> Value]
<1>1. ASSUME NEW N \in Nat \ {0}, NEW x \in Nat PROVE x % N \in 0 .. N - 1
  BY SMT
<1>2. val % WordLimit \in Value
  BY <1>1 DEF DebuggerAssumption, Value
<1> QED
  BY <1>2 DEF Written

\* Which registers there are.
LEMMA LastIds ==
  ASSUME NEW a \in Arch
  PROVE  /\ LastId(a) \in Nat /\ 0 .. 15 \subseteq 0 .. LastId(a)
         /\ PcId(a) \in 0 .. LastId(a)
         /\ Known(a, 16) <=> a # "x86"
         /\ a # "x86" => 16 \in 0 .. LastId(a)
         /\ a = "arm" => PcId(a) = 15 /\ SpId(a) = 13
<1> QED
  BY DEF Arch, LastId, PcId, SpId, Known

\* Reducing a register's value changes nothing.
LEMMA ValueMod ==
  ASSUME DebuggerAssumption, NEW v \in Value
  PROVE  v \in Nat /\ v % WordLimit = v
<1>1. ASSUME NEW N \in Nat \ {0}, NEW x \in 0 .. N - 1 PROVE x % N = x
  BY SMT
<1> QED
  BY <1>1 DEF DebuggerAssumption, Value

-----------------------------------------------------------------------------
NeverOnX86 == agreed => arch # "x86"

ZeroIsZero == arch = "riscv" => regs[0] = 0

DebuggerInv == DebuggerTypeOK /\ NeverOnX86 /\ ZeroIsZero /\ DebuggerAgrees

\* Where the model starts.
LEMMA InitEstablishes ==
  ASSUME DebuggerAssumption, DebuggerInit PROVE DebuggerInv
<1>1. 0 \in Value /\ Supervisor \in Value /\ Rsvd1 \in Value
  BY DEF DebuggerAssumption, Value
<1>2. regs \in [0 .. LastId(arch) -> Value]
  BY <1>1 DEF DebuggerInit
<1>3. picture \in Picture
  BY <1>1 DEF DebuggerInit, Picture
<1>4. aim \in [entry : Nat, sp : Nat]
  BY <1>1 DEF DebuggerInit, NoAim
<1>5. ZeroIsZero
  BY LastIds DEF DebuggerInit, ZeroIsZero, LastId
<1> QED
  BY <1>2, <1>3, <1>4, <1>5 DEF DebuggerInit, DebuggerInv, DebuggerTypeOK, NeverOnX86, DebuggerAgrees,
     PictureAgrees, StartsOnArm, NoPanicOffX86

\* reg_write.
LEMMA HostWritesKeeps ==
  ASSUME DebuggerAssumption, DebuggerInv, NEW id \in Ids, NEW val \in HostValues, HostWrites(id, val)
  PROVE  DebuggerInv'
<1>1. id \in Nat /\ val \in Nat
  BY DEF DebuggerAssumption
<1>2. regs' \in [0 .. LastId(arch) -> Value]
  BY <1>1, WrittenTyped DEF DebuggerInv, DebuggerTypeOK, HostWrites
<1>3. ZeroIsZero'
  <2>1. CASE arch = "riscv"
    <3>1. regs \in [0 .. LastId(arch) -> Value] /\ regs[0] = 0 /\ arch \in Arch
      BY <2>1 DEF DebuggerInv, DebuggerTypeOK, ZeroIsZero
    <3>2. Written(arch, regs, id, val)[0] = regs[0]
      BY <1>1, <2>1, <3>1 DEF Written, Known, LastId
    <3>3. regs' = Written(arch, regs, id, val)
      BY <1>1 DEF HostWrites
    <3> QED
      BY <3>1, <3>2, <3>3 DEF ZeroIsZero
  <2> QED
    BY <2>1 DEF ZeroIsZero, HostWrites
<1> QED
  BY <1>2, <1>3 DEF DebuggerInv, DebuggerTypeOK, NeverOnX86, DebuggerAgrees, PictureAgrees, StartsOnArm,
     NoPanicOffX86, HostWrites

\* start, up to its loop.
LEMMA StartKeeps ==
  ASSUME DebuggerAssumption, DebuggerInv, NEW entry \in HostValues, NEW sp \in HostValues,
         Start(entry, sp)
  PROVE  DebuggerInv'
<1> DEFINE first == Written(arch, regs, 15, entry)
<1>1. entry \in Nat /\ sp \in Nat /\ arch \in Arch /\ regs \in [0 .. LastId(arch) -> Value]
  BY DEF DebuggerAssumption, DebuggerInv, DebuggerTypeOK
<1>2. first \in [0 .. LastId(arch) -> Value]
  BY <1>1, WrittenTyped
<1>3. regs' \in [0 .. LastId(arch) -> Value] /\ regs' = Written(arch, first, 13, sp)
  BY <1>1, <1>2, WrittenTyped DEF Start
<1>4. \A k \in 0 .. LastId(arch) :
        regs'[k] = IF k = 13 THEN sp % WordLimit
                   ELSE IF k = 15 THEN entry % WordLimit ELSE regs[k]
  <2> SUFFICES ASSUME NEW k \in 0 .. LastId(arch)
               PROVE  regs'[k] = IF k = 13 THEN sp % WordLimit
                                 ELSE IF k = 15 THEN entry % WordLimit ELSE regs[k]
    OBVIOUS
  <2>1. Written(arch, first, 13, sp)[k] =
           IF k = 13 /\ ~(arch = "riscv" /\ 13 = 0) THEN sp % WordLimit ELSE first[k]
    <3> HIDE DEF first
    <3> QED
      BY <1>1, <1>2, LastIds DEF Written, Known
  <2>2. first[k] = IF k = 15 /\ ~(arch = "riscv" /\ 15 = 0) THEN entry % WordLimit ELSE regs[k]
    BY <1>1, LastIds DEF Written, Known
  <2> QED
    BY <1>3, <2>1, <2>2
<1>5. regs'[15] = entry % WordLimit /\ regs'[13] = sp % WordLimit
  BY <1>1, <1>4, LastIds
<1>6. StartsOnArm'
  BY <1>1, <1>5, LastIds DEF StartsOnArm, Start, Pc
<1>7. aim' \in [entry : Nat, sp : Nat]
  BY <1>1 DEF Start
<1>8. ZeroIsZero'
  BY <1>1, <1>4, LastIds, SMTT(40) DEF ZeroIsZero, DebuggerInv, Start
<1> QED
  BY <1>3, <1>6, <1>7, <1>8 DEF DebuggerInv, DebuggerTypeOK, NeverOnX86, DebuggerAgrees, PictureAgrees,
     NoPanicOffX86, Start

\* The guest.
LEMMA RunsKeeps ==
  ASSUME DebuggerAssumption, DebuggerInv, Runs PROVE DebuggerInv'
<1>1. PICK id \in Ids \cap DOMAIN regs, val \in HostValues : regs' = Written(arch, regs, id, val)
  BY DEF Runs
<1>2. id \in Nat /\ val \in Nat
  BY DEF DebuggerAssumption
<1>3. regs' \in [0 .. LastId(arch) -> Value]
  BY <1>1, <1>2, WrittenTyped DEF DebuggerInv, DebuggerTypeOK
<1>4. 0 \in Value
  BY DEF DebuggerAssumption, Value
<1>5. state' \in {"idle", "running"}
  BY DEF Runs
<1>6. ZeroIsZero'
  <2>1. CASE arch = "riscv"
    <3>1. regs \in [0 .. LastId(arch) -> Value] /\ regs[0] = 0 /\ arch \in Arch
      BY <2>1 DEF DebuggerInv, DebuggerTypeOK, ZeroIsZero
    <3>2. Written(arch, regs, id, val)[0] = regs[0]
      BY <1>1, <1>2, <2>1, <3>1 DEF Written, Known, LastId
    <3>3. regs' = Written(arch, regs, id, val)
      BY <1>1, <1>2 DEF HostWrites
    <3> QED
      BY <3>1, <3>2, <3>3 DEF ZeroIsZero
  <2> QED
    BY <2>1 DEF ZeroIsZero, Runs
<1> QED
  BY <1>3, <1>4, <1>5, <1>6 DEF DebuggerInv, DebuggerTypeOK, NeverOnX86, DebuggerAgrees, PictureAgrees,
     StartsOnArm, NoPanicOffX86, Runs, NoAim

\* read_registers.
LEMMA ReadRegistersKeeps ==
  ASSUME DebuggerAssumption, DebuggerInv, ReadRegisters PROVE DebuggerInv'
<1>1. arch \in Arch /\ regs \in [0 .. LastId(arch) -> Value] /\ state = "idle"
  BY DEF DebuggerInv, DebuggerTypeOK, ReadRegisters
<1>2. CASE arch = "x86"
  BY <1>1, <1>2, LastIds DEF DebuggerInv, DebuggerTypeOK, NeverOnX86, ZeroIsZero, DebuggerAgrees, PictureAgrees,
     StartsOnArm, NoPanicOffX86, ReadRegisters, Pc
<1>3. CASE arch # "x86"
  <2>1. \A i \in 0 .. 15 : regs[i] \in Value
    BY <1>1, LastIds
  <2>2. regs[16] \in Value
    BY <1>1, <1>3, LastIds
  <2>3. picture' = [r |-> [i \in 0 .. 15 |-> regs[i]], cpsr |-> regs[16]]
    BY <1>1, <1>3, LastIds DEF ReadRegisters
  <2>4. picture' \in Picture
    BY <2>1, <2>2, <2>3 DEF Picture
  <2>5. PictureAgrees'
    <3>1. regs' = regs /\ arch' = arch
      BY DEF ReadRegisters
    <3>2. \A i \in 0 .. 15 : picture'.r[i] = regs[i]
      BY <2>3
    <3>3. picture'.cpsr = regs[16]
      BY <2>3
    <3> QED
      BY <3>1, <3>2, <3>3, <1>1 DEF PictureAgrees, DebuggerInv, ZeroIsZero
  <2> QED
    BY <1>1, <1>3, <2>4, <2>5, LastIds DEF DebuggerInv, DebuggerTypeOK, NeverOnX86, ZeroIsZero, DebuggerAgrees,
       StartsOnArm, NoPanicOffX86, ReadRegisters, Pc
<1> QED
  BY <1>2, <1>3

\* What write_registers leaves in the registers.
LEMMA AllWrittenAt ==
  ASSUME DebuggerAssumption, NEW p \in Picture,
         arch \in Arch, regs \in [0 .. LastId(arch) -> Value]
  PROVE  /\ AllWritten(p) \in [0 .. LastId(arch) -> Value]
         /\ \A i \in 0 .. 15 :
               AllWritten(p)[i] = IF arch = "riscv" /\ i = 0 THEN regs[0] ELSE p.r[i]
<1>1. \A i \in 0 .. 15 : p.r[i] \in Value
  BY DEF Picture
<1>2. ASSUME NEW i \in 0 .. 15
      PROVE  /\ Written(arch, regs, i, p.r[i]) \in [0 .. LastId(arch) -> Value]
             /\ Written(arch, regs, i, p.r[i])[i] =
                   IF arch = "riscv" /\ i = 0 THEN regs[0] ELSE p.r[i]
  <2>1. i \in Nat /\ p.r[i] \in Nat /\ p.r[i] % WordLimit = p.r[i] /\ i \in 0 .. LastId(arch)
    <3>1. p.r[i] \in Value
      BY <1>1
    <3>2. i \in Nat /\ i \in 0 .. LastId(arch)
      BY LastIds
    <3> QED
      BY <3>1, <3>2, ValueMod
  <2>2. Known(arch, i)
    BY <2>1 DEF Known
  <2>3. Written(arch, regs, i, p.r[i]) =
           IF arch = "riscv" /\ i = 0 THEN regs ELSE [regs EXCEPT ![i] = p.r[i]]
    BY <2>1, <2>2 DEF Written
  <2> QED
    BY <2>1, <2>3, <1>1
<1> QED
  BY <1>2, LastIds DEF AllWritten

\* write_registers.
LEMMA WriteRegistersKeeps ==
  ASSUME DebuggerAssumption, DebuggerInv, NEW p \in Picture, WriteRegisters(p) PROVE DebuggerInv'
<1> DEFINE all == AllWritten(p)
<1>1. arch \in Arch /\ regs \in [0 .. LastId(arch) -> Value] /\ state = "idle"
  BY DEF DebuggerInv, DebuggerTypeOK, WriteRegisters
<1>2. /\ all \in [0 .. LastId(arch) -> Value]
      /\ \A i \in 0 .. 15 : all[i] = IF arch = "riscv" /\ i = 0 THEN regs[0] ELSE p.r[i]
  BY <1>1, AllWrittenAt
<1>3. p.cpsr \in Value /\ p.cpsr \in Nat /\ p.cpsr % WordLimit = p.cpsr
  BY ValueMod DEF Picture
<1>4. regs' = Written(arch, all, 16, p.cpsr)
  BY DEF WriteRegisters
<1> HIDE DEF all
<1>5. regs' \in [0 .. LastId(arch) -> Value]
  BY <1>1, <1>2, <1>3, <1>4, WrittenTyped
<1>6. \A i \in 0 .. 15 : regs'[i] = all[i]
  BY <1>2, <1>4, LastIds DEF Written
<1>7. arch # "x86" => regs'[16] = p.cpsr
  BY <1>1, <1>2, <1>3, <1>4, LastIds DEF Written
<1>8. ZeroIsZero'
  BY <1>2, <1>6 DEF ZeroIsZero, DebuggerInv, WriteRegisters
<1>9. /\ agreed' \in BOOLEAN /\ (agreed' => arch # "x86")
      /\ arch' = arch /\ picture' = p /\ aim' = aim
  <2>1. /\ agreed' = Known(arch, 16)
        /\ arch' = arch /\ picture' = p /\ aim' = aim
    BY DEF WriteRegisters
  <2>2. Known(arch, 16) \in BOOLEAN
    BY DEF Known
  <2>3. Known(arch, 16) => arch # "x86"
    BY <1>1, LastIds
  <2> QED
    BY <2>1, <2>2, <2>3, Zenon
<1>10. PictureAgrees'
  BY <1>2, <1>6, <1>7, <1>9 DEF PictureAgrees, ZeroIsZero, DebuggerInv
<1>11. state' = IF arch = "x86" THEN "panicked" ELSE "idle"
  BY <1>1, LastIds DEF WriteRegisters
<1> QED
  BY <1>1, <1>5, <1>8, <1>9, <1>10, <1>11 DEF DebuggerInv, DebuggerTypeOK, NeverOnX86,
     DebuggerAgrees, StartsOnArm, NoPanicOffX86

-----------------------------------------------------------------------------
\* Every step keeps the invariant.
LEMMA StepKeeps ==
  ASSUME DebuggerAssumption, DebuggerInv, [DebuggerNext]_debugVars PROVE DebuggerInv'
<1>1. ASSUME NEW id \in Ids, NEW val \in HostValues, HostWrites(id, val) PROVE DebuggerInv'
  BY <1>1, HostWritesKeeps
<1>2. ASSUME NEW entry \in HostValues, NEW sp \in HostValues, Start(entry, sp) PROVE DebuggerInv'
  BY <1>2, StartKeeps
<1>3. CASE Runs
  BY <1>3, RunsKeeps
<1>4. CASE ReadRegisters
  BY <1>4, ReadRegistersKeeps
<1>5. ASSUME NEW p \in Pictures, WriteRegisters(p) PROVE DebuggerInv'
  <2>1. p \in Picture
    BY DEF DebuggerAssumption, Picture, Value
  <2> QED
    BY <1>5, <2>1, WriteRegistersKeeps
<1>6. CASE WriteRegisters(picture)
  <2>1. picture \in Picture
    BY DEF DebuggerInv, DebuggerTypeOK
  <2> QED
    BY <1>6, <2>1, WriteRegistersKeeps
<1>7. CASE UNCHANGED debugVars
  BY <1>7 DEF debugVars, DebuggerInv, DebuggerTypeOK, NeverOnX86, ZeroIsZero, DebuggerAgrees,
     PictureAgrees, StartsOnArm, NoPanicOffX86, Pc
<1> QED
  BY <1>1, <1>2, <1>3, <1>4, <1>5, <1>6, <1>7 DEF DebuggerNext, Resumes

\* The strengthened invariant holds in every behaviour.
THEOREM DebuggerInvariant ==
  ASSUME DebuggerAssumption PROVE DebuggerSpec => []DebuggerInv
<1>1. DebuggerInit => DebuggerInv
  BY InitEstablishes
<1>2. DebuggerInv /\ [DebuggerNext]_debugVars => DebuggerInv'
  BY StepKeeps
<1> QED
  BY <1>1, <1>2, PTL DEF DebuggerSpec

\* For every width of the registers and every value the host writes: the debugger's
\* picture is the processor's until somebody touches the registers, start hands an
\* ARM the entry point and the stack, and only x86 panics (gdb.rs, emu.rs).
THEOREM DebuggerIsRight ==
  ASSUME DebuggerAssumption PROVE DebuggerSpec => []DebuggerAgrees
<1>1. DebuggerInv => DebuggerAgrees
  BY DEF DebuggerInv
<1> QED
  BY <1>1, DebuggerInvariant, PTL

(***************************************************************************)
(* For every file, block and host: the loaders change nothing outside      *)
(* their target however they end and whatever overlaps, and a sound file   *)
(* loaded into room nobody has taken ends up in memory as it is, with      *)
(* zeros behind it.                                                        *)
(*                                                                         *)
(* The inductive invariant (LoaderInv) says what is in memory after every  *)
(* byte.  Of the first claim it needs only that a byte goes to one place   *)
(* of one buffer, whichever region answers (StoreKeepsRest), and that a    *)
(* mapping takes a buffer nobody has (MapKeepsRest).  For the second, a    *)
(* byte goes to one address (ByteFrame); the segments before the current   *)
(* one stay as they are because the RAM of each is in the table (Mapped),  *)
(* so that on a tidy table the current one has other addresses.            *)
(*                                                                         *)
(* EmbedderInv puts it beside the invariants of the ports and of the       *)
(* debugger: no step of one part moves a variable of another.              *)
(***************************************************************************)

\* A file as the assumption on the constants has it.
LEMMA ImagesTyped ==
  ASSUME LoaderAssumption, NEW image \in Images \cup {NoImage}
  PROVE  /\ image.segments \in Seq(ProgramHeader) /\ image.data \in Seq(Byte)
         /\ image.parses \in BOOLEAN
<1>1. CASE image \in Images
  <2>1. image \in Image
    BY <1>1 DEF LoaderAssumption
  <2> QED BY <2>1 DEF Image
<1>2. CASE image = NoImage
  BY <1>2 DEF NoImage
<1> QED BY <1>1, <1>2

\* A program header as numbers.
LEMMA HeaderNumbers ==
  ASSUME BusAssumption, NEW segments \in Seq(ProgramHeader), NEW k \in DOMAIN segments
  PROVE  /\ segments[k] \in ProgramHeader
         /\ segments[k].vaddr \in Nat /\ segments[k].vaddr \in Addr
         /\ segments[k].memsz \in Nat /\ segments[k].memsz <= MaxLen
         /\ segments[k].filesz \in Nat /\ segments[k].offset \in Nat
<1>1. segments[k] \in ProgramHeader
  OBVIOUS
<1> QED BY <1>1 DEF ProgramHeader, Addr, BusAssumption

\* What is copied of a segment.
LEMMA FileBytesAre ==
  ASSUME NEW image, image.data \in Seq(Byte), NEW s \in ProgramHeader, InFile(image, s)
  PROVE  /\ FileBytes(image, s) \in Seq(Byte) /\ Len(FileBytes(image, s)) = s.filesz
         /\ \A i \in 1 .. s.filesz : FileBytes(image, s)[i] = image.data[s.offset + i]
<1> DEFINE data == image.data
           o == s.offset
           n == s.filesz
<1>1. o \in Nat /\ n \in Nat /\ data \in Seq(Byte) /\ o + n <= Len(data)
  BY DEF ProgramHeader, InFile
<1> HIDE DEF data, o, n
<1>2. \A i \in o + 1 .. o + n : data[i] \in Byte
  <2>1. Len(data) \in Nat /\ DOMAIN data = 1 .. Len(data) /\ \A i \in DOMAIN data : data[i] \in Byte
    BY <1>1
  <2> QED BY <1>1, <2>1
<1> DEFINE lo == o + 1
           hi == o + n
<1>3. /\ SubSeq(data, lo, hi) \in Seq(Byte)
      /\ Len(SubSeq(data, lo, hi)) = IF lo <= hi THEN hi - lo + 1 ELSE 0
      /\ \A i \in 1 .. hi - lo + 1 : SubSeq(data, lo, hi)[i] = data[lo + i - 1]
  <2>1. lo \in Int /\ hi \in Int /\ \A i \in lo .. hi : data[i] \in Byte
    BY <1>1, <1>2
  <2> HIDE DEF lo, hi
  <2> QED BY <2>1, SubSeqProperties
<1>4. /\ SubSeq(data, o + 1, o + n) \in Seq(Byte) /\ Len(SubSeq(data, o + 1, o + n)) = n
      /\ \A i \in 1 .. n : SubSeq(data, o + 1, o + n)[i] = data[o + i]
  <2>1. hi - lo + 1 = n /\ (lo <= hi <=> n > 0) /\ \A i \in 1 .. n : lo + i - 1 = o + i
    BY <1>1
  <2> HIDE DEF lo, hi
  <2>2. Len(SubSeq(data, lo, hi)) = n
    BY <1>1, <1>3, <2>1
  <2> QED BY <1>1, <1>3, <2>1, <2>2 DEF lo, hi
<1> QED BY <1>4 DEF FileBytes, data, o, n

-----------------------------------------------------------------------------
(* What a loading has done so far                                          *)

\* The addresses of a segment.
Area(s) == s.vaddr .. s.vaddr + s.memsz - 1

\* The RAM mapped for a segment is in the table.
Mapped(rs, s) ==
    \E i \in DOMAIN rs :
        /\ rs[i].kind = "ram" /\ rs[i].start = s.vaddr
        /\ rs[i].size = s.memsz /\ rs[i].len = s.memsz

\* With contents mem, table rs holds at the segment's addresses the first n bytes the
\* file has for it, and zeros behind them.
Shows(rs, mem, image, s, n) ==
    \A i \in 0 .. s.memsz - 1 :
        CellIn(rs, mem, s.vaddr + i) = IF i < n THEN image.data[s.offset + i + 1] ELSE Zero

\* The transfer under way is the loading's own, of the segment it has come to.
TransferIsOurs ==
    /\ load.status \in {"header", "slice"} => load.op = "elf"
    /\ load.status = "copy" => load.op # "none"
    /\ load.op = "read" => xfer.op = "read"
    /\ load.op = "write" => xfer.op = "write"
    /\ load.op = "elf" /\ load.status \in {"slice", "copy"} =>
          /\ load.seg \in DOMAIN load.image.segments
          /\ Loadable(Segment) /\ InFile(load.image, Segment) /\ Segment.filesz > 0
          /\ Mapped(regions, Segment)
    /\ load.op = "elf" /\ load.status = "copy" =>
          /\ xfer.op = "write" /\ xfer.addr = Segment.vaddr
          /\ xfer.len = Segment.filesz /\ xfer.data = FileBytes(load.image, Segment)

\* The segments before number seg are in memory.
EarlierLoaded(rs, mem, image, seg) ==
    \A k \in DOMAIN image.segments :
        k < seg /\ Loadable(image.segments[k]) =>
            /\ Mapped(rs, image.segments[k])
            /\ Shows(rs, mem, image, image.segments[k], image.segments[k].filesz)

\* None of them has an address in A.
EarlierApart(image, seg, A) ==
    \A k \in DOMAIN image.segments :
        k < seg /\ Loadable(image.segments[k]) => Area(image.segments[k]) \cap A = {}

\* How much of it has been copied.
Copied == IF load.status = "copy" THEN xfer.done ELSE 0

ImageIsLoading ==
    load.op = "elf" /\ load.image.parses /\ Sound(load.image) /\ Tidy(regions) =>
        /\ load.status \notin {"failed", "panicked"}
        /\ load.status = "done" => load.seg > Len(load.image.segments)
        /\ EarlierLoaded(regions, heap, load.image, load.seg)
        /\ load.status \in {"slice", "copy"} =>
              /\ Shows(regions, heap, load.image, Segment, Copied)
              /\ EarlierApart(load.image, load.seg, Area(Segment))

LoaderInv ==
    /\ BlockInv
    /\ LoadTypeOK
    /\ TransferIsOurs
    /\ ImageIsLoading
    /\ LoaderKeepsTheRest

\* At the end the image is in memory.
LEMMA LoadingLoads ==
  ASSUME LoaderAssumption, LoaderInv
  PROVE  ImageLoaded
<1> SUFFICES ASSUME load.op = "elf", load.image.parses, Sound(load.image), Tidy(regions)
             PROVE  /\ load.status \notin {"failed", "panicked"}
                    /\ load.status = "done" =>
                          \A k \in DOMAIN load.image.segments :
                              Loadable(load.image.segments[k]) =>
                                  SegmentHolds(load.image, load.image.segments[k])
  BY DEF ImageLoaded
<1>1. load.status \notin {"failed", "panicked"}
  BY DEF LoaderInv, ImageIsLoading
<1>2. ASSUME load.status = "done", NEW k \in DOMAIN load.image.segments,
             Loadable(load.image.segments[k])
      PROVE  SegmentHolds(load.image, load.image.segments[k])
  <2>1. load.image.segments \in Seq(ProgramHeader) /\ load.seg \in Nat
    BY ImagesTyped DEF LoaderInv, LoadTypeOK, LoadType
  <2>2. k < load.seg
    BY <1>2, <2>1 DEF LoaderInv, ImageIsLoading
  <2>3. Shows(regions, heap, load.image, load.image.segments[k], load.image.segments[k].filesz)
    BY <1>2, <2>2 DEF LoaderInv, ImageIsLoading, EarlierLoaded
  <2> QED BY <2>3 DEF Shows, SegmentHolds, CellOf
<1> QED BY <1>1, <1>2
-----------------------------------------------------------------------------
(* What a byte and a mapping do to what addresses hold                     *)

\* A byte that is written shows at its address, if there is RAM, and nowhere else.
LEMMA ByteFrame ==
  ASSUME BusAssumption, BlockInv, Tidy(regions), NEW a \in Addr, NEW v \in Byte,
         WriteAccess(a, <<v>>, 1)
  PROVE  /\ regions' = regions
         /\ \A c \in Addr : c # a => CellIn(regions', heap', c) = CellIn(regions, heap, c)
         /\ \A i \in Owners(regions, a) :
               regions[i].kind = "ram" /\ a - regions[i].start < regions[i].len =>
                   reply'.ok /\ CellIn(regions', heap', a) = v
<1>1. /\ regions' = regions
      /\ reply'.ok <=> Answering(regions, a)
      /\ ~reply'.ok => heap' = heap
  BY WritesOneByte DEF BlockInv
<1>2. /\ regions \in Seq(Region) /\ heap \in [Buf -> Content] /\ BuffersDistinct(regions)
  BY DEF BlockInv, IInv, TypeOK
<1>3. ASSUME NEW i \in Owners(regions, a)
      PROVE  /\ \A c \in Addr : c # a => CellIn(regions', heap', c) = CellIn(regions, heap, c)
             /\ regions[i].kind = "ram" /\ a - regions[i].start < regions[i].len =>
                   reply'.ok /\ CellIn(regions', heap', a) = v
  <2> DEFINE off == a - regions[i].start
             len == regions[i].len
  <2>1. /\ i \in DOMAIN regions /\ a \in Nat /\ regions[i].start \in Nat /\ len \in Nat
        /\ off \in Nat /\ len <= MaxLen
    <3>1. i \in DOMAIN regions /\ regions[i].start <= a
      BY DEF Owners
    <3> QED BY <1>2, <3>1, RegionNumbers DEF Addr, BusAssumption
  <2>2. CASE regions[i].kind = "ram" /\ off < len
    <3>1. heap' = [heap EXCEPT ![regions[i].buf] = [heap[regions[i].buf] EXCEPT ![off] = v]]
      BY <2>2, WritesOneByte DEF BlockInv
    <3>2. regions[i].buf \in Buf /\ heap[regions[i].buf] \in Content
      BY <1>2, <2>1, <2>2, RegionNumbers
    <3>3. Stored(heap[regions[i].buf], off, <<v>>, 1) = [heap[regions[i].buf] EXCEPT ![off] = v]
      <4> DEFINE mem == heap[regions[i].buf]
      <4>1. off \in 0 .. MaxLen - 1 /\ mem \in [0 .. MaxLen - 1 -> Byte]
        BY <2>1, <2>2, <3>2 DEF Content, BusAssumption
      <4> HIDE DEF off, mem
      <4>2. ASSUME NEW x \in 0 .. MaxLen - 1
            PROVE  (IF x \in off .. off + 1 - 1 THEN <<v>>[x - off + 1] ELSE mem[x])
                     = IF x = off THEN v ELSE mem[x]
        <5>1. CASE x = off
          BY <4>1, <5>1
        <5>2. CASE x # off
          BY <4>1, <5>2
        <5> QED BY <5>1, <5>2
      <4> QED BY <4>1, <4>2 DEF Stored, mem
    <3>4. heap' = StoredInRegion(heap, regions[i], a, <<v>>, 1)
      BY <3>1, <3>2, <3>3 DEF StoredInRegion
    <3>5. ASSUME NEW c \in Addr
          PROVE  CellIn(regions, heap', c) =
                   IF c \in a .. a + 1 - 1 THEN <<v>>[c - a + 1] ELSE CellIn(regions, heap, c)
      <4>1. off + 1 <= len /\ 1 \in Nat
        BY <2>1, <2>2
      <4> QED BY <1>2, <2>2, <3>4, <4>1, CellsAfterStore
    <3>6. CellIn(regions, heap', a) = v
      <4>1. a \in a .. a + 1 - 1 /\ a - a + 1 = 1 /\ <<v>>[1] = v
        BY <2>1
      <4> QED BY <3>5, <4>1
    <3>7. ASSUME NEW c \in Addr, c # a PROVE CellIn(regions, heap', c) = CellIn(regions, heap, c)
      <4>1. c \notin a .. a + 1 - 1
        BY <2>1, <3>7 DEF Addr, BusAssumption
      <4> QED BY <3>5, <4>1
    <3>8. reply'.ok
      BY <1>1, <2>2 DEF Answering
    <3> QED BY <1>1, <3>6, <3>7, <3>8
  <2>3. CASE ~(regions[i].kind = "ram" /\ off < len)
    <3>1. heap' = heap
      BY <2>3, WritesOneByte DEF BlockInv
    <3> QED BY <1>1, <2>3, <3>1
  <2> QED BY <2>2, <2>3
<1>4. CASE Owners(regions, a) = {}
  <2>1. heap' = heap
    BY <1>1, <1>4 DEF Answering
  <2> QED BY <1>1, <1>4, <2>1
<1> QED BY <1>1, <1>3, <1>4

\* A loadable segment of a tidy table has all of its RAM, below the top.
LEMMA MappedOwns ==
  ASSUME BusAssumption, NEW rs \in Seq(Region), Tidy(rs), NEW s \in ProgramHeader, Mapped(rs, s),
         NEW i \in 0 .. s.memsz - 1
  PROVE  /\ s.vaddr + i \in Addr /\ s.vaddr + i \in Area(s)
         /\ \E j \in Owners(rs, s.vaddr + i) :
               rs[j].kind = "ram" /\ (s.vaddr + i) - rs[j].start = i /\ rs[j].len = s.memsz
<1>1. PICK j \in DOMAIN rs :
        /\ rs[j].kind = "ram" /\ rs[j].start = s.vaddr
        /\ rs[j].size = s.memsz /\ rs[j].len = s.memsz
  BY DEF Mapped
<1>2. s.vaddr \in Nat /\ s.memsz \in Nat /\ AddrLimit \in Nat
  BY DEF ProgramHeader, Addr, BusAssumption
<1>3. s.vaddr + s.memsz < AddrLimit
  BY <1>1 DEF Tidy, Fits
<1> DEFINE at == s.vaddr
           n == s.memsz
<1>4. /\ at + i \in 0 .. AddrLimit - 1 /\ at + i \in at .. at + n - 1 /\ (at + i) - at = i
      /\ at <= at + i /\ at + i < at + n
  <2>1. at \in Nat /\ n \in Nat /\ at + n < AddrLimit /\ i \in 0 .. n - 1
    BY <1>2, <1>3
  <2> HIDE DEF at, n
  <2> QED BY <1>2, <2>1
<1> QED BY <1>1, <1>4 DEF Addr, Area, Owners

\* The addresses of a segment are those of the region it is mapped to.
LEMMA AreaOfRam ==
  ASSUME BusAssumption, NEW s \in ProgramHeader, Loadable(s), NEW b \in Buf
  PROVE  LET r == RegionOf(SegmentRam(s), b)
         IN  /\ SegmentRam(s) \in Mappable /\ r \in Region
             /\ r.kind = "ram" /\ r.start = s.vaddr /\ r.size = s.memsz /\ r.len = s.memsz
             /\ r.buf = b /\ r.start .. r.start + r.size - 1 = Area(s)
<1>1. s.vaddr \in Addr /\ s.memsz \in Addr /\ s.memsz <= MaxLen
  BY DEF ProgramHeader
<1>2. SegmentRam(s) = [start |-> s.vaddr, size |-> s.memsz, kind |-> "ram", len |-> s.memsz]
  BY DEF SegmentRam
<1>3. SegmentRam(s) \in Mappable
  BY <1>1, <1>2 DEF Mappable, Kind, Addr, BusAssumption
<1>4. RegionOf(SegmentRam(s), b) =
        [start |-> s.vaddr, size |-> s.memsz, kind |-> "ram", buf |-> b, len |-> s.memsz]
  BY <1>2 DEF RegionOf
<1> QED BY <1>1, <1>3, <1>4 DEF Region, Kind, Area, Addr, BusAssumption
\* From one table and contents to others: what is mapped stays mapped, and only the
\* addresses in A change what they hold.
StaysMapped(rs, new) == \A t \in ProgramHeader : Mapped(rs, t) => Mapped(new, t)
SameOutside(A, rs, mem, new, mem2) ==
    \A c \in Addr \ A : CellIn(new, mem2, c) = CellIn(rs, mem, c)

\* The segments loaded before stay loaded.
LEMMA EarlierStays ==
  ASSUME BusAssumption, NEW rs \in Seq(Region), Tidy(rs), NEW new, NEW mem, NEW mem2,
         NEW image, image.segments \in Seq(ProgramHeader), NEW seg,
         EarlierLoaded(rs, mem, image, seg), StaysMapped(rs, new),
         NEW A, SameOutside(A, rs, mem, new, mem2), EarlierApart(image, seg, A)
  PROVE  EarlierLoaded(new, mem2, image, seg)
<1> SUFFICES ASSUME NEW k \in DOMAIN image.segments, k < seg, Loadable(image.segments[k])
             PROVE  /\ Mapped(new, image.segments[k])
                    /\ Shows(new, mem2, image, image.segments[k], image.segments[k].filesz)
  BY DEF EarlierLoaded
<1> DEFINE s == image.segments[k]
<1>1. s \in ProgramHeader /\ Mapped(rs, s) /\ Shows(rs, mem, image, s, s.filesz) /\ Area(s) \cap A = {}
  BY HeaderNumbers DEF EarlierLoaded, EarlierApart
<1> HIDE DEF s
<1>2. ASSUME NEW i \in 0 .. s.memsz - 1
      PROVE  CellIn(new, mem2, s.vaddr + i) = CellIn(rs, mem, s.vaddr + i)
  BY <1>1, MappedOwns DEF SameOutside
<1>3. Shows(new, mem2, image, s, s.filesz)
  BY <1>1, <1>2 DEF Shows
<1>4. Mapped(new, s)
  BY <1>1 DEF StaysMapped
<1> QED BY <1>3, <1>4 DEF s

\* One more segment is loaded.
LEMMA OneMoreLoaded ==
  ASSUME NEW rs, NEW mem, NEW image, image.segments \in Seq(ProgramHeader),
         NEW seg \in Nat, EarlierLoaded(rs, mem, image, seg),
         Loadable(image.segments[seg]) =>
             /\ Mapped(rs, image.segments[seg])
             /\ Shows(rs, mem, image, image.segments[seg], image.segments[seg].filesz)
  PROVE  EarlierLoaded(rs, mem, image, seg + 1)
<1> SUFFICES ASSUME NEW k \in DOMAIN image.segments, k < seg + 1, Loadable(image.segments[k])
             PROVE  /\ Mapped(rs, image.segments[k])
                    /\ Shows(rs, mem, image, image.segments[k], image.segments[k].filesz)
  BY DEF EarlierLoaded
<1>1. k < seg \/ k = seg
  <2>1. DOMAIN image.segments = 1 .. Len(image.segments) /\ k \in Nat
    OBVIOUS
  <2> QED BY <2>1
<1> QED BY <1>1 DEF EarlierLoaded

-----------------------------------------------------------------------------
(* Targets                                                                 *)

\* Target, by what it depends on.
TargetFor(op, image, addr, len) ==
    CASE op \in {"none", "read"} -> {}
      [] op = "write" -> Run(addr, len)
      [] op = "elf" ->
            UNION {Run(s.vaddr, s.memsz) \cup Run(s.vaddr, s.filesz) :
                      s \in {q \in Range(image.segments) : Loadable(q)}}

\* Before and after a step.
LEMMA TargetIs ==
  /\ Target  = TargetFor(load.op, load.image, xfer.addr, xfer.len)
  /\ Target' = TargetFor(load'.op, load'.image, xfer'.addr, xfer'.len)
BY DEF Target, TargetFor

\* A step that goes on with an operation leaves its target.
LEMMA TargetStays ==
  ASSUME load'.op = load.op, load'.image = load.image,
         load.op = "write" => xfer'.addr = xfer.addr /\ xfer'.len = xfer.len
  PROVE  Target' = Target
<1>1. CASE load.op = "write"
  BY <1>1, TargetIs
<1>2. CASE load.op # "write"
  BY <1>2 DEF Target
<1> QED BY <1>1, <1>2

\* A loading may change the addresses of its segments.
LEMMA RunInTarget ==
  ASSUME NEW image, image.segments \in Seq(ProgramHeader), NEW k \in DOMAIN image.segments,
         Loadable(image.segments[k]), NEW addr, NEW len
  PROVE  /\ Run(image.segments[k].vaddr, image.segments[k].memsz)
              \subseteq TargetFor("elf", image, addr, len)
         /\ Run(image.segments[k].vaddr, image.segments[k].filesz)
              \subseteq TargetFor("elf", image, addr, len)
<1> DEFINE loadable == {q \in Range(image.segments) : Loadable(q)}
           runs == UNION {Run(s.vaddr, s.memsz) \cup Run(s.vaddr, s.filesz) : s \in loadable}
<1>1. image.segments[k] \in loadable
  BY DEF Range
<1> HIDE DEF loadable
<1>2. /\ Run(image.segments[k].vaddr, image.segments[k].memsz) \subseteq runs
      /\ Run(image.segments[k].vaddr, image.segments[k].filesz) \subseteq runs
  BY <1>1
<1> QED BY <1>2 DEF TargetFor, loadable

\* The next byte of a transfer goes to an address it names.
LEMMA NextInRun ==
  ASSUME BusAssumption, BlockInv, xfer.status = "busy"
  PROVE  NextAddr \in Run(xfer.addr, xfer.len)
<1>1. xfer.done \in 0 .. xfer.len - 1
  BY TransferUnderWay
<1> QED BY <1>1 DEF NextAddr, Run

-----------------------------------------------------------------------------
(* What is outside the target                                              *)

\* From table rs0 with contents mem0 to rs with mem: LoaderKeepsTheRest of a target T.
RestKept(rs0, mem0, rs, mem, T) ==
    /\ Range(rs0) \subseteq Range(rs)
    /\ \A r \in Range(rs) \ Range(rs0) : \A k \in 0 .. r.size - 1 : AddressIn(r, k) \in T
    /\ \A r \in {q \in Range(rs) : q.kind = "ram"} :
          \A k \in 0 .. r.len - 1 : AddressIn(r, k) \notin T => mem[r.buf][k] = mem0[r.buf][k]

\* Before and after a step.
LEMMA RestIs ==
  /\ LoaderKeepsTheRest <=> RestKept(before.regions, before.heap, regions, heap, Target)
  /\ LoaderKeepsTheRest' <=> RestKept(before'.regions, before'.heap, regions', heap', Target')
BY DEF LoaderKeepsTheRest, RestKept

\* A byte stored at an address of the target, whichever of its regions answers: its
\* place in that region's buffer has this address, and the buffer is nobody else's.
LEMMA StoreKeepsRest ==
  ASSUME BusAssumption, BlockInv, NEW T, NEW a \in Addr, a \in T, NEW v \in Byte,
         WriteAccess(a, <<v>>, 1), NEW rs0, NEW mem0, RestKept(rs0, mem0, regions, heap, T)
  PROVE  RestKept(rs0, mem0, regions', heap', T)
<1>1. IInv /\ BuffersDistinct(regions) /\ regions \in Seq(Region) /\ heap \in [Buf -> Content]
  BY DEF BlockInv, IInv, TypeOK
<1>2. PICK pos \in Resolved(regions, last, a) :
        heap' = IF Answers(pos, a) /\ regions[pos].kind = "ram"
                THEN [heap EXCEPT ![regions[pos].buf] =
                        [heap[regions[pos].buf] EXCEPT ![a - regions[pos].start] = v]]
                ELSE heap
  BY <1>1, StoresOneByte
<1>3. regions' = regions
  BY <1>1, StoresOneByte
<1>4. ASSUME NEW j \in DOMAIN regions, regions[j].kind = "ram", NEW k \in 0 .. regions[j].len - 1,
             AddressIn(regions[j], k) \notin T
      PROVE  heap'[regions[j].buf][k] = heap[regions[j].buf][k]
  <2>1. CASE ~(Answers(pos, a) /\ regions[pos].kind = "ram")
    BY <1>2, <2>1
  <2>2. CASE Answers(pos, a) /\ regions[pos].kind = "ram"
    <3> DEFINE b == regions[pos].buf
               off == a - regions[pos].start
               c == regions[j].buf
    <3>1. /\ pos \in DOMAIN regions /\ b \in Buf /\ c \in Buf /\ off \in Nat
          /\ regions[pos].start \in Nat /\ a \in Nat /\ regions[j].len \in Nat
      BY <1>1, <1>4, <2>2, FoundOwns, RegionNumbers DEF Answers
    <3>2. heap' = [heap EXCEPT ![b] = [heap[b] EXCEPT ![off] = v]]
      BY <1>2, <2>2
    <3>3. CASE j # pos
      <4>1. c # b
        BY <1>1, <1>4, <2>2, <3>1, <3>3 DEF BuffersDistinct
      <4> HIDE DEF b, c, off
      <4>2. heap'[c] = heap[c]
        BY <1>1, <3>1, <3>2, <4>1
      <4> QED BY <4>2 DEF c
    <3>4. CASE j = pos
      <4>1. AddressIn(regions[pos], off) = a
        <5>1. \A N \in Nat \ {0} : \A y \in 0 .. N - 1 : y % N = y
          BY SMT
        <5>2. regions[pos].start + off = a
          BY <3>1
        <5> QED BY <5>1, <5>2 DEF AddressIn, Addr, BusAssumption
      <4>2. k # off
        BY <1>4, <3>4, <4>1
      <4> HIDE DEF b, off
      <4>3. heap'[b] = [heap[b] EXCEPT ![off] = v]
        BY <1>1, <3>1, <3>2
      <4>4. heap'[b][k] = heap[b][k]
        BY <4>2, <4>3
      <4> QED BY <3>4, <4>4 DEF b
    <3> QED BY <3>3, <3>4
  <2> QED BY <2>1, <2>2
<1>5. \A r \in {q \in Range(regions) : q.kind = "ram"} :
        \A k \in 0 .. r.len - 1 : AddressIn(r, k) \notin T => heap'[r.buf][k] = heap[r.buf][k]
  BY <1>4 DEF Range
<1> QED BY <1>3, <1>5 DEF RestKept

\* A RAM mapped to addresses of the target, with a buffer nobody has.
LEMMA MapKeepsRest ==
  ASSUME NEW rs \in Seq(Region), NEW r \in Region, NEW new \in PushedAndSorted(rs, r),
         NEW mem, NEW mem2, \A d \in BuffersOf(rs) : mem2[d] = mem[d],
         NEW T, \A k \in 0 .. r.size - 1 : AddressIn(r, k) \in T, r.len = r.size,
         NEW rs0, NEW mem0, RestKept(rs0, mem0, rs, mem, T)
  PROVE  RestKept(rs0, mem0, new, mem2, T)
<1>1. PICK k \in DOMAIN new, place \in [DOMAIN rs -> DOMAIN new] :
        /\ new[k] = r /\ \A i \in DOMAIN rs : new[place[i]] = rs[i]
        /\ \A j \in DOMAIN new : j = k \/ \E i \in DOMAIN rs : j = place[i]
  BY AfterMap
<1>2. Range(rs) \subseteq Range(new)
  BY <1>1 DEF Range
<1>3. \A x \in Range(new) : x = r \/ x \in Range(rs)
  BY <1>1 DEF Range
<1>4. ASSUME NEW x \in Range(rs), x.kind = "ram"
      PROVE  mem2[x.buf] = mem[x.buf]
  <2>1. PICK i \in DOMAIN rs : x = rs[i]
    BY DEF Range
  <2> QED BY <1>4, <2>1, BufferTaken
<1> QED BY <1>2, <1>3, <1>4 DEF RestKept

\* A step that goes on with an operation and leaves memory alone.
LEMMA RestStaysKept ==
  ASSUME LoaderKeepsTheRest, UNCHANGED <<before, regions, heap>>,
         load'.op = load.op, load'.image = load.image,
         load.op = "write" => xfer'.addr = xfer.addr /\ xfer'.len = xfer.len
  PROVE  LoaderKeepsTheRest'
BY TargetStays, RestIs

\* Where an operation begins nothing has changed yet.
LEMMA RestKeptAtFirst ==
  ASSUME \/ before' = [regions |-> regions, heap |-> heap] /\ UNCHANGED <<regions, heap>>
         \/ before' = [regions |-> regions', heap |-> heap']
  PROVE  LoaderKeepsTheRest'
<1>1. before'.regions = regions' /\ before'.heap = heap'
  OBVIOUS
<1>2. RestKept(before'.regions, before'.heap, regions', heap', Target')
  BY <1>1 DEF RestKept
<1> QED BY <1>2, RestIs

-----------------------------------------------------------------------------
(* Every step keeps the invariant                                          *)

\* The types, at hand.
LEMMA LoaderKnows ==
  ASSUME LoaderAssumption, LoaderInv
  PROVE  /\ load \in LoadType /\ load.seg \in Nat /\ load.image \in Images \cup {NoImage}
         /\ load.seg \in 1 .. Len(load.image.segments) + 1
         /\ load.image.segments \in Seq(ProgramHeader) /\ load.image.data \in Seq(Byte)
         /\ regions \in Seq(Region) /\ heap \in [Buf -> Content] /\ xfer \in Xfer
         /\ load.status = "copy" <=> xfer.status = "busy"
<1>1. /\ load \in LoadType /\ load.seg \in 1 .. Len(load.image.segments) + 1
      /\ load.status = "copy" <=> xfer.status = "busy"
  BY DEF LoaderInv, LoadTypeOK
<1>2. load.seg \in Nat /\ load.image \in Images \cup {NoImage}
  BY <1>1 DEF LoadType
<1>3. regions \in Seq(Region) /\ heap \in [Buf -> Content] /\ xfer \in Xfer
  BY DEF LoaderInv, LoadTypeOK, TypeOK
<1> QED BY <1>1, <1>2, <1>3, ImagesTyped

\* The program header the loader has come to, and the next.
LEMMA AtSegment ==
  ASSUME BusAssumption, LoaderAssumption, LoaderInv, load.op = "elf",
         load.seg \in DOMAIN load.image.segments
  PROVE  /\ Segment \in ProgramHeader
         /\ NextHeader \in LoadType
         /\ NextHeader.op = "elf" /\ NextHeader.image = load.image
         /\ NextHeader.seg = load.seg + 1 /\ NextHeader.status = "header"
         /\ NextHeader.seg \in 1 .. Len(load.image.segments) + 1
<1>1. load \in LoadType /\ load.seg \in Nat /\ load.image.segments \in Seq(ProgramHeader)
  BY LoaderKnows
<1>2. NextHeader = [load EXCEPT !.seg = @ + 1, !.status = "header"]
  BY DEF NextHeader
<1>3. load.seg \in 1 .. Len(load.image.segments)
  BY <1>1
<1>4. Segment \in ProgramHeader
  BY <1>1, <1>3 DEF Segment
<1>5. NextHeader \in LoadType
  <2>1. NextHeader = [load EXCEPT !.seg = load.seg + 1, !.status = "header"] /\ load.seg + 1 \in Nat
    BY <1>1, <1>2
  <2> DEFINE status == {"idle", "header", "slice", "copy", "done", "failed", "panicked"}
             op == {"none", "elf", "write", "read"}
             image == Images \cup {NoImage}
  <2>2. load \in [op : op, image : image, seg : Nat, status : status] /\ "header" \in status
    BY <1>1 DEF LoadType
  <2> HIDE DEF status, op, image
  <2>3. NextHeader \in [op : op, image : image, seg : Nat, status : status]
    BY <2>1, <2>2
  <2> QED BY <2>3 DEF LoadType, status, op, image
<1>6. /\ NextHeader.op = "elf" /\ NextHeader.image = load.image
      /\ NextHeader.seg = load.seg + 1 /\ NextHeader.status = "header"
  BY <1>1, <1>2 DEF LoadType
<1>7. load.seg + 1 \in 1 .. Len(load.image.segments) + 1
  <2>1. Len(load.image.segments) \in Nat
    BY <1>1
  <2> HIDE DEF NextHeader
  <2> QED BY <1>3, <2>1
<1> QED BY <1>4, <1>5, <1>6, <1>7

\* What a step that goes on to the next header leaves to be shown.
LEMMA ToNextHeader ==
  ASSUME BusAssumption, LoaderAssumption, LoaderInv, load.op = "elf",
         load.seg \in DOMAIN load.image.segments, load' = NextHeader, BlockInv',
         xfer'.status # "busy", LoaderKeepsTheRest',
         load.image.parses /\ Sound(load.image) /\ Tidy(regions') =>
            EarlierLoaded(regions', heap', load.image, load.seg + 1)
  PROVE  LoaderInv'
<1>1. /\ load'.op = "elf" /\ load'.image = load.image /\ load'.seg = load.seg + 1
      /\ load'.status = "header" /\ load' \in LoadType
      /\ load'.seg \in 1 .. Len(load'.image.segments) + 1
  BY AtSegment
<1>2. LoadTypeOK'
  BY <1>1 DEF LoadTypeOK, BlockInv, IInv
<1>3. TransferIsOurs'
  BY <1>1 DEF TransferIsOurs
<1>4. ImageIsLoading'
  BY <1>1 DEF ImageIsLoading
<1> QED BY <1>2, <1>3, <1>4 DEF LoaderInv

\* load_elf is called.
LEMMA LoadElfKeeps ==
  ASSUME BusAssumption, MemoryBusAssumption, LoaderAssumption, LoaderInv,
         NEW image \in Images, LoadElf(image)
  PROVE  LoaderInv'
<1>1. /\ load' = [op |-> "elf", image |-> image, seg |-> 1,
                  status |-> IF image.parses THEN "header" ELSE "failed"]
      /\ before' = [regions |-> regions, heap |-> heap] /\ UNCHANGED vars
      /\ load.status # "copy"
  BY DEF LoadElf, Begin, Able, Loading
<1>2. BlockInv'
  BY <1>1, NextKeepsBlockInv DEF LoaderInv
<1>3. image.segments \in Seq(ProgramHeader) /\ image.parses \in BOOLEAN
  BY ImagesTyped
<1>4. LoadTypeOK'
  <2>1. TypeOK' /\ load' \in LoadType /\ load'.seg \in 1 .. Len(load'.image.segments) + 1
    BY <1>1, <1>2, <1>3 DEF BlockInv, IInv, LoadType
  <2>2. load'.status # "copy" /\ xfer'.status # "busy"
    BY <1>1, LoaderKnows DEF vars
  <2> QED BY <2>1, <2>2 DEF LoadTypeOK
<1>5. TransferIsOurs'
  BY <1>1 DEF TransferIsOurs
<1>6. ImageIsLoading'
  <2>1. EarlierLoaded(regions', heap', image, 1)
    <3>1. \A k \in DOMAIN image.segments : ~(k < 1)
      BY <1>3
    <3> QED BY <3>1 DEF EarlierLoaded
  <2> QED BY <1>1, <1>3, <2>1 DEF ImageIsLoading
<1>7. LoaderKeepsTheRest'
  BY <1>1, RestKeptAtFirst DEF vars
<1> QED BY <1>2, <1>4, <1>5, <1>6, <1>7 DEF LoaderInv

\* A header that is no PT_LOAD, or of no size.
LEMMA SkipHeaderKeeps ==
  ASSUME BusAssumption, MemoryBusAssumption, LoaderAssumption, LoaderInv, SkipHeader
  PROVE  LoaderInv'
<1>1. /\ load.status = "header" /\ load.seg <= Len(load.image.segments) /\ ~Loadable(Segment)
      /\ load' = NextHeader /\ UNCHANGED <<vars, before>>
  BY DEF SkipHeader, AtHeader
<1>2. load.op = "elf" /\ load.seg \in DOMAIN load.image.segments
  BY <1>1, LoaderKnows DEF LoaderInv, TransferIsOurs
<1>3. BlockInv'
  BY <1>1, NextKeepsBlockInv DEF LoaderInv
<1>4. xfer'.status # "busy" /\ UNCHANGED <<regions, heap, xfer>>
  BY <1>1, LoaderKnows DEF vars
<1>5. LoaderKeepsTheRest'
  <2>1. load'.op = load.op /\ load'.image = load.image
    BY <1>1, <1>2, AtSegment
  <2> QED BY <1>1, <1>4, <2>1, RestStaysKept DEF LoaderInv
<1>6. ASSUME load.image.parses, Sound(load.image), Tidy(regions')
      PROVE  EarlierLoaded(regions', heap', load.image, load.seg + 1)
  <2>1. EarlierLoaded(regions, heap, load.image, load.seg)
    BY <1>2, <1>4, <1>6 DEF LoaderInv, ImageIsLoading
  <2> QED BY <1>1, <1>4, <2>1, LoaderKnows, OneMoreLoaded DEF Segment
<1> QED BY <1>1, <1>2, <1>3, <1>4, <1>5, <1>6, ToNextHeader

\* All headers are done.
LEMMA FinishElfKeeps ==
  ASSUME BusAssumption, MemoryBusAssumption, LoaderAssumption, LoaderInv, FinishElf
  PROVE  LoaderInv'
<1>1. /\ load.status = "header" /\ load.seg > Len(load.image.segments)
      /\ load' = [load EXCEPT !.status = "done"] /\ UNCHANGED <<vars, before>>
  BY DEF FinishElf
<1>2. /\ load'.op = load.op /\ load'.image = load.image /\ load'.seg = load.seg
      /\ load'.status = "done" /\ load' \in LoadType
  BY <1>1, LoaderKnows DEF LoadType
<1>3. BlockInv'
  BY <1>1, NextKeepsBlockInv DEF LoaderInv
<1>4. UNCHANGED <<regions, heap, xfer>> /\ xfer.status # "busy"
  BY <1>1, LoaderKnows DEF vars
<1>5. LoadTypeOK'
  BY <1>2, <1>3, <1>4, LoaderKnows DEF LoadTypeOK, BlockInv, IInv
<1>6. TransferIsOurs'
  BY <1>2, <1>4 DEF LoaderInv, TransferIsOurs
<1>7. ImageIsLoading'
  BY <1>1, <1>2, <1>4 DEF LoaderInv, ImageIsLoading
<1>8. LoaderKeepsTheRest'
  BY <1>1, <1>2, <1>4, RestStaysKept DEF LoaderInv
<1> QED BY <1>3, <1>5, <1>6, <1>7, <1>8 DEF LoaderInv
\* Mapping a RAM adds it to the table, and changes what its addresses hold only.
LEMMA SegmentMapped ==
  ASSUME BusAssumption, BlockInv, NEW s \in ProgramHeader, Loadable(s), Map(SegmentRam(s))
  PROVE  /\ BlockInv' /\ xfer' = NoXfer /\ Mapped(regions', s)
         /\ StaysMapped(regions, regions')
         /\ \A rs0, mem0, T :
               Run(s.vaddr, s.memsz) \subseteq T /\ RestKept(rs0, mem0, regions, heap, T) =>
                   RestKept(rs0, mem0, regions', heap', T)
         /\ Tidy(regions') =>
               /\ Tidy(regions)
               /\ SameOutside(Area(s), regions, heap, regions', heap')
               /\ \A i \in 0 .. s.memsz - 1 : CellIn(regions', heap', s.vaddr + i) = Zero
               /\ \A t \in ProgramHeader : Mapped(regions, t) => Area(t) \cap Area(s) = {}
<1> DEFINE q == SegmentRam(s)
<1>1. PICK b \in Buf :
        /\ q.kind = "ram" => b \notin BuffersOf(regions)
        /\ regions' \in PushedAndSorted(regions, RegionOf(q, b))
        /\ heap' = IF q.kind = "ram" THEN [heap EXCEPT ![b] = Zeroed] ELSE heap
  BY DEF Map
<1> DEFINE r == RegionOf(q, b)
<1>2. /\ q \in Mappable /\ q.kind = "ram" /\ r \in Region
      /\ r.kind = "ram" /\ r.start = s.vaddr /\ r.size = s.memsz /\ r.len = s.memsz
      /\ r.buf = b /\ r.start .. r.start + r.size - 1 = Area(s)
  BY AreaOfRam DEF SegmentRam
<1>3. BlockInv' /\ xfer' = NoXfer
  BY <1>2, MapKeepsBlockInv DEF Map
<1>4. regions \in Seq(Region) /\ heap \in [Buf -> Content] /\ regions' \in PushedAndSorted(regions, r)
  BY <1>1 DEF BlockInv, IInv, TypeOK
<1>5. /\ \A d \in BuffersOf(regions) : heap'[d] = heap[d]
      /\ heap'[r.buf] = Zeroed
  <2>1. \A d \in BuffersOf(regions) : d \in Buf
    <3>1. \A i \in DOMAIN regions : regions[i] \in Region
      BY <1>4
    <3> QED BY <3>1 DEF BuffersOf, Region
  <2>2. heap' = [heap EXCEPT ![b] = Zeroed] /\ b \notin BuffersOf(regions)
    BY <1>1, <1>2
  <2> QED BY <1>2, <1>4, <2>1, <2>2
<1> HIDE DEF q, r
<1>6. /\ \E j \in DOMAIN regions' : regions'[j] = r
      /\ \A i \in DOMAIN regions : \E j \in DOMAIN regions' : regions'[j] = regions[i]
  <2>1. PICK k \in DOMAIN regions', place \in [DOMAIN regions -> DOMAIN regions'] :
          regions'[k] = r /\ \A i \in DOMAIN regions : regions'[place[i]] = regions[i]
    BY <1>2, <1>4, AfterMap
  <2> QED BY <2>1
<1>7. Mapped(regions', s)
  BY <1>2, <1>6 DEF Mapped
<1>8. StaysMapped(regions, regions')
  BY <1>6 DEF Mapped, StaysMapped
<1>9. ASSUME Tidy(regions')
      PROVE  /\ Tidy(regions)
             /\ SameOutside(Area(s), regions, heap, regions', heap')
             /\ \A i \in 0 .. s.memsz - 1 : CellIn(regions', heap', s.vaddr + i) = Zero
             /\ \A t \in ProgramHeader : Mapped(regions, t) => Area(t) \cap Area(s) = {}
  <2>1. Tidy(regions) /\ \A i \in DOMAIN regions : Disjoint(regions[i], r)
    BY <1>2, <1>4, <1>9, TidyBeforeMap
  <2>2. ASSUME NEW c \in Addr
        PROVE  IF c \in Area(s)
               THEN CellIn(regions', heap', c) = IF c < r.start + r.len THEN Zero ELSE "hole"
               ELSE CellIn(regions', heap', c) = CellIn(regions, heap, c)
    <3>1. IF c \in r.start .. r.start + r.size - 1
          THEN /\ OwnerIn(regions, c) = -1 /\ OwnerIn(regions', c) = r.start
               /\ CellIn(regions', heap', c) = IF r.kind = "mmio" THEN "device"
                                               ELSE IF c < r.start + r.len THEN Zero ELSE "hole"
          ELSE /\ OwnerIn(regions', c) = OwnerIn(regions, c)
               /\ CellIn(regions', heap', c) = CellIn(regions, heap, c)
      BY <1>2, <1>4, <1>5, <1>9, CellsAfterMap
    <3> QED BY <1>2, <3>1
  <2>3. ASSUME NEW i \in 0 .. s.memsz - 1 PROVE CellIn(regions', heap', s.vaddr + i) = Zero
    <3>1. regions' \in Seq(Region)
      BY <1>3 DEF BlockInv, IInv, TypeOK
    <3>2. s.vaddr + i \in Addr /\ s.vaddr + i \in Area(s)
      BY <1>7, <1>9, <3>1, MappedOwns
    <3>3. s.vaddr + i < r.start + r.len
      BY <1>2, <3>2 DEF ProgramHeader, Addr, BusAssumption
    <3> QED BY <2>2, <3>2, <3>3
  <2>4. ASSUME NEW t \in ProgramHeader, Mapped(regions, t) PROVE Area(t) \cap Area(s) = {}
    <3>1. PICK i \in DOMAIN regions : regions[i].start = t.vaddr /\ regions[i].size = t.memsz
      BY <2>4 DEF Mapped
    <3>2. t.vaddr + t.memsz <= s.vaddr \/ s.vaddr + s.memsz <= t.vaddr
      BY <1>2, <2>1, <3>1 DEF Disjoint
    <3>3. t.vaddr \in Nat /\ t.memsz \in Nat /\ s.vaddr \in Nat /\ s.memsz \in Nat
      BY DEF ProgramHeader, Addr, BusAssumption
    <3> QED BY <3>2, <3>3 DEF Area
  <2>5. SameOutside(Area(s), regions, heap, regions', heap')
    BY <2>2 DEF SameOutside
  <2> QED BY <2>1, <2>3, <2>4, <2>5
<1>10. ASSUME NEW rs0, NEW mem0, NEW T, Run(s.vaddr, s.memsz) \subseteq T,
              RestKept(rs0, mem0, regions, heap, T)
       PROVE  RestKept(rs0, mem0, regions', heap', T)
  <2>1. \A k \in 0 .. r.size - 1 : AddressIn(r, k) \in T
    BY <1>2, <1>10 DEF AddressIn, Run
  <2> QED BY <1>2, <1>4, <1>5, <1>10, <2>1, MapKeepsRest
<1> QED BY <1>3, <1>7, <1>8, <1>9, <1>10

\* The RAM of a segment is mapped, and the slice of the file taken.
LEMMA MapSegmentKeeps ==
  ASSUME BusAssumption, LoaderAssumption, LoaderInv, MapSegment
  PROVE  LoaderInv'
<1> DEFINE s == Segment
           image == load.image
           seg == load.seg
<1>1. /\ load.status = "header" /\ seg <= Len(image.segments) /\ Loadable(s)
      /\ Map(SegmentRam(s)) /\ before' = before
      /\ load' = IF s.filesz = 0 THEN NextHeader
                 ELSE [load EXCEPT !.status = IF InFile(image, s) THEN "slice" ELSE "panicked"]
  BY DEF MapSegment, AtHeader
<1>2. /\ load.op = "elf" /\ seg \in DOMAIN image.segments /\ load \in LoadType
      /\ image.segments \in Seq(ProgramHeader) /\ seg \in Nat
      /\ regions \in Seq(Region) /\ s = image.segments[seg]
  BY <1>1, LoaderKnows DEF LoaderInv, TransferIsOurs, Segment
<1>3. s \in ProgramHeader /\ BlockInv
  BY <1>2, HeaderNumbers DEF LoaderInv
<1>4. /\ BlockInv' /\ xfer' = NoXfer /\ Mapped(regions', s)
      /\ StaysMapped(regions, regions')
      /\ \A rs0, mem0, T :
            Run(s.vaddr, s.memsz) \subseteq T /\ RestKept(rs0, mem0, regions, heap, T) =>
                RestKept(rs0, mem0, regions', heap', T)
      /\ Tidy(regions') =>
            /\ Tidy(regions)
            /\ SameOutside(Area(s), regions, heap, regions', heap')
            /\ \A i \in 0 .. s.memsz - 1 : CellIn(regions', heap', s.vaddr + i) = Zero
            /\ \A t \in ProgramHeader : Mapped(regions, t) => Area(t) \cap Area(s) = {}
  BY <1>1, <1>3, SegmentMapped
<1>5. load'.op = "elf" /\ load'.image = image /\ xfer'.status # "busy"
  BY <1>1, <1>2, <1>4, AtSegment DEF LoadType, NoXfer
<1> HIDE DEF s
<1>6. LoaderKeepsTheRest'
  <2>1. Target' = Target /\ Target = TargetFor("elf", image, xfer.addr, xfer.len)
    BY <1>2, <1>5, TargetIs, TargetStays
  <2>2. Run(s.vaddr, s.memsz) \subseteq Target
    BY <1>1, <1>2, <2>1, RunInTarget
  <2>3. RestKept(before.regions, before.heap, regions, heap, Target)
    BY RestIs DEF LoaderInv
  <2> QED BY <1>1, <1>4, <2>1, <2>2, <2>3, RestIs
<1>7. ASSUME image.parses, Sound(image), Tidy(regions')
      PROVE  /\ EarlierLoaded(regions', heap', image, seg)
             /\ Shows(regions', heap', image, s, 0)
             /\ EarlierApart(image, seg, Area(s))
  <2>1. EarlierLoaded(regions, heap, image, seg)
    BY <1>2, <1>4, <1>7 DEF LoaderInv, ImageIsLoading
  <2>2. ASSUME NEW k \in DOMAIN image.segments, k < seg, Loadable(image.segments[k])
        PROVE  Area(image.segments[k]) \cap Area(s) = {}
    BY <1>2, <1>4, <1>7, <2>1, <2>2, HeaderNumbers DEF EarlierLoaded
  <2>3. EarlierLoaded(regions', heap', image, seg)
    <3>1. Tidy(regions) /\ SameOutside(Area(s), regions, heap, regions', heap')
      BY <1>4, <1>7
    <3>2. EarlierApart(image, seg, Area(s))
      BY <2>2 DEF EarlierApart
    <3> HIDE DEF image, seg
    <3> QED BY <1>2, <1>4, <2>1, <3>1, <3>2, EarlierStays
  <2>4. Shows(regions', heap', image, s, 0)
    BY <1>4, <1>7 DEF Shows
  <2>5. EarlierApart(image, seg, Area(s))
    BY <2>2 DEF EarlierApart
  <2> QED BY <2>3, <2>4, <2>5
<1>8. CASE s.filesz = 0
  <2>1. ASSUME image.parses, Sound(image), Tidy(regions')
        PROVE  EarlierLoaded(regions', heap', image, seg + 1)
    BY <1>2, <1>4, <1>7, <1>8, <2>1, OneMoreLoaded
  <2> QED BY <1>1, <1>2, <1>4, <1>5, <1>6, <1>8, <2>1, ToNextHeader
<1>9. CASE s.filesz # 0
  <2>1. /\ load'.seg = seg /\ load' \in LoadType
        /\ load'.status = IF InFile(image, s) THEN "slice" ELSE "panicked"
    BY <1>1, <1>2, <1>9 DEF LoadType
  <2>2. LoadTypeOK'
    <3>1. load'.status # "copy" /\ TypeOK'
      BY <1>4, <2>1 DEF BlockInv, IInv
    <3> QED BY <1>5, <2>1, <3>1, LoaderKnows DEF LoadTypeOK
  <2>3. Segment' = s
    BY <1>2, <1>5, <2>1 DEF Segment
  <2>4. TransferIsOurs'
    <3>1. s.filesz > 0
      BY <1>3, <1>9 DEF ProgramHeader
    <3>2. load'.status = "slice" => InFile(image, s)
      BY <2>1
    <3> QED BY <1>1, <1>2, <1>4, <1>5, <2>1, <2>3, <3>1, <3>2, SMTT(40) DEF TransferIsOurs
  <2>5. ImageIsLoading'
    <3>1. ASSUME image.parses, Sound(image), Tidy(regions') PROVE load'.status = "slice"
      BY <1>1, <1>2, <2>1, <3>1 DEF Sound
    <3>2. Copied' = IF load'.status = "copy" THEN xfer'.done ELSE 0
      BY DEF Copied
    <3> QED BY <1>5, <1>7, <2>1, <2>3, <3>1, <3>2 DEF ImageIsLoading
  <2> QED BY <1>4, <1>6, <2>2, <2>4, <2>5 DEF LoaderInv
<1> QED BY <1>8, <1>9
\* The copying of a segment begins.
LEMMA CopySegmentKeeps ==
  ASSUME BusAssumption, LoaderAssumption, LoaderInv, CopySegment
  PROVE  LoaderInv'
<1> DEFINE s == Segment
           data == FileBytes(load.image, s)
<1>1. /\ load.status = "slice" /\ StartWriteBytes(s.vaddr, data)
      /\ load' = [load EXCEPT !.status = "copy"] /\ before' = before
  BY DEF CopySegment
<1>2. /\ load.op = "elf" /\ load.seg \in DOMAIN load.image.segments
      /\ Loadable(s) /\ InFile(load.image, s) /\ s.filesz > 0 /\ Mapped(regions, s)
  BY <1>1 DEF LoaderInv, TransferIsOurs
<1>3. s \in ProgramHeader /\ s.vaddr \in Addr /\ s.filesz \in Nat
  BY <1>2, LoaderKnows, HeaderNumbers DEF Segment
<1>4. data \in Seq(Byte) /\ Len(data) = s.filesz
  BY <1>2, <1>3, LoaderKnows, FileBytesAre
<1>5. /\ xfer' = [op |-> "write", addr |-> s.vaddr, len |-> s.filesz, data |-> data, done |-> 0,
                  status |-> "busy"]
      /\ UNCHANGED <<regions, heap>>
  <2>1. data # <<>>
    BY <1>2, <1>4
  <2> QED BY <1>1, <1>4, <2>1 DEF StartWriteBytes, busVars
<1>6. /\ load'.op = "elf" /\ load'.image = load.image /\ load'.seg = load.seg
      /\ load'.status = "copy" /\ load' \in LoadType
  BY <1>1, <1>2, LoaderKnows DEF LoadType
<1> HIDE DEF s, data
<1>7. BlockInv'
  <2>1. data \in [1 .. s.filesz -> Byte]
    BY <1>4
  <2> QED BY <1>1, <1>3, <2>1, StartBlockKeepsBlockInv DEF LoaderInv
<1>8. LoadTypeOK'
  BY <1>5, <1>6, <1>7, LoaderKnows DEF LoadTypeOK, BlockInv, IInv
<1>9. Segment' = s
  BY <1>6 DEF Segment, s
<1>10. TransferIsOurs'
  BY <1>2, <1>5, <1>6, <1>9 DEF TransferIsOurs, data
<1>11. ImageIsLoading'
  <2>1. Copied = 0 /\ Copied' = 0
    BY <1>1, <1>5 DEF Copied
  <2> QED BY <1>1, <1>5, <1>6, <1>9, <2>1 DEF LoaderInv, ImageIsLoading, s
<1>12. LoaderKeepsTheRest'
  BY <1>1, <1>2, <1>5, <1>6, RestStaysKept DEF LoaderInv
<1> QED BY <1>7, <1>8, <1>10, <1>11, <1>12 DEF LoaderInv

\* load_raw, read_addrs or write_addrs is called.
LEMMA BlockKeeps ==
  ASSUME BusAssumption, LoaderAssumption, LoaderInv, NEW a \in Addr, NEW n \in Nat,
         NEW data \in [1 .. n -> Byte], NEW op,
         \/ op = "read" /\ StartReadBytes(a, n)
         \/ op = "write" /\ StartWriteBytes(a, data),
         Begin(op, NoImage, IF n = 0 THEN "done" ELSE "copy")
  PROVE  LoaderInv'
<1>1. /\ load' = [op |-> op, image |-> NoImage, seg |-> 1,
                  status |-> IF n = 0 THEN "done" ELSE "copy"]
      /\ before' = [regions |-> regions, heap |-> heap]
  BY DEF Begin
<1>2. UNCHANGED <<regions, heap>>
  BY DEF StartReadBytes, StartWriteBytes, busVars
<1>3. BlockInv'
  BY StartBlockKeepsBlockInv DEF LoaderInv
<1>4. xfer'.op = op /\ xfer'.status = IF n = 0 THEN "done" ELSE "busy"
  <2>1. data = <<>> <=> n = 0
    OBVIOUS
  <2> QED BY <2>1 DEF StartReadBytes, StartWriteBytes
<1>5. LoadTypeOK'
  <2>1. load' \in LoadType
    BY <1>1 DEF LoadType
  <2>2. load'.seg \in 1 .. Len(load'.image.segments) + 1
    BY <1>1 DEF NoImage
  <2> QED BY <1>1, <1>3, <1>4, <2>1, <2>2 DEF LoadTypeOK, BlockInv, IInv
<1>6. TransferIsOurs'
  BY <1>1, <1>4 DEF TransferIsOurs
<1>7. ImageIsLoading'
  BY <1>1 DEF ImageIsLoading
<1>8. LoaderKeepsTheRest'
  BY <1>1, <1>2, RestKeptAtFirst
<1> QED BY <1>3, <1>5, <1>6, <1>7, <1>8 DEF LoaderInv

\* Nothing has been loaded into a memory that has just been set up or changed.
LEMMA ForgetKeeps ==
  ASSUME BlockInv', load' = NoLoad, before' = [regions |-> regions', heap |-> heap'], xfer' = NoXfer
  PROVE  LoaderInv'
<1>1. LoadTypeOK'
  <2>1. NoLoad \in LoadType
    BY DEF NoLoad, LoadType
  <2>2. NoLoad.seg \in 1 .. Len(NoLoad.image.segments) + 1
    BY DEF NoLoad, NoImage
  <2> QED BY <2>1, <2>2 DEF LoadTypeOK, BlockInv, IInv, NoLoad, NoXfer
<1>2. TransferIsOurs' /\ ImageIsLoading'
  BY DEF TransferIsOurs, ImageIsLoading, NoLoad
<1>3. LoaderKeepsTheRest'
  BY RestKeptAtFirst
<1> QED BY <1>1, <1>2, <1>3 DEF LoaderInv
\* The bookkeeping of a byte, of a read or a write.
LEMMA ByteBookkeeping ==
  ASSUME BusAssumption, MemoryBusAssumption, LoaderAssumption, LoaderInv, CopyByte
  PROVE  /\ BlockInv' /\ load' = AfterByte /\ before' = before /\ regions' = regions
         /\ load.status = "copy" /\ xfer.status = "busy" /\ xfer \in Xfer /\ xfer.done < xfer.len
         /\ xfer'.op = xfer.op /\ xfer'.addr = xfer.addr /\ xfer'.len = xfer.len
         /\ xfer'.status \in {"busy", "done", "failed"}
         /\ xfer.op = "read" => heap' = heap
         /\ xfer.op = "write" =>
               /\ WriteAccess(NextAddr, <<xfer.data[xfer.done + 1]>>, 1)
               /\ xfer'.data = xfer.data
               /\ xfer'.done = IF reply'.ok THEN xfer.done + 1 ELSE xfer.done
               /\ xfer'.status = NextStatus(reply'.ok)
<1>1. /\ load.status = "copy" /\ load' = AfterByte /\ before' = before
      /\ WriteNextByte \/ ReadNextByte
  BY DEF CopyByte
<1>2. BlockInv' /\ xfer.status = "busy" /\ xfer \in Xfer /\ xfer.done < xfer.len
  BY <1>1, AccessesKeepBlockInv, TransferUnderWay DEF Accesses, LoaderInv, WriteNextByte, ReadNextByte
<1>3. CASE WriteNextByte
  <2>1. /\ WriteAccess(NextAddr, <<xfer.data[xfer.done + 1]>>, 1) /\ xfer.op = "write"
        /\ xfer' = [xfer EXCEPT !.status = NextStatus(reply'.ok),
                                !.done   = IF reply'.ok THEN xfer.done + 1 ELSE xfer.done]
    BY <1>3 DEF WriteNextByte
  <2>2. regions' = regions
    BY <2>1 DEF WriteAccess
  <2>3. /\ xfer'.op = xfer.op /\ xfer'.addr = xfer.addr /\ xfer'.len = xfer.len
        /\ xfer'.data = xfer.data /\ xfer'.status = NextStatus(reply'.ok)
        /\ xfer'.done = IF reply'.ok THEN xfer.done + 1 ELSE xfer.done
    BY <1>2, <2>1 DEF Xfer
  <2>4. xfer'.status \in {"busy", "done", "failed"}
    BY <2>3 DEF NextStatus
  <2> QED BY <1>1, <1>2, <2>1, <2>2, <2>3, <2>4
<1>4. CASE ReadNextByte
  <2>1. /\ ReadAccess(NextAddr, 1) /\ xfer.op = "read"
        /\ xfer' = [xfer EXCEPT !.status = NextStatus(reply'.ok),
                                !.done   = IF reply'.ok THEN xfer.done + 1 ELSE xfer.done,
                                !.data   = xfer.data \o reply'.data]
    BY <1>4 DEF ReadNextByte
  <2>2. regions' = regions /\ heap' = heap
    BY <2>1 DEF ReadAccess
  <2>3. /\ xfer'.op = xfer.op /\ xfer'.addr = xfer.addr /\ xfer'.len = xfer.len
        /\ xfer'.status = NextStatus(reply'.ok)
    BY <1>2, <2>1 DEF Xfer
  <2>4. xfer'.status \in {"busy", "done", "failed"}
    BY <2>3 DEF NextStatus
  <2> QED BY <1>1, <1>2, <2>1, <2>2, <2>3, <2>4
<1> QED BY <1>1, <1>3, <1>4

\* What becomes of the loading, when its last byte does not end a segment.
LEMMA GoesOn ==
  ASSUME LoaderAssumption, LoaderInv, load.status = "copy", load' = AfterByte,
         xfer'.status \in {"busy", "done", "failed"},
         ~(xfer'.status = "done" /\ load.op = "elf")
  PROVE  /\ load' \in LoadType /\ load'.op = load.op /\ load'.image = load.image
         /\ load'.seg = load.seg
         /\ load'.status = IF xfer'.status = "busy" THEN "copy" ELSE xfer'.status
<1>1. load \in LoadType
  BY LoaderKnows
<1>2. CASE xfer'.status = "busy"
  BY <1>1, <1>2 DEF AfterByte
<1>3. CASE xfer'.status = "failed"
  <2>1. load' = [load EXCEPT !.status = "failed"]
    BY <1>3 DEF AfterByte
  <2> QED BY <1>1, <1>3, <2>1 DEF LoadType
<1>4. CASE xfer'.status = "done" /\ load.op # "elf"
  <2>1. load' = [load EXCEPT !.status = "done"]
    BY <1>4 DEF AfterByte
  <2> QED BY <1>1, <1>4, <2>1 DEF LoadType
<1> QED BY <1>2, <1>3, <1>4

\* A byte of a transfer whose addresses are in the target.
LEMMA ByteKeepsRest ==
  ASSUME BusAssumption, MemoryBusAssumption, LoaderAssumption, LoaderInv, CopyByte,
         load'.op = load.op, load'.image = load.image,
         xfer.op = "write" => Run(xfer.addr, xfer.len) \subseteq Target
  PROVE  LoaderKeepsTheRest'
<1>1. /\ before' = before /\ regions' = regions /\ xfer.status = "busy"
      /\ xfer'.addr = xfer.addr /\ xfer'.len = xfer.len
      /\ xfer.op = "read" => heap' = heap
      /\ xfer.op = "write" => WriteAccess(NextAddr, <<xfer.data[xfer.done + 1]>>, 1)
      /\ xfer.op \in {"read", "write"}
  <2>1. xfer.op \in {"read", "write"}
    BY DEF CopyByte, WriteNextByte, ReadNextByte
  <2> QED BY <2>1, ByteBookkeeping
<1>2. Target' = Target /\ BlockInv
  BY <1>1, TargetStays DEF LoaderInv
<1>3. CASE xfer.op = "read"
  BY <1>1, <1>3, RestStaysKept DEF LoaderInv
<1>4. CASE xfer.op = "write"
  <2>1. xfer.data[xfer.done + 1] \in Byte
    <3>1. /\ xfer.data \in Seq(Byte) /\ Len(xfer.data) = xfer.len
          /\ xfer.done + 1 \in 1 .. xfer.len
      BY <1>1, <1>2, <1>4, TransferUnderWay
    <3> QED BY <3>1
  <2>2. NextAddr \in Addr /\ NextAddr \in Target
    BY <1>1, <1>2, <1>4, NextAddrExact, NextInRun
  <2>3. RestKept(before.regions, before.heap, regions, heap, Target)
    BY RestIs DEF LoaderInv
  <2>4. RestKept(before.regions, before.heap, regions', heap', Target)
    BY <1>1, <1>2, <1>4, <2>1, <2>2, <2>3, StoreKeepsRest
  <2> QED BY <1>1, <1>2, <2>4, RestIs
<1> QED BY <1>1, <1>3, <1>4

\* A byte of load_raw, read_addrs or write_addrs.
LEMMA BlockByteKeeps ==
  ASSUME BusAssumption, MemoryBusAssumption, LoaderAssumption, LoaderInv, CopyByte,
         load.op # "elf"
  PROVE  LoaderInv'
<1>1. /\ BlockInv' /\ load' = AfterByte /\ before' = before /\ regions' = regions
      /\ load.status = "copy" /\ xfer.status = "busy" /\ xfer \in Xfer /\ xfer.done < xfer.len
      /\ xfer'.op = xfer.op /\ xfer'.addr = xfer.addr /\ xfer'.len = xfer.len
      /\ xfer'.status \in {"busy", "done", "failed"}
      /\ xfer.op = "read" => heap' = heap
      /\ xfer.op = "write" => WriteAccess(NextAddr, <<xfer.data[xfer.done + 1]>>, 1)
  BY ByteBookkeeping
<1>2. /\ load' \in LoadType /\ load'.op = load.op /\ load'.image = load.image
      /\ load'.seg = load.seg
      /\ load'.status = IF xfer'.status = "busy" THEN "copy" ELSE xfer'.status
  BY <1>1, GoesOn
<1>3. /\ load.op \in {"read", "write"}
      /\ load.op = "read" => xfer.op = "read"
      /\ load.op = "write" => xfer.op = "write"
  BY <1>1, LoaderKnows DEF LoaderInv, TransferIsOurs, LoadType
<1>4. LoadTypeOK'
  BY <1>1, <1>2, LoaderKnows DEF LoadTypeOK, BlockInv, IInv
<1>5. TransferIsOurs'
  BY <1>1, <1>2, <1>3 DEF TransferIsOurs
<1>6. ImageIsLoading'
  BY <1>2 DEF ImageIsLoading
<1>7. LoaderKeepsTheRest'
  <2>1. xfer.op = "write" => load.op = "write"
    BY <1>3
  <2>2. load.op = "write" => Target = Run(xfer.addr, xfer.len)
    BY DEF Target
  <2> QED BY <1>2, <2>1, <2>2, ByteKeepsRest
<1> QED BY <1>1, <1>4, <1>5, <1>6, <1>7 DEF LoaderInv

\* A byte of a segment goes to its place in the segment's RAM, and if there is room
\* for it, it arrives.
LEMMA SegmentByte ==
  ASSUME BusAssumption, MemoryBusAssumption, LoaderAssumption, LoaderInv, CopyByte,
         load.op = "elf", Tidy(regions), Segment.filesz <= Segment.memsz
  PROVE  /\ xfer.done \in Nat /\ xfer.done < Segment.filesz
         /\ Segment.vaddr + xfer.done \in Area(Segment)
         /\ SameOutside({Segment.vaddr + xfer.done}, regions, heap, regions', heap')
         /\ reply'.ok
         /\ CellIn(regions', heap', Segment.vaddr + xfer.done)
              = load.image.data[Segment.offset + xfer.done + 1]
<1> DEFINE s == Segment
           d == xfer.done
           a == s.vaddr + d
           v == xfer.data[d + 1]
<1>1. /\ load.status = "copy" /\ xfer \in Xfer /\ d < xfer.len
      /\ xfer.op = "write" => WriteAccess(NextAddr, <<v>>, 1)
  BY ByteBookkeeping
<1>2. /\ load.seg \in DOMAIN load.image.segments
      /\ Loadable(s) /\ InFile(load.image, s) /\ Mapped(regions, s)
      /\ xfer.op = "write" /\ xfer.addr = s.vaddr
      /\ xfer.len = s.filesz /\ xfer.data = FileBytes(load.image, s)
  BY <1>1 DEF LoaderInv, TransferIsOurs
<1>3. /\ s \in ProgramHeader /\ s.vaddr \in Nat /\ s.memsz \in Nat /\ s.filesz \in Nat
      /\ s.offset \in Nat
  BY <1>2, LoaderKnows, HeaderNumbers DEF Segment
<1>4. /\ d \in Nat /\ d < s.filesz /\ d \in 0 .. s.memsz - 1 /\ d + 1 \in 1 .. s.filesz
  <2>1. d \in Nat
    BY <1>1 DEF Xfer
  <2> QED BY <1>1, <1>2, <1>3, <2>1
<1>5. /\ v = load.image.data[s.offset + d + 1] /\ v \in Byte
  <2> DEFINE bytes == FileBytes(load.image, s)
  <2>1. /\ bytes \in Seq(Byte) /\ Len(bytes) = s.filesz
        /\ \A i \in 1 .. s.filesz : bytes[i] = load.image.data[s.offset + i]
    <3>1. load.image.data \in Seq(Byte)
      BY LoaderKnows
    <3> HIDE DEF s
    <3> QED BY <1>2, <1>3, <3>1, FileBytesAre
  <2>2. v = bytes[d + 1]
    BY <1>2
  <2> HIDE DEF bytes, v
  <2>3. v \in Byte /\ v = load.image.data[s.offset + (d + 1)]
    BY <1>4, <2>1, <2>2
  <2>4. s.offset + (d + 1) = s.offset + d + 1
    BY <1>3, <1>4
  <2> QED BY <2>3, <2>4
<1>6. NextAddr = a /\ a \in Addr /\ BlockInv
  BY <1>2, NextAddrExact DEF LoaderInv
<1> HIDE DEF v
<1>7. a \in Area(s) /\ regions \in Seq(Region)
  <2>1. regions \in Seq(Region)
    BY LoaderKnows
  <2> HIDE DEF s, d
  <2> QED BY <1>2, <1>3, <1>4, <2>1, MappedOwns
<1>8. PICK j \in Owners(regions, a) :
        regions[j].kind = "ram" /\ a - regions[j].start = d /\ regions[j].len = s.memsz
  <2> HIDE DEF s, d
  <2> QED BY <1>2, <1>3, <1>4, <1>7, MappedOwns
<1> HIDE DEF s, d
<1>9. a - regions[j].start < regions[j].len
  BY <1>3, <1>4, <1>8
<1>10. WriteAccess(a, <<v>>, 1)
  BY <1>1, <1>2, <1>6
<1> HIDE DEF a
<1>11. /\ \A c \in Addr : c # a => CellIn(regions', heap', c) = CellIn(regions, heap, c)
       /\ reply'.ok /\ CellIn(regions', heap', a) = v
  BY <1>5, <1>6, <1>8, <1>9, <1>10, ByteFrame
<1> QED BY <1>4, <1>5, <1>7, <1>11 DEF SameOutside, a, s, d

\* A byte more of a segment shows.
LEMMA ShowsOneMore ==
  ASSUME BusAssumption, NEW rs \in Seq(Region), Tidy(rs), NEW mem, NEW mem2, NEW image,
         NEW s \in ProgramHeader, Mapped(rs, s), NEW d \in Nat, Shows(rs, mem, image, s, d),
         SameOutside({s.vaddr + d}, rs, mem, rs, mem2),
         CellIn(rs, mem2, s.vaddr + d) = image.data[s.offset + d + 1]
  PROVE  Shows(rs, mem2, image, s, d + 1)
<1> SUFFICES ASSUME NEW i \in 0 .. s.memsz - 1
             PROVE  CellIn(rs, mem2, s.vaddr + i) =
                      IF i < d + 1 THEN image.data[s.offset + i + 1] ELSE Zero
  BY DEF Shows
<1>1. s.vaddr \in Nat /\ s.memsz \in Nat /\ i \in Nat
  BY DEF ProgramHeader, Addr, BusAssumption
<1>2. CASE i = d
  BY <1>1, <1>2
<1>3. CASE i # d
  <2>1. s.vaddr + i \in Addr /\ s.vaddr + i # s.vaddr + d
    BY <1>1, <1>3, MappedOwns
  <2>2. CellIn(rs, mem2, s.vaddr + i) = CellIn(rs, mem, s.vaddr + i)
    BY <2>1 DEF SameOutside
  <2>3. i < d + 1 <=> i < d
    BY <1>1, <1>3
  <2> QED BY <2>2, <2>3 DEF Shows
<1> QED BY <1>2, <1>3

\* A byte of a segment.
LEMMA SegmentByteKeeps ==
  ASSUME BusAssumption, MemoryBusAssumption, LoaderAssumption, LoaderInv, CopyByte,
         load.op = "elf"
  PROVE  LoaderInv'
<1> DEFINE s == Segment
           image == load.image
           seg == load.seg
           d == xfer.done
<1>1. /\ BlockInv' /\ load' = AfterByte /\ before' = before /\ regions' = regions
      /\ load.status = "copy" /\ xfer.status = "busy" /\ xfer \in Xfer /\ d < xfer.len
      /\ xfer'.op = xfer.op /\ xfer'.addr = xfer.addr /\ xfer'.len = xfer.len
      /\ xfer'.status \in {"busy", "done", "failed"}
  BY ByteBookkeeping
<1>2. /\ seg \in DOMAIN image.segments
      /\ Loadable(s) /\ InFile(image, s) /\ s.filesz > 0 /\ Mapped(regions, s)
      /\ xfer.op = "write" /\ xfer.addr = s.vaddr
      /\ xfer.len = s.filesz /\ xfer.data = FileBytes(image, s)
  BY <1>1 DEF LoaderInv, TransferIsOurs
<1>3. /\ xfer'.data = xfer.data /\ xfer'.done = IF reply'.ok THEN d + 1 ELSE d
      /\ xfer'.status = NextStatus(reply'.ok)
  BY <1>2, ByteBookkeeping
<1>4. /\ s \in ProgramHeader /\ image.segments \in Seq(ProgramHeader) /\ seg \in Nat
      /\ regions \in Seq(Region) /\ s = image.segments[seg] /\ s.filesz \in Nat
  BY <1>2, LoaderKnows, HeaderNumbers DEF Segment
<1>5. load'.op = load.op /\ load'.image = load.image
  <2>1. CASE xfer'.status = "done"
    <3>1. load' = NextHeader
      BY <1>1, <2>1 DEF AfterByte
    <3> QED BY <1>2, <3>1, AtSegment
  <2>2. CASE xfer'.status # "done"
    BY <1>1, <2>2, GoesOn
  <2> QED BY <2>1, <2>2
<1> HIDE DEF s, d
<1>6. ASSUME Tidy(regions), s.filesz <= s.memsz
      PROVE  /\ d \in Nat /\ d < s.filesz /\ s.vaddr + d \in Area(s)
             /\ SameOutside({s.vaddr + d}, regions, heap, regions', heap') /\ reply'.ok
             /\ CellIn(regions', heap', s.vaddr + d) = image.data[s.offset + d + 1]
  BY <1>6, SegmentByte DEF s, d
<1>7. LoaderKeepsTheRest'
  <2>1. Target = TargetFor("elf", image, xfer.addr, xfer.len)
    BY TargetIs
  <2>2. Run(xfer.addr, xfer.len) \subseteq Target
    BY <1>2, <1>4, <2>1, RunInTarget
  <2> QED BY <1>5, <2>2, ByteKeepsRest
<1>8. ASSUME image.parses, Sound(image), Tidy(regions')
      PROVE  /\ d \in Nat /\ d < s.filesz /\ reply'.ok
             /\ EarlierLoaded(regions', heap', image, seg)
             /\ Shows(regions', heap', image, s, d + 1)
             /\ EarlierApart(image, seg, Area(s))
  <2>1. /\ EarlierLoaded(regions, heap, image, seg) /\ Tidy(regions)
        /\ Shows(regions, heap, image, s, d) /\ EarlierApart(image, seg, Area(s))
    BY <1>1, <1>8 DEF LoaderInv, ImageIsLoading, Copied, s, d
  <2>2. s.filesz <= s.memsz
    BY <1>2, <1>4, <1>8 DEF Sound
  <2>3. /\ d \in Nat /\ d < s.filesz /\ s.vaddr + d \in Area(s)
        /\ SameOutside({s.vaddr + d}, regions, heap, regions, heap') /\ reply'.ok
        /\ CellIn(regions, heap', s.vaddr + d) = image.data[s.offset + d + 1]
    BY <1>1, <1>6, <2>1, <2>2
  <2>4. Shows(regions, heap', image, s, d + 1)
    BY <1>2, <1>4, <2>1, <2>3, ShowsOneMore
  <2>5. EarlierLoaded(regions, heap', image, seg)
    <3>1. EarlierApart(image, seg, {s.vaddr + d})
      BY <2>1, <2>3 DEF EarlierApart
    <3>2. StaysMapped(regions, regions)
      BY DEF StaysMapped
    <3> HIDE DEF image, seg
    <3> QED BY <1>4, <2>1, <2>3, <3>1, <3>2, EarlierStays
  <2> QED BY <1>1, <2>1, <2>3, <2>4, <2>5
<1>9. CASE xfer'.status = "done"
  <2>1. load' = NextHeader
    BY <1>1, <1>9 DEF AfterByte
  <2>2. ASSUME image.parses, Sound(image), Tidy(regions')
        PROVE  EarlierLoaded(regions', heap', image, seg + 1)
    <3>1. d + 1 = s.filesz
      BY <1>2, <1>3, <1>8, <1>9, <2>2 DEF NextStatus, d
    <3>2. Mapped(regions', s) /\ Shows(regions', heap', image, s, s.filesz)
      BY <1>1, <1>2, <1>8, <2>2, <3>1
    <3> QED BY <1>4, <1>8, <2>2, <3>2, OneMoreLoaded
  <2> QED BY <1>1, <1>2, <1>7, <1>9, <2>1, <2>2, ToNextHeader
<1>10. CASE xfer'.status # "done"
  <2>1. /\ load' \in LoadType /\ load'.seg = seg
        /\ load'.status = IF xfer'.status = "busy" THEN "copy" ELSE xfer'.status
    BY <1>1, <1>10, GoesOn
  <2>2. LoadTypeOK'
    BY <1>1, <1>5, <2>1, LoaderKnows DEF LoadTypeOK, BlockInv, IInv
  <2>3. Segment' = s
    BY <1>4, <1>5, <2>1 DEF Segment
  <2>4. TransferIsOurs'
    BY <1>1, <1>2, <1>3, <1>5, <2>1, <2>3 DEF TransferIsOurs
  <2>5. ImageIsLoading'
    <3>1. ASSUME image.parses, Sound(image), Tidy(regions')
          PROVE  load'.status = "copy" /\ xfer'.done = d + 1
      <4>1. reply'.ok
        BY <1>8, <3>1
      <4> QED BY <1>3, <1>10, <2>1, <4>1 DEF NextStatus
    <3>2. Copied' = IF load'.status = "copy" THEN xfer'.done ELSE 0
      BY DEF Copied
    <3> QED BY <1>5, <1>8, <2>1, <2>3, <3>1, <3>2 DEF ImageIsLoading
  <2> QED BY <1>1, <1>7, <2>2, <2>4, <2>5 DEF LoaderInv
<1> QED BY <1>9, <1>10
\* Every step.
LEMMA LoaderNextKeeps ==
  ASSUME BusAssumption, MemoryBusAssumption, LoaderAssumption, LoaderInv, [LoaderNext]_loadVars
  PROVE  LoaderInv'
<1>1. ASSUME NEW image \in Images, LoadElf(image) PROVE LoaderInv'
  BY <1>1, LoadElfKeeps
<1>2. CASE SkipHeader
  BY <1>2, SkipHeaderKeeps
<1>3. CASE MapSegment
  BY <1>3, MapSegmentKeeps
<1>4. CASE CopySegment
  BY <1>4, CopySegmentKeeps
<1>5. CASE FinishElf
  BY <1>5, FinishElfKeeps
<1>6. CASE CopyByte
  BY <1>6, BlockByteKeeps, SegmentByteKeeps
<1>7. ASSUME NEW b \in Blocks, WriteBlock(b) PROVE LoaderInv'
  <2>1. b.addr \in Addr /\ b.data \in Seq(Byte)
    BY DEF LoaderAssumption
  <2> DEFINE n == Len(b.data)
  <2>2. n \in Nat /\ b.data \in [1 .. n -> Byte] /\ (b.data = <<>> <=> n = 0)
    BY <2>1
  <2>3. Begin("write", NoImage, IF n = 0 THEN "done" ELSE "copy") /\ StartWriteBytes(b.addr, b.data)
    BY <1>7, <2>2 DEF WriteBlock
  <2> HIDE DEF n
  <2> QED BY <2>1, <2>2, <2>3, BlockKeeps
<1>8. ASSUME NEW b \in Peeks, ReadBlock(b) PROVE LoaderInv'
  <2>1. b.addr \in Addr /\ b.n \in Nat
    BY DEF LoaderAssumption
  <2>2. [k \in 1 .. b.n |-> Zero] \in [1 .. b.n -> Byte]
    BY DEF BusAssumption
  <2>3. Begin("read", NoImage, IF b.n = 0 THEN "done" ELSE "copy") /\ StartReadBytes(b.addr, b.n)
    BY <1>8 DEF ReadBlock
  <2> QED BY <2>1, <2>2, <2>3, BlockKeeps
<1>9. ASSUME NEW q \in Requests, HostMaps(q) PROVE LoaderInv'
  <2>1. q \in Mappable /\ Map(q) /\ Forget
    BY <1>9 DEF MemoryBusAssumption, Mappable, HostMaps
  <2>2. BlockInv' /\ xfer' = NoXfer
    BY <2>1, MapKeepsBlockInv DEF LoaderInv, Map
  <2> QED BY <2>1, <2>2, ForgetKeeps DEF Forget
<1>10. ASSUME NEW a \in Addr, HostUnmaps(a) PROVE LoaderInv'
  <2>1. Unmap(a) /\ Forget
    BY <1>10 DEF HostUnmaps
  <2>2. BlockInv' /\ xfer' = NoXfer
    BY <2>1, AccessesKeepBlockInv DEF LoaderInv, Unmap, Accesses
  <2> QED BY <2>1, <2>2, ForgetKeeps DEF Forget
<1>11. CASE UNCHANGED loadVars
  <2>1. UNCHANGED vars /\ UNCHANGED <<regions, heap, xfer, load, before>>
    BY <1>11 DEF loadVars, vars
  <2>2. BlockInv'
    BY <2>1, NextKeepsBlockInv DEF LoaderInv
  <2>3. LoadTypeOK'
    BY <2>1, <2>2 DEF LoaderInv, LoadTypeOK, BlockInv, IInv
  <2>4. TransferIsOurs' /\ ImageIsLoading'
    BY <2>1 DEF LoaderInv, TransferIsOurs, ImageIsLoading, Segment, Copied
  <2>5. LoaderKeepsTheRest'
    BY <2>1, RestStaysKept DEF LoaderInv
  <2> QED BY <2>2, <2>3, <2>4, <2>5 DEF LoaderInv
<1> QED
  BY <1>1, <1>2, <1>3, <1>4, <1>5, <1>6, <1>7, <1>8, <1>9, <1>10, <1>11 DEF LoaderNext

\* Nothing is loaded in the beginning.
LEMMA LoaderInitEstablishes ==
  ASSUME BusAssumption, MemoryBusAssumption, LoaderAssumption, LoaderInit
  PROVE  LoaderInv
<1>1. BlockInv
  BY InitEstablishesBlockInv DEF LoaderInit
<1>2. load = NoLoad /\ xfer = NoXfer /\ before = [regions |-> regions, heap |-> heap]
  BY DEF LoaderInit, Init
<1>3. LoadTypeOK
  <2>1. NoLoad \in LoadType
    BY DEF NoLoad, LoadType
  <2>2. NoLoad.seg \in 1 .. Len(NoLoad.image.segments) + 1
    BY DEF NoLoad, NoImage
  <2> QED BY <1>1, <1>2, <2>1, <2>2 DEF LoadTypeOK, BlockInv, IInv, NoLoad, NoXfer
<1>4. TransferIsOurs /\ ImageIsLoading
  BY <1>2 DEF TransferIsOurs, ImageIsLoading, NoLoad
<1>5. LoaderKeepsTheRest
  <2>1. before.regions = regions /\ before.heap = heap
    BY <1>2
  <2>2. RestKept(before.regions, before.heap, regions, heap, Target)
    BY <2>1 DEF RestKept
  <2> QED BY <2>2, RestIs
<1> QED BY <1>1, <1>3, <1>4, <1>5 DEF LoaderInv

-----------------------------------------------------------------------------
(* The embedder                                                            *)

\* What is recorded of the latest access to the port.
AccessTyped ==
    /\ access \in [op : {"none", "read", "write", "drive", "lamp"}, off : Nat, n : {0, 1, 2, 4},
                   val : SUBSET Word]
    /\ idrWritten \in BOOLEAN

\* Every step of the port and the line records an access in its type.
LEMMA AccessStep ==
  ASSUME PortsAssumption, TypedInv, AccessTyped, [PortNext \/ LineNext]_portVars
  PROVE  AccessTyped'
<1>1. /\ Offsets \subseteq Nat /\ Values \subseteq SUBSET Word /\ Pins \subseteq Nat
      /\ port \in PortType /\ call.off \in Nat /\ call.val \in SUBSET Word /\ idrWritten \in BOOLEAN
  BY DEF PortsAssumption, Word, TypedInv, CallType, AccessTyped
<1>2. ASSUME NEW op \in {"none", "read", "write", "drive", "lamp"}, NEW off \in Nat,
             NEW n \in {0, 1, 2, 4}, NEW val \in SUBSET Word, access' = Access(op, off, n, val),
             idrWritten' \in BOOLEAN
      PROVE  AccessTyped'
  BY <1>2 DEF AccessTyped, Access
<1>3. ASSUME UNCHANGED <<access, idrWritten>> PROVE AccessTyped'
  BY <1>3 DEF AccessTyped
<1>4. ASSUME NEW off \in Nat, NEW n \in {1, 2, 4}, NEW val \in SUBSET Word, StoresGpio(off, n, val)
      PROVE  AccessTyped'
  BY <1>1, <1>2, <1>4 DEF StoresGpio
<1>5. ASSUME NEW off \in Offsets, NEW n \in {1, 2, 4}, GuestRead(off, n) PROVE AccessTyped'
  <2> DEFINE m == IF n = 2 THEN 1 ELSE n
  <2>1. m \in {1, 2, 4} /\ off \in Nat /\ {} \in SUBSET Word
    BY <1>1
  <2>2. access' = Access("read", off, m, GpioRead(port, off, m)) /\ idrWritten' = idrWritten
    BY <1>5 DEF GuestRead
  <2> HIDE DEF m
  <2>3. GpioRead(port, off, m) \in SUBSET Word
    BY <1>1, <2>1, GpioTypes
  <2> QED BY <1>1, <1>2, <2>1, <2>2, <2>3
<1>6. CASE GuestReadsHigh
  <2> DEFINE off == call.off + 1
  <2>1. off \in Nat /\ 1 \in {1, 2, 4} /\ {} \in SUBSET Word
    BY <1>1
  <2>2. access' = Access("read", off, 1, GpioRead(port, off, 1)) /\ idrWritten' = idrWritten
    BY <1>6 DEF GuestReadsHigh
  <2> HIDE DEF off
  <2>3. GpioRead(port, off, 1) \in SUBSET Word
    BY <1>1, <2>1, GpioTypes
  <2> QED BY <1>1, <1>2, <2>1, <2>2, <2>3
<1>7. ASSUME NEW off \in Offsets, NEW n \in {1, 2, 4}, NEW val \in Values, GuestWrite(off, n, val)
      PROVE  AccessTyped'
  <2>1. Low(val, 1) \in SUBSET Word
    BY <1>1, ShiftTypes
  <2> QED BY <1>1, <1>4, <1>7, <2>1 DEF GuestWrite
<1>8. CASE GuestWritesHigh
  <2> DEFINE high == Down(call.val, 8)
  <2>1. high \in SUBSET Word
    BY <1>1, ShiftTypes
  <2>2. StoresGpio(call.off + 1, 1, Low(high, 1))
    BY <1>8 DEF GuestWritesHigh
  <2> HIDE DEF high
  <2>3. Low(high, 1) \in SUBSET Word /\ call.off + 1 \in Nat /\ 1 \in {1, 2, 4}
    BY <1>1, <2>1, ShiftTypes
  <2> QED BY <1>4, <2>2, <2>3
<1>9. ASSUME NEW pin \in Pins, NEW high \in BOOLEAN, HostSetsPin(pin, high) PROVE AccessTyped'
  BY <1>1, <1>2, <1>9 DEF HostSetsPin
<1>10. ASSUME NEW off \in Offsets, HostReads16(off) PROVE AccessTyped'
  BY <1>1, <1>2, <1>10, GpioTypes, ZenonT(40) DEF HostReads16
<1>11. ASSUME NEW off \in Offsets, NEW val \in Values, HostWrites16(off, val) PROVE AccessTyped'
  <2>1. Low(val, 2) \in SUBSET Word
    BY <1>1, ShiftTypes
  <2> QED BY <1>1, <1>4, <1>11, <2>1 DEF HostWrites16
<1>12. CASE HostLooksAtLed
  BY <1>1, <1>2, <1>12 DEF HostLooksAtLed, Word
<1>13. CASE LineNext \/ UNCHANGED portVars
  BY <1>3, <1>13 DEF LineNext, portVars, GuestReadsLine, GuestReadsLineHigh, GuestSends, GuestSendsHigh
<1> QED
  BY <1>5, <1>6, <1>7, <1>8, <1>9, <1>10, <1>11, <1>12, <1>13 DEF PortNext

\* The invariants of the parts, side by side.
EmbedderInv == LoaderInv /\ TypedInv /\ LineInv /\ AccessTyped /\ DebuggerInv

\* Where a session begins.
LEMMA EmbedderInitEstablishes ==
  ASSUME BusAssumption, MemoryBusAssumption, LoaderAssumption, PortsAssumption, DebuggerAssumption,
         EmbedderInit
  PROVE  EmbedderInv
<1>1. LoaderInv /\ DebuggerInv
  BY LoaderInitEstablishes, InitEstablishes DEF EmbedderInit
<1>2. TypedInv /\ LineInv
  BY PortsInitTyped, PortsInitOnLine DEF EmbedderInit
<1>3. AccessTyped
  BY DEF EmbedderInit, PortsInit, AccessTyped, Access
<1> QED BY <1>1, <1>2, <1>3 DEF EmbedderInv

\* A step of one part leaves the others alone.
LEMMA EmbedderNextKeeps ==
  ASSUME BusAssumption, MemoryBusAssumption, LoaderAssumption, PortsAssumption, DebuggerAssumption,
         EmbedderInv, [EmbedderNext]_embedderVars
  PROVE  EmbedderInv'
<1>1. [LoaderNext]_loadVars /\ [PortNext \/ LineNext]_portVars /\ [DebuggerNext]_debugVars
  BY DEF EmbedderNext, embedderVars
<1>2. LoaderInv'
  BY <1>1, LoaderNextKeeps DEF EmbedderInv
<1>3. TypedInv' /\ LineInv' /\ AccessTyped'
  BY <1>1, TypedStep, LineStep, AccessStep DEF EmbedderInv
<1>4. DebuggerInv'
  BY <1>1, StepKeeps DEF EmbedderInv
<1> QED BY <1>2, <1>3, <1>4 DEF EmbedderInv

\* The invariant holds in every reachable state.
THEOREM EmbedderInvariant == EmbedderSpec => []EmbedderInv
<1>1. EmbedderInit => EmbedderInv
  BY EmbedderInitEstablishes, BusAssumption, MemoryBusAssumption, LoaderAssumption,
     PortsAssumption, DebuggerAssumption
<1>2. EmbedderInv /\ [EmbedderNext]_embedderVars => EmbedderInv'
  BY EmbedderNextKeeps, BusAssumption, MemoryBusAssumption, LoaderAssumption,
     PortsAssumption, DebuggerAssumption
<1> QED
  BY <1>1, <1>2, PTL DEF EmbedderSpec

\* Memory, loadings, devices and the debugger's picture stay in their types, for
\* every file, board and host.
THEOREM EmbedderTypeCorrect == EmbedderSpec => []EmbedderTypeOK
<1>1. EmbedderInv => EmbedderTypeOK
  <2> SUFFICES ASSUME EmbedderInv PROVE EmbedderTypeOK
    OBVIOUS
  <2>1. LoadTypeOK /\ DebuggerTypeOK
    BY DEF EmbedderInv, LoaderInv, DebuggerInv
  <2>2. Busy => call.n = 2 /\ call.done = 1
    BY DEF EmbedderInv, TypedInv, CallType, Busy
  <2>3. refused \subseteq Nat
    BY DEF EmbedderInv, LineInv
  <2>4. PortsTypeOK
    BY <2>2, <2>3 DEF EmbedderInv, TypedInv, LineInv, AccessTyped, PortType, CallType, PortsTypeOK
  <2> QED BY <2>1, <2>4 DEF EmbedderTypeOK
<1> QED
  BY <1>1, EmbedderInvariant, PTL

\* For every file, table and end of it, segments over one another or over the host's
\* regions and more bytes in the file than in memory included: load_elf, load_raw and
\* the debugger's transfers lose no region and change a byte of RAM only where its
\* region gives it an address of the target (loader/elf.rs, loader/raw.rs, gdb.rs).
THEOREM LoadersKeepTheRest == EmbedderSpec => []LoaderKeepsTheRest
<1>1. EmbedderInv => LoaderKeepsTheRest
  BY DEF EmbedderInv, LoaderInv
<1> QED
  BY <1>1, EmbedderInvariant, PTL

\* load_elf of a sound file into free room succeeds, and every segment is in memory
\* with zeros behind the file's bytes, for every number of segments and every order
\* in which they lie (loader/elf.rs).
THEOREM SoundImagesLoad == EmbedderSpec => []ImageLoaded
<1>1. EmbedderInv => ImageLoaded
  BY LoadingLoads, LoaderAssumption DEF EmbedderInv
<1> QED
  BY <1>1, EmbedderInvariant, PTL
=============================================================================
