------------------------------- MODULE Ports --------------------------------
(***************************************************************************)
(* The devices a guest shares with its host: the GPIO port of              *)
(* src/device/stm32_gpio.rs and the serial line of src/device/uart.rs,     *)
(* behind a lock the two threads share (BusDevice::SharedArc, src/bus.rs). *)
(*                                                                         *)
(* A guest's access of one or four bytes takes the lock once.  One of two  *)
(* bytes is two accesses of a byte, because BusDevice inherits the default *)
(* read_16 and write_16 of the Device trait, and the host may come in      *)
(* between.  The host reaches the port's own 16 bit accesses too.          *)
(* A value is the set of the numbers of its bits that are one.             *)
(***************************************************************************)
EXTENDS Integers, Sequences, FiniteSets

CONSTANTS
    Offsets,     \* offsets of accesses to the port
    LineOffsets, \* and to the serial line
    Values,      \* the values that are written to the port
    LineValues,  \* and to the serial line
    Pins,        \* the pins the host drives
    Boards,      \* the registers a port may begin with
    MaxMeant     \* bound on the number of bytes the guest sends

ASSUME PortsAssumption ==
    /\ Offsets \subseteq Nat /\ LineOffsets \subseteq Nat
    /\ Values \subseteq SUBSET (0 .. 31) /\ LineValues \subseteq SUBSET (0 .. 31)
    /\ Pins \subseteq 0 .. 31   \* a pin above 31 is a shift out of range
    /\ Boards \subseteq [0 .. 7 -> SUBSET (0 .. 31)]
    /\ MaxMeant \in Nat

VARIABLES
    port,     \* registers of Stm32Gpio
    line,     \* what the host's stream has taken from the Uart
    access,   \* the latest access to the port, under the lock
    call,     \* the guest's load or store under way, or the one just done
    driven,   \* the pins the host has driven high
    levels,   \* the levels every pin has had during the call
    idrWritten, \* whether an access has written the input register
    meant,    \* the bytes the guest has stored to the line
    refused   \* the positions in meant of those the stream did not take

portVars == <<port, line, access, call, driven, levels, idrWritten, meant, refused>>

Word == 0 .. 31
Access(op, off, n, val) == [op |-> op, off |-> off, n |-> n, val |-> val]

\* val << k and val >> k on words; the lowest n bytes.
Up(val, k)   == {b + k : b \in val} \cap Word
Down(val, k) == {b - k : b \in val} \cap Word
Low(val, n)  == val \cap (0 .. (8 * n) - 1)

-----------------------------------------------------------------------------
(* Stm32Gpio                                                               *)

BitShift(off) == 8 * (off % 4)

\* An offset beyond the registers reads as zero.
GpioRead(p, off, n) ==
    IF off \div 4 \notin DOMAIN p THEN {}
    ELSE IF n = 4 THEN p[off \div 4] ELSE Low(Down(p[off \div 4], BitShift(off)), n)

\* Mutant: the mask clears one byte, whatever the width.
ReplacedOneByte(reg, off, val, n) ==
    (reg \ Up(Low(Word, 1), BitShift(off))) \cup Up(Low(val, n), BitShift(off))

\* (reg & !(mask << shift)) | (val << shift)
Replaced(reg, off, val, n) ==
    (reg \ Up(Low(Word, n), BitShift(off))) \cup Up(Low(val, n), BitShift(off))

GpioWritten(p, off, val, n) ==
    IF off \div 4 \notin DOMAIN p THEN p
    ELSE [p EXCEPT ![off \div 4] = IF n = 4 THEN val ELSE Replaced(@, off, val, n)]

\* Mutant: driving a pin low clears the register's other pins.
PinSetAlone(p, pin, high) ==
    [p EXCEPT ![4] = IF high THEN @ \cup {pin} ELSE @ \cap {pin}]

PinSet(p, pin, high) ==
    [p EXCEPT ![4] = IF high THEN @ \cup {pin} ELSE @ \ {pin}]

\* is_idr_pin_high, by its name; it answers the opposite.
IsIdrPinHigh(p, pin)   == pin \notin p[4]
IsModerPinHigh(p, pin) == pin \in p[0]
IsOdrPinHigh(p, pin)   == pin \in p[5]
IsLedOn(p)             == IsModerPinHigh(p, 10) /\ IsOdrPinHigh(p, 5)

-----------------------------------------------------------------------------
(* Uart                                                                    *)

\* The flag register says ready to send, nothing received; the rest is zero.
UartByte(off) == IF off = 24 THEN {4, 7} ELSE {}
UartRead(off, n) == UNION {Up(UartByte(off + k), 8 * k) : k \in 0 .. n - 1}

\* Mutant: every offset sends.
SendsAnywhere(off) == TRUE

Sends(off) == off = 0

\* write_8 ignores whether the host's stream took the byte.  Of a word, written
\* byte by byte, at most the lowest byte goes to offset 0.
UartWrite(off, val, took) ==
    /\ line' = IF Sends(off) /\ took THEN Append(line, Low(val, 1)) ELSE line
    /\ refused' = IF Sends(off) /\ ~took THEN refused \cup {Len(line) + Cardinality(refused) + 1}
                  ELSE refused

-----------------------------------------------------------------------------
(* The guest's loads and stores                                            *)

NoCall == [op |-> "none", dev |-> "gpio", off |-> 0, n |-> 1, val |-> {}, done |-> 1]

Busy == call.done < call.n

\* The levels the call may see are those of now and of its rest.
Called(op, dev, off, n, val) ==
    /\ call' = [op |-> op, dev |-> dev, off |-> off, n |-> n, val |-> val,
                done |-> IF n = 2 THEN 1 ELSE n]
    /\ levels' = [pin \in Pins |-> {high \in BOOLEAN : high <=> pin \in driven}]

WritesIdr(off) == off \div 4 = 4

\* One access under the lock; a halfword's first byte comes with the call.
GuestRead(off, n) ==
    LET m   == IF n = 2 THEN 1 ELSE n
        val == GpioRead(port, off, m)
    IN  /\ ~Busy
        /\ access' = Access("read", off, m, val)
        /\ Called("read", "gpio", off, n, val)
        /\ UNCHANGED <<port, line, driven, idrWritten, meant, refused>>

GuestReadsHigh ==
    LET val == GpioRead(port, call.off + 1, 1)
    IN  /\ Busy /\ call.op = "read" /\ call.dev = "gpio"
        /\ access' = Access("read", call.off + 1, 1, val)
        /\ call' = [call EXCEPT !.val = @ \cup Up(val, 8), !.done = 2]
        /\ UNCHANGED <<port, line, driven, levels, idrWritten, meant, refused>>

StoresGpio(off, n, val) ==
    /\ access' = Access("write", off, n, val)
    /\ port' = GpioWritten(port, off, val, n)
    /\ idrWritten' = (idrWritten \/ WritesIdr(off))

GuestWrite(off, n, val) ==
    /\ ~Busy
    /\ StoresGpio(off, IF n = 2 THEN 1 ELSE n, IF n = 4 THEN val ELSE Low(val, 1))
    /\ Called("write", "gpio", off, n, val)
    /\ UNCHANGED <<line, driven, meant, refused>>

GuestWritesHigh ==
    /\ Busy /\ call.op = "write" /\ call.dev = "gpio"
    /\ StoresGpio(call.off + 1, 1, Low(Down(call.val, 8), 1))
    /\ call' = [call EXCEPT !.done = 2]
    /\ UNCHANGED <<line, driven, levels, meant, refused>>

GuestReadsLine(off, n) ==
    /\ ~Busy
    /\ Called("read", "uart", off, n, UartRead(off, IF n = 2 THEN 1 ELSE n))
    /\ UNCHANGED <<port, line, access, driven, idrWritten, meant, refused>>

GuestReadsLineHigh ==
    /\ Busy /\ call.op = "read" /\ call.dev = "uart"
    /\ call' = [call EXCEPT !.val = @ \cup Up(UartByte(call.off + 1), 8), !.done = 2]
    /\ UNCHANGED <<port, line, access, driven, levels, idrWritten, meant, refused>>

GuestSends(off, n, val) ==
    /\ ~Busy
    /\ Len(meant) < MaxMeant
    /\ \E took \in BOOLEAN : UartWrite(off, val, took)
    /\ Called("write", "uart", off, n, val)
    /\ meant' = IF off = 0 THEN Append(meant, Low(val, 1)) ELSE meant
    /\ UNCHANGED <<port, access, driven, idrWritten>>

GuestSendsHigh ==
    /\ Busy /\ call.op = "write" /\ call.dev = "uart"
    /\ \E took \in BOOLEAN : UartWrite(call.off + 1, Down(call.val, 8), took)
    /\ call' = [call EXCEPT !.done = 2]
    /\ UNCHANGED <<port, access, driven, levels, idrWritten, meant>>

-----------------------------------------------------------------------------
(* The host, which holds the lock for each of its calls                    *)

\* A call of the guest that is done is forgotten.
Between(seen) ==
    IF Busy THEN UNCHANGED call /\ levels' = seen
    ELSE call' = NoCall /\ levels' = [pin \in Pins |-> {}]

HostSetsPin(pin, high) ==
    /\ port' = PinSet(port, pin, high)
    /\ access' = Access("drive", pin, 0, {})
    /\ driven' = IF high THEN driven \cup {pin} ELSE driven \ {pin}
    /\ Between([levels EXCEPT ![pin] = @ \cup {high}])
    /\ UNCHANGED <<line, idrWritten, meant, refused>>

HostReads16(off) ==
    /\ access' = Access("read", off, 2, GpioRead(port, off, 2))
    /\ Between(levels)
    /\ UNCHANGED <<port, line, driven, idrWritten, meant, refused>>

HostWrites16(off, val) ==
    /\ StoresGpio(off, 2, Low(val, 2))
    /\ Between(levels)
    /\ UNCHANGED <<line, driven, meant, refused>>

HostLooksAtLed ==
    /\ access' = Access("lamp", 0, 0, IF IsLedOn(port) THEN {0} ELSE {})
    /\ Between(levels)
    /\ UNCHANGED <<port, line, driven, idrWritten, meant, refused>>

PortsInit ==
    /\ port \in Boards
    /\ line = <<>>
    /\ access = Access("none", 0, 0, {})
    /\ call = NoCall
    /\ driven = port[4] \cap Pins
    /\ levels = [pin \in Pins |-> {}]
    /\ idrWritten = FALSE
    /\ meant = <<>>
    /\ refused = {}

PortNext ==
    \/ \E off \in Offsets, n \in {1, 2, 4} : GuestRead(off, n)
    \/ GuestReadsHigh
    \/ \E off \in Offsets, n \in {1, 2, 4}, val \in Values : GuestWrite(off, n, val)
    \/ GuestWritesHigh
    \/ \E pin \in Pins, high \in BOOLEAN : HostSetsPin(pin, high)
    \/ \E off \in Offsets : HostReads16(off)
    \/ \E off \in Offsets, val \in Values : HostWrites16(off, val)
    \/ HostLooksAtLed

LineNext ==
    \/ \E off \in LineOffsets, n \in {1, 2, 4} : GuestReadsLine(off, n)
    \/ GuestReadsLineHigh
    \/ \E off \in LineOffsets, n \in {1, 2, 4}, val \in LineValues : GuestSends(off, n, val)
    \/ GuestSendsHigh

PortsSpec == PortsInit /\ [][PortNext \/ LineNext]_portVars

-----------------------------------------------------------------------------
(* Properties                                                              *)

PortsTypeOK ==
    /\ port \in [0 .. 7 -> SUBSET Word]
    /\ line \in Seq(SUBSET (0 .. 7))
    /\ access \in [op : {"none", "read", "write", "drive", "lamp"}, off : Nat, n : {0, 1, 2, 4},
                   val : SUBSET Word]
    /\ call \in [op : {"none", "read", "write"}, dev : {"gpio", "uart"}, off : Nat, n : {1, 2, 4},
                 val : SUBSET Word, done : {1, 2, 4}]
    /\ Busy => call.n = 2 /\ call.done = 1
    /\ driven \subseteq Pins
    /\ levels \in [Pins -> SUBSET BOOLEAN]
    /\ idrWritten \in BOOLEAN
    /\ meant \in Seq(SUBSET (0 .. 7))
    /\ refused \subseteq Nat

\* The registers as bytes: the refinement mapping.
PortByte(c) == {b \in 0 .. 7 : (8 * (c % 4)) + b \in port[c \div 4]}

\* What the port sees of accesses and their halves.
PortOffsets == {off + k : off \in Offsets, k \in {0, 1}}
PortValues == {Low(val, n) : val \in Values, n \in {1, 2, 4}}
                \cup {Low(Down(val, 8), 1) : val \in Values}

Row == INSTANCE RegisterBytes WITH
           Offsets <- PortOffsets,
           Values <- PortValues,
           cell <- [c \in 0 .. 31 |-> PortByte(c)]

\* Every access to the port, by the guest or the host, reads and replaces the
\* bytes its offset names and no others: the shifts and masks of the words agree
\* with it for every width.  A word access ignores the low bits of its offset, a
\* halfword at the last byte of a register loses its high byte, and nothing lies
\* behind the registers.
ImplementsRegisterBytes == Row!Spec

\* The bits of a register that a read of n bytes at off reports, low to high, and
\* the pin each of them is.
PinOf(off, n, b) == IF n = 4 THEN b ELSE b + BitShift(off)

\* Unless somebody has written the input register, a load by the guest reports
\* for each pin a level the pin had during the call, even if the host drives
\* pins between the two halves; and is_idr_pin_high answers the opposite of what
\* the host has set.
PinsReadTruly ==
    ~idrWritten =>
        /\ \A pin \in Pins : IsIdrPinHigh(port, pin) = (pin \notin driven)
        /\ call.op = "read" /\ call.dev = "gpio" /\ call.off \div 4 = 4 /\ ~Busy =>
              \A b \in 0 .. (8 * call.n) - 1 :
                  PinOf(call.off, call.n, b) \in Pins =>
                      (b \in call.val) \in levels[PinOf(call.off, call.n, b)]

\* Each byte the guest stores to the line is sent once and in order, whatever the
\* width of the store, except for those the host's stream does not take, of
\* which nobody is told; a store to any other offset sends nothing.
SentOnce ==
    ~Busy =>
        /\ Len(line) + Cardinality(refused) = Len(meant)
        /\ \A i \in DOMAIN meant \ refused :
              line[Cardinality((1 .. i) \ refused)] = meant[i]
=============================================================================
