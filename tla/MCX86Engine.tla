---------------------------- MODULE MCX86Engine -----------------------------
(***************************************************************************)
(* An instance of the x86 engine for TLC: instructions of one and two      *)
(* bytes, so that they straddle the end of a RAM.                          *)
(***************************************************************************)
EXTENDS X86Engine, TLC

CONSTANTS z, o, t, b1, b2

MCByte == {z, o, t}
MCBuf  == {b1, b2}

MCLength == [b \in MCByte |-> IF b = o THEN 2 ELSE 1]

\* z falls through and t raises an interrupt; o is told apart by its second byte.
MCDecode ==
    [w \in Word |->
        CASE w = <<o, o>> -> "store"
          [] w = <<o, z>> -> "jump"
          [] w = <<o, t>> -> "undef"
          [] w = <<t, z>> -> "svc"
          [] OTHER        -> "plain"]

Req(s, size, kind, len) == [start |-> s, size |-> size, kind |-> kind, len |-> len]
Poke(a, v) == [addr |-> a, byte |-> v]

\* A RAM of three bytes, and right behind it, up to the last EIP, one of two, one
\* that is too short for its region or empty, or a device.
MCRequests == {Req(0, 3, "ram", 3), Req(3, 2, "ram", 2), Req(3, 2, "ram", 1), Req(3, 2, "ram", 0),
               Req(3, 2, "mmio", 0)}
MCPokes == {Poke(0, o), Poke(1, o), Poke(2, o), Poke(0, t), Poke(3, o), Poke(6, o)}

\* One whole RAM, and nobody who does anything but patch it from outside.
PlainRequests == {Req(0, 3, "ram", 3)}
Nothing       == {}

MCTargets == {0, 2, 4}

Patch    == {"poke", "map", "pc"}
Watch    == {"poke", "map", "pc", "fail"}
Answer   == {"map", "pc", "fail"}
=============================================================================
