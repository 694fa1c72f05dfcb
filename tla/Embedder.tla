------------------------------ MODULE Embedder ------------------------------
(***************************************************************************)
(* What a program that embeds the emulator does with it besides running    *)
(* guests: it loads images into the memory, shares devices with the guest, *)
(* and looks at the registers.  They touch no common state, so that       *)
(* nothing can come of mixing them: a behaviour is a session of one kind.  *)
(***************************************************************************)
EXTENDS Loader, Ports, Debugger

CONSTANT Sessions   \* a subset of {"load", "port", "line", "debug"}

VARIABLE session

embedderVars == <<session, loadVars, portVars, debugVars>>

EmbedderInit ==
    /\ session \in Sessions
    /\ LoaderInit
    /\ PortsInit
    /\ DebuggerInit
    /\ session # "debug" => arch = "arm"
    /\ session # "port" => port = [r \in 0 .. 7 |-> {}]

EmbedderNext ==
    /\ UNCHANGED session
    /\ \/ session = "load"  /\ LoaderNext   /\ UNCHANGED <<portVars, debugVars>>
       \/ session = "port"  /\ PortNext     /\ UNCHANGED <<loadVars, debugVars>>
       \/ session = "line"  /\ LineNext     /\ UNCHANGED <<loadVars, debugVars>>
       \/ session = "debug" /\ DebuggerNext /\ UNCHANGED <<loadVars, portVars>>

EmbedderSpec == EmbedderInit /\ [][EmbedderNext]_embedderVars

\* The values every variable ranges over, whichever part is at work.
EmbedderTypeOK == LoadTypeOK /\ PortsTypeOK /\ DebuggerTypeOK
=============================================================================
