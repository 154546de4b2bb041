------------------------------ MODULE MCEmuCore ------------------------------
(******************************************************************************)
(* The desktop emulator's core thread for TLC and, beside it, the two ends of *)
(* the cable that its transfers and the virtual cable of Calc use, which meet *)
(* only in LinkBridge.  A behaviour is of one of them.                        *)
(*   core: the operations that a user does in one behaviour.  Each set is     *)
(* about one thing that may go wrong: cancelling, replacing the calculator or *)
(* ending under a task, macros, options that change while a device is opened, *)
(* and cables.                                                                *)
(*   buffer: a ring of 3 slots, so that every position of base and every      *)
(* amount of overflow up to the ring's size is met.                           *)
(*   port: bytes of 2 bits and modes of x4_io.c, where the program switches   *)
(* the assist and each of the interrupts.                                     *)
(******************************************************************************)
EXTENDS EmuCore, LinkBuffer, LinkPort

CONSTANT Parts
VARIABLE part

Users ==
    {{"run", "pause", "direct", "cancel", "break", "link"},
     {"run", "list", "load", "free"},
     {"run", "receive", "load"},
     {"run", "macro", "load"},
     {"run", "loadmacro", "direct"},
     {"run", "audio", "options", "raw", "off", "pause"},
     {"run", "audio", "options", "load", "nocable", "raw"},
     {"run", "cooked", "raw", "limit", "nocable"},
     {"run", "cooked", "link"},
     {"run", "key", "off", "link", "macro"}}
Musician == {{"run", "audio", "load"}}

Bits == {0, 1}
TwoBits == [1..2 -> {0, 1}]
X4Modes == {{}, {"ASSIST"}, {"ASSIST", "INT_READ", "INT_IDLE"},
            {"ASSIST", "INT_ACTIVE", "INT_ERROR"}, {"INT_ACTIVE", "INT_READ"}}

coreVars == <<part, vars, bufferVars, port>>
InCore(A) == part = "core" /\ A /\ UNCHANGED <<part, bufferVars, port>>

CoreInit ==
    /\ part \in Parts
    /\ Init /\ BufferInit /\ PortInit
    /\ part # "core" => gui.ops = {"run", "macro", "load"}
    /\ part # "buffer" => d = [i \in Slots |-> 0]

CorePartsNext ==
    \/ InCore(Next)
    \/ part = "buffer" /\ BufferNext /\ UNCHANGED <<part, vars, port>>
    \/ part = "port" /\ PortNext /\ UNCHANGED <<part, vars, bufferVars>>

CoreSpec ==
    /\ CoreInit /\ [][CorePartsNext]_coreVars
    /\ WF_coreVars(InCore(CoreNext)) /\ WF_coreVars(InCore(GuiGoesOn))
    /\ SF_coreVars(InCore(GuiIdle))
=============================================================================
