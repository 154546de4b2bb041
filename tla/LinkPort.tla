------------------------------ MODULE LinkPort ------------------------------
(***************************************************************************)
(* The link port under any program on one side and any use of the gray     *)
(* link on the other.  The program reaches link.c through the ports of its *)
(* model (x4_io.c: 0 lines, 3 and 8 modes, 9 flags, 0A and 0D bytes); one  *)
(* access is one step, as is one call by the emulator thread or the GUI.   *)
(***************************************************************************)
EXTENDS LinkLines

VARIABLE port

\* Each operation starts without the stop reasons of the one before.
Fresh == [port EXCEPT !.stop = {}]

PortInit == port = Idle

ProgramLines == \E v \in 0..3 : port' = PortWrite(Fresh, v)

\* Port 9: reading the flags acknowledges the error interrupt.
ProgramFlags == port' = [Fresh EXCEPT !.irq = @ \ {"LINK_ERROR"}]

ProgramRead == port' = ReadByte(Fresh)

ProgramSend ==
    /\ "ASSIST" \in port.mode
    /\ \E b \in Byte : port' = WriteByte(Fresh, b)

ProgramMode == \E m \in Modes : port' = SetMode(Fresh, m)

Timeout == port.timer /\ port' = AssistTimer(Fresh)

CableSend == GrayReady(port) /\ \E b \in Byte : port' = GraySend(Fresh, b)

CableGet == port' = GrayGet(Fresh)

CableReset == port' = GrayReset(Fresh)

Reset == port' = PortReset(Fresh)

ProgramStep == ProgramLines \/ ProgramRead \/ ProgramSend \/ ProgramMode

PortNext ==
    \/ ProgramLines \/ ProgramFlags \/ ProgramRead \/ ProgramSend \/ ProgramMode
    \/ Timeout \/ CableSend \/ CableGet \/ CableReset \/ Reset

PortSpec == PortInit /\ [][PortNext]_port

-----------------------------------------------------------------------------
(* Properties.                                                             *)

\* The gray link is never in the middle of a byte in each direction at once, although
\* its two bit counts are independent fields and bits arrive in any operation.
HalfDuplex == port.gsend => port.gin = <<>>

\* The assist is never reading and writing at once and, on the calculators whose assist
\* has a timeout, it never waits for the other device without it, in the phases the
\* comments of link.c give one.
Timed == \A m \in Modes : "NO_TIMEOUT" \notin m
BusyTimesOut ==
    /\ ~({"READ_BUSY", "WRITE_BUSY"} \subseteq port.flags)
    /\ Timed =>
         /\ "READ_BUSY" \in port.flags => port.timer
         /\ "WRITE_BUSY" \in port.flags /\ port.lines # 0 => port.timer

\* The read interrupt tells the truth, and the idle interrupt is never pending while
\* the assist is at work.
InterruptsHonest ==
    /\ "LINK_READ" \in port.irq <=>
         "READ_BYTE" \in port.flags /\ "INT_READ" \in port.mode
    /\ "LINK_IDLE" \in port.irq => port.flags \cap {"READ_BUSY", "WRITE_BUSY"} = {}

\* The flags that a program waits for: one direction at a time, a timeout for each
\* wait, an interrupt for what has happened only, and no bit count past a byte.
WaitsSound == PortType(port) /\ HalfDuplex /\ BusyTimesOut /\ InterruptsHonest

\* link.c no longer updates the lines when the program reads the port or the flags
\* (lines 333 and 371 are commented out).  After an access of the program that can
\* change anything, and after a byte or a reset from the cable, the port is settled: one
\* more update would show it nothing new.  It need not be after a timeout, a byte taken
\* by the cable or a reset of the calculator, which do not end with an update.
Settled(p) ==
    LET q == Update(p)
    IN  Visible(q) = Visible(p) /\ q.flags = p.flags /\ q.gsend = p.gsend /\ q.irq = p.irq
ProgramSeesSettledPort ==
    [][ProgramStep \/ CableSend \/ CableReset => Settled(port')]_port

\* A byte goes through in a single call when the other end is waiting for it: what the
\* batch loop of Calc::run relies on in one direction, and a program in the other.
Waiting(p) ==
    /\ "ASSIST" \in p.mode /\ p.flags \cap {"READ_BYTE", "READ_BUSY", "WRITE_BUSY"} = {}
    /\ p.ainbits = 0 /\ p.lines = 0
GrayWaiting(p) == ~p.gsend /\ p.gin = <<>> /\ p.ext = 0
WholeByteSent(b) ==
    port' = GraySend(Fresh, b) /\ Waiting(port) =>
        /\ port'.ain = b
        /\ "READ_BYTE" \in port'.flags
        /\ ~port'.gsend /\ "WRITE_BYTE" \in port'.stop
WholeByteWritten(b) ==
    /\ port' = WriteByte(Fresh, b)
    /\ GrayWaiting(port) /\ port.flags \cap {"READ_BUSY", "WRITE_BUSY"} = {}
    => /\ port'.gin = b
       /\ "WRITE_BUSY" \notin port'.flags /\ "READ_BYTE" \in port'.stop
WholeByte ==
    [][ /\ CableSend => \A b \in Byte : WholeByteSent(b)
        /\ ProgramSend => \A b \in Byte : WholeByteWritten(b) ]_port

\* Both: what a program sees of the other end is up to date and complete.
PortServesProgram == ProgramSeesSettledPort /\ WholeByte
=============================================================================
