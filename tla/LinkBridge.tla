----------------------------- MODULE LinkBridge -----------------------------
(***************************************************************************)
(* Bytes between the host and the program of the calculator: Calc::run     *)
(* (calc.cpp:821) feeds the gray link from m_input and empties it into     *)
(* m_output around each call of the Z80 run loop, and learns from the stop *)
(* reasons what happened on the lines.  m_input and m_output are the byte  *)
(* queues LinkBuffer implements; the host appends to m_input at any time.  *)
(*                                                                         *)
(* The program is external: it drives the lines bit by bit (TI-83:         *)
(* x3_io.c) or uses the link assist (TI-84 Plus: x4_io.c), and checks the  *)
(* lines before it acts, as the ROM's link routines do.  A third kind      *)
(* drives the lines and may pull both to give up a byte, after which the   *)
(* user may load a ROM again.  Host and program exchange bytes in turns    *)
(* or, if Turns is FALSE, at will.                                         *)
(***************************************************************************)
EXTENDS LinkPort

CONSTANTS
    Programs,   \* the kinds of program: "lines", "assist", "quitter"
    Turns,      \* a request of Burst bytes is answered before the next one
    Burst,      \* bytes of a request and of an answer
    SliceEnds,  \* the instruction that completes a byte may be the last of its slice
    Bound       \* bound: bytes sent by the host and by the program

ASSUME BridgeAssumption ==
    /\ Programs \subseteq {"lines", "assist", "quitter"}
    /\ {Turns, SliceEnds} \subseteq BOOLEAN
    /\ Burst \in Nat \ {0} /\ Bound \in Nat
    /\ {{}, {"ASSIST"}} \subseteq Modes

VARIABLES       \* and port, with the stop reasons of the Z80
    input,      \* m_input
    output,     \* m_output, what the host has received
    linkLock,   \* m_link_lock
    pc,         \* Calc::run: "top", "batch", "emu", "after"; "ended" is out of CalcThread::run
    program,    \* the kind of program, which never changes
    ppc,        \* where it is: "idle", "ack" (bit taken), "put" (bit sent), "next", "abort"
    rx,         \* the bits of the byte it is receiving
    tx,         \* the bits it has still to send
    asked,      \* history: bytes the host has sent
    heard,      \* history: bytes the program has received
    said        \* history: bytes the program has begun to send

runVars == <<input, output, linkLock, pc>>
progVars == <<ppc, rx, tx, heard, said>>
bridgeVars == <<port, runVars, progVars, asked, program>>

UsesAssist == program = "assist"

NewPort == [Idle EXCEPT !.mode = IF UsesAssist THEN {"ASSIST"} ELSE {}]

BridgeInit ==
    /\ program \in Programs
    /\ port = NewPort
    /\ input = <<>> /\ output = <<>> /\ linkLock = FALSE /\ pc = "top"
    /\ ppc = "idle" /\ rx = <<>> /\ tx = <<>>
    /\ asked = <<>> /\ heard = <<>> /\ said = <<>>

-----------------------------------------------------------------------------
(* The host: Calc::sendByte().                                             *)

\* The bytes of whole requests or answers.
Bursts(s) == (Len(s) \div Burst) * Burst

HostSend ==
    /\ Len(asked) < Bound
    /\ Turns => Len(output) >= Bursts(asked)
    /\ \E b \in Byte : asked' = Append(asked, b) /\ input' = Append(input, b)
    /\ UNCHANGED <<port, output, linkLock, pc, progVars, program>>

-----------------------------------------------------------------------------
(* Calc::run.                                                              *)

NoStop(p) == [p EXCEPT !.stop = {}]
Sent(p) == "WRITE_BYTE" \in p.stop

\* m_link_lock: a byte is on its way, nothing is tried before the Z80 runs.
TopLocked ==
    /\ pc = "top" /\ linkLock
    /\ pc' = "emu"
    /\ port' = NoStop(port)
    /\ UNCHANGED <<input, output, linkLock, progVars, asked, program>>

\* Mutant: the byte is taken out of m_input even if the gray link refuses it.
MutTopSend ==
    /\ pc = "top" /\ ~linkLock /\ input # <<>>
    /\ IF GrayReady(port)
         THEN LET p == GraySend(NoStop(port), Head(input))
              IN  /\ port' = IF Sent(p) THEN p ELSE NoStop(p)
                  /\ linkLock' = ~Sent(p)
                  /\ pc' = IF Sent(p) THEN "batch" ELSE "emu"
         ELSE /\ port' = NoStop(port)
              /\ pc' = "emu"
              /\ UNCHANGED linkLock
    /\ input' = Tail(input)
    /\ UNCHANGED <<output, progVars, asked, program>>

\* A byte is offered to the gray link; taken in one call, it opens the batch.
TopSend ==
    /\ pc = "top" /\ ~linkLock /\ input # <<>>
    /\ IF GrayReady(port)
         THEN LET p == GraySend(NoStop(port), Head(input))
              IN  /\ port' = IF Sent(p) THEN p ELSE NoStop(p)
                  /\ linkLock' = ~Sent(p)
                  /\ pc' = IF Sent(p) THEN "batch" ELSE "emu"
                  /\ input' = Tail(input)
         ELSE /\ port' = NoStop(port)
              /\ pc' = "emu"
              /\ UNCHANGED <<linkLock, input>>
    /\ UNCHANGED <<output, progVars, asked, program>>

\* The batch: bytes follow while each is taken in one call.
BatchSend ==
    /\ pc = "batch" /\ input # <<>> /\ Sent(port)
    /\ IF GrayReady(port)
         THEN port' = GraySend(NoStop(port), Head(input)) /\ input' = Tail(input)
         ELSE port' = NoStop(port) /\ UNCHANGED input
    /\ UNCHANGED <<output, linkLock, pc, progVars, asked, program>>

BatchEnd ==
    /\ pc = "batch" /\ (input = <<>> \/ ~Sent(port))
    /\ pc' = "emu"
    /\ port' = NoStop(port)
    /\ UNCHANGED <<input, output, linkLock, progVars, asked, program>>

\* Nothing to send: a whole byte held by the gray link goes to m_output.
TopGet ==
    /\ pc = "top" /\ ~linkLock /\ input = <<>>
    /\ output' = IF GrayGetHas(port) THEN Append(output, GrayGetByte(port)) ELSE output
    /\ port' = NoStop(GrayGet(port))
    /\ pc' = "emu"
    /\ UNCHANGED <<input, linkLock, progVars, asked, program>>

\* The Z80 stops at once for a reason, or at the end of its time for none.
EmuEnd ==
    /\ pc = "emu"
    /\ pc' = "after"
    /\ UNCHANGED <<port, input, output, linkLock, progVars, asked, program>>

\* Mutant: m_link_lock is not cleared when the byte is through.
MutAfter ==
    /\ pc = "after"
    /\ "ERROR" \notin port.stop
    /\ pc' = "top"
    /\ UNCHANGED <<port, input, output, linkLock, progVars, asked, program>>

\* No error: another round in the slice or, with no reason left, in the next one.
\* After WRITE_BYTE there is always another round (remaining is at least 1).
After ==
    /\ pc = "after"
    /\ "ERROR" \notin port.stop
    /\ linkLock' = (linkLock /\ ~Sent(port))
    /\ \/ pc' = "top"
       \/ SliceEnds /\ port.stop # {} /\ ~Sent(port) /\ pc' = "ended"
    /\ UNCHANGED <<port, input, output, progVars, asked, program>>

\* LINK_ERROR: the gray link is reset and run() returns the reason.
AfterError ==
    /\ pc = "after"
    /\ "ERROR" \in port.stop
    /\ linkLock' = (linkLock /\ ~Sent(port))
    /\ port' = GrayReset(port)
    /\ pc' = "ended"
    /\ UNCHANGED <<input, output, progVars, asked, program>>

\* The user restarts the thread: pause() and resume().
Restart ==
    /\ pc = "ended"
    /\ pc' = "top"
    /\ UNCHANGED <<port, input, output, linkLock, progVars, asked, program>>

\* Or loads a ROM: the calculator is new, m_input is not emptied.
Reload ==
    /\ pc = "ended" /\ program = "quitter"
    /\ port' = NewPort
    /\ linkLock' = FALSE
    /\ pc' = "top"
    /\ ppc' = "idle" /\ rx' = <<>> /\ tx' = <<>>
    /\ UNCHANGED <<input, output, heard, said, asked, program>>

-----------------------------------------------------------------------------
(* The program, one access to the port at a time while the Z80 runs.       *)

Running == pc = "emu" /\ port.stop = {}
Access(p) == port' = p /\ UNCHANGED <<runVars, asked, program>>

\* A bit of the other side is acknowledged by pulling the other line.
CanTakeBit ==
    /\ Running /\ ~UsesAssist
    /\ ppc = "idle" /\ tx = <<>>
    /\ port.lines = 0 /\ port.ext \in {1, 2}

TakeBit ==
    /\ CanTakeBit
    /\ rx' = Append(rx, IF port.ext = 2 THEN 1 ELSE 0)
    /\ ppc' = "ack"
    /\ Access(PortWrite(port, Opposite(port.ext)))
    /\ UNCHANGED <<tx, heard, said>>

\* The other side has released its line: so does the program.
CanEndBit ==
    /\ Running /\ ppc = "ack" /\ port.ext = 0

EndBit ==
    /\ CanEndBit
    /\ ppc' = "idle"
    /\ IF Len(rx) = Width THEN rx' = <<>> /\ heard' = Append(heard, rx)
                          ELSE UNCHANGED <<rx, heard>>
    /\ Access(PortWrite(port, 0))
    /\ UNCHANGED <<tx, said>>

\* The program answers what it has heard, or sends at will.
MaySay == Len(said) < Bound /\ (Turns => Len(said) < Bursts(heard))

\* A byte is begun: the first bit goes out when both lines are high.
Say ==
    /\ Running /\ ~UsesAssist
    /\ ppc = "idle" /\ rx = <<>> /\ tx = <<>> /\ MaySay
    /\ port.lines = 0 /\ port.ext = 0
    /\ \E b \in Byte :
          /\ tx' = Tail(b)
          /\ said' = Append(said, b)
          /\ Access(PortWrite(port, LineOf(Head(b))))
    /\ ppc' = "put"
    /\ UNCHANGED <<rx, heard>>

\* The bit is acknowledged: the program releases its line ...
CanAck ==
    /\ Running /\ ppc = "put"
    /\ port.ext = Opposite(port.lines)

Acked ==
    /\ CanAck
    /\ ppc' = IF tx = <<>> THEN "idle" ELSE "next"
    /\ Access(PortWrite(port, 0))
    /\ UNCHANGED <<rx, tx, heard, said>>

\* ... and sends the next when both lines are high.
CanPutBit ==
    /\ Running /\ ppc = "next"
    /\ port.lines = 0 /\ port.ext = 0

PutBit ==
    /\ CanPutBit
    /\ tx' = Tail(tx)
    /\ ppc' = "put"
    /\ Access(PortWrite(port, LineOf(Head(tx))))
    /\ UNCHANGED <<rx, heard, said>>

\* The assist has received a byte: the program reads it.
CanHear ==
    /\ Running /\ UsesAssist /\ "READ_BYTE" \in port.flags

AssistHears ==
    /\ CanHear
    /\ heard' = Append(heard, port.ain)
    /\ Access(ReadByte(port))
    /\ UNCHANGED <<ppc, rx, tx, said>>

\* The assist is idle: the program gives it a byte.
AssistSays ==
    /\ Running /\ UsesAssist /\ MaySay
    /\ port.flags \cap {"READ_BYTE", "READ_BUSY", "WRITE_BUSY"} = {}
    /\ \E b \in Byte : said' = Append(said, b) /\ Access(WriteByte(port, b))
    /\ UNCHANGED <<ppc, rx, tx, heard>>

\* The program gives up a byte by pulling both lines, then releases them.
GiveUp ==
    /\ Running /\ program = "quitter"
    /\ rx # <<>> /\ ppc = "idle"
    /\ ppc' = "abort" /\ rx' = <<>>
    /\ Access(PortWrite(port, 3))
    /\ UNCHANGED <<tx, heard, said>>

GaveUp ==
    /\ Running /\ ppc = "abort"
    /\ ppc' = "idle"
    /\ Access(PortWrite(port, 0))
    /\ UNCHANGED <<rx, tx, heard, said>>

-----------------------------------------------------------------------------
Run == \/ TopLocked \/ TopSend \/ BatchSend \/ BatchEnd \/ TopGet
       \/ EmuEnd \/ After \/ AfterError \/ Restart \/ Reload
Program == \/ TakeBit \/ EndBit \/ Say \/ Acked \/ PutBit
           \/ AssistHears \/ AssistSays \/ GiveUp \/ GaveUp
BridgeNext == HostSend \/ Run \/ Program

BridgeSpec == BridgeInit /\ [][BridgeNext]_bridgeVars

\* The thread runs on, and the program gets to each access it waits for: a slice
\* executes thousands of instructions before its time is over.  Where ENABLED would
\* have to evaluate Update, fairness is written with the guard itself.
BridgeFairness ==
    /\ WF_bridgeVars(TopLocked \/ BatchEnd \/ EmuEnd \/ After \/ Restart)
    /\ []<>(pc \in {"top", "batch", "after"}) => []<><<Run>>_bridgeVars
    /\ []<>CanTakeBit => []<><<TakeBit>>_bridgeVars
    /\ []<>CanEndBit => []<><<EndBit>>_bridgeVars
    /\ []<>CanAck => []<><<Acked>>_bridgeVars
    /\ []<>CanPutBit => []<><<PutBit>>_bridgeVars
    /\ []<>CanHear => []<><<AssistHears>>_bridgeVars
FairSpec == BridgeSpec /\ BridgeFairness

-----------------------------------------------------------------------------
(* Properties.                                                             *)

\* Types.
BridgeType ==
    /\ PortType(port)
    /\ input \in Seq(Byte) /\ output \in Seq(Byte)
    /\ linkLock \in BOOLEAN
    /\ pc \in {"top", "batch", "emu", "after", "ended"}
    /\ program \in Programs
    /\ ppc \in {"idle", "ack", "put", "next", "abort"}
    /\ Len(rx) <= Width /\ Len(tx) < Width
    /\ asked \in Seq(Byte) /\ heard \in Seq(Byte) /\ said \in Seq(Byte)

IsPrefix(s, t) == Len(s) <= Len(t) /\ s = SubSeq(t, 1, Len(s))

\* The bits of the byte on its way to the program, and of the one on its way out.
WireIn == IF port.gsend /\ port.ext # 0 /\ ppc # "ack"
            THEN <<IF port.ext = 2 THEN 1 ELSE 0>> ELSE <<>>
InFlight == LET bits == rx \o WireIn \o port.gout
                whole == IF "READ_BYTE" \in port.flags THEN <<port.ain>> ELSE <<>>
            IN  IF bits = <<>> THEN whole ELSE Append(whole, bits)

\* Every byte the host sent has been heard, is on the lines or is in m_input, in order
\* and once, at every instant; and the host receives the bytes the program sent,
\* unaltered and in order.
NothingLost ==
    /\ BridgeType
    /\ program # "quitter" =>
         /\ asked = heard \o InFlight \o input
         /\ IsPrefix(output, said)

\* Also when the program gives bytes up and ROMs are loaded, what each side receives was
\* sent, in that order: an error leaves neither side in the middle of a byte.
IsSubsequence(s, t) ==
    \E f \in [1..Len(s) -> 1..Len(t)] :
        /\ \A i \in 1..Len(s) : s[i] = t[f[i]]
        /\ \A i, j \in 1..Len(s) : i < j => f[i] < f[j]
BytesStayWhole == IsSubsequence(heard, asked) /\ IsSubsequence(output, said)

\* Everything the host sends reaches the program, and everything the program says
\* reaches the host, if the user restarts a thread that has ended.
Delivered ==
    program # "quitter" =>
        \A n \in 1..Bound : /\ Len(asked) >= n ~> Len(heard) >= n
                            /\ Len(said) >= n ~> Len(output) >= n

\* calc.cpp:893, "seamlessly transfer data from buffers to the calc using a virtual
\* graylink to allow asynchronous transfers": a byte the gray link holds is fetched.
Held == Len(port.gin) = Width
HeldIsFetched == Held ~> ~Held

\* The same: a transfer does not end the emulator thread.
TransferIsSeamless == pc # "ended"
-----------------------------------------------------------------------------
(* For TLC: bytes of 2 bits that differ in every position.                 *)
TwoBytes == {<<0, 1>>, <<1, 0>>}
=============================================================================
