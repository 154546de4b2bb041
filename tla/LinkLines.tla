----------------------------- MODULE LinkLines -----------------------------
(***************************************************************************)
(* The link port (emu/link.c): two open-collector lines driven by the      *)
(* calculator on one side and by the emulated gray link on the other, and  *)
(* the link assist, the hardware that shifts whole bytes for the program.  *)
(* A line pattern is 0..3, bit set = pulled low.  Both shift registers     *)
(* move the least significant bit first; a byte is a sequence of Width     *)
(* bits (8 in the source).                                                 *)
(*                                                                         *)
(* The port is a record p, the functions of link.c are operators on it, so *)
(* that LinkBridge can call them in sequence within one step.  p.stop      *)
(* collects the stop reasons passed to tilem_z80_stop().                   *)
(***************************************************************************)
EXTENDS Naturals, Sequences

CONSTANTS
    Width,      \* bits of a byte
    Byte,       \* the bytes that are sent, sequences of Width bits
    Modes       \* the link modes the program sets

ASSUME WidthAssumption == Width \in Nat \ {0}
ASSUME ByteAssumption == \A b \in Byte : b \in Seq({0, 1}) /\ Len(b) = Width

AllModes == {"ASSIST", "NO_TIMEOUT", "INT_ACTIVE", "INT_READ", "INT_IDLE", "INT_ERROR"}
AllFlags == {"READ_BYTE", "READ_BUSY", "READ_ERROR", "WRITE_BUSY", "WRITE_ERROR"}
AllIrqs == {"LINK_ACTIVE", "LINK_READ", "LINK_IDLE", "LINK_ERROR"}
AllStops == {"READ_BYTE", "WRITE_BYTE", "ERROR"}
ASSUME ModesAssumption == Modes \subseteq SUBSET AllModes /\ {} \in Modes

-----------------------------------------------------------------------------
(* Lines.                                                                  *)

Opposite(v) == CASE v = 0 -> 3 [] v = 1 -> 2 [] v = 2 -> 1 [] v = 3 -> 0
LineOf(bit) == IF bit = 1 THEN 2 ELSE 1     \* the line a sender pulls
PulledBits(v) == CASE v = 0 -> {} [] v = 1 -> {1} [] v = 2 -> {2} [] v = 3 -> {1, 2}

\* What the program reads at the port: the lines nobody pulls.
Visible(p) == {1, 2} \ (PulledBits(p.lines) \cup PulledBits(p.ext))

Interrupt(p, irq, mode) ==
    IF mode \in p.mode THEN [p EXCEPT !.irq = @ \cup {irq}] ELSE p

SetLines(p, v) == [p EXCEPT !.lines = v]

\* dbus_set_extlines(): a change on a line the calculator leaves high interrupts.
SetExt(p, v) ==
    LET changed == (PulledBits(v) \ PulledBits(p.ext)) \cup (PulledBits(p.ext) \ PulledBits(v))
        q == IF changed \subseteq PulledBits(p.lines) THEN p
             ELSE Interrupt(p, "LINK_ACTIVE", "INT_ACTIVE")
    IN  [q EXCEPT !.ext = v]

Stop(p, reason) == [p EXCEPT !.stop = @ \cup {reason}]

-----------------------------------------------------------------------------
(* The link assist.                                                        *)

SetTimeout(p) == IF "NO_TIMEOUT" \in p.mode THEN p ELSE [p EXCEPT !.timer = TRUE]
ClearTimeout(p) == [p EXCEPT !.timer = FALSE]

AssistError(p, busy, error) ==
    Interrupt(ClearTimeout(SetLines([p EXCEPT !.flags = (@ \ {busy}) \cup {error}], 0)),
              "LINK_ERROR", "INT_ERROR")

AssistWrite(p) ==
    CASE p.ext = 0 /\ p.lines = 0 /\ p.aout # <<>> ->
           SetTimeout([SetLines(p, LineOf(Head(p.aout))) EXCEPT !.aout = Tail(@)])
      [] p.ext = 0 /\ p.lines = 0 /\ p.aout = <<>> ->
           ClearTimeout([p EXCEPT !.flags = @ \ {"WRITE_BUSY"}])
      [] p.ext \in {1, 2} /\ p.ext = Opposite(p.lines) -> ClearTimeout(SetLines(p, 0))
      [] p.ext = 3 -> AssistError(p, "WRITE_BUSY", "WRITE_ERROR")
      [] OTHER -> p

\* A bit ends when the other side releases its line; lines tells which bit it was.
AssistBit(p) ==
    IF p.lines \in {1, 2}
      THEN [p EXCEPT !.ain = Append(Tail(@), IF p.lines = 1 THEN 1 ELSE 0),
                     !.ainbits = @ + 1]
      ELSE p

AssistRead(p) ==
    CASE p.ext = 0 ->
           LET q == AssistBit(p)
               r == IF q.ainbits >= Width
                      THEN ClearTimeout([q EXCEPT !.flags = (@ \ {"READ_BUSY"}) \cup {"READ_BYTE"}])
                      ELSE SetTimeout(q)
           IN  SetLines(r, 0)
      [] p.ext \in {1, 2} ->
           SetTimeout(SetLines([p EXCEPT !.flags = @ \cup {"READ_BUSY"}], Opposite(p.ext)))
      [] p.ext = 3 -> AssistError(p, "READ_BUSY", "READ_ERROR")

Assist(p) ==
    IF "WRITE_BUSY" \in p.flags THEN AssistWrite(p)
    ELSE IF "ASSIST" \in p.mode /\ "READ_BYTE" \notin p.flags THEN AssistRead(p)
    ELSE p

-----------------------------------------------------------------------------
(* The gray link.  gsend is graylinkoutbits # 0, and gout what is left to  *)
(* send: graylinkoutbits is one more than the number of bits left, for the *)
(* wait after the last one.                                                *)

\* Mutant: the gray link does not notice that both lines are pulled.
MutGrayWrite(p) ==
    CASE p.lines = 0 /\ p.ext = 0 /\ p.gout # <<>> ->
           [SetExt(p, LineOf(Head(p.gout))) EXCEPT !.gout = Tail(@)]
      [] p.lines = 0 /\ p.ext = 0 /\ p.gout = <<>> ->
           Stop([p EXCEPT !.gsend = FALSE], "WRITE_BYTE")
      [] p.lines \in {1, 2} /\ p.ext = Opposite(p.lines) -> SetExt(p, 0)
      [] OTHER -> p

GrayWrite(p) ==
    CASE p.lines = 0 /\ p.ext = 0 /\ p.gout # <<>> ->
           [SetExt(p, LineOf(Head(p.gout))) EXCEPT !.gout = Tail(@)]
      [] p.lines = 0 /\ p.ext = 0 /\ p.gout = <<>> ->
           Stop([p EXCEPT !.gsend = FALSE], "WRITE_BYTE")
      [] p.lines \in {1, 2} /\ p.ext = Opposite(p.lines) -> SetExt(p, 0)
      [] p.lines = 3 -> Stop([SetExt(p, 0) EXCEPT !.gsend = FALSE, !.gout = <<>>], "ERROR")
      [] OTHER -> p

GrayRead(p) ==
    CASE p.lines = 0 ->
           LET q == IF p.ext \in {1, 2}
                      THEN [p EXCEPT !.gin = Append(@, IF p.ext = 1 THEN 1 ELSE 0)] ELSE p
           IN  SetExt(IF Len(q.gin) >= Width THEN Stop(q, "READ_BYTE") ELSE q, 0)
      [] p.lines \in {1, 2} -> SetExt(p, Opposite(p.lines))
      [] p.lines = 3 -> Stop([SetExt(p, 0) EXCEPT !.gin = <<>>], "ERROR")

Gray(p) ==
    IF p.gsend THEN GrayWrite(p)
    ELSE IF Len(p.gin) # Width THEN GrayRead(p)
    ELSE p

-----------------------------------------------------------------------------
(* dbus_update(): both sides take turns until the calculator's lines rest. *)

UpdateIrqs(p) ==
    [p EXCEPT !.irq = (@ \ {"LINK_READ", "LINK_IDLE"})
        \cup (IF "READ_BYTE" \in p.flags /\ "INT_READ" \in p.mode THEN {"LINK_READ"} ELSE {})
        \cup (IF p.flags \cap {"READ_BUSY", "WRITE_BUSY"} = {} /\ "INT_IDLE" \in p.mode
                THEN {"LINK_IDLE"} ELSE {})]

\* A turn of each, and whether the lines rest.
Turn(p) ==
    LET q == Gray(p)
        r == Assist(q)
    IN  [at |-> r, rests |-> r.lines = q.lines]

\* The loop after n turns: it ends by itself before MostTurns of them.
MostTurns == 2 * Width + 3
Loop(p) ==
    LET s[n \in 0..MostTurns] ==
            IF n = 0 THEN [at |-> p, rests |-> FALSE]
            ELSE LET last == s[n - 1] IN IF last.rests THEN last ELSE Turn(last.at)
    IN  s

Update(p) == UpdateIrqs(Loop(p)[MostTurns].at)

\* Mutant: a write to the port does not let the gray link answer.
MutPortWrite(p, v) ==
    IF "ASSIST" \in p.mode \/ "WRITE_BUSY" \in p.flags THEN p ELSE SetLines(p, v)

\* tilem_linkport_set_lines(), the program's write to the port.
PortWrite(p, v) ==
    Update(IF "ASSIST" \in p.mode \/ "WRITE_BUSY" \in p.flags THEN p ELSE SetLines(p, v))

\* Mutant: reading a byte does not let the port move on.
MutReadByteNoUpdate(p) ==
    [p EXCEPT !.flags = @ \ {"READ_BYTE", "READ_BUSY"}, !.ainbits = 0]

\* tilem_linkport_read_byte(); the value read is p.ain.
ReadByte(p) ==
    Update([p EXCEPT !.flags = @ \ {"READ_BYTE", "READ_BUSY"}, !.ainbits = 0])

\* tilem_linkport_write_byte()
WriteByte(p, b) ==
    IF p.flags \cap {"READ_BUSY", "WRITE_BUSY"} # {} THEN p
    ELSE Update([SetLines(p, 0) EXCEPT !.aout = b, !.flags = @ \cup {"WRITE_BUSY"}])

\* tilem_linkport_set_mode()
SetMode(p, m) ==
    LET toggled == ("ASSIST" \in m) # ("ASSIST" \in p.mode)
        q == IF toggled
               THEN ClearTimeout([SetLines(p, 0) EXCEPT !.flags = @ \ {"READ_BUSY", "WRITE_BUSY"}])
               ELSE p
        off == (IF "INT_ACTIVE" \in m THEN {} ELSE {"LINK_ACTIVE"})
                 \cup (IF "INT_ERROR" \in m THEN {} ELSE {"LINK_ERROR"})
    IN  Update([q EXCEPT !.mode = m, !.irq = @ \ off])

\* tilem_linkport_assist_timer(), two seconds after the timeout was set.
AssistTimer(p) ==
    LET q == [p EXCEPT !.timer = FALSE]
    IN  CASE "WRITE_BUSY" \in p.flags ->
               Interrupt([q EXCEPT !.flags = (@ \ {"WRITE_BUSY"}) \cup {"WRITE_ERROR"}],
                         "LINK_ERROR", "INT_ERROR")
          [] "WRITE_BUSY" \notin p.flags /\ "READ_BUSY" \in p.flags ->
               Interrupt([q EXCEPT !.flags = (@ \ {"READ_BUSY"}) \cup {"READ_ERROR"}],
                         "LINK_ERROR", "INT_ERROR")
          [] OTHER -> q

\* tilem_linkport_reset() after tilem_z80_reset(); the gray link's side is left alone.
PortReset(p) ==
    [p EXCEPT !.lines = 0, !.timer = FALSE, !.mode = {}, !.flags = {}, !.irq = {},
              !.ain = [i \in 1..Width |-> 0], !.ainbits = 0, !.aout = <<>>]

GrayReset(p) ==
    Update(SetExt([p EXCEPT !.gin = <<>>, !.gout = <<>>, !.gsend = FALSE], 0))

GrayReady(p) == ~p.gsend /\ p.gin = <<>>

\* tilem_linkport_graylink_send_byte() when the gray link is ready.
GraySend(p, b) == Update([SetExt(p, 0) EXCEPT !.gout = b, !.gsend = TRUE])

\* tilem_linkport_graylink_get_byte(): the port moves on, then a byte is taken.
GrayGetHas(p) == Len(Update(p).gin) = Width
GrayGetByte(p) == Update(p).gin
GrayGet(p) ==
    LET q == Update(p) IN IF Len(q.gin) = Width THEN [q EXCEPT !.gin = <<>>] ELSE q

-----------------------------------------------------------------------------
Idle ==
    [lines |-> 0, ext |-> 0, gin |-> <<>>, gout |-> <<>>, gsend |-> FALSE,
     ain |-> [i \in 1..Width |-> 0], ainbits |-> 0, aout |-> <<>>, flags |-> {},
     mode |-> {}, irq |-> {}, timer |-> FALSE, stop |-> {}]

PortRecord ==
    [lines : 0..3,
     ext : 0..2,            \* the gray link never pulls both lines
     gin : Seq({0, 1}), gout : Seq({0, 1}), gsend : BOOLEAN,
     ain : Seq({0, 1}), ainbits : 0..Width, aout : Seq({0, 1}),
     flags : SUBSET AllFlags, mode : Modes, irq : SUBSET AllIrqs,
     timer : BOOLEAN, stop : SUBSET AllStops]
PortType(p) ==
    /\ p \in PortRecord
    /\ Len(p.ain) = Width
    /\ Len(p.gin) <= Width /\ Len(p.gout) <= Width /\ Len(p.aout) <= Width
=============================================================================
