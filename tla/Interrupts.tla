----------------------------- MODULE Interrupts -----------------------------
(***************************************************************************)
(* Interrupt requests, the ports that mask and acknowledge them, and the   *)
(* order in which one iteration of z80_execute() executes an instruction,  *)
(* fires timers, accepts an interrupt and sleeps in HALT.  The program     *)
(* is the one the hazard is about: EI; HALT; work; and a handler that ends *)
(* in EI; RET and may use any of these ports before.                       *)
(***************************************************************************)
EXTENDS HwModels, FiniteSets

CONSTANT Port3Values     \* bytes written to port 3, as sets of the bits that are used
Port3Bits == {"ON", "T1", "T2", "LINK", "PWR"}
ASSUME Port3Assumption == Port3Values \subseteq SUBSET Port3Bits

VARIABLE calc            \* the registers below, as one record

irqVars == <<calc>>

(* pc: the instruction that follows; stack: return addresses; p3: port 3;  *)
(* onint, ondown: of the keypad; active: INT_ON_ACTIVE of the link's mode. *)
Fields == {"pc", "iff", "halted", "stack", "ints", "p3", "onint", "ondown", "power", "active"}
MaxDepth == 3            \* bound: nested interrupts

TimerFires == {"T1", "T2"}
-----------------------------------------------------------------------------
(* Port 3 of each family.  The simple models know ON and one timer, the    *)
(* TI-83 a second timer, those with Flash the line of the link.            *)
Masked(c, v, bits) == [c EXCEPT !.ints = @ \ (bits \ v), !.p3 = v,
                                !.onint = "ON" \in v, !.power = "PWR" \in v]
LinkActive(c, v) == [c EXCEPT !.active = "LINK" \in v,
                              !.ints = IF "LINK" \in v THEN @ ELSE @ \ {"LINK"}]

X1Port3(c, v) == Masked(c, v, {"ON", "T1"})
X2Port3(c, v) == Masked(c, v, {"ON", "T1"})
X5Port3(c, v) == Masked(c, v, {"ON", "T1"})
X6Port3(c, v) == Masked(c, v, {"ON", "T1"})
X3Port3(c, v) == Masked(c, v, {"ON", "T1", "T2"})
X7Port3(c, v) == LinkActive(Masked(c, v, {"ON", "T1", "T2"}), v)
XpPort3(c, v) == X7Port3(c, v)
XsPort3(c, v) == X7Port3(c, v)
X4Port3(c, v) == X7Port3(c, v)
XzPort3(c, v) == X7Port3(c, v)
XnPort3(c, v) == X7Port3(c, v)
XcPort3(c, v) == X7Port3(c, v)

Port3(c, v) ==
    CASE model = "x1" -> X1Port3(c, v) [] model = "x2" -> X2Port3(c, v)
      [] model = "x3" -> X3Port3(c, v) [] model = "x5" -> X5Port3(c, v)
      [] model = "x6" -> X6Port3(c, v) [] model = "x7" -> X7Port3(c, v)
      [] model = "xp" -> XpPort3(c, v) [] model = "xs" -> XsPort3(c, v)
      [] model = "x4" -> X4Port3(c, v) [] model = "xz" -> XzPort3(c, v)
      [] model = "xn" -> XnPort3(c, v) [] model = "xc" -> XcPort3(c, v)

(* Port 2 acknowledges on the SE and later models, but not on the Nspire.  *)
Acked(c, v) == [c EXCEPT !.ints = @ \cap v]
XsPort2(c, v) == Acked(c, v)
X4Port2(c, v) == Acked(c, v)
XzPort2(c, v) == Acked(c, v)
XcPort2(c, v) == Acked(c, v)
Port2(c, v) ==
    CASE model = "xs" -> XsPort2(c, v) [] model = "x4" -> X4Port2(c, v)
      [] model = "xz" -> XzPort2(c, v) [] model = "xc" -> XcPort2(c, v)
      [] OTHER -> c

(* *_z80_ptimer() when the timers in F fire, and what may then be pending. *)
X1Timer(c, F) == [c EXCEPT !.ints = @ \cup (F \cap c.p3 \cap {"T1"})]
X2Timer(c, F) == X1Timer(c, F)
X5Timer(c, F) == X1Timer(c, F)
X6Timer(c, F) == X1Timer(c, F)
X3Timer(c, F) == [c EXCEPT !.ints = @ \cup (F \cap c.p3)]
X7Timer(c, F) == X3Timer(c, F)
XpTimer(c, F) == X3Timer(c, F)
XsTimer(c, F) == X3Timer(c, F)
X4Timer(c, F) == X3Timer(c, F)
XzTimer(c, F) == X3Timer(c, F)
XnTimer(c, F) == X3Timer(c, F)
XcTimer(c, F) == X3Timer(c, F)
Fired(c, F) ==
    CASE model = "x1" -> X1Timer(c, F) [] model = "x2" -> X2Timer(c, F)
      [] model = "x5" -> X5Timer(c, F) [] model = "x6" -> X6Timer(c, F)
      [] model = "x3" -> X3Timer(c, F) [] model = "x7" -> X7Timer(c, F)
      [] model = "xp" -> XpTimer(c, F) [] model = "xs" -> XsTimer(c, F)
      [] model = "x4" -> X4Timer(c, F) [] model = "xz" -> XzTimer(c, F)
      [] model = "xn" -> XnTimer(c, F) [] model = "xc" -> XcTimer(c, F)
-----------------------------------------------------------------------------
(* One iteration of z80_execute().                                         *)

(* The opcode: where the program goes on, and what it does to the ports.   *)
Goto(c, pc) == [c EXCEPT !.pc = pc]
Return(c) == [c EXCEPT !.pc = c.stack[1], !.stack = Tail(@)]
Executed(c, p, v) ==
    CASE c.pc = "ei" -> [Goto(c, "halt") EXCEPT !.iff = TRUE]
      [] c.pc = "halt" -> Goto(c, "work")
      [] c.pc = "work" -> IF p = 3 THEN Port3(Goto(c, "ei"), v) ELSE Port2(Goto(c, "ei"), v)
      [] c.pc = "ack" -> IF p = 3 THEN Port3(Goto(c, "hei"), v) ELSE Port2(Goto(c, "hei"), v)
      [] c.pc = "hei" -> [Goto(c, "ret") EXCEPT !.iff = TRUE]
      [] c.pc = "ret" -> Return(c)

\* Mutant: an interrupt is accepted right after EI.
MutIsEI(op) == FALSE

IsEI(op) == op \in {"ei", "hei"}

(* Acceptance pushes PC and goes to 38h (IM 1) or through the vector (IM 2). *)
Accept(c) == [c EXCEPT !.iff = FALSE, !.halted = FALSE, !.pc = "ack",
                       !.stack = <<c.pc>> \o @]

(* HALT is executed again and again: PC goes back to it, and the clock     *)
(* forward to the next timer, which may be one that raises no interrupt.   *)
Halt(c) == [c EXCEPT !.halted = TRUE, !.pc = "halt"]

\* Mutant: a halted CPU does not look at its interrupts.
MutIteration(c, p, v, F, F2) ==
    LET done == Fired(Executed(c, p, v), F)
    IN  IF done.ints # {} /\ done.iff /\ ~IsEI(c.pc) /\ ~c.halted
        THEN Fired(Accept(done), F2)
        ELSE IF c.pc = "halt" THEN Fired(Halt(done), F2) ELSE done

Iteration(c, p, v, F, F2) ==
    LET done == Fired(Executed(c, p, v), F)
    IN  IF done.ints # {} /\ done.iff /\ ~IsEI(c.pc)
        THEN Fired(Accept(done), F2)
        ELSE IF c.pc = "halt" THEN Fired(Halt(done), F2) ELSE done

Step(p, v, F, F2) ==
    /\ Len(calc.stack) < MaxDepth
    /\ calc' = Iteration(calc, p, v, F, F2)

Steps(F, F2) == \E p \in {2, 3}, v \in Port3Values : Step(p, v, F, F2)
-----------------------------------------------------------------------------
(* Between two instructions, from outside: the ON key, and a line of the   *)
(* link that the other side pulls.                                         *)

PressOn ==
    /\ calc' = [calc EXCEPT !.ondown = TRUE,
                  !.ints = IF ~calc.ondown /\ calc.onint THEN @ \cup {"ON"} ELSE @]

ReleaseOn ==
    /\ calc' = [calc EXCEPT !.ondown = FALSE,
                  !.ints = IF calc.ondown /\ calc.onint THEN @ \cup {"ON"} ELSE @]

LineLow ==
    /\ calc.active
    /\ calc' = [calc EXCEPT !.ints = @ \cup {"LINK"}]

(* tilem_calc_reset(): port 3 as the model's reset writes it, without its  *)
(* effects; only the TI-81 brings poweronhalt back.                        *)
ResetPort3 == IF model = "x1" THEN {"PWR"} ELSE {"ON", "T1", "PWR"}
IrqReset ==
    calc' = [calc EXCEPT !.pc = "ei", !.iff = FALSE, !.halted = FALSE, !.stack = <<>>,
                         !.ints = {}, !.p3 = ResetPort3, !.onint = FALSE,
                         !.ondown = FALSE, !.active = FALSE,
                         !.power = IF model = "x1" THEN TRUE ELSE @]

IrqInit ==
    calc = [pc |-> "ei", iff |-> FALSE, halted |-> FALSE, stack |-> <<>>, ints |-> {},
            p3 |-> ResetPort3, onint |-> FALSE, ondown |-> FALSE, power |-> TRUE,
            active |-> FALSE]

IrqNext ==
    \/ \E F, F2 \in SUBSET TimerFires : Steps(F, F2)
    \/ PressOn \/ ReleaseOn \/ LineLow
    \/ IrqReset

(* The first timer is set again each time it fires, with a period that no  *)
(* port makes zero: it fires again and again, if the thread keeps running. *)
Timer1Fires == \E F2 \in SUBSET TimerFires : Steps({"T1"}, F2)
-----------------------------------------------------------------------------
IrqTypeOK ==
    /\ DOMAIN calc = Fields
    /\ calc.ints \in SUBSET {"ON", "T1", "T2", "LINK"}
    /\ Len(calc.stack) <= MaxDepth

(* No interrupt stays pending that the program has masked, in whichever    *)
(* order timers, keys and port writes come: it could not be acknowledged,  *)
(* and the handler would be entered for ever.                              *)
PendingIsEnabled ==
    /\ "ON" \in calc.ints => calc.onint
    /\ calc.ints \cap TimerFires \subseteq calc.p3
    /\ "LINK" \in calc.ints => calc.active

(* EI protects the instruction after it, with the timers that fire in      *)
(* between: EI; HALT never lets an interrupt pass before the HALT (it      *)
(* would then sleep through it), and a handler that ends in EI; RET never  *)
(* nests.  A return address is thus never that of the HALT.                *)
EiProtectsNext ==
    /\ IrqTypeOK
    /\ Len(calc.stack) <= 1
    /\ \A i \in DOMAIN calc.stack : calc.stack[i] # "halt"
    /\ calc.halted => calc.pc = "halt" /\ calc.stack = <<>>

(* A halted calculator whose first timer is enabled wakes up.              *)
WakesByTimer == (calc.halted /\ "T1" \in calc.p3) ~> ~calc.halted
=============================================================================
