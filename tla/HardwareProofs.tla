--------------------------- MODULE HardwareProofs ---------------------------
(***************************************************************************)
(* Proofs about the emulated hardware, for every value written to a port   *)
(* and every order of writes, timers and resets.  A behaviour of           *)
(* MCHardware is one of a part, so each theorem rests on an invariant of   *)
(* the variables of its part alone.                                        *)
(***************************************************************************)
EXTENDS MCHardware, SequenceTheorems, FiniteSetTheorems, TLAPS

AllModels == {"x1", "x2", "x3", "x5", "x6", "x7", "xp", "xs", "x4", "xz", "xn", "xc"}

LEMMA ModelsKnown == Models = AllModels
BY DEF Models, hwmodels, AllModels

\* A part's behaviour never changes its calculator.
LEMMA ModelStays ==
    /\ Init => model \in Models
    /\ Next => UNCHANGED <<part, model>>
<1>1. Init => model \in Models
  BY ModelsKnown DEF Init, ModelsOf, AllModels, Simple, Silver
<1>2. \A p : Only(p) => UNCHANGED <<part, model>>
  BY DEF Only
<1>3. Next => UNCHANGED <<part, model>>
  BY <1>2 DEF Next
<1> QED
  BY <1>1, <1>3

-----------------------------------------------------------------------------
(* Interrupts.                                                             *)

OneTimer == {"x1", "x2", "x5", "x6"}

CalcType ==
    [pc : {"ei", "halt", "work", "ack", "hei", "ret"}, iff : BOOLEAN, halted : BOOLEAN,
     stack : Seq({"ei", "work"}), ints : SUBSET {"ON", "T1", "T2", "LINK"},
     p3 : SUBSET Port3Bits, onint : BOOLEAN, ondown : BOOLEAN, power : BOOLEAN,
     active : BOOLEAN]

\* The program has a return address exactly in the handler, which is closed for
\* interrupts until its EI.
InProgram(c) ==
    /\ c.pc \in {"ei", "halt", "work"} => c.stack = <<>>
    /\ c.pc \in {"ack", "hei", "ret"} => c.stack \in {<<"ei">>, <<"work">>}
    /\ c.pc \in {"ack", "hei"} => ~c.iff
    /\ c.halted => c.pc = "halt"

\* PendingIsEnabled of any registers, with what a model without the second timer or
\* the line can have pending.
Pending(c) ==
    /\ "ON" \in c.ints => c.onint
    /\ c.ints \cap TimerFires \subseteq c.p3
    /\ "LINK" \in c.ints => c.active
    /\ model \in OneTimer => "T2" \notin c.ints
    /\ model \in Simple => ~c.active

CalcInv(c) == c \in CalcType /\ Pending(c) /\ InProgram(c)

\* What leaves the program where it is: ports, timers and keys.
SameProgram(c, e) ==
    /\ e \in CalcType /\ Pending(e)
    /\ e.pc = c.pc /\ e.stack = c.stack /\ e.iff = c.iff /\ e.halted = c.halted

\* The fields one by one, so that a leaf meets no record with ten of them.
LEMMA FieldTypes ==
    ASSUME NEW c \in CalcType
    PROVE  /\ c.pc \in {"ei", "halt", "work", "ack", "hei", "ret"}
           /\ c.iff \in BOOLEAN /\ c.halted \in BOOLEAN /\ c.stack \in Seq({"ei", "work"})
           /\ c.ints \in SUBSET {"ON", "T1", "T2", "LINK"} /\ c.p3 \in SUBSET Port3Bits
           /\ c.onint \in BOOLEAN /\ c.ondown \in BOOLEAN /\ c.power \in BOOLEAN
           /\ c.active \in BOOLEAN
BY DEF CalcType

LEMMA MaskedFields ==
    ASSUME NEW c \in CalcType, NEW v \in SUBSET Port3Bits, NEW bits
    PROVE  /\ Masked(c, v, bits) \in CalcType
           /\ Masked(c, v, bits).ints = c.ints \ (bits \ v)
           /\ Masked(c, v, bits).p3 = v
           /\ Masked(c, v, bits).onint = ("ON" \in v)
           /\ Masked(c, v, bits).active = c.active
           /\ Masked(c, v, bits).pc = c.pc /\ Masked(c, v, bits).stack = c.stack
           /\ Masked(c, v, bits).iff = c.iff /\ Masked(c, v, bits).halted = c.halted
<1> DEFINE on == "ON" \in v
           pwr == "PWR" \in v
           i == c.ints \ (bits \ v)
<1>1. on \in BOOLEAN /\ pwr \in BOOLEAN /\ i \in SUBSET {"ON", "T1", "T2", "LINK"}
  BY FieldTypes
<1>2. Masked(c, v, bits) = [c EXCEPT !.ints = i, !.p3 = v, !.onint = on, !.power = pwr]
  BY DEF Masked, CalcType
<1> HIDE DEF on, pwr, i
<1> DEFINE e == [c EXCEPT !.ints = i, !.p3 = v, !.onint = on, !.power = pwr]
<1>3. /\ e \in CalcType
      /\ e.ints = i /\ e.p3 = v /\ e.onint = on /\ e.active = c.active
      /\ e.pc = c.pc /\ e.stack = c.stack /\ e.iff = c.iff /\ e.halted = c.halted
  BY <1>1 DEF CalcType
<1> HIDE DEF e
<1>4. Masked(c, v, bits) = e
  BY <1>2 DEF e
<1> QED
  BY <1>3, <1>4, Zenon DEF on, i

LEMMA ActiveFields ==
    ASSUME NEW c \in CalcType, NEW v \in SUBSET Port3Bits
    PROVE  /\ LinkActive(c, v) \in CalcType
           /\ LinkActive(c, v).ints = IF "LINK" \in v THEN c.ints ELSE c.ints \ {"LINK"}
           /\ LinkActive(c, v).active = ("LINK" \in v)
           /\ LinkActive(c, v).p3 = c.p3 /\ LinkActive(c, v).onint = c.onint
           /\ LinkActive(c, v).pc = c.pc /\ LinkActive(c, v).stack = c.stack
           /\ LinkActive(c, v).iff = c.iff /\ LinkActive(c, v).halted = c.halted
<1> DEFINE a == "LINK" \in v
           i == IF "LINK" \in v THEN c.ints ELSE c.ints \ {"LINK"}
<1>1. a \in BOOLEAN /\ i \in SUBSET {"ON", "T1", "T2", "LINK"}
  BY FieldTypes
<1>2. LinkActive(c, v) = [c EXCEPT !.active = a, !.ints = i]
  BY DEF LinkActive, CalcType
<1> HIDE DEF a, i
<1> DEFINE e == [c EXCEPT !.active = a, !.ints = i]
<1>3. /\ e \in CalcType
      /\ e.ints = i /\ e.active = a /\ e.p3 = c.p3 /\ e.onint = c.onint
      /\ e.pc = c.pc /\ e.stack = c.stack /\ e.iff = c.iff /\ e.halted = c.halted
  BY <1>1 DEF CalcType
<1> HIDE DEF e
<1>4. LinkActive(c, v) = e
  BY <1>2 DEF e
<1> QED
  BY <1>3, <1>4, Zenon DEF a, i

LEMMA Port3Pending ==
    ASSUME NEW c \in CalcType, NEW v \in SUBSET Port3Bits, model \in Models, Pending(c)
    PROVE  SameProgram(c, Port3(c, v))
<1>1. ASSUME NEW bits, bits = {"ON", "T1", "T2"} \/ (bits = {"ON", "T1"} /\ model \in OneTimer)
      PROVE  SameProgram(c, Masked(c, v, bits))
  <2> DEFINE e == Masked(c, v, bits)
  <2>1. /\ e \in CalcType /\ e.ints = c.ints \ (bits \ v) /\ e.p3 = v /\ e.onint = ("ON" \in v)
        /\ e.active = c.active
    BY MaskedFields
  <2>2. e.pc = c.pc /\ e.stack = c.stack /\ e.iff = c.iff /\ e.halted = c.halted
    BY MaskedFields
  <2> HIDE DEF e
  <2>3. Pending(e)
    BY <1>1, <2>1, FieldTypes DEF Pending, TimerFires
  <2>4. SameProgram(c, e)
    BY <2>1, <2>2, <2>3, Zenon DEF SameProgram
  <2> QED
    BY <2>4 DEF e
<1>2. ASSUME model \notin Simple
      PROVE  SameProgram(c, LinkActive(Masked(c, v, {"ON", "T1", "T2"}), v))
  <2> DEFINE m == Masked(c, v, {"ON", "T1", "T2"})
             e == LinkActive(m, v)
  <2>1. SameProgram(c, m)
    BY <1>1
  <2> HIDE DEF m
  <2>2. m \in CalcType
    BY <2>1 DEF SameProgram
  <2>3. /\ e \in CalcType /\ e.ints = IF "LINK" \in v THEN m.ints ELSE m.ints \ {"LINK"}
        /\ e.active = ("LINK" \in v) /\ e.p3 = m.p3 /\ e.onint = m.onint
    BY <2>2, ActiveFields
  <2>4. e.pc = m.pc /\ e.stack = m.stack /\ e.iff = m.iff /\ e.halted = m.halted
    BY <2>2, ActiveFields, Zenon
  <2> HIDE DEF e
  <2>5. Pending(e)
    BY <1>2, <2>1, <2>2, <2>3, FieldTypes DEF Pending, TimerFires, SameProgram
  <2>6. SameProgram(c, e)
    BY <2>1, <2>3, <2>4, <2>5, Zenon DEF SameProgram
  <2> QED
    BY <2>6 DEF e, m
<1>4. CASE model \in {"x1", "x2", "x5", "x6"}
  <2>1. Port3(c, v) = Masked(c, v, {"ON", "T1"})
    BY <1>4 DEF Port3, X1Port3, X2Port3, X5Port3, X6Port3
  <2> QED
    BY <1>1, <1>4, <2>1 DEF OneTimer
<1>5. CASE model = "x3"
  <2>1. Port3(c, v) = Masked(c, v, {"ON", "T1", "T2"})
    BY <1>5 DEF Port3, X3Port3
  <2> QED
    BY <1>1, <2>1
<1>6. CASE model \in AllModels \ {"x1", "x2", "x3", "x5", "x6"}
  <2>1. Port3(c, v) = LinkActive(Masked(c, v, {"ON", "T1", "T2"}), v)
    BY <1>6 DEF AllModels, Port3, X7Port3, XpPort3, XsPort3, X4Port3, XzPort3, XnPort3, XcPort3
  <2> QED
    BY <1>2, <1>6, <2>1 DEF AllModels, Simple
<1> QED
  BY <1>4, <1>5, <1>6, ModelsKnown DEF AllModels

\* Fewer or other interrupts pending, and nothing else.
LEMMA IntsFields ==
    ASSUME NEW c \in CalcType, NEW i \in SUBSET {"ON", "T1", "T2", "LINK"}
    PROVE  LET e == [c EXCEPT !.ints = i]
           IN  /\ e \in CalcType
               /\ e.ints = i /\ e.p3 = c.p3 /\ e.onint = c.onint /\ e.active = c.active
               /\ e.pc = c.pc /\ e.stack = c.stack /\ e.iff = c.iff /\ e.halted = c.halted
BY DEF CalcType

LEMMA IntsPending ==
    ASSUME NEW c \in CalcType, NEW i \in SUBSET {"ON", "T1", "T2", "LINK"}, Pending(c),
           i \subseteq c.ints \cup c.p3, i \ c.ints \subseteq TimerFires,
           model \in OneTimer => "T2" \notin i
    PROVE  SameProgram(c, [c EXCEPT !.ints = i])
<1> DEFINE e == [c EXCEPT !.ints = i]
<1>1. /\ e \in CalcType /\ e.ints = i /\ e.p3 = c.p3 /\ e.onint = c.onint /\ e.active = c.active
  BY IntsFields
<1>2. e.pc = c.pc /\ e.stack = c.stack /\ e.iff = c.iff /\ e.halted = c.halted
  BY IntsFields, Zenon
<1> HIDE DEF e
<1>3. Pending(e)
  BY <1>1, FieldTypes DEF Pending, TimerFires
<1>4. SameProgram(c, e)
  BY <1>1, <1>2, <1>3, Zenon DEF SameProgram
<1> QED
  BY <1>4 DEF e

LEMMA Port2Pending ==
    ASSUME NEW c \in CalcType, NEW v \in SUBSET Port3Bits, model \in Models, Pending(c)
    PROVE  SameProgram(c, Port2(c, v))
<1>1. /\ c.ints \cap v \in SUBSET {"ON", "T1", "T2", "LINK"}
      /\ model \in OneTimer => "T2" \notin c.ints \cap v
  BY FieldTypes DEF Pending
<1>2. Acked(c, v) = [c EXCEPT !.ints = c.ints \cap v]
  BY DEF Acked, CalcType
<1>3. SameProgram(c, [c EXCEPT !.ints = c.ints \cap v])
  BY <1>1, IntsPending
<1>4. SameProgram(c, c)
  BY DEF SameProgram
<1>5. Port2(c, v) \in {c, Acked(c, v)}
  BY ModelsKnown DEF AllModels, Port2, XsPort2, X4Port2, XzPort2, XcPort2
<1> QED
  BY <1>2, <1>3, <1>4, <1>5

LEMMA FiredPending ==
    ASSUME NEW c \in CalcType, NEW F \in SUBSET TimerFires, model \in Models, Pending(c)
    PROVE  SameProgram(c, Fired(c, F))
<1> DEFINE one == c.ints \cup (F \cap c.p3 \cap {"T1"})
           two == c.ints \cup (F \cap c.p3)
<1>1. X1Timer(c, F) = [c EXCEPT !.ints = one] /\ X3Timer(c, F) = [c EXCEPT !.ints = two]
  BY DEF X1Timer, X3Timer, CalcType
<1>2. /\ one \in SUBSET {"ON", "T1", "T2", "LINK"} /\ two \in SUBSET {"ON", "T1", "T2", "LINK"}
      /\ one \subseteq c.ints \cup c.p3 /\ two \subseteq c.ints \cup c.p3
      /\ one \ c.ints \subseteq TimerFires /\ two \ c.ints \subseteq TimerFires
      /\ model \in OneTimer => "T2" \notin one
  BY FieldTypes DEF TimerFires, Pending
<1> HIDE DEF one, two
<1>3. SameProgram(c, X1Timer(c, F))
  BY <1>1, <1>2, IntsPending
<1>4. ASSUME model \notin OneTimer
      PROVE  SameProgram(c, X3Timer(c, F))
  BY <1>1, <1>2, <1>4, IntsPending
<1>5. CASE model \in {"x1", "x2", "x5", "x6"}
  <2>1. Fired(c, F) = X1Timer(c, F)
    BY <1>5 DEF Fired, X2Timer, X5Timer, X6Timer
  <2> QED
    BY <1>3, <2>1
<1>6. CASE model \in AllModels \ {"x1", "x2", "x5", "x6"}
  <2>1. Fired(c, F) = X3Timer(c, F)
    BY <1>6 DEF AllModels, Fired, X7Timer, XpTimer, XsTimer, X4Timer, XzTimer, XnTimer, XcTimer
  <2> QED
    BY <1>4, <1>6, <2>1 DEF OneTimer
<1> QED
  BY <1>5, <1>6, ModelsKnown DEF AllModels

\* Ports and timers after an opcode leave the program where the opcode put it.
LEMMA SameProgramKeeps ==
    ASSUME NEW c \in CalcType, NEW e, SameProgram(c, e), InProgram(c)
    PROVE  CalcInv(e)
<1>1. e \in CalcType /\ Pending(e)
  BY DEF SameProgram
<1>2. e.pc = c.pc /\ e.stack = c.stack /\ e.iff = c.iff /\ e.halted = c.halted
  BY DEF SameProgram
<1>3. InProgram(e)
  BY <1>2, Zenon DEF InProgram
<1> QED
  BY <1>1, <1>3 DEF CalcInv

\* The opcodes that go on at pc.
LEMMA GotoKeeps ==
    ASSUME NEW c \in CalcType, NEW pc \in {"ei", "halt", "work", "ack", "hei", "ret"},
           NEW iff \in BOOLEAN, Pending(c)
    PROVE  LET e == [c EXCEPT !.pc = pc]
               f == [c EXCEPT !.pc = pc, !.iff = iff]
           IN  /\ e \in CalcType /\ Pending(e) /\ e.pc = pc /\ e.stack = c.stack
               /\ e.iff = c.iff /\ e.halted = c.halted
               /\ f \in CalcType /\ Pending(f) /\ f.pc = pc /\ f.stack = c.stack
               /\ f.iff = iff /\ f.halted = c.halted
<1> DEFINE e == [c EXCEPT !.pc = pc]
           f == [c EXCEPT !.pc = pc, !.iff = iff]
<1>1. /\ e \in CalcType /\ f \in CalcType
      /\ e.pc = pc /\ e.stack = c.stack /\ e.iff = c.iff /\ e.halted = c.halted
      /\ f.pc = pc /\ f.stack = c.stack /\ f.iff = iff /\ f.halted = c.halted
  BY DEF CalcType
<1>2. /\ e.ints = c.ints /\ e.p3 = c.p3 /\ e.onint = c.onint /\ e.active = c.active
      /\ f.ints = c.ints /\ f.p3 = c.p3 /\ f.onint = c.onint /\ f.active = c.active
  BY DEF CalcType
<1> HIDE DEF e, f
<1>3. Pending(e) /\ Pending(f)
  BY <1>2, Zenon DEF Pending
<1>4. /\ e \in CalcType /\ Pending(e) /\ e.pc = pc /\ e.stack = c.stack
      /\ e.iff = c.iff /\ e.halted = c.halted
      /\ f \in CalcType /\ Pending(f) /\ f.pc = pc /\ f.stack = c.stack
      /\ f.iff = iff /\ f.halted = c.halted
  BY <1>1, <1>3
<1> QED
  BY <1>4, Zenon DEF e, f

InHandler == {<<"ei">>, <<"work">>}

\* What the opcode of c leaves: only a HALT may be halted, and it goes on to the work.
Opcode(c, d) ==
    /\ d \in CalcType /\ Pending(d)
    /\ \/ c.pc = "ei" /\ d.pc = "halt" /\ d.stack = <<>>
       \/ c.pc = "halt" /\ d.pc = "work" /\ d.stack = <<>>
       \/ c.pc = "work" /\ d.pc = "ei" /\ d.stack = <<>>
       \/ c.pc = "ack" /\ d.pc = "hei" /\ ~d.iff /\ d.stack \in InHandler
       \/ c.pc = "hei" /\ d.pc = "ret" /\ d.stack \in InHandler
       \/ c.pc = "ret" /\ d.pc \in {"ei", "work"} /\ d.stack = <<>>
    /\ d.halted => c.pc = "halt"

LEMMA OpcodeOf ==
    ASSUME NEW c \in CalcType, NEW d, NEW e, Opcode(c, d), SameProgram(d, e)
    PROVE  Opcode(c, e)
<1>1. e \in CalcType /\ Pending(e)
  BY DEF SameProgram
<1>2. e.pc = d.pc /\ e.stack = d.stack /\ e.iff = d.iff /\ e.halted = d.halted
  BY DEF SameProgram
<1> QED
  BY <1>1, <1>2, Zenon DEF Opcode

LEMMA ExecutedKeeps ==
    ASSUME NEW c \in CalcType, CalcInv(c), NEW p \in {2, 3}, NEW v \in SUBSET Port3Bits,
           model \in Models
    PROVE  Opcode(c, Executed(c, p, v))
<1>0. Pending(c) /\ InProgram(c)
  BY DEF CalcInv
<1>1. CASE c.pc = "ei"
  <2> DEFINE d == [c EXCEPT !.pc = "halt", !.iff = TRUE]
  <2>1. d \in CalcType /\ Pending(d) /\ d.pc = "halt" /\ d.stack = c.stack /\ d.halted = c.halted
    BY <1>0, GotoKeeps
  <2>2. Executed(c, p, v) = d
    BY <1>1, FieldTypes DEF Executed, Goto, CalcType
  <2> HIDE DEF d
  <2>3. Opcode(c, d)
    BY <1>0, <1>1, <2>1 DEF Opcode, InProgram
  <2> QED
    BY <2>2, <2>3
<1>2. CASE c.pc = "halt"
  <2> DEFINE d == [c EXCEPT !.pc = "work"]
  <2>1. d \in CalcType /\ Pending(d) /\ d.pc = "work" /\ d.stack = c.stack /\ d.halted = c.halted
    BY <1>0, GotoKeeps
  <2>2. Executed(c, p, v) = d
    BY <1>2 DEF Executed, Goto
  <2> HIDE DEF d
  <2>3. Opcode(c, d)
    BY <1>0, <1>2, <2>1 DEF Opcode, InProgram
  <2> QED
    BY <2>2, <2>3
<1>3. CASE c.pc = "work"
  <2> DEFINE d == [c EXCEPT !.pc = "ei"]
  <2>1. d \in CalcType /\ Pending(d) /\ d.pc = "ei" /\ d.stack = c.stack /\ d.halted = c.halted
    BY <1>0, GotoKeeps
  <2>2. Executed(c, p, v) = IF p = 3 THEN Port3(d, v) ELSE Port2(d, v)
    BY <1>3 DEF Executed, Goto
  <2> HIDE DEF d
  <2>3. Opcode(c, d)
    BY <1>0, <1>3, <2>1 DEF Opcode, InProgram
  <2>4. SameProgram(d, Port3(d, v)) /\ SameProgram(d, Port2(d, v))
    BY <2>1, Port3Pending, Port2Pending
  <2> QED
    BY <2>2, <2>3, <2>4, OpcodeOf
<1>4. CASE c.pc = "ack"
  <2> DEFINE d == [c EXCEPT !.pc = "hei"]
  <2>1. d \in CalcType /\ Pending(d) /\ d.pc = "hei" /\ d.stack = c.stack /\ d.halted = c.halted
    BY <1>0, GotoKeeps
  <2>2. d.iff = c.iff
    BY <1>0, GotoKeeps, Zenon
  <2>3. Executed(c, p, v) = IF p = 3 THEN Port3(d, v) ELSE Port2(d, v)
    BY <1>4 DEF Executed, Goto
  <2> HIDE DEF d
  <2>4. Opcode(c, d)
    BY <1>0, <1>4, <2>1, <2>2 DEF Opcode, InProgram, InHandler
  <2>5. SameProgram(d, Port3(d, v)) /\ SameProgram(d, Port2(d, v))
    BY <2>1, Port3Pending, Port2Pending
  <2> QED
    BY <2>3, <2>4, <2>5, OpcodeOf
<1>5. CASE c.pc = "hei"
  <2> DEFINE d == [c EXCEPT !.pc = "ret", !.iff = TRUE]
  <2>1. d \in CalcType /\ Pending(d) /\ d.pc = "ret" /\ d.stack = c.stack /\ d.halted = c.halted
    BY <1>0, GotoKeeps
  <2>2. Executed(c, p, v) = d
    BY <1>5, FieldTypes DEF Executed, Goto, CalcType
  <2> HIDE DEF d
  <2>3. Opcode(c, d)
    BY <1>0, <1>5, <2>1 DEF Opcode, InProgram, InHandler
  <2> QED
    BY <2>2, <2>3
<1>6. CASE c.pc = "ret"
  <2> DEFINE back == c.stack[1]
  <2>1. back \in {"ei", "work"} /\ Tail(c.stack) = <<>>
    <3>1. c.stack = <<"ei">> \/ c.stack = <<"work">>
      BY <1>0, <1>6 DEF InProgram
    <3>2. /\ <<"ei">>[1] = "ei" /\ Tail(<<"ei">>) = <<>>
          /\ <<"work">>[1] = "work" /\ Tail(<<"work">>) = <<>>
      OBVIOUS
    <3> QED
      BY <3>1, <3>2
  <2>2. Executed(c, p, v) = [c EXCEPT !.pc = back, !.stack = <<>>]
    BY <1>6, <2>1 DEF Executed, Return, CalcType
  <2> HIDE DEF back
  <2> DEFINE e == [c EXCEPT !.pc = back, !.stack = <<>>]
  <2>3. /\ e \in CalcType /\ e.pc = back /\ e.stack = <<>> /\ e.halted = c.halted
        /\ e.ints = c.ints /\ e.p3 = c.p3 /\ e.onint = c.onint /\ e.active = c.active
    <3>1. back \in {"ei", "halt", "work", "ack", "hei", "ret"} /\ <<>> \in Seq({"ei", "work"})
      BY <2>1
    <3>2. /\ e.pc = back /\ e.stack = <<>> /\ e.halted = c.halted
          /\ e.ints = c.ints /\ e.p3 = c.p3 /\ e.onint = c.onint /\ e.active = c.active
      BY DEF CalcType
    <3>3. e \in CalcType
      BY <3>1 DEF CalcType
    <3> QED
      BY <3>2, <3>3
  <2> HIDE DEF e
  <2>4. Pending(e)
    BY <1>0, <2>3, Zenon DEF Pending
  <2>5. Opcode(c, e)
    BY <1>0, <1>6, <2>1, <2>3, <2>4 DEF Opcode, InProgram
  <2> QED
    BY <2>2, <2>5 DEF e
<1> QED
  BY <1>1, <1>2, <1>3, <1>4, <1>5, <1>6, FieldTypes

\* Acceptance and HALT, of a program whose opcode is done.
LEMMA AcceptKeeps ==
    ASSUME NEW d \in CalcType, Pending(d), d.stack = <<>>, d.pc \in {"ei", "work"}
    PROVE  CalcInv(Accept(d))
<1> DEFINE pc == d.pc
<1>1. Accept(d) = [d EXCEPT !.iff = FALSE, !.halted = FALSE, !.pc = "ack", !.stack = <<pc>>]
  <2>1. <<d.pc>> \o <<>> = <<d.pc>>
    OBVIOUS
  <2> QED
    BY <2>1 DEF Accept, CalcType
<1> DEFINE e == [d EXCEPT !.iff = FALSE, !.halted = FALSE, !.pc = "ack", !.stack = <<pc>>]
<1>2. <<pc>> \in Seq({"ei", "work"}) /\ <<pc>> \in InHandler
  BY DEF InHandler
<1> HIDE DEF pc
<1>3. /\ e \in CalcType /\ e.pc = "ack" /\ e.stack = <<pc>> /\ e.iff = FALSE /\ e.halted = FALSE
      /\ e.ints = d.ints /\ e.p3 = d.p3 /\ e.onint = d.onint /\ e.active = d.active
  BY <1>2 DEF CalcType
<1> HIDE DEF e
<1>4. Pending(e)
  BY <1>3, Zenon DEF Pending
<1>5. InProgram(e)
  BY <1>2, <1>3 DEF InProgram, InHandler
<1> QED
  BY <1>1, <1>3, <1>4, <1>5 DEF CalcInv, e

LEMMA HaltKeeps ==
    ASSUME NEW d \in CalcType, Pending(d), d.stack = <<>>
    PROVE  CalcInv(Halt(d))
<1> DEFINE e == [d EXCEPT !.halted = TRUE, !.pc = "halt"]
<1>1. /\ e \in CalcType /\ e.pc = "halt" /\ e.stack = <<>>
      /\ e.ints = d.ints /\ e.p3 = d.p3 /\ e.onint = d.onint /\ e.active = d.active
  BY DEF CalcType
<1>2. Halt(d) = e
  BY DEF Halt
<1> HIDE DEF e
<1>3. Pending(e)
  BY <1>1, Zenon DEF Pending
<1>4. InProgram(e)
  BY <1>1 DEF InProgram
<1> QED
  BY <1>1, <1>2, <1>3, <1>4 DEF CalcInv

LEMMA FiredKeeps ==
    ASSUME NEW c, CalcInv(c), NEW F \in SUBSET TimerFires, model \in Models
    PROVE  CalcInv(Fired(c, F))
BY FiredPending, SameProgramKeeps DEF CalcInv

\* The whole iteration.
LEMMA IterationKeeps ==
    ASSUME NEW c, CalcInv(c), NEW p \in {2, 3}, NEW v \in SUBSET Port3Bits,
           NEW F \in SUBSET TimerFires, NEW F2 \in SUBSET TimerFires, model \in Models
    PROVE  CalcInv(Iteration(c, p, v, F, F2))
<1> DEFINE done == Fired(Executed(c, p, v), F)
<1>0. c \in CalcType
  BY DEF CalcInv
<1>1. Opcode(c, done)
  <2> DEFINE d == Executed(c, p, v)
  <2>1. Opcode(c, d)
    BY <1>0, ExecutedKeeps
  <2> HIDE DEF d
  <2>2. SameProgram(d, Fired(d, F))
    BY <2>1, FiredPending DEF Opcode
  <2>3. Opcode(c, Fired(d, F))
    BY <1>0, <2>1, <2>2, OpcodeOf
  <2> QED
    BY <2>3 DEF d
<1>2. Iteration(c, p, v, F, F2) =
        IF done.ints # {} /\ done.iff /\ ~IsEI(c.pc)
        THEN Fired(Accept(done), F2)
        ELSE IF c.pc = "halt" THEN Fired(Halt(done), F2) ELSE done
  BY DEF Iteration
<1> HIDE DEF done
<1>3. done \in CalcType /\ Pending(done)
  BY <1>1 DEF Opcode
<1>4. CASE done.iff /\ ~IsEI(c.pc)
  <2>1. done.stack = <<>> /\ done.pc \in {"ei", "work"}
    BY <1>1, <1>4 DEF Opcode, IsEI
  <2>2. CalcInv(Fired(Accept(done), F2)) /\ CalcInv(Fired(Halt(done), F2))
    BY <1>3, <2>1, AcceptKeeps, HaltKeeps, FiredKeeps
  <2>3. c.pc # "halt" => CalcInv(done)
    BY <1>1, <1>3, <2>1 DEF Opcode, CalcInv, InProgram
  <2> QED
    BY <1>2, <2>2, <2>3
<1>5. CASE ~(done.iff /\ ~IsEI(c.pc))
  <2>1. CASE c.pc = "halt"
    <3>1. CalcInv(Fired(Halt(done), F2))
      BY <1>1, <1>3, <2>1, HaltKeeps, FiredKeeps DEF Opcode
    <3> QED
      BY <1>2, <1>5, <2>1, <3>1
  <2>2. CASE c.pc # "halt"
    <3>1. InProgram(done)
      BY <1>1, <2>2 DEF Opcode, InProgram, InHandler
    <3> QED
      BY <1>2, <1>3, <1>5, <2>2, <3>1 DEF CalcInv
  <2> QED
    BY <2>1, <2>2
<1> QED
  BY <1>4, <1>5

\* The keys, the line and a reset.
LEMMA IrqStep ==
    ASSUME CalcInv(calc), model \in Models, IrqNext
    PROVE  CalcInv(calc')
<1> DEFINE AllInts == {"ON", "T1", "T2", "LINK"}
<1>0. calc \in CalcType /\ Pending(calc) /\ InProgram(calc)
  BY DEF CalcInv
<1>1. ASSUME NEW F \in SUBSET TimerFires, NEW F2 \in SUBSET TimerFires, Steps(F, F2)
      PROVE  CalcInv(calc')
  <2>1. PICK p \in {2, 3}, v \in Port3Values : calc' = Iteration(calc, p, v, F, F2)
    BY <1>1 DEF Steps, Step
  <2>2. v \in SUBSET Port3Bits
    BY Port3Assumption DEF Port3Assumption
  <2>3. CalcInv(Iteration(calc, p, v, F, F2))
    BY <2>2, IterationKeeps
  <2> QED
    BY <2>1, <2>3
<1>2. ASSUME NEW down \in BOOLEAN, NEW i \in SUBSET AllInts,
             i = calc.ints \/ (i = calc.ints \cup {"ON"} /\ calc.onint),
             calc' = [calc EXCEPT !.ondown = down, !.ints = i]
      PROVE  CalcInv(calc')
  <2> DEFINE e == [calc EXCEPT !.ondown = down, !.ints = i]
  <2>1. /\ e \in CalcType
        /\ e.ints = i /\ e.p3 = calc.p3 /\ e.onint = calc.onint /\ e.active = calc.active
        /\ e.pc = calc.pc /\ e.stack = calc.stack /\ e.iff = calc.iff /\ e.halted = calc.halted
    BY <1>0 DEF CalcType
  <2> HIDE DEF e
  <2>2. Pending(e)
    BY <1>0, <1>2, <2>1 DEF Pending, TimerFires
  <2>3. InProgram(e)
    BY <1>0, <2>1, Zenon DEF InProgram
  <2> QED
    BY <1>2, <2>1, <2>2, <2>3 DEF CalcInv, e
<1>3. ASSUME PressOn PROVE CalcInv(calc')
  <2> DEFINE i == IF ~calc.ondown /\ calc.onint THEN calc.ints \cup {"ON"} ELSE calc.ints
  <2>1. calc' = [calc EXCEPT !.ondown = TRUE, !.ints = i]
    BY <1>0, <1>3 DEF PressOn, CalcType
  <2>2. i \in SUBSET AllInts /\ (i = calc.ints \/ (i = calc.ints \cup {"ON"} /\ calc.onint))
    BY <1>0, FieldTypes
  <2> HIDE DEF i
  <2> QED
    BY <1>2, <2>1, <2>2
<1>4. ASSUME ReleaseOn PROVE CalcInv(calc')
  <2> DEFINE i == IF calc.ondown /\ calc.onint THEN calc.ints \cup {"ON"} ELSE calc.ints
  <2>1. calc' = [calc EXCEPT !.ondown = FALSE, !.ints = i]
    BY <1>0, <1>4 DEF ReleaseOn, CalcType
  <2>2. i \in SUBSET AllInts /\ (i = calc.ints \/ (i = calc.ints \cup {"ON"} /\ calc.onint))
    BY <1>0, FieldTypes
  <2> HIDE DEF i
  <2> QED
    BY <1>2, <2>1, <2>2
<1>5. ASSUME LineLow PROVE CalcInv(calc')
  <2> DEFINE i == calc.ints \cup {"LINK"}
             e == [calc EXCEPT !.ints = i]
  <2>1. calc' = e /\ calc.active
    BY <1>0, <1>5 DEF LineLow, CalcType
  <2>2. i \in SUBSET AllInts
    BY <1>0, FieldTypes
  <2>3. /\ e \in CalcType
        /\ e.ints = i /\ e.p3 = calc.p3 /\ e.onint = calc.onint /\ e.active = calc.active
        /\ e.pc = calc.pc /\ e.stack = calc.stack /\ e.iff = calc.iff /\ e.halted = calc.halted
    BY <1>0, <2>2, IntsFields
  <2> HIDE DEF e
  <2>4. Pending(e)
    BY <1>0, <2>1, <2>3 DEF Pending, TimerFires
  <2>5. InProgram(e)
    BY <1>0, <2>3, Zenon DEF InProgram
  <2> QED
    BY <2>1, <2>3, <2>4, <2>5 DEF CalcInv
<1>6. ASSUME IrqReset PROVE CalcInv(calc')
  <2> DEFINE pw == IF model = "x1" THEN TRUE ELSE calc.power
             e == [calc EXCEPT !.pc = "ei", !.iff = FALSE, !.halted = FALSE, !.stack = <<>>,
                         !.ints = {}, !.p3 = ResetPort3, !.onint = FALSE,
                         !.ondown = FALSE, !.active = FALSE, !.power = pw]
  <2>1. calc' = e
    BY <1>0, <1>6 DEF IrqReset, CalcType
  <2>2. pw \in BOOLEAN /\ ResetPort3 \in SUBSET Port3Bits
    BY <1>0, FieldTypes DEF ResetPort3, Port3Bits
  <2> HIDE DEF pw
  <2>3. /\ e.ints = {} /\ e.active = FALSE /\ e.pc = "ei" /\ e.stack = <<>> /\ e.halted = FALSE
    BY <1>0 DEF CalcType
  <2>5. e \in CalcType
    <3>1. <<>> \in Seq({"ei", "work"})
      OBVIOUS
    <3> QED
      BY <1>0, <2>2, <3>1 DEF CalcType
  <2> HIDE DEF e
  <2>4. Pending(e) /\ InProgram(e)
    BY <2>3 DEF Pending, InProgram
  <2> QED
    BY <2>1, <2>4, <2>5 DEF CalcInv
<1> QED
  BY <1>1, <1>3, <1>4, <1>5, <1>6 DEF IrqNext

LEMMA IrqStart ==
    ASSUME IrqInit
    PROVE  CalcInv(calc)
<1>1. ResetPort3 \in SUBSET Port3Bits
  BY DEF ResetPort3, Port3Bits
<1>2. /\ calc \in CalcType
      /\ calc.ints = {} /\ calc.active = FALSE /\ calc.pc = "ei" /\ calc.stack = <<>>
      /\ calc.halted = FALSE
  BY <1>1 DEF IrqInit, CalcType
<1> QED
  BY <1>2 DEF CalcInv, Pending, InProgram

LEMMA CalcInvSound ==
    ASSUME CalcInv(calc)
    PROVE  PendingIsEnabled /\ EiProtectsNext
<1>1. calc \in CalcType /\ Pending(calc) /\ InProgram(calc)
  BY DEF CalcInv
<1>2. PendingIsEnabled
  BY <1>1 DEF Pending, PendingIsEnabled
<1>3. calc.stack = <<>> \/ calc.stack = <<"ei">> \/ calc.stack = <<"work">>
  BY <1>1, FieldTypes DEF InProgram
<1>4. /\ Len(calc.stack) <= 1
      /\ \A i \in DOMAIN calc.stack : calc.stack[i] # "halt"
  <2>1. /\ Len(<<>>) <= 1 /\ \A i \in DOMAIN <<>> : <<>>[i] # "halt"
        /\ Len(<<"ei">>) <= 1 /\ \A i \in DOMAIN <<"ei">> : <<"ei">>[i] # "halt"
        /\ Len(<<"work">>) <= 1 /\ \A i \in DOMAIN <<"work">> : <<"work">>[i] # "halt"
    OBVIOUS
  <2> QED
    BY <1>3, <2>1
<1>5. Len(calc.stack) <= MaxDepth
  <2>1. Len(<<>>) <= 3 /\ Len(<<"ei">>) <= 3 /\ Len(<<"work">>) <= 3
    OBVIOUS
  <2> QED
    BY <1>3, <2>1 DEF MaxDepth
<1>6. DOMAIN calc = Fields /\ calc.ints \in SUBSET {"ON", "T1", "T2", "LINK"}
  BY <1>1 DEF CalcType, Fields
<1>7. calc.halted => calc.pc = "halt" /\ calc.stack = <<>>
  BY <1>1 DEF InProgram
<1> QED
  BY <1>2, <1>4, <1>5, <1>6, <1>7 DEF EiProtectsNext, IrqTypeOK

\* No model, order of port writes, timers, keys and resets leaves a masked interrupt
\* pending, or lets one in between EI and the HALT or RET after it.
THEOREM InterruptsCorrect == Spec => []InterruptsSound
<1> DEFINE IInv == model \in Models /\ CalcInv(calc)
<1>1. Init => IInv
  BY ModelStays, IrqStart DEF Init
<1>2. IInv /\ [Next]_vars => IInv'
  <2> SUFFICES ASSUME IInv, [Next]_vars
               PROVE  CalcInv(calc') /\ model' = model
    BY DEF CalcInv, Pending, CalcType, InProgram
  <2>1. model' = model
    BY ModelStays DEF vars
  <2>2. CASE IrqNext
    BY <2>1, <2>2, IrqStep
  <2>3. CASE calc' = calc
    BY <2>1, <2>3
  <2>4. IrqNext \/ calc' = calc
    BY DEF Next, Only, irqVars, vars
  <2> QED
    BY <2>1, <2>2, <2>3, <2>4
<1>3. IInv => InterruptsSound
  BY CalcInvSound DEF InterruptsSound
<1> QED
  BY <1>1, <1>2, <1>3, PTL DEF Spec

-----------------------------------------------------------------------------
(* The protected ports.                                                    *)

\* The bytes the reader of the memory counts are the sequence so far: what it obeys
\* at state 7 is a whole sequence.  The converse is false, and not claimed: a sequence
\* that begins inside a failed one is missed.
ProtInv ==
    /\ protect \in 0..7
    /\ matched \in SUBSET (0..7)
    /\ protect \in matched
    /\ unlock \in BOOLEAN

LEMMA ProtStart == Prot!ProtInit => ProtInv
<1>1. 0 \in 0..7 /\ {0} \in SUBSET (0..7) /\ 0 \in {0} /\ FALSE \in BOOLEAN
  OBVIOUS
<1> QED
  BY <1>1, Zenon DEF Prot!ProtInit, ProtInv

LEMMA ProtStep ==
    ASSUME ProtInv, Prot!ProtNext
    PROVE  ProtInv' /\ Prot!BySequence
<1>1. ASSUME NEW page, NEW value, Prot!ReadByte(page, value)
      PROVE  ProtInv' /\ Prot!BySequence
  <2>1. /\ protect' = Prot!NextProtect(model, page, value)
        /\ matched' = Prot!Extend(page, value)
        /\ unlock' = unlock /\ limit' = limit
    BY <1>1 DEF Prot!ReadByte
  <2>2. matched' \in SUBSET (0..7) /\ 0 \in matched'
    BY <2>1 DEF ProtInv, Prot!Extend
  <2>3. ASSUME protect' # 0
        PROVE  /\ page \in Prot!Privileged(model)
               /\ protect' = protect + 1 /\ protect \in 0..6
               /\ (protect < 6 /\ value = Prot!ProtectBytes[protect + 1]) \/ protect = 6
    BY <2>1, <2>3 DEF Prot!NextProtect, ProtInv
  <2>4. protect' # 0 => protect' \in matched'
    BY <2>1, <2>3 DEF Prot!Extend, ProtInv
  <2>5. protect' \in 0..7
    BY <2>3
  <2>6. ProtInv'
    BY <2>1, <2>2, <2>4, <2>5 DEF ProtInv
  <2> QED
    BY <2>1, <2>6 DEF Prot!BySequence
<1>2. ASSUME Prot!ProtReset
      PROVE  ProtInv' /\ Prot!BySequence
  <2>1. 0 \in 0..7 /\ {0} \in SUBSET (0..7) /\ 0 \in {0} /\ FALSE \in BOOLEAN
    OBVIOUS
  <2>2. ProtInv'
    BY <1>2, <2>1, Zenon DEF Prot!ProtReset, ProtInv
  <2>3. Prot!BySequence
    BY <1>2 DEF Prot!BySequence
  <2> QED
    BY <2>2, <2>3
<1>3. ASSUME NEW v \in BOOLEAN, Prot!OutLock(v)
      PROVE  ProtInv' /\ Prot!BySequence
  BY <1>3 DEF Prot!OutLock, Prot!BySequence, ProtInv
<1>4. ASSUME NEW p, NEW v, Prot!OutLimit16(p, v)
      PROVE  ProtInv' /\ Prot!BySequence
  <2>1. Prot!MayLimit(model) => unlock
    BY DEF Prot!MayLimit, Prot!X7MayLimit, Prot!XpMayLimit, Prot!XnMayLimit, Prot!SilverMayLimit
  <2>2. ~Prot!MayLimit(model) => limit' = limit
    BY <1>4 DEF Prot!OutLimit16
  <2> QED
    BY <1>4, <2>1, <2>2 DEF Prot!OutLimit16, Prot!BySequence, ProtInv
<1>5. ASSUME NEW v, Prot!XpOutSelect(v)
      PROVE  ProtInv' /\ Prot!BySequence
  <2>1. limit' = [limit EXCEPT !.p5 = v % 8]
    BY <1>5 DEF Prot!XpOutSelect
  <2>2. [limit' EXCEPT !.p5 = 0] = [limit EXCEPT !.p5 = 0]
    BY <2>1
  <2> QED
    BY <1>5, <2>2 DEF Prot!XpOutSelect, Prot!BySequence, ProtInv
<1>6. ASSUME NEW page, Prot!Fetch(page)
      PROVE  ProtInv' /\ Prot!BySequence
  BY <1>2, <1>6 DEF Prot!Fetch
<1> QED
  BY <1>1, <1>2, <1>3, <1>4, <1>5, <1>6 DEF Prot!ProtNext

\* Whatever is read, in whichever order, and from whichever pages: the lock moves only
\* after the sequence, and a limit only while the chip is unlocked.
THEOREM SequenceUnlocks == Spec => OnlyTheSequenceUnlocks
<1>1. Init => ProtInv
  BY ProtStart DEF Init
<1>2. ProtInv /\ [Next]_vars => ProtInv' /\ [Prot!BySequence]_<<protect, unlock, limit, matched>>
  <2> SUFFICES ASSUME ProtInv, [Next]_vars
               PROVE  ProtInv' /\ [Prot!BySequence]_<<protect, unlock, limit, matched>>
    OBVIOUS
  <2>1. Prot!ProtNext \/ UNCHANGED <<protect, unlock, limit, matched>>
    BY DEF Next, Only, vars
  <2>2. CASE UNCHANGED <<protect, unlock, limit, matched>>
    BY <2>2 DEF ProtInv
  <2> QED
    BY <2>1, <2>2, ProtStep
<1> QED
  BY <1>1, <1>2, PTL DEF Spec, OnlyTheSequenceUnlocks

-----------------------------------------------------------------------------
(* The clock.                                                              *)

\* A remainder taken early is the same as one taken late.
LEMMA Division ==
    ASSUME NEW n \in Nat, n > 0, NEW x \in Int
    PROVE  /\ x = (x \div n) * n + (x % n)
           /\ x \div n \in Int
           /\ x % n \in Int /\ x % n >= 0 /\ x % n < n
<1>1. x = (x \div n) * n + (x % n)
  OBVIOUS
<1>2. x % n >= 0
  OBVIOUS
<1>3. x % n < n
  OBVIOUS
<1> QED
  BY <1>1, <1>2, <1>3

LEMMA DivisionIs ==
    ASSUME NEW n \in Nat, n > 0, NEW x \in Int, NEW q \in Int, NEW r \in Int,
           r >= 0, r < n, x = q * n + r
    PROVE  x % n = r
OBVIOUS

LEMMA ModEarly ==
    ASSUME NEW n \in Nat, n > 0, NEW a \in Int, NEW b \in Int
    PROVE  ((a % n) + b) % n = (a + b) % n
<1> DEFINE p == a \div n
           m == a % n
           q == (m + b) \div n
           r == (m + b) % n
<1>1. a = p * n + m /\ p \in Int /\ m \in Int
  BY Division
<1> HIDE DEF p, m
<1>2. m + b = q * n + r /\ q \in Int /\ r \in Int /\ r >= 0 /\ r < n
  <2>1. m + b \in Int
    BY <1>1
  <2> QED
    BY <2>1, Division
<1> HIDE DEF q, r
<1>3. a + b = (p + q) * n + r
  <2>1. (p + q) * n = p * n + q * n
    BY <1>1, <1>2
  <2>2. p * n \in Int /\ q * n \in Int
    BY <1>1, <1>2
  <2> QED
    BY <1>1, <1>2, <2>1, <2>2
<1>4. (a + b) % n = r
  <2>1. p + q \in Int /\ a + b \in Int
    BY <1>1, <1>2
  <2> QED
    BY <1>2, <1>3, <2>1, DivisionIs
<1> QED
  BY <1>4 DEF r, m

LEMMA ModSmall ==
    ASSUME NEW n \in Nat, n > 0, NEW a \in 0 .. n - 1
    PROVE  a % n = a
OBVIOUS

ClockType == [run : BOOLEAN, set : BOOLEAN, diff : 0 .. Word - 1, input : 0 .. Word - 1]
ClockInv == rtc \in ClockType /\ now \in 0 .. Word - 1 /\ model \in Models

LEMMA WordPositive == Word \in Nat /\ Word > 0 /\ 0 \in 0 .. Word - 1
BY WordAssumption DEF WordAssumption

\* The four calculators with a clock read it, and switch it, alike.
LEMMA ShownIs ==
    ASSUME Clock!HasClock
    PROVE  \A r, t : /\ Clock!X4Shown(r, t) = ((IF r.run THEN t ELSE 0) + r.diff) % Word
                     /\ Clock!Shown = Clock!X4Shown(rtc, now)
                     /\ model' = model => Clock!Shown' = Clock!X4Shown(rtc', now')
BY DEF Clock!HasClock, Clock!Silver, Clock!Shown, Clock!X4Shown, Clock!XzShown,
       Clock!XnShown, Clock!XcShown

\* The sums that switching and setting leave.
LEMMA ClockSums ==
    ASSUME NEW t \in 0 .. Word - 1, NEW d \in 0 .. Word - 1, NEW i \in 0 .. Word - 1
    PROVE  /\ (0 + d) % Word = d /\ (0 + i) % Word = i
           /\ (d - t) % Word \in 0 .. Word - 1 /\ (t + ((d - t) % Word)) % Word = d
           /\ (d + t) % Word \in 0 .. Word - 1 /\ (0 + ((d + t) % Word)) % Word = (t + d) % Word
           /\ (i - t) % Word \in 0 .. Word - 1 /\ (t + ((i - t) % Word)) % Word = i
           /\ (t + 1) % Word \in 0 .. Word - 1
           /\ (((t + 1) % Word) + d) % Word = (((t + d) % Word) + 1) % Word
<1> USE WordPositive
<1>1. ASSUME NEW x \in Int PROVE x % Word \in 0 .. Word - 1
  BY Division
<1>2. ASSUME NEW x \in 0 .. Word - 1 PROVE x % Word = x
  BY ModSmall
<1>3. ASSUME NEW x \in 0 .. Word - 1 PROVE (t + ((x - t) % Word)) % Word = x
  <2>1. (((x - t) % Word) + t) % Word = ((x - t) + t) % Word
    BY ModEarly
  <2>2. (x - t) % Word \in Int
    BY <1>1
  <2>3. t + ((x - t) % Word) = ((x - t) % Word) + t /\ (x - t) + t = x
    <3>1. \A m \in Int : t + m = m + t
      OBVIOUS
    <3>2. (x - t) + t = x
      OBVIOUS
    <3> QED
      BY <2>2, <3>1, <3>2, Zenon
  <2> QED
    BY <2>1, <2>3, <1>2
<1>4. (0 + ((d + t) % Word)) % Word = (t + d) % Word
  <2>1. (d + t) % Word \in 0 .. Word - 1
    BY <1>1
  <2> DEFINE s == (d + t) % Word
  <2>2. 0 + s = s /\ s % Word = s
    BY <2>1, <1>2
  <2>3. d + t = t + d
    OBVIOUS
  <2> QED
    BY <2>2, <2>3
<1>5. (((t + 1) % Word) + d) % Word = (((t + d) % Word) + 1) % Word
  <2>1. (((t + 1) % Word) + d) % Word = ((t + 1) + d) % Word
    BY ModEarly
  <2>2. (((t + d) % Word) + 1) % Word = ((t + d) + 1) % Word
    BY ModEarly
  <2>3. (t + 1) + d = (t + d) + 1
    OBVIOUS
  <2> QED
    BY <2>1, <2>2, <2>3
<1>6. 0 + d = d /\ 0 + i = i /\ d - t \in Int /\ d + t \in Int /\ i - t \in Int /\ t + 1 \in Int
  OBVIOUS
<1> QED
  BY <1>1, <1>2, <1>3, <1>4, <1>5, <1>6

LEMMA ClockStart == Clock!RtcInit => rtc \in ClockType /\ now \in 0 .. Word - 1
BY WordPositive DEF Clock!RtcInit, ClockType

LEMMA ClockStep ==
    ASSUME ClockInv, Clock!RtcNext, model' = model
    PROVE  ClockInv' /\ Clock!GoesOn
<1> USE WordPositive
<1>0. rtc \in ClockType /\ now \in 0 .. Word - 1 /\ model \in Models
  BY DEF ClockInv
<1> DEFINE t == now
           d == rtc.diff
           i == rtc.input
<1>1. /\ rtc.run \in BOOLEAN /\ rtc.set \in BOOLEAN /\ d \in 0 .. Word - 1
      /\ i \in 0 .. Word - 1 /\ t \in 0 .. Word - 1
  BY <1>0 DEF ClockType
<1>2. /\ (0 + d) % Word = d /\ (0 + i) % Word = i
      /\ (d - t) % Word \in 0 .. Word - 1 /\ (t + ((d - t) % Word)) % Word = d
      /\ (d + t) % Word \in 0 .. Word - 1 /\ (0 + ((d + t) % Word)) % Word = (t + d) % Word
      /\ (i - t) % Word \in 0 .. Word - 1 /\ (t + ((i - t) % Word)) % Word = i
      /\ (t + 1) % Word \in 0 .. Word - 1
      /\ (((t + 1) % Word) + d) % Word = (((t + d) % Word) + 1) % Word
  <2> HIDE DEF t, d, i
  <2> QED
    BY <1>1, ClockSums
<1>3. ASSUME NEW run \in BOOLEAN, NEW set \in BOOLEAN,
             Clock!Out40([run |-> run, set |-> set])
      PROVE  ClockInv' /\ Clock!GoesOn
  <2> DEFINE v == [run |-> run, set |-> set]
             e == IF ~rtc.set /\ set THEN (IF run THEN (i - t) % Word ELSE i)
                  ELSE IF run /\ ~rtc.run THEN (d - t) % Word
                  ELSE IF ~run /\ rtc.run THEN (d + t) % Word ELSE d
  <2>1. rtc' = Clock!X4Out40(rtc, v) /\ now' = now /\ Clock!HasClock
    BY <1>3 DEF Clock!Out40, Clock!HasClock, Clock!Silver, Clock!XzOut40, Clock!XnOut40,
                Clock!XcOut40
  <2>2. v.run = run /\ v.set = set
    OBVIOUS
  <2>3. rtc' = [rtc EXCEPT !.run = run, !.set = set, !.diff = e]
    <3>1. Clock!Switched(rtc, v) = IF run /\ ~rtc.run THEN (d - t) % Word
                                   ELSE IF ~run /\ rtc.run THEN (d + t) % Word ELSE d
      BY <1>1, <2>2 DEF Clock!Switched
    <3>2. Clock!Loaded(rtc, v) = IF run THEN (i - t) % Word ELSE i
      BY <2>2 DEF Clock!Loaded
    <3> QED
      BY <2>1, <2>2, <3>1, <3>2 DEF Clock!X4Out40
  <2>4. e \in 0 .. Word - 1
    BY <1>1, <1>2
  <2>5. ((IF run THEN t ELSE 0) + e) % Word
          = IF set /\ ~rtc.set THEN i ELSE ((IF rtc.run THEN t ELSE 0) + d) % Word
    <3> HIDE DEF t, d, i
    <3>1. CASE ~rtc.set /\ set
      <4>1. e = IF run THEN (i - t) % Word ELSE i
        BY <3>1
      <4> HIDE DEF e
      <4> QED
        BY <1>1, <1>2, <3>1, <4>1
    <3>2. CASE ~(~rtc.set /\ set) /\ run /\ ~rtc.run
      <4>1. e = (d - t) % Word
        BY <3>2
      <4> HIDE DEF e
      <4> QED
        BY <1>1, <1>2, <3>2, <4>1
    <3>3. CASE ~(~rtc.set /\ set) /\ ~run /\ rtc.run
      <4>1. e = (d + t) % Word
        BY <3>3
      <4> HIDE DEF e
      <4> QED
        BY <1>1, <1>2, <3>3, <4>1
    <3>4. CASE ~(~rtc.set /\ set) /\ run = rtc.run
      BY <1>1, <1>2, <3>4
    <3> QED
      BY <1>1, <3>1, <3>2, <3>3, <3>4
  <2> HIDE DEF e
  <2>6. /\ rtc' \in ClockType
        /\ rtc'.run = run /\ rtc'.set = set /\ rtc'.diff = e /\ rtc'.input = i
    BY <1>0, <2>3, <2>4 DEF ClockType
  <2>7. Clock!Shown' = ((IF run THEN t ELSE 0) + e) % Word
    BY <2>1, <2>6, ShownIs
  <2>8. Clock!Shown = ((IF rtc.run THEN t ELSE 0) + d) % Word
    BY <2>1, ShownIs
  <2>9. Clock!GoesOn
    BY <1>1, <2>1, <2>5, <2>6, <2>7, <2>8 DEF Clock!GoesOn
  <2> QED
    BY <1>0, <2>1, <2>6, <2>9 DEF ClockInv
<1>4. ASSUME NEW v \in 0 .. Word - 1, Clock!OutInput(v)
      PROVE  ClockInv' /\ Clock!GoesOn
  <2>1. rtc' = [rtc EXCEPT !.input = v] /\ now' = now /\ Clock!HasClock
    BY <1>4 DEF Clock!OutInput
  <2>2. /\ rtc' \in ClockType
        /\ rtc'.run = rtc.run /\ rtc'.set = rtc.set /\ rtc'.diff = rtc.diff
    BY <1>0, <2>1 DEF ClockType
  <2>3. Clock!Shown' = Clock!Shown
    BY <2>1, <2>2, ShownIs
  <2> QED
    BY <1>0, <1>1, <2>1, <2>2, <2>3 DEF ClockInv, Clock!GoesOn
<1>5. ASSUME Clock!HostSecond
      PROVE  ClockInv' /\ Clock!GoesOn
  <2>1. now' = (t + 1) % Word /\ rtc' = rtc /\ Clock!HasClock
    BY <1>5 DEF Clock!HostSecond
  <2>2. Clock!Shown = ((IF rtc.run THEN t ELSE 0) + d) % Word
    BY <2>1, ShownIs
  <2>3. Clock!Shown' = ((IF rtc.run THEN (t + 1) % Word ELSE 0) + d) % Word
    BY <2>1, ShownIs
  <2>4. Clock!GoesOn
    BY <1>1, <1>2, <2>1, <2>2, <2>3 DEF Clock!GoesOn
  <2> QED
    BY <1>0, <1>2, <2>1, <2>4 DEF ClockInv
<1> QED
  BY <1>3, <1>4, <1>5 DEF Clock!RtcNext

\* What the clock shows goes on, for any width of its registers and of the host's time.
THEOREM ClockShowsTime == Spec => ClockGoesOn
<1>1. Init => ClockInv
  BY ModelStays, ClockStart DEF Init, ClockInv
<1>2. ClockInv /\ [Next]_vars => ClockInv' /\ [Clock!GoesOn]_<<rtc, now>>
  <2> SUFFICES ASSUME ClockInv, [Next]_vars
               PROVE  ClockInv' /\ [Clock!GoesOn]_<<rtc, now>>
    OBVIOUS
  <2>1. model' = model
    BY ModelStays DEF vars
  <2>2. Clock!RtcNext \/ UNCHANGED <<rtc, now>>
    BY DEF Next, Only, vars
  <2>3. CASE UNCHANGED <<rtc, now>>
    BY <2>1, <2>3 DEF ClockInv
  <2> QED
    BY <2>1, <2>2, <2>3, ClockStep
<1> QED
  BY <1>1, <1>2, PTL DEF Spec, ClockGoesOn

-----------------------------------------------------------------------------
(* The delays.                                                             *)

DelayInv ==
    /\ model \in Delay!Silver
    /\ DOMAIN dport = Delay!DelayPortNames /\ dport.p2F \in 0..255 /\ dport.p20 \in 0..3
    /\ wait \in [flag : BOOLEAN, timer : Int]
    /\ Delay!DelaysFollowPorts

\* The five models compute their delays alike, from six of the ports.
LEMMA DelaysAlike ==
    ASSUME model \in Delay!Silver
    PROVE  \A r : Delay!DelaysOf(r) = Delay!Delays(r)
BY DEF Delay!Silver, Delay!DelaysOf, Delay!XsDelays, Delay!X4Delays, Delay!XzDelays,
       Delay!XnDelays, Delay!XcDelays

LEMMA DelaysOfReset == Delay!Delays(Delay!ResetPorts) = Delay!ResetDelays
<1> DEFINE r == Delay!ResetPorts
<1>1. r.p20 = 0 /\ r.p29 = 20 /\ r.p2E = 68
  BY DEF Delay!ResetPorts
<1>2. Delay!Selected(r) = 20
  BY <1>1 DEF Delay!Selected
<1>3. Delay!Bit(20, 0) = FALSE /\ Delay!Bit(20, 1) = FALSE /\ 20 \div 4 = 5
  BY DEF Delay!Bit
<1> HIDE DEF r
<1>4. Delay!Delays(r) = Delay!ResetDelays
  BY <1>2, <1>3, Zenon DEF Delay!Delays, Delay!ResetDelays
<1> QED
  BY <1>4 DEF r

LEMMA DelayStart ==
    ASSUME Delay!DelayInit, model \in Delay!Silver
    PROVE  DelayInv
<1>1. dport = Delay!ResetPorts /\ delays = Delay!ResetDelays /\ speed = 6000
      /\ wait = [flag |-> FALSE, timer |-> 0]
  BY DEF Delay!DelayInit, Delay!NoWait
<1>2. DOMAIN dport = Delay!DelayPortNames /\ dport.p2F = 74 /\ dport.p20 = 0
  BY <1>1 DEF Delay!ResetPorts, Delay!DelayPortNames
<1>3. delays = Delay!DelaysOf(dport)
  BY <1>1, DelaysAlike, DelaysOfReset
<1>4. wait \in [flag : BOOLEAN, timer : Int] /\ (wait.flag <=> wait.timer # 0)
  BY <1>1
<1> QED
  BY <1>1, <1>2, <1>3, <1>4 DEF DelayInv, Delay!DelaysFollowPorts

LEMMA DelayStep ==
    ASSUME DelayInv, Delay!DelayNext, model' = model
    PROVE  DelayInv'
<1>0. /\ model \in Delay!Silver
      /\ DOMAIN dport = Delay!DelayPortNames /\ dport.p2F \in 0..255 /\ dport.p20 \in 0..3
      /\ wait \in [flag : BOOLEAN, timer : Int]
      /\ delays = Delay!DelaysOf(dport) /\ (speed = 6000 <=> dport.p20 % 4 = 0)
      /\ (wait.flag <=> wait.timer # 0)
  BY DEF DelayInv, Delay!DelaysFollowPorts
<1>a. \A r : Delay!DelaysOf(r)' = Delay!Delays(r)
  BY <1>0, DelaysAlike DEF Delay!Silver, Delay!DelaysOf, Delay!XsDelays, Delay!X4Delays,
       Delay!XzDelays, Delay!XnDelays, Delay!XcDelays
<1>b. ASSUME dport' = dport, delays' = delays, speed' = speed,
             wait' \in [flag : BOOLEAN, timer : Int], wait'.flag <=> wait'.timer # 0
      PROVE  DelayInv'
  <2>1. delays' = Delay!Delays(dport')
    BY <1>0, <1>b, DelaysAlike
  <2> QED
    BY <1>0, <1>a, <1>b, <2>1 DEF DelayInv, Delay!DelaysFollowPorts
<1>1. ASSUME NEW p \in Delay!DelayPortNames, NEW v, p = "p2F" => v \in 0..255,
             p = "p20" => v \in 0..3, Delay!OutDelay(p, v)
      PROVE  DelayInv'
  <2>1. /\ dport' = [dport EXCEPT ![p] = v]
        /\ speed' = IF p # "p20" THEN speed ELSE IF v % 4 # 0 THEN 15000 ELSE 6000
        /\ delays' = IF p \in Delay!Recomputes THEN Delay!DelaysOf(dport') ELSE delays
        /\ wait' = wait
    BY <1>1 DEF Delay!OutDelay
  <2>2. /\ DOMAIN dport' = Delay!DelayPortNames
        /\ dport'[p] = v
        /\ \A q \in Delay!DelayPortNames : q # p => dport'[q] = dport[q]
    BY <1>0, <2>1
  <2>3. dport'.p2F \in 0..255 /\ dport'.p20 \in 0..3
    BY <1>0, <1>1, <2>2 DEF Delay!DelayPortNames
  <2>4. speed' = 6000 <=> dport'.p20 % 4 = 0
    <3>1. CASE p = "p20"
      BY <2>1, <2>2, <3>1
    <3>2. CASE p # "p20"
      <4>1. dport'.p20 = dport.p20
        BY <2>2, <3>2 DEF Delay!DelayPortNames
      <4> QED
        BY <1>0, <2>1, <3>2, <4>1
    <3> QED
      BY <3>1, <3>2
  <2>5. delays' = Delay!Delays(dport')
    <3>1. CASE p \in Delay!Recomputes
      BY <1>0, <2>1, <3>1, DelaysAlike
    <3>2. CASE p \notin Delay!Recomputes
      <4>1. p = "p2F" \/ p = "p2D"
        BY <1>0, <1>1, <3>2 DEF Delay!Recomputes, Delay!DelayPortNames, Delay!Silver,
           Delay!XsRecomputes, Delay!X4Recomputes, Delay!XzRecomputes, Delay!XnRecomputes,
           Delay!XcRecomputes
      <4>2. /\ dport'.p20 = dport.p20 /\ dport'.p29 = dport.p29 /\ dport'.p2A = dport.p2A
            /\ dport'.p2B = dport.p2B /\ dport'.p2C = dport.p2C /\ dport'.p2E = dport.p2E
        BY <2>2, <4>1 DEF Delay!DelayPortNames
      <4>3. Delay!Selected(dport') = Delay!Selected(dport)
        BY <4>2, Zenon DEF Delay!Selected
      <4>4. Delay!Delays(dport') = Delay!Delays(dport)
        BY <4>2, <4>3, Zenon DEF Delay!Delays
      <4> QED
        BY <1>0, <2>1, <3>2, <4>4, DelaysAlike
    <3> QED
      BY <3>1, <3>2
  <2>6. delays' = Delay!DelaysOf(dport)'
    BY <1>a, <2>5, <1>0 DEF Delay!Silver, Delay!DelaysOf, Delay!XsDelays, Delay!X4Delays,
       Delay!XzDelays, Delay!XnDelays, Delay!XcDelays
  <2> QED
    BY <1>0, <2>1, <2>2, <2>3, <2>4, <2>6 DEF DelayInv, Delay!DelaysFollowPorts
<1>2. ASSUME Delay!AccessLcd
      PROVE  DelayInv'
  <2>1. dport' = dport /\ delays' = delays /\ speed' = speed
    BY <1>2 DEF Delay!AccessLcd
  <2>2. wait' = Delay!XsWait(dport)
    BY <1>0, <1>2 DEF Delay!AccessLcd, Delay!Silver, Delay!X4Wait, Delay!XzWait,
       Delay!XnWait, Delay!XcWait
  <2>3. CASE dport.p20 = 0
    <3>1. wait' = wait
      BY <2>2, <2>3 DEF Delay!XsWait
    <3> QED
      BY <1>0, <1>b, <2>1, <3>1
  <2>4. CASE dport.p20 # 0
    <3> DEFINE k == Delay!WaitIndex(dport)
               t == Delay!WaitTime[k + 1]
    <3>1. dport.p20 \in 1..3
      BY <1>0, <2>4
    <3>2. k \in 0..7
      BY <1>0, <3>1 DEF Delay!WaitIndex
    <3>3. wait' = [flag |-> TRUE, timer |-> t]
      BY <2>2, <3>1 DEF Delay!XsWait
    <3>4. t \in Int /\ t # 0
      <4> HIDE DEF k
      <4>1. k + 1 \in 1..8
        BY <3>2
      <4> QED
        BY <4>1 DEF Delay!WaitTime
    <3> HIDE DEF t
    <3>5. wait' \in [flag : BOOLEAN, timer : Int] /\ (wait'.flag <=> wait'.timer # 0)
      BY <3>3, <3>4
    <3> QED
      BY <1>b, <2>1, <3>5
  <2> QED
    BY <2>3, <2>4
<1>3. ASSUME Delay!WaitTimer
      PROVE  DelayInv'
  <2>1. /\ dport' = dport /\ delays' = delays /\ speed' = speed
        /\ wait' = [flag |-> FALSE, timer |-> 0]
    BY <1>3 DEF Delay!WaitTimer, Delay!NoWait
  <2>2. wait' \in [flag : BOOLEAN, timer : Int] /\ (wait'.flag <=> wait'.timer # 0)
    BY <2>1
  <2> QED
    BY <1>b, <2>1, <2>2
<1>4. ASSUME Delay!DelayReset
      PROVE  DelayInv'
  <2>1. /\ dport' = Delay!ResetPorts /\ delays' = Delay!ResetDelays /\ speed' = 6000
        /\ wait' = wait
    BY <1>4 DEF Delay!DelayReset
  <2>2. DOMAIN dport' = Delay!DelayPortNames /\ dport'.p2F = 74 /\ dport'.p20 = 0
    BY <2>1 DEF Delay!ResetPorts, Delay!DelayPortNames
  <2>3. delays' = Delay!Delays(dport')
    BY <2>1, DelaysOfReset
  <2> QED
    BY <1>0, <1>a, <2>1, <2>2, <2>3 DEF DelayInv, Delay!DelaysFollowPorts
<1> QED
  <2>1. ASSUME NEW v \in WaitPortValues PROVE v \in 0..255
    BY ByteAssumption DEF ByteAssumption
  <2> QED
    BY <1>1, <1>2, <1>3, <1>4, <2>1 DEF Delay!DelayNext, Delay!DelayPortNames

-----------------------------------------------------------------------------
(* The limits.                                                             *)

\* What LimitsFollowPorts says of any registers.
Wrap(v) == 32768 * 2^((v \div 16) % 4)
Kilo(v) == 1024 * v
Group(v) == v % 4
SilverFollow(l) ==
    /\ l.wrap = Wrap(l.p21) /\ l.lower = Kilo(l.p25) /\ l.upper = Kilo(l.p26)
    /\ l.group = Group(l.p21) \/ (model = "x4" /\ l.p21 = 0)
Follow(l) ==
    /\ model \in Silver \ {"xn"} => SilverFollow(l)
    /\ model = "xn" => l.ram = Prot!XnRamLimit(l.p21)
Kept(l) == DOMAIN l = DOMAIN Prot!NoLimit /\ Follow(l)

LimitNames == {"p5", "p21", "p22", "p23", "p24", "p25", "p26", "mask", "group", "ram",
               "wrap", "lower", "upper"}

LEMMA NamesOf == DOMAIN Prot!NoLimit = LimitNames
BY DEF Prot!NoLimit, LimitNames

LEMMA SilverFollows ==
    ASSUME NEW l, DOMAIN l = LimitNames, model \in {"xs", "x4", "xz", "xc"}
    PROVE  Kept(l) <=> SilverFollow(l)
<1>1. model \in Silver \ {"xn"} /\ model # "xn"
  BY DEF Silver
<1> QED
  BY <1>1, NamesOf DEF Kept, Follow

LEMMA SilverSums ==
    /\ Wrap(0) = 32768 /\ Wrap(1) = 32768 /\ Group(1) = 1
    /\ Kilo(16) = 16384 /\ Kilo(32) = 32768
<1>1. (0 \div 16) % 4 = 0 /\ (1 \div 16) % 4 = 0 /\ 2^0 = 1
  OBVIOUS
<1> QED
  BY <1>1 DEF Wrap, Group, Kilo

LEMMA ResetFollows ==
    ASSUME NEW l, DOMAIN l = LimitNames, model \in Models \ Simple
    PROVE  Kept(Prot!ResetLimits(model, l))
<1>1. CASE model \in {"x7", "xp"}
  <2>1. Prot!ResetLimits(model, l) = [l EXCEPT !.p5 = 0, !.mask = <<0, 0, 0, 0>>]
    BY <1>1 DEF Prot!ResetLimits, Prot!Plus, Prot!PlusReset
  <2>2. DOMAIN [l EXCEPT !.p5 = 0, !.mask = <<0, 0, 0, 0>>] = LimitNames
    OBVIOUS
  <2> QED
    BY <1>1, <2>1, <2>2, NamesOf DEF Kept, Follow, Silver
<1>2. CASE model = "xn"
  <2> DEFINE e == [l EXCEPT !.p21 = 0, !.p22 = 8, !.p23 = 105, !.p25 = 16, !.p26 = 32]
             f == [e EXCEPT !.ram = {0, 2, 4, 6}]
  <2>1. Prot!ResetLimits(model, l) = f
    BY <1>2 DEF Prot!ResetLimits, Prot!Plus, Prot!LimitsReset
  <2>2. DOMAIN f = LimitNames /\ f.p21 = 0 /\ f.ram = {0, 2, 4, 6}
    BY DEF LimitNames
  <2>3. Prot!XnRamLimit(0) = {0, 2, 4, 6}
    BY DEF Prot!XnRamLimit
  <2> HIDE DEF f
  <2> QED
    BY <1>2, <2>1, <2>2, <2>3, NamesOf DEF Kept, Follow
<1>3. CASE model \in {"xs", "x4", "xz", "xc"}
  <2> DEFINE p21 == IF model = "x4" THEN 0 ELSE 1
             p23 == IF model = "x4" THEN 41 ELSE 105
             e == [l EXCEPT !.p21 = p21, !.p22 = 8, !.p23 = p23, !.p25 = 16, !.p26 = 32]
             f == [e EXCEPT !.wrap = 32768, !.lower = 16384, !.upper = 32768]
             g == [f EXCEPT !.group = 1]
  <2>1. Prot!ResetLimits(model, l) = IF model = "x4" THEN f ELSE g
    BY <1>3 DEF Prot!ResetLimits, Prot!Plus, Prot!LimitsReset, Prot!SilverLimits
  <2>2. /\ DOMAIN f = LimitNames /\ f.p21 = p21 /\ f.p25 = 16 /\ f.p26 = 32
        /\ f.wrap = 32768 /\ f.lower = 16384 /\ f.upper = 32768
    BY DEF LimitNames
  <2> HIDE DEF f
  <2>3. /\ DOMAIN g = LimitNames /\ g.p21 = p21 /\ g.p25 = 16 /\ g.p26 = 32
        /\ g.wrap = 32768 /\ g.lower = 16384 /\ g.upper = 32768 /\ g.group = 1
    BY <2>2 DEF LimitNames
  <2> HIDE DEF g
  <2>5. CASE model = "x4"
    BY <1>3, <2>1, <2>2, <2>5, SilverSums, SilverFollows DEF SilverFollow
  <2>6. CASE model # "x4"
    <3>1. g.p21 = 1
      BY <2>3, <2>6
    <3>2. SilverFollow(g)
      BY <2>3, <3>1, SilverSums DEF SilverFollow
    <3>3. Kept(g)
      <4>1. DOMAIN g = LimitNames
        BY <2>3
      <4> QED
        BY <1>3, <3>2, <4>1, SilverFollows
    <3>4. Prot!ResetLimits(model, l) = g
      BY <2>1, <2>6
    <3> QED
      BY <3>3, <3>4
  <2> QED
    BY <2>5, <2>6
<1> QED
  BY <1>1, <1>2, <1>3, ModelsKnown DEF AllModels, Simple

LEMMA WriteFollows ==
    ASSUME NEW l, Kept(l), model \in Models \ Simple, NEW p \in Prot!LimitPorts(model), NEW v \in Int
    PROVE  Kept(Prot!NewLimit(model, l, p, v))
<1>0. DOMAIN l = LimitNames /\ Follow(l) /\ Kept(l)
  BY NamesOf DEF Kept
<1>1. CASE model = "x7"
  <2>1. Prot!NewLimit(model, l, p, v) = Prot!X7NoExec(l, v)
    BY <1>1 DEF Prot!NewLimit
  <2>2. DOMAIN Prot!X7NoExec(l, v) = LimitNames
    BY <1>0 DEF Prot!X7NoExec
  <2> QED
    BY <1>1, <2>1, <2>2, NamesOf DEF Kept, Follow, Silver
<1>2. CASE model = "xp"
  <2>1. Prot!NewLimit(model, l, p, v) = Prot!XpNoExec(l, v)
    BY <1>2 DEF Prot!NewLimit
  <2>2. DOMAIN Prot!XpNoExec(l, v) = LimitNames
    <3>1. \A k, x : DOMAIN [l EXCEPT !.mask[k] = x] = LimitNames
      BY <1>0
    <3> QED
      BY <1>0, <3>1, Zenon DEF Prot!XpNoExec
  <2> QED
    BY <1>2, <2>1, <2>2, NamesOf DEF Kept, Follow, Silver
<1>3. CASE model = "xn"
  <2>1. Prot!NewLimit(model, l, p, v) = Prot!XnLimit(l, p, v)
    BY <1>3 DEF Prot!NewLimit
  <2>2. p \in {33, 34, 35, 37, 38}
    BY <1>3 DEF Prot!LimitPorts, Prot!Plus
  <2> DEFINE e == Prot!XnLimit(l, p, v)
  <2>3. DOMAIN e = LimitNames
    BY <1>0, <2>2 DEF Prot!XnLimit
  <2>4. e.ram = Prot!XnRamLimit(e.p21)
    BY <1>0, <1>3, <2>2 DEF Prot!XnLimit, Follow, LimitNames
  <2> HIDE DEF e
  <2>5. Kept(e)
    BY <1>3, <2>3, <2>4, NamesOf DEF Kept, Follow
  <2> QED
    BY <2>1, <2>5 DEF e
<1>4. CASE model \in {"xs", "x4", "xz", "xc"}
  <2> DEFINE e == Prot!NewLimit(model, l, p, v)
  <2>1. p \in {33, 34, 35, 36, 37, 38}
    BY <1>4 DEF Prot!LimitPorts, Prot!Plus
  <2>a. SilverFollow(l)
    BY <1>0, <1>4, SilverFollows DEF Kept
  <2>2. CASE p = 33
    <3> DEFINE w == Wrap(v)
               g == Group(v)
    <3>1. e = [l EXCEPT !.p21 = v, !.wrap = w, !.group = g]
      BY <1>4, <2>2 DEF Prot!NewLimit, Prot!XcLimit, Prot!SilverLimit, Wrap, Group
    <3> HIDE DEF w, g, e
    <3>2. /\ DOMAIN e = LimitNames /\ e.p21 = v /\ e.wrap = w
          /\ e.group = g /\ e.p25 = l.p25 /\ e.p26 = l.p26
          /\ e.lower = l.lower /\ e.upper = l.upper
      BY <1>0, <3>1 DEF LimitNames
    <3>3. Kept(e)
      BY <1>4, <2>a, <3>2, SilverFollows DEF SilverFollow, w, g
    <3> QED
      BY <3>3 DEF e
  <2>3. CASE p = 37
    <3> DEFINE w == Kilo(v)
    <3>1. e = [l EXCEPT !.p25 = v, !.lower = w]
      <4>1. v * 1024 = 1024 * v
        OBVIOUS
      <4>2. e = [l EXCEPT !.p25 = v, !.lower = v * 1024]
        BY <1>4, <2>3 DEF Prot!NewLimit, Prot!XcLimit, Prot!SilverLimit
      <4> HIDE DEF e
      <4> QED
        BY <4>1, <4>2 DEF Kilo
    <3>2. w = Kilo(v)
      OBVIOUS
    <3> HIDE DEF w, e
    <3>3. /\ DOMAIN e = LimitNames /\ e.p25 = v /\ e.lower = w
          /\ e.group = l.group /\ e.p21 = l.p21 /\ e.p26 = l.p26
          /\ e.wrap = l.wrap /\ e.upper = l.upper
      BY <1>0, <3>1 DEF LimitNames
    <3>4. Kept(e)
      BY <1>4, <2>a, <3>2, <3>3, SilverFollows DEF SilverFollow
    <3> QED
      BY <3>4 DEF e
  <2>4. CASE p = 38
    <3> DEFINE w == Kilo(v)
    <3>1. e = [l EXCEPT !.p26 = v, !.upper = w]
      <4>1. v * 1024 = 1024 * v
        OBVIOUS
      <4>2. e = [l EXCEPT !.p26 = v, !.upper = v * 1024]
        BY <1>4, <2>4 DEF Prot!NewLimit, Prot!XcLimit, Prot!SilverLimit
      <4> HIDE DEF e
      <4> QED
        BY <4>1, <4>2 DEF Kilo
    <3>2. w = Kilo(v)
      OBVIOUS
    <3> HIDE DEF w, e
    <3>3. /\ DOMAIN e = LimitNames /\ e.p26 = v /\ e.upper = w
          /\ e.group = l.group /\ e.p21 = l.p21 /\ e.p25 = l.p25
          /\ e.wrap = l.wrap /\ e.lower = l.lower
      BY <1>0, <3>1 DEF LimitNames
    <3>4. Kept(e)
      BY <1>4, <2>a, <3>2, <3>3, SilverFollows DEF SilverFollow
    <3> QED
      BY <3>4 DEF e
  <2>5. CASE p \in {34, 35, 36}
    <3> DEFINE k == IF p = 34 THEN "p22" ELSE IF p = 35 THEN "p23" ELSE "p24"
    <3>1. e = [l EXCEPT ![k] = v]
      <4>1. p = 36 => model = "xc"
        BY <1>4 DEF Prot!LimitPorts, Prot!Plus
      <4> QED
        BY <1>4, <2>5, <4>1 DEF Prot!NewLimit, Prot!XcLimit, Prot!SilverLimit
    <3>2. k \in {"p22", "p23", "p24"}
      OBVIOUS
    <3> HIDE DEF k, e
    <3>3. /\ DOMAIN e = LimitNames /\ e.p26 = l.p26 /\ e.upper = l.upper
          /\ e.group = l.group /\ e.p21 = l.p21 /\ e.p25 = l.p25
          /\ e.wrap = l.wrap /\ e.lower = l.lower
      BY <1>0, <3>1, <3>2 DEF LimitNames
    <3>4. Kept(e)
      BY <1>4, <2>a, <3>3, SilverFollows DEF SilverFollow
    <3> QED
      BY <3>4 DEF e
  <2> QED
    BY <2>1, <2>2, <2>3, <2>4, <2>5
<1> QED
  BY <1>1, <1>2, <1>3, <1>4, ModelsKnown DEF AllModels, Simple

LEMMA LimitsStart ==
    ASSUME Prot!ProtInit, model \in Models \ Simple
    PROVE  Kept(limit)
<1>1. limit = Prot!ResetLimits(model, Prot!NoLimit)
  BY DEF Prot!ProtInit, Prot!Simple, Simple
<1> QED
  BY <1>1, NamesOf, ResetFollows

LEMMA LimitsStep ==
    ASSUME model \in Models \ Simple, Kept(limit), Prot!ProtNext
    PROVE  Kept(limit')
<1>1. ASSUME limit' = limit PROVE Kept(limit')
  BY <1>1
<1>2. ASSUME Prot!ProtReset PROVE Kept(limit')
  BY <1>2, NamesOf, ResetFollows DEF Prot!ProtReset, Kept
<1>3. ASSUME NEW p, NEW v \in LimitBytes, Prot!OutLimit16(p, v)
      PROVE  Kept(limit')
  <2>1. v \in Int /\ p \in Prot!LimitPorts(model)
    BY <1>3, ByteAssumption DEF ByteAssumption, Prot!OutLimit16
  <2>2. limit' = limit \/ limit' = Prot!NewLimit(model, limit, p, v)
    BY <1>3 DEF Prot!OutLimit16
  <2> QED
    BY <2>1, <2>2, WriteFollows
<1>4. ASSUME NEW v, Prot!XpOutSelect(v)
      PROVE  Kept(limit')
  <2>1. limit' = [limit EXCEPT !.p5 = v % 8] /\ model = "xp"
    BY <1>4 DEF Prot!XpOutSelect
  <2>2. DOMAIN limit' = DOMAIN Prot!NoLimit
    BY <2>1 DEF Kept
  <2> QED
    BY <2>1, <2>2 DEF Kept, Follow, Silver
<1> QED
  BY <1>1, <1>2, <1>3, <1>4 DEF Prot!ProtNext, Prot!ReadByte, Prot!Fetch, Prot!OutLock

LEMMA LimitsAre == Prot!LimitsFollowPorts <=> Follow(limit)
BY DEF Prot!LimitsFollowPorts, Follow, SilverFollow, Wrap, Kilo, Group, Prot!Silver, Silver

-----------------------------------------------------------------------------
(* The memory map.  An address is a bank and an offset, a physical one a   *)
(* page and an offset.                                                     *)

Offset(o) == o \in Int /\ 0 <= o /\ o < Map!Page
Address(A) == A \in Int /\ 0 <= A /\ A < 4 * Map!Page

LEMMA PageIs == Map!Page = 16384 /\ Map!Page \in Nat
BY DEF Map!Page

LEMMA AddressParts ==
    ASSUME NEW A, Address(A)
    PROVE  /\ A \div Map!Page \in 0..3 /\ Offset(A % Map!Page)
           /\ A = (A \div Map!Page) * Map!Page + (A % Map!Page)
<1>1. A \div Map!Page \in 0..3
  BY PageIs, SMT DEF Address
<1>2. A % Map!Page \in Int /\ 0 <= A % Map!Page /\ A % Map!Page < Map!Page
  BY PageIs, SMT DEF Address
<1>3. A = (A \div Map!Page) * Map!Page + (A % Map!Page)
  BY PageIs, SMT DEF Address
<1> QED
  BY <1>1, <1>2, <1>3, Zenon DEF Offset

LEMMA PageParts ==
    ASSUME NEW pg \in Nat, NEW o, Offset(o)
    PROVE  (pg * Map!Page + o) \div Map!Page = pg /\ (pg * Map!Page + o) % Map!Page = o
<1>1. (pg * Map!Page + o) \div Map!Page = pg
  BY PageIs, SMT DEF Offset
<1>2. (pg * Map!Page + o) % Map!Page = o
  BY PageIs, SMT DEF Offset
<1> QED
  BY <1>1, <1>2, Zenon

LEMMA BankParts ==
    ASSUME NEW k \in 0..3, NEW o, Offset(o)
    PROVE  Address(k * Map!Page + o)
BY PageIs, SMT DEF Offset, Address

LEMMA AddressesAre == \A A \in Addresses : Address(A)
<1>1. \A o \in {0, 63, 64, 8192, 16319, 16320, 16383} : Offset(o)
  BY PageIs, SMT DEF Offset
<1>2. ASSUME NEW k \in 0..3, NEW o \in {0, 63, 64, 8192, 16319, 16320, 16383}
      PROVE  Address(k * 16384 + o)
  BY <1>1, PageIs, SMT DEF Offset, Address
<1>3. ASSUME NEW A \in Addresses
      PROVE  \E k \in 0..3, o \in {0, 63, 64, 8192, 16319, 16320, 16383} : A = k * 16384 + o
  BY <1>3, SMT DEF Addresses
<1> QED
  BY <1>2, <1>3, SMT

BankType == [1..4 -> Nat]

\* Where the CPU finds offset o of bank k, when nothing is forced.
LEMMA PlainAt ==
    ASSUME NEW b, NEW k \in 0..3, NEW o, Offset(o)
    PROVE  Map!PlainLtop(b, k * Map!Page + o) = b[k + 1] * Map!Page + o
<1>1. k \in Nat
  OBVIOUS
<1>2. (k * Map!Page + o) \div Map!Page = k /\ (k * Map!Page + o) % Map!Page = o
  BY <1>1, PageParts, Zenon
<1> QED
  BY <1>2, Zenon DEF Map!PlainLtop

\* The first bank that shows a page.
LEMMA FirstBank ==
    ASSUME NEW b, NEW pg, \E i \in 1..4 : b[i] = pg
    PROVE  LET i == CHOOSE i \in 1..4 : b[i] = pg /\ \A j \in 1..i-1 : b[j] # pg
           IN  i \in 1..4 /\ b[i] = pg
<1>1. \E i \in 1..4 : b[i] = pg /\ \A j \in 1..i-1 : b[j] # pg
  <2>1. b[1] = pg \/ b[2] = pg \/ b[3] = pg \/ b[4] = pg
    OBVIOUS
  <2>2. CASE b[1] = pg
    <3>1. 1 \in 1..4 /\ \A j \in 1..1-1 : b[j] # pg
      OBVIOUS
    <3> QED
      BY <2>2, <3>1
  <2>3. CASE b[1] # pg /\ b[2] = pg
    <3>1. 2 \in 1..4 /\ \A j \in 1..2-1 : b[j] # pg
      BY <2>3
    <3> QED
      BY <2>3, <3>1
  <2>4. CASE b[1] # pg /\ b[2] # pg /\ b[3] = pg
    <3>1. 3 \in 1..4 /\ \A j \in 1..3-1 : b[j] # pg
      BY <2>4
    <3> QED
      BY <2>4, <3>1
  <2>5. CASE b[1] # pg /\ b[2] # pg /\ b[3] # pg /\ b[4] = pg
    <3>1. 4 \in 1..4 /\ \A j \in 1..4-1 : b[j] # pg
      BY <2>5
    <3> QED
      BY <2>5, <3>1
  <2> QED
    BY <2>1, <2>2, <2>3, <2>4, <2>5
<1> QED
  BY <1>1, Zenon

\* mem_ptol finds a page exactly when a bank shows it, at an address that leads to it.
LEMMA PlainFinds ==
    ASSUME NEW b, NEW pg \in Nat, NEW o, Offset(o)
    PROVE  LET q == pg * Map!Page + o
               back == Map!PlainPtol(b, q)
           IN  /\ back # Map!NONE <=> \E i \in 1..4 : b[i] = pg
               /\ back # Map!NONE => Address(back) /\ Map!PlainLtop(b, back) = q
<1> DEFINE q == pg * Map!Page + o
           back == Map!PlainPtol(b, q)
           i == CHOOSE j \in 1..4 : b[j] = pg /\ \A m \in 1..j-1 : b[m] # pg
<1>1. q \div Map!Page = pg /\ q % Map!Page = o
  BY PageParts, Zenon
<1> HIDE DEF q
<1>2. ASSUME \E m \in 1..4 : b[m] = pg
      PROVE  back # Map!NONE /\ Address(back) /\ Map!PlainLtop(b, back) = q
  <2>1. i \in 1..4 /\ b[i] = pg
    BY <1>2, FirstBank
  <2>2. back = (i - 1) * Map!Page + o
    BY <1>1, <1>2, Zenon DEF Map!PlainPtol
  <2> HIDE DEF i, back
  <2>3. i - 1 \in 0..3
    BY <2>1
  <2>4. (i - 1) + 1 = i
    BY <2>1
  <2>5. Address(back)
    BY <2>2, <2>3, BankParts, Zenon
  <2>6. Map!PlainLtop(b, back) = b[i] * Map!Page + o
    BY <2>2, <2>3, <2>4, PlainAt, Zenon
  <2>7. back # Map!NONE
    BY <2>5, SMT DEF Map!NONE, Address
  <2> QED
    BY <2>1, <2>5, <2>6, <2>7, Zenon DEF q
<1>3. ASSUME ~\E m \in 1..4 : b[m] = pg
      PROVE  back = Map!NONE
  BY <1>1, <1>3, Zenon DEF Map!PlainPtol
<1> QED
  BY <1>2, <1>3, Zenon DEF q


\* The page at each bank for an offset, under ports 27 and 28: what SilverPage finds.
Shown(r, b, o, ram) ==
    <<b[1], b[2], IF o < 64 * r.p28 THEN ram + 1 ELSE b[3],
                  IF o >= Map!Page - (64 * r.p27) THEN ram ELSE b[4]>>

LEMMA SilverAt ==
    ASSUME NEW r, r.p27 \in 0..255, r.p28 \in 0..255, NEW b, NEW ram,
           NEW k \in 0..3, NEW o, Offset(o)
    PROVE  /\ Map!SilverPage(r, b, k * Map!Page + o, ram) = Shown(r, b, o, ram)[k + 1]
           /\ Map!SilverLtop(r, b, k * Map!Page + o, ram)
                = Shown(r, b, o, ram)[k + 1] * Map!Page + o
<1> DEFINE A == k * Map!Page + o
<1>0. k \in Nat
  OBVIOUS
<1>1. A \div Map!Page = k /\ A % Map!Page = o
  BY <1>0, PageParts, Zenon
<1>2. /\ k \in {0, 1} => ~(A >= 2 * Map!Page)
      /\ k \in {2, 3} => A >= 2 * Map!Page
      /\ k = 2 => ~(A > 65535 - 64 * r.p27)
      /\ k = 3 => (A > 65535 - 64 * r.p27 <=> o >= Map!Page - (64 * r.p27))
      /\ k = 2 => (A < 2 * Map!Page + 64 * r.p28 <=> o < 64 * r.p28)
      /\ k = 3 => ~(A < 2 * Map!Page + 64 * r.p28)
  BY PageIs, SMT DEF Offset
<1> HIDE DEF A
<1>3. Map!SilverPage(r, b, A, ram) = Shown(r, b, o, ram)[k + 1]
  <2>1. CASE k = 0
    BY <1>1, <1>2, <2>1 DEF Map!SilverPage, Shown
  <2>2. CASE k = 1
    BY <1>1, <1>2, <2>2 DEF Map!SilverPage, Shown
  <2>3. CASE k = 2
    BY <1>1, <1>2, <2>3 DEF Map!SilverPage, Shown
  <2>4. CASE k = 3
    BY <1>1, <1>2, <2>4 DEF Map!SilverPage, Shown
  <2> QED
    BY <2>1, <2>2, <2>3, <2>4
<1>4. Map!SilverLtop(r, b, A, ram) = Shown(r, b, o, ram)[k + 1] * Map!Page + o
  BY <1>1, <1>3, Zenon DEF Map!SilverLtop
<1> QED
  BY <1>3, <1>4, Zenon DEF A

LEMMA SilverFinds ==
    ASSUME NEW r, r.p27 \in 0..255, r.p28 \in 0..255, NEW b, b[1] = 0, NEW ram,
           NEW pg \in Nat, NEW o, Offset(o)
    PROVE  LET q == pg * Map!Page + o
               back == Map!SilverPtol(r, b, q, ram)
           IN  /\ back # Map!NONE <=> \E i \in 1..4 : Shown(r, b, o, ram)[i] = pg
               /\ back # Map!NONE => Address(back) /\ Map!SilverLtop(r, b, back, ram) = q
<1> DEFINE q == pg * Map!Page + o
           back == Map!SilverPtol(r, b, q, ram)
           s == Shown(r, b, o, ram)
<1>1. q \div Map!Page = pg /\ q % Map!Page = o
  BY PageParts, Zenon
<1>2. s[1] = 0 /\ s[2] = b[2]
      /\ s[3] = (IF o < 64 * r.p28 THEN ram + 1 ELSE b[3])
      /\ s[4] = (IF o >= Map!Page - (64 * r.p27) THEN ram ELSE b[4])
  BY DEF Shown
<1>3. back = IF pg = 0 THEN o
             ELSE IF pg = s[2] THEN Map!Page + o
             ELSE IF pg = s[3] THEN 2 * Map!Page + o
             ELSE IF pg = s[4] THEN 3 * Map!Page + o
             ELSE Map!NONE
  <2> HIDE DEF q, s
  <2> QED
    BY <1>1, <1>2, Zenon DEF Map!SilverPtol
<1>4. /\ o = 0 * Map!Page + o /\ Map!Page + o = 1 * Map!Page + o
  BY PageIs, SMT DEF Offset
<1> HIDE DEF q, s, back
<1>5. ASSUME NEW k \in 0..3, back = k * Map!Page + o, s[k + 1] = pg
      PROVE  /\ back # Map!NONE /\ Address(back) /\ Map!SilverLtop(r, b, back, ram) = q
             /\ \E i \in 1..4 : s[i] = pg
  <2>1. Address(back)
    BY <1>5, BankParts, Zenon
  <2>2. back # Map!NONE
    BY <2>1, SMT DEF Map!NONE, Address
  <2>3. Map!SilverLtop(r, b, back, ram) = s[k + 1] * Map!Page + o
    <3>1. Map!SilverLtop(r, b, k * Map!Page + o, ram) = s[k + 1] * Map!Page + o
      BY SilverAt DEF s
    <3> QED
      BY <1>5, <3>1, Zenon
  <2>4. k + 1 \in 1..4
    OBVIOUS
  <2> QED
    BY <1>5, <2>1, <2>2, <2>3, <2>4, Zenon DEF q
<1>6. 0 \in 0..3 /\ 1 \in 0..3 /\ 2 \in 0..3 /\ 3 \in 0..3
      /\ 0 + 1 = 1 /\ 1 + 1 = 2 /\ 2 + 1 = 3 /\ 3 + 1 = 4
  OBVIOUS
<1>7. CASE pg = 0
  BY <1>2, <1>3, <1>4, <1>5, <1>6, <1>7, Zenon DEF back, s, q
<1>8. CASE pg # 0 /\ pg = s[2]
  BY <1>3, <1>4, <1>5, <1>6, <1>8, Zenon DEF back, s, q
<1>9. CASE pg # 0 /\ pg # s[2] /\ pg = s[3]
  BY <1>3, <1>5, <1>6, <1>9, Zenon DEF back, s, q
<1>10. CASE pg # 0 /\ pg # s[2] /\ pg # s[3] /\ pg = s[4]
  BY <1>3, <1>5, <1>6, <1>10, Zenon DEF back, s, q
<1>11. CASE pg # 0 /\ pg # s[2] /\ pg # s[3] /\ pg # s[4]
  <2>1. back = Map!NONE
    BY <1>3, <1>11
  <2>2. ~\E i \in 1..4 : s[i] = pg
    BY <1>2, <1>11
  <2> QED
    BY <2>1, <2>2, Zenon DEF back, s, q
<1> QED
  BY <1>7, <1>8, <1>9, <1>10, <1>11


PlainModels == {"x2", "x3", "x5", "x6", "x7", "xp"}

\* The sizes of the memories, and the first page of RAM.
LEMMA Sizes ==
    /\ Map!Ram("x1") = 2 /\ Map!Ram("x2") = 8 /\ Map!Ram("x3") = 16 /\ Map!Ram("x5") = 8
    /\ Map!Ram("x6") = 16 /\ Map!Ram("x7") = 32 /\ Map!Ram("xp") = 32 /\ Map!Ram("xs") = 128
    /\ Map!Ram("x4") = 64 /\ Map!Ram("xz") = 128 /\ Map!Ram("xn") = 128 /\ Map!Ram("xc") = 256
    /\ Map!MemoryPages("x1") = 3 /\ Map!MemoryPages("x2") = 10 /\ Map!MemoryPages("x3") = 18
    /\ Map!MemoryPages("x5") = 10 /\ Map!MemoryPages("x6") = 24 /\ Map!MemoryPages("x7") = 34
    /\ Map!MemoryPages("xp") = 34 /\ Map!MemoryPages("xs") = 136
    /\ Map!MemoryPages("x4") = 72 /\ Map!MemoryPages("xz") = 136
    /\ Map!MemoryPages("xn") = 136 /\ Map!MemoryPages("xc") = 264
BY DEF Map!Ram, Map!MemoryPages, Map!hwmodels, Map!Plain, Map!FlashChip, Map!Ti81, Map!Ti82,
       Map!Ti83, Map!Ti85, Map!Ti86, Map!Ti73, Map!Ti83p, Map!Ti83pse, Map!Ti84p,
       Map!Ti84pse, Map!Ti84pns, Map!Ti84pcse

\* What a state that the program reaches maps, whatever the registers hold.
Mapped(m, r, b) ==
    /\ r.p27 \in 0..255 /\ r.p28 \in 0..255
    /\ b \in BankType /\ b[1] = 0
    /\ \A i \in 1..4 : b[i] < Map!MemoryPages(m)
    /\ m = "x1" => b[4] = 2

\* A byte of a page that exists exists.
LEMMA InMemory ==
    ASSUME NEW pg \in Nat, NEW n \in Nat, NEW o, Offset(o), pg < n
    PROVE  /\ pg * Map!Page + o \in 0 .. n * Map!Page - 1
           /\ pg * Map!Page + o \in Nat
           /\ \A f \in Nat : pg * Map!Page + o >= f * Map!Page <=> pg >= f
BY PageIs, SMT DEF Offset

\* An address of the seven calculators without forced pages, as bank and offset.
LEMMA PlainByte ==
    ASSUME NEW m, NEW r, NEW b, Mapped(m, r, b), NEW A, Address(A)
    PROVE  LET k == A \div Map!Page
               o == A % Map!Page
           IN  /\ k \in 0..3 /\ Offset(o) /\ A = k * Map!Page + o
               /\ b[k + 1] \in Nat /\ b[k + 1] < Map!MemoryPages(m)
               /\ Map!PlainLtop(b, A) = b[k + 1] * Map!Page + o
<1> DEFINE k == A \div Map!Page
           o == A % Map!Page
<1>1. k \in 0..3 /\ Offset(o) /\ A = k * Map!Page + o
  BY AddressParts, Zenon
<1>2. Map!PlainLtop(b, A) = b[k + 1] * Map!Page + o
  BY Zenon DEF Map!PlainLtop
<1> HIDE DEF k, o
<1>3. k + 1 \in 1..4
  BY <1>1
<1>4. b[k + 1] \in Nat /\ b[k + 1] < Map!MemoryPages(m)
  BY <1>3 DEF Mapped, BankType
<1> QED
  BY <1>1, <1>2, <1>4, Zenon DEF k, o

LEMMA PlainExists ==
    ASSUME NEW m \in PlainModels, NEW r, NEW b, Mapped(m, r, b), NEW A, Address(A)
    PROVE  LET pa == Map!Ltop(m, r, b, A)
           IN  /\ pa \in 0 .. Map!MemoryPages(m) * Map!Page - 1
               /\ Map!Read(m, r, b, A) = pa
               /\ Map!WriteTo(m, r, b, A) =
                    IF pa >= Map!Ram(m) * Map!Page THEN pa
                    ELSE IF m \in Map!Simple THEN Map!NONE ELSE Map!FLASH
<1> DEFINE pa == Map!PlainLtop(b, A)
           n == Map!MemoryPages(m)
           f == Map!Ram(m)
<1>1. n \in Nat /\ f \in Nat
  BY Sizes DEF PlainModels
<1>2. /\ pa \in 0 .. n * Map!Page - 1 /\ pa \in Nat
      /\ pa < n * Map!Page
  <2> DEFINE k == A \div Map!Page
             o == A % Map!Page
             pg == b[k + 1]
  <2>1. Offset(o) /\ pg \in Nat /\ pg < n /\ pa = pg * Map!Page + o
    BY PlainByte
  <2> HIDE DEF o, pg, n, pa
  <2>2. pa \in 0 .. n * Map!Page - 1 /\ pa \in Nat
    BY <1>1, <2>1, InMemory, Zenon
  <2>3. pa < n * Map!Page
    BY <1>1, <2>1, PageIs, SMT DEF Offset
  <2> QED
    BY <2>2, <2>3
<1>3. Map!Ltop(m, r, b, A) = pa /\ Map!Read(m, r, b, A) = pa
  BY DEF PlainModels, Map!Ltop, Map!Read, Map!X2Ltop, Map!X3Ltop, Map!X5Ltop, Map!X6Ltop,
         Map!X7Ltop, Map!XpLtop, Map!X2Read, Map!X3Read, Map!X5Read, Map!X6Read, Map!X7Read,
         Map!XpRead
<1> HIDE DEF pa, n, f
<1>4. Map!WriteTo(m, r, b, A) =
        IF pa >= f * Map!Page THEN pa ELSE IF m \in Map!Simple THEN Map!NONE ELSE Map!FLASH
  <2>1. CASE m = "x2"
    <3>1. n = 10 /\ f = 8
      BY <2>1, Sizes DEF n, f
    <3>2. Map!WriteTo(m, r, b, A) = IF pa >= 10 * Map!Page THEN Map!ABORT
                                    ELSE IF pa >= 8 * Map!Page THEN pa ELSE Map!NONE
      BY <2>1, Zenon DEF Map!WriteTo, Map!X2Write, pa
    <3>3. ~(pa >= 10 * Map!Page)
      <4>1. pa \in Nat /\ pa < 10 * Map!Page
        BY <1>2, <3>1, Zenon
      <4> QED
        BY <4>1, PageIs, SMT
    <3> QED
      BY <2>1, <3>1, <3>2, <3>3 DEF Map!Simple
  <2>2. CASE m \in {"x3", "x5", "x6"}
    <3>1. Map!WriteTo(m, r, b, A) = IF pa >= f * Map!Page THEN pa ELSE Map!NONE
      BY <2>2, Sizes DEF Map!WriteTo, Map!X3Write, Map!X5Write, Map!X6Write, Map!RamFrom, pa, f
    <3> QED
      BY <2>2, <3>1 DEF Map!Simple
  <2>3. CASE m \in {"x7", "xp"}
    <3>1. n = 34 /\ f = 32
      BY <2>3, Sizes DEF n, f
    <3>2. Map!WriteTo(m, r, b, A) = Map!PastFlash(pa, 32, 2)
      BY <2>3 DEF Map!WriteTo, Map!X7Write, Map!XpWrite, pa
    <3>3. /\ ~(pa < 32 * Map!Page) => pa \in 32 * Map!Page .. (32 + 2) * Map!Page - 1
          /\ pa < 32 * Map!Page <=> ~(pa >= 32 * Map!Page)
      <4>1. pa \in Nat /\ pa < 34 * Map!Page
        BY <1>2, <3>1, Zenon
      <4>2. pa < 32 * Map!Page <=> ~(pa >= 32 * Map!Page)
        BY <4>1, PageIs, SMT
      <4>3. ~(pa < 32 * Map!Page) => pa \in 32 * Map!Page .. (32 + 2) * Map!Page - 1
        <5> DEFINE lo == 32 * Map!Page
                   hi == (32 + 2) * Map!Page - 1
        <5>1. lo \in Int /\ hi \in Int /\ pa <= hi
          BY <4>1, PageIs, SMT
        <5> HIDE DEF lo, hi
        <5>2. ~(pa < lo) => pa \in lo .. hi
          BY <4>1, <5>1, SMT
        <5> QED
          BY <5>2, Zenon DEF lo, hi
      <4> QED
        BY <4>2, <4>3, Zenon
    <3> QED
      BY <2>3, <3>1, <3>2, <3>3, Zenon DEF Map!Simple, Map!PastFlash, Map!InRam
  <2> QED
    BY <2>1, <2>2, <2>3 DEF PlainModels
<1> QED
  BY <1>2, <1>3, <1>4, Zenon DEF n, f


SilverModels == {"xs", "x4", "xz", "xn", "xc"}

\* The five calculators with forced pages differ in how much Flash they have.
LEMMA SilverAlike ==
    ASSUME NEW m \in SilverModels
    PROVE  /\ Map!MemoryPages(m) = Map!Ram(m) + 8 /\ Map!Ram(m) \in Nat
           /\ m # "x1" /\ m \notin Map!Simple
           /\ \A r, b, A : /\ Map!Ltop(m, r, b, A) = Map!SilverLtop(r, b, A, Map!Ram(m))
                           /\ Map!Read(m, r, b, A) = Map!SilverLtop(r, b, A, Map!Ram(m))
                           /\ Map!WriteTo(m, r, b, A) =
                                Map!PastFlash(Map!SilverLtop(r, b, A, Map!Ram(m)), Map!Ram(m), 8)
                           /\ Map!Ptol(m, r, b, A) = Map!SilverPtol(r, b, A, Map!Ram(m))
<1>1. Map!MemoryPages(m) = Map!Ram(m) + 8 /\ Map!Ram(m) \in Nat
  BY Sizes DEF SilverModels
<1>2. m # "x1" /\ m \notin Map!Simple
  BY DEF SilverModels, Map!Simple
<1>3. /\ \A r, b, A : Map!Ltop(m, r, b, A) = Map!SilverLtop(r, b, A, Map!Ram(m))
      /\ \A r, b, A : Map!Ptol(m, r, b, A) = Map!SilverPtol(r, b, A, Map!Ram(m))
  <2>1. CASE m = "xs"
    BY <2>1, Sizes DEF Map!Ltop, Map!XsLtop, Map!Ptol, Map!XsPtol
  <2>2. CASE m = "x4"
    BY <2>2, Sizes DEF Map!Ltop, Map!X4Ltop, Map!Ptol, Map!X4Ptol
  <2>3. CASE m = "xz"
    BY <2>3, Sizes DEF Map!Ltop, Map!XzLtop, Map!Ptol, Map!XzPtol
  <2>4. CASE m = "xn"
    BY <2>4, Sizes DEF Map!Ltop, Map!XnLtop, Map!Ptol, Map!XnPtol
  <2>5. CASE m = "xc"
    BY <2>5, Sizes DEF Map!Ltop, Map!XcLtop, Map!Ptol, Map!XcPtol
  <2> QED
    BY <2>1, <2>2, <2>3, <2>4, <2>5 DEF SilverModels
<1>4. \A r, b, A : Map!Read(m, r, b, A) = Map!SilverLtop(r, b, A, Map!Ram(m))
  BY Sizes DEF SilverModels, Map!Read, Map!XsRead, Map!X4Read, Map!XzRead, Map!XnRead,
     Map!XcRead, Map!SilverLtop
<1>5. \A r, b, A : Map!WriteTo(m, r, b, A) =
                     Map!PastFlash(Map!SilverLtop(r, b, A, Map!Ram(m)), Map!Ram(m), 8)
  BY Sizes DEF SilverModels, Map!WriteTo, Map!XsWrite, Map!X4Write, Map!XzWrite, Map!XnWrite,
     Map!XcWrite, Map!SilverWrite, Map!SilverLtop
<1> QED
  BY <1>1, <1>2, <1>3, <1>4, <1>5, Zenon

\* A forced page is one of the RAM.
LEMMA ShownExists ==
    ASSUME NEW m \in SilverModels, NEW r, NEW b, Mapped(m, r, b), NEW o, NEW i \in 1..4
    PROVE  /\ Shown(r, b, o, Map!Ram(m))[i] \in Nat
           /\ Shown(r, b, o, Map!Ram(m))[i] < Map!MemoryPages(m)
<1>1. Map!MemoryPages(m) = Map!Ram(m) + 8 /\ Map!Ram(m) \in Nat
  BY SilverAlike
<1>2. /\ b[1] \in Nat /\ b[2] \in Nat /\ b[3] \in Nat /\ b[4] \in Nat
      /\ b[1] < Map!MemoryPages(m) /\ b[2] < Map!MemoryPages(m)
      /\ b[3] < Map!MemoryPages(m) /\ b[4] < Map!MemoryPages(m)
  BY DEF Mapped, BankType
<1> DEFINE s == Shown(r, b, o, Map!Ram(m))
<1>3. /\ s[1] = b[1] /\ s[2] = b[2] /\ s[3] \in {Map!Ram(m) + 1, b[3]}
      /\ s[4] \in {Map!Ram(m), b[4]}
  BY DEF Shown
<1> HIDE DEF s
<1>4. s[i] \in Nat /\ s[i] < Map!MemoryPages(m)
  BY <1>1, <1>2, <1>3, SMT
<1> QED
  BY <1>4 DEF s

LEMMA SilverExists ==
    ASSUME NEW m \in SilverModels, NEW r, NEW b, Mapped(m, r, b), NEW A, Address(A)
    PROVE  LET pa == Map!Ltop(m, r, b, A)
           IN  /\ pa \in 0 .. Map!MemoryPages(m) * Map!Page - 1
               /\ Map!Read(m, r, b, A) = pa
               /\ Map!WriteTo(m, r, b, A) =
                    IF pa >= Map!Ram(m) * Map!Page THEN pa
                    ELSE IF m \in Map!Simple THEN Map!NONE ELSE Map!FLASH
<1> DEFINE f == Map!Ram(m)
           n == Map!MemoryPages(m)
           pa == Map!SilverLtop(r, b, A, f)
           k == A \div Map!Page
           o == A % Map!Page
           pg == Shown(r, b, o, f)[k + 1]
<1>1. n = f + 8 /\ f \in Nat /\ m \notin Map!Simple
  BY SilverAlike
<1>2. k \in 0..3 /\ Offset(o) /\ A = k * Map!Page + o
  BY AddressParts, Zenon
<1>3. k + 1 \in 1..4
  BY <1>2
<1>4. pa = pg * Map!Page + o
  <2> HIDE DEF k, o
  <2>1. Map!SilverLtop(r, b, k * Map!Page + o, f) = Shown(r, b, o, f)[k + 1] * Map!Page + o
    BY <1>2, SilverAt DEF Mapped
  <2> QED
    BY <1>2, <2>1, Zenon
<1>5. pg \in Nat /\ pg < n
  BY <1>3, ShownExists
<1>6. /\ Map!Ltop(m, r, b, A) = pa /\ Map!Read(m, r, b, A) = pa
      /\ Map!WriteTo(m, r, b, A) = Map!PastFlash(pa, f, 8)
  BY SilverAlike
<1> HIDE DEF f, n, k, o, pg, pa
<1>7. n \in Nat
  BY <1>1
<1>8. /\ pa \in 0 .. n * Map!Page - 1 /\ pa \in Nat
  BY <1>2, <1>4, <1>5, <1>7, InMemory, Zenon
<1>9. /\ ~(pa < f * Map!Page) => pa \in f * Map!Page .. (f + 8) * Map!Page - 1
      /\ pa < f * Map!Page <=> ~(pa >= f * Map!Page)
  <2> DEFINE lo == f * Map!Page
             hi == (f + 8) * Map!Page - 1
  <2>1. lo \in Int /\ hi \in Int
    BY <1>1, PageIs, SMT
  <2>2. pa <= hi
    BY <1>1, <1>2, <1>4, <1>5, PageIs, SMT DEF Offset
  <2> HIDE DEF lo, hi
  <2>3. ~(pa < lo) => pa \in lo .. hi
    BY <1>8, <2>1, <2>2, SMT
  <2>4. pa < lo <=> ~(pa >= lo)
    BY <1>8, <2>1, SMT
  <2> QED
    BY <2>3, <2>4, Zenon DEF lo, hi
<1>10. Map!WriteTo(m, r, b, A) = IF pa >= f * Map!Page THEN pa ELSE Map!FLASH
  BY <1>6, <1>9, Zenon DEF Map!PastFlash, Map!InRam
<1> QED
  BY <1>1, <1>6, <1>8, <1>10, Zenon DEF f, n

\* The TI-81's RAM is the second half of its page 2.
LEMMA SimpleExists ==
    ASSUME NEW r, NEW b, Mapped("x1", r, b), NEW A, Address(A)
    PROVE  LET pa == Map!Ltop("x1", r, b, A)
           IN  /\ pa \in 0 .. Map!MemoryPages("x1") * Map!Page - 1
               /\ Map!Read("x1", r, b, A) = pa
               /\ Map!WriteTo("x1", r, b, A) =
                    IF pa >= Map!Ram("x1") * Map!Page THEN pa
                    ELSE IF "x1" \in Map!Simple THEN Map!NONE ELSE Map!FLASH
<1> DEFINE in == Map!PlainLtop(b, A)
           out == 2 * Map!Page + (in % 8192)
<1>1. Map!Ram("x1") = 2 /\ Map!MemoryPages("x1") = 3 /\ "x1" \in Map!Simple
  BY Sizes DEF Map!Simple
<1>2. in \in Nat /\ in < 3 * Map!Page
  <2> DEFINE k == A \div Map!Page
             o == A % Map!Page
             pg == b[k + 1]
  <2>1. Offset(o) /\ pg \in Nat /\ pg < Map!MemoryPages("x1") /\ in = pg * Map!Page + o
    BY PlainByte
  <2>2. pg < 3
    BY <1>1, <2>1
  <2> HIDE DEF pg, o, in
  <2> QED
    BY <2>1, <2>2, PageIs, SMT DEF Offset
<1>3. /\ Map!Ltop("x1", r, b, A) = IF in >= 2 * Map!Page THEN out ELSE in
      /\ Map!Read("x1", r, b, A) = IF in >= 2 * Map!Page THEN out ELSE in % (2 * Map!Page)
      /\ Map!WriteTo("x1", r, b, A) =
           IF in >= 2 * Map!Page THEN 32768 * ((in \div 32768) % 2) + (in % 8192) ELSE Map!NONE
  BY SMT DEF Map!Ltop, Map!X1Ltop, Map!Read, Map!X1Read, Map!WriteTo, Map!X1Write
<1> HIDE DEF in
<1>4. CASE in >= 2 * Map!Page
  <2>1. out \in Nat /\ out >= 2 * Map!Page /\ out < 3 * Map!Page
    BY <1>2, PageIs, SMT
  <2>2. 32768 * ((in \div 32768) % 2) + (in % 8192) = out
    <3>1. (in \div 32768) % 2 = 1
      BY <1>2, <1>4, PageIs, SMT
    <3>2. 32768 * 1 = 2 * Map!Page
      BY PageIs, SMT
    <3> QED
      BY <3>1, <3>2, SMT
  <2> HIDE DEF out
  <2>3. out \in 0 .. 3 * Map!Page - 1
    <3> DEFINE hi == 3 * Map!Page - 1
    <3>1. hi \in Int /\ out <= hi
      BY <2>1, PageIs, SMT
    <3> HIDE DEF hi
    <3>2. out \in 0 .. hi
      BY <2>1, <3>1, SMT
    <3> QED
      BY <3>2 DEF hi
  <2> QED
    BY <1>1, <1>3, <1>4, <2>1, <2>2, <2>3
<1>5. CASE ~(in >= 2 * Map!Page)
  <2>1. in % (2 * Map!Page) = in
    BY <1>2, <1>5, PageIs, SMT
  <2>2. in \in 0 .. 3 * Map!Page - 1
    <3> DEFINE hi == 3 * Map!Page - 1
    <3>1. hi \in Int /\ in <= hi
      BY <1>2, PageIs, SMT
    <3> HIDE DEF hi
    <3>2. in \in 0 .. hi
      BY <1>2, <3>1, SMT
    <3> QED
      BY <3>2 DEF hi
  <2> QED
    BY <1>1, <1>3, <1>5, <2>1, <2>2
<1> QED
  BY <1>4, <1>5

LEMMA ExistHere ==
    ASSUME model \in Models, Mapped(model, reg, bank)
    PROVE  Map!AddressesExist
<1>1. model \in PlainModels \/ model \in SilverModels \/ model = "x1"
  BY ModelsKnown DEF AllModels, PlainModels, SilverModels
<1>2. CASE model \in PlainModels
  BY <1>2, PlainExists, AddressesAre, Zenon DEF Map!AddressesExist
<1>3. CASE model \in SilverModels
  BY <1>3, SilverExists, AddressesAre, Zenon DEF Map!AddressesExist
<1>4. CASE model = "x1"
  BY <1>4, SimpleExists, AddressesAre, Zenon DEF Map!AddressesExist
<1> QED
  BY <1>1, <1>2, <1>3, <1>4, Zenon

\* The four pages that an offset is found in.
Pages(m, r, b, o) == IF m \in SilverModels THEN Shown(r, b, o, Map!Ram(m)) ELSE b

LEMMA PagesAt ==
    ASSUME NEW m \in PlainModels \cup SilverModels, NEW r, NEW b, Mapped(m, r, b),
           NEW k \in 0..3, NEW o, Offset(o)
    PROVE  /\ Map!Ltop(m, r, b, k * Map!Page + o) = Pages(m, r, b, o)[k + 1] * Map!Page + o
           /\ Pages(m, r, b, o)[k + 1] \in Nat
<1>0. k + 1 \in 1..4
  OBVIOUS
<1>1. CASE m \in SilverModels
  <2>1. Map!Ltop(m, r, b, k * Map!Page + o) = Map!SilverLtop(r, b, k * Map!Page + o, Map!Ram(m))
    BY <1>1, SilverAlike, Zenon
  <2>2. Map!SilverLtop(r, b, k * Map!Page + o, Map!Ram(m))
          = Shown(r, b, o, Map!Ram(m))[k + 1] * Map!Page + o
    BY SilverAt DEF Mapped
  <2>3. Shown(r, b, o, Map!Ram(m))[k + 1] \in Nat
    BY <1>0, <1>1, ShownExists, Zenon
  <2> QED
    BY <1>1, <2>1, <2>2, <2>3, Zenon DEF Pages
<1>2. CASE m \in PlainModels
  <2>1. m \notin SilverModels
    BY <1>2 DEF PlainModels, SilverModels
  <2>2. Map!Ltop(m, r, b, k * Map!Page + o) = Map!PlainLtop(b, k * Map!Page + o)
    BY <1>2, Zenon DEF PlainModels, Map!Ltop, Map!X2Ltop, Map!X3Ltop, Map!X5Ltop, Map!X6Ltop,
       Map!X7Ltop, Map!XpLtop
  <2>3. Map!PlainLtop(b, k * Map!Page + o) = b[k + 1] * Map!Page + o
    BY PlainAt, Zenon
  <2>4. b[k + 1] \in Nat
    BY <1>0 DEF Mapped, BankType
  <2> QED
    BY <2>1, <2>2, <2>3, <2>4, Zenon DEF Pages
<1> QED
  BY <1>1, <1>2, Zenon

LEMMA PagesFound ==
    ASSUME NEW m \in PlainModels \cup SilverModels, NEW r, NEW b, Mapped(m, r, b),
           NEW pg \in Nat, NEW o, Offset(o)
    PROVE  LET q == pg * Map!Page + o
               back == Map!Ptol(m, r, b, q)
           IN  /\ back # Map!NONE <=> \E i \in 1..4 : Pages(m, r, b, o)[i] = pg
               /\ back # Map!NONE => Map!Ltop(m, r, b, back) = q
<1> DEFINE q == pg * Map!Page + o
<1>1. CASE m \in SilverModels
  <2>1. /\ Map!Ptol(m, r, b, q) = Map!SilverPtol(r, b, q, Map!Ram(m))
        /\ \A A : Map!Ltop(m, r, b, A) = Map!SilverLtop(r, b, A, Map!Ram(m))
    BY <1>1, SilverAlike, Zenon
  <2>2. LET back == Map!SilverPtol(r, b, q, Map!Ram(m))
        IN  /\ back # Map!NONE <=> \E i \in 1..4 : Shown(r, b, o, Map!Ram(m))[i] = pg
            /\ back # Map!NONE => Map!SilverLtop(r, b, back, Map!Ram(m)) = q
    BY SilverFinds DEF Mapped
  <2> QED
    BY <1>1, <2>1, <2>2, Zenon DEF Pages
<1>2. CASE m \in PlainModels
  <2>1. m \notin SilverModels
    BY <1>2 DEF PlainModels, SilverModels
  <2>2. /\ Map!Ptol(m, r, b, q) = Map!PlainPtol(b, q)
        /\ \A A : Map!Ltop(m, r, b, A) = Map!PlainLtop(b, A)
    BY <1>2, Zenon DEF PlainModels, Map!Ltop, Map!X2Ltop, Map!X3Ltop, Map!X5Ltop, Map!X6Ltop,
       Map!X7Ltop, Map!XpLtop, Map!Ptol, Map!X2Ptol, Map!X3Ptol, Map!X5Ptol, Map!X6Ptol,
       Map!X7Ptol, Map!XpPtol
  <2>3. LET back == Map!PlainPtol(b, q)
        IN  /\ back # Map!NONE <=> \E i \in 1..4 : b[i] = pg
            /\ back # Map!NONE => Map!PlainLtop(b, back) = q
    BY PlainFinds, Zenon
  <2> QED
    BY <2>1, <2>2, <2>3, Zenon DEF Pages
<1> QED
  BY <1>1, <1>2, Zenon

\* The physical addresses with a given offset name the same page if they are the same.
LEMMA SamePage ==
    ASSUME NEW x \in Nat, NEW y \in Nat, NEW o, Offset(o)
    PROVE  x * Map!Page + o = y * Map!Page + o <=> x = y
BY PageIs, SMT DEF Offset

LEMMA SimplePtol ==
    ASSUME NEW r, NEW b, Mapped("x1", r, b), NEW A, Address(A),
           Map!Ltop("x1", r, b, A) >= 2 * Map!Page
    PROVE  LET pa == Map!Ltop("x1", r, b, A)
               back == Map!Ptol("x1", r, b, pa)
           IN  back # Map!NONE /\ Map!Ltop("x1", r, b, back) = pa
<1> DEFINE in == Map!PlainLtop(b, A)
           pa == Map!Ltop("x1", r, b, A)
           half == in % 8192
           o == 8192 + half
           back == Map!Ptol("x1", r, b, pa)
<1>1. in \in Nat
  <2> DEFINE pg == b[(A \div Map!Page) + 1]
             off == A % Map!Page
  <2>1. Offset(off) /\ pg \in Nat /\ in = pg * Map!Page + off
    BY PlainByte
  <2> HIDE DEF pg, off, in
  <2> QED
    BY <2>1, PageIs, SMT DEF Offset
<1>2. \A B : Map!Ltop("x1", r, b, B) = IF Map!PlainLtop(b, B) >= 2 * Map!Page
                                       THEN 2 * Map!Page + (Map!PlainLtop(b, B) % 8192)
                                       ELSE Map!PlainLtop(b, B)
  BY Zenon DEF Map!Ltop, Map!X1Ltop
<1>3. pa = IF in >= 2 * Map!Page THEN 2 * Map!Page + half ELSE in
  BY <1>2, Zenon
<1>4. back = IF pa >= 2 * Map!Page THEN 57344 + (pa % 8192) ELSE pa
  BY SMT DEF Map!Ptol, Map!X1Ptol
<1>5. half \in 0..8191
  <2> HIDE DEF in
  <2> QED
    BY <1>1
<1> HIDE DEF in, back
<1>6. pa >= 2 * Map!Page
  OBVIOUS
<1> HIDE DEF pa
<1>7. pa = 2 * Map!Page + half
  BY <1>3, <1>6
<1>8. pa % 8192 = half
  <2> HIDE DEF half
  <2> QED
    BY <1>5, <1>7, PageIs, SMT
<1>9. Offset(o)
  <2> HIDE DEF half
  <2> QED
    BY <1>5, PageIs, SMT DEF Offset
<1>10. back = 3 * Map!Page + o /\ back # Map!NONE
  <2> HIDE DEF half
  <2> QED
    BY <1>4, <1>5, <1>6, <1>8, PageIs, SMT DEF Map!NONE
<1>11. Map!PlainLtop(b, back) = 2 * Map!Page + o
  <2>1. Map!PlainLtop(b, 3 * Map!Page + o) = b[3 + 1] * Map!Page + o
    <3>1. 3 \in 0..3
      OBVIOUS
    <3> HIDE DEF o
    <3> QED
      BY <1>9, <3>1, PlainAt
  <2>2. b[3 + 1] = 2
    BY DEF Mapped
  <2> QED
    BY <1>10, <2>1, <2>2
<1>12. (2 * Map!Page + o) % 8192 = half /\ 2 * Map!Page + o >= 2 * Map!Page
  <2> HIDE DEF half
  <2>1. (2 * Map!Page + o) % 8192 = half
    BY <1>5, PageIs, SMT
  <2>2. 2 * Map!Page + o >= 2 * Map!Page
    BY <1>5, PageIs, SMT
  <2> QED
    BY <2>1, <2>2
<1>13. Map!Ltop("x1", r, b, back) = 2 * Map!Page + half
  <2> HIDE DEF o
  <2> QED
    BY <1>2, <1>11, <1>12
<1> QED
  BY <1>7, <1>10, <1>13 DEF pa, back

LEMMA UndoesHere ==
    ASSUME model \in Models, Mapped(model, reg, bank)
    PROVE  Map!PtolUndoesLtop
<1>1. CASE model = "x1"
  <2>1. ASSUME NEW A \in Addresses, Map!Ltop(model, reg, bank, A) >= 2 * Map!Page
        PROVE  LET pa == Map!Ltop(model, reg, bank, A)
                   back == Map!Ptol(model, reg, bank, pa)
               IN  back # Map!NONE /\ Map!Ltop(model, reg, bank, back) = pa
    BY <1>1, <2>1, AddressesAre, SimplePtol, Zenon
  <2> QED
    BY <1>1, <2>1, Zenon DEF Map!PtolUndoesLtop
<1>2. CASE model \in PlainModels \cup SilverModels
  <2>1. ASSUME NEW A \in Addresses
        PROVE  LET pa == Map!Ltop(model, reg, bank, A)
                   back == Map!Ptol(model, reg, bank, pa)
               IN  back # Map!NONE /\ Map!Ltop(model, reg, bank, back) = pa
    <3> DEFINE k == A \div Map!Page
               o == A % Map!Page
               s == Pages(model, reg, bank, o)
               pg == s[k + 1]
               pa == Map!Ltop(model, reg, bank, A)
    <3>1. k \in 0..3 /\ Offset(o) /\ A = k * Map!Page + o
      BY AddressesAre, AddressParts, Zenon
    <3> HIDE DEF k, o
    <3>2. pa = pg * Map!Page + o /\ pg \in Nat
      <4>1. /\ Map!Ltop(model, reg, bank, k * Map!Page + o) = pg * Map!Page + o
            /\ pg \in Nat
        <5> HIDE DEF pa
        <5> QED
          BY <1>2, <3>1, PagesAt
      <4> QED
        BY <3>1, <4>1, Zenon
    <3>3. k + 1 \in 1..4
      BY <3>1
    <3>4. \E i \in 1..4 : s[i] = pg
      BY <3>3, Zenon
    <3> HIDE DEF pa, pg
    <3> QED
      BY <1>2, <3>1, <3>2, <3>4, PagesFound DEF pa
  <2>2. ASSUME NEW A \in Addresses,
               NEW pg \in {0, 1, Map!Ram(model), Map!Ram(model) + 1}
        PROVE  LET q == pg * Map!Page + (A % Map!Page)
               IN  (Map!Ptol(model, reg, bank, q) # Map!NONE)
                     <=> \E L \in {k * Map!Page + (q % Map!Page) : k \in 0..3} :
                            Map!Ltop(model, reg, bank, L) = q
    <3> DEFINE o == A % Map!Page
               q == pg * Map!Page + o
               s == Pages(model, reg, bank, o)
    <3>1. Offset(o)
      BY AddressesAre, AddressParts, Zenon
    <3>2. pg \in Nat
      BY <1>2, Sizes DEF PlainModels, SilverModels
    <3> HIDE DEF o
    <3>3. q % Map!Page = o
      BY <3>1, <3>2, PageParts, Zenon
    <3>4. Map!Ptol(model, reg, bank, q) # Map!NONE <=> \E i \in 1..4 : s[i] = pg
      BY <1>2, <3>1, <3>2, PagesFound
    <3>5. ASSUME NEW k \in 0..3
          PROVE  Map!Ltop(model, reg, bank, k * Map!Page + o) = q <=> s[k + 1] = pg
      <4> HIDE DEF s
      <4>1. s[k + 1] \in Nat /\ Map!Ltop(model, reg, bank, k * Map!Page + o)
                                  = s[k + 1] * Map!Page + o
        BY <1>2, <3>1, PagesAt DEF s
      <4>2. s[k + 1] * Map!Page + o = q <=> s[k + 1] = pg
        BY <3>1, <3>2, <4>1, SamePage
      <4> QED
        BY <4>1, <4>2
    <3> HIDE DEF s, q
    <3>6. (\E i \in 1..4 : s[i] = pg) <=> \E k \in 0..3 : s[k + 1] = pg
      <4>1. ASSUME NEW i \in 1..4, s[i] = pg PROVE \E k \in 0..3 : s[k + 1] = pg
        <5>1. i - 1 \in 0..3 /\ (i - 1) + 1 = i
          OBVIOUS
        <5> QED
          BY <4>1, <5>1
      <4>2. ASSUME NEW k \in 0..3, s[k + 1] = pg PROVE \E i \in 1..4 : s[i] = pg
        <5>1. k + 1 \in 1..4
          OBVIOUS
        <5> QED
          BY <4>2, <5>1
      <4> QED
        BY <4>1, <4>2
    <3>7. (\E L \in {k * Map!Page + (q % Map!Page) : k \in 0..3} :
              Map!Ltop(model, reg, bank, L) = q) <=> \E k \in 0..3 : s[k + 1] = pg
      BY <3>3, <3>5, Zenon
    <3> QED
      BY <3>4, <3>6, <3>7, Zenon DEF q, o
  <2>3. model # "x1"
    BY <1>2 DEF PlainModels, SilverModels
  <2> QED
    BY <2>1, <2>2, <2>3 DEF Map!PtolUndoesLtop
<1> QED
  BY <1>1, <1>2, ModelsKnown DEF AllModels, PlainModels, SilverModels


-----------------------------------------------------------------------------
(* The banks that the ports choose.                                        *)

Byte == 0..255
Regs == [Map!Registers -> Byte]
RegsFit(m, r) == r \in Regs /\ (m = "x3" => r.rom \in {0, 8})

\* Three pages of a memory of n.
Triple(t, n) == \E x, y, z \in Nat : x < n /\ y < n /\ z < n /\ t = <<x, y, z>>

LEMMA PairBounds ==
    ASSUME NEW a \in Nat, NEW n \in Nat, a < n, n % 2 = 0
    PROVE  /\ Map!Even(a) \in Nat /\ Map!Even(a) < n
           /\ Map!Set(a, 0) \in Nat /\ Map!Set(a, 0) < n
<1>1. 2^0 = 1
  OBVIOUS
<1>2. a \div 1 = a
  BY SMT
<1>3. Map!Even(a) \in Nat /\ Map!Even(a) < n
  BY SMT DEF Map!Even
<1>4. Map!Set(a, 0) = IF a % 2 = 1 THEN a ELSE a + 1
  BY <1>1, <1>2 DEF Map!Set, Map!Bit
<1>5. Map!Set(a, 0) \in Nat /\ Map!Set(a, 0) < n
  <2>1. a % 2 = 1 \/ (a % 2 = 0 /\ a + 1 < n)
    BY SMT
  <2> QED
    BY <1>4, <2>1, SMT
<1> QED
  BY <1>3, <1>5

LEMMA PairedFits ==
    ASSUME NEW r, NEW n \in Nat, NEW a \in Nat, NEW s \in Nat, NEW b \in Nat, NEW c \in Nat,
           a < n, s < n, b < n, c < n, n % 2 = 0
    PROVE  Triple(Map!Paired(r, a, s, b, c), n)
<1>1. Map!Even(a) \in Nat /\ Map!Even(a) < n
  BY PairBounds
<1>2. CASE Map!Bit(r.p4, 0)
  BY <1>1, <1>2, Zenon DEF Map!Paired, Triple
<1>3. CASE ~Map!Bit(r.p4, 0)
  BY <1>3, Zenon DEF Map!Paired, Triple
<1> QED
  BY <1>2, <1>3

LEMMA SilverMapFits ==
    ASSUME NEW r \in Regs, NEW ram \in Nat, NEW a \in Nat, NEW b \in Nat,
           a < ram + 8, b < ram + 8, ram % 2 = 0
    PROVE  Triple(Map!SilverMap(r, ram, a, b), ram + 8)
<1> DEFINE n == ram + 8
           pgA == IF Map!Bit(r.p6, 7) THEN ram + (r.p6 % 8) ELSE a
           pgB == IF Map!Bit(r.p7, 7) THEN ram + (r.p7 % 8) ELSE b
           top == ram + (r.p5 % 8)
<1>1. r.p5 \in Nat /\ r.p6 \in Nat /\ r.p7 \in Nat
  BY DEF Regs, Byte, Map!Registers
<1>2. n \in Nat /\ n % 2 = 0
  BY SMT
<1>3. /\ pgA \in Nat /\ pgA < n /\ pgB \in Nat /\ pgB < n /\ top \in Nat /\ top < n
  BY <1>1, SMT
<1>4. Map!SilverMap(r, ram, a, b) = Map!Paired(r, pgA, Map!Set(pgA, 0), pgB, top)
  BY DEF Map!SilverMap
<1> HIDE DEF pgA, pgB, top, n
<1>5. Map!Set(pgA, 0) \in Nat /\ Map!Set(pgA, 0) < n
  BY <1>2, <1>3, PairBounds
<1>6. Triple(Map!Paired(r, pgA, Map!Set(pgA, 0), pgB, top), n)
  BY <1>2, <1>3, <1>5, PairedFits
<1> QED
  BY <1>4, <1>6 DEF n

LEMMA SimpleMapFits ==
    ASSUME NEW r \in Regs
    PROVE  \E x, y \in {0, 1, 2} : Map!X1Map(r) = <<x, y, 2>>
BY DEF Map!X1Map

LEMMA MapFits ==
    ASSUME NEW m \in AllModels \ {"x1"}, NEW r, RegsFit(m, r)
    PROVE  Triple(Map!Mapping(m, r), Map!MemoryPages(m))
<1>0. /\ r.p2 \in Nat /\ r.p5 \in Nat /\ r.p6 \in Nat /\ r.p7 \in Nat /\ r.pE \in Nat
      /\ r.pF \in Nat /\ r \in Regs
  BY DEF RegsFit, Regs, Byte, Map!Registers
<1>1. CASE m = "x2"
  <2> DEFINE a == IF Map!Bit(r.p2, 6) THEN 8 + (r.p2 % 2) ELSE (r.p2 % 8)
             b == IF Map!Bit(r.p2, 7) THEN 8 + ((r.p2 \div 8) % 2) ELSE ((r.p2 \div 8) % 8)
  <2>1. /\ a \in Nat /\ a < 10 /\ b \in Nat /\ b < 10
    BY <1>0, SMT
  <2>2. Map!Mapping(m, r) = Map!Paired(r, a, Map!Set(a, 0), b, 8)
    BY <1>1 DEF Map!Mapping, Map!X2Map
  <2> HIDE DEF a, b
  <2>3. Map!Set(a, 0) \in Nat /\ Map!Set(a, 0) < 10
    BY <2>1, PairBounds
  <2>4. Triple(Map!Paired(r, a, Map!Set(a, 0), b, 8), 10)
    BY <2>1, <2>3, PairedFits
  <2> QED
    BY <1>1, <2>2, <2>4, Sizes
<1>2. CASE m = "x3"
  <2> DEFINE a == IF Map!Bit(r.p2, 6) THEN 16 + (r.p2 % 2) ELSE r.rom + (r.p2 % 8)
             b == IF Map!Bit(r.p2, 7) THEN 16 + ((r.p2 \div 8) % 2)
                                      ELSE r.rom + ((r.p2 \div 8) % 8)
  <2>1. /\ a \in Nat /\ a < 18 /\ b \in Nat /\ b < 18
    <3>1. r.rom \in {0, 8}
      BY <1>2 DEF RegsFit
    <3> QED
      BY <1>0, <3>1, SMT
  <2>2. Map!Mapping(m, r) = Map!Paired(r, a, Map!Set(a, 0), b, 16)
    BY <1>2 DEF Map!Mapping, Map!X3Map
  <2> HIDE DEF a, b
  <2>3. Map!Set(a, 0) \in Nat /\ Map!Set(a, 0) < 18
    BY <2>1, PairBounds
  <2>4. Triple(Map!Paired(r, a, Map!Set(a, 0), b, 16), 18)
    BY <2>1, <2>3, PairedFits
  <2> QED
    BY <1>2, <2>2, <2>4, Sizes
<1>3. CASE m = "x5"
  <2> DEFINE a == IF Map!Bit(r.p5, 6) THEN 8 + (r.p5 % 2) ELSE (r.p5 % 8)
             b == IF Map!Bit(r.p6, 6) THEN 8 + (r.p6 % 2) ELSE (r.p6 % 8)
  <2>1. /\ a \in Nat /\ a < 10 /\ b \in Nat /\ b < 10
    BY <1>0, SMT
  <2>2. Map!Mapping(m, r) = <<a, b, 8>>
    BY <1>3 DEF Map!Mapping, Map!X5Map
  <2> HIDE DEF a, b
  <2>3. Triple(<<a, b, 8>>, 10)
    BY <2>1, SMT DEF Triple
  <2> QED
    BY <1>3, <2>2, <2>3, Sizes
<1>4. CASE m = "x6"
  <2> DEFINE a == IF Map!Bit(r.p5, 6) THEN 16 + (r.p5 % 8) ELSE (r.p5 % 16)
             b == IF Map!Bit(r.p6, 6) THEN 16 + (r.p6 % 8) ELSE (r.p6 % 16)
  <2>1. /\ a \in Nat /\ a < 24 /\ b \in Nat /\ b < 24
    BY <1>0, SMT
  <2>2. Map!Mapping(m, r) = <<a, b, 16>>
    BY <1>4 DEF Map!Mapping, Map!X6Map
  <2> HIDE DEF a, b
  <2>3. Triple(<<a, b, 16>>, 24)
    BY <2>1, SMT DEF Triple
  <2> QED
    BY <1>4, <2>2, <2>3, Sizes
<1>5. CASE m \in {"x7", "xp"}
  <2> DEFINE a == IF Map!Bit(r.p6, 6) THEN 32 + (r.p6 % 2) ELSE (r.p6 % 32)
             b == IF Map!Bit(r.p7, 6) THEN 32 + (r.p7 % 2) ELSE (r.p7 % 32)
  <2>1. /\ a \in Nat /\ a < 34 /\ b \in Nat /\ b < 34
    BY <1>0, SMT
  <2>2. Map!Mapping(m, r) = Map!Paired(r, a, a, b, 32)
    BY <1>5 DEF Map!Mapping, Map!X7Map, Map!XpMap
  <2> HIDE DEF a, b
  <2>4. Triple(Map!Paired(r, a, a, b, 32), 34)
    BY <2>1, PairedFits
  <2> QED
    BY <1>5, <2>2, <2>4, Sizes
<1>6. CASE m \in {"xs", "xz", "xn"}
  <2>1. Map!Mapping(m, r) = Map!SilverMap(r, 128, r.p6 % 128, r.p7 % 128)
    BY <1>6 DEF Map!Mapping, Map!XsMap, Map!XzMap, Map!XnMap
  <2> DEFINE a == r.p6 % 128
             b == r.p7 % 128
  <2>2. a \in Nat /\ b \in Nat /\ a < 136 /\ b < 136
    BY <1>0, SMT
  <2> HIDE DEF a, b
  <2>3. Triple(Map!SilverMap(r, 128, a, b), 128 + 8)
    BY <1>0, <2>2, SilverMapFits
  <2>4. 128 + 8 = Map!MemoryPages(m)
    BY <1>6, Sizes
  <2> QED
    BY <2>1, <2>3, <2>4 DEF a, b
<1>7. CASE m = "x4"
  <2>1. Map!Mapping(m, r) = Map!SilverMap(r, 64, r.p6 % 64, r.p7 % 64)
    BY <1>7 DEF Map!Mapping, Map!X4Map
  <2> DEFINE a == r.p6 % 64
             b == r.p7 % 64
  <2>2. a \in Nat /\ b \in Nat /\ a < 72 /\ b < 72
    BY <1>0, SMT
  <2> HIDE DEF a, b
  <2>3. Triple(Map!SilverMap(r, 64, a, b), 64 + 8)
    BY <1>0, <2>2, SilverMapFits
  <2>4. 64 + 8 = Map!MemoryPages(m)
    BY <1>7, Sizes
  <2> QED
    BY <2>1, <2>3, <2>4 DEF a, b
<1>8. CASE m = "xc"
  <2> DEFINE a == (r.p6 % 128) + 128 * (r.pE % 2)
             b == (r.p7 % 128) + 128 * (r.pF % 2)
  <2>1. Map!Mapping(m, r) = Map!SilverMap(r, 256, a, b)
    BY <1>8 DEF Map!Mapping, Map!XcMap
  <2>2. a \in Nat /\ b \in Nat /\ a < 264 /\ b < 264
    BY <1>0, SMT
  <2> HIDE DEF a, b
  <2>3. Triple(Map!SilverMap(r, 256, a, b), 256 + 8)
    BY <1>0, <2>2, SilverMapFits
  <2>4. 256 + 8 = Map!MemoryPages(m)
    BY <1>8, Sizes
  <2> QED
    BY <2>1, <2>3, <2>4
<1> QED
  BY <1>1, <1>2, <1>3, <1>4, <1>5, <1>6, <1>7, <1>8 DEF AllModels

LEMMA FourPages ==
    ASSUME NEW x \in Nat, NEW y \in Nat, NEW z \in Nat
    PROVE  <<0>> \o <<x, y, z>> = <<0, x, y, z>>
<1> DEFINE p == <<0>>
           q == <<x, y, z>>
           s == <<0, x, y, z>>
<1>1. p \in Seq(Nat) /\ q \in Seq(Nat) /\ s \in Seq(Nat)
  OBVIOUS
<1>2. /\ p \o q \in Seq(Nat) /\ Len(p \o q) = Len(p) + Len(q)
      /\ \A i \in 1..(Len(p) + Len(q)) : (p \o q)[i] = IF i <= Len(p) THEN p[i] ELSE q[i - Len(p)]
  BY <1>1, ConcatProperties
<1>3. Len(p) = 1 /\ Len(q) = 3 /\ Len(s) = 4
  OBVIOUS
<1>4. \A i \in 1..4 : (p \o q)[i] = s[i]
  <2>1. \A i \in 1..1 : (p \o q)[i] = p[i]
    BY <1>2, <1>3
  <2>2. \A i \in 2..4 : (p \o q)[i] = q[i - 1]
    BY <1>2, <1>3
  <2>3. (p \o q)[1] = s[1]
    BY <2>1
  <2>4. (p \o q)[2] = s[2]
    BY <2>2
  <2>5. (p \o q)[3] = s[3]
    BY <2>2
  <2>6. (p \o q)[4] = s[4]
    BY <2>2
  <2> QED
    BY <2>3, <2>4, <2>5, <2>6
<1>5. Len(p) + Len(q) = 4
  BY <1>3
<1>6. p \o q = s
  <2> HIDE DEF p, q, s
  <2> QED
    BY <1>1, <1>2, <1>3, <1>4, <1>5, SeqEqual
<1> QED
  BY <1>6

\* Whatever is in the registers, the banks they make show pages that exist.
LEMMA BanksFit ==
    ASSUME NEW m \in AllModels, NEW r, RegsFit(m, r)
    PROVE  Mapped(m, r, Map!Banks(m, r)) /\ Map!Banks(m, r) \in [1..4 -> 0..511]
<1> DEFINE n == Map!MemoryPages(m)
<1>1. r.p27 \in 0..255 /\ r.p28 \in 0..255
  BY DEF RegsFit, Regs, Byte, Map!Registers
<1>2. n \in 1..264
  BY Sizes DEF AllModels
<1>3. \E x, y, z \in Nat : /\ x < n /\ y < n /\ z < n /\ (m = "x1" => z = 2)
                           /\ Map!Mapping(m, r) = <<x, y, z>>
  <2>1. CASE m = "x1"
    <3>1. n = 3
      BY <2>1, Sizes
    <3>2. \E x, y \in {0, 1, 2} : Map!Mapping(m, r) = <<x, y, 2>>
      BY <2>1, SimpleMapFits DEF RegsFit, Map!Mapping
    <3> QED
      BY <3>1, <3>2
  <2>2. CASE m # "x1"
    BY <2>2, MapFits DEF Triple
  <2> QED
    BY <2>1, <2>2
<1>4. PICK x \in Nat, y \in Nat, z \in Nat :
        /\ x < n /\ y < n /\ z < n /\ (m = "x1" => z = 2)
        /\ Map!Mapping(m, r) = <<x, y, z>>
  BY <1>3
<1>5. <<0>> \o <<x, y, z>> = <<0, x, y, z>>
  BY FourPages
<1>6. Map!Banks(m, r) = <<0, x, y, z>>
  BY <1>4, <1>5 DEF Map!Banks
<1> DEFINE b == <<0, x, y, z>>
<1> HIDE DEF n
<1>7. b \in [1..4 -> 0..511] /\ b \in BankType /\ b[1] = 0 /\ b[4] = z
  <2>1. x \in 0..511 /\ y \in 0..511 /\ z \in 0..511
    BY <1>2, <1>4
  <2> QED
    BY <2>1 DEF BankType
<1>8. \A i \in 1..4 : b[i] < n
  BY <1>2, <1>4
<1> HIDE DEF b
<1> QED
  BY <1>1, <1>4, <1>6, <1>7, <1>8 DEF Mapped, n, b


-----------------------------------------------------------------------------
(* Resets and writes to the ports keep the map one of pages that exist.    *)

MapInv ==
    /\ model \in Models
    /\ RegsFit(model, reg)
    /\ bank \in [1..4 -> 0..511]
    /\ Mapped(model, reg, bank)
    /\ Map!BanksFollowRegisters

\* The banks of a reset do not depend on the registers.
LEMMA ResetAlways ==
    ASSUME NEW m \in AllModels, NEW r, NEW s
    PROVE  Map!ResetOf(m, r).bank = Map!ResetOf(m, s).bank
BY DEF AllModels, Map!ResetOf, Map!X1Reset, Map!X2Reset, Map!X3Reset, Map!X5Reset, Map!X6Reset,
       Map!X7Reset, Map!XpReset, Map!XsReset, Map!XzReset, Map!XnReset, Map!X4Reset, Map!XcReset,
       Map!SilverReset

LEMMA ResetBanks ==
    ASSUME NEW m \in AllModels, NEW r
    PROVE  LET b == Map!ResetOf(m, r).bank
           IN  /\ b \in [1..4 -> 0..511] /\ b[1] = 0 /\ (m = "x1" => b[4] = 2)
               /\ \A i \in 1..4 : b[i] \in Nat /\ b[i] < Map!MemoryPages(m)
<1> DEFINE b == Map!ResetOf(m, r).bank
<1>2. CASE m = "x1"
  <2>1. b = <<0, 1, 0, 2>> /\ Map!MemoryPages(m) = 3
    BY <1>2, Sizes DEF Map!ResetOf, Map!X1Reset
  <2> HIDE DEF b
  <2>2. b \in [1..4 -> 0..511]
    BY <2>1
  <2>3. b[1] = 0 /\ b[2] = 1 /\ b[3] = 0 /\ b[4] = 2
    BY <2>1
  <2>4. /\ b \in [1..4 -> 0..511] /\ b[1] = 0 /\ (m = "x1" => b[4] = 2)
        /\ \A i \in 1..4 : b[i] \in Nat /\ b[i] < Map!MemoryPages(m)
    BY <2>1, <2>2, <2>3, <1>2
  <2> QED
    BY <2>4 DEF b
<1>3. CASE m = "x2"
  <2>1. b = <<0, 0, 9, 8>> /\ Map!MemoryPages(m) = 10 /\ m # "x1"
    BY <1>3, Sizes DEF Map!ResetOf, Map!X2Reset
  <2> HIDE DEF b
  <2>2. b \in [1..4 -> 0..511]
    BY <2>1
  <2>3. b[1] = 0 /\ b[2] = 0 /\ b[3] = 9 /\ b[4] = 8
    BY <2>1
  <2>4. /\ b \in [1..4 -> 0..511] /\ b[1] = 0 /\ (m = "x1" => b[4] = 2)
        /\ \A i \in 1..4 : b[i] \in Nat /\ b[i] < Map!MemoryPages(m)
    BY <2>1, <2>2, <2>3
  <2> QED
    BY <2>4 DEF b
<1>4. CASE m = "x3"
  <2>1. b = <<0, 0, 17, 16>> /\ Map!MemoryPages(m) = 18 /\ m # "x1"
    BY <1>4, Sizes DEF Map!ResetOf, Map!X3Reset
  <2> HIDE DEF b
  <2>2. b \in [1..4 -> 0..511]
    BY <2>1
  <2>3. b[1] = 0 /\ b[2] = 0 /\ b[3] = 17 /\ b[4] = 16
    BY <2>1
  <2>4. /\ b \in [1..4 -> 0..511] /\ b[1] = 0 /\ (m = "x1" => b[4] = 2)
        /\ \A i \in 1..4 : b[i] \in Nat /\ b[i] < Map!MemoryPages(m)
    BY <2>1, <2>2, <2>3
  <2> QED
    BY <2>4 DEF b
<1>5. CASE m = "x5"
  <2>1. b = <<0, 0, 8, 8>> /\ Map!MemoryPages(m) = 10 /\ m # "x1"
    BY <1>5, Sizes DEF Map!ResetOf, Map!X5Reset
  <2> HIDE DEF b
  <2>2. b \in [1..4 -> 0..511]
    BY <2>1
  <2>3. b[1] = 0 /\ b[2] = 0 /\ b[3] = 8 /\ b[4] = 8
    BY <2>1
  <2>4. /\ b \in [1..4 -> 0..511] /\ b[1] = 0 /\ (m = "x1" => b[4] = 2)
        /\ \A i \in 1..4 : b[i] \in Nat /\ b[i] < Map!MemoryPages(m)
    BY <2>1, <2>2, <2>3
  <2> QED
    BY <2>4 DEF b
<1>6. CASE m = "x6"
  <2>1. b = <<0, 0, 0, 16>> /\ Map!MemoryPages(m) = 24 /\ m # "x1"
    BY <1>6, Sizes DEF Map!ResetOf, Map!X6Reset
  <2> HIDE DEF b
  <2>2. b \in [1..4 -> 0..511]
    BY <2>1
  <2>3. b[1] = 0 /\ b[2] = 0 /\ b[3] = 0 /\ b[4] = 16
    BY <2>1
  <2>4. /\ b \in [1..4 -> 0..511] /\ b[1] = 0 /\ (m = "x1" => b[4] = 2)
        /\ \A i \in 1..4 : b[i] \in Nat /\ b[i] < Map!MemoryPages(m)
    BY <2>1, <2>2, <2>3
  <2> QED
    BY <2>4 DEF b
<1>7. CASE m \in {"x7", "xp"}
  <2>1. b = <<0, 30, 31, 31>> /\ Map!MemoryPages(m) = 34 /\ m # "x1"
    BY <1>7, Sizes DEF Map!ResetOf, Map!X7Reset, Map!XpReset
  <2> HIDE DEF b
  <2>2. b \in [1..4 -> 0..511]
    BY <2>1
  <2>3. b[1] = 0 /\ b[2] = 30 /\ b[3] = 31 /\ b[4] = 31
    BY <2>1
  <2>4. /\ b \in [1..4 -> 0..511] /\ b[1] = 0 /\ (m = "x1" => b[4] = 2)
        /\ \A i \in 1..4 : b[i] \in Nat /\ b[i] < Map!MemoryPages(m)
    BY <2>1, <2>2, <2>3
  <2> QED
    BY <2>4 DEF b
<1>8. CASE m \in {"xs", "xz", "xn"}
  <2>1. b = <<0, 127 - 1, 127, 127>> /\ Map!MemoryPages(m) = 136 /\ m # "x1"
    BY <1>8, Sizes DEF Map!ResetOf, Map!XsReset, Map!XzReset, Map!XnReset, Map!SilverReset
  <2> HIDE DEF b
  <2>2. b \in [1..4 -> 0..511]
    BY <2>1
  <2>3. b[1] = 0 /\ b[2] = 127 - 1 /\ b[3] = 127 /\ b[4] = 127
    BY <2>1
  <2>4. /\ b \in [1..4 -> 0..511] /\ b[1] = 0 /\ (m = "x1" => b[4] = 2)
        /\ \A i \in 1..4 : b[i] \in Nat /\ b[i] < Map!MemoryPages(m)
    BY <2>1, <2>2, <2>3
  <2> QED
    BY <2>4 DEF b
<1>9. CASE m = "x4"
  <2>1. b = <<0, 63 - 1, 63, 63>> /\ Map!MemoryPages(m) = 72 /\ m # "x1"
    BY <1>9, Sizes DEF Map!ResetOf, Map!X4Reset, Map!SilverReset
  <2> HIDE DEF b
  <2>2. b \in [1..4 -> 0..511]
    BY <2>1
  <2>3. b[1] = 0 /\ b[2] = 63 - 1 /\ b[3] = 63 /\ b[4] = 63
    BY <2>1
  <2>4. /\ b \in [1..4 -> 0..511] /\ b[1] = 0 /\ (m = "x1" => b[4] = 2)
        /\ \A i \in 1..4 : b[i] \in Nat /\ b[i] < Map!MemoryPages(m)
    BY <2>1, <2>2, <2>3
  <2> QED
    BY <2>4 DEF b
<1>10. CASE m = "xc"
  <2>1. b = <<0, 255 - 1, 255, 255>> /\ Map!MemoryPages(m) = 264 /\ m # "x1"
    BY <1>10, Sizes DEF Map!ResetOf, Map!XcReset, Map!SilverReset
  <2> HIDE DEF b
  <2>2. b \in [1..4 -> 0..511]
    BY <2>1
  <2>3. b[1] = 0 /\ b[2] = 255 - 1 /\ b[3] = 255 /\ b[4] = 255
    BY <2>1
  <2>4. /\ b \in [1..4 -> 0..511] /\ b[1] = 0 /\ (m = "x1" => b[4] = 2)
        /\ \A i \in 1..4 : b[i] \in Nat /\ b[i] < Map!MemoryPages(m)
    BY <2>1, <2>2, <2>3
  <2> QED
    BY <2>4 DEF b
<1> QED
  BY <1>2, <1>3, <1>4, <1>5, <1>6, <1>7, <1>8, <1>9, <1>10 DEF AllModels

LEMMA RegSet ==
    ASSUME NEW r \in Regs, NEW v \in Byte
    PROVE  /\ [r EXCEPT !.p2 = v] \in Regs /\ [r EXCEPT !.p4 = v] \in Regs
           /\ [r EXCEPT !.p5 = v] \in Regs /\ [r EXCEPT !.p6 = v] \in Regs
           /\ [r EXCEPT !.p7 = v] \in Regs /\ [r EXCEPT !.pE = v] \in Regs
           /\ [r EXCEPT !.pF = v] \in Regs /\ [r EXCEPT !.rom = v] \in Regs
           /\ [r EXCEPT !.hw = v] \in Regs
           /\ [r EXCEPT !["p27"] = v] \in Regs /\ [r EXCEPT !["p28"] = v] \in Regs
BY DEF Regs, Map!Registers

LEMMA ResetRegs ==
    ASSUME NEW m \in AllModels, NEW r, RegsFit(m, r)
    PROVE  RegsFit(m, Map!ResetOf(m, r).reg)
<1> DEFINE e == Map!ResetOf(m, r).reg
<1>1. r \in Regs
  BY DEF RegsFit
<1>0. /\ 0 \in Byte /\ 1 \in Byte /\ 7 \in Byte /\ 31 \in Byte /\ 63 \in Byte /\ 64 \in Byte
      /\ 119 \in Byte /\ 127 \in Byte /\ 248 \in Byte
  BY DEF Byte
<1>2. CASE m = "x1"
  <2>1. e = [r EXCEPT !.p2 = 0, !.p5 = 0, !.p6 = 0]
    BY <1>2 DEF Map!ResetOf, Map!X1Reset
  <2> HIDE DEF e
  <2>2. e \in Regs
    BY <1>0, <1>1, <1>2, <2>1 DEF RegsFit, Regs, Map!Registers
  <2>3. RegsFit(m, e)
    BY <1>0, <1>1, <1>2, <2>1 DEF RegsFit, Regs, Map!Registers
  <2> QED
    BY <2>3 DEF e
<1>3. CASE m = "x2"
  <2>1. e = [r EXCEPT !.p2 = 248, !.p4 = 0]
    BY <1>3 DEF Map!ResetOf, Map!X2Reset
  <2> HIDE DEF e
  <2>2. e \in Regs
    BY <1>0, <1>1, <1>3, <2>1 DEF RegsFit, Regs, Map!Registers
  <2>3. RegsFit(m, e)
    BY <1>0, <1>1, <1>3, <2>1 DEF RegsFit, Regs, Map!Registers
  <2> QED
    BY <2>3 DEF e
<1>4. CASE m = "x3"
  <2>1. e = [r EXCEPT !.p2 = 248, !.p4 = 0, !.rom = 0]
    BY <1>4 DEF Map!ResetOf, Map!X3Reset
  <2> HIDE DEF e
  <2>2. e \in Regs
    BY <1>0, <1>1, <1>4, <2>1 DEF RegsFit, Regs, Map!Registers
  <2>3. RegsFit(m, e)
    BY <1>0, <1>1, <1>4, <2>1 DEF RegsFit, Regs, Map!Registers
  <2> QED
    BY <2>3 DEF e
<1>5. CASE m = "x5"
  <2>1. e = [r EXCEPT !.p5 = 0, !.p6 = 64]
    BY <1>5 DEF Map!ResetOf, Map!X5Reset
  <2> HIDE DEF e
  <2>2. e \in Regs
    BY <1>0, <1>1, <1>5, <2>1 DEF RegsFit, Regs, Map!Registers
  <2>3. RegsFit(m, e)
    BY <1>0, <1>1, <1>5, <2>1 DEF RegsFit, Regs, Map!Registers
  <2> QED
    BY <2>3 DEF e
<1>6. CASE m = "x6"
  <2>1. e = [r EXCEPT !.p5 = 0, !.p6 = 0]
    BY <1>6 DEF Map!ResetOf, Map!X6Reset
  <2> HIDE DEF e
  <2>2. e \in Regs
    BY <1>0, <1>1, <1>6, <2>1 DEF RegsFit, Regs, Map!Registers
  <2>3. RegsFit(m, e)
    BY <1>0, <1>1, <1>6, <2>1 DEF RegsFit, Regs, Map!Registers
  <2> QED
    BY <2>3 DEF e
<1>7. CASE m = "x7"
  <2>1. e = [r EXCEPT !.p4 = 119, !.p6 = 31, !.p7 = 31]
    BY <1>7 DEF Map!ResetOf, Map!X7Reset
  <2> HIDE DEF e
  <2>2. e \in Regs
    BY <1>0, <1>1, <1>7, <2>1 DEF RegsFit, Regs, Map!Registers
  <2>3. RegsFit(m, e)
    BY <1>0, <1>1, <1>7, <2>1 DEF RegsFit, Regs, Map!Registers
  <2> QED
    BY <2>3 DEF e
<1>8. CASE m = "xp"
  <2>1. e = [r EXCEPT !.p4 = 119, !.p5 = 0, !.p6 = 31, !.p7 = 31]
    BY <1>8 DEF Map!ResetOf, Map!XpReset
  <2> HIDE DEF e
  <2>2. e \in Regs
    BY <1>0, <1>1, <1>8, <2>1 DEF RegsFit, Regs, Map!Registers
  <2>3. RegsFit(m, e)
    BY <1>0, <1>1, <1>8, <2>1 DEF RegsFit, Regs, Map!Registers
  <2> QED
    BY <2>3 DEF e
<1>9. CASE m \in {"xs", "xz", "xn", "x4"}
  <2>1. \E p4, last \in Byte :
          e = [r EXCEPT !.p4 = p4, !.p6 = last, !.p7 = last, !.p27 = 0, !.p28 = 0]
    <3> QED
      BY <1>0, <1>9
      DEF Map!ResetOf, Map!XsReset, Map!XzReset, Map!XnReset, Map!X4Reset, Map!SilverReset
  <2> HIDE DEF e
  <2>2. PICK p4 \in Byte, last \in Byte :
          e = [r EXCEPT !.p4 = p4, !.p6 = last, !.p7 = last, !.p27 = 0, !.p28 = 0]
    BY <2>1
  <2>3. e \in Regs
    BY <1>0, <1>1, <2>2 DEF Regs, Map!Registers
  <2> QED
    BY <1>9, <2>3 DEF RegsFit, e
<1>10. CASE m = "xc"
  <2> DEFINE d == [r EXCEPT !.pE = 1, !.pF = 1]
  <2>1. e = [d EXCEPT !.p4 = 7, !.p6 = 127, !.p7 = 127, !.p27 = 0, !.p28 = 0]
    BY <1>10 DEF Map!ResetOf, Map!XcReset, Map!SilverReset
  <2>2. d \in Regs
    BY <1>0, <1>1 DEF Regs, Map!Registers
  <2> HIDE DEF d, e
  <2>3. e \in Regs
    BY <1>0, <2>1, <2>2 DEF Regs, Map!Registers
  <2> QED
    BY <1>10, <2>3 DEF RegsFit, e
<1> QED
  BY <1>2, <1>3, <1>4, <1>5, <1>6, <1>7, <1>8, <1>9, <1>10 DEF AllModels


\* A write to a port puts a byte into a register.
LEMMA OutRegs ==
    ASSUME NEW m \in AllModels, NEW r, RegsFit(m, r), NEW p \in Map!PagingPorts(m),
           NEW v \in Byte, NEW inRom \in BOOLEAN
    PROVE  RegsFit(m, Map!Out(m, r, p, v, inRom))
<1> DEFINE e == Map!Out(m, r, p, v, inRom)
<1>0. /\ r \in Regs
      /\ 0 \in Byte /\ 1 \in Byte /\ 2 \in Byte /\ 8 \in Byte /\ v % 128 \in Byte /\ v % 16 \in Byte
  BY DEF RegsFit, Byte
<1>1. \A x \in Byte :
        /\ [r EXCEPT !.p2 = x] \in Regs /\ [r EXCEPT !.p4 = x] \in Regs
        /\ [r EXCEPT !.p5 = x] \in Regs /\ [r EXCEPT !.p6 = x] \in Regs
        /\ [r EXCEPT !.p7 = x] \in Regs /\ [r EXCEPT !.pE = x] \in Regs
        /\ [r EXCEPT !.pF = x] \in Regs /\ [r EXCEPT !.rom = x] \in Regs
        /\ [r EXCEPT !.hw = x] \in Regs
  BY <1>0, RegSet
<1>2. CASE m = "x1"
  <2> DEFINE d == Map!X1Detect(r, p, inRom)
  <2>1. d \in Regs
    BY <1>0, <1>1 DEF Map!X1Detect
  <2>2. e \in {d, [d EXCEPT !.p2 = v], [d EXCEPT !.p5 = v], [d EXCEPT !.p6 = v]}
    BY <1>2 DEF Map!Out, Map!X1Out
  <2> HIDE DEF d, e
  <2>3. e \in Regs
    BY <2>1, <2>2, RegSet
  <2> QED
    BY <1>2, <2>3 DEF RegsFit, e
<1>3. CASE m = "x2"
  <2> DEFINE w == IF inRom THEN (IF Map!Bit(v, 4) THEN 1 ELSE 2) ELSE r.hw
             d == [r EXCEPT !.p4 = v]
  <2>1. p \in {2, 4}
    BY <1>3 DEF Map!PagingPorts, Map!Plus
  <2>2. w \in Byte
    BY <1>0 DEF Regs, Map!Registers
  <2>3. e = [r EXCEPT !.p2 = v] \/ e = [r EXCEPT !.p4 = v, !.hw = w]
    BY <1>3, <2>1 DEF Map!Out, Map!X2Out
  <2> HIDE DEF w, e
  <2>4. e \in Regs
    BY <1>0, <2>2, <2>3 DEF Regs, Map!Registers
  <2> QED
    BY <1>3, <2>4 DEF RegsFit, e
<1>4. CASE m = "x3"
  <2> DEFINE w == IF Map!Bit(v, 4) THEN 8 ELSE 0
  <2>1. p \in {0, 2, 4}
    BY <1>4 DEF Map!PagingPorts, Map!Plus
  <2>2. w \in {0, 8} /\ r.rom \in {0, 8}
    BY <1>4 DEF RegsFit
  <2>3. e \in {[r EXCEPT !.rom = w], [r EXCEPT !.p2 = v], [r EXCEPT !.p4 = v]}
    BY <1>4, <2>1 DEF Map!Out, Map!X3Out
  <2> HIDE DEF w, e
  <2>4. e \in Regs
    BY <1>0, <1>1, <2>2, <2>3
  <2>5. e.rom \in {0, 8}
    BY <1>0, <2>2, <2>3 DEF Regs, Map!Registers
  <2> QED
    BY <2>4, <2>5 DEF RegsFit, e
<1>5. CASE m \in {"x5", "x6"}
  <2>1. e \in {[r EXCEPT !.p5 = v], [r EXCEPT !.p6 = v]}
    BY <1>5 DEF Map!Out, Map!X5Out, Map!X6Out
  <2> HIDE DEF e
  <2>2. e \in Regs
    BY <1>0, <1>1, <2>1
  <2> QED
    BY <1>5, <2>2 DEF RegsFit, e
<1>6. CASE m \in {"x7", "xp"}
  <2> DEFINE w == v % 128
  <2>1. p \in {4, 6, 7}
    BY <1>6 DEF Map!PagingPorts, Map!Plus
  <2>2. e \in {[r EXCEPT !.p4 = v], [r EXCEPT !.p6 = w], [r EXCEPT !.p7 = w]}
    BY <1>6, <2>1 DEF Map!Out, Map!X7Out, Map!XpOut
  <2>3. w \in Byte
    BY <1>0
  <2> HIDE DEF w, e
  <2>4. e \in Regs
    BY <1>0, <1>1, <2>2, <2>3
  <2> QED
    BY <1>6, <2>4 DEF RegsFit, e
<1>7. CASE m \in {"xs", "xz", "xn", "x4", "xc"}
  <2> DEFINE w == v % 16
  <2>1. p \in {4, 5, 6, 7} \/ (m = "xc" /\ p \in {14, 15})
    BY <1>7 DEF Map!PagingPorts, Map!Plus
  <2>2. e \in {[r EXCEPT !.p4 = v], [r EXCEPT !.p5 = w], [r EXCEPT !.p6 = v], [r EXCEPT !.p7 = v],
               [r EXCEPT !.pE = v], [r EXCEPT !.pF = v]}
    BY <1>7, <2>1 DEF Map!Out, Map!XsOut, Map!XzOut, Map!XnOut, Map!X4Out, Map!XcOut
  <2>3. w \in Byte
    BY <1>0
  <2> HIDE DEF w, e
  <2>4. e \in Regs
    BY <1>0, <1>1, <2>2, <2>3
  <2> QED
    BY <1>7, <2>4 DEF RegsFit, e
<1> QED
  BY <1>2, <1>3, <1>4, <1>5, <1>6, <1>7 DEF AllModels

\* A port that the TI-81 does not decode changes nothing, unless it tells the hardware.
LEMMA Undecoded ==
    ASSUME NEW r, NEW p, NEW v, NEW inRom, r \in Regs,
           LET e == Map!X1Out(r, p, v, inRom)
           IN  e.hw = r.hw /\ (IF e.hw = 1 THEN p % 8 ELSE p) \notin {2, 5, 6}
    PROVE  Map!X1Out(r, p, v, inRom) = r
<1> DEFINE d == Map!X1Detect(r, p, inRom)
           q == IF d.hw = 1 THEN p % 8 ELSE p
           e == Map!X1Out(r, p, v, inRom)
<1>1. e = IF q = 2 THEN [d EXCEPT !.p2 = v] ELSE IF q = 5 THEN [d EXCEPT !.p5 = v]
          ELSE IF q = 6 THEN [d EXCEPT !.p6 = v] ELSE d
  BY SMT DEF Map!X1Out
<1>2. d = r \/ (r.hw = 0 /\ d = [r EXCEPT !.hw = 1]) \/ (r.hw = 0 /\ d = [r EXCEPT !.hw = 2])
  BY DEF Map!X1Detect
<1>3. DOMAIN r = Map!Registers /\ "hw" \in Map!Registers
  BY DEF Regs, Map!Registers
<1> HIDE DEF d, e
<1>4. e.hw = d.hw
  BY <1>1, <1>2, <1>3
<1>5. q \notin {2, 5, 6}
  BY <1>4 DEF e
<1>6. e = d
  BY <1>1, <1>5
<1>7. d.hw = r.hw
  BY <1>4 DEF e
<1>8. d = r
  BY <1>2, <1>3, <1>7
<1> QED
  BY <1>6, <1>8 DEF e

\* Ports 27 and 28 do not choose banks.
LEMMA LimitBanks ==
    ASSUME NEW m \in SilverModels, NEW r \in Regs, NEW p \in {"p27", "p28"}, NEW v
    PROVE  Map!Banks(m, [r EXCEPT ![p] = v]) = Map!Banks(m, r)
<1> DEFINE e == [r EXCEPT ![p] = v]
<1>1. e.p4 = r.p4 /\ e.p5 = r.p5 /\ e.p6 = r.p6 /\ e.p7 = r.p7 /\ e.pE = r.pE /\ e.pF = r.pF
  BY DEF Regs, Map!Registers
<1> HIDE DEF e
<1>2. Map!Mapping(m, e) = Map!Mapping(m, r)
  <2>1. \A ram, a, b : Map!SilverMap(e, ram, a, b) = Map!SilverMap(r, ram, a, b)
    BY <1>1 DEF Map!SilverMap, Map!Paired
  <2>2. CASE m \in {"xs", "xz", "xn"}
    BY <1>1, <2>1, <2>2 DEF Map!Mapping, Map!XsMap, Map!XzMap, Map!XnMap
  <2>3. CASE m = "x4"
    BY <1>1, <2>1, <2>3 DEF Map!Mapping, Map!X4Map
  <2>4. CASE m = "xc"
    BY <1>1, <2>1, <2>4 DEF Map!Mapping, Map!XcMap
  <2> QED
    BY <2>2, <2>3, <2>4 DEF SilverModels
<1> QED
  BY <1>2 DEF Map!Banks, e


LEMMA MapReached ==
    ASSUME model \in Models, NEW r, NEW b, RegsFit(model, r),
           b = Map!Banks(model, r) \/ b = Map!ResetOf(model, r).bank
    PROVE  b \in [1..4 -> 0..511] /\ Mapped(model, r, b)
<1>1. model \in AllModels
  BY ModelsKnown
<1>2. r.p27 \in 0..255 /\ r.p28 \in 0..255
  BY DEF RegsFit, Regs, Byte, Map!Registers
<1>3. CASE b = Map!Banks(model, r)
  BY <1>1, <1>3, BanksFit, Zenon
<1>4. CASE b = Map!ResetOf(model, r).bank
  <2>1. /\ b \in [1..4 -> 0..511] /\ b[1] = 0 /\ (model = "x1" => b[4] = 2)
        /\ \A i \in 1..4 : b[i] \in Nat /\ b[i] < Map!MemoryPages(model)
    BY <1>1, <1>4, ResetBanks, Zenon
  <2>2. b \in BankType
    BY <2>1 DEF BankType
  <2> QED
    BY <1>2, <2>1, <2>2 DEF Mapped
<1> QED
  BY <1>3, <1>4

LEMMA MapStart ==
    ASSUME model \in Models, Map!MapInit
    PROVE  MapInv
<1> DEFINE z == [k \in Map!Registers |-> 0]
           s == Map!ResetOf(model, z)
<1>1. reg = s.reg /\ bank = s.bank
  BY DEF Map!MapInit
<1>2. RegsFit(model, z)
  BY DEF RegsFit, Regs, Byte, Map!Registers
<1> HIDE DEF z
<1>3. model \in AllModels
  BY ModelsKnown
<1>4. RegsFit(model, reg)
  BY <1>1, <1>2, <1>3, ResetRegs
<1>5. bank = Map!ResetOf(model, reg).bank
  BY <1>1, <1>3, ResetAlways
<1>6. bank \in [1..4 -> 0..511] /\ Mapped(model, reg, bank)
  BY <1>4, <1>5, MapReached
<1> QED
  BY <1>4, <1>5, <1>6 DEF MapInv, Map!BanksFollowRegisters

LEMMA MapStep ==
    ASSUME MapInv, Map!MapNext, model' = model
    PROVE  MapInv'
<1>1. model \in Models /\ model \in AllModels /\ RegsFit(model, reg)
  BY ModelsKnown DEF MapInv
<1>2. ASSUME RegsFit(model, reg'),
             bank' = Map!Banks(model, reg') \/ bank' = Map!ResetOf(model, reg').bank
      PROVE  MapInv'
  <2>1. bank' \in [1..4 -> 0..511] /\ Mapped(model, reg', bank')
    BY <1>1, <1>2, MapReached
  <2>2. model' \in Models' /\ Models' = Models
    BY <1>1 DEF Models, hwmodels
  <2>3. Map!BanksFollowRegisters'
    BY <1>2 DEF Map!BanksFollowRegisters
  <2> QED
    BY <1>1, <1>2, <2>1, <2>3 DEF MapInv, RegsFit, Mapped
<1>3. ASSUME NEW p, NEW v \in Byte, NEW inRom \in BOOLEAN, Map!OutPaging(p, v, inRom)
      PROVE  MapInv'
  <2>1. p \in Map!PagingPorts(model) /\ reg' = Map!Out(model, reg, p, v, inRom)
    BY <1>3 DEF Map!OutPaging
  <2>2. RegsFit(model, reg')
    BY <1>1, <2>1, OutRegs
  <2>3. CASE bank' = Map!Banks(model, reg')
    BY <1>2, <2>2, <2>3
  <2>4. CASE bank' # Map!Banks(model, reg')
    <3>1. bank' = bank /\ ~Map!Decoded(p, reg') /\ reg'.hw = reg.hw
      BY <1>3, <2>4 DEF Map!OutPaging
    <3>2. model = "x1" /\ (IF reg'.hw = 1 THEN p % 8 ELSE p) \notin {2, 5, 6}
      BY <3>1 DEF Map!Decoded
    <3>3. reg' = Map!X1Out(reg, p, v, inRom)
      BY <2>1, <3>2 DEF Map!Out
    <3>4. reg' = reg
      BY <1>1, <3>1, <3>2, <3>3, Undecoded DEF RegsFit
    <3>5. bank' = Map!Banks(model, reg') \/ bank' = Map!ResetOf(model, reg').bank
      BY <3>1, <3>4 DEF MapInv, Map!BanksFollowRegisters
    <3> QED
      BY <1>2, <2>2, <3>5
  <2> QED
    BY <2>3, <2>4
<1>4. ASSUME NEW p \in {"p27", "p28"}, NEW v \in Byte, Map!OutLimit(p, v)
      PROVE  MapInv'
  <2>1. model \in SilverModels /\ reg' = [reg EXCEPT ![p] = v] /\ bank' = bank
    BY <1>4 DEF Map!OutLimit, Map!Silver, SilverModels
  <2>2. reg \in Regs
    BY <1>1 DEF RegsFit
  <2>3. reg' \in Regs
    BY <2>1, <2>2 DEF Regs, Map!Registers
  <2>4. RegsFit(model, reg')
    BY <2>1, <2>3 DEF RegsFit, SilverModels
  <2>5. Map!Banks(model, reg') = Map!Banks(model, reg)
    BY <2>1, <2>2, LimitBanks
  <2>6. Map!ResetOf(model, reg').bank = Map!ResetOf(model, reg).bank
    BY <1>1, ResetAlways
  <2>7. bank' = Map!Banks(model, reg') \/ bank' = Map!ResetOf(model, reg').bank
    BY <2>1, <2>5, <2>6 DEF MapInv, Map!BanksFollowRegisters
  <2> QED
    BY <1>2, <2>4, <2>7
<1>5. ASSUME Map!MapReset PROVE MapInv'
  <2>1. reg' = Map!ResetOf(model, reg).reg /\ bank' = Map!ResetOf(model, reg).bank
    BY <1>5 DEF Map!MapReset
  <2>2. RegsFit(model, reg')
    BY <1>1, <2>1, ResetRegs
  <2>3. bank' = Map!ResetOf(model, reg').bank
    BY <1>1, <2>1, ResetAlways
  <2> QED
    BY <1>2, <2>2, <2>3
<1>6. PageValues \subseteq Byte /\ SelectValues \subseteq Byte /\ LimitValues \subseteq Byte
  BY ByteAssumption DEF ByteAssumption, Byte
<1> QED
  BY <1>3, <1>4, <1>5, <1>6 DEF Map!MapNext

-----------------------------------------------------------------------------
(* The parts of PortsSound together.                                       *)

PortsInv ==
    /\ part = "map" => MapInv
    /\ part = "protection" => model \in Models \ Simple /\ ProtInv /\ Kept(limit)
    /\ part = "delays" => DelayInv

LEMMA PortsStart == Init => PortsInv
<1> SUFFICES ASSUME Init PROVE PortsInv
  OBVIOUS
<1>1. model \in Models /\ Map!MapInit /\ Prot!ProtInit /\ Delay!DelayInit
  BY ModelStays DEF Init
<1>2. /\ part = "protection" => model \in Models \ Simple
      /\ part = "delays" => model \in Delay!Silver
  BY DEF Init, ModelsOf, Silver, Delay!Silver
<1>3. MapInv
  BY <1>1, MapStart
<1>4. part = "protection" => ProtInv /\ Kept(limit)
  BY <1>1, <1>2, ProtStart, LimitsStart
<1>5. part = "delays" => DelayInv
  BY <1>1, <1>2, DelayStart
<1> QED
  BY <1>2, <1>3, <1>4, <1>5 DEF PortsInv

LEMMA PortsStep == PortsInv /\ [Next]_vars => PortsInv'
<1> SUFFICES ASSUME PortsInv, [Next]_vars PROVE PortsInv'
  OBVIOUS
<1>0. part' = part /\ model' = model
  BY ModelStays DEF vars
<1>1. part = "map" => (Map!MapNext \/ UNCHANGED <<reg, bank>>)
  BY DEF Next, Only, vars
<1>2. part = "protection" => (Prot!ProtNext \/ UNCHANGED <<protect, unlock, limit, matched>>)
  BY DEF Next, Only, vars
<1>3. part = "delays" => (Delay!DelayNext \/ UNCHANGED <<dport, delays, speed, wait>>)
  BY DEF Next, Only, vars
<1>4. part = "map" => MapInv'
  <2>1. ASSUME MapInv, UNCHANGED <<reg, bank>>
        PROVE  MapInv'
    <3>1. RegsFit(model, reg)' /\ Mapped(model, reg, bank)'
      BY <1>0, <2>1 DEF MapInv, RegsFit, Mapped
    <3>2. model' \in Models'
      BY <1>0, <2>1 DEF MapInv, Models, hwmodels
    <3>3. Map!BanksFollowRegisters'
      BY <1>0, <2>1 DEF MapInv, Map!BanksFollowRegisters
    <3>4. bank' \in [1..4 -> 0..511]
      BY <2>1 DEF MapInv
    <3> QED
      BY <3>1, <3>2, <3>3, <3>4, Zenon DEF MapInv
  <2> QED
    BY <1>0, <1>1, <2>1, MapStep DEF PortsInv
<1>5. part = "protection" => (model \in Models \ Simple)' /\ ProtInv' /\ Kept(limit)'
  <2> SUFFICES ASSUME part = "protection"
               PROVE  (model \in Models \ Simple)' /\ ProtInv' /\ Kept(limit)'
    OBVIOUS
  <2>1. model \in Models \ Simple /\ ProtInv /\ Kept(limit)
    BY DEF PortsInv
  <2>2. (model \in Models \ Simple)'
    BY <1>0, <2>1 DEF Models, hwmodels, Simple
  <2>3. ProtInv'
    BY <1>2, <2>1, ProtStep DEF ProtInv
  <2>4. Kept(limit')
    BY <1>2, <2>1, LimitsStep
  <2>5. Kept(limit)'
    BY <1>0, <2>4 DEF Kept, Follow, SilverFollow, Silver
  <2> QED
    BY <2>2, <2>3, <2>5
<1>6. part = "delays" => DelayInv'
  <2>1. ASSUME DelayInv, UNCHANGED <<dport, delays, speed, wait>>
        PROVE  DelayInv'
    <3>1. Delay!DelaysOf(dport)' = Delay!DelaysOf(dport)
      BY <1>0, <2>1 DEF Delay!DelaysOf
    <3> QED
      BY <1>0, <2>1, <3>1 DEF DelayInv, Delay!DelaysFollowPorts, Delay!Silver, Delay!DelayPortNames
  <2> QED
    BY <1>0, <1>3, <2>1, DelayStep DEF PortsInv
<1> QED
  BY <1>0, <1>4, <1>5, <1>6 DEF PortsInv

\* Whatever bytes the program writes to the paging ports, in whichever order and with
\* resets in between: every address leads to a byte of the memory, the debugger's two
\* translations undo each other, the banks are those of the registers; and the limits
\* and delays that are computed from ports are those of the ports' last values.
THEOREM PortsCorrect == Spec => []PortsSound
<1>1. PortsInv => PortsSound
  <2> SUFFICES ASSUME PortsInv PROVE PortsSound
    OBVIOUS
  <2>1. part = "map" => /\ Map!MapTypeOK /\ Map!AddressesExist /\ Map!PtolUndoesLtop
                        /\ Map!BanksFollowRegisters
    <3> SUFFICES ASSUME MapInv
                 PROVE  /\ Map!MapTypeOK /\ Map!AddressesExist /\ Map!PtolUndoesLtop
                        /\ Map!BanksFollowRegisters
      BY DEF PortsInv
    <3>1. model \in Models /\ Mapped(model, reg, bank)
      BY DEF MapInv
    <3>2. Map!AddressesExist /\ Map!PtolUndoesLtop
      BY <3>1, ExistHere, UndoesHere
    <3> QED
      BY <3>2 DEF MapInv, Map!MapTypeOK, RegsFit, Regs, Byte
  <2>2. part = "protection" => Prot!ProtTypeOK /\ Prot!LimitsFollowPorts
    BY LimitsAre DEF PortsInv, ProtInv, Kept, Prot!ProtTypeOK
  <2>3. part = "delays" => Delay!DelaysFollowPorts
    BY DEF PortsInv, DelayInv
  <2> QED
    BY <2>1, <2>2, <2>3 DEF PortsSound
<1> QED
  BY <1>1, PortsStart, PortsStep, PTL DEF Spec


-----------------------------------------------------------------------------
(* The user timers.                                                        *)

LEMMA Powers == 2^0 = 1 /\ 2^1 = 2 /\ 2^2 = 4 /\ 2^3 = 8 /\ 2^4 = 16 /\ 2^5 = 32 /\ 2^6 = 64 /\ 2^7 = 128
OBVIOUS

\* The ticks of the eight divisors of the crystal, in microseconds and parts of them.
Crystals == {<<91, 18112>>, <<1007, 2624>>, <<10009, 25088>>, <<100006, 3392>>,
             <<30, 16960>>, <<488, 9216>>, <<7812, 16384>>, <<125000, 0>>}
Multiples == {1, 2, 4, 8, 16, 32, 64}
CrystalTicks(t, n) == t[1] * n + (t[2] * n + 16384) \div 32768

\* A frequency counts nothing, clocks, or ticks of the crystal.
LEMMA DurationIs ==
    ASSUME NEW f \in 0..255
    PROVE  \/ f < 64 /\ \A n : User!Duration(f, n) = 0
           \/ f >= 64 /\ \E m \in Multiples : \A n : User!Duration(f, n) = m * n
           \/ f >= 64 /\ \E t \in Crystals : \A n : User!Duration(f, n) = CrystalTicks(t, n)
<1>1. User!UBit(f, 7) <=> f >= 128
  BY Powers, SMT DEF User!UBit
<1>2. f < 128 => (User!UBit(f, 6) <=> f >= 64)
  BY Powers, SMT DEF User!UBit
<1>3. User!Multiplier(f) \in Multiples
  BY Zenon DEF User!Multiplier, Multiples
<1>4. User!Crystal(f % 8) \in Crystals
  <2>1. f % 8 \in 0..7
    OBVIOUS
  <2> QED
    BY <2>1 DEF User!Crystal, Crystals
<1>5. CASE f < 64
  <2>1. ~User!UBit(f, 7) /\ ~User!UBit(f, 6)
    BY <1>1, <1>2, <1>5
  <2> QED
    BY <1>5, <2>1, SMT DEF User!Duration
<1>6. CASE f >= 128
  <2>1. \A n : User!Duration(f, n) = User!Multiplier(f) * n
    BY <1>1, <1>6, SMT DEF User!Duration
  <2>2. f >= 64
    BY <1>6
  <2> QED
    BY <1>3, <2>1, <2>2, Zenon
<1>7. CASE f >= 64 /\ ~(f >= 128)
  <2>1. ~User!UBit(f, 7) /\ User!UBit(f, 6)
    BY <1>1, <1>2, <1>7
  <2>2. \A n : User!Duration(f, n) = CrystalTicks(User!Crystal(f % 8), n)
    BY <2>1, SMT DEF User!Duration, CrystalTicks
  <2> QED
    BY <1>4, <1>7, <2>2, Zenon
<1>8. f < 64 \/ f >= 128 \/ (f >= 64 /\ ~(f >= 128))
  OBVIOUS
<1> QED
  BY <1>5, <1>6, <1>7, <1>8, Zenon

LEMMA DurationCounts ==
    ASSUME NEW f \in 0..255, NEW n \in 1..256
    PROVE  /\ User!Duration(f, n) \in Nat
           /\ f >= 64 <=> User!Duration(f, n) # 0
<1>1. \A m \in Multiples : m * n \in Nat /\ m * n # 0
  <2>1. \A m \in Multiples : m * n \in Nat
    BY DEF Multiples
  <2>2. \A m \in Multiples : m * n # 0
    BY DEF Multiples
  <2> QED
    BY <2>1, <2>2
<1>2. \A t \in Crystals : CrystalTicks(t, n) \in Nat /\ CrystalTicks(t, n) # 0
  <2> SUFFICES ASSUME NEW t \in Crystals
               PROVE  CrystalTicks(t, n) \in Nat /\ CrystalTicks(t, n) # 0
    OBVIOUS
  <2> DEFINE a == t[1]
             b == t[2]
  <2>1. a \in Nat /\ a # 0 /\ b \in Nat
    BY DEF Crystals
  <2> HIDE DEF a, b
  <2>2. a * n \in Nat /\ a * n # 0 /\ b * n + 16384 \in Nat
    BY <2>1
  <2> DEFINE c == b * n + 16384
             e == a * n
  <2> HIDE DEF c, e
  <2>3. e + (c \div 32768) \in Nat /\ e + (c \div 32768) # 0
    BY <2>2, SMT DEF c, e
  <2> QED
    BY <2>3 DEF CrystalTicks, a, b, c, e
<1> QED
  BY <1>1, <1>2, DurationIs

Samples == {1, 2, 127, 128, 200, 254, 255}
Agrees(p, d, v) ==
    /\ User!Scaled(d, p) % 256 \in {v - 1, v}
    /\ User!Scaled(d \div 2, p) % 256 \in {v \div 2 - 1, v \div 2, v \div 2 + 1}

LEMMA ClocksAgree ==
    ASSUME NEW m \in Multiples, NEW v \in Samples
    PROVE  Agrees(m * 256, m * v, v)
<1>1. CASE m = 1
  BY <1>1 DEF Agrees, User!Scaled, Samples
<1>2. CASE m = 2
  BY <1>2 DEF Agrees, User!Scaled, Samples
<1>3. CASE m = 4
  BY <1>3 DEF Agrees, User!Scaled, Samples
<1>4. CASE m = 8
  BY <1>4 DEF Agrees, User!Scaled, Samples
<1>5. CASE m = 16
  BY <1>5 DEF Agrees, User!Scaled, Samples
<1>6. CASE m = 32
  BY <1>6 DEF Agrees, User!Scaled, Samples
<1>7. CASE m = 64
  BY <1>7 DEF Agrees, User!Scaled, Samples
<1> QED
  BY <1>1, <1>2, <1>3, <1>4, <1>5, <1>6, <1>7 DEF Multiples

LEMMA CrystalAgrees ==
    ASSUME NEW t \in Crystals, NEW v \in Samples
    PROVE  Agrees(CrystalTicks(t, 256), CrystalTicks(t, v), v)
<1>1. CASE t = <<91, 18112>>
  <2>1. CrystalTicks(t, 256) = 23438
    BY <1>1 DEF CrystalTicks
  <2>2. CASE v = 1
    BY <1>1, <2>1, <2>2 DEF CrystalTicks, Agrees, User!Scaled
  <2>3. CASE v = 2
    BY <1>1, <2>1, <2>3 DEF CrystalTicks, Agrees, User!Scaled
  <2>4. CASE v = 127
    BY <1>1, <2>1, <2>4 DEF CrystalTicks, Agrees, User!Scaled
  <2>5. CASE v = 128
    BY <1>1, <2>1, <2>5 DEF CrystalTicks, Agrees, User!Scaled
  <2>6. CASE v = 200
    BY <1>1, <2>1, <2>6 DEF CrystalTicks, Agrees, User!Scaled
  <2>7. CASE v = 254
    BY <1>1, <2>1, <2>7 DEF CrystalTicks, Agrees, User!Scaled
  <2>8. CASE v = 255
    BY <1>1, <2>1, <2>8 DEF CrystalTicks, Agrees, User!Scaled
  <2> QED
    BY <2>2, <2>3, <2>4, <2>5, <2>6, <2>7, <2>8 DEF Samples
<1>2. CASE t = <<1007, 2624>>
  <2>1. CrystalTicks(t, 256) = 257813
    BY <1>2 DEF CrystalTicks
  <2>2. CASE v = 1
    BY <1>2, <2>1, <2>2 DEF CrystalTicks, Agrees, User!Scaled
  <2>3. CASE v = 2
    BY <1>2, <2>1, <2>3 DEF CrystalTicks, Agrees, User!Scaled
  <2>4. CASE v = 127
    BY <1>2, <2>1, <2>4 DEF CrystalTicks, Agrees, User!Scaled
  <2>5. CASE v = 128
    BY <1>2, <2>1, <2>5 DEF CrystalTicks, Agrees, User!Scaled
  <2>6. CASE v = 200
    BY <1>2, <2>1, <2>6 DEF CrystalTicks, Agrees, User!Scaled
  <2>7. CASE v = 254
    BY <1>2, <2>1, <2>7 DEF CrystalTicks, Agrees, User!Scaled
  <2>8. CASE v = 255
    BY <1>2, <2>1, <2>8 DEF CrystalTicks, Agrees, User!Scaled
  <2> QED
    BY <2>2, <2>3, <2>4, <2>5, <2>6, <2>7, <2>8 DEF Samples
<1>3. CASE t = <<10009, 25088>>
  <2>1. CrystalTicks(t, 256) = 2562500
    BY <1>3 DEF CrystalTicks
  <2>2. CASE v = 1
    BY <1>3, <2>1, <2>2 DEF CrystalTicks, Agrees, User!Scaled
  <2>3. CASE v = 2
    BY <1>3, <2>1, <2>3 DEF CrystalTicks, Agrees, User!Scaled
  <2>4. CASE v = 127
    BY <1>3, <2>1, <2>4 DEF CrystalTicks, Agrees, User!Scaled
  <2>5. CASE v = 128
    BY <1>3, <2>1, <2>5 DEF CrystalTicks, Agrees, User!Scaled
  <2>6. CASE v = 200
    BY <1>3, <2>1, <2>6 DEF CrystalTicks, Agrees, User!Scaled
  <2>7. CASE v = 254
    BY <1>3, <2>1, <2>7 DEF CrystalTicks, Agrees, User!Scaled
  <2>8. CASE v = 255
    BY <1>3, <2>1, <2>8 DEF CrystalTicks, Agrees, User!Scaled
  <2> QED
    BY <2>2, <2>3, <2>4, <2>5, <2>6, <2>7, <2>8 DEF Samples
<1>4. CASE t = <<100006, 3392>>
  <2>1. CrystalTicks(t, 256) = 25601563
    BY <1>4 DEF CrystalTicks
  <2>2. CASE v = 1
    BY <1>4, <2>1, <2>2 DEF CrystalTicks, Agrees, User!Scaled
  <2>3. CASE v = 2
    BY <1>4, <2>1, <2>3 DEF CrystalTicks, Agrees, User!Scaled
  <2>4. CASE v = 127
    BY <1>4, <2>1, <2>4 DEF CrystalTicks, Agrees, User!Scaled
  <2>5. CASE v = 128
    BY <1>4, <2>1, <2>5 DEF CrystalTicks, Agrees, User!Scaled
  <2>6. CASE v = 200
    BY <1>4, <2>1, <2>6 DEF CrystalTicks, Agrees, User!Scaled
  <2>7. CASE v = 254
    BY <1>4, <2>1, <2>7 DEF CrystalTicks, Agrees, User!Scaled
  <2>8. CASE v = 255
    BY <1>4, <2>1, <2>8 DEF CrystalTicks, Agrees, User!Scaled
  <2> QED
    BY <2>2, <2>3, <2>4, <2>5, <2>6, <2>7, <2>8 DEF Samples
<1>5. CASE t = <<30, 16960>>
  <2>1. CrystalTicks(t, 256) = 7813
    BY <1>5 DEF CrystalTicks
  <2>2. CASE v = 1
    BY <1>5, <2>1, <2>2 DEF CrystalTicks, Agrees, User!Scaled
  <2>3. CASE v = 2
    BY <1>5, <2>1, <2>3 DEF CrystalTicks, Agrees, User!Scaled
  <2>4. CASE v = 127
    BY <1>5, <2>1, <2>4 DEF CrystalTicks, Agrees, User!Scaled
  <2>5. CASE v = 128
    BY <1>5, <2>1, <2>5 DEF CrystalTicks, Agrees, User!Scaled
  <2>6. CASE v = 200
    BY <1>5, <2>1, <2>6 DEF CrystalTicks, Agrees, User!Scaled
  <2>7. CASE v = 254
    BY <1>5, <2>1, <2>7 DEF CrystalTicks, Agrees, User!Scaled
  <2>8. CASE v = 255
    BY <1>5, <2>1, <2>8 DEF CrystalTicks, Agrees, User!Scaled
  <2> QED
    BY <2>2, <2>3, <2>4, <2>5, <2>6, <2>7, <2>8 DEF Samples
<1>6. CASE t = <<488, 9216>>
  <2>1. CrystalTicks(t, 256) = 125000
    BY <1>6 DEF CrystalTicks
  <2>2. CASE v = 1
    BY <1>6, <2>1, <2>2 DEF CrystalTicks, Agrees, User!Scaled
  <2>3. CASE v = 2
    BY <1>6, <2>1, <2>3 DEF CrystalTicks, Agrees, User!Scaled
  <2>4. CASE v = 127
    BY <1>6, <2>1, <2>4 DEF CrystalTicks, Agrees, User!Scaled
  <2>5. CASE v = 128
    BY <1>6, <2>1, <2>5 DEF CrystalTicks, Agrees, User!Scaled
  <2>6. CASE v = 200
    BY <1>6, <2>1, <2>6 DEF CrystalTicks, Agrees, User!Scaled
  <2>7. CASE v = 254
    BY <1>6, <2>1, <2>7 DEF CrystalTicks, Agrees, User!Scaled
  <2>8. CASE v = 255
    BY <1>6, <2>1, <2>8 DEF CrystalTicks, Agrees, User!Scaled
  <2> QED
    BY <2>2, <2>3, <2>4, <2>5, <2>6, <2>7, <2>8 DEF Samples
<1>7. CASE t = <<7812, 16384>>
  <2>1. CrystalTicks(t, 256) = 2000000
    BY <1>7 DEF CrystalTicks
  <2>2. CASE v = 1
    BY <1>7, <2>1, <2>2 DEF CrystalTicks, Agrees, User!Scaled
  <2>3. CASE v = 2
    BY <1>7, <2>1, <2>3 DEF CrystalTicks, Agrees, User!Scaled
  <2>4. CASE v = 127
    BY <1>7, <2>1, <2>4 DEF CrystalTicks, Agrees, User!Scaled
  <2>5. CASE v = 128
    BY <1>7, <2>1, <2>5 DEF CrystalTicks, Agrees, User!Scaled
  <2>6. CASE v = 200
    BY <1>7, <2>1, <2>6 DEF CrystalTicks, Agrees, User!Scaled
  <2>7. CASE v = 254
    BY <1>7, <2>1, <2>7 DEF CrystalTicks, Agrees, User!Scaled
  <2>8. CASE v = 255
    BY <1>7, <2>1, <2>8 DEF CrystalTicks, Agrees, User!Scaled
  <2> QED
    BY <2>2, <2>3, <2>4, <2>5, <2>6, <2>7, <2>8 DEF Samples
<1>8. CASE t = <<125000, 0>>
  <2>1. CrystalTicks(t, 256) = 32000000
    BY <1>8 DEF CrystalTicks
  <2>2. CASE v = 1
    BY <1>8, <2>1, <2>2 DEF CrystalTicks, Agrees, User!Scaled
  <2>3. CASE v = 2
    BY <1>8, <2>1, <2>3 DEF CrystalTicks, Agrees, User!Scaled
  <2>4. CASE v = 127
    BY <1>8, <2>1, <2>4 DEF CrystalTicks, Agrees, User!Scaled
  <2>5. CASE v = 128
    BY <1>8, <2>1, <2>5 DEF CrystalTicks, Agrees, User!Scaled
  <2>6. CASE v = 200
    BY <1>8, <2>1, <2>6 DEF CrystalTicks, Agrees, User!Scaled
  <2>7. CASE v = 254
    BY <1>8, <2>1, <2>7 DEF CrystalTicks, Agrees, User!Scaled
  <2>8. CASE v = 255
    BY <1>8, <2>1, <2>8 DEF CrystalTicks, Agrees, User!Scaled
  <2> QED
    BY <2>2, <2>3, <2>4, <2>5, <2>6, <2>7, <2>8 DEF Samples
<1> QED
  BY <1>1, <1>2, <1>3, <1>4, <1>5, <1>6, <1>7, <1>8 DEF Crystals

LEMMA CounterHolds ==
    ASSUME utimer.frequency \in 0..255
    PROVE  User!CounterAgrees
<1> DEFINE f == utimer.frequency
<1> SUFFICES ASSUME f >= 64, NEW v \in Samples
             PROVE  Agrees(User!Duration(f, 256), User!Duration(f, v), v)
  BY Zenon DEF User!CounterAgrees, Agrees, User!Counted, Samples
<1> HIDE DEF f
<1>1. f \in 0..255
  BY DEF f
<1> QED
  BY <1>1, DurationIs, ClocksAgree, CrystalAgrees

UserType ==
    [loopvalue : 0..255, frequency : 0..255, loop : BOOLEAN, int : BOOLEAN,
     overflow : BOOLEAN, finished : BOOLEAN, nohalt : BOOLEAN]
UserInv ==
    /\ utimer \in UserType
    /\ left \in [running : BOOLEAN, count : Int, period : Nat] /\ left.count >= -2
    /\ left.running => utimer.frequency >= 64
    /\ uint \in BOOLEAN
    /\ User!PeriodFollowsFlags

\* The value that a program reads is a byte.
LEMMA ValueIsByte ==
    ASSUME UserInv, NEW v \in User!ValueOf(utimer, left)
    PROVE  v \in 0..255
<1>1. utimer.frequency \in 0..255 /\ utimer.loopvalue \in 0..255 /\ left.count \in Int
  BY DEF UserInv, UserType
<1>2. CASE v = utimer.loopvalue
  BY <1>1, <1>2
<1>3. CASE v \in Values
  BY <1>3, ByteAssumption DEF ByteAssumption
<1>4. CASE left.running /\ v = User!Counted(utimer.frequency, left.count)
  <2> DEFINE p == User!Duration(utimer.frequency, 256)
             a == left.count * 16
             h == a \div p
             r == a % p
             q == (16 * r) \div p
  <2>1. utimer.frequency >= 64
    BY <1>4 DEF UserInv
  <2>2. p \in Nat /\ p > 0
    <3>1. 256 \in 1..256
      OBVIOUS
    <3> DEFINE f == utimer.frequency
    <3>2. f \in 0..255
      BY <1>1
    <3> HIDE DEF f
    <3>3. User!Duration(f, 256) \in Nat /\ (f >= 64 <=> User!Duration(f, 256) # 0)
      BY <3>1, <3>2, DurationCounts
    <3> QED
      BY <2>1, <3>3 DEF f
  <2>3. a \in Int
    BY <1>1
  <2> HIDE DEF p, a
  <2>4. h \in Int
    BY <2>2, <2>3
  <2>5. r \in Int
    BY <2>2, <2>3
  <2> HIDE DEF h, r
  <2>6. q \in Int
    <3> DEFINE e == 16 * r
    <3>1. e \in Int
      BY <2>5
    <3> HIDE DEF e
    <3>2. e \div p \in Int
      BY <2>2, <3>1
    <3> QED
      BY <3>2 DEF e
  <2> HIDE DEF q
  <2>7. (16 * h + q) % 256 \in 0..255
    BY <2>4, <2>6
  <2>8. v = (16 * h + q) % 256
    BY <1>4 DEF User!Counted, User!Scaled, h, q, r, a, p
  <2> QED
    BY <2>7, <2>8
<1> QED
  BY <1>2, <1>3, <1>4 DEF User!ValueOf

LEMMA Cleared ==
    /\ User!Clear \in UserType
    /\ User!Clear.overflow = FALSE
    /\ User!STOPPED \in [running : BOOLEAN, count : Int, period : Nat]
    /\ User!STOPPED.count >= -2 /\ User!STOPPED.running = FALSE
<1>1. User!Clear \in UserType
  BY DEF User!Clear, UserType
<1>2. User!Clear.overflow = FALSE
  BY DEF User!Clear
<1>3. User!STOPPED \in [running : BOOLEAN, count : Int, period : Nat]
  BY DEF User!STOPPED
<1>4. User!STOPPED.count >= -2 /\ User!STOPPED.running = FALSE
  BY DEF User!STOPPED
<1> QED
  BY <1>1, <1>2, <1>3, <1>4

LEMMA UserStart == User!UtInit => UserInv
BY Cleared DEF User!UtInit, UserInv, User!PeriodFollowsFlags

\* The ticks a timer counts, by its flags.
LEMMA NormalTicks ==
    ASSUME NEW t \in UserType
    PROVE  /\ User!NormalDuration(t) \in Nat /\ User!OverflowDuration(t) \in Nat
           /\ t.frequency >= 64 <=> User!NormalDuration(t) # 0
           /\ t.loopvalue = 0 => User!NormalDuration(t) = User!OverflowDuration(t)
<1>1. /\ t.frequency \in 0..255
      /\ (IF t.loopvalue # 0 THEN t.loopvalue ELSE 256) \in 1..256 /\ 256 \in 1..256
  BY DEF UserType
<1>2. /\ User!Duration(t.frequency, 256) \in Nat
      /\ User!Duration(t.frequency, IF t.loopvalue # 0 THEN t.loopvalue ELSE 256) \in Nat
      /\ t.frequency >= 64
           <=> User!Duration(t.frequency, IF t.loopvalue # 0 THEN t.loopvalue ELSE 256) # 0
  <2> DEFINE f == t.frequency
             n == IF t.loopvalue # 0 THEN t.loopvalue ELSE 256
  <2>1. f \in 0..255 /\ n \in 1..256 /\ 256 \in 1..256
    BY <1>1
  <2> HIDE DEF f, n
  <2>2. User!Duration(f, n) \in Nat /\ (f >= 64 <=> User!Duration(f, n) # 0)
    BY <2>1, DurationCounts
  <2>3. User!Duration(f, 256) \in Nat
    BY <2>1, DurationCounts
  <2> QED
    BY <2>2, <2>3 DEF f, n
<1> QED
  BY <1>2 DEF User!NormalDuration, User!OverflowDuration

LEMMA UserStep ==
    ASSUME UserInv, User!UtNext
    PROVE  UserInv'
<1>0. /\ utimer \in UserType /\ uint \in BOOLEAN
      /\ left \in [running : BOOLEAN, count : Int, period : Nat] /\ left.count >= -2
      /\ left.running => utimer.frequency >= 64
  BY DEF UserInv
<1>1. ASSUME NEW f \in Frequencies, User!SetFrequency(f)
      PROVE  UserInv'
  <2>1. f \in 0..255
    BY ByteAssumption DEF ByteAssumption
  <2>2. PICK v \in User!ValueOf(utimer, left) :
             utimer' = [utimer EXCEPT !.loopvalue = v, !.frequency = f]
    BY <1>1 DEF User!SetFrequency
  <2>3. v \in 0..255
    BY ValueIsByte
  <2>4. left' = [running |-> FALSE, count |-> 0, period |-> 0] /\ uint' = uint
    BY <1>1 DEF User!SetFrequency, User!STOPPED
  <2>5. utimer' \in UserType
    BY <1>0, <2>1, <2>2, <2>3 DEF UserType
  <2>6. utimer'.overflow = utimer.overflow /\ utimer'.finished = utimer.finished
        /\ utimer'.int = utimer.int
    BY <1>0, <2>2 DEF UserType
  <2>7. User!PeriodFollowsFlags'
    BY <2>4, <2>6 DEF UserInv, User!PeriodFollowsFlags
  <2> QED
    BY <1>0, <2>4, <2>5, <2>7 DEF UserInv
<1>2. ASSUME NEW loop \in BOOLEAN, NEW int \in BOOLEAN, User!SetMode(loop, int)
      PROVE  UserInv'
  <2> DEFINE p == IF loop \/ utimer.loopvalue = 0 THEN User!NormalDuration(utimer) ELSE 0
  <2>1. /\ utimer' = [utimer EXCEPT !.loop = loop, !.int = int, !.overflow = FALSE,
                                    !.finished = FALSE]
        /\ uint' = FALSE /\ left' = [left EXCEPT !.period = p]
    BY <1>2 DEF User!SetMode
  <2>2. utimer' \in UserType
    <3> DEFINE e == [utimer EXCEPT !.loop = loop, !.int = int]
    <3>1. e \in UserType
      BY <1>0 DEF UserType
    <3> DEFINE d == [e EXCEPT !.overflow = FALSE]
    <3>2. utimer' = [d EXCEPT !.finished = FALSE]
      BY <1>0, <2>1
    <3> HIDE DEF e
    <3>3. d \in UserType
      BY <3>1 DEF UserType
    <3> HIDE DEF d
    <3> QED
      BY <3>2, <3>3 DEF UserType
  <2>3. /\ utimer'.loopvalue = utimer.loopvalue /\ utimer'.frequency = utimer.frequency
        /\ utimer'.loop = loop /\ utimer'.overflow = FALSE /\ utimer'.finished = FALSE
    BY <1>0, <2>1 DEF UserType
  <2>4. /\ User!NormalDuration(utimer)' = User!NormalDuration(utimer)
        /\ User!OverflowDuration(utimer)' = User!OverflowDuration(utimer)
    BY <2>3 DEF User!NormalDuration, User!OverflowDuration
  <2>5. p \in Nat
    BY <1>0, NormalTicks
  <2>6. p = IF utimer.loopvalue = 0 THEN User!OverflowDuration(utimer)
            ELSE IF loop THEN User!NormalDuration(utimer) ELSE 0
    BY <1>0, NormalTicks
  <2> HIDE DEF p
  <2>7. /\ left'.running = left.running /\ left'.count = left.count /\ left'.period = p
        /\ left' \in [running : BOOLEAN, count : Int, period : Nat]
    BY <1>0, <2>1, <2>5
  <2>8. User!PeriodFollowsFlags'
    BY <2>1, <2>3, <2>4, <2>6, <2>7 DEF User!PeriodFollowsFlags
  <2> QED
    BY <1>0, <2>1, <2>2, <2>3, <2>7, <2>8 DEF UserInv
<1>3. ASSUME NEW v \in Values, User!Start(v)
      PROVE  UserInv'
  <2> DEFINE t == [utimer EXCEPT !.loopvalue = v]
             n == User!NormalDuration(t)
             p == IF v = 0 \/ t.finished THEN User!OverflowDuration(t) ELSE IF t.loop THEN n ELSE 0
  <2>1. utimer' = t /\ uint' = uint
        /\ left' = IF n = 0 THEN left ELSE [running |-> TRUE, count |-> n, period |-> p]
    BY <1>3 DEF User!Start
  <2>2. v \in 0..255
    BY ByteAssumption DEF ByteAssumption
  <2>3. /\ t \in UserType /\ t.loopvalue = v /\ t.frequency = utimer.frequency
        /\ t.finished = utimer.finished /\ t.overflow = utimer.overflow /\ t.int = utimer.int
    BY <1>0, <2>2 DEF UserType
  <2> HIDE DEF t
  <2>4. n \in Nat /\ User!OverflowDuration(t) \in Nat /\ (t.frequency >= 64 <=> n # 0)
    BY <2>3, NormalTicks
  <2>5. p \in Nat
    BY <2>4
  <2> HIDE DEF n
  <2>6. /\ utimer'.overflow => utimer'.finished
        /\ uint' => utimer'.finished /\ utimer'.int
    BY <2>1, <2>3 DEF UserInv, User!PeriodFollowsFlags
  <2>7. User!NormalDuration(utimer)' = n
        /\ User!OverflowDuration(utimer)' = User!OverflowDuration(t)
    BY <2>1 DEF n, User!NormalDuration, User!OverflowDuration
  <2>8. CASE n = 0
    <3>1. ~left.running /\ left' = left
      BY <1>0, <2>1, <2>3, <2>4, <2>8
    <3> QED
      BY <1>0, <2>1, <2>3, <2>6, <3>1 DEF UserInv, User!PeriodFollowsFlags
  <2>9. CASE n # 0
    <3> HIDE DEF p
    <3>1. /\ left'.running /\ left'.count = n /\ left'.period = p
          /\ left' \in [running : BOOLEAN, count : Int, period : Nat]
      BY <2>1, <2>4, <2>5, <2>9
    <3>2. User!PeriodFollowsFlags'
      BY <2>1, <2>3, <2>6, <2>7, <3>1 DEF User!PeriodFollowsFlags, p
    <3> QED
      BY <1>0, <2>1, <2>3, <2>4, <2>9, <3>1, <3>2 DEF UserInv
  <2> QED
    BY <2>8, <2>9
<1>4. ASSUME User!Expire
      PROVE  UserInv'
  <2> DEFINE again == IF left.period = 0 THEN [left EXCEPT !.running = FALSE, !.count = 0]
                      ELSE [left EXCEPT !.count = left.period + left.count]
             o == User!OverflowDuration(utimer)
  <2>1. /\ again \in [running : BOOLEAN, count : Int, period : Nat] /\ again.count >= -2
        /\ again.running => left.running
        /\ again.period = left.period
    <3>1. CASE left.period = 0
      <4>1. again = [left EXCEPT !.running = FALSE, !.count = 0]
        BY <3>1
      <4> HIDE DEF again
      <4>2. again \in [running : BOOLEAN, count : Int, period : Nat]
        <5> DEFINE d == [left EXCEPT !.running = FALSE]
        <5>1. d \in [running : BOOLEAN, count : Int, period : Nat]
          BY <1>0
        <5>2. again = [d EXCEPT !.count = 0]
          BY <1>0, <4>1
        <5> HIDE DEF d
        <5> QED
          BY <5>1, <5>2
      <4>3. again.running = FALSE /\ again.count = 0 /\ again.period = left.period
        BY <1>0, <4>1
      <4> QED
        BY <4>2, <4>3
    <3>2. CASE left.period # 0
      <4> DEFINE c == left.period + left.count
      <4>1. again = [left EXCEPT !.count = c]
        BY <3>2
      <4>2. c \in Int /\ c >= -2
        BY <1>0, <3>2
      <4> HIDE DEF again, c
      <4> QED
        BY <1>0, <4>1, <4>2
    <3> QED
      BY <3>1, <3>2
  <2>2. left.running
    BY <1>4 DEF User!Expire
  <2>3. o \in Nat
    BY <1>0, NormalTicks
  <2> HIDE DEF again
  <2>4. CASE utimer.loopvalue = 0
    <3>1. left' = again /\ utimer' = utimer /\ uint' = uint
      BY <1>4, <2>4 DEF User!Expire, again
    <3>2. User!NormalDuration(utimer)' = User!NormalDuration(utimer)
          /\ User!OverflowDuration(utimer)' = User!OverflowDuration(utimer)
      BY <3>1 DEF User!NormalDuration, User!OverflowDuration
    <3>3. User!PeriodFollowsFlags'
      BY <2>1, <2>2, <3>1, <3>2 DEF UserInv, User!PeriodFollowsFlags
    <3> QED
      BY <1>0, <2>1, <2>2, <3>1, <3>3 DEF UserInv
  <2>5. CASE utimer.loopvalue # 0
    <3> DEFINE w == uint \/ (utimer.int /\ (~utimer.nohalt \/ ~sleeping))
               d == utimer.overflow \/ utimer.finished
    <3>1. /\ utimer' = [utimer EXCEPT !.overflow = d, !.finished = TRUE]
          /\ uint' = w
          /\ left' = IF utimer.loop THEN [again EXCEPT !.period = o] ELSE again
      BY <1>4, <2>5 DEF User!Expire, again
    <3>2. w \in BOOLEAN /\ d \in BOOLEAN /\ (w => utimer.int)
      BY <1>0 DEF UserType, UserInv, User!PeriodFollowsFlags
    <3> HIDE DEF w, d
    <3>3. /\ utimer' \in UserType /\ utimer'.finished = TRUE /\ utimer'.loop = utimer.loop
          /\ utimer'.loopvalue = utimer.loopvalue /\ utimer'.frequency = utimer.frequency
          /\ utimer'.int = utimer.int
      BY <1>0, <3>1, <3>2 DEF UserType
    <3>4. User!OverflowDuration(utimer)' = o
      BY <3>3 DEF User!OverflowDuration
    <3>5. /\ left' \in [running : BOOLEAN, count : Int, period : Nat] /\ left'.count >= -2
          /\ left'.running => left.running
      <4> HIDE DEF o
      <4> QED
        BY <2>1, <2>3, <3>1
    <3>6. left'.running => left'.period = o
      <4>1. CASE utimer.loop
        <5> HIDE DEF o
        <5> QED
          BY <2>1, <3>1, <4>1
      <4>2. CASE ~utimer.loop
        <5>1. left' = again
          BY <3>1, <4>2
        <5>2. left.period = 0 \/ utimer.finished
          BY <2>2, <2>5, <4>2 DEF UserInv, User!PeriodFollowsFlags
        <5>3. left.period = 0 => ~again.running
          BY <1>0 DEF again
        <5>4. utimer.finished => left.period = o
          BY <2>2 DEF UserInv, User!PeriodFollowsFlags
        <5> QED
          BY <2>1, <5>1, <5>2, <5>3, <5>4
      <4> QED
        BY <4>1, <4>2
    <3> HIDE DEF o
    <3>7. User!PeriodFollowsFlags'
      BY <3>1, <3>2, <3>3, <3>4, <3>6 DEF User!PeriodFollowsFlags
    <3> QED
      BY <1>0, <2>2, <3>1, <3>2, <3>3, <3>5, <3>7 DEF UserInv
  <2> QED
    BY <2>4, <2>5
<1>5. ASSUME NEW off \in BOOLEAN, User!Port3NoHalt(off)
      PROVE  UserInv'
  <2>1. utimer' = [utimer EXCEPT !.nohalt = off] /\ left' = left /\ uint' = uint
    BY <1>5 DEF User!Port3NoHalt
  <2>2. /\ utimer' \in UserType /\ utimer'.finished = utimer.finished
        /\ utimer'.loop = utimer.loop /\ utimer'.overflow = utimer.overflow
        /\ utimer'.loopvalue = utimer.loopvalue /\ utimer'.frequency = utimer.frequency
        /\ utimer'.int = utimer.int
    BY <1>0, <2>1 DEF UserType
  <2>3. User!NormalDuration(utimer)' = User!NormalDuration(utimer)
        /\ User!OverflowDuration(utimer)' = User!OverflowDuration(utimer)
    BY <2>2 DEF User!NormalDuration, User!OverflowDuration
  <2> QED
    BY <1>0, <2>1, <2>2, <2>3 DEF UserInv, User!PeriodFollowsFlags
<1>6. ASSUME NEW c \in {-User!LateBy, 1, left.count \div 2}, User!Pass(c)
      PROVE  UserInv'
  <2>1. left' = [left EXCEPT !.count = c] /\ utimer' = utimer /\ uint' = uint /\ left.count > 0
    BY <1>6 DEF User!Pass
  <2>2. c \in Int /\ c >= -2
    BY <1>0, <2>1 DEF User!LateBy
  <2>3. /\ left' \in [running : BOOLEAN, count : Int, period : Nat] /\ left'.count = c
        /\ left'.running = left.running /\ left'.period = left.period
    BY <1>0, <2>1, <2>2
  <2>4. User!NormalDuration(utimer)' = User!NormalDuration(utimer)
        /\ User!OverflowDuration(utimer)' = User!OverflowDuration(utimer)
    BY <2>1 DEF User!NormalDuration, User!OverflowDuration
  <2> QED
    BY <1>0, <2>1, <2>2, <2>3, <2>4 DEF UserInv, User!PeriodFollowsFlags
<1>7. ASSUME User!HaltOrWake PROVE UserInv'
  BY <1>7 DEF User!HaltOrWake, UserInv, User!PeriodFollowsFlags, User!NormalDuration,
              User!OverflowDuration
<1>8. ASSUME User!UtReset PROVE UserInv'
  BY <1>8, Cleared DEF User!UtReset, UserInv, User!PeriodFollowsFlags
<1> QED
  BY <1>1, <1>2, <1>3, <1>4, <1>5, <1>6, <1>7, <1>8 DEF User!UtNext

\* In whatever order the program writes the frequency, the mode and the value of a timer,
\* and whenever it expires, the period it is set to next is the one that its flags ask
\* for, its interrupt has a flag to show, and the value read agrees with the one written.
THEOREM UserTimersCorrect == Spec => []UserTimerSound
<1>1. Init => UserInv
  BY UserStart DEF Init
<1>2. UserInv /\ [Next]_vars => UserInv'
  <2> SUFFICES ASSUME UserInv, [Next]_vars PROVE UserInv'
    OBVIOUS
  <2>1. User!UtNext \/ UNCHANGED <<utimer, left, uint, sleeping>>
    BY DEF Next, Only, vars
  <2>2. CASE UNCHANGED <<utimer, left, uint, sleeping>>
    BY <2>2 DEF UserInv, User!PeriodFollowsFlags, User!NormalDuration, User!OverflowDuration
  <2> QED
    BY <2>1, <2>2, UserStep
<1>3. UserInv => UserTimerSound
  <2> SUFFICES ASSUME UserInv PROVE UserTimerSound
    OBVIOUS
  <2>1. utimer.frequency \in 0..255
    BY DEF UserInv, UserType
  <2>2. User!UtTypeOK
    BY DEF UserInv, UserType, User!UtTypeOK, User!LateBy
  <2> QED
    BY <2>1, <2>2, CounterHolds DEF UserInv, UserTimerSound
<1> QED
  BY <1>1, <1>2, <1>3, PTL DEF Spec


-----------------------------------------------------------------------------
(* The LCD drivers.                                                        *)

LcdType ==
    [mode : {0, 1}, x : -1 .. 32, y : -1 .. Rows, inc : 4..7, busy : BOOLEAN,
     required : {"none", "short", "long"}, stride : Strides]
LcdInv ==
    /\ lcd \in LcdType
    /\ delay = -1000 \/ delay \in -3 .. 70
    /\ lcd.busy => delay # -1000

\* Where the next data command works, whatever the counters are.
LEMMA Place ==
    ASSUME LcdInv
    PROVE  /\ Mono!X \in Nat /\ Mono!Y \in Nat /\ Mono!Y < Rows
           /\ lcd.mode = 1 => Mono!X < lcd.stride
           /\ lcd.mode = 0 => 6 * Mono!X + 6 <= 8 * lcd.stride
           /\ lcd.mode = 0 /\ Mono!X = Mono!XLimit - 1 => 6 * Mono!X + 6 = 8 * lcd.stride
           /\ lcd.mode = 0 /\ Mono!X # Mono!XLimit - 1 => 6 * Mono!X + 12 <= 8 * lcd.stride
           /\ Mono!X < 20
<1>1. /\ lcd.x \in Int /\ lcd.y \in Int /\ lcd.stride \in {12, 15} /\ Rows \in Nat /\ Rows > 0
      /\ lcd.mode \in {0, 1}
  <2>1. Strides \subseteq {12, 15} /\ Rows \in Nat /\ Rows > 0
    BY LcdAssumption DEF LcdAssumption
  <2>2. lcd.x \in Int /\ lcd.y \in Int /\ lcd.stride \in Strides /\ lcd.mode \in {0, 1}
    BY <2>1 DEF LcdInv, LcdType
  <2> QED
    BY <2>1, <2>2
<1>2. Mono!XLimit = IF lcd.mode = 1 THEN lcd.stride ELSE IF lcd.stride = 12 THEN 16 ELSE 20
  BY <1>1 DEF Mono!XLimit
<1>3. Mono!X \in Nat /\ Mono!X < Mono!XLimit
  BY <1>1, <1>2 DEF Mono!X
<1>4. Mono!Y \in Nat /\ Mono!Y < Rows
  BY <1>1 DEF Mono!Y
<1>5. /\ lcd.mode = 0 /\ Mono!X = Mono!XLimit - 1 => 6 * Mono!X + 6 = 8 * lcd.stride
      /\ lcd.mode = 0 /\ Mono!X # Mono!XLimit - 1 => 6 * Mono!X + 12 <= 8 * lcd.stride
  BY <1>1, <1>2, <1>3
<1>6. /\ lcd.mode = 1 => Mono!X < lcd.stride
      /\ lcd.mode = 0 => 6 * Mono!X + 6 <= 8 * lcd.stride
      /\ Mono!X < 20
  BY <1>1, <1>2, <1>3
<1> QED
  BY <1>3, <1>4, <1>5, <1>6

LEMMA OneRow ==
    ASSUME LcdInv
    PROVE  Mono!WorksInOneRow
<1> DEFINE W == 8 * lcd.stride
           B == Mono!Base
           c == Mono!Column
           s == Mono!Shift
           f == Mono!FirstByte
<1>1. lcd.stride \in {12, 15} /\ Rows \in Nat /\ lcd.mode \in {0, 1}
  <2>1. Strides \subseteq {12, 15} /\ Rows \in Nat
    BY LcdAssumption DEF LcdAssumption
  <2>2. lcd.stride \in Strides /\ lcd.mode \in {0, 1}
    BY DEF LcdInv, LcdType
  <2> QED
    BY <2>1, <2>2
<1>2. B \in Nat /\ W \in Nat /\ B + W <= 8 * Rows * lcd.stride /\ 8 * Rows * lcd.stride \in Nat
  <2>1. CASE lcd.stride = 12
    BY <1>1, <2>1, Place DEF Mono!Base
  <2>2. CASE lcd.stride = 15
    BY <1>1, <2>2, Place DEF Mono!Base
  <2> QED
    BY <1>1, <2>1, <2>2
<1>5. IF Mono!Y = Rows - 1 THEN B + W = 8 * Rows * lcd.stride
      ELSE B + W + 8 <= 8 * Rows * lcd.stride
  <2>1. CASE lcd.stride = 12
    BY <1>1, <2>1, Place DEF Mono!Base
  <2>2. CASE lcd.stride = 15
    BY <1>1, <2>2, Place DEF Mono!Base
  <2> QED
    BY <1>1, <2>1, <2>2
<1> DEFINE e == 8 * Rows * lcd.stride
<1>3. CASE lcd.mode = 1
  <2>1. /\ Mono!WriteBits = Mono!Base + 8 * Mono!X .. Mono!Base + 8 * Mono!X + 7
        /\ Mono!ReadBits = Mono!Base + 8 * Mono!X .. Mono!Base + 8 * Mono!X + 7
        /\ Mono!FetchedBits = Mono!Base + 8 * Mono!X .. Mono!Base + 8 * Mono!X + 7
    BY <1>3, Zenon DEF Mono!WriteBits, Mono!ReadBits, Mono!FetchedBits
  <2> DEFINE o == 8 * Mono!X
  <2>2. o \in Nat /\ o + 7 < W
    BY <1>1, <1>3, Place
  <2> HIDE DEF W, B, e, o
  <2>3. ASSUME NEW b \in B + o .. B + o + 7
        PROVE  b \in B .. B + W - 1 /\ b \in 0 .. e - 1
    BY <1>2, <2>2 DEF e
  <2>4. ~Mono!LastWord
    BY <1>3 DEF Mono!LastWord
  <2> QED
    BY <1>3, <2>1, <2>3, <2>4 DEF Mono!WorksInOneRow, Mono!End, B, W, o, e
<1>4. CASE lcd.mode = 0
  <2>1. /\ c = 8 * f + s /\ s \in {0, 2, 4, 6} /\ f \in Nat /\ c + 6 <= W /\ c \in Nat
    <3>1. c = 6 * Mono!X /\ Mono!X \in Nat /\ c + 6 <= W
      BY <1>4, Place DEF Mono!Column
    <3>2. s = c % 8 /\ f = c \div 8
      BY DEF Mono!Shift, Mono!FirstByte
    <3> HIDE DEF c, s, f, W
    <3>3. c \in Nat
      BY <3>1
    <3>4. c = 8 * f + s /\ f \in Nat /\ s \in 0..7
      BY <3>2, <3>3
    <3>5. s \in {0, 2, 4, 6}
      BY <3>1, <3>4
    <3> QED
      BY <3>1, <3>3, <3>4, <3>5
  <2>2. f < lcd.stride - 1 <=> 8 * f < W - 8
    BY <1>1, <2>1
  <2> DEFINE byte == B + 8 * f
             head == {byte + i : i \in {i \in 0..7 : i >= s /\ i < s + 6}}
             tail == IF s > 2 /\ f < lcd.stride - 1 THEN byte + 8 .. byte + s + 5 ELSE {}
             word == {b \in B + c .. B + c + 5 : b < B + W}
             fetched == byte .. byte + 15
             around == {b \in fetched : byte + s - 2 <= b /\ b <= byte + s + 5}
  <2>3. /\ Mono!WriteBits = head \cup tail /\ Mono!ReadBits = around
        /\ Mono!FetchedBits = fetched
    <3>1. ~(lcd.mode = 1)
      BY <1>4
    <3>2. Mono!WriteBits = head \cup tail
      BY <3>1, Zenon DEF Mono!WriteBits
    <3>3. Mono!FetchedBits = fetched
      BY <3>1, Zenon DEF Mono!FetchedBits
    <3>4. Mono!ReadBits = around
      BY <3>1, <3>3, Zenon DEF Mono!ReadBits
    <3> QED
      BY <3>2, <3>3, <3>4
  <2> HIDE DEF W, B, c, s, f, e
  <2>4. byte \in Nat /\ byte + s = B + c
    BY <1>2, <2>1
  <2>5. tail = IF s > 2 THEN byte + 8 .. byte + s + 5 ELSE {}
    <3>1. s > 2 => f < lcd.stride - 1
      BY <1>2, <2>1, <2>2
    <3> QED
      BY <3>1, Zenon
  <2>6. ASSUME NEW b \in head PROVE b \in word
    <3>1. PICK i \in 0..7 : b = byte + i /\ i >= s /\ i < s + 6
      BY <2>6
    <3> HIDE DEF byte
    <3> QED
      BY <1>2, <2>1, <2>4, <3>1
  <2>7. ASSUME NEW b \in tail PROVE b \in word
    <3>1. s > 2 /\ b \in byte + 8 .. byte + s + 5
      BY <2>5, <2>7
    <3> HIDE DEF byte
    <3> QED
      BY <1>2, <2>1, <2>4, <3>1
  <2>8. ASSUME NEW b \in word PROVE b \in head \cup tail
    <3>1. b \in Nat /\ b >= byte + s /\ b <= byte + s + 5
      BY <1>2, <2>1, <2>4
    <3>2. CASE b <= byte + 7
      <4>1. b - byte \in 0..7 /\ b - byte >= s /\ b - byte < s + 6 /\ b = byte + (b - byte)
        <5> HIDE DEF byte
        <5> QED
          BY <2>1, <2>4, <3>1, <3>2
      <4> QED
        BY <4>1
    <3>3. CASE b > byte + 7
      <4>1. s > 2 /\ b \in byte + 8 .. byte + s + 5
        <5> HIDE DEF byte
        <5> QED
          BY <2>1, <2>4, <3>1, <3>3
      <4> QED
        BY <2>5, <4>1
    <3> QED
      BY <3>1, <3>2, <3>3, <2>4
  <2>9. ASSUME NEW b \in word PROVE b \in B .. B + W - 1
    BY <1>2, <2>1
  <2>10. ASSUME NEW b \in around PROVE b \in 0 .. e - 1
    <3>1. b \in byte .. byte + 15 /\ byte + s - 2 <= b /\ b <= byte + s + 5
      BY <2>10
    <3>2. byte + s + 5 < B + W
      BY <1>2, <2>1
    <3> HIDE DEF byte
    <3> QED
      BY <1>2, <2>1, <2>4, <3>1, <3>2 DEF e
  <2>13. IF Mono!LastWord THEN byte + 8 = e /\ s = 2 ELSE byte + 16 <= e
    <3>1. CASE Mono!X = Mono!XLimit - 1
      <4>1. c + 6 = W
        BY <1>4, <3>1, Place DEF Mono!Column, c, W
      <4>2. W = 8 * lcd.stride
        BY DEF W
      <4>3. s = 2 /\ 8 * f + 8 = W
        BY <1>1, <2>1, <4>1, <4>2
      <4>4. byte + 8 = B + W /\ (Mono!LastWord <=> Mono!Y = Rows - 1)
        BY <1>2, <1>4, <2>1, <3>1, <4>3 DEF Mono!LastWord
      <4> HIDE DEF byte
      <4> QED
        BY <1>2, <1>5, <2>4, <4>3, <4>4 DEF e
    <3>2. CASE Mono!X # Mono!XLimit - 1
      <4>1. c + 12 <= W
        BY <1>4, <3>2, Place DEF Mono!Column, c, W
      <4>2. W = 8 * lcd.stride
        BY DEF W
      <4>3. 8 * f + 16 <= W
        BY <1>1, <2>1, <4>1, <4>2
      <4>4. byte + 16 <= B + W /\ ~Mono!LastWord
        BY <1>2, <2>1, <3>2, <4>3 DEF Mono!LastWord
      <4> HIDE DEF byte
      <4> QED
        BY <1>2, <2>4, <4>4 DEF e
    <3> QED
      BY <3>1, <3>2
  <2>14. fetched \subseteq 0 .. IF Mono!LastWord THEN e + 7 ELSE e - 1
    <3> HIDE DEF byte
    <3> QED
      BY <1>2, <2>4, <2>13 DEF e
  <2>15. Mono!LastWord => e .. e + 7 \subseteq fetched \ around
    <3> HIDE DEF byte
    <3> QED
      BY <1>2, <2>1, <2>4, <2>13 DEF e
  <2> HIDE DEF head, tail, word, around, byte, fetched
  <2>11. Mono!WriteBits = word
    BY <2>3, <2>6, <2>7, <2>8
  <2>12. Mono!WriteBits \subseteq B .. B + W - 1 /\ Mono!ReadBits \subseteq 0 .. e - 1
    BY <2>3, <2>9, <2>10, <2>11
  <2>16. /\ Mono!FetchedBits \subseteq 0 .. IF Mono!LastWord THEN e + 7 ELSE e - 1
         /\ Mono!LastWord => e .. e + 7 \subseteq Mono!FetchedBits \ Mono!ReadBits
    BY <2>3, <2>14, <2>15
  <2> QED
    BY <2>11, <2>12, <2>16 DEF Mono!WorksInOneRow, Mono!End, word, B, W, c, e
<1> QED
  BY <1>1, <1>3, <1>4

LEMMA LcdStart == Mono!LcdInit => LcdInv
<1> SUFFICES ASSUME Mono!LcdInit PROVE LcdInv
  OBVIOUS
<1>1. PICK s \in Strides :
        lcd = [mode |-> 1, x |-> 0, y |-> 0, inc |-> 7, busy |-> FALSE, required |-> "short",
               stride |-> s]
  BY DEF Mono!LcdInit
<1>2. 0 \in -1 .. 32 /\ 0 \in -1 .. Rows
  BY LcdAssumption DEF LcdAssumption
<1>3. lcd \in LcdType /\ lcd.busy = FALSE
  BY <1>1, <1>2 DEF LcdType
<1>4. delay = -1000
  BY DEF Mono!LcdInit, Mono!NoDelay
<1> QED
  BY <1>3, <1>4 DEF LcdInv

\* What a command and a delay leave behind.
LEMMA LcdDelayed ==
    ASSUME LcdInv, NEW l \in LcdType, l.required = lcd.required, l.busy = lcd.busy,
           lcd' = Mono!Delayed(l), Mono!SetDelay
    PROVE  LcdInv'
<1> DEFINE q == IF lcd.required # "none" THEN TRUE ELSE l.busy
<1>1. lcd' = [l EXCEPT !.busy = q]
  BY DEF Mono!Delayed, LcdType
<1>2. q \in BOOLEAN
  BY DEF LcdType
<1> HIDE DEF q
<1>3. lcd' \in LcdType /\ lcd'.busy = q
  BY <1>1, <1>2 DEF LcdType
<1>4. lcd' \in LcdType'
  BY <1>3 DEF LcdType
<1>5. delay' = IF lcd.required = "none" THEN delay ELSE IF lcd.required = "long" THEN 70 ELSE 50
  BY DEF Mono!SetDelay
<1> QED
  BY <1>3, <1>4, <1>5 DEF LcdInv, q

LEMMA LcdStep ==
    ASSUME LcdInv, Mono!LcdNext
    PROVE  LcdInv'
<1>0. lcd \in LcdType /\ (delay = -1000 \/ delay \in -3 .. 70) /\ (lcd.busy => delay # -1000)
      /\ LcdType' = LcdType
  BY DEF LcdInv, LcdType
<1>1. ASSUME NEW v \in Commands, Mono!Control(v) PROVE LcdInv'
  <2> DEFINE l == Mono!Command(lcd, v)
  <2>1. v \in 0..255 /\ (v \in 128..191 => v - 128 < Rows) /\ Rows \in Nat
    BY LcdAssumption DEF LcdAssumption
  <2>2. \/ l = lcd
        \/ v \in {0, 1} /\ l = [lcd EXCEPT !.mode = v]
        \/ v \in 4..7 /\ l = [lcd EXCEPT !.inc = v]
        \/ v \in 32..63 /\ l = [lcd EXCEPT !.x = v - 32]
        \/ v \in 128..191 /\ l = [lcd EXCEPT !.y = v - 128]
    BY <2>1 DEF Mono!Command
  <2> HIDE DEF l
  <2>3. l \in LcdType /\ l.required = lcd.required /\ l.busy = lcd.busy
    <3>1. CASE l = lcd
      BY <1>0, <3>1
    <3>2. CASE v \in {0, 1} /\ l = [lcd EXCEPT !.mode = v]
      BY <1>0, <3>2 DEF LcdType
    <3>3. CASE v \in 4..7 /\ l = [lcd EXCEPT !.inc = v]
      BY <1>0, <3>3 DEF LcdType
    <3>4. CASE v \in 32..63 /\ l = [lcd EXCEPT !.x = v - 32]
      <4> DEFINE w == v - 32
      <4>1. w \in -1 .. 32
        BY <3>4
      <4> HIDE DEF w
      <4>2. l = [lcd EXCEPT !.x = w]
        BY <3>4 DEF w
      <4> QED
        BY <1>0, <4>1, <4>2 DEF LcdType
    <3>5. CASE v \in 128..191 /\ l = [lcd EXCEPT !.y = v - 128]
      <4> DEFINE w == v - 128
      <4>1. w \in -1 .. Rows
        BY <2>1, <3>5
      <4> HIDE DEF w
      <4>2. l = [lcd EXCEPT !.y = w]
        BY <3>5 DEF w
      <4> QED
        BY <1>0, <4>1, <4>2 DEF LcdType
    <3> QED
      BY <2>2, <3>1, <3>2, <3>3, <3>4, <3>5
  <2>4. lcd' = Mono!Delayed(l) /\ Mono!SetDelay
    BY <1>1 DEF Mono!Control, l
  <2> QED
    BY <2>3, <2>4, LcdDelayed
<1>2. ASSUME Mono!Write \/ Mono!Read PROVE LcdInv'
  <2> DEFINE dx == CASE lcd.inc = 6 -> -1 [] lcd.inc = 7 -> 1 [] OTHER -> 0
             dy == CASE lcd.inc = 4 -> -1 [] lcd.inc = 5 -> 1 [] OTHER -> 0
             x == Mono!X + dx
             y == Mono!Y + dy
             l == Mono!Counted
  <2>1. lcd' = Mono!Delayed(l) /\ Mono!SetDelay
    BY <1>2 DEF Mono!Write, Mono!Read
  <2>2. dx \in {-1, 0, 1} /\ dy \in {-1, 0, 1}
    BY <1>0 DEF LcdType
  <2>3. l = [lcd EXCEPT !.x = x, !.y = y]
    BY DEF Mono!Counted
  <2> HIDE DEF dx, dy, l
  <2>4. x \in -1 .. 32
    BY <2>2, Place
  <2>5. y \in -1 .. Rows
    BY <2>2, Place, LcdAssumption DEF LcdAssumption
  <2> HIDE DEF x, y
  <2>6. l \in LcdType /\ l.required = lcd.required /\ l.busy = lcd.busy
    <3> DEFINE d == [lcd EXCEPT !.x = x]
    <3>1. d \in LcdType /\ d.required = lcd.required /\ d.busy = lcd.busy
      BY <1>0, <2>4 DEF LcdType
    <3>2. l = [d EXCEPT !.y = y]
      BY <1>0, <2>3
    <3> HIDE DEF d
    <3> QED
      BY <2>5, <3>1, <3>2 DEF LcdType
  <2> QED
    BY <2>1, <2>6, LcdDelayed
<1>3. ASSUME NEW d \in {1, 0, -Mono!Overrun}, Mono!Tick(d) PROVE LcdInv'
  <2>1. delay' \in -3 .. 70 /\ lcd' = lcd
    BY <1>3 DEF Mono!Tick, Mono!Overrun
  <2> QED
    BY <1>0, <2>1 DEF LcdInv
<1>4. ASSUME Mono!DelayTimer PROVE LcdInv'
  <2>1. lcd' = [lcd EXCEPT !.busy = FALSE] /\ delay' = -1000
    BY <1>4 DEF Mono!DelayTimer, Mono!NoDelay
  <2>2. lcd' \in LcdType /\ lcd'.busy = FALSE
    BY <1>0, <2>1 DEF LcdType
  <2> QED
    BY <1>0, <2>1, <2>2 DEF LcdInv
<1>5. ASSUME Mono!LcdReset PROVE LcdInv'
  <2> DEFINE d == [lcd EXCEPT !.mode = 1, !.x = 0, !.y = 0]
             e == [d EXCEPT !.inc = 7]
  <2>1. lcd' = [e EXCEPT !.busy = FALSE] /\ delay' = delay
    BY <1>0, <1>5 DEF Mono!LcdReset
  <2>2. d \in LcdType
    <3>1. 0 \in -1 .. 32 /\ 0 \in -1 .. Rows
      BY LcdAssumption DEF LcdAssumption
    <3> DEFINE g == [lcd EXCEPT !.mode = 1]
    <3>2. g \in LcdType
      BY <1>0 DEF LcdType
    <3> DEFINE h == [g EXCEPT !.x = 0]
    <3> HIDE DEF g
    <3>3. h \in LcdType
      BY <3>1, <3>2 DEF LcdType
    <3>4. d = [h EXCEPT !.y = 0]
      BY <1>0 DEF g
    <3> HIDE DEF h
    <3> QED
      BY <3>1, <3>3, <3>4 DEF LcdType
  <2> HIDE DEF d
  <2>3. e \in LcdType
    BY <2>2 DEF LcdType
  <2> HIDE DEF e
  <2>4. lcd' \in LcdType /\ lcd'.busy = FALSE
    BY <2>1, <2>3 DEF LcdType
  <2> QED
    BY <1>0, <2>1, <2>4 DEF LcdInv
<1>6. ASSUME NEW r \in {"none", "short", "long"}, Mono!SetRequired(r) PROVE LcdInv'
  <2>1. lcd' = [lcd EXCEPT !.required = r] /\ delay' = delay
    BY <1>6 DEF Mono!SetRequired
  <2>2. lcd' \in LcdType /\ lcd'.busy = lcd.busy
    BY <1>0, <2>1 DEF LcdType
  <2> QED
    BY <1>0, <2>1, <2>2 DEF LcdInv
<1> QED
  BY <1>1, <1>2, <1>3, <1>4, <1>5, <1>6 DEF Mono!LcdNext


\* The colour controller: the bytes of the word that is being written.
ColourInv ==
    /\ xio.index \in Colour!Indices /\ xio.write \in 0..2 /\ DOMAIN xio = {"index", "read", "write"}
    /\ DOMAIN xreg = DOMAIN Colour!FromReset
    /\ Colour!WholePixels

LEMMA ColourStart == Colour!XcInit => ColourInv
BY DEF Colour!XcInit, ColourInv, Colour!WholePixels, Colour!FromReset, Colour!Indices

LEMMA ColourStep ==
    ASSUME ColourInv, Colour!XcNext
    PROVE  ColourInv'
<1>0. /\ xio.index \in Colour!Indices /\ xio.write \in 0..2 /\ since = xio.write
      /\ DOMAIN xio = {"index", "read", "write"} /\ DOMAIN xreg = DOMAIN Colour!FromReset
      /\ xio.write = 2 => xio.index = "R22" /\ xreg.R03.tri
  BY DEF ColourInv, Colour!WholePixels, Colour!Data
<1>1. ASSUME NEW i \in Colour!Indices, Colour!xc_lcd_control(i) PROVE ColourInv'
  BY <1>0, <1>1 DEF Colour!xc_lcd_control, ColourInv, Colour!WholePixels
<1>2. ASSUME NEW i, NEW v, Colour!WriteRegister(i, v) PROVE ColourInv'
  <2> DEFINE w == IF xio.write = 0 THEN 1 ELSE 0
  <2>1. /\ xio.index # "R22" /\ xio' = [xio EXCEPT !.read = 0, !.write = w]
        /\ since' = (since + 1) % 2
        /\ xreg' = xreg \/ xreg' = [xreg EXCEPT ![i] = v]
    BY <1>0, <1>2 DEF Colour!WriteRegister, Colour!write_reg, Colour!Data
  <2>2. xio.write \in {0, 1}
    BY <1>0, <2>1
  <2>3. w \in {0, 1} /\ since' = w
    BY <1>0, <2>1, <2>2
  <2> HIDE DEF w
  <2>4. xio'.index = xio.index /\ xio'.write = w /\ DOMAIN xio' = {"index", "read", "write"}
    BY <1>0, <2>1
  <2>5. DOMAIN xreg' = DOMAIN Colour!FromReset
    BY <1>0, <2>1
  <2>6. xio'.index \in Colour!Indices' /\ DOMAIN xreg' = DOMAIN Colour!FromReset'
    BY <1>0, <2>4, <2>5 DEF Colour!Indices, Colour!Data, Colour!FromReset
  <2> QED
    BY <2>3, <2>4, <2>5, <2>6 DEF ColourInv, Colour!WholePixels
<1>3. ASSUME Colour!WritePixel PROVE ColourInv'
  <2> DEFINE w == Colour!PixelState
  <2>1. /\ xio.index = "R22" /\ xio' = [xio EXCEPT !.read = 0, !.write = w] /\ xreg' = xreg
        /\ IF w = 0 THEN since' = 0 ELSE since' = since + 1
    BY <1>3 DEF Colour!WritePixel, Colour!Data
  <2>2. w \in 0..2 /\ (w # 0 => w = xio.write + 1) /\ (w = 2 => xreg.R03.tri)
    BY <1>0 DEF Colour!PixelState
  <2> HIDE DEF w
  <2>3. xio'.index = xio.index /\ xio'.write = w /\ DOMAIN xio' = {"index", "read", "write"}
    BY <1>0, <2>1
  <2> QED
    BY <1>0, <2>1, <2>2, <2>3 DEF ColourInv, Colour!WholePixels, Colour!Data
<1>4. ASSUME Colour!xc_lcd_read PROVE ColourInv'
  <2>1. xio'.index = xio.index /\ xio'.write = xio.write /\ DOMAIN xio' = {"index", "read", "write"}
        /\ xreg' = xreg /\ since' = since
    BY <1>0, <1>4 DEF Colour!xc_lcd_read
  <2> QED
    BY <1>0, <2>1 DEF ColourInv, Colour!WholePixels, Colour!Data
<1>5. ASSUME Colour!XcReset PROVE ColourInv'
  BY <1>5 DEF Colour!XcReset, ColourInv, Colour!WholePixels, Colour!FromReset, Colour!Indices
<1> QED
  BY <1>1, <1>2, <1>3, <1>4, <1>5 DEF Colour!XcNext

\* The backlight.
LightInv ==
    /\ light \in [on : BOOLEAN, level : 0 .. Levels - 1, contrast : Int, bit : BOOLEAN,
                  timer : BOOLEAN]
    /\ Light!LightGoesOut

LEMMA LightStart == Light!LightInit => LightInv
BY LevelsAssumption DEF LevelsAssumption, Light!LightInit, LightInv, Light!LightGoesOut

LEMMA LightStep ==
    ASSUME LightInv, Light!LightNext
    PROVE  LightInv'
<1> DEFINE T == [on : BOOLEAN, level : 0 .. Levels - 1, contrast : Int, bit : BOOLEAN,
                 timer : BOOLEAN]
<1>0. light \in T /\ Levels \in Nat /\ Levels > 0 /\ 0 \in 0 .. Levels - 1
  BY LevelsAssumption DEF LightInv, LevelsAssumption
<1>1. ASSUME NEW bit \in BOOLEAN, Light!Out3A(bit) PROVE LightInv'
  <2>1. CASE bit /\ ~light.bit
    <3> DEFINE level == IF light.on THEN (light.level + 1) % Levels ELSE 0
    <3>1. light' = [on |-> TRUE, level |-> level, contrast |-> Light!Contrast(level),
                    bit |-> TRUE, timer |-> FALSE]
      BY <1>1, <2>1 DEF Light!Out3A
    <3>2. level \in 0 .. Levels - 1
      <4>1. light.level \in Int
        BY <1>0
      <4>2. (light.level + 1) % Levels \in 0 .. Levels - 1
        BY <1>0, <4>1
      <4> QED
        BY <1>0, <4>2
    <3> HIDE DEF level
    <3>3. Light!Contrast(level) \in Int
      BY <1>0, <3>2 DEF Light!Contrast
    <3> QED
      BY <3>1, <3>2, <3>3 DEF LightInv, Light!LightGoesOut
  <2>2. CASE ~bit /\ light.bit
    <3>1. light' = [light EXCEPT !.bit = FALSE, !.timer = TRUE]
      BY <1>1, <2>2 DEF Light!Out3A
    <3> QED
      BY <1>0, <3>1 DEF LightInv, Light!LightGoesOut
  <2>3. CASE bit = light.bit
    <3>1. light' = light
      BY <1>1, <2>3 DEF Light!Out3A
    <3> QED
      BY <3>1 DEF LightInv, Light!LightGoesOut
  <2> QED
    BY <1>0, <2>1, <2>2, <2>3
<1>2. ASSUME Light!BacklightTimer PROVE LightInv'
  <2>1. light.timer
        /\ light' = [light EXCEPT !.on = FALSE, !.level = 0, !.contrast = 0, !.timer = FALSE]
    BY <1>2 DEF Light!BacklightTimer
  <2>2. light' \in T
    <3> DEFINE d == [light EXCEPT !.on = FALSE, !.level = 0]
    <3>1. d \in T
      BY <1>0
    <3> DEFINE e == [d EXCEPT !.contrast = 0]
    <3>2. light' = [e EXCEPT !.timer = FALSE]
      BY <1>0, <2>1
    <3> HIDE DEF d
    <3>3. e \in T
      BY <1>0, <3>1
    <3> HIDE DEF e
    <3> QED
      BY <3>2, <3>3
  <2>3. light'.on = FALSE /\ light'.timer = FALSE
    BY <1>0, <2>1
  <2> QED
    BY <2>2, <2>3 DEF LightInv, Light!LightGoesOut
<1>3. ASSUME Light!LightReset PROVE LightInv'
  <2>1. light' = [light EXCEPT !.on = FALSE, !.level = 0, !.contrast = Levels, !.bit = FALSE]
    BY <1>3 DEF Light!LightReset
  <2>2. light' \in T
    <3> DEFINE d == [light EXCEPT !.on = FALSE, !.level = 0]
    <3>1. d \in T
      BY <1>0
    <3> DEFINE e == [d EXCEPT !.contrast = Levels]
    <3>2. light' = [e EXCEPT !.bit = FALSE]
      BY <1>0, <2>1
    <3> HIDE DEF d
    <3>3. e \in T
      BY <1>0, <3>1
    <3> HIDE DEF e
    <3> QED
      BY <3>2, <3>3
  <2>3. light'.on = FALSE /\ light'.bit = FALSE
    BY <1>0, <2>1
  <2> QED
    BY <2>2, <2>3 DEF LightInv, Light!LightGoesOut
<1> QED
  BY <1>1, <1>2, <1>3 DEF Light!LightNext

\* No command leads the driver out of its row and it is busy only while a timer is set;
\* pixels are whole; the backlight goes out: for every number of rows and levels, and
\* every order of commands, reads, writes, resets and timers.
THEOREM LcdsCorrect == Spec => []LcdsSound
<1> DEFINE Inv == LcdInv /\ ColourInv /\ LightInv
<1>1. Init => Inv
  BY LcdStart, ColourStart, LightStart DEF Init
<1>2. Inv /\ [Next]_vars => Inv'
  <2> SUFFICES ASSUME Inv, [Next]_vars PROVE Inv'
    OBVIOUS
  <2>1. /\ Mono!LcdNext \/ UNCHANGED <<lcd, delay>>
        /\ Colour!XcNext \/ UNCHANGED <<xreg, xcur, xio, since>>
        /\ Light!LightNext \/ UNCHANGED light
    BY DEF Next, Only, vars
  <2>2. LcdInv'
    BY <2>1, LcdStep DEF LcdInv, LcdType
  <2>3. ColourInv'
    <3>1. CASE UNCHANGED <<xreg, xcur, xio, since>>
      BY <3>1 DEF ColourInv, Colour!WholePixels, Colour!Indices, Colour!Data, Colour!FromReset
    <3> QED
      BY <2>1, <3>1, ColourStep
  <2>4. LightInv'
    BY <2>1, LightStep DEF LightInv, Light!LightGoesOut, Light!Contrast
  <2> QED
    BY <2>2, <2>3, <2>4
<1>3. Inv => LcdsSound
  <2> SUFFICES ASSUME Inv PROVE LcdsSound
    OBVIOUS
  <2>1. Mono!LcdTypeOK
    BY DEF LcdInv, LcdType, Mono!LcdTypeOK, Mono!NoDelay, Mono!Overrun
  <2>2. Mono!LcdBusyIsTimed
    BY DEF LcdInv, Mono!LcdBusyIsTimed, Mono!NoDelay
  <2> QED
    BY <2>1, <2>2, OneRow DEF LcdsSound, ColourInv, LightInv
<1> QED
  BY <1>1, <1>2, <1>3, PTL DEF Spec

-----------------------------------------------------------------------------
(* The cursor of the colour LCD.                                           *)

\* A set of numbers that is not empty has a least one.
LEMMA Least ==
    ASSUME NEW T \in SUBSET Nat, T # {}
    PROVE  \E x \in T : \A y \in T : x <= y
<1> DEFINE R == StrictSubsetOrdering(Nat)
           U == {1..n : n \in T}
<1>1. IsWellFoundedOn(R, FiniteSubsetsOf(Nat))
  BY FS_StrictSubsetOrderingWellFounded
<1>2. U \subseteq FiniteSubsetsOf(Nat) /\ U # {}
  <2>1. \A n \in T : 1..n \in SUBSET Nat /\ IsFiniteSet(1..n)
    BY FS_Interval
  <2> QED
    BY <2>1 DEF FiniteSubsetsOf
<1>3. PICK X \in U : \A Y \in U : ~(<<Y, X>> \in R)
  <2> HIDE DEF R, U
  <2> QED
    BY <1>1, <1>2, WFMin
<1>4. PICK x \in T : X = 1..x
  OBVIOUS
<1>5. ASSUME NEW y \in T PROVE x <= y
  <2> SUFFICES ASSUME y < x PROVE FALSE
    OBVIOUS
  <2>1. 1..y \subseteq 1..x /\ x \in 1..x /\ x \notin 1..y
    OBVIOUS
  <2>2. 1..y \in SUBSET Nat /\ 1..x \in SUBSET Nat
    OBVIOUS
  <2>3. <<1..y, X>> \in R
    BY <2>1, <2>2, <1>4 DEF StrictSubsetOrdering
  <2> QED
    BY <1>3, <2>3
<1> QED
  BY <1>5

\* A set that holds zero, and the successor of each number it holds, holds all.
LEMMA Induct ==
    ASSUME NEW S, 0 \in S, \A n \in Nat : n \in S => n + 1 \in S
    PROVE  Nat \subseteq S
<1> SUFFICES ASSUME Nat \ S # {} PROVE FALSE
  OBVIOUS
<1>1. PICK x \in Nat \ S : \A y \in Nat \ S : x <= y
  <2>1. Nat \ S \in SUBSET Nat
    OBVIOUS
  <2> QED
    BY <2>1, Least
<1>2. x # 0 /\ x - 1 \in Nat /\ ~(x <= x - 1) /\ (x - 1) + 1 = x
  BY <1>1
<1> QED
  BY <1>1, <1>2

\* A number of two digits, the lower of base n.
LEMMA Digits ==
    ASSUME NEW n \in Nat, n > 0, NEW m \in Nat, NEW a \in 0 .. n - 1, NEW b \in 0 .. m - 1
    PROVE  /\ b * n + a \in 0 .. m * n - 1
           /\ (b * n + a) % n = a /\ (b * n + a) \div n = b
<1>1. b \in Nat /\ a \in Nat /\ b * n \in Nat /\ m * n \in Int
  OBVIOUS
<1>2. b * n <= (m - 1) * n
  <2>1. m - 1 - b \in Nat
    OBVIOUS
  <2>2. (m - 1 - b) * n >= 0
    BY <2>1
  <2>3. (m - 1 - b) * n = (m - 1) * n - b * n
    OBVIOUS
  <2> QED
    BY <2>2, <2>3
<1>3. (m - 1) * n = m * n - n
  OBVIOUS
<1>4. b * n + a >= 0 /\ b * n + a <= m * n - 1
  <2> DEFINE p == b * n
             t == m * n
  <2>1. p \in Nat /\ t \in Int /\ p <= t - n
    BY <1>1, <1>2, <1>3
  <2> HIDE DEF p, t
  <2>2. p + a >= 0 /\ p + a <= t - 1
    BY <2>1
  <2> QED
    BY <2>2 DEF p, t
<1>5. (b * n + a) % n = a
  <2> DEFINE x == b * n + a
  <2>1. x \in Int
    BY <1>1
  <2> QED
    BY <2>1, DivisionIs
<1>6. (b * n + a) \div n = b
  <2>1. a >= 0 /\ a < n /\ b \in Int
    OBVIOUS
  <2> QED
    BY <2>1
<1> QED
  BY <1>1, <1>4, <1>5, <1>6

LEMMA DigitsOf ==
    ASSUME NEW n \in Nat, n > 0, NEW m \in Nat, NEW q \in 0 .. m * n - 1
    PROVE  /\ q \div n \in 0 .. m - 1 /\ q % n \in 0 .. n - 1
           /\ q = (q \div n) * n + (q % n)
<1> DEFINE d == q \div n
           e == q % n
<1>0. q \in Int /\ q >= 0 /\ m * n \in Int /\ q < m * n
  OBVIOUS
<1>1. q = d * n + e /\ d \in Int /\ e \in Int /\ e >= 0 /\ e < n
  BY <1>0, Division
<1> HIDE DEF d, e
<1>2. d * n \in Int
  BY <1>1
<1>3. d >= 0
  <2> SUFFICES ASSUME d <= -1 PROVE FALSE
    BY <1>1
  <2>1. -1 - d \in Nat /\ (-1 - d) * n >= 0 /\ (-1 - d) * n = (-1) * n - d * n
    BY <1>1
  <2> QED
    BY <1>0, <1>1, <1>2, <2>1
<1>4. d < m
  <2> SUFFICES ASSUME d >= m PROVE FALSE
    BY <1>1
  <2>1. d - m \in Nat /\ (d - m) * n >= 0 /\ (d - m) * n = d * n - m * n
    BY <1>1
  <2> QED
    BY <1>0, <1>1, <1>2, <2>1
<1> QED
  BY <1>1, <1>3, <1>4 DEF d, e

\* Its successor, where the numbers go round.
LEMMA NextDigits ==
    ASSUME NEW n \in Nat, n > 0, NEW m \in Nat, NEW a \in 0 .. n - 1, NEW b \in 0 .. m - 1
    PROVE  (b * n + a + 1) % (m * n) =
              IF a < n - 1 THEN b * n + (a + 1)
              ELSE (IF b < m - 1 THEN b + 1 ELSE 0) * n + 0
<1>0. m * n \in Nat /\ m * n > 0 /\ m - 1 \in Nat /\ m > 0 /\ b * n \in Int
  <2>1. m > 0 /\ m - 1 \in Nat
    OBVIOUS
  <2>2. (m - 1) * n \in Nat /\ m * n = (m - 1) * n + n /\ b * n \in Int
    BY <2>1
  <2> QED
    BY <2>1, <2>2
<1>1. CASE a < n - 1
  <2>1. a + 1 \in 0 .. n - 1
    BY <1>1
  <2>2. b * n + (a + 1) \in 0 .. m * n - 1
    BY <2>1, Digits
  <2> DEFINE t == m * n
             p == b * n
  <2>3. p + (a + 1) \in 0 .. t - 1 /\ p + a + 1 = p + (a + 1) /\ t \in Nat /\ t > 0
    BY <1>0, <2>2
  <2> HIDE DEF t, p
  <2>4. (p + (a + 1)) % t = p + (a + 1)
    BY <2>3, ModSmall
  <2> QED
    BY <1>1, <2>3, <2>4 DEF t, p
<1>2. CASE a = n - 1 /\ b < m - 1
  <2>1. b + 1 \in 0 .. m - 1 /\ 0 \in 0 .. n - 1
    BY <1>2
  <2>2. (b + 1) * n + 0 \in 0 .. m * n - 1
    BY <2>1, Digits
  <2>3. b * n + a + 1 = (b + 1) * n + 0
    BY <1>2
  <2> DEFINE t == m * n
             p == (b + 1) * n + 0
  <2>4. p \in 0 .. t - 1 /\ t \in Nat /\ t > 0
    BY <1>0, <2>2
  <2> HIDE DEF t, p
  <2>5. p % t = p
    BY <2>4, ModSmall
  <2> QED
    BY <1>2, <2>3, <2>5 DEF t, p
<1>3. CASE a = n - 1 /\ b = m - 1
  <2>1. b * n + a + 1 = m * n
    BY <1>3
  <2> DEFINE t == m * n
  <2>2. t \in Nat /\ t > 0 /\ t = 1 * t + 0
    BY <1>0
  <2> HIDE DEF t
  <2>3. t % t = 0
    BY <2>2, DivisionIs
  <2> QED
    BY <1>3, <2>1, <2>3 DEF t
<1> QED
  BY <1>1, <1>2, <1>3

\* Where an index is in the order in which it walks, and which index is there.
Along(at, inc, first, last) == IF inc THEN at - first ELSE last - at
PlaceAt(p, inc, first, last) == IF inc THEN first + p ELSE last - p

LEMMA WalkIs ==
    ASSUME NEW first \in Int, NEW last \in Int, NEW at \in first .. last, NEW inc \in BOOLEAN
    PROVE  LET p == Along(at, inc, first, last)
               n == last - first + 1
               step == Colour!Walk(at, inc, first, last)
           IN  /\ p \in 0 .. n - 1 /\ PlaceAt(p, inc, first, last) = at
               /\ step.at = PlaceAt(IF p < n - 1 THEN p + 1 ELSE 0, inc, first, last)
               /\ step.wrapped <=> ~(p < n - 1)
<1>1. CASE inc
  BY <1>1 DEF Along, PlaceAt, Colour!Walk
<1>2. CASE ~inc
  BY <1>2 DEF Along, PlaceAt, Colour!Walk
<1> QED
  BY <1>1, <1>2

LEMMA PlaceIs ==
    ASSUME NEW first \in Int, NEW last \in Int, NEW inc \in BOOLEAN,
           NEW p \in 0 .. (last - first + 1) - 1
    PROVE  /\ PlaceAt(p, inc, first, last) \in first .. last
           /\ Along(PlaceAt(p, inc, first, last), inc, first, last) = p
BY DEF Along, PlaceAt

\* The registers, and the window with its columns and rows.
ScreenType ==
    [R03 : EntryModes, R20 : 0..LastRow, R21 : 0..LastColumn, R50 : 0..LastRow,
     R51 : 0..LastRow, R52 : 0..LastColumn, R53 : 0..LastColumn]
Wide(r) == r.R53 - r.R52 + 1
High(r) == r.R51 - r.R50 + 1
Inside(r, c) == c.x \in r.R52 .. r.R53 /\ c.y \in r.R50 .. r.R51
Cursors(r) == [x : r.R52 .. r.R53, y : r.R50 .. r.R51]

\* The order in which the cursor walks the window.
ColumnPlace(r, p) == PlaceAt(p, r.R03.colinc, r.R52, r.R53)
RowPlace(r, p) == PlaceAt(p, r.R03.rowinc, r.R50, r.R51)
Rank(r, c) ==
    LET col == Along(c.x, r.R03.colinc, r.R52, r.R53)
        row == Along(c.y, r.R03.rowinc, r.R50, r.R51)
    IN  IF r.R03.colfirst THEN row * Wide(r) + col ELSE col * High(r) + row
At(r, q) ==
    IF r.R03.colfirst
    THEN [x |-> ColumnPlace(r, q % Wide(r)), y |-> RowPlace(r, q \div Wide(r))]
    ELSE [x |-> ColumnPlace(r, q \div High(r)), y |-> RowPlace(r, q % High(r))]
Size(r) == High(r) * Wide(r)

LEMMA RegisterTypes ==
    ASSUME NEW r \in ScreenType
    PROVE  /\ r.R52 \in Int /\ r.R53 \in Int /\ r.R50 \in Int /\ r.R51 \in Int
           /\ Wide(r) \in Int /\ High(r) \in Int
           /\ r.R03.colinc \in BOOLEAN /\ r.R03.rowinc \in BOOLEAN /\ r.R03.colfirst \in BOOLEAN
BY ScreenAssumption DEF ScreenType, ScreenAssumption, EntryModes, Wide, High

\* Each cursor of the window has its place in the order, and its successor the next one.
LEMMA RankOfCursor ==
    ASSUME NEW r \in ScreenType, NEW c \in Cursors(r)
    PROVE  /\ Wide(r) > 0 /\ High(r) > 0 /\ Size(r) \in Nat /\ Size(r) > 0
           /\ Rank(r, c) \in 0 .. Size(r) - 1
           /\ At(r, Rank(r, c)) = c
           /\ Colour!NextCursor(r, c) = At(r, (Rank(r, c) + 1) % Size(r))
<1> DEFINE w == Wide(r)
           h == High(r)
           i == Along(c.x, r.R03.colinc, r.R52, r.R53)
           j == Along(c.y, r.R03.rowinc, r.R50, r.R51)
           i2 == IF i < w - 1 THEN i + 1 ELSE 0
           j2 == IF j < h - 1 THEN j + 1 ELSE 0
<1>0. /\ c.x \in r.R52 .. r.R53 /\ c.y \in r.R50 .. r.R51 /\ c = [x |-> c.x, y |-> c.y]
  BY DEF Cursors
<1>1. /\ w \in Nat /\ w > 0 /\ h \in Nat /\ h > 0
  BY <1>0, RegisterTypes DEF Wide, High
<1>2. /\ i \in 0 .. w - 1 /\ ColumnPlace(r, i) = c.x
      /\ Colour!update_col(r, c).at = ColumnPlace(r, i2)
      /\ Colour!update_col(r, c).wrapped <=> ~(i < w - 1)
  BY <1>0, RegisterTypes, WalkIs DEF Colour!update_col, ColumnPlace, Wide
<1>3. /\ j \in 0 .. h - 1 /\ RowPlace(r, j) = c.y
      /\ Colour!update_row(r, c).at = RowPlace(r, j2)
      /\ Colour!update_row(r, c).wrapped <=> ~(j < h - 1)
  BY <1>0, RegisterTypes, WalkIs DEF Colour!update_row, RowPlace, High
<1>m. i \in 0 .. w - 1 /\ j \in 0 .. h - 1
  BY <1>2, <1>3
<1>s. Size(r) = h * w /\ Size(r) = w * h /\ Size(r) \in Nat /\ Size(r) > 0
  <2> HIDE DEF w, h
  <2>1. h * w = w * h /\ h * w \in Nat /\ h * w > 0
    BY <1>1
  <2> QED
    BY <2>1 DEF Size, w, h
<1>4. Colour!NextCursor(r, c) =
         IF r.R03.colfirst
         THEN [x |-> ColumnPlace(r, i2), y |-> IF i < w - 1 THEN c.y ELSE RowPlace(r, j2)]
         ELSE [x |-> IF j < h - 1 THEN c.x ELSE ColumnPlace(r, i2), y |-> RowPlace(r, j2)]
  <2> DEFINE col == Colour!update_col(r, c)
             row == Colour!update_row(r, c)
  <2>1. /\ col.at = ColumnPlace(r, i2) /\ (col.wrapped <=> ~(i < w - 1))
        /\ row.at = RowPlace(r, j2) /\ (row.wrapped <=> ~(j < h - 1))
    BY <1>2, <1>3
  <2>2. Colour!NextCursor(r, c) =
          IF r.R03.colfirst
          THEN [x |-> col.at, y |-> IF col.wrapped THEN row.at ELSE c.y]
          ELSE [x |-> IF row.wrapped THEN col.at ELSE c.x, y |-> row.at]
    BY DEF Colour!NextCursor
  <2> HIDE DEF i, j, i2, j2, w, h, col, row
  <2> QED
    BY <2>1, <2>2
<1>5. Rank(r, c) = IF r.R03.colfirst THEN j * w + i ELSE i * h + j
  BY DEF Rank
<1>6. \A q : At(r, q) = IF r.R03.colfirst
                        THEN [x |-> ColumnPlace(r, q % w), y |-> RowPlace(r, q \div w)]
                        ELSE [x |-> ColumnPlace(r, q \div h), y |-> RowPlace(r, q % h)]
  BY DEF At
<1> HIDE DEF i, j, w, h
<1>7. CASE r.R03.colfirst
  <2>1. /\ j * w + i \in 0 .. h * w - 1
        /\ (j * w + i) % w = i /\ (j * w + i) \div w = j
    BY <1>1, <1>2, <1>3, Digits
  <2> DEFINE a2 == IF i < w - 1 THEN j ELSE j2
             k == j * w + i + 1
  <2>2. k % (h * w) = a2 * w + i2
    BY <1>1, <1>2, <1>3, NextDigits
  <2>3. i2 \in 0 .. w - 1 /\ a2 \in 0 .. h - 1
    BY <1>1, <1>m
  <2>4. (a2 * w + i2) % w = i2 /\ (a2 * w + i2) \div w = a2
    <3> HIDE DEF a2, i2
    <3> QED
      BY <1>1, <2>3, Digits
  <2>5. RowPlace(r, a2) = IF i < w - 1 THEN c.y ELSE RowPlace(r, j2)
    BY <1>3
  <2> HIDE DEF a2, i2, j2
  <2>6. Colour!NextCursor(r, c) = [x |-> ColumnPlace(r, i2), y |-> RowPlace(r, a2)]
    BY <1>4, <1>7, <2>5
  <2>7. At(r, k % Size(r)) = [x |-> ColumnPlace(r, i2), y |-> RowPlace(r, a2)]
    BY <1>s, <1>6, <1>7, <2>2, <2>4
  <2>8. At(r, j * w + i) = c
    BY <1>0, <1>2, <1>3, <1>6, <1>7, <2>1
  <2>9. Rank(r, c) = j * w + i
    BY <1>5, <1>7
  <2> QED
    BY <1>s, <1>1, <2>1, <2>6, <2>7, <2>8, <2>9 DEF w, h
<1>8. CASE ~r.R03.colfirst
  <2>1. /\ i * h + j \in 0 .. w * h - 1
        /\ (i * h + j) % h = j /\ (i * h + j) \div h = i
    BY <1>1, <1>2, <1>3, Digits
  <2> DEFINE a2 == IF j < h - 1 THEN i ELSE i2
             k == i * h + j + 1
  <2>2. k % (w * h) = a2 * h + j2
    BY <1>1, <1>2, <1>3, NextDigits
  <2>3. j2 \in 0 .. h - 1 /\ a2 \in 0 .. w - 1
    BY <1>1, <1>m
  <2>4. (a2 * h + j2) % h = j2 /\ (a2 * h + j2) \div h = a2
    <3> HIDE DEF a2, j2
    <3> QED
      BY <1>1, <2>3, Digits
  <2>5. ColumnPlace(r, a2) = IF j < h - 1 THEN c.x ELSE ColumnPlace(r, i2)
    BY <1>2
  <2> HIDE DEF a2, i2, j2
  <2>6. Colour!NextCursor(r, c) = [x |-> ColumnPlace(r, a2), y |-> RowPlace(r, j2)]
    BY <1>4, <1>8, <2>5
  <2>7. At(r, k % Size(r)) = [x |-> ColumnPlace(r, a2), y |-> RowPlace(r, j2)]
    BY <1>s, <1>6, <1>8, <2>2, <2>4
  <2>8. At(r, i * h + j) = c
    BY <1>0, <1>2, <1>3, <1>6, <1>8, <2>1
  <2>9. Rank(r, c) = i * h + j
    BY <1>5, <1>8
  <2> QED
    BY <1>s, <1>1, <2>1, <2>6, <2>7, <2>8, <2>9 DEF w, h
<1> QED
  BY <1>7, <1>8

\* And each place of the order has its cursor.
LEMMA CursorAt ==
    ASSUME NEW r \in ScreenType, Wide(r) > 0, High(r) > 0, NEW q \in 0 .. Size(r) - 1
    PROVE  At(r, q) \in Cursors(r) /\ Rank(r, At(r, q)) = q
<1> DEFINE w == Wide(r)
           h == High(r)
<1>1. w \in Nat /\ w > 0 /\ h \in Nat /\ h > 0
  BY RegisterTypes
<1>2. Size(r) = h * w /\ Size(r) = w * h
  <2> HIDE DEF w, h
  <2>1. h * w = w * h
    BY <1>1
  <2> QED
    BY <2>1 DEF Size, w, h
<1>3. \A p \in 0 .. w - 1 : /\ ColumnPlace(r, p) \in r.R52 .. r.R53
                            /\ Along(ColumnPlace(r, p), r.R03.colinc, r.R52, r.R53) = p
  BY RegisterTypes, PlaceIs DEF ColumnPlace, Wide
<1>4. \A p \in 0 .. h - 1 : /\ RowPlace(r, p) \in r.R50 .. r.R51
                            /\ Along(RowPlace(r, p), r.R03.rowinc, r.R50, r.R51) = p
  BY RegisterTypes, PlaceIs DEF RowPlace, High
<1>5. At(r, q) = IF r.R03.colfirst
                 THEN [x |-> ColumnPlace(r, q % w), y |-> RowPlace(r, q \div w)]
                 ELSE [x |-> ColumnPlace(r, q \div h), y |-> RowPlace(r, q % h)]
  BY DEF At
<1>6. \A c : Rank(r, c) = LET col == Along(c.x, r.R03.colinc, r.R52, r.R53)
                              row == Along(c.y, r.R03.rowinc, r.R50, r.R51)
                          IN  IF r.R03.colfirst THEN row * w + col ELSE col * h + row
  BY DEF Rank
<1> HIDE DEF w, h
<1>7. CASE r.R03.colfirst
  <2>1. q \div w \in 0 .. h - 1 /\ q % w \in 0 .. w - 1 /\ q = (q \div w) * w + (q % w)
    BY <1>1, <1>2, DigitsOf
  <2> DEFINE a == q \div w
             b == q % w
  <2> HIDE DEF a, b
  <2>2. a \in 0 .. h - 1 /\ b \in 0 .. w - 1 /\ q = a * w + b
    BY <2>1 DEF a, b
  <2>3. At(r, q) = [x |-> ColumnPlace(r, b), y |-> RowPlace(r, a)]
    BY <1>5, <1>7 DEF a, b
  <2>4. At(r, q) \in Cursors(r)
    BY <1>3, <1>4, <2>2, <2>3 DEF Cursors
  <2>5. Rank(r, At(r, q)) = a * w + b
    BY <1>3, <1>4, <1>6, <1>7, <2>2, <2>3
  <2> QED
    BY <2>2, <2>4, <2>5
<1>8. CASE ~r.R03.colfirst
  <2>1. q \div h \in 0 .. w - 1 /\ q % h \in 0 .. h - 1 /\ q = (q \div h) * h + (q % h)
    BY <1>1, <1>2, DigitsOf
  <2> DEFINE a == q \div h
             b == q % h
  <2> HIDE DEF a, b
  <2>2. a \in 0 .. w - 1 /\ b \in 0 .. h - 1 /\ q = a * h + b
    BY <2>1 DEF a, b
  <2>3. At(r, q) = [x |-> ColumnPlace(r, a), y |-> RowPlace(r, b)]
    BY <1>5, <1>8 DEF a, b
  <2>4. At(r, q) \in Cursors(r)
    BY <1>3, <1>4, <2>2, <2>3 DEF Cursors
  <2>5. Rank(r, At(r, q)) = a * h + b
    BY <1>3, <1>4, <1>6, <1>8, <2>2, <2>3
  <2> QED
    BY <2>2, <2>4, <2>5
<1> QED
  BY <1>7, <1>8

LEMMA Sized ==
    ASSUME NEW r \in ScreenType, Wide(r) > 0, High(r) > 0, Size(r) \in Nat
    PROVE  Cardinality(Cursors(r)) = Size(r)
<1> DEFINE S == 0 .. Size(r) - 1
           T == Cursors(r)
           f == [q \in S |-> At(r, q)]
<1>1. f \in [S -> T]
  BY CursorAt
<1>2. \A p, q \in S : f[p] = f[q] => p = q
  <2>1. \A q \in S : f[q] = At(r, q) /\ Rank(r, At(r, q)) = q
    BY CursorAt
  <2> HIDE DEF f
  <2> QED
    BY <2>1
<1>3. \A c \in T : \E q \in S : f[q] = c
  <2> SUFFICES ASSUME NEW c \in T PROVE \E q \in S : f[q] = c
    OBVIOUS
  <2>1. Rank(r, c) \in S /\ At(r, Rank(r, c)) = c
    BY RankOfCursor
  <2> QED
    BY <2>1
<1>4. f \in Bijection(S, T)
  <2> HIDE DEF f, S, T
  <2> QED
    BY <1>1, <1>2, <1>3 DEF Bijection, Injection, Surjection, IsInjective
<1>5. IsFiniteSet(S) /\ Cardinality(S) = Size(r)
  BY FS_Interval
<1>6. ExistsBijection(S, T)
  BY <1>4 DEF ExistsBijection
<1> HIDE DEF S, T
<1>7. Cardinality(T) = Cardinality(S)
  BY <1>5, <1>6, FS_Bijection
<1> QED
  BY <1>5, <1>7 DEF T

\* Walking as many steps as the window has pixels.
LEMMA WalkedRound ==
    ASSUME NEW r \in ScreenType, NEW c \in Cursors(r), NEW n, n = Size(r)
    PROVE  LET steps[k \in 0 .. n] == IF k = 0 THEN c ELSE Colour!NextCursor(r, steps[k - 1])
           IN  {steps[k] : k \in 1 .. n} = Cursors(r) /\ steps[n] = c
<1> DEFINE P(g) == g = [k \in 0 .. n |-> IF k = 0 THEN c ELSE Colour!NextCursor(r, g[k - 1])]
           p == Rank(r, c)
           w == [k \in 0 .. n |-> At(r, (p + k) % n)]
           F == CHOOSE g : P(g)
<1>0. /\ n \in Nat /\ n > 0 /\ p \in 0 .. n - 1 /\ At(r, p) = c /\ Wide(r) > 0 /\ High(r) > 0
  BY RankOfCursor
<1>1. \A i \in Int : i % n \in 0 .. n - 1
  BY <1>0
<1>2. \A q \in 0 .. n - 1 : Colour!NextCursor(r, At(r, q)) = At(r, (q + 1) % n)
  <2> SUFFICES ASSUME NEW q \in 0 .. n - 1
               PROVE  Colour!NextCursor(r, At(r, q)) = At(r, (q + 1) % n)
    OBVIOUS
  <2>1. At(r, q) \in Cursors(r) /\ Rank(r, At(r, q)) = q
    BY <1>0, CursorAt
  <2> QED
    BY <2>1, RankOfCursor
<1> HIDE DEF p
<1>3. w[0] = c
  <2>1. (p + 0) % n = p
    BY <1>0, ModSmall
  <2> QED
    BY <1>0, <2>1
<1>4. ASSUME NEW k \in 0 .. n, k # 0 PROVE w[k] = Colour!NextCursor(r, w[k - 1])
  <2> DEFINE q == (p + (k - 1)) % n
  <2>1. k - 1 \in 0 .. n /\ p + (k - 1) \in Int /\ p \in Int
    BY <1>0, <1>4
  <2>2. q \in 0 .. n - 1 /\ w[k - 1] = At(r, q)
    BY <1>1, <2>1
  <2>3. (q + 1) % n = (p + k) % n
    <3> DEFINE e == p + (k - 1)
    <3>1. e \in Int /\ e + 1 = p + k
      BY <2>1
    <3> HIDE DEF e
    <3>2. ((e % n) + 1) % n = (e + 1) % n
      BY <1>0, <3>1, ModEarly
    <3> QED
      BY <3>1, <3>2 DEF e
  <2> HIDE DEF q
  <2> QED
    BY <1>2, <2>2, <2>3
<1>5. P(w)
  <2> HIDE DEF w
  <2>1. w = [k \in 0 .. n |-> w[k]]
    BY DEF w
  <2> QED
    BY <1>0, <1>3, <1>4, <2>1
<1>6. P(F)
  <2> HIDE DEF P, w
  <2> QED
    BY <1>5
<1>7. \A k \in 0 .. n : F[k] = w[k]
  <2> DEFINE S == {j \in Nat : j \in 0 .. n => F[j] = w[j]}
  <2> HIDE DEF F, w
  <2>0. /\ F = [k \in 0 .. n |-> IF k = 0 THEN c ELSE Colour!NextCursor(r, F[k - 1])]
        /\ w = [k \in 0 .. n |-> IF k = 0 THEN c ELSE Colour!NextCursor(r, w[k - 1])]
    BY <1>5, <1>6
  <2>1. 0 \in S
    BY <1>0, <2>0
  <2>2. ASSUME NEW k \in Nat, k \in S PROVE k + 1 \in S
    <3> SUFFICES ASSUME k + 1 \in 0 .. n PROVE F[k + 1] = w[k + 1]
      OBVIOUS
    <3>1. k \in 0 .. n /\ k + 1 # 0 /\ (k + 1) - 1 = k
      BY <1>0
    <3>2. F[k] = w[k]
      BY <2>2, <3>1
    <3> QED
      BY <2>0, <3>1, <3>2
  <2> HIDE DEF S
  <2>3. Nat \subseteq S
    BY <2>1, <2>2, Induct
  <2> QED
    BY <1>0, <2>3 DEF S
<1>8. {F[k] : k \in 1 .. n} = Cursors(r)
  <2> HIDE DEF F
  <2>1. ASSUME NEW k \in 1 .. n PROVE F[k] \in Cursors(r)
    <3>1. k \in 0 .. n /\ (p + k) \in Int
      BY <1>0
    <3>2. F[k] = At(r, (p + k) % n) /\ (p + k) % n \in 0 .. n - 1
      BY <1>1, <1>7, <3>1
    <3> QED
      BY <1>0, <3>2, CursorAt
  <2>2. ASSUME NEW d \in Cursors(r) PROVE \E k \in 1 .. n : F[k] = d
    <3> DEFINE q == Rank(r, d)
               k == IF q > p THEN q - p ELSE q - p + n
    <3>1. q \in 0 .. n - 1 /\ At(r, q) = d
      BY RankOfCursor
    <3> HIDE DEF q
    <3>2. k \in 1 .. n /\ k \in 0 .. n /\ q \in Int /\ p + k = (IF q > p THEN q ELSE q + n)
      BY <1>0, <3>1
    <3>3. (p + k) % n = q
      <4>1. CASE q > p
        BY <1>0, <3>1, <3>2, <4>1, ModSmall
      <4>2. CASE ~(q > p)
        <5>1. q + n = 1 * n + q /\ q + n \in Int /\ q >= 0 /\ q < n
          BY <1>0, <3>1
        <5>2. (q + n) % n = q
          BY <1>0, <3>2, <5>1, DivisionIs
        <5> QED
          BY <3>2, <4>2, <5>2
      <4> QED
        BY <4>1, <4>2
    <3> HIDE DEF k
    <3>4. F[k] = d
      BY <1>7, <3>1, <3>2, <3>3
    <3> QED
      BY <3>2, <3>4
  <2> QED
    BY <2>1, <2>2
<1>9. F[n] = c
  <2> HIDE DEF F
  <2>1. n \in 0 .. n /\ p + n = 1 * n + p /\ p + n \in Int /\ p \in Int /\ p >= 0 /\ p < n
    BY <1>0
  <2>2. (p + n) % n = p
    BY <1>0, <2>1, DivisionIs
  <2> QED
    BY <1>0, <1>7, <2>1, <2>2
<1> QED
  BY <1>8, <1>9 DEF F, P

LEMMA Filled ==
    ASSUME xreg \in ScreenType, xcur = [x |-> xcur.x, y |-> xcur.y]
    PROVE  Colour!WindowFilled
<1> DEFINE r == xreg
           c == xcur
           n == Cardinality(Colour!Window)
<1>1. Colour!InWindow(c) => c \in Cursors(r)
  BY DEF Colour!InWindow, Cursors
<1>2. Colour!Window = Cursors(r)
  BY DEF Colour!Window, Cursors
<1>3. ASSUME c \in Cursors(r) PROVE n = Size(r)
  BY <1>2, <1>3, RankOfCursor, Sized
<1>4. ASSUME c \in Cursors(r) PROVE Colour!InWindow(Colour!NextCursor(r, c))
  <2>1. /\ Wide(r) > 0 /\ High(r) > 0 /\ Size(r) \in Nat /\ Size(r) > 0 /\ Rank(r, c) \in Int
        /\ Colour!NextCursor(r, c) = At(r, (Rank(r, c) + 1) % Size(r))
    BY <1>4, RankOfCursor
  <2>2. (Rank(r, c) + 1) % Size(r) \in 0 .. Size(r) - 1
    BY <2>1
  <2>3. Colour!NextCursor(r, c) \in Cursors(r)
    BY <2>1, <2>2, CursorAt
  <2> QED
    BY <2>3 DEF Cursors, Colour!InWindow
<1>5. ASSUME c \in Cursors(r)
      PROVE  LET steps[k \in 0 .. n] == IF k = 0 THEN c ELSE Colour!NextCursor(r, steps[k - 1])
             IN  {steps[k] : k \in 1 .. n} = Cursors(r) /\ steps[n] = c
  <2> HIDE DEF n
  <2> QED
    BY <1>3, <1>5, WalkedRound
<1>6. Colour!InWindow(c) =>
         LET steps[k \in 0 .. n] == IF k = 0 THEN c ELSE Colour!NextCursor(r, steps[k - 1])
         IN  {steps[k] : k \in 1 .. n} = Colour!Window /\ steps[n] = c
  <2> HIDE DEF n
  <2> QED
    BY <1>1, <1>2, <1>5
<1>7. Colour!InWindow(c) => Colour!InWindow(Colour!NextCursor(r, c))
  BY <1>1, <1>4
<1> QED
  BY <1>6, <1>7, Zenon DEF Colour!WindowFilled, Cardinality, Colour!Cardinality

\* Its registers and its cursor.
CursorInv ==
    /\ xreg \in ScreenType /\ xcur \in [x : 0..LastColumn, y : 0..LastRow]
    /\ xio.read \in 0..1

LEMMA CursorStart == Colour!XcInit => CursorInv
<1> SUFFICES ASSUME Colour!XcInit PROVE CursorInv
  OBVIOUS
<1>1. /\ 0 \in 0..LastColumn /\ Width - 1 \in 0..LastColumn
      /\ 0 \in 0..LastRow /\ Height - 1 \in 0..LastRow
  BY ScreenAssumption DEF ScreenAssumption
<1>2. Colour!FromReset \in ScreenType
  BY <1>1 DEF Colour!FromReset, ScreenType, EntryModes
<1> QED
  BY <1>1, <1>2 DEF Colour!XcInit, CursorInv

LEMMA NextCursorTyped ==
    ASSUME NEW r \in ScreenType, NEW c \in [x : 0..LastColumn, y : 0..LastRow]
    PROVE  Colour!NextCursor(r, c) \in [x : 0..LastColumn, y : 0..LastRow]
<1>0. /\ LastColumn \in Nat /\ LastRow \in Nat
      /\ r.R52 \in 0..LastColumn /\ r.R53 \in 0..LastColumn
      /\ r.R50 \in 0..LastRow /\ r.R51 \in 0..LastRow
      /\ c.x \in 0..LastColumn /\ c.y \in 0..LastRow
  BY ScreenAssumption DEF ScreenAssumption, ScreenType
<1>1. \A inc, n : \A at, first, last \in 0..n :
         n \in Nat => Colour!Walk(at, inc, first, last).at \in 0..n
  BY DEF Colour!Walk
<1>2. /\ Colour!update_col(r, c).at \in 0..LastColumn
      /\ Colour!update_row(r, c).at \in 0..LastRow
  BY <1>0, <1>1 DEF Colour!update_col, Colour!update_row
<1> QED
  BY <1>0, <1>2 DEF Colour!NextCursor

LEMMA CursorStep ==
    ASSUME ColourInv, CursorInv, Colour!XcNext
    PROVE  CursorInv'
<1> DEFINE T == [x : 0..LastColumn, y : 0..LastRow]
<1>0. /\ xio.index \in Colour!Indices /\ DOMAIN xio = {"index", "read", "write"}
      /\ xreg \in ScreenType /\ xcur \in T /\ xio.read \in 0..1
  BY DEF ColourInv, CursorInv
<1>1. ASSUME NEW i \in Colour!Indices, Colour!xc_lcd_control(i) PROVE CursorInv'
  BY <1>0, <1>1 DEF Colour!xc_lcd_control, CursorInv
<1>2. ASSUME NEW i \in DOMAIN Settings, NEW v \in Settings[i], Colour!WriteRegister(i, v)
      PROVE  CursorInv'
  <2>1. xio'.read = 0
    BY <1>0, <1>2 DEF Colour!WriteRegister
  <2>2. CASE UNCHANGED <<xreg, xcur>>
    BY <1>0, <2>1, <2>2 DEF CursorInv
  <2>3. CASE Colour!write_reg(i, v) /\ i # "other"
    <3>1. i \in {"R03", "R20", "R21", "R50", "R51", "R52", "R53"}
      BY <2>3, ScreenAssumption DEF ScreenAssumption
    <3>2. xreg' = [xreg EXCEPT ![i] = v]
      BY <2>3 DEF Colour!write_reg
    <3>3. xreg' \in ScreenType
      <4>1. CASE i = "R03"
        <5>1. v \in EntryModes
          BY <4>1, ScreenAssumption DEF ScreenAssumption
        <5> QED
          BY <1>0, <3>2, <4>1, <5>1 DEF ScreenType
      <4>2. CASE i \in {"R20", "R50", "R51"}
        <5>1. v \in 0..LastRow
          BY <4>2, ScreenAssumption DEF ScreenAssumption
        <5> QED
          BY <1>0, <3>2, <4>2, <5>1 DEF ScreenType
      <4>3. CASE i \in {"R21", "R52", "R53"}
        <5>1. v \in 0..LastColumn
          BY <4>3, ScreenAssumption DEF ScreenAssumption
        <5> QED
          BY <1>0, <3>2, <4>3, <5>1 DEF ScreenType
      <4> QED
        BY <3>1, <4>1, <4>2, <4>3
    <3>4. \A r \in ScreenType : \A m : /\ Colour!set_loc(r) \in T
                                       /\ Colour!set_org(r, m, xcur) \in T
      BY <1>0 DEF Colour!set_loc, Colour!set_org, Colour!Origin, ScreenType
    <3>5. xcur' \in T
      <4>1. xcur' \in {Colour!set_loc(xreg'), Colour!set_org(xreg', xreg'.R03, xcur), xcur}
        <5>1. CASE i \in {"R20", "R21"}
          BY <2>3, <5>1 DEF Colour!write_reg
        <5>2. CASE i \in {"R50", "R51", "R52", "R53"}
          BY <2>3, <5>2 DEF Colour!write_reg
        <5>3. CASE i = "R03"
          BY <2>3, <5>3 DEF Colour!write_reg
        <5> QED
          BY <3>1, <5>1, <5>2, <5>3
      <4> QED
        BY <1>0, <3>3, <3>4, <4>1
    <3> QED
      BY <2>1, <3>3, <3>5 DEF CursorInv
  <2> QED
    BY <1>2, <2>2, <2>3 DEF Colour!WriteRegister
<1>3. ASSUME Colour!WritePixel PROVE CursorInv'
  <2>1. xio'.read = 0 /\ xreg' = xreg /\ xcur' \in {Colour!NextCursor(xreg, xcur), xcur}
    BY <1>0, <1>3 DEF Colour!WritePixel
  <2>2. xcur' \in T
    BY <1>0, <2>1, NextCursorTyped
  <2> QED
    BY <1>0, <2>1, <2>2 DEF CursorInv
<1>4. ASSUME Colour!xc_lcd_read PROVE CursorInv'
  BY <1>0, <1>4 DEF Colour!xc_lcd_read, CursorInv
<1>5. ASSUME Colour!XcReset PROVE CursorInv'
  <2>1. /\ 0 \in 0..LastColumn /\ Width - 1 \in 0..LastColumn
        /\ 0 \in 0..LastRow /\ Height - 1 \in 0..LastRow
    BY ScreenAssumption DEF ScreenAssumption
  <2>2. Colour!FromReset \in ScreenType
    BY <2>1 DEF Colour!FromReset, ScreenType, EntryModes
  <2> QED
    BY <1>5, <2>1, <2>2 DEF Colour!XcReset, CursorInv
<1> QED
  BY <1>1, <1>2, <1>3, <1>4, <1>5 DEF Colour!XcNext

-----------------------------------------------------------------------------
(* The frame of the colour LCD.                                            *)

FrameType ==
    [scn : Nat, nl : Nat, flip : BOOLEAN, invert : BOOLEAN, scroll : BOOLEAN, vl : Nat,
     base : BOOLEAN, p0 : Partials, p1 : Partials]
FrameInv == frame \in FrameType

LEMMA FrameStart == Frame!FrameInit => FrameInv
<1>1. Columns \div Unit - 1 \in Nat
  <2> DEFINE d == Columns \div Unit
             m == Columns % Unit
  <2>0. Unit \in Nat /\ Unit > 0 /\ Columns \in Nat /\ Unit <= Columns
    BY FrameAssumption DEF FrameAssumption
  <2>1. Columns = d * Unit + m /\ d \in Int /\ m \in Int /\ m < Unit
    BY <2>0, Division
  <2> HIDE DEF d, m
  <2>2. d >= 1
    <3> SUFFICES ASSUME d <= 0 PROVE FALSE
      BY <2>1
    <3>1. -d \in Nat /\ (-d) * Unit >= 0 /\ (-d) * Unit = -(d * Unit) /\ d * Unit \in Int
      BY <2>0, <2>1
    <3> QED
      BY <2>0, <2>1, <3>1
  <2> QED
    BY <2>1, <2>2 DEF d
<1>2. Frame!PartialReset \in Partials
  BY FrameAssumption DEF FrameAssumption, Frame!PartialReset, Partials
<1> QED
  BY <1>1, <1>2 DEF Frame!FrameInit, Frame!FrameReset, FrameInv, FrameType

LEMMA FrameStep ==
    ASSUME FrameInv, Frame!FrameNext
    PROVE  FrameInv'
<1>1. PICK i \in DOMAIN FrameSettings : \E v \in FrameSettings[i] : Frame!SetFrame(i, v)
  BY DEF Frame!FrameNext
<1>2. PICK v \in FrameSettings[i] : frame' = [frame EXCEPT ![i] = v]
  BY <1>1 DEF Frame!SetFrame
<1>3. FrameSettings \in [scn : SUBSET Nat, nl : SUBSET Nat, flip : SUBSET BOOLEAN,
                         invert : SUBSET BOOLEAN, scroll : SUBSET BOOLEAN, vl : SUBSET Nat,
                         base : SUBSET BOOLEAN, p0 : SUBSET Partials, p1 : SUBSET Partials]
  BY FrameAssumption DEF FrameAssumption
<1>4. frame \in FrameType
  BY DEF FrameInv
<1>5. CASE i \in {"scn", "nl", "vl"}
  <2>1. v \in Nat
    BY <1>3, <1>5
  <2> QED
    BY <1>2, <1>4, <1>5, <2>1 DEF FrameInv, FrameType
<1>6. CASE i \in {"flip", "invert", "scroll", "base"}
  <2>1. v \in BOOLEAN
    BY <1>3, <1>6
  <2> QED
    BY <1>2, <1>4, <1>6, <2>1 DEF FrameInv, FrameType
<1>7. CASE i \in {"p0", "p1"}
  <2>1. v \in Partials
    BY <1>3, <1>7
  <2> QED
    BY <1>2, <1>4, <1>7, <2>1 DEF FrameInv, FrameType
<1> QED
  BY <1>3, <1>5, <1>6, <1>7

LEMMA ColumnsPositive == Columns \in Nat /\ Columns > 0 /\ Unit \in Nat
BY FrameAssumption DEF FrameAssumption

LEMMA FrameSizes ==
    ASSUME NEW r \in FrameType
    PROVE  /\ Frame!colstart(r) \in 0 .. Columns
           /\ Frame!colcount(r) \in 0 .. (Columns - Frame!colstart(r))
<1> DEFINE a == r.scn * Unit
           b == r.nl * Unit + Unit
<1>1. a \in Nat /\ b \in Nat
  BY ColumnsPositive DEF FrameType
<1> HIDE DEF a, b
<1>2. Frame!colstart(r) = Frame!AtMost(a, Columns)
  BY DEF Frame!colstart, a
<1>3. Frame!colcount(r) = Frame!AtMost(b, Columns - Frame!colstart(r))
  BY DEF Frame!colcount, b
<1>4. Frame!colstart(r) \in 0 .. Columns
  BY <1>1, <1>2, ColumnsPositive DEF Frame!AtMost
<1> QED
  BY <1>1, <1>3, <1>4, ColumnsPositive DEF Frame!AtMost

\* The columns that a piece of an image shows, from the left of the screen.
LEMMA Piece ==
    ASSUME NEW r \in FrameType, r.flip => r.invert, NEW from \in Nat, NEW n \in Nat
    PROVE  /\ Frame!fill_image(r, from, n) \in Seq(Nat)
           /\ Len(Frame!fill_image(r, from, n)) = n
           /\ \A k \in 1 .. n : Frame!fill_image(r, from, n)[k] =
                 IF r.flip THEN from + n - k ELSE from + k - 1
<1> DEFINE piece == [i \in 1 .. n |-> from + i - 1]
<1>1. piece \in Seq(Nat) /\ Len(piece) = n /\ \A i \in 1 .. n : piece[i] = from + i - 1
  OBVIOUS
<1>2. CASE ~r.flip
  <2>1. Frame!fill_image(r, from, n) = piece
    BY <1>2 DEF Frame!fill_image
  <2> HIDE DEF piece
  <2> QED
    BY <1>1, <1>2, <2>1
<1>3. CASE r.flip
  <2> DEFINE back == [i \in 1 .. n |-> piece[(n - i) + 1]]
  <2>1. Frame!fill_image(r, from, n) = [i \in 1 .. Len(piece) |-> piece[(Len(piece) - i) + 1]]
    BY <1>3 DEF Frame!fill_image, Frame!Reverse
  <2>2. Frame!fill_image(r, from, n) = back
    BY <1>1, <2>1
  <2>3. \A i \in 1 .. n : (n - i) + 1 \in 1 .. n /\ back[i] = from + n - i
    <3> SUFFICES ASSUME NEW i \in 1 .. n
                 PROVE  (n - i) + 1 \in 1 .. n /\ back[i] = from + n - i
      OBVIOUS
    <3>1. (n - i) + 1 \in 1 .. n
      OBVIOUS
    <3> QED
      BY <1>1, <3>1
  <2>4. back \in Seq(Nat) /\ Len(back) = n
    BY <2>3
  <2> HIDE DEF piece, back
  <2> QED
    BY <1>3, <2>2, <2>3, <2>4
<1> QED
  BY <1>2, <1>3

\* And those of an image that may go round the end of the memory.
LEMMA Scrolled ==
    ASSUME NEW r \in FrameType, r.flip => r.invert, NEW offset \in Nat, NEW n \in 0 .. Columns,
           NEW k \in 1 .. n
    PROVE  Frame!fill_scrolled_image(r, offset, n)[k] =
              IF r.flip THEN (offset + n - k) % Columns ELSE (offset + k - 1) % Columns
<1> DEFINE from == IF offset > Columns THEN offset % Columns ELSE offset
           n1 == Columns - from
           j == IF r.flip THEN n - k ELSE k - 1
           f == Frame!fill_image(r, from, n1)
           g == Frame!fill_image(r, 0, n - n1)
<1>0. Columns \in Nat /\ Columns > 0
  BY ColumnsPositive
<1>1. from \in 0 .. Columns /\ from \in Nat /\ n1 \in Nat
  <2>1. CASE offset > Columns
    <3>1. offset % Columns \in 0 .. (Columns - 1)
      BY <1>0
    <3> QED
      BY <1>0, <2>1, <3>1
  <2>2. CASE ~(offset > Columns)
    BY <1>0, <2>2
  <2> QED
    BY <2>1, <2>2
<1>2. (from + j) % Columns = (offset + j) % Columns /\ j \in 0 .. n - 1
  <2>1. j \in 0 .. n - 1 /\ j \in Int
    <3>1. n \in Nat /\ k \in Nat
      BY <1>0
    <3>2. CASE r.flip
      BY <3>1, <3>2
    <3>3. CASE ~r.flip
      BY <3>1, <3>3
    <3> QED
      BY <3>2, <3>3
  <2> HIDE DEF j
  <2>2. ((offset % Columns) + j) % Columns = (offset + j) % Columns
    <3>1. offset \in Int
      OBVIOUS
    <3> QED
      BY <1>0, <2>1, <3>1, ModEarly, Zenon
  <2> QED
    BY <2>1, <2>2
<1>3. Frame!fill_scrolled_image(r, offset, n) =
         IF from + n <= Columns THEN Frame!fill_image(r, from, n)
         ELSE IF r.flip THEN g \o f ELSE f \o g
  BY DEF Frame!fill_scrolled_image
<1> HIDE DEF from
<1>4. CASE from + n <= Columns
  <2>1. Frame!fill_scrolled_image(r, offset, n)[k] = from + j
    BY <1>1, <1>3, <1>4, Piece
  <2>2. from + j \in 0 .. Columns - 1
    BY <1>0, <1>1, <1>2, <1>4
  <2>3. (from + j) % Columns = from + j
    <3> HIDE DEF j
    <3> QED
      BY <1>0, <2>2, ModSmall
  <2> QED
    BY <1>2, <2>1, <2>3
<1>5. CASE ~(from + n <= Columns)
  <2>0. n1 \in Nat /\ n - n1 \in Nat /\ n1 <= n
    BY <1>0, <1>1, <1>5
  <2>1. /\ f \in Seq(Nat) /\ Len(f) = n1
        /\ \A i \in 1 .. n1 : f[i] = IF r.flip THEN from + n1 - i ELSE from + i - 1
    BY <1>1, <2>0, Piece
  <2>2. /\ g \in Seq(Nat) /\ Len(g) = n - n1
        /\ \A i \in 1 .. (n - n1) : g[i] = IF r.flip THEN 0 + (n - n1) - i ELSE 0 + i - 1
    BY <1>1, <2>0, Piece
  <2> HIDE DEF f, g
  <2>3. Frame!fill_scrolled_image(r, offset, n)[k] =
           IF from + j < Columns THEN from + j ELSE (from + j) - Columns
    <3>1. CASE r.flip
      <4>1. Frame!fill_scrolled_image(r, offset, n) = g \o f
        BY <1>3, <1>5, <3>1
      <4>2. CASE k <= n - n1
        <5>1. (g \o f)[k] = g[k] /\ k \in 1 .. (n - n1)
          BY <2>0, <2>1, <2>2, <4>2
        <5> QED
          BY <1>0, <1>1, <2>0, <2>2, <3>1, <4>1, <4>2, <5>1
      <4>3. CASE ~(k <= n - n1)
        <5>1. (g \o f)[k] = f[k - (n - n1)] /\ k - (n - n1) \in 1 .. n1
          BY <2>0, <2>1, <2>2, <4>3
        <5> QED
          BY <1>0, <1>1, <2>0, <2>1, <3>1, <4>1, <4>3, <5>1
      <4> QED
        BY <4>2, <4>3
    <3>2. CASE ~r.flip
      <4>1. Frame!fill_scrolled_image(r, offset, n) = f \o g
        BY <1>3, <1>5, <3>2
      <4>2. CASE k <= n1
        <5>1. (f \o g)[k] = f[k] /\ k \in 1 .. n1
          BY <2>0, <2>1, <2>2, <4>2
        <5> QED
          BY <1>0, <1>1, <2>0, <2>1, <3>2, <4>1, <4>2, <5>1
      <4>3. CASE ~(k <= n1)
        <5>1. (f \o g)[k] = g[k - n1] /\ k - n1 \in 1 .. (n - n1)
          BY <2>0, <2>1, <2>2, <4>3
        <5> QED
          BY <1>0, <1>1, <2>0, <2>2, <3>2, <4>1, <4>3, <5>1
      <4> QED
        BY <4>2, <4>3
    <3> QED
      BY <3>1, <3>2
  <2>4. (from + j) % Columns = IF from + j < Columns THEN from + j ELSE (from + j) - Columns
    <3>1. from + j \in 0 .. (2 * Columns - 1) /\ j \in Int
      BY <1>0, <1>1, <1>2
    <3> HIDE DEF j
    <3>2. CASE from + j < Columns
      BY <1>0, <3>1, <3>2, ModSmall
    <3>3. CASE ~(from + j < Columns)
      <4> DEFINE x == from + j
                 e == x - Columns
      <4>1. x = 1 * Columns + e /\ x \in Int /\ e \in Int /\ e >= 0 /\ e < Columns
        BY <1>0, <1>1, <3>1, <3>3
      <4> HIDE DEF x, e
      <4>2. x % Columns = e
        BY <1>0, <4>1, DivisionIs
      <4>3. (from + j) % Columns = (from + j) - Columns
        BY <4>2 DEF x, e
      <4> QED
        BY <3>3, <4>3
    <3> QED
      BY <3>2, <3>3
  <2> QED
    BY <1>2, <2>3, <2>4
<1> QED
  BY <1>2, <1>4, <1>5

\* An image covers some columns of the base image, counted from the one shown first, and
\* shows these columns of the memory.
ImageFits(m, n) == m.start \in Nat /\ m.pos \in Nat /\ m.size \in Nat /\ m.pos + m.size <= n
Covers(m, d) == m.pos <= d /\ d < m.pos + m.size
ColumnShown(m, d) == (m.start + (d - m.pos)) % Columns

\* The column that is drawn at place j.
Seen(r, j) == IF r.flip THEN Columns - j ELSE j - 1

\* The cells of two rows; a row with an image laid over it.
Cells == 1 .. 2 * Columns
Image == [pos : Nat, start : Nat, size : Nat]
Laid(r, n, at, row, m, over) ==
    /\ DOMAIN over = Cells
    /\ \A i \in Cells :
          over[i] = IF i - at \in 1 .. n /\ Covers(m, Seen(r, i - at))
                    THEN ColumnShown(m, Seen(r, i - at)) ELSE row[i]

LEMMA OverIs ==
    ASSUME NEW r \in FrameType, r.flip => r.invert, NEW n \in 0 .. Columns,
           r.flip => n = Columns, NEW at \in Nat, NEW row, DOMAIN row = Cells,
           NEW m \in Image, ImageFits(m, n)
    PROVE  Laid(r, n, at, row, m, Frame!Over(r, row, at, Frame!Flipped(r, m)))
<1> DEFINE w == Frame!Flipped(r, m)
           columns == Frame!fill_scrolled_image(r, w.start, w.size)
           over == Frame!Over(r, row, at, w)
<1>0. Columns \in Nat /\ Columns > 0 /\ n \in Nat /\ n <= Columns
  BY ColumnsPositive
<1>1. m.start \in Nat /\ m.pos \in Nat /\ m.size \in Nat /\ m.pos + m.size <= n
  BY DEF ImageFits
<1>2. /\ w.start = m.start /\ w.size = m.size
      /\ w.pos = IF r.flip THEN Columns - (m.pos + m.size) ELSE m.pos
  BY DEF Frame!Flipped, Image
<1>3. over = [i \in Cells |->
                IF i - at - w.pos \in 1 .. w.size THEN columns[i - at - w.pos] ELSE row[i]]
  BY DEF Frame!Over
<1>4. \A k \in 1 .. m.size :
         columns[k] = IF r.flip THEN (m.start + m.size - k) % Columns
                      ELSE (m.start + k - 1) % Columns
  <2>1. m.size \in 0 .. Columns
    BY <1>0, <1>1
  <2>2. columns = Frame!fill_scrolled_image(r, m.start, m.size)
    <3> HIDE DEF w
    <3> QED
      BY <1>2
  <2> HIDE DEF columns
  <2> QED
    BY <1>1, <2>1, <2>2, Scrolled
<1> HIDE DEF w, columns, over
<1>5. ASSUME NEW i \in Cells
      PROVE  over[i] = IF i - at \in 1 .. n /\ Covers(m, Seen(r, i - at))
                       THEN ColumnShown(m, Seen(r, i - at)) ELSE row[i]
  <2> DEFINE j == i - at
  <2>0. j \in Int
    BY DEF Cells
  <2>1. over[i] = IF j - w.pos \in 1 .. m.size THEN columns[j - w.pos] ELSE row[i]
    BY <1>2, <1>3
  <2> HIDE DEF j
  <2>2. CASE r.flip
    <3>1. w.pos = Columns - (m.pos + m.size) /\ Seen(r, j) = Columns - j /\ n = Columns
      BY <1>2, <2>2 DEF Seen
    <3>2. j - w.pos \in 1 .. m.size <=> (j \in 1 .. n /\ Covers(m, Columns - j))
      BY <1>0, <1>1, <2>0, <3>1 DEF Covers
    <3>3. m.start + m.size - (j - w.pos) = m.start + ((Columns - j) - m.pos)
      BY <1>0, <1>1, <2>0, <3>1
    <3>4. ASSUME j - w.pos \in 1 .. m.size PROVE columns[j - w.pos] = ColumnShown(m, Columns - j)
      BY <1>4, <2>2, <3>3, <3>4 DEF ColumnShown
    <3> QED
      BY <2>1, <3>1, <3>2, <3>4 DEF j
  <2>3. CASE ~r.flip
    <3>1. w.pos = m.pos /\ Seen(r, j) = j - 1
      BY <1>2, <2>3 DEF Seen
    <3>2. j - w.pos \in 1 .. m.size <=> (j \in 1 .. n /\ Covers(m, j - 1))
      BY <1>0, <1>1, <2>0, <3>1 DEF Covers
    <3>3. m.start + (j - w.pos) - 1 = m.start + ((j - 1) - m.pos)
      BY <1>0, <1>1, <2>0, <3>1
    <3>4. ASSUME j - w.pos \in 1 .. m.size PROVE columns[j - w.pos] = ColumnShown(m, j - 1)
      BY <1>4, <2>3, <3>3, <3>4 DEF ColumnShown
    <3> QED
      BY <2>1, <3>1, <3>2, <3>4 DEF j
  <2> QED
    BY <2>2, <2>3
<1>6. DOMAIN over = Cells
  BY <1>3
<1> QED
  BY <1>5, <1>6 DEF over, w, Laid

\* Where Shows() has a partial image.
In(p, d) ==
    /\ Frame!Wrapped(p.pos) <= d
    /\ \/ Frame!Wrapped(p.end) >= Frame!Wrapped(p.start)
          /\ d - Frame!Wrapped(p.pos) <= Frame!Wrapped(p.end) - Frame!Wrapped(p.start)
       \/ Frame!Wrapped(p.end) < Frame!Wrapped(p.start)
          /\ d - Frame!Wrapped(p.pos) < Frame!Wrapped(p.end) + 1 + Columns - Frame!Wrapped(p.start)
          /\ Frame!Wrapped(p.end) + 1 # Frame!Wrapped(p.start)

LEMMA PartialIs ==
    ASSUME NEW r \in FrameType, NEW p \in Partials
    PROVE  LET m == Frame!Partial(r, p)
           IN  /\ m \in [pos : Nat, start : Nat, size : Nat]
               /\ ImageFits(m, Frame!colcount(r))
               /\ \A d \in 0 .. (Frame!colcount(r) - 1) :
                     /\ Covers(m, d) <=> In(p, d)
                     /\ In(p, d) =>
                          ColumnShown(m, d) =
                             (Frame!Wrapped(p.start) + (d - Frame!Wrapped(p.pos))) % Columns
<1> DEFINE n == Frame!colcount(r)
           a == Frame!Wrapped(p.start)
           e == Frame!Wrapped(p.end)
           b == Frame!Wrapped(p.pos)
           plain == e + 1 - a
           size == IF plain < 0 THEN plain + Columns ELSE plain
           pos == Frame!AtMost(b, n)
           m == Frame!Partial(r, p)
<1>0. Columns \in Nat /\ Columns > 0 /\ n \in 0 .. Columns
  BY ColumnsPositive, FrameSizes
<1>1. \A v \in 0..(2 * Columns) : Frame!Wrapped(v) \in 0 .. Columns
  BY <1>0 DEF Frame!Wrapped
<1>2. a \in 0 .. Columns /\ e \in 0 .. Columns /\ b \in 0 .. Columns
  BY <1>1 DEF Partials
<1>3. m = [pos |-> pos, start |-> a, size |-> IF pos + size > n THEN n - pos ELSE size]
  BY DEF Frame!Partial
<1>4. pos = IF b > n THEN n ELSE b
  BY DEF Frame!AtMost
<1>5. \A d : In(p, d) <=> /\ b <= d
                          /\ \/ e >= a /\ d - b <= e - a
                             \/ e < a /\ d - b < e + 1 + Columns - a /\ e + 1 # a
  BY DEF In
<1> HIDE DEF n, a, e, b, pos, m
<1>6. size \in Nat /\ pos \in 0 .. n
  BY <1>0, <1>2, <1>4
<1>7. m \in [pos : Nat, start : Nat, size : Nat] /\ ImageFits(m, n)
  <2> DEFINE k == IF pos + size > n THEN n - pos ELSE size
  <2>1. k \in Nat /\ pos \in Nat /\ pos + k <= n
    BY <1>0, <1>6
  <2> HIDE DEF k, size
  <2>2. m = [pos |-> pos, start |-> a, size |-> k]
    BY <1>3 DEF k
  <2> QED
    BY <1>2, <2>1, <2>2 DEF ImageFits
<1>8. ASSUME NEW d \in 0 .. (n - 1)
      PROVE  /\ Covers(m, d) <=> In(p, d)
             /\ In(p, d) => ColumnShown(m, d) = (a + (d - b)) % Columns
  <2>1. m.pos = pos /\ m.start = a
    BY <1>3
  <2>2. m.pos + m.size = IF pos + size > n THEN n ELSE pos + size
    BY <1>0, <1>3, <1>6
  <2>3. Covers(m, d) <=> pos <= d /\ d < pos + size
    BY <1>0, <1>6, <2>1, <2>2 DEF Covers
  <2>4. pos <= d /\ d < pos + size <=> b <= d /\ d < b + size
    BY <1>0, <1>2, <1>4, <1>6
  <2>5. d < b + size <=> \/ e >= a /\ d - b <= e - a
                         \/ e < a /\ d - b < e + 1 + Columns - a /\ (e + 1 = a => d < b)
    BY <1>0, <1>2
  <2>6. Covers(m, d) <=> In(p, d)
    BY <1>0, <1>2, <1>5, <2>3, <2>4, <2>5
  <2>7. ASSUME In(p, d) PROVE pos = b
    BY <1>0, <1>2, <1>4, <1>5, <2>7
  <2>8. ASSUME In(p, d) PROVE ColumnShown(m, d) = (a + (d - b)) % Columns
    BY <2>1, <2>7, <2>8 DEF ColumnShown
  <2> QED
    BY <2>6, <2>8
<1> QED
  BY <1>7, <1>8 DEF m, n, a, b

Drawn(r, d) ==
    LET m1 == Frame!Image1(r)
        m0 == Frame!Image0(r)
    IN  IF Covers(m0, d) THEN ColumnShown(m0, d) ELSE IF Covers(m1, d) THEN ColumnShown(m1, d)
        ELSE Frame!Blank

\* The images drawn, of the base image or the two partial ones.
LEMMA ImagesAre ==
    ASSUME NEW r \in FrameType
    PROVE  LET n == Frame!colcount(r)
           IN  /\ \A m \in {Frame!Image1(r), Frame!Image0(r)} :
                     m \in [pos : Nat, start : Nat, size : Nat] /\ ImageFits(m, n)
               /\ \A d \in 0 .. n - 1 :
                     Drawn(r, d) = IF r.base THEN (d + Frame!Base(r).start) % Columns
                                   ELSE IF r.p0.show /\ In(r.p0, d)
                                   THEN (Frame!Wrapped(r.p0.start)
                                           + (d - Frame!Wrapped(r.p0.pos))) % Columns
                                   ELSE IF r.p1.show /\ In(r.p1, d)
                                   THEN (Frame!Wrapped(r.p1.start)
                                           + (d - Frame!Wrapped(r.p1.pos))) % Columns
                                   ELSE Frame!Blank
<1> DEFINE n == Frame!colcount(r)
           T == [pos : Nat, start : Nat, size : Nat]
<1>0. n \in Nat /\ Columns \in Nat /\ r.p0 \in Partials /\ r.p1 \in Partials /\ r.vl \in Nat
  BY ColumnsPositive, FrameSizes DEF FrameType
<1>1. Frame!NoImage \in T /\ ImageFits(Frame!NoImage, n) /\ \A d \in Int : ~Covers(Frame!NoImage, d)
  BY <1>0 DEF Frame!NoImage, ImageFits, Covers
<1>2. CASE r.base
  <2> DEFINE m == Frame!Base(r)
  <2>1. m = [pos |-> 0, start |-> IF r.scroll THEN 3 * r.vl ELSE 0, size |-> n]
    BY DEF Frame!Base
  <2>2. (IF r.scroll THEN 3 * r.vl ELSE 0) \in Nat
    BY <1>0
  <2>3. m \in T /\ m.pos = 0 /\ m.size = n /\ m.start \in Nat
    BY <1>0, <2>1, <2>2
  <2> HIDE DEF m, n
  <2>4. /\ ImageFits(m, n)
        /\ \A d \in 0 .. n - 1 : Covers(m, d) /\ ColumnShown(m, d) = (d + m.start) % Columns
    BY <1>0, <2>3 DEF ImageFits, Covers, ColumnShown
  <2>5. Frame!Image1(r) = m /\ Frame!Image0(r) = Frame!NoImage
    BY <1>2 DEF Frame!Image1, Frame!Image0, m
  <2>6. ASSUME NEW d \in 0 .. n - 1 PROVE Drawn(r, d) = (d + m.start) % Columns
    BY <1>0, <1>1, <2>4, <2>5 DEF Drawn
  <2> QED
    BY <1>1, <1>2, <2>3, <2>4, <2>5, <2>6 DEF n, m
<1>3. CASE ~r.base
  <2> DEFINE m1 == Frame!Image1(r)
             m0 == Frame!Image0(r)
  <2>1. /\ m1 = IF r.p1.show THEN Frame!Partial(r, r.p1) ELSE Frame!NoImage
        /\ m0 = IF r.p0.show THEN Frame!Partial(r, r.p0) ELSE Frame!NoImage
    BY <1>3 DEF Frame!Image1, Frame!Image0
  <2> HIDE DEF m1, m0
  <2>2. ASSUME NEW p \in Partials, NEW m, m = IF p.show THEN Frame!Partial(r, p) ELSE Frame!NoImage
        PROVE  /\ m \in T /\ ImageFits(m, n)
               /\ \A d \in 0 .. n - 1 :
                     /\ Covers(m, d) <=> p.show /\ In(p, d)
                     /\ p.show /\ In(p, d) =>
                          ColumnShown(m, d) =
                             (Frame!Wrapped(p.start) + (d - Frame!Wrapped(p.pos))) % Columns
    <3>1. CASE p.show
      BY <2>2, <3>1, PartialIs
    <3>2. CASE ~p.show
      <4>1. \A d \in 0 .. n - 1 : d \in Int
        BY <1>0
      <4> HIDE DEF n
      <4> QED
        BY <1>1, <2>2, <3>2, <4>1
    <3> QED
      BY <3>1, <3>2
  <2>3. /\ m0 \in T /\ ImageFits(m0, n)
        /\ \A d \in 0 .. n - 1 :
              /\ Covers(m0, d) <=> r.p0.show /\ In(r.p0, d)
              /\ r.p0.show /\ In(r.p0, d) =>
                   ColumnShown(m0, d) =
                      (Frame!Wrapped(r.p0.start) + (d - Frame!Wrapped(r.p0.pos))) % Columns
    BY <1>0, <2>1, <2>2
  <2>4. /\ m1 \in T /\ ImageFits(m1, n)
        /\ \A d \in 0 .. n - 1 :
              /\ Covers(m1, d) <=> r.p1.show /\ In(r.p1, d)
              /\ r.p1.show /\ In(r.p1, d) =>
                   ColumnShown(m1, d) =
                      (Frame!Wrapped(r.p1.start) + (d - Frame!Wrapped(r.p1.pos))) % Columns
    BY <1>0, <2>1, <2>2
  <2>5. \A d : Drawn(r, d) = IF Covers(m0, d) THEN ColumnShown(m0, d)
                             ELSE IF Covers(m1, d) THEN ColumnShown(m1, d) ELSE Frame!Blank
    BY DEF Drawn, m0, m1
  <2>6. ASSUME NEW d \in 0 .. n - 1
        PROVE  Drawn(r, d) = IF r.p0.show /\ In(r.p0, d)
                             THEN (Frame!Wrapped(r.p0.start)
                                     + (d - Frame!Wrapped(r.p0.pos))) % Columns
                             ELSE IF r.p1.show /\ In(r.p1, d)
                             THEN (Frame!Wrapped(r.p1.start)
                                     + (d - Frame!Wrapped(r.p1.pos))) % Columns
                             ELSE Frame!Blank
    <3> HIDE DEF n
    <3> QED
      BY <2>3, <2>4, <2>5, Zenon
  <2>7. \A m \in {Frame!Image1(r), Frame!Image0(r)} : m \in T /\ ImageFits(m, n)
    <3> HIDE DEF n, T
    <3> QED
      BY <2>3, <2>4 DEF m0, m1
  <2> QED
    BY <1>3, <2>6, <2>7
<1> QED
  BY <1>2, <1>3

\* A row is the ground outside of the base image, and what is drawn in it.
LEMMA RowIs ==
    ASSUME NEW r \in FrameType, r.flip => Frame!Mirrors(r)
    PROVE  \A i \in 1 .. Columns :
              Frame!Row(r)[i] =
                 LET j == i - Frame!colstart(r)
                 IN  IF j \in 1 .. Frame!colcount(r) THEN Drawn(r, Seen(r, j)) ELSE Frame!Float
<1> DEFINE n == Frame!colcount(r)
           s == Frame!colstart(r)
           start == IF r.flip THEN Columns - s - n ELSE s
           m1 == Frame!Image1(r)
           m0 == Frame!Image0(r)
           w1 == Frame!Flipped(r, m1)
           w0 == Frame!Flipped(r, m0)
           floating == Frame!Filled(Frame!Old, 0, start, Frame!Float)
           blank == Frame!Filled(floating, start, n, Frame!Blank)
           ground == IF w1.size # n /\ w0.size # n THEN blank ELSE floating
           over1 == Frame!Over(r, ground, start, w1)
           painted == Frame!Over(r, over1, start, w0)
           D == Cells
<1>0. Columns \in Nat /\ Columns > 0 /\ s \in 0 .. Columns /\ n \in 0 .. (Columns - s)
  BY ColumnsPositive, FrameSizes
<1>00. (r.flip => r.invert) /\ (r.flip => n = Columns)
  BY DEF Frame!Mirrors
<1>D. \A i \in Cells : i \in Int
  BY <1>0 DEF Cells
<1>1. n \in 0 .. Columns /\ start = s /\ start \in Nat /\ s \in Nat /\ n \in Nat
  BY <1>0, <1>00
<1>2. Frame!Row(r) = Frame!Filled(painted, start + n, Columns - start - n, Frame!Float)
  BY DEF Frame!Row, Frame!fill_row
<1>3. /\ m1 \in Image /\ ImageFits(m1, n)
      /\ m0 \in Image /\ ImageFits(m0, n)
  BY ImagesAre DEF Image
<1>4. w1.size = m1.size /\ w0.size = m0.size
  BY <1>3 DEF Frame!Flipped, Image
<1> HIDE DEF s, n, m1, m0, start
<1>5. /\ DOMAIN floating = D
      /\ \A i \in D : i - 0 \in 1 .. start => floating[i] = Frame!Float
  BY DEF Frame!Filled, Frame!Old, Cells
<1> HIDE DEF floating
<1>6. DOMAIN blank = D /\ \A i \in D : blank[i] = IF i - start \in 1 .. n THEN Frame!Blank
                                                 ELSE floating[i]
  BY <1>5 DEF Frame!Filled
<1> HIDE DEF blank
<1>7. /\ DOMAIN ground = D
      /\ \A i \in D : i - 0 \in 1 .. start => ground[i] = Frame!Float
  <2>1. \A i \in D : i - 0 \in 1 .. start => ~(i - start \in 1 .. n)
    BY <1>1, <1>D
  <2> QED
    BY <1>5, <1>6, <2>1
<1> HIDE DEF ground
<1>8. /\ DOMAIN over1 = D
      /\ \A i \in D : over1[i] = IF i - start \in 1 .. n /\ Covers(m1, Seen(r, i - start))
                                  THEN ColumnShown(m1, Seen(r, i - start)) ELSE ground[i]
  <2>1. Laid(r, n, start, ground, m1, over1)
    BY <1>00, <1>1, <1>3, <1>7, OverIs
  <2> QED
    BY <2>1 DEF Laid
<1> HIDE DEF over1
<1>9. /\ DOMAIN painted = D
      /\ \A i \in D : painted[i] = IF i - start \in 1 .. n /\ Covers(m0, Seen(r, i - start))
                                    THEN ColumnShown(m0, Seen(r, i - start)) ELSE over1[i]
  <2>1. Laid(r, n, start, over1, m0, painted)
    BY <1>00, <1>1, <1>3, <1>8, OverIs
  <2> QED
    BY <2>1 DEF Laid
<1> HIDE DEF painted
<1>10. ASSUME NEW i \in D, i - start \in 1 .. n
       PROVE  painted[i] = Drawn(r, Seen(r, i - start))
  <2> DEFINE d == Seen(r, i - start)
  <2>1. d \in 0 .. n - 1
    <3>1. CASE r.flip
      BY <1>0, <1>00, <1>1, <1>10, <1>D, <3>1 DEF Seen
    <3>2. CASE ~r.flip
      BY <1>0, <1>1, <1>10, <1>D, <3>2 DEF Seen
    <3> QED
      BY <3>1, <3>2
  <2> HIDE DEF d
  <2>2. Drawn(r, d) = IF Covers(m0, d) THEN ColumnShown(m0, d)
                      ELSE IF Covers(m1, d) THEN ColumnShown(m1, d) ELSE Frame!Blank
    BY DEF Drawn, m1, m0
  <2>3. \A m : ImageFits(m, n) /\ m.size = n => Covers(m, d)
    BY <1>1, <2>1 DEF ImageFits, Covers
  <2>4. painted[i] = IF Covers(m0, d) THEN ColumnShown(m0, d)
                     ELSE IF Covers(m1, d) THEN ColumnShown(m1, d) ELSE ground[i]
    BY <1>8, <1>9, <1>10 DEF d
  <2>5. CASE w1.size # n /\ w0.size # n
    <3>1. ground[i] = Frame!Blank
      BY <1>6, <1>10, <2>5 DEF ground
    <3> QED
      BY <2>2, <2>4, <3>1 DEF d
  <2>6. CASE ~(w1.size # n /\ w0.size # n)
    <3>1. Covers(m1, d) \/ Covers(m0, d)
      BY <1>3, <1>4, <2>3, <2>6
    <3> QED
      BY <2>2, <2>4, <3>1 DEF d
  <2> QED
    BY <2>5, <2>6
<1>11. ASSUME NEW i \in D
       PROVE  Frame!Row(r)[i] = IF i - (start + n) \in 1 .. (Columns - start - n) THEN Frame!Float
                                ELSE painted[i]
  BY <1>2, <1>9 DEF Frame!Filled
<1>12. ASSUME NEW i \in 1 .. Columns
       PROVE  Frame!Row(r)[i] = LET j == i - s
                                IN  IF j \in 1 .. n THEN Drawn(r, Seen(r, j)) ELSE Frame!Float
  <2>0. i \in D
    BY <1>0 DEF Cells
  <2>1. CASE i - start \in 1 .. n
    <3>1. i - (start + n) \notin 1 .. (Columns - start - n)
      BY <1>1, <2>1
    <3> QED
      BY <1>1, <1>10, <1>11, <2>0, <2>1, <3>1
  <2>2. CASE i - start \notin 1 .. n /\ i <= start
    <3>1. i - (start + n) \notin 1 .. (Columns - start - n) /\ i - 0 \in 1 .. start
      BY <1>1, <2>2
    <3>2. painted[i] = Frame!Float
      BY <1>7, <1>8, <1>9, <2>0, <2>2, <3>1
    <3> QED
      BY <1>1, <1>11, <2>0, <2>2, <3>1, <3>2
  <2>3. CASE i - start \notin 1 .. n /\ ~(i <= start)
    <3>1. i - (start + n) \in 1 .. (Columns - start - n)
      BY <1>0, <1>1, <2>3
    <3> QED
      BY <1>1, <1>11, <2>0, <2>3, <3>1
  <2> QED
    BY <2>1, <2>2, <2>3
<1> QED
  BY <1>12 DEF s, n

\* Nothing is written past a row that is shown upright, or as wide as the screen.
LEMMA RowStays ==
    ASSUME NEW r \in FrameType, r.flip => Frame!colcount(r) = Columns
    PROVE  \A i \in Columns + 1 .. 2 * Columns : Frame!Row(r)[i] = Frame!Before
<1> DEFINE n == Frame!colcount(r)
           s == Frame!colstart(r)
           start == IF r.flip THEN Columns - s - n ELSE s
           m1 == Frame!Image1(r)
           m0 == Frame!Image0(r)
           w1 == Frame!Flipped(r, m1)
           w0 == Frame!Flipped(r, m0)
           floating == Frame!Filled(Frame!Old, 0, start, Frame!Float)
           blank == Frame!Filled(floating, start, n, Frame!Blank)
           ground == IF w1.size # n /\ w0.size # n THEN blank ELSE floating
           over1 == Frame!Over(r, ground, start, w1)
           painted == Frame!Over(r, over1, start, w0)
           D == Cells
           X == Columns + 1 .. 2 * Columns
<1>0. Columns \in Nat /\ Columns > 0 /\ s \in 0 .. Columns /\ n \in 0 .. (Columns - s)
  BY ColumnsPositive, FrameSizes
<1>1. start = s /\ start \in Nat /\ n \in Nat /\ start + n <= Columns
  BY <1>0
<1>2. Frame!Row(r) = Frame!Filled(painted, start + n, Columns - start - n, Frame!Float)
  BY DEF Frame!Row, Frame!fill_row
<1>3. /\ m1 \in Image /\ ImageFits(m1, n)
      /\ m0 \in Image /\ ImageFits(m0, n)
  BY ImagesAre DEF Image
<1>4. ASSUME NEW m \in Image, ImageFits(m, n)
      PROVE  LET w == Frame!Flipped(r, m)
             IN  w.pos \in Nat /\ w.size \in Nat /\ w.pos + w.size <= n
  <2> DEFINE w == Frame!Flipped(r, m)
  <2>1. w.size = m.size /\ w.pos = IF r.flip THEN Columns - (m.pos + m.size) ELSE m.pos
    BY DEF Frame!Flipped, Image
  <2>2. m.pos \in Nat /\ m.size \in Nat /\ m.pos + m.size <= n
    BY <1>4 DEF ImageFits
  <2> HIDE DEF w
  <2>3. ASSUME r.flip PROVE w.pos \in Nat /\ w.size \in Nat /\ w.pos + w.size <= n
    BY <1>0, <2>1, <2>2, <2>3
  <2>4. ASSUME ~r.flip PROVE w.pos \in Nat /\ w.size \in Nat /\ w.pos + w.size <= n
    BY <1>0, <2>1, <2>2, <2>4
  <2> QED
    BY <2>3, <2>4 DEF w
<1>5. /\ w1.pos \in Nat /\ w1.size \in Nat /\ w1.pos + w1.size <= n
      /\ w0.pos \in Nat /\ w0.size \in Nat /\ w0.pos + w0.size <= n
  <2> HIDE DEF m1, m0, n
  <2> QED
    BY <1>3, <1>4
<1> HIDE DEF s, n, start, w1, w0
<1>6. \A i \in X : /\ i \in D /\ i - 0 \notin 1 .. start /\ i - start \notin 1 .. n
                   /\ i - (start + n) \notin 1 .. (Columns - start - n)
                   /\ i - start - w1.pos \notin 1 .. w1.size
                   /\ i - start - w0.pos \notin 1 .. w0.size
  BY <1>0, <1>1, <1>5 DEF Cells
<1>7. Frame!Old = [i \in D |-> Frame!Before]
  BY DEF Frame!Old, Cells
<1> HIDE DEF X, D
<1>8. DOMAIN floating = D /\ \A i \in X : floating[i] = Frame!Before
  BY <1>6, <1>7 DEF Frame!Filled
<1> HIDE DEF floating
<1>9. DOMAIN blank = D /\ \A i \in X : blank[i] = Frame!Before
  BY <1>6, <1>8 DEF Frame!Filled
<1> HIDE DEF blank
<1>10. DOMAIN ground = D /\ \A i \in X : ground[i] = Frame!Before
  BY <1>8, <1>9
<1> HIDE DEF ground
<1>11. DOMAIN over1 = D /\ \A i \in X : over1[i] = Frame!Before
  BY <1>6, <1>10 DEF Frame!Over
<1> HIDE DEF over1
<1>12. DOMAIN painted = D /\ \A i \in X : painted[i] = Frame!Before
  BY <1>6, <1>11 DEF Frame!Over
<1> HIDE DEF painted
<1>13. \A i \in X : Frame!Row(r)[i] = Frame!Before
  BY <1>2, <1>6, <1>12 DEF Frame!Filled
<1> QED
  BY <1>13 DEF X

LEMMA FrameShows ==
    ASSUME FrameInv
    PROVE  Frame!FrameShowsRegisters
<1> DEFINE r == frame
           n == Frame!colcount(r)
           s == Frame!colstart(r)
           o == Frame!Base(r).start
<1>0. /\ r \in FrameType /\ Columns \in Nat /\ Columns > 0
      /\ s \in 0 .. Columns /\ n \in 0 .. (Columns - s) /\ s \in Nat /\ n \in Nat
  BY ColumnsPositive, FrameSizes DEF FrameInv
<1>1. \A d \in 0 .. n - 1 : Frame!Shows(r, d + s, o) = Drawn(r, d)
  <2> SUFFICES ASSUME NEW d \in 0 .. n - 1 PROVE Frame!Shows(r, d + s, o) = Drawn(r, d)
    OBVIOUS
  <2>1. d \in Int /\ (d + s) - s = d /\ ~(d < 0) /\ ~(d >= n) /\ ~(d < 0 \/ d >= n)
    BY <1>0
  <2> DEFINE c == d + s
  <2>2. c - s = d
    BY <2>1
  <2> HIDE DEF c
  <2>3. Frame!Shows(r, c, o) =
          IF r.base THEN (d + o) % Columns
          ELSE IF r.p0.show /\ In(r.p0, d)
          THEN (Frame!Wrapped(r.p0.start) + (d - Frame!Wrapped(r.p0.pos))) % Columns
          ELSE IF r.p1.show /\ In(r.p1, d)
          THEN (Frame!Wrapped(r.p1.start) + (d - Frame!Wrapped(r.p1.pos))) % Columns
          ELSE Frame!Blank
    <3> HIDE DEF s, n, r, o
    <3>1. CASE r.base
      BY <2>1, <2>2, <3>1 DEF Frame!Shows, n, s
    <3>2. CASE ~r.base
      BY <2>1, <2>2, <3>2 DEF Frame!Shows, n, s, In
    <3> QED
      BY <3>1, <3>2
  <2> QED
    BY <1>0, <2>3, ImagesAre DEF c
<1>2. \A c \in Int : c - s \notin 0 .. n - 1 => Frame!Shows(r, c, o) = Frame!Float
  <2> SUFFICES ASSUME NEW c \in Int, c - s \notin 0 .. n - 1
               PROVE  Frame!Shows(r, c, o) = Frame!Float
    OBVIOUS
  <2>1. c - s < 0 \/ c - s >= n
    BY <1>0
  <2>2. ~(c - s \in 0 .. n - 1 /\ r.base)
    OBVIOUS
  <2> HIDE DEF r, o
  <2> QED
    BY <2>1, <2>2 DEF Frame!Shows, n, s
<1> HIDE DEF r, n, s, o
<1>3. ASSUME r.flip => Frame!Mirrors(r), NEW c \in 0 .. Columns - 1
      PROVE  Frame!Row(r)[c + 1] = Frame!ShowsFlipped(r, c, o)
  <2> DEFINE i == c + 1
  <2>0. i \in 1 .. Columns /\ i - 1 = c /\ c \in Int
    BY <1>0
  <2>1. Frame!Row(r)[i] = LET j == i - s
                          IN  IF j \in 1 .. n THEN Drawn(r, Seen(r, j)) ELSE Frame!Float
    BY <1>0, <1>3, <2>0, RowIs DEF n, s
  <2>2. CASE ~r.flip
    <3>0. Frame!ShowsFlipped(r, c, o) = Frame!Shows(r, c, o)
      BY <2>2 DEF Frame!ShowsFlipped
    <3>1. CASE i - s \in 1 .. n
      <4>1. Seen(r, i - s) = (i - s) - 1 /\ (i - s) - 1 \in 0 .. n - 1 /\ ((i - s) - 1) + s = c
        BY <1>0, <2>0, <2>2, <3>1 DEF Seen
      <4> QED
        BY <1>1, <2>1, <3>0, <3>1, <4>1
    <3>2. CASE i - s \notin 1 .. n
      <4>1. c - s \notin 0 .. n - 1
        BY <1>0, <2>0, <3>2
      <4> QED
        BY <1>2, <2>0, <2>1, <3>0, <3>2, <4>1
    <3> QED
      BY <3>1, <3>2
  <2>3. CASE r.flip
    <3>0. Frame!ShowsFlipped(r, c, o) = Frame!Shows(r, Columns - 1 - c, o)
      BY <2>3 DEF Frame!ShowsFlipped
    <3>00. n = Columns
      BY <1>3, <2>3 DEF Frame!Mirrors, n
    <3>1. s = 0 /\ i - s = i /\ i - s \in 1 .. n /\ Columns - i \in 0 .. n - 1
      BY <1>0, <2>0, <3>00
    <3>2. Seen(r, i) = Columns - i
      BY <2>3 DEF Seen
    <3>3. Frame!Row(r)[i] = Drawn(r, Columns - i)
      BY <2>1, <3>1, <3>2
    <3>4. (Columns - i) + s = Columns - 1 - c
      BY <1>0, <2>0, <3>1
    <3> QED
      BY <1>1, <3>0, <3>1, <3>3, <3>4
  <2> QED
    BY <2>2, <2>3
<1>4. ASSUME r.flip => n = Columns
      PROVE  \A i \in Columns + 1 .. 2 * Columns : Frame!Row(r)[i] = Frame!Before
  BY <1>0, <1>4, RowStays DEF n
<1> QED
  BY <1>3, <1>4 DEF Frame!FrameShowsRegisters, r, n, o

\* A window of any size that is filled gets each of its pixels once and the cursor comes
\* back, in each of the directions; a frame of any width shows what its registers select,
\* wherever the images wrap, end or are cut off: after any writes to the two ports.
THEOREM PicturesCorrect == Spec => []PicturesSound
<1> DEFINE Inv == ColourInv /\ CursorInv /\ FrameInv
<1>1. Init => Inv
  BY ColourStart, CursorStart, FrameStart DEF Init
<1>2. Inv /\ [Next]_vars => Inv'
  <2> SUFFICES ASSUME Inv, [Next]_vars PROVE Inv'
    OBVIOUS
  <2>1. /\ Colour!XcNext \/ UNCHANGED <<xreg, xcur, xio, since>>
        /\ Frame!FrameNext \/ UNCHANGED frame
    BY DEF Next, Only, vars
  <2>2. ColourInv' /\ CursorInv'
    <3>1. CASE UNCHANGED <<xreg, xcur, xio, since>>
      BY <3>1 DEF ColourInv, CursorInv, Colour!WholePixels, Colour!Indices, Colour!Data,
                  Colour!FromReset
    <3> QED
      BY <2>1, <3>1, ColourStep, CursorStep
  <2>3. FrameInv'
    BY <2>1, FrameStep DEF FrameInv
  <2> QED
    BY <2>2, <2>3
<1>3. Inv => PicturesSound
  <2> SUFFICES ASSUME Inv PROVE PicturesSound
    OBVIOUS
  <2>1. Colour!XcTypeOK
    BY DEF ColourInv, CursorInv, Colour!XcTypeOK
  <2>2. Colour!WindowFilled
    BY Filled DEF CursorInv
  <2> QED
    BY <2>1, <2>2, FrameShows DEF PicturesSound
<1> QED
  BY <1>1, <1>2, <1>3, PTL DEF Spec

=============================================================================
