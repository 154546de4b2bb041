----------------------------- MODULE LinkProofs -----------------------------
(***************************************************************************)
(* Proofs about the link port and the bridge: the port keeps its waits     *)
(* sound under any program, dbus_update() ends, and no byte is lost or     *)
(* split between host and program.                                         *)
(***************************************************************************)
EXTENDS LinkBridge, SequenceTheorems, FiniteSetTheorems, TLAPS

\* One direction of the gray link at a time, one of the assist, a bit count that fits,
\* and a timeout for each wait.
Steady(p) ==
    /\ PortType(p)
    /\ p.gsend => p.gin = <<>>
    /\ ~({"READ_BUSY", "WRITE_BUSY"} \subseteq p.flags)
Counted(p) == "READ_BYTE" \notin p.flags => p.ainbits < Width
Timely(p) ==
    Timed => /\ "READ_BUSY" \in p.flags => p.timer
             /\ "WRITE_BUSY" \in p.flags /\ p.lines # 0 => p.timer
GoodPort(p) == Steady(p) /\ Counted(p) /\ Timely(p)

-----------------------------------------------------------------------------
(* A field at a time.                                                      *)

\* Sequences of bits, by their length.
LEMMA BitSequences ==
    /\ <<>> \in Seq({0, 1}) /\ Len(<<>>) = 0
    /\ \A s \in Seq({0, 1}) : Len(s) \in Nat
    /\ \A s \in Seq({0, 1}), b \in {0, 1} :
          Append(s, b) \in Seq({0, 1}) /\ Len(Append(s, b)) = Len(s) + 1
    /\ \A s \in Seq({0, 1}) : s # <<>> =>
          /\ Tail(s) \in Seq({0, 1}) /\ Len(Tail(s)) = Len(s) - 1 /\ Len(s) > 0
          /\ Head(s) \in {0, 1}
<1>1. ASSUME NEW s \in Seq({0, 1}), s # <<>>
      PROVE  /\ Tail(s) \in Seq({0, 1}) /\ Len(Tail(s)) = Len(s) - 1 /\ Len(s) > 0
             /\ Head(s) \in {0, 1}
  BY <1>1, HeadTailProperties, EmptySeq, LenProperties
<1>2. ASSUME NEW s \in Seq({0, 1}), NEW b \in {0, 1}
      PROVE  Append(s, b) \in Seq({0, 1}) /\ Len(Append(s, b)) = Len(s) + 1
  BY AppendProperties
<1> QED
  BY <1>1, <1>2, EmptySeq, LenProperties

\* Each function of link.c that sets a line, an interrupt or the timeout keeps the rest.
LEMMA LinesSet ==
    ASSUME NEW p, GoodPort(p), NEW v \in 0..3,
           Timed /\ "WRITE_BUSY" \in p.flags /\ v # 0 => p.timer
    PROVE  GoodPort(SetLines(p, v))
  BY DEF GoodPort, Steady, Counted, Timely, PortType, PortRecord, SetLines

\* An interrupt, whatever becomes of it, leaves every other field alone.
LEMMA InterruptKeeps ==
    ASSUME NEW p, GoodPort(p), NEW irq \in AllIrqs, NEW m
    PROVE  /\ GoodPort(Interrupt(p, irq, m))
           /\ \E i \in SUBSET AllIrqs : Interrupt(p, irq, m) = [p EXCEPT !.irq = i]
<1>1. ASSUME NEW i \in SUBSET AllIrqs PROVE GoodPort([p EXCEPT !.irq = i])
  BY DEF GoodPort, Steady, Counted, Timely, PortType, PortRecord
<1>2. p.irq \in SUBSET AllIrqs /\ p = [p EXCEPT !.irq = p.irq]
  BY DEF GoodPort, Steady, Counted, Timely, PortType, PortRecord
<1>3. p.irq \cup {irq} \in SUBSET AllIrqs
  BY <1>2
<1> QED
  BY <1>1, <1>2, <1>3 DEF Interrupt

\* What a change of the gray link's lines leaves alone.
OnlyExt(p, q) ==
    /\ q.lines = p.lines /\ q.gin = p.gin /\ q.gout = p.gout /\ q.gsend = p.gsend
    /\ q.ain = p.ain /\ q.ainbits = p.ainbits /\ q.aout = p.aout /\ q.flags = p.flags
    /\ q.mode = p.mode /\ q.timer = p.timer /\ q.stop = p.stop

\* A line pulled or released from outside leaves every other field alone.
LEMMA ExtSet ==
    ASSUME NEW p, GoodPort(p), NEW v \in 0..2
    PROVE  GoodPort(SetExt(p, v)) /\ SetExt(p, v).ext = v /\ OnlyExt(p, SetExt(p, v))
<1>1. ASSUME NEW i \in SUBSET AllIrqs
      PROVE  /\ GoodPort([[p EXCEPT !.irq = i] EXCEPT !.ext = v])
             /\ [[p EXCEPT !.irq = i] EXCEPT !.ext = v].ext = v
             /\ OnlyExt(p, [[p EXCEPT !.irq = i] EXCEPT !.ext = v])
  BY DEF GoodPort, Steady, Counted, Timely, PortType, PortRecord, OnlyExt
<1>2. p.irq \in SUBSET AllIrqs /\ p = [p EXCEPT !.irq = p.irq]
  BY DEF GoodPort, Steady, Counted, Timely, PortType, PortRecord
<1>3. PICK i \in SUBSET AllIrqs :
        Interrupt(p, "LINK_ACTIVE", "INT_ACTIVE") = [p EXCEPT !.irq = i]
  BY InterruptKeeps DEF AllIrqs
<1>4. \E q \in {p, Interrupt(p, "LINK_ACTIVE", "INT_ACTIVE")} : SetExt(p, v) = [q EXCEPT !.ext = v]
  BY DEF SetExt
<1>5. \E j \in SUBSET AllIrqs : SetExt(p, v) = [[p EXCEPT !.irq = j] EXCEPT !.ext = v]
  BY <1>2, <1>3, <1>4, Zenon
<1> QED
  BY <1>1, <1>5, Zenon

\* What lines are in range, and that the opposite of a line is the other one.
LEMMA Lines ==
    /\ \A v \in 0..3 : Opposite(v) \in 0..3
    /\ \A v \in {1, 2} : Opposite(v) \in {1, 2} /\ Opposite(Opposite(v)) = v
    /\ Opposite(0) = 3
    /\ \A bit : LineOf(bit) \in {1, 2}
    /\ \A v \in {1, 2} : v \in 0..2 /\ v \in 0..3
    /\ 0 \in 0..2 /\ 0 \in 0..3
  BY DEF Opposite, LineOf

\* A stop reason more leaves every other field alone.
LEMMA StopKeeps ==
    ASSUME NEW p, GoodPort(p), NEW reason \in AllStops
    PROVE  GoodPort(Stop(p, reason))
  BY DEF GoodPort, Steady, Counted, Timely, PortType, PortRecord, Stop

-----------------------------------------------------------------------------
(* A turn of the gray link, and a turn of the assist.                      *)

\* What the gray link has still to send; what it has received.
LEMMA SendingKeeps ==
    ASSUME NEW p, GoodPort(p), NEW s \in Seq({0, 1}), Len(s) <= Width
    PROVE  GoodPort([p EXCEPT !.gout = s])
  BY DEF GoodPort, Steady, Counted, Timely, PortType, PortRecord

\* Other bits received, unless the gray link is sending.
LEMMA ReceivedKeeps ==
    ASSUME NEW p, GoodPort(p), NEW s \in Seq({0, 1}), Len(s) <= Width, ~p.gsend \/ s = <<>>
    PROVE  GoodPort([p EXCEPT !.gin = s])
  BY DEF GoodPort, Steady, Counted, Timely, PortType, PortRecord

\* One turn of the gray link keeps a good port good.
LEMMA GrayKeeps ==
    ASSUME NEW p, GoodPort(p)
    PROVE  GoodPort(Gray(p))
<1> USE WidthAssumption
<1>1. /\ p.lines \in 0..3 /\ p.ext \in 0..2 /\ p.gin \in Seq({0, 1}) /\ p.gout \in Seq({0, 1})
      /\ Len(p.gin) \in Nat /\ Len(p.gin) <= Width /\ Len(p.gout) <= Width
  BY BitSequences DEF GoodPort, Steady, Counted, Timely, PortType, PortRecord
<1>2. CASE p.gsend
  <2>1. CASE p.lines = 0 /\ p.ext = 0 /\ p.gout # <<>>
    <3> DEFINE q == SetExt(p, LineOf(Head(p.gout)))
    <3>1. GoodPort(q) /\ q.gout = p.gout
      <4>1. LineOf(Head(p.gout)) \in 0..2
        BY Lines
      <4> QED
        BY <4>1, ExtSet DEF OnlyExt
    <3>2. Gray(p) = [q EXCEPT !.gout = Tail(q.gout)]
      BY <1>2, <2>1 DEF Gray, GrayWrite
    <3>3. Tail(p.gout) \in Seq({0, 1}) /\ Len(Tail(p.gout)) <= Width
      BY <1>1, <2>1, BitSequences
    <3> HIDE DEF q
    <3>4. GoodPort([q EXCEPT !.gout = Tail(p.gout)])
      BY <3>1, <3>3, SendingKeeps, Zenon
    <3> QED
      BY <3>1, <3>2, <3>4, Zenon
  <2>2. CASE p.lines = 0 /\ p.ext = 0 /\ p.gout = <<>>
    <3> DEFINE q == [p EXCEPT !.gsend = FALSE]
    <3>1. Gray(p) = Stop(q, "WRITE_BYTE")
      BY <1>2, <2>2 DEF Gray, GrayWrite
    <3>2. GoodPort(q)
      BY DEF GoodPort, Steady, Counted, Timely, PortType, PortRecord
    <3> HIDE DEF q
    <3> QED
      BY <3>1, <3>2, StopKeeps DEF AllStops
  <2>3. CASE p.lines \in {1, 2} /\ p.ext = Opposite(p.lines)
    <3>1. Gray(p) = SetExt(p, 0) /\ 0 \in 0..2
      BY <1>2, <2>3 DEF Gray, GrayWrite
    <3> QED
      BY <3>1, ExtSet
  <2>4. CASE p.lines = 3
    <3> DEFINE q == SetExt(p, 0)
               r == [q EXCEPT !.gsend = FALSE, !.gout = <<>>]
    <3>1. GoodPort(q)
      BY ExtSet, Lines
    <3>2. Gray(p) = Stop(r, "ERROR")
      BY <1>2, <2>4 DEF Gray, GrayWrite
    <3> HIDE DEF q
    <3>3. GoodPort(r)
      <4>1. <<>> \in Seq({0, 1}) /\ Len(<<>>) <= Width
        BY BitSequences
      <4>2. GoodPort([q EXCEPT !.gsend = FALSE])
        BY <3>1 DEF GoodPort, Steady, Counted, Timely, PortType, PortRecord
      <4>3. GoodPort([[q EXCEPT !.gsend = FALSE] EXCEPT !.gout = <<>>])
        BY <4>1, <4>2, SendingKeeps, Zenon
      <4> QED
        BY <4>3
    <3> HIDE DEF r
    <3> QED
      BY <3>2, <3>3, StopKeeps DEF AllStops
  <2>5. CASE /\ ~(p.lines = 0 /\ p.ext = 0) /\ p.lines # 3
             /\ ~(p.lines \in {1, 2} /\ p.ext = Opposite(p.lines))
    BY <1>2, <2>5 DEF Gray, GrayWrite
  <2> QED
    BY <2>1, <2>2, <2>3, <2>4, <2>5
<1>3. CASE ~p.gsend /\ Len(p.gin) # Width
  <2>1. CASE p.lines = 0
    <3> DEFINE s == Append(p.gin, IF p.ext = 1 THEN 1 ELSE 0)
               q == IF p.ext \in {1, 2} THEN [p EXCEPT !.gin = s] ELSE p
               r == IF Len(q.gin) >= Width THEN Stop(q, "READ_BYTE") ELSE q
    <3>1. Gray(p) = SetExt(r, 0)
      BY <1>3, <2>1 DEF Gray, GrayRead
    <3>2. s \in Seq({0, 1}) /\ Len(s) <= Width
      BY <1>1, <1>3, BitSequences
    <3> HIDE DEF s
    <3>3. GoodPort(q)
      BY <1>3, <3>2, ReceivedKeeps
    <3> HIDE DEF q
    <3>4. GoodPort(r)
      BY <3>3, StopKeeps DEF AllStops
    <3> HIDE DEF r
    <3> QED
      BY <3>1, <3>4, ExtSet, Lines
  <2>2. CASE p.lines \in {1, 2}
    <3>1. Gray(p) = SetExt(p, Opposite(p.lines)) /\ Opposite(p.lines) \in 0..2
      BY <1>3, <2>2, Lines DEF Gray, GrayRead
    <3> QED
      BY <3>1, ExtSet
  <2>3. CASE p.lines = 3
    <3> DEFINE q == SetExt(p, 0)
               r == [q EXCEPT !.gin = <<>>]
    <3>1. GoodPort(q)
      BY ExtSet, Lines
    <3>2. Gray(p) = Stop(r, "ERROR")
      BY <1>3, <2>3 DEF Gray, GrayRead
    <3> HIDE DEF q
    <3>3. GoodPort(r)
      <4>1. <<>> \in Seq({0, 1}) /\ Len(<<>>) <= Width
        BY BitSequences
      <4> QED
        BY <3>1, <4>1, ReceivedKeeps, Zenon
    <3> HIDE DEF r
    <3> QED
      BY <3>2, <3>3, StopKeeps DEF AllStops
  <2> QED
    BY <1>1, <2>1, <2>2, <2>3
<1>4. CASE ~p.gsend /\ Len(p.gin) = Width
  BY <1>4 DEF Gray
<1> QED
  BY <1>2, <1>3, <1>4

\* The timeout of the assist started.
LEMMA TimeoutSet ==
    ASSUME NEW p, Steady(p), Counted(p)
    PROVE  GoodPort(SetTimeout(p))
<1>1. CASE "NO_TIMEOUT" \in p.mode
  <2>1. p.mode \in Modes /\ SetTimeout(p) = p
    BY <1>1 DEF Steady, PortType, PortRecord, SetTimeout
  <2>2. ~Timed
    BY <1>1, <2>1 DEF Timed
  <2> QED
    BY <2>1, <2>2 DEF GoodPort, Timely
<1>2. CASE "NO_TIMEOUT" \notin p.mode
  BY <1>2 DEF GoodPort, Steady, Counted, Timely, PortType, PortRecord, SetTimeout
<1> QED
  BY <1>1, <1>2

\* The timeout of the assist stopped.
LEMMA TimeoutCleared ==
    ASSUME NEW p, Steady(p), Counted(p), "READ_BUSY" \notin p.flags,
           "WRITE_BUSY" \notin p.flags \/ p.lines = 0
    PROVE  GoodPort(ClearTimeout(p))
  BY DEF GoodPort, Steady, Counted, Timely, PortType, PortRecord, ClearTimeout

\* The assist, sending, keeps a good port good.
LEMMA AssistWriteKeeps ==
    ASSUME NEW p, GoodPort(p), "WRITE_BUSY" \in p.flags
    PROVE  GoodPort(AssistWrite(p))
<1>1. /\ p.ext \in 0..2 /\ p.aout \in Seq({0, 1}) /\ Len(p.aout) <= Width /\ p.lines \in 0..3
      /\ Width \in Nat /\ "READ_BUSY" \notin p.flags
  BY WidthAssumption DEF GoodPort, Steady, PortType, PortRecord
<1>2. CASE p.ext = 0 /\ p.lines = 0 /\ p.aout # <<>>
  <2> DEFINE l == LineOf(Head(p.aout))
             s == Tail(p.aout)
             q == [[p EXCEPT !.lines = l] EXCEPT !.aout = s]
  <2>1. AssistWrite(p) = SetTimeout(q)
    BY <1>2 DEF AssistWrite, SetLines
  <2>2. l \in 0..3 /\ s \in Seq({0, 1}) /\ Len(s) <= Width
    BY <1>1, <1>2, BitSequences, Lines
  <2> HIDE DEF l, s
  <2>3. Steady(q) /\ Counted(q)
    BY <2>2 DEF GoodPort, Steady, Counted, PortType, PortRecord
  <2> HIDE DEF q
  <2> QED
    BY <2>1, <2>3, TimeoutSet
<1>3. CASE p.ext = 0 /\ p.lines = 0 /\ p.aout = <<>>
  <2> DEFINE q == [p EXCEPT !.flags = @ \ {"WRITE_BUSY"}]
  <2>1. AssistWrite(p) = ClearTimeout(q)
    BY <1>3 DEF AssistWrite
  <2>2. Steady(q) /\ Counted(q) /\ q.flags = p.flags \ {"WRITE_BUSY"}
    BY DEF GoodPort, Steady, Counted, PortType, PortRecord
  <2> HIDE DEF q
  <2> QED
    BY <1>1, <2>1, <2>2, TimeoutCleared
<1>4. CASE p.ext \in {1, 2} /\ p.ext = Opposite(p.lines)
  <2> DEFINE q == SetLines(p, 0)
  <2>1. AssistWrite(p) = ClearTimeout(q)
    BY <1>4 DEF AssistWrite
  <2>2. Steady(q) /\ Counted(q) /\ q.flags = p.flags /\ q.lines = 0
    BY DEF GoodPort, Steady, Counted, PortType, PortRecord, SetLines
  <2> HIDE DEF q
  <2> QED
    BY <1>1, <2>1, <2>2, TimeoutCleared
<1>5. CASE ~(p.ext = 0 /\ p.lines = 0) /\ ~(p.ext \in {1, 2} /\ p.ext = Opposite(p.lines))
  <2>1. AssistWrite(p) = p
    BY <1>1, <1>5 DEF AssistWrite
  <2> QED
    BY <2>1
<1> QED
  BY <1>2, <1>3, <1>4, <1>5

\* The bit that a line stands for is shifted in, at most Width of them.
LEMMA BitKeeps ==
    ASSUME NEW p, GoodPort(p), "READ_BYTE" \notin p.flags
    PROVE  /\ Steady(AssistBit(p))
           /\ AssistBit(p).flags = p.flags
<1> USE WidthAssumption
<1>1. /\ p.ain \in Seq({0, 1}) /\ Len(p.ain) = Width /\ p.ain # <<>>
      /\ p.ainbits \in Nat /\ p.ainbits < Width
  BY BitSequences DEF GoodPort, Steady, Counted, PortType, PortRecord
<1>2. CASE p.lines \in {1, 2}
  <2> DEFINE s == Append(Tail(p.ain), IF p.lines = 1 THEN 1 ELSE 0)
             n == p.ainbits + 1
  <2>1. s \in Seq({0, 1}) /\ Len(s) = Width
    BY <1>1, BitSequences
  <2>2. n \in 0..Width
    BY <1>1
  <2>3. AssistBit(p) = [[p EXCEPT !.ain = s] EXCEPT !.ainbits = n]
    <3>1. p.ainbits = [p EXCEPT !.ain = s].ainbits
      BY DEF GoodPort, Steady, PortType, PortRecord
    <3> QED
      BY <1>2, <3>1 DEF AssistBit
  <2> HIDE DEF s, n
  <2> QED
    BY <2>1, <2>2, <2>3 DEF GoodPort, Steady, PortType, PortRecord
<1>3. CASE p.lines \notin {1, 2}
  BY <1>3 DEF AssistBit, GoodPort
<1> QED
  BY <1>2, <1>3

\* The assist, receiving, keeps a good port good.
LEMMA AssistReadKeeps ==
    ASSUME NEW p, GoodPort(p), "WRITE_BUSY" \notin p.flags, "READ_BYTE" \notin p.flags
    PROVE  GoodPort(AssistRead(p))
<1>1. p.ext \in 0..2 /\ Width \in Nat
  BY WidthAssumption DEF GoodPort, Steady, PortType, PortRecord
<1>2. CASE p.ext = 0
  <2> DEFINE q == AssistBit(p)
             t == [q EXCEPT !.flags = (@ \ {"READ_BUSY"}) \cup {"READ_BYTE"}]
             r == IF q.ainbits >= Width THEN ClearTimeout(t) ELSE SetTimeout(q)
  <2>1. AssistRead(p) = SetLines(r, 0)
    BY <1>2 DEF AssistRead
  <2>2. Steady(q) /\ q.flags = p.flags /\ q.ainbits \in Nat
    BY BitKeeps DEF Steady, PortType, PortRecord
  <2> HIDE DEF q
  <2>3. CASE q.ainbits >= Width
    <3>1. Steady(t) /\ Counted(t) /\ t.flags = (p.flags \ {"READ_BUSY"}) \cup {"READ_BYTE"}
      BY <2>2 DEF Steady, Counted, PortType, PortRecord, AllFlags
    <3>2. r = ClearTimeout(t)
      BY <2>3
    <3> HIDE DEF t, r
    <3>3. GoodPort(r)
      BY <3>1, <3>2, TimeoutCleared
    <3> QED
      BY <2>1, <3>3, LinesSet, Lines
  <2>4. CASE ~(q.ainbits >= Width)
    <3>1. Counted(q) /\ r = SetTimeout(q)
      BY <1>1, <2>2, <2>4 DEF Counted
    <3> HIDE DEF t, r
    <3>2. GoodPort(r)
      BY <2>2, <3>1, TimeoutSet
    <3> QED
      BY <2>1, <3>2, LinesSet, Lines
  <2> QED
    BY <2>3, <2>4
<1>3. CASE p.ext \in {1, 2}
  <2> DEFINE v == Opposite(p.ext)
             q == [[p EXCEPT !.flags = @ \cup {"READ_BUSY"}] EXCEPT !.lines = v]
  <2>1. AssistRead(p) = SetTimeout(q)
    BY <1>3 DEF AssistRead, SetLines
  <2>2. v \in 0..3
    BY <1>3, Lines
  <2> HIDE DEF v
  <2>3. Steady(q) /\ Counted(q)
    BY <2>2 DEF GoodPort, Steady, Counted, PortType, PortRecord, AllFlags
  <2> HIDE DEF q
  <2> QED
    BY <2>1, <2>3, TimeoutSet
<1> QED
  BY <1>1, <1>2, <1>3

\* One turn of the assist keeps a good port good.
LEMMA AssistKeeps ==
    ASSUME NEW p, GoodPort(p)
    PROVE  GoodPort(Assist(p))
  BY AssistWriteKeeps, AssistReadKeeps DEF Assist

-----------------------------------------------------------------------------
(* What a turn does, field by field.                                       *)

GrayDone(p, q) ==
    /\ q.lines = p.lines /\ q.flags = p.flags /\ q.aout = p.aout /\ q.mode = p.mode
    /\ q.ain = p.ain /\ q.ainbits = p.ainbits
    /\ p.gsend /\ p.lines = 0 /\ p.ext = 0 /\ p.gout # <<>> =>
         /\ q.gsend /\ q.ext = LineOf(Head(p.gout)) /\ q.gout = Tail(p.gout)
         /\ q.gin = p.gin
    /\ p.gsend /\ p.lines = 0 /\ p.ext = 0 /\ p.gout = <<>> =>
         ~q.gsend /\ q.ext = 0 /\ q.gout = <<>> /\ q.gin = p.gin
    /\ p.gsend /\ p.lines \in {1, 2} /\ p.ext = Opposite(p.lines) =>
         q.gsend /\ q.ext = 0 /\ q.gout = p.gout /\ q.gin = p.gin
    /\ p.gsend /\ p.lines = 3 =>
         ~q.gsend /\ q.ext = 0 /\ q.gout = <<>> /\ q.gin = p.gin
    /\ /\ p.gsend /\ p.lines # 3 /\ ~(p.lines = 0 /\ p.ext = 0)
       /\ ~(p.lines \in {1, 2} /\ p.ext = Opposite(p.lines))
       => q = p
    /\ ~p.gsend /\ Len(p.gin) # Width /\ p.lines = 0 =>
         /\ ~q.gsend /\ q.ext = 0 /\ q.gout = p.gout
         /\ q.gin = IF p.ext \in {1, 2} THEN Append(p.gin, IF p.ext = 1 THEN 1 ELSE 0)
                    ELSE p.gin
    /\ ~p.gsend /\ Len(p.gin) # Width /\ p.lines \in {1, 2} =>
         ~q.gsend /\ q.ext = Opposite(p.lines) /\ q.gout = p.gout /\ q.gin = p.gin
    /\ ~p.gsend /\ Len(p.gin) # Width /\ p.lines = 3 =>
         ~q.gsend /\ q.ext = 0 /\ q.gout = p.gout /\ q.gin = <<>>
    /\ ~p.gsend /\ Len(p.gin) = Width => q = p

\* What one turn of the gray link does is one of the cases of GrayDone.
LEMMA GrayDoes ==
    ASSUME NEW p, GoodPort(p)
    PROVE  GrayDone(p, Gray(p))
<1> SUFFICES ASSUME NEW q, q = Gray(p)
             PROVE  GrayDone(p, q)
  OBVIOUS
<1> USE DEF GrayDone
<1> DEFINE Same == /\ q.lines = p.lines /\ q.flags = p.flags /\ q.aout = p.aout
                   /\ q.mode = p.mode /\ q.ain = p.ain /\ q.ainbits = p.ainbits
<1>1. CASE p.gsend /\ p.lines = 0 /\ p.ext = 0 /\ p.gout # <<>>
  <2> DEFINE e == SetExt(p, LineOf(Head(p.gout)))
  <2>1. GoodPort(e) /\ e.ext = LineOf(Head(p.gout)) /\ OnlyExt(p, e)
    <3>1. LineOf(Head(p.gout)) \in 0..2
      BY Lines
    <3> QED
      BY <3>1, ExtSet
  <2>2. q = [e EXCEPT !.gout = Tail(e.gout)]
    BY <1>1 DEF Gray, GrayWrite
  <2> HIDE DEF e
  <2>3. /\ Same /\ q.gsend = e.gsend /\ q.ext = e.ext /\ q.gout = Tail(e.gout)
        /\ q.gin = e.gin
    BY <2>1, <2>2 DEF OnlyExt, GoodPort, Steady, PortType, PortRecord
  <2> QED
    BY <1>1, <2>1, <2>3 DEF OnlyExt
<1>2. CASE p.gsend /\ p.lines = 0 /\ p.ext = 0 /\ p.gout = <<>>
  <2>1. q = Stop([p EXCEPT !.gsend = FALSE], "WRITE_BYTE")
    BY <1>2 DEF Gray, GrayWrite
  <2> QED
    BY <1>2, <2>1 DEF Stop, GoodPort, Steady, PortType, PortRecord
<1>3. CASE p.gsend /\ p.lines \in {1, 2} /\ p.ext = Opposite(p.lines)
  <2>1. q = SetExt(p, 0)
    BY <1>3 DEF Gray, GrayWrite
  <2>2. q.ext = 0 /\ OnlyExt(p, q)
    BY <2>1, ExtSet, Lines
  <2> QED
    BY <1>3, <2>2 DEF OnlyExt
<1>4. CASE p.gsend /\ p.lines = 3
  <2> DEFINE e == SetExt(p, 0)
  <2>1. GoodPort(e) /\ e.ext = 0 /\ OnlyExt(p, e)
    BY ExtSet, Lines
  <2>2. q = Stop([e EXCEPT !.gsend = FALSE, !.gout = <<>>], "ERROR")
    BY <1>4 DEF Gray, GrayWrite
  <2> HIDE DEF e
  <2>3. Same /\ ~q.gsend /\ q.ext = e.ext /\ q.gout = <<>> /\ q.gin = e.gin
    BY <2>1, <2>2 DEF Stop, OnlyExt, GoodPort, Steady, PortType, PortRecord
  <2> QED
    BY <1>4, <2>1, <2>3 DEF OnlyExt
<1>5. CASE /\ p.gsend /\ p.lines # 3 /\ ~(p.lines = 0 /\ p.ext = 0)
           /\ ~(p.lines \in {1, 2} /\ p.ext = Opposite(p.lines))
  <2>1. q = p
    BY <1>5 DEF Gray, GrayWrite
  <2> QED
    BY <1>5, <2>1
<1>6. CASE ~p.gsend /\ Len(p.gin) # Width /\ p.lines = 0
  <2> DEFINE s == Append(p.gin, IF p.ext = 1 THEN 1 ELSE 0)
             d == IF p.ext \in {1, 2} THEN [p EXCEPT !.gin = s] ELSE p
             r == IF Len(d.gin) >= Width THEN Stop(d, "READ_BYTE") ELSE d
  <2>1. q = SetExt(r, 0)
    BY <1>6 DEF Gray, GrayRead
  <2>2. GoodPort(d)
    <3>1. p.gin \in Seq({0, 1}) /\ Len(p.gin) \in Nat /\ Len(p.gin) <= Width /\ Width \in Nat
      BY BitSequences, WidthAssumption DEF GoodPort, Steady, PortType, PortRecord
    <3>2. s \in Seq({0, 1}) /\ Len(s) <= Width
      BY <1>6, <3>1, BitSequences
    <3> HIDE DEF s
    <3> QED
      BY <1>6, <3>2, ReceivedKeeps
  <2>3. /\ d.lines = p.lines /\ d.flags = p.flags /\ d.aout = p.aout /\ d.mode = p.mode
        /\ d.ain = p.ain /\ d.ainbits = p.ainbits /\ d.gsend = p.gsend /\ d.gout = p.gout
        /\ d.gin = IF p.ext \in {1, 2} THEN s ELSE p.gin
    BY DEF GoodPort, Steady, PortType, PortRecord
  <2> HIDE DEF d
  <2>4. /\ GoodPort(r) /\ r.lines = d.lines /\ r.flags = d.flags /\ r.aout = d.aout
        /\ r.mode = d.mode /\ r.ain = d.ain /\ r.ainbits = d.ainbits /\ r.gsend = d.gsend
        /\ r.gout = d.gout /\ r.gin = d.gin
    BY <2>2 DEF GoodPort, Steady, Counted, Timely, PortType, PortRecord, Stop, AllStops
  <2> HIDE DEF r
  <2>5. q.ext = 0 /\ OnlyExt(r, q)
    BY <2>1, <2>4, ExtSet, Lines
  <2> QED
    BY <1>6, <2>3, <2>4, <2>5 DEF OnlyExt
<1>7. CASE ~p.gsend /\ Len(p.gin) # Width /\ p.lines \in {1, 2}
  <2>1. q = SetExt(p, Opposite(p.lines)) /\ Opposite(p.lines) \in 0..2
    BY <1>7, Lines DEF Gray, GrayRead
  <2>2. q.ext = Opposite(p.lines) /\ OnlyExt(p, q)
    BY <2>1, ExtSet
  <2> QED
    BY <1>7, <2>2 DEF OnlyExt
<1>8. CASE ~p.gsend /\ Len(p.gin) # Width /\ p.lines = 3
  <2> DEFINE e == SetExt(p, 0)
  <2>1. GoodPort(e) /\ e.ext = 0 /\ OnlyExt(p, e)
    BY ExtSet, Lines
  <2>2. q = Stop([e EXCEPT !.gin = <<>>], "ERROR")
    BY <1>8 DEF Gray, GrayRead
  <2> HIDE DEF e
  <2>3. Same /\ q.gsend = e.gsend /\ q.ext = e.ext /\ q.gout = e.gout /\ q.gin = <<>>
    BY <2>1, <2>2 DEF Stop, OnlyExt, GoodPort, Steady, PortType, PortRecord
  <2> QED
    BY <1>8, <2>1, <2>3 DEF OnlyExt
<1>9. CASE ~p.gsend /\ Len(p.gin) = Width
  <2>1. q = p
    BY <1>9 DEF Gray
  <2> QED
    BY <1>9, <2>1
<1>10. p.lines \in 0..3
  BY DEF GoodPort, Steady, PortType, PortRecord
<1>11. \/ p.gsend /\ p.lines = 0 /\ p.ext = 0 /\ p.gout # <<>>
       \/ p.gsend /\ p.lines = 0 /\ p.ext = 0 /\ p.gout = <<>>
       \/ p.gsend /\ p.lines \in {1, 2} /\ p.ext = Opposite(p.lines)
       \/ p.gsend /\ p.lines = 3
       \/ /\ p.gsend /\ p.lines # 3 /\ ~(p.lines = 0 /\ p.ext = 0)
          /\ ~(p.lines \in {1, 2} /\ p.ext = Opposite(p.lines))
       \/ ~p.gsend /\ Len(p.gin) # Width /\ p.lines = 0
       \/ ~p.gsend /\ Len(p.gin) # Width /\ p.lines \in {1, 2}
       \/ ~p.gsend /\ Len(p.gin) # Width /\ p.lines = 3
       \/ ~p.gsend /\ Len(p.gin) = Width
  BY <1>10
<1> QED
  BY <1>1, <1>2, <1>3, <1>4, <1>5, <1>6, <1>7, <1>8, <1>9, <1>11

Reading(p) == /\ "WRITE_BUSY" \notin p.flags /\ "READ_BYTE" \notin p.flags
              /\ "ASSIST" \in p.mode

\* The timeout and the interrupts apart, this is what changes.
LEMMA TimeoutOnly ==
    ASSUME NEW p, Steady(p), NEW q \in {SetTimeout(p), ClearTimeout(p)}
    PROVE  /\ q.lines = p.lines /\ q.ext = p.ext /\ q.gin = p.gin /\ q.gout = p.gout
           /\ q.gsend = p.gsend /\ q.ain = p.ain /\ q.ainbits = p.ainbits /\ q.aout = p.aout
           /\ q.flags = p.flags /\ q.mode = p.mode
<1>1. \E t \in BOOLEAN : q = [p EXCEPT !.timer = t]
  <2>1. p.timer \in BOOLEAN /\ p = [p EXCEPT !.timer = p.timer]
    BY DEF Steady, PortType, PortRecord
  <2>2. q = p \/ q = [p EXCEPT !.timer = TRUE] \/ q = [p EXCEPT !.timer = FALSE]
    BY DEF SetTimeout, ClearTimeout
  <2> QED
    BY <2>1, <2>2, Zenon
<1> QED
  BY <1>1 DEF Steady, PortType, PortRecord

AssistDone(p, q) ==
    /\ q.ext = p.ext /\ q.gin = p.gin /\ q.gout = p.gout /\ q.gsend = p.gsend
    /\ q.mode = p.mode
    /\ "WRITE_BUSY" \in p.flags => q.ain = p.ain /\ q.ainbits = p.ainbits
    /\ "WRITE_BUSY" \in p.flags /\ p.ext = 0 /\ p.lines = 0 /\ p.aout # <<>> =>
         /\ q.lines = LineOf(Head(p.aout)) /\ q.aout = Tail(p.aout)
         /\ q.flags = p.flags
    /\ "WRITE_BUSY" \in p.flags /\ p.ext = 0 /\ p.lines = 0 /\ p.aout = <<>> =>
         q.lines = 0 /\ q.aout = <<>> /\ q.flags = p.flags \ {"WRITE_BUSY"}
    /\ "WRITE_BUSY" \in p.flags /\ p.ext \in {1, 2} /\ p.ext = Opposite(p.lines) =>
         q.lines = 0 /\ q.aout = p.aout /\ q.flags = p.flags
    /\ /\ "WRITE_BUSY" \in p.flags /\ ~(p.ext = 0 /\ p.lines = 0)
       /\ ~(p.ext \in {1, 2} /\ p.ext = Opposite(p.lines))
       => q = p
    /\ Reading(p) => q.aout = p.aout
    /\ Reading(p) /\ p.ext = 0 =>
         /\ q.lines = 0
         /\ q.ain = IF p.lines \in {1, 2}
                      THEN Append(Tail(p.ain), IF p.lines = 1 THEN 1 ELSE 0) ELSE p.ain
         /\ q.ainbits = IF p.lines \in {1, 2} THEN p.ainbits + 1 ELSE p.ainbits
         /\ q.flags = IF q.ainbits >= Width
                        THEN (p.flags \ {"READ_BUSY"}) \cup {"READ_BYTE"} ELSE p.flags
    /\ Reading(p) /\ p.ext \in {1, 2} =>
         /\ q.lines = Opposite(p.ext) /\ q.flags = p.flags \cup {"READ_BUSY"}
         /\ q.ain = p.ain /\ q.ainbits = p.ainbits
    /\ "WRITE_BUSY" \notin p.flags /\ ~Reading(p) => q = p

\* What one turn of the assist does is one of the cases of AssistDone.
LEMMA AssistDoes ==
    ASSUME NEW p, GoodPort(p)
    PROVE  AssistDone(p, Assist(p))
<1> SUFFICES ASSUME NEW q, q = Assist(p)
             PROVE  AssistDone(p, q)
  OBVIOUS
<1> USE DEF AssistDone
<1> DEFINE Same == /\ q.ext = p.ext /\ q.gin = p.gin /\ q.gout = p.gout
                   /\ q.gsend = p.gsend /\ q.mode = p.mode
<1>0. p.ext \in 0..2 /\ p.lines \in 0..3
  BY DEF GoodPort, Steady, PortType, PortRecord
<1>1. CASE "WRITE_BUSY" \in p.flags /\ p.ext = 0 /\ p.lines = 0 /\ p.aout # <<>>
  <2> DEFINE l == LineOf(Head(p.aout))
             s == Tail(p.aout)
             d == [[p EXCEPT !.lines = l] EXCEPT !.aout = s]
  <2>1. q = SetTimeout(d)
    BY <1>1 DEF Assist, AssistWrite, SetLines
  <2>2. l \in 0..3 /\ s \in Seq({0, 1}) /\ Len(s) <= Width
    <3>1. p.aout \in Seq({0, 1}) /\ Len(p.aout) <= Width /\ Width \in Nat
      BY WidthAssumption DEF GoodPort, Steady, PortType, PortRecord
    <3> QED
      BY <1>1, <3>1, BitSequences, Lines
  <2> HIDE DEF l, s
  <2>3. /\ Steady(d) /\ d.lines = l /\ d.aout = s /\ d.flags = p.flags /\ d.ain = p.ain
        /\ d.ainbits = p.ainbits /\ d.ext = p.ext /\ d.gin = p.gin /\ d.gout = p.gout
        /\ d.gsend = p.gsend /\ d.mode = p.mode
    BY <2>2 DEF GoodPort, Steady, PortType, PortRecord
  <2> HIDE DEF d
  <2> QED
    BY <1>1, <2>1, <2>3, TimeoutOnly DEF Reading, l, s
<1>2. CASE "WRITE_BUSY" \in p.flags /\ p.ext = 0 /\ p.lines = 0 /\ p.aout = <<>>
  <2> DEFINE d == [p EXCEPT !.flags = @ \ {"WRITE_BUSY"}]
  <2>1. q = ClearTimeout(d)
    BY <1>2 DEF Assist, AssistWrite
  <2>2. /\ Steady(d) /\ d.lines = p.lines /\ d.aout = p.aout
        /\ d.flags = p.flags \ {"WRITE_BUSY"} /\ d.ain = p.ain
        /\ d.ainbits = p.ainbits /\ d.ext = p.ext /\ d.gin = p.gin /\ d.gout = p.gout
        /\ d.gsend = p.gsend /\ d.mode = p.mode
    BY DEF GoodPort, Steady, PortType, PortRecord
  <2> HIDE DEF d
  <2> QED
    BY <1>2, <2>1, <2>2, TimeoutOnly DEF Reading
<1>3. CASE "WRITE_BUSY" \in p.flags /\ p.ext \in {1, 2} /\ p.ext = Opposite(p.lines)
  <2> DEFINE d == SetLines(p, 0)
  <2>1. q = ClearTimeout(d)
    BY <1>3 DEF Assist, AssistWrite
  <2>2. /\ Steady(d) /\ d.lines = 0 /\ d.aout = p.aout
        /\ d.flags = p.flags /\ d.ain = p.ain
        /\ d.ainbits = p.ainbits /\ d.ext = p.ext /\ d.gin = p.gin /\ d.gout = p.gout
        /\ d.gsend = p.gsend /\ d.mode = p.mode
    <3>1. d = [p EXCEPT !.lines = 0]
      BY DEF SetLines
    <3>2. Steady(d)
      BY LinesSet, Lines DEF GoodPort
    <3> HIDE DEF d
    <3>3. d.lines = 0 /\ d.aout = p.aout /\ d.flags = p.flags /\ d.ain = p.ain
      BY <3>1 DEF GoodPort, Steady, PortType, PortRecord
    <3>4. /\ d.ainbits = p.ainbits /\ d.ext = p.ext /\ d.gin = p.gin /\ d.gout = p.gout
          /\ d.gsend = p.gsend /\ d.mode = p.mode
      BY <3>1 DEF GoodPort, Steady, PortType, PortRecord
    <3> QED
      BY <3>2, <3>3, <3>4
  <2> HIDE DEF d
  <2> QED
    BY <1>3, <2>1, <2>2, TimeoutOnly DEF Reading
<1>4. CASE /\ "WRITE_BUSY" \in p.flags /\ ~(p.ext = 0 /\ p.lines = 0)
           /\ ~(p.ext \in {1, 2} /\ p.ext = Opposite(p.lines))
  <2>1. q = p
    BY <1>0, <1>4 DEF Assist, AssistWrite
  <2> QED
    BY <1>4, <2>1 DEF Reading
<1>5. CASE Reading(p) /\ p.ext = 0
  <2> DEFINE d == AssistBit(p)
             t == [d EXCEPT !.flags = (@ \ {"READ_BUSY"}) \cup {"READ_BYTE"}]
             r == IF d.ainbits >= Width THEN ClearTimeout(t) ELSE SetTimeout(d)
  <2>1. q = SetLines(r, 0)
    BY <1>5 DEF Assist, AssistRead, Reading
  <2>2. /\ d.lines = p.lines /\ d.aout = p.aout
        /\ d.flags = p.flags
        /\ d.ain = IF p.lines \in {1, 2}
                     THEN Append(Tail(p.ain), IF p.lines = 1 THEN 1 ELSE 0) ELSE p.ain
        /\ d.ainbits = IF p.lines \in {1, 2} THEN p.ainbits + 1 ELSE p.ainbits
        /\ d.ext = p.ext /\ d.gin = p.gin /\ d.gout = p.gout
        /\ d.gsend = p.gsend /\ d.mode = p.mode
    <3> DEFINE s == Append(Tail(p.ain), IF p.lines = 1 THEN 1 ELSE 0)
    <3>1. AssistBit(p) = IF p.lines \in {1, 2}
                           THEN [p EXCEPT !.ain = s, !.ainbits = @ + 1] ELSE p
      BY DEF AssistBit
    <3> HIDE DEF s
    <3>2. /\ d.lines = p.lines /\ d.aout = p.aout /\ d.flags = p.flags
          /\ d.ain = IF p.lines \in {1, 2} THEN s ELSE p.ain
          /\ d.ainbits = IF p.lines \in {1, 2} THEN p.ainbits + 1 ELSE p.ainbits
          /\ d.ext = p.ext /\ d.gin = p.gin /\ d.gout = p.gout
          /\ d.gsend = p.gsend /\ d.mode = p.mode
      BY <3>1 DEF GoodPort, Steady, PortType, PortRecord
    <3> QED
      BY <3>2 DEF s
  <2>3. Steady(d)
    BY <1>5, BitKeeps DEF Reading
  <2> HIDE DEF d
  <2>4. /\ Steady(r) /\ r.lines = d.lines /\ r.aout = d.aout /\ r.ain = d.ain
        /\ r.ainbits = d.ainbits /\ r.ext = d.ext /\ r.gin = d.gin /\ r.gout = d.gout
        /\ r.gsend = d.gsend /\ r.mode = d.mode
        /\ r.flags = IF d.ainbits >= Width
                       THEN (d.flags \ {"READ_BUSY"}) \cup {"READ_BYTE"} ELSE d.flags
    <3>1. CASE d.ainbits >= Width
      <4>1. /\ Steady(t) /\ t.lines = d.lines /\ t.aout = d.aout /\ t.ain = d.ain
            /\ t.ainbits = d.ainbits /\ t.ext = d.ext /\ t.gin = d.gin /\ t.gout = d.gout
            /\ t.gsend = d.gsend /\ t.mode = d.mode
            /\ t.flags = (d.flags \ {"READ_BUSY"}) \cup {"READ_BYTE"}
        BY <2>3 DEF Steady, PortType, PortRecord, AllFlags
      <4>2. r = ClearTimeout(t)
        BY <3>1
      <4> HIDE DEF t, r
      <4>3. Steady(r)
        BY <4>1, <4>2 DEF Steady, PortType, PortRecord, ClearTimeout
      <4> QED
        BY <3>1, <4>1, <4>2, <4>3, TimeoutOnly
    <3>2. CASE ~(d.ainbits >= Width)
      <4>1. r = SetTimeout(d)
        BY <3>2
      <4> HIDE DEF r
      <4>2. Steady(r)
        BY <2>3, <4>1 DEF Steady, PortType, PortRecord, SetTimeout
      <4> QED
        BY <2>3, <3>2, <4>1, <4>2, TimeoutOnly
    <3> QED
      BY <3>1, <3>2
  <2> HIDE DEF r
  <2>5. /\ q.lines = 0 /\ q.aout = r.aout /\ q.ain = r.ain
        /\ q.ainbits = r.ainbits /\ q.ext = r.ext /\ q.gin = r.gin /\ q.gout = r.gout
        /\ q.gsend = r.gsend /\ q.mode = r.mode /\ q.flags = r.flags
    BY <2>1, <2>4 DEF SetLines, Steady, PortType, PortRecord
  <2> HIDE DEF t
  <2> QED
    BY <1>5, <2>2, <2>4, <2>5 DEF Reading
<1>6. CASE Reading(p) /\ p.ext \in {1, 2}
  <2> DEFINE v == Opposite(p.ext)
             d == [[p EXCEPT !.flags = @ \cup {"READ_BUSY"}] EXCEPT !.lines = v]
  <2>1. q = SetTimeout(d)
    BY <1>6 DEF Assist, AssistRead, SetLines, Reading
  <2>2. v \in 0..3
    BY <1>6, Lines
  <2> HIDE DEF v
  <2>3. /\ Steady(d) /\ d.lines = v /\ d.aout = p.aout
        /\ d.flags = p.flags \cup {"READ_BUSY"} /\ d.ain = p.ain
        /\ d.ainbits = p.ainbits /\ d.ext = p.ext /\ d.gin = p.gin /\ d.gout = p.gout
        /\ d.gsend = p.gsend /\ d.mode = p.mode
    BY <1>6, <2>2 DEF GoodPort, Steady, PortType, PortRecord, AllFlags, Reading
  <2> HIDE DEF d
  <2> QED
    BY <1>6, <2>1, <2>3, TimeoutOnly DEF Reading, v
<1>7. CASE "WRITE_BUSY" \notin p.flags /\ ~Reading(p)
  <2>1. q = p
    BY <1>7 DEF Assist, Reading
  <2> QED
    BY <1>7, <2>1 DEF Reading
<1> QED
  BY <1>0, <1>1, <1>2, <1>3, <1>4, <1>5, <1>6, <1>7 DEF Reading

-----------------------------------------------------------------------------
(* The loop of dbus_update(): it ends, and keeps what a turn keeps.        *)

\* A set of numbers that is not empty has a least one.
LEMMA Smallest ==
   ASSUME NEW T \in SUBSET Nat, T # {}
   PROVE \E x \in T : \A y \in T : x <= y
<1> DEFINE R == StrictSubsetOrdering(Nat)
           U == {1..n : n \in T}
<1>1. IsWellFoundedOn(R, FiniteSubsetsOf(Nat))
  BY FS_StrictSubsetOrderingWellFounded
<1>2. U \subseteq FiniteSubsetsOf(Nat) /\ U # {}
  <2>1. \A n \in T : 1..n \in SUBSET Nat /\ IsFiniteSet(1..n)
    BY FS_Interval
  <2> QED
    BY <2>1 DEF FiniteSubsetsOf
<1>3. PICK X \in U : \A Y \in U : ~(<<Y, X>> \in R)
  <2> HIDE DEF R, U
  <2> QED
    BY <1>1, <1>2, WFMin
<1>4. PICK x \in T : X = 1..x
  OBVIOUS
<1>5. ASSUME NEW y \in T PROVE x <= y
  <2> SUFFICES ASSUME y < x PROVE FALSE
    OBVIOUS
  <2>1. 1..y \subseteq 1..x /\ x \in 1..x /\ x \notin 1..y
    OBVIOUS
  <2>2. 1..y \in SUBSET Nat /\ 1..x \in SUBSET Nat
    OBVIOUS
  <2>3. <<1..y, X>> \in R
    BY <2>1, <2>2, <1>4 DEF StrictSubsetOrdering
  <2> QED
    BY <1>3, <2>3
<1> QED
  BY <1>5

\* A set that holds zero, and the successor of each number it holds, holds all.
LEMMA Induct ==
   ASSUME NEW S, 0 \in S, \A n \in Nat : n \in S => n + 1 \in S
   PROVE  Nat \subseteq S
<1> SUFFICES ASSUME Nat \ S # {} PROVE FALSE
  OBVIOUS
<1>1. PICK x \in Nat \ S : \A y \in Nat \ S : x <= y
  <2>1. Nat \ S \in SUBSET Nat
    OBVIOUS
  <2> QED
    BY <2>1, Smallest
<1>2. x # 0 /\ x - 1 \in Nat /\ ~(x <= x - 1)
  BY <1>1
<1>3. x - 1 \in S
  BY <1>1, <1>2
<1>4. (x - 1) + 1 = x
  BY <1>1
<1> QED
  BY <1>1, <1>2, <1>3, <1>4

\* The loop of dbus_update(), turn by turn.
LEMMA LoopIs ==
    ASSUME NEW p
    PROVE  /\ Loop(p)[0] = [at |-> p, rests |-> FALSE]
           /\ \A n \in 1..MostTurns :
                Loop(p)[n] = IF Loop(p)[n - 1].rests THEN Loop(p)[n - 1]
                             ELSE Turn(Loop(p)[n - 1].at)
<1> DEFINE Step(h, n) == IF n = 0 THEN [at |-> p, rests |-> FALSE]
                         ELSE IF h[n - 1].rests THEN h[n - 1] ELSE Turn(h[n - 1].at)
           G(h, j) == h = [n \in 0..j |-> Step(h, n)]
           S == {j \in Nat : \E h : G(h, j)}
<1>0. MostTurns \in Nat
  BY WidthAssumption DEF MostTurns
<1>1. 0 \in S
  <2> DEFINE h == [n \in 0..0 |-> [at |-> p, rests |-> FALSE]]
  <2>1. h = [n \in 0..0 |-> Step(h, n)]
    OBVIOUS
  <2> HIDE DEF h
  <2>2. \E x : G(x, 0)
    BY <2>1
  <2> QED
    BY <2>2
<1>2. ASSUME NEW j \in Nat, j \in S PROVE j + 1 \in S
  <2>1. PICK h : h = [n \in 0..j |-> Step(h, n)]
    BY <1>2
  <2> DEFINE g == [n \in 0..(j + 1) |-> Step(h, n)]
  <2>2. ASSUME NEW n \in 0..(j + 1), n # 0 PROVE g[n - 1] = h[n - 1]
    <3>1. n - 1 \in 0..j /\ n - 1 \in 0..(j + 1)
      BY <2>2
    <3> HIDE DEF Step
    <3>2. h[n - 1] = Step(h, n - 1)
      BY <3>1, <2>1
    <3> QED
      BY <3>1, <3>2
  <2>3. \A n \in 0..(j + 1) : Step(h, n) = Step(g, n)
    <3> HIDE DEF g
    <3> QED
      BY <2>2
  <2>4. g = [n \in 0..(j + 1) |-> Step(g, n)]
    <3> HIDE DEF Step
    <3>1. g = [n \in 0..(j + 1) |-> Step(h, n)]
      OBVIOUS
    <3> HIDE DEF g
    <3> QED
      BY <2>3, <3>1
  <2>5. \E x : G(x, j + 1)
    <3> HIDE DEF g
    <3> QED
      BY <2>4
  <2> QED
    BY <2>5
<1>3. MostTurns \in S
  <2> HIDE DEF S
  <2> QED
    BY <1>0, <1>1, <1>2, Induct
<1>4. \E h : G(h, MostTurns)
  BY <1>3
<1>5. G(Loop(p), MostTurns)
  BY <1>4 DEF Loop
<1>6. \A n \in 0..MostTurns : Loop(p)[n] = Step(Loop(p), n)
  <2> HIDE DEF Step
  <2> QED
    BY <1>5
<1>7. 0 \in 0..MostTurns /\ \A n \in 1..MostTurns : n \in 0..MostTurns /\ n # 0
  BY <1>0
<1> QED
  BY <1>6, <1>7

\* An upper bound on the turns that will still move the lines: two for each bit that is
\* to be sent, and those of the bit on its way.
Phase(p) ==
    CASE p.ext = 0 /\ p.lines = 0 -> 0
      [] p.ext = 0 /\ p.lines # 0 -> 1
      [] p.ext # 0 /\ p.lines = Opposite(p.ext) -> 1
      [] p.ext # 0 /\ p.lines # Opposite(p.ext) -> 2
AtOdds(p) ==
    \/ p.lines = 3
    \/ Len(p.gin) = Width /\ p.lines # (IF p.ext = 0 THEN 0 ELSE Opposite(p.ext))
Left(p) ==
    CASE "WRITE_BUSY" \in p.flags -> 2 * Len(p.aout) + (IF p.lines = 0 THEN 0 ELSE 1)
      [] Reading(p) /\ p.gsend -> 2 * Len(p.gout) + Phase(p)
      [] Reading(p) /\ ~p.gsend -> IF AtOdds(p) THEN 1 ELSE 0
      [] OTHER -> 0

\* The measure of the loop: a number, and never more than the turns allowed.
LEMMA LeftIs ==
    ASSUME NEW p, GoodPort(p)
    PROVE  /\ Left(p) \in 0..(2 * Width + 2)
           /\ "WRITE_BUSY" \in p.flags /\ p.lines = 0 => Left(p) = 2 * Len(p.aout)
           /\ "WRITE_BUSY" \in p.flags /\ p.lines # 0 => Left(p) = 2 * Len(p.aout) + 1
           /\ Reading(p) /\ p.gsend => Left(p) = 2 * Len(p.gout) + Phase(p)
           /\ Reading(p) /\ ~p.gsend /\ AtOdds(p) => Left(p) = 1
           /\ Reading(p) /\ ~p.gsend /\ ~AtOdds(p) => Left(p) = 0
           /\ "WRITE_BUSY" \notin p.flags /\ ~Reading(p) => Left(p) = 0
           /\ Len(p.aout) \in Nat /\ Len(p.gout) \in Nat /\ Phase(p) \in Nat
<1>1. /\ Len(p.aout) \in Nat /\ Len(p.aout) <= Width /\ Len(p.gout) \in Nat
      /\ Len(p.gout) <= Width /\ Width \in Nat
  BY BitSequences, WidthAssumption DEF GoodPort, Steady, PortType, PortRecord
<1>2. /\ "WRITE_BUSY" \in p.flags /\ p.lines = 0 => Left(p) = 2 * Len(p.aout) + 0
      /\ "WRITE_BUSY" \in p.flags /\ p.lines # 0 => Left(p) = 2 * Len(p.aout) + 1
      /\ Reading(p) /\ p.gsend => Left(p) = 2 * Len(p.gout) + Phase(p)
      /\ Reading(p) /\ ~p.gsend /\ AtOdds(p) => Left(p) = 1
      /\ Reading(p) /\ ~p.gsend /\ ~AtOdds(p) => Left(p) = 0
      /\ "WRITE_BUSY" \notin p.flags /\ ~Reading(p) => Left(p) = 0
  BY DEF Left, Reading
<1>3. Phase(p) \in {0, 1, 2}
  BY DEF Phase
<1>4. \A n \in 0..Width, i \in {0, 1, 2} : 2 * n + i \in 0..(2 * Width + 2) /\ 2 * n + 0 = 2 * n
  BY <1>1
<1>5. {0, 1} \subseteq 0..(2 * Width + 2)
  BY <1>1
<1>6. Len(p.aout) \in 0..Width /\ Len(p.gout) \in 0..Width
  BY <1>1
<1> QED
  BY <1>1, <1>2, <1>3, <1>4, <1>5, <1>6 DEF Reading

\* A turn that does not end the loop makes the measure smaller.
LEMMA TurnsFewer ==
    ASSUME NEW p, GoodPort(p), ~Turn(p).rests
    PROVE  Left(Turn(p).at) < Left(p)
<1> DEFINE q == Gray(p)
           r == Assist(q)
<1>1. Turn(p).at = r /\ r.lines # q.lines
  BY DEF Turn
<1>2. GoodPort(q) /\ GoodPort(r) /\ GrayDone(p, q) /\ AssistDone(q, r)
  BY GrayKeeps, AssistKeeps, GrayDoes, AssistDoes
<1> HIDE DEF q, r
<1>3. /\ p.lines \in 0..3 /\ p.ext \in 0..2 /\ q.ext \in 0..2 /\ q.lines \in 0..3
      /\ q.lines = p.lines /\ q.flags = p.flags /\ q.aout = p.aout /\ q.mode = p.mode
      /\ r.ext = q.ext /\ r.gin = q.gin /\ r.gout = q.gout /\ r.gsend = q.gsend /\ r.mode = q.mode
  BY <1>2 DEF GrayDone, AssistDone, GoodPort, Steady, PortType, PortRecord
<1>4. CASE "WRITE_BUSY" \in p.flags
  <2>1. \/ /\ q.ext = 0 /\ q.lines = 0 /\ q.aout # <<>> /\ r.lines = LineOf(Head(q.aout))
           /\ r.aout = Tail(q.aout) /\ r.flags = q.flags
        \/ /\ q.lines # 0 /\ r.lines = 0 /\ r.aout = q.aout /\ r.flags = q.flags
    <3>1. Opposite(0) = 3
      BY Lines
    <3> QED
      BY <1>1, <1>2, <1>3, <1>4, <3>1 DEF AssistDone
  <2>2. /\ Len(q.aout) \in Nat
        /\ q.aout # <<>> => Len(Tail(q.aout)) = Len(q.aout) - 1
    BY <1>2, BitSequences DEF GoodPort, Steady, PortType, PortRecord
  <2>3. LineOf(Head(q.aout)) # 0
    BY Lines
  <2>4. /\ p.lines = 0 => Left(p) = 2 * Len(q.aout)
        /\ p.lines # 0 => Left(p) = 2 * Len(q.aout) + 1
        /\ r.lines = 0 => Left(r) = 2 * Len(r.aout)
        /\ r.lines # 0 => Left(r) = 2 * Len(r.aout) + 1
    BY <1>2, <1>3, <1>4, <2>1, LeftIs
  <2>5. CASE q.lines = 0
    <3>1. /\ Left(p) = 2 * Len(q.aout) /\ Left(r) = 2 * Len(r.aout) + 1
          /\ Len(r.aout) = Len(q.aout) - 1
      BY <1>3, <2>1, <2>2, <2>3, <2>4, <2>5
    <3> QED
      BY <1>1, <2>2, <3>1
  <2>6. CASE q.lines # 0
    <3>1. /\ Left(p) = 2 * Len(q.aout) + 1 /\ Left(r) = 2 * Len(q.aout)
      BY <1>3, <2>1, <2>4, <2>6
    <3> QED
      BY <1>1, <2>2, <3>1
  <2> QED
    BY <2>5, <2>6
<1>5. CASE Reading(p)
  <2>0. Reading(q)
    BY <1>3, <1>5 DEF Reading
  <2>1. /\ q.ext = 0 => r.lines = 0
        /\ q.ext # 0 => r.lines = Opposite(q.ext)
    BY <1>2, <1>3, <2>0 DEF AssistDone
  <2>2. "WRITE_BUSY" \notin r.flags
    BY <1>2, <1>3, <1>5, <2>0 DEF AssistDone, Reading
  <2>3. /\ Len(p.gout) \in Nat
        /\ p.gout # <<>> => Len(Tail(p.gout)) = Len(p.gout) - 1 /\ Len(p.gout) > 0
    BY BitSequences DEF GoodPort, Steady, PortType, PortRecord
  <2>4. CASE p.gsend
    <3>1. Left(p) = 2 * Len(p.gout) + Phase(p)
      BY <1>5, <2>4, LeftIs
    <3>2. /\ r.gsend => Left(r) = 0 \/ Left(r) = 2 * Len(r.gout) + Phase(r)
          /\ ~r.gsend /\ ~AtOdds(r) => Left(r) = 0
      BY <1>2, <2>2, LeftIs
    <3>3. CASE p.lines = 0 /\ p.ext = 0 /\ p.gout # <<>>
      <4>1. /\ q.gsend /\ q.ext = LineOf(Head(p.gout)) /\ q.ext # 0
            /\ q.gout = Tail(p.gout)
        BY <1>2, <2>4, <3>3, Lines DEF GrayDone
      <4>2. Phase(r) = 1 /\ Phase(p) = 0
        BY <1>3, <2>1, <3>3, <4>1 DEF Phase
      <4>3. r.gsend /\ Len(r.gout) = Len(p.gout) - 1
        BY <1>3, <2>3, <3>3, <4>1
      <4> QED
        BY <1>1, <2>3, <3>1, <3>2, <3>3, <4>2, <4>3
    <3>4. CASE p.lines = 0 /\ p.ext = 0 /\ p.gout = <<>>
      BY <1>1, <1>2, <1>3, <2>1, <2>4, <3>4 DEF GrayDone
    <3>5. CASE p.lines \in {1, 2} /\ p.ext = Opposite(p.lines)
      <4>1. q.gsend /\ q.ext = 0 /\ q.gout = p.gout
        BY <1>2, <2>4, <3>5 DEF GrayDone
      <4>2. p.ext # 0 /\ p.lines = Opposite(p.ext)
        BY <3>5, Lines
      <4>3. Phase(r) = 0 /\ Phase(p) = 1 /\ r.gsend /\ r.gout = p.gout
        BY <1>3, <2>1, <4>1, <4>2 DEF Phase
      <4> QED
        BY <1>1, <2>3, <3>1, <3>2, <4>3
    <3>6. CASE p.lines = 3
      <4>1. ~q.gsend /\ q.ext = 0
        BY <1>2, <2>4, <3>6 DEF GrayDone
      <4>2. ~AtOdds(r) /\ ~r.gsend
        BY <1>3, <2>1, <4>1 DEF AtOdds
      <4>3. Phase(p) \in {1, 2}
        BY <3>6 DEF Phase
      <4> QED
        BY <1>1, <2>3, <3>1, <3>2, <4>2, <4>3
    <3>7. CASE /\ p.lines # 3 /\ ~(p.lines = 0 /\ p.ext = 0)
               /\ ~(p.lines \in {1, 2} /\ p.ext = Opposite(p.lines))
      <4>1. q = p
        BY <1>2, <2>4, <3>7 DEF GrayDone
      <4>2. r.gsend /\ r.gout = p.gout
        BY <1>3, <2>4, <4>1
      <4>3. \/ Phase(p) = 1 /\ Phase(r) = 0
            \/ Phase(p) = 2 /\ Phase(r) = 1
        BY <1>1, <1>3, <2>1, <3>7, <4>1 DEF Phase
      <4> QED
        BY <1>1, <2>3, <3>1, <3>2, <4>2, <4>3
    <3> QED
      BY <1>3, <3>3, <3>4, <3>5, <3>6, <3>7
  <2>5. CASE ~p.gsend
    <3>1. AtOdds(p) => Left(p) = 1
      BY <1>5, <2>5, LeftIs
    <3>2. ~r.gsend /\ ~AtOdds(r) => Left(r) = 0
      BY <1>2, <2>2, LeftIs
    <3>3. \A v \in {1, 2} : Opposite(v) \in {1, 2}
      BY Lines
    <3>4. CASE Len(p.gin) # Width /\ p.lines = 0
      BY <1>1, <1>2, <1>3, <2>1, <2>5, <3>4 DEF GrayDone
    <3>5. CASE Len(p.gin) # Width /\ p.lines \in {1, 2}
      <4>1. q.ext = Opposite(p.lines) /\ Opposite(q.ext) = p.lines /\ q.ext # 0
        BY <1>2, <2>5, <3>5, Lines DEF GrayDone
      <4> QED
        BY <1>1, <1>3, <2>1, <4>1
    <3>6. CASE Len(p.gin) # Width /\ p.lines = 3
      <4>1. ~q.gsend /\ q.ext = 0
        BY <1>2, <2>5, <3>6 DEF GrayDone
      <4>2. ~AtOdds(r) /\ ~r.gsend /\ AtOdds(p)
        BY <1>3, <2>1, <3>6, <4>1 DEF AtOdds
      <4> QED
        BY <1>1, <3>1, <3>2, <4>2
    <3>7. CASE Len(p.gin) = Width
      <4>1. q = p
        BY <1>2, <2>5, <3>7 DEF GrayDone
      <4>2. r.lines # 3 /\ r.lines = (IF r.ext = 0 THEN 0 ELSE Opposite(r.ext))
        BY <1>3, <2>1, <3>3
      <4>3. ~AtOdds(r) /\ ~r.gsend /\ AtOdds(p)
        BY <1>1, <1>3, <2>1, <2>5, <3>7, <4>1, <4>2 DEF AtOdds
      <4> QED
        BY <1>1, <3>1, <3>2, <4>3
    <3> QED
      BY <1>3, <3>4, <3>5, <3>6, <3>7
  <2> QED
    BY <2>4, <2>5
<1>6. CASE "WRITE_BUSY" \notin p.flags /\ ~Reading(p)
  <2>1. "WRITE_BUSY" \notin q.flags /\ ~Reading(q)
    BY <1>3, <1>6 DEF Reading
  <2>2. r = q
    BY <1>2, <2>1 DEF AssistDone
  <2> QED
    BY <1>1, <2>2
<1> QED
  BY <1>4, <1>5, <1>6 DEF Reading

\* What holds of a port, and of it after each turn, holds of it after the loop.
LEMMA LoopKeeps ==
    ASSUME NEW G, NEW p \in G, \A x \in G : Turn(x).at \in G
    PROVE  \A n \in 0..MostTurns : Loop(p)[n].at \in G
<1> DEFINE S == {j \in Nat : j <= MostTurns => Loop(p)[j].at \in G}
<1>0. MostTurns \in Nat
  BY WidthAssumption DEF MostTurns
<1>1. 0 \in S
  <2>1. Loop(p)[0].at = p
    <3>1. Loop(p)[0] = [at |-> p, rests |-> FALSE]
      BY LoopIs, Zenon
    <3> QED
      BY <3>1
  <2> QED
    BY <2>1
<1>2. ASSUME NEW j \in Nat, j \in S PROVE j + 1 \in S
  <2> SUFFICES ASSUME j + 1 <= MostTurns PROVE Loop(p)[j + 1].at \in G
    OBVIOUS
  <2>1. Loop(p)[j].at \in G
    BY <1>0, <1>2
  <2>2. j + 1 \in 1..MostTurns /\ (j + 1) - 1 = j
    BY <1>0
  <2>3. Loop(p)[j + 1] = IF Loop(p)[j].rests THEN Loop(p)[j] ELSE Turn(Loop(p)[j].at)
    BY <2>2, LoopIs
  <2> QED
    BY <2>1, <2>3
<1>3. Nat \subseteq S
  <2> HIDE DEF S
  <2> QED
    BY <1>1, <1>2, Induct
<1> QED
  BY <1>0, <1>3

\* The port is good after each turn of the loop.
LEMMA LoopGood ==
    ASSUME NEW p, GoodPort(p)
    PROVE  \A n \in 0..MostTurns : GoodPort(Loop(p)[n].at)
<1> DEFINE G == {x \in PortRecord : GoodPort(x)}
<1>1. \A x : GoodPort(x) => x \in G
  BY DEF GoodPort, Steady, PortType
<1>2. ASSUME NEW x \in G PROVE Turn(x).at \in G
  BY <1>1, GrayKeeps, AssistKeeps DEF Turn
<1>3. \A n \in 0..MostTurns : Loop(p)[n].at \in G
  <2> HIDE DEF G
  <2> QED
    BY <1>1, <1>2, LoopKeeps
<1> QED
  BY <1>3

\* dbus_update() ends: the lines rest after 2 * Width + 3 turns at the latest.
THEOREM UpdateEnds ==
    ASSUME NEW p, GoodPort(p)
    PROVE  Loop(p)[MostTurns].rests
<1> DEFINE at(j) == Loop(p)[j].at
           S == {j \in Nat : j <= MostTurns =>
                   Loop(p)[j].rests \/ Left(at(j)) + j <= Left(p)}
<1>0. MostTurns \in Nat /\ MostTurns = 2 * Width + 3 /\ Width \in Nat
  BY WidthAssumption DEF MostTurns
<1>1. 0 \in S
  <2>1. at(0) = p
    <3>1. Loop(p)[0] = [at |-> p, rests |-> FALSE]
      BY LoopIs, Zenon
    <3> QED
      BY <3>1
  <2>2. Left(p) \in Nat
    BY LeftIs
  <2> HIDE DEF at
  <2> QED
    BY <2>1, <2>2
<1>2. ASSUME NEW j \in Nat, j \in S PROVE j + 1 \in S
  <2> SUFFICES ASSUME j + 1 <= MostTurns, ~Loop(p)[j + 1].rests
               PROVE  Left(at(j + 1)) + (j + 1) <= Left(p)
    OBVIOUS
  <2>1. j + 1 \in 1..MostTurns /\ (j + 1) - 1 = j /\ j \in 0..MostTurns /\ j <= MostTurns
        /\ j + 1 \in 0..MostTurns
    BY <1>0
  <2>2. Loop(p)[j + 1] = IF Loop(p)[j].rests THEN Loop(p)[j] ELSE Turn(Loop(p)[j].at)
    BY <2>1, LoopIs
  <2>3. ~Loop(p)[j].rests /\ Loop(p)[j + 1] = Turn(at(j)) /\ ~Turn(at(j)).rests
    BY <2>2
  <2>4. Left(at(j)) + j <= Left(p)
    BY <1>2, <2>1, <2>3
  <2>5. GoodPort(at(j)) /\ GoodPort(at(j + 1))
    BY <2>1, LoopGood
  <2>6. Left(at(j + 1)) < Left(at(j))
    BY <2>3, <2>5, TurnsFewer
  <2>7. Left(at(j)) \in Nat /\ Left(at(j + 1)) \in Nat /\ Left(p) \in Nat
    BY <2>5, LeftIs
  <2> HIDE DEF at
  <2> QED
    BY <2>4, <2>6, <2>7
<1>3. MostTurns \in S
  <2> HIDE DEF S
  <2> QED
    BY <1>0, <1>1, <1>2, Induct
<1>4. GoodPort(at(MostTurns))
  BY <1>0, LoopGood
<1>5. Left(at(MostTurns)) \in 0..(2 * Width + 2) /\ Left(p) \in 0..(2 * Width + 2)
  BY <1>4, LeftIs
<1> HIDE DEF at
<1> QED
  BY <1>0, <1>3, <1>5

Honest(p) ==
    /\ "LINK_READ" \in p.irq <=> "READ_BYTE" \in p.flags /\ "INT_READ" \in p.mode
    /\ "LINK_IDLE" \in p.irq => p.flags \cap {"READ_BUSY", "WRITE_BUSY"} = {}
PortInv(p) == GoodPort(p) /\ Honest(p)

\* dbus_update() keeps the port sound: its interrupts say what its flags say.
LEMMA UpdateKeeps ==
    ASSUME NEW p, GoodPort(p)
    PROVE  PortInv(Update(p))
<1> DEFINE q == Loop(p)[MostTurns].at
           i == (q.irq \ {"LINK_READ", "LINK_IDLE"})
                \cup (IF "READ_BYTE" \in q.flags /\ "INT_READ" \in q.mode
                        THEN {"LINK_READ"} ELSE {})
                \cup (IF q.flags \cap {"READ_BUSY", "WRITE_BUSY"} = {} /\ "INT_IDLE" \in q.mode
                        THEN {"LINK_IDLE"} ELSE {})
<1>1. GoodPort(q)
  BY LoopGood, WidthAssumption DEF MostTurns
<1>2. Update(p) = [q EXCEPT !.irq = i]
  BY DEF Update, UpdateIrqs
<1> HIDE DEF q
<1>3. i \in SUBSET AllIrqs
  BY <1>1 DEF GoodPort, Steady, PortType, PortRecord, AllIrqs
<1>4. /\ "LINK_READ" \in i <=> "READ_BYTE" \in q.flags /\ "INT_READ" \in q.mode
      /\ "LINK_IDLE" \in i => q.flags \cap {"READ_BUSY", "WRITE_BUSY"} = {}
  OBVIOUS
<1> HIDE DEF i
<1>5. GoodPort([q EXCEPT !.irq = i])
  BY <1>1, <1>3 DEF GoodPort, Steady, Counted, Timely, PortType, PortRecord
<1>6. [q EXCEPT !.irq = i].irq = i /\ [q EXCEPT !.irq = i].flags = q.flags
      /\ [q EXCEPT !.irq = i].mode = q.mode
  BY <1>1 DEF GoodPort, Steady, PortType, PortRecord
<1> QED
  BY <1>2, <1>4, <1>5, <1>6 DEF PortInv, Honest

-----------------------------------------------------------------------------
(* Each function of link.c that is called from outside keeps the port in   *)
(* order.                                                                  *)

\* Calc::run clears the stop reasons: the port is as sound as before.
LEMMA NoStopKeeps ==
    ASSUME NEW p, PortInv(p)
    PROVE  /\ PortInv([p EXCEPT !.stop = {}])
           /\ \A q : q = [p EXCEPT !.stop = {}] =>
                q.gsend = p.gsend /\ q.gin = p.gin /\ q.mode = p.mode
  BY DEF PortInv, Honest, GoodPort, Steady, Counted, Timely, PortType, PortRecord

\* A write of the link port keeps the port sound.
LEMMA PortWriteKeeps ==
    ASSUME NEW p, PortInv(p), NEW v \in 0..3
    PROVE  PortInv(PortWrite(p, v))
<1>1. CASE "ASSIST" \in p.mode \/ "WRITE_BUSY" \in p.flags
  BY <1>1, UpdateKeeps DEF PortWrite, PortInv
<1>2. CASE ~("ASSIST" \in p.mode \/ "WRITE_BUSY" \in p.flags)
  <2>1. GoodPort(SetLines(p, v))
    BY <1>2, LinesSet DEF PortInv
  <2> QED
    BY <1>2, <2>1, UpdateKeeps DEF PortWrite
<1> QED
  BY <1>1, <1>2

\* A read of the assist's data keeps the port sound.
LEMMA ReadByteKeeps ==
    ASSUME NEW p, PortInv(p)
    PROVE  PortInv(ReadByte(p))
<1> DEFINE a == [p EXCEPT !.ainbits = 0]
           f == a.flags \ {"READ_BYTE", "READ_BUSY"}
<1>0. 0 \in 0..Width /\ 0 < Width
  BY WidthAssumption
<1>1. GoodPort(a) /\ a.ainbits = 0 /\ a.flags = p.flags
  <2>1. p \in PortRecord
    BY DEF PortInv, GoodPort, Steady, PortType
  <2>2. /\ a.ainbits = 0 /\ a.flags = p.flags /\ a.gin = p.gin /\ a.gout = p.gout
        /\ a.ain = p.ain /\ a.aout = p.aout /\ a.gsend = p.gsend /\ a.timer = p.timer
        /\ a.lines = p.lines
    BY <2>1 DEF PortRecord
  <2>3. a \in PortRecord
    BY <1>0, <2>1 DEF PortRecord
  <2> HIDE DEF a
  <2> QED
    BY <1>0, <2>2, <2>3 DEF PortInv, GoodPort, Steady, Counted, Timely, PortType
<1>2. ReadByte(p) = Update([a EXCEPT !.flags = f])
  <2>1. [p EXCEPT !.flags = @ \ {"READ_BYTE", "READ_BUSY"}, !.ainbits = 0]
          = [a EXCEPT !.flags = f]
    BY <1>1
  <2> QED
    BY <2>1 DEF ReadByte
<1>3. f \subseteq AllFlags /\ "READ_BUSY" \notin f /\ f \subseteq a.flags
  BY <1>1 DEF GoodPort, Steady, PortType, PortRecord
<1> HIDE DEF a, f
<1> DEFINE q == [a EXCEPT !.flags = f]
<1>4. GoodPort(q)
  <2>1. a \in PortRecord /\ f \in SUBSET AllFlags
    BY <1>1, <1>3 DEF GoodPort, Steady, PortType
  <2>2. /\ q.ainbits = 0 /\ q.flags = f /\ q.gin = a.gin /\ q.gout = a.gout
        /\ q.ain = a.ain /\ q.aout = a.aout /\ q.gsend = a.gsend /\ q.timer = a.timer
        /\ q.lines = a.lines
    BY <1>1, <2>1 DEF PortRecord
  <2>3. q \in PortRecord
    BY <2>1 DEF PortRecord
  <2> HIDE DEF q
  <2> QED
    BY <1>0, <1>1, <1>3, <2>2, <2>3 DEF GoodPort, Steady, Counted, Timely, PortType
<1> QED
  BY <1>2, <1>4, UpdateKeeps

\* A write of the assist's data keeps the port sound.
LEMMA WriteByteKeeps ==
    ASSUME NEW p, PortInv(p), NEW b \in Byte
    PROVE  PortInv(WriteByte(p, b))
<1>1. CASE p.flags \cap {"READ_BUSY", "WRITE_BUSY"} # {}
  BY <1>1 DEF WriteByte
<1>2. CASE p.flags \cap {"READ_BUSY", "WRITE_BUSY"} = {}
  <2> DEFINE s == SetLines(p, 0)
             q == [s EXCEPT !.aout = b, !.flags = @ \cup {"WRITE_BUSY"}]
  <2>1. GoodPort(s) /\ s.lines = 0 /\ s.flags = p.flags
    <3>1. GoodPort(s)
      BY <1>2, LinesSet, Lines DEF PortInv
    <3> QED
      BY <3>1 DEF SetLines, PortInv, GoodPort, Steady, PortType, PortRecord
  <2>2. b \in Seq({0, 1}) /\ Len(b) <= Width
    BY ByteAssumption, WidthAssumption
  <2> HIDE DEF s
  <2>3. GoodPort(q)
    BY <1>2, <2>1, <2>2 DEF GoodPort, Steady, Counted, Timely, PortType, PortRecord, AllFlags
  <2>4. WriteByte(p, b) = Update(q)
    BY <1>2 DEF WriteByte, s
  <2> HIDE DEF q
  <2> QED
    BY <2>3, <2>4, UpdateKeeps
<1> QED
  BY <1>1, <1>2

\* A change of the assist's mode keeps the port sound.
LEMMA SetModeKeeps ==
    ASSUME NEW p, PortInv(p), NEW m \in Modes
    PROVE  PortInv(SetMode(p, m))
<1> DEFINE off == (IF "INT_ACTIVE" \in m THEN {} ELSE {"LINK_ACTIVE"})
                    \cup (IF "INT_ERROR" \in m THEN {} ELSE {"LINK_ERROR"})
           s == SetLines(p, 0)
           f == [s EXCEPT !.flags = @ \ {"READ_BUSY", "WRITE_BUSY"}]
           t == ClearTimeout(f)
           q == IF ("ASSIST" \in m) # ("ASSIST" \in p.mode) THEN t ELSE p
           r == [q EXCEPT !.mode = m, !.irq = @ \ off]
<1>1. GoodPort(s)
  BY LinesSet, Lines DEF PortInv
<1> HIDE DEF s
<1>2. Steady(f) /\ Counted(f) /\ f.flags \cap {"READ_BUSY", "WRITE_BUSY"} = {}
  BY <1>1 DEF GoodPort, Steady, Counted, PortType, PortRecord
<1> HIDE DEF f
<1>3. GoodPort(t)
  BY <1>2, TimeoutCleared
<1> HIDE DEF t
<1>4. GoodPort(q)
  BY <1>3 DEF PortInv
<1>5. SetMode(p, m) = Update(r)
  BY DEF SetMode, t, f, s
<1> HIDE DEF q, off
<1>6. GoodPort(r)
  BY <1>4 DEF GoodPort, Steady, Counted, Timely, PortType, PortRecord
<1> HIDE DEF r
<1> QED
  BY <1>5, <1>6, UpdateKeeps

\* The timeout of the assist keeps the port sound.
LEMMA TimerKeeps ==
    ASSUME NEW p, PortInv(p)
    PROVE  PortInv(AssistTimer(p))
<1> DEFINE Loses(q) == /\ GoodPort(q) /\ Honest(q)
<1>1. ASSUME NEW q, PortInv(q)
      PROVE  PortInv(Interrupt(q, "LINK_ERROR", "INT_ERROR"))
  <2>1. \E i \in {q.irq, q.irq \cup {"LINK_ERROR"}} :
          Interrupt(q, "LINK_ERROR", "INT_ERROR") = [q EXCEPT !.irq = i]
    <3>1. q = [q EXCEPT !.irq = q.irq]
      BY <1>1 DEF PortInv, GoodPort, Steady, PortType, PortRecord
    <3> QED
      BY <3>1 DEF Interrupt
  <2>2. PICK i \in {q.irq, q.irq \cup {"LINK_ERROR"}} :
          Interrupt(q, "LINK_ERROR", "INT_ERROR") = [q EXCEPT !.irq = i]
    BY <2>1
  <2>3. [q EXCEPT !.irq = i].irq = i /\ [q EXCEPT !.irq = i].flags = q.flags
        /\ [q EXCEPT !.irq = i].mode = q.mode
    BY <1>1 DEF PortInv, GoodPort, Steady, PortType, PortRecord
  <2>4. Honest([q EXCEPT !.irq = i])
    BY <1>1, <2>2, <2>3 DEF PortInv, Honest
  <2> QED
    BY <1>1, <2>2, <2>4, InterruptKeeps DEF PortInv, AllIrqs
<1>2. CASE "WRITE_BUSY" \in p.flags
  <2> DEFINE q == [[p EXCEPT !.timer = FALSE] EXCEPT
                      !.flags = (@ \ {"WRITE_BUSY"}) \cup {"WRITE_ERROR"}]
  <2>1. PortInv(q)
    BY <1>2 DEF PortInv, Honest, GoodPort, Steady, Counted, Timely, PortType, PortRecord, AllFlags
  <2>2. AssistTimer(p) = Interrupt(q, "LINK_ERROR", "INT_ERROR")
    BY <1>2 DEF AssistTimer
  <2> HIDE DEF q
  <2> QED
    BY <1>1, <2>1, <2>2
<1>3. CASE "WRITE_BUSY" \notin p.flags /\ "READ_BUSY" \in p.flags
  <2> DEFINE q == [[p EXCEPT !.timer = FALSE] EXCEPT
                      !.flags = (@ \ {"READ_BUSY"}) \cup {"READ_ERROR"}]
  <2>1. PortInv(q)
    BY <1>3 DEF PortInv, Honest, GoodPort, Steady, Counted, Timely, PortType, PortRecord, AllFlags
  <2>2. AssistTimer(p) = Interrupt(q, "LINK_ERROR", "INT_ERROR")
    BY <1>3 DEF AssistTimer
  <2> HIDE DEF q
  <2> QED
    BY <1>1, <2>1, <2>2
<1>4. CASE "WRITE_BUSY" \notin p.flags /\ "READ_BUSY" \notin p.flags
  <2> DEFINE q == [p EXCEPT !.timer = FALSE]
  <2>1. PortInv(q)
    BY <1>4 DEF PortInv, Honest, GoodPort, Steady, Counted, Timely, PortType, PortRecord, AllFlags
  <2>2. AssistTimer(p) = q
    BY <1>4 DEF AssistTimer
  <2> QED
    BY <2>1, <2>2
<1> QED
  BY <1>2, <1>3, <1>4

\* A reset of the link port makes a sound port.
LEMMA ResetKeeps ==
    ASSUME NEW p, PortInv(p)
    PROVE  PortInv(PortReset(p))
<1>1. [i \in 1..Width |-> 0] \in Seq({0, 1}) /\ Len([i \in 1..Width |-> 0]) = Width
  BY WidthAssumption
<1> DEFINE z == [i \in 1..Width |-> 0]
           q == [p EXCEPT !.lines = 0, !.timer = FALSE, !.mode = {}, !.flags = {},
                          !.irq = {}, !.ain = z, !.ainbits = 0, !.aout = <<>>]
<1>2. PortReset(p) = q
  BY DEF PortReset
<1>3. z \in Seq({0, 1}) /\ Len(z) = Width
  BY <1>1
<1> HIDE DEF z
<1>4. /\ p \in PortRecord /\ Len(p.gin) <= Width /\ Len(p.gout) <= Width
      /\ p.gsend => p.gin = <<>>
  BY DEF PortInv, GoodPort, Steady, PortType
<1>5. /\ q.lines = 0 /\ q.timer = FALSE /\ q.mode = {} /\ q.flags = {} /\ q.irq = {}
      /\ q.ain = z /\ q.ainbits = 0 /\ q.aout = <<>>
  BY <1>4 DEF PortRecord
<1>6. q.gin = p.gin /\ q.gout = p.gout /\ q.gsend = p.gsend
  BY <1>4 DEF PortRecord
<1>7. <<>> \in Seq({0, 1}) /\ Len(<<>>) = 0 /\ 0 \in 0..Width /\ 0 \in 0..3 /\ {} \in Modes
  BY WidthAssumption, ModesAssumption, BitSequences
<1>8. q \in PortRecord
  <2> DEFINE a == [p EXCEPT !.lines = 0, !.timer = FALSE, !.mode = {}]
             b == [a EXCEPT !.flags = {}, !.irq = {}, !.ain = z]
  <2>1. a \in PortRecord
    BY <1>4, <1>7 DEF PortRecord
  <2>2. q = [b EXCEPT !.ainbits = 0, !.aout = <<>>]
    BY <1>4 DEF PortRecord
  <2> HIDE DEF a
  <2>3. b \in PortRecord
    BY <1>3, <2>1 DEF PortRecord
  <2> HIDE DEF b
  <2>4. [b EXCEPT !.ainbits = 0, !.aout = <<>>] \in PortRecord
    BY <1>7, <2>3 DEF PortRecord
  <2> QED
    BY <2>2, <2>4
<1> HIDE DEF q
<1> QED
  BY <1>2, <1>3, <1>4, <1>5, <1>6, <1>7, <1>8, WidthAssumption
     DEF PortInv, Honest, GoodPort, Steady, Counted, Timely, PortType

\* A reset of the gray link keeps the port sound.
LEMMA GrayResetKeeps ==
    ASSUME NEW p, PortInv(p)
    PROVE  PortInv(GrayReset(p))
<1> DEFINE a == [p EXCEPT !.gin = <<>>]
           b == [a EXCEPT !.gout = <<>>]
           q == [b EXCEPT !.gsend = FALSE]
<1>0. <<>> \in Seq({0, 1}) /\ Len(<<>>) <= Width
  BY BitSequences, WidthAssumption
<1>2. GrayReset(p) = Update(SetExt(q, 0))
  BY DEF GrayReset
<1>3. GoodPort(a)
  BY <1>0, ReceivedKeeps, Zenon DEF PortInv
<1> HIDE DEF a
<1>4. GoodPort(b)
  BY <1>0, <1>3, SendingKeeps, Zenon
<1> HIDE DEF b
<1>1. GoodPort(q)
  BY <1>4 DEF GoodPort, Steady, Counted, Timely, PortType, PortRecord
<1> HIDE DEF q
<1>5. GoodPort(SetExt(q, 0))
  BY <1>1, ExtSet, Lines
<1> QED
  BY <1>2, <1>5, UpdateKeeps

\* A byte given to a gray link that is ready keeps the port sound.
LEMMA GraySendKeeps ==
    ASSUME NEW p, PortInv(p), GrayReady(p), NEW b \in Byte
    PROVE  PortInv(GraySend(p, b))
<1> DEFINE e == SetExt(p, 0)
           q == [e EXCEPT !.gout = b, !.gsend = TRUE]
<1>1. GoodPort(e) /\ e.gin = <<>>
  BY ExtSet, Lines DEF PortInv, GrayReady, OnlyExt
<1>2. GraySend(p, b) = Update(q)
  BY DEF GraySend
<1> HIDE DEF e
<1>3. b \in Seq({0, 1}) /\ Len(b) <= Width
  BY ByteAssumption, WidthAssumption
<1>4. GoodPort(q)
  BY <1>1, <1>3 DEF GoodPort, Steady, Counted, Timely, PortType, PortRecord
<1> HIDE DEF q
<1> QED
  BY <1>2, <1>4, UpdateKeeps

\* A byte fetched from the gray link keeps the port sound.
LEMMA GrayGetKeeps ==
    ASSUME NEW p, PortInv(p)
    PROVE  PortInv(GrayGet(p))
<1> DEFINE q == Update(p)
<1>1. PortInv(q)
  BY UpdateKeeps DEF PortInv
<1>2. GrayGet(p) = IF Len(q.gin) = Width THEN [q EXCEPT !.gin = <<>>] ELSE q
  BY DEF GrayGet
<1> HIDE DEF q
<1>3. PortInv([q EXCEPT !.gin = <<>>])
  <2>1. <<>> \in Seq({0, 1}) /\ Len(<<>>) <= Width
    BY BitSequences, WidthAssumption
  <2>2. GoodPort([q EXCEPT !.gin = <<>>])
    BY <1>1, <2>1, ReceivedKeeps, Zenon DEF PortInv
  <2> DEFINE r == [q EXCEPT !.gin = <<>>]
  <2>3. r.irq = q.irq /\ r.flags = q.flags /\ r.mode = q.mode
    BY <1>1 DEF PortInv, GoodPort, Steady, PortType, PortRecord
  <2> HIDE DEF r
  <2>4. Honest(r)
    BY <1>1, <2>3 DEF PortInv, Honest
  <2> QED
    BY <2>2, <2>4 DEF PortInv, r
<1> QED
  BY <1>1, <1>2, <1>3

\* The port of a new calculator is sound.
LEMMA IdleGood ==
    PortInv(Idle)
<1>1. [i \in 1..Width |-> 0] \in Seq({0, 1}) /\ Len([i \in 1..Width |-> 0]) = Width
  BY WidthAssumption
<1> DEFINE z == [i \in 1..Width |-> 0]
<1>2. Idle = [lines |-> 0, ext |-> 0, gin |-> <<>>, gout |-> <<>>, gsend |-> FALSE,
              ain |-> z, ainbits |-> 0, aout |-> <<>>, flags |-> {},
              mode |-> {}, irq |-> {}, timer |-> FALSE, stop |-> {}]
  BY DEF Idle
<1>3. z \in Seq({0, 1}) /\ Len(z) = Width
  BY <1>1
<1> HIDE DEF z
<1> QED
  BY <1>2, <1>3, WidthAssumption, ModesAssumption, BitSequences
     DEF PortInv, Honest, GoodPort, Steady, Counted, Timely, PortType, PortRecord

-----------------------------------------------------------------------------
(* The port under any program and any use of the cable.                    *)

\* Reading the flags takes the error interrupt back.
LEMMA ErrorTaken ==
    ASSUME NEW p, PortInv(p)
    PROVE  PortInv([p EXCEPT !.irq = @ \ {"LINK_ERROR"}])
<1> DEFINE i == p.irq \ {"LINK_ERROR"}
           q == [p EXCEPT !.irq = i]
<1>1. i \in SUBSET AllIrqs
  BY DEF PortInv, GoodPort, Steady, PortType, PortRecord
<1>2. "LINK_READ" \in i <=> "LINK_READ" \in p.irq
  OBVIOUS
<1>3. "LINK_IDLE" \in i <=> "LINK_IDLE" \in p.irq
  OBVIOUS
<1> HIDE DEF i
<1>4. GoodPort(q)
  BY <1>1 DEF PortInv, GoodPort, Steady, Counted, Timely, PortType, PortRecord
<1>5. q.irq = i /\ q.flags = p.flags /\ q.mode = p.mode
  BY DEF PortInv, GoodPort, Steady, PortType, PortRecord
<1> HIDE DEF q
<1>6. Honest(q)
  BY <1>2, <1>3, <1>5 DEF PortInv, Honest
<1> QED
  BY <1>4, <1>6 DEF PortInv, q, i

\* Every step of the port, by the program or by the cable, keeps it sound.
LEMMA PortStep ==
    ASSUME PortInv(port), [PortNext]_port
    PROVE  PortInv(port)'
<1>0. PortInv(Fresh) /\ (GrayReady(port) => GrayReady(Fresh))
  BY NoStopKeeps DEF Fresh, GrayReady
<1>1. CASE ProgramLines
  BY <1>0, <1>1, PortWriteKeeps, NoStopKeeps DEF ProgramLines, Fresh
<1>2. CASE ProgramFlags
  BY <1>0, <1>2, ErrorTaken DEF ProgramFlags
<1>3. CASE ProgramRead
  BY <1>3, ReadByteKeeps, NoStopKeeps DEF ProgramRead, Fresh
<1>4. CASE ProgramSend
  BY <1>4, WriteByteKeeps, NoStopKeeps DEF ProgramSend, Fresh
<1>5. CASE ProgramMode
  BY <1>5, SetModeKeeps, NoStopKeeps DEF ProgramMode, Fresh
<1>6. CASE Timeout
  BY <1>6, TimerKeeps, NoStopKeeps DEF Timeout, Fresh
<1>7. CASE CableSend
  BY <1>0, <1>7, GraySendKeeps, NoStopKeeps DEF CableSend, Fresh
<1>8. CASE CableGet
  BY <1>8, GrayGetKeeps, NoStopKeeps DEF CableGet, Fresh
<1>9. CASE CableReset
  BY <1>9, GrayResetKeeps, NoStopKeeps DEF CableReset, Fresh
<1>10. CASE Reset
  BY <1>10, ResetKeeps, NoStopKeeps DEF Reset, Fresh
<1>11. CASE UNCHANGED port
  BY <1>11
<1> QED
  BY <1>1, <1>2, <1>3, <1>4, <1>5, <1>6, <1>7, <1>8, <1>9, <1>10, <1>11 DEF PortNext

\* Of any program and any use of the cable, for bytes of any width and on every model:
\* the port's fields are well-formed, the gray link sends or receives and never both,
\* each wait of the assist has its timeout, and the interrupts say what is the case.
THEOREM PortCorrect == PortSpec => []WaitsSound
<1>1. PortInit => PortInv(port)
  BY IdleGood DEF PortInit
<1>2. PortInv(port) /\ [PortNext]_port => PortInv(port)'
  BY PortStep
<1>3. PortInv(port) => WaitsSound
  BY DEF PortInv, Honest, GoodPort, Steady, Counted, Timely, WaitsSound, HalfDuplex,
         BusyTimesOut, InterruptsHonest
<1> QED
  BY <1>1, <1>2, <1>3, PTL DEF PortSpec

-----------------------------------------------------------------------------
(* The bytes on their way through the port, in every phase of the          *)
(* handshake: ins from the host to the program, outs from the program to   *)
(* the host, each at most one that is whole and one that is being sent.    *)

\* The bit that a sender pulls line l for, and the one its receiver acknowledges with l.
Bit(l) == IF l = 2 THEN 1 ELSE 0
AckBit(l) == IF l = 1 THEN 1 ELSE 0

\* A whole byte that Calc::run has not yet fetched.
Kept(p, outs) ==
    \/ p.gin = <<>> /\ outs = <<>>
    \/ Len(p.gin) = Width /\ outs = <<p.gin>>
\* The same, and a byte b that the gray link has not begun to receive.
KeptBefore(p, b, outs) ==
    \/ p.gin = <<>> /\ outs = <<b>>
    \/ Len(p.gin) = Width /\ outs = <<p.gin, b>>

Quiet(p) == p.lines = 0 /\ p.ext = 0
Pulls(p) == p.lines \in {1, 2}
Takes(p) == p.gsend /\ p.gin = <<>>             \* from the host
Gives(p) == ~p.gsend /\ p.gout = <<>>           \* to the host, or nothing

\* A program that drives the lines itself, at c, with the bits r received and t to send.
Rests(p, c, r, t, ins, outs) ==
    c = "idle" /\ Quiet(p) /\ Gives(p) /\ r = <<>> /\ t = <<>> /\ ins = <<>> /\ Kept(p, outs)
Offered(p, c, r, t, ins, outs) ==
    /\ c = "idle" /\ p.lines = 0 /\ p.ext \in {1, 2} /\ Takes(p) /\ t = <<>>
    /\ ins = <<Append(r, Bit(p.ext)) \o p.gout>> /\ outs = <<>>
Taken(p, c, r, t, ins, outs) ==
    /\ c = "ack" /\ Pulls(p) /\ p.ext = 0 /\ Takes(p) /\ t = <<>> /\ r # <<>>
    /\ ins = <<r \o p.gout>> /\ outs = <<>>
Puts(p, c, r, t, ins, outs) ==
    /\ c = "put" /\ Pulls(p) /\ p.ext = Opposite(p.lines) /\ Gives(p) /\ r = <<>>
    /\ Len(p.gin) < Width
    /\ ins = <<>> /\ outs = <<Append(p.gin, Bit(p.lines)) \o t>>
PutsEarly(p, c, r, t, ins, outs) ==
    /\ c = "put" /\ Pulls(p) /\ p.ext = 0 /\ Gives(p) /\ r = <<>>
    /\ ins = <<>> /\ KeptBefore(p, <<Bit(p.lines)>> \o t, outs)
Pauses(p, c, r, t, ins, outs) ==
    /\ c = "next" /\ Quiet(p) /\ Gives(p) /\ r = <<>> /\ t # <<>> /\ p.gin # <<>>
    /\ ins = <<>> /\ outs = <<p.gin \o t>>
Clashes(p, c, r, t, ins, outs) ==
    /\ c = "put" /\ Pulls(p) /\ p.ext = 0 /\ Takes(p) /\ r = <<>>
    /\ ins = <<p.gout>> /\ outs = <<<<Bit(p.lines)>> \o t>>
Aborts(p, c, r, t, ins, outs) ==
    /\ c = "abort" /\ p.lines = 3 /\ p.ext = 0 /\ Gives(p) /\ p.gin = <<>>
    /\ r = <<>> /\ t = <<>> /\ ins = <<>> /\ outs = <<>>
ByHand(p, c, r, t, ins, outs) ==
    /\ p.mode = {} /\ p.flags = {}
    /\ \/ Rests(p, c, r, t, ins, outs) \/ Offered(p, c, r, t, ins, outs)
       \/ Taken(p, c, r, t, ins, outs) \/ Puts(p, c, r, t, ins, outs)
       \/ PutsEarly(p, c, r, t, ins, outs) \/ Pauses(p, c, r, t, ins, outs)
       \/ Clashes(p, c, r, t, ins, outs) \/ Aborts(p, c, r, t, ins, outs)

\* A program that uses the assist: what the port holds while nothing goes on ...
Writes(p) == "WRITE_BUSY" \in p.flags /\ "READ_BYTE" \notin p.flags /\ p.ainbits = 0
HasByte(p) == "WRITE_BUSY" \notin p.flags /\ "READ_BYTE" \in p.flags /\ p.aout = <<>>
Reads(p) ==
    "WRITE_BUSY" \notin p.flags /\ "READ_BYTE" \notin p.flags /\ p.aout = <<>>
AtRest(p, ins, outs) ==
    /\ Quiet(p) /\ Gives(p) /\ Kept(p, outs)
    /\ \/ HasByte(p) /\ ins = <<p.ain>>
       \/ Reads(p) /\ p.ainbits = 0 /\ ins = <<>>
Waits(p, ins, outs) ==
    /\ HasByte(p) /\ p.lines = 0 /\ p.ext \in {1, 2} /\ Takes(p)
    /\ ins = <<p.ain, <<Bit(p.ext)>> \o p.gout>> /\ outs = <<>>
WritesEarly(p, ins, outs) ==
    /\ Writes(p) /\ Pulls(p) /\ p.ext = 0 /\ Gives(p)
    /\ ins = <<>> /\ KeptBefore(p, <<Bit(p.lines)>> \o p.aout, outs)
Collides(p, ins, outs) ==
    /\ Writes(p) /\ Pulls(p) /\ p.ext = 0 /\ Takes(p)
    /\ ins = <<p.gout>> /\ outs = <<<<Bit(p.lines)>> \o p.aout>>
Settles(p, ins, outs) ==
    \/ AtRest(p, ins, outs) \/ Waits(p, ins, outs)
    \/ WritesEarly(p, ins, outs) \/ Collides(p, ins, outs)

\* ... and in the middle of the loop of dbus_update().
LastOf(s, n) == SubSeq(s, Len(s) - n + 1, Len(s))
Received(p) == LastOf(p.ain, p.ainbits)
Begins(p, ins, outs) ==
    /\ Quiet(p) /\ Takes(p) /\ outs = <<>>
    /\ \/ Reads(p) /\ ins = <<Received(p) \o p.gout>>
       \/ HasByte(p) /\ ins = <<p.ain, p.gout>>
       \/ HasByte(p) /\ p.gout = <<>> /\ ins = <<p.ain>>
Shifts(p, ins, outs) ==
    /\ Reads(p) /\ p.ext \in {1, 2} /\ p.lines \in {0, Opposite(p.ext)} /\ Takes(p)
    /\ ins = <<Append(Received(p), Bit(p.ext)) \o p.gout>> /\ outs = <<>>
Starts(p, ins, outs) ==
    Writes(p) /\ Quiet(p) /\ Gives(p) /\ ins = <<>> /\ KeptBefore(p, p.aout, outs)
Sends(p, ins, outs) ==
    /\ Writes(p) /\ Gives(p) /\ Len(p.gin) < Width /\ ins = <<>>
    /\ \/ Pulls(p) /\ p.ext = 0 /\ outs = <<Append(p.gin, Bit(p.lines)) \o p.aout>>
       \/ p.lines = 0 /\ p.ext \in {1, 2} /\ outs = <<Append(p.gin, AckBit(p.ext)) \o p.aout>>
ByAssist(p, ins, outs) ==
    /\ p.mode = {"ASSIST"}
    /\ \/ Settles(p, ins, outs) \/ Begins(p, ins, outs) \/ Shifts(p, ins, outs)
       \/ Starts(p, ins, outs) \/ Sends(p, ins, outs)

-----------------------------------------------------------------------------
(* Sequences that are joined.                                              *)

\* What joining makes of the elements, the lengths, the head and the tail.
LEMMA Joining ==
    ASSUME NEW S, NEW s \in Seq(S), NEW t \in Seq(S)
    PROVE  /\ s \o <<>> = s /\ <<>> \o s = s
           /\ s \o t \in Seq(S) /\ Len(s \o t) = Len(s) + Len(t)
           /\ t # <<>> => Append(s, Head(t)) \o Tail(t) = s \o t
           /\ t # <<>> => <<Head(t)>> \o Tail(t) = t
<1>1. Len(s) \in Nat /\ Len(t) \in Nat
  BY LenProperties
<1>2. ASSUME t # <<>>, NEW u \in Seq(S) PROVE Append(u, Head(t)) \o Tail(t) = u \o t
  <2>0. Len(u) \in Nat
    BY LenProperties
  <2>1. /\ Head(t) \in S /\ Tail(t) \in Seq(S) /\ Len(Tail(t)) = Len(t) - 1
        /\ \A i \in 1..(Len(t) - 1) : Tail(t)[i] = t[i + 1]
    BY <1>2, HeadTailProperties
  <2>2. Len(t) # 0 /\ Head(t) = t[1]
    BY <1>2, EmptySeq
  <2> DEFINE a == Append(u, Head(t))
  <2>3. /\ a \in Seq(S) /\ Len(a) = Len(u) + 1
        /\ \A i \in 1..Len(u) : a[i] = u[i]
        /\ a[Len(u) + 1] = t[1]
    BY <2>1, <2>2, AppendProperties
  <2> HIDE DEF a
  <2>4. /\ a \o Tail(t) \in Seq(S) /\ Len(a \o Tail(t)) = Len(u) + Len(t)
        /\ \A i \in 1..(Len(u) + Len(t)) : (a \o Tail(t))[i] =
              IF i <= Len(u) + 1 THEN a[i] ELSE Tail(t)[i - (Len(u) + 1)]
    <3>1. (Len(u) + 1) + (Len(t) - 1) = Len(u) + Len(t)
      BY <1>1, <2>0
    <3>2. /\ a \o Tail(t) \in Seq(S) /\ Len(a \o Tail(t)) = Len(a) + Len(Tail(t))
          /\ \A i \in 1..(Len(a) + Len(Tail(t))) : (a \o Tail(t))[i] =
                IF i <= Len(a) THEN a[i] ELSE Tail(t)[i - Len(a)]
      BY <2>1, <2>3, ConcatProperties
    <3> QED
      BY <2>1, <2>3, <3>1, <3>2
  <2>5. /\ u \o t \in Seq(S) /\ Len(u \o t) = Len(u) + Len(t)
        /\ \A i \in 1..(Len(u) + Len(t)) : (u \o t)[i] =
              IF i <= Len(u) THEN u[i] ELSE t[i - Len(u)]
    BY ConcatProperties
  <2> DEFINE x == a \o Tail(t)
             y == u \o t
  <2>6. ASSUME NEW i \in 1..(Len(u) + Len(t)) PROVE x[i] = y[i]
    <3>1. CASE i <= Len(u)
      BY <3>1, <2>0, <1>1, <2>3, <2>4, <2>5
    <3>2. CASE i = Len(u) + 1
      <4>1. i - Len(u) = 1 /\ ~(i <= Len(u)) /\ i <= Len(u) + 1
        BY <3>2, <2>0
      <4> QED
        BY <3>2, <4>1, <2>3, <2>4, <2>5
    <3>3. CASE i > Len(u) + 1
      <4>1. /\ i - (Len(u) + 1) \in 1..(Len(t) - 1) /\ (i - (Len(u) + 1)) + 1 = i - Len(u)
            /\ ~(i <= Len(u)) /\ ~(i <= Len(u) + 1)
        BY <3>3, <2>0, <1>1
      <4> QED
        BY <4>1, <2>1, <2>4, <2>5
    <3>4. i <= Len(u) \/ i = Len(u) + 1 \/ i > Len(u) + 1
      BY <2>0
    <3> QED
      BY <3>1, <3>2, <3>3, <3>4
  <2>7. x \in Seq(S) /\ y \in Seq(S) /\ Len(x) = Len(u) + Len(t) /\ Len(y) = Len(u) + Len(t)
    BY <2>4, <2>5
  <2> HIDE DEF x, y
  <2>8. x = y
    BY <2>6, <2>7, SeqEqual
  <2> QED
    BY <2>8 DEF x, y, a
<1>3. t # <<>> => <<Head(t)>> \o Tail(t) = t
  <2> SUFFICES ASSUME t # <<>> PROVE <<Head(t)>> \o Tail(t) = t
    OBVIOUS
  <2>1. <<>> \in Seq(S)
    BY EmptySeq
  <2>2. Append(<<>>, Head(t)) \o Tail(t) = <<>> \o t
    BY <1>2, <2>1
  <2>3. <<>> \o t = t
    BY ConcatEmptySeq
  <2>4. Append(<<>>, Head(t)) = <<Head(t)>>
    OBVIOUS
  <2> QED
    BY <2>2, <2>3, <2>4, Zenon
<1>4. s \o <<>> = s /\ <<>> \o s = s
  BY ConcatEmptySeq
<1>5. s \o t \in Seq(S) /\ Len(s \o t) = Len(s) + Len(t)
  BY ConcatProperties
<1> QED
  BY <1>2, <1>3, <1>4, <1>5

\* The last n elements of a sequence, and of the sequence shifted by one.
LEMMA LastOnes ==
    ASSUME NEW S, NEW s \in Seq(S), NEW n \in 0..Len(s)
    PROVE  /\ LastOf(s, n) \in Seq(S) /\ Len(LastOf(s, n)) = n
           /\ \A i \in 1..n : LastOf(s, n)[i] = s[(Len(s) - n) + i]
           /\ n = 0 => LastOf(s, n) = <<>>
           /\ n = Len(s) => LastOf(s, n) = s
<1> DEFINE w == Len(s)
           m == w - n + 1
<1>0. w \in Nat /\ n \in 0..w
  BY LenProperties
<1>1. m \in Int /\ w \in Int /\ \A i \in m..w : i \in 1..w
  BY <1>0
<1>2. \A i \in m..w : s[i] \in S
  BY <1>1, ElementOfSeq
<1>3. /\ (IF m <= w THEN w - m + 1 ELSE 0) = n /\ w - m + 1 = n
      /\ \A i \in 1..n : m + i - 1 = (w - n) + i
  BY <1>0
<1>4. n = 0 => w < m
  BY <1>0
<1>5. n = w => m = 1
  BY <1>0
<1> HIDE DEF m
<1>6. /\ SubSeq(s, m, w) \in Seq(S)
      /\ Len(SubSeq(s, m, w)) = IF m <= w THEN w - m + 1 ELSE 0
      /\ \A i \in 1..(w - m + 1) : SubSeq(s, m, w)[i] = s[m + i - 1]
  BY <1>1, <1>2, SubSeqProperties
<1>7. n = 0 => SubSeq(s, m, w) = <<>>
  BY <1>1, <1>4, SubSeqEmpty
<1>8. n = w => SubSeq(s, m, w) = s
  BY <1>5, SubSeqFull
<1>9. /\ SubSeq(s, m, w) \in Seq(S) /\ Len(SubSeq(s, m, w)) = n
      /\ \A i \in 1..n : SubSeq(s, m, w)[i] = s[(w - n) + i]
  BY <1>3, <1>6
<1> QED
  BY <1>7, <1>8, <1>9 DEF m, LastOf

\* Shifting in an element adds it to the last n.
LEMMA LastShifted ==
    ASSUME NEW S, NEW s \in Seq(S), NEW n \in Nat, n < Len(s), NEW b \in S, NEW k, k = n + 1
    PROVE  LastOf(Append(Tail(s), b), k) = Append(LastOf(s, n), b)
<1> DEFINE w == Len(s)
           t == Append(Tail(s), b)
           x == LastOf(t, n + 1)
           r == LastOf(s, n)
           y == Append(r, b)
<1>0. w \in Nat /\ n < w
  BY LenProperties
<1>1. s # <<>> /\ (w - 1) + 1 = w /\ w > 0
  BY <1>0, EmptySeq
<1>2. /\ Tail(s) \in Seq(S) /\ Len(Tail(s)) = w - 1
      /\ \A i \in 1..(w - 1) : Tail(s)[i] = s[i + 1]
  BY <1>1, HeadTailProperties
<1>3. /\ t \in Seq(S) /\ Len(t) = (w - 1) + 1
      /\ \A i \in 1..(w - 1) : t[i] = Tail(s)[i]
      /\ t[(w - 1) + 1] = b
  BY <1>2, AppendProperties
<1> HIDE DEF t
<1>4. n + 1 \in 0..w /\ n \in 0..w
  BY <1>0
<1>5. /\ x \in Seq(S) /\ Len(x) = n + 1
      /\ \A i \in 1..(n + 1) : x[i] = t[(w - (n + 1)) + i]
  <2>1. Len(t) = w /\ n + 1 \in 0..Len(t)
    BY <1>1, <1>3, <1>4
  <2>2. /\ LastOf(t, n + 1) \in Seq(S) /\ Len(LastOf(t, n + 1)) = n + 1
        /\ \A i \in 1..(n + 1) : LastOf(t, n + 1)[i] = t[(Len(t) - (n + 1)) + i]
    BY <1>3, <2>1, LastOnes
  <2> QED
    BY <2>1, <2>2
<1>6. r \in Seq(S) /\ Len(r) = n /\ \A i \in 1..n : r[i] = s[(w - n) + i]
  BY <1>4, LastOnes
<1> HIDE DEF x, r
<1>7. /\ y \in Seq(S) /\ Len(y) = n + 1 /\ \A i \in 1..n : y[i] = r[i]
      /\ y[n + 1] = b
  BY <1>6, AppendProperties
<1> HIDE DEF y
<1>8. ASSUME NEW i \in 1..(n + 1) PROVE x[i] = y[i]
  <2>1. CASE i = n + 1
    <3>1. (w - (n + 1)) + (n + 1) = w
      BY <1>0
    <3>2. x[i] = t[w]
      BY <2>1, <3>1, <1>5
    <3>3. y[i] = b
      BY <2>1, <1>7
    <3> QED
      BY <3>2, <3>3, <1>1, <1>3
  <2>2. CASE i # n + 1
    <3> DEFINE j == (w - (n + 1)) + i
    <3>1. i \in 1..n /\ j \in 1..(w - 1) /\ j + 1 = (w - n) + i
      BY <1>0, <2>2
    <3>2. x[i] = t[j]
      BY <1>5
    <3> HIDE DEF j
    <3>3. t[j] = s[(w - n) + i]
      BY <3>1, <1>2, <1>3
    <3>4. y[i] = s[(w - n) + i]
      BY <3>1, <1>6, <1>7
    <3> QED
      BY <3>2, <3>3, <3>4
  <2> QED
    BY <2>1, <2>2
<1>9. x = y
  BY <1>5, <1>7, <1>8, SeqEqual
<1> QED
  BY <1>9 DEF x, y, r, t

\* The bits that the assist has shifted in.
LEMMA ReceivedIs ==
    ASSUME NEW p, GoodPort(p)
    PROVE  /\ p.ainbits = 0 => Received(p) = <<>>
           /\ p.ainbits = Width => Received(p) = p.ain
           /\ Received(p) \in Seq({0, 1}) /\ Len(Received(p)) = p.ainbits
<1>1. p.ain \in Seq({0, 1}) /\ Len(p.ain) = Width /\ p.ainbits \in 0..Width
  BY DEF GoodPort, Steady, PortType, PortRecord
<1> QED
  BY <1>1, LastOnes DEF Received

\* A bit shifted in is a bit more received.
LEMMA OneMore ==
    ASSUME NEW p, GoodPort(p), NEW q, NEW b \in {0, 1}, p.ainbits < Width,
           q.ain = Append(Tail(p.ain), b), q.ainbits = p.ainbits + 1
    PROVE  Received(q) = Append(Received(p), b)
<1>1. /\ p.ain \in Seq({0, 1}) /\ Len(p.ain) = Width /\ Width \in Nat
      /\ p.ainbits \in Nat /\ p.ainbits < Len(p.ain)
  BY WidthAssumption DEF GoodPort, Steady, PortType, PortRecord
<1>2. LastOf(Append(Tail(p.ain), b), q.ainbits) = Append(LastOf(p.ain, p.ainbits), b)
  BY <1>1, LastShifted
<1> QED
  BY <1>2 DEF Received

-----------------------------------------------------------------------------
(* What is on its way through the port stays the same in a turn, and so in *)
(* an update.                                                              *)

\* Each line stands for a bit, and a line for the bit it is pulled for.
LEMMA Bits ==
    /\ \A b \in {0, 1} : Bit(LineOf(b)) = b /\ LineOf(b) \in {1, 2}
    /\ \A l \in {1, 2} : /\ Bit(l) \in {0, 1} /\ AckBit(l) \in {0, 1}
                         /\ AckBit(Opposite(l)) = Bit(l)
                         /\ (IF Opposite(l) = 1 THEN 1 ELSE 0) = Bit(l)
                         /\ (IF l = 1 THEN 1 ELSE 0) = AckBit(l)
                         /\ Opposite(l) \in {1, 2} /\ Opposite(Opposite(l)) = l
    /\ Opposite(0) = 3
  BY DEF Bit, LineOf, AckBit, Opposite

\* A byte that is alone on its way is of Width bits.
LEMMA OneByte ==
    ASSUME NEW x, <<x>> \in Seq(Byte)
    PROVE  x \in Byte /\ x \in Seq({0, 1}) /\ Len(x) = Width
<1>1. Len(<<x>>) = 1 /\ <<x>>[1] = x /\ 1 \in 1..1
  OBVIOUS
<1>2. x \in Byte
  BY <1>1, ElementOfSeq
<1> QED
  BY <1>2, ByteAssumption

\* So are two bytes on their way.
LEMMA TwoBytesOf ==
    ASSUME NEW x, NEW y, <<x, y>> \in Seq(Byte)
    PROVE  x \in Byte /\ y \in Byte /\ Len(x) = Width /\ Len(y) = Width
<1>1. Len(<<x, y>>) = 2 /\ <<x, y>>[1] = x /\ <<x, y>>[2] = y /\ 1 \in 1..2 /\ 2 \in 1..2
  OBVIOUS
<1>2. x \in Byte /\ y \in Byte
  BY <1>1, ElementOfSeq
<1> QED
  BY <1>2, ByteAssumption

\* The types of a good port's fields, one by one.
LEMMA FieldTypes ==
    ASSUME NEW p, GoodPort(p)
    PROVE  /\ p.lines \in 0..3 /\ p.ext \in 0..2 /\ p.gsend \in BOOLEAN
           /\ p.gin \in Seq({0, 1}) /\ p.gout \in Seq({0, 1}) /\ p.aout \in Seq({0, 1})
           /\ Len(p.gin) \in Nat /\ Len(p.gout) \in Nat /\ Len(p.aout) \in Nat
           /\ Len(p.gin) <= Width /\ Len(p.gout) <= Width /\ Len(p.aout) <= Width
           /\ p.ain \in Seq({0, 1}) /\ Len(p.ain) = Width
           /\ p.ainbits \in 0..Width /\ ("READ_BYTE" \notin p.flags => p.ainbits < Width)
           /\ Width \in Nat /\ Width > 0 /\ p \in PortRecord
<1>1. Width \in Nat /\ Width > 0
  BY WidthAssumption
<1>2. /\ p.lines \in 0..3 /\ p.ext \in 0..2 /\ p.gsend \in BOOLEAN
      /\ p.gin \in Seq({0, 1}) /\ p.gout \in Seq({0, 1}) /\ p.aout \in Seq({0, 1})
      /\ Len(p.gin) <= Width /\ Len(p.gout) <= Width /\ Len(p.aout) <= Width
      /\ p.ain \in Seq({0, 1}) /\ Len(p.ain) = Width
      /\ p.ainbits \in 0..Width /\ p \in PortRecord
  BY DEF GoodPort, Steady, PortType, PortRecord
<1>3. "READ_BYTE" \notin p.flags => p.ainbits < Width
  BY DEF GoodPort, Counted
<1> QED
  BY <1>1, <1>2, <1>3, BitSequences

\* Lines that are not both pulled stop nothing for an error.
LEMMA GrayStops ==
    ASSUME NEW p, GoodPort(p), p.lines # 3, "ERROR" \notin p.stop
    PROVE  "ERROR" \notin Gray(p).stop
<1>0. p.lines \in 0..3 /\ p \in PortRecord
  BY FieldTypes
<1>1. \A v \in 0..2 : SetExt(p, v).stop = p.stop
  BY ExtSet DEF OnlyExt
<1>2. CASE p.gsend
  <2>1. CASE p.lines = 0 /\ p.ext = 0 /\ p.gout # <<>>
    <3> DEFINE e == SetExt(p, LineOf(Head(p.gout)))
    <3>1. GoodPort(e) /\ e.stop = p.stop
      <4>1. LineOf(Head(p.gout)) \in 0..2
        BY Lines
      <4> QED
        BY <4>1, ExtSet DEF OnlyExt
    <3>2. Gray(p) = [e EXCEPT !.gout = Tail(e.gout)]
      BY <1>2, <2>1 DEF Gray, GrayWrite
    <3> HIDE DEF e
    <3> QED
      BY <3>1, <3>2, FieldTypes DEF PortRecord
  <2>2. CASE p.lines = 0 /\ p.ext = 0 /\ p.gout = <<>>
    <3>1. Gray(p) = Stop([p EXCEPT !.gsend = FALSE], "WRITE_BYTE")
      BY <1>2, <2>2 DEF Gray, GrayWrite
    <3> QED
      BY <1>0, <3>1 DEF Stop, PortRecord
  <2>3. CASE p.lines \in {1, 2} /\ p.ext = Opposite(p.lines)
    <3>1. Gray(p) = SetExt(p, 0) /\ 0 \in 0..2
      BY <1>2, <2>3 DEF Gray, GrayWrite
    <3> QED
      BY <1>1, <3>1
  <2>4. CASE /\ ~(p.lines = 0 /\ p.ext = 0)
             /\ ~(p.lines \in {1, 2} /\ p.ext = Opposite(p.lines))
    BY <1>2, <2>4 DEF Gray, GrayWrite
  <2> QED
    BY <2>1, <2>2, <2>3, <2>4
<1>3. CASE ~p.gsend /\ Len(p.gin) # Width
  <2>1. CASE p.lines = 0
    <3> DEFINE s == Append(p.gin, IF p.ext = 1 THEN 1 ELSE 0)
               d == IF p.ext \in {1, 2} THEN [p EXCEPT !.gin = s] ELSE p
               r == IF Len(d.gin) >= Width THEN Stop(d, "READ_BYTE") ELSE d
    <3>1. Gray(p) = SetExt(r, 0)
      BY <1>3, <2>1 DEF Gray, GrayRead
    <3>2. s \in Seq({0, 1}) /\ Len(s) <= Width
      BY <1>3, FieldTypes, BitSequences
    <3> HIDE DEF s
    <3>3. GoodPort(d) /\ d.stop = p.stop
      <4>1. GoodPort(d)
        BY <1>3, <3>2, ReceivedKeeps
      <4> QED
        BY <1>0, <4>1 DEF PortRecord
    <3> HIDE DEF d
    <3>4. GoodPort(r) /\ "ERROR" \notin r.stop
      <4>1. GoodPort(r)
        BY <3>3, StopKeeps DEF AllStops
      <4>2. d \in PortRecord
        BY <3>3, FieldTypes
      <4> QED
        BY <3>3, <4>1, <4>2 DEF PortRecord, Stop
    <3> HIDE DEF r
    <3> QED
      BY <3>1, <3>4, ExtSet, Lines DEF OnlyExt
  <2>2. CASE p.lines \in {1, 2}
    <3>1. Gray(p) = SetExt(p, Opposite(p.lines)) /\ Opposite(p.lines) \in 0..2
      BY <1>3, <2>2, Lines DEF Gray, GrayRead
    <3> QED
      BY <1>1, <3>1
  <2> QED
    BY <1>0, <2>1, <2>2
<1>4. CASE ~p.gsend /\ Len(p.gin) = Width
  BY <1>4 DEF Gray
<1> QED
  BY <1>2, <1>3, <1>4

\* Joining, for sequences of bits.
LEMMA BitsJoined ==
    ASSUME NEW s \in Seq({0, 1}), NEW t \in Seq({0, 1})
    PROVE  /\ \A n : n = Len(s \o t) => n = Len(s) + Len(t)
           /\ t # <<>> => Append(s, Head(t)) \o Tail(t) = s \o t
           /\ t # <<>> => <<Head(t)>> \o Tail(t) = t
<1>1. Len(s \o t) = Len(s) + Len(t)
  BY Joining
<1>2. ASSUME t # <<>> PROVE Append(s, Head(t)) \o Tail(t) = s \o t
  BY <1>2, Joining
<1>3. ASSUME t # <<>> PROVE <<Head(t)>> \o Tail(t) = t
  BY <1>3, Joining
<1> QED
  BY <1>1, <1>2, <1>3

\* A turn from p to r by way of q, of a port whose program uses the assist.
ByTurn(p, q, r) ==
    /\ GoodPort(p) /\ GoodPort(q) /\ GoodPort(r)
    /\ p.mode = {"ASSIST"} /\ GrayDone(p, q) /\ AssistDone(q, r)
\* It ends at a state that the program may find or, the lines moving, goes on.
Reaches(q, r, ins, outs) ==
    /\ r.mode = {"ASSIST"}
    /\ \/ Settles(r, ins, outs)
       \/ ByAssist(r, ins, outs) /\ r.lines # q.lines

\* A turn of a port at rest.
LEMMA TurnAtRest ==
    ASSUME NEW p, NEW q, NEW r, ByTurn(p, q, r), NEW ins, NEW outs, AtRest(p, ins, outs)
    PROVE  Reaches(q, r, ins, outs)
<1>1. Width \in Nat /\ Width > 0 /\ Len(<<>>) = 0
  BY FieldTypes, BitSequences DEF ByTurn
<1>2. /\ p.lines = 0 /\ p.ext = 0 /\ ~p.gsend /\ p.gout = <<>> /\ Kept(p, outs)
      /\ p.gin = <<>> \/ Len(p.gin) = Width
  BY DEF AtRest, Quiet, Gives, Kept
<1>3. /\ q.lines = 0 /\ q.ext = 0 /\ ~q.gsend /\ q.gout = <<>> /\ q.gin = p.gin
      /\ q.flags = p.flags /\ q.aout = p.aout /\ q.mode = {"ASSIST"}
      /\ q.ain = p.ain /\ q.ainbits = p.ainbits
  BY <1>1, <1>2 DEF ByTurn, GrayDone
<1>4. CASE HasByte(p) /\ ins = <<p.ain>>
  <2>1. r = q
    BY <1>3, <1>4 DEF ByTurn, AssistDone, HasByte, Reading
  <2> QED
    BY <1>2, <1>3, <1>4, <2>1 DEF Reaches, Settles, AtRest, Quiet, Gives, Kept, HasByte
<1>5. CASE Reads(p) /\ p.ainbits = 0 /\ ins = <<>>
  <2>1. Reading(q)
    BY <1>3, <1>5 DEF Reading, Reads
  <2>2. ~(0 >= Width)
    BY <1>1
  <2>3. /\ r.lines = 0 /\ r.ext = 0 /\ ~r.gsend /\ r.gout = <<>> /\ r.gin = p.gin
        /\ r.flags = p.flags /\ r.aout = p.aout /\ r.mode = {"ASSIST"} /\ r.ainbits = 0
    BY <1>3, <1>5, <2>1, <2>2 DEF ByTurn, AssistDone
  <2> QED
    BY <1>2, <1>3, <1>5, <2>3 DEF Reaches, Settles, AtRest, Quiet, Gives, Kept, Reads
<1> QED
  BY <1>4, <1>5 DEF AtRest

\* A turn while the program has a byte to read and the next one is offered.
LEMMA TurnWaits ==
    ASSUME NEW p, NEW q, NEW r, ByTurn(p, q, r), NEW ins, NEW outs, Waits(p, ins, outs)
    PROVE  Reaches(q, r, ins, outs)
<1>1. q = p
  BY DEF ByTurn, GrayDone, Waits, Takes
<1>2. r = q
  BY <1>1 DEF ByTurn, AssistDone, Waits, HasByte, Reading
<1> QED
  BY <1>1, <1>2 DEF Reaches, Settles, ByTurn

\* A turn while host and program both have a byte to send, and the program pulls a line.
LEMMA TurnCollides ==
    ASSUME NEW p, NEW q, NEW r, ByTurn(p, q, r), NEW ins, NEW outs, Collides(p, ins, outs)
    PROVE  Reaches(q, r, ins, outs)
<1>1. q = p
  BY Bits DEF ByTurn, GrayDone, Collides, Takes, Pulls
<1>2. r = q
  BY <1>1 DEF ByTurn, AssistDone, Collides, Writes, Pulls
<1> QED
  BY <1>1, <1>2 DEF Reaches, Settles, ByTurn

\* The gray link acknowledges a bit of the program's.
LEMMA TurnSends ==
    ASSUME NEW p, NEW q, NEW r, ByTurn(p, q, r), NEW ins, NEW outs,
           Writes(p), Gives(p), Len(p.gin) < Width, ins = <<>>, Pulls(p), p.ext = 0,
           outs = <<Append(p.gin, Bit(p.lines)) \o p.aout>>
    PROVE  Reaches(q, r, ins, outs)
<1>1. Width \in Nat /\ Len(p.gin) # Width
  BY FieldTypes DEF ByTurn
<1>2. /\ q.lines = p.lines /\ q.ext = Opposite(p.lines) /\ ~q.gsend /\ q.gout = <<>>
      /\ q.gin = p.gin /\ q.flags = p.flags /\ q.aout = p.aout /\ q.mode = {"ASSIST"}
      /\ q.ain = p.ain /\ q.ainbits = p.ainbits
  BY <1>1 DEF ByTurn, GrayDone, Gives, Pulls
<1>3. q.ext \in {1, 2} /\ q.lines # 0 /\ AckBit(q.ext) = Bit(p.lines)
  BY <1>2, Bits DEF Pulls
<1>4. /\ r.lines = 0 /\ r.ext = q.ext /\ ~r.gsend /\ r.gout = <<>> /\ r.gin = p.gin
      /\ r.flags = p.flags /\ r.aout = p.aout /\ r.mode = {"ASSIST"} /\ r.ainbits = p.ainbits
  BY <1>2, <1>3 DEF ByTurn, AssistDone, Writes
<1>5. Writes(r) /\ Gives(r) /\ Len(r.gin) < Width
  BY <1>4 DEF Writes, Gives
<1>6. outs = <<Append(r.gin, AckBit(r.ext)) \o r.aout>>
  BY <1>3, <1>4
<1>7. Sends(r, ins, outs)
  BY <1>3, <1>4, <1>5, <1>6 DEF Sends
<1> QED
  BY <1>2, <1>3, <1>4, <1>7 DEF Reaches, ByAssist

\* A turn while the first bit is on the lines: it waits until the byte before is fetched.
LEMMA TurnWritesEarly ==
    ASSUME NEW p, NEW q, NEW r, ByTurn(p, q, r), NEW ins, NEW outs, WritesEarly(p, ins, outs)
    PROVE  Reaches(q, r, ins, outs)
<1>1. CASE p.gin = <<>> /\ outs = <<<<Bit(p.lines)>> \o p.aout>>
  <2>1. Append(p.gin, Bit(p.lines)) = <<Bit(p.lines)>>
    BY <1>1
  <2>2. outs = <<Append(p.gin, Bit(p.lines)) \o p.aout>>
    BY <1>1, <2>1
  <2>3. Len(p.gin) < Width
    BY <1>1, FieldTypes, BitSequences DEF ByTurn
  <2> QED
    BY <2>2, <2>3, TurnSends DEF WritesEarly
<1>2. CASE Len(p.gin) = Width
  <2>1. q = p
    BY <1>2 DEF ByTurn, GrayDone, WritesEarly, Gives
  <2>2. r = q
    BY <2>1 DEF ByTurn, AssistDone, WritesEarly, Writes, Pulls
  <2> QED
    BY <2>1, <2>2 DEF Reaches, Settles, ByTurn
<1> QED
  BY <1>1, <1>2 DEF WritesEarly, KeptBefore

\* The assist begins a byte of the program's.
LEMMA TurnStarts ==
    ASSUME NEW p, NEW q, NEW r, ByTurn(p, q, r), NEW ins, NEW outs \in Seq(Byte),
           Starts(p, ins, outs)
    PROVE  Reaches(q, r, ins, outs)
<1>1. /\ Width \in Nat /\ Width > 0 /\ Len(<<>>) = 0
      /\ p.aout \in Seq({0, 1}) /\ Len(p.aout) \in Nat
  BY FieldTypes, BitSequences DEF ByTurn
<1>2. /\ p.lines = 0 /\ p.ext = 0 /\ ~p.gsend /\ p.gout = <<>> /\ ins = <<>>
      /\ p.gin = <<>> \/ Len(p.gin) = Width
  BY DEF Starts, Quiet, Gives, KeptBefore
<1>3. /\ q.lines = 0 /\ q.ext = 0 /\ ~q.gsend /\ q.gout = <<>> /\ q.gin = p.gin
      /\ q.flags = p.flags /\ q.aout = p.aout /\ q.mode = {"ASSIST"}
      /\ q.ain = p.ain /\ q.ainbits = p.ainbits
  BY <1>1, <1>2 DEF ByTurn, GrayDone
<1>4. p.aout # <<>>
  <2>1. Len(p.aout) = Width
    BY OneByte, TwoBytesOf DEF Starts, KeptBefore
  <2> QED
    BY <1>1, <2>1
<1>5. /\ r.lines = LineOf(Head(p.aout)) /\ r.ext = 0 /\ ~r.gsend /\ r.gout = <<>>
      /\ r.gin = p.gin /\ r.flags = p.flags /\ r.aout = Tail(p.aout) /\ r.mode = {"ASSIST"}
      /\ r.ainbits = p.ainbits
  BY <1>3, <1>4 DEF ByTurn, AssistDone, Starts, Writes
<1>6. Head(p.aout) \in {0, 1}
  BY <1>1, <1>4, BitSequences
<1>7. Bit(r.lines) = Head(p.aout) /\ Pulls(r)
  BY <1>5, <1>6, Bits DEF Pulls
<1>8. <<Bit(r.lines)>> \o r.aout = p.aout
  BY <1>1, <1>4, <1>5, <1>7, Joining
<1>9. KeptBefore(r, p.aout, outs) /\ Writes(r) /\ Gives(r)
  BY <1>5 DEF Starts, KeptBefore, Writes, Gives
<1>10. WritesEarly(r, ins, outs)
  BY <1>2, <1>5, <1>7, <1>8, <1>9 DEF WritesEarly
<1> QED
  BY <1>5, <1>10 DEF Reaches, Settles

\* The gray link receives a bit of the program's, and the assist goes on with the next.
LEMMA TurnReceives ==
    ASSUME NEW p, NEW q, NEW r, ByTurn(p, q, r), NEW ins, NEW outs \in Seq(Byte),
           Writes(p), Gives(p), Len(p.gin) < Width, ins = <<>>, p.lines = 0, p.ext \in {1, 2},
           outs = <<Append(p.gin, AckBit(p.ext)) \o p.aout>>
    PROVE  Reaches(q, r, ins, outs)
<1> DEFINE g == Append(p.gin, AckBit(p.ext))
<1>1. /\ Width \in Nat /\ Width > 0 /\ p.aout \in Seq({0, 1}) /\ Len(p.aout) \in Nat
      /\ p.gin \in Seq({0, 1}) /\ Len(p.gin) \in Nat /\ Len(p.gin) # Width
  BY FieldTypes DEF ByTurn
<1>2. AckBit(p.ext) \in {0, 1} /\ (IF p.ext = 1 THEN 1 ELSE 0) = AckBit(p.ext)
  BY Bits
<1>3. g \in Seq({0, 1}) /\ Len(g) \in Nat /\ Len(g) + Len(p.aout) = Width
  <2>1. g \in Seq({0, 1})
    BY <1>1, <1>2, BitSequences
  <2>2. Len(g \o p.aout) = Width
    BY OneByte
  <2> HIDE DEF g
  <2>3. Len(g \o p.aout) = Len(g) + Len(p.aout)
    BY <1>1, <2>1, Joining
  <2> QED
    BY <1>1, <2>1, <2>2, <2>3, BitSequences
<1>4. /\ q.lines = 0 /\ q.ext = 0 /\ ~q.gsend /\ q.gout = <<>> /\ q.gin = g
      /\ q.flags = p.flags /\ q.aout = p.aout /\ q.mode = {"ASSIST"}
      /\ q.ain = p.ain /\ q.ainbits = p.ainbits
  BY <1>1, <1>2 DEF ByTurn, GrayDone, Gives
<1>5. outs = <<g \o p.aout>>
  OBVIOUS
<1> HIDE DEF g
<1>6. CASE p.aout = <<>>
  <2>1. /\ r.lines = 0 /\ r.ext = 0 /\ ~r.gsend /\ r.gout = <<>> /\ r.gin = g
        /\ r.flags = p.flags \ {"WRITE_BUSY"} /\ r.aout = <<>> /\ r.mode = {"ASSIST"}
        /\ r.ainbits = 0
    BY <1>4, <1>6 DEF ByTurn, AssistDone, Writes
  <2>2. Len(g) = Width
    BY <1>3, <1>6, BitSequences
  <2>3. outs = <<g>>
    BY <1>3, <1>5, <1>6, ConcatEmptySeq
  <2>4. Kept(r, outs) /\ Reads(r)
    BY <2>1, <2>2, <2>3 DEF Kept, Reads, Writes
  <2> QED
    BY <2>1, <2>4 DEF Reaches, Settles, AtRest, Quiet, Gives
<1>7. CASE p.aout # <<>>
  <2>1. /\ r.lines = LineOf(Head(p.aout)) /\ r.ext = 0 /\ ~r.gsend /\ r.gout = <<>>
        /\ r.gin = g /\ r.flags = p.flags /\ r.aout = Tail(p.aout) /\ r.mode = {"ASSIST"}
        /\ r.ainbits = 0
    BY <1>4, <1>7 DEF ByTurn, AssistDone, Writes
  <2>2. Head(p.aout) \in {0, 1} /\ Len(p.aout) > 0
    BY <1>1, <1>7, BitSequences
  <2>3. Len(r.gin) < Width
    BY <1>1, <1>3, <2>1, <2>2
  <2>4. Bit(r.lines) = Head(p.aout) /\ Pulls(r) /\ r.lines # 0
    BY <2>1, <2>2, Bits DEF Pulls
  <2>5. Append(g, Head(p.aout)) \o Tail(p.aout) = g \o p.aout
    <3>1. p.aout \in Seq({0, 1}) /\ g \in Seq({0, 1})
      BY <1>1, <1>3
    <3> QED
      BY <3>1, <1>7, BitsJoined
  <2>6. outs = <<Append(r.gin, Bit(r.lines)) \o r.aout>>
    BY <1>5, <2>1, <2>4, <2>5
  <2>7. Sends(r, ins, outs)
    BY <2>1, <2>3, <2>4, <2>6 DEF Sends, Writes, Gives
  <2> QED
    BY <1>4, <2>1, <2>4, <2>7 DEF Reaches, ByAssist
<1> QED
  BY <1>6, <1>7

\* The gray link sends the program a bit.
LEMMA TurnBegins ==
    ASSUME NEW p, NEW q, NEW r, ByTurn(p, q, r), NEW ins \in Seq(Byte), NEW outs,
           Begins(p, ins, outs)
    PROVE  Reaches(q, r, ins, outs)
<1>1. /\ Width \in Nat /\ Width > 0 /\ Len(<<>>) = 0
      /\ p.gout \in Seq({0, 1}) /\ Len(p.gout) \in Nat
      /\ p.ainbits \in 0..Width /\ ("READ_BYTE" \notin p.flags => p.ainbits < Width)
      /\ Received(p) \in Seq({0, 1}) /\ Len(Received(p)) = p.ainbits
  BY FieldTypes, BitSequences, ReceivedIs DEF ByTurn
<1>2. p.lines = 0 /\ p.ext = 0 /\ p.gsend /\ p.gin = <<>> /\ outs = <<>>
  BY DEF Begins, Quiet, Takes
<1>3. CASE HasByte(p) /\ p.gout = <<>> /\ ins = <<p.ain>>
  <2>1. /\ q.lines = 0 /\ q.ext = 0 /\ ~q.gsend /\ q.gout = <<>> /\ q.gin = <<>>
        /\ q.flags = p.flags /\ q.aout = p.aout /\ q.mode = {"ASSIST"} /\ q.ain = p.ain
    BY <1>2, <1>3 DEF ByTurn, GrayDone
  <2>2. r = q
    BY <1>3, <2>1 DEF ByTurn, AssistDone, HasByte, Reading
  <2> QED
    BY <1>2, <1>3, <2>1, <2>2 DEF Reaches, Settles, AtRest, Quiet, Gives, Kept, HasByte
<1>4. ASSUME p.gout # <<>>
      PROVE  /\ q.lines = 0 /\ q.ext = LineOf(Head(p.gout)) /\ q.gsend /\ q.gin = <<>>
             /\ q.gout = Tail(p.gout) /\ q.flags = p.flags /\ q.aout = p.aout
             /\ q.mode = {"ASSIST"} /\ q.ain = p.ain /\ q.ainbits = p.ainbits
             /\ q.ext \in {1, 2} /\ Bit(q.ext) = Head(p.gout) /\ Head(p.gout) \in {0, 1}
  <2>1. Head(p.gout) \in {0, 1}
    BY <1>1, <1>4, BitSequences
  <2>2. /\ q.lines = 0 /\ q.ext = LineOf(Head(p.gout)) /\ q.gsend /\ q.gin = <<>>
        /\ q.gout = Tail(p.gout) /\ q.flags = p.flags /\ q.aout = p.aout
        /\ q.mode = {"ASSIST"} /\ q.ain = p.ain /\ q.ainbits = p.ainbits
    BY <1>2, <1>4 DEF ByTurn, GrayDone
  <2> QED
    BY <2>1, <2>2, Bits
<1>5. CASE HasByte(p) /\ ins = <<p.ain, p.gout>>
  <2>1. p.gout # <<>>
    BY <1>1, <1>5, TwoBytesOf
  <2>2. r = q
    BY <1>4, <1>5, <2>1 DEF ByTurn, AssistDone, HasByte, Reading
  <2>3. <<Bit(r.ext)>> \o r.gout = p.gout
    <3>1. p.gout \in Seq({0, 1}) /\ Bit(r.ext) = Head(p.gout) /\ r.gout = Tail(p.gout)
      BY <1>1, <1>4, <2>1, <2>2
    <3>2. <<Head(p.gout)>> \o Tail(p.gout) = p.gout
      BY <2>1, <3>1, BitsJoined
    <3> QED
      BY <3>1, <3>2
  <2>4. ins = <<r.ain, <<Bit(r.ext)>> \o r.gout>>
    BY <1>4, <1>5, <2>1, <2>2, <2>3
  <2>5. HasByte(r) /\ Takes(r)
    BY <1>4, <1>5, <2>1, <2>2 DEF HasByte, Takes
  <2>6. Waits(r, ins, outs)
    BY <1>2, <1>4, <2>1, <2>2, <2>4, <2>5 DEF Waits
  <2> QED
    BY <1>4, <2>1, <2>2, <2>6 DEF Reaches, Settles
<1>6. CASE Reads(p) /\ ins = <<Received(p) \o p.gout>>
  <2>1. p.gout # <<>>
    <3>1. Len(Received(p) \o p.gout) = Width
      BY <1>6, OneByte
    <3>2. Len(Received(p) \o p.gout) = p.ainbits + Len(p.gout)
      BY <1>1, Joining
    <3>3. p.ainbits < Width
      BY <1>1, <1>6 DEF Reads
    <3> QED
      BY <1>1, <3>1, <3>2, <3>3
  <2>2. Reading(q)
    BY <1>4, <1>6, <2>1 DEF Reading, Reads
  <2>3. /\ r.lines = Opposite(q.ext) /\ r.flags = p.flags \cup {"READ_BUSY"}
        /\ r.ain = p.ain /\ r.ainbits = p.ainbits /\ r.ext = q.ext /\ r.gsend
        /\ r.gin = <<>> /\ r.gout = Tail(p.gout) /\ r.aout = p.aout /\ r.mode = {"ASSIST"}
    BY <1>4, <2>1, <2>2 DEF ByTurn, AssistDone
  <2>4. Opposite(q.ext) \in {1, 2}
    BY <1>4, <2>1, Bits
  <2>5. Received(r) = Received(p)
    BY <2>3 DEF Received
  <2>6. Append(Received(p), Head(p.gout)) \o Tail(p.gout) = Received(p) \o p.gout
    <3>1. p.gout \in Seq({0, 1}) /\ Received(p) \in Seq({0, 1})
      BY <1>1
    <3> QED
      BY <2>1, <3>1, BitsJoined
  <2>7. ins = <<Append(Received(r), Bit(r.ext)) \o r.gout>>
    BY <1>4, <1>6, <2>1, <2>3, <2>5, <2>6
  <2>8. Reads(r) /\ Takes(r)
    BY <1>6, <2>3 DEF Reads, Takes
  <2>9. Shifts(r, ins, outs)
    BY <1>2, <1>4, <2>1, <2>3, <2>7, <2>8 DEF Shifts
  <2> QED
    BY <1>4, <2>1, <2>3, <2>4, <2>9 DEF Reaches, ByAssist
<1> QED
  BY <1>3, <1>5, <1>6 DEF Begins

\* The assist acknowledges a bit, or the gray link ends it and the assist shifts it in.
LEMMA TurnShifts ==
    ASSUME NEW p, NEW q, NEW r, ByTurn(p, q, r), NEW ins \in Seq(Byte), NEW outs,
           Shifts(p, ins, outs)
    PROVE  Reaches(q, r, ins, outs)
<1>1. /\ Width \in Nat /\ Width > 0 /\ Len(<<>>) = 0
      /\ p.gout \in Seq({0, 1}) /\ Len(p.gout) \in Nat
      /\ p.ainbits \in Nat /\ p.ainbits < Width
      /\ Received(p) \in Seq({0, 1}) /\ Len(Received(p)) = p.ainbits
  BY FieldTypes, BitSequences, ReceivedIs DEF ByTurn, Shifts, Reads
<1>2. /\ p.gsend /\ p.gin = <<>> /\ outs = <<>> /\ p.ext \in {1, 2} /\ Reads(p)
      /\ ins = <<Append(Received(p), Bit(p.ext)) \o p.gout>>
  BY DEF Shifts, Takes
<1>3. CASE p.lines = 0
  <2>1. q = p
    BY <1>2, <1>3 DEF ByTurn, GrayDone
  <2>2. Reading(q)
    BY <1>2, <2>1 DEF Reading, Reads, ByTurn
  <2>3. /\ r.lines = Opposite(p.ext) /\ r.flags = p.flags \cup {"READ_BUSY"}
        /\ r.ain = p.ain /\ r.ainbits = p.ainbits /\ r.ext = p.ext /\ r.gsend
        /\ r.gin = <<>> /\ r.gout = p.gout /\ r.aout = p.aout /\ r.mode = {"ASSIST"}
    BY <1>2, <2>1, <2>2 DEF ByTurn, AssistDone
  <2>4. Opposite(p.ext) \in {1, 2}
    BY <1>2, Bits
  <2>5. Received(r) = Received(p)
    BY <2>3 DEF Received
  <2>6. ins = <<Append(Received(r), Bit(r.ext)) \o r.gout>>
    BY <1>2, <2>3, <2>5
  <2>7. Reads(r) /\ Takes(r)
    BY <1>2, <2>3 DEF Reads, Takes
  <2>8. Shifts(r, ins, outs)
    BY <1>2, <2>3, <2>6, <2>7 DEF Shifts
  <2> QED
    BY <1>3, <2>1, <2>3, <2>4, <2>8 DEF Reaches, ByAssist
<1>4. CASE p.lines = Opposite(p.ext)
  <2>1. /\ p.lines \in {1, 2} /\ p.ext = Opposite(p.lines) /\ p.lines # 0
        /\ (IF p.lines = 1 THEN 1 ELSE 0) = Bit(p.ext) /\ Bit(p.ext) \in {0, 1}
    BY <1>2, <1>4, Bits
  <2>2. /\ q.lines = p.lines /\ q.ext = 0 /\ q.gsend /\ q.gout = p.gout /\ q.gin = <<>>
        /\ q.flags = p.flags /\ q.aout = p.aout /\ q.mode = {"ASSIST"}
        /\ q.ain = p.ain /\ q.ainbits = p.ainbits
    BY <1>2, <2>1 DEF ByTurn, GrayDone
  <2>3. Reading(q)
    BY <1>2, <2>2 DEF Reading, Reads
  <2>4. /\ r.lines = 0 /\ r.ext = 0 /\ r.gsend /\ r.gout = p.gout /\ r.gin = <<>>
        /\ r.aout = p.aout /\ r.mode = {"ASSIST"}
        /\ r.ain = Append(Tail(p.ain), Bit(p.ext)) /\ r.ainbits = p.ainbits + 1
        /\ r.flags = IF r.ainbits >= Width
                       THEN (p.flags \ {"READ_BUSY"}) \cup {"READ_BYTE"} ELSE p.flags
    BY <2>1, <2>2, <2>3 DEF ByTurn, AssistDone
  <2>5. Received(r) = Append(Received(p), Bit(p.ext))
    BY <1>1, <2>1, <2>4, OneMore DEF ByTurn
  <2>6. ins = <<Received(r) \o r.gout>>
    BY <1>2, <2>4, <2>5
  <2>7. Quiet(r) /\ Takes(r)
    BY <2>4 DEF Quiet, Takes
  <2>8. CASE ~(r.ainbits >= Width)
    <3>1. Reads(r)
      BY <1>2, <2>4, <2>8 DEF Reads
    <3>2. Begins(r, ins, outs)
      BY <1>2, <2>6, <2>7, <3>1 DEF Begins
    <3> QED
      BY <2>1, <2>2, <2>4, <3>2 DEF Reaches, ByAssist
  <2>9. CASE r.ainbits >= Width
    <3>1. HasByte(r)
      BY <1>2, <2>4, <2>9 DEF Reads, HasByte
    <3>2. GoodPort(r) /\ r.ainbits = Width
      BY <1>1, <2>4, <2>9 DEF ByTurn
    <3>3. Received(r) = r.ain /\ r.ain \in Seq({0, 1}) /\ Len(r.ain) = Width
      BY <3>2, ReceivedIs, FieldTypes
    <3>4. Len(r.gout) = 0
      <4>1. Len(r.ain \o r.gout) = Width
        BY <2>6, <3>3, OneByte
      <4>2. r.gout \in Seq({0, 1}) /\ Len(r.gout) \in Nat
        BY <1>1, <2>4
      <4>3. Width = Len(r.ain) + Len(r.gout)
        BY <3>3, <4>1, <4>2, BitsJoined
      <4> QED
        BY <1>1, <3>3, <4>2, <4>3
    <3>5. r.gout = <<>>
      BY <1>1, <2>4, <3>4, EmptySeq
    <3>6. ins = <<r.ain>>
      BY <2>6, <3>3, <3>5, ConcatEmptySeq
    <3>7. Begins(r, ins, outs)
      BY <1>2, <2>7, <3>1, <3>5, <3>6 DEF Begins
    <3> QED
      BY <2>1, <2>2, <2>4, <3>7 DEF Reaches, ByAssist
  <2> QED
    BY <2>8, <2>9
<1> QED
  BY <1>3, <1>4 DEF Shifts

\* The assist has no stop reasons.
LEMMA AssistStops ==
    ASSUME NEW p, GoodPort(p)
    PROVE  Assist(p).stop = p.stop
<1>0. p \in PortRecord /\ p.ext \in {0, 1, 2} /\ p.ext # 3
  <2>1. p.ext \in 0..2 /\ p \in PortRecord
    BY FieldTypes
  <2> QED
    BY <2>1
<1>1. CASE "WRITE_BUSY" \in p.flags
  <2>1. AssistWrite(p).stop = p.stop
    BY <1>0 DEF AssistWrite, SetTimeout, ClearTimeout, SetLines, PortRecord
  <2> QED
    BY <1>1, <2>1 DEF Assist
<1>2. CASE p.ext = 0
  <2> DEFINE q == AssistBit(p)
             t == [q EXCEPT !.flags = (@ \ {"READ_BUSY"}) \cup {"READ_BYTE"}]
             r == IF q.ainbits >= Width THEN ClearTimeout(t) ELSE SetTimeout(q)
  <2>1. q.stop = p.stop /\ "stop" \in DOMAIN q
    BY <1>0 DEF AssistBit, PortRecord
  <2>2. AssistRead(p) = SetLines(r, 0)
    BY <1>2 DEF AssistRead
  <2> HIDE DEF q
  <2>3. t.stop = p.stop /\ "stop" \in DOMAIN t
    BY <2>1
  <2> HIDE DEF t
  <2>4. r.stop = p.stop /\ "stop" \in DOMAIN r
    BY <2>1, <2>3 DEF SetTimeout, ClearTimeout
  <2> HIDE DEF r
  <2>5. AssistRead(p).stop = p.stop
    BY <2>2, <2>4 DEF SetLines
  <2> QED
    BY <1>1, <2>5 DEF Assist
<1>3. CASE p.ext \in {1, 2}
  <2> DEFINE q == [p EXCEPT !.flags = @ \cup {"READ_BUSY"}]
             r == SetLines(q, Opposite(p.ext))
  <2>1. AssistRead(p) = SetTimeout(r)
    BY <1>3 DEF AssistRead
  <2>2. q.stop = p.stop /\ "stop" \in DOMAIN q
    BY <1>0 DEF PortRecord
  <2> HIDE DEF q
  <2>3. r.stop = p.stop /\ "stop" \in DOMAIN r
    BY <2>2 DEF SetLines
  <2> HIDE DEF r
  <2>4. AssistRead(p).stop = p.stop
    BY <2>1, <2>3 DEF SetTimeout
  <2> QED
    BY <1>1, <2>4 DEF Assist
<1> QED
  BY <1>0, <1>2, <1>3

\* A port whose program uses the assist, with the bytes on their way through it.
Carrying(p, ins, outs) ==
    GoodPort(p) /\ ByAssist(p, ins, outs) /\ "ERROR" \notin p.stop

\* A turn carries the bytes on, and one that ends the loop leaves them settled.
LEMMA TurnCarries ==
    ASSUME NEW p, NEW ins \in Seq(Byte), NEW outs \in Seq(Byte), Carrying(p, ins, outs)
    PROVE  /\ Carrying(Turn(p).at, ins, outs)
           /\ Turn(p).rests => Settles(Turn(p).at, ins, outs)
<1> DEFINE q == Gray(p)
           r == Assist(q)
<1>1. ByTurn(p, q, r)
  BY GrayKeeps, AssistKeeps, GrayDoes, AssistDoes DEF Carrying, ByTurn, ByAssist
<1>2. Turn(p).at = r /\ (Turn(p).rests <=> r.lines = q.lines)
  BY DEF Turn
<1>3. p.lines # 3
  <2>1. CASE Settles(p, ins, outs)
    BY <2>1 DEF Settles, AtRest, Waits, WritesEarly, Collides, Quiet, Pulls
  <2>2. CASE Begins(p, ins, outs)
    BY <2>2 DEF Begins, Quiet
  <2>4. CASE Starts(p, ins, outs)
    BY <2>4 DEF Starts, Quiet
  <2>5. CASE Sends(p, ins, outs)
    <3>1. Pulls(p) \/ p.lines = 0
      BY <2>5, Zenon DEF Sends
    <3> QED
      BY <3>1 DEF Pulls
  <2>3. CASE Shifts(p, ins, outs)
    <3>1. p.lines \in {0, 1, 2}
      BY <2>3, Bits DEF Shifts
    <3> QED
      BY <3>1
  <2> QED
    BY <2>1, <2>2, <2>3, <2>4, <2>5 DEF Carrying, ByAssist
<1>4. "ERROR" \notin r.stop
  <2>1. "ERROR" \notin q.stop
    BY <1>3, GrayStops DEF Carrying
  <2> QED
    BY <1>1, <2>1, AssistStops DEF ByTurn
<1> HIDE DEF q, r
<1>5. Reaches(q, r, ins, outs)
  <2>1. CASE Settles(p, ins, outs)
    BY <1>1, <2>1, TurnAtRest, TurnWaits, TurnWritesEarly, TurnCollides DEF Settles
  <2>2. CASE Begins(p, ins, outs)
    BY <1>1, <2>2, TurnBegins
  <2>3. CASE Shifts(p, ins, outs)
    BY <1>1, <2>3, TurnShifts
  <2>4. CASE Starts(p, ins, outs)
    BY <1>1, <2>4, TurnStarts
  <2>5. CASE Sends(p, ins, outs)
    BY <1>1, <2>5, TurnSends, TurnReceives DEF Sends
  <2> QED
    BY <2>1, <2>2, <2>3, <2>4, <2>5 DEF Carrying, ByAssist
<1> QED
  BY <1>1, <1>2, <1>4, <1>5 DEF Carrying, ByTurn, Reaches, ByAssist

\* All fields but the interrupts.
OnlyIrqs(p, q) ==
    /\ q.lines = p.lines /\ q.ext = p.ext /\ q.gin = p.gin /\ q.gout = p.gout
    /\ q.gsend = p.gsend /\ q.ain = p.ain /\ q.ainbits = p.ainbits /\ q.aout = p.aout
    /\ q.flags = p.flags /\ q.mode = p.mode /\ q.stop = p.stop

\* dbus_update() is its loop, and the interrupts.
LEMMA UpdateIs ==
    ASSUME NEW p, GoodPort(p)
    PROVE  OnlyIrqs(Loop(p)[MostTurns].at, Update(p))
<1> DEFINE q == Loop(p)[MostTurns].at
<1>1. q \in PortRecord
  BY LoopGood, FieldTypes, WidthAssumption DEF MostTurns
<1>2. \E i : Update(p) = [q EXCEPT !.irq = i]
  BY DEF Update, UpdateIrqs
<1> HIDE DEF q
<1>3. OnlyIrqs(q, Update(p))
  BY <1>1, <1>2 DEF PortRecord, OnlyIrqs
<1> QED
  BY <1>3 DEF q

\* dbus_update() carries the bytes on, for as many turns as it makes.
LEMMA UpdateCarries ==
    ASSUME NEW p, NEW ins \in Seq(Byte), NEW outs \in Seq(Byte), Carrying(p, ins, outs)
    PROVE  /\ Settles(Update(p), ins, outs) /\ Update(p).mode = {"ASSIST"}
           /\ "ERROR" \notin Update(p).stop
<1> DEFINE at(j) == Loop(p)[j].at
           Good(j) == /\ Carrying(at(j), ins, outs)
                      /\ Loop(p)[j].rests => Settles(at(j), ins, outs)
           S == {j \in Nat : j <= MostTurns => Good(j)}
<1>0. MostTurns \in Nat
  BY WidthAssumption DEF MostTurns
<1>1. 0 \in S
  <2>1. at(0) = p /\ ~Loop(p)[0].rests
    <3>1. Loop(p)[0] = [at |-> p, rests |-> FALSE]
      BY LoopIs, Zenon
    <3> QED
      BY <3>1
  <2> QED
    BY <2>1
<1>2. ASSUME NEW j \in Nat, j \in S PROVE j + 1 \in S
  <2> SUFFICES ASSUME j + 1 <= MostTurns PROVE Good(j + 1)
    OBVIOUS
  <2>1. Good(j)
    BY <1>0, <1>2
  <2>2. j + 1 \in 1..MostTurns /\ (j + 1) - 1 = j
    BY <1>0
  <2>3. Loop(p)[j + 1] = IF Loop(p)[j].rests THEN Loop(p)[j] ELSE Turn(at(j))
    BY <2>2, LoopIs
  <2>4. /\ Carrying(Turn(at(j)).at, ins, outs)
        /\ Turn(at(j)).rests => Settles(Turn(at(j)).at, ins, outs)
    BY <2>1, TurnCarries
  <2> QED
    BY <2>1, <2>3, <2>4
<1>3. Nat \subseteq S
  <2> HIDE DEF S
  <2> QED
    BY <1>1, <1>2, Induct
<1>4. Good(MostTurns)
  BY <1>0, <1>3
<1>5. Loop(p)[MostTurns].rests
  BY UpdateEnds DEF Carrying
<1> DEFINE q == at(MostTurns)
           u == Update(p)
<1>6. OnlyIrqs(q, u)
  BY UpdateIs DEF Carrying
<1>7. Settles(q, ins, outs) /\ q.mode = {"ASSIST"} /\ "ERROR" \notin q.stop
  BY <1>4, <1>5 DEF Carrying, ByAssist
<1> HIDE DEF q, u, at
<1>8. Settles(u, ins, outs)
  BY <1>6, <1>7 DEF OnlyIrqs, Settles, AtRest, Waits, WritesEarly, Collides, Kept, KeptBefore,
                    Quiet, Pulls, Takes, Gives, HasByte, Reads, Writes
<1> QED
  BY <1>6, <1>7, <1>8 DEF OnlyIrqs, u

-----------------------------------------------------------------------------
(* Each call that the bridge makes, of a port whose program uses the       *)
(* assist.                                                                 *)

\* The port as the program finds it, with the bytes on their way.
Found(p, ins, outs) ==
    /\ PortInv(p) /\ p.mode = {"ASSIST"} /\ "ERROR" \notin p.stop
    /\ Settles(p, ins, outs)

\* The same, of a port whose program uses the assist.
LEMMA AssistUpdate ==
    ASSUME NEW p, NEW ins \in Seq(Byte), NEW outs \in Seq(Byte), Carrying(p, ins, outs)
    PROVE  Found(Update(p), ins, outs)
  BY UpdateCarries, UpdateKeeps DEF Carrying, Found

\* All fields but the stop reasons.
LEMMA NoStopIs ==
    ASSUME NEW p, PortInv(p)
    PROVE  /\ PortInv(NoStop(p)) /\ NoStop(p).stop = {}
           /\ NoStop(p).lines = p.lines /\ NoStop(p).ext = p.ext /\ NoStop(p).gin = p.gin
           /\ NoStop(p).gout = p.gout /\ NoStop(p).gsend = p.gsend /\ NoStop(p).ain = p.ain
           /\ NoStop(p).ainbits = p.ainbits /\ NoStop(p).aout = p.aout
           /\ NoStop(p).flags = p.flags /\ NoStop(p).mode = p.mode
<1>1. PortInv(NoStop(p))
  BY NoStopKeeps DEF NoStop
<1>2. p \in PortRecord
  BY FieldTypes DEF PortInv
<1> QED
  BY <1>1, <1>2 DEF NoStop, PortRecord

\* Clearing the stop reasons moves no byte of the assist's.
LEMMA AssistNoStop ==
    ASSUME NEW p, NEW ins, NEW outs, Found(p, ins, outs)
    PROVE  Found(NoStop(p), ins, outs)
<1> DEFINE q == NoStop(p)
<1>1. PortInv(q) /\ q.stop = {} /\ q.lines = p.lines /\ q.ext = p.ext /\ q.gin = p.gin
      /\ q.gout = p.gout /\ q.gsend = p.gsend /\ q.ain = p.ain
      /\ q.ainbits = p.ainbits /\ q.aout = p.aout /\ q.flags = p.flags /\ q.mode = p.mode
  BY NoStopIs DEF Found
<1> HIDE DEF q
<1>2. Settles(q, ins, outs)
  BY <1>1 DEF Found, Settles, AtRest, Waits, WritesEarly, Collides, Kept, KeptBefore,
              Quiet, Pulls, Takes, Gives, HasByte, Reads, Writes
<1> QED
  BY <1>1, <1>2 DEF Found, q

\* What the gray link makes of a byte it is given.
LEMMA Given ==
    ASSUME NEW p, PortInv(p), GrayReady(p), NEW b \in Byte
    PROVE  \E q : /\ GraySend(p, b) = Update(q) /\ GoodPort(q)
                  /\ q.gout = b /\ q.gsend /\ q.ext = 0 /\ q.lines = p.lines /\ q.gin = <<>>
                  /\ q.ain = p.ain /\ q.ainbits = p.ainbits /\ q.aout = p.aout
                  /\ q.flags = p.flags /\ q.mode = p.mode /\ q.stop = p.stop
<1> DEFINE e == SetExt(p, 0)
           q == [e EXCEPT !.gout = b, !.gsend = TRUE]
<1>1. GoodPort(e) /\ e.gin = <<>> /\ e.ext = 0 /\ OnlyExt(p, e)
  BY ExtSet, Lines DEF PortInv, GrayReady, OnlyExt
<1>2. GraySend(p, b) = Update(q)
  BY DEF GraySend
<1> HIDE DEF e
<1>3. b \in Seq({0, 1}) /\ Len(b) <= Width
  BY ByteAssumption, WidthAssumption
<1>4. GoodPort(q)
  BY <1>1, <1>3 DEF GoodPort, Steady, Counted, Timely, PortType, PortRecord
<1>5. e \in PortRecord
  BY <1>1, FieldTypes
<1>6. /\ q.gout = b /\ q.gsend /\ q.ext = e.ext /\ q.lines = e.lines /\ q.gin = e.gin
      /\ q.ain = e.ain /\ q.ainbits = e.ainbits /\ q.aout = e.aout
      /\ q.flags = e.flags /\ q.mode = e.mode /\ q.stop = e.stop
  BY <1>5 DEF PortRecord
<1> HIDE DEF q
<1> QED
  BY <1>1, <1>2, <1>4, <1>6 DEF OnlyExt

\* Sequences of one and two elements.
LEMMA ShortSequences ==
    \A x, y : /\ Append(<<>>, x) = <<x>> /\ Append(<<x>>, y) = <<x, y>>
             /\ <<x>> # <<>> /\ Head(<<x>>) = x /\ Tail(<<x>>) = <<>>
             /\ <<x, y>> # <<>> /\ Head(<<x, y>>) = x /\ Tail(<<x, y>>) = <<y>>
<1>1. \A x : Append(<<>>, x) = <<x>>
  OBVIOUS
<1>4. ASSUME NEW x, NEW y PROVE Append(<<x>>, y) = <<x, y>>
  <2> DEFINE a == Append(<<x>>, y)
             c == <<x, y>>
  <2>1. <<x>> \in Seq({x, y}) /\ c \in Seq({x, y}) /\ Len(<<x>>) = 1 /\ Len(c) = 2
        /\ <<x>>[1] = x /\ c[1] = x /\ c[2] = y
    OBVIOUS
  <2>2. /\ a \in Seq({x, y}) /\ Len(a) = Len(<<x>>) + 1
        /\ \A i \in 1..Len(<<x>>) : a[i] = <<x>>[i]
        /\ a[Len(<<x>>) + 1] = y
    BY <2>1, AppendProperties
  <2> HIDE DEF a, c
  <2>3. Len(a) = 2 /\ a[1] = x /\ a[2] = y
    BY <2>1, <2>2
  <2>4. \A i \in 1..2 : i = 1 \/ i = 2
    OBVIOUS
  <2>5. a = c
    BY <2>1, <2>2, <2>3, <2>4, SeqEqual
  <2> QED
    BY <2>5 DEF a, c
<1>2. \A x : <<x>> # <<>> /\ Head(<<x>>) = x /\ Tail(<<x>>) = <<>>
  OBVIOUS
<1>3. \A x, y : <<x, y>> # <<>> /\ Head(<<x, y>>) = x /\ Tail(<<x, y>>) = <<y>>
  OBVIOUS
<1> QED
  BY <1>1, <1>2, <1>3, <1>4

\* A byte that is given to the gray link is the last of those on their way.
LEMMA AssistGiven ==
    ASSUME NEW p, NEW ins \in Seq(Byte), NEW outs \in Seq(Byte), Found(p, ins, outs),
           GrayReady(p), NEW b \in Byte
    PROVE  Found(GraySend(p, b), Append(ins, b), outs)
<1>1. PICK q : /\ GraySend(p, b) = Update(q) /\ GoodPort(q)
               /\ q.gout = b /\ q.gsend /\ q.ext = 0 /\ q.lines = p.lines /\ q.gin = <<>>
               /\ q.ain = p.ain /\ q.ainbits = p.ainbits /\ q.aout = p.aout
               /\ q.flags = p.flags /\ q.mode = p.mode /\ q.stop = p.stop
  BY Given DEF Found
<1>2. Append(ins, b) \in Seq(Byte)
  BY AppendProperties
<1>3. /\ Width > 0 /\ Len(<<>>) = 0 /\ Width \in Nat
      /\ b \in Seq({0, 1})
  BY WidthAssumption, BitSequences, ByteAssumption
<1>4. ~p.gsend /\ p.gin = <<>> /\ Len(p.gin) # Width
  BY <1>3 DEF GrayReady
<1> DEFINE more == Append(ins, b)
<1>8. (ins = <<>> => more = <<b>>) /\ \A x : ins = <<x>> => more = <<x, b>>
  BY ShortSequences, Zenon
<1> HIDE DEF more
<1>5. CASE AtRest(p, ins, outs)
  <2>1. Quiet(q) /\ Takes(q) /\ outs = <<>>
    BY <1>1, <1>4, <1>5 DEF AtRest, Kept, Quiet, Takes
  <2>2. ASSUME HasByte(p) /\ ins = <<p.ain>> PROVE Begins(q, more, outs)
    <3>1. more = <<q.ain, q.gout>>
      <4>1. more = <<p.ain, b>>
        BY <1>8, <2>2, Zenon
      <4> QED
        BY <1>1, <4>1, Zenon
    <3>2. HasByte(q)
      BY <1>1, <2>2 DEF HasByte
    <3> QED
      BY <2>1, <3>1, <3>2, Zenon DEF Begins
  <2>3. ASSUME Reads(p) /\ p.ainbits = 0 /\ ins = <<>> PROVE Begins(q, more, outs)
    <3>1. Received(q) = <<>>
      BY <1>1, <2>3, ReceivedIs
    <3>2. Received(q) \o q.gout = b
      BY <1>1, <1>3, <3>1, ConcatEmptySeq
    <3>3. more = <<Received(q) \o q.gout>>
      BY <1>8, <2>3, <3>2, Zenon
    <3>4. Reads(q)
      BY <1>1, <2>3 DEF Reads
    <3> QED
      BY <2>1, <3>3, <3>4, Zenon DEF Begins
  <2>4. Begins(q, more, outs)
    BY <1>5, <2>2, <2>3 DEF AtRest
  <2>5. Carrying(q, more, outs)
    BY <1>1, <2>4 DEF Carrying, ByAssist, Found
  <2> QED
    BY <1>1, <1>2, <2>5, AssistUpdate DEF more
<1>6. CASE WritesEarly(p, ins, outs)
  <2>1. Writes(q) /\ Pulls(q) /\ Takes(q) /\ more = <<q.gout>>
    BY <1>1, <1>6, <1>8 DEF WritesEarly, Writes, Pulls, Takes
  <2>2. outs = <<<<Bit(q.lines)>> \o q.aout>>
    BY <1>1, <1>4, <1>6 DEF WritesEarly, KeptBefore
  <2>3. Collides(q, more, outs)
    BY <1>1, <2>1, <2>2 DEF Collides
  <2>4. Carrying(q, more, outs)
    BY <1>1, <2>3 DEF Carrying, ByAssist, Settles, Found
  <2> QED
    BY <1>1, <1>2, <2>4, AssistUpdate DEF more
<1>7. ~Waits(p, ins, outs) /\ ~Collides(p, ins, outs)
  BY <1>4 DEF Waits, Collides, Takes
<1> QED
  BY <1>5, <1>6, <1>7 DEF Found, Settles

\* Calc::run fetches a byte.



\* The byte that is fetched from the gray link is the first of those it holds.
LEMMA AssistFetched ==
    ASSUME NEW p, NEW ins \in Seq(Byte), NEW outs \in Seq(Byte), Found(p, ins, outs)
    PROVE  /\ ~GrayGetHas(p) => Found(GrayGet(p), ins, outs)
           /\ GrayGetHas(p) => /\ outs # <<>> /\ Head(outs) = GrayGetByte(p)
                               /\ Found(GrayGet(p), ins, Tail(outs))
<1> DEFINE q == Update(p)
           r == [q EXCEPT !.gin = <<>>]
<1>0. Found(q, ins, outs)
  BY AssistUpdate DEF Found, Carrying, ByAssist, PortInv
<1>1. /\ GrayGet(p) = IF Len(q.gin) = Width THEN r ELSE q
      /\ GrayGetHas(p) <=> Len(q.gin) = Width
      /\ GrayGetByte(p) = q.gin
  BY DEF GrayGet, GrayGetHas, GrayGetByte
<1>2. PortInv(GrayGet(p))
  BY GrayGetKeeps DEF Found
<1> HIDE DEF q
<1> SUFFICES ASSUME Len(q.gin) = Width
             PROVE  /\ outs # <<>> /\ Head(outs) = q.gin
                    /\ Found(r, ins, Tail(outs))
  BY <1>0, <1>1
<1>3. q \in PortRecord
  BY <1>0, FieldTypes DEF Found, PortInv
<1>4. /\ r.gin = <<>> /\ r.lines = q.lines /\ r.ext = q.ext /\ r.gout = q.gout
      /\ r.gsend = q.gsend /\ r.ain = q.ain /\ r.ainbits = q.ainbits /\ r.aout = q.aout
      /\ r.flags = q.flags /\ r.mode = q.mode /\ r.stop = q.stop
  BY <1>3 DEF PortRecord
<1>5. PortInv(r)
  BY <1>1, <1>2
<1> HIDE DEF r
<1>6. q.gin # <<>>
  BY WidthAssumption, BitSequences
<1>7. CASE AtRest(q, ins, outs)
  <2>1. outs = <<q.gin>>
    BY <1>6, <1>7 DEF AtRest, Kept
  <2>2. outs # <<>> /\ Head(outs) = q.gin /\ Tail(outs) = <<>>
    BY <2>1
  <2>3. AtRest(r, ins, <<>>)
    BY <1>4, <1>7 DEF AtRest, Kept, Quiet, Gives, HasByte, Reads
  <2> QED
    BY <1>0, <1>4, <1>5, <2>2, <2>3 DEF Found, Settles
<1>8. CASE WritesEarly(q, ins, outs)
  <2> DEFINE b == <<Bit(q.lines)>> \o q.aout
  <2>1. outs = <<q.gin, b>>
    BY <1>6, <1>8 DEF WritesEarly, KeptBefore
  <2>2. KeptBefore(r, <<Bit(r.lines)>> \o r.aout, <<b>>)
    BY <1>4 DEF KeptBefore
  <2> HIDE DEF b
  <2>3. outs # <<>> /\ Head(outs) = q.gin /\ Tail(outs) = <<b>>
    BY <2>1
  <2>4. WritesEarly(r, ins, <<b>>)
    BY <1>4, <1>8, <2>2 DEF WritesEarly, Writes, Pulls, Gives
  <2> QED
    BY <1>0, <1>4, <1>5, <2>3, <2>4 DEF Found, Settles
<1>9. ~Waits(q, ins, outs) /\ ~Collides(q, ins, outs)
  BY <1>6 DEF Waits, Collides, Takes
<1> QED
  BY <1>0, <1>7, <1>8, <1>9 DEF Found, Settles

\* The byte that the program reads is the first of those on their way to it.
LEMMA AssistHeard ==
    ASSUME NEW p, NEW ins \in Seq(Byte), NEW outs \in Seq(Byte), Found(p, ins, outs),
           "READ_BYTE" \in p.flags
    PROVE  ins # <<>> /\ Head(ins) = p.ain /\ Found(ReadByte(p), Tail(ins), outs)
<1> DEFINE q == [p EXCEPT !.flags = @ \ {"READ_BYTE", "READ_BUSY"}, !.ainbits = 0]
<1>1. p \in PortRecord /\ GoodPort(p) /\ 0 < Width /\ 0 \in 0..Width
  BY FieldTypes, WidthAssumption DEF Found, PortInv
<1>2. /\ q.ainbits = 0 /\ q.flags = p.flags \ {"READ_BYTE", "READ_BUSY"}
      /\ q.lines = p.lines /\ q.ext = p.ext /\ q.gin = p.gin /\ q.gout = p.gout
      /\ q.gsend = p.gsend /\ q.ain = p.ain /\ q.aout = p.aout /\ q.mode = p.mode
      /\ q.stop = p.stop /\ q.timer = p.timer
  BY <1>1 DEF PortRecord
<1>3. q \in PortRecord
  BY <1>1 DEF PortRecord
<1>4. ReadByte(p) = Update(q)
  BY DEF ReadByte
<1> HIDE DEF q
<1>5. GoodPort(q)
  BY <1>1, <1>2, <1>3 DEF GoodPort, Steady, Counted, Timely, PortType
<1>6. Received(q) = <<>>
  BY <1>2, <1>5, ReceivedIs
<1>7. CASE AtRest(p, ins, outs)
  <2>1. HasByte(p) /\ ins = <<p.ain>>
    BY <1>7 DEF AtRest, Reads
  <2>2. AtRest(q, <<>>, outs)
    BY <1>2, <1>7, <2>1 DEF AtRest, HasByte, Reads, Quiet, Gives, Kept
  <2>3. Carrying(q, <<>>, outs)
    BY <1>2, <1>5, <2>2 DEF Carrying, ByAssist, Settles, Found
  <2>4. ins # <<>> /\ Head(ins) = p.ain /\ Tail(ins) = <<>> /\ <<>> \in Seq(Byte)
    BY <2>1, ShortSequences, EmptySeq
  <2> QED
    BY <1>4, <2>3, <2>4, AssistUpdate
<1>8. CASE Waits(p, ins, outs)
  <2> DEFINE b == <<Bit(p.ext)>> \o p.gout
  <2>1. ins = <<p.ain, b>>
    BY <1>8 DEF Waits
  <2>2. Append(Received(q), Bit(q.ext)) \o q.gout = b
    <3>1. Append(<<>>, Bit(q.ext)) = <<Bit(q.ext)>>
      BY ShortSequences
    <3> QED
      BY <1>2, <1>6, <3>1
  <2> HIDE DEF b
  <2>3. /\ ins # <<>> /\ Head(ins) = p.ain /\ Tail(ins) = <<b>>
        /\ p.ain \in Byte /\ b \in Byte
    BY <2>1, ShortSequences, TwoBytesOf
  <2>4. <<b>> \in Seq(Byte)
    BY <2>3
  <2>5. Reads(q) /\ Takes(q)
    BY <1>2, <1>8 DEF Waits, HasByte, Reads, Takes
  <2>6. Shifts(q, <<b>>, outs)
    BY <1>2, <1>8, <2>2, <2>5 DEF Waits, Shifts
  <2>7. Carrying(q, <<b>>, outs)
    BY <1>2, <1>5, <2>6 DEF Carrying, ByAssist, Found
  <2> QED
    BY <1>4, <2>3, <2>4, <2>7, AssistUpdate
<1>9. ~WritesEarly(p, ins, outs) /\ ~Collides(p, ins, outs)
  BY DEF WritesEarly, Collides, Writes
<1> QED
  BY <1>7, <1>8, <1>9 DEF Found, Settles

\* The byte that the program writes is the last of those on their way to the host.
LEMMA AssistSaid ==
    ASSUME NEW p, NEW ins \in Seq(Byte), NEW outs \in Seq(Byte), Found(p, ins, outs),
           p.flags \cap {"READ_BYTE", "READ_BUSY", "WRITE_BUSY"} = {}, NEW b \in Byte
    PROVE  Found(WriteByte(p, b), ins, Append(outs, b))
<1> DEFINE s == SetLines(p, 0)
           q == [s EXCEPT !.aout = b, !.flags = @ \cup {"WRITE_BUSY"}]
<1>0. "READ_BYTE" \notin p.flags /\ "READ_BUSY" \notin p.flags /\ "WRITE_BUSY" \notin p.flags
  OBVIOUS
<1>1. p \in PortRecord /\ GoodPort(p)
  BY FieldTypes DEF Found, PortInv
<1>2. GoodPort(s) /\ s \in PortRecord
  BY <1>0, <1>1, LinesSet, Lines, FieldTypes
<1>3. /\ s.lines = 0 /\ s.ext = p.ext /\ s.gin = p.gin /\ s.gout = p.gout
      /\ s.gsend = p.gsend /\ s.ain = p.ain /\ s.ainbits = p.ainbits /\ s.aout = p.aout
      /\ s.mode = p.mode /\ s.stop = p.stop /\ s.flags = p.flags
  BY <1>1 DEF SetLines, PortRecord
<1>4. b \in Seq({0, 1}) /\ Len(b) <= Width
  BY ByteAssumption, WidthAssumption
<1>5. WriteByte(p, b) = Update(q)
  <2>1. p.flags \cap {"READ_BUSY", "WRITE_BUSY"} = {}
    BY <1>0
  <2> QED
    BY <2>1 DEF WriteByte
<1> HIDE DEF s
<1>6. GoodPort(q)
  BY <1>0, <1>2, <1>3, <1>4 DEF GoodPort, Steady, Counted, Timely, PortType, PortRecord, AllFlags
<1>7. /\ q.lines = 0 /\ q.ext = p.ext /\ q.gin = p.gin /\ q.gout = p.gout
      /\ q.gsend = p.gsend /\ q.ain = p.ain /\ q.ainbits = p.ainbits /\ q.aout = b
      /\ q.mode = p.mode /\ q.stop = p.stop /\ q.flags = p.flags \cup {"WRITE_BUSY"}
  BY <1>2, <1>3 DEF PortRecord
<1> HIDE DEF q
<1> DEFINE more == Append(outs, b)
<1>8. (outs = <<>> => more = <<b>>) /\ \A x : outs = <<x>> => more = <<x, b>>
  BY ShortSequences, Zenon
<1>9. more \in Seq(Byte)
  BY AppendProperties
<1> HIDE DEF more
<1>10. AtRest(p, ins, outs)
  BY <1>0 DEF Found, Settles, Waits, WritesEarly, Collides, HasByte, Writes
<1>11. Reads(p) /\ p.ainbits = 0 /\ ins = <<>> /\ Quiet(p) /\ Gives(p) /\ Kept(p, outs)
  BY <1>0, <1>10 DEF AtRest, HasByte
<1>12. KeptBefore(q, q.aout, more)
  <2>1. CASE p.gin = <<>> /\ outs = <<>>
    BY <1>7, <1>8, <2>1 DEF KeptBefore
  <2>2. CASE Len(p.gin) = Width /\ outs = <<p.gin>>
    <3>1. more = <<q.gin, q.aout>>
      BY <1>7, <1>8, <2>2
    <3> QED
      BY <1>7, <2>2, <3>1 DEF KeptBefore
  <2> QED
    BY <1>11, <2>1, <2>2 DEF Kept
<1>13. Writes(q) /\ Quiet(q) /\ Gives(q)
  BY <1>0, <1>7, <1>11 DEF Writes, Quiet, Gives
<1>14. Starts(q, ins, more)
  BY <1>11, <1>12, <1>13 DEF Starts
<1>15. Carrying(q, ins, more)
  BY <1>6, <1>7, <1>14 DEF Carrying, ByAssist, Found
<1> QED
  BY <1>5, <1>9, <1>15, AssistUpdate DEF more

-----------------------------------------------------------------------------
(* The same of a program that drives the lines itself: an update is one    *)
(* turn of the gray link.                                                  *)

Answers(p, u) == \E g : GrayDone(p, g) /\ OnlyIrqs(g, u)

\* Without the assist dbus_update() is a turn of the gray link.
LEMMA HandUpdate ==
    ASSUME NEW p, GoodPort(p), p.mode = {}, p.flags = {}
    PROVE  /\ PortInv(Update(p)) /\ Answers(p, Update(p))
           /\ Update(p).mode = {} /\ Update(p).flags = {} /\ Update(p).lines = p.lines
           /\ "ERROR" \in Update(p).stop => "ERROR" \in p.stop \/ p.lines = 3
<1> DEFINE g == Gray(p)
           S == {j \in Nat : j + 1 <= MostTurns => Loop(p)[j + 1] = [at |-> g, rests |-> TRUE]}
<1>0. MostTurns \in Nat /\ 1 <= MostTurns
  BY WidthAssumption DEF MostTurns
<1>1. GrayDone(p, g) /\ g.mode = {} /\ g.flags = {} /\ g.lines = p.lines
  BY GrayDoes DEF GrayDone
<1>2. Turn(p) = [at |-> g, rests |-> TRUE]
  <2>1. Assist(g) = g
    BY <1>1 DEF Assist
  <2> HIDE DEF g
  <2>2. Turn(p) = [at |-> Assist(g), rests |-> Assist(g).lines = g.lines]
    BY DEF Turn, g
  <2> QED
    BY <2>1, <2>2
<1>3. 0 \in S
  <2>1. Loop(p)[0] = [at |-> p, rests |-> FALSE]
    BY LoopIs, Zenon
  <2>2. ~Loop(p)[0].rests /\ Loop(p)[0].at = p
    BY <2>1
  <2>3. 1 \in 1..MostTurns /\ 1 - 1 = 0
    BY <1>0
  <2>4. Loop(p)[1] = IF Loop(p)[0].rests THEN Loop(p)[0] ELSE Turn(Loop(p)[0].at)
    BY <2>3, LoopIs
  <2>5. Loop(p)[1] = [at |-> g, rests |-> TRUE]
    BY <1>2, <2>2, <2>4, Zenon
  <2> HIDE DEF g
  <2>6. 0 + 1 = 1
    OBVIOUS
  <2> QED
    BY <2>5, <2>6
<1>4. ASSUME NEW j \in Nat, j \in S PROVE j + 1 \in S
  <2> HIDE DEF g
  <2> DEFINE n == j + 1
  <2> SUFFICES ASSUME n + 1 <= MostTurns PROVE Loop(p)[n + 1] = [at |-> g, rests |-> TRUE]
    OBVIOUS
  <2>1. Loop(p)[n] = [at |-> g, rests |-> TRUE]
    BY <1>0, <1>4
  <2>2. n + 1 \in 1..MostTurns /\ (n + 1) - 1 = n
    BY <1>0
  <2> HIDE DEF n
  <2>3. Loop(p)[n + 1] = IF Loop(p)[n].rests THEN Loop(p)[n] ELSE Turn(Loop(p)[n].at)
    BY <2>2, LoopIs
  <2>4. Loop(p)[n].rests
    BY <2>1
  <2> QED
    BY <2>1, <2>3, <2>4
<1>5. Nat \subseteq S
  <2> HIDE DEF S
  <2> QED
    BY <1>3, <1>4, Induct
<1>6. Loop(p)[MostTurns].at = g
  <2>1. MostTurns - 1 \in Nat /\ (MostTurns - 1) + 1 = MostTurns
    BY <1>0
  <2> HIDE DEF g
  <2> DEFINE m == MostTurns - 1
  <2>2. m \in S
    BY <1>5, <2>1
  <2>3. Loop(p)[MostTurns] = [at |-> g, rests |-> TRUE]
    BY <1>0, <2>1, <2>2
  <2> QED
    BY <2>3
<1>7. OnlyIrqs(g, Update(p))
  BY <1>6, UpdateIs
<1>8. "ERROR" \in g.stop => "ERROR" \in p.stop \/ p.lines = 3
  BY GrayStops
<1> HIDE DEF g
<1> QED
  BY <1>1, <1>7, <1>8, UpdateKeeps DEF Answers, OnlyIrqs

\* The port and the program at c, with the bits it has received and has still to send.
Handled(p, c, r, t, ins, outs) ==
    /\ PortInv(p) /\ ("ERROR" \in p.stop => c = "abort")
    /\ ByHand(p, c, r, t, ins, outs)
    /\ r \in Seq({0, 1}) /\ t \in Seq({0, 1})

\* What the gray link does is a turn from a state of the handshake to the next one.
LEMMA HandNoStop ==
    ASSUME NEW p, NEW c, NEW r, NEW t, NEW ins, NEW outs, Handled(p, c, r, t, ins, outs)
    PROVE  Handled(NoStop(p), c, r, t, ins, outs)
<1> DEFINE q == NoStop(p)
<1>1. PortInv(q) /\ q.stop = {} /\ q.lines = p.lines /\ q.ext = p.ext /\ q.gin = p.gin
      /\ q.gout = p.gout /\ q.gsend = p.gsend /\ q.flags = p.flags /\ q.mode = p.mode
  BY NoStopIs DEF Handled
<1> HIDE DEF q
<1>2. ByHand(q, c, r, t, ins, outs)
  BY <1>1 DEF Handled, ByHand, Rests, Offered, Taken, Puts, PutsEarly, Pauses, Clashes, Aborts,
              Kept, KeptBefore, Quiet, Pulls, Takes, Gives
<1> QED
  BY <1>1, <1>2 DEF Handled, q

\* A dbus_update() in any phase of the handshake carries the bytes on.
LEMMA HandKept ==
    ASSUME NEW p, NEW c, NEW r, NEW t, NEW ins, NEW outs \in Seq(Byte),
           Handled(p, c, r, t, ins, outs)
    PROVE  Handled(Update(p), c, r, t, ins, outs)
<1> SUFFICES ASSUME NEW u, u = Update(p) PROVE Handled(u, c, r, t, ins, outs)
  OBVIOUS
<1>1. GoodPort(p) /\ p.mode = {} /\ p.flags = {}
  BY DEF Handled, PortInv, ByHand
<1>2. PortInv(u) /\ Answers(p, u) /\ u.mode = {} /\ u.flags = {} /\ u.lines = p.lines
      /\ ("ERROR" \in u.stop => "ERROR" \in p.stop \/ p.lines = 3)
  BY <1>1, HandUpdate
<1>3. PICK g : GrayDone(p, g) /\ OnlyIrqs(g, u)
  BY <1>2 DEF Answers
<1> DEFINE Same == u.ext = p.ext /\ u.gin = p.gin /\ u.gout = p.gout /\ (u.gsend <=> p.gsend)
           Still(x) == x.ext = p.ext /\ x.gin = p.gin /\ x.gout = p.gout /\ (x.gsend <=> p.gsend)
<1>4. /\ Width \in Nat /\ Width > 0 /\ Len(<<>>) = 0 /\ <<>> \in Seq({0, 1})
      /\ p.gin \in Seq({0, 1}) /\ Len(p.gin) \in Nat
  BY <1>1, FieldTypes, BitSequences
<1>5. "ERROR" \in u.stop => c = "abort"
  <2>1. p.lines = 3 => c = "abort"
    BY DEF Handled, ByHand, Rests, Offered, Taken, Puts, PutsEarly, Pauses, Clashes, Aborts,
           Quiet, Pulls
  <2> QED
    BY <1>2, <2>1 DEF Handled
<1>6. CASE Rests(p, c, r, t, ins, outs)
  <2>1. Same
    <3>1. Still(g)
      <4>1. ~p.gsend /\ p.gout = <<>> /\ p.lines = 0 /\ p.ext = 0 /\ (p.gin = <<>> \/ Len(p.gin) = Width)
        BY <1>4, <1>6, Bits DEF Rests, Quiet, Gives, Kept
      <4> QED
        BY <1>3, <1>4, <4>1 DEF GrayDone
    <3> QED
      BY <1>3, <3>1 DEF OnlyIrqs
  <2>2. Rests(u, c, r, t, ins, outs)
    BY <1>2, <1>6, <2>1 DEF Rests, Quiet, Gives, Kept
  <2> QED
    BY <1>2, <1>5, <2>2 DEF Handled, ByHand
<1>7. CASE Offered(p, c, r, t, ins, outs)
  <2>1. Same
    <3>1. Still(g)
      <4>1. p.gsend /\ p.lines = 0 /\ p.ext \in {1, 2}
        BY <1>4, <1>7, Bits DEF Offered, Takes
      <4> QED
        BY <1>3, <1>4, <4>1 DEF GrayDone
    <3> QED
      BY <1>3, <3>1 DEF OnlyIrqs
  <2>2. Offered(u, c, r, t, ins, outs)
    BY <1>2, <1>7, <2>1 DEF Offered, Takes
  <2> QED
    BY <1>2, <1>5, <2>2 DEF Handled, ByHand
<1>8. CASE Taken(p, c, r, t, ins, outs)
  <2>1. Same
    <3>1. Still(g)
      <4>1. p.gsend /\ p.lines \in {1, 2} /\ p.ext = 0 /\ Opposite(p.lines) # 0
        BY <1>4, <1>8, Bits DEF Taken, Pulls, Takes
      <4> QED
        BY <1>3, <1>4, <4>1 DEF GrayDone
    <3> QED
      BY <1>3, <3>1 DEF OnlyIrqs
  <2>2. Taken(u, c, r, t, ins, outs)
    BY <1>2, <1>8, <2>1 DEF Taken, Pulls, Takes
  <2> QED
    BY <1>2, <1>5, <2>2 DEF Handled, ByHand
<1>9. CASE Puts(p, c, r, t, ins, outs)
  <2>1. Same
    <3>1. Still(g)
      <4>1. ~p.gsend /\ Len(p.gin) # Width /\ p.lines \in {1, 2} /\ p.ext = Opposite(p.lines)
        BY <1>4, <1>9, Bits DEF Puts, Pulls, Gives
      <4> QED
        BY <1>3, <1>4, <4>1 DEF GrayDone
    <3> QED
      BY <1>3, <3>1 DEF OnlyIrqs
  <2>2. Puts(u, c, r, t, ins, outs)
    BY <1>2, <1>9, <2>1 DEF Puts, Pulls, Gives
  <2> QED
    BY <1>2, <1>5, <2>2 DEF Handled, ByHand
<1>10. CASE PutsEarly(p, c, r, t, ins, outs) /\ p.gin = <<>>
  <2>1. /\ u.ext = Opposite(u.lines) /\ u.gin = <<>> /\ u.gout = p.gout /\ (u.gsend <=> p.gsend)
    <3>1. g.ext = Opposite(p.lines) /\ g.gin = <<>> /\ g.gout = p.gout /\ (g.gsend <=> p.gsend)
      <4>1. ~p.gsend /\ Len(p.gin) # Width /\ p.lines \in {1, 2}
        BY <1>4, <1>10 DEF PutsEarly, Pulls, Gives
      <4> QED
        BY <1>3, <1>10, <4>1 DEF GrayDone
    <3> QED
      BY <1>2, <1>3, <3>1 DEF OnlyIrqs
  <2>2. outs = <<<<Bit(p.lines)>> \o t>>
    BY <1>4, <1>10 DEF PutsEarly, KeptBefore
  <2>3. Append(u.gin, Bit(u.lines)) = <<Bit(p.lines)>>
    BY <1>2, <2>1, ShortSequences
  <2>4. outs = <<Append(u.gin, Bit(u.lines)) \o t>>
    BY <2>2, <2>3
  <2>5. Puts(u, c, r, t, ins, outs)
    BY <1>2, <1>4, <1>10, <2>1, <2>4 DEF PutsEarly, Puts, Pulls, Gives
  <2> QED
    BY <1>2, <1>5, <2>5 DEF Handled, ByHand
<1>11. CASE PutsEarly(p, c, r, t, ins, outs) /\ p.gin # <<>>
  <2>1. Len(p.gin) = Width
    BY <1>11 DEF PutsEarly, KeptBefore
  <2>2. Same
    <3>1. Still(g)
      <4>1. ~p.gsend
        BY <1>4, <1>11, Bits DEF PutsEarly, Gives
      <4> QED
        BY <1>3, <1>4, <4>1, <2>1 DEF GrayDone
    <3> QED
      BY <1>3, <3>1 DEF OnlyIrqs
  <2>3. PutsEarly(u, c, r, t, ins, outs)
    BY <1>2, <1>11, <2>2 DEF PutsEarly, Pulls, Gives, KeptBefore
  <2> QED
    BY <1>2, <1>5, <2>3 DEF Handled, ByHand
<1>12. CASE Pauses(p, c, r, t, ins, outs)
  <2>1. Len(p.gin) # Width
    <3>1. Len(p.gin \o t) = Width
      BY <1>12, OneByte DEF Pauses
    <3>2. t # <<>> /\ t \in Seq({0, 1})
      BY <1>12 DEF Pauses, Handled
    <3>3. Width = Len(p.gin) + Len(t)
      BY <1>4, <3>1, <3>2, BitsJoined
    <3> QED
      BY <1>4, <3>2, <3>3, BitSequences
  <2>2. Same
    <3>1. Still(g)
      <4>1. ~p.gsend /\ p.lines = 0 /\ p.ext = 0
        BY <1>4, <1>12, Bits DEF Pauses, Quiet, Gives
      <4> QED
        BY <1>3, <1>4, <4>1, <2>1 DEF GrayDone
    <3> QED
      BY <1>3, <3>1 DEF OnlyIrqs
  <2>3. Pauses(u, c, r, t, ins, outs)
    BY <1>2, <1>12, <2>2 DEF Pauses, Quiet, Gives
  <2> QED
    BY <1>2, <1>5, <2>3 DEF Handled, ByHand
<1>13. CASE Clashes(p, c, r, t, ins, outs)
  <2>1. Same
    <3>1. Still(g)
      <4>1. p.gsend /\ p.lines \in {1, 2} /\ p.ext = 0 /\ Opposite(p.lines) # 0
        BY <1>4, <1>13, Bits DEF Clashes, Pulls, Takes
      <4> QED
        BY <1>3, <1>4, <4>1 DEF GrayDone
    <3> QED
      BY <1>3, <3>1 DEF OnlyIrqs
  <2>2. Clashes(u, c, r, t, ins, outs)
    BY <1>2, <1>13, <2>1 DEF Clashes, Pulls, Takes
  <2> QED
    BY <1>2, <1>5, <2>2 DEF Handled, ByHand
<1>14. CASE Aborts(p, c, r, t, ins, outs)
  <2>1. Same
    <3>1. Still(g)
      <4>1. ~p.gsend /\ p.lines = 3 /\ p.ext = 0 /\ p.gin = <<>>
        BY <1>4, <1>14, Bits DEF Aborts, Gives
      <4> QED
        BY <1>3, <1>4, <4>1 DEF GrayDone
    <3> QED
      BY <1>3, <3>1 DEF OnlyIrqs
  <2>2. Aborts(u, c, r, t, ins, outs)
    BY <1>2, <1>14, <2>1 DEF Aborts, Gives
  <2> QED
    BY <1>2, <1>5, <2>2 DEF Handled, ByHand
<1> QED
  BY <1>6, <1>7, <1>8, <1>9, <1>10, <1>11, <1>12, <1>13, <1>14 DEF Handled, ByHand

\* The gray link is given a byte: an aborted program never sees it.
LEMMA HandGiven ==
    ASSUME NEW p, NEW c, NEW r, NEW t, NEW ins \in Seq(Byte), NEW outs \in Seq(Byte),
           Handled(p, c, r, t, ins, outs), GrayReady(p), NEW b \in Byte
    PROVE  Handled(GraySend(p, b), c, r, t, IF c = "abort" THEN ins ELSE Append(ins, b), outs)
<1> SUFFICES ASSUME NEW u, u = GraySend(p, b)
             PROVE  Handled(u, c, r, t, IF c = "abort" THEN ins ELSE Append(ins, b), outs)
  OBVIOUS
<1>1. PICK q : /\ GraySend(p, b) = Update(q) /\ GoodPort(q)
               /\ q.gout = b /\ q.gsend /\ q.ext = 0 /\ q.lines = p.lines /\ q.gin = <<>>
               /\ q.ain = p.ain /\ q.ainbits = p.ainbits /\ q.aout = p.aout
               /\ q.flags = p.flags /\ q.mode = p.mode /\ q.stop = p.stop
  BY Given DEF Handled
<1>2. p.mode = {} /\ p.flags = {} /\ ~p.gsend /\ p.gin = <<>>
  BY DEF Handled, ByHand, GrayReady
<1>3. PortInv(u) /\ Answers(q, u) /\ u.mode = {} /\ u.flags = {} /\ u.lines = p.lines
      /\ ("ERROR" \in u.stop => "ERROR" \in p.stop \/ p.lines = 3)
  BY <1>1, <1>2, HandUpdate
<1>4. PICK g : GrayDone(q, g) /\ OnlyIrqs(g, u)
  BY <1>3 DEF Answers
<1>5. /\ Width \in Nat /\ Width > 0 /\ Len(<<>>) = 0 /\ b # <<>> /\ b \in Seq({0, 1})
      /\ Head(b) \in {0, 1}
  <2>1. b \in Seq({0, 1}) /\ Len(b) = Width /\ Width > 0 /\ Width \in Nat
    BY ByteAssumption, WidthAssumption
  <2> QED
    BY <2>1, BitSequences
<1> DEFINE more == Append(ins, b)
<1>6. ins = <<>> => more = <<b>>
  BY ShortSequences, Zenon
<1> HIDE DEF more
<1>7. CASE Rests(p, c, r, t, ins, outs)
  <2>1. c = "idle" /\ p.lines = 0 /\ p.ext = 0 /\ r = <<>> /\ t = <<>> /\ ins = <<>>
        /\ outs = <<>>
    BY <1>2, <1>5, <1>7 DEF Rests, Quiet, Kept
  <2>2. u.gsend /\ u.ext = LineOf(Head(b)) /\ u.gout = Tail(b) /\ u.gin = <<>>
    <3>1. g.gsend /\ g.ext = LineOf(Head(b)) /\ g.gout = Tail(b) /\ g.gin = <<>>
      BY <1>1, <1>4, <1>5, <2>1 DEF GrayDone
    <3> QED
      BY <1>4, <3>1 DEF OnlyIrqs
  <2>3. u.ext \in {1, 2} /\ Bit(u.ext) = Head(b)
    BY <1>5, <2>2, Bits
  <2>4. Append(r, Bit(u.ext)) \o u.gout = b
    <3>1. Append(r, Bit(u.ext)) = <<Head(b)>>
      BY <2>1, <2>3, ShortSequences
    <3>2. <<Head(b)>> \o Tail(b) = b
      BY <1>5, BitsJoined
    <3> QED
      BY <2>2, <3>1, <3>2
  <2>5. more = <<Append(r, Bit(u.ext)) \o u.gout>>
    BY <1>6, <2>1, <2>4
  <2>6. Offered(u, c, r, t, more, outs)
    BY <1>3, <2>1, <2>2, <2>3, <2>5 DEF Offered, Takes
  <2>7. c # "abort" /\ ("ERROR" \in u.stop => c = "abort")
    BY <1>3, <2>1 DEF Handled
  <2> QED
    BY <1>3, <2>6, <2>7 DEF Handled, ByHand, more
<1>8. ASSUME c = "put", Pulls(p), r = <<>>, ins = <<>>, outs = <<<<Bit(p.lines)>> \o t>>
      PROVE  Handled(u, c, r, t, IF c = "abort" THEN ins ELSE Append(ins, b), outs)
  <2>1. g = q
    <3>1. q.lines \in {1, 2} /\ Opposite(q.lines) # 0
      BY <1>1, <1>8, Bits DEF Pulls
    <3> QED
      BY <1>1, <1>4, <3>1 DEF GrayDone
  <2>2. u.gsend /\ u.ext = 0 /\ u.gout = b /\ u.gin = <<>>
    BY <1>1, <1>4, <2>1 DEF OnlyIrqs
  <2>3. more = <<u.gout>>
    BY <1>6, <1>8, <2>2
  <2>4. Clashes(u, c, r, t, more, outs)
    BY <1>3, <1>8, <2>2, <2>3 DEF Clashes, Takes, Pulls
  <2>5. c # "abort" /\ ("ERROR" \in u.stop => c = "abort")
    BY <1>3, <1>8 DEF Handled, Pulls
  <2> QED
    BY <1>3, <2>4, <2>5 DEF Handled, ByHand, more
<1>9. CASE Puts(p, c, r, t, ins, outs)
  <2>1. Append(p.gin, Bit(p.lines)) = <<Bit(p.lines)>>
    BY <1>2, ShortSequences
  <2>2. outs = <<<<Bit(p.lines)>> \o t>>
    BY <1>9, <2>1 DEF Puts
  <2> QED
    BY <1>8, <1>9, <2>2 DEF Puts
<1>10. CASE PutsEarly(p, c, r, t, ins, outs)
  <2>1. outs = <<<<Bit(p.lines)>> \o t>>
    BY <1>2, <1>5, <1>10 DEF PutsEarly, KeptBefore
  <2> QED
    BY <1>8, <1>10, <2>1 DEF PutsEarly
<1>11. CASE Aborts(p, c, r, t, ins, outs)
  <2>1. c = "abort" /\ p.lines = 3
    BY <1>11 DEF Aborts
  <2>2. ~u.gsend /\ u.ext = 0 /\ u.gout = <<>> /\ u.gin = <<>>
    <3>1. ~g.gsend /\ g.ext = 0 /\ g.gout = <<>> /\ g.gin = <<>>
      BY <1>1, <1>4, <2>1 DEF GrayDone
    <3> QED
      BY <1>4, <3>1 DEF OnlyIrqs
  <2>3. Aborts(u, c, r, t, ins, outs)
    BY <1>3, <1>11, <2>2 DEF Aborts, Gives
  <2> QED
    BY <1>3, <2>1, <2>3 DEF Handled, ByHand
<1>12. /\ ~Offered(p, c, r, t, ins, outs) /\ ~Taken(p, c, r, t, ins, outs)
       /\ ~Pauses(p, c, r, t, ins, outs) /\ ~Clashes(p, c, r, t, ins, outs)
  BY <1>2 DEF Offered, Taken, Pauses, Clashes, Takes
<1> QED
  BY <1>7, <1>9, <1>10, <1>11, <1>12 DEF Handled, ByHand

\* The byte that is fetched is the first of those on their way to the host.
LEMMA HandFetched ==
    ASSUME NEW p, NEW c, NEW r, NEW t, NEW ins, NEW outs \in Seq(Byte),
           Handled(p, c, r, t, ins, outs)
    PROVE  /\ ~GrayGetHas(p) => Handled(GrayGet(p), c, r, t, ins, outs)
           /\ GrayGetHas(p) => /\ outs # <<>> /\ Head(outs) = GrayGetByte(p)
                               /\ Handled(GrayGet(p), c, r, t, ins, Tail(outs))
<1> DEFINE q == Update(p)
           e == [q EXCEPT !.gin = <<>>]
<1>0. Handled(q, c, r, t, ins, outs)
  BY HandKept
<1>1. /\ GrayGet(p) = IF Len(q.gin) = Width THEN e ELSE q
      /\ GrayGetHas(p) <=> Len(q.gin) = Width
      /\ GrayGetByte(p) = q.gin
  BY DEF GrayGet, GrayGetHas, GrayGetByte
<1>2. PortInv(GrayGet(p))
  BY GrayGetKeeps DEF Handled
<1> HIDE DEF q
<1> SUFFICES ASSUME Len(q.gin) = Width
             PROVE  /\ outs # <<>> /\ Head(outs) = q.gin
                    /\ Handled(e, c, r, t, ins, Tail(outs))
  BY <1>0, <1>1
<1>3. q \in PortRecord
  BY <1>0, FieldTypes DEF Handled, PortInv
<1>4. /\ e.gin = <<>> /\ e.lines = q.lines /\ e.ext = q.ext /\ e.gout = q.gout
      /\ e.gsend = q.gsend /\ e.flags = q.flags /\ e.mode = q.mode /\ e.stop = q.stop
  BY <1>3 DEF PortRecord
<1>5. PortInv(e)
  BY <1>1, <1>2
<1> HIDE DEF e
<1>6. q.gin # <<>> /\ Width \in Nat /\ ~(Len(q.gin) < Width)
  BY WidthAssumption, BitSequences
<1>7. CASE Rests(q, c, r, t, ins, outs)
  <2>1. outs = <<q.gin>>
    BY <1>6, <1>7 DEF Rests, Kept
  <2>2. outs # <<>> /\ Head(outs) = q.gin /\ Tail(outs) = <<>>
    BY <2>1, ShortSequences
  <2>3. Rests(e, c, r, t, ins, <<>>)
    BY <1>4, <1>7 DEF Rests, Kept, Quiet, Gives
  <2> QED
    BY <1>0, <1>4, <1>5, <2>2, <2>3 DEF Handled, ByHand
<1>8. CASE PutsEarly(q, c, r, t, ins, outs)
  <2> DEFINE b == <<Bit(q.lines)>> \o t
  <2>1. outs = <<q.gin, b>>
    BY <1>6, <1>8 DEF PutsEarly, KeptBefore
  <2>2. KeptBefore(e, <<Bit(e.lines)>> \o t, <<b>>)
    BY <1>4 DEF KeptBefore
  <2> HIDE DEF b
  <2>3. outs # <<>> /\ Head(outs) = q.gin /\ Tail(outs) = <<b>>
    BY <2>1, ShortSequences
  <2>4. PutsEarly(e, c, r, t, ins, <<b>>)
    BY <1>4, <1>8, <2>2 DEF PutsEarly, Pulls, Gives
  <2> QED
    BY <1>0, <1>4, <1>5, <2>3, <2>4 DEF Handled, ByHand
<1>9. CASE Pauses(q, c, r, t, ins, outs)
  <2>1. Len(q.gin \o t) = Width
    BY <1>9, OneByte DEF Pauses
  <2>2. t # <<>> /\ t \in Seq({0, 1}) /\ q.gin \in Seq({0, 1})
    BY <1>3, <1>9 DEF Pauses, Handled, PortRecord
  <2>3. Width = Len(q.gin) + Len(t)
    BY <2>1, <2>2, BitsJoined
  <2> QED
    BY <1>6, <2>2, <2>3, BitSequences
<1>10. /\ ~Offered(q, c, r, t, ins, outs) /\ ~Taken(q, c, r, t, ins, outs)
       /\ ~Clashes(q, c, r, t, ins, outs) /\ ~Aborts(q, c, r, t, ins, outs)
       /\ ~Puts(q, c, r, t, ins, outs)
  BY <1>6 DEF Offered, Taken, Clashes, Aborts, Puts, Takes
<1> QED
  BY <1>0, <1>7, <1>8, <1>9, <1>10 DEF Handled, ByHand

\* GrayReset() ends what the program has given up.
LEMMA HandReset ==
    ASSUME NEW p, NEW c, NEW r, NEW t, NEW ins, NEW outs,
           Handled(p, c, r, t, ins, outs), c = "abort"
    PROVE  Handled(GrayReset(p), c, r, t, ins, outs)
<1> SUFFICES ASSUME NEW u, u = GrayReset(p) PROVE Handled(u, c, r, t, ins, outs)
  OBVIOUS
<1> DEFINE a == [p EXCEPT !.gin = <<>>, !.gout = <<>>, !.gsend = FALSE]
           q == SetExt(a, 0)
<1>0. <<>> \in Seq({0, 1}) /\ Len(<<>>) = 0 /\ Len(<<>>) <= Width /\ Width # 0
  BY BitSequences, WidthAssumption
<1>1. GoodPort(p) /\ p \in PortRecord
  BY FieldTypes DEF Handled, PortInv
<1>2. /\ a.gin = <<>> /\ a.gout = <<>> /\ a.gsend = FALSE /\ a.lines = p.lines
      /\ a.flags = p.flags /\ a.mode = p.mode /\ a.stop = p.stop /\ a.ain = p.ain
      /\ a.ainbits = p.ainbits /\ a.aout = p.aout /\ a.timer = p.timer
  BY <1>1 DEF PortRecord
<1>3. a \in PortRecord
  BY <1>0, <1>1 DEF PortRecord
<1>4. u = Update(q)
  BY DEF GrayReset
<1> HIDE DEF a
<1>5. GoodPort(a)
  BY <1>0, <1>1, <1>2, <1>3 DEF GoodPort, Steady, Counted, Timely, PortType
<1>6. GoodPort(q) /\ q.ext = 0 /\ OnlyExt(a, q)
  BY <1>5, ExtSet, Lines
<1>7. Aborts(p, c, r, t, ins, outs) /\ p.mode = {} /\ p.flags = {}
  BY DEF Handled, ByHand, Rests, Offered, Taken, Puts, PutsEarly, Pauses, Clashes
<1> HIDE DEF q
<1>8. PortInv(u) /\ Answers(q, u) /\ u.mode = {} /\ u.flags = {} /\ u.lines = p.lines
  BY <1>2, <1>4, <1>6, <1>7, HandUpdate DEF OnlyExt
<1>9. PICK g : GrayDone(q, g) /\ OnlyIrqs(g, u)
  BY <1>8 DEF Answers
<1>10. ~g.gsend /\ g.ext = 0 /\ g.gout = <<>> /\ g.gin = <<>>
  <2>1. /\ ~q.gsend /\ Len(q.gin) # Width /\ q.lines = 3 /\ q.ext = 0 /\ q.gout = <<>>
    BY <1>0, <1>2, <1>6, <1>7 DEF OnlyExt, Aborts
  <2> QED
    BY <1>9, <2>1 DEF GrayDone
<1>11. ~u.gsend /\ u.ext = 0 /\ u.gout = <<>> /\ u.gin = <<>>
  BY <1>9, <1>10 DEF OnlyIrqs
<1>12. Aborts(u, c, r, t, ins, outs)
  BY <1>7, <1>8, <1>11 DEF Aborts, Gives
<1> QED
  BY <1>8, <1>12 DEF Handled, ByHand

\* What becomes of a write to the lines.
Written(p, v, u) ==
    \E q : /\ GoodPort(q) /\ q.lines = v /\ q.ext = p.ext /\ q.gin = p.gin
           /\ q.gout = p.gout /\ (q.gsend <=> p.gsend)
           /\ \E g : GrayDone(q, g) /\ OnlyIrqs(g, u)

\* What a program writes to the lines, the gray link answers.
LEMMA LinesWritten ==
    ASSUME NEW p, PortInv(p), p.mode = {}, p.flags = {}, p.stop = {}, NEW v \in 0..3
    PROVE  /\ Written(p, v, PortWrite(p, v)) /\ PortInv(PortWrite(p, v))
           /\ PortWrite(p, v).mode = {} /\ PortWrite(p, v).flags = {}
           /\ PortWrite(p, v).lines = v
           /\ "ERROR" \in PortWrite(p, v).stop => v = 3
<1> DEFINE q == SetLines(p, v)
<1>1. GoodPort(q) /\ p \in PortRecord
  BY LinesSet, FieldTypes DEF PortInv
<1>2. /\ q.lines = v /\ q.ext = p.ext /\ q.gin = p.gin /\ q.gout = p.gout
      /\ q.gsend = p.gsend /\ q.mode = p.mode /\ q.flags = p.flags /\ q.stop = p.stop
  BY <1>1 DEF SetLines, PortRecord
<1>3. PortWrite(p, v) = Update(q)
  BY DEF PortWrite
<1> HIDE DEF q
<1>4. /\ PortInv(Update(q)) /\ Answers(q, Update(q))
      /\ Update(q).mode = {} /\ Update(q).flags = {} /\ Update(q).lines = q.lines
      /\ "ERROR" \in Update(q).stop => "ERROR" \in q.stop \/ q.lines = 3
  BY <1>1, <1>2, HandUpdate
<1> QED
  BY <1>1, <1>2, <1>3, <1>4 DEF Written, Answers

\* The answer of the gray link to a line that is pulled, ...
LEMMA PullAnswered ==
    ASSUME NEW p, NEW v \in {1, 2}, NEW u, Written(p, v, u)
    PROVE  /\ p.gsend /\ p.ext = Opposite(v) =>
                u.gsend /\ u.ext = 0 /\ u.gout = p.gout /\ u.gin = p.gin
           /\ ~p.gsend /\ Len(p.gin) # Width =>
                ~u.gsend /\ u.ext = Opposite(v) /\ u.gout = p.gout /\ u.gin = p.gin
           /\ ~p.gsend /\ Len(p.gin) = Width =>
                ~u.gsend /\ u.ext = p.ext /\ u.gout = p.gout /\ u.gin = p.gin
<1>1. PICK q : /\ q.lines = v /\ q.ext = p.ext /\ q.gin = p.gin
               /\ q.gout = p.gout /\ (q.gsend <=> p.gsend)
               /\ \E g : GrayDone(q, g) /\ OnlyIrqs(g, u)
  BY DEF Written
<1>2. PICK g : GrayDone(q, g) /\ OnlyIrqs(g, u)
  BY <1>1
<1>3. /\ p.gsend /\ p.ext = Opposite(v) =>
           g.gsend /\ g.ext = 0 /\ g.gout = p.gout /\ g.gin = p.gin
      /\ ~p.gsend /\ Len(p.gin) # Width =>
           ~g.gsend /\ g.ext = Opposite(v) /\ g.gout = p.gout /\ g.gin = p.gin
      /\ ~p.gsend /\ Len(p.gin) = Width =>
           ~g.gsend /\ g.ext = p.ext /\ g.gout = p.gout /\ g.gin = p.gin
  BY <1>1, <1>2 DEF GrayDone
<1> QED
  BY <1>2, <1>3 DEF OnlyIrqs

\* ... to lines that are released, ...
LEMMA ReleaseAnswered ==
    ASSUME NEW p, NEW u, Written(p, 0, u)
    PROVE  /\ p.gsend /\ p.ext = 0 /\ p.gout # <<>> =>
                /\ u.gsend /\ u.ext = LineOf(Head(p.gout)) /\ u.gout = Tail(p.gout)
                /\ u.gin = p.gin
           /\ p.gsend /\ p.ext = 0 /\ p.gout = <<>> =>
                ~u.gsend /\ u.ext = 0 /\ u.gout = <<>> /\ u.gin = p.gin
           /\ ~p.gsend /\ Len(p.gin) # Width =>
                /\ ~u.gsend /\ u.ext = 0 /\ u.gout = p.gout
                /\ u.gin = IF p.ext \in {1, 2} THEN Append(p.gin, IF p.ext = 1 THEN 1 ELSE 0)
                           ELSE p.gin
<1>1. PICK q : /\ q.lines = 0 /\ q.ext = p.ext /\ q.gin = p.gin
               /\ q.gout = p.gout /\ (q.gsend <=> p.gsend)
               /\ \E g : GrayDone(q, g) /\ OnlyIrqs(g, u)
  BY DEF Written
<1>2. PICK g : GrayDone(q, g) /\ OnlyIrqs(g, u)
  BY <1>1
<1>3. /\ p.gsend /\ p.ext = 0 /\ p.gout # <<>> =>
           /\ g.gsend /\ g.ext = LineOf(Head(p.gout)) /\ g.gout = Tail(p.gout)
           /\ g.gin = p.gin
      /\ p.gsend /\ p.ext = 0 /\ p.gout = <<>> =>
           ~g.gsend /\ g.ext = 0 /\ g.gout = <<>> /\ g.gin = p.gin
      /\ ~p.gsend /\ Len(p.gin) # Width =>
           /\ ~g.gsend /\ g.ext = 0 /\ g.gout = p.gout
           /\ g.gin = IF p.ext \in {1, 2} THEN Append(p.gin, IF p.ext = 1 THEN 1 ELSE 0)
                      ELSE p.gin
  BY <1>1, <1>2 DEF GrayDone
<1> QED
  BY <1>2, <1>3 DEF OnlyIrqs

\* ... and to both lines pulled while it sends.
LEMMA AbortAnswered ==
    ASSUME NEW p, NEW u, Written(p, 3, u), p.gsend
    PROVE  ~u.gsend /\ u.ext = 0 /\ u.gout = <<>> /\ u.gin = p.gin
<1>1. PICK q : /\ q.lines = 3 /\ q.ext = p.ext /\ q.gin = p.gin
               /\ q.gout = p.gout /\ (q.gsend <=> p.gsend)
               /\ \E g : GrayDone(q, g) /\ OnlyIrqs(g, u)
  BY DEF Written
<1>2. PICK g : GrayDone(q, g) /\ OnlyIrqs(g, u)
  BY <1>1
<1>3. ~g.gsend /\ g.ext = 0 /\ g.gout = <<>> /\ g.gin = p.gin
  BY <1>1, <1>2 DEF GrayDone
<1> QED
  BY <1>2, <1>3 DEF OnlyIrqs

\* The steps of the program.
LEMMA HandTakes ==
    ASSUME NEW p, NEW r, NEW ins \in Seq(Byte), NEW outs,
           Handled(p, "idle", r, <<>>, ins, outs), p.stop = {}, p.ext \in {1, 2}
    PROVE  Handled(PortWrite(p, Opposite(p.ext)), "ack", Append(r, Bit(p.ext)), <<>>, ins, outs)
<1> DEFINE v == Opposite(p.ext)
           s == Append(r, Bit(p.ext))
<1> SUFFICES ASSUME NEW u, u = PortWrite(p, v) PROVE Handled(u, "ack", s, <<>>, ins, outs)
  OBVIOUS
<1>1. v \in {1, 2} /\ v \in 0..3 /\ p.ext = Opposite(v) /\ Bit(p.ext) \in {0, 1} /\ v # 3
  BY Bits
<1>2. PortInv(p) /\ p.mode = {} /\ p.flags = {} /\ r \in Seq({0, 1})
  BY DEF Handled, ByHand
<1>3. Offered(p, "idle", r, <<>>, ins, outs)
  BY DEF Handled, ByHand, Rests, Taken, Puts, PutsEarly, Pauses, Clashes, Aborts, Quiet
<1>4. p.gsend /\ p.gin = <<>> /\ ins = <<s \o p.gout>> /\ outs = <<>>
  BY <1>3 DEF Offered, Takes
<1>5. s \in Seq({0, 1}) /\ s # <<>>
  BY <1>1, <1>2, AppendProperties
<1> HIDE DEF v, s
<1>6. Written(p, v, u) /\ PortInv(u) /\ u.mode = {} /\ u.flags = {} /\ u.lines = v
      /\ "ERROR" \notin u.stop
  BY <1>1, <1>2, LinesWritten
<1>7. u.gsend /\ u.ext = 0 /\ u.gout = p.gout /\ u.gin = <<>>
  BY <1>1, <1>4, <1>6, PullAnswered
<1>8. Taken(u, "ack", s, <<>>, ins, outs)
  BY <1>1, <1>4, <1>5, <1>6, <1>7 DEF Taken, Pulls, Takes
<1>9. <<>> \in Seq({0, 1})
  BY BitSequences
<1> QED
  BY <1>5, <1>6, <1>8, <1>9 DEF Handled, ByHand

\* The line is released: the next bit is offered or, after the last, the byte is over.
LEMMA HandEnds ==
    ASSUME NEW p, NEW r, NEW t, NEW ins \in Seq(Byte), NEW outs,
           Handled(p, "ack", r, t, ins, outs), p.stop = {}
    PROVE  /\ t = <<>> /\ r # <<>>
           /\ Len(r) = Width =>
                ins = <<r>> /\ Handled(PortWrite(p, 0), "idle", <<>>, t, <<>>, outs)
           /\ Len(r) # Width => Handled(PortWrite(p, 0), "idle", r, t, ins, outs)
<1> SUFFICES ASSUME NEW u, u = PortWrite(p, 0)
             PROVE  /\ t = <<>> /\ r # <<>>
                    /\ Len(r) = Width => ins = <<r>> /\ Handled(u, "idle", <<>>, t, <<>>, outs)
                    /\ Len(r) # Width => Handled(u, "idle", r, t, ins, outs)
  OBVIOUS
<1>1. PortInv(p) /\ p.mode = {} /\ p.flags = {} /\ r \in Seq({0, 1})
  BY DEF Handled, ByHand
<1>2. Taken(p, "ack", r, t, ins, outs)
  BY DEF Handled, ByHand, Rests, Offered, Puts, PutsEarly, Pauses, Clashes, Aborts
<1>3. p.gsend /\ p.ext = 0 /\ p.gin = <<>> /\ t = <<>> /\ r # <<>> /\ ins = <<r \o p.gout>>
      /\ outs = <<>>
  BY <1>2 DEF Taken, Takes
<1>4. Written(p, 0, u) /\ PortInv(u) /\ u.mode = {} /\ u.flags = {} /\ u.lines = 0
      /\ "ERROR" \notin u.stop
  BY <1>1, LinesWritten, Lines
<1>5. p.gout \in Seq({0, 1}) /\ Len(p.gout) \in Nat /\ Len(r) \in Nat /\ Width \in Nat
      /\ Width = Len(r) + Len(p.gout)
  <2>1. p.gout \in Seq({0, 1}) /\ Len(p.gout) \in Nat /\ Width \in Nat
    BY <1>1, FieldTypes DEF PortInv
  <2>2. Len(r \o p.gout) = Width
    BY <1>3, OneByte
  <2>3. Width = Len(r) + Len(p.gout)
    BY <1>1, <2>1, <2>2, BitsJoined
  <2> QED
    BY <1>1, <2>1, <2>3, BitSequences
<1>6. <<>> \in Seq({0, 1}) /\ Len(<<>>) = 0
  BY BitSequences
<1>7. CASE p.gout = <<>>
  <2>1. Len(r) = Width
    BY <1>5, <1>6, <1>7
  <2>2. ins = <<r>>
    BY <1>1, <1>3, <1>7, ConcatEmptySeq
  <2>3. ~u.gsend /\ u.ext = 0 /\ u.gout = <<>> /\ u.gin = <<>>
    BY <1>3, <1>4, <1>7, ReleaseAnswered
  <2>4. Rests(u, "idle", <<>>, t, <<>>, outs)
    BY <1>3, <1>4, <2>3 DEF Rests, Quiet, Gives, Kept
  <2>5. Handled(u, "idle", <<>>, t, <<>>, outs)
    BY <1>3, <1>4, <1>6, <2>4 DEF Handled, ByHand
  <2> QED
    BY <1>3, <2>1, <2>2, <2>5
<1>8. CASE p.gout # <<>>
  <2>1. Len(r) # Width
    BY <1>5, <1>8, BitSequences
  <2>2. u.gsend /\ u.ext = LineOf(Head(p.gout)) /\ u.gout = Tail(p.gout) /\ u.gin = <<>>
    BY <1>3, <1>4, <1>8, ReleaseAnswered
  <2>3. u.ext \in {1, 2} /\ Bit(u.ext) = Head(p.gout)
    BY <1>5, <1>8, <2>2, BitSequences, Bits
  <2>4. Append(r, Head(p.gout)) \o Tail(p.gout) = r \o p.gout
    BY <1>1, <1>5, <1>8, BitsJoined
  <2>5. ins = <<Append(r, Bit(u.ext)) \o u.gout>>
    BY <1>3, <2>2, <2>3, <2>4
  <2>6. Offered(u, "idle", r, t, ins, outs)
    BY <1>3, <1>4, <2>2, <2>3, <2>5 DEF Offered, Takes
  <2>7. Handled(u, "idle", r, t, ins, outs)
    BY <1>1, <1>3, <1>4, <1>6, <2>6 DEF Handled, ByHand
  <2> QED
    BY <1>3, <2>1, <2>7
<1> QED
  BY <1>7, <1>8

\* The first bit of a byte is put on the lines.
LEMMA HandSays ==
    ASSUME NEW p, NEW ins, NEW outs \in Seq(Byte),
           Handled(p, "idle", <<>>, <<>>, ins, outs), p.stop = {}, p.ext = 0, NEW b \in Byte
    PROVE  /\ Handled(PortWrite(p, LineOf(Head(b))), "put", <<>>, Tail(b), ins, Append(outs, b))
           /\ Len(Tail(b)) < Width
<1> DEFINE v == LineOf(Head(b))
           more == Append(outs, b)
           t == Tail(b)
<1>1. b \in Seq({0, 1}) /\ Len(b) = Width /\ Width > 0 /\ Width \in Nat
  BY ByteAssumption, WidthAssumption
<1>2. b # <<>> /\ Head(b) \in {0, 1} /\ t \in Seq({0, 1}) /\ Len(t) < Width
  BY <1>1, BitSequences
<1> SUFFICES ASSUME NEW u, u = PortWrite(p, v) PROVE Handled(u, "put", <<>>, t, ins, more)
  BY <1>2
<1>3. v \in {1, 2} /\ v \in 0..3 /\ v # 3 /\ Bit(v) = Head(b)
  BY <1>2, Bits
<1>4. <<Bit(v)>> \o t = b
  BY <1>1, <1>2, <1>3, BitsJoined
<1>5. (outs = <<>> => more = <<b>>) /\ \A x : outs = <<x>> => more = <<x, b>>
  BY ShortSequences, Zenon
<1>6. PortInv(p) /\ p.mode = {} /\ p.flags = {}
  BY DEF Handled, ByHand
<1>7. Rests(p, "idle", <<>>, <<>>, ins, outs)
  BY DEF Handled, ByHand, Offered, Taken, Puts, PutsEarly, Pauses, Clashes, Aborts
<1> HIDE DEF v, more, t
<1>8. Written(p, v, u) /\ PortInv(u) /\ u.mode = {} /\ u.flags = {} /\ u.lines = v
      /\ "ERROR" \notin u.stop
  BY <1>3, <1>6, LinesWritten
<1>9. ~p.gsend /\ p.gout = <<>> /\ ins = <<>> /\ Kept(p, outs)
  BY <1>7 DEF Rests, Gives
<1>10. <<>> \in Seq({0, 1}) /\ Len(<<>>) = 0
  BY BitSequences
<1>11. CASE p.gin = <<>> /\ outs = <<>>
  <2>1. ~u.gsend /\ u.ext = Opposite(v) /\ u.gout = <<>> /\ u.gin = <<>>
    BY <1>1, <1>3, <1>8, <1>9, <1>10, <1>11, PullAnswered
  <2>2. Append(u.gin, Bit(u.lines)) = <<Bit(v)>>
    BY <1>8, <2>1, ShortSequences
  <2>3. more = <<Append(u.gin, Bit(u.lines)) \o t>>
    BY <1>4, <1>5, <1>11, <2>2
  <2>4. Puts(u, "put", <<>>, t, ins, more)
    BY <1>1, <1>3, <1>8, <1>9, <1>10, <2>1, <2>3 DEF Puts, Pulls, Gives
  <2> QED
    BY <1>2, <1>8, <1>10, <2>4 DEF Handled, ByHand
<1>12. CASE Len(p.gin) = Width /\ outs = <<p.gin>>
  <2>1. ~u.gsend /\ u.ext = 0 /\ u.gout = <<>> /\ u.gin = p.gin
    BY <1>3, <1>8, <1>9, <1>12, PullAnswered
  <2>2. more = <<u.gin, <<Bit(u.lines)>> \o t>>
    BY <1>4, <1>5, <1>8, <1>12, <2>1
  <2>3. KeptBefore(u, <<Bit(u.lines)>> \o t, more)
    BY <1>12, <2>1, <2>2 DEF KeptBefore
  <2>4. PutsEarly(u, "put", <<>>, t, ins, more)
    BY <1>3, <1>8, <1>9, <2>1, <2>3 DEF PutsEarly, Pulls, Gives
  <2> QED
    BY <1>2, <1>8, <1>10, <2>4 DEF Handled, ByHand
<1> QED
  BY <1>9, <1>11, <1>12 DEF Kept

\* A bit that the gray link has taken is acknowledged.
LEMMA HandAcked ==
    ASSUME NEW p, NEW r, NEW t, NEW ins, NEW outs \in Seq(Byte),
           Handled(p, "put", r, t, ins, outs), p.stop = {}, p.ext = Opposite(p.lines)
    PROVE  Handled(PortWrite(p, 0), IF t = <<>> THEN "idle" ELSE "next", r, t, ins, outs)
<1> SUFFICES ASSUME NEW u, u = PortWrite(p, 0)
             PROVE  Handled(u, IF t = <<>> THEN "idle" ELSE "next", r, t, ins, outs)
  OBVIOUS
<1>1. PortInv(p) /\ p.mode = {} /\ p.flags = {} /\ t \in Seq({0, 1}) /\ r \in Seq({0, 1})
  BY DEF Handled, ByHand
<1>2. Puts(p, "put", r, t, ins, outs)
  BY Bits DEF Handled, ByHand, Rests, Offered, Taken, PutsEarly, Pauses, Clashes, Aborts, Pulls
<1>3. ~p.gsend /\ p.gout = <<>> /\ r = <<>> /\ ins = <<>> /\ p.lines \in {1, 2}
      /\ Len(p.gin) < Width /\ outs = <<Append(p.gin, Bit(p.lines)) \o t>>
  BY <1>2 DEF Puts, Gives, Pulls
<1>4. p.ext \in {1, 2} /\ (IF p.ext = 1 THEN 1 ELSE 0) = Bit(p.lines) /\ Bit(p.lines) \in {0, 1}
  BY <1>3, Bits
<1>5. p.gin \in Seq({0, 1}) /\ Len(p.gin) \in Nat /\ Width \in Nat
  BY <1>1, FieldTypes DEF PortInv
<1> DEFINE s == Append(p.gin, Bit(p.lines))
<1>6. s \in Seq({0, 1}) /\ s # <<>>
  BY <1>4, <1>5, AppendProperties
<1>7. Written(p, 0, u) /\ PortInv(u) /\ u.mode = {} /\ u.flags = {} /\ u.lines = 0
      /\ "ERROR" \notin u.stop
  BY <1>1, LinesWritten, Lines
<1>8. ~u.gsend /\ u.ext = 0 /\ u.gout = <<>> /\ u.gin = s
  <2>1. ~p.gsend /\ Len(p.gin) # Width /\ p.gout = <<>>
    BY <1>3, <1>5
  <2>2. /\ ~u.gsend /\ u.ext = 0 /\ u.gout = p.gout
        /\ u.gin = IF p.ext \in {1, 2} THEN Append(p.gin, IF p.ext = 1 THEN 1 ELSE 0) ELSE p.gin
    BY <1>7, <2>1, ReleaseAnswered
  <2> QED
    BY <1>4, <2>1, <2>2, Zenon
<1>9. outs = <<s \o t>>
  BY <1>3
<1> HIDE DEF s
<1>10. CASE t = <<>>
  <2>1. outs = <<s>>
    BY <1>6, <1>9, <1>10, ConcatEmptySeq
  <2>2. Len(s) = Width
    BY <2>1, OneByte
  <2>3. Rests(u, "idle", r, t, ins, outs)
    BY <1>3, <1>7, <1>8, <1>10, <2>1, <2>2 DEF Rests, Quiet, Gives, Kept
  <2> QED
    BY <1>1, <1>7, <1>10, <2>3 DEF Handled, ByHand
<1>11. CASE t # <<>>
  <2>1. Pauses(u, "next", r, t, ins, outs)
    BY <1>3, <1>6, <1>7, <1>8, <1>9, <1>11 DEF Pauses, Quiet, Gives
  <2> QED
    BY <1>1, <1>7, <1>11, <2>1 DEF Handled, ByHand
<1> QED
  BY <1>10, <1>11

\* The next bit is put on the lines.
LEMMA HandPuts ==
    ASSUME NEW p, NEW r, NEW t, NEW ins, NEW outs \in Seq(Byte),
           Handled(p, "next", r, t, ins, outs), p.stop = {}
    PROVE  /\ t # <<>> /\ Len(Tail(t)) < Len(t)
           /\ Handled(PortWrite(p, LineOf(Head(t))), "put", r, Tail(t), ins, outs)
<1> DEFINE v == LineOf(Head(t))
<1> SUFFICES ASSUME NEW u, u = PortWrite(p, v)
             PROVE  /\ t # <<>> /\ Len(Tail(t)) < Len(t)
                    /\ Handled(u, "put", r, Tail(t), ins, outs)
  OBVIOUS
<1>1. PortInv(p) /\ p.mode = {} /\ p.flags = {} /\ t \in Seq({0, 1}) /\ r \in Seq({0, 1})
  BY DEF Handled, ByHand
<1>2. Pauses(p, "next", r, t, ins, outs)
  BY DEF Handled, ByHand, Rests, Offered, Taken, Puts, PutsEarly, Clashes, Aborts
<1>3. ~p.gsend /\ p.gout = <<>> /\ r = <<>> /\ ins = <<>> /\ t # <<>> /\ p.gin # <<>>
      /\ outs = <<p.gin \o t>>
  BY <1>2 DEF Pauses, Gives
<1>4. Tail(t) \in Seq({0, 1}) /\ Len(Tail(t)) < Len(t) /\ Head(t) \in {0, 1} /\ Len(t) > 0
      /\ Len(t) \in Nat
  BY <1>1, <1>3, BitSequences
<1>5. v \in {1, 2} /\ v \in 0..3 /\ v # 3 /\ Bit(v) = Head(t)
  BY <1>4, Bits
<1>6. p.gin \in Seq({0, 1}) /\ Len(p.gin) \in Nat /\ Width \in Nat
  BY <1>1, FieldTypes DEF PortInv
<1>7. Len(p.gin) < Width
  <2>1. Len(p.gin \o t) = Width
    BY <1>3, OneByte
  <2>2. Width = Len(p.gin) + Len(t)
    BY <1>1, <1>6, <2>1, BitsJoined
  <2> QED
    BY <1>4, <1>6, <2>2
<1>8. Append(p.gin, Head(t)) \o Tail(t) = p.gin \o t
  BY <1>1, <1>3, <1>6, BitsJoined
<1> HIDE DEF v
<1>9. Written(p, v, u) /\ PortInv(u) /\ u.mode = {} /\ u.flags = {} /\ u.lines = v
      /\ "ERROR" \notin u.stop
  BY <1>1, <1>5, LinesWritten
<1>10. ~u.gsend /\ u.ext = Opposite(v) /\ u.gout = <<>> /\ u.gin = p.gin
  <2>1. Len(p.gin) # Width
    BY <1>6, <1>7
  <2> QED
    BY <1>3, <1>5, <1>9, <2>1, PullAnswered
<1>11. outs = <<Append(u.gin, Bit(u.lines)) \o Tail(t)>>
  BY <1>3, <1>5, <1>8, <1>9, <1>10
<1>12. Puts(u, "put", r, Tail(t), ins, outs)
  BY <1>3, <1>5, <1>7, <1>9, <1>10, <1>11 DEF Puts, Pulls, Gives
<1> QED
  BY <1>1, <1>3, <1>4, <1>9, <1>12 DEF Handled, ByHand

\* Both lines are pulled: the byte on its way is lost, and no other.
LEMMA HandGivesUp ==
    ASSUME NEW p, NEW r, NEW t, NEW ins, NEW outs,
           Handled(p, "idle", r, t, ins, outs), p.stop = {}, r # <<>>
    PROVE  /\ \E x : ins = <<x>>
           /\ Handled(PortWrite(p, 3), "abort", <<>>, t, <<>>, outs)
<1> SUFFICES ASSUME NEW u, u = PortWrite(p, 3)
             PROVE  /\ \E x : ins = <<x>>
                    /\ Handled(u, "abort", <<>>, t, <<>>, outs)
  OBVIOUS
<1>1. PortInv(p) /\ p.mode = {} /\ p.flags = {} /\ <<>> \in Seq({0, 1}) /\ 3 \in 0..3
  BY BitSequences DEF Handled, ByHand
<1>2. Offered(p, "idle", r, t, ins, outs)
  BY DEF Handled, ByHand, Rests, Taken, Puts, PutsEarly, Pauses, Clashes, Aborts
<1>3. p.gsend /\ p.gin = <<>> /\ t = <<>> /\ outs = <<>> /\ \E x : ins = <<x>>
  BY <1>2 DEF Offered, Takes
<1>4. Written(p, 3, u) /\ PortInv(u) /\ u.mode = {} /\ u.flags = {} /\ u.lines = 3
  BY <1>1, LinesWritten
<1>5. ~u.gsend /\ u.ext = 0 /\ u.gout = <<>> /\ u.gin = <<>>
  BY <1>3, <1>4, AbortAnswered
<1>6. Aborts(u, "abort", <<>>, t, <<>>, outs)
  BY <1>3, <1>4, <1>5 DEF Aborts, Gives
<1> QED
  BY <1>1, <1>3, <1>4, <1>6 DEF Handled, ByHand

\* Both lines are released: the link is at rest.
LEMMA HandGaveUp ==
    ASSUME NEW p, NEW r, NEW t, NEW ins, NEW outs,
           Handled(p, "abort", r, t, ins, outs), p.stop = {}
    PROVE  Handled(PortWrite(p, 0), "idle", r, t, ins, outs)
<1> SUFFICES ASSUME NEW u, u = PortWrite(p, 0) PROVE Handled(u, "idle", r, t, ins, outs)
  OBVIOUS
<1>1. PortInv(p) /\ p.mode = {} /\ p.flags = {} /\ r \in Seq({0, 1}) /\ t \in Seq({0, 1})
  BY DEF Handled, ByHand
<1>2. Aborts(p, "abort", r, t, ins, outs)
  BY DEF Handled, ByHand, Rests, Offered, Taken, Puts, PutsEarly, Pauses, Clashes
<1>3. ~p.gsend /\ p.gin = <<>> /\ p.gout = <<>> /\ p.ext = 0 /\ r = <<>> /\ t = <<>>
      /\ ins = <<>> /\ outs = <<>> /\ Len(p.gin) # Width
  BY <1>2, WidthAssumption, BitSequences DEF Aborts, Gives
<1>4. Written(p, 0, u) /\ PortInv(u) /\ u.mode = {} /\ u.flags = {} /\ u.lines = 0
      /\ "ERROR" \notin u.stop
  BY <1>1, LinesWritten, Lines
<1>5. ~u.gsend /\ u.ext = 0 /\ u.gout = <<>> /\ u.gin = <<>>
  BY <1>3, <1>4, ReleaseAnswered
<1>6. Rests(u, "idle", r, t, ins, outs)
  BY <1>3, <1>4, <1>5 DEF Rests, Quiet, Gives, Kept
<1> QED
  BY <1>1, <1>4, <1>6 DEF Handled, ByHand

-----------------------------------------------------------------------------
(* Sequences in others.                                                    *)

\* A sequence is a subsequence of itself,
LEMMA SubsequenceOfItself ==
    ASSUME NEW S, NEW s \in Seq(S)
    PROVE  IsSubsequence(s, s)
<1> DEFINE f == [i \in 1..Len(s) |-> i]
<1>1. f \in [1..Len(s) -> 1..Len(s)] /\ \A i \in 1..Len(s) : f[i] = i
  OBVIOUS
<1> HIDE DEF f
<1> QED
  BY <1>1 DEF IsSubsequence

\* a subsequence of a subsequence is one,
LEMMA SubsequenceOfNext ==
    ASSUME NEW S, NEW s \in Seq(S), NEW t \in Seq(S), NEW u \in Seq(S),
           IsSubsequence(s, t), IsSubsequence(t, u)
    PROVE  IsSubsequence(s, u)
<1>1. PICK f \in [1..Len(s) -> 1..Len(t)] :
        /\ \A i \in 1..Len(s) : s[i] = t[f[i]]
        /\ \A i, j \in 1..Len(s) : i < j => f[i] < f[j]
  BY DEF IsSubsequence
<1>2. PICK g \in [1..Len(t) -> 1..Len(u)] :
        /\ \A i \in 1..Len(t) : t[i] = u[g[i]]
        /\ \A i, j \in 1..Len(t) : i < j => g[i] < g[j]
  BY DEF IsSubsequence
<1> DEFINE h == [i \in 1..Len(s) |-> g[f[i]]]
<1>3. h \in [1..Len(s) -> 1..Len(u)] /\ \A i \in 1..Len(s) : h[i] = g[f[i]]
  OBVIOUS
<1> HIDE DEF h
<1>4. \A i \in 1..Len(s) : s[i] = u[h[i]]
  BY <1>1, <1>2, <1>3
<1>5. ASSUME NEW i \in 1..Len(s), NEW j \in 1..Len(s), i < j PROVE h[i] < h[j]
  <2>1. f[i] \in 1..Len(t) /\ f[j] \in 1..Len(t) /\ f[i] < f[j]
    BY <1>1, <1>5
  <2> QED
    BY <1>2, <1>3, <2>1
<1> QED
  BY <1>3, <1>4, <1>5 DEF IsSubsequence

\* it stays one when an element is appended to both,
LEMMA SubsequenceAppended ==
    ASSUME NEW S, NEW s \in Seq(S), NEW t \in Seq(S), NEW b \in S, IsSubsequence(s, t)
    PROVE  IsSubsequence(Append(s, b), Append(t, b))
<1> DEFINE x == Append(s, b)
           y == Append(t, b)
<1>0. Len(s) \in Nat /\ Len(t) \in Nat
  BY LenProperties
<1>1. PICK f \in [1..Len(s) -> 1..Len(t)] :
        /\ \A i \in 1..Len(s) : s[i] = t[f[i]]
        /\ \A i, j \in 1..Len(s) : i < j => f[i] < f[j]
  BY DEF IsSubsequence
<1>2. /\ Len(x) = Len(s) + 1 /\ Len(y) = Len(t) + 1
      /\ \A i \in 1..Len(s) : x[i] = s[i]
      /\ \A i \in 1..Len(t) : y[i] = t[i]
      /\ x[Len(s) + 1] = b /\ y[Len(t) + 1] = b
  BY AppendProperties
<1> DEFINE h == [i \in 1..(Len(s) + 1) |-> IF i = Len(s) + 1 THEN Len(t) + 1 ELSE f[i]]
<1>3. \A i \in 1..(Len(s) + 1) : i # Len(s) + 1 => i \in 1..Len(s)
  BY <1>0
<1>4. /\ h \in [1..(Len(s) + 1) -> 1..(Len(t) + 1)]
      /\ h[Len(s) + 1] = Len(t) + 1
      /\ \A i \in 1..Len(s) : h[i] = f[i] /\ f[i] \in 1..Len(t)
  <2>1. /\ Len(s) + 1 \in 1..(Len(s) + 1)
        /\ \A i \in 1..Len(s) : i \in 1..(Len(s) + 1) /\ i # Len(s) + 1
        /\ Len(t) + 1 \in 1..(Len(t) + 1)
        /\ \A i \in 1..Len(t) : i \in 1..(Len(t) + 1)
    BY <1>0
  <2>2. \A i \in 1..Len(s) : f[i] \in 1..Len(t)
    OBVIOUS
  <2>3. h \in [1..(Len(s) + 1) -> 1..(Len(t) + 1)]
    BY <1>3, <2>1, <2>2
  <2>4. h[Len(s) + 1] = Len(t) + 1 /\ \A i \in 1..Len(s) : h[i] = f[i]
    BY <2>1
  <2> QED
    BY <2>2, <2>3, <2>4
<1> HIDE DEF h, x, y
<1>5. \A i \in 1..(Len(s) + 1) : x[i] = y[h[i]]
  BY <1>1, <1>2, <1>3, <1>4
<1>6. ASSUME NEW i \in 1..(Len(s) + 1), NEW j \in 1..(Len(s) + 1), i < j PROVE h[i] < h[j]
  <2>1. i \in 1..Len(s)
    BY <1>0, <1>6
  <2>2. CASE j = Len(s) + 1
    BY <1>0, <1>4, <2>1, <2>2
  <2>3. CASE j # Len(s) + 1
    <3>1. j \in 1..Len(s)
      BY <1>3, <2>3
    <3> QED
      BY <1>1, <1>4, <1>6, <2>1, <3>1
  <2> QED
    BY <2>2, <2>3
<1>7. IsSubsequence(x, y)
  BY <1>2, <1>4, <1>5, <1>6 DEF IsSubsequence
<1> QED
  BY <1>7 DEF x, y

\* and what is left when a part is taken out is one.
LEMMA SubsequenceWithout ==
    ASSUME NEW S, NEW s \in Seq(S), NEW m \in Seq(S), NEW t \in Seq(S)
    PROVE  IsSubsequence(s \o t, s \o (m \o t))
<1> DEFINE x == s \o t
           z == m \o t
           y == s \o z
<1>0. Len(s) \in Nat /\ Len(t) \in Nat /\ Len(m) \in Nat
  BY LenProperties
<1>1. /\ Len(x) = Len(s) + Len(t)
      /\ \A i \in 1..(Len(s) + Len(t)) : x[i] = IF i <= Len(s) THEN s[i] ELSE t[i - Len(s)]
  BY ConcatProperties
<1>2. /\ z \in Seq(S) /\ Len(z) = Len(m) + Len(t)
      /\ \A i \in 1..(Len(m) + Len(t)) : z[i] = IF i <= Len(m) THEN m[i] ELSE t[i - Len(m)]
  BY ConcatProperties
<1> HIDE DEF z
<1>3. /\ Len(y) = Len(s) + Len(z)
      /\ \A i \in 1..(Len(s) + Len(z)) : y[i] = IF i <= Len(s) THEN s[i] ELSE z[i - Len(s)]
  <2>1. z \in Seq(S)
    BY <1>2
  <2> QED
    BY <2>1, ConcatProperties
<1> HIDE DEF x, y
<1> DEFINE h == [i \in 1..(Len(s) + Len(t)) |-> IF i <= Len(s) THEN i ELSE i + Len(m)]
<1>4. /\ h \in [1..(Len(s) + Len(t)) -> 1..(Len(s) + Len(z))]
      /\ \A i \in 1..(Len(s) + Len(t)) : h[i] = IF i <= Len(s) THEN i ELSE i + Len(m)
  BY <1>0, <1>2
<1> HIDE DEF h
<1>5. ASSUME NEW i \in 1..(Len(s) + Len(t)) PROVE x[i] = y[h[i]]
  <2>1. CASE i <= Len(s)
    <3>1. i \in 1..(Len(s) + Len(z))
      BY <1>0, <1>2, <2>1
    <3> QED
      BY <1>1, <1>3, <1>4, <2>1, <3>1
  <2>2. CASE ~(i <= Len(s))
    <3> DEFINE j == i + Len(m)
               k == j - Len(s)
    <3>1. /\ j \in 1..(Len(s) + Len(z)) /\ ~(j <= Len(s))
          /\ k \in 1..(Len(m) + Len(t)) /\ ~(k <= Len(m)) /\ k - Len(m) = i - Len(s)
      BY <1>0, <1>2, <2>2
    <3>2. h[i] = j
      BY <1>4, <2>2
    <3>3. y[j] = z[k]
      BY <1>3, <3>1
    <3> HIDE DEF k
    <3>4. z[k] = t[i - Len(s)]
      BY <1>2, <3>1
    <3>5. x[i] = t[i - Len(s)]
      BY <1>1, <2>2
    <3> QED
      BY <3>2, <3>3, <3>4, <3>5
  <2> QED
    BY <2>1, <2>2
<1>6. \A i, j \in 1..(Len(s) + Len(t)) : i < j => h[i] < h[j]
  BY <1>0, <1>4
<1>7. IsSubsequence(x, y)
  BY <1>1, <1>3, <1>4, <1>5, <1>6 DEF IsSubsequence
<1> QED
  BY <1>7 DEF x, y, z

\* A prefix.
LEMMA PrefixOfJoined ==
    ASSUME NEW S, NEW s \in Seq(S), NEW t \in Seq(S)
    PROVE  IsPrefix(s, s \o t)
<1> DEFINE x == s \o t
           n == Len(s)
           y == SubSeq(x, 1, n)
<1>0. n \in Nat /\ Len(t) \in Nat /\ n \in Int /\ 1 \in Int
  BY LenProperties
<1>1. /\ x \in Seq(S) /\ Len(x) = n + Len(t)
      /\ \A i \in 1..n + Len(t) : x[i] = IF i <= n THEN s[i] ELSE t[i - n]
  BY ConcatProperties
<1>2. \A i \in 1..n : i \in 1..n + Len(t) /\ i <= n /\ s[i] \in S
  BY <1>0, ElementOfSeq
<1>3. \A i \in 1..n : x[i] = s[i] /\ x[i] \in S
  BY <1>1, <1>2
<1> HIDE DEF x
<1>4. /\ y \in Seq(S)
      /\ Len(y) = IF 1 <= n THEN n - 1 + 1 ELSE 0
      /\ \A i \in 1..n - 1 + 1 : y[i] = x[1 + i - 1]
  BY <1>0, <1>3, SubSeqProperties
<1>5. Len(y) = n /\ n - 1 + 1 = n /\ \A i \in 1..n : 1 + i - 1 = i
  BY <1>0, <1>4
<1> HIDE DEF y
<1>6. \A i \in 1..n : y[i] = s[i]
  BY <1>3, <1>4, <1>5
<1>7. s = y
  BY <1>4, <1>5, <1>6, SeqEqual
<1>8. n <= Len(x)
  BY <1>0, <1>1
<1> QED
  BY <1>7, <1>8 DEF IsPrefix, x, y

-----------------------------------------------------------------------------
(* The bridge: what a side has received, what is on its way and what is    *)
(* still to go are, in that order, what the other has sent.                *)

\* All of it or, of a program that gives bytes up, a part of it.
Follows(s, t) == IsSubsequence(s, t) /\ (program # "quitter" => t = s)
Accounted(ins, outs) ==
    Follows((heard \o ins) \o input, asked) /\ Follows(output \o outs, said)

\* A byte that both have more.
LEMMA MoreFollows ==
    ASSUME NEW s \in Seq(Byte), NEW t \in Seq(Byte), NEW b \in Byte, Follows(s, t)
    PROVE  Follows(Append(s, b), Append(t, b))
  BY SubsequenceAppended DEF Follows

\* A part of what followed, of a program that gives bytes up.
LEMMA LessFollows ==
    ASSUME NEW s \in Seq(Byte), NEW t \in Seq(Byte), NEW u \in Seq(Byte), Follows(s, t),
           IsSubsequence(u, s), program = "quitter"
    PROVE  Follows(u, t)
  BY SubsequenceOfNext DEF Follows

\* A byte that moves on from b to a leaves them, joined, as they are.
LEMMA MovesOn ==
    ASSUME NEW a \in Seq(Byte), NEW b \in Seq(Byte), NEW x \in Byte
    PROVE  /\ a \o b \in Seq(Byte) /\ a \o <<>> = a /\ <<>> \o a = a
           /\ b # <<>> => Append(a, Head(b)) \o Tail(b) = a \o b
           /\ b # <<>> => Head(b) \in Byte /\ Tail(b) \in Seq(Byte)
           /\ Append(a, x) \in Seq(Byte) /\ a \o Append(b, x) = Append(a \o b, x)
<1>1. a \o b \in Seq(Byte) /\ a \o <<>> = a /\ <<>> \o a = a /\ Append(a, x) \in Seq(Byte)
  BY ConcatProperties, ConcatEmptySeq, AppendProperties
<1>2. ASSUME b # <<>>
      PROVE  /\ Append(a, Head(b)) \o Tail(b) = a \o b
             /\ Head(b) \in Byte /\ Tail(b) \in Seq(Byte)
  BY <1>2, Joining, HeadTailProperties
<1>3. a \o Append(b, x) = Append(a \o b, x)
  <2>1. <<x>> \in Seq(Byte)
    OBVIOUS
  <2>2. Append(b, x) = b \o <<x>>
    BY AppendIsConcat
  <2>3. Append(a \o b, x) = (a \o b) \o <<x>>
    BY <1>1, AppendIsConcat
  <2>4. (a \o b) \o <<x>> = a \o (b \o <<x>>)
    BY <2>1, ConcatAssociative
  <2> QED
    BY <2>2, <2>3, <2>4, Zenon
<1> QED
  BY <1>1, <1>2, <1>3

\* The port of a program of kind k, which is at c with the bits r and t.
Track(k, p, c, r, t, ins, outs) ==
    IF k = "assist" THEN Found(p, ins, outs) /\ c = "idle" /\ r = <<>> /\ t = <<>>
                    ELSE Handled(p, c, r, t, ins, outs)

\* Clearing the stop reasons moves no byte.
LEMMA TrackNoStop ==
    ASSUME NEW k, NEW p, NEW c, NEW r, NEW t, NEW ins, NEW outs,
           Track(k, p, c, r, t, ins, outs)
    PROVE  Track(k, NoStop(p), c, r, t, ins, outs)
  BY AssistNoStop, HandNoStop DEF Track

\* A byte given to the gray link is on its way, unless the lines are both pulled.
LEMMA TrackGiven ==
    ASSUME NEW k, NEW p, NEW c, NEW r, NEW t, NEW ins \in Seq(Byte), NEW outs \in Seq(Byte),
           Track(k, p, c, r, t, ins, outs), GrayReady(p), NEW b \in Byte
    PROVE  Track(k, GraySend(p, b), c, r, t, IF c = "abort" THEN ins ELSE Append(ins, b), outs)
<1>1. CASE k = "assist"
  <2>1. c = "idle" /\ c # "abort"
    BY <1>1 DEF Track
  <2> QED
    BY <1>1, <2>1, AssistGiven DEF Track
<1>2. CASE k # "assist"
  BY <1>2, HandGiven DEF Track
<1> QED
  BY <1>1, <1>2

\* A byte fetched from the gray link is the first of those on their way.
LEMMA TrackFetched ==
    ASSUME NEW k, NEW p, NEW c, NEW r, NEW t, NEW ins \in Seq(Byte), NEW outs \in Seq(Byte),
           Track(k, p, c, r, t, ins, outs)
    PROVE  /\ ~GrayGetHas(p) => Track(k, GrayGet(p), c, r, t, ins, outs)
           /\ GrayGetHas(p) => /\ outs # <<>> /\ Head(outs) = GrayGetByte(p)
                               /\ Track(k, GrayGet(p), c, r, t, ins, Tail(outs))
<1>1. CASE k = "assist"
  BY <1>1, AssistFetched DEF Track
<1>2. CASE k # "assist"
  BY <1>2, HandFetched DEF Track
<1> QED
  BY <1>1, <1>2

\* An error is reset only when nothing is on its way.
LEMMA TrackReset ==
    ASSUME NEW k, NEW p, NEW c, NEW r, NEW t, NEW ins, NEW outs,
           Track(k, p, c, r, t, ins, outs), "ERROR" \in p.stop
    PROVE  Track(k, GrayReset(p), c, r, t, ins, outs)
<1>1. k # "assist" /\ c = "abort"
  BY DEF Track, Found, Handled
<1> QED
  BY <1>1, HandReset DEF Track

\* The new calculator of Reload.
LEMMA TrackNew ==
    ASSUME NEW k, k # "assist", NEW p, p = [Idle EXCEPT !.mode = {}]
    PROVE  Track(k, p, "idle", <<>>, <<>>, <<>>, <<>>)
<1>1. p = Idle
  BY DEF Idle
<1>2. /\ Idle.lines = 0 /\ Idle.ext = 0 /\ Idle.gsend = FALSE /\ Idle.gout = <<>>
      /\ Idle.gin = <<>> /\ Idle.mode = {} /\ Idle.flags = {} /\ Idle.stop = {}
  BY DEF Idle
<1>3. Rests(p, "idle", <<>>, <<>>, <<>>, <<>>)
  BY <1>1, <1>2 DEF Rests, Quiet, Gives, Kept
<1>4. <<>> \in Seq({0, 1})
  BY BitSequences
<1> QED
  BY <1>1, <1>2, <1>3, <1>4, IdleGood DEF Track, Handled, ByHand

\* The same, of a program that uses the assist.
LEMMA TrackNewAssist ==
    ASSUME NEW p, p = [Idle EXCEPT !.mode = {"ASSIST"}]
    PROVE  Track("assist", p, "idle", <<>>, <<>>, <<>>, <<>>)
<1>1. Idle \in PortRecord /\ GoodPort(Idle) /\ PortInv(Idle)
  BY IdleGood, FieldTypes DEF PortInv
<1>2. /\ Idle.lines = 0 /\ Idle.ext = 0 /\ Idle.gsend = FALSE /\ Idle.gout = <<>>
      /\ Idle.gin = <<>> /\ Idle.flags = {} /\ Idle.stop = {} /\ Idle.irq = {}
      /\ Idle.aout = <<>> /\ Idle.ainbits = 0
  BY DEF Idle
<1>3. /\ p.lines = Idle.lines /\ p.ext = Idle.ext /\ p.gsend = Idle.gsend /\ p.gout = Idle.gout
      /\ p.gin = Idle.gin /\ p.flags = Idle.flags /\ p.stop = Idle.stop /\ p.irq = Idle.irq
      /\ p.aout = Idle.aout /\ p.ainbits = Idle.ainbits /\ p.ain = Idle.ain
      /\ p.timer = Idle.timer /\ p.mode = {"ASSIST"}
  BY <1>1 DEF PortRecord
<1>4. p \in PortRecord
  <2>1. {"ASSIST"} \in Modes
    BY BridgeAssumption
  <2> QED
    BY <1>1, <2>1 DEF PortRecord
<1>5. PortInv(p)
  BY <1>1, <1>2, <1>3, <1>4 DEF PortInv, GoodPort, Steady, Counted, Timely, PortType, Honest
<1>6. AtRest(p, <<>>, <<>>)
  BY <1>2, <1>3 DEF AtRest, Quiet, Gives, Kept, Reads
<1> QED
  BY <1>2, <1>3, <1>5, <1>6 DEF Track, Found, Settles

BridgeTypes ==
    /\ input \in Seq(Byte) /\ output \in Seq(Byte) /\ linkLock \in BOOLEAN
    /\ pc \in {"top", "batch", "emu", "after", "ended"}
    /\ program \in Programs /\ ppc \in {"idle", "ack", "put", "next", "abort"}
    /\ rx \in Seq({0, 1}) /\ tx \in Seq({0, 1}) /\ Len(tx) < Width
    /\ asked \in Seq(Byte) /\ heard \in Seq(Byte) /\ said \in Seq(Byte)
    /\ ppc = "abort" => program = "quitter"
BridgeInv ==
    /\ BridgeTypes
    /\ \E ins, outs \in Seq(Byte) :
          Track(program, port, ppc, rx, tx, ins, outs) /\ Accounted(ins, outs)

\* The bits that the program has received are not more than a byte's.
LEMMA BitsReceived ==
    ASSUME NEW p, NEW c, NEW r, NEW t, NEW ins \in Seq(Byte), NEW outs,
           Handled(p, c, r, t, ins, outs)
    PROVE  Len(r) <= Width
<1>1. /\ Width \in Nat /\ Len(<<>>) = 0 /\ r \in Seq({0, 1}) /\ Len(r) \in Nat
      /\ p.gout \in Seq({0, 1}) /\ Len(p.gout) \in Nat
  BY FieldTypes, BitSequences DEF Handled, PortInv
<1>2. CASE Offered(p, c, r, t, ins, outs)
  <2> DEFINE s == Append(r, Bit(p.ext))
  <2>1. ins = <<s \o p.gout>> /\ Bit(p.ext) \in {0, 1}
    BY <1>2, Bits DEF Offered
  <2>2. s \in Seq({0, 1}) /\ Len(s) = Len(r) + 1
    BY <1>1, <2>1, BitSequences
  <2> HIDE DEF s
  <2>3. Len(s \o p.gout) = Width
    BY <2>1, OneByte
  <2>4. Width = Len(s) + Len(p.gout)
    BY <1>1, <2>2, <2>3, BitsJoined
  <2>5. Width = (Len(r) + 1) + Len(p.gout)
    BY <2>2, <2>4
  <2>6. \A a, b \in Nat : a <= (a + 1) + b
    OBVIOUS
  <2> QED
    BY <1>1, <2>5, <2>6
<1>3. CASE Taken(p, c, r, t, ins, outs)
  <2>1. Len(r \o p.gout) = Width
    BY <1>3, OneByte DEF Taken
  <2>2. Width = Len(r) + Len(p.gout)
    BY <1>1, <2>1, BitsJoined
  <2> QED
    BY <1>1, <2>2
<1>4. CASE r = <<>>
  BY <1>1, <1>4
<1> QED
  BY <1>2, <1>3, <1>4 DEF Handled, ByHand, Rests, Puts, PutsEarly, Pauses, Clashes, Aborts

\* What InFlight takes from the lines is what is on its way to the program.
LEMMA WholeIns ==
    ASSUME NEW x, NEW ins \in Seq(Byte), ins = <<x>>
    PROVE  x # <<>>
  BY OneByte, WidthAssumption, BitSequences

\* InFlight, read off the port, the lines and the program, is what is on its way.
LEMMA InFlightIs ==
    ASSUME NEW ins \in Seq(Byte), NEW outs \in Seq(Byte),
           Track(program, port, ppc, rx, tx, ins, outs)
    PROVE  InFlight = ins
<1> DEFINE bits == rx \o WireIn \o port.gout
           whole == IF "READ_BYTE" \in port.flags THEN <<port.ain>> ELSE <<>>
<1>0. InFlight = IF bits = <<>> THEN whole ELSE Append(whole, bits)
  BY DEF InFlight
<1>1. PortInv(port) /\ port.gout \in Seq({0, 1}) /\ rx \in Seq({0, 1})
  <2>1. PortInv(port) /\ rx \in Seq({0, 1})
    BY BitSequences DEF Track, Found, Handled
  <2> QED
    BY <2>1, FieldTypes DEF PortInv
<1>2. \A s \in Seq({0, 1}) : <<>> \o s = s /\ s \o <<>> = s
  BY ConcatEmptySeq
<1>3. \A l \in {1, 2} : /\ (IF l = 2 THEN 1 ELSE 0) = Bit(l)
                        /\ rx \o <<Bit(l)>> = Append(rx, Bit(l))
                        /\ <<>> \o <<Bit(l)>> = <<Bit(l)>>
                        /\ <<Bit(l)>> \in Seq({0, 1})
  <2> SUFFICES ASSUME NEW l \in {1, 2}
               PROVE  /\ (IF l = 2 THEN 1 ELSE 0) = Bit(l)
                      /\ rx \o <<Bit(l)>> = Append(rx, Bit(l))
                      /\ <<>> \o <<Bit(l)>> = <<Bit(l)>>
                      /\ <<Bit(l)>> \in Seq({0, 1})
    OBVIOUS
  <2>1. Bit(l) \in {0, 1} /\ (IF l = 2 THEN 1 ELSE 0) = Bit(l)
    BY Bits DEF Bit
  <2>2. <<Bit(l)>> \in Seq({0, 1})
    BY <2>1
  <2> QED
    BY <1>1, <1>2, <2>1, <2>2, AppendIsConcat
<1>4. WireIn = IF port.gsend /\ port.ext # 0 /\ ppc # "ack"
                 THEN <<IF port.ext = 2 THEN 1 ELSE 0>> ELSE <<>>
  BY DEF WireIn
<1>5. ASSUME ~port.gsend \/ port.ext = 0 \/ ppc = "ack" PROVE bits = rx \o port.gout
  <2>1. WireIn = <<>>
    BY <1>4, <1>5
  <2> QED
    BY <1>1, <1>2, <2>1
<1>6. ASSUME port.gsend, port.ext \in {1, 2}, ppc # "ack"
      PROVE  bits = Append(rx, Bit(port.ext)) \o port.gout
  <2>1. WireIn = <<Bit(port.ext)>>
    BY <1>3, <1>4, <1>6
  <2> QED
    BY <1>3, <1>6, <2>1
<1> HIDE DEF bits
<1>7. CASE program # "assist"
  <2>1. Handled(port, ppc, rx, tx, ins, outs)
    BY <1>7 DEF Track
  <2>2. whole = <<>>
    BY <2>1 DEF Handled, ByHand
  <2>3. \A x : Append(<<>>, x) = <<x>>
    BY ShortSequences
  <2>4. CASE Offered(port, ppc, rx, tx, ins, outs)
    <3>1. ins = <<bits>>
      BY <1>6, <2>4 DEF Offered, Takes
    <3>2. bits # <<>>
      BY <3>1, WholeIns
    <3> QED
      BY <1>0, <2>2, <2>3, <3>1, <3>2
  <2>5. CASE Taken(port, ppc, rx, tx, ins, outs)
    <3>1. ins = <<bits>>
      BY <1>5, <2>5 DEF Taken
    <3>2. bits # <<>>
      BY <3>1, WholeIns
    <3> QED
      BY <1>0, <2>2, <2>3, <3>1, <3>2
  <2>6. CASE Clashes(port, ppc, rx, tx, ins, outs)
    <3>1. bits = port.gout
      BY <1>1, <1>2, <1>5, <2>6 DEF Clashes
    <3>2. ins = <<bits>>
      BY <2>6, <3>1 DEF Clashes
    <3>3. bits # <<>>
      BY <3>2, WholeIns
    <3> QED
      BY <1>0, <2>2, <2>3, <3>2, <3>3
  <2>7. CASE ~port.gsend /\ port.gout = <<>> /\ rx = <<>> /\ ins = <<>>
    <3>1. bits = <<>>
      BY <1>1, <1>2, <1>5, <2>7
    <3> QED
      BY <1>0, <2>2, <2>7, <3>1
  <2> QED
    BY <2>1, <2>4, <2>5, <2>6, <2>7
       DEF Handled, ByHand, Rests, Puts, PutsEarly, Pauses, Aborts, Gives
<1>8. CASE program = "assist"
  <2>1. Settles(port, ins, outs) /\ rx = <<>> /\ ppc = "idle"
    BY <1>8 DEF Track, Found
  <2>2. CASE AtRest(port, ins, outs)
    <3>1. bits = <<>>
      BY <1>1, <1>2, <1>5, <2>1, <2>2 DEF AtRest, Gives
    <3>2. whole = ins
      BY <2>2 DEF AtRest, HasByte, Reads
    <3> QED
      BY <1>0, <3>1, <3>2
  <2>3. CASE Waits(port, ins, outs)
    <3>1. bits = <<Bit(port.ext)>> \o port.gout
      <4>1. Append(<<>>, Bit(port.ext)) = <<Bit(port.ext)>>
        BY ShortSequences
      <4> QED
        BY <1>6, <2>1, <2>3, <4>1 DEF Waits, Takes
    <3>2. whole = <<port.ain>> /\ ins = <<port.ain, bits>>
      BY <2>3, <3>1 DEF Waits, HasByte
    <3>3. Append(<<port.ain>>, bits) = <<port.ain, bits>>
      BY ShortSequences
    <3>4. bits # <<>>
      BY <3>2, TwoBytesOf, WidthAssumption, BitSequences
    <3> QED
      BY <1>0, <3>2, <3>3, <3>4
  <2>4. CASE WritesEarly(port, ins, outs)
    <3>1. bits = <<>>
      BY <1>1, <1>2, <1>5, <2>1, <2>4 DEF WritesEarly, Gives
    <3>2. whole = ins
      BY <2>4 DEF WritesEarly, Writes
    <3> QED
      BY <1>0, <3>1, <3>2
  <2>5. CASE Collides(port, ins, outs)
    <3>1. bits = port.gout
      BY <1>1, <1>2, <1>5, <2>1, <2>5 DEF Collides
    <3>2. whole = <<>> /\ ins = <<bits>>
      BY <2>5, <3>1 DEF Collides, Writes
    <3>3. bits # <<>>
      BY <3>2, WholeIns
    <3>4. Append(<<>>, bits) = <<bits>>
      BY ShortSequences
    <3> QED
      BY <1>0, <3>2, <3>3, <3>4
  <2> QED
    BY <2>1, <2>2, <2>3, <2>4, <2>5 DEF Settles
<1> QED
  BY <1>7, <1>8

\* The invariant says what the properties say.
LEMMA BridgeSays ==
    ASSUME BridgeInv
    PROVE  NothingLost /\ BytesStayWhole
<1>1. PICK ins \in Seq(Byte), outs \in Seq(Byte) :
        Track(program, port, ppc, rx, tx, ins, outs) /\ Accounted(ins, outs)
  BY DEF BridgeInv
<1>2. BridgeType
  <2>1. PortType(port)
    BY <1>1 DEF Track, Found, Handled, PortInv, GoodPort, Steady
  <2>2. Len(rx) <= Width
    <3>1. CASE program = "assist"
      BY <1>1, <3>1, WidthAssumption, BitSequences DEF Track
    <3>2. CASE program # "assist"
      BY <1>1, <3>2, BitsReceived DEF Track
    <3> QED
      BY <3>1, <3>2
  <2> QED
    BY <2>1, <2>2 DEF BridgeInv, BridgeTypes, BridgeType
<1>3. /\ asked \in Seq(Byte) /\ heard \in Seq(Byte) /\ said \in Seq(Byte)
      /\ input \in Seq(Byte) /\ output \in Seq(Byte) /\ heard \o ins \in Seq(Byte)
      /\ ins \o input \in Seq(Byte) /\ <<>> \in Seq(Byte)
      /\ (heard \o ins) \o input \in Seq(Byte) /\ output \o outs \in Seq(Byte)
  BY ConcatProperties, EmptySeq DEF BridgeInv, BridgeTypes
<1>4. NothingLost
  <2> SUFFICES ASSUME program # "quitter"
               PROVE  asked = heard \o InFlight \o input /\ IsPrefix(output, said)
    BY <1>2 DEF NothingLost
  <2>1. asked = (heard \o ins) \o input /\ said = output \o outs
    BY <1>1 DEF Accounted, Follows
  <2>2. IsPrefix(output, output \o outs)
    BY <1>3, PrefixOfJoined
  <2> QED
    BY <1>1, <2>1, <2>2, InFlightIs
<1>5. BytesStayWhole
  <2>1. IsSubsequence(heard, asked)
    <3>1. (heard \o ins) \o input = heard \o (ins \o input)
      <4>1. heard \in Seq(Byte) /\ input \in Seq(Byte)
        BY <1>3
      <4> QED
        BY <4>1, ConcatAssociative
    <3> DEFINE m == ins \o input
    <3>2. m \o <<>> = m /\ heard \o <<>> = heard /\ m \in Seq(Byte)
      BY <1>3, ConcatEmptySeq
    <3> HIDE DEF m
    <3>3. IsSubsequence(heard \o <<>>, heard \o (m \o <<>>))
      BY <1>3, <3>2, SubsequenceWithout
    <3>4. IsSubsequence(heard, heard \o m)
      BY <3>2, <3>3
    <3>5. IsSubsequence(heard \o m, asked) /\ heard \o m \in Seq(Byte)
      BY <1>1, <1>3, <3>1 DEF Accounted, Follows, m
    <3> QED
      BY <1>3, <3>4, <3>5, SubsequenceOfNext
  <2>2. IsSubsequence(output, said)
    <3>1. outs \o <<>> = outs /\ output \o <<>> = output
      BY <1>3, ConcatEmptySeq
    <3>2. IsSubsequence(output \o <<>>, output \o (outs \o <<>>))
      BY <1>3, SubsequenceWithout
    <3>3. IsSubsequence(output, output \o outs)
      BY <3>1, <3>2
    <3>4. IsSubsequence(output \o outs, said)
      BY <1>1 DEF Accounted, Follows
    <3> QED
      BY <1>3, <3>3, <3>4, SubsequenceOfNext
  <2> QED
    BY <2>1, <2>2 DEF BytesStayWhole
<1> QED
  BY <1>4, <1>5

-----------------------------------------------------------------------------
(* The steps of the bridge.                                                *)

\* The types that a step has to keep: the bits of both sides are the port's business.
LEMMA BridgeKept ==
    ASSUME BridgeTypes, program' = program,
           input' \in Seq(Byte), output' \in Seq(Byte), linkLock' \in BOOLEAN,
           pc' \in {"top", "batch", "emu", "after", "ended"},
           ppc' \in {"idle", "ack", "put", "next", "abort"},
           ppc' = "abort" => program = "quitter", Len(tx') < Width,
           asked' \in Seq(Byte), heard' \in Seq(Byte), said' \in Seq(Byte),
           NEW i \in Seq(Byte), NEW o \in Seq(Byte),
           Track(program, port', ppc', rx', tx', i, o),
           Follows((heard' \o i) \o input', asked'), Follows(output' \o o, said')
    PROVE  BridgeInv'
<1>1. rx' \in Seq({0, 1}) /\ tx' \in Seq({0, 1})
  BY BitSequences DEF Track, Handled
<1>2. BridgeTypes'
  BY <1>1 DEF BridgeTypes
<1>3. Track(program', port', ppc', rx', tx', i, o)
  OBVIOUS
<1>4. Accounted(i, o)'
  BY DEF Accounted, Follows
<1> QED
  BY <1>2, <1>3, <1>4 DEF BridgeInv

\* What the first bytes and the last ones follow, they follow without those between.
LEMMA Dropped ==
    ASSUME NEW a \in Seq(Byte), NEW m \in Seq(Byte), NEW u \in Seq(Byte), NEW s \in Seq(Byte),
           Follows((a \o m) \o u, s), program = "quitter"
    PROVE  Follows((a \o <<>>) \o u, s)
<1>1. a \o <<>> = a /\ (a \o m) \o u = a \o (m \o u) /\ m \o u \in Seq(Byte)
  BY ConcatAssociative, ConcatEmptySeq, ConcatProperties
<1>2. a \o u \in Seq(Byte) /\ a \o (m \o u) \in Seq(Byte)
  BY <1>1, ConcatProperties
<1>3. IsSubsequence(a \o u, a \o (m \o u))
  BY SubsequenceWithout
<1>4. Follows(a \o (m \o u), s)
  BY <1>1
<1> QED
  BY <1>1, <1>2, <1>3, <1>4, LessFollows

\* The host sends a byte: it is the last of those to go.
LEMMA HostStep ==
    ASSUME BridgeInv, HostSend
    PROVE  BridgeInv'
<1>1. PICK ins \in Seq(Byte), outs \in Seq(Byte) :
        Track(program, port, ppc, rx, tx, ins, outs) /\ Accounted(ins, outs)
  BY DEF BridgeInv
<1>2. PICK b \in Byte : asked' = Append(asked, b) /\ input' = Append(input, b)
  BY DEF HostSend
<1>3. /\ input \in Seq(Byte) /\ asked \in Seq(Byte) /\ heard \in Seq(Byte)
      /\ heard \o ins \in Seq(Byte)
  BY ConcatProperties DEF BridgeInv, BridgeTypes
<1>4. /\ (heard \o ins) \o input \in Seq(Byte)
      /\ (heard \o ins) \o Append(input, b) = Append((heard \o ins) \o input, b)
      /\ Append(input, b) \in Seq(Byte) /\ Append(asked, b) \in Seq(Byte)
  <2>1. Append(input, b) \in Seq(Byte) /\ Append(asked, b) \in Seq(Byte)
    BY <1>3, AppendProperties
  <2> QED
    BY <1>3, <2>1, MovesOn
<1>5. Follows((heard \o ins) \o Append(input, b), Append(asked, b))
  BY <1>1, <1>3, <1>4, MoreFollows DEF Accounted
<1> QED
  BY <1>1, <1>2, <1>3, <1>4, <1>5, BridgeKept
     DEF BridgeInv, BridgeTypes, HostSend, progVars, Accounted

\* Calc::run leaves the port alone but for the stop reasons it clears and the error it
\* handles.
LEMMA RunStep ==
    ASSUME BridgeInv, TopLocked \/ BatchEnd \/ EmuEnd \/ After \/ AfterError \/ Restart
    PROVE  BridgeInv'
<1>1. PICK ins \in Seq(Byte), outs \in Seq(Byte) :
        Track(program, port, ppc, rx, tx, ins, outs) /\ Accounted(ins, outs)
  BY DEF BridgeInv
<1>2. \/ port' = NoStop(port) \/ port' = port
      \/ "ERROR" \in port.stop /\ port' = GrayReset(port)
  BY DEF TopLocked, BatchEnd, EmuEnd, After, AfterError, Restart, progVars
<1>3. Track(program, port', ppc, rx, tx, ins, outs)
  BY <1>1, <1>2, TrackNoStop, TrackReset
<1>4. /\ UNCHANGED <<input, output, progVars, asked, program>>
      /\ linkLock' \in BOOLEAN /\ pc' \in {"top", "batch", "emu", "after", "ended"}
  BY DEF TopLocked, BatchEnd, EmuEnd, After, AfterError, Restart, BridgeInv, BridgeTypes, progVars
<1> QED
  BY <1>1, <1>3, <1>4, BridgeKept DEF BridgeInv, BridgeTypes, progVars, Accounted

\* A byte that the gray link is given leaves m_input, and is on its way or, if the program
\* has just given one up, lost.
LEMMA SentOn ==
    ASSUME BridgeTypes, NEW ins \in Seq(Byte), NEW outs \in Seq(Byte),
           Track(program, port, ppc, rx, tx, ins, outs), Accounted(ins, outs),
           input # <<>>, GrayReady(port), NEW q, q = GraySend(NoStop(port), Head(input))
    PROVE  \E i \in Seq(Byte) : /\ Track(program, q, ppc, rx, tx, i, outs)
                                /\ Follows((heard \o i) \o Tail(input), asked)
<1> DEFINE b == Head(input)
           more == Append(ins, b)
<1>1. /\ heard \in Seq(Byte) /\ input \in Seq(Byte) /\ asked \in Seq(Byte)
      /\ b \in Byte /\ Tail(input) \in Seq(Byte)
  BY HeadTailProperties DEF BridgeTypes
<1>2. GrayReady(NoStop(port))
  <2>1. PortInv(port)
    BY DEF Track, Found, Handled
  <2> QED
    BY <2>1, NoStopIs DEF GrayReady
<1>3. Track(program, NoStop(port), ppc, rx, tx, ins, outs)
  BY TrackNoStop
<1>4. Track(program, q, ppc, rx, tx, IF ppc = "abort" THEN ins ELSE more, outs)
  BY <1>1, <1>2, <1>3, TrackGiven
<1>5. Follows((heard \o ins) \o input, asked)
  BY DEF Accounted
<1>6. CASE ppc # "abort"
  <2>1. heard \o ins \in Seq(Byte) /\ more \in Seq(Byte)
    BY <1>1, ConcatProperties, AppendProperties
  <2>2. heard \o more = Append(heard \o ins, b)
    BY <1>1, MovesOn
  <2>3. Append(heard \o ins, b) \o Tail(input) = (heard \o ins) \o input
    <3>1. /\ heard \o ins \in Seq(Byte) /\ input \in Seq(Byte)
          /\ b = Head(input)
      BY <1>1, <2>1
    <3> HIDE DEF b, more
    <3>2. ASSUME NEW u \in Seq(Byte), NEW v \in Seq(Byte), v # <<>>
          PROVE  Append(u, Head(v)) \o Tail(v) = u \o v
      BY <3>2, Joining
    <3> QED
      BY <3>1, <3>2
  <2>4. Follows((heard \o more) \o Tail(input), asked)
    BY <1>5, <2>2, <2>3
  <2>5. Track(program, q, ppc, rx, tx, more, outs)
    BY <1>4, <1>6
  <2> HIDE DEF more
  <2> QED
    BY <2>1, <2>4, <2>5
<1>7. CASE ppc = "abort"
  <2> DEFINE m == <<b>>
             l == heard \o ins
  <2>1. program = "quitter" /\ m \in Seq(Byte) /\ l \in Seq(Byte)
    BY <1>1, <1>7, ConcatProperties DEF BridgeTypes
  <2>2. input = m \o Tail(input)
    BY <1>1, Joining
  <2>3. l \o Tail(input) \in Seq(Byte) /\ l \o input \in Seq(Byte)
    BY <1>1, <2>1, ConcatProperties
  <2> HIDE DEF m, l
  <2>4. IsSubsequence(l \o Tail(input), l \o (m \o Tail(input)))
    BY <1>1, <2>1, SubsequenceWithout
  <2>5. IsSubsequence(l \o Tail(input), l \o input)
    BY <2>2, <2>4
  <2>6. Follows(l \o Tail(input), asked)
    BY <1>1, <1>5, <2>1, <2>3, <2>5, LessFollows DEF l
  <2>7. Track(program, q, ppc, rx, tx, ins, outs)
    BY <1>4, <1>7
  <2> QED
    BY <2>6, <2>7 DEF l
<1> QED
  BY <1>6, <1>7

\* Calc::run gives the gray link a byte, the first or one of a batch.
LEMMA GiveStep ==
    ASSUME BridgeInv, TopSend \/ BatchSend
    PROVE  BridgeInv'
<1>1. PICK ins \in Seq(Byte), outs \in Seq(Byte) :
        Track(program, port, ppc, rx, tx, ins, outs) /\ Accounted(ins, outs)
  BY DEF BridgeInv
<1>2. /\ input # <<>> /\ UNCHANGED <<output, ppc, rx, tx, heard, said, asked, program>>
      /\ linkLock' \in BOOLEAN /\ pc' \in {"top", "batch", "emu", "after", "ended"}
  BY DEF TopSend, BatchSend, BridgeInv, BridgeTypes, progVars
<1> DEFINE q == GraySend(NoStop(port), Head(input))
<1>3. \/ GrayReady(port) /\ input' = Tail(input) /\ (port' = q \/ port' = NoStop(q))
      \/ input' = input /\ port' = NoStop(port)
  BY DEF TopSend, BatchSend
<1> HIDE DEF q
<1>4. input \in Seq(Byte) /\ Tail(input) \in Seq(Byte)
  BY <1>2, HeadTailProperties DEF BridgeInv, BridgeTypes
<1>5. CASE input' = input /\ port' = NoStop(port)
  <2>1. Track(program, port', ppc, rx, tx, ins, outs)
    BY <1>1, <1>5, TrackNoStop
  <2> QED
    BY <1>1, <1>2, <1>5, <2>1, BridgeKept DEF BridgeInv, BridgeTypes, Accounted
<1>6. CASE GrayReady(port) /\ input' = Tail(input) /\ (port' = q \/ port' = NoStop(q))
  <2>1. BridgeTypes
    BY DEF BridgeInv
  <2>2. PICK i \in Seq(Byte) : /\ Track(program, q, ppc, rx, tx, i, outs)
                               /\ Follows((heard \o i) \o Tail(input), asked)
    BY <1>1, <1>2, <1>6, <2>1, SentOn DEF q
  <2>3. Track(program, port', ppc, rx, tx, i, outs)
    BY <1>6, <2>2, TrackNoStop
  <2> QED
    BY <1>1, <1>2, <1>4, <1>6, <2>2, <2>3, BridgeKept DEF BridgeInv, BridgeTypes, Accounted
<1> QED
  BY <1>3, <1>5, <1>6

\* It fetches a whole byte, the first of those on their way to the host.
LEMMA FetchStep ==
    ASSUME BridgeInv, TopGet
    PROVE  BridgeInv'
<1>1. PICK ins \in Seq(Byte), outs \in Seq(Byte) :
        Track(program, port, ppc, rx, tx, ins, outs) /\ Accounted(ins, outs)
  BY DEF BridgeInv
<1>2. /\ UNCHANGED <<input, linkLock, ppc, rx, tx, heard, said, asked, program>>
      /\ pc' = "emu" /\ port' = NoStop(GrayGet(port))
      /\ output' = IF GrayGetHas(port) THEN Append(output, GrayGetByte(port)) ELSE output
  BY DEF TopGet, progVars
<1>3. output \in Seq(Byte) /\ said \in Seq(Byte)
  BY DEF BridgeInv, BridgeTypes
<1>4. CASE ~GrayGetHas(port)
  <2>1. Track(program, GrayGet(port), ppc, rx, tx, ins, outs)
    BY <1>1, <1>4, TrackFetched
  <2>2. Track(program, port', ppc, rx, tx, ins, outs)
    BY <1>2, <2>1, TrackNoStop
  <2> QED
    BY <1>1, <1>2, <1>4, <2>2, BridgeKept DEF BridgeInv, BridgeTypes, Accounted
<1>5. CASE GrayGetHas(port)
  <2>1. /\ outs # <<>> /\ Head(outs) = GrayGetByte(port)
        /\ Track(program, GrayGet(port), ppc, rx, tx, ins, Tail(outs))
    BY <1>1, <1>5, TrackFetched
  <2>2. Track(program, port', ppc, rx, tx, ins, Tail(outs))
    BY <1>2, <2>1, TrackNoStop
  <2>3. Head(outs) \in Byte /\ Tail(outs) \in Seq(Byte)
    BY <2>1, HeadTailProperties
  <2>4. output' = Append(output, Head(outs))
    BY <1>2, <1>5, <2>1
  <2>5. output' \in Seq(Byte) /\ output' \o Tail(outs) = output \o outs
    BY <1>3, <2>1, <2>3, <2>4, Joining, AppendProperties
  <2>6. Follows(output' \o Tail(outs), said)
    BY <1>1, <2>5 DEF Accounted
  <2> QED
    BY <1>1, <1>2, <2>2, <2>3, <2>5, <2>6, BridgeKept DEF BridgeInv, BridgeTypes, Accounted
<1> QED
  BY <1>4, <1>5

\* A ROM is loaded again: what was on its way through the port is dropped.
LEMMA ReloadStep ==
    ASSUME BridgeInv, Reload
    PROVE  BridgeInv'
<1>1. PICK ins \in Seq(Byte), outs \in Seq(Byte) :
        Track(program, port, ppc, rx, tx, ins, outs) /\ Accounted(ins, outs)
  BY DEF BridgeInv
<1>2. /\ program = "quitter" /\ port' = [Idle EXCEPT !.mode = {}] /\ linkLock' = FALSE
      /\ pc' = "top" /\ ppc' = "idle" /\ rx' = <<>> /\ tx' = <<>>
      /\ UNCHANGED <<input, output, heard, said, asked, program>>
  BY DEF Reload, NewPort, UsesAssist
<1>3. /\ input \in Seq(Byte) /\ output \in Seq(Byte) /\ heard \in Seq(Byte)
      /\ said \in Seq(Byte) /\ asked \in Seq(Byte) /\ <<>> \in Seq(Byte)
      /\ Len(<<>>) < Width
  BY EmptySeq, WidthAssumption, BitSequences DEF BridgeInv, BridgeTypes
<1>4. Track(program, port', "idle", <<>>, <<>>, <<>>, <<>>)
  BY <1>2, TrackNew
<1>5. Follows((heard \o <<>>) \o input, asked)
  BY <1>1, <1>2, <1>3, Dropped DEF Accounted
<1>6. Follows(output \o <<>>, said)
  <2>1. /\ output \o outs \in Seq(Byte) /\ (output \o outs) \o <<>> = output \o outs
        /\ output \o <<>> \in Seq(Byte) /\ (output \o <<>>) \o <<>> = output \o <<>>
    BY <1>3, ConcatProperties, ConcatEmptySeq
  <2>2. Follows((output \o outs) \o <<>>, said)
    BY <1>1, <2>1 DEF Accounted
  <2>3. Follows((output \o <<>>) \o <<>>, said)
    BY <1>2, <1>3, <2>2, Dropped
  <2> QED
    BY <2>1, <2>3
<1> QED
  BY <1>2, <1>3, <1>4, <1>5, <1>6, BridgeKept DEF BridgeInv

\* A step of the program that hears and says no whole byte: i and o go on as they were.
LEMMA AccessKept ==
    ASSUME BridgeTypes, UNCHANGED <<runVars, asked, heard, said, program>>,
           ppc' \in {"idle", "ack", "put", "next"}, Len(tx') < Width,
           NEW ins \in Seq(Byte), NEW outs \in Seq(Byte), Accounted(ins, outs),
           Track(program, port', ppc', rx', tx', ins, outs)
    PROVE  BridgeInv'
<1>1. /\ UNCHANGED <<input, output, linkLock, pc, asked, heard, said, program>>
      /\ ppc' \in {"idle", "ack", "put", "next", "abort"} /\ ppc' # "abort"
  BY DEF runVars
<1> QED
  BY <1>1, BridgeKept DEF BridgeTypes, Accounted

\* A bit is taken.
LEMMA TakeStep ==
    ASSUME BridgeInv, TakeBit
    PROVE  BridgeInv'
<1>1. PICK ins \in Seq(Byte), outs \in Seq(Byte) :
        Track(program, port, ppc, rx, tx, ins, outs) /\ Accounted(ins, outs)
  BY DEF BridgeInv
<1>2. /\ program # "assist" /\ port.stop = {} /\ ppc = "idle" /\ tx = <<>>
      /\ port.ext \in {1, 2} /\ ppc' = "ack" /\ tx' = tx
      /\ rx' = Append(rx, Bit(port.ext)) /\ port' = PortWrite(port, Opposite(port.ext))
      /\ UNCHANGED <<runVars, asked, heard, said, program>>
  BY DEF TakeBit, CanTakeBit, Running, Access, UsesAssist, Bit
<1>3. Handled(port, "idle", rx, <<>>, ins, outs)
  BY <1>1, <1>2 DEF Track
<1>4. Handled(port', "ack", rx', tx', ins, outs)
  BY <1>2, <1>3, HandTakes
<1>5. Track(program, port', ppc', rx', tx', ins, outs)
  BY <1>2, <1>4 DEF Track
<1> QED
  BY <1>1, <1>2, <1>5, AccessKept DEF BridgeInv, BridgeTypes

\* A bit has been taken and, of a byte, the last one: the first byte of those on their way
\* has been heard.
LEMMA Heard ==
    ASSUME BridgeTypes, UNCHANGED <<runVars, asked, said, program>>,
           ppc' = "idle", Len(tx') < Width,
           NEW ins \in Seq(Byte), NEW outs \in Seq(Byte), Accounted(ins, outs),
           ins # <<>>, heard' = Append(heard, Head(ins)),
           Track(program, port', ppc', rx', tx', Tail(ins), outs)
    PROVE  BridgeInv'
<1>1. UNCHANGED <<input, output, linkLock, pc, asked, said, program>>
  BY DEF runVars
<1>2. heard \in Seq(Byte) /\ Head(ins) \in Byte /\ Tail(ins) \in Seq(Byte)
  BY HeadTailProperties DEF BridgeTypes
<1>3. heard' \in Seq(Byte) /\ heard' \o Tail(ins) = heard \o ins
  BY <1>2, Joining, AppendProperties
<1>4. Follows((heard' \o Tail(ins)) \o input, asked)
  BY <1>3 DEF Accounted
<1> QED
  BY <1>1, <1>2, <1>3, <1>4, BridgeKept DEF BridgeTypes, Accounted

\* The line of a bit that was taken is released.
LEMMA EndStep ==
    ASSUME BridgeInv, EndBit
    PROVE  BridgeInv'
<1>1. PICK ins \in Seq(Byte), outs \in Seq(Byte) :
        Track(program, port, ppc, rx, tx, ins, outs) /\ Accounted(ins, outs)
  BY DEF BridgeInv
<1>2. /\ port.stop = {} /\ ppc = "ack" /\ ppc' = "idle" /\ tx' = tx
      /\ IF Len(rx) = Width THEN rx' = <<>> /\ heard' = Append(heard, rx)
                            ELSE UNCHANGED <<rx, heard>>
      /\ port' = PortWrite(port, 0)
      /\ UNCHANGED <<runVars, asked, said, program>>
  BY DEF EndBit, CanEndBit, Running, Access
<1>3. program # "assist" /\ Handled(port, "ack", rx, tx, ins, outs)
  BY <1>1, <1>2 DEF Track
<1>4. /\ Len(rx) = Width => ins = <<rx>> /\ Handled(port', "idle", <<>>, tx, <<>>, outs)
      /\ Len(rx) # Width => Handled(port', "idle", rx, tx, ins, outs)
  BY <1>2, <1>3, HandEnds
<1>5. CASE Len(rx) = Width
  <2>1. ins # <<>> /\ Head(ins) = rx /\ Tail(ins) = <<>>
    BY <1>4, <1>5, ShortSequences
  <2>2. Track(program, port', ppc', rx', tx', Tail(ins), outs)
    BY <1>2, <1>3, <1>4, <1>5, <2>1 DEF Track
  <2> QED
    BY <1>1, <1>2, <1>5, <2>1, <2>2, Heard DEF BridgeInv, BridgeTypes
<1>6. CASE Len(rx) # Width
  <2>1. Track(program, port', ppc', rx', tx', ins, outs)
    BY <1>2, <1>3, <1>4, <1>6 DEF Track
  <2> QED
    BY <1>1, <1>2, <1>6, <2>1, AccessKept DEF BridgeInv, BridgeTypes
<1> QED
  BY <1>5, <1>6

\* The program reads a byte of the assist's.
LEMMA HearStep ==
    ASSUME BridgeInv, AssistHears
    PROVE  BridgeInv'
<1>1. PICK ins \in Seq(Byte), outs \in Seq(Byte) :
        Track(program, port, ppc, rx, tx, ins, outs) /\ Accounted(ins, outs)
  BY DEF BridgeInv
<1>2. /\ program = "assist" /\ "READ_BYTE" \in port.flags
      /\ heard' = Append(heard, port.ain) /\ port' = ReadByte(port)
      /\ UNCHANGED <<ppc, rx, tx, runVars, asked, said, program>>
  BY DEF AssistHears, CanHear, UsesAssist, Access
<1>3. Found(port, ins, outs) /\ ppc = "idle" /\ rx = <<>> /\ tx = <<>>
  BY <1>1, <1>2 DEF Track
<1>4. ins # <<>> /\ Head(ins) = port.ain /\ Found(port', Tail(ins), outs)
  BY <1>2, <1>3, AssistHeard
<1>5. Track(program, port', ppc', rx', tx', Tail(ins), outs)
  BY <1>2, <1>3, <1>4 DEF Track
<1> QED
  BY <1>1, <1>2, <1>3, <1>4, <1>5, Heard DEF BridgeInv, BridgeTypes

\* A byte is said: it is the last of those on their way to the host.
LEMMA Said ==
    ASSUME BridgeTypes, UNCHANGED <<runVars, asked, heard, program>>,
           ppc' \in {"idle", "put"}, Len(tx') < Width,
           NEW ins \in Seq(Byte), NEW outs \in Seq(Byte), Accounted(ins, outs),
           NEW b \in Byte, said' = Append(said, b),
           Track(program, port', ppc', rx', tx', ins, Append(outs, b))
    PROVE  BridgeInv'
<1>1. UNCHANGED <<input, output, linkLock, pc, asked, heard, program>>
  BY DEF runVars
<1>2. output \in Seq(Byte) /\ said \in Seq(Byte)
  BY DEF BridgeTypes
<1>3. /\ output \o outs \in Seq(Byte) /\ Append(outs, b) \in Seq(Byte)
      /\ Append(said, b) \in Seq(Byte)
      /\ output \o Append(outs, b) = Append(output \o outs, b)
  BY <1>2, MovesOn
<1>4. Follows(output \o outs, said)
  BY DEF Accounted
<1>5. Follows(Append(output \o outs, b), Append(said, b))
  BY <1>2, <1>3, <1>4, MoreFollows
<1>6. Follows(output \o Append(outs, b), said')
  BY <1>3, <1>5
<1> HIDE DEF Follows
<1>7. ppc' \in {"idle", "ack", "put", "next", "abort"} /\ ppc' # "abort"
  OBVIOUS
<1> QED
  BY <1>1, <1>3, <1>6, <1>7, BridgeKept DEF BridgeTypes, Accounted

\* A program that drives the lines begins a byte.
LEMMA SayStep ==
    ASSUME BridgeInv, Say
    PROVE  BridgeInv'
<1>1. PICK ins \in Seq(Byte), outs \in Seq(Byte) :
        Track(program, port, ppc, rx, tx, ins, outs) /\ Accounted(ins, outs)
  BY DEF BridgeInv
<1>2. /\ program # "assist" /\ port.stop = {} /\ ppc = "idle" /\ rx = <<>> /\ tx = <<>>
      /\ port.ext = 0 /\ ppc' = "put" /\ rx' = rx
      /\ UNCHANGED <<runVars, asked, heard, program>>
  BY DEF Say, Running, Access, UsesAssist
<1>3. PICK b \in Byte : /\ tx' = Tail(b) /\ said' = Append(said, b)
                        /\ port' = PortWrite(port, LineOf(Head(b)))
  BY DEF Say, Access
<1>4. Handled(port, "idle", <<>>, <<>>, ins, outs)
  BY <1>1, <1>2 DEF Track
<1>5. Handled(port', "put", rx', tx', ins, Append(outs, b)) /\ Len(tx') < Width
  BY <1>2, <1>3, <1>4, HandSays
<1>6. Track(program, port', ppc', rx', tx', ins, Append(outs, b))
  BY <1>2, <1>5 DEF Track
<1> QED
  BY <1>1, <1>2, <1>3, <1>5, <1>6, Said DEF BridgeInv

\* A program that uses the assist gives it a byte.
LEMMA AssistSayStep ==
    ASSUME BridgeInv, AssistSays
    PROVE  BridgeInv'
<1>1. PICK ins \in Seq(Byte), outs \in Seq(Byte) :
        Track(program, port, ppc, rx, tx, ins, outs) /\ Accounted(ins, outs)
  BY DEF BridgeInv
<1>2. /\ program = "assist"
      /\ port.flags \cap {"READ_BYTE", "READ_BUSY", "WRITE_BUSY"} = {}
      /\ UNCHANGED <<ppc, rx, tx, runVars, asked, heard, program>>
  BY DEF AssistSays, UsesAssist, Access
<1>3. PICK b \in Byte : said' = Append(said, b) /\ port' = WriteByte(port, b)
  BY DEF AssistSays, Access
<1>4. Found(port, ins, outs) /\ ppc = "idle" /\ rx = <<>> /\ tx = <<>>
  BY <1>1, <1>2 DEF Track
<1>5. Found(port', ins, Append(outs, b))
  BY <1>2, <1>3, <1>4, AssistSaid
<1>6. Track(program, port', ppc', rx', tx', ins, Append(outs, b))
  BY <1>2, <1>4, <1>5 DEF Track
<1> QED
  BY <1>1, <1>2, <1>3, <1>4, <1>6, Said DEF BridgeInv, BridgeTypes

\* A bit that was put is acknowledged, or the next one is put.
LEMMA AckedStep ==
    ASSUME BridgeInv, Acked
    PROVE  BridgeInv'
<1>1. PICK ins \in Seq(Byte), outs \in Seq(Byte) :
        Track(program, port, ppc, rx, tx, ins, outs) /\ Accounted(ins, outs)
  BY DEF BridgeInv
<1>2. /\ port.stop = {} /\ ppc = "put" /\ port.ext = Opposite(port.lines)
      /\ ppc' = IF tx = <<>> THEN "idle" ELSE "next"
      /\ port' = PortWrite(port, 0)
      /\ UNCHANGED <<rx, tx, heard, said, runVars, asked, program>>
  BY DEF Acked, CanAck, Running, Access
<1>3. program # "assist" /\ Handled(port, "put", rx, tx, ins, outs)
  BY <1>1, <1>2 DEF Track
<1>4. Handled(port', ppc', rx', tx', ins, outs)
  BY <1>2, <1>3, HandAcked
<1>5. Track(program, port', ppc', rx', tx', ins, outs)
  BY <1>3, <1>4 DEF Track
<1> QED
  BY <1>1, <1>2, <1>5, AccessKept DEF BridgeInv, BridgeTypes

\* The next bit is put.
LEMMA PutStep ==
    ASSUME BridgeInv, PutBit
    PROVE  BridgeInv'
<1>1. PICK ins \in Seq(Byte), outs \in Seq(Byte) :
        Track(program, port, ppc, rx, tx, ins, outs) /\ Accounted(ins, outs)
  BY DEF BridgeInv
<1>2. /\ port.stop = {} /\ ppc = "next" /\ ppc' = "put" /\ tx' = Tail(tx)
      /\ port' = PortWrite(port, LineOf(Head(tx)))
      /\ UNCHANGED <<rx, heard, said, runVars, asked, program>>
  BY DEF PutBit, CanPutBit, Running, Access
<1>3. program # "assist" /\ Handled(port, "next", rx, tx, ins, outs)
  BY <1>1, <1>2 DEF Track
<1>4. Handled(port', "put", rx', tx', ins, outs) /\ Len(tx') < Len(tx)
  BY <1>2, <1>3, HandPuts
<1>5. Track(program, port', ppc', rx', tx', ins, outs)
  BY <1>2, <1>3, <1>4 DEF Track
<1>6. Len(tx') < Width
  <2>1. Len(tx') \in Nat /\ Len(tx) \in Nat /\ Width \in Nat /\ Len(tx) < Width
    BY <1>4, WidthAssumption, BitSequences DEF BridgeInv, BridgeTypes, Handled
  <2> QED
    BY <1>4, <2>1
<1> QED
  BY <1>1, <1>2, <1>5, <1>6, AccessKept DEF BridgeInv, BridgeTypes

\* A byte is given up, of which the program has bits: it is dropped.
LEMMA GiveUpStep ==
    ASSUME BridgeInv, GiveUp
    PROVE  BridgeInv'
<1>1. PICK ins \in Seq(Byte), outs \in Seq(Byte) :
        Track(program, port, ppc, rx, tx, ins, outs) /\ Accounted(ins, outs)
  BY DEF BridgeInv
<1>2. /\ program = "quitter" /\ port.stop = {} /\ ppc = "idle" /\ rx # <<>>
      /\ ppc' = "abort" /\ rx' = <<>> /\ port' = PortWrite(port, 3)
      /\ UNCHANGED <<tx, heard, said, input, output, linkLock, pc, asked, program>>
  BY DEF GiveUp, Running, Access, runVars
<1>3. Handled(port, "idle", rx, tx, ins, outs)
  BY <1>1, <1>2 DEF Track
<1>4. Handled(port', "abort", <<>>, tx, <<>>, outs)
  BY <1>2, <1>3, HandGivesUp
<1>5. Track(program, port', ppc', rx', tx', <<>>, outs)
  BY <1>2, <1>4 DEF Track
<1>6. /\ input \in Seq(Byte) /\ heard \in Seq(Byte) /\ asked \in Seq(Byte)
      /\ <<>> \in Seq(Byte)
  BY EmptySeq DEF BridgeInv, BridgeTypes
<1>7. Follows((heard \o <<>>) \o input, asked)
  BY <1>1, <1>2, <1>6, Dropped DEF Accounted
<1> QED
  BY <1>1, <1>2, <1>5, <1>6, <1>7, BridgeKept DEF BridgeInv, BridgeTypes, Accounted

\* The program releases both lines.
LEMMA GaveUpStep ==
    ASSUME BridgeInv, GaveUp
    PROVE  BridgeInv'
<1>1. PICK ins \in Seq(Byte), outs \in Seq(Byte) :
        Track(program, port, ppc, rx, tx, ins, outs) /\ Accounted(ins, outs)
  BY DEF BridgeInv
<1>2. /\ port.stop = {} /\ ppc = "abort" /\ ppc' = "idle" /\ port' = PortWrite(port, 0)
      /\ UNCHANGED <<rx, tx, heard, said, runVars, asked, program>>
  BY DEF GaveUp, Running, Access
<1>3. program # "assist" /\ Handled(port, "abort", rx, tx, ins, outs)
  BY <1>1, <1>2 DEF Track
<1>4. Handled(port', ppc', rx', tx', ins, outs)
  BY <1>2, <1>3, HandGaveUp
<1>5. Track(program, port', ppc', rx', tx', ins, outs)
  BY <1>3, <1>4 DEF Track
<1> QED
  BY <1>1, <1>2, <1>5, AccessKept DEF BridgeInv, BridgeTypes

\* Every step of the bridge keeps the invariant.
LEMMA BridgeStep ==
    ASSUME BridgeInv, [BridgeNext]_bridgeVars
    PROVE  BridgeInv'
<1>1. CASE HostSend
  BY <1>1, HostStep
<1>2. CASE Run
  BY <1>2, RunStep, GiveStep, FetchStep, ReloadStep DEF Run
<1>3. CASE Program
  BY <1>3, TakeStep, EndStep, SayStep, AckedStep, PutStep, HearStep, AssistSayStep,
     GiveUpStep, GaveUpStep DEF Program
<1>4. CASE UNCHANGED bridgeVars
  <2>1. /\ UNCHANGED <<port, input, output, linkLock, pc, ppc, rx, tx, heard, said>>
        /\ UNCHANGED <<asked, program>>
    BY <1>4 DEF bridgeVars, runVars, progVars
  <2>2. PICK ins \in Seq(Byte), outs \in Seq(Byte) :
          Track(program, port, ppc, rx, tx, ins, outs) /\ Accounted(ins, outs)
    BY DEF BridgeInv
  <2>3. Track(program, port', ppc', rx', tx', ins, outs)
    BY <2>1, <2>2
  <2> QED
    BY <2>1, <2>2, <2>3, BridgeKept DEF BridgeInv, BridgeTypes, Accounted
<1> QED
  BY <1>1, <1>2, <1>3, <1>4 DEF BridgeNext

\* It holds of a new calculator and of empty buffers.
LEMMA BridgeStarts ==
    ASSUME BridgeInit
    PROVE  BridgeInv
<1>1. /\ program \in Programs /\ port = NewPort /\ input = <<>> /\ output = <<>>
      /\ linkLock = FALSE /\ pc = "top" /\ ppc = "idle" /\ rx = <<>> /\ tx = <<>>
      /\ asked = <<>> /\ heard = <<>> /\ said = <<>>
  BY DEF BridgeInit
<1>2. Track(program, port, "idle", <<>>, <<>>, <<>>, <<>>)
  <2>1. CASE program = "assist"
    BY <1>1, <2>1, TrackNewAssist DEF NewPort, UsesAssist
  <2>2. CASE program # "assist"
    BY <1>1, <2>2, TrackNew DEF NewPort, UsesAssist
  <2> QED
    BY <2>1, <2>2
<1>3. <<>> \in Seq(Byte) /\ <<>> \in Seq({0, 1}) /\ Len(<<>>) < Width
  BY EmptySeq, WidthAssumption, BitSequences
<1>4. <<>> \o <<>> = <<>>
  BY <1>3, ConcatEmptySeq
<1>5. Follows(<<>>, <<>>)
  BY <1>3, SubsequenceOfItself DEF Follows
<1>6. (heard \o <<>>) \o input = <<>> /\ output \o <<>> = <<>>
  BY <1>1, <1>4
<1>7. Accounted(<<>>, <<>>)
  BY <1>1, <1>5, <1>6 DEF Accounted
<1>8. BridgeTypes
  BY <1>1, <1>3 DEF BridgeTypes
<1>9. Track(program, port, ppc, rx, tx, <<>>, <<>>)
  BY <1>1, <1>2
<1> QED
  BY <1>3, <1>7, <1>8, <1>9 DEF BridgeInv

\* At every instant each byte that either side sends has been received, is on its way
\* through the port in one place or is still in m_input, in order and once, whatever the
\* program drives the lines with and however the host's bytes and its own meet: Calc::run,
\* GraySend and GrayGet, dbus_update() and the assist lose no byte and repeat none.
THEOREM BytesConserved == BridgeSpec => []NothingLost
<1>1. BridgeInv => NothingLost
  BY BridgeSays
<1> QED
  BY <1>1, BridgeStarts, BridgeStep, PTL DEF BridgeSpec

\* Also when a program gives bytes up, the link reports errors, the gray link is reset and
\* ROMs are loaded, what a side receives are whole bytes of the other, in the order they
\* were sent.
THEOREM BytesWhole == BridgeSpec => []BytesStayWhole
<1>1. BridgeInv => BytesStayWhole
  BY BridgeSays
<1> QED
  BY <1>1, BridgeStarts, BridgeStep, PTL DEF BridgeSpec

=============================================================================
