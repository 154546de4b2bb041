------------------------------ MODULE Z80Cpu ------------------------------
(***************************************************************************)
(* The instructions of the Z80 (z80_execute_opcode() and the tables that   *)
(* it includes: z80main.h, z80cb.h, z80ed.h, z80ddfd.h).  A table works on *)
(* a record c, the registers with the memory, the clock and the ports, and *)
(* returns what it has become.  Left out: the flags X and Y and the        *)
(* register WZ that feeds them, breakpoints, the options that stop at,     *)
(* skip or reset on an undocumented instruction, and the clock and R that  *)
(* HALT moves on by (Z80Timers has the clock).                             *)
(***************************************************************************)
EXTENDS Z80Alu, Sequences, TLC

CONSTANT
    Background(_)    \* what an address holds that nobody has written

VARIABLE cpu

Half == [BC |-> <<"B", "C">>, DE |-> <<"D", "E">>, HL |-> <<"H", "L">>,
         IX |-> <<"IXh", "IXl">>, IY |-> <<"IYh", "IYl">>]
\* The operand that three bits of an opcode name; 6 is (HL).
Names == <<"B", "C", "D", "E", "H", "L", "(HL)", "A">>
Signed(b) == IF b > 127 THEN b - 256 ELSE b

Pair(c, p) == IF p \in DOMAIN Half THEN (256 * c[Half[p][1]]) + c[Half[p][2]]
              ELSE IF p = "AF" THEN (256 * c.A) + ByteOf(c.F) ELSE c[p]
SetPair(c, p, w) ==
    IF p \in DOMAIN Half
    THEN [c EXCEPT ![Half[p][1]] = Word(w) \div 256, ![Half[p][2]] = Byte(w)]
    ELSE IF p = "AF" THEN [c EXCEPT !.A = w \div 256, !.F = FlagsOf(Byte(w))]
    ELSE [c EXCEPT ![p] = Word(w)]
-----------------------------------------------------------------------------
(* Memory and ports.  Addresses are taken modulo 2^16.                     *)
readb(c, a) == IF Word(a) \in DOMAIN c.mem THEN c.mem[Word(a)] ELSE Background(Word(a))
readw(c, a) == readb(c, a) + (256 * readb(c, a + 1))
writeb(c, a, v) == [c EXCEPT !.mem = (Word(a) :> v) @@ @]
writew(c, a, v) == writeb(writeb(c, a, Byte(v)), a + 1, v \div 256)
output(c, port, v) == [c EXCEPT !.out = Append(@, <<Word(port), v>>)]

\* n and nn: the operand that follows the opcode.
n(c) == readb(c, c.PC)
nn(c) == readw(c, c.PC)
Skip(c, k) == [c EXCEPT !.PC = Word(@ + k)]
delay(c, clocks) == [c EXCEPT !.clock = @ + clocks]
readb_m1(c) == [Skip(c, 1) EXCEPT !.Rl = Byte(@ + 1)]

push(c, w) == writew([c EXCEPT !.SP = Word(@ - 2)], c.SP - 2, w)
pop(c, p) == SetPair([c EXCEPT !.SP = Word(@ + 2)], p, readw(c, c.SP))
\* A register and the flags take the outcome of an operation of Z80Alu.
Put(c, reg, res) == [c EXCEPT ![reg] = res.r, !.F = res.f]
PutAt(c, a, res) == writeb([c EXCEPT !.F = res.f], a, res.r)
PutPair(c, p, res) == SetPair([c EXCEPT !.F = res.f], p, res.r)

Alu(k, a, b, f) == CASE k = 0 -> add8(a, b) [] k = 1 -> adc8(a, b, f)
                     [] k = 2 -> sub8(a, b) [] k = 3 -> sbc8(a, b, f)
                     [] k = 4 -> and(a, b)  [] k = 5 -> xor(a, b)
                     [] k = 6 -> or(a, b)   [] k = 7 -> cp(a, b)
Condition(c, k) == CASE k = 0 -> "Z" \notin c.F [] k = 1 -> "Z" \in c.F
                     [] k = 2 -> "C" \notin c.F [] k = 3 -> "C" \in c.F
                     [] k = 4 -> "P" \notin c.F [] k = 5 -> "P" \in c.F
                     [] k = 6 -> "S" \notin c.F [] k = 7 -> "S" \in c.F

jr(c, taken, yes, no) ==
    LET s == Skip(c, 1)
    IN IF taken THEN delay(Skip(s, Signed(n(c))), yes) ELSE delay(s, no)
jp(c, taken) == delay(IF taken THEN [c EXCEPT !.PC = nn(c)] ELSE Skip(c, 2), 10)
call(c, taken) ==
    LET s == Skip(c, 2)
    IN IF taken THEN delay([push(s, s.PC) EXCEPT !.PC = nn(c)], 17) ELSE delay(s, 10)
ret(c, taken) == IF taken THEN delay(pop(c, "PC"), 11) ELSE delay(c, 5)
rst(c, a) == delay([push(c, c.PC) EXCEPT !.PC = a], 11)
ldNN(c, p) == delay(Skip(SetPair(c, p, nn(c)), 2), 10)
storeNN(c, p, clocks) == delay(Skip(writew(c, nn(c), Pair(c, p)), 2), clocks)
loadNN(c, p, clocks) == delay(Skip(SetPair(c, p, readw(c, nn(c))), 2), clocks)
addPair(c, p, q) == delay(PutPair(c, p, add16(Pair(c, p), Pair(c, q), c.F)), 11)
-----------------------------------------------------------------------------
(* z80main.h, 16 opcodes at a time.  What the columns of 00-3F have in     *)
(* common: a pair and its two halves.                                      *)
Column(c, op, p, h, l) ==
    LET col == op % 16
        reg == IF col < 8 THEN h ELSE l
    IN CASE col = 1 -> ldNN(c, p)
         [] col = 3 -> delay(SetPair(c, p, Pair(c, p) + 1), 6)
         [] col = 11 -> delay(SetPair(c, p, Pair(c, p) - 1), 6)
         [] col \in {4, 12} -> delay(Put(c, reg, inc(c[reg], c.F)), 4)
         [] col \in {5, 13} -> delay(Put(c, reg, dec(c[reg], c.F)), 4)
         [] col \in {6, 14} -> delay(Skip([c EXCEPT ![reg] = n(c)], 1), 7)
         [] col = 9 -> addPair(c, "HL", p)

Main0(c, op) ==
    CASE op = 0 -> delay(c, 4)
      [] op = 2 -> delay(writeb(c, Pair(c, "BC"), c.A), 7)
      [] op = 7 -> delay(Put(c, "A", rlca(c.A, c.F)), 4)
      [] op = 8 -> delay([SetPair(c, "AF", c.AF2) EXCEPT !.AF2 = Pair(c, "AF")], 4)
      [] op = 10 -> delay([c EXCEPT !.A = readb(c, Pair(c, "BC"))], 7)
      [] op = 15 -> delay(Put(c, "A", rrca(c.A, c.F)), 4)
      [] OTHER -> Column(c, op, "BC", "B", "C")
Main1(c, op) ==
    CASE op = 16 -> LET b == [c EXCEPT !.B = Byte(@ - 1)] IN jr(b, b.B # 0, 13, 8)
      [] op = 18 -> delay(writeb(c, Pair(c, "DE"), c.A), 7)
      [] op = 23 -> delay(Put(c, "A", rla(c.A, c.F)), 4)
      [] op = 24 -> jr(c, TRUE, 12, 7)
      [] op = 26 -> delay([c EXCEPT !.A = readb(c, Pair(c, "DE"))], 7)
      [] op = 31 -> delay(Put(c, "A", rra(c.A, c.F)), 4)
      [] OTHER -> Column(c, op, "DE", "D", "E")
Main2(c, op) ==
    CASE op = 32 -> jr(c, "Z" \notin c.F, 12, 7)
      [] op = 34 -> storeNN(c, "HL", 16)
      [] op = 39 -> delay(Put(c, "A", daa(c.A, c.F)), 4)
      [] op = 40 -> jr(c, "Z" \in c.F, 12, 7)
      [] op = 42 -> loadNN(c, "HL", 16)
      [] op = 47 -> delay(Put(c, "A", cpl(c.A, c.F)), 4)
      [] OTHER -> Column(c, op, "HL", "H", "L")
Main3(c, op) ==
    LET hl == Pair(c, "HL")
    IN CASE op = 48 -> jr(c, "C" \notin c.F, 12, 7)
         [] op = 50 -> delay(Skip(writeb(c, nn(c), c.A), 2), 13)
         [] op = 52 -> delay(PutAt(c, hl, inc(readb(c, hl), c.F)), 11)
         [] op = 53 -> delay(PutAt(c, hl, dec(readb(c, hl), c.F)), 11)
         [] op = 54 -> delay(Skip(writeb(c, hl, n(c)), 1), 10)
         [] op = 55 -> delay([c EXCEPT !.F = @ \cup {"C"}], 4)
         [] op = 56 -> jr(c, "C" \in c.F, 12, 7)
         [] op = 58 -> delay(Skip([c EXCEPT !.A = readb(c, nn(c))], 2), 13)
         [] op = 63 -> delay([c EXCEPT !.F = IF "C" \in @ THEN @ \ {"C"} ELSE @ \cup {"C"}], 4)
         [] OTHER -> Column(c, op, "SP", "A", "A")

\* 40-7F: LD r, r'; 76 is HALT, whose PC the run loop takes back.
Loads(c, op) ==
    LET to == Names[((op - 64) \div 8) + 1]
        from == Names[(op % 8) + 1]
        hl == Pair(c, "HL")
    IN CASE op = 118 -> delay(c, 4)
         [] op # 118 /\ to = "(HL)" -> delay(writeb(c, hl, c[from]), 7)
         [] op # 118 /\ from = "(HL)" -> delay([c EXCEPT ![to] = readb(c, hl)], 7)
         [] OTHER -> delay([c EXCEPT ![to] = c[from]], 4)
\* 80-BF: an operation on A and r.
Arithmetic(c, op) ==
    LET k == (op \div 8) - 16
        from == Names[(op % 8) + 1]
    IN IF from = "(HL)" THEN delay(Put(c, "A", Alu(k, c.A, readb(c, Pair(c, "HL")), c.F)), 7)
       ELSE delay(Put(c, "A", Alu(k, c.A, c[from], c.F)), 4)

\* What the columns of C0-FF have in common.
Control(c, op, p) ==
    LET k == (op - 192) \div 8
        col == op % 8
    IN CASE col = 0 -> ret(c, Condition(c, k))
         [] col = 1 -> delay(pop(c, p), 10)
         [] col = 2 -> jp(c, Condition(c, k))
         [] col = 4 -> call(c, Condition(c, k))
         [] col = 5 -> delay(push(c, Pair(c, p)), 11)
         [] col = 6 -> delay(Skip(Put(c, "A", Alu(k, c.A, n(c), c.F)), 1), 7)
         [] col = 7 -> rst(c, 8 * k)
MainC(c, op) ==
    CASE op = 195 -> jp(c, TRUE)
      [] op = 201 -> delay(pop(c, "PC"), 10)
      [] op = 205 -> call(c, TRUE)
      [] OTHER -> Control(c, op, "BC")
MainD(c, op) ==
    CASE op = 211 -> output(delay(Skip(c, 1), 11), (256 * c.A) + n(c), c.A)
      [] op = 217 -> [delay(SetPair(SetPair(SetPair(c, "BC", c.BC2), "DE", c.DE2), "HL", c.HL2), 4)
                      EXCEPT !.BC2 = Pair(c, "BC"), !.DE2 = Pair(c, "DE"), !.HL2 = Pair(c, "HL")]
      [] op = 219 -> [delay(Skip(c, 1), 11) EXCEPT !.A = c.in]
      [] OTHER -> Control(c, op, "DE")
exchangeStack(c, p) == delay(SetPair(writew(c, c.SP, Pair(c, p)), p, readw(c, c.SP)), 19)
MainE(c, op) ==
    CASE op = 227 -> exchangeStack(c, "HL")
      [] op = 233 -> delay([c EXCEPT !.PC = Pair(c, "HL")], 4)
      [] op = 235 -> delay(SetPair(SetPair(c, "DE", Pair(c, "HL")), "HL", Pair(c, "DE")), 4)
      [] OTHER -> Control(c, op, "HL")
MainF(c, op) ==
    CASE op = 243 -> delay([c EXCEPT !.IFF1 = FALSE, !.IFF2 = FALSE], 4)
      [] op = 249 -> delay([c EXCEPT !.SP = Pair(c, "HL")], 4)
      [] op = 251 -> delay([c EXCEPT !.IFF1 = TRUE, !.IFF2 = TRUE], 4)
      [] OTHER -> Control(c, op, "AF")
-----------------------------------------------------------------------------
(* z80cb.h, without a prefix: an operand in a register or at (HL).         *)
Rotate(k, a, f) == CASE k = 0 -> rlc(a)   [] k = 1 -> rrc(a) [] k = 2 -> rl(a, f)
                     [] k = 3 -> rr(a, f) [] k = 4 -> sla(a) [] k = 5 -> sra(a)
                     [] k = 6 -> slia(a)  [] k = 7 -> srl(a)
Reset(b, byte) == byte - (Bit(byte, b) * 2^b)
SetBit(b, byte) == Reset(b, byte) + 2^b
\* The outcome of an opcode that writes its operand back.
Changed(op, byte, f) ==
    LET y == (op \div 8) % 8
    IN CASE op < 64 -> Rotate(y, byte, f)
         [] op \in 128..191 -> [r |-> Reset(y, byte), f |-> f]
         [] op > 191 -> [r |-> SetBit(y, byte), f |-> f]

Cb(c, op) ==
    LET reg == Names[(op % 8) + 1]
        hl == Pair(c, "HL")
        byte == IF reg = "(HL)" THEN readb(c, hl) ELSE c[reg]
    IN CASE op \in 64..127 -> delay([c EXCEPT !.F = bitFlags((op - 64) \div 8, byte, @)],
                                    IF reg = "(HL)" THEN 12 ELSE 8)
         [] op \notin 64..127 /\ reg = "(HL)" -> delay(PutAt(c, hl, Changed(op, byte, c.F)), 15)
         [] OTHER -> delay(Put(c, reg, Changed(op, byte, c.F)), 8)
(* With a prefix: always at (IX + d), and for all but column 6 the result  *)
(* goes into a register as well.                                           *)
IndexedCb(c, op, wz) ==
    LET reg == Names[(op % 8) + 1]
        byte == readb(c, wz)
        done == PutAt(c, wz, Changed(op, byte, c.F))
    IN CASE op \in 64..127 -> delay([c EXCEPT !.F = bitFlags((op - 64) \div 8, byte, @)], 16)
         [] op \notin 64..127 /\ reg = "(HL)" -> delay(done, 19)
         [] OTHER -> delay([done EXCEPT ![reg] = Changed(op, byte, c.F).r], 19)
-----------------------------------------------------------------------------
(* z80ed.h.  What the columns of 40-7F have in common.                     *)
in(c, reg) == Put(delay(c, 12), reg, [r |-> c.in, f |-> inFlags(c.in, c.F)])
retn(c) == delay(pop([c EXCEPT !.IFF1 = c.IFF2], "PC"), 14)
irToA(c, value) ==
    delay([c EXCEPT !.A = value, !.F = irFlags(value, c.IFF2, @)], 9)
R(c) == (c.Rl % 128) + c.Rh
EdColumn(c, op, p, h, l) ==
    LET col == op % 16
        reg == IF col < 8 THEN h ELSE l
        bc == Pair(c, "BC")
    IN CASE col \in {0, 8} -> in(c, reg)
         [] col \in {1, 9} -> output(delay(c, 12), bc, c[reg])
         [] col = 2 -> delay(PutPair(c, "HL", sbc16(Pair(c, "HL"), Pair(c, p), c.F)), 15)
         [] col = 10 -> delay(PutPair(c, "HL", adc16(Pair(c, "HL"), Pair(c, p), c.F)), 15)
         [] col = 3 -> storeNN(c, p, 20)
         [] col = 11 -> loadNN(c, p, 20)
         [] col \in {4, 12} -> delay(Put(c, "A", neg(c.A)), 8)
         [] col \in {5, 13} -> retn(c)
IM(c, mode) == delay([c EXCEPT !.IM = mode], 8)

Ed4(c, op) == CASE op \in {70, 78} -> IM(c, 0)
                [] op = 71 -> delay([c EXCEPT !.I = c.A], 9)
                [] op = 79 -> delay([c EXCEPT !.Rl = c.A, !.Rh = c.A - (c.A % 128)], 9)
                [] OTHER -> EdColumn(c, op, "BC", "B", "C")
Ed5(c, op) == CASE op = 86 -> IM(c, 1)
                [] op = 94 -> IM(c, 2)
                [] op = 87 -> irToA(c, c.I)
                [] op = 95 -> irToA(c, R(c))
                [] OTHER -> EdColumn(c, op, "DE", "D", "E")
digit(c, res) == writeb([c EXCEPT !.A = res.r, !.F = res.f], Pair(c, "HL"), res.m)
Ed6(c, op) == LET hl == readb(c, Pair(c, "HL"))
              IN CASE op \in {102, 110} -> IM(c, 0)
                   [] op = 103 -> delay(digit(c, rrd(c.A, hl, c.F)), 18)
                   [] op = 111 -> delay(digit(c, rld(c.A, hl, c.F)), 18)
                   [] OTHER -> EdColumn(c, op, "HL", "H", "L")
Ed7(c, op) == CASE op = 112 -> delay([c EXCEPT !.F = inFlags(c.in, @)], 12)
                [] op = 113 -> output(delay(c, 12), Pair(c, "BC"), 0)
                [] op = 118 -> IM(c, 1)
                [] op = 126 -> IM(c, 2)
                [] OTHER -> EdColumn(c, op, "SP", "A", "A")

(* One round of a block instruction; dir is 1 or -1.                       *)
\* Mutant: LDD copies upwards.
MutLd(c, dir) ==
    LET hl == Pair(c, "HL")  de == Pair(c, "DE")  bc == Word(Pair(c, "BC") - 1)
        moved == writeb(c, de, readb(c, hl))
    IN [SetPair(SetPair(SetPair(moved, "HL", hl + dir), "DE", de + 1), "BC", bc)
        EXCEPT !.F = ldFlags(bc, @)]
ld(c, dir) ==
    LET hl == Pair(c, "HL")  de == Pair(c, "DE")  bc == Word(Pair(c, "BC") - 1)
        moved == writeb(c, de, readb(c, hl))
    IN [SetPair(SetPair(SetPair(moved, "HL", hl + dir), "DE", de + dir), "BC", bc)
        EXCEPT !.F = ldFlags(bc, @)]
cpBlock(c, dir) ==
    LET hl == Pair(c, "HL")  bc == Word(Pair(c, "BC") - 1)
    IN [SetPair(SetPair(c, "HL", hl + dir), "BC", bc)
        EXCEPT !.F = cpFlags(c.A, readb(c, hl), bc, @)]
\* WZ is BC + dir, with the B that has not been counted yet.
inBlock(c, dir) ==
    LET hl == Pair(c, "HL")  count == Byte(c.B - 1)
    IN [SetPair(writeb(c, hl, c.in), "HL", hl + dir)
        EXCEPT !.B = count, !.F = ioFlags(count, c.in, Byte(c.C + dir))]
outBlock(c, dir) ==
    LET hl == Pair(c, "HL")  value == readb(c, hl)  count == Byte(c.B - 1)
        moved == [SetPair(c, "HL", hl + dir) EXCEPT !.B = count]
    IN [output(moved, Pair(moved, "BC"), value)
        EXCEPT !.F = ioFlags(count, value, Byte(hl + dir))]
\* A repeated instruction that is not done stays where it is.
repeat(c, again, clocks) == IF again THEN delay(Skip(c, -2), clocks) ELSE c
Block(c, op) ==
    LET dir == IF op % 16 > 7 THEN -1 ELSE 1
        over == op > 175
    IN CASE op % 8 = 0 -> LET d == delay(ld(c, dir), 16) IN repeat(d, over /\ Pair(d, "BC") # 0, 5)
         [] op % 8 = 1 -> LET d == delay(cpBlock(c, dir), 16)
                          IN repeat(d, over /\ Pair(d, "BC") # 0 /\ "Z" \notin d.F, 5)
         [] op % 8 = 2 -> LET d == delay(inBlock(c, dir), 16) IN repeat(d, over /\ d.B # 0, 5)
         [] op % 8 = 3 -> LET d == delay(outBlock(c, dir), 16) IN repeat(d, over /\ d.B # 0, 5)

(* Opcodes by which the TI-84 Plus of the Nspire controls its host: the      *)
(* erasing and programming of Flash are left to Flash; others are invalid. *)
NspireInstr(c, op) ==
    CASE op = 237 -> LET code == nn(c)
                         s == Skip(c, 2)
                     IN IF code \in {4104, 4128, 4132, 4137, 4135}
                        THEN [s EXCEPT !.F = @ \cup {"Z"}]
                        ELSE IF code \in {4108, 4109} THEN [s EXCEPT !.F = @ \ {"Z"}]
                        ELSE s
      [] op \in {238, 239} -> c
      [] OTHER -> [c EXCEPT !.exception = TRUE]

Ed(c, op) ==
    CASE op \in 64..79 -> Ed4(c, op)
      [] op \in 80..95 -> Ed5(c, op)
      [] op \in 96..111 -> Ed6(c, op)
      [] op \in 112..126 \ {119} -> Ed7(c, op)
      [] op \in 160..191 /\ op % 8 < 4 -> Block(c, op)
      [] OTHER -> LET d == delay(c, 8) IN IF c.nspire THEN NspireInstr(d, op) ELSE d
-----------------------------------------------------------------------------
(* z80ddfd.h: IX or IY, or one of its halves, stands in for HL, H or L.    *)
IndexedOps == {9, 25, 33, 34, 35, 36, 37, 38, 41, 42, 43, 44, 45, 46, 52, 53, 54, 57,
               203, 225, 227, 229, 233, 249}
              \cup {op \in 64..191 : op % 8 \in {4, 5, 6} /\ op # 118}
              \cup (96..111) \cup (112..119 \ {118})
IndexName(k, x) == CASE k = 4 -> Half[x][1] [] k = 5 -> Half[x][2] [] OTHER -> Names[k + 1]

\* 00-3F.
Indexed0(c, op, x) ==
    LET h == Half[x][1]  l == Half[x][2]
        at == Pair(c, x) + Signed(n(c))
    IN CASE op = 9 -> addPair(c, x, "BC")
         [] op = 25 -> addPair(c, x, "DE")
         [] op = 33 -> ldNN(c, x)
         [] op = 34 -> storeNN(c, x, 16)
         [] op = 35 -> delay(SetPair(c, x, Pair(c, x) + 1), 6)
         [] op = 36 -> delay(Put(c, h, inc(c[h], c.F)), 4)
         [] op = 37 -> delay(Put(c, h, dec(c[h], c.F)), 4)
         [] op = 38 -> delay(Skip([c EXCEPT ![h] = n(c)], 1), 7)
         [] op = 41 -> addPair(c, x, x)
         [] op = 42 -> loadNN(c, x, 16)
         [] op = 43 -> delay(SetPair(c, x, Pair(c, x) - 1), 6)
         [] op = 44 -> delay(Put(c, l, inc(c[l], c.F)), 4)
         [] op = 45 -> delay(Put(c, l, dec(c[l], c.F)), 4)
         [] op = 46 -> delay(Skip([c EXCEPT ![l] = n(c)], 1), 7)
         [] op = 52 -> delay(Skip(PutAt(c, at, inc(readb(c, at), c.F)), 1), 19)
         [] op = 53 -> delay(Skip(PutAt(c, at, dec(readb(c, at), c.F)), 1), 19)
         [] op = 54 -> delay(Skip(writeb(c, at, readb(c, c.PC + 1)), 2), 15)
         [] op = 57 -> addPair(c, x, "SP")
\* Mutant: H and L are replaced in the loads from and to memory as well.
MutIndexedLoads(c, op, x) ==
    LET y == (op - 64) \div 8
        z == op % 8
        at == Pair(c, x) + Signed(n(c))
    IN CASE y = 6 -> delay(Skip(writeb(c, at, c[IndexName(z, x)]), 1), 15)
         [] z = 6 -> delay(Skip([c EXCEPT ![Names[y + 1]] = readb(c, at)], 1), 15)
         [] OTHER -> delay([c EXCEPT ![IndexName(y, x)] = c[IndexName(z, x)]], 4)
\* 40-7F: of LD r, (IX + d) and LD (IX + d), r the r is never a half of IX.
IndexedLoads(c, op, x) ==
    LET y == (op - 64) \div 8
        z == op % 8
        at == Pair(c, x) + Signed(n(c))
    IN CASE y = 6 -> delay(Skip(writeb(c, at, c[Names[z + 1]]), 1), 15)
         [] z = 6 -> delay(Skip([c EXCEPT ![Names[y + 1]] = readb(c, at)], 1), 15)
         [] OTHER -> delay([c EXCEPT ![IndexName(y, x)] = c[IndexName(z, x)]], 4)
\* 80-BF: ADD A, (IX + d) takes fewer clocks than its siblings.
IndexedArithmetic(c, op, x) ==
    LET k == (op \div 8) - 16
        operand == IF op % 8 = 6 THEN readb(c, Pair(c, x) + Signed(n(c)))
                   ELSE c[IndexName(op % 8, x)]
        done == Put(c, "A", Alu(k, c.A, operand, c.F))
    IN CASE op = 134 -> delay(Skip(done, 1), 7)
         [] op # 134 /\ op % 8 = 6 -> delay(Skip(done, 1), 15)
         [] OTHER -> delay(done, 4)
\* CB and E1-F9.
IndexedOthers(c, op, x) ==
    CASE op = 203 -> IndexedCb(Skip(c, 2), readb(c, c.PC + 1), Pair(c, x) + Signed(n(c)))
      [] op = 225 -> delay(pop(c, x), 10)
      [] op = 227 -> exchangeStack(c, x)
      [] op = 229 -> delay(push(c, Pair(c, x)), 11)
      [] op = 233 -> delay([c EXCEPT !.PC = Pair(c, x)], 4)
      [] op = 249 -> delay([c EXCEPT !.SP = Pair(c, x)], 4)
-----------------------------------------------------------------------------
(* z80_execute_opcode(): a prefix reads another opcode.  One that the      *)
(* index registers do not concern is executed as if it had no prefix.  The *)
(* opcode is returned, with the prefix if there is one.                    *)
Main(c, op) ==
    CASE op \in 0..15 -> Main0(c, op)        [] op \in 16..31 -> Main1(c, op)
      [] op \in 32..47 -> Main2(c, op)       [] op \in 48..63 -> Main3(c, op)
      [] op \in 64..127 -> Loads(c, op)      [] op \in 128..191 -> Arithmetic(c, op)
      [] op \in 192..207 -> MainC(c, op)     [] op \in 208..223 -> MainD(c, op)
      [] op \in 224..239 -> MainE(c, op)     [] op \in 240..255 -> MainF(c, op)
Index(c, op, x) ==
    CASE op < 64 -> Indexed0(c, op, x)
      [] op \in 64..127 -> IndexedLoads(c, op, x)
      [] op \in 128..191 -> IndexedArithmetic(c, op, x)
      [] OTHER -> IndexedOthers(c, op, x)
\* With DD CB and FD CB the code returns four bytes; nothing looks at them.
Returning(c, op) == [c EXCEPT !.op = op]

RECURSIVE Opcode(_, _)
Opcode(c, op) ==
    LET m == readb_m1(c)
        prefixed == (256 * op) + n(c)
        Prefixed(x) == IF n(c) \in IndexedOps
                       THEN Returning(Index(delay(m, 4), n(c), x), prefixed)
                       ELSE Opcode(delay(m, 4), n(c))
    IN CASE op = 203 -> Returning(Cb(m, n(c)), prefixed)
         [] op = 237 -> Returning(Ed(m, n(c)), prefixed)
         [] op = 221 -> Prefixed("IX")
         [] op = 253 -> Prefixed("IY")
         [] OTHER -> Returning(Main(c, op), op)

ExecuteOne(c) == Opcode(readb_m1(c), n(c))
-----------------------------------------------------------------------------
(* The loop of z80_execute(): an instruction, and the interrupt that may   *)
(* follow it.  In mode 0 the byte of the bus is executed, in mode 2 it     *)
(* selects the entry of a table.                                           *)
Accept(c, busbyte) ==
    LET a == [c EXCEPT !.IFF1 = FALSE, !.IFF2 = FALSE, !.Rl = Byte(@ + 1)]
    IN CASE c.IM = 0 -> Opcode(delay(a, 2), busbyte)
         [] c.IM = 1 -> delay([push(a, a.PC) EXCEPT !.PC = 56], 13)
         [] c.IM = 2 -> LET p == push(a, a.PC)
                        IN delay([p EXCEPT !.PC = readw(p, (256 * p.I) + busbyte)], 19)
\* HALT is executed again until an interrupt comes.
Iteration(c, interrupt, busbyte) ==
    LET d == ExecuteOne(c)
    IN CASE interrupt /\ d.IFF1 /\ d.op # 251 -> Accept(d, busbyte)
         [] ~(interrupt /\ d.IFF1) /\ d.op = 118 -> Skip(d, -1)
         [] OTHER -> d

Step(interrupt, busbyte) == cpu' = Iteration(cpu, interrupt, busbyte)
=============================================================================
