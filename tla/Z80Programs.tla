---------------------------- MODULE Z80Programs ----------------------------
(***************************************************************************)
(* Programs of a few instructions on the Z80, each of a kind that one of   *)
(* the properties is about, started in registers chosen for the borders of *)
(* the arithmetic; the listing of each instruction; and a symbol table.    *)
(***************************************************************************)
EXTENDS Z80Cpu, Disassembler, FiniteSets

CONSTANTS
    Origins,         \* addresses where programs are put
    Bytes, Words,    \* operands of the arithmetic
    Interrupts,      \* bound: interrupts during a program
    MaxClock,        \* bound: how long a halted processor waits for one
    Addresses, Labels \* values and names of symbols

VARIABLES
    start,           \* the program and the machine it started with
    done,            \* what it made of it, while the program without prefix runs
    left,            \* interrupts still to come
    labels           \* a symbol table

programVars == <<cpu, start, done, left, labels>>

-----------------------------------------------------------------------------
(* Machines.                                                               *)
File(f, b, h, x) ==
    [A |-> 154, F |-> f, B |-> b, C |-> 128, D |-> 33, E |-> 127, H |-> h, L |-> 254,
     IXh |-> 80, IXl |-> x, IYh |-> 96, IYl |-> 254 - x, SP |-> 1, PC |-> 0, I |-> 62,
     Rl |-> 127, Rh |-> 128, IFF1 |-> FALSE, IFF2 |-> TRUE, IM |-> 1, AF2 |-> 4660,
     BC2 |-> 22136, DE2 |-> 39612, HL2 |-> 57072, mem |-> <<>>, clock |-> 0, in |-> 144,
     out |-> <<>>, op |-> 0, exception |-> FALSE, nspire |-> FALSE]
Files == {File({}, 1, 64, 2), File(AllFlags, 2, 255, 253), File({"C", "P"}, 0, 65, 128)}

\* The handler of interrupts is EI; RET, wherever the mode looks for it.
Service == (56 :> 251) @@ (57 :> 201) @@ (16127 :> 56) @@ (16128 :> 0)
Loaded(c, org, code) ==
    [c EXCEPT !.PC = org,
              !.mem = [a \in {Word(org + i - 1) : i \in 1..Len(code)} |->
                         code[Word(a - org) + 1]] @@ Service]
Program(kind, code, c) == [kind |-> kind, len |-> Len(code), cpu |-> c]

\* Single instructions, with every second byte and displacements.
Single == {<<op, 5, 253>> : op \in 0..255}
          \cup {<<203, op>> : op \in 0..255} \cup {<<237, op, 5, 253>> : op \in 0..255}
          \cup {<<x, op, d, 5>> : x \in {221, 253}, op \in 0..255, d \in {5, 253}}
          \cup {<<x, 203, d, op>> : x \in {221, 253}, op \in 0..255, d \in {5, 253}}
          \cup {<<221, 253, 33, 5, 253>>, <<253, 221, 134, 5>>}
Singles == {Program("single", code, Loaded(c, org, code)) :
              code \in Single, c \in Files, org \in Origins}
           \cup {LET code == <<237, op, b, 16>>
                 IN Program("single", code,
                            [Loaded(File({"C"}, 1, 64, 2), 32768, code) EXCEPT !.nspire = TRUE]) :
                   op \in {0, 237, 238, 239}, b \in {0, 8, 12, 32}}

Operations8 == {<<op>> : op \in {128, 136, 144, 152, 160, 168, 176, 184, 4, 5}}
               \cup {<<203, 8 * k>> : k \in 0..7} \cup {<<237, 68>>}
Operations16 == {<<9>>, <<237, 66>>, <<237, 74>>}
With8(f, a, b) == [File(f, b, 64, 2) EXCEPT !.A = a]
With16(f, a, b) == SetPair(SetPair(File(f, 0, 0, 2), "HL", a), "BC", b)
Sums == {Program("sum8", code, Loaded(With8(f, a, b), 32768, code)) :
           code \in Operations8, f \in {{}, {"C", "H"}}, a \in Bytes, b \in Bytes}
        \cup {Program("sum16", code, Loaded(With16(f, a, b), 32768, code)) :
           code \in Operations16, f \in {{}, {"C", "Z"}}, a \in Words, b \in Words}
        \cup {Program("decimal", <<op, 39>>,
                Loaded(With8(f, (16 * x[1]) + x[2], (16 * x[3]) + x[4]), 32768, <<op, 39>>)) :
           op \in {128, 136, 144, 152}, f \in {{}, {"C"}}, x \in [1..4 -> {0, 1, 4, 5, 9}]}

Blocks == {LET code == <<237, op>>
               bc == IF op % 8 < 2 THEN k ELSE (256 * k) + 200
               c == SetPair(SetPair(SetPair(File({}, 1, 64, 2), "HL", 20000), "DE", de), "BC", bc)
           IN Program("block", code,
                [Loaded(c, 32768, code) EXCEPT !.IFF1 = TRUE, !.IM = mode, !.SP = 36864,
                   !.mem = (20001 :> c.A) @@ (19999 :> c.A - match) @@ @]) :
             op \in {b \in 160..191 : b % 8 < 4}, de \in {20001, 19999, 20002, 30000},
             k \in {1, 4}, mode \in 0..2, match \in {0, 1}}
Halts == {Program("halt", <<251, 118, 60>>,
            [Loaded(File({}, 1, 64, 2), 32768, <<251, 118, 60>>)
             EXCEPT !.SP = 36864, !.IM = mode]) : mode \in 0..2}
Tables == {Program("symbols", <<0>>, Loaded(File({}, 1, 64, 2), 32768, <<0>>))}
-----------------------------------------------------------------------------
Programs == Singles \cup Sums \cup Blocks \cup Halts \cup Tables

ProgramInit ==
    /\ start \in Programs
    /\ cpu = start.cpu
    /\ left = IF start.kind \in {"block", "halt"} THEN Interrupts ELSE 0
    /\ labels = <<>> /\ done = <<>>

-----------------------------------------------------------------------------
(* The machine in which an instruction with DD or FD does without it what  *)
(* it does with it: HL holds IX or IY, or the address IX + d.              *)
HasPrefix == start.kind = "single" /\ n(start.cpu) \in {221, 253}
IndexOf(c) == IF n(c) = 221 THEN "IX" ELSE "IY"
Displaced(c) == Pair(c, IndexOf(c)) + Signed(readb(c, c.PC + 2))
Swap(c) == SetPair(SetPair(c, "HL", Pair(c, IndexOf(start.cpu))), IndexOf(start.cpu), Pair(c, "HL"))
AtHL == {52, 53, 54} \cup {k \in 64..191 : k % 8 = 6 /\ k # 118} \cup ((112..119) \ {118})
Unaffected == {217, 221, 235, 237, 253}
\* H or L and the memory: A stands in for the half that HL itself needs.
HalfLoads == {102, 110, 116, 117}
ExchangeA(c, op) == LET reg == IF op \in {102, 116} THEN "H" ELSE "L"
                    IN [c EXCEPT !.A = c[reg], ![reg] = c.A]
\* `code' in the place of the displacement, and what was there before.
Directly(c, code) ==
    LET at == {Word(c.PC + 1 + i) : i \in 1..Len(code)}
    IN [SetPair(Skip(c, 2), "HL", Displaced(c))
        EXCEPT !.mem = [a \in at |-> code[Word(a - c.PC - 1)]] @@ @]
Back(c, d) == SetPair([d EXCEPT !.mem = [a \in {Word(c.PC + 2), Word(c.PC + 3)} |-> c.mem[a]] @@ @],
                      "HL", Pair(c, "HL"))
WithoutPrefix(c) ==
    LET op == readb(c, c.PC + 1)
        last == readb(c, c.PC + 3)
    IN CASE op \in Unaffected -> Skip(c, 1)
         [] op = 203 -> Directly(c, <<203, (last - (last % 8)) + 6>>)
         [] op \in HalfLoads -> Directly(ExchangeA(c, op), IF op < 112 THEN <<126>> ELSE <<119>>)
         [] op \in AtHL \ HalfLoads -> Directly(c, <<op>>)
         [] OTHER -> Swap(Skip(c, 1))
\* From what became of that machine, what the prefix must have made of c.
WithPrefix(c, d) ==
    LET op == readb(c, c.PC + 1)
        last == readb(c, c.PC + 3)
        reg == Names[(last % 8) + 1]
    IN CASE op \in Unaffected -> d
         [] op = 203 -> IF reg = "(HL)" \/ last \in 64..127 THEN Back(c, d)
                        ELSE [Back(c, d) EXCEPT ![reg] = readb(d, Displaced(c))]
         [] op \in HalfLoads -> ExchangeA(Back(ExchangeA(c, op), d), op)
         [] op \in AtHL \ HalfLoads -> Back(c, d)
         [] OTHER -> Swap(d)
-----------------------------------------------------------------------------
End == Word(start.cpu.PC + start.len)
Finished == CASE start.kind \in {"single", "sum8", "sum16"} -> cpu.clock > 0
              [] start.kind = "symbols" -> TRUE
              [] OTHER -> cpu.PC = End /\ cpu.clock > 0

\* An instruction, and an interrupt after it or not; the bus shows FF.
Running ==
    /\ ~Finished
    /\ start.kind = "halt" => cpu.clock < MaxClock
    /\ \E i \in (IF left > 0 THEN BOOLEAN ELSE {FALSE}) :
         /\ Step(i, 255)
         /\ left' = IF i /\ cpu'.IFF1 = FALSE /\ cpu.IFF1 THEN left - 1 ELSE left
    /\ UNCHANGED <<start, done, labels>>
\* After an instruction with DD or FD, the one that does the same without.
Again ==
    /\ HasPrefix /\ Finished /\ done = <<>>
    /\ done' = cpu
    /\ cpu' = WithoutPrefix(start.cpu)
    /\ UNCHANGED <<start, left, labels>>
SetLabel(name, value) ==
    /\ start.kind = "symbols"
    /\ labels' = set_symbol(labels, name, value)
    /\ UNCHANGED <<cpu, start, done, left>>

ProgramNext ==
    \/ Running \/ Again
    \/ \E name \in Labels, value \in Addresses : SetLabel(name, value)
    \/ (Finished \/ cpu.clock >= MaxClock) /\ UNCHANGED programVars
-----------------------------------------------------------------------------
(* What arithmetic is, in integers.                                        *)
SignedWord(w) == IF w > 32767 THEN w - 65536 ELSE w
Ones(byte) == Cardinality({i \in 0..7 : Bit(byte, i) = 1})
Has(flag, cond) == (flag \in cpu.F) = cond
\* A sum of u, or of s as signed numbers, in a range of `size' numbers.
Overflow(size, s) == Has("P", s \notin -(size \div 2)..((size \div 2) - 1))
SumFlags(size, u, r) ==
    /\ r = u % size
    /\ Has("C", u \notin 0..(size - 1))
    /\ Has("Z", r = 0) /\ Has("S", r >= size \div 2)
LogicFlags(r, f(_, _), a, b) ==
    /\ \A i \in 0..7 : Bit(r, i) = f(Bit(a, i), Bit(b, i))
    /\ Has("Z", r = 0) /\ Has("S", r > 127) /\ Has("P", Ones(r) % 2 = 0)
    /\ {"C", "N"} \cap cpu.F = {}
And1(x, y) == x * y
Xor1(x, y) == (x + y) % 2
Or1(x, y) == IF x + y > 0 THEN 1 ELSE 0

Sum8 ==
    LET s == start.cpu  a == s.A  b == s.B  k == Carry(s.F)
        sa == Signed(a)  sb == Signed(b)
        op == n(s)
        Plus(c) == SumFlags(256, a + b + c, cpu.A) /\ Overflow(256, sa + sb + c)
                   /\ Has("H", (a % 16) + (b % 16) + c > 15) /\ Has("N", FALSE)
        Minus(c, r) == SumFlags(256, a - b - c, r) /\ Overflow(256, sa - sb - c)
                       /\ Has("H", (a % 16) - (b % 16) - c < 0) /\ Has("N", TRUE)
        Rotated(r, c) == /\ cpu.B = r /\ Has("C", c = 1)
                         /\ Has("Z", r = 0) /\ Has("S", r > 127) /\ Has("P", Ones(r) % 2 = 0)
        c8 == IF "C" \in cpu.F THEN 1 ELSE 0
    IN CASE op = 128 -> Plus(0)
         [] op = 136 -> Plus(k)
         [] op = 144 -> Minus(0, cpu.A)
         [] op = 152 -> Minus(k, cpu.A)
         [] op = 184 -> Minus(0, Byte(a - b)) /\ cpu.A = a
         [] op = 160 -> LogicFlags(cpu.A, And1, a, b)
         [] op = 168 -> LogicFlags(cpu.A, Xor1, a, b)
         [] op = 176 -> LogicFlags(cpu.A, Or1, a, b)
         [] op = 4 -> /\ cpu.B = Byte(b + 1) /\ Has("P", sb + 1 > 127) /\ Has("Z", cpu.B = 0)
                      /\ Has("C", k = 1) /\ Has("H", b % 16 = 15)
         [] op = 5 -> /\ cpu.B = Byte(b - 1) /\ Has("P", sb - 1 < -128) /\ Has("Z", cpu.B = 0)
                      /\ Has("C", k = 1) /\ Has("H", b % 16 = 0)
         [] op = 237 -> SumFlags(256, -a, cpu.A) /\ Overflow(256, -sa)
         [] op = 203 ->
              CASE readb(s, s.PC + 1) = 0 -> Rotated(IF b = 255 THEN b ELSE (2 * b) % 255, Bit(b, 7))
                [] readb(s, s.PC + 1) = 8 -> Rotated((b \div 2) + (128 * (b % 2)), b % 2)
                [] readb(s, s.PC + 1) = 16 -> Rotated(cpu.B, c8) /\ (256 * c8) + cpu.B = (2 * b) + k
                [] readb(s, s.PC + 1) = 24 -> Rotated(cpu.B, c8) /\ (2 * cpu.B) + c8 = (256 * k) + b
                [] readb(s, s.PC + 1) = 32 -> Rotated(cpu.B, c8) /\ (256 * c8) + cpu.B = 2 * b
                [] readb(s, s.PC + 1) = 40 -> Rotated(Byte(sb \div 2), b % 2)
                [] readb(s, s.PC + 1) = 48 -> Rotated(cpu.B, c8) /\ (256 * c8) + cpu.B = (2 * b) + 1
                [] readb(s, s.PC + 1) = 56 -> Rotated(b \div 2, b % 2)
Sum16 ==
    LET s == start.cpu  a == Pair(s, "HL")  b == Pair(s, "BC")  k == Carry(s.F)
        r == Pair(cpu, "HL")
    IN CASE n(s) = 9 -> /\ r = Word(a + b) /\ Has("C", a + b > 65535)
                        /\ \A x \in {"S", "Z", "P"} : Has(x, x \in s.F)
         [] n(s) = 237 /\ readb(s, s.PC + 1) = 74 -> SumFlags(65536, a + b + k, r) /\ Has("N", FALSE)
         [] n(s) = 237 /\ readb(s, s.PC + 1) = 66 -> SumFlags(65536, a - b - k, r) /\ Has("N", TRUE)
Decimal ==
    LET Value(b) == (10 * (b \div 16)) + (b % 16)
        s == start.cpu  a == Value(s.A)  b == Value(s.B)  k == Carry(s.F)
        v == CASE n(s) = 128 -> a + b  [] n(s) = 136 -> a + b + k
               [] n(s) = 144 -> a - b  [] n(s) = 152 -> a - b - k
    IN Value(cpu.A) = v % 100 /\ Has("C", v \notin 0..99)

(* Sums, differences, logic and rotations give the results and flags that  *)
(* the integers have, and DAA after one of two decimal numbers gives the   *)
(* decimal result: z80cmds.h computes both with masks and tables.  Of the  *)
(* sums of 16 bits it claims all but the overflow, which is below.         *)
ArithmeticIsExact ==
    Finished => CASE start.kind = "sum8" -> Sum8
                  [] start.kind = "sum16" -> Sum16
                  [] start.kind = "decimal" -> Decimal
                  [] OTHER -> TRUE

(* z80cmds.h:41-42: V, another name for P, is set by arithmetic operations *)
(* when the result overflows; here by ADC HL, BC and SBC HL, BC.           *)
OverflowIsFlagged ==
    start.kind = "sum16" /\ n(start.cpu) = 237 /\ Finished =>
      LET s == start.cpu
          sa == SignedWord(Pair(s, "HL"))  sb == SignedWord(Pair(s, "BC"))
      IN Overflow(65536, IF readb(s, s.PC + 1) = 74 THEN sa + sb + Carry(s.F)
                                                    ELSE sa - sb - Carry(s.F))
-----------------------------------------------------------------------------
(* An instruction after DD or FD does what it does without it, with IX or  *)
(* IY in the place of HL and IX + d in that of HL as an address; H and L   *)
(* stay themselves when the operand is in memory.  It takes 4 clocks more, *)
(* and 8 for a displacement, but 4 for one before a CB opcode, 5 in        *)
(* LD (IX + d), n, and none in ADD A, (IX + d), which the code forgets.    *)
(* z80ddfd.h is a table of its own that must say all that for each opcode. *)
SameButClock(c, d) == [c EXCEPT !.clock = 0, !.Rl = 0, !.op = 0]
              = [d EXCEPT !.clock = 0, !.Rl = 0, !.op = 0]
PrefixReplacesHL ==
    done # <<>> /\ Finished =>
      LET op == readb(start.cpu, start.cpu.PC + 1)
          clocks == CASE op = 203 -> 8
                      [] op = 54 -> 9
                      [] op \in AtHL \ {54, 134} -> 12
                      [] OTHER -> 4
      IN SameButClock(done, WithPrefix(start.cpu, cpu)) /\ done.clock = cpu.clock + clocks
-----------------------------------------------------------------------------
(* A block instruction that repeats gives what its rounds give in order,   *)
(* interrupted between them or not, and HALT goes on behind itself after   *)
(* one: PC stays on the instruction, so that its rounds are executions.    *)
Rounds(s) ==      \* of a copy or a search
    LET bc == IF Pair(s, "BC") = 0 THEN 65536 ELSE Pair(s, "BC")
        dir == IF readb(s, s.PC + 1) % 16 > 7 THEN -1 ELSE 1
        found == {k \in 1..bc : readb(s, Pair(s, "HL") + (dir * (k - 1))) = s.A}
    IN CASE readb(s, s.PC + 1) < 176 -> 1
         [] readb(s, s.PC + 1) > 175 /\ readb(s, s.PC + 1) % 8 = 1 /\ found # {} ->
              CHOOSE k \in found : \A j \in found : k <= j
         [] readb(s, s.PC + 1) > 175 /\ readb(s, s.PC + 1) % 8 > 1 -> IF s.B = 0 THEN 256 ELSE s.B
         [] OTHER -> bc
BlockDone ==
    LET s == start.cpu
        op == readb(s, s.PC + 1)
        dir == IF op % 16 > 7 THEN -1 ELSE 1
        hl == Pair(s, "HL")  de == Pair(s, "DE")
        rounds == Rounds(s)
        \* What round k moves: what an earlier round put there, or the old byte.
        moved[k \in 1..rounds] ==
            LET from == hl + (dir * (k - 1))
                before == {j \in 1..(k - 1) : de + (dir * (j - 1)) = from}
            IN IF before = {} THEN readb(s, from) ELSE moved[CHOOSE j \in before : TRUE]
        Source(k) == readb(s, hl + (dir * (k - 1)))
        counted == Pair(s, "BC") - (256 * rounds)
    IN /\ Pair(cpu, "HL") = Word(hl + (dir * rounds))
       /\ CASE op % 8 = 0 ->
                 /\ \A k \in 1..rounds : readb(cpu, de + (dir * (k - 1))) = moved[k]
                 /\ Pair(cpu, "DE") = Word(de + (dir * rounds))
                 /\ Pair(cpu, "BC") = Word(Pair(s, "BC") - rounds)
            [] op % 8 = 1 ->
                 /\ Has("Z", Source(rounds) = s.A)
                 /\ Pair(cpu, "BC") = Word(Pair(s, "BC") - rounds)
            [] op % 8 = 2 ->
                 /\ \A k \in 1..rounds : readb(cpu, hl + (dir * (k - 1))) = s.in
                 /\ Pair(cpu, "BC") = Word(counted)
            [] op % 8 = 3 ->
                 /\ cpu.out = [k \in 1..rounds |-> <<Word(Pair(s, "BC") - (256 * k)), Source(k)>>]
                 /\ Pair(cpu, "BC") = Word(counted)
BlocksComplete ==
    Finished => CASE start.kind = "block" -> BlockDone
                  [] start.kind = "halt" -> cpu.A = start.cpu.A + 1 /\ cpu.SP = start.cpu.SP
                  [] OTHER -> TRUE
-----------------------------------------------------------------------------
(* The disassembler and the processor agree: a listed instruction ends     *)
(* where the processor goes on or returns to, and the address that it      *)
(* names is where it jumps or returns to.  A prefix without effect is      *)
(* listed as data of one byte.                                             *)
Returns == {192, 200, 208, 216, 224, 232, 240, 248, 201, 233}
Listed(c) == LET mem == [a \in 0..65535 |-> readb(c, a)]
             IN disassemble(<<>>, mem, 65536, c.PC, c.PC)
ListingAgrees ==
    start.kind = "single" /\ Finished /\ done = <<>> /\ ~cpu.nspire =>
      LET list == Listed(start.cpu)
          op == n(start.cpu)
          second == readb(start.cpu, start.cpu.PC + 1)
          stacked == readw(cpu, cpu.SP)
      IN CASE list.arg = "DB" /\ op # 237 -> list.next = Word(start.cpu.PC + 1)
           [] list.arg \in {"r", "j"} ->
                /\ cpu.PC \in {list.next, Word(list.address)}
                /\ cpu.SP # start.cpu.SP => cpu.PC = list.address /\ stacked = list.next
           [] list.arg = "z" -> cpu.PC = list.address /\ stacked = list.next
           [] op = 118 -> cpu.PC = start.cpu.PC
           [] op = 237 /\ second > 175 /\ second < 192 /\ second % 8 < 4 ->
                cpu.PC \in {start.cpu.PC, list.next}
           [] \/ op \in Returns
              \/ op \in {221, 253} /\ second = 233
              \/ op = 237 /\ second \in 64..127 /\ second % 8 = 5 -> TRUE
           [] OTHER -> cpu.PC = list.next

(* A symbol table stays sorted, without an entry twice, so that a search   *)
(* finds the name last given to an address, and a printed address denotes  *)
(* the address that it was printed for.                                    *)
SymbolsDenote ==
    start.kind = "symbols" =>
      LET bound(v) == {i \in 1..Len(labels) : labels[i].value <= v}
      IN /\ \A i, j \in 1..Len(labels) :
              i < j => /\ labels[i].value < labels[j].value
                       /\ labels[i].name # labels[j].name
         /\ \A v \in Addresses :
              LET word == print_word(labels, <<>>, v, FALSE, TRUE)
              IN /\ v = word.offset + (IF word.sym = NoSymbol THEN 0 ELSE word.sym.value)
                 /\ (\E i \in bound(v) : labels[i].value = v) =>
                       word.sym # NoSymbol /\ word.offset = 0
                 /\ find_prev_symbol(labels, v) = NoSymbol <=> bound(v) = {}
=============================================================================
