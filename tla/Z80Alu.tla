------------------------------ MODULE Z80Alu ------------------------------
(***************************************************************************)
(* The arithmetic of the Z80 as z80cmds.h computes it: every operation     *)
(* takes its operands and the old flags and returns the result r and the   *)
(* new flags f.  F is the set of the flags that are set; the undocumented  *)
(* flags X and Y are left out.                                             *)
(***************************************************************************)
EXTENDS Integers, Bitwise

AllFlags == {"S", "Z", "H", "P", "N", "C"}
Weight == [S |-> 128, Z |-> 64, H |-> 16, P |-> 4, N |-> 2, C |-> 1]

\* Bit i of an integer in two's complement, the byte and the word of it.
Bit(n, i) == (n \div 2^i) % 2
Byte(n) == n % 256
Word(n) == n % 65536

If(cond, flag) == IF cond THEN {flag} ELSE {}
FlagsOf(byte) == {x \in AllFlags : (byte \div Weight[x]) % 2 = 1}
ByteOf(f) == LET w(x) == IF x \in f THEN Weight[x] ELSE 0
             IN w("S") + w("Z") + w("H") + w("P") + w("N") + w("C")

Carry(f) == IF "C" \in f THEN 1 ELSE 0
\* parity_table: an even number of bits.
Even(n) == (Bit(n,0)+Bit(n,1)+Bit(n,2)+Bit(n,3)+Bit(n,4)+Bit(n,5)+Bit(n,6)+Bit(n,7)) % 2 = 0

SZ(res) == If(Bit(res, 7) = 1, "S") \cup If(Byte(res) = 0, "Z")
SZP(res) == SZ(res) \cup If(Even(res), "P")
\* Bit i of arg1 ^ arg2 ^ res: a carry into that bit.
CarryInto(i, arg1, arg2, res) == (Bit(arg1, i) + Bit(arg2, i) + Bit(res, i)) % 2 = 1
-----------------------------------------------------------------------------
(* 8 bits.  A sum overflows if its arguments have one sign and the result  *)
(* the other, a difference if they differ and the result has that of the   *)
(* second.                                                                 *)
Sum(arg1, arg2, res) ==
    [r |-> Byte(res),
     f |-> SZ(res) \cup If(CarryInto(4, arg1, arg2, res), "H")
           \cup If(Bit(arg1, 7) = Bit(arg2, 7) /\ Bit(arg1, 7) # Bit(res, 7), "P")
           \cup If(Bit(res, 8) = 1, "C")]
Difference(arg1, arg2, res) ==
    [r |-> Byte(res),
     f |-> SZ(res) \cup If(CarryInto(4, arg1, arg2, res), "H")
           \cup If(Bit(arg1, 7) # Bit(arg2, 7) /\ Bit(arg1, 7) # Bit(res, 7), "P")
           \cup {"N"} \cup If(Bit(res, 8) = 1, "C")]

add8(a, b) == Sum(a, b, a + b)
adc8(a, b, f) == Sum(a, b, a + b + Carry(f))
sub8(a, b) == Difference(a, b, a - b)
sbc8(a, b, f) == Difference(a, b, a - b - Carry(f))
cp(a, b) == [r |-> a, f |-> sub8(a, b).f]
and(a, b) == LET res == a & b IN [r |-> res, f |-> SZP(res) \cup {"H"}]
xor(a, b) == LET res == a ^^ b IN [r |-> res, f |-> SZP(res)]
or(a, b) == LET res == a | b IN [r |-> res, f |-> SZP(res)]

inc(a, f) == LET res == Byte(a + 1)
             IN [r |-> res, f |-> SZ(res) \cup If(Bit(a, 4) # Bit(res, 4), "H")
                                  \cup If(res = 128, "P") \cup (f \cap {"C"})]
dec(a, f) == LET res == Byte(a - 1)
             IN [r |-> res, f |-> SZ(res) \cup If(Bit(a, 4) # Bit(res, 4), "H")
                                  \cup If(res = 127, "P") \cup {"N"} \cup (f \cap {"C"})]
cpl(a, f) == [r |-> 255 - a, f |-> {"H", "N"} \cup (f \cap {"S", "Z", "P", "C"})]
neg(a) == LET res == Byte(-a)
          IN [r |-> res, f |-> SZ(res) \cup If(Bit(a, 4) # Bit(res, 4), "H")
                               \cup If(a = 128, "P") \cup {"N"} \cup If(a # 0, "C")]

\* Mutant: the tens are not corrected for what the ones will carry.
MutDaa(a, f) ==
    LET low == IF "H" \in f \/ a % 16 > 9 THEN 6 ELSE 0
        high == IF "C" \in f \/ a > 159 THEN 96 ELSE 0
        res == Byte(IF "N" \in f THEN a - low - high ELSE a + low + high)
    IN [r |-> res, f |-> SZP(res) \cup If(Bit(a, 4) # Bit(res, 4), "H")
                         \cup (f \cap {"N"}) \cup If(high # 0, "C")]
\* daa_table, indexed by H, N, C and A: the 2048 entries follow this rule.
daa(a, f) ==
    LET low == IF "H" \in f \/ a % 16 > 9 THEN 6 ELSE 0
        high == IF "C" \in f \/ a > 153 THEN 96 ELSE 0
        res == Byte(IF "N" \in f THEN a - low - high ELSE a + low + high)
    IN [r |-> res, f |-> SZP(res) \cup If(Bit(a, 4) # Bit(res, 4), "H")
                         \cup (f \cap {"N"}) \cup If(high # 0, "C")]
-----------------------------------------------------------------------------
(* 16 bits.  adc16 and sbc16 shift an overflow to the place of H, where it *)
(* joins the half-carry, and leave P clear.                                *)
add16(a, b, f) ==
    [r |-> Word(a + b),
     f |-> (f \cap {"S", "Z", "P"}) \cup If(CarryInto(12, a, b, a + b), "H")
           \cup If(Bit(a + b, 16) = 1, "C")]
SZC(res) == If(Bit(res, 15) = 1, "S") \cup If(Word(res) = 0, "Z") \cup If(Bit(res, 16) = 1, "C")
adc16(a, b, f) ==
    LET res == a + b + Carry(f)
        overflow == Bit(a, 15) = Bit(b, 15) /\ Bit(a, 15) # Bit(res, 15)
    IN [r |-> Word(res), f |-> SZC(res) \cup If(CarryInto(12, a, b, res) \/ overflow, "H")]
sbc16(a, b, f) ==
    LET res == a - b - Carry(f)
        overflow == Bit(a, 15) # Bit(b, 15) /\ Bit(a, 15) # Bit(res, 15)
    IN [r |-> Word(res),
        f |-> SZC(res) \cup {"N"} \cup If(CarryInto(12, a, b, res) \/ overflow, "H")]
-----------------------------------------------------------------------------
(* Rotates and shifts: `in' enters at one end, the bit at the other end    *)
(* becomes the carry.  Those of A alone keep S, Z and P.                   *)
ShiftedLeft(a, in) == [r |-> Byte(2 * a) + in, c |-> Bit(a, 7)]
Right(a, in) == [r |-> (a \div 2) + 128 * in, c |-> Bit(a, 0)]
OfA(s, f) == [r |-> s.r, f |-> (f \cap {"S", "Z", "P"}) \cup If(s.c = 1, "C")]
Shifted(s) == [r |-> s.r, f |-> SZP(s.r) \cup If(s.c = 1, "C")]

rlca(a, f) == OfA(ShiftedLeft(a, Bit(a, 7)), f)
rrca(a, f) == OfA(Right(a, Bit(a, 0)), f)
rla(a, f) == OfA(ShiftedLeft(a, Carry(f)), f)
rra(a, f) == OfA(Right(a, Carry(f)), f)
rlc(a) == Shifted(ShiftedLeft(a, Bit(a, 7)))
rrc(a) == Shifted(Right(a, Bit(a, 0)))
rl(a, f) == Shifted(ShiftedLeft(a, Carry(f)))
rr(a, f) == Shifted(Right(a, Carry(f)))
sla(a) == Shifted(ShiftedLeft(a, 0))
sra(a) == Shifted(Right(a, Bit(a, 7)))
slia(a) == Shifted(ShiftedLeft(a, 1))
srl(a) == Shifted(Right(a, 0))

\* rld and rrd: what A and the byte at (HL) become, and the flags of A.
Nibbles(a, mem, f) == [r |-> a, m |-> mem, f |-> SZP(a) \cup (f \cap {"C"})]
rld(a, m, f) == Nibbles((a - (a % 16)) + (m \div 16), (16 * (m % 16)) + (a % 16), f)
rrd(a, m, f) == Nibbles((a - (a % 16)) + (m % 16), (m \div 16) + (16 * (a % 16)), f)
-----------------------------------------------------------------------------
(* Flags of the other operations.                                          *)
inFlags(res, f) == SZP(res) \cup (f \cap {"C"})
irFlags(res, iff2, f) == SZ(res) \cup If(iff2, "P") \cup (f \cap {"C"})
\* ldi and ldd; cpi and cpd; bc is the count that is left.
ldFlags(bc, f) == (f \cap {"S", "Z", "C"}) \cup If(bc # 0, "P")
cpFlags(a, m, bc, f) ==
    SZ(a - m) \cup If(CarryInto(4, a, m, a - m), "H") \cup If(bc # 0, "P")
    \cup {"N"} \cup (f \cap {"C"})
\* ini, ind, outi and outd: `plus' is added to the byte that is moved.
ioFlags(count, value, plus) ==
    LET k == value + plus
    IN SZ(count) \cup (IF k > 255 THEN {"H", "C"} ELSE {})
       \cup If(Even((k % 8) ^^ count), "P") \cup If(value > 127, "N")
bitFlags(b, byte, f) ==
    (IF Bit(byte, b) = 0 THEN {"Z", "P"} ELSE If(b = 7, "S")) \cup {"H"} \cup (f \cap {"C"})
=============================================================================
