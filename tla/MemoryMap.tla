---------------------------- MODULE MemoryMap ----------------------------
(***************************************************************************)
(* How the ports of each calculator map its pages into the four banks of   *)
(* 0x4000 bytes that the Z80 sees, and which byte of calc->mem an address  *)
(* then names.  The functions that read, fetch and write a byte and the    *)
(* two that translate for the debugger each compute that anew.             *)
(***************************************************************************)
EXTENDS HwModels

CONSTANTS
    PageValues,      \* bytes the program writes to the ports that hold a page
    SelectValues,    \* bytes it writes to the ports that select how they act
    LimitValues,     \* bytes it writes to ports 27 and 28
    Addresses        \* logical addresses at which the views are compared

VARIABLES
    reg,             \* the paging registers of calc->hwregs
    bank             \* calc->mempagemap; bank[1] is bank 0

mapVars == <<reg, bank>>

Page == 16384
Registers == {"hw", "rom", "p2", "p4", "p5", "p6", "p7", "pE", "pF", "p27", "p28"}
NONE == -1                                           \* 0xffffffff
FLASH == -2
ABORT == -3

-----------------------------------------------------------------------------
(* setup_mapping() of each calculator: banks 1 to 3 from the registers.    *)

X1Map(r) ==
    LET pg(v, ram, odd) == IF Bit(v, ram) THEN 2 ELSE IF Bit(v, odd) THEN 1 ELSE 0
    IN  CASE r.hw = 1 -> <<pg(r.p5, 6, 0), pg(r.p6, 6, 0), 2>>
          [] r.hw = 2 -> <<pg(r.p2, 6, 0), pg(r.p2, 7, 3), 2>>
          [] OTHER -> <<1, 0, 2>>

(* Port 4 bit 0 of most models: one register pages banks 1 and 2 together. *)
Paired(r, a, second, b, c) ==
    IF Bit(r.p4, 0) THEN <<Even(a), second, b>> ELSE <<a, b, c>>

X2Map(r) ==
    LET a == IF Bit(r.p2, 6) THEN 8 + (r.p2 % 2) ELSE (r.p2 % 8)
        b == IF Bit(r.p2, 7) THEN 8 + ((r.p2 \div 8) % 2) ELSE ((r.p2 \div 8) % 8)
    IN  Paired(r, a, Set(a, 0), b, 8)

X3Map(r) ==
    LET a == IF Bit(r.p2, 6) THEN 16 + (r.p2 % 2) ELSE r.rom + (r.p2 % 8)
        b == IF Bit(r.p2, 7) THEN 16 + ((r.p2 \div 8) % 2)
                             ELSE r.rom + ((r.p2 \div 8) % 8)
    IN  Paired(r, a, Set(a, 0), b, 16)

X5Map(r) ==
    LET pg(v) == IF Bit(v, 6) THEN 8 + (v % 2) ELSE (v % 8)
    IN  <<pg(r.p5), pg(r.p6), 8>>

X6Map(r) ==
    LET pg(v) == IF Bit(v, 6) THEN 16 + (v % 8) ELSE (v % 16)
    IN  <<pg(r.p5), pg(r.p6), 16>>

X7Map(r) ==
    LET pg(v) == IF Bit(v, 6) THEN 32 + (v % 2) ELSE (v % 32)
    IN  Paired(r, pg(r.p6), pg(r.p6), pg(r.p7), 32)

XpMap(r) == X7Map(r)

SilverMap(r, ram, a, b) ==
    LET pgA == IF Bit(r.p6, 7) THEN ram + (r.p6 % 8) ELSE a
        pgB == IF Bit(r.p7, 7) THEN ram + (r.p7 % 8) ELSE b
    IN  Paired(r, pgA, Set(pgA, 0), pgB, ram + (r.p5 % 8))

XsMap(r) == SilverMap(r, 128, r.p6 % 128, r.p7 % 128)
XzMap(r) == XsMap(r)
XnMap(r) == XsMap(r)
X4Map(r) == SilverMap(r, 64, r.p6 % 64, r.p7 % 64)
XcMap(r) == SilverMap(r, 256, (r.p6 % 128) + 128 * (r.pE % 2),
                              (r.p7 % 128) + 128 * (r.pF % 2))

Mapping(m, r) ==
    CASE m = "x1" -> X1Map(r) [] m = "x2" -> X2Map(r) [] m = "x3" -> X3Map(r)
      [] m = "x5" -> X5Map(r) [] m = "x6" -> X6Map(r) [] m = "x7" -> X7Map(r)
      [] m = "xp" -> XpMap(r) [] m = "xs" -> XsMap(r) [] m = "x4" -> X4Map(r)
      [] m = "xz" -> XzMap(r) [] m = "xn" -> XnMap(r) [] m = "xc" -> XcMap(r)

Banks(m, r) == <<0>> \o Mapping(m, r)
-----------------------------------------------------------------------------
(* The paging half of the *_reset() functions: registers, and the banks    *)
(* they are set to.  What is not named keeps its value.                    *)

X1Reset(r) == [reg |-> [r EXCEPT !.p2 = 0, !.p5 = 0, !.p6 = 0], bank |-> <<0, 1, 0, 2>>]
X2Reset(r) == [reg |-> [r EXCEPT !.p2 = 248, !.p4 = 0], bank |-> <<0, 0, 9, 8>>]
X3Reset(r) == [reg |-> [r EXCEPT !.p2 = 248, !.p4 = 0, !.rom = 0],
               bank |-> <<0, 0, 17, 16>>]
X5Reset(r) == [reg |-> [r EXCEPT !.p5 = 0, !.p6 = 64], bank |-> <<0, 0, 8, 8>>]
X6Reset(r) == [reg |-> [r EXCEPT !.p5 = 0, !.p6 = 0], bank |-> <<0, 0, 0, 16>>]
X7Reset(r) == [reg |-> [r EXCEPT !.p4 = 119, !.p6 = 31, !.p7 = 31],
               bank |-> <<0, 30, 31, 31>>]
XpReset(r) == [reg |-> [r EXCEPT !.p4 = 119, !.p5 = 0, !.p6 = 31, !.p7 = 31],
               bank |-> <<0, 30, 31, 31>>]

SilverReset(r, p4, last, top) ==
    [reg |-> [r EXCEPT !.p4 = p4, !.p6 = last, !.p7 = last, !.p27 = 0, !.p28 = 0],
     bank |-> <<0, top - 1, top, top>>]

XsReset(r) == SilverReset(r, 119, 127, 127)
XzReset(r) == SilverReset(r, 7, 127, 127)
XnReset(r) == SilverReset(r, 7, 127, 127)
X4Reset(r) == SilverReset(r, 7, 63, 63)
XcReset(r) == SilverReset([r EXCEPT !.pE = 1, !.pF = 1], 7, 127, 255)

ResetOf(m, r) ==
    CASE m = "x1" -> X1Reset(r) [] m = "x2" -> X2Reset(r) [] m = "x3" -> X3Reset(r)
      [] m = "x5" -> X5Reset(r) [] m = "x6" -> X6Reset(r) [] m = "x7" -> X7Reset(r)
      [] m = "xp" -> XpReset(r) [] m = "xs" -> XsReset(r) [] m = "x4" -> X4Reset(r)
      [] m = "xz" -> XzReset(r) [] m = "xn" -> XnReset(r) [] m = "xc" -> XcReset(r)
-----------------------------------------------------------------------------
(* The port writes that page memory: the registers after `out (p), v'.     *)
(* The TI-81 finds out which hardware it is from the first port the ROM    *)
(* uses; the ports of the first hardware are decoded by three lines.       *)

X1Detect(r, p, inRom) ==
    IF r.hw # 0 \/ ~inRom THEN r
    ELSE IF p \in {5, 6} THEN [r EXCEPT !.hw = 1]
    ELSE IF p \in {16, 17} THEN [r EXCEPT !.hw = 2]
    ELSE r

X1Out(r, p, v, inRom) ==
    LET d == X1Detect(r, p, inRom)
        q == IF d.hw = 1 THEN p % 8 ELSE p
    IN  CASE q = 2 -> [d EXCEPT !.p2 = v]
          [] q = 5 -> [d EXCEPT !.p5 = v]
          [] q = 6 -> [d EXCEPT !.p6 = v]
          [] OTHER -> d

X2Out(r, p, v, inRom) ==
    CASE p = 2 -> [r EXCEPT !.p2 = v]
      [] p = 4 -> [r EXCEPT !.p4 = v,
                            !.hw = IF inRom THEN (IF Bit(v, 4) THEN 1 ELSE 2) ELSE @]

X3Out(r, p, v) ==
    CASE p = 0 -> [r EXCEPT !.rom = IF Bit(v, 4) THEN 8 ELSE 0]
      [] p = 2 -> [r EXCEPT !.p2 = v]
      [] p = 4 -> [r EXCEPT !.p4 = v]

X5Out(r, p, v) == IF p = 5 THEN [r EXCEPT !.p5 = v] ELSE [r EXCEPT !.p6 = v]
X6Out(r, p, v) == X5Out(r, p, v)

X7Out(r, p, v) ==
    CASE p = 4 -> [r EXCEPT !.p4 = v]
      [] p = 6 -> [r EXCEPT !.p6 = v % 128]
      [] p = 7 -> [r EXCEPT !.p7 = v % 128]

XpOut(r, p, v) == X7Out(r, p, v)

XsOut(r, p, v) ==
    CASE p = 4 -> [r EXCEPT !.p4 = v]
      [] p = 5 -> [r EXCEPT !.p5 = v % 16]
      [] p = 6 -> [r EXCEPT !.p6 = v]
      [] p = 7 -> [r EXCEPT !.p7 = v]

XzOut(r, p, v) == XsOut(r, p, v)
XnOut(r, p, v) == XsOut(r, p, v)
X4Out(r, p, v) == XsOut(r, p, v)
XcOut(r, p, v) ==
    CASE p = 14 -> [r EXCEPT !.pE = v]
      [] p = 15 -> [r EXCEPT !.pF = v]
      [] OTHER -> XsOut(r, p, v)

PagingPorts(m) ==
    CASE m = "x1" -> {2, 5, 6, 13, 14, 16} [] m = "x2" -> {2, 4} [] m = "x3" -> {0, 2, 4}
      [] m \in {"x5", "x6"} -> {5, 6} [] m \in Plus -> {4, 6, 7}
      [] m = "xc" -> {4, 5, 6, 7, 14, 15}
      [] OTHER -> {4, 5, 6, 7}

Out(m, r, p, v, inRom) ==
    CASE m = "x1" -> X1Out(r, p, v, inRom) [] m = "x2" -> X2Out(r, p, v, inRom)
      [] m = "x3" -> X3Out(r, p, v) [] m = "x5" -> X5Out(r, p, v)
      [] m = "x6" -> X6Out(r, p, v) [] m = "x7" -> X7Out(r, p, v)
      [] m = "xp" -> XpOut(r, p, v) [] m = "xs" -> XsOut(r, p, v)
      [] m = "x4" -> X4Out(r, p, v) [] m = "xz" -> XzOut(r, p, v)
      [] m = "xn" -> XnOut(r, p, v) [] m = "xc" -> XcOut(r, p, v)
-----------------------------------------------------------------------------
(* Where a logical address leads.  The models after the SE force RAM page  *)
(* 0 under the end of bank 3 and RAM page 1 under the start of bank 2, in  *)
(* units of 64 bytes (ports 27 and 28).                                    *)

Ram(m) == hwmodels[m].rom                            \* number of its first page
MemoryPages(m) == hwmodels[m].rom + hwmodels[m].ram

PlainLtop(b, A) == b[A \div Page + 1] * Page + (A % Page)

X1Ltop(b, A) ==
    LET pa == PlainLtop(b, A)
    IN  IF pa >= 2 * Page THEN 2 * Page + (pa % 8192) ELSE pa
X2Ltop(b, A) == PlainLtop(b, A)
X3Ltop(b, A) == PlainLtop(b, A)
X5Ltop(b, A) == PlainLtop(b, A)
X6Ltop(b, A) == PlainLtop(b, A)
X7Ltop(b, A) == PlainLtop(b, A)
XpLtop(b, A) == PlainLtop(b, A)

\* Mutant: port 27 forces one byte too many.
MutSilverPage(r, b, A, ram) ==
    IF A >= 2 * Page /\ A >= 65535 - 64 * r.p27 THEN ram
    ELSE IF A >= 2 * Page /\ A < 2 * Page + 64 * r.p28 THEN ram + 1
    ELSE b[A \div Page + 1]

SilverPage(r, b, A, ram) ==
    IF A >= 2 * Page /\ A > 65535 - 64 * r.p27 THEN ram
    ELSE IF A >= 2 * Page /\ A < 2 * Page + 64 * r.p28 THEN ram + 1
    ELSE b[A \div Page + 1]

SilverLtop(r, b, A, ram) == SilverPage(r, b, A, ram) * Page + (A % Page)
XsLtop(r, b, A) == SilverLtop(r, b, A, 128)
X4Ltop(r, b, A) == SilverLtop(r, b, A, 64)
XzLtop(r, b, A) == SilverLtop(r, b, A, 128)
XnLtop(r, b, A) == SilverLtop(r, b, A, 128)
XcLtop(r, b, A) == SilverLtop(r, b, A, 256)

Ltop(m, r, b, A) ==
    CASE m = "x1" -> X1Ltop(b, A) [] m = "x2" -> X2Ltop(b, A) [] m = "x3" -> X3Ltop(b, A)
      [] m = "x5" -> X5Ltop(b, A) [] m = "x6" -> X6Ltop(b, A) [] m = "x7" -> X7Ltop(b, A)
      [] m = "xp" -> XpLtop(b, A) [] m = "xs" -> XsLtop(r, b, A) [] m = "x4" -> X4Ltop(r, b, A)
      [] m = "xz" -> XzLtop(r, b, A) [] m = "xn" -> XnLtop(r, b, A)
      [] m = "xc" -> XcLtop(r, b, A)

PlainPtol(b, pa) ==
    IF \E i \in 1..4 : b[i] = pa \div Page
    THEN LET i == CHOOSE i \in 1..4 : /\ b[i] = pa \div Page
                                      /\ \A j \in 1..i-1 : b[j] # pa \div Page
         IN  (i - 1) * Page + (pa % Page)
    ELSE NONE
X1Ptol(pa) == IF pa >= 2 * Page THEN 57344 + (pa % 8192) ELSE pa
X2Ptol(b, pa) == PlainPtol(b, pa)
X3Ptol(b, pa) == PlainPtol(b, pa)
X5Ptol(b, pa) == PlainPtol(b, pa)
X6Ptol(b, pa) == PlainPtol(b, pa)
X7Ptol(b, pa) == PlainPtol(b, pa)
XpPtol(b, pa) == PlainPtol(b, pa)

SilverPtol(r, b, pa, ram) ==
    LET pg == pa \div Page
        off == (pa % Page)
    IN  CASE pg = 0 -> off
          [] pg # 0 /\ pg = b[2] -> Page + off
          [] pg # 0 /\ pg # b[2] /\ pg = (IF off < 64 * r.p28 THEN ram + 1 ELSE b[3])
             -> 2 * Page + off
          [] OTHER -> IF pg = (IF off >= Page - 64 * r.p27 THEN ram ELSE b[4])
                      THEN 3 * Page + off ELSE NONE
XsPtol(r, b, pa) == SilverPtol(r, b, pa, 128)
X4Ptol(r, b, pa) == SilverPtol(r, b, pa, 64)
XzPtol(r, b, pa) == SilverPtol(r, b, pa, 128)
XnPtol(r, b, pa) == SilverPtol(r, b, pa, 128)
XcPtol(r, b, pa) == SilverPtol(r, b, pa, 256)

Ptol(m, r, b, A) ==
    CASE m = "x1" -> X1Ptol(A) [] m = "x2" -> X2Ptol(b, A) [] m = "x3" -> X3Ptol(b, A)
      [] m = "x5" -> X5Ptol(b, A) [] m = "x6" -> X6Ptol(b, A) [] m = "x7" -> X7Ptol(b, A)
      [] m = "xp" -> XpPtol(b, A) [] m = "xs" -> XsPtol(r, b, A) [] m = "x4" -> X4Ptol(r, b, A)
      [] m = "xz" -> XzPtol(r, b, A) [] m = "xn" -> XnPtol(r, b, A)
      [] m = "xc" -> XcPtol(r, b, A)

(* The byte that *_z80_rdmem() returns (the locked certificate is in       *)
(* PortProtection).                                                        *)
X1Read(b, A) ==
    LET pa == PlainLtop(b, A)
    IN  IF pa >= 2 * Page THEN 2 * Page + (pa % 8192) ELSE (pa % (2 * Page))
X2Read(b, A) == PlainLtop(b, A)
X3Read(b, A) == PlainLtop(b, A)
X5Read(b, A) == PlainLtop(b, A)
X6Read(b, A) == PlainLtop(b, A)
X7Read(b, A) == PlainLtop(b, A)
XpRead(b, A) == PlainLtop(b, A)
XsRead(r, b, A) == SilverPage(r, b, A, 128) * Page + (A % Page)
X4Read(r, b, A) == SilverPage(r, b, A, 64) * Page + (A % Page)
XzRead(r, b, A) == SilverPage(r, b, A, 128) * Page + (A % Page)
XnRead(r, b, A) == SilverPage(r, b, A, 128) * Page + (A % Page)
XcRead(r, b, A) == SilverPage(r, b, A, 256) * Page + (A % Page)
Read(m, r, b, A) ==
    CASE m = "x1" -> X1Read(b, A) [] m = "x2" -> X2Read(b, A) [] m = "x3" -> X3Read(b, A)
      [] m = "x5" -> X5Read(b, A) [] m = "x6" -> X6Read(b, A) [] m = "x7" -> X7Read(b, A)
      [] m = "xp" -> XpRead(b, A) [] m = "xs" -> XsRead(r, b, A) [] m = "x4" -> X4Read(r, b, A)
      [] m = "xz" -> XzRead(r, b, A) [] m = "xn" -> XnRead(r, b, A)
      [] m = "xc" -> XcRead(r, b, A)

(* What *_z80_wrmem() reaches: RAM at the physical address, the Flash chip *)
(* (FLASH), or nothing.  The TI-82 aborts the program beyond its memory.   *)
InRam(pa, first, pages) == IF pa \in first * Page .. (first + pages) * Page - 1 THEN pa ELSE NONE
X1Write(b, A) ==
    LET pa == PlainLtop(b, A)
    IN  IF pa >= 2 * Page THEN 32768 * ((pa \div 32768) % 2) + (pa % 8192) ELSE NONE
X2Write(b, A) ==
    LET pa == PlainLtop(b, A)
    IN  IF pa >= 10 * Page THEN ABORT ELSE IF pa >= 8 * Page THEN pa ELSE NONE
RamFrom(pa, first) == IF pa >= first * Page THEN pa ELSE NONE
X3Write(b, A) == RamFrom(PlainLtop(b, A), 16)
X5Write(b, A) == RamFrom(PlainLtop(b, A), 8)
X6Write(b, A) == RamFrom(PlainLtop(b, A), 16)
PastFlash(pa, rom, pages) == IF pa < rom * Page THEN FLASH ELSE InRam(pa, rom, pages)
X7Write(b, A) == PastFlash(PlainLtop(b, A), 32, 2)
XpWrite(b, A) == PastFlash(PlainLtop(b, A), 32, 2)
SilverWrite(r, b, A, rom) ==
    PastFlash(SilverPage(r, b, A, rom) * Page + (A % Page), rom, 8)
XsWrite(r, b, A) == SilverWrite(r, b, A, 128)
X4Write(r, b, A) == SilverWrite(r, b, A, 64)
XzWrite(r, b, A) == SilverWrite(r, b, A, 128)
XnWrite(r, b, A) == SilverWrite(r, b, A, 128)
XcWrite(r, b, A) == SilverWrite(r, b, A, 256)
WriteTo(m, r, b, A) ==
    CASE m = "x1" -> X1Write(b, A) [] m = "x2" -> X2Write(b, A) [] m = "x3" -> X3Write(b, A)
      [] m = "x5" -> X5Write(b, A) [] m = "x6" -> X6Write(b, A) [] m = "x7" -> X7Write(b, A)
      [] m = "xp" -> XpWrite(b, A) [] m = "xs" -> XsWrite(r, b, A) [] m = "x4" -> X4Write(r, b, A)
      [] m = "xz" -> XzWrite(r, b, A) [] m = "xn" -> XnWrite(r, b, A)
      [] m = "xc" -> XcWrite(r, b, A)
-----------------------------------------------------------------------------
MapInit ==
    /\ LET s == ResetOf(model, [k \in Registers |-> 0])
       IN  reg = s.reg /\ bank = s.bank

(* out (p), v for a paging port; inRom: the instruction is in the part of  *)
(* the ROM whose writes identify the hardware.  setup_mapping() follows    *)
(* but for a port that the TI-81 does not decode as one of its own.        *)
Decoded(p, r) == model # "x1" \/ (IF r.hw = 1 THEN p % 8 ELSE p) \in {2, 5, 6}

OutPaging(p, v, inRom) ==
    /\ p \in PagingPorts(model)
    /\ reg' = Out(model, reg, p, v, inRom)
    /\ bank' = IF Decoded(p, reg') \/ reg'.hw # reg.hw
               THEN Banks(model, reg') ELSE bank

OutLimit(p, v) ==
    /\ model \in Silver
    /\ reg' = [reg EXCEPT ![p] = v]
    /\ UNCHANGED bank

MapReset ==
    LET s == ResetOf(model, reg) IN reg' = s.reg /\ bank' = s.bank

MapNext ==
    \/ \E p \in {2, 5, 6, 7, 13}, v \in PageValues, inRom \in BOOLEAN : OutPaging(p, v, inRom)
    \/ \E p \in {0, 4, 14, 15, 16}, v \in SelectValues, inRom \in BOOLEAN : OutPaging(p, v, inRom)
    \/ \E p \in {"p27", "p28"}, v \in LimitValues : OutLimit(p, v)
    \/ MapReset
-----------------------------------------------------------------------------
MapTypeOK ==
    /\ reg \in [Registers -> 0..255]
    /\ bank \in [1..4 -> 0..511]

(* Every address the CPU can form names a byte of calc->mem, whatever has  *)
(* been written to the paging ports; what the CPU reads there is the byte  *)
(* that the debugger shows; what it writes goes to the same byte, if that  *)
(* is RAM, and else to the chip or nowhere: no *_wrmem leaves the memory   *)
(* or reaches the abort() of x2_memory.c.                                  *)
AddressesExist ==
    \A A \in Addresses :
        LET pa == Ltop(model, reg, bank, A)
        IN  /\ pa \in 0 .. MemoryPages(model) * Page - 1
            /\ Read(model, reg, bank, A) = pa
            /\ WriteTo(model, reg, bank, A) =
                   IF pa >= Ram(model) * Page THEN pa
                   ELSE IF model \in Simple THEN NONE ELSE FLASH

(* mem_ptol undoes mem_ltop: the debugger's way from a logical address to  *)
(* the physical one and back ends at the same byte, and an address is      *)
(* found for a physical byte exactly when some bank shows it.  (x1_mem_ptol *)
(* does not look at the banks; its ROM half is left out.)                  *)
PtolUndoesLtop ==
    \A A \in Addresses :
        LET pa == Ltop(model, reg, bank, A)
            back == Ptol(model, reg, bank, pa)
            shown(q) == \E L \in {k * Page + (q % Page) : k \in 0..3} :
                            Ltop(model, reg, bank, L) = q
        IN  /\ model # "x1" \/ pa >= 2 * Page
               => back # NONE /\ Ltop(model, reg, bank, back) = pa
            /\ model # "x1" =>
                 \A q \in {pg * Page + (A % Page) : pg \in {0, 1, Ram(model), Ram(model) + 1}} :
                     (Ptol(model, reg, bank, q) # NONE) <=> shown(q)

(* Between a reset and the first port write the banks are those of the     *)
(* reset; from then on they are what setup_mapping() makes of the          *)
(* registers, however the writes were ordered.                             *)
BanksFollowRegisters ==
    \/ bank = Banks(model, reg)
    \/ bank = ResetOf(model, reg).bank
=============================================================================
