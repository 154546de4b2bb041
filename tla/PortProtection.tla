-------------------------- MODULE PortProtection --------------------------
(***************************************************************************)
(* The Flash calculators guard their chip and the ports that limit where   *)
(* code may run.  The lock (port 14) obeys only after the CPU has read the *)
(* bytes of `nop; nop; im 1; di; out (n), a' from a privileged page; the   *)
(* readers of *_memory.c follow that sequence in PROTECTSTATE.  The limits *)
(* can be changed while the chip is unlocked, and a fetch outside of them  *)
(* is an exception, which resets the calculator.                           *)
(***************************************************************************)
EXTENDS HwModels

CONSTANTS
    ByteValues,      \* the bytes that the CPU reads
    LimitBytes       \* the bytes written to the protected ports

VARIABLES
    protect,         \* PROTECTSTATE
    unlock,          \* flash.unlock
    limit,           \* the protected registers, and what is derived from them
    matched          \* k: the last k bytes read are the first k of the sequence

protVars == <<protect, unlock, limit, matched>>

ProtectBytes == <<0, 0, 237, 86, 243, 211>>
-----------------------------------------------------------------------------
(* The pages from which readbyte() follows the sequence.                   *)
X7Privileged == 28..31
XpPrivileged == X7Privileged
XsPrivileged == 124..127
XzPrivileged == 108..111 \cup 124..127
XnPrivileged == 108..111 \cup 124..127
X4Privileged == 44..47 \cup 60..63
XcPrivileged == 236..239 \cup 252..255
Privileged(m) ==
    CASE m = "x7" -> X7Privileged [] m = "xp" -> XpPrivileged [] m = "xs" -> XsPrivileged
      [] m = "xz" -> XzPrivileged [] m = "xn" -> XnPrivileged [] m = "x4" -> X4Privileged
      [] m = "xc" -> XcPrivileged

\* Mutant: a byte that does not match leaves the state as it is.
MutNextProtect(m, page, value) ==
    IF page \notin Privileged(m) THEN 0
    ELSE IF protect = 6 THEN 7
    ELSE IF protect < 6 /\ value = ProtectBytes[protect + 1] THEN protect + 1
    ELSE protect

NextProtect(m, page, value) ==
    IF page \notin Privileged(m) THEN 0
    ELSE IF protect = 6 THEN 7
    ELSE IF protect < 6 /\ value = ProtectBytes[protect + 1] THEN protect + 1
    ELSE 0

(* The pages in which a fetch is an exception.  The TI-73 tests its mask   *)
(* of four bits, stored at bits 2 to 5, with the page modulo 4; it alone   *)
(* also traps fetches from the certificate while the chip is locked.       *)
X7Restricted(l, page) == Bit(4 * (l.mask[1] % 16), page % 4) \/ (page = 30 /\ ~unlock)
XpRestricted(l, page) ==
    page \div 8 \in 1..4 /\ Bit(l.mask[page \div 8], page % 8)
SilverRestricted(l, page, rom) ==        \* at the first byte of the page
    IF page < rom THEN l.p22 <= page /\ page <= l.p23
    ELSE LET a == ((page % 16) * 16384) % l.wrap
         IN  a < l.lower \/ a > l.upper
XsRestricted(l, page) == SilverRestricted(l, page, 128)
X4Restricted(l, page) == SilverRestricted(l, page, 64)
XzRestricted(l, page) == SilverRestricted(l, page, 128)
XcRestricted(l, page) ==
    IF page < 256 THEN l.p22 + 256 * (l.p24 % 2) <= page
                       /\ page <= l.p23 + (IF Bit(l.p24, 1) THEN 256 ELSE 0)
    ELSE SilverRestricted(l, page, 256)
XnRestricted(l, page) ==
    \/ page >= 128 /\ page % 8 \in l.ram
    \/ l.p22 <= page /\ page <= l.p23
Restricted(m, l, page) ==
    CASE m = "x7" -> X7Restricted(l, page) [] m = "xp" -> XpRestricted(l, page)
      [] m = "xs" -> XsRestricted(l, page) [] m = "x4" -> X4Restricted(l, page)
      [] m = "xz" -> XzRestricted(l, page) [] m = "xn" -> XnRestricted(l, page)
      [] m = "xc" -> XcRestricted(l, page)
-----------------------------------------------------------------------------
(* Registers after a reset.  `wrap' is NO_EXEC_RAM_MASK + 0x400: the mask  *)
(* keeps an address modulo it, in units of 0x400.                          *)
NoLimit == [p5 |-> 0, p21 |-> 0, p22 |-> 0, p23 |-> 0, p24 |-> 0, p25 |-> 0, p26 |-> 0,
            mask |-> <<0, 0, 0, 0>>, group |-> 0, ram |-> {},
            wrap |-> 0, lower |-> 0, upper |-> 0]
PlusReset(l) == [l EXCEPT !.p5 = 0, !.mask = <<0, 0, 0, 0>>]
LimitsReset(l, p21, p23) ==
    [l EXCEPT !.p21 = p21, !.p22 = 8, !.p23 = p23, !.p25 = 16, !.p26 = 32]
SilverLimits(l, p21, p23) ==
    [LimitsReset(l, p21, p23) EXCEPT !.wrap = 32768, !.lower = 16384, !.upper = 32768]
ResetLimits(m, l) ==
    CASE m \in Plus -> PlusReset(l)
      [] m = "x4" -> SilverLimits(l, 0, 41)                \* overridegroup is kept
      [] m = "xn" -> [LimitsReset(l, 0, 105) EXCEPT !.ram = {0, 2, 4, 6}]
      [] OTHER -> [SilverLimits(l, 1, 105) EXCEPT !.group = 1]

(* out (16), v of the TI-73, and of the TI-83 Plus, where port 5 selects   *)
(* the part of the memory the mask is for.                                 *)
X7NoExec(l, v) == [l EXCEPT !.mask[1] = v % 16]
XpNoExec(l, v) ==
    CASE l.p5 \in {0, 1} -> [l EXCEPT !.mask[l.p5 + 1] = v]
      [] l.p5 = 2 -> [l EXCEPT !.mask[3] = v % 16]
      [] l.p5 = 7 -> [l EXCEPT !.mask[4] = (v % 2) + (IF Bit(v, 5) THEN 2 ELSE 0)]
      [] OTHER -> l

XnRamLimit(v) ==                 \* NO_EXEC_RAM, its low byte: the other is the same but for 30h
    CASE (v \div 16) % 4 = 0 -> {0, 2, 4, 6}
      [] (v \div 16) % 4 = 1 -> {0, 3, 4, 7}
      [] (v \div 16) % 4 = 2 -> {0, 3, 4, 5, 6, 7}
      [] OTHER -> {0, 3, 4, 5, 6, 7}

SilverLimit(l, p, v) ==
    CASE p = 33 -> [l EXCEPT !.p21 = v, !.wrap = 32768 * 2^((v \div 16) % 4), !.group = v % 4]
      [] p = 34 -> [l EXCEPT !.p22 = v]
      [] p = 35 -> [l EXCEPT !.p23 = v]
      [] p = 37 -> [l EXCEPT !.p25 = v, !.lower = v * 1024]
      [] p = 38 -> [l EXCEPT !.p26 = v, !.upper = v * 1024]
XcLimit(l, p, v) == IF p = 36 THEN [l EXCEPT !.p24 = v] ELSE SilverLimit(l, p, v)
XnLimit(l, p, v) ==
    CASE p = 33 -> [l EXCEPT !.p21 = v, !.ram = XnRamLimit(v)]
      [] p = 34 -> [l EXCEPT !.p22 = v]
      [] p = 35 -> [l EXCEPT !.p23 = v]
      [] p = 37 -> [l EXCEPT !.p25 = v]
      [] p = 38 -> [l EXCEPT !.p26 = v]

(* The state in which a write to a protected port is obeyed.               *)
X7MayLimit == unlock /\ protect = 7
XpMayLimit == unlock /\ protect = 7
SilverMayLimit == unlock
XnMayLimit == unlock /\ protect = 7
MayLimit(m) ==
    CASE m = "x7" -> X7MayLimit [] m = "xp" -> XpMayLimit [] m = "xn" -> XnMayLimit
      [] OTHER -> SilverMayLimit
LimitPorts(m) ==
    CASE m \in Plus -> {22} [] m = "xc" -> {33, 34, 35, 36, 37, 38}
      [] OTHER -> {33, 34, 35, 37, 38}
NewLimit(m, l, p, v) ==
    CASE m = "x7" -> X7NoExec(l, v) [] m = "xp" -> XpNoExec(l, v)
      [] m = "xn" -> XnLimit(l, p, v) [] m = "xc" -> XcLimit(l, p, v)
      [] OTHER -> SilverLimit(l, p, v)
-----------------------------------------------------------------------------
(* Pages worth telling apart: privileged ones, the certificate, the first  *)
(* of Flash and of RAM, and the limits' neighbours.                        *)
Pages(m) == Privileged(m) \cup {0, 8, hwmodels[m].cert, hwmodels[m].rom, hwmodels[m].rom + 1}

(* Every prefix of the sequence that the bytes read so far end in, by the  *)
(* definition of a match and not by the way the code looks for it: what    *)
(* follows `out (' may be any byte, but must be read from the same pages.  *)
Extend(page, value) ==
    {0} \cup {k + 1 : k \in {j \in matched : /\ page \in Privileged(model)
                                            /\ \/ j < 6 /\ value = ProtectBytes[j + 1]
                                               \/ j = 6}}

(* Reading a byte of the certificate while the chip is locked yields ff    *)
(* and does not get as far as the memory.                                  *)
ReadByte(page, value) ==
    /\ page # hwmodels[model].cert \/ unlock
    /\ protect' = NextProtect(model, page, value)
    /\ matched' = Extend(page, value)
    /\ UNCHANGED <<unlock, limit>>

(* The fetch of an opcode outside of the limits, or of ff at the restart   *)
(* address (no OS), is an exception; the instruction is executed, and      *)
(* after it the calculator is reset.                                       *)
ProtReset ==
    /\ protect' = 0
    /\ unlock' = FALSE
    /\ limit' = ResetLimits(model, limit)
    /\ matched' = {0}

Fetch(page) ==
    /\ Restricted(model, limit, page)
    /\ ProtReset

OutLock(v) ==
    /\ unlock' = IF protect = 7 THEN v ELSE unlock
    /\ UNCHANGED <<protect, limit, matched>>

OutLimit16(p, v) ==
    /\ p \in LimitPorts(model)
    /\ limit' = IF MayLimit(model) THEN NewLimit(model, limit, p, v) ELSE limit
    /\ UNCHANGED <<protect, unlock, matched>>

XpOutSelect(v) ==
    /\ model = "xp"
    /\ limit' = [limit EXCEPT !.p5 = v % 8]
    /\ UNCHANGED <<protect, unlock, matched>>

ProtInit ==
    /\ protect = 0
    /\ unlock = FALSE
    /\ limit = IF model \in Simple THEN NoLimit ELSE ResetLimits(model, NoLimit)
    /\ matched = {0}

ProtNext ==
    \/ \E page \in Pages(model), value \in ByteValues : ReadByte(page, value)
    \/ \E page \in Pages(model) : Fetch(page)
    \/ \E v \in BOOLEAN : OutLock(v)
    \/ \E p \in {22, 33, 34, 35, 36, 37, 38}, v \in LimitBytes : OutLimit16(p, v)
    \/ \E v \in LimitBytes : XpOutSelect(v)
    \/ ProtReset
-----------------------------------------------------------------------------
ProtTypeOK ==
    /\ protect \in 0..7
    /\ unlock \in BOOLEAN
    /\ matched \in SUBSET (0..7)

(* But for a reset, the chip is locked and unlocked only by a write that   *)
(* comes right after the CPU has read the whole sequence from privileged   *)
(* pages, whatever else it read before; and the limits move only while the *)
(* chip is unlocked (port 5 of the TI-83 Plus is not protected).           *)
BySequence ==
    /\ unlock' # unlock /\ ~ProtReset => 7 \in matched
    /\ ([limit' EXCEPT !.p5 = 0] # [limit EXCEPT !.p5 = 0] /\ ~ProtReset) => unlock

(* What the fetches compare with is what the ports say: no write, and no   *)
(* reset, leaves a limit behind that its register does not show.  (The     *)
(* reset of the TI-84 Plus leaves the sector group as it was.)             *)
LimitsFollowPorts ==
    /\ model \in Silver \ {"xn"} =>
         /\ limit.wrap = 32768 * 2^((limit.p21 \div 16) % 4)
         /\ limit.lower = 1024 * limit.p25
         /\ limit.upper = 1024 * limit.p26
         /\ limit.group = limit.p21 % 4 \/ (model = "x4" /\ limit.p21 = 0)
    /\ model = "xn" => limit.ram = XnRamLimit(limit.p21)
=============================================================================
