---------------------------- MODULE HwModels ----------------------------
(***************************************************************************)
(* The calculators of the registry: how much memory each one has, and the *)
(* part of it that is Flash.  A page is 0x4000 bytes; ROM (or Flash) pages *)
(* come first, RAM follows.  `model' is the calculator that is emulated:   *)
(* it is chosen when the emulator is created and never changes.            *)
(***************************************************************************)
EXTENDS Integers, Sequences

VARIABLE model

Bit(v, i) == (v \div 2^i) % 2 = 1        \* v & (1 << i)
Low(v, n) == v % 2^n                     \* the n low bits of v
Set(v, i) == IF Bit(v, i) THEN v ELSE v + 2^i
Even(v) == v - (v % 2)                     \* v & ~1

(* `ghost': RAM pages only half of which exist (TI-81).  `cert': the page  *)
(* of the certificate, which cannot be read while the chip is locked.      *)
Plain(rom, ram) == [rom |-> rom, ram |-> ram, cert |-> -1]
FlashChip(rom, ram) == [rom |-> rom, ram |-> ram, cert |-> rom - 2]

Ti81 == Plain(2, 1)
Ti82 == Plain(8, 2)
Ti83 == Plain(16, 2)
Ti85 == Plain(8, 2)
Ti86 == Plain(16, 8)
Ti73 == FlashChip(32, 2)
Ti83p == FlashChip(32, 2)
Ti83pse == FlashChip(128, 8)
Ti84p == FlashChip(64, 8)
Ti84pse == FlashChip(128, 8)
Ti84pns == FlashChip(128, 8)
Ti84pcse == FlashChip(256, 8)

hwmodels == [x1 |-> Ti81, x2 |-> Ti82, x3 |-> Ti83, x5 |-> Ti85, x6 |-> Ti86,
             x7 |-> Ti73, xp |-> Ti83p, xs |-> Ti83pse, x4 |-> Ti84p,
             xz |-> Ti84pse, xn |-> Ti84pns, xc |-> Ti84pcse]

Models == DOMAIN hwmodels
Simple == {"x1", "x2", "x3", "x5", "x6"}         \* a ROM, no Flash
Plus == {"x7", "xp"}                             \* the first Flash models
Silver == {"xs", "x4", "xz", "xn", "xc"}         \* and those after the SE
=============================================================================
