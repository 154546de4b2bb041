----------------------------- MODULE LcdDriver -----------------------------
(***************************************************************************)
(* The T6A04 driver of the LCD (lcd.c): its position counters, which wrap  *)
(* lazily and in both directions, words of 8 and of 6 bits, and the delay  *)
(* that a program has to leave between two commands.  What the display     *)
(* memory holds is abstract; which of its bits a command touches is not.   *)
(***************************************************************************)
EXTENDS Integers

CONSTANTS
    Rows,            \* rows of the memory (64 in the code)
    Strides,         \* bytes per row: 12, and 15 on the second TI-81
    Commands         \* bytes written to the control port

VARIABLES
    lcd,             \* calc->lcd
    delay            \* clocks left of TILEM_TIMER_LCD_DELAY

lcdVars == <<lcd, delay>>

NoDelay == -1000     \* the timer is not set
Overrun == 3         \* bound: clocks by which an instruction overruns it
-----------------------------------------------------------------------------
(* The delay.  The timer runs on until the instruction is over, so the     *)
(* driver counts as ready some clocks before the flag is cleared.          *)
Busy == lcd.busy /\ delay > 0

Delayed(l) == [l EXCEPT !.busy = IF lcd.required # "none" THEN TRUE ELSE @]
SetDelay == delay' = IF lcd.required = "none" THEN delay
                     ELSE IF lcd.required = "long" THEN 70 ELSE 50

Tick(d) ==
    /\ delay # NoDelay
    /\ delay > 0 /\ d \in {0, -Overrun, 1} /\ d < delay
    /\ delay' = d
    /\ UNCHANGED lcd

DelayTimer ==
    /\ delay # NoDelay /\ delay <= 0
    /\ delay' = NoDelay
    /\ lcd' = [lcd EXCEPT !.busy = FALSE]
-----------------------------------------------------------------------------
(* tilem_lcd_t6a04_control(): one command byte.  Power, contrast and the    *)
(* row that the display starts with concern only the picture.              *)
Command(l, v) ==
    CASE v <= 1 -> [l EXCEPT !.mode = v]
      [] v \in 4..7 -> [l EXCEPT !.inc = v]
      [] v \in 32..63 -> [l EXCEPT !.x = v - 32]
      [] v \in 128..191 -> [l EXCEPT !.y = v - 128]
      [] OTHER -> l

Control(v) ==
    /\ ~Busy
    /\ lcd' = Delayed(Command(lcd, v))
    /\ SetDelay

(* Where a data command works: the counters are brought back into range    *)
(* when they are used, and counted after that.                             *)
XLimit == IF lcd.mode = 1 THEN lcd.stride ELSE (lcd.stride * 8 + 5) \div 6
X == IF lcd.x >= XLimit THEN 0 ELSE IF lcd.x < 0 THEN XLimit - 1 ELSE lcd.x
Y == IF lcd.y >= Rows THEN 0 ELSE IF lcd.y < 0 THEN Rows - 1 ELSE lcd.y

Counted == [lcd EXCEPT !.x = X + (CASE lcd.inc = 6 -> -1 [] lcd.inc = 7 -> 1 [] OTHER -> 0),
                       !.y = Y + (CASE lcd.inc = 4 -> -1 [] lcd.inc = 5 -> 1 [] OTHER -> 0)]

(* A position in the memory is a bit number; byte b holds bits 8b..8b+7,   *)
(* the leftmost first.  A word of 6 bits that starts at bit `shift' of its *)
(* byte goes into the next one as well, but never beyond the row.          *)
Base == 8 * Y * lcd.stride
Column == 6 * X
Shift == Column % 8
FirstByte == Column \div 8
WriteBits ==
    IF lcd.mode = 1 THEN Base + 8 * X .. Base + 8 * X + 7
    ELSE LET byte == Base + 8 * FirstByte
             head == {byte + i : i \in {i \in 0..7 : i >= Shift /\ i < Shift + 6}}
             spills == Shift > 2 /\ FirstByte < lcd.stride - 1
         IN  head \cup (IF spills THEN byte + 8 .. byte + Shift + 5 ELSE {})
(* A read in 6-bit mode fetches the two bytes at FirstByte, wherever they  *)
(* are, and keeps the word and what 10 - Shift leaves of the bits above    *)
(* it, which belong to the word before.                                    *)
FetchedBits ==
    IF lcd.mode = 1 THEN Base + 8 * X .. Base + 8 * X + 7
    ELSE LET byte == Base + 8 * FirstByte IN byte .. byte + 15
ReadBits ==
    IF lcd.mode = 1 THEN FetchedBits
    ELSE LET byte == Base + 8 * FirstByte
         IN  {b \in FetchedBits : byte + Shift - 2 <= b /\ b <= byte + Shift + 5}

Write ==
    /\ ~Busy
    /\ lcd' = Delayed(Counted)
    /\ SetDelay

(* Control, read and write return at once while the driver is busy.  A    *)
(* read returns the output register and fetches the next word into it.   *)
Read ==
    /\ ~Busy
    /\ lcd' = Delayed(Counted)
    /\ SetDelay

(* tilem_lcd_reset() does not stop the timer.                              *)
LcdReset ==
    /\ lcd' = [lcd EXCEPT !.mode = 1, !.x = 0, !.y = 0, !.inc = 7, !.busy = FALSE]
    /\ UNCHANGED delay

SetRequired(r) ==                   \* lcd.emuflags, by the front end
    /\ lcd' = [lcd EXCEPT !.required = r]
    /\ UNCHANGED delay

LcdInit ==
    /\ \E s \in Strides :
         lcd = [mode |-> 1, x |-> 0, y |-> 0,
                inc |-> 7, busy |-> FALSE, required |-> "short", stride |-> s]
    /\ delay = NoDelay

LcdNext ==
    \/ \E v \in Commands : Control(v)
    \/ Write \/ Read
    \/ \E d \in {1, 0, -Overrun} : Tick(d)
    \/ DelayTimer
    \/ LcdReset
    \/ \E r \in {"none", "short", "long"} : SetRequired(r)
-----------------------------------------------------------------------------
LcdTypeOK ==
    /\ lcd.x \in -1 .. 32 /\ lcd.y \in -1 .. Rows
    /\ delay = NoDelay \/ delay \in -Overrun .. 70

(* Whatever the counters, modes and increments were, a data command works  *)
(* on one row of the display memory: a write stays in its word and in the  *)
(* row, and what a read keeps is in lcdmem.  What it fetches is not: with  *)
(* the last 6-bit word of the last row lcd.c:160 also reads the byte after *)
(* lcdmem, which ends the calculator's memory (calcs.c:163-175), and keeps *)
(* nothing of it.  That byte is the only one, and this word the only place.*)
End == 8 * Rows * lcd.stride
LastWord == lcd.mode = 0 /\ X = XLimit - 1 /\ Y = Rows - 1
WorksInOneRow ==
    /\ WriteBits \subseteq Base .. Base + 8 * lcd.stride - 1
    /\ lcd.mode = 0 => WriteBits = {b \in Base + Column .. Base + Column + 5 :
                                      b < Base + 8 * lcd.stride}
    /\ ReadBits \subseteq 0 .. End - 1
    /\ FetchedBits \subseteq 0 .. IF LastWord THEN End + 7 ELSE End - 1
    /\ LastWord => End .. End + 7 \subseteq FetchedBits \ ReadBits

(* The driver is busy only while a timer is set that will end it, across   *)
(* resets and changes of the required delay.                               *)
LcdBusyIsTimed == lcd.busy => delay # NoDelay
=============================================================================
