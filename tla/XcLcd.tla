------------------------------- MODULE XcLcd -------------------------------
(***************************************************************************)
(* The ILI9335 controller of the TI-84 Plus C SE (xc_lcd.c), as a program  *)
(* drives it through two ports: registers and pixels are words of two or   *)
(* three bytes, and pixels go where a cursor is that walks a window.       *)
(* Colours, and the registers that concern analogue parts, are abstract.   *)
(***************************************************************************)
EXTENDS Integers, FiniteSets

CONSTANTS
    Width, Height,       \* 320 and 240 in the code
    LastColumn, LastRow, \* what the registers of columns and rows hold: 511 and 255
    Settings             \* register -> the values that the program gives it

VARIABLES
    xreg,                \* LCD_Rxx
    xcur,                \* LCD_CUR_X and LCD_CUR_Y
    xio,                 \* LCD_REG_INDEX, LCD_READ_STATE, LCD_WRITE_STATE
    since                \* bytes of the word that is being written

xcVars == <<xreg, xcur, xio, since>>

Data == "R22"                            \* the register of the pixels
Indices == {Data, "R03", "R20", "R21", "R50", "R51", "R52", "R53", "other"}
-----------------------------------------------------------------------------
(* The cursor.  X is the column, in the window R52..R53; Y the row, in the *)
(* window R50..R51.  `mode' is R03.                                        *)
Origin(r, mode) ==
    [x |-> IF mode.colinc THEN r.R52 ELSE r.R53,
     y |-> IF mode.rowinc THEN r.R50 ELSE r.R51]
set_org(r, mode, c) == IF mode.org THEN Origin(r, mode) ELSE c
set_loc(r) == IF r.R03.org THEN Origin(r, r.R03) ELSE [x |-> r.R21, y |-> r.R20]

(* One step of an index in the window first..last, and whether it wrapped. *)
Walk(at, inc, first, last) ==
    IF inc THEN IF at < last THEN [at |-> at + 1, wrapped |-> FALSE]
                             ELSE [at |-> first, wrapped |-> TRUE]
    ELSE IF at > first THEN [at |-> at - 1, wrapped |-> FALSE]
                       ELSE [at |-> last, wrapped |-> TRUE]
update_col(r, c) == Walk(c.x, r.R03.colinc, r.R52, r.R53)
update_row(r, c) == Walk(c.y, r.R03.rowinc, r.R50, r.R51)

NextCursor(r, c) ==
    LET col == update_col(r, c)
        row == update_row(r, c)
    IN  IF r.R03.colfirst
        THEN [x |-> col.at, y |-> IF col.wrapped THEN row.at ELSE c.y]
        ELSE [x |-> IF row.wrapped THEN col.at ELSE c.x, y |-> row.at]
-----------------------------------------------------------------------------
(* out (10), v: two bytes choose a register, the last one counts.          *)
\* Mutant: choosing a register does not begin a new word.
mut_xc_lcd_control(i) ==
    /\ xio' = [xio EXCEPT !.index = i, !.read = 0]
    /\ since' = 0
    /\ UNCHANGED <<xreg, xcur>>

xc_lcd_control(i) ==
    /\ xio' = [index |-> i, read |-> 0, write |-> 0]
    /\ since' = 0
    /\ UNCHANGED <<xreg, xcur>>

write_reg(i, v) ==
    /\ xreg' = [xreg EXCEPT ![i] = v]
    /\ xcur' = CASE i \in {"R20", "R21"} -> set_loc(xreg')
                 [] i \in {"R50", "R51", "R52", "R53"} -> set_org(xreg', xreg'.R03, xcur)
                 [] i = "R03" -> IF v.org THEN set_loc(xreg') ELSE xcur

(* out (11), v: a byte of a register, or of a pixel of 16 or 18 bits.      *)
WriteRegister(i, v) ==
    /\ i = xio.index /\ i # Data
    /\ xio' = [xio EXCEPT !.read = 0, !.write = IF @ = 0 THEN 1 ELSE 0]
    /\ since' = (since + 1) % 2
    /\ IF xio.write # 0 /\ i # "other" THEN write_reg(i, v)
       ELSE UNCHANGED <<xreg, xcur>>

(* In 18-bit mode the third byte completes a pixel, otherwise the second.  *)
PixelState == IF xreg.R03.tri THEN (IF xio.write + 1 >= 3 THEN 0 ELSE xio.write + 1)
              ELSE IF xio.write = 0 THEN 1 ELSE 0
WritePixel ==
    /\ xio.index = Data
    /\ xio' = [xio EXCEPT !.read = 0, !.write = PixelState]
    /\ IF PixelState = 0 THEN xcur' = NextCursor(xreg, xcur) /\ since' = 0
       ELSE since' = since + 1 /\ UNCHANGED xcur
    /\ UNCHANGED xreg

(* in a, (11): the halves of a word in turn; the cursor stays.             *)
xc_lcd_read ==
    /\ xio' = [xio EXCEPT !.read = 1 - @]
    /\ UNCHANGED <<xreg, xcur, since>>

FromReset == [R03 |-> [tri |-> FALSE, org |-> FALSE, colinc |-> TRUE, rowinc |-> TRUE,
                       colfirst |-> FALSE],
              R20 |-> 0, R21 |-> 0, R50 |-> 0, R51 |-> Height - 1,
              R52 |-> 0, R53 |-> Width - 1]
XcReset ==
    /\ xreg' = FromReset
    /\ xcur' = [x |-> 0, y |-> 0]
    /\ xio' = [index |-> "other", read |-> 0, write |-> 0]
    /\ since' = 0

XcInit ==
    /\ xreg = FromReset
    /\ xcur = [x |-> 0, y |-> 0]
    /\ xio = [index |-> "other", read |-> 0, write |-> 0]
    /\ since = 0

XcNext ==
    \/ \E i \in Indices : xc_lcd_control(i)
    \/ \E i \in DOMAIN Settings : \E v \in Settings[i] : WriteRegister(i, v)
    \/ WritePixel
    \/ xc_lcd_read
    \/ XcReset
-----------------------------------------------------------------------------
(* A pixel is made of the bytes that were written for it: whatever was     *)
(* read or written between, the count that the code keeps is that of the   *)
(* bytes since the last register or pixel was complete, and three of them  *)
(* never make a pixel of two, nor two a pixel of three.                    *)
WholePixels ==
    /\ xio.write = since
    /\ xio.write = 2 => xio.index = Data /\ xreg.R03.tri

(* A program that fills a window writes each of its pixels once, and ends  *)
(* where it began, from wherever in the window it begins and in whichever  *)
(* of the directions the cursor walks; from outside of the window, or one  *)
(* that is inside out, the cursor gets to its border and stays there.      *)
InWindow(c) == c.x \in xreg.R52 .. xreg.R53 /\ c.y \in xreg.R50 .. xreg.R51
Window == {c \in [x : xreg.R52 .. xreg.R53, y : xreg.R50 .. xreg.R51] : TRUE}
WindowFilled ==
    LET n == Cardinality(Window)
        steps[k \in 0 .. n] == IF k = 0 THEN xcur ELSE NextCursor(xreg, steps[k - 1])
    IN  /\ InWindow(xcur) => /\ {steps[k] : k \in 1 .. n} = Window
                             /\ steps[n] = xcur
        /\ InWindow(xcur) => InWindow(NextCursor(xreg, xcur))

XcTypeOK ==
    /\ xcur.x \in 0 .. LastColumn /\ xcur.y \in 0 .. LastRow
    /\ xio.read \in 0..1 /\ xio.write \in 0..2
=============================================================================
