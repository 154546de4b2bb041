------------------------------ MODULE XcFrame ------------------------------
(***************************************************************************)
(* xc_get_frame(): which column of the display memory each column of the   *)
(* screen of the TI-84 Plus C SE shows, from the registers of the base     *)
(* image, of its scrolling and of the two partial images.  All rows of a   *)
(* frame are alike.  The interlaced mode, a fixed exchange of columns, and *)
(* what is done to the colours are left out.                               *)
(***************************************************************************)
EXTENDS Integers, Sequences, SequencesExt

CONSTANTS
    Columns,             \* WIDTH: 320 in the code
    Unit,                \* columns per unit of NL and SCN: 8 in the code
    FrameSettings        \* register -> the values that the program gives it

VARIABLE frame           \* the registers; r.p0 and r.p1 are the partial images

frameVars == <<frame>>

Float == "float"         \* outside of the base image: what it showed fades to white
Blank == "blank"         \* inside, and not displayed
Before == "before"       \* what the buffer held before this row was filled
-----------------------------------------------------------------------------
AtMost(v, limit) == IF v > limit THEN limit ELSE v
Wrapped(v) == IF v > Columns THEN v - Columns ELSE v

colstart(r) == AtMost(r.scn * Unit, Columns)
colcount(r) == AtMost(r.nl * Unit + Unit, Columns - colstart(r))

(* A partial image: where it starts in the memory and on the screen, and   *)
(* how many columns of it fit.                                             *)
NoImage == [pos |-> 0, start |-> 0, size |-> 0]
Partial(r, p) ==
    LET start == Wrapped(p.start)
        plain == Wrapped(p.end) + 1 - start
        size == IF plain < 0 THEN plain + Columns ELSE plain
        pos == AtMost(Wrapped(p.pos), colcount(r))
    IN  [pos |-> pos, start |-> start,
         size |-> IF pos + size > colcount(r) THEN colcount(r) - pos ELSE size]

(* R6A is scaled by three twice, as a pixel and as an offset in bytes.     *)
Base(r) == [pos |-> 0, start |-> IF r.scroll THEN 3 * r.vl ELSE 0, size |-> colcount(r)]

Image1(r) == IF r.base THEN Base(r) ELSE IF r.p1.show THEN Partial(r, r.p1) ELSE NoImage
Image0(r) == IF ~r.base /\ r.p0.show THEN Partial(r, r.p0) ELSE NoImage

Flipped(r, image) == IF r.flip THEN [image EXCEPT !.pos = Columns - (@ + image.size)] ELSE image
-----------------------------------------------------------------------------
(* fill_image() turns the columns round only where it converts colours.    *)
fill_image(r, from, n) ==
    LET piece == [i \in 1 .. n |-> from + i - 1]
    IN  IF r.flip /\ r.invert THEN Reverse(piece) ELSE piece

\* Mutant: the two pieces of an image that wraps keep their order on a flipped screen.
mut_fill_scrolled_image(r, offset, n) ==
    LET from == IF offset > Columns THEN offset % Columns ELSE offset
        n1 == Columns - from
    IN  IF from + n <= Columns THEN fill_image(r, from, n)
        ELSE fill_image(r, from, n1) \o fill_image(r, 0, n - n1)

fill_scrolled_image(r, offset, n) ==
    LET from == IF offset > Columns THEN offset % Columns ELSE offset
        n1 == Columns - from
    IN  IF from + n <= Columns THEN fill_image(r, from, n)
        ELSE IF r.flip THEN fill_image(r, 0, n - n1) \o fill_image(r, from, n1)
        ELSE fill_image(r, from, n1) \o fill_image(r, 0, n - n1)

(* n columns of a row from column `at' on, and an image put at column `at'.*)
Filled(row, at, n, what) == [i \in DOMAIN row |-> IF i - at \in 1 .. n THEN what ELSE row[i]]
Over(r, row, at, image) ==
    LET columns == fill_scrolled_image(r, image.start, image.size)
        k(i) == i - at - image.pos
    IN  [i \in DOMAIN row |-> IF k(i) \in 1 .. image.size THEN columns[k(i)] ELSE row[i]]

(* fill_row(), in a buffer that holds this row and the next: an image of a *)
(* flipped screen may reach past the row, where nothing stops it.          *)
fill_row(r, old) ==
    LET start == IF r.flip THEN Columns - colstart(r) - colcount(r) ELSE colstart(r)
        n == colcount(r)
        image1 == Flipped(r, Image1(r))
        image0 == Flipped(r, Image0(r))
        floating == Filled(old, 0, start, Float)
        ground == IF image1.size # n /\ image0.size # n THEN Filled(floating, start, n, Blank)
                  ELSE floating
        painted == Over(r, Over(r, ground, start, image1), start, image0)
    IN  Filled(painted, start + n, Columns - start - n, Float)

Old == [i \in 1 .. 2 * Columns |-> Before]
Row(r) == fill_row(r, Old)
-----------------------------------------------------------------------------
(* The reset, and the registers that the program writes in any order.      *)
PartialReset == [show |-> FALSE, pos |-> 0, start |-> 0, end |-> 0]
FrameReset ==
    [scn |-> 0, nl |-> Columns \div Unit - 1, flip |-> FALSE, scroll |-> FALSE,
     invert |-> TRUE, vl |-> 0, base |-> FALSE, p0 |-> PartialReset, p1 |-> PartialReset]

SetFrame(i, v) == frame' = [frame EXCEPT ![i] = v]

FrameInit == frame = FrameReset
FrameNext == \E i \in DOMAIN FrameSettings : \E v \in FrameSettings[i] : SetFrame(i, v)
-----------------------------------------------------------------------------
(* What column c of the screen should show, by the descriptions of the     *)
(* registers: outside of the base image nothing; in it, the base image     *)
(* from the scrolling position `offset' on, around the end of the memory;  *)
(* or else partial image 0, or partial image 1, or nothing; and on a       *)
(* flipped screen the mirror image.                                        *)
Shows(r, c, offset) ==
    LET d == c - colstart(r)
        in(p) == /\ p.show /\ Wrapped(p.pos) <= d
                 /\ \/ Wrapped(p.end) >= Wrapped(p.start)
                       /\ d - Wrapped(p.pos) <= Wrapped(p.end) - Wrapped(p.start)
                    \/ Wrapped(p.end) < Wrapped(p.start)
                       /\ d - Wrapped(p.pos) < Wrapped(p.end) + 1 + Columns - Wrapped(p.start)
                       /\ Wrapped(p.end) + 1 # Wrapped(p.start)
        column(p) == (Wrapped(p.start) + d - Wrapped(p.pos)) % Columns
    IN  CASE d < 0 \/ d >= colcount(r) -> Float
          [] d \in 0 .. colcount(r) - 1 /\ r.base -> (d + offset) % Columns
          [] OTHER -> IF in(r.p0) THEN column(r.p0) ELSE IF in(r.p1) THEN column(r.p1)
                      ELSE Blank
ShowsFlipped(r, c, offset) == Shows(r, IF r.flip THEN Columns - 1 - c ELSE c, offset)

(* The flipped screens that the code mirrors: memcpy() copies an image as  *)
(* it is where no colours are converted (lines 730-731), and the position  *)
(* of a mirrored image is taken from the whole width and then counted from *)
(* the first displayed column (lines 989-990 and 836), so that an image of *)
(* less than all columns comes too far to the right.                       *)
Mirrors(r) == r.invert /\ colcount(r) = Columns

(* Every column of a frame shows what the registers select, and none what  *)
(* it showed before: the pieces that are filled neither overlap wrongly    *)
(* nor leave a gap, wherever the images wrap or are cut off.  Two things   *)
(* are those of the code and not those of the descriptions: the image is   *)
(* scrolled by Base(), three times VL (FrameAsDescribed has VL itself),    *)
(* and a flipped screen has to be one that Mirrors().  No image is written *)
(* past its row, unless the screen is flipped and shows less than a row.   *)
FrameShowsRegisters ==
    /\ (frame.flip => Mirrors(frame)) =>
          \A c \in 0 .. Columns - 1 :
             Row(frame)[c + 1] = ShowsFlipped(frame, c, Base(frame).start)
    /\ (frame.flip => colcount(frame) = Columns) =>
          \A i \in Columns + 1 .. 2 * Columns : Row(frame)[i] = Before

(* "VL = [0-319]: scroll base image in X direction" and "GS = 1: screen    *)
(* flipped in X direction", as the comments on the registers have it.      *)
FrameAsDescribed ==
    \A c \in 0 .. Columns - 1 :
       Row(frame)[c + 1] = ShowsFlipped(frame, c, IF frame.scroll THEN frame.vl ELSE 0)
=============================================================================
