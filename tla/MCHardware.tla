---------------------------- MODULE MCHardware ----------------------------
(***************************************************************************)
(* The parts of the emulated hardware that do not act on each other within *)
(* an instruction, side by side.  A behaviour runs one of them, `part', on *)
(* one of the calculators that have it; the others stand still.            *)
(***************************************************************************)
EXTENDS Interrupts

CONSTANTS PageValues, SelectValues, LimitValues, ByteValues, LimitBytes,
          Frequencies, Values, Rows, Strides, Commands,
          LcdPortValues, MemPortValues, WaitPortValues, Word,
          Width, Height, LastColumn, LastRow, Settings,
          Columns, Unit, FrameSettings, Levels
VARIABLES part, reg, bank, protect, unlock, limit, matched, utimer, left, uint, sleeping,
          lcd, delay, dport, delays, speed, wait, rtc, now, xreg, xcur, xio, since,
          frame, light

Port3Bytes == {{"PWR"}, {"ON", "T1", "PWR"}, {"T1", "LINK"}, {"ON", "T2", "LINK"}}
(* Both sides of each border that a translation looks at.                  *)
Addresses == {k * 16384 + o : k \in 0..3, o \in {0, 63, 64, 8192, 16319, 16320, 16383}}
EntryModes == [tri : BOOLEAN, org : BOOLEAN, colinc : BOOLEAN, rowinc : BOOLEAN,
               colfirst : BOOLEAN]
ScreenSettings ==
    [R03 |-> EntryModes, R20 |-> {1}, R21 |-> {2, 3}, R50 |-> {0}, R51 |-> {0},
     R52 |-> {2}, R53 |-> {1}, other |-> {0}]
(* A partial image; its registers are masked to less than two screens.    *)
Partials == [show : BOOLEAN, pos : 0..(2 * Columns), start : 0..(2 * Columns),
             end : 0..(2 * Columns)]
ImageSettings ==
    [scn |-> {0, 1, 3}, nl |-> {0, 1, 2, 3}, flip |-> BOOLEAN, invert |-> BOOLEAN,
     scroll |-> BOOLEAN, vl |-> {0, 3}, base |-> BOOLEAN,
     p0 |-> [show : BOOLEAN, pos : {0, 2, 5}, start : {0, 6}, end : {1, 3, 6}],
     p1 |-> [show : BOOLEAN, pos : {1}, start : {2}, end : {3}]]

(* The same screens, none of them flipped.                                 *)
UprightSettings == [ImageSettings EXCEPT !.flip = {FALSE}]

(* What the code's types and tables guarantee of the parameters: a word of *)
(* the clock is not empty, and what is written to a port is a byte.        *)
ASSUME WordAssumption == Word \in Nat \ {0}
ASSUME ByteAssumption ==
    /\ PageValues \subseteq 0..255 /\ SelectValues \subseteq 0..255 /\ LimitValues \subseteq 0..255
    /\ WaitPortValues \subseteq 0..255 /\ LimitBytes \subseteq 0..255
    /\ Values \subseteq 0..255 /\ Frequencies \subseteq 0..255

(* The two widths of a row that exist; commands name rows that exist.      *)
ASSUME LcdAssumption ==
    /\ Strides \subseteq {12, 15} /\ Rows \in Nat \ {0}
    /\ \A v \in Commands : v \in 0..255 /\ (v \in 128..191 => v - 128 < Rows)
ASSUME LevelsAssumption == Levels \in Nat \ {0}

(* The masks of the ILI9335's registers, which hold more than the screen   *)
(* has; modes are bits.                                                    *)
ASSUME ScreenAssumption ==
    /\ Width \in Nat \ {0} /\ LastColumn \in Nat /\ Width <= LastColumn + 1
    /\ Height \in Nat \ {0} /\ LastRow \in Nat /\ Height <= LastRow + 1
    /\ LET columns == SUBSET (0..LastColumn)
           rows == SUBSET (0..LastRow)
       IN  Settings \in [R03 : SUBSET EntryModes, R20 : rows, R21 : columns, R50 : rows,
                         R51 : rows, R52 : columns, R53 : columns, other : SUBSET Nat]
ASSUME FrameAssumption ==
    /\ Unit \in Nat \ {0} /\ Columns \in Nat /\ Unit <= Columns
    /\ FrameSettings \in [scn : SUBSET Nat, nl : SUBSET Nat, flip : SUBSET BOOLEAN,
                          invert : SUBSET BOOLEAN, scroll : SUBSET BOOLEAN, vl : SUBSET Nat,
                          base : SUBSET BOOLEAN, p0 : SUBSET Partials, p1 : SUBSET Partials]

Map == INSTANCE MemoryMap
Prot == INSTANCE PortProtection
User == INSTANCE UserTimers
Mono == INSTANCE LcdDriver
Delay == INSTANCE DelayPorts
Clock == INSTANCE ClockRegisters
Colour == INSTANCE XcLcd
Frame == INSTANCE XcFrame
Light == INSTANCE Backlight

-----------------------------------------------------------------------------
ModelsOf ==
    [map |-> Models, protection |-> Models \ Simple, interrupts |-> Models,
     usertimer |-> {"x4"}, mono |-> {"x4"}, delays |-> Silver, clock |-> Silver \ {"xs"},
     colour |-> {"xc"}, frame |-> {"xc"}, light |-> {"xc"}]

Init ==
    /\ part \in DOMAIN ModelsOf
    /\ model \in ModelsOf[part]
    /\ IrqInit /\ Map!MapInit /\ Prot!ProtInit /\ User!UtInit /\ Mono!LcdInit
    /\ Delay!DelayInit /\ Clock!RtcInit /\ Colour!XcInit /\ Frame!FrameInit /\ Light!LightInit
    /\ part = "mono" \/ lcd.stride = 12
    /\ part = "clock" \/ now = 0

Only(p) ==
    /\ part = p
    /\ UNCHANGED <<part, model>>
    /\ p = "interrupts" \/ UNCHANGED irqVars
    /\ p = "map" \/ UNCHANGED <<reg, bank>>
    /\ p = "protection" \/ UNCHANGED <<protect, unlock, limit, matched>>
    /\ p = "usertimer" \/ UNCHANGED <<utimer, left, uint, sleeping>>
    /\ p = "mono" \/ UNCHANGED <<lcd, delay>>
    /\ p = "delays" \/ UNCHANGED <<dport, delays, speed, wait>>
    /\ p = "clock" \/ UNCHANGED <<rtc, now>>
    /\ p = "colour" \/ UNCHANGED <<xreg, xcur, xio, since>>
    /\ p = "frame" \/ UNCHANGED frame
    /\ p = "light" \/ UNCHANGED light

Next ==
    \/ Only("interrupts") /\ IrqNext
    \/ Only("map") /\ Map!MapNext
    \/ Only("protection") /\ Prot!ProtNext
    \/ Only("usertimer") /\ User!UtNext
    \/ Only("mono") /\ Mono!LcdNext
    \/ Only("delays") /\ Delay!DelayNext
    \/ Only("clock") /\ Clock!RtcNext
    \/ Only("colour") /\ Colour!XcNext
    \/ Only("frame") /\ Frame!FrameNext
    \/ Only("light") /\ Light!LightNext

vars == <<part, model, calc, reg, bank, protect, unlock, limit, matched, utimer, left, uint,
          sleeping, lcd, delay, dport, delays, speed, wait, rtc, now, xreg, xcur, xio, since,
          frame, light>>

(* The emulator thread runs, and the first timer of the calculator is set  *)
(* again whenever it has fired.                                            *)
Spec == Init /\ [][Next]_vars /\ WF_vars(Only("interrupts") /\ Timer1Fires)
-----------------------------------------------------------------------------
(* The properties of the parts, each with the types of its variables.      *)
(* Paging: every address names a byte of the memory, the debugger's        *)
(* translations undo each other, the banks are those of the registers; and *)
(* limits and delays that are derived from ports are never older than they. *)
PortsSound ==
    /\ part = "map" =>
         Map!MapTypeOK /\ Map!AddressesExist /\ Map!PtolUndoesLtop /\ Map!BanksFollowRegisters
    /\ part = "protection" => Prot!ProtTypeOK /\ Prot!LimitsFollowPorts
    /\ part = "delays" => Delay!DelaysFollowPorts

(* No masked interrupt stays pending, and EI protects its successor.       *)
InterruptsSound == part = "interrupts" => PendingIsEnabled /\ EiProtectsNext

(* The lock and the limits move by the sequence; the clock goes on.        *)
OnlyTheSequenceUnlocks == [][Prot!BySequence]_<<protect, unlock, limit, matched>>
ClockGoesOn == [][Clock!GoesOn]_<<rtc, now>>

(* A user timer's next period and its flags, and the counter it shows.     *)
UserTimerSound ==
    part = "usertimer" => User!UtTypeOK /\ User!PeriodFollowsFlags /\ User!CounterAgrees

(* Both LCDs as a program drives them.  The T6A04: a write stays in its    *)
(* row, a read keeps what is in lcdmem and fetches at most a byte past it, *)
(* after the last word; a busy driver becomes ready.  The ILI9335: whole   *)
(* pixels, and a backlight that goes out in time.                          *)
LcdsSound ==
    /\ part = "mono" => Mono!LcdTypeOK /\ Mono!WorksInOneRow /\ Mono!LcdBusyIsTimed
    /\ part = "colour" => Colour!WholePixels
    /\ part = "light" => Light!LightGoesOut

(* What the colour LCD shows: a window that is filled gets each of its     *)
(* pixels once, and a frame shows what the registers select.               *)
PicturesSound ==
    /\ part = "colour" => Colour!XcTypeOK /\ Colour!WindowFilled
    /\ part = "frame" => Frame!FrameShowsRegisters

(* A frame scrolls and flips as the comments on the registers say.         *)
FramesAsDescribed == part = "frame" => Frame!FrameAsDescribed
=============================================================================
