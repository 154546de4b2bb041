----------------------------- MODULE Backlight -----------------------------
(***************************************************************************)
(* The backlight of the TI-84 Plus C SE: pulses of bit 5 of port 3A count  *)
(* its level, and a pulse that stays away for a millisecond turns it off.  *)
(***************************************************************************)
EXTENDS Integers

CONSTANT Levels      \* 32 in the code

VARIABLE light       \* BACKLIGHT_ON and _LEVEL, lcd.contrast, bit 5 of PORT3A,
                     \* and whether TIMER_BACKLIGHT_OFF is set

lightVars == <<light>>

Contrast(level) == IF level = Levels - 1 THEN 0 ELSE Levels + 9 - level

Out3A(bit) ==
    light' = CASE bit /\ ~light.bit ->
                    LET level == IF light.on THEN (light.level + 1) % Levels ELSE 0
                    IN  [on |-> TRUE, level |-> level, contrast |-> Contrast(level),
                         bit |-> TRUE, timer |-> FALSE]
               [] ~bit /\ light.bit -> [light EXCEPT !.bit = FALSE, !.timer = TRUE]
               [] bit = light.bit -> light

BacklightTimer ==
    /\ light.timer
    /\ light' = [light EXCEPT !.on = FALSE, !.level = 0, !.contrast = 0, !.timer = FALSE]

(* xc_reset() and tilem_lcd_reset(), which the calculator's reset calls    *)
(* first; the timer of the backlight is not among those they set.          *)
LightReset ==
    light' = [light EXCEPT !.on = FALSE, !.level = 0, !.contrast = Levels, !.bit = FALSE]

LightInit == light = [on |-> FALSE, level |-> 0, contrast |-> Levels, bit |-> FALSE, timer |-> FALSE]

LightNext == \/ \E bit \in BOOLEAN : Out3A(bit)
             \/ BacklightTimer
             \/ LightReset
-----------------------------------------------------------------------------
(* A backlight that is on has its bit held, or the timer that will turn it *)
(* off is set, and never both: no order of pulses, expiries and resets     *)
(* leaves it on for ever, or turns off one whose bit is held; and while it *)
(* is on, the contrast of the picture is that of its level.                *)
LightGoesOut ==
    /\ light.on => light.bit \/ light.timer
    /\ ~(light.bit /\ light.timer)
    /\ light.on => light.contrast = Contrast(light.level)
=============================================================================
