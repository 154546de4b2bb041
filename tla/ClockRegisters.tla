--------------------------- MODULE ClockRegisters ---------------------------
(***************************************************************************)
(* The clock of the TI-84 Plus and later models: ports 40 to 48.  It holds *)
(* no time but a difference to the time of the host, which the program's   *)
(* switching and setting must keep so that what the clock shows goes on.   *)
(***************************************************************************)
EXTENDS HwModels

CONSTANT Word            \* 2^32 in the code: dwords, and seconds of the host

VARIABLES
    rtc,                 \* CLOCK_MODE (bit 0 runs, bit 1 sets), _DIFF, _INPUT
    now                  \* time()

rtcVars == <<rtc, now>>

HasClock == model \in Silver \ {"xs"}
-----------------------------------------------------------------------------
(* out (40), v: switching moves the time of the host into the difference   *)
(* or out of it; the edge of the bit that sets loads the input.            *)
\* Mutant: the difference is kept when the clock is stopped.
MutSwitched(r, v) ==
    CASE v.run /\ ~r.run -> (r.diff - now) % Word
      [] OTHER -> r.diff

Switched(r, v) ==
    CASE v.run /\ ~r.run -> (r.diff - now) % Word
      [] ~v.run /\ r.run -> (r.diff + now) % Word
      [] v.run = r.run -> r.diff
Loaded(r, v) == IF v.run THEN (r.input - now) % Word ELSE r.input

X4Out40(r, v) == [r EXCEPT !.run = v.run, !.set = v.set,
                           !.diff = IF ~r.set /\ v.set THEN Loaded(r, v) ELSE Switched(r, v)]
XzOut40(r, v) == X4Out40(r, v)
XnOut40(r, v) == X4Out40(r, v)
XcOut40(r, v) == X4Out40(r, v)

Out40(v) ==
    /\ HasClock
    /\ rtc' = CASE model = "x4" -> X4Out40(rtc, v) [] model = "xz" -> XzOut40(rtc, v)
                [] model = "xn" -> XnOut40(rtc, v) [] model = "xc" -> XcOut40(rtc, v)
    /\ UNCHANGED now

(* out (41), v to out (44), v: one byte of the input.                      *)
OutInput(v) ==
    /\ HasClock
    /\ rtc' = [rtc EXCEPT !.input = v]
    /\ UNCHANGED now

(* in a, (45) to in a, (48): the bytes of this.                            *)
X4Shown(r, t) == ((IF r.run THEN t ELSE 0) + r.diff) % Word
XzShown(r, t) == X4Shown(r, t)
XnShown(r, t) == X4Shown(r, t)
XcShown(r, t) == X4Shown(r, t)
Shown ==
    CASE model = "x4" -> X4Shown(rtc, now) [] model = "xz" -> XzShown(rtc, now)
      [] model = "xn" -> XnShown(rtc, now) [] model = "xc" -> XcShown(rtc, now)
      [] OTHER -> 0

HostSecond ==                            \* whatever the calculator does
    /\ HasClock
    /\ now' = (now + 1) % Word
    /\ UNCHANGED rtc

RtcInit ==                               \* no reset touches these registers
    /\ rtc = [run |-> FALSE, set |-> FALSE, diff |-> 0, input |-> 0]
    /\ now \in 0 .. Word - 1

RtcNext ==
    \/ \E run, set \in BOOLEAN : Out40([run |-> run, set |-> set])
    \/ \E v \in 0 .. Word - 1 : OutInput(v)
    \/ HostSecond
-----------------------------------------------------------------------------
(* What the program sees: a second later when the clock runs, the same when*)
(* it does not, the input when it is set, and nothing else, whether it is  *)
(* switched, set, or both at once; across the wrap of the difference too.  *)
GoesOn ==
    Shown' = IF rtc'.set /\ ~rtc.set THEN rtc.input
             ELSE IF now' # now /\ rtc.run THEN (Shown + 1) % Word
             ELSE Shown
ClockGoesOn == [][GoesOn]_rtcVars
=============================================================================
