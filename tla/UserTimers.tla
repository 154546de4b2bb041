----------------------------- MODULE UserTimers -----------------------------
(***************************************************************************)
(* A programmable timer of the TI-83 Plus SE and later (timers.c), and the *)
(* bit of port 3 that keeps it from waking the CPU.  The program may write *)
(* the frequency, the mode and the value in any order, while the timer     *)
(* runs, is late, or has expired.                                          *)
(***************************************************************************)
EXTENDS Integers

CONSTANTS
    Frequencies,     \* bytes written to port 30
    Values           \* bytes written to port 32

VARIABLES
    utimer,          \* calc->usertimers[n]
    left,            \* what its Z80 timer has left; what it is set to next
    uint,            \* its interrupt is pending
    sleeping         \* z80.halted

utVars == <<utimer, left, uint, sleeping>>

STOPPED == [running |-> FALSE, count |-> 0, period |-> 0]
LateBy == 2          \* bound: clocks by which an instruction overruns the timer
-----------------------------------------------------------------------------
(* get_duration(): bit 7 counts clocks, bit 6 a crystal, whose ticks are   *)
(* t / 32768 microseconds.                                                 *)
UBit(v, i) == (v \div 2^i) % 2 = 1
Crystal(k) ==        \* t div 32768 and t mod 32768
    CASE k = 0 -> <<91, 18112>>    [] k = 1 -> <<1007, 2624>>
      [] k = 2 -> <<10009, 25088>> [] k = 3 -> <<100006, 3392>>
      [] k = 4 -> <<30, 16960>>    [] k = 5 -> <<488, 9216>>
      [] k = 6 -> <<7812, 16384>>  [] k = 7 -> <<125000, 0>>

Multiplier(f) ==
    CASE UBit(f, 5) -> 64
      [] ~UBit(f, 5) /\ UBit(f, 4) -> 32
      [] ~UBit(f, 5) /\ ~UBit(f, 4) /\ UBit(f, 3) -> 16
      [] OTHER -> IF UBit(f, 2) THEN 8 ELSE IF UBit(f, 1) THEN 4
                  ELSE IF UBit(f, 0) THEN 2 ELSE 1

Duration(f, n) ==
    IF UBit(f, 7) THEN Multiplier(f) * n
    ELSE IF UBit(f, 6)
         THEN LET t == Crystal(f % 8) IN t[1] * n + (t[2] * n + 16384) \div 32768
         ELSE 0

NormalDuration(t) == Duration(t.frequency, IF t.loopvalue # 0 THEN t.loopvalue ELSE 256)
OverflowDuration(t) == Duration(t.frequency, 256)

(* (t * 256) / period % 256.  The dword of a late timer's -t wraps, and    *)
(* the period of a timer that counts clocks divides 2^32; for the crystal  *)
(* the qword does not, and what comes out has no meaning: any byte.        *)
Scaled(t, p) == LET a == t * 16 IN 16 * (a \div p) + (16 * (a % p)) \div p
Counted(f, t) == Scaled(t, Duration(f, 256)) % 256
ValueOf(ut, l) ==
    IF ~l.running THEN {ut.loopvalue}
    ELSE IF l.count >= 0 \/ UBit(ut.frequency, 7)
         THEN {Counted(ut.frequency, l.count)}
         ELSE Values
-----------------------------------------------------------------------------
SetFrequency(f) ==                               \* port 30
    /\ \E v \in ValueOf(utimer, left) :
          utimer' = [utimer EXCEPT !.loopvalue = v, !.frequency = f]
    /\ left' = STOPPED
    /\ UNCHANGED <<uint, sleeping>>

\* Mutant: a timer that runs keeps the period of the mode before.
MutSetMode(loop, int) ==
    /\ utimer' = [utimer EXCEPT !.loop = loop, !.int = int,
                                !.overflow = FALSE, !.finished = FALSE]
    /\ uint' = FALSE
    /\ UNCHANGED <<left, sleeping>>

SetMode(loop, int) ==                            \* port 31
    /\ utimer' = [utimer EXCEPT !.loop = loop, !.int = int,
                                !.overflow = FALSE, !.finished = FALSE]
    /\ uint' = FALSE
    /\ left' = [left EXCEPT !.period = IF loop \/ utimer.loopvalue = 0
                                       THEN NormalDuration(utimer) ELSE 0]
    /\ UNCHANGED sleeping

Start(v) ==                                      \* port 32
    LET t == [utimer EXCEPT !.loopvalue = v]
        count == NormalDuration(t)
    IN  /\ utimer' = t
        /\ left' = IF count = 0 THEN left
                   ELSE [running |-> TRUE, count |-> count,
                         period |-> IF v = 0 \/ t.finished THEN OverflowDuration(t)
                                    ELSE IF t.loop THEN count ELSE 0]
        /\ UNCHANGED <<uint, sleeping>>

(* check_timers() sets the timer again for the period it has now, and then *)
(* calls tilem_user_timer_expired().                                       *)
Expire ==
    LET again == IF left.period = 0 THEN [left EXCEPT !.running = FALSE, !.count = 0]
                 ELSE [left EXCEPT !.count = left.period + left.count]
    IN  /\ left.running /\ left.count <= 0
        /\ IF utimer.loopvalue = 0
           THEN left' = again /\ UNCHANGED <<utimer, uint>>
           ELSE /\ utimer' = [utimer EXCEPT !.overflow = @ \/ utimer.finished,
                                            !.finished = TRUE]
                /\ uint' = (uint \/ (utimer.int /\ (~utimer.nohalt \/ ~sleeping)))
                /\ left' = IF utimer.loop
                           THEN [again EXCEPT !.period = OverflowDuration(utimer)]
                           ELSE again
        /\ UNCHANGED sleeping

(* Port 3: without the two main timers the user timers do not end a HALT.  *)
Port3NoHalt(off) ==
    /\ utimer' = [utimer EXCEPT !.nohalt = off]
    /\ UNCHANGED <<left, uint, sleeping>>

(* Time passes: up to the last tick, or over the end within an instruction.*)
Pass(c) ==
    /\ left.running /\ left.count > 0
    /\ c \in {1, left.count \div 2, -LateBy}
    /\ c < left.count
    /\ left' = [left EXCEPT !.count = c]
    /\ UNCHANGED <<utimer, uint, sleeping>>

HaltOrWake ==
    /\ sleeping' = ~sleeping
    /\ UNCHANGED <<utimer, left, uint>>

Clear == [loopvalue |-> 0, frequency |-> 0, loop |-> FALSE, int |-> FALSE,
          overflow |-> FALSE, finished |-> FALSE, nohalt |-> FALSE]
UtReset ==
    /\ utimer' = Clear
    /\ left' = STOPPED
    /\ uint' = FALSE
    /\ sleeping' = FALSE

UtInit == utimer = Clear /\ left = STOPPED /\ uint = FALSE /\ sleeping = FALSE

UtNext ==
    \/ \E f \in Frequencies : SetFrequency(f)
    \/ \E loop, int \in BOOLEAN : SetMode(loop, int)
    \/ \E v \in Values : Start(v)
    \/ Expire
    \/ \E off \in BOOLEAN : Port3NoHalt(off)
    \/ \E c \in {-LateBy, 1, left.count \div 2} : Pass(c)
    \/ HaltOrWake
    \/ UtReset
-----------------------------------------------------------------------------
UtTypeOK ==
    /\ utimer.loopvalue \in 0..255
    /\ left.count >= -LateBy /\ left.period >= 0
    /\ left.running => utimer.frequency >= 64

(* Whichever of start, mode, frequency and expiry came last, the next      *)
(* expiry of a running timer is followed by 256 ticks if it loops over     *)
(* zero or will overflow, by as many as the first time if it loops, and by *)
(* nothing otherwise; and its interrupt has a finished flag to show.       *)
PeriodFollowsFlags ==
    /\ left.running =>
         left.period = IF utimer.loopvalue = 0 \/ utimer.finished THEN OverflowDuration(utimer)
                       ELSE IF utimer.loop THEN NormalDuration(utimer) ELSE 0
    /\ utimer.overflow => utimer.finished
    /\ uint => utimer.finished /\ utimer.int

(* The counter that a program reads is, to one tick, what it has written   *)
(* when the timer starts, at each of the frequencies, and counts down by    *)
(* the ticks that pass: 32 bits suffice and no rounding adds up.           *)
CounterAgrees ==
    utimer.frequency >= 64 =>
        \A v \in {1, 2, 127, 128, 200, 254, 255} :
            LET f == utimer.frequency
                d == Duration(f, v)
            IN  /\ Counted(f, d) \in {v - 1, v}
                /\ Counted(f, d \div 2) \in {v \div 2 - 1, v \div 2, v \div 2 + 1}
=============================================================================
