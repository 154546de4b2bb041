------------------------------ MODULE TimerQueue ------------------------------
(***************************************************************************)
(* What the timers of emu/z80.c promise (tilem.h:225-335): each timer that *)
(* is set has a number of clocks left; time passes only when none is       *)
(* overdue; of the overdue ones of a list the earliest fires first, those  *)
(* of the CPU list before the real-time ones; a periodic timer continues   *)
(* from when it should have fired.  Lists, links and the clock register    *)
(* do not appear.                                                          *)
(***************************************************************************)
EXTENDS Integers

CONSTANTS
    Timer,
    Kilo,       \* clocks of a real-time unit, at speed 1: 1000
    Speeds,     \* clock speeds
    Counts,     \* counts and periods timers are set to
    Overrun,    \* clocks by which an instruction may pass an event
    Horizon     \* more clocks than pass without an event

VARIABLES
    on,         \* the list a timer is in, or "off"
    left,       \* clocks until it fires, 0 when off
    period,     \* its period, 0 when off
    speed,
    fired       \* the timer whose callback runs, or {}

queue == <<on, left, period, speed>>
vars == <<queue, fired>>

Clocks(list, c) == IF list = "rt" THEN (speed * c + Kilo \div 2) \div Kilo ELSE c

Init ==
    /\ on = [t \in Timer |-> "off"]
    /\ left = [t \in Timer |-> 0] /\ period = [t \in Timer |-> 0]
    /\ speed \in Speeds
    /\ fired = {}

Put(t, list, n, p) ==
    /\ on' = [on EXCEPT ![t] = list]
    /\ left' = [left EXCEPT ![t] = n]
    /\ period' = [period EXCEPT ![t] = p]
    /\ UNCHANGED speed

\* A timer is set, from now, whether it was pending or not.
Start ==
    \E t \in Timer, list \in {"cpu", "rt"}, c \in Counts, p \in Counts \cup {0} :
        Put(t, list, Clocks(list, c), p)

\* A timer is set with a count of 0, or removed.
Stop == \E t \in Timer : Put(t, "off", 0, 0)

NewPeriod ==
    \E t \in Timer, p \in Counts \cup {0} : on[t] # "off" /\ Put(t, on[t], left[t], p)

\* The program executes, or sleeps up to the first event.
Elapse ==
    /\ fired = {}
    /\ \A t \in Timer : left[t] >= 0
    /\ \E n \in 0..Horizon :
          /\ n <= Overrun \/ \A t \in Timer : on[t] # "off" => n <= left[t]
          /\ left' = [t \in Timer |-> IF on[t] = "off" THEN 0 ELSE left[t] - n]
    /\ UNCHANGED <<on, period, speed, fired>>

Due(list) == {t \in Timer : on[t] = list /\ left[t] <= 0}

\* A timer fires: it is off, or set again, when its callback is called.
Fire ==
    /\ fired = {}
    /\ \E list \in {"cpu", "rt"} : \E t \in Due(list) :
        /\ fired' = {t}
        /\ list = "rt" => Due("cpu") = {}
        /\ \A u \in Due(list) : left[t] <= left[u]
        /\ IF period[t] = 0
             THEN Put(t, "off", 0, 0)
             ELSE Put(t, list, left[t] + Clocks(list, period[t]), period[t])

\* The time left of the real-time timers is the same after a change of speed.
SetSpeed ==
    /\ speed' \in Speeds
    /\ left' = [t \in Timer |->
                  IF on[t] = "rt" /\ left[t] > 0
                    THEN (left[t] * speed' + speed \div 2) \div speed ELSE left[t]]
    /\ UNCHANGED <<on, period>>

\* The callback returns; it may have set a timer.
Return == fired # {} /\ fired' = {}

Next ==
    \/ Elapse \/ Fire
    \/ (Start \/ Stop \/ NewPeriod \/ SetSpeed) /\ (Return \/ UNCHANGED fired)
    \/ Return /\ UNCHANGED queue

Spec == Init /\ [][Next]_vars

-----------------------------------------------------------------------------
TypeOK ==
    /\ on \in [Timer -> {"off", "cpu", "rt"}]
    /\ left \in [Timer -> Int] /\ period \in [Timer -> Counts \cup {0}]
    /\ speed \in Speeds
    /\ \A t \in Timer : on[t] = "off" => left[t] = 0
    /\ fired \subseteq Timer

\* No event is passed by more than the last instruction took, whatever sets the timers
\* and changes the speed: so the window of 10000 clocks in which check_timers() recognises
\* an overdue timer is enough.
LateAtMostOverrun == \A t \in Timer : left[t] >= -Overrun
==============================================================================
