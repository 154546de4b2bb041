------------------------------ MODULE Z80Timers ------------------------------
(***************************************************************************)
(* The timers of emu/z80.c and the run loop that fires them: an array of   *)
(* timers linked into a CPU list, a real-time list and a free list, a      *)
(* clock register that wraps, check_timers() and its callbacks, and the    *)
(* halted CPU that skips to the next event.  z is the array with its list  *)
(* heads; the operators below are the functions of the source on it.       *)
(***************************************************************************)
EXTENDS Integers, FiniteSets

CONSTANTS
    Hardware,   \* number of timers of the model and the system, numbered from 1
    Dynamic,    \* bound: timers that exist besides
    Wrap,       \* values of the clock register: 2^32
    Late,       \* clocks for which a timer counts as overdue: 10000
    Kilo,       \* clocks of a real-time unit, at speed 1: 1000
    Speeds,     \* clock speeds
    Cycles,     \* clocks an instruction or an interrupt takes
    Halt,       \* clocks of the HALT instruction: 4
    Usage,      \* what programs and handlers set timers to: [id, count, period, list]
    Slices      \* what tilem_z80_run and tilem_z80_run_time are asked for: [count, list]

Lists == {"cpu", "rt"}

\* Counts and periods of a timer in list l; SetPeriod() does not ask which list.
Times(l) == {u.count : u \in {x \in Usage \cup Slices : x.list = l}}
            \cup {u.period : u \in Usage}

\* An instruction takes less than the window of overdue timers; no timer is set, at any
\* speed and with the rounding of one change of speed, to more than the register holds
\* besides it: the longest, of 32 s at 15 MHz, is 2^29 clocks.  The array grows once.
ASSUME TimerAssumption ==
    /\ Hardware \in Nat \ {0} /\ Dynamic \in 1..(Hardware + 2)
    /\ Wrap \in Nat /\ Late \in 1..(Wrap - 1) /\ Kilo \in Nat \ {0} /\ Halt \in Nat \ {0}
    /\ Speeds \subseteq Nat \ {0} /\ Speeds # {} /\ \A s \in Speeds : s >= Kilo
    /\ Cycles \subseteq Nat \ {0} /\ Cycles # {}
    /\ \A n \in Cycles : n < Late /\ 4 * n <= Wrap + 2
    /\ Usage \subseteq [id : 1..Hardware, count : Nat, period : Nat, list : Lists]
    /\ Slices \subseteq [count : Nat \ {0}, list : Lists]
    /\ \A c \in Times("cpu") : c < Wrap - Late
    /\ \A c \in Times("rt"), s \in Speeds :
          (2 * c + 1) * s + Kilo < 2 * Kilo * (Wrap - Late)
    /\ \A s \in Slices : s.list = "cpu" => 2 * s.count < Wrap

VARIABLES
    z,          \* the array and the list heads
    q,          \* the queue they stand for, a function of z
    pc,         \* where z80_execute() stands
    second,     \* the timers are checked for the second time in this round of the loop
    stopping,   \* z80.stopping
    runner,     \* timer of tilem_z80_run(), 0 when it does not run
    fired,      \* timer whose callback runs, or 0
    owed        \* history: {n}, the clocks tilem_z80_run() was asked for less those
                \* executed, or {} in tilem_z80_run_time()

vars == <<z, q, pc, second, stopping, runner, fired, owed>>

Slots == 2 * (Hardware + 1) + 1     \* after the array has grown once
Id == 0..(Slots - 1)

Minus(a, b) == (a - b) % Wrap

\* A dword read as an int.
AsInt(n) == IF 2 * n >= Wrap THEN n - Wrap ELSE n

-----------------------------------------------------------------------------
(* Functions of z80.c.                                                     *)

\* timer_earlier()
Earlier(y, t, u) == Minus(y.count[t] + Late, y.clock) < Minus(y.count[u] + Late, y.clock)

\* The timers met from t on, then 0.
From(y, t) ==
    LET f[i \in Id] == IF i = 0 THEN t ELSE y.next[f[i - 1]] IN f

\* Mutant: at the end of the list, in the order they are set.
MutBefore(y, l, t) ==
    LET f == From(y, y[l])
    IN  IF y[l] = 0 THEN 0 ELSE f[CHOOSE j \in Id : f[j] # 0 /\ y.next[f[j]] = 0]

\* The timer after which timer_insert() puts t, 0 for the head of the list.
Before(y, l, t) ==
    IF y[l] = 0 \/ Earlier(y, t, y[l]) THEN 0
    ELSE LET f == From(y, y[l])
             Stops(j) == f[j] # 0 /\ (y.next[f[j]] = 0 \/ ~Earlier(y, y.next[f[j]], t))
         IN  f[CHOOSE j \in Id : Stops(j) /\ \A k \in 0..(j - 1) : ~Stops(k)]

\* timer_insert().  Entry 0 of the array is written and never read: its value is not kept.
Insert(y, l, t) ==
    LET p == Before(y, l, t)
        n == IF p = 0 THEN y[l] ELSE y.next[p]
        linked == [y EXCEPT !.prev = [@ EXCEPT ![n] = t, ![t] = p, ![0] = 0],
                            !.next = [@ EXCEPT ![p] = t, ![t] = n, ![0] = 0]]
    IN  IF p = 0 THEN [linked EXCEPT ![l] = t] ELSE linked

\* timer_set(): the count runs from now, less the clocks it is late.
SetTimer(y, t, c, p, l, extra) ==
    IF c = 0
      THEN [y EXCEPT !.prev[t] = 0, !.next[t] = 0]
      ELSE LET clocks == IF l = "rt" THEN (y.speed * c + Kilo \div 2) \div Kilo ELSE c
           IN  Insert([y EXCEPT !.count[t] = (y.clock + clocks - extra) % Wrap,
                                !.period[t] = p], l, t)

\* timer_unset()
Unset(y, t) ==
    LET p == y.prev[t]
        n == y.next[t]
    IN  [y EXCEPT !.cpu = IF @ = t THEN n ELSE @, !.rt = IF @ = t THEN n ELSE @,
                  !.next = [@ EXCEPT ![p] = n, ![t] = 0, ![0] = 0],
                  !.prev = [@ EXCEPT ![n] = p, ![t] = 0, ![0] = 0]]

\* timer_free()
Free(y, t) == [y EXCEPT !.used = @ \ {t}, !.next[t] = y.free, !.prev[t] = 0, !.free = t]

\* timer_alloc(): when no timer is free the array grows from n to 2n + 1 entries, and the
\* last of them is taken.
Alloc(y) ==
    IF y.free # 0
      THEN [t |-> y.free, y |-> [y EXCEPT !.free = y.next[y.free], !.next[y.free] = 0]]
      ELSE [t |-> 2 * y.size,
            y |-> [y EXCEPT !.size = 2 * @ + 1, !.free = 2 * y.size - 1,
                            !.next = [i \in Id |-> IF i = y.size \/ i = 2 * y.size THEN 0
                                                   ELSE IF i > y.size THEN i - 1
                                                   ELSE @[i]]]]

\* tilem_z80_set_speed(): the real-time timers that are not overdue are rescaled.
Rescale(y, s) ==
    LET Running(t) == \E i \in Id : From(y, y.rt)[i] = t
        Rest(t) == (Minus(y.count[t], y.clock) * s + y.speed \div 2) \div y.speed
    IN  [y EXCEPT !.speed = s,
                  !.count = [t \in Id |->
                      IF t # 0 /\ Running(t) /\ Minus(y.clock, y.count[t]) >= Late
                        THEN (y.clock + Rest(t)) % Wrap ELSE y.count[t]]]

-----------------------------------------------------------------------------
(* The queue an array stands for.                                          *)

List(y, head) == LET f == From(y, head) IN {f[i] : i \in Id} \ {0}

\* Clocks until a pending timer fires, negative when it is late.
Left(y, t) == Minus(y.count[t] + Late, y.clock) - Late

QueueOf(y) ==
    LET cpu == List(y, y.cpu)
        rt == List(y, y.rt)
        Only(t, n) == IF t \in cpu \cup rt THEN n ELSE 0
    IN  [on |-> [t \in Id \ {0} |-> IF t \in cpu THEN "cpu" ELSE IF t \in rt THEN "rt"
                                   ELSE "off"],
         left |-> [t \in Id \ {0} |-> Only(t, Left(y, t))],
         period |-> [t \in Id \ {0} |-> Only(t, y.period[t])]]

Becomes(y) == z' = y /\ q' = QueueOf(z')
Same == UNCHANGED <<z, q>>

-----------------------------------------------------------------------------
Init ==
    /\ z = [clock |-> 0, size |-> Hardware + 1, used |-> 1..Hardware, free |-> 0,
            cpu |-> 0, rt |-> 0, speed |-> CHOOSE s \in Speeds : TRUE,
            count |-> [i \in Id |-> 0], period |-> [i \in Id |-> 0],
            next |-> [i \in Id |-> 0], prev |-> [i \in Id |-> 0]]
    /\ q = QueueOf(z)
    /\ pc = "idle" /\ second = FALSE /\ stopping = FALSE
    /\ runner = 0 /\ fired = 0 /\ owed = {}

\* tilem_z80_add_timer()
Add(c, p, l) ==
    LET a == Alloc(z)
    IN  SetTimer([a.y EXCEPT !.used = @ \cup {a.t}], a.t, c, p, l, 0)

Outside == pc = "idle" /\ UNCHANGED <<pc, second, stopping, runner, fired, owed>>

\* A gray LCD or the audio filter is opened or closed.
AddTimer ==
    /\ Outside
    /\ Cardinality(z.used) < Hardware + Dynamic - 1
    /\ \E u \in Usage : Becomes(Add(u.count, u.period, u.list))

RemoveTimer ==
    /\ Outside
    /\ \E t \in z.used : t > Hardware /\ Becomes(Free(Unset(z, t), t))

\* tilem_z80_run() or tilem_z80_run_time() begins.
Run ==
    /\ pc = "idle" /\ pc' = "step"
    /\ \E s \in Slices :
          /\ Becomes(Add(s.count, 0, s.list))
          /\ owed' = IF s.list = "cpu" THEN {s.count} ELSE {}
    /\ runner' = Alloc(z).t
    /\ stopping' = FALSE
    /\ UNCHANGED <<second, fired>>

\* An instruction writes a port: tilem_z80_set_timer(), tilem_z80_set_timer_period(),
\* tilem_z80_set_speed().
Set(u) == Becomes(SetTimer(Unset(z, u.id), u.id, u.count, u.period, u.list, 0))

SetPeriod(u) == Becomes([z EXCEPT !.period[u.id] = u.period])

Port == pc = "step" /\ pc' = "exec" /\ UNCHANGED <<second, stopping, runner, fired, owed>>

PortSets == Port /\ \E u \in Usage : Set(u)
PortSetsPeriod == Port /\ \E u \in Usage : SetPeriod(u)
PortSetsSpeed == Port /\ \E s \in Speeds \ {z.speed} : Becomes(Rescale(z, s))

Pass(n) ==
    /\ Becomes([z EXCEPT !.clock = (@ + n) % Wrap])
    /\ owed' = {k - n : k \in owed}

\* The instruction executes, and may stop the run.
Execute ==
    /\ pc \in {"step", "exec"} /\ pc' = "cpu"
    /\ \E n \in Cycles : Pass(n)
    /\ stopping' \in {stopping, TRUE}
    /\ second' = FALSE
    /\ UNCHANGED <<runner, fired>>

Overdue(l) == z[l] # 0 /\ Minus(z.clock, z.count[z[l]]) < Late

\* Mutant: a periodic timer starts again from now.
MutFire(l) ==
    /\ pc = l /\ fired = 0 /\ Overdue(l)
    /\ LET t == z[l]
       IN  /\ Becomes(SetTimer(Unset(z, t), t, z.period[t], z.period[t], l, 0))
           /\ fired' = t
    /\ UNCHANGED <<pc, second, stopping, runner, owed>>

\* check_timers(): an overdue timer is unset, or set again if it is periodic, and then
\* called.
Fire(l) ==
    /\ pc = l /\ fired = 0 /\ Overdue(l)
    /\ LET t == z[l]
       IN  /\ Becomes(SetTimer(Unset(z, t), t, z.period[t], z.period[t], l,
                             Minus(z.clock, z.count[t])))
           /\ fired' = t
    /\ UNCHANGED <<pc, second, stopping, runner, owed>>

\* What the callback of a device does with the timers of the model, its own among them.
Handler == Same \/ (fired <= Hardware /\ \E u \in Usage : Set(u) \/ SetPeriod(u))

\* tmr_stop(), or the handler of a device.
Callback ==
    /\ fired # 0 /\ fired' = 0
    /\ IF fired = runner
         THEN stopping' = TRUE /\ Same
         ELSE UNCHANGED stopping /\ Handler
    /\ UNCHANGED <<pc, second, runner, owed>>

NoneOverdue(l) ==
    /\ pc = l /\ fired = 0 /\ ~Overdue(l)
    /\ pc' = IF l = "cpu" THEN "rt" ELSE IF second THEN "next" ELSE "checked"
    /\ Same
    /\ UNCHANGED <<second, stopping, runner, fired, owed>>

\* An interrupt is accepted.
Interrupt ==
    /\ pc = "checked" /\ pc' = "cpu" /\ second' = TRUE
    /\ \E n \in Cycles : Pass(n)
    /\ UNCHANGED <<stopping, runner, fired>>

\* The instruction was HALT: on to the next event, in multiples of its clocks.
Sleep ==
    /\ pc = "checked" /\ ~stopping /\ pc' = "cpu" /\ second' = TRUE
    /\ LET rest == {Minus(z.count[z[l]], z.clock) : l \in {k \in Lists : z[k] # 0}}
           first == CHOOSE n \in rest : \A m \in rest : n <= m
       IN  Pass(first - (first % Halt))
    /\ UNCHANGED <<stopping, runner, fired>>

Loop ==
    /\ pc \in {"checked", "next"} /\ pc' = IF stopping THEN "done" ELSE "step"
    /\ second' = FALSE
    /\ Same
    /\ UNCHANGED <<stopping, runner, fired, owed>>

\* The run ends: its timer is removed, wherever it is.
Finish ==
    /\ pc = "done" /\ pc' = "idle"
    /\ Becomes(Free(Unset(z, runner), runner))
    /\ runner' = 0 /\ owed' = {}
    /\ UNCHANGED <<second, stopping, fired>>

Next ==
    \/ AddTimer \/ RemoveTimer \/ Run \/ PortSets \/ PortSetsPeriod \/ PortSetsSpeed
    \/ Execute \/ Interrupt \/ Sleep \/ Loop \/ Finish
    \/ Callback \/ \E l \in Lists : Fire(l) \/ NoneOverdue(l)

Spec == Init /\ [][Next]_vars

-----------------------------------------------------------------------------
(* Properties.                                                             *)

\* Types.
TypeOK ==
    /\ z.clock \in 0..(Wrap - 1) /\ z.speed \in Speeds
    /\ z.size \in {Hardware + 1, Slots} /\ z.used \subseteq 1..(z.size - 1)
    /\ {z.cpu, z.rt, z.free, runner, fired} \subseteq Id
    /\ z.count \in [Id -> 0..(Wrap - 1)]
    /\ z.next \in [Id -> Id] /\ z.prev \in [Id -> Id]
    /\ pc \in {"idle", "step", "exec", "cpu", "rt", "checked", "next", "done"}

\* The three lists threaded through the array stay apart, end, and are linked in both
\* directions; the two timer lists are sorted; every timer not in use is free; and
\* tilem_z80_timer_running(), head of a list or has a predecessor, tells what is in one.
ListsSound ==
    /\ List(z, z.cpu) \cap List(z, z.rt) = {}
    /\ List(z, z.cpu) \cup List(z, z.rt) \subseteq z.used
    /\ List(z, z.free) = (1..(z.size - 1)) \ z.used
    /\ \A l \in Lists : \A t \in List(z, z[l]) :
          LET n == z.next[t]
          IN  /\ (t = z[l]) <=> (z.prev[t] = 0)
              /\ n # 0 => z.prev[n] = t /\ Left(z, t) <= Left(z, n)
    /\ \A t \in z.used : (t \in {z.cpu, z.rt} \/ z.prev[t] # 0) <=> q.on[t] # "off"

\* What tilem_z80_run() returns as remaining, also when it was stopped or has overrun its
\* time, is what it was asked for less what was executed; Calc::run goes on with it.
RemainingExact == \A n \in owed : AsInt(Minus(z.count[runner], z.clock)) = n

\* The timers' array: types, its three lists sound, sorted and apart; and what remains of a
\* run is what was asked less what was executed.
TimersSound == TypeOK /\ ListsSound /\ RemainingExact

\* The array and the register implement the queue: time passes only when nothing is
\* overdue, timers fire in order and without drift, and the sleep of a halted processor
\* passes no event.
Queue == INSTANCE TimerQueue WITH
    Timer <- Id \ {0}, Horizon <- Wrap,
    Overrun <- CHOOSE n \in Cycles : \A m \in Cycles : m <= n,
    Counts <- ({u.count : u \in Usage \cup Slices} \cup {u.period : u \in Usage}) \ {0},
    on <- q.on, left <- q.left, period <- q.period, speed <- z.speed,
    fired <- {fired} \ {0}

Implements == Queue!Spec
=============================================================================
