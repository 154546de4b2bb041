---------------------------- MODULE EmuCoreProofs ----------------------------
(***************************************************************************)
(* Proofs about EmuCore.  Three invariants are inductive, the last two     *)
(* together with the first.  SafeInv: types, where the core thread is with *)
(* and without a task, where each task is that has not been called back,   *)
(* and that the queue taken by cancel_tasks() will be called back.         *)
(* OptionsInv: which options the device and the cable under construction   *)
(* were given.  CancelInv: which operation of the GUI goes on, and that    *)
(* from the abort on no task waits, from the settling on none runs.        *)
(***************************************************************************)
EXTENDS EmuCore, SequenceTheorems, FiniteSetTheorems, TLAPS

InEmRun == {"em", "open", "audio", "aopen", "feed", "play", "go", "pace"}
InMain == {"start", "loop", "done"}
InTask == {"task", "work", "byte", "again", "loaded", "playing", "end"}
Callers == {"loop", "again"}

GuiSteps ==
    Kinds \cup {"resume", "thread", "pause", "abort", "drain", "settle", "dialog", "switch",
                "exit", "join", "freed", "key", "audio", "options", "raw", "cooked",
                "nocable", "limit", "break", "off"}

EmuType ==
    [waiting : Int, thread : BOOLEAN, paused : BOOLEAN, exiting : BOOLEAN,
     abort : BOOLEAN, busy : BOOLEAN, queue : Seq(Nat), calc : Nat, asleep : BOOLEAN,
     limit : BOOLEAN, ilp : BOOLEAN, enable : BOOLEAN, error : BOOLEAN, options : Nat,
     stale : BOOLEAN, device : Nat, filter : {"none", "idle", "filling", "full"},
     cable : Cables, want : Cables, changed : BOOLEAN]
CoreType ==
    [at : InEmRun \cup InMain \cup InTask, parked : BOOLEAN, ret : Callers,
     awake : BOOLEAN, ff : BOOLEAN, elapsed : BOOLEAN, opened : Nat, new : Cables,
     task : Nat, op : {"delay", "send", "recv"}, left : Int, open : BOOLEAN,
     failed : BOOLEAN, calc : Nat]
GuiType ==
    [ops : SUBSET Operations, todo : Seq(GuiSteps), wants : BOOLEAN, waits : BOOLEAN,
     old : Seq(Nat), list : Nat, changes : Nat]
TaskType ==
    [kind : Kinds, ran : BOOLEAN, calls : Nat, cancelled : BOOLEAN, shows : BOOLEAN,
     calc : Nat]
IdleType == [task : Nat, cancelled : BOOLEAN]

TypeOK ==
    /\ emu \in EmuType
    /\ core \in CoreType
    /\ gui \in GuiType
    /\ tasks \in Seq(TaskType)
    /\ idle \in Seq(IdleType)

\* The core has a task exactly between run_task() and its end, also while the task
\* lets the calculator run.
WhereInv ==
    /\ core.task # 0 <=> core.at \in InTask \/ (core.at \in InEmRun /\ core.ret = "again")
    /\ emu.busy <=> core.task # 0
    /\ core.calc # 0 => core.at = "playing"
    /\ core.task # 0 => core.task \in DOMAIN tasks

\* The GUI asks for the lock before a step that needs it.
WantsInv == gui.wants => gui.todo # <<>> /\ Head(gui.todo) \notin Unlocked

-----------------------------------------------------------------------------

\* What a step of tilem_em_run() may change of the emulator: not the queue, the task
\* flag, the calculator or the options that the GUI sets.
SameWork(e, f) ==
    /\ f \in EmuType
    /\ f.busy = e.busy /\ f.queue = e.queue /\ f.calc = e.calc
    /\ f.want = e.want /\ f.options = e.options /\ f.waiting = e.waiting

SameTask(c, d) ==
    /\ d \in CoreType
    /\ d.task = c.task /\ d.ret = c.ret /\ d.calc = c.calc

\* The fields of the emulator that tilem_em_run() writes.
LEMMA EmuExcept ==
  ASSUME NEW e \in EmuType
  PROVE  /\ \A c \in Cables : SameWork(e, [e EXCEPT !.cable = c])
         /\ \A b \in BOOLEAN : SameWork(e, [e EXCEPT !.changed = b])
         /\ \A b \in BOOLEAN : SameWork(e, [e EXCEPT !.stale = b])
         /\ \A b \in BOOLEAN : SameWork(e, [e EXCEPT !.error = b])
         /\ \A b \in BOOLEAN : SameWork(e, [e EXCEPT !.ilp = b])
         /\ \A n \in Nat : SameWork(e, [e EXCEPT !.device = n])
         /\ \A f \in {"none", "idle", "filling", "full"} : SameWork(e, [e EXCEPT !.filter = f])
<1> USE DEF SameWork, EmuType
<1>1. \A c \in Cables : SameWork(e, [e EXCEPT !.cable = c])
  OBVIOUS
<1>2. \A b \in BOOLEAN : SameWork(e, [e EXCEPT !.changed = b])
  OBVIOUS
<1>3. \A b \in BOOLEAN : SameWork(e, [e EXCEPT !.stale = b])
  OBVIOUS
<1>4. \A b \in BOOLEAN : SameWork(e, [e EXCEPT !.error = b])
  OBVIOUS
<1>5. \A b \in BOOLEAN : SameWork(e, [e EXCEPT !.ilp = b])
  OBVIOUS
<1>6. \A n \in Nat : SameWork(e, [e EXCEPT !.device = n])
  OBVIOUS
<1>7. \A f \in {"none", "idle", "filling", "full"} : SameWork(e, [e EXCEPT !.filter = f])
  OBVIOUS
<1> QED
  BY <1>1, <1>2, <1>3, <1>4, <1>5, <1>6, <1>7

LEMMA SameWorkTwice ==
  ASSUME NEW e, NEW f, NEW g, SameWork(e, f), SameWork(f, g)
  PROVE  SameWork(e, g)
BY DEF SameWork

LEMMA AudioCloseWork ==
  ASSUME NEW e \in EmuType
  PROVE  SameWork(e, AudioClose(e)) /\ SameWork(e, SetBuffer(e))
<1>1. SameWork(e, SetBuffer(e))
  BY EmuExcept DEF SetBuffer
<1>2. AudioClose(e) \in EmuType
  BY DEF AudioClose, EmuType
<1>3. SameWork(e, AudioClose(e))
  BY <1>2 DEF AudioClose, SameWork, EmuType
<1> QED
  BY <1>1, <1>3

Labels == InEmRun \cup InMain \cup InTask

\* The locals of the core thread that it writes on its way.
LEMMA CoreExcept ==
  ASSUME NEW c \in CoreType
  PROVE  /\ \A w \in Labels : SameTask(c, [c EXCEPT !.at = w]) /\ [c EXCEPT !.at = w].at = w
         /\ \A b \in BOOLEAN : SameTask(c, [c EXCEPT !.parked = b]) /\ [c EXCEPT !.parked = b].at = c.at
         /\ \A b \in BOOLEAN : SameTask(c, [c EXCEPT !.elapsed = b]) /\ [c EXCEPT !.elapsed = b].at = c.at
         /\ \A n \in Nat : SameTask(c, [c EXCEPT !.opened = n]) /\ [c EXCEPT !.opened = n].at = c.at
         /\ \A x \in Cables : SameTask(c, [c EXCEPT !.new = x]) /\ [c EXCEPT !.new = x].at = c.at
<1> USE DEF SameTask, CoreType
<1>1. \A w \in Labels : SameTask(c, [c EXCEPT !.at = w]) /\ [c EXCEPT !.at = w].at = w
  BY DEF Labels
<1>2. \A b \in BOOLEAN : SameTask(c, [c EXCEPT !.parked = b]) /\ [c EXCEPT !.parked = b].at = c.at
  OBVIOUS
<1>3. \A b \in BOOLEAN : SameTask(c, [c EXCEPT !.elapsed = b]) /\ [c EXCEPT !.elapsed = b].at = c.at
  OBVIOUS
<1>4. \A n \in Nat : SameTask(c, [c EXCEPT !.opened = n]) /\ [c EXCEPT !.opened = n].at = c.at
  OBVIOUS
<1>5. \A x \in Cables : SameTask(c, [c EXCEPT !.new = x]) /\ [c EXCEPT !.new = x].at = c.at
  OBVIOUS
<1> QED
  BY <1>1, <1>2, <1>3, <1>4, <1>5

LEMMA SameTaskTwice ==
  ASSUME NEW c, NEW d, NEW f, SameTask(c, d), SameTask(d, f)
  PROVE  SameTask(c, f)
BY DEF SameTask

\* Leaving the lock for a window.
LEMMA UnlockTask ==
  ASSUME NEW e \in EmuType, NEW c \in CoreType, NEW w \in Labels
  PROVE  SameTask(c, Unlock(e, c, w)) /\ Unlock(e, c, w).at = w
<1>1. Yields(e) \in BOOLEAN
  BY DEF Yields
<1>2. Unlock(e, c, w) = [c EXCEPT !.at = w, !.parked = Yields(e)]
  BY DEF Unlock
<1>3. [c EXCEPT !.at = w, !.parked = Yields(e)] \in CoreType
  BY <1>1 DEF CoreType, Labels
<1> QED
  BY <1>2, <1>3 DEF CoreType, SameTask

\* tilem_em_run() goes on, or returns to where it was called.
EmStep ==
    /\ SameWork(emu, emu') /\ SameTask(core, core') /\ UNCHANGED <<gui, tasks, idle>>
    /\ core.at \in InEmRun /\ (core'.at \in InEmRun \/ core'.at = core.ret)

LEMMA EmRunStep == TypeOK /\ EmRun => EmStep
<1> SUFFICES ASSUME TypeOK, EmRun PROVE EmStep
  OBVIOUS
<1>a. /\ emu \in EmuType /\ core \in CoreType
      /\ SameWork(emu, emu) /\ SameTask(core, core)
  BY DEF TypeOK, SameWork, SameTask
<1>b. /\ core.ret \in Callers /\ core.ret \in Labels /\ core.new \in Cables
      /\ core.opened \in Nat /\ emu.want \in Cables /\ emu.options \in Nat
      /\ emu.cable \in Cables /\ "none" \in Cables /\ emu.paused \in BOOLEAN
  BY <1>a DEF CoreType, EmuType, Callers, InTask, InMain, Labels, Cables
<1>c. /\ {"em", "open", "audio", "aopen", "feed", "play", "go", "pace"} = InEmRun
      /\ InEmRun \subseteq Labels
  BY DEF InEmRun, Labels
<1>1. CASE CableKept
  BY <1>1, <1>a, <1>c, CoreExcept DEF CableKept, Core, At, EmStep
<1>2. CASE InitCable
  <2>1. CASE emu.want \in {emu.cable, "none"}
    <3>1. /\ emu' = [[emu EXCEPT !.changed = FALSE] EXCEPT !.cable = emu.want]
          /\ core' = [core EXCEPT !.at = "audio"]
          /\ UNCHANGED <<gui, tasks, idle>> /\ core.at = "em"
      BY <1>2, <2>1 DEF InitCable, Core, At
    <3>2. SameWork(emu, [emu EXCEPT !.changed = FALSE])
      BY <1>a, EmuExcept
    <3>3. SameWork([emu EXCEPT !.changed = FALSE], emu')
      BY <3>1, <3>2, <1>b, EmuExcept DEF SameWork
    <3> QED
      BY <3>1, <3>2, <3>3, <1>a, <1>c, SameWorkTwice, CoreExcept DEF EmStep
  <2>2. CASE emu.want \notin {emu.cable, "none"}
    <3>1. /\ emu' = [[emu EXCEPT !.changed = FALSE] EXCEPT !.cable = "none"]
          /\ core' = [Unlock(emu', core, "open") EXCEPT !.new = emu.want]
          /\ UNCHANGED <<gui, tasks, idle>> /\ core.at = "em"
      BY <1>2, <2>2 DEF InitCable, Core, At
    <3>2. SameWork(emu, [emu EXCEPT !.changed = FALSE])
      BY <1>a, EmuExcept
    <3>3. SameWork([emu EXCEPT !.changed = FALSE], emu')
      BY <3>1, <3>2, <1>b, EmuExcept DEF SameWork
    <3>4. SameWork(emu, emu')
      BY <3>2, <3>3, SameWorkTwice
    <3>5. SameTask(core, Unlock(emu', core, "open")) /\ Unlock(emu', core, "open").at = "open"
      BY <3>4, <1>a, <1>c, UnlockTask DEF SameWork
    <3>6. SameTask(Unlock(emu', core, "open"), core') /\ core'.at = "open"
      BY <3>1, <3>5, <1>b, CoreExcept DEF SameTask
    <3> QED
      BY <3>1, <3>4, <3>5, <3>6, <1>c, SameTaskTwice DEF EmStep
  <2> QED
    BY <2>1, <2>2
<1>3. CASE CableOpened
  <2>1. PICK cable \in Cables :
           /\ emu' = [emu EXCEPT !.cable = cable]
           /\ core' = [[core EXCEPT !.at = "audio"] EXCEPT !.new = "none"]
           /\ UNCHANGED <<gui, tasks, idle>> /\ core.at = "open"
    BY <1>3, <1>b DEF CableOpened, WithCable, Core, At
  <2>2. SameTask(core, [core EXCEPT !.at = "audio"]) /\ [core EXCEPT !.at = "audio"].at = "audio"
    BY <1>a, <1>c, CoreExcept
  <2>3. SameTask([core EXCEPT !.at = "audio"], core') /\ core'.at = "audio"
    BY <2>1, <2>2, <1>b, CoreExcept DEF SameTask
  <2>4. SameTask(core, core')
    BY <2>2, <2>3, SameTaskTwice
  <2>5. SameWork(emu, emu')
    BY <2>1, <1>a, EmuExcept
  <2> QED
    BY <2>1, <2>3, <2>4, <2>5, <1>c DEF EmStep
<1>4. CASE AudioStops
  BY <1>4, <1>a, <1>c, AudioCloseWork, CoreExcept DEF AudioStops, Core, At, EmStep
<1>5. CASE AudioOpens
  <2>1. /\ emu' = [AudioClose(emu) EXCEPT !.stale = FALSE]
        /\ core' = [Unlock(emu', core, "aopen") EXCEPT !.opened = emu'.options]
        /\ UNCHANGED <<gui, tasks, idle>> /\ core.at = "audio"
    BY <1>5 DEF AudioOpens, Core, At
  <2>2. SameWork(emu, AudioClose(emu))
    BY <1>a, AudioCloseWork
  <2>3. SameWork(AudioClose(emu), emu')
    BY <2>1, <2>2, EmuExcept DEF SameWork
  <2>4. SameWork(emu, emu')
    BY <2>2, <2>3, SameWorkTwice
  <2>5. SameTask(core, Unlock(emu', core, "aopen")) /\ Unlock(emu', core, "aopen").at = "aopen"
    BY <2>4, <1>a, <1>c, UnlockTask DEF SameWork
  <2>6. emu'.options \in Nat /\ Unlock(emu', core, "aopen") \in CoreType
    BY <2>4, <2>5, <1>b DEF SameTask, SameWork
  <2>7. SameTask(Unlock(emu', core, "aopen"), core') /\ core'.at = "aopen"
    BY <2>1, <2>5, <2>6, CoreExcept
  <2> QED
    BY <2>1, <2>4, <2>5, <2>7, <1>c, SameTaskTwice DEF EmStep
<1>6. CASE AudioFailed
  <2>1. /\ emu' = [emu EXCEPT !.error = TRUE]
        /\ core' = [[core EXCEPT !.at = "go"] EXCEPT !.opened = 0]
        /\ UNCHANGED <<gui, tasks, idle>> /\ core.at = "aopen"
    BY <1>6 DEF AudioFailed, Core, At
  <2>2. SameTask(core, [core EXCEPT !.at = "go"]) /\ [core EXCEPT !.at = "go"].at = "go"
    BY <1>a, <1>c, CoreExcept
  <2>3. SameTask([core EXCEPT !.at = "go"], core') /\ core'.at = "go"
    BY <2>1, <2>2, CoreExcept DEF SameTask
  <2>4. SameTask(core, core')
    BY <2>2, <2>3, SameTaskTwice
  <2>5. SameWork(emu, emu')
    BY <2>1, <1>a, EmuExcept
  <2> QED
    BY <2>1, <2>3, <2>4, <2>5, <1>c DEF EmStep
<1>7. CASE AudioOpened
  <2>1. /\ emu' = SetBuffer([emu EXCEPT !.device = core.opened])
        /\ core' = [[core EXCEPT !.at = "feed"] EXCEPT !.opened = 0]
        /\ UNCHANGED <<gui, tasks, idle>> /\ core.at = "aopen"
    BY <1>7 DEF AudioOpened, Core, At
  <2>2. SameTask(core, [core EXCEPT !.at = "feed"]) /\ [core EXCEPT !.at = "feed"].at = "feed"
    BY <1>a, <1>c, CoreExcept
  <2>3. SameTask([core EXCEPT !.at = "feed"], core') /\ core'.at = "feed"
    BY <2>1, <2>2, CoreExcept DEF SameTask
  <2>4. SameWork(emu, [emu EXCEPT !.device = core.opened])
    BY <1>a, <1>b, EmuExcept
  <2>5. SameWork([emu EXCEPT !.device = core.opened], emu')
    BY <2>1, <2>4, AudioCloseWork DEF SameWork
  <2> QED
    BY <2>1, <2>2, <2>3, <2>4, <2>5, <1>c, SameTaskTwice, SameWorkTwice DEF EmStep
<1>8. CASE AudioKept
  BY <1>8, <1>a, <1>c, CoreExcept DEF AudioKept, Core, At, EmStep
<1>9. CASE FeedAudio
  BY <1>9, <1>a, <1>c, CoreExcept, UnlockTask DEF FeedAudio, Core, At, EmStep
<1>10. CASE AudioPlayed
  <2>1. /\ emu' \in {SetBuffer(emu), [AudioClose(emu) EXCEPT !.error = TRUE]}
        /\ core' = [core EXCEPT !.at = "go"]
        /\ UNCHANGED <<gui, tasks, idle>> /\ core.at = "play"
    BY <1>10 DEF AudioPlayed, Core, At
  <2>2. SameWork(emu, AudioClose(emu)) /\ SameWork(emu, SetBuffer(emu))
    BY <1>a, AudioCloseWork
  <2>3. SameWork(AudioClose(emu), [AudioClose(emu) EXCEPT !.error = TRUE])
    BY <2>2, EmuExcept DEF SameWork
  <2>4. SameWork(emu, [AudioClose(emu) EXCEPT !.error = TRUE])
    BY <2>2, <2>3, SameWorkTwice
  <2>5. SameWork(emu, emu')
    BY <2>1, <2>2, <2>4, Zenon
  <2> QED
    BY <2>1, <2>5, <1>a, <1>c, CoreExcept DEF EmStep
<1>11. CASE RunStopped
  <2>1. /\ emu' = emu
        /\ core' = [[core EXCEPT !.at = core.ret] EXCEPT !.elapsed = FALSE]
        /\ UNCHANGED <<gui, tasks, idle>> /\ core.at = "go"
    BY <1>11 DEF RunStopped, Core, At, Return
  <2>2. SameTask(core, [core EXCEPT !.at = core.ret]) /\ [core EXCEPT !.at = core.ret].at = core.ret
    BY <1>a, <1>b, CoreExcept
  <2>3. SameTask([core EXCEPT !.at = core.ret], core') /\ core'.at = core.ret
    BY <2>1, <2>2, CoreExcept DEF SameTask
  <2> QED
    BY <2>1, <2>2, <2>3, <1>a, <1>c, SameTaskTwice DEF EmStep
<1>12. CASE RunNaps
  <2> DEFINE c == [core EXCEPT !.at = core.ret]
             d == [c EXCEPT !.parked = TRUE]
  <2>1. /\ emu' = AudioClose(emu)
        /\ core' = [d EXCEPT !.elapsed = ~emu.paused]
        /\ UNCHANGED <<gui, tasks, idle>> /\ core.at = "go"
    BY <1>12 DEF RunNaps, Core, At, Return
  <2>2. SameTask(core, c) /\ c.at = core.ret
    BY <1>a, <1>b, CoreExcept
  <2>3. SameTask(c, d) /\ d.at = core.ret
    BY <2>2, CoreExcept DEF SameTask
  <2>4. (~emu.paused) \in BOOLEAN
    OBVIOUS
  <2>5. SameTask(d, core') /\ core'.at = core.ret
    BY <2>1, <2>3, <2>4, CoreExcept DEF SameTask
  <2>6. SameTask(core, core')
    BY <2>2, <2>3, <2>5, SameTaskTwice
  <2> HIDE DEF c, d
  <2> QED
    BY <2>1, <2>5, <2>6, <1>a, <1>c, AudioCloseWork DEF EmStep
<1>13. CASE RunTime
  <2>0. PICK break \in Breaks, off \in TurnsOff, filter \in Fills :
           LET e == AfterRun(break, off, filter)
           IN  Core(e, IF Paced(e) THEN [Unlock(e, core, "pace") EXCEPT !.elapsed = TRUE]
                       ELSE [Return(core) EXCEPT !.parked = Yields(e), !.elapsed = TRUE])
    BY <1>13 DEF RunTime
  <2> DEFINE e == AfterRun(break, off, filter)
  <2>1. Core(e, IF Paced(e) THEN [Unlock(e, core, "pace") EXCEPT !.elapsed = TRUE]
                ELSE [Return(core) EXCEPT !.parked = Yields(e), !.elapsed = TRUE])
    BY <2>0
  <2>2. SameWork(emu, e)
    <3>1. emu.filter \in {"none", "idle", "filling", "full"} /\ emu.asleep \in BOOLEAN
      BY <1>a DEF EmuType
    <3>2. break \in BOOLEAN
      BY DEF Breaks
    <3>3. off \in BOOLEAN
      BY <3>1 DEF TurnsOff
    <3>4. filter \in {"none", "idle", "filling", "full"}
      BY <3>1 DEF Fills
    <3> QED
      BY <3>2, <3>3, <3>4, <1>a DEF EmuType, SameWork, AfterRun
  <2> HIDE DEF e
  <2>3. core.at = "go"
    BY <1>13 DEF RunTime, At
  <2>4. CASE Paced(e)
    <3>1. core' = [Unlock(e, core, "pace") EXCEPT !.elapsed = TRUE]
      BY <2>1, <2>4 DEF Core
    <3>2. SameTask(core, Unlock(e, core, "pace")) /\ Unlock(e, core, "pace").at = "pace"
      BY <2>2, <1>a, <1>c, UnlockTask DEF SameWork
    <3>3. SameTask(Unlock(e, core, "pace"), core') /\ core'.at = "pace"
      BY <3>1, <3>2, CoreExcept DEF SameTask
    <3> QED
      BY <2>1, <2>2, <2>3, <3>2, <3>3, <1>c, SameTaskTwice DEF EmStep, Core
  <2>5. CASE ~Paced(e)
    <3> DEFINE c == [core EXCEPT !.at = core.ret]
               d == [c EXCEPT !.parked = Yields(e)]
    <3>1. core' = [d EXCEPT !.elapsed = TRUE]
      BY <2>1, <2>5 DEF Core, Return
    <3>2. SameTask(core, c) /\ c.at = core.ret
      BY <1>a, <1>b, CoreExcept
    <3>3. Yields(e) \in BOOLEAN
      BY DEF Yields
    <3>4. SameTask(c, d) /\ d.at = core.ret
      BY <3>2, <3>3, CoreExcept DEF SameTask
    <3>5. SameTask(d, core') /\ core'.at = core.ret
      BY <3>1, <3>4, CoreExcept DEF SameTask
    <3>6. SameTask(core, core')
      BY <3>2, <3>4, <3>5, SameTaskTwice
    <3> HIDE DEF c, d
    <3> QED
      BY <2>1, <2>2, <2>3, <3>5, <3>6, <1>c DEF EmStep, Core
  <2> QED
    BY <2>4, <2>5
<1>14. CASE PaceEnds
  <2>1. PICK cable \in Cables : Core([emu EXCEPT !.cable = cable], [core EXCEPT !.at = core.ret])
    BY <1>14, <1>b DEF PaceEnds, CablesAfter, Return
  <2>2. core.at = "pace"
    BY <1>14 DEF PaceEnds, At
  <2> QED
    BY <2>1, <2>2, <1>a, <1>b, <1>c, EmuExcept, CoreExcept DEF Core, EmStep
<1> QED
  BY <1>1, <1>2, <1>3, <1>4, <1>5, <1>6, <1>7, <1>8, <1>9, <1>10, <1>11, <1>12, <1>13, <1>14
     DEF EmRun, UpdateAudio


\* The locals that a task writes.
Keeps(c, d, calc, at) == d \in CoreType /\ d.task = c.task /\ d.calc = calc /\ d.at = at
LEMMA TaskExcept ==
  ASSUME NEW c \in CoreType
  PROVE  /\ \A w \in InTask, n \in Int, op \in {"send", "recv", "delay"} :
             Keeps(c, [c EXCEPT !.at = w, !.left = n, !.op = op], c.calc, w)
         /\ \A w \in InTask, op \in {"send", "recv", "delay"} :
             Keeps(c, [c EXCEPT !.at = w, !.op = op], c.calc, w)
         /\ \A w \in InTask, b \in BOOLEAN :
             Keeps(c, [c EXCEPT !.at = w, !.failed = b], c.calc, w)
         /\ \A b \in BOOLEAN :
             Keeps(c, [c EXCEPT !.open = b], c.calc, c.at)
         /\ \A b \in BOOLEAN, n \in Int :
             Keeps(c, [c EXCEPT !.open = b, !.left = n], c.calc, c.at)
         /\ \A k \in Nat, n \in Int :
             Keeps(c, [c EXCEPT !.calc = k, !.left = n], k, c.at)
         /\ \A w \in InTask, k \in Nat :
             Keeps(c, [c EXCEPT !.at = w, !.calc = k], k, w)
<1> USE DEF Keeps, CoreType
<1>1. \A w \in InTask, n \in Int, op \in {"send", "recv", "delay"} :
   Keeps(c, [c EXCEPT !.at = w, !.left = n, !.op = op], c.calc, w)
  OBVIOUS
<1>2. \A w \in InTask, op \in {"send", "recv", "delay"} :
   Keeps(c, [c EXCEPT !.at = w, !.op = op], c.calc, w)
  OBVIOUS
<1>3. \A w \in InTask, b \in BOOLEAN :
   Keeps(c, [c EXCEPT !.at = w, !.failed = b], c.calc, w)
  OBVIOUS
<1>4. \A b \in BOOLEAN :
   Keeps(c, [c EXCEPT !.open = b], c.calc, c.at)
  OBVIOUS
<1>5. \A b \in BOOLEAN, n \in Int :
   Keeps(c, [c EXCEPT !.open = b, !.left = n], c.calc, c.at)
  OBVIOUS
<1>6. \A k \in Nat, n \in Int :
   Keeps(c, [c EXCEPT !.calc = k, !.left = n], k, c.at)
  OBVIOUS
<1>7. \A w \in InTask, k \in Nat :
   Keeps(c, [c EXCEPT !.at = w, !.calc = k], k, w)
  OBVIOUS
<1> QED
  BY <1>1, <1>2, <1>3, <1>4, <1>5, <1>6, <1>7

\* A task goes on, lets the calculator run, or is over.
TaskStep ==
    /\ SameWork(emu, emu') /\ UNCHANGED <<gui, tasks, idle>>
    /\ core.at \in InTask
    /\ core' \in CoreType /\ core'.task = core.task
    /\ core'.at \in InTask \/ (core'.at = "em" /\ core'.ret = "again")
    /\ core'.calc # 0 => core'.at = "playing" /\ core'.calc \in {core.calc, emu.calc}

LEMMA TasksStep == TypeOK /\ WhereInv /\ Tasks => TaskStep
<1> SUFFICES ASSUME TypeOK, WhereInv, Tasks PROVE TaskStep
  OBVIOUS
<1>a. /\ emu \in EmuType /\ core \in CoreType
      /\ SameWork(emu, emu) /\ SameTask(core, core)
      /\ core.left - 1 \in Int /\ emu.calc \in Nat
  BY DEF TypeOK, SameWork, SameTask, CoreType, EmuType
<1>b. InTask = {"task", "work", "byte", "again", "loaded", "playing", "end"}
  BY DEF InTask
<1>g. /\ "byte" \in InTask /\ "end" \in InTask /\ "loaded" \in InTask
      /\ "delay" \in {"send", "recv", "delay"} /\ 0 \in Nat /\ 0 \in Int
  BY <1>b
<1>c. core.at # "playing" => core.calc = 0
  BY DEF WhereInv
<1>d. MaxTransfers \in Int
  BY BoundsAssumption
<1>e. \A w \in InTask : w \in Labels
  BY DEF Labels
<1>1. CASE SendFile
  <2>1. /\ emu' = emu /\ UNCHANGED <<gui, tasks, idle>> /\ core.at = "task"
        /\ \/ core' = [Unlock(emu, core, "work") EXCEPT !.left = MaxTransfers]
           \/ core' = [core EXCEPT !.at = "end", !.failed = TRUE]
    BY <1>1 DEF SendFile, BeginLink, Failed, Core, At
  <2>2. Unlock(emu, core, "work") \in CoreType
    BY <1>a, <1>b, <1>e, UnlockTask DEF SameTask
  <2>3. CASE core' = [Unlock(emu, core, "work") EXCEPT !.left = MaxTransfers]
    <3>1. SameTask(core, Unlock(emu, core, "work")) /\ Unlock(emu, core, "work").at = "work"
      BY <1>a, <1>b, <1>e, UnlockTask
    <3>2. Keeps(Unlock(emu, core, "work"), core', core.calc, "work")
      BY <2>2, <2>3, <3>1, <1>d, SMT DEF Keeps, CoreType, SameTask
    <3> QED
      BY <2>1, <3>1, <3>2, <1>a, <1>b, <1>c DEF TaskStep, Keeps, SameTask
  <2>4. CASE core' = [core EXCEPT !.at = "end", !.failed = TRUE]
    <3>1. Keeps(core, core', core.calc, "end")
      BY <2>4, <1>a, <1>g, TaskExcept, Zenon
    <3> QED
      BY <2>1, <3>1, <1>a, <1>b, <1>c DEF TaskStep, Keeps
  <2> QED
    BY <2>1, <2>3, <2>4
<1>2. CASE GetDirlist \/ ReceiveFiles
  <2>1. /\ emu' = emu /\ UNCHANGED <<gui, tasks, idle>> /\ core.at = "task"
        /\ core' = [Unlock(emu, core, "work") EXCEPT !.left = MaxTransfers]
    BY <1>2 DEF GetDirlist, ReceiveFiles, BeginLink, Core, At
  <2>2. Unlock(emu, core, "work") \in CoreType
    BY <1>a, <1>b, <1>e, UnlockTask DEF SameTask
  <2>3. core' \in CoreType
    BY <2>1, <2>2, <1>d DEF CoreType
  <2>4. core'.task = core.task /\ core'.calc = core.calc /\ core'.at = "work"
    BY <2>1, <2>2, <1>a, <1>b, <1>e, UnlockTask DEF CoreType, SameTask
  <2> QED
    BY <2>1, <2>3, <2>4, <1>a, <1>b, <1>c DEF TaskStep
<1>3. CASE Prepare
  <2>1. /\ emu' = emu /\ UNCHANGED <<gui, tasks, idle>> /\ core.at = "work"
        /\ core' = [core EXCEPT !.at = "byte", !.left = core.left - 1, !.op = "delay"]
    BY <1>3 DEF Prepare, Core, At
  <2>2. Keeps(core, core', core.calc, "byte")
    BY <2>1, <1>a, <1>g, TaskExcept, Zenon
  <2> QED
    BY <2>1, <2>2, <1>a, <1>b, <1>c DEF TaskStep, Keeps
<1>4. CASE IlpOpen
  <2>1. /\ emu' = [emu EXCEPT !.ilp = TRUE] /\ UNCHANGED <<gui, tasks, idle>>
        /\ core' = [Unlock(emu', core, "work") EXCEPT !.open = TRUE] /\ core.at = "work"
    BY <1>4 DEF IlpOpen, Core, At
  <2>2. SameWork(emu, emu')
    BY <2>1, <1>a, EmuExcept
  <2>3. SameTask(core, Unlock(emu', core, "work")) /\ Unlock(emu', core, "work").at = "work"
    BY <2>2, <1>a, <1>b, <1>e, UnlockTask DEF SameWork
  <2>4. Keeps(Unlock(emu', core, "work"), core', core.calc, "work")
    BY <2>1, <2>3, <1>g, TaskExcept, Zenon DEF SameTask, Keeps
  <2> QED
    BY <2>1, <2>2, <2>3, <2>4, <1>b, <1>c DEF TaskStep, Keeps, SameTask
<1>5. CASE IlpCall
  <2>1. PICK op \in {"send", "recv", "delay"} :
           Core(emu, [core EXCEPT !.at = "byte", !.left = core.left - 1, !.op = op])
    BY <1>5 DEF IlpCall
  <2>2. core.at = "work"
    BY <1>5 DEF IlpCall, At
  <2>3. Keeps(core, core', core.calc, "byte")
    BY <2>1, <1>a, <1>b, TaskExcept, Zenon DEF Core
  <2> QED
    BY <2>1, <2>2, <2>3, <1>a, <1>b, <1>c DEF TaskStep, Keeps, Core
<1>6. CASE IlpClose
  <2> DEFINE c == Unlock(emu', core, "work")
  <2>1. /\ emu' = [emu EXCEPT !.ilp = FALSE] /\ UNCHANGED <<gui, tasks, idle>>
        /\ core' = [c EXCEPT !.open = FALSE, !.left = 0]
        /\ core.at = "work"
    BY <1>6 DEF IlpClose, Core, At
  <2>2. SameWork(emu, emu')
    BY <2>1, <1>a, EmuExcept
  <2>3. SameTask(core, c) /\ c.at = "work"
    BY <2>2, <1>a, <1>b, <1>e, UnlockTask DEF SameWork
  <2> HIDE DEF c
  <2>4. c \in CoreType
    BY <2>3 DEF SameTask
  <2>5. Keeps(c, core', c.calc, c.at)
    BY <2>1, <2>4, <1>g, TaskExcept, Zenon
  <2> QED
    BY <2>1, <2>2, <2>3, <2>5, <1>b, <1>c DEF TaskStep, Keeps, SameTask
<1>7. CASE LinkEnds
  <2>1. PICK failed \in {core.failed, Kind = "receive"} :
           Core(emu, [core EXCEPT !.at = "end", !.failed = failed \/ core.failed])
    BY <1>7 DEF LinkEnds
  <2>2. core.at = "work"
    BY <1>7 DEF LinkEnds, At
  <2>3. (failed \/ core.failed) \in BOOLEAN
    OBVIOUS
  <2>4. core' \in CoreType
    BY <2>1, <2>3, <1>a DEF CoreType, InTask, Core
  <2>5. core'.task = core.task /\ core'.calc = core.calc /\ core'.at = "end"
    BY <2>1, <1>a DEF CoreType, Core
  <2> QED
    BY <2>1, <2>2, <2>4, <2>5, <1>a, <1>b, <1>c DEF TaskStep, Core
<1>8. CASE ByteWaits
  <2>1. /\ emu' = emu /\ UNCHANGED <<gui, tasks, idle>> /\ core.at \in {"byte", "again"}
        /\ core' = [core EXCEPT !.at = "em", !.awake = core.op # "recv", !.ff = TRUE,
                                !.ret = "again"]
    BY <1>8 DEF ByteWaits, Core, At, Call
  <2>2. (core.op # "recv") \in BOOLEAN
    OBVIOUS
  <2>3. core' \in CoreType
    BY <2>1, <2>2, <1>a DEF CoreType, InEmRun, Callers
  <2>4. core'.task = core.task /\ core'.calc = core.calc /\ core'.at = "em" /\ core'.ret = "again"
    BY <2>1, <1>a DEF CoreType
  <2> QED
    BY <2>1, <2>3, <2>4, <1>a, <1>b, <1>c DEF TaskStep
<1>9. CASE ByteEnds
  <2>1. PICK failed \in Failures(At("again")) : Core(emu, AfterCall(failed))
    BY <1>9 DEF ByteEnds
  <2>2. core.at \in {"byte", "again"}
    BY <1>9 DEF ByteEnds, At
  <2>3. failed \in BOOLEAN
    <3>1. At("again") \in BOOLEAN
      BY DEF At
    <3>2. failed \in {FALSE} \/ failed \in {TRUE} \/ failed \in {FALSE, At("again")}
      BY DEF Failures
    <3> QED
      BY <3>1, <3>2
  <2>4. SameTask(core, Unlock(emu, core, "work")) /\ Unlock(emu, core, "work").at = "work"
    BY <1>a, <1>b, <1>e, UnlockTask
  <2>5. \/ core' = [core EXCEPT !.at = "loaded"]
        \/ core' = [core EXCEPT !.at = "byte", !.op = "delay"]
        \/ core' = [Unlock(emu, core, "work") EXCEPT !.failed = failed]
    BY <2>1 DEF AfterCall, Core
  <2>6. CASE core' = [core EXCEPT !.at = "loaded"]
    <3>1. Keeps(core, core', core.calc, "loaded")
      BY <2>6, <1>a, <1>e, <1>g, CoreExcept DEF Keeps, SameTask
    <3> QED
      BY <2>1, <2>2, <3>1, <1>a, <1>b, <1>c DEF TaskStep, Keeps, Core
  <2>7. CASE core' = [core EXCEPT !.at = "byte", !.op = "delay"]
    <3>1. Keeps(core, core', core.calc, "byte")
      BY <2>7, <1>a, <1>g, TaskExcept, Zenon
    <3> QED
      BY <2>1, <2>2, <3>1, <1>a, <1>b, <1>c DEF TaskStep, Keeps, Core
  <2>8. CASE core' = [Unlock(emu, core, "work") EXCEPT !.failed = failed]
    <3>1. Keeps(Unlock(emu, core, "work"), core', core.calc, "work")
      BY <2>3, <2>4, <2>8, SMT DEF SameTask, Keeps, CoreType
    <3> QED
      BY <2>1, <2>2, <2>4, <3>1, <1>a, <1>b, <1>c DEF TaskStep, Keeps, SameTask, Core
  <2> QED
    BY <2>5, <2>6, <2>7, <2>8
<1>10. CASE DirectTask
  <2>1. /\ emu' = emu /\ UNCHANGED <<gui, tasks, idle>> /\ core.at = "task"
        /\ core' = [core EXCEPT !.at = "byte", !.op = "delay"]
    BY <1>10 DEF DirectTask, Core, At
  <2>2. core' \in CoreType
    BY <2>1, <1>a DEF CoreType, InTask
  <2> QED
    BY <2>1, <2>2, <1>a, <1>b, <1>c DEF TaskStep, CoreType
<1>11. CASE DirectEnds
  <2>1. PICK failed \in BOOLEAN : Core(emu, [core EXCEPT !.at = "end", !.failed = failed])
    BY <1>11 DEF DirectEnds
  <2>2. core.at = "loaded"
    BY <1>11 DEF DirectEnds, At
  <2>3. core' \in CoreType
    BY <2>1, <1>a DEF CoreType, InTask, Core
  <2>4. core'.task = core.task /\ core'.calc = core.calc /\ core'.at = "end"
    BY <2>1, <1>a DEF CoreType, Core
  <2> QED
    BY <2>1, <2>2, <2>3, <2>4, <1>a, <1>b, <1>c DEF TaskStep, Core
<1>12. CASE LoadMacroTask \/ NothingToPlay
  <2>1. /\ emu' = emu /\ UNCHANGED <<gui, tasks, idle>> /\ core.at = "task"
        /\ \/ core' = [core EXCEPT !.at = "end"]
           \/ core' = [core EXCEPT !.at = "end", !.failed = TRUE]
    BY <1>12 DEF LoadMacroTask, NothingToPlay, Failed, Core, At
  <2>2. core' \in CoreType
    BY <2>1, <1>a DEF CoreType, InTask
  <2>3. core'.task = core.task /\ core'.calc = core.calc /\ core'.at = "end"
    BY <2>1, <1>a DEF CoreType
  <2> QED
    BY <2>1, <2>2, <2>3, <1>a, <1>b, <1>c DEF TaskStep
<1>13. CASE MacroKey
  <2>1. /\ emu' = emu /\ UNCHANGED <<gui, tasks, idle>> /\ core.at = "task"
        /\ core' = [Unlock(emu, core, "playing") EXCEPT !.left = MaxTransfers]
    BY <1>13 DEF MacroKey, Core, At
  <2>2. Unlock(emu, core, "playing") \in CoreType
    BY <1>a, <1>b, <1>e, UnlockTask DEF SameTask
  <2>3. core' \in CoreType
    BY <2>1, <2>2, <1>d DEF CoreType
  <2>4. core'.task = core.task /\ core'.calc = core.calc /\ core'.at = "playing"
    BY <2>1, <2>2, <1>a, <1>b, <1>e, UnlockTask DEF CoreType, SameTask
  <2> QED
    BY <2>1, <2>3, <2>4, <1>a, <1>b, <1>c DEF TaskStep
<1>14. CASE MacroRuns
  <2>1. /\ emu' = emu /\ UNCHANGED <<gui, tasks, idle>> /\ core.at = "playing"
        /\ core' = [core EXCEPT !.calc = emu.calc, !.left = core.left - 1]
    BY <1>14 DEF MacroRuns, Core, At
  <2>2. Keeps(core, core', emu.calc, "playing")
    BY <2>1, <1>a, TaskExcept, Zenon
  <2> QED
    BY <2>1, <2>2, <1>a, <1>b DEF TaskStep, Keeps
<1>15. CASE MacroGoesOn
  <2>1. /\ emu' = emu /\ UNCHANGED <<gui, tasks, idle>> /\ core.at = "playing"
        /\ \/ core' = [Unlock(emu, core, "playing") EXCEPT !.calc = 0]
           \/ core' = [core EXCEPT !.at = "end", !.calc = 0]
    BY <1>15 DEF MacroGoesOn, Core, At
  <2>2. SameTask(core, Unlock(emu, core, "playing")) /\ Unlock(emu, core, "playing").at = "playing"
    BY <1>a, <1>b, <1>e, UnlockTask
  <2>3. CASE core' = [Unlock(emu, core, "playing") EXCEPT !.calc = 0]
    <3>1. /\ core' \in CoreType /\ core'.task = core.task
          /\ core'.calc = 0 /\ core'.at = "playing"
      BY <2>2, <2>3, SMT DEF SameTask, Keeps, CoreType
    <3> QED
      BY <2>1, <3>1, <1>a, <1>b DEF TaskStep
  <2>4. CASE core' = [core EXCEPT !.at = "end", !.calc = 0]
    <3>1. Keeps(core, core', 0, "end")
      BY <2>4, <1>a, <1>g, TaskExcept, Zenon
    <3> QED
      BY <2>1, <3>1, <1>a, <1>b DEF TaskStep, Keeps
  <2> QED
    BY <2>1, <2>3, <2>4
<1> QED
  BY <1>1, <1>2, <1>3, <1>4, <1>5, <1>6, <1>7, <1>8, <1>9, <1>10, <1>11, <1>12, <1>13, <1>14,
     <1>15 DEF Tasks


\* What an operation does under the lock, but for the wish to have it.
LockedStep(step, e, f) ==
    /\ f \in EmuType
    /\ f.busy = e.busy /\ f.waiting = e.waiting
    /\ f.queue = CASE step = "abort" -> <<>>
                   [] step \in Kinds -> Append(e.queue, Len(tasks) + 1)
                   [] OTHER -> e.queue
    /\ f.calc = IF step = "switch" THEN e.calc + 1 ELSE e.calc

LEMMA LockedEffect ==
  ASSUME NEW e \in EmuType, NEW step \in GuiSteps \ Unlocked, tasks \in Seq(TaskType)
  PROVE  LockedStep(step, e, Locked(step, e))
<1>a. step \in Kinds \cup {"resume", "pause", "abort", "switch", "exit", "key", "audio",
                           "options", "raw", "cooked", "nocable"}
  BY DEF GuiSteps, Unlocked
<1>b. /\ (~e.enable) \in BOOLEAN /\ e.options + 1 \in Nat /\ e.calc + 1 \in Nat
      /\ Append(e.queue, Len(tasks) + 1) \in Seq(Nat) /\ <<>> \in Seq(Nat)
  BY DEF EmuType
<1>1. CASE step = "pause"
  <2>1. Locked(step, e) = [e EXCEPT !.paused = TRUE]
    BY <1>1 DEF Locked, Kinds
  <2> QED
    BY <1>1, <2>1 DEF Kinds, LockedStep, EmuType
<1>2. CASE step = "resume"
  <2>1. Locked(step, e) = [e EXCEPT !.paused = FALSE]
    BY <1>2 DEF Locked, Kinds
  <2> QED
    BY <1>2, <2>1 DEF Kinds, LockedStep, EmuType
<1>3. CASE step = "key"
  <2>1. Locked(step, e) = [e EXCEPT !.asleep = FALSE]
    BY <1>3 DEF Locked, Kinds
  <2> QED
    BY <1>3, <2>1 DEF Kinds, LockedStep, EmuType
<1>4. CASE step = "audio"
  <2>1. Locked(step, e) = [e EXCEPT !.enable = ~e.enable, !.error = FALSE]
    BY <1>4 DEF Locked, Kinds
  <2> QED
    BY <1>4, <2>1, <1>b DEF Kinds, LockedStep, EmuType
<1>5. CASE step = "options"
  <2>1. Locked(step, e) = [e EXCEPT !.options = e.options + 1, !.stale = TRUE, !.error = FALSE]
    BY <1>5 DEF Locked, Kinds
  <2> QED
    BY <1>5, <2>1, <1>b DEF Kinds, LockedStep, EmuType
<1>6. CASE step \in {"raw", "cooked"}
  <2>1. Locked(step, e) = [e EXCEPT !.want = step, !.changed = TRUE]
    BY <1>6 DEF Locked, Kinds
  <2> QED
    BY <1>6, <2>1 DEF Kinds, Cables, LockedStep, EmuType
<1>7. CASE step = "nocable"
  <2>1. Locked(step, e) = [e EXCEPT !.want = "none", !.changed = TRUE]
    BY <1>7 DEF Locked, Kinds
  <2> QED
    BY <1>7, <2>1 DEF Kinds, Cables, LockedStep, EmuType
<1>8. CASE step = "abort"
  <2>1. Locked(step, e) = [e EXCEPT !.abort = TRUE, !.queue = <<>>]
    BY <1>8 DEF Locked, Kinds
  <2> QED
    BY <1>8, <2>1, <1>b DEF Kinds, LockedStep, EmuType
<1>9. CASE step = "switch"
  <2>1. Locked(step, e) = [e EXCEPT !.calc = e.calc + 1, !.asleep = FALSE, !.filter = "none"]
    BY <1>9 DEF Locked, Kinds, Switched
  <2> QED
    BY <1>9, <2>1, <1>b DEF Kinds, LockedStep, EmuType
<1>10. CASE step = "exit"
  <2>1. Locked(step, e) = [e EXCEPT !.exiting = TRUE]
    BY <1>10 DEF Locked, Kinds
  <2> QED
    BY <1>10, <2>1 DEF Kinds, LockedStep, EmuType
<1>11. CASE step \in Kinds
  <2>1. step \notin {"pause", "resume", "key", "audio", "options", "raw", "cooked", "nocable",
                     "abort", "switch", "exit"}
    BY <1>11 DEF Kinds
  <2>2. Locked(step, e) = [e EXCEPT !.queue = Append(e.queue, Len(tasks) + 1)]
    BY <1>11, <2>1 DEF Locked
  <2> QED
    BY <1>11, <2>1, <2>2, <1>b DEF LockedStep, EmuType
<1> QED
  BY <1>a, <1>1, <1>2, <1>3, <1>4, <1>5, <1>6, <1>7, <1>8, <1>9, <1>10, <1>11

LEMMA StepsType ==
  ASSUME NEW op \in Operations \ {"break", "off"}
  PROVE  Steps(op) \in Seq(GuiSteps)
<1>1. CASE op = "run"
  BY <1>1 DEF Steps, Run, GuiSteps
<1>2. CASE op = "cancel"
  BY <1>2 DEF Steps, CancelTasks, GuiSteps
<1>3. CASE op = "load"
  BY <1>3 DEF Steps, LoadState, CancelTasks, GuiSteps
<1>4. CASE op = "free"
  BY <1>4 DEF Steps, Free, CancelTasks, GuiSteps
<1>5. CASE op \notin {"run", "cancel", "load", "free"}
  <2>1. Steps(op) = <<op>> /\ op \in GuiSteps
    BY <1>5 DEF Steps, Operations, GuiSteps
  <2> QED
    BY <2>1
<1> QED
  BY <1>1, <1>2, <1>3, <1>4, <1>5

-----------------------------------------------------------------------------
\* Lists of tasks.
In(t, s) == \E i \in DOMAIN s : s[i] = t
Distinct(s) == \A i, j \in DOMAIN s : s[i] = s[j] => i = j
TasksOf(q) == [i \in DOMAIN q |-> q[i].task]

LEMMA InEmpty == Distinct(<<>>) /\ \A t : ~In(t, <<>>)
BY DEF In, Distinct

LEMMA InTail ==
  ASSUME NEW s \in Seq(Nat), s # <<>>
  PROVE  /\ \A t : In(t, s) <=> t = Head(s) \/ In(t, Tail(s))
         /\ Distinct(s) => Distinct(Tail(s)) /\ ~In(Head(s), Tail(s))
<1>1. /\ Len(Tail(s)) = Len(s) - 1 /\ Tail(s) \in Seq(Nat)
      /\ \A i \in 1..Len(Tail(s)) : Tail(s)[i] = s[i + 1]
  BY HeadTailProperties
<1>2. DOMAIN s = 1..Len(s) /\ DOMAIN Tail(s) = 1..(Len(s) - 1) /\ Len(s) \in Nat \ {0}
  BY <1>1, LenProperties, EmptySeq
<1>3. Head(s) = s[1] /\ 1 \in DOMAIN s
  BY <1>2
<1>4. ASSUME NEW t PROVE In(t, s) <=> t = Head(s) \/ In(t, Tail(s))
  <2>1. ASSUME In(t, s) PROVE t = Head(s) \/ In(t, Tail(s))
    <3>1. PICK i \in DOMAIN s : s[i] = t
      BY <2>1 DEF In
    <3>2. CASE i = 1
      BY <3>1, <3>2, <1>3
    <3>3. CASE i # 1
      <4>1. i - 1 \in DOMAIN Tail(s) /\ Tail(s)[i - 1] = s[i]
        BY <3>3, <1>1, <1>2
      <4> QED
        BY <4>1, <3>1 DEF In
    <3> QED
      BY <3>2, <3>3
  <2>2. ASSUME t = Head(s) PROVE In(t, s)
    BY <2>2, <1>3 DEF In
  <2>3. ASSUME In(t, Tail(s)) PROVE In(t, s)
    <3>1. PICK i \in DOMAIN Tail(s) : Tail(s)[i] = t
      BY <2>3 DEF In
    <3>2. i + 1 \in DOMAIN s /\ s[i + 1] = t
      BY <3>1, <1>1, <1>2
    <3> QED
      BY <3>2 DEF In
  <2> QED
    BY <2>1, <2>2, <2>3
<1>5. ASSUME Distinct(s) PROVE Distinct(Tail(s)) /\ ~In(Head(s), Tail(s))
  <2>1. Distinct(Tail(s))
    BY <1>1, <1>2, <1>5 DEF Distinct
  <2>2. ~In(Head(s), Tail(s))
    BY <1>1, <1>2, <1>3, <1>5 DEF Distinct, In
  <2> QED
    BY <2>1, <2>2
<1> QED
  BY <1>4, <1>5

LEMMA InConcat ==
  ASSUME NEW r \in Seq(Nat), NEW s \in Seq(Nat)
  PROVE  /\ \A t : In(t, r \o s) <=> In(t, r) \/ In(t, s)
         /\ Distinct(r) /\ Distinct(s) /\ (\A t : ~(In(t, r) /\ In(t, s)))
               => Distinct(r \o s)
<1>1. /\ r \o s \in Seq(Nat) /\ Len(r \o s) = Len(r) + Len(s)
      /\ \A i \in 1..(Len(r) + Len(s)) :
            (r \o s)[i] = IF i <= Len(r) THEN r[i] ELSE s[i - Len(r)]
  BY ConcatProperties
<1>2. /\ DOMAIN (r \o s) = 1..(Len(r) + Len(s)) /\ DOMAIN r = 1..Len(r)
      /\ DOMAIN s = 1..Len(s) /\ Len(r) \in Nat /\ Len(s) \in Nat
  BY <1>1, LenProperties
<1>3. ASSUME NEW t PROVE In(t, r \o s) <=> In(t, r) \/ In(t, s)
  <2>1. ASSUME In(t, r \o s) PROVE In(t, r) \/ In(t, s)
    <3>1. PICK i \in DOMAIN (r \o s) : (r \o s)[i] = t
      BY <2>1 DEF In
    <3>2. CASE i <= Len(r)
      BY <3>1, <3>2, <1>1, <1>2 DEF In
    <3>3. CASE i > Len(r)
      <4>1. i - Len(r) \in DOMAIN s /\ s[i - Len(r)] = t
        BY <3>1, <3>3, <1>1, <1>2
      <4> QED
        BY <4>1 DEF In
    <3> QED
      BY <3>2, <3>3, <1>2
  <2>2. ASSUME In(t, r) PROVE In(t, r \o s)
    BY <2>2, <1>1, <1>2 DEF In
  <2>3. ASSUME In(t, s) PROVE In(t, r \o s)
    <3>1. PICK i \in DOMAIN s : s[i] = t
      BY <2>3 DEF In
    <3>2. i + Len(r) \in DOMAIN (r \o s) /\ (r \o s)[i + Len(r)] = t
      BY <3>1, <1>1, <1>2
    <3> QED
      BY <3>2 DEF In
  <2> QED
    BY <2>1, <2>2, <2>3
<1>4. ASSUME Distinct(r), Distinct(s), \A t : ~(In(t, r) /\ In(t, s)),
             NEW i \in DOMAIN (r \o s), NEW j \in DOMAIN (r \o s), (r \o s)[i] = (r \o s)[j]
      PROVE  i = j
  <2>1. CASE i <= Len(r) /\ j <= Len(r)
    BY <2>1, <1>1, <1>2, <1>4 DEF Distinct
  <2>2. CASE i > Len(r) /\ j > Len(r)
    <3>1. /\ i - Len(r) \in DOMAIN s /\ j - Len(r) \in DOMAIN s
          /\ s[i - Len(r)] = s[j - Len(r)]
      BY <2>2, <1>1, <1>2, <1>4
    <3>2. i - Len(r) = j - Len(r)
      BY <3>1, <1>4 DEF Distinct
    <3> QED
      BY <3>2, <1>2
  <2>3. ASSUME NEW m \in DOMAIN (r \o s), NEW n \in DOMAIN (r \o s), m <= Len(r), n > Len(r)
        PROVE  (r \o s)[m] # (r \o s)[n]
    <3>1. m \in DOMAIN r /\ (r \o s)[m] = r[m]
      BY <2>3, <1>1, <1>2
    <3>2. n - Len(r) \in DOMAIN s /\ (r \o s)[n] = s[n - Len(r)]
      BY <2>3, <1>1, <1>2
    <3> QED
      BY <3>1, <3>2, <1>4 DEF In
  <2> QED
    BY <2>1, <2>2, <2>3, <1>2, <1>4
<1> QED
  BY <1>3, <1>4 DEF Distinct

LEMMA InSingle ==
  ASSUME NEW e
  PROVE  Distinct(<<e>>) /\ \A t : In(t, <<e>>) <=> t = e
BY DEF In, Distinct

LEMMA InAppend ==
  ASSUME NEW s \in Seq(Nat), NEW e \in Nat
  PROVE  /\ \A t : In(t, Append(s, e)) <=> In(t, s) \/ t = e
         /\ Distinct(s) /\ ~In(e, s) => Distinct(Append(s, e))
<1>1. Append(s, e) = s \o <<e>> /\ <<e>> \in Seq(Nat)
  OBVIOUS
<1>2. /\ \A t : In(t, s \o <<e>>) <=> In(t, s) \/ In(t, <<e>>)
      /\ Distinct(s) /\ Distinct(<<e>>) /\ (\A t : ~(In(t, s) /\ In(t, <<e>>)))
            => Distinct(s \o <<e>>)
  BY <1>1, InConcat
<1> QED
  BY <1>1, <1>2, InSingle

-----------------------------------------------------------------------------
\* A task that has not been called back is in exactly one place; it has run in the
\* core or is with the callbacks, where it is marked as cancelled if it has not run.
TasksInv ==
    /\ Distinct(emu.queue) /\ Distinct(gui.old) /\ Distinct(TasksOf(idle))
    /\ \A t : Pending(t) <=> \/ In(t, emu.queue) \/ In(t, gui.old) \/ In(t, TasksOf(idle))
                             \/ t = core.task /\ t # 0
    /\ \A t : /\ ~(In(t, emu.queue) /\ In(t, gui.old))
              /\ ~(In(t, emu.queue) /\ In(t, TasksOf(idle)))
              /\ ~(In(t, gui.old) /\ In(t, TasksOf(idle)))
    /\ core.task # 0 => /\ ~In(core.task, emu.queue) /\ ~In(core.task, gui.old)
                        /\ ~In(core.task, TasksOf(idle)) /\ tasks[core.task].ran
    /\ \A t : In(t, emu.queue) \/ In(t, gui.old) => ~tasks[t].ran
    /\ \A i \in DOMAIN idle : idle[i].cancelled <=> ~tasks[idle[i].task].ran
    /\ \A t \in DOMAIN tasks : /\ tasks[t].calls \in {0, 1}
                               /\ tasks[t].calls = 1 => (tasks[t].cancelled <=> ~tasks[t].ran)

\* The queue that cancel_tasks() took is there until it has been called back.
TodoInv ==
    /\ \A i \in DOMAIN gui.todo :
          gui.todo[i] = "abort" => /\ i = 1 /\ Len(gui.todo) > 1 /\ gui.todo[2] = "drain"
                                   /\ gui.old = <<>>
    /\ gui.old # <<>> => \E i \in DOMAIN gui.todo : gui.todo[i] = "drain"

SafeInv == TypeOK /\ WhereInv /\ WantsInv /\ TasksInv /\ TodoInv

\* A record of a task replaced by another.
LEMMA TaskUpdate ==
  ASSUME tasks \in Seq(TaskType), NEW t \in DOMAIN tasks, NEW r \in TaskType
  PROVE  /\ [tasks EXCEPT ![t] = r] \in Seq(TaskType)
         /\ DOMAIN [tasks EXCEPT ![t] = r] = DOMAIN tasks
         /\ \A u \in DOMAIN tasks : [tasks EXCEPT ![t] = r][u] = IF u = t THEN r ELSE tasks[u]
<1>1. t \in 1..Len(tasks)
  BY LenProperties
<1>2. [tasks EXCEPT ![t] = r] \in Seq(TaskType)
  BY <1>1, ExceptSeq
<1> QED
  BY <1>2

LEMMA TasksOfType ==
  ASSUME NEW q \in Seq(IdleType)
  PROVE  TasksOf(q) \in Seq(Nat) /\ DOMAIN TasksOf(q) = DOMAIN q
<1>1. DOMAIN q = 1..Len(q) /\ Len(q) \in Nat /\ \A i \in 1..Len(q) : q[i] \in IdleType
  BY LenProperties
<1>2. TasksOf(q) = [i \in 1..Len(q) |-> q[i].task]
  BY <1>1 DEF TasksOf
<1>3. \A i \in 1..Len(q) : q[i].task \in Nat
  BY <1>1 DEF IdleType
<1> QED
  BY <1>1, <1>2, <1>3

LEMMA ConcatThree ==
  ASSUME NEW p \in Seq(IdleType), NEW q \in Seq(IdleType), NEW r \in Seq(IdleType)
  PROVE  \A i \in DOMAIN ((p \o q) \o r) :
            \/ \E j \in DOMAIN p : ((p \o q) \o r)[i] = p[j]
            \/ \E j \in DOMAIN q : ((p \o q) \o r)[i] = q[j]
            \/ \E j \in DOMAIN r : ((p \o q) \o r)[i] = r[j]
<1> SUFFICES ASSUME NEW i \in DOMAIN ((p \o q) \o r)
             PROVE  \/ \E j \in DOMAIN p : ((p \o q) \o r)[i] = p[j]
                    \/ \E j \in DOMAIN q : ((p \o q) \o r)[i] = q[j]
                    \/ \E j \in DOMAIN r : ((p \o q) \o r)[i] = r[j]
  OBVIOUS
<1>1. /\ p \o q \in Seq(IdleType) /\ Len(p \o q) = Len(p) + Len(q)
      /\ \A k \in 1..(Len(p) + Len(q)) : (p \o q)[k] = IF k <= Len(p) THEN p[k] ELSE q[k - Len(p)]
  BY ConcatProperties
<1>2. /\ (p \o q) \o r \in Seq(IdleType) /\ Len((p \o q) \o r) = Len(p \o q) + Len(r)
      /\ \A k \in 1..(Len(p \o q) + Len(r)) :
            ((p \o q) \o r)[k] = IF k <= Len(p \o q) THEN (p \o q)[k] ELSE r[k - Len(p \o q)]
  BY <1>1, ConcatProperties
<1>3. /\ DOMAIN p = 1..Len(p) /\ DOMAIN q = 1..Len(q) /\ DOMAIN r = 1..Len(r)
      /\ DOMAIN ((p \o q) \o r) = 1..(Len(p) + Len(q) + Len(r))
      /\ Len(p) \in Nat /\ Len(q) \in Nat /\ Len(r) \in Nat
  BY <1>1, <1>2, LenProperties
<1>4. CASE i <= Len(p)
  BY <1>1, <1>2, <1>3, <1>4
<1>5. CASE i > Len(p) /\ i <= Len(p) + Len(q)
  <2>1. i - Len(p) \in DOMAIN q /\ ((p \o q) \o r)[i] = q[i - Len(p)]
    BY <1>1, <1>2, <1>3, <1>5
  <2> QED
    BY <2>1
<1>6. CASE i > Len(p) + Len(q)
  <2>1. i - (Len(p) + Len(q)) \in DOMAIN r /\ ((p \o q) \o r)[i] = r[i - (Len(p) + Len(q))]
    BY <1>1, <1>2, <1>3, <1>6
  <2> QED
    BY <2>1
<1> QED
  BY <1>3, <1>4, <1>5, <1>6

LEMMA TasksOfConcat ==
  ASSUME NEW p \in Seq(IdleType), NEW q \in Seq(IdleType), NEW r \in Seq(IdleType)
  PROVE  /\ (p \o q) \o r \in Seq(IdleType)
         /\ TasksOf((p \o q) \o r) = (TasksOf(p) \o TasksOf(q)) \o TasksOf(r)
<1>1. ASSUME NEW s \in Seq(IdleType), NEW u \in Seq(IdleType)
      PROVE  s \o u \in Seq(IdleType) /\ TasksOf(s \o u) = TasksOf(s) \o TasksOf(u)
  <2>1. /\ s \o u \in Seq(IdleType) /\ Len(s \o u) = Len(s) + Len(u)
        /\ \A i \in 1..(Len(s) + Len(u)) : (s \o u)[i] = IF i <= Len(s) THEN s[i] ELSE u[i - Len(s)]
    BY ConcatProperties
  <2>2. /\ DOMAIN s = 1..Len(s) /\ DOMAIN u = 1..Len(u) /\ Len(s) \in Nat /\ Len(u) \in Nat
        /\ DOMAIN (s \o u) = 1..(Len(s) + Len(u))
    BY <2>1, LenProperties
  <2>3. /\ TasksOf(s) \in Seq(Nat) /\ TasksOf(u) \in Seq(Nat) /\ TasksOf(s \o u) \in Seq(Nat)
        /\ Len(TasksOf(s)) = Len(s) /\ Len(TasksOf(u)) = Len(u)
        /\ Len(TasksOf(s \o u)) = Len(s) + Len(u)
    <3>1. ASSUME NEW v \in Seq(IdleType) PROVE TasksOf(v) \in Seq(Nat) /\ Len(TasksOf(v)) = Len(v)
      BY TasksOfType, LenProperties
    <3> QED
      BY <2>1, <3>1
  <2>4. /\ TasksOf(s) \o TasksOf(u) \in Seq(Nat)
        /\ Len(TasksOf(s) \o TasksOf(u)) = Len(s) + Len(u)
        /\ \A i \in 1..(Len(s) + Len(u)) : (TasksOf(s) \o TasksOf(u))[i] =
              IF i <= Len(s) THEN TasksOf(s)[i] ELSE TasksOf(u)[i - Len(s)]
    <3> DEFINE a == TasksOf(s)
               b == TasksOf(u)
    <3>1. a \in Seq(Nat) /\ b \in Seq(Nat) /\ Len(a) = Len(s) /\ Len(b) = Len(u)
      BY <2>3
    <3> HIDE DEF a, b
    <3>2. /\ a \o b \in Seq(Nat) /\ Len(a \o b) = Len(a) + Len(b)
          /\ \A i \in 1..(Len(a) + Len(b)) : (a \o b)[i] = IF i <= Len(a) THEN a[i] ELSE b[i - Len(a)]
      BY <3>1, ConcatProperties
    <3> QED
      BY <3>1, <3>2 DEF a, b
  <2>5. \A i \in 1..(Len(s) + Len(u)) : TasksOf(s \o u)[i] = (TasksOf(s) \o TasksOf(u))[i]
    BY <2>1, <2>2, <2>4 DEF TasksOf
  <2>6. TasksOf(s \o u) = TasksOf(s) \o TasksOf(u)
    BY <2>3, <2>4, <2>5, SeqEqual
  <2> QED
    BY <2>1, <2>6
<1>2. p \o q \in Seq(IdleType) /\ TasksOf(p \o q) = TasksOf(p) \o TasksOf(q)
  BY <1>1
<1> QED
  BY <1>1, <1>2

\* Steps that leave the tasks, the queues and the core's task as they are.
LEMMA StillAccounted ==
  ASSUME SafeInv, emu'.queue = emu.queue, gui'.old = gui.old, idle' = idle, tasks' = tasks,
         core'.task = core.task
  PROVE  TasksInv'
BY DEF SafeInv, TasksInv, Pending

LEMMA CoreSteps == SafeInv /\ (EmRun \/ Tasks) => SafeInv'
<1> SUFFICES ASSUME SafeInv, EmRun \/ Tasks PROVE SafeInv'
  OBVIOUS
<1>1. CASE EmRun
  <2>1. EmStep
    BY <1>1, EmRunStep DEF SafeInv
  <2>2. /\ emu' \in EmuType /\ core' \in CoreType /\ gui' = gui /\ tasks' = tasks /\ idle' = idle
        /\ emu'.busy = emu.busy /\ emu'.queue = emu.queue /\ core'.task = core.task
        /\ core'.ret = core.ret /\ core'.calc = core.calc
        /\ core.at \in InEmRun /\ (core'.at \in InEmRun \/ core'.at = core.ret)
    BY <2>1 DEF EmStep, SameWork, SameTask
  <2>3. TypeOK'
    BY <2>2 DEF SafeInv, TypeOK
  <2>4. WhereInv'
    <3>1. core.ret \in Callers
      BY DEF SafeInv, TypeOK, CoreType
    <3> QED
      BY <2>2, <3>1 DEF SafeInv, WhereInv, InEmRun, InTask, Callers
  <2>5. TasksInv'
    BY <2>2, StillAccounted
  <2> QED
    BY <2>2, <2>3, <2>4, <2>5 DEF SafeInv, WantsInv, TodoInv
<1>2. CASE Tasks
  <2>1. TaskStep
    BY <1>2, TasksStep DEF SafeInv
  <2>2. /\ emu' \in EmuType /\ core' \in CoreType /\ gui' = gui /\ tasks' = tasks /\ idle' = idle
        /\ emu'.busy = emu.busy /\ emu'.queue = emu.queue /\ core'.task = core.task
        /\ core.at \in InTask
        /\ core'.at \in InTask \/ (core'.at = "em" /\ core'.ret = "again")
        /\ core'.calc # 0 => core'.at = "playing"
    BY <2>1 DEF TaskStep, SameWork
  <2>3. TypeOK'
    BY <2>2 DEF SafeInv, TypeOK
  <2>4. WhereInv'
    BY <2>2 DEF SafeInv, WhereInv, InEmRun
  <2>5. TasksInv'
    BY <2>2, StillAccounted
  <2> QED
    BY <2>2, <2>3, <2>4, <2>5 DEF SafeInv, WantsInv, TodoInv
<1> QED
  BY <1>1, <1>2

-----------------------------------------------------------------------------
\* The options that the device or the cable being opened was given are the current
\* ones unless the GUI has marked them as new.
OptionsInv ==
    /\ core.at = "aopen" => emu.stale \/ core.opened = emu.options
    /\ emu.device # 0 /\ ~emu.stale => emu.device = emu.options
    /\ ~emu.changed => emu.cable \in {emu.want, "none"}
    /\ core.at = "open" /\ ~emu.changed => core.new = emu.want

\* What is left of an operation that cancels the tasks: before and after the running
\* task has ended; and of the others.
Cancelling ==
    {<<"drain", "settle">>, <<"settle">>,
     <<"drain", "settle", "dialog", "switch">>, <<"settle", "dialog", "switch">>,
     <<"drain", "settle", "exit", "join", "freed">>, <<"settle", "exit", "join", "freed">>}
Settled == {<<"dialog", "switch">>, <<"switch">>, <<"exit", "join", "freed">>}
NotCancelling ==
    {<<>>, CancelTasks, LoadState, Free, Run, <<"thread">>, <<"join", "freed">>, <<"freed">>}
        \cup {<<op>> : op \in Operations}

\* No macro file has been opened in this behaviour: the callback of that task begins
\* another task, in the middle of whatever the GUI does.
NoMacroLoaded == \A t \in DOMAIN tasks : tasks[t].kind # "loadmacro"

CancelInv ==
    NoMacroLoaded =>
        /\ gui.todo \in Cancelling \cup Settled \cup NotCancelling
        /\ gui.todo \in Cancelling \cup Settled => emu.queue = <<>>
        /\ gui.todo \in Settled => ~emu.busy
        /\ core.calc # 0 => core.calc = emu.calc


\* tilem_em_main() takes a task from the queue, and run_task() calls it back.
LEMMA MainSteps == SafeInv /\ Main => SafeInv'
<1> SUFFICES ASSUME SafeInv, Main PROVE SafeInv'
  OBVIOUS
<1>a. /\ emu \in EmuType /\ core \in CoreType /\ gui \in GuiType
      /\ tasks \in Seq(TaskType) /\ idle \in Seq(IdleType)
  BY DEF SafeInv, TypeOK
<1>b. /\ "loop" \in Labels /\ "done" \in Labels /\ "task" \in Labels /\ "em" \in Labels
      /\ InEmRun \cup InMain \cup InTask = Labels
  BY DEF Labels, InMain, InTask, InEmRun
<1>1. CASE MainStarts
  <2>1. /\ emu' = emu /\ gui' = gui /\ tasks' = tasks /\ idle' = idle
        /\ core' = [core EXCEPT !.at = "loop"] /\ core.at = "start"
    BY <1>1 DEF MainStarts, Core, At
  <2>2. SameTask(core, core') /\ core'.at = "loop"
    BY <2>1, <1>a, <1>b, CoreExcept
  <2>3. TasksInv'
    BY <2>1, <2>2, StillAccounted DEF SameTask
  <2>4. WhereInv'
    BY <2>1, <2>2 DEF SafeInv, WhereInv, SameTask, InEmRun, InTask
  <2> QED
    BY <2>1, <2>2, <2>3, <2>4 DEF SafeInv, TypeOK, SameTask, WantsInv, TodoInv
<1>2. CASE MainExits
  <2>1. /\ emu' = [emu EXCEPT !.changed = emu.changed \/ emu.cable # "none", !.cable = "none"]
        /\ gui' = gui /\ tasks' = tasks /\ idle' = idle
        /\ core' = Unlock(emu', core, "done") /\ core.at = "loop"
    BY <1>2 DEF MainExits, Core, At
  <2>2. (emu.changed \/ emu.cable # "none") \in BOOLEAN
    OBVIOUS
  <2>3. emu' \in EmuType /\ emu'.busy = emu.busy /\ emu'.queue = emu.queue
    BY <2>1, <2>2, <1>a DEF EmuType, Cables
  <2>4. SameTask(core, core') /\ core'.at = "done"
    BY <2>1, <2>3, <1>a, <1>b, UnlockTask
  <2>5. TasksInv'
    BY <2>1, <2>3, <2>4, StillAccounted DEF SameTask
  <2>6. WhereInv'
    BY <2>1, <2>3, <2>4 DEF SafeInv, WhereInv, SameTask, InEmRun, InTask
  <2> QED
    BY <2>1, <2>3, <2>4, <2>5, <2>6 DEF SafeInv, TypeOK, SameTask, WantsInv, TodoInv
<1>3. CASE MainTask
  <2> DEFINE t == Head(emu.queue)
  <2>1. /\ emu' = [emu EXCEPT !.queue = Tail(emu.queue), !.busy = TRUE]
        /\ core' = [core EXCEPT !.at = "task", !.task = t]
        /\ tasks' = [tasks EXCEPT ![t] = [tasks[t] EXCEPT !.ran = TRUE]]
        /\ gui' = gui /\ idle' = idle /\ core.at = "loop" /\ emu.queue # <<>>
    BY <1>3 DEF MainTask, At
  <2>2. emu.queue \in Seq(Nat) /\ t \in Nat /\ Tail(emu.queue) \in Seq(Nat)
    BY <2>1, <1>a, HeadTailProperties DEF EmuType
  <2>3. /\ In(t, emu.queue) /\ ~In(t, Tail(emu.queue)) /\ Distinct(Tail(emu.queue))
        /\ \A u : In(u, emu.queue) <=> u = t \/ In(u, Tail(emu.queue))
    BY <2>1, <2>2, InTail DEF SafeInv, TasksInv
  <2>4. t \in DOMAIN tasks /\ tasks[t].calls = 0 /\ t # 0
    <3>1. Pending(t)
      BY <2>3 DEF SafeInv, TasksInv
    <3>2. DOMAIN tasks = 1..Len(tasks)
      BY <1>a, LenProperties
    <3> QED
      BY <3>1, <3>2 DEF Pending
  <2> HIDE DEF t
  <2>5. core.task = 0 /\ core.calc = 0
    BY <2>1 DEF SafeInv, WhereInv, InEmRun, InTask
  <2>6. /\ emu' \in EmuType /\ emu'.busy = TRUE /\ emu'.queue = Tail(emu.queue)
    BY <2>1, <2>2, <1>a DEF EmuType
  <2>7. core' \in CoreType /\ core'.task = t /\ core'.at = "task" /\ core'.calc = 0
    BY <2>1, <2>2, <2>5, <1>a, <1>b DEF CoreType
  <2>8. tasks[t] \in TaskType
    BY <1>a, <2>4, LenProperties, ElementOfSeq
  <2> DEFINE r == [tasks[t] EXCEPT !.ran = TRUE]
  <2>9. /\ r \in TaskType /\ r.ran = TRUE /\ r.calls = tasks[t].calls
        /\ r.cancelled = tasks[t].cancelled
    BY <2>8 DEF TaskType
  <2> HIDE DEF r
  <2>10. /\ tasks' \in Seq(TaskType) /\ DOMAIN tasks' = DOMAIN tasks
         /\ \A u \in DOMAIN tasks : tasks'[u] = IF u = t THEN r ELSE tasks[u]
    BY <2>1, <2>4, <2>9, <1>a, TaskUpdate DEF r
  <2>11. WhereInv'
    BY <2>4, <2>6, <2>7, <2>10 DEF WhereInv, InTask
  <2>12. \A u : Pending(u)' <=> Pending(u)
    BY <2>4, <2>9, <2>10 DEF Pending
  <2>13. TasksInv'
    <3>1. /\ ~In(t, gui.old) /\ ~In(t, TasksOf(idle))
      BY <2>3 DEF SafeInv, TasksInv
    <3>2. \A i \in DOMAIN idle : idle[i].task # t /\ idle[i].task \in DOMAIN tasks
      <4> SUFFICES ASSUME NEW i \in DOMAIN idle PROVE idle[i].task # t /\ idle[i].task \in DOMAIN tasks
        OBVIOUS
      <4>1. In(idle[i].task, TasksOf(idle))
        BY DEF In, TasksOf
      <4> QED
        BY <3>1, <4>1 DEF SafeInv, TasksInv, Pending
    <3>3. \A u : In(u, emu'.queue) \/ In(u, gui'.old) => ~tasks'[u].ran
      <4> SUFFICES ASSUME NEW u, In(u, emu'.queue) \/ In(u, gui'.old) PROVE ~tasks'[u].ran
        OBVIOUS
      <4>1. u # t /\ Pending(u) /\ ~tasks[u].ran
        BY <2>1, <2>3, <2>6, <3>1 DEF SafeInv, TasksInv
      <4> QED
        BY <4>1, <2>10 DEF Pending
    <3>4. \A i \in DOMAIN idle' : idle'[i].cancelled <=> ~tasks'[idle'[i].task].ran
      BY <2>1, <2>10, <3>2 DEF SafeInv, TasksInv
    <3>5. \A u \in DOMAIN tasks' : /\ tasks'[u].calls \in {0, 1}
                                   /\ tasks'[u].calls = 1 => (tasks'[u].cancelled <=> ~tasks'[u].ran)
      BY <2>4, <2>9, <2>10 DEF SafeInv, TasksInv
    <3>6. tasks'[core'.task].ran
      BY <2>4, <2>7, <2>9, <2>10
    <3>7. \A u : Pending(u)' <=> \/ In(u, emu'.queue) \/ In(u, gui'.old) \/ In(u, TasksOf(idle'))
                                 \/ u = core'.task /\ u # 0
      BY <2>1, <2>3, <2>4, <2>5, <2>6, <2>7, <2>12 DEF SafeInv, TasksInv
    <3>8. \A u : In(u, emu'.queue) => In(u, emu.queue)
      BY <2>3, <2>6
    <3> QED
      BY <2>1, <2>3, <2>6, <2>7, <3>1, <3>3, <3>4, <3>5, <3>6, <3>7, <3>8 DEF SafeInv, TasksInv
  <2> QED
    BY <2>1, <2>6, <2>7, <2>10, <2>11, <2>13, <1>a DEF SafeInv, TypeOK, WantsInv, TodoInv
<1>4. CASE MainAborts
  <2>1. /\ emu' = emu /\ tasks' = tasks /\ idle' = idle
        /\ core' = [core EXCEPT !.parked = TRUE] /\ gui' = [gui EXCEPT !.waits = FALSE]
    BY <1>4 DEF MainAborts
  <2>2. SameTask(core, core') /\ core'.at = core.at
    BY <2>1, <1>a, CoreExcept
  <2>3. gui' \in GuiType /\ gui'.old = gui.old /\ gui'.todo = gui.todo /\ gui'.wants = gui.wants
    BY <2>1, <1>a DEF GuiType
  <2>4. TasksInv'
    BY <2>1, <2>2, <2>3, StillAccounted DEF SameTask
  <2>5. WhereInv'
    BY <2>1, <2>2 DEF SafeInv, WhereInv, SameTask
  <2> QED
    BY <2>1, <2>2, <2>3, <2>4, <2>5 DEF SafeInv, TypeOK, SameTask, WantsInv, TodoInv
<1>5. CASE MainRuns
  <2>1. /\ emu' = emu /\ gui' = gui /\ tasks' = tasks /\ idle' = idle
        /\ core' = [core EXCEPT !.at = "em", !.awake = FALSE, !.ff = FALSE, !.ret = "loop"]
        /\ core.at = "loop"
    BY <1>5 DEF MainRuns, Core, At, Call
  <2>2. /\ core' \in CoreType /\ core'.task = core.task /\ core'.calc = core.calc
        /\ core'.at = "em" /\ core'.ret = "loop"
    BY <2>1, <1>a, <1>b DEF CoreType, Callers
  <2>3. TasksInv'
    BY <2>1, <2>2, StillAccounted
  <2>4. WhereInv'
    BY <2>1, <2>2 DEF SafeInv, WhereInv, InEmRun, InTask
  <2> QED
    BY <2>1, <2>2, <2>3, <2>4 DEF SafeInv, TypeOK, WantsInv, TodoInv
<1>6. CASE TaskEnds
  <2> DEFINE t == core.task
             first == <<Callback(t, FALSE)>>
             dropped == Dropped(emu, core.failed)
             rest == [i \in DOMAIN dropped |-> Callback(dropped[i], TRUE)]
  <2>1. /\ idle' = (idle \o first) \o rest
        /\ emu' = [emu EXCEPT !.busy = FALSE, !.queue = IF core.failed THEN <<>> ELSE emu.queue]
        /\ tasks' = [tasks EXCEPT ![t] = [tasks[t] EXCEPT !.shows = ~emu.abort, !.calc = emu.calc]]
        /\ core' = [core EXCEPT !.at = "loop", !.task = 0, !.failed = FALSE]
        /\ gui' = gui /\ core.at = "end"
    BY <1>6 DEF TaskEnds, At
  <2>2. t # 0 /\ t \in DOMAIN tasks /\ core.calc = 0 /\ t \in Nat
    BY <2>1, <1>a DEF SafeInv, WhereInv, InTask, CoreType
  <2>3. dropped \in Seq(Nat) /\ emu.queue \in Seq(Nat) /\ dropped \in {emu.queue, <<>>}
    BY <1>a DEF Dropped, EmuType
  <2>4. first \in Seq(IdleType) /\ TasksOf(first) = <<t>>
    BY <2>2 DEF Callback, IdleType, TasksOf
  <2>5. rest \in Seq(IdleType) /\ TasksOf(rest) = dropped /\ DOMAIN rest = DOMAIN dropped
    <3>1. DOMAIN dropped = 1..Len(dropped) /\ Len(dropped) \in Nat
          /\ \A i \in 1..Len(dropped) : dropped[i] \in Nat
      BY <2>3, LenProperties
    <3>2. rest = [i \in 1..Len(dropped) |-> [task |-> dropped[i], cancelled |-> TRUE]]
      BY <3>1 DEF Callback
    <3> DEFINE n == Len(dropped)
                  rec(i) == [task |-> dropped[i], cancelled |-> TRUE]
    <3>b. n \in Nat /\ \A i \in 1..n : rec(i) \in IdleType /\ rec(i).task = dropped[i]
      BY <3>1 DEF IdleType
    <3>c. rest = [i \in 1..n |-> rec(i)]
      BY <3>2
    <3> HIDE DEF n, rec, rest
    <3>d. rest \in [1..n -> IdleType]
      BY <3>b, <3>c
    <3>3. rest \in Seq(IdleType)
      BY <3>b, <3>d
    <3>4. TasksOf(rest) = [i \in 1..Len(dropped) |-> dropped[i]]
      BY <3>b, <3>c DEF TasksOf, n
    <3>5. dropped = [i \in 1..Len(dropped) |-> dropped[i]]
      BY <2>3, <3>1, LenProperties
    <3> QED
      BY <3>1, <3>2, <3>c, <3>3, <3>4, <3>5 DEF n
  <2> HIDE DEF t, first, dropped, rest
  <2>6. /\ idle' \in Seq(IdleType)
        /\ TasksOf(idle') = (TasksOf(idle) \o <<t>>) \o dropped
    <3>1. /\ (idle \o first) \o rest \in Seq(IdleType)
          /\ TasksOf((idle \o first) \o rest) = (TasksOf(idle) \o TasksOf(first)) \o TasksOf(rest)
      BY <2>4, <2>5, <1>a, TasksOfConcat, Zenon
    <3> QED
      BY <3>1, <2>1, <2>4, <2>5, Zenon
  <2>7. /\ emu' \in EmuType /\ ~emu'.busy
        /\ emu'.queue = IF core.failed THEN <<>> ELSE emu.queue
    <3>1. (IF core.failed THEN <<>> ELSE emu.queue) \in Seq(Nat)
      BY <2>3
    <3> QED
      BY <2>1, <3>1, <1>a DEF EmuType
  <2>8. core' \in CoreType /\ core'.task = 0 /\ core'.at = "loop" /\ core'.calc = 0
    BY <2>1, <2>2, <1>a, <1>b DEF CoreType
  <2>9. tasks[t] \in TaskType
    BY <1>a, <2>2, LenProperties, ElementOfSeq
  <2> DEFINE r == [tasks[t] EXCEPT !.shows = ~emu.abort, !.calc = emu.calc]
  <2>10. /\ r \in TaskType /\ r.ran = tasks[t].ran /\ r.calls = tasks[t].calls
         /\ r.cancelled = tasks[t].cancelled
    <3>1. (~emu.abort) \in BOOLEAN /\ emu.calc \in Nat
      BY <1>a DEF EmuType
    <3> QED
      BY <2>9, <3>1 DEF TaskType
  <2> HIDE DEF r
  <2>11. /\ tasks' \in Seq(TaskType) /\ DOMAIN tasks' = DOMAIN tasks
         /\ \A u \in DOMAIN tasks : tasks'[u] = IF u = t THEN r ELSE tasks[u]
    BY <2>1, <2>2, <2>10, <1>a, TaskUpdate DEF r
  <2>12. /\ \A u : Pending(u)' <=> Pending(u)
         /\ \A u \in DOMAIN tasks : /\ tasks'[u].ran = tasks[u].ran
                                    /\ tasks'[u].calls = tasks[u].calls
                                    /\ tasks'[u].cancelled = tasks[u].cancelled
    BY <2>10, <2>11 DEF Pending
  <2>13. TasksInv'
    <3> DEFINE back == TasksOf(idle)
    <3>1. /\ Distinct(dropped) /\ \A u : In(u, dropped) => In(u, emu.queue)
      BY <2>3, InEmpty DEF SafeInv, TasksInv
    <3>2. back \in Seq(Nat) /\ Distinct(back) /\ <<t>> \in Seq(Nat)
      BY <1>a, <2>2, TasksOfType DEF SafeInv, TasksInv
    <3>3. ~In(t, back) /\ ~In(t, emu.queue) /\ ~In(t, gui.old) /\ tasks[t].ran
      BY <2>2 DEF t, SafeInv, TasksInv
    <3>4. \A u : ~(In(u, emu.queue) /\ In(u, back)) /\ ~(In(u, gui.old) /\ In(u, back))
      BY DEF SafeInv, TasksInv
    <3>5. Distinct(<<t>>) /\ \A u : In(u, <<t>>) <=> u = t
      BY InSingle
    <3> HIDE DEF back
    <3>6. /\ \A u : In(u, back \o <<t>>) <=> In(u, back) \/ u = t
          /\ Distinct(back \o <<t>>) /\ back \o <<t>> \in Seq(Nat)
      <4>1. /\ \A u : In(u, back \o <<t>>) <=> In(u, back) \/ In(u, <<t>>)
            /\ Distinct(back) /\ Distinct(<<t>>) /\ (\A u : ~(In(u, back) /\ In(u, <<t>>)))
                  => Distinct(back \o <<t>>)
        BY <3>2, InConcat
      <4> QED
        BY <4>1, <3>2, <3>3, <3>5
    <3>7. /\ \A u : In(u, TasksOf(idle')) <=> In(u, back) \/ u = t \/ In(u, dropped)
          /\ Distinct(TasksOf(idle'))
      <4>1. /\ \A u : In(u, (back \o <<t>>) \o dropped) <=> In(u, back \o <<t>>) \/ In(u, dropped)
            /\ Distinct(back \o <<t>>) /\ Distinct(dropped)
                   /\ (\A u : ~(In(u, back \o <<t>>) /\ In(u, dropped)))
                  => Distinct((back \o <<t>>) \o dropped)
        BY <2>3, <3>6, InConcat
      <4>2. \A u : ~(In(u, back \o <<t>>) /\ In(u, dropped))
        BY <3>1, <3>3, <3>4, <3>6
      <4> QED
        BY <4>1, <4>2, <3>1, <3>6, <2>6 DEF back
    <3>8. \A u : In(u, emu'.queue) => In(u, emu.queue) /\ ~In(u, dropped)
      BY <2>7, InEmpty DEF dropped, Dropped
    <3>9. \A u : In(u, emu.queue) => In(u, emu'.queue) \/ In(u, dropped)
      BY <2>7 DEF dropped, Dropped
    <3>10. Distinct(emu'.queue)
      BY <2>7, InEmpty DEF SafeInv, TasksInv
    <3>11. \A u : Pending(u)' <=> \/ In(u, emu'.queue) \/ In(u, gui'.old) \/ In(u, TasksOf(idle'))
                                  \/ u = core'.task /\ u # 0
      <4>1. \A u : Pending(u) <=> \/ In(u, emu.queue) \/ In(u, gui.old) \/ In(u, back)
                                  \/ u = t
        BY <2>2 DEF SafeInv, TasksInv, back, t
      <4> QED
        BY <4>1, <2>1, <2>8, <2>12, <3>1, <3>7, <3>8, <3>9
    <3>12. \A u : /\ ~(In(u, emu'.queue) /\ In(u, gui'.old))
                  /\ ~(In(u, emu'.queue) /\ In(u, TasksOf(idle')))
                  /\ ~(In(u, gui'.old) /\ In(u, TasksOf(idle')))
      <4>1. \A u : ~(In(u, emu.queue) /\ In(u, gui.old))
        BY DEF SafeInv, TasksInv
      <4> QED
        BY <4>1, <2>1, <3>1, <3>3, <3>4, <3>7, <3>8
    <3>13. \A u : In(u, emu'.queue) \/ In(u, gui'.old) => ~tasks'[u].ran
      <4> SUFFICES ASSUME NEW u, In(u, emu'.queue) \/ In(u, gui'.old) PROVE ~tasks'[u].ran
        OBVIOUS
      <4>1. Pending(u) /\ ~tasks[u].ran
        BY <2>1, <3>8 DEF SafeInv, TasksInv
      <4> QED
        BY <4>1, <2>12 DEF Pending
    <3>14. \A i \in DOMAIN idle' : idle'[i].cancelled <=> ~tasks'[idle'[i].task].ran
      <4> SUFFICES ASSUME NEW i \in DOMAIN idle'
                   PROVE  idle'[i].cancelled <=> ~tasks'[idle'[i].task].ran
        OBVIOUS
      <4>1. \/ \E j \in DOMAIN idle : idle'[i] = idle[j]
            \/ idle'[i] = Callback(t, FALSE)
            \/ \E j \in DOMAIN dropped : idle'[i] = Callback(dropped[j], TRUE)
        <5>1. \/ \E j \in DOMAIN idle : ((idle \o first) \o rest)[i] = idle[j]
              \/ \E j \in DOMAIN first : ((idle \o first) \o rest)[i] = first[j]
              \/ \E j \in DOMAIN rest : ((idle \o first) \o rest)[i] = rest[j]
          <6>1. i \in DOMAIN ((idle \o first) \o rest)
            BY <2>1
          <6>2. idle \in Seq(IdleType) /\ first \in Seq(IdleType) /\ rest \in Seq(IdleType)
            BY <2>4, <2>5, <1>a
          <6>3. \A k \in DOMAIN ((idle \o first) \o rest) :
                   \/ \E j \in DOMAIN idle : ((idle \o first) \o rest)[k] = idle[j]
                   \/ \E j \in DOMAIN first : ((idle \o first) \o rest)[k] = first[j]
                   \/ \E j \in DOMAIN rest : ((idle \o first) \o rest)[k] = rest[j]
            BY <6>2, ConcatThree, Zenon
          <6> QED
            BY <6>1, <6>3, Zenon
        <5>2. \A j \in DOMAIN first : first[j] = Callback(t, FALSE)
          <6>1. \A j \in DOMAIN first : In(first[j], <<Callback(t, FALSE)>>)
            BY DEF first, In
          <6> QED
            BY <6>1, InSingle
        <5>3. \A j \in DOMAIN rest : j \in DOMAIN dropped /\ rest[j] = Callback(dropped[j], TRUE)
          BY DEF rest
        <5> QED
          BY <5>1, <5>2, <5>3, <2>1
      <4>2. \A u \in DOMAIN tasks : tasks'[u].ran <=> tasks[u].ran
        BY <2>12
      <4>3. CASE \E j \in DOMAIN idle : idle'[i] = idle[j]
        <5>1. PICK j \in DOMAIN idle : idle'[i] = idle[j]
          BY <4>3
        <5>2. In(idle[j].task, TasksOf(idle))
          BY DEF In, TasksOf
        <5>3. idle[j].task \in DOMAIN tasks
          BY <5>2 DEF SafeInv, TasksInv, Pending
        <5> QED
          BY <5>1, <5>3, <4>2 DEF SafeInv, TasksInv
      <4>4. CASE idle'[i] = Callback(t, FALSE)
        BY <4>4, <4>2, <3>3, <2>2 DEF Callback
      <4>5. CASE \E j \in DOMAIN dropped : idle'[i] = Callback(dropped[j], TRUE)
        <5>1. PICK j \in DOMAIN dropped : idle'[i] = Callback(dropped[j], TRUE)
          BY <4>5
        <5>2. In(dropped[j], emu.queue)
          BY <3>1 DEF In
        <5>3. dropped[j] \in DOMAIN tasks /\ ~tasks[dropped[j]].ran
          BY <5>2 DEF SafeInv, TasksInv, Pending
        <5> QED
          BY <5>1, <5>3, <4>2 DEF Callback
      <4> QED
        BY <4>1, <4>3, <4>4, <4>5
    <3>15. \A u \in DOMAIN tasks' : /\ tasks'[u].calls \in {0, 1}
                                    /\ tasks'[u].calls = 1 => (tasks'[u].cancelled <=> ~tasks'[u].ran)
      BY <2>11, <2>12 DEF SafeInv, TasksInv
    <3> QED
      BY <2>1, <2>8, <3>7, <3>10, <3>11, <3>12, <3>13, <3>14, <3>15 DEF SafeInv, TasksInv
  <2>14. WhereInv'
    BY <2>7, <2>8 DEF WhereInv, InTask, InEmRun
  <2> QED
    BY <2>1, <2>6, <2>7, <2>8, <2>11, <2>13, <2>14, <1>a DEF SafeInv, TypeOK, WantsInv, TodoInv
<1> QED
  BY <1>1, <1>2, <1>3, <1>4, <1>5, <1>6 DEF Main

-----------------------------------------------------------------------------
\* tilem_calc_emulator_load_state() and tilem_calc_emulator_free() begin with
\* cancel_tasks().
LEMMA LoadStateSteps == LoadState = <<"abort", "drain", "settle", "dialog", "switch">>
<1> DEFINE p == <<"abort", "drain", "settle">>
           q == <<"dialog", "switch">>
           s == <<"abort", "drain", "settle", "dialog", "switch">>
<1>1. p \in Seq(GuiSteps) /\ q \in Seq(GuiSteps) /\ s \in Seq(GuiSteps)
  BY DEF GuiSteps
<1>2. /\ p \o q \in Seq(GuiSteps) /\ Len(p \o q) = Len(p) + Len(q)
      /\ \A i \in 1..(Len(p) + Len(q)) : (p \o q)[i] = IF i <= Len(p) THEN p[i] ELSE q[i - Len(p)]
  BY <1>1, ConcatProperties
<1>3. \A i \in 1..5 : (p \o q)[i] = s[i]
  <2>1. Len(p) = 3 /\ Len(q) = 2
    OBVIOUS
  <2>2. \A i \in 1..3 : (p \o q)[i] = p[i]
    BY <1>2, <2>1
  <2>3. \A i \in 4..5 : (p \o q)[i] = q[i - 3]
    BY <1>2, <2>1
  <2>4. (p \o q)[1] = s[1]
    BY <2>2
  <2>5. (p \o q)[2] = s[2]
    BY <2>2
  <2>6. (p \o q)[3] = s[3]
    BY <2>2
  <2>7. (p \o q)[4] = s[4]
    BY <2>3
  <2>8. (p \o q)[5] = s[5]
    BY <2>3
  <2> QED
    BY <2>4, <2>5, <2>6, <2>7, <2>8
<1>4. Len(p) + Len(q) = 5 /\ Len(s) = 5
  OBVIOUS
<1>5. p \o q = s
  <2> HIDE DEF p, q, s
  <2> QED
    BY <1>1, <1>2, <1>3, <1>4, SeqEqual
<1> QED
  BY <1>5 DEF LoadState, CancelTasks

LEMMA FreeSteps == Free = <<"abort", "drain", "settle", "exit", "join", "freed">>
<1> DEFINE p == <<"abort", "drain", "settle">>
           q == <<"exit", "join", "freed">>
           s == <<"abort", "drain", "settle", "exit", "join", "freed">>
<1>1. p \in Seq(GuiSteps) /\ q \in Seq(GuiSteps) /\ s \in Seq(GuiSteps)
  BY DEF GuiSteps
<1>2. /\ p \o q \in Seq(GuiSteps) /\ Len(p \o q) = Len(p) + Len(q)
      /\ \A i \in 1..(Len(p) + Len(q)) : (p \o q)[i] = IF i <= Len(p) THEN p[i] ELSE q[i - Len(p)]
  BY <1>1, ConcatProperties
<1>3. \A i \in 1..6 : (p \o q)[i] = s[i]
  <2>1. Len(p) = 3 /\ Len(q) = 3
    OBVIOUS
  <2>2. \A i \in 1..3 : (p \o q)[i] = p[i]
    BY <1>2, <2>1
  <2>3. \A i \in 4..6 : (p \o q)[i] = q[i - 3]
    BY <1>2, <2>1
  <2>4. (p \o q)[1] = s[1]
    BY <2>2
  <2>5. (p \o q)[2] = s[2]
    BY <2>2
  <2>6. (p \o q)[3] = s[3]
    BY <2>2
  <2>7. (p \o q)[4] = s[4]
    BY <2>3
  <2>8. (p \o q)[5] = s[5]
    BY <2>3
  <2>9. (p \o q)[6] = s[6]
    BY <2>3
  <2> QED
    BY <2>4, <2>5, <2>6, <2>7, <2>8, <2>9
<1>4. Len(p) + Len(q) = 6 /\ Len(s) = 6
  OBVIOUS
<1>5. p \o q = s
  <2> HIDE DEF p, q, s
  <2> QED
    BY <1>1, <1>2, <1>3, <1>4, SeqEqual
<1> QED
  BY <1>5 DEF Free, CancelTasks

\* An operation that aborts begins with it and goes on with the queue.
LEMMA StepsAbort ==
  ASSUME NEW op \in Operations \ {"break", "off"}
  PROVE  \A i \in DOMAIN Steps(op) :
            Steps(op)[i] = "abort" => i = 1 /\ Len(Steps(op)) > 1 /\ Steps(op)[2] = "drain"
<1>1. CASE op = "run"
  BY <1>1 DEF Steps, Run
<1>2. CASE op = "cancel"
  BY <1>2 DEF Steps, CancelTasks
<1>3. CASE op = "load"
  <2>1. Steps(op) = <<"abort", "drain", "settle", "dialog", "switch">>
    BY <1>3, LoadStateSteps DEF Steps
  <2> QED
    BY <2>1
<1>4. CASE op = "free"
  <2>1. Steps(op) = <<"abort", "drain", "settle", "exit", "join", "freed">>
    BY <1>4, FreeSteps DEF Steps
  <2> QED
    BY <2>1
<1>5. CASE op \notin {"run", "cancel", "load", "free"}
  <2>1. Steps(op) = <<op>> /\ op # "abort"
    BY <1>5 DEF Steps, Operations, Kinds
  <2> QED
    BY <2>1
<1> QED
  BY <1>1, <1>2, <1>3, <1>4, <1>5

\* A step that is done, with the queue of cancel_tasks() as it was.
LEMMA TodoDone ==
  ASSUME TypeOK, TodoInv, gui.todo # <<>>, Head(gui.todo) # "abort",
         Head(gui.todo) # "drain" \/ gui.old = <<>>,
         gui'.todo = Tail(gui.todo), gui'.old = gui.old
  PROVE  TodoInv'
<1>1. gui.todo \in Seq(GuiSteps)
  BY DEF TypeOK, GuiType
<1>2. /\ DOMAIN gui.todo = 1..Len(gui.todo) /\ Len(gui.todo) \in Nat
      /\ Tail(gui.todo) \in Seq(GuiSteps) /\ Len(Tail(gui.todo)) = Len(gui.todo) - 1
      /\ DOMAIN Tail(gui.todo) = 1..(Len(gui.todo) - 1)
      /\ \A i \in 1..(Len(gui.todo) - 1) : Tail(gui.todo)[i] = gui.todo[i + 1]
      /\ Head(gui.todo) = gui.todo[1]
  BY <1>1, HeadTailProperties, LenProperties
<1>3. \A i \in DOMAIN gui.todo : gui.todo[i] # "abort"
  BY <1>2 DEF TodoInv
<1>4. \A i \in DOMAIN gui'.todo : gui'.todo[i] # "abort"
  BY <1>2, <1>3
<1>5. ASSUME gui.old # <<>> PROVE \E i \in DOMAIN gui'.todo : gui'.todo[i] = "drain"
  <2>1. PICK i \in DOMAIN gui.todo : gui.todo[i] = "drain"
    BY <1>5 DEF TodoInv
  <2>2. i # 1
    BY <2>1, <1>2, <1>5
  <2>3. i - 1 \in DOMAIN gui'.todo /\ gui'.todo[i - 1] = "drain"
    BY <2>1, <2>2, <1>2
  <2> QED
    BY <2>3
<1> QED
  BY <1>4, <1>5 DEF TodoInv

\* A step of the GUI that leaves the core's task and its place alone.
LEMMA StillThere ==
  ASSUME SafeInv, emu' \in EmuType, core' \in CoreType, gui' \in GuiType,
         emu'.busy = emu.busy, core'.at = core.at, core'.ret = core.ret,
         core'.calc = core.calc, core'.task = core.task,
         tasks' \in Seq(TaskType), DOMAIN tasks \subseteq DOMAIN tasks', idle' \in Seq(IdleType)
  PROVE  TypeOK' /\ WhereInv'
BY DEF SafeInv, TypeOK, WhereInv

\* A task that is called back: it was nowhere else, and is nowhere afterwards.
LEMMA CalledBack ==
  ASSUME SafeInv, NEW c \in IdleType, NEW g \in GuiType, Finished(c, g),
         In(c.task, gui.old) \/ In(c.task, TasksOf(idle)),
         c.cancelled <=> ~tasks[c.task].ran
  PROVE  /\ tasks' \in Seq(TaskType) /\ DOMAIN tasks' = DOMAIN tasks
         /\ gui' \in GuiType /\ gui'.old = g.old /\ gui'.wants = g.wants
         /\ gui'.todo \in {g.todo, <<"macro">> \o g.todo}
         /\ NoMacroLoaded => gui'.todo = g.todo
         /\ gui'.list \in Nat /\ gui'.waits = g.waits
         /\ c.task \in DOMAIN tasks /\ c.task # core.task
         /\ \A u : Pending(u)' <=> Pending(u) /\ u # c.task
         /\ \A u \in DOMAIN tasks : /\ tasks'[u].ran = tasks[u].ran /\ tasks'[u].kind = tasks[u].kind
                                    /\ tasks'[u].calls \in {0, 1}
                                    /\ tasks'[u].calls = 1
                                          => (tasks'[u].cancelled <=> ~tasks'[u].ran)
<1> DEFINE t == c.task
           r == [tasks[t] EXCEPT !.calls = tasks[t].calls + 1, !.cancelled = c.cancelled]
<1>1. /\ tasks' = [tasks EXCEPT ![t] = r]
      /\ gui' = [g EXCEPT
            !.list = IF tasks[t].kind = "list" /\ tasks[t].shows /\ ~c.cancelled
                     THEN tasks[t].calc ELSE g.list,
            !.todo = IF tasks[t].kind = "loadmacro" /\ Len(tasks) < MaxTasks
                     THEN <<"macro">> \o g.todo ELSE g.todo]
  BY DEF Finished
<1>2. t \in DOMAIN tasks /\ tasks[t].calls = 0 /\ t # core.task /\ tasks \in Seq(TaskType)
  BY DEF SafeInv, TypeOK, TasksInv, Pending, WhereInv
<1>3. tasks[t] \in TaskType
  BY <1>2, LenProperties, ElementOfSeq
<1>4. r \in TaskType /\ r.calls = 1 /\ r.cancelled = c.cancelled /\ r.ran = tasks[t].ran
      /\ r.kind = tasks[t].kind
  <2>1. tasks[t].calls + 1 = 1 /\ c.cancelled \in BOOLEAN
    BY <1>2 DEF IdleType
  <2>2. r = [tasks[t] EXCEPT !.calls = 1, !.cancelled = c.cancelled]
    BY <2>1
  <2> HIDE DEF r, t
  <2> QED
    BY <2>1, <2>2, <1>3 DEF TaskType
<1>5. /\ tasks' \in Seq(TaskType) /\ DOMAIN tasks' = DOMAIN tasks
      /\ \A u \in DOMAIN tasks : tasks'[u] = IF u = t THEN r ELSE tasks[u]
  BY <1>1, <1>2, <1>4, TaskUpdate, Zenon
<1> HIDE DEF r, t
<1>6. \A u : Pending(u)' <=> Pending(u) /\ u # t
  BY <1>4, <1>5 DEF Pending
<1>7. /\ gui' \in GuiType /\ gui'.old = g.old /\ gui'.wants = g.wants
      /\ gui'.todo \in {g.todo, <<"macro">> \o g.todo}
      /\ NoMacroLoaded => gui'.todo = g.todo
      /\ gui'.waits = g.waits
  <2>1. PICK list, todo :
           /\ gui' = [g EXCEPT !.list = list, !.todo = todo]
           /\ list \in {tasks[t].calc, g.list}
           /\ todo \in {g.todo, <<"macro">> \o g.todo}
           /\ tasks[t].kind # "loadmacro" => todo = g.todo
    BY <1>1
  <2>2. list \in Nat
    BY <2>1, <1>3 DEF GuiType, TaskType
  <2>3. <<"macro">> \o g.todo \in Seq(GuiSteps) /\ g.todo \in Seq(GuiSteps)
    <3>1. <<"macro">> \in Seq(GuiSteps) /\ g.todo \in Seq(GuiSteps)
      BY DEF GuiSteps, Kinds, GuiType
    <3> QED
      BY <3>1, ConcatProperties
  <2>4. todo \in Seq(GuiSteps)
    BY <2>1, <2>3
  <2> QED
    BY <2>1, <2>2, <2>4, <1>2 DEF GuiType, NoMacroLoaded
<1>8. \A u \in DOMAIN tasks : /\ tasks'[u].ran = tasks[u].ran /\ tasks'[u].kind = tasks[u].kind
                              /\ tasks'[u].calls \in {0, 1}
                              /\ tasks'[u].calls = 1 => (tasks'[u].cancelled <=> ~tasks'[u].ran)
  <2> SUFFICES ASSUME NEW u \in DOMAIN tasks
               PROVE  /\ tasks'[u].ran = tasks[u].ran /\ tasks'[u].kind = tasks[u].kind
                      /\ tasks'[u].calls \in {0, 1}
                      /\ tasks'[u].calls = 1 => (tasks'[u].cancelled <=> ~tasks'[u].ran)
    OBVIOUS
  <2>1. CASE u = t
    BY <2>1, <1>4, <1>5 DEF t
  <2>2. CASE u # t
    BY <2>2, <1>5 DEF SafeInv, TasksInv
  <2> QED
    BY <2>1, <2>2
<1> QED
  BY <1>2, <1>5, <1>6, <1>7, <1>8 DEF t, GuiType


\* The number of threads that wait for the lock.
LEMMA WaitingExcept ==
  ASSUME NEW e \in EmuType
  PROVE  \A n \in Int : /\ [e EXCEPT !.waiting = n] \in EmuType
                        /\ [e EXCEPT !.waiting = n].busy = e.busy
                        /\ [e EXCEPT !.waiting = n].queue = e.queue
                        /\ [e EXCEPT !.waiting = n].calc = e.calc
                        /\ [e EXCEPT !.waiting = n].abort = e.abort
BY DEF EmuType

\* A callback that begins another task while the queue is called back, or a dialog open.
LEMMA TodoPushed ==
  ASSUME TypeOK, TodoInv, gui.todo = <<>> \/ Head(gui.todo) # "abort",
         gui'.todo \in {gui.todo, <<"macro">> \o gui.todo}, gui'.old # <<>> => gui.old # <<>>
  PROVE  TodoInv'
<1>1. gui.todo \in Seq(GuiSteps) /\ <<"macro">> \in Seq(GuiSteps)
  BY DEF TypeOK, GuiType, GuiSteps, Kinds
<1>2. DOMAIN gui.todo = 1..Len(gui.todo) /\ Len(gui.todo) \in Nat
  BY <1>1, LenProperties
<1>3. \A i \in DOMAIN gui.todo : gui.todo[i] # "abort"
  BY <1>1, <1>2 DEF TodoInv
<1>4. CASE gui'.todo = gui.todo
  BY <1>3, <1>4 DEF TodoInv
<1>5. CASE gui'.todo = <<"macro">> \o gui.todo
  <2>1. /\ DOMAIN gui'.todo = 1..(1 + Len(gui.todo))
        /\ gui'.todo[1] = "macro"
        /\ \A i \in 2..(1 + Len(gui.todo)) : gui'.todo[i] = gui.todo[i - 1]
    BY <1>1, <1>2, <1>5
  <2>2. \A i \in DOMAIN gui'.todo : gui'.todo[i] # "abort"
    <3> SUFFICES ASSUME NEW i \in DOMAIN gui'.todo PROVE gui'.todo[i] # "abort"
      OBVIOUS
    <3>1. CASE i = 1
      BY <2>1, <3>1
    <3>2. CASE i # 1
      <4>1. i - 1 \in DOMAIN gui.todo /\ gui'.todo[i] = gui.todo[i - 1]
        BY <1>2, <2>1, <3>2
      <4> QED
        BY <4>1, <1>3
    <3> QED
      BY <3>1, <3>2
  <2>3. ASSUME gui'.old # <<>> PROVE \E i \in DOMAIN gui'.todo : gui'.todo[i] = "drain"
    <3>1. PICK i \in DOMAIN gui.todo : gui.todo[i] = "drain"
      BY <2>3 DEF TodoInv
    <3>2. i + 1 \in DOMAIN gui'.todo /\ gui'.todo[i + 1] = "drain"
      BY <3>1, <2>1, <1>2
    <3> QED
      BY <3>2
  <2> QED
    BY <2>2, <2>3 DEF TodoInv
<1> QED
  BY <1>4, <1>5

\* The GUI begins an operation, and asks for the lock.
LEMMA BeginSteps == SafeInv /\ (GuiStarts \/ GuiWants \/ Freed) => SafeInv'
<1> SUFFICES ASSUME SafeInv, GuiStarts \/ GuiWants \/ Freed PROVE SafeInv'
  OBVIOUS
<1>a. /\ emu \in EmuType /\ core \in CoreType /\ gui \in GuiType
      /\ tasks \in Seq(TaskType) /\ idle \in Seq(IdleType)
  BY DEF SafeInv, TypeOK
<1>1. CASE GuiStarts
  <2>1. PICK op \in gui.ops \ {"break", "off"}, n \in {gui.changes, gui.changes + 1} :
           /\ gui' = [gui EXCEPT !.todo = Steps(op), !.changes = n]
           /\ UNCHANGED <<emu, core, tasks, idle>> /\ gui.todo = <<>>
    BY <1>1 DEF GuiStarts
  <2>2. op \in Operations \ {"break", "off"} /\ n \in Nat
    BY <1>a, <2>1 DEF GuiType
  <2>3. Steps(op) \in Seq(GuiSteps)
    BY <2>2, StepsType
  <2>4. /\ gui' \in GuiType /\ gui'.old = gui.old /\ gui'.wants = gui.wants
        /\ gui'.todo = Steps(op)
    BY <1>a, <2>1, <2>2, <2>3 DEF GuiType
  <2>5. gui.old = <<>> /\ ~gui.wants
    <3>1. DOMAIN gui.todo = {}
      BY <2>1
    <3> QED
      BY <2>1, <3>1, <1>a DEF SafeInv, TodoInv, WantsInv, GuiType
  <2>6. TodoInv'
    BY <2>2, <2>4, <2>5, StepsAbort DEF TodoInv
  <2>7. TasksInv'
    BY <2>1, <2>4, StillAccounted
  <2>8. TypeOK' /\ WhereInv'
    BY <1>a, <2>1, <2>4, StillThere
  <2> QED
    BY <2>4, <2>5, <2>6, <2>7, <2>8 DEF SafeInv, WantsInv
<1>2. CASE GuiWants
  <2>1. /\ gui.todo # <<>> /\ Head(gui.todo) \notin Unlocked
        /\ emu' = [emu EXCEPT !.waiting = emu.waiting + 1]
        /\ gui' = [gui EXCEPT !.wants = TRUE]
        /\ UNCHANGED <<core, tasks, idle>>
    BY <1>2 DEF GuiWants
  <2>2. emu' \in EmuType /\ emu'.busy = emu.busy /\ emu'.queue = emu.queue
    <3>1. emu.waiting + 1 \in Int
      BY <1>a DEF EmuType
    <3> QED
      BY <1>a, <2>1, <3>1, WaitingExcept
  <2>3. gui' \in GuiType /\ gui'.old = gui.old /\ gui'.todo = gui.todo
    BY <1>a, <2>1 DEF GuiType
  <2>4. TasksInv'
    BY <2>1, <2>2, <2>3, StillAccounted
  <2>5. TypeOK' /\ WhereInv'
    BY <1>a, <2>1, <2>2, <2>3, StillThere
  <2>6. TodoInv'
    BY <2>3 DEF SafeInv, TodoInv
  <2> QED
    BY <2>1, <2>3, <2>4, <2>5, <2>6 DEF SafeInv, WantsInv
<1>3. CASE Freed
  BY <1>3 DEF Freed, vars, SafeInv, TypeOK, WhereInv, WantsInv, TasksInv, TodoInv, Pending
<1> QED
  BY <1>1, <1>2, <1>3

\* The GUI has the lock and does the next step of its operation.
LEMMA EntersSteps == SafeInv /\ GuiEnters => SafeInv'
<1> SUFFICES ASSUME SafeInv, GuiEnters PROVE SafeInv'
  OBVIOUS
<1>a. /\ emu \in EmuType /\ core \in CoreType /\ gui \in GuiType
      /\ tasks \in Seq(TaskType) /\ idle \in Seq(IdleType)
  BY DEF SafeInv, TypeOK
<1> DEFINE step == Head(gui.todo)
           L == Locked(step, emu)
<1>1. /\ gui.wants /\ idle' = idle
      /\ emu' = [L EXCEPT !.waiting = L.waiting - 1]
      /\ core' = [core EXCEPT !.parked = core.parked /\ emu.waiting - 1 > 0]
      /\ gui' = [gui EXCEPT !.todo = Tail(gui.todo), !.wants = FALSE,
                   !.old = IF step = "abort" THEN emu.queue ELSE gui.old,
                   !.list = IF step = "switch" THEN 0 ELSE gui.list]
      /\ tasks' = IF step \in Kinds THEN Append(tasks, Task(step)) ELSE tasks
  <2>1. gui' = [Done(gui) EXCEPT !.wants = FALSE,
                        !.old = IF step = "abort" THEN emu.queue ELSE Done(gui).old,
                        !.list = IF step = "switch" THEN 0 ELSE Done(gui).list]
    BY DEF GuiEnters
  <2>2. Done(gui) = [gui EXCEPT !.todo = Tail(gui.todo)]
    BY DEF Done
  <2>3. Done(gui).old = gui.old /\ Done(gui).list = gui.list
    BY <2>2, <1>a DEF GuiType
  <2>4. gui' = [gui EXCEPT !.todo = Tail(gui.todo), !.wants = FALSE,
                   !.old = IF step = "abort" THEN emu.queue ELSE gui.old,
                   !.list = IF step = "switch" THEN 0 ELSE gui.list]
    BY <2>1, <2>2, <2>3
  <2> QED
    BY <2>4 DEF GuiEnters, Woken
<1>2. /\ gui.todo # <<>> /\ step \in GuiSteps \ Unlocked /\ gui.todo \in Seq(GuiSteps)
      /\ Tail(gui.todo) \in Seq(GuiSteps)
  <2>1. gui.todo # <<>> /\ step \notin Unlocked /\ gui.todo \in Seq(GuiSteps)
    BY <1>1, <1>a DEF SafeInv, WantsInv, GuiType
  <2> QED
    BY <2>1, HeadTailProperties
<1>3. LockedStep(step, emu, L)
  BY <1>2, <1>a, LockedEffect
<1> HIDE DEF step, L
<1>4. emu' \in EmuType /\ emu'.busy = emu.busy /\ emu'.queue = L.queue /\ emu'.calc = L.calc
  <2>1. L \in EmuType /\ L.busy = emu.busy /\ L.waiting - 1 \in Int
    BY <1>3 DEF LockedStep, EmuType
  <2> QED
    BY <2>1, <1>1, WaitingExcept
<1>5. SameTask(core, core') /\ core'.at = core.at
  <2>1. (core.parked /\ emu.waiting - 1 > 0) \in BOOLEAN
    OBVIOUS
  <2> QED
    BY <2>1, <1>1, <1>a, CoreExcept
<1>6. /\ gui' \in GuiType /\ gui'.todo = Tail(gui.todo) /\ gui'.wants = FALSE
      /\ gui'.old = IF step = "abort" THEN emu.queue ELSE gui.old
  <2> DEFINE old == IF step = "abort" THEN emu.queue ELSE gui.old
             list == IF step = "switch" THEN 0 ELSE gui.list
  <2>1. old \in Seq(Nat) /\ list \in Nat
    BY <1>a DEF EmuType, GuiType
  <2>2. gui' = [gui EXCEPT !.todo = Tail(gui.todo), !.wants = FALSE, !.old = old, !.list = list]
    BY <1>1
  <2>3. gui'.old = old
    BY <2>2, <1>a DEF GuiType
  <2> HIDE DEF old, list
  <2>4. gui' \in GuiType /\ gui'.todo = Tail(gui.todo) /\ gui'.wants = FALSE
    BY <2>1, <2>2, <1>2, <1>a DEF GuiType
  <2> QED
    BY <2>3, <2>4 DEF old
<1>7. WantsInv'
  BY <1>6 DEF WantsInv
<1>8. CASE step = "abort"
  <2>1. step \notin Kinds
    BY <1>8 DEF Kinds
  <2>2. /\ emu'.queue = <<>> /\ gui'.old = emu.queue /\ tasks' = tasks /\ gui.old = <<>>
        /\ Len(gui.todo) > 1 /\ gui.todo[2] = "drain"
    <3>1. L.queue = <<>>
      BY <1>8, <1>3, <2>1 DEF LockedStep
    <3>2. 1 \in DOMAIN gui.todo /\ gui.todo[1] = "abort"
      BY <1>2, <1>8, LenProperties DEF step
    <3> QED
      BY <3>1, <3>2, <2>1, <1>1, <1>4, <1>6, <1>8 DEF SafeInv, TodoInv
  <2>3. TodoInv'
    <3>1. /\ DOMAIN gui.todo = 1..Len(gui.todo) /\ Len(gui.todo) \in Nat
          /\ DOMAIN Tail(gui.todo) = 1..(Len(gui.todo) - 1)
          /\ \A i \in 1..(Len(gui.todo) - 1) : Tail(gui.todo)[i] = gui.todo[i + 1]
      BY <1>2, HeadTailProperties, LenProperties
    <3>2. \A i \in DOMAIN gui'.todo : gui'.todo[i] # "abort"
      BY <1>6, <3>1 DEF SafeInv, TodoInv
    <3>3. 1 \in DOMAIN gui'.todo /\ gui'.todo[1] = "drain"
      BY <1>6, <2>2, <3>1
    <3> QED
      BY <3>2, <3>3 DEF TodoInv
  <2>4. TasksInv'
    <3>1. Distinct(emu'.queue) /\ \A t : ~In(t, emu'.queue) /\ ~In(t, gui.old)
      BY <2>2, InEmpty
    <3>2. \A t : Pending(t)' <=> Pending(t)
      BY <2>2 DEF Pending
    <3> QED
      BY <1>1, <1>5, <2>2, <3>1, <3>2 DEF SafeInv, TasksInv, SameTask
  <2>5. TypeOK' /\ WhereInv'
    BY <1>1, <1>4, <1>5, <1>6, <1>a, <2>2, StillThere DEF SameTask
  <2> QED
    BY <2>3, <2>4, <2>5, <1>7 DEF SafeInv
<1>9. CASE step # "abort"
  <2>1. TodoInv'
    <3>1. step # "drain" /\ gui'.old = gui.old
      BY <1>2, <1>6, <1>9 DEF Unlocked
    <3> QED
      BY <3>1, <1>2, <1>6, <1>9, TodoDone DEF SafeInv, step
  <2>2. CASE step \notin Kinds
    <3>1. emu'.queue = emu.queue /\ gui'.old = gui.old /\ tasks' = tasks
      BY <1>1, <1>3, <1>4, <1>6, <1>9, <2>2 DEF LockedStep
    <3>2. TasksInv'
      BY <3>1, <1>1, <1>5, StillAccounted DEF SameTask
    <3>3. TypeOK' /\ WhereInv'
      BY <1>1, <1>4, <1>5, <1>6, <1>a, <3>1, StillThere DEF SameTask
    <3> QED
      BY <2>1, <3>2, <3>3, <1>7 DEF SafeInv
  <2>3. CASE step \in Kinds
    <3> DEFINE n == Len(tasks) + 1
    <3>1. /\ emu'.queue = Append(emu.queue, n) /\ gui'.old = gui.old
          /\ tasks' = Append(tasks, Task(step))
      BY <1>1, <1>3, <1>4, <1>6, <1>9, <2>3 DEF LockedStep
    <3>2. Task(step) \in TaskType
      BY <2>3 DEF Task, TaskType
    <3>3. /\ DOMAIN tasks = 1..Len(tasks) /\ Len(tasks) \in Nat
          /\ tasks' \in Seq(TaskType) /\ DOMAIN tasks' = 1..n
          /\ \A t \in 1..Len(tasks) : tasks'[t] = tasks[t]
          /\ tasks'[n] = Task(step)
      <4>1. DOMAIN tasks = 1..Len(tasks) /\ Len(tasks) \in Nat
        BY <1>a, LenProperties
      <4>2. /\ Append(tasks, Task(step)) \in Seq(TaskType)
            /\ Len(Append(tasks, Task(step))) = Len(tasks) + 1
            /\ \A t \in 1..Len(tasks) : Append(tasks, Task(step))[t] = tasks[t]
            /\ Append(tasks, Task(step))[Len(tasks) + 1] = Task(step)
        BY <1>a, <3>2, AppendProperties
      <4> QED
        BY <4>1, <4>2, <3>1, LenProperties
    <3>4. n \in Nat /\ n \notin DOMAIN tasks /\ n # 0 /\ emu.queue \in Seq(Nat)
      BY <3>3, <1>a DEF EmuType
    <3> HIDE DEF n
    <3>5. ~In(n, emu.queue) /\ ~In(n, gui.old) /\ ~In(n, TasksOf(idle)) /\ n # core.task
      <4>1. ~Pending(n)
        BY <3>4 DEF Pending
      <4> QED
        BY <4>1, <3>4 DEF SafeInv, TasksInv
    <3>6. /\ \A t : In(t, emu'.queue) <=> In(t, emu.queue) \/ t = n
          /\ Distinct(emu'.queue)
      BY <3>1, <3>4, <3>5, InAppend DEF SafeInv, TasksInv
    <3>7. tasks'[n].calls = 0 /\ ~tasks'[n].ran
      BY <3>3 DEF Task
    <3>8. \A t : Pending(t)' <=> Pending(t) \/ t = n
      BY <3>3, <3>4, <3>7 DEF Pending, n
    <3>9. \A t : In(t, emu.queue) \/ In(t, gui.old) \/ In(t, TasksOf(idle)) => t \in DOMAIN tasks
      BY DEF SafeInv, TasksInv, Pending
    <3>10. \A t \in DOMAIN tasks : tasks'[t] = tasks[t] /\ t # n
      BY <3>3, <3>4
    <3>11. TasksInv'
      <4>1. \A t : Pending(t)' <=> \/ In(t, emu'.queue) \/ In(t, gui'.old) \/ In(t, TasksOf(idle'))
                                   \/ t = core'.task /\ t # 0
        BY <1>1, <1>5, <3>1, <3>6, <3>8 DEF SafeInv, TasksInv, SameTask
      <4>2. \A t : /\ ~(In(t, emu'.queue) /\ In(t, gui'.old))
                   /\ ~(In(t, emu'.queue) /\ In(t, TasksOf(idle')))
                   /\ ~(In(t, gui'.old) /\ In(t, TasksOf(idle')))
        BY <1>1, <3>1, <3>5, <3>6 DEF SafeInv, TasksInv
      <4>3. core'.task # 0 => /\ ~In(core'.task, emu'.queue) /\ ~In(core'.task, gui'.old)
                              /\ ~In(core'.task, TasksOf(idle')) /\ tasks'[core'.task].ran
        BY <1>1, <1>5, <3>1, <3>5, <3>6, <3>10 DEF SafeInv, TasksInv, WhereInv, SameTask
      <4>4. \A t : In(t, emu'.queue) \/ In(t, gui'.old) => ~tasks'[t].ran
        BY <3>1, <3>6, <3>7, <3>9, <3>10 DEF SafeInv, TasksInv
      <4>5. \A i \in DOMAIN idle' : idle'[i].cancelled <=> ~tasks'[idle'[i].task].ran
        <5> SUFFICES ASSUME NEW i \in DOMAIN idle
                     PROVE  idle[i].cancelled <=> ~tasks'[idle[i].task].ran
          BY <1>1
        <5>1. In(idle[i].task, TasksOf(idle))
          BY DEF In, TasksOf
        <5> QED
          BY <5>1, <3>9, <3>10 DEF SafeInv, TasksInv
      <4>6. \A t \in DOMAIN tasks' : /\ tasks'[t].calls \in {0, 1}
                                     /\ tasks'[t].calls = 1 => (tasks'[t].cancelled <=> ~tasks'[t].ran)
        <5> SUFFICES ASSUME NEW t \in DOMAIN tasks'
                     PROVE  /\ tasks'[t].calls \in {0, 1}
                            /\ tasks'[t].calls = 1 => (tasks'[t].cancelled <=> ~tasks'[t].ran)
          OBVIOUS
        <5>1. CASE t = n
          BY <5>1, <3>7
        <5>2. CASE t # n
          <6>1. t \in DOMAIN tasks
            BY <5>2, <3>3 DEF n
          <6> QED
            BY <6>1, <3>10 DEF SafeInv, TasksInv
        <5> QED
          BY <5>1, <5>2
      <4> QED
        BY <1>1, <3>1, <3>6, <4>1, <4>2, <4>3, <4>4, <4>5, <4>6 DEF SafeInv, TasksInv
    <3>12. TypeOK' /\ WhereInv'
      <4>1. DOMAIN tasks \subseteq DOMAIN tasks'
        BY <3>3 DEF n
      <4> QED
        BY <4>1, <1>1, <1>4, <1>5, <1>6, <1>a, <3>3, StillThere DEF SameTask
    <3> QED
      BY <2>1, <3>11, <3>12, <1>7 DEF SafeInv
  <2> QED
    BY <2>2, <2>3
<1> QED
  BY <1>8, <1>9

\* The rest of cancel_tasks(), and what needs no lock.
LEMMA RestSteps ==
  SafeInv /\ (GuiDrained \/ GuiAwaits \/ GuiSettles \/ GuiUnlocked) => SafeInv'
<1> SUFFICES ASSUME SafeInv, GuiDrained \/ GuiAwaits \/ GuiSettles \/ GuiUnlocked PROVE SafeInv'
  OBVIOUS
<1>a. /\ emu \in EmuType /\ core \in CoreType /\ gui \in GuiType
      /\ tasks \in Seq(TaskType) /\ idle \in Seq(IdleType)
  BY DEF SafeInv, TypeOK
<1>b. ASSUME gui.todo # <<>> PROVE Done(gui) \in GuiType /\ Done(gui).todo = Tail(gui.todo)
                                   /\ Done(gui).old = gui.old /\ Done(gui).wants = gui.wants
  <2>1. gui.todo \in Seq(GuiSteps) /\ Tail(gui.todo) \in Seq(GuiSteps)
    BY <1>a, <1>b, HeadTailProperties DEF GuiType
  <2> QED
    BY <1>a, <2>1 DEF Done, GuiType
<1>c. ASSUME gui.todo # <<>>, Head(gui.todo) \in Unlocked PROVE ~gui.wants
  BY <1>c DEF SafeInv, WantsInv
<1>1. CASE GuiDrained
  <2>1. /\ gui.todo # <<>> /\ Head(gui.todo) = "drain" /\ gui.old = <<>>
        /\ gui' = Done(gui) /\ UNCHANGED <<emu, core, tasks, idle>>
    BY <1>1 DEF GuiDrained, Now
  <2>2. TodoInv'
    BY <2>1, <1>b, TodoDone DEF SafeInv
  <2>3. TypeOK' /\ WhereInv'
    BY <2>1, <1>a, <1>b, StillThere
  <2>4. TasksInv'
    BY <2>1, <1>b, StillAccounted
  <2>5. WantsInv'
    BY <2>1, <1>b, <1>c DEF WantsInv, Unlocked
  <2> QED
    BY <2>2, <2>3, <2>4, <2>5 DEF SafeInv
<1>2. CASE GuiAwaits
  <2>1. gui' = [gui EXCEPT !.waits = TRUE] /\ UNCHANGED <<emu, core, tasks, idle>>
    BY <1>2 DEF GuiAwaits
  <2>2. /\ gui' \in GuiType /\ gui'.todo = gui.todo /\ gui'.old = gui.old
        /\ gui'.wants = gui.wants
    BY <2>1, <1>a DEF GuiType
  <2>3. TypeOK' /\ WhereInv'
    BY <2>1, <2>2, <1>a, StillThere
  <2>4. TasksInv'
    BY <2>1, <2>2, StillAccounted
  <2> QED
    BY <2>2, <2>3, <2>4 DEF SafeInv, TodoInv, WantsInv
<1>3. CASE GuiSettles
  <2>1. /\ gui.todo # <<>> /\ Head(gui.todo) = "settle"
        /\ emu' = [emu EXCEPT !.abort = FALSE] /\ core' = [core EXCEPT !.parked = FALSE]
        /\ gui' = Done(gui) /\ UNCHANGED <<tasks, idle>>
    BY <1>3 DEF GuiSettles, Now, Resumed
  <2>2. emu' \in EmuType /\ emu'.busy = emu.busy /\ emu'.queue = emu.queue
    BY <2>1, <1>a DEF EmuType
  <2>3. SameTask(core, core') /\ core'.at = core.at
    BY <2>1, <1>a, CoreExcept
  <2>4. TodoInv'
    BY <2>1, <1>b, TodoDone DEF SafeInv
  <2>5. TypeOK' /\ WhereInv'
    BY <2>1, <2>2, <2>3, <1>a, <1>b, StillThere DEF SameTask
  <2>6. TasksInv'
    BY <2>1, <2>2, <2>3, <1>b, StillAccounted DEF SameTask
  <2>7. WantsInv'
    BY <2>1, <1>b, <1>c DEF WantsInv, Unlocked
  <2> QED
    BY <2>4, <2>5, <2>6, <2>7 DEF SafeInv
<1>4. CASE GuiUnlocked
  <2> DEFINE thread == emu.thread \/ Now("thread")
             limit == IF Now("limit") THEN ~emu.limit ELSE emu.limit
  <2>1. /\ gui.todo # <<>> /\ Head(gui.todo) \in {"thread", "limit", "dialog", "join"}
        /\ emu' = [emu EXCEPT !.thread = thread, !.limit = limit]
        /\ gui' = Done(gui) /\ UNCHANGED <<core, tasks, idle>>
    BY <1>4 DEF GuiUnlocked
  <2>2. thread \in BOOLEAN /\ limit \in BOOLEAN
    <3>1. thread \in BOOLEAN
      OBVIOUS
    <3>2. (~emu.limit) \in BOOLEAN /\ emu.limit \in BOOLEAN
      BY <1>a DEF EmuType
    <3> QED
      BY <3>1, <3>2
  <2> HIDE DEF thread, limit
  <2>3. emu' \in EmuType /\ emu'.busy = emu.busy /\ emu'.queue = emu.queue
    BY <2>1, <2>2, <1>a DEF EmuType
  <2>4. TodoInv'
    BY <2>1, <1>b, TodoDone DEF SafeInv
  <2>5. TypeOK' /\ WhereInv'
    BY <2>1, <2>3, <1>a, <1>b, StillThere
  <2>6. TasksInv'
    BY <2>1, <2>3, <1>b, StillAccounted
  <2>7. WantsInv'
    BY <2>1, <1>b, <1>c DEF WantsInv, Unlocked
  <2> QED
    BY <2>4, <2>5, <2>6, <2>7 DEF SafeInv
<1> QED
  BY <1>1, <1>2, <1>3, <1>4

\* cancel_tasks() calls the tasks of the old queue back as cancelled.
LEMMA DrainsSteps == SafeInv /\ GuiDrains => SafeInv'
<1> SUFFICES ASSUME SafeInv, GuiDrains PROVE SafeInv'
  OBVIOUS
<1>a. /\ emu \in EmuType /\ core \in CoreType /\ gui \in GuiType
      /\ tasks \in Seq(TaskType) /\ idle \in Seq(IdleType)
  BY DEF SafeInv, TypeOK
<1> DEFINE t == Head(gui.old)
           c == Drained(t)
           g == [gui EXCEPT !.old = Tail(gui.old)]
<1>1. /\ gui.todo # <<>> /\ Head(gui.todo) = "drain" /\ gui.old # <<>> /\ Finished(c, g)
      /\ UNCHANGED <<emu, core, idle>>
  BY DEF GuiDrains, Now
<1>2. gui.old \in Seq(Nat) /\ t \in Nat /\ Tail(gui.old) \in Seq(Nat)
  BY <1>1, <1>a, HeadTailProperties DEF GuiType
<1>3. /\ In(t, gui.old) /\ ~In(t, Tail(gui.old)) /\ Distinct(Tail(gui.old))
      /\ \A u : In(u, gui.old) <=> u = t \/ In(u, Tail(gui.old))
  BY <1>1, <1>2, InTail DEF SafeInv, TasksInv
<1>4. c \in IdleType /\ c.task = t /\ c.cancelled = TRUE
  BY <1>2 DEF Drained, Callback, IdleType
<1>5. g \in GuiType /\ g.old = Tail(gui.old) /\ g.wants = gui.wants /\ g.todo = gui.todo
  BY <1>2, <1>a DEF GuiType
<1>6. ~tasks[t].ran
  BY <1>3 DEF SafeInv, TasksInv
<1> HIDE DEF t, c, g
<1>7. /\ tasks' \in Seq(TaskType) /\ DOMAIN tasks' = DOMAIN tasks
      /\ gui' \in GuiType /\ gui'.old = Tail(gui.old) /\ gui'.wants = gui.wants
      /\ gui'.todo \in {gui.todo, <<"macro">> \o gui.todo}
      /\ t \in DOMAIN tasks /\ t # core.task
      /\ \A u : Pending(u)' <=> Pending(u) /\ u # t
      /\ \A u \in DOMAIN tasks : /\ tasks'[u].ran = tasks[u].ran
                                 /\ tasks'[u].calls \in {0, 1}
                                 /\ tasks'[u].calls = 1
                                       => (tasks'[u].cancelled <=> ~tasks'[u].ran)
  BY <1>1, <1>3, <1>4, <1>5, <1>6, CalledBack
<1>8. TasksInv'
  <2>1. \A u : In(u, emu.queue) => u # t
    BY <1>3 DEF SafeInv, TasksInv
  <2>2. \A u : In(u, TasksOf(idle)) => u # t
    BY <1>3 DEF SafeInv, TasksInv
  <2>3. \A u : In(u, emu.queue) \/ In(u, gui.old) \/ In(u, TasksOf(idle)) => u \in DOMAIN tasks
    BY DEF SafeInv, TasksInv, Pending
  <2>4. \A u : Pending(u)' <=> \/ In(u, emu'.queue) \/ In(u, gui'.old) \/ In(u, TasksOf(idle'))
                               \/ u = core'.task /\ u # 0
    BY <1>1, <1>3, <1>7, <2>1, <2>2 DEF SafeInv, TasksInv
  <2>5. \A u : In(u, emu'.queue) \/ In(u, gui'.old) => ~tasks'[u].ran
    BY <1>1, <1>3, <1>7, <2>3 DEF SafeInv, TasksInv
  <2>6. \A i \in DOMAIN idle' : idle'[i].cancelled <=> ~tasks'[idle'[i].task].ran
    <3> SUFFICES ASSUME NEW i \in DOMAIN idle
                 PROVE  idle[i].cancelled <=> ~tasks'[idle[i].task].ran
      BY <1>1
    <3>1. In(idle[i].task, TasksOf(idle))
      BY DEF In, TasksOf
    <3> QED
      BY <3>1, <2>3, <1>7 DEF SafeInv, TasksInv
  <2>7. core'.task # 0 => /\ ~In(core'.task, emu'.queue) /\ ~In(core'.task, gui'.old)
                          /\ ~In(core'.task, TasksOf(idle')) /\ tasks'[core'.task].ran
    BY <1>1, <1>3, <1>7 DEF SafeInv, TasksInv, WhereInv
  <2>8. \A u : /\ ~(In(u, emu'.queue) /\ In(u, gui'.old))
               /\ ~(In(u, emu'.queue) /\ In(u, TasksOf(idle')))
               /\ ~(In(u, gui'.old) /\ In(u, TasksOf(idle')))
    BY <1>1, <1>3, <1>7 DEF SafeInv, TasksInv
  <2> QED
    BY <1>1, <1>3, <1>7, <2>4, <2>5, <2>6, <2>7, <2>8 DEF SafeInv, TasksInv
<1>9. TodoInv'
  BY <1>1, <1>7, TodoPushed DEF SafeInv
<1>10. TypeOK' /\ WhereInv'
  BY <1>1, <1>7, <1>a, StillThere
<1>11. WantsInv'
  BY <1>1, <1>7 DEF SafeInv, WantsInv, Unlocked
<1> QED
  BY <1>8, <1>9, <1>10, <1>11 DEF SafeInv

\* The main loop calls the tasks back that have ended, or that a failure has dropped.
LEMMA IdleSteps == SafeInv /\ GuiIdle => SafeInv'
<1> SUFFICES ASSUME SafeInv, GuiIdle PROVE SafeInv'
  OBVIOUS
<1>a. /\ emu \in EmuType /\ core \in CoreType /\ gui \in GuiType
      /\ tasks \in Seq(TaskType) /\ idle \in Seq(IdleType)
  BY DEF SafeInv, TypeOK
<1> DEFINE c == Head(idle)
           t == c.task
<1>1. /\ idle # <<>> /\ (gui.todo = <<>> \/ Head(gui.todo) = "dialog") /\ Finished(c, gui)
      /\ UNCHANGED <<emu, core>> /\ idle' = Tail(idle)
  BY DEF GuiIdle, Now
<1>2. /\ Tail(idle) \in Seq(IdleType) /\ Len(Tail(idle)) = Len(idle) - 1
      /\ DOMAIN idle = 1..Len(idle) /\ Len(idle) \in Nat \ {0}
      /\ DOMAIN Tail(idle) = 1..(Len(idle) - 1)
      /\ \A i \in 1..(Len(idle) - 1) : Tail(idle)[i] = idle[i + 1]
      /\ c = idle[1] /\ c \in IdleType
  BY <1>1, <1>a, HeadTailProperties, LenProperties, EmptySeq
<1> DEFINE back == TasksOf(idle)
<1>3. /\ back \in Seq(Nat) /\ back # <<>> /\ Head(back) = t /\ TasksOf(Tail(idle)) = Tail(back)
  <2>1. back \in Seq(Nat) /\ DOMAIN back = DOMAIN idle
    BY <1>a, TasksOfType
  <2>2. Len(back) = Len(idle) /\ back # <<>>
    BY <2>1, <1>2, LenProperties, EmptySeq
  <2>3. Head(back) = t
    <3>1. back[1] = t
      BY <1>2 DEF TasksOf
    <3> HIDE DEF back
    <3> QED
      BY <2>1, <2>2, <3>1
  <2>4. TasksOf(Tail(idle)) = Tail(back)
    <3>1. TasksOf(Tail(idle)) \in Seq(Nat) /\ DOMAIN TasksOf(Tail(idle)) = DOMAIN Tail(idle)
      BY <1>2, TasksOfType
    <3>2. \A i \in 1..(Len(idle) - 1) : TasksOf(Tail(idle))[i] = back[i + 1]
      BY <1>2 DEF TasksOf
    <3> DEFINE left == TasksOf(Tail(idle))
    <3>3. left \in Seq(Nat) /\ Len(left) = Len(idle) - 1
      <4>1. left \in Seq(Nat) /\ DOMAIN left = 1..(Len(idle) - 1)
        BY <3>1, <1>2
      <4> HIDE DEF left
      <4>2. DOMAIN left = 1..Len(left) /\ Len(left) \in Nat
        BY <4>1, LenProperties
      <4>3. Len(idle) - 1 \in Nat
        BY <1>2
      <4> QED
        BY <4>1, <4>2, <4>3
    <3> HIDE DEF left, back
    <3>4. /\ Tail(back) \in Seq(Nat) /\ Len(Tail(back)) = Len(idle) - 1
          /\ \A i \in 1..(Len(idle) - 1) : Tail(back)[i] = back[i + 1]
      BY <2>1, <2>2, HeadTailProperties
    <3>5. left = Tail(back)
      BY <3>2, <3>3, <3>4, SeqEqual DEF left
    <3> QED
      BY <3>5 DEF left
  <2> QED
    BY <2>1, <2>2, <2>3, <2>4
<1>4. /\ In(t, back) /\ ~In(t, Tail(back)) /\ Distinct(Tail(back))
      /\ \A u : In(u, back) <=> u = t \/ In(u, Tail(back))
  <2>1. Distinct(back)
    BY DEF SafeInv, TasksInv
  <2> HIDE DEF back, t
  <2> QED
    BY <2>1, <1>3, InTail
<1>5. c.cancelled <=> ~tasks[t].ran
  BY <1>2 DEF SafeInv, TasksInv
<1>6. /\ tasks' \in Seq(TaskType) /\ DOMAIN tasks' = DOMAIN tasks
      /\ gui' \in GuiType /\ gui'.old = gui.old /\ gui'.wants = gui.wants
      /\ gui'.todo \in {gui.todo, <<"macro">> \o gui.todo}
      /\ t \in DOMAIN tasks /\ t # core.task
      /\ \A u : Pending(u)' <=> Pending(u) /\ u # t
      /\ \A u \in DOMAIN tasks : /\ tasks'[u].ran = tasks[u].ran
                                 /\ tasks'[u].calls \in {0, 1}
                                 /\ tasks'[u].calls = 1
                                       => (tasks'[u].cancelled <=> ~tasks'[u].ran)
  <2> HIDE DEF c
  <2> QED
    BY <1>1, <1>2, <1>4, <1>5, <1>a, CalledBack DEF back
<1>7. TasksInv'
  <2> HIDE DEF t, c
  <2>1. TasksOf(idle') = Tail(back)
    BY <1>1, <1>3
  <2>2. \A u : In(u, emu.queue) \/ In(u, gui.old) => u # t
    BY <1>4 DEF SafeInv, TasksInv
  <2>3. \A u : In(u, emu.queue) \/ In(u, gui.old) \/ In(u, back) => u \in DOMAIN tasks
    BY DEF SafeInv, TasksInv, Pending
  <2> HIDE DEF back
  <2>4. \A u : Pending(u)' <=> \/ In(u, emu'.queue) \/ In(u, gui'.old) \/ In(u, TasksOf(idle'))
                               \/ u = core'.task /\ u # 0
    <3>1. \A u : Pending(u) <=> \/ In(u, emu.queue) \/ In(u, gui.old) \/ In(u, back)
                                \/ u = core.task /\ u # 0
      BY DEF SafeInv, TasksInv, back
    <3> QED
      BY <3>1, <1>1, <1>4, <1>6, <2>1, <2>2
  <2>5. \A u : In(u, emu'.queue) \/ In(u, gui'.old) => ~tasks'[u].ran
    BY <1>1, <1>6, <2>3 DEF SafeInv, TasksInv
  <2>6. \A i \in DOMAIN idle' : idle'[i].cancelled <=> ~tasks'[idle'[i].task].ran
    <3> SUFFICES ASSUME NEW i \in DOMAIN idle'
                 PROVE  idle'[i].cancelled <=> ~tasks'[idle'[i].task].ran
      OBVIOUS
    <3>1. i + 1 \in DOMAIN idle /\ idle'[i] = idle[i + 1]
      BY <1>1, <1>2
    <3>2. In(idle[i + 1].task, back)
      BY <3>1 DEF In, TasksOf, back
    <3> QED
      BY <3>1, <3>2, <2>3, <1>6 DEF SafeInv, TasksInv
  <2>7. core'.task # 0 => /\ ~In(core'.task, emu'.queue) /\ ~In(core'.task, gui'.old)
                          /\ ~In(core'.task, TasksOf(idle')) /\ tasks'[core'.task].ran
    BY <1>1, <1>4, <1>6, <2>1 DEF SafeInv, TasksInv, WhereInv, back
  <2>8. \A u : /\ ~(In(u, emu'.queue) /\ In(u, gui'.old))
               /\ ~(In(u, emu'.queue) /\ In(u, TasksOf(idle')))
               /\ ~(In(u, gui'.old) /\ In(u, TasksOf(idle')))
    BY <1>1, <1>4, <1>6, <2>1 DEF SafeInv, TasksInv, back
  <2> QED
    BY <1>1, <1>4, <1>6, <2>1, <2>4, <2>5, <2>6, <2>7, <2>8 DEF SafeInv, TasksInv
<1>8. TodoInv'
  BY <1>1, <1>6, TodoPushed DEF SafeInv
<1>9. TypeOK' /\ WhereInv'
  BY <1>1, <1>2, <1>6, <1>a, StillThere
<1>10. WantsInv'
  BY <1>1, <1>6, <1>a DEF SafeInv, WantsInv, Unlocked, GuiType
<1> QED
  BY <1>7, <1>8, <1>9, <1>10 DEF SafeInv

LEMMA InitSafe == Init => SafeInv
<1> SUFFICES ASSUME Init PROVE SafeInv
  OBVIOUS
<1>1. TypeOK
  <2>1. emu \in EmuType
    <3>1. "none" \in Cables /\ <<>> \in Seq(Nat)
      BY DEF Cables
    <3> QED
      BY <3>1 DEF Init, EmuType
  <2>2. core \in CoreType
    BY DEF Init, CoreType, InEmRun, InMain, InTask, Callers, Cables
  <2>3. gui \in GuiType
    <3>1. PICK ops \in Scenarios :
             gui = [ops |-> ops, todo |-> <<>>, wants |-> FALSE, waits |-> FALSE,
                    old |-> <<>>, list |-> 0, changes |-> 0]
      BY DEF Init
    <3>2. ops \in SUBSET Operations
      BY ScenariosAssumption
    <3> QED
      BY <3>1, <3>2 DEF GuiType
  <2>4. tasks \in Seq(TaskType) /\ idle \in Seq(IdleType)
    BY DEF Init
  <2> QED
    BY <2>1, <2>2, <2>3, <2>4 DEF TypeOK
<1>2. /\ emu.queue = <<>> /\ emu.busy = FALSE /\ core.at = "start" /\ core.task = 0
      /\ core.calc = 0 /\ gui.todo = <<>> /\ gui.old = <<>> /\ gui.wants = FALSE
      /\ tasks = <<>> /\ idle = <<>>
  BY DEF Init
<1>3. WhereInv
  BY <1>2 DEF WhereInv, InTask, InEmRun
<1>4. WantsInv /\ TodoInv
  BY <1>2 DEF WantsInv, TodoInv
<1>5. TasksInv
  <2>1. DOMAIN TasksOf(idle) = DOMAIN idle
    BY <1>1, TasksOfType DEF TypeOK
  <2>2. DOMAIN tasks = {} /\ DOMAIN idle = {}
    BY <1>2
  <2>3. Distinct(TasksOf(idle)) /\ \A t : ~In(t, TasksOf(idle))
    BY <2>1, <2>2 DEF Distinct, In
  <2>4. \A t : ~Pending(t)
    BY <2>2 DEF Pending
  <2> QED
    BY <1>2, <2>2, <2>3, <2>4, InEmpty DEF TasksInv
<1> QED
  BY <1>1, <1>3, <1>4, <1>5 DEF SafeInv

LEMMA NextSafe == SafeInv /\ [Next]_vars => SafeInv'
<1> SUFFICES ASSUME SafeInv, [Next]_vars PROVE SafeInv'
  OBVIOUS
<1>1. CASE EmRun \/ Tasks
  BY <1>1, CoreSteps
<1>2. CASE Main
  BY <1>2, MainSteps
<1>3. CASE GuiStarts \/ GuiWants \/ Freed
  BY <1>3, BeginSteps
<1>4. CASE GuiEnters
  BY <1>4, EntersSteps
<1>5. CASE GuiDrained \/ GuiAwaits \/ GuiSettles \/ GuiUnlocked
  BY <1>5, RestSteps
<1>6. CASE GuiDrains
  BY <1>6, DrainsSteps
<1>7. CASE GuiIdle
  BY <1>7, IdleSteps
<1>8. CASE UNCHANGED vars
  BY <1>8 DEF vars, SafeInv, TypeOK, WhereInv, WantsInv, TasksInv, TodoInv, Pending
<1> QED
  BY <1>1, <1>2, <1>3, <1>4, <1>5, <1>6, <1>7, <1>8 DEF Next, CoreNext, GuiGoesOn

LEMMA SafeInvariant == Spec => []SafeInv
BY InitSafe, NextSafe, PTL DEF Spec
-----------------------------------------------------------------------------
(* The core's locals, the GUI's operation, the tasks and the callbacks     *)
(* stay what the code declares them to be: in particular, a task number    *)
(* always denotes a task that was begun.                                   *)
THEOREM TypeCorrect == Spec => []TypeOK
<1>1. SafeInv => TypeOK
  BY DEF SafeInv
<1> QED
  BY <1>1, SafeInvariant, PTL

\* In a list without repetitions a task has one place or none.
LEMMA OnePlace ==
  ASSUME NEW s, Distinct(s), NEW t
  PROVE  Cardinality({i \in DOMAIN s : s[i] = t}) = IF In(t, s) THEN 1 ELSE 0
<1>1. CASE In(t, s)
  <2>1. PICK i \in DOMAIN s : s[i] = t
    BY <1>1 DEF In
  <2>2. {j \in DOMAIN s : s[j] = t} = {i}
    BY <2>1 DEF Distinct
  <2> QED
    BY <1>1, <2>2, FS_Singleton
<1>2. CASE ~In(t, s)
  <2>1. {j \in DOMAIN s : s[j] = t} = {}
    BY <1>2 DEF In
  <2> QED
    BY <1>2, <2>1, FS_EmptySet
<1> QED
  BY <1>1, <1>2

LEMMA SafeAccounts == SafeInv => TasksAccounted
<1> SUFFICES ASSUME SafeInv PROVE TasksAccounted
  OBVIOUS
<1>1. emu.busy <=> core.task # 0
  BY DEF SafeInv, WhereInv
<1>2. ASSUME NEW t \in DOMAIN tasks
      PROVE  /\ Places(t) + tasks[t].calls = 1
             /\ tasks[t].calls = 1 => tasks[t].cancelled = ~tasks[t].ran
  <2>1. t # 0 /\ tasks[t] \in TaskType
    BY LenProperties, ElementOfSeq DEF SafeInv, TypeOK
  <2>2. /\ tasks[t].calls \in {0, 1}
        /\ tasks[t].calls = 1 => (tasks[t].cancelled <=> ~tasks[t].ran)
    BY DEF SafeInv, TasksInv
  <2>3. tasks[t].cancelled \in BOOLEAN /\ tasks[t].ran \in BOOLEAN
    BY <2>1 DEF TaskType
  <2>4. tasks[t].calls = 1 => tasks[t].cancelled = ~tasks[t].ran
    BY <2>2, <2>3
  <2> DEFINE queued == IF In(t, emu.queue) THEN 1 ELSE 0
             taken == IF In(t, gui.old) THEN 1 ELSE 0
             called == IF In(t, TasksOf(idle)) THEN 1 ELSE 0
             runs == IF core.task = t THEN 1 ELSE 0
  <2>5. Places(t) = queued + taken + called + runs
    <3>1. Cardinality({i \in DOMAIN emu.queue : emu.queue[i] = t}) = queued
      BY OnePlace DEF SafeInv, TasksInv
    <3>2. Cardinality({i \in DOMAIN gui.old : gui.old[i] = t}) = taken
      BY OnePlace DEF SafeInv, TasksInv
    <3>3. Cardinality({i \in DOMAIN idle : idle[i].task = t}) = called
      <4>1. {i \in DOMAIN idle : idle[i].task = t}
              = {i \in DOMAIN TasksOf(idle) : TasksOf(idle)[i] = t}
        BY DEF TasksOf
      <4>2. Distinct(TasksOf(idle))
        BY DEF SafeInv, TasksInv
      <4>3. Cardinality({i \in DOMAIN TasksOf(idle) : TasksOf(idle)[i] = t}) = called
        BY <4>2, OnePlace
      <4> QED
        BY <4>1, <4>3
    <3> HIDE DEF queued, taken, called
    <3> QED
      BY <3>1, <3>2, <3>3 DEF Places
  <2>6. Pending(t) <=> tasks[t].calls = 0
    BY DEF Pending
  <2>7. /\ Pending(t) <=> \/ In(t, emu.queue) \/ In(t, gui.old) \/ In(t, TasksOf(idle))
                          \/ t = core.task
        /\ ~(In(t, emu.queue) /\ In(t, gui.old))
        /\ ~(In(t, emu.queue) /\ In(t, TasksOf(idle)))
        /\ ~(In(t, gui.old) /\ In(t, TasksOf(idle)))
        /\ t = core.task => /\ ~In(t, emu.queue) /\ ~In(t, gui.old)
                            /\ ~In(t, TasksOf(idle))
    BY <2>1 DEF SafeInv, TasksInv
  <2>8. queued + taken + called + runs = IF Pending(t) THEN 1 ELSE 0
    BY <2>7
  <2> HIDE DEF queued, taken, called, runs
  <2> QED
    BY <2>2, <2>4, <2>5, <2>6, <2>8
<1> QED
  BY <1>1, <1>2 DEF TasksAccounted

(* A task is in one place until it is called back, is called back once,    *)
(* and as cancelled if and only if it never ran: whatever fails, whoever   *)
(* cancels, and also when a callback begins another task.                  *)
THEOREM NoTaskLost == Spec => []TasksAccounted
BY SafeAccounts, SafeInvariant, PTL
-----------------------------------------------------------------------------
\* The parts of OptionsInv that a step leaves alone.
SameOptions(e, f) ==
    /\ f.stale = e.stale /\ f.options = e.options /\ f.device = e.device
    /\ f.changed = e.changed /\ f.cable = e.cable /\ f.want = e.want

\* A step of the core that is not about to open a device or a cable.
LEMMA OptionsSame ==
  ASSUME OptionsInv, SameOptions(emu, emu'), core'.at \notin {"open", "aopen"}
  PROVE  OptionsInv'
BY DEF OptionsInv, SameOptions

\* The cables and the sound device, with the options that they were given.
LEMMA EmRunOptions == TypeOK /\ OptionsInv /\ EmRun => OptionsInv'
<1> SUFFICES ASSUME TypeOK, OptionsInv, EmRun PROVE OptionsInv'
  OBVIOUS
<1>a. /\ emu \in EmuType /\ core \in CoreType /\ emu.cable \in Cables /\ emu.want \in Cables
      /\ core.ret \in Callers /\ SameOptions(emu, emu)
  BY DEF TypeOK, EmuType, CoreType, SameOptions
<1>b. /\ core.ret \in Labels /\ core.ret \notin {"open", "aopen"}
      /\ {"audio", "go", "feed", "play", "pace", "open", "aopen"} \subseteq Labels
  BY <1>a DEF Callers, Labels, InMain, InTask, InEmRun
<1>c. \A e \in EmuType : SameOptions(e, SetBuffer(e))
  BY DEF SameOptions, SetBuffer, EmuType
<1>d. \A e \in EmuType : /\ AudioClose(e).device = 0 /\ AudioClose(e).stale = e.stale
                         /\ AudioClose(e).options = e.options
                         /\ AudioClose(e).changed = e.changed
                         /\ AudioClose(e).cable = e.cable /\ AudioClose(e).want = e.want
  BY DEF AudioClose, EmuType
<1>1. CASE CableKept
  <2>1. emu' = emu /\ core' = [core EXCEPT !.at = "audio"]
    BY <1>1 DEF CableKept, Core
  <2> QED
    BY <2>1, <1>a, <1>b, CoreExcept, OptionsSame
<1>2. CASE InitCable
  <2>1. CASE emu.want \in {emu.cable, "none"}
    <3>1. /\ emu' = [emu EXCEPT !.changed = FALSE, !.cable = emu.want]
          /\ core' = [core EXCEPT !.at = "audio"]
      BY <1>2, <2>1 DEF InitCable, Core, At
    <3>2. core'.at = "audio"
      BY <3>1, <1>a, <1>b, CoreExcept
    <3>3. /\ emu'.stale = emu.stale /\ emu'.options = emu.options /\ emu'.device = emu.device
          /\ emu'.changed = FALSE /\ emu'.cable = emu.want /\ emu'.want = emu.want
      BY <3>1, <1>a DEF EmuType
    <3> QED
      BY <3>2, <3>3 DEF OptionsInv
  <2>2. CASE emu.want \notin {emu.cable, "none"}
    <3>1. /\ emu' = [emu EXCEPT !.changed = FALSE, !.cable = "none"]
          /\ core' = [Unlock(emu', core, "open") EXCEPT !.new = emu.want]
      BY <1>2, <2>2 DEF InitCable, Core, At
    <3>2. /\ emu' \in EmuType /\ emu'.changed = FALSE /\ emu'.cable = "none"
          /\ emu'.stale = emu.stale /\ emu'.options = emu.options /\ emu'.device = emu.device
          /\ emu'.want = emu.want
      BY <3>1, <1>a DEF EmuType, Cables
    <3>3. /\ Unlock(emu', core, "open") \in CoreType /\ Unlock(emu', core, "open").at = "open"
      BY <3>2, <1>a, <1>b, UnlockTask DEF SameTask
    <3>4. core'.at = "open" /\ core'.new = emu.want
      BY <3>1, <3>3 DEF CoreType
    <3> QED
      BY <3>2, <3>4 DEF OptionsInv
  <2> QED
    BY <2>1, <2>2
<1>3. CASE CableOpened
  <2>1. PICK cable \in {core.new, "none"} :
           /\ emu' = [emu EXCEPT !.cable = cable]
           /\ core' = [core EXCEPT !.at = "audio", !.new = "none"]
           /\ core.at = "open"
    BY <1>3 DEF CableOpened, WithCable, Core, At
  <2>2. core'.at = "audio"
    BY <2>1, <1>a DEF CoreType
  <2>3. /\ emu'.stale = emu.stale /\ emu'.options = emu.options /\ emu'.device = emu.device
        /\ emu'.changed = emu.changed /\ emu'.cable = cable /\ emu'.want = emu.want
    BY <2>1, <1>a DEF EmuType
  <2> QED
    BY <2>1, <2>2, <2>3 DEF OptionsInv
<1>4. CASE AudioStops \/ RunNaps
  <2>1. emu' = AudioClose(emu)
    BY <1>4 DEF AudioStops, RunNaps, Core
  <2>2. core'.at \notin {"open", "aopen"}
    <3>1. CASE AudioStops
      BY <3>1, <1>a, <1>b, CoreExcept DEF AudioStops, Core
    <3>2. CASE RunNaps
      <4>1. core' = [core EXCEPT !.at = core.ret, !.parked = TRUE, !.elapsed = ~emu.paused]
        BY <3>2 DEF RunNaps, Core, Return
      <4>2. core'.at = core.ret
        BY <4>1, <1>a DEF CoreType
      <4> QED
        BY <4>2, <1>b
    <3> QED
      BY <1>4, <3>1, <3>2
  <2>3. emu'.cable = emu.cable /\ emu'.want = emu.want /\ emu'.changed = emu.changed
        /\ emu'.device = 0
    BY <2>1, <1>a, <1>d
  <2> QED
    BY <2>2, <2>3 DEF OptionsInv
<1>5. CASE AudioOpens
  <2>1. /\ emu' = [AudioClose(emu) EXCEPT !.stale = FALSE]
        /\ core' = [Unlock(emu', core, "aopen") EXCEPT !.opened = emu'.options]
    BY <1>5 DEF AudioOpens, Core
  <2>2. AudioClose(emu) \in EmuType
    BY <1>a, AudioCloseWork DEF SameWork
  <2>3. /\ emu' \in EmuType /\ emu'.device = 0 /\ emu'.changed = emu.changed
        /\ emu'.cable = emu.cable /\ emu'.want = emu.want
    BY <2>1, <2>2, <1>a, <1>d DEF EmuType
  <2>4. Unlock(emu', core, "aopen") \in CoreType /\ Unlock(emu', core, "aopen").at = "aopen"
    BY <2>3, <1>a, <1>b, UnlockTask DEF SameTask
  <2>5. core'.at = "aopen" /\ core'.opened = emu'.options
    BY <2>1, <2>4 DEF CoreType
  <2> QED
    BY <2>3, <2>5 DEF OptionsInv
<1>6. CASE AudioFailed
  <2>1. /\ emu' = [emu EXCEPT !.error = TRUE]
        /\ core' = [core EXCEPT !.at = "go", !.opened = 0]
    BY <1>6 DEF AudioFailed, Core
  <2>2. core'.at = "go" /\ SameOptions(emu, emu')
    BY <2>1, <1>a DEF CoreType, EmuType, SameOptions
  <2> QED
    BY <2>2, OptionsSame
<1>7. CASE AudioOpened
  <2>1. /\ emu' = SetBuffer([emu EXCEPT !.device = core.opened])
        /\ core' = [core EXCEPT !.at = "feed", !.opened = 0] /\ core.at = "aopen"
    BY <1>7 DEF AudioOpened, Core, At
  <2> DEFINE e == [emu EXCEPT !.device = core.opened]
  <2>2. /\ e \in EmuType /\ e.device = core.opened /\ e.stale = emu.stale
        /\ e.options = emu.options /\ e.changed = emu.changed /\ e.cable = emu.cable
        /\ e.want = emu.want
    BY <1>a DEF EmuType, CoreType
  <2> HIDE DEF e
  <2>3. SameOptions(e, emu')
    BY <2>1, <2>2, <1>c DEF e
  <2>4. core'.at = "feed"
    BY <2>1, <1>a DEF CoreType
  <2> QED
    BY <2>1, <2>2, <2>3, <2>4 DEF OptionsInv, SameOptions
<1>8. CASE AudioKept \/ FeedAudio
  <2>1. /\ emu' = emu
        /\ \/ core' = [core EXCEPT !.at = "feed"]
           \/ core' = Unlock(emu, core, "play")
           \/ core' = [core EXCEPT !.at = "go"]
    BY <1>8 DEF AudioKept, FeedAudio, Core
  <2>2. core'.at \in {"feed", "play", "go"}
    <3>1. /\ [core EXCEPT !.at = "feed"].at = "feed" /\ [core EXCEPT !.at = "go"].at = "go"
      BY <1>a, <1>b, CoreExcept
    <3>2. Unlock(emu, core, "play").at = "play"
      BY <1>a, <1>b, UnlockTask
    <3> QED
      BY <2>1, <3>1, <3>2
  <2> QED
    BY <2>1, <2>2, <1>a, OptionsSame
<1>9. CASE AudioPlayed
  <2>1. /\ emu' \in {SetBuffer(emu), [AudioClose(emu) EXCEPT !.error = TRUE]}
        /\ core' = [core EXCEPT !.at = "go"]
    BY <1>9 DEF AudioPlayed, Core
  <2>2. core'.at = "go"
    BY <2>1, <1>a, <1>b, CoreExcept
  <2>3. CASE emu' = SetBuffer(emu)
    BY <2>2, <2>3, <1>a, <1>c, OptionsSame
  <2>4. CASE emu' = [AudioClose(emu) EXCEPT !.error = TRUE]
    <3>1. AudioClose(emu) \in EmuType
      BY <1>a, AudioCloseWork DEF SameWork
    <3>2. /\ emu'.device = 0 /\ emu'.changed = emu.changed
          /\ emu'.cable = emu.cable /\ emu'.want = emu.want
      BY <2>4, <3>1, <1>a, <1>d DEF EmuType
    <3> QED
      BY <2>2, <3>2 DEF OptionsInv
  <2> QED
    BY <2>1, <2>3, <2>4, Zenon
<1>10. CASE RunStopped
  <2>1. emu' = emu /\ core' = [core EXCEPT !.at = core.ret, !.elapsed = FALSE]
    BY <1>10 DEF RunStopped, Core, Return
  <2>2. core'.at = core.ret
    BY <2>1, <1>a DEF CoreType
  <2> QED
    BY <2>1, <2>2, <1>a, <1>b, OptionsSame
<1>11. CASE RunTime
  <2>1. PICK break \in Breaks, off \in TurnsOff, filter \in Fills :
           /\ emu' = [emu EXCEPT !.paused = break, !.asleep = off, !.filter = filter]
           /\ \/ core' = [Unlock(emu', core, "pace") EXCEPT !.elapsed = TRUE]
              \/ core' = [Return(core) EXCEPT !.parked = Yields(emu'), !.elapsed = TRUE]
    BY <1>11 DEF RunTime, AfterRun, Core
  <2>2. SameOptions(emu, emu')
    BY <2>1, <1>a DEF EmuType, SameOptions
  <2>3. core'.at \in {"pace", core.ret}
    BY <2>1, <1>a DEF Unlock, Return, CoreType
  <2> QED
    BY <2>2, <2>3, <1>b, OptionsSame
<1>12. CASE PaceEnds
  <2>1. PICK cable \in {emu.cable, "none"} :
           emu' = [emu EXCEPT !.cable = cable] /\ core' = [core EXCEPT !.at = core.ret]
    BY <1>12 DEF PaceEnds, CablesAfter, Core, Return
  <2>2. core'.at = core.ret
    BY <2>1, <1>a, <1>b, CoreExcept
  <2>3. /\ emu'.stale = emu.stale /\ emu'.options = emu.options /\ emu'.device = emu.device
        /\ emu'.changed = emu.changed /\ emu'.cable = cable /\ emu'.want = emu.want
    BY <2>1, <1>a DEF EmuType
  <2> QED
    BY <2>1, <2>2, <2>3, <1>b DEF OptionsInv
<1> QED
  BY <1>1, <1>2, <1>3, <1>4, <1>5, <1>6, <1>7, <1>8, <1>9, <1>10, <1>11, <1>12
  DEF EmRun, UpdateAudio

\* Tasks and tilem_em_main() do not open the device or a cable themselves.
LEMMA WorkOptions == SafeInv /\ OptionsInv /\ (Tasks \/ Main) => OptionsInv'
<1> SUFFICES ASSUME SafeInv, OptionsInv, Tasks \/ Main PROVE OptionsInv'
  OBVIOUS
<1>a. /\ emu \in EmuType /\ core \in CoreType /\ TypeOK /\ SameOptions(emu, emu)
  BY DEF SafeInv, TypeOK, SameOptions
<1>b. \A b \in BOOLEAN : SameOptions(emu, [emu EXCEPT !.ilp = b])
  BY <1>a DEF SameOptions, EmuType
<1>c. {"loop", "done", "em"} \subseteq Labels
  BY DEF Labels, InMain, InEmRun
<1>1. CASE Tasks
  <2>1. emu' \in {emu, [emu EXCEPT !.ilp = TRUE], [emu EXCEPT !.ilp = FALSE]}
    BY <1>1 DEF Tasks, SendFile, GetDirlist, ReceiveFiles, Prepare, IlpOpen, IlpCall, IlpClose,
                LinkEnds, ByteWaits, ByteEnds, DirectTask, DirectEnds, LoadMacroTask,
                NothingToPlay, MacroKey, MacroRuns, MacroGoesOn, Core
  <2>2. SameOptions(emu, emu')
    BY <2>1, <1>a, <1>b
  <2>3. core'.at \in InTask \/ core'.at = "em"
    BY <1>1, TasksStep DEF TaskStep, SafeInv
  <2> QED
    BY <2>2, <2>3, OptionsSame DEF InTask
<1>2. CASE MainStarts \/ MainAborts \/ MainRuns
  <2>1. /\ emu' = emu /\ core.at \in {"start", "loop"}
        /\ \/ core' = [core EXCEPT !.at = "loop"]
           \/ core' = [core EXCEPT !.parked = TRUE]
           \/ core' = [core EXCEPT !.at = "em", !.awake = FALSE, !.ff = FALSE, !.ret = "loop"]
    BY <1>2 DEF MainStarts, MainAborts, MainRuns, Core, Call, At
  <2>2. core'.at \in {"start", "loop", "em"}
    BY <2>1, <1>a DEF CoreType
  <2> QED
    BY <2>1, <2>2, <1>a, OptionsSame
<1>3. CASE MainExits
  <2>1. /\ emu' = [emu EXCEPT !.changed = emu.changed \/ emu.cable # "none", !.cable = "none"]
        /\ core' = Unlock(emu', core, "done")
    BY <1>3 DEF MainExits, Core
  <2>2. core'.at = "done"
    BY <2>1, <1>a DEF Unlock, CoreType
  <2>3. /\ emu'.stale = emu.stale /\ emu'.options = emu.options /\ emu'.device = emu.device
        /\ emu'.cable = "none" /\ emu'.want = emu.want
    BY <2>1, <1>a DEF EmuType
  <2> QED
    BY <2>2, <2>3 DEF OptionsInv
<1>4. CASE MainTask
  <2>1. /\ emu' = [emu EXCEPT !.queue = Tail(emu.queue), !.busy = TRUE]
        /\ core' = [core EXCEPT !.at = "task", !.task = Head(emu.queue)]
    BY <1>4 DEF MainTask
  <2>2. SameOptions(emu, emu') /\ core'.at = "task"
    BY <2>1, <1>a DEF EmuType, CoreType, SameOptions
  <2> QED
    BY <2>2, OptionsSame
<1>5. CASE TaskEnds
  <2>1. /\ emu' = [emu EXCEPT !.busy = FALSE,
                     !.queue = IF core.failed THEN <<>> ELSE emu.queue]
        /\ core' = [core EXCEPT !.at = "loop", !.task = 0, !.failed = FALSE]
    BY <1>5 DEF TaskEnds
  <2>2. SameOptions(emu, emu') /\ core'.at = "loop"
    BY <2>1, <1>a DEF EmuType, CoreType, SameOptions
  <2> QED
    BY <2>2, OptionsSame
<1> QED
  BY <1>1, <1>2, <1>3, <1>4, <1>5 DEF Main

\* The GUI marks the options that it sets as new.
LEMMA GuiOptions == SafeInv /\ OptionsInv /\ (GuiStarts \/ GuiGoesOn \/ GuiIdle \/ Freed) => OptionsInv'
<1> SUFFICES ASSUME SafeInv, OptionsInv, GuiStarts \/ GuiGoesOn \/ GuiIdle \/ Freed PROVE OptionsInv'
  OBVIOUS
<1>a. /\ emu \in EmuType /\ core \in CoreType /\ gui \in GuiType /\ tasks \in Seq(TaskType)
  BY DEF SafeInv, TypeOK
<1>b. ASSUME SameOptions(emu, emu'), core'.at = core.at, core'.opened = core.opened,
             core'.new = core.new
      PROVE  OptionsInv'
  BY <1>b DEF OptionsInv, SameOptions
<1>1. CASE GuiStarts \/ GuiDrains \/ GuiDrained \/ GuiAwaits \/ GuiIdle \/ Freed
  <2>1. emu' = emu /\ core' = core
    BY <1>1 DEF GuiStarts, GuiDrains, GuiDrained, GuiAwaits, GuiIdle, Freed, vars
  <2> QED
    BY <2>1, <1>b DEF SameOptions
<1>2. CASE GuiWants
  <2>1. emu' = [emu EXCEPT !.waiting = emu.waiting + 1] /\ core' = core
    BY <1>2 DEF GuiWants
  <2>2. SameOptions(emu, emu')
    BY <2>1, <1>a DEF SameOptions, EmuType
  <2> QED
    BY <2>1, <2>2, <1>b
<1>3. CASE GuiSettles
  <2>1. emu' = [emu EXCEPT !.abort = FALSE] /\ core' = [core EXCEPT !.parked = FALSE]
    BY <1>3 DEF GuiSettles, Resumed
  <2>2. SameOptions(emu, emu')
    BY <2>1, <1>a DEF SameOptions, EmuType
  <2>3. core'.at = core.at /\ core'.opened = core.opened /\ core'.new = core.new
    BY <2>1, <1>a DEF CoreType
  <2> QED
    BY <2>2, <2>3, <1>b
<1>4. CASE GuiUnlocked
  <2>1. PICK thread, limit :
           emu' = [emu EXCEPT !.thread = thread, !.limit = limit] /\ core' = core
    BY <1>4 DEF GuiUnlocked
  <2>2. SameOptions(emu, emu')
    BY <2>1, <1>a DEF SameOptions, EmuType
  <2> QED
    BY <2>1, <2>2, <1>b
<1>5. CASE GuiEnters
  <2> DEFINE step == Head(gui.todo)
             L == Locked(step, emu)
  <2>1. /\ gui.wants /\ emu' = [L EXCEPT !.waiting = L.waiting - 1]
        /\ core' = [core EXCEPT !.parked = core.parked /\ emu.waiting - 1 > 0]
    BY <1>5 DEF GuiEnters, Woken
  <2>2. step \in GuiSteps \ Unlocked
    <3>1. gui.todo # <<>> /\ step \notin Unlocked /\ gui.todo \in Seq(GuiSteps)
      BY <2>1, <1>a DEF SafeInv, WantsInv, GuiType
    <3> QED
      BY <3>1, HeadTailProperties
  <2> HIDE DEF step
  <2>3. L \in EmuType
    BY <2>2, <1>a, LockedEffect DEF LockedStep
  <2>4. core'.at = core.at /\ core'.opened = core.opened /\ core'.new = core.new
    BY <2>1, <1>a DEF CoreType
  <2>5. SameOptions(L, emu')
    <3> HIDE DEF L
    <3> QED
      BY <2>1, <2>3 DEF SameOptions, EmuType
  <2>6. \/ SameOptions(emu, L)
        \/ L = [emu EXCEPT !.options = emu.options + 1, !.stale = TRUE, !.error = FALSE]
        \/ \E want \in Cables : L = [emu EXCEPT !.want = want, !.changed = TRUE]
    <3>1. CASE step \in Kinds
      <4>1. step \notin {"pause", "resume", "key", "audio", "options", "raw", "cooked", "nocable",
                         "abort", "switch", "exit"}
        BY <3>1 DEF Kinds
      <4>2. L = [emu EXCEPT !.queue = Append(emu.queue, Len(tasks) + 1)]
        BY <3>1, <4>1 DEF Locked
      <4> QED
        BY <4>2, <1>a DEF SameOptions, EmuType
    <3>2. CASE step \in {"pause", "resume", "key", "audio"}
      <4>1. \/ L = [emu EXCEPT !.paused = TRUE]
            \/ L = [emu EXCEPT !.paused = FALSE]
            \/ L = [emu EXCEPT !.asleep = FALSE]
            \/ L = [emu EXCEPT !.enable = ~emu.enable, !.error = FALSE]
        BY <3>2 DEF Locked, Kinds
      <4> QED
        BY <4>1, <1>a DEF SameOptions, EmuType
    <3>3. CASE step \in {"abort", "switch", "exit"}
      <4>1. \/ L = [emu EXCEPT !.abort = TRUE, !.queue = <<>>]
            \/ L = [emu EXCEPT !.calc = emu.calc + 1, !.asleep = FALSE, !.filter = "none"]
            \/ L = [emu EXCEPT !.exiting = TRUE]
        BY <3>3 DEF Locked, Kinds, Switched
      <4> QED
        BY <4>1, <1>a DEF SameOptions, EmuType
    <3>4. CASE step = "options"
      BY <3>4 DEF Locked, Kinds
    <3>5. CASE step \in {"raw", "cooked", "nocable"}
      BY <3>5 DEF Locked, Kinds, Cables
    <3> QED
      BY <2>2, <3>1, <3>2, <3>3, <3>4, <3>5 DEF GuiSteps, Unlocked
  <2>7. CASE SameOptions(emu, L)
    <3>1. SameOptions(emu, emu')
      BY <2>5, <2>7 DEF SameOptions
    <3> QED
      BY <3>1, <2>4, <1>b
  <2>8. CASE L = [emu EXCEPT !.options = emu.options + 1, !.stale = TRUE, !.error = FALSE]
    <3>1. /\ L.stale = TRUE /\ L.changed = emu.changed /\ L.cable = emu.cable
          /\ L.want = emu.want
      BY <2>8, <1>a DEF EmuType
    <3> QED
      BY <3>1, <2>4, <2>5 DEF OptionsInv, SameOptions
  <2>9. ASSUME NEW want \in Cables, L = [emu EXCEPT !.want = want, !.changed = TRUE]
        PROVE  OptionsInv'
    <3>1. /\ L.changed = TRUE /\ L.stale = emu.stale /\ L.options = emu.options
          /\ L.device = emu.device
      BY <2>9, <1>a DEF EmuType
    <3> QED
      BY <3>1, <2>4, <2>5 DEF OptionsInv, SameOptions
  <2> QED
    BY <2>6, <2>7, <2>8, <2>9
<1> QED
  BY <1>1, <1>2, <1>3, <1>4, <1>5 DEF GuiGoesOn

\* Both invariants together hold of every behaviour.
LEMMA OptionsInvariant == Spec => [](SafeInv /\ OptionsInv)
<1>1. Init => OptionsInv
  BY DEF Init, OptionsInv
<1>2. SafeInv /\ OptionsInv /\ [Next]_vars => OptionsInv'
  <2> SUFFICES ASSUME SafeInv, OptionsInv, [Next]_vars PROVE OptionsInv'
    OBVIOUS
  <2>1. CASE EmRun
    BY <2>1, EmRunOptions DEF SafeInv
  <2>2. CASE Tasks \/ Main
    BY <2>2, WorkOptions
  <2>3. CASE GuiStarts \/ GuiGoesOn \/ GuiIdle \/ Freed
    BY <2>3, GuiOptions
  <2>4. CASE UNCHANGED vars
    BY <2>4 DEF vars, OptionsInv
  <2> QED
    BY <2>1, <2>2, <2>3, <2>4 DEF Next, CoreNext
<1> QED
  BY <1>1, <1>2, InitSafe, NextSafe, PTL DEF Spec

(* Whoever sets options while the core works without the lock finds them   *)
(* used: a device that is not marked as stale was opened with the current  *)
(* ones, and a cable that is not marked as changed is the one wanted.      *)
THEOREM OptionsKept == Spec => []OptionsNotLost
<1>1. OptionsInv => OptionsNotLost
  BY DEF OptionsInv, OptionsNotLost
<1> QED
  BY <1>1, OptionsInvariant, PTL
-----------------------------------------------------------------------------
\* What is left of an operation after its first step.
LEMMA Progress ==
  ASSUME NEW s \in Cancelling \cup Settled \cup NotCancelling, s # <<>>
  PROVE  /\ Tail(s) \in Cancelling \cup Settled \cup NotCancelling
         /\ Head(s) = "abort" => Tail(s) \in Cancelling
         /\ Head(s) = "drain" => s \in Cancelling /\ Tail(s) \in Cancelling
         /\ Head(s) = "settle" => s \in Cancelling
         /\ Head(s) = "dialog" => s \in Settled /\ Tail(s) \in Settled
         /\ Head(s) \in {"switch", "exit"} => s \in Settled
         /\ Head(s) \notin {"abort", "drain", "settle", "dialog"}
               => Tail(s) \notin Cancelling \cup Settled
<1> DEFINE Goal(u) ==
         /\ Tail(u) \in Cancelling \cup Settled \cup NotCancelling
         /\ Head(u) = "abort" => Tail(u) \in Cancelling
         /\ Head(u) = "drain" => u \in Cancelling /\ Tail(u) \in Cancelling
         /\ Head(u) = "settle" => u \in Cancelling
         /\ Head(u) = "dialog" => u \in Settled /\ Tail(u) \in Settled
         /\ Head(u) \in {"switch", "exit"} => u \in Settled
         /\ Head(u) \notin {"abort", "drain", "settle", "dialog"}
               => Tail(u) \notin Cancelling \cup Settled
<1>1. /\ <<>> \notin Cancelling \cup Settled /\ <<"thread">> \notin Cancelling \cup Settled
      /\ <<"join", "freed">> \notin Cancelling \cup Settled
      /\ <<"freed">> \notin Cancelling \cup Settled
  BY DEF Cancelling, Settled
<1>2. CASE s \in Cancelling
  <2>1. Goal(<<"drain", "settle">>)
    BY DEF Cancelling
  <2>2. Goal(<<"settle">>)
    BY DEF Cancelling, NotCancelling
  <2>3. Goal(<<"drain", "settle", "dialog", "switch">>)
    BY DEF Cancelling
  <2>4. Goal(<<"settle", "dialog", "switch">>)
    BY DEF Cancelling, Settled
  <2>5. Goal(<<"drain", "settle", "exit", "join", "freed">>)
    BY DEF Cancelling
  <2>6. Goal(<<"settle", "exit", "join", "freed">>)
    BY DEF Cancelling, Settled
  <2> HIDE DEF Goal
  <2>7. Goal(s)
    BY <1>2, <2>1, <2>2, <2>3, <2>4, <2>5, <2>6 DEF Cancelling
  <2> QED
    BY <2>7 DEF Goal
<1>3. CASE s \in Settled
  <2>1. Goal(<<"dialog", "switch">>)
    BY DEF Settled
  <2>2. Goal(<<"switch">>)
    BY <1>1 DEF Settled, NotCancelling
  <2>3. Goal(<<"exit", "join", "freed">>)
    BY <1>1 DEF Settled, NotCancelling
  <2> HIDE DEF Goal
  <2>4. Goal(s)
    BY <1>3, <2>1, <2>2, <2>3 DEF Settled
  <2> QED
    BY <2>4 DEF Goal
<1>4. CASE s \in NotCancelling
  <2>1. Goal(CancelTasks)
    BY DEF CancelTasks, Cancelling
  <2>2. Goal(LoadState)
    BY LoadStateSteps DEF Cancelling
  <2>3. Goal(Free)
    BY FreeSteps DEF Cancelling
  <2>4. Goal(Run)
    BY <1>1 DEF Run, NotCancelling
  <2>5. Goal(<<"thread">>)
    BY <1>1 DEF NotCancelling
  <2>6. Goal(<<"join", "freed">>)
    BY <1>1 DEF NotCancelling
  <2>7. Goal(<<"freed">>)
    BY <1>1 DEF NotCancelling
  <2>8. ASSUME NEW op \in Operations PROVE Goal(<<op>>)
    <3>1. Tail(<<op>>) = <<>> /\ Head(<<op>>) = op
      OBVIOUS
    <3>2. op \notin {"abort", "drain", "settle", "dialog", "switch", "exit"}
      BY DEF Operations, Kinds
    <3>3. <<>> \in NotCancelling
      BY DEF NotCancelling
    <3> QED
      BY <1>1, <3>1, <3>2, <3>3
  <2> HIDE DEF Goal
  <2>9. Goal(s)
    BY <1>4, <2>1, <2>2, <2>3, <2>4, <2>5, <2>6, <2>7, <2>8 DEF NotCancelling
  <2> QED
    BY <2>9 DEF Goal
<1> QED
  BY <1>2, <1>3, <1>4

\* An operation that begins is not one that has cancelled the tasks already.
LEMMA StepsBegin ==
  ASSUME NEW op \in Operations \ {"break", "off"}
  PROVE  Steps(op) \in NotCancelling /\ Steps(op) \notin Cancelling \cup Settled
<1>1. CASE op = "run"
  BY <1>1 DEF Steps, Run, NotCancelling, Cancelling, Settled
<1>2. CASE op = "cancel"
  BY <1>2 DEF Steps, CancelTasks, NotCancelling, Cancelling, Settled
<1>3. CASE op = "load"
  <2>1. Steps(op) = LoadState /\ Head(Steps(op)) = "abort"
    BY <1>3, LoadStateSteps DEF Steps
  <2> QED
    BY <2>1 DEF NotCancelling, Cancelling, Settled
<1>4. CASE op = "free"
  <2>1. Steps(op) = Free /\ Head(Steps(op)) = "abort"
    BY <1>4, FreeSteps DEF Steps
  <2> QED
    BY <2>1 DEF NotCancelling, Cancelling, Settled
<1>5. CASE op \notin {"run", "cancel", "load", "free"}
  <2>1. Steps(op) = <<op>> /\ op \notin {"settle", "switch"}
    BY <1>5 DEF Steps, Operations, Kinds
  <2> QED
    BY <2>1 DEF NotCancelling, Cancelling, Settled
<1> QED
  BY <1>1, <1>2, <1>3, <1>4, <1>5

\* No macro file was opened earlier either.
LEMMA NoMacroBefore ==
  ASSUME DOMAIN tasks \subseteq DOMAIN tasks', \A u \in DOMAIN tasks : tasks'[u].kind = tasks[u].kind,
         NoMacroLoaded'
  PROVE  NoMacroLoaded
BY DEF NoMacroLoaded

\* A field of a task that is not its kind.
LEMMA KindsStay ==
  ASSUME tasks \in Seq(TaskType), NEW t \in DOMAIN tasks, NEW r, r.kind = tasks[t].kind,
         tasks' = [tasks EXCEPT ![t] = r]
  PROVE  /\ DOMAIN tasks \subseteq DOMAIN tasks'
         /\ \A u \in DOMAIN tasks : tasks'[u].kind = tasks[u].kind
OBVIOUS

LEMMA CoreCancel == SafeInv /\ CancelInv /\ CoreNext => CancelInv'
<1> SUFFICES ASSUME SafeInv, CancelInv, CoreNext PROVE CancelInv'
  OBVIOUS
<1>a. /\ emu \in EmuType /\ core \in CoreType /\ gui \in GuiType /\ TypeOK /\ WhereInv
      /\ tasks \in Seq(TaskType)
  BY DEF SafeInv, TypeOK
<1>1. CASE EmRun
  <2>1. /\ gui' = gui /\ tasks' = tasks /\ emu'.busy = emu.busy /\ emu'.queue = emu.queue
        /\ emu'.calc = emu.calc /\ core'.calc = core.calc
    BY <1>1, <1>a, EmRunStep DEF EmStep, SameWork, SameTask
  <2> QED
    BY <2>1 DEF CancelInv, NoMacroLoaded
<1>2. CASE Tasks
  <2>1. /\ gui' = gui /\ tasks' = tasks /\ emu'.busy = emu.busy /\ emu'.queue = emu.queue
        /\ emu'.calc = emu.calc
        /\ core'.calc # 0 => core'.calc \in {core.calc, emu.calc}
    BY <1>2, <1>a, TasksStep DEF TaskStep, SameWork
  <2> QED
    BY <2>1 DEF CancelInv, NoMacroLoaded
<1>3. CASE MainStarts \/ MainAborts \/ MainRuns
  <2>1. /\ gui'.todo = gui.todo /\ tasks' = tasks /\ emu' = emu
        /\ \/ core' = [core EXCEPT !.at = "loop"]
           \/ core' = [core EXCEPT !.parked = TRUE]
           \/ core' = [core EXCEPT !.at = "em", !.awake = FALSE, !.ff = FALSE, !.ret = "loop"]
    BY <1>3, <1>a DEF MainStarts, MainAborts, MainRuns, Core, Call, GuiType
  <2>2. core'.calc = core.calc
    BY <2>1, <1>a DEF CoreType
  <2> QED
    BY <2>1, <2>2 DEF CancelInv, NoMacroLoaded
<1>4. CASE MainExits
  <2>1. /\ emu' = [emu EXCEPT !.changed = emu.changed \/ emu.cable # "none", !.cable = "none"]
        /\ core' = Unlock(emu', core, "done") /\ gui' = gui /\ tasks' = tasks
    BY <1>4 DEF MainExits, Core
  <2>2. core'.calc = core.calc
    BY <2>1, <1>a DEF Unlock, CoreType
  <2>3. emu'.queue = emu.queue /\ emu'.busy = emu.busy /\ emu'.calc = emu.calc
    BY <2>1, <1>a DEF EmuType
  <2> QED
    BY <2>1, <2>2, <2>3 DEF CancelInv, NoMacroLoaded
<1>5. CASE MainTask
  <2> DEFINE t == Head(emu.queue)
  <2>1. /\ emu' = [emu EXCEPT !.queue = Tail(emu.queue), !.busy = TRUE]
        /\ core' = [core EXCEPT !.at = "task", !.task = t]
        /\ tasks' = [tasks EXCEPT ![t] = [tasks[t] EXCEPT !.ran = TRUE]]
        /\ gui' = gui /\ emu.queue # <<>>
    BY <1>5 DEF MainTask
  <2>2. t \in DOMAIN tasks
    <3>1. emu.queue \in Seq(Nat)
      BY <1>a DEF EmuType
    <3>2. In(t, emu.queue)
      BY <2>1, <3>1, InTail
    <3> QED
      BY <3>2 DEF SafeInv, TasksInv, Pending
  <2> HIDE DEF t
  <2>3. tasks[t] \in TaskType
    BY <2>2, <1>a, LenProperties, ElementOfSeq
  <2>4. [tasks[t] EXCEPT !.ran = TRUE].kind = tasks[t].kind
    BY <2>3 DEF TaskType
  <2>5. NoMacroLoaded' => NoMacroLoaded
    BY <2>1, <2>2, <2>4, <1>a, KindsStay, NoMacroBefore
  <2>6. core'.calc = core.calc /\ emu'.calc = emu.calc
    BY <2>1, <1>a DEF CoreType, EmuType
  <2>7. CancelInv /\ emu.queue # <<>> /\ NoMacroLoaded => gui.todo \notin Cancelling \cup Settled
    BY DEF CancelInv
  <2> QED
    BY <2>1, <2>5, <2>6, <2>7 DEF CancelInv
<1>6. CASE TaskEnds
  <2> DEFINE t == core.task
  <2>1. /\ emu' = [emu EXCEPT !.busy = FALSE,
                     !.queue = IF core.failed THEN <<>> ELSE emu.queue]
        /\ core' = [core EXCEPT !.at = "loop", !.task = 0, !.failed = FALSE]
        /\ tasks' = [tasks EXCEPT ![t] = [[tasks[t] EXCEPT !.shows = ~emu.abort]
                                              EXCEPT !.calc = emu.calc]]
        /\ gui' = gui /\ core.at = "end"
    BY <1>6 DEF TaskEnds, At
  <2>2. t \in DOMAIN tasks
    BY <2>1, <1>a DEF WhereInv, InTask
  <2> HIDE DEF t
  <2>3. tasks[t] \in TaskType
    BY <2>2, <1>a, LenProperties, ElementOfSeq
  <2>4. [[tasks[t] EXCEPT !.shows = ~emu.abort] EXCEPT !.calc = emu.calc].kind = tasks[t].kind
    BY <2>3 DEF TaskType
  <2>5. NoMacroLoaded' => NoMacroLoaded
    BY <2>1, <2>2, <2>4, <1>a, KindsStay, NoMacroBefore
  <2>6. /\ core'.calc = core.calc /\ emu'.calc = emu.calc /\ emu'.busy = FALSE
        /\ emu'.queue \in {<<>>, emu.queue}
    BY <2>1, <1>a DEF CoreType, EmuType
  <2> QED
    BY <2>1, <2>5, <2>6 DEF CancelInv
<1> QED
  BY <1>1, <1>2, <1>3, <1>4, <1>5, <1>6 DEF CoreNext, Main

LEMMA GuiCancel ==
  SafeInv /\ CancelInv /\ (GuiStarts \/ GuiGoesOn \/ GuiIdle \/ Freed) => CancelInv'
<1> SUFFICES ASSUME SafeInv, CancelInv, GuiStarts \/ GuiGoesOn \/ GuiIdle \/ Freed
             PROVE  CancelInv'
  OBVIOUS
<1>a. /\ emu \in EmuType /\ core \in CoreType /\ gui \in GuiType /\ TypeOK
      /\ tasks \in Seq(TaskType) /\ idle \in Seq(IdleType) /\ gui.todo \in Seq(GuiSteps)
  BY DEF SafeInv, TypeOK, GuiType
<1> DEFINE step == Head(gui.todo)
<1>b. Done(gui).todo = Tail(gui.todo)
  BY <1>a DEF Done, GuiType
<1>c. ASSUME NoMacroLoaded, gui.todo # <<>>
      PROVE  /\ Tail(gui.todo) \in Cancelling \cup Settled \cup NotCancelling
             /\ step = "abort" => Tail(gui.todo) \in Cancelling
             /\ step = "drain" => gui.todo \in Cancelling /\ Tail(gui.todo) \in Cancelling
             /\ step = "settle" => gui.todo \in Cancelling
             /\ step = "dialog" => gui.todo \in Settled /\ Tail(gui.todo) \in Settled
             /\ step \in {"switch", "exit"} => gui.todo \in Settled
             /\ step \notin {"abort", "drain", "settle", "dialog"}
                   => Tail(gui.todo) \notin Cancelling \cup Settled
  BY <1>c, Progress DEF CancelInv
<1>d. Cancelling \cap Settled = {}
  <2>1. \A s \in Cancelling : Head(s) \in {"drain", "settle"}
    BY DEF Cancelling
  <2>2. \A s \in Settled : Head(s) \in {"dialog", "switch", "exit"}
    BY DEF Settled
  <2> QED
    BY <2>1, <2>2
<1> HIDE DEF step
<1>1. CASE GuiStarts
  <2>1. PICK op \in gui.ops \ {"break", "off"}, n \in {gui.changes, gui.changes + 1} :
           /\ gui' = [gui EXCEPT !.todo = Steps(op), !.changes = n]
           /\ UNCHANGED <<emu, core, tasks, idle>>
    BY <1>1 DEF GuiStarts
  <2>2. op \in Operations \ {"break", "off"}
    BY <1>a, <2>1 DEF GuiType
  <2>3. gui'.todo \in NotCancelling /\ gui'.todo \notin Cancelling \cup Settled
    <3>1. gui'.todo = Steps(op)
      BY <1>a, <2>1 DEF GuiType
    <3> QED
      BY <3>1, <2>2, StepsBegin
  <2> QED
    BY <2>1, <2>3 DEF CancelInv, NoMacroLoaded
<1>2. CASE GuiWants \/ GuiAwaits \/ Freed
  <2>1. /\ core' = core /\ tasks' = tasks
        /\ \/ emu' = emu
           \/ emu' = [emu EXCEPT !.waiting = emu.waiting + 1]
        /\ \/ gui' = gui
           \/ gui' = [gui EXCEPT !.wants = TRUE]
           \/ gui' = [gui EXCEPT !.waits = TRUE]
    BY <1>2 DEF GuiWants, GuiAwaits, Freed, vars
  <2>2. gui'.todo = gui.todo
    BY <2>1, <1>a DEF GuiType
  <2>3. emu'.queue = emu.queue /\ emu'.busy = emu.busy /\ emu'.calc = emu.calc
    BY <2>1, <1>a DEF EmuType
  <2> QED
    BY <2>1, <2>2, <2>3 DEF CancelInv, NoMacroLoaded
<1>3. CASE GuiEnters
  <2> DEFINE L == Locked(step, emu)
  <2>1. /\ gui.wants /\ emu' = [L EXCEPT !.waiting = L.waiting - 1]
        /\ core' = [core EXCEPT !.parked = core.parked /\ emu.waiting - 1 > 0]
        /\ gui'.todo = Tail(gui.todo)
        /\ tasks' = IF step \in Kinds THEN Append(tasks, Task(step)) ELSE tasks
    <3>1. gui' = [Done(gui) EXCEPT !.wants = FALSE,
                        !.old = IF step = "abort" THEN emu.queue ELSE Done(gui).old,
                        !.list = IF step = "switch" THEN 0 ELSE Done(gui).list]
      BY <1>3 DEF GuiEnters, step
    <3>2. Done(gui) \in GuiType
      <4>1. gui.todo # <<>>
        BY <1>3 DEF GuiEnters, SafeInv, WantsInv
      <4>2. Tail(gui.todo) \in Seq(GuiSteps)
        BY <1>a, <4>1, HeadTailProperties
      <4> QED
        BY <1>a, <4>2 DEF Done, GuiType
    <3>3. gui'.todo = Done(gui).todo
      BY <3>1, <3>2 DEF GuiType
    <3> QED
      BY <1>3, <1>b, <3>3 DEF GuiEnters, Woken, step
  <2>2. gui.todo # <<>> /\ step \in GuiSteps \ Unlocked
    <3>1. gui.todo # <<>> /\ step \notin Unlocked
      BY <2>1 DEF SafeInv, WantsInv, step
    <3> QED
      BY <3>1, <1>a, HeadTailProperties DEF step
  <2>3. LockedStep(step, emu, L)
    BY <2>2, <1>a, LockedEffect
  <2>4. /\ emu'.busy = emu.busy
        /\ emu'.queue = CASE step = "abort" -> <<>>
                          [] step \in Kinds -> Append(emu.queue, Len(tasks) + 1)
                          [] OTHER -> emu.queue
        /\ emu'.calc = IF step = "switch" THEN emu.calc + 1 ELSE emu.calc
    <3>1. L \in EmuType /\ L.waiting - 1 \in Int
      BY <2>3, <1>a DEF LockedStep, EmuType
    <3> HIDE DEF L
    <3>2. emu'.busy = L.busy /\ emu'.queue = L.queue /\ emu'.calc = L.calc
      BY <2>1, <3>1, WaitingExcept
    <3> QED
      BY <2>3, <3>2 DEF LockedStep
  <2>5. core'.calc = core.calc
    BY <2>1, <1>a DEF CoreType
  <2>6. NoMacroLoaded' => NoMacroLoaded
    <3>1. DOMAIN tasks = 1..Len(tasks) /\ Len(tasks) \in Nat
      BY <1>a, LenProperties
    <3>2. CASE step \in Kinds
      <4>1. Task(step) \in TaskType
        BY <3>2 DEF Task, TaskType
      <4>2. /\ Append(tasks, Task(step)) \in Seq(TaskType)
            /\ Len(Append(tasks, Task(step))) = Len(tasks) + 1
            /\ \A u \in 1..Len(tasks) : Append(tasks, Task(step))[u] = tasks[u]
        BY <1>a, <4>1, AppendProperties
      <4>3. DOMAIN tasks \subseteq DOMAIN tasks' /\ \A u \in DOMAIN tasks : tasks'[u] = tasks[u]
        BY <2>1, <3>1, <3>2, <4>2, LenProperties
      <4> QED
        BY <4>3, NoMacroBefore
    <3>3. CASE step \notin Kinds
      BY <2>1, <3>3 DEF NoMacroLoaded
    <3> QED
      BY <3>2, <3>3
  <2> SUFFICES ASSUME NoMacroLoaded', NoMacroLoaded
               PROVE  /\ gui'.todo \in Cancelling \cup Settled \cup NotCancelling
                      /\ gui'.todo \in Cancelling \cup Settled => emu'.queue = <<>>
                      /\ gui'.todo \in Settled => ~emu'.busy
                      /\ core'.calc # 0 => core'.calc = emu'.calc
    BY <2>6 DEF CancelInv
  <2>7. step \notin {"drain", "settle", "dialog"}
    BY <2>2 DEF Unlocked
  <2>8. CASE step = "abort"
    <3>1. step \notin Kinds /\ step # "switch"
      BY <2>8 DEF Kinds
    <3>2. emu'.queue = <<>> /\ emu'.calc = emu.calc
      BY <2>4, <2>8, <3>1
    <3> QED
      BY <1>c, <1>d, <2>1, <2>2, <2>5, <2>8, <3>2 DEF CancelInv
  <2>9. CASE step = "switch"
    <3>1. ~emu.busy
      BY <1>c, <2>2, <2>9 DEF CancelInv
    <3>2. core.calc = 0
      BY <3>1 DEF SafeInv, WhereInv, InTask
    <3> QED
      BY <1>c, <2>1, <2>2, <2>5, <2>9, <3>2
  <2>10. CASE step \notin {"abort", "switch"}
    <3>1. emu'.calc = emu.calc
      BY <2>4, <2>10
    <3> QED
      BY <1>c, <2>1, <2>2, <2>5, <2>7, <2>10, <3>1 DEF CancelInv
  <2> QED
    BY <2>8, <2>9, <2>10
<1>4. CASE GuiDrains \/ GuiIdle
  <2>1. /\ emu' = emu /\ core' = core
        /\ \E c \in IdleType, g \in GuiType :
              /\ Finished(c, g) /\ g.todo = gui.todo
              /\ In(c.task, gui.old) \/ In(c.task, TasksOf(idle))
              /\ c.cancelled <=> ~tasks[c.task].ran
    <3>1. CASE GuiDrains
      <4> DEFINE t == Head(gui.old)
                 c == Drained(t)
                 g == [gui EXCEPT !.old = Tail(gui.old)]
      <4>1. gui.old # <<>> /\ Finished(c, g) /\ UNCHANGED <<emu, core>>
        BY <3>1 DEF GuiDrains
      <4>2. gui.old \in Seq(Nat)
        BY <1>a DEF GuiType
      <4>3. t \in Nat /\ Tail(gui.old) \in Seq(Nat) /\ In(t, gui.old)
        BY <4>1, <4>2, HeadTailProperties, InTail
      <4>4. c \in IdleType /\ c.task = t /\ c.cancelled = TRUE
        BY <4>3 DEF Drained, Callback, IdleType
      <4>5. g \in GuiType /\ g.todo = gui.todo
        BY <4>3, <1>a DEF GuiType
      <4>6. ~tasks[t].ran
        BY <4>3 DEF SafeInv, TasksInv
      <4> HIDE DEF t, c, g
      <4> QED
        BY <4>1, <4>3, <4>4, <4>5, <4>6
    <3>2. CASE GuiIdle
      <4> DEFINE c == Head(idle)
      <4>1. idle # <<>> /\ Finished(c, gui) /\ UNCHANGED <<emu, core>>
        BY <3>2 DEF GuiIdle
      <4>2. 1 \in DOMAIN idle /\ c = idle[1] /\ c \in IdleType
        BY <4>1, <1>a, LenProperties, HeadTailProperties
      <4>3. In(c.task, TasksOf(idle)) /\ (c.cancelled <=> ~tasks[c.task].ran)
        BY <4>2 DEF In, TasksOf, SafeInv, TasksInv
      <4> HIDE DEF c
      <4> QED
        BY <4>1, <4>2, <4>3, <1>a
    <3> QED
      BY <1>4, <3>1, <3>2
  <2>2. /\ DOMAIN tasks' = DOMAIN tasks /\ \A u \in DOMAIN tasks : tasks'[u].kind = tasks[u].kind
        /\ NoMacroLoaded => gui'.todo = gui.todo
    <3>1. PICK c \in IdleType, g \in GuiType :
              /\ Finished(c, g) /\ g.todo = gui.todo
              /\ In(c.task, gui.old) \/ In(c.task, TasksOf(idle))
              /\ c.cancelled <=> ~tasks[c.task].ran
      BY <2>1
    <3> QED
      BY <3>1, CalledBack
  <2>3. NoMacroLoaded' => NoMacroLoaded
    BY <2>2, NoMacroBefore
  <2> QED
    BY <2>1, <2>2, <2>3 DEF CancelInv
<1>5. CASE GuiDrained
  <2>1. /\ gui.todo # <<>> /\ step = "drain" /\ gui'.todo = Tail(gui.todo)
        /\ UNCHANGED <<emu, core, tasks>>
    BY <1>5, <1>b DEF GuiDrained, Now, step
  <2> QED
    BY <2>1, <1>c, <1>d DEF CancelInv, NoMacroLoaded
<1>6. CASE GuiSettles
  <2>1. /\ gui.todo # <<>> /\ step = "settle" /\ gui'.todo = Tail(gui.todo)
        /\ emu' = [emu EXCEPT !.abort = FALSE] /\ core' = [core EXCEPT !.parked = FALSE]
        /\ tasks' = tasks /\ ~emu.busy
    BY <1>6, <1>b DEF GuiSettles, Now, Resumed, TaskRuns, step
  <2>2. /\ emu'.queue = emu.queue /\ emu'.busy = emu.busy /\ emu'.calc = emu.calc
        /\ core'.calc = core.calc
    BY <2>1, <1>a DEF EmuType, CoreType
  <2> QED
    BY <2>1, <2>2, <1>c DEF CancelInv, NoMacroLoaded
<1>7. CASE GuiUnlocked
  <2>1. PICK thread, limit :
           /\ gui.todo # <<>> /\ step \in {"thread", "limit", "dialog", "join"}
           /\ emu' = [emu EXCEPT !.thread = thread, !.limit = limit]
           /\ gui'.todo = Tail(gui.todo) /\ core' = core /\ tasks' = tasks
    BY <1>7, <1>b DEF GuiUnlocked, step
  <2>2. /\ emu'.queue = emu.queue /\ emu'.busy = emu.busy /\ emu'.calc = emu.calc
    BY <2>1, <1>a DEF EmuType
  <2> QED
    BY <2>1, <2>2, <1>c DEF CancelInv, NoMacroLoaded
<1> QED
  BY <1>1, <1>2, <1>3, <1>4, <1>5, <1>6, <1>7 DEF GuiGoesOn

LEMMA CancelInvariant == Spec => [](SafeInv /\ CancelInv)
<1>1. Init => CancelInv
  BY DEF Init, CancelInv, Cancelling, Settled, NotCancelling
<1>2. SafeInv /\ CancelInv /\ [Next]_vars => CancelInv'
  <2> SUFFICES ASSUME SafeInv, CancelInv, [Next]_vars PROVE CancelInv'
    OBVIOUS
  <2>1. CASE CoreNext
    BY <2>1, CoreCancel
  <2>2. CASE GuiStarts \/ GuiGoesOn \/ GuiIdle \/ Freed
    BY <2>2, GuiCancel
  <2>3. CASE UNCHANGED vars
    BY <2>3 DEF vars, CancelInv, NoMacroLoaded
  <2> QED
    BY <2>1, <2>2, <2>3 DEF Next
<1> QED
  BY <1>1, <1>2, InitSafe, NextSafe, PTL DEF Spec

(* As long as no macro file is opened, whose callback begins another task, *)
(* cancel_tasks() leaves none: when the calculator is replaced or the core *)
(* told to exit, no task waits or runs, and a macro that plays has the     *)
(* calculator that the emulator has.                                       *)
THEOREM NoneUnderSwitch == Spec => [](NoMacroLoaded => CancelLeavesNone)
<1>1. SafeInv /\ CancelInv => (NoMacroLoaded => CancelLeavesNone)
  <2> SUFFICES ASSUME SafeInv, CancelInv, NoMacroLoaded PROVE CancelLeavesNone
    OBVIOUS
  <2>1. ASSUME Now("switch") \/ Now("exit") PROVE emu.queue = <<>> /\ ~emu.busy
    <3>1. gui.todo # <<>> /\ Head(gui.todo) \in {"switch", "exit"}
      BY <2>1 DEF Now
    <3>2. gui.todo \in Settled
      BY <3>1, Progress DEF CancelInv
    <3> QED
      BY <3>2 DEF CancelInv
  <2> QED
    BY <2>1 DEF CancelLeavesNone, CancelInv
<1> QED
  BY <1>1, CancelInvariant, PTL
=============================================================================
