------------------------------- MODULE EmuCore -------------------------------
(***************************************************************************)
(* The desktop emulator (gui/emucore.c, gui/emulator.c): a core thread that *)
(* runs the calculator or a task, and the GUI thread, which takes the      *)
(* emulator lock for each of its operations.  The core holds calc_mutex    *)
(* but for the windows in which it sleeps, opens or feeds a device, or     *)
(* lets a task do its own work.                                            *)
(***************************************************************************)
EXTENDS Integers, Sequences, FiniteSets

CONSTANTS
    Scenarios,      \* sets of the GUI operations that a user may do in a behaviour
    MaxTasks,       \* bound: tasks begun in a behaviour
    MaxChanges,     \* bound: calculators loaded, and changes of options, in a behaviour
    MaxTransfers    \* bound: cable operations of one link task

(* The operations that the menus, the debugger and the preferences offer.  *)
Kinds == {"link", "list", "receive", "direct", "macro", "loadmacro"}
Operations ==
    Kinds \cup {"run", "pause", "cancel", "load", "free", "key", "audio", "options", "raw",
                "cooked", "nocable", "limit", "break", "off"}

ASSUME ScenariosAssumption == Scenarios \subseteq SUBSET Operations
ASSUME BoundsAssumption == MaxTasks \in Nat /\ MaxChanges \in Nat /\ MaxTransfers \in Nat

VARIABLES
    emu,            \* TilemCalcEmulator
    core,           \* the core thread: where it is, and the locals of its functions
    gui,            \* the GUI thread: what is left of the operation it does
    tasks,          \* every task ever begun, and what became of it
    idle            \* callbacks that g_idle_add() has left to the GUI thread

vars == <<emu, core, gui, tasks, idle>>

Cables == {"none", "raw", "cooked"}

(* Where the core does not hold the mutex: in g_cond_wait() (parked), or   *)
(* in one of these windows.                                                *)
Windows == {"start", "open", "aopen", "play", "pace", "work", "playing", "done"}
CoreHolds == ~core.parked /\ core.at \notin Windows

(* tilem_calc_emulator_new(): nothing loaded, no thread.                   *)
Init ==
    /\ emu = [waiting |-> 0, thread |-> FALSE, paused |-> FALSE, exiting |-> FALSE,
              abort |-> FALSE, busy |-> FALSE, queue |-> <<>>, calc |-> 1,
              asleep |-> FALSE, limit |-> FALSE, ilp |-> FALSE,
              enable |-> FALSE, error |-> FALSE, options |-> 1, stale |-> FALSE,
              device |-> 0, filter |-> "none",
              cable |-> "none", want |-> "none", changed |-> FALSE]
    /\ core = [at |-> "start", parked |-> FALSE, ret |-> "loop", awake |-> FALSE,
               ff |-> FALSE, elapsed |-> FALSE, opened |-> 0, new |-> "none", task |-> 0,
               op |-> "delay", left |-> 0, open |-> FALSE, failed |-> FALSE, calc |-> 0]
    /\ \E ops \in Scenarios :
          gui = [ops |-> ops, todo |-> <<>>, wants |-> FALSE, waits |-> FALSE,
                 old |-> <<>>, list |-> 0, changes |-> 0]
    /\ tasks = <<>>
    /\ idle = <<>>
-----------------------------------------------------------------------------
(* tilem_em_unlock() and tilem_em_check_yield(): when another thread waits *)
(* for the lock, the core waits until that thread has had it.              *)

Yields(e) == e.waiting > 0

Unlock(e, c, window) == [c EXCEPT !.at = window, !.parked = Yields(e)]
Return(c) == [c EXCEPT !.at = c.ret]
Call(c, awake, ff, ret) == [c EXCEPT !.at = "em", !.awake = awake, !.ff = ff, !.ret = ret]

At(label) == core.at = label /\ ~core.parked
Core(e, c) == emu' = e /\ core' = c /\ UNCHANGED <<gui, tasks, idle>>
-----------------------------------------------------------------------------
(* The external cable.  The options are copied and marked as taken before  *)
(* the window in which the cable is opened.                                *)

CableKept ==
    /\ At("em") /\ (emu.ilp \/ ~emu.changed)
    /\ Core(emu, [core EXCEPT !.at = "audio"])

InitCable ==
    /\ At("em") /\ ~emu.ilp /\ emu.changed
    /\ LET reopen == emu.want \notin {emu.cable, "none"}
           e == [emu EXCEPT !.changed = FALSE, !.cable = IF reopen THEN "none" ELSE emu.want]
       IN  Core(e, IF reopen THEN [Unlock(e, core, "open") EXCEPT !.new = emu.want]
                   ELSE [core EXCEPT !.at = "audio"])

(* ticables_cable_open(), or the reset of the new cable, may fail.         *)
\* Mutant: the options are marked as taken when the cable has been opened.
MutWithCable(e, cable) == [e EXCEPT !.cable = cable, !.changed = FALSE]

WithCable(e, cable) == [e EXCEPT !.cable = cable]

CableOpened ==
    /\ At("open")
    /\ \E cable \in {core.new, "none"} :
          Core(WithCable(emu, cable), [core EXCEPT !.at = "audio", !.new = "none"])
-----------------------------------------------------------------------------
(* The sound device and the filter that feeds it.  A number stands for the *)
(* options; device is that of the options it was opened with, 0 if closed. *)

AudioClose(e) == [e EXCEPT !.device = 0, !.filter = IF @ = "none" THEN @ ELSE "idle"]
SetBuffer(e) == [e EXCEPT !.filter = "filling"]
AudioOff(e) == ~e.enable \/ e.cable # "none" \/ e.ilp \/ e.error

AudioStops ==
    /\ At("audio") /\ AudioOff(emu)
    /\ Core(AudioClose(emu), [core EXCEPT !.at = "go"])

AudioOpens ==
    /\ At("audio") /\ ~AudioOff(emu)
    /\ emu.device = 0 \/ emu.stale
    /\ LET e == [AudioClose(emu) EXCEPT !.stale = FALSE]
       IN  Core(e, [Unlock(e, core, "aopen") EXCEPT !.opened = e.options])

AudioFailed ==
    /\ At("aopen")
    /\ Core([emu EXCEPT !.error = TRUE], [core EXCEPT !.at = "go", !.opened = 0])

AudioOpened ==
    /\ At("aopen")
    /\ Core(SetBuffer([emu EXCEPT !.device = core.opened]),
            [core EXCEPT !.at = "feed", !.opened = 0])

AudioKept ==
    /\ At("audio") /\ ~AudioOff(emu) /\ emu.device # 0 /\ ~emu.stale
    /\ Core(emu, [core EXCEPT !.at = "feed"])

(* A full buffer is played, and the next one awaited, without the lock.    *)
FeedAudio ==
    /\ At("feed")
    /\ Core(emu, IF emu.filter = "full" THEN Unlock(emu, core, "play")
                 ELSE [core EXCEPT !.at = "go"])

AudioPlayed ==
    /\ At("play")
    /\ \E e \in {SetBuffer(emu), [AudioClose(emu) EXCEPT !.error = TRUE]} :
          Core(e, [core EXCEPT !.at = "go"])

UpdateAudio ==
    \/ AudioStops \/ AudioOpens \/ AudioFailed \/ AudioOpened \/ AudioKept \/ FeedAudio
    \/ AudioPlayed
-----------------------------------------------------------------------------
(* The rest of tilem_em_run(), which tells its caller whether time passed. *)

Stopped(e) == e.exiting \/ e.abort

RunStopped ==
    /\ At("go") /\ Stopped(emu)
    /\ Core(emu, [Return(core) EXCEPT !.elapsed = FALSE])

RunNaps ==
    /\ At("go") /\ ~Stopped(emu)
    /\ emu.paused \/ (emu.asleep /\ ~core.awake)
    /\ Core(AudioClose(emu), [Return(core) EXCEPT !.parked = TRUE, !.elapsed = ~emu.paused])

(* tilem_z80_run_time(): a breakpoint may pause, the calculator turn off,  *)
(* and the buffer become full.  Then the core sleeps or does the I/O of a  *)
(* cooked cable without the lock, or goes on.                              *)
AfterRun(break, off, filter) ==
    [emu EXCEPT !.paused = break, !.asleep = off, !.filter = filter]
Breaks == IF "break" \in gui.ops THEN BOOLEAN ELSE {FALSE}
TurnsOff == IF "off" \in gui.ops THEN {emu.asleep, TRUE} ELSE {emu.asleep}
Fills == IF emu.filter = "filling" /\ emu.device # 0 THEN {"filling", "full"} ELSE {emu.filter}

Cooked(e) == e.cable = "cooked" /\ ~e.ilp
Paced(e) == (e.limit /\ e.device = 0 /\ ~core.ff) \/ Cooked(e)

RunTime ==
    /\ At("go") /\ ~Stopped(emu) /\ ~emu.paused /\ (~emu.asleep \/ core.awake)
    /\ \E break \in Breaks, off \in TurnsOff, filter \in Fills :
          LET e == AfterRun(break, off, filter)
          IN  Core(e, IF Paced(e) THEN [Unlock(e, core, "pace") EXCEPT !.elapsed = TRUE]
                      ELSE [Return(core) EXCEPT !.parked = Yields(e), !.elapsed = TRUE])

(* A cable that does not work any more, nor after a reset, is closed.      *)
CablesAfter(e) == {e.cable} \cup (IF Cooked(e) THEN {"none"} ELSE {})
PaceEnds ==
    /\ At("pace")
    /\ \E cable \in CablesAfter(emu) : Core([emu EXCEPT !.cable = cable], Return(core))

EmRun ==
    \/ CableKept \/ InitCable \/ CableOpened \/ UpdateAudio
    \/ RunStopped \/ RunNaps \/ RunTime \/ PaceEnds
-----------------------------------------------------------------------------
(* tilem_em_main() and run_task().                                         *)

MainStarts ==
    /\ At("start") /\ emu.thread
    /\ Core(emu, [core EXCEPT !.at = "loop"])

MainExits ==
    /\ At("loop") /\ emu.exiting
    /\ LET e == [emu EXCEPT !.changed = @ \/ emu.cable # "none", !.cable = "none"]
       IN  Core(e, Unlock(e, core, "done"))

MainTask ==
    /\ At("loop") /\ ~emu.exiting /\ emu.queue # <<>>
    /\ LET t == Head(emu.queue)
       IN  /\ emu' = [emu EXCEPT !.queue = Tail(@), !.busy = TRUE]
           /\ core' = [core EXCEPT !.at = "task", !.task = t]
           /\ tasks' = [tasks EXCEPT ![t].ran = TRUE]
           /\ UNCHANGED <<gui, idle>>

(* Broadcasts task_finished_cond, and waits to be woken.                   *)
MainAborts ==
    /\ At("loop") /\ ~emu.exiting /\ emu.queue = <<>> /\ emu.abort
    /\ core' = [core EXCEPT !.parked = TRUE]
    /\ gui' = [gui EXCEPT !.waits = FALSE]
    /\ UNCHANGED <<emu, tasks, idle>>

MainRuns ==
    /\ At("loop") /\ ~emu.exiting /\ emu.queue = <<>> /\ ~emu.abort
    /\ Core(emu, Call(core, FALSE, FALSE, "loop"))

(* The end of run_task(): the task, and after a failure all that wait, are *)
(* called back.  What an aborted task has to show is not shown.            *)
\* Mutant: the tasks that a failure drops are not called back.
MutDropped(e, failed) == <<>>

Dropped(e, failed) == IF failed THEN e.queue ELSE <<>>

Callback(t, cancelled) == [task |-> t, cancelled |-> cancelled]

TaskEnds ==
    /\ At("end")
    /\ LET dropped == Dropped(emu, core.failed)
       IN  idle' = idle \o <<Callback(core.task, FALSE)>>
                        \o [i \in DOMAIN dropped |-> Callback(dropped[i], TRUE)]
    /\ emu' = [emu EXCEPT !.busy = FALSE, !.queue = IF core.failed THEN <<>> ELSE @]
    /\ tasks' = [tasks EXCEPT ![core.task].shows = ~emu.abort, ![core.task].calc = emu.calc]
    /\ core' = [core EXCEPT !.at = "loop", !.task = 0, !.failed = FALSE]
    /\ UNCHANGED gui

Main == MainStarts \/ MainExits \/ MainTask \/ MainAborts \/ MainRuns \/ TaskEnds
-----------------------------------------------------------------------------
(* What tasks do in the core thread.                                       *)

Kind == tasks[core.task].kind

BeginLink == [Unlock(emu, core, "work") EXCEPT !.left = MaxTransfers]
Failed(c) == [c EXCEPT !.at = "end", !.failed = TRUE]

(* The file to send is read first, and may be unreadable.                  *)
SendFile ==
    /\ At("task") /\ Kind = "link"
    /\ \E c \in {BeginLink, Failed(core)} : Core(emu, c)

GetDirlist == At("task") /\ Kind = "list" /\ Core(emu, BeginLink)
ReceiveFiles == At("task") /\ Kind = "receive" /\ Core(emu, BeginLink)

(* The keys that put a TI-82 or a TI-85 into the mode for the transfer.    *)
Prepare ==
    /\ At("work") /\ Kind # "receive" /\ ~core.open /\ core.left = MaxTransfers
    /\ Core(emu, [core EXCEPT !.at = "byte", !.left = @ - 1, !.op = "delay"])

IlpOpen ==
    /\ At("work") /\ ~core.open /\ core.left > 0
    /\ LET e == [emu EXCEPT !.ilp = TRUE]
       IN  Core(e, [Unlock(e, core, "work") EXCEPT !.open = TRUE])

(* ticalcs calls the cable until it is done or one call has failed.  Only  *)
(* tilem_em_get_byte() lets the calculator sleep.                          *)
IlpCall ==
    /\ At("work") /\ core.open /\ core.left > 0 /\ ~core.failed
    /\ \E op \in {"send", "recv", "delay"} :
          Core(emu, [core EXCEPT !.at = "byte", !.left = @ - 1, !.op = op])

IlpClose ==
    /\ At("work") /\ core.open /\ (core.failed \/ core.left < MaxTransfers)
    /\ LET e == [emu EXCEPT !.ilp = FALSE]
       IN  Core(e, [Unlock(e, core, "work") EXCEPT !.open = FALSE, !.left = 0])

(* end_link() takes the lock again for the rest of the task; files that    *)
(* were received are written then, which may fail.                         *)
LinkEnds ==
    /\ At("work") /\ ~core.open /\ core.left = 0
    /\ \E failed \in {core.failed, Kind = "receive"} :
          Core(emu, [core EXCEPT !.at = "end", !.failed = failed \/ core.failed])

(* The loops of tilem_em_delay(), run_until_ready(), tilem_em_get_byte():  *)
(* run until the byte is through, the timeout has passed, or an abort.     *)
(* The bound is a timeout of one tick.                                     *)
\* Mutant: a task that waits for the calculator does not look at the abort.
MutMayFail(abort, over) == over

MayFail(abort, over) == abort \/ over

ByteWaits ==
    /\ At("byte") \/ (At("again") /\ ~core.elapsed)
    /\ ~MayFail(emu.abort, FALSE)
    /\ Core(emu, Call(core, core.op # "recv", TRUE, "again"))

Failures(over) ==
    CASE core.op = "delay" -> {FALSE}
      [] MayFail(emu.abort, FALSE) -> {TRUE}
      [] OTHER -> {FALSE, over}

AfterCall(failed) ==
    CASE Kind = "direct" -> [core EXCEPT !.at = "loaded"]
      [] core.op = "recv" /\ ~failed -> [core EXCEPT !.at = "byte", !.op = "delay"]
      [] OTHER -> [Unlock(emu, core, "work") EXCEPT !.failed = failed]

ByteEnds ==
    /\ \/ At("byte") /\ (core.op # "delay" \/ MayFail(emu.abort, FALSE))
       \/ At("again") /\ MayFail(emu.abort, core.elapsed)
    /\ \E failed \in Failures(At("again")) : Core(emu, AfterCall(failed))

(* A TI-81: send_file_ti81() wakes the calculator up and writes the        *)
(* program into its memory.                                                *)
DirectTask ==
    /\ At("task") /\ Kind = "direct"
    /\ Core(emu, [core EXCEPT !.at = "byte", !.op = "delay"])

DirectEnds ==
    /\ At("loaded")
    /\ \E failed \in BOOLEAN : Core(emu, [core EXCEPT !.at = "end", !.failed = failed])

(* tilem_macro_load_main() reads a file; tilem_macro_play_main() runs the  *)
(* calculator itself, without the lock, for each key.                      *)
LoadMacroTask ==
    /\ At("task") /\ Kind = "loadmacro"
    /\ Core(emu, [core EXCEPT !.at = "end"])

NothingToPlay ==
    /\ At("task") /\ Kind = "macro"
    /\ Core(emu, Failed(core))

MacroKey ==
    /\ At("task") /\ Kind = "macro"
    /\ Core(emu, [Unlock(emu, core, "playing") EXCEPT !.left = MaxTransfers])

MacroRuns ==
    /\ At("playing") /\ core.calc = 0
    /\ Core(emu, [core EXCEPT !.calc = emu.calc, !.left = @ - 1])

MacroGoesOn ==
    /\ At("playing") /\ core.calc # 0
    /\ Core(emu, IF core.left > 0 THEN [Unlock(emu, core, "playing") EXCEPT !.calc = 0]
                 ELSE [core EXCEPT !.at = "end", !.calc = 0])

Tasks ==
    \/ SendFile \/ GetDirlist \/ ReceiveFiles \/ Prepare \/ IlpOpen \/ IlpCall \/ IlpClose \/ LinkEnds
    \/ ByteWaits \/ ByteEnds \/ DirectTask \/ DirectEnds
    \/ LoadMacroTask \/ NothingToPlay \/ MacroKey \/ MacroRuns \/ MacroGoesOn

CoreNext == EmRun \/ Main \/ Tasks
-----------------------------------------------------------------------------
(* The GUI thread.  An operation is a list of steps; each of these is done *)
(* under the lock, cancel_tasks() and what follows it are not only that.   *)

CancelTasks == <<"abort", "drain", "settle">>

LoadState == CancelTasks \o <<"dialog", "switch">>
Free == CancelTasks \o <<"exit", "join", "freed">>
Run == <<"resume", "thread">>
Steps(op) ==
    CASE op = "run" -> Run [] op = "cancel" -> CancelTasks
      [] op = "load" -> LoadState [] op = "free" -> Free
      [] OTHER -> <<op>>

Unlocked == {"thread", "drain", "settle", "dialog", "join", "freed", "limit", "break", "off"}
Changes == {"load", "options", "raw", "cooked", "nocable"}
Now(step) == gui.todo # <<>> /\ Head(gui.todo) = step
Done(g) == [g EXCEPT !.todo = Tail(@)]

GuiStarts ==
    /\ gui.todo = <<>>
    /\ \E op \in gui.ops \ {"break", "off"} :
          /\ op \in Kinds => Len(tasks) < MaxTasks
          /\ op \in Changes => gui.changes < MaxChanges
          /\ gui' = [gui EXCEPT !.todo = Steps(op),
                                !.changes = IF op \in Changes THEN @ + 1 ELSE @]
    /\ UNCHANGED <<emu, core, tasks, idle>>

(* tilem_calc_emulator_lock() counts first, then waits for the mutex.      *)
GuiWants ==
    /\ gui.todo # <<>> /\ ~gui.wants /\ Head(gui.todo) \notin Unlocked
    /\ emu' = [emu EXCEPT !.waiting = @ + 1]
    /\ gui' = [gui EXCEPT !.wants = TRUE]
    /\ UNCHANGED <<core, tasks, idle>>

(* load_state() ends with a new calculator, whose filter is made later.    *)
Switched(e) == [e EXCEPT !.calc = @ + 1, !.asleep = FALSE, !.filter = "none"]

(* What each operation does under the lock; a key wakes the calculator up. *)
Locked(step, e) ==
    CASE step = "pause" -> [e EXCEPT !.paused = TRUE]
      [] step = "resume" -> [e EXCEPT !.paused = FALSE]
      [] step = "key" -> [e EXCEPT !.asleep = FALSE]
      [] step = "audio" -> [e EXCEPT !.enable = ~@, !.error = FALSE]
      [] step = "options" -> [e EXCEPT !.options = @ + 1, !.stale = TRUE, !.error = FALSE]
      [] step \in {"raw", "cooked"} -> [e EXCEPT !.want = step, !.changed = TRUE]
      [] step = "nocable" -> [e EXCEPT !.want = "none", !.changed = TRUE]
      [] step = "abort" -> [e EXCEPT !.abort = TRUE, !.queue = <<>>]
      [] step = "switch" -> Switched(e)
      [] step = "exit" -> [e EXCEPT !.exiting = TRUE]
      [] step \in Kinds -> [e EXCEPT !.queue = Append(@, Len(tasks) + 1)]

Task(kind) ==
    [kind |-> kind, ran |-> FALSE, calls |-> 0, cancelled |-> FALSE, shows |-> FALSE,
     calc |-> 0]

Woken(c, waiting) == [c EXCEPT !.parked = @ /\ waiting > 0]

GuiEnters ==
    /\ gui.wants /\ ~CoreHolds
    /\ LET step == Head(gui.todo)
       IN  /\ emu' = [Locked(step, emu) EXCEPT !.waiting = @ - 1]
           /\ core' = Woken(core, emu.waiting - 1)
           /\ gui' = [Done(gui) EXCEPT !.wants = FALSE,
                        !.old = IF step = "abort" THEN emu.queue ELSE @,
                        !.list = IF step = "switch" THEN 0 ELSE @]
           /\ tasks' = IF step \in Kinds THEN Append(tasks, Task(step)) ELSE tasks
    /\ UNCHANGED idle

(* finishedf: a list is shown, unless there is nothing to show; when a     *)
(* macro has been loaded, playing it begins.                               *)
Finished(c, g) ==
    LET t == tasks[c.task]
    IN  /\ tasks' = [tasks EXCEPT ![c.task].calls = @ + 1, ![c.task].cancelled = c.cancelled]
        /\ gui' = [g EXCEPT
              !.list = IF t.kind = "list" /\ t.shows /\ ~c.cancelled THEN t.calc ELSE @,
              !.todo = IF t.kind = "loadmacro" /\ Len(tasks) < MaxTasks
                       THEN <<"macro">> \o @ ELSE @]

(* The rest of cancel_tasks(): the old queue, then task_busy under the     *)
(* mutex, which it takes without counting itself as waiting.               *)
Drained(t) == Callback(t, TRUE)

GuiDrains ==
    /\ Now("drain") /\ gui.old # <<>>
    /\ Finished(Drained(Head(gui.old)), [gui EXCEPT !.old = Tail(@)])
    /\ UNCHANGED <<emu, core, idle>>

GuiDrained ==
    /\ Now("drain") /\ gui.old = <<>>
    /\ gui' = Done(gui)
    /\ UNCHANGED <<emu, core, tasks, idle>>

\* Mutant: cancel_tasks() does not wait for a task that is running.
MutTaskRuns(e) == FALSE

TaskRuns(e) == e.busy

GuiAwaits ==
    /\ Now("settle") /\ ~gui.waits /\ ~CoreHolds /\ TaskRuns(emu)
    /\ gui' = [gui EXCEPT !.waits = TRUE]
    /\ UNCHANGED <<emu, core, tasks, idle>>

\* Mutant: cancel_tasks() does not wake up the core that has waited for it.
MutResumed(c) == c

Resumed(c) == [c EXCEPT !.parked = FALSE]

GuiSettles ==
    /\ Now("settle") /\ ~gui.waits /\ ~CoreHolds /\ ~TaskRuns(emu)
    /\ emu' = [emu EXCEPT !.abort = FALSE]
    /\ core' = Resumed(core)
    /\ gui' = Done(gui)
    /\ UNCHANGED <<tasks, idle>>

(* Without the lock: the thread is made once, limit_speed written, the     *)
(* dialog of an ambiguous ROM closed, the thread joined.                   *)
GuiUnlocked ==
    /\ gui.todo # <<>> /\ Head(gui.todo) \in {"thread", "limit", "dialog", "join"}
    /\ Now("join") => ~emu.thread \/ (core.at = "done" /\ ~core.parked)
    /\ emu' = [emu EXCEPT !.thread = @ \/ Now("thread"),
                          !.limit = IF Now("limit") THEN ~@ ELSE @]
    /\ gui' = Done(gui)
    /\ UNCHANGED <<core, tasks, idle>>

(* The main loop calls back when it is idle, also while a dialog is open.  *)
GuiIdle ==
    /\ idle # <<>>
    /\ gui.todo = <<>> \/ Now("dialog")
    /\ Finished(Head(idle), gui)
    /\ idle' = Tail(idle)
    /\ UNCHANGED <<emu, core>>

Freed == Now("freed") /\ UNCHANGED vars

GuiGoesOn ==
    \/ GuiWants \/ GuiEnters \/ GuiDrains \/ GuiDrained \/ GuiAwaits \/ GuiSettles
    \/ GuiUnlocked

Next == CoreNext \/ GuiStarts \/ GuiGoesOn \/ GuiIdle \/ Freed

(* The threads are scheduled; a user does not keep the GUI busy for ever,  *)
(* so that its idle callbacks are called.                                  *)
Spec == Init /\ [][Next]_vars /\ WF_vars(CoreNext) /\ WF_vars(GuiGoesOn) /\ SF_vars(GuiIdle)
-----------------------------------------------------------------------------
(* A task is in one place until it is called back: in the queue, in the    *)
(* queue that cancel_tasks() took, in the core, or with the GUI's idle     *)
(* callbacks.  It is called back once, as cancelled if and only if its     *)
(* main function never ran, whatever fails or is cancelled meanwhile.      *)
Places(t) ==
    Cardinality({i \in DOMAIN emu.queue : emu.queue[i] = t})
    + Cardinality({i \in DOMAIN gui.old : gui.old[i] = t})
    + Cardinality({i \in DOMAIN idle : idle[i].task = t})
    + (IF core.task = t THEN 1 ELSE 0)
TasksAccounted ==
    /\ emu.busy <=> core.task # 0
    /\ \A t \in DOMAIN tasks :
          /\ Places(t) + tasks[t].calls = 1
          /\ tasks[t].calls = 1 => tasks[t].cancelled = ~tasks[t].ran

(* emulator.h: cancel_tasks() cancels all pending tasks, and waits for one *)
(* that is running: the calculator is not replaced, nor the emulator freed *)
(* under a task.                                                           *)
CancelLeavesNone ==
    /\ Now("switch") \/ Now("exit") => emu.queue = <<>> /\ ~emu.busy
    /\ core.calc # 0 => core.calc = emu.calc

(* Options set while the core works without the lock are not lost: once    *)
(* taken, the sound device has the current options, and the cable is the   *)
(* current one or none.                                                    *)
OptionsNotLost ==
    /\ emu.device # 0 /\ ~emu.stale => emu.device = emu.options
    /\ At("audio") /\ ~emu.changed /\ ~emu.ilp => emu.cable \in {emu.want, "none"}

(* The GUI never hangs on the lock, on a cancelled task or on the exit of  *)
(* the core, although the core runs at full speed or naps.                 *)
GuiIsServed == (gui.todo # <<>>) ~> (gui.todo = <<>> \/ Now("freed"))

(* A task that was begun is called back, unless the emulator is paused or  *)
(* the calculator off; the core does not nap when it has something to run. *)
Napping == emu.paused \/ emu.asleep \/ ~emu.thread \/ emu.exiting
Pending(t) == t \in DOMAIN tasks /\ tasks[t].calls = 0
TasksServed ==
    /\ \A t \in 1..MaxTasks : Pending(t) ~> (~Pending(t) \/ Napping)
    /\ (core.parked ~> (~core.parked \/ Napping))

(* emucore.c:481: where the filter is fed, there is one.                   *)
FilterIsThere == At("feed") => emu.filter # "none"

(* link.c:1144: the variables of the dialog are those of the calculator.   *)
ListIsCurrent == gui.list \in {0, emu.calc}
=============================================================================
