----------------------------- MODULE CalcThread -----------------------------
(***************************************************************************)
(* The two threads of the application around one Calc object: the GUI      *)
(* thread, which calls the public slots of Calc and owns CalcScreen's LCD  *)
(* timer, and the emulator thread (CalcThread::run).  They share the flag  *)
(* `exiting', the mutex m_run, the pointer m_calc with its two LCD buffers *)
(* and the two bits of the Z80 that the sleep test reads without a lock.   *)
(*                                                                         *)
(* A slot of Calc is a sequence of GUI steps (op names the slot, gpc the   *)
(* point it has reached); a slot that calls CalcThread::stop() blocks the  *)
(* GUI thread in the loop of calcthread.cpp:26.  One call of Calc::run is  *)
(* the critical section "exec" of the emulator thread; what the Z80 does   *)
(* in it is a free choice of the bits other threads can see.               *)
(***************************************************************************)
EXTENDS Naturals, FiniteSets

CONSTANTS
    Roms,           \* outcomes of opening and identifying the file load() is given
    ResetSetsPower  \* the model's reset handler sets poweronhalt (TI-81: x1_init.c:59)

ASSUME RomsAssumption == Roms \subseteq {"good", "missing", "unknown"}
ASSUME ResetAssumption == ResetSetsPower \in BOOLEAN

VARIABLES
    op,          \* the slot the GUI thread is executing, or "none"
    gpc,         \* where it is in that slot
    rom,         \* the file given to load()
    tpc,         \* the emulator thread: "dead" is !isRunning()
    exiting,     \* CalcThread::exiting
    slice,       \* what line 91 chose: run_us(TIMEOUT) "full", run_cc(1) "step"
    mrun,        \* owner of the mutex m_run
    calc,        \* m_calc: "null" or "live"
    loadLock,    \* m_load_lock
    lcd,         \* m_lcd and m_lcd_comp are allocated
    made,        \* m_thread exists
    lcdTimer,    \* CalcScreen's 33 ms timer is active
    halted,      \* m_calc->z80.halted
    poweronhalt, \* m_calc->poweronhalt
    spent        \* history: slices begun since the pending stop() set exiting

guiVars == <<op, gpc, rom>>
thrVars == <<tpc, slice, spent>>
objVars == <<calc, loadLock, lcd, made>>
z80Vars == <<halted, poweronhalt>>
vars == <<guiVars, thrVars, objVars, z80Vars, exiting, mrun, lcdTimer>>

Ops == {"none", "load", "pause", "lcd", "key", "reset", "destroy"}
GuiLocked == {"fopen", "free", "new", "alloc", "lcdread", "keyact", "resetact", "drop"}
GuiWaiting == {"loadlock", "lcdlock", "keylock", "resetlock", "destroylock"}
GuiPcs == {"idle", "stopset", "stopwait", "start", "loaded", "gone", "crashed"}
             \cup GuiLocked \cup GuiWaiting
ThreadPcs == {"dead", "top", "top2", "sleep", "pick", "lock", "exec",
              "exitcheck", "clear", "finish"}

Init ==
    /\ op = "none" /\ gpc = "idle" /\ rom = "missing"
    /\ tpc = "dead" /\ slice = "none" /\ spent = 0
    /\ calc = "null" /\ lcd = FALSE /\ made = FALSE
    /\ loadLock \in BOOLEAN        \* the constructor leaves m_load_lock uninitialised
    /\ halted = FALSE /\ poweronhalt = FALSE
    /\ exiting = FALSE /\ mrun = "free" /\ lcdTimer = FALSE

-----------------------------------------------------------------------------
(* The GUI thread.                                                         *)

isRunning == tpc # "dead"

\* A slot begins when the event loop is free.
Begin(o, pc) == gpc = "idle" /\ op' = o /\ gpc' = pc
Done == op' = "none" /\ gpc' = "idle"
Goto(pc) == gpc' = pc /\ UNCHANGED op

\* QThread::start(): a no-op on a running thread.
StartThread == IF isRunning THEN UNCHANGED tpc ELSE tpc' = "top"

\* QMutexLocker on the GUI thread.
GuiLock(from, to) ==
    /\ gpc = from
    /\ mrun = "free"
    /\ mrun' = "gui"
    /\ Goto(to)
    /\ UNCHANGED <<rom, thrVars, objVars, z80Vars, exiting, lcdTimer>>

\* CalcThread::stop() sets the flag, then polls isRunning().
StopSet ==
    /\ gpc = "stopset"
    /\ exiting' = TRUE
    /\ spent' = 0
    /\ Goto("stopwait")
    /\ UNCHANGED <<rom, tpc, slice, objVars, z80Vars, mrun, lcdTimer>>

StopWait ==
    /\ gpc = "stopwait"
    /\ ~isRunning
    /\ \/ op = "pause" /\ Done
       \/ op = "load" /\ Goto("loadlock")
       \/ op = "destroy" /\ Goto("destroylock")
    /\ spent' = 0
    /\ UNCHANGED <<rom, tpc, slice, objVars, z80Vars, exiting, mrun, lcdTimer>>

\* load(): emit beginLoad() kills the LCD timer, then the thread is stopped.
LoadBegin ==
    /\ Begin("load", IF made THEN "stopset" ELSE "loadlock")
    /\ rom' \in Roms
    /\ lcdTimer' = FALSE
    /\ UNCHANGED <<thrVars, objVars, z80Vars, exiting, mrun>>

LoadLock == GuiLock("loadlock", "fopen")

\* The file cannot be opened: load() returns with the thread stopped.
LoadFopenFails ==
    /\ gpc = "fopen"
    /\ rom = "missing"
    /\ mrun' = "free"
    /\ Done
    /\ UNCHANGED <<rom, thrVars, objVars, z80Vars, exiting, lcdTimer>>

LoadFopen ==
    /\ gpc = "fopen"
    /\ rom # "missing"
    /\ loadLock' = TRUE
    /\ Goto("free")
    /\ UNCHANGED <<rom, thrVars, calc, lcd, made, z80Vars, exiting, mrun, lcdTimer>>

LoadFree ==
    /\ gpc = "free"
    /\ calc' = "null"
    /\ lcd' = (lcd /\ calc = "null")
    /\ Goto("new")
    /\ UNCHANGED <<rom, thrVars, loadLock, made, z80Vars, exiting, mrun, lcdTimer>>

\* tilem_calc_new() and tilem_calc_load_state(), which resets the machine.
LoadNew ==
    /\ gpc = "new"
    /\ rom = "good"
    /\ calc' = "live"
    /\ halted' = FALSE
    /\ poweronhalt' = TRUE
    /\ Goto("alloc")
    /\ UNCHANGED <<rom, thrVars, loadLock, lcd, made, exiting, mrun, lcdTimer>>

\* No model matches: tilem_calc_new() returns NULL and the next call uses it.
LoadUnknown ==
    /\ gpc = "new"
    /\ rom = "unknown"
    /\ Goto("crashed")
    /\ UNCHANGED <<rom, thrVars, objVars, z80Vars, exiting, mrun, lcdTimer>>

\* Mutant: the LCD buffers are not reallocated.
MutAllocNoLcd ==
    /\ gpc = "alloc"
    /\ loadLock' = FALSE
    /\ made' = TRUE
    /\ mrun' = "free"
    /\ Goto("start")
    /\ UNCHANGED <<rom, thrVars, calc, lcd, z80Vars, exiting, lcdTimer>>

\* LCD buffers, m_load_lock, m_thread, then lock.unlock().
LoadAlloc ==
    /\ gpc = "alloc"
    /\ lcd' = TRUE
    /\ loadLock' = FALSE
    /\ made' = TRUE
    /\ mrun' = "free"
    /\ Goto("start")
    /\ UNCHANGED <<rom, thrVars, calc, z80Vars, exiting, lcdTimer>>

LoadStart ==
    /\ gpc = "start"
    /\ StartThread
    /\ Goto("loaded")
    /\ UNCHANGED <<rom, slice, spent, objVars, z80Vars, exiting, mrun, lcdTimer>>

\* emit loaded(): CalcScreen::fileLoaded() restarts its timer and updates the LCD.
LoadEmit ==
    /\ gpc = "loaded"
    /\ lcdTimer' = TRUE
    /\ Goto("lcdlock")
    /\ UNCHANGED <<rom, thrVars, objVars, z80Vars, exiting, mrun>>

LcdTick ==
    /\ lcdTimer
    /\ Begin("lcd", "lcdlock")
    /\ UNCHANGED <<rom, thrVars, objVars, z80Vars, exiting, mrun, lcdTimer>>

LcdLock == GuiLock("lcdlock", "lcdread")

\* lcdUpdate() reads m_calc and fills m_lcd, unless m_load_lock or !m_calc.
LcdRead ==
    /\ gpc = "lcdread"
    /\ mrun' = "free"
    /\ Done
    /\ UNCHANGED <<rom, thrVars, objVars, z80Vars, exiting, lcdTimer>>

Pause ==
    /\ made
    /\ isRunning
    /\ Begin("pause", "stopset")
    /\ UNCHANGED <<rom, thrVars, objVars, z80Vars, exiting, mrun, lcdTimer>>

\* resume() and step() find the thread stopped and do not block.
Resume ==
    /\ gpc = "idle"
    /\ made
    /\ ~isRunning
    /\ StartThread
    /\ UNCHANGED <<guiVars, slice, spent, objVars, z80Vars, exiting, mrun, lcdTimer>>

Step ==
    /\ gpc = "idle"
    /\ made
    /\ ~isRunning
    /\ exiting' = TRUE
    /\ StartThread
    /\ UNCHANGED <<guiVars, slice, spent, objVars, z80Vars, mrun, lcdTimer>>

\* pressKey() and releaseKey() return at once when there is no calculator.
KeyBegin ==
    /\ calc = "live"
    /\ Begin("key", "keylock")
    /\ UNCHANGED <<rom, thrVars, objVars, z80Vars, exiting, mrun, lcdTimer>>

\* Mutant: pressKey() without its lock, the code before the ARM64 fix.
MutKeyNoLock ==
    /\ gpc = "keylock"
    /\ Goto("keyact")
    /\ UNCHANGED <<rom, thrVars, objVars, z80Vars, exiting, mrun, lcdTimer>>

KeyLock == GuiLock("keylock", "keyact")

KeyAct ==
    /\ gpc = "keyact"
    /\ mrun' = "free"
    /\ Done
    /\ UNCHANGED <<rom, thrVars, objVars, z80Vars, exiting, lcdTimer>>

\* reset() does not test m_calc.
ResetBegin ==
    /\ Begin("reset", "resetlock")
    /\ UNCHANGED <<rom, thrVars, objVars, z80Vars, exiting, mrun, lcdTimer>>

ResetLock == GuiLock("resetlock", "resetact")

ResetAct ==
    /\ gpc = "resetact"
    /\ calc = "live"
    /\ halted' = FALSE
    /\ poweronhalt' = (poweronhalt \/ ResetSetsPower)
    /\ mrun' = "free"
    /\ Done
    /\ UNCHANGED <<rom, thrVars, objVars, exiting, lcdTimer>>

ResetNull ==
    /\ gpc = "resetact"
    /\ calc = "null"
    /\ Goto("crashed")
    /\ UNCHANGED <<rom, thrVars, objVars, z80Vars, exiting, mrun, lcdTimer>>

\* ~Calc() frees the LCD buffers first, then stops the thread, then frees m_calc.
DestroyBegin ==
    /\ Begin("destroy", IF made THEN "stopset" ELSE "destroylock")
    /\ lcd' = FALSE
    /\ UNCHANGED <<rom, thrVars, calc, loadLock, made, z80Vars, exiting, mrun, lcdTimer>>

DestroyLock == GuiLock("destroylock", "drop")

DestroyFree ==
    /\ gpc = "drop"
    /\ calc' = "null"
    /\ mrun' = "free"
    /\ Goto("gone")
    /\ UNCHANGED <<rom, thrVars, loadLock, lcd, made, z80Vars, exiting, lcdTimer>>

-----------------------------------------------------------------------------
(* The emulator thread, CalcThread::run().                                 *)

ThreadGoto(from, to) == tpc = from /\ gpc # "crashed" /\ tpc' = to

\* The sleep test reads the Z80 twice, without m_run: isAsleep() ...
ReadAsleep ==
    /\ ThreadGoto("top", IF calc = "live" /\ halted /\ ~poweronhalt THEN "top2" ELSE "pick")
    /\ UNCHANGED <<guiVars, slice, spent, objVars, z80Vars, exiting, mrun, lcdTimer>>

\* ... and then getPowerOnHalt().  Nothing calls wakeUp(): "sleep" is final.
ReadPower ==
    /\ ThreadGoto("top2", IF calc = "live" /\ poweronhalt THEN "sleep" ELSE "pick")
    /\ UNCHANGED <<guiVars, slice, spent, objVars, z80Vars, exiting, mrun, lcdTimer>>

Pick ==
    /\ ThreadGoto("pick", "lock")
    /\ slice' = IF exiting THEN "step" ELSE "full"
    /\ UNCHANGED <<guiVars, spent, objVars, z80Vars, exiting, mrun, lcdTimer>>

\* The history variable counts to 2, which is already more than promised.
OneMore(n) == IF n < 2 THEN n + 1 ELSE n

EmuLock ==
    /\ ThreadGoto("lock", "exec")
    /\ mrun = "free"
    /\ mrun' = "emu"
    /\ spent' = IF gpc = "stopwait" THEN OneMore(spent) ELSE 0
    /\ UNCHANGED <<guiVars, slice, objVars, z80Vars, exiting, lcdTimer>>

\* Calc::run(): a non-zero result ends the loop of CalcThread::run().
Exec ==
    /\ \E stopped \in BOOLEAN :
          ThreadGoto("exec", IF stopped \/ calc = "null" THEN "clear" ELSE "exitcheck")
    /\ halted' \in BOOLEAN
    /\ poweronhalt' \in BOOLEAN
    /\ mrun' = "free"
    /\ UNCHANGED <<guiVars, slice, spent, objVars, exiting, lcdTimer>>

\* Mutant: the loop does not test exiting at its end.
MutExitCheckNone ==
    /\ ThreadGoto("exitcheck", "top")
    /\ UNCHANGED <<guiVars, slice, spent, objVars, z80Vars, exiting, mrun, lcdTimer>>

ExitCheck ==
    /\ ThreadGoto("exitcheck", IF exiting THEN "clear" ELSE "top")
    /\ UNCHANGED <<guiVars, slice, spent, objVars, z80Vars, exiting, mrun, lcdTimer>>

Clear ==
    /\ ThreadGoto("clear", "finish")
    /\ exiting' = FALSE
    /\ UNCHANGED <<guiVars, slice, spent, objVars, z80Vars, mrun, lcdTimer>>

Finish ==
    /\ ThreadGoto("finish", "dead")
    /\ UNCHANGED <<guiVars, slice, spent, objVars, z80Vars, exiting, mrun, lcdTimer>>

-----------------------------------------------------------------------------
\* A slot that has begun; nothing forces the user to call one.
GuiContinues ==
    \/ StopSet \/ StopWait
    \/ LoadFopenFails \/ LoadFopen \/ LoadFree \/ LoadNew \/ LoadUnknown
    \/ LoadAlloc \/ LoadStart \/ LoadEmit
    \/ LcdRead \/ KeyAct \/ ResetAct \/ ResetNull \/ DestroyFree

GuiTakesLock == LoadLock \/ LcdLock \/ KeyLock \/ ResetLock \/ DestroyLock

GuiBegins ==
    \/ LoadBegin \/ LcdTick \/ Pause \/ Resume \/ Step
    \/ KeyBegin \/ ResetBegin \/ DestroyBegin

ThreadContinues ==
    \/ ReadAsleep \/ ReadPower \/ Pick \/ Exec \/ ExitCheck \/ Clear \/ Finish

\* The Calc object is destroyed or the process has crashed.
Over == gpc \in {"gone", "crashed"} /\ UNCHANGED vars

Next ==
    \/ GuiContinues \/ GuiTakesLock \/ GuiBegins
    \/ ThreadContinues \/ EmuLock
    \/ Over

\* Both threads are scheduled.  The mutex is not a fair one, but each owner
\* leaves it free for long: the emulator thread sleeps while it is ahead of real
\* time (calcthread.cpp:112), the GUI thread between two events.
Fairness ==
    /\ WF_vars(GuiContinues)
    /\ WF_vars(ThreadContinues)
    /\ SF_vars(GuiTakesLock)
    /\ SF_vars(EmuLock)

SafeSpec == Init /\ [][Next]_vars
Spec == SafeSpec /\ Fairness

-----------------------------------------------------------------------------
(* Properties.                                                             *)

\* Types of the variables.
TypeOK ==
    /\ op \in Ops /\ gpc \in GuiPcs /\ rom \in Roms \cup {"missing"}
    /\ tpc \in ThreadPcs /\ slice \in {"none", "step", "full"} /\ spent \in 0..2
    /\ calc \in {"null", "live"} /\ loadLock \in BOOLEAN /\ lcd \in BOOLEAN
    /\ made \in BOOLEAN /\ lcdTimer \in BOOLEAN
    /\ halted \in BOOLEAN /\ poweronhalt \in BOOLEAN
    /\ exiting \in BOOLEAN /\ mrun \in {"free", "gui", "emu"}

\* The slots that touch the calculator and the Z80 core never run together
\* (calc.cpp:306-308: without the lock the two threads corrupt the state).
MutualExclusion == ~(tpc = "exec" /\ gpc \in GuiLocked)

\* The emulator thread never executes on a calculator that load() or ~Calc()
\* has freed or is rebuilding, although neither waits for the lock it holds.
ThreadUsesLiveCalc ==
    /\ tpc \in {"pick", "lock", "exec"} => calc = "live" /\ ~loadLock
    /\ gpc \in {"free", "new", "alloc", "drop"} => tpc = "dead"

\* lcdUpdate() never fills LCD buffers that load() or ~Calc() has deleted.
LcdReadSafe == gpc = "lcdread" /\ calc = "live" /\ ~loadLock => lcd

\* The GUI thread never waits for a mutex it holds itself: the reason load()
\* unlocks before emit loaded() (calc.cpp:538-542).
NoSelfDeadlock == gpc \in GuiWaiting => mrun # "gui"

\* The mutex m_run does what it is there for: the two threads keep out of each
\* other's way, and it never blocks the thread that owns it.
LockDiscipline == MutualExclusion /\ NoSelfDeadlock

\* Neither thread follows a pointer that a slot of the other has made invalid.
NoUseAfterFree == ThreadUsesLiveCalc /\ LcdReadSafe

\* The run control keeps its promise: emulation between start and end only, and
\* at most one more slice once stop() has set the flag.
RC == INSTANCE RunControl WITH
        phase <- IF tpc = "dead" THEN "stopped"
                 ELSE IF gpc = "stopwait" THEN "stopping" ELSE "running",
        spent <- gpc = "stopwait" /\ tpc # "dead" /\ spent = 1
Control == RC!Spec

\* The polling loop of stop() ends, so pause(), load() and ~Calc() do not hang
\* the GUI (calcthread.cpp:25-27).
StopReturns == gpc = "stopwait" ~> gpc # "stopwait"

\* A key press gets the lock between two slices, whatever the emulator executes.
KeyGetsIn == gpc = "keylock" ~> gpc = "keyact"

\* The GUI waits for the emulator thread in these two places, and never for ever.
GuiNeverHangs == StopReturns /\ KeyGetsIn

\* After a successful load the new calculator is executed at least once, unless
\* it is destroyed at once.
LoadedCalcRuns == gpc = "start" ~> tpc = "exec"

\* Both: the GUI gets its answers, and what it loaded runs.
CallsAreServed == GuiNeverHangs /\ LoadedCalcRuns

\* calc.cpp:545-548 calls the end of load() the restart phase that launches the
\* emulator thread: until another slot interferes it should execute full slices,
\* not the single clock of a step.
LoadRunsAtFullSpeed ==
    op = "load" /\ gpc \in {"loaded", "lcdlock", "lcdread"} /\ tpc = "exec" => slice = "full"
=============================================================================
