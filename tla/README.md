# TLA+ models of TilEm-Qml (SailfishOS)

TilEm-Qml is a QML front end for TilEm, an emulator of the Z80-based TI graphing
calculators.  This directory holds TLA+ models of its core logic, TLC
configurations that check them on small instances, and TLAPS proofs.  Paths
below are relative to the repository (`src/` in PROJECT.json stands for its root).

## 1. Inventory: parts, state, operations

What the SailfishOS build compiles: `tilem-core/emu` (static library),
`backend/modules/TilEm` (the QML types Calc, CalcScreen, TilemKeyMap, Skin ...),
`src/src` and the QML files.  `tilem-core/gui` (the GTK desktop emulator),
`tilem-core/gui-qt` (an older Qt front end), `tilem-core/db` (disassembler) and
`backend/modules/Utils` are in the tree and not built.

| Part | State | Operations | Interacts with |
|---|---|---|---|
| **Calc and CalcThread** (`calc.cpp`, `calcthread.cpp`) | `m_calc`, LCD buffers, `m_thread`, `m_run`, `m_load_lock`, `exiting` | load, pause, resume, step, reset, pressKey/releaseKey, lcdUpdate, destructor; the thread's loop | two threads share everything through the mutex `m_run`; some reads are unlocked |
| **LinkBuffer** (`linkbuffer.h`) | ring of 1024 bytes, overflow array | append, at, count, remove, take | two instances between the GUI side and Calc::run |
| **Link bridge** (Calc::run) | `m_link_lock`, `m_broadcast` | feeds the gray link from `m_input`, collects bytes into `m_output` | LinkBuffer, link.c, the Z80 run loop and its stop reasons |
| **Link port** (`emu/link.c`) | two lines on each side, gray link and link assist shift registers, flags, timeout | set lines, read/write byte, mode, send/get byte, timer callback | Z80 program on one side, gray link on the other |
| **CalcLink / FileSender** (`calclink.cpp`) | queue of files, sender thread, `_link_abort` | send, abort, run | cable code compiled out in this build |
| **Z80 timers** (`emu/z80.c`) | array of timers with a free list and two sorted lists threaded through it, 32-bit clock | add, set, unset, remove, fire, set speed | every timed device; callbacks set timers again |
| **Z80 core** (`z80.c`, `z80main.h`, `z80cmds.h`, `z80cb.h`, `z80ed.h`, `z80ddfd.h`) | registers, IFF, halted, interrupt lines, breakpoints, stop reason | run loop, interrupt acceptance, HALT fast-forward, breakpoint checks, instructions | memory and I/O handlers of the model |
| **User timers** (`emu/timers.c`) | per timer: frequency, loop counter, status | set frequency/mode, start, read, expiry | Z80 timers, interrupts |
| **Flash** (`emu/flash.c`) | command state machine, busy phase, unlock, protection | write, read, erase, delays | Z80 timers, memory map |
| **LCD controllers** (`emu/lcd.c`, `xc/xc_lcd.c`) | row/column counters, mode, busy flag; windows, registers, pixel under assembly | control, read, write, frame | Z80 timers |
| **Keypad and key input** (`emu/keypad.c`, `gui/event.c`, `gui/keypaddlg.c`, `gui/emulator.c`, `calc.cpp`) | keys down, groups, ON key; pointer, host keys, key queue with its timer | press, release, queue, group select, read | GUI thread, Z80 timers, interrupts |
| **Models** (`x1` ... `xz`) | ports, bank registers, memory map, protection state, delays, clock, backlight | port in/out, memory read/write, reset | all devices |
| **State files, ROM identification, certificate** (`state.c`, `rom.c`, `calcs.c`, `cert.c`, `gui/emulator.c`) | ROM file, state file, registers, timers | load, save, revert, guess, repair | all devices |
| **Core thread and tasks** (`gui/emucore.c`, `gui/emulator.c`, `gui/link.c`, `gui/macro.c`) | emulator record, task queue, options, cable, audio filter | run, pause, cancel, load, free, begin a task, set an option | GUI thread and core thread share `calc_mutex` with windows without it |
| **Audio** (`emu/audio.c`, `gui/audiodev.c`) | accumulators, sample buffer, ring of chunks | line changes, timer, buffers; callback of SDL | link port, core thread, the thread of SDL |
| **Debugger and breakpoints** (`z80.c`, `gui/debugger.c`, `gui/breakpoints.c`, `calc.cpp`) | lists of breakpoints; items of the debugger, temporary breakpoint | add, remove, enable, change; step, step over, finish, run | run loop, GUI idle callbacks |
| **Disassembler** (`db/disasm.c`) | tables of symbols and instructions | add, find, disassemble | debugger |
| MD5 assist, gray LCD and images, skins, settings, key map, QML, GTK windows | | | not modelled, see section 7 |

### What is hard here

*Threads.* The GUI thread stops, frees, rebuilds and restarts the machine that
the emulator thread executes.  `stop()` is a flag and a polling loop; the flag is
cleared only by the thread, so a stop that finds the thread dead leaves it set.
The desktop emulator has a lock instead, but its core gives it up while it
sleeps, opens a device or lets a task work, and options, tasks and calculators
change in these windows.

*Cross-layer byte transfer.* One byte goes through LinkBuffer, a batch loop, a
two-line handshake with no clock, a stop reason and a lock flag; either side can
be in the middle of its own byte.

*Time.* Devices are driven by two timer lists over a clock that wraps; a callback
that is late reschedules from when it should have fired; speed changes rescale
pending timers; programs poll busy flags that a timer clears.

*Persistent memory.* Flash commands arrive as individual writes of an unlock
sequence, while a previous program or erase operation may still be busy.  State
files hold what the models' tables say, and saving or loading may fail half way.

*Many hands on one thing.* Pointer, host keys, a queue with a timer, the keypad
dialog, resets and other calculators press and release the same keys; several
clients set breakpoints in lists that are walked while they change.

*Derived state.* Banks, limits and delays are computed from ports and kept apart
from them; six functions compute anew which byte an address names.

PROJECT.json lists each hazard with its line and the properties that cover it.

## 2. Plan

The order followed what can hurt a user most: threads, then bytes that cross
layers, then what keeps data, what keeps time, and what only answers a program.

| # | Component | Modules | Abstract specification | State |
|---|---|---|---|---|
| 1 | threads of Calc | CalcThread | RunControl | checked, safety and refinement proved |
| 2 | byte queue of the cable | LinkBuffer | ByteQueue | checked, safety and refinement proved |
| 3 | link port, gray link, bridge | LinkLines, LinkPort, LinkBridge | | checked, safety proved |
| 4 | Flash | Flash | | checked, safety proved |
| 5 | Z80 timers and run loop | Z80Timers | TimerQueue | checked, safety and refinement proved |
| 6 | instructions | Z80Alu, Z80Cpu, Z80Programs | the integers | checked |
| 7 | interrupts, user timers, protected ports, paging, delays, clock, LCDs, backlight | Interrupts, UserTimers, PortProtection, HwModels, MemoryMap, DelayPorts, ClockRegisters, LcdDriver, XcLcd, XcFrame, Backlight | | checked, safety proved |
| 8 | keypad and key input | Keyboard | | checked, safety proved |
| 9 | ROM and state files | Ports, SavedState | | checked |
| 10 | core thread and tasks | EmuCore | | checked, safety proved |
| 11 | audio | AudioFilter, AudioDevice | | checked; the ring proved |
| 12 | breakpoints, debugger, disassembler | Breakpoints, Debugger, Disassembler | | checked; lists and stops of breakpoints proved |

Left: in models, FileSender's queue of files.

Small components that do not act on each other share a module for TLC
(`MCCalc`, `MCEmuCore`, `MCDevices`, `MCHardware`, `MCCpu`): the variable `part` chooses
one of them for a behaviour and the others stand still.

## 3. Modules and the code

The correspondence of single definitions and lines is the "map" of
PROJECT.json.

### Threads

**CalcThread** (`calcthread.cpp`, `calc.cpp`, `calcscreen.cpp`).  The GUI thread
is the pair (`op`, `gpc`): the slot it executes and the point it has reached; the
emulator thread is `tpc`.  Steps are cut where the other thread can act: at each
acquisition and release of `m_run`, at each unlocked access to shared state.
`LoadBegin` ... `LoadEmit` are Calc::load() with its two failures; `StopSet` and
`StopWait` are CalcThread::stop(); `ReadAsleep` and `ReadPower` are the two
unlocked reads of the sleep test; `Exec` is one call of Calc::run() under the
mutex, after which the Z80 bits that other threads can see are arbitrary.
`LoadEmit` goes on to the lock of lcdUpdate() because `loaded()` is delivered
synchronously.  `m_load_lock` starts with any value: the constructor does not set it.
**RunControl** is what the threads promise together: stopped, running, stopping,
with at most one slice begun while stopping.

**EmuCore** (`gui/emucore.c`, `gui/emulator.c` and the tasks of `gui/link.c`
and `gui/macro.c`).  `core` is the core thread with the locals of its
functions, `gui` what is left of the operation of the GUI thread: a sequence of
steps, each of which holds the lock from its beginning to its end.  `emu` is
TilemCalcEmulator, `tasks` every task ever begun, `idle` the idle callbacks.
Each release of `calc_mutex` in the core is a point where GUI steps come between.
**MCEmuCore** chooses what a user does in one behaviour; beside it, it runs the ring of
LinkBuffer and LinkPort, the two ends of a transfer, which meet only in LinkBridge.

### Bytes

**LinkBuffer** (`linkbuffer.h`).  `d`, `base`, `count`, `overflow` are the members
of the class.  Each method locks by itself, so `Commit` (remove()) and each `Copy`
(at()) are steps of their own and writers come between.  **ByteQueue** is a
queue of bytes of which any number can be taken at once.

**LinkLines** (`emu/link.c`) is the functional core: the record of the port with
both lines, the shift registers of the link assist and of the gray link, flags,
interrupts, stop reasons and the timeout timer; operators carry the names of the
functions.  `Turn` is one round of the loop of dbus_update(), `Loop` the rounds up to
`MostTurns`, after which a loop that was still going would be cut off: LinkProofs shows
that none is.  **LinkPort** drives
it with any program and any use of the gray link; one port access or call is one
action.  **LinkBridge** extends it by Calc::run()'s loop (`TopLocked`, `TopSend`,
`BatchSend`, `BatchEnd`, `TopGet`, `EmuEnd`, `After`, `AfterError`), the host and
programs that behave as the ROMs' link routines do: those are outside the
repository and marked external.  **MCCalc** runs the threads of Calc and the bridge side
by side.

### The processor

**TimerQueue** is what tilem.h promises of timers: clocks left, order, no drift, and
which callback runs (`fired`, without which a timer that fires out of turn could not
be told from one that is stopped and set).
**Z80Timers** (`emu/z80.c`) is the array with the `next`/`prev` links, the free
list, a clock register modulo `Wrap` and the comparison window `Late`;
`Execute`, `Fire`, `NoneOverdue`, `Interrupt`, `Sleep`, `Loop` are the phases of
z80_execute(), `Run` and `Finish` tilem_z80_run() and tilem_z80_run_time(), and
`PortSets...` and `Handler` what port handlers and callbacks do.  `q` is the queue the array
stands for: a function of the array, kept in a variable so that it is computed
once per step.

**Z80Alu** (`z80cmds.h`) has the operations on operands and flags; **Z80Cpu**
(`z80main.h`, `z80cb.h`, `z80ed.h`, `z80ddfd.h`) the tables of instructions as
operators on a record of the registers, the memory, the clock and the ports;
**Z80Programs** programs of one to three instructions with interrupts between the
rounds of block instructions, each kind for one property.  The rule for DAA was
compared with all 2048 entries of `daa_table`.  **Disassembler** (`db/disasm.c`) has the sorted
table of symbols with its binary search, and for each instruction its length and
the address that its text names; its tables were compared entry by entry with
those of the source.

**Breakpoints** (`z80.c`) is the array with one list per kind of access, the list of
disabled and that of free entries, and the walk that tests the entries of a list
while a test may change it.  **Debugger** (`gui/debugger.c`, `gui/breakpoints.c`,
`gui/disasmview.c`, Calc's breakpoint slots) are the clients, with all that they do: items
and steps together, changes of type in place.  The program
goes on, jumps, calls, returns, stores or halts as it likes.  `outcome` and `spoilt` are
histories: what came of the last instruction, against what the user asked for (`Stops`),
and whether the type of an entry was ever changed while its `prev` was set.
**MCCpu** runs timers, instructions and breakpoints side by side.

### The hardware

**HwModels** is the table of the twelve calculators; each module below has the code of
every calculator that has the part, under its two-letter directory name.

* **Interrupts** (`x?_io.c`, `z80.c`): masks, acknowledgement, timers and ON key,
  and one iteration of z80_execute() around EI and HALT.
* **UserTimers** (`timers.c`): `Start`, `SetFrequency`, `SetMode`, expiry late by
  some clocks, and the value read back.
* **PortProtection** (`x?_memory.c`, `x?_io.c`): the reader's PROTECTSTATE, the lock
  of port 14, and the limits; `matched` is the history of prefixes actually read.
* **MemoryMap** (`x?_io.c`, `x?_memory.c`, `x?_init.c`): `Mapping` computes the banks from
  the registers, `Read`, `Ltop`, `Ptol` and the writers which byte an address means.
* **DelayPorts**, **ClockRegisters**, **Backlight**: ports that derive other state,
  and timers.
* **LcdDriver** (`lcd.c`): T6A04 and T6A43; **XcLcd** (`xc/xc_lcd.c`): ILI9335 with its
  cursor and windows; **XcFrame**: which column of memory a column of the screen shows.

**MCHardware** runs one part on one calculator.  **Flash** (`emu/flash.c`): `state`,
`busy`, `unlock`, `override` are the fields of
the chip's record, `delay` says its timer is set.  One write of the program is one
of the `Write...` actions, according to the state the chip is in; `Read` is a read
that ends a sequence; `DelayOver` is the timer's callback; `SetUnlock` and
`SetOverride` stand for the model's ports; `Reset` does not clear the timer, and
leaves or presets the override group as the models do.

### Keys, files and sound

**Keyboard**: `down` is the keypad; `pointer`, `codes`, `seqkey`, `queue`,
`hold`, `pressed`, `cur` are the fields in which the front end remembers who
pressed what; `held` and `pending` are histories.  A handler is a step because it
holds the emulator's lock.  On the phone one finger presses through
Calc::pressKey().  `ReadKeys` is the fixed point of the matrix with ghost keys.

**Ports** has, per model, which registers an input shows and an output sets;
**SavedState** the two files, both state formats, the choice of a model,
saving and loading with failures at each step, and the repair of the
certificate page after a load (`CertificateValid`, `FixCertificate`).

**AudioFilter** (`emu/audio.c`) has the accumulators, the timer and the
buffer; **AudioDevice** (`gui/audiodev.c`) the ring of chunks with its semaphore
between the core and the thread of SDL: the core's states are `get`, `wait`,
`fill`, the player's `paused`, `idle`, `loop`, `done`, `dead`.  Frames are
numbered; a byte that was never written shows as a frame that is not the next.
**MCDevices** runs chip, files, keys, filter and ring side by side.

## 4. Runs

| Run | Module | Shows |
|---|---|---|
| `calc` | MCCalc | with all interleavings: no use of a freed calculator or LCD buffer, no self-deadlock, RunControl implemented; stop() returns, a key press gets the lock, a loaded calculator is executed. The bridge: nothing lost, doubled or reordered at any instant; everything delivered |
| `thread_restart` | CalcThread | (violation) after a load with the thread stopped the new calculator executes one clock and stands still |
| `bridge_stall` | LinkBridge | (violation) both directions wait for ever if both talk at once |
| `bridge_ends` | LinkBridge | (violation) a byte completed by the last instruction of a slice ends the thread |
| `desktop` | MCEmuCore | tasks are called back once, none outlives a cancel, options set in a window without the lock are not lost, neither thread waits for ever. The ring implements ByteQueue under an interleaved reader; the port: half duplex, timeouts armed, honest interrupts, whole bytes in one call |
| `desktop_audio` | MCEmuCore | (violation) a calculator loaded while the sound device is open leaves the device without a filter |
| `devices` | MCDevices | chip, files, keys, filter, ring: see below |
| `hardware` | MCHardware | ten parts on the calculators that have them: see below |
| `frame_scroll` | MCHardware | (violation) a scrolled base image begins three times as far on as R6A says |
| `cpu` | MCCpu | the timers implement TimerQueue; instructions against the integers, listing and breakpoints |
| `cpu_overflow` | MCCpu | (violation) ADC HL, rr and SBC HL, rr do not flag an overflow |
| `cpu_breakpoints` | MCCpu | (violation) after changes of type in place a list of breakpoints runs in a circle |

Some properties of the shared modules are made of one per part:

| Property | Parts |
|---|---|
| `ChipSound`, `ContentsGuarded`, `BusyEnds` | Flash: types, polling tells the truth; protection and whole-sector erases; busy phases end |
| `KeyboardSound`, `KeysServed` | every key that is down has somebody who releases it (KeysOwned), keys are typed in order (QueueOrdered), the phone's key stays down under the finger (FingerPresses); queues drain |
| `AudioSound`, `SoundFlows` | the ring: PlayedInOrder; frames that were written are played |
| `DataSound` | what state files keep and which certificate results (StateSound), the reading of the keypad against its wires (ReadsConnected), samples against the lines (SignalSound) |
| `PortsSound` | pages exist, banks follow registers, both translations are inverse and agree with reads; delays and limits are what the ports say |
| `LcdsSound` | T6A04: a write stays in its word and row, a read keeps nothing from outside of the display memory and fetches one byte past it at the last 6-bit word of the last row only, the busy bit is timed; ILI9335 pixels are whole; the backlight goes out |
| `PicturesSound` | windows and cursor of the ILI9335, and the columns of a frame: as the registers say, but scrolled by three times VL (`frame_scroll`), and flipped only where the code mirrors (`Mirrors`, section 6) |
| `TimersSound` | types, the three lists sound, sorted and disjoint, and what remains of a run exact |
| `BreakpointsSound` | until a change of type spoils a list: the lists stay well formed; an instruction stops the program where and only where asked, but for opcodes when step over replaces its entry in it |
| `WaitsSound`, `PortServesProgram` | the link port: half duplex, timeouts, interrupts; after an access of the program nothing is left to update, and a change of mode leaves a port that can be used |
| `LockDiscipline` | mutual exclusion and no self-deadlock |

### Bounds and why they are enough

* CalcThread is finite as it stands: one slot at a time, one thread, three
  outcomes of opening a ROM.  `ResetSetsPower = FALSE` is every model but the TI-81.
  With `TRUE` a sleep can be reached, from which the thread never wakes because
  nothing calls wakeUp(): `CallsAreServed` says nothing of that model, while the
  proofs, which are about safety, hold for both values.
* EmuCore: at most two tasks (one running and one waiting, or one cancelled
  and one begun after it), two changes of options (so that one falls into a window
  and one behind it), two transfers of a task.  Each set of `Users` is the smallest
  that brings one conflict about.  Spurious wakeups of conditions are left out.
* LinkBuffer has a ring of 3 slots where the source has 1024, and at most 6 bytes
  held: every position of the base, every amount of overflow up to a second ring
  and refills that empty the overflow or leave some.  Writes of up to 2 bytes
  straddle the end of the ring.  The proofs hold for every size.
* LinkPort and LinkBridge have bytes of 2 bits: a first, with its idle lines, and
  a last one.  LinkPort takes all of them, LinkBridge the two that read differently
  backwards.  The modes of LinkPort are sets of bits that the ports of the TI-84
  Plus (`x4_io.c`) can write; each interrupt occurs in one of them, with the assist or
  without.  LinkBridge exchanges bursts of up to 3 bytes, which a batch of Calc::run
  splits, and 4 bytes in all; the violations need 2.
* Z80Timers has a clock of 7 values that wraps in every run, a window of 3 (the
  longest instruction takes 2, so nothing is later than that: `NothingPassed`
  proves the relation for all values), one hardware timer that handlers set in
  either list, once or periodically (`Sets` names counts and periods), one allocated
  timer besides the one of the run, and two speeds with real rounding.
* Z80 instructions: bytes and words at the borders of each carry, half carry, sign
  and overflow, every opcode under every prefix, programs of at most three
  instructions, two interrupts, and origins in RAM and at the wrap of the program
  counter; `MaxClock` only ends programs that loop.
* Breakpoints: two addresses, a depth of calls of 1, two items of the debugger with
  two entries each, or one item with every way to step and run, or two slots of Calc
  with every change of type and address.  `cpu` follows a behaviour until a list
  is spoilt (CONSTRAINT `Unspoilt`), since BreakpointsSound says nothing of what comes after;
  `cpu_breakpoints` follows the slots beyond that.
* Flash has the two addresses the command sequences name, a third in a protected
  sector, and two bytes to be programmed that are not commands; all commands are
  enumerated besides.
* Hardware: for every kind of port the values that separate the cases of its
  code; all twelve calculators for paging.  The T6A04 has three rows, both widths and a
  command of every kind; the ILI9335 a screen of 3 by 2, windows smaller than it, and registers
  that can hold one more row and column than it has; a frame 4 columns; the clock words of 4 values, so that it wraps; `LateBy` = 2.
* Keys: ON, two keys of a row and one of the next, which a row and a column
  connect; two host keys that mean one key or a sequence of two by their modifiers;
  `MaxEvents` = 6 things a user does.  `ReadsConnected` takes all subsets of five keys.
* Files: `MaxOps` = 5 is load, change, save, one that fails, load again.  A
  certificate has two halves of 12 bytes instead of 8 KiB with shorter tables;
  `Lefts` has clocks left just above and below what rounds to a microsecond, and overdue.
* Filter: 6 subticks in a microsecond, 2 microseconds in the unit of the clock speed, 20
  in a second, a filter of 30 subticks, rates of 7 and 9: neither divides the
  second, so accumulators drift as in the source.  At most 4 frames, 2 changes.
* Ring: chunks of 2 or 4 frames, latencies of 3 and 8 frames, 12 frames written: the ring
  is gone round, and 2 silences in which SDL finds no chunk.  The proof holds for all.

### Fairness

* CalcThread: weak fairness of each thread while it has no lock to wait for.
  Strong fairness of taking `m_run`: a QMutex is not fair, but its owners leave it
  free for long, the emulator thread while it sleeps ahead of real time
  (calcthread.cpp:112), the GUI thread between two events.
* EmuCore: both threads are scheduled (weak); the GUI comes to its idle
  callbacks again and again if it can (strong): a user does not keep it busy for ever.
* LinkBridge: the thread runs on and the program gets to each access it waits for,
  because a slice executes thousands of instructions.  Where ENABLED would
  evaluate `Update`, this is written with the guard: if the guard holds again and
  again the step is taken again and again.  `Restart` (the user resumes an ended
  thread) is fair too; without it `bridge_ends` is the end of every transfer.
* Flash, Interrupts, Keyboard: their Z80 timers fire (`DelayOver`, `Timer1Fires`,
  `TmrKeyQueue`), because the emulator executes instructions or skips to the next timer.  A program may prolong
  the wait before an erase for ever, each erase sets its timer again: `BusyEnds` is about
  programs that stop erasing.
* AudioDevice: SDL calls back once unpaused, and the core is woken when a chunk is
  ready (`Plays`, `BufferReady`).  The semaphore's timeout of one second
  (`BufferTimesOut`) is taken only if the thread of SDL is dead.

## 5. Proofs

Each is checked by TLAPS for every value of the constants that satisfies the
named assumptions of its module.  Assumptions say what the code's types and tables
guarantee: `RomsAssumption`, `SizeAssumption`, `ChipAssumption`,
`Port3Assumption`, `ByteAssumption` (what is written to a port is a byte),
`WordAssumption`, `LcdAssumption` (the two widths of a row that exist; commands name
existing rows), `LevelsAssumption`, `KeyboardAssumption` (scancodes are 1 to 64, a
binding is a sequence of keys), `WidthAssumption` and `ModesAssumption` (a byte has
bits; modes are sets of the mode bits, none set among them), `ScreenAssumption`
(registers of the ILI9335 hold what their masks in xc_lcd.c leave, which covers the screen),
`ClientsAssumption` (items of the debugger and slots of Calc belong to two front ends and are
not used on the same calculator), `AsksAssumption` and `AddressAssumption` (what a breakpoint
can be set on),
`FrameAssumption` (a partial image begins and ends below twice the screen; the unit of
columns is not wider than a line) and `TimerAssumption`: the longest time that is set,
at every speed, fits the clock with the window of late timers; no speed is below the one
kilohertz of the unit; an instruction is shorter than that window, and than a quarter of
the clock; a run counts less than half the clock; the array of timers grows at most once.
In the source the clock has 32 bits, the window is 10000 and times are below seconds.

The provers cannot instantiate an induction theorem.  Where a loop needs induction
(the doublings that lay out the ring of the sound device, the rounds of
dbus_update(), the walk through a linked list of timers, the way of a cursor through its
window, the walks through lists of breakpoints), `Smallest` (`Least` in Z80TimersProofs
and DebuggerProofs) finds the least element of a set of numbers, from the
well-foundedness of finite sets that FiniteSetTheorems states about sets, and `Induct`
follows from it.

**CalcThreadProofs.**  `TypeCorrect`, `ThreadsExclude`, `PointersLive`, `ControlImplemented`.  The inductive
invariant has one conjunct per reason:
`LockInv` ties the owner of the mutex to the program counters; `OpInv` ties a slot
to the points it can be at; `DeadInv` says that the thread is dead between the end
of stop() and the start (nobody else can start it, because only the GUI thread
does and it is busy); `LiveInv` that a thread that is not dead has a calculator, and that a calculator
once loaded is missing only in the middle of a load and after the end;
`LcdInv` that a calculator has its LCD buffers, except while they are allocated and
once the destructor has deleted them; `SpentInv` that the flag a stop() waits behind
stays set until the thread is ending, and that after its one slice the thread can
only end.

**EmuCoreProofs.**  `TypeCorrect` and `NoTaskLost` rest on `SafeInv`: types, the label
of the core thread against its task (`WhereInv`), what the GUI waits for
(`WantsInv`), the place of each task that has not been called back (`TasksInv`) and that a
queue taken by cancel_tasks() will be called back (`TodoInv`).  `OptionsKept` adds
`OptionsInv`: the options a device under construction was given are the current ones or
marked stale, without which the window in which the device is opened would lose
a setting.  `NoneUnderSwitch` adds `CancelInv`: after the queue was taken no task
waits, after the core has settled none runs.  It has the condition
`NoMacroLoaded`, and needs it: the callback of the task that loads a macro begins
another task, and with {run, loadmacro, load} and a third task TLC finds one that runs
under a switched calculator.

**LinkBufferProofs.**  `TypeCorrect`, `OverflowCorrect`, `RingCorrect`: whatever the size of
the ring and the interleaving, bytes overflow only behind a full ring.
`QueueImplemented`: the ring implements ByteQueue.  `Contents` (the ring from its base, then the
overflow) is the queue; one lemma says that an append puts its bytes at the end,
one that a removal drops as many from the front, including those that move from the
overflow into the ring; `ReaderInv` says that what a reader has copied so far is still the
front although writers came between.

**LinkProofs.**  `PortCorrect`: the port is sound for bytes of every width, under any program.
`PortInv` is `GoodPort` at every point of an operation (types; one direction of each side at a
time, `Steady`; a count of bits that fits, `Counted`; a timeout for each wait, `Timely`)
and `Honest`, what the interrupts say, at its end.  `Timely` is about the
calculators whose assist has a timeout; that of the TI-83 Plus has none (xp_init.c:54).
`UpdateEnds`: the do-while loop of dbus_update() ends.  `Left` counts what is left to
do (bits to be sent, room for bits to be received, steps of the handshake in progress);
`TurnsFewer` says that it falls in each turn that changes a line, and
`LeftIs` that it is at most 2 * Width + 2.
`BytesConserved` and `BytesWhole`: `NothingLost` and `BytesStayWhole` of the bridge, with
bytes of every width, every program kind, host and program sending in turns or at will.
`BridgeInv` names the bytes that are on their way: `ins` to the program, `outs` to the host,
such that heard, `ins` and m_input are what the host sent, and m_output and `outs` what
the program said (`Accounted`; of a program that gives bytes up, a subsequence).  `Track`
says where in the port they are.  A program that drives the lines is in one of eight
phases of the handshake (`ByHand`: at rest, a bit offered or taken, a bit put, put too early
for a gray link that still holds a byte, the pause between bits, both sides
beginning at once, both lines pulled); of one that uses the assist, `Settles` has the
four in which dbus_update() can end, and `ByAssist` those in the middle of its loop as well.
`TurnCarries` is the induction step of that loop, `HandUpdate` says that without
the assist it is one turn.  `Received` (the bits at the end of the assist's shift register)
is what makes a byte half shifted in comparable with one half taken by a program.
An error can be raised only while both lines are pulled, which is why resetting the gray link
in the middle of anything else, which would lose a byte, does not happen.

**Z80TimersProofs.**  `TimersAlwaysSound`, `TimersImplementQueue`, `NothingPassed`: whatever
handlers set, remove, allocate and free, at every change of speed and through every
wrap of the clock, the three linked lists stay sound, sorted and disjoint, a run ends
exactly when what was asked has passed, each step is a step of TimerQueue or a
stutter, and no timer is ever later than one instruction.  That is why the
window of 10000 clocks in which check_timers() recognises what is overdue is never
exceeded.  The inductive invariant has four parts:

* `Structure`: the lists are threaded through the array (`Threaded`: the list is
  given by a function that counts its places, with matching `prev` and `next`), the
  free ones are a list too, and the queue of the abstract specification is what the lists
  say (`QueueOf`).  One lemma each says what insertion, removal, allocation with growth
  of the array, and freeing make of a threaded list.
* `Timed`: what each timer has left, by the point z80_execute() is at: at least
  minus one instruction while timers are being checked, positive when the next
  instruction begins.  `RtBound` keeps what real-time timers have left small enough
  to be rescaled without overflow when the speed changes.
* `Control`: as long as a run has not been asked to stop, its timer is pending.
* `History`: what is owed to a run is its count less what has passed (`Owing`),
  modulo the width of the clock; it is never below minus two instructions, hence
  the difference of 32 bit clocks that run() takes is the real one.

**HardwareProofs.**  A behaviour of MCHardware is one of a part, so each theorem has
the invariant of the variables of its part.

* `InterruptsCorrect`: `CalcInv`, types of the record with, for each program
  point, what the stack and IFF are there: EI is followed by one instruction
  without an interrupt, which is why a handler returns before it is entered again.
* `SequenceUnlocks`: `ProtInv`, the state of the reader is one of the prefixes that
  really were read last.  The converse is false: a sequence that begins inside a
  failed one is missed.
* `ClockShowsTime`: `ClockInv` are types; the proof is the arithmetic of differences
  modulo the width of the clock.
* `PortsCorrect`: `MapInv` (registers are bytes, banks are pages that exist and
  follow the registers, after each reset and write), `DelayInv`, and the limits of the
  protected ports.  That both translations are inverse rests on lemmas on the parts of an
  address (`AddressParts`) and on which banks show a page (`PagesAt`, `PagesFound`, and for
  the SE and later, whose bank 3 overlays the others, `SilverAt`, `SilverFinds`).
* `UserTimersCorrect`: `UserInv`, a timer runs only at a frequency that exists and
  its period is that of its flags.  The counter that is read is compared with what
  was written by two lemmas on rounding division, `ClocksAgree` and `CrystalAgrees`.
* `LcdsCorrect`: `LcdInv`, the counters leave their range by one at most, so that the wrap
  at the next command finds a byte of the row (`Place`, `OneRow`); `ColourInv` and `LightInv`.
  The one byte past the display memory that a read fetches is a part of the statement.
* `PicturesCorrect`: windows, cursor and frames for screens of every size.  `CursorInv` keeps
  registers within their masks.  `Rank` and `At` number the places of a window in the
  order of the walk; `NextCursor` is then the successor modulo the number of
  places (`RankOfCursor`), so that as many pixels as the window has fill each place once
  and bring the cursor back (`WalkedRound`), in all eight directions.  Of a frame, `Scrolled`
  says what the one or two pieces show that fill_scrolled_image() copies when an image
  wraps or is flipped, `PartialIs` what a partial image covers, and `RowIs` puts them together;
  `RowStays` is about the row behind the one that is filled.

**DevicesProofs.**

* Of Flash, `TypeCorrect`, `BusyTimed`, `ProtectionHolds`, `BitsSetBySectors`,
  `ContentsSafe`, `PollingWorks` and `ChipIsSound`, for every chip layout and protection map.
  `PollingWorks` needs the strengthening `PollInv`: while a program polls, no write has
  been accepted, so the chip is idle or programming, and unless it is in the error state
  the contents at the address are the byte programmed.
* `SoundCorrect`: the device plays every frame once, in order, within its latency, and
  the core never writes where SDL may be reading.  `RingInv` says that the chunks from the
  reader's on are marked, as many as the semaphore leaves (`Unplayed`), that they hold the frames that
  come next (`Held`), and that the writer is at the chunk behind them; `Turns`
  ties the two state machines to the positions.  The semaphore alone keeps the
  writer out of the reader's chunk: `Unplayed` stays below the number of chunks.
* `KeysCorrect`: `KeyInv` adds to the property that a window without focus holds no key
  (`Hosts`), that a queue which holds its last key has the host key for
  it while its timer runs (`Queued`), and that on the phone the queue is never used
  (`Finger`).  Without the second, a timer that ends with its last key down could leave a key
  that nobody releases.  The order of the queue rests on lemmas on `Reverse`
  (`TypedBehind`, `TakenFirst`).

**DebuggerProofs.**  `BreakpointsCorrect`: for users of either front end, with as many
breakpoints as they like, whatever they change and whatever the program
does, the lists stay well formed and an instruction stops the program if and only if one
of its accesses is one that was asked for.  Both ends of this are in the statement: it is
about behaviours up to the first change in place of the type of an entry whose `prev` is
set, and leaves open which opcodes stop in an instruction in which step over replaces its
entry while the user has other breakpoints for opcodes or for addresses executed; its other
accesses stop as asked, and its walks end.

* A list is described by ranks that fall from its head to its end (`Stacked`,
  `Linked`): that rules loops out, and lets each walk be counted.  From it follows
  what a walk finds although it goes from entry to entry (`Met`: all entries that
  watch the address and whose test agrees), also while a test removes the entry
  walked over or puts one at the head.
* `Good` is more than the property needs: every entry in use is in the list of its kind or
  among the disabled, all others are free, `prev` and `next` agree.  Each of
  adding, removing, disabling and changing an entry takes one out and puts one in
  (`Out` is `Good` but for the entries on their way).  Changing a type keeps `Good` only where
  `prev` is 0, so what is inductive is `spoilt \/ DInv`.
* `Ledger` says whose each entry is: of one item of the debugger and one of its kinds of
  access, or of one slot of Calc, or of the step under way.  Nothing else stops the program:
  no entry is left behind by a removal, an interrupted step or a change of type.
* An instruction whose tests leave the lists alone (`Passive`) walks lists that stand
  still.  A step over replaces its entry during the walk of the opcodes: the walk
  then goes on from the new entry through the list of addresses executed
  (`StepsOver`, `Along`, `DetourThere`).  `DetourWalked` shows that it ends and that the
  lists are good afterwards, so that the accesses checked later are judged by `StopsOne` as any
  others.  The debugger steps over only where cancel_step_bp() came first, which `Roles` keeps.

**Only model-checked**, and why:

* liveness under fairness, in all modules;
* what goes through a RECURSIVE operator, which the provers cannot take: Z80Cpu and
  Z80Programs (`ArithmeticIsExact`, `PrefixReplacesHL`, `BlocksComplete`), and Disassembler
  (`ListingSound`);
* what is computed from data by a recursion or a fold: `DataSound` (state
  files, repaired certificates, the closure of the keypad, samples).

## 6. What the runs found

Seven runs end in a violation of what a comment or an assertion of the code says; PROJECT.json
quotes them.

1. `thread_restart`: `stop()` on a thread that is not running sets `exiting`, which
   only the thread clears.  load() with the thread stopped (calc.cpp:418, 548) then
   starts a thread that runs one clock and ends.
2. `desktop_audio`: emucore.c:481 asserts an audio filter; loading a state frees it
   (emulator.c:395, 412) and audio_open() makes none for a device that is open.
3. `bridge_stall`: while m_input holds bytes only sending is tried, which fails as
   long as the gray link holds a byte of the calculator (calc.cpp:836).
4. `bridge_ends`: run() returns the stop reason of its last call of emu, so a byte
   completed by the last instruction of a slice ends the thread (calc.cpp:928).
5. `cpu_overflow`: adc16 and sbc16 shift the overflow to the place of H instead of P
   (z80cmds.h:205, 218).
6. `frame_scroll`: xc_get_frame() multiplies the scroll position R6A by three twice, at
   xc_lcd.c:927 and 1001, where the comment at line 140 counts columns.
7. `cpu_breakpoints`: a change of type in place (z80.c:571) puts an entry first into a
   list without clearing its `prev` (bp_add(), z80.c:244).  Two breakpoints on addresses
   executed, the older changed to memory writes and back and then removed: the other
   becomes its own successor, and the next instruction is never over.

Behaviour met while modelling that no run is about.  The first group was
confirmed by TLC on variants of the models:

* Step over replaces its temporary entry, which is in the list of the opcodes, by one for
  the address to stop at, under the walk of that list (debugger.c:224).  The walk goes on from
  the new entry, in the list of addresses executed: the opcodes behind are not looked
  for, and addresses of the user are compared with the opcode (`Detours`).
* A task begun by the callback of a macro file runs under a switched calculator
  (emulator.h:265).  A list of variables requested before a load is shown after it (link.c:1144).
* A busy phase whose timer was saved as 0 leaves the Flash chip busy for ever
  (state.c:457, tilem.h:837).
* Another calculator under a running key queue loses the queue's timer (event.c:335).

Threads and tasks:

* isAsleep() is `halted && !poweronhalt` and is and-ed with poweronhalt (calcthread.cpp:74),
  so the sleep that the comment above it describes is never entered (but for a change
  between the two reads; then it does not end).
* byteCount() counts the ring only (calc.cpp:605): with more than 1024 bytes
  waiting, getBytes() returns fewer than there are; later calls return the rest.
* After a link error Calc::run leaves its loop with m_link_lock set (calc.cpp:904).
* run_with_key_slowly() runs `emu->calc` outside the lock (emulator.h:151);
  receiving from a calculator that is off blocks until the GUI wakes it; the setter of gray
  scale tests `emu->glcd` outside the lock; ext_cable_in/out are not reset when cables change.
* CalcLink: `_link_abort` is global and never reset, so after one calculator was
  closed no file can be sent; a file queued while the sender is past the test
  of its loop stays queued until the next one; timers of Qt are started from the sender's
  thread, where they cannot be; a transfer to a calculator that never answers
  ends only with the window.

Keys:

* A direct press by press_or_queue() is not recorded in macros.  The phone releases the key under
  the place where the finger leaves, so a key that is dragged off stays down.
  Calc::reset() keeps matrix keys and releases ON.

Files:

* A real-time timer with less than half a microsecond left is saved as 0 and is
  not set by a load; saving twice revives timers of a reset; a
  failed write of the ROM leaves an empty state file: what was saved before is lost, and
  no property says otherwise.  A file truncated between
  blocks after its MODEL line loads without an error.  A failed revert leaves the
  certificate unrepaired.  load_state leaks the new calculator when the state is invalid.

Sound:

* A callback that supplies a buffer from within makes flush_buffer() go on for ever;
  set_buffer() checks sizes against 16-bit frames in every format; changes of the lines by the link assist
  are seen at the next write to the port only.

Hardware:

* The assist's timeout sets the error flag and interrupt but not the idle
  interrupt (link.c:63).  Fast programming overwrites the error state program_byte() sets
  (flash.c:287), a hazard which no property covers: `PollTellsTruth` leaves fast mode out.  The reset of the TI-84
  Plus clears port 21 but keeps the override group (x4_init.c:48).
* The bound check of tilem_z80_set_timer() admits ntimers itself (z80.c:375); that of
  breakpoint ids is off by one too.
* A user timer read in the instruction in which it expires sees a negative number of clocks
  (timers.c:190), which the model reads as any byte; one started with v may read v - 1.
* Ports 45 to 48 shift by (port - 0x45) * 8 with the unmasked 16-bit port.
* A flipped screen ("GS = 1: screen flipped in X direction", xc_lcd.c:117) is mirrored only where
  colours are converted: otherwise fill_image() copies an image as it is (lines 730-731).  Its images
  are placed from the end of the whole width (989-990) but from the first column that is
  displayed (836), so that with less than all columns displayed they come too far to the right, and
  past the row: the buffer of the model holds the next row, so this is seen.
  `FramesAsDescribed` states this as well; its run keeps screens upright, so that it is about scrolling.
* The resets of TI-81, 82 and 83 leave bank 1 at page 0 or 1 until a port is written.  The
  no-exec mask of the TI-73 uses bits 2 to 5 for page % 4; after a fetch from the locked
  certificate it goes on reading.
* Reading the last 6-bit word of row 63 fetches a byte past lcdmem (lcd.c:160) and shifts it
  out; `WorksInOneRow` says so.
* DD 86 takes 7 clocks where 15 would be due; SCF and CCF leave H and N; z80_execute() tests for
  opcodes 0xddfb and 0xfdfb, which never occur; the disassembler lists the Nspire's ED ED with 2
  bytes, the CPU takes 4.

## 7. What is not modelled

* CalcLink and FileSender: the cable code is compiled out of this build; a reading
  of it is above.
* The MD5 assist, a pure function of six registers, whose model would repeat its lines.
* Pixels, gray levels, images, palettes, skins: data conversion without control.
* Settings, the key map, QML, the windows of the GTK and Qt front ends, Utils, build files.
* In modelled parts: the undocumented flags X and Y and WZ of the Z80; gamma and colours
  of the ILI9335; digits and text of state files; the contents of list and memory views.
* Times in microseconds outside of timers and sound: slices, throttling and the
  timeout of the link are choices, not durations.
