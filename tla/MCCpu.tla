------------------------------- MODULE MCCpu -------------------------------
(***************************************************************************)
(* The processor's two halves, which meet only where an instruction takes  *)
(* clocks: the timers with the loop that runs instructions, and what the   *)
(* instructions do.  A behaviour is one of either.                         *)
(*   timers: one of the model that ports and handlers set in either list,  *)
(* once or periodically, or clear; one of a gray LCD; and that of the run. *)
(* The clock register has seven values and wraps in every run.             *)
(*   programs: of one to three instructions, with at most two interrupts.  *)
(*   debugger: what a program does to breakpoints and the debugger, seen   *)
(* from the lists only, until a change of type in place spoils one.        *)
(***************************************************************************)
EXTENDS Z80Timers, Z80Programs, Debugger

CONSTANT Parts
VARIABLE part

Sets == {[id |-> 1, count |-> 1, period |-> 1, list |-> "rt"],
         [id |-> 1, count |-> 2, period |-> 1, list |-> "cpu"],
         [id |-> 1, count |-> 0, period |-> 0, list |-> "cpu"]}
Due == {[count |-> 3, list |-> "cpu"], [count |-> 1, list |-> "rt"]}

\* Breakpoints on a page executed or written, and on an opcode.
Wanted == {[kind |-> "memory", physical |-> TRUE, mode |-> {"X", "W"}, span |-> {1}],
           [kind |-> "opcode", physical |-> FALSE, mode |-> {"X"}, span |-> {1}]}
Physical == [a \in 0..MaxAddress |-> MaxAddress - a]
Users == {[does |-> {"edit", "step"}, items |-> 2],
          [does |-> {"edit", "over", "run", "pause"}, items |-> 1],
          [does |-> {"step", "over", "finish", "run", "pause", "load"}, items |-> 0],
          [does |-> {"slots", "types", "run"}, items |-> 2]}

\* Nothing is asked of lists that are spoilt: they are not followed further.
Unspoilt == ~spoilt

\* One who changes the types of his breakpoints.
Retypers == {[does |-> {"slots", "types", "run"}, items |-> 2]}

\* What memory holds where a program has not written: no two bytes alike.
Unwritten(a) == (((a \div 256) * 5) + (a * 3) + 7) % 256

CpuInit ==
    /\ part \in Parts
    /\ Init /\ ProgramInit /\ DebuggerInit
    /\ part # "programs" => start.kind = "symbols"
    /\ part # "debugger" => "slots" \in client.does

CpuNext ==
    \/ part = "timers" /\ UNCHANGED <<part, programVars, debuggerVars>> /\ Next
    \/ part = "programs" /\ UNCHANGED <<part, vars, debuggerVars>> /\ ProgramNext
    \/ part = "debugger" /\ UNCHANGED <<part, vars, programVars>> /\ DebuggerNext

CpuSpec == CpuInit /\ [][CpuNext]_<<part, programVars, vars, debuggerVars>>
-----------------------------------------------------------------------------
(* What the debugger lists: as many bytes and the jump target that an      *)
(* execution has, and for an address the nearest symbol at or below it.    *)
ListingSound == ListingAgrees /\ SymbolsDenote
=============================================================================
