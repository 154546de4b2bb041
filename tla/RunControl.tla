----------------------------- MODULE RunControl -----------------------------
(***************************************************************************)
(* What the run control of the emulator (Calc::load, pause, resume, step   *)
(* and CalcThread) promises, without its flag, its lock or its program     *)
(* counters: emulation happens only between a start and the end of the     *)
(* thread, and once a stop has been asked for the thread executes at most  *)
(* one more slice of emulation before it ends.                             *)
(***************************************************************************)
VARIABLES
    phase,      \* "stopped", "running", or "stopping": a stop() is waiting
    spent       \* a slice was begun since the stop was asked for

vars == <<phase, spent>>

Init == phase = "stopped" /\ spent = FALSE

Start == /\ phase = "stopped"
         /\ phase' = "running"
         /\ UNCHANGED spent

AskStop == /\ phase = "running"
           /\ phase' = "stopping"
           /\ spent' = FALSE

LastSlice == /\ phase = "stopping"
             /\ ~spent
             /\ spent' = TRUE
             /\ UNCHANGED phase

End == /\ phase # "stopped"
       /\ phase' = "stopped"
       /\ spent' = FALSE

Next == Start \/ AskStop \/ LastSlice \/ End

Spec == Init /\ [][Next]_vars
=============================================================================
