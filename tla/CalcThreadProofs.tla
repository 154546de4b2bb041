-------------------------- MODULE CalcThreadProofs --------------------------
(***************************************************************************)
(* Proofs about CalcThread.  IInv is the inductive invariant; its parts    *)
(* say who owns the mutex, when the thread is known to be dead, which      *)
(* pointers are valid where, and where in its last slice the thread can be *)
(* while stop() waits.                                                     *)
(***************************************************************************)
EXTENDS CalcThread, TLAPS

\* m_run is held exactly in the critical sections; a crash keeps it.
LockInv ==
    /\ gpc \in GuiLocked => mrun = "gui"
    /\ tpc = "exec" => mrun = "emu"
    /\ mrun = "gui" => gpc \in GuiLocked \cup {"crashed"}
    /\ mrun = "emu" => tpc = "exec"

\* The slot a point of the GUI thread belongs to.
OpInv ==
    /\ op = "destroy" => gpc \in {"stopset", "stopwait", "destroylock", "drop", "gone"}
    /\ gpc \in {"destroylock", "drop", "gone"} => op = "destroy"

\* Only the GUI thread starts the emulator thread, so a thread it has seen dead
\* stays dead until the end of the slot.
DeadInv ==
    /\ made = FALSE => tpc = "dead"
    /\ gpc \in {"loadlock", "fopen", "free", "new", "alloc", "start",
                "destroylock", "drop", "gone"} => tpc = "dead"

\* Once a load() has succeeded there is a calculator except in the middle of the
\* next load() and after the end.
LiveInv ==
    /\ tpc # "dead" => calc = "live" /\ loadLock = FALSE
    /\ made = TRUE /\ gpc \notin {"free", "new", "alloc", "gone", "crashed"}
          => calc = "live" /\ loadLock = FALSE
    /\ gpc \in {"alloc", "start"} => calc = "live"
    /\ gpc = "start" => made = TRUE /\ loadLock = FALSE

\* A calculator has its LCD buffers, except while they are being allocated and
\* after ~Calc() has deleted them.
LcdInv == calc = "live" => lcd = TRUE \/ gpc = "alloc" \/ op = "destroy"

\* The thread a stop() waits for has the flag set until it is about to end, and
\* after its last slice it can only end.
SpentInv ==
    /\ spent \in 0..1
    /\ gpc # "stopwait" => spent = 0
    /\ gpc = "stopwait" => exiting = TRUE \/ tpc \in {"finish", "dead"}
    /\ spent = 1 => tpc \in {"exec", "exitcheck", "clear", "finish", "dead"}

IInv == TypeOK /\ LockInv /\ OpInv /\ DeadInv /\ LiveInv /\ LcdInv /\ SpentInv

-----------------------------------------------------------------------------
\* The invariant holds initially.
LEMMA InitIInv == Init => IInv
<1> SUFFICES ASSUME Init PROVE IInv
  OBVIOUS
<1>1. /\ exiting \in BOOLEAN /\ lcd \in BOOLEAN /\ made \in BOOLEAN
      /\ lcdTimer \in BOOLEAN /\ halted \in BOOLEAN /\ poweronhalt \in BOOLEAN
  BY DEF Init
<1> QED
  BY <1>1 DEF Init, IInv, TypeOK, LockInv, OpInv, DeadInv, LiveInv, LcdInv, SpentInv,
       Ops, GuiLocked, GuiWaiting, GuiPcs, ThreadPcs

\* No step of either thread breaks it.
LEMMA NextIInv == IInv /\ [Next]_vars => IInv'
<1> SUFFICES ASSUME IInv, [Next]_vars PROVE IInv'
  OBVIOUS
<1> USE RomsAssumption, ResetAssumption
    DEF IInv, TypeOK, LockInv, OpInv, DeadInv, LiveInv, LcdInv, SpentInv,
        Ops, GuiLocked, GuiWaiting, GuiPcs, ThreadPcs,
        guiVars, thrVars, objVars, z80Vars, Begin, Done, Goto, isRunning
<1>1. CASE StopSet
  BY <1>1 DEF StopSet
<1>2. CASE StopWait
  BY <1>2 DEF StopWait
<1>3. CASE LoadBegin
  BY <1>3 DEF LoadBegin
<1>4. CASE LoadLock
  BY <1>4 DEF LoadLock, GuiLock
<1>5. CASE LoadFopenFails
  BY <1>5 DEF LoadFopenFails
<1>6. CASE LoadFopen
  BY <1>6 DEF LoadFopen
<1>7. CASE LoadFree
  BY <1>7 DEF LoadFree
<1>8. CASE LoadNew
  BY <1>8 DEF LoadNew
<1>9. CASE LoadUnknown
  BY <1>9 DEF LoadUnknown
<1>10. CASE LoadAlloc
  BY <1>10 DEF LoadAlloc
<1>11. CASE LoadStart
  BY <1>11 DEF LoadStart, StartThread
<1>12. CASE LoadEmit
  BY <1>12 DEF LoadEmit
<1>13. CASE LcdTick
  BY <1>13 DEF LcdTick
<1>14. CASE LcdLock
  BY <1>14 DEF LcdLock, GuiLock
<1>15. CASE LcdRead
  BY <1>15 DEF LcdRead
<1>16. CASE Pause
  BY <1>16 DEF Pause
<1>17. CASE Resume
  BY <1>17 DEF Resume, StartThread
<1>18. CASE Step
  BY <1>18 DEF Step, StartThread
<1>19. CASE KeyBegin
  BY <1>19 DEF KeyBegin
<1>20. CASE KeyLock
  BY <1>20 DEF KeyLock, GuiLock
<1>21. CASE KeyAct
  BY <1>21 DEF KeyAct
<1>22. CASE ResetBegin
  BY <1>22 DEF ResetBegin
<1>23. CASE ResetLock
  BY <1>23 DEF ResetLock, GuiLock
<1>24. CASE ResetAct
  BY <1>24 DEF ResetAct
<1>25. CASE ResetNull
  BY <1>25 DEF ResetNull
<1>26. CASE DestroyBegin
  <2>1. lcd' \in BOOLEAN
    BY <1>26 DEF DestroyBegin
  <2> QED
    BY <2>1, <1>26 DEF DestroyBegin
<1>27. CASE DestroyLock
  BY <1>27 DEF DestroyLock, GuiLock
<1>28. CASE DestroyFree
  BY <1>28 DEF DestroyFree
<1>29. CASE ReadAsleep
  BY <1>29 DEF ReadAsleep, ThreadGoto
<1>30. CASE ReadPower
  BY <1>30 DEF ReadPower, ThreadGoto
<1>31. CASE Pick
  BY <1>31 DEF Pick, ThreadGoto
<1>32. CASE EmuLock
  BY <1>32 DEF EmuLock, ThreadGoto, OneMore
<1>33. CASE Exec
  BY <1>33 DEF Exec, ThreadGoto
<1>34. CASE ExitCheck
  BY <1>34 DEF ExitCheck, ThreadGoto
<1>35. CASE Clear
  <2>1. exiting' \in BOOLEAN
    BY <1>35 DEF Clear
  <2> QED
    BY <2>1, <1>35 DEF Clear, ThreadGoto
<1>36. CASE Finish
  BY <1>36 DEF Finish, ThreadGoto
<1>37. CASE UNCHANGED vars
  BY <1>37 DEF vars
<1> QED
  BY <1>1, <1>2, <1>3, <1>4, <1>5, <1>6, <1>7, <1>8, <1>9, <1>10, <1>11, <1>12, <1>13, <1>14, <1>15, <1>16, <1>17, <1>18, <1>19, <1>20, <1>21, <1>22, <1>23, <1>24, <1>25, <1>26, <1>27, <1>28, <1>29, <1>30, <1>31, <1>32, <1>33, <1>34, <1>35, <1>36, <1>37
     DEF Next, GuiContinues, GuiTakesLock, GuiBegins, ThreadContinues, Over

\* IInv holds in every reachable state.
LEMMA Inductive == SafeSpec => []IInv
<1>1. Init => IInv
  BY InitIInv
<1>2. IInv /\ [Next]_vars => IInv'
  BY NextIInv
<1> QED
  BY <1>1, <1>2, PTL DEF SafeSpec

\* Type correctness of the two threads, including the bound of one slice between
\* CalcThread::stop() and the end of the thread.
THEOREM TypeCorrect == SafeSpec => []TypeOK
<1>1. IInv => TypeOK
  BY DEF IInv
<1> QED
  BY <1>1, Inductive, PTL

\* m_run separates the slots of Calc from Calc::run(): they never execute
\* together, and no slot waits for the mutex it holds.
THEOREM ThreadsExclude == SafeSpec => []LockDiscipline
<1>1. IInv => MutualExclusion /\ NoSelfDeadlock
  BY DEF IInv, TypeOK, LockInv, MutualExclusion, NoSelfDeadlock, GuiLocked,
         GuiWaiting
<1> QED
  BY <1>1, Inductive, PTL DEF LockDiscipline

\* The emulator thread never executes on a calculator that was freed or is being
\* rebuilt, which is freed only while that thread is dead; and lcdUpdate() never
\* writes through deleted LCD buffers.
THEOREM PointersLive == SafeSpec => []NoUseAfterFree
<1>1. IInv => ThreadUsesLiveCalc
  BY DEF IInv, TypeOK, DeadInv, LiveInv, ThreadUsesLiveCalc
<1>2. IInv => LcdReadSafe
  BY DEF IInv, TypeOK, OpInv, LcdInv, LcdReadSafe
<1> QED
  BY <1>1, <1>2, Inductive, PTL DEF NoUseAfterFree

-----------------------------------------------------------------------------
\* Every step of the two threads is a step of RunControl or leaves it alone.
LEMMA NextControl == IInv /\ [Next]_vars => [RC!Next]_RC!vars
<1> SUFFICES ASSUME IInv, [Next]_vars PROVE [RC!Next]_RC!vars
  OBVIOUS
<1> USE DEF IInv, TypeOK, LockInv, OpInv, DeadInv, LiveInv, LcdInv, SpentInv,
            Ops, GuiLocked, GuiWaiting, GuiPcs, ThreadPcs,
            guiVars, thrVars, objVars, z80Vars, Begin, Done, Goto, isRunning,
            RC!Next, RC!vars, RC!Start, RC!AskStop, RC!LastSlice, RC!End
<1>1. CASE StopSet
  BY <1>1 DEF StopSet
<1>2. CASE StopWait
  BY <1>2 DEF StopWait
<1>3. CASE LoadBegin
  BY <1>3 DEF LoadBegin
<1>4. CASE LoadLock
  BY <1>4 DEF LoadLock, GuiLock
<1>5. CASE LoadFopenFails
  BY <1>5 DEF LoadFopenFails
<1>6. CASE LoadFopen
  BY <1>6 DEF LoadFopen
<1>7. CASE LoadFree
  BY <1>7 DEF LoadFree
<1>8. CASE LoadNew
  BY <1>8 DEF LoadNew
<1>9. CASE LoadUnknown
  BY <1>9 DEF LoadUnknown
<1>10. CASE LoadAlloc
  BY <1>10 DEF LoadAlloc
<1>11. CASE LoadStart
  BY <1>11 DEF LoadStart, StartThread
<1>12. CASE LoadEmit
  BY <1>12 DEF LoadEmit
<1>13. CASE LcdTick
  BY <1>13 DEF LcdTick
<1>14. CASE LcdLock
  BY <1>14 DEF LcdLock, GuiLock
<1>15. CASE LcdRead
  BY <1>15 DEF LcdRead
<1>16. CASE Pause
  BY <1>16 DEF Pause
<1>17. CASE Resume
  BY <1>17 DEF Resume, StartThread
<1>18. CASE Step
  BY <1>18 DEF Step, StartThread
<1>19. CASE KeyBegin
  BY <1>19 DEF KeyBegin
<1>20. CASE KeyLock
  BY <1>20 DEF KeyLock, GuiLock
<1>21. CASE KeyAct
  BY <1>21 DEF KeyAct
<1>22. CASE ResetBegin
  BY <1>22 DEF ResetBegin
<1>23. CASE ResetLock
  BY <1>23 DEF ResetLock, GuiLock
<1>24. CASE ResetAct
  BY <1>24 DEF ResetAct
<1>25. CASE ResetNull
  BY <1>25 DEF ResetNull
<1>26. CASE DestroyBegin
  BY <1>26 DEF DestroyBegin
<1>27. CASE DestroyLock
  BY <1>27 DEF DestroyLock, GuiLock
<1>28. CASE DestroyFree
  BY <1>28 DEF DestroyFree
<1>29. CASE ReadAsleep
  BY <1>29 DEF ReadAsleep, ThreadGoto
<1>30. CASE ReadPower
  BY <1>30 DEF ReadPower, ThreadGoto
<1>31. CASE Pick
  BY <1>31 DEF Pick, ThreadGoto
<1>32. CASE EmuLock
  BY <1>32 DEF EmuLock, ThreadGoto, OneMore
<1>33. CASE Exec
  BY <1>33 DEF Exec, ThreadGoto
<1>34. CASE ExitCheck
  BY <1>34 DEF ExitCheck, ThreadGoto
<1>35. CASE Clear
  BY <1>35 DEF Clear, ThreadGoto
<1>36. CASE Finish
  BY <1>36 DEF Finish, ThreadGoto
<1>37. CASE UNCHANGED vars
  BY <1>37 DEF vars
<1> QED
  BY <1>1, <1>2, <1>3, <1>4, <1>5, <1>6, <1>7, <1>8, <1>9, <1>10, <1>11, <1>12, <1>13, <1>14, <1>15, <1>16, <1>17, <1>18, <1>19, <1>20, <1>21, <1>22, <1>23, <1>24, <1>25, <1>26, <1>27, <1>28, <1>29, <1>30, <1>31, <1>32, <1>33, <1>34, <1>35, <1>36, <1>37
     DEF Next, GuiContinues, GuiTakesLock, GuiBegins, ThreadContinues, Over

\* The detailed run control implements the abstract one: emulation only between
\* a start and the end of the thread, and at most one slice after a stop.
THEOREM ControlImplemented == SafeSpec => Control
<1>1. Init => RC!Init
  BY DEF Init, RC!Init
<1>2. IInv /\ [Next]_vars => [RC!Next]_RC!vars
  BY NextControl
<1> QED
  BY <1>1, <1>2, Inductive, PTL DEF SafeSpec, Control, RC!Spec
=============================================================================
