------------------------------- MODULE MCCalc -------------------------------
(***************************************************************************)
(* The Qt application's Calc object for TLC, from the two sides of the     *)
(* lock m_run.  A behaviour is of one of them.                             *)
(*   thread: the GUI thread and the emulator thread, whatever the emulated *)
(* machine does in a slice.                                                *)
(*   bridge: the bytes that the slices carry between host and program.     *)
(***************************************************************************)
EXTENDS CalcThread, LinkBridge

VARIABLE part

calcVars == <<part, vars, bridgeVars>>
InThread(A) == part = "thread" /\ A /\ UNCHANGED <<part, bridgeVars>>
InBridge(A) == part = "bridge" /\ A /\ UNCHANGED <<part, vars>>

CalcInit ==
    /\ part \in {"thread", "bridge"}
    /\ Init /\ BridgeInit
    /\ part # "thread" => ~loadLock
    /\ part # "bridge" => program = "lines"

CalcNext == InThread(Next) \/ InBridge(BridgeNext)

(* The fairness of CalcThread and LinkBridge, for the part that takes      *)
(* steps: CanTakeBit and its like are FALSE in a thread, where pc is "top" *)
(* for ever.                                                               *)
CalcFairness ==
    /\ WF_calcVars(\/ InThread(GuiContinues)
                   \/ InBridge(TopLocked \/ BatchEnd \/ EmuEnd \/ After \/ Restart))
    /\ WF_calcVars(InThread(ThreadContinues))
    /\ SF_calcVars(InThread(GuiTakesLock)) /\ SF_calcVars(InThread(EmuLock))
    /\ []<>(part = "bridge" /\ pc \in {"top", "batch", "after"}) => []<><<Run>>_bridgeVars
    /\ []<>CanTakeBit => []<><<TakeBit>>_bridgeVars
    /\ []<>CanEndBit => []<><<EndBit>>_bridgeVars
    /\ []<>CanAck => []<><<Acked>>_bridgeVars
    /\ []<>CanPutBit => []<><<PutBit>>_bridgeVars
    /\ []<>CanHear => []<><<AssistHears>>_bridgeVars
CalcSpec == CalcInit /\ [][CalcNext]_calcVars /\ CalcFairness
=============================================================================
