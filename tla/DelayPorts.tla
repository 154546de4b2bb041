----------------------------- MODULE DelayPorts -----------------------------
(***************************************************************************)
(* The ports of the SE and later models that set the speed of the CPU, the *)
(* clocks it loses per access to Flash, RAM and LCD, and the time for      *)
(* which port 2 then reports the LCD as busy.  The delays are derived from *)
(* eight ports, and kept apart from them.                                  *)
(***************************************************************************)
EXTENDS HwModels

CONSTANTS
    LcdPortValues,   \* bytes written to ports 29 to 2C
    MemPortValues,   \* bytes written to ports 2D and 2E
    WaitPortValues   \* bytes written to port 2F

VARIABLES
    dport,           \* ports 20, 29 to 2F
    delays,          \* FLASH_*_DELAY, RAM_*_DELAY, LCD_PORT_DELAY
    speed,           \* z80.clockspeed
    wait             \* LCD_WAIT, and what its timer has been set to

delayVars == <<dport, delays, speed, wait>>

DelayPortNames == {"p20", "p29", "p2A", "p2B", "p2C", "p2D", "p2E", "p2F"}
NoWait == [flag |-> FALSE, timer |-> 0]
-----------------------------------------------------------------------------
(* setup_clockdelays(): port 20 selects one of the four ports that mask    *)
(* the delays of port 2E, and hold that of the LCD in their upper bits.    *)
Selected(r) == LET s == r.p20 % 4 IN
    CASE s = 0 -> r.p29 [] s = 1 -> r.p2A [] s = 2 -> r.p2B [] s = 3 -> r.p2C

Delays(r) ==
    LET lcdport == Selected(r)
        flash(i) == Bit(lcdport, 0) /\ Bit(r.p2E, i)
        ram(i) == Bit(lcdport, 1) /\ Bit(r.p2E, i)
    IN  [flash_exec |-> flash(0), flash_read |-> flash(1), flash_write |-> flash(2),
         ram_exec |-> ram(4), ram_read |-> ram(5), ram_write |-> ram(6),
         lcd |-> lcdport \div 4]

XsDelays(r) == Delays(r)
X4Delays(r) == Delays(r)
XzDelays(r) == Delays(r)
XnDelays(r) == Delays(r)
XcDelays(r) == Delays(r)
DelaysOf(r) ==
    CASE model = "xs" -> XsDelays(r) [] model = "x4" -> X4Delays(r) [] model = "xz" -> XzDelays(r)
      [] model = "xn" -> XnDelays(r) [] model = "xc" -> XcDelays(r)

(* Ports 20 and 29 to 2F.  The SE alone computes the delays for port 2D.   *)
XsRecomputes == DelayPortNames \ {"p2F"}
X4Recomputes == DelayPortNames \ {"p2D", "p2F"}
XzRecomputes == DelayPortNames \ {"p2D", "p2F"}
XnRecomputes == DelayPortNames \ {"p2D", "p2F"}
XcRecomputes == DelayPortNames \ {"p2D", "p2F"}
Recomputes ==
    CASE model = "xs" -> XsRecomputes [] model = "x4" -> X4Recomputes [] model = "xz" -> XzRecomputes
      [] model = "xn" -> XnRecomputes [] model = "xc" -> XcRecomputes

OutDelay(p, v) ==
    /\ dport' = [dport EXCEPT ![p] = v]
    /\ speed' = IF p # "p20" THEN speed ELSE IF v % 4 # 0 THEN 15000 ELSE 6000
    /\ delays' = IF p \in Recomputes THEN DelaysOf(dport') ELSE delays
    /\ UNCHANGED wait

(* set_lcd_wait_timer(), on each access to the LCD.                        *)
WaitTime == <<48, 112, 176, 240, 304, 368, 432, 496>>
WaitIndex(r) == CASE r.p20 % 4 = 1 -> (r.p2F % 4)
                  [] r.p20 % 4 = 2 -> ((r.p2F \div 4) % 8)
                  [] r.p20 % 4 = 3 -> r.p2F \div 32
XsWait(r) == IF r.p20 % 4 = 0 THEN wait ELSE [flag |-> TRUE, timer |-> WaitTime[WaitIndex(r) + 1]]
X4Wait(r) == XsWait(r)
XzWait(r) == XsWait(r)
XnWait(r) == XsWait(r)
XcWait(r) == XsWait(r)
AccessLcd ==
    /\ wait' = CASE model = "xs" -> XsWait(dport) [] model = "x4" -> X4Wait(dport)
                 [] model = "xz" -> XzWait(dport) [] model = "xn" -> XnWait(dport)
                 [] model = "xc" -> XcWait(dport)
    /\ UNCHANGED <<dport, delays, speed>>

WaitTimer ==                             \* case TIMER_LCD_WAIT of *_z80_ptimer()
    /\ wait.timer # 0
    /\ wait' = NoWait
    /\ UNCHANGED <<dport, delays, speed>>

(* The *_reset() functions write the ports and what is derived from them;  *)
(* a timer that is set, and LCD_WAIT, stay.                                *)
ResetPorts == [p20 |-> 0, p29 |-> 20, p2A |-> 39, p2B |-> 47, p2C |-> 59,
               p2D |-> 1, p2E |-> 68, p2F |-> 74]
ResetDelays == [flash_exec |-> FALSE, flash_read |-> FALSE, flash_write |-> FALSE,
                ram_exec |-> FALSE, ram_read |-> FALSE, ram_write |-> FALSE, lcd |-> 5]
DelayReset ==
    /\ dport' = ResetPorts
    /\ delays' = ResetDelays
    /\ speed' = 6000
    /\ UNCHANGED wait

DelayInit ==
    /\ dport = ResetPorts /\ delays = ResetDelays /\ speed = 6000 /\ wait = NoWait

DelayNext ==
    \/ \E v \in 0..3 : OutDelay("p20", v)
    \/ \E p \in {"p29", "p2A", "p2B", "p2C"}, v \in LcdPortValues : OutDelay(p, v)
    \/ \E p \in {"p2D", "p2E"}, v \in MemPortValues : OutDelay(p, v)
    \/ \E v \in WaitPortValues : OutDelay("p2F", v)
    \/ AccessLcd \/ WaitTimer \/ DelayReset
-----------------------------------------------------------------------------
(* What an access costs is what the ports say, in whatever order they have *)
(* been written and however the calculator was reset between; and LCD_WAIT *)
(* is set only while the timer that clears it runs, so that a program that *)
(* polls port 2 does not wait for ever.                                    *)
DelaysFollowPorts ==
    /\ delays = DelaysOf(dport)
    /\ speed = 6000 <=> dport.p20 % 4 = 0
    /\ wait.flag <=> wait.timer # 0
=============================================================================
