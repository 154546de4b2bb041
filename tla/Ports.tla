-------------------------------- MODULE Ports --------------------------------
(***************************************************************************)
(* The ports of the models: which registers of the calculator an input     *)
(* shows, and which ones an access sets (x1_io.c to xz_io.c), under the    *)
(* names that state files give them.  What is not the calculator's own     *)
(* (keys that are down, the other end of the cable, the time) has the      *)
(* names of HostState.  A model's own registers are those of HW_REG_NAMES. *)
(***************************************************************************)
EXTENDS Integers

In(at, shows, sets) == [at |-> at, shows |-> shows, sets |-> sets]
Out(at, sets) == [at |-> at, shows |-> {}, sets |-> sets]
Shows(rows) == UNION {r.shows : r \in rows}
Sets(rows) == UNION {r.sets : r \in rows}

HostState == {"onkeydown", "keysdown", "extlines", "time"}

-----------------------------------------------------------------------------
(* The devices behind the ports.                                           *)

Keypad(at) == In(at, {"keypad.group", "keysdown"}, {})
LinesShown == {"linkport.lines", "extlines"}
OnKeyShown == {"onkeydown", "interrupts"}
Pages == {"mempagemap1", "mempagemap2", "mempagemap3"}
(* The one register behind a port, and one that the mapping depends on.    *)
Reads(p, name) == In({p}, {name}, {})
Maps(at, name) == Out(at, {name} \cup Pages)

(* tilem_lcd_t6a04_status(), _read(), _control() and _write()              *)
LcdStatus(at) == In(at, {"lcd.busy", "lcd.mode", "lcd.active", "lcd.inc"}, {})
LcdRead(at) == In(at, {"lcd.nextbyte", "lcd.busy", "lcd.rowstride", "lcd.mode", "lcd.x",
                       "lcd.y", "lcd.inc"}, {"lcd.x", "lcd.y", "lcd.busy", "lcd.nextbyte"})
LcdControl(at) == Out(at, {"lcd.mode", "lcd.active", "lcd.inc", "lcd.x", "lcd.y",
                           "lcd.rowshift", "lcd.contrast", "lcd.busy"})
LcdWrite(at) == Out(at, {"lcd.x", "lcd.y", "lcd.busy"})

OnMasks == {"keypad.onkeyint", "interrupts", "poweronhalt", "port3"}
SetsLinkMode == {"linkport.mode", "linkport.assistflags", "linkport.lines", "interrupts"}
ReadsByte == {"linkport.assistflags", "linkport.assistinbits", "linkport.lines"}
SendsByte == {"linkport.assistflags", "linkport.assistout", "linkport.assistoutbits",
              "linkport.lines"}

-----------------------------------------------------------------------------
(* TI-81.  The first access to some ports tells what the hardware is.      *)
X1Names == {"hw_version", "port2", "port3", "port4", "port5", "port6"}
X1In ==
    {Keypad({1}), Reads(2, "port2"), In({3}, OnKeyShown, {}), Reads(5, "port5"),
     Reads(6, "port6"), LcdStatus({16}), LcdRead({17}), In(0..31, {"hw_version"}, {})}
X1Sets ==
    {Out({5, 6, 16, 17}, {"hw_version", "lcd.rowstride"} \cup Pages),
     Out({0}, {"lcd.addr"}), Out({1}, {"keypad.group"}),
     Out({2}, {"port2", "lcd.contrast"} \cup Pages), Out({3}, OnMasks \cup {"lcd.active"}),
     Out({4}, {"port4", "lcd.rowstride"}), Maps({5}, "port5"), Maps({6}, "port6"),
     LcdControl({16}), LcdWrite({17})}

(* TI-82                                                                   *)
X2Names == {"hw_version", "port0", "port2", "port3", "port4"}
X2In ==
    {In({0}, {"port0", "hw_version"} \cup LinesShown, {}), Keypad({1}), Reads(2, "port2"),
     In({3}, OnKeyShown, {}), LcdStatus({16}), LcdRead({17}), In({20}, {"port4", "battery"}, {})}
X2Sets ==
    {Out({0}, {"port0", "linkport.lines"}), Out({1}, {"keypad.group"}), Maps({2}, "port2"),
     Out({3}, OnMasks), Out({4}, {"port4", "hw_version"} \cup Pages),
     LcdControl({16}), LcdWrite({17})}

(* TI-83 and TI-76.fr                                                      *)
X3Names == {"port2", "port3", "port4", "rom_bank"}
X3In ==
    {In({0, 4, 8, 12}, {"rom_bank"} \cup LinesShown, {}), Keypad({1, 5, 9, 13, 21, 29}),
     In({2, 6, 10, 14, 22, 30}, {"port2"}, {}), In({3, 7, 11, 15, 23, 31}, OnKeyShown, {}),
     LcdStatus({16, 18, 24, 26}), LcdRead({17, 19, 25, 27}),
     In({20, 28}, {"port4", "battery", "rom_bank"} \cup LinesShown, {})}
X3Sets ==
    {Out({0}, {"rom_bank", "linkport.lines"} \cup Pages), Out({1}, {"keypad.group"}),
     Maps({2}, "port2"), Out({3}, OnMasks), Maps({4}, "port4"), LcdControl({16}), LcdWrite({17})}

(* TI-85 and TI-86                                                         *)
X5Names == {"port3", "port4", "port5", "port6", "port7"}
X5In ==
    {Keypad({1}), In({3}, OnKeyShown, {}), In({4}, {}, {}), Reads(5, "port5"),
     Reads(6, "port6"), In({7}, {"port7"} \cup LinesShown, {})}
X5Sets ==
    {Out({0}, {"lcd.addr"}), Out({1}, {"keypad.group"}), Out({2}, {"lcd.contrast"}),
     Out({3}, OnMasks \cup {"lcd.active"}), Out({4}, {"port4", "lcd.rowstride"}),
     Maps({5}, "port5"), Maps({6}, "port6"), Out({7}, {"port7", "linkport.lines"})}
X6Names == X5Names
X6In == X5In
X6Sets == X5Sets

(* TI-73: the link assist is never switched on.                            *)
X7Names == {"port3", "port4", "port6", "port7", "noexec", "protectstate"}
X7In ==
    {In({0, 8}, LinesShown, {}), Keypad({1, 9}), In({2, 10}, {"port4", "battery"}, {}),
     In({3, 11}, {"port3"}, {}), In({4, 12}, OnKeyShown, {}), In({6, 14}, {"port6"}, {}),
     In({7, 15}, {"port7"}, {}), LcdStatus({16, 18, 24, 26}), LcdRead({17, 19, 25, 27})}
X7Sets ==
    {Out({0, 8}, {"linkport.lines"}), Out({1, 9}, {"keypad.group"}),
     Out({3, 11}, OnMasks \cup {"linkport.mode"}), Maps({4, 12}, "port4"), Maps({6, 14}, "port6"),
     Maps({7, 15}, "port7"), LcdControl({16, 18, 24, 26}), LcdWrite({17, 19, 25, 27}),
     Out({20, 21}, {"flash.unlock"}), Out({22, 23}, {"noexec"})}

(* TI-83 Plus                                                              *)
XpNames == {"port3", "port4", "port5", "port6", "port7", "noexec0", "noexec1", "noexec2",
            "noexec3", "noexec4", "protectstate"}
XpIn ==
    {In({0, 8}, LinesShown \cup {"linkport.mode", "linkport.assistflags"}, {}), Keypad({1, 9}),
     In({2, 10}, {"port4", "battery", "flash.unlock", "port5"}, {}), In({3, 11}, {"port3"}, {}),
     In({4, 12}, OnKeyShown, {}), In({5, 13}, {"linkport.assistin"}, ReadsByte),
     In({6, 14}, {"port6"}, {}), In({7, 15}, {"port7"}, {}),
     LcdStatus({16, 18, 24, 26}), LcdRead({17, 19, 25, 27})}
XpSets ==
    {Out({0, 8}, SetsLinkMode), Out({1, 9}, {"keypad.group"}),
     Out({3, 11}, OnMasks \cup SetsLinkMode), Maps({4, 12}, "port4"), Out({5, 13}, {"port5"}),
     Maps({6, 14}, "port6"), Maps({7, 15}, "port7"),
     LcdControl({16, 18, 24, 26}), LcdWrite({17, 19, 25, 27}), Out({20, 21}, {"flash.unlock"}),
     Out({22, 23}, {"noexec1", "noexec2", "noexec3", "noexec4"})}

-----------------------------------------------------------------------------
(* The Silver Edition and the TI-84s: what they have in common.            *)

DelayNames == {"ram_read_delay", "ram_write_delay", "ram_exec_delay", "flash_read_delay",
               "flash_write_delay", "flash_exec_delay", "lcd_port_delay"}
SilverNames == DelayNames \cup
    {"port3", "port4", "port5", "port6", "port7", "port8", "port9", "portA", "portB", "portC",
     "portD", "portE", "portF", "port20", "port21", "port22", "port23", "port25", "port26",
     "port27", "port28", "port29", "port2A", "port2B", "port2C", "port2D", "port2E", "port2F",
     "lcd_wait", "protectstate"}
ExecNames == {"no_exec_ram_mask", "no_exec_ram_lower", "no_exec_ram_upper"}
ClockNames == {"clock_mode", "clock_input", "clock_diff"}

UserStatus == {"usertimer0.status", "usertimer1.status", "usertimer2.status"}
UserFrequency == <<"usertimer0.frequency", "usertimer1.frequency", "usertimer2.frequency">>
UserMode == <<"usertimer0.status", "usertimer1.status", "usertimer2.status">>
UserLoop == <<"usertimer0.loopvalue", "usertimer1.loopvalue", "usertimer2.loopvalue">>
Md5Regs == {"md5assist.a", "md5assist.b", "md5assist.c", "md5assist.d", "md5assist.x",
            "md5assist.t"}

(* Inputs 00 to 15, outputs 00 to 0D.                                      *)
LowIn ==
    {In({0}, LinesShown, {}), Keypad({1}), In({2}, {"port4", "battery", "lcd_wait", "flash.unlock"}, {}),
     Reads(3, "port3"), In({4}, OnKeyShown \cup UserStatus, {}), Reads(5, "port5"),
     Reads(6, "port6"), Reads(7, "port7"), Reads(8, "port8"),
     In({9}, {"linkport.assistflags", "interrupts"}, {"interrupts"}),
     In({10}, {"linkport.assistlastbyte"}, ReadsByte), Reads(14, "portE"), Reads(15, "portF"),
     In({16, 18}, {"lcd_port_delay"}, {"lcd_wait"}), LcdStatus({16, 18}),
     In({17, 19}, {"lcd_port_delay"}, {"lcd_wait"}), LcdRead({17, 19}), In({21}, {}, {})}
LowSets ==
    {Out({0}, {"linkport.lines"}), Out({1}, {"keypad.group"}), Out({2}, {"interrupts"}),
     Out({3}, OnMasks \cup UserStatus \cup SetsLinkMode), Maps({4}, "port4"), Maps({5}, "port5"),
     Maps({6}, "port6"), Maps({7}, "port7"), Out({8}, {"port8"} \cup SetsLinkMode),
     Out({9}, {"port9"}), Out({10}, {"portA"}), Out({11}, {"portB"}), Out({12}, {"portC"}),
     Out({13}, SendsByte)}

(* Inputs 1C to 2F, outputs 0E to 2F: LCD, MD5, speed, protection, delays. *)
MiddleIn ==
    {In(28..31, Md5Regs \cup {"md5assist.shift", "md5assist.mode"}, {}), Reads(32, "port20"),
     Reads(33, "port21"), Reads(34, "port22"), Reads(35, "port23"), Reads(37, "port25"),
     Reads(38, "port26"), Reads(39, "port27"), Reads(40, "port28"), Reads(41, "port29"),
     Reads(42, "port2A"), Reads(43, "port2B"), Reads(44, "port2C"), Reads(45, "port2D"),
     Reads(46, "port2E"), Reads(47, "port2F")}
MiddleSets ==
    {Out({14}, {"portE"}), Out({15}, {"portF"}), Out({16, 17, 18, 19}, {"lcd_wait"}),
     LcdControl({16, 18}), LcdWrite({17, 19}), Out({20}, {"flash.unlock"}),
     Out(24..29, Md5Regs), Out({30}, {"md5assist.shift"}), Out({31}, {"md5assist.mode"}),
     Out({32}, {"port20"} \cup DelayNames),
     Out({33}, {"port21", "no_exec_ram_mask", "flash.overridegroup"}), Out({34}, {"port22"}),
     Out({35}, {"port23"}), Out({37}, {"port25", "no_exec_ram_lower"}),
     Out({38}, {"port26", "no_exec_ram_upper"}), Out({39}, {"port27"}), Out({40}, {"port28"}),
     Out({41}, {"port29"} \cup DelayNames), Out({42}, {"port2A"} \cup DelayNames),
     Out({43}, {"port2B"} \cup DelayNames), Out({44}, {"port2C"} \cup DelayNames),
     Out({45}, {"port2D"}), Out({46}, {"port2E"} \cup DelayNames), Out({47}, {"port2F"})}

(* Ports 30 to 38: the user timers, three ports for each.                  *)
TimerIn(j) ==
    {Reads(45 + 3 * j, UserFrequency[j]), Reads(46 + 3 * j, UserMode[j]),
     In({47 + 3 * j}, {UserFrequency[j], UserLoop[j]}, {})}
TimerSets(j) ==
    {Out({45 + 3 * j}, {UserFrequency[j], UserLoop[j]}),
     Out({46 + 3 * j}, {UserMode[j], "interrupts"}), Out({47 + 3 * j}, {UserLoop[j]})}
TimersIn == UNION {TimerIn(j) : j \in 1..3}
TimersSets == UNION {TimerSets(j) : j \in 1..3}

(* Ports 40 to 48: the clock.                                              *)
ClockIn ==
    {Reads(64, "clock_mode"), In(65..68, {"clock_input"}, {}),
     In(69..72, {"clock_mode", "clock_diff", "time"}, {}), In({76, 77, 85, 86, 87}, {}, {})}
ClockSets == {Out({64}, {"clock_mode", "clock_diff"}), Out(65..68, {"clock_input"})}

-----------------------------------------------------------------------------
(* TI-83 Plus Silver Edition: no clock.                                    *)
XsNames == SilverNames \cup ExecNames
XsLowIn == LowIn
XsIn == XsLowIn \cup MiddleIn \cup TimersIn
XsLowSets == LowSets
XsMiddleSets == MiddleSets
XsSets == XsLowSets \cup XsMiddleSets \cup TimersSets

(* TI-84 Plus                                                              *)
X4Names == SilverNames \cup ExecNames \cup ClockNames
X4LowIn == LowIn
X4In == X4LowIn \cup MiddleIn \cup TimersIn \cup ClockIn
X4LowSets == LowSets
X4MiddleSets == MiddleSets
X4Sets == X4LowSets \cup X4MiddleSets \cup TimersSets \cup ClockSets

(* TI-84 Plus Silver Edition                                               *)
XzNames == SilverNames \cup ExecNames \cup ClockNames
XzLowIn == LowIn
XzIn == XzLowIn \cup MiddleIn \cup TimersIn \cup ClockIn
XzLowSets == LowSets
XzMiddleSets == MiddleSets
XzSets == XzLowSets \cup XzMiddleSets \cup TimersSets \cup ClockSets

(* TI-84 Plus of the Nspire: one register for the RAM that may not be      *)
(* executed; port 02 acknowledges nothing.                                 *)
XnNames == SilverNames \cup {"no_exec_ram"} \cup ClockNames
XnLowIn == LowIn
XnIn == XnLowIn \cup MiddleIn \cup TimersIn \cup ClockIn
XnLowSets == {r \in LowSets : r.at # {2}}
XnMiddleSets ==
    {r \in MiddleSets : r.at \cap {33, 37, 38} = {}}
    \cup {Out({33}, {"port21", "no_exec_ram"}), Out({37}, {"port25"}), Out({38}, {"port26"})}
XnSets == XnLowSets \cup XnMiddleSets \cup TimersSets \cup ClockSets

(* TI-84 Plus C: another LCD, of which "lcd_r" stands for the registers,   *)
(* a ninth bit of page numbers, and a backlight.                           *)
ColorLcd == {"lcd_reg_index", "lcd_read_state", "lcd_read_buf1", "lcd_read_buf2", "lcd_write_state",
             "lcd_write_buffer", "lcd_r", "lcd_cur_x", "lcd_cur_y"}
XcNames == SilverNames \cup ExecNames \cup ClockNames \cup ColorLcd
           \cup {"port24", "port39", "port3A", "backlight_on", "backlight_level"}
XcLowIn ==
    {r \in LowIn : r.at \notin {{16, 18}, {17, 19}}}
    \cup {In({16, 18}, {"lcd_port_delay"}, {"lcd_wait"}),
          In({17, 19}, {"lcd_port_delay"} \cup ColorLcd,
             {"lcd_wait", "lcd_read_state", "lcd_read_buf1", "lcd_read_buf2"})}
XcIn == XcLowIn \cup MiddleIn \cup TimersIn \cup ClockIn
        \cup {Reads(36, "port24"), Reads(57, "port39"), Reads(58, "port3A")}
XcLowSets == LowSets
XcMiddleSets ==
    {r \in MiddleSets : r.at \cap {14, 15, 16, 17} = {}}
    \cup {Maps({14}, "portE"), Maps({15}, "portF"), Out({36}, {"port24"}),
          Out({16, 18}, {"lcd_wait", "lcd_reg_index", "lcd_read_state", "lcd_write_state"}),
          Out({17, 19}, {"lcd_wait", "lcd_read_state", "lcd_write_state", "lcd_write_buffer", "lcd_r",
                         "lcd_cur_x", "lcd_cur_y", "lcd.active"})}
XcSets == XcLowSets \cup XcMiddleSets \cup TimersSets \cup ClockSets
          \cup {Out({57}, {"port39"}),
                Out({58}, {"port3A", "backlight_on", "backlight_level", "lcd.contrast"})}

-----------------------------------------------------------------------------
Machine(names, in, sets) == [names |-> names, shows |-> Shows(in), sets |-> Sets(in \cup sets)]

(* What each model's ports are to a state file.  Writing to memory moves   *)
(* the state of the protection, and programming goes on in the Flash chip. *)
Machines ==
    LET m83 == Machine(X3Names, X3In, X3Sets) IN
    [ti81 |-> Machine(X1Names, X1In, X1Sets), ti82 |-> Machine(X2Names, X2In, X2Sets),
     ti83 |-> m83, ti76 |-> m83, ti85 |-> Machine(X5Names, X5In, X5Sets),
     ti86 |-> Machine(X6Names, X6In, X6Sets), ti73 |-> Machine(X7Names, X7In, X7Sets),
     ti83p |-> Machine(XpNames, XpIn, XpSets), ti83pse |-> Machine(XsNames, XsIn, XsSets),
     ti84p |-> Machine(X4Names, X4In, X4Sets), ti84pse |-> Machine(XzNames, XzIn, XzSets),
     ti84pns |-> Machine(XnNames, XnIn, XnSets), ti84pcse |-> Machine(XcNames, XcIn, XcSets)]
=============================================================================
