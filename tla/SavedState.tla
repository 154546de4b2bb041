----------------------------- MODULE SavedState -----------------------------
(***************************************************************************)
(* What outlives the emulator: the ROM file and the state file, how they   *)
(* are written (emu/state.c, gui/emulator.c), chosen, recognized           *)
(* (emu/rom.c) and read.  A register of the calculator holds "reset", what *)
(* creating it gives, or its own name, what a program wrote there, so that *)
(* a value read into another register is seen.  The model's own registers  *)
(* are two: one that a reset sets and one that it leaves alone.            *)
(***************************************************************************)
EXTENDS Ports, FiniteSets

CONSTANTS
    Half,       \* bytes of a half of the certificate page (0x2000)
    Blank,      \* bytes that are ff in a half without fields (0x1000)
    InstTab, ExpTab,    \* where its tables start; ExpTab is 0 where there is none
    AppStart, AppEnd,   \* pages of the first and the last application
    Disks,      \* ROM files and state files to begin with
    Speeds,     \* clocks in a millisecond, multiples of 1000
    MaxOps,     \* bound on what is done to the emulator and the files
    Lefts       \* functions from timers to the clocks left when the program stops

VARIABLES
    calc,       \* the calculator; its model is "none" before the first load
    rom, sav,   \* the two files
    saved,      \* history: what the files hold for certain, or model "none"
    ops         \* number of operations so far

stateVars == <<calc, rom, sav, saved, ops>>
-----------------------------------------------------------------------------
(* Repair of the certificate page (emu/cert.c) when a state is loaded: a   *)
(* ROM dumped from a calculator lacks what the calculator writes itself.   *)
(* The page is two halves, one of which is in use; a half starts with      *)
(* fields up to the first ff, and has the table of installed applications  *)
(* and that of their expiration near its end.                              *)

FF == 255
CertBytes == 0..2 * Half - 1
AppPages == IF AppStart < AppEnd THEN AppStart..AppEnd ELSE AppEnd..AppStart
Index(page) == IF AppStart < AppEnd THEN page - AppStart ELSE AppStart - page

(* Length of the field at i, by the size code in its type.                 *)
FieldLength(half, i) ==
    LET code == half[i + 1] % 16
    IN  CASE code = 13 -> half[i + 2] + 3
          [] code = 14 -> 256 * half[i + 2] + half[i + 3] + 4
          [] code = 15 -> 6
          [] OTHER -> code + 2

(* The byte behind the last field, or Half when a field leaves the half.   *)
FieldsEnd(half) ==
    LET From[i \in 1..Half] ==
            IF i = Half \/ half[i] > 15 THEN i
            ELSE LET next == i + FieldLength(half, i)
                 IN  From[IF next < Half THEN next ELSE Half]
    IN  From[1]

(* certificate_valid()                                                     *)
CertificateValid(half) ==
    /\ half[0] = 0
    /\ \E end \in {FieldsEnd(half)} :
         /\ end < Half /\ half[end] = FF
         /\ end = 1 => \A i \in 1..Blank-1 : half[i] = FF

(* The half in use, and the three bytes a field length may be read from.   *)
InUse(cert) ==
    LET base == IF cert[Half] = 0 THEN Half ELSE 0
    IN  [i \in 0..Half+2 |-> IF base + i \in CertBytes THEN cert[base + i] ELSE FF]

(* A byte of the table of installed applications: bits that are set are    *)
(* cleared, the first one and that of every page with an application.      *)
TableByte(found, k) ==
    LET Has(b) == IF 8 * k + b = 0 \/ \E p \in found : Index(p) + 1 = 8 * k + b
                  THEN 2^b ELSE 0
    IN  FF - (Has(0) + Has(1) + Has(2) + Has(3) + Has(4) + Has(5) + Has(6) + Has(7))

(* tilem_calc_fix_certificate(), with the pages that look like the first   *)
(* one of an application.                                                  *)
Repaired(found) ==
    [i \in CertBytes |->
        CASE i = 0 -> 0
          [] ExpTab # 0 /\ \E p \in found : i = ExpTab + 2 * Index(p) -> 128
          [] ExpTab # 0 /\ \E p \in found : i = ExpTab + 2 * Index(p) + 1 -> 0
          [] i \in InstTab..Half-1 -> TableByte(found, i - InstTab)
          [] OTHER -> FF]

FixCertificate(cert, apps) ==
    IF CertificateValid(InUse(cert)) THEN cert ELSE Repaired(apps \cap AppPages)

-----------------------------------------------------------------------------
Once(count, period) == [int |-> <<count, period>>]
Thrice(period) == [int1 |-> <<1600, period>>, int2a |-> <<1300, period>>,
                   int2b |-> <<1000, period>>]
Gray == {"LINK", "T6A04"}
Se == {"LINK", "ASSIST", "FLASH", "MD5"}

(* The registry: size of the ROM in Kbyte, flags, user timers, the timers  *)
(* that a reset starts (microseconds left and period), and further ones.   *)
Calc(kb, flags, users, started, more) ==
    [kb |-> kb, flags |-> flags, users |-> users, started |-> started, more |-> more]
hwmodels == [
    ti81     |-> Calc(32, {"T6A04"}, 0, Once(6000, 6000), {}),
    ti82     |-> Calc(128, Gray, 0, Once(1000, 9259), {}),
    ti83     |-> Calc(256, Gray, 0, Thrice(9259), {}),
    ti76     |-> Calc(256, Gray, 0, Thrice(9259), {}),
    ti85     |-> Calc(128, {"LINK"}, 0, Once(1000, 5000), {}),
    ti86     |-> Calc(256, {"LINK"}, 0, Once(1000, 5000), {}),
    ti73     |-> Calc(512, Gray \cup {"FLASH"}, 0, Thrice(8474), {}),
    ti83p    |-> Calc(512, Gray \cup {"ASSIST", "FLASH"}, 0, Thrice(8474), {}),
    ti83pse  |-> Calc(2048, Gray \cup Se, 3, Thrice(9277), {"lcd_wait"}),
    ti84p    |-> Calc(1024, Gray \cup Se, 3, Thrice(9277), {"lcd_wait"}),
    ti84pse  |-> Calc(2048, Gray \cup Se, 3, Thrice(9277), {"lcd_wait"}),
    ti84pns  |-> Calc(2048, Gray \cup Se, 3, Thrice(9277), {"lcd_wait", "freeze_link_port"}),
    ti84pcse |-> Calc(4096, Se, 3, Thrice(9277), {"lcd_wait", "backlight_off"})]
Models == DOMAIN hwmodels
Has(m, flag) == flag \in hwmodels[m].flags
\* lcdmemsize: the screen of these two is in the RAM.
LcdMemory(m) == m \notin {"ti85", "ti86"}

Z80Keys == {"af", "bc", "de", "hl", "af'", "bc'", "de'", "hl'", "ix", "iy", "pc", "sp", "ir",
            "wz", "wz'", "iff1", "iff2", "im", "interrupts", "halted"}
LcdKeys == {"lcd.active", "lcd.contrast", "lcd.rowstride", "lcd.addr"}
T6A04Keys == {"lcd.rowshift", "lcd.inc", "lcd.mode", "lcd.x", "lcd.y", "lcd.nextbyte",
              "lcd.busy"}
LinkKeys == {"linkport.lines", "linkport.mode"}
AssistKeys == {"linkport.assistflags", "linkport.assistin", "linkport.assistinbits",
               "linkport.assistout", "linkport.assistoutbits", "linkport.assistlastbyte"}
KeypadKeys == {"keypad.group", "keypad.onkeyint"}
PageKeys == {"mempagemap0", "mempagemap1", "mempagemap2", "mempagemap3"}
PowerKeys == {"poweronhalt", "battery"}
FlashKeys == {"flash.unlock", "flash.state", "flash.busy", "flash.progaddr", "flash.progbyte",
              "flash.toggles", "flash.overridegroup"}
Md5Keys == {"md5assist.a", "md5assist.b", "md5assist.c", "md5assist.d", "md5assist.x",
            "md5assist.t", "md5assist.shift", "md5assist.mode"}
UserKeys == [j \in 0..2 |->
    CASE j = 0 -> {"usertimer0.frequency", "usertimer0.loopvalue", "usertimer0.status"}
      [] j = 1 -> {"usertimer1.frequency", "usertimer1.loopvalue", "usertimer1.status"}
      [] j = 2 -> {"usertimer2.frequency", "usertimer2.loopvalue", "usertimer2.status"}]
HwRegs == {"port3", "hw_version"}
AllUserKeys == UserKeys[0] \cup UserKeys[1] \cup UserKeys[2]

(* tilem_calc_save_state() writes what the flags of the model call for;    *)
(* load_new_sav_file() knows every name.                                   *)
If(c, S) == IF c THEN S ELSE {}
MutSavedKeys(m) ==      \* the last user timer forgotten
    Z80Keys \cup LcdKeys \cup KeypadKeys \cup PageKeys \cup PowerKeys \cup HwRegs
    \cup If(Has(m, "T6A04"), T6A04Keys) \cup If(Has(m, "LINK"), LinkKeys)
    \cup If(Has(m, "ASSIST"), AssistKeys) \cup If(Has(m, "FLASH"), FlashKeys)
    \cup If(Has(m, "MD5"), Md5Keys) \cup UNION {UserKeys[j] : j \in 0..hwmodels[m].users - 2}
SavedKeys(m) ==
    Z80Keys \cup LcdKeys \cup KeypadKeys \cup PageKeys \cup PowerKeys \cup HwRegs
    \cup If(Has(m, "T6A04"), T6A04Keys) \cup If(Has(m, "LINK"), LinkKeys)
    \cup If(Has(m, "ASSIST"), AssistKeys) \cup If(Has(m, "FLASH"), FlashKeys)
    \cup If(Has(m, "MD5"), Md5Keys) \cup UNION {UserKeys[j] : j \in 0..hwmodels[m].users - 1}
LoadedKeys ==
    Z80Keys \cup LcdKeys \cup T6A04Keys \cup LinkKeys \cup AssistKeys \cup KeypadKeys
    \cup Md5Keys \cup AllUserKeys \cup PowerKeys \cup PageKeys \cup FlashKeys \cup HwRegs

(* What a program can change and what it can see, through the ports of a   *)
(* model, the CPU, the Flash chip and the link assist.                     *)
RegisterKeys(m, keys) ==
    (keys \ Machines[m].names) \cup If(keys \cap Machines[m].names # {}, HwRegs)
WrittenKeys ==
    [m \in Models |->
        Z80Keys \cup PageKeys \cup RegisterKeys(m, Machines[m].sets)
        \cup If(Has(m, "FLASH"), FlashKeys) \cup If(Has(m, "ASSIST"), AssistKeys)]
SeenKeys == [m \in Models |-> RegisterKeys(m, Machines[m].shows \ HostState)]

(* get_timer_name(): the persistent timers.                                *)
UserTimers == {"user1", "user2", "user3"}
TimerNames(m) ==
    {"lcddelay", "flashdelay", "linkassist"} \cup UserTimers
    \cup DOMAIN hwmodels[m].started \cup hwmodels[m].more
-----------------------------------------------------------------------------
Off == [on |-> FALSE, left |-> 0, period |-> 0, rt |-> FALSE]

(* tilem_z80_set_timer(): nothing is started with a count of 0.            *)
SetTimer(speed, count, period, rt) ==
    IF count = 0 THEN Off
    ELSE [on |-> TRUE, period |-> period, rt |-> rt,
          left |-> IF rt THEN (speed * count + 500) \div 1000 ELSE count]

(* tilem_z80_get_timer_microseconds()                                      *)
Microseconds(speed, left) ==
    IF left < 0 THEN -((-left * 1000 + speed \div 2) \div speed)
    ELSE (left * 1000 + speed \div 2) \div speed

(* tilem_z80_set_speed(): real-time timers that are not due keep the time. *)
Rescaled(t, old, new) ==
    IF old # new /\ t.on /\ t.rt /\ t.left \notin -9999..0
    THEN [t EXCEPT !.left = (@ * new + old \div 2) \div old] ELSE t

(* tilem_calc_reset() and the reset of the model.  The memory stays, and   *)
(* so do the registers and timers that no reset function mentions.         *)
ResetSpeed(m) == IF m = "ti81" THEN 2000 ELSE 6000
KeptKeys(m) ==
    {"battery", "hw_version", "flash.progaddr", "flash.progbyte", "flash.toggles"}
    \cup If(m # "ti81", {"poweronhalt"})
    \cup If(m \notin {"ti83pse", "ti84pse", "ti84pcse"}, {"flash.overridegroup"})
CalcReset(c) ==
    LET speed == ResetSpeed(c.model)
        started == hwmodels[c.model].started
    IN  [c EXCEPT
           !.speed = speed,
           !.regs = [k \in LoadedKeys |-> IF k \in KeptKeys(c.model) THEN @[k] ELSE "reset"],
           !.timers = [t \in TimerNames(c.model) |->
              CASE t \in DOMAIN started -> SetTimer(speed, started[t][1], started[t][2], TRUE)
                [] t \in UserTimers \cup {"linkassist"} -> Off
                [] OTHER -> Rescaled(@[t], c.speed, speed)]]

(* tilem_calc_new() with the image of a ROM file, not yet reset.           *)
NewCalc(m, image) ==
    [model |-> m, speed |-> ResetSpeed(m), regs |-> [k \in LoadedKeys |-> "reset"],
     timers |-> [t \in TimerNames(m) |-> Off], ram |-> "zero", lcd |-> "zero", image |-> image]
-----------------------------------------------------------------------------
(* State files.  `open': the file ends within the last block it has.       *)
NoFile == [kind |-> "none"]
EmptyFile == [kind |-> "new", model |-> "none", speed |-> 0, regs |-> << >>, timers |-> << >>,
              ram |-> "none", lcd |-> "none", open |-> FALSE]
ModelFile(m) == [EmptyFile EXCEPT !.model = m]

SavedTimer(speed, t) ==
    [value |-> IF t.rt THEN Microseconds(speed, t.left) ELSE t.left,
     period |-> t.period, rt |-> t.rt]

(* How far the writing of a state file came.                               *)
Cuts == {"nothing", "model", "registers", "in RAM", "before LCD", "in LCD", "all"}
FileOf(c, cut) ==
    LET running == {t \in TimerNames(c.model) : c.timers[t].on}
        body == [kind |-> "new", model |-> c.model, speed |-> c.speed,
                 regs |-> [k \in SavedKeys(c.model) |-> c.regs[k]],
                 timers |-> [t \in running |-> SavedTimer(c.speed, c.timers[t])],
                 ram |-> c.ram, lcd |-> IF LcdMemory(c.model) THEN c.lcd ELSE "none",
                 open |-> FALSE]
    IN  CASE cut = "nothing" -> EmptyFile
          [] cut = "model" -> ModelFile(c.model)
          [] cut = "registers" -> [body EXCEPT !.timers = << >>, !.ram = "none", !.lcd = "none"]
          [] cut = "in RAM" -> [body EXCEPT !.lcd = "none", !.open = TRUE]
          [] cut = "before LCD" -> [body EXCEPT !.lcd = "none"]
          [] cut = "in LCD" -> [body EXCEPT !.open = LcdMemory(c.model)]
          [] cut = "all" -> body

(* load_new_sav_file() into a calculator that was reset.                   *)
LoadNew(c, f) ==
    LET speed == IF f.speed = 0 THEN c.speed ELSE f.speed IN
    [ok |-> f.model = c.model /\ ~f.open,
     calc |-> [c EXCEPT
        !.speed = speed,
        !.regs = [k \in LoadedKeys |-> IF k \in DOMAIN f.regs THEN f.regs[k] ELSE @[k]],
        !.timers = [t \in DOMAIN @ |->
           IF t \in DOMAIN f.timers
           THEN SetTimer(speed, f.timers[t].value, f.timers[t].period, f.timers[t].rt)
           ELSE @[t]],
        !.ram = IF f.ram = "none" THEN @ ELSE f.ram,
        !.lcd = IF f.lcd = "none" THEN @ ELSE f.lcd]]

(* load_old_sav_file(): a dump without names, told by its first byte.      *)
(* What is not in it is restored through the ports: the pages and the      *)
(* registers behind them; port 4, whose value is the page mode alone, also *)
(* sets the period of the interrupts, which is left out here.  `short': it *)
(* ends before the LCD's bytes do; `tail': it has the optional bytes       *)
(* behind them, with port 20: the speed of a calculator that has two, the  *)
(* lines of one where it is port 0 again.                                  *)
OldKeys(m, tail) ==
    PageKeys \cup (Z80Keys \ {"wz", "wz'", "interrupts", "halted"})
    \cup If(m \in {"ti82", "ti83"}, {"port3"})
    \cup If(m \notin {"ti81", "ti82", "ti83"}, {"port3"})
    \cup If(Has(m, "T6A04"), {"lcd.rowstride"})
    \cup If(tail /\ m \notin {"ti81", "ti85", "ti86"}, {"lcd.mode", "lcd.x", "lcd.y"})
    \cup If(tail /\ m \notin {"ti81", "ti82", "ti83", "ti85", "ti86"},
            {"lcd.inc", "flash.state", "flash.unlock"})
    \cup If(tail /\ m \in {"ti73", "ti76", "ti83p"}, {"linkport.lines"})
LoadOld(c, f) ==
    LET speed == IF f.tail /\ Has(c.model, "MD5") THEN f.speed ELSE c.speed IN
    [ok |-> ~f.short,
     calc |-> [c EXCEPT
        !.speed = speed,
        !.timers = [t \in DOMAIN @ |-> Rescaled(@[t], c.speed, speed)],
        !.regs = [k \in LoadedKeys |->
           CASE k \in {"poweronhalt", "lcd.active"} /\ ~f.short -> k
             [] k \in OldKeys(c.model, f.tail) -> k
             [] OTHER -> @[k]],
        !.ram = f.ram,
        !.lcd = IF Has(c.model, "T6A04") THEN f.lcd ELSE @]]

(* The certificate of a Flash calculator is repaired once all is read.     *)
StateLoaded(c) ==
    IF Has(c.model, "FLASH")
    THEN [c EXCEPT !.image.cert = FixCertificate(@, c.image.apps)] ELSE c

(* tilem_calc_load_state(); `image' is that of the ROM file, or of `c'     *)
(* where the file is not read again.                                       *)
LoadState(c, image, f) ==
    LET fresh == CalcReset([c EXCEPT !.image = image])
        Finish(r) == IF r.ok THEN [ok |-> TRUE, calc |-> StateLoaded(r.calc)]
                     ELSE [ok |-> FALSE, calc |-> CalcReset(r.calc)]
    IN  CASE f.kind = "none" -> [ok |-> TRUE, calc |-> StateLoaded(fresh)]
          [] f.kind = "old" -> Finish(LoadOld(fresh, f))
          [] f.kind = "new" -> Finish(LoadNew(fresh, f))

(* tilem_get_sav_type(): the model a state file names.                     *)
GetSavType(f) == IF f.kind = "new" THEN f.model ELSE "none"

(* tilem_guess_rom_type(): the size, and strings that occur in the ROM.    *)
GuessRomType(r) ==
    CASE r.kb = 32 -> "ti81"
      [] r.kb = 128 -> IF "CATALOG" \in r.strings THEN "ti85" ELSE "ti82"
      [] r.kb = 256 -> IF "TI82" \notin r.strings THEN "ti86"
                       ELSE IF "Termin" \in r.strings THEN "ti76" ELSE "ti83"
      [] r.kb = 512 -> IF "TI-83 Plus" \in r.strings THEN "ti83p" ELSE "ti73"
      [] r.kb = 1024 -> "ti84p"
      [] r.kb = 2048 -> IF "edef" \in r.strings THEN "ti84pns"
                        ELSE IF "Operating" \in r.strings THEN "ti84pse" ELSE "ti83pse"
      [] r.kb = 4096 -> "ti84pcse"
      [] OTHER -> "none"

(* choose_rom_popup(): the user picks one of the models of that size, or   *)
(* none of them.                                                           *)
RomChoices(guess) ==
    LET same == {m \in Models : hwmodels[m].kb = hwmodels[guess].kb}
    IN  IF Cardinality(same) < 2 THEN {guess} ELSE same \cup {"none"}

ModelChoices(arg) ==
    IF arg # "none" THEN {arg}
    ELSE IF GetSavType(sav) # "none" THEN {GetSavType(sav)}
    ELSE IF GuessRomType(rom) # "none" THEN RomChoices(GuessRomType(rom)) ELSE {"none"}

(* What tilem_calc_emulator_load_state() would load as model m.            *)
LoadedAs(m) ==
    IF hwmodels[m].kb > rom.kb THEN [ok |-> FALSE, calc |-> NewCalc(m, rom)]
    ELSE LoadState(NewCalc(m, rom), rom, sav)
-----------------------------------------------------------------------------
NoCalc == [model |-> "none"]

StateInit ==
    /\ \E d \in Disks : rom = d.rom /\ sav = d.sav
    /\ calc = NoCalc /\ saved = NoCalc /\ ops = 0

(* Open a ROM file, of a model that the command line may name.  A load     *)
(* that fails, or that the user cancels, keeps the calculator; without a   *)
(* state file the model is written to one, if it can be created.           *)
Load(arg) ==
    \E m \in ModelChoices(arg) \ {"none"}, created \in BOOLEAN :
      \E r \in {LoadedAs(m)} :
        /\ r.ok
        /\ calc' = r.calc
        /\ sav' = IF sav.kind = "none" /\ created THEN ModelFile(m) ELSE sav
        /\ UNCHANGED <<rom, saved>>

(* tilem_calc_emulator_revert_state(): both files into the calculator that *)
(* runs, which is left reset where this fails.                             *)
Revert ==
    /\ calc.model # "none" /\ sav.kind # "none"
    /\ LET image == IF Has(calc.model, "FLASH") THEN rom ELSE calc.image
       IN  calc' = LoadState(calc, image, sav).calc
    /\ UNCHANGED <<rom, sav, saved>>

(* tilem_calc_emulator_save_state().  The state file is emptied when it is *)
(* opened, before the ROM is written.  An emulator that is killed there is *)
(* one that fails there and ends.                                          *)
WriteState(cut) ==
    /\ sav' = FileOf(calc, cut)
    /\ saved' = IF cut = "all" THEN calc ELSE NoCalc

Save(cut) ==
    /\ calc.model # "none"
    /\ rom' = IF Has(calc.model, "FLASH") THEN calc.image ELSE rom
    /\ WriteState(cut)
    /\ UNCHANGED calc

RomWriteFails ==
    /\ calc.model # "none" /\ Has(calc.model, "FLASH")
    /\ rom' \in {rom, calc.image, [rom EXCEPT !.data = "mixed"]}
    /\ WriteState("nothing")
    /\ UNCHANGED calc

(* The emulator ends.                                                      *)
Quit ==
    /\ calc.model # "none"
    /\ calc' = NoCalc
    /\ UNCHANGED <<rom, sav, saved>>

(* The user removes the state file.                                        *)
RemoveStateFile ==
    /\ sav.kind # "none"
    /\ sav' = NoFile /\ saved' = NoCalc
    /\ UNCHANGED <<calc, rom>>

ResetCalc ==
    /\ calc.model # "none"
    /\ calc' = CalcReset(calc)
    /\ UNCHANGED <<rom, sav, saved>>

(* The program writes all it can, at a speed, and sets timers: of the user *)
(* timers one that counts the crystal's ticks and two the clock's.         *)
RealTime(t) ==
    \/ t \in DOMAIN hwmodels[calc.model].started
    \/ t \in {"flashdelay", "linkassist", "backlight_off", "freeze_link_port", "user1"}
RunProgram(speed, lefts) ==
    /\ calc.model # "none"
    /\ calc' = [calc EXCEPT
         !.speed = speed,
         !.regs = [k \in LoadedKeys |-> IF k \in WrittenKeys[calc.model] THEN k ELSE @[k]],
         !.timers = [t \in DOMAIN @ |->
            IF t \in UserTimers /\ hwmodels[calc.model].users = 0 THEN @[t]
            ELSE [on |-> TRUE, left |-> lefts[t], rt |-> RealTime(t),
                  period |-> IF t \in DOMAIN hwmodels[calc.model].started THEN 9277 ELSE 0]],
         !.ram = "written",
         !.lcd = IF LcdMemory(calc.model) THEN "written" ELSE @,
         !.image.data = IF Has(calc.model, "FLASH") THEN "written" ELSE @]
    /\ UNCHANGED <<rom, sav, saved>>

StateNext ==
    \/ /\ ops < MaxOps /\ ops' = ops + 1
       /\ \/ \E arg \in Models \cup {"none"} : Load(arg)
          \/ Revert
          \/ \E cut \in Cuts : Save(cut)
          \/ RomWriteFails
          \/ Quit \/ RemoveStateFile
          \/ ResetCalc
          \/ \E speed \in Speeds, lefts \in Lefts : RunProgram(speed, lefts)
    \/ ops = MaxOps /\ UNCHANGED stateVars      \* the bound
-----------------------------------------------------------------------------
(* A timer comes back as it was, within the rounding to microseconds; one  *)
(* that is saved as 0, with less than half a microsecond left or due, may  *)
(* not come back at all; one that is off is off, or as a reset leaves it.  *)
SameTimer(name, t, u, m, speed) ==
    IF ~t.on THEN u.on => name \in DOMAIN hwmodels[m].started
    ELSE SavedTimer(speed, t).value # 0 =>
           /\ u.on /\ u.rt = t.rt /\ u.period = t.period
           /\ IF t.rt THEN 2000 * (u.left - t.left) \in -(speed + 1000)..speed + 1000
              ELSE u.left = t.left

(* Every register that a program of the model can set, or can read at a    *)
(* port.                                                                   *)
Restored(c) ==
    \A k \in WrittenKeys[saved.model] \cup SeenKeys[saved.model] :
        k \in DOMAIN c.regs /\ c.regs[k] = saved.regs[k]

(* What was saved and not written over since can be loaded, without asking *)
(* for the model, and is what was running: the registers, the memory and   *)
(* the timers.                                                             *)
SavedIsLoaded ==
    saved.model # "none" =>
        /\ ModelChoices("none") = {saved.model}
        /\ \E r \in {LoadedAs(saved.model)} :
             /\ r.ok /\ r.calc.speed = saved.speed
             /\ Restored(r.calc)
             /\ r.calc.ram = saved.ram /\ r.calc.lcd = saved.lcd
             /\ r.calc.image.data = saved.image.data
             /\ \A t \in TimerNames(saved.model) :
                  SameTimer(t, saved.timers[t], r.calc.timers[t], saved.model, saved.speed)

(* The same into the calculator that runs: nothing of what it did since    *)
(* stays, but for a delay that the files do not have.                      *)
RevertedIsSaved ==
    saved.model # "none" /\ calc.model = saved.model =>
        \E r \in {LoadState(calc, IF Has(calc.model, "FLASH") THEN rom ELSE calc.image, sav)} :
           /\ r.ok /\ r.calc.image.data = saved.image.data
           /\ Restored(r.calc)

(* A certificate is valid once a state is loaded, whatever the files are.  *)
CertificateRepaired ==
    \A m \in ModelChoices("none") \ {"none"} : Has(m, "FLASH") =>
        \E r \in {LoadedAs(m)} : r.ok => CertificateValid(InUse(r.calc.image.cert))

StateSound == SavedIsLoaded /\ RevertedIsSaved /\ CertificateRepaired
=============================================================================
