-------------------------------- MODULE Flash --------------------------------
(***************************************************************************)
(* The Flash chip (emu/flash.c): its command state machine, the busy       *)
(* phases driven by one timer, and the contents.  A byte is the set of its *)
(* bits that are 1.  Commands are decoded from 12 bits of the address and  *)
(* the byte written; the toggle bits of a status read are left out, and so *)
(* is the start of the last erase, which only warnings use.  The unlock    *)
(* bit and the override group are set by ports of the model, which guard   *)
(* them by other means.                                                    *)
(***************************************************************************)
EXTENDS Naturals

CONSTANTS
    Addr,       \* addresses of the chip
    Sector,     \* its sectors
    Group,      \* protection bits
    Data,       \* bytes that are programmed; commands may be among them
    SectorOf,   \* sector of an address (get_sector)
    Low12,      \* what pa & 0xFFF is: "AAA", "555" or "other"
    Protect,    \* protectgroup of a sector
    Overrides,  \* values of overridegroup
    Preset,     \* what the reset of most models makes of it (xz_init.c:76)
    Nspire      \* models: FALSE, or TRUE for the virtual TI-84 of the Nspire

Bits == 0..7
Full == Bits
AA == {1, 3, 5, 7}
Command == [x10 |-> {4}, x20 |-> {5}, x30 |-> {4, 5}, x55 |-> {0, 2, 4, 6}, x80 |-> {7},
            x90 |-> {4, 7}, xA0 |-> {5, 7}, xF0 |-> {4, 5, 6, 7}, xAA |-> AA]
Byte == Data \cup {Command[c] : c \in DOMAIN Command}

ASSUME DataAssumption == Data \subseteq SUBSET Bits
ASSUME ChipAssumption ==
    /\ SectorOf \in [Addr -> Sector]
    /\ Low12 \in [Addr -> {"AAA", "555", "other"}]
    /\ Protect \in [Sector -> SUBSET Group]
    /\ Overrides \subseteq SUBSET Group
    /\ Preset \in Overrides
    /\ Nspire \subseteq BOOLEAN

VARIABLES
    mem,        \* the contents
    state,      \* flash.state
    busy,       \* flash.busy
    unlock,     \* flash.unlock
    override,   \* flash.overridegroup
    delay,      \* TILEM_TIMER_FLASH_DELAY is set
    prog,       \* flash.progaddr and progbyte; polling (history): they were not
                \* written in fast mode, and no write has been accepted since
    nspire      \* the model

chip == <<mem, state, busy, delay, prog>>
vars == <<chip, unlock, override, nspire>>

States == {"READ", "AA", "55", "PROG", "ERASE", "ERAA", "ER55", "ERROR",
           "FASTMODE", "FASTPROG", "FASTEXIT"}
Programs == [addr : Addr, byte : SUBSET Bits, polling : BOOLEAN]

Init ==
    /\ mem \in [Addr -> {Full} \cup Data]
    /\ state = "READ" /\ busy = "no" /\ delay = FALSE
    /\ unlock = FALSE /\ override \in Overrides
    /\ prog \in [addr : Addr, byte : {{}}, polling : {FALSE}]
    /\ nspire \in Nspire

-----------------------------------------------------------------------------
\* sector_writable()
Writable(s) == Protect[s] \subseteq override

\* What a command byte makes of the state, where no contents change.
NextState(st, a, v) ==
    CASE st = "READ" /\ Low12[a] = "AAA" /\ v = Command.xAA -> "AA"
      [] st = "AA" /\ Low12[a] = "555" /\ v = Command.x55 -> "55"
      [] st = "55" /\ Low12[a] = "AAA" /\ v = Command.x20 -> "FASTMODE"
      [] st = "55" /\ Low12[a] = "AAA" /\ v = Command.x80 -> "ERASE"
      [] st = "55" /\ Low12[a] = "AAA" /\ v = Command.xA0 -> "PROG"
      [] st = "FASTMODE" /\ v = Command.x90 -> "FASTEXIT"
      [] st = "FASTMODE" /\ v = Command.xA0 -> "FASTPROG"
      [] st = "FASTEXIT" /\ v # Command.xF0 -> "FASTMODE"
      [] st = "ERASE" /\ Low12[a] = "AAA" /\ v = Command.xAA -> "ERAA"
      [] st = "ERAA" /\ Low12[a] = "555" /\ v = Command.x55 -> "ER55"
      [] OTHER -> "READ"

\* A write is taken by the chip; any other changes nothing.
Accepts == unlock /\ busy \notin {"PROGRAM", "ERASE"}

SetBusy(b) == busy' = b /\ delay' = TRUE

\* Mutant: the byte written replaces the byte in the chip.
MutProgram(a, v, fast) ==
    /\ mem' = [mem EXCEPT ![a] = v]
    /\ prog' = [addr |-> a, byte |-> v, polling |-> ~fast]
    /\ SetBusy("PROGRAM")

\* program_byte(): programming can only clear bits.
Program(a, v, fast) ==
    /\ mem' = [mem EXCEPT ![a] = @ \cap v]
    /\ prog' = [addr |-> a, byte |-> v, polling |-> ~fast]
    /\ SetBusy("PROGRAM")

NotPolling == prog' = [prog EXCEPT !.polling = FALSE]

\* erase_sector() on each of the sectors.
Erase(sectors) ==
    /\ mem' = [a \in Addr |-> IF SectorOf[a] \in sectors THEN Full ELSE mem[a]]
    /\ SetBusy("ERASE_WAIT")
    /\ NotPolling

Ignored == NotPolling /\ UNCHANGED <<mem, busy, delay>>
Kept == UNCHANGED <<unlock, override, nspire>>

-----------------------------------------------------------------------------
WriteCommand ==
    /\ Accepts
    /\ state \notin {"PROG", "FASTPROG", "ER55"}
    /\ \E a \in Addr, v \in Byte : state' = NextState(state, a, v)
    /\ Ignored /\ Kept

\* Mutant: a failed program is not remembered.
MutWriteProgram ==
    /\ Accepts
    /\ state = "PROG"
    /\ \E a \in Addr, v \in Data :
          IF Writable(SectorOf[a])
            THEN Program(a, v, FALSE) /\ state' = "READ"
            ELSE state' = "READ" /\ Ignored
    /\ Kept

WriteProgram ==
    /\ Accepts
    /\ state = "PROG"
    /\ \E a \in Addr, v \in Data :
          IF Writable(SectorOf[a])
            THEN /\ Program(a, v, FALSE)
                 /\ state' = IF mem'[a] = v THEN "READ" ELSE "ERROR"
            ELSE state' = "READ" /\ Ignored
    /\ Kept

\* Fast programming returns to FASTMODE whether the byte took or not.
WriteFast ==
    /\ Accepts
    /\ state = "FASTPROG"
    /\ \E a \in Addr, v \in Data :
          IF Writable(SectorOf[a]) THEN Program(a, v, TRUE) ELSE Ignored
    /\ state' = "FASTMODE"
    /\ Kept

\* The last write of an erase command: the chip, a sector, or nothing.
WriteErase ==
    /\ Accepts
    /\ state = "ER55"
    /\ \E a \in Addr, v \in Byte :
          LET sectors == CASE v = Command.x10 /\ Low12[a] = "AAA" -> Sector
                           [] v = Command.x30 -> {SectorOf[a]}
                           [] OTHER -> {}
              erased == {s \in sectors : Writable(s)}
          IN  IF erased = {} THEN Ignored ELSE Erase(erased)
    /\ state' = "READ"
    /\ Kept

\* The instruction 0xEDEE of the Nspire's virtual TI-84: tilem_flash_erase_address(),
\* whatever the chip is doing; and 0xEDEF: the next write is programmed.
InstructionErase ==
    /\ nspire /\ unlock
    /\ \E s \in Sector :
          IF Writable(s) THEN Erase({s}) /\ state' = "READ" ELSE Ignored /\ UNCHANGED state
    /\ Kept

InstructionProgram == nspire /\ unlock /\ state' = "PROG" /\ Ignored /\ Kept

\* Bit 7 of what tilem_flash_read_byte() and the test of xp_memory.c:51 before it return:
\* the complement while programming or after an error, a 0 while erasing, else the
\* contents.
ReadBit7(a) ==
    CASE busy = "PROGRAM" \/ (busy = "no" /\ state = "ERROR") -> 7 \notin prog.byte
      [] busy \in {"ERASE", "ERASE_WAIT"} -> FALSE
      [] OTHER -> 7 \in mem[a]

\* A read inside a command sequence ends the sequence.
Read ==
    /\ busy = "no" /\ state \notin {"READ", "ERROR", "FASTMODE"}
    /\ state' = "READ"
    /\ UNCHANGED <<mem, busy, delay, prog>> /\ Kept

\* Mutant: only programming comes to an end.
MutDelayOver ==
    /\ delay
    /\ IF busy \in {"ERASE_WAIT", "ERASE"} THEN SetBusy("ERASE")
                                          ELSE busy' = "no" /\ delay' = FALSE
    /\ UNCHANGED <<mem, state, prog>> /\ Kept

\* tilem_flash_delay_timer()
DelayOver ==
    /\ delay
    /\ IF busy = "ERASE_WAIT" THEN SetBusy("ERASE") ELSE busy' = "no" /\ delay' = FALSE
    /\ UNCHANGED <<mem, state, prog>> /\ Kept

\* The ports of the model.
SetUnlock == unlock' \in BOOLEAN /\ UNCHANGED <<chip, override, nspire>>
SetOverride == unlock /\ override' \in Overrides /\ UNCHANGED <<chip, unlock, nspire>>

\* tilem_flash_reset() and the reset of the model, which on some leaves the override
\* group as it is (x4_init.c:48).  The timer is left running.
Reset ==
    /\ unlock' = FALSE /\ state' = "READ" /\ busy' = "no"
    /\ override' \in {override, Preset}
    /\ NotPolling
    /\ UNCHANGED <<mem, delay, nspire>>

Next ==
    \/ WriteCommand \/ WriteProgram \/ WriteFast \/ WriteErase
    \/ InstructionErase \/ InstructionProgram
    \/ Read \/ DelayOver \/ SetUnlock \/ SetOverride \/ Reset

Spec == Init /\ [][Next]_vars

\* The Z80 timers fire.
FairSpec == Spec /\ WF_vars(DelayOver)

-----------------------------------------------------------------------------
(* Properties.                                                             *)

\* Types.
TypeOK ==
    /\ mem \in [Addr -> SUBSET Bits]
    /\ state \in States
    /\ busy \in {"no", "PROGRAM", "ERASE_WAIT", "ERASE"}
    /\ unlock \in BOOLEAN /\ override \in Overrides /\ delay \in BOOLEAN
    /\ prog \in Programs
    /\ nspire \in Nspire

\* No sequence of commands changes a byte of a locked chip, nor one of a sector that is
\* protected by a group the program has not overridden, nor, but for the instruction of
\* the Nspire, one while the chip is busy.
ProtectedStays ==
    [][\A a \in Addr : mem'[a] # mem[a] =>
          /\ unlock
          /\ Writable(SectorOf[a])
          /\ busy \in {"PROGRAM", "ERASE"} => nspire]_vars

\* Bits are cleared one byte at a time, and set only by erasing the whole sector.
SetsOnlyWholeSectors ==
    [][\A a \in Addr : mem'[a] \subseteq mem[a]
          \/ \A b \in Addr : SectorOf[b] = SectorOf[a] => mem'[b] = Full]_vars

\* The two together: who may change the contents, and which way.
ContentsGuarded == ProtectedStays /\ SetsOnlyWholeSectors

\* A busy phase always has its timer, also after resets and after commands given in the
\* wait before an erase; otherwise the program would poll for ever.
BusyHasTimer == busy # "no" => delay

\* The polling loop of programs: whenever the bit 7 read at the address is the one that
\* was programmed, the byte is in the chip.  (Not so in fast mode, where flash.c:287
\* forgets the failure.)
PollTellsTruth ==
    prog.polling /\ ReadBit7(prog.addr) = (7 \in prog.byte) => mem[prog.addr] = prog.byte

\* The chip keeps its types, and no polling loop is deceived.
ChipSound == TypeOK /\ PollTellsTruth

\* Every busy phase ends, once the program no longer erases and only polls; as each erase
\* starts the timer again, a program that erases in the wait may prolong it for ever.
BusyEnds == <>[][~WriteErase /\ ~InstructionErase]_vars => (busy # "no" ~> busy = "no")
==============================================================================
