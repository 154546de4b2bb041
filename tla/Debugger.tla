------------------------------ MODULE Debugger ------------------------------
(***************************************************************************)
(* Who sets breakpoints while a program runs.  The debugger (debugger.c,   *)
(* breakpoints.c, disasmview.c) keeps a list whose items stand for up to   *)
(* three entries of the Z80 each, and steps by a temporary entry; its      *)
(* handlers take the emulator's lock, so they fall between instructions,   *)
(* and the window it opens after a stop is an idle callback, which may be  *)
(* late.  Calc (calc.cpp:687) keeps a list of entries and changes their    *)
(* types in place.                                                         *)
(*                                                                         *)
(* The program is external: it goes on, jumps, calls, returns, stores and  *)
(* halts as it likes, and is interrupted.  Opcodes are numbers, which may  *)
(* also be addresses.                                                      *)
(***************************************************************************)
EXTENDS Breakpoints, Sequences, SequencesExt

CONSTANTS
    Clients,    \* users: what one does (names of actions) and at most how many
                \* breakpoints he has: [does, items]
    Asks,       \* the breakpoints a user asks for: [kind, physical, mode, span]
    MaxAddress,       \* bound: addresses 0..MaxAddress
    MaxDepth    \* bound: nested calls

Access == {"X", "W", "R"}

(* Slots are those of one front end, the rest of another.                  *)
ASSUME ClientsAssumption ==
    \A c \in Clients :
        /\ c.items \in Nat
        /\ "slots" \in c.does => c.does \subseteq {"slots", "types", "run"}
        /\ "types" \in c.does => "slots" \in c.does
ASSUME AsksAssumption ==
    \A i \in Asks : i.kind \in {"memory", "opcode"} /\ i.physical \in BOOLEAN
                     /\ i.mode \subseteq Access /\ i.span \subseteq Nat
ASSUME AddressAssumption == MaxAddress \in Nat

(* What is remembered for the properties: what came of the last            *)
(* instruction, and whether an entry has ever left a list with its prev.   *)
VARIABLES breaks, machine, paused, show, items, client, outcome, spoilt

debuggerVars == <<breaks, machine, paused, show, items, client, outcome, spoilt>>

CodeAddress == 0..MaxAddress
OpcodeOf == [inc |-> 0, store |-> 1, jp |-> 2, call |-> 3, ret |-> 1, halt |-> 2]
Vector == 0
NextLine == (machine.pc + 1) % (MaxAddress + 1)

DebuggerInit ==
    /\ client \in Clients
    /\ breaks = NoBreakpoints /\ items = <<>>
    /\ machine = [pc |-> 1, stack |-> <<>>] /\ paused = FALSE /\ show = FALSE
    /\ outcome = "asked" /\ spoilt = FALSE

Does(name) == name \in client.does /\ UNCHANGED client
-----------------------------------------------------------------------------
(* The Z80 entries of an item of the debugger, one for each access.        *)
get_core_bp_type(d, access) ==
    [kind |-> IF d.kind = "opcode" THEN "op"
              ELSE CASE access = "R" -> "mr" [] access = "W" -> "mw" [] access = "X" -> "mx",
     physical |-> d.physical, disabled |-> FALSE]

Nowhere == [access \in Access |-> 0]

set_for(r, access) ==
    IF r.item.disabled \/ access \notin r.item.mode THEN r
    ELSE LET a == add_breakpoint(r.z, get_core_bp_type(r.item, access), r.item.span, "none")
         IN  [z |-> a.z, item |-> [r.item EXCEPT !.ids[access] = a.id]]

set_bp(y, d) ==
    set_for(set_for(set_for([z |-> y, item |-> [d EXCEPT !.ids = Nowhere]], "X"), "W"), "R")

unset_for(y, d, access) ==
    IF d.ids[access] = 0 THEN y ELSE remove_breakpoint(y, d.ids[access])

unset_bp(y, d) == unset_for(unset_for(unset_for(y, d, "X"), d, "W"), d, "R")

AsItem(i) == [kind |-> i.kind, physical |-> i.physical, mode |-> i.mode, span |-> i.span,
              disabled |-> FALSE, ids |-> Nowhere]

AddItem ==
    /\ Does("edit") /\ Len(items) < client.items
    /\ \E i \in Asks :
          LET r == set_bp(breaks, AsItem(i)) IN breaks' = r.z /\ items' = Append(items, r.item)
    /\ UNCHANGED <<machine, paused, show, outcome, spoilt>>

RemoveItem ==
    /\ Does("edit")
    /\ \E n \in DOMAIN items :
          breaks' = unset_bp(breaks, items[n]) /\ items' = RemoveAt(items, n)
    /\ UNCHANGED <<machine, paused, show, outcome, spoilt>>

ChangeItem(n, d) ==
    LET r == set_bp(unset_bp(breaks, items[n]), d)
    IN  breaks' = r.z /\ items' = [items EXCEPT ![n] = r.item]

(* Editing enables an item; the list and the listing switch it on or off.  *)
EditItem ==
    /\ Does("edit")
    /\ \E n \in DOMAIN items :
          \/ \E i \in Asks : ChangeItem(n, AsItem(i))
          \/ ChangeItem(n, [items[n] EXCEPT !.disabled = ~@])
    /\ UNCHANGED <<machine, paused, show, outcome, spoilt>>

-----------------------------------------------------------------------------
(* Stepping: a temporary entry that every opcode meets.                    *)
cancel_step_bp(y) == IF y.step = 0 THEN y ELSE [remove_breakpoint(y, y.step) EXCEPT !.step = 0]

AnyOpcode == [kind |-> "op", physical |-> FALSE, disabled |-> FALSE]

run_with_step_condition(test) ==
    /\ paused
    /\ LET a == add_breakpoint(cancel_step_bp(breaks), AnyOpcode,
                              {OpcodeOf[k] : k \in DOMAIN OpcodeOf}, test)
       IN  breaks' = [a.z EXCEPT !.step = a.id,
                            !.dest = IF test = "over" THEN NextLine ELSE @,
                            !.exit = IF test = "finish" THEN Len(machine.stack) ELSE @]
    /\ paused' = FALSE
    /\ UNCHANGED <<machine, show, items, outcome, spoilt>>

StepIn == Does("step") /\ run_with_step_condition("step")
StepOver == Does("over") /\ run_with_step_condition("over")
StepOut == Does("finish") /\ run_with_step_condition("finish")

Continue ==
    /\ Does("run") /\ paused
    /\ breaks' = cancel_step_bp(breaks) /\ paused' = FALSE
    /\ UNCHANGED <<machine, show, items, outcome, spoilt>>

tilem_debugger_show ==
    /\ breaks' = cancel_step_bp(breaks) /\ paused' = TRUE
    /\ UNCHANGED <<machine, items, outcome, spoilt>>

Pause == Does("pause") /\ tilem_debugger_show /\ UNCHANGED show
ShowsLate == show /\ tilem_debugger_show /\ show' = FALSE /\ UNCHANGED client

(* Another calculator: load_state() and the debugger's part of it.         *)
CalcChanged ==
    /\ Does("load")
    /\ breaks' = NoBreakpoints /\ items' = <<>>
    /\ machine' = [pc |-> 1, stack |-> <<>>]
    /\ UNCHANGED <<paused, show, outcome, spoilt>>

-----------------------------------------------------------------------------
(* The slots of Calc: items are [id, type, span], the ids m_breakIds.      *)
(* Bound: none is added to lists that are spoilt, which lose free entries. *)
SlotAdd ==
    /\ Does("slots") /\ Len(items) < client.items /\ ~spoilt
    /\ LET a == add_breakpoint(breaks, Exec, {0}, "none")
       IN  breaks' = a.z /\ items' = Append(items, [id |-> a.id, type |-> Exec, span |-> {0}])
    /\ UNCHANGED <<machine, paused, show, outcome, spoilt>>

SlotRemove ==
    /\ Does("slots")
    /\ \E n \in DOMAIN items :
          breaks' = remove_breakpoint(breaks, items[n].id) /\ items' = RemoveAt(items, n)
    /\ UNCHANGED <<machine, paused, show, outcome, spoilt>>

SlotSetType ==
    /\ Does("types")
    /\ \E n \in DOMAIN items, kind \in {"mx", "mw"}, physical \in BOOLEAN :
          LET t == [kind |-> kind, physical |-> physical, disabled |-> FALSE]
          IN  /\ kind = items[n].type.kind \/ physical = items[n].type.physical
              /\ breaks' = set_breakpoint_type(breaks, items[n].id, t)
              /\ items' = [items EXCEPT ![n].type = t]
              /\ spoilt' = (spoilt \/ (breaks.bp[items[n].id].prev # 0 /\ t # items[n].type))
    /\ UNCHANGED <<machine, paused, show, outcome>>

SlotSetAddress ==
    /\ Does("slots")
    /\ \E n \in DOMAIN items, a \in CodeAddress :
          /\ breaks' = set_breakpoint_address(breaks, items[n].id, {a})
          /\ items' = [items EXCEPT ![n].span = {a}]
    /\ UNCHANGED <<machine, paused, show, outcome, spoilt>>

-----------------------------------------------------------------------------
(* What the user has asked for: entries with their type and span.          *)
Asked ==
    IF "slots" \in client.does
    THEN {[id |-> items[n].id, list |-> bp_head(items[n].type), span |-> items[n].span] :
             n \in DOMAIN items}
    ELSE UNION {{[id |-> items[n].ids[access], list |-> bp_head(get_core_bp_type(items[n], access)),
                  span |-> items[n].span] : access \in IF items[n].disabled THEN {} ELSE items[n].mode} :
                n \in DOMAIN items}

Stops(accesses) ==
    {<<q.list, q.id>> : q \in {r \in Asked : \E x \in accesses : x[1] = r.list /\ x[2] \in r.span}}

(* Step over replaces its entry while the opcodes are walked, and the walk *)
(* goes on behind the new one, in the list of the addresses executed.      *)
Detours ==
    /\ breaks.step # 0 /\ breaks.bp[breaks.step].test = "over"
    /\ \E q \in Asked : q.list \in {"op", "mx"}

Elsewhere(stops) == {h \in stops : h[1] # "op"}

(* What came of an instruction: it stopped where asked and only there; or  *)
(* in the walk of the opcodes alone did not; or neither, or a walk did not *)
(* end, which is cut off here.                                             *)
Ends(w, accesses) ==
    LET stops == {h \in w.hits : h[2] \notin {w.z.step, breaks.step}}
        wanted == Stops(Range(accesses))
    IN  /\ breaks' = w.z
        /\ paused' = (w.hits # {}) /\ show' = (show \/ w.hits # {})
        /\ outcome' = IF w.at = 0 /\ stops = wanted THEN "asked"
                      ELSE IF w.at = 0 /\ Detours /\ Elsewhere(stops) = Elsewhere(wanted)
                      THEN "strayed" ELSE "wrong"

Checked(accesses, c) ==
    LET checked[k \in 0..Len(accesses)] ==
            IF k = 0 THEN [z |-> breaks, at |-> 0, hits |-> {}]
            ELSE LET w == checked[k - 1]
                 IN  IF w.at # 0 THEN w
                     ELSE check_breakpoints(w, accesses[k][1], accesses[k][2], c)
    IN  checked[Len(accesses)]

(* One round of z80_execute: the access of a store while it executes, the  *)
(* opcode after it, then where execution goes on, unless the CPU halts.    *)
Instruction(kind, data, next, stack, interrupted) ==
    LET halts == kind = "halt" /\ ~interrupted
        to == IF interrupted THEN Vector ELSE next
        accesses == (IF kind = "store" THEN check_mem_breakpoints("mw", "mpw", data) ELSE <<>>)
                    \o <<<<"op", OpcodeOf[kind]>>>>
                    \o (IF halts THEN <<>> ELSE check_mem_breakpoints("mx", "mpx", to))
    IN  /\ Ends(Checked(accesses, [kind |-> kind, pc |-> next, depth |-> Len(stack),
                                    interrupted |-> interrupted]), accesses)
        /\ machine' = [pc |-> IF halts THEN machine.pc ELSE to,
                   stack |-> IF interrupted THEN Append(stack, next) ELSE stack]

ExecuteNext ==
    /\ ~paused
    /\ \E kind \in DOMAIN OpcodeOf, a \in CodeAddress, interrupted \in BOOLEAN :
          LET room == Len(machine.stack) < MaxDepth
          IN  /\ kind \in {"jp", "call", "store"} \/ a = 0
              /\ kind = "call" => room /\ ~interrupted
              /\ interrupted => room
              /\ kind = "ret" => machine.stack # <<>>
              /\ Instruction(kind, a,
                             CASE kind \in {"jp", "call"} -> a
                               [] kind = "ret" -> machine.stack[Len(machine.stack)]
                               [] OTHER -> NextLine,
                             CASE kind = "call" -> Append(machine.stack, NextLine)
                               [] kind = "ret" -> Front(machine.stack)
                               [] OTHER -> machine.stack, interrupted)
    /\ UNCHANGED <<items, client, spoilt>>

DebuggerNext ==
    \/ AddItem \/ RemoveItem \/ EditItem
    \/ StepIn \/ StepOver \/ StepOut \/ Continue \/ Pause \/ ShowsLate \/ CalcChanged
    \/ SlotAdd \/ SlotRemove \/ SlotSetType \/ SlotSetAddress
    \/ ExecuteNext

DebuggerSpec == DebuggerInit /\ [][DebuggerNext]_debuggerVars
-----------------------------------------------------------------------------
(* The lists of breakpoints stay well formed under additions, removals and *)
(* the entry that replaces itself during a walk; a temporary entry exists. *)
BreakpointsLinked == ListsLinked(breaks) /\ (breaks.step # 0 => Valid(breaks, breaks.step))

(* An instruction stops the program if, and only if, one of its accesses   *)
(* is one that the user asked to stop at, besides the step that he takes.  *)
(* "The breakpoint will be triggered if the address, ANDed with the given  *)
(* mask, falls between the given start and end" (tilem.h:339).             *)
StopsAsAsked == outcome = "asked"

(* Breakpoints stop the program where, and only where, the user asked; and *)
(* the lists they are kept in stay well formed.  Not so                    *)
(* - once the type of an entry is changed in place that is not the first   *)
(*   of its list (z80.c:571), whose prev stays (244): nothing is asked of  *)
(*   the lists from then on;                                               *)
(* - for opcodes, in the instruction in which step over replaces its entry *)
(*   (debugger.c:223) while the user has others there or among those of    *)
(*   the addresses executed: only the lists, and the other accesses.       *)
BreakpointsSound == ~spoilt => BreakpointsLinked /\ outcome \in {"asked", "strayed"}
=============================================================================
