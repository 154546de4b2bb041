--------------------------- MODULE Disassembler ---------------------------
(***************************************************************************)
(* The disassembler (db/disasm.c): its tables of symbols, kept sorted by   *)
(* value and searched by halving, how many bytes an instruction takes, and *)
(* the address that its text names.  A text is abstract: a pattern is the  *)
(* kind of its address argument, a printed word the symbol and the offset  *)
(* that it is written with.                                                *)
(***************************************************************************)
EXTENDS Integers, Sequences

CONSTANT NoSymbol
-----------------------------------------------------------------------------
(* Symbol tables: sequences of records with a value and a name.            *)
\* Where the halving of find_symbol() ends: the first entry above `value'.
RECURSIVE Halve(_, _, _, _)
Halve(stab, value, start, end) ==
    IF start >= end THEN start
    ELSE LET i == (start + end) \div 2
         IN IF stab[i + 1].value <= value THEN Halve(stab, value, i + 1, end)
            ELSE Halve(stab, value, start, i)
After(stab, value) == Halve(stab, value, 0, Len(stab))

find_prev_symbol(stab, value) ==
    IF After(stab, value) > 0 THEN stab[After(stab, value)] ELSE NoSymbol
find_symbol(stab, value) ==
    LET prev == find_prev_symbol(stab, value)
    IN IF prev # NoSymbol /\ prev.value = value THEN prev ELSE NoSymbol
Named(stab, name) == {i \in 1..Len(stab) : stab[i].name = name}

Inserted(stab, sym) ==
    LET at == After(stab, sym.value - 1)
    IN SubSeq(stab, 1, at) \o <<sym>> \o SubSeq(stab, at + 1, Len(stab))
\* add_symbol(): an entry that has the value already gets the new name.
add_symbol(stab, name, value) ==
    IF find_symbol(stab, value) # NoSymbol
    THEN [stab EXCEPT ![After(stab, value)].name = name]
    ELSE Inserted(stab, [value |-> value, name |-> name])
del_symbol(stab, i) == SubSeq(stab, 1, i - 1) \o SubSeq(stab, i + 1, Len(stab))
set_symbol(stab, name, value) ==
    IF Named(stab, name) = {} THEN add_symbol(stab, name, value)
    ELSE LET i == CHOOSE j \in Named(stab, name) : \A k \in Named(stab, name) : j <= k
         IN IF stab[i].value = value THEN stab
            ELSE add_symbol(del_symbol(stab, i), name, value)
-----------------------------------------------------------------------------
(* The tables of instructions: the length, and what kind of address the    *)
(* text names: r relative, j absolute, z a restart; d a displacement.      *)
Inst(length, arg) == [length |-> length, arg |-> arg]
Unknown(length) == Inst(length, "DB")

insts_main(op) ==
    CASE op \in {16, 24, 32, 40, 48, 56} -> Inst(2, "r")
      [] op \in {195, 205} \/ (op > 191 /\ op % 8 \in {2, 4}) -> Inst(3, "j")
      [] op > 191 /\ op % 8 = 7 -> Inst(1, "z")
      [] op \in {34, 42, 50, 58} -> Inst(3, "a")
      [] op \in {1, 17, 33, 49} -> Inst(3, "w")
      [] op \in {211, 219} \/ ((op < 64 \/ op > 191) /\ op % 8 = 6) -> Inst(2, "b")
      [] op \in {203, 221, 237, 253} -> Unknown(1)
      [] OTHER -> Inst(1, "none")
insts_cb(op) == Inst(2, "none")
insts_ed(op) ==
    CASE op \in 64..126 /\ op % 8 = 3 -> Inst(4, "a")
      [] \/ op \in 64..126 /\ op % 8 # 3 /\ op # 119
         \/ op \in 160..191 /\ op % 8 < 4 -> Inst(2, "none")
      [] OTHER -> Unknown(2)
\* Mutant: the operand of LD (IX + d), n is not counted.
mut_insts_ddfd(op) ==
    CASE op = 33 -> Inst(4, "w")
      [] op \in {34, 42} -> Inst(4, "a")
      [] op = 54 -> Inst(3, "d")
      [] op \in {38, 46} -> Inst(3, "b")
      [] \/ op \in {52, 53}
         \/ op \in (112..119) \ {118}
         \/ op \in 64..191 /\ op % 8 = 6 /\ op # 118 -> Inst(3, "d")
      [] \/ op \in {9, 25, 35, 36, 37, 41, 43, 44, 45, 57, 225, 227, 229, 233, 249}
         \/ op \in 64..191 \ (112..119) /\ op % 8 \in {4, 5}
         \/ op \in 96..111 /\ op % 8 # 6 -> Inst(2, "none")
      [] OTHER -> Unknown(1)
insts_ddfd(op) ==
    CASE op = 33 -> Inst(4, "w")
      [] op \in {34, 42} -> Inst(4, "a")
      [] op = 54 -> Inst(4, "d")
      [] op \in {38, 46} -> Inst(3, "b")
      [] \/ op \in {52, 53}
         \/ op \in (112..119) \ {118}
         \/ op \in 64..191 /\ op % 8 = 6 /\ op # 118 -> Inst(3, "d")
      [] \/ op \in {9, 25, 35, 36, 37, 41, 43, 44, 45, 57, 225, 227, 229, 233, 249}
         \/ op \in 64..191 \ (112..119) /\ op % 8 \in {4, 5}
         \/ op \in 96..111 /\ op % 8 # 6 -> Inst(2, "none")
      [] OTHER -> Unknown(1)
insts_ddfdcb(op) == Inst(4, "d")
-----------------------------------------------------------------------------
\* Bytes that the arguments of a macro take.
pattern_arg_size(arg) == CASE arg \in {"b", "C", "r", "s"} -> 1
                           [] arg \in {"a", "c", "f", "j", "w"} -> 2
                           [] OTHER -> 0

(* A macro is an instruction by its first bytes, read as one number.       *)
MacroValue(b, i) == LET v[j \in 1..i] == IF j = 1 THEN b[1] ELSE (256 * v[j - 1]) + b[j]
                    IN v[i]
MacroLengths(macros, b) ==
    {i \in 1..4 : b[1] # 0 /\ find_symbol(macros, MacroValue(b, i)) # NoSymbol}

get_instruction_info(macros, b) ==
    IF MacroLengths(macros, b) # {}
    THEN LET i == CHOOSE k \in MacroLengths(macros, b) : \A j \in MacroLengths(macros, b) : k <= j
             arg == find_symbol(macros, MacroValue(b, i)).name
         IN [length |-> i + pattern_arg_size(arg), argbase |-> i, arg |-> arg]
    ELSE LET ii == CASE b[1] = 237 -> insts_ed(b[2])
                     [] b[1] \in {221, 253} /\ b[2] = 203 -> insts_ddfdcb(b[4])
                     [] b[1] \in {221, 253} /\ b[2] # 203 -> insts_ddfd(b[2])
                     [] b[1] = 203 -> insts_cb(b[2])
                     [] OTHER -> insts_main(b[1])
         IN [length |-> ii.length, arg |-> ii.arg,
             argbase |-> IF ii.arg = "DB" THEN 0
                         ELSE IF b[1] \in {203, 221, 237, 253} THEN 2 ELSE 1]

(* disassemble_pattern(): the address that the text names; `pc' is where   *)
(* the instruction lies.  That of a relative jump may be beyond 16 bits.   *)
Address(info, b, pc) ==
    LET w == b[info.argbase + 1]
    IN CASE info.arg = "r" -> IF w > 127 THEN pc + info.argbase - 255 + w
                              ELSE pc + info.argbase + 1 + w
         [] info.arg \in {"a", "j", "w"} -> w + (256 * b[info.argbase + 2])
         [] info.arg = "z" -> ((b[1] \div 8) % 8) * 8

\* print_word(): how a label names an address.
print_word(labels, flags, w, autonum, autodiff) ==
    LET sym == find_prev_symbol(labels, w)
        Number == [sym |-> NoSymbol, flag |-> NoSymbol, offset |-> w]
    IN CASE autonum /\ w < 256 -> Number
         [] ~(autonum /\ w < 256) /\ sym # NoSymbol /\ sym.name = "flags" ->
              LET flag == find_symbol(flags, w - sym.value)
              IN [sym |-> sym, flag |-> flag,
                  offset |-> IF flag = NoSymbol THEN w - sym.value ELSE 0]
         [] /\ ~(autonum /\ w < 256) /\ sym # NoSymbol /\ sym.name # "flags"
            /\ \/ w = sym.value
               \/ autodiff /\ w > 32768 /\ w - sym.value < 64 ->
              [sym |-> sym, flag |-> NoSymbol, offset |-> w - sym.value]
         [] OTHER -> Number

(* tilem_disasm_disassemble(): mem is memory of `max' bytes, through       *)
(* the paging (2^16 bytes) or the chips themselves.  Four bytes tell the   *)
(* instruction; then all that it has are read, a macro has up to six.      *)
disassemble(macros, mem, max, addr, pc) ==
    LET Fetch(k) == [i \in 1..k |-> mem[(addr + i - 1) % max]]
        info == get_instruction_info(macros, Fetch(4))
    IN [next |-> (addr + info.length) % max,
        arg |-> info.arg,
        address |-> IF info.arg \in {"r", "a", "j", "w", "z"}
                    THEN Address(info, Fetch(info.length), pc) ELSE -1]
=============================================================================
