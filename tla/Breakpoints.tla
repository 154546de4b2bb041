---------------------------- MODULE Breakpoints ----------------------------
(***************************************************************************)
(* The breakpoints of the Z80 (z80.c): an array that grows, whose entries  *)
(* are chained in one doubly linked list per kind of access, one of the    *)
(* disabled and one of the free, with 0 for "none".  A list is walked on   *)
(* every access of its kind, and the test function of an entry may change  *)
(* the lists under the walk: the debugger's step over (debugger.c:185)     *)
(* removes its own entry and adds another.                                 *)
(*                                                                         *)
(* Start, end and mask of an entry are the set of addresses, or opcodes,   *)
(* that they let through, its span; a free entry has an empty one.         *)
(***************************************************************************)
EXTENDS Naturals, FiniteSets

CONSTANT Ltop     \* mem_ltop: the physical address of each logical one

BpLists == {"mr", "mx", "mw", "mpr", "mpx", "mpw", "pr", "pw", "op", "disabled"}

Blank == [kind |-> "none", physical |-> FALSE, disabled |-> FALSE, span |-> {},
          test |-> "none", next |-> 0, prev |-> 0]
NoBreakpoints ==
    [bp |-> [k \in {} |-> Blank], head |-> [l \in BpLists |-> 0], free |-> 0,
     step |-> 0, dest |-> 0, exit |-> 0]

bp_free(z, b) ==
    [z EXCEPT !.bp[b] = [Blank EXCEPT !.next = z.free], !.free = b]

Grown(z) ==
    LET n == Cardinality(DOMAIN z.bp)
        m == n * 2 + 2
    IN  [z EXCEPT !.bp = [k \in 0..(m - 1) |->
                             IF k < n THEN z.bp[k]
                             ELSE [Blank EXCEPT !.next = IF k = n THEN 0 ELSE k - 1]],
                  !.free = m - 1]

bp_alloc(z) ==
    LET First(y) == [id |-> y.free, z |-> [y EXCEPT !.free = y.bp[y.free].next]]
    IN  First(IF z.free = 0 THEN Grown(z) ELSE z)

bp_head(t) ==
    CASE t.disabled -> "disabled"
      [] ~t.disabled /\ t.physical /\ t.kind = "mr" -> "mpr"
      [] ~t.disabled /\ t.physical /\ t.kind = "mx" -> "mpx"
      [] ~t.disabled /\ t.physical /\ t.kind = "mw" -> "mpw"
      [] OTHER -> t.kind

\* Mutant: the old head does not learn of the new one.
MutAdd(z, b) ==
    LET l == bp_head(z.bp[b]) IN [z EXCEPT !.bp[b].next = z.head[l], !.head[l] = b]

(* A new entry has no prev; one that only changes its type keeps it.       *)
bp_add(z, b) ==
    LET l == bp_head(z.bp[b])
        h == z.head[l]
    IN  [z EXCEPT !.bp[b].next = h, !.bp[h].prev = IF h = 0 THEN 0 ELSE b, !.head[l] = b]

bp_rem(z, b) ==
    LET prev == z.bp[b].prev
        next == z.bp[b].next
    IN  [z EXCEPT !.head[bp_head(z.bp[b])] = IF @ = b THEN next ELSE @,
                  !.bp[prev].next = IF prev = 0 THEN 0 ELSE next,
                  !.bp[next].prev = IF next = 0 THEN 0 ELSE prev]

-----------------------------------------------------------------------------
Valid(z, b) == b \in DOMAIN z.bp \ {0} /\ z.bp[b].kind # "none"

Typed(bp, t) == [bp EXCEPT !.kind = t.kind, !.physical = t.physical, !.disabled = t.disabled]

add_breakpoint(z, t, span, test) ==
    LET Filled(a) == [a.z EXCEPT !.bp[a.id] = [Typed(Blank, t) EXCEPT !.span = span, !.test = test]]
        Added(a) == [id |-> a.id, z |-> bp_add(Filled(a), a.id)]
    IN  Added(bp_alloc(z))

remove_breakpoint(z, b) == IF Valid(z, b) THEN bp_free(bp_rem(z, b), b) ELSE z

set_breakpoint_type(z, b, t) ==
    IF ~Valid(z, b) \/ Typed(z.bp[b], t) = z.bp[b] THEN z
    ELSE LET y == bp_rem(z, b) IN bp_add([y EXCEPT !.bp[b] = Typed(@, t)], b)

set_breakpoint_address(z, b, span) ==
    IF Valid(z, b) THEN [z EXCEPT !.bp[b].span = span] ELSE z

-----------------------------------------------------------------------------
(* Test functions, with what they look at: the instruction, pc after it,   *)
(* the depth of the stack after it and whether an interrupt is about to   *)
(* be taken.  Step over answers FALSE and stops later, at its target.      *)
Exec == [kind |-> "mx", physical |-> FALSE, disabled |-> FALSE]
Leaves == {"jp", "ret"}

step_over(z, c) ==
    LET Stepping(a) == [a.z EXCEPT !.step = a.id]
    IN  Stepping(add_breakpoint(remove_breakpoint(z, z.step), Exec,
                                {IF c.kind \in Leaves THEN c.pc ELSE z.dest}, "none"))

Tested(z, b, c) ==
    CASE z.bp[b].test = "none" -> [ok |-> TRUE, z |-> z]
      [] z.bp[b].test = "step" -> [ok |-> c.kind # "halt" \/ c.interrupted, z |-> z]
      [] z.bp[b].test = "over" -> [ok |-> FALSE, z |-> step_over(z, c)]
      [] z.bp[b].test = "finish" -> [ok |-> c.depth < z.exit /\ c.kind = "ret", z |-> z]

(* A walk is longer than the array only if it never ends.                  *)
Visit(w, list, a, c) ==
    LET Next(t) == [z |-> t.z, at |-> t.z.bp[w.at].next,
                    hits |-> IF t.ok THEN w.hits \union {<<list, w.at>>} ELSE w.hits]
    IN  Next(IF a \in w.z.bp[w.at].span THEN Tested(w.z, w.at, c) ELSE [ok |-> FALSE, z |-> w.z])

check_breakpoints(w, list, a, c) ==
    LET n == Cardinality(DOMAIN w.z.bp)
        walk[k \in 0..n] ==
            IF k = 0 THEN [w EXCEPT !.at = w.z.head[list]]
            ELSE LET v == walk[k - 1] IN IF v.at = 0 THEN v ELSE Visit(v, list, a, c)
    IN  walk[n]

(* An access to memory: the logical list, then the physical one.           *)
check_mem_breakpoints(list, plist, a) == <<<<list, a>>, <<plist, Ltop[a]>>>>

-----------------------------------------------------------------------------
(* The entries of a list in order, up to the first that comes again.       *)
Chain(z, first) ==
    LET n == Cardinality(DOMAIN z.bp)
        c[k \in 0..n] ==
            IF k = 0 THEN [at |-> first, seen |-> {}]
            ELSE LET d == c[k - 1]
                 IN  IF d.at \in d.seen \union {0} THEN d
                     ELSE [at |-> z.bp[d.at].next, seen |-> d.seen \union {d.at}]
    IN  c[n]

(* Every entry is in the list of its type, no list has a loop, and prev    *)
(* leads back wherever next leads.                                         *)
ListsLinked(z) ==
    LET ids == DOMAIN z.bp \ {0}
    IN  /\ \A l \in BpLists :
              /\ Chain(z, z.head[l]).at = 0
              /\ Chain(z, z.head[l]).seen = {b \in ids : Valid(z, b) /\ bp_head(z.bp[b]) = l}
              /\ z.head[l] # 0 => z.bp[z.head[l]].prev = 0
        /\ \A b \in ids :
              Valid(z, b) /\ z.bp[b].next # 0 => z.bp[z.bp[b].next].prev = b
        /\ Chain(z, z.free).at = 0
        /\ Chain(z, z.free).seen = {b \in ids : ~Valid(z, b)}
=============================================================================
