--------------------------- MODULE DebuggerProofs ---------------------------
(***************************************************************************)
(* Proofs about breakpoints, for every set of users, of breakpoints they   *)
(* ask for, and of programs: the lists stay well formed, and an            *)
(* instruction stops the program if and only if it is asked to, with the   *)
(* two exceptions that BreakpointsSound names.                             *)
(*   A list is described by ranks that fall from its head to its end       *)
(* (Stacked), which rules loops out.  The inductive invariant DInv says    *)
(* which entries there are and whose: those of the user's items, each of   *)
(* one item, and that of the step.  It holds until a change of type in     *)
(* place spoils a list, so what is inductive is spoilt \/ DInv.            *)
(*   A walk meets the entries of its list.  The one that step over causes  *)
(* to leave its list, by replacing its entry, is followed on its own (the  *)
(* lemmas from StepsOver to DetourWalked).                                 *)
(***************************************************************************)
EXTENDS Debugger, FiniteSetTheorems, SequenceTheorems, WellFoundedInduction, TLAPS

-----------------------------------------------------------------------------
(* Induction over the numbers, from the well-founded order of finite sets. *)

\* A set of numbers that is not empty has a least one.
LEMMA Least ==
    ASSUME NEW T \in SUBSET Nat, T # {}
    PROVE  \E x \in T : \A y \in T : x <= y
<1> DEFINE R == StrictSubsetOrdering(Nat)
           U == {1..n : n \in T}
<1>1. IsWellFoundedOn(R, FiniteSubsetsOf(Nat))
  BY FS_StrictSubsetOrderingWellFounded
<1>2. U \subseteq FiniteSubsetsOf(Nat) /\ U # {}
  <2>1. \A n \in T : 1..n \in SUBSET Nat /\ IsFiniteSet(1..n)
    BY FS_Interval
  <2> QED
    BY <2>1 DEF FiniteSubsetsOf
<1>3. PICK X \in U : \A Y \in U : ~(<<Y, X>> \in R)
  <2> HIDE DEF R, U
  <2> QED
    BY <1>1, <1>2, WFMin
<1>4. PICK x \in T : X = 1..x
  OBVIOUS
<1>5. ASSUME NEW y \in T PROVE x <= y
  <2> SUFFICES ASSUME y < x PROVE FALSE
    OBVIOUS
  <2>1. 1..y \subseteq 1..x /\ x \in 1..x /\ x \notin 1..y
    OBVIOUS
  <2>2. 1..y \in SUBSET Nat /\ 1..x \in SUBSET Nat
    OBVIOUS
  <2>3. <<1..y, X>> \in R
    BY <2>1, <2>2, <1>4 DEF StrictSubsetOrdering
  <2> QED
    BY <1>3, <2>3
<1> QED
  BY <1>5

\* A set that holds zero, and the successor of each number it holds, holds all.
LEMMA Induct ==
    ASSUME NEW S, 0 \in S, \A n \in Nat : n \in S => n + 1 \in S
    PROVE  Nat \subseteq S
<1> SUFFICES ASSUME Nat \ S # {} PROVE FALSE
  OBVIOUS
<1>1. PICK x \in Nat \ S : \A y \in Nat \ S : x <= y
  <2>1. Nat \ S \in SUBSET Nat
    OBVIOUS
  <2> QED
    BY <2>1, Least
<1>2. x # 0 /\ x - 1 \in Nat /\ ~(x <= x - 1) /\ (x - 1) + 1 = x
  BY <1>1
<1> QED
  BY <1>1, <1>2

\* Of finitely many things one has the greatest rank.
LEMMA Topmost ==
    ASSUME NEW S, IsFiniteSet(S), S # {}, NEW r \in [S -> Nat]
    PROVE  \E u \in S : \A v \in S : r[v] <= r[u]
<1> DEFINE R == StrictSubsetOrdering(S)
           Above(u) == {v \in S : r[v] > r[u]}
           U == {Above(u) : u \in S}
<1>1. IsWellFoundedOn(R, FiniteSubsetsOf(S))
  BY FS_StrictSubsetOrderingWellFounded
<1>2. U \subseteq FiniteSubsetsOf(S) /\ U # {}
  <2>1. \A u \in S : Above(u) \in SUBSET S /\ IsFiniteSet(Above(u))
    BY FS_Subset
  <2> HIDE DEF Above
  <2> QED
    BY <2>1 DEF FiniteSubsetsOf
<1>3. PICK X \in U : \A Y \in U : ~(<<Y, X>> \in R)
  <2> HIDE DEF R, U
  <2> QED
    BY <1>1, <1>2, WFMin
<1>4. PICK u \in S : X = Above(u)
  OBVIOUS
<1>5. ASSUME NEW v \in S PROVE r[v] <= r[u]
  <2> SUFFICES ASSUME r[v] > r[u] PROVE FALSE
    OBVIOUS
  <2>1. Above(v) \subseteq Above(u) /\ v \in Above(u) /\ v \notin Above(v)
    OBVIOUS
  <2>2. Above(v) \in SUBSET S /\ Above(u) \in SUBSET S
    OBVIOUS
  <2>3. <<Above(v), X>> \in R
    BY <2>1, <2>2, <1>4 DEF StrictSubsetOrdering
  <2> QED
    BY <1>3, <2>3
<1> QED
  BY <1>5

\* A function applied again and again.
Iterated(f, T, a, G, n) ==
    f \in [0..n -> T] /\ f[0] = a /\ \A k \in 1..n : f[k] = G[f[k - 1]]

LEMMA Iterates ==
    ASSUME NEW T, NEW a \in T, NEW G \in [T -> T], NEW n \in Nat
    PROVE  \E f : Iterated(f, T, a, G, n)
<1> DEFINE P(m) == \E f \in [0..m -> T] : f[0] = a /\ \A k \in 1..m : f[k] = G[f[k - 1]]
           S == {m \in Nat : P(m)}
<1>1. 0 \in S
  <2> DEFINE f == [k \in 0..0 |-> a]
  <2>1. f \in [0..0 -> T] /\ f[0] = a /\ \A k \in 1..0 : f[k] = G[f[k - 1]]
    OBVIOUS
  <2> HIDE DEF f
  <2> QED
    BY <2>1
<1>2. ASSUME NEW m \in Nat, m \in S PROVE m + 1 \in S
  <2>1. PICK f \in [0..m -> T] : f[0] = a /\ \A k \in 1..m : f[k] = G[f[k - 1]]
    BY <1>2
  <2> DEFINE g == [k \in 0..(m + 1) |-> IF k = m + 1 THEN G[f[m]] ELSE f[k]]
  <2>2. m \in 0..m /\ f[m] \in T /\ G[f[m]] \in T
    BY <2>1
  <2>3. g \in [0..(m + 1) -> T]
    BY <2>1, <2>2
  <2>4. g[0] = a
    BY <2>1
  <2>5. ASSUME NEW k \in 1..(m + 1) PROVE g[k] = G[g[k - 1]]
    <3>1. k - 1 \in 0..m /\ k - 1 # m + 1 /\ k \in 0..(m + 1) /\ k - 1 \in 0..(m + 1)
      OBVIOUS
    <3>2. g[k - 1] = f[k - 1]
      BY <3>1
    <3>3. CASE k = m + 1
      BY <3>1, <3>2, <3>3
    <3>4. CASE k # m + 1
      <4>1. k \in 1..m
        BY <3>4
      <4> QED
        BY <2>1, <3>1, <3>2, <3>4, <4>1
    <3> QED
      BY <3>3, <3>4
  <2> HIDE DEF g
  <2> QED
    BY <2>3, <2>4, <2>5
<1> HIDE DEF S
<1>3. Nat \subseteq S
  BY <1>1, <1>2, Induct
<1> QED
  BY <1>3 DEF S, Iterated

-----------------------------------------------------------------------------
(* Lists.                                                                  *)

Kinds == {"mr", "mx", "mw", "pr", "pw", "op"}
Types == [kind : Kinds, physical : BOOLEAN, disabled : BOOLEAN]
Tests == {"none", "step", "over", "finish"}

Entry == [kind : Kinds \cup {"none"}, physical : BOOLEAN, disabled : BOOLEAN,
          span : SUBSET Nat, test : Tests, next : Nat, prev : Nat]
Arrays(D) == [bp : [D -> Entry], head : [BpLists -> Nat], free : Nat,
              step : Nat, dest : Nat, exit : Nat]
Sized(y, n) == n \in Nat /\ y \in Arrays(0..(n - 1))
Ids(y) == DOMAIN y.bp \ {0}

\* From head on, along next, the entries of S, whose ranks fall.
Falls(bp, S, r) ==
    /\ r \in [S -> Nat]
    /\ \A u \in S : bp[u].next # 0 => bp[u].next \in S /\ r[bp[u].next] < r[u]
Stacked(bp, head, S) ==
    /\ 0 \notin S /\ head \in S \cup {0}
    /\ \A u \in S : u = head \/ \E v \in S : bp[v].next = u
    /\ \E r : Falls(bp, S, r)

\* From head on, along next, entries of S only, and to an end.
Descends(bp, head, S) ==
    /\ 0 \notin S /\ head \in S \cup {0}
    /\ \E r : Falls(bp, S, r)

\* A list that leads back as well.
Linked(bp, head, S) ==
    /\ Stacked(bp, head, S)
    /\ head # 0 => bp[head].prev = 0
    /\ \A u \in S : bp[u].next # 0 => bp[bp[u].next].prev = u

LEMMA SizeIs ==
    ASSUME NEW y, NEW n, Sized(y, n)
    PROVE  /\ n \in Nat /\ DOMAIN y.bp = 0..(n - 1) /\ Ids(y) = 1..(n - 1)
           /\ Cardinality(DOMAIN y.bp) = n
           /\ \A S \in SUBSET Ids(y) : IsFiniteSet(S) /\ (n # 0 => Cardinality(S) <= n - 1)
<1>1. n \in Nat /\ DOMAIN y.bp = 0..(n - 1)
  BY DEF Sized, Arrays
<1>2. Ids(y) = 1..(n - 1)
  BY <1>1 DEF Ids
<1>3. Cardinality(0..(n - 1)) = n
  <2>1. 0 \in Int /\ n - 1 \in Int
    BY <1>1
  <2> QED
    BY <1>1, <2>1, FS_Interval
<1>4. IsFiniteSet(1..(n - 1)) /\ (n # 0 => Cardinality(1..(n - 1)) = n - 1)
  <2>1. 1 \in Int /\ n - 1 \in Int
    BY <1>1
  <2> QED
    BY <1>1, <2>1, FS_Interval
<1>5. ASSUME NEW S \in SUBSET Ids(y) PROVE IsFiniteSet(S) /\ (n # 0 => Cardinality(S) <= n - 1)
  <2> DEFINE I == 1..(n - 1)
  <2>1. S \in SUBSET I /\ IsFiniteSet(I) /\ (n # 0 => Cardinality(I) = n - 1)
    BY <1>2, <1>4
  <2> HIDE DEF I
  <2>2. IsFiniteSet(S) /\ Cardinality(S) <= Cardinality(I)
    BY <2>1, FS_Subset
  <2> QED
    BY <2>1, <2>2
<1> QED
  BY <1>1, <1>2, <1>3, <1>5

-----------------------------------------------------------------------------
(* A walk along a list.                                                    *)

\* One step of Chain(), and of a walk that changes no list.
Beyond(bp, d) ==
    IF d.at \in d.seen \cup {0} THEN d ELSE [at |-> bp[d.at].next, seen |-> d.seen \cup {d.at}]

Walks(c, bp, head, S, n) ==
    /\ c \in [0..n -> [at : S \cup {0}, seen : SUBSET S]]
    /\ c[0] = [at |-> head, seen |-> {}]
    /\ \A k \in 1..n : c[k] = Beyond(bp, c[k - 1])

LEMMA StackDescends ==
    ASSUME NEW bp, NEW head, NEW S, Stacked(bp, head, S)
    PROVE  Descends(bp, head, S)
BY DEF Stacked, Descends

LEMMA WalkThere ==
    ASSUME NEW bp, NEW head, NEW S, Descends(bp, head, S), NEW n \in Nat
    PROVE  \E c : Walks(c, bp, head, S, n)
<1> DEFINE T == [at : S \cup {0}, seen : SUBSET S]
           G == [d \in T |-> Beyond(bp, d)]
           a == [at |-> head, seen |-> {}]
<1>1. \A u \in S : bp[u].next \in S \cup {0}
  BY DEF Descends, Falls
<1>2. ASSUME NEW d \in T PROVE Beyond(bp, d) \in T
  BY <1>1 DEF Beyond
<1>3. G \in [T -> T] /\ a \in T
  BY <1>2 DEF Descends
<1>t. \A k \in 1..n : k - 1 \in 0..n
  OBVIOUS
<1>g. \A d \in T : G[d] = Beyond(bp, d)
  OBVIOUS
<1> HIDE DEF T, a, G
<1>e. \E f : Iterated(f, T, a, G, n)
  BY <1>3, Iterates
<1>4. PICK f \in [0..n -> T] : f[0] = a /\ \A k \in 1..n : f[k] = G[f[k - 1]]
  BY <1>e DEF Iterated
<1>5. \A k \in 1..n : f[k] = Beyond(bp, f[k - 1])
  BY <1>4, <1>t, <1>g
<1>6. Walks(f, bp, head, S, n)
  BY <1>4, <1>5 DEF Walks, T, a
<1> QED
  BY <1>6

\* It sees an entry at each step, and none twice.
LEMMA WalkSees ==
    ASSUME NEW bp, NEW head, NEW S, IsFiniteSet(S), Descends(bp, head, S), NEW n \in Nat,
           NEW c, Walks(c, bp, head, S, n)
    PROVE  \A k \in 0..n :
              /\ c[k].at \notin c[k].seen
              /\ head \in c[k].seen \cup {c[k].at}
              /\ \A u \in c[k].seen : bp[u].next \in c[k].seen \cup {c[k].at}
              /\ c[k].at # 0 => Cardinality(c[k].seen) = k
<1>1. PICK r : Falls(bp, S, r)
  BY DEF Descends
<1>s. 0 \notin S /\ (\A u \in S : r[u] \in Nat /\ bp[u].next \in S \cup {0})
  BY <1>1 DEF Falls, Descends
<1> DEFINE T == [at : S \cup {0}, seen : SUBSET S]
           Good(d, k) ==
              /\ d.at \notin d.seen
              /\ d.at # 0 => \A u \in d.seen : r[d.at] < r[u]
              /\ head \in d.seen \cup {d.at}
              /\ \A u \in d.seen : bp[u].next \in d.seen \cup {d.at}
              /\ d.at # 0 => Cardinality(d.seen) = k
           M == {k \in Nat : k \in 0..n => Good(c[k], k)}
<1>2. 0 \in M
  <2>1. 0 \in 0..n /\ Cardinality({}) = 0
    BY FS_EmptySet
  <2>2. c[0].at = head /\ c[0].seen = {}
    BY DEF Walks
  <2> QED
    BY <2>1, <2>2
<1>3. ASSUME NEW k \in Nat, k \in M PROVE k + 1 \in M
  <2> SUFFICES ASSUME k + 1 \in 0..n PROVE Good(c[k + 1], k + 1)
    OBVIOUS
  <2>1. k \in 0..n /\ k + 1 \in 1..n /\ (k + 1) - 1 = k
    OBVIOUS
  <2> DEFINE d == c[k]
             e == c[k + 1]
  <2>2. d \in T /\ e = Beyond(bp, d)
    BY <2>1 DEF Walks
  <2>3. Good(d, k)
    BY <1>3, <2>1
  <2> HIDE DEF d, e
  <2>4. CASE d.at = 0
    <3>1. e = d
      BY <2>2, <2>4 DEF Beyond
    <3> QED
      BY <2>3, <2>4, <3>1 DEF e
  <2>5. CASE d.at # 0
    <3> DEFINE u == d.at
    <3>1. u \in S /\ u \notin d.seen /\ d.seen \subseteq S
      BY <2>2, <2>3, <2>5
    <3>2. e.at = bp[u].next /\ e.seen = d.seen \cup {u}
      BY <2>2, <2>5, <3>1 DEF Beyond
    <3>3. bp[u].next # 0 => bp[u].next \in S /\ r[bp[u].next] < r[u] /\ r[bp[u].next] \in Nat
      BY <1>1, <1>s, <3>1 DEF Falls
    <3>4. \A v \in d.seen : r[u] < r[v] /\ r[u] \in Nat /\ r[v] \in Nat
      BY <2>3, <2>5, <1>s, <3>1
    <3>5. e.at # 0 => \A v \in e.seen : r[e.at] < r[v]
      BY <3>2, <3>3, <3>4
    <3>6. e.at \notin e.seen
      <4>1. CASE e.at = 0
        BY <1>s, <3>1, <3>2, <4>1
      <4>2. CASE e.at # 0
        BY <3>2, <3>3, <3>5, <4>2
      <4> QED
        BY <4>1, <4>2
    <3>7. /\ head \in e.seen \cup {e.at}
          /\ \A v \in e.seen : bp[v].next \in e.seen \cup {e.at}
      BY <2>3, <3>2
    <3>8. Cardinality(e.seen) = k + 1
      <4>1. IsFiniteSet(d.seen) /\ Cardinality(d.seen) = k
        BY <2>3, <2>5, <3>1, FS_Subset
      <4> QED
        BY <3>1, <3>2, <4>1, FS_AddElement
    <3> QED
      BY <3>5, <3>6, <3>7, <3>8 DEF e
  <2> QED
    BY <2>4, <2>5
<1> HIDE DEF M
<1>4. Nat \subseteq M
  BY <1>2, <1>3, Induct
<1>5. \A k \in 0..n : k \in M
  BY <1>4
<1> QED
  BY <1>5 DEF M

\* It ends.
LEMMA WalkHalts ==
    ASSUME NEW bp, NEW head, NEW S, IsFiniteSet(S), Descends(bp, head, S), NEW n \in Nat,
           S # {} => Cardinality(S) < n, NEW c, Walks(c, bp, head, S, n)
    PROVE  c[n] \in [at : S \cup {0}, seen : SUBSET S] /\ c[n].at = 0
<1> DEFINE d == c[n]
<1>1. d \in [at : S \cup {0}, seen : SUBSET S] /\ (d.at # 0 => Cardinality(d.seen) = n)
  <2>1. n \in 0..n
    OBVIOUS
  <2>2. d \in [at : S \cup {0}, seen : SUBSET S]
    BY <2>1 DEF Walks
  <2> QED
    BY <2>1, <2>2, WalkSees
<1> HIDE DEF d
<1>2. d.at = 0
  <2> SUFFICES ASSUME d.at # 0 PROVE FALSE
    OBVIOUS
  <2>1. d.seen \subseteq S /\ S # {} /\ Cardinality(d.seen) = n
    BY <1>1
  <2>2. Cardinality(d.seen) <= Cardinality(S) /\ Cardinality(S) \in Nat
    BY <2>1, FS_Subset, FS_CardinalityType
  <2> QED
    BY <2>1, <2>2
<1> QED
  BY <1>1, <1>2 DEF d

\* It ends when it has seen all of a list.
LEMMA WalkEnds ==
    ASSUME NEW bp, NEW head, NEW S, IsFiniteSet(S), Stacked(bp, head, S), NEW n \in Nat,
           S # {} => Cardinality(S) < n, NEW c, Walks(c, bp, head, S, n)
    PROVE  c[n] = [at |-> 0, seen |-> S]
<1> DEFINE d == c[n]
<1>0. Descends(bp, head, S)
  BY StackDescends
<1>1. /\ d \in [at : S \cup {0}, seen : SUBSET S]
      /\ head \in d.seen \cup {d.at}
      /\ \A u \in d.seen : bp[u].next \in d.seen \cup {d.at}
  <2>1. n \in 0..n
    OBVIOUS
  <2>2. d \in [at : S \cup {0}, seen : SUBSET S]
    BY <2>1 DEF Walks
  <2> QED
    BY <1>0, <2>1, <2>2, WalkSees
<1>2. d.at = 0
  BY <1>0, WalkHalts
<1> HIDE DEF d
<1>3. S \subseteq d.seen
  <2> SUFFICES ASSUME S \ d.seen # {} PROVE FALSE
    OBVIOUS
  <2> DEFINE U == S \ d.seen
  <2>1. PICK r : Falls(bp, S, r)
    BY DEF Stacked
  <2> DEFINE q == [u \in U |-> r[u]]
  <2>2. q \in [U -> Nat] /\ IsFiniteSet(U)
    BY <2>1, FS_Subset DEF Falls
  <2>a. \A u \in U : q[u] = r[u] /\ r[u] \in Nat
    BY <2>1 DEF Falls
  <2>3. PICK u \in U : \A v \in U : q[v] <= q[u]
    <3> HIDE DEF q
    <3>1. U # {}
      OBVIOUS
    <3> HIDE DEF U
    <3> QED
      BY <2>2, <3>1, Topmost
  <2>4. u # head
    <3>1. 0 \notin S
      BY DEF Stacked
    <3> QED
      BY <1>1, <1>2, <3>1
  <2>5. PICK v \in S : bp[v].next = u
    BY <2>4 DEF Stacked
  <2>6. u # 0 /\ r[u] < r[v] /\ r[u] \in Nat /\ r[v] \in Nat
    BY <2>1, <2>5 DEF Falls, Stacked
  <2>7. v \notin U
    <3> HIDE DEF q
    <3> QED
      BY <2>3, <2>6, <2>a
  <2> QED
    BY <1>1, <1>2, <2>5, <2>6, <2>7
<1> QED
  BY <1>1, <1>2, <1>3 DEF d

\* Fewer than the array has entries.
LEMMA FewEnough ==
    ASSUME NEW y, NEW n, Sized(y, n), NEW S \in SUBSET Ids(y)
    PROVE  /\ n \in Nat /\ Cardinality(DOMAIN y.bp) = n
           /\ IsFiniteSet(S) /\ (S # {} => Cardinality(S) < n)
<1>1. n \in Nat /\ Cardinality(DOMAIN y.bp) = n
  BY SizeIs
<1>2. IsFiniteSet(S) /\ (n # 0 => Cardinality(S) <= n - 1)
  BY SizeIs
<1>3. Cardinality(S) \in Nat /\ (n = 0 => S = {})
  <2>1. Ids(y) = 1..(n - 1)
    BY SizeIs
  <2> QED
    BY <1>1, <1>2, <2>1, FS_CardinalityType
<1> QED
  BY <1>1, <1>2, <1>3

\* Chain() of a list.
LEMMA ChainIs ==
    ASSUME NEW y, NEW n, Sized(y, n), NEW S \in SUBSET Ids(y), NEW head, Stacked(y.bp, head, S)
    PROVE  Chain(y, head) = [at |-> 0, seen |-> S]
<1> DEFINE P(g) == g = [k \in 0..n |->
                          IF k = 0 THEN [at |-> head, seen |-> {}]
                          ELSE LET d == g[k - 1]
                               IN  IF d.at \in d.seen \union {0} THEN d
                                   ELSE [at |-> y.bp[d.at].next, seen |-> d.seen \union {d.at}]]
           F == CHOOSE g : P(g)
<1>0. /\ n \in Nat /\ Cardinality(DOMAIN y.bp) = n
      /\ IsFiniteSet(S) /\ (S # {} => Cardinality(S) < n)
  BY FewEnough
<1>1. PICK c : Walks(c, y.bp, head, S, n)
  BY <1>0, WalkThere, StackDescends
<1>2. P(c)
  <2>1. c = [k \in 0..n |-> c[k]] /\ c[0] = [at |-> head, seen |-> {}]
    BY <1>1 DEF Walks
  <2>2. ASSUME NEW k \in 0..n, k # 0 PROVE c[k] = Beyond(y.bp, c[k - 1])
    <3>1. k \in 1..n
      BY <1>0, <2>2
    <3> QED
      BY <1>1, <3>1 DEF Walks
  <2> QED
    BY <2>1, <2>2 DEF Beyond
<1>3. P(F)
  <2> HIDE DEF P
  <2> QED
    BY <1>2
<1>4. \A k \in 1..n : F[k] = Beyond(y.bp, F[k - 1])
  <2>1. \A k \in 1..n : k \in 0..n /\ k # 0
    BY <1>0
  <2> HIDE DEF F
  <2> QED
    BY <1>3, <2>1 DEF Beyond
<1>5. F[0] = [at |-> head, seen |-> {}]
  <2>1. 0 \in 0..n
    BY <1>0
  <2> HIDE DEF F
  <2> QED
    BY <1>3, <2>1
<1> DEFINE M == {k \in Nat : k \in 0..n => F[k] = c[k]}
<1> HIDE DEF F
<1>6. 0 \in M
  BY <1>1, <1>5 DEF Walks
<1>7. ASSUME NEW k \in Nat, k \in M PROVE k + 1 \in M
  <2> SUFFICES ASSUME k + 1 \in 0..n PROVE F[k + 1] = c[k + 1]
    OBVIOUS
  <2>1. k \in 0..n /\ k + 1 \in 1..n /\ (k + 1) - 1 = k
    BY <1>0
  <2> QED
    BY <1>1, <1>4, <1>7, <2>1 DEF Walks
<1> HIDE DEF M
<1>8. Nat \subseteq M
  BY <1>6, <1>7, Induct
<1>9. F[n] = c[n]
  <2>1. n \in M /\ n \in 0..n
    BY <1>0, <1>8
  <2> QED
    BY <2>1 DEF M
<1>10. c[n] = [at |-> 0, seen |-> S]
  BY <1>0, <1>1, WalkEnds
<1>11. Chain(y, head) = F[n]
  BY <1>0 DEF Chain, F
<1> QED
  BY <1>9, <1>10, <1>11

\* The entries of S that an access meets, and whose tests it passes.
Met(y, S, a, c) == {b \in S : a \in y.bp[b].span /\ Tested(y, b, c).ok}

\* A walk before it begins, or after it ends.
Walking(y, h) == [z |-> y, at |-> 0, hits |-> h]
Stopped(list, m) == {<<list, b>> : b \in m}

\* The states of a walk are told by the first, and each by the one before.
Onward(v, list, a, c) == IF v.at = 0 THEN v ELSE Visit(v, list, a, c)
WalkOf(g, w, list, a, c, n) ==
    /\ n \in Nat /\ Cardinality(DOMAIN w.z.bp) = n
    /\ g = [k \in 0..n |-> g[k]]
    /\ g[0] = [w EXCEPT !.at = w.z.head[list]]
    /\ \A k \in 1..n : g[k] = Onward(g[k - 1], list, a, c)

LEMMA WalkFollows ==
    ASSUME NEW w, NEW list, NEW a, NEW c, NEW n, NEW g, WalkOf(g, w, list, a, c, n)
    PROVE  check_breakpoints(w, list, a, c) = g[n]
<1> DEFINE P(f) == f = [k \in 0..n |->
                          IF k = 0 THEN [w EXCEPT !.at = w.z.head[list]]
                          ELSE LET v == f[k - 1] IN IF v.at = 0 THEN v ELSE Visit(v, list, a, c)]
           F == CHOOSE f : P(f)
<1>0. /\ n \in Nat /\ Cardinality(DOMAIN w.z.bp) = n /\ g = [k \in 0..n |-> g[k]]
      /\ g[0] = [w EXCEPT !.at = w.z.head[list]]
      /\ \A k \in 1..n : g[k] = Onward(g[k - 1], list, a, c)
  BY DEF WalkOf
<1>1. P(g)
  <2>1. \A k \in 0..n : k # 0 => k \in 1..n
    BY <1>0
  <2> QED
    BY <1>0, <2>1 DEF Onward
<1>2. P(F)
  <2> HIDE DEF P
  <2> QED
    BY <1>1
<1>3. F[0] = [w EXCEPT !.at = w.z.head[list]] /\ \A k \in 1..n : F[k] = Onward(F[k - 1], list, a, c)
  <2>1. 0 \in 0..n /\ \A k \in 1..n : k \in 0..n /\ k # 0
    BY <1>0
  <2> HIDE DEF F
  <2> QED
    BY <1>2, <2>1 DEF Onward
<1>4. check_breakpoints(w, list, a, c) = F[n]
  BY <1>0 DEF check_breakpoints, F
<1> DEFINE M == {k \in Nat : k \in 0..n => F[k] = g[k]}
<1> HIDE DEF F
<1>5. 0 \in M
  BY <1>0, <1>3
<1>6. ASSUME NEW k \in Nat, k \in M PROVE k + 1 \in M
  <2> SUFFICES ASSUME k + 1 \in 0..n PROVE F[k + 1] = g[k + 1]
    OBVIOUS
  <2>1. k \in 0..n /\ k + 1 \in 1..n /\ (k + 1) - 1 = k
    BY <1>0
  <2>2. F[k] = g[k]
    BY <1>6, <2>1
  <2>3. F[k + 1] = Onward(F[k], list, a, c) /\ g[k + 1] = Onward(g[k], list, a, c)
    <3> DEFINE i == k + 1
    <3>1. F[i] = Onward(F[i - 1], list, a, c) /\ g[i] = Onward(g[i - 1], list, a, c)
      BY <1>0, <1>3, <2>1
    <3> QED
      BY <2>1, <3>1
  <2> QED
    BY <2>2, <2>3
<1> HIDE DEF M
<1>7. Nat \subseteq M
  BY <1>5, <1>6, Induct
<1>8. F[n] = g[n]
  <2>1. n \in M /\ n \in 0..n
    BY <1>0, <1>7
  <2> QED
    BY <2>1 DEF M
<1> QED
  BY <1>4, <1>8

\* check_breakpoints(), of a list whose tests change nothing.
LEMMA WalkIs ==
    ASSUME NEW y, NEW n, Sized(y, n), NEW list, NEW S \in SUBSET Ids(y),
           Stacked(y.bp, y.head[list], S), NEW h, NEW a, NEW c,
           \A b \in S : a \in y.bp[b].span => Tested(y, b, c).z = y
    PROVE  check_breakpoints(Walking(y, h), list, a, c)
              = Walking(y, h \cup Stopped(list, Met(y, S, a, c)))
<1> DEFINE w == [z |-> y, at |-> 0, hits |-> h]
<1> DEFINE head == y.head[list]
           View(d) == [z |-> y, at |-> d.at,
                       hits |-> h \cup {<<list, b>> : b \in Met(y, d.seen, a, c)}]
<1>0. /\ n \in Nat /\ Cardinality(DOMAIN y.bp) = n
      /\ IsFiniteSet(S) /\ (S # {} => Cardinality(S) < n)
  BY FewEnough
<1>1. PICK cc : Walks(cc, y.bp, head, S, n)
  BY <1>0, WalkThere, StackDescends
<1>a. \A k \in 0..n : cc[k].at \notin cc[k].seen
  BY <1>0, <1>1, WalkSees, StackDescends
<1>b. ASSUME NEW d \in [at : S \cup {0}, seen : SUBSET S], d.at \notin d.seen
      PROVE  View(Beyond(y.bp, d)) =
                Onward(View(d), list, a, c)
  <2> DEFINE u == d.at
             e == Beyond(y.bp, d)
             t == IF a \in y.bp[u].span THEN Tested(y, u, c) ELSE [ok |-> FALSE, z |-> y]
  <2>1. CASE u = 0
    BY <2>1 DEF Beyond, Onward
  <2>2. CASE u # 0
    <3>1. u \in S /\ e.at = y.bp[u].next /\ e.seen = d.seen \cup {u}
      BY <1>b, <2>2 DEF Beyond
    <3>2. t.z = y
      BY <3>1
    <3>3. Visit(View(d), list, a, c) =
             [z |-> t.z, at |-> t.z.bp[u].next,
              hits |-> IF t.ok THEN View(d).hits \cup {<<list, u>>} ELSE View(d).hits]
      BY DEF Visit
    <3>4. Met(y, e.seen, a, c) = Met(y, d.seen, a, c) \cup (IF t.ok THEN {u} ELSE {})
      <4>1. a \notin y.bp[u].span => t.ok = FALSE
        OBVIOUS
      <4>2. a \in y.bp[u].span => t.ok = Tested(y, u, c).ok
        OBVIOUS
      <4> HIDE DEF t, u, e
      <4> QED
        BY <3>1, <4>1, <4>2 DEF Met
    <3>5. View(e) = Visit(View(d), list, a, c)
      <4>1. View(e) = [z |-> y, at |-> y.bp[u].next,
                       hits |-> h \cup {<<list, b>> :
                                   b \in Met(y, d.seen, a, c) \cup (IF t.ok THEN {u} ELSE {})}]
        BY <3>1, <3>4
      <4>2. View(d).hits = h \cup {<<list, b>> : b \in Met(y, d.seen, a, c)}
        OBVIOUS
      <4> DEFINE m == Met(y, d.seen, a, c)
      <4> HIDE DEF t, u, e, View, m
      <4>3. {<<list, b>> : b \in m \cup (IF t.ok THEN {u} ELSE {})}
               = {<<list, b>> : b \in m} \cup (IF t.ok THEN {<<list, u>>} ELSE {})
        OBVIOUS
      <4> QED
        BY <3>2, <3>3, <4>1, <4>2, <4>3 DEF m
    <3>6. View(d).at # 0
      BY <2>2
    <3> QED
      BY <3>5, <3>6 DEF Onward
  <2> QED
    BY <2>1, <2>2
<1> DEFINE g == [k \in 0..n |-> View(cc[k])]
<1>c. /\ g[0] = [w EXCEPT !.at = w.z.head[list]]
      /\ \A k \in 1..n : g[k] = Onward(g[k - 1], list, a, c)
  <2>1. cc[0] = [at |-> head, seen |-> {}] /\ 0 \in 0..n
    BY <1>0, <1>1 DEF Walks
  <2>2. Met(y, {}, a, c) = {}
    BY DEF Met
  <2>3. g[0] = [w EXCEPT !.at = w.z.head[list]]
    <3>1. {<<list, b>> : b \in Met(y, {}, a, c)} = {}
      BY <2>2
    <3>2. View([at |-> head, seen |-> {}]) = [z |-> y, at |-> head, hits |-> h]
      BY <3>1
    <3>3. [w EXCEPT !.at = w.z.head[list]] = [z |-> y, at |-> head, hits |-> h]
      OBVIOUS
    <3> HIDE DEF View, w
    <3> QED
      BY <2>1, <3>2, <3>3
  <2>4. ASSUME NEW k \in 1..n
        PROVE  g[k] = Onward(g[k - 1], list, a, c)
    <3>1. k \in 0..n /\ k - 1 \in 0..n
      BY <1>0
    <3>2. cc[k] = Beyond(y.bp, cc[k - 1]) /\ cc[k - 1] \in [at : S \cup {0}, seen : SUBSET S]
      BY <1>1, <3>1 DEF Walks
    <3>3. View(cc[k]) = Onward(View(cc[k - 1]), list, a, c)
      <4> HIDE DEF View
      <4> QED
        BY <1>a, <1>b, <3>1, <3>2
    <3>4. g[k] = View(cc[k]) /\ g[k - 1] = View(cc[k - 1])
      BY <3>1
    <3> HIDE DEF View, g
    <3> QED
      BY <3>3, <3>4
  <2> QED
    BY <2>3, <2>4
<1>d. g = [k \in 0..n |-> g[k]]
  OBVIOUS
<1> HIDE DEF View
<1>e. g[n] = View(cc[n])
  BY <1>0
<1>f. Cardinality(DOMAIN w.z.bp) = n
  BY <1>0
<1> HIDE DEF g, w
<1>9. check_breakpoints(w, list, a, c) = g[n]
  <2>1. WalkOf(g, w, list, a, c, n)
    BY <1>0, <1>c, <1>d, <1>f DEF WalkOf
  <2> QED
    BY <2>1, WalkFollows
<1>10. cc[n] = [at |-> 0, seen |-> S]
  BY <1>0, <1>1, WalkEnds
<1>12. w = Walking(y, h)
  BY DEF Walking, w
<1>13. View([at |-> 0, seen |-> S]) = Walking(y, h \cup Stopped(list, Met(y, S, a, c)))
  BY DEF View, Walking, Stopped
<1> QED
  BY <1>9, <1>10, <1>12, <1>13, <1>e

-----------------------------------------------------------------------------
(* What is written to a list, whatever array it is in.                     *)

LEMMA RanksFall ==
    ASSUME NEW bp, NEW head, NEW S, Stacked(bp, head, S)
    PROVE  /\ 0 \notin S
           /\ \A u \in S : bp[u].next \in S \cup {0} /\ bp[u].next # u
           /\ \A u, v \in S : bp[u].next = v => bp[v].next # u
<1>1. PICK r : Falls(bp, S, r)
  BY DEF Stacked
<1>2. \A u \in S : r[u] \in Nat
  BY <1>1 DEF Falls
<1> QED
  BY <1>1, <1>2 DEF Falls, Stacked

\* Entries that are left alone stay a list.
LEMMA StackedKept ==
    ASSUME NEW bp, NEW bq, NEW head, NEW S, Stacked(bp, head, S),
           \A u \in S : bq[u].next = bp[u].next
    PROVE  Stacked(bq, head, S)
<1>1. PICK r : Falls(bp, S, r)
  BY DEF Stacked
<1>2. Falls(bq, S, r)
  BY <1>1 DEF Falls
<1> QED
  BY <1>2 DEF Stacked

LEMMA LinkedKept ==
    ASSUME NEW bp, NEW bq, NEW head, NEW S, Linked(bp, head, S),
           \A u \in S : bq[u].next = bp[u].next /\ bq[u].prev = bp[u].prev
    PROVE  Linked(bq, head, S)
<1>1. Stacked(bq, head, S)
  BY StackedKept DEF Linked
<1> QED
  BY <1>1 DEF Linked, Stacked, Falls

\* A new head, before the others.
LEMMA StackedPush ==
    ASSUME NEW bp, NEW bq, NEW head, NEW S, IsFiniteSet(S), Stacked(bp, head, S),
           NEW b, b # 0, b \notin S, bq[b].next = head,
           \A u \in S : bq[u].next = bp[u].next
    PROVE  Stacked(bq, b, S \cup {b})
<1>1. PICK r : Falls(bp, S, r)
  BY DEF Stacked
<1>2. PICK m \in Nat : \A u \in S : r[u] < m
  <2>1. CASE S = {}
    BY <2>1
  <2>2. CASE S # {}
    <3>1. PICK u \in S : \A v \in S : r[v] <= r[u]
      BY <1>1, <2>2, Topmost DEF Falls
    <3>2. r[u] + 1 \in Nat /\ \A v \in S : r[v] \in Nat /\ r[v] < r[u] + 1
      BY <1>1, <3>1 DEF Falls
    <3> QED
      BY <3>2
  <2> QED
    BY <2>1, <2>2
<1> DEFINE T == S \cup {b}
           q == [u \in T |-> IF u = b THEN m ELSE r[u]]
<1>3. Falls(bq, T, q)
  <2>1. q \in [T -> Nat]
    BY <1>1, <1>2 DEF Falls
  <2>2. q[b] = m /\ \A u \in S : q[u] = r[u] /\ r[u] \in Nat
    BY <1>1 DEF Falls
  <2>3. ASSUME NEW u \in T, bq[u].next # 0 PROVE bq[u].next \in T /\ q[bq[u].next] < q[u]
    <3> HIDE DEF q
    <3>1. CASE u = b
      <4>1. head \in S
        BY <2>3, <3>1 DEF Stacked
      <4> QED
        BY <1>2, <2>2, <3>1, <4>1
    <3>2. CASE u # b
      <4>1. u \in S /\ bq[u].next = bp[u].next /\ bp[u].next \in S /\ r[bp[u].next] < r[u]
        BY <1>1, <2>3, <3>2 DEF Falls
      <4> QED
        BY <2>2, <4>1
    <3> QED
      BY <3>1, <3>2
  <2> HIDE DEF q
  <2> QED
    BY <2>1, <2>3 DEF Falls
<1>4. 0 \notin T /\ b \in T
  BY DEF Stacked
<1>5. \A u \in T : u = b \/ \E v \in T : bq[v].next = u
  BY DEF Stacked
<1> QED
  BY <1>3, <1>4, <1>5 DEF Stacked

LEMMA LinkedPush ==
    ASSUME NEW bp, NEW bq, NEW head, NEW S, IsFiniteSet(S), Linked(bp, head, S),
           NEW b, b # 0, b \notin S, bq[b].next = head, bq[b].prev = 0,
           head # 0 => bq[head].prev = b,
           \A u \in S : bq[u].next = bp[u].next /\ (u # head => bq[u].prev = bp[u].prev)
    PROVE  Linked(bq, b, S \cup {b})
<1>1. Stacked(bp, head, S)
  BY DEF Linked
<1>2. Stacked(bq, b, S \cup {b})
  BY <1>1, StackedPush
<1>3. ASSUME NEW u \in S \cup {b}, bq[u].next # 0 PROVE bq[bq[u].next].prev = u
  <2>1. CASE u = b
    BY <1>3, <2>1
  <2>2. CASE u # b
    <3>1. u \in S /\ bq[u].next = bp[u].next /\ bp[u].next \in S /\ bp[bp[u].next].prev = u
      BY <1>1, <1>3, <2>2, RanksFall DEF Linked
    <3>2. bp[u].next # head
      <4>1. 0 \notin S
        BY <1>1 DEF Stacked
      <4> QED
        BY <1>3, <3>1, <4>1 DEF Linked
    <3> QED
      BY <3>1, <3>2
  <2> QED
    BY <2>1, <2>2
<1> QED
  BY <1>2, <1>3 DEF Linked

\* The head is the topmost.
LEMMA HeadTops ==
    ASSUME NEW bp, NEW head, NEW S, IsFiniteSet(S), S # {}, Stacked(bp, head, S)
    PROVE  head \in S /\ \A u \in S : bp[u].next # head
<1>1. PICK r : Falls(bp, S, r)
  BY DEF Stacked
<1>2. PICK t \in S : \A v \in S : r[v] <= r[t]
  BY <1>1, Topmost DEF Falls
<1>3. \A u \in S : bp[u].next # t
  <2> SUFFICES ASSUME NEW u \in S, bp[u].next = t PROVE FALSE
    OBVIOUS
  <2>1. t # 0
    BY DEF Stacked
  <2>2. r[t] < r[u] /\ r[u] <= r[t] /\ r[t] \in Nat /\ r[u] \in Nat
    BY <1>1, <1>2, <2>1 DEF Falls
  <2> QED
    BY <2>2
<1> QED
  BY <1>2, <1>3 DEF Stacked

\* The head is taken off.
LEMMA StackedPop ==
    ASSUME NEW bp, NEW head, NEW S, IsFiniteSet(S), Stacked(bp, head, S), head # 0
    PROVE  Stacked(bp, bp[head].next, S \ {head})
<1> DEFINE T == S \ {head}
<1>1. head \in S /\ S # {}
  BY DEF Stacked
<1>2. \A u \in S : bp[u].next # head /\ bp[u].next \in S \cup {0}
  BY <1>1, HeadTops, RanksFall
<1>3. PICK r : Falls(bp, S, r)
  BY DEF Stacked
<1>4. Falls(bp, T, [u \in T |-> r[u]])
  BY <1>2, <1>3 DEF Falls
<1>5. \A u \in T : u = bp[head].next \/ \E v \in T : bp[v].next = u
  BY DEF Stacked
<1>6. bp[head].next \in T \cup {0} /\ 0 \notin T
  BY <1>1, <1>2 DEF Stacked
<1> QED
  BY <1>4, <1>5, <1>6 DEF Stacked

\* An entry is taken out.
LEMMA LinkedCut ==
    ASSUME NEW bp, NEW bq, NEW head, NEW S, Linked(bp, head, S), NEW b \in S,
           \A u \in S : u # bp[b].prev => bq[u].next = bp[u].next,
           bp[b].prev # 0 => bq[bp[b].prev].next = bp[b].next,
           \A u \in S : u # bp[b].next => bq[u].prev = bp[u].prev,
           bp[b].next # 0 => bq[bp[b].next].prev = bp[b].prev
    PROVE  Linked(bq, IF head = b THEN bp[b].next ELSE head, S \ {b})
<1> DEFINE p == bp[b].prev
           e == bp[b].next
           T == S \ {b}
           top == IF head = b THEN e ELSE head
<1>0. Stacked(bp, head, S)
  BY DEF Linked
<1>1. 0 \notin S /\ (\A u \in S : bp[u].next \in S \cup {0} /\ bp[u].next # u)
  BY <1>0, RanksFall
<1>2. PICK r : Falls(bp, S, r)
  BY <1>0 DEF Stacked
<1>r. \A u \in S : r[u] \in Nat
  BY <1>2 DEF Falls
<1>3. \A u \in S : bp[u].next # 0 => bp[u].next \in S /\ bp[bp[u].next].prev = u
                                      /\ r[bp[u].next] < r[u]
  BY <1>2 DEF Falls, Linked
<1>4. IF b = head THEN p = 0 ELSE p \in T /\ bp[p].next = b
  <2>1. CASE b = head
    BY <1>1, <2>1 DEF Linked
  <2>2. CASE b # head
    <3>1. PICK v \in S : bp[v].next = b
      BY <1>0, <2>2 DEF Stacked
    <3>2. v = p /\ v # b
      BY <1>1, <1>3, <3>1
    <3> QED
      BY <2>2, <3>1, <3>2
  <2> QED
    BY <2>1, <2>2
<1>5. \A u \in S : bp[u].next = b <=> u = p /\ b # head
  BY <1>1, <1>3, <1>4
<1>6. \A u \in T : bq[u].next = IF u = p THEN e ELSE bp[u].next
  BY <1>1
<1>7. e \in T \cup {0}
  BY <1>1
<1>8. Falls(bq, T, [u \in T |-> r[u]])
  <2> DEFINE q == [u \in T |-> r[u]]
  <2>1. q \in [T -> Nat] /\ \A u \in T : q[u] = r[u]
    BY <1>r
  <2>2. ASSUME NEW u \in T, bq[u].next # 0 PROVE bq[u].next \in T /\ r[bq[u].next] < r[u]
    <3>1. CASE u = p
      <4>1. bp[u].next = b /\ e \in T /\ e = bq[u].next
        BY <1>1, <1>4, <1>6, <1>7, <2>2, <3>1
      <4>2. r[e] < r[b] /\ r[b] < r[u]
        BY <1>1, <1>3, <4>1
      <4> QED
        BY <1>r, <4>1, <4>2
    <3>2. CASE u # p
      BY <1>3, <1>5, <1>6, <2>2, <3>2
    <3> QED
      BY <3>1, <3>2
  <2> HIDE DEF q
  <2> QED
    BY <2>1, <2>2 DEF Falls
<1>9. top \in T \cup {0} /\ 0 \notin T
  BY <1>0, <1>1, <1>7 DEF Stacked
<1>10. ASSUME NEW u \in T PROVE u = top \/ \E v \in T : bq[v].next = u
  <2>1. CASE u = head
    BY <2>1
  <2>2. CASE u # head
    <3>1. PICK v \in S : bp[v].next = u
      BY <1>0, <2>2 DEF Stacked
    <3>2. CASE v = b
      BY <1>4, <1>6, <3>1, <3>2
    <3>3. CASE v # b
      <4>1. v # p \/ b = head
        BY <1>4, <3>1
      <4>2. v # p
        BY <1>1, <1>4, <4>1
      <4> QED
        BY <1>6, <3>1, <3>3, <4>2
    <3> QED
      BY <3>2, <3>3
  <2> QED
    BY <2>1, <2>2
<1>11. top # 0 => bq[top].prev = 0
  <2>1. CASE head = b
    BY <1>1, <1>4, <2>1
  <2>2. CASE head # b
    <3> SUFFICES ASSUME head # 0 PROVE bq[head].prev = 0
      BY <2>2
    <3>1. head \in S /\ bp[head].prev = 0
      BY <1>0 DEF Linked, Stacked
    <3>2. head # e
      BY <1>1, <1>3, <3>1
    <3> QED
      BY <3>1, <3>2
  <2> QED
    BY <2>1, <2>2
<1>12. ASSUME NEW u \in T, bq[u].next # 0 PROVE bq[bq[u].next].prev = u
  <2>1. CASE u = p
    BY <1>1, <1>6, <1>12, <2>1
  <2>2. CASE u # p
    <3>1. bq[u].next = bp[u].next /\ bp[u].next \in S /\ bp[bp[u].next].prev = u
      BY <1>3, <1>6, <1>12, <2>2
    <3>2. bp[u].next # e
      BY <1>1, <1>3, <1>12, <3>1
    <3> QED
      BY <3>1, <3>2
  <2> QED
    BY <2>1, <2>2
<1>13. Stacked(bq, top, T)
  BY <1>8, <1>9, <1>10 DEF Stacked
<1> QED
  BY <1>11, <1>12, <1>13 DEF Linked

-----------------------------------------------------------------------------
(* What the functions write.                                               *)

\* The same type, addresses and test.
Alike(s, t) ==
    /\ s.kind = t.kind /\ s.physical = t.physical /\ s.disabled = t.disabled
    /\ s.span = t.span /\ s.test = t.test

\* The same but for the lists.
Aside(y, z) == y.step = z.step /\ y.dest = z.dest /\ y.exit = z.exit

\* One next, or one prev, is written.
LEMMA NextWritten ==
    ASSUME NEW D, NEW bp \in [D -> Entry], NEW b \in D, NEW v \in Nat
    PROVE  LET C == [bp EXCEPT ![b].next = v]
           IN  /\ C \in [D -> Entry]
               /\ \A u \in D : /\ Alike(C[u], bp[u]) /\ C[u].prev = bp[u].prev
                               /\ C[u].next = IF u = b THEN v ELSE bp[u].next
<1> DEFINE C == [bp EXCEPT ![b].next = v]
<1>1. \A e \in Entry : [e EXCEPT !.next = v] \in Entry
  BY DEF Entry
<1>2. ASSUME NEW u \in D
      PROVE  /\ C[u] \in Entry /\ Alike(C[u], bp[u]) /\ C[u].prev = bp[u].prev
             /\ C[u].next = IF u = b THEN v ELSE bp[u].next
  <2> DEFINE e == bp[u]
  <2>1. e \in Entry
    OBVIOUS
  <2>2. CASE u = b
    <3>1. C[u] = [e EXCEPT !.next = v]
      BY <2>2
    <3> HIDE DEF C, e
    <3>2. C[u] \in Entry
      BY <1>1, <2>1, <3>1
    <3>3. Alike(C[u], e) /\ C[u].prev = e.prev /\ C[u].next = v
      BY <2>1, <3>1 DEF Entry, Alike
    <3> QED
      BY <2>2, <3>2, <3>3 DEF e
  <2>3. CASE u # b
    <3>1. C[u] = e
      BY <2>3
    <3> HIDE DEF C
    <3> QED
      BY <2>1, <2>3, <3>1 DEF Alike
  <2> QED
    BY <2>2, <2>3
<1>3. C = [u \in D |-> C[u]]
  OBVIOUS
<1> HIDE DEF C
<1>4. C \in [D -> Entry]
  BY <1>2, <1>3
<1> QED
  BY <1>2, <1>4 DEF C

LEMMA PrevWritten ==
    ASSUME NEW D, NEW bp \in [D -> Entry], NEW b \in D, NEW v \in Nat
    PROVE  LET C == [bp EXCEPT ![b].prev = v]
           IN  /\ C \in [D -> Entry]
               /\ \A u \in D : /\ Alike(C[u], bp[u]) /\ C[u].next = bp[u].next
                               /\ C[u].prev = IF u = b THEN v ELSE bp[u].prev
<1> DEFINE C == [bp EXCEPT ![b].prev = v]
<1>1. \A e \in Entry : [e EXCEPT !.prev = v] \in Entry
  BY DEF Entry
<1>2. ASSUME NEW u \in D
      PROVE  /\ C[u] \in Entry /\ Alike(C[u], bp[u]) /\ C[u].next = bp[u].next
             /\ C[u].prev = IF u = b THEN v ELSE bp[u].prev
  <2> DEFINE e == bp[u]
  <2>1. e \in Entry
    OBVIOUS
  <2>2. CASE u = b
    <3>1. C[u] = [e EXCEPT !.prev = v]
      BY <2>2
    <3> HIDE DEF C, e
    <3>2. C[u] \in Entry
      BY <1>1, <2>1, <3>1
    <3>3. Alike(C[u], e) /\ C[u].next = e.next /\ C[u].prev = v
      BY <2>1, <3>1 DEF Entry, Alike
    <3> QED
      BY <2>2, <3>2, <3>3 DEF e
  <2>3. CASE u # b
    <3>1. C[u] = e
      BY <2>3
    <3> HIDE DEF C
    <3> QED
      BY <2>1, <2>3, <3>1 DEF Alike
  <2> QED
    BY <2>2, <2>3
<1>3. C = [u \in D |-> C[u]]
  OBVIOUS
<1> HIDE DEF C
<1>4. C \in [D -> Entry]
  BY <1>2, <1>3
<1> QED
  BY <1>2, <1>4 DEF C

LEMMA SizedIs ==
    ASSUME NEW z, NEW n, Sized(z, n)
    PROVE  /\ n \in Nat /\ z \in Arrays(0..(n - 1)) /\ z.bp \in [0..(n - 1) -> Entry]
           /\ z.head \in [BpLists -> Nat] /\ z.free \in Nat
           /\ z.step \in Nat /\ z.dest \in Nat /\ z.exit \in Nat
           /\ Ids(z) = 0..(n - 1) \ {0}
           /\ \A b \in Ids(z) : b \in Nat /\ b # 0 /\ 0 \in 0..(n - 1) /\ b \in 0..(n - 1)
                                /\ z.bp[b] \in Entry
<1>1. n \in Nat /\ z \in Arrays(0..(n - 1))
  BY DEF Sized
<1>2. /\ z.bp \in [0..(n - 1) -> Entry] /\ z.head \in [BpLists -> Nat] /\ z.free \in Nat
      /\ z.step \in Nat /\ z.dest \in Nat /\ z.exit \in Nat
  BY <1>1 DEF Arrays
<1>3. Ids(z) = 0..(n - 1) \ {0}
  BY <1>2 DEF Ids
<1> QED
  BY <1>1, <1>2, <1>3

LEMMA AddWrites ==
    ASSUME NEW z, NEW n, Sized(z, n), NEW b \in Ids(z), NEW l \in BpLists, l = bp_head(z.bp[b]),
           NEW h \in Ids(z) \cup {0}, h = z.head[l], h # b
    PROVE  LET y == bp_add(z, b)
           IN  /\ Sized(y, n) /\ Aside(y, z) /\ y.free = z.free
               /\ y.head = [z.head EXCEPT ![l] = b]
               /\ \A u \in Ids(z) :
                     /\ Alike(y.bp[u], z.bp[u])
                     /\ y.bp[u].next = IF u = b THEN h ELSE z.bp[u].next
                     /\ u # h => y.bp[u].prev = z.bp[u].prev
                     /\ u = h => y.bp[u].prev = b
<1> DEFINE D == 0..(n - 1)
           v == IF h = 0 THEN 0 ELSE b
           C == [z.bp EXCEPT ![b].next = h]
           E == [C EXCEPT ![h].prev = v]
           H == [z.head EXCEPT ![l] = b]
           y == bp_add(z, b)
<1>1. n \in Nat /\ z \in Arrays(D) /\ z.bp \in [D -> Entry] /\ z.head \in [BpLists -> Nat]
      /\ z.free \in Nat /\ Ids(z) = D \ {0}
  BY SizedIs
<1>2. b \in D /\ b \in Nat /\ b # 0 /\ h \in Nat /\ h \in D /\ v \in Nat
  BY <1>1
<1>y. y = [z EXCEPT !.bp[b].next = h, !.bp[h].prev = v, !.head[l] = b]
  BY DEF bp_add
<1> HIDE DEF y, v, D
<1>3. C \in [D -> Entry] /\ \A u \in D : /\ Alike(C[u], z.bp[u]) /\ C[u].prev = z.bp[u].prev
                                         /\ C[u].next = IF u = b THEN h ELSE z.bp[u].next
  BY <1>1, <1>2, NextWritten
<1>4. E \in [D -> Entry] /\ \A u \in D : /\ Alike(E[u], C[u]) /\ E[u].next = C[u].next
                                         /\ E[u].prev = IF u = h THEN v ELSE C[u].prev
  <2> HIDE DEF C
  <2> QED
    BY <1>2, <1>3, PrevWritten
<1>5. H \in [BpLists -> Nat]
  BY <1>1, <1>2
<1>6. /\ y.bp = E /\ y.head = H /\ y.free = z.free /\ Aside(y, z)
  BY <1>1, <1>y DEF Arrays, Aside
<1>7. y \in Arrays(D)
  BY <1>1, <1>2, <1>4, <1>5, <1>6, <1>y DEF Arrays
<1> HIDE DEF E, H, C
<1>8. ASSUME NEW u \in Ids(z)
      PROVE  /\ Alike(y.bp[u], z.bp[u])
             /\ y.bp[u].next = IF u = b THEN h ELSE z.bp[u].next
             /\ u # h => y.bp[u].prev = z.bp[u].prev
             /\ u = h => y.bp[u].prev = b
  <2>1. u \in D /\ u # 0
    BY <1>1
  <2>2. Alike(y.bp[u], z.bp[u])
    BY <1>3, <1>4, <1>6, <2>1 DEF Alike
  <2> QED
    BY <1>3, <1>4, <1>6, <2>1, <2>2 DEF v
<1> QED
  BY <1>1, <1>6, <1>7, <1>8 DEF Sized, y, H, D

LEMMA RemWrites ==
    ASSUME NEW z, NEW n, Sized(z, n), NEW b \in Ids(z), NEW l \in BpLists, l = bp_head(z.bp[b]),
           NEW p \in Ids(z) \cup {0}, p = z.bp[b].prev,
           NEW e \in Ids(z) \cup {0}, e = z.bp[b].next
    PROVE  LET y == bp_rem(z, b)
           IN  /\ Sized(y, n) /\ Aside(y, z) /\ y.free = z.free
               /\ y.head = [z.head EXCEPT ![l] = IF @ = b THEN e ELSE @]
               /\ \A u \in Ids(z) :
                     /\ Alike(y.bp[u], z.bp[u])
                     /\ y.bp[u].next = IF u = p THEN e ELSE z.bp[u].next
                     /\ y.bp[u].prev = IF u = e THEN p ELSE z.bp[u].prev
<1> DEFINE D == 0..(n - 1)
           v == IF p = 0 THEN 0 ELSE e
           w == IF e = 0 THEN 0 ELSE p
           C == [z.bp EXCEPT ![p].next = v]
           E == [C EXCEPT ![e].prev = w]
           H == [z.head EXCEPT ![l] = IF @ = b THEN e ELSE @]
           y == bp_rem(z, b)
<1>1. n \in Nat /\ z \in Arrays(D) /\ z.bp \in [D -> Entry] /\ z.head \in [BpLists -> Nat]
      /\ z.free \in Nat /\ Ids(z) = D \ {0}
  BY SizedIs
<1>2. b \in D /\ b \in Nat /\ b # 0 /\ e \in Nat /\ e \in D /\ p \in D /\ p \in Nat
      /\ v \in Nat /\ w \in Nat
  BY <1>1
<1>y. y = [z EXCEPT !.head[l] = IF @ = b THEN e ELSE @, !.bp[p].next = v, !.bp[e].prev = w]
  BY DEF bp_rem
<1> HIDE DEF y, v, w, D
<1>3. C \in [D -> Entry] /\ \A u \in D : /\ Alike(C[u], z.bp[u]) /\ C[u].prev = z.bp[u].prev
                                         /\ C[u].next = IF u = p THEN v ELSE z.bp[u].next
  BY <1>1, <1>2, NextWritten
<1>4. E \in [D -> Entry] /\ \A u \in D : /\ Alike(E[u], C[u]) /\ E[u].next = C[u].next
                                         /\ E[u].prev = IF u = e THEN w ELSE C[u].prev
  <2> HIDE DEF C
  <2> QED
    BY <1>2, <1>3, PrevWritten
<1>5. H \in [BpLists -> Nat]
  BY <1>1, <1>2
<1>6. /\ y.bp = E /\ y.head = H /\ y.free = z.free /\ Aside(y, z)
  BY <1>1, <1>y DEF Arrays, Aside
<1>7. y \in Arrays(D)
  BY <1>1, <1>2, <1>4, <1>5, <1>6, <1>y DEF Arrays
<1> HIDE DEF E, H, C
<1>8. ASSUME NEW u \in Ids(z)
      PROVE  /\ Alike(y.bp[u], z.bp[u])
             /\ y.bp[u].next = IF u = p THEN e ELSE z.bp[u].next
             /\ y.bp[u].prev = IF u = e THEN p ELSE z.bp[u].prev
  <2>1. u \in D /\ u # 0
    BY <1>1
  <2>2. Alike(y.bp[u], z.bp[u])
    BY <1>3, <1>4, <1>6, <2>1 DEF Alike
  <2> QED
    BY <1>3, <1>4, <1>6, <2>1, <2>2 DEF v, w
<1> QED
  BY <1>1, <1>6, <1>7, <1>8 DEF Sized, y, H, D

LEMMA BlankIs ==
    ASSUME NEW v \in Nat
    PROVE  LET e == [Blank EXCEPT !.next = v]
           IN  e \in Entry /\ e.kind = "none" /\ e.next = v
<1> DEFINE e == [Blank EXCEPT !.next = v]
<1>0. e = [Blank EXCEPT !.next = v]
  OBVIOUS
<1> HIDE DEF e
<1>1. e = [kind |-> "none", physical |-> FALSE, disabled |-> FALSE, span |-> {},
           test |-> "none", next |-> v, prev |-> 0]
  BY <1>0 DEF Blank
<1>2. e.kind = "none" /\ e.next = v
  BY <1>1
<1>3. e \in Entry
  BY <1>1 DEF Entry, Kinds, Tests
<1> QED
  BY <1>2, <1>3 DEF e

\* One entry and the end of the free list are written.
Written(z, b, e, free) == [z EXCEPT !.bp[b] = e, !.free = free]

LEMMA EntryWritten ==
    ASSUME NEW z, NEW n, Sized(z, n), NEW b \in Ids(z), NEW e \in Entry, NEW free \in Nat
    PROVE  LET y == Written(z, b, e, free)
           IN  /\ Sized(y, n) /\ Aside(y, z) /\ y.head = z.head /\ y.free = free
               /\ y.bp[b] = e /\ \A u \in Ids(z) : u # b => y.bp[u] = z.bp[u]
<1> DEFINE D == 0..(n - 1)
           C == [z.bp EXCEPT ![b] = e]
           y == Written(z, b, e, free)
<1>1. n \in Nat /\ z \in Arrays(D) /\ z.bp \in [D -> Entry] /\ Ids(z) = D \ {0} /\ b \in D
  BY SizedIs
<1>2. C \in [D -> Entry] /\ C[b] = e /\ \A u \in D : u # b => C[u] = z.bp[u]
  BY <1>1
<1> HIDE DEF D
<1>3. y.bp = C /\ y.head = z.head /\ y.free = free /\ Aside(y, z)
  BY <1>1 DEF Arrays, Aside, Written
<1>4. y \in Arrays(D)
  BY <1>1, <1>2, <1>3 DEF Arrays, Written
<1> HIDE DEF C, y
<1>5. \A u \in Ids(z) : u \in D
  BY <1>1
<1> QED
  BY <1>1, <1>2, <1>3, <1>4, <1>5 DEF Sized, D, y

-----------------------------------------------------------------------------
(* The array as a whole: every entry but those of X is in its list.        *)

On(z, l) == {b \in Ids(z) : z.bp[b].kind # "none" /\ bp_head(z.bp[b]) = l}
Unused(z) == {b \in Ids(z) : z.bp[b].kind = "none"}
Held(z) == {b \in Ids(z) : z.bp[b].kind # "none"}

Out(z, n, X) ==
    /\ Sized(z, n)
    /\ \A l \in BpLists : Linked(z.bp, z.head[l], On(z, l) \ X)
    /\ Stacked(z.bp, z.free, Unused(z) \ X)

Good(z) == \E n : Out(z, n, {})

LEMMA Finite ==
    ASSUME NEW z, NEW n, Sized(z, n), NEW S \in SUBSET Ids(z)
    PROVE  IsFiniteSet(S)
BY SizeIs

\* Nothing is unused where the list of the free is empty.
LEMMA AllUsed ==
    ASSUME NEW z, NEW n, Out(z, n, {}), z.free = 0
    PROVE  Unused(z) = {}
<1> DEFINE S == Unused(z)
<1>1. IsFiniteSet(S) /\ Stacked(z.bp, z.free, S) /\ 0 \notin S
  BY Finite DEF Out, Unused, Ids
<1> HIDE DEF S
<1>2. S # {} => z.free \in S
  BY <1>1, HeadTops
<1> QED
  BY <1>1, <1>2 DEF S

\* The array grows, by unused entries.
LEMMA GrownIs ==
    ASSUME NEW z, NEW n, Out(z, n, {}), z.free = 0
    PROVE  LET y == Grown(z)
           IN  /\ Out(y, n * 2 + 2, {}) /\ y.free # 0 /\ y.head = z.head /\ Aside(y, z)
               /\ Held(y) = Held(z) /\ \A b \in Held(z) : y.bp[b] = z.bp[b]
<1> DEFINE y == Grown(z)
           m == n * 2 + 2
           D == 0..(n - 1)
           E == 0..(m - 1)
           Fresh(k) == [Blank EXCEPT !.next = IF k = n THEN 0 ELSE k - 1]
           C == [k \in E |-> IF k < n THEN z.bp[k] ELSE Fresh(k)]
<1>1. n \in Nat /\ z \in Arrays(D) /\ z.bp \in [D -> Entry] /\ Ids(z) = D \ {0}
      /\ Cardinality(DOMAIN z.bp) = n
  BY SizedIs, SizeIs DEF Out
<1>m. m \in Nat /\ m - 1 \in Nat /\ m > n /\ m > n + 1
  BY <1>1
<1>2. y = [z EXCEPT !.bp = C, !.free = m - 1]
  BY <1>1 DEF Grown
<1>3. ASSUME NEW k \in E, ~(k < n)
      PROVE  /\ Fresh(k) \in Entry /\ Fresh(k).kind = "none"
             /\ Fresh(k).next = IF k = n THEN 0 ELSE k - 1
  <2> DEFINE v == IF k = n THEN 0 ELSE k - 1
  <2>1. v \in Nat
    BY <1>1, <1>3
  <2> HIDE DEF v
  <2>2. LET e == [Blank EXCEPT !.next = v] IN e \in Entry /\ e.kind = "none" /\ e.next = v
    BY <2>1, BlankIs
  <2> QED
    BY <2>2 DEF v
<1> HIDE DEF Fresh, m
<1>4. C \in [E -> Entry]
  <2>1. \A k \in E : k < n => k \in D
    BY <1>1
  <2>2. \A k \in E : C[k] \in Entry
    BY <1>1, <1>3, <2>1
  <2>3. C = [k \in E |-> C[k]]
    OBVIOUS
  <2> HIDE DEF C
  <2> QED
    BY <2>2, <2>3
<1>5. y.bp = C /\ y.head = z.head /\ y.free = m - 1 /\ Aside(y, z)
  BY <1>1, <1>2 DEF Arrays, Aside
<1>6. y \in Arrays(E)
  <2> HIDE DEF C, E
  <2> QED
    BY <1>1, <1>m, <1>2, <1>4, <1>5 DEF Arrays
<1>7. Sized(y, m)
  BY <1>6, <1>m DEF Sized
<1>8. Ids(y) = E \ {0} /\ \A k \in Ids(y) : k \in E /\ k \in Nat
  BY <1>7, SizedIs
<1> HIDE DEF y
<1>9. \A k \in Ids(y) : IF k < n THEN k \in Ids(z) /\ y.bp[k] = z.bp[k]
                        ELSE k \notin Ids(z) /\ y.bp[k] = Fresh(k)
  BY <1>1, <1>5, <1>8
<1>10. Ids(z) \subseteq Ids(y) /\ \A k \in Ids(z) : k < n /\ y.bp[k] = z.bp[k]
  <2>1. \A k \in Ids(z) : k \in E \ {0} /\ k < n
    BY <1>1, <1>m
  <2> QED
    BY <1>8, <1>9, <2>1
<1>11. \A k \in Ids(y) : ~(k < n) => y.bp[k].kind = "none"
                                     /\ y.bp[k].next = IF k = n THEN 0 ELSE k - 1
  BY <1>3, <1>8, <1>9
<1>12. Held(y) = Held(z) /\ \A l \in BpLists : On(y, l) = On(z, l)
  <2>1. \A k : k \in Held(y) <=> k \in Held(z)
    BY <1>9, <1>10, <1>11 DEF Held
  <2>2. ASSUME NEW l, NEW k PROVE k \in On(y, l) <=> k \in On(z, l)
    <3>1. CASE k \in Ids(y) /\ k < n
      <4>1. k \in Ids(z) /\ y.bp[k] = z.bp[k]
        BY <1>9, <3>1
      <4> QED
        BY <3>1, <4>1 DEF On
    <3>2. CASE ~(k \in Ids(y) /\ k < n)
      BY <1>10, <1>11, <3>2 DEF On
    <3> QED
      BY <3>1, <3>2
  <2>3. Held(y) = Held(z)
    BY <2>1 DEF Held
  <2>4. ASSUME NEW l PROVE On(y, l) = On(z, l)
    BY <2>2 DEF On
  <2> QED
    BY <2>3, <2>4
<1>13. \A b \in Held(z) : y.bp[b] = z.bp[b]
  BY <1>10 DEF Held
<1>14. \A l \in BpLists : Linked(y.bp, y.head[l], On(y, l) \ {})
  <2> SUFFICES ASSUME NEW l \in BpLists PROVE Linked(y.bp, z.head[l], On(z, l) \ {})
    BY <1>5, <1>12
  <2>1. Linked(z.bp, z.head[l], On(z, l) \ {})
    BY DEF Out
  <2>2. \A u \in On(z, l) \ {} : y.bp[u].next = z.bp[u].next /\ y.bp[u].prev = z.bp[u].prev
    BY <1>10 DEF On
  <2> QED
    BY <2>1, <2>2, LinkedKept
<1>15. Unused(y) = {k \in Ids(y) : ~(k < n)}
  <2>1. Unused(z) = {}
    BY AllUsed
  <2> QED
    BY <1>9, <1>11, <2>1 DEF Unused
<1>16. Stacked(y.bp, y.free, Unused(y) \ {})
  <2> DEFINE S == Unused(y) \ {}
             r == [k \in S |-> k]
  <2>1. \A k : k \in S <=> k \in Nat /\ k # 0 /\ ~(k < n) /\ k < m
    BY <1>8, <1>15, <1>m
  <2>2. m - 1 \in S /\ 0 \notin S
    BY <1>1, <1>m, <2>1 DEF m
  <2>3. \A k \in S : y.bp[k].next = IF k = n THEN 0 ELSE k - 1
    BY <1>11, <1>15
  <2> HIDE DEF S
  <2>4. Falls(y.bp, S, r)
    <3>1. r \in [S -> Nat] /\ \A k \in S : r[k] = k
      BY <2>1
    <3>2. ASSUME NEW k \in S, y.bp[k].next # 0
          PROVE  y.bp[k].next \in S /\ r[y.bp[k].next] < r[k]
      <4>1. y.bp[k].next = k - 1 /\ k # n
        BY <2>3, <3>2
      <4>2. k - 1 \in S
        BY <1>1, <1>m, <2>1, <3>2, <4>1
      <4>3. r[k - 1] = k - 1 /\ r[k] = k /\ k \in Nat
        BY <2>1, <3>1, <4>2
      <4> QED
        BY <4>1, <4>2, <4>3
    <3> HIDE DEF r
    <3> QED
      BY <3>1, <3>2 DEF Falls
  <2>5. ASSUME NEW u \in S PROVE u = m - 1 \/ \E v \in S : y.bp[v].next = u
    <3> SUFFICES ASSUME u # m - 1 PROVE \E v \in S : y.bp[v].next = u
      OBVIOUS
    <3>1. u + 1 \in S /\ u + 1 # n /\ (u + 1) - 1 = u
      BY <1>1, <1>m, <2>1
    <3> QED
      BY <2>3, <3>1
  <2> HIDE DEF r
  <2> QED
    BY <1>5, <2>2, <2>4, <2>5 DEF Stacked, S
<1>17. m - 1 # 0
  BY <1>1 DEF m
<1> QED
  BY <1>5, <1>7, <1>12, <1>13, <1>14, <1>16, <1>17 DEF Out, m, y

-----------------------------------------------------------------------------
(* An entry leaves its list, or comes to one.                              *)

LEMMA Listed ==
    ASSUME NEW t \in Entry, t.kind # "none"
    PROVE  bp_head(t) \in BpLists
BY DEF Entry, Kinds, bp_head, BpLists

LEMMA AlikeListed ==
    ASSUME NEW s \in Entry, NEW t \in Entry, Alike(s, t)
    PROVE  bp_head(s) = bp_head(t) /\ s.kind = t.kind
BY DEF Alike, bp_head

\* Two arrays alike have the same lists, but for an entry left aside.
LEMMA SameLists ==
    ASSUME NEW z, NEW n, Sized(z, n), NEW y, Sized(y, n), NEW X,
           \A u \in Ids(z) \ X : Alike(y.bp[u], z.bp[u])
    PROVE  /\ Ids(y) = Ids(z)
           /\ Held(y) \ X = Held(z) \ X /\ Unused(y) \ X = Unused(z) \ X
           /\ \A l : On(y, l) \ X = On(z, l) \ X
<1>1. Ids(y) = Ids(z)
  BY SizedIs
<1>2. ASSUME NEW u \in Ids(z) \ X
      PROVE  bp_head(y.bp[u]) = bp_head(z.bp[u]) /\ y.bp[u].kind = z.bp[u].kind
  <2>1. y.bp[u] \in Entry /\ z.bp[u] \in Entry
    BY <1>1, SizedIs
  <2> QED
    BY <2>1, AlikeListed
<1>3. ASSUME NEW l PROVE On(y, l) \ X = On(z, l) \ X
  BY <1>1, <1>2 DEF On
<1>4. Held(y) \ X = Held(z) \ X /\ Unused(y) \ X = Unused(z) \ X
  BY <1>1, <1>2 DEF Held, Unused
<1> QED
  BY <1>1, <1>3, <1>4

LEMMA OutKept ==
    ASSUME NEW z, NEW n, NEW b, Out(z, n, {b}), NEW y, Sized(y, n),
           y.head = z.head, y.free = z.free,
           \A u \in Ids(z) : u # b => /\ Alike(y.bp[u], z.bp[u])
                                      /\ y.bp[u].next = z.bp[u].next
                                      /\ y.bp[u].prev = z.bp[u].prev
    PROVE  Out(y, n, {b})
<1>1. Sized(z, n)
  BY DEF Out
<1>2. /\ Unused(y) \ {b} = Unused(z) \ {b}
      /\ \A l : On(y, l) \ {b} = On(z, l) \ {b}
  <2>1. \A u \in Ids(z) \ {b} : Alike(y.bp[u], z.bp[u])
    OBVIOUS
  <2> QED
    BY <1>1, <2>1, SameLists
<1>3. ASSUME NEW l \in BpLists PROVE Linked(y.bp, y.head[l], On(y, l) \ {b})
  <2>1. Linked(z.bp, z.head[l], On(z, l) \ {b})
    BY DEF Out
  <2>2. Linked(y.bp, z.head[l], On(z, l) \ {b})
    <3>1. \A u \in On(z, l) \ {b} : y.bp[u].next = z.bp[u].next /\ y.bp[u].prev = z.bp[u].prev
      BY DEF On
    <3> QED
      BY <2>1, <3>1, LinkedKept
  <2> QED
    BY <1>2, <2>2
<1>4. Stacked(y.bp, y.free, Unused(y) \ {b})
  <2>1. Stacked(z.bp, z.free, Unused(z) \ {b})
    BY DEF Out
  <2>2. Stacked(y.bp, z.free, Unused(z) \ {b})
    <3>1. \A u \in Unused(z) \ {b} : y.bp[u].next = z.bp[u].next
      BY DEF Unused
    <3> QED
      BY <2>1, <3>1, StackedKept
  <2> QED
    BY <1>2, <2>2
<1> QED
  BY <1>3, <1>4 DEF Out

\* bp_add(), of an entry in no list.
LEMMA Joins ==
    ASSUME NEW z, NEW n, NEW b \in Ids(z), Out(z, n, {b}),
           z.bp[b].kind # "none", z.bp[b].prev = 0
    PROVE  LET y == bp_add(z, b)
           IN  /\ Out(y, n, {}) /\ Aside(y, z) /\ y.free = z.free /\ Held(y) = Held(z)
               /\ y.bp[b].next = z.head[bp_head(z.bp[b])]
               /\ \A u \in Ids(z) : Alike(y.bp[u], z.bp[u])
<1> DEFINE y == bp_add(z, b)
           l == bp_head(z.bp[b])
           h == z.head[l]
           S == On(z, l) \ {b}
<1>1. Sized(z, n) /\ z.bp[b] \in Entry /\ b # 0
  BY SizedIs DEF Out
<1>2. l \in BpLists
  BY <1>1, Listed
<1>3. Linked(z.bp, h, S) /\ IsFiniteSet(S)
  BY <1>1, <1>2, Finite DEF Out, On
<1>4. h \in S \cup {0} /\ 0 \notin S
  BY <1>3 DEF Linked, Stacked
<1>5. h \in Ids(z) \cup {0} /\ h # b
  BY <1>1, <1>4 DEF On
<1>6. /\ Sized(y, n) /\ Aside(y, z) /\ y.free = z.free
      /\ y.head = [z.head EXCEPT ![l] = b]
      /\ \A u \in Ids(z) :
            /\ Alike(y.bp[u], z.bp[u])
            /\ y.bp[u].next = IF u = b THEN h ELSE z.bp[u].next
            /\ u # h => y.bp[u].prev = z.bp[u].prev
            /\ u = h => y.bp[u].prev = b
  <2> HIDE DEF y, l, h, S
  <2>1. l = bp_head(z.bp[b]) /\ h = z.head[l]
    BY DEF l, h
  <2> QED
    BY <1>1, <1>2, <1>5, <2>1, AddWrites DEF y
<1> HIDE DEF y
<1>7. /\ Held(y) \ {} = Held(z) \ {} /\ Unused(y) \ {} = Unused(z) \ {}
      /\ \A k : On(y, k) \ {} = On(z, k) \ {}
  <2> DEFINE X == {}
  <2>1. \A u \in Ids(z) \ X : Alike(y.bp[u], z.bp[u])
    BY <1>6
  <2> HIDE DEF X
  <2>2. /\ Ids(y) = Ids(z)
        /\ Held(y) \ X = Held(z) \ X /\ Unused(y) \ X = Unused(z) \ X
        /\ \A k : On(y, k) \ X = On(z, k) \ X
    BY <1>1, <1>6, <2>1, SameLists
  <2> QED
    BY <2>2 DEF X
<1>8. Held(y) = Held(z) /\ Unused(y) = Unused(z) /\ \A k : On(y, k) = On(z, k)
  <2>1. \A k : On(y, k) = On(z, k)
    BY <1>7 DEF On
  <2> QED
    BY <1>7, <2>1 DEF Held, Unused
<1>9. b \in On(z, l) /\ b \notin Unused(z) /\ \A k : k # l => b \notin On(z, k)
  BY <1>1 DEF On, Unused
<1>10. ASSUME NEW k \in BpLists PROVE Linked(y.bp, y.head[k], On(y, k) \ {})
  <2>1. CASE k = l
    <3>1. On(y, k) \ {} = S \cup {b}
      BY <1>8, <1>9, <2>1
    <3>2. y.head[k] = b
      BY <1>1, <1>2, <1>6, <2>1, SizedIs
    <3>3. Linked(y.bp, b, S \cup {b})
      <4>1. /\ b # 0 /\ b \notin S /\ y.bp[b].next = h /\ y.bp[b].prev = 0
            /\ h # 0 => y.bp[h].prev = b
            /\ \A u \in S : /\ y.bp[u].next = z.bp[u].next
                            /\ u # h => y.bp[u].prev = z.bp[u].prev
        BY <1>1, <1>4, <1>5, <1>6 DEF On
      <4> DEFINE g == z.bp
                 q == y.bp
      <4>2. Linked(g, h, S) /\ IsFiniteSet(S)
        BY <1>3
      <4>3. /\ b # 0 /\ b \notin S /\ q[b].next = h /\ q[b].prev = 0
            /\ h # 0 => q[h].prev = b
            /\ \A u \in S : q[u].next = g[u].next /\ (u # h => q[u].prev = g[u].prev)
        BY <4>1
      <4> HIDE DEF S, h, g, q
      <4>4. Linked(q, b, S \cup {b})
        BY <4>2, <4>3, LinkedPush
      <4> QED
        BY <4>4 DEF q
    <3> QED
      BY <3>1, <3>2, <3>3
  <2>2. CASE k # l
    <3> DEFINE T == On(z, k) \ {b}
    <3>1. On(y, k) \ {} = T
      BY <1>8, <1>9, <2>2
    <3>2. y.head[k] = z.head[k]
      BY <1>1, <1>2, <1>6, <2>2, SizedIs
    <3>3. Linked(z.bp, z.head[k], T)
      BY DEF Out
    <3>4. \A u \in T : y.bp[u].next = z.bp[u].next /\ y.bp[u].prev = z.bp[u].prev
      BY <1>4, <1>6, <2>2, <1>1, SizedIs DEF On
    <3> HIDE DEF T
    <3>5. Linked(y.bp, z.head[k], T)
      BY <3>3, <3>4, LinkedKept
    <3> QED
      BY <3>1, <3>2, <3>5
  <2> QED
    BY <2>1, <2>2
<1>11. Stacked(y.bp, y.free, Unused(y) \ {})
  <2>1. Unused(y) \ {} = Unused(z) \ {b}
    BY <1>8, <1>9
  <2>2. Stacked(z.bp, z.free, Unused(z) \ {b})
    BY DEF Out
  <2>3. \A u \in Unused(z) \ {b} : y.bp[u].next = z.bp[u].next
    BY <1>6 DEF Unused
  <2>4. Stacked(y.bp, z.free, Unused(z) \ {b})
    BY <2>2, <2>3, StackedKept
  <2> QED
    BY <1>6, <2>1, <2>4
<1> QED
  BY <1>6, <1>8, <1>10, <1>11 DEF Out, y

\* bp_rem(), of an entry in its list.
LEMMA Departs ==
    ASSUME NEW z, NEW n, NEW b \in Held(z), Out(z, n, {})
    PROVE  LET y == bp_rem(z, b)
           IN  /\ Out(y, n, {b}) /\ Aside(y, z) /\ y.free = z.free
               /\ Ids(y) = Ids(z) /\ Held(y) = Held(z) /\ y.bp[b].prev = z.bp[b].prev
               /\ \A u \in Ids(z) : Alike(y.bp[u], z.bp[u])
<1> DEFINE y == bp_rem(z, b)
           l == bp_head(z.bp[b])
           h == z.head[l]
           S == On(z, l)
           p == z.bp[b].prev
           e == z.bp[b].next
<1>1. Sized(z, n) /\ b \in Ids(z) /\ z.bp[b] \in Entry /\ z.bp[b].kind # "none" /\ b # 0
  BY SizedIs DEF Out, Held
<1>2. l \in BpLists /\ b \in S
  BY <1>1, Listed DEF On
<1>3. Linked(z.bp, h, S)
  <2>1. Linked(z.bp, h, S \ {})
    BY <1>2 DEF Out
  <2>2. S \ {} = S
    BY DEF On
  <2> QED
    BY <2>1, <2>2
<1> HIDE DEF S
<1>4. 0 \notin S /\ \A u \in S : z.bp[u].next \in S \cup {0} /\ z.bp[u].next # u
  BY <1>3, RanksFall DEF Linked
<1>5. p \in S \cup {0} /\ p # b
  <2>1. CASE b = h
    BY <1>1, <1>3, <2>1 DEF Linked
  <2>2. CASE b # h
    <3>1. PICK v \in S : z.bp[v].next = b
      BY <1>2, <1>3, <2>2 DEF Linked, Stacked
    <3>2. v = p /\ v # b
      BY <1>1, <1>3, <1>4, <3>1 DEF Linked
    <3> QED
      BY <3>2
  <2> QED
    BY <2>1, <2>2
<1>6. e \in S \cup {0} /\ e # b
  BY <1>2, <1>4
<1>7. S \subseteq Ids(z)
  BY DEF S, On
<1>8. /\ Sized(y, n) /\ Aside(y, z) /\ y.free = z.free
      /\ y.head = [z.head EXCEPT ![l] = IF @ = b THEN e ELSE @]
      /\ \A u \in Ids(z) :
            /\ Alike(y.bp[u], z.bp[u])
            /\ y.bp[u].next = IF u = p THEN e ELSE z.bp[u].next
            /\ y.bp[u].prev = IF u = e THEN p ELSE z.bp[u].prev
  <2> HIDE DEF y, l, p, e
  <2>1. /\ l = bp_head(z.bp[b]) /\ p = z.bp[b].prev /\ e = z.bp[b].next
        /\ p \in Ids(z) \cup {0} /\ e \in Ids(z) \cup {0}
    BY <1>5, <1>6, <1>7 DEF l, p, e
  <2> QED
    BY <1>1, <1>2, <2>1, RemWrites DEF y
<1> HIDE DEF y
<1>9. /\ Ids(y) = Ids(z)
      /\ Held(y) \ {} = Held(z) \ {} /\ Unused(y) \ {} = Unused(z) \ {}
      /\ \A k : On(y, k) \ {} = On(z, k) \ {}
  <2> DEFINE X == {}
  <2>1. \A u \in Ids(z) \ X : Alike(y.bp[u], z.bp[u])
    BY <1>8
  <2> HIDE DEF X
  <2>2. /\ Ids(y) = Ids(z)
        /\ Held(y) \ X = Held(z) \ X /\ Unused(y) \ X = Unused(z) \ X
        /\ \A k : On(y, k) \ X = On(z, k) \ X
    BY <1>1, <1>8, <2>1, SameLists
  <2> QED
    BY <2>2 DEF X
<1>10. Held(y) = Held(z) /\ Unused(y) = Unused(z) /\ \A k : On(y, k) = On(z, k)
  <2>1. \A k : On(y, k) = On(z, k)
    BY <1>9 DEF On
  <2> QED
    BY <1>9, <2>1 DEF Held, Unused
<1>11. ASSUME NEW k \in BpLists PROVE Linked(y.bp, y.head[k], On(y, k) \ {b})
  <2>1. CASE k = l
    <3>1. y.head[k] = IF h = b THEN e ELSE h
      BY <1>1, <1>2, <1>8, <2>1, SizedIs
    <3>2. /\ \A u \in S : u # p => y.bp[u].next = z.bp[u].next
          /\ p # 0 => y.bp[p].next = e
          /\ \A u \in S : u # e => y.bp[u].prev = z.bp[u].prev
          /\ e # 0 => y.bp[e].prev = p
      BY <1>5, <1>6, <1>7, <1>8
    <3>3. Linked(y.bp, IF h = b THEN e ELSE h, S \ {b})
      <4> HIDE DEF h
      <4> QED
        BY <1>2, <1>3, <3>2, LinkedCut
    <3>4. On(y, k) = S
      BY <1>10, <2>1 DEF S
    <3> QED
      BY <3>1, <3>3, <3>4
  <2>2. CASE k # l
    <3> DEFINE T == On(z, k) \ {b}
    <3>1. y.head[k] = z.head[k]
      BY <1>1, <1>2, <1>8, <2>2, SizedIs
    <3>2. Linked(z.bp, z.head[k], T)
      <4>1. b \notin On(z, k)
        BY <2>2 DEF On
      <4>2. T = On(z, k) \ {}
        BY <4>1
      <4> QED
        BY <4>2 DEF Out
    <3>3. \A u \in T : y.bp[u].next = z.bp[u].next /\ y.bp[u].prev = z.bp[u].prev
      <4>1. \A u \in T : u \in Ids(z) /\ u # 0 /\ u \notin S
        BY <1>1, <2>2, SizedIs DEF On, S
      <4> QED
        BY <1>5, <1>6, <1>8, <4>1
    <3>4. On(y, k) \ {b} = T
      BY <1>10
    <3> HIDE DEF T
    <3>5. Linked(y.bp, z.head[k], T)
      BY <3>2, <3>3, LinkedKept
    <3> QED
      BY <3>1, <3>4, <3>5
  <2> QED
    BY <2>1, <2>2
<1>12. Stacked(y.bp, y.free, Unused(y) \ {b})
  <2> DEFINE T == Unused(z) \ {}
  <2>1. Unused(y) \ {b} = T
    BY <1>1, <1>10 DEF Unused
  <2>2. Stacked(z.bp, z.free, T)
    BY DEF Out
  <2>3. \A u \in T : y.bp[u].next = z.bp[u].next
    <3>1. \A u \in T : u \in Ids(z) /\ u # 0 /\ u \notin S
      BY <1>1, SizedIs DEF Unused, S, On
    <3> QED
      BY <1>5, <1>8, <3>1
  <2> HIDE DEF T
  <2>4. Stacked(y.bp, z.free, T)
    BY <2>2, <2>3, StackedKept
  <2> QED
    BY <1>8, <2>1, <2>4
<1>13. y.bp[b].prev = z.bp[b].prev
  BY <1>1, <1>6, <1>8
<1> QED
  BY <1>8, <1>9, <1>10, <1>11, <1>12, <1>13 DEF Out, y

\* bp_free(), of an entry in no list.
LEMMA Frees ==
    ASSUME NEW z, NEW n, NEW b \in Ids(z), Out(z, n, {b})
    PROVE  LET y == bp_free(z, b)
           IN  /\ Out(y, n, {}) /\ Aside(y, z) /\ y.free = b /\ y.head = z.head
               /\ Held(y) = Held(z) \ {b} /\ \A u \in Held(y) : y.bp[u] = z.bp[u]
<1> DEFINE y == bp_free(z, b)
           e == [Blank EXCEPT !.next = z.free]
           X == {b}
<1>1. Sized(z, n) /\ z.free \in Nat /\ b \in Nat /\ b # 0
  BY SizedIs DEF Out
<1>2. e \in Entry /\ e.kind = "none" /\ e.next = z.free
  BY <1>1, BlankIs
<1>y. y = Written(z, b, e, b)
  BY DEF bp_free, Written
<1> HIDE DEF y, e
<1>3. /\ Sized(y, n) /\ Aside(y, z) /\ y.head = z.head /\ y.free = b
      /\ y.bp[b] = e /\ \A u \in Ids(z) : u # b => y.bp[u] = z.bp[u]
  BY <1>1, <1>2, <1>y, EntryWritten
<1>4. /\ Ids(y) = Ids(z)
      /\ Held(y) \ X = Held(z) \ X /\ Unused(y) \ X = Unused(z) \ X
      /\ \A k : On(y, k) \ X = On(z, k) \ X
  <2>1. \A u \in Ids(z) \ X : Alike(y.bp[u], z.bp[u])
    BY <1>3 DEF Alike
  <2> HIDE DEF X
  <2> QED
    BY <1>1, <1>3, <2>1, SameLists
<1>5. Held(y) = Held(z) \ X /\ Unused(y) = (Unused(z) \ X) \cup X /\ \A k : On(y, k) = On(z, k) \ X
  <2>1. b \in Ids(y) /\ y.bp[b].kind = "none"
    BY <1>2, <1>3, <1>4
  <2>2. b \notin Held(y) /\ b \in Unused(y) /\ \A k : b \notin On(y, k)
    BY <2>1 DEF Held, Unused, On
  <2>3. Held(y) = Held(y) \ X /\ Unused(y) = (Unused(y) \ X) \cup X
    BY <2>2 DEF Held, Unused
  <2>4. ASSUME NEW k PROVE On(y, k) = On(y, k) \ X
    BY <2>2 DEF On
  <2> HIDE DEF X
  <2> QED
    BY <1>4, <2>3, <2>4
<1>6. ASSUME NEW k \in BpLists PROVE Linked(y.bp, y.head[k], On(y, k) \ {})
  <2> DEFINE T == On(z, k) \ X
  <2>1. Linked(z.bp, z.head[k], T)
    BY DEF Out
  <2>2. \A u \in T : y.bp[u].next = z.bp[u].next /\ y.bp[u].prev = z.bp[u].prev
    BY <1>3 DEF On
  <2>3. On(y, k) \ {} = T
    BY <1>5
  <2> HIDE DEF T
  <2> QED
    BY <1>3, <2>1, <2>2, <2>3, LinkedKept
<1>7. Stacked(y.bp, y.free, Unused(y) \ {})
  <2> DEFINE T == Unused(z) \ X
             g == z.bp
             q == y.bp
  <2>1. Stacked(g, z.free, T) /\ IsFiniteSet(T)
    BY <1>1, Finite DEF Out, Unused
  <2>2. \A u \in T : q[u].next = g[u].next
    BY <1>3 DEF Unused
  <2>3. Unused(y) \ {} = T \cup {b}
    BY <1>5
  <2>4. b # 0 /\ b \notin T /\ q[b].next = z.free
    BY <1>1, <1>2, <1>3
  <2> HIDE DEF T, g, q
  <2>5. Stacked(q, b, T \cup {b})
    BY <2>1, <2>2, <2>4, StackedPush
  <2> QED
    BY <1>3, <2>3, <2>5 DEF q
<1>8. \A u \in Held(y) : y.bp[u] = z.bp[u]
  BY <1>3, <1>5 DEF Held
<1> QED
  BY <1>3, <1>5, <1>6, <1>7, <1>8 DEF Out, y

\* The first of the free list is taken.
LEMMA Popped ==
    ASSUME NEW z, NEW n, Out(z, n, {}), z.free # 0
    PROVE  LET y == [z EXCEPT !.free = z.bp[z.free].next]
           IN  /\ Out(y, n, {z.free}) /\ Aside(y, z) /\ y.head = z.head /\ y.bp = z.bp
               /\ z.free \in Unused(z)
<1> DEFINE b == z.free
           y == [z EXCEPT !.free = z.bp[b].next]
           S == Unused(z)
           D == 0..(n - 1)
<1>1. Sized(z, n)
  BY DEF Out
<1>2. Stacked(z.bp, b, S) /\ IsFiniteSet(S)
  <2>1. S \ {} = S
    BY DEF Unused
  <2> QED
    BY <1>1, <2>1, Finite DEF Out, Unused
<1>3. b \in S
  BY <1>2 DEF Stacked
<1>4. Stacked(z.bp, z.bp[b].next, S \ {b})
  <2> HIDE DEF S
  <2> QED
    BY <1>2, StackedPop
<1>5. z.bp[b].next \in Nat /\ z \in Arrays(D) /\ n \in Nat
  <2>1. z.bp[b] \in Entry
    BY <1>1, <1>3, SizedIs DEF Unused
  <2> QED
    BY <1>1, <2>1, SizedIs DEF Entry
<1> HIDE DEF D
<1>6. /\ y \in Arrays(D) /\ Aside(y, z) /\ y.head = z.head /\ y.bp = z.bp
      /\ y.free = z.bp[b].next
  BY <1>5 DEF Arrays, Aside
<1> HIDE DEF y
<1>7. Sized(y, n)
  BY <1>5, <1>6 DEF Sized, D
<1>8. Unused(y) = S /\ \A k : On(y, k) = On(z, k)
  BY <1>6 DEF Unused, On, Ids
<1>9. ASSUME NEW k \in BpLists PROVE Linked(y.bp, y.head[k], On(y, k) \ {b})
  <2>1. On(y, k) \ {b} = On(z, k) \ {}
    BY <1>3, <1>8 DEF On, Unused
  <2> QED
    BY <1>6, <2>1 DEF Out
<1>10. Stacked(y.bp, y.free, Unused(y) \ {b})
  BY <1>4, <1>6, <1>8
<1> QED
  BY <1>3, <1>6, <1>7, <1>9, <1>10 DEF Out, y

\* bp_alloc(): an entry in no list.
LEMMA Allocated ==
    ASSUME NEW z, NEW n, Out(z, n, {})
    PROVE  LET a == bp_alloc(z)
           IN  /\ \E m : Out(a.z, m, {a.id})
               /\ a.id \in Ids(a.z) /\ a.id \notin Held(z)
               /\ Held(a.z) = Held(z) /\ (\A u \in Held(z) : a.z.bp[u] = z.bp[u])
               /\ a.z.head = z.head /\ Aside(a.z, z) /\ (z.free # 0 => a.id = z.free)
<1> DEFINE y == IF z.free = 0 THEN Grown(z) ELSE z
           b == y.free
           x == [y EXCEPT !.free = y.bp[b].next]
<1>1. PICK m : Out(y, m, {})
  BY GrownIs
<1>2. /\ y.free # 0 /\ y.head = z.head /\ Aside(y, z)
      /\ Held(y) = Held(z) /\ (\A u \in Held(z) : y.bp[u] = z.bp[u])
      /\ (z.free # 0 => y.free = z.free)
  <2>1. CASE z.free = 0
    <3>1. y = Grown(z)
      BY <2>1
    <3> HIDE DEF y
    <3> QED
      BY <2>1, <3>1, GrownIs
  <2>2. CASE z.free # 0
    <3>1. y = z
      BY <2>2
    <3> HIDE DEF y
    <3> QED
      BY <2>2, <3>1 DEF Aside
  <2> QED
    BY <2>1, <2>2
<1>3. bp_alloc(z) = [id |-> b, z |-> x]
  BY DEF bp_alloc
<1> HIDE DEF y
<1>4. /\ Out(x, m, {b}) /\ Aside(x, y) /\ x.head = y.head /\ x.bp = y.bp /\ b \in Unused(y)
  BY <1>1, <1>2, Popped
<1> HIDE DEF b, x
<1>5. Ids(x) = Ids(y) /\ Held(x) = Held(y) /\ b \in Ids(y) /\ b \notin Held(y)
  BY <1>4 DEF Ids, Held, Unused
<1>6. Aside(x, z)
  BY <1>2, <1>4 DEF Aside
<1>7. bp_alloc(z).id = b /\ bp_alloc(z).z = x
  BY <1>3
<1>8. z.free # 0 => b = z.free
  BY <1>2 DEF b
<1> QED
  BY <1>2, <1>4, <1>5, <1>6, <1>7, <1>8

-----------------------------------------------------------------------------
(* The table that the users see.                                           *)

\* Entry b holds a breakpoint.
Holds(z, b, t, span, test) ==
    /\ b \in Held(z)
    /\ z.bp[b].kind = t.kind /\ z.bp[b].physical = t.physical /\ z.bp[b].disabled = t.disabled
    /\ z.bp[b].span = span /\ z.bp[b].test = test

\* What add_breakpoint() fills an entry with.
Filled(t, span, test) == [Typed(Blank, t) EXCEPT !.span = span, !.test = test]

LEMMA EntryFor ==
    ASSUME NEW t \in Types, NEW span \in SUBSET Nat, NEW test \in Tests
    PROVE  LET e == Filled(t, span, test)
           IN  /\ e \in Entry /\ e.kind = t.kind /\ e.physical = t.physical
               /\ e.disabled = t.disabled /\ e.span = span /\ e.test = test
               /\ e.kind # "none" /\ e.prev = 0
<1> DEFINE e == Filled(t, span, test)
<1>0. e = [Typed(Blank, t) EXCEPT !.span = span, !.test = test]
  BY DEF Filled
<1> HIDE DEF e
<1>1. e = [kind |-> t.kind, physical |-> t.physical, disabled |-> t.disabled, span |-> span,
           test |-> test, next |-> 0, prev |-> 0]
  BY <1>0 DEF Blank, Typed
<1>2. /\ e.kind = t.kind /\ e.physical = t.physical
      /\ e.disabled = t.disabled /\ e.span = span /\ e.test = test /\ e.prev = 0
  BY <1>1
<1>3. t.kind \in Kinds /\ t.physical \in BOOLEAN /\ t.disabled \in BOOLEAN /\ t.kind # "none"
  BY DEF Types, Kinds
<1>4. e \in Entry
  BY <1>1, <1>3 DEF Entry
<1> QED
  BY <1>2, <1>3, <1>4 DEF e

\* add_breakpoint(): a new entry, and the others as they were.
Added(z, a, t, span, test) ==
    /\ Good(a.z) /\ Aside(a.z, z)
    /\ a.id \notin Held(z) /\ Held(a.z) = Held(z) \cup {a.id}
    /\ a.id # 0 /\ a.id \in Nat
    /\ Holds(a.z, a.id, t, span, test)
    /\ \A u \in Held(z) : Alike(a.z.bp[u], z.bp[u])
    /\ a.z.bp[a.id].next = z.head[bp_head(t)]
    /\ (z.free # 0 => a.id = z.free)

LEMMA Adds ==
    ASSUME NEW z, Good(z), NEW t \in Types, NEW span \in SUBSET Nat, NEW test \in Tests
    PROVE  Added(z, add_breakpoint(z, t, span, test), t, span, test)
<1> DEFINE c == bp_alloc(z)
           b == c.id
           e == Filled(t, span, test)
           y == [c.z EXCEPT !.bp[b] = e]
           x == bp_add(y, b)
           a == add_breakpoint(z, t, span, test)
<1>1. PICK n : Out(z, n, {})
  BY DEF Good
<1>2. /\ \E m : Out(c.z, m, {b})
      /\ b \in Ids(c.z) /\ b \notin Held(z)
      /\ Held(c.z) = Held(z) /\ (\A u \in Held(z) : c.z.bp[u] = z.bp[u])
      /\ c.z.head = z.head /\ Aside(c.z, z) /\ (z.free # 0 => b = z.free)
  BY <1>1, Allocated
<1>3. PICK m : Out(c.z, m, {b})
  BY <1>2
<1>a. a.id = b /\ a.z = x
  BY DEF add_breakpoint, Filled
<1>4. /\ e \in Entry /\ e.kind = t.kind /\ e.physical = t.physical
      /\ e.disabled = t.disabled /\ e.span = span /\ e.test = test
      /\ e.kind # "none" /\ e.prev = 0
  BY EntryFor
<1> HIDE DEF e, c, b
<1>5. Sized(c.z, m) /\ c.z.free \in Nat /\ c.z \in Arrays(0..(m - 1)) /\ b \in Nat /\ b # 0
  BY <1>2, <1>3, SizedIs DEF Out
<1>6. y = Written(c.z, b, e, c.z.free)
  BY <1>5 DEF Written, Arrays
<1> HIDE DEF y
<1>7. /\ Sized(y, m) /\ Aside(y, c.z) /\ y.head = c.z.head /\ y.free = c.z.free
      /\ y.bp[b] = e /\ \A u \in Ids(c.z) : u # b => y.bp[u] = c.z.bp[u]
  BY <1>2, <1>4, <1>5, <1>6, EntryWritten
<1>8. Out(y, m, {b})
  <2>1. \A u \in Ids(c.z) : u # b => /\ Alike(y.bp[u], c.z.bp[u])
                                     /\ y.bp[u].next = c.z.bp[u].next
                                     /\ y.bp[u].prev = c.z.bp[u].prev
    BY <1>7 DEF Alike
  <2> QED
    BY <1>3, <1>7, <2>1, OutKept
<1>9. Ids(y) = Ids(c.z) /\ b \in Ids(y)
  BY <1>2, <1>5, <1>7, SizedIs
<1>10. Held(y) = Held(z) \cup {b}
  <2>1. \A u : u \in Held(y) <=> u \in Held(c.z) \cup {b}
    BY <1>4, <1>7, <1>9 DEF Held
  <2> QED
    BY <1>2, <2>1 DEF Held
<1>11. y.bp[b].kind # "none" /\ y.bp[b].prev = 0
  BY <1>4, <1>7
<1> HIDE DEF x
<1>12. /\ Out(x, m, {}) /\ Aside(x, y) /\ x.free = y.free /\ Held(x) = Held(y)
       /\ x.bp[b].next = y.head[bp_head(y.bp[b])]
       /\ \A u \in Ids(y) : Alike(x.bp[u], y.bp[u])
  BY <1>8, <1>9, <1>11, Joins DEF x
<1>13. Good(x)
  BY <1>12 DEF Good
<1>14. Aside(x, z)
  BY <1>2, <1>7, <1>12 DEF Aside
<1>15. Holds(x, b, t, span, test)
  <2>1. Alike(x.bp[b], e) /\ b \in Held(x)
    BY <1>7, <1>9, <1>10, <1>12
  <2> QED
    BY <1>4, <2>1 DEF Holds, Alike
<1>16. ASSUME NEW u \in Held(z) PROVE Alike(x.bp[u], z.bp[u])
  <2>1. u # b /\ u \in Ids(c.z)
    BY <1>2 DEF Held
  <2>2. Alike(x.bp[u], y.bp[u]) /\ y.bp[u] = c.z.bp[u] /\ c.z.bp[u] = z.bp[u]
    BY <1>2, <1>7, <1>9, <1>12, <2>1
  <2> QED
    BY <2>2
<1>17. x.bp[b].next = z.head[bp_head(t)]
  <2>1. bp_head(e) = bp_head(t)
    BY <1>4 DEF bp_head
  <2> QED
    BY <1>2, <1>7, <1>12, <2>1
<1> HIDE DEF a
<1>18. Good(a.z) /\ Aside(a.z, z)
  BY <1>a, <1>13, <1>14
<1>19. a.id \notin Held(z) /\ Held(a.z) = Held(z) \cup {a.id} /\ a.id # 0 /\ a.id \in Nat
       /\ (z.free # 0 => a.id = z.free)
  BY <1>a, <1>2, <1>5, <1>10, <1>12
<1>20. /\ Holds(a.z, a.id, t, span, test)
       /\ \A u \in Held(z) : Alike(a.z.bp[u], z.bp[u])
       /\ a.z.bp[a.id].next = z.head[bp_head(t)]
  BY <1>a, <1>15, <1>16, <1>17
<1> QED
  BY <1>18, <1>19, <1>20 DEF a, Added

LEMMA HeldIsValid ==
    ASSUME NEW z, NEW b
    PROVE  Valid(z, b) <=> b \in Held(z)
BY DEF Valid, Held, Ids

\* remove_breakpoint(): an entry that is there no longer is.
Removed(z, y, b) ==
    /\ Good(y) /\ Aside(y, z) /\ Held(y) = Held(z) \ {b}
    /\ \A u \in Held(y) : Alike(y.bp[u], z.bp[u])
    /\ b \in Held(z) => y.free = b

LEMMA Removes ==
    ASSUME NEW z, Good(z), NEW b
    PROVE  Removed(z, remove_breakpoint(z, b), b)
<1> DEFINE y == remove_breakpoint(z, b)
<1>1. CASE b \notin Held(z)
  <2>1. y = z
    BY <1>1, HeldIsValid DEF remove_breakpoint
  <2> HIDE DEF y
  <2> QED
    BY <1>1, <2>1 DEF Aside, Alike, Held, y, Removed
<1>2. CASE b \in Held(z)
  <2> DEFINE x == bp_rem(z, b)
  <2>1. y = bp_free(x, b)
    BY <1>2, HeldIsValid DEF remove_breakpoint
  <2>2. PICK n : Out(z, n, {})
    BY DEF Good
  <2> HIDE DEF x, y
  <2>3. /\ Out(x, n, {b}) /\ Aside(x, z)
        /\ Ids(x) = Ids(z) /\ Held(x) = Held(z)
        /\ \A u \in Ids(z) : Alike(x.bp[u], z.bp[u])
    BY <1>2, <2>2, Departs DEF x
  <2>4. b \in Ids(x)
    BY <1>2, <2>3 DEF Held
  <2>5. /\ Out(y, n, {}) /\ Aside(y, x) /\ y.free = b
        /\ Held(y) = Held(x) \ {b} /\ \A u \in Held(y) : y.bp[u] = x.bp[u]
    BY <2>1, <2>3, <2>4, Frees
  <2>6. \A u \in Held(y) : Alike(y.bp[u], z.bp[u])
    BY <2>3, <2>5 DEF Held
  <2>7. Good(y) /\ Aside(y, z)
    BY <2>3, <2>5 DEF Good, Aside
  <2> QED
    BY <2>3, <2>5, <2>6, <2>7 DEF y, Removed
<1> QED
  BY <1>1, <1>2

LEMMA TypedIs ==
    ASSUME NEW e \in Entry, NEW t \in Types
    PROVE  LET f == Typed(e, t)
           IN  /\ f \in Entry /\ f.kind = t.kind /\ f.physical = t.physical
               /\ f.disabled = t.disabled /\ f.span = e.span /\ f.test = e.test
               /\ f.next = e.next /\ f.prev = e.prev /\ f.kind # "none"
<1> DEFINE f == Typed(e, t)
<1>0. f = [e EXCEPT !.kind = t.kind, !.physical = t.physical, !.disabled = t.disabled]
  BY DEF Typed
<1> HIDE DEF f
<1>1. t.kind \in Kinds /\ t.physical \in BOOLEAN /\ t.disabled \in BOOLEAN /\ t.kind # "none"
  BY DEF Types, Kinds
<1>2. /\ f.kind = t.kind /\ f.physical = t.physical
      /\ f.disabled = t.disabled /\ f.span = e.span /\ f.test = e.test
      /\ f.next = e.next /\ f.prev = e.prev
  BY <1>0 DEF Entry
<1>3. f \in Entry
  BY <1>0, <1>1, <1>2 DEF Entry
<1> QED
  BY <1>1, <1>2, <1>3 DEF f

\* tilem_z80_set_breakpoint_type(), of the first entry of a list, or to the same.
LEMMA Retypes ==
    ASSUME NEW z, Good(z), NEW b \in Held(z), NEW t \in Types,
           z.bp[b].prev = 0 \/ Typed(z.bp[b], t) = z.bp[b]
    PROVE  LET y == set_breakpoint_type(z, b, t)
           IN  /\ Good(y) /\ Aside(y, z) /\ Held(y) = Held(z)
               /\ Holds(y, b, t, z.bp[b].span, z.bp[b].test)
               /\ \A u \in Held(z) : u # b => Alike(y.bp[u], z.bp[u])
<1> DEFINE f == Typed(z.bp[b], t)
           y == set_breakpoint_type(z, b, t)
<1>1. PICK n : Out(z, n, {})
  BY DEF Good
<1>2. Sized(z, n) /\ b \in Held(z) /\ b \in Ids(z) /\ z.bp[b] \in Entry /\ Valid(z, b)
  BY <1>1, SizedIs, HeldIsValid DEF Out, Held
<1>3. CASE f = z.bp[b]
  <2>1. y = z
    BY <1>3 DEF set_breakpoint_type
  <2>2. z.bp[b].kind = t.kind /\ z.bp[b].physical = t.physical /\ z.bp[b].disabled = t.disabled
    BY <1>2, <1>3, TypedIs
  <2> HIDE DEF y
  <2> QED
    BY <1>2, <2>1, <2>2 DEF Aside, Alike, Holds, y
<1>4. CASE f # z.bp[b]
  <2> DEFINE x == bp_rem(z, b)
             e == Typed(x.bp[b], t)
             w == [x EXCEPT !.bp[b] = Typed(@, t)]
  <2>1. y = bp_add(w, b)
    BY <1>2, <1>4 DEF set_breakpoint_type
  <2> HIDE DEF x, y, f
  <2>2. /\ Out(x, n, {b}) /\ Aside(x, z)
        /\ Ids(x) = Ids(z) /\ Held(x) = Held(z) /\ x.bp[b].prev = z.bp[b].prev
        /\ \A u \in Ids(z) : Alike(x.bp[u], z.bp[u])
    BY <1>1, <1>2, Departs DEF x
  <2>3. Sized(x, n) /\ x.free \in Nat /\ x \in Arrays(0..(n - 1)) /\ b \in Ids(x)
        /\ x.bp[b] \in Entry
    BY <1>2, <2>2, SizedIs DEF Out
  <2>4. /\ e \in Entry /\ e.kind = t.kind /\ e.physical = t.physical /\ e.disabled = t.disabled
        /\ e.span = x.bp[b].span /\ e.test = x.bp[b].test /\ e.prev = x.bp[b].prev
        /\ e.kind # "none"
    BY <2>3, TypedIs
  <2>5. w = Written(x, b, e, x.free)
    <3>1. x.bp \in [0..(n - 1) -> Entry]
      BY <2>3, SizedIs
    <3>2. w = [x EXCEPT !.bp[b] = e]
      BY <2>3, <3>1 DEF Arrays
    <3> HIDE DEF w, e
    <3> QED
      BY <2>3, <3>2 DEF Written, Arrays
  <2> HIDE DEF w, e
  <2>6. /\ Sized(w, n) /\ Aside(w, x) /\ w.head = x.head /\ w.free = x.free
        /\ w.bp[b] = e /\ \A u \in Ids(x) : u # b => w.bp[u] = x.bp[u]
    BY <2>3, <2>4, <2>5, EntryWritten
  <2>7. Out(w, n, {b})
    <3>1. \A u \in Ids(x) : u # b => /\ Alike(w.bp[u], x.bp[u])
                                     /\ w.bp[u].next = x.bp[u].next
                                     /\ w.bp[u].prev = x.bp[u].prev
      BY <2>6 DEF Alike
    <3> QED
      BY <2>2, <2>6, <3>1, OutKept
  <2>8. Ids(w) = Ids(x) /\ b \in Ids(w)
    BY <2>3, <2>6, SizedIs
  <2>9. Held(w) = Held(z)
    <3>1. \A u : u \in Held(w) <=> u \in Held(x)
      BY <1>2, <2>2, <2>4, <2>6, <2>8 DEF Held
    <3> QED
      BY <2>2, <3>1 DEF Held
  <2>10. w.bp[b].kind # "none" /\ w.bp[b].prev = 0
    BY <1>4, <2>2, <2>4, <2>6 DEF f
  <2>11. /\ Out(y, n, {}) /\ Aside(y, w) /\ Held(y) = Held(w)
         /\ \A u \in Ids(w) : Alike(y.bp[u], w.bp[u])
    BY <2>1, <2>7, <2>8, <2>10, Joins
  <2>12. Good(y) /\ Aside(y, z)
    BY <2>2, <2>6, <2>11 DEF Good, Aside
  <2>13. Holds(y, b, t, z.bp[b].span, z.bp[b].test)
    <3>1. Alike(y.bp[b], e) /\ Alike(x.bp[b], z.bp[b]) /\ b \in Held(y)
      BY <1>2, <2>2, <2>6, <2>8, <2>9, <2>11
    <3> QED
      BY <2>4, <3>1 DEF Alike, Holds
  <2>14. ASSUME NEW u \in Held(z), u # b PROVE Alike(y.bp[u], z.bp[u])
    <3>1. u \in Ids(z) /\ u \in Ids(x) /\ u \in Ids(w)
      BY <2>2, <2>8 DEF Held
    <3>2. Alike(y.bp[u], w.bp[u]) /\ w.bp[u] = x.bp[u] /\ Alike(x.bp[u], z.bp[u])
      BY <2>2, <2>6, <2>11, <2>14, <3>1
    <3> QED
      BY <3>2 DEF Alike
  <2> QED
    BY <2>9, <2>11, <2>12, <2>13, <2>14 DEF y
<1> QED
  BY <1>3, <1>4

\* The lists depend on types, next and prev only.
LEMMA SameArray ==
    ASSUME NEW z, NEW n, Out(z, n, {}), NEW y, Sized(y, n), y.head = z.head, y.free = z.free,
           \A u \in Ids(z) : /\ y.bp[u].kind = z.bp[u].kind
                             /\ y.bp[u].physical = z.bp[u].physical
                             /\ y.bp[u].disabled = z.bp[u].disabled
                             /\ y.bp[u].next = z.bp[u].next /\ y.bp[u].prev = z.bp[u].prev
    PROVE  Out(y, n, {}) /\ Held(y) = Held(z)
<1>1. Sized(z, n) /\ Ids(y) = Ids(z)
  BY SizedIs DEF Out
<1>2. \A u \in Ids(z) : bp_head(y.bp[u]) = bp_head(z.bp[u])
  BY DEF bp_head
<1>3. ASSUME NEW k PROVE On(y, k) = On(z, k)
  BY <1>1, <1>2 DEF On
<1>4. Held(y) = Held(z) /\ Unused(y) = Unused(z)
  BY <1>1 DEF Held, Unused
<1>5. ASSUME NEW k \in BpLists PROVE Linked(y.bp, y.head[k], On(y, k) \ {})
  <2> DEFINE T == On(z, k) \ {}
  <2>1. Linked(z.bp, z.head[k], T)
    BY DEF Out
  <2>2. \A u \in T : y.bp[u].next = z.bp[u].next /\ y.bp[u].prev = z.bp[u].prev
    BY DEF On
  <2>3. On(y, k) \ {} = T
    BY <1>3
  <2> HIDE DEF T
  <2> QED
    BY <2>1, <2>2, <2>3, LinkedKept
<1>6. Stacked(y.bp, y.free, Unused(y) \ {})
  <2> DEFINE T == Unused(z) \ {}
  <2>1. Stacked(z.bp, z.free, T)
    BY DEF Out
  <2>2. \A u \in T : y.bp[u].next = z.bp[u].next
    BY DEF Unused
  <2>3. Unused(y) \ {} = T
    BY <1>4
  <2> HIDE DEF T
  <2> QED
    BY <2>1, <2>2, <2>3, StackedKept
<1> QED
  BY <1>4, <1>5, <1>6 DEF Out

\* tilem_z80_set_breakpoint_address_start() and _end().
LEMMA Readdresses ==
    ASSUME NEW z, Good(z), NEW b \in Held(z), NEW span \in SUBSET Nat
    PROVE  LET y == set_breakpoint_address(z, b, span)
           IN  /\ Good(y) /\ Aside(y, z) /\ Held(y) = Held(z)
               /\ Holds(y, b, z.bp[b], span, z.bp[b].test)
               /\ \A u \in Held(z) : u # b => y.bp[u] = z.bp[u]
<1> DEFINE y == set_breakpoint_address(z, b, span)
           e == [z.bp[b] EXCEPT !.span = span]
<1>1. PICK n : Out(z, n, {})
  BY DEF Good
<1>2. Sized(z, n) /\ b \in Ids(z) /\ z.bp[b] \in Entry /\ Valid(z, b)
      /\ z.free \in Nat /\ z \in Arrays(0..(n - 1)) /\ z.bp \in [0..(n - 1) -> Entry]
  BY <1>1, SizedIs, HeldIsValid DEF Out, Held
<1>3. y = [z EXCEPT !.bp[b].span = span]
  BY <1>2 DEF set_breakpoint_address
<1>4. y = Written(z, b, e, z.free)
  <2>1. y = [z EXCEPT !.bp[b] = e]
    BY <1>2, <1>3 DEF Arrays
  <2> HIDE DEF y, e
  <2> QED
    BY <1>2, <2>1 DEF Written, Arrays
<1> HIDE DEF y
<1>5. /\ e \in Entry /\ e.kind = z.bp[b].kind /\ e.physical = z.bp[b].physical
      /\ e.disabled = z.bp[b].disabled /\ e.span = span /\ e.test = z.bp[b].test
      /\ e.next = z.bp[b].next /\ e.prev = z.bp[b].prev
  <2>1. e = [z.bp[b] EXCEPT !.span = span]
    OBVIOUS
  <2> DEFINE f == z.bp[b]
  <2> HIDE DEF e, f
  <2>2. f \in Entry /\ e = [f EXCEPT !.span = span]
    BY <1>2, <2>1 DEF f
  <2>3. /\ e \in Entry /\ e.kind = f.kind /\ e.physical = f.physical
        /\ e.disabled = f.disabled /\ e.span = span /\ e.test = f.test
        /\ e.next = f.next /\ e.prev = f.prev
    BY <2>2 DEF Entry
  <2> QED
    BY <2>3 DEF f
<1> HIDE DEF e
<1>6. /\ Sized(y, n) /\ Aside(y, z) /\ y.head = z.head /\ y.free = z.free
      /\ y.bp[b] = e /\ \A u \in Ids(z) : u # b => y.bp[u] = z.bp[u]
  BY <1>2, <1>4, <1>5, EntryWritten
<1>7. \A u \in Ids(z) : /\ y.bp[u].kind = z.bp[u].kind
                        /\ y.bp[u].physical = z.bp[u].physical
                        /\ y.bp[u].disabled = z.bp[u].disabled
                        /\ y.bp[u].next = z.bp[u].next /\ y.bp[u].prev = z.bp[u].prev
  BY <1>5, <1>6
<1>8. Out(y, n, {}) /\ Held(y) = Held(z)
  BY <1>1, <1>6, <1>7, SameArray
<1>9. Holds(y, b, z.bp[b], span, z.bp[b].test)
  BY <1>5, <1>6, <1>8 DEF Holds
<1>10. \A u \in Held(z) : u # b => y.bp[u] = z.bp[u]
  BY <1>6 DEF Held
<1> QED
  BY <1>6, <1>8, <1>9, <1>10 DEF Good, y

\* The step that is taken, and where it ends.
Marked(z, step, dest, exit) == [z EXCEPT !.step = step, !.dest = dest, !.exit = exit]

SameTable(y, z) ==
    /\ Good(y) /\ y.bp = z.bp /\ y.head = z.head /\ y.free = z.free /\ Held(y) = Held(z)

LEMMA Marks ==
    ASSUME NEW z, Good(z), NEW step \in Nat, NEW dest \in Nat, NEW exit \in Nat
    PROVE  LET y == Marked(z, step, dest, exit)
           IN  SameTable(y, z) /\ y.step = step /\ y.dest = dest /\ y.exit = exit
<1> DEFINE y == Marked(z, step, dest, exit)
<1>1. PICK n : Out(z, n, {})
  BY DEF Good
<1> DEFINE D == 0..(n - 1)
<1>2. Sized(z, n) /\ z \in Arrays(D) /\ n \in Nat
  BY <1>1, SizedIs DEF Out
<1> HIDE DEF D
<1>3. /\ y.bp = z.bp /\ y.head = z.head /\ y.free = z.free
      /\ y.step = step /\ y.dest = dest /\ y.exit = exit /\ y \in Arrays(D)
  BY <1>2 DEF Marked, Arrays
<1> HIDE DEF y
<1>4. Sized(y, n)
  BY <1>2, <1>3 DEF Sized, D
<1>5. Out(y, n, {}) /\ Held(y) = Held(z)
  BY <1>1, <1>3, <1>4, SameArray
<1> QED
  BY <1>3, <1>5 DEF Good, y, SameTable

LEMMA GoodTyped ==
    ASSUME NEW z, Good(z)
    PROVE  /\ z.step \in Nat /\ z.dest \in Nat /\ z.exit \in Nat
           /\ \A step : [z EXCEPT !.step = step] = Marked(z, step, z.dest, z.exit)
           /\ \A b \in Held(z) : b \in Nat /\ b # 0 /\ z.bp[b] \in Entry
                                 /\ z.bp[b].kind # "none" /\ bp_head(z.bp[b]) \in BpLists
<1>1. PICK n : Out(z, n, {})
  BY DEF Good
<1>2. Sized(z, n) /\ z \in Arrays(0..(n - 1))
  BY <1>1, SizedIs DEF Out
<1>3. z.step \in Nat /\ z.dest \in Nat /\ z.exit \in Nat
  BY <1>2, SizedIs
<1>4. ASSUME NEW step PROVE [z EXCEPT !.step = step] = Marked(z, step, z.dest, z.exit)
  BY <1>2 DEF Marked, Arrays
<1>5. ASSUME NEW b \in Held(z)
      PROVE  b \in Nat /\ b # 0 /\ z.bp[b] \in Entry
             /\ z.bp[b].kind # "none" /\ bp_head(z.bp[b]) \in BpLists
  <2>1. b \in Ids(z) /\ z.bp[b].kind # "none"
    BY DEF Held
  <2> QED
    BY <1>2, <2>1, SizedIs, Listed
<1> QED
  BY <1>3, <1>4, <1>5

\* The lists that the property is about.
LEMMA GoodLists ==
    ASSUME NEW z, Good(z)
    PROVE  ListsLinked(z)
<1>1. PICK n : Out(z, n, {})
  BY DEF Good
<1> DEFINE ids == DOMAIN z.bp \ {0}
<1>2. Sized(z, n) /\ ids = Ids(z)
  BY <1>1 DEF Out, Ids
<1>3. \A b : b \in ids => (Valid(z, b) <=> z.bp[b].kind # "none")
  BY DEF Valid
<1>4. \A l : {b \in ids : Valid(z, b) /\ bp_head(z.bp[b]) = l} = On(z, l)
  BY <1>2, <1>3 DEF On
<1>5. {b \in ids : ~Valid(z, b)} = Unused(z)
  BY <1>2, <1>3 DEF Unused
<1>6. ASSUME NEW l \in BpLists
      PROVE  /\ Chain(z, z.head[l]).at = 0
             /\ Chain(z, z.head[l]).seen = {b \in ids : Valid(z, b) /\ bp_head(z.bp[b]) = l}
             /\ z.head[l] # 0 => z.bp[z.head[l]].prev = 0
  <2>1. On(z, l) \ {} = On(z, l) /\ On(z, l) \in SUBSET Ids(z)
    BY DEF On
  <2>2. Linked(z.bp, z.head[l], On(z, l))
    BY <1>1, <2>1 DEF Out
  <2>3. Chain(z, z.head[l]) = [at |-> 0, seen |-> On(z, l)]
    BY <1>2, <2>1, <2>2, ChainIs DEF Linked
  <2> QED
    BY <1>4, <2>2, <2>3 DEF Linked
<1>7. ASSUME NEW b \in ids, Valid(z, b), z.bp[b].next # 0 PROVE z.bp[z.bp[b].next].prev = b
  <2> DEFINE l == bp_head(z.bp[b])
  <2>1. z.bp[b] \in Entry /\ z.bp[b].kind # "none"
    BY <1>2, <1>3, <1>7, SizedIs
  <2>2. l \in BpLists /\ b \in On(z, l)
    BY <1>2, <2>1, Listed DEF On
  <2>3. Linked(z.bp, z.head[l], On(z, l) \ {}) /\ b \in On(z, l) \ {}
    BY <1>1, <2>2 DEF Out
  <2> HIDE DEF l
  <2> QED
    BY <1>7, <2>3 DEF Linked
<1>8. Chain(z, z.free) = [at |-> 0, seen |-> Unused(z)]
  <2>1. Unused(z) \ {} = Unused(z) /\ Unused(z) \in SUBSET Ids(z)
    BY DEF Unused
  <2>2. Stacked(z.bp, z.free, Unused(z))
    BY <1>1, <2>1 DEF Out
  <2> QED
    BY <1>2, <2>1, <2>2, ChainIs
<1> QED
  BY <1>5, <1>6, <1>7, <1>8 DEF ListsLinked

-----------------------------------------------------------------------------
(* What an instruction meets.                                              *)

Passive == {"none", "step", "finish"}

LEMMA PassiveIs ==
    ASSUME NEW y, NEW b, NEW c, y.bp[b].test \in Passive
    PROVE  Tested(y, b, c).z = y /\ (y.bp[b].test = "none" => Tested(y, b, c).ok)
BY DEF Tested, Passive

\* A walk past tests that change nothing.
LEMMA Walked ==
    ASSUME NEW y, Good(y), NEW list \in BpLists, NEW h, NEW a, NEW c,
           \A b \in On(y, list) : a \in y.bp[b].span => y.bp[b].test \in Passive
    PROVE  check_breakpoints(Walking(y, h), list, a, c)
              = Walking(y, h \cup Stopped(list, Met(y, On(y, list), a, c)))
<1> DEFINE S == On(y, list)
<1>1. PICK n : Out(y, n, {})
  BY DEF Good
<1>2. Sized(y, n) /\ S \in SUBSET Ids(y) /\ S \ {} = S
  BY <1>1 DEF Out, On
<1>3. Stacked(y.bp, y.head[list], S)
  BY <1>1, <1>2 DEF Out, Linked
<1>4. \A b \in S : a \in y.bp[b].span => Tested(y, b, c).z = y
  BY PassiveIs
<1> HIDE DEF S
<1>5. check_breakpoints(Walking(y, h), list, a, c)
         = Walking(y, h \cup Stopped(list, Met(y, S, a, c)))
  BY <1>2, <1>3, <1>4, WalkIs
<1> QED
  BY <1>5 DEF S

\* The step, an entry for opcodes, is replaced by one for an address.
Replaced(y, b, x) ==
    /\ Good(x) /\ x.step = b /\ Held(x) = Held(y)
    /\ b \in On(x, "mx") /\ x.bp[b].test = "none"
    /\ \A u \in Held(y) : u # b => Alike(x.bp[u], y.bp[u])

LEMMA StepsOver ==
    ASSUME NEW y, Good(y), NEW b \in Held(y), b = y.step, NEW c, c.pc \in Nat
    PROVE  Replaced(y, b, step_over(y, c))
<1> DEFINE r == remove_breakpoint(y, b)
           span == {IF c.kind \in Leaves THEN c.pc ELSE y.dest}
           a == add_breakpoint(r, Exec, span, "none")
           x == step_over(y, c)
<1>1. y.dest \in Nat /\ b # 0
  BY GoodTyped
<1>2. /\ Good(r) /\ Aside(r, y) /\ Held(r) = Held(y) \ {b} /\ r.free = b
      /\ \A u \in Held(r) : Alike(r.bp[u], y.bp[u])
  BY Removes DEF Removed
<1>3. span \in SUBSET Nat /\ Exec \in Types /\ "none" \in Tests
  BY <1>1 DEF Exec, Types, Kinds, Tests
<1>4. x = [a.z EXCEPT !.step = a.id]
  BY <1>1 DEF step_over
<1> HIDE DEF r, span
<1>5. /\ Good(a.z) /\ Held(a.z) = Held(r) \cup {a.id} /\ a.id \in Nat
      /\ Holds(a.z, a.id, Exec, span, "none")
      /\ (\A u \in Held(r) : Alike(a.z.bp[u], r.bp[u]))
      /\ (r.free # 0 => a.id = r.free)
  <2>1. Added(r, a, Exec, span, "none")
    BY <1>2, <1>3, Adds
  <2> HIDE DEF a
  <2> QED
    BY <2>1 DEF Added
<1>6. a.id = b
  BY <1>1, <1>2, <1>5
<1> DEFINE e == a.z
<1> HIDE DEF a, x
<1>7. x = Marked(e, b, e.dest, e.exit) /\ e.dest \in Nat /\ e.exit \in Nat
  <2>1. e.dest \in Nat /\ e.exit \in Nat
    BY <1>5, GoodTyped
  <2>2. [e EXCEPT !.step = b] = Marked(e, b, e.dest, e.exit)
    BY <1>5, GoodTyped
  <2> QED
    BY <1>4, <1>6, <2>1, <2>2
<1>8. Good(x) /\ x.bp = e.bp /\ x.step = b /\ Held(x) = Held(e)
  <2> HIDE DEF e
  <2>1. Good(e) /\ b \in Nat /\ e.dest \in Nat /\ e.exit \in Nat
    BY <1>5, <1>6, <1>7 DEF e
  <2>2. SameTable(Marked(e, b, e.dest, e.exit), e) /\ Marked(e, b, e.dest, e.exit).step = b
    BY <2>1, Marks
  <2> QED
    BY <1>7, <2>2 DEF SameTable
<1>9. Held(x) = Held(y)
  BY <1>2, <1>5, <1>6, <1>8
<1>10. b \in On(x, "mx") /\ x.bp[b].test = "none"
  <2>1. Holds(x, b, Exec, span, "none")
    BY <1>5, <1>6, <1>8 DEF Holds
  <2>2. bp_head(x.bp[b]) = bp_head(Exec) /\ b \in Held(x) /\ x.bp[b].test = "none"
    BY <2>1 DEF Holds, bp_head
  <2>3. bp_head(Exec) = "mx"
    BY DEF Exec, bp_head
  <2> QED
    BY <2>2, <2>3 DEF On, Held
<1>11. ASSUME NEW u \in Held(y), u # b PROVE Alike(x.bp[u], y.bp[u])
  BY <1>2, <1>5, <1>8, <1>11 DEF Alike
<1> QED
  BY <1>8, <1>9, <1>10, <1>11 DEF Replaced, x

\* The lists that a walk of the opcodes goes along that meets the step: until
\* then that of the opcodes, from then on what follows the entry that replaces
\* the step, in the list of the addresses executed.
Between(y, x, b, P, Q) ==
    /\ 0 \notin P \cup Q /\ y.head["op"] \in P \cup {0} /\ b \in P /\ P \cap Q = {}
    /\ P \subseteq On(y, "op") /\ Q \subseteq On(y, "mx") /\ Q \subseteq Held(x)
    /\ \A u \in P : u # b => y.bp[u].next \in P \cup {0}
    /\ \A u \in Q \cup {b} : x.bp[u].next \in Q \cup {0}
Along(y, x, b, P, Q) == [u \in P \cup Q |-> IF u \in P /\ u # b THEN y.bp[u] ELSE x.bp[u]]

LEMMA DetourThere ==
    ASSUME NEW y, Good(y), NEW b \in On(y, "op"), NEW x, Replaced(y, b, x)
    PROVE  \E P, Q : /\ Between(y, x, b, P, Q)
                     /\ Descends(Along(y, x, b, P, Q), y.head["op"], P \cup Q)
<1> DEFINE P == On(y, "op")
           X == On(x, "mx")
<1>1. PICK n : Out(y, n, {})
  BY DEF Good
<1>2. PICK m : Out(x, m, {})
  BY DEF Replaced, Good
<1>3. Stacked(y.bp, y.head["op"], P) /\ Stacked(x.bp, x.head["mx"], X)
  <2>1. P \ {} = P /\ X \ {} = X /\ "op" \in BpLists /\ "mx" \in BpLists
    BY DEF On, BpLists
  <2> HIDE DEF P, X
  <2> QED
    BY <1>1, <1>2, <2>1 DEF Out, Linked, P, X
<1>4. PICK r : Falls(y.bp, P, r)
  BY <1>3 DEF Stacked
<1>5. PICK q : Falls(x.bp, X, q)
  BY <1>3 DEF Stacked
<1> DEFINE Q == {v \in X : q[v] < q[b]}
           B == Along(y, x, b, P, Q)
           R == [u \in P \cup Q |-> IF u \in P THEN r[u] + q[b] ELSE q[u]]
<1>6. b \in P /\ b \in X /\ 0 \notin P /\ 0 \notin X
  BY <1>3 DEF Replaced, Stacked
<1>a. /\ \A u \in P : r[u] \in Nat /\ (y.bp[u].next # 0 => y.bp[u].next \in P /\ r[y.bp[u].next] < r[u])
      /\ \A u \in X : q[u] \in Nat /\ (x.bp[u].next # 0 => x.bp[u].next \in X /\ q[x.bp[u].next] < q[u])
  BY <1>4, <1>5 DEF Falls
<1>7. ASSUME NEW v \in X, v # b PROVE v \in On(y, "mx")
  <2>1. v \in Held(y) /\ Alike(x.bp[v], y.bp[v]) /\ bp_head(x.bp[v]) = "mx"
    BY <1>7 DEF Replaced, On, Held
  <2>2. bp_head(y.bp[v]) = "mx"
    BY <2>1 DEF Alike, bp_head
  <2> QED
    BY <2>1, <2>2 DEF On, Held
<1>p. P = On(y, "op") /\ X \subseteq Held(x)
  BY DEF On, Held
<1>h. y.head["op"] \in P \cup {0}
  BY <1>3 DEF Stacked
<1>o. P \cap On(y, "mx") = {}
  BY DEF On
<1> HIDE DEF P, X
<1>8. Q \subseteq X /\ b \notin Q /\ \A u \in Q : q[u] < q[b]
  BY <1>6, <1>a
<1>9. \A u \in Q \cup {b} :
         x.bp[u].next # 0 => x.bp[u].next \in Q /\ q[x.bp[u].next] < q[u]
  <2> SUFFICES ASSUME NEW u \in Q \cup {b}, x.bp[u].next # 0
               PROVE  x.bp[u].next \in Q /\ q[x.bp[u].next] < q[u]
    OBVIOUS
  <2>1. u \in X /\ q[u] <= q[b] /\ q[u] \in Nat /\ q[b] \in Nat
    BY <1>6, <1>8, <1>a
  <2>2. x.bp[u].next \in X /\ q[x.bp[u].next] < q[u] /\ q[x.bp[u].next] \in Nat
    BY <1>a, <2>1
  <2> QED
    BY <2>1, <2>2
<1>10. \A v \in Q : v \in On(y, "mx")
  BY <1>7, <1>8
<1> HIDE DEF Q
<1>11. Between(y, x, b, P, Q)
  <2>1. P \cap Q = {}
    BY <1>10, <1>o
  <2> QED
    BY <1>6, <1>8, <1>9, <1>10, <1>a, <1>h, <1>p, <2>1 DEF Between
<1>12. Falls(B, P \cup Q, R)
  <2>1. \A u \in P \cup Q : R[u] \in Nat /\ R[u] = IF u \in P THEN r[u] + q[b] ELSE q[u]
    BY <1>6, <1>8, <1>a
  <2>2. R \in [P \cup Q -> Nat]
    <3>1. R = [u \in P \cup Q |-> R[u]]
      OBVIOUS
    <3> HIDE DEF R
    <3> QED
      BY <2>1, <3>1
  <2>3. \A u \in P \cup Q : B[u] = IF u \in P /\ u # b THEN y.bp[u] ELSE x.bp[u]
    BY DEF Along
  <2> HIDE DEF R, B
  <2>4. ASSUME NEW u \in P \cup Q, B[u].next # 0
        PROVE  B[u].next \in P \cup Q /\ R[B[u].next] < R[u]
    <3>1. CASE u \in P /\ u # b
      <4>1. y.bp[u].next \in P /\ r[y.bp[u].next] < r[u] /\ r[y.bp[u].next] \in Nat /\ r[u] \in Nat
        BY <1>a, <2>3, <2>4, <3>1
      <4>2. R[y.bp[u].next] = r[y.bp[u].next] + q[b] /\ R[u] = r[u] + q[b] /\ q[b] \in Nat
        BY <1>6, <1>a, <2>1, <3>1, <4>1
      <4>3. R[y.bp[u].next] < R[u]
        <5> DEFINE i == r[y.bp[u].next]
                   k == r[u]
        <5> HIDE DEF i, k
        <5>1. i \in Nat /\ k \in Nat /\ i < k /\ q[b] \in Nat
          BY <4>1, <4>2 DEF i, k
        <5>2. i + q[b] < k + q[b]
          BY <5>1
        <5> QED
          BY <4>2, <5>2 DEF i, k
      <4> QED
        BY <2>3, <3>1, <4>1, <4>3
    <3>2. CASE u = b
      <4>1. B[u] = x.bp[b]
        BY <2>3, <3>2
      <4>2. x.bp[b].next \in Q /\ q[x.bp[b].next] < q[b] /\ x.bp[b].next \notin P
        BY <1>9, <1>11, <2>4, <3>2, <4>1 DEF Between
      <4>3. R[x.bp[b].next] = q[x.bp[b].next] /\ R[b] = r[b] + q[b]
            /\ r[b] \in Nat /\ q[b] \in Nat /\ q[x.bp[b].next] \in Nat
        BY <1>6, <1>8, <1>a, <2>1, <4>2
      <4>4. R[x.bp[b].next] < R[b]
        <5> DEFINE i == q[x.bp[b].next]
                   k == q[b]
                   j == r[b]
        <5> HIDE DEF i, k, j
        <5>1. i \in Nat /\ k \in Nat /\ j \in Nat /\ i < k
          BY <4>2, <4>3 DEF i, k, j
        <5>2. i < j + k
          BY <5>1
        <5> QED
          BY <4>3, <5>2 DEF i, k, j
      <4> QED
        BY <3>2, <4>1, <4>2, <4>4
    <3>3. CASE u \in Q
      <4>1. u \notin P
        BY <1>11, <3>3 DEF Between
      <4>2. B[u] = x.bp[u] /\ R[u] = q[u]
        BY <2>1, <2>3, <4>1
      <4>3. x.bp[u].next \in Q /\ q[x.bp[u].next] < q[u]
        BY <1>9, <2>4, <3>3, <4>2
      <4>4. x.bp[u].next \notin P
        BY <1>11, <4>3 DEF Between
      <4>5. R[x.bp[u].next] = q[x.bp[u].next]
        BY <2>1, <4>3, <4>4
      <4> QED
        BY <4>2, <4>3, <4>5
    <3> QED
      BY <3>1, <3>2, <3>3
  <2> QED
    BY <2>2, <2>4 DEF Falls
<1>13. Descends(B, y.head["op"], P \cup Q)
  <2>1. 0 \notin P \cup Q /\ y.head["op"] \in (P \cup Q) \cup {0}
    BY <1>11 DEF Between
  <2> HIDE DEF B, R
  <2> QED
    BY <1>12, <2>1 DEF Descends
<1> QED
  BY <1>11, <1>13

\* A walk of the opcodes that meets the step.
Detoured(y, b, x, r, h) ==
    /\ r = Walking(r.z, r.hits) /\ r.z \in {y, x} /\ h \subseteq r.hits
    /\ r.hits \subseteq h \cup Stopped("op", (On(y, "op") \cup On(y, "mx")) \ {b})

\* Where such a walk is, of which d is the path.
Through(y, U, a) == {u \in U : a \in y.bp[u].span}
Straying(y, x, b, a, h, d) ==
    [z |-> IF b \in d.seen THEN x ELSE y, at |-> d.at,
     hits |-> h \cup Stopped("op", Through(y, d.seen \ {b}, a))]


\* An access meets a step over, that is replaced by that of x.
Meets(y, b, x, c, a) ==
    /\ b \in Held(y) /\ b = y.step /\ y.bp[b].test = "over" /\ a \in y.bp[b].span
    /\ \A u \in Held(y) : u # b => y.bp[u].test = "none"
    /\ x = step_over(y, c) /\ Replaced(y, b, x)

Reaches(d, b, P, Q) == d.at \in (IF b \in d.seen THEN Q ELSE P) \cup {0}

LEMMA StraysOn ==
    ASSUME NEW y, NEW b, NEW x, NEW c, NEW a, Meets(y, b, x, c, a),
           NEW P, NEW Q, Between(y, x, b, P, Q), NEW h, NEW d,
           d.at \notin d.seen, Reaches(d, b, P, Q),
           NEW v, v = Straying(y, x, b, a, h, d), NEW e, e = Beyond(Along(y, x, b, P, Q), d)
    PROVE  /\ Reaches(e, b, P, Q)
           /\ Straying(y, x, b, a, h, e) = Onward(v, "op", a, c)
<1> DEFINE u == d.at
           t == IF a \in v.z.bp[u].span THEN Tested(v.z, u, c) ELSE [ok |-> FALSE, z |-> v.z]
           f == Visit(v, "op", a, c)
<1>m. /\ b = y.step /\ y.bp[b].test = "over" /\ a \in y.bp[b].span
      /\ \A w \in Held(y) : w # b => y.bp[w].test = "none"
      /\ x = step_over(y, c) /\ Replaced(y, b, x)
  BY DEF Meets
<1>v. /\ v.at = u /\ v.z = (IF b \in d.seen THEN x ELSE y)
      /\ v.hits = h \cup Stopped("op", Through(y, d.seen \ {b}, a))
  BY DEF Straying
<1>1. CASE u = 0
  <2>1. e = d /\ v.at = 0
    BY <1>1, <1>v DEF Beyond, Onward
  <2> QED
    BY <1>1, <2>1 DEF Onward
<1>2. CASE u # 0
  <2>1. u \in P \cup Q
    BY <1>2 DEF Reaches
  <2>2. /\ e = [at |-> Along(y, x, b, P, Q)[u].next, seen |-> d.seen \cup {u}]
        /\ Along(y, x, b, P, Q)[u] = (IF u \in P /\ u # b THEN y.bp[u] ELSE x.bp[u])
    BY <1>2, <2>1 DEF Beyond, Along
  <2>3. f = [z |-> t.z, at |-> t.z.bp[u].next,
             hits |-> IF t.ok THEN v.hits \cup {<<"op", u>>} ELSE v.hits]
    BY <1>v DEF Visit
  <2>4. /\ e.at = (IF u \in P /\ u # b THEN y.bp[u].next ELSE x.bp[u].next)
        /\ e.seen = d.seen \cup {u}
    BY <2>2
  <2>6. u \in (IF b \in d.seen THEN Q ELSE P)
    BY <1>2 DEF Reaches
  <2>7. b \in P /\ P \cap Q = {}
    BY DEF Between
  <2>s. Straying(y, x, b, a, h, e) = [z |-> IF b \in e.seen THEN x ELSE y, at |-> e.at,
                                      hits |-> h \cup Stopped("op", Through(y, e.seen \ {b}, a))]
    BY DEF Straying
  <2> HIDE DEF f
  <2>8. CASE u = b
    <3>1. b \notin d.seen /\ v.z = y
      BY <1>v, <2>8
    <3>2. t = [ok |-> FALSE, z |-> x]
      BY <1>m, <2>8, <3>1 DEF Tested
    <3> HIDE DEF t
    <3>3. f = [z |-> x, at |-> x.bp[b].next, hits |-> v.hits]
      BY <2>3, <2>8, <3>2
    <3>4. x.bp[b].next \in Q \cup {0}
      BY DEF Between
    <3>5. e.at = x.bp[b].next /\ b \in e.seen /\ e.seen \ {b} = d.seen \ {b}
      BY <2>4, <2>8
    <3>6. Straying(y, x, b, a, h, e) = f
      BY <1>v, <2>s, <3>3, <3>5
    <3> QED
      BY <1>2, <1>v, <3>4, <3>5, <3>6 DEF f, Reaches, Onward
  <2>9. CASE u # b
    <3>1. t.z = v.z /\ (t.ok <=> a \in y.bp[u].span)
      <4>1. CASE b \in d.seen
        <5>1. u \in Held(x) /\ v.z = x
          BY <1>v, <2>6, <4>1 DEF Between
        <5>2. Alike(x.bp[u], y.bp[u]) /\ y.bp[u].test = "none"
          BY <1>m, <2>9, <5>1 DEF Replaced
        <5>3. x.bp[u].test = "none" /\ x.bp[u].span = y.bp[u].span
          BY <5>2 DEF Alike
        <5> QED
          BY <5>1, <5>3 DEF Tested
      <4>2. CASE b \notin d.seen
        <5>1. u \in Held(y) /\ v.z = y
          BY <1>v, <2>6, <4>2 DEF Between, On, Held
        <5>2. y.bp[u].test = "none"
          BY <1>m, <2>9, <5>1
        <5> QED
          BY <5>1, <5>2 DEF Tested
      <4> QED
        BY <4>1, <4>2
    <3> DEFINE g == IF t.ok THEN v.hits \cup {<<"op", u>>} ELSE v.hits
    <3>2. g = h \cup Stopped("op", Through(y, e.seen \ {b}, a))
      <4>1. e.seen \ {b} = (d.seen \ {b}) \cup {u}
        BY <2>4, <2>9
      <4>2. Through(y, e.seen \ {b}, a)
               = Through(y, d.seen \ {b}, a) \cup (IF t.ok THEN {u} ELSE {})
        <5> HIDE DEF t
        <5> QED
          BY <3>1, <4>1 DEF Through
      <4> DEFINE m == Through(y, d.seen \ {b}, a)
                 k == Through(y, e.seen \ {b}, a)
      <4> HIDE DEF m, k, t, u
      <4>3. k = m \cup (IF t.ok THEN {u} ELSE {}) /\ v.hits = h \cup Stopped("op", m)
        BY <1>v, <4>2 DEF m, k
      <4>4. Stopped("op", k) = Stopped("op", m) \cup (IF t.ok THEN {<<"op", u>>} ELSE {})
        BY <4>3 DEF Stopped
      <4>5. g = h \cup Stopped("op", k)
        BY <4>3, <4>4
      <4> QED
        BY <4>5 DEF k
    <3>3. f = [z |-> v.z, at |-> v.z.bp[u].next, hits |-> g]
      BY <2>3, <3>1
    <3> HIDE DEF g, t
    <3>5. (b \in e.seen) <=> (b \in d.seen)
      BY <2>4, <2>9
    <3>6. CASE b \in d.seen
      <4>1. u \in Q /\ u \notin P /\ v.z = x
        BY <1>v, <2>6, <2>7, <3>6
      <4>2. e.at = x.bp[u].next /\ x.bp[u].next \in Q \cup {0}
        BY <2>4, <4>1 DEF Between
      <4>3. Straying(y, x, b, a, h, e) = f
        BY <2>s, <3>2, <3>3, <3>5, <3>6, <4>1, <4>2
      <4> QED
        BY <1>2, <1>v, <3>5, <3>6, <4>2, <4>3 DEF f, Reaches, Onward
    <3>7. CASE b \notin d.seen
      <4>1. u \in P /\ v.z = y
        BY <1>v, <2>6, <3>7
      <4>2. e.at = y.bp[u].next /\ y.bp[u].next \in P \cup {0}
        BY <2>4, <2>9, <4>1 DEF Between
      <4>3. Straying(y, x, b, a, h, e) = f
        BY <2>s, <3>2, <3>3, <3>5, <3>7, <4>1, <4>2
      <4> QED
        BY <1>2, <1>v, <3>5, <3>7, <4>2, <4>3 DEF f, Reaches, Onward
    <3> QED
      BY <3>6, <3>7
  <2> QED
    BY <2>8, <2>9
<1> QED
  BY <1>1, <1>2

LEMMA DetourWalked ==
    ASSUME NEW y, Good(y), NEW b \in On(y, "op"), NEW x, NEW c, NEW a, Meets(y, b, x, c, a),
           NEW h
    PROVE  Detoured(y, b, x, check_breakpoints(Walking(y, h), "op", a, c), h)
<1>0. PICK n : Out(y, n, {})
  BY DEF Good
<1>1. PICK P, Q : /\ Between(y, x, b, P, Q)
                  /\ Descends(Along(y, x, b, P, Q), y.head["op"], P \cup Q)
  BY DetourThere DEF Meets
<1> DEFINE w == Walking(y, h)
           head == y.head["op"]
           B == Along(y, x, b, P, Q)
           S == P \cup Q
           View(d) == Straying(y, x, b, a, h, d)
           There(d) == Reaches(d, b, P, Q)
<1>2. b \in Held(y) /\ S \in SUBSET Ids(y)
  BY <1>1 DEF On, Held, Between
<1>3. /\ n \in Nat /\ Cardinality(DOMAIN y.bp) = n
      /\ IsFiniteSet(S) /\ (S # {} => Cardinality(S) < n)
  <2>1. Sized(y, n)
    BY <1>0 DEF Out
  <2> HIDE DEF S
  <2> QED
    BY <1>2, <2>1, FewEnough
<1>4. PICK cc : Walks(cc, B, head, S, n)
  <2> HIDE DEF S, B
  <2> QED
    BY <1>1, <1>3, WalkThere DEF S, B
<1>5. \A k \in 0..n : cc[k].at \notin cc[k].seen
  <2> HIDE DEF S, B
  <2> QED
    BY <1>1, <1>3, <1>4, WalkSees DEF S, B
<1>6. cc[n] \in [at : S \cup {0}, seen : SUBSET S] /\ cc[n].at = 0
  <2> HIDE DEF S, B
  <2> QED
    BY <1>1, <1>3, <1>4, WalkHalts DEF S, B
<1>s. cc[0] = [at |-> head, seen |-> {}] /\ \A k \in 1..n : cc[k] = Beyond(B, cc[k - 1])
  BY <1>4 DEF Walks
<1>7. ASSUME NEW k \in 1..n, There(cc[k - 1])
      PROVE  /\ There(cc[k])
             /\ View(cc[k]) = Onward(View(cc[k - 1]), "op", a, c)
  <2> DEFINE d == cc[k - 1]
             e == cc[k]
             v == View(d)
  <2>1. d.at \notin d.seen /\ e = Beyond(Along(y, x, b, P, Q), d)
    BY <1>3, <1>5, <1>s
  <2>2. Reaches(d, b, P, Q) /\ v = Straying(y, x, b, a, h, d)
    BY <1>7
  <2> HIDE DEF d, e, v
  <2>3. Reaches(e, b, P, Q) /\ Straying(y, x, b, a, h, e) = Onward(v, "op", a, c)
    BY <1>1, <1>2, <2>1, <2>2, StraysOn
  <2> QED
    BY <2>3 DEF d, e, v
<1> DEFINE M == {k \in Nat : k \in 0..n => There(cc[k])}
<1>8. 0 \in M
  BY <1>1, <1>s DEF Between, Reaches
<1>9. ASSUME NEW k \in Nat, k \in M PROVE k + 1 \in M
  <2> SUFFICES ASSUME k + 1 \in 0..n PROVE There(cc[k + 1])
    OBVIOUS
  <2>1. k \in 0..n /\ k + 1 \in 1..n /\ (k + 1) - 1 = k
    BY <1>3
  <2> HIDE DEF There, View
  <2>2. There(cc[k])
    BY <1>9, <2>1
  <2> QED
    BY <1>7, <2>1, <2>2
<1> HIDE DEF M
<1>10. Nat \subseteq M
  BY <1>8, <1>9, Induct
<1> HIDE DEF There
<1>11. \A k \in 0..n : There(cc[k])
  <2>1. \A k \in 0..n : k \in M
    BY <1>3, <1>10
  <2> QED
    BY <2>1 DEF M
<1> DEFINE g == [k \in 0..n |-> View(cc[k])]
<1>12. /\ g[0] = [w EXCEPT !.at = w.z.head["op"]]
       /\ \A k \in 1..n : g[k] = Onward(g[k - 1], "op", a, c)
  <2>1. g[0] = View(cc[0])
    BY <1>3
  <2>2. Stopped("op", Through(y, {} \ {b}, a)) = {}
    BY DEF Stopped, Through
  <2>3. View([at |-> head, seen |-> {}]) = [z |-> y, at |-> head, hits |-> h]
    BY <2>2 DEF Straying
  <2>4. [w EXCEPT !.at = w.z.head["op"]] = [z |-> y, at |-> head, hits |-> h]
    BY DEF Walking
  <2>5. ASSUME NEW k \in 1..n
        PROVE  g[k] = Onward(g[k - 1], "op", a, c)
    <3>1. k \in 0..n /\ k - 1 \in 0..n
      BY <1>3
    <3>2. g[k] = View(cc[k]) /\ g[k - 1] = View(cc[k - 1])
      BY <3>1
    <3> HIDE DEF View, g
    <3> QED
      BY <1>7, <1>11, <3>1, <3>2
  <2> HIDE DEF g, View, w
  <2> QED
    BY <1>s, <2>1, <2>3, <2>4, <2>5
<1>13. g = [k \in 0..n |-> g[k]] /\ g[n] = View(cc[n])
  BY <1>3
<1>14. Cardinality(DOMAIN w.z.bp) = n
  BY <1>3 DEF Walking
<1> HIDE DEF g, w
<1>15. check_breakpoints(w, "op", a, c) = g[n]
  <2>1. WalkOf(g, w, "op", a, c, n)
    BY <1>3, <1>12, <1>13, <1>14 DEF WalkOf
  <2> QED
    BY <2>1, WalkFollows
<1> DEFINE r == View(cc[n])
           D == Stopped("op", (On(y, "op") \cup On(y, "mx")) \ {b})
<1>16. /\ r = [z |-> r.z, at |-> 0, hits |-> r.hits] /\ r.z \in {y, x}
       /\ r.hits = h \cup Stopped("op", Through(y, cc[n].seen \ {b}, a))
  BY <1>6 DEF Straying
<1>17. Stopped("op", Through(y, cc[n].seen \ {b}, a)) \subseteq D
  <2>1. cc[n].seen \subseteq On(y, "op") \cup On(y, "mx")
    BY <1>1, <1>6 DEF Between
  <2> QED
    BY <2>1 DEF Through, Stopped
<1> HIDE DEF r, D
<1>18. Detoured(y, b, x, r, h)
  BY <1>16, <1>17 DEF Detoured, Walking, D
<1> QED
  BY <1>13, <1>15, <1>18 DEF r, w

-----------------------------------------------------------------------------
(* The accesses of an instruction, of which there are at most five.        *)

Steps(w, x, c) == IF w.at # 0 THEN w ELSE check_breakpoints(w, x[1], x[2], c)

Follows(f, s, n, c) ==
    /\ f[0] = Walking(breaks, {})
    /\ \A k \in 1..n : f[k] = Steps(f[k - 1], s[k], c)

LEMMA CheckedIs ==
    ASSUME NEW s, NEW c, Len(s) \in 0..5
    PROVE  \E f : Follows(f, s, Len(s), c) /\ Checked(s, c) = f[Len(s)]
<1> DEFINE n == Len(s)
           P(g) == g = [k \in 0..n |->
                          IF k = 0 THEN [z |-> breaks, at |-> 0, hits |-> {}]
                          ELSE LET w == g[k - 1]
                               IN  IF w.at # 0 THEN w
                                   ELSE check_breakpoints(w, s[k][1], s[k][2], c)]
           F == CHOOSE g : P(g)
           w0 == Walking(breaks, {})
           w1 == Steps(w0, s[1], c)
           w2 == Steps(w1, s[2], c)
           w3 == Steps(w2, s[3], c)
           w4 == Steps(w3, s[4], c)
           w5 == Steps(w4, s[5], c)
           At(k) == IF k = 0 THEN w0 ELSE IF k = 1 THEN w1 ELSE IF k = 2 THEN w2
                    ELSE IF k = 3 THEN w3 ELSE IF k = 4 THEN w4 ELSE w5
           g == [k \in 0..n |-> At(k)]
<1>1. n \in 0..5 /\ n \in Nat
  OBVIOUS
<1>2. Checked(s, c) = F[n]
  BY DEF Checked, F
<1>w. w0 = [z |-> breaks, at |-> 0, hits |-> {}]
  BY DEF Walking
<1>3. P(g)
  <2> HIDE DEF n
  <2>1. ASSUME NEW k \in 0..n, k # 0 PROVE g[k] = Steps(g[k - 1], s[k], c)
    <3>1. k - 1 \in 0..n /\ k \in 1..5
      BY <1>1, <2>1
    <3> DEFINE i == k - 1
    <3>2. CASE k = 1
      <4>1. i = 0 /\ i \in 0..n
        BY <3>1, <3>2
      <4> HIDE DEF i, w0
      <4>2. g[i] = w0 /\ g[k] = w1
        BY <2>1, <3>2, <4>1
      <4> QED
        BY <3>2, <4>2 DEF i
    <3>3. CASE k = 2
      <4>1. i = 1 /\ i \in 0..n
        BY <3>1, <3>3
      <4> HIDE DEF i, w1
      <4>2. g[i] = w1 /\ g[k] = w2
        BY <2>1, <3>3, <4>1
      <4> QED
        BY <3>3, <4>2 DEF i
    <3>4. CASE k = 3
      <4>1. i = 2 /\ i \in 0..n
        BY <3>1, <3>4
      <4> HIDE DEF i, w2
      <4>2. g[i] = w2 /\ g[k] = w3
        BY <2>1, <3>4, <4>1
      <4> QED
        BY <3>4, <4>2 DEF i
    <3>5. CASE k = 4
      <4>1. i = 3 /\ i \in 0..n
        BY <3>1, <3>5
      <4> HIDE DEF i, w3
      <4>2. g[i] = w3 /\ g[k] = w4
        BY <2>1, <3>5, <4>1
      <4> QED
        BY <3>5, <4>2 DEF i
    <3>6. CASE k = 5
      <4>1. i = 4 /\ i \in 0..n
        BY <3>1, <3>6
      <4> HIDE DEF i, w4
      <4>2. g[i] = w4 /\ g[k] = w5
        BY <2>1, <3>6, <4>1
      <4> QED
        BY <3>6, <4>2 DEF i
    <3> HIDE DEF g
    <3> QED
      BY <3>1, <3>2, <3>3, <3>4, <3>5, <3>6
  <2>2. g[0] = w0
    BY <1>1
  <2>3. g = [k \in 0..n |-> g[k]]
    <3> HIDE DEF At
    <3> QED
      OBVIOUS
  <2> HIDE DEF g, w0
  <2>4. ASSUME NEW k \in 0..n
        PROVE  g[k] = IF k = 0 THEN [z |-> breaks, at |-> 0, hits |-> {}]
                      ELSE IF g[k - 1].at # 0 THEN g[k - 1]
                           ELSE check_breakpoints(g[k - 1], s[k][1], s[k][2], c)
    BY <1>w, <2>1, <2>2 DEF Steps
  <2> QED
    BY <2>3, <2>4
<1>4. P(F)
  <2> HIDE DEF P, g
  <2> QED
    BY <1>3
<1>5. F[0] = w0 /\ \A k \in 1..n : F[k] = Steps(F[k - 1], s[k], c)
  <2>1. 0 \in 0..n /\ \A k \in 1..n : k \in 0..n /\ k # 0
    BY <1>1
  <2> HIDE DEF F, w0
  <2> QED
    BY <1>4, <1>w, <2>1 DEF Steps
<1> HIDE DEF F
<1>6. Follows(F, s, n, c)
  BY <1>5 DEF Follows
<1> QED
  BY <1>2, <1>6

\* Accesses to the lists that there are.
Accesses(s, n) == n = Len(s) /\ n \in 0..5 /\ \A k \in 1..n : s[k][1] \in BpLists

-----------------------------------------------------------------------------
(* Whose the entries are.                                                  *)

Item == [kind : {"memory", "opcode"}, physical : BOOLEAN, mode : SUBSET Access,
         span : SUBSET Nat, disabled : BOOLEAN, ids : [Access -> Nat]]
Slot == [id : Nat, type : Types, span : SUBSET Nat]

\* The accesses for which an item of the debugger has entries, and those.
Wants(i) == IF i.disabled THEN {} ELSE i.mode
Uses(i, X) == {i.ids[x] : x \in X \cap Wants(i)}

\* An item has its entries for the accesses of X, and no others.
Partly(z, i, X) ==
    /\ i \in Item
    /\ \A x \in X \cap Wants(i) : Holds(z, i.ids[x], get_core_bp_type(i, x), i.span, "none")
    /\ \A x \in Access : x \notin X \cap Wants(i) => i.ids[x] = 0
    /\ \A x, v \in X \cap Wants(i) : i.ids[x] = i.ids[v] => x = v

\* What a user keeps, a slot of Calc or an item, and its entries.
Use(slots, i) == IF slots THEN {i.id} ELSE Uses(i, Access)
Fits(slots, z, i) ==
    IF slots THEN i \in Slot /\ Holds(z, i.id, i.type, i.span, "none")
    ELSE Partly(z, i, Access)

\* All entries are of one of s, or of the step.
Ledger(slots, z, s) ==
    /\ s \in Seq(IF slots THEN Slot ELSE Item)
    /\ \A n \in DOMAIN s : Fits(slots, z, s[n]) /\ z.step \notin Use(slots, s[n])
    /\ \A m, n \in DOMAIN s : m # n => Use(slots, s[m]) \cap Use(slots, s[n]) = {}
    /\ \A b : b \in Held(z) <=> (b = z.step /\ b # 0) \/ \E n \in DOMAIN s : b \in Use(slots, s[n])

LEMMA HoldsStill ==
    ASSUME NEW z, NEW y, NEW b, NEW t, NEW span, NEW test, Holds(z, b, t, span, test),
           b \in Held(y), Alike(y.bp[b], z.bp[b])
    PROVE  Holds(y, b, t, span, test)
BY DEF Holds, Alike

LEMMA FitsStill ==
    ASSUME NEW slots, NEW z, NEW y, NEW i, Fits(slots, z, i),
           \A b \in Use(slots, i) : b \in Held(y) /\ Alike(y.bp[b], z.bp[b])
    PROVE  Fits(slots, y, i)
<1>1. CASE slots
  BY <1>1, HoldsStill DEF Fits, Use
<1>2. CASE ~slots
  <2>1. \A x \in Access \cap Wants(i) : i.ids[x] \in Held(y) /\ Alike(y.bp[i.ids[x]], z.bp[i.ids[x]])
    BY <1>2 DEF Use, Uses
  <2>2. Partly(z, i, Access)
    BY <1>2 DEF Fits
  <2>3. Partly(y, i, Access)
    BY <2>1, <2>2, HoldsStill DEF Partly
  <2> QED
    BY <1>2, <2>3 DEF Fits
<1> QED
  BY <1>1, <1>2

LEMMA FitsHeld ==
    ASSUME NEW slots, NEW z, NEW i, Fits(slots, z, i)
    PROVE  Use(slots, i) \subseteq Held(z)
<1>1. CASE slots
  BY <1>1 DEF Fits, Use, Holds
<1>2. CASE ~slots
  BY <1>2 DEF Fits, Use, Uses, Partly, Holds
<1> QED
  BY <1>1, <1>2

\* Another step is taken, or none.
LEMMA LedgerOfStep ==
    ASSUME NEW slots, NEW z, NEW s, Ledger(slots, z, s), NEW y,
           \A b : b \in Held(y) <=> (b = y.step /\ b # 0) \/ (b \in Held(z) /\ b # z.step),
           y.step \notin Held(z) \/ y.step = z.step,
           \A b \in Held(z) : b # z.step => Alike(y.bp[b], z.bp[b])
    PROVE  Ledger(slots, y, s)
<1>1. ASSUME NEW n \in DOMAIN s PROVE Fits(slots, y, s[n]) /\ y.step \notin Use(slots, s[n])
  <2>1. Fits(slots, z, s[n]) /\ z.step \notin Use(slots, s[n])
    BY DEF Ledger
  <2>2. Use(slots, s[n]) \subseteq Held(z)
    BY <2>1, FitsHeld
  <2>3. \A b \in Use(slots, s[n]) : b \in Held(z) /\ b # z.step
    BY <2>1, <2>2
  <2>4. \A b \in Use(slots, s[n]) : b \in Held(y) /\ Alike(y.bp[b], z.bp[b])
    BY <2>3
  <2>5. Fits(slots, y, s[n])
    BY <2>1, <2>4, FitsStill
  <2> QED
    BY <2>1, <2>2, <2>5
<1>2. ASSUME NEW b
      PROVE  b \in Held(y) <=> (b = y.step /\ b # 0) \/ \E n \in DOMAIN s : b \in Use(slots, s[n])
  <2>1. b \in Held(z) <=> (b = z.step /\ b # 0) \/ \E n \in DOMAIN s : b \in Use(slots, s[n])
    BY DEF Ledger
  <2>2. \A n \in DOMAIN s : b \in Use(slots, s[n]) => b # z.step
    BY DEF Ledger
  <2>3. b \in Held(y) <=> (b = y.step /\ b # 0) \/ (b \in Held(z) /\ b # z.step)
    OBVIOUS
  <2>4. ASSUME b = y.step /\ b # 0 PROVE b \in Held(y)
    BY <2>3, <2>4
  <2>5. ASSUME NEW n \in DOMAIN s, b \in Use(slots, s[n]) PROVE b \in Held(y)
    BY <2>1, <2>2, <2>3, <2>5
  <2>6. ASSUME b \in Held(z), b # z.step PROVE \E n \in DOMAIN s : b \in Use(slots, s[n])
    BY <2>1, <2>6
  <2> QED
    BY <2>3, <2>4, <2>5, <2>6
<1> QED
  BY <1>1, <1>2 DEF Ledger

\* One of s is replaced.
LEMMA LedgerOfChange ==
    ASSUME NEW slots, NEW z, NEW s, Ledger(slots, z, s), NEW y, y.step = z.step,
           NEW n \in DOMAIN s, NEW i, i \in (IF slots THEN Slot ELSE Item), Fits(slots, y, i),
           \A b : b \in Held(y) <=> \/ b \in Held(z) /\ b \notin Use(slots, s[n])
                              \/ b \in Use(slots, i),
           \A b \in Use(slots, i) : b \notin Held(z) \/ b \in Use(slots, s[n]),
           \A b \in Held(z) : b \notin Use(slots, s[n]) => Alike(y.bp[b], z.bp[b])
    PROVE  Ledger(slots, y, [s EXCEPT ![n] = i])
<1> DEFINE e == [s EXCEPT ![n] = i]
<1>0. e \in Seq(IF slots THEN Slot ELSE Item) /\ DOMAIN e = DOMAIN s
      /\ e[n] = i /\ \A m \in DOMAIN s : m # n => e[m] = s[m]
  <2>1. s \in Seq(IF slots THEN Slot ELSE Item)
    BY DEF Ledger
  <2> QED
    BY <2>1
<1> HIDE DEF e
<1>1. ASSUME NEW m \in DOMAIN s, m # n
      PROVE  /\ Fits(slots, y, s[m]) /\ z.step \notin Use(slots, s[m])
             /\ Use(slots, s[m]) \subseteq Held(z)
             /\ Use(slots, s[m]) \cap Use(slots, s[n]) = {}
             /\ Use(slots, s[m]) \cap Use(slots, i) = {}
  <2>1. Fits(slots, z, s[m]) /\ z.step \notin Use(slots, s[m])
        /\ Use(slots, s[m]) \cap Use(slots, s[n]) = {}
    BY <1>1 DEF Ledger
  <2>2. Use(slots, s[m]) \subseteq Held(z)
    BY <2>1, FitsHeld
  <2>3. \A b \in Use(slots, s[m]) : b \in Held(z) /\ b \notin Use(slots, s[n])
    BY <2>1, <2>2
  <2>4. \A b \in Use(slots, s[m]) : b \in Held(y) /\ Alike(y.bp[b], z.bp[b])
    BY <2>3
  <2>5. Fits(slots, y, s[m])
    BY <2>1, <2>4, FitsStill
  <2>6. Use(slots, s[m]) \cap Use(slots, i) = {}
    BY <2>3
  <2> QED
    BY <2>1, <2>2, <2>5, <2>6
<1>2. z.step \notin Use(slots, i)
  <2>1. z.step \notin Use(slots, s[n])
    BY DEF Ledger
  <2>2. z.step \in Use(slots, i) => z.step \in Held(y)
    BY FitsHeld
  <2>3. z.step \in Use(slots, i) => z.step # 0
    <3>1. 0 \notin Held(y)
      BY DEF Held, Ids
    <3> QED
      BY <2>2, <3>1
  <2>4. z.step # 0 => z.step \in Held(z)
    BY DEF Ledger
  <2> QED
    BY <2>1, <2>3, <2>4
<1>3. \A m \in DOMAIN e : Fits(slots, y, e[m]) /\ y.step \notin Use(slots, e[m])
  BY <1>0, <1>1, <1>2
<1>4. ASSUME NEW m \in DOMAIN e, NEW k \in DOMAIN e, m # k
      PROVE  Use(slots, e[m]) \cap Use(slots, e[k]) = {}
  <2>1. CASE m = n
    BY <1>0, <1>1, <1>4, <2>1
  <2>2. CASE k = n
    BY <1>0, <1>1, <1>4, <2>2
  <2>3. CASE m # n /\ k # n
    BY <1>0, <1>4, <2>3 DEF Ledger
  <2> QED
    BY <2>1, <2>2, <2>3
<1>5. ASSUME NEW b
      PROVE  b \in Held(y) <=> (b = y.step /\ b # 0) \/ \E m \in DOMAIN e : b \in Use(slots, e[m])
  <2>1. b \in Held(z) <=> (b = z.step /\ b # 0) \/ \E m \in DOMAIN s : b \in Use(slots, s[m])
    BY DEF Ledger
  <2>2. z.step \notin Use(slots, s[n])
    BY DEF Ledger
  <2>3. (\E m \in DOMAIN e : b \in Use(slots, e[m]))
           <=> b \in Use(slots, i) \/ \E m \in DOMAIN s : m # n /\ b \in Use(slots, s[m])
    BY <1>0
  <2>4. (\E m \in DOMAIN s : m # n /\ b \in Use(slots, s[m])) => b \in Held(z) /\ b \notin Use(slots, s[n])
    BY <1>1
  <2> QED
    BY <2>1, <2>2, <2>3, <2>4
<1> QED
  BY <1>0, <1>3, <1>4, <1>5 DEF Ledger, e

\* Another one comes last.
LEMMA LedgerOfAppend ==
    ASSUME NEW slots, NEW z, NEW s, Ledger(slots, z, s), NEW y, y.step = z.step,
           NEW i, i \in (IF slots THEN Slot ELSE Item), Fits(slots, y, i),
           \A b : b \in Held(y) <=> b \in Held(z) \/ b \in Use(slots, i),
           \A b \in Use(slots, i) : b \notin Held(z),
           \A b \in Held(z) : Alike(y.bp[b], z.bp[b])
    PROVE  Ledger(slots, y, Append(s, i))
<1> DEFINE e == Append(s, i)
           n == Len(s) + 1
<1>0. e \in Seq(IF slots THEN Slot ELSE Item) /\ DOMAIN e = (DOMAIN s) \cup {n}
      /\ e[n] = i /\ n \notin DOMAIN s /\ \A m \in DOMAIN s : e[m] = s[m]
  <2> DEFINE T == IF slots THEN Slot ELSE Item
  <2>1. s \in Seq(T) /\ i \in T
    BY DEF Ledger
  <2> HIDE DEF T
  <2>2. e \in Seq(T) /\ e[n] = i /\ \A m \in DOMAIN s : e[m] = s[m]
    BY <2>1
  <2>3. DOMAIN s = 1..Len(s) /\ DOMAIN e = 1..n /\ Len(s) \in Nat
    BY <2>1
  <2>4. DOMAIN e = (DOMAIN s) \cup {n} /\ n \notin DOMAIN s
    BY <2>3
  <2> QED
    BY <2>2, <2>4 DEF T
<1> HIDE DEF e, n
<1>1. ASSUME NEW m \in DOMAIN s
      PROVE  /\ Fits(slots, y, s[m]) /\ z.step \notin Use(slots, s[m])
             /\ Use(slots, s[m]) \subseteq Held(z)
             /\ Use(slots, s[m]) \cap Use(slots, i) = {}
  <2>1. Fits(slots, z, s[m]) /\ z.step \notin Use(slots, s[m])
    BY DEF Ledger
  <2>2. Use(slots, s[m]) \subseteq Held(z)
    BY <2>1, FitsHeld
  <2>3. \A b \in Use(slots, s[m]) : b \in Held(y) /\ Alike(y.bp[b], z.bp[b])
    BY <2>2
  <2>4. Fits(slots, y, s[m])
    BY <2>1, <2>3, FitsStill
  <2> QED
    BY <2>1, <2>2, <2>4
<1>2. z.step \notin Use(slots, i)
  <2>1. z.step \in Use(slots, i) => z.step # 0
    <3>1. 0 \notin Held(y)
      BY DEF Held, Ids
    <3> QED
      BY <3>1, FitsHeld
  <2>2. z.step # 0 => z.step \in Held(z)
    BY DEF Ledger
  <2> QED
    BY <2>1, <2>2
<1>3. \A m \in DOMAIN e : Fits(slots, y, e[m]) /\ y.step \notin Use(slots, e[m])
  BY <1>0, <1>1, <1>2
<1>4. ASSUME NEW m \in DOMAIN e, NEW k \in DOMAIN e, m # k
      PROVE  Use(slots, e[m]) \cap Use(slots, e[k]) = {}
  <2>1. CASE m = n
    BY <1>0, <1>1, <1>4, <2>1
  <2>2. CASE k = n
    BY <1>0, <1>1, <1>4, <2>2
  <2>3. CASE m # n /\ k # n
    BY <1>0, <1>4, <2>3 DEF Ledger
  <2> QED
    BY <2>1, <2>2, <2>3
<1>5. ASSUME NEW b
      PROVE  b \in Held(y) <=> (b = y.step /\ b # 0) \/ \E m \in DOMAIN e : b \in Use(slots, e[m])
  <2>1. b \in Held(z) <=> (b = z.step /\ b # 0) \/ \E m \in DOMAIN s : b \in Use(slots, s[m])
    BY DEF Ledger
  <2>2. (\E m \in DOMAIN e : b \in Use(slots, e[m]))
           <=> b \in Use(slots, i) \/ \E m \in DOMAIN s : b \in Use(slots, s[m])
    BY <1>0
  <2> QED
    BY <2>1, <2>2
<1> QED
  BY <1>0, <1>3, <1>4, <1>5 DEF Ledger, e

\* RemoveAt() leaves the others, in order.
LEMMA RemoveAtIs ==
    ASSUME NEW T, NEW s \in Seq(T), NEW n \in DOMAIN s
    PROVE  /\ RemoveAt(s, n) \in Seq(T) /\ Len(RemoveAt(s, n)) = Len(s) - 1
           /\ \A k \in DOMAIN RemoveAt(s, n) :
                 RemoveAt(s, n)[k] = s[IF k < n THEN k ELSE k + 1]
<1> DEFINE a == SubSeq(s, 1, n - 1)
           c == SubSeq(s, n + 1, Len(s))
<1>1. n \in 1..Len(s) /\ Len(s) \in Nat
  OBVIOUS
<1>2. a \in Seq(T) /\ Len(a) = n - 1 /\ \A k \in 1..(n - 1) : a[k] = s[k]
  BY <1>1, SubSeqProperties
<1>3. c \in Seq(T) /\ Len(c) = Len(s) - n /\ \A k \in 1..(Len(s) - n) : c[k] = s[n + k]
  BY <1>1, SubSeqProperties
<1>4. RemoveAt(s, n) = a \o c
  BY DEF RemoveAt
<1> HIDE DEF a, c
<1>5. a \o c \in Seq(T) /\ Len(a \o c) = Len(s) - 1
  BY <1>1, <1>2, <1>3
<1>6. ASSUME NEW k \in 1..(Len(s) - 1) PROVE (a \o c)[k] = s[IF k < n THEN k ELSE k + 1]
  <2>1. (a \o c)[k] = IF k <= n - 1 THEN a[k] ELSE c[k - (n - 1)]
    BY <1>1, <1>2, <1>3
  <2>2. CASE k < n
    BY <1>1, <1>2, <2>1, <2>2
  <2>3. CASE ~(k < n)
    <3>1. k - (n - 1) \in 1..(Len(s) - n) /\ n + (k - (n - 1)) = k + 1
      BY <1>1, <2>3
    <3>2. (a \o c)[k] = c[k - (n - 1)]
      BY <1>1, <2>1, <2>3
    <3>3. c[k - (n - 1)] = s[k + 1]
      BY <1>3, <3>1
    <3> QED
      BY <2>3, <3>2, <3>3
  <2> QED
    BY <2>2, <2>3
<1>7. DOMAIN (a \o c) = 1..(Len(s) - 1)
  BY <1>5
<1> QED
  BY <1>4, <1>5, <1>6, <1>7

\* One of s goes.
LEMMA LedgerOfRemoveAt ==
    ASSUME NEW slots, NEW z, NEW s, Ledger(slots, z, s), NEW y, y.step = z.step,
           NEW n \in DOMAIN s,
           \A b : b \in Held(y) <=> b \in Held(z) /\ b \notin Use(slots, s[n]),
           \A b \in Held(y) : Alike(y.bp[b], z.bp[b])
    PROVE  Ledger(slots, y, RemoveAt(s, n))
<1> DEFINE e == RemoveAt(s, n)
           At(k) == IF k < n THEN k ELSE k + 1
           T == IF slots THEN Slot ELSE Item
<1>0. s \in Seq(T)
  BY DEF Ledger
<1> HIDE DEF T
<1>1. e \in Seq(T) /\ Len(e) = Len(s) - 1 /\ \A k \in DOMAIN e : e[k] = s[At(k)]
  BY <1>0, RemoveAtIs
<1>2. DOMAIN s = 1..Len(s) /\ DOMAIN e = 1..(Len(s) - 1) /\ Len(s) \in Nat
  BY <1>0, <1>1
<1> HIDE DEF e
<1>3. /\ \A k \in DOMAIN e : At(k) \in DOMAIN s /\ At(k) # n
      /\ \A k, m \in DOMAIN e : k # m => At(k) # At(m)
      /\ \A k \in DOMAIN s : k # n => \E m \in DOMAIN e : At(m) = k
  <2>1. \A k \in DOMAIN e : At(k) \in DOMAIN s /\ At(k) # n
    BY <1>2
  <2>2. \A k, m \in DOMAIN e : k # m => At(k) # At(m)
    BY <1>2
  <2>3. ASSUME NEW k \in DOMAIN s, k # n PROVE \E m \in DOMAIN e : At(m) = k
    <3>1. CASE k < n
      BY <1>2, <3>1
    <3>2. CASE ~(k < n)
      <4>1. k - 1 \in DOMAIN e /\ At(k - 1) = k
        BY <1>2, <2>3, <3>2
      <4> QED
        BY <4>1
    <3> QED
      BY <3>1, <3>2
  <2> QED
    BY <2>1, <2>2, <2>3
<1> HIDE DEF At
<1>4. ASSUME NEW m \in DOMAIN s, m # n
      PROVE  /\ Fits(slots, y, s[m]) /\ z.step \notin Use(slots, s[m])
             /\ Use(slots, s[m]) \subseteq Held(y)
  <2>1. Fits(slots, z, s[m]) /\ z.step \notin Use(slots, s[m])
        /\ Use(slots, s[m]) \cap Use(slots, s[n]) = {}
    BY <1>4 DEF Ledger
  <2>2. Use(slots, s[m]) \subseteq Held(z)
    BY <2>1, FitsHeld
  <2>3. \A b \in Use(slots, s[m]) : b \in Held(y) /\ Alike(y.bp[b], z.bp[b])
    BY <2>1, <2>2
  <2>4. Fits(slots, y, s[m])
    BY <2>1, <2>3, FitsStill
  <2> QED
    BY <2>1, <2>3, <2>4
<1>5. \A k \in DOMAIN e : Fits(slots, y, e[k]) /\ y.step \notin Use(slots, e[k])
  BY <1>1, <1>3, <1>4
<1>6. ASSUME NEW m \in DOMAIN e, NEW k \in DOMAIN e, m # k
      PROVE  Use(slots, e[m]) \cap Use(slots, e[k]) = {}
  <2>1. At(m) \in DOMAIN s /\ At(k) \in DOMAIN s /\ At(m) # At(k)
    BY <1>3, <1>6
  <2>2. Use(slots, s[At(m)]) \cap Use(slots, s[At(k)]) = {}
    BY <2>1 DEF Ledger
  <2> QED
    BY <1>1, <2>2
<1>7. ASSUME NEW b
      PROVE  b \in Held(y) <=> (b = y.step /\ b # 0) \/ \E m \in DOMAIN e : b \in Use(slots, e[m])
  <2>1. b \in Held(z) <=> (b = z.step /\ b # 0) \/ \E m \in DOMAIN s : b \in Use(slots, s[m])
    BY DEF Ledger
  <2>2. z.step \notin Use(slots, s[n])
    BY DEF Ledger
  <2>3. (\E m \in DOMAIN e : b \in Use(slots, e[m]))
           <=> \E m \in DOMAIN s : m # n /\ b \in Use(slots, s[m])
    <3>1. ASSUME NEW m \in DOMAIN e, b \in Use(slots, e[m])
          PROVE  \E k \in DOMAIN s : k # n /\ b \in Use(slots, s[k])
      <4>1. At(m) \in DOMAIN s /\ At(m) # n /\ e[m] = s[At(m)]
        BY <1>1, <1>3
      <4> QED
        BY <3>1, <4>1
    <3>2. ASSUME NEW k \in DOMAIN s, k # n, b \in Use(slots, s[k])
          PROVE  \E m \in DOMAIN e : b \in Use(slots, e[m])
      <4>1. PICK m \in DOMAIN e : At(m) = k
        BY <1>3, <3>2
      <4>2. e[m] = s[k]
        BY <1>1, <4>1
      <4> QED
        BY <3>2, <4>2
    <3> QED
      BY <3>1, <3>2
  <2>4. (\E m \in DOMAIN s : m # n /\ b \in Use(slots, s[m])) => b \in Held(y)
    BY <1>4
  <2> QED
    BY <2>1, <2>2, <2>3, <2>4
<1> QED
  BY <1>1, <1>5, <1>6, <1>7 DEF Ledger, e, T

-----------------------------------------------------------------------------
(* The entries of an item are set, one access after another.               *)

LEMMA CoreType ==
    ASSUME NEW d \in Item, NEW x \in Access
    PROVE  LET t == get_core_bp_type(d, x)
           IN  t \in Types /\ t.disabled = FALSE
<1>1. x = "R" \/ x = "W" \/ x = "X"
  BY DEF Access
<1>2. d.physical \in BOOLEAN
  BY DEF Item
<1> QED
  BY <1>1, <1>2 DEF get_core_bp_type, Types, Kinds

\* An item is as it was but for the entry of one access.
Given(j, i, x, b) ==
    /\ j \in Item /\ Wants(j) = Wants(i) /\ j.span = i.span
    /\ \A w : get_core_bp_type(j, w) = get_core_bp_type(i, w)
    /\ j.ids[x] = b /\ \A w \in Access : w # x => j.ids[w] = i.ids[w]

LEMMA Gives ==
    ASSUME NEW i \in Item, NEW x \in Access, NEW b \in Nat
    PROVE  Given([i EXCEPT !.ids[x] = b], i, x, b)
<1> DEFINE ids == [i.ids EXCEPT ![x] = b]
           j == [i EXCEPT !.ids[x] = b]
<1>1. i.ids \in [Access -> Nat] /\ j = [i EXCEPT !.ids = ids]
  BY DEF Item
<1>2. ids \in [Access -> Nat] /\ ids[x] = b /\ \A w \in Access : w # x => ids[w] = i.ids[w]
  BY <1>1
<1> HIDE DEF ids, j
<1>3. /\ j.kind = i.kind /\ j.physical = i.physical /\ j.mode = i.mode /\ j.span = i.span
      /\ j.disabled = i.disabled /\ j.ids = ids
  BY <1>1 DEF Item
<1>4. j \in Item
  BY <1>1, <1>2, <1>3 DEF Item
<1>5. \A w : get_core_bp_type(j, w) = get_core_bp_type(i, w)
  BY <1>3 DEF get_core_bp_type
<1>6. Wants(j) = Wants(i)
  BY <1>3 DEF Wants
<1>7. Given(j, i, x, b)
  BY <1>2, <1>3, <1>4, <1>5, <1>6 DEF Given
<1> QED
  BY <1>7 DEF j

\* What set_for() has come to: entries of y, and new ones for the accesses of X.
Setting(y, r, X) ==
    /\ Good(r.z) /\ Aside(r.z, y) /\ Partly(r.z, r.item, X)
    /\ \A b : b \in Held(r.z) <=> b \in Held(y) \/ b \in Uses(r.item, X)
    /\ \A b \in Uses(r.item, X) : b \notin Held(y)
    /\ \A b \in Held(y) : Alike(r.z.bp[b], y.bp[b])

LEMMA SetsFor ==
    ASSUME NEW y, NEW r, NEW X \in SUBSET Access, Setting(y, r, X), NEW x \in Access, x \notin X
    PROVE  Setting(y, set_for(r, x), X \cup {x})
<1> DEFINE i == r.item
           z == r.z
           Y == X \cup {x}
<1>1. /\ Good(z) /\ Aside(z, y) /\ Partly(z, i, X) /\ i \in Item
      /\ \A b : b \in Held(z) <=> b \in Held(y) \/ b \in Uses(i, X)
      /\ \A b \in Uses(i, X) : b \notin Held(y)
      /\ \A b \in Held(y) : Alike(z.bp[b], y.bp[b])
  BY DEF Setting, Partly
<1>2. x \in Wants(i) <=> ~(i.disabled \/ x \notin i.mode)
  BY DEF Wants
<1>3. CASE x \notin Wants(i)
  <2>1. set_for(r, x) = r
    BY <1>2, <1>3 DEF set_for
  <2>2. Y \cap Wants(i) = X \cap Wants(i)
    BY <1>3
  <2>3. Uses(i, Y) = Uses(i, X)
    BY <2>2 DEF Uses
  <2>4. Partly(z, i, Y)
    <3> DEFINE U == X \cap Wants(i)
    <3>1. /\ i \in Item
          /\ \A w \in U : Holds(z, i.ids[w], get_core_bp_type(i, w), i.span, "none")
          /\ \A w \in Access : w \notin U => i.ids[w] = 0
          /\ \A w, v \in U : i.ids[w] = i.ids[v] => w = v
      BY <1>1 DEF Partly
    <3>2. U = Y \cap Wants(i)
      BY <2>2
    <3> HIDE DEF U, Y
    <3> QED
      BY <3>1, <3>2 DEF Partly
  <2> QED
    BY <1>1, <2>1, <2>3, <2>4 DEF Setting
<1>4. CASE x \in Wants(i)
  <2> DEFINE t == get_core_bp_type(i, x)
             a == add_breakpoint(z, t, i.span, "none")
             j == [i EXCEPT !.ids[x] = a.id]
             U == X \cap Wants(i)
             V == Y \cap Wants(i)
             s == set_for(r, x)
  <2>1. s.z = a.z /\ s.item = j
    BY <1>2, <1>4 DEF set_for
  <2>2. t \in Types /\ i.span \in SUBSET Nat /\ "none" \in Tests
    BY <1>1, CoreType DEF Item, Tests
  <2>3. Added(z, a, t, i.span, "none")
    <3> HIDE DEF t, z
    <3> QED
      BY <1>1, <2>2, Adds
  <2> HIDE DEF a, t, s, z
  <2>4. /\ Good(a.z) /\ Aside(a.z, z)
        /\ a.id \notin Held(z) /\ Held(a.z) = Held(z) \cup {a.id} /\ a.id \in Nat
        /\ Holds(a.z, a.id, t, i.span, "none")
        /\ \A u \in Held(z) : Alike(a.z.bp[u], z.bp[u])
    BY <2>3 DEF Added
  <2>5. Given(j, i, x, a.id)
    <3> HIDE DEF i
    <3> QED
      BY <1>1, <2>4, Gives
  <2>6. V = U \cup {x} /\ x \notin U /\ U \subseteq Access
    BY <1>4
  <2>u. Wants(j) = Wants(i)
    BY <2>5 DEF Given
  <2>7. /\ \A w \in U : Holds(z, i.ids[w], get_core_bp_type(i, w), i.span, "none")
        /\ \A w \in Access : w \notin U => i.ids[w] = 0
        /\ \A w, v \in U : i.ids[w] = i.ids[v] => w = v
    BY <1>1 DEF Partly
  <2>v. Uses(j, Y) = {j.ids[w] : w \in V} /\ Uses(i, X) = {i.ids[w] : w \in U}
    BY <2>u DEF Uses
  <2>w. Partly(a.z, j, Y)
           <=> /\ j \in Item
               /\ \A w \in V : Holds(a.z, j.ids[w], get_core_bp_type(j, w), j.span, "none")
               /\ \A w \in Access : w \notin V => j.ids[w] = 0
               /\ \A w, v \in V : j.ids[w] = j.ids[v] => w = v
    <3> HIDE DEF Y, j
    <3> QED
      BY <2>u DEF Partly
  <2> HIDE DEF i, j, U, V, Y
  <2>8. /\ j \in Item /\ j.span = i.span /\ j.ids[x] = a.id
        /\ \A w : get_core_bp_type(j, w) = get_core_bp_type(i, w)
        /\ \A w \in U : j.ids[w] = i.ids[w] /\ w \in Access /\ w # x
        /\ \A w \in Access : w # x => j.ids[w] = i.ids[w]
    BY <2>5, <2>6 DEF Given
  <2>9. \A w \in U : i.ids[w] \in Held(z)
    BY <2>7 DEF Holds
  <2>10. ASSUME NEW w \in V
         PROVE  Holds(a.z, j.ids[w], get_core_bp_type(j, w), j.span, "none")
    <3>1. CASE w = x
      BY <2>4, <2>8, <3>1 DEF t
    <3>2. CASE w # x
      <4>1. w \in U
        BY <2>6, <3>2
      <4>2. i.ids[w] \in Held(a.z) /\ Alike(a.z.bp[i.ids[w]], z.bp[i.ids[w]])
        BY <2>4, <2>9, <4>1
      <4>3. Holds(a.z, i.ids[w], get_core_bp_type(i, w), i.span, "none")
        BY <2>7, <4>1, <4>2, HoldsStill
      <4> QED
        BY <2>8, <4>1, <4>3
    <3> QED
      BY <3>1, <3>2
  <2>11. \A w \in Access : w \notin V => j.ids[w] = 0
    BY <2>6, <2>7, <2>8
  <2>12. \A w, v \in V : j.ids[w] = j.ids[v] => w = v
    BY <2>4, <2>6, <2>7, <2>8, <2>9
  <2>13. Partly(a.z, j, Y)
    BY <2>8, <2>10, <2>11, <2>12, <2>w
  <2>14. ASSUME NEW b PROVE b \in Uses(j, Y) <=> b \in Uses(i, X) \/ b = a.id
    BY <2>6, <2>8, <2>v
  <2>15. \A b : b \in Held(a.z) <=> b \in Held(y) \/ b \in Uses(j, Y)
    BY <1>1, <2>4, <2>14
  <2>16. \A b \in Uses(j, Y) : b \notin Held(y)
    BY <1>1, <2>4, <2>14
  <2>17. \A b \in Held(y) : Alike(a.z.bp[b], y.bp[b])
    BY <1>1, <2>4 DEF Alike
  <2>18. Aside(a.z, y)
    BY <1>1, <2>4 DEF Aside
  <2> QED
    BY <2>1, <2>4, <2>13, <2>15, <2>16, <2>17, <2>18 DEF Setting, s, Y
<1> QED
  BY <1>3, <1>4

\* set_bp().
LEMMA Sets ==
    ASSUME NEW y, Good(y), NEW d \in Item
    PROVE  Setting(y, set_bp(y, d), Access)
<1> DEFINE i == [d EXCEPT !.ids = Nowhere]
           r == [z |-> y, item |-> i]
           s == set_for(r, "X")
           u == set_for(s, "W")
           v == set_for(u, "R")
<1>1. i \in Item /\ \A w \in Access : i.ids[w] = 0
  BY DEF Item, Nowhere
<1>2. Setting(y, r, {})
  <2>1. Uses(i, {}) = {}
    BY DEF Uses
  <2>2. Partly(y, i, {})
    BY <1>1 DEF Partly
  <2> HIDE DEF i
  <2> QED
    BY <2>1, <2>2 DEF Setting, Aside, Alike
<1>3. v = set_bp(y, d)
  BY DEF set_bp
<1>4. "X" \in Access /\ "W" \in Access /\ "R" \in Access
      /\ ({} \cup {"X"}) \cup {"W"} \cup {"R"} = Access
  BY DEF Access
<1> HIDE DEF r, s, u, v
<1>5. Setting(y, s, {} \cup {"X"})
  BY <1>2, <1>4, SetsFor DEF s
<1>6. Setting(y, u, ({} \cup {"X"}) \cup {"W"})
  <2> DEFINE X == {} \cup {"X"}
  <2>1. X \in SUBSET Access /\ "W" \notin X
    BY <1>4
  <2> HIDE DEF X
  <2>2. Setting(y, s, X)
    BY <1>5 DEF X
  <2>3. Setting(y, u, X \cup {"W"})
    BY <1>4, <2>1, <2>2, SetsFor DEF u
  <2> QED
    BY <2>3 DEF X
<1>7. Setting(y, v, Access)
  <2> DEFINE X == ({} \cup {"X"}) \cup {"W"}
  <2>1. X \in SUBSET Access /\ "R" \notin X /\ X \cup {"R"} = Access
    BY <1>4
  <2> HIDE DEF X
  <2>2. Setting(y, u, X)
    BY <1>6 DEF X
  <2>3. Setting(y, v, X \cup {"R"})
    BY <1>4, <2>1, <2>2, SetsFor DEF v
  <2> QED
    BY <2>1, <2>3
<1> QED
  BY <1>3, <1>7

\* Entries of z, without those of X.
Unsetting(z, y, X) ==
    /\ Good(y) /\ Aside(y, z)
    /\ \A b : b \in Held(y) <=> b \in Held(z) /\ b \notin X
    /\ \A b \in Held(y) : Alike(y.bp[b], z.bp[b])

LEMMA UnsetsFor ==
    ASSUME NEW z, NEW y, NEW X, Unsetting(z, y, X), NEW d, NEW x
    PROVE  Unsetting(z, unset_for(y, d, x), X \cup {d.ids[x]})
<1>1. /\ Good(y) /\ Aside(y, z)
      /\ \A b : b \in Held(y) <=> b \in Held(z) /\ b \notin X
      /\ \A b \in Held(y) : Alike(y.bp[b], z.bp[b])
  BY DEF Unsetting
<1> DEFINE b == d.ids[x]
           u == unset_for(y, d, x)
<1>2. CASE b = 0
  <2>1. u = y
    BY <1>2 DEF unset_for
  <2>2. 0 \notin Held(y)
    BY DEF Held, Ids
  <2>3. \A v : v \in Held(y) <=> v \in Held(z) /\ v \notin X \cup {b}
    BY <1>1, <1>2, <2>2
  <2> HIDE DEF u, b
  <2>4. Unsetting(z, u, X \cup {b})
    BY <1>1, <2>1, <2>3 DEF Unsetting
  <2> QED
    BY <2>4 DEF u, b
<1>3. CASE b # 0
  <2>1. u = remove_breakpoint(y, b)
    BY <1>3 DEF unset_for
  <2>2. Removed(y, u, b)
    <3> HIDE DEF u, b
    <3> QED
      BY <1>1, <2>1, Removes
  <2> HIDE DEF u, b
  <2>3. /\ Good(u) /\ Aside(u, y) /\ Held(u) = Held(y) \ {b}
        /\ \A v \in Held(u) : Alike(u.bp[v], y.bp[v])
    BY <2>2 DEF Removed
  <2>4. Aside(u, z)
    BY <1>1, <2>3 DEF Aside
  <2>5. \A v \in Held(u) : Alike(u.bp[v], z.bp[v])
    BY <1>1, <2>3 DEF Alike
  <2>6. \A v : v \in Held(u) <=> v \in Held(z) /\ v \notin X \cup {b}
    BY <1>1, <2>3
  <2>7. Unsetting(z, u, X \cup {b})
    BY <2>3, <2>4, <2>5, <2>6 DEF Unsetting
  <2> QED
    BY <2>7 DEF u, b
<1> QED
  BY <1>2, <1>3

\* unset_bp(), of an item that has its entries.
LEMMA Unsets ==
    ASSUME NEW z, Good(z), NEW d, Partly(z, d, Access)
    PROVE  Unsetting(z, unset_bp(z, d), Uses(d, Access))
<1> DEFINE s == unset_for(z, d, "X")
           u == unset_for(s, d, "W")
           v == unset_for(u, d, "R")
           X == {} \cup {d.ids["X"]}
           Y == X \cup {d.ids["W"]}
           Z == Y \cup {d.ids["R"]}
<1>1. v = unset_bp(z, d)
  BY DEF unset_bp
<1>2. Unsetting(z, z, {})
  BY DEF Unsetting, Aside, Alike
<1> HIDE DEF s, u, v
<1>3. Unsetting(z, s, X)
  BY <1>2, UnsetsFor DEF s
<1>4. Unsetting(z, u, Y)
  <2> HIDE DEF X
  <2> QED
    BY <1>3, UnsetsFor DEF u
<1>5. Unsetting(z, v, Z)
  <2> HIDE DEF Y
  <2> QED
    BY <1>4, UnsetsFor DEF v
<1>6. 0 \notin Held(z)
  BY DEF Held, Ids
<1>7. ASSUME NEW b \in Held(z) PROVE b \in Z <=> b \in Uses(d, Access)
  <2>1. Z = {d.ids[x] : x \in Access}
    BY DEF Access
  <2>2. \A x \in Access : x \notin Access \cap Wants(d) => d.ids[x] = 0
    BY DEF Partly
  <2> HIDE DEF Z
  <2> QED
    BY <1>6, <2>1, <2>2 DEF Uses
<1> HIDE DEF Z
<1>8. \A b : b \in Held(v) <=> b \in Held(z) /\ b \notin Uses(d, Access)
  BY <1>5, <1>7 DEF Unsetting
<1> QED
  BY <1>1, <1>5, <1>8 DEF Unsetting

-----------------------------------------------------------------------------
(* A step is given up, or taken.                                           *)

\* The entries of z but that of its step, which there is none of.
Canceled(z, y) ==
    /\ Good(y) /\ y.step = 0 /\ 0 \notin Held(z)
    /\ \A b : b \in Held(y) <=> b \in Held(z) /\ b # z.step
    /\ \A b \in Held(y) : Alike(y.bp[b], z.bp[b])

LEMMA Cancels ==
    ASSUME NEW z, Good(z)
    PROVE  Canceled(z, cancel_step_bp(z))
<1> DEFINE y == cancel_step_bp(z)
<1>1. 0 \notin Held(z)
  BY DEF Held, Ids
<1>2. CASE z.step = 0
  <2>1. y = z
    BY <1>2 DEF cancel_step_bp
  <2> HIDE DEF y
  <2>2. Canceled(z, y)
    BY <1>1, <1>2, <2>1 DEF Canceled, Alike
  <2> QED
    BY <2>2 DEF y
<1>3. CASE z.step # 0
  <2> DEFINE b == z.step
             r == remove_breakpoint(z, b)
  <2>1. y = [r EXCEPT !.step = 0]
    BY <1>3 DEF cancel_step_bp
  <2>2. Removed(z, r, b)
    <3> HIDE DEF b
    <3> QED
      BY Removes
  <2> HIDE DEF r, y
  <2>3. Good(r) /\ Held(r) = Held(z) \ {b} /\ \A u \in Held(r) : Alike(r.bp[u], z.bp[u])
    BY <2>2 DEF Removed
  <2>4. y = Marked(r, 0, r.dest, r.exit) /\ r.dest \in Nat /\ r.exit \in Nat
    BY <2>1, <2>3, GoodTyped
  <2>5. SameTable(y, r) /\ y.step = 0
    BY <2>3, <2>4, Marks
  <2>6. Good(y) /\ y.bp = r.bp /\ Held(y) = Held(r)
    BY <2>5 DEF SameTable
  <2>7. Canceled(z, y)
    BY <1>1, <2>3, <2>5, <2>6 DEF Canceled
  <2> QED
    BY <2>7 DEF y
<1> QED
  BY <1>2, <1>3

LEMMA LedgerOfCancel ==
    ASSUME NEW slots, NEW z, NEW s, Good(z), Ledger(slots, z, s)
    PROVE  Ledger(slots, cancel_step_bp(z), s)
<1> DEFINE y == cancel_step_bp(z)
<1>1. Canceled(z, y)
  BY Cancels
<1> HIDE DEF y
<1>2. /\ \A b : b \in Held(y) <=> (b = y.step /\ b # 0) \/ (b \in Held(z) /\ b # z.step)
      /\ y.step \notin Held(z)
      /\ \A b \in Held(z) : b # z.step => Alike(y.bp[b], z.bp[b])
  BY <1>1 DEF Canceled
<1>3. Ledger(slots, y, s)
  BY <1>2, LedgerOfStep
<1> QED
  BY <1>3 DEF y

\* run_with_step_condition(): the step is the entry that is added.
Stepped(slots, y, s, t, test) ==
    /\ Good(y) /\ Ledger(slots, y, s) /\ y.step \in Held(y)
    /\ bp_head(y.bp[y.step]) = bp_head(t) /\ y.bp[y.step].test = test

LEMMA StepsWith ==
    ASSUME NEW slots, NEW z, NEW s, Good(z), Ledger(slots, z, s),
           NEW t \in Types, NEW span \in SUBSET Nat, NEW test \in Tests, NEW a,
           a = add_breakpoint(cancel_step_bp(z), t, span, test),
           NEW dest \in Nat, NEW exit \in Nat
    PROVE  Stepped(slots, Marked(a.z, a.id, dest, exit), s, t, test)
<1> DEFINE c == cancel_step_bp(z)
           y == Marked(a.z, a.id, dest, exit)
<1>1. Canceled(z, c) /\ Ledger(slots, c, s)
  BY Cancels, LedgerOfCancel
<1> HIDE DEF c
<1>2. Good(c) /\ c.step = 0
  BY <1>1 DEF Canceled
<1>3. Added(c, a, t, span, test)
  BY <1>2, Adds DEF c
<1>4. /\ Good(a.z) /\ a.id \notin Held(c) /\ Held(a.z) = Held(c) \cup {a.id}
      /\ a.id # 0 /\ a.id \in Nat
      /\ Holds(a.z, a.id, t, span, test)
      /\ \A u \in Held(c) : Alike(a.z.bp[u], c.bp[u])
  BY <1>3 DEF Added
<1>5. SameTable(y, a.z) /\ y.step = a.id
  <2> DEFINE z1 == a.z
             b1 == a.id
  <2> HIDE DEF z1, b1
  <2>1. Good(z1) /\ b1 \in Nat
    BY <1>4 DEF z1, b1
  <2>2. SameTable(Marked(z1, b1, dest, exit), z1) /\ Marked(z1, b1, dest, exit).step = b1
    BY <2>1, Marks
  <2> QED
    BY <2>2 DEF z1, b1
<1> HIDE DEF y
<1>6. Good(y) /\ y.bp = a.z.bp /\ Held(y) = Held(a.z)
  BY <1>5 DEF SameTable
<1>7. /\ \A b : b \in Held(y) <=> (b = y.step /\ b # 0) \/ (b \in Held(c) /\ b # c.step)
      /\ y.step \notin Held(c)
      /\ \A b \in Held(c) : b # c.step => Alike(y.bp[b], c.bp[b])
  <2>1. 0 \notin Held(c)
    BY DEF Held, Ids
  <2> QED
    BY <1>2, <1>4, <1>5, <1>6, <2>1
<1>8. Ledger(slots, y, s)
  BY <1>1, <1>7, LedgerOfStep
<1>9. /\ y.step \in Held(y) /\ y.bp[y.step].test = test
      /\ bp_head(y.bp[y.step]) = bp_head(t)
  <2>1. Holds(y, y.step, t, span, test)
    BY <1>4, <1>5, <1>6 DEF Holds
  <2> QED
    BY <2>1 DEF Holds, bp_head
<1>10. Stepped(slots, y, s, t, test)
  BY <1>6, <1>8, <1>9 DEF Stepped
<1> QED
  BY <1>10 DEF y

-----------------------------------------------------------------------------
(* What the user has asked for is what there is, but for the step.         *)

LEMMA HoldsHead ==
    ASSUME NEW z, NEW b, NEW t, NEW span, NEW test, Holds(z, b, t, span, test)
    PROVE  bp_head(z.bp[b]) = bp_head(t)
BY DEF Holds, bp_head

\* An entry that somebody has asked for.
AskedFor(q) ==
    /\ q.id \in Held(breaks) /\ q.id # breaks.step /\ breaks.bp[q.id].test = "none"
    /\ q.list = bp_head(breaks.bp[q.id]) /\ q.span = breaks.bp[q.id].span

Ours == Ledger("slots" \in client.does, breaks, items)

LEMMA AskedIs ==
    ASSUME Ours
    PROVE  /\ \A q \in Asked : AskedFor(q)
           /\ \A b \in Held(breaks) : b # breaks.step => \E q \in Asked : q.id = b
<1> DEFINE slots == "slots" \in client.does
<1>1. /\ \A n \in DOMAIN items :
            Fits(slots, breaks, items[n]) /\ breaks.step \notin Use(slots, items[n])
      /\ \A b \in Held(breaks) : b # breaks.step => \E n \in DOMAIN items : b \in Use(slots, items[n])
  BY DEF Ours, Ledger
<1>2. CASE slots
  <2>1. Asked = {[id |-> items[n].id, list |-> bp_head(items[n].type), span |-> items[n].span] :
                    n \in DOMAIN items}
    BY <1>2 DEF Asked
  <2>2. ASSUME NEW q \in Asked PROVE AskedFor(q)
    <3>1. PICK n \in DOMAIN items :
             q = [id |-> items[n].id, list |-> bp_head(items[n].type), span |-> items[n].span]
      BY <2>1
    <3>2. Holds(breaks, items[n].id, items[n].type, items[n].span, "none")
          /\ items[n].id # breaks.step
      BY <1>1, <1>2 DEF Fits, Use
    <3>3. bp_head(breaks.bp[items[n].id]) = bp_head(items[n].type)
      BY <3>2, HoldsHead
    <3> QED
      BY <3>1, <3>2, <3>3 DEF Holds, AskedFor
  <2>3. ASSUME NEW b \in Held(breaks), b # breaks.step PROVE \E q \in Asked : q.id = b
    <3>1. PICK n \in DOMAIN items : b \in Use(slots, items[n])
      BY <1>1, <2>3
    <3>2. b = items[n].id
      BY <1>2, <3>1 DEF Use
    <3> DEFINE q == [id |-> items[n].id, list |-> bp_head(items[n].type), span |-> items[n].span]
    <3>3. q \in Asked /\ q.id = b
      BY <2>1, <3>2
    <3> QED
      BY <3>3
  <2> QED
    BY <2>2, <2>3
<1>3. CASE ~slots
  <2> DEFINE Entries(i) ==
                {[id |-> i.ids[access], list |-> bp_head(get_core_bp_type(i, access)),
                  span |-> i.span] : access \in Wants(i)}
  <2>1. Asked = UNION {Entries(items[n]) : n \in DOMAIN items}
    BY <1>3 DEF Asked, Wants
  <2>2. ASSUME NEW q \in Asked PROVE AskedFor(q)
    <3>1. PICK n \in DOMAIN items : q \in Entries(items[n])
      BY <2>1
    <3> DEFINE i == items[n]
    <3> HIDE DEF i
    <3>2. PICK x \in Wants(i) :
             q = [id |-> i.ids[x], list |-> bp_head(get_core_bp_type(i, x)), span |-> i.span]
      BY <3>1 DEF i
    <3>3. Partly(breaks, i, Access) /\ breaks.step \notin Uses(i, Access)
      BY <1>1, <1>3 DEF Fits, Use, i
    <3>4. x \in Access \cap Wants(i)
      BY <3>2, <3>3 DEF Partly, Item, Wants
    <3>5. Holds(breaks, i.ids[x], get_core_bp_type(i, x), i.span, "none")
          /\ i.ids[x] # breaks.step
      BY <3>3, <3>4 DEF Partly, Uses
    <3>6. bp_head(breaks.bp[i.ids[x]]) = bp_head(get_core_bp_type(i, x))
      BY <3>5, HoldsHead
    <3> QED
      BY <3>2, <3>5, <3>6 DEF Holds, AskedFor
  <2>3. ASSUME NEW b \in Held(breaks), b # breaks.step PROVE \E q \in Asked : q.id = b
    <3>1. PICK n \in DOMAIN items : b \in Use(slots, items[n])
      BY <1>1, <2>3
    <3> DEFINE i == items[n]
    <3>2. PICK x \in Access \cap Wants(i) : b = i.ids[x]
      BY <1>3, <3>1 DEF Use, Uses
    <3> DEFINE q == [id |-> i.ids[x], list |-> bp_head(get_core_bp_type(i, x)), span |-> i.span]
    <3>3. q \in Entries(i) /\ q.id = b
      BY <3>2
    <3> HIDE DEF Entries, q
    <3>4. q \in Asked
      BY <2>1, <3>3
    <3> QED
      BY <3>3, <3>4
  <2> QED
    BY <2>2, <2>3
<1> QED
  BY <1>2, <1>3

-----------------------------------------------------------------------------
(* The inductive invariant.                                                *)

Machines == machine.pc \in Nat /\ machine.stack \in Seq(Nat)

\* The step, if it is over, is one of opcodes; who has slots takes no steps.
IsOver == breaks.step # 0 /\ breaks.bp[breaks.step].test = "over"
Roles ==
    /\ IsOver => bp_head(breaks.bp[breaks.step]) = "op"
    /\ "slots" \in client.does => breaks.step = 0

Honest == outcome \in {"asked", "strayed"}

DInv == client \in Clients /\ Machines /\ Good(breaks) /\ Ours /\ Roles /\ Honest

LEMMA Empty ==
    ASSUME NEW slots
    PROVE  Good(NoBreakpoints) /\ Ledger(slots, NoBreakpoints, <<>>) /\ NoBreakpoints.step = 0
<1> DEFINE z == NoBreakpoints
<1>1. /\ z.bp = [k \in {} |-> Blank] /\ z.head = [l \in BpLists |-> 0] /\ z.free = 0
      /\ z.step = 0 /\ z.dest = 0 /\ z.exit = 0
  BY DEF NoBreakpoints
<1>2. 0..(0 - 1) = {}
  OBVIOUS
<1>3. z.bp \in [{} -> Entry]
  BY <1>1
<1>4. z \in Arrays({})
  BY <1>1, <1>3 DEF NoBreakpoints, Arrays
<1>5. Sized(z, 0)
  BY <1>2, <1>4 DEF Sized
<1>6. DOMAIN z.bp = {}
  BY <1>1
<1> HIDE DEF z
<1>7. Ids(z) = {}
  BY <1>6 DEF Ids
<1>8. Unused(z) = {} /\ Held(z) = {} /\ \A l : On(z, l) = {}
  BY <1>7 DEF Unused, Held, On
<1>9. Stacked(z.bp, 0, {})
  <2> DEFINE r == [k \in {} |-> 0]
  <2>1. Falls(z.bp, {}, r)
    BY DEF Falls
  <2> HIDE DEF r
  <2> QED
    BY <2>1 DEF Stacked
<1>10. Linked(z.bp, 0, {})
  BY <1>9 DEF Linked
<1>11. Out(z, 0, {})
  <2>1. \A l \in BpLists : z.head[l] = 0 /\ On(z, l) \ {} = {}
    BY <1>1, <1>8
  <2>2. Unused(z) \ {} = {}
    BY <1>8
  <2> QED
    BY <1>1, <1>5, <1>9, <1>10, <2>1, <2>2 DEF Out
<1>12. Ledger(slots, z, <<>>)
  <2>1. <<>> \in Seq(IF slots THEN Slot ELSE Item) /\ DOMAIN <<>> = {}
    OBVIOUS
  <2> QED
    BY <1>1, <1>8, <2>1 DEF Ledger
<1> QED
  BY <1>1, <1>11, <1>12 DEF Good, z

LEMMA DInit == DebuggerInit => DInv
<1> SUFFICES ASSUME DebuggerInit PROVE DInv
  OBVIOUS
<1>1. /\ client \in Clients /\ breaks = NoBreakpoints /\ items = <<>>
      /\ machine = [pc |-> 1, stack |-> <<>>] /\ outcome = "asked"
  BY DEF DebuggerInit
<1>2. Good(breaks) /\ Ours /\ breaks.step = 0
  BY <1>1, Empty DEF Ours
<1>3. Machines
  BY <1>1 DEF Machines
<1>5. Roles
  BY <1>2 DEF Roles, IsOver
<1> QED
  BY <1>1, <1>2, <1>3, <1>5 DEF DInv, Honest

LEMMA User ==
    ASSUME DInv
    PROVE  /\ client.items \in Nat
           /\ "slots" \in client.does => client.does \subseteq {"slots", "types", "run"}
           /\ "types" \in client.does => "slots" \in client.does
           /\ items \in Seq(IF "slots" \in client.does THEN Slot ELSE Item) /\ Len(items) \in Nat
           /\ breaks.step # 0 => breaks.step \in Held(breaks)
<1>1. client \in Clients
  BY DEF DInv
<1>2. items \in Seq(IF "slots" \in client.does THEN Slot ELSE Item)
      /\ (breaks.step # 0 => breaks.step \in Held(breaks))
  BY DEF DInv, Ours, Ledger
<1>3. Len(items) \in Nat
  BY <1>2
<1> QED
  BY <1>1, <1>2, <1>3, ClientsAssumption

\* The items change, and their entries.
LEMMA Changed ==
    ASSUME DInv, UNCHANGED <<client, machine, outcome>>,
           NEW y, y = breaks', Good(y), y.step = breaks.step,
           breaks.step # 0 => Alike(y.bp[breaks.step], breaks.bp[breaks.step]),
           Ledger("slots" \in client.does, y, items')
    PROVE  DInv'
<1>1. Good(breaks')
  OBVIOUS
<1>2. Ours'
  BY DEF Ours
<1>3. Roles'
  <2>1. "slots" \in client.does => breaks'.step = 0
    BY DEF Roles, DInv
  <2>2. ASSUME IsOver' PROVE bp_head(breaks'.bp[breaks'.step]) = "op"
    <3>1. Alike(y.bp[y.step], breaks.bp[y.step]) /\ y.step # 0 /\ y.bp[y.step].test = "over"
      BY <2>2 DEF IsOver
    <3>2. IsOver
      BY <3>1 DEF IsOver, Alike
    <3>3. bp_head(breaks.bp[y.step]) = "op"
      BY <3>2 DEF Roles, DInv
    <3> QED
      BY <3>1, <3>3 DEF Alike, bp_head
  <2> QED
    BY <2>1, <2>2 DEF Roles
<1>4. Machines' /\ Honest' /\ client' \in Clients
  BY DEF Machines, Honest, DInv
<1> QED
  BY <1>1, <1>2, <1>3, <1>4 DEF DInv

LEMMA AsItemIs ==
    ASSUME NEW i \in Asks
    PROVE  AsItem(i) \in Item
<1>1. /\ i.kind \in {"memory", "opcode"} /\ i.physical \in BOOLEAN
      /\ i.mode \subseteq Access /\ i.span \subseteq Nat
  BY AsksAssumption
<1>2. Nowhere \in [Access -> Nat]
  BY DEF Nowhere
<1> QED
  BY <1>1, <1>2 DEF AsItem, Item

LEMMA AddItemKeeps == DInv /\ AddItem => DInv'
<1> SUFFICES ASSUME DInv, AddItem PROVE DInv'
  OBVIOUS
<1>1. "edit" \in client.does /\ UNCHANGED <<client, machine, outcome>>
  BY DEF AddItem, Does
<1>2. PICK i \in Asks : LET r == set_bp(breaks, AsItem(i))
                        IN  breaks' = r.z /\ items' = Append(items, r.item)
  BY DEF AddItem
<1> DEFINE d == AsItem(i)
           r == set_bp(breaks, d)
           slots == "slots" \in client.does
<1>3. ~slots
      /\ (breaks.step # 0 => breaks.step \in Held(breaks))
  BY <1>1, User
<1>4. d \in Item
  BY AsItemIs
<1>5. breaks' = r.z /\ items' = Append(items, r.item)
  BY <1>2
<1>6. Good(breaks) /\ Ledger(slots, breaks, items)
  BY DEF DInv, Ours
<1> HIDE DEF d
<1>7. Setting(breaks, r, Access)
  BY <1>4, <1>6, Sets
<1> HIDE DEF r, slots
<1> DEFINE y == r.z
           j == r.item
<1>8. /\ Good(y) /\ Aside(y, breaks) /\ Partly(y, j, Access) /\ j \in Item
      /\ \A b : b \in Held(y) <=> b \in Held(breaks) \/ b \in Uses(j, Access)
      /\ \A b \in Uses(j, Access) : b \notin Held(breaks)
      /\ \A b \in Held(breaks) : Alike(y.bp[b], breaks.bp[b])
  BY <1>7 DEF Setting, Partly
<1> HIDE DEF y, j
<1>9. Use(slots, j) = Uses(j, Access) /\ Fits(slots, y, j)
  BY <1>3, <1>8 DEF Use, Fits
<1>10. y.step = breaks.step
  BY <1>8 DEF Aside
<1>11. Ledger(slots, y, Append(items, j))
  <2>1. j \in (IF slots THEN Slot ELSE Item)
    BY <1>3, <1>8
  <2> QED
    BY <1>6, <1>8, <1>9, <1>10, <2>1, LedgerOfAppend
<1>12. breaks.step # 0 => Alike(y.bp[breaks.step], breaks.bp[breaks.step])
  BY <1>3, <1>8 DEF Alike
<1>13. y = breaks' /\ items' = Append(items, j)
  BY <1>5 DEF y, j
<1> QED
  BY <1>1, <1>3, <1>8, <1>10, <1>11, <1>12, <1>13, Changed DEF slots

LEMMA RemoveItemKeeps == DInv /\ RemoveItem => DInv'
<1> SUFFICES ASSUME DInv, RemoveItem PROVE DInv'
  OBVIOUS
<1>1. "edit" \in client.does /\ UNCHANGED <<client, machine, outcome>>
  BY DEF RemoveItem, Does
<1>2. PICK n \in DOMAIN items : breaks' = unset_bp(breaks, items[n]) /\ items' = RemoveAt(items, n)
  BY DEF RemoveItem
<1> DEFINE slots == "slots" \in client.does
           d == items[n]
           y == unset_bp(breaks, d)
<1>3. ~slots
      /\ (breaks.step # 0 => breaks.step \in Held(breaks))
  BY <1>1, User
<1>4. Good(breaks) /\ Ledger(slots, breaks, items)
  BY DEF DInv, Ours
<1>5. Fits(slots, breaks, d) /\ breaks.step \notin Use(slots, d)
  BY <1>4 DEF Ledger
<1>6. Partly(breaks, d, Access) /\ Use(slots, d) = Uses(d, Access)
  BY <1>3, <1>5 DEF Fits, Use
<1>13. y = breaks' /\ items' = RemoveAt(items, n)
  BY <1>2
<1> HIDE DEF d
<1>7. Unsetting(breaks, y, Uses(d, Access))
  BY <1>4, <1>6, Unsets
<1> HIDE DEF y, slots
<1>8. /\ Good(y) /\ Aside(y, breaks)
      /\ \A b : b \in Held(y) <=> b \in Held(breaks) /\ b \notin Use(slots, d)
      /\ \A b \in Held(y) : Alike(y.bp[b], breaks.bp[b])
  BY <1>6, <1>7 DEF Unsetting
<1>10. y.step = breaks.step
  BY <1>8 DEF Aside
<1>11. Ledger(slots, y, RemoveAt(items, n))
  BY <1>4, <1>8, <1>10, LedgerOfRemoveAt DEF d
<1>12. breaks.step # 0 => Alike(y.bp[breaks.step], breaks.bp[breaks.step])
  BY <1>3, <1>5, <1>8 DEF Alike
<1> QED
  BY <1>1, <1>3, <1>8, <1>10, <1>11, <1>12, <1>13, Changed DEF slots

LEMMA ChangeItemKeeps ==
    ASSUME DInv, "edit" \in client.does, UNCHANGED <<client, machine, outcome>>,
           NEW n \in DOMAIN items, NEW d \in Item, ChangeItem(n, d)
    PROVE  DInv'
<1> DEFINE slots == "slots" \in client.does
           c == items[n]
           u == unset_bp(breaks, c)
           r == set_bp(u, d)
           y == r.z
           j == r.item
<1>3. ~slots
      /\ (breaks.step # 0 => breaks.step \in Held(breaks))
  BY User
<1>4. Good(breaks) /\ Ledger(slots, breaks, items)
  BY DEF DInv, Ours
<1>5. Fits(slots, breaks, c) /\ breaks.step \notin Use(slots, c)
  BY <1>4 DEF Ledger
<1>6. Partly(breaks, c, Access) /\ Use(slots, c) = Uses(c, Access)
  BY <1>3, <1>5 DEF Fits, Use
<1>13. y = breaks' /\ items' = [items EXCEPT ![n] = j]
  BY DEF ChangeItem
<1> HIDE DEF c
<1>7. Unsetting(breaks, u, Uses(c, Access))
  BY <1>4, <1>6, Unsets
<1> HIDE DEF u, slots
<1>8. /\ Good(u) /\ Aside(u, breaks)
      /\ \A b : b \in Held(u) <=> b \in Held(breaks) /\ b \notin Use(slots, c)
      /\ \A b \in Held(u) : Alike(u.bp[b], breaks.bp[b])
  BY <1>6, <1>7 DEF Unsetting
<1>9. Setting(u, r, Access)
  BY <1>8, Sets
<1> HIDE DEF r
<1>14. /\ Good(y) /\ Aside(y, u) /\ Partly(y, j, Access) /\ j \in Item
       /\ \A b : b \in Held(y) <=> b \in Held(u) \/ b \in Uses(j, Access)
       /\ \A b \in Uses(j, Access) : b \notin Held(u)
       /\ \A b \in Held(u) : Alike(y.bp[b], u.bp[b])
  BY <1>9 DEF Setting, Partly
<1> HIDE DEF y, j
<1>15. Use(slots, j) = Uses(j, Access) /\ Fits(slots, y, j)
  BY <1>3, <1>14 DEF Use, Fits
<1>10. y.step = breaks.step
  BY <1>8, <1>14 DEF Aside
<1>16. /\ \A b : b \in Held(y) <=> \/ b \in Held(breaks) /\ b \notin Use(slots, c)
                                   \/ b \in Use(slots, j)
       /\ \A b \in Use(slots, j) : b \notin Held(breaks) \/ b \in Use(slots, c)
  BY <1>8, <1>14, <1>15
<1>17. \A b \in Held(breaks) : b \notin Use(slots, c) => Alike(y.bp[b], breaks.bp[b])
  BY <1>8, <1>14 DEF Alike
<1>11. Ledger(slots, y, [items EXCEPT ![n] = j])
  <2>1. j \in (IF slots THEN Slot ELSE Item)
    BY <1>3, <1>14
  <2> QED
    BY <1>4, <1>10, <1>15, <1>16, <1>17, <2>1, LedgerOfChange DEF c
<1>12. breaks.step # 0 => Alike(y.bp[breaks.step], breaks.bp[breaks.step])
  BY <1>3, <1>5, <1>17 DEF Alike
<1> QED
  BY <1>3, <1>10, <1>11, <1>12, <1>13, <1>14, Changed DEF slots

LEMMA EditItemKeeps == DInv /\ EditItem => DInv'
<1> SUFFICES ASSUME DInv, EditItem PROVE DInv'
  OBVIOUS
<1>1. "edit" \in client.does /\ UNCHANGED <<client, machine, outcome>>
  BY DEF EditItem, Does
<1>2. PICK n \in DOMAIN items : \/ \E i \in Asks : ChangeItem(n, AsItem(i))
                                \/ ChangeItem(n, [items[n] EXCEPT !.disabled = ~@])
  BY DEF EditItem
<1>3. CASE \E i \in Asks : ChangeItem(n, AsItem(i))
  <2>1. PICK i \in Asks : ChangeItem(n, AsItem(i))
    BY <1>3
  <2>2. AsItem(i) \in Item
    BY AsItemIs
  <2> QED
    BY <1>1, <2>1, <2>2, ChangeItemKeeps
<1>4. CASE ChangeItem(n, [items[n] EXCEPT !.disabled = ~@])
  <2>1. items[n] \in Item
    <3>1. ~("slots" \in client.does) /\ items \in Seq(IF "slots" \in client.does THEN Slot ELSE Item)
      BY <1>1, User
    <3>2. items \in Seq(Item)
      BY <3>1
    <3> QED
      BY <3>2
  <2> DEFINE d == [items[n] EXCEPT !.disabled = ~@]
  <2>2. d \in Item
    <3> DEFINE c == items[n]
    <3>1. c \in Item /\ d = [c EXCEPT !.disabled = ~c.disabled]
      BY <2>1 DEF Item
    <3> HIDE DEF c, d
    <3> QED
      BY <3>1 DEF Item
  <2> HIDE DEF d
  <2>3. ChangeItem(n, d)
    BY <1>4 DEF d
  <2> QED
    BY <1>1, <2>2, <2>3, ChangeItemKeeps
<1> QED
  BY <1>2, <1>3, <1>4

-----------------------------------------------------------------------------
(* The slots of Calc.                                                      *)

LEMMA ExecIs == Exec \in Types /\ "none" \in Tests
BY DEF Exec, Types, Kinds, Tests

LEMMA SlotAddKeeps == DInv /\ SlotAdd => DInv'
<1> SUFFICES ASSUME DInv, SlotAdd PROVE DInv'
  OBVIOUS
<1> DEFINE slots == "slots" \in client.does
           a == add_breakpoint(breaks, Exec, {0}, "none")
           y == a.z
           i == [id |-> a.id, type |-> Exec, span |-> {0}]
<1>1. /\ slots /\ UNCHANGED <<client, machine, outcome>> /\ Len(items) < client.items
      /\ y = breaks' /\ items' = Append(items, i)
  BY DEF SlotAdd, Does
<1>2. /\ client.items \in Nat /\ Len(items) \in Nat
      /\ (breaks.step # 0 => breaks.step \in Held(breaks))
      /\ items \in Seq(IF slots THEN Slot ELSE Item)
  BY <1>1, User
<1>3. Good(breaks) /\ Ledger(slots, breaks, items)
  BY DEF DInv, Ours
<1> HIDE DEF slots
<1>4. Added(breaks, a, Exec, {0}, "none")
  <2>1. {0} \in SUBSET Nat
    OBVIOUS
  <2> QED
    BY <1>3, <2>1, ExecIs, Adds
<1> HIDE DEF a
<1>5. /\ Good(y) /\ Aside(y, breaks) /\ a.id \notin Held(breaks) /\ a.id \in Nat
      /\ Held(y) = Held(breaks) \cup {a.id}
      /\ Holds(y, a.id, Exec, {0}, "none")
      /\ \A u \in Held(breaks) : Alike(y.bp[u], breaks.bp[u])
  BY <1>4 DEF Added
<1> HIDE DEF y
<1>6. /\ Use(slots, i) = {a.id} /\ Fits(slots, y, i) /\ i \in (IF slots THEN Slot ELSE Item)
  BY <1>1, <1>5, ExecIs DEF Use, Fits, Slot
<1> HIDE DEF i
<1>7. y.step = breaks.step
  BY <1>5 DEF Aside
<1>8. Ledger(slots, y, Append(items, i))
  <2>1. \A b : b \in Held(y) <=> b \in Held(breaks) \/ b \in Use(slots, i)
    BY <1>5, <1>6
  <2>2. \A b \in Use(slots, i) : b \notin Held(breaks)
    BY <1>5, <1>6
  <2> QED
    BY <1>3, <1>5, <1>6, <1>7, <2>1, <2>2, LedgerOfAppend
<1>9. breaks.step # 0 => Alike(y.bp[breaks.step], breaks.bp[breaks.step])
  BY <1>2, <1>5 DEF Alike
<1> QED
  BY <1>1, <1>2, <1>5, <1>7, <1>8, <1>9, Changed DEF slots

LEMMA SlotRemoveKeeps == DInv /\ SlotRemove => DInv'
<1> SUFFICES ASSUME DInv, SlotRemove PROVE DInv'
  OBVIOUS
<1> DEFINE slots == "slots" \in client.does
<1>1. PICK n \in DOMAIN items :
         breaks' = remove_breakpoint(breaks, items[n].id) /\ items' = RemoveAt(items, n)
  BY DEF SlotRemove
<1> DEFINE i == items[n]
           b == i.id
           y == remove_breakpoint(breaks, b)
<1>2. /\ slots /\ UNCHANGED <<client, machine, outcome>>
      /\ y = breaks' /\ items' = RemoveAt(items, n)
  BY <1>1 DEF SlotRemove, Does
<1>3. /\ Len(items) \in Nat
      /\ (breaks.step # 0 => breaks.step \in Held(breaks))
      /\ items \in Seq(IF slots THEN Slot ELSE Item)
  BY <1>2, User
<1>4. Good(breaks) /\ Ledger(slots, breaks, items)
  BY DEF DInv, Ours
<1>5. breaks.step \notin Use(slots, i) /\ Use(slots, i) = {b}
  BY <1>2, <1>4 DEF Ledger, Use
<1> HIDE DEF i, b, slots
<1>6. Removed(breaks, y, b)
  BY <1>4, Removes
<1> HIDE DEF y
<1>7. /\ Good(y) /\ Aside(y, breaks) /\ Held(y) = Held(breaks) \ {b}
      /\ \A u \in Held(y) : Alike(y.bp[u], breaks.bp[u])
  BY <1>6 DEF Removed
<1>8. y.step = breaks.step
  BY <1>7 DEF Aside
<1>9. Ledger(slots, y, RemoveAt(items, n))
  <2>1. \A u : u \in Held(y) <=> u \in Held(breaks) /\ u \notin Use(slots, items[n])
    BY <1>5, <1>7 DEF i
  <2> QED
    BY <1>4, <1>7, <1>8, <2>1, LedgerOfRemoveAt
<1>10. breaks.step # 0 => Alike(y.bp[breaks.step], breaks.bp[breaks.step])
  BY <1>3, <1>5, <1>7 DEF Alike
<1> QED
  BY <1>2, <1>3, <1>7, <1>8, <1>9, <1>10, Changed DEF slots

\* A slot is replaced by another of the same id.
LEMMA SlotIs ==
    ASSUME NEW i \in Slot, NEW t \in Types, NEW span \in SUBSET Nat
    PROVE  /\ LET j == [i EXCEPT !.type = t]
              IN  j \in Slot /\ j.id = i.id /\ j.type = t /\ j.span = i.span
           /\ LET j == [i EXCEPT !.span = span]
              IN  j \in Slot /\ j.id = i.id /\ j.type = i.type /\ j.span = span
BY DEF Slot

LEMMA SlotChanged ==
    ASSUME DInv, "slots" \in client.does, UNCHANGED <<client, machine, outcome>>,
           NEW n \in DOMAIN items, NEW j \in Slot, j.id = items[n].id,
           items' = [items EXCEPT ![n] = j],
           NEW y, y = breaks', Good(y), Aside(y, breaks), Held(y) = Held(breaks),
           Holds(y, j.id, j.type, j.span, "none"),
           \A u \in Held(breaks) : u # j.id => Alike(y.bp[u], breaks.bp[u])
    PROVE  DInv'
<1> DEFINE slots == "slots" \in client.does
           i == items[n]
<1>1. /\ Len(items) \in Nat
      /\ (breaks.step # 0 => breaks.step \in Held(breaks))
      /\ items \in Seq(IF slots THEN Slot ELSE Item)
  BY User
<1>2. Good(breaks) /\ Ledger(slots, breaks, items)
  BY DEF DInv, Ours
<1>3. breaks.step \notin Use(slots, i) /\ Use(slots, i) = {j.id} /\ Use(slots, j) = {j.id}
      /\ Fits(slots, breaks, i)
  BY <1>2 DEF Ledger, Use
<1>4. Fits(slots, y, j)
  BY DEF Fits
<1>5. j.id \in Held(breaks)
  BY DEF Holds
<1>6. y.step = breaks.step
  BY DEF Aside
<1>s. slots
  OBVIOUS
<1> HIDE DEF slots
<1>7. Ledger(slots, y, [items EXCEPT ![n] = j])
  <2>1. j \in (IF slots THEN Slot ELSE Item)
    BY <1>s
  <2>2. \A b : b \in Held(y) <=> \/ b \in Held(breaks) /\ b \notin Use(slots, items[n])
                              \/ b \in Use(slots, j)
    BY <1>3, <1>5
  <2>3. \A b \in Use(slots, j) : b \notin Held(breaks) \/ b \in Use(slots, items[n])
    BY <1>3
  <2>4. \A b \in Held(breaks) : b \notin Use(slots, items[n]) => Alike(y.bp[b], breaks.bp[b])
    BY <1>3
  <2> QED
    BY <1>2, <1>4, <1>6, <2>1, <2>2, <2>3, <2>4, LedgerOfChange
<1>8. breaks.step # 0 => Alike(y.bp[breaks.step], breaks.bp[breaks.step])
  BY <1>1, <1>3 DEF Alike
<1> QED
  BY <1>1, <1>6, <1>7, <1>8, Changed DEF slots

\* What a slot says is what its entry holds.
LEMMA SlotHolds ==
    ASSUME DInv, "slots" \in client.does, NEW n \in DOMAIN items
    PROVE  /\ items[n] \in Slot
           /\ Holds(breaks, items[n].id, items[n].type, items[n].span, "none")
<1>1. \A m \in DOMAIN items : Fits("slots" \in client.does, breaks, items[m])
  BY DEF DInv, Ours, Ledger
<1> QED
  BY <1>1 DEF Fits

LEMMA SlotSetTypeKeeps == DInv /\ SlotSetType => DInv' \/ spoilt'
<1> SUFFICES ASSUME DInv, SlotSetType, ~spoilt' PROVE DInv'
  OBVIOUS
<1>1. PICK n \in DOMAIN items, kind \in {"mx", "mw"}, physical \in BOOLEAN :
         LET t == [kind |-> kind, physical |-> physical, disabled |-> FALSE]
         IN  /\ breaks' = set_breakpoint_type(breaks, items[n].id, t)
             /\ items' = [items EXCEPT ![n].type = t]
             /\ spoilt' = (spoilt \/ (breaks.bp[items[n].id].prev # 0 /\ t # items[n].type))
  BY DEF SlotSetType
<1> DEFINE t == [kind |-> kind, physical |-> physical, disabled |-> FALSE]
           i == items[n]
           b == i.id
           j == [i EXCEPT !.type = t]
           y == set_breakpoint_type(breaks, b, t)
<1>2. "types" \in client.does /\ "slots" \in client.does /\ UNCHANGED <<client, machine, outcome>>
  BY User DEF SlotSetType, Does
<1>3. t \in Types
  BY DEF Types, Kinds
<1>4. i \in Slot /\ Holds(breaks, b, i.type, i.span, "none") /\ Good(breaks)
  BY <1>2, SlotHolds DEF DInv
<1>5. breaks.bp[b].prev = 0 \/ Typed(breaks.bp[b], t) = breaks.bp[b]
  <2> SUFFICES ASSUME breaks.bp[b].prev # 0 PROVE Typed(breaks.bp[b], t) = breaks.bp[b]
    OBVIOUS
  <2>1. t = i.type
    BY <1>1
  <2> HIDE DEF t, i, b
  <2> DEFINE e == breaks.bp[b]
  <2>2. e \in Entry /\ e.kind = t.kind /\ e.physical = t.physical /\ e.disabled = t.disabled
    BY <1>4, <2>1, GoodTyped DEF Holds
  <2> HIDE DEF e
  <2>3. Typed(e, t) = e
    BY <2>2 DEF Typed, Entry
  <2> QED
    BY <2>3 DEF e
<1>6. y = breaks' /\ items' = [items EXCEPT ![n] = j]
  BY <1>1
<1> HIDE DEF t, i
<1>7. j \in Slot /\ j.id = b /\ j.type = t /\ j.span = i.span
  <2>1. {} \in SUBSET Nat
    OBVIOUS
  <2> QED
    BY <1>3, <1>4, <2>1, SlotIs
<1> HIDE DEF b, j
<1>8. /\ Good(y) /\ Aside(y, breaks) /\ Held(y) = Held(breaks)
      /\ Holds(y, b, t, breaks.bp[b].span, breaks.bp[b].test)
      /\ \A u \in Held(breaks) : u # b => Alike(y.bp[u], breaks.bp[u])
  BY <1>3, <1>4, <1>5, Retypes DEF Holds
<1> HIDE DEF y
<1>9. Holds(y, j.id, j.type, j.span, "none")
  <2>1. breaks.bp[b].span = i.span /\ breaks.bp[b].test = "none"
    BY <1>4 DEF Holds
  <2> QED
    BY <1>7, <1>8, <2>1
<1>10. \A u \in Held(breaks) : u # j.id => Alike(y.bp[u], breaks.bp[u])
  BY <1>7, <1>8
<1>11. j.id = items[n].id
  BY <1>7 DEF b, i
<1> QED
  BY <1>2, <1>6, <1>7, <1>8, <1>9, <1>10, <1>11, SlotChanged

LEMMA SlotSetAddressKeeps == DInv /\ SlotSetAddress => DInv'
<1> SUFFICES ASSUME DInv, SlotSetAddress PROVE DInv'
  OBVIOUS
<1>1. PICK n \in DOMAIN items, a \in CodeAddress :
         /\ breaks' = set_breakpoint_address(breaks, items[n].id, {a})
         /\ items' = [items EXCEPT ![n].span = {a}]
  BY DEF SlotSetAddress
<1> DEFINE i == items[n]
           b == i.id
           j == [i EXCEPT !.span = {a}]
           y == set_breakpoint_address(breaks, b, {a})
<1>2. "slots" \in client.does /\ UNCHANGED <<client, machine, outcome>>
  BY DEF SlotSetAddress, Does
<1>3. {a} \in SUBSET Nat
  BY AddressAssumption DEF CodeAddress
<1>4. i \in Slot /\ Holds(breaks, b, i.type, i.span, "none") /\ Good(breaks)
  BY <1>2, SlotHolds DEF DInv
<1>6. y = breaks' /\ items' = [items EXCEPT ![n] = j]
  BY <1>1
<1> HIDE DEF i
<1>7. j \in Slot /\ j.id = b /\ j.type = i.type /\ j.span = {a}
  BY <1>3, <1>4, ExecIs, SlotIs
<1> HIDE DEF b, j
<1>8. /\ Good(y) /\ Aside(y, breaks) /\ Held(y) = Held(breaks)
      /\ Holds(y, b, breaks.bp[b], {a}, breaks.bp[b].test)
      /\ \A u \in Held(breaks) : u # b => y.bp[u] = breaks.bp[u]
  BY <1>3, <1>4, Readdresses DEF Holds
<1> HIDE DEF y
<1>9. Holds(y, j.id, j.type, j.span, "none")
  BY <1>4, <1>7, <1>8 DEF Holds
<1>10. \A u \in Held(breaks) : u # j.id => Alike(y.bp[u], breaks.bp[u])
  BY <1>7, <1>8 DEF Alike
<1>11. j.id = items[n].id
  BY <1>7 DEF b, i
<1> QED
  BY <1>2, <1>6, <1>7, <1>8, <1>9, <1>10, <1>11, SlotChanged

-----------------------------------------------------------------------------
(* Steps.                                                                  *)

LEMMA GoodRecord ==
    ASSUME NEW z, Good(z)
    PROVE  \E D : z \in Arrays(D)
BY DEF Good, Out, Sized

LEMMA NextLineIs == DInv => NextLine \in Nat
<1> SUFFICES ASSUME DInv PROVE NextLine \in Nat
  OBVIOUS
<1>1. machine.pc + 1 \in Nat /\ MaxAddress + 1 \in Nat /\ MaxAddress + 1 > 0
  BY AddressAssumption DEF DInv, Machines
<1> DEFINE p == machine.pc + 1
           m == MaxAddress + 1
<1> HIDE DEF p, m
<1>2. p \in Nat /\ m \in Nat /\ m > 0
  BY <1>1 DEF p, m
<1>3. p % m \in Nat
  BY <1>2
<1> QED
  BY <1>3 DEF NextLine, p, m

LEMMA StepKeeps ==
    ASSUME DInv, UNCHANGED client, NEW test \in {"step", "over", "finish"},
           run_with_step_condition(test), "slots" \notin client.does
    PROVE  DInv'
<1> DEFINE slots == "slots" \in client.does
           span == {OpcodeOf[k] : k \in DOMAIN OpcodeOf}
           a == add_breakpoint(cancel_step_bp(breaks), AnyOpcode, span, test)
           dest == IF test = "over" THEN NextLine ELSE a.z.dest
           exit == IF test = "finish" THEN Len(machine.stack) ELSE a.z.exit
           y == Marked(a.z, a.id, dest, exit)
<1>1. Good(breaks) /\ Ledger(slots, breaks, items)
  BY DEF DInv, Ours
<1>2. AnyOpcode \in Types /\ test \in Tests
  BY DEF AnyOpcode, Types, Kinds, Tests
<1>3. span \in SUBSET Nat
  BY DEF OpcodeOf
<1>4. /\ breaks' = [a.z EXCEPT !.step = a.id,
                            !.dest = IF test = "over" THEN NextLine ELSE @,
                            !.exit = IF test = "finish" THEN Len(machine.stack) ELSE @]
      /\ UNCHANGED <<machine, items, outcome>>
  BY DEF run_with_step_condition
<1> HIDE DEF span, a, slots
<1>5. Good(a.z)
  <2>1. Good(cancel_step_bp(breaks))
    BY <1>1, Cancels DEF Canceled
  <2>2. Added(cancel_step_bp(breaks), a, AnyOpcode, span, test)
    BY <1>2, <1>3, <2>1, Adds DEF a
  <2> QED
    BY <2>2 DEF Added
<1>6. breaks' = y
  <2>1. PICK D : a.z \in Arrays(D)
    BY <1>5, GoodRecord
  <2> QED
    BY <1>4, <2>1 DEF Arrays, Marked
<1>7. dest \in Nat /\ exit \in Nat
  <2>1. a.z.dest \in Nat /\ a.z.exit \in Nat
    BY <1>5, GoodTyped
  <2>2. Len(machine.stack) \in Nat
    BY DEF DInv, Machines
  <2> QED
    BY <2>1, <2>2, NextLineIs
<1> HIDE DEF dest, exit
<1>8. Stepped(slots, y, items, AnyOpcode, test)
  BY <1>1, <1>2, <1>3, <1>7, StepsWith DEF a
<1> HIDE DEF y
<1>9. Good(breaks')
  BY <1>6, <1>8 DEF Stepped
<1>10. Ours'
  BY <1>4, <1>6, <1>8 DEF Stepped, Ours, slots
<1>11. Roles'
  <2>1. bp_head(breaks'.bp[breaks'.step]) = bp_head(AnyOpcode)
    BY <1>6, <1>8 DEF Stepped
  <2>2. bp_head(AnyOpcode) = "op"
    BY DEF AnyOpcode, bp_head
  <2> QED
    BY <2>1, <2>2 DEF Roles
<1>12. Machines' /\ Honest' /\ client' \in Clients
  BY <1>4 DEF Machines, Honest, DInv
<1> QED
  BY <1>9, <1>10, <1>11, <1>12 DEF DInv

LEMMA StepsKeep == DInv /\ (StepIn \/ StepOver \/ StepOut) => DInv'
<1>1. ASSUME DInv, StepIn PROVE DInv'
  <2>1. "step" \in client.does /\ UNCHANGED client /\ run_with_step_condition("step")
    BY <1>1 DEF StepIn, Does
  <2>2. "slots" \notin client.does
    BY <1>1, <2>1, User
  <2> QED
    BY <1>1, <2>1, <2>2, StepKeeps
<1>2. ASSUME DInv, StepOver PROVE DInv'
  <2>1. "over" \in client.does /\ UNCHANGED client /\ run_with_step_condition("over")
    BY <1>2 DEF StepOver, Does
  <2>2. "slots" \notin client.does
    BY <1>2, <2>1, User
  <2> QED
    BY <1>2, <2>1, <2>2, StepKeeps
<1>3. ASSUME DInv, StepOut PROVE DInv'
  <2>1. "finish" \in client.does /\ UNCHANGED client /\ run_with_step_condition("finish")
    BY <1>3 DEF StepOut, Does
  <2>2. "slots" \notin client.does
    BY <1>3, <2>1, User
  <2> QED
    BY <1>3, <2>1, <2>2, StepKeeps
<1> QED
  BY <1>1, <1>2, <1>3

LEMMA CancelKeeps ==
    ASSUME DInv, UNCHANGED <<client, machine, items, outcome>>, breaks' = cancel_step_bp(breaks)
    PROVE  DInv'
<1>1. Good(breaks) /\ Ours
  BY DEF DInv
<1>2. Canceled(breaks, breaks')
  BY <1>1, Cancels
<1>3. Good(breaks') /\ breaks'.step = 0
  BY <1>2 DEF Canceled
<1>4. Ours'
  BY <1>1, LedgerOfCancel DEF Ours
<1>5. Roles'
  BY <1>3 DEF Roles, IsOver, DInv
<1>6. Machines' /\ Honest' /\ client' \in Clients
  BY DEF Machines, Honest, DInv
<1> QED
  BY <1>3, <1>4, <1>5, <1>6 DEF DInv

LEMMA CancelsKeep == DInv /\ (Continue \/ Pause \/ ShowsLate) => DInv'
BY CancelKeeps DEF Continue, Pause, ShowsLate, tilem_debugger_show, Does

LEMMA CalcChangedKeeps == DInv /\ CalcChanged => DInv'
<1> SUFFICES ASSUME DInv, CalcChanged PROVE DInv'
  OBVIOUS
<1>1. /\ UNCHANGED <<client, outcome>> /\ breaks' = NoBreakpoints /\ items' = <<>>
      /\ machine' = [pc |-> 1, stack |-> <<>>]
  BY DEF CalcChanged, Does
<1>2. Good(breaks') /\ Ours' /\ breaks'.step = 0
  BY <1>1, Empty DEF Ours
<1>3. Machines'
  BY <1>1 DEF Machines
<1>5. Roles'
  BY <1>2 DEF Roles, IsOver
<1>6. Honest' /\ client' \in Clients
  BY <1>1 DEF Honest, DInv
<1> QED
  BY <1>2, <1>3, <1>5, <1>6 DEF DInv

-----------------------------------------------------------------------------
(* An instruction.                                                         *)

\* An access, whatever it is an access to.
AccessTo(x) == x[1] \in BpLists

Accessing(stores, data, op, halts, to) ==
    (IF stores THEN check_mem_breakpoints("mw", "mpw", data) ELSE <<>>)
        \o <<<<"op", op>>>>
        \o (IF halts THEN <<>> ELSE check_mem_breakpoints("mx", "mpx", to))

LEMMA AccessesOf ==
    ASSUME NEW stores, NEW data, NEW op, NEW halts, NEW to, NEW s,
           s = Accessing(stores, data, op, halts, to)
    PROVE  Accesses(s, Len(s)) /\ DOMAIN s = 1..Len(s)
<1> DEFINE x1 == <<"mw", data>>
           x2 == <<"mpw", Ltop[data]>>
           x3 == <<"op", op>>
           x4 == <<"mx", to>>
           x5 == <<"mpx", Ltop[to]>>
           T == {x1, x2, x3, x4, x5}
           a == IF stores THEN <<x1, x2>> ELSE <<>>
           b == <<x3>>
           c == IF halts THEN <<>> ELSE <<x4, x5>>
<1>1. s = a \o b \o c
  BY DEF check_mem_breakpoints, Accessing
<1>2. \A x \in T : AccessTo(x)
  BY DEF AccessTo, BpLists
<1>3. a \in Seq(T) /\ Len(a) \in {0, 2}
  <2>1. x1 \in T /\ x2 \in T
    OBVIOUS
  <2> HIDE DEF x1, x2, T
  <2> QED
    BY <2>1
<1>4. b \in Seq(T) /\ Len(b) = 1
  <2>1. x3 \in T
    OBVIOUS
  <2> HIDE DEF x3, T
  <2> QED
    BY <2>1
<1>5. c \in Seq(T) /\ Len(c) \in {0, 2}
  <2>1. x4 \in T /\ x5 \in T
    OBVIOUS
  <2> HIDE DEF x4, x5, T
  <2> QED
    BY <2>1
<1> HIDE DEF T, a, b, c
<1>6. a \o b \in Seq(T) /\ Len(a \o b) = Len(a) + 1
  <2>1. a \o b \in Seq(T) /\ Len(a \o b) = Len(a) + Len(b)
    BY <1>3, <1>4, ConcatProperties
  <2> QED
    BY <1>4, <2>1
<1>7. s \in Seq(T) /\ Len(s) = (Len(a) + 1) + Len(c)
  <2> DEFINE d == a \o b
  <2> HIDE DEF d
  <2>1. d \in Seq(T) /\ s = d \o c /\ Len(d) = Len(a) + 1
    BY <1>1, <1>6 DEF d
  <2>2. d \o c \in Seq(T) /\ Len(d \o c) = Len(d) + Len(c)
    BY <1>5, <2>1, ConcatProperties
  <2> QED
    BY <2>1, <2>2
<1>8. Len(s) \in 0..5 /\ DOMAIN s = 1..Len(s)
  <2>1. ASSUME NEW k \in {0, 2}, NEW m \in {0, 2} PROVE (k + 1) + m \in 0..5
    BY <2>1
  <2>3. Len(s) \in 0..5
    BY <1>3, <1>5, <1>7, <2>1
  <2>2. DOMAIN s = 1..Len(s)
    BY <1>7, LenProperties
  <2> QED
    BY <2>2, <2>3
<1>9. \A k \in 1..Len(s) : s[k] \in T
  BY <1>7, ElementOfSeq
<1>10. \A k \in 1..Len(s) : s[k][1] \in BpLists
  BY <1>2, <1>9 DEF AccessTo
<1> QED
  BY <1>8, <1>10 DEF Accesses

\* The lists during an instruction: as they were, or the step is replaced.
Fine(z, c) == z = breaks \/ (IsOver /\ z = step_over(breaks, c))

LEMMA Others ==
    ASSUME DInv
    PROVE  \A u \in Held(breaks) : u # breaks.step => breaks.bp[u].test = "none"
<1> SUFFICES ASSUME NEW u \in Held(breaks), u # breaks.step PROVE breaks.bp[u].test = "none"
  OBVIOUS
<1>1. Ours
  BY DEF DInv
<1>2. PICK q \in Asked : q.id = u
  BY <1>1, AskedIs
<1> QED
  BY <1>1, <1>2, AskedIs DEF AskedFor

LEMMA OverIs ==
    ASSUME DInv, IsOver, NEW c, c.pc \in Nat
    PROVE  /\ breaks.step \in On(breaks, "op") /\ breaks.step \in Held(breaks)
           /\ Replaced(breaks, breaks.step, step_over(breaks, c))
<1>1. breaks.step \in Held(breaks) /\ Good(breaks)
  BY User DEF DInv, IsOver
<1>2. breaks.step \in On(breaks, "op")
  BY <1>1 DEF DInv, Roles, On, Held
<1> QED
  BY <1>1, <1>2, StepsOver

LEMMA FineIs ==
    ASSUME DInv, NEW c, c.pc \in Nat, NEW z, Fine(z, c)
    PROVE  /\ Good(z) /\ z.step = breaks.step /\ Held(z) = Held(breaks)
           /\ \A u \in Held(breaks) : u # breaks.step => Alike(z.bp[u], breaks.bp[u])
           /\ z = breaks \/ (IsOver /\ z.bp[breaks.step].test = "none")
<1>1. CASE z = breaks
  BY <1>1 DEF DInv, Alike
<1>2. CASE IsOver /\ z = step_over(breaks, c)
  <2>1. Replaced(breaks, breaks.step, z)
    BY <1>2, OverIs
  <2> QED
    BY <1>2, <2>1 DEF Replaced
<1> QED
  BY <1>1, <1>2 DEF Fine

\* What an access stops at, besides the step, is what it should stop at.
Besides(H) == {h \in H : h[2] # breaks.step}

LEMMA StopsOne ==
    ASSUME DInv, NEW c, c.pc \in Nat, NEW z, Fine(z, c), NEW x
    PROVE  Besides(Stopped(x[1], Met(z, On(z, x[1]), x[2], c))) = Stops({x})
<1> DEFINE list == x[1]
           a == x[2]
           M == Met(z, On(z, list), a, c)
           H == Stopped(list, M)
<1>1. Ours
  BY DEF DInv
<1>2. Stops({x}) = {<<q.list, q.id>> : q \in {r \in Asked : list = r.list /\ a \in r.span}}
  BY DEF Stops
<1>3. /\ Held(z) = Held(breaks)
      /\ \A u \in Held(breaks) : u # breaks.step => Alike(z.bp[u], breaks.bp[u])
  BY FineIs
<1>4. ASSUME NEW u \in Held(breaks), u # breaks.step
      PROVE  /\ z.bp[u].test = "none" /\ z.bp[u].span = breaks.bp[u].span
             /\ bp_head(z.bp[u]) = bp_head(breaks.bp[u])
             /\ Tested(z, u, c).ok
  <2>1. Alike(z.bp[u], breaks.bp[u]) /\ breaks.bp[u].test = "none"
    BY <1>3, <1>4, Others
  <2>2. z.bp[u].test = "none"
    BY <2>1 DEF Alike
  <2> QED
    BY <2>1, <2>2 DEF Alike, bp_head, Tested
<1>5. \A u : u \in M <=> u \in On(z, list) /\ a \in z.bp[u].span /\ Tested(z, u, c).ok
  BY DEF Met
<1>6. \A u : u \in On(z, list) <=> u \in Held(breaks) /\ bp_head(z.bp[u]) = list
  BY <1>3 DEF On, Held
<1> HIDE DEF M
<1>7. ASSUME NEW h \in H, h[2] # breaks.step PROVE h \in Stops({x})
  <2>1. PICK u : u \in M /\ h = <<list, u>>
    BY DEF Stopped
  <2>2. u \in Held(breaks) /\ u # breaks.step /\ bp_head(z.bp[u]) = list /\ a \in z.bp[u].span
    BY <1>5, <1>6, <1>7, <2>1
  <2>3. PICK q \in Asked : q.id = u
    BY <1>1, <2>2, AskedIs
  <2>4. q.list = bp_head(breaks.bp[u]) /\ q.span = breaks.bp[u].span
    BY <1>1, <2>3, AskedIs DEF AskedFor
  <2>5. list = q.list /\ a \in q.span
    BY <1>4, <2>2, <2>4
  <2>6. h = <<q.list, q.id>>
    BY <2>1, <2>3, <2>5
  <2> HIDE DEF list, a, H
  <2> QED
    BY <1>2, <2>5, <2>6
<1>8. ASSUME NEW h \in Stops({x}) PROVE h \in H /\ h[2] # breaks.step
  <2>1. PICK q \in Asked : list = q.list /\ a \in q.span /\ h = <<q.list, q.id>>
    <3> HIDE DEF list, a
    <3> QED
      BY <1>2
  <2> DEFINE u == q.id
  <2>2. /\ u \in Held(breaks) /\ u # breaks.step
        /\ q.list = bp_head(breaks.bp[u]) /\ q.span = breaks.bp[u].span
    BY <1>1, AskedIs DEF AskedFor
  <2> HIDE DEF u
  <2>3. u \in M
    BY <1>4, <1>5, <1>6, <2>1, <2>2
  <2>4. h = <<list, u>> /\ h[2] = u
    BY <2>1 DEF u
  <2>5. h \in H
    BY <2>3, <2>4 DEF Stopped
  <2> QED
    BY <2>2, <2>4, <2>5
<1> HIDE DEF H
<1>9. Besides(H) = Stops({x})
  BY <1>7, <1>8 DEF Besides
<1> QED
  BY <1>9 DEF H, M

\* What one access adds to what the instruction stops at.
Meant(H, x) ==
    \/ Besides(H) = Stops({x})
    \/ Detours /\ x[1] = "op" /\ \A g \in H : g[1] = "op"

\* Where step over finds no entries for opcodes or addresses but its own.
LEMMA NoDetour ==
    ASSUME DInv, IsOver, ~Detours
    PROVE  /\ (On(breaks, "op") \cup On(breaks, "mx")) \ {breaks.step} = {}
           /\ \A q \in Asked : q.list # "op"
<1>1. Ours
  BY DEF DInv
<1>2. \A q \in Asked : q.list \notin {"op", "mx"}
  BY DEF Detours, IsOver
<1>3. ASSUME NEW u \in (On(breaks, "op") \cup On(breaks, "mx")) \ {breaks.step} PROVE FALSE
  <2>1. u \in Held(breaks) /\ u # breaks.step /\ bp_head(breaks.bp[u]) \in {"op", "mx"}
    BY DEF On, Held
  <2>2. PICK q \in Asked : q.id = u
    BY <1>1, <2>1, AskedIs
  <2>3. q.list = bp_head(breaks.bp[u])
    BY <1>1, <2>2, AskedIs DEF AskedFor
  <2> QED
    BY <1>2, <2>1, <2>3
<1> QED
  BY <1>2, <1>3

Gained(r, h, x, c) == \E H : r = Walking(r.z, h \cup H) /\ Fine(r.z, c) /\ Meant(H, x)

LEMMA AccessIs ==
    ASSUME DInv, NEW c, c.pc \in Nat, NEW z, Fine(z, c), NEW x, x[1] \in BpLists, NEW h,
           NEW r, r = check_breakpoints(Walking(z, h), x[1], x[2], c)
    PROVE  Gained(r, h, x, c)
<1> DEFINE list == x[1]
           a == x[2]
           b == breaks.step
<1>1. /\ Good(z) /\ z.step = b /\ Held(z) = Held(breaks)
      /\ \A u \in Held(breaks) : u # b => Alike(z.bp[u], breaks.bp[u])
      /\ z = breaks \/ (IsOver /\ z.bp[b].test = "none")
  BY FineIs
<1>2. \A u \in Held(breaks) : u # b => z.bp[u].test = "none"
  BY <1>1, Others DEF Alike
<1>3. CASE z = breaks /\ IsOver /\ list = "op" /\ a \in breaks.bp[b].span
  <2> DEFINE y == step_over(breaks, c)
             H == r.hits \ h
  <2>1. /\ b \in On(breaks, "op") /\ b \in Held(breaks) /\ Replaced(breaks, b, y)
        /\ breaks.bp[b].test = "over" /\ Good(breaks)
    BY <1>3, OverIs DEF IsOver, DInv
  <2>2. \A u \in Held(breaks) : u # b => breaks.bp[u].test = "none"
    BY Others
  <2>3. Detoured(breaks, b, y, r, h)
    <3> HIDE DEF b, y
    <3>1. b = breaks.step /\ y = step_over(breaks, c)
      BY DEF b, y
    <3>2. r = check_breakpoints(Walking(breaks, h), "op", a, c) /\ a \in breaks.bp[b].span
      BY <1>3
    <3> HIDE DEF a, list
    <3>3. Meets(breaks, b, y, c, a)
      BY <2>1, <2>2, <3>1, <3>2 DEF Meets
    <3>4. Detoured(breaks, b, y, check_breakpoints(Walking(breaks, h), "op", a, c), h)
      BY <2>1, <3>3, DetourWalked
    <3> QED
      BY <3>2, <3>4
  <2>4. /\ r = Walking(r.z, r.hits) /\ r.z \in {breaks, y} /\ h \subseteq r.hits
        /\ r.hits \subseteq h \cup Stopped("op", (On(breaks, "op") \cup On(breaks, "mx")) \ {b})
    BY <2>3 DEF Detoured
  <2>5. r.hits = h \cup H
    BY <2>4
  <2>6. Fine(r.z, c)
    BY <1>3, <2>4 DEF Fine
  <2>7. \A g \in H : g[1] = "op"
    BY <2>4 DEF Stopped
  <2>8. ASSUME Detours PROVE Meant(H, x)
    <3>1. x[1] = "op"
      BY <1>3
    <3> HIDE DEF H
    <3> QED
      BY <2>7, <2>8, <3>1 DEF Meant
  <2>9. ASSUME ~Detours PROVE Meant(H, x)
    <3>1. /\ (On(breaks, "op") \cup On(breaks, "mx")) \ {b} = {}
          /\ \A q \in Asked : q.list # "op"
      BY <1>3, <2>9, NoDetour
    <3>2. H = {}
      BY <2>4, <3>1 DEF Stopped
    <3>3. Stops({x}) = {}
      BY <1>3, <3>1 DEF Stops
    <3> HIDE DEF H
    <3>4. Besides(H) = {}
      BY <3>2 DEF Besides
    <3> QED
      BY <3>3, <3>4 DEF Meant
  <2> HIDE DEF H, list
  <2> QED
    BY <2>4, <2>5, <2>6, <2>8, <2>9 DEF Gained
<1>4. CASE ~(z = breaks /\ IsOver /\ list = "op" /\ a \in breaks.bp[b].span)
  <2> DEFINE H == Stopped(list, Met(z, On(z, list), a, c))
  <2>1. ASSUME NEW u \in On(z, list), a \in z.bp[u].span PROVE z.bp[u].test \in Passive
    <3>1. u \in Held(z) /\ bp_head(z.bp[u]) = list
      BY DEF On, Held
    <3>2. CASE u # b
      BY <1>1, <1>2, <3>1, <3>2 DEF Passive
    <3>3. CASE u = b /\ z # breaks
      BY <1>1, <3>3 DEF Passive
    <3>4. CASE u = b /\ z = breaks
      <4>1. z.bp[b] \in Entry /\ b # 0
        BY <1>1, <3>1, <3>4, GoodTyped
      <4>2. z.bp[b].test \in Tests
        BY <4>1 DEF Entry
      <4>3. z.bp[b].test # "over"
        <5> SUFFICES ASSUME z.bp[b].test = "over" PROVE FALSE
          OBVIOUS
        <5>1. IsOver
          BY <3>4, <4>1 DEF IsOver
        <5>2. list = "op"
          BY <3>1, <3>4, <5>1 DEF DInv, Roles
        <5> QED
          BY <1>4, <2>1, <3>4, <5>1, <5>2
      <4> QED
        BY <3>4, <4>2, <4>3 DEF Tests, Passive
    <3> QED
      BY <3>2, <3>3, <3>4
  <2> HIDE DEF list, a
  <2>2. check_breakpoints(Walking(z, h), list, a, c) = Walking(z, h \cup H)
    BY <1>1, <2>1, Walked DEF list
  <2>3. Besides(H) = Stops({x})
    BY StopsOne DEF list, a
  <2> HIDE DEF H
  <2>4. r = Walking(z, h \cup H)
    BY <2>2 DEF list, a
  <2>5. r.z = z
    BY <2>4 DEF Walking
  <2>6. Meant(H, x)
    BY <2>3 DEF Meant
  <2> QED
    BY <2>4, <2>5, <2>6 DEF Gained
<1> QED
  BY <1>3, <1>4

\* What accesses stop at is as asked, at least where it is not opcodes.
Agrees(H, X) ==
    /\ Elsewhere(Besides(H)) = Elsewhere(Stops(X))
    /\ Detours \/ Besides(H) = Stops(X)

LEMMA AgreesMore ==
    ASSUME NEW H, NEW X, Agrees(H, X), NEW G, NEW x, Meant(G, x)
    PROVE  Agrees(H \cup G, X \cup {x})
<1>1. Stops(X \cup {x}) = Stops(X) \cup Stops({x})
  BY DEF Stops
<1>2. Besides(H \cup G) = Besides(H) \cup Besides(G)
  BY DEF Besides
<1>3. \A A, B : Elsewhere(A \cup B) = Elsewhere(A) \cup Elsewhere(B)
  BY DEF Elsewhere
<1>4. CASE Besides(G) = Stops({x})
  <2>1. Elsewhere(Besides(H \cup G)) = Elsewhere(Stops(X \cup {x}))
    <3>1. Elsewhere(Besides(H \cup G)) = Elsewhere(Besides(H)) \cup Elsewhere(Besides(G))
      BY <1>2, <1>3
    <3>2. Elsewhere(Stops(X \cup {x})) = Elsewhere(Stops(X)) \cup Elsewhere(Stops({x}))
      BY <1>1, <1>3
    <3> QED
      BY <1>4, <3>1, <3>2 DEF Agrees
  <2>2. Detours \/ Besides(H \cup G) = Stops(X \cup {x})
    BY <1>1, <1>2, <1>4 DEF Agrees
  <2> QED
    BY <2>1, <2>2 DEF Agrees
<1>5. CASE Detours /\ x[1] = "op" /\ \A g \in G : g[1] = "op"
  <2>1. Elsewhere(Besides(G)) = {}
    BY <1>5 DEF Elsewhere, Besides
  <2>2. Elsewhere(Stops({x})) = {}
    BY <1>5 DEF Elsewhere, Stops
  <2>3. Elsewhere(Besides(H \cup G)) = Elsewhere(Stops(X \cup {x}))
    <3>1. Elsewhere(Besides(H \cup G)) = Elsewhere(Besides(H)) \cup Elsewhere(Besides(G))
      BY <1>2, <1>3
    <3>2. Elsewhere(Stops(X \cup {x})) = Elsewhere(Stops(X)) \cup Elsewhere(Stops({x}))
      BY <1>1, <1>3
    <3> QED
      BY <2>1, <2>2, <3>1, <3>2 DEF Agrees
  <2> QED
    BY <1>5, <2>3 DEF Agrees
<1> QED
  BY <1>4, <1>5 DEF Meant

LEMMA CheckedAgrees ==
    ASSUME DInv, NEW s, NEW n, Accesses(s, n), DOMAIN s = 1..n, NEW c, c.pc \in Nat
    PROVE  LET w == Checked(s, c)
           IN  w.at = 0 /\ Fine(w.z, c) /\ Agrees(w.hits, Range(s))
<1> DEFINE Seen(k) == {s[j] : j \in 1..k}
           Held2(w, k) == w = Walking(w.z, w.hits) /\ Fine(w.z, c) /\ Agrees(w.hits, Seen(k))
<1>1. n \in Nat /\ n = Len(s) /\ n \in 0..5
  BY DEF Accesses
<1>2. PICK f : Follows(f, s, n, c) /\ Checked(s, c) = f[n]
  BY <1>1, CheckedIs
<1> DEFINE M == {k \in Nat : k \in 0..n => Held2(f[k], k)}
<1>3. 0 \in M
  <2>1. f[0] = Walking(breaks, {}) /\ f[0].z = breaks /\ f[0].hits = {}
    BY <1>2 DEF Follows, Walking
  <2>2. Seen(0) = {}
    OBVIOUS
  <2>3. Agrees({}, {})
    BY DEF Agrees, Besides, Stops, Elsewhere
  <2>4. Fine(breaks, c)
    BY DEF Fine
  <2>5. Held2(f[0], 0)
    BY <2>1, <2>2, <2>3, <2>4
  <2> HIDE DEF Held2
  <2> QED
    BY <2>5
<1>4. ASSUME NEW k \in Nat, k \in M PROVE k + 1 \in M
  <2> SUFFICES ASSUME k + 1 \in 0..n PROVE Held2(f[k + 1], k + 1)
    OBVIOUS
  <2> DEFINE x == s[k + 1]
             y == f[k].z
             h == f[k].hits
             r == f[k + 1]
             X == Seen(k)
  <2>1. k \in 0..n /\ k + 1 \in 1..n /\ (k + 1) - 1 = k
    BY <1>1
  <2>2. Held2(f[k], k)
    BY <1>4, <2>1
  <2>3. r = Steps(f[k], x, c)
    BY <1>2, <2>1 DEF Follows
  <2>4. x[1] \in BpLists
    BY <2>1 DEF Accesses
  <2>5. f[k] = Walking(y, h) /\ Fine(y, c) /\ Agrees(h, X)
    BY <2>2
  <2>6. r = check_breakpoints(Walking(y, h), x[1], x[2], c)
    <3>1. f[k].at = 0
      BY <2>5 DEF Walking
    <3> QED
      BY <2>3, <2>5, <3>1 DEF Steps
  <2>7. Seen(k + 1) = X \cup {x}
    <3>1. 1..(k + 1) = (1..k) \cup {k + 1}
      BY <1>4
    <3> QED
      BY <3>1
  <2> HIDE DEF x, y, h, r, X, M, Held2, Seen
  <2>8. PICK H : r = Walking(r.z, h \cup H) /\ Fine(r.z, c) /\ Meant(H, x)
    <3>1. Gained(r, h, x, c)
      BY <2>4, <2>5, <2>6, AccessIs
    <3> QED
      BY <3>1 DEF Gained
  <2>9. r.hits = h \cup H
    BY <2>8 DEF Walking
  <2>10. Agrees(h \cup H, X \cup {x})
    BY <2>5, <2>8, AgreesMore
  <2> QED
    BY <2>7, <2>8, <2>9, <2>10 DEF r, Held2
<1> HIDE DEF M
<1>5. Nat \subseteq M
  BY <1>3, <1>4, Induct
<1>6. n \in M /\ n \in 0..n
  BY <1>1, <1>5
<1>7. Held2(f[n], n)
  BY <1>6 DEF M
<1>8. f[n].at = 0
  BY <1>7 DEF Walking
<1>9. Seen(n) = Range(s)
  BY DEF Range
<1> HIDE DEF Seen
<1> QED
  BY <1>2, <1>7, <1>8, <1>9

\* What Ends() is told: the lists after the instruction, and what it stopped at.
Ended(w, s) ==
    /\ Good(w.z) /\ w.z.step = breaks.step /\ w.at = 0
    /\ Agrees(w.hits, Range(s))
    /\ Ledger("slots" \in client.does, w.z, items)
    /\ w.z = breaks \/ w.z.bp[w.z.step].test = "none"

LEMMA CheckedEnds ==
    ASSUME DInv, NEW s, NEW n, Accesses(s, n), DOMAIN s = 1..n, NEW c, c.pc \in Nat
    PROVE  Ended(Checked(s, c), s)
<1> DEFINE w == Checked(s, c)
           z == w.z
           slots == "slots" \in client.does
<1>1. w.at = 0 /\ Fine(w.z, c) /\ Agrees(w.hits, Range(s))
  BY CheckedAgrees
<1> HIDE DEF w
<1>2. /\ Good(z) /\ z.step = breaks.step /\ Held(z) = Held(breaks)
      /\ \A u \in Held(breaks) : u # breaks.step => Alike(z.bp[u], breaks.bp[u])
      /\ z = breaks \/ (IsOver /\ z.bp[breaks.step].test = "none")
  BY <1>1, FineIs
<1>3. Ledger(slots, breaks, items) /\ (breaks.step # 0 => breaks.step \in Held(breaks))
  BY User DEF DInv, Ours
<1> HIDE DEF z, slots
<1>4. /\ \A b : b \in Held(z) <=> (b = z.step /\ b # 0) \/ (b \in Held(breaks) /\ b # breaks.step)
      /\ z.step = breaks.step
      /\ \A b \in Held(breaks) : b # breaks.step => Alike(z.bp[b], breaks.bp[b])
  <2>1. 0 \notin Held(breaks)
    BY DEF Held, Ids
  <2> QED
    BY <1>2, <1>3, <2>1
<1>5. Ledger(slots, z, items)
  BY <1>3, <1>4, LedgerOfStep
<1> QED
  BY <1>1, <1>2, <1>5 DEF Ended, w, z, slots

LEMMA InstructionKeeps ==
    ASSUME DInv, UNCHANGED <<client, items>>, NEW kind, NEW data, NEW next \in Nat,
           NEW stack \in Seq(Nat), NEW interrupted \in BOOLEAN,
           Instruction(kind, data, next, stack, interrupted)
    PROVE  DInv'
<1> DEFINE halts == kind = "halt" /\ ~interrupted
           to == IF interrupted THEN Vector ELSE next
           s == (IF kind = "store" THEN check_mem_breakpoints("mw", "mpw", data) ELSE <<>>)
                    \o <<<<"op", OpcodeOf[kind]>>>>
                    \o (IF halts THEN <<>> ELSE check_mem_breakpoints("mx", "mpx", to))
           c == [kind |-> kind, pc |-> next, depth |-> Len(stack), interrupted |-> interrupted]
           w == Checked(s, c)
<1>1. /\ Ends(w, s)
      /\ machine' = [pc |-> IF halts THEN machine.pc ELSE to,
                     stack |-> IF interrupted THEN Append(stack, next) ELSE stack]
  BY DEF Instruction
<1>2. Machines'
  <2>1. to \in Nat /\ machine.pc \in Nat
    BY DEF Vector, DInv, Machines
  <2>2. Append(stack, next) \in Seq(Nat)
    OBVIOUS
  <2> HIDE DEF to, halts
  <2>3. machine'.pc \in Nat /\ machine'.stack \in Seq(Nat)
    BY <1>1, <2>1, <2>2
  <2> QED
    BY <2>3 DEF Machines
<1>3. Accesses(s, Len(s)) /\ DOMAIN s = 1..Len(s)
  <2>1. s = Accessing(kind = "store", data, OpcodeOf[kind], halts, to)
    BY DEF Accessing
  <2> HIDE DEF s, to, halts
  <2> QED
    BY <2>1, AccessesOf
<1>4. c.pc \in Nat
  OBVIOUS
<1> HIDE DEF s, c
<1>5. Ended(w, s)
  BY <1>3, <1>4, CheckedEnds
<1> HIDE DEF w
<1>6. /\ breaks' = w.z
      /\ LET stops == {h \in w.hits : h[2] \notin {w.z.step, breaks.step}}
             wanted == Stops(Range(s))
         IN  outcome' = IF w.at = 0 /\ stops = wanted THEN "asked"
                        ELSE IF w.at = 0 /\ Detours /\ Elsewhere(stops) = Elsewhere(wanted)
                        THEN "strayed" ELSE "wrong"
  BY <1>1 DEF Ends
<1>7. /\ Good(w.z) /\ w.z.step = breaks.step /\ w.at = 0 /\ Agrees(w.hits, Range(s))
      /\ Ledger("slots" \in client.does, w.z, items)
      /\ w.z = breaks \/ w.z.bp[w.z.step].test = "none"
  BY <1>5 DEF Ended
<1>8. Honest'
  <2>1. {h \in w.hits : h[2] \notin {w.z.step, breaks.step}} = Besides(w.hits)
    BY <1>7 DEF Besides
  <2>2. outcome' \in {"asked", "strayed"}
    BY <1>6, <1>7, <2>1 DEF Agrees
  <2> QED
    BY <2>2 DEF Honest
<1>9. Good(breaks') /\ Ours'
  BY <1>6, <1>7 DEF Ours
<1>10. Roles'
  <2>1. "slots" \in client.does => breaks'.step = 0
    BY <1>6, <1>7 DEF DInv, Roles
  <2>2. CASE w.z = breaks
    BY <1>6, <2>1, <2>2 DEF DInv, Roles, IsOver
  <2>3. CASE w.z.bp[w.z.step].test = "none"
    <3>1. ~IsOver'
      BY <1>6, <2>3 DEF IsOver
    <3> QED
      BY <2>1, <3>1 DEF Roles
  <2> QED
    BY <1>7, <2>2, <2>3
<1>11. client' \in Clients
  BY DEF DInv
<1> QED
  BY <1>2, <1>8, <1>9, <1>10, <1>11 DEF DInv

LEMMA ExecuteKeeps == DInv /\ ExecuteNext => DInv'
<1> SUFFICES ASSUME DInv, ExecuteNext PROVE DInv'
  OBVIOUS
<1> DEFINE Next(kind, a) == CASE kind \in {"jp", "call"} -> a
                              [] kind = "ret" -> machine.stack[Len(machine.stack)]
                              [] OTHER -> NextLine
           Stack(kind) == CASE kind = "call" -> Append(machine.stack, NextLine)
                            [] kind = "ret" -> Front(machine.stack)
                            [] OTHER -> machine.stack
<1>1. PICK kind \in DOMAIN OpcodeOf, a \in CodeAddress, interrupted \in BOOLEAN :
         /\ kind = "ret" => machine.stack # <<>>
         /\ Instruction(kind, a, Next(kind, a), Stack(kind), interrupted)
  BY DEF ExecuteNext
<1>2. UNCHANGED <<client, items>>
  BY DEF ExecuteNext
<1>3. machine.stack \in Seq(Nat) /\ NextLine \in Nat /\ a \in Nat
  BY NextLineIs, AddressAssumption DEF DInv, Machines, CodeAddress
<1> DEFINE m == machine.stack
           n == Next(kind, a)
           t == Stack(kind)
<1>4. n \in Nat
  <2>1. CASE kind \in {"jp", "call"}
    BY <1>3, <2>1
  <2>2. CASE kind = "ret"
    <3>1. Len(m) \in DOMAIN m
      BY <1>1, <1>3, <2>2
    <3>2. m[Len(m)] \in Nat
      BY <1>3, <3>1
    <3>3. n = m[Len(m)]
      BY <2>2
    <3> QED
      BY <3>2, <3>3
  <2>3. CASE kind \notin {"jp", "call", "ret"}
    <3>1. n = NextLine
      BY <2>3
    <3> QED
      BY <1>3, <3>1
  <2> QED
    BY <2>1, <2>2, <2>3
<1>5. t \in Seq(Nat)
  <2>1. CASE kind = "call"
    <3>1. t = Append(m, NextLine)
      BY <2>1
    <3>2. Append(m, NextLine) \in Seq(Nat)
      BY <1>3, AppendProperties
    <3> QED
      BY <3>1, <3>2
  <2>2. CASE kind = "ret"
    <3>1. t = SubSeq(m, 1, Len(m) - 1)
      BY <2>2 DEF Front
    <3>2. SubSeq(m, 1, Len(m) - 1) \in Seq(Nat)
      BY <1>1, <1>3, <2>2, SubSeqProperties
    <3> QED
      BY <3>1, <3>2
  <2>3. CASE kind \notin {"call", "ret"}
    <3>1. t = m
      BY <2>3
    <3> QED
      BY <1>3, <3>1
  <2> QED
    BY <2>1, <2>2, <2>3
<1>6. Instruction(kind, a, n, t, interrupted)
  BY <1>1
<1> HIDE DEF n, t
<1> QED
  BY <1>2, <1>4, <1>5, <1>6, InstructionKeeps

-----------------------------------------------------------------------------
\* Lists that are spoilt stay so.
LEMMA StaysSpoilt == DebuggerNext /\ spoilt => spoilt'
BY DEF DebuggerNext, AddItem, RemoveItem, EditItem, StepIn, StepOver, StepOut, Continue, Pause,
       ShowsLate, CalcChanged, SlotAdd, SlotRemove, SlotSetType, SlotSetAddress, ExecuteNext,
       run_with_step_condition, tilem_debugger_show

LEMMA DStep == (spoilt \/ DInv) /\ [DebuggerNext]_debuggerVars => (spoilt \/ DInv)'
<1> SUFFICES ASSUME spoilt \/ DInv, [DebuggerNext]_debuggerVars PROVE spoilt' \/ DInv'
  OBVIOUS
<1>1. CASE DebuggerNext /\ spoilt
  BY <1>1, StaysSpoilt
<1>2. CASE DebuggerNext /\ DInv
  BY <1>2, AddItemKeeps, RemoveItemKeeps, EditItemKeeps, StepsKeep, CancelsKeep, CalcChangedKeeps,
     SlotAddKeeps, SlotRemoveKeeps, SlotSetTypeKeeps, SlotSetAddressKeeps, ExecuteKeeps
     DEF DebuggerNext
<1>3. CASE UNCHANGED debuggerVars
  <2>1. /\ breaks' = breaks /\ machine' = machine /\ items' = items /\ client' = client
        /\ outcome' = outcome /\ spoilt' = spoilt
    BY <1>3 DEF debuggerVars
  <2>2. CASE spoilt
    BY <2>1, <2>2
  <2>3. CASE DInv
    <3>1. Good(breaks') /\ Ours'
      BY <2>1, <2>3 DEF DInv, Ours
    <3>2. Roles' /\ Machines' /\ Honest' /\ client' \in Clients
      BY <2>1, <2>3 DEF DInv, Roles, IsOver, Machines, Honest
    <3> QED
      BY <3>1, <3>2 DEF DInv
  <2> QED
    BY <2>2, <2>3
<1> QED
  BY <1>1, <1>2, <1>3

LEMMA DSound == spoilt \/ DInv => BreakpointsSound
<1> SUFFICES ASSUME DInv PROVE BreakpointsSound
  BY DEF BreakpointsSound
<1>1. ListsLinked(breaks)
  BY GoodLists DEF DInv
<1>2. breaks.step # 0 => Valid(breaks, breaks.step)
  BY User, HeldIsValid
<1> QED
  BY <1>1, <1>2 DEF BreakpointsSound, BreakpointsLinked, DInv, Honest

\* The lists of breakpoints stay well formed, and an instruction stops the
\* program if and only if one of its accesses is one that the user asked to
\* stop at: for every set of users of either front end, however many
\* breakpoints they have, whatever they ask for, whatever they change and
\* whatever the program does; up to the first entry that is not the first of
\* its list when its type is changed in place, and but for the opcodes in the
\* instruction in which step over replaces its entry.
THEOREM BreakpointsCorrect == DebuggerSpec => []BreakpointsSound
<1>1. DebuggerInit => spoilt \/ DInv
  BY DInit
<1>2. (spoilt \/ DInv) /\ [DebuggerNext]_debuggerVars => (spoilt \/ DInv)'
  BY DStep
<1>3. spoilt \/ DInv => BreakpointsSound
  BY DSound
<1> QED
  BY <1>1, <1>2, <1>3, PTL DEF DebuggerSpec
=============================================================================
