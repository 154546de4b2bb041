--------------------------- MODULE Z80TimersProofs ---------------------------
(***************************************************************************)
(* The timers of z80.c for every number of timers, every width of the      *)
(* clock register and every speed: the lists threaded through the array    *)
(* stay sound, no event is passed by more than an instruction, and the     *)
(* array implements TimerQueue.                                            *)
(*                                                                         *)
(* A list is given by the function f that counts its timers: f[1] is the   *)
(* head, and f[0] and the entry after the last are 0.                      *)
(***************************************************************************)
EXTENDS Z80Timers, FiniteSetTheorems, TLAPS

\* The constants, as the proofs use them.
LEMMA Sizes ==
    /\ Hardware \in Nat /\ Hardware > 0 /\ Dynamic \in Nat /\ Dynamic > 0
    /\ Dynamic <= Hardware + 2
    /\ Slots \in Nat /\ Slots = 2 * Hardware + 3 /\ Slots > Hardware + 1
    /\ Id = 0..(Slots - 1) /\ 0 \in Id /\ Id \subseteq Nat
    /\ Wrap \in Nat /\ Late \in Nat /\ Late > 0 /\ Late < Wrap /\ Wrap > 0
    /\ Kilo \in Nat /\ Kilo > 0 /\ Halt \in Nat /\ Halt > 0
BY TimerAssumption DEF TimerAssumption, Slots, Id

-----------------------------------------------------------------------------
(* Induction over a set, and the timers a list reaches.                    *)

\* A set of numbers that is not empty has a least one.
LEMMA Least ==
    ASSUME NEW T \in SUBSET Nat, T # {}
    PROVE  \E x \in T : \A y \in T : x <= y
<1> DEFINE R == StrictSubsetOrdering(Nat)
           U == {1..n : n \in T}
<1>1. IsWellFoundedOn(R, FiniteSubsetsOf(Nat))
  BY FS_StrictSubsetOrderingWellFounded
<1>2. U \subseteq FiniteSubsetsOf(Nat) /\ U # {}
  <2>1. \A n \in T : 1..n \in SUBSET Nat /\ IsFiniteSet(1..n)
    BY FS_Interval
  <2> QED
    BY <2>1 DEF FiniteSubsetsOf
<1>3. PICK X \in U : \A Y \in U : ~(<<Y, X>> \in R)
  <2> HIDE DEF R, U
  <2> QED
    BY <1>1, <1>2, WFMin
<1>4. PICK x \in T : X = 1..x
  OBVIOUS
<1>5. ASSUME NEW y \in T PROVE x <= y
  <2> SUFFICES ASSUME y < x PROVE FALSE
    OBVIOUS
  <2>1. 1..y \subseteq 1..x /\ x \in 1..x /\ x \notin 1..y
    OBVIOUS
  <2>2. 1..y \in SUBSET Nat /\ 1..x \in SUBSET Nat
    OBVIOUS
  <2>3. <<1..y, X>> \in R
    BY <2>1, <2>2, <1>4 DEF StrictSubsetOrdering
  <2> QED
    BY <1>3, <2>3
<1> QED
  BY <1>5

\* A set that holds zero, and the successor of each number it holds, holds all.
LEMMA Induct ==
    ASSUME NEW S, 0 \in S, \A n \in Nat : n \in S => n + 1 \in S
    PROVE  Nat \subseteq S
<1> SUFFICES ASSUME Nat \ S # {} PROVE FALSE
  OBVIOUS
<1>1. PICK x \in Nat \ S : \A y \in Nat \ S : x <= y
  <2>1. Nat \ S \in SUBSET Nat
    OBVIOUS
  <2> QED
    BY <2>1, Least
<1>2. x # 0 /\ x - 1 \in Nat /\ ~(x <= x - 1) /\ (x - 1) + 1 = x
  BY <1>1
<1> QED
  BY <1>1, <1>2

\* A list in one direction: from head along nx, the n timers of f, then the end.
Path(nx, head, f, n) ==
    /\ n \in Nat /\ f \in [0..(n + 1) -> Id]
    /\ f[0] = 0 /\ f[n + 1] = 0 /\ head = f[1]
    /\ \A i \in 1..n : f[i] # 0 /\ nx[f[i]] = f[i + 1]
    /\ \A i, j \in 1..n : f[i] = f[j] => i = j

Members(f, n) == {f[i] : i \in 1..n}

\* It has no more timers than the array.
LEMMA PathShort ==
    ASSUME NEW nx, NEW head, NEW n, NEW f, Path(nx, head, f, n)
    PROVE  n <= Slots - 1
<1> DEFINE g == [i \in 1..n |-> f[i]]
           T == 1..(Slots - 1)
<1>0. n \in Nat /\ Slots - 1 \in Nat
  BY Sizes DEF Path
<1>1. g \in [1..n -> T]
  <2> SUFFICES ASSUME NEW i \in 1..n PROVE f[i] \in T
    OBVIOUS
  <2>1. i \in 0..(n + 1)
    BY <1>0
  <2> QED
    BY <2>1, Sizes DEF Path
<1>2. \A i, j \in 1..n : g[i] = g[j] => i = j
  BY DEF Path
<1>3. g \in Injection(1..n, T)
  BY <1>1, <1>2 DEF Injection, IsInjective
<1>4. IsFiniteSet(T) /\ Cardinality(T) = Slots - 1
  BY <1>0, FS_Interval
<1>5. Cardinality(1..n) <= Cardinality(T)
  BY <1>3, <1>4, FS_Injection
<1>6. Cardinality(1..n) = n
  BY <1>0, FS_Interval
<1> QED
  BY <1>4, <1>5, <1>6

\* What From() meets: the timers of f, from the head on, then the end.
LEMMA FromIs ==
    ASSUME NEW y, NEW head, NEW n, NEW f, Path(y.next, head, f, n), y.next[0] = 0
    PROVE  \A i \in Id : From(y, head)[i] = IF i <= n THEN f[i + 1] ELSE 0
<1> DEFINE nx == y.next
           P(g) == g = [i \in Id |-> IF i = 0 THEN head ELSE nx[g[i - 1]]]
           w == [i \in Id |-> IF i <= n THEN f[i + 1] ELSE 0]
           F == From(y, head)
<1>0. n \in Nat /\ Slots \in Nat
  BY Sizes DEF Path
<1>1. P(w)
  <2> SUFFICES ASSUME NEW i \in Id
               PROVE  w[i] = IF i = 0 THEN head ELSE nx[w[i - 1]]
    OBVIOUS
  <2>1. CASE i = 0
    BY <1>0, <2>1 DEF Path
  <2>2. CASE i # 0
    <3>1. i \in Nat /\ i - 1 \in Id /\ i - 1 \in Nat
      BY <2>2, Sizes
    <3>2. CASE i <= n
      <4>1. i \in 1..n /\ i - 1 <= n /\ (i - 1) + 1 = i
        BY <1>0, <3>1, <3>2, <2>2
      <4> QED
        BY <3>1, <3>2, <2>2, <4>1 DEF Path
    <3>3. CASE i = n + 1
      <4>1. i - 1 <= n /\ (i - 1) + 1 = n + 1 /\ ~(i <= n)
        BY <1>0, <3>1, <3>3
      <4> QED
        BY <3>1, <3>3, <2>2, <4>1 DEF Path
    <3>4. CASE i > n + 1
      <4>1. ~(i - 1 <= n) /\ ~(i <= n)
        BY <1>0, <3>1, <3>4
      <4> QED
        BY <3>1, <2>2, <4>1
    <3> QED
      BY <1>0, <3>1, <3>2, <3>3, <3>4
  <2> QED
    BY <2>1, <2>2
<1>2. F = CHOOSE g : P(g)
  BY DEF From
<1>3. P(F)
  <2> HIDE DEF P, F, w
  <2> QED
    BY <1>1, <1>2
<1>4. \A k \in Nat : k \in {j \in Nat : j \in Id => F[j] = w[j]}
  <2> DEFINE S == {j \in Nat : j \in Id => F[j] = w[j]}
  <2> HIDE DEF F, w
  <2>0. /\ 0 \in Id /\ F = [i \in Id |-> IF i = 0 THEN head ELSE nx[F[i - 1]]]
        /\ w = [i \in Id |-> IF i = 0 THEN head ELSE nx[w[i - 1]]]
    BY <1>1, <1>3, Sizes
  <2>1. 0 \in S
    BY <2>0
  <2>2. ASSUME NEW k \in Nat, k \in S PROVE k + 1 \in S
    <3> SUFFICES ASSUME k + 1 \in Id PROVE F[k + 1] = w[k + 1]
      OBVIOUS
    <3>1. k \in Id /\ k + 1 # 0 /\ (k + 1) - 1 = k
      BY Sizes
    <3>2. F[k] = w[k]
      BY <2>2, <3>1
    <3> QED
      BY <2>0, <3>1, <3>2
  <2> HIDE DEF S
  <2>3. Nat \subseteq S
    BY <2>1, <2>2, Induct
  <2> QED
    BY <2>3 DEF S
<1>5. \A i \in Id : F[i] = w[i]
  <2> HIDE DEF F, w
  <2> QED
    BY <1>4, Sizes
<1> QED
  BY <1>5

\* A list reaches its members, and no others.
LEMMA ListIs ==
    ASSUME NEW y, NEW head, NEW n, NEW f, Path(y.next, head, f, n), y.next[0] = 0
    PROVE  List(y, head) = Members(f, n)
<1>a. n <= Slots - 1
  BY PathShort
<1>0. n \in Nat /\ Slots \in Nat /\ n <= Slots - 1
  BY <1>a, Sizes DEF Path
<1> DEFINE F == From(y, head)
<1>1. \A i \in Id : F[i] = IF i <= n THEN f[i + 1] ELSE 0
  BY FromIs
<1>2. List(y, head) = {F[i] : i \in Id} \ {0}
  BY DEF List
<1> HIDE DEF F
<1>3. ASSUME NEW t \in List(y, head) PROVE t \in Members(f, n)
  <2>1. PICK i \in Id : t = F[i] /\ t # 0
    BY <1>2, <1>3
  <2>2. i <= n /\ t = f[i + 1] /\ i \in Nat
    BY <1>1, <2>1, Sizes
  <2>3. i # n
    BY <2>1, <2>2 DEF Path
  <2>4. i + 1 \in 1..n
    BY <1>0, <2>2, <2>3
  <2> QED
    BY <2>2, <2>4 DEF Members
<1>4. ASSUME NEW t \in Members(f, n) PROVE t \in List(y, head)
  <2>1. PICK i \in 1..n : t = f[i]
    BY <1>4 DEF Members
  <2>2. i - 1 \in Id /\ i - 1 <= n /\ (i - 1) + 1 = i
    BY <1>0, Sizes
  <2>3. F[i - 1] = t /\ t # 0
    BY <1>1, <2>1, <2>2 DEF Path
  <2> QED
    BY <1>2, <2>2, <2>3
<1> QED
  BY <1>3, <1>4

-----------------------------------------------------------------------------
(* Lists in both directions, and sorted.                                   *)

Words == 0..(Wrap - 1)

Arrays ==
    [clock : Words, size : Nat, used : SUBSET Id, free : Id, cpu : Id, rt : Id,
     speed : Speeds, count : [Id -> Words], period : [Id -> Nat],
     next : [Id -> Id], prev : [Id -> Id]]

Back(pv, f, n) == \A i \in 1..n : pv[f[i]] = f[i - 1]

Sorted(y, f, n) == \A i, j \in 1..n : i <= j => Left(y, f[i]) <= Left(y, f[j])

Ordered(y, head, S, f, n) ==
    /\ Path(y.next, head, f, n) /\ Back(y.prev, f, n) /\ Sorted(y, f, n)
    /\ S = Members(f, n)

\* From head on, the timers of S.
Linked(y, head, S) == \E n, f : Ordered(y, head, S, f, n)

LEMMA Remainder ==
    \A a, b \in Int : a % Wrap \in Words /\ Minus(a, b) \in Words
BY Sizes DEF Words, Minus

\* Arithmetic of the clock register.
LEMMA Quotient == ASSUME NEW a \in Int PROVE \E k \in Int : a = k * Wrap + (a % Wrap)
<1>1. a \div Wrap \in Int /\ a = (a \div Wrap) * Wrap + (a % Wrap)
  BY Sizes, Z3
<1> QED
  BY <1>1

LEMMA ZeroMultiple ==
  ASSUME NEW k \in Int, NEW d \in Int, d = k * Wrap, d < Wrap, d > -Wrap PROVE k = 0
<1>1. CASE k >= 1
  <2>1. \E j \in Nat : k = 1 + j
    <3>1. k - 1 \in Nat /\ k = 1 + (k-1)
      BY <1>1
    <3> QED
      BY <3>1
  <2>2. PICK j \in Nat : k = 1 + j
    BY <2>1
  <2>3. d = Wrap + j * Wrap
    BY Sizes, <2>2
  <2>4. j * Wrap >= 0
    BY Sizes
  <2> QED
    BY <2>3, <2>4, Sizes
<1>2. CASE k <= -1
  <2>1. \E j \in Nat : k = -1 - j
    <3>1. -1 - k \in Nat /\ k = -1 - (-1 - k)
      BY <1>2
    <3> QED
      BY <3>1
  <2>2. PICK j \in Nat : k = -1 - j
    BY <2>1
  <2>3. d = -Wrap - j * Wrap
    BY Sizes, <2>2
  <2>4. j * Wrap >= 0
    BY Sizes
  <2> QED
    BY <2>3, <2>4, Sizes
<1> QED
  BY <1>1, <1>2

\* The remainder is the only one.
LEMMA RemainderIs == ASSUME NEW a \in Int, NEW r \in Words, NEW k \in Int, a = k * Wrap + r PROVE a % Wrap = r
<1>1. PICK j \in Int : a = j * Wrap + (a % Wrap)
  BY Quotient
<1> DEFINE s == a % Wrap
<1>2. s \in Int /\ 0 <= s /\ s < Wrap
  BY Sizes
<1> HIDE DEF s
<1>3. r \in Int /\ 0 <= r /\ r < Wrap
  BY Sizes DEF Words
<1>a. a = j * Wrap + s
  BY <1>1 DEF s
<1> DEFINE i == k - j
           d == i * Wrap
<1>4. i \in Int /\ d = s - r /\ d \in Int
  <2>1. (k - j) * Wrap = k * Wrap - j * Wrap
    BY Sizes
  <2>2. k * Wrap \in Int /\ j * Wrap \in Int
    BY Sizes
  <2>3. i * Wrap = s - r
    BY <1>a, <1>2, <1>3, <2>1, <2>2
  <2> QED
    BY <2>3, <1>2, <1>3
<1>5. d = i * Wrap
  OBVIOUS
<1>b. d < Wrap /\ d > -Wrap
  BY <1>4, <1>2, <1>3, Sizes
<1> HIDE DEF d, i
<1>6. i = 0
  BY <1>4, <1>5, <1>b, ZeroMultiple
<1>7. d = 0
  BY <1>5, <1>6, Sizes
<1> QED
  BY <1>4, <1>7, <1>2, <1>3 DEF s

\* The register wraps between two additions, or after them.
LEMMA WrapPlus == ASSUME NEW a \in Int, NEW b \in Int PROVE ((a % Wrap) + b) % Wrap = (a + b) % Wrap
<1> DEFINE r == a % Wrap
           s == (r + b) % Wrap
<1>1. PICK j \in Int : a = j * Wrap + r
  BY Quotient
<1>2. r \in Int
  BY Sizes
<1>e. r + b \in Int
  BY <1>2, Sizes
<1>3. PICK k \in Int : r + b = k * Wrap + s 
  <2> DEFINE e == r + b
  <2>1. e \in Int /\ s = e % Wrap
    BY <1>e
  <2> HIDE DEF e, s
  <2>2. \E k \in Int : e = k * Wrap + s
    BY <2>1, Quotient
  <2> QED
    BY <2>2 DEF e
<1>4. s \in Words
  BY <1>2, Sizes DEF Words
<1> HIDE DEF r, s
<1> DEFINE i == j + k
           c == a + b
<1>5. i \in Int /\ c = i * Wrap + s /\ c \in Int
  <2> DEFINE jw == j * Wrap
             kw == k * Wrap
  <2>1. (j + k) * Wrap = jw + kw
    BY Sizes
  <2>2. jw \in Int /\ kw \in Int
    BY Sizes
  <2>3. s \in Int
    BY <1>4, Sizes DEF Words
  <2>a. a = jw + r /\ r + b = kw + s
    BY <1>1, <1>3
  <2>m. i \in Int /\ i * Wrap = jw + kw
    BY <2>1
  <2> HIDE DEF jw, kw, i
  <2>4. c = (jw + kw) + s /\ c \in Int
    BY <2>a, <1>2, <2>2, <2>3
  <2> QED
    BY <2>4, <2>m
<1>6. c = i * Wrap + s /\ i \in Int /\ c \in Int
  BY <1>5
<1> HIDE DEF i, c
<1>7. c % Wrap = s
  BY <1>4, <1>6, RemainderIs
<1> QED
  BY <1>7 DEF c, r, s

\* What is left of a timer is a number, and timer_earlier() compares it.
LEMMA LeftTyped ==
    ASSUME NEW y \in Arrays, NEW t \in Id
    PROVE  Left(y, t) \in Int /\ Left(y, t) >= -Late /\ Left(y, t) < Wrap - Late
<1>1. y.count[t] \in Words /\ y.clock \in Words
  BY DEF Arrays
<1>2. y.count[t] + Late \in Int /\ y.clock \in Int
  BY <1>1, Sizes DEF Words
<1>3. Minus(y.count[t] + Late, y.clock) \in Words
  BY <1>2, Remainder
<1>4. \A m \in Words : m - Late \in Int /\ m - Late >= -Late /\ m - Late < Wrap - Late
  BY Sizes DEF Words
<1> QED
  BY <1>3, <1>4 DEF Left

LEMMA EarlierIs ==
    ASSUME NEW y \in Arrays, NEW t \in Id, NEW u \in Id
    PROVE  Earlier(y, t, u) <=> Left(y, t) < Left(y, u)
<1>1. /\ Left(y, t) \in Int /\ Left(y, u) \in Int
  BY LeftTyped
<1> DEFINE a == Minus(y.count[t] + Late, y.clock)
           b == Minus(y.count[u] + Late, y.clock)
<1>2. a \in Words /\ b \in Words
  <2>1. y.count[t] \in Words /\ y.count[u] \in Words /\ y.clock \in Words
    BY DEF Arrays
  <2>2. y.count[t] + Late \in Int /\ y.count[u] + Late \in Int /\ y.clock \in Int
    BY <2>1, Sizes DEF Words
  <2> QED
    BY <2>2, Remainder
<1>3. Left(y, t) = a - Late /\ Left(y, u) = b - Late /\ (Earlier(y, t, u) <=> a < b)
  BY DEF Left, Earlier
<1> HIDE DEF a, b
<1> QED
  BY <1>2, <1>3, Sizes DEF Words

\* The entries of a list.
LEMMA PathTyped ==
    ASSUME NEW nx, NEW head, NEW n, NEW f, Path(nx, head, f, n)
    PROVE  /\ n \in Nat /\ \A i \in 0..(n + 1) : f[i] \in Id
           /\ \A i \in 1..n : f[i] \in Id \ {0}
           /\ head = 0 <=> n = 0
<1>1. n \in Nat /\ \A i \in 0..(n + 1) : f[i] \in Id
  BY DEF Path
<1>2. \A i \in 1..n : f[i] \in Id \ {0}
  BY <1>1 DEF Path
<1>3. head = 0 <=> n = 0
  <2>1. CASE n = 0
    BY <2>1 DEF Path
  <2>2. CASE n # 0
    <3>1. 1 \in 1..n
      BY <1>1, <2>2
    <3> QED
      BY <2>2, <3>1 DEF Path
  <2> QED
    BY <2>1, <2>2
<1> QED
  BY <1>1, <1>2, <1>3

\* timer_insert() finds the timer of the list after which t belongs.
LEMMA BeforeIs ==
    ASSUME NEW y \in Arrays, y.next[0] = 0, NEW l \in Lists, NEW S, NEW n, NEW f,
           Ordered(y, y[l], S, f, n), NEW t \in Id \ {0}
    PROVE  \E k \in 0..n :
              /\ Before(y, l, t) = f[k]
              /\ \A i \in 1..k : Left(y, f[i]) <= Left(y, t)
              /\ \A i \in (k + 1)..n : Left(y, t) <= Left(y, f[i])
<1> DEFINE h == y[l]
           F == From(y, y[l])
<1>0. Path(y.next, h, f, n) /\ Sorted(y, f, n)
  BY DEF Ordered
<1>1. /\ n \in Nat /\ \A i \in 0..(n + 1) : f[i] \in Id
      /\ \A i \in 1..n : f[i] \in Id \ {0}
      /\ h = 0 <=> n = 0
  BY <1>0, PathTyped
<1>2. n <= Slots - 1
  BY <1>0, PathShort
<1>3. f[0] = 0 /\ h = f[1] /\ f[n + 1] = 0 /\ \A i \in 1..n : y.next[f[i]] = f[i + 1]
  BY <1>0 DEF Path
<1>4. \A i \in Id : F[i] = IF i <= n THEN f[i + 1] ELSE 0
  BY <1>0, FromIs
<1>5. /\ Left(y, t) \in Int
      /\ \A i \in 1..n : /\ Left(y, f[i]) \in Int
                         /\ Earlier(y, f[i], t) <=> Left(y, f[i]) < Left(y, t)
                         /\ Earlier(y, t, f[i]) <=> Left(y, t) < Left(y, f[i])
  BY <1>1, LeftTyped, EarlierIs
<1>6. \A i, j \in 1..n : i <= j => Left(y, f[i]) <= Left(y, f[j])
  BY <1>0 DEF Sorted
<1>7. CASE h = 0 \/ Earlier(y, t, h)
  <2>1. Before(y, l, t) = f[0]
    BY <1>3, <1>7 DEF Before
  <2>2. \A i \in 1..n : Left(y, t) <= Left(y, f[i])
    <3> SUFFICES ASSUME NEW i \in 1..n PROVE Left(y, t) <= Left(y, f[i])
      OBVIOUS
    <3>1. 1 \in 1..n /\ 1 <= i
      BY <1>1
    <3>2. Left(y, t) < Left(y, f[1])
      BY <1>1, <1>3, <1>5, <1>7, <3>1
    <3>3. Left(y, f[1]) <= Left(y, f[i])
      BY <1>6, <3>1
    <3> QED
      BY <1>5, <3>1, <3>2, <3>3
  <2>3. 0 \in 0..n /\ 0 + 1 = 1 /\ 1..0 = {}
    BY <1>1
  <2> QED
    BY <2>1, <2>2, <2>3
<1>8. CASE ~(h = 0 \/ Earlier(y, t, h))
  <2> DEFINE Stops(j) == F[j] # 0 /\ (y.next[F[j]] = 0 \/ ~Earlier(y, y.next[F[j]], t))
             J == {j \in Id : Stops(j)}
             Q(j) == Stops(j) /\ \A k \in 0..(j - 1) : ~Stops(k)
  <2>1. Before(y, l, t) = F[CHOOSE j \in Id : Q(j)]
    BY <1>8 DEF Before
  <2> HIDE DEF F
  <2>2. n - 1 \in J
    <3>1. n - 1 \in Id /\ n - 1 <= n /\ (n - 1) + 1 = n /\ n \in 1..n
      BY <1>1, <1>2, <1>8, Sizes
    <3>2. F[n - 1] = f[n]
      BY <1>4, <3>1
    <3>3. F[n - 1] # 0 /\ y.next[F[n - 1]] = 0
      BY <1>1, <1>3, <3>1, <3>2
    <3> QED
      BY <3>1, <3>3
  <2>3. PICK m \in J : \A j \in J : m <= j
    <3>1. J \in SUBSET Nat /\ J # {}
      BY <2>2, Sizes
    <3> HIDE DEF J
    <3> QED
      BY <3>1, Least
  <2>4. m \in Id /\ Q(m)
    <3>1. m \in Nat
      BY Sizes
    <3>2. \A k \in 0..(m - 1) : k \in Id /\ ~(m <= k)
      BY <3>1, Sizes
    <3> QED
      BY <2>3, <3>2
  <2> DEFINE c == CHOOSE j \in Id : Q(j)
  <2>5. c \in Id /\ Q(c)
    <3> HIDE DEF Q
    <3> QED
      BY <2>4
  <2> HIDE DEF c
  <2>6. c \in Nat /\ c + 1 \in 1..n /\ F[c] = f[c + 1]
    <3>1. c \in Nat /\ F[c] # 0
      BY <2>5, Sizes
    <3>2. c <= n /\ F[c] = f[c + 1]
      BY <1>4, <2>5, <3>1
    <3>3. c # n
      BY <1>3, <3>1, <3>2
    <3> QED
      BY <1>1, <3>1, <3>2, <3>3
  <2> DEFINE k == c + 1
  <2>7. k \in 1..n /\ k \in 0..n /\ Before(y, l, t) = f[k]
    BY <1>1, <2>1, <2>6 DEF c
  <2>8. \A i \in 1..k : Left(y, f[i]) <= Left(y, t)
    <3> SUFFICES ASSUME NEW i \in 1..k PROVE Left(y, f[i]) <= Left(y, t)
      OBVIOUS
    <3>1. i \in 1..n
      BY <2>6, <2>7, <1>1
    <3>2. CASE i = 1
      BY <1>1, <1>3, <1>5, <1>8, <3>1, <3>2
    <3>3. CASE i # 1
      <4>1. i - 2 \in 0..(c - 1) /\ i - 2 \in Id /\ i - 2 <= n /\ (i - 2) + 1 = i - 1
            /\ i - 1 \in 1..n /\ (i - 1) + 1 = i
        BY <1>1, <1>2, <2>6, <3>1, <3>3, Sizes
      <4>2. ~Stops(i - 2)
        BY <2>5, <4>1
      <4>3. F[i - 2] = f[i - 1]
        BY <1>4, <4>1
      <4>4. F[i - 2] # 0 /\ y.next[F[i - 2]] = f[i]
        BY <1>1, <1>3, <4>1, <4>3
      <4>5. Earlier(y, f[i], t)
        BY <4>2, <4>4
      <4> QED
        BY <1>5, <3>1, <4>5
    <3> QED
      BY <3>2, <3>3
  <2>9. \A i \in (k + 1)..n : Left(y, t) <= Left(y, f[i])
    <3> SUFFICES ASSUME NEW i \in (k + 1)..n PROVE Left(y, t) <= Left(y, f[i])
      OBVIOUS
    <3>1. k + 1 \in 1..n /\ i \in 1..n /\ k + 1 <= i
      BY <2>6, <2>7, <1>1
    <3>2. y.next[F[c]] = f[k + 1] /\ f[k + 1] # 0
      BY <1>1, <1>3, <2>6, <2>7, <3>1
    <3>3. ~Earlier(y, f[k + 1], t)
      BY <2>5, <3>2
    <3>4. Left(y, t) <= Left(y, f[k + 1])
      BY <1>5, <3>1, <3>3
    <3>5. Left(y, f[k + 1]) <= Left(y, f[i])
      BY <1>6, <3>1
    <3> QED
      BY <1>5, <3>1, <3>4, <3>5
  <2> QED
    BY <2>7, <2>8, <2>9
<1> QED
  BY <1>7, <1>8

-----------------------------------------------------------------------------
(* A timer is put into a list, or taken out.                               *)

Joined(f, n, k, t) ==
    [i \in 0..((n + 1) + 1) |-> IF i <= k THEN f[i] ELSE IF i = k + 1 THEN t ELSE f[i - 1]]

JoinedSound(g, f, n, k, t) ==
    /\ g \in [0..((n + 1) + 1) -> Id]
    /\ \A i \in 0..k : g[i] = f[i]
    /\ g[k + 1] = t
    /\ \A i \in (k + 1)..(n + 1) : g[i + 1] = f[i]
    /\ \A i \in 1..(n + 1) : g[i] # 0
    /\ \A i, j \in 1..(n + 1) : g[i] = g[j] => i = j
    /\ Members(g, n + 1) = Members(f, n) \cup {t}

LEMMA JoinedTyped ==
    ASSUME NEW n \in Nat, NEW f \in [0..(n + 1) -> Id], NEW k \in 0..n, NEW t \in Id \ {0},
           t \notin Members(f, n), f[0] = 0, f[n + 1] = 0, \A i \in 1..n : f[i] # 0,
           \A i, j \in 1..n : f[i] = f[j] => i = j
    PROVE  JoinedSound(Joined(f, n, k, t), f, n, k, t)
<1> DEFINE g == Joined(f, n, k, t)
<1>1. g \in [0..((n + 1) + 1) -> Id]
  <2> SUFFICES ASSUME NEW i \in 0..((n + 1) + 1)
               PROVE  (IF i <= k THEN f[i] ELSE IF i = k + 1 THEN t ELSE f[i - 1]) \in Id
    BY DEF Joined
  <2>1. i <= k => i \in 0..(n + 1)
    OBVIOUS
  <2>2. ~(i <= k) => i - 1 \in 0..(n + 1)
    OBVIOUS
  <2> QED
    BY <2>1, <2>2
<1>2. \A i \in 0..k : g[i] = f[i]
  BY DEF Joined
<1>3. g[k + 1] = t
  BY DEF Joined
<1>4. \A i \in (k + 1)..(n + 1) : g[i + 1] = f[i]
  <2> SUFFICES ASSUME NEW i \in (k + 1)..(n + 1) PROVE g[i + 1] = f[i]
    OBVIOUS
  <2>1. i + 1 \in 0..((n + 1) + 1) /\ ~(i + 1 <= k) /\ i + 1 # k + 1 /\ (i + 1) - 1 = i
    OBVIOUS
  <2> QED
    BY <2>1 DEF Joined
<1>5. \A i \in 1..(n + 1) :
         \/ i \in 1..k /\ i \in 1..n /\ g[i] = f[i]
         \/ i = k + 1 /\ g[i] = t
         \/ i - 1 \in (k + 1)..n /\ i - 1 \in 1..n /\ g[i] = f[i - 1]
  <2> SUFFICES ASSUME NEW i \in 1..(n + 1)
               PROVE  \/ i \in 1..k /\ i \in 1..n /\ g[i] = f[i]
                      \/ i = k + 1 /\ g[i] = t
                      \/ i - 1 \in (k + 1)..n /\ i - 1 \in 1..n /\ g[i] = f[i - 1]
    OBVIOUS
  <2>1. CASE i <= k
    <3>1. i \in 0..k /\ i \in 1..k /\ i \in 1..n
      BY <2>1
    <3> QED
      BY <1>2, <3>1
  <2>2. CASE i = k + 1
    BY <1>3, <2>2
  <2>3. CASE i > k + 1
    <3>1. i - 1 \in (k + 1)..n /\ i - 1 \in 1..n /\ i - 1 \in (k + 1)..(n + 1) /\ (i - 1) + 1 = i
      BY <2>3
    <3> QED
      BY <1>4, <3>1
  <2> QED
    BY <2>1, <2>2, <2>3
<1> HIDE DEF g
<1>6. \A i \in 1..n : f[i] # t
  BY DEF Members
<1>7. \A i \in 1..(n + 1) : g[i] # 0
  BY <1>5
<1>8. \A i, j \in 1..(n + 1) : g[i] = g[j] => i = j
  BY <1>5, <1>6
<1>9. Members(g, n + 1) = Members(f, n) \cup {t}
  <2>1. ASSUME NEW u \in Members(g, n + 1) PROVE u \in Members(f, n) \cup {t}
    BY <1>5, <2>1 DEF Members
  <2>2. ASSUME NEW u \in Members(f, n) PROVE u \in Members(g, n + 1)
    <3>1. PICK i \in 1..n : u = f[i]
      BY <2>2 DEF Members
    <3>2. \/ i \in 0..k /\ i \in 1..(n + 1)
          \/ i \in (k + 1)..(n + 1) /\ i + 1 \in 1..(n + 1)
      OBVIOUS
    <3>3. \/ u = g[i] /\ i \in 1..(n + 1)
          \/ u = g[i + 1] /\ i + 1 \in 1..(n + 1)
      BY <1>2, <1>4, <3>1, <3>2
    <3> QED
      BY <3>3 DEF Members
  <2>3. t \in Members(g, n + 1)
    <3>1. k + 1 \in 1..(n + 1)
      OBVIOUS
    <3> QED
      BY <1>3, <3>1 DEF Members
  <2> QED
    BY <2>1, <2>2, <2>3
<1>10. JoinedSound(g, f, n, k, t)
  BY <1>1, <1>2, <1>3, <1>4, <1>7, <1>8, <1>9 DEF JoinedSound
<1> QED
  BY <1>10 DEF g

\* The links nx2 and pv2 make up the list g from h on, and differ from nx and pv in U alone.
Spliced(nx, pv, nx2, pv2, h, g, n, U) ==
    /\ nx2 \in [Id -> Id] /\ pv2 \in [Id -> Id]
    /\ Path(nx2, h, g, n) /\ Back(pv2, g, n)
    /\ \A u \in Id \ (U \cup {0}) : nx2[u] = nx[u] /\ pv2[u] = pv[u]
    /\ nx2[0] = 0 /\ pv2[0] = 0

\* The links timer_insert() writes.
LEMMA InsertLinks ==
    ASSUME NEW nx \in [Id -> Id], NEW pv \in [Id -> Id], NEW head, NEW n, NEW f,
           Path(nx, head, f, n), Back(pv, f, n), NEW k \in 0..n,
           NEW t \in Id \ {0}, t \notin Members(f, n),
           NEW p, p = f[k], NEW m, m = f[k + 1],
           NEW nx2, nx2 = [nx EXCEPT ![p] = t, ![t] = m, ![0] = 0],
           NEW pv2, pv2 = [pv EXCEPT ![m] = t, ![t] = p, ![0] = 0],
           NEW h, h = IF k = 0 THEN t ELSE head
    PROVE  Spliced(nx, pv, nx2, pv2, h, Joined(f, n, k, t), n + 1, Members(f, n) \cup {t})
<1> DEFINE g == Joined(f, n, k, t)
<1>0. /\ n \in Nat /\ f \in [0..(n + 1) -> Id] /\ f[0] = 0 /\ f[n + 1] = 0 /\ head = f[1]
      /\ \A i \in 1..n : f[i] # 0 /\ nx[f[i]] = f[i + 1]
      /\ \A i, j \in 1..n : f[i] = f[j] => i = j
      /\ \A i \in 1..n : pv[f[i]] = f[i - 1]
  BY DEF Path, Back
<1>a. JoinedSound(g, f, n, k, t)
  BY <1>0, JoinedTyped
<1> HIDE DEF g
<1>1. /\ g \in [0..((n + 1) + 1) -> Id]
      /\ \A i \in 0..k : g[i] = f[i]
      /\ g[k + 1] = t
      /\ \A i \in (k + 1)..(n + 1) : g[i + 1] = f[i]
      /\ \A i \in 1..(n + 1) : g[i] # 0
      /\ \A i, j \in 1..(n + 1) : g[i] = g[j] => i = j
  BY <1>a DEF JoinedSound
<1>2. /\ k \in 0..(n + 1) /\ k + 1 \in 0..(n + 1) /\ k + 1 \in 1..(n + 1)
      /\ k \in Nat /\ n \in Nat
  BY <1>0
<1>3. p \in Id /\ m \in Id /\ 0 \in Id
  BY <1>0, <1>2, Sizes
<1>4. \A i \in 1..n : f[i] \in Id \ {0, t}
  BY <1>0 DEF Members
<1>5. (p = 0 <=> k = 0) /\ (m = 0 <=> k = n) /\ p # t /\ m # t
  <2>1. p = 0 <=> k = 0
    BY <1>0
  <2>2. m = 0 <=> k = n
    <3>1. k # n => k + 1 \in 1..n
      BY <1>2
    <3> QED
      BY <1>0, <3>1
  <2>3. p # t
    BY <1>0, <1>4
  <2>4. m # t
    <3>1. k # n => k + 1 \in 1..n
      BY <1>2
    <3> QED
      BY <1>0, <1>4, <3>1
  <2> QED
    BY <2>1, <2>2, <2>3, <2>4
<1>6. /\ nx2 \in [Id -> Id] /\ nx2[0] = 0 /\ nx2[t] = m /\ (p # 0 => nx2[p] = t)
      /\ \A u \in Id : u \notin {p, t, 0} => nx2[u] = nx[u]
  BY <1>3, <1>5
<1>7. /\ pv2 \in [Id -> Id] /\ pv2[0] = 0 /\ pv2[t] = p /\ (m # 0 => pv2[m] = t)
      /\ \A u \in Id : u \notin {m, t, 0} => pv2[u] = pv[u]
  BY <1>3, <1>5
<1>8. /\ g[0] = 0 /\ g[(n + 1) + 1] = 0
  <2>1. 0 \in 0..k /\ n + 1 \in (k + 1)..(n + 1)
    BY <1>2
  <2> QED
    BY <1>0, <1>1, <2>1
<1>9. h = g[1]
  <2>1. CASE k = 0
    BY <1>1, <2>1
  <2>2. CASE k # 0
    <3>1. 1 \in 0..k
      BY <1>2, <2>2
    <3> QED
      BY <1>0, <1>1, <2>2, <3>1
  <2> QED
    BY <2>1, <2>2
<1>10. ASSUME NEW i \in 1..(n + 1) PROVE nx2[g[i]] = g[i + 1] /\ pv2[g[i]] = g[i - 1]
  <2>1. CASE i = k + 1
    <3>1. g[i] = t /\ g[i - 1] = p /\ g[i + 1] = m
      <4>1. k \in 0..k /\ k + 1 \in (k + 1)..(n + 1) /\ i - 1 = k
        BY <1>2, <2>1
      <4> QED
        BY <1>1, <2>1, <4>1
    <3> QED
      BY <1>6, <1>7, <3>1
  <2>2. CASE i <= k
    <3>1. i \in 1..n /\ i \in 0..k /\ i - 1 \in 0..k /\ k \in 1..n
      BY <1>2, <2>2
    <3>2. g[i] = f[i] /\ g[i - 1] = f[i - 1]
      BY <1>1, <3>1
    <3>3. pv2[g[i]] = g[i - 1]
      <4>1. f[i] # m
        <5>1. CASE k = n
          BY <1>0, <1>5, <3>1, <5>1
        <5>2. CASE k # n
          <6>1. k + 1 \in 1..n /\ i # k + 1
            BY <1>2, <2>2, <5>2
          <6> QED
            BY <1>0, <3>1, <6>1
        <5> QED
          BY <5>1, <5>2
      <4> QED
        BY <1>0, <1>4, <1>7, <3>1, <3>2, <4>1
    <3>4. nx2[g[i]] = g[i + 1]
      <4>1. CASE i = k
        <5>1. k # 0 /\ g[i] = p /\ g[i + 1] = t
          BY <1>1, <3>1, <3>2, <4>1
        <5> QED
          BY <1>5, <1>6, <5>1
      <4>2. CASE i # k
        <5>1. i + 1 \in 0..k /\ i + 1 \in Nat
          BY <2>2, <4>2, <3>1, <1>2
        <5>2. f[i] # p
          BY <1>0, <3>1, <4>2
        <5> QED
          BY <1>0, <1>1, <1>4, <1>6, <3>1, <3>2, <5>1, <5>2
      <4> QED
        BY <4>1, <4>2
    <3> QED
      BY <3>3, <3>4
  <2>3. CASE i > k + 1
    <3> DEFINE j == i - 1
    <3>1. j \in 1..n /\ j \in (k + 1)..(n + 1) /\ j + 1 = i /\ j + 1 \in (k + 1)..(n + 1)
          /\ k # n /\ k + 1 \in 1..n
      BY <1>2, <2>3
    <3>2. g[i] = f[j] /\ g[i + 1] = f[j + 1]
      BY <1>1, <3>1
    <3>3. nx2[g[i]] = g[i + 1]
      <4>1. f[j] # p
        <5>1. CASE k = 0
          BY <1>0, <3>1, <5>1
        <5>2. CASE k # 0
          <6>1. k \in 1..n /\ k # j
            BY <1>2, <2>3, <5>2
          <6> QED
            BY <1>0, <3>1, <6>1
        <5> QED
          BY <5>1, <5>2
      <4> QED
        BY <1>0, <1>4, <1>6, <3>1, <3>2, <4>1
    <3>4. pv2[g[i]] = g[i - 1]
      <4>1. CASE j = k + 1
        <5>1. g[i] = m /\ m # 0 /\ g[j] = t
          BY <1>0, <1>1, <3>1, <3>2, <4>1
        <5> QED
          BY <1>7, <5>1
      <4>2. CASE j # k + 1
        <5>1. j - 1 \in (k + 1)..(n + 1) /\ (j - 1) + 1 = j
          BY <3>1, <1>2, <4>2
        <5>2. g[j] = f[j - 1]
          BY <1>1, <5>1
        <5>3. f[j] # m
          BY <1>0, <3>1, <4>2
        <5> QED
          BY <1>0, <1>4, <1>7, <3>1, <3>2, <5>2, <5>3
      <4> QED
        BY <4>1, <4>2
    <3> QED
      BY <3>3, <3>4
  <2> QED
    BY <1>2, <2>1, <2>2, <2>3
<1>11. \A u \in Id \ (Members(f, n) \cup {t, 0}) : nx2[u] = nx[u] /\ pv2[u] = pv[u]
  <2>1. p \in Members(f, n) \cup {0}
    BY <1>0, <1>2 DEF Members
  <2>2. m \in Members(f, n) \cup {0}
    <3>1. k # n => k + 1 \in 1..n
      BY <1>2
    <3> QED
      BY <1>5, <3>1 DEF Members
  <2> QED
    BY <1>6, <1>7, <2>1, <2>2
<1>12. Path(nx2, h, g, n + 1) /\ Back(pv2, g, n + 1)
  <2>1. n + 1 \in Nat
    BY <1>2
  <2>2. \A i \in 1..(n + 1) : g[i] # 0 /\ nx2[g[i]] = g[i + 1]
    BY <1>1, <1>10
  <2>3. Path(nx2, h, g, n + 1)
    BY <1>1, <1>8, <1>9, <2>1, <2>2 DEF Path
  <2>4. Back(pv2, g, n + 1)
    BY <1>10 DEF Back
  <2> QED
    BY <2>3, <2>4
<1>13. Spliced(nx, pv, nx2, pv2, h, g, n + 1, Members(f, n) \cup {t})
  BY <1>6, <1>7, <1>11, <1>12 DEF Spliced
<1> QED
  BY <1>13 DEF g

Without(f, n, k) == [i \in 0..((n - 1) + 1) |-> IF i < k THEN f[i] ELSE f[i + 1]]

WithoutSound(g, f, n, k) ==
    /\ g \in [0..((n - 1) + 1) -> Id]
    /\ \A i \in 0..(k - 1) : g[i] = f[i]
    /\ \A i \in k..n : g[i] = f[i + 1]
    /\ \A i \in 1..(n - 1) : g[i] # 0
    /\ \A i, j \in 1..(n - 1) : g[i] = g[j] => i = j
    /\ Members(g, n - 1) = Members(f, n) \ {f[k]}

LEMMA WithoutTyped ==
    ASSUME NEW n \in Nat, NEW f \in [0..(n + 1) -> Id], NEW k \in 1..n,
           f[0] = 0, f[n + 1] = 0, \A i \in 1..n : f[i] # 0,
           \A i, j \in 1..n : f[i] = f[j] => i = j
    PROVE  WithoutSound(Without(f, n, k), f, n, k)
<1> DEFINE g == Without(f, n, k)
<1>0. (n - 1) + 1 = n /\ n - 1 \in Nat
  OBVIOUS
<1>1. g \in [0..((n - 1) + 1) -> Id]
  <2> SUFFICES ASSUME NEW i \in 0..((n - 1) + 1)
               PROVE  (IF i < k THEN f[i] ELSE f[i + 1]) \in Id
    BY DEF Without
  <2>1. i \in 0..(n + 1) /\ i + 1 \in 0..(n + 1)
    OBVIOUS
  <2> QED
    BY <2>1
<1>2. \A i \in 0..(k - 1) : g[i] = f[i]
  <2> SUFFICES ASSUME NEW i \in 0..(k - 1) PROVE g[i] = f[i]
    OBVIOUS
  <2>1. i \in 0..((n - 1) + 1) /\ i < k
    OBVIOUS
  <2> QED
    BY <2>1 DEF Without
<1>3. \A i \in k..n : g[i] = f[i + 1]
  <2> SUFFICES ASSUME NEW i \in k..n PROVE g[i] = f[i + 1]
    OBVIOUS
  <2>1. i \in 0..((n - 1) + 1) /\ ~(i < k)
    OBVIOUS
  <2> QED
    BY <2>1 DEF Without
<1>4. \A i \in 1..(n - 1) :
         \/ i < k /\ i \in 1..n /\ g[i] = f[i]
         \/ i >= k /\ i + 1 \in 1..n /\ g[i] = f[i + 1]
  <2> SUFFICES ASSUME NEW i \in 1..(n - 1)
               PROVE  \/ i < k /\ i \in 1..n /\ g[i] = f[i]
                      \/ i >= k /\ i + 1 \in 1..n /\ g[i] = f[i + 1]
    OBVIOUS
  <2>1. CASE i < k
    <3>1. i \in 0..(k - 1) /\ i \in 1..n
      BY <2>1
    <3> QED
      BY <1>2, <2>1, <3>1
  <2>2. CASE i >= k
    <3>1. i \in k..n /\ i + 1 \in 1..n
      BY <2>2
    <3> QED
      BY <1>3, <2>2, <3>1
  <2> QED
    BY <2>1, <2>2
<1> HIDE DEF g
<1>5. \A i \in 1..(n - 1) : g[i] # 0
  BY <1>4
<1>6. \A i, j \in 1..(n - 1) : g[i] = g[j] => i = j
  BY <1>4
<1>7. Members(g, n - 1) = Members(f, n) \ {f[k]}
  <2>1. ASSUME NEW u \in Members(g, n - 1) PROVE u \in Members(f, n) \ {f[k]}
    <3>1. PICK i \in 1..(n - 1) : u = g[i]
      BY <2>1 DEF Members
    <3>2. \E j \in 1..n : u = f[j] /\ j # k
      BY <1>4, <3>1
    <3> QED
      BY <3>2 DEF Members
  <2>2. ASSUME NEW u \in Members(f, n) \ {f[k]} PROVE u \in Members(g, n - 1)
    <3>1. PICK i \in 1..n : u = f[i] /\ i # k
      BY <2>2 DEF Members
    <3>2. CASE i < k
      <4>1. i \in 0..(k - 1) /\ i \in 1..(n - 1)
        BY <3>2
      <4> QED
        BY <1>2, <3>1, <4>1 DEF Members
    <3>3. CASE i > k
      <4>1. i - 1 \in k..n /\ i - 1 \in 1..(n - 1) /\ (i - 1) + 1 = i
        BY <3>3
      <4> QED
        BY <1>3, <3>1, <4>1 DEF Members
    <3> QED
      BY <3>1, <3>2, <3>3
  <2> QED
    BY <2>1, <2>2
<1>8. WithoutSound(g, f, n, k)
  BY <1>1, <1>2, <1>3, <1>5, <1>6, <1>7 DEF WithoutSound
<1> QED
  BY <1>8 DEF g

Detached(nx, pv, nx2, pv2, h, f, n, k, t) ==
    /\ Spliced(nx, pv, nx2, pv2, h, Without(f, n, k), n - 1, Members(f, n))
    /\ nx2[t] = 0 /\ pv2[t] = 0

\* The links timer_unset() writes.
LEMMA UnsetLinks ==
    ASSUME NEW nx \in [Id -> Id], NEW pv \in [Id -> Id], NEW head, NEW n, NEW f,
           Path(nx, head, f, n), Back(pv, f, n), NEW k \in 1..n,
           NEW t, t = f[k], NEW p, p = pv[t], NEW m, m = nx[t],
           NEW nx2, nx2 = [nx EXCEPT ![p] = m, ![t] = 0, ![0] = 0],
           NEW pv2, pv2 = [pv EXCEPT ![m] = p, ![t] = 0, ![0] = 0],
           NEW h, h = IF head = t THEN m ELSE head
    PROVE  Detached(nx, pv, nx2, pv2, h, f, n, k, t)
<1> DEFINE g == Without(f, n, k)
<1>0. /\ n \in Nat /\ f \in [0..(n + 1) -> Id] /\ f[0] = 0 /\ f[n + 1] = 0 /\ head = f[1]
      /\ \A i \in 1..n : f[i] # 0 /\ nx[f[i]] = f[i + 1]
      /\ \A i, j \in 1..n : f[i] = f[j] => i = j
      /\ \A i \in 1..n : pv[f[i]] = f[i - 1]
  BY DEF Path, Back
<1>a. WithoutSound(g, f, n, k)
  <2>1. \A i \in 1..n : f[i] # 0
    BY <1>0
  <2> QED
    BY <1>0, <2>1, WithoutTyped
<1> HIDE DEF g
<1>1. /\ g \in [0..((n - 1) + 1) -> Id]
      /\ \A i \in 0..(k - 1) : g[i] = f[i]
      /\ \A i \in k..n : g[i] = f[i + 1]
      /\ \A i \in 1..(n - 1) : g[i] # 0
      /\ \A i, j \in 1..(n - 1) : g[i] = g[j] => i = j
  BY <1>a DEF WithoutSound
<1>2. /\ k \in Nat /\ n \in Nat /\ k - 1 \in 0..(n + 1) /\ k + 1 \in 0..(n + 1) /\ k \in 0..(n + 1)
      /\ (n - 1) + 1 = n /\ n - 1 \in Nat /\ 1 \in 1..n
  BY <1>0
<1>3. p = f[k - 1] /\ m = f[k + 1] /\ t # 0
  BY <1>0
<1>4. p \in Id /\ m \in Id /\ 0 \in Id /\ t \in Id
  BY <1>0, <1>2, <1>3, Sizes
<1>5. p # t /\ m # t /\ (p = 0 <=> k = 1) /\ (m = 0 <=> k = n)
  <2>1. CASE k = 1
    <3>1. p = 0
      BY <1>0, <1>3, <2>1
    <3>2. CASE k = n
      BY <1>0, <1>3, <2>1, <3>1, <3>2
    <3>3. CASE k # n
      <4>1. k + 1 \in 1..n /\ k # k + 1
        BY <1>2, <3>3
      <4> QED
        BY <1>0, <1>3, <2>1, <3>1, <3>3, <4>1
    <3> QED
      BY <3>2, <3>3
  <2>2. CASE k # 1
    <3>1. k - 1 \in 1..n /\ k # k - 1
      BY <1>2, <2>2
    <3>2. CASE k = n
      BY <1>0, <1>3, <2>2, <3>1, <3>2
    <3>3. CASE k # n
      <4>1. k + 1 \in 1..n /\ k # k + 1
        BY <1>2, <3>3
      <4> QED
        BY <1>0, <1>3, <2>2, <3>1, <3>3, <4>1
    <3> QED
      BY <3>2, <3>3
  <2> QED
    BY <2>1, <2>2
<1>6. /\ nx2 \in [Id -> Id] /\ nx2[0] = 0 /\ nx2[t] = 0 /\ (p # 0 => nx2[p] = m)
      /\ \A u \in Id : u \notin {p, t, 0} => nx2[u] = nx[u]
  BY <1>3, <1>4, <1>5
<1>7. /\ pv2 \in [Id -> Id] /\ pv2[0] = 0 /\ pv2[t] = 0 /\ (m # 0 => pv2[m] = p)
      /\ \A u \in Id : u \notin {m, t, 0} => pv2[u] = pv[u]
  BY <1>3, <1>4, <1>5
<1>8. g[0] = 0 /\ g[(n - 1) + 1] = 0
  <2>1. 0 \in 0..(k - 1) /\ n \in k..n
    BY <1>2
  <2> QED
    BY <1>0, <1>1, <1>2, <2>1
<1>9. h = g[1]
  <2>1. CASE k = 1
    <3>1. 1 \in k..n /\ h = m
      BY <1>0, <1>2, <2>1
    <3> QED
      BY <1>1, <1>3, <2>1, <3>1
  <2>2. CASE k # 1
    <3>1. 1 \in 0..(k - 1) /\ head # t
      BY <1>0, <1>2, <2>2
    <3> QED
      BY <1>0, <1>1, <3>1
  <2> QED
    BY <2>1, <2>2
<1>10. ASSUME NEW i \in 1..(n - 1) PROVE nx2[g[i]] = g[i + 1] /\ pv2[g[i]] = g[i - 1]
  <2>1. CASE i < k - 1
    <3>1. /\ i \in 0..(k - 1) /\ i + 1 \in 0..(k - 1) /\ i - 1 \in 0..(k - 1) /\ i \in 1..n
          /\ k - 1 \in 1..n /\ i # k - 1 /\ i # k /\ i # k + 1
      BY <1>2, <2>1
    <3>2. g[i] = f[i] /\ g[i + 1] = f[i + 1] /\ g[i - 1] = f[i - 1]
      BY <1>1, <3>1
    <3>3. f[i] # p /\ f[i] # t /\ f[i] # 0 /\ f[i] \in Id
      BY <1>0, <1>2, <1>3, <3>1
    <3>4. f[i] # m
      <4>1. k # n => k + 1 \in 1..n
        BY <1>2
      <4> QED
        BY <1>0, <1>3, <1>5, <3>1, <3>3, <4>1
    <3> QED
      BY <1>0, <1>6, <1>7, <3>1, <3>2, <3>3, <3>4
  <2>2. CASE i = k - 1
    <3>1. /\ i \in 0..(k - 1) /\ i - 1 \in 0..(k - 1) /\ i \in 1..n /\ i + 1 \in k..n
          /\ (i + 1) + 1 = k + 1 /\ k # 1 /\ i # k + 1 /\ i # k
      BY <1>2, <2>2
    <3>2. g[i] = p /\ g[i + 1] = m /\ g[i - 1] = f[i - 1] /\ f[i] = p
      BY <1>1, <1>3, <2>2, <3>1
    <3>3. p # m
      <4>1. k # n => k + 1 \in 1..n
        BY <1>2
      <4> QED
        BY <1>0, <1>3, <1>5, <2>2, <3>1, <4>1
    <3> QED
      BY <1>0, <1>4, <1>5, <1>6, <1>7, <3>1, <3>2, <3>3
  <2>3. CASE i = k
    <3>1. /\ i \in k..n /\ i + 1 \in k..n /\ i - 1 \in 0..(k - 1) /\ k + 1 \in 1..n /\ k # n
          /\ (k + 1) + 1 = k + 2
      BY <1>2, <2>3
    <3>2. g[i] = m /\ g[i + 1] = f[k + 2] /\ g[i - 1] = p
      BY <1>1, <1>3, <2>3, <3>1
    <3>3. nx[m] = f[k + 2] /\ m # 0 /\ m # p
      <4>1. k # 1 => (k - 1 \in 1..n /\ k - 1 # k + 1)
        BY <1>2
      <4> QED
        BY <1>0, <1>3, <1>5, <3>1, <4>1
    <3> QED
      BY <1>4, <1>5, <1>6, <1>7, <3>2, <3>3
  <2>4. CASE i > k
    <3> DEFINE j == i + 1
    <3>1. /\ i \in k..n /\ i + 1 \in k..n /\ i - 1 \in k..n /\ (i - 1) + 1 = i /\ j \in 1..n
          /\ j - 1 = i /\ j # k /\ j # k - 1 /\ j # k + 1 /\ k + 1 \in 1..n
      BY <1>2, <2>4
    <3>2. g[i] = f[j] /\ g[i + 1] = f[j + 1] /\ g[i - 1] = f[j - 1]
      BY <1>1, <3>1
    <3>3. f[j] # m /\ f[j] # t /\ f[j] # 0 /\ f[j] \in Id
      BY <1>0, <1>2, <1>3, <3>1
    <3>4. f[j] # p
      <4>1. k # 1 => k - 1 \in 1..n
        BY <1>2
      <4> QED
        BY <1>0, <1>3, <1>5, <3>1, <3>3, <4>1
    <3>5. nx[f[j]] = f[j + 1] /\ pv[f[j]] = f[j - 1]
      BY <1>0, <3>1
    <3> HIDE DEF j
    <3> QED
      BY <1>6, <1>7, <3>2, <3>3, <3>4, <3>5
  <2> QED
    BY <1>2, <2>1, <2>2, <2>3, <2>4
<1>11. \A u \in Id \ (Members(f, n) \cup {0}) : nx2[u] = nx[u] /\ pv2[u] = pv[u]
  <2>1. p \in Members(f, n) \cup {0}
    <3>1. k # 1 => k - 1 \in 1..n
      BY <1>2
    <3> QED
      BY <1>3, <1>5, <3>1 DEF Members
  <2>2. m \in Members(f, n) \cup {0}
    <3>1. k # n => k + 1 \in 1..n
      BY <1>2
    <3> QED
      BY <1>3, <1>5, <3>1 DEF Members
  <2>3. t \in Members(f, n)
    BY DEF Members
  <2> QED
    BY <1>6, <1>7, <2>1, <2>2, <2>3
<1>12. Path(nx2, h, g, n - 1) /\ Back(pv2, g, n - 1)
  <2>2. \A i \in 1..(n - 1) : g[i] # 0 /\ nx2[g[i]] = g[i + 1]
    BY <1>1, <1>10
  <2>3. Path(nx2, h, g, n - 1)
    BY <1>1, <1>2, <1>8, <1>9, <2>2 DEF Path
  <2>4. Back(pv2, g, n - 1)
    BY <1>10 DEF Back
  <2> QED
    BY <2>3, <2>4
<1>13. Spliced(nx, pv, nx2, pv2, h, g, n - 1, Members(f, n))
  BY <1>6, <1>7, <1>11, <1>12 DEF Spliced
<1> QED
  BY <1>6, <1>7, <1>13 DEF g, Detached

-----------------------------------------------------------------------------
(* The functions of z80.c on the array.                                    *)

\* A list whose links and order are the same in another array.
LEMMA PathKept ==
    ASSUME NEW nx, NEW nx2, NEW head, NEW n, NEW f, Path(nx, head, f, n),
           \A u \in Members(f, n) : nx2[u] = nx[u]
    PROVE  Path(nx2, head, f, n)
BY DEF Path, Members

LEMMA LinkedKept ==
    ASSUME NEW y, NEW y2, NEW head, NEW S, Linked(y, head, S),
           \A u \in S : y2.next[u] = y.next[u] /\ y2.prev[u] = y.prev[u],
           \A s, u \in S : Left(y, s) <= Left(y, u) => Left(y2, s) <= Left(y2, u)
    PROVE  Linked(y2, head, S)
<1>1. PICK n, f : Ordered(y, head, S, f, n)
  BY DEF Linked
<1>2. Path(y2.next, head, f, n)
  BY <1>1, PathKept DEF Ordered
<1>3. \A i \in 1..n : f[i] \in S
  BY <1>1 DEF Ordered, Members
<1>4. Back(y2.prev, f, n)
  BY <1>1, <1>3 DEF Ordered, Back
<1>5. Sorted(y2, f, n)
  BY <1>1, <1>3 DEF Ordered, Sorted
<1>6. Ordered(y2, head, S, f, n)
  BY <1>1, <1>2, <1>4, <1>5 DEF Ordered
<1> QED
  BY <1>6 DEF Linked

\* What List() finds.
LEMMA LinkedList ==
    ASSUME NEW y, y.next[0] = 0, NEW head, NEW S, Linked(y, head, S)
    PROVE  List(y, head) = S
<1>1. PICK n, f : Ordered(y, head, S, f, n)
  BY DEF Linked
<1>2. Path(y.next, head, f, n) /\ S = Members(f, n)
  BY <1>1 DEF Ordered
<1> QED
  BY <1>2, ListIs

\* The head, both neighbours and the order of a list.
LEMMA LinkedFacts ==
    ASSUME NEW y \in Arrays, NEW head, NEW S, Linked(y, head, S)
    PROVE  /\ S \subseteq Id \ {0} /\ head \in S \cup {0} /\ (head = 0 <=> S = {})
           /\ \A t \in S : Left(y, head) <= Left(y, t)
           /\ \A t \in S : (t = head) <=> (y.prev[t] = 0)
           /\ \A t \in S : y.next[t] \in S \cup {0}
           /\ \A t \in S : y.next[t] # 0 =>
                 y.prev[y.next[t]] = t /\ Left(y, t) <= Left(y, y.next[t])
<1>1. PICK n, f : Ordered(y, head, S, f, n)
  BY DEF Linked
<1>2. /\ Path(y.next, head, f, n) /\ S = Members(f, n) /\ Back(y.prev, f, n)
      /\ Sorted(y, f, n)
  BY <1>1 DEF Ordered
<1>n. n \in Nat
  BY <1>2 DEF Path
<1>3. /\ f[0] = 0 /\ f[n + 1] = 0 /\ head = f[1]
      /\ \A i \in 1..n : f[i] # 0 /\ y.next[f[i]] = f[i + 1]
      /\ \A i, j \in 1..n : f[i] = f[j] => i = j
      /\ \A i \in 1..n : y.prev[f[i]] = f[i - 1]
      /\ \A i, j \in 1..n : i <= j => Left(y, f[i]) <= Left(y, f[j])
  BY <1>2 DEF Path, Back, Sorted
<1>4. /\ \A i \in 1..n : f[i] \in Id \ {0}
      /\ head = 0 <=> n = 0
  BY <1>2, PathTyped
<1>5. n # 0 => 1 \in 1..n
  BY <1>n
<1>6. S \subseteq Id \ {0} /\ head \in S \cup {0} /\ (head = 0 <=> S = {})
  BY <1>2, <1>3, <1>4, <1>5 DEF Members
<1>7. ASSUME NEW t \in S
      PROVE  /\ Left(y, head) <= Left(y, t)
             /\ (t = head) <=> (y.prev[t] = 0)
             /\ y.next[t] \in S \cup {0}
             /\ y.next[t] # 0 => y.prev[y.next[t]] = t /\ Left(y, t) <= Left(y, y.next[t])
  <2>1. PICK i \in 1..n : t = f[i]
    BY <1>2, <1>7 DEF Members
  <2>2. 1 \in 1..n /\ 1 <= i /\ i \in Nat
    BY <1>n
  <2>3. Left(y, head) <= Left(y, t)
    BY <1>3, <2>1, <2>2
  <2>4. (t = head) <=> (y.prev[t] = 0)
    <3>1. CASE i = 1
      BY <1>3, <2>1, <3>1
    <3>2. CASE i # 1
      <4>1. i - 1 \in 1..n
        BY <1>n, <3>2
      <4> QED
        BY <1>3, <2>1, <2>2, <3>2, <4>1
    <3> QED
      BY <3>1, <3>2
  <2>5. /\ y.next[t] \in S \cup {0}
        /\ y.next[t] # 0 => y.prev[y.next[t]] = t /\ Left(y, t) <= Left(y, y.next[t])
    <3>1. CASE i = n
      BY <1>3, <2>1, <3>1
    <3>2. CASE i # n
      <4>1. i + 1 \in 1..n /\ (i + 1) - 1 = i /\ i <= i + 1
        BY <1>n, <3>2
      <4>2. y.next[t] = f[i + 1] /\ y.prev[f[i + 1]] = t
        BY <1>3, <2>1, <4>1
      <4>3. Left(y, t) <= Left(y, f[i + 1])
        BY <1>3, <2>1, <4>1
      <4> QED
        BY <1>2, <4>1, <4>2, <4>3 DEF Members
    <3> QED
      BY <3>1, <3>2
  <2> QED
    BY <2>3, <2>4, <2>5
<1> QED
  BY <1>6, <1>7

\* Y differs from y in the lists alone, and of the links in those of U alone.
Relinked(y, Y, U) ==
    /\ Y \in Arrays
    /\ Y.clock = y.clock /\ Y.size = y.size /\ Y.used = y.used /\ Y.free = y.free
    /\ Y.speed = y.speed /\ Y.count = y.count /\ Y.period = y.period
    /\ Y.next[0] = 0 /\ Y.prev[0] = 0
    /\ \A u \in Id \ (U \cup {0}) : Y.next[u] = y.next[u] /\ Y.prev[u] = y.prev[u]

LEMMA SameLeft ==
    ASSUME NEW y, NEW Y, NEW U, Relinked(y, Y, U), NEW t
    PROVE  Left(Y, t) = Left(y, t)
BY DEF Relinked, Left, Minus

InsertedAt(y, Y, l, S, t) ==
    /\ Relinked(y, Y, S \cup {t}) /\ Linked(Y, Y[l], S \cup {t})
    /\ \A k \in Lists : k # l => Y[k] = y[k]

\* timer_insert() on a list.
LEMMA InsertIs ==
    ASSUME NEW y \in Arrays, y.next[0] = 0, y.prev[0] = 0, NEW l \in Lists, NEW S,
           Linked(y, y[l], S), NEW t \in Id \ {0}, t \notin S,
           NEW Y, Y = Insert(y, l, t)
    PROVE  InsertedAt(y, Y, l, S, t)
<1>1. PICK n, f : Ordered(y, y[l], S, f, n)
  BY DEF Linked
<1>2. /\ Path(y.next, y[l], f, n) /\ S = Members(f, n) /\ Back(y.prev, f, n)
      /\ Sorted(y, f, n)
  BY <1>1 DEF Ordered
<1>n. n \in Nat /\ f \in [0..(n + 1) -> Id]
  BY <1>2 DEF Path
<1>3. PICK k \in 0..n :
              /\ Before(y, l, t) = f[k]
              /\ \A i \in 1..k : Left(y, f[i]) <= Left(y, t)
              /\ \A i \in (k + 1)..n : Left(y, t) <= Left(y, f[i])
  BY <1>1, BeforeIs
<1>4. /\ f[0] = 0 /\ f[n + 1] = 0 /\ y[l] = f[1]
      /\ \A i \in 1..n : f[i] # 0 /\ y.next[f[i]] = f[i + 1]
      /\ \A i \in 0..(n + 1) : f[i] \in Id
  BY <1>2 DEF Path
<1> DEFINE p == Before(y, l, t)
           m == IF p = 0 THEN y[l] ELSE y.next[p]
           nx2 == [y.next EXCEPT ![p] = t, ![t] = m, ![0] = 0]
           pv2 == [y.prev EXCEPT ![m] = t, ![t] = p, ![0] = 0]
           h == IF k = 0 THEN t ELSE y[l]
           g == Joined(f, n, k, t)
           linked == [y EXCEPT !.prev = pv2, !.next = nx2]
<1>5. p = f[k] /\ m = f[k + 1] /\ (p = 0 <=> k = 0)
  <2>1. CASE k = 0
    BY <1>3, <1>4, <2>1
  <2>2. CASE k # 0
    <3>1. k \in 1..n
      BY <1>n, <2>2
    <3> QED
      BY <1>3, <1>4, <2>2, <3>1
  <2> QED
    BY <2>1, <2>2
<1>6. y.next \in [Id -> Id] /\ y.prev \in [Id -> Id]
  BY DEF Arrays
<1>7. Y = [linked EXCEPT ![l] = h] /\ y[l] \in Id
  <2>1. Y = IF p = 0 THEN [linked EXCEPT ![l] = t] ELSE linked
    BY DEF Insert
  <2>2. linked[l] = y[l] /\ linked = [linked EXCEPT ![l] = linked[l]] /\ y[l] \in Id
    BY DEF Arrays, Lists
  <2> HIDE DEF linked, p
  <2> QED
    BY <1>5, <2>1, <2>2
<1> HIDE DEF p, m
<1>a. Spliced(y.next, y.prev, nx2, pv2, h, g, n + 1, Members(f, n) \cup {t})
  <2> HIDE DEF nx2, pv2, h, g
  <2>1. nx2 = [y.next EXCEPT ![p] = t, ![t] = m, ![0] = 0]
        /\ pv2 = [y.prev EXCEPT ![m] = t, ![t] = p, ![0] = 0]
        /\ h = (IF k = 0 THEN t ELSE y[l])
        /\ g = Joined(f, n, k, t)
    BY DEF nx2, pv2, h, g
  <2> DEFINE nx == y.next
             pv == y.prev
             head == y[l]
  <2>2. /\ nx \in [Id -> Id] /\ pv \in [Id -> Id]
        /\ Path(nx, head, f, n) /\ Back(pv, f, n) /\ t \notin Members(f, n)
        /\ nx2 = [nx EXCEPT ![p] = t, ![t] = m, ![0] = 0]
        /\ pv2 = [pv EXCEPT ![m] = t, ![t] = p, ![0] = 0]
        /\ h = (IF k = 0 THEN t ELSE head)
    BY <1>2, <1>6, <2>1
  <2> HIDE DEF nx, pv, head
  <2>3. Spliced(nx, pv, nx2, pv2, h, Joined(f, n, k, t), n + 1, Members(f, n) \cup {t})
    BY <1>5, <2>2, InsertLinks
  <2> QED
    BY <2>1, <2>3 DEF nx, pv
<1>8. /\ nx2 \in [Id -> Id] /\ pv2 \in [Id -> Id]
      /\ Path(nx2, h, g, n + 1) /\ Back(pv2, g, n + 1)
      /\ \A u \in Id \ (Members(f, n) \cup {t, 0}) : nx2[u] = y.next[u] /\ pv2[u] = y.prev[u]
      /\ nx2[0] = 0 /\ pv2[0] = 0
  BY <1>a DEF Spliced
<1>9. h \in Id
  BY <1>7
<1> HIDE DEF nx2, pv2, h
<1>10. Relinked(y, Y, S \cup {t}) /\ Y.next = nx2 /\ Y.prev = pv2 /\ Y[l] = h
       /\ \A j \in Lists : j # l => Y[j] = y[j]
  <2>1. /\ linked \in Arrays /\ linked.next = nx2 /\ linked.prev = pv2
        /\ linked.clock = y.clock /\ linked.size = y.size /\ linked.used = y.used
        /\ linked.free = y.free /\ linked.speed = y.speed /\ linked.count = y.count
        /\ linked.period = y.period /\ \A j \in Lists : linked[j] = y[j]
    BY <1>8 DEF Arrays, Lists
  <2> HIDE DEF linked
  <2>2. /\ Y \in Arrays /\ Y.next = nx2 /\ Y.prev = pv2 /\ Y[l] = h
        /\ Y.clock = y.clock /\ Y.size = y.size /\ Y.used = y.used
        /\ Y.free = y.free /\ Y.speed = y.speed /\ Y.count = y.count
        /\ Y.period = y.period /\ \A j \in Lists : j # l => Y[j] = y[j]
    BY <1>7, <1>9, <2>1 DEF Arrays, Lists
  <2> QED
    BY <1>2, <1>8, <2>2 DEF Relinked
<1>11. \A u : Left(Y, u) = Left(y, u)
  BY <1>10, SameLeft
<1>12. JoinedSound(g, f, n, k, t)
  <2>1. f[0] = 0 /\ f[n + 1] = 0 /\ (\A i \in 1..n : f[i] # 0)
        /\ \A i, j \in 1..n : f[i] = f[j] => i = j
    BY <1>2 DEF Path
  <2> QED
    BY <1>n, <1>2, <2>1, JoinedTyped
<1> HIDE DEF g
<1>13. \A i \in 1..n : f[i] \in Id
  BY <1>n, <1>4
<1>14. Left(y, t) \in Int /\ \A i \in 1..n : Left(y, f[i]) \in Int
  BY <1>13, LeftTyped
<1>15. \A i \in 1..(n + 1) :
          \/ i \in 1..k /\ i \in 1..n /\ g[i] = f[i]
          \/ i = k + 1 /\ g[i] = t
          \/ i - 1 \in (k + 1)..n /\ i - 1 \in 1..n /\ g[i] = f[i - 1]
  <2> SUFFICES ASSUME NEW i \in 1..(n + 1)
               PROVE  \/ i \in 1..k /\ i \in 1..n /\ g[i] = f[i]
                      \/ i = k + 1 /\ g[i] = t
                      \/ i - 1 \in (k + 1)..n /\ i - 1 \in 1..n /\ g[i] = f[i - 1]
    OBVIOUS
  <2>1. CASE i <= k
    <3>1. i \in 0..k /\ i \in 1..k /\ i \in 1..n
      BY <1>n, <2>1
    <3> QED
      BY <1>12, <3>1 DEF JoinedSound
  <2>2. CASE i = k + 1
    BY <1>12, <2>2 DEF JoinedSound
  <2>3. CASE i > k + 1
    <3>1. i - 1 \in (k + 1)..n /\ i - 1 \in 1..n /\ i - 1 \in (k + 1)..(n + 1) /\ (i - 1) + 1 = i
      BY <1>n, <2>3
    <3> QED
      BY <1>12, <3>1 DEF JoinedSound
  <2> QED
    BY <1>n, <2>1, <2>2, <2>3
<1>16. \A i, j \in 1..(n + 1) : i <= j => Left(y, g[i]) <= Left(y, g[j])
  <2>1. \A i, j \in 1..n : i <= j => Left(y, f[i]) <= Left(y, f[j])
    BY <1>2 DEF Sorted
  <2> SUFFICES ASSUME NEW i \in 1..(n + 1), NEW j \in 1..(n + 1), i <= j
               PROVE  Left(y, g[i]) <= Left(y, g[j])
    OBVIOUS
  <2>2. CASE i \in 1..k /\ i \in 1..n /\ g[i] = f[i]
    <3>1. CASE j \in 1..k /\ j \in 1..n /\ g[j] = f[j]
      BY <2>1, <2>2, <3>1
    <3>2. CASE j = k + 1 /\ g[j] = t
      BY <1>3, <2>2, <3>2
    <3>3. CASE j - 1 \in (k + 1)..n /\ j - 1 \in 1..n /\ g[j] = f[j - 1]
      <4>1. i <= j - 1
        BY <1>n, <2>2, <3>3
      <4> QED
        BY <2>1, <2>2, <3>3, <4>1
    <3> QED
      BY <1>15, <3>1, <3>2, <3>3
  <2>3. CASE i = k + 1 /\ g[i] = t
    <3>1. CASE j = k + 1 /\ g[j] = t
      BY <1>14, <2>3, <3>1
    <3>2. CASE j - 1 \in (k + 1)..n /\ j - 1 \in 1..n /\ g[j] = f[j - 1]
      BY <1>3, <2>3, <3>2
    <3>3. ~(j \in 1..k)
      BY <1>n, <2>3
    <3> QED
      BY <1>15, <3>1, <3>2, <3>3
  <2>4. CASE i - 1 \in (k + 1)..n /\ i - 1 \in 1..n /\ g[i] = f[i - 1]
    <3>1. j - 1 \in (k + 1)..n /\ j - 1 \in 1..n /\ i - 1 <= j - 1 /\ ~(j \in 1..k) /\ j # k + 1
      BY <1>n, <2>4
    <3>2. g[j] = f[j - 1]
      BY <1>15, <3>1
    <3> QED
      BY <2>1, <2>4, <3>1, <3>2
  <2> QED
    BY <1>15, <2>2, <2>3, <2>4
<1>17. Sorted(Y, g, n + 1)
  BY <1>11, <1>16 DEF Sorted
<1>18. S \cup {t} = Members(g, n + 1) /\ g \in [0..((n + 1) + 1) -> Id]
  BY <1>2, <1>12 DEF JoinedSound
<1>19. Ordered(Y, Y[l], S \cup {t}, g, n + 1)
  BY <1>8, <1>10, <1>17, <1>18 DEF Ordered, g
<1>21. Linked(Y, Y[l], S \cup {t})
  BY <1>19 DEF Linked
<1> QED
  BY <1>10, <1>21 DEF InsertedAt

\* The order of a list without one of its timers.
LEMMA SortedWithout ==
    ASSUME NEW y, NEW n \in Nat, NEW f, NEW k \in 1..n, NEW g, Sorted(y, f, n),
           WithoutSound(g, f, n, k)
    PROVE  Sorted(y, g, n - 1)
<1>1. /\ \A i \in 0..(k - 1) : g[i] = f[i]
      /\ \A i \in k..n : g[i] = f[i + 1]
  BY DEF WithoutSound
<1>2. \A i, j \in 1..n : i <= j => Left(y, f[i]) <= Left(y, f[j])
  BY DEF Sorted
<1> SUFFICES ASSUME NEW i \in 1..(n - 1), NEW j \in 1..(n - 1), i <= j
             PROVE  Left(y, g[i]) <= Left(y, g[j])
  BY DEF Sorted
<1>3. \/ i \in 0..(k - 1) /\ j \in 0..(k - 1) /\ i \in 1..n /\ j \in 1..n /\ i <= j
      \/ i \in 0..(k - 1) /\ j \in k..n /\ i \in 1..n /\ j + 1 \in 1..n /\ i <= j + 1
      \/ i \in k..n /\ j \in k..n /\ i + 1 \in 1..n /\ j + 1 \in 1..n /\ i + 1 <= j + 1
  OBVIOUS
<1>4. CASE i \in 0..(k - 1) /\ j \in 0..(k - 1) /\ i \in 1..n /\ j \in 1..n /\ i <= j
  BY <1>1, <1>2, <1>4
<1>5. CASE i \in 0..(k - 1) /\ j \in k..n /\ i \in 1..n /\ j + 1 \in 1..n /\ i <= j + 1
  BY <1>1, <1>2, <1>5
<1>6. CASE i \in k..n /\ j \in k..n /\ i + 1 \in 1..n /\ j + 1 \in 1..n /\ i + 1 <= j + 1
  BY <1>1, <1>2, <1>6
<1> QED
  BY <1>3, <1>4, <1>5, <1>6

TakenFrom(y, Y, l, S, t) ==
    /\ Relinked(y, Y, S) /\ Linked(Y, Y[l], S \ {t})
    /\ \A o \in Lists : o # l => Y[o] = y[o]
    /\ Y.next[t] = 0 /\ Y.prev[t] = 0

\* timer_unset() on the list of the timer.
LEMMA UnsetIs ==
    ASSUME NEW y \in Arrays, y.next[0] = 0, y.prev[0] = 0, NEW l \in Lists, NEW S,
           Linked(y, y[l], S), NEW t \in S, \A o \in Lists : o # l => y[o] # t,
           NEW Y, Y = Unset(y, t)
    PROVE  TakenFrom(y, Y, l, S, t)
<1>1. PICK n, f : Ordered(y, y[l], S, f, n)
  BY DEF Linked
<1>2. /\ Path(y.next, y[l], f, n) /\ S = Members(f, n) /\ Back(y.prev, f, n)
      /\ Sorted(y, f, n)
  BY <1>1 DEF Ordered
<1>3. /\ n \in Nat /\ f \in [0..(n + 1) -> Id] /\ f[0] = 0 /\ f[n + 1] = 0
      /\ \A i \in 1..n : f[i] # 0
      /\ \A i, j \in 1..n : f[i] = f[j] => i = j
  BY <1>2 DEF Path
<1>4. PICK k \in 1..n : t = f[k]
  BY <1>2 DEF Members
<1> DEFINE head == y[l]
           nx == y.next
           pv == y.prev
           p == pv[t]
           m == nx[t]
           nx2 == [nx EXCEPT ![p] = m, ![t] = 0, ![0] = 0]
           pv2 == [pv EXCEPT ![m] = p, ![t] = 0, ![0] = 0]
           h == IF head = t THEN m ELSE head
           g == Without(f, n, k)
           cpu == IF y.cpu = t THEN m ELSE y.cpu
           rt == IF y.rt = t THEN m ELSE y.rt
<1>5. Y = [y EXCEPT !.cpu = cpu, !.rt = rt, !.next = nx2, !.prev = pv2]
  BY DEF Unset
<1>6. nx \in [Id -> Id] /\ pv \in [Id -> Id] /\ t \in Id /\ 0 \in Id
  <2>1. k \in 0..(n + 1)
    BY <1>3
  <2> QED
    BY <1>3, <1>4, <2>1, Sizes DEF Arrays
<1>7. p \in Id /\ m \in Id
  BY <1>6
<1>8. cpu \in Id /\ rt \in Id
  BY <1>7 DEF Arrays
<1>9. (l = "cpu" => h = cpu /\ rt = y.rt) /\ (l = "rt" => h = rt /\ cpu = y.cpu)
  BY DEF Lists
<1>10. WithoutSound(g, f, n, k)
  BY <1>3, WithoutTyped
<1> HIDE DEF g
<1>11. Spliced(nx, pv, nx2, pv2, h, g, n - 1, Members(f, n)) /\ nx2[t] = 0 /\ pv2[t] = 0
  <2>1. /\ Path(nx, head, f, n) /\ Back(pv, f, n)
        /\ nx2 = [nx EXCEPT ![p] = m, ![t] = 0, ![0] = 0]
        /\ pv2 = [pv EXCEPT ![m] = p, ![t] = 0, ![0] = 0]
        /\ h = (IF head = t THEN m ELSE head)
        /\ p = pv[t] /\ m = nx[t]
    BY <1>2
  <2> HIDE DEF nx, pv, head, p, m, nx2, pv2, h
  <2>2. nx \in [Id -> Id] /\ pv \in [Id -> Id] /\ t = f[k]
    BY <1>4, <1>6 DEF nx, pv
  <2>3. Detached(nx, pv, nx2, pv2, h, f, n, k, t)
    BY <2>1, <2>2, UnsetLinks
  <2> QED
    BY <2>3 DEF g, Detached
<1> HIDE DEF nx2, pv2, h, cpu, rt
<1>12. /\ nx2 \in [Id -> Id] /\ pv2 \in [Id -> Id]
       /\ Path(nx2, h, g, n - 1) /\ Back(pv2, g, n - 1)
       /\ \A u \in Id \ (Members(f, n) \cup {0}) : nx2[u] = nx[u] /\ pv2[u] = pv[u]
       /\ nx2[0] = 0 /\ pv2[0] = 0
  BY <1>11 DEF Spliced
<1>13. Relinked(y, Y, S) /\ Y.next = nx2 /\ Y.prev = pv2 /\ Y.cpu = cpu /\ Y.rt = rt
  <2>1. /\ Y \in Arrays /\ Y.next = nx2 /\ Y.prev = pv2 /\ Y.cpu = cpu /\ Y.rt = rt
        /\ Y.clock = y.clock /\ Y.size = y.size /\ Y.used = y.used
        /\ Y.free = y.free /\ Y.speed = y.speed /\ Y.count = y.count
        /\ Y.period = y.period
    BY <1>5, <1>8, <1>12 DEF Arrays
  <2> QED
    BY <1>2, <1>12, <2>1 DEF Relinked
<1>14. Y[l] = h /\ \A o \in Lists : o # l => Y[o] = y[o]
  BY <1>9, <1>13 DEF Lists
<1>15. \A u : Left(Y, u) = Left(y, u)
  BY <1>13, SameLeft
<1>16. Sorted(Y, g, n - 1)
  <2>1. Sorted(y, g, n - 1)
    BY <1>2, <1>3, <1>10, SortedWithout
  <2> QED
    BY <1>15, <2>1 DEF Sorted
<1>17. S \ {t} = Members(g, n - 1)
  BY <1>2, <1>4, <1>10 DEF WithoutSound
<1>18. Ordered(Y, Y[l], S \ {t}, g, n - 1)
  BY <1>12, <1>13, <1>14, <1>16, <1>17 DEF Ordered
<1>19. Linked(Y, Y[l], S \ {t})
  BY <1>18 DEF Linked
<1> QED
  BY <1>11, <1>13, <1>14, <1>19 DEF TakenFrom

\* Timers of the lists, as a function D of the list.
All(D) == D["cpu"] \cup D["rt"]

FreeChained(y) ==
    \E n, f : Path(y.next, y.free, f, n) /\ Members(f, n) = (1..(y.size - 1)) \ y.used

\* The timers of D are in the lists; those not in use are free; those in use and in no
\* list are linked to nothing.
Threaded(y, D) ==
    /\ y \in Arrays /\ D \in [Lists -> SUBSET Id]
    /\ y.next[0] = 0 /\ y.prev[0] = 0
    /\ \A l \in Lists : Linked(y, y[l], D[l])
    /\ D["cpu"] \cap D["rt"] = {}
    /\ All(D) \subseteq y.used /\ 1..Hardware \subseteq y.used
    /\ y.size \in {Hardware + 1, Slots} /\ y.used \subseteq 1..(y.size - 1)
    /\ FreeChained(y)
    /\ \A t \in Id \ All(D) : y.prev[t] = 0
    /\ \A t \in y.used \ All(D) : y.next[t] = 0

\* The free list of an array that keeps its links and the timers in use.
LEMMA FreeKept ==
    ASSUME NEW y, NEW Y, Y.free = y.free, Y.used = y.used, Y.size = y.size,
           \A u \in (1..(y.size - 1)) \ y.used : Y.next[u] = y.next[u], FreeChained(y)
    PROVE  FreeChained(Y)
<1>1. PICK n, f : Path(y.next, y.free, f, n) /\ Members(f, n) = (1..(y.size - 1)) \ y.used
  BY DEF FreeChained
<1>2. Path(Y.next, Y.free, f, n)
  BY <1>1, PathKept
<1> QED
  BY <1>1, <1>2 DEF FreeChained

\* Ranges of the array.
LEMMA Ranges ==
    ASSUME NEW y, NEW D, Threaded(y, D)
    PROVE  /\ y \in Arrays /\ y.used \subseteq Id \ {0} /\ (1..(y.size - 1)) \subseteq Id \ {0}
           /\ \A l \in Lists : D[l] \subseteq All(D) /\ y[l] \in D[l] \cup {0}
           /\ All(D) \subseteq Id \ {0} /\ All(D) \subseteq y.used
<1>1. y \in Arrays /\ All(D) \subseteq y.used
  BY DEF Threaded
<1>2. (1..(y.size - 1)) \subseteq Id \ {0}
  BY Sizes DEF Threaded
<1>3. \A l \in Lists : D[l] \subseteq All(D)
  BY DEF Lists, All
<1>4. \A l \in Lists : y[l] \in D[l] \cup {0}
  <2> SUFFICES ASSUME NEW l \in Lists PROVE y[l] \in D[l] \cup {0}
    OBVIOUS
  <2> DEFINE h == y[l]
             S == D[l]
  <2>1. Linked(y, h, S)
    BY DEF Threaded
  <2> HIDE DEF h, S
  <2>2. h \in S \cup {0}
    BY <1>1, <2>1, LinkedFacts
  <2> QED
    BY <2>2 DEF h, S
<1>5. y.used \subseteq 1..(y.size - 1)
  BY DEF Threaded
<1> QED
  BY <1>1, <1>2, <1>3, <1>4, <1>5

\* The array with the same links.
SameLinks(y, Y) ==
    /\ Y \in Arrays /\ Y.next = y.next /\ Y.prev = y.prev /\ Y.cpu = y.cpu /\ Y.rt = y.rt
    /\ Y.free = y.free /\ Y.size = y.size /\ Y.used = y.used

LEMMA ThreadedKept ==
    ASSUME NEW y, NEW Y, NEW D, Threaded(y, D), SameLinks(y, Y),
           \A l \in Lists : \A s, u \in D[l] :
              Left(y, s) <= Left(y, u) => Left(Y, s) <= Left(Y, u)
    PROVE  Threaded(Y, D)
<1>1. ASSUME NEW l \in Lists PROVE Linked(Y, Y[l], D[l])
  <2> DEFINE h == y[l]
             S == D[l]
  <2>1. Linked(y, h, S) /\ Y[l] = h
    BY DEF Threaded, SameLinks, Lists
  <2>2. \A s, u \in S : Left(y, s) <= Left(y, u) => Left(Y, s) <= Left(Y, u)
    OBVIOUS
  <2>3. \A u \in S : Y.next[u] = y.next[u] /\ Y.prev[u] = y.prev[u]
    BY DEF SameLinks
  <2> HIDE DEF h, S
  <2>4. Linked(Y, h, S)
    BY <2>1, <2>2, <2>3, LinkedKept
  <2> QED
    BY <2>1, <2>4 DEF S
<1>2. FreeChained(Y)
  BY FreeKept DEF Threaded, SameLinks
<1> QED
  BY <1>1, <1>2 DEF Threaded, SameLinks

\* Timer t is put into list l and taken out of the others.
Put(D, t, l) == [m \in Lists |-> IF m = l THEN D[m] \cup {t} ELSE D[m] \ {t}]

LEMMA PutFacts ==
    ASSUME NEW D \in [Lists -> SUBSET Id], D["cpu"] \cap D["rt"] = {}, NEW t \in Id,
           NEW l \in Lists \cup {"off"}
    PROVE  /\ Put(D, t, l) \in [Lists -> SUBSET Id]
           /\ Put(D, t, l)["cpu"] \cap Put(D, t, l)["rt"] = {}
           /\ All(Put(D, t, l)) = IF l = "off" THEN All(D) \ {t} ELSE All(D) \cup {t}
           /\ t \notin All(D) => Put(D, t, "off") = D
           /\ Put(Put(D, t, "off"), t, l) = Put(D, t, l)
<1> DEFINE E == Put(D, t, l)
<1>0. "cpu" \in Lists /\ "rt" \in Lists /\ "off" \notin Lists /\ \A m \in Lists : m = "cpu" \/ m = "rt"
  BY DEF Lists
<1>1. E \in [Lists -> SUBSET Id]
  BY DEF Put
<1>2. E["cpu"] \cap E["rt"] = {}
  BY <1>0 DEF Put
<1>3. All(E) = IF l = "off" THEN All(D) \ {t} ELSE All(D) \cup {t}
  BY <1>0 DEF Put, All
<1>4. ASSUME t \notin All(D) PROVE Put(D, t, "off") = D
  <2>1. \A m \in Lists : m # "off" /\ D[m] \ {t} = D[m]
    BY <1>0, <1>4 DEF All
  <2> QED
    BY <2>1 DEF Put
<1>5. Put(Put(D, t, "off"), t, l) = Put(D, t, l)
  <2>1. \A m \in Lists : Put(D, t, "off")[m] = D[m] \ {t}
    BY <1>0 DEF Put
  <2> QED
    BY <2>1 DEF Put
<1> QED
  BY <1>1, <1>2, <1>3, <1>4, <1>5

\* Y is y with t alone in another list, or another place of its list.
Moved(y, Y, D, t, l) ==
    /\ Threaded(Y, Put(D, t, l))
    /\ Y.clock = y.clock /\ Y.speed = y.speed /\ Y.size = y.size /\ Y.used = y.used
    /\ Y.count = y.count /\ Y.period = y.period

\* What follows from the links of one list.
LEMMA MovedFrom ==
    ASSUME NEW y, NEW Y, NEW D, Threaded(y, D), NEW l \in Lists, NEW E, NEW S,
           D[l] \subseteq S, S \cap All(D) \subseteq D[l], S \subseteq y.used,
           E \in [Lists -> SUBSET Id], All(E) \subseteq All(D) \cup S,
           E["cpu"] \cap E["rt"] = {},
           Relinked(y, Y, S), Linked(Y, Y[l], E[l]),
           \A o \in Lists : o # l => Y[o] = y[o] /\ E[o] = D[o],
           \A t \in S \ All(E) : Y.next[t] = 0 /\ Y.prev[t] = 0,
           All(D) \subseteq All(E) \cup S
    PROVE  Threaded(Y, E)
<1>r. /\ y \in Arrays /\ y.used \subseteq Id \ {0} /\ (1..(y.size - 1)) \subseteq Id \ {0}
      /\ \A o \in Lists : D[o] \subseteq All(D) /\ y[o] \in D[o] \cup {0}
      /\ All(D) \subseteq Id \ {0} /\ All(D) \subseteq y.used
  BY Ranges
<1>1. ASSUME NEW o \in Lists, o # l PROVE Linked(Y, Y[o], E[o])
  <2> DEFINE h == y[o]
             T == D[o]
  <2>1. Linked(y, h, T) /\ Y[o] = h /\ E[o] = T
    BY <1>1 DEF Threaded
  <2>2. T \cap D[l] = {}
    BY <1>1 DEF Threaded, Lists
  <2>3. T \subseteq Id \ (S \cup {0})
    BY <1>r, <2>2
  <2>4. \A u \in T : Y.next[u] = y.next[u] /\ Y.prev[u] = y.prev[u]
    BY <2>3 DEF Relinked
  <2>5. \A s, u \in T : Left(y, s) <= Left(y, u) => Left(Y, s) <= Left(Y, u)
    BY SameLeft
  <2> HIDE DEF h, T
  <2>6. Linked(Y, h, T)
    BY <2>1, <2>4, <2>5, LinkedKept
  <2> QED
    BY <2>1, <2>6
<1>2. \A o \in Lists : Linked(Y, Y[o], E[o])
  BY <1>1
<1>3. FreeChained(Y)
  <2>1. (1..(y.size - 1)) \ y.used \subseteq Id \ (S \cup {0})
    BY <1>r
  <2>2. \A u \in (1..(y.size - 1)) \ y.used : Y.next[u] = y.next[u]
    BY <2>1 DEF Relinked
  <2>3. Y.free = y.free /\ Y.used = y.used /\ Y.size = y.size /\ FreeChained(y)
    BY DEF Relinked, Threaded
  <2> QED
    BY <2>2, <2>3, FreeKept
<1>4. \A t \in Id \ All(E) : Y.prev[t] = 0
  <2> SUFFICES ASSUME NEW t \in Id \ All(E) PROVE Y.prev[t] = 0
    OBVIOUS
  <2>1. t \notin S => t \in Id \ All(D)
    OBVIOUS
  <2>2. t \notin S /\ t # 0 => Y.prev[t] = y.prev[t] /\ y.prev[t] = 0
    BY <2>1 DEF Relinked, Threaded
  <2> QED
    BY <2>2 DEF Relinked
<1>5. \A t \in Y.used \ All(E) : Y.next[t] = 0
  <2> SUFFICES ASSUME NEW t \in Y.used \ All(E) PROVE Y.next[t] = 0
    OBVIOUS
  <2>1. t \in y.used /\ t \in Id \ {0}
    BY <1>r DEF Relinked
  <2>2. t \notin S => Y.next[t] = y.next[t] /\ y.next[t] = 0
    BY <2>1 DEF Relinked, Threaded
  <2> QED
    BY <2>2
<1>6. All(E) \subseteq y.used
  BY <1>r
<1>7. /\ Y \in Arrays /\ Y.next[0] = 0 /\ Y.prev[0] = 0 /\ Y.used = y.used /\ Y.size = y.size
  BY DEF Relinked
<1>8. /\ 1..Hardware \subseteq y.used
      /\ y.size \in {Hardware + 1, Slots} /\ y.used \subseteq 1..(y.size - 1)
  BY DEF Threaded
<1> QED
  BY <1>2, <1>3, <1>4, <1>5, <1>6, <1>7, <1>8 DEF Threaded

\* timer_unset(), wherever the timer is.
LEMMA UnsetAt ==
    ASSUME NEW y, NEW D, Threaded(y, D), NEW t \in y.used, NEW Y, Y = Unset(y, t)
    PROVE  Moved(y, Y, D, t, "off")
<1>r. /\ y \in Arrays /\ y.used \subseteq Id \ {0}
      /\ \A o \in Lists : D[o] \subseteq All(D) /\ y[o] \in D[o] \cup {0}
      /\ All(D) \subseteq Id \ {0} /\ All(D) \subseteq y.used
  BY Ranges
<1>t. t \in Id /\ t # 0 /\ 0 \in Id /\ D \in [Lists -> SUBSET Id] /\ D["cpu"] \cap D["rt"] = {}
      /\ y.next[0] = 0 /\ y.prev[0] = 0
  BY <1>r, Sizes DEF Threaded
<1> DEFINE E == Put(D, t, "off")
<1>e. /\ E \in [Lists -> SUBSET Id] /\ E["cpu"] \cap E["rt"] = {} /\ All(E) = All(D) \ {t}
      /\ t \notin All(D) => E = D
  BY <1>t, PutFacts
<1>p. \A o \in Lists : E[o] = D[o] \ {t}
  BY DEF Put, Lists
<1> HIDE DEF E
<1>1. CASE t \notin All(D)
  <2>1. y.next[t] = 0 /\ y.prev[t] = 0 /\ y.cpu # t /\ y.rt # t
    <3>1. "cpu" \in Lists /\ "rt" \in Lists
      BY DEF Lists
    <3> QED
      BY <1>r, <1>t, <1>1, <3>1 DEF Threaded
  <2>2. Y = y
    <3>1. y.next \in [Id -> Id] /\ y.prev \in [Id -> Id]
      BY <1>r DEF Arrays
    <3>2. [y.next EXCEPT ![0] = 0, ![t] = 0, ![0] = 0] = y.next
          /\ [y.prev EXCEPT ![0] = 0, ![t] = 0, ![0] = 0] = y.prev
      BY <1>t, <2>1, <3>1
    <3>3. Y = [y EXCEPT !.cpu = y.cpu, !.rt = y.rt, !.next = y.next, !.prev = y.prev]
      BY <2>1, <3>2 DEF Unset
    <3> QED
      BY <1>r, <3>3 DEF Arrays
  <2> QED
    BY <1>1, <1>e, <2>2 DEF Moved, E
<1>2. CASE t \in All(D)
  <2>1. PICK l \in Lists : t \in D[l]
    BY <1>2 DEF All, Lists
  <2> DEFINE S == D[l]
  <2>2. \A o \in Lists : o # l => y[o] # t
    BY <1>r, <1>t, <2>1 DEF Lists
  <2>3. Linked(y, y[l], S) /\ t \in S
    BY <2>1 DEF Threaded
  <2> HIDE DEF S
  <2>4. /\ Relinked(y, Y, S) /\ Linked(Y, Y[l], S \ {t})
        /\ \A o \in Lists : o # l => Y[o] = y[o]
        /\ Y.next[t] = 0 /\ Y.prev[t] = 0
    <3>1. TakenFrom(y, Y, l, S, t)
      BY <1>r, <1>t, <2>2, <2>3, UnsetIs
    <3> QED
      BY <3>1 DEF TakenFrom
  <2>5. Linked(Y, Y[l], E[l])
    BY <1>p, <2>4 DEF S
  <2>6. \A o \in Lists : o # l => Y[o] = y[o] /\ E[o] = D[o]
    BY <1>p, <1>t, <2>1, <2>4 DEF Lists
  <2>7. /\ D[l] \subseteq S /\ S \cap All(D) \subseteq D[l] /\ S \subseteq y.used
        /\ All(E) \subseteq All(D) \cup S /\ All(D) \subseteq All(E) \cup S
    BY <1>e, <1>r, <2>3 DEF S
  <2>8. \A u \in S \ All(E) : Y.next[u] = 0 /\ Y.prev[u] = 0
    BY <1>e, <1>r, <2>4 DEF S
  <2>9. Threaded(Y, E)
    BY <1>e, <2>4, <2>5, <2>6, <2>7, <2>8, MovedFrom
  <2> QED
    BY <2>4, <2>9 DEF Moved, Relinked, E
<1> QED
  BY <1>1, <1>2

\* timer_insert() of a timer that is in no list.
LEMMA InsertAt ==
    ASSUME NEW y, NEW D, Threaded(y, D), NEW t \in y.used \ All(D), NEW l \in Lists,
           NEW Y, Y = Insert(y, l, t)
    PROVE  Moved(y, Y, D, t, l)
<1>r. /\ y \in Arrays /\ y.used \subseteq Id \ {0}
      /\ \A o \in Lists : D[o] \subseteq All(D) /\ y[o] \in D[o] \cup {0}
      /\ All(D) \subseteq Id \ {0} /\ All(D) \subseteq y.used
  BY Ranges
<1>t. t \in Id \ {0} /\ D \in [Lists -> SUBSET Id] /\ D["cpu"] \cap D["rt"] = {}
      /\ y.next[0] = 0 /\ y.prev[0] = 0
  BY <1>r DEF Threaded
<1> DEFINE E == Put(D, t, l)
           S == D[l]
<1>e. /\ E \in [Lists -> SUBSET Id] /\ E["cpu"] \cap E["rt"] = {} /\ All(E) = All(D) \cup {t}
  BY <1>t, PutFacts DEF Lists
<1>p. E[l] = D[l] \cup {t} /\ \A o \in Lists : o # l => E[o] = D[o]
  BY <1>r DEF Put
<1>2. Linked(y, y[l], S) /\ t \notin S
  BY <1>r DEF Threaded
<1> HIDE DEF E, S
<1>3. /\ Relinked(y, Y, S \cup {t}) /\ Linked(Y, Y[l], S \cup {t})
      /\ \A k \in Lists : k # l => Y[k] = y[k]
  <2>1. InsertedAt(y, Y, l, S, t)
    BY <1>r, <1>t, <1>2, InsertIs
  <2> QED
    BY <2>1 DEF InsertedAt
<1> DEFINE U == S \cup {t}
<1>4. /\ D[l] \subseteq U /\ U \cap All(D) \subseteq D[l] /\ U \subseteq y.used
      /\ All(E) \subseteq All(D) \cup U /\ All(D) \subseteq All(E) \cup U /\ U \subseteq All(E)
  BY <1>e, <1>r DEF S
<1>5. /\ Relinked(y, Y, U) /\ Linked(Y, Y[l], E[l])
      /\ \A o \in Lists : o # l => Y[o] = y[o] /\ E[o] = D[o]
  BY <1>3, <1>p DEF S
<1> HIDE DEF U
<1>6. \A u \in U \ All(E) : Y.next[u] = 0 /\ Y.prev[u] = 0
  BY <1>4
<1>7. Threaded(Y, E)
  BY <1>e, <1>4, <1>5, <1>6, MovedFrom
<1> QED
  BY <1>5, <1>7 DEF Moved, Relinked, E

-----------------------------------------------------------------------------
(* The clock register.                                                     *)

\* The count of t is m clocks from now.
DueIn(y, t, m) == y.count[t] = (y.clock + m) % Wrap

LEMMA LeftIs ==
    ASSUME NEW y \in Arrays, NEW t \in Id, NEW m \in Int, -Late <= m, m < Wrap - Late
    PROVE  Left(y, t) = m <=> DueIn(y, t, m)
<1> DEFINE c == y.count[t]
           k == y.clock
           a == c + Late
           b == (Late - k)
           d == k + m
           e == d + b
           g == m + Late
<1>1. c \in Words /\ k \in Words /\ c \in Int /\ k \in Int
  <2>1. c \in Words /\ k \in Words
    BY DEF Arrays
  <2> QED
    BY <2>1, Sizes DEF Words
<1>2. g \in Words /\ g \in Int
  BY Sizes DEF Words
<1>3. Left(y, t) = ((a - k) % Wrap) - Late
  BY DEF Left, Minus
<1>4. (a - k) % Wrap \in Int
  BY <1>1, Sizes
<1>5. ASSUME DueIn(y, t, m) PROVE Left(y, t) = m
  <2>1. c = d % Wrap
    BY <1>5 DEF DueIn
  <2>2. d \in Int /\ b \in Int
    BY <1>1, Sizes
  <2>3. ((d % Wrap) + b) % Wrap = (d + b) % Wrap
    <3> HIDE DEF d, b
    <3> QED
      BY <2>2, WrapPlus
  <2>4. (d % Wrap) + b = a - k
    BY <1>1, <2>1, Sizes
  <2>5. d + b = g
    BY <1>1, Sizes
  <2>6. g % Wrap = g
    BY <1>2, Sizes DEF Words
  <2>7. (a - k) % Wrap = g
    BY <2>3, <2>4, <2>5, <2>6
  <2> QED
    BY <1>3, <2>7, Sizes
<1>6. ASSUME Left(y, t) = m PROVE DueIn(y, t, m)
  <2> DEFINE w == a - k
             v == k - Late
  <2>1. w % Wrap = g
    BY <1>3, <1>4, <1>6, Sizes
  <2>2. w \in Int /\ v \in Int
    BY <1>1, Sizes
  <2>3. ((w % Wrap) + v) % Wrap = (w + v) % Wrap
    <3> HIDE DEF w, v
    <3> QED
      BY <2>2, WrapPlus
  <2>4. (w % Wrap) + v = d /\ w + v = c
    BY <1>1, <2>1, Sizes
  <2>5. c % Wrap = c
    BY <1>1, Sizes DEF Words
  <2>6. d % Wrap = c
    BY <2>3, <2>4, <2>5
  <2> QED
    BY <2>6 DEF DueIn
<1> QED
  BY <1>5, <1>6

\* The differences check_timers(), tilem_z80_run() and tilem_z80_set_speed() look at.
LEMMA DueDifferences ==
    ASSUME NEW y \in Arrays, NEW t \in Id, NEW m \in Int, DueIn(y, t, m), -Wrap < m, m < Wrap
    PROVE  /\ Minus(y.count[t], y.clock) = IF m >= 0 THEN m ELSE m + Wrap
           /\ Minus(y.clock, y.count[t]) = IF m <= 0 THEN 0 - m ELSE Wrap - m
<1> DEFINE c == y.count[t]
           k == y.clock
           d == k + m
<1>1. c \in Words /\ k \in Words /\ c \in Int /\ k \in Int /\ d \in Int
  <2>1. c \in Words /\ k \in Words
    BY DEF Arrays
  <2> QED
    BY <2>1, Sizes DEF Words
<1>2. c = d % Wrap
  BY DEF DueIn
<1>3. PICK i \in Int : d = i * Wrap + c
  <2> HIDE DEF d
  <2> QED
    BY <1>1, <1>2, Quotient
<1> DEFINE w == i * Wrap
           j == -i
           u == c - k
           v == k - c
<1>4. w \in Int /\ k + m = w + c /\ j * Wrap = -w /\ (j - 1) * Wrap = (-w) - Wrap
      /\ (i - 1) * Wrap = w - Wrap
  BY <1>3, Sizes
<1>5. u \in Int /\ v \in Int
  BY <1>1
<1>6. u = (-w) + m /\ v = w - m
  <2> HIDE DEF w
  <2> QED
    BY <1>1, <1>4
<1>7. u % Wrap = IF m >= 0 THEN m ELSE m + Wrap
  <2>1. CASE m >= 0
    <3>1. m \in Words
      BY <2>1, Sizes DEF Words
    <3>2. u = j * Wrap + m /\ j \in Int
      BY <1>4, <1>6
    <3> HIDE DEF u, j
    <3>3. u % Wrap = m
      BY <1>5, <3>1, <3>2, RemainderIs
    <3> QED
      BY <2>1, <3>3
  <2>2. CASE ~(m >= 0)
    <3> DEFINE p == m + Wrap
               o == j - 1
    <3>1. p \in Words
      BY <2>2, Sizes DEF Words
    <3>2. u = o * Wrap + p /\ o \in Int
      <4> HIDE DEF w, u
      <4>1. o * Wrap = (-w) - Wrap
        BY <1>4
      <4> HIDE DEF o
      <4>2. u = o * Wrap + p
        BY <1>4, <1>6, <4>1, Sizes
      <4> QED
        BY <4>2 DEF o
    <3> HIDE DEF u, o, p
    <3>3. u % Wrap = p
      BY <1>5, <3>1, <3>2, RemainderIs
    <3> QED
      BY <2>2, <3>3 DEF p
  <2> QED
    BY <2>1, <2>2
<1>8. v % Wrap = IF m <= 0 THEN 0 - m ELSE Wrap - m
  <2>1. CASE m <= 0
    <3> DEFINE p == 0 - m
    <3>1. p \in Words
      BY <2>1, Sizes DEF Words
    <3>2. v = i * Wrap + p
      <4> HIDE DEF v
      <4> QED
        BY <1>4, <1>6
    <3> HIDE DEF v, p
    <3>3. v % Wrap = p
      BY <1>5, <3>1, <3>2, RemainderIs
    <3> QED
      BY <2>1, <3>3 DEF p
  <2>2. CASE ~(m <= 0)
    <3> DEFINE p == Wrap - m
               o == i - 1
    <3>1. p \in Words
      BY <2>2, Sizes DEF Words
    <3>2. v = o * Wrap + p /\ o \in Int
      <4> HIDE DEF w, v
      <4>1. o * Wrap = w - Wrap
        BY <1>4
      <4> HIDE DEF o
      <4>2. v = o * Wrap + p
        BY <1>4, <1>6, <4>1, Sizes
      <4> QED
        BY <4>2 DEF o
    <3> HIDE DEF v, o, p
    <3>3. v % Wrap = p
      BY <1>5, <3>1, <3>2, RemainderIs
    <3> QED
      BY <2>2, <3>3 DEF p
  <2> QED
    BY <2>1, <2>2
<1> QED
  BY <1>7, <1>8 DEF Minus

\* n clocks pass.
LEMMA DueLater ==
    ASSUME NEW y \in Arrays, NEW t \in Id, NEW m \in Int, NEW n \in Int, DueIn(y, t, m),
           NEW Y, Y.clock = (y.clock + n) % Wrap, Y.count[t] = y.count[t], NEW r, r = m - n
    PROVE  DueIn(Y, t, r)
<1> DEFINE k == y.clock
           d == k + n
<1>1. k \in Int /\ d \in Int /\ r \in Int
  BY Sizes DEF Arrays, Words
<1>2. ((d % Wrap) + r) % Wrap = (d + r) % Wrap
  <2> HIDE DEF d
  <2> QED
    BY <1>1, WrapPlus
<1>3. d + r = k + m
  BY <1>1
<1> QED
  BY <1>2, <1>3 DEF DueIn

-----------------------------------------------------------------------------
(* Timers are taken from the free list and given back.                     *)

\* timer_free() of a timer that is in no list.
LEMMA FreeAt ==
    ASSUME NEW y, NEW D, Threaded(y, D), NEW t \in y.used \ All(D), t > Hardware,
           NEW Y, Y = Free(y, t)
    PROVE  /\ Threaded(Y, D) /\ Y.used = y.used \ {t}
           /\ Y.clock = y.clock /\ Y.speed = y.speed /\ Y.size = y.size
           /\ Y.count = y.count /\ Y.period = y.period
<1>r. /\ y \in Arrays /\ y.used \subseteq Id \ {0} /\ (1..(y.size - 1)) \subseteq Id \ {0}
      /\ All(D) \subseteq Id \ {0} /\ All(D) \subseteq y.used
  BY Ranges
<1>t. /\ t \in Id /\ t # 0 /\ 0 \in Id /\ y.next[0] = 0 /\ y.prev[0] = 0
      /\ y.next \in [Id -> Id] /\ y.prev \in [Id -> Id]
      /\ t \in 1..(y.size - 1)
  BY <1>r, Sizes DEF Threaded, Arrays
<1> DEFINE fr == y.free
           nx == [y.next EXCEPT ![t] = fr]
           pv == [y.prev EXCEPT ![t] = 0]
           us == y.used \ {t}
<1>1. Y = [y EXCEPT !.used = us, !.next = nx, !.prev = pv, !.free = t]
  BY DEF Free
<1>2. fr \in Id /\ nx \in [Id -> Id] /\ pv \in [Id -> Id] /\ us \in SUBSET Id
  BY <1>r, <1>t DEF Arrays
<1>3. /\ nx[t] = fr /\ pv[t] = 0 /\ \A u \in Id \ {t} : nx[u] = y.next[u] /\ pv[u] = y.prev[u]
  BY <1>t
<1> HIDE DEF nx, pv, us, fr
<1>4. /\ Y \in Arrays /\ Y.used = us /\ Y.next = nx /\ Y.prev = pv /\ Y.free = t
      /\ Y.clock = y.clock /\ Y.speed = y.speed /\ Y.size = y.size
      /\ Y.count = y.count /\ Y.period = y.period /\ Y.cpu = y.cpu /\ Y.rt = y.rt
  BY <1>r, <1>t, <1>1, <1>2 DEF Arrays
<1>5. ASSUME NEW l \in Lists PROVE Linked(Y, Y[l], D[l])
  <2> DEFINE h == y[l]
             S == D[l]
  <2>1. Linked(y, h, S) /\ Y[l] = h
    BY <1>4 DEF Threaded, Lists
  <2>2. \A s, u \in S : Left(y, s) <= Left(y, u) => Left(Y, s) <= Left(Y, u)
    BY <1>4 DEF Left, Minus
  <2>3. S \subseteq Id \ {t}
    BY <1>r DEF All, Lists
  <2>4. \A u \in S : Y.next[u] = y.next[u] /\ Y.prev[u] = y.prev[u]
    BY <1>3, <1>4, <2>3
  <2> HIDE DEF h, S
  <2>5. Linked(Y, h, S)
    BY <2>1, <2>2, <2>4, LinkedKept
  <2> QED
    BY <2>1, <2>5 DEF S
<1>6. FreeChained(Y)
  <2>1. PICK n, f : /\ Path(y.next, y.free, f, n)
                    /\ Members(f, n) = (1..(y.size - 1)) \ y.used
    BY DEF Threaded, FreeChained
  <2> DEFINE o == 0
             g == Joined(f, n, o, t)
  <2>2. /\ n \in Nat /\ f \in [0..(n + 1) -> Id] /\ f[0] = 0 /\ f[n + 1] = 0 /\ fr = f[1]
        /\ \A i \in 1..n : f[i] # 0
        /\ \A i \in 1..n : y.next[f[i]] = f[i + 1]
        /\ \A i, j \in 1..n : f[i] = f[j] => i = j
    BY <2>1 DEF Path, fr
  <2>3. t \notin Members(f, n)
    BY <2>1
  <2>4. o \in 0..n
    BY <2>2
  <2>5. JoinedSound(Joined(f, n, o, t), f, n, o, t)
    <3> HIDE DEF o
    <3> QED
      BY <1>t, <2>2, <2>3, <2>4, JoinedTyped
  <2> HIDE DEF g
  <2>6. /\ g \in [0..((n + 1) + 1) -> Id]
        /\ g[0] = 0 /\ g[1] = t
        /\ \A i \in 1..(n + 1) : g[i + 1] = f[i]
        /\ \A i \in 1..(n + 1) : g[i] # 0
        /\ \A i, j \in 1..(n + 1) : g[i] = g[j] => i = j
        /\ Members(g, n + 1) = Members(f, n) \cup {t}
    <3>1. 0 \in 0..o /\ o + 1 = 1
      OBVIOUS
    <3> QED
      BY <2>2, <2>5, <3>1 DEF JoinedSound, g
  <2>7. \A i \in 1..n : f[i] # t
    BY <2>3 DEF Members
  <2>8. \A i \in 1..(n + 1) : nx[g[i]] = g[i + 1]
    <3> SUFFICES ASSUME NEW i \in 1..(n + 1) PROVE nx[g[i]] = g[i + 1]
      OBVIOUS
    <3>1. CASE i = 1
      <4>1. g[i] = t /\ g[i + 1] = f[1]
        BY <2>2, <2>6, <3>1
      <4> QED
        BY <1>3, <2>2, <4>1
    <3>2. CASE i # 1
      <4> DEFINE j == i - 1
      <4>1. j \in 1..n /\ j \in 1..(n + 1) /\ j + 1 = i /\ i \in 0..(n + 1)
        BY <2>2, <3>2
      <4>2. g[i] = f[j] /\ g[i + 1] = f[i] /\ y.next[f[j]] = f[i] /\ f[j] # t
        <5> HIDE DEF j
        <5> QED
          BY <2>2, <2>6, <2>7, <4>1
      <4>3. f[j] \in Id
        BY <2>2, <4>1
      <4> QED
        BY <1>3, <4>2, <4>3
    <3> QED
      BY <3>1, <3>2
  <2>9. g[(n + 1) + 1] = 0
    <3>1. n + 1 \in 1..(n + 1)
      BY <2>2
    <3> QED
      BY <2>2, <2>6, <3>1
  <2>10. n + 1 \in Nat
    BY <2>2
  <2>11. Path(nx, t, g, n + 1)
    BY <2>6, <2>8, <2>9, <2>10 DEF Path
  <2>12. Members(g, n + 1) = (1..(y.size - 1)) \ us
    BY <1>t, <2>1, <2>6 DEF us
  <2> QED
    BY <1>4, <2>11, <2>12 DEF FreeChained
<1>7. \A u \in Id \ All(D) : Y.prev[u] = 0
  BY <1>3, <1>4 DEF Threaded
<1>8. \A u \in Y.used \ All(D) : Y.next[u] = 0
  <2>1. us \subseteq Id \ {t} /\ us \subseteq y.used
    BY <1>r DEF us
  <2> QED
    BY <1>3, <1>4, <2>1 DEF Threaded
<1>9. All(D) \subseteq us /\ 1..Hardware \subseteq us /\ us \subseteq 1..(y.size - 1)
  BY Sizes DEF us, Threaded
<1>10. Y.next[0] = 0 /\ Y.prev[0] = 0
  BY <1>t, <1>3, <1>4
<1>11. /\ D \in [Lists -> SUBSET Id] /\ D["cpu"] \cap D["rt"] = {}
       /\ y.size \in {Hardware + 1, Slots}
  BY DEF Threaded
<1>12. Threaded(Y, D)
  BY <1>4, <1>5, <1>6, <1>7, <1>8, <1>9, <1>10, <1>11 DEF Threaded
<1> QED
  BY <1>4, <1>12 DEF us

Allocated(y, Y, D, t) ==
    /\ Threaded(Y, D) /\ Y.used = y.used \cup {t}
    /\ t \in Id \ {0} /\ t \notin y.used /\ t > Hardware
    /\ Y.clock = y.clock /\ Y.speed = y.speed /\ Y.count = y.count /\ Y.period = y.period

\* timer_alloc() when a timer is free.
LEMMA AllocFree ==
    ASSUME NEW y, NEW D, Threaded(y, D), y.free # 0, NEW t, t = Alloc(y).t,
           NEW Y, Y = [Alloc(y).y EXCEPT !.used = @ \cup {t}]
    PROVE  Allocated(y, Y, D, t)
<1>r. /\ y \in Arrays /\ y.used \subseteq Id \ {0} /\ (1..(y.size - 1)) \subseteq Id \ {0}
      /\ All(D) \subseteq Id \ {0} /\ All(D) \subseteq y.used
  BY Ranges
<1>1. PICK n, f : Path(y.next, y.free, f, n) /\ Members(f, n) = (1..(y.size - 1)) \ y.used
  BY DEF Threaded, FreeChained
<1>2. /\ n \in Nat /\ f \in [0..(n + 1) -> Id] /\ f[0] = 0 /\ f[n + 1] = 0 /\ y.free = f[1]
      /\ \A i \in 1..n : f[i] # 0
      /\ \A i \in 1..n : y.next[f[i]] = f[i + 1]
      /\ \A i, j \in 1..n : f[i] = f[j] => i = j
  BY <1>1 DEF Path
<1>3. n # 0 /\ 1 \in 1..n
  BY <1>2
<1>t. /\ t = y.free /\ t = f[1] /\ t \in (1..(y.size - 1)) \ y.used /\ t \in Id \ {0}
  BY <1>1, <1>2, <1>3, <1>r DEF Alloc, Members
<1> DEFINE m == f[2]
           us == y.used \cup {t}
           nx == [y.next EXCEPT ![t] = 0]
           o == 1
           g == Without(f, n, o)
<1>4. m \in Id /\ y.next[t] = m
  <2>1. 2 \in 0..(n + 1) /\ 1 + 1 = 2
    BY <1>2, <1>3
  <2> QED
    BY <1>2, <1>3, <1>t, <2>1
<1>5. Y = [y EXCEPT !.free = m, !.next = nx, !.used = us]
  <2>1. Alloc(y).y = [y EXCEPT !.free = m, !.next = nx]
    BY <1>t, <1>4 DEF Alloc
  <2> QED
    BY <1>r, <2>1 DEF Arrays
<1>6. nx \in [Id -> Id] /\ us \in SUBSET Id /\ nx[t] = 0
      /\ \A u \in Id \ {t} : nx[u] = y.next[u]
  BY <1>r, <1>t, Sizes DEF Arrays
<1>g. WithoutSound(Without(f, n, o), f, n, o)
  <2>1. o \in 1..n
    BY <1>3
  <2> HIDE DEF o
  <2> QED
    BY <1>2, <2>1, WithoutTyped
<1>7. /\ g \in [0..((n - 1) + 1) -> Id] /\ g[0] = 0
      /\ \A i \in 1..n : g[i] = f[i + 1]
      /\ \A i \in 1..(n - 1) : g[i] # 0
      /\ \A i, j \in 1..(n - 1) : g[i] = g[j] => i = j
      /\ Members(g, n - 1) = Members(f, n) \ {t}
  <2>1. 0 \in 0..(o - 1)
    OBVIOUS
  <2> HIDE DEF g
  <2> QED
    BY <1>2, <1>g, <1>t, <2>1 DEF WithoutSound, g
<1> HIDE DEF g, nx, us, m
<1>8. /\ Y \in Arrays /\ Y.used = us /\ Y.next = nx /\ Y.prev = y.prev /\ Y.free = m
      /\ Y.clock = y.clock /\ Y.speed = y.speed /\ Y.size = y.size
      /\ Y.count = y.count /\ Y.period = y.period /\ Y.cpu = y.cpu /\ Y.rt = y.rt
  BY <1>r, <1>4, <1>5, <1>6 DEF Arrays
<1>9. ASSUME NEW l \in Lists PROVE Linked(Y, Y[l], D[l])
  <2> DEFINE h == y[l]
             S == D[l]
  <2>1. Linked(y, h, S) /\ Y[l] = h
    BY <1>8 DEF Threaded, Lists
  <2>2. \A s, u \in S : Left(y, s) <= Left(y, u) => Left(Y, s) <= Left(Y, u)
    BY <1>8 DEF Left, Minus
  <2>3. S \subseteq Id \ {t}
    BY <1>r, <1>t DEF All, Lists
  <2>4. \A u \in S : Y.next[u] = y.next[u] /\ Y.prev[u] = y.prev[u]
    BY <1>6, <1>8, <2>3
  <2> HIDE DEF h, S
  <2>5. Linked(Y, h, S)
    BY <2>1, <2>2, <2>4, LinkedKept
  <2> QED
    BY <2>1, <2>5 DEF S
<1>10. FreeChained(Y)
  <2>1. n - 1 \in Nat /\ (n - 1) + 1 = n /\ n \in 1..n
    BY <1>2, <1>3
  <2>2. g[n] = 0
    BY <1>2, <1>7, <2>1
  <2>3. m = g[1]
    BY <1>3, <1>7 DEF m
  <2>4. \A i \in 1..(n - 1) : nx[g[i]] = g[i + 1]
    <3> SUFFICES ASSUME NEW i \in 1..(n - 1) PROVE nx[g[i]] = g[i + 1]
      OBVIOUS
    <3> DEFINE j == i + 1
    <3>1. i \in 1..n /\ j \in 1..n /\ j # 1
      BY <1>2
    <3>2. g[i] = f[j] /\ g[j] = f[j + 1] /\ y.next[f[j]] = f[j + 1] /\ f[j] # f[1] /\ f[j] \in Id
      <4>1. g[i] = f[j]
        BY <1>7, <3>1
      <4>2. j \in 0..(n + 1)
        BY <1>2
      <4> HIDE DEF j
      <4> QED
        BY <1>2, <1>3, <1>7, <3>1, <4>1, <4>2
    <3> QED
      BY <1>6, <1>t, <3>2
  <2>5. Path(nx, m, g, n - 1)
    BY <1>7, <2>1, <2>2, <2>3, <2>4 DEF Path
  <2>6. Members(g, n - 1) = (1..(y.size - 1)) \ us
    BY <1>1, <1>7 DEF us
  <2> QED
    BY <1>8, <2>5, <2>6 DEF FreeChained
<1>11. \A u \in Id \ All(D) : Y.prev[u] = 0
  BY <1>8 DEF Threaded
<1>12. \A u \in Y.used \ All(D) : Y.next[u] = 0
  <2> SUFFICES ASSUME NEW u \in us \ All(D) PROVE nx[u] = 0
    BY <1>8
  <2>1. CASE u = t
    BY <1>6, <2>1
  <2>2. CASE u # t
    <3>1. u \in y.used \ All(D) /\ u \in Id \ {t}
      BY <1>r, <2>2 DEF us
    <3>2. y.next[u] = 0
      BY <3>1 DEF Threaded
    <3> QED
      BY <1>6, <3>1, <3>2
  <2> QED
    BY <2>1, <2>2
<1>13. /\ All(D) \subseteq us /\ 1..Hardware \subseteq us /\ us \subseteq 1..(y.size - 1)
       /\ t \notin 1..Hardware
  BY <1>r, <1>t DEF us, Threaded
<1>14. Y.next[0] = 0 /\ Y.prev[0] = 0
  BY <1>t, <1>6, <1>8, Sizes DEF Threaded
<1>15. /\ D \in [Lists -> SUBSET Id] /\ D["cpu"] \cap D["rt"] = {}
       /\ y.size \in {Hardware + 1, Slots}
  BY DEF Threaded
<1>16. Threaded(Y, D)
  BY <1>8, <1>9, <1>10, <1>11, <1>12, <1>13, <1>14, <1>15 DEF Threaded
<1>17. t > Hardware
  BY <1>13, <1>t, Sizes
<1> QED
  BY <1>8, <1>16, <1>17, <1>t DEF us, Allocated

DoubledSound(nx, nx2, b, fr) ==
    /\ nx2 \in [Id -> Id] /\ nx2[b] = 0
    /\ \A u \in 0..Hardware : u \in Id /\ nx2[u] = nx[u]
    /\ \E n, f : Path(nx2, fr, f, n) /\ Members(f, n) = (Hardware + 1)..fr

\* The new entries are chained from the last but one down.
LEMMA Doubled ==
    ASSUME NEW nx \in [Id -> Id], NEW a, a = Hardware + 1, NEW b, b = 2 * a,
           NEW fr, fr = b - 1, NEW nx2,
           nx2 = [i \in Id |-> IF i = a \/ i = b THEN 0 ELSE IF i > a THEN i - 1 ELSE nx[i]]
    PROVE  DoubledSound(nx, nx2, b, fr)
<1>1. /\ a \in Nat /\ b \in Nat /\ fr \in Nat /\ Hardware \in Nat /\ a > 1 /\ b = a + a
      /\ Slots - 1 = b
  BY Sizes
<1>2. Id = 0..b
  BY <1>1, Sizes
<1>3. nx2 \in [Id -> Id]
  <2> SUFFICES ASSUME NEW i \in Id
               PROVE (IF i = a \/ i = b THEN 0 ELSE IF i > a THEN i - 1 ELSE nx[i]) \in Id
    OBVIOUS
  <2>1. nx[i] \in Id
    OBVIOUS
  <2>2. i > a => i - 1 \in Id
    BY <1>1, <1>2
  <2> QED
    BY <2>1, <2>2, Sizes
<1>4. nx2[b] = 0 /\ nx2[a] = 0 /\ \A u \in 0..Hardware : u \in Id /\ nx2[u] = nx[u]
  <2>1. a \in Id /\ b \in Id
    BY <1>1, <1>2
  <2>2. \A u \in 0..Hardware : u \in Id /\ u # a /\ u # b /\ ~(u > a)
    BY <1>1, <1>2
  <2> QED
    BY <2>1, <2>2
<1>5. \A u \in (a + 1)..fr : u \in Id /\ nx2[u] = u - 1
  <2>1. \A u \in (a + 1)..fr : u \in Id /\ u # a /\ u # b /\ u > a
    BY <1>1, <1>2
  <2> QED
    BY <2>1
<1> DEFINE g == [i \in 0..(a + 1) |-> IF i = 0 \/ i = a + 1 THEN 0 ELSE b - i]
<1>6. /\ g \in [0..(a + 1) -> Id] /\ g[0] = 0 /\ g[a + 1] = 0 /\ fr = g[1]
      /\ \A i \in 1..a : g[i] = b - i /\ g[i] # 0
  <2>1. \A i \in 0..(a + 1) : (IF i = 0 \/ i = a + 1 THEN 0 ELSE b - i) \in Id
    BY <1>1, <1>2
  <2>2. /\ 0 \in 0..(a + 1) /\ a + 1 \in 0..(a + 1) /\ 1 \in 0..(a + 1) /\ 1 # a + 1 /\ 1 # 0
        /\ \A i \in 1..a : i \in 0..(a + 1) /\ i # 0 /\ i # a + 1 /\ b - i # 0
    BY <1>1
  <2>3. g \in [0..(a + 1) -> Id]
    BY <2>1
  <2>4. g[0] = 0 /\ g[a + 1] = 0 /\ g[1] = b - 1 /\ \A i \in 1..a : g[i] = b - i
    BY <2>2
  <2> HIDE DEF g
  <2> QED
    BY <1>1, <2>2, <2>3, <2>4
<1> HIDE DEF g
<1>7. Path(nx2, fr, g, a)
  <2>1. \A i, j \in 1..a : g[i] = g[j] => i = j
    BY <1>1, <1>6
  <2>2. \A i \in 1..a : nx2[g[i]] = g[i + 1]
    <3> SUFFICES ASSUME NEW i \in 1..a PROVE nx2[g[i]] = g[i + 1]
      OBVIOUS
    <3>1. CASE i = a
      <4>1. g[i] = a /\ g[i + 1] = 0
        BY <1>1, <1>6, <3>1
      <4> QED
        BY <1>4, <4>1
    <3>2. CASE i # a
      <4>1. i + 1 \in 1..a
        BY <1>1, <3>2
      <4>2. g[i] = b - i /\ g[i + 1] = b - (i + 1)
        BY <1>6, <4>1
      <4>3. b - i \in (a + 1)..fr /\ (b - i) - 1 = b - (i + 1)
        BY <1>1, <3>2
      <4> QED
        BY <1>5, <4>2, <4>3
    <3> QED
      BY <3>1, <3>2
  <2> QED
    BY <1>1, <1>6, <2>1, <2>2 DEF Path
<1>8. Members(g, a) = a..fr
  <2>1. ASSUME NEW u \in Members(g, a) PROVE u \in a..fr
    <3>1. PICK i \in 1..a : u = g[i]
      BY <2>1 DEF Members
    <3>2. b - i \in a..fr
      BY <1>1
    <3> QED
      BY <1>6, <3>1, <3>2
  <2>2. ASSUME NEW u \in a..fr PROVE u \in Members(g, a)
    <3> DEFINE i == b - u
    <3>1. i \in 1..a /\ b - i = u
      BY <1>1
    <3> HIDE DEF i
    <3>2. g[i] = u
      BY <1>6, <3>1
    <3> QED
      BY <3>1, <3>2 DEF Members
  <2> QED
    BY <2>1, <2>2
<1> QED
  BY <1>3, <1>4, <1>7, <1>8 DEF DoubledSound

\* timer_alloc() when it doubles the array, and takes the last entry.
LEMMA AllocGrow ==
    ASSUME NEW y, NEW D, Threaded(y, D), y.free = 0, y.size = Hardware + 1,
           NEW t, t = Alloc(y).t, NEW Y, Y = [Alloc(y).y EXCEPT !.used = @ \cup {t}]
    PROVE  Allocated(y, Y, D, t)
<1>r. /\ y \in Arrays /\ y.used \subseteq Id \ {0} /\ (1..(y.size - 1)) \subseteq Id \ {0}
      /\ All(D) \subseteq Id \ {0} /\ All(D) \subseteq y.used
  BY Ranges
<1>1. PICK n, f : Path(y.next, y.free, f, n) /\ Members(f, n) = (1..(y.size - 1)) \ y.used
  BY DEF Threaded, FreeChained
<1>2. Members(f, n) = {} /\ y.used = 1..Hardware
  <2>1. n = 0
    BY <1>1, PathTyped
  <2>2. (1..(y.size - 1)) = 1..Hardware
    BY Sizes
  <2> QED
    BY <1>1, <2>1, <2>2 DEF Members, Threaded
<1> DEFINE nx == y.next
           a == y.size
           b == 2 * a
           us == y.used \cup {t}
           nx2 == [i \in Id |-> IF i = a \/ i = b THEN 0 ELSE IF i > a THEN i - 1 ELSE nx[i]]
           fr == b - 1
           sz == b + 1
<1>4. t = b /\ Alloc(y).y = [y EXCEPT !.size = sz, !.free = fr, !.next = nx2]
  BY DEF Alloc
<1>5. DoubledSound(nx, nx2, b, fr)
  <2>1. nx \in [Id -> Id] /\ a = Hardware + 1
    BY <1>r DEF Arrays
  <2> HIDE DEF nx, nx2, b, fr, a
  <2>2. /\ b = 2 * a /\ fr = b - 1
        /\ nx2 = [i \in Id |-> IF i = a \/ i = b THEN 0 ELSE IF i > a THEN i - 1 ELSE nx[i]]
    BY DEF nx2, b, fr
  <2> QED
    BY <2>1, <2>2, Doubled
<1>6. /\ nx2 \in [Id -> Id] /\ nx2[b] = 0
      /\ \A u \in 0..Hardware : u \in Id /\ nx2[u] = y.next[u]
  <2> HIDE DEF nx2, b
  <2> QED
    BY <1>5 DEF DoubledSound, nx
<1>13. Y = [y EXCEPT !.size = sz, !.free = fr, !.next = nx2, !.used = us]
  <2> HIDE DEF sz, fr, nx2
  <2> QED
    BY <1>r, <1>4 DEF Arrays
<1> HIDE DEF nx2, us, nx
<1>7. /\ b \in Nat /\ b > Hardware /\ fr \in Nat /\ sz \in Nat /\ sz = Slots /\ sz - 1 = b
      /\ b = 2 * (Hardware + 1) /\ fr = b - 1
  BY Sizes
<1> HIDE DEF a, b, fr, sz
<1>8. Id = 0..b
  <2>1. Slots - 1 = b
    BY <1>7
  <2> QED
    BY <2>1, Sizes
<1>9. b \in Id /\ fr \in Id /\ b # 0 /\ b \notin 1..Hardware /\ 1..Hardware \subseteq 1..b
      /\ 1..Hardware \subseteq 0..Hardware /\ 0 \in 0..Hardware /\ 1..Hardware \subseteq Id
      /\ b \in 1..b
  <2>1. Hardware \in Nat /\ b \in Nat /\ fr \in Nat /\ b > Hardware /\ fr = b - 1
    BY <1>7, Sizes
  <2>2. b \in 0..b /\ fr \in 0..b /\ b # 0 /\ b \in 1..b
    BY <2>1
  <2>3. b \notin 1..Hardware /\ 0 \in 0..Hardware
    BY <2>1
  <2>4. 1..Hardware \subseteq 1..b /\ 1..Hardware \subseteq 0..Hardware
    BY <2>1
  <2>5. 1..Hardware \subseteq 0..b
    BY <2>1
  <2> QED
    BY <1>8, <2>2, <2>3, <2>4, <2>5
<1>10. us = (1..Hardware) \cup {b} /\ us \subseteq 1..(sz - 1) /\ us \in SUBSET Id
  BY <1>2, <1>4, <1>7, <1>9 DEF us
<1>11. (1..(sz - 1)) \ us = (Hardware + 1)..fr
  <2>1. (1..b) \ ((1..Hardware) \cup {b}) = (Hardware + 1)..fr
    BY <1>7, Sizes
  <2> QED
    BY <1>7, <1>10, <2>1
<1>16. /\ Y \in Arrays /\ Y.used = us /\ Y.next = nx2 /\ Y.prev = y.prev /\ Y.free = fr
       /\ Y.size = sz /\ Y.clock = y.clock /\ Y.speed = y.speed
       /\ Y.count = y.count /\ Y.period = y.period /\ Y.cpu = y.cpu /\ Y.rt = y.rt
  BY <1>r, <1>7, <1>6, <1>9, <1>10, <1>13 DEF Arrays
<1>17. ASSUME NEW l \in Lists PROVE Linked(Y, Y[l], D[l])
  <2> DEFINE h == y[l]
             S == D[l]
  <2>1. Linked(y, h, S) /\ Y[l] = h
    BY <1>16 DEF Threaded, Lists
  <2>2. \A s, u \in S : Left(y, s) <= Left(y, u) => Left(Y, s) <= Left(Y, u)
    BY <1>16 DEF Left, Minus
  <2>3. S \subseteq 0..Hardware
    BY <1>r, <1>2, <1>9 DEF All, Lists
  <2>4. \A u \in S : Y.next[u] = y.next[u] /\ Y.prev[u] = y.prev[u]
    BY <1>6, <1>16, <2>3
  <2> HIDE DEF h, S
  <2>5. Linked(Y, h, S)
    BY <2>1, <2>2, <2>4, LinkedKept
  <2> QED
    BY <2>1, <2>5 DEF S
<1>18. FreeChained(Y)
  <2>1. PICK k, g : Path(nx2, fr, g, k) /\ Members(g, k) = (Hardware + 1)..fr
    BY <1>5 DEF DoubledSound
  <2> QED
    BY <1>11, <1>16, <2>1 DEF FreeChained
<1>19. \A u \in Id \ All(D) : Y.prev[u] = 0
  BY <1>16 DEF Threaded
<1>20. \A u \in Y.used \ All(D) : Y.next[u] = 0
  <2>1. \A u \in (1..Hardware) \ All(D) : y.next[u] = 0
    BY <1>2 DEF Threaded
  <2> QED
    BY <1>6, <1>9, <1>10, <1>16, <2>1
<1>21. Y.next[0] = 0 /\ Y.prev[0] = 0
  BY <1>6, <1>9, <1>16 DEF Threaded
<1>22. /\ D \in [Lists -> SUBSET Id] /\ D["cpu"] \cap D["rt"] = {} /\ All(D) \subseteq us
       /\ 1..Hardware \subseteq us
  BY <1>r, <1>10 DEF Threaded, us
<1>23. Threaded(Y, D)
  BY <1>7, <1>10, <1>16, <1>17, <1>18, <1>19, <1>20, <1>21, <1>22 DEF Threaded
<1>24. t \in Id \ {0} /\ t \notin y.used /\ t > Hardware
  BY <1>2, <1>4, <1>7, <1>9
<1> QED
  BY <1>16, <1>23, <1>24 DEF us, Allocated

\* timer_alloc(), while the timers are no more than the array may hold.
LEMMA AllocAt ==
    ASSUME NEW y, NEW D, Threaded(y, D), Cardinality(y.used) < Hardware + Dynamic,
           NEW t, t = Alloc(y).t, NEW Y, Y = [Alloc(y).y EXCEPT !.used = @ \cup {t}]
    PROVE  Allocated(y, Y, D, t)
<1>1. CASE y.free # 0
  BY <1>1, AllocFree
<1>2. CASE y.free = 0
  <2>1. PICK n, f : Path(y.next, y.free, f, n) /\ Members(f, n) = (1..(y.size - 1)) \ y.used
    BY DEF Threaded, FreeChained
  <2>2. n = 0
    BY <1>2, <2>1, PathTyped
  <2>m. Members(f, n) = {}
    BY <2>2 DEF Members
  <2> DEFINE all == 1..(y.size - 1)
  <2>a. all \ y.used = {} /\ y.used \subseteq all
    BY <2>1, <2>m DEF Threaded
  <2>3. y.used = all
    <3> HIDE DEF all
    <3> QED
      BY <2>a
  <2>4. y.size \in {Hardware + 1, Slots}
    BY DEF Threaded
  <2>5. y.size # Slots
    <3> SUFFICES ASSUME y.size = Slots PROVE FALSE
      OBVIOUS
    <3> DEFINE m == Slots - 1
    <3>1. 1..m = y.used
      BY <2>3 DEF all
    <3>2. m \in Nat /\ m >= Hardware + Dynamic
      BY Sizes
    <3> HIDE DEF m
    <3>3. 1 \in Int /\ m \in Int /\ Cardinality(1..m) = m
      BY <3>2, FS_Interval
    <3> QED
      BY <3>1, <3>2, <3>3, Sizes
  <2> QED
    BY <1>2, <2>4, <2>5, AllocGrow
<1> QED
  BY <1>1, <1>2

-----------------------------------------------------------------------------
(* Timers are set.                                                         *)

\* Clocks of a count of list l.
Clks(y, l, c) == IF l = "rt" THEN (y.speed * c + Kilo \div 2) \div Kilo ELSE c

\* Y is y with t in list l, or in none, n clocks from now and with period p.
Placed(y, Y, D, t, l, n, p) ==
    /\ Threaded(Y, Put(D, t, l))
    /\ Y.clock = y.clock /\ Y.speed = y.speed
    /\ \A u \in Id \ {t} : /\ Y.count[u] = y.count[u] /\ Y.period[u] = y.period[u]
                           /\ Left(Y, u) = Left(y, u)
    /\ l # "off" => Left(Y, t) = n /\ Y.period[t] = p

\* timer_set() of a timer that is in no list.
LEMMA SetAt ==
    ASSUME NEW y, NEW D, Threaded(y, D), NEW t \in y.used \ All(D), NEW l \in Lists,
           NEW c \in Nat, NEW p \in Nat, NEW extra \in Int, NEW n \in Int,
           n = Clks(y, l, c) - extra, Clks(y, l, c) \in Int,
           c # 0 => -Late <= n /\ n < Wrap - Late,
           NEW Y, Y = SetTimer(y, t, c, p, l, extra), NEW to, to = IF c = 0 THEN "off" ELSE l
    PROVE  Placed(y, Y, D, t, to, n, p)
<1>r. /\ y \in Arrays /\ y.used \subseteq Id \ {0} /\ t \in Id \ {0} /\ 0 \in Id
      /\ y.next[t] = 0 /\ y.prev[t] = 0 /\ y.next \in [Id -> Id] /\ y.prev \in [Id -> Id]
      /\ D \in [Lists -> SUBSET Id] /\ D["cpu"] \cap D["rt"] = {}
  <2>1. y \in Arrays /\ y.used \subseteq Id \ {0}
    BY Ranges
  <2> QED
    BY <2>1, Sizes DEF Threaded, Arrays
<1>1. CASE c = 0
  <2> DEFINE pv == [y.prev EXCEPT ![t] = 0]
             nx == [y.next EXCEPT ![t] = 0]
  <2>1. Y = [y EXCEPT !.prev = pv, !.next = nx]
    BY <1>1 DEF SetTimer
  <2>2. pv = y.prev /\ nx = y.next
    BY <1>r
  <2> HIDE DEF pv, nx
  <2>3. Y = y
    BY <1>r, <2>1, <2>2 DEF Arrays
  <2>4. to = "off" /\ Put(D, t, "off") = D
    BY <1>1, <1>r, PutFacts
  <2> QED
    BY <2>3, <2>4 DEF Placed
<1>2. CASE c # 0
  <2> DEFINE ct == [y.count EXCEPT ![t] = (y.clock + Clks(y, l, c) - extra) % Wrap]
             pe == [y.period EXCEPT ![t] = p]
             y1 == [y EXCEPT !.count = ct, !.period = pe]
  <2>1. Y = Insert(y1, l, t)
    <3>1. y1 = [y EXCEPT !.count[t] = (y.clock + Clks(y, l, c) - extra) % Wrap,
                         !.period[t] = p]
      OBVIOUS
    <3> QED
      BY <1>2, <3>1 DEF SetTimer, Clks
  <2> DEFINE k == y.clock
             d == Clks(y, l, c)
  <2>2. k \in Int /\ d \in Int /\ k + d - extra = k + n /\ k + n \in Int
    BY <1>r DEF Arrays, Words
  <2>3. (k + d - extra) % Wrap \in Words /\ (k + d - extra) % Wrap = (k + n) % Wrap
    <3> HIDE DEF k, d
    <3>1. (k + n) % Wrap \in Words
      BY <2>2, Sizes DEF Words
    <3> QED
      BY <2>2, <3>1
  <2>4. /\ ct \in [Id -> Words] /\ pe \in [Id -> Nat] /\ ct[t] = (y.clock + n) % Wrap
        /\ pe[t] = p
        /\ \A u \in Id \ {t} : ct[u] = y.count[u] /\ pe[u] = y.period[u]
    BY <1>r, <2>3 DEF Arrays
  <2> HIDE DEF ct, pe
  <2>5. /\ y1 \in Arrays /\ y1.clock = y.clock /\ y1.speed = y.speed /\ y1.used = y.used
        /\ y1.count = ct /\ y1.period = pe /\ SameLinks(y, y1)
    BY <1>r, <2>4 DEF Arrays, SameLinks
  <2> HIDE DEF y1, k, d
  <2>6. \A u \in Id \ {t} : Left(y1, u) = Left(y, u)
    BY <2>4, <2>5 DEF Left
  <2>7. Left(y1, t) = n
    <3>1. DueIn(y1, t, n)
      BY <2>4, <2>5 DEF DueIn
    <3>2. -Late <= n /\ n < Wrap - Late /\ t \in Id
      BY <1>2, <1>r
    <3> QED
      BY <2>5, <3>1, <3>2, LeftIs
  <2>8. Threaded(y1, D)
    <3>1. \A o \in Lists : \A s, u \in D[o] :
             Left(y, s) <= Left(y, u) => Left(y1, s) <= Left(y1, u)
      <4>1. \A o \in Lists : D[o] \subseteq Id \ {t}
        BY <1>r DEF All, Lists
      <4> QED
        BY <2>6, <4>1
    <3> QED
      BY <2>5, <3>1, ThreadedKept
  <2>9. Moved(y1, Y, D, t, l)
    BY <2>1, <2>5, <2>8, InsertAt
  <2>10. \A u : Left(Y, u) = Left(y1, u)
    BY <2>9 DEF Moved, Left
  <2>11. to = l
    BY <1>2
  <2> QED
    BY <1>r, <2>4, <2>5, <2>6, <2>7, <2>9, <2>10, <2>11 DEF Moved, Placed
<1> QED
  BY <1>1, <1>2

\* timer_unset() followed by timer_set().
LEMMA SetAgain ==
    ASSUME NEW y, NEW D, Threaded(y, D), NEW t \in y.used, NEW l \in Lists,
           NEW c \in Nat, NEW p \in Nat, NEW extra \in Int, NEW n \in Int,
           n = Clks(y, l, c) - extra, Clks(y, l, c) \in Int,
           c # 0 => -Late <= n /\ n < Wrap - Late,
           NEW Y, Y = SetTimer(Unset(y, t), t, c, p, l, extra),
           NEW to, to = IF c = 0 THEN "off" ELSE l
    PROVE  Placed(y, Y, D, t, to, n, p)
<1> DEFINE y1 == Unset(y, t)
           E == Put(D, t, "off")
<1>1. Moved(y, y1, D, t, "off")
  BY UnsetAt
<1>r. y.used \subseteq Id \ {0} /\ D \in [Lists -> SUBSET Id] /\ D["cpu"] \cap D["rt"] = {}
  BY Ranges DEF Threaded
<1> HIDE DEF y1
<1>2. /\ Threaded(y1, E) /\ y1.used = y.used /\ y1.clock = y.clock /\ y1.speed = y.speed
      /\ y1.count = y.count /\ y1.period = y.period
  BY <1>1 DEF Moved
<1>3. t \notin All(E) /\ Put(E, t, to) = Put(D, t, to)
  <2>1. t \in Id /\ to \in Lists \cup {"off"}
    BY <1>r
  <2> QED
    BY <1>r, <2>1, PutFacts DEF Lists
<1> HIDE DEF E
<1>4. Clks(y1, l, c) = Clks(y, l, c)
  BY <1>2 DEF Clks
<1>5. Y = SetTimer(y1, t, c, p, l, extra)
  BY DEF y1
<1>6. Placed(y1, Y, E, t, to, n, p)
  <2>1. t \in y1.used \ All(E)
    BY <1>2, <1>3
  <2> QED
    BY <1>2, <1>4, <1>5, <2>1, SetAt
<1>7. \A u : Left(y1, u) = Left(y, u)
  BY <1>2 DEF Left
<1> QED
  BY <1>2, <1>3, <1>6, <1>7 DEF Placed

-----------------------------------------------------------------------------
(* The queue an array stands for.                                          *)

In(y) == [l \in Lists |-> List(y, y[l])]

LEMMA InIs ==
    ASSUME NEW y, NEW D, Threaded(y, D)
    PROVE  D = In(y) /\ D["cpu"] = List(y, y.cpu) /\ D["rt"] = List(y, y.rt)
<1>1. ASSUME NEW l \in Lists PROVE List(y, y[l]) = D[l]
  <2> DEFINE h == y[l]
             S == D[l]
  <2>1. Linked(y, h, S) /\ y.next[0] = 0
    BY DEF Threaded
  <2> HIDE DEF h, S
  <2>2. List(y, h) = S
    BY <2>1, LinkedList
  <2> QED
    BY <2>2 DEF h, S
<1>2. D = [l \in Lists |-> D[l]]
  BY DEF Threaded
<1> QED
  BY <1>1, <1>2 DEF In, Lists

On(D, t) == IF t \in D["cpu"] THEN "cpu" ELSE IF t \in D["rt"] THEN "rt" ELSE "off"

Shows(w, y, D) ==
    /\ w.on = [t \in Id \ {0} |-> On(D, t)]
    /\ w.left = [t \in Id \ {0} |-> IF t \in All(D) THEN Left(y, t) ELSE 0]
    /\ w.period = [t \in Id \ {0} |-> IF t \in All(D) THEN y.period[t] ELSE 0]

LEMMA QueueIs ==
    ASSUME NEW y, NEW D, Threaded(y, D)
    PROVE  Shows(QueueOf(y), y, D)
<1>1. D["cpu"] = List(y, y.cpu) /\ D["rt"] = List(y, y.rt)
  BY InIs
<1> QED
  BY <1>1 DEF QueueOf, Shows, On, All

\* What is in which list.
LEMMA OnIs ==
    ASSUME NEW y, NEW D, Threaded(y, D), NEW t
    PROVE  /\ On(D, t) \in Lists \cup {"off"}
           /\ On(D, t) # "off" <=> t \in All(D)
           /\ \A l \in Lists : On(D, t) = l <=> t \in D[l]
<1>1. D["cpu"] \cap D["rt"] = {}
  BY DEF Threaded
<1> QED
  BY <1>1 DEF On, All, Lists

QueuePut(v, w, t, l, n, p) ==
    /\ w.on = [v.on EXCEPT ![t] = l]
    /\ w.left = [v.left EXCEPT ![t] = n]
    /\ w.period = [v.period EXCEPT ![t] = p]

\* A timer is placed in the queue when it is in the array.
LEMMA QueuePlaced ==
    ASSUME NEW y, NEW D, Threaded(y, D), NEW t \in Id \ {0}, NEW l \in Lists \cup {"off"},
           NEW n, NEW p, NEW Y, Placed(y, Y, D, t, l, n, p), NEW m, NEW o,
           m = IF l = "off" THEN 0 ELSE n, o = IF l = "off" THEN 0 ELSE p
    PROVE  QueuePut(QueueOf(y), QueueOf(Y), t, l, m, o)
<1> DEFINE E == Put(D, t, l)
           v == QueueOf(y)
           w == QueueOf(Y)
<1>1. Threaded(Y, E)
  BY DEF Placed
<1>2. Shows(v, y, D) /\ Shows(w, Y, E)
  <2> HIDE DEF E
  <2> QED
    BY <1>1, QueueIs
<1>d. D \in [Lists -> SUBSET Id] /\ D["cpu"] \cap D["rt"] = {}
  BY DEF Threaded
<1>3. \A u \in Id \ {t} : /\ (u \in D["cpu"] <=> u \in E["cpu"])
                          /\ (u \in D["rt"] <=> u \in E["rt"])
  BY DEF Put, Lists
<1>4. (t \in E["cpu"] <=> l = "cpu") /\ (t \in E["rt"] <=> l = "rt")
  BY DEF Put, Lists
<1> HIDE DEF E, v, w
<1>5. \A u \in Id \ {t} : On(E, u) = On(D, u) /\ (u \in All(E) <=> u \in All(D))
  BY <1>3 DEF On, All
<1>6. On(E, t) = l /\ (t \in All(E) <=> l # "off")
  BY <1>4 DEF On, All, Lists
<1>7. w.on = [v.on EXCEPT ![t] = l]
  BY <1>2, <1>5, <1>6 DEF Shows
<1>8. \A u \in Id \ {t} : Left(Y, u) = Left(y, u) /\ Y.period[u] = y.period[u]
  BY DEF Placed
<1>9. l # "off" => Left(Y, t) = n /\ Y.period[t] = p
  BY DEF Placed
<1>10. w.left = [v.left EXCEPT ![t] = m]
  <2> DEFINE a(u) == IF u \in All(E) THEN Left(Y, u) ELSE 0
             b(u) == IF u \in All(D) THEN Left(y, u) ELSE 0
  <2>1. \A u \in Id \ {t} : a(u) = b(u)
    BY <1>5, <1>8
  <2>2. a(t) = m
    BY <1>6, <1>9
  <2>3. w.left = [u \in Id \ {0} |-> a(u)] /\ v.left = [u \in Id \ {0} |-> b(u)]
    BY <1>2 DEF Shows
  <2> HIDE DEF a, b
  <2> QED
    BY <2>1, <2>2, <2>3
<1>11. w.period = [v.period EXCEPT ![t] = o]
  <2> DEFINE a(u) == IF u \in All(E) THEN Y.period[u] ELSE 0
             b(u) == IF u \in All(D) THEN y.period[u] ELSE 0
  <2>1. \A u \in Id \ {t} : a(u) = b(u)
    BY <1>5, <1>8
  <2>2. a(t) = o
    BY <1>6, <1>9
  <2>3. w.period = [u \in Id \ {0} |-> a(u)] /\ v.period = [u \in Id \ {0} |-> b(u)]
    BY <1>2 DEF Shows
  <2> HIDE DEF a, b
  <2> QED
    BY <2>1, <2>2, <2>3
<1> QED
  BY <1>7, <1>10, <1>11 DEF QueuePut, v, w

-----------------------------------------------------------------------------
(* Rounding.                                                               *)

LEMMA Quotients ==
    ASSUME NEW a \in Nat, NEW b \in Nat, b > 0
    PROVE  /\ a \div b \in Nat /\ (a \div b) * b \in Nat
           /\ (a \div b) * b <= a /\ a < (a \div b) * b + b
<1>1. a \div b \in Int /\ a \div b >= 0
  BY Z3
<1>2. (a \div b) * b \in Int /\ (a \div b) * b <= a /\ a < (a \div b) * b + b
  BY Z3
<1>3. (a \div b) * b >= 0
  <2> DEFINE d == a \div b
  <2>1. d \in Nat
    BY <1>1
  <2> HIDE DEF d
  <2>2. d * b >= 0
    BY <2>1
  <2> QED
    BY <2>2 DEF d
<1> QED
  BY <1>1, <1>2, <1>3

\* Products keep the order, and tell it.
LEMMA Products ==
    ASSUME NEW a \in Int, NEW b \in Int, NEW c \in Nat
    PROVE  /\ a * c \in Int /\ b * c \in Int
           /\ a <= b => a * c <= b * c
           /\ c > 0 /\ a * c < b * c => a < b
           /\ c > 0 /\ a * c <= b * c => a <= b
<1>1. a * c \in Int /\ b * c \in Int
  OBVIOUS
<1>2. ASSUME NEW x \in Int, NEW w \in Int, x <= w PROVE x * c <= w * c
  <2> DEFINE e == w - x
  <2>1. e \in Nat /\ w = x + e
    BY <1>2
  <2> HIDE DEF e
  <2>2. w * c = x * c + e * c
    BY <2>1
  <2>3. e * c >= 0 /\ e * c \in Int /\ x * c \in Int
    BY <2>1
  <2> QED
    BY <2>2, <2>3
<1>3. ASSUME c > 0, NEW x \in Int, NEW w \in Int, x + 1 <= w PROVE x * c < w * c
  <2> DEFINE v == x + 1
  <2>1. v \in Int /\ v <= w
    BY <1>3
  <2>2. v * c = x * c + c
    OBVIOUS
  <2> HIDE DEF v
  <2>3. v * c <= w * c
    BY <1>2, <2>1
  <2>4. x * c \in Int /\ w * c \in Int
    OBVIOUS
  <2> QED
    BY <1>3, <2>2, <2>3, <2>4
<1>4. a <= b => a * c <= b * c
  BY <1>2
<1>5. c > 0 /\ a * c < b * c => a < b
  <2> SUFFICES ASSUME c > 0, a * c < b * c, b <= a PROVE FALSE
    OBVIOUS
  <2>1. b * c <= a * c
    BY <1>2
  <2> QED
    BY <1>1, <2>1
<1>6. c > 0 /\ a * c <= b * c => a <= b
  <2> SUFFICES ASSUME c > 0, a * c <= b * c, b + 1 <= a PROVE FALSE
    OBVIOUS
  <2>1. b * c < a * c
    BY <1>3
  <2> QED
    BY <1>1, <2>1
<1> QED
  BY <1>1, <1>4, <1>5, <1>6

\* A larger number has no smaller quotient.
LEMMA QuotientsOrdered ==
    ASSUME NEW a \in Nat, NEW b \in Nat, a <= b, NEW c \in Nat, c > 0
    PROVE  a \div c <= b \div c
<1> DEFINE x == a \div c
           w == b \div c
           v == w + 1
<1>1. x \in Nat /\ x * c <= a /\ x * c \in Nat
  BY Quotients
<1>2. w \in Nat /\ b < w * c + c /\ w * c \in Nat
  BY Quotients
<1> HIDE DEF x, w
<1>3. v * c = w * c + c /\ v \in Int
  BY <1>2
<1>4. x * c < v * c
  BY <1>1, <1>2, <1>3
<1> HIDE DEF v
<1>5. x < v
  BY <1>1, <1>3, <1>4, Products
<1> QED
  BY <1>1, <1>2, <1>5 DEF x, w, v

-----------------------------------------------------------------------------
(* How many clocks a real-time timer may have left.                        *)

RtBound(m, s, k) == \E c \in Times("rt") : 2 * Kilo * m <= (2 * c + 1) * s + k

LEMMA TimesNat == \A l \in Lists : Times(l) \subseteq Nat
BY TimerAssumption DEF TimerAssumption, Times

LEMMA SpeedsNat == \A s \in Speeds : s \in Nat /\ s > 0 /\ s >= Kilo
BY TimerAssumption DEF TimerAssumption

LEMMA RtLess ==
    ASSUME NEW m \in Int, NEW s \in Speeds, NEW k \in 0..Kilo, RtBound(m, s, k)
    PROVE  m < Wrap - Late
<1>1. PICK c \in Times("rt") : 2 * Kilo * m <= (2 * c + 1) * s + k
  BY DEF RtBound
<1>2. (2 * c + 1) * s + Kilo < 2 * Kilo * (Wrap - Late)
  BY TimerAssumption DEF TimerAssumption
<1>3. c \in Nat /\ s \in Nat
  BY TimesNat, SpeedsNat DEF Lists
<1> DEFINE a == (2 * c + 1) * s
           b == 2 * Kilo
           d == Wrap - Late
<1>4. a \in Int /\ b \in Nat /\ b > 0 /\ d \in Int /\ k \in Int /\ k <= Kilo
  BY <1>3, Sizes
<1>5. b * m <= a + k /\ a + Kilo < b * d
  BY <1>1, <1>2
<1> HIDE DEF a, b, d
<1>6. m * b \in Int /\ d * b \in Int /\ m * b = b * m /\ d * b = b * d
  BY <1>4
<1>7. m * b < d * b
  BY <1>4, <1>5, <1>6, Sizes
<1>8. m < d
  BY <1>4, <1>7, Products
<1> QED
  BY <1>8 DEF d

LEMMA RtLower ==
    ASSUME NEW m \in Int, NEW s \in Speeds, NEW k \in Nat, RtBound(m, s, k),
           NEW n \in Int, n <= m, NEW j \in Nat, k <= j
    PROVE  RtBound(n, s, j)
<1>1. PICK c \in Times("rt") : 2 * Kilo * m <= (2 * c + 1) * s + k
  BY DEF RtBound
<1>3. c \in Nat /\ s \in Nat
  BY TimesNat, SpeedsNat DEF Lists
<1> DEFINE a == (2 * c + 1) * s
           b == 2 * Kilo
<1>4. a \in Int /\ b \in Nat
  BY <1>3, Sizes
<1>5. b * m <= a + k
  BY <1>1
<1> SUFFICES b * n <= a + j
  BY DEF RtBound
<1> HIDE DEF a, b
<1>6. n * b <= m * b /\ n * b \in Int /\ m * b \in Int
  BY <1>4, Products
<1>7. m * b = b * m /\ n * b = b * n
  BY <1>4
<1> QED
  BY <1>4, <1>5, <1>6, <1>7

\* The rounding of a change of speed is gone when a clock has passed.
LEMMA RtPass ==
    ASSUME NEW m \in Int, NEW s \in Speeds, NEW k \in 0..Kilo, RtBound(m, s, k),
           NEW n \in Nat, n > 0, NEW r, r = m - n
    PROVE  RtBound(r, s, 0)
<1>1. PICK c \in Times("rt") : 2 * Kilo * m <= (2 * c + 1) * s + k
  BY DEF RtBound
<1>3. c \in Nat /\ s \in Nat
  BY TimesNat, SpeedsNat DEF Lists
<1> DEFINE a == (2 * c + 1) * s
           b == 2 * Kilo
           e == m - 1
<1>4. a \in Int /\ b \in Nat /\ b >= k /\ k \in Int /\ r \in Int /\ e \in Int /\ r <= e
  BY <1>3, Sizes
<1>5. b * m <= a + k
  BY <1>1
<1> SUFFICES b * r <= a + 0
  BY DEF RtBound
<1> HIDE DEF a, b
<1>6. e * b = m * b - b /\ m * b \in Int
  BY <1>4
<1> HIDE DEF e
<1>7. r * b <= e * b /\ r * b \in Int
  BY <1>4, Products
<1>8. m * b = b * m /\ r * b = b * r
  BY <1>4
<1> QED
  BY <1>4, <1>5, <1>6, <1>7, <1>8

LEMMA Half ==
    ASSUME NEW a \in Nat
    PROVE  a \div 2 \in Nat /\ 2 * (a \div 2) <= a
<1> DEFINE h == a \div 2
<1>1. h \in Nat /\ h * 2 <= a
  BY Quotients
<1> HIDE DEF h
<1>2. 2 * h <= a
  BY <1>1
<1> QED
  BY <1>1, <1>2 DEF h

\* What timer_set() makes of a count of real-time units.
LEMMA RtSet ==
    ASSUME NEW c \in Nat, NEW s \in Speeds, NEW n, n = (s * c + Kilo \div 2) \div Kilo
    PROVE  n \in Nat /\ 2 * Kilo * n <= (2 * c + 1) * s + 0 /\ (c # 0 => n >= 1)
<1> DEFINE h == Kilo \div 2
           p == s * c
           a == p + h
<1>1. s \in Nat /\ s > 0 /\ s >= Kilo /\ Kilo \in Nat /\ Kilo > 0
  BY SpeedsNat, Sizes
<1>2. h \in Nat /\ 2 * h <= Kilo
  BY <1>1, Half
<1>3. p \in Nat
  <2>1. p = c * s /\ 0 * s = 0
    BY <1>1
  <2>2. 0 * s <= c * s /\ c * s \in Int
    BY <1>1, Products
  <2> QED
    BY <2>1, <2>2
<1>4. c # 0 => p >= s
  <2> SUFFICES ASSUME c # 0 PROVE p >= s
    OBVIOUS
  <2>1. 1 * s <= c * s
    BY <1>1, Products
  <2> QED
    BY <1>1, <2>1
<1>5. (2 * c + 1) * s = 2 * p + s
  BY <1>1
<1> HIDE DEF h, p
<1>6. a \in Nat
  BY <1>2, <1>3
<1>7. n = a \div Kilo
  BY DEF h, p
<1> HIDE DEF a
<1>8. n \in Nat /\ n * Kilo <= a /\ a < n * Kilo + Kilo /\ n * Kilo \in Nat
  BY <1>1, <1>6, <1>7, Quotients
<1>9. 2 * Kilo * n = 2 * (n * Kilo)
  BY <1>1, <1>8
<1> DEFINE w == n * Kilo
<1>a. w \in Nat /\ w <= a /\ a < w + Kilo /\ 2 * Kilo * n = 2 * w
  BY <1>8, <1>9
<1>10. c # 0 => n # 0
  <2> SUFFICES ASSUME c # 0, n = 0 PROVE FALSE
    OBVIOUS
  <2>1. w = 0
    BY <1>1
  <2> HIDE DEF w
  <2> QED
    BY <1>1, <1>2, <1>3, <1>4, <1>a, <2>1 DEF a
<1> HIDE DEF w
<1>11. 2 * w <= 2 * p + s
  BY <1>1, <1>2, <1>3, <1>a DEF a
<1> QED
  BY <1>5, <1>8, <1>10, <1>11, <1>a, <1>1, <1>3

\* What tilem_z80_set_speed() makes of what is left.
LEMMA RtRescale ==
    ASSUME NEW m \in Nat, NEW s \in Speeds, RtBound(m, s, 0), NEW v \in Speeds,
           NEW n, n = (m * v + s \div 2) \div s
    PROVE  n \in Nat /\ RtBound(n, v, Kilo)
<1>1. s \in Nat /\ s > 0 /\ v \in Nat /\ Kilo \in Nat
  BY SpeedsNat, Sizes
<1>2. PICK c \in Times("rt") : 2 * Kilo * m <= (2 * c + 1) * s + 0
  BY DEF RtBound
<1>3. c \in Nat
  BY TimesNat DEF Lists
<1> DEFINE h == s \div 2
           p == m * v
           a == p + h
           b == 2 * Kilo
           o == 2 * c + 1
<1>4. h \in Nat /\ 2 * h <= s
  BY <1>1, Half
<1>5. p \in Nat
  <2>1. 0 * v <= m * v /\ m * v \in Int
    BY <1>1, Products
  <2>2. 0 * v = 0
    BY <1>1
  <2> QED
    BY <2>1, <2>2
<1>6. b \in Nat /\ o \in Nat /\ b * m <= o * s /\ b = 2 * Kilo
  <2>1. b \in Nat /\ o \in Nat /\ o * s \in Int
    BY <1>1, <1>3
  <2> QED
    BY <1>2, <2>1
<1> HIDE DEF h, p, b, o
<1>7. a \in Nat
  BY <1>4, <1>5
<1>8. n = a \div s
  BY DEF h, p
<1> HIDE DEF a
<1>9. n \in Nat /\ n * s <= a /\ n * s \in Nat
  BY <1>1, <1>7, <1>8, Quotients
<1>10. (b * n) * s <= b * p + b * h
  <2>1. (n * s) * b <= a * b
    <3> DEFINE x == n * s
    <3>1. x \in Int /\ x <= a
      BY <1>9
    <3> HIDE DEF x
    <3>2. x * b <= a * b
      BY <1>6, <1>7, <3>1, Products
    <3> QED
      BY <3>2 DEF x
  <2>2. (n * s) * b = (b * n) * s
    BY <1>1, <1>6, <1>9
  <2>3. a * b = b * p + b * h
    BY <1>4, <1>5, <1>6 DEF a
  <2> QED
    BY <2>1, <2>2, <2>3
<1>11. b * h <= Kilo * s
  <2>1. (2 * h) * Kilo <= s * Kilo
    <3> DEFINE x == 2 * h
    <3>1. x \in Int /\ x <= s
      BY <1>4
    <3> HIDE DEF x
    <3>2. x * Kilo <= s * Kilo
      BY <1>1, <3>1, Products
    <3> QED
      BY <3>2 DEF x
  <2>2. (2 * h) * Kilo = b * h /\ s * Kilo = Kilo * s
    BY <1>1, <1>4, <1>6
  <2> QED
    BY <2>1, <2>2
<1>12. b * p <= (o * v) * s
  <2>1. (b * m) * v <= (o * s) * v
    <3> DEFINE x == b * m
               w == o * s
    <3>1. x \in Int /\ w \in Int /\ x <= w
      BY <1>1, <1>6
    <3> HIDE DEF x, w
    <3>2. x * v <= w * v
      BY <1>1, <3>1, Products
    <3> QED
      BY <3>2 DEF x, w
  <2>2. (b * m) * v = b * p
    BY <1>1, <1>6 DEF p
  <2>3. (o * s) * v = (o * v) * s
    BY <1>1, <1>6
  <2> QED
    BY <2>1, <2>2, <2>3
<1> DEFINE x == b * n
           e == o * v
           f == e + Kilo
<1>13. x \in Int /\ e \in Int /\ f \in Int
  BY <1>1, <1>6, <1>9
<1>14. f * s = e * s + Kilo * s
  <2> HIDE DEF e
  <2> QED
    BY <1>1, <1>13
<1>15. x * s <= f * s
  <2> DEFINE i == x * s
             j == b * p
             k == b * h
             l == Kilo * s
             g == e * s
             r == f * s
  <2>1. i \in Int /\ j \in Int /\ k \in Int /\ l \in Int /\ g \in Int /\ r \in Int
    BY <1>1, <1>4, <1>5, <1>6, <1>13
  <2>2. i <= j + k /\ k <= l /\ j <= g /\ r = g + l
    BY <1>10, <1>11, <1>12, <1>14
  <2> HIDE DEF i, j, k, l, g, r
  <2>3. i <= r
    BY <2>1, <2>2
  <2> QED
    BY <2>3 DEF i, r
<1> HIDE DEF x, f
<1>16. x <= f
  BY <1>1, <1>13, <1>15, Products
<1>17. 2 * Kilo * n <= (2 * c + 1) * v + Kilo
  BY <1>16 DEF x, f, b, o
<1> QED
  BY <1>9, <1>17 DEF RtBound

-----------------------------------------------------------------------------
(* The clock and the speed of the array.                                   *)

Passed(y, Y, D, n) ==
    /\ Threaded(Y, D) /\ SameLinks(y, Y)
    /\ Y.clock = (y.clock + n) % Wrap /\ Y.speed = y.speed
    /\ Y.count = y.count /\ Y.period = y.period
    /\ \A t \in All(D) : Left(Y, t) = Left(y, t) - n

\* n clocks pass, and no timer gets later than the window.
LEMMA PassedAt ==
    ASSUME NEW y, NEW D, Threaded(y, D), NEW n \in Nat,
           \A t \in All(D) : Left(y, t) - n >= -Late,
           NEW Y, Y = [y EXCEPT !.clock = (@ + n) % Wrap]
    PROVE  Passed(y, Y, D, n)
<1>r. /\ y \in Arrays /\ All(D) \subseteq Id \ {0} /\ \A l \in Lists : D[l] \subseteq All(D)
  BY Ranges
<1> DEFINE ck == (y.clock + n) % Wrap
<1>1. ck \in Words
  <2> DEFINE e == y.clock + n
  <2>1. e \in Int
    BY <1>r DEF Arrays, Words
  <2> HIDE DEF e
  <2>2. e % Wrap \in Words
    BY <2>1, Remainder
  <2> QED
    BY <2>2 DEF e
<1>2. Y = [y EXCEPT !.clock = ck]
  OBVIOUS
<1>k. ck = (y.clock + n) % Wrap
  OBVIOUS
<1> HIDE DEF ck
<1>3. /\ SameLinks(y, Y) /\ Y.clock = ck /\ Y.speed = y.speed
      /\ Y.count = y.count /\ Y.period = y.period
  BY <1>r, <1>1, <1>2 DEF Arrays, SameLinks
<1>4. ASSUME NEW t \in All(D) PROVE Left(Y, t) = Left(y, t) - n
  <2> DEFINE m == Left(y, t)
             r == m - n
  <2>1. m \in Int /\ -Late <= m /\ m < Wrap - Late /\ t \in Id
    BY <1>r, <1>4, LeftTyped
  <2>2. r \in Int /\ -Late <= r /\ r < Wrap - Late
    BY <2>1, <1>4, Sizes
  <2>3. m = Left(y, t)
    OBVIOUS
  <2>e. r = m - n
    OBVIOUS
  <2> HIDE DEF m, r
  <2>4. DueIn(y, t, m)
    BY <1>r, <2>1, <2>3, LeftIs
  <2>5. DueIn(Y, t, r)
    <3>1. n \in Int /\ Y.clock = (y.clock + n) % Wrap /\ Y.count[t] = y.count[t]
      BY <1>3, <1>k
    <3> QED
      BY <1>r, <2>1, <2>4, <2>e, <3>1, DueLater
  <2>6. Left(Y, t) = r
    BY <1>3, <2>1, <2>2, <2>5, LeftIs DEF SameLinks
  <2> QED
    BY <2>3, <2>6, <2>e
<1>5. Threaded(Y, D)
  <2>1. ASSUME NEW l \in Lists, NEW s \in D[l], NEW u \in D[l], Left(y, s) <= Left(y, u)
        PROVE  Left(Y, s) <= Left(Y, u)
    <3>1. s \in All(D) /\ u \in All(D) /\ s \in Id /\ u \in Id
      BY <1>r
    <3>2. Left(y, s) \in Int /\ Left(y, u) \in Int
      BY <1>r, <3>1, LeftTyped
    <3> QED
      BY <1>4, <2>1, <3>1, <3>2
  <2> QED
    BY <1>3, <2>1, ThreadedKept
<1> QED
  BY <1>3, <1>4, <1>5, <1>k DEF Passed

Rescaled(y, Y, D, s) ==
    /\ Threaded(Y, D) /\ SameLinks(y, Y)
    /\ Y.clock = y.clock /\ Y.speed = s /\ Y.period = y.period
    /\ \A u \in Id \ D["rt"] : Y.count[u] = y.count[u] /\ Left(Y, u) = Left(y, u)
    /\ \A t \in D["rt"] :
          /\ Left(Y, t) = IF Left(y, t) > 0
                            THEN (Left(y, t) * s + y.speed \div 2) \div y.speed
                            ELSE Left(y, t)
          /\ Left(Y, t) >= 0 /\ RtBound(Left(Y, t), s, Kilo)
          /\ Left(y, t) > 0 => Left(Y, t) \in Nat

\* tilem_z80_set_speed(), when no real-time timer is overdue.
LEMMA RescaledAt ==
    ASSUME NEW y, NEW D, Threaded(y, D), NEW s \in Speeds,
           \A t \in D["rt"] : Left(y, t) >= 0 /\ RtBound(Left(y, t), y.speed, 0),
           NEW Y, Y = Rescale(y, s)
    PROVE  Rescaled(y, Y, D, s)
<1>r. /\ y \in Arrays /\ All(D) \subseteq Id \ {0} /\ \A l \in Lists : D[l] \subseteq All(D)
  BY Ranges
<1> DEFINE R == D["rt"]
           Rest(t) == (Minus(y.count[t], y.clock) * s + y.speed \div 2) \div y.speed
           New(t) == (y.clock + Rest(t)) % Wrap
           ct == [t \in Id |-> IF t \in R /\ Minus(y.clock, y.count[t]) >= Late
                                 THEN New(t) ELSE y.count[t]]
<1>1. Y = [y EXCEPT !.speed = s, !.count = ct]
  <2>1. R = {From(y, y.rt)[i] : i \in Id} \ {0}
    BY InIs DEF List
  <2>2. \A t \in Id : (t # 0 /\ \E i \in Id : From(y, y.rt)[i] = t) <=> t \in R
    <3> DEFINE F == From(y, y.rt)
    <3>1. R = {F[i] : i \in Id} \ {0}
      BY <2>1
    <3> HIDE DEF F, R
    <3>2. \A t \in Id : (t # 0 /\ \E i \in Id : F[i] = t) <=> t \in R
      BY <3>1
    <3> QED
      BY <3>2 DEF F
  <2> DEFINE ct2 == [t \in Id |->
                        IF t # 0 /\ (\E i \in Id : From(y, y.rt)[i] = t)
                           /\ Minus(y.clock, y.count[t]) >= Late
                          THEN New(t) ELSE y.count[t]]
  <2>3. Y = [y EXCEPT !.speed = s, !.count = ct2]
    BY DEF Rescale
  <2>4. ct2 = ct
    <3> HIDE DEF New, R
    <3> QED
      BY <2>2
  <2> HIDE DEF ct, ct2
  <2> QED
    BY <2>3, <2>4
<1>2. y.speed \in Speeds /\ y.clock \in Words /\ y.count \in [Id -> Words]
  BY <1>r DEF Arrays
<1>3. \A t \in R : t \in Id
  BY <1>r DEF Lists
<1>4. \A t \in Id \ R : ct[t] = y.count[t]
  OBVIOUS
<1>5. ASSUME NEW t \in R
      PROVE  /\ Left(y, t) = 0 => ct[t] = y.count[t]
             /\ Left(y, t) > 0 => Rest(t) = (Left(y, t) * s + y.speed \div 2) \div y.speed
                                  /\ ct[t] = New(t)
  <2> DEFINE m == Left(y, t)
  <2>1. m \in Int /\ -Late <= m /\ m < Wrap - Late /\ t \in Id /\ m = Left(y, t) /\ 0 <= m
    BY <1>r, <1>3, <1>5, LeftTyped
  <2> HIDE DEF m, R
  <2>2. DueIn(y, t, m)
    BY <1>r, <2>1, LeftIs
  <2>3. /\ Minus(y.count[t], y.clock) = IF m >= 0 THEN m ELSE m + Wrap
        /\ Minus(y.clock, y.count[t]) = IF m <= 0 THEN 0 - m ELSE Wrap - m
    <3>1. -Wrap < m /\ m < Wrap
      BY <2>1, Sizes
    <3> QED
      BY <1>r, <2>1, <2>2, <3>1, DueDifferences
  <2>4. CASE m = 0
    <3>a. 0 - m = 0 /\ m <= 0
      BY <2>1, <2>4
    <3>1. Minus(y.clock, y.count[t]) = 0 /\ ~(0 >= Late)
      BY <2>3, <3>a, Sizes
    <3>2. ct[t] = y.count[t]
      <4> HIDE DEF New
      <4> QED
        BY <2>1, <3>1
    <3> QED
      BY <2>1, <2>4, <3>2
  <2>5. CASE m > 0
    <3>1. Minus(y.count[t], y.clock) = m /\ Minus(y.clock, y.count[t]) >= Late
      BY <2>1, <2>3, <2>5, Sizes
    <3>2. ct[t] = New(t)
      <4> HIDE DEF New
      <4> QED
        BY <2>1, <3>1, <1>5
    <3>3. Rest(t) = (m * s + y.speed \div 2) \div y.speed
      BY <3>1
    <3> QED
      BY <2>1, <2>5, <3>2, <3>3
  <2> QED
    BY <2>1, <2>4, <2>5
<1>6. ASSUME NEW t \in R, Left(y, t) > 0
      PROVE  Rest(t) \in Nat /\ RtBound(Rest(t), s, Kilo)
  <2> DEFINE m == Left(y, t)
             w == y.speed
             n == (m * s + w \div 2) \div w
  <2>1. m \in Nat /\ RtBound(m, w, 0) /\ w \in Speeds
    <3>1. m \in Int /\ m > 0
      BY <1>r, <1>3, <1>6, LeftTyped
    <3>2. RtBound(m, w, 0)
      OBVIOUS
    <3> HIDE DEF m
    <3> QED
      BY <1>2, <3>1, <3>2
  <2>2. Rest(t) = n
    BY <1>5, <1>6
  <2>3. n = (m * s + w \div 2) \div w
    OBVIOUS
  <2> HIDE DEF m, w, n, Rest
  <2>4. n \in Nat /\ RtBound(n, s, Kilo)
    BY <2>1, <2>3, RtRescale
  <2> QED
    BY <2>2, <2>4
<1>7. ct \in [Id -> Words]
  <2> SUFFICES ASSUME NEW t \in Id PROVE ct[t] \in Words
    OBVIOUS
  <2>1. CASE t \notin R
    BY <1>2, <1>4, <2>1
  <2>2. CASE t \in R
    <3>1. Left(y, t) \in Int /\ Left(y, t) >= 0
      BY <1>r, <2>2, LeftTyped
    <3>2. CASE Left(y, t) = 0
      BY <1>2, <1>5, <2>2, <3>2
    <3>3. CASE Left(y, t) > 0
      <4>1. Rest(t) \in Nat /\ ct[t] = New(t)
        BY <1>5, <1>6, <2>2, <3>3
      <4> HIDE DEF Rest, ct
      <4>2. y.clock + Rest(t) \in Int
        BY <1>2, <4>1 DEF Words
      <4>3. New(t) \in Words
        <5> DEFINE e == y.clock + Rest(t)
        <5> HIDE DEF e
        <5>1. e % Wrap \in Words
          BY <4>2, Remainder DEF e
        <5> QED
          BY <5>1 DEF e
      <4> QED
        BY <4>1, <4>3
    <3> QED
      BY <3>1, <3>2, <3>3
  <2> QED
    BY <2>1, <2>2
<1> HIDE DEF ct
<1>8. /\ Y.clock = y.clock /\ Y.speed = s /\ Y.period = y.period /\ Y.count = ct
      /\ SameLinks(y, Y)
  BY <1>r, <1>1, <1>7 DEF Arrays, SameLinks
<1>9. \A u \in Id \ R : Y.count[u] = y.count[u] /\ Left(Y, u) = Left(y, u)
  BY <1>4, <1>8 DEF Left
<1>10. ASSUME NEW t \in R
       PROVE  /\ Left(Y, t) = IF Left(y, t) > 0
                                THEN (Left(y, t) * s + y.speed \div 2) \div y.speed
                                ELSE Left(y, t)
              /\ Left(Y, t) >= 0 /\ RtBound(Left(Y, t), s, Kilo)
              /\ Left(y, t) > 0 => Left(Y, t) \in Nat
  <2>1. Left(y, t) \in Int /\ Left(y, t) >= 0 /\ t \in Id
    BY <1>r, <1>3, LeftTyped
  <2>2. CASE Left(y, t) = 0
    <3>1. Left(Y, t) = 0
      BY <1>5, <1>8, <2>2 DEF Left
    <3>2. RtBound(0, s, Kilo)
      <4>1. PICK c \in Times("rt") : 2 * Kilo * Left(y, t) <= (2 * c + 1) * y.speed + 0
        BY DEF RtBound
      <4>2. c \in Nat /\ s \in Nat
        BY TimesNat, SpeedsNat DEF Lists
      <4>3. 2 * Kilo * 0 <= (2 * c + 1) * s + Kilo
        <5> DEFINE o == 2 * c + 1
        <5>1. o \in Int /\ 0 <= o
          BY <4>2
        <5> HIDE DEF o
        <5>2. 0 * s <= o * s /\ o * s \in Int
          BY <4>2, <5>1, Products
        <5>3. 0 * s = 0 /\ 2 * Kilo * 0 = 0
          BY <4>2, Sizes
        <5>4. 2 * Kilo * 0 <= o * s + Kilo
          BY <5>2, <5>3, Sizes
        <5> QED
          BY <5>4 DEF o
      <4> QED
        BY <4>3 DEF RtBound
    <3> QED
      BY <2>2, <3>1, <3>2
  <2>3. CASE Left(y, t) > 0
    <3> DEFINE n == Rest(t)
    <3>1. /\ n \in Nat /\ RtBound(n, s, Kilo) /\ ct[t] = (y.clock + n) % Wrap
          /\ n = (Left(y, t) * s + y.speed \div 2) \div y.speed
      BY <1>5, <1>6, <2>3
    <3> HIDE DEF n
    <3>2. n < Wrap - Late /\ -Late <= n /\ n \in Int
      <4>1. Kilo \in 0..Kilo /\ n \in Int
        BY <3>1, Sizes
      <4> QED
        BY <3>1, <4>1, RtLess, Sizes
    <3>3. DueIn(Y, t, n)
      BY <1>8, <3>1 DEF DueIn
    <3>4. Left(Y, t) = n
      BY <1>8, <2>1, <3>2, <3>3, LeftIs DEF SameLinks
    <3> QED
      BY <2>3, <3>1, <3>4
  <2> QED
    BY <2>1, <2>2, <2>3
<1>11. Threaded(Y, D)
  <2>1. ASSUME NEW a \in R, NEW b \in R, Left(y, a) <= Left(y, b)
        PROVE  Left(Y, a) <= Left(Y, b)
    <3> DEFINE ma == Left(y, a)
               mb == Left(y, b)
               w == y.speed
               h == w \div 2
               pa == ma * s
               pb == mb * s
               na == pa + h
               nb == pb + h
    <3>1. ma \in Nat /\ mb \in Nat /\ ma <= mb
      <4>1. ma \in Int /\ mb \in Int /\ ma >= 0 /\ mb >= 0 /\ ma <= mb
        BY <1>r, <1>3, <2>1, LeftTyped
      <4> HIDE DEF ma, mb
      <4> QED
        BY <4>1
    <3>2. Left(Y, a) = IF ma > 0 THEN na \div w ELSE ma
      BY <1>10
    <3>3. Left(Y, b) = IF mb > 0 THEN nb \div w ELSE mb
      BY <1>10
    <3> HIDE DEF ma, mb
    <3>4. w \in Nat /\ w > 0 /\ s \in Nat
      BY <1>2, SpeedsNat
    <3> HIDE DEF w
    <3>5. h \in Nat
      BY <3>4, Half
    <3>6. pa \in Int /\ pb \in Int /\ pa <= pb /\ pa >= 0
      <4>1. 0 * s <= ma * s /\ 0 * s = 0 /\ ma * s <= mb * s /\ ma * s \in Int /\ mb * s \in Int
        BY <3>1, <3>4, Products
      <4> QED
        BY <4>1
    <3> HIDE DEF h, pa, pb
    <3>7. na \in Nat /\ nb \in Nat /\ na <= nb
      BY <3>5, <3>6
    <3> HIDE DEF na, nb
    <3>8. na \div w <= nb \div w /\ nb \div w \in Nat
      BY <3>4, <3>7, QuotientsOrdered, Quotients
    <3>9. CASE ma > 0
      BY <3>1, <3>2, <3>3, <3>8, <3>9
    <3>10. CASE ma = 0
      <4>1. Left(Y, a) = 0
        BY <3>2, <3>10
      <4>2. Left(Y, b) >= 0
        BY <1>10
      <4> QED
        BY <4>1, <4>2
    <3> QED
      BY <3>1, <3>9, <3>10
  <2>2. R \cap D["cpu"] = {}
    BY DEF Threaded
  <2>3. \A a, b \in D["cpu"] : Left(y, a) <= Left(y, b) => Left(Y, a) <= Left(Y, b)
    <3>1. D["cpu"] \subseteq Id \ R
      BY <1>r, <2>2 DEF Lists
    <3> QED
      BY <1>9, <3>1
  <2>4. \A l \in Lists : \A a, b \in D[l] : Left(y, a) <= Left(y, b) => Left(Y, a) <= Left(Y, b)
    BY <2>1, <2>3 DEF Lists
  <2> QED
    BY <1>8, <2>4, ThreadedKept
<1> QED
  BY <1>8, <1>9, <1>10, <1>11 DEF Rescaled

-----------------------------------------------------------------------------
(* What is invariant.                                                      *)

\* The longest instruction; and what timers are set again with.
Over == CHOOSE n \in Cycles : \A m \in Cycles : m <= n

Periods == {u.period : u \in Usage} \cup {0}

LEMMA OverMax ==
    /\ Over \in Cycles /\ Over \in Nat /\ Over >= 1 /\ Over < Late /\ 4 * Over <= Wrap + 2
    /\ \A n \in Cycles : n \in Nat /\ n >= 1 /\ n <= Over
<1>1. /\ Cycles \subseteq Nat \ {0} /\ Cycles # {} /\ Late \in Nat
      /\ \A n \in Cycles : n < Late /\ 4 * n <= Wrap + 2
  BY Sizes, TimerAssumption DEF TimerAssumption
<1> DEFINE S == {Late - n : n \in Cycles}
<1>2. S \in SUBSET Nat /\ S # {}
  <2>1. ASSUME NEW n \in Cycles PROVE Late - n \in Nat
    <3>1. n \in Nat /\ n < Late
      BY <1>1
    <3> QED
      BY <1>1, <3>1
  <2>2. PICK n : n \in Cycles
    BY <1>1
  <2>3. Late - n \in S
    BY <2>2
  <2> QED
    BY <2>1, <2>3
<1> HIDE DEF S
<1>3. PICK x \in S : \A w \in S : x <= w
  BY <1>2, Least
<1>4. PICK n \in Cycles : x = Late - n
  BY DEF S
<1>5. \A m \in Cycles : m <= n
  <2> SUFFICES ASSUME NEW m \in Cycles PROVE m <= n
    OBVIOUS
  <2>1. Late - n <= Late - m
    BY <1>3, <1>4 DEF S
  <2>2. m \in Nat /\ n \in Nat
    BY <1>1
  <2> QED
    BY <1>1, <2>1, <2>2
<1> DEFINE P(i) == \A m \in Cycles : m <= i
<1>6. P(n)
  BY <1>5
<1>7. Over = CHOOSE i \in Cycles : P(i)
  BY DEF Over
<1> HIDE DEF P
<1>8. Over \in Cycles /\ P(Over)
  BY <1>6, <1>7
<1>9. \A m \in Cycles : m <= Over
  BY <1>8 DEF P
<1> QED
  BY <1>1, <1>8, <1>9

\* What is left of the timers when z80_execute() stands at at.
Timed(y, D, at) ==
    /\ \A t \in All(D) : Left(y, t) >= -Over /\ y.period[t] \in Periods
    /\ at # "cpu" => \A t \in D["cpu"] : Left(y, t) > 0
    /\ at \notin {"cpu", "rt"} => \A t \in D["rt"] : Left(y, t) >= 0
    /\ at \in {"checked", "next", "done"} => \A t \in D["rt"] : Left(y, t) > 0
    /\ \A t \in D["rt"] : RtBound(Left(y, t), y.speed, IF at = "exec" THEN Kilo ELSE 0)

\* What is left when it stands at at is enough for to.
Weaker(at, to) ==
    /\ at = "cpu" => to = "cpu"
    /\ at = "rt" => to \in {"cpu", "rt"}
    /\ to \in {"checked", "next", "done"} => at \in {"checked", "next", "done"}
    /\ at = "exec" => to = "exec"

\* n clocks, in list l, are enough for it; and p is a period.
Enough(y, l, n, p, to) ==
    /\ n \in Int /\ n >= -Over /\ p \in Periods
    /\ l = "cpu" /\ to # "cpu" => n > 0
    /\ l = "rt" => RtBound(n, y.speed, 0)
    /\ l = "rt" /\ to \notin {"cpu", "rt"} => n > 0

LEMMA BoundWeaker ==
    ASSUME NEW m \in Int, NEW s \in Speeds, NEW at, NEW to, at = "exec" => to = "exec",
           RtBound(m, s, IF at = "exec" THEN Kilo ELSE 0)
    PROVE  RtBound(m, s, IF to = "exec" THEN Kilo ELSE 0)
<1> DEFINE j == IF at = "exec" THEN Kilo ELSE 0
           k == IF to = "exec" THEN Kilo ELSE 0
<1>1. j \in Nat /\ k \in Nat /\ j <= k
  BY Sizes
<1>2. RtBound(m, s, j)
  OBVIOUS
<1> HIDE DEF j, k
<1>3. m <= m
  OBVIOUS
<1>4. RtBound(m, s, k)
  BY <1>1, <1>2, <1>3, RtLower
<1> QED
  BY <1>4 DEF k

\* The array stays as it is.
LEMMA TimedWeaker ==
    ASSUME NEW y, NEW D, Threaded(y, D), NEW at, NEW to, Timed(y, D, at), Weaker(at, to)
    PROVE  Timed(y, D, to)
<1>r. y \in Arrays /\ \A l \in Lists : D[l] \subseteq Id
  BY DEF Threaded
<1>1. \A t \in D["rt"] : RtBound(Left(y, t), y.speed, IF to = "exec" THEN Kilo ELSE 0)
  <2> SUFFICES ASSUME NEW t \in D["rt"]
               PROVE  RtBound(Left(y, t), y.speed, IF to = "exec" THEN Kilo ELSE 0)
    OBVIOUS
  <2> DEFINE m == Left(y, t)
             s == y.speed
  <2>1. m \in Int /\ s \in Speeds
    BY <1>r, LeftTyped DEF Lists, Arrays
  <2>2. RtBound(m, s, IF at = "exec" THEN Kilo ELSE 0) /\ (at = "exec" => to = "exec")
    BY DEF Timed, Weaker
  <2> HIDE DEF m, s
  <2>3. RtBound(m, s, IF to = "exec" THEN Kilo ELSE 0)
    BY <2>1, <2>2, BoundWeaker
  <2> QED
    BY <2>3 DEF m, s
<1>2. (to # "cpu" => at # "cpu") /\ (to \notin {"cpu", "rt"} => at \notin {"cpu", "rt"})
  BY DEF Weaker
<1> QED
  BY <1>1, <1>2 DEF Timed, Weaker

\* A timer is set or unset.
LEMMA TimedPlaced ==
    ASSUME NEW y, NEW D, Threaded(y, D), NEW at, NEW to, Timed(y, D, at), Weaker(at, to),
           NEW t \in Id \ {0}, NEW l \in Lists \cup {"off"}, NEW n, NEW p, NEW Y,
           Placed(y, Y, D, t, l, n, p), l # "off" => Enough(y, l, n, p, to)
    PROVE  Timed(Y, Put(D, t, l), to)
<1>0. Timed(y, D, to)
  BY TimedWeaker
<1> DEFINE E == Put(D, t, l)
<1>1. /\ \A u \in All(E) \ {t} : u \in All(D)
      /\ \A u \in E["cpu"] \ {t} : u \in D["cpu"]
      /\ \A u \in E["rt"] \ {t} : u \in D["rt"]
      /\ t \in All(E) => l # "off"
      /\ t \in E["cpu"] => l = "cpu"
      /\ t \in E["rt"] => l = "rt"
  BY DEF Put, All, Lists
<1>2. All(E) \subseteq Id /\ E["cpu"] \subseteq Id /\ E["rt"] \subseteq Id
  BY DEF Placed, Threaded, All, Lists
<1> HIDE DEF E
<1>3. /\ Y.speed = y.speed /\ \A u \in Id \ {t} : Left(Y, u) = Left(y, u) /\ Y.period[u] = y.period[u]
      /\ l # "off" => Left(Y, t) = n /\ Y.period[t] = p
  BY DEF Placed
<1>4. \A u \in All(E) : Left(Y, u) >= -Over /\ Y.period[u] \in Periods
  BY <1>0, <1>1, <1>2, <1>3 DEF Timed, Enough
<1>5. to # "cpu" => \A u \in E["cpu"] : Left(Y, u) > 0
  BY <1>0, <1>1, <1>2, <1>3 DEF Timed, Enough
<1>6. to \notin {"cpu", "rt"} => \A u \in E["rt"] : Left(Y, u) >= 0
  <2> SUFFICES ASSUME to \notin {"cpu", "rt"}, NEW u \in E["rt"] PROVE Left(Y, u) >= 0
    OBVIOUS
  <2>1. CASE u = t
    <3>1. n \in Int /\ n > 0 /\ Left(Y, t) = n
      BY <1>1, <1>3, <2>1 DEF Enough
    <3> QED
      BY <2>1, <3>1
  <2>2. CASE u # t
    BY <1>0, <1>1, <1>2, <1>3, <2>2 DEF Timed
  <2> QED
    BY <2>1, <2>2
<1>7. to \in {"checked", "next", "done"} => \A u \in E["rt"] : Left(Y, u) > 0
  BY <1>0, <1>1, <1>2, <1>3 DEF Timed, Enough
<1>8. \A u \in E["rt"] : RtBound(Left(Y, u), Y.speed, IF to = "exec" THEN Kilo ELSE 0)
  <2> SUFFICES ASSUME NEW u \in E["rt"]
               PROVE  RtBound(Left(Y, u), y.speed, IF to = "exec" THEN Kilo ELSE 0)
    BY <1>3
  <2>1. CASE u = t
    <3>1. n \in Int /\ RtBound(n, y.speed, 0) /\ Left(Y, t) = n
      BY <1>1, <1>3, <2>1 DEF Enough
    <3> DEFINE s == y.speed
               k == IF to = "exec" THEN Kilo ELSE 0
    <3>2. s \in Speeds /\ k \in Nat /\ 0 <= k
      BY Sizes DEF Threaded, Arrays
    <3>3. RtBound(n, s, 0) /\ n <= n
      BY <3>1
    <3> HIDE DEF s, k
    <3>4. RtBound(n, s, k)
      BY <3>1, <3>2, <3>3, RtLower
    <3> QED
      BY <2>1, <3>1, <3>4 DEF s, k
  <2>2. CASE u # t
    BY <1>0, <1>1, <1>2, <1>3, <2>2 DEF Timed
  <2> QED
    BY <2>1, <2>2
<1>9. Timed(Y, E, to)
  BY <1>4, <1>5, <1>6, <1>7, <1>8 DEF Timed
<1> QED
  BY <1>9 DEF E

\* Clocks pass, no more than the longest instruction beyond a timer.
LEMMA TimedPassed ==
    ASSUME NEW y, NEW D, Threaded(y, D), NEW at \in {"step", "exec", "checked"}, Timed(y, D, at),
           NEW n \in Nat, n > 0 \/ at # "exec", \A t \in All(D) : Left(y, t) - n >= -Over,
           NEW Y, Passed(y, Y, D, n)
    PROVE  Timed(Y, D, "cpu")
<1>r. y \in Arrays /\ All(D) \subseteq Id /\ D["rt"] \subseteq All(D)
  BY DEF Threaded, All, Lists
<1>1. /\ Y.speed = y.speed /\ Y.period = y.period
      /\ \A t \in All(D) : Left(Y, t) = Left(y, t) - n
  BY DEF Passed
<1>2. \A t \in All(D) : Left(Y, t) >= -Over /\ Y.period[t] \in Periods
  BY <1>1 DEF Timed
<1>3. \A t \in D["rt"] : RtBound(Left(Y, t), Y.speed, 0)
  <2> SUFFICES ASSUME NEW t \in D["rt"] PROVE RtBound(Left(y, t) - n, y.speed, 0)
    BY <1>1, <1>r
  <2> DEFINE m == Left(y, t)
             s == y.speed
             k == IF at = "exec" THEN Kilo ELSE 0
             r == m - n
  <2>1. m \in Int /\ s \in Speeds /\ k \in 0..Kilo /\ k \in Nat /\ 0 \in Nat
    <3>1. k \in 0..Kilo /\ k \in Nat /\ 0 \in Nat
      BY Sizes
    <3>2. m \in Int
      BY <1>r, LeftTyped
    <3>3. s \in Speeds
      BY <1>r DEF Arrays
    <3> QED
      BY <3>1, <3>2, <3>3
  <2>2. RtBound(m, s, k) /\ (k # 0 => n > 0)
    BY DEF Timed
  <2>3. r \in Int /\ r <= m
    BY <2>1
  <2>4. r = m - n
    OBVIOUS
  <2> HIDE DEF m, s, k, r
  <2>5. CASE n > 0
    <3>1. RtBound(r, s, 0)
      BY <2>1, <2>2, <2>4, <2>5, RtPass
    <3> QED
      BY <3>1 DEF r, m, s
  <2>6. CASE ~(n > 0)
    <3>1. k = 0 /\ k <= 0
      BY <2>2, <2>6
    <3>2. RtBound(r, s, 0)
      BY <2>1, <2>2, <2>3, <3>1, RtLower
    <3> QED
      BY <3>2 DEF r, m, s
  <2> QED
    BY <2>5, <2>6
<1> QED
  BY <1>2, <1>3 DEF Timed

\* The speed changes.
LEMMA TimedRescaled ==
    ASSUME NEW y, NEW D, Threaded(y, D), Timed(y, D, "step"), NEW s \in Speeds,
           NEW Y, Rescaled(y, Y, D, s)
    PROVE  Timed(Y, D, "exec")
<1>r. /\ y \in Arrays /\ All(D) \subseteq Id /\ D["rt"] \subseteq All(D) /\ D["cpu"] \subseteq Id
      /\ D["cpu"] \cap D["rt"] = {} /\ All(D) = D["cpu"] \cup D["rt"]
  BY DEF Threaded, All, Lists
<1>1. /\ Y.speed = s /\ Y.period = y.period
      /\ \A u \in Id \ D["rt"] : Left(Y, u) = Left(y, u)
      /\ \A t \in D["rt"] : Left(Y, t) >= 0 /\ RtBound(Left(Y, t), s, Kilo)
  BY DEF Rescaled
<1>2. \A t \in D["rt"] : Left(Y, t) >= -Over
  <2> SUFFICES ASSUME NEW t \in D["rt"] PROVE Left(Y, t) >= -Over
    OBVIOUS
  <2>1. Left(Y, t) \in Int
    <3>1. Y \in Arrays /\ t \in Id
      BY <1>r DEF Rescaled, Threaded
    <3> QED
      BY <3>1, LeftTyped
  <2> QED
    BY <1>1, <2>1, OverMax
<1>3. \A t \in All(D) : Left(Y, t) >= -Over /\ Y.period[t] \in Periods
  BY <1>1, <1>2, <1>r DEF Timed
<1>4. \A t \in D["cpu"] : Left(Y, t) > 0
  BY <1>1, <1>r DEF Timed
<1>5. \A t \in D["rt"] : RtBound(Left(Y, t), Y.speed, Kilo)
  BY <1>1
<1> QED
  BY <1>1, <1>3, <1>4, <1>5 DEF Timed

LEMMA PeriodsNat == Periods \subseteq Nat
BY TimerAssumption DEF TimerAssumption, Periods

Repeated(y, Y, D, t, p) ==
    /\ Threaded(Y, D) /\ SameLinks(y, Y)
    /\ Y.clock = y.clock /\ Y.speed = y.speed /\ Y.count = y.count
    /\ Y.period = [y.period EXCEPT ![t] = p]
    /\ \A u : Left(Y, u) = Left(y, u)

\* tilem_z80_set_timer_period()
LEMMA RepeatedAt ==
    ASSUME NEW y, NEW D, Threaded(y, D), NEW t \in Id, NEW p \in Periods,
           NEW Y, Y = [y EXCEPT !.period[t] = p]
    PROVE  Repeated(y, Y, D, t, p)
<1> DEFINE pe == [y.period EXCEPT ![t] = p]
<1>1. y \in Arrays
  BY DEF Threaded
<1>2. pe \in [Id -> Nat] /\ Y = [y EXCEPT !.period = pe]
  BY <1>1, PeriodsNat DEF Arrays
<1>3. pe = [y.period EXCEPT ![t] = p]
  OBVIOUS
<1> HIDE DEF pe
<1>4. /\ SameLinks(y, Y) /\ Y.clock = y.clock /\ Y.speed = y.speed /\ Y.count = y.count
      /\ Y.period = pe
  BY <1>1, <1>2 DEF Arrays, SameLinks
<1>5. \A u : Left(Y, u) = Left(y, u)
  BY <1>4 DEF Left
<1>6. Threaded(Y, D)
  BY <1>4, <1>5, ThreadedKept
<1> QED
  BY <1>3, <1>4, <1>5, <1>6 DEF Repeated

LEMMA TimedRepeated ==
    ASSUME NEW y, NEW D, Threaded(y, D), NEW at, NEW to, Timed(y, D, at), Weaker(at, to),
           NEW t \in Id, NEW p \in Periods, NEW Y, Repeated(y, Y, D, t, p)
    PROVE  Timed(Y, D, to)
<1>1. Timed(y, D, to)
  BY TimedWeaker
<1>2. Y.speed = y.speed /\ \A u : Left(Y, u) = Left(y, u)
  BY DEF Repeated
<1>3. \A u \in All(D) : Y.period[u] \in Periods
  <2>1. All(D) \subseteq Id /\ y.period \in [Id -> Nat]
    BY DEF Threaded, All, Lists, Arrays
  <2> QED
    BY <1>1, <2>1 DEF Repeated, Timed
<1> QED
  BY <1>1, <1>2, <1>3 DEF Timed

\* What is owed to the run of timer run, when sec tells that the timers are checked again.
Owing(y, D, at, sec, run, n) ==
    /\ n \in Int /\ n < Wrap - Late /\ 2 * n < Wrap
    /\ DueIn(y, run, n)
    /\ run \notin D["rt"]
    /\ run \in D["cpu"] => n >= 1 - Over
    /\ run \notin D["cpu"] => /\ n >= 1 - 2 * Over
                              /\ at \in {"cpu", "rt", "checked"} /\ ~sec => n >= 1 - Over

\* What is owed is what is left of the timer.
LEMMA OwingLeft ==
    ASSUME NEW y, NEW D, Threaded(y, D), NEW at, NEW sec, NEW run \in Id, NEW n,
           Owing(y, D, at, sec, run, n), run \in D["cpu"]
    PROVE  Left(y, run) = n
<1>1. n \in Int /\ -Late <= n /\ n < Wrap - Late /\ DueIn(y, run, n) /\ y \in Arrays
  BY OverMax, Sizes DEF Owing, Threaded
<1> QED
  BY <1>1, LeftIs

\* It is the signed difference tilem_z80_run() returns.
LEMMA OwingExact ==
    ASSUME NEW y, NEW D, Threaded(y, D), NEW at, NEW sec, NEW run \in Id, NEW n,
           Owing(y, D, at, sec, run, n)
    PROVE  AsInt(Minus(y.count[run], y.clock)) = n
<1>1. n \in Int /\ 2 * n < Wrap /\ n >= 1 - 2 * Over /\ DueIn(y, run, n) /\ y \in Arrays
  BY OverMax DEF Owing, Threaded
<1>2. /\ -Wrap < n /\ n < Wrap /\ (n < 0 => 2 * (n + Wrap) >= Wrap)
  BY <1>1, OverMax, Sizes
<1>3. Minus(y.count[run], y.clock) = IF n >= 0 THEN n ELSE n + Wrap
  BY <1>1, <1>2, DueDifferences
<1> QED
  BY <1>1, <1>2, <1>3, Sizes DEF AsInt

\* It is the same while the run's timer and the clock are.
LEMMA OwingKept ==
    ASSUME NEW y, NEW D, NEW at, NEW sec, NEW run, NEW n, Owing(y, D, at, sec, run, n),
           NEW Y, Y.clock = y.clock, Y.count[run] = y.count[run],
           NEW E, \A l \in Lists : run \in E[l] <=> run \in D[l],
           NEW to, NEW sec2,
           to \in {"cpu", "rt", "checked"} /\ ~sec2 /\ run \notin D["cpu"] =>
              at \in {"cpu", "rt", "checked"} /\ ~sec
    PROVE  Owing(Y, E, to, sec2, run, n)
BY DEF Owing, DueIn, Lists

\* The run's timer fires.
LEMMA OwingFired ==
    ASSUME NEW y, NEW D, NEW at, NEW sec, NEW run, NEW n, Owing(y, D, at, sec, run, n),
           NEW Y, Y.clock = y.clock, Y.count[run] = y.count[run], run \in D["cpu"],
           NEW E, \A l \in Lists : run \notin E[l]
    PROVE  Owing(Y, E, at, sec, run, n)
<1>1. n \in Int /\ n >= 1 - Over /\ n >= 1 - 2 * Over
  BY OverMax DEF Owing
<1> QED
  BY <1>1 DEF Owing, DueIn, Lists

\* Clocks pass: no more than what is left, or than an instruction takes.
LEMMA OwingPassed ==
    ASSUME NEW y, NEW D, Threaded(y, D), NEW at \in {"step", "exec", "checked"}, Timed(y, D, at),
           NEW sec, NEW run \in Id, NEW n, Owing(y, D, at, sec, run, n),
           NEW c \in Nat, run \in D["cpu"] => n - c >= -Over /\ (c <= Over \/ c <= n),
           NEW Y, Passed(y, Y, D, c), NEW sec2, NEW r, r = n - c,
           run \notin D["cpu"] => at = "checked" /\ ~sec /\ sec2 /\ c <= Over
    PROVE  Owing(Y, D, "cpu", sec2, run, r)
<1>1. n \in Int /\ n < Wrap - Late /\ 2 * n < Wrap /\ DueIn(y, run, n) /\ run \notin D["rt"]
  BY DEF Owing
<1>2. r \in Int /\ r < Wrap - Late /\ 2 * r < Wrap
  BY <1>1, Sizes
<1>3. DueIn(Y, run, r)
  <2>1. y \in Arrays /\ Y.clock = (y.clock + c) % Wrap /\ Y.count[run] = y.count[run] /\ c \in Int
    BY DEF Threaded, Passed
  <2> QED
    BY <1>1, <2>1, DueLater
<1>4. CASE run \in D["cpu"]
  <2>1. Left(y, run) = n
    BY <1>4, OwingLeft
  <2>2. n >= 1
    BY <1>1, <1>4, <2>1 DEF Timed
  <2>3. r >= 1 - Over
    BY <1>1, <1>4, <2>2, OverMax
  <2> QED
    BY <1>1, <1>2, <1>3, <1>4, <2>3 DEF Owing
<1>5. CASE run \notin D["cpu"]
  <2>1. n >= 1 - Over
    BY <1>5 DEF Owing
  <2>2. r >= 1 - 2 * Over
    BY <1>1, <1>5, <2>1, OverMax
  <2> QED
    BY <1>1, <1>2, <1>3, <1>5, <2>2 DEF Owing
<1> QED
  BY <1>4, <1>5

-----------------------------------------------------------------------------
(* The invariant, and what is enough to keep it.                           *)

Stages == {"idle", "step", "exec", "cpu", "rt", "checked", "next", "done"}

\* The array is sound and the queue is what it stands for.
Structure ==
    /\ Threaded(z, In(z)) /\ q = QueueOf(z)
    /\ Cardinality(z.used) <= Hardware + Dynamic
    /\ pc = "idle" => Cardinality(z.used) < Hardware + Dynamic

\* While a run is not asked to stop, its timer is pending.
Control ==
    /\ pc \in Stages /\ second \in BOOLEAN /\ stopping \in BOOLEAN
    /\ fired \in Id /\ (fired # 0 => pc \in {"cpu", "rt"})
    /\ pc \in {"step", "exec"} => ~stopping
    /\ pc = "checked" => ~second
    /\ pc = "idle" <=> runner = 0
    /\ runner \in Id
    /\ runner # 0 => runner \in z.used /\ runner > Hardware /\ z.period[runner] = 0
    /\ pc # "idle" /\ ~stopping /\ fired # runner => runner \in All(In(z))
    /\ pc = "idle" => owed = {}

History ==
    owed # {} => \E n \in Int : owed = {n} /\ Owing(z, In(z), pc, second, runner, n)

IInv == Structure /\ Timed(z, In(z), pc) /\ Control /\ History

\* A step keeps the invariant, and is one of the queue.
Kept == IInv' /\ [Queue!Next]_(Queue!vars)

LEMMA UsageFacts ==
    /\ \A u \in Usage : /\ u.id \in Id \ {0} /\ u.id \in 1..Hardware
                        /\ u.count \in Nat /\ u.period \in Nat /\ u.list \in Lists
                        /\ u.period \in Periods /\ u.count \in Times(u.list)
    /\ \A s \in Slices : /\ s.count \in Nat /\ s.count # 0 /\ s.list \in Lists
                         /\ s.count \in Times(s.list)
                         /\ s.list = "cpu" => 2 * s.count < Wrap
    /\ \A p \in Periods : p # 0 => \A l \in Lists : p \in Times(l)
    /\ 0 \in Periods
<1>1. 1..Hardware \subseteq Id \ {0}
  BY Sizes
<1>2. /\ Usage \subseteq [id : 1..Hardware, count : Nat, period : Nat, list : Lists]
      /\ Slices \subseteq [count : Nat \ {0}, list : Lists]
      /\ \A s \in Slices : s.list = "cpu" => 2 * s.count < Wrap
  BY TimerAssumption DEF TimerAssumption
<1> QED
  BY <1>1, <1>2 DEF Periods, Times

\* Clocks a timer may be set to, less those it is late.
LEMMA ClksFit ==
    ASSUME NEW y \in Arrays, NEW l \in Lists, NEW c \in Times(l), NEW late \in 0..Over,
           NEW n, n = Clks(y, l, c) - late
    PROVE  /\ c \in Nat /\ Clks(y, l, c) \in Nat /\ n \in Int
           /\ n >= -Over /\ -Late <= n /\ n < Wrap - Late
           /\ l = "rt" => RtBound(n, y.speed, 0)
           /\ c # 0 /\ late = 0 => n > 0
<1>1. c \in Nat /\ y.speed \in Speeds /\ late \in Nat /\ late <= Over
  BY TimesNat, OverMax DEF Arrays
<1>2. CASE l = "rt"
  <2> DEFINE s == y.speed
             m == (s * c + Kilo \div 2) \div Kilo
  <2>1. Clks(y, l, c) = m
    BY <1>2 DEF Clks
  <2>2. s \in Speeds /\ m = (s * c + Kilo \div 2) \div Kilo
    BY <1>1
  <2> HIDE DEF m, s
  <2>3. m \in Nat /\ 2 * Kilo * m <= (2 * c + 1) * s + 0 /\ (c # 0 => m >= 1)
    BY <1>1, <2>2, RtSet
  <2>4. RtBound(m, s, 0)
    BY <1>2, <2>3 DEF RtBound
  <2>5. m < Wrap - Late /\ m \in Int
    <3>1. 0 \in 0..Kilo /\ m \in Int
      BY <2>3, Sizes
    <3> QED
      BY <2>2, <2>4, <3>1, RtLess
  <2>6. n \in Int /\ n <= m /\ n = m - late
    BY <1>1, <2>1, <2>3
  <2>7. RtBound(n, s, 0)
    <3>1. 0 \in Nat /\ 0 <= 0
      OBVIOUS
    <3> QED
      BY <2>2, <2>4, <2>5, <2>6, <3>1, RtLower
  <2> QED
    BY <1>1, <1>2, <2>1, <2>3, <2>5, <2>6, <2>7, OverMax, Sizes DEF s
<1>3. CASE l = "cpu"
  <2>1. Clks(y, l, c) = c /\ c < Wrap - Late
    BY <1>3, TimerAssumption DEF Clks, TimerAssumption
  <2> QED
    BY <1>1, <1>3, <2>1, OverMax, Sizes
<1> QED
  BY <1>2, <1>3 DEF Lists

-----------------------------------------------------------------------------
(* Timers that are added and removed.                                      *)

\* Setting and unsetting leave the timers in use alone.
LEMMA UsedKept ==
    ASSUME NEW y \in Arrays, NEW t \in Id, NEW c, NEW p, NEW l \in Lists, NEW extra,
           NEW Y, Y = SetTimer(y, t, c, p, l, extra)
    PROVE  Y.used = y.used
BY DEF SetTimer, Insert, Arrays, Lists

LEMMA UsedKeptAgain ==
    ASSUME NEW y, NEW D, Threaded(y, D), NEW t \in y.used, NEW c, NEW p, NEW l \in Lists,
           NEW extra, NEW Y, Y = SetTimer(Unset(y, t), t, c, p, l, extra)
    PROVE  Y.used = y.used
<1> DEFINE y1 == Unset(y, t)
<1>1. Moved(y, y1, D, t, "off")
  BY UnsetAt
<1>2. t \in Id
  BY Ranges
<1>3. Y = SetTimer(y1, t, c, p, l, extra)
  OBVIOUS
<1> HIDE DEF y1
<1>4. y1 \in Arrays /\ y1.used = y.used
  BY <1>1 DEF Moved, Threaded
<1> QED
  BY <1>2, <1>3, <1>4, UsedKept

\* tilem_z80_add_timer(): t is the timer it returns.
Added(y, Y, D, t, l, n, p) ==
    /\ Placed(y, Y, D, t, l, n, p)
    /\ Y.used = y.used \cup {t} /\ t \in Id \ {0} /\ t \notin y.used /\ t > Hardware

LEMMA AddedAt ==
    ASSUME NEW y, NEW D, Threaded(y, D), Cardinality(y.used) < Hardware + Dynamic,
           NEW l \in Lists, NEW c \in Nat, NEW p \in Nat, NEW n \in Int,
           n = Clks(y, l, c), c # 0 => -Late <= n /\ n < Wrap - Late,
           NEW a, a = Alloc(y), NEW t, t = a.t,
           NEW Y, Y = SetTimer([a.y EXCEPT !.used = @ \cup {t}], t, c, p, l, 0),
           NEW to, to = IF c = 0 THEN "off" ELSE l
    PROVE  Added(y, Y, D, t, to, n, p)
<1> DEFINE y1 == [a.y EXCEPT !.used = @ \cup {t}]
<1>1. Allocated(y, y1, D, t)
  <2>1. t = Alloc(y).t /\ y1 = [Alloc(y).y EXCEPT !.used = @ \cup {t}]
    OBVIOUS
  <2> HIDE DEF y1
  <2> QED
    BY <2>1, AllocAt
<1>2. Y = SetTimer(y1, t, c, p, l, 0)
  OBVIOUS
<1> HIDE DEF y1
<1>3. /\ Threaded(y1, D) /\ y1.used = y.used \cup {t} /\ t \in Id \ {0} /\ t \notin y.used
      /\ t > Hardware /\ y1.clock = y.clock /\ y1.speed = y.speed /\ y1.count = y.count
      /\ y1.period = y.period /\ y1 \in Arrays /\ All(D) \subseteq y.used
  BY <1>1 DEF Allocated, Threaded
<1>4. Clks(y1, l, c) = n /\ n = n - 0
  BY <1>3 DEF Clks
<1>5. Placed(y1, Y, D, t, to, n, p)
  <2>1. t \in y1.used \ All(D) /\ 0 \in Int /\ Clks(y1, l, c) \in Int /\ n = Clks(y1, l, c) - 0
    BY <1>3, <1>4
  <2> QED
    BY <1>2, <1>3, <2>1, SetAt
<1>6. Y.used = y1.used
  BY <1>2, <1>3, UsedKept
<1>7. \A u : Left(y1, u) = Left(y, u)
  BY <1>3 DEF Left
<1>8. Placed(y, Y, D, t, to, n, p)
  <2>1. \A u \in Id \ {t} : /\ Y.count[u] = y.count[u] /\ Y.period[u] = y.period[u]
                            /\ Left(Y, u) = Left(y, u)
    <3>1. \A u \in Id \ {t} : /\ Y.count[u] = y1.count[u] /\ Y.period[u] = y1.period[u]
                              /\ Left(Y, u) = Left(y1, u)
      BY <1>5 DEF Placed
    <3>2. y1.count = y.count /\ y1.period = y.period
      BY <1>3
    <3> QED
      BY <1>7, <3>1, <3>2
  <2>2. /\ Threaded(Y, Put(D, t, to)) /\ Y.clock = y.clock /\ Y.speed = y.speed
        /\ to # "off" => Left(Y, t) = n /\ Y.period[t] = p
    BY <1>3, <1>5 DEF Placed
  <2> QED
    BY <2>1, <2>2 DEF Placed
<1> QED
  BY <1>3, <1>6, <1>8 DEF Added

\* tilem_z80_remove_timer()
Removed(y, Y, D, t) ==
    /\ Placed(y, Y, D, t, "off", 0, 0) /\ Y.used = y.used \ {t}
    /\ Y.count = y.count /\ Y.period = y.period

LEMMA RemovedAt ==
    ASSUME NEW y, NEW D, Threaded(y, D), NEW t \in y.used, t > Hardware,
           NEW Y, Y = Free(Unset(y, t), t)
    PROVE  Removed(y, Y, D, t)
<1> DEFINE y1 == Unset(y, t)
           E == Put(D, t, "off")
<1>1. Moved(y, y1, D, t, "off") /\ Y = Free(y1, t)
  BY UnsetAt
<1> HIDE DEF y1
<1>2. /\ Threaded(y1, E) /\ y1.used = y.used /\ y1.clock = y.clock /\ y1.speed = y.speed
      /\ y1.count = y.count /\ y1.period = y.period
  BY <1>1 DEF Moved
<1>3. t \notin All(E)
  BY DEF All, Put, Lists
<1>4. t \in y1.used \ All(E)
  BY <1>2, <1>3
<1> HIDE DEF E
<1>5. /\ Threaded(Y, E) /\ Y.used = y1.used \ {t} /\ Y.clock = y1.clock /\ Y.speed = y1.speed
      /\ Y.count = y1.count /\ Y.period = y1.period
  BY <1>1, <1>2, <1>4, FreeAt
<1>6. \A u : Left(Y, u) = Left(y, u)
  BY <1>2, <1>5 DEF Left
<1> QED
  BY <1>2, <1>5, <1>6 DEF Removed, Placed, E

-----------------------------------------------------------------------------
(* Steps that set or unset one timer.                                      *)

\* The step places t, in the array and in the queue.
Placing(t, l, n, p) ==
    /\ Placed(z, z', In(z), t, l, n, p) /\ In(z') = Put(In(z), t, l)
    /\ Threaded(z', In(z')) /\ q' = QueueOf(z')
    /\ Queue!Put(t, l, IF l = "off" THEN 0 ELSE n, IF l = "off" THEN 0 ELSE p)

LEMMA PlacedStep ==
    ASSUME Structure, NEW Y, Becomes(Y), NEW t \in Id \ {0}, NEW l \in Lists \cup {"off"},
           NEW n, NEW p, Placed(z, Y, In(z), t, l, n, p)
    PROVE  Placing(t, l, n, p)
<1> DEFINE D == In(z)
           E == Put(D, t, l)
           m == IF l = "off" THEN 0 ELSE n
           o == IF l = "off" THEN 0 ELSE p
<1>1. Threaded(z, D) /\ z' = Y /\ q = QueueOf(z) /\ q' = QueueOf(z')
  BY DEF Structure, Becomes
<1>2. Placed(z, z', D, t, l, n, p)
  BY <1>1
<1>3. Threaded(z', E) /\ z'.speed = z.speed
  BY <1>2 DEF Placed
<1>4. m = (IF l = "off" THEN 0 ELSE n) /\ o = (IF l = "off" THEN 0 ELSE p)
  OBVIOUS
<1> HIDE DEF D, E, m, o
<1>5. QueuePut(QueueOf(z), QueueOf(z'), t, l, m, o)
  BY <1>1, <1>2, <1>4, QueuePlaced
<1>6. In(z') = E
  BY <1>3, InIs
<1>7. Queue!Put(t, l, m, o)
  BY <1>1, <1>3, <1>5 DEF QueuePut, Queue!Put
<1> QED
  BY <1>1, <1>2, <1>3, <1>6, <1>7 DEF Placing, D, E, m, o

\* Which lists the other timers are in stays.
LEMMA PutOthers ==
    ASSUME NEW D \in [Lists -> SUBSET Id], NEW t, NEW l, NEW u, u # t
    PROVE  /\ \A k \in Lists : u \in Put(D, t, l)[k] <=> u \in D[k]
           /\ u \in All(Put(D, t, l)) <=> u \in All(D)
BY DEF Put, All, Lists

-----------------------------------------------------------------------------
(* Steps at which the clock and the run's timer stay.                      *)

\* What such a step does with the rest of the state.
Going ==
    /\ pc # "idle" /\ pc' \in Stages \ {"idle"}
    /\ runner' = runner /\ owed' = owed
    /\ second' \in BOOLEAN /\ stopping' \in BOOLEAN /\ fired' \in Id
    /\ fired' # 0 => pc' \in {"cpu", "rt"}
    /\ pc' \in {"step", "exec"} => ~stopping'
    /\ pc' = "checked" => ~second'
    /\ ~stopping' /\ fired' # runner => ~stopping /\ fired # runner
    /\ pc' \in {"cpu", "rt", "checked"} /\ ~second' => pc \in {"cpu", "rt", "checked"} /\ ~second

\* What it does with the run's timer.
Runs(y, Y, run) ==
    /\ Y.clock = y.clock /\ Y.count[run] = y.count[run] /\ Y.period[run] = y.period[run]
    /\ run \in y.used => run \in Y.used
    /\ \A l \in Lists : run \in In(Y)[l] <=> run \in In(y)[l]

LEMMA GoingKept ==
    ASSUME IInv, Going, Runs(z, z', runner), Structure', Timed(z', In(z'), pc')
    PROVE  IInv'
<1>1. /\ runner \in Id /\ runner # 0 /\ runner \in z.used /\ runner > Hardware
      /\ z.period[runner] = 0 /\ (~stopping /\ fired # runner => runner \in All(In(z)))
  BY DEF IInv, Control, Going
<1>2. runner \in All(In(z')) <=> runner \in All(In(z))
  BY DEF Runs, All, Lists
<1>3. Control'
  BY <1>1, <1>2 DEF Control, Going, Runs
<1>4. History'
  <2> SUFFICES ASSUME owed # {}
               PROVE  \E n \in Int : owed' = {n} /\ Owing(z', In(z'), pc', second', runner', n)
    BY DEF History, Going
  <2>1. PICK n \in Int : owed = {n} /\ Owing(z, In(z), pc, second, runner, n)
    BY DEF IInv, History
  <2> DEFINE D == In(z)
             E == In(z')
  <2>2. Owing(z, D, pc, second, runner, n) /\ \A l \in Lists : runner \in E[l] <=> runner \in D[l]
    BY <2>1 DEF Runs
  <2> HIDE DEF D, E
  <2>3. Owing(z', E, pc', second', runner, n)
    <3>1. z'.clock = z.clock /\ z'.count[runner] = z.count[runner]
      BY DEF Runs
    <3>2. pc' \in {"cpu", "rt", "checked"} /\ ~second' =>
             pc \in {"cpu", "rt", "checked"} /\ ~second
      BY DEF Going
    <3> QED
      BY <2>2, <3>1, <3>2, OwingKept
  <2> QED
    BY <2>1, <2>3 DEF Going, E
<1> QED
  BY <1>3, <1>4 DEF IInv

\* Another timer is set or unset.
LEMMA PlacingOther ==
    ASSUME IInv, NEW t, NEW l, NEW n, NEW p, Placing(t, l, n, p), z'.used = z.used, t # runner
    PROVE  Runs(z, z', runner)
<1> DEFINE D == In(z)
<1>1. runner \in Id /\ runner # t
  BY DEF IInv, Control
<1>2. D \in [Lists -> SUBSET Id] /\ In(z') = Put(D, t, l)
  BY DEF IInv, Structure, Threaded, Placing
<1> HIDE DEF D
<1>3. \A k \in Lists : runner \in Put(D, t, l)[k] <=> runner \in D[k]
  BY <1>1, <1>2, PutOthers
<1>4. /\ z'.clock = z.clock
      /\ z'.count[runner] = z.count[runner] /\ z'.period[runner] = z.period[runner]
  BY <1>1 DEF Placing, Placed
<1> QED
  BY <1>2, <1>3, <1>4 DEF Runs, D

\* A timer of the model is not that of the run.
LEMMA PlacingRuns ==
    ASSUME IInv, NEW t \in 1..Hardware, NEW l, NEW n, NEW p, Placing(t, l, n, p),
           z'.used = z.used, pc # "idle"
    PROVE  Runs(z, z', runner)
<1>1. runner # t
  <2>1. runner \in Id /\ runner # 0 /\ runner > Hardware /\ Hardware \in Nat
    BY Sizes DEF IInv, Control
  <2>2. t <= Hardware
    BY <2>1
  <2> QED
    BY <2>1, <2>2
<1> QED
  BY <1>1, PlacingOther

-----------------------------------------------------------------------------
(* Ports and handlers.                                                     *)

Counts == ({u.count : u \in Usage \cup Slices} \cup {u.period : u \in Usage}) \ {0}

LEMMA CountsFacts ==
    /\ \A u \in Usage : u.count \in Counts \cup {0}
    /\ \A s \in Slices : s.count \in Counts
    /\ Periods \subseteq Counts \cup {0}
<1>1. \A u \in Usage \cup Slices : u.count = 0 \/ u.count \in Counts
  BY DEF Counts
<1>2. \A s \in Slices : s.count # 0 /\ s.count \in Counts
  BY <1>1, UsageFacts
<1>3. \A p \in Periods : p = 0 \/ p \in Counts
  BY DEF Counts, Periods
<1> QED
  BY <1>1, <1>2, <1>3

\* A timer that starts in the array starts in the queue.
LEMMA QueueStarts ==
    ASSUME NEW t \in Id \ {0}, NEW l \in Lists, NEW c \in Counts, NEW p \in Counts \cup {0},
           NEW n, n = Clks(z, l, c), Queue!Put(t, l, n, p)
    PROVE  Queue!Start
<1>1. n = Queue!Clocks(l, c)
  BY DEF Clks, Queue!Clocks
<1>2. Queue!Put(t, l, Queue!Clocks(l, c), p)
  BY <1>1
<1> QED
  BY <1>2 DEF Queue!Start, Lists, Counts

LEMMA QueueStops ==
    ASSUME NEW t \in Id \ {0}, Queue!Put(t, "off", 0, 0)
    PROVE  Queue!Stop
BY DEF Queue!Stop

\* tilem_z80_set_timer()
SetDone == IInv' /\ (Queue!Start \/ Queue!Stop)

LEMMA SetKept ==
    ASSUME IInv, Going, NEW u \in Usage, Set(u), Weaker(pc, pc')
    PROVE  SetDone
<1> DEFINE t == u.id
           c == u.count
           p == u.period
           l == u.list
           n == Clks(z, l, c)
           to == IF c = 0 THEN "off" ELSE l
           D == In(z)
<1>1. /\ t \in 1..Hardware /\ t \in Id \ {0} /\ c \in Nat /\ p \in Nat /\ l \in Lists
      /\ p \in Periods /\ c \in Times(l) /\ c \in Counts \cup {0} /\ p \in Counts \cup {0}
  BY UsageFacts, CountsFacts
<1>2. Threaded(z, D) /\ Structure /\ Timed(z, D, pc) /\ pc # "idle"
  BY DEF IInv, Structure, Going
<1>3. z \in Arrays /\ t \in z.used
  BY <1>1, <1>2 DEF Threaded
<1>4. PICK Y : Y = SetTimer(Unset(z, t), t, c, p, l, 0)
  OBVIOUS
<1>5. Becomes(Y)
  BY <1>4 DEF Set, Becomes
<1> DEFINE zero == 0
<1>6. zero \in Int /\ zero \in 0..Over /\ zero = 0
  BY OverMax
<1>n. n = Clks(z, l, c) - zero /\ n = Clks(z, l, c) /\ to = IF c = 0 THEN "off" ELSE l
  <2>1. Clks(z, l, c) \in Nat
    <3> HIDE DEF c, l, n, to
    <3>1. Clks(z, l, c) - zero = Clks(z, l, c) - zero
      OBVIOUS
    <3> HIDE DEF zero
    <3> QED
      BY <1>1, <1>3, <1>6, <3>1, ClksFit
  <2> QED
    BY <2>1, <1>6
<1>y. Y = SetTimer(Unset(z, t), t, c, p, l, zero)
  BY <1>4
<1> HIDE DEF t, c, p, l, n, to, D, zero
<1>7. /\ n \in Nat /\ n >= -Over /\ -Late <= n /\ n < Wrap - Late /\ Clks(z, l, c) \in Int
      /\ (l = "rt" => RtBound(n, z.speed, 0)) /\ (c # 0 => n > 0)
  BY <1>1, <1>3, <1>6, <1>n, ClksFit
<1>8. Placed(z, Y, D, t, to, n, p)
  <2>1. n \in Int
    BY <1>7
  <2> QED
    BY <1>1, <1>2, <1>3, <1>6, <1>7, <1>n, <1>y, <2>1, SetAgain
<1>9. to \in Lists \cup {"off"} /\ (to # "off" => to = l /\ c # 0)
  BY <1>1, <1>n
<1>10. Placing(t, to, n, p)
  <2>1. Placed(z, Y, In(z), t, to, n, p)
    BY <1>8 DEF D
  <2> QED
    BY <1>1, <1>2, <1>5, <1>9, <2>1, PlacedStep
<1>11. z'.used = z.used
  <2>1. Y.used = z.used
    BY <1>1, <1>2, <1>3, <1>y, UsedKeptAgain
  <2> QED
    BY <1>5, <2>1 DEF Becomes
<1>12. Runs(z, z', runner)
  BY <1>1, <1>2, <1>10, <1>11, PlacingRuns
<1>13. Timed(z', In(z'), pc')
  <2>1. to # "off" => Enough(z, to, n, p, pc')
    BY <1>1, <1>7, <1>9 DEF Enough
  <2>2. Placed(z, z', D, t, to, n, p) /\ In(z') = Put(D, t, to)
    BY <1>10 DEF Placing, D
  <2> QED
    BY <1>1, <1>2, <1>9, <2>1, <2>2, TimedPlaced
<1>14. Structure'
  BY <1>2, <1>10, <1>11 DEF Structure, Placing, Going
<1>15. IInv'
  BY <1>12, <1>13, <1>14, GoingKept
<1>16. Queue!Start \/ Queue!Stop
  <2>1. CASE c = 0
    <3>1. Queue!Put(t, "off", 0, 0)
      BY <2>1, <1>n, <1>10 DEF Placing
    <3> QED
      BY <1>1, <3>1, QueueStops
  <2>2. CASE c # 0
    <3>1. Queue!Put(t, l, n, p) /\ c \in Counts
      <4>1. to = l /\ to # "off"
        BY <1>1, <1>n, <2>2 DEF Lists
      <4> QED
        BY <1>1, <2>2, <4>1, <1>10 DEF Placing
    <3> QED
      BY <1>1, <1>n, <3>1, QueueStarts
  <2> QED
    BY <2>1, <2>2
<1> QED
  BY <1>15, <1>16 DEF SetDone

\* The array keeps its links, and the lists what they hold.
LEMMA SameThreads ==
    ASSUME Structure, NEW D, D = In(z), Threaded(z', D), SameLinks(z, z'), q' = QueueOf(z'),
           pc' = "idle" => pc = "idle"
    PROVE  Structure' /\ In(z') = D /\ z'.used = z.used
<1>1. In(z') = D
  BY InIs
<1>2. z'.used = z.used
  BY DEF SameLinks
<1>3. Structure'
  BY <1>1, <1>2 DEF Structure
<1> QED
  BY <1>1, <1>2, <1>3

\* tilem_z80_set_timer_period()
PeriodDone == IInv' /\ (Queue!NewPeriod \/ UNCHANGED Queue!queue)

LEMMA SetPeriodKept ==
    ASSUME IInv, Going, NEW u \in Usage, SetPeriod(u), Weaker(pc, pc')
    PROVE  PeriodDone
<1> DEFINE t == u.id
           p == u.period
           D == In(z)
<1>1. t \in 1..Hardware /\ t \in Id \ {0} /\ p \in Periods /\ p \in Counts \cup {0}
  BY UsageFacts, CountsFacts
<1>2. Threaded(z, D) /\ Structure /\ Timed(z, D, pc) /\ pc # "idle"
  BY DEF IInv, Structure, Going
<1>3. z' = [z EXCEPT !.period[t] = p] /\ q' = QueueOf(z') /\ q = QueueOf(z)
  BY <1>2 DEF SetPeriod, Becomes, Structure
<1>d. D = In(z)
  OBVIOUS
<1> HIDE DEF t, p, D
<1>4. Repeated(z, z', D, t, p)
  BY <1>1, <1>2, <1>3, RepeatedAt
<1>5. /\ Threaded(z', D) /\ SameLinks(z, z') /\ z'.clock = z.clock /\ z'.speed = z.speed
      /\ z'.count = z.count /\ z'.period = [z.period EXCEPT ![t] = p]
      /\ \A v : Left(z', v) = Left(z, v)
  BY <1>4 DEF Repeated
<1>6. Structure' /\ In(z') = D /\ z'.used = z.used
  BY <1>d, <1>2, <1>3, <1>5, SameThreads DEF Going
<1>7. Timed(z', In(z'), pc')
  BY <1>1, <1>2, <1>4, <1>6, TimedRepeated
<1>8. z.period \in [Id -> Nat] /\ runner \in Id /\ runner # t
  <2>1. runner \in Id /\ runner # 0 /\ runner > Hardware /\ Hardware \in Nat
    BY <1>2, Sizes DEF IInv, Control
  <2>2. t <= Hardware /\ t \in Nat
    BY <1>1, <2>1
  <2>3. z \in Arrays
    BY <1>2 DEF Threaded
  <2>4. z.period \in [Id -> Nat]
    BY <2>3 DEF Arrays
  <2>5. runner # t
    BY <2>1, <2>2, Sizes
  <2> QED
    BY <2>1, <2>4, <2>5
<1>9. Runs(z, z', runner)
  <2>1. z'.period[runner] = z.period[runner]
    BY <1>5, <1>8
  <2> QED
    BY <1>5, <1>6, <1>d, <2>1 DEF Runs
<1>10. IInv'
  BY <1>6, <1>7, <1>9, GoingKept
<1>11. Shows(q, z, D) /\ Shows(q', z', D)
  BY <1>2, <1>3, <1>5, QueueIs
<1>12. q'.on = q.on /\ q'.left = q.left
  BY <1>5, <1>11 DEF Shows
<1>13. CASE t \in All(D)
  <2>1. q'.period = [q.period EXCEPT ![t] = p]
    <3> DEFINE a(v) == IF v \in All(D) THEN z.period[v] ELSE 0
               b(v) == IF v \in All(D) THEN z'.period[v] ELSE 0
    <3>1. \A v \in Id \ {0} : b(v) = IF v = t THEN p ELSE a(v)
      BY <1>1, <1>5, <1>8, <1>13
    <3>2. q.period = [v \in Id \ {0} |-> a(v)] /\ q'.period = [v \in Id \ {0} |-> b(v)]
      BY <1>11 DEF Shows
    <3> HIDE DEF a, b
    <3> QED
      BY <1>1, <3>1, <3>2
  <2>2. q.on[t] # "off"
    BY <1>1, <1>2, <1>11, <1>13, OnIs DEF Shows
  <2>3. Queue!Put(t, q.on[t], q.left[t], p)
    <3>1. /\ q'.on = [q.on EXCEPT ![t] = q.on[t]] /\ q'.left = [q.left EXCEPT ![t] = q.left[t]]
      BY <1>12, <1>11 DEF Shows
    <3> QED
      BY <1>5, <2>1, <3>1 DEF Queue!Put
  <2>4. Queue!NewPeriod
    BY <1>1, <2>2, <2>3 DEF Queue!NewPeriod, Counts
  <2> QED
    BY <1>10, <2>4 DEF PeriodDone
<1>14. CASE t \notin All(D)
  <2>1. q'.period = q.period
    <3> DEFINE a(v) == IF v \in All(D) THEN z.period[v] ELSE 0
               b(v) == IF v \in All(D) THEN z'.period[v] ELSE 0
    <3>1. \A v \in Id \ {0} : b(v) = a(v)
      BY <1>1, <1>5, <1>8, <1>14
    <3>2. q.period = [v \in Id \ {0} |-> a(v)] /\ q'.period = [v \in Id \ {0} |-> b(v)]
      BY <1>11 DEF Shows
    <3> HIDE DEF a, b
    <3> QED
      BY <3>1, <3>2
  <2>2. UNCHANGED Queue!queue
    BY <1>5, <1>12, <2>1 DEF Queue!queue
  <2> QED
    BY <1>10, <2>2 DEF PeriodDone
<1> QED
  BY <1>13, <1>14

\* tilem_z80_set_speed()
LEMMA SetSpeedKept ==
    ASSUME IInv, Going, pc = "step", pc' = "exec", NEW s \in Speeds, Becomes(Rescale(z, s)),
           UNCHANGED fired
    PROVE  Kept
<1> DEFINE D == In(z)
<1>2. Threaded(z, D) /\ Structure /\ Timed(z, D, "step")
  BY DEF IInv, Structure
<1>3. z' = Rescale(z, s) /\ q' = QueueOf(z') /\ q = QueueOf(z)
  BY <1>2 DEF Becomes, Structure
<1>d. D = In(z)
  OBVIOUS
<1> HIDE DEF D
<1>r. /\ D \in [Lists -> SUBSET Id] /\ D["cpu"] \cap D["rt"] = {} /\ z \in Arrays
      /\ D["rt"] \subseteq Id \ {0}
  BY <1>2, Ranges DEF Threaded, All, Lists
<1>4. \A t \in D["rt"] : Left(z, t) >= 0 /\ RtBound(Left(z, t), z.speed, 0)
  BY <1>2 DEF Timed
<1>5. Rescaled(z, z', D, s)
  BY <1>2, <1>3, <1>4, RescaledAt
<1>6. /\ Threaded(z', D) /\ SameLinks(z, z') /\ z'.clock = z.clock /\ z'.speed = s
      /\ z'.period = z.period
      /\ \A u \in Id \ D["rt"] : z'.count[u] = z.count[u] /\ Left(z', u) = Left(z, u)
      /\ \A t \in D["rt"] : Left(z', t) = IF Left(z, t) > 0
                               THEN (Left(z, t) * s + z.speed \div 2) \div z.speed
                               ELSE Left(z, t)
  BY <1>5 DEF Rescaled
<1>7. Structure' /\ In(z') = D /\ z'.used = z.used
  <2>1. pc' = "idle" => pc = "idle"
    OBVIOUS
  <2> QED
    BY <1>d, <1>2, <1>3, <1>6, <2>1, SameThreads
<1>8. Timed(z', In(z'), pc')
  BY <1>2, <1>5, <1>7, TimedRescaled
<1>9. IInv'
  <2>1. CASE runner \notin D["rt"]
    <3>1. runner \in Id
      BY DEF IInv, Control
    <3>2. Runs(z, z', runner)
      BY <1>6, <1>7, <1>d, <2>1, <3>1 DEF Runs
    <3> QED
      BY <1>7, <1>8, <3>2, GoingKept
  <2>2. CASE runner \in D["rt"]
    <3>1. Control'
      BY <1>6, <1>7, <1>d DEF IInv, Control, Going
    <3>2. owed = {}
      BY <1>d, <2>2 DEF IInv, History, Owing
    <3>3. History'
      BY <3>2 DEF History, Going
    <3> QED
      BY <1>7, <1>8, <3>1, <3>3 DEF IInv
  <2> QED
    BY <2>1, <2>2
<1>10. Shows(q, z, D) /\ Shows(q', z', D)
  BY <1>2, <1>3, <1>6, QueueIs
<1>11. q'.on = q.on
  BY <1>10 DEF Shows
<1>12. q'.period = q.period
  BY <1>6, <1>10 DEF Shows
<1>13. q'.left = [t \in Id \ {0} |-> IF q.on[t] = "rt" /\ q.left[t] > 0
                    THEN (q.left[t] * s + z.speed \div 2) \div z.speed ELSE q.left[t]]
  <2> DEFINE a(t) == IF t \in All(D) THEN Left(z, t) ELSE 0
             b(t) == IF t \in All(D) THEN Left(z', t) ELSE 0
             c(t) == IF q.on[t] = "rt" /\ q.left[t] > 0
                    THEN (q.left[t] * s + z.speed \div 2) \div z.speed ELSE q.left[t]
  <2>1. q.left = [t \in Id \ {0} |-> a(t)] /\ q'.left = [t \in Id \ {0} |-> b(t)]
    BY <1>10 DEF Shows
  <2>2. ASSUME NEW t \in Id \ {0} PROVE b(t) = c(t)
    <3>1. q.left[t] = a(t) /\ (q.on[t] = "rt" <=> t \in D["rt"])
      BY <1>2, <1>10, OnIs DEF Shows, Lists
    <3>2. CASE t \in D["rt"]
      <4>1. t \in All(D)
        BY <3>2 DEF All
      <4>2. a(t) = Left(z, t) /\ b(t) = Left(z', t)
        BY <4>1
      <4> HIDE DEF a, b
      <4>3. b(t) = IF a(t) > 0 THEN (a(t) * s + z.speed \div 2) \div z.speed ELSE a(t)
        BY <1>6, <3>2, <4>2
      <4> QED
        BY <3>1, <3>2, <4>3
    <3>3. CASE t \notin D["rt"]
      <4>1. b(t) = a(t)
        BY <1>6, <3>3
      <4> HIDE DEF a, b
      <4> QED
        BY <3>1, <3>3, <4>1
    <3> QED
      BY <3>2, <3>3
  <2> HIDE DEF a, b
  <2>3. q'.left = [t \in Id \ {0} |-> c(t)]
    <3> HIDE DEF c
    <3> QED
      BY <2>1, <2>2
  <2> QED
    BY <2>3
<1>14. Queue!SetSpeed
  BY <1>6, <1>11, <1>12, <1>13 DEF Queue!SetSpeed
<1> QED
  BY <1>9, <1>14 DEF Kept, Queue!Next

LEMMA PortGoes ==
    ASSUME IInv, Port
    PROVE  Going /\ pc = "step" /\ pc' = "exec" /\ Weaker(pc, pc') /\ UNCHANGED fired
BY DEF IInv, Control, Port, Going, Stages, Weaker

LEMMA PortSetsKept == ASSUME IInv, PortSets PROVE Kept
<1>1. PICK u \in Usage : Set(u)
  BY DEF PortSets
<1>2. Going /\ Weaker(pc, pc') /\ UNCHANGED fired
  BY PortGoes DEF PortSets
<1>3. SetDone
  BY <1>1, <1>2, SetKept
<1> QED
  BY <1>2, <1>3 DEF SetDone, Kept, Queue!Next

LEMMA PortSetsPeriodKept == ASSUME IInv, PortSetsPeriod PROVE Kept
<1>1. PICK u \in Usage : SetPeriod(u)
  BY DEF PortSetsPeriod
<1>2. Going /\ Weaker(pc, pc') /\ UNCHANGED fired
  BY PortGoes DEF PortSetsPeriod
<1>3. PeriodDone
  BY <1>1, <1>2, SetPeriodKept
<1> QED
  BY <1>2, <1>3 DEF PeriodDone, Kept, Queue!Next, Queue!vars

LEMMA PortSetsSpeedKept == ASSUME IInv, PortSetsSpeed PROVE Kept
<1>1. PICK s \in Speeds : Becomes(Rescale(z, s))
  BY DEF PortSetsSpeed
<1>2. Going /\ pc = "step" /\ pc' = "exec" /\ UNCHANGED fired
  BY PortGoes DEF PortSetsSpeed
<1> QED
  BY <1>1, <1>2, SetSpeedKept

\* The array stays as it is.
LEMMA SameRuns ==
    ASSUME IInv, Same, Weaker(pc, pc'), pc # "idle", pc' # "idle"
    PROVE  Runs(z, z', runner) /\ Structure' /\ Timed(z', In(z'), pc') /\ UNCHANGED Queue!queue
<1>1. z' = z /\ q' = q
  BY DEF Same
<1>2. Runs(z, z', runner)
  BY <1>1 DEF Runs
<1>3. Structure'
  BY <1>1 DEF IInv, Structure
<1>4. Timed(z', In(z'), pc')
  <2> DEFINE D == In(z)
  <2>1. Threaded(z, D) /\ Timed(z, D, pc) /\ In(z') = D
    BY <1>1 DEF IInv, Structure
  <2> HIDE DEF D
  <2>2. Timed(z, D, pc')
    BY <2>1, TimedWeaker
  <2> QED
    BY <1>1, <2>1, <2>2
<1>5. UNCHANGED Queue!queue
  BY <1>1 DEF Queue!queue
<1> QED
  BY <1>2, <1>3, <1>4, <1>5

LEMMA CallbackKept == ASSUME IInv, Callback PROVE Kept
<1>1. /\ fired # 0 /\ fired' = 0 /\ pc \in {"cpu", "rt"} /\ pc' = pc /\ fired \in Id
      /\ runner' = runner /\ owed' = owed /\ second' = second /\ Weaker(pc, pc')
  BY DEF IInv, Control, Callback, Weaker
<1>2. Queue!Return
  <2>1. {fired} \ {0} # {} /\ {fired'} \ {0} = {}
    BY <1>1
  <2> QED
    BY <2>1 DEF Queue!Return
<1>3. Going
  <2>1. stopping' \in BOOLEAN /\ (fired = runner => stopping') /\ (~stopping' => ~stopping)
    BY DEF IInv, Control, Callback
  <2> QED
    BY <1>1, <2>1, Sizes DEF Going, IInv, Control, Stages
<1>4. CASE Same
  <2>1. Runs(z, z', runner) /\ Structure' /\ Timed(z', In(z'), pc') /\ UNCHANGED Queue!queue
    BY <1>1, <1>4, SameRuns
  <2>2. IInv'
    BY <1>3, <2>1, GoingKept
  <2> QED
    BY <1>2, <2>1, <2>2 DEF Kept, Queue!Next
<1>5. ASSUME NEW u \in Usage, Set(u) PROVE Kept
  <2>1. SetDone
    BY <1>1, <1>3, <1>5, SetKept
  <2> QED
    BY <1>2, <2>1 DEF SetDone, Kept, Queue!Next
<1>6. ASSUME NEW u \in Usage, SetPeriod(u) PROVE Kept
  <2>1. PeriodDone
    BY <1>1, <1>3, <1>6, SetPeriodKept
  <2> QED
    BY <1>2, <2>1 DEF PeriodDone, Kept, Queue!Next
<1> QED
  BY <1>4, <1>5, <1>6 DEF Callback, Handler

LEMMA NoneOverdueGoes ==
    ASSUME IInv, NEW l \in Lists, NoneOverdue(l)
    PROVE  Going /\ Same /\ UNCHANGED fired
BY Sizes DEF IInv, Control, NoneOverdue, Going, Stages, Lists

\* What check_timers() finds at the head of a list, when nothing is later than the last
\* instruction took.
Head(y, D, l, t, m) ==
    /\ t = y[l] /\ t \in D[l] /\ t \in Id \ {0} /\ m = Left(y, t) /\ m \in Int
    /\ \A u \in D[l] : m <= Left(y, u)
    /\ Minus(y.clock, y.count[t]) < Late <=> m <= 0
    /\ m <= 0 => 0 - m \in 0..Over /\ Minus(y.clock, y.count[t]) = 0 - m

LEMMA HeadIs ==
    ASSUME NEW y, NEW D, Threaded(y, D), NEW at, Timed(y, D, at), NEW l \in Lists,
           NEW t, t = y[l], t # 0, NEW m, m = Left(y, t)
    PROVE  Head(y, D, l, t, m)
<1> DEFINE S == D[l]
<1>1. y \in Arrays /\ Linked(y, t, S)
  BY DEF Threaded
<1> HIDE DEF S
<1>2. t \in S /\ S \subseteq Id \ {0} /\ \A u \in S : m <= Left(y, u)
  BY <1>1, LinkedFacts
<1>3. t \in Id /\ m \in Int /\ -Late <= m /\ m < Wrap - Late /\ DueIn(y, t, m)
  <2>1. t \in Id /\ m \in Int /\ -Late <= m /\ m < Wrap - Late
    BY <1>1, <1>2, LeftTyped, Sizes
  <2> QED
    BY <1>1, <2>1, LeftIs
<1>4. m >= -Over
  BY <1>2 DEF Timed, All, Lists, S
<1>5. -Wrap < m /\ m < Wrap
  BY <1>3, Sizes
<1>6. Minus(y.clock, y.count[t]) = IF m <= 0 THEN 0 - m ELSE Wrap - m
  BY <1>1, <1>3, <1>5, DueDifferences
<1>7. Minus(y.clock, y.count[t]) < Late <=> m <= 0
  BY <1>3, <1>4, <1>6, OverMax, Sizes
<1>8. m <= 0 => 0 - m \in 0..Over /\ Minus(y.clock, y.count[t]) = 0 - m
  BY <1>3, <1>4, <1>6, OverMax
<1> QED
  BY <1>2, <1>3, <1>7, <1>8 DEF Head, S

LEMMA NoneOverdueLeft ==
    ASSUME IInv, NEW l \in Lists, ~Overdue(l)
    PROVE  \A u \in In(z)[l] : Left(z, u) > 0
<1> DEFINE D == In(z)
<1>1. Threaded(z, D) /\ Timed(z, D, pc)
  BY DEF IInv, Structure
<1> HIDE DEF D
<1>2. PICK t : t = z[l]
  OBVIOUS
<1>3. CASE t = 0
  <2> DEFINE S == D[l]
  <2>1. z \in Arrays /\ Linked(z, t, S)
    BY <1>1, <1>2 DEF Threaded
  <2> HIDE DEF S
  <2>2. S = {}
    BY <1>3, <2>1, LinkedFacts
  <2> QED
    BY <2>2 DEF S, D
<1>4. CASE t # 0
  <2>1. PICK m : m = Left(z, t)
    OBVIOUS
  <2>2. Head(z, D, l, t, m)
    BY <1>1, <1>2, <1>4, <2>1, HeadIs
  <2>3. m \in Int /\ m > 0 /\ \A u \in D[l] : m <= Left(z, u)
    BY <1>2, <1>4, <2>2 DEF Head, Overdue
  <2>4. \A u \in D[l] : Left(z, u) \in Int
    <3>1. z \in Arrays /\ D[l] \subseteq Id
      BY <1>1 DEF Threaded
    <3> QED
      BY <3>1, LeftTyped
  <2>5. \A u \in D[l] : Left(z, u) > 0
    BY <2>3, <2>4
  <2> QED
    BY <2>5 DEF D
<1> QED
  BY <1>3, <1>4

LEMMA NoneOverdueKept == ASSUME IInv, NEW l \in Lists, NoneOverdue(l) PROVE Kept
<1>1. Going /\ Same /\ UNCHANGED fired /\ pc # "idle" /\ pc' # "idle"
  BY NoneOverdueGoes DEF Going
<1>2. \A u \in In(z)[l] : Left(z, u) > 0
  BY NoneOverdueLeft DEF NoneOverdue
<1>3. z' = z /\ q' = q
  BY <1>1 DEF Same
<1>4. Runs(z, z', runner) /\ Structure'
  BY <1>1, <1>3 DEF Runs, IInv, Structure
<1>5. Timed(z', In(z'), pc')
  <2> DEFINE D == In(z)
  <2>1. Timed(z, D, pc) /\ In(z') = D /\ \A u \in D[l] : Left(z, u) > 0
    BY <1>2, <1>3 DEF IInv
  <2> HIDE DEF D
  <2>2. Timed(z, D, pc')
    <3>1. CASE l = "cpu"
      <4>1. pc = "cpu" /\ pc' = "rt"
        BY <3>1 DEF NoneOverdue
      <4> QED
        BY <2>1, <3>1, <4>1 DEF Timed
    <3>2. CASE l = "rt"
      <4>1. pc = "rt" /\ pc' \in {"next", "checked"}
        BY <3>2 DEF NoneOverdue
      <4>2. \A u \in D["rt"] : Left(z, u) >= 0
        <5>1. z \in Arrays /\ D["rt"] \subseteq Id
          BY DEF IInv, Structure, Threaded, D, Lists
        <5>2. \A u \in D["rt"] : Left(z, u) \in Int
          BY <5>1, LeftTyped
        <5> QED
          BY <2>1, <3>2, <5>2
      <4> QED
        BY <2>1, <3>2, <4>1, <4>2 DEF Timed
    <3> QED
      BY <3>1, <3>2 DEF Lists
  <2> QED
    BY <1>3, <2>1, <2>2
<1>6. IInv'
  BY <1>1, <1>4, <1>5, GoingKept
<1> QED
  BY <1>1, <1>3, <1>6 DEF Kept, Queue!vars, Queue!queue

LEMMA LoopKept == ASSUME IInv, Loop PROVE Kept
<1>1. Going /\ Same /\ UNCHANGED fired /\ pc # "idle" /\ pc' # "idle" /\ Weaker(pc, pc')
  BY DEF IInv, Control, Loop, Going, Stages, Weaker
<1>2. Runs(z, z', runner) /\ Structure' /\ Timed(z', In(z'), pc') /\ UNCHANGED Queue!queue
  BY <1>1, SameRuns
<1>3. IInv'
  BY <1>1, <1>2, GoingKept
<1> QED
  BY <1>1, <1>2, <1>3 DEF Kept, Queue!vars

-----------------------------------------------------------------------------
(* Steps at which clocks pass.                                             *)

LEMMA PassKept ==
    ASSUME IInv, NEW n \in Nat, Pass(n), pc \in {"step", "exec", "checked"}, pc' = "cpu",
           stopping' \in BOOLEAN, second' \in BOOLEAN, ~stopping' => ~stopping,
           UNCHANGED <<runner, fired>>, pc = "exec" => n > 0, n <= Wrap,
           n <= Over \/ \A t \in All(In(z)) : n <= Left(z, t),
           pc = "checked" => second' /\ (n <= Over \/ ~stopping)
    PROVE  Kept
<1> DEFINE D == In(z)
<1>1. Threaded(z, D) /\ Structure /\ Timed(z, D, pc) /\ fired = 0 /\ fired' = 0
  BY DEF IInv, Structure, Control
<1>2. z' = [z EXCEPT !.clock = (@ + n) % Wrap] /\ q' = QueueOf(z') /\ q = QueueOf(z)
  BY <1>1 DEF Pass, Becomes, Structure
<1>d. D = In(z)
  OBVIOUS
<1>l. n <= Over \/ \A t \in All(D) : n <= Left(z, t)
  OBVIOUS
<1> HIDE DEF D
<1>3. \A t \in All(D) : Left(z, t) \in Int /\ Left(z, t) >= 0
  <2>1. z \in Arrays /\ All(D) \subseteq Id
    BY <1>1 DEF Threaded, All, Lists
  <2>2. \A t \in All(D) : Left(z, t) \in Int
    BY <2>1, LeftTyped
  <2>3. /\ \A t \in D["cpu"] : Left(z, t) > 0
        /\ \A t \in D["rt"] : Left(z, t) >= 0
    BY <1>1 DEF Timed
  <2>4. \A t \in All(D) : Left(z, t) > 0 \/ Left(z, t) >= 0
    BY <2>3 DEF All
  <2> QED
    BY <2>2, <2>4
<1>4. \A t \in All(D) : Left(z, t) - n >= -Over
  <2> SUFFICES ASSUME NEW t \in All(D) PROVE Left(z, t) - n >= -Over
    OBVIOUS
  <2> DEFINE m == Left(z, t)
  <2>1. m \in Int /\ m >= 0 /\ (n <= Over \/ n <= m)
    BY <1>3, <1>l
  <2> HIDE DEF m
  <2>2. m - n >= -Over
    BY <2>1, OverMax
  <2> QED
    BY <2>2 DEF m
<1>5. \A t \in All(D) : Left(z, t) - n >= -Late
  <2> SUFFICES ASSUME NEW t \in All(D) PROVE Left(z, t) - n >= -Late
    OBVIOUS
  <2> DEFINE m == Left(z, t) - n
  <2>1. m \in Int /\ m >= -Over
    BY <1>3, <1>4
  <2> HIDE DEF m
  <2>2. m >= -Late
    BY <2>1, OverMax, Sizes
  <2> QED
    BY <2>2 DEF m
<1>6. Passed(z, z', D, n)
  BY <1>1, <1>2, <1>5, PassedAt
<1>7. /\ Threaded(z', D) /\ SameLinks(z, z') /\ z'.clock = (z.clock + n) % Wrap
      /\ z'.speed = z.speed /\ z'.count = z.count /\ z'.period = z.period
      /\ \A t \in All(D) : Left(z', t) = Left(z, t) - n
  BY <1>6 DEF Passed
<1>8. Structure' /\ In(z') = D /\ z'.used = z.used
  <2>1. pc' = "idle" => pc = "idle"
    OBVIOUS
  <2> QED
    BY <1>d, <1>1, <1>2, <1>7, <2>1, SameThreads
<1>9. Timed(z', In(z'), pc')
  <2>1. n > 0 \/ pc # "exec"
    OBVIOUS
  <2>2. Timed(z', D, "cpu")
    BY <1>1, <1>4, <1>6, <2>1, TimedPassed
  <2> QED
    BY <1>8, <2>2
<1>10. Control'
  BY <1>1, <1>7, <1>8, <1>d DEF IInv, Control, Stages
<1>11. History'
  <2> SUFFICES ASSUME owed' # {}
               PROVE  \E r \in Int : owed' = {r} /\ Owing(z', In(z'), pc', second', runner', r)
    BY DEF History
  <2>1. owed' = {k - n : k \in owed}
    BY DEF Pass
  <2>2. owed # {}
    BY <2>1
  <2>3. PICK m \in Int : owed = {m} /\ Owing(z, D, pc, second, runner, m)
    BY <2>2, <1>d DEF IInv, History
  <2>4. PICK r : r = m - n
    OBVIOUS
  <2>5. owed' = {r} /\ r \in Int
    BY <2>1, <2>3, <2>4
  <2>6. runner \in Id /\ (~stopping => runner \in All(D)) /\ (pc # "checked" => ~stopping)
    <3>1. runner # 0 /\ runner \in Id /\ fired # runner
      BY <1>1 DEF IInv, Control
    <3> QED
      BY <1>1, <1>d, <3>1 DEF IInv, Control
  <2>7. runner \in D["cpu"] => m - n >= -Over /\ (n <= Over \/ n <= m)
    <3> SUFFICES ASSUME runner \in D["cpu"]
                 PROVE  m - n >= -Over /\ (n <= Over \/ n <= m)
      OBVIOUS
    <3>1. Left(z, runner) = m /\ runner \in All(D)
      BY <1>1, <2>3, <2>6, OwingLeft DEF All
    <3> QED
      BY <1>4, <1>l, <3>1
  <2>8. runner \notin D["cpu"] => pc = "checked" /\ ~second /\ second' /\ n <= Over
    <3>1. runner \notin D["rt"]
      BY <2>3 DEF Owing
    <3>2. runner \notin D["cpu"] => stopping
      BY <2>6, <3>1 DEF All
    <3>3. pc = "checked" => ~second
      BY DEF IInv, Control
    <3> QED
      BY <2>6, <3>2, <3>3
  <2>9. Owing(z', D, "cpu", second', runner, r)
    <3>1. PICK y, Y, at, sec, sec2, run :
            y = z /\ Y = z' /\ at = pc /\ sec = second /\ sec2 = second' /\ run = runner
      OBVIOUS
    <3>2. /\ Threaded(y, D) /\ at \in {"step", "exec", "checked"} /\ Timed(y, D, at)
          /\ run \in Id /\ Owing(y, D, at, sec, run, m) /\ Passed(y, Y, D, n)
      BY <1>1, <1>6, <2>3, <2>6, <3>1
    <3>3. /\ run \in D["cpu"] => m - n >= -Over /\ (n <= Over \/ n <= m)
          /\ run \notin D["cpu"] => at = "checked" /\ ~sec /\ sec2 /\ n <= Over
      BY <2>7, <2>8, <3>1
    <3>4. Owing(Y, D, "cpu", sec2, run, r)
      BY <2>4, <3>2, <3>3, OwingPassed
    <3> QED
      BY <3>1, <3>4
  <2> QED
    BY <1>8, <2>5, <2>9
<1>12. Shows(q, z, D) /\ Shows(q', z', D)
  BY <1>1, <1>2, <1>7, QueueIs
<1>13. q'.on = q.on /\ q'.period = q.period
  BY <1>7, <1>12 DEF Shows
<1>14. \A t \in Id \ {0} : q.left[t] >= 0
  <2> SUFFICES ASSUME NEW t \in Id \ {0} PROVE q.left[t] >= 0
    OBVIOUS
  <2>1. q.left[t] = IF t \in All(D) THEN Left(z, t) ELSE 0
    BY <1>12 DEF Shows
  <2> QED
    BY <1>3, <2>1
<1>15. \A t \in Id \ {0} : q.on[t] # "off" <=> t \in All(D)
  BY <1>1, <1>12, OnIs DEF Shows
<1>16. q'.left = [t \in Id \ {0} |-> IF q.on[t] = "off" THEN 0 ELSE q.left[t] - n]
  <2> DEFINE a(t) == IF t \in All(D) THEN Left(z, t) ELSE 0
             b(t) == IF t \in All(D) THEN Left(z', t) ELSE 0
             c(t) == IF q.on[t] = "off" THEN 0 ELSE q.left[t] - n
  <2>1. q.left = [t \in Id \ {0} |-> a(t)] /\ q'.left = [t \in Id \ {0} |-> b(t)]
    BY <1>12 DEF Shows
  <2>2. \A t \in Id \ {0} : b(t) = c(t)
    BY <1>7, <1>15, <2>1
  <2>3. q'.left = [t \in Id \ {0} |-> c(t)]
    <3> HIDE DEF a, b, c
    <3> QED
      BY <2>1, <2>2
  <2> QED
    BY <2>3
<1>17. n <= Over \/ \A t \in Id \ {0} : q.on[t] # "off" => n <= q.left[t]
  <2>1. \A t \in Id \ {0} : t \in All(D) => q.left[t] = Left(z, t)
    BY <1>12 DEF Shows
  <2> QED
    BY <1>15, <1>l, <2>1
<1>18. Queue!Elapse
  <2>1. {fired} \ {0} = {} /\ {fired'} \ {0} = {} /\ n \in 0..Wrap
    BY <1>1, Sizes
  <2> QED
    BY <1>7, <1>13, <1>14, <1>16, <1>17, <2>1 DEF Queue!Elapse, Over
<1> QED
  BY <1>8, <1>9, <1>10, <1>11, <1>18 DEF Kept, IInv, Queue!Next

LEMMA ExecuteKept == ASSUME IInv, Execute PROVE Kept
<1>1. PICK n \in Cycles : Pass(n)
  BY DEF Execute
<1>2. n \in Nat /\ n >= 1 /\ n <= Over /\ n <= Wrap
  BY OverMax, Sizes
<1>3. /\ pc \in {"step", "exec", "checked"} /\ pc' = "cpu" /\ stopping' \in BOOLEAN
      /\ second' \in BOOLEAN /\ (~stopping' => ~stopping) /\ UNCHANGED <<runner, fired>>
      /\ pc # "checked"
  BY DEF IInv, Control, Execute
<1> QED
  BY <1>1, <1>2, <1>3, PassKept

LEMMA InterruptKept == ASSUME IInv, Interrupt PROVE Kept
<1>1. PICK n \in Cycles : Pass(n)
  BY DEF Interrupt
<1>2. n \in Nat /\ n >= 1 /\ n <= Over /\ n <= Wrap
  BY OverMax, Sizes
<1>3. /\ pc \in {"step", "exec", "checked"} /\ pc' = "cpu" /\ stopping' \in BOOLEAN
      /\ second' \in BOOLEAN /\ (~stopping' => ~stopping) /\ UNCHANGED <<runner, fired>>
      /\ second'
  BY DEF IInv, Control, Interrupt
<1> QED
  BY <1>1, <1>2, <1>3, PassKept

\* The first event of the lists.
LEMMA RestIs ==
    ASSUME NEW y, NEW D, Threaded(y, D), \A u \in All(D) : Left(y, u) > 0,
           NEW l \in Lists, NEW t, t = y[l], t # 0
    PROVE  /\ Minus(y.count[t], y.clock) \in Nat /\ Minus(y.count[t], y.clock) < Wrap
           /\ \A u \in D[l] : Minus(y.count[t], y.clock) <= Left(y, u)
<1> DEFINE S == D[l]
           m == Left(y, t)
<1>1. y \in Arrays /\ Linked(y, t, S)
  BY DEF Threaded
<1> HIDE DEF S
<1>2. t \in S /\ S \subseteq Id \ {0} /\ \A u \in S : m <= Left(y, u)
  BY <1>1, LinkedFacts
<1>3. t \in Id /\ t \in All(D)
  BY <1>2 DEF All, Lists, S
<1>4. m \in Int /\ -Late <= m /\ m < Wrap - Late /\ m > 0
  BY <1>1, <1>3, LeftTyped, Sizes
<1> HIDE DEF m
<1>5. DueIn(y, t, m)
  BY <1>1, <1>3, <1>4, LeftIs DEF m
<1>6. -Wrap < m /\ m < Wrap /\ m >= 0 /\ m \in Nat
  BY <1>4, Sizes
<1>7. Minus(y.count[t], y.clock) = m
  BY <1>1, <1>3, <1>5, <1>6, DueDifferences
<1> QED
  BY <1>2, <1>6, <1>7 DEF S

LEMMA SleepKept == ASSUME IInv, Sleep PROVE Kept
<1> DEFINE D == In(z)
           rest == {Minus(z.count[z[l]], z.clock) : l \in {k \in Lists : z[k] # 0}}
           First(x) == x \in rest /\ \A m \in rest : x <= m
<1>1. /\ Threaded(z, D) /\ Timed(z, D, pc) /\ pc = "checked" /\ ~stopping /\ pc' = "cpu"
      /\ runner \in All(D) /\ second' = TRUE /\ UNCHANGED <<stopping, runner, fired>>
      /\ stopping \in BOOLEAN
  BY DEF IInv, Structure, Control, Sleep
<1> HIDE DEF D
<1>2. \A u \in All(D) : Left(z, u) > 0
  BY <1>1 DEF Timed, All
<1>3. \A l \in Lists : z[l] # 0 => /\ Minus(z.count[z[l]], z.clock) \in Nat
                                   /\ Minus(z.count[z[l]], z.clock) < Wrap
                                   /\ \A u \in D[l] : Minus(z.count[z[l]], z.clock) <= Left(z, u)
  BY <1>1, <1>2, RestIs
<1>4. rest \in SUBSET Nat /\ \A x \in rest : x < Wrap
  BY <1>3
<1>5. \A l \in Lists : z[l] = 0 => D[l] = {}
  <2> SUFFICES ASSUME NEW l \in Lists, z[l] = 0 PROVE D[l] = {}
    OBVIOUS
  <2> DEFINE S == D[l]
             h == z[l]
  <2>1. z \in Arrays /\ Linked(z, h, S) /\ h = 0
    BY <1>1 DEF Threaded
  <2> HIDE DEF S, h
  <2>2. S = {}
    BY <2>1, LinkedFacts
  <2> QED
    BY <2>2 DEF S
<1>6. rest # {}
  <2>1. PICK l \in Lists : runner \in D[l]
    BY <1>1 DEF All, Lists
  <2>2. z[l] # 0
    BY <1>5, <2>1
  <2> QED
    BY <2>2
<1>7. PICK first : first = CHOOSE x \in rest : \A m \in rest : x <= m
  OBVIOUS
<1>8. Pass(first - (first % Halt))
  BY <1>7 DEF Sleep
<1>9. \A l \in Lists : \A u \in D[l] : \E x \in rest : x <= Left(z, u)
  BY <1>3, <1>5
<1> HIDE DEF rest
<1>10. first \in rest /\ \A m \in rest : first <= m
  BY <1>4, <1>6, <1>7, Least
<1>11. first \in Nat /\ first < Wrap
  BY <1>4, <1>10
<1>12. PICK n : n = first - (first % Halt)
  OBVIOUS
<1>13. n \in Nat /\ n <= first /\ n <= Wrap
  <2>1. first % Halt \in 0..first
    <3>1. first % Halt \in Nat /\ first % Halt <= first
      BY <1>11, Sizes
    <3> QED
      BY <1>11, <3>1
  <2> QED
    BY <1>11, <1>12, <2>1, Sizes
<1>14. \A t \in All(D) : n <= Left(z, t)
  <2> SUFFICES ASSUME NEW l \in Lists, NEW t \in D[l] PROVE n <= Left(z, t)
    BY DEF All, Lists
  <2>1. PICK x \in rest : x <= Left(z, t)
    BY <1>9
  <2>2. first <= x /\ x \in Nat
    BY <1>4, <1>10
  <2>3. Left(z, t) \in Int
    <3>1. z \in Arrays /\ t \in Id
      BY <1>1 DEF Threaded
    <3> QED
      BY <3>1, LeftTyped
  <2> DEFINE m == Left(z, t)
  <2>4. x <= m /\ m \in Int
    BY <2>1, <2>3
  <2> HIDE DEF m
  <2>5. n <= m
    BY <1>11, <1>13, <2>2, <2>4
  <2> QED
    BY <2>5 DEF m
<1>15. Pass(n)
  BY <1>8, <1>12
<1> QED
  BY <1>1, <1>13, <1>14, <1>15, PassKept DEF D

-----------------------------------------------------------------------------
(* A timer fires.                                                          *)

\* A timer that is not periodic keeps its count and period when it is unset.
LEMMA StopKeeps ==
    ASSUME NEW y, NEW D, Threaded(y, D), NEW t \in y.used, NEW l, NEW p, NEW extra,
           NEW Y, Y = SetTimer(Unset(y, t), t, 0, p, l, extra)
    PROVE  Y.count = y.count /\ Y.period = y.period
<1> DEFINE y1 == Unset(y, t)
<1>1. Moved(y, y1, D, t, "off") /\ Y = SetTimer(y1, t, 0, p, l, extra)
  BY UnsetAt
<1> HIDE DEF y1
<1>2. y1.count = y.count /\ y1.period = y.period /\ y1 \in Arrays
  BY <1>1 DEF Moved, Threaded
<1>3. Y = [y1 EXCEPT !.prev[t] = 0, !.next[t] = 0]
  BY <1>1 DEF SetTimer
<1> QED
  BY <1>2, <1>3 DEF Arrays

\* A period, less the clocks a timer is late.
LEMMA PeriodFits ==
    ASSUME NEW y \in Arrays, NEW l \in Lists, NEW p \in Periods, NEW late \in 0..Over,
           NEW n, n = Clks(y, l, p) - late
    PROVE  /\ p \in Nat /\ Clks(y, l, p) \in Int /\ n \in Int
           /\ p # 0 => n >= -Over /\ -Late <= n /\ n < Wrap - Late
           /\ p # 0 /\ l = "rt" => RtBound(n, y.speed, 0)
<1>1. p \in Nat
  BY PeriodsNat
<1>2. CASE p # 0
  <2>1. p \in Times(l)
    BY <1>2, UsageFacts
  <2> QED
    BY <1>1, <2>1, ClksFit
<1>3. CASE p = 0
  <2> DEFINE x == y.speed * p
  <2>1. x \in Int
    <3>1. y.speed \in Nat
      BY SpeedsNat DEF Arrays
    <3> QED
      BY <3>1, <1>1
  <2> HIDE DEF x
  <2>2. (x + Kilo \div 2) \div Kilo \in Int
    BY <2>1, Sizes
  <2>3. Clks(y, l, p) \in Int
    BY <1>1, <2>2 DEF Clks, x
  <2> QED
    BY <1>1, <1>3, <2>3, OverMax
<1> QED
  BY <1>2, <1>3

\* What an overdue head of a list stands for.
Fires(l, t, m, p, late) ==
    /\ t = z[l] /\ t # 0 /\ t \in Id \ {0} /\ t \in In(z)[l] /\ t \in z.used
    /\ m = Left(z, t) /\ m \in Int /\ m <= 0 /\ \A u \in In(z)[l] : m <= Left(z, u)
    /\ p = z.period[t] /\ p \in Periods
    /\ late = 0 - m /\ late \in 0..Over
    /\ Becomes(SetTimer(Unset(z, t), t, p, p, l, late)) /\ fired' = t /\ fired = 0

LEMMA FiresIs ==
    ASSUME IInv, NEW l \in Lists, Fire(l)
    PROVE  \E t, m, p, late : Fires(l, t, m, p, late)
<1> DEFINE D == In(z)
<1>1. Threaded(z, D) /\ Timed(z, D, pc)
  BY DEF IInv, Structure
<1>2. PICK t, m, p, late : /\ t = z[l] /\ m = Left(z, t) /\ p = z.period[t]
                           /\ late = Minus(z.clock, z.count[t])
  OBVIOUS
<1>3. /\ t # 0 /\ late < Late /\ fired' = t /\ fired = 0
      /\ Becomes(SetTimer(Unset(z, t), t, p, p, l, late))
  BY <1>2 DEF Fire, Overdue
<1> HIDE DEF D
<1>4. Head(z, D, l, t, m)
  BY <1>1, <1>2, <1>3, HeadIs
<1>5. /\ t \in D[l] /\ t \in Id \ {0} /\ m \in Int /\ m <= 0 /\ \A u \in D[l] : m <= Left(z, u)
      /\ late = 0 - m /\ late \in 0..Over
  BY <1>2, <1>3, <1>4 DEF Head
<1>6. t \in z.used /\ p \in Periods
  <2>1. t \in All(D)
    BY <1>5 DEF All, Lists
  <2> QED
    BY <1>1, <1>2, <2>1 DEF Threaded, Timed
<1>7. Fires(l, t, m, p, late)
  BY <1>2, <1>3, <1>5, <1>6 DEF Fires, D
<1> QED
  BY <1>7

LEMMA FireKept == ASSUME IInv, NEW l \in Lists, Fire(l) PROVE Kept
<1> DEFINE D == In(z)
<1>1. /\ Threaded(z, D) /\ Structure /\ Timed(z, D, pc) /\ q = QueueOf(z)
      /\ pc = l /\ pc' = pc /\ UNCHANGED <<second, stopping, runner, owed>>
  BY DEF IInv, Structure, Fire
<1>2. PICK t, m, p, late : Fires(l, t, m, p, late)
  BY FiresIs
<1>3. /\ t \in Id \ {0} /\ t \in D[l] /\ t \in z.used /\ t # 0
      /\ m = Left(z, t) /\ m \in Int /\ m <= 0 /\ \A u \in D[l] : m <= Left(z, u)
      /\ p = z.period[t] /\ p \in Periods /\ late = 0 - m /\ late \in 0..Over
      /\ Becomes(SetTimer(Unset(z, t), t, p, p, l, late)) /\ fired' = t /\ fired = 0
  BY <1>2 DEF Fires
<1>d. D = In(z)
  OBVIOUS
<1> HIDE DEF D
<1>4. PICK n, to : n = Clks(z, l, p) - late /\ to = IF p = 0 THEN "off" ELSE l
  OBVIOUS
<1>5. PICK Y : Y = SetTimer(Unset(z, t), t, p, p, l, late)
  OBVIOUS
<1>6. z \in Arrays
  BY <1>1 DEF Threaded
<1>7. /\ p \in Nat /\ Clks(z, l, p) \in Int /\ n \in Int
      /\ (p # 0 => n >= -Over /\ -Late <= n /\ n < Wrap - Late)
      /\ (p # 0 /\ l = "rt" => RtBound(n, z.speed, 0))
  BY <1>3, <1>4, <1>6, PeriodFits
<1>8. Placed(z, Y, D, t, to, n, p)
  <2>1. late \in Int
    BY <1>3, OverMax
  <2> QED
    BY <1>1, <1>3, <1>4, <1>5, <1>7, <2>1, SetAgain
<1>9. to \in Lists \cup {"off"} /\ (to # "off" => to = l /\ p # 0) /\ (p = 0 => to = "off")
      /\ (p # 0 => to = l /\ l # "off")
  BY <1>4 DEF Lists
<1>10. Placing(t, to, n, p)
  <2>1. Becomes(Y)
    BY <1>3, <1>5
  <2>2. Placed(z, Y, In(z), t, to, n, p)
    BY <1>8, <1>d
  <2> QED
    BY <1>1, <1>3, <1>9, <2>1, <2>2, PlacedStep
<1>11. z'.used = z.used
  <2>1. Y.used = z.used
    BY <1>1, <1>3, <1>5, UsedKeptAgain
  <2> QED
    BY <1>3, <1>5, <2>1 DEF Becomes
<1>12. Structure'
  BY <1>1, <1>10, <1>11 DEF Structure, Placing
<1>13. Timed(z', In(z'), pc')
  <2>1. to # "off" => Enough(z, to, n, p, pc')
    BY <1>1, <1>3, <1>7, <1>9 DEF Enough
  <2>2. Placed(z, z', D, t, to, n, p) /\ In(z') = Put(D, t, to)
    BY <1>10, <1>d DEF Placing
  <2>3. Weaker(pc, pc')
    BY <1>1 DEF Weaker, Lists
  <2> QED
    BY <1>1, <1>3, <1>9, <2>1, <2>2, <2>3, TimedPlaced
<1>14. ASSUME t # runner PROVE IInv'
  <2>1. Runs(z, z', runner)
    BY <1>10, <1>11, <1>14, PlacingOther
  <2>2. Going
    BY <1>1, <1>3, <1>14, Sizes DEF IInv, Control, Going, Stages, Lists
  <2> QED
    BY <1>12, <1>13, <2>1, <2>2, GoingKept
<1>15. ASSUME t = runner PROVE IInv'
  <2>1. p = 0 /\ runner \in z.used /\ runner > Hardware /\ pc # "idle" /\ runner # 0
    BY <1>3, <1>15 DEF IInv, Control
  <2>2. to = "off"
    BY <1>9, <2>1
  <2>3. z'.count = z.count /\ z'.period = z.period /\ z'.clock = z.clock
    <3>1. Y = SetTimer(Unset(z, t), t, 0, p, l, late)
      BY <1>5, <2>1
    <3>2. Y.count = z.count /\ Y.period = z.period
      BY <1>1, <1>3, <3>1, StopKeeps
    <3> QED
      BY <1>3, <1>5, <1>10, <3>2 DEF Becomes, Placing, Placed
  <2>4. \A k \in Lists : runner \notin In(z')[k]
    BY <1>10, <1>15, <2>2 DEF Placing, Put, Lists
  <2>5. Control'
    BY <1>1, <1>3, <1>11, <1>15, <2>1, <2>3 DEF IInv, Control, Lists, Stages
  <2>6. History'
    <3> SUFFICES ASSUME owed # {}
                 PROVE  \E r \in Int : owed' = {r} /\ Owing(z', In(z'), pc', second', runner', r)
      BY <1>1 DEF History
    <3>1. PICK r \in Int : owed = {r} /\ Owing(z, D, pc, second, runner, r)
      BY <1>d DEF IInv, History
    <3>2. runner \in D["cpu"]
      <4>1. runner \notin D["rt"]
        BY <3>1 DEF Owing
      <4> QED
        BY <1>3, <1>15, <4>1 DEF Lists
    <3>3. PICK y, E, at, sec, run :
             y = z' /\ E = In(z') /\ at = pc /\ sec = second /\ run = runner
      OBVIOUS
    <3>4. /\ Owing(z, D, at, sec, run, r) /\ run \in D["cpu"] /\ \A k \in Lists : run \notin E[k]
          /\ y.clock = z.clock /\ y.count[run] = z.count[run]
      BY <2>3, <2>4, <3>1, <3>2, <3>3
    <3>5. Owing(y, E, at, sec, run, r)
      BY <3>4, OwingFired
    <3>6. Owing(z', In(z'), pc', second', runner', r)
      BY <1>1, <3>3, <3>5
    <3> QED
      BY <1>1, <3>1, <3>6
  <2> QED
    BY <1>12, <1>13, <2>5, <2>6 DEF IInv
<1>16. IInv'
  BY <1>14, <1>15
<1>17. Queue!Fire
  <2>1. Shows(q, z, D)
    BY <1>1, QueueIs
  <2>2. \A k \in Lists, u \in Id \ {0} : q.on[u] = k <=> u \in D[k]
    BY <1>1, <2>1, OnIs DEF Shows
  <2>3. \A u \in Id \ {0} : u \in All(D) => q.left[u] = Left(z, u) /\ q.period[u] = z.period[u]
    BY <2>1 DEF Shows
  <2>4. \A k \in Lists : D[k] \subseteq All(D)
    BY DEF All, Lists
  <2>5. q.on[t] = l /\ q.left[t] = m /\ q.period[t] = p
    BY <1>3, <2>2, <2>3, <2>4
  <2>6. \A u \in Id \ {0} : q.on[u] = l => m <= q.left[u]
    BY <1>3, <2>2, <2>3, <2>4
  <2>7. l = "rt" => \A u \in Id \ {0} : q.on[u] = "cpu" => ~(q.left[u] <= 0)
    <3> SUFFICES ASSUME l = "rt", NEW u \in Id \ {0}, q.on[u] = "cpu"
                 PROVE  ~(q.left[u] <= 0)
      OBVIOUS
    <3>1. u \in D["cpu"]
      BY <2>2 DEF Lists
    <3>2. Left(z, u) > 0 /\ q.left[u] = Left(z, u) /\ Left(z, u) \in Int
      BY <1>1, <1>6, <2>3, <2>4, <3>1, LeftTyped DEF Timed, Lists
    <3> QED
      BY <3>2
  <2>8. IF p = 0 THEN Queue!Put(t, "off", 0, 0)
                 ELSE Queue!Put(t, l, m + Queue!Clocks(l, p), p)
    <3>1. CASE p = 0
      BY <3>1, <1>9, <1>10 DEF Placing
    <3>2. CASE p # 0
      <4>1. Clks(z, l, p) = Queue!Clocks(l, p)
        BY DEF Clks, Queue!Clocks
      <4>2. n = m + Queue!Clocks(l, p)
        BY <1>3, <1>4, <1>7, <4>1
      <4>3. Queue!Put(t, l, n, p)
        BY <3>2, <1>9, <1>10 DEF Placing
      <4> QED
        BY <3>2, <4>2, <4>3
    <3> QED
      BY <3>1, <3>2
  <2>9. {fired} \ {0} = {} /\ {fired'} \ {0} = {t}
    BY <1>3
  <2>10. t \in Queue!Due(l)
    BY <1>3, <2>5 DEF Queue!Due
  <2>11. (l = "rt" => Queue!Due("cpu") = {}) /\ \A u \in Queue!Due(l) : q.left[t] <= q.left[u]
    BY <2>5, <2>6, <2>7 DEF Queue!Due
  <2>12. l \in {"cpu", "rt"}
    BY DEF Lists
  <2>13. IF q.period[t] = 0 THEN Queue!Put(t, "off", 0, 0)
         ELSE Queue!Put(t, l, q.left[t] + Queue!Clocks(l, q.period[t]), q.period[t])
    BY <2>5, <2>8
  <2> QED
    BY <2>9, <2>10, <2>11, <2>12, <2>13 DEF Queue!Fire
<1> QED
  BY <1>16, <1>17 DEF Kept, Queue!Next

-----------------------------------------------------------------------------
(* Timers of the run, of gray LCDs and of the audio filter.                *)

LEMMA UsedFinite ==
    ASSUME NEW y, NEW D, Threaded(y, D)
    PROVE  IsFiniteSet(y.used) /\ Cardinality(y.used) \in Nat
<1>1. y.used \subseteq 1..(y.size - 1) /\ y.size \in Nat
  BY Sizes DEF Threaded, Arrays
<1>2. IsFiniteSet(1..(y.size - 1))
  <2>1. 1 \in Int /\ y.size - 1 \in Int
    BY <1>1
  <2> QED
    BY <2>1, FS_Interval
<1>3. IsFiniteSet(y.used)
  BY <1>1, <1>2, FS_Subset
<1> QED
  BY <1>3, FS_CardinalityType

Adding(t, l, n, p) ==
    /\ Placing(t, l, n, p) /\ z'.used = z.used \cup {t}
    /\ t \in Id \ {0} /\ t \notin z.used /\ t > Hardware
    /\ Cardinality(z'.used) = Cardinality(z.used) + 1

LEMMA AddStep ==
    ASSUME Structure, Cardinality(z.used) < Hardware + Dynamic,
           NEW l \in Lists, NEW c \in Times(l), NEW p \in Periods, Becomes(Add(c, p, l)),
           NEW t, t = Alloc(z).t, NEW n, n = Clks(z, l, c),
           NEW to, to = IF c = 0 THEN "off" ELSE l
    PROVE  /\ Adding(t, to, n, p) /\ to \in Lists \cup {"off"}
           /\ n \in Nat /\ (c # 0 => n > 0) /\ (l = "rt" => RtBound(n, z.speed, 0))
<1> DEFINE D == In(z)
           zero == 0
<1>1. Threaded(z, D) /\ z \in Arrays
  BY DEF Structure, Threaded
<1> HIDE DEF D
<1>2. PICK a : a = Alloc(z)
  OBVIOUS
<1>3. PICK Y : Y = SetTimer([a.y EXCEPT !.used = @ \cup {t}], t, c, p, l, 0)
  OBVIOUS
<1>4. Becomes(Y)
  BY <1>2, <1>3 DEF Add, Becomes
<1>5. zero \in 0..Over /\ zero = 0 /\ c \in Nat /\ p \in Nat
  BY OverMax, TimesNat, PeriodsNat
<1>6. Clks(z, l, c) \in Nat
  <2>1. Clks(z, l, c) - zero = Clks(z, l, c) - zero
    OBVIOUS
  <2> HIDE DEF zero
  <2> QED
    BY <1>1, <1>5, <2>1, ClksFit
<1>7. n = Clks(z, l, c) - zero
  BY <1>5, <1>6
<1> HIDE DEF zero
<1>8. /\ n \in Int /\ -Late <= n /\ n < Wrap - Late /\ (l = "rt" => RtBound(n, z.speed, 0))
      /\ (c # 0 => n > 0) /\ n \in Nat
  BY <1>1, <1>5, <1>6, <1>7, ClksFit
<1>9. Added(z, Y, D, t, to, n, p)
  <2>1. t = a.t
    BY <1>2
  <2> QED
    BY <1>1, <1>2, <1>3, <1>5, <1>8, <2>1, AddedAt
<1>10. /\ Placed(z, Y, D, t, to, n, p) /\ Y.used = z.used \cup {t} /\ t \in Id \ {0}
       /\ t \notin z.used /\ t > Hardware
  BY <1>9 DEF Added
<1>11. to \in Lists \cup {"off"}
  OBVIOUS
<1>12. Placing(t, to, n, p)
  <2>1. Placed(z, Y, In(z), t, to, n, p)
    BY <1>10 DEF D
  <2> QED
    BY <1>4, <1>10, <1>11, <2>1, PlacedStep
<1>13. z'.used = z.used \cup {t}
  BY <1>4, <1>10 DEF Becomes
<1>14. Cardinality(z'.used) = Cardinality(z.used) + 1
  <2>1. IsFiniteSet(z.used)
    BY <1>1, UsedFinite
  <2> DEFINE S == z.used
  <2>2. Cardinality(S \cup {t}) = Cardinality(S) + 1
    <3> HIDE DEF S
    <3> QED
      BY <1>10, <2>1, FS_AddElement DEF S
  <2> QED
    BY <1>13, <2>2
<1> QED
  BY <1>8, <1>10, <1>11, <1>12, <1>13, <1>14 DEF Adding

\* The timer that is set starts in the queue, or stops when its count is 0.
LEMMA PlacingStarts ==
    ASSUME NEW t \in Id \ {0}, NEW l \in Lists, NEW c \in Counts \cup {0}, NEW p \in Periods,
           NEW n, n = Clks(z, l, c), NEW to, to = IF c = 0 THEN "off" ELSE l,
           Placing(t, to, n, p)
    PROVE  Queue!Start \/ Queue!Stop
<1>1. CASE c = 0
  <2>1. Queue!Put(t, "off", 0, 0)
    BY <1>1 DEF Placing
  <2> QED
    BY <2>1, QueueStops
<1>2. CASE c # 0
  <2>1. Queue!Put(t, l, n, p) /\ c \in Counts
    BY <1>2 DEF Placing, Lists
  <2>2. p \in Counts \cup {0}
    BY CountsFacts
  <2> QED
    BY <2>1, <2>2, QueueStarts
<1> QED
  BY <1>1, <1>2

\* What is left is kept when a timer is set to a count of a program.
LEMMA AddingTimed ==
    ASSUME IInv, NEW t, NEW l \in Lists \cup {"off"}, NEW n \in Nat, NEW p \in Periods,
           Adding(t, l, n, p), Weaker(pc, pc'), l # "off" => n > 0,
           l = "rt" => RtBound(n, z.speed, 0)
    PROVE  Timed(z', In(z'), pc')
<1> DEFINE D == In(z)
<1>1. Threaded(z, D) /\ Timed(z, D, pc)
  BY DEF IInv, Structure
<1>2. Placed(z, z', D, t, l, n, p) /\ In(z') = Put(D, t, l) /\ t \in Id \ {0}
  BY DEF Adding, Placing
<1> HIDE DEF D
<1>3. l # "off" => Enough(z, l, n, p, pc')
  BY OverMax DEF Enough
<1> QED
  BY <1>1, <1>2, <1>3, TimedPlaced

LEMMA AddTimerKept == ASSUME IInv, AddTimer PROVE Kept
<1>1. PICK u \in Usage : Becomes(Add(u.count, u.period, u.list))
  BY DEF AddTimer
<1>2. /\ pc = "idle" /\ Cardinality(z.used) < Hardware + Dynamic - 1
      /\ UNCHANGED <<pc, second, stopping, runner, fired, owed>> /\ Structure
  BY DEF AddTimer, Outside, IInv
<1> DEFINE c == u.count
           p == u.period
           l == u.list
<1>3. l \in Lists /\ c \in Times(l) /\ p \in Periods /\ c \in Counts \cup {0}
  BY UsageFacts, CountsFacts
<1>4. Becomes(Add(c, p, l))
  BY <1>1
<1> HIDE DEF c, p, l
<1>5. PICK t, n, to : t = Alloc(z).t /\ n = Clks(z, l, c) /\ to = IF c = 0 THEN "off" ELSE l
  OBVIOUS
<1>6. Cardinality(z.used) \in Nat
  BY <1>2, UsedFinite DEF Structure
<1>7. Cardinality(z.used) < Hardware + Dynamic
  BY <1>2, <1>6, Sizes
<1>8. /\ Adding(t, to, n, p) /\ to \in Lists \cup {"off"}
      /\ n \in Nat /\ (c # 0 => n > 0) /\ (l = "rt" => RtBound(n, z.speed, 0))
  BY <1>2, <1>3, <1>4, <1>5, <1>7, AddStep
<1>9. Placing(t, to, n, p) /\ t \in Id \ {0} /\ z'.used = z.used \cup {t}
      /\ Cardinality(z'.used) = Cardinality(z.used) + 1
  BY <1>8 DEF Adding
<1>10. Cardinality(z'.used) < Hardware + Dynamic
  BY <1>2, <1>6, <1>9, Sizes
<1>11. Structure'
  <2>1. Cardinality(z'.used) <= Hardware + Dynamic
    BY <1>6, <1>9, <1>10, Sizes
  <2> QED
    BY <1>9, <1>10, <2>1 DEF Structure, Placing
<1>12. Timed(z', In(z'), pc')
  <2>1. Weaker(pc, pc') /\ (to # "off" => n > 0) /\ (to = "rt" => RtBound(n, z.speed, 0))
    BY <1>2, <1>5, <1>8 DEF Weaker
  <2> QED
    BY <1>3, <1>8, <2>1, AddingTimed
<1>13. Control' /\ History' /\ fired' = 0 /\ fired = 0
  BY <1>2 DEF IInv, Control, History
<1>14. Queue!Start \/ Queue!Stop
  BY <1>3, <1>5, <1>9, PlacingStarts
<1> QED
  BY <1>11, <1>12, <1>13, <1>14 DEF Kept, IInv, Queue!Next

LEMMA RunKept == ASSUME IInv, Run PROVE Kept
<1>1. PICK s \in Slices : /\ Becomes(Add(s.count, 0, s.list))
                          /\ owed' = IF s.list = "cpu" THEN {s.count} ELSE {}
  BY DEF Run
<1>2. /\ pc = "idle" /\ pc' = "step" /\ runner' = Alloc(z).t /\ stopping' = FALSE
      /\ UNCHANGED <<second, fired>> /\ Structure /\ fired = 0 /\ second \in BOOLEAN
  BY DEF Run, IInv, Control
<1> DEFINE c == s.count
           l == s.list
<1>3. /\ l \in Lists /\ c \in Times(l) /\ 0 \in Periods /\ c \in Counts /\ c # 0 /\ c \in Nat
      /\ (l = "cpu" => 2 * c < Wrap)
  BY UsageFacts, CountsFacts
<1>4. Becomes(Add(c, 0, l)) /\ owed' = IF l = "cpu" THEN {c} ELSE {}
  BY <1>1
<1> HIDE DEF c, l
<1>5. PICK t, n, to, p : /\ t = Alloc(z).t /\ n = Clks(z, l, c)
                         /\ to = (IF c = 0 THEN "off" ELSE l) /\ p = 0
  OBVIOUS
<1>6. Cardinality(z.used) \in Nat /\ Cardinality(z.used) < Hardware + Dynamic
  BY <1>2, UsedFinite DEF Structure
<1>7. Becomes(Add(c, p, l)) /\ p \in Periods
  BY <1>3, <1>4, <1>5
<1>8. /\ Adding(t, to, n, p) /\ n \in Nat /\ (c # 0 => n > 0)
      /\ (l = "rt" => RtBound(n, z.speed, 0))
  BY <1>2, <1>3, <1>5, <1>6, <1>7, AddStep
<1>9. Placing(t, to, n, p) /\ t \in Id \ {0} /\ z'.used = z.used \cup {t} /\ t > Hardware
      /\ Cardinality(z'.used) = Cardinality(z.used) + 1
  BY <1>8 DEF Adding
<1>10. Cardinality(z'.used) <= Hardware + Dynamic
  BY <1>6, <1>9, Sizes
<1>11. Structure'
  BY <1>2, <1>9, <1>10 DEF Structure, Placing
<1>12. to = l /\ l # "off" /\ to \in Lists \cup {"off"} /\ to = IF c = 0 THEN "off" ELSE l
  BY <1>3, <1>5 DEF Lists
<1>13. Timed(z', In(z'), pc')
  <2>1. Weaker(pc, pc') /\ (to # "off" => n > 0) /\ (to = "rt" => RtBound(n, z.speed, 0))
    BY <1>2, <1>3, <1>8, <1>12 DEF Weaker
  <2> QED
    BY <1>7, <1>8, <1>12, <2>1, AddingTimed
<1>14. /\ z'.period[t] = 0 /\ Left(z', t) = n /\ t \in All(In(z')) /\ z'.clock = z.clock
       /\ In(z') = Put(In(z), t, l)
  <2>1. Placed(z, z', In(z), t, l, n, p) /\ In(z') = Put(In(z), t, l)
    BY <1>9, <1>12 DEF Placing
  <2>2. t \in All(Put(In(z), t, l))
    BY <1>3 DEF Put, All, Lists
  <2> QED
    BY <1>5, <1>12, <2>1, <2>2 DEF Placed
<1>15. runner' = t /\ runner' \in Id /\ runner' # 0 /\ runner' \in z'.used
  BY <1>2, <1>5, <1>9
<1>16. Control'
  BY <1>2, <1>9, <1>14, <1>15, Sizes DEF Control, Stages
<1>17. History'
  <2> SUFFICES ASSUME owed' # {}
               PROVE  \E r \in Int : owed' = {r} /\ Owing(z', In(z'), pc', second', runner', r)
    BY DEF History
  <2>1. l = "cpu" /\ owed' = {c}
    BY <1>4
  <2>2. n = c
    BY <1>5, <2>1 DEF Clks
  <2>3. n \in Int /\ -Late <= n /\ n < Wrap - Late /\ 2 * n < Wrap /\ n >= 1 - Over
    <3>1. c < Wrap - Late
      BY <1>3, <2>1, TimerAssumption DEF TimerAssumption
    <3> QED
      BY <1>3, <2>1, <2>2, <3>1, OverMax, Sizes
  <2>4. z' \in Arrays /\ t \in Id
    BY <1>9 DEF Placing, Threaded
  <2>5. DueIn(z', t, n)
    BY <1>14, <2>3, <2>4, LeftIs
  <2>6. t \notin In(z')["rt"] /\ t \in In(z')["cpu"]
    BY <1>14, <2>1 DEF Put, Lists
  <2>7. Owing(z', In(z'), pc', second', runner', n)
    BY <1>15, <2>3, <2>5, <2>6 DEF Owing
  <2> QED
    BY <2>1, <2>2, <2>3, <2>7
<1>18. Queue!Start \/ Queue!Stop
  <2>1. c \in Counts \cup {0}
    BY <1>3
  <2> QED
    BY <1>3, <1>5, <1>7, <1>9, <1>12, <2>1, PlacingStarts
<1> QED
  BY <1>2, <1>11, <1>13, <1>16, <1>17, <1>18 DEF Kept, IInv, Queue!Next

\* A timer is removed.
Removing(t) ==
    /\ Placing(t, "off", 0, 0) /\ z'.used = z.used \ {t}
    /\ Cardinality(z'.used) = Cardinality(z.used) - 1

LEMMA RemoveStep ==
    ASSUME IInv, Weaker(pc, pc'), NEW t \in z.used, t > Hardware, Becomes(Free(Unset(z, t), t))
    PROVE  /\ Removing(t) /\ Timed(z', In(z'), pc') /\ Queue!Stop
           /\ Threaded(z', In(z')) /\ q' = QueueOf(z')
<1> DEFINE D == In(z)
<1>1. Threaded(z, D) /\ Timed(z, D, pc) /\ Structure
  BY DEF IInv, Structure
<1>2. PICK Y : Y = Free(Unset(z, t), t)
  OBVIOUS
<1>3. Becomes(Y) /\ D = In(z)
  BY <1>2
<1> HIDE DEF D
<1>4. Removed(z, Y, D, t)
  BY <1>1, <1>2, RemovedAt
<1>5. t \in Id \ {0}
  BY <1>1, Ranges
<1>6. Placing(t, "off", 0, 0)
  <2>1. Placed(z, Y, In(z), t, "off", 0, 0)
    BY <1>3, <1>4 DEF Removed
  <2> QED
    BY <1>1, <1>3, <1>5, <2>1, PlacedStep
<1>7. z'.used = z.used \ {t}
  BY <1>3, <1>4 DEF Becomes, Removed
<1>8. Cardinality(z'.used) = Cardinality(z.used) - 1
  <2>1. IsFiniteSet(z.used)
    BY <1>1, UsedFinite
  <2> DEFINE S == z.used
  <2>2. Cardinality(S \ {t}) = Cardinality(S) - 1
    <3> HIDE DEF S
    <3>1. t \in S /\ IsFiniteSet(S)
      BY <2>1 DEF S
    <3> QED
      BY <3>1, FS_RemoveElement
  <2> QED
    BY <1>7, <2>2
<1>9. Timed(z', In(z'), pc')
  <2>1. Placed(z, z', D, t, "off", 0, 0) /\ In(z') = Put(D, t, "off")
    BY <1>3, <1>6 DEF Placing
  <2> QED
    BY <1>1, <1>5, <2>1, TimedPlaced
<1>10. Queue!Stop
  <2>1. Queue!Put(t, "off", 0, 0)
    BY <1>6 DEF Placing
  <2> QED
    BY <1>5, <2>1, QueueStops
<1> QED
  BY <1>6, <1>7, <1>8, <1>9, <1>10 DEF Removing, Placing

LEMMA RemoveTimerKept == ASSUME IInv, RemoveTimer PROVE Kept
<1>1. PICK t \in z.used : t > Hardware /\ Becomes(Free(Unset(z, t), t))
  BY DEF RemoveTimer
<1>2. /\ pc = "idle" /\ UNCHANGED <<pc, second, stopping, runner, fired, owed>> /\ Structure
      /\ Weaker(pc, pc')
  BY DEF RemoveTimer, Outside, IInv, Weaker
<1>3. /\ Removing(t) /\ Timed(z', In(z'), pc') /\ Queue!Stop
      /\ Threaded(z', In(z')) /\ q' = QueueOf(z')
  BY <1>1, <1>2, RemoveStep
<1>4. /\ Cardinality(z.used) \in Nat /\ Cardinality(z.used) < Hardware + Dynamic
      /\ Cardinality(z'.used) = Cardinality(z.used) - 1
  BY <1>2, <1>3, UsedFinite DEF Structure, Removing
<1>5. Cardinality(z'.used) < Hardware + Dynamic /\ Cardinality(z'.used) <= Hardware + Dynamic
  BY <1>4, Sizes
<1>6. Structure'
  BY <1>3, <1>5 DEF Structure
<1>7. Control' /\ History' /\ fired' = 0 /\ fired = 0
  BY <1>2 DEF IInv, Control, History
<1> QED
  BY <1>3, <1>6, <1>7 DEF Kept, IInv, Queue!Next

LEMMA FinishKept == ASSUME IInv, Finish PROVE Kept
<1>1. /\ pc = "done" /\ pc' = "idle" /\ runner \in z.used /\ runner > Hardware
      /\ Becomes(Free(Unset(z, runner), runner)) /\ runner' = 0 /\ owed' = {}
      /\ UNCHANGED <<second, stopping, fired>> /\ Structure /\ fired = 0 /\ Weaker(pc, pc')
  BY DEF Finish, IInv, Control, Weaker
<1>2. PICK t : t = runner
  OBVIOUS
<1>3. /\ Removing(t) /\ Timed(z', In(z'), pc') /\ Queue!Stop
      /\ Threaded(z', In(z')) /\ q' = QueueOf(z')
  <2>1. t \in z.used /\ t > Hardware /\ Becomes(Free(Unset(z, t), t))
    BY <1>1, <1>2
  <2> QED
    BY <1>1, <2>1, RemoveStep
<1>4. /\ Cardinality(z.used) \in Nat /\ Cardinality(z.used) <= Hardware + Dynamic
      /\ Cardinality(z'.used) = Cardinality(z.used) - 1
  BY <1>1, <1>3, UsedFinite DEF Structure, Removing
<1>5. Cardinality(z'.used) < Hardware + Dynamic /\ Cardinality(z'.used) <= Hardware + Dynamic
  BY <1>4, Sizes
<1>6. Structure'
  BY <1>3, <1>5 DEF Structure
<1>7. Control' /\ History'
  BY <1>1, Sizes DEF IInv, Control, History, Stages
<1> QED
  BY <1>1, <1>3, <1>6, <1>7 DEF Kept, IInv, Queue!Next

-----------------------------------------------------------------------------
(* The initial state.                                                      *)

\* A list of no timers.
LEMMA EmptyPath ==
    ASSUME NEW nx, NEW f, f = [i \in 0..1 |-> 0]
    PROVE  Path(nx, 0, f, 0) /\ Members(f, 0) = {}
<1>1. f \in [0..(0 + 1) -> Id]
  BY Sizes
<1>2. f[0] = 0 /\ f[0 + 1] = 0 /\ f[1] = 0 /\ 0 \in Nat
  OBVIOUS
<1>3. 1..0 = {}
  OBVIOUS
<1> QED
  BY <1>1, <1>2, <1>3 DEF Path, Members

LEMMA EmptyLinked ==
    ASSUME NEW y
    PROVE  Linked(y, 0, {})
<1>1. PICK f : f = [i \in 0..1 |-> 0]
  OBVIOUS
<1>2. Path(y.next, 0, f, 0) /\ Members(f, 0) = {}
  BY <1>1, EmptyPath
<1>3. Back(y.prev, f, 0) /\ Sorted(y, f, 0)
  BY DEF Back, Sorted
<1>4. Ordered(y, 0, {}, f, 0)
  BY <1>2, <1>3 DEF Ordered
<1> QED
  BY <1>4 DEF Linked

\* The array is empty but for the timers of the model and the system.
Reset(y) ==
    /\ y \in Arrays /\ y.used = 1..Hardware /\ y.size = Hardware + 1
    /\ y.free = 0 /\ y.cpu = 0 /\ y.rt = 0
    /\ \A i \in Id : y.next[i] = 0 /\ y.prev[i] = 0

LEMMA ResetThreaded ==
    ASSUME NEW y, Reset(y)
    PROVE  In(y) = [l \in Lists |-> {}] /\ Threaded(y, In(y)) /\ y.speed \in Speeds
<1> DEFINE D == [l \in Lists |-> {}]
<1>1. \A l \in Lists : y[l] = 0 /\ D[l] = {}
  BY DEF Reset, Lists
<1>2. /\ y \in Arrays /\ y.next[0] = 0 /\ y.prev[0] = 0 /\ D \in [Lists -> SUBSET Id]
      /\ y.used = 1..Hardware /\ y.size = Hardware + 1 /\ y.used \subseteq Id
      /\ \A i \in Id : y.next[i] = 0 /\ y.prev[i] = 0
  BY Sizes DEF Reset
<1>3. All(D) = {} /\ D["cpu"] \cap D["rt"] = {}
  BY DEF All, Lists
<1>4. \A l \in Lists : Linked(y, y[l], D[l])
  BY <1>1, EmptyLinked
<1>5. FreeChained(y)
  <2>1. PICK f : f = [i \in 0..1 |-> 0]
    OBVIOUS
  <2>2. Path(y.next, 0, f, 0) /\ Members(f, 0) = {}
    BY <2>1, EmptyPath
  <2>3. (1..(y.size - 1)) \ y.used = {}
    BY <1>2, Sizes
  <2> QED
    BY <2>2, <2>3 DEF FreeChained, Reset
<1>6. y.used \subseteq 1..(y.size - 1)
  BY <1>2, Sizes
<1> HIDE DEF D
<1>7. Threaded(y, D)
  BY <1>2, <1>3, <1>4, <1>5, <1>6 DEF Threaded
<1>8. D = In(y)
  BY <1>7, InIs
<1>9. y.speed \in Speeds
  BY <1>2 DEF Arrays
<1> QED
  BY <1>7, <1>8, <1>9 DEF D

LEMMA InitReset == ASSUME Init PROVE Reset(z)
<1>1. (CHOOSE s \in Speeds : TRUE) \in Speeds
  BY TimerAssumption DEF TimerAssumption
<1> DEFINE sp == CHOOSE s \in Speeds : TRUE
           zeros == [i \in Id |-> 0]
<1>2. sp \in Speeds /\ zeros \in [Id -> Words] /\ zeros \in [Id -> Nat] /\ zeros \in [Id -> Id]
  BY <1>1, Sizes DEF Words
<1>3. z = [clock |-> 0, size |-> Hardware + 1, used |-> 1..Hardware, free |-> 0,
           cpu |-> 0, rt |-> 0, speed |-> sp, count |-> zeros, period |-> zeros,
           next |-> zeros, prev |-> zeros]
  BY DEF Init
<1>4. \A i \in Id : zeros[i] = 0
  OBVIOUS
<1>5. 0 \in Words /\ Hardware + 1 \in Nat /\ 1..Hardware \in SUBSET Id /\ 0 \in Id
  BY Sizes DEF Words
<1> HIDE DEF sp, zeros
<1> QED
  BY <1>2, <1>3, <1>4, <1>5 DEF Reset, Arrays

LEMMA InitKept == ASSUME Init PROVE IInv /\ Queue!Init
<1> DEFINE D == In(z)
<1>1. /\ D = [l \in Lists |-> {}] /\ Threaded(z, D) /\ z.speed \in Speeds
      /\ z.used = 1..Hardware
  BY InitReset, ResetThreaded DEF Reset
<1>2. /\ q = QueueOf(z) /\ pc = "idle" /\ second = FALSE /\ stopping = FALSE
      /\ runner = 0 /\ fired = 0 /\ owed = {}
  BY DEF Init
<1>3. \A l \in Lists : D[l] = {}
  BY <1>1
<1>4. All(D) = {} /\ D["cpu"] = {} /\ D["rt"] = {}
  BY <1>3 DEF All, Lists
<1>5. Cardinality(z.used) = Hardware
  <2>1. Cardinality(1..Hardware) = IF 1 > Hardware THEN 0 ELSE Hardware - 1 + 1
    BY Sizes, FS_Interval
  <2> QED
    BY <1>1, <2>1, Sizes
<1> HIDE DEF D
<1>6. Timed(z, D, pc)
  BY <1>4 DEF Timed
<1>7. Structure
  BY <1>1, <1>2, <1>5, Sizes DEF Structure, D
<1>8. Control /\ History
  BY <1>2, Sizes DEF Control, History, Stages
<1>9. Shows(q, z, D)
  BY <1>1, <1>2, QueueIs
<1>10. \A t : On(D, t) = "off"
  BY <1>4 DEF On
<1>11. /\ q.on = [t \in Id \ {0} |-> "off"] /\ q.left = [t \in Id \ {0} |-> 0]
       /\ q.period = [t \in Id \ {0} |-> 0]
  BY <1>4, <1>9, <1>10 DEF Shows
<1>12. {fired} \ {0} = {}
  BY <1>2
<1>13. Queue!Init
  BY <1>1, <1>11, <1>12 DEF Queue!Init
<1> QED
  BY <1>6, <1>7, <1>8, <1>13 DEF IInv, D

-----------------------------------------------------------------------------
(* What the invariant implies.                                             *)

LEMMA KeptTypeOK == ASSUME IInv PROVE TypeOK
<1>1. Threaded(z, In(z)) /\ z \in Arrays
  BY DEF IInv, Structure, Threaded
<1>2. z.size \in {Hardware + 1, Slots} /\ z.used \subseteq 1..(z.size - 1)
  BY <1>1 DEF Threaded
<1>3. /\ z.clock \in 0..(Wrap - 1) /\ z.speed \in Speeds /\ {z.cpu, z.rt, z.free} \subseteq Id
      /\ z.count \in [Id -> 0..(Wrap - 1)] /\ z.next \in [Id -> Id] /\ z.prev \in [Id -> Id]
  BY <1>1 DEF Arrays, Words
<1>4. {runner, fired} \subseteq Id /\ pc \in Stages
  BY DEF IInv, Control
<1> QED
  BY <1>2, <1>3, <1>4 DEF TypeOK, Stages

LEMMA KeptListsSound == ASSUME IInv PROVE ListsSound
<1> DEFINE D == In(z)
<1>1. Threaded(z, D) /\ z \in Arrays /\ q = QueueOf(z) /\ \A l \in Lists : D[l] = List(z, z[l])
  BY DEF IInv, Structure, Threaded, In
<1> HIDE DEF D
<1>2. D["cpu"] = List(z, z.cpu) /\ D["rt"] = List(z, z.rt)
  BY <1>1, InIs
<1>3. /\ List(z, z.cpu) \cap List(z, z.rt) = {}
      /\ List(z, z.cpu) \cup List(z, z.rt) \subseteq z.used
  BY <1>1, <1>2 DEF Threaded, All
<1>4. List(z, z.free) = (1..(z.size - 1)) \ z.used
  <2>1. PICK n, f : Path(z.next, z.free, f, n) /\ Members(f, n) = (1..(z.size - 1)) \ z.used
    BY <1>1 DEF Threaded, FreeChained
  <2> DEFINE h == z.free
  <2>2. Path(z.next, h, f, n) /\ z.next[0] = 0
    BY <1>1, <2>1 DEF Threaded
  <2> HIDE DEF h
  <2>3. List(z, h) = Members(f, n)
    BY <2>2, ListIs
  <2> QED
    BY <2>1, <2>3 DEF h
<1>5. ASSUME NEW l \in Lists, NEW t \in D[l]
      PROVE  /\ (t = z[l]) <=> (z.prev[t] = 0)
             /\ z.next[t] # 0 => z.prev[z.next[t]] = t /\ Left(z, t) <= Left(z, z.next[t])
  <2> DEFINE S == D[l]
             h == z[l]
  <2>1. Linked(z, h, S) /\ t \in S
    BY <1>1, <1>5 DEF Threaded
  <2> HIDE DEF S, h
  <2>2. /\ (t = h) <=> (z.prev[t] = 0)
        /\ z.next[t] # 0 => z.prev[z.next[t]] = t /\ Left(z, t) <= Left(z, z.next[t])
    BY <1>1, <2>1, LinkedFacts
  <2> QED
    BY <2>2 DEF h
<1>6. \A l \in Lists : \A t \in List(z, z[l]) :
         LET n == z.next[t]
         IN  /\ (t = z[l]) <=> (z.prev[t] = 0)
             /\ n # 0 => z.prev[n] = t /\ Left(z, t) <= Left(z, n)
  BY <1>1, <1>5
<1>7. ASSUME NEW t \in z.used
      PROVE  (t \in {z.cpu, z.rt} \/ z.prev[t] # 0) <=> q.on[t] # "off"
  <2>1. Shows(q, z, D)
    BY <1>1, QueueIs
  <2>2. t \in Id \ {0}
    BY <1>1, Ranges
  <2>3. q.on[t] # "off" <=> t \in All(D)
    BY <1>1, <2>1, <2>2, OnIs DEF Shows
  <2>4. CASE t \in All(D)
    <3>1. PICK l \in Lists : t \in D[l]
      BY <2>4 DEF All, Lists
    <3>2. t = z[l] \/ z.prev[t] # 0
      BY <1>5, <3>1
    <3>3. t \in {z.cpu, z.rt} \/ z.prev[t] # 0
      BY <3>2 DEF Lists
    <3> QED
      BY <2>3, <2>4, <3>3
  <2>5. CASE t \notin All(D)
    <3>1. z.prev[t] = 0
      BY <1>1, <2>2, <2>5 DEF Threaded
    <3>2. \A l \in Lists : z[l] \in D[l] \cup {0}
      BY <1>1, Ranges
    <3>3. z.cpu \in All(D) \cup {0} /\ z.rt \in All(D) \cup {0}
      BY <3>2 DEF All, Lists
    <3> QED
      BY <2>2, <2>3, <2>5, <3>1, <3>3
  <2> QED
    BY <2>4, <2>5
<1> QED
  BY <1>3, <1>4, <1>6, <1>7 DEF ListsSound

LEMMA KeptRemainingExact == ASSUME IInv PROVE RemainingExact
<1> SUFFICES ASSUME NEW k \in owed
             PROVE  AsInt(Minus(z.count[runner], z.clock)) = k
  BY DEF RemainingExact
<1>1. PICK n \in Int : owed = {n} /\ Owing(z, In(z), pc, second, runner, n)
  BY DEF IInv, History
<1>2. k = n
  BY <1>1
<1>3. Threaded(z, In(z)) /\ runner \in Id
  BY DEF IInv, Structure, Control
<1> QED
  BY <1>1, <1>2, <1>3, OwingExact

LEMMA KeptLate == ASSUME IInv PROVE Queue!LateAtMostOverrun
<1> DEFINE D == In(z)
<1>1. Threaded(z, D) /\ q = QueueOf(z) /\ Timed(z, D, pc)
  BY DEF IInv, Structure
<1> HIDE DEF D
<1>2. Shows(q, z, D)
  BY <1>1, QueueIs
<1>3. ASSUME NEW t \in Id \ {0} PROVE q.left[t] >= -Over
  <2>1. q.left[t] = IF t \in All(D) THEN Left(z, t) ELSE 0
    BY <1>2 DEF Shows
  <2>2. t \in All(D) => Left(z, t) >= -Over
    BY <1>1 DEF Timed
  <2>3. 0 >= -Over
    BY OverMax
  <2> QED
    BY <2>1, <2>2, <2>3
<1> QED
  BY <1>3 DEF Queue!LateAtMostOverrun, Over

LEMMA KeptQueueTyped == ASSUME IInv PROVE Queue!TypeOK
<1> DEFINE D == In(z)
<1>1. Threaded(z, D) /\ z \in Arrays /\ q = QueueOf(z) /\ Timed(z, D, pc)
  BY DEF IInv, Structure, Threaded
<1> HIDE DEF D
<1>2. Shows(q, z, D)
  BY <1>1, QueueIs
<1>3. q.on \in [Id \ {0} -> {"off", "cpu", "rt"}]
  <2>1. \A t : On(D, t) \in {"off", "cpu", "rt"}
    BY <1>1, OnIs DEF Lists
  <2> QED
    BY <1>2, <2>1 DEF Shows
<1>4. q.left \in [Id \ {0} -> Int]
  <2>1. \A t \in Id : Left(z, t) \in Int
    BY <1>1, LeftTyped
  <2> QED
    BY <1>2, <2>1 DEF Shows
<1>5. q.period \in [Id \ {0} -> Counts \cup {0}]
  <2>1. \A t \in All(D) : z.period[t] \in Counts \cup {0}
    BY <1>1, CountsFacts DEF Timed
  <2> QED
    BY <1>2, <2>1 DEF Shows
<1>6. \A t \in Id \ {0} : q.on[t] = "off" => q.left[t] = 0
  <2> SUFFICES ASSUME NEW t \in Id \ {0}, q.on[t] = "off" PROVE q.left[t] = 0
    OBVIOUS
  <2>1. On(D, t) = "off"
    BY <1>2 DEF Shows
  <2>2. t \notin All(D)
    BY <1>1, <2>1, OnIs
  <2> QED
    BY <1>2, <2>2 DEF Shows
<1>7. z.speed \in Speeds /\ {fired} \ {0} \subseteq Id \ {0}
  BY <1>1 DEF Arrays, IInv, Control
<1> QED
  BY <1>3, <1>4, <1>5, <1>6, <1>7 DEF Queue!TypeOK, Counts

-----------------------------------------------------------------------------
(* Every step keeps the invariant, and is a step of the queue or none.     *)

LEMMA NextKept == ASSUME IInv, [Next]_vars PROVE Kept
<1>1. CASE UNCHANGED vars
  <2>1. /\ z' = z /\ q' = q /\ pc' = pc /\ second' = second /\ stopping' = stopping
        /\ runner' = runner /\ fired' = fired /\ owed' = owed
    BY <1>1 DEF vars
  <2>2. IInv'
    BY <2>1 DEF IInv, Structure, Control, History
  <2> QED
    BY <2>1, <2>2 DEF Kept, Queue!vars, Queue!queue
<1>2. CASE Next
  <2>1. CASE AddTimer
    BY <2>1, AddTimerKept
  <2>2. CASE RemoveTimer
    BY <2>2, RemoveTimerKept
  <2>3. CASE Run
    BY <2>3, RunKept
  <2>4. CASE PortSets
    BY <2>4, PortSetsKept
  <2>5. CASE PortSetsPeriod
    BY <2>5, PortSetsPeriodKept
  <2>6. CASE PortSetsSpeed
    BY <2>6, PortSetsSpeedKept
  <2>7. CASE Execute
    BY <2>7, ExecuteKept
  <2>8. CASE Interrupt
    BY <2>8, InterruptKept
  <2>9. CASE Sleep
    BY <2>9, SleepKept
  <2>10. CASE Loop
    BY <2>10, LoopKept
  <2>11. CASE Finish
    BY <2>11, FinishKept
  <2>12. CASE Callback
    BY <2>12, CallbackKept
  <2>13. ASSUME NEW l \in Lists, Fire(l) PROVE Kept
    BY <2>13, FireKept
  <2>14. ASSUME NEW l \in Lists, NoneOverdue(l) PROVE Kept
    BY <2>14, NoneOverdueKept
  <2> QED
    BY <1>2, <2>1, <2>2, <2>3, <2>4, <2>5, <2>6, <2>7, <2>8, <2>9, <2>10, <2>11, <2>12,
       <2>13, <2>14 DEF Next
<1> QED
  BY <1>1, <1>2

\* The invariant: the lists of the array, what is left of each timer at each stage of
\* z80_execute(), and what is owed to the run.
THEOREM Invariant == Spec => []IInv
<1>1. Init => IInv
  BY InitKept
<1>2. IInv /\ [Next]_vars => IInv'
  BY NextKept DEF Kept
<1> QED
  BY <1>1, <1>2, PTL DEF Spec

\* The two timer lists and the free list of emu/z80.c stay apart, end, are linked in both
\* directions and sorted, and what tilem_z80_run() returns as remaining is exact: for any
\* number of timers, width of the clock register, speeds and counts.
THEOREM TimersAlwaysSound == Spec => []TimersSound
<1>1. IInv => TimersSound
  BY KeptTypeOK, KeptListsSound, KeptRemainingExact DEF TimersSound
<1> QED
  BY <1>1, Invariant, PTL

\* timer_insert(), timer_unset(), timer_alloc(), timer_free(), check_timers() and the sleep
\* of a halted processor, on an array and a clock register that wraps, implement the queue
\* of TimerQueue: timers fire in order, none is passed, periodic ones do not drift.
THEOREM TimersImplementQueue == Spec => Implements
<1>1. Init => Queue!Init
  BY InitKept
<1>2. IInv /\ [Next]_vars => [Queue!Next]_(Queue!vars)
  BY NextKept DEF Kept
<1> QED
  BY <1>1, <1>2, Invariant, PTL DEF Spec, Implements, Queue!Spec

\* No event is passed by more than the last instruction took: the window of 10000 clocks in
\* which check_timers() recognises an overdue timer is enough.
THEOREM NothingPassed == Spec => [](Queue!TypeOK /\ Queue!LateAtMostOverrun)
<1>1. IInv => Queue!TypeOK /\ Queue!LateAtMostOverrun
  BY KeptQueueTyped, KeptLate
<1> QED
  BY <1>1, Invariant, PTL
=============================================================================
