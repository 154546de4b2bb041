-------------------------- MODULE LinkBufferProofs --------------------------
(***************************************************************************)
(* Proofs about LinkBuffer, for every ring size and every set of bytes.    *)
(***************************************************************************)
EXTENDS LinkBuffer, SequenceTheorems, TLAPS

\* Indices computed modulo the size of the ring are slots.
LEMMA ModInSlots == ASSUME NEW x \in Int PROVE x % Size \in Slots
BY SizeAssumption DEF Slots

LEMMA LeastBounds ==
    ASSUME NEW a \in Nat, NEW b \in Nat
    PROVE  Least(a, b) \in Nat /\ Least(a, b) <= a /\ Least(a, b) <= b
                               /\ Least(a, b) \in {a, b}
BY DEF Least

\* Dropping from a sequence of bytes.
LEMMA DropSeq ==
    ASSUME NEW s \in Seq(Octet), NEW n \in Nat
    PROVE  /\ Drop(s, n) \in Seq(Octet)
           /\ n <= Len(s) => Len(Drop(s, n)) = Len(s) - n
           /\ n >= Len(s) => Drop(s, n) = <<>>
BY DEF Drop

\* Filling the ring with a prefix of a sequence of bytes leaves bytes in it.
LEMMA FilledType ==
    ASSUME NEW b \in Int, NEW c \in Int, NEW s \in Seq(Octet), NEW k \in Nat,
           k <= Len(s), d \in [Slots -> Octet]
    PROVE  Filled(b, c, s, k) \in [Slots -> Octet]
<1> DEFINE j(i) == (i + Size - ((b + c) % Size)) % Size
<1> SUFFICES ASSUME NEW i \in Slots
             PROVE  (IF j(i) < k THEN s[j(i) + 1] ELSE d[i]) \in Octet
  BY DEF Filled
<1>1. (b + c) % Size \in Slots
  BY ModInSlots
<1>2. i + Size - ((b + c) % Size) \in Int
  BY <1>1, SizeAssumption DEF Slots
<1>3. j(i) \in Slots
  BY <1>2, ModInSlots
<1> HIDE DEF j
<1>4. CASE j(i) < k
  BY <1>3, <1>4, ElementOfSeq, SizeAssumption DEF Slots
<1>5. CASE ~(j(i) < k)
  BY <1>5
<1> QED
  BY <1>4, <1>5

-----------------------------------------------------------------------------
\* The inductive invariant: the reader, moreover, never wants more than the ring
\* holds, because nobody else removes bytes.
IInv ==
    /\ BufferType
    /\ OverflowBehindFullRing
    /\ reader = "copy" => Len(got) <= want /\ want <= count
    /\ reader = "count" => got = <<>>

LEMMA InitIInv == BufferInit => IInv
<1> SUFFICES ASSUME BufferInit PROVE IInv
  OBVIOUS
<1> QED
  BY SizeAssumption
     DEF BufferInit, IInv, BufferType, OverflowBehindFullRing, Slots

\* Writing fills the ring before anything overflows.
LEMMA AppendShape ==
    ASSUME IInv, NEW s \in Seq(Octet), AppendAll(s)
    PROVE  /\ d' \in [Slots -> Octet] /\ base' \in Slots
           /\ count' \in count..Size /\ overflow' \in Seq(Octet)
           /\ OverflowBehindFullRing'
<1> DEFINE k == Least(Size - count, Len(s))
<1>1. k \in Nat /\ k <= Size - count /\ k <= Len(s) /\ k \in {Size - count, Len(s)}
  <2>1. Size - count \in Nat /\ Len(s) \in Nat
    BY SizeAssumption DEF IInv, BufferType
  <2> QED
    BY <2>1, LeastBounds
<1>2. /\ d' = Filled(base, count, s, k) /\ count' = count + k
      /\ overflow' = overflow \o Drop(s, k) /\ base' = base
  BY DEF AppendAll
<1> HIDE DEF k
<1>3. d' \in [Slots -> Octet]
  <2>1. base \in Int /\ count \in Int
    BY SizeAssumption DEF IInv, BufferType, Slots
  <2>2. d \in [Slots -> Octet]
    BY DEF IInv, BufferType
  <2>3. Filled(base, count, s, k) \in [Slots -> Octet]
    BY <2>1, <2>2, <1>1, FilledType
  <2> QED
    BY <2>3, <1>2
<1>4. Drop(s, k) \in Seq(Octet) /\ Len(Drop(s, k)) = Len(s) - k
  BY <1>1, DropSeq
<1>5. overflow' \in Seq(Octet)
  <2>1. overflow \in Seq(Octet)
    BY DEF IInv, BufferType
  <2> QED
    BY <2>1, <1>2, <1>4, ConcatProperties
<1>6. count' \in count..Size
  BY <1>1, <1>2, SizeAssumption DEF IInv, BufferType
<1>7. OverflowBehindFullRing'
  <2>1. CASE k = Size - count
    BY <2>1, <1>2, SizeAssumption DEF OverflowBehindFullRing, IInv, BufferType
  <2>2. CASE k = Len(s)
    <3>1. Len(Drop(s, k)) = 0
      BY <2>2, <1>4
    <3>2. overflow' # <<>> => overflow # <<>>
      BY <3>1, <1>4, <1>2 DEF IInv, BufferType
    <3>3. overflow # <<>> => count' = Size
      BY <1>2, <1>1 DEF IInv, BufferType, OverflowBehindFullRing
    <3> QED
      BY <3>2, <3>3 DEF OverflowBehindFullRing
  <2> QED
    BY <2>1, <2>2, <1>1
<1> QED
  BY <1>2, <1>3, <1>5, <1>6, <1>7 DEF IInv, BufferType

\* Removing brings back overflow until the ring is full or nothing overflows.
LEMMA RemoveShape ==
    ASSUME IInv, NEW n \in Nat, Remove(n)
    PROVE  /\ d' \in [Slots -> Octet] /\ base' \in Slots
           /\ count' \in 0..Size /\ overflow' \in Seq(Octet)
           /\ OverflowBehindFullRing'
<1> DEFINE left == IF count >= n THEN count - n ELSE 0
           over == IF count >= n THEN overflow ELSE Drop(overflow, n - count)
           b == (base + n) % Size
           k == Least(Size - left, Len(over))
<1>1. left \in 0..Size
  BY SizeAssumption DEF IInv, BufferType
<1>2. over \in Seq(Octet)
  BY DropSeq DEF IInv, BufferType
<1>3. b \in Slots
  <2>1. base + n \in Int
    BY SizeAssumption DEF IInv, BufferType, Slots
  <2> QED
    BY <2>1, ModInSlots
<1>4. k \in Nat /\ k <= Size - left /\ k <= Len(over) /\ k \in {Size - left, Len(over)}
  <2>1. Size - left \in Nat /\ Len(over) \in Nat
    BY <1>1, <1>2, SizeAssumption
  <2> QED
    BY <2>1, LeastBounds
<1>5. /\ d' = Filled(b, left, over, k) /\ count' = left + k
      /\ overflow' = Drop(over, k) /\ base' = b
  BY DEF Remove
<1> HIDE DEF left, over, b, k
<1>6. d' \in [Slots -> Octet]
  <2>1. b \in Int /\ left \in Int
    BY <1>1, <1>3, SizeAssumption DEF Slots
  <2>2. d \in [Slots -> Octet]
    BY DEF IInv, BufferType
  <2>3. Filled(b, left, over, k) \in [Slots -> Octet]
    BY <2>1, <2>2, <1>2, <1>4, FilledType
  <2> QED
    BY <2>3, <1>5
<1>7. overflow' \in Seq(Octet) /\ Len(overflow') = Len(over) - k
  BY <1>2, <1>4, <1>5, DropSeq
<1>8. count' \in 0..Size
  BY <1>1, <1>4, <1>5, SizeAssumption
<1>9. OverflowBehindFullRing'
  <2>1. CASE k = Size - left
    BY <2>1, <1>1, <1>5, SizeAssumption DEF OverflowBehindFullRing
  <2>2. CASE k = Len(over)
    BY <2>2, <1>7 DEF OverflowBehindFullRing
  <2> QED
    BY <2>1, <2>2, <1>4
<1> QED
  BY <1>3, <1>5, <1>6, <1>7, <1>8, <1>9

LEMMA NextIInv == IInv /\ [BufferNext]_bufferVars => IInv'
<1> SUFFICES ASSUME IInv, [BufferNext]_bufferVars PROVE IInv'
  OBVIOUS
<1>1. CASE Write
  <2>1. PICK n \in 1..MaxWrite : \E s \in [1..n -> Octet] : AppendAll(s)
    BY <1>1 DEF Write
  <2>2. PICK s \in [1..n -> Octet] : AppendAll(s)
    BY <2>1
  <2>3. n \in Nat
    BY <2>1, BoundAssumption
  <2>4. s \in Seq(Octet)
    BY <2>3, <2>2
  <2>5. /\ d' \in [Slots -> Octet] /\ base' \in Slots
        /\ count' \in count..Size /\ overflow' \in Seq(Octet)
        /\ OverflowBehindFullRing'
    BY <2>2, <2>4, AppendShape
  <2>6. UNCHANGED <<reader, want, got, out>>
    BY <1>1 DEF Write
  <2> QED
    BY <2>5, <2>6, SizeAssumption DEF IInv, BufferType
<1>2. CASE BeginOne
  BY <1>2 DEF BeginOne, IInv, BufferType, OverflowBehindFullRing, ring
<1>3. CASE BeginMany
  BY <1>3, BoundAssumption DEF BeginMany, IInv, BufferType, OverflowBehindFullRing, ring
<1>4. CASE ReadCount
  <2>0. want \in Nat /\ count \in Nat
    BY SizeAssumption DEF IInv, BufferType
  <2>1. Least(want, count) \in Nat /\ Least(want, count) <= count
    BY <2>0, LeastBounds
  <2> QED
    BY <2>1, <1>4 DEF ReadCount, IInv, BufferType, OverflowBehindFullRing, ring
<1>5. CASE Copy
  <2>1. Len(got) \in Nat /\ Len(got) < Size
    BY <1>5, SizeAssumption DEF Copy, IInv, BufferType
  <2>2. (base + Len(got)) % Size \in Slots
    <3>1. base + Len(got) \in Int
      BY <2>1, SizeAssumption DEF IInv, BufferType, Slots
    <3> QED
      BY <3>1, ModInSlots
  <2>3. Nth(Len(got)) \in Octet
    BY <2>1, <2>2 DEF Nth, IInv, BufferType
  <2> QED
    BY <2>1, <2>3, <1>5 DEF Copy, IInv, BufferType, OverflowBehindFullRing, ring
<1>6. CASE Commit
  <2>1. /\ d' \in [Slots -> Octet] /\ base' \in Slots
        /\ count' \in 0..Size /\ overflow' \in Seq(Octet)
        /\ OverflowBehindFullRing'
    BY <1>6, RemoveShape DEF Commit, IInv, BufferType
  <2> QED
    BY <2>1, <1>6 DEF Commit, IInv, BufferType
<1>7. CASE UNCHANGED bufferVars
  BY <1>7 DEF bufferVars, ring, IInv, BufferType, OverflowBehindFullRing
<1> QED
  BY <1>1, <1>2, <1>3, <1>4, <1>5, <1>6, <1>7 DEF BufferNext

LEMMA Inductive == BufferSpec => []IInv
<1>1. IInv /\ [BufferNext]_bufferVars => IInv'
  BY NextIInv
<1> QED
  BY InitIInv, <1>1, PTL DEF BufferSpec

\* Type correctness: in particular every slot and every byte a reader copies is a
\* byte, whatever the interleaving.
THEOREM TypeCorrect == BufferSpec => []BufferType
<1>1. IInv => BufferType
  BY DEF IInv
<1> QED
  BY <1>1, Inductive, PTL

\* Overflow exists only behind a full ring.
THEOREM OverflowCorrect == BufferSpec => []OverflowBehindFullRing
<1>1. IInv => OverflowBehindFullRing
  BY DEF IInv
<1> QED
  BY <1>1, Inductive, PTL

\* The two as the run checks them.
THEOREM RingCorrect == BufferSpec => []RingSound
<1>1. IInv => RingSound
  BY DEF IInv, RingSound
<1> QED
  BY <1>1, Inductive, PTL

-----------------------------------------------------------------------------
\* What the indices of the ring come to: none is ever as far as two rounds.
LEMMA ModTwoRounds ==
    ASSUME NEW x \in 0..(2 * Size - 1)
    PROVE  x % Size = IF x < Size THEN x ELSE x - Size
<1>1. CASE x < Size
  BY <1>1, SizeAssumption
<1>2. CASE x >= Size
  <2>1. x - Size \in 0..(Size - 1)
    BY <1>2, SizeAssumption
  <2>2. x = 1 * Size + (x - Size)
    BY SizeAssumption
  <2> QED
    BY <1>2, <2>1, SizeAssumption
<1> QED
  BY <1>1, <1>2, SizeAssumption

\* Slot i - 1 behind b, i = 1..Size.
LEMMA SlotOf ==
    ASSUME NEW b \in Slots, NEW i \in 1..Size
    PROVE  /\ (b + i - 1) % Size = IF b + i - 1 < Size THEN b + i - 1 ELSE b + i - 1 - Size
           /\ (b + i - 1) % Size \in Slots
<1>1. b + i - 1 \in 0..(2 * Size - 1)
  BY SizeAssumption DEF Slots
<1> QED
  BY <1>1, ModTwoRounds, SizeAssumption DEF Slots

\* append() leaves the bytes held where they are and puts the new ones behind them.
LEMMA FilledSlots ==
    ASSUME NEW b \in Slots, NEW c \in 0..Size, NEW s, NEW k \in 0..(Size - c),
           NEW i \in 1..(c + k)
    PROVE  Filled(b, c, s, k)[(b + i - 1) % Size]
              = IF i <= c THEN d[(b + i - 1) % Size] ELSE s[i - c]
<1> DEFINE p == (b + i - 1) % Size
           q == (b + c) % Size
           j == (p + Size - q) % Size
<1>1. i \in 1..Size
  BY SizeAssumption
<1>2. p \in Slots /\ p = IF b + i - 1 < Size THEN b + i - 1 ELSE b + i - 1 - Size
  BY <1>1, SlotOf
<1>3. q = IF b + c < Size THEN b + c ELSE b + c - Size
  <2>1. b + c \in 0..(2 * Size - 1)
    BY SizeAssumption DEF Slots
  <2> QED
    BY <2>1, ModTwoRounds, SizeAssumption DEF Slots
<1>4. Filled(b, c, s, k)[p] = IF j < k THEN s[j + 1] ELSE d[p]
  BY <1>2 DEF Filled
<1>5. p + Size - q \in 0..(2 * Size - 1)
  <2> HIDE DEF p, q
  <2> QED
    BY <1>1, <1>2, <1>3, SizeAssumption DEF Slots
<1>6. j = IF p + Size - q < Size THEN p + Size - q ELSE p + Size - q - Size
  <2> HIDE DEF p, q
  <2>1. p \in Int /\ q \in Int
    BY <1>2, <1>3, SizeAssumption DEF Slots
  <2> QED
    BY <2>1, <1>5, ModTwoRounds, SizeAssumption
<1> HIDE DEF p, q, j
<1>7. CASE i <= c
  <2>1. ~(j < k)
    BY <1>7, <1>1, <1>2, <1>3, <1>5, <1>6, SizeAssumption DEF Slots
  <2> QED
    BY <2>1, <1>4, <1>7 DEF p
<1>8. CASE i > c
  <2>1. j = i - 1 - c /\ j < k
    BY <1>8, <1>1, <1>2, <1>3, <1>5, <1>6, SizeAssumption DEF Slots
  <2>2. j + 1 = i - c
    BY <2>1, SizeAssumption
  <2> QED
    BY <2>1, <2>2, <1>4, <1>8 DEF p
<1> QED
  BY <1>7, <1>8, SizeAssumption

Held(e, b, n) == [i \in 1..n |-> e[(b + i - 1) % Size]]

LEMMA HeldSeq ==
    ASSUME NEW e \in [Slots -> Octet], NEW b \in Slots, NEW n \in 0..Size
    PROVE  /\ Held(e, b, n) \in Seq(Octet) /\ Len(Held(e, b, n)) = n
           /\ \A i \in 1..n : Held(e, b, n)[i] = e[(b + i - 1) % Size]
<1>1. \A i \in 1..n : e[(b + i - 1) % Size] \in Octet
  <2> SUFFICES ASSUME NEW i \in 1..n PROVE e[(b + i - 1) % Size] \in Octet
    OBVIOUS
  <2>1. i \in 1..Size
    BY SizeAssumption
  <2> QED
    BY <2>1, SlotOf
<1>2. n \in Nat
  BY SizeAssumption
<1> QED
  BY <1>1, <1>2 DEF Held

\* A ring and its overflow, byte by byte; with Held and HeldSeq it also describes
\* the next state.
Shape(c, e, b, n, o) ==
    /\ c \in Seq(Octet) /\ Len(c) = n + Len(o)
    /\ \A i \in 1..n : c[i] = e[(b + i - 1) % Size]
    /\ \A i \in (n + 1)..(n + Len(o)) : c[i] = o[i - n]

LEMMA HeldShape ==
    ASSUME NEW e \in [Slots -> Octet], NEW b \in Slots, NEW n \in 0..Size, NEW o \in Seq(Octet)
    PROVE  Shape(Held(e, b, n) \o o, e, b, n, o)
<1> DEFINE h == Held(e, b, n)
<1>1. h \in Seq(Octet) /\ Len(h) = n /\ \A i \in 1..n : h[i] = e[(b + i - 1) % Size]
  BY HeldSeq
<1>2. n \in Nat
  BY SizeAssumption
<1> HIDE DEF h
<1>3. /\ h \o o \in Seq(Octet) /\ Len(h \o o) = n + Len(o)
      /\ \A i \in 1..n : (h \o o)[i] = h[i]
      /\ \A i \in (n + 1)..(n + Len(o)) : (h \o o)[i] = o[i - n]
  BY <1>1, <1>2
<1> QED
  BY <1>1, <1>3 DEF Shape, h

LEMMA ContentsShape ==
    /\ IInv => Shape(Contents, d, base, count, overflow)
    /\ IInv' => Shape(Contents', d', base', count', overflow')
<1>1. IInv => Shape(Contents, d, base, count, overflow)
  <2> SUFFICES ASSUME IInv PROVE Shape(Contents, d, base, count, overflow)
    OBVIOUS
  <2>1. Contents = Held(d, base, count) \o overflow
    BY DEF Contents, Held
  <2> QED
    BY <2>1, HeldShape DEF IInv, BufferType
<1>2. IInv' => Shape(Contents', d', base', count', overflow')
  <2> SUFFICES ASSUME IInv' PROVE Shape(Contents', d', base', count', overflow')
    OBVIOUS
  <2>1. Contents' = Held(d', base', count') \o overflow'
    BY DEF Contents, Held
  <2> QED
    BY <2>1, HeldShape DEF IInv, BufferType
<1> QED
  BY <1>1, <1>2

\* The same when a first sequence is filled up from a second one: append() and the
\* copying loop of remove() move bytes between the ring and the overflow, but not in
\* the order of the whole.
LEMMA FilledShape ==
    ASSUME d \in [Slots -> Octet], NEW b \in Slots, NEW n \in 0..Size, NEW s \in Seq(Octet),
           NEW k \in 0..(Size - n), k <= Len(s)
    PROVE  Held(Filled(b, n, s, k), b, n + k) \o Drop(s, k) = Held(d, b, n) \o s
<1> DEFINE f == Held(Filled(b, n, s, k), b, n + k) \o Drop(s, k)
           h == Held(d, b, n) \o s
<1>0. n \in Nat /\ k \in Nat /\ n + k \in 0..Size
  BY SizeAssumption
<1>1. Filled(b, n, s, k) \in [Slots -> Octet]
  BY <1>0, FilledType DEF Slots
<1>2. /\ Drop(s, k) \in Seq(Octet) /\ Len(Drop(s, k)) = Len(s) - k
      /\ \A i \in 1..(Len(s) - k) : Drop(s, k)[i] = s[i + k]
  BY <1>0 DEF Drop
<1>3. Shape(f, Filled(b, n, s, k), b, n + k, Drop(s, k))
  BY <1>0, <1>1, <1>2, HeldShape
<1>4. Shape(h, d, b, n, s)
  BY HeldShape
<1>5. \A i \in 1..(n + k) :
         Filled(b, n, s, k)[(b + i - 1) % Size] = IF i <= n THEN d[(b + i - 1) % Size] ELSE s[i - n]
  BY FilledSlots
<1> HIDE DEF f, h
<1> DEFINE g == Filled(b, n, s, k)
           r == Drop(s, k)
<1> HIDE DEF g, r
<1>6. Len(f) = Len(h) /\ f \in Seq(Octet) /\ h \in Seq(Octet) /\ Len(f) = n + Len(s)
  BY <1>0, <1>2, <1>3, <1>4 DEF Shape
<1>7. ASSUME NEW i \in 1..(n + Len(s)) PROVE f[i] = h[i]
  <2>1. CASE i <= n
    BY <2>1, <1>0, <1>3, <1>4, <1>5 DEF Shape
  <2>2. CASE i > n /\ i <= n + k
    <3>1. f[i] = s[i - n]
      BY <2>2, <1>0, <1>3, <1>5 DEF Shape
    <3>2. h[i] = s[i - n]
      BY <2>2, <1>0, <1>4 DEF Shape
    <3> QED
      BY <3>1, <3>2
  <2>3. CASE i > n + k
    <3>1. f[i] = Drop(s, k)[i - (n + k)]
      <4> DEFINE t == Drop(s, k)
      <4>1. \A x \in ((n + k) + 1)..((n + k) + Len(t)) : f[x] = t[x - (n + k)]
        BY <1>3 DEF Shape
      <4>2. Len(t) = Len(s) - k
        BY <1>2
      <4> HIDE DEF t
      <4>3. i \in ((n + k) + 1)..((n + k) + Len(t))
        BY <2>3, <4>2, <1>0
      <4> QED
        BY <4>1, <4>3 DEF t
    <3>2. Drop(s, k)[i - (n + k)] = s[i - n]
      <4>1. i - (n + k) \in 1..(Len(s) - k) /\ i - (n + k) + k = i - n
        BY <2>3, <1>0
      <4> QED
        BY <4>1, <1>2
    <3>3. h[i] = s[i - n]
      BY <2>3, <1>0, <1>4 DEF Shape
    <3> QED
      BY <3>1, <3>2, <3>3
  <2> QED
    BY <2>1, <2>2, <2>3, <1>0
<1>8. f = h
  BY <1>6, <1>7, SeqEqual
<1> QED
  BY <1>8 DEF f, h

\* operator += puts its bytes behind everything held, in the ring and beyond.
LEMMA AppendContents ==
    ASSUME IInv, IInv', NEW s \in Seq(Octet), AppendAll(s)
    PROVE  Contents' = Contents \o s
<1> DEFINE k == Least(Size - count, Len(s))
<1>1. k \in 0..(Size - count) /\ k <= Len(s) /\ k \in {Size - count, Len(s)}
  <2>1. Size - count \in Nat /\ Len(s) \in Nat
    BY SizeAssumption DEF IInv, BufferType
  <2> QED
    BY <2>1, LeastBounds
<1>2. /\ d' = Filled(base, count, s, k) /\ count' = count + k
      /\ overflow' = overflow \o Drop(s, k) /\ base' = base
  BY DEF AppendAll
<1> HIDE DEF k
<1>3. /\ d \in [Slots -> Octet] /\ base \in Slots /\ count \in 0..Size
      /\ overflow \in Seq(Octet)
  BY DEF IInv, BufferType
<1>4. Held(d', base', count') \o Drop(s, k) = Held(d, base, count) \o s
  BY <1>1, <1>2, <1>3, FilledShape
<1>5. /\ Held(d, base, count) \in Seq(Octet) /\ Held(d', base', count') \in Seq(Octet)
      /\ Drop(s, k) \in Seq(Octet)
  <2>1. count' \in 0..Size /\ d' \in [Slots -> Octet] /\ base' \in Slots
    BY DEF IInv, BufferType
  <2>2. k \in Nat
    BY <1>1, <1>3, SizeAssumption
  <2> QED
    BY <2>1, <2>2, <1>3, HeldSeq, DropSeq
<1>6. Contents = Held(d, base, count) \o overflow
  BY DEF Contents, Held
<1>7. Contents' = Held(d', base', count') \o overflow'
  BY DEF Contents, Held
<1>8. CASE overflow = <<>>
  <2>1. overflow' = Drop(s, k) /\ Contents = Held(d, base, count)
    BY <1>2, <1>5, <1>6, <1>8
  <2> QED
    BY <2>1, <1>4, <1>7
<1>9. CASE overflow # <<>>
  <2>1. count = Size /\ k = 0
    BY <1>9, <1>1, SizeAssumption DEF IInv, OverflowBehindFullRing
  <2>2. Drop(s, k) = s
    BY <2>1 DEF Drop
  <2>3. Held(d', base', count') = Held(d, base, count)
    <3>1. Held(d', base', count') \o s = Held(d, base, count) \o s
      BY <1>4, <2>2
    <3> QED
      BY <3>1, <1>5, ConcatSimplifications, Zenon
  <2>4. Contents' = Held(d, base, count) \o (overflow \o s)
    BY <1>2, <1>7, <2>2, <2>3
  <2>5. (Held(d, base, count) \o overflow) \o s = Held(d, base, count) \o (overflow \o s)
    BY <1>3, <1>5, ConcatAssociative
  <2> QED
    BY <2>4, <2>5, <1>6
<1> QED
  BY <1>8, <1>9

\* remove(n) of no more than the ring holds removes n bytes from the front of the whole.
LEMMA RemoveContents ==
    ASSUME IInv, IInv', NEW n \in 1..count, Remove(n)
    PROVE  /\ Len(Contents) >= n
           /\ Contents' = SubSeq(Contents, n + 1, Len(Contents))
<1> DEFINE left == count - n
           b == (base + n) % Size
           k == Least(Size - left, Len(overflow))
<1>1. /\ d \in [Slots -> Octet] /\ base \in Slots /\ count \in 0..Size
      /\ overflow \in Seq(Octet)
  BY DEF IInv, BufferType
<1>2. left \in 0..Size /\ left \in 0..(count - 1) /\ count >= n
  BY <1>1, SizeAssumption
<1>3. b \in Slots /\ b = IF base + n < Size THEN base + n ELSE base + n - Size
  <2>1. base + n \in 0..(2 * Size - 1)
    BY <1>1, SizeAssumption DEF Slots
  <2>2. base \in Nat /\ n \in Nat /\ count \in Nat
    BY <1>1, SizeAssumption DEF Slots
  <2>3. b = IF base + n < Size THEN base + n ELSE base + n - Size
    BY <2>1, <2>2, ModTwoRounds, SizeAssumption
  <2> HIDE DEF b
  <2> QED
    BY <2>1, <2>2, <2>3, SizeAssumption DEF Slots
<1>4. k \in 0..(Size - left) /\ k <= Len(overflow) /\ k \in Nat
  <2>1. Size - left \in Nat /\ Len(overflow) \in Nat
    BY <1>1, <1>2, SizeAssumption
  <2> QED
    BY <2>1, LeastBounds
<1>5. /\ d' = Filled(b, left, overflow, k) /\ count' = left + k
      /\ overflow' = Drop(overflow, k) /\ base' = b
  BY <1>2 DEF Remove
<1> HIDE DEF left, b, k
<1>6. Contents' = Held(d, b, left) \o overflow
  <2>1. Contents' = Held(d', base', count') \o overflow'
    BY DEF Contents, Held
  <2>2. Held(Filled(b, left, overflow, k), b, left + k) \o Drop(overflow, k)
           = Held(d, b, left) \o overflow
    BY <1>1, <1>2, <1>3, <1>4, FilledShape
  <2> QED
    BY <1>5, <2>1, <2>2
<1>7. Shape(Contents', d, b, left, overflow)
  BY <1>1, <1>2, <1>3, <1>6, HeldShape
<1>8. Shape(Contents, d, base, count, overflow)
  BY ContentsShape
<1> DEFINE rest == SubSeq(Contents, n + 1, Len(Contents))
<1>9. /\ rest \in Seq(Octet) /\ Len(rest) = left + Len(overflow)
      /\ \A i \in 1..(left + Len(overflow)) : rest[i] = Contents[i + n]
  <2>1. /\ Contents \in Seq(Octet) /\ Len(Contents) = count + Len(overflow)
        /\ n + 1 \in 1..(Len(Contents) + 1) /\ n \in Nat /\ count \in Nat
    BY <1>1, <1>2, <1>8, SizeAssumption DEF Shape
  <2> QED
    BY <2>1, <1>1 DEF left
<1> HIDE DEF rest
<1>10. ASSUME NEW i \in 1..(left + Len(overflow)) PROVE Contents'[i] = rest[i]
  <2>1. CASE i <= left
    <3>1. (b + i - 1) % Size = (base + (i + n) - 1) % Size
      <4>1. i \in 1..Size /\ i + n \in 1..Size /\ i \in 1..left /\ i + n \in 1..count
        BY <2>1, <1>1, <1>2, SizeAssumption DEF left
      <4>2. (b + i - 1) % Size = IF b + i - 1 < Size THEN b + i - 1 ELSE b + i - 1 - Size
        BY <1>3, <4>1, SlotOf
      <4>3. (base + (i + n) - 1) % Size
               = IF base + (i + n) - 1 < Size THEN base + (i + n) - 1 ELSE base + (i + n) - 1 - Size
        BY <1>1, <4>1, SlotOf
      <4> QED
        BY <4>1, <4>2, <4>3, <1>1, <1>3, SizeAssumption DEF Slots
    <3>2. i \in 1..left /\ i + n \in 1..count
      BY <2>1, <1>1, <1>2, SizeAssumption DEF left
    <3>3. Contents'[i] = d[(b + i - 1) % Size]
      BY <1>7, <3>2 DEF Shape
    <3>4. Contents[i + n] = d[(base + (i + n) - 1) % Size]
      BY <1>8, <3>2 DEF Shape
    <3> QED
      BY <1>9, <3>1, <3>3, <3>4
  <2>2. CASE i > left
    <3>1. i \in (left + 1)..(left + Len(overflow))
          /\ i + n \in (count + 1)..(count + Len(overflow)) /\ i - left = (i + n) - count
      BY <2>2, <1>1, <1>2, SizeAssumption DEF left
    <3>2. Contents'[i] = overflow[i - left]
      BY <1>7, <3>1 DEF Shape
    <3>3. Contents[i + n] = overflow[(i + n) - count]
      BY <1>8, <3>1 DEF Shape
    <3> QED
      BY <1>9, <3>1, <3>2, <3>3
  <2> QED
    BY <2>1, <2>2, <1>1, <1>2, SizeAssumption
<1>11. Contents' \in Seq(Octet) /\ Len(Contents') = left + Len(overflow)
  BY <1>7 DEF Shape
<1>12. Contents' = rest
  BY <1>9, <1>10, <1>11, SeqEqual
<1>13. Len(Contents) >= n
  BY <1>1, <1>2, <1>8, SizeAssumption DEF Shape
<1> QED
  BY <1>12, <1>13 DEF rest
-----------------------------------------------------------------------------
\* What the reader has copied so far is still the front of the queue, although writers
\* append between its steps.
ReaderInv ==
    /\ reader # "idle" => want >= 1 /\ count >= 1
    /\ reader = "copy" => \A i \in 1..Len(got) : got[i] = Contents[i]

LEMMA InitReader == BufferInit => ReaderInv
BY DEF BufferInit, ReaderInv

\* The byte that take() copies next is the next one of the queue.
LEMMA AtContents ==
    ASSUME IInv, NEW i \in 0..(count - 1)
    PROVE  Nth(i) = Contents[i + 1]
<1>1. Shape(Contents, d, base, count, overflow)
  BY ContentsShape
<1>2. i + 1 \in 1..count /\ i < Size /\ base + (i + 1) - 1 = base + i
  BY SizeAssumption DEF IInv, BufferType, Slots
<1>3. Contents[i + 1] = d[(base + (i + 1) - 1) % Size]
  BY <1>1, <1>2 DEF Shape
<1> QED
  BY <1>2, <1>3 DEF Nth

LEMMA PrefixOf ==
    ASSUME NEW s \in Seq(Octet), NEW t \in Seq(Octet)
    PROVE  /\ s \o t \in Seq(Octet) /\ Len(s \o t) = Len(s) + Len(t)
           /\ \A i \in 1..Len(s) : (s \o t)[i] = s[i]
OBVIOUS

\* A step of a writer or of the reader, up to the removal, appends to the queue or leaves it.
LEMMA ReaderStep ==
    ASSUME IInv, IInv', ReaderInv, [BufferNext]_bufferVars
    PROVE  ReaderInv' /\ [Q!Next]_<<Contents, out>>
<1>0. /\ Shape(Contents, d, base, count, overflow) /\ count \in 0..Size /\ overflow \in Seq(Octet)
      /\ count \in Nat /\ want \in Nat /\ got \in Seq(Octet) /\ Contents \in Seq(Octet)
      /\ Len(Contents) = count + Len(overflow) /\ Len(overflow) \in Nat
  <2>1. Shape(Contents, d, base, count, overflow) /\ count \in 0..Size /\ overflow \in Seq(Octet)
        /\ want \in Nat /\ got \in Seq(Octet)
    BY ContentsShape DEF IInv, BufferType
  <2>2. count \in Nat /\ Len(overflow) \in Nat
    BY <2>1, SizeAssumption
  <2>3. Contents \in Seq(Octet) /\ Len(Contents) = count + Len(overflow)
    BY <2>1 DEF Shape
  <2> QED
    BY <2>1, <2>2, <2>3
<1>1. CASE Write
  <2>1. PICK n \in 1..MaxWrite : \E s \in [1..n -> Octet] : AppendAll(s)
    BY <1>1 DEF Write
  <2>2. PICK s \in [1..n -> Octet] : AppendAll(s)
    BY <2>1
  <2>3. s \in Seq(Octet) /\ Len(s) = n /\ n \in Nat /\ n >= 1
    BY <2>2, BoundAssumption
  <2>4. Contents' = Contents \o s
    BY <2>2, <2>3, AppendContents
  <2>5. UNCHANGED <<reader, want, got, out>> /\ count' >= count
    <3>1. count' \in count..Size
      BY <2>2, <2>3, AppendShape
    <3> QED
      BY <3>1, <1>0, <1>1, SizeAssumption DEF Write
  <2>6. /\ Contents \o s \in Seq(Octet) /\ Len(Contents \o s) = Len(Contents) + n
        /\ \A i \in 1..Len(Contents) : (Contents \o s)[i] = Contents[i]
    <3>1. Contents \in Seq(Octet) /\ s \in Seq(Octet) /\ Len(s) = n
      BY <1>0, <2>3
    <3> QED
      BY <3>1, PrefixOf
  <2>7. ReaderInv'
    <3>1. reader # "idle" => want' >= 1 /\ count' >= 1
      BY <2>5, <1>0, SizeAssumption DEF ReaderInv, IInv, BufferType
    <3>2. ASSUME reader = "copy", NEW i \in 1..Len(got) PROVE got[i] = Contents'[i]
      <4>1. i \in 1..Len(Contents)
        BY <1>0, <3>2 DEF IInv
      <4> QED
        BY <4>1, <2>4, <2>6, <3>2 DEF ReaderInv
    <3> QED
      BY <3>1, <3>2, <2>5 DEF ReaderInv
  <2>8. Q!Put
    <3>1. Len(Contents') > Len(Contents)
      BY <1>0, <2>3, <2>4, <2>6
    <3>2. SubSeq(Contents', 1, Len(Contents)) = Contents
      <4> DEFINE c == Contents
                 e == Contents \o s
      <4>1. /\ c \in Seq(Octet) /\ e \in Seq(Octet) /\ Len(c) \in Nat /\ Len(c) <= Len(e)
            /\ \A i \in 1..Len(c) : e[i] = c[i]
        BY <1>0, <2>3, <2>6
      <4> HIDE DEF c, e
      <4>2. /\ SubSeq(e, 1, Len(c)) \in Seq(Octet) /\ Len(SubSeq(e, 1, Len(c))) = Len(c)
            /\ \A i \in 1..Len(c) : SubSeq(e, 1, Len(c))[i] = c[i]
        BY <4>1
      <4>3. SubSeq(e, 1, Len(c)) = c
        BY <4>1, <4>2, SeqEqual
      <4> QED
        BY <4>3, <2>4 DEF c, e
    <3> QED
      BY <3>1, <3>2, <2>5 DEF Q!Put
  <2> QED
    BY <2>7, <2>8 DEF Q!Next
<1>2. CASE BeginOne
  <2>1. Contents' = Contents /\ out' = out
    BY <1>2 DEF BeginOne, ring, Contents
  <2>2. ReaderInv'
    BY <1>0, <1>2 DEF BeginOne, ReaderInv, ring
  <2> QED
    BY <2>1, <2>2
<1>3. CASE BeginMany
  <2>1. Contents' = Contents /\ out' = out
    BY <1>3 DEF BeginMany, ring, Contents
  <2>2. ReaderInv'
    BY <1>0, <1>3, BoundAssumption DEF BeginMany, ReaderInv, ring
  <2> QED
    BY <2>1, <2>2
<1>4. CASE ReadCount
  <2>1. Contents' = Contents /\ out' = out
    BY <1>4 DEF ReadCount, ring, Contents
  <2>2. got = <<>>
    BY <1>4 DEF ReadCount, IInv
  <2>3. Least(want, count) >= 1
    BY <1>0, <1>4 DEF ReadCount, ReaderInv, Least
  <2>4. ReaderInv'
    BY <1>0, <1>4, <2>1, <2>2, <2>3 DEF ReadCount, ReaderInv, ring
  <2> QED
    BY <2>1, <2>4
<1>5. CASE Copy
  <2>1. Contents' = Contents /\ out' = out /\ count' = count /\ want' = want /\ reader' = reader
        /\ reader = "copy" /\ Len(got) < want
    BY <1>5 DEF Copy, ring, Contents
  <2>2. Len(got) \in 0..(count - 1)
    BY <1>0, <2>1 DEF IInv
  <2>3. got' = Append(got, Contents[Len(got) + 1])
    BY <1>5, <2>2, AtContents DEF Copy
  <2>4. \A i \in 1..Len(got') : got'[i] = Contents[i]
    BY <1>0, <2>1, <2>3 DEF ReaderInv
  <2>5. ReaderInv'
    BY <2>1, <2>4 DEF ReaderInv
  <2> QED
    BY <2>1, <2>5
<1>6. CASE Commit
  <2>1. reader = "copy" /\ Len(got) = want /\ Remove(want) /\ reader' = "idle" /\ out' = got
    BY <1>6 DEF Commit
  <2>2. want \in 1..count
    BY <1>0, <2>1 DEF IInv, ReaderInv
  <2>3. Len(Contents) >= want /\ Contents' = SubSeq(Contents, want + 1, Len(Contents))
    BY <2>1, <2>2, RemoveContents
  <2>4. got = SubSeq(Contents, 1, want)
    <3>1. /\ SubSeq(Contents, 1, want) \in Seq(Octet) /\ Len(SubSeq(Contents, 1, want)) = want
          /\ \A i \in 1..want : SubSeq(Contents, 1, want)[i] = Contents[i]
      BY <1>0, <2>2, <2>3
    <3>2. \A i \in 1..Len(got) : got[i] = SubSeq(Contents, 1, want)[i]
      BY <2>1, <3>1 DEF ReaderInv
    <3> QED
      BY <1>0, <2>1, <3>1, <3>2, SeqEqual
  <2>5. Q!Take
    <3>1. want \in 1..Len(Contents)
      BY <1>0, <2>2, <2>3
    <3> QED
      BY <2>1, <2>3, <2>4, <3>1 DEF Q!Take
  <2>6. ReaderInv'
    BY <2>1 DEF ReaderInv
  <2> QED
    BY <2>5, <2>6 DEF Q!Next
<1>7. CASE UNCHANGED bufferVars
  <2>1. Contents' = Contents /\ out' = out
    BY <1>7 DEF bufferVars, ring, Contents
  <2> QED
    BY <1>7, <2>1 DEF bufferVars, ring, ReaderInv
<1> QED
  BY <1>1, <1>2, <1>3, <1>4, <1>5, <1>6, <1>7 DEF BufferNext

(* The ring and its overflow implement the unbounded queue: whatever the   *)
(* size of the ring and however writers and the reader alternate, no byte  *)
(* of the cable is lost, doubled or reordered, and getBytes() returns      *)
(* exactly the bytes that remove() drops.                                  *)
THEOREM QueueImplemented == BufferSpec => IsQueue
<1>1. BufferInit => Q!Init
  <2> SUFFICES ASSUME BufferInit PROVE Contents = <<>> /\ out = <<>>
    BY DEF Q!Init
  <2> QED
    BY DEF BufferInit, Contents
<1>2. IInv /\ IInv' /\ ReaderInv /\ [BufferNext]_bufferVars => ReaderInv' /\ [Q!Next]_<<Contents, out>>
  BY ReaderStep
<1>3. Q!vars = <<Contents, out>>
  BY DEF Q!vars
<1> QED
  BY <1>1, <1>2, <1>3, InitReader, Inductive, PTL DEF BufferSpec, IsQueue, Q!Spec, Q!vars
=============================================================================
