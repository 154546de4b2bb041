----------------------------- MODULE LinkBuffer -----------------------------
(***************************************************************************)
(* LinkBuffer (linkbuffer.h): the byte queue between the GUI side and the  *)
(* emulator side of the virtual cable (Calc::m_input and Calc::m_output),  *)
(* a ring of Size slots followed by an overflow array.  Every method takes *)
(* m_lock by itself, so one method is one step; but getByte(), getBytes()  *)
(* and take() are several methods in a row, between which writers append.  *)
(* The source has Size = 1024 and computes indices with & 1023.            *)
(***************************************************************************)
EXTENDS Naturals, Sequences

CONSTANTS
    Size,       \* slots of the ring
    Octet,      \* values of a byte
    MaxHeld,    \* bound: writers stop when so many bytes are held
    MaxWrite    \* bound: longest array given to one operator +=

ASSUME SizeAssumption == Size \in Nat \ {0}
ASSUME OctetAssumption == Octet # {}
ASSUME BoundAssumption == MaxHeld \in Nat /\ MaxWrite \in Nat

VARIABLES
    d,          \* m_d
    base,       \* m_base
    count,      \* m_count
    overflow,   \* m_overflow
    reader,     \* where the reader of Calc::getBytes is: "idle", "count" or "copy"
    want,       \* how many bytes it wants
    got,        \* the bytes it has copied so far
    out         \* what it returned last

ring == <<d, base, count, overflow>>
bufferVars == <<ring, reader, want, got, out>>

Slots == 0..(Size - 1)
Least(a, b) == IF a < b THEN a ELSE b
Drop(s, n) == SubSeq(s, n + 1, Len(s))

\* The ring whose slots from b + c on receive the first k bytes of s.
Filled(b, c, s, k) ==
    [i \in Slots |->
        LET j == (i + Size - ((b + c) % Size)) % Size
        IN  IF j < k THEN s[j + 1] ELSE d[i]]

\* at(idx)
Nth(idx) == IF idx < Size THEN d[(base + idx) % Size] ELSE overflow[idx - Size + 1]

\* The bytes held, in the order they were written.
Contents == [i \in 1..count |-> d[(base + i - 1) % Size]] \o overflow

BufferInit ==
    /\ d \in [Slots -> Octet]    \* the constructor leaves m_d uninitialised
    /\ base = 0 /\ count = 0 /\ overflow = <<>>
    /\ reader = "idle" /\ want = 0 /\ got = <<>> /\ out = <<>>

\* Mutant: append() writes at m_count instead of m_base + m_count.
MutAppendAt(s) ==
    LET k == Least(Size - count, Len(s))
    IN  /\ d' = Filled(0, count, s, k)
        /\ count' = count + k
        /\ overflow' = overflow \o Drop(s, k)
        /\ UNCHANGED base

\* operator +=: append() fills the ring, then the overflow array.
AppendAll(s) ==
    LET k == Least(Size - count, Len(s))
    IN  /\ d' = Filled(base, count, s, k)
        /\ count' = count + k
        /\ overflow' = overflow \o Drop(s, k)
        /\ UNCHANGED base

\* Mutant: remove() does not bring overflow back into the ring.
MutRemoveNoRefill(n) ==
    /\ base' = (base + n) % Size
    /\ count' = IF count >= n THEN count - n ELSE 0
    /\ overflow' = IF count >= n THEN overflow ELSE Drop(overflow, n - count)
    /\ UNCHANGED d

\* remove(n): drop n bytes, then bring overflow back into the ring.
Remove(n) ==
    LET left == IF count >= n THEN count - n ELSE 0
        over == IF count >= n THEN overflow ELSE Drop(overflow, n - count)
        b    == (base + n) % Size
        k    == Least(Size - left, Len(over))
    IN  /\ base' = b
        /\ d' = Filled(b, left, over, k)
        /\ count' = left + k
        /\ overflow' = Drop(over, k)

\* A writer: Calc::sendByte() or sendBytes(), or Calc::run() on m_output.
Write ==
    /\ \E n \in 1..MaxWrite : \E s \in [1..n -> Octet] :
          Len(Contents) + n <= MaxHeld /\ AppendAll(s)
    /\ UNCHANGED <<reader, want, got, out>>

\* getByte() and Calc::run(): isEmpty() or count() is not zero, one byte is wanted.
BeginOne ==
    /\ reader = "idle"
    /\ count # 0
    /\ reader' = "copy"
    /\ want' = 1
    /\ got' = <<>>
    /\ UNCHANGED <<ring, out>>

\* getBytes(n): isEmpty(), then count() bounds the number asked for.
BeginMany ==
    /\ reader = "idle"
    /\ count # 0
    /\ \E n \in 1..MaxHeld : want' = n
    /\ reader' = "count"
    /\ got' = <<>>
    /\ UNCHANGED <<ring, out>>

ReadCount ==
    /\ reader = "count"
    /\ want' = Least(want, count)
    /\ reader' = "copy"
    /\ UNCHANGED <<ring, got, out>>

\* take(): one call of at() for each byte ...
Copy ==
    /\ reader = "copy"
    /\ Len(got) < want
    /\ got' = Append(got, Nth(Len(got)))
    /\ UNCHANGED <<ring, reader, want, out>>

\* ... then remove() drops them.
Commit ==
    /\ reader = "copy"
    /\ Len(got) = want
    /\ Remove(want)
    /\ reader' = "idle"
    /\ want' = 0
    /\ got' = <<>>
    /\ out' = got

BufferNext == Write \/ BeginOne \/ BeginMany \/ ReadCount \/ Copy \/ Commit

BufferSpec == BufferInit /\ [][BufferNext]_bufferVars

-----------------------------------------------------------------------------
(* Properties.                                                             *)

\* Types; the reader wants what the ring held when it asked.
BufferType ==
    /\ d \in [Slots -> Octet]
    /\ base \in Slots
    /\ count \in 0..Size
    /\ overflow \in Seq(Octet)
    /\ reader \in {"idle", "count", "copy"}
    /\ want \in Nat
    /\ got \in Seq(Octet)
    /\ out \in Seq(Octet)

\* Bytes overflow only behind a full ring: what append() and the copying loop of
\* remove() must maintain for at() to find byte 1024 at overflow[0], and for
\* isEmpty() not to hide overflowing bytes.
OverflowBehindFullRing == overflow # <<>> => count = Size

\* The ring holds bytes in its slots, and nothing overtakes what it holds.
RingSound == BufferType /\ OverflowBehindFullRing

\* The ring and its overflow are a queue: no byte is lost, doubled, reordered or
\* returned other than it was removed.
Q == INSTANCE ByteQueue WITH
        queue <- Contents,
        taken <- out
IsQueue == Q!Spec
=============================================================================
