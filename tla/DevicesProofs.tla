---------------------------- MODULE DevicesProofs ----------------------------
(***************************************************************************)
(* Proofs about the chip, the sound device and the keys, for every chip    *)
(* and protection, every layout of the ring, every binding of host keys    *)
(* and every order of what happens.                                        *)
(*   Flash: types, the timer of the busy phases, and the action properties *)
(* that keep the contents safe.  BusyHasTimer and TypeOK are inductive as  *)
(* they stand.  PollTellsTruth is not: see PollInv.                        *)
(*   The ring: PlayedInOrder says nothing of the chunks that wait, and is  *)
(* not inductive.  RingInv adds that the chunks from the reader's on, as   *)
(* many as the semaphore leaves, are marked and hold the frames that come  *)
(* next, and that the writer is at the chunk behind them; Unplayed, and not a  *)
(* count of marks, says how many they are.                                 *)
(*   The keys: KeyInv adds that a window without the focus holds no keys   *)
(* and that a queue that holds its last key has the host key for it.       *)
(***************************************************************************)
EXTENDS MCDevices, SequenceTheorems, FiniteSetTheorems, TLAPS

-----------------------------------------------------------------------------
(* Flash.                                                                  *)

\* Every byte a command or a program writes is a set of bits.
LEMMA BytesAreBits == Data \subseteq SUBSET Bits /\ Full \in SUBSET Bits
  BY DataAssumption DEF Full, Bits

LEMMA NextStateIsState ==
    ASSUME NEW st, NEW a, NEW v
    PROVE  NextState(st, a, v) \in States
  BY DEF NextState, States

\* What programming does to a typed state (program_byte()).
LEMMA ProgramTyped ==
    ASSUME TypeOK, NEW a \in Addr, NEW v \in Data, NEW f \in BOOLEAN, Program(a, v, f)
    PROVE  /\ mem' \in [Addr -> SUBSET Bits]
           /\ busy' = "PROGRAM" /\ delay' = TRUE
           /\ prog' \in Programs
  BY BytesAreBits DEF TypeOK, Program, SetBusy, Programs

\* What erasing does to a typed state (erase_sector()).
LEMMA EraseTyped ==
    ASSUME TypeOK, NEW sectors, Erase(sectors)
    PROVE  /\ mem' \in [Addr -> SUBSET Bits]
           /\ busy' = "ERASE_WAIT" /\ delay' = TRUE
           /\ prog' \in Programs
  BY BytesAreBits DEF TypeOK, Erase, SetBusy, Programs, NotPolling

\* What a rejected command does to a typed state.
LEMMA IgnoredTyped ==
    ASSUME TypeOK, Ignored
    PROVE  /\ mem' \in [Addr -> SUBSET Bits]
           /\ busy' = busy /\ delay' = delay
           /\ prog' \in Programs
  BY DEF TypeOK, Ignored, Programs, NotPolling

Inv == TypeOK /\ BusyHasTimer

LEMMA InvInit == Init => Inv
  BY DataAssumption DEF Init, Inv, TypeOK, BusyHasTimer, Programs, States, Full, Bits

LEMMA InvNext == Inv /\ [Next]_vars => Inv'
  <1> SUFFICES ASSUME Inv, [Next]_vars PROVE Inv'
    OBVIOUS
  <1> USE DEF Inv
  <1>1. CASE WriteCommand
    <2>1. state' \in States
      BY <1>1, NextStateIsState DEF WriteCommand
    <2> QED
      BY <1>1, <2>1, IgnoredTyped DEF WriteCommand, Kept, TypeOK, BusyHasTimer
  <1>2. CASE WriteProgram
    <2>1. state' \in States
      BY <1>2 DEF WriteProgram, States
    <2>2. PICK a \in Addr, v \in Data : Program(a, v, FALSE) \/ Ignored
      BY <1>2 DEF WriteProgram
    <2>3. CASE Program(a, v, FALSE)
      BY <1>2, <2>1, <2>3, ProgramTyped DEF WriteProgram, Kept, TypeOK, BusyHasTimer
    <2>4. CASE Ignored
      BY <1>2, <2>1, <2>4, IgnoredTyped DEF WriteProgram, Kept, TypeOK, BusyHasTimer
    <2> QED
      BY <2>2, <2>3, <2>4
  <1>3. CASE WriteFast
    <2>1. state' \in States
      BY <1>3 DEF WriteFast, States
    <2>2. PICK a \in Addr, v \in Data : Program(a, v, TRUE) \/ Ignored
      BY <1>3 DEF WriteFast
    <2>3. CASE Program(a, v, TRUE)
      BY <1>3, <2>1, <2>3, ProgramTyped DEF WriteFast, Kept, TypeOK, BusyHasTimer
    <2>4. CASE Ignored
      BY <1>3, <2>1, <2>4, IgnoredTyped DEF WriteFast, Kept, TypeOK, BusyHasTimer
    <2> QED
      BY <2>2, <2>3, <2>4
  <1>4. CASE WriteErase
    <2>1. state' \in States
      BY <1>4 DEF WriteErase, States
    <2>2. Ignored \/ \E sectors : Erase(sectors)
      BY <1>4 DEF WriteErase
    <2> QED
      BY <1>4, <2>1, <2>2, EraseTyped, IgnoredTyped
      DEF WriteErase, Kept, TypeOK, BusyHasTimer
  <1>5. CASE InstructionErase
    <2>1. PICK s \in Sector : (Erase({s}) /\ state' = "READ") \/ (Ignored /\ UNCHANGED state)
      BY <1>5 DEF InstructionErase
    <2>2. state' \in States
      BY <2>1 DEF States, TypeOK
    <2> QED
      BY <1>5, <2>1, <2>2, EraseTyped, IgnoredTyped
      DEF InstructionErase, Kept, TypeOK, BusyHasTimer
  <1>6. CASE InstructionProgram
    BY <1>6, IgnoredTyped DEF InstructionProgram, Kept, TypeOK, BusyHasTimer, States
  <1>7. CASE Read
    BY <1>7 DEF Read, Kept, TypeOK, BusyHasTimer, States
  <1>8. CASE DelayOver
    BY <1>8 DEF DelayOver, SetBusy, Kept, TypeOK, BusyHasTimer
  <1>9. CASE SetUnlock \/ SetOverride
    BY <1>9 DEF SetUnlock, SetOverride, chip, TypeOK, BusyHasTimer
  <1>10. CASE Reset
    BY <1>10, ChipAssumption
    DEF Reset, NotPolling, TypeOK, BusyHasTimer, Programs, States
  <1>11. CASE UNCHANGED vars
    BY <1>11 DEF vars, chip, TypeOK, BusyHasTimer
  <1> QED
    BY <1>1, <1>2, <1>3, <1>4, <1>5, <1>6, <1>7, <1>8, <1>9, <1>10, <1>11 DEF Next

LEMMA Invariance == Spec => []Inv
  BY InvInit, InvNext, PTL DEF Spec

\* The chip's variables keep their types: a byte stays eight bits, the command state
\* machine in its eleven states, whatever is written.
THEOREM TypeCorrect == Spec => []TypeOK
  <1>1. Inv => TypeOK
    BY DEF Inv
  <1> QED
    BY Invariance, <1>1, PTL

\* Every busy phase has its timer, also after a reset in the middle of one.
THEOREM BusyTimed == Spec => []BusyHasTimer
  <1>1. Inv => BusyHasTimer
    BY DEF Inv
  <1> QED
    BY Invariance, <1>1, PTL

-----------------------------------------------------------------------------
\* No byte of a locked chip, of a protected sector or of a busy chip changes
\* (sector_writable() before each program_byte() and erase_sector()).
THEOREM ProtectionHolds == Spec => ProtectedStays
  <1> DEFINE Protection ==
        \A a \in Addr : mem'[a] # mem[a] =>
          /\ unlock
          /\ Writable(SectorOf[a])
          /\ busy \in {"PROGRAM", "ERASE"} => nspire
  <1>1. TypeOK /\ [Next]_vars => [Protection]_vars
    <2> SUFFICES ASSUME TypeOK, Next, NEW b \in Addr, mem'[b] # mem[b]
                 PROVE  /\ unlock /\ Writable(SectorOf[b])
                        /\ busy \in {"PROGRAM", "ERASE"} => nspire
      OBVIOUS
    <2>1. CASE WriteProgram \/ WriteFast
      <3>1. PICK a \in Addr : Writable(SectorOf[a]) /\ \A c \in Addr : c # a => mem'[c] = mem[c]
        BY <2>1 DEF WriteProgram, WriteFast, Program, Ignored, TypeOK
      <3>2. Accepts
        BY <2>1 DEF WriteProgram, WriteFast
      <3>3. b = a
        BY <3>1
      <3> QED
        BY <3>1, <3>2, <3>3 DEF Accepts
    <2>2. CASE WriteErase
      <3>1. \E erased : /\ \A s \in erased : Writable(s)
                        /\ Erase(erased) \/ Ignored
        BY <2>2 DEF WriteErase
      <3>2. PICK erased : /\ \A s \in erased : Writable(s)
                          /\ Erase(erased)
        BY <3>1 DEF Ignored
      <3>3. SectorOf[b] \in erased
        BY <3>2 DEF Erase
      <3> QED
        BY <2>2, <3>2, <3>3 DEF WriteErase, Accepts
    <2>3. CASE InstructionErase
      BY <2>3 DEF InstructionErase, Erase, Ignored
    <2> QED
      BY <2>1, <2>2, <2>3 DEF Next, WriteCommand, InstructionProgram, Read, DelayOver,
         SetUnlock, SetOverride, Reset, Ignored, chip
  <1>2. Spec => [][Protection]_vars
    BY <1>1, TypeCorrect, PTL DEF Spec
  <1> QED
    BY <1>2 DEF ProtectedStays

\* Bits are set only where a whole sector is erased (program_byte() ands).
THEOREM BitsSetBySectors == Spec => SetsOnlyWholeSectors
  <1> DEFINE Cleared ==
        \A a \in Addr : mem'[a] \subseteq mem[a]
            \/ \A b \in Addr : SectorOf[b] = SectorOf[a] => mem'[b] = Full
  <1>1. TypeOK /\ [Next]_vars => [Cleared]_vars
    <2> SUFFICES ASSUME TypeOK, Next, NEW a \in Addr, ~(mem'[a] \subseteq mem[a])
                 PROVE  \A b \in Addr : SectorOf[b] = SectorOf[a] => mem'[b] = Full
      OBVIOUS
    <2>1. mem' # mem
      OBVIOUS
    <2>2. CASE \E x \in Addr, v \in Data, f \in BOOLEAN : Program(x, v, f)
      BY <2>2 DEF Program, TypeOK
    <2>3. CASE \E erased : Erase(erased)
      BY <2>3 DEF Erase
    <2>4. CASE WriteProgram
      <3>1. \E x \in Addr, v \in Data : Program(x, v, FALSE)
        BY <2>1, <2>4 DEF WriteProgram, Ignored
      <3> QED
        BY <2>2, <3>1
    <2>5. CASE WriteFast
      <3>1. \E x \in Addr, v \in Data : Program(x, v, TRUE)
        BY <2>1, <2>5 DEF WriteFast, Ignored
      <3> QED
        BY <2>2, <3>1
    <2>6. CASE WriteErase \/ InstructionErase
      <3>1. \E erased : Erase(erased)
        BY <2>1, <2>6 DEF WriteErase, InstructionErase, Ignored
      <3> QED
        BY <2>3, <3>1
    <2> QED
      BY <2>1, <2>4, <2>5, <2>6 DEF Next, WriteCommand, InstructionProgram, Read, DelayOver,
         SetUnlock, SetOverride, Reset, Ignored, chip
  <1>2. Spec => [][Cleared]_vars
    BY <1>1, TypeCorrect, PTL DEF Spec
  <1> QED
    BY <1>2 DEF SetsOnlyWholeSectors

\* The contents change only where nothing protects them, and bits come back only with
\* their whole sector.
THEOREM ContentsSafe == Spec => ContentsGuarded
  BY ProtectionHolds, BitsSetBySectors DEF ContentsGuarded

-----------------------------------------------------------------------------
\* While a program polls the byte it wrote, no write has been accepted: the chip shows
\* its contents only if the byte took, and is in the error state if it did not.
PollInv ==
    prog.polling = TRUE =>
        /\ busy \in {"no", "PROGRAM"}
        /\ state \in {"READ", "ERROR"}
        /\ state = "READ" => mem[prog.addr] = prog.byte

LEMMA PollNext == TypeOK /\ PollInv /\ [Next]_vars => PollInv'
  <1> SUFFICES ASSUME TypeOK, PollInv, [Next]_vars PROVE PollInv'
    OBVIOUS
  <1>1. CASE NotPolling
    BY <1>1 DEF NotPolling, PollInv, TypeOK, Programs
  <1>2. CASE WriteProgram /\ ~Ignored
    <2>1. PICK a \in Addr, v \in Data :
             Program(a, v, FALSE) /\ state' = IF mem'[a] = v THEN "READ" ELSE "ERROR"
      BY <1>2 DEF WriteProgram
    <2> QED
      BY <2>1 DEF Program, SetBusy, PollInv
  <1>3. CASE WriteFast /\ ~Ignored
    <2>1. PICK a \in Addr, v \in Data : Program(a, v, TRUE)
      BY <1>3 DEF WriteFast
    <2>2. prog'.polling = FALSE
      BY <2>1 DEF Program
    <2> QED
      BY <2>2 DEF PollInv
  <1>4. CASE Read
    BY <1>4 DEF Read, PollInv
  <1>5. CASE DelayOver
    BY <1>5 DEF DelayOver, SetBusy, PollInv
  <1>6. CASE UNCHANGED chip
    BY <1>6 DEF chip, PollInv
  <1> QED
    BY <1>1, <1>2, <1>3, <1>4, <1>5, <1>6
    DEF Next, WriteCommand, WriteErase, InstructionErase, InstructionProgram, SetUnlock,
        SetOverride, Reset, Ignored, Erase, vars

\* The polling loop of programs is right (tilem_flash_read_byte(): bit 7 is complemented
\* while programming and after an error).
THEOREM PollingWorks == Spec => []PollTellsTruth
  <1>1. Init => PollInv
    BY DEF Init, PollInv
  <1>2. Spec => []PollInv
    BY <1>1, PollNext, TypeCorrect, PTL DEF Spec
  <1>3. TypeOK /\ PollInv => PollTellsTruth
    <2> SUFFICES ASSUME TypeOK, PollInv, prog.polling,
                        ReadBit7(prog.addr) = (7 \in prog.byte)
                 PROVE  mem[prog.addr] = prog.byte
      BY DEF PollTellsTruth
    <2>1. prog.polling = TRUE
      BY DEF TypeOK, Programs
    <2>2. CASE state = "READ"
      BY <2>1, <2>2 DEF PollInv
    <2>3. CASE state = "ERROR"
      <3>1. busy = "PROGRAM" \/ (busy = "no" /\ state = "ERROR")
        BY <2>1, <2>3 DEF PollInv
      <3>2. ReadBit7(prog.addr) = (7 \notin prog.byte)
        BY <3>1 DEF ReadBit7
      <3> QED
        BY <3>2
    <2> QED
      BY <2>1, <2>2, <2>3 DEF PollInv
  <1> QED
    BY <1>2, <1>3, TypeCorrect, PTL

\* The two as the run checks them.
THEOREM ChipIsSound == Spec => []ChipSound
  <1>1. TypeOK /\ PollTellsTruth => ChipSound
    BY DEF ChipSound
  <1> QED
    BY <1>1, TypeCorrect, PollingWorks, PTL

-----------------------------------------------------------------------------
(* Induction over the numbers, from the well-founded order of finite sets. *)

\* A set of numbers that is not empty has a least one.
LEMMA Smallest ==
   ASSUME NEW T \in SUBSET Nat, T # {}
   PROVE \E x \in T : \A y \in T : x <= y
<1> DEFINE R == StrictSubsetOrdering(Nat)
           U == {1..n : n \in T}
<1>1. IsWellFoundedOn(R, FiniteSubsetsOf(Nat))
  BY FS_StrictSubsetOrderingWellFounded
<1>2. U \subseteq FiniteSubsetsOf(Nat) /\ U # {}
  <2>1. \A n \in T : 1..n \in SUBSET Nat /\ IsFiniteSet(1..n)
    BY FS_Interval
  <2> QED
    BY <2>1 DEF FiniteSubsetsOf
<1>3. PICK X \in U : \A Y \in U : ~(<<Y, X>> \in R)
  <2> HIDE DEF R, U
  <2> QED
    BY <1>1, <1>2, WFMin
<1>4. PICK x \in T : X = 1..x
  OBVIOUS
<1>5. ASSUME NEW y \in T PROVE x <= y
  <2> SUFFICES ASSUME y < x PROVE FALSE
    OBVIOUS
  <2>1. 1..y \subseteq 1..x /\ x \in 1..x /\ x \notin 1..y
    OBVIOUS
  <2>2. 1..y \in SUBSET Nat /\ 1..x \in SUBSET Nat
    OBVIOUS
  <2>3. <<1..y, X>> \in R
    BY <2>1, <2>2, <1>4 DEF StrictSubsetOrdering
  <2> QED
    BY <1>3, <2>3
<1> QED
  BY <1>5

\* A set that holds zero, and the successor of each number it holds, holds all.
LEMMA Induct ==
   ASSUME NEW S, 0 \in S, \A n \in Nat : n \in S => n + 1 \in S
   PROVE  Nat \subseteq S
<1> SUFFICES ASSUME Nat \ S # {} PROVE FALSE
  OBVIOUS
<1>1. PICK x \in Nat \ S : \A y \in Nat \ S : x <= y
  <2>1. Nat \ S \in SUBSET Nat
    OBVIOUS
  <2> QED
    BY <2>1, Smallest
<1>2. x # 0 /\ x - 1 \in Nat /\ ~(x <= x - 1)
  BY <1>1
<1>3. x - 1 \in S
  BY <1>1, <1>2
<1>4. (x - 1) + 1 = x
  BY <1>1
<1> QED
  BY <1>1, <1>2, <1>3, <1>4
-----------------------------------------------------------------------------
(* The loops of tilem_audio_device_open() that double.                     *)

\* The function that is defined by recursion exists: on 0..k by induction on k.
LEMMA DoublingsExist ==
    ASSUME NEW a \in Nat \ {0}, NEW k \in Nat
    PROVE  Doublings(a, k) = [n \in 0..k |-> IF n = 0 THEN a ELSE 2 * Doublings(a, k)[n - 1]]
<1> DEFINE G(h, j) == h = [n \in 0..j |-> IF n = 0 THEN a ELSE 2 * h[n - 1]]
           S == {j \in Nat : \E h : G(h, j)}
<1>1. 0 \in S
  <2> DEFINE h == [n \in 0..0 |-> a]
  <2>1. h = [n \in 0..0 |-> IF n = 0 THEN a ELSE 2 * h[n - 1]]
    OBVIOUS
  <2> QED
    BY <2>1
<1>2. ASSUME NEW j \in Nat, j \in S PROVE j + 1 \in S
  <2>1. PICK h : h = [n \in 0..j |-> IF n = 0 THEN a ELSE 2 * h[n - 1]]
    BY <1>2
  <2> DEFINE g == [n \in 0..(j + 1) |-> IF n = 0 THEN a ELSE 2 * h[n - 1]]
  <2>2. ASSUME NEW n \in 0..(j + 1), n # 0 PROVE g[n - 1] = h[n - 1]
    <3>1. n - 1 \in 0..j /\ n - 1 \in 0..(j + 1)
      BY <2>2
    <3>2. h[n - 1] = IF n - 1 = 0 THEN a ELSE 2 * h[n - 1 - 1]
      BY <3>1, <2>1
    <3> QED
      BY <3>1, <3>2
  <2>3. g = [n \in 0..(j + 1) |-> IF n = 0 THEN a ELSE 2 * g[n - 1]]
    BY <2>2
  <2>4. \E x : G(x, j + 1)
    <3> HIDE DEF g
    <3> QED
      BY <2>3
  <2> QED
    BY <2>4
<1>3. k \in S
  <2> HIDE DEF S
  <2> QED
    BY <1>1, <1>2, Induct
<1>4. \E h : G(h, k)
  BY <1>3
<1> QED
  BY <1>4 DEF Doublings

\* It grows by one at least, at every turn.
LEMMA DoublingsGrow ==
    ASSUME NEW a \in Nat \ {0}, NEW k \in Nat, NEW n \in 0..k
    PROVE  Doublings(a, k)[n] \in Nat /\ Doublings(a, k)[n] >= n + a
<1> DEFINE f == Doublings(a, k)
           S == {j \in Nat : j <= k => f[j] \in Nat /\ f[j] >= j + a}
<1>0. f = [m \in 0..k |-> IF m = 0 THEN a ELSE 2 * f[m - 1]]
  BY DoublingsExist
<1> HIDE DEF f
<1>1. 0 \in S
  BY <1>0
<1>2. ASSUME NEW j \in Nat, j \in S PROVE j + 1 \in S
  <2> SUFFICES ASSUME j + 1 <= k PROVE f[j + 1] \in Nat /\ f[j + 1] >= j + 1 + a
    OBVIOUS
  <2>1. j + 1 \in 0..k /\ f[j + 1] = 2 * f[j]
    BY <1>0
  <2>2. f[j] \in Nat /\ f[j] >= j + a
    BY <1>2
  <2> QED
    BY <2>1, <2>2
<1> QED
  <2> HIDE DEF S
  <2>1. n \in S
    BY <1>1, <1>2, Induct
  <2> QED
    BY <2>1 DEF S, f

\* A chunk holds a frame, and the ring more chunks than are ever filled: the
\* loops stop.
LEMMA ChunkHoldsFrames ==
    ASSUME NEW latency \in Latencies
    PROVE  FramesPerChunk(latency) \in Nat \ {0}
<1> DEFINE f == Doublings(MinFrames, latency)
           T == {n \in 0..latency : f[n] * 7 >= latency * 2}
<1>1. latency \in Nat \ {0} /\ MinFrames \in Nat \ {0}
  BY DeviceAssumption
<1>2. \A n \in 0..latency : f[n] \in Nat /\ f[n] >= n + MinFrames
  BY <1>1, DoublingsGrow
<1> HIDE DEF f
<1>3. PICK n \in T : \A m \in T : n <= m
  <2>1. latency \in T
    BY <1>1, <1>2
  <2>2. T \in SUBSET Nat
    BY <1>1
  <2> HIDE DEF T
  <2> QED
    BY <2>1, <2>2, Smallest
<1>4. n \in 0..latency /\ f[n] * 7 >= latency * 2
  BY <1>3
<1>5. ASSUME NEW m \in 0..(n - 1) PROVE f[m] * 7 < latency * 2
  <2>1. m \in 0..latency /\ m \notin T
    BY <1>1, <1>3, <1>4
  <2> QED
    BY <1>1, <1>2, <2>1
<1> DEFINE P(x) == f[x] * 7 >= latency * 2 /\ \A m \in 0..(x - 1) : f[m] * 7 < latency * 2
<1>6. \E x \in 0..latency : P(x)
  BY <1>4, <1>5
<1>7. FramesPerChunk(latency) = f[CHOOSE x \in 0..latency : P(x)]
  BY DEF FramesPerChunk, f
<1> HIDE DEF P
<1>8. (CHOOSE x \in 0..latency : P(x)) \in 0..latency
  BY <1>6
<1> QED
  BY <1>1, <1>2, <1>7, <1>8

LEMMA RingHoldsChunks ==
    ASSUME NEW chunks \in Nat
    PROVE  RingSize(chunks) \in Nat /\ RingSize(chunks) > chunks
<1> DEFINE f == Doublings(2, chunks)
           T == {n \in 0..chunks : f[n] > chunks}
<1>1. \A n \in 0..chunks : f[n] \in Nat /\ f[n] >= n + 2
  BY DoublingsGrow
<1> HIDE DEF f
<1>2. PICK n \in T : \A m \in T : n <= m
  <2>1. chunks \in T
    BY <1>1
  <2>2. T \in SUBSET Nat
    OBVIOUS
  <2> HIDE DEF T
  <2> QED
    BY <2>1, <2>2, Smallest
<1>3. n \in 0..chunks /\ f[n] > chunks
  BY <1>2
<1>4. ASSUME NEW m \in 0..(n - 1) PROVE f[m] <= chunks
  <2>1. m \in 0..chunks /\ m \notin T
    BY <1>2, <1>3
  <2> QED
    BY <1>1, <2>1
<1> DEFINE P(x) == f[x] > chunks /\ \A m \in 0..(x - 1) : f[m] <= chunks
<1>5. \E x \in 0..chunks : P(x)
  BY <1>3, <1>4
<1>6. RingSize(chunks) = f[CHOOSE x \in 0..chunks : P(x)]
  BY DEF RingSize, f
<1>7. P(CHOOSE x \in 0..chunks : P(x))
  <2> HIDE DEF P
  <2> QED
    BY <1>5
<1>8. (CHOOSE x \in 0..chunks : P(x)) \in 0..chunks
  <2> HIDE DEF P
  <2> QED
    BY <1>5
<1> QED
  BY <1>1, <1>6, <1>7, <1>8

-----------------------------------------------------------------------------
(* The ring of the sound device.                                           *)

Devs(n, f) ==
    [fpc : {f}, samples : Nat, latency : Nat, nchunks : {n},
     chunks : [0..(n - 1) -> [1..f -> Nat]], state : [0..(n - 1) -> BOOLEAN],
     rchunk : 0..(n - 1), rpos : 0..f, wchunk : 0..(n - 1), wpos : 0..f,
     pending : BOOLEAN, fill : Nat, count : Nat]

RingTyped ==
    /\ dev.nchunks \in Nat \ {0} /\ dev.fpc \in Nat \ {0}
    /\ dev \in Devs(dev.nchunks, dev.fpc)
    /\ feeder \in {"get", "wait", "fill", "failed"}
    /\ player \in [at : {"paused", "idle", "loop", "done", "dead"}, len : Nat]
    /\ written \in Nat /\ heard \in Seq(Nat)

\* Chunks that wait or are being played; the k-th of them; frames played before the first.
Unplayed == dev.latency - dev.count - (IF feeder = "fill" THEN 1 ELSE 0)
At(k) == IF dev.rchunk + k < dev.nchunks THEN dev.rchunk + k
         ELSE dev.rchunk + k - dev.nchunks
First == Len(heard) - dev.rpos

Marked ==
    /\ Unplayed \in Nat /\ dev.latency < dev.nchunks
    /\ \A k \in 0..(dev.nchunks - 1) : dev.state[At(k)] <=> k < Unplayed
    /\ dev.wchunk = At(Unplayed)
Held ==
    /\ written = First + Unplayed * dev.fpc + dev.wpos
    /\ \A k \in 0..(Unplayed - 1) : \A i \in 1..dev.fpc :
          dev.chunks[At(k)][i] = First + k * dev.fpc + i
    /\ \A i \in 1..dev.wpos : dev.chunks[dev.wchunk][i] = First + Unplayed * dev.fpc + i
    /\ \A i \in 1..Len(heard) : heard[i] = i
Turns ==
    /\ feeder # "fill" => dev.wpos = 0
    /\ feeder = "get" => ~dev.pending
    /\ dev.rpos > 0 => Unplayed > 0
    /\ player.at = "done" <=> dev.rpos = dev.fpc
    /\ dev.fill > 0 => player.at = "paused"

RingInv == feeder # "closed" => RingTyped /\ Marked /\ Held /\ Turns

\* The next position in the ring.
LEMMA NextPosition ==
    ASSUME NEW n \in Nat \ {0}, NEW c \in 0..(n - 1)
    PROVE  (c + 1) % n = IF c + 1 = n THEN 0 ELSE c + 1
  BY Z3

LEMMA TimesNext ==
    ASSUME NEW k \in Int, NEW f \in Int
    PROVE  (k + 1) * f = k * f + f /\ k * f \in Int /\ 0 * f = 0
  BY Z3

LEMMA TimesLess ==
    ASSUME NEW a \in Nat, NEW b \in Nat, NEW f \in Nat, a <= b
    PROVE  a * f <= b * f
  BY Z3

\* Positions are distinct, and each is one of them.
LEMMA Positions ==
    ASSUME RingTyped
    PROVE  /\ \A k \in 0..(dev.nchunks - 1) : At(k) \in 0..(dev.nchunks - 1)
           /\ \A k, j \in 0..(dev.nchunks - 1) : At(k) = At(j) => k = j
           /\ \A c \in 0..(dev.nchunks - 1) : \E k \in 0..(dev.nchunks - 1) : c = At(k)
           /\ At(0) = dev.rchunk
<1>1. dev.nchunks \in Nat \ {0} /\ dev.rchunk \in 0..(dev.nchunks - 1)
  BY DEF RingTyped, Devs
<1> QED
  <2>1. ASSUME NEW c \in 0..(dev.nchunks - 1)
        PROVE  \E k \in 0..(dev.nchunks - 1) : c = At(k)
    <3>1. CASE c >= dev.rchunk
      <4>1. c - dev.rchunk \in 0..(dev.nchunks - 1) /\ c = At(c - dev.rchunk)
        BY <1>1, <3>1 DEF At
      <4> QED
        BY <4>1
    <3>2. CASE c < dev.rchunk
      <4>1. /\ c - dev.rchunk + dev.nchunks \in 0..(dev.nchunks - 1)
            /\ c = At(c - dev.rchunk + dev.nchunks)
        BY <1>1, <3>2 DEF At
      <4> QED
        BY <4>1
    <3> QED
      BY <1>1, <3>1, <3>2
  <2>2. \A k \in 0..(dev.nchunks - 1) : At(k) \in 0..(dev.nchunks - 1)
    BY <1>1 DEF At
  <2>3. \A k, j \in 0..(dev.nchunks - 1) : At(k) = At(j) => k = j
    BY <1>1 DEF At
  <2>4. At(0) = dev.rchunk
    BY <1>1 DEF At
  <2> QED
    BY <2>1, <2>2, <2>3, <2>4

LEMMA RingOpens ==
    ASSUME NEW latency \in Latencies, NEW samples \in SampleCounts,
           DeviceOpens(latency, samples)
    PROVE  RingInv'
<1> DEFINE chunks == LatencyChunks(latency, samples)
           f == FramesPerChunk(latency)
           n == RingSize(chunks)
<1>0. f \in Nat \ {0}
  BY ChunkHoldsFrames
<1>2. latency \in Nat \ {0} /\ samples \in Nat \ {0}
  BY DeviceAssumption
<1>3. chunks \in Nat
  <2> DEFINE most == IF samples + f > latency THEN samples + f ELSE latency
  <2>1. f \div 2 \in Nat
    BY <1>0
  <2>2. most + f \div 2 \in Nat
    BY <1>0, <1>2, <2>1
  <2>3. chunks = (most + f \div 2) \div f
    BY DEF LatencyChunks
  <2> HIDE DEF most, f, chunks
  <2>4. (most + f \div 2) \div f \in Nat
    BY <1>0, <2>2, Z3
  <2> QED
    BY <2>3, <2>4
<1>1. f \in Nat \ {0} /\ n \in Nat /\ n > chunks
  <2> HIDE DEF chunks, f
  <2> QED
    BY <1>0, <1>3, RingHoldsChunks
<1>4. dev' = [fpc |-> f, samples |-> samples, latency |-> chunks, nchunks |-> n,
              chunks |-> [c \in 0..(n - 1) |-> [i \in 1..f |-> 0]],
              state |-> [c \in 0..(n - 1) |-> FALSE],
              rchunk |-> 0, rpos |-> 0, wchunk |-> 0, wpos |-> 0,
              pending |-> FALSE, fill |-> chunks, count |-> chunks]
  BY DEF DeviceOpens, Opened
<1>5. /\ feeder' = "get" /\ player' = [at |-> "paused", len |-> 0]
      /\ written' = 0 /\ heard' = <<>>
  BY DEF DeviceOpens
<1> HIDE DEF chunks, f, n
<1>6. RingTyped'
  <2>1. dev' \in Devs(n, f)
    BY <1>1, <1>2, <1>3, <1>4 DEF Devs
  <2> QED
    BY <1>1, <1>3, <1>4, <1>5, <2>1 DEF RingTyped
<1>7. Unplayed' = 0
  BY <1>3, <1>4, <1>5 DEF Unplayed
<1>8. Marked'
  <2>1. ASSUME NEW k \in 0..(n - 1) PROVE At(k)' = k
    BY <1>1, <1>4 DEF At
  <2> QED
    BY <1>1, <1>3, <1>4, <1>7, <2>1 DEF Marked
<1>9. Held'
  BY <1>1, <1>4, <1>5, <1>7, TimesNext DEF Held, First
<1> QED
  BY <1>1, <1>4, <1>5, <1>6, <1>7, <1>8, <1>9 DEF RingInv, Turns

\* The core thread asks for a chunk, waits for it, or gives up.
LEMMA RingAsks ==
    ASSUME RingInv, GetBuffer \/ BufferReady \/ BufferTimesOut
    PROVE  RingInv'
<1>0. feeder # "closed" /\ RingTyped /\ Marked /\ Held /\ Turns
  BY DEF RingInv, GetBuffer, BufferReady, BufferTimesOut
<1> DEFINE n == dev.nchunks
           f == dev.fpc
<1>1. n \in Nat \ {0} /\ f \in Nat \ {0} /\ dev \in Devs(n, f)
  BY <1>0 DEF RingTyped
<1>2. /\ dev' \in Devs(n, f)
      /\ dev'.latency = dev.latency /\ dev'.chunks = dev.chunks /\ dev'.state = dev.state
      /\ dev'.rchunk = dev.rchunk /\ dev'.rpos = dev.rpos /\ dev'.wchunk = dev.wchunk
      /\ dev'.wpos = dev.wpos /\ dev'.fill = dev.fill
      /\ UNCHANGED <<player, written, heard>>
  <2>1. CASE GetBuffer
    BY <1>0, <1>1, <2>1 DEF GetBuffer, Devs
  <2>2. CASE BufferReady
    <3>1. /\ dev' = [dev EXCEPT !.count = dev.count - 1] /\ dev.count > 0
          /\ UNCHANGED <<player, written, heard>>
      BY <2>2 DEF BufferReady
    <3>2. dev.count - 1 \in Nat
      BY <1>1, <3>1 DEF Devs
    <3> QED
      BY <1>1, <3>1, <3>2 DEF Devs
  <2>3. CASE BufferTimesOut
    BY <1>0, <1>1, <2>3 DEF BufferTimesOut, Devs
  <2> QED
    BY <2>1, <2>2, <2>3
<1>3. /\ Unplayed' = Unplayed
      /\ dev'.wpos = 0
      /\ feeder' \in {"wait", "fill", "failed"}
  <2>0. dev.latency \in Nat /\ dev.count \in Nat
    BY <1>1 DEF Devs
  <2>1. CASE GetBuffer
    <3>1. feeder = "get" /\ feeder' = "wait" /\ dev'.count = dev.count
      BY <1>0, <1>1, <2>1 DEF GetBuffer, Turns, Devs
    <3> QED
      BY <1>0, <1>2, <3>1 DEF Unplayed, Turns
  <2>2. CASE BufferReady
    <3>1. feeder = "wait" /\ feeder' = "fill" /\ dev'.count = dev.count - 1
      BY <1>1, <2>2 DEF BufferReady, Devs
    <3>2. feeder # "fill" /\ feeder' # "get"
      BY <3>1
    <3>3. dev.wpos = 0
      BY <1>0, <3>2 DEF Turns
    <3> QED
      BY <1>2, <2>0, <3>1, <3>3 DEF Unplayed
  <2>3. CASE BufferTimesOut
    <3>1. feeder = "wait" /\ feeder' = "failed" /\ dev' = dev
      BY <2>3 DEF BufferTimesOut
    <3> QED
      BY <1>0, <3>1 DEF Unplayed, Turns
  <2> QED
    BY <2>1, <2>2, <2>3
<1>4. dev'.nchunks = n /\ dev'.fpc = f
  BY <1>2 DEF Devs
<1>5. RingTyped'
  BY <1>0, <1>1, <1>2, <1>3, <1>4 DEF RingTyped
<1>6. \A k : At(k)' = At(k)
  BY <1>2, <1>4 DEF At
<1>7. Marked'
  BY <1>0, <1>2, <1>3, <1>4, <1>6 DEF Marked
<1>8. First' = First
  BY <1>2 DEF First
<1>9. Held'
  BY <1>0, <1>2, <1>3, <1>4, <1>6, <1>8 DEF Held
<1>10. Turns'
  BY <1>0, <1>2, <1>3, <1>4 DEF Turns
<1> QED
  BY <1>5, <1>7, <1>9, <1>10 DEF RingInv

\* A frame goes behind those that wait, and touches none of their chunks.
LEMMA RingIsWritten == RingInv /\ FrameWritten => RingInv'
<1> SUFFICES ASSUME RingInv, FrameWritten PROVE RingInv'
  OBVIOUS
<1>0. feeder = "fill" /\ RingTyped /\ Marked /\ Held /\ Turns
  BY DEF RingInv, FrameWritten
<1> DEFINE n == dev.nchunks
           f == dev.fpc
<1>1. n \in Nat \ {0} /\ f \in Nat \ {0} /\ dev \in Devs(n, f) /\ written \in Nat
  BY <1>0 DEF RingTyped
<1>2. /\ dev.chunks \in [0..(n - 1) -> [1..f -> Nat]] /\ dev.wchunk \in 0..(n - 1)
      /\ dev.wpos \in 0..f /\ dev.wpos < f /\ dev.latency \in Nat /\ dev.count \in Nat
  BY <1>1 DEF Devs, FrameWritten
<1> DEFINE p == dev.wpos + 1
           more == [dev.chunks EXCEPT ![dev.wchunk][p] = written + 1]
<1>3. p \in 1..f /\ more \in [0..(n - 1) -> [1..f -> Nat]]
  BY <1>1, <1>2
<1>4. /\ \A c \in 0..(n - 1) : c # dev.wchunk => more[c] = dev.chunks[c]
      /\ \A i \in 1..f : more[dev.wchunk][i] = IF i = p THEN written + 1
                                               ELSE dev.chunks[dev.wchunk][i]
  BY <1>2, <1>3
<1>5. written' = written + 1 /\ dev' = [[dev EXCEPT !.chunks = more] EXCEPT !.wpos = p]
  BY <1>1 DEF FrameWritten, Devs
<1> HIDE DEF more
<1>6. /\ dev' \in Devs(n, f)
      /\ dev' = [dev EXCEPT !.chunks = more, !.wpos = p]
  <2> DEFINE e == [dev EXCEPT !.chunks = more]
  <2>1. e \in Devs(n, f)
    BY <1>1, <1>3 DEF Devs
  <2>2. dev' = [e EXCEPT !.wpos = p]
    BY <1>5
  <2> HIDE DEF e
  <2>3. p \in 0..f
    BY <1>1, <1>3
  <2>4. dev' \in Devs(n, f)
    <3> HIDE DEF p, n, f
    <3> QED
      BY <2>1, <2>2, <2>3 DEF Devs
  <2> QED
    BY <1>1, <1>5, <2>4 DEF Devs
<1>7. /\ dev'.latency = dev.latency /\ dev'.chunks = more /\ dev'.state = dev.state
      /\ dev'.rchunk = dev.rchunk /\ dev'.rpos = dev.rpos /\ dev'.wchunk = dev.wchunk
      /\ dev'.wpos = p /\ dev'.fill = dev.fill /\ dev'.count = dev.count
      /\ dev'.pending = dev.pending /\ dev'.nchunks = n /\ dev'.fpc = f
      /\ UNCHANGED <<feeder, player, heard>>
  BY <1>1, <1>6 DEF Devs, FrameWritten
<1>8. RingTyped'
  BY <1>0, <1>1, <1>5, <1>6, <1>7 DEF RingTyped
<1>9. Unplayed' = Unplayed /\ First' = First /\ \A k : At(k)' = At(k)
  BY <1>7 DEF Unplayed, First, At
<1>10. Marked'
  BY <1>0, <1>7, <1>9 DEF Marked
<1>11. Unplayed < n /\ Unplayed \in Nat
  BY <1>0, <1>1, <1>2 DEF Marked, Unplayed
<1>12. \A k \in 0..(Unplayed - 1) : At(k) \in 0..(n - 1) /\ At(k) # dev.wchunk
  <2>1. dev.wchunk = At(Unplayed)
    BY <1>0 DEF Marked
  <2> QED
    BY <1>0, <1>1, <1>11, <2>1, Positions
<1>13. Unplayed * f \in Int /\ First \in Int
  BY <1>0, <1>1, <1>11, TimesNext DEF First, RingTyped, Devs
<1>14. written = First + Unplayed * f + dev.wpos
  BY <1>0 DEF Held
<1>15. \A k \in 0..(Unplayed - 1) : \A i \in 1..f :
          more[At(k)][i] = First + k * f + i
  BY <1>0, <1>4, <1>12 DEF Held
<1>16. \A i \in 1..p : more[dev.wchunk][i] = First + Unplayed * f + i
  <2> SUFFICES ASSUME NEW i \in 1..p PROVE more[dev.wchunk][i] = First + Unplayed * f + i
    OBVIOUS
  <2>1. CASE i = p
    <3>1. more[dev.wchunk][i] = written + 1
      BY <1>3, <1>4, <2>1
    <3>2. written + 1 = First + Unplayed * f + i
      BY <1>1, <1>2, <1>13, <1>14, <2>1
    <3> QED
      BY <3>1, <3>2
  <2>2. CASE i # p
    <3>1. i \in 1..dev.wpos /\ i \in 1..f
      BY <1>1, <1>2, <2>2
    <3> QED
      BY <1>0, <1>4, <2>2, <3>1 DEF Held
  <2> QED
    BY <2>1, <2>2
<1>17. written' = First + Unplayed * f + p
  BY <1>2, <1>5, <1>13, <1>14
<1>18. \A i \in 1..Len(heard) : heard[i] = i
  BY <1>0 DEF Held
<1> HIDE DEF p
<1>19. Held'
  BY <1>7, <1>9, <1>15, <1>16, <1>17, <1>18 DEF Held
<1>20. Turns'
  BY <1>0, <1>7, <1>9 DEF Turns
<1> QED
  BY <1>8, <1>10, <1>19, <1>20 DEF RingInv

\* A chunk that is full is the last of those that wait.
LEMMA RingIsPlayed == RingInv /\ PlayBuffer => RingInv'
<1> SUFFICES ASSUME RingInv, PlayBuffer PROVE RingInv'
  OBVIOUS
<1>0. feeder = "fill" /\ RingTyped /\ Marked /\ Held /\ Turns /\ dev.wpos = dev.fpc
  BY DEF RingInv, PlayBuffer
<1> DEFINE n == dev.nchunks
           f == dev.fpc
           w == dev.wchunk
           marks == [dev.state EXCEPT ![w] = TRUE]
           left == IF dev.fill > 0 THEN dev.fill - 1 ELSE 0
<1>1. n \in Nat \ {0} /\ f \in Nat \ {0} /\ dev \in Devs(n, f) /\ written \in Nat
  BY <1>0 DEF RingTyped
<1>2. /\ dev.state \in [0..(n - 1) -> BOOLEAN] /\ w \in 0..(n - 1) /\ dev.rchunk \in 0..(n - 1)
      /\ dev.latency \in Nat /\ dev.count \in Nat /\ dev.fill \in Nat /\ dev.rpos \in 0..f
  BY <1>1 DEF Devs
<1>3. marks \in [0..(n - 1) -> BOOLEAN] /\ left \in Nat /\ After(w) \in 0..(n - 1)
      /\ After(w) = IF w + 1 = n THEN 0 ELSE w + 1
  <2>1. marks \in [0..(n - 1) -> BOOLEAN] /\ left \in Nat
    BY <1>2
  <2>2. After(w) = IF w + 1 = n THEN 0 ELSE w + 1
    <3>1. After(w) = (w + 1) % n
      BY DEF After
    <3> HIDE DEF n, w
    <3> QED
      BY <1>1, <1>2, <3>1, NextPosition
  <2>3. After(w) \in 0..(n - 1)
    <3> HIDE DEF n, w
    <3> QED
      BY <1>1, <1>2, <2>2
  <2> QED
    BY <2>1, <2>2, <2>3
<1>4. /\ dev' = [dev EXCEPT !.pending = FALSE, !.state = marks, !.wchunk = After(w), !.wpos = 0,
                            !.fill = left]
      /\ feeder' = "get" /\ UNCHANGED <<written, heard>>
  BY <1>1 DEF PlayBuffer, Devs
<1>5. \A c \in 0..(n - 1) : marks[c] <=> (dev.state[c] \/ c = w)
  BY <1>2
<1> HIDE DEF marks, left
<1>6. /\ dev' \in Devs(n, f)
      /\ dev'.latency = dev.latency /\ dev'.chunks = dev.chunks /\ dev'.state = marks
      /\ dev'.rchunk = dev.rchunk /\ dev'.rpos = dev.rpos /\ dev'.wchunk = After(w)
      /\ dev'.wpos = 0 /\ dev'.fill = left /\ dev'.count = dev.count
      /\ dev'.pending = FALSE /\ dev'.nchunks = n /\ dev'.fpc = f
  <2> DEFINE a == [dev EXCEPT !.pending = FALSE]
             b == [a EXCEPT !.state = marks]
             c == [b EXCEPT !.wchunk = After(w)]
             d == [c EXCEPT !.wpos = 0]
  <2>1. a \in Devs(n, f)
    BY <1>1 DEF Devs
  <2>2. b \in Devs(n, f)
    <3> HIDE DEF a, n, f, w
    <3> QED
      BY <1>3, <2>1 DEF Devs
  <2>3. c \in Devs(n, f)
    <3> HIDE DEF b, n, f, w
    <3> QED
      BY <1>3, <2>2 DEF Devs
  <2>4. d \in Devs(n, f)
    <3>1. 0 \in 0..f
      BY <1>1
    <3> HIDE DEF c, n, f
    <3> QED
      BY <2>3, <3>1 DEF Devs
  <2>5. dev' = [d EXCEPT !.fill = left]
    BY <1>4
  <2>6. dev' \in Devs(n, f)
    <3> HIDE DEF d, n, f, w
    <3> QED
      BY <1>3, <2>4, <2>5 DEF Devs
  <2> QED
    BY <1>1, <1>4, <2>6 DEF Devs
<1>7. /\ player' \in [at : {"paused", "idle", "loop", "done", "dead"}, len : Nat]
      /\ player'.at = "done" <=> player.at = "done"
      /\ left > 0 => player'.at = "paused"
  <2>1. player \in [at : {"paused", "idle", "loop", "done", "dead"}, len : Nat]
    BY <1>0 DEF RingTyped
  <2>2. CASE dev.fill = 1
    <3>1. player' = [player EXCEPT !.at = "idle"] /\ player.at = "paused" /\ left = 0
      BY <1>0, <2>2 DEF PlayBuffer, Turns, left
    <3> QED
      BY <2>1, <3>1
  <2>3. CASE dev.fill # 1
    <3>1. player' = player
      BY <2>3 DEF PlayBuffer
    <3>2. left > 0 => dev.fill > 0
      BY <1>2 DEF left
    <3> QED
      BY <1>0, <2>1, <3>1, <3>2 DEF Turns
  <2> QED
    BY <2>2, <2>3
<1>8. RingTyped'
  BY <1>0, <1>1, <1>4, <1>6, <1>7 DEF RingTyped
<1>9. Unplayed \in Nat /\ Unplayed + 1 < n /\ Unplayed + 1 <= dev.latency
  BY <1>0, <1>1, <1>2 DEF Marked, Unplayed
<1>10. Unplayed' = Unplayed + 1 /\ First' = First /\ \A k : At(k)' = At(k)
  <2>1. feeder' # "fill" /\ feeder = "fill"
    BY <1>0, <1>4
  <2> QED
    BY <1>2, <1>4, <1>6, <2>1 DEF Unplayed, First, At
<1>11. w = At(Unplayed) /\ After(w) = At(Unplayed + 1)
  <2>1. w = At(Unplayed)
    BY <1>0 DEF Marked
  <2> QED
    <3>1. w = IF dev.rchunk + Unplayed < n THEN dev.rchunk + Unplayed ELSE dev.rchunk + Unplayed - n
      BY <2>1 DEF At
    <3>2. At(Unplayed + 1) = IF dev.rchunk + (Unplayed + 1) < n THEN dev.rchunk + (Unplayed + 1)
                         ELSE dev.rchunk + (Unplayed + 1) - n
      BY DEF At
    <3>3. n \in Nat /\ dev.rchunk \in 0..(n - 1) /\ Unplayed \in Nat /\ Unplayed + 1 < n
      BY <1>1, <1>2, <1>9
    <3> HIDE DEF n, w
    <3> QED
      BY <1>3, <2>1, <3>1, <3>2, <3>3
<1>12. Marked'
  <2>1. ASSUME NEW k \in 0..(n - 1) PROVE marks[At(k)] <=> k < Unplayed + 1
    <3>1. /\ dev.state[At(k)] <=> k < Unplayed
          /\ At(k) \in 0..(n - 1)
          /\ At(k) = w <=> k = Unplayed
      <4>1. Unplayed \in 0..(n - 1)
        BY <1>1, <1>9
      <4> QED
        BY <1>0, <1>11, <4>1, Positions DEF Marked
    <3> QED
      BY <1>5, <1>9, <3>1
  <2> QED
    BY <1>0, <1>1, <1>6, <1>9, <1>10, <1>11, <2>1 DEF Marked
<1>13. Held'
  <2>1. Unplayed * f \in Int /\ (Unplayed + 1) * f = Unplayed * f + f /\ First \in Int
    <3>1. Len(heard) \in Nat /\ dev.rpos \in Int /\ f \in Int /\ Unplayed \in Int
      BY <1>0, <1>1, <1>2, <1>9 DEF RingTyped
    <3> HIDE DEF f
    <3> QED
      BY <3>1, TimesNext DEF First
  <2>2. written' = First + (Unplayed + 1) * f + 0
    BY <1>0, <1>1, <1>4, <2>1 DEF Held
  <2>3. ASSUME NEW k \in 0..((Unplayed + 1) - 1), NEW i \in 1..f
        PROVE  dev.chunks[At(k)][i] = First + k * f + i
    <3>1. CASE k \in 0..(Unplayed - 1)
      BY <1>0, <3>1 DEF Held
    <3>2. CASE k = Unplayed
      BY <1>0, <1>11, <3>2 DEF Held
    <3> QED
      BY <1>9, <3>1, <3>2
  <2>4. \A i \in 1..Len(heard) : heard[i] = i
    BY <1>0 DEF Held
  <2> QED
    BY <1>4, <1>6, <1>10, <2>2, <2>3, <2>4 DEF Held
<1>14. Turns'
  BY <1>0, <1>1, <1>2, <1>4, <1>6, <1>7, <1>9, <1>10 DEF Turns
<1> QED
  BY <1>8, <1>12, <1>13, <1>14 DEF RingInv

\* SDL calls back, finds no chunk, is served, or dies: the ring is as it was.
LEMMA RingRests ==
    ASSUME RingInv, feeder # "closed",
           CallsBack \/ Underrun \/ CallbackEnds \/ PlayerDies
    PROVE  RingInv'
<1>0. RingTyped /\ Marked /\ Held /\ Turns
  BY DEF RingInv
<1>1. UNCHANGED <<dev, feeder, written, heard>> /\ player.at \in {"idle", "loop"}
  BY DEF CallsBack, Underrun, CallbackEnds, PlayerDies
<1>2. /\ player' \in [at : {"paused", "idle", "loop", "done", "dead"}, len : Nat]
      /\ player'.at \in {"idle", "loop", "dead"}
  BY <1>0 DEF RingTyped, Devs, CallsBack, Underrun, CallbackEnds, PlayerDies
<1>3. Unplayed' = Unplayed /\ First' = First /\ \A k : At(k)' = At(k)
  BY <1>1 DEF Unplayed, First, At
<1>4. RingTyped' /\ Marked' /\ Held'
  BY <1>0, <1>1, <1>2, <1>3 DEF RingTyped, Marked, Held
<1>5. player.at # "done" /\ player'.at # "done" /\ player.at # "paused"
  BY <1>1, <1>2
<1>6. Turns'
  BY <1>0, <1>1, <1>3, <1>5 DEF Turns
<1> QED
  BY <1>4, <1>6 DEF RingInv

\* The frame that is played is the next one.
LEMMA RingIsCopied == RingInv /\ feeder # "closed" /\ CopyFrame => RingInv'
<1> SUFFICES ASSUME RingInv, feeder # "closed", CopyFrame PROVE RingInv'
  OBVIOUS
<1>0. RingTyped /\ Marked /\ Held /\ Turns
  BY DEF RingInv
<1> DEFINE n == dev.nchunks
           f == dev.fpc
           p == dev.rpos + 1
           frame == dev.chunks[dev.rchunk][p]
<1>1. n \in Nat \ {0} /\ f \in Nat \ {0} /\ dev \in Devs(n, f) /\ heard \in Seq(Nat)
      /\ player \in [at : {"paused", "idle", "loop", "done", "dead"}, len : Nat]
  BY <1>0 DEF RingTyped
<1>2. /\ dev.chunks \in [0..(n - 1) -> [1..f -> Nat]] /\ dev.rchunk \in 0..(n - 1)
      /\ dev.rpos \in 0..f /\ dev.rpos # f /\ dev.state[dev.rchunk]
      /\ dev.latency \in Nat /\ dev.count \in Nat /\ player.at = "loop" /\ player.len \in Nat \ {0}
  <2>1. player.at = "loop" /\ player.len > 0 /\ dev.state[dev.rchunk]
    BY DEF CopyFrame
  <2>2. player.len \in Nat
    BY <1>1
  <2>3. dev.rpos # f
    BY <1>0, <2>1 DEF Turns
  <2> QED
    BY <1>1, <2>1, <2>2, <2>3 DEF Devs
<1>3. p \in 1..f /\ p \in 0..f /\ frame \in Nat
  <2>1. f \in Nat \ {0} /\ dev.rpos \in 0..f /\ dev.rpos # f
    BY <1>1, <1>2
  <2>2. p \in 1..f /\ p \in 0..f
    <3> HIDE DEF f
    <3> QED
      BY <2>1
  <2>3. frame \in Nat
    <3> HIDE DEF p, f, n
    <3> QED
      BY <1>2, <2>2
  <2> QED
    BY <2>2, <2>3
<1>4. /\ heard' = Append(heard, frame) /\ dev' = [dev EXCEPT !.rpos = p]
      /\ player' = [at |-> IF dev'.rpos = dev'.fpc THEN "done" ELSE "loop", len |-> player.len - 1]
      /\ UNCHANGED <<feeder, written>>
  BY <1>1 DEF CopyFrame, Devs
<1>5. /\ dev' \in Devs(n, f)
      /\ dev'.latency = dev.latency /\ dev'.chunks = dev.chunks /\ dev'.state = dev.state
      /\ dev'.rchunk = dev.rchunk /\ dev'.rpos = p /\ dev'.wchunk = dev.wchunk
      /\ dev'.wpos = dev.wpos /\ dev'.fill = dev.fill /\ dev'.count = dev.count
      /\ dev'.pending = dev.pending /\ dev'.nchunks = n /\ dev'.fpc = f
  <2> HIDE DEF p
  <2>1. dev' \in Devs(n, f)
    <3> HIDE DEF n, f
    <3> QED
      BY <1>1, <1>3, <1>4 DEF Devs
  <2> QED
    BY <1>1, <1>4, <2>1 DEF Devs
<1>6. /\ heard' \in Seq(Nat) /\ Len(heard') = Len(heard) + 1
      /\ \A i \in 1..Len(heard) : heard'[i] = heard[i]
      /\ heard'[Len(heard) + 1] = frame
  BY <1>1, <1>3, <1>4
<1> HIDE DEF frame
<1>7. player' \in [at : {"paused", "idle", "loop", "done", "dead"}, len : Nat]
  <2>1. player.len - 1 \in Nat
    BY <1>2
  <2> QED
    BY <1>4, <2>1
<1>8. RingTyped'
  BY <1>0, <1>1, <1>4, <1>5, <1>6, <1>7 DEF RingTyped
<1>9. Unplayed' = Unplayed /\ First' = First /\ \A k : At(k)' = At(k)
  <2>1. First' = First
    <3>1. Len(heard) \in Nat /\ Len(heard') = Len(heard) + 1 /\ dev'.rpos = dev.rpos + 1
          /\ dev.rpos \in Int
      BY <1>1, <1>2, <1>5, <1>6
    <3> QED
      BY <3>1 DEF First
  <2> QED
    BY <1>4, <1>5, <2>1 DEF Unplayed, At
<1>10. Marked'
  BY <1>0, <1>4, <1>5, <1>9 DEF Marked
<1>11. Unplayed > 0 /\ Unplayed \in Nat /\ At(0) = dev.rchunk
  <2>1. At(0) = dev.rchunk /\ 0 \in 0..(n - 1)
    BY <1>0, <1>1, Positions
  <2>2. dev.state[At(0)] <=> 0 < Unplayed
    BY <1>0, <2>1 DEF Marked
  <2> QED
    BY <1>0, <1>2, <2>1, <2>2 DEF Marked
<1>12. frame = Len(heard) + 1
  <2>1. frame = First + 0 * f + p
    <3>1. 0 \in 0..(Unplayed - 1)
      BY <1>11
    <3> QED
      BY <1>0, <1>3, <1>11, <3>1 DEF Held, frame
  <2>2. Len(heard) \in Nat /\ dev.rpos \in Int /\ f \in Int
    BY <1>1, <1>2
  <2> HIDE DEF f
  <2> QED
    BY <2>1, <2>2, TimesNext DEF First
<1>13. \A i \in 1..Len(heard') : heard'[i] = i
  <2> SUFFICES ASSUME NEW i \in 1..Len(heard') PROVE heard'[i] = i
    OBVIOUS
  <2>1. CASE i = Len(heard) + 1
    BY <1>6, <1>12, <2>1
  <2>2. CASE i # Len(heard) + 1
    <3>1. i \in 1..Len(heard)
      BY <1>1, <1>6, <2>2
    <3> QED
      BY <1>0, <1>6, <3>1 DEF Held
  <2> QED
    BY <2>1, <2>2
<1>14. Held'
  BY <1>0, <1>4, <1>5, <1>9, <1>13 DEF Held
<1>15. Turns'
  <2>1. player'.at = "done" <=> dev'.rpos = dev'.fpc
    BY <1>4
  <2>2. ~(dev.fill > 0)
    BY <1>0, <1>2 DEF Turns
  <2> QED
    BY <1>0, <1>4, <1>5, <1>9, <1>11, <2>1, <2>2 DEF Turns
<1> QED
  BY <1>8, <1>10, <1>14, <1>15 DEF RingInv

\* A chunk that is played is the first; the others move up.
LEMMA RingGoesOn == RingInv /\ feeder # "closed" /\ ChunkPlayed => RingInv'
<1> SUFFICES ASSUME RingInv, feeder # "closed", ChunkPlayed PROVE RingInv'
  OBVIOUS
<1>0. RingTyped /\ Marked /\ Held /\ Turns /\ player.at = "done"
  BY DEF RingInv, ChunkPlayed
<1> DEFINE n == dev.nchunks
           f == dev.fpc
           r == dev.rchunk
           marks == [dev.state EXCEPT ![r] = FALSE]
<1>1. n \in Nat \ {0} /\ f \in Nat \ {0} /\ dev \in Devs(n, f) /\ heard \in Seq(Nat)
      /\ player \in [at : {"paused", "idle", "loop", "done", "dead"}, len : Nat]
  BY <1>0 DEF RingTyped
<1>2. /\ dev.state \in [0..(n - 1) -> BOOLEAN] /\ r \in 0..(n - 1)
      /\ dev.latency \in Nat /\ dev.count \in Nat /\ dev.wpos \in 0..f
  BY <1>1 DEF Devs
<1>3. dev.rpos = f /\ Unplayed \in Nat \ {0}
  BY <1>0, <1>1 DEF Turns, Marked
<1>4. After(r) = (IF r + 1 = n THEN 0 ELSE r + 1) /\ After(r) \in 0..(n - 1)
  <2>1. After(r) = (r + 1) % n
    BY DEF After
  <2> HIDE DEF n, r
  <2> QED
    BY <1>1, <1>2, <2>1, NextPosition
<1>5. marks \in [0..(n - 1) -> BOOLEAN]
      /\ \A c \in 0..(n - 1) : marks[c] <=> (dev.state[c] /\ c # r)
  BY <1>2
<1>6. /\ dev' = [dev EXCEPT !.state = marks, !.rchunk = After(r), !.rpos = 0, !.count = dev.count + 1]
      /\ player' = [player EXCEPT !.at = "loop"]
      /\ UNCHANGED <<feeder, written, heard>>
  BY <1>1 DEF ChunkPlayed, Devs
<1> HIDE DEF marks
<1>7. /\ dev' \in Devs(n, f)
      /\ dev'.latency = dev.latency /\ dev'.chunks = dev.chunks /\ dev'.state = marks
      /\ dev'.rchunk = After(r) /\ dev'.rpos = 0 /\ dev'.wchunk = dev.wchunk
      /\ dev'.wpos = dev.wpos /\ dev'.fill = dev.fill /\ dev'.count = dev.count + 1
      /\ dev'.pending = dev.pending /\ dev'.nchunks = n /\ dev'.fpc = f
  <2> DEFINE a == [dev EXCEPT !.state = marks]
             b == [a EXCEPT !.rchunk = After(r)]
             c == [b EXCEPT !.rpos = 0]
  <2>1. a \in Devs(n, f)
    <3> HIDE DEF n, f, r
    <3> QED
      BY <1>1, <1>5 DEF Devs
  <2>2. b \in Devs(n, f)
    <3> HIDE DEF a, n, f, r
    <3> QED
      BY <1>4, <2>1 DEF Devs
  <2>3. c \in Devs(n, f)
    <3>1. 0 \in 0..f
      BY <1>1
    <3> HIDE DEF b, n, f, r
    <3> QED
      BY <2>2, <3>1 DEF Devs
  <2>4. dev' = [c EXCEPT !.count = dev.count + 1] /\ dev.count + 1 \in Nat
    BY <1>2, <1>6
  <2>5. dev' \in Devs(n, f)
    <3> HIDE DEF c, n, f, r
    <3> QED
      BY <2>3, <2>4 DEF Devs
  <2> QED
    BY <1>1, <1>6, <2>5 DEF Devs
<1>8. /\ player' \in [at : {"paused", "idle", "loop", "done", "dead"}, len : Nat]
      /\ player'.at = "loop"
  BY <1>1, <1>6
<1>9. RingTyped'
  BY <1>0, <1>1, <1>6, <1>7, <1>8 DEF RingTyped
<1>10. Unplayed' = Unplayed - 1 /\ Unplayed - 1 \in Nat
  BY <1>2, <1>3, <1>6, <1>7 DEF Unplayed
<1>11. First' = First + f /\ First \in Int
  <2>1. Len(heard) \in Nat /\ f \in Int
    BY <1>1
  <2> QED
    BY <1>3, <1>6, <1>7, <2>1 DEF First
<1>12. ASSUME NEW k \in 0..(n - 1)
       PROVE  At(k)' = IF k + 1 = n THEN r ELSE At(k + 1)
  <2>1. At(k)' = IF After(r) + k < n THEN After(r) + k ELSE After(r) + k - n
    BY <1>7 DEF At
  <2>2. At(k + 1) = IF r + (k + 1) < n THEN r + (k + 1) ELSE r + (k + 1) - n
    BY DEF At
  <2> HIDE DEF n, r
  <2> QED
    BY <1>1, <1>2, <1>4, <2>1, <2>2
<1>13. Unplayed < n
  BY <1>0, <1>1, <1>2, <1>3 DEF Marked, Unplayed
<1>14. ASSUME NEW k \in 0..(n - 1)
       PROVE  marks[At(k)'] <=> k < Unplayed - 1
  <2>1. CASE k + 1 = n
    <3>1. At(k)' = r /\ ~(k < Unplayed - 1)
      BY <1>1, <1>3, <1>12, <1>13, <2>1
    <3> QED
      BY <1>2, <1>5, <3>1
  <2>2. CASE k + 1 # n
    <3>1. k + 1 \in 0..(n - 1) /\ 0 \in 0..(n - 1) /\ k + 1 # 0
      BY <1>1, <2>2
    <3>2. At(k)' = At(k + 1)
      BY <1>12, <2>2
    <3>3. At(k + 1) \in 0..(n - 1) /\ At(k + 1) # r
      BY <1>0, <3>1, Positions
    <3>4. dev.state[At(k + 1)] <=> k + 1 < Unplayed
      BY <1>0, <3>1 DEF Marked
    <3>5. k + 1 < Unplayed <=> k < Unplayed - 1
      BY <1>3
    <3> QED
      BY <1>5, <3>2, <3>3, <3>4, <3>5
  <2> QED
    BY <2>1, <2>2
<1>15. At(Unplayed)' = At(Unplayed)
  <2>1. At(Unplayed)' = IF After(r) + (Unplayed - 1) < n THEN After(r) + (Unplayed - 1)
                    ELSE After(r) + (Unplayed - 1) - n
    BY <1>7, <1>10 DEF At
  <2>2. At(Unplayed) = IF r + Unplayed < n THEN r + Unplayed ELSE r + Unplayed - n
    BY DEF At
  <2>3. /\ n \in Nat \ {0} /\ r \in 0..(n - 1) /\ Unplayed \in Nat \ {0} /\ Unplayed < n
        /\ After(r) = IF r + 1 = n THEN 0 ELSE r + 1
    BY <1>1, <1>2, <1>3, <1>4, <1>13
  <2> HIDE DEF n, r
  <2>4. CASE r + 1 = n
    BY <2>1, <2>2, <2>3, <2>4
  <2>5. CASE r + 1 # n
    BY <2>1, <2>2, <2>3, <2>5
  <2> QED
    BY <2>4, <2>5
<1>16. Marked'
  <2>1. dev.wchunk = At(Unplayed) /\ dev.latency < n
    BY <1>0 DEF Marked
  <2> QED
    BY <1>7, <1>10, <1>14, <1>15, <2>1 DEF Marked
<1>17. ASSUME NEW k \in 0..((Unplayed - 1) - 1), NEW i \in 1..f
       PROVE  dev.chunks[At(k)'][i] = (First + f) + k * f + i
  <2>1. k + 1 \in 0..(Unplayed - 1) /\ k \in 0..(n - 1) /\ k + 1 # n /\ k \in Int
    <3>1. n \in Nat \ {0} /\ Unplayed \in Nat \ {0} /\ Unplayed < n
      BY <1>1, <1>3, <1>13
    <3> HIDE DEF n
    <3> QED
      BY <3>1
  <2>2. At(k)' = At(k + 1)
    BY <1>12, <2>1
  <2>3. dev.chunks[At(k + 1)][i] = First + (k + 1) * f + i
    BY <1>0, <2>1 DEF Held
  <2>4. (k + 1) * f = k * f + f /\ k * f \in Int /\ f \in Int
    <3>1. f \in Int
      BY <1>1
    <3> HIDE DEF f
    <3> QED
      BY <2>1, <3>1, TimesNext
  <2> HIDE DEF f
  <2> QED
    BY <1>11, <2>2, <2>3, <2>4
<1>18. Unplayed * f = (Unplayed - 1) * f + f /\ (Unplayed - 1) * f \in Int /\ f \in Int
  <2>1. Unplayed - 1 \in Int /\ f \in Int /\ (Unplayed - 1) + 1 = Unplayed
    <3>1. f \in Int /\ Unplayed \in Nat \ {0}
      BY <1>1, <1>3
    <3> HIDE DEF f
    <3> QED
      BY <3>1
  <2> HIDE DEF f
  <2> QED
    BY <2>1, TimesNext
<1>19. Held'
  <2>1. written = (First + f) + (Unplayed - 1) * f + dev.wpos
    <3>1. written = First + Unplayed * f + dev.wpos /\ dev.wpos \in Int
      BY <1>0, <1>2 DEF Held
    <3> HIDE DEF f
    <3> QED
      BY <1>11, <1>18, <3>1
  <2>2. ASSUME NEW i \in 1..dev.wpos
        PROVE  dev.chunks[dev.wchunk][i] = (First + f) + (Unplayed - 1) * f + i
    <3>1. dev.chunks[dev.wchunk][i] = First + Unplayed * f + i /\ i \in Int
      BY <1>0 DEF Held
    <3> HIDE DEF f
    <3> QED
      BY <1>11, <1>18, <3>1
  <2>3. \A i \in 1..Len(heard) : heard[i] = i
    BY <1>0 DEF Held
  <2> QED
    BY <1>6, <1>7, <1>10, <1>11, <1>17, <2>1, <2>2, <2>3 DEF Held
<1>20. Turns'
  <2>1. dev'.rpos # dev'.fpc /\ player'.at # "done" /\ ~(dev.fill > 0)
    BY <1>0, <1>1, <1>7, <1>8 DEF Turns
  <2> QED
    BY <1>0, <1>6, <1>7, <2>1 DEF Turns
<1> QED
  BY <1>9, <1>16, <1>19, <1>20 DEF RingInv

LEMMA RingStart == DeviceInit => RingInv
  BY DEF DeviceInit, RingInv

LEMMA RingStep == RingInv /\ [DeviceNext]_deviceVars => RingInv'
<1> SUFFICES ASSUME RingInv, [DeviceNext]_deviceVars PROVE RingInv'
  OBVIOUS
<1>1. ASSUME NEW latency \in Latencies, NEW samples \in SampleCounts,
             DeviceOpens(latency, samples)
      PROVE  RingInv'
  BY <1>1, RingOpens
<1>2. CASE DeviceCloses
  BY <1>2 DEF DeviceCloses, RingInv
<1>3. CASE GetBuffer \/ BufferReady \/ BufferTimesOut
  BY <1>3, RingAsks
<1>4. CASE FrameWritten
  BY <1>4, RingIsWritten
<1>5. CASE PlayBuffer
  BY <1>5, RingIsPlayed
<1>6. CASE (Plays \/ PlayerDies) /\ feeder = "closed"
  <2>1. feeder' = "closed"
    BY <1>6 DEF Plays, CallsBack, Underrun, CopyFrame, ChunkPlayed, CallbackEnds, PlayerDies
  <2> QED
    BY <2>1 DEF RingInv
<1>7. CASE (Plays \/ PlayerDies) /\ feeder # "closed"
  <2>1. CASE CallsBack \/ Underrun \/ CallbackEnds \/ PlayerDies
    BY <1>7, <2>1, RingRests
  <2>2. CASE CopyFrame
    BY <1>7, <2>2, RingIsCopied
  <2>3. CASE ChunkPlayed
    BY <1>7, <2>3, RingGoesOn
  <2> QED
    BY <1>7, <2>1, <2>2, <2>3 DEF Plays
<1>8. CASE UNCHANGED deviceVars
  <2>1. UNCHANGED <<dev, feeder, player, written, heard>>
    BY <1>8 DEF deviceVars
  <2>2. Unplayed' = Unplayed /\ First' = First /\ \A k : At(k)' = At(k)
    BY <2>1 DEF Unplayed, First, At
  <2> QED
    BY <2>1, <2>2 DEF RingInv, RingTyped, Marked, Held, Turns
<1> QED
  BY <1>1, <1>2, <1>3, <1>4, <1>5, <1>6, <1>7, <1>8 DEF DeviceNext

LEMMA RingPlays == RingInv => PlayedInOrder
<1> SUFFICES ASSUME RingInv, feeder # "closed" PROVE PlayedInOrder
  BY DEF PlayedInOrder
<1>0. RingTyped /\ Marked /\ Held /\ Turns
  BY DEF RingInv
<1> DEFINE n == dev.nchunks
           f == dev.fpc
           marked == {c \in DOMAIN dev.state : dev.state[c]}
<1>1. n \in Nat \ {0} /\ f \in Nat \ {0} /\ dev \in Devs(n, f) /\ heard \in Seq(Nat)
  BY <1>0 DEF RingTyped
<1>2. /\ dev.state \in [0..(n - 1) -> BOOLEAN] /\ dev.rpos \in 0..f /\ dev.wpos \in 0..f
      /\ dev.latency \in Nat /\ dev.count \in Nat
  BY <1>1 DEF Devs
<1>3. Unplayed \in Nat /\ Unplayed < n /\ Unplayed \in 0..(n - 1)
  BY <1>0, <1>1, <1>2 DEF Marked, Unplayed
<1>4. \A i \in DOMAIN heard : heard[i] = i
  BY <1>0, <1>1 DEF Held
<1>5. written - Len(heard) <= dev.latency * f
  <2>1. written = First + Unplayed * f + dev.wpos /\ First = Len(heard) - dev.rpos
        /\ Len(heard) \in Nat
    BY <1>0, <1>1 DEF Held, First
  <2>2. Unplayed * f \in Int /\ (Unplayed + 1) * f = Unplayed * f + f /\ f \in Int
    <3>1. Unplayed \in Int /\ f \in Int
      BY <1>1, <1>3
    <3> HIDE DEF f
    <3> QED
      BY <3>1, TimesNext
  <2>3. CASE feeder = "fill"
    <3>1. Unplayed + 1 \in Nat /\ Unplayed + 1 <= dev.latency
      BY <1>2, <1>3, <2>3 DEF Unplayed
    <3>2. (Unplayed + 1) * f <= dev.latency * f /\ dev.latency * f \in Int
      <4>1. f \in Nat /\ f \in Int
        BY <1>1
      <4>2. dev.latency \in Nat /\ dev.latency \in Int
        BY <1>2
      <4> HIDE DEF f
      <4> QED
        BY <3>1, <4>1, <4>2, TimesLess, TimesNext, Zenon
    <3>3. dev.rpos \in Nat /\ dev.wpos \in Int /\ dev.wpos <= f
      BY <1>1, <1>2
    <3>4. ASSUME NEW a \in Int, NEW b \in Int, NEW c \in Int, NEW l \in Int, NEW q \in Nat,
                 NEW w \in Int, w <= c, a + c <= b
          PROVE  (l - q + a + w) - l <= b
      BY <3>4
    <3>5. Unplayed * f + f <= dev.latency * f
      BY <2>2, <3>2, Zenon
    <3>6. written = Len(heard) - dev.rpos + Unplayed * f + dev.wpos
      BY <2>1, Zenon
    <3>7. Len(heard) \in Int /\ dev.wpos <= f /\ dev.wpos \in Int
      BY <2>1, <3>3
    <3> HIDE DEF f
    <3>8. (Len(heard) - dev.rpos + Unplayed * f + dev.wpos) - Len(heard) <= dev.latency * f
      BY <2>2, <3>2, <3>3, <3>4, <3>5, <3>7, Zenon
    <3> QED
      BY <3>6, <3>8, Zenon
  <2>4. CASE feeder # "fill"
    <3>1. Unplayed <= dev.latency /\ dev.wpos = 0
      BY <1>0, <1>2, <2>4 DEF Unplayed, Turns
    <3>2. Unplayed * f <= dev.latency * f /\ dev.latency * f \in Int
      <4>1. f \in Nat /\ f \in Int
        BY <1>1
      <4>2. dev.latency \in Nat /\ dev.latency \in Int
        BY <1>2
      <4> HIDE DEF f
      <4> QED
        BY <1>3, <3>1, <4>1, <4>2, TimesLess, TimesNext, Zenon
    <3>3. ASSUME NEW a \in Int, NEW b \in Int, NEW l \in Int, NEW q \in Nat, a <= b
          PROVE  (l - q + a + 0) - l <= b
      BY <3>3
    <3>4. Len(heard) \in Int /\ dev.rpos \in Nat
      BY <1>2, <2>1
    <3>5. written = Len(heard) - dev.rpos + Unplayed * f + 0
      BY <2>1, <3>1, Zenon
    <3> HIDE DEF f
    <3>6. (Len(heard) - dev.rpos + Unplayed * f + 0) - Len(heard) <= dev.latency * f
      BY <2>2, <3>2, <3>3, <3>4, Zenon
    <3> QED
      BY <3>5, <3>6, Zenon
  <2> QED
    BY <2>3, <2>4
<1>6. ~dev.state[dev.wchunk]
  BY <1>0, <1>3 DEF Marked
<1>7. Cardinality(marked) = Unplayed
  <2> DEFINE S == 1..Unplayed
             g == [k \in S |-> At(k - 1)]
  <2>1. \A k \in S : k - 1 \in 0..(n - 1) /\ k - 1 < Unplayed
    BY <1>1, <1>3
  <2>2. \A k \in S : At(k - 1) \in 0..(n - 1) /\ dev.state[At(k - 1)]
    BY <1>0, <2>1, Positions DEF Marked
  <2>3. g \in [S -> marked]
    BY <1>2, <2>2
  <2>4. \A k, j \in S : g[k] = g[j] => k = j
    BY <1>0, <1>3, <2>1, Positions
  <2>5. \A c \in marked : \E k \in S : g[k] = c
    <3> SUFFICES ASSUME NEW c \in marked PROVE \E k \in S : g[k] = c
      OBVIOUS
    <3>1. c \in 0..(n - 1) /\ dev.state[c]
      BY <1>2
    <3>2. PICK k \in 0..(n - 1) : c = At(k)
      BY <1>0, <3>1, Positions
    <3>3. k < Unplayed
      BY <1>0, <3>1, <3>2 DEF Marked
    <3>4. k + 1 \in S /\ (k + 1) - 1 = k
      BY <1>1, <1>3, <3>3
    <3>5. g[k + 1] = c
      BY <3>2, <3>4
    <3> QED
      BY <3>4, <3>5
  <2>6. ExistsBijection(S, marked)
    <3>1. g \in Bijection(S, marked)
      BY <2>3, <2>4, <2>5 DEF Bijection, Injection, Surjection, IsInjective
    <3> QED
      BY <3>1 DEF ExistsBijection
  <2>7. IsFiniteSet(S) /\ Cardinality(S) = Unplayed
    BY <1>3, FS_Interval
  <2> QED
    BY <2>6, <2>7, FS_Bijection
<1>8. dev.count + Unplayed + (IF feeder = "fill" THEN 1 ELSE 0) = dev.latency
  BY <1>2 DEF Unplayed
<1> QED
  BY <1>4, <1>5, <1>6, <1>7, <1>8 DEF PlayedInOrder

\* Whatever the two threads do, in every order: frames are played once and in order,
\* within the latency, and the core never writes where SDL may be reading.
THEOREM SoundCorrect == McSpec => []AudioSound
<1>1. McInit => RingInv
  BY RingStart DEF McInit
<1>2. RingInv /\ [McNext]_McVars => RingInv'
  <2> SUFFICES ASSUME RingInv, [McNext]_McVars PROVE RingInv'
    OBVIOUS
  <2>1. DeviceNext \/ UNCHANGED deviceVars
    BY DEF McNext, McVars
  <2> QED
    BY <2>1, RingStep
<1>3. RingInv => AudioSound
  BY RingPlays DEF AudioSound
<1> QED
  BY <1>1, <1>2, <1>3, PTL DEF McSpec

-----------------------------------------------------------------------------
(* The keys.                                                               *)

Owner(k) ==
    \/ k = pointer \/ k \in held \/ codes[k] # 0
    \/ pressed /\ cur = k /\ (timer = "set" \/ (timer = "none" /\ seqkey # 0))

KeyTyped ==
    /\ front \in {"desktop", "phone"} /\ pointer \in Keys \cup {0} /\ button \in BOOLEAN
    /\ down \subseteq Keys /\ host \subseteq HostKeys /\ focus \in BOOLEAN
    /\ codes \in [Keys -> HostKeys \cup {0}] /\ seqkey \in HostKeys \cup {0}
    /\ hold \in BOOLEAN /\ pressed \in BOOLEAN /\ timer \in {"none", "set", "lost"}
Owned == \A k \in down : Owner(k)
Hosts ==
    /\ \A k \in Keys : codes[k] \in host \cup {0}
    /\ seqkey \in host \cup {0}
    /\ ~focus => seqkey = 0 /\ \A k \in Keys : codes[k] = 0
Queued ==
    /\ queue \in Seq(Keys) /\ pending \in Seq(Keys) /\ QueueOrdered
    /\ timer = "set" /\ hold => seqkey # 0
Finger ==
    front = "phone" =>
      /\ ~button => pointer = 0
      /\ timer = "none"
      /\ pointer \notin {0, ON_KEY} => pointer \in down

KeyInv == KeyTyped /\ Owned /\ Hosts /\ Queued /\ Finger

\* Keys are typed behind those that wait, and the first of them is taken.
LEMMA ReverseTyped ==
    ASSUME NEW S, NEW s \in Seq(S)
    PROVE  /\ Reverse(s) \in Seq(S) /\ Len(Reverse(s)) = Len(s)
           /\ \A i \in 1..Len(s) : Reverse(s)[i] = s[(Len(s) - i) + 1]
<1>1. \A i \in 1..Len(s) : s[(Len(s) - i) + 1] \in S
  <2> SUFFICES ASSUME NEW i \in 1..Len(s) PROVE s[(Len(s) - i) + 1] \in S
    OBVIOUS
  <2>1. (Len(s) - i) + 1 \in 1..Len(s)
    BY LenProperties
  <2> QED
    BY <2>1, ElementOfSeq
<1>2. Reverse(s) = [i \in 1..Len(s) |-> s[(Len(s) - i) + 1]] /\ Len(s) \in Nat
  BY LenProperties DEF Reverse
<1> QED
  BY <1>1, <1>2, IsASeq

LEMMA TypedBehind ==
    ASSUME NEW S, NEW q \in Seq(S), NEW keys \in Seq(S)
    PROVE  Reverse(Reverse(keys) \o q) = Reverse(q) \o keys
<1> DEFINE r == Reverse(keys)
           a == r \o q
           b == Reverse(q) \o keys
           m == Len(q)
           n == Len(keys)
<1>1. /\ r \in Seq(S) /\ Len(r) = n /\ Reverse(q) \in Seq(S) /\ Len(Reverse(q)) = m
      /\ \A i \in 1..n : r[i] = keys[(n - i) + 1]
      /\ \A i \in 1..m : Reverse(q)[i] = q[(m - i) + 1]
      /\ m \in Nat /\ n \in Nat
  BY ReverseTyped, LenProperties
<1> HIDE DEF r
<1>2. /\ a \in Seq(S) /\ Len(a) = n + m
      /\ \A i \in 1..(n + m) : a[i] = IF i <= n THEN r[i] ELSE q[i - n]
  <2>1. q \in Seq(S) /\ Len(q) = m /\ Len(r) = n /\ r \in Seq(S)
    BY <1>1
  <2> HIDE DEF m, n
  <2> QED
    BY <2>1, ConcatProperties
<1>3. /\ b \in Seq(S) /\ Len(b) = m + n
      /\ \A i \in 1..(m + n) : b[i] = IF i <= m THEN Reverse(q)[i] ELSE keys[i - m]
  <2> DEFINE p == Reverse(q)
  <2>1. p \in Seq(S) /\ Len(p) = m /\ Len(keys) = n
    BY <1>1
  <2> HIDE DEF m, n, p
  <2>2. /\ p \o keys \in Seq(S) /\ Len(p \o keys) = m + n
        /\ \A i \in 1..(m + n) : (p \o keys)[i] = IF i <= m THEN p[i] ELSE keys[i - m]
    BY <2>1, ConcatProperties
  <2> QED
    BY <2>2 DEF p
<1> HIDE DEF a, b
<1>4. /\ Reverse(a) \in Seq(S) /\ Len(Reverse(a)) = n + m
      /\ \A i \in 1..(n + m) : Reverse(a)[i] = a[((n + m) - i) + 1]
  BY <1>2, ReverseTyped
<1>5. ASSUME NEW i \in 1..(n + m) PROVE Reverse(a)[i] = b[i]
  <2>1. CASE i <= m
    <3>1. /\ ((n + m) - i) + 1 \in 1..(n + m) /\ ~(((n + m) - i) + 1 <= n) /\ i \in 1..m
          /\ i \in 1..(m + n) /\ (((n + m) - i) + 1) - n = (m - i) + 1
      BY <1>1, <2>1
    <3>2. a[((n + m) - i) + 1] = q[(m - i) + 1]
      BY <1>2, <3>1
    <3>3. b[i] = q[(m - i) + 1]
      BY <1>1, <1>3, <2>1, <3>1
    <3> QED
      BY <1>4, <3>2, <3>3
  <2>2. CASE ~(i <= m)
    <3>1. /\ ((n + m) - i) + 1 \in 1..n /\ ((n + m) - i) + 1 \in 1..(n + m)
          /\ ((n + m) - i) + 1 <= n /\ i \in 1..(m + n)
          /\ (n - (((n + m) - i) + 1)) + 1 = i - m
      BY <1>1, <2>2
    <3>2. a[((n + m) - i) + 1] = keys[i - m]
      BY <1>1, <1>2, <3>1
    <3>3. b[i] = keys[i - m]
      BY <1>3, <2>2, <3>1
    <3> QED
      BY <1>4, <3>2, <3>3
  <2> QED
    BY <2>1, <2>2
<1>6. Reverse(a) = b
  <2>1. m + n = n + m
    BY <1>1
  <2> HIDE DEF m, n
  <2>2. b \in Seq(S) /\ Len(b) = n + m
    BY <1>3, <2>1
  <2>3. \A i \in 1..Len(b) : Reverse(a)[i] = b[i]
    BY <1>5, <2>2, Zenon
  <2> QED
    BY <1>4, <2>2, <2>3, SeqEqual, Zenon
<1> QED
  BY <1>6 DEF a, b, r

LEMMA TakenFirst ==
    ASSUME NEW S, NEW q \in Seq(S), q # << >>
    PROVE  /\ Front(q) \in Seq(S) /\ Tail(Reverse(q)) \in Seq(S)
           /\ Reverse(Front(q)) = Tail(Reverse(q)) /\ q[Len(q)] \in S
<1> DEFINE m == Len(q)
           p == Reverse(q)
           g == Front(q)
<1>1. m \in Nat \ {0} /\ \A i \in 1..m : q[i] \in S
  BY LenProperties, ElementOfSeq, EmptySeq
<1>2. /\ p \in Seq(S) /\ Len(p) = m
      /\ \A i \in 1..m : p[i] = q[(m - i) + 1]
  BY ReverseTyped
<1>3. /\ g \in Seq(S) /\ Len(g) = m - 1
      /\ \A i \in 1..(m - 1) : g[i] = q[i]
  <2>1. \A i \in 1..(m - 1) : q[i] \in S
    BY <1>1
  <2>2. /\ SubSeq(q, 1, m - 1) \in Seq(S)
        /\ Len(SubSeq(q, 1, m - 1)) = IF 1 <= m - 1 THEN (m - 1) - 1 + 1 ELSE 0
        /\ \A i \in 1..((m - 1) - 1 + 1) : SubSeq(q, 1, m - 1)[i] = q[1 + i - 1]
    BY <1>1, <2>1, SubSeqProperties
  <2>3. g = SubSeq(q, 1, m - 1)
    BY DEF Front
  <2> HIDE DEF g, m
  <2> QED
    BY <1>1, <2>2, <2>3
<1> HIDE DEF p, g
<1>4. p # << >>
  BY <1>1, <1>2
<1>5. /\ Tail(p) \in Seq(S) /\ Len(Tail(p)) = m - 1
      /\ \A i \in 1..(m - 1) : Tail(p)[i] = p[i + 1]
  BY <1>2, <1>4, HeadTailProperties
<1>6. /\ Reverse(g) \in Seq(S) /\ Len(Reverse(g)) = m - 1
      /\ \A i \in 1..(m - 1) : Reverse(g)[i] = g[((m - 1) - i) + 1]
  BY <1>3, ReverseTyped
<1>7. ASSUME NEW i \in 1..(m - 1) PROVE Reverse(g)[i] = Tail(p)[i]
  <2>1. /\ ((m - 1) - i) + 1 \in 1..(m - 1) /\ i + 1 \in 1..m
        /\ (m - (i + 1)) + 1 = ((m - 1) - i) + 1
    BY <1>1
  <2> QED
    BY <1>2, <1>3, <1>5, <1>6, <2>1
<1>8. Reverse(g) = Tail(p)
  BY <1>5, <1>6, <1>7, SeqEqual
<1>9. q[m] \in S
  BY <1>1
<1> QED
  BY <1>3, <1>5, <1>8, <1>9 DEF p, g

\* A key goes down with its scancode; 0 is none.
LEMMA PressedKeys ==
    /\ 0 \notin Keys /\ 0 \notin HostKeys
    /\ \A d : \A k \in Keys : PressKey(d, k) = d \cup {k}
    /\ \A d : PressKey(d, 0) = d
<1>1. Keys \subseteq 1..64 /\ 0 \notin 1..64 /\ 0 \notin HostKeys
  BY KeyboardAssumption
<1> QED
  BY <1>1 DEF PressKey

\* What the handlers of one group leave alone keeps the parts that speak of it.
LEMMA QueueKept ==
    ASSUME KeyInv, UNCHANGED <<codes, seqkey, queueVars, hostVars>>
    PROVE  Hosts' /\ Queued'
BY DEF KeyInv, Hosts, Queued, QueueOrdered, queueVars, hostVars

\* The pointer takes one key and gives back the other.
LEMMA MouseOwns ==
    ASSUME KeyInv, NEW k \in Keys \cup {0}, PressMouseKey(k), button' \in BOOLEAN,
           front = "desktop", UNCHANGED <<front, hostVars, codes, seqkey, queueVars>>
    PROVE  KeyInv'
<1>1. Hosts' /\ Queued'
  BY QueueKept
<1>2. /\ down' \subseteq Keys /\ pointer' = k
      /\ \A x \in down' : x = k \/ (x \in down /\ x # pointer)
      /\ \A x \in held \cap down' : x # k => x \in held'
  <2>1. CASE pointer = k
    <3>1. down' = down /\ held' = held /\ pointer' = k
      BY <2>1 DEF PressMouseKey
    <3> QED
      BY <3>1, <2>1 DEF KeyInv, KeyTyped
  <2>2. CASE pointer # k
    <3>1. /\ down' = PressKey(down \ {pointer}, k) /\ pointer' = k
          /\ held' = held \cap (down' \ {k})
      BY <2>2 DEF PressMouseKey, ReleaseKey
    <3>2. down' = (IF k = 0 THEN down \ {pointer} ELSE (down \ {pointer}) \cup {k})
      BY <3>1, PressedKeys
    <3> QED
      BY <3>1, <3>2 DEF KeyInv, KeyTyped
  <2> QED
    BY <2>1, <2>2
<1>3. KeyTyped'
  BY <1>2 DEF KeyInv, KeyTyped, hostVars, queueVars
<1>4. Owned'
  <2> SUFFICES ASSUME NEW x \in down', x # k PROVE Owner(x)'
    BY <1>2 DEF Owned, Owner
  <2>1. Owner(x) /\ x # pointer /\ x \in down
    BY <1>2 DEF KeyInv, Owned
  <2> QED
    BY <1>2, <2>1 DEF Owner, queueVars
<1>5. Finger'
  BY DEF Finger
<1> QED
  BY <1>1, <1>3, <1>4, <1>5 DEF KeyInv

\* A key is left pressed, or one that was is released.
LEMMA ToggleOwns ==
    ASSUME KeyInv, NEW k \in Keys, PressForGood(k) \/ KeyToggled(k),
           front = "desktop", UNCHANGED <<front, hostVars, codes, seqkey, queueVars>>
    PROVE  KeyInv'
<1>1. Hosts' /\ Queued'
  BY QueueKept
<1>2. /\ \/ down' = down \cup {k} /\ held' = held \cup {k}
         \/ down' = down \ {k} /\ held' = held \ {k}
      /\ UNCHANGED mouseVars
  BY PressedKeys DEF PressForGood, KeyToggled, ReleaseKey
<1>3. KeyTyped'
  BY <1>2 DEF KeyInv, KeyTyped, hostVars, queueVars, mouseVars
<1>4. Owned'
  <2> SUFFICES ASSUME NEW x \in down' PROVE Owner(x)'
    BY DEF Owned
  <2>1. CASE x = k
    BY <1>2, <2>1 DEF Owner
  <2>2. CASE x # k
    <3>1. Owner(x)
      BY <1>2, <2>2 DEF KeyInv, Owned
    <3> QED
      BY <1>2, <2>2, <3>1 DEF Owner, queueVars, mouseVars
  <2> QED
    BY <2>1, <2>2
<1>5. Finger'
  BY DEF Finger
<1> QED
  BY <1>1, <1>3, <1>4, <1>5 DEF KeyInv

\* Keys wait behind those typed before.
LEMMA QueueKeysOrdered ==
    ASSUME Queued, NEW keys \in Seq(Keys), QueueKeys(keys)
    PROVE  queue' \in Seq(Keys) /\ pending' \in Seq(Keys) /\ QueueOrdered'
<1>1. /\ queue \in Seq(Keys) /\ pending \in Seq(Keys) /\ Reverse(queue) = pending
      /\ queue' = Reverse(keys) \o queue /\ pending' = pending \o keys
  BY DEF Queued, QueueOrdered, QueueKeys
<1>2. Reverse(keys) \in Seq(Keys)
  BY ReverseTyped
<1>3. queue' \in Seq(Keys) /\ pending' \in Seq(Keys)
  BY <1>1, <1>2, ConcatProperties
<1>4. Reverse(queue') = pending'
  BY <1>1, TypedBehind
<1> QED
  BY <1>3, <1>4 DEF QueueOrdered

\* A host key that is down holds a key, or the last of those that it types.
LEMMA PressOwns ==
    ASSUME KeyInv, NEW h \in HostKeys, NEW keys \in Bindings[h], KeyPress(h, keys),
           front = "desktop", UNCHANGED <<front, mouseVars>>
    PROVE  KeyInv'
<1>1. keys \in Seq(Keys) /\ h # 0
  BY KeyboardAssumption
<1>2. focus /\ host' = host \cup {h} /\ UNCHANGED focus
  BY DEF KeyPress
<1>3. Finger'
  BY DEF Finger
<1>4. CASE UNCHANGED <<down, held, codes, seqkey, queueVars>>
  <2>1. KeyTyped' /\ Hosts' /\ Queued'
    BY <1>2, <1>4 DEF KeyInv, KeyTyped, Hosts, Queued, QueueOrdered, queueVars, mouseVars
  <2>2. Owned'
    BY <1>4 DEF KeyInv, Owned, Owner, queueVars, mouseVars
  <2> QED
    BY <1>3, <2>1, <2>2 DEF KeyInv
<1>5. CASE /\ Len(keys) = 1 /\ timer = "none"
           /\ down' = PressKey(down, keys[1])
           /\ codes' = [codes EXCEPT ![keys[1]] = h]
           /\ UNCHANGED <<held, seqkey, queueVars>>
  <2> DEFINE k == keys[1]
  <2>1. k \in Keys
    <3>1. Len(keys) = 1 /\ 1 \in 1..1
      BY <1>5
    <3> QED
      BY <1>1, <3>1, ElementOfSeq
  <2>2. /\ down' = down \cup {k} /\ codes' = [codes EXCEPT ![k] = h]
        /\ codes \in [Keys -> HostKeys \cup {0}]
    BY <1>5, <2>1, PressedKeys DEF KeyInv, KeyTyped
  <2> HIDE DEF k
  <2>3. codes'[k] = h /\ \A x \in Keys : x # k => codes'[x] = codes[x]
    BY <2>1, <2>2
  <2>4. KeyTyped'
    BY <1>2, <1>5, <2>1, <2>2 DEF KeyInv, KeyTyped, queueVars, mouseVars
  <2>5. Hosts'
    BY <1>2, <1>5, <2>3 DEF KeyInv, Hosts
  <2>6. Queued'
    BY <1>5 DEF KeyInv, Queued, QueueOrdered, queueVars
  <2>7. Owned'
    <3> SUFFICES ASSUME NEW x \in down', x # k PROVE Owner(x)'
      BY <1>1, <2>3 DEF Owned, Owner
    <3>1. Owner(x) /\ x \in Keys
      BY <2>2 DEF KeyInv, KeyTyped, Owned
    <3>2. codes'[x] = codes[x]
      BY <2>3, <3>1
    <3> QED
      BY <1>5, <3>1, <3>2 DEF Owner, queueVars, mouseVars
  <2> QED
    BY <1>3, <2>4, <2>5, <2>6, <2>7 DEF KeyInv
<1>6. CASE QueueKeys(keys) /\ seqkey' = h /\ UNCHANGED <<down, held, codes>>
  <2>1. /\ timer' \in {"set", "lost"} /\ (timer # "none" => timer' = timer)
        /\ (timer = "none" => timer' = "set") /\ hold' = TRUE
        /\ UNCHANGED <<pressed, cur>>
    BY <1>6 DEF QueueKeys, KeyInv, KeyTyped
  <2>2. KeyTyped' /\ Hosts'
    BY <1>2, <1>6, <2>1 DEF KeyInv, KeyTyped, Hosts, mouseVars
  <2>3. Queued'
    BY <1>1, <1>6, QueueKeysOrdered DEF KeyInv, Queued
  <2>4. Owned'
    BY <1>1, <1>6, <2>1 DEF KeyInv, Owned, Owner, mouseVars
  <2> QED
    BY <1>3, <2>2, <2>3, <2>4 DEF KeyInv
<1> QED
  BY <1>4, <1>5, <1>6 DEF KeyPress

\* The keys of host keys go up, with the last key of a queue that held it.
LEMMA ReleaseOwns ==
    ASSUME KeyInv, NEW which \in SUBSET HostKeys, ReleaseKeycode(which),
           front = "desktop", UNCHANGED <<front, mouseVars>>,
           host' \subseteq HostKeys, focus' \in BOOLEAN,
           \A h \in host : h \in host' \/ h \in which,
           ~focus' => host \subseteq which \/ ~focus
    PROVE  KeyInv'
<1> DEFINE mine == {k \in Keys : codes[k] \in which}
           typed == seqkey \in which
           free == typed /\ timer = "none" /\ pressed
<1>1. /\ down' = down \ (mine \cup (IF free THEN {cur} ELSE {}))
      /\ codes' = [k \in Keys |-> IF k \in mine THEN 0 ELSE codes[k]]
      /\ seqkey' = (IF typed THEN 0 ELSE seqkey)
      /\ hold' = (IF typed /\ timer # "none" THEN FALSE ELSE hold)
      /\ pressed' = (IF free THEN FALSE ELSE pressed)
      /\ cur' = (IF free THEN 0 ELSE cur)
      /\ held' = held \cap down'
      /\ UNCHANGED <<queue, pending, timer>>
  BY DEF ReleaseKeycode
<1>2. \A k \in Keys : codes'[k] = IF codes[k] \in which THEN 0 ELSE codes[k]
  BY <1>1
<1>3. KeyTyped'
  BY <1>1 DEF KeyInv, KeyTyped, mouseVars
<1>4. Hosts'
  <2>1. \A k \in Keys : codes[k] \in host \cup {0}
    BY DEF KeyInv, Hosts
  <2>2. seqkey \in host \cup {0} /\ seqkey' = (IF seqkey \in which THEN 0 ELSE seqkey)
    BY <1>1 DEF KeyInv, Hosts
  <2>3. \A k \in Keys : codes'[k] \in host' \cup {0}
    BY <1>2, <2>1
  <2>4. seqkey' \in host' \cup {0}
    BY <2>2
  <2>5. ASSUME ~focus' PROVE seqkey' = 0 /\ \A k \in Keys : codes'[k] = 0
    <3>1. CASE host \subseteq which
      BY <1>2, <2>1, <2>2, <3>1
    <3>2. CASE ~focus
      BY <1>2, <2>2, <3>2 DEF KeyInv, Hosts
    <3> QED
      BY <2>5, <3>1, <3>2
  <2> QED
    BY <2>3, <2>4, <2>5 DEF Hosts
<1>5. Queued'
  <2>1. timer' = "set" /\ hold' => seqkey' # 0
    BY <1>1 DEF KeyInv, Queued
  <2> QED
    BY <1>1, <2>1 DEF KeyInv, Queued, QueueOrdered
<1>6. Owned'
  <2> SUFFICES ASSUME NEW x \in down' PROVE Owner(x)'
    BY DEF Owned
  <2>1. x \in down /\ x \in Keys /\ codes[x] \notin which /\ (free => x # cur)
    BY <1>1 DEF KeyInv, KeyTyped
  <2>2. Owner(x) /\ codes'[x] = codes[x]
    BY <1>2, <2>1 DEF KeyInv, Owned
  <2>3. CASE x = pointer \/ x \in held \/ codes[x] # 0
    BY <1>1, <2>2, <2>3 DEF Owner, mouseVars
  <2>4. CASE pressed /\ cur = x /\ (timer = "set" \/ (timer = "none" /\ seqkey # 0))
    <3>1. ~free
      BY <2>1, <2>4
    <3>2. pressed' = pressed /\ cur' = cur /\ timer' = timer
      BY <1>1, <3>1
    <3>3. timer = "none" => seqkey' = seqkey
      BY <1>1, <2>4, <3>1
    <3> QED
      BY <2>4, <3>2, <3>3 DEF Owner
  <2> QED
    BY <2>2, <2>3, <2>4 DEF Owner
<1>7. Finger'
  BY DEF Finger
<1> QED
  BY <1>3, <1>4, <1>5, <1>6, <1>7 DEF KeyInv

\* Host keys, and the window that gets them or not.
LEMMA HostOwns ==
    ASSUME KeyInv, front = "desktop", UNCHANGED <<front, mouseVars>>,
           \/ \E h \in HostKeys : KeyRelease(h)
           \/ FocusOut \/ FocusIn
    PROVE  KeyInv'
<1>1. CASE /\ host' \subseteq host /\ focus' \in BOOLEAN /\ (focus => focus') /\ seqkey \in host' \cup {0}
           /\ \A k \in Keys : codes[k] \in host' \cup {0}
           /\ UNCHANGED <<down, held, codes, seqkey, queueVars>>
  <2>1. KeyTyped' /\ Queued'
    BY <1>1 DEF KeyInv, KeyTyped, Queued, QueueOrdered, queueVars, mouseVars
  <2>2. Hosts'
    BY <1>1 DEF KeyInv, Hosts
  <2>3. Owned' /\ Finger'
    BY <1>1 DEF KeyInv, Owned, Owner, Finger, queueVars, mouseVars
  <2> QED
    BY <2>1, <2>2, <2>3 DEF KeyInv
<1>2. ASSUME NEW h \in HostKeys, KeyRelease(h) PROVE KeyInv'
  <2>1. h \in host /\ host' = host \ {h} /\ UNCHANGED focus
    BY <1>2 DEF KeyRelease
  <2>2. CASE focus
    <3>1. ReleaseKeycode({h}) /\ {h} \in SUBSET HostKeys
      BY <1>2, <2>2 DEF KeyRelease
    <3>2. host' \subseteq HostKeys /\ focus' \in BOOLEAN /\ focus'
      BY <2>1, <2>2 DEF KeyInv, KeyTyped
    <3> QED
      BY <2>1, <3>1, <3>2, ReleaseOwns
  <2>3. CASE ~focus
    <3>1. UNCHANGED <<down, held, codes, seqkey, queueVars>>
      BY <1>2, <2>3 DEF KeyRelease
    <3>2. seqkey = 0 /\ \A k \in Keys : codes[k] = 0
      BY <2>3 DEF KeyInv, Hosts
    <3>3. /\ host' \subseteq host /\ focus' \in BOOLEAN /\ (focus => focus')
          /\ seqkey \in host' \cup {0} /\ \A k \in Keys : codes[k] \in host' \cup {0}
      BY <2>1, <3>2 DEF KeyInv, KeyTyped
    <3> QED
      BY <1>1, <3>1, <3>3
  <2> QED
    BY <2>2, <2>3
<1>3. CASE FocusOut
  <2>1. ReleaseKeycode(HostKeys) /\ focus' = FALSE /\ host' = host /\ HostKeys \in SUBSET HostKeys
    BY <1>3 DEF FocusOut
  <2>2. host' \subseteq HostKeys /\ host \subseteq HostKeys /\ focus' \in BOOLEAN
    BY <2>1 DEF KeyInv, KeyTyped
  <2> QED
    BY <2>1, <2>2, ReleaseOwns
<1>4. CASE FocusIn
  BY <1>1, <1>4 DEF FocusIn, KeyInv, Hosts
<1> QED
  BY <1>2, <1>3, <1>4

\* The timer of the queue, which runs on the desktop only.
LEMMA TimerOwns ==
    ASSUME KeyInv, TmrKeyQueue
    PROVE  KeyInv'
<1>1. /\ timer = "set" /\ held' = held \cap down' /\ front # "phone"
      /\ UNCHANGED <<front, mouseVars, hostVars, codes, seqkey, hold>>
  BY DEF TmrKeyQueue, KeyInv, Finger
<1>2. Hosts' /\ Finger'
  BY <1>1 DEF KeyInv, Hosts, Finger, hostVars
<1>3. CASE /\ pressed /\ (queue # << >> \/ ~hold)
           /\ down' = ReleaseKey(down, cur)
           /\ pressed' = FALSE /\ cur' = 0
           /\ UNCHANGED <<queue, pending, timer>>
  <2>1. KeyTyped' /\ Queued'
    BY <1>1, <1>3 DEF KeyInv, KeyTyped, Queued, QueueOrdered, ReleaseKey, mouseVars, hostVars
  <2>2. Owned'
    BY <1>1, <1>3 DEF KeyInv, Owned, Owner, ReleaseKey, mouseVars
  <2> QED
    BY <1>2, <2>1, <2>2 DEF KeyInv
<1>4. CASE /\ pressed => hold
           /\ timer' = "none"
           /\ UNCHANGED <<down, pressed, cur, queue, pending>>
  <2>1. KeyTyped' /\ Queued'
    BY <1>1, <1>4 DEF KeyInv, KeyTyped, Queued, QueueOrdered, mouseVars, hostVars
  <2>2. Owned'
    BY <1>1, <1>4 DEF KeyInv, Queued, Owned, Owner, mouseVars
  <2> QED
    BY <1>2, <2>1, <2>2 DEF KeyInv
<1>5. CASE /\ ~pressed /\ queue # << >>
           /\ \E k \in {queue[Len(queue)]} :
                /\ down' = PressKey(down, k)
                /\ pressed' = TRUE /\ cur' = k
                /\ queue' = Front(queue) /\ pending' = Tail(pending)
                /\ UNCHANGED timer
  <2> DEFINE k == queue[Len(queue)]
  <2>1. /\ queue \in Seq(Keys) /\ pending = Reverse(queue)
        /\ down' = PressKey(down, k) /\ pressed' = TRUE /\ cur' = k
        /\ queue' = Front(queue) /\ pending' = Tail(pending) /\ UNCHANGED timer
    BY <1>5 DEF KeyInv, Queued, QueueOrdered
  <2>2. k \in Keys /\ queue' \in Seq(Keys) /\ pending' \in Seq(Keys) /\ Reverse(queue') = pending'
    BY <1>5, <2>1, TakenFirst
  <2>3. down' = down \cup {k}
    BY <2>1, <2>2, PressedKeys
  <2> HIDE DEF k
  <2>4. KeyTyped'
    BY <1>1, <2>1, <2>2, <2>3 DEF KeyInv, KeyTyped, mouseVars, hostVars
  <2>5. Queued'
    BY <1>1, <2>1, <2>2 DEF KeyInv, Queued, QueueOrdered
  <2>6. Owned'
    <3> SUFFICES ASSUME NEW x \in down', x # k PROVE Owner(x)'
      BY <1>1, <2>1 DEF Owned, Owner
    <3>1. Owner(x)
      BY <2>3 DEF KeyInv, Owned
    <3> QED
      BY <1>1, <1>5, <3>1 DEF Owner, mouseVars
  <2> QED
    BY <1>2, <2>4, <2>5, <2>6 DEF KeyInv
<1>6. QueueTimer
  BY DEF TmrKeyQueue
<1> QED
  BY <1>3, <1>4, <1>5, <1>6 DEF QueueTimer

\* A reset releases everything, and another calculator has no key down.
LEMMA ResetOwns ==
    ASSUME KeyInv, front = "desktop", UNCHANGED <<front, hostVars>>,
           ResetKeypad \/ OtherCalculator
    PROVE  KeyInv'
<1>1. /\ down' = {} /\ timer' \in {"none", timer, "lost"}
      /\ UNCHANGED <<mouseVars, codes, seqkey, queue, pending, hold, pressed, cur>>
  BY DEF ResetKeypad, OtherCalculator, queueVars
<1>2. KeyTyped' /\ Hosts'
  BY <1>1 DEF KeyInv, KeyTyped, Hosts, mouseVars, hostVars
<1>3. Owned' /\ Finger'
  BY <1>1 DEF Owned, Finger
<1>4. Queued'
  BY <1>1 DEF KeyInv, Queued, QueueOrdered
<1> QED
  BY <1>2, <1>3, <1>4 DEF KeyInv

\* One finger: its key, keys that it left, and ON that a reset releases.
LEMMA FingerOwns ==
    ASSUME KeyInv, front = "phone", UNCHANGED <<front, hostVars, codes, seqkey, queueVars>>,
           (\E k \in Keys \cup {0} : Touch(k) \/ Lift(k)) \/ ResetOnPhone
    PROVE  KeyInv'
<1>1. Hosts' /\ Queued'
  BY QueueKept
<1>2. ASSUME NEW k \in Keys \cup {0}, Touch(k) PROVE KeyInv'
  <2>1. /\ ~button /\ button' = TRUE /\ pointer' = k /\ pointer = 0
        /\ held' = held \ {k} /\ 0 \notin down
        /\ down' = (IF k = 0 THEN down ELSE down \cup {k})
    BY <1>2, PressedKeys DEF Touch, KeyInv, KeyTyped, Finger
  <2>2. KeyTyped'
    BY <2>1 DEF KeyInv, KeyTyped, hostVars, queueVars
  <2>3. Owned'
    BY <2>1 DEF KeyInv, Owned, Owner, queueVars
  <2>4. Finger'
    BY <2>1 DEF KeyInv, Finger, queueVars
  <2> QED
    BY <1>1, <2>2, <2>3, <2>4 DEF KeyInv
<1>3. ASSUME NEW k \in Keys \cup {0}, Lift(k) PROVE KeyInv'
  <2>1. /\ button' = FALSE /\ pointer' = 0 /\ down' = down \ {k}
        /\ held' = (held \cup {pointer}) \cap down'
    BY <1>3 DEF Lift, ReleaseKey
  <2>2. KeyTyped'
    BY <2>1 DEF KeyInv, KeyTyped, hostVars, queueVars
  <2>3. Owned'
    BY <2>1 DEF KeyInv, Owned, Owner, queueVars
  <2>4. Finger'
    BY <2>1 DEF KeyInv, Finger, queueVars
  <2> QED
    BY <1>1, <2>2, <2>3, <2>4 DEF KeyInv
<1>4. ASSUME ResetOnPhone PROVE KeyInv'
  <2>1. down' = down \ {ON_KEY} /\ held' = held \ {ON_KEY} /\ UNCHANGED mouseVars
    BY <1>4 DEF ResetOnPhone
  <2>2. KeyTyped'
    BY <2>1 DEF KeyInv, KeyTyped, hostVars, queueVars, mouseVars
  <2>3. Owned'
    BY <2>1 DEF KeyInv, Owned, Owner, queueVars, mouseVars
  <2>4. Finger'
    BY <2>1 DEF KeyInv, Finger, queueVars, mouseVars
  <2> QED
    BY <1>1, <2>2, <2>3, <2>4 DEF KeyInv
<1> QED
  BY <1>2, <1>3, <1>4

LEMMA KeyStart == KeyInit => KeyInv
<1> SUFFICES ASSUME KeyInit PROVE KeyInv
  OBVIOUS
<1>1. Reverse(<< >>) = << >>
  <2>1. << >> \in Seq(Keys) /\ Len(<< >>) = 0
    BY EmptySeq
  <2>2. Reverse(<< >>) \in Seq(Keys) /\ Len(Reverse(<< >>)) = 0
    BY <2>1, ReverseTyped
  <2> QED
    BY <2>2, EmptySeq
<1>2. << >> \in Seq(Keys)
  BY EmptySeq
<1>3. /\ front \in {"desktop", "phone"} /\ down = {} /\ pointer = 0 /\ button = FALSE /\ held = {}
      /\ host = {} /\ focus = TRUE /\ codes = [k \in Keys |-> 0] /\ seqkey = 0
      /\ queue = << >> /\ pending = << >> /\ hold = FALSE /\ pressed = FALSE /\ timer = "none"
  BY DEF KeyInit
<1> QED
  BY <1>1, <1>2, <1>3 DEF KeyInv, KeyTyped, Owned, Hosts, Queued, QueueOrdered, Finger

LEMMA KeyStep ==
    ASSUME KeyInv, KeyNext \/ UNCHANGED keyVars
    PROVE  KeyInv'
<1>1. CASE UNCHANGED keyVars
  BY <1>1 DEF keyVars, mouseVars, hostVars, queueVars, KeyInv, KeyTyped, Owned, Owner, Hosts,
              Queued, QueueOrdered, Finger
<1>2. CASE TmrKeyQueue
  BY <1>2, TimerOwns
<1>3. CASE UserActs
  <2>1. UNCHANGED front
    BY <1>3 DEF UserActs
  <2>2. CASE /\ front = "desktop" /\ UNCHANGED <<hostVars, codes, seqkey, queueVars>>
             /\ \/ \E k \in NoKey : ButtonPress(k) \/ PointerMotion(k)
                \/ ButtonRelease
    <3>1. button' \in BOOLEAN /\ \E j \in Keys \cup {0} : PressMouseKey(j)
      BY <2>2 DEF ButtonPress, PointerMotion, ButtonRelease, NoKey, KeyInv, KeyTyped
    <3> QED
      BY <2>1, <2>2, <3>1, MouseOwns
  <2>3. CASE /\ front = "desktop" /\ UNCHANGED <<hostVars, codes, seqkey, queueVars>>
             /\ \E k \in Keys : PressForGood(k) \/ KeyToggled(k)
    BY <2>1, <2>3, ToggleOwns
  <2>4. CASE /\ front = "desktop" /\ UNCHANGED mouseVars
             /\ \E h \in HostKeys : \E keys \in Bindings[h] : KeyPress(h, keys)
    BY <2>1, <2>4, PressOwns
  <2>5. CASE /\ front = "desktop" /\ UNCHANGED mouseVars
             /\ (\E h \in HostKeys : KeyRelease(h)) \/ FocusOut \/ FocusIn
    BY <2>1, <2>5, HostOwns
  <2>6. CASE front = "desktop" /\ (ResetKeypad \/ OtherCalculator) /\ UNCHANGED hostVars
    BY <2>1, <2>6, ResetOwns
  <2>7. CASE /\ front = "phone" /\ UNCHANGED <<hostVars, codes, seqkey, queueVars>>
             /\ (\E k \in NoKey : Touch(k) \/ Lift(k)) \/ ResetOnPhone
    BY <2>1, <2>7, FingerOwns DEF NoKey
  <2> QED
    BY <1>3, <2>2, <2>3, <2>4, <2>5, <2>6, <2>7 DEF UserActs
<1> QED
  BY <1>1, <1>2, <1>3 DEF KeyNext

\* However the pointer, the host's keys, the queue, resets and other calculators follow
\* each other: no key stays down that nobody will release, and keys are typed in order.
THEOREM KeysCorrect == McSpec => []KeyboardSound
<1>1. McInit => KeyInv
  BY KeyStart DEF McInit
<1>2. KeyInv /\ [McNext]_McVars => KeyInv'
  <2> SUFFICES ASSUME KeyInv, [McNext]_McVars PROVE KeyInv'
    OBVIOUS
  <2>1. KeyNext \/ UNCHANGED keyVars
    BY DEF McNext, McVars
  <2> QED
    BY <2>1, KeyStep
<1>3. KeyInv => KeyboardSound
  BY DEF KeyInv, Owned, Owner, Hosts, Queued, Finger, KeyboardSound, KeysSound, KeysOwned,
         FingerPresses
<1> QED
  BY <1>1, <1>2, <1>3, PTL DEF McSpec
=============================================================================
