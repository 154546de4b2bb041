------------------------------ MODULE ByteQueue ------------------------------
(***************************************************************************)
(* What a LinkBuffer promises to the two sides of the virtual cable: an    *)
(* unbounded queue of bytes.  Writers append at the end; a reader removes  *)
(* bytes from the front and gets exactly the bytes it removes.             *)
(***************************************************************************)
EXTENDS Sequences, Naturals

VARIABLES
    queue,      \* the bytes written and not yet removed
    taken       \* what the last reader got

vars == <<queue, taken>>

Init == queue = <<>> /\ taken = <<>>

Put == /\ Len(queue') > Len(queue)
       /\ SubSeq(queue', 1, Len(queue)) = queue
       /\ UNCHANGED taken

Take == \E n \in 1..Len(queue) :
          /\ taken' = SubSeq(queue, 1, n)
          /\ queue' = SubSeq(queue, n + 1, Len(queue))

Next == Put \/ Take

Spec == Init /\ [][Next]_vars
=============================================================================
