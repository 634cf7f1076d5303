---------------------------- MODULE ByteChannel -----------------------------
(***************************************************************************)
(* What a pipe promises: the bytes written come out once each and in the   *)
(* order in which they went in, and never more than Capacity of them are   *)
(* inside.  Bytes nobody can read any more are dropped with the pipe.      *)
(***************************************************************************)
EXTENDS Naturals, Sequences

CONSTANT Capacity

VARIABLES queue, open

Init == queue = <<>> /\ open = FALSE

Create == ~open /\ open' /\ queue' = <<>>

\* Some bytes go in behind the ones that are there.
Send ==
    /\ open /\ open'
    /\ Len(queue') \in Len(queue) + 1 .. Capacity
    /\ SubSeq(queue', 1, Len(queue)) = queue

\* The first k bytes come out.
Receive == open /\ open' /\ \E k \in 1 .. Len(queue) : queue' = SubSeq(queue, k + 1, Len(queue))

Destroy == open /\ ~open' /\ queue' = <<>>

Next == Create \/ Send \/ Receive \/ Destroy

Spec == Init /\ [][Next]_<<queue, open>>
=============================================================================
