--------------------------- MODULE PriorityMutex ----------------------------
(***************************************************************************)
(* What a priority lock promises its users: one owner at a time, and a     *)
(* free lock goes to the waiter with the greatest pid.                     *)
(***************************************************************************)
EXTENDS Integers

CONSTANT Pids

VARIABLES owner,    \* the pid of the owner, 0 when the lock is free
          waiters   \* the pids of the processes that asked for the lock

mutexVars == <<owner, waiters>>

Init == owner = 0 /\ waiters = {}

Join(p) ==
    /\ p \notin waiters \cup {owner}
    /\ waiters' = waiters \cup {p}
    /\ UNCHANGED owner

\* A free lock goes to p, a waiter or a newcomer, that precedes every waiter.
Grant(p) ==
    /\ owner = 0
    /\ \A q \in waiters : q <= p
    /\ owner' = p
    /\ waiters' = waiters \ {p}

Free ==
    /\ owner /= 0
    /\ owner' = 0
    /\ UNCHANGED waiters

Next == Free \/ \E p \in Pids : Join(p) \/ Grant(p)

Spec == Init /\ [][Next]_mutexVars
=============================================================================
