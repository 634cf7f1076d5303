---------------------------- MODULE PriorityLock ----------------------------
(***************************************************************************)
(* The user-level priority lock of prioritylock.c, with the two places of  *)
(* proc.c that reach it: exit(), which releases a lock the exiting process *)
(* still owns, and kill(), which wakes a process sleeping on the lock.     *)
(*                                                                         *)
(* Every function of prioritylock.c runs under the spinlock lk->lk, and    *)
(* sleep() gives lk->lk up only once it holds ptable.lock, which wakeup()  *)
(* needs; so each critical section is one step here.  A process is known   *)
(* by its pid.  queue_size is -1 when nobody waits, as in the code.        *)
(***************************************************************************)
EXTENDS Integers, FiniteSets

CONSTANTS Pids,          \* pids of the processes that use the lock
          MAX,           \* MAX_PRIORITY_QUEUE_SIZE, which is NPROC
          MaxAdmissions  \* bound: how many times processes join the queue

ASSUME PriorityLockAssumption ==
    /\ Pids \subseteq Nat \ {0}
    /\ IsFiniteSet(Pids)
    /\ MAX \in Nat \ {0}
    /\ Cardinality(Pids) <= MAX
    /\ MaxAdmissions \in Nat

VARIABLES locked, queue, queue_front, queue_size, lkpid,
          pc,        \* where each process is with respect to the lock
          killed,    \* p->killed
          admitted   \* number of calls of add_process_to_priority_lock so far

vars == <<locked, queue, queue_front, queue_size, lkpid, pc, killed, admitted>>

Idx == 0 .. MAX - 1

(***************************************************************************)
(* "user": outside the lock functions and not the owner; "asleep" and      *)
(* "woken": in the while loop of acquirepriority(), in sleep() or made     *)
(* RUNNABLE again; "critical": acquirepriority() returned 0 and the lock   *)
(* was not released since; "exited": past exit().                          *)
(***************************************************************************)
PCs == {"user", "asleep", "woken", "critical", "exited"}

Waiting(p) == pc[p] \in {"asleep", "woken"}

(***************************************************************************)
(* The pid-ordered ring                                                    *)
(***************************************************************************)

\* queue[i] as the C code reads it.  An index below 0 reads lk->lk.pcs[],
\* which holds kernel addresses (negative as an int) or zeroes: never more
\* than a pid, so 0 stands for all of them.  (Valid for at most ten steps
\* below index 0, the length of pcs[].)
Cell(q, i) == IF i < 0 THEN 0 ELSE q[i]

\* Mutant of Swaps: the loop stops one iteration early.
SwapsShort(q, last, n, pid) ==
    CHOOSE k \in 0 .. n :
        /\ k >= n - 1 \/ Cell(q, last - k - 1) > pid
        /\ \A j \in 0 .. k - 1 : j < n - 1 /\ ~(Cell(q, last - j - 1) > pid)

\* The number of swaps of the for loop: it ends after n iterations, or at the
\* first previous entry greater than pid.  (cur_idx - 1) % MAX of C is
\* cur_idx - 1 for every cur_idx in Idx, 0 included.
Swaps(q, last, n, pid) ==
    CHOOSE k \in 0 .. n :
        /\ k = n \/ Cell(q, last - k - 1) > pid
        /\ \A j \in 0 .. k - 1 : ~(Cell(q, last - j - 1) > pid)

\* The array after the loop: the entries passed over move one place up and
\* pid lands k places below last; below index 0 it is lost in pcs[], which
\* the next acquire() of the spinlock overwrites.
Shift(q, last, k, pid) ==
    [i \in Idx |-> IF i = last - k THEN pid
                   ELSE IF last - k < i /\ i <= last THEN Cell(q, i - 1)
                   ELSE q[i]]

\* The queue after add_process_to_priority_lock(lk, pid), when queue_size has
\* already been incremented to size.
add_process_to_priority_lock(q, front, size, pid) ==
    LET last_idx == (size + front) % MAX
    IN  Shift(q, last_idx, Swaps(q, last_idx, size, pid), pid)

(***************************************************************************)
(* Operations                                                              *)
(***************************************************************************)

Init ==
    /\ locked = 0
    /\ lkpid = 0
    /\ queue = [i \in Idx |-> 0]
    /\ queue_front = 0
    /\ queue_size = -1
    /\ pc = [p \in Pids |-> "user"]
    /\ killed = {}
    /\ admitted = 0

\* Mutant of TakeOrSleep: locked is not tested.
TakeUntested(p, q, size) ==
    \/ /\ q[queue_front] = p
       /\ locked' = 1
       /\ lkpid' = p
       /\ queue_front' = (queue_front + 1) % MAX
       /\ queue_size' = size - 1
       /\ pc' = [pc EXCEPT ![p] = "critical"]
    \/ /\ q[queue_front] /= p
       /\ pc' = [pc EXCEPT ![p] = "asleep"]
       /\ queue_size' = size
       /\ UNCHANGED <<locked, lkpid, queue_front>>

\* The loop of acquirepriority() from its test on, for a queue q whose size
\* is size: take the lock and pop the queue, or sleep.
TakeOrSleep(p, q, size) ==
    \/ /\ locked = 0 /\ q[queue_front] = p
       /\ locked' = 1
       /\ lkpid' = p
       /\ queue_front' = (queue_front + 1) % MAX
       /\ queue_size' = size - 1
       /\ pc' = [pc EXCEPT ![p] = "critical"]
    \/ /\ locked = 1 \/ q[queue_front] /= p
       /\ pc' = [pc EXCEPT ![p] = "asleep"]
       /\ queue_size' = size
       /\ UNCHANGED <<locked, lkpid, queue_front>>

\* acquirepriority() of a process that does not own the lock, up to the lock
\* or to its first sleep.  A killed process does not get into a system call;
\* a kill() that comes between that test and lk->lk leads to the same states
\* as one that comes after the first sleep.
Acquire(p) ==
    /\ pc[p] = "user"
    /\ p \notin killed
    /\ admitted < MaxAdmissions
    /\ queue' = add_process_to_priority_lock(queue, queue_front,
                                             queue_size + 1, p)
    /\ TakeOrSleep(p, queue', queue_size + 1)
    /\ admitted' = admitted + 1
    /\ UNCHANGED killed

\* acquirepriority() of the owner, and releasepriority() of another process:
\* -1 is returned and nothing changes.
Refused(p) ==
    /\ \/ pc[p] = "critical" /\ lkpid = p
       \/ pc[p] = "user" /\ lkpid /= p
    /\ p \notin killed
    /\ UNCHANGED vars

\* A process made RUNNABLE while in acquirepriority() tests the condition
\* again.  It does not look at p->killed.
Recheck(p) ==
    /\ pc[p] = "woken"
    /\ TakeOrSleep(p, queue, queue_size)
    /\ UNCHANGED <<queue, killed, admitted>>

\* Mutant of WakeAllAnd: nobody is woken.
WakeNoneAnd(p, to) == pc' = [pc EXCEPT ![p] = to]

\* wakeup(lk), with process p going on to pc value to
WakeAllAnd(p, to) ==
    pc' = [q \in Pids |-> IF q = p THEN to
                          ELSE IF pc[q] = "asleep" THEN "woken" ELSE pc[q]]

\* The part of releasepriority() the owner executes.
Unlock(p, to) ==
    /\ lkpid = p
    /\ locked' = 0
    /\ lkpid' = 0
    /\ WakeAllAnd(p, to)
    /\ UNCHANGED <<queue, queue_front, queue_size, admitted>>

Release(p) ==
    /\ pc[p] = "critical"
    /\ p \notin killed
    /\ Unlock(p, "user")
    /\ UNCHANGED killed

\* Mutant of Exit: the lock of the exiting process is kept.
ExitKeepsLock(p) ==
    /\ pc[p] \in {"user", "critical"}
    /\ pc' = [pc EXCEPT ![p] = "exited"]
    /\ UNCHANGED <<locked, lkpid, queue, queue_front, queue_size, admitted,
                   killed>>

\* exit(), called by the process or by trap() for a killed one: it releases
\* the lock when lk->pid is the pid of the exiting process.
Exit(p) ==
    /\ pc[p] \in {"user", "critical"}
    /\ \/ Unlock(p, "exited")
       \/ /\ lkpid /= p
          /\ pc' = [pc EXCEPT ![p] = "exited"]
          /\ UNCHANGED <<locked, lkpid, queue, queue_front, queue_size,
                         admitted>>
    /\ UNCHANGED killed

\* kill(): sets killed and makes a sleeper RUNNABLE.
Kill(p) ==
    /\ pc[p] /= "exited"
    /\ killed' = killed \cup {p}
    /\ pc' = [pc EXCEPT ![p] = IF @ = "asleep" THEN "woken" ELSE @]
    /\ UNCHANGED <<locked, lkpid, queue, queue_front, queue_size, admitted>>

Next == \E p \in Pids :
    Acquire(p) \/ Refused(p) \/ Recheck(p) \/ Release(p) \/ Exit(p) \/ Kill(p)

Spec == Init /\ [][Next]_vars

(***************************************************************************)
(* Fairness: the scheduler eventually runs a RUNNABLE process (Scheduler   *)
(* module), and, an obligation of the users of the lock, a process that    *)
(* got it eventually calls release_user_lock() or exits, as every child of *)
(* lock_test.c does.                                                       *)
(***************************************************************************)
Leave(p) == pc[p] = "critical" /\ (Release(p) \/ Exit(p))

FairSpec ==
    /\ Spec
    /\ \A p \in Pids : WF_vars(Recheck(p)) /\ WF_vars(Leave(p))

(***************************************************************************)
(* Properties                                                              *)
(***************************************************************************)

\* The lock's fields stay in the ranges their uses need; queue_size never
\* reaches the length of the array.
TypeOK ==
    /\ locked \in {0, 1}
    /\ lkpid \in Pids \cup {0}
    /\ queue \in [Idx -> Pids \cup {0}]
    /\ queue_front \in Idx
    /\ queue_size \in -1 .. MAX - 1
    /\ pc \in [Pids -> PCs]
    /\ killed \subseteq Pids
    /\ admitted \in 0 .. MaxAdmissions

\* Mutual exclusion: acquirepriority() has returned 0 to at most one process
\* that has neither released the lock nor exited, whatever happened to the
\* queue.
MutualExclusion ==
    \A p, q \in Pids : pc[p] = "critical" /\ pc[q] = "critical" => p = q

\* The lock is never left to a process that is gone or that waits for it:
\* lk->pid names the process in the critical section exactly while
\* lk->locked is set.
OwnerIsCritical ==
    /\ locked = 0 <=> lkpid = 0
    /\ \A p \in Pids : lkpid = p <=> pc[p] = "critical"

\* No lost wakeup: when the lock is free, the process whose turn it is has
\* been made RUNNABLE, so that it will test the loop condition.
NoLostWakeup ==
    \A p \in Pids :
        locked = 0 /\ queue_size >= 0 /\ queue[queue_front] = p => pc[p] /= "asleep"

\* The entries of the ring between queue_front and the last one
Window == {queue[(queue_front + i) % MAX] : i \in 0 .. queue_size}

\* The ring holds exactly the processes that are in acquirepriority(), one
\* entry each, greatest pid first.
QueueIsWaiters ==
    /\ Window = {p \in Pids : Waiting(p)}
    /\ \A i, j \in 0 .. queue_size : i < j =>
          queue[(queue_front + i) % MAX] > queue[(queue_front + j) % MAX]

Mutex == INSTANCE PriorityMutex WITH
             owner <- lkpid, waiters <- {p \in Pids : Waiting(p)}

\* The lock as its users see it: acquirepriority() and releasepriority()
\* implement a mutex that always passes to the greatest waiting pid.
IsPriorityMutex == Mutex!Spec

\* Every process that entered acquirepriority() gets the lock, as long as
\* every owner gives it back: the children of lock_test.c all finish.
EveryWaiterServed == \A p \in Pids : Waiting(p) ~> pc[p] = "critical"
=============================================================================
