------------------------- MODULE PriorityLockProofs -------------------------
(***************************************************************************)
(* Proofs about PriorityLock for every set of processes and every length   *)
(* of the ring.                                                            *)
(***************************************************************************)
EXTENDS PriorityLock, FiniteSetTheorems, WellFoundedInduction, TLAPS

Waiters == {p \in Pids : Waiting(p)}

(***************************************************************************)
(* Arithmetic of the ring                                                  *)
(***************************************************************************)

\* The index (queue_size + queue_front) % MAX of add_process_to_priority_lock:
\* at most one wrap-around.
LEMMA RingIndex ==
    ASSUME NEW m \in Nat \ {0}, NEW x \in 0 .. m - 1, NEW y \in 0 .. m - 1
    PROVE  \/ (x + y) % m = x + y /\ x + y < m
           \/ (x + y) % m = x + y - m /\ x + y >= m
<1>1. x + y \in Nat /\ x + y < 2 * m
  OBVIOUS
<1>2. \A a \in Nat : a < 2 * m => \/ a % m = a /\ a < m
                                  \/ a % m = a - m /\ a >= m
  OBVIOUS
<1>3. PICK a \in Nat : a = x + y
  BY <1>1
<1>4. \/ a % m = a /\ a < m
      \/ a % m = a - m /\ a >= m
  BY <1>1, <1>2, <1>3
<1> QED
  BY <1>3, <1>4

\* A set of natural numbers that is not empty has a least element.
LEMMA LeastNat ==
    ASSUME NEW T \in SUBSET Nat, T # {}
    PROVE  \E k \in T : \A j \in T : k <= j
<1>1. PICK k \in T : \A j \in T : ~(<<j, k>> \in OpToRel(<, Nat))
  BY WFMin, NatLessThanWellFounded, Zenon
<1>2. \A j \in T : <<j, k>> \in Nat \X Nat
  OBVIOUS
<1>3. \A j \in T : ~(j < k)
  BY <1>1, <1>2, Zenon DEF OpToRel
<1> QED
  BY <1>3

(***************************************************************************)
(* add_process_to_priority_lock                                            *)
(***************************************************************************)

\* The loop makes at most as many swaps as it has iterations.
LEMMA SwapsInRange ==
    ASSUME NEW q, NEW last, NEW n \in Nat, NEW pid
    PROVE  /\ Swaps(q, last, n, pid) \in 0 .. n
           /\ \/ Swaps(q, last, n, pid) = n
              \/ Cell(q, last - Swaps(q, last, n, pid) - 1) > pid
           /\ \A j \in 0 .. Swaps(q, last, n, pid) - 1 : ~(Cell(q, last - j - 1) > pid)
<1> DEFINE T == {k \in 0 .. n : k = n \/ Cell(q, last - k - 1) > pid}
<1>1. T \in SUBSET Nat /\ n \in T
  OBVIOUS
<1>2. PICK k \in T : \A j \in T : k <= j
  <2> HIDE DEF T
  <2> QED BY <1>1, LeastNat
<1>3. \A j \in 0 .. k - 1 : j \in 0 .. n /\ j \notin T
  BY <1>2
<1>4. \A j \in 0 .. k - 1 : ~(Cell(q, last - j - 1) > pid)
  BY <1>3
<1>5. k \in 0 .. n /\ (k = n \/ Cell(q, last - k - 1) > pid)
  OBVIOUS
<1> QED
  BY <1>4, <1>5 DEF Swaps

\* Whatever the number of swaps, the array keeps its type.
LEMMA ShiftType ==
    ASSUME NEW q \in [Idx -> Pids \cup {0}], NEW last \in Idx, NEW k,
           NEW pid \in Pids
    PROVE  Shift(q, last, k, pid) \in [Idx -> Pids \cup {0}]
<1> SUFFICES ASSUME NEW i \in Idx
             PROVE  Shift(q, last, k, pid)[i] \in Pids \cup {0}
  BY DEF Shift
<1>1. Cell(q, i - 1) \in Pids \cup {0}
  BY PriorityLockAssumption DEF Cell, Idx
<1> QED
  BY <1>1 DEF Shift

\* The entry at the front of the queue is only replaced by the newcomer: with
\* no wrap-around the loop stops at the front, and with one it runs away from
\* it.  For an empty queue the newcomer is at the front.
LEMMA FrontAfterAdd ==
    ASSUME NEW q \in [Idx -> Pids \cup {0}], NEW front \in Idx,
           NEW size \in Idx, NEW pid \in Pids
    PROVE  LET r == add_process_to_priority_lock(q, front, size, pid)
           IN  /\ r \in [Idx -> Pids \cup {0}]
               /\ r[front] = q[front] \/ r[front] = pid
               /\ size = 0 => r[front] = pid
<1> DEFINE last == (size + front) % MAX
           k == Swaps(q, last, size, pid)
<1>1. /\ MAX \in Nat \ {0} /\ front \in 0 .. MAX - 1 /\ size \in 0 .. MAX - 1
      /\ front \in Int /\ size \in Nat
  BY PriorityLockAssumption DEF Idx
<1>2. \/ last = size + front /\ size + front < MAX
      \/ last = size + front - MAX /\ size + front >= MAX
  BY <1>1, RingIndex, Zenon
<1>3. last \in Idx /\ last \in Int
  BY <1>1, <1>2 DEF Idx
<1>4. k \in 0 .. size
  BY <1>1, SwapsInRange
<1> HIDE DEF last, k
<1>5. add_process_to_priority_lock(q, front, size, pid) = Shift(q, last, k, pid)
  BY DEF add_process_to_priority_lock, last, k
<1>6. Shift(q, last, k, pid) \in [Idx -> Pids \cup {0}]
  BY <1>3, ShiftType
<1>7. Shift(q, last, k, pid)[front] =
        IF front = last - k THEN pid
        ELSE IF last - k < front /\ front <= last THEN Cell(q, front - 1) ELSE q[front]
  BY DEF Shift
<1>8. ~(last - k < front /\ front <= last)
  BY <1>1, <1>2, <1>4
<1>9. size = 0 => front = last - k
  BY <1>1, <1>2, <1>4
<1> QED
  BY <1>5, <1>6, <1>7, <1>8, <1>9

(***************************************************************************)
(* The inductive invariant                                                 *)
(***************************************************************************)

\* queue_size counts the processes in acquirepriority(), which bounds it.
WaiterCount == queue_size + 1 = Cardinality(Waiters)

IInv == TypeOK /\ WaiterCount /\ OwnerIsCritical /\ NoLostWakeup

\* There are finitely many waiters, one less for each that leaves and one more
\* for each that joins.
LEMMA WaitersFinite ==
    /\ IsFiniteSet(Waiters)
    /\ Cardinality(Waiters) \in Nat
    /\ \A p \in Pids : p \notin Waiters => Cardinality(Waiters) < Cardinality(Pids)
<1>1. Waiters \in SUBSET Pids /\ IsFiniteSet(Pids)
  BY PriorityLockAssumption DEF Waiters
<1>2. IsFiniteSet(Waiters) /\ Cardinality(Waiters) <= Cardinality(Pids)
      /\ (Cardinality(Pids) = Cardinality(Waiters) => Pids = Waiters)
  BY <1>1, FS_Subset
<1>3. Cardinality(Waiters) \in Nat /\ Cardinality(Pids) \in Nat
  BY <1>1, <1>2, FS_CardinalityType
<1> QED
  BY <1>2, <1>3

\* initprioritylock() establishes the invariant.
LEMMA InitIInv == Init => IInv
<1> SUFFICES ASSUME Init PROVE IInv
  OBVIOUS
<1>1. TypeOK
  BY PriorityLockAssumption DEF Init, TypeOK, Idx, PCs
<1>2. Waiters = {}
  BY DEF Init, Waiters, Waiting
<1>3. WaiterCount
  BY <1>2, FS_EmptySet DEF WaiterCount, Init
<1>4. OwnerIsCritical
  BY PriorityLockAssumption DEF OwnerIsCritical, Init
<1>5. NoLostWakeup
  BY DEF NoLostWakeup, Init
<1> QED
  BY <1>1, <1>3, <1>4, <1>5 DEF IInv

\* Taking the lock or going to sleep, with the queue already q and one entry
\* longer for a newcomer: what acquirepriority() does from its loop on.
LEMMA TakeOrSleepIInv ==
    ASSUME TypeOK, OwnerIsCritical, NoLostWakeup,
           NEW p \in Pids, NEW q \in [Idx -> Pids \cup {0}],
           NEW size \in Idx, size = Cardinality(Waiters \cup {p}) - 1,
           pc[p] \in {"user", "woken"},
           TakeOrSleep(p, q, size), queue' = q,
           q[queue_front] = queue[queue_front] \/ q[queue_front] = p,
           queue_size < 0 => q[queue_front] = p,
           UNCHANGED killed, admitted' \in 0 .. MaxAdmissions
    PROVE  IInv'
<1> DEFINE Take == /\ locked = 0 /\ q[queue_front] = p
                   /\ locked' = 1
                   /\ lkpid' = p
                   /\ queue_front' = (queue_front + 1) % MAX
                   /\ queue_size' = size - 1
                   /\ pc' = [pc EXCEPT ![p] = "critical"]
           Doze == /\ locked = 1 \/ q[queue_front] /= p
                   /\ pc' = [pc EXCEPT ![p] = "asleep"]
                   /\ queue_size' = size
                   /\ UNCHANGED <<locked, lkpid, queue_front>>
<1>1. Take \/ Doze
  BY DEF TakeOrSleep
<1>2. /\ Waiters \in SUBSET Pids /\ IsFiniteSet(Waiters)
      /\ IsFiniteSet(Waiters \cup {p})
      /\ Cardinality(Waiters \cup {p}) = size + 1
  <2>1. Waiters \in SUBSET Pids /\ IsFiniteSet(Waiters) /\ IsFiniteSet(Waiters \cup {p})
    BY WaitersFinite, FS_AddElement DEF Waiters
  <2>2. Cardinality(Waiters \cup {p}) \in Nat
    BY <2>1, FS_CardinalityType
  <2> QED
    BY <2>1, <2>2
<1>3. CASE Take
  <2>1. (queue_front + 1) % MAX \in Idx
    BY PriorityLockAssumption DEF TypeOK, Idx
  <2>2. TypeOK'
    BY <1>3, <2>1, PriorityLockAssumption DEF TypeOK, Idx, PCs
  <2>3. Waiters' = (Waiters \cup {p}) \ {p}
    BY <1>3 DEF Waiters, Waiting, TypeOK
  <2>4. Cardinality(Waiters') = size
    BY <1>2, <2>3, FS_RemoveElement DEF Idx
  <2>5. WaiterCount'
    BY <1>3, <2>4 DEF WaiterCount, Idx
  <2>6. OwnerIsCritical'
    BY <1>3, PriorityLockAssumption DEF OwnerIsCritical, TypeOK
  <2>7. NoLostWakeup'
    BY <1>3 DEF NoLostWakeup
  <2> QED
    BY <2>2, <2>5, <2>6, <2>7 DEF IInv
<1>4. CASE Doze
  <2>1. TypeOK'
    BY <1>4, PriorityLockAssumption DEF TypeOK, Idx, PCs
  <2>2. Waiters' = Waiters \cup {p}
    BY <1>4 DEF Waiters, Waiting, TypeOK
  <2>3. WaiterCount'
    BY <1>2, <1>4, <2>2 DEF WaiterCount, Idx
  <2>4. OwnerIsCritical'
    BY <1>4, PriorityLockAssumption DEF OwnerIsCritical, TypeOK
  <2>5. NoLostWakeup'
    <3> SUFFICES ASSUME NEW r \in Pids, locked' = 0, queue'[queue_front'] = r
                 PROVE  pc'[r] /= "asleep"
      BY DEF NoLostWakeup
    <3>1. r /= p /\ r = queue[queue_front] /\ locked = 0 /\ queue_size >= 0
      BY <1>4 DEF TypeOK
    <3>2. pc[r] /= "asleep"
      BY <3>1 DEF NoLostWakeup
    <3> QED
      BY <1>4, <3>1, <3>2 DEF TypeOK
  <2> QED
    BY <2>1, <2>3, <2>4, <2>5 DEF IInv
<1> QED
  BY <1>1, <1>3, <1>4

\* releasepriority() of the owner, on its own or in exit(), keeps the invariant.
LEMMA UnlockIInv ==
    ASSUME IInv, NEW p \in Pids, NEW to \in {"user", "exited"},
           Unlock(p, to), UNCHANGED killed
    PROVE  IInv'
<1>1. lkpid = p /\ pc[p] = "critical" /\ p /= 0
  BY PriorityLockAssumption DEF IInv, OwnerIsCritical, Unlock
<1>2. TypeOK'
  BY DEF IInv, TypeOK, Unlock, WakeAllAnd, PCs
<1>3. Waiters' = Waiters
  BY <1>1 DEF IInv, TypeOK, Unlock, WakeAllAnd, Waiters, Waiting
<1>4. WaiterCount'
  BY <1>3 DEF IInv, WaiterCount, Unlock
<1>5. OwnerIsCritical'
  BY <1>1, PriorityLockAssumption DEF IInv, TypeOK, OwnerIsCritical, Unlock, WakeAllAnd
<1>6. NoLostWakeup'
  BY DEF NoLostWakeup, Unlock, WakeAllAnd
<1> QED
  BY <1>2, <1>4, <1>5, <1>6 DEF IInv

\* Every operation on the lock keeps the invariant: one step per action.
LEMMA NextIInv == IInv /\ [Next]_vars => IInv'
<1> SUFFICES ASSUME IInv, [Next]_vars PROVE IInv'
  OBVIOUS
<1>1. CASE UNCHANGED vars
  BY <1>1 DEF IInv, TypeOK, WaiterCount, Waiters, Waiting, OwnerIsCritical,
              NoLostWakeup, vars
<1>2. ASSUME NEW p \in Pids, Acquire(p) PROVE IInv'
  <2>1. /\ TypeOK /\ OwnerIsCritical /\ NoLostWakeup /\ WaiterCount
        /\ pc[p] = "user" /\ TakeOrSleep(p, queue', queue_size + 1)
        /\ UNCHANGED killed /\ admitted' \in 0 .. MaxAdmissions
    BY <1>2, PriorityLockAssumption DEF Acquire, IInv, TypeOK
  <2>2. p \notin Waiters
    BY <2>1 DEF Waiters, Waiting
  <2>3. queue_size + 1 \in Idx /\ queue_size + 1 = Cardinality(Waiters \cup {p}) - 1
    <3>1. Cardinality(Waiters) < Cardinality(Pids) /\ Cardinality(Waiters) \in Nat
          /\ Cardinality(Pids) \in Nat
      <4>1. Cardinality(Pids) \in Nat
        BY FS_CardinalityType, PriorityLockAssumption
      <4> QED
        BY <2>2, <4>1, WaitersFinite
    <3>2. Cardinality(Waiters \cup {p}) = Cardinality(Waiters) + 1
      BY <2>2, WaitersFinite, FS_AddElement
    <3> QED
      BY <2>1, <3>1, <3>2, PriorityLockAssumption DEF WaiterCount, TypeOK, Idx
  <2>4. /\ queue' \in [Idx -> Pids \cup {0}]
        /\ queue'[queue_front] = queue[queue_front] \/ queue'[queue_front] = p
        /\ queue_size < 0 => queue'[queue_front] = p
    <3>1. queue' = add_process_to_priority_lock(queue, queue_front, queue_size + 1, p)
      BY <1>2 DEF Acquire
    <3>2. queue_size < 0 => queue_size + 1 = 0
      BY <2>1 DEF TypeOK
    <3> QED
      BY <2>1, <2>3, <3>1, <3>2, FrontAfterAdd DEF TypeOK
  <2> QED
    BY <2>1, <2>3, <2>4, TakeOrSleepIInv
<1>3. ASSUME NEW p \in Pids, Refused(p) PROVE IInv'
  BY <1>1, <1>3 DEF Refused
<1>4. ASSUME NEW p \in Pids, Recheck(p) PROVE IInv'
  <2>1. /\ TypeOK /\ OwnerIsCritical /\ NoLostWakeup /\ WaiterCount
        /\ pc[p] = "woken" /\ TakeOrSleep(p, queue, queue_size)
        /\ UNCHANGED <<queue, killed, admitted>>
    BY <1>4 DEF Recheck, IInv
  <2>2. Waiters \cup {p} = Waiters /\ Waiters /= {}
    BY <2>1 DEF Waiters, Waiting
  <2>3. /\ Cardinality(Waiters) \in Nat /\ Cardinality(Waiters) /= 0
        /\ Cardinality(Waiters \cup {p}) = Cardinality(Waiters)
    BY <2>2, WaitersFinite, FS_EmptySet
  <2>4. queue_size \in Idx /\ queue_size = Cardinality(Waiters \cup {p}) - 1
    BY <2>1, <2>3, PriorityLockAssumption DEF WaiterCount, TypeOK, Idx
  <2>5. queue \in [Idx -> Pids \cup {0}] /\ ~(queue_size < 0)
        /\ admitted' \in 0 .. MaxAdmissions
    BY <2>1, <2>4, PriorityLockAssumption DEF TypeOK, Idx
  <2> QED
    BY <2>1, <2>4, <2>5, TakeOrSleepIInv
<1>5. ASSUME NEW p \in Pids, Release(p) PROVE IInv'
  BY <1>5, UnlockIInv DEF Release
<1>6. ASSUME NEW p \in Pids, Exit(p) PROVE IInv'
  <2>1. CASE Unlock(p, "exited")
    BY <1>6, <2>1, UnlockIInv DEF Exit
  <2>2. CASE ~Unlock(p, "exited")
    <3>1. /\ lkpid /= p /\ pc[p] \in {"user", "critical"}
          /\ pc' = [pc EXCEPT ![p] = "exited"]
          /\ UNCHANGED <<locked, lkpid, queue, queue_front, queue_size, admitted, killed>>
      BY <1>6, <2>2 DEF Exit
    <3>2. TypeOK'
      BY <3>1 DEF IInv, TypeOK, PCs
    <3>3. Waiters' = Waiters
      BY <3>1 DEF IInv, TypeOK, Waiters, Waiting
    <3>4. WaiterCount'
      BY <3>1, <3>3 DEF IInv, WaiterCount
    <3>5. OwnerIsCritical'
      BY <3>1 DEF IInv, TypeOK, OwnerIsCritical
    <3>6. NoLostWakeup'
      BY <3>1 DEF IInv, TypeOK, NoLostWakeup
    <3> QED
      BY <3>2, <3>4, <3>5, <3>6 DEF IInv
  <2> QED
    BY <2>1, <2>2
<1>7. ASSUME NEW p \in Pids, Kill(p) PROVE IInv'
  <2>1. TypeOK'
    BY <1>7 DEF Kill, IInv, TypeOK, PCs
  <2>2. Waiters' = Waiters
    BY <1>7 DEF Kill, IInv, TypeOK, Waiters, Waiting
  <2>3. WaiterCount'
    BY <1>7, <2>2 DEF Kill, IInv, WaiterCount
  <2>4. OwnerIsCritical'
    BY <1>7 DEF Kill, IInv, TypeOK, OwnerIsCritical
  <2>5. NoLostWakeup'
    BY <1>7 DEF Kill, IInv, TypeOK, NoLostWakeup
  <2> QED
    BY <2>1, <2>3, <2>4, <2>5 DEF IInv
<1> QED
  BY <1>1, <1>2, <1>3, <1>4, <1>5, <1>6, <1>7 DEF Next

(***************************************************************************)
(* The theorems                                                            *)
(***************************************************************************)

\* The inductive invariant holds in every state of the lock, for every set of
\* processes and length of the ring, wrap-around or not.
THEOREM Invariance == Spec => []IInv
  BY InitIInv, NextIInv, PTL DEF Spec

\* The fields of the lock stay in their ranges: queue_size never reaches the
\* length of the ring, since no more processes wait than there are.
THEOREM TypeCorrect == Spec => []TypeOK
<1>1. IInv => TypeOK
  BY DEF IInv
<1> QED
  BY <1>1, Invariance, PTL

\* lk->pid names the process in the critical section exactly while the lock
\* is set, exit() and kill() included.
THEOREM OwnershipCorrect == Spec => []OwnerIsCritical
<1>1. IInv => OwnerIsCritical
  BY DEF IInv
<1> QED
  BY <1>1, Invariance, PTL

\* acquirepriority() excludes: at most one process is between its return and
\* releasepriority(), also after the ring has wrapped around.
THEOREM Exclusion == Spec => []MutualExclusion
<1>1. IInv => MutualExclusion
  BY DEF IInv, OwnerIsCritical, MutualExclusion
<1> QED
  BY <1>1, Invariance, PTL

\* A free lock never waits for a process that sleeps: the one at the front of
\* the queue has been woken.
THEOREM WakeupNotLost == Spec => []NoLostWakeup
<1>1. IInv => NoLostWakeup
  BY DEF IInv
<1> QED
  BY <1>1, Invariance, PTL

(***************************************************************************)
(* Before the ring wraps around                                            *)
(*                                                                         *)
(* As long as fewer than MAX processes have joined the queue, no index     *)
(* reaches the end of the array, and the lock is the priority mutex it is  *)
(* meant to be.  (PriorityLockWrap shows that this ends with the first     *)
(* insertion past the end.)                                                *)
(***************************************************************************)
NoWrap == MaxAdmissions < MAX

\* The entries of q at the indices I are decreasing, and are the members of W.
Sorted(q, I) == \A i, j \in I : i < j => q[i] > q[j]
Holds(q, I, W) == (\A i \in I : q[i] \in W) /\ (\A w \in W : \E i \in I : q[i] = w)

\* The queue lies in one piece, sorted, and holds the waiting processes.
Straight ==
    /\ queue_front + queue_size + 1 = admitted
    /\ Sorted(queue, queue_front .. queue_front + queue_size)
    /\ Holds(queue, queue_front .. queue_front + queue_size, Waiters)

\* Insertion into a sorted piece of the array: the piece grows by one entry,
\* stays sorted, and gains the newcomer.
LEMMA InsertSorted ==
    ASSUME NEW q \in [Idx -> Pids \cup {0}], NEW front \in Idx, NEW size \in Nat,
           front + size \in Idx, NEW pid \in Pids, NEW W, pid \notin W,
           Sorted(q, front .. front + size - 1),
           Holds(q, front .. front + size - 1, W)
    PROVE  /\ Sorted(add_process_to_priority_lock(q, front, size, pid),
                     front .. front + size)
           /\ Holds(add_process_to_priority_lock(q, front, size, pid),
                    front .. front + size, W \cup {pid})
<1> DEFINE last == front + size
           k == Swaps(q, last, size, pid)
           r == Shift(q, last, k, pid)
           at == last - k
<1>1. /\ MAX \in Nat \ {0} /\ front \in 0 .. MAX - 1 /\ last \in 0 .. MAX - 1
      /\ Pids \subseteq Nat
  BY PriorityLockAssumption DEF Idx
<1>a. /\ \A i, j \in front .. front + size - 1 : i < j => q[i] > q[j]
      /\ \A i \in front .. front + size - 1 : q[i] /= pid
  BY DEF Sorted, Holds
<1>0. pid \in Nat /\ \A i \in 0 .. MAX - 1 : q[i] \in Nat
  <2>1. \A x \in Pids \cup {0} : x \in Nat
    BY <1>1
  <2> QED
    BY <2>1 DEF Idx
<1>2. (size + front) % MAX = last
  <2>1. size \in 0 .. MAX - 1 /\ size + front < MAX
    BY <1>1
  <2>2. \/ (size + front) % MAX = size + front /\ size + front < MAX
        \/ (size + front) % MAX = size + front - MAX /\ size + front >= MAX
    BY <1>1, <2>1, RingIndex, Zenon
  <2> QED
    BY <1>1, <2>1, <2>2
<1>3. add_process_to_priority_lock(q, front, size, pid) = r
  BY <1>2 DEF add_process_to_priority_lock
<1>4. /\ k \in 0 .. size
      /\ k = size \/ Cell(q, last - k - 1) > pid
      /\ \A j \in 0 .. k - 1 : ~(Cell(q, last - j - 1) > pid)
  BY SwapsInRange
<1>5. r \in [Idx -> Pids \cup {0}]
  BY ShiftType, <1>1 DEF Idx
<1>6. \A i \in Idx : r[i] = IF i = at THEN pid
                           ELSE IF at < i /\ i <= last THEN Cell(q, i - 1) ELSE q[i]
  BY DEF Shift
<1> HIDE DEF k, r
<1>7. at \in front .. last
  BY <1>1, <1>4
<1>8. \A i \in front .. last : /\ i < at => r[i] = q[i]
                               /\ i = at => r[i] = pid
                               /\ i > at => r[i] = q[i - 1]
  BY <1>1, <1>6, <1>7 DEF Idx, Cell
<1>9. at = front \/ q[at - 1] > pid
  BY <1>1, <1>4, <1>7 DEF Cell
<1>10. \A i \in at .. last - 1 : q[i] < pid
  <2> SUFFICES ASSUME NEW i \in at .. last - 1 PROVE q[i] < pid
    OBVIOUS
  <2>1. last - 1 - i \in 0 .. k - 1 /\ last - (last - 1 - i) - 1 = i
    BY <1>1, <1>4
  <2>2. ~(Cell(q, last - (last - 1 - i) - 1) > pid)
    BY <1>4, <2>1
  <2>3. i >= 0 /\ i \in Idx /\ i \in front .. front + size - 1
    BY <1>1, <1>7 DEF Idx
  <2>4. ~(q[i] > pid) /\ q[i] /= pid /\ q[i] \in Nat
    <3>1. Cell(q, i) = q[i]
      BY <2>3 DEF Cell
    <3>2. ~(Cell(q, i) > pid)
      BY <2>1, <2>2, Zenon
    <3> QED
      BY <1>a, <1>0, <2>3, <3>1, <3>2 DEF Idx
  <2> QED
    BY <1>1, <2>4
<1>11. \A i \in front .. at - 1 : q[i] > pid
  <2> SUFFICES ASSUME NEW i \in front .. at - 1 PROVE q[i] > pid
    OBVIOUS
  <2>1. q[at - 1] > pid /\ i \in front .. front + size - 1
        /\ at - 1 \in front .. front + size - 1 /\ i <= at - 1
    BY <1>1, <1>7, <1>9
  <2>2. i = at - 1 \/ q[i] > q[at - 1]
    BY <1>a, <1>1, <2>1
  <2>3. q[i] \in Nat /\ q[at - 1] \in Nat /\ pid \in Nat
    BY <1>0, <1>1, <2>1
  <2> QED
    BY <2>1, <2>2, <2>3
<1>12. \A i, j \in front .. last : i < j => r[i] > r[j]
  <2> SUFFICES ASSUME NEW i \in front .. last, NEW j \in front .. last, i < j
               PROVE  r[i] > r[j]
    OBVIOUS
  <2>1. CASE j < at
    BY <1>a, <1>1, <1>7, <1>8, <2>1
  <2>2. CASE j = at
    BY <1>1, <1>7, <1>8, <1>11, <2>2
  <2>3. CASE i < at /\ at < j
    <3>1. r[i] = q[i] /\ r[j] = q[j - 1] /\ i < j - 1
          /\ i \in front .. front + size - 1 /\ j - 1 \in front .. front + size - 1
      BY <1>1, <1>7, <1>8, <2>3
    <3> QED
      BY <1>a, <3>1
  <2>4. CASE i = at
    <3>1. r[i] = pid /\ r[j] = q[j - 1] /\ j - 1 \in at .. last - 1
      BY <1>1, <1>7, <1>8, <2>4
    <3>2. q[j - 1] < pid /\ q[j - 1] \in Nat
      BY <1>0, <1>1, <1>7, <1>10, <3>1
    <3> QED
      BY <1>0, <3>1, <3>2
  <2>5. CASE at < i
    <3>1. r[i] = q[i - 1] /\ r[j] = q[j - 1] /\ i - 1 < j - 1
          /\ i - 1 \in front .. front + size - 1 /\ j - 1 \in front .. front + size - 1
      BY <1>1, <1>7, <1>8, <2>5
    <3> QED
      BY <1>a, <3>1
  <2> QED
    BY <1>1, <1>7, <2>1, <2>2, <2>3, <2>4, <2>5
<1>13. \A i \in front .. last : r[i] = pid \/ \E j \in front .. last - 1 : r[i] = q[j]
  <2> SUFFICES ASSUME NEW i \in front .. last
               PROVE  r[i] = pid \/ \E j \in front .. last - 1 : r[i] = q[j]
    OBVIOUS
  <2>1. CASE i < at
    BY <1>1, <1>7, <1>8, <2>1
  <2>2. CASE i = at
    BY <1>8, <2>2
  <2>3. CASE i > at
    <3>1. i - 1 \in front .. last - 1 /\ r[i] = q[i - 1]
      BY <1>1, <1>7, <1>8, <2>3
    <3> QED
      BY <3>1
  <2> QED
    BY <1>1, <1>7, <2>1, <2>2, <2>3
<1>14. \A j \in front .. last - 1 : \E i \in front .. last : r[i] = q[j]
  <2> SUFFICES ASSUME NEW j \in front .. last - 1
               PROVE  \E i \in front .. last : r[i] = q[j]
    OBVIOUS
  <2>1. CASE j < at
    BY <1>1, <1>7, <1>8, <2>1
  <2>2. CASE j >= at
    <3>1. j + 1 \in front .. last /\ j + 1 > at /\ (j + 1) - 1 = j
      BY <1>1, <1>7, <2>2
    <3> QED
      BY <1>8, <3>1
  <2> QED
    BY <1>1, <1>7, <2>1, <2>2
<1>15. \E i \in front .. last : r[i] = pid
  BY <1>7, <1>8
<1>16. Sorted(r, front .. last)
  BY <1>12 DEF Sorted
<1>17. Holds(r, front .. last, W \cup {pid})
  <2>0. last - 1 = front + size - 1
    BY <1>1
  <2>1. \A i \in front .. last - 1 : q[i] \in W
    BY <2>0 DEF Holds
  <2>2. \A w \in W : \E j \in front .. last - 1 : q[j] = w
    BY <2>0 DEF Holds
  <2>3. \A i \in front .. last : r[i] \in W \cup {pid}
    BY <1>13, <2>1
  <2>4. \A w \in W : \E i \in front .. last : r[i] = w
    BY <1>14, <2>2, Zenon
  <2> QED
    BY <1>15, <2>3, <2>4 DEF Holds
<1> QED
  BY <1>3, <1>16, <1>17

\* The loop of acquirepriority() keeps a straight queue q straight, and the
\* process that takes the lock precedes those that still wait.
LEMMA TakeOrSleepStraight ==
    ASSUME NoWrap, TypeOK,
           NEW p \in Pids, NEW q \in [Idx -> Pids \cup {0}], NEW size \in Nat,
           pc[p] \in {"user", "woken"},
           TakeOrSleep(p, q, size), queue' = q,
           queue_front + size + 1 = admitted', admitted' <= MaxAdmissions,
           Sorted(q, queue_front .. queue_front + size),
           Holds(q, queue_front .. queue_front + size, Waiters \cup {p})
    PROVE  /\ Straight'
           /\ pc'[p] = "critical" => \A r \in Waiters : r <= p
<1> DEFINE f == queue_front
           last == f + size
<1>1. /\ f \in Nat /\ last \in Nat /\ last + 1 < MAX /\ MAX \in Nat \ {0}
      /\ Pids \subseteq Nat /\ Waiters \subseteq Pids
  BY PriorityLockAssumption DEF NoWrap, TypeOK, Idx, Waiters
<1>2. CASE /\ locked = 0 /\ q[queue_front] = p
           /\ queue_front' = (queue_front + 1) % MAX
           /\ queue_size' = size - 1
           /\ pc' = [pc EXCEPT ![p] = "critical"]
  <2>1. queue_front' = f + 1 /\ queue_front' + queue_size' = last
    <3>1. f + 1 \in Nat /\ f + 1 < MAX
      BY <1>1
    <3>2. (f + 1) % MAX = f + 1
      BY <1>1, <3>1
    <3> QED
      BY <1>1, <1>2, <3>2
  <2>2. Waiters' = (Waiters \cup {p}) \ {p}
    BY <1>2 DEF Waiters, Waiting, TypeOK
  <2>3. \A i \in f + 1 .. last : p > q[i] /\ q[i] \in Waiters \cup {p} /\ q[i] \in Nat
    <3> SUFFICES ASSUME NEW i \in f + 1 .. last
                 PROVE  p > q[i] /\ q[i] \in Waiters \cup {p} /\ q[i] \in Nat
      OBVIOUS
    <3>1. f \in f .. last /\ i \in f .. last /\ f < i
      BY <1>1
    <3>2. q[f] > q[i] /\ q[i] \in Waiters \cup {p}
      BY <3>1 DEF Sorted, Holds
    <3> QED
      BY <1>1, <1>2, <3>2
  <2>4. \A i \in f + 1 .. last : q[i] /= p
    BY <1>1, <2>3
  <2>5. \A r \in (Waiters \cup {p}) \ {p} : \E i \in f + 1 .. last : q[i] = r
    <3> SUFFICES ASSUME NEW r \in (Waiters \cup {p}) \ {p}
                 PROVE  \E i \in f + 1 .. last : q[i] = r
      OBVIOUS
    <3>1. PICK i \in f .. last : q[i] = r
      BY DEF Holds
    <3>2. i /= f
      BY <1>2, <3>1
    <3> QED
      BY <1>1, <3>1, <3>2
  <2>6. Sorted(q, f + 1 .. last) /\ Holds(q, f + 1 .. last, (Waiters \cup {p}) \ {p})
    BY <1>1, <2>3, <2>4, <2>5 DEF Sorted, Holds
  <2>7. queue_front' + queue_size' + 1 = admitted'
    BY <1>1, <1>2, <2>1
  <2>8. Straight'
    BY <2>1, <2>2, <2>6, <2>7 DEF Straight
  <2>9. \A r \in Waiters : r <= p
    <3> SUFFICES ASSUME NEW r \in Waiters, r /= p PROVE r <= p
      BY <1>1
    <3>1. PICK i \in f + 1 .. last : q[i] = r
      BY <2>5
    <3> QED
      BY <1>1, <2>3, <3>1
  <2> QED
    BY <2>8, <2>9
<1>3. CASE /\ pc' = [pc EXCEPT ![p] = "asleep"]
           /\ queue_size' = size
           /\ UNCHANGED queue_front
  <2>1. Waiters' = Waiters \cup {p}
    BY <1>3 DEF Waiters, Waiting, TypeOK
  <2>3. Straight'
    BY <1>3, <2>1 DEF Straight
  <2>4. pc'[p] /= "critical"
    BY <1>3 DEF TypeOK
  <2> QED
    BY <2>3, <2>4
<1> QED
  BY <1>2, <1>3 DEF TakeOrSleep

\* The empty queue of initprioritylock() is straight.
LEMMA InitStraight == Init => Straight
<1> SUFFICES ASSUME Init PROVE Straight
  OBVIOUS
<1>1. Waiters = {}
  BY DEF Init, Waiters, Waiting
<1>2. queue_front .. queue_front + queue_size = {}
  BY DEF Init
<1> QED
  BY <1>1, <1>2 DEF Straight, Sorted, Holds, Init

\* The step of acquirepriority(), from its start or from sleep().
LEMMA AcquireStraight ==
    ASSUME NoWrap, IInv, Straight, NEW p \in Pids, Acquire(p) \/ Recheck(p)
    PROVE  /\ Straight'
           /\ pc'[p] = "critical" => \A r \in Waiters : r <= p
<1>1. /\ TypeOK /\ MAX \in Nat /\ MaxAdmissions \in Nat
      /\ queue_front \in Nat /\ queue_size \in Int /\ queue_size >= -1
      /\ queue_front + queue_size + 1 = admitted
      /\ admitted \in Nat /\ admitted <= MaxAdmissions
      /\ queue \in [Idx -> Pids \cup {0}] /\ queue_front \in Idx
  BY PriorityLockAssumption DEF IInv, TypeOK, Idx, Straight
<1>2. CASE Acquire(p)
  <2>1. /\ pc[p] = "user" /\ TakeOrSleep(p, queue', queue_size + 1)
        /\ queue' = add_process_to_priority_lock(queue, queue_front, queue_size + 1, p)
        /\ admitted < MaxAdmissions /\ admitted' = admitted + 1
    BY <1>2 DEF Acquire
  <2>2. PICK size \in Nat : size = queue_size + 1
    BY <1>1
  <2>3. /\ queue_front + size \in Idx
        /\ queue_front + size - 1 = queue_front + queue_size
        /\ queue_front + size + 1 = admitted' /\ admitted' <= MaxAdmissions
        /\ size \in Idx
    BY <1>1, <2>1, <2>2 DEF NoWrap, Idx
  <2>4. p \notin Waiters
    BY <2>1 DEF Waiters, Waiting
  <2>5. /\ Sorted(queue, queue_front .. queue_front + size - 1)
        /\ Holds(queue, queue_front .. queue_front + size - 1, Waiters)
    BY <2>3 DEF Straight
  <2>6. /\ Sorted(queue', queue_front .. queue_front + size)
        /\ Holds(queue', queue_front .. queue_front + size, Waiters \cup {p})
    BY <1>1, <2>1, <2>2, <2>3, <2>4, <2>5, InsertSorted
  <2>7. queue' \in [Idx -> Pids \cup {0}]
    BY <1>1, <2>1, <2>2, <2>3, FrontAfterAdd
  <2> QED
    BY <1>1, <2>1, <2>2, <2>3, <2>6, <2>7, TakeOrSleepStraight
<1>3. CASE Recheck(p)
  <2>1. /\ pc[p] = "woken" /\ TakeOrSleep(p, queue, queue_size)
        /\ queue' = queue /\ admitted' = admitted
    BY <1>3 DEF Recheck
  <2>2. p \in Waiters /\ Waiters \cup {p} = Waiters
    BY <2>1 DEF Waiters, Waiting
  <2>3. queue_size \in Nat
    BY <1>1, <2>2 DEF Straight, Holds
  <2>4. /\ Sorted(queue, queue_front .. queue_front + queue_size)
        /\ Holds(queue, queue_front .. queue_front + queue_size, Waiters \cup {p})
    BY <2>2 DEF Straight
  <2> QED
    BY <1>1, <2>1, <2>3, <2>4, TakeOrSleepStraight
<1> QED
  BY <1>2, <1>3

\* No other step moves the queue or changes who waits.
LEMMA OthersStraight ==
    ASSUME IInv, Straight,
           UNCHANGED vars \/ \E p \in Pids : Release(p) \/ Exit(p) \/ Kill(p)
    PROVE  Straight' /\ Waiters' = Waiters
<1>1. UNCHANGED <<queue, queue_front, queue_size, admitted>>
  BY DEF vars, Release, Unlock, Exit, Kill
<1>2. Waiters' = Waiters
  <2>1. CASE UNCHANGED vars
    BY <2>1 DEF vars, Waiters, Waiting
  <2>2. ASSUME NEW p \in Pids, Release(p) PROVE Waiters' = Waiters
    BY <2>2 DEF IInv, TypeOK, Release, Unlock, WakeAllAnd, Waiters, Waiting
  <2>3. ASSUME NEW p \in Pids, Exit(p) PROVE Waiters' = Waiters
    BY <2>3 DEF IInv, TypeOK, Exit, Unlock, WakeAllAnd, Waiters, Waiting
  <2>4. ASSUME NEW p \in Pids, Kill(p) PROVE Waiters' = Waiters
    BY <2>4 DEF IInv, TypeOK, Kill, Waiters, Waiting
  <2> QED
    BY <2>1, <2>2, <2>3, <2>4
<1> QED
  BY <1>1, <1>2 DEF Straight

\* Before the wrap-around every step keeps the queue straight.
LEMMA NextStraight == NoWrap /\ IInv /\ Straight /\ [Next]_vars => Straight'
<1> SUFFICES ASSUME NoWrap, IInv, Straight, [Next]_vars PROVE Straight'
  OBVIOUS
<1>1. CASE \E p \in Pids : Acquire(p) \/ Recheck(p)
  BY <1>1, AcquireStraight
<1>2. CASE UNCHANGED vars \/ \E p \in Pids : Release(p) \/ Exit(p) \/ Kill(p)
  BY <1>2, OthersStraight
<1> QED
  BY <1>1, <1>2 DEF Next, Refused

\* A straight queue is what the users of the lock expect of the ring.
LEMMA StraightIsQueue == NoWrap /\ IInv /\ Straight => QueueIsWaiters
<1> SUFFICES ASSUME NoWrap, IInv, Straight PROVE QueueIsWaiters
  OBVIOUS
<1>1. /\ MAX \in Nat \ {0} /\ queue_front \in Nat /\ queue_size \in Int
      /\ queue_front + queue_size < MAX
  BY PriorityLockAssumption DEF NoWrap, IInv, TypeOK, Idx, Straight
<1>2. \A i \in 0 .. queue_size : (queue_front + i) % MAX = queue_front + i
  <2>1. \A a \in Nat : a < MAX => a % MAX = a
    BY <1>1
  <2> SUFFICES ASSUME NEW i \in 0 .. queue_size PROVE (queue_front + i) % MAX = queue_front + i
    OBVIOUS
  <2>2. PICK a \in Nat : a = queue_front + i
    BY <1>1
  <2> QED
    BY <1>1, <2>1, <2>2
<1>3. \A i \in 0 .. queue_size : queue_front + i \in queue_front .. queue_front + queue_size
  BY <1>1
<1>4. Window \subseteq Waiters
  BY <1>2, <1>3 DEF Window, Straight, Holds
<1>5. Waiters \subseteq Window
  <2> SUFFICES ASSUME NEW p \in Waiters
               PROVE  \E i \in 0 .. queue_size : p = queue[(queue_front + i) % MAX]
    BY DEF Window
  <2>1. PICK j \in queue_front .. queue_front + queue_size : queue[j] = p
    BY DEF Straight, Holds
  <2>2. j - queue_front \in 0 .. queue_size /\ queue_front + (j - queue_front) = j
    BY <1>1
  <2> QED
    BY <1>2, <2>1, <2>2
<1>6. ASSUME NEW i \in 0 .. queue_size, NEW j \in 0 .. queue_size, i < j
      PROVE  queue[(queue_front + i) % MAX] > queue[(queue_front + j) % MAX]
  <2>1. queue_front + i < queue_front + j
    BY <1>1, <1>6
  <2>2. queue[queue_front + i] > queue[queue_front + j]
    BY <1>3, <2>1 DEF Straight, Sorted
  <2> QED
    BY <1>2, <2>2
<1> QED
  BY <1>4, <1>5, <1>6 DEF QueueIsWaiters, Waiters

\* Before the wrap-around the ring holds exactly the processes waiting in
\* acquirepriority(), greatest pid first.
THEOREM QueueCorrect == NoWrap => (Spec => []QueueIsWaiters)
<1> SUFFICES ASSUME NoWrap PROVE Spec => []QueueIsWaiters
  OBVIOUS
<1>1. Init => Straight
  BY InitStraight
<1>2. IInv /\ Straight /\ [Next]_vars => Straight'
  BY NextStraight
<1>3. IInv /\ Straight => QueueIsWaiters
  BY StraightIsQueue
<1> QED
  BY <1>1, <1>2, <1>3, Invariance, PTL DEF Spec

\* Before the wrap-around prioritylock.c, with exit() and kill(), implements
\* the priority mutex: every step is a step of PriorityMutex or changes
\* neither the owner nor the waiters.
THEOREM Implements == NoWrap => (Spec => IsPriorityMutex)
<1> SUFFICES ASSUME NoWrap PROVE Spec => Mutex!Spec
  BY DEF IsPriorityMutex
<1>1. Init => Mutex!Init
  BY DEF Init, Mutex!Init, Waiting
<1>2. IInv /\ Straight /\ [Next]_vars => [Mutex!Next]_(Mutex!mutexVars)
  <2> SUFFICES ASSUME IInv, Straight, [Next]_vars
               PROVE  Mutex!Next \/ UNCHANGED <<lkpid, Waiters>>
    BY DEF Mutex!mutexVars, Waiters
  <2>1. Straight'
    BY NextStraight
  <2>2. ASSUME NEW p \in Pids, Acquire(p) \/ Recheck(p)
        PROVE  Mutex!Next \/ UNCHANGED <<lkpid, Waiters>>
    <3>1. pc[p] \in {"user", "woken"}
      BY <2>2 DEF Acquire, Recheck
    <3>2. PICK q, size : TakeOrSleep(p, q, size)
      BY <2>2 DEF Acquire, Recheck
    <3>3. CASE locked = 0 /\ lkpid' = p /\ pc' = [pc EXCEPT ![p] = "critical"]
      <4>1. pc'[p] = "critical"
        BY <3>3 DEF IInv, TypeOK
      <4>2. lkpid = 0 /\ \A r \in Waiters : r <= p
        BY <2>2, <3>3, <4>1, AcquireStraight DEF IInv, OwnerIsCritical
      <4>3. Waiters' = Waiters \ {p}
        BY <3>3 DEF IInv, TypeOK, Waiters, Waiting
      <4>4. Mutex!Grant(p)
        BY <3>3, <4>2, <4>3 DEF Mutex!Grant, Waiters
      <4> QED
        BY <4>4 DEF Mutex!Next
    <3>4. CASE UNCHANGED lkpid /\ pc' = [pc EXCEPT ![p] = "asleep"]
      <4>1. Waiters' = Waiters \cup {p}
        BY <3>4 DEF IInv, TypeOK, Waiters, Waiting
      <4>2. CASE p \in Waiters
        BY <3>4, <4>1, <4>2
      <4>3. CASE p \notin Waiters
        <5>1. p /= lkpid
          BY <3>1 DEF IInv, OwnerIsCritical
        <5>2. Mutex!Join(p)
          BY <3>4, <4>1, <4>3, <5>1 DEF Mutex!Join, Waiters
        <5> QED
          BY <5>2 DEF Mutex!Next
      <4> QED
        BY <4>2, <4>3
    <3> QED
      BY <3>2, <3>3, <3>4 DEF TakeOrSleep
  <2>3. ASSUME NEW p \in Pids, Release(p) \/ Exit(p)
        PROVE  Mutex!Next \/ UNCHANGED <<lkpid, Waiters>>
    <3>1. Waiters' = Waiters
      BY <2>3, OthersStraight
    <3>2. UNCHANGED lkpid \/ (lkpid = p /\ lkpid' = 0)
      BY <2>3 DEF Release, Exit, Unlock
    <3>3. lkpid = p /\ lkpid' = 0 => Mutex!Free
      BY <3>1, PriorityLockAssumption DEF Mutex!Free, Waiters
    <3> QED
      BY <3>1, <3>2, <3>3 DEF Mutex!Next
  <2>4. CASE UNCHANGED vars \/ \E p \in Pids : Kill(p)
    BY <2>4, OthersStraight DEF vars, Kill
  <2> QED
    BY <2>2, <2>3, <2>4 DEF Next, Refused
<1>3. Init => Straight
  BY InitStraight
<1>4. IInv /\ Straight /\ [Next]_vars => Straight'
  BY NextStraight
<1> QED
  BY <1>1, <1>2, <1>3, <1>4, Invariance, PTL DEF Spec, Mutex!Spec
=============================================================================
