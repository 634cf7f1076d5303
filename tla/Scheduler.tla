----------------------------- MODULE Scheduler ------------------------------
(***************************************************************************)
(* The multi-level scheduler of proc.c: a round-robin queue RR before a    *)
(* last-come-first-served queue LCFS before a best-job-first queue BJF,    *)
(* with aging into RR.  The processes are fixed here (module ProcTable     *)
(* creates and destroys them) and run, sleep, wake and are preempted by    *)
(* the timer interrupt of each CPU, as in trap().                          *)
(*                                                                         *)
(* ticks grows without bound and is only used in ticks - last_run, which   *)
(* is compared with AGING_THRESHOLD: age is that difference, saturating    *)
(* one above the threshold.  The float rank of a BJF job is an integer     *)
(* here: base for what set_bjf_process() and set_bjf_system() weigh, and   *)
(* cycles for executed_cycles, saturating at MaxCycles.                    *)
(***************************************************************************)
EXTENDS Integers, FiniteSets, FiniteSetsExt

CONSTANTS NPROC, NCPU, AGING_THRESHOLD,
          Arrival,      \* Arrival[s]: sched_info.arrival_time
          Bases,        \* values of base
          QueueArgs,    \* queue numbers given to change_process_queue()
          MaxCycles,    \* bound: saturation of cycles
          MaxChanges    \* bound: calls that change a queue or a base

Slots == 0 .. NPROC - 1
CPUs == 1 .. NCPU     \* CPU 1 is the one whose cpuid() is 0
None == -1
RR == 1
LCFS == 2
BJF == 3

ASSUME SchedulerAssumption ==
    /\ NPROC \in Nat \ {0} /\ NCPU \in Nat \ {0}
    /\ AGING_THRESHOLD \in Nat /\ MaxCycles \in Nat /\ MaxChanges \in Nat
    /\ Arrival \in [Slots -> Nat]
    /\ Bases \subseteq Nat /\ Bases /= {}
    /\ QueueArgs \subseteq Int

VARIABLES
    state, queue, age, base, cycles,  \* per process
    proc,                \* cpus[c].proc
    last_rr_scheduled,   \* local to scheduler() on each CPU
    intr,                \* place in the timer interrupt of each CPU
    changes

info == <<queue, age, base, cycles>>
vars == <<state, info, proc, last_rr_scheduled, intr, changes>>

Init ==
    /\ state \in [Slots -> {"RUNNABLE", "SLEEPING"}]
    /\ queue \in [Slots -> {RR, LCFS, BJF}]
    /\ age = [s \in Slots |-> 0]
    /\ base = [s \in Slots |-> Min(Bases)]
    /\ cycles = [s \in Slots |-> 0]
    /\ proc = [c \in CPUs |-> None]
    /\ last_rr_scheduled = [c \in CPUs |-> NPROC - 1]
    /\ intr = [c \in CPUs |-> "none"]
    /\ changes = 0

(***************************************************************************)
(* The choice of the next process                                          *)
(***************************************************************************)

Runnable(q) == {s \in Slots : state[s] = "RUNNABLE" /\ queue[s] = q}

\* find_next_round_robin(last): the first RUNNABLE process of RR behind last,
\* cyclically, last itself being the last one looked at.
Distance(last, s) == (s - last - 1) % NPROC

\* Mutant: always from the start of the table
FindFromStart(last) == Min(Runnable(RR))

find_next_round_robin(last) ==
    CHOOSE s \in Runnable(RR) :
        \A t \in Runnable(RR) : Distance(last, s) <= Distance(last, t)

\* find_next_lcfs(): the latest arrival, the first of equal ones.
find_next_lcfs ==
    CHOOSE s \in Runnable(LCFS) : \A t \in Runnable(LCFS) :
        Arrival[t] < Arrival[s] \/ (Arrival[t] = Arrival[s] /\ s <= t)

calc_process_bjf_rank(s) == base[s] + cycles[s]

\* find_next_bjf(): the smallest rank, the first of equal ones.
find_next_bjf ==
    CHOOSE s \in Runnable(BJF) : \A t \in Runnable(BJF) :
        \/ calc_process_bjf_rank(s) < calc_process_bjf_rank(t)
        \/ calc_process_bjf_rank(s) = calc_process_bjf_rank(t) /\ s <= t

\* The switch to s, to the point where it returns to user mode
Dispatch(c, s) ==
    /\ state' = [state EXCEPT ![s] = "RUNNING"]
    /\ proc' = [proc EXCEPT ![c] = s]
    /\ cycles' = [cycles EXCEPT ![s] = IF @ < MaxCycles THEN @ + 1 ELSE @]
    /\ UNCHANGED <<queue, age, base, intr, changes>>

\* One round of the loop of scheduler()
Schedule(c) ==
    /\ proc[c] = None /\ intr[c] = "none"
    /\ \/ /\ Runnable(RR) /= {}
          /\ LET s == find_next_round_robin(last_rr_scheduled[c])
             IN  /\ last_rr_scheduled' = [last_rr_scheduled EXCEPT ![c] = s]
                 /\ Dispatch(c, s)
       \/ /\ Runnable(RR) = {} /\ Runnable(LCFS) /= {}
          /\ Dispatch(c, find_next_lcfs)
          /\ UNCHANGED last_rr_scheduled
       \/ /\ Runnable(RR) = {} /\ Runnable(LCFS) = {} /\ Runnable(BJF) /= {}
          /\ Dispatch(c, find_next_bjf)
          /\ UNCHANGED last_rr_scheduled

(***************************************************************************)
(* The timer interrupt                                                     *)
(***************************************************************************)

\* Timer interrupt of the first CPU: ticks++ and wakeup(&ticks), then
\* age_processes(), then yield(), each under a lock of its own.
TimerTick ==
    /\ intr[1] = "none"
    /\ age' = [s \in Slots |-> IF age[s] <= AGING_THRESHOLD THEN age[s] + 1 ELSE age[s]]
    /\ intr' = [intr EXCEPT ![1] = "age"]
    /\ UNCHANGED <<state, queue, base, cycles, proc, last_rr_scheduled, changes>>

\* Mutant: only processes of LCFS age
AgeOnlyLcfs ==
    /\ intr[1] = "age"
    /\ queue' = [s \in Slots |-> IF /\ state[s] = "RUNNABLE" /\ queue[s] = LCFS
                                    /\ age[s] > AGING_THRESHOLD
                                 THEN RR ELSE queue[s]]
    /\ intr' = [intr EXCEPT ![1] = "yield"]
    /\ UNCHANGED <<state, age, base, cycles, proc, last_rr_scheduled, changes>>

age_processes ==
    /\ intr[1] = "age"
    /\ LET aged == {s \in Slots : /\ state[s] = "RUNNABLE" /\ queue[s] /= RR
                                  /\ age[s] > AGING_THRESHOLD}
       IN  /\ queue' = [s \in Slots |-> IF s \in aged THEN RR ELSE queue[s]]
           /\ age' = [s \in Slots |-> IF s \in aged THEN 0 ELSE age[s]]
    /\ intr' = [intr EXCEPT ![1] = "yield"]
    /\ UNCHANGED <<state, base, cycles, proc, last_rr_scheduled, changes>>

\* The end of trap() for a timer interrupt: the process of the CPU, if there
\* is one, yields.  On the other CPUs the interrupt does nothing else.
TrapYield(c) ==
    /\ intr[c] = IF c = 1 THEN "yield" ELSE "none"
    /\ \/ /\ proc[c] /= None
          /\ state' = [state EXCEPT ![proc[c]] = "RUNNABLE"]
          /\ age' = [age EXCEPT ![proc[c]] = 0]
          /\ proc' = [proc EXCEPT ![c] = None]
       \/ /\ proc[c] = None /\ c = 1
          /\ UNCHANGED <<state, age, proc>>
    /\ intr' = [intr EXCEPT ![c] = "none"]
    /\ UNCHANGED <<queue, base, cycles, last_rr_scheduled, changes>>

(***************************************************************************)
(* What the running processes do                                           *)
(***************************************************************************)

\* sleep(): last_run is not touched.
Sleep(c) ==
    /\ proc[c] /= None /\ intr[c] = "none"
    /\ state' = [state EXCEPT ![proc[c]] = "SLEEPING"]
    /\ proc' = [proc EXCEPT ![c] = None]
    /\ UNCHANGED <<info, last_rr_scheduled, intr, changes>>

\* wakeup() or kill(): last_run is not touched here either.
Wake(s) ==
    /\ state[s] = "SLEEPING"
    /\ state' = [state EXCEPT ![s] = "RUNNABLE"]
    /\ UNCHANGED <<info, proc, last_rr_scheduled, intr, changes>>

\* change_process_queue() of a process in the table, by the process of CPU c.
\* The queue number is not checked.
ChangeQueue(c, s, q) ==
    /\ proc[c] /= None /\ intr[c] = "none"
    /\ changes < MaxChanges
    /\ queue' = [queue EXCEPT ![s] = q]
    /\ age' = [age EXCEPT ![s] = 0]
    /\ changes' = changes + 1
    /\ UNCHANGED <<state, base, cycles, proc, last_rr_scheduled, intr>>

\* set_bjf_process() of s, or set_bjf_system()
SetBjf(c, S, b) ==
    /\ proc[c] /= None /\ intr[c] = "none"
    /\ changes < MaxChanges
    /\ base' = [s \in Slots |-> IF s \in S THEN b ELSE base[s]]
    /\ changes' = changes + 1
    /\ UNCHANGED <<state, queue, age, cycles, proc, last_rr_scheduled, intr>>

Next ==
    \/ TimerTick \/ age_processes
    \/ \E c \in CPUs : Schedule(c) \/ TrapYield(c) \/ Sleep(c)
    \/ \E s \in Slots : Wake(s)
    \/ \E c \in CPUs, s \in Slots, q \in QueueArgs : ChangeQueue(c, s, q)
    \/ \E c \in CPUs, b \in Bases : SetBjf(c, Slots, b) \/ \E s \in Slots : SetBjf(c, {s}, b)

Spec == Init /\ [][Next]_vars

(***************************************************************************)
(* Fairness: every CPU takes its timer interrupts and finishes them, and   *)
(* between them its scheduler gets to the end of a round (strong fairness, *)
(* since interrupts come in between).  Nothing is assumed of processes:    *)
(* they may sleep for ever, or never.                                      *)
(***************************************************************************)
Fairness ==
    /\ WF_vars(TimerTick) /\ WF_vars(age_processes)
    /\ \A c \in CPUs : SF_vars(Schedule(c)) /\ WF_vars(TrapYield(c))

(***************************************************************************)
(* Properties                                                              *)
(***************************************************************************)

\* No starvation: every RUNNABLE process runs, in whichever queue it is, a
\* queue that does not exist included: aging brings it to RR.
NoStarvation == \A s \in Slots : state[s] = "RUNNABLE" ~> state[s] = "RUNNING"
=============================================================================
