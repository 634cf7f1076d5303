----------------------------- MODULE ProcTable ------------------------------
(***************************************************************************)
(* The process table of proc.c: allocproc, fork, exit, wait, sleep,        *)
(* wakeup, kill, yield and the hand-over of ptable.lock between a process  *)
(* and the scheduler of its CPU.  A section of code under ptable.lock is   *)
(* one step; sched() and the scheduler's swtch() pass the lock held from   *)
(* one thread of the CPU to the other, so ptlock says which CPU holds it   *)
(* between the steps.  Which RUNNABLE process is chosen is left open here  *)
(* (module Scheduler).                                                     *)
(***************************************************************************)
EXTENDS Integers, FiniteSets, FiniteSetsExt

CONSTANTS NPROC, NCPU,
          MaxPid,       \* bound: allocproc() gives out pids up to MaxPid
          KillPids,     \* arguments of kill()
          UnclePids     \* arguments of get_uncle_count()

ASSUME ProcTableAssumption ==
    /\ NPROC \in Nat \ {0} /\ NCPU \in Nat \ {0} /\ MaxPid \in Nat \ {0}
    /\ KillPids \subseteq Nat /\ UnclePids \subseteq Nat

Slots == 0 .. NPROC - 1    \* ptable.proc
CPUs == 1 .. NCPU          \* cpus
None == -1                 \* a null pointer
Event == -2                \* the channel of whatever is not a process
Free == 0                  \* ptable.lock is not held
initproc == 0

VARIABLES
    state, pid, parent, chan, killed,   \* fields of struct proc
    proc,       \* proc[c]: cpus[c].proc
    ptlock,     \* the CPU that holds ptable.lock, or Free
    nextpid,
    pc,         \* place of the process: see PCs
    np,         \* the slot its fork() is filling
    panic       \* why the machine stopped, or "no"

table == <<state, pid, parent, chan, killed>>
vars == <<table, proc, ptlock, nextpid, pc, np, panic>>

States == {"UNUSED", "EMBRYO", "SLEEPING", "RUNNABLE", "RUNNING", "ZOMBIE"}

(***************************************************************************)
(* "user": in user space; "kernel": in a system call; "alloced" and        *)
(* "parented": in fork(), with np an EMBRYO whose parent is not set yet,   *)
(* or set; "exiting": in exit(), before its last section; "wait": asleep   *)
(* in wait(); "leaked": back from an uncle_count() that kept ptable.lock.  *)
(***************************************************************************)
PCs == {"user", "kernel", "alloced", "parented", "exiting", "wait", "leaked"}

\* userinit(): the first process, and every other slot zeroed
Init ==
    /\ state = [s \in Slots |-> IF s = initproc THEN "RUNNABLE" ELSE "UNUSED"]
    /\ pid = [s \in Slots |-> IF s = initproc THEN 1 ELSE 0]
    /\ parent = [s \in Slots |-> None]
    /\ chan = [s \in Slots |-> None]
    /\ killed = [s \in Slots |-> FALSE]
    /\ proc = [c \in CPUs |-> None]
    /\ ptlock = Free
    /\ nextpid = 2
    /\ pc = [s \in Slots |-> "user"]
    /\ np = [s \in Slots |-> None]
    /\ panic = "no"

\* Slot s runs on CPU c, outside any section of ptable.lock.
Runs(c, s) ==
    /\ panic = "no"
    /\ proc[c] = s
    /\ state[s] = "RUNNING"
    /\ ptlock /= c

\* ... and takes ptable.lock.
Locks(c, s) == Runs(c, s) /\ ptlock = Free

(***************************************************************************)
(* The scheduler and sched()                                               *)
(***************************************************************************)

\* scheduler(): the switch to a RUNNABLE process, which comes back to life
\* with ptable.lock held.
Dispatch(c, s) ==
    /\ panic = "no"
    /\ ptlock = Free /\ proc[c] = None
    /\ state[s] = "RUNNABLE"
    /\ state' = [state EXCEPT ![s] = "RUNNING"]
    /\ proc' = [proc EXCEPT ![c] = s]
    /\ ptlock' = c
    /\ UNCHANGED <<pid, parent, chan, killed, nextpid, pc, np, panic>>

\* The end of yield(), forkret() or sleep() in the process just dispatched:
\* sleep() clears the channel, then the lock is released.
Resume(c, s) ==
    /\ panic = "no"
    /\ ptlock = c /\ proc[c] = s /\ state[s] = "RUNNING"
    /\ pc[s] \notin {"wait", "leaked"}
    /\ chan' = [chan EXCEPT ![s] = None]
    /\ ptlock' = Free
    /\ UNCHANGED <<state, pid, parent, killed, proc, nextpid, pc, np, panic>>

\* The scheduler thread after sched() switched to it: c->proc = 0 and the
\* lock is released.
Switched(c) ==
    /\ panic = "no"
    /\ ptlock = c /\ proc[c] /= None /\ state[proc[c]] /= "RUNNING"
    /\ proc' = [proc EXCEPT ![c] = None]
    /\ ptlock' = Free
    /\ UNCHANGED <<table, nextpid, pc, np, panic>>

\* Mutant: yield() releases the lock before the switch
YieldUnlocked(c, s) ==
    /\ Locks(c, s)
    /\ state' = [state EXCEPT ![s] = "RUNNABLE"]
    /\ UNCHANGED <<pid, parent, chan, killed, proc, ptlock, nextpid, pc, np, panic>>

\* yield(), up to the switch to the scheduler
Yield(c, s) ==
    /\ Locks(c, s)
    /\ state' = [state EXCEPT ![s] = "RUNNABLE"]
    /\ ptlock' = c
    /\ UNCHANGED <<pid, parent, chan, killed, proc, nextpid, pc, np, panic>>

\* trap() for a system call: a killed process exits instead.
Syscall(c, s) ==
    /\ Runs(c, s)
    /\ pc[s] = "user" /\ ~killed[s]
    /\ pc' = [pc EXCEPT ![s] = "kernel"]
    /\ UNCHANGED <<table, proc, ptlock, nextpid, np, panic>>

\* The end of a system call that changes nothing in the process table.
SyscallReturn(c, s) ==
    /\ Runs(c, s)
    /\ pc[s] = "kernel"
    /\ pc' = [pc EXCEPT ![s] = "user"]
    /\ UNCHANGED <<table, proc, ptlock, nextpid, np, panic>>

(***************************************************************************)
(* sleep and wakeup                                                        *)
(***************************************************************************)

\* sleep() on a channel that is not a process, up to the switch
Sleep(c, s) ==
    /\ Locks(c, s)
    /\ pc[s] \in {"kernel", "exiting"}
    /\ state' = [state EXCEPT ![s] = "SLEEPING"]
    /\ chan' = [chan EXCEPT ![s] = Event]
    /\ ptlock' = c
    /\ UNCHANGED <<pid, parent, killed, proc, nextpid, pc, np, panic>>

\* The states after wakeup1(ch), from states st
wakeup1(st, ch) ==
    [s \in Slots |-> IF st[s] = "SLEEPING" /\ chan[s] = ch THEN "RUNNABLE" ELSE st[s]]

\* wakeup() by a process or by an interrupt handler
Wakeup ==
    /\ panic = "no"
    /\ ptlock = Free
    /\ state' = wakeup1(state, Event)
    /\ UNCHANGED <<pid, parent, chan, killed, proc, ptlock, nextpid, pc, np,
                   panic>>

(***************************************************************************)
(* fork                                                                    *)
(***************************************************************************)

\* Mutant: a slot that is being filled counts as free
UnusedOrEmbryo == {s \in Slots : state[s] \in {"UNUSED", "EMBRYO"}}

Unused == {s \in Slots : state[s] = "UNUSED"}

\* fork(): the locked part of allocproc() takes the first UNUSED slot; with
\* none, fork() returns -1 and nothing changes.  killed is not reset.
ForkAlloc(c, s) ==
    /\ Locks(c, s)
    /\ pc[s] = "kernel"
    /\ Unused /= {} /\ nextpid <= MaxPid
    /\ LET n == Min(Unused) IN
       /\ state' = [state EXCEPT ![n] = "EMBRYO"]
       /\ pid' = [pid EXCEPT ![n] = nextpid]
       /\ pc' = [pc EXCEPT ![s] = "alloced", ![n] = "user"]
       /\ np' = [np EXCEPT ![s] = n]
    /\ nextpid' = nextpid + 1
    /\ UNCHANGED <<parent, chan, killed, proc, ptlock, panic>>

\* kalloc() or copyuvm() fails: the slot is given back without ptable.lock,
\* its pid stays.
ForkFail(c, s) ==
    /\ Runs(c, s)
    /\ pc[s] = "alloced"
    /\ state' = [state EXCEPT ![np[s]] = "UNUSED"]
    /\ pc' = [pc EXCEPT ![s] = "user"]
    /\ np' = [np EXCEPT ![s] = None]
    /\ UNCHANGED <<pid, parent, chan, killed, proc, ptlock, nextpid, panic>>

\* np->parent = curproc and the rest of the copying, without ptable.lock
ForkParent(c, s) ==
    /\ Runs(c, s)
    /\ pc[s] = "alloced"
    /\ parent' = [parent EXCEPT ![np[s]] = s]
    /\ pc' = [pc EXCEPT ![s] = "parented"]
    /\ UNCHANGED <<state, pid, chan, killed, proc, ptlock, nextpid, np, panic>>

\* The last section of fork()
ForkRun(c, s) ==
    /\ Locks(c, s)
    /\ pc[s] = "parented"
    /\ state' = [state EXCEPT ![np[s]] = "RUNNABLE"]
    /\ pc' = [pc EXCEPT ![s] = "user"]
    /\ np' = [np EXCEPT ![s] = None]
    /\ UNCHANGED <<pid, parent, chan, killed, proc, ptlock, nextpid, panic>>

(***************************************************************************)
(* exit, wait and kill                                                     *)
(***************************************************************************)

\* exit() is called, by sys_exit() or by trap() for a killed process.  It
\* then closes files, which may sleep.  init must not exit.
ExitCall(c, s) ==
    /\ Runs(c, s)
    /\ pc[s] = "kernel" \/ (pc[s] = "user" /\ killed[s])
    /\ IF s = initproc
       THEN panic' = "init exiting" /\ UNCHANGED pc
       ELSE pc' = [pc EXCEPT ![s] = "exiting"] /\ UNCHANGED panic
    /\ UNCHANGED <<table, proc, ptlock, nextpid, np>>

\* The section of exit() under ptable.lock: the process becomes a ZOMBIE
\* after the states st and parents par were set, and lock is what it leaves.
BecomeZombie(c, s, st, par, lock) ==
    /\ Locks(c, s)
    /\ pc[s] = "exiting"
    /\ state' = [st EXCEPT ![s] = "ZOMBIE"]
    /\ parent' = par
    /\ ptlock' = lock
    /\ UNCHANGED <<pid, chan, killed, proc, nextpid, pc, np, panic>>

\* It wakes the parent, and init if that inherits a ZOMBIE.
ExitWakes(s) ==
    LET woken == wakeup1(state, parent[s])
    IN  IF \E k \in Slots : parent[k] = s /\ state[k] = "ZOMBIE"
        THEN wakeup1(woken, initproc) ELSE woken

Reparented(s) == [k \in Slots |-> IF parent[k] = s THEN initproc ELSE parent[k]]

\* Mutants: the children keep their parent; nobody is woken
ExitOrphans(c, s) == BecomeZombie(c, s, ExitWakes(s), parent, c)
ExitSilent(c, s) == BecomeZombie(c, s, state, Reparented(s), c)

\* exit() keeps ptable.lock for the scheduler to release.
ExitZombie(c, s) == BecomeZombie(c, s, ExitWakes(s), Reparented(s), c)

Children(s) == {k \in Slots : parent[k] = s}
Zombies(s) == {k \in Children(s) : state[k] = "ZOMBIE"}

\* One iteration of the loop of wait(), with ptable.lock held: reap the first
\* ZOMBIE child, return -1, or sleep on the process itself.
WaitScan(c, s) ==
    \/ /\ Zombies(s) /= {}
       /\ LET z == Min(Zombies(s)) IN
          /\ pid' = [pid EXCEPT ![z] = 0]
          /\ parent' = [parent EXCEPT ![z] = None]
          /\ killed' = [killed EXCEPT ![z] = FALSE]
          /\ state' = [state EXCEPT ![z] = "UNUSED"]
       /\ chan' = [chan EXCEPT ![s] = None]
       /\ pc' = [pc EXCEPT ![s] = "user"]
       /\ ptlock' = Free
    \/ /\ Zombies(s) = {} /\ (Children(s) = {} \/ killed[s])
       /\ chan' = [chan EXCEPT ![s] = None]
       /\ pc' = [pc EXCEPT ![s] = "user"]
       /\ ptlock' = Free
       /\ UNCHANGED <<state, pid, parent, killed>>
    \/ /\ Zombies(s) = {} /\ Children(s) /= {} /\ ~killed[s]
       /\ chan' = [chan EXCEPT ![s] = s]
       /\ state' = [state EXCEPT ![s] = "SLEEPING"]
       /\ pc' = [pc EXCEPT ![s] = "wait"]
       /\ ptlock' = c
       /\ UNCHANGED <<pid, parent, killed>>

\* wait() is called, or goes round its loop when sleep() returns, which for
\* wait() keeps ptable.lock.
Wait(c, s) ==
    /\ \/ Locks(c, s) /\ pc[s] = "kernel"
       \/ /\ panic = "no"
          /\ ptlock = c /\ proc[c] = s /\ state[s] = "RUNNING" /\ pc[s] = "wait"
    /\ WaitScan(c, s)
    /\ UNCHANGED <<proc, nextpid, np, panic>>

\* kill(p): the first slot whose pid is p, in any state
Kill(c, s, p) ==
    /\ Locks(c, s)
    /\ pc[s] = "kernel"
    /\ \E t \in Slots : pid[t] = p
    /\ LET t == Min({u \in Slots : pid[u] = p}) IN
       /\ killed' = [killed EXCEPT ![t] = TRUE]
       /\ state' = [state EXCEPT ![t] = IF @ = "SLEEPING" THEN "RUNNABLE" ELSE @]
    /\ pc' = [pc EXCEPT ![s] = "user"]
    /\ UNCHANGED <<pid, parent, chan, proc, ptlock, nextpid, np, panic>>

\* uncle_count(p): when no slot has the pid p, the function returns with
\* ptable.lock held.  (For a pid that is found it changes nothing.)
UncleCount(c, s, p) ==
    /\ Locks(c, s)
    /\ pc[s] = "kernel"
    /\ \A t \in Slots : pid[t] /= p
    /\ ptlock' = c
    /\ pc' = [pc EXCEPT ![s] = "leaked"]
    /\ UNCHANGED <<table, proc, nextpid, np, panic>>

\* The next acquire(&ptable.lock) of that CPU, by the timer interrupt at the
\* latest: a CPU that already holds the lock panics.
AcquireHeld(c, s) ==
    /\ panic = "no"
    /\ proc[c] = s /\ ptlock = c /\ pc[s] = "leaked"
    /\ panic' = "acquire"
    /\ UNCHANGED <<table, proc, ptlock, nextpid, pc, np>>

Step(c, s) ==
    \/ Dispatch(c, s) \/ Resume(c, s) \/ Yield(c, s) \/ Sleep(c, s)
    \/ Syscall(c, s) \/ SyscallReturn(c, s)
    \/ ForkAlloc(c, s) \/ ForkFail(c, s) \/ ForkParent(c, s) \/ ForkRun(c, s)
    \/ ExitCall(c, s) \/ ExitZombie(c, s) \/ Wait(c, s)
    \/ \E p \in KillPids : Kill(c, s, p)
    \/ \E p \in UnclePids : UncleCount(c, s, p)
    \/ AcquireHeld(c, s)

Next ==
    \/ \E c \in CPUs, s \in Slots : Step(c, s)
    \/ \E c \in CPUs : Switched(c)
    \/ Wakeup

Spec == Init /\ [][Next]_vars

(***************************************************************************)
(* Fairness.  A thread that holds ptable.lock goes on to release it, and   *)
(* acquire() is not passed over for ever (strong fairness, since the lock  *)
(* comes and goes): every RUNNABLE process is dispatched (what the module  *)
(* Scheduler shows of the queues), the timer makes a RUNNING one yield,    *)
(* devices wake the sleepers on their channel, a fork() or exit() that     *)
(* began ends, and init, whose program is a loop around wait(), calls it.  *)
(***************************************************************************)
HoldsLock(c) == Switched(c) \/ \E s \in Slots : Resume(c, s) \/ (pc[s] = "wait" /\ Wait(c, s))

Advance(c, s) ==
    \/ ForkParent(c, s) \/ ForkFail(c, s) \/ ForkRun(c, s) \/ ExitZombie(c, s)

FairSpec ==
    /\ Spec
    /\ SF_vars(Wakeup)
    /\ SF_vars(\E c \in CPUs : Syscall(c, initproc)) /\ SF_vars(\E c \in CPUs : Wait(c, initproc))
    /\ \A c \in CPUs : WF_vars(HoldsLock(c)) /\ SF_vars(\E s \in Slots : Yield(c, s))
    /\ \A s \in Slots :
          /\ SF_vars(\E c \in CPUs : Dispatch(c, s))
          /\ SF_vars(\E c \in CPUs : Advance(c, s))

(***************************************************************************)
(* Properties                                                              *)
(***************************************************************************)

\* The process table, the CPUs and the lock keep their types.
TypeOK ==
    /\ state \in [Slots -> States]
    /\ pid \in [Slots -> 0 .. MaxPid]
    /\ parent \in [Slots -> Slots \cup {None}]
    /\ chan \in [Slots -> Slots \cup {None, Event}]
    /\ killed \in [Slots -> BOOLEAN]
    /\ proc \in [CPUs -> Slots \cup {None}]
    /\ ptlock \in CPUs \cup {Free}
    /\ nextpid \in 1 .. MaxPid + 1
    /\ pc \in [Slots -> PCs]
    /\ np \in [Slots -> Slots \cup {None}]
    /\ panic \in {"no", "init exiting", "acquire"}

Alive == {"EMBRYO", "SLEEPING", "RUNNABLE", "RUNNING", "ZOMBIE"}

\* A process is on at most one CPU, and exactly the RUNNING ones are on one,
\* but for the moment in which a CPU holds ptable.lock to switch away.
\* wait() never frees the kernel stack of a process some CPU is still on, and
\* fork() never builds a new process in such a slot.
OneCpuPerProcess ==
    /\ \A c, d \in CPUs : proc[c] = proc[d] /\ proc[c] /= None => c = d
    /\ \A s \in Slots : state[s] = "RUNNING" => \E c \in CPUs : proc[c] = s
    /\ \A c \in CPUs : proc[c] /= None =>
          /\ state[proc[c]] \notin {"UNUSED", "EMBRYO"}
          /\ state[proc[c]] /= "RUNNING" => ptlock = c

\* Two processes never have the same pid, and a fork() in progress owns its
\* EMBRYO alone.
SlotsNotShared ==
    /\ TypeOK
    /\ \A s, t \in Slots :
          s /= t /\ state[s] \in Alive /\ state[t] \in Alive => pid[s] /= pid[t]
    /\ \A s \in Slots : np[s] /= None =>
          /\ state[np[s]] = "EMBRYO"
          /\ \A t \in Slots : np[t] = np[s] => t = s

\* A process other than init has a parent that can still call wait(), and no
\* wakeup is lost between exit(), or kill(), and wait(): a process asleep in
\* wait() has a child, none of its children is a ZOMBIE, and it was not killed.
NoOrphans ==
    \A s \in Slots :
        /\ s /= initproc /\ state[s] \in Alive \ {"EMBRYO"} =>
              parent[s] /= None /\ state[parent[s]] \in Alive \ {"EMBRYO", "ZOMBIE"}
        /\ state[s] = "SLEEPING" /\ chan[s] = s =>
              Children(s) /= {} /\ Zombies(s) = {} /\ ~killed[s]

\* Every ZOMBIE that belongs to init is reaped, orphans that init inherits
\* included, unless init itself exits, which panics.
ZombiesReaped ==
    \A s \in Slots :
        state[s] = "ZOMBIE" /\ parent[s] = initproc ~> state[s] = "UNUSED" \/ panic = "init exiting"
=============================================================================
