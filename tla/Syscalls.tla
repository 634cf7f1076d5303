------------------------------ MODULE Syscalls ------------------------------
(***************************************************************************)
(* System calls and the clock on several CPUs: the interrupt flag with     *)
(* pushcli()/popcli() and the spin lock tickslock of spinlock.c, the       *)
(* counters of syscall(), the timer interrupt of trap(), sys_sleep() and   *)
(* sys_uptime().                                                           *)
(*                                                                         *)
(* One process runs on each CPU; while it sleeps the CPU is in scheduler() *)
(* with interrupts on.  An increment is a load and a store.                *)
(***************************************************************************)
EXTENDS Integers, Sequences, FiniteSetsExt

CONSTANTS
    CPUs,       \* CPU 0 counts the ticks
    UINT,       \* ticks wraps at UINT
    Calls,      \* what the process on each CPU calls: uptime, sleep or exec
    Naps,       \* arguments of sys_sleep()
    MaxCount,   \* bound on the counters
    MaxExecs    \* bound on the calls of exec()

VARIABLE k      \* cpu: the CPUs with the process on each; lock: tickslock;
                \* ticks; executed, shared: the counters; counted: what they
                \* should be; execs: the resets; raced: a counter was reset during an increment

None == -1

Sum(f) == MapThenSumSet(LAMBDA c : f[c], CPUs)

Idle == [pc |-> "user", call |-> "none", ie |-> TRUE, ncli |-> 0, intena |-> FALSE,
         irq |-> "none", reg |-> 0, n |-> 0, ticks0 |-> 0, passed |-> 0, killed |-> FALSE]

Init == k = [cpu |-> [c \in CPUs |-> Idle], lock |-> [locked |-> FALSE, cpu |-> None], ticks |-> 0,
             executed |-> [c \in CPUs |-> 0], shared |-> 0, counted |-> [c \in CPUs |-> 0],
             raced |-> FALSE, execs |-> 0, panic |-> FALSE]

-----------------------------------------------------------------------------
(* The CPU p after pushcli() and popcli()                                  *)

pushcli(p) == [p EXCEPT !.ie = FALSE, !.intena = IF p.ncli = 0 THEN p.ie ELSE @, !.ncli = @ + 1]

popcli(p) == [p EXCEPT !.ie = p.ncli = 1 /\ p.intena, !.intena = p.ncli > 1 /\ @, !.ncli = @ - 1]

\* popcli() without a pushcli() panics
Unmatched(p) == p.ie \/ p.ncli = 0

holding(s, c) == s.lock.locked /\ s.lock.cpu = c

\* Mutant: interrupts stay on while the lock is waited for and held
acquireOpen(s, c) == [s EXCEPT !.cpu[c].ncli = @ + 1, !.panic = @ \/ holding(s, c)]

\* acquire() up to the loop with xchg
acquire(s, c) == [s EXCEPT !.cpu[c] = pushcli(@), !.panic = @ \/ holding(s, c)]

\* xchg finds the lock free
xchg(s, c) == [s EXCEPT !.lock = [locked |-> TRUE, cpu |-> c]]

release(s, c) ==
    [s EXCEPT !.lock = [locked |-> FALSE, cpu |-> None], !.cpu[c] = popcli(@),
              !.panic = @ \/ ~holding(s, c) \/ Unmatched(s.cpu[c])]

-----------------------------------------------------------------------------
(* syscall() on CPU c, which is not in an interrupt                        *)

At(c, pc) == k.cpu[c].pc = pc /\ k.cpu[c].irq = "none" /\ ~k.panic
Go(s, c, pc) == [s EXCEPT !.cpu[c].pc = pc]
Pending == {"store", "load", "shared"}

\* cli() and the load of the CPU's counter
Enter(c) ==
    /\ At(c, "user") /\ Sum(k.executed) < MaxCount
    /\ \E call \in Calls[c], n \in Naps :
          k' = [Go(k, c, "store") EXCEPT !.cpu[c].ie = FALSE, !.cpu[c].reg = k.executed[c],
                                         !.cpu[c].call = call, !.cpu[c].n = IF call = "sleep" THEN n ELSE 0]

\* Its store, and sti()
CountOwn(c) ==
    /\ At(c, "store")
    /\ k' = [Go(k, c, "load") EXCEPT !.executed[c] = k.cpu[c].reg + 1, !.cpu[c].ie = TRUE,
                                     !.cpu[c].reg = 0, !.counted[c] = @ + 1]

LoadShared(c) == At(c, "load") /\ k' = [Go(k, c, "shared") EXCEPT !.cpu[c].reg = k.shared]

StoreShared(c) ==
    /\ At(c, "shared")
    /\ k' = [Go(k, c, k.cpu[c].call) EXCEPT !.shared = k.cpu[c].reg + 1, !.cpu[c].reg = 0,
                                                !.cpu[c].call = "none"]

\* Mutant: the shared counter is not reset
init_num_syscallsOwn(c) ==
    /\ At(c, "exec") /\ k.execs < MaxExecs
    /\ k' = [k EXCEPT !.cpu[c] = [Idle EXCEPT !.killed = k.cpu[c].killed],
                      !.executed = [d \in CPUs |-> 0], !.counted = [d \in CPUs |-> 0],
                      !.execs = @ + 1, !.raced = \E d \in CPUs \ {c} : k.cpu[d].pc \in Pending]

\* exec() resets the counters of all CPUs
init_num_syscalls(c) ==
    /\ At(c, "exec") /\ k.execs < MaxExecs
    /\ k' = [k EXCEPT !.cpu[c] = [Idle EXCEPT !.killed = k.cpu[c].killed],
                      !.executed = [d \in CPUs |-> 0], !.counted = [d \in CPUs |-> 0], !.shared = 0,
                      !.execs = @ + 1, !.raced = \E d \in CPUs \ {c} : k.cpu[d].pc \in Pending]

\* sys_uptime() and sys_sleep() take tickslock
Acquire(c) ==
    \E call \in {"uptime", "sleep", "awake"} :
        At(c, call) /\ k' = Go(acquire(k, c), c, call \o " spin")

Spin(c) ==
    \E call \in {"uptime", "sleep", "awake"} :
        At(c, call \o " spin") /\ ~k.lock.locked /\ k' = Go(xchg(k, c), c, call \o " held")

Return(s, c) == [s EXCEPT !.cpu[c] = [@ EXCEPT !.pc = "user", !.n = 0, !.ticks0 = 0, !.passed = 0]]

sys_uptime(c) == At(c, "uptime held") /\ k' = Return(release(k, c), c)

Sleep(c) ==
    /\ At(c, "sleep held")
    /\ k' = [Go(k, c, "test") EXCEPT !.cpu[c].ticks0 = k.ticks, !.cpu[c].passed = 0]

\* Mutant: the times are compared without regard to the wrap of ticks
SleepTestUnwrapped(c) ==
    LET p == k.cpu[c] IN
    /\ At(c, "test") \/ At(c, "awake held")
    /\ k' = IF k.ticks >= (p.ticks0 + p.n) % UINT THEN Go(release(k, c), c, "slept")
            ELSE IF p.killed THEN Return(release(k, c), c)
            ELSE Go(release(k, c), c, "asleep")

\* The test of sys_sleep()'s loop; sleep() gives the lock up
SleepTest(c) ==
    LET p == k.cpu[c] IN
    /\ At(c, "test") \/ At(c, "awake held")
    /\ k' = IF (k.ticks - p.ticks0) % UINT >= p.n THEN Go(release(k, c), c, "slept")
            ELSE IF p.killed THEN Return(release(k, c), c)
            ELSE Go(release(k, c), c, "asleep")

Slept(c) == At(c, "slept") /\ k' = Return(k, c)

\* kill() wakes the process up
kill(c) ==
    /\ ~k.cpu[c].killed /\ k.cpu[c].pc \in {"sleep held", "test", "asleep"}
    /\ k' = [k EXCEPT !.cpu[c].killed = TRUE, !.cpu[c].pc = IF @ = "asleep" THEN "awake" ELSE @]

\* A killed process ends when it is back, and another one runs
Exit(c) == At(c, "user") /\ k.cpu[c].killed /\ k' = [k EXCEPT !.cpu[c] = Idle]

-----------------------------------------------------------------------------
(* The timer interrupt on CPU 0.  It runs with interrupts off and at its   *)
(* end the flag is what it was                                             *)

Interrupt ==
    /\ k.cpu[0].ie /\ k.cpu[0].irq = "none" /\ ~k.panic
    /\ k' = [acquire([k EXCEPT !.cpu[0].ie = FALSE], 0) EXCEPT !.cpu[0].irq = "spin"]

InterruptSpin ==
    /\ k.cpu[0].irq = "spin" /\ ~k.lock.locked
    /\ k' = [xchg(k, 0) EXCEPT !.cpu[0].irq = "held"]

Tick ==
    /\ k.cpu[0].irq = "held" /\ ~k.panic
    /\ LET s == release(k, 0) IN
       k' = [s EXCEPT !.ticks = (@ + 1) % UINT,
                      !.cpu = [c \in CPUs |->
                          LET p == s.cpu[c]
                              q == [p EXCEPT !.pc = IF @ = "asleep" THEN "awake" ELSE @,
                                             !.passed = IF p.pc \in {"asleep", "awake", "awake spin"} /\ @ < UINT
                                                        THEN @ + 1 ELSE @]
                          IN IF c = 0 THEN [q EXCEPT !.irq = "none", !.ie = TRUE] ELSE q]]

Next ==
    \/ \E c \in CPUs :
          \/ Enter(c) \/ CountOwn(c) \/ LoadShared(c) \/ StoreShared(c) \/ init_num_syscalls(c)
          \/ Acquire(c) \/ Spin(c) \/ sys_uptime(c) \/ Sleep(c) \/ SleepTest(c) \/ Slept(c)
          \/ kill(c) \/ Exit(c)
    \/ Interrupt \/ InterruptSpin \/ Tick

-----------------------------------------------------------------------------
(***************************************************************************)
(* "disable interrupts to avoid deadlock": no CPU waits for a lock that it *)
(* holds, in an interrupt or not; acquire(), release() and popcli() never  *)
(* panic, and interrupts are on again whenever a process is in user mode.  *)
(***************************************************************************)
LocksSafe ==
    /\ ~k.panic
    /\ \A c \in CPUs : LET p == k.cpu[c] IN
          /\ p.irq = "spin" \/ p.pc \in {"uptime spin", "sleep spin", "awake spin"} => ~holding(k, c)
          /\ p.irq = "none" /\ p.pc \in {"user", "asleep"} => p.ie /\ p.ncli = 0

(***************************************************************************)
(* The counters that sys_get_num_syscalls() prints: the CPUs' own ones are *)
(* exact, the shared one may only miss calls; unless exec() on another CPU *)
(* resets them in the middle of an increment.                              *)
(***************************************************************************)
CountsExact ==
    ~k.raced => k.executed = k.counted /\ k.shared <= Sum(k.executed)

(***************************************************************************)
(* sys_sleep() returns 0 only after as many ticks as it was asked for,     *)
(* also when ticks wraps in between.                                       *)
(***************************************************************************)
SleptEnough == \A c \in CPUs : k.cpu[c].pc = "slept" => k.cpu[c].passed >= k.cpu[c].n

=============================================================================
