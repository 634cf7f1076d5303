-------------------------------- MODULE Log ---------------------------------
(***************************************************************************)
(* The redo log of log.c: begin_op, log_write, end_op, the commit, and the *)
(* recovery that runs at boot, with a crash possible between any two disk  *)
(* writes.  A bwrite() of one block is one step and reaches the disk       *)
(* before the next one starts (iderw() returns when the disk is done); the *)
(* header fits one block, which initlog() checks.  Critical sections of    *)
(* log.lock are one step each, and what is done outside it is not.         *)
(***************************************************************************)
EXTENDS Integers, Sequences, FiniteSets

CONSTANTS Procs,         \* processes that make file system calls
          Block, Val,    \* home blocks of the disk and their contents
          MAXOPBLOCKS, LOGSIZE,
          OpBlocks,      \* most distinct blocks one system call writes
          MaxCrashes     \* bound: number of crashes

ASSUME LogAssumption ==
    /\ Block \subseteq Nat \ {0}
    /\ MAXOPBLOCKS \in Nat \ {0}
    /\ LOGSIZE \in Nat /\ LOGSIZE >= MAXOPBLOCKS
    /\ OpBlocks \in Nat
    /\ MaxCrashes \in Nat

\* sb.nlog, which mkfs.c sets to LOGSIZE: the header and the log blocks
NLog == LOGSIZE

VARIABLES
    home, logblk, hdr,          \* disk: home blocks, log blocks, header block
    lh, outstanding, committing,\* struct log
    cache, dirty,               \* buffer contents; blocks pinned by B_DIRTY
    pc, held, used,             \* per process: place, locked buffer, blocks
    sys, phase, tail,           \* what runs, place in commit or recovery
    crashes

diskState == <<home, logblk, hdr>>
memState == <<lh, outstanding, committing, cache, dirty>>
procState == <<pc, held, used>>
vars == <<diskState, memState, procState, sys, phase, tail, crashes>>

NoBlock == 0

Init ==
    /\ home \in [Block -> Val]
    /\ logblk = [i \in 1 .. LOGSIZE |-> CHOOSE v \in Val : TRUE]
    /\ hdr = <<>>
    /\ lh = <<>> /\ outstanding = 0 /\ committing = FALSE
    /\ cache = home /\ dirty = {}
    /\ pc = [p \in Procs |-> "out"]
    /\ held = [p \in Procs |-> NoBlock]
    /\ used = [p \in Procs |-> {}]
    /\ sys = "recover" /\ phase = "read" /\ tail = 1
    /\ crashes = 0

\* Mutant: nobody is woken
WakeNoneAnd(p, to) == pc' = [pc EXCEPT ![p] = to]

\* wakeup(&log), with process p going on to pc value to
WakeAllAnd(p, to) ==
    pc' = [q \in Procs |-> IF q = p THEN to
                           ELSE IF pc[q] = "asleep" THEN "woken" ELSE pc[q]]

\* panic() stops the machine until it is restarted.
Panic ==
    /\ sys' = "panic"
    /\ UNCHANGED <<diskState, memState, procState, phase, tail, crashes>>

(***************************************************************************)
(* System calls                                                            *)
(***************************************************************************)

\* Mutant of Room: the operation that wants to start is not counted.
RoomShort == Len(lh) + outstanding * MAXOPBLOCKS <= LOGSIZE

\* There is room for one more operation of MAXOPBLOCKS blocks.
Room == Len(lh) + (outstanding + 1) * MAXOPBLOCKS <= LOGSIZE

\* Mutant: an operation may join while the transaction is being committed
JoinCommit(p) ==
    /\ sys = "run"
    /\ pc[p] \in {"out", "woken"}
    /\ Room
    /\ outstanding' = outstanding + 1
    /\ pc' = [pc EXCEPT ![p] = "in"]
    /\ UNCHANGED <<diskState, lh, committing, cache, dirty, held, used,
                   sys, phase, tail, crashes>>

\* One iteration of the loop of begin_op(), from its start or after sleep().
BeginOp(p) ==
    /\ sys = "run"
    /\ pc[p] \in {"out", "woken"}
    /\ \/ /\ ~committing /\ Room
          /\ outstanding' = outstanding + 1
          /\ pc' = [pc EXCEPT ![p] = "in"]
       \/ /\ committing \/ ~Room
          /\ pc' = [pc EXCEPT ![p] = "asleep"]
          /\ UNCHANGED outstanding
    /\ UNCHANGED <<diskState, lh, committing, cache, dirty, held, used,
                   sys, phase, tail, crashes>>

\* A system call that holds the buffer of b modifies it and enters
\* log_write(), whose first tests read log.lh.n without log.lock.
LogWriteCheck(p, b, v) ==
    /\ sys = "run"
    /\ pc[p] = "in"
    /\ \A q \in Procs : held[q] /= b
    /\ Cardinality(used[p] \cup {b}) <= OpBlocks
    /\ IF Len(lh) >= LOGSIZE \/ Len(lh) >= NLog - 1 \/ outstanding < 1
       THEN Panic
       ELSE /\ cache' = [cache EXCEPT ![b] = v]
            /\ held' = [held EXCEPT ![p] = b]
            /\ pc' = [pc EXCEPT ![p] = "writing"]
            /\ UNCHANGED <<diskState, lh, outstanding, committing, dirty,
                           used, sys, phase, tail, crashes>>

\* Mutant: the buffer is not pinned
AppendUnpinned(p) ==
    /\ sys = "run"
    /\ pc[p] = "writing"
    /\ lh' = IF \E i \in 1 .. Len(lh) : lh[i] = held[p] THEN lh ELSE Append(lh, held[p])
    /\ used' = [used EXCEPT ![p] = @ \cup {held[p]}]
    /\ held' = [held EXCEPT ![p] = NoBlock]
    /\ pc' = [pc EXCEPT ![p] = "in"]
    /\ UNCHANGED <<diskState, outstanding, committing, cache, dirty,
                   sys, phase, tail, crashes>>

\* The part of log_write() under log.lock, then brelse() of the buffer.
LogWriteAppend(p) ==
    /\ sys = "run"
    /\ pc[p] = "writing"
    /\ LET b == held[p] IN
       /\ lh' = IF \E i \in 1 .. Len(lh) : lh[i] = b THEN lh ELSE Append(lh, b)
       /\ dirty' = dirty \cup {b}
       /\ used' = [used EXCEPT ![p] = @ \cup {b}]
    /\ held' = [held EXCEPT ![p] = NoBlock]
    /\ pc' = [pc EXCEPT ![p] = "in"]
    /\ UNCHANGED <<diskState, outstanding, committing, cache,
                   sys, phase, tail, crashes>>

\* end_op() up to the release of log.lock: the last operation commits, any
\* other wakes the processes that wait for log space.
EndOp(p) ==
    /\ sys = "run"
    /\ pc[p] = "in"
    /\ IF committing
       THEN Panic
       ELSE /\ outstanding' = outstanding - 1
            /\ used' = [used EXCEPT ![p] = {}]
            /\ \/ /\ outstanding = 1
                  /\ committing' = TRUE
                  /\ pc' = [pc EXCEPT ![p] = "commit"]
                  /\ phase' = IF Len(lh) > 0 THEN "write_log" ELSE "done"
                  /\ tail' = 1
               \/ /\ outstanding > 1
                  /\ WakeAllAnd(p, "out")
                  /\ UNCHANGED <<committing, phase, tail>>
            /\ UNCHANGED <<diskState, lh, cache, dirty, held, sys, crashes>>

(***************************************************************************)
(* commit() and recover_from_log(), one disk write per step                *)
(***************************************************************************)

\* One iteration of write_log(): block tail of the transaction to the log.
WriteLogStep ==
    /\ sys = "run" /\ phase = "write_log"
    /\ logblk' = [logblk EXCEPT ![tail] = cache[lh[tail]]]
    /\ IF tail < Len(lh) THEN tail' = tail + 1 /\ UNCHANGED phase
                         ELSE tail' = 1 /\ phase' = "write_head"
    /\ UNCHANGED <<home, hdr, memState, procState, sys, crashes>>

\* Mutant: the header is written and the installation forgotten
WriteHeadOnly ==
    /\ sys = "run" /\ phase = "write_head"
    /\ hdr' = lh
    /\ phase' = "clear"
    /\ UNCHANGED <<home, logblk, memState, procState, sys, tail, crashes>>

\* write_head() of a transaction: the commit point.
WriteHead ==
    /\ sys = "run" /\ phase = "write_head"
    /\ hdr' = lh
    /\ phase' = "install"
    /\ UNCHANGED <<home, logblk, memState, procState, sys, tail, crashes>>

\* One iteration of install_trans(), in commit() or in recovery: the write
\* of the home block clears B_DIRTY.
InstallStep ==
    /\ sys \in {"run", "recover"} /\ phase = "install"
    /\ home' = [home EXCEPT ![lh[tail]] = logblk[tail]]
    /\ cache' = [cache EXCEPT ![lh[tail]] = logblk[tail]]
    /\ dirty' = dirty \ {lh[tail]}
    /\ IF tail < Len(lh) THEN tail' = tail + 1 /\ UNCHANGED phase
                         ELSE tail' = 1 /\ phase' = "clear"
    /\ UNCHANGED <<logblk, hdr, lh, outstanding, committing, procState, sys,
                   crashes>>

\* log.lh.n = 0 and write_head(), at the end of commit() or of recovery.
ClearHead ==
    /\ sys \in {"run", "recover"} /\ phase = "clear"
    /\ lh' = <<>>
    /\ hdr' = <<>>
    /\ phase' = "done"
    /\ UNCHANGED <<home, logblk, outstanding, committing, cache, dirty,
                   procState, sys, tail, crashes>>

\* The end of end_op() after commit().
EndCommit(p) ==
    /\ sys = "run" /\ phase = "done" /\ pc[p] = "commit"
    /\ committing' = FALSE
    /\ WakeAllAnd(p, "out")
    /\ phase' = "idle"
    /\ UNCHANGED <<diskState, lh, outstanding, cache, dirty, held, used, sys,
                   tail, crashes>>

\* read_head(): the first step of recover_from_log()
ReadHead ==
    /\ sys = "recover" /\ phase = "read"
    /\ lh' = hdr
    /\ phase' = IF Len(hdr) > 0 THEN "install" ELSE "clear"
    /\ UNCHANGED <<diskState, outstanding, committing, cache, dirty,
                   procState, sys, tail, crashes>>

\* initlog() returns to forkret() and the first process goes to user space.
EndRecovery ==
    /\ sys = "recover" /\ phase = "done"
    /\ sys' = "run"
    /\ phase' = "idle"
    /\ UNCHANGED <<diskState, memState, procState, tail, crashes>>

\* The machine stops and is started again: memory is lost, and every block
\* is read from the disk anew.
Crash ==
    /\ crashes < MaxCrashes
    /\ crashes' = crashes + 1
    /\ lh' = <<>> /\ outstanding' = 0 /\ committing' = FALSE
    /\ cache' = home /\ dirty' = {}
    /\ pc' = [p \in Procs |-> "out"]
    /\ held' = [p \in Procs |-> NoBlock]
    /\ used' = [p \in Procs |-> {}]
    /\ sys' = "recover" /\ phase' = "read" /\ tail' = 1
    /\ UNCHANGED diskState

CommitStep == WriteLogStep \/ WriteHead \/ InstallStep \/ ClearHead
RecoveryStep == ReadHead \/ EndRecovery

Next ==
    \/ \E p \in Procs : BeginOp(p) \/ LogWriteAppend(p) \/ EndOp(p) \/ EndCommit(p)
    \/ \E p \in Procs, b \in Block, v \in Val : LogWriteCheck(p, b, v)
    \/ CommitStep
    \/ RecoveryStep
    \/ Crash

Spec == Init /\ [][Next]_vars

(***************************************************************************)
(* Fairness: the disk answers, the scheduler runs what is RUNNABLE, and a  *)
(* system call makes finitely many writes (every loop of fs.c is bounded), *)
(* so that it reaches end_op(): strong fairness, since it may write in     *)
(* between.  Nothing is assumed of a process that is not in begin_op() or  *)
(* behind it.                                                              *)
(***************************************************************************)
FairSpec ==
    /\ Spec
    /\ WF_vars(CommitStep) /\ WF_vars(RecoveryStep)
    /\ \A p \in Procs : WF_vars(LogWriteAppend(p)) /\ SF_vars(EndOp(p))
                        /\ WF_vars(EndCommit(p))

(***************************************************************************)
(* Properties                                                              *)
(***************************************************************************)

\* The log header, its counters and the cached blocks stay in their ranges.
TypeOK ==
    /\ home \in [Block -> Val] /\ cache \in [Block -> Val]
    /\ logblk \in [1 .. LOGSIZE -> Val]
    /\ lh \in Seq(Block) /\ hdr \in Seq(Block)
    /\ outstanding \in Nat /\ committing \in BOOLEAN
    /\ dirty \subseteq Block
    /\ pc \in [Procs -> {"out", "asleep", "woken", "in", "writing", "commit"}]
    /\ held \in [Procs -> Block \cup {NoBlock}]
    /\ used \in [Procs -> SUBSET Block]
    /\ sys \in {"recover", "run", "panic"}
    /\ phase \in {"idle", "read", "write_log", "write_head", "install", "clear",
                  "done"}
    /\ tail \in 1 .. LOGSIZE
    /\ crashes \in 0 .. MaxCrashes

\* The contents the home blocks have once the committed transaction in the
\* log, if there is one, is installed.
Recovered ==
    [b \in Block |-> IF \E i \in 1 .. Len(hdr) : hdr[i] = b
                     THEN logblk[CHOOSE i \in 1 .. Len(hdr) : hdr[i] = b]
                     ELSE home[b]]

Disk == INSTANCE AtomicDisk WITH
            disk <- Recovered,
            mem <- IF sys = "recover" THEN Recovered ELSE cache,
            active <- {p \in Procs : pc[p] \in {"in", "writing"}}

\* Crash atomicity: with crashes between any two disk writes, in recovery
\* too, the recovered disk is always the cached state of a moment when no
\* system call was active, and only a commit changes it.
IsAtomicDisk == Disk!Spec

\* Durability: whenever no system call is active and no commit runs, what
\* the file system reads from its cache is what is on the disk, in place.
QuiescentIsDurable ==
    sys = "run" /\ outstanding = 0 /\ ~committing =>
        home = cache /\ hdr = <<>> /\ dirty = {}

\* The buffer cache may recycle every unlocked buffer without B_DIRTY: such
\* a buffer never holds the only copy of an update.
UpdatesArePinned ==
    sys = "run" => \A b \in Block :
        cache[b] /= home[b] => b \in dirty \/ \E p \in Procs : held[p] = b

\* The reservation of begin_op() is enough: what is logged, with the blocks
\* the active system calls may still add, fits the log, and no panic() of
\* log.c is reached, as long as no system call writes more than OpBlocks
\* blocks.
ReservationHolds ==
    /\ TypeOK
    /\ sys /= "panic"
    /\ Len(lh) + outstanding * MAXOPBLOCKS
          <= LOGSIZE + Cardinality({u \in Procs \X Block : u[2] \in used[u[1]]})

\* A process asleep in begin_op() is woken, unless the machine stops first, and
\* the system comes back after the last crash: recovery ends.
SleepersWoken ==
    /\ \A p \in Procs : pc[p] = "asleep" ~> pc[p] /= "asleep"
    /\ sys = "recover" ~> sys = "run"
=============================================================================
