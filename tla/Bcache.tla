------------------------------- MODULE Bcache -------------------------------
(***************************************************************************)
(* The buffer cache of bio.c on the disk driver of ide.c, with the sleep   *)
(* locks of sleeplock.c on the buffers.  Each section of code under        *)
(* bcache.lock, idelock or the spin lock of a sleep lock is one step.      *)
(* All blocks are on one device.  The log appears as log_write(), which    *)
(* marks a buffer B_DIRTY to keep it cached.                               *)
(***************************************************************************)
EXTENDS Integers, FiniteSets, SequencesExt

CONSTANTS Procs, NBUF, Blocks, Val,
          BadBlocks    \* blocks that the disk may fail to read

ASSUME BcacheAssumption == NBUF \in Nat \ {0} /\ BadBlocks \subseteq Blocks

Bufs == 1 .. NBUF
NoBlock == 0        \* of a buffer that was never used
NoProc == 0
NoBuf == 0

ASSUME NamesAssumption == NoBlock \notin Blocks /\ NoProc \notin Procs /\ 0 \in Val

VARIABLES
    lru,                    \* the list from bcache.head, most recent first
    blockno, refcnt, data,  \* fields of each buffer
    valid, dirty,           \* the buffers with B_VALID, with B_DIRTY
    owner,                  \* of each buffer's sleep lock, or NoProc
    idequeue,               \* buffers queued for the disk, the active one first
    disk,                   \* the blocks on the disk
    done,                   \* the disk has finished and raised its interrupt
    pc, b,                  \* place of each process, and its buffer
    asleep,                 \* processes in sleep()
    damaged,                \* blocks of which a read has failed (history)
    panic

cache == <<lru, blockno, refcnt>>
vars == <<cache, data, valid, dirty, owner, idequeue, disk, done, pc, b, asleep, damaged, panic>>

(***************************************************************************)
(* "idle": has no buffer; "lock": has a reference, in acquiresleep();      *)
(* "rw": holds the buffer, about to call iderw(); "io": waits in iderw();  *)
(* "hold": has the buffer to itself; "unref": in brelse(), lock released.  *)
(***************************************************************************)
PCs == {"idle", "lock", "rw", "io", "hold", "unref"}

\* binit(), and a disk whose blocks differ from the zeroed buffers
Init ==
    /\ lru = [i \in Bufs |-> NBUF + 1 - i]
    /\ blockno = [i \in Bufs |-> NoBlock]
    /\ refcnt = [i \in Bufs |-> 0]
    /\ data = [i \in Bufs |-> 0]
    /\ valid = {} /\ dirty = {}
    /\ owner = [i \in Bufs |-> NoProc]
    /\ idequeue = <<>>
    /\ disk \in {[k \in Blocks |-> v] : v \in Val \ {0}}
    /\ done = FALSE
    /\ pc = [p \in Procs |-> "idle"]
    /\ b = [p \in Procs |-> NoBuf]
    /\ asleep = {}
    /\ damaged = {} /\ panic = FALSE

Awake(p, place) == ~panic /\ pc[p] = place /\ p \notin asleep

(***************************************************************************)
(* bio.c                                                                   *)
(***************************************************************************)

Cached(k) == {i \in Bufs : blockno[i] = k}

\* Mutants: a B_DIRTY buffer, or one in use, may be recycled
EvictDirty == {n \in 1 .. NBUF : refcnt[lru[n]] = 0}
EvictBusy == {n \in 1 .. NBUF : refcnt[lru[n]] < 2 /\ lru[n] \notin dirty}

\* Places in the list of the buffers bget() may recycle
Recyclable == {n \in 1 .. NBUF : refcnt[lru[n]] = 0 /\ lru[n] \notin dirty}

\* The section of bget() under bcache.lock: the buffer of block k, or else
\* the least recently used one that can be recycled.
bget(p, k) ==
    /\ Awake(p, "idle")
    /\ \/ \E i \in Cached(k) :
             /\ refcnt' = [refcnt EXCEPT ![i] = @ + 1]
             /\ b' = [b EXCEPT ![p] = i]
             /\ UNCHANGED <<blockno, valid, dirty>>
       \/ /\ Cached(k) = {} /\ Recyclable /= {}
          /\ LET i == lru[Max(Recyclable)] IN
             /\ blockno' = [blockno EXCEPT ![i] = k]
             /\ valid' = valid \ {i} /\ dirty' = dirty \ {i}
             /\ refcnt' = [refcnt EXCEPT ![i] = 1]
             /\ b' = [b EXCEPT ![p] = i]
    /\ pc' = [pc EXCEPT ![p] = "lock"]
    /\ UNCHANGED <<lru, data, owner, idequeue, disk, done, asleep, damaged, panic>>

\* panic("bget: no buffers")
NoBuffers(p, k) ==
    /\ Awake(p, "idle")
    /\ Cached(k) = {} /\ Recyclable = {}
    /\ panic' = TRUE
    /\ UNCHANGED <<cache, data, valid, dirty, owner, idequeue, disk, done, pc, b, asleep, damaged>>

\* acquiresleep() at the end of bget(): take the lock or sleep on it.  Then
\* bread() calls iderw() unless the buffer is B_VALID.
acquiresleep(p) ==
    /\ Awake(p, "lock")
    /\ \/ /\ owner[b[p]] = NoProc
          /\ owner' = [owner EXCEPT ![b[p]] = p]
          /\ pc' = [pc EXCEPT ![p] = IF b[p] \in valid THEN "hold" ELSE "rw"]
          /\ UNCHANGED asleep
       \/ /\ owner[b[p]] /= NoProc
          /\ asleep' = asleep \cup {p}
          /\ UNCHANGED <<owner, pc>>
    /\ UNCHANGED <<cache, data, valid, dirty, idequeue, disk, done, b, damaged, panic>>

\* The holder puts v in the buffer and calls log_write(), which leaves the
\* writing to the commit.
log_write(p, v) ==
    /\ Awake(p, "hold")
    /\ data' = [data EXCEPT ![b[p]] = v]
    /\ dirty' = dirty \cup {b[p]}
    /\ UNCHANGED <<cache, valid, owner, idequeue, disk, done, pc, b, asleep, damaged, panic>>

\* The holder puts v in the buffer and calls bwrite().
bwrite(p, v) ==
    /\ Awake(p, "hold")
    /\ data' = [data EXCEPT ![b[p]] = v]
    /\ dirty' = dirty \cup {b[p]}
    /\ pc' = [pc EXCEPT ![p] = "rw"]
    /\ UNCHANGED <<cache, valid, owner, idequeue, disk, done, b, asleep, damaged, panic>>

\* brelse(): first releasesleep(), which wakes all who sleep on the lock,
releasesleep(p) ==
    /\ Awake(p, "hold")
    /\ owner' = [owner EXCEPT ![b[p]] = NoProc]
    /\ asleep' = {q \in asleep : ~(pc[q] = "lock" /\ b[q] = b[p])}
    /\ pc' = [pc EXCEPT ![p] = "unref"]
    /\ UNCHANGED <<cache, data, valid, dirty, idequeue, disk, done, b, damaged, panic>>

\* then the reference is dropped, and a buffer without references moves to
\* the front of the list.
brelse(p) ==
    /\ Awake(p, "unref")
    /\ refcnt' = [refcnt EXCEPT ![b[p]] = @ - 1]
    /\ lru' = IF refcnt[b[p]] = 1 THEN <<b[p]>> \o Remove(lru, b[p]) ELSE lru
    /\ pc' = [pc EXCEPT ![p] = "idle"] /\ b' = [b EXCEPT ![p] = NoBuf]
    /\ UNCHANGED <<blockno, data, valid, dirty, owner, idequeue, disk, done, asleep, damaged, panic>>

(***************************************************************************)
(* ide.c                                                                   *)
(***************************************************************************)

\* iderw(): append to the queue and sleep.  The disk is started when this is
\* the first request: idestart() needs no state of its own, for the disk
\* works on the first request of the queue until it is done.
iderw(p) ==
    /\ Awake(p, "rw")
    /\ idequeue' = Append(idequeue, b[p])
    /\ pc' = [pc EXCEPT ![p] = "io"]
    /\ asleep' = asleep \cup {p}
    /\ UNCHANGED <<cache, data, valid, dirty, owner, disk, done, b, damaged, panic>>

\* The disk finishes the first request: the block is on the disk, or is
\* ready to be read.
DiskDone ==
    /\ ~panic /\ idequeue /= <<>> /\ ~done
    /\ disk' = LET i == Head(idequeue)
               IN  IF i \in dirty THEN [disk EXCEPT ![blockno[i]] = data[i]] ELSE disk
    /\ done' = TRUE
    /\ UNCHANGED <<cache, data, valid, dirty, owner, idequeue, pc, b, asleep, damaged, panic>>

\* Mutant: no wakeup
IntrSilent ==
    /\ ~panic /\ done
    /\ LET i == Head(idequeue) IN
       /\ idequeue' = Tail(idequeue)
       /\ data' = IF i \in dirty THEN data ELSE [data EXCEPT ![i] = disk[blockno[i]]]
       /\ valid' = valid \cup {i} /\ dirty' = dirty \ {i}
    /\ done' = FALSE
    /\ UNCHANGED <<cache, owner, disk, pc, b, asleep, damaged, panic>>

\* ideintr(): the first request is over.  When a read failed, the data stay
\* as they were and B_VALID is set all the same.  The disk goes on with the
\* next request.
ideintr ==
    /\ ~panic /\ done
    /\ LET i == Head(idequeue) IN
       /\ idequeue' = Tail(idequeue)
       /\ \/ /\ data' = IF i \in dirty THEN data ELSE [data EXCEPT ![i] = disk[blockno[i]]]
             /\ UNCHANGED damaged
          \/ /\ i \notin dirty /\ blockno[i] \in BadBlocks
             /\ damaged' = damaged \cup {blockno[i]}
             /\ UNCHANGED data
       /\ valid' = valid \cup {i} /\ dirty' = dirty \ {i}
       /\ asleep' = {q \in asleep : ~(pc[q] = "io" /\ b[q] = i)}
    /\ done' = FALSE
    /\ UNCHANGED <<cache, owner, disk, pc, b, panic>>

\* The loop of iderw() after a wakeup
IoWoken(p) ==
    /\ Awake(p, "io")
    /\ IF b[p] \in valid \ dirty
       THEN pc' = [pc EXCEPT ![p] = "hold"] /\ UNCHANGED asleep
       ELSE asleep' = asleep \cup {p} /\ UNCHANGED pc
    /\ UNCHANGED <<cache, data, valid, dirty, owner, idequeue, disk, done, b, damaged, panic>>

Next ==
    \/ DiskDone \/ ideintr
    \/ \E p \in Procs :
          \/ acquiresleep(p) \/ releasesleep(p) \/ brelse(p) \/ iderw(p) \/ IoWoken(p)
          \/ \E k \in Blocks : bget(p, k) \/ NoBuffers(p, k)
          \/ \E v \in Val : log_write(p, v) \/ bwrite(p, v)

Spec == Init /\ [][Next]_vars

(***************************************************************************)
(* Fairness: the disk answers, interrupts are taken, and a process that    *)
(* was woken in iderw() goes on.                                           *)
(***************************************************************************)
FairSpec ==
    /\ Spec
    /\ WF_vars(DiskDone) /\ WF_vars(ideintr)
    /\ \A p \in Procs : WF_vars(IoWoken(p))

(***************************************************************************)
(* Properties                                                              *)
(***************************************************************************)

\* The fields keep their types, and the list from bcache.head always has
\* every buffer exactly once.
TypeOK ==
    /\ lru \in [Bufs -> Bufs] /\ ToSet(lru) = Bufs
    /\ blockno \in [Bufs -> Blocks \cup {NoBlock}]
    /\ refcnt \in [Bufs -> 0 .. Cardinality(Procs)]
    /\ data \in [Bufs -> Val] /\ disk \in [Blocks -> Val]
    /\ valid \subseteq Bufs /\ dirty \subseteq Bufs
    /\ owner \in [Bufs -> Procs \cup {NoProc}]
    /\ idequeue \in Seq(Bufs) /\ Len(idequeue) <= Cardinality(Procs)
    /\ done \in BOOLEAN /\ panic \in BOOLEAN
    /\ pc \in [Procs -> PCs] /\ b \in [Procs -> Bufs \cup {NoBuf}]
    /\ asleep \subseteq Procs /\ damaged \subseteq BadBlocks

\* bget() never gives a block a second buffer, and refcnt counts exactly the
\* processes between bget() and brelse(): none of them can find its buffer
\* recycled while it sleeps on the lock.
\* Every sleeper will be woken.  A process asleep on a buffer's lock waits for
\* another one that holds it, although releasesleep() can race with a bget()
\* of the same block.  A process asleep in iderw() holds its buffer, which is
\* queued exactly once, and nothing else is queued.
ReferencesExact ==
    /\ TypeOK
    /\ \A i, j \in Bufs : blockno[i] = blockno[j] /\ blockno[i] /= NoBlock => i = j
    /\ \A i \in Bufs : refcnt[i] = Cardinality({p \in Procs : pc[p] /= "idle" /\ b[p] = i})
    /\ \A p \in asleep : pc[p] = "lock" => owner[b[p]] \notin {NoProc, p}
    /\ IsInjective(idequeue)
    /\ ToSet(idequeue) = {b[p] : p \in {q \in asleep : pc[q] = "io"}}
    /\ \A p \in Procs : pc[p] \in {"rw", "io", "hold"} => owner[b[p]] = p

Damage == -1

\* The abstract store: the content of a block is in its B_VALID buffer, or on
\* the disk.
Content(k) ==
    IF k \in damaged THEN Damage
    ELSE IF \E i \in valid : blockno[i] = k
    THEN data[CHOOSE i \in valid : blockno[i] = k] ELSE disk[k]

Holder(k) ==
    IF \E i \in Bufs : blockno[i] = k /\ owner[i] /= NoProc
    THEN owner[CHOOSE i \in Bufs : blockno[i] = k /\ owner[i] /= NoProc] ELSE NoProc

Store == INSTANCE BlockStore WITH
    content <- [k \in Blocks |-> Content(k)], holder <- [k \in Blocks |-> Holder(k)]

\* The cache and the driver implement the store: a process has a block to
\* itself between bread() and brelse() and sees what was last put in it,
\* unless a read failed: through recycling, log_write() without a write, and
\* disk writes in the queue.
IsBlockStore == Store!Spec

\* Every request to the disk ends, whatever else is queued.
IoEnds == \A p \in Procs : pc[p] = "io" ~> pc[p] = "hold" \/ panic
=============================================================================
