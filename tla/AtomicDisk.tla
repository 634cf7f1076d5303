----------------------------- MODULE AtomicDisk -----------------------------
(***************************************************************************)
(* What the log promises the file system: a disk that only ever moves from *)
(* one quiescent state of the cached blocks to a later one.  System calls  *)
(* change the cached blocks mem between their begin and their end; the     *)
(* disk takes over all of mem in one step, and only while no system call   *)
(* is active; a crash brings mem back to the disk.                         *)
(***************************************************************************)
CONSTANTS Procs, Block, Val

VARIABLES disk, mem,
          active    \* the processes between begin_op() and end_op()

diskVars == <<disk, mem, active>>

Init ==
    /\ disk \in [Block -> Val]
    /\ mem = disk
    /\ active = {}

Begin(p) ==
    /\ p \notin active
    /\ active' = active \cup {p}
    /\ UNCHANGED <<disk, mem>>

Write(p, b, v) ==
    /\ p \in active
    /\ mem' = [mem EXCEPT ![b] = v]
    /\ UNCHANGED <<disk, active>>

End(p) ==
    /\ p \in active
    /\ active' = active \ {p}
    /\ UNCHANGED <<disk, mem>>

Commit ==
    /\ active = {}
    /\ disk' = mem
    /\ UNCHANGED <<mem, active>>

Crash ==
    /\ mem' = disk
    /\ active' = {}
    /\ UNCHANGED disk

Next ==
    \/ Commit
    \/ Crash
    \/ \E p \in Procs : Begin(p) \/ End(p)
    \/ \E p \in Procs, b \in Block, v \in Val : Write(p, b, v)

Spec == Init /\ [][Next]_diskVars
=============================================================================
