------------------------------- MODULE Files --------------------------------
(***************************************************************************)
(* Open files and pipes: the file table of file.c, the descriptors of      *)
(* sysfile.c, and pipe.c.  Processes open, duplicate and close files, make *)
(* a pipe, read and write it, fork, exit and are killed.                   *)
(*                                                                         *)
(* There is one inode (iref counts what iget() gave out and iput() did not *)
(* take back) and at most one pipe: kalloc() may fail at any time, and     *)
(* does while there is a pipe.                                             *)
(* type stands for type, readable and writable of a file: PIPE_R and       *)
(* PIPE_W are the two ends of a pipe.  A section of code under ftable.lock *)
(* or p->lock is one step.                                                 *)
(***************************************************************************)
EXTENDS Integers, FiniteSets, SequencesExt

CONSTANTS Procs, NoProc, NFILE, NOFILE, PIPESIZE,
          UINT,       \* nread and nwrite are uint: they count modulo UINT
          Msgs,       \* what write() is given: sequences of bytes
          ReadSizes   \* how many bytes read() asks for

ASSUME FilesAssumption ==
    /\ NFILE \in Nat \ {0} /\ NOFILE \in Nat \ {0} /\ PIPESIZE \in Nat \ {0}
    /\ UINT \in Nat /\ UINT % PIPESIZE = 0 /\ UINT > PIPESIZE
    /\ ReadSizes \subseteq Nat \ {0} /\ NoProc \notin Procs

FileIds == 1 .. NFILE
FDs == 1 .. NOFILE
None == 0
Std == -1     \* the console, open before and left open

VARIABLES
    type, ref,             \* fields of each struct file
    ofile,                 \* ofile[p][fd], or None
    iref,
    pipe,                  \* the pipe
    plock,                 \* who holds p->lock between two steps, or NoProc
    pc, killed, asleep,
    todo,                  \* files a process holds outside its descriptors
    ret,                   \* where its fileclose() calls lead
    left,                  \* what its pipewrite() has not written yet
    cut                    \* bytes were stored and no reader woken since (history)

files == <<type, ref>>
vars == <<files, ofile, iref, pipe, plock, pc, killed, asleep, todo, ret, left, cut>>

(***************************************************************************)
(* "none": no process; "user"; "open1", "pipe1", "pipe2": has allocated    *)
(* files for sys_open() or pipealloc(); "close": in fileclose() of the     *)
(* first file of todo; "closer", "closew", "iput": in fileclose() after    *)
(* the entry is free again; "read", "write": in piperead(), pipewrite();   *)
(* "readsleep", "writesleep": has tested killed and is about to sleep,     *)
(* with p->lock held.                                                      *)
(***************************************************************************)
PCs == {"none", "user", "open1", "pipe1", "pipe2", "close", "closer",
        "closew", "iput", "read", "write", "readsleep", "writesleep"}

\* No pipe; what its page holds does not matter
NoPipe == [live |-> FALSE, data |-> [i \in 0 .. PIPESIZE - 1 |-> 0], nread |-> 0, nwrite |-> 0,
           readopen |-> FALSE, writeopen |-> FALSE]

Init ==
    /\ type = [f \in FileIds |-> "NONE"]
    /\ ref = [f \in FileIds |-> 0]
    /\ ofile \in {[p \in Procs |-> [fd \in FDs |-> IF fd = 1 THEN std ELSE None]] : std \in {None, Std}}
    /\ iref = 0
    /\ pipe = NoPipe
    /\ plock = NoProc
    /\ \E p \in Procs : pc = [q \in Procs |-> IF q = p THEN "user" ELSE "none"]
    /\ killed = {} /\ asleep = {}
    /\ todo = [p \in Procs |-> <<>>]
    /\ ret = [p \in Procs |-> "user"]
    /\ left = [p \in Procs |-> <<>>]
    /\ cut = FALSE

At(p, place) == pc[p] = place /\ p \notin asleep
Goto(p, place) == pc' = [pc EXCEPT ![p] = place]

FreeFds(p) == {fd \in FDs : ofile[p][fd] = None}

\* trap() lets a process make a system call unless it was killed.
Calls(p) == At(p, "user") /\ p \notin killed

(***************************************************************************)
(* The file table                                                          *)
(***************************************************************************)

FreeFiles == {f \in FileIds : ref[f] = 0}

\* filealloc(), for a process that goes on at place; without a free entry it
\* closes what it has allocated so far.
filealloc(p, place) ==
    \/ /\ FreeFiles /= {}
       /\ ref' = [ref EXCEPT ![Min(FreeFiles)] = 1]
       /\ todo' = [todo EXCEPT ![p] = Append(@, Min(FreeFiles))]
       /\ Goto(p, place)
    \/ /\ FreeFiles = {}
       /\ Goto(p, IF todo[p] = <<>> THEN "user" ELSE "close")
       /\ UNCHANGED <<ref, todo>>

\* fileclose() of the first file of todo: the section under ftable.lock.  The
\* last reference frees the entry; what was behind it is closed afterwards.
fileclose(p) ==
    /\ At(p, "close")
    /\ LET f == Head(todo[p]) IN
       /\ ref' = [ref EXCEPT ![f] = @ - 1]
       /\ type' = [type EXCEPT ![f] = IF ref[f] = 1 THEN "NONE" ELSE @]
       /\ todo' = [todo EXCEPT ![p] = Tail(@)]
       /\ Goto(p, CASE ref[f] > 1 \/ type[f] = "NONE" -> IF Len(todo[p]) = 1 THEN ret[p] ELSE "close"
                    [] ref[f] = 1 /\ type[f] = "PIPE_R" -> "closer"
                    [] ref[f] = 1 /\ type[f] = "PIPE_W" -> "closew"
                    [] ref[f] = 1 /\ type[f] = "INODE" -> "iput")
    /\ ret' = [ret EXCEPT ![p] = IF pc'[p] = ret[p] THEN "user" ELSE @]
    /\ UNCHANGED <<ofile, iref, pipe, plock, killed, asleep, left, cut>>

\* The process is through with one fileclose() and goes on.
Closed(p) ==
    /\ Goto(p, IF todo[p] = <<>> THEN ret[p] ELSE "close")
    /\ ret' = [ret EXCEPT ![p] = IF todo[p] = <<>> THEN "user" ELSE @]

\* The iput() of fileclose() or of a failed sys_open()
iput(p) ==
    /\ At(p, "iput")
    /\ iref' = iref - 1
    /\ Closed(p)
    /\ UNCHANGED <<files, ofile, pipe, plock, killed, asleep, todo, left, cut>>

(***************************************************************************)
(* System calls on descriptors                                             *)
(***************************************************************************)

\* sys_open(): namei() gives a reference to the inode, then filealloc().
OpenAlloc(p) ==
    /\ Calls(p)
    /\ filealloc(p, "open1")
    /\ iref' = IF FreeFiles /= {} THEN iref + 1 ELSE iref
    /\ UNCHANGED <<type, ofile, pipe, plock, killed, asleep, ret, left, cut>>

\* fdalloc() and the fields of the file; without a free descriptor the file
\* is closed, still FD_NONE, and then the inode is put.
OpenFd(p) ==
    /\ At(p, "open1")
    /\ LET f == Head(todo[p]) IN
       \/ /\ FreeFds(p) /= {}
          /\ ofile' = [ofile EXCEPT ![p][Min(FreeFds(p))] = f]
          /\ type' = [type EXCEPT ![f] = "INODE"]
          /\ todo' = [todo EXCEPT ![p] = <<>>]
          /\ Goto(p, "user")
          /\ UNCHANGED ret
       \/ /\ FreeFds(p) = {}
          /\ ret' = [ret EXCEPT ![p] = "iput"]
          /\ Goto(p, "close")
          /\ UNCHANGED <<ofile, type, todo>>
    /\ UNCHANGED <<ref, iref, pipe, plock, killed, asleep, left, cut>>

\* pipealloc(): the two files, one after the other
PipeAlloc(p) ==
    /\ \/ Calls(p) /\ filealloc(p, "pipe1")
       \/ At(p, "pipe1") /\ filealloc(p, "pipe2")
    /\ UNCHANGED <<type, ofile, iref, pipe, plock, killed, asleep, ret, left, cut>>

\* The rest of sys_pipe(): kalloc(), the pipe, the fields of the two files,
\* two descriptors.  If one of these fails the two files are closed, with the
\* pipe behind them if it was made.
PipeMake(p) ==
    /\ At(p, "pipe2")
    /\ LET f0 == todo[p][1]
           f1 == todo[p][2]
           fd0 == Min(FreeFds(p))
           fd1 == Min(FreeFds(p) \ {fd0})
       IN  \/ /\ Goto(p, "close")
              /\ UNCHANGED <<type, pipe, ofile, todo>>
           \/ /\ ~pipe.live
              /\ pipe' = [NoPipe EXCEPT !.live = TRUE, !.readopen = TRUE, !.writeopen = TRUE]
              /\ type' = [type EXCEPT ![f0] = "PIPE_R", ![f1] = "PIPE_W"]
              /\ IF Cardinality(FreeFds(p)) >= 2
                 THEN /\ ofile' = [ofile EXCEPT ![p][fd0] = f0, ![p][fd1] = f1]
                      /\ todo' = [todo EXCEPT ![p] = <<>>]
                      /\ Goto(p, "user")
                 ELSE Goto(p, "close") /\ UNCHANGED <<ofile, todo>>
    /\ UNCHANGED <<ref, iref, plock, killed, asleep, ret, left, cut>>

\* sys_dup(): fdalloc(), then filedup()
sys_dup(p, fd) ==
    /\ Calls(p)
    /\ ofile[p][fd] \in FileIds /\ FreeFds(p) /= {}
    /\ ofile' = [ofile EXCEPT ![p][Min(FreeFds(p))] = ofile[p][fd]]
    /\ ref' = [ref EXCEPT ![ofile[p][fd]] = @ + 1]
    /\ Goto(p, "user")
    /\ UNCHANGED <<type, iref, pipe, plock, killed, asleep, todo, ret, left, cut>>

sys_close(p, fd) ==
    /\ Calls(p)
    /\ ofile[p][fd] \in FileIds
    /\ ofile' = [ofile EXCEPT ![p][fd] = None]
    /\ todo' = [todo EXCEPT ![p] = <<ofile[p][fd]>>]
    /\ Goto(p, "close")
    /\ UNCHANGED <<files, iref, pipe, plock, killed, asleep, ret, left, cut>>

Count(p, f) == Cardinality({fd \in FDs : ofile[p][fd] = f})

\* Mutant: the files are shared without filedup()
ForkNoDup(p, q) ==
    /\ Calls(p) /\ pc[q] = "none"
    /\ ofile' = [ofile EXCEPT ![q] = ofile[p]]
    /\ pc' = [pc EXCEPT ![p] = "user", ![q] = "user"]
    /\ UNCHANGED <<files, iref, pipe, plock, killed, asleep, todo, ret, left, cut>>

\* fork() gives q, a new process, the files of p.  The filedup() calls are
\* one step: p keeps a reference to each file meanwhile.
fork(p, q) ==
    /\ Calls(p) /\ pc[q] = "none"
    /\ ofile' = [ofile EXCEPT ![q] = ofile[p]]
    /\ ref' = [f \in FileIds |-> ref[f] + Count(p, f)]
    /\ pc' = [pc EXCEPT ![p] = "user", ![q] = "user"]
    /\ UNCHANGED <<type, iref, pipe, plock, killed, asleep, todo, ret, left, cut>>

\* exit(), called or after a kill: closes the descriptors in order.
exit(p) ==
    /\ At(p, "user")
    /\ LET open == SelectSeq([fd \in FDs |-> ofile[p][fd]], LAMBDA f : f \in FileIds) IN
       /\ todo' = [todo EXCEPT ![p] = open]
       /\ Goto(p, IF open = <<>> THEN "none" ELSE "close")
       /\ ret' = [ret EXCEPT ![p] = IF open = <<>> THEN "user" ELSE "none"]
    /\ ofile' = [ofile EXCEPT ![p] = [fd \in FDs |-> None]]
    /\ killed' = killed \ {p}
    /\ UNCHANGED <<files, iref, pipe, plock, asleep, left, cut>>

\* kill(): wakes the process if it sleeps.  (On a process that already exits
\* it has no effect.)
kill(p) ==
    /\ pc[p] /= "none" /\ ret[p] /= "none"
    /\ killed' = killed \cup {p}
    /\ asleep' = asleep \ {p}
    /\ UNCHANGED <<files, ofile, iref, pipe, plock, pc, todo, ret, left, cut>>

(***************************************************************************)
(* Pipes                                                                   *)
(***************************************************************************)

Level == (pipe.nwrite - pipe.nread) % UINT
Empty == pipe.nread = pipe.nwrite

\* Mutant: the test for a full pipe is one byte late
RoomLate == PIPESIZE + 1 - Level

\* pipewrite() stores until nwrite = nread + PIPESIZE.
Room == PIPESIZE - Level

Readers == {q \in asleep : pc[q] = "read"}
Writers == {q \in asleep : pc[q] = "write"}

Stored(msg) ==
    [pipe EXCEPT !.nwrite = (@ + Len(msg)) % UINT,
                 !.data = [i \in 0 .. PIPESIZE - 1 |->
                    LET at == {n \in 1 .. Len(msg) : (pipe.nwrite + n - 1) % PIPESIZE = i}
                    IN  IF at = {} THEN @[i] ELSE msg[Max(at)]]]

\* n bytes are taken out; a byte that was read is not kept apart from another.
Taken(n) ==
    [pipe EXCEPT !.nread = (@ + n) % UINT,
                 !.data = [i \in 0 .. PIPESIZE - 1 |->
                    IF \E k \in 1 .. n : (pipe.nread + k - 1) % PIPESIZE = i THEN 0 ELSE @[i]]]

\* fileread() and filewrite() of a pipe
ReadCall(p, fd) ==
    /\ Calls(p)
    /\ ofile[p][fd] \in FileIds /\ type[ofile[p][fd]] = "PIPE_R"
    /\ Goto(p, "read")
    /\ UNCHANGED <<files, ofile, iref, pipe, plock, killed, asleep, todo, ret, left, cut>>

WriteCall(p, fd, msg) ==
    /\ Calls(p)
    /\ ofile[p][fd] \in FileIds /\ type[ofile[p][fd]] = "PIPE_W"
    /\ left' = [left EXCEPT ![p] = msg]
    /\ Goto(p, "write")
    /\ UNCHANGED <<files, ofile, iref, pipe, plock, killed, asleep, todo, ret, cut>>

\* piperead() with p->lock: up to n bytes, or end of file, or killed; an
\* empty pipe with a writer leads to sleep().
piperead(p, n) ==
    /\ At(p, "read") /\ plock = NoProc
    /\ \/ /\ ~Empty \/ ~pipe.writeopen
          /\ pipe' = Taken(Min({n, Level}))
          /\ asleep' = asleep \ Writers
          /\ Goto(p, "user")
          /\ cut' = (cut /\ n < Level)
          /\ UNCHANGED plock
       \/ /\ Empty /\ pipe.writeopen /\ p \in killed
          /\ Goto(p, "user")
          /\ UNCHANGED <<pipe, asleep, plock, cut>>
       \/ /\ Empty /\ pipe.writeopen /\ p \notin killed
          /\ Goto(p, "readsleep")
          /\ plock' = p
          /\ UNCHANGED <<pipe, asleep, cut>>
    /\ UNCHANGED <<files, ofile, iref, killed, todo, ret, left>>

\* pipewrite() with p->lock: stores what there is room for.  A full pipe
\* leads to sleep() after a wakeup of the readers, or to an early return.
pipewrite(p) ==
    /\ At(p, "write") /\ plock = NoProc
    /\ LET n == Min({Room, Len(left[p])})
           rest == SubSeq(left[p], n + 1, Len(left[p]))
       IN  /\ pipe' = Stored(SubSeq(left[p], 1, n))
           /\ \/ /\ rest = <<>>
                 /\ asleep' = asleep \ Readers
                 /\ Goto(p, "user")
                 /\ left' = [left EXCEPT ![p] = <<>>]
                 /\ cut' = FALSE
                 /\ UNCHANGED plock
              \/ /\ rest /= <<>> /\ (~pipe.readopen \/ p \in killed)
                 /\ cut' = (cut \/ (n > 0 /\ pipe.readopen))
                 /\ Goto(p, "user")
                 /\ left' = [left EXCEPT ![p] = <<>>]
                 /\ UNCHANGED <<plock, asleep>>
              \/ /\ rest /= <<>> /\ pipe.readopen /\ p \notin killed
                 /\ asleep' = asleep \ Readers
                 /\ Goto(p, "writesleep")
                 /\ left' = [left EXCEPT ![p] = rest]
                 /\ plock' = p
                 /\ cut' = FALSE
    /\ UNCHANGED <<files, ofile, iref, killed, todo, ret>>

\* sleep(): p->lock is released as the process goes to sleep, which kill()
\* has not prevented if it came after the test.
PipeSleep(p) ==
    /\ pc[p] \in {"readsleep", "writesleep"}
    /\ asleep' = asleep \cup {p}
    /\ Goto(p, IF pc[p] = "readsleep" THEN "read" ELSE "write")
    /\ plock' = NoProc
    /\ UNCHANGED <<files, ofile, iref, pipe, killed, todo, ret, left, cut>>

\* Mutant: nobody is woken
PipecloseSilent(p) ==
    /\ At(p, "closer") \/ At(p, "closew")
    /\ plock = NoProc
    /\ pipe' = LET w == pipe.writeopen /\ pc[p] /= "closew"
                   r == pipe.readopen /\ pc[p] /= "closer"
               IN  IF w \/ r THEN [pipe EXCEPT !.writeopen = w, !.readopen = r] ELSE NoPipe
    /\ Closed(p)
    /\ UNCHANGED <<files, ofile, iref, plock, killed, asleep, todo, left, cut>>

\* pipeclose(): the page is freed with the second end.
pipeclose(p) ==
    /\ At(p, "closer") \/ At(p, "closew")
    /\ plock = NoProc
    /\ pipe' = LET w == pipe.writeopen /\ pc[p] /= "closew"
                   r == pipe.readopen /\ pc[p] /= "closer"
               IN  IF w \/ r THEN [pipe EXCEPT !.writeopen = w, !.readopen = r] ELSE NoPipe
    /\ asleep' = asleep \ (IF pc[p] = "closew" THEN Readers ELSE Writers)
    /\ cut' = (cut /\ pc[p] = "closer" /\ pipe'.live)
    /\ Closed(p)
    /\ UNCHANGED <<files, ofile, iref, plock, killed, todo, left>>

Next ==
    \E p \in Procs :
        \/ OpenAlloc(p) \/ OpenFd(p) \/ PipeAlloc(p) \/ PipeMake(p)
        \/ fileclose(p) \/ iput(p) \/ pipeclose(p) \/ exit(p) \/ kill(p)
        \/ pipewrite(p) \/ PipeSleep(p)
        \/ \E fd \in FDs : sys_dup(p, fd) \/ sys_close(p, fd) \/ ReadCall(p, fd)
        \/ \E fd \in FDs, msg \in Msgs : WriteCall(p, fd, msg)
        \/ \E n \in ReadSizes : piperead(p, n)
        \/ \E q \in Procs : fork(p, q)

Spec == Init /\ [][Next]_vars

(***************************************************************************)
(* Properties                                                              *)
(***************************************************************************)

\* The table, the descriptors and the pipe keep their types, and the level of
\* the pipe stays between empty and full although its counters wrap around.
TypeOK ==
    /\ type \in [FileIds -> {"NONE", "PIPE_R", "PIPE_W", "INODE"}]
    /\ ref \in [FileIds -> 0 .. (NOFILE + 2) * Cardinality(Procs)]
    /\ ofile \in [Procs -> [FDs -> FileIds \cup {None, Std}]]
    /\ iref \in 0 .. NFILE + Cardinality(Procs)
    /\ pipe.nread \in 0 .. UINT - 1 /\ pipe.nwrite \in 0 .. UINT - 1
    /\ Level <= PIPESIZE
    /\ plock \in Procs \cup {NoProc}
    /\ pc \in [Procs -> PCs]
    /\ killed \subseteq Procs /\ asleep \subseteq Procs
    /\ todo \in [Procs -> Seq(FileIds)]
    /\ ret \in [Procs -> {"user", "none", "iput"}]
    /\ cut \in BOOLEAN

Refs(f) ==
    Cardinality({<<p, fd>> \in Procs \X FDs : ofile[p][fd] = f})
    + Cardinality({<<p, n>> \in Procs \X (1 .. NOFILE) : n <= Len(todo[p]) /\ todo[p][n] = f})

Ends(w) ==
    \/ \E f \in FileIds : type[f] = IF w THEN "PIPE_W" ELSE "PIPE_R"
    \/ \E p \in Procs : pc[p] = IF w THEN "closew" ELSE "closer"

\* The pipe has its page exactly as long as some file, or some fileclose()
\* that has freed its entry but not closed the pipe yet, leads to it, and
\* readopen and writeopen say which ends are left.  Nobody uses a pipe after
\* it was freed, also not one who slept in it.
PipeLife ==
    /\ pipe.live <=> Ends(TRUE) \/ Ends(FALSE)
    /\ pipe.live => pipe.readopen = Ends(FALSE) /\ pipe.writeopen = Ends(TRUE)
    /\ \A p \in Procs :
          /\ pc[p] \in {"read", "readsleep"} => pipe.live /\ pipe.readopen
          /\ pc[p] \in {"write", "writesleep"} => pipe.live /\ pipe.writeopen

\* ref counts exactly the descriptors and the calls in progress that have the
\* file, and an entry that is free says FD_NONE: the next filealloc() relies
\* on that, since the error paths close files whose type they never set.  The
\* inode has as many references as open files and calls in progress account
\* for, so iput() frees it exactly after the last close; and the pipe lives
\* as PipeLife says.
ReferencesExact ==
    /\ TypeOK
    /\ \A f \in FileIds : ref[f] = Refs(f) /\ (ref[f] = 0 => type[f] = "NONE")
    /\ iref = Cardinality({f \in FileIds : type[f] = "INODE"})
              + Cardinality({p \in Procs : pc[p] \in {"iput", "open1"} \/ ret[p] = "iput"})
    /\ PipeLife

\* No lost wakeup in the pipe: a reader sleeps only while the pipe is empty
\* and has a writer, a writer only while it is full and has a reader.  The
\* exception is pipewrite() of a killed process, which returns with bytes
\* stored and no wakeup(&p->nread).
SleepersHaveCause ==
    /\ \A p \in Readers : (Empty \/ cut) /\ pipe.writeopen
    /\ \A p \in Writers : Room = 0 /\ pipe.readopen

Chan == INSTANCE ByteChannel WITH
    Capacity <- PIPESIZE, open <- pipe.live,
    queue <- IF pipe.live
             THEN [i \in 1 .. Level |-> pipe.data[(pipe.nread + i - 1) % PIPESIZE]] ELSE <<>>

\* The pipe is a bounded first-in first-out channel, for several readers and
\* writers and across the wrap-around of nread and nwrite.
IsByteChannel == Chan!Spec
=============================================================================
