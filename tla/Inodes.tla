------------------------------- MODULE Inodes -------------------------------
(***************************************************************************)
(* Inodes and directories: the inode cache, the link counts, the directory *)
(* entries and the path lookup of fs.c, with the system calls of sysfile.c *)
(* that work on names: open, mkdir, mknod, chdir, link, unlink, copy_file  *)
(* and the close of a file.                                                *)
(*                                                                         *)
(* A cache entry is named by the inode it holds: iget() gives an inode     *)
(* without references an invalid entry whichever slot it takes, and a slot *)
(* with references stays with its inode.  The sections under icache.lock   *)
(* are steps; so is a section under an inode's sleep lock in which the     *)
(* process neither waits nor changes a reference count twice.  File        *)
(* contents other than directory entries are left out.                     *)
(***************************************************************************)
EXTENDS Integers, Sequences, FiniteSets, FiniteSetsExt, Relation

CONSTANTS Procs, NoProc,
          NINODES,     \* inodes on the disk, the root directory is inode 1
          Names,       \* what a directory entry may be called
          Paths,       \* what is given to the system calls: [abs, names]
          Trees,       \* what the disk may hold at first
          MaxCalls     \* bound on the system calls, other than close()

ASSUME InodesAssumption ==
    /\ NINODES \in Nat \ {0} /\ MaxCalls \in Nat /\ NoProc \notin Procs
    /\ \A path \in Paths : path.abs \in BOOLEAN /\ path.names \in Seq(Names \cup {".."})

Inums == 1 .. NINODES
ROOTINO == 1
None == 0
Entries == Names \cup {".."}
NoEntries == [n \in Entries |-> None]

VARIABLES
    disk,      \* the dinodes, and the entries of those that are directories
    ino,       \* the cache entry of each inode
    fd, cwd,   \* the open file, or None, and the current directory of a process
    pr,        \* where a process is, with its local variables
    leaked,    \* references that copy_file() did not put back (history)
    calls,     \* system calls so far
    orphans    \* inodes whose entry was in a directory that was freed (history)

vars == <<disk, ino, fd, cwd, pr, leaked, calls, orphans>>

(***************************************************************************)
(* A process is at "idle", "walk" (in namex(), at inode cur with rest of   *)
(* the path to go), "found" (namei() gave ip), "parent" (nameiparent()     *)
(* gave dp), or at the point of its system call where it next takes a lock *)
(* or puts a reference back.  cur, ip, dp, src and put are references it   *)
(* owns, or None; while put is not None it is in iput(put), at pp.         *)
(***************************************************************************)
Idle == [at |-> "idle", call |-> "", parent |-> FALSE, new |-> [abs |-> TRUE, names |-> <<>>],
         rest |-> <<>>, cur |-> None, ip |-> None, dp |-> None, src |-> None,
         put |-> None, pp |-> "lock"]

CreateCalls == {"creat", "mkdir", "mknod"}   \* "creat" is open() with O_CREATE
Calls == CreateCalls \cup {"open", "openw", "chdir", "unlink", "link", "copy"}
TypeToCreate == [creat |-> "file", mkdir |-> "dir", mknod |-> "dev", copy |-> "file"]

Init ==
    /\ disk \in Trees
    /\ cwd \in [Procs -> {i \in Inums : disk[i].type = "dir"}]
    /\ fd \in [Procs -> {None} \cup {i \in Inums : disk[i].type = "file"}]
    /\ ino = [i \in Inums |-> [ref |-> Cardinality({p \in Procs : cwd[p] = i}) + Cardinality({p \in Procs : fd[p] = i}), lock |-> NoProc,
                               valid |-> FALSE, type |-> "free", nlink |-> 0]]
    /\ pr = [p \in Procs |-> Idle]
    /\ leaked = [i \in Inums |-> 0] /\ calls = 0 /\ orphans = {}

-----------------------------------------------------------------------------
(* The cache entry: what the functions of fs.c make of the cache c         *)

iget(c, i) == [c EXCEPT ![i] = IF @.ref = 0
                               THEN [ref |-> 1, lock |-> @.lock, valid |-> FALSE, type |-> "free", nlink |-> 0]
                               ELSE [@ EXCEPT !.ref = @ + 1]]

\* ilock() has read the inode
Read(c, i) == IF c[i].valid THEN c
              ELSE [c EXCEPT ![i].valid = TRUE, ![i].type = disk[i].type, ![i].nlink = disk[i].nlink]

ilock(c, i, p) == [Read(c, i) EXCEPT ![i].lock = p]
iunlock(c, i) == [c EXCEPT ![i].lock = NoProc]

Unlocked(i) == ino[i].lock = NoProc

\* The inode as its lock holder sees it
Node(i) == Read(ino, i)[i]

\* nlink changes by d: in the cache, and on the disk with iupdate()
WithLinks(c, i, d) == [c EXCEPT ![i].nlink = @ + d]

-----------------------------------------------------------------------------
(* iput(), which every handler calls by setting put                        *)

PutNext(r, i) == [r EXCEPT !.put = i, !.pp = "lock"]

At(p, place) == pr[p].at = place /\ pr[p].put = None


IputLock(p) ==
    LET i == pr[p].put IN
    /\ i # None /\ pr[p].pp = "lock" /\ Unlocked(i)
    /\ IF ino[i].valid /\ ino[i].nlink = 0 /\ ino[i].ref = 1
       THEN ino' = [ino EXCEPT ![i].lock = p] /\ pr' = [pr EXCEPT ![p].pp = "free"]
       ELSE UNCHANGED ino /\ pr' = [pr EXCEPT ![p].pp = "dec"]
    /\ UNCHANGED <<disk, fd, cwd, leaked, calls, orphans>>

\* Mutant: the cache entry of the freed inode stays valid
IputFreeStale(p) ==
    LET i == pr[p].put IN
    /\ i # None /\ pr[p].pp = "free"
    /\ disk' = [disk EXCEPT ![i] = [type |-> "free", nlink |-> 0, ents |-> NoEntries]]
    /\ ino' = [ino EXCEPT ![i] = [@ EXCEPT !.lock = NoProc, !.type = "free"]]
    /\ orphans' = (orphans \ {i}) \cup {disk[i].ents[n] : n \in {m \in Names : disk[i].ents[m] # None}}
    /\ pr' = [pr EXCEPT ![p].pp = "dec"]
    /\ UNCHANGED <<fd, cwd, leaked, calls>>

\* itrunc() discards the entries of a directory without a look at them
IputFree(p) ==
    LET i == pr[p].put IN
    /\ i # None /\ pr[p].pp = "free"
    /\ disk' = [disk EXCEPT ![i] = [type |-> "free", nlink |-> 0, ents |-> NoEntries]]
    /\ ino' = [ino EXCEPT ![i] = [@ EXCEPT !.lock = NoProc, !.valid = FALSE, !.type = "free"]]
    /\ orphans' = (orphans \ {i}) \cup {disk[i].ents[n] : n \in {m \in Names : disk[i].ents[m] # None}}
    /\ pr' = [pr EXCEPT ![p].pp = "dec"]
    /\ UNCHANGED <<fd, cwd, leaked, calls>>

IputDec(p) ==
    LET i == pr[p].put IN
    /\ i # None /\ pr[p].pp = "dec"
    /\ ino' = [ino EXCEPT ![i].ref = @ - 1]
    /\ pr' = [pr EXCEPT ![p] = PutNext(@, None)]
    /\ UNCHANGED <<disk, fd, cwd, leaked, calls, orphans>>

-----------------------------------------------------------------------------
(* namex(), for namei() and, with parent, for nameiparent()                *)

Start(p, path) == IF path.abs THEN ROOTINO ELSE cwd[p]

\* The lookup failed: link() takes back its link, copy_file() unlocks its
\* source, the other calls return -1
Failed(r) ==
    CASE r.call = "link" /\ r.parent -> [Idle EXCEPT !.at = "linkbad", !.ip = r.ip]
      [] r.call = "copy" /\ r.parent -> [Idle EXCEPT !.at = "copybad", !.src = r.src]
      [] OTHER -> Idle

\* The loop ends with the path: nameiparent() of a path without a name fails
NamexEnd(r) ==
    CASE r.rest # <<>> -> r
      [] r.rest = <<>> /\ r.parent -> PutNext(Failed(r), r.cur)
      [] r.rest = <<>> /\ ~r.parent -> [r EXCEPT !.at = "found", !.ip = r.cur, !.cur = None]

Lookup(r, p, path, parent) ==
    NamexEnd([r EXCEPT !.at = "walk", !.parent = parent, !.cur = Start(p, path), !.rest = path.names])

Namex(p) ==
    LET r == pr[p]  i == r.cur  next == disk[i].ents[r.rest[1]] IN
    /\ At(p, "walk") /\ r.rest # <<>> /\ Unlocked(i)
    /\ \/ /\ Node(i).type = "dir" /\ r.parent /\ Len(r.rest) = 1
          /\ ino' = Read(ino, i)
          /\ pr' = [pr EXCEPT ![p] = [r EXCEPT !.at = "parent", !.dp = i, !.cur = None]]
       \/ /\ Node(i).type = "dir" /\ ~(r.parent /\ Len(r.rest) = 1) /\ next # None
          /\ ino' = iget(Read(ino, i), next)
          /\ pr' = [pr EXCEPT ![p] = PutNext(NamexEnd([r EXCEPT !.cur = next, !.rest = Tail(@)]), i)]
       \/ /\ \/ Node(i).type # "dir"
             \/ ~(r.parent /\ Len(r.rest) = 1) /\ next = None
          /\ ino' = Read(ino, i)
          /\ pr' = [pr EXCEPT ![p] = PutNext(Failed(r), i)]
    /\ UNCHANGED <<disk, fd, cwd, leaked, calls, orphans>>

-----------------------------------------------------------------------------
(* The system calls                                                        *)

Begin(p) ==
    \E call \in Calls, path \in Paths, new \in Paths :
        /\ At(p, "idle")
        /\ call \notin {"link", "copy"} => new = path
        /\ calls < MaxCalls
        /\ ino' = iget(ino, Start(p, path))
        /\ pr' = [pr EXCEPT ![p] = Lookup([Idle EXCEPT !.call = call, !.new = new], p, path,
                                          call \in CreateCalls \cup {"unlink"})]
        /\ calls' = calls + 1
        /\ UNCHANGED <<disk, fd, cwd, leaked, orphans>>

\* sys_close(): the last reference to the open file is dropped
Close(p) ==
    /\ At(p, "idle") /\ fd[p] # None
    /\ fd' = [fd EXCEPT ![p] = None]
    /\ pr' = [pr EXCEPT ![p] = PutNext(@, fd[p])]
    /\ UNCHANGED <<disk, ino, cwd, leaked, calls, orphans>>

\* Mutant: without a free descriptor the inode is only unlocked
OpenEndLeaks(p, c, i) ==
    /\ ino' = iunlock(c, i)
    /\ fd' = IF fd[p] = None THEN [fd EXCEPT ![p] = i] ELSE fd
    /\ pr' = [pr EXCEPT ![p] = Idle]

\* The end of sys_open() with ip locked, c being the cache: without a free
\* descriptor the inode is put back
OpenEnd(p, c, i) ==
    /\ ino' = iunlock(c, i)
    /\ IF fd[p] = None
       THEN fd' = [fd EXCEPT ![p] = i] /\ pr' = [pr EXCEPT ![p] = Idle]
       ELSE fd' = fd /\ pr' = [pr EXCEPT ![p] = PutNext(Idle, i)]

OpenFound(p) ==
    LET i == pr[p].ip IN
    /\ At(p, "found") /\ pr[p].call \in {"open", "openw"} /\ Unlocked(i)
    /\ IF Node(i).type = "dir" /\ pr[p].call = "openw"
       THEN ino' = Read(ino, i) /\ fd' = fd /\ pr' = [pr EXCEPT ![p] = PutNext(Idle, i)]
       ELSE OpenEnd(p, Read(ino, i), i)
    /\ UNCHANGED <<disk, cwd, leaked, calls, orphans>>

\* sys_chdir(): the process still names its old directory during iput()
ChdirFound(p) ==
    LET i == pr[p].ip IN
    /\ At(p, "found") /\ pr[p].call = "chdir" /\ Unlocked(i)
    /\ ino' = Read(ino, i)
    /\ pr' = [pr EXCEPT ![p] = IF Node(i).type # "dir" THEN PutNext(Idle, i)
                               ELSE PutNext([Idle EXCEPT !.at = "chdir", !.ip = i], cwd[p])]
    /\ UNCHANGED <<disk, fd, cwd, leaked, calls, orphans>>

ChdirEnd(p) ==
    /\ At(p, "chdir")
    /\ cwd' = [cwd EXCEPT ![p] = pr[p].ip]
    /\ pr' = [pr EXCEPT ![p] = Idle]
    /\ UNCHANGED <<disk, ino, fd, leaked, calls, orphans>>

\* Mutant: the file stays locked while the new name is looked up
LinkFoundKeepsLock(p) ==
    LET r == pr[p]  i == r.ip IN
    /\ At(p, "found") /\ r.call = "link" /\ Unlocked(i) /\ Node(i).type # "dir"
    /\ ino' = iget(WithLinks(ilock(ino, i, p), i, 1), Start(p, r.new))
    /\ disk' = WithLinks(disk, i, 1)
    /\ pr' = [pr EXCEPT ![p] = Lookup(r, p, r.new, TRUE)]
    /\ UNCHANGED <<fd, cwd, leaked, calls, orphans>>

\* sys_link(): the new link is counted before its entry is written
LinkFound(p) ==
    LET r == pr[p]  i == r.ip IN
    /\ At(p, "found") /\ r.call = "link" /\ Unlocked(i)
    /\ IF Node(i).type = "dir"
       THEN /\ ino' = Read(ino, i) /\ disk' = disk
            /\ pr' = [pr EXCEPT ![p] = PutNext(Idle, i)]
       ELSE /\ ino' = iget(WithLinks(Read(ino, i), i, 1), Start(p, r.new))
            /\ disk' = WithLinks(disk, i, 1)
            /\ pr' = [pr EXCEPT ![p] = Lookup(r, p, r.new, TRUE)]
    /\ UNCHANGED <<fd, cwd, leaked, calls, orphans>>

\* dirlink() finds the name taken and calls iput() with dp locked, or writes
LinkParent(p) ==
    LET r == pr[p]  d == r.dp  n == r.rest[1]  e == disk[d].ents[n] IN
    /\ At(p, "parent") /\ r.call = "link" /\ Unlocked(d)
    /\ IF e # None
       THEN /\ ino' = iget(ilock(ino, d, p), e) /\ disk' = disk
            /\ pr' = [pr EXCEPT ![p] = PutNext([Idle EXCEPT !.at = "linktaken", !.ip = r.ip, !.dp = d], e)]
       ELSE /\ ino' = Read(ino, d)
            /\ disk' = [disk EXCEPT ![d].ents[n] = r.ip]
            /\ pr' = [pr EXCEPT ![p] = PutNext([Idle EXCEPT !.at = "linked", !.ip = r.ip], d)]
    /\ UNCHANGED <<fd, cwd, leaked, calls, orphans>>

LinkTaken(p) ==
    /\ At(p, "linktaken")
    /\ ino' = iunlock(ino, pr[p].dp)
    /\ pr' = [pr EXCEPT ![p] = PutNext([@ EXCEPT !.at = "linkbad", !.dp = None], pr[p].dp)]
    /\ UNCHANGED <<disk, fd, cwd, leaked, calls, orphans>>

LinkEnd(p) ==
    /\ At(p, "linked")
    /\ pr' = [pr EXCEPT ![p] = PutNext(Idle, pr[p].ip)]
    /\ UNCHANGED <<disk, ino, fd, cwd, leaked, calls, orphans>>

LinkBad(p) ==
    LET i == pr[p].ip IN
    /\ At(p, "linkbad") /\ Unlocked(i)
    /\ ino' = WithLinks(Read(ino, i), i, -1)
    /\ disk' = WithLinks(disk, i, -1)
    /\ pr' = [pr EXCEPT ![p] = PutNext(Idle, i)]
    /\ UNCHANGED <<fd, cwd, leaked, calls, orphans>>

\* sys_unlink(): the entry is found with dp locked, and dp stays locked
UnlinkParent(p) ==
    LET r == pr[p]  d == r.dp  n == r.rest[1]  e == disk[d].ents[n] IN
    /\ At(p, "parent") /\ r.call = "unlink" /\ Unlocked(d)
    /\ IF n = ".." \/ e = None
       THEN /\ ino' = Read(ino, d)
            /\ pr' = [pr EXCEPT ![p] = PutNext(Idle, d)]
       ELSE /\ ino' = iget(ilock(ino, d, p), e)
            /\ pr' = [pr EXCEPT ![p] = [r EXCEPT !.at = "unlink", !.ip = e]]
    /\ UNCHANGED <<disk, fd, cwd, leaked, calls, orphans>>

isdirempty(i) == \A n \in Names : disk[i].ents[n] = None

UnlinkChild(p) ==
    LET r == pr[p]  d == r.dp  i == r.ip IN
    /\ At(p, "unlink") /\ Unlocked(i)
    /\ IF Node(i).type = "dir" /\ ~isdirempty(i)
       THEN /\ ino' = Read(ino, i) /\ disk' = disk
            /\ pr' = [pr EXCEPT ![p] = PutNext([Idle EXCEPT !.at = "unlinkbad", !.dp = d], i)]
       ELSE LET links == IF Node(i).type = "dir" THEN -1 ELSE 0 IN
            /\ ino' = iunlock(WithLinks(ilock(ino, i, p), d, links), d)
            /\ disk' = WithLinks([disk EXCEPT ![d].ents[r.rest[1]] = None], d, links)
            /\ pr' = [pr EXCEPT ![p] = PutNext([Idle EXCEPT !.at = "unlinked", !.ip = i], d)]
    /\ UNCHANGED <<fd, cwd, leaked, calls, orphans>>

UnlinkBad(p) ==
    /\ At(p, "unlinkbad")
    /\ ino' = iunlock(ino, pr[p].dp)
    /\ pr' = [pr EXCEPT ![p] = PutNext(Idle, pr[p].dp)]
    /\ UNCHANGED <<disk, fd, cwd, leaked, calls, orphans>>

UnlinkEnd(p) ==
    LET i == pr[p].ip IN
    /\ At(p, "unlinked")
    /\ ino' = iunlock(WithLinks(ino, i, -1), i)
    /\ disk' = WithLinks(disk, i, -1)
    /\ pr' = [pr EXCEPT ![p] = PutNext(Idle, i)]
    /\ UNCHANGED <<fd, cwd, leaked, calls, orphans>>

\* ialloc() takes the first free inode; without one it panics, which ends
\* every behaviour
FirstFree == Min({i \in Inums : disk[i].type = "free"})
DiskFull == \A i \in Inums : disk[i].type # "free"

\* create(): the name exists, or the new inode is allocated with dp locked
CreateParent(p) ==
    LET r == pr[p]  d == r.dp  e == disk[d].ents[r.rest[1]] IN
    /\ At(p, "parent") /\ r.call \in CreateCalls \cup {"copy"} /\ Unlocked(d)
    /\ \/ /\ e # None
          /\ ino' = iget(Read(ino, d), e) /\ disk' = disk
          /\ pr' = [pr EXCEPT ![p] = PutNext([r EXCEPT !.at = "exists", !.ip = e, !.dp = None], d)]
       \/ /\ e = None /\ ~DiskFull
          /\ ino' = iget(ilock(ino, d, p), FirstFree)
          /\ disk' = [disk EXCEPT ![FirstFree] = [type |-> TypeToCreate[r.call], nlink |-> 0, ents |-> NoEntries]]
          /\ pr' = [pr EXCEPT ![p] = [r EXCEPT !.at = "create", !.ip = FirstFree]]
    /\ UNCHANGED <<fd, cwd, leaked, calls, orphans>>

CreateNew(p) ==
    LET r == pr[p]  d == r.dp  i == r.ip  dir == TypeToCreate[r.call] = "dir"
        links == IF dir THEN 1 ELSE 0
    IN
    /\ At(p, "create") /\ Unlocked(i)
    /\ ino' = iunlock(WithLinks(WithLinks(ilock(ino, i, p), i, 1), d, links), d)
    /\ disk' = WithLinks([disk EXCEPT ![d].ents[r.rest[1]] = i,
                                      ![i].nlink = 1,
                                      ![i].ents[".."] = IF dir THEN d ELSE None], d, links)
    /\ pr' = [pr EXCEPT ![p] = PutNext([r EXCEPT !.at = "created", !.dp = None], d)]
    /\ UNCHANGED <<fd, cwd, leaked, calls, orphans>>

CreateExists(p) ==
    LET r == pr[p]  i == r.ip IN
    /\ At(p, "exists") /\ Unlocked(i)
    /\ IF TypeToCreate[r.call] = "file" /\ Node(i).type = "file"
       THEN ino' = ilock(ino, i, p) /\ pr' = [pr EXCEPT ![p].at = "created"]
       ELSE ino' = Read(ino, i) /\ pr' = [pr EXCEPT ![p] = PutNext(Failed(r), i)]
    /\ UNCHANGED <<disk, fd, cwd, leaked, calls, orphans>>

\* create() returned the inode locked
OpenCreated(p) ==
    /\ At(p, "created") /\ pr[p].call = "creat"
    /\ OpenEnd(p, ino, pr[p].ip)
    /\ UNCHANGED <<disk, cwd, leaked, calls, orphans>>

MkdirCreated(p) ==
    /\ At(p, "created") /\ pr[p].call \in {"mkdir", "mknod"}
    /\ ino' = iunlock(ino, pr[p].ip)
    /\ pr' = [pr EXCEPT ![p] = PutNext(Idle, pr[p].ip)]
    /\ UNCHANGED <<disk, fd, cwd, leaked, calls, orphans>>

\* sys_copy_file() keeps the source locked while it creates the target
CopyFound(p) ==
    LET r == pr[p]  i == r.ip IN
    /\ At(p, "found") /\ r.call = "copy" /\ Unlocked(i)
    /\ ino' = iget(ilock(ino, i, p), Start(p, r.new))
    /\ pr' = [pr EXCEPT ![p] = Lookup([r EXCEPT !.src = i, !.ip = None], p, r.new, TRUE)]
    /\ UNCHANGED <<disk, fd, cwd, leaked, calls, orphans>>

\* no target: the source is unlocked and never put back
CopyBad(p) ==
    LET i == pr[p].src IN
    /\ At(p, "copybad")
    /\ ino' = iunlock(ino, i)
    /\ leaked' = [leaked EXCEPT ![i] = @ + 1]
    /\ pr' = [pr EXCEPT ![p] = Idle]
    /\ UNCHANGED <<disk, fd, cwd, calls, orphans>>

\* The copy is made, which cannot fail for a source within MAXFILE and a
\* target that is a file; neither inode is put back
CopyEnd(p) ==
    LET r == pr[p] IN
    /\ At(p, "created") /\ r.call = "copy"
    /\ ino' = iunlock(iunlock(ino, r.ip), r.src)
    /\ leaked' = [leaked EXCEPT ![r.src] = @ + 1, ![r.ip] = @ + 1]
    /\ pr' = [pr EXCEPT ![p] = Idle]
    /\ UNCHANGED <<disk, fd, cwd, calls, orphans>>

-----------------------------------------------------------------------------
Iput(p) == IputLock(p) \/ IputFree(p) \/ IputDec(p)
sys_open(p) == OpenFound(p) \/ OpenCreated(p)
sys_chdir(p) == ChdirFound(p) \/ ChdirEnd(p)
sys_link(p) == LinkFound(p) \/ LinkParent(p) \/ LinkTaken(p) \/ LinkEnd(p) \/ LinkBad(p)
sys_unlink(p) == UnlinkParent(p) \/ UnlinkChild(p) \/ UnlinkBad(p) \/ UnlinkEnd(p)
create(p) == CreateParent(p) \/ CreateNew(p) \/ CreateExists(p)
sys_copy_file(p) == CopyFound(p) \/ CopyBad(p) \/ CopyEnd(p)

Next == \E p \in Procs :
    \/ Begin(p) \/ Close(p) \/ Iput(p) \/ Namex(p) \/ sys_open(p) \/ MkdirCreated(p)
    \/ sys_chdir(p) \/ sys_link(p) \/ sys_unlink(p) \/ create(p) \/ sys_copy_file(p)

Spec == Init /\ [][Next]_vars

-----------------------------------------------------------------------------
TypeOK ==
    /\ disk \in [Inums -> [type : {"free", "dir", "file", "dev"}, nlink : Nat, ents : [Entries -> Inums \cup {None}]]]
    /\ ino \in [Inums -> [ref : Nat, lock : Procs \cup {NoProc}, valid : BOOLEAN,
                          type : {"free", "dir", "file", "dev"}, nlink : Nat]]
    /\ fd \in [Procs -> Inums \cup {None}] /\ cwd \in [Procs -> Inums]
    /\ leaked \in [Inums -> Nat] /\ calls \in 0 .. MaxCalls /\ orphans \subseteq Inums

\* The inodes a process has references to, by the place it keeps them in
\* (sys_chdir() is putting back what cwd names)
Pointers(p) ==
    [fd |-> fd[p], cwd |-> IF pr[p].at = "chdir" THEN None ELSE cwd[p],
     cur |-> pr[p].cur, ip |-> pr[p].ip, dp |-> pr[p].dp, src |-> pr[p].src, put |-> pr[p].put]

Places == {"fd", "cwd", "cur", "ip", "dp", "src", "put"}

(***************************************************************************)
(* ip->ref is the number of pointers to the inode that processes have:     *)
(* open files, current directories and the local variables of system calls *)
(* in progress, on every error path; only copy_file() leaves more.         *)
(***************************************************************************)
RefsExact ==
    /\ TypeOK
    /\ \A i \in Inums :
          ino[i].ref = leaked[i] + Cardinality({<<p, f>> \in Procs \X Places : Pointers(p)[f] = i})


\* Entries that name inode i, and the ".." of the directories in i
LinksTo(i) ==
    Cardinality({<<d, n>> \in Inums \X Names : disk[d].ents[n] = i})
  + Cardinality({n \in Names : disk[i].ents[n] # None /\ disk[disk[i].ents[n]].type = "dir"})

\* link() has counted a link to i that it has not written
LinksPending(i) ==
    Cardinality({p \in Procs : /\ pr[p].ip = i
                               /\ \/ pr[p].call = "link" /\ pr[p].parent
                                  \/ pr[p].at \in {"linktaken", "linkbad"}})

(***************************************************************************)
(* The link count of an inode that nobody has locked is the number of      *)
(* entries that name it, counting the link that a link() in progress is    *)
(* about to write or to take back, and for a directory its subdirectories. *)
(* Cached and on the disk it is the same.  The exception is an inode whose *)
(* entry was in a directory that was removed under the call creating it.   *)
(***************************************************************************)
LinksExact ==
    \A i \in Inums : Unlocked(i) /\ disk[i].type # "free" =>
        /\ ino[i].ref > 0 /\ ino[i].valid => ino[i].nlink = disk[i].nlink /\ ino[i].type = disk[i].type
        /\ i \notin orphans =>
              disk[i].nlink = LinksTo(i) + LinksPending(i) + (IF i = ROOTINO THEN 1 ELSE 0)

\* The inode whose lock a process needs for its next step, or None
Wants(p) ==
    LET r == pr[p] IN
    CASE r.put # None -> IF r.pp = "lock" THEN r.put ELSE None
      [] r.at = "walk" /\ r.rest # <<>> -> r.cur
      [] r.at \in {"found", "linkbad", "unlink", "create", "exists"} -> r.ip
      [] r.at = "parent" -> r.dp
      [] OTHER -> None

WaitsFor(S) == [p, q \in S |-> Wants(p) # None /\ ino[Wants(p)].lock = q]

(***************************************************************************)
(* Locks are taken from a directory to its entries: processes never wait   *)
(* in a circle for inode locks, but for those that wait in iput() with     *)
(* another inode locked, as create() and unlink() do, and for copy_file(), *)
(* which holds its source while it looks up its target.                    *)
(***************************************************************************)
OrderedWaits ==
    LET S == {p \in Procs : pr[p].put = None /\ pr[p].src = None}
    IN IsIrreflexive(TransitiveClosure(WaitsFor(S), S), S)

=============================================================================
