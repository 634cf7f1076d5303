------------------------------ MODULE FileData ------------------------------
(***************************************************************************)
(* Where the bytes of files are: the free bitmap and the direct and        *)
(* indirect addresses of fs.c (balloc, bfree, bmap, itrunc, readi, writei) *)
(* on an image made by mkfs.c (iappend, balloc).                           *)
(*                                                                         *)
(* Every call holds the inode's lock and runs in a transaction of the log, *)
(* so that it is one step and a crash comes between two of them.  A block  *)
(* is BSIZE cells, and a cell holds a byte or, in an indirect block, an    *)
(* address.  A directory entry takes one cell.                             *)
(***************************************************************************)
EXTENDS Integers, SequencesExt, FiniteSetsExt

CONSTANTS
    BSIZE, NDIRECT,    \* as in fs.h, with sizeof(uint) = 1
    FSSIZE, nmeta,     \* blocks of the disk, and those before the data blocks
    UINT,              \* offsets and counts are below UINT
    Files,             \* inode numbers; ROOTINO is the root directory
    Images,            \* what mkfs is given: the content of each file
    Sources            \* what writei() is given

ROOTINO == 1
NINDIRECT == BSIZE
MAXFILE == NDIRECT + NINDIRECT
MAXSIZE == MAXFILE * BSIZE
Cells == 0 .. BSIZE - 1
Zeroes == [i \in Cells |-> 0]
Refused == <<-1>>     \* a call returns -1
NoAddrs == [i \in 0 .. NDIRECT |-> 0]

VARIABLE fs    \* used: the bitmap; blk: the blocks; mem, disk: the inodes in
               \* memory and on the disk; panic: what panic() was called with

-----------------------------------------------------------------------------
(* fs.c: each operator gives the file system s after the call, and balloc  *)
(* and bmap also the address a                                             *)

\* Mutant: the block is not zeroed
ballocDirty(s) ==
    LET free == (0 .. FSSIZE - 1) \ s.used IN
    IF free = {} THEN [s |-> [s EXCEPT !.panic = "out of blocks"], a |-> 0]
    ELSE [s |-> [s EXCEPT !.used = @ \cup {Min(free)}], a |-> Min(free)]

balloc(s) ==
    LET free == (0 .. FSSIZE - 1) \ s.used IN
    IF free = {} THEN [s |-> [s EXCEPT !.panic = "out of blocks"], a |-> 0]
    ELSE [s |-> [s EXCEPT !.used = @ \cup {Min(free)}, !.blk[Min(free)] = Zeroes], a |-> Min(free)]

bfree(s, b) ==
    IF b \in s.used THEN [s EXCEPT !.used = @ \ {b}] ELSE [s EXCEPT !.panic = "freeing free block"]

\* The address in ip->addrs[i], allocated if there is none
Direct(s, f, i) ==
    LET r == balloc(s) IN
    IF s.mem[f].addrs[i] # 0 THEN [s |-> s, a |-> s.mem[f].addrs[i]]
    ELSE [s |-> [r.s EXCEPT !.mem[f].addrs[i] = r.a], a |-> r.a]

bmap(s, f, bn) ==
    IF bn < NDIRECT THEN Direct(s, f, bn)
    ELSE LET ind == Direct(s, f, NDIRECT)
             addr == ind.s.blk[ind.a][bn - NDIRECT]
             r == balloc(ind.s)
         IN IF addr # 0 THEN [s |-> ind.s, a |-> addr]
            ELSE [s |-> [r.s EXCEPT !.blk[ind.a] = [@ EXCEPT ![bn - NDIRECT] = r.a]], a |-> r.a]

iupdate(s, f) == [s EXCEPT !.disk[f] = s.mem[f]]

itrunc(s, f) ==
    LET Freed(t, as) == FoldFunction(LAMBDA b, u : IF b = 0 THEN u ELSE bfree(u, b), t, as)
        ind == s.mem[f].addrs[NDIRECT]
        freed == Freed(IF ind = 0 THEN s ELSE Freed(s, s.blk[ind]), s.mem[f].addrs)
    IN iupdate([freed EXCEPT !.mem[f] = [size |-> 0, addrs |-> NoAddrs]], f)

\* A turn of readi()'s or writei()'s loop covers m bytes, at most up to the
\* end of a block
Turn(off, tot, n) == Min({n - tot, BSIZE - ((off + tot) % BSIZE)})

\* Mutant: a count that overflows is not refused
readiUnbounded(s, f, off, n0) ==
    LET size == s.mem[f].size
        n == IF off + n0 > size THEN size - off ELSE n0
        Copy(t, i) ==
            LET r == bmap(t.s, f, (off + Len(t.dst)) \div BSIZE)
                m == Turn(off, Len(t.dst), n)
            IN IF Len(t.dst) = n THEN t
               ELSE [s |-> r.s, dst |-> t.dst \o [j \in 1 .. m |-> r.s.blk[r.a][((off + Len(t.dst)) % BSIZE) + j - 1]]]
    IN IF off > size THEN [s |-> s, dst |-> Refused]
       ELSE FoldLeft(Copy, [s |-> s, dst |-> <<>>], [i \in 1 .. n |-> i])

\* The file system, and what was read
readi(s, f, off, n0) ==
    LET size == s.mem[f].size
        n == IF off + n0 > size THEN size - off ELSE n0
        Copy(t, i) ==
            LET r == bmap(t.s, f, (off + Len(t.dst)) \div BSIZE)
                m == Turn(off, Len(t.dst), n)
            IN IF Len(t.dst) = n THEN t
               ELSE [s |-> r.s, dst |-> t.dst \o [j \in 1 .. m |-> r.s.blk[r.a][((off + Len(t.dst)) % BSIZE) + j - 1]]]
    IN IF off > size \/ (off + n0) % UINT < off THEN [s |-> s, dst |-> Refused]
       ELSE FoldLeft(Copy, [s |-> s, dst |-> <<>>], [i \in 1 .. n |-> i])

\* writei()'s loop: the blocks of f with src from off on
Written(s, f, off, src) ==
    LET n == Len(src)
        Copy(t, i) ==
            LET r == bmap(t.s, f, (off + t.tot) \div BSIZE)
                at == (off + t.tot) % BSIZE
                m == Turn(off, t.tot, n)
            IN IF t.tot = n THEN t
               ELSE [s |-> [r.s EXCEPT !.blk[r.a] = [c \in Cells |->
                                IF c \in at .. at + m - 1 THEN src[t.tot + c - at + 1] ELSE @[c]]],
                     tot |-> t.tot + m]
    IN FoldLeft(Copy, [s |-> s, tot |-> 0], [i \in 1 .. n |-> i]).s


writei(s, f, off, src) ==
    LET n == Len(src) IN
    IF off > s.mem[f].size \/ (off + n) % UINT < off \/ off + n > MAXSIZE THEN s
    ELSE LET t == Written(s, f, off, src) IN
         IF n > 0 /\ off + n > t.mem[f].size THEN iupdate([t EXCEPT !.mem[f].size = off + n], f) ELSE t

\* sys_copy_file(): file f is written over file g block by block, which then
\* gets the size of f; blocks of g beyond it stay with g
copy_file(s, f, g) ==
    LET size == s.mem[f].size
        Copy(t, i) == LET off == (i - 1) * BSIZE
                          r == readi(t, f, off, Min({size - off, BSIZE}))
                      IN writei(r.s, g, off, r.dst)
        copied == FoldLeft(Copy, s, [i \in 1 .. (size + BSIZE - 1) \div BSIZE |-> i])
    IN iupdate([copied EXCEPT !.mem[g].size = size], g)

-----------------------------------------------------------------------------
(* mkfs.c: img has its freeblock, blk and disk inodes                      *)

\* The address of block fbn of file f, taken from freeblock if there is none
Placed(img, f, fbn) ==
    LET i == IF fbn < NDIRECT THEN fbn ELSE NDIRECT
        new == img.disk[f].addrs[i] = 0
        one == IF new THEN [img EXCEPT !.disk[f].addrs[i] = img.freeblock, !.freeblock = @ + 1] ELSE img
        a == one.disk[f].addrs[i]
        ind == one.blk[a][fbn - NDIRECT]
    IN CASE fbn < NDIRECT -> [img |-> one, x |-> a]
         [] fbn >= NDIRECT /\ ind # 0 -> [img |-> one, x |-> ind]
         [] OTHER -> [img |-> [one EXCEPT !.blk[a] = [@ EXCEPT ![fbn - NDIRECT] = one.freeblock], !.freeblock = @ + 1],
                      x |-> one.freeblock]

iappend(img, f, p) ==
    LET Put(t, c) ==
            LET off == t.disk[f].size
                r == Placed(t, f, off \div BSIZE)
            IN [r.img EXCEPT !.blk[r.x] = [@ EXCEPT ![off % BSIZE] = c], !.disk[f].size = off + 1]
    IN FoldLeft(Put, img, p)

\* mkfs's balloc(): the blocks before freeblock are marked
Bitmap(img) == 0 .. img.freeblock - 1

\* An image with "." and ".." in the root directory, then for every file its
\* entry there and its content; the root directory's size is made a multiple
\* of BSIZE
mkfs(contents) ==
    LET empty == [freeblock |-> nmeta, blk |-> [b \in 0 .. FSSIZE - 1 |-> Zeroes],
                  disk |-> [f \in Files |-> [size |-> 0, addrs |-> NoAddrs]]]
        Add(img, f) == iappend(iappend(img, ROOTINO, <<f>>), f, contents[f])
        full == FoldLeft(Add, iappend(empty, ROOTINO, <<1, 1>>), SetToSortSeq(Files \ {ROOTINO}, <))
        inodes == [full.disk EXCEPT ![ROOTINO].size = ((@ \div BSIZE) + 1) * BSIZE]
    IN [used |-> Bitmap(full), blk |-> full.blk, mem |-> inodes, disk |-> inodes, panic |-> "none"]

-----------------------------------------------------------------------------
Init == \E contents \in Images : fs = mkfs(contents)

\* The call ends with file system s, or stops the system
Done(s) == fs' = IF s.panic = "none" THEN s ELSE [fs EXCEPT !.panic = s.panic]

\* filewrite(); dirlink() writes one entry
Write ==
    \E f \in Files, off \in 0 .. MAXSIZE, src \in Sources :
        (f = ROOTINO => Len(src) = 1) /\ Done(writei(fs, f, off, src))

\* dirlookup() or dirlink() go through a directory in a transaction
Scan == Done(readi(fs, ROOTINO, 0, fs.mem[ROOTINO].size).s)

\* iput() frees the inode, and ialloc() gives it to a new file
Free == \E f \in Files \ {ROOTINO} : Done(itrunc(fs, f))

\* Copying a file onto itself would wait for its own lock
Copy == \E f \in Files, g \in Files \ {ROOTINO} : f # g /\ Done(copy_file(fs, f, g))

\* A directory's link count changes, as in create() and sys_unlink()
Link == Done(iupdate(fs, ROOTINO))

\* The system restarts, the inodes are read again by ilock()
Restart == fs' = [fs EXCEPT !.mem = fs.disk]

Next == fs.panic = "none" /\ (Write \/ Scan \/ Free \/ Copy \/ Link \/ Restart)

-----------------------------------------------------------------------------
(* The address of block bn of inode ip, 0 if there is none                 *)
AddrOf(ip, bn) ==
    CASE bn < NDIRECT -> ip.addrs[bn]
      [] bn >= NDIRECT /\ ip.addrs[NDIRECT] = 0 -> 0
      [] OTHER -> fs.blk[ip.addrs[NDIRECT]][bn - NDIRECT]

\* The addresses of an inode, as <<which one, address>>, the indirect block last
Addrs(ip) ==
    {<<bn, AddrOf(ip, bn)>> : bn \in 0 .. MAXFILE - 1} \cup {<<MAXFILE, ip.addrs[NDIRECT]>>}

Owned == {<<f, a>> \in Files \X UNION {Addrs(fs.mem[f]) : f \in Files} : a \in Addrs(fs.mem[f]) /\ a[2] # 0}

\* The bytes of an inode; what has no block reads as zeroes
Bytes(ip) ==
    [i \in 1 .. ip.size |->
        LET a == AddrOf(ip, (i - 1) \div BSIZE) IN IF a = 0 THEN 0 ELSE fs.blk[a][(i - 1) % BSIZE]]

(***************************************************************************)
(* Every block that the bitmap has in use is a meta block or belongs to    *)
(* one place of one file, and nothing else is: balloc() and bfree() lose   *)
(* no block and share none, and bfree() never panics.                      *)
(***************************************************************************)
BlocksExact ==
    /\ fs.panic \in {"none", "out of blocks"}
    /\ fs.used = (0 .. nmeta - 1) \cup {o[2][2] : o \in Owned}
    /\ Cardinality(fs.used) = nmeta + Cardinality(Owned)

(***************************************************************************)
(* readi() returns the bytes of the file from off on, as many as there are *)
(* and no more than n, also for a count that overflows, and it allocates   *)
(* nothing: a file is read outside a transaction.                          *)
(***************************************************************************)
ReadsExact ==
    \A f \in Files : LET ip == fs.mem[f] IN
        \A off \in 0 .. MAXSIZE + 1, n \in {1, BSIZE + 1, UINT - 1} :
            readi(fs, f, off, n) =
                [s |-> fs, dst |-> IF off > ip.size \/ off + n >= UINT THEN Refused
                                   ELSE SubSeq(Bytes(ip), off + 1, Min({off + n, ip.size}))]

(***************************************************************************)
(* "Must be called after every change to an ip->xxx field that lives on    *)
(* disk, since i-node cache is write-through": no call returns with an     *)
(* inode that differs from the one on the disk.                            *)
(***************************************************************************)
WriteThrough == fs.mem = fs.disk

(***************************************************************************)
(* Files are sequences of bytes that survive a restart: writei() changes   *)
(* the bytes it was given the offset and count for and no other byte of    *)
(* any file, itrunc() empties one, sys_copy_file() makes one like another, *)
(* and nothing else changes any.                                           *)
(***************************************************************************)
Contents == [f \in Files |-> Bytes(fs.disk[f])]

Flat == INSTANCE FlatFiles WITH content <- Contents

=============================================================================
