------------------------------- MODULE Memory -------------------------------
(***************************************************************************)
(* Physical memory and address spaces: the page allocator of kalloc.c, the *)
(* user part of the page tables as vm.c, fork(), exec(), growproc() and    *)
(* wait() change it, and the shared pages of shared_mem.c.                 *)
(*                                                                         *)
(* Sizes are in pages.  Only the frames of user pages are counted; page    *)
(* tables and kernel stacks come from elsewhere.  The sections under       *)
(* kmem.lock and under shared_memory.lock are steps; fork() and exec()     *)
(* allocate page by page and others run in between.                        *)
(***************************************************************************)
EXTENDS Integers, FiniteSets, SequencesExt

CONSTANTS Procs, Frames, Null,   \* Null: what kalloc() returns without memory
          NUM_OF_SHARED_PAGES, Ids,
          MaxPages,              \* bound: pages of an address space
          ExecSizes,             \* sizes of programs
          Careful                \* processes close the shared page before
                                 \* they exit or call exec() or sbrk()

Absent == 0                      \* a page without PTE_P
Pages == 1 .. MaxPages
Entries == 1 .. NUM_OF_SHARED_PAGES

ASSUME MemoryAssumption ==
    /\ NUM_OF_SHARED_PAGES \in Nat \ {0} /\ MaxPages \in Nat \ {0}
    /\ Ids \subseteq Nat \ {0} /\ ExecSizes \subseteq 1 .. MaxPages - 1
    /\ Null \notin Frames /\ Absent \notin Frames /\ Careful \in BOOLEAN

VARIABLES
    freelist,        \* kmem.freelist
    table,           \* shared_memory.table
    pc,              \* "unused", "run", "fork", "exec", "embryo" or "zombie"
    pgdir, sz,       \* fields of struct proc
    shm, shm_id,     \* shm is a page, or 0
    new, newsz, np,  \* page table being built, its size, and for fork() whose
    panic

vars == <<freelist, table, pc, pgdir, sz, shm, shm_id, new, newsz, np, panic>>

NoPages == [k \in Pages |-> Absent]

\* userinit(): one process with one page; all memory is free.
Init ==
    \E p \in Procs, f \in Frames :
        /\ freelist = SetToSeq(Frames \ {f})
        /\ table = [i \in Entries |-> [id |-> 0, refs |-> 0, frame |-> Null]]
        /\ pc = [q \in Procs |-> IF q = p THEN "run" ELSE "unused"]
        /\ pgdir = [q \in Procs |-> IF q = p THEN [NoPages EXCEPT ![1] = f] ELSE NoPages]
        /\ sz = [q \in Procs |-> IF q = p THEN 1 ELSE 0]
        /\ shm = [q \in Procs |-> 0] /\ shm_id = [q \in Procs |-> 0]
        /\ new = [q \in Procs |-> NoPages] /\ newsz = [q \in Procs |-> 0]
        /\ np = [q \in Procs |-> q]
        /\ panic = "no"

Running(p) == panic = "no" /\ pc[p] = "run"
MayLeave(p) == Running(p) /\ (Careful => shm[p] = 0)

(***************************************************************************)
(* kalloc() and kfree(): the freelist is a stack.                          *)
(***************************************************************************)
Present(dir) == SelectSeq(dir, LAMBDA f : f /= Absent)

\* The freelist after freevm() of a page table: deallocuvm() frees every page
\* that is present, in order.
freevm(dir) == Reverse(Present(dir)) \o freelist

\* kfree() refuses an address that no kalloc() returns.
NullPresent(dir) == \E k \in Pages : dir[k] = Null

(***************************************************************************)
(* sbrk(), fork() and exec()                                               *)
(***************************************************************************)

\* growproc() by one page: allocuvm() takes a page, and mappages() panics if
\* there is one already.
Grow(p) ==
    /\ MayLeave(p)
    /\ sz[p] < MaxPages - 1 /\ freelist /= <<>>
    /\ IF pgdir[p][sz[p] + 1] = Absent
       THEN /\ pgdir' = [pgdir EXCEPT ![p][sz[p] + 1] = Head(freelist)]
            /\ sz' = [sz EXCEPT ![p] = @ + 1]
            /\ UNCHANGED panic
       ELSE panic' = "remap" /\ UNCHANGED <<pgdir, sz>>
    /\ freelist' = Tail(freelist)
    /\ UNCHANGED <<table, pc, shm, shm_id, new, newsz, np>>

\* Without memory allocuvm() calls deallocuvm() for the range it was to fill,
\* which frees a page that was there before.
GrowFails(p) ==
    /\ MayLeave(p)
    /\ sz[p] < MaxPages - 1 /\ freelist = <<>>
    /\ LET k == sz[p] + 1 IN
       IF pgdir[p][k] = Null
       THEN panic' = "kfree" /\ UNCHANGED <<freelist, pgdir>>
       ELSE /\ freelist' = Present(<<pgdir[p][k]>>)
            /\ pgdir' = [pgdir EXCEPT ![p][k] = Absent]
            /\ UNCHANGED panic
    /\ UNCHANGED <<table, pc, sz, shm, shm_id, new, newsz, np>>

\* growproc() by minus one page.  Bound: a program keeps its first page.
Shrink(p) ==
    /\ MayLeave(p)
    /\ sz[p] > 1
    /\ freelist' = <<pgdir[p][sz[p]]>> \o freelist
    /\ pgdir' = [pgdir EXCEPT ![p][sz[p]] = Absent]
    /\ sz' = [sz EXCEPT ![p] = @ - 1]
    /\ UNCHANGED <<table, pc, shm, shm_id, new, newsz, np, panic>>

\* fork(): allocproc(), then copyuvm() of sz pages.  The shared page, above
\* sz, is not copied.
Fork(p, c) ==
    /\ Running(p) /\ pc[c] = "unused"
    /\ pc' = [pc EXCEPT ![p] = "fork", ![c] = "embryo"]
    /\ newsz' = [newsz EXCEPT ![p] = sz[p]]
    /\ np' = [np EXCEPT ![p] = c]
    /\ UNCHANGED <<freelist, table, pgdir, sz, shm, shm_id, new, panic>>

\* exec() of a program of n pages
Exec(p, n) ==
    /\ MayLeave(p)
    /\ pc' = [pc EXCEPT ![p] = "exec"]
    /\ newsz' = [newsz EXCEPT ![p] = n]
    /\ UNCHANGED <<freelist, table, pgdir, sz, shm, shm_id, new, np, panic>>

Built(p) == Len(Present(new[p]))
Building(p) == panic = "no" /\ pc[p] \in {"fork", "exec"}

\* The next page of the new page table
BuildPage(p) ==
    /\ Building(p) /\ Built(p) < newsz[p] /\ freelist /= <<>>
    /\ new' = [new EXCEPT ![p][Built(p) + 1] = Head(freelist)]
    /\ freelist' = Tail(freelist)
    /\ UNCHANGED <<table, pc, pgdir, sz, shm, shm_id, newsz, np, panic>>

Forget(p) ==
    /\ new' = [new EXCEPT ![p] = NoPages]
    /\ newsz' = [newsz EXCEPT ![p] = 0]
    /\ np' = [np EXCEPT ![p] = p]

\* Mutant: what was built is not freed
BuildFailsLeaks(p) ==
    /\ Building(p) /\ (pc[p] = "exec" \/ Built(p) < newsz[p])
    /\ pc' = [[pc EXCEPT ![np[p]] = "unused"] EXCEPT ![p] = "run"]
    /\ Forget(p)
    /\ UNCHANGED <<freelist, table, pgdir, sz, shm, shm_id, panic>>

\* No memory, for a page, a page table or a stack: copyuvm() or exec() frees
\* what it has built.  exec() may also fail for a bad program or bad arguments.
BuildFails(p) ==
    /\ Building(p) /\ (pc[p] = "exec" \/ Built(p) < newsz[p])
    /\ freelist' = freevm(new[p])
    /\ pc' = [[pc EXCEPT ![np[p]] = "unused"] EXCEPT ![p] = "run"]
    /\ Forget(p)
    /\ UNCHANGED <<table, pgdir, sz, shm, shm_id, panic>>

ForkDone(p) ==
    /\ Building(p) /\ pc[p] = "fork" /\ Built(p) = newsz[p]
    /\ pgdir' = [pgdir EXCEPT ![np[p]] = new[p]]
    /\ sz' = [sz EXCEPT ![np[p]] = newsz[p]]
    /\ pc' = [pc EXCEPT ![p] = "run", ![np[p]] = "run"]
    /\ Forget(p)
    /\ UNCHANGED <<freelist, table, shm, shm_id, panic>>

\* exec() commits to the new image and frees the old one, the shared page with
\* it if that is still mapped; shm is not touched.
ExecDone(p) ==
    /\ Building(p) /\ pc[p] = "exec" /\ Built(p) = newsz[p]
    /\ pc' = [pc EXCEPT ![p] = "run"]
    /\ IF NullPresent(pgdir[p])
       THEN panic' = "kfree" /\ UNCHANGED <<freelist, pgdir, sz>>
       ELSE /\ freelist' = freevm(pgdir[p])
            /\ pgdir' = [pgdir EXCEPT ![p] = new[p]]
            /\ sz' = [sz EXCEPT ![p] = newsz[p]]
            /\ UNCHANGED panic
    /\ Forget(p)
    /\ UNCHANGED <<table, shm, shm_id>>

\* One process stays, as init does, to wait for the others.
Exit(p) ==
    /\ MayLeave(p)
    /\ \E q \in Procs \ {p} : pc[q] \in {"run", "fork", "exec"}
    /\ pc' = [pc EXCEPT ![p] = "zombie"]
    /\ UNCHANGED <<freelist, table, pgdir, sz, shm, shm_id, new, newsz, np, panic>>

\* wait() of the parent: freevm() of all pages, also those above sz; shm_id
\* stays as it is.
Wait(c) ==
    /\ pc[c] = "zombie" /\ \E q \in Procs : Running(q)
    /\ IF NullPresent(pgdir[c])
       THEN panic' = "kfree" /\ UNCHANGED <<freelist, pgdir, sz, shm, pc>>
       ELSE /\ freelist' = freevm(pgdir[c])
            /\ pgdir' = [pgdir EXCEPT ![c] = NoPages]
            /\ sz' = [sz EXCEPT ![c] = 0]
            /\ shm' = [shm EXCEPT ![c] = 0]
            /\ pc' = [pc EXCEPT ![c] = "unused"]
            /\ UNCHANGED panic
    /\ UNCHANGED <<table, shm_id, new, newsz, np>>

(***************************************************************************)
(* shared_mem.c                                                            *)
(***************************************************************************)
WithId(id) == {i \in Entries : table[i].id = id}
Unreferenced == {i \in Entries : table[i].refs = 0}


\* The first entry with the id, with references or not, or else the first
\* without references
find_shared_page(id) ==
    IF WithId(id) /= {} THEN Min(WithId(id))
    ELSE IF Unreferenced /= {} THEN Min(Unreferenced) ELSE 0

\* The result of kalloc() is not checked: the frame may be Null, and is
\* mapped all the same.
open_shared_mem(p, id) ==
    /\ Running(p) /\ shm[p] = 0
    /\ sz[p] < MaxPages
    /\ find_shared_page(id) /= 0
    /\ LET i == find_shared_page(id)
           fresh == table[i].refs = 0
           got == IF freelist = <<>> THEN Null ELSE Head(freelist)
           frame == IF fresh THEN got ELSE table[i].frame
       IN  IF pgdir[p][sz[p] + 1] /= Absent
           THEN panic' = "remap" /\ UNCHANGED <<freelist, table, pgdir, shm, shm_id>>
           ELSE /\ freelist' = IF fresh /\ freelist /= <<>> THEN Tail(freelist) ELSE freelist
                /\ table' = [table EXCEPT ![i] = [id |-> id, refs |-> @.refs + 1, frame |-> frame]]
                /\ pgdir' = [pgdir EXCEPT ![p][sz[p] + 1] = frame]
                /\ shm' = [shm EXCEPT ![p] = sz[p] + 1]
                /\ shm_id' = [shm_id EXCEPT ![p] = id]
                /\ UNCHANGED panic
    /\ UNCHANGED <<pc, sz, new, newsz, np>>

close_shared_mem(p, id) ==
    /\ Running(p) /\ shm[p] /= 0 /\ shm_id[p] = id
    /\ LET i == find_shared_page(id) IN
       /\ table' = [table EXCEPT ![i].refs = @ - 1]
       /\ \/ /\ table[i].refs = 1 /\ table[i].frame /= Null
             /\ freelist' = <<table[i].frame>> \o freelist
             /\ UNCHANGED panic
          \/ /\ table[i].refs = 1 /\ table[i].frame = Null
             /\ panic' = "kfree" /\ UNCHANGED freelist
          \/ /\ table[i].refs /= 1
             /\ UNCHANGED <<freelist, panic>>
    /\ pgdir' = [pgdir EXCEPT ![p][shm[p]] = Absent]
    /\ shm' = [shm EXCEPT ![p] = 0] /\ shm_id' = [shm_id EXCEPT ![p] = 0]
    /\ UNCHANGED <<pc, sz, new, newsz, np>>

Next ==
    \E p \in Procs :
        \/ Grow(p) \/ GrowFails(p) \/ Shrink(p) \/ Exit(p) \/ Wait(p)
        \/ BuildPage(p) \/ BuildFails(p) \/ ForkDone(p) \/ ExecDone(p)
        \/ \E c \in Procs : Fork(p, c)
        \/ \E n \in ExecSizes : Exec(p, n)
        \/ \E id \in Ids : open_shared_mem(p, id) \/ close_shared_mem(p, id)

Spec == Init /\ [][Next]_vars

(***************************************************************************)
(* Properties                                                              *)
(***************************************************************************)

Dirs == [Pages -> Frames \cup {Absent, Null}]

\* Page tables, sizes and the table of shared pages keep their types; no
\* reference count becomes negative.
TypeOK ==
    /\ freelist \in Seq(Frames)
    /\ table \in [Entries -> [id : Ids \cup {0}, refs : 0 .. Cardinality(Procs), frame : Frames \cup {Null}]]
    /\ pc \in [Procs -> {"unused", "run", "fork", "exec", "embryo", "zombie"}]
    /\ pgdir \in [Procs -> Dirs] /\ new \in [Procs -> Dirs]
    /\ sz \in [Procs -> 0 .. MaxPages] /\ newsz \in [Procs -> 0 .. MaxPages]
    /\ shm \in [Procs -> 0 .. MaxPages] /\ shm_id \in [Procs -> Ids \cup {0}]
    /\ np \in [Procs -> Procs]
    /\ panic \in {"no", "remap", "kfree"}

\* The pages of a process other than its shared one, and of the page table it
\* is building
Private(p) ==
    {<<"old", k>> : k \in {j \in Pages : pgdir[p][j] /= Absent /\ j /= shm[p]}}
    \cup {<<"new", k>> : k \in {j \in Pages : new[p][j] /= Absent}}

FrameOf(p, x) == IF x[1] = "old" THEN pgdir[p][x[2]] ELSE new[p][x[2]]

\* How often a frame is on the freelist, in an address space, or shared
Uses(f) ==
    Cardinality({n \in DOMAIN freelist : freelist[n] = f})
    + Cardinality({y \in UNION {{<<p, x>> : x \in Private(p)} : p \in Procs} : FrameOf(y[1], y[2]) = f})
    + Cardinality({i \in Entries : table[i].refs > 0 /\ table[i].frame = f})

\* Every frame is in exactly one place: free, a page of one process, or one
\* shared page.  None is lost or freed twice, on the paths where fork() and
\* exec() run out of memory halfway included.  A process has exactly the pages
\* below sz and its shared page, so fork() always finds the pages it copies
\* ("copyuvm: page not present").
FramesAccounted ==
    /\ TypeOK
    /\ panic = "no" => \A f \in Frames : Uses(f) = 1
    /\ \A p \in Procs, k \in Pages : pgdir[p][k] /= Absent <=> k <= sz[p] \/ k = shm[p]

\* A page that is free is mapped by nobody and is free once: kfree() is only
\* called for pages that kalloc() has given out.
FreedOnce ==
    /\ IsInjective(freelist)
    /\ \A p \in Procs, k \in Pages : pgdir[p][k] \notin ToSet(freelist)

=============================================================================
