------------------------------- MODULE Malloc -------------------------------
(***************************************************************************)
(* The user-level allocator of umalloc.c: free(), morecore(), malloc() on  *)
(* a circular list of free blocks in the order of their addresses.         *)
(*                                                                         *)
(* Addresses count headers.  Address 0 is the static header base; the heap *)
(* begins at HEAP, above it, and brk is its end.                           *)
(***************************************************************************)
EXTENDS Integers, FiniteSetsExt, Functions, TLC

CONSTANTS
    HDR,          \* sizeof(Header) in bytes
    HEAP, LIMIT,  \* sbrk() gives memory between them, and fails beyond
    NALLOC,       \* the least that morecore() asks for (4096)
    Requests      \* arguments of malloc(), in bytes

VARIABLE heap     \* nxt: s.ptr of the free headers; size: s.size of every
                  \* header; freep; brk; live: what each block in use was
                  \* asked for; foreign: units that others got from sbrk()

NULL == -1
base == 0

Init == heap = [nxt |-> base :> base, size |-> base :> 0, freep |-> NULL, brk |-> HEAP,
                live |-> [b \in {} |-> 0], foreign |-> {}]

-----------------------------------------------------------------------------
(* The place p of the list that bp comes after: between two of its blocks, *)
(* or beyond either end of the heap                                        *)
RECURSIVE Place(_, _, _)
Place(h, p, bp) ==
    LET q == h.nxt[p] IN
    IF (bp > p /\ bp < q) \/ (p >= q /\ (bp > p \/ bp < q)) THEN p ELSE Place(h, q, bp)

\* Mutant: the block is not joined with the one below it
freeUpper(h, bp) ==
    LET p == Place(h, h.freep, bp)
        q == h.nxt[p]
        upper == bp + h.size[bp] = q
        kept == DOMAIN h.nxt \ (IF upper THEN {q} ELSE {})
    IN [h EXCEPT !.nxt = [b \in kept \cup {bp} |->
                              CASE b = bp -> IF upper THEN h.nxt[q] ELSE q
                                [] b = p -> bp
                                [] OTHER -> h.nxt[b]],
                 !.size[bp] = IF upper THEN @ + h.size[q] ELSE @, !.freep = p]

\* free(): bp is joined with the block above it, then with the one below it
free(h, bp) ==
    LET p == Place(h, h.freep, bp)
        q == h.nxt[p]
        upper == bp + h.size[bp] = q
        lower == p + h.size[p] = bp
        after == IF upper THEN h.nxt[q] ELSE q
        units == IF upper THEN h.size[bp] + h.size[q] ELSE h.size[bp]
        list == (DOMAIN h.nxt \ (IF upper THEN {q} ELSE {})) \cup (IF lower THEN {} ELSE {bp})
    IN [h EXCEPT !.nxt = [b \in list |-> CASE b = bp -> after
                                           [] b = p -> IF lower THEN after ELSE bp
                                           [] OTHER -> h.nxt[b]],
                 !.size[IF lower THEN p ELSE bp] = IF lower THEN h.size[p] + units ELSE units,
                 !.freep = p]

\* sbrk() moves brk if there is memory, and the new memory becomes a block
\* that is freed; the heap stays as it is if there is none
morecore(h, nunits) ==
    LET nu == IF nunits < NALLOC THEN NALLOC ELSE nunits IN
    IF h.brk + nu > LIMIT THEN h
    ELSE free([h EXCEPT !.size = (h.brk :> nu) @@ @, !.brk = @ + nu], h.brk)

\* Block p, or its upper part, is taken out of the list
Taken(h, prevp, p, nunits, nbytes) ==
    LET left == h.size[p] - nunits IN
    IF left = 0
    THEN [h EXCEPT !.nxt = [b \in DOMAIN @ \ {p} |-> IF b = prevp THEN @[p] ELSE @[b]],
                   !.freep = prevp, !.live = (p :> nbytes) @@ @]
    ELSE [h EXCEPT !.size = ((p + left) :> nunits) @@ [@ EXCEPT ![p] = left],
                   !.freep = prevp, !.live = ((p + left) :> nbytes) @@ @]

RECURSIVE Search(_, _, _, _, _)
Search(h, prevp, p, nunits, nbytes) ==
    IF h.size[p] >= nunits THEN Taken(h, prevp, p, nunits, nbytes)
    ELSE IF p # h.freep THEN Search(h, p, h.nxt[p], nunits, nbytes)
    ELSE LET more == morecore(h, nunits) IN
         IF more = h THEN h ELSE Search(more, more.freep, more.nxt[more.freep], nunits, nbytes)

-----------------------------------------------------------------------------
\* The sizes that were written into what is no header any more are forgotten
Done(h) == heap' = [h EXCEPT !.size = Restrict(@, DOMAIN h.nxt \cup DOMAIN h.live)]

malloc(nbytes) ==
    LET h == IF heap.freep = NULL THEN [heap EXCEPT !.freep = base] ELSE heap
        nunits == ((nbytes + HDR - 1) \div HDR) + 1
    IN Done(Search(h, h.freep, h.nxt[h.freep], nunits, nbytes))

Free ==
    \E bp \in DOMAIN heap.live :
        Done(free([heap EXCEPT !.live = Restrict(@, DOMAIN @ \ {bp})], bp))

\* The program calls sbrk() itself
sbrk ==
    /\ heap.brk < LIMIT
    /\ heap' = [heap EXCEPT !.brk = @ + 1, !.foreign = @ \cup {heap.brk}]

Next == (\E nbytes \in Requests : malloc(nbytes)) \/ Free \/ sbrk

-----------------------------------------------------------------------------
Units(b) == b .. b + heap.size[b] - 1

FreeBlocks == DOMAIN heap.nxt \ {base}

(***************************************************************************)
(* Every unit of the heap is in exactly one free block, block in use or    *)
(* part that the program got from sbrk() itself; a block in use has room   *)
(* for what malloc() was asked for besides its header.                     *)
(***************************************************************************)
HeapTiled ==
    LET blocks == FreeBlocks \cup DOMAIN heap.live IN
    /\ HEAP .. heap.brk - 1 = heap.foreign \cup UNION {Units(b) : b \in blocks}
    /\ heap.brk - HEAP = Cardinality(heap.foreign) + MapThenSumSet(LAMBDA b : heap.size[b], blocks)
    /\ \A b \in DOMAIN heap.live : (heap.size[b] - 1) * HDR >= heap.live[b]

(***************************************************************************)
(* The free list is one circle in the order of addresses in which no block *)
(* touches the next: free() joins whatever can be joined, so that memory   *)
(* that was freed can be used for larger requests.                         *)
(***************************************************************************)
Coalesced ==
    \A b \in DOMAIN heap.nxt :
        LET above == {c \in DOMAIN heap.nxt : c > b} IN
        /\ heap.nxt[b] = IF above = {} THEN base ELSE Min(above)
        /\ b + heap.size[b] \notin FreeBlocks

=============================================================================
