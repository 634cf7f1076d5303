------------------------------- MODULE Parts --------------------------------
(***************************************************************************)
(* The parts of the system that stand alone, for model checking: a         *)
(* behaviour is one of the part it begins with.                            *)
(***************************************************************************)
EXTENDS Integers, Sequences

CONSTANTS
    Active,                          \* the parts that are checked
    BSIZE, NDIRECT, FSSIZE, Files,   \* of FileData
    Sizes,                           \* how much mkfs puts into a file
    LIMIT, Requests,                 \* of Malloc
    MAXARGS,                         \* of Shell
    MaxCount, MaxExecs,              \* of Syscalls
    INPUT_BUF, MaxLines              \* of Console

VARIABLES
    part,
    fs, heap, sh, k,          \* of FileData, Malloc, Shell and Syscalls
    input, hist, rd, lines    \* of Console

console == <<input, hist, rd, lines>>
vars == <<part, fs, heap, sh, k, console>>

symbols == {"<", "|", ">", "&", ";", "(", ")"}

\* All short lines, and longer ones of fewer characters
TypedLines ==
    UNION {[1 .. n -> symbols \cup {" ", "a"}] : n \in 0 .. 4}
    \cup [1 .. 5 -> symbols \cup {"a"}] \cup [1 .. 7 -> {"a", "|", "(", ")", ";"}]

File == INSTANCE FileData WITH
    nmeta <- 1, UINT <- 8, Sources <- {<<>>, <<1>>, <<0, 1, 1>>},
    Images <- {[f \in Files |-> [i \in 1 .. (IF f = 1 THEN 0 ELSE n) |-> 1]] : n \in Sizes}
Heap == INSTANCE Malloc WITH HDR <- 2, HEAP <- 2, NALLOC <- 3
Line == INSTANCE Shell WITH NOFILE <- 6, Lines <- TypedLines
Call == INSTANCE Syscalls WITH CPUs <- {0, 1}, UINT <- 3, Naps <- {2},
    Calls <- [c \in {0, 1} |-> IF c = 0 THEN {"uptime"} ELSE {"sleep", "exec"}]
Cons == INSTANCE Console WITH
    Printable <- {"x", "y"}, Marker <- "y", MAX_HISTORY <- 2, USHORT <- 65536,
    ROWS <- 3, COLS <- 1, Readers <- {1}, ReadSizes <- {2}

Init ==
    /\ part \in Active
    /\ IF part = "files" THEN File!Init ELSE fs = <<>>
    /\ IF part = "malloc" THEN Heap!Init ELSE heap = <<>>
    /\ IF part = "shell" THEN Line!Init ELSE sh = <<>>
    /\ IF part = "calls" THEN Call!Init ELSE k = <<>>
    /\ IF part = "console" THEN Cons!Init ELSE input = <<>> /\ hist = <<>> /\ rd = <<>> /\ lines = 0

Next ==
    /\ UNCHANGED part
    /\ \/ part = "files" /\ File!Next /\ UNCHANGED <<heap, sh, k, console>>
       \/ part = "malloc" /\ Heap!Next /\ UNCHANGED <<fs, sh, k, console>>
       \/ part = "shell" /\ Line!Next /\ UNCHANGED <<fs, heap, k, console>>
       \/ part = "calls" /\ Call!Next /\ UNCHANGED <<fs, heap, sh, console>>
       \/ part = "console" /\ Cons!Next /\ UNCHANGED <<fs, heap, sh, k>>

Spec == Init /\ [][Next]_vars

-----------------------------------------------------------------------------
(***************************************************************************)
(* FileData: balloc() and bfree() lose no block and share none, every one  *)
(* that is in use belongs to one place of one file.                        *)
(***************************************************************************)
BlocksExact == part = "files" => File!BlocksExact

(***************************************************************************)
(* FileData: readi() returns the bytes of the file that were asked for, as *)
(* many as there are, refuses what overflows, and allocates nothing.       *)
(***************************************************************************)
ReadsExact == part = "files" => File!ReadsExact


(***************************************************************************)
(* FileData: "Must be called after every change to an ip->xxx field that   *)
(* lives on disk, since i-node cache is write-through" (iupdate, fs.c).    *)
(***************************************************************************)
WriteThrough == part = "files" => File!WriteThrough

(***************************************************************************)
(* Malloc: blocks in use, free blocks and what the program got from sbrk() *)
(* tile the heap, a block in use is as large as malloc() was asked for,    *)
(* and free() leaves no two free blocks that touch.                        *)
(***************************************************************************)
HeapTiled == part = "malloc" => Heap!HeapTiled /\ Heap!Coalesced

(***************************************************************************)
(* Shell: parsecmd() accepts the lines of the grammar and no other, and    *)
(* gives the command that they are by precedence.                          *)
(***************************************************************************)
ParsesGrammar == part = "shell" => Line!ParsesGrammar


(***************************************************************************)
(* Syscalls: no CPU waits for the spin lock it holds, acquire(), release() *)
(* and popcli() never panic, and interrupts are on in user mode.           *)
(***************************************************************************)
LocksSafe == part = "calls" => Call!LocksSafe

(***************************************************************************)
(* Syscalls: the CPUs' own counters of syscall() are exact, and the shared *)
(* one never counts too much, unless exec() resets them in an increment.   *)
(***************************************************************************)
CountsExact == part = "calls" => Call!CountsExact

(***************************************************************************)
(* Syscalls: sys_sleep() returns 0 only after as many ticks as it was      *)
(* asked for, also when ticks wraps.                                       *)
(***************************************************************************)
SleptEnough == part = "calls" => Call!SleptEnough

(***************************************************************************)
(* Console: the cursor stays on the screen, and cgaputc() panics only when *)
(* the cursor is sent to the end of the line over more than a row of text. *)
(***************************************************************************)
CursorOnScreen == [][part = "console" => Cons!CursorMoves]_vars


(***************************************************************************)
(* Console implements LineEditor: keys edit the line at the cursor, an end *)
(* of line enters it, and consoleread() takes what was entered in order.   *)
(***************************************************************************)
IsLineEditor ==
    [][part = "console" => Cons!Editor!Next \/ UNCHANGED Cons!View]_vars


=============================================================================
