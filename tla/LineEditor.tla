----------------------------- MODULE LineEditor -----------------------------
(***************************************************************************)
(* What the console promises: a line that is edited at a cursor, a queue   *)
(* of the input that was entered and not read yet, and the last lines      *)
(* entered.                                                                *)
(***************************************************************************)
EXTENDS Integers, SequencesExt

CONSTANTS Chars,   \* what a line is made of
          Ends,    \* what ends a line
          SIZE,    \* how much the queue and the line have room for
          MAX      \* how many lines are remembered

VARIABLES queue, line, cursor, hist

vars == <<queue, line, cursor, hist>>

Init == queue = <<>> /\ line = <<>> /\ cursor = 0 /\ hist = <<>>

Room == Len(queue) + Len(line) < SIZE

Type == \E c \in Chars :
    /\ cursor' = cursor + 1 /\ Room
    /\ line' = SubSeq(line, 1, cursor) \o <<c>> \o SubSeq(line, cursor + 1, Len(line))
    /\ UNCHANGED <<queue, hist>>

Erase ==
    /\ cursor > 0 /\ cursor' = cursor - 1
    /\ line' = RemoveAt(line, cursor)
    /\ UNCHANGED <<queue, hist>>

Move == cursor' \in 0 .. Len(line) /\ UNCHANGED <<line, queue, hist>>

\* The line is taken away, or one that was entered before comes back in its
\* place, whether there is room for it or not
Replace ==
    /\ cursor' = Len(line') /\ line' \in [1 .. cursor' -> Chars]
    /\ UNCHANGED <<queue, hist>>

\* The text is entered, and remembered unless it is empty
Entered(text, c) ==
    /\ queue' = queue \o text \o <<c>> /\ line' = <<>>
    /\ hist' = IF text = <<>> THEN hist
               ELSE (IF Len(hist) = MAX THEN Tail(hist) ELSE hist) \o <<text>>

\* With the cursor inside the line only its length is sure to be entered
Enter ==
    /\ cursor' = 0 /\ Room /\ Len(queue') = Len(queue) + Len(line) + 1
    /\ \E c \in Ends, text \in [1 .. Len(line) -> Chars] :
          (cursor = Len(line) => text = line) /\ Entered(text, c)

Read ==
    /\ cursor' = cursor /\ Len(queue') < Len(queue)
    /\ queue' = SubSeq(queue, Len(queue) - Len(queue') + 1, Len(queue))
    /\ UNCHANGED <<line, hist>>

Clear == cursor' = 0 /\ line' = <<>> /\ queue' = <<>> /\ UNCHANGED hist

\* Queue and line do not fit together: the one is written over the other
Overrun ==
    /\ Len(queue) + Len(line') > SIZE \/ Len(queue) + Len(line) > SIZE
    /\ Len(queue') = Len(queue) /\ cursor' \in 0 .. Len(line') /\ UNCHANGED hist

Next == \/ Type \/ Erase \/ Move \/ Replace \/ Enter \/ Read \/ Clear \/ Overrun

Spec == Init /\ [][Next]_vars

=============================================================================
