----------------------------- MODULE FlatFiles ------------------------------
(***************************************************************************)
(* What the disk layout promises: a file is a sequence of bytes of bounded *)
(* length, written in place or at its end, made like another one, and      *)
(* emptied when it is freed.                                               *)
(***************************************************************************)
EXTENDS Integers, Sequences

CONSTANTS Files, MAXSIZE, Sources

VARIABLE content

\* The file c with the bytes src from offset off on
Overlay(c, off, src) ==
    [i \in 1 .. (IF off + Len(src) > Len(c) THEN off + Len(src) ELSE Len(c)) |->
        IF i > off /\ i <= off + Len(src) THEN src[i - off] ELSE c[i]]

Write(f, off, src) ==
    /\ off <= Len(content[f]) /\ off + Len(src) <= MAXSIZE
    /\ content' = [content EXCEPT ![f] = Overlay(@, off, src)]

Free(f) == content' = [content EXCEPT ![f] = <<>>]

Copy(f, g) == content' = [content EXCEPT ![g] = content[f]]

Next == \E f \in Files : Free(f) \/ (\E g \in Files : Copy(f, g)) \/ \E off \in 0 .. MAXSIZE, src \in Sources : Write(f, off, src)

Init == \A f \in Files : content[f] \in Seq(Nat) /\ Len(content[f]) <= MAXSIZE

Spec == Init /\ [][Next]_content

=============================================================================
