----------------------------- MODULE BlockStore -----------------------------
(***************************************************************************)
(* What the buffer cache promises its callers: a process has a block to    *)
(* itself from bread() to brelse(), and the content it finds there is what *)
(* was last put there.  Nothing is promised of a block once a read of it   *)
(* has failed: it is damaged.                                              *)
(***************************************************************************)
EXTENDS Naturals

CONSTANTS Procs, Blocks, Val, NoProc, Damage

VARIABLES content, holder, damaged

storeVars == <<content, holder, damaged>>

Init ==
    /\ content \in [Blocks -> Val]
    /\ holder = [k \in Blocks |-> NoProc]
    /\ damaged = {}

Take(p, k) ==
    /\ holder[k] = NoProc
    /\ holder' = [holder EXCEPT ![k] = p]
    /\ UNCHANGED <<content, damaged>>

Write(p, k, v) ==
    /\ holder[k] = p /\ k \notin damaged
    /\ content' = [content EXCEPT ![k] = v]
    /\ UNCHANGED <<holder, damaged>>

Give(p, k) ==
    /\ holder[k] = p
    /\ holder' = [holder EXCEPT ![k] = NoProc]
    /\ UNCHANGED <<content, damaged>>

ReadFails(k) ==
    /\ holder[k] /= NoProc
    /\ content' = [content EXCEPT ![k] = Damage]
    /\ damaged' = damaged \cup {k}
    /\ UNCHANGED holder

Next ==
    \E k \in Blocks :
        \/ \E p \in Procs : Take(p, k) \/ Give(p, k) \/ \E v \in Val : Write(p, k, v)
        \/ ReadFails(k)

Spec == Init /\ [][Next]_storeVars
=============================================================================
