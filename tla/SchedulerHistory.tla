-------------------------- MODULE SchedulerHistory --------------------------
(***************************************************************************)
(* Scheduler with a history of the round-robin dispatches:                 *)
(* passed[c][s] is the set of processes CPU c has dispatched since s       *)
(* started to wait in RR.                                                  *)
(***************************************************************************)
EXTENDS MCScheduler

VARIABLE passed

HistoryInit == Init /\ passed = [c \in CPUs |-> [s \in Slots |-> {}]]

Dispatched(c) == IF proc[c] = None /\ proc'[c] /= None THEN {proc'[c]} ELSE {}

HistoryNext ==
    /\ Next
    /\ passed' = [c \in CPUs |-> [s \in Slots |->
                    IF s \in Runnable(RR) /\ s \in Runnable(RR)'
                    THEN passed[c][s] \cup Dispatched(c) ELSE {}]]

HistorySpec ==
    /\ HistoryInit /\ [][HistoryNext]_<<vars, passed>>
    /\ Fairness

\* Round robin on one CPU: while a process waits in RR, scheduler() of that
\* CPU dispatches no other process twice, although each CPU goes round the
\* table on its own and processes enter and leave RR meanwhile.
NoOvertaking ==
    [][\A c \in CPUs, s \in Slots :
         s \in Runnable(RR) => Dispatched(c) \cap passed[c][s] = {}]_<<vars, passed>>
=============================================================================
