---------------------------- MODULE MCScheduler -----------------------------
(***************************************************************************)
(* Scheduler for TLC.                                                      *)
(***************************************************************************)
EXTENDS Scheduler

\* two processes that arrived in the same tick and one that arrived later
MCArrival == [s \in Slots |-> IF s = NPROC - 1 THEN 1 ELSE 0]
=============================================================================
