------------------------------ MODULE MCFiles -------------------------------
(***************************************************************************)
(* Files for TLC: messages that fit in the pipe and that do not, and       *)
(* interchangeable processes.                                              *)
(***************************************************************************)
EXTENDS Files

MCMsgs == {<<0>>, <<1, 0, 1>>}
MCSymmetry == Permutations(Procs)
=============================================================================
