------------------------------ MODULE MCMemory ------------------------------
\* Memory for TLC: frames and processes are interchangeable.
EXTENDS Memory

MCSymmetry == Permutations(Procs) \cup Permutations(Frames)
=============================================================================
