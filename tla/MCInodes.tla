------------------------------ MODULE MCInodes ------------------------------
(***************************************************************************)
(* Instances of Inodes for TLC.                                            *)
(***************************************************************************)
EXTENDS Inodes, TLC

Path(abs, names) == [abs |-> abs, names |-> names]

MCPaths == {Path(TRUE, <<"a">>), Path(TRUE, <<"a", "b">>), Path(FALSE, <<"b">>)}

Dir(nlink, parent, a, b) ==
    [type |-> "dir", nlink |-> nlink, ents |-> ("a" :> a @@ "b" :> b @@ ".." :> parent)]
File(nlink) == [type |-> "file", nlink |-> nlink, ents |-> NoEntries]
Free == [type |-> "free", nlink |-> 0, ents |-> NoEntries]

\* An empty root; a file with two names; a directory, empty and with a file
\* in it
Full == <<Dir(2, 1, 2, 0), Dir(1, 1, 0, 3), File(1)>>
MCTrees == {<<Dir(1, 1, 0, 0), Free, Free>>, <<Dir(1, 1, 2, 2), File(2), Free>>,
            <<Dir(2, 1, 2, 0), Dir(1, 1, 0, 0), Free>>, Full}

\* No file is open at first in the tree with the most inodes
MCInit == Init /\ (disk = Full => \A p \in Procs : fd[p] = None)
MCSpec == MCInit /\ [][Next]_vars

Symmetry == Permutations(Procs)

=============================================================================
