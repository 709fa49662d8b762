-------------------------- MODULE MCMultiFileCommit --------------------------
(* Instances of MultiFileCommit for TLC. *)
EXTENDS MultiFileCommit, TLC

CONSTANTS p1, p2, f1, f2, f3, m1, m2, m3
Symmetric == Permutations(Proc) \cup Permutations(File) \cup Permutations(Master)

\* States that differ only in a file or a master journal that the next step
\* of a process does not use are the same.
About(p) == IF pc[p] \in {"idle", "busy", "rollback", "master", "sync", "directory", "finish",
                          "delmaster", "children"} THEN NoFile ELSE cur[p]
Follows(p) == IF pc[p] \in {"idle", "busy", "rollback", "playback"} THEN NoMaster ELSE zMaster[p]
Visible == <<level, files, journals, masters, own, pc, todo, rolling, history,
             [p \in Proc |-> <<About(p), Follows(p)>>]>>
=============================================================================
