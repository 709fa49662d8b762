---------------------------- MODULE MCConnection ----------------------------
(* Two connections that share a cache; the first has two statements. *)
EXTENDS Connection, TLC

CONSTANTS c1, c2, s1, s2, s3, t1, t2, master
ThreeStatements == [s \in {s1, s2, s3} |-> IF s = s3 THEN c2 ELSE c1]
Symmetric == Permutations({s1, s2})
=============================================================================
