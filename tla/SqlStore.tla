------------------------------ MODULE SqlStore ------------------------------
(***************************************************************************)
(* What SQL transactions promise to connections that share one database:   *)
(* a set of committed rows and a set of working rows that only one          *)
(* connection at a time, the owner, may change.  A statement adds rows, a   *)
(* commit makes the working rows the committed ones, a rollback forgets     *)
(* them.  A statement that fails changes nothing, and nothing but a         *)
(* rollback of the owner takes a row of a finished statement away.          *)
(***************************************************************************)
CONSTANTS Conn, NoConn, Row   \* NoConn: none of Conn

VARIABLES committed, working, owner
storeVars == <<committed, working, owner>>

Init ==
    /\ committed = {} /\ working = {}
    /\ owner = NoConn

Execute(c) ==
    /\ owner \in {NoConn, c}
    /\ owner' = c
    /\ working \subseteq working' /\ working' \subseteq Row
    /\ UNCHANGED committed

\* The commit of a transaction; in autocommit mode the statement's own rows
\* are added by the same step.
Commit(c) ==
    /\ owner = c
    /\ owner' = NoConn
    /\ working \subseteq working' /\ working' \subseteq Row
    /\ committed' = working'

Rollback(c) ==
    /\ owner = c
    /\ owner' = NoConn
    /\ working' = committed
    /\ UNCHANGED committed

Next == \E c \in Conn : Execute(c) \/ Commit(c) \/ Rollback(c)

Spec == Init /\ [][Next]_storeVars
=============================================================================
