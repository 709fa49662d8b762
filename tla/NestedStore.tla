---------------------------- MODULE NestedStore ----------------------------
(***************************************************************************)
(* What the pager promises its only user about one write transaction: the  *)
(* pages are changed one at a time, a statement inside the transaction may *)
(* be undone as a whole, and the transaction is committed or undone as a   *)
(* whole, by a crash too.  Pages on the free list have no content; pages   *)
(* past the end of the file are not there.                                 *)
(***************************************************************************)
EXTENDS Integers

CONSTANTS Page,
          Unused, Missing,  \* contents of a page on the free list, past the end
          NoMark            \* there is no statement

VARIABLES
    saved,  \* what a crash would leave
    now,    \* what a reader of the pages would get
    mark,   \* what they contained when the statement began
    open    \* is there a write transaction?

vars == <<saved, now, mark, open>>

Init ==
    /\ now = saved
    /\ mark = NoMark /\ open = FALSE

Begin == ~open /\ open' = TRUE /\ UNCHANGED <<mark, saved, now>>

BeginStmt == open /\ mark = NoMark /\ mark' = now /\ UNCHANGED <<open, saved, now>>

Change(g) ==
    /\ open
    /\ \A h \in Page \ {g} : now'[h] = now[h]
    /\ UNCHANGED <<open, mark, saved>>

\* A page takes the place of an unused one.
Move(g, h) ==
    /\ open /\ now[h] = Unused
    /\ now' = [now EXCEPT ![h] = now[g], ![g] = Unused]
    /\ UNCHANGED <<open, mark, saved>>

\* Unused pages at the end go.
Truncate(n) ==
    /\ open /\ mark = NoMark
    /\ \A g \in Page : g > n => now[g] \in {Unused, Missing}
    /\ now' = [g \in Page |-> IF g > n THEN Missing ELSE now[g]]
    /\ UNCHANGED <<open, mark, saved>>

CommitStmt == mark # NoMark /\ mark' = NoMark /\ UNCHANGED <<open, saved, now>>
RollbackStmt ==
    mark # NoMark /\ mark' = NoMark /\ open' /\ now' = mark /\ UNCHANGED saved

Commit == open /\ ~open' /\ mark = NoMark /\ mark' = NoMark /\ saved' = now /\ UNCHANGED now
Rollback == open /\ ~open' /\ mark' = NoMark /\ now' = saved /\ UNCHANGED saved

Next ==
    \/ Begin \/ BeginStmt \/ CommitStmt \/ RollbackStmt \/ Commit \/ Rollback
    \/ \E g \in Page : Change(g)
    \/ \E g, h \in Page : Move(g, h)
    \/ \E n \in Page : Truncate(n)

Spec == Init /\ [][Next]_vars
=============================================================================
