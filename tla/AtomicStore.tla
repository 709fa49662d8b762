---------------------------- MODULE AtomicStore ----------------------------
(***************************************************************************)
(* What the pager promises the layers above it: a store of pages that      *)
(* changes by whole transactions.  A process that uses the store has a     *)
(* view of it; only one process at a time has a view that differs from     *)
(* the store, and committing installs that view in one step, while nobody  *)
(* else is looking.  Processes may die; the power may fail.                *)
(***************************************************************************)
EXTENDS Integers

CONSTANTS Proc, NoView, NoProc, Image   \* Image: the contents a store can have

VARIABLES
    store,    \* the committed content
    before,   \* what it was before the last commit
    view,     \* view[p]: what p would read now, NoView if it is not reading
    writer    \* the process with a write transaction, or NoProc

vars == <<store, before, view, writer>>

Init ==
    /\ store \in Image
    /\ before = store
    /\ view = [p \in Proc |-> NoView]
    /\ writer = NoProc

\* Starting to read, reading on, and stopping to read.
StartRead(p) ==
    /\ view[p] = NoView
    /\ view' = [view EXCEPT ![p] = store]
    /\ UNCHANGED <<store, before, writer>>

EndRead(p) ==
    /\ view' = [view EXCEPT ![p] = NoView]
    /\ writer' = IF writer = p THEN NoProc ELSE writer
    /\ UNCHANGED <<store, before>>

StartWrite(p) ==
    /\ writer = NoProc
    /\ view[p] # NoView
    /\ writer' = p
    /\ UNCHANGED <<store, before, view>>

\* Only the view of the writer changes, and nobody else sees it.
Write(p) ==
    /\ writer = p
    /\ view'[p] \in Image /\ view' = [view EXCEPT ![p] = view'[p]]
    /\ UNCHANGED <<store, before, writer>>

\* The writer's view becomes the store, all of it at once.
Commit(p) ==
    /\ writer = p
    /\ \A q \in Proc \ {p} : view[q] = NoView
    /\ store' = view[p]
    /\ before' = store
    /\ UNCHANGED <<view, writer>>

\* The transaction is over; the process reads on only what is committed.
EndWrite(p) ==
    /\ writer = p
    /\ view[p] = store
    /\ writer' = NoProc
    /\ UNCHANGED <<store, before, view>>

\* A power failure takes every process, and at most the last commit, with it.
PowerFail ==
    /\ store' \in {store, before}
    /\ before' = store'
    /\ view' = [p \in Proc |-> NoView]
    /\ writer' = NoProc

Next ==
    \/ \E p \in Proc : \/ StartRead(p) \/ EndRead(p) \/ StartWrite(p)
                       \/ Write(p) \/ Commit(p) \/ EndWrite(p)
    \/ PowerFail

Spec == Init /\ [][Next]_vars
=============================================================================
