----------------------------- MODULE AtomicFiles -----------------------------
(***************************************************************************)
(* What a transaction over several database files promises: it is in all   *)
(* of its files or in none of them.  The content of a file is the set of   *)
(* the transactions that committed to it.                                  *)
(***************************************************************************)
EXTENDS Naturals, FiniteSets

CONSTANTS File, Txn

VARIABLES
    store,   \* store[f]: the transactions that file f contains
    span,    \* span[t]: the files transaction t writes
    active   \* the transactions that may still commit

vars == <<store, span, active>>

Init ==
    /\ store = [f \in File |-> {}]
    /\ span = [t \in Txn |-> {}]
    /\ active = {}

\* A transaction asks to commit what it wrote: the first time it appears,
\* and no other transaction may still commit to the same files.
Prepare(t, fs) ==
    /\ span[t] = {} /\ fs # {}
    /\ \A u \in active : fs \cap span[u] = {}
    /\ span' = [span EXCEPT ![t] = fs]
    /\ active' = active \cup {t}
    /\ UNCHANGED store

Commit(t) ==
    /\ t \in active /\ \A g \in File : t \notin store[g]
    /\ store' = [f \in File |-> IF f \in span[t] THEN store[f] \cup {t} ELSE store[f]]
    /\ active' = active \ {t}
    /\ UNCHANGED span

Abandon(t) ==
    /\ t \in active
    /\ active' = active \ {t}
    /\ UNCHANGED <<store, span>>

\* What the disk had not seen yet is lost: whole transactions, at most the
\* last one of each file.
PowerFail ==
    \E lost \in SUBSET Txn :
        /\ \A f \in File : \A t \in lost \cap store[f] : \A u \in store[f] : u <= t
        /\ store' = [f \in File |-> store[f] \ lost]
        /\ active' = {}
        /\ UNCHANGED span

Next == (\E t \in Txn : (\E fs \in SUBSET File : Prepare(t, fs)) \/ Commit(t) \/ Abandon(t)) \/ PowerFail

Spec == Init /\ [][Next]_vars
=============================================================================
