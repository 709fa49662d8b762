------------------------------ MODULE FileLock ------------------------------
(***************************************************************************)
(* What the locking layer of SQLite promises its caller, the pager: every  *)
(* open handle on the database file is at one of five levels, the levels   *)
(* of different handles restrict each other whatever processes the handles *)
(* live in, and every change of level is atomic.  os_unix.c implements     *)
(* this on top of the kernel's per-process locks (module UnixLock),        *)
(* os_win.c on top of locks of single handles (module WinLock).            *)
(***************************************************************************)
EXTENDS Integers

CONSTANTS Proc, Handle, ProcOf

NO_LOCK == 0
SHARED_LOCK == 1
RESERVED_LOCK == 2
PENDING_LOCK == 3
EXCLUSIVE_LOCK == 4
LockType == NO_LOCK .. EXCLUSIVE_LOCK

VARIABLES
    level,     \* level[h]: the lock handle h has
    reserved   \* the handles that went through RESERVED on their way up

vars == <<level, reserved>>

TypeOK ==
    /\ level \in [Handle -> LockType]
    /\ reserved \in SUBSET Handle

Init ==
    /\ level = [h \in Handle |-> NO_LOCK]
    /\ reserved = {}

Set(h, t) == level' = [level EXCEPT ![h] = t]

\* A new reader is let in unless a writer is waiting or writing.  A process
\* that already reads lets its other handles in even while a writer waits.
GetShared(h) ==
    /\ level[h] = NO_LOCK
    /\ \A g \in Handle : level[g] >= PENDING_LOCK =>
           /\ ProcOf[g] # ProcOf[h]
           /\ \E k \in Handle : /\ ProcOf[k] = ProcOf[h]
                                /\ level[k] \in {SHARED_LOCK, RESERVED_LOCK}
    /\ Set(h, SHARED_LOCK)
    /\ UNCHANGED reserved

\* Only one handle plans to write.
GetReserved(h) ==
    /\ level[h] = SHARED_LOCK
    /\ reserved = {}
    /\ Set(h, RESERVED_LOCK)
    /\ reserved' = {h}

\* On the way to EXCLUSIVE.  The handle need not have had RESERVED.
GetPending(h) ==
    /\ level[h] \in {SHARED_LOCK, RESERVED_LOCK}
    /\ \A g \in Handle : level[g] < PENDING_LOCK
    /\ Set(h, PENDING_LOCK)
    /\ UNCHANGED reserved

Alone(h) == \A g \in Handle \ {h} : level[g] = NO_LOCK

GetExclusive(h) ==
    /\ level[h] = PENDING_LOCK
    /\ Alone(h)
    /\ Set(h, EXCLUSIVE_LOCK)
    /\ UNCHANGED reserved

Release(h, t) ==
    /\ t \in {NO_LOCK, SHARED_LOCK}
    /\ t < level[h]
    /\ Set(h, t)
    /\ reserved' = reserved \ {h}

\* The handles of a process all lose their locks when it dies.
Die(p) ==
    /\ level' = [h \in Handle |-> IF ProcOf[h] = p THEN NO_LOCK ELSE level[h]]
    /\ reserved' = {h \in reserved : ProcOf[h] # p}

Next ==
    \/ \E h \in Handle : \/ GetShared(h) \/ GetReserved(h)
                         \/ GetPending(h) \/ GetExclusive(h)
                         \/ \E t \in {NO_LOCK, SHARED_LOCK} : Release(h, t)
    \/ \E p \in Proc : Die(p)

Spec == Init /\ [][Next]_vars

-----------------------------------------------------------------------------
\* A handle that holds EXCLUSIVE is alone, at most one handle is at PENDING or
\* above, and at most one went through RESERVED: two connections can never
\* both write the database file, and nobody reads it while it is written.
Exclusion ==
    \A g, h \in Handle : g # h =>
        /\ level[g] = EXCLUSIVE_LOCK => level[h] = NO_LOCK
        /\ ~(level[g] >= PENDING_LOCK /\ level[h] >= PENDING_LOCK)
        /\ ~(g \in reserved /\ h \in reserved)
        /\ ~(level[g] = RESERVED_LOCK /\ level[h] = RESERVED_LOCK)
=============================================================================
