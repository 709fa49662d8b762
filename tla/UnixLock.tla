------------------------------ MODULE UnixLock ------------------------------
(***************************************************************************)
(* The database-file locks of SQLite 3.3.4 on POSIX systems (os_unix.c).   *)
(*                                                                         *)
(* One database file (one inode) is open through several OsFile handles in *)
(* several processes.  The kernel keeps byte-range locks PER PROCESS, so   *)
(* the library multiplexes the handles of a process over them: a lockInfo  *)
(* records the strongest lock of the process and counts its SHARED         *)
(* holders, an openCnt defers the close() of a descriptor while the        *)
(* process holds locks, because closing any descriptor of a file drops all *)
(* locks the process has on it.                                            *)
(*                                                                         *)
(* Granularity: every fcntl() is a step of its own, other processes run    *)
(* between two of them; inside a process the code between entering and     *)
(* leaving the library mutex is exclusive, so the purely local code runs   *)
(* with the system call next to it.                                        *)
(*                                                                         *)
(* The build modelled is one in which the threads of a process share its   *)
(* kernel locks (threadsOverrideEachOthersLocks # 0, or no                 *)
(* SQLITE_UNIX_THREADS): transferOwnership() and CHECK_THREADID are then   *)
(* no-ops and a process has one lockInfo for the file.                     *)
(***************************************************************************)
EXTENDS Integers, FiniteSets

CONSTANTS Proc,         \* processes that use the database file
          Handle,       \* the OsFile objects that may be opened on it
          ProcOf,       \* the process each handle lives in
          NoHandle,     \* "no one holds the mutex"
          OpenFails,    \* processes in which opening the file may run out of memory
          DeferFails,   \* may unixClose() run out of memory?
          MaxDeferred   \* bound: deferred close() calls per process

ASSUME ProcOfAssumption == ProcOf \in [Handle -> Proc]
ASSUME HandleAssumption == IsFiniteSet(Handle) /\ NoHandle \notin Handle
ASSUME MallocAssumption ==
    OpenFails \subseteq Proc /\ DeferFails \in BOOLEAN
ASSUME DeferredAssumption == MaxDeferred \in Nat

NO_LOCK == 0
SHARED_LOCK == 1
RESERVED_LOCK == 2
PENDING_LOCK == 3
EXCLUSIVE_LOCK == 4
LockType == NO_LOCK .. EXCLUSIVE_LOCK

VARIABLES
    pendingByte,   \* the kernel's lock of each process on PENDING_BYTE,
    reservedByte,  \*   on RESERVED_BYTE
    sharedRange,   \*   and on the SHARED_SIZE bytes from SHARED_FIRST on
    mutex,     \* mutex[p]: the handle whose thread is inside the mutex of p
    cnt,       \* lockInfo.cnt of each process
    procLock,  \* lockInfo.locktype
    infoRef,   \* lockInfo.nRef
    openRef,   \* openCnt.nRef of each process
    nLock,     \* openCnt.nLock
    nPending,  \* openCnt.nPending, the length of the list aPending
    isOpen,    \* isOpen[h]: the OsFile h exists
    locktype,  \* locktype[h]: pFile->locktype
    pc,        \* pc[h]: where the thread using h is inside unixLock, ...
    goal       \* goal[h]: what the running unixUnlock() is to reach

kernel == <<pendingByte, reservedByte, sharedRange>>
lockInfo == <<cnt, procLock, infoRef>>
openCnt == <<openRef, nLock, nPending>>
vars == <<kernel, mutex, lockInfo, openCnt, isOpen, locktype, pc, goal>>

-----------------------------------------------------------------------------
(* The kernel: fcntl() byte-range locks, owned by processes.               *)

PosixLock == {"none", "read", "write"}

\* F_SETLK by process p conflicts only with locks of other processes.
Grantable(byte, p, t) ==
    \A q \in Proc \ {p} :
        /\ byte[q] # "write"
        /\ t = "write" => byte[q] = "none"

FSetLk(byte, p, t) == [byte EXCEPT ![p] = t]

\* A process that closes a descriptor of the file, or exits, loses its locks.
DropAll(p) ==
    /\ pendingByte' = FSetLk(pendingByte, p, "none")
    /\ reservedByte' = FSetLk(reservedByte, p, "none")
    /\ sharedRange' = FSetLk(sharedRange, p, "none")

-----------------------------------------------------------------------------

Idle(h) == isOpen[h] /\ pc[h] = "idle"
MutexFree(h) == mutex[ProcOf[h]] = NoHandle
EnterMutex(h) == mutex' = [mutex EXCEPT ![ProcOf[h]] = h]
LeaveMutex(h) == mutex' = [mutex EXCEPT ![ProcOf[h]] = NoHandle]

SetLevel(h, t) ==
    /\ locktype' = [locktype EXCEPT ![h] = t]
    /\ procLock' = [procLock EXCEPT ![ProcOf[h]] = t]

\* "Some thread using this PID has a lock via a different OsFile handle that
\* precludes the requested lock": unixLock() returns SQLITE_BUSY.
Precluded_IgnoresPending(h, t) ==
    locktype[h] # procLock[ProcOf[h]] /\ t > SHARED_LOCK
Precluded(h, t) ==
    /\ locktype[h] # procLock[ProcOf[h]]
    /\ procLock[ProcOf[h]] >= PENDING_LOCK \/ t > SHARED_LOCK

Incr(f, p) == [f EXCEPT ![p] = @ + 1]
Decr(f, p) == [f EXCEPT ![p] = @ - 1]

Init ==
    /\ pendingByte = [p \in Proc |-> "none"]
    /\ reservedByte = [p \in Proc |-> "none"]
    /\ sharedRange = [p \in Proc |-> "none"]
    /\ mutex = [p \in Proc |-> NoHandle]
    /\ cnt = [p \in Proc |-> 0]
    /\ procLock = [p \in Proc |-> NO_LOCK]
    /\ infoRef = [p \in Proc |-> 0]
    /\ openRef = [p \in Proc |-> 0]
    /\ nLock = [p \in Proc |-> 0]
    /\ nPending = [p \in Proc |-> 0]
    /\ isOpen = [h \in Handle |-> FALSE]
    /\ locktype = [h \in Handle |-> NO_LOCK]
    /\ pc = [h \in Handle |-> "idle"]
    /\ goal = [h \in Handle |-> "unlock"]

\* open() followed by findLockInfo() under the mutex.  A structure whose
\* reference count is 0 does not exist: findLockInfo() allocates a zeroed one.
Open(h) ==
    LET p == ProcOf[h]
        Zeroed(f, ref) == IF ref[p] = 0 THEN [f EXCEPT ![p] = 0] ELSE f
    IN  /\ ~isOpen[h] /\ pc[h] = "idle" /\ MutexFree(h)
        /\ isOpen' = [isOpen EXCEPT ![h] = TRUE]
        /\ cnt' = Zeroed(cnt, infoRef)
        /\ procLock' = Zeroed(procLock, infoRef)
        /\ infoRef' = Incr(infoRef, p)
        /\ nLock' = Zeroed(nLock, openRef)
        /\ nPending' = Zeroed(nPending, openRef)
        /\ openRef' = Incr(openRef, p)
        /\ UNCHANGED <<kernel, mutex, locktype, pc, goal>>

\* findLockInfo() or allocateUnixFile() runs out of memory: outside the mutex
\* the new descriptor is closed at once, and the references are given back.
OpenNoMem(h) ==
    /\ ProcOf[h] \in OpenFails
    /\ ~isOpen[h] /\ pc[h] = "idle"
    /\ DropAll(ProcOf[h])
    /\ UNCHANGED <<mutex, lockInfo, openCnt, isOpen, locktype, pc, goal>>

-----------------------------------------------------------------------------
(* unixLock(h, t).  A request that is precluded, or whose first fcntl() is *)
(* refused, returns SQLITE_BUSY and leaves everything as it was.           *)

\* A handle of the same process already has the kernel's read lock.
SharedCount_Forgets(p) == cnt
SharedCount(p) == Incr(cnt, p)

LockSharedInProcess(h) ==
    LET p == ProcOf[h]
    IN  /\ Idle(h) /\ MutexFree(h)
        /\ locktype[h] = NO_LOCK /\ ~Precluded(h, SHARED_LOCK)
        /\ procLock[p] \in {SHARED_LOCK, RESERVED_LOCK}
        /\ locktype' = [locktype EXCEPT ![h] = SHARED_LOCK]
        /\ cnt' = SharedCount(p)
        /\ nLock' = Incr(nLock, p)
        /\ UNCHANGED <<kernel, mutex, procLock, infoRef, openRef, nPending,
                       isOpen, pc, goal>>

\* SHARED, first fcntl(): a read lock on the pending byte.
NoWriterWaits_Unchecked(p) == TRUE
NoWriterWaits(p) == Grantable(pendingByte, p, "read")

LockSharedPending(h) ==
    LET p == ProcOf[h]
    IN  /\ Idle(h) /\ MutexFree(h)
        /\ locktype[h] = NO_LOCK /\ ~Precluded(h, SHARED_LOCK)
        /\ procLock[p] \notin {SHARED_LOCK, RESERVED_LOCK}
        /\ NoWriterWaits(p)
        /\ pendingByte' = FSetLk(pendingByte, p, "read")
        /\ EnterMutex(h)
        /\ pc' = [pc EXCEPT ![h] = "sharedRange"]
        /\ UNCHANGED <<reservedByte, sharedRange, lockInfo, openCnt, isOpen,
                       locktype, goal>>

\* SHARED, second fcntl(): a read lock on the shared range, which may fail.
LockSharedRange(h) ==
    LET p == ProcOf[h]
    IN  /\ pc[h] = "sharedRange"
        /\ \/ /\ Grantable(sharedRange, p, "read")
              /\ sharedRange' = FSetLk(sharedRange, p, "read")
              /\ pc' = [pc EXCEPT ![h] = "sharedGot"]
           \/ /\ ~Grantable(sharedRange, p, "read")
              /\ pc' = [pc EXCEPT ![h] = "sharedBusy"]
              /\ UNCHANGED sharedRange
        /\ UNCHANGED <<pendingByte, reservedByte, mutex, lockInfo, openCnt,
                       isOpen, locktype, goal>>

\* SHARED, third fcntl(): the pending byte is dropped in either case.
LockSharedDropPending(h) ==
    LET p == ProcOf[h]
    IN  /\ \/ /\ pc[h] = "sharedGot"
              /\ SetLevel(h, SHARED_LOCK)
              /\ cnt' = [cnt EXCEPT ![p] = 1]
              /\ nLock' = Incr(nLock, p)
           \/ /\ pc[h] = "sharedBusy"
              /\ UNCHANGED <<locktype, procLock, cnt, nLock>>
        /\ pendingByte' = FSetLk(pendingByte, p, "none")
        /\ LeaveMutex(h)
        /\ pc' = [pc EXCEPT ![h] = "idle"]
        /\ UNCHANGED <<reservedByte, sharedRange, infoRef, openRef, nPending,
                       isOpen, goal>>

\* RESERVED, asked for only by a holder of SHARED (an assert of the code).
LockReserved(h) ==
    LET p == ProcOf[h]
    IN  /\ Idle(h) /\ MutexFree(h)
        /\ locktype[h] = SHARED_LOCK /\ ~Precluded(h, RESERVED_LOCK)
        /\ Grantable(reservedByte, p, "write")
        /\ reservedByte' = FSetLk(reservedByte, p, "write")
        /\ SetLevel(h, RESERVED_LOCK)
        /\ UNCHANGED <<pendingByte, sharedRange, mutex, cnt, infoRef, openCnt,
                       isOpen, pc, goal>>

\* EXCLUSIVE from SHARED or RESERVED, first fcntl(): the pending byte.
LockExclusivePending(h) ==
    LET p == ProcOf[h]
    IN  /\ Idle(h) /\ MutexFree(h)
        /\ locktype[h] \in {SHARED_LOCK, RESERVED_LOCK}
        /\ ~Precluded(h, EXCLUSIVE_LOCK)
        /\ Grantable(pendingByte, p, "write")
        /\ pendingByte' = FSetLk(pendingByte, p, "write")
        /\ EnterMutex(h)
        /\ pc' = [pc EXCEPT ![h] = "exclRange"]
        /\ UNCHANGED <<reservedByte, sharedRange, lockInfo, openCnt, isOpen,
                       locktype, goal>>

\* No other handle of the process holds SHARED.
AloneInProcess_Unchecked(p) == TRUE
AloneInProcess(p) == cnt[p] <= 1

\* EXCLUSIVE, last part: refused while another handle of the process reads,
\* else a write lock on the shared range; a failure leaves a PENDING lock.
\* A holder of PENDING that asks again starts here.
LockExclusiveRange(h) ==
    LET p == ProcOf[h]
        granted == AloneInProcess(p) /\ Grantable(sharedRange, p, "write")
    IN  /\ \/ pc[h] = "exclRange"
           \/ /\ Idle(h) /\ MutexFree(h) /\ locktype[h] = PENDING_LOCK
              /\ ~Precluded(h, EXCLUSIVE_LOCK)
        /\ \/ /\ granted
              /\ sharedRange' = FSetLk(sharedRange, p, "write")
              /\ SetLevel(h, EXCLUSIVE_LOCK)
           \/ /\ ~granted
              /\ SetLevel(h, PENDING_LOCK)
              /\ UNCHANGED sharedRange
        /\ LeaveMutex(h)
        /\ pc' = [pc EXCEPT ![h] = "idle"]
        /\ UNCHANGED <<pendingByte, reservedByte, cnt, infoRef, openCnt,
                       isOpen, goal>>

-----------------------------------------------------------------------------
(* unixCheckReservedLock(h): does any handle, here or elsewhere, hold a    *)
(* RESERVED lock?  F_GETLK looks at the reserved byte of other processes.  *)
CheckReservedLock_OthersOnly(h) ==
    ~Grantable(reservedByte, ProcOf[h], "write")
CheckReservedLock(h) ==
    \/ procLock[ProcOf[h]] > SHARED_LOCK
    \/ ~Grantable(reservedByte, ProcOf[h], "write")

-----------------------------------------------------------------------------
(* unixUnlock(), which goes down to SHARED_LOCK or to NO_LOCK, and         *)
(* unixClose(), which begins with an unixUnlock() to NO_LOCK.              *)

Goal == {"share", "unlock", "close"}
GoalLevel(g) == IF g = "share" THEN SHARED_LOCK ELSE NO_LOCK

Unlock(h, g) ==
    /\ Idle(h) /\ MutexFree(h) /\ locktype[h] > GoalLevel(g)
    /\ EnterMutex(h)
    /\ goal' = [goal EXCEPT ![h] = g]
    /\ pc' = [pc EXCEPT ![h] =
           IF locktype[h] = SHARED_LOCK THEN "count"
           ELSE IF g = "share" THEN "downgrade" ELSE "dropBytes"]
    /\ UNCHANGED <<kernel, lockInfo, openCnt, isOpen, locktype>>

\* The write lock on the shared range becomes a read lock.
UnlockDowngrade(h) ==
    /\ pc[h] = "downgrade"
    /\ sharedRange' = FSetLk(sharedRange, ProcOf[h], "read")
    /\ pc' = [pc EXCEPT ![h] = "dropBytes"]
    /\ UNCHANGED <<pendingByte, reservedByte, mutex, lockInfo, openCnt, isOpen,
                   locktype, goal>>

\* One fcntl() drops the pending and the reserved byte.
UnlockDropBytes(h) ==
    LET p == ProcOf[h]
    IN  /\ pc[h] = "dropBytes"
        /\ pendingByte' = FSetLk(pendingByte, p, "none")
        /\ reservedByte' = FSetLk(reservedByte, p, "none")
        /\ procLock' = [procLock EXCEPT ![p] = SHARED_LOCK]
        /\ \/ /\ goal[h] = "share"
              /\ LeaveMutex(h)
              /\ pc' = [pc EXCEPT ![h] = "setLevel"]
           \/ /\ goal[h] # "share"
              /\ UNCHANGED mutex
              /\ pc' = [pc EXCEPT ![h] = "count"]
        /\ UNCHANGED <<sharedRange, cnt, infoRef, openCnt, isOpen, locktype,
                       goal>>

\* The deferred descriptors are closed with the last lock of the process.
DeferredLeft_Kept(p) == nPending
DeferredLeft(p) == IF nLock[p] = 1 THEN [nPending EXCEPT ![p] = 0] ELSE nPending

\* The SHARED lock is given back; the last one of the process unlocks the file.
UnlockCount(h) ==
    LET p == ProcOf[h]
        lastReader == cnt[p] = 1
        closesDeferred == nLock[p] = 1 /\ nPending[p] > 0
    IN  /\ pc[h] = "count"
        /\ cnt' = Decr(cnt, p)
        /\ procLock' = IF lastReader THEN [procLock EXCEPT ![p] = NO_LOCK]
                       ELSE procLock
        /\ nLock' = Decr(nLock, p)
        /\ nPending' = DeferredLeft(p)
        /\ IF lastReader \/ closesDeferred THEN DropAll(p) ELSE UNCHANGED kernel
        /\ LeaveMutex(h)
        /\ pc' = [pc EXCEPT ![h] = "setLevel"]
        /\ UNCHANGED <<infoRef, openRef, isOpen, locktype, goal>>

\* pFile->locktype is assigned after the mutex has been left.
UnlockSetLevel(h) ==
    /\ pc[h] = "setLevel"
    /\ locktype' = [locktype EXCEPT ![h] = GoalLevel(goal[h])]
    /\ pc' = [pc EXCEPT ![h] = IF goal[h] = "close" THEN "close" ELSE "idle"]
    /\ goal' = [goal EXCEPT ![h] = "unlock"]
    /\ UNCHANGED <<kernel, mutex, lockInfo, openCnt, isOpen>>

\* The rest of unixClose(): the descriptor is closed, put on the deferred
\* list or, if that list cannot grow, leaked; both structures lose a reference.
HoldsLocks_Ignored(p) == FALSE
HoldsLocks(p) == nLock[p] > 0

Close(h) ==
    LET p == ProcOf[h]
    IN  /\ isOpen[h] /\ MutexFree(h)
        /\ pc[h] = "close" \/ (pc[h] = "idle" /\ locktype[h] = NO_LOCK)
        /\ \/ /\ ~HoldsLocks(p)
              /\ DropAll(p)
              /\ UNCHANGED nPending
           \/ /\ HoldsLocks(p) /\ nPending[p] < MaxDeferred
              /\ nPending' = Incr(nPending, p)
              /\ UNCHANGED kernel
           \/ /\ HoldsLocks(p) /\ DeferFails
              /\ UNCHANGED <<nPending, kernel>>
        /\ infoRef' = Decr(infoRef, p)
        /\ openRef' = Decr(openRef, p)
        /\ isOpen' = [isOpen EXCEPT ![h] = FALSE]
        /\ pc' = [pc EXCEPT ![h] = "idle"]
        /\ UNCHANGED <<mutex, cnt, procLock, nLock, locktype, goal>>

-----------------------------------------------------------------------------
\* A process is killed at any moment: its memory is gone, the kernel drops its
\* locks, a new process with no open handle takes its place.
Crash(p) ==
    LET Fresh(f) == [f EXCEPT ![p] = 0]
        Mine(f, x) == [h \in Handle |-> IF ProcOf[h] = p THEN x ELSE f[h]]
    IN  /\ DropAll(p)
        /\ mutex' = [mutex EXCEPT ![p] = NoHandle]
        /\ cnt' = Fresh(cnt) /\ procLock' = Fresh(procLock)
        /\ infoRef' = Fresh(infoRef) /\ openRef' = Fresh(openRef)
        /\ nLock' = Fresh(nLock) /\ nPending' = Fresh(nPending)
        /\ isOpen' = Mine(isOpen, FALSE)
        /\ locktype' = Mine(locktype, NO_LOCK)
        /\ pc' = Mine(pc, "idle")
        /\ goal' = Mine(goal, "unlock")

LockStep(h) ==
    \/ LockSharedInProcess(h) \/ LockSharedPending(h) \/ LockSharedRange(h)
    \/ LockSharedDropPending(h) \/ LockReserved(h)
    \/ LockExclusivePending(h) \/ LockExclusiveRange(h)

UnlockStep(h) ==
    \/ \E g \in Goal : Unlock(h, g)
    \/ UnlockDowngrade(h) \/ UnlockDropBytes(h) \/ UnlockCount(h)
    \/ UnlockSetLevel(h)

Next ==
    \/ \E h \in Handle : \/ Open(h) \/ OpenNoMem(h) \/ Close(h)
                        \/ LockStep(h) \/ UnlockStep(h)
    \/ \E p \in Proc : Crash(p)

Spec == Init /\ [][Next]_vars

\* Threads run: a call that has begun is finished.  The pager's busy loop asks
\* again for EXCLUSIVE while it is at PENDING, and applications finish their
\* statements: a lock below PENDING is given back.
InsideCall(h) ==
    \/ LockSharedRange(h) \/ LockSharedDropPending(h)
    \/ pc[h] = "exclRange" /\ LockExclusiveRange(h)
    \/ UnlockDowngrade(h) \/ UnlockDropBytes(h) \/ UnlockCount(h)
    \/ UnlockSetLevel(h)
AskAgain(h) == pc[h] = "idle" /\ LockExclusiveRange(h)
FinishReading(h) ==
    locktype[h] \in {SHARED_LOCK, RESERVED_LOCK} /\ Unlock(h, "unlock")

Fairness == \A h \in Handle : /\ WF_vars(InsideCall(h))
                              /\ WF_vars(AskAgain(h))
                              /\ SF_vars(FinishReading(h))

FairSpec == Spec /\ Fairness

-----------------------------------------------------------------------------
(* Properties.                                                             *)

PC == {"idle", "sharedRange", "sharedGot", "sharedBusy", "exclRange",
       "downgrade", "dropBytes", "count", "setLevel", "close"}

\* Every variable has values of its type.
TypeOK ==
    /\ pendingByte \in [Proc -> PosixLock]
    /\ reservedByte \in [Proc -> PosixLock]
    /\ sharedRange \in [Proc -> PosixLock]
    /\ mutex \in [Proc -> Handle \cup {NoHandle}]
    /\ cnt \in [Proc -> Nat]
    /\ procLock \in [Proc -> LockType]
    /\ infoRef \in [Proc -> Nat]
    /\ openRef \in [Proc -> Nat]
    /\ nLock \in [Proc -> Nat]
    /\ nPending \in [Proc -> 0 .. MaxDeferred]
    /\ isOpen \in [Handle -> BOOLEAN]
    /\ locktype \in [Handle -> LockType]
    /\ pc \in [Handle -> PC]
    /\ goal \in [Handle -> Goal]

\* The level a handle is entitled to: a handle that is being unlocked counts
\* as unlocked from the start, one that owns the pending byte as PENDING.
Unlocking(h) == pc[h] \in {"downgrade", "dropBytes", "count", "setLevel"}
Level(h) ==
    IF Unlocking(h) THEN GoalLevel(goal[h])
    ELSE IF pc[h] = "exclRange" THEN PENDING_LOCK
    ELSE locktype[h]

ReservedHolders ==
    {h \in Handle : /\ Level(h) >= RESERVED_LOCK
                    /\ reservedByte[ProcOf[h]] = "write"}

Abstract == INSTANCE FileLock WITH level <- [h \in Handle |-> Level(h)],
                                   reserved <- ReservedHolders

\* os_unix.c implements the promise of FileLock.
ImplementsFileLock == Abstract!Spec

\* Two connections never both write, nobody reads while one writes, whether
\* they are threads of one process or different processes (unixLock).
Exclusion == Abstract!Exclusion

Openers(p) == {h \in Handle : ProcOf[h] = p /\ isOpen[h]}
Lockers(p) == {h \in Handle : ProcOf[h] = p /\ Level(h) > NO_LOCK}
Max0(S) == IF S = {} THEN 0 ELSE CHOOSE x \in S : \A y \in S : y <= x

\* Whenever no thread of a process is inside the mutex, the reference counts
\* count the open handles, cnt and nLock count the handles that hold a lock,
\* and lockInfo.locktype is the strongest of these locks (findLockInfo,
\* unixLock, unixUnlock, unixClose).
Accounting ==
    \A p \in Proc : mutex[p] = NoHandle =>
        /\ infoRef[p] = Cardinality(Openers(p))
        /\ openRef[p] = Cardinality(Openers(p))
        /\ cnt[p] = Cardinality(Lockers(p))
        /\ nLock[p] = Cardinality(Lockers(p))
        /\ procLock[p] = Max0({Level(h) : h \in Openers(p)})

\* Whenever no thread of a process is inside the mutex, the locks the kernel
\* records for the process are exactly those its handles stand for.  None was
\* lost to a close() of another descriptor, none was left behind to starve
\* the other processes (unixLock, unixUnlock, unixClose).
KernelMatches ==
    \A p \in Proc : mutex[p] = NoHandle =>
        /\ sharedRange[p] = CASE procLock[p] = NO_LOCK -> "none"
                               [] procLock[p] = EXCLUSIVE_LOCK -> "write"
                               [] OTHER -> "read"
        /\ pendingByte[p] =
               IF procLock[p] >= PENDING_LOCK THEN "write" ELSE "none"
        /\ procLock[p] = RESERVED_LOCK => reservedByte[p] = "write"
        /\ procLock[p] < RESERVED_LOCK => reservedByte[p] = "none"

\* A descriptor whose close() was deferred is closed in the end: one is on the
\* list only while the process holds a lock, so releaseOpenCnt() never frees
\* the list with descriptors on it (unixClose, unixUnlock).
DeferredCloseIsDone ==
    \A p \in Proc : nPending[p] > 0 => nLock[p] > 0 /\ openRef[p] > 0

\* A handle that would write is seen by every other handle that asks: the
\* test for a hot journal relies on it (unixCheckReservedLock).
ReservedIsSeen ==
    \A g \in ReservedHolders, h \in Handle :
        g # h /\ Idle(h) /\ MutexFree(h) => CheckReservedLock(h)

\* The asserts of unixLock() and unixUnlock().
AssertsHold ==
    \A h \in Handle :
        LET p == ProcOf[h]
        IN  /\ pc[h] \in {"sharedRange", "sharedGot", "sharedBusy"} =>
                   cnt[p] = 0 /\ procLock[p] = NO_LOCK
            /\ pc[h] \in {"downgrade", "dropBytes"} =>
                   cnt[p] # 0 /\ procLock[p] = locktype[h]
            /\ pc[h] = "count" => cnt[p] # 0 /\ nLock[p] >= 1

\* A writer that waits at PENDING is not starved by readers unless another
\* process reads the file through several handles: it gets EXCLUSIVE or
\* gives up.
OnlyHandle(h) == \A g \in Handle : ProcOf[g] = ProcOf[h] => g = h
PendingIsServed ==
    \A h \in Handle :
        (\A g \in Handle : ProcOf[g] # ProcOf[h] => OnlyHandle(g))
        => (Level(h) = PENDING_LOCK ~> Level(h) # PENDING_LOCK)

\* "If you close a file descriptor that points to a file that has locks, ...
\* the call to close() the file descriptor is deferred until all of the locks
\* clear": false of the descriptor that findLockInfo() could not register.
LocksSurviveClose ==
    \A h \in Handle : Level(h) >= SHARED_LOCK =>
        sharedRange[ProcOf[h]] # "none"
=============================================================================
