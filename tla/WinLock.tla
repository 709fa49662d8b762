------------------------------ MODULE WinLock -------------------------------
(***************************************************************************)
(* The database-file locks of SQLite 3.3.4 on Windows (os_win.c).          *)
(*                                                                         *)
(* A lock belongs to the handle it was taken through, whatever process the *)
(* handle lives in.  Windows NT has locks that readers share.  Windows 95  *)
(* has none: a reader locks one byte of the range, drawn at random.        *)
(* Windows CE has no locks at all: the wince functions keep counts in      *)
(* memory that the processes share, each function under a named mutex.     *)
(* Every LockFile() and UnlockFile() is a step.                            *)
(***************************************************************************)
EXTENDS Integers, FiniteSets

CONSTANTS
    Handle,    \* the OsFile objects, and the processes they live in
    Byte,      \* the bytes of the shared range that readers on Windows 95 draw
    May        \* what else callers and processes do (see Other)

NO_LOCK == 0
SHARED_LOCK == 1
RESERVED_LOCK == 2
PENDING_LOCK == 3
EXCLUSIVE_LOCK == 4
LockType == NO_LOCK .. EXCLUSIVE_LOCK

Platform == {"NT", "95", "CE"}
\* Locks of the pending byte, the reserved byte and the range of bytes from
\* SHARED_FIRST on, for a reader and for a writer.
Lock == {"pending", "reserved", "read", "write"}

\* "recovers": the pager asks for EXCLUSIVE at SHARED, for a hot journal;
\* "readsOn": after a refused COMMIT it returns to SHARED and goes on reading;
\* "killedOnCE": a process is killed on Windows CE.
Other == {"recovers", "readsOn", "killedOnCE"}

ASSUME MayAssumption == May \subseteq Other
ASSUME HandleAssumption == IsFiniteSet(Handle) /\ 0 \in Byte

VARIABLES
    platform,  \* platform[h]: the system h runs on, or uses a file server from
    local,     \* local[h]: the locks the system, or winFile.local, has for h
    byte,      \* byte[h]: sharedLockByte, the byte that h reads under on Windows 95
    shared,    \* winFile.shared: nReaders, bPending, bReserved and bExclusive
    locktype,  \* locktype[h]: pFile->locktype
    pc,        \* pc[h]: where h is inside winLock, winUnlock, ...
    goal       \* goal[h]: what the running winUnlock() is to reach

locks == <<local, byte, shared>>
vars == <<platform, locks, locktype, pc, goal>>

Init ==
    /\ \/ platform \in [Handle -> {"NT", "95"}]
       \/ platform = [h \in Handle |-> "CE"]
    /\ local = [h \in Handle |-> {}]
    /\ byte = [h \in Handle |-> 0]
    /\ shared = [l \in Lock |-> 0]
    /\ locktype = [h \in Handle |-> NO_LOCK]
    /\ pc = [h \in Handle |-> "idle"]
    /\ goal = [h \in Handle |-> NO_LOCK]

-----------------------------------------------------------------------------
(* LockFile(), LockFileEx() and UnlockFile().                              *)

Owners(l) == {h \in Handle : l \in local[h]}

\* What two locks of a range are refused for; locks of one handle are not
\* excepted, which is why a reader drops its lock before it asks for the range.
Conflicts(l) ==
    CASE l = "read" -> {"write"} [] l = "write" -> {"read", "write"} [] OTHER -> {l}

\* winceLockFile() tests the counts in the shared memory.
WinceGrants_ReservedUntested(l) ==
    l # "reserved" => \A k \in Conflicts(l) : shared[k] = 0
WinceGrants(l) == \A k \in Conflicts(l) : shared[k] = 0

\* A reader on Windows 95 that draws byte b needs it for itself; "a single
\* Win95 reader will lock out all WinNT readers" of the same file, and the reverse.
Apart(h, b, g) == platform[h] = platform[g] /\ (platform[h] = "95" => byte[g] # b)

\* May h have lock l?
Grants(h, l, b) ==
    IF platform[h] = "CE" THEN WinceGrants(l)
    ELSE /\ \A k \in Conflicts(l) : Owners(k) = {}
         /\ l = "read" => \A g \in Owners("read") : Apart(h, b, g)

LockFile(h, l, b) ==
    /\ local' = [local EXCEPT ![h] = @ \cup {l}]
    /\ byte' = [byte EXCEPT ![h] = b]
    /\ shared' = IF platform[h] # "CE" THEN shared
                 ELSE [shared EXCEPT ![l] = IF l = "read" THEN @ + 1 ELSE 1]

\* winceUnlockFile() and winceDestroyLock() take the locks that h has off the counts.
Freed_ReadersKept(h, L) ==
    [l \in Lock |-> IF l \in (local[h] \cap L) \ {"read"} THEN 0 ELSE shared[l]]
Freed(h, L) ==
    [l \in Lock |-> IF l \notin local[h] \cap L THEN shared[l]
                    ELSE IF l = "read" THEN shared[l] - 1 ELSE 0]

UnlockFile(h, L) ==
    /\ local' = [local EXCEPT ![h] = @ \ L]
    /\ shared' = IF platform[h] = "CE" THEN Freed(h, L) ELSE shared
    /\ UNCHANGED byte

-----------------------------------------------------------------------------
(* winLock().  A request whose first call is refused returns SQLITE_BUSY   *)
(* and changes nothing; so does one that has tried three times for the     *)
(* pending byte.                                                           *)

Idle(h) == pc[h] = "idle"
Goto(h, label) == pc' = [pc EXCEPT ![h] = label]
Becomes(h, t) == locktype' = [locktype EXCEPT ![h] = t]

\* The pending byte: for SHARED for a moment, for EXCLUSIVE at RESERVED to keep.
LockPending(h) ==
    /\ Idle(h) /\ locktype[h] \in {NO_LOCK, RESERVED_LOCK}
    /\ Grants(h, "pending", byte[h]) /\ LockFile(h, "pending", byte[h])
    /\ Goto(h, IF locktype[h] = NO_LOCK THEN "getShared" ELSE "dropRead")
    /\ UNCHANGED <<platform, locktype, goal>>

\* getReadLock(): TRUE if the lock is granted, whatever byte is drawn.
getReadLock(h) ==
    \E b \in IF platform[h] = "95" THEN Byte ELSE {byte[h]} :
        IF Grants(h, "read", b) THEN LockFile(h, "read", b)
        ELSE byte' = [byte EXCEPT ![h] = b] /\ UNCHANGED <<local, shared>>

LockShared(h) ==
    /\ pc[h] = "getShared"
    /\ getReadLock(h)
    /\ Goto(h, "dropPending")
    /\ UNCHANGED <<platform, locktype, goal>>

DropPending(h) ==
    /\ pc[h] = "dropPending"
    /\ UnlockFile(h, {"pending"})
    /\ Becomes(h, IF "read" \in local[h] THEN SHARED_LOCK ELSE NO_LOCK)
    /\ Goto(h, "idle")
    /\ UNCHANGED <<platform, goal>>

LockReserved(h) ==
    /\ Idle(h) /\ locktype[h] = SHARED_LOCK
    /\ Grants(h, "reserved", byte[h]) /\ LockFile(h, "reserved", byte[h])
    /\ Becomes(h, RESERVED_LOCK)
    /\ UNCHANGED <<platform, pc, goal>>

\* EXCLUSIVE without a test of the pending byte: it was taken before, or, when
\* a hot journal is to be played back, it is not taken at all.
AskAgain(h) ==
    /\ Idle(h)
    /\ \/ locktype[h] = PENDING_LOCK
       \/ locktype[h] = SHARED_LOCK /\ "recovers" \in May
    /\ Goto(h, "dropRead")
    /\ UNCHANGED <<platform, locks, locktype, goal>>

DropRead(h) ==
    /\ pc[h] = "dropRead"
    /\ UnlockFile(h, {"read"})
    /\ Goto(h, "write")
    /\ UNCHANGED <<platform, locktype, goal>>

\* A handle that is refused the range is at PENDING, without its read lock.
LockExclusive(h) ==
    /\ pc[h] = "write"
    /\ IF Grants(h, "write", byte[h])
       THEN LockFile(h, "write", byte[h]) /\ Becomes(h, EXCLUSIVE_LOCK)
       ELSE UNCHANGED locks /\ Becomes(h, PENDING_LOCK)
    /\ Goto(h, "idle")
    /\ UNCHANGED <<platform, goal>>

-----------------------------------------------------------------------------
(* winCheckReservedLock() takes the reserved byte, if it can, and gives it *)
(* back.  If it cannot it says that somebody has a RESERVED lock, though   *)
(* it may have met another call of itself.                                 *)

CheckReservedLock(h) ==
    /\ Idle(h) /\ locktype[h] < RESERVED_LOCK
    /\ Grants(h, "reserved", byte[h]) /\ LockFile(h, "reserved", byte[h])
    /\ Goto(h, "probe")
    /\ UNCHANGED <<platform, locktype, goal>>

EndCheck(h) ==
    /\ pc[h] = "probe"
    /\ UnlockFile(h, {"reserved"})
    /\ Goto(h, "idle")
    /\ UNCHANGED <<platform, locktype, goal>>

-----------------------------------------------------------------------------
(* winUnlock() and winClose().                                             *)

\* The calls in their order, for a handle at level "type" on its way to t.
Call == {"unlockRange", "getRead", "unlockReserved", "unlockRead", "unlockPending"}
FirstCall(type) ==
    CASE type = EXCLUSIVE_LOCK -> "unlockRange"
      [] type \in {RESERVED_LOCK, PENDING_LOCK} -> "unlockReserved"
      [] type = SHARED_LOCK -> "unlockRead"
After_PendingFirst(call, type, t) ==
    CASE call = "unlockRange" -> "unlockPending"
      [] call = "unlockPending" /\ type = EXCLUSIVE_LOCK /\ t = SHARED_LOCK -> "getRead"
      [] call = "getRead" \/ (call = "unlockPending" /\ type = EXCLUSIVE_LOCK) -> "unlockReserved"
      [] call = "unlockReserved" /\ t = NO_LOCK -> "unlockRead"
      [] call = "unlockRead" /\ type = PENDING_LOCK -> "unlockPending"
      [] OTHER -> "idle"
After(call, type, t) ==
    CASE call = "unlockRange" /\ t = SHARED_LOCK -> "getRead"
      [] call = "getRead" \/ (call = "unlockRange" /\ t = NO_LOCK) -> "unlockReserved"
      [] call = "unlockReserved" /\ t = NO_LOCK -> "unlockRead"
      [] (call = "unlockRead" \/ (call = "unlockReserved" /\ t = SHARED_LOCK))
            /\ type >= PENDING_LOCK -> "unlockPending"
      [] OTHER -> "idle"
Undoes(call) ==
    CASE call = "unlockRange" -> "write" [] call = "unlockReserved" -> "reserved"
      [] call = "unlockRead" -> "read" [] call = "unlockPending" -> "pending"

\* After a refused COMMIT the handle is at PENDING without a read lock, and
\* winUnlock(SHARED) does not take one: it is of no use unless nothing more is read.
Unlock(h, t) ==
    /\ Idle(h) /\ t \in {NO_LOCK, SHARED_LOCK} /\ t < locktype[h]
    /\ locktype[h] = PENDING_LOCK /\ t = SHARED_LOCK => "readsOn" \in May
    /\ goal' = [goal EXCEPT ![h] = t]
    /\ Goto(h, FirstCall(locktype[h]))
    /\ UNCHANGED <<platform, locks, locktype>>

UnlockStep(h) ==
    LET next == After(pc[h], locktype[h], goal[h]) IN
    /\ pc[h] \in Call
    /\ IF pc[h] = "getRead" THEN getReadLock(h) ELSE UnlockFile(h, {Undoes(pc[h])})
    /\ IF next = "idle" THEN Becomes(h, goal[h]) ELSE UNCHANGED locktype
    /\ Goto(h, next)
    /\ UNCHANGED <<platform, goal>>

\* CloseHandle() gives up the locks of the handle, on Windows CE winceDestroyLock() does.
Close(h) ==
    /\ Idle(h)
    /\ UnlockFile(h, local[h])
    /\ Becomes(h, NO_LOCK)
    /\ UNCHANGED <<platform, pc, goal>>

\* The system gives up the locks of a dead process; the shared memory of
\* Windows CE keeps its counts.
Die(h) ==
    /\ IF platform[h] # "CE" THEN UnlockFile(h, local[h])
       ELSE /\ "killedOnCE" \in May
            /\ local' = [local EXCEPT ![h] = {}] /\ UNCHANGED <<byte, shared>>
    /\ Becomes(h, NO_LOCK)
    /\ Goto(h, "idle")
    /\ UNCHANGED <<platform, goal>>

-----------------------------------------------------------------------------

InCall(h) ==
    \/ LockShared(h) \/ DropPending(h) \/ DropRead(h) \/ LockExclusive(h)
    \/ EndCheck(h) \/ UnlockStep(h)

Next ==
    \E h \in Handle :
        \/ LockPending(h) \/ LockReserved(h) \/ AskAgain(h)
        \/ CheckReservedLock(h) \/ InCall(h)
        \/ \E t \in {NO_LOCK, SHARED_LOCK} : Unlock(h, t)
        \/ Close(h) \/ Die(h)

Spec == Init /\ [][Next]_vars

\* A call goes on, a writer that was refused asks again, a reader ends its read.
FairSpec ==
    /\ Spec
    /\ \A h \in Handle :
           /\ WF_vars(InCall(h)) /\ WF_vars(AskAgain(h))
           /\ SF_vars(locktype[h] = SHARED_LOCK /\ Unlock(h, NO_LOCK))

-----------------------------------------------------------------------------
(* What must hold.                                                         *)

\* The state is well formed, and the shared memory of Windows CE counts the
\* locks of the handles: a count that is not given back would keep every
\* other process out for ever (winceUnlockFile, winceDestroyLock).
TypeOK ==
    /\ platform \in [Handle -> Platform]
    /\ local \in [Handle -> SUBSET Lock]
    /\ byte \in [Handle -> Byte]
    /\ shared \in [Lock -> Nat]
    /\ \A h \in Handle : platform[h] = "CE" =>
           \A l \in Lock : shared[l] = Cardinality(Owners(l))
    /\ locktype \in [Handle -> LockType]
    /\ pc \in [Handle -> Call \cup
                  {"idle", "getShared", "dropPending", "dropRead", "write", "probe"}]
    /\ goal \in [Handle -> {NO_LOCK, SHARED_LOCK}]

\* The level a handle is entitled to: a handle that is being unlocked counts
\* as unlocked from the start, one that has the pending byte to keep as PENDING.
Level(h) ==
    CASE pc[h] \in Call -> goal[h]
      [] pc[h] \in {"dropRead", "write"} -> PENDING_LOCK
      [] pc[h] = "dropPending" /\ "read" \in local[h] -> SHARED_LOCK
      [] OTHER -> locktype[h]

Reservers == {h \in Owners("reserved") : Level(h) >= RESERVED_LOCK}

Abstract == INSTANCE FileLock WITH
    Proc <- Handle, ProcOf <- [h \in Handle |-> h],
    level <- [h \in Handle |-> Level(h)], reserved <- Reservers

\* os_win.c implements the promise of FileLock on each of the three systems,
\* as long as nobody asks for EXCLUSIVE at SHARED or reads on after a refused COMMIT.
ImplementsFileLock == Abstract!Spec

\* "EXCLUSIVE: An EXCLUSIVE lock precludes all other locks."
Exclusion == Abstract!Exclusion

\* A handle that would write is seen by every other that asks: the test for a
\* hot journal relies on it (winCheckReservedLock).
ReservedIsSeen ==
    [][\A h \in Handle : CheckReservedLock(h) =>
          \A g \in Handle \ {h} : Level(g) < RESERVED_LOCK]_vars

\* "This should never happen.  We should always be able to reacquire the read
\* lock": a handle that goes back from EXCLUSIVE to SHARED gets it (winUnlock).
ReadLockComesBack ==
    \A h \in Handle, b \in Byte :
        pc[h] = "getRead" => Grants(h, "read", b)

\* A writer at PENDING is served: readers finish, and no new ones come
\* because they need the pending byte for a moment (winLock).
WriterIsServed ==
    \A h \in Handle : Level(h) = PENDING_LOCK ~> Level(h) # PENDING_LOCK
=============================================================================
