---------------------------- MODULE WinLockProofs ----------------------------
(***************************************************************************)
(* Machine-checked properties of the locks on Windows, for any number of   *)
(* handles, on any mixture of NT and 95 or all on Windows CE, as long as   *)
(* callers do nothing that May lists.                                      *)
(***************************************************************************)
EXTENDS WinLock, FiniteSetTheorems, TLAPS

Pc == Call \cup {"idle", "getShared", "dropPending", "dropRead", "write", "probe"}

Types ==
    /\ platform \in [Handle -> Platform]
    /\ local \in [Handle -> SUBSET Lock]
    /\ byte \in [Handle -> Byte]
    /\ shared \in [Lock -> Nat]
    /\ locktype \in [Handle -> LockType]
    /\ pc \in [Handle -> Pc]
    /\ goal \in [Handle -> {NO_LOCK, SHARED_LOCK}]

\* Nobody shares a file system with Windows CE.
OneMachine ==
    \A g, h \in Handle : platform[g] = "CE" => platform[h] = "CE"

\* On Windows CE the counts are right, ...
Counts ==
    \A h \in Handle : platform[h] = "CE" =>
        \A l \in Lock : shared[l] = Cardinality(Owners(l))

\* ... and on every system the locks that are held do not conflict.
Compatible ==
    \A g, h \in Handle : g # h =>
        \A l \in local[g] : \A k \in Conflicts(l) : k \notin local[h]

\* The locks that make up a level.
Held(t) ==
    CASE t = NO_LOCK -> {}
      [] t = SHARED_LOCK -> {"read"}
      [] t = RESERVED_LOCK -> {"read", "reserved"}
      [] t = PENDING_LOCK -> {"pending", "reserved"}
      [] t = EXCLUSIVE_LOCK -> {"pending", "reserved", "write"}

\* What a handle has at each point of winLock() and winCheckReservedLock(), ...
Locking(h) ==
    /\ pc[h] = "idle" => local[h] = Held(locktype[h])
    /\ pc[h] = "getShared" => locktype[h] = NO_LOCK /\ local[h] = {"pending"}
    /\ pc[h] = "dropPending" =>
           locktype[h] = NO_LOCK /\ local[h] \in {{"pending"}, {"pending", "read"}}
    /\ pc[h] = "dropRead" =>
           \/ locktype[h] = RESERVED_LOCK /\ local[h] = {"pending", "reserved", "read"}
           \/ locktype[h] = PENDING_LOCK /\ local[h] = {"pending", "reserved"}
    /\ pc[h] = "write" =>
           /\ locktype[h] \in {RESERVED_LOCK, PENDING_LOCK}
           /\ local[h] = {"pending", "reserved"}
    /\ pc[h] = "probe" =>
           \/ locktype[h] = NO_LOCK /\ local[h] = {"reserved"}
           \/ locktype[h] = SHARED_LOCK /\ local[h] = {"read", "reserved"}

\* ... and of winUnlock().
Unlocking(h) ==
    /\ pc[h] \in Call => goal[h] < locktype[h]
    /\ pc[h] = "unlockRange" =>
           locktype[h] = EXCLUSIVE_LOCK /\ local[h] = {"pending", "reserved", "write"}
    /\ pc[h] = "getRead" =>
           /\ locktype[h] = EXCLUSIVE_LOCK /\ goal[h] = SHARED_LOCK
           /\ local[h] = {"pending", "reserved"}
    /\ pc[h] = "unlockReserved" =>
           \/ locktype[h] = RESERVED_LOCK /\ local[h] = {"read", "reserved"}
           \/ /\ locktype[h] \in {PENDING_LOCK, EXCLUSIVE_LOCK} /\ goal[h] = NO_LOCK
              /\ local[h] = {"pending", "reserved"}
           \/ /\ locktype[h] = EXCLUSIVE_LOCK /\ goal[h] = SHARED_LOCK
              /\ local[h] = {"pending", "reserved", "read"}
    /\ pc[h] = "unlockRead" =>
           /\ goal[h] = NO_LOCK
           /\ \/ locktype[h] \in {SHARED_LOCK, RESERVED_LOCK} /\ local[h] = {"read"}
              \/ locktype[h] \in {PENDING_LOCK, EXCLUSIVE_LOCK} /\ local[h] = {"pending"}
    /\ pc[h] = "unlockPending" =>
           \/ /\ locktype[h] \in {PENDING_LOCK, EXCLUSIVE_LOCK} /\ goal[h] = NO_LOCK
              /\ local[h] = {"pending"}
           \/ /\ locktype[h] = EXCLUSIVE_LOCK /\ goal[h] = SHARED_LOCK
              /\ local[h] = {"pending", "read"}

\* Nobody gets into the range while a handle comes down from EXCLUSIVE: what
\* makes the read lock come back.
WriterAlone ==
    \A g, h \in Handle : g # h /\ locktype[h] = EXCLUSIVE_LOCK =>
        "read" \notin local[g] /\ "write" \notin local[g]

IInv ==
    /\ Types /\ OneMachine /\ Counts /\ Compatible /\ WriterAlone
    /\ \A h \in Handle : Locking(h) /\ Unlocking(h)

USE MayAssumption, HandleAssumption
    DEF NO_LOCK, SHARED_LOCK, RESERVED_LOCK, PENDING_LOCK, EXCLUSIVE_LOCK

-----------------------------------------------------------------------------
(* The locks: what a granted one says, and what taking and giving back     *)
(* does to the counts and to the compatibility of what is held.            *)

LEMMA OwnersFinite ==
  ASSUME NEW l
  PROVE  IsFiniteSet(Owners(l)) /\ Cardinality(Owners(l)) \in Nat
<1>1. Owners(l) \in SUBSET Handle
  BY DEF Owners
<1>2. IsFiniteSet(Owners(l))
  BY <1>1, FS_Subset
<1>3. QED
  BY <1>2, FS_CardinalityType

\* A lock is granted only if nobody has one that it conflicts with.
LEMMA GrantsMeans ==
  ASSUME Types, Counts, NEW h \in Handle, NEW l \in Lock, NEW b,
         Grants(h, l, b), NEW k \in Conflicts(l)
  PROVE  Owners(k) = {}
<1>1. CASE platform[h] # "CE"
  BY <1>1 DEF Grants
<1>2. CASE platform[h] = "CE"
  <2>1. k \in Lock
    BY DEF Conflicts, Lock
  <2>2. Cardinality(Owners(k)) = 0
    BY <1>2, <2>1 DEF Grants, WinceGrants, Counts
  <2>3. QED
    BY <2>2, OwnersFinite, FS_EmptySet
<1>3. QED
  BY <1>1, <1>2

\* A call for h changes the locks of nobody else and keeps what holds of them.
LockStep(h) ==
    /\ Counts' /\ Compatible'
    /\ local' \in [Handle -> SUBSET Lock]
    /\ byte' \in [Handle -> Byte]
    /\ shared' \in [Lock -> Nat]
    /\ \A g \in Handle \ {h} : local'[g] = local[g]

LEMMA LockFileKeeps ==
  ASSUME Types, OneMachine, Counts, Compatible, NEW h \in Handle, NEW l \in Lock,
         NEW b \in Byte, Grants(h, l, b), LockFile(h, l, b), l \notin local[h],
         UNCHANGED platform
  PROVE  LockStep(h) /\ local'[h] = local[h] \cup {l}
<1>1. \A k \in Conflicts(l) : Owners(k) = {}
  BY GrantsMeans
<1>2. local' = [local EXCEPT ![h] = local[h] \cup {l}]
  BY DEF LockFile
<1>3. Compatible'
  BY <1>1, <1>2 DEF Compatible, Conflicts, Types, Owners, Lock
<1>4. \A k \in Lock : Owners(k)' = IF k = l THEN Owners(k) \cup {h} ELSE Owners(k)
  BY <1>2 DEF Owners, Types
<1>5. h \notin Owners(l)
  BY DEF Owners
<1>6. Cardinality(Owners(l) \cup {h}) = Cardinality(Owners(l)) + 1
  BY <1>5, OwnersFinite, FS_AddElement
<1>7. l # "read" => Cardinality(Owners(l)) = 0
  BY <1>1, FS_EmptySet DEF Conflicts, Lock
<1>8. Counts'
  <2> SUFFICES ASSUME NEW g \in Handle, platform[g] = "CE", NEW k \in Lock
               PROVE  shared'[k] = Cardinality(Owners(k)')
    BY DEF Counts
  <2>1. platform[h] = "CE" /\ shared[k] = Cardinality(Owners(k))
    BY DEF OneMachine, Counts
  <2>2. shared' = [shared EXCEPT ![l] = IF l = "read" THEN shared[l] + 1 ELSE 1]
    BY <2>1 DEF LockFile
  <2>3. CASE k = l
    <3>1. Cardinality(Owners(k)') = Cardinality(Owners(k)) + 1
      BY <1>4, <1>6, <2>3
    <3>2. shared'[k] = IF k = "read" THEN shared[k] + 1 ELSE 1
      BY <2>2, <2>3 DEF Types
    <3>3. k # "read" => Cardinality(Owners(k)) = 0
      BY <1>7, <2>3
    <3>4. QED
      BY <2>1, <3>1, <3>2, <3>3
  <2>4. CASE k # l
    BY <1>4, <2>1, <2>2, <2>4 DEF Types
  <2>5. QED
    BY <2>3, <2>4
<1>9. QED
  BY <1>2, <1>3, <1>8 DEF LockStep, LockFile, Types

LEMMA UnlockFileType ==
  ASSUME Types, Counts, NEW h \in Handle, NEW L, UnlockFile(h, L)
  PROVE  /\ local' \in [Handle -> SUBSET Lock] /\ byte' \in [Handle -> Byte]
         /\ shared' \in [Lock -> Nat]
<1>1. local' \in [Handle -> SUBSET Lock] /\ byte' \in [Handle -> Byte]
  BY DEF UnlockFile, Types
<1>2. CASE platform[h] = "CE"
  <2>1. shared' = Freed(h, L)
    BY <1>2 DEF UnlockFile
  <2>2. "read" \in local[h] => shared["read"] - 1 \in Nat
    <3>1. "read" \in local[h] => Owners("read") # {}
      BY DEF Owners
    <3>2. "read" \in local[h] => Cardinality(Owners("read")) # 0
      BY <3>1, OwnersFinite, FS_EmptySet
    <3>3. Cardinality(Owners("read")) \in Nat
      BY OwnersFinite
    <3>4. shared["read"] = Cardinality(Owners("read"))
      BY <1>2 DEF Counts, Lock
    <3>5. QED
      BY <3>2, <3>3, <3>4
  <2>3. QED
    BY <1>1, <2>1, <2>2 DEF Freed, Types, Lock
<1>3. CASE platform[h] # "CE"
  BY <1>1, <1>3 DEF UnlockFile, Types
<1>4. QED
  BY <1>2, <1>3

LEMMA UnlockFileKeeps ==
  ASSUME Types, OneMachine, Counts, Compatible, NEW h \in Handle, NEW L,
         UnlockFile(h, L), UNCHANGED platform
  PROVE  LockStep(h) /\ local'[h] = local[h] \ L
<1>1. local' = [local EXCEPT ![h] = local[h] \ L]
  BY DEF UnlockFile
<1>2. Compatible'
  BY <1>1 DEF Compatible, Types
<1>3. Counts'
  <2> SUFFICES ASSUME NEW g \in Handle, platform[g] = "CE", NEW k \in Lock
               PROVE  shared'[k] = Cardinality(Owners(k)')
    BY DEF Counts
  <2>1. platform[h] = "CE" /\ shared[k] = Cardinality(Owners(k))
    BY DEF OneMachine, Counts
  <2>2. shared' = Freed(h, L)
    BY <2>1 DEF UnlockFile
  <2>3. CASE k \notin local[h] \cap L
    <3>1. Owners(k)' = Owners(k)
      BY <1>1, <2>3 DEF Owners, Types
    <3>2. QED
      BY <2>1, <2>2, <2>3, <3>1 DEF Freed
  <2>4. CASE k \in local[h] \cap L
    <3>1. Owners(k)' = Owners(k) \ {h} /\ h \in Owners(k)
      BY <1>1, <2>4 DEF Owners, Types
    <3>2. Cardinality(Owners(k) \ {h}) = Cardinality(Owners(k)) - 1
      BY <3>1, OwnersFinite, FS_RemoveElement
    <3>3. k # "read" => Owners(k) \ {h} = {}
      BY <2>4 DEF Owners, Compatible, Conflicts, Lock
    <3>4. k # "read" => Cardinality(Owners(k) \ {h}) = 0
      BY <3>3, FS_EmptySet
    <3>5. QED
      BY <2>1, <2>2, <2>4, <3>1, <3>2, <3>4 DEF Freed
  <2>5. QED
    BY <2>3, <2>4
<1>4. QED
  BY <1>1, <1>2, <1>3, UnlockFileType DEF LockStep, Types

-----------------------------------------------------------------------------
(* What the invariant says about levels and locks.                         *)

\* The locks that back a level, and the set of those that plan to write.
LEMMA LevelBacked ==
  ASSUME IInv, NEW h \in Handle
  PROVE  /\ Level(h) \in LockType
         /\ Level(h) >= SHARED_LOCK => "read" \in local[h] \/ "pending" \in local[h]
         /\ Level(h) >= RESERVED_LOCK => "reserved" \in local[h]
         /\ Level(h) >= PENDING_LOCK => "pending" \in local[h]
<1>1. Types /\ Locking(h) /\ Unlocking(h)
  BY DEF IInv
<1>2. CASE pc[h] \in Call
  BY <1>1, <1>2 DEF Types, Locking, Unlocking, Held, Level, LockType, Call
<1>3. CASE pc[h] \notin Call
  BY <1>1, <1>3 DEF Types, Pc, Locking, Held, Level, LockType, Call
<1>4. QED
  BY <1>2, <1>3

LEMMA ReserversAre ==
  /\ IInv => Reservers = {h \in Handle : Level(h) >= RESERVED_LOCK}
  /\ (IInv => Reservers = {h \in Handle : Level(h) >= RESERVED_LOCK})'
<1>1. IInv => Reservers = {h \in Handle : Level(h) >= RESERVED_LOCK}
  BY LevelBacked DEF Reservers, Owners
<1>2. QED
  BY <1>1, PTL

\* Whoever has the pending byte is the only one at or above PENDING.
LEMMA PendingAlone ==
  ASSUME IInv, NEW h \in Handle, "pending" \in local[h] \/ Owners("pending") = {},
         NEW g \in Handle, g # h
  PROVE  ~(Level(g) >= PENDING_LOCK)
BY LevelBacked DEF IInv, Compatible, Conflicts, Owners

-----------------------------------------------------------------------------
(* A step of one handle.                                                   *)

\* The step leaves the other handles alone.
Only(h) ==
    /\ UNCHANGED platform
    /\ \A g \in Handle \ {h} :
           /\ local'[g] = local[g] /\ locktype'[g] = locktype[g]
           /\ pc'[g] = pc[g] /\ goal'[g] = goal[g]

LEMMA OthersStay ==
  ASSUME NEW h \in Handle, Only(h), NEW g \in Handle, g # h
  PROVE  /\ Level(g)' = Level(g)
         /\ (Locking(g) => Locking(g)') /\ (Unlocking(g) => Unlocking(g)')
BY DEF Only, Level, Locking, Unlocking, Held

\* What an action has to show for the invariant.
LEMMA StepKeeps ==
  ASSUME IInv, NEW h \in Handle, Only(h), Types', Counts' /\ Compatible',
         Locking(h)', Unlocking(h)',
         \/ local'[h] \subseteq local[h]
         \/ "pending" \in local[h]
         \/ local'[h] \cap {"read", "write"} = local[h] \cap {"read", "write"},
         \/ locktype'[h] = EXCLUSIVE_LOCK =>
                \/ locktype[h] = EXCLUSIVE_LOCK
                \/ Owners("read") = {} /\ Owners("write") = {}
  PROVE  IInv'
<1>1. OneMachine'
  BY DEF IInv, OneMachine, Only
<1>2. \A g \in Handle : Locking(g)' /\ Unlocking(g)'
  BY OthersStay DEF IInv
<1>3. \A g \in Handle : g # h /\ locktype[g] = EXCLUSIVE_LOCK => "pending" \notin local[h]
  <2> SUFFICES ASSUME NEW g \in Handle, g # h, locktype[g] = EXCLUSIVE_LOCK
               PROVE  "pending" \notin local[h]
    OBVIOUS
  <2>1. "pending" \in local[g]
    BY DEF IInv, Types, Pc, Call, Locking, Unlocking, Held
  <2>2. QED
    BY <2>1 DEF IInv, Compatible, Conflicts
<1>4. WriterAlone'
  BY <1>3 DEF IInv, WriterAlone, Only, Owners
<1>5. QED
  BY <1>1, <1>2, <1>4 DEF IInv

-----------------------------------------------------------------------------
(* The steps of FileLock, in terms of Level.                               *)

AbstractStep == [Abstract!Next]_(Abstract!vars)

\* Only the level of h changes, to t.
Goes(h, t) == \A g \in Handle : Level(g)' = IF g = h THEN t ELSE Level(g)

LEMMA AbstractConstants ==
  /\ Abstract!NO_LOCK = 0 /\ Abstract!SHARED_LOCK = 1
  /\ Abstract!RESERVED_LOCK = 2 /\ Abstract!PENDING_LOCK = 3
  /\ Abstract!EXCLUSIVE_LOCK = 4
BY DEF Abstract!NO_LOCK, Abstract!SHARED_LOCK, Abstract!RESERVED_LOCK,
       Abstract!PENDING_LOCK, Abstract!EXCLUSIVE_LOCK

LEMMA AbstractStutter ==
  ASSUME IInv, IInv', NEW h \in Handle, Goes(h, Level(h))
  PROVE  AbstractStep
<1>1. Reservers' = Reservers
  BY ReserversAre DEF Goes
<1>2. QED
  BY <1>1 DEF AbstractStep, Abstract!vars, Goes

LEMMA AbstractSet ==
  ASSUME NEW h \in Handle, NEW t, Goes(h, t)
  PROVE  Abstract!Set(h, t)
BY DEF Goes, Abstract!Set

LEMMA AbstractGetShared ==
  ASSUME IInv, IInv', NEW h \in Handle, Level(h) = NO_LOCK, Goes(h, SHARED_LOCK),
         \A g \in Handle : ~(Level(g) >= PENDING_LOCK)
  PROVE  AbstractStep
<1>1. Reservers' = Reservers
  BY ReserversAre DEF Goes
<1>2. Abstract!GetShared(h)
  BY <1>1, AbstractSet, AbstractConstants DEF Abstract!GetShared
<1>3. QED
  BY <1>2 DEF AbstractStep, Abstract!Next

LEMMA AbstractGetReserved ==
  ASSUME IInv, IInv', NEW h \in Handle, Level(h) = SHARED_LOCK, Goes(h, RESERVED_LOCK),
         Owners("reserved") = {}
  PROVE  AbstractStep
<1>1. Reservers = {}
  BY DEF Reservers
<1>2. Reservers' = {h}
  BY <1>1, ReserversAre DEF Goes
<1>3. Abstract!GetReserved(h)
  BY <1>1, <1>2, AbstractSet, AbstractConstants DEF Abstract!GetReserved
<1>4. QED
  BY <1>3 DEF AbstractStep, Abstract!Next

LEMMA AbstractGetPending ==
  ASSUME IInv, IInv', NEW h \in Handle, Level(h) = RESERVED_LOCK, Goes(h, PENDING_LOCK),
         \A g \in Handle : ~(Level(g) >= PENDING_LOCK)
  PROVE  AbstractStep
<1>1. Reservers' = Reservers
  BY ReserversAre DEF Goes
<1>2. \A g \in Handle : Level(g) < PENDING_LOCK
  BY LevelBacked DEF LockType
<1>3. Abstract!GetPending(h)
  BY <1>1, <1>2, AbstractSet, AbstractConstants DEF Abstract!GetPending
<1>4. QED
  BY <1>3 DEF AbstractStep, Abstract!Next

LEMMA AbstractGetExclusive ==
  ASSUME IInv, IInv', NEW h \in Handle, Level(h) = PENDING_LOCK, Goes(h, EXCLUSIVE_LOCK),
         \A g \in Handle \ {h} : Level(g) = NO_LOCK
  PROVE  AbstractStep
<1>1. Reservers' = Reservers
  BY ReserversAre DEF Goes
<1>2. Abstract!GetExclusive(h)
  BY <1>1, AbstractSet, AbstractConstants DEF Abstract!GetExclusive, Abstract!Alone
<1>3. QED
  BY <1>2 DEF AbstractStep, Abstract!Next

LEMMA AbstractRelease ==
  ASSUME IInv, IInv', NEW h \in Handle, NEW t \in {NO_LOCK, SHARED_LOCK}, t < Level(h),
         Goes(h, t)
  PROVE  AbstractStep
<1>1. Reservers' = Reservers \ {h}
  BY ReserversAre DEF Goes
<1>2. Abstract!Release(h, t)
  BY <1>1, AbstractSet, AbstractConstants DEF Abstract!Release
<1>3. QED
  BY <1>2, AbstractConstants DEF AbstractStep, Abstract!Next

\* A handle that has no level may give it up all the same.
LEMMA AbstractGiveUp ==
  ASSUME IInv, IInv', NEW h \in Handle, Goes(h, NO_LOCK)
  PROVE  AbstractStep
<1>1. Level(h) \in LockType
  BY LevelBacked
<1>2. CASE Level(h) = NO_LOCK
  BY <1>2, AbstractStutter DEF Goes
<1>3. CASE Level(h) # NO_LOCK
  BY <1>1, <1>3, AbstractRelease DEF LockType
<1>4. QED
  BY <1>2, <1>3

-----------------------------------------------------------------------------
(* winLock().                                                              *)

\* The other handles' levels stay, so the step is what it is for h.
LEMMA GoesTo ==
  ASSUME NEW h \in Handle, Only(h), NEW t, Level(h)' = t
  PROVE  Goes(h, t)
BY OthersStay DEF Goes

LEMMA LockPendingStep ==
  ASSUME IInv, NEW h \in Handle, LockPending(h)
  PROVE  IInv' /\ AbstractStep
<1>1. Types /\ OneMachine /\ Counts /\ Compatible /\ Locking(h) /\ Unlocking(h)
  BY DEF IInv
<1>2. /\ locktype[h] \in {NO_LOCK, RESERVED_LOCK}
      /\ local[h] = Held(locktype[h]) /\ "pending" \notin local[h]
  BY <1>1 DEF LockPending, Idle, Locking, Held
<1>3. LockStep(h) /\ local'[h] = local[h] \cup {"pending"}
  BY <1>1, <1>2, LockFileKeeps DEF LockPending, Lock, Types
<1>4. /\ Only(h) /\ Types' /\ locktype'[h] = locktype[h]
      /\ locktype[h] = NO_LOCK => pc'[h] = "getShared"
      /\ locktype[h] = RESERVED_LOCK => pc'[h] = "dropRead"
  BY <1>1, <1>2, <1>3 DEF LockPending, Goto, Only, LockStep, Types, Pc
<1>5. Locking(h)' /\ Unlocking(h)'
  BY <1>2, <1>3, <1>4 DEF Locking, Unlocking, Held, Call
<1>6. IInv'
  BY <1>2, <1>3, <1>4, <1>5, StepKeeps DEF LockStep
<1>7. Owners("pending") = {}
  BY <1>1, GrantsMeans DEF LockPending, Conflicts, Lock
<1>8. \A g \in Handle : ~(Level(g) >= PENDING_LOCK)
  BY <1>7, LevelBacked DEF Owners
<1>9. CASE locktype[h] = NO_LOCK
  <2>1. Level(h) = NO_LOCK /\ Level(h)' = NO_LOCK
    BY <1>4, <1>9 DEF Level, LockPending, Idle, Call
  <2>2. QED
    BY <1>4, <1>6, <2>1, GoesTo, AbstractStutter
<1>10. CASE locktype[h] = RESERVED_LOCK
  <2>1. Level(h) = RESERVED_LOCK /\ Level(h)' = PENDING_LOCK
    BY <1>4, <1>10 DEF Level, LockPending, Idle, Call
  <2>2. QED
    BY <1>4, <1>6, <1>8, <2>1, GoesTo, AbstractGetPending
<1>11. QED
  BY <1>2, <1>6, <1>9, <1>10

\* Whatever byte is drawn, a read lock is granted or not.
LEMMA ReadLockIs ==
  ASSUME Types, OneMachine, Counts, Compatible, NEW h \in Handle, getReadLock(h),
         "read" \notin local[h], UNCHANGED platform
  PROVE  LockStep(h) /\ local'[h] \in {local[h], local[h] \cup {"read"}}
<1>1. PICK b \in Byte :
        IF Grants(h, "read", b) THEN LockFile(h, "read", b)
        ELSE byte' = [byte EXCEPT ![h] = b] /\ UNCHANGED <<local, shared>>
  BY DEF getReadLock, Types
<1>2. CASE Grants(h, "read", b)
  BY <1>1, <1>2, LockFileKeeps DEF Lock
<1>3. CASE ~Grants(h, "read", b)
  <2>1. byte' = [byte EXCEPT ![h] = b] /\ UNCHANGED <<local, shared>>
    BY <1>1, <1>3
  <2>2. Counts' /\ Compatible'
    BY <2>1 DEF Counts, Compatible, Owners
  <2>3. QED
    BY <2>1, <2>2 DEF LockStep, Types
<1>4. QED
  BY <1>2, <1>3

LEMMA LockSharedStep ==
  ASSUME IInv, NEW h \in Handle, LockShared(h)
  PROVE  IInv' /\ AbstractStep
<1>1. Types /\ OneMachine /\ Counts /\ Compatible /\ Locking(h) /\ Unlocking(h)
  BY DEF IInv
<1>2. locktype[h] = NO_LOCK /\ local[h] = {"pending"}
  BY <1>1 DEF LockShared, Locking
<1>3. LockStep(h) /\ local'[h] \in {local[h], local[h] \cup {"read"}}
  BY <1>1, <1>2, ReadLockIs DEF LockShared
<1>4. Only(h) /\ Types' /\ pc'[h] = "dropPending" /\ locktype'[h] = NO_LOCK
  BY <1>1, <1>2, <1>3 DEF LockShared, Goto, Only, LockStep, Types, Pc
<1>5. Locking(h)' /\ Unlocking(h)'
  BY <1>2, <1>3, <1>4 DEF Locking, Unlocking, Call
<1>6. IInv'
  BY <1>2, <1>3, <1>4, <1>5, StepKeeps DEF LockStep
<1>7. Level(h) = NO_LOCK /\ Level(h)' \in {NO_LOCK, SHARED_LOCK}
  BY <1>2, <1>4 DEF LockShared, Level, Call
<1>8. \A g \in Handle : ~(Level(g) >= PENDING_LOCK)
  BY <1>2, <1>7, PendingAlone
<1>9. CASE Level(h)' = NO_LOCK
  BY <1>4, <1>6, <1>7, <1>9, GoesTo, AbstractStutter
<1>10. CASE Level(h)' = SHARED_LOCK
  BY <1>4, <1>6, <1>7, <1>8, <1>10, GoesTo, AbstractGetShared
<1>11. QED
  BY <1>6, <1>7, <1>9, <1>10

LEMMA DropPendingStep ==
  ASSUME IInv, NEW h \in Handle, DropPending(h)
  PROVE  IInv' /\ AbstractStep
<1>1. Types /\ OneMachine /\ Counts /\ Compatible /\ Locking(h) /\ Unlocking(h)
  BY DEF IInv
<1>2. locktype[h] = NO_LOCK /\ local[h] \in {{"pending"}, {"pending", "read"}}
  BY <1>1 DEF DropPending, Locking
<1>3. LockStep(h) /\ local'[h] = local[h] \ {"pending"}
  BY <1>1, UnlockFileKeeps DEF DropPending
<1>4. /\ Only(h) /\ Types' /\ pc'[h] = "idle"
      /\ locktype'[h] = IF "read" \in local[h] THEN SHARED_LOCK ELSE NO_LOCK
  BY <1>1, <1>3 DEF DropPending, Becomes, Goto, Only, LockStep, Types, Pc, LockType
<1>5. Locking(h)' /\ Unlocking(h)'
  BY <1>2, <1>3, <1>4 DEF Locking, Unlocking, Held, Call
<1>6. IInv'
  BY <1>3, <1>4, <1>5, StepKeeps DEF LockStep
<1>7. Level(h)' = Level(h)
  BY <1>2, <1>4 DEF DropPending, Level, Call
<1>8. QED
  BY <1>4, <1>6, <1>7, GoesTo, AbstractStutter

LEMMA LockReservedStep ==
  ASSUME IInv, NEW h \in Handle, LockReserved(h)
  PROVE  IInv' /\ AbstractStep
<1>1. Types /\ OneMachine /\ Counts /\ Compatible /\ Locking(h) /\ Unlocking(h)
  BY DEF IInv
<1>2. pc[h] = "idle" /\ locktype[h] = SHARED_LOCK /\ local[h] = {"read"}
  BY <1>1 DEF LockReserved, Idle, Locking, Held
<1>3. LockStep(h) /\ local'[h] = {"read", "reserved"}
  BY <1>1, <1>2, LockFileKeeps DEF LockReserved, Lock, Types
<1>4. Only(h) /\ Types' /\ pc'[h] = "idle" /\ locktype'[h] = RESERVED_LOCK
  BY <1>1, <1>2, <1>3 DEF LockReserved, Becomes, Only, LockStep, Types, Pc, LockType
<1>5. Locking(h)' /\ Unlocking(h)'
  BY <1>2, <1>3, <1>4 DEF Locking, Unlocking, Held, Call
<1>6. IInv'
  BY <1>2, <1>3, <1>4, <1>5, StepKeeps DEF LockStep
<1>7. Owners("reserved") = {}
  BY <1>1, GrantsMeans DEF LockReserved, Conflicts, Lock
<1>8. Level(h) = SHARED_LOCK /\ Level(h)' = RESERVED_LOCK
  BY <1>2, <1>4 DEF Level, Call
<1>9. QED
  BY <1>4, <1>6, <1>7, <1>8, GoesTo, AbstractGetReserved

LEMMA AskAgainStep ==
  ASSUME May = {}, IInv, NEW h \in Handle, AskAgain(h)
  PROVE  IInv' /\ AbstractStep
<1>1. Types /\ OneMachine /\ Counts /\ Compatible /\ Locking(h) /\ Unlocking(h)
  BY DEF IInv
<1>2. pc[h] = "idle" /\ locktype[h] = PENDING_LOCK /\ local[h] = {"pending", "reserved"}
  BY <1>1 DEF AskAgain, Idle, Locking, Held
<1>3. UNCHANGED <<local, byte, shared>>
  BY DEF AskAgain, locks
<1>4. Counts' /\ Compatible' /\ local'[h] = local[h]
  BY <1>1, <1>3 DEF AskAgain, Counts, Compatible, Owners
<1>5. Only(h) /\ Types' /\ pc'[h] = "dropRead" /\ locktype'[h] = PENDING_LOCK
  BY <1>1, <1>2, <1>3 DEF AskAgain, Goto, Only, Types, Pc
<1>6. Locking(h)' /\ Unlocking(h)'
  BY <1>2, <1>4, <1>5 DEF Locking, Unlocking, Held, Call
<1>7. IInv'
  BY <1>2, <1>4, <1>5, <1>6, StepKeeps
<1>8. Level(h)' = Level(h)
  BY <1>2, <1>5 DEF Level, Call
<1>9. QED
  BY <1>5, <1>7, <1>8, GoesTo, AbstractStutter

LEMMA DropReadStep ==
  ASSUME IInv, NEW h \in Handle, DropRead(h)
  PROVE  IInv' /\ AbstractStep
<1>1. Types /\ OneMachine /\ Counts /\ Compatible /\ Locking(h) /\ Unlocking(h)
  BY DEF IInv
<1>2. /\ locktype[h] \in {RESERVED_LOCK, PENDING_LOCK}
      /\ local[h] \ {"read"} = {"pending", "reserved"}
  BY <1>1 DEF DropRead, Locking
<1>3. LockStep(h) /\ local'[h] = {"pending", "reserved"}
  BY <1>1, <1>2, UnlockFileKeeps DEF DropRead
<1>4. Only(h) /\ Types' /\ pc'[h] = "write" /\ locktype'[h] = locktype[h]
  BY <1>1, <1>3 DEF DropRead, Goto, Only, LockStep, Types, Pc
<1>5. Locking(h)' /\ Unlocking(h)'
  BY <1>2, <1>3, <1>4 DEF Locking, Unlocking, Held, Call
<1>6. IInv'
  BY <1>2, <1>3, <1>4, <1>5, StepKeeps DEF LockStep
<1>7. Level(h)' = Level(h)
  BY <1>4 DEF DropRead, Level, Call
<1>8. QED
  BY <1>4, <1>6, <1>7, GoesTo, AbstractStutter

LEMMA LockExclusiveStep ==
  ASSUME IInv, NEW h \in Handle, LockExclusive(h)
  PROVE  IInv' /\ AbstractStep
<1>1. Types /\ OneMachine /\ Counts /\ Compatible /\ Locking(h) /\ Unlocking(h)
  BY DEF IInv
<1>2. /\ pc[h] = "write" /\ locktype[h] \in {RESERVED_LOCK, PENDING_LOCK}
      /\ local[h] = {"pending", "reserved"} /\ Level(h) = PENDING_LOCK
  BY <1>1 DEF LockExclusive, Locking, Level, Call
<1>3. CASE Grants(h, "write", byte[h])
  <2>1. LockStep(h) /\ local'[h] = {"pending", "reserved", "write"}
    BY <1>1, <1>2, <1>3, LockFileKeeps DEF LockExclusive, Lock, Types
  <2>2. Only(h) /\ Types' /\ pc'[h] = "idle" /\ locktype'[h] = EXCLUSIVE_LOCK
    BY <1>1, <1>3, <2>1
    DEF LockExclusive, Becomes, Goto, Only, LockStep, Types, Pc, LockType
  <2>3. Locking(h)' /\ Unlocking(h)'
    BY <2>1, <2>2 DEF Locking, Unlocking, Held, Call
  <2>4. Owners("read") = {} /\ Owners("write") = {}
    BY <1>1, <1>3, GrantsMeans DEF Conflicts, Lock
  <2>5. IInv'
    BY <1>2, <2>1, <2>2, <2>3, <2>4, StepKeeps DEF LockStep
  <2>6. Level(h)' = EXCLUSIVE_LOCK
    BY <2>2 DEF Level, Call
  <2>7. \A g \in Handle \ {h} : Level(g) = NO_LOCK
    <3> SUFFICES ASSUME NEW g \in Handle, g # h PROVE Level(g) = NO_LOCK
      OBVIOUS
    <3>1. "read" \notin local[g]
      BY <2>4 DEF Owners
    <3>2. "pending" \notin local[g]
      BY <1>1, <1>2 DEF Compatible, Conflicts
    <3>3. QED
      BY <3>1, <3>2, LevelBacked DEF LockType
  <2>8. QED
    BY <1>2, <2>2, <2>5, <2>6, <2>7, GoesTo, AbstractGetExclusive
<1>4. CASE ~Grants(h, "write", byte[h])
  <2>1. UNCHANGED <<local, byte, shared>>
    BY <1>4 DEF LockExclusive, locks
  <2>2. Counts' /\ Compatible' /\ local'[h] = local[h]
    BY <1>1, <2>1 DEF LockExclusive, Counts, Compatible, Owners
  <2>3. Only(h) /\ Types' /\ pc'[h] = "idle" /\ locktype'[h] = PENDING_LOCK
    BY <1>1, <1>4, <2>1 DEF LockExclusive, Becomes, Goto, Only, Types, Pc, LockType
  <2>4. Locking(h)' /\ Unlocking(h)'
    BY <1>2, <2>2, <2>3 DEF Locking, Unlocking, Held, Call
  <2>5. IInv'
    BY <1>2, <2>2, <2>3, <2>4, StepKeeps
  <2>6. Level(h)' = PENDING_LOCK
    BY <2>3 DEF Level, Call
  <2>7. QED
    BY <1>2, <2>3, <2>5, <2>6, GoesTo, AbstractStutter
<1>5. QED
  BY <1>3, <1>4

-----------------------------------------------------------------------------
(* winCheckReservedLock().                                                 *)

LEMMA CheckReservedLockStep ==
  ASSUME IInv, NEW h \in Handle, CheckReservedLock(h)
  PROVE  IInv' /\ AbstractStep
<1>1. Types /\ OneMachine /\ Counts /\ Compatible /\ Locking(h) /\ Unlocking(h)
  BY DEF IInv
<1>2. /\ pc[h] = "idle" /\ locktype[h] \in {NO_LOCK, SHARED_LOCK}
      /\ local[h] = Held(locktype[h])
  BY <1>1 DEF CheckReservedLock, Idle, Locking, Types, LockType
<1>3. "reserved" \notin local[h]
  BY <1>2 DEF Held
<1>4. LockStep(h) /\ local'[h] = local[h] \cup {"reserved"}
  BY <1>1, <1>3, LockFileKeeps DEF CheckReservedLock, Lock, Types
<1>5. Only(h) /\ Types' /\ pc'[h] = "probe" /\ locktype'[h] = locktype[h]
  BY <1>1, <1>4 DEF CheckReservedLock, Goto, Only, LockStep, Types, Pc
<1>6. Locking(h)' /\ Unlocking(h)'
  BY <1>2, <1>4, <1>5 DEF Locking, Unlocking, Held, Call
<1>7. IInv'
  BY <1>2, <1>4, <1>5, <1>6, StepKeeps DEF LockStep
<1>8. Level(h)' = Level(h)
  BY <1>2, <1>5 DEF Level, Call
<1>9. QED
  BY <1>5, <1>7, <1>8, GoesTo, AbstractStutter

LEMMA EndCheckStep ==
  ASSUME IInv, NEW h \in Handle, EndCheck(h)
  PROVE  IInv' /\ AbstractStep
<1>1. Types /\ OneMachine /\ Counts /\ Compatible /\ Locking(h) /\ Unlocking(h)
  BY DEF IInv
<1>2. /\ pc[h] = "probe" /\ locktype[h] \in {NO_LOCK, SHARED_LOCK}
      /\ local[h] \ {"reserved"} = Held(locktype[h])
  BY <1>1 DEF EndCheck, Locking, Held
<1>3. LockStep(h) /\ local'[h] = Held(locktype[h])
  BY <1>1, <1>2, UnlockFileKeeps DEF EndCheck
<1>4. Only(h) /\ Types' /\ pc'[h] = "idle" /\ locktype'[h] = locktype[h]
  BY <1>1, <1>3 DEF EndCheck, Goto, Only, LockStep, Types, Pc
<1>5. Locking(h)' /\ Unlocking(h)'
  BY <1>3, <1>4 DEF Locking, Unlocking, Call
<1>6. IInv'
  BY <1>2, <1>3, <1>4, <1>5, StepKeeps DEF LockStep
<1>7. Level(h)' = Level(h)
  BY <1>2, <1>4 DEF Level, Call
<1>8. QED
  BY <1>4, <1>6, <1>7, GoesTo, AbstractStutter

-----------------------------------------------------------------------------
(* winUnlock() and winClose().                                             *)

LEMMA UnlockBegins ==
  ASSUME May = {}, IInv, NEW h \in Handle, NEW t \in {NO_LOCK, SHARED_LOCK}, Unlock(h, t)
  PROVE  IInv' /\ AbstractStep
<1>1. Types /\ OneMachine /\ Counts /\ Compatible /\ Locking(h) /\ Unlocking(h)
  BY DEF IInv
<1>2. /\ pc[h] = "idle" /\ local[h] = Held(locktype[h]) /\ t < locktype[h]
      /\ locktype[h] \in LockType
      /\ ~(locktype[h] = PENDING_LOCK /\ t = SHARED_LOCK)
  BY <1>1 DEF Unlock, Idle, Locking, Types
<1>3. UNCHANGED <<local, byte, shared>>
  BY DEF Unlock, locks
<1>4. Counts' /\ Compatible' /\ local'[h] = local[h]
  BY <1>1, <1>3 DEF Unlock, Counts, Compatible, Owners
<1>5. FirstCall(locktype[h]) \in Call
  BY <1>2 DEF FirstCall, Call, LockType
<1>6. /\ Only(h) /\ Types' /\ pc'[h] = FirstCall(locktype[h])
      /\ locktype'[h] = locktype[h] /\ goal'[h] = t
  BY <1>1, <1>2, <1>3, <1>5 DEF Unlock, Goto, Only, Types, Pc
<1>7. Locking(h)'
  BY <1>5, <1>6 DEF Locking, Call
<1>8. Unlocking(h)'
  BY <1>2, <1>4, <1>6 DEF Unlocking, Held, FirstCall, Call, LockType
<1>9. IInv'
  BY <1>2, <1>4, <1>6, <1>7, <1>8, StepKeeps
<1>10. Level(h) = locktype[h] /\ Level(h)' = t
  BY <1>2, <1>5, <1>6 DEF Level, Call
<1>11. QED
  BY <1>2, <1>6, <1>9, <1>10, GoesTo, AbstractRelease

\* On the way from EXCLUSIVE to SHARED nobody is in the way of the read lock.
LEMMA ReadLockIsFree ==
  ASSUME IInv, NEW h \in Handle, pc[h] = "getRead", NEW b
  PROVE  Grants(h, "read", b)
<1>1. locktype[h] = EXCLUSIVE_LOCK /\ local[h] = {"pending", "reserved"}
  BY DEF IInv, Unlocking
<1>2. Owners("read") = {} /\ Owners("write") = {}
  BY <1>1 DEF IInv, WriterAlone, Owners
<1>3. Cardinality(Owners("write")) = 0
  BY <1>2, FS_EmptySet
<1>4. QED
  BY <1>2, <1>3 DEF IInv, Counts, Grants, WinceGrants, Conflicts, Lock

LEMMA UnlockMoves ==
  ASSUME IInv, NEW h \in Handle, UnlockStep(h)
  PROVE  /\ LockStep(h)
         /\ pc[h] # "getRead" => local'[h] = local[h] \ {Undoes(pc[h])}
         /\ pc[h] = "getRead" => local'[h] = local[h] \cup {"read"}
<1>1. Types /\ OneMachine /\ Counts /\ Compatible /\ Locking(h) /\ Unlocking(h)
  BY DEF IInv
<1>2. CASE pc[h] # "getRead"
  BY <1>1, <1>2, UnlockFileKeeps DEF UnlockStep
<1>3. CASE pc[h] = "getRead"
  <2>1. PICK b \in Byte : LockFile(h, "read", b)
    BY <1>1, <1>3, ReadLockIsFree DEF UnlockStep, getReadLock, Types
  <2>2. "read" \notin local[h]
    BY <1>1, <1>3 DEF Unlocking
  <2>3. QED
    BY <1>1, <1>3, <2>1, <2>2, ReadLockIsFree, LockFileKeeps DEF UnlockStep, Lock
<1>4. QED
  BY <1>2, <1>3

LEMMA UnlockStepStep ==
  ASSUME IInv, NEW h \in Handle, UnlockStep(h)
  PROVE  IInv' /\ AbstractStep
<1> DEFINE next == After(pc[h], locktype[h], goal[h])
<1>1. Types /\ OneMachine /\ Counts /\ Compatible /\ Locking(h) /\ Unlocking(h)
  BY DEF IInv
<1>2. /\ LockStep(h)
      /\ pc[h] # "getRead" => local'[h] = local[h] \ {Undoes(pc[h])}
      /\ pc[h] = "getRead" => local'[h] = local[h] \cup {"read"}
  BY UnlockMoves
<1>3. pc[h] \in Call /\ goal[h] \in {NO_LOCK, SHARED_LOCK} /\ goal[h] < locktype[h]
  BY <1>1 DEF UnlockStep, Unlocking, Types
<1>4. next \in Call \cup {"idle"}
  BY DEF After, Call
<1>5. /\ pc'[h] = next /\ goal'[h] = goal[h]
      /\ locktype'[h] = IF next = "idle" THEN goal[h] ELSE locktype[h]
  BY <1>1 DEF UnlockStep, Becomes, Goto, Types
<1>6. Only(h) /\ Types'
  BY <1>1, <1>2, <1>3, <1>4
  DEF UnlockStep, Becomes, Goto, Only, LockStep, Types, Pc, LockType
<1>7. Locking(h)' /\ Unlocking(h)'
  <2>1. CASE pc[h] = "unlockRange"
    BY <1>1, <1>2, <1>3, <1>5, <2>1
    DEF Locking, Unlocking, After, Undoes, Held, Call
  <2>2. CASE pc[h] = "getRead"
    BY <1>1, <1>2, <1>3, <1>5, <2>2
    DEF Locking, Unlocking, After, Held, Call
  <2>3. CASE pc[h] = "unlockReserved"
    BY <1>1, <1>2, <1>3, <1>5, <2>3
    DEF Locking, Unlocking, After, Undoes, Held, Call
  <2>4. CASE pc[h] = "unlockRead"
    BY <1>1, <1>2, <1>3, <1>5, <2>4
    DEF Locking, Unlocking, After, Undoes, Held, Call
  <2>5. CASE pc[h] = "unlockPending"
    BY <1>1, <1>2, <1>3, <1>5, <2>5
    DEF Locking, Unlocking, After, Undoes, Held, Call
  <2>6. QED
    BY <1>3, <2>1, <2>2, <2>3, <2>4, <2>5 DEF Call
<1>8. pc[h] = "getRead" => "pending" \in local[h]
  BY <1>1 DEF Unlocking
<1>9. IInv'
  <2>1. local'[h] \subseteq local[h] \/ "pending" \in local[h]
    BY <1>2, <1>8
  <2>2. locktype'[h] = EXCLUSIVE_LOCK => locktype[h] = EXCLUSIVE_LOCK
    BY <1>3, <1>5
  <2>3. QED
    BY <1>2, <1>6, <1>7, <2>1, <2>2, StepKeeps DEF LockStep
<1>10. Level(h) = goal[h] /\ Level(h)' = goal[h]
  BY <1>3, <1>4, <1>5 DEF Level, Call
<1>11. QED
  BY <1>6, <1>9, <1>10, GoesTo, AbstractStutter

LEMMA CloseStep ==
  ASSUME IInv, NEW h \in Handle, Close(h)
  PROVE  IInv' /\ AbstractStep
<1>1. Types /\ OneMachine /\ Counts /\ Compatible /\ Locking(h) /\ Unlocking(h)
  BY DEF IInv
<1>2. LockStep(h) /\ local'[h] = {} /\ pc'[h] = "idle"
  BY <1>1, UnlockFileKeeps DEF Close, Idle
<1>3. Only(h) /\ Types' /\ locktype'[h] = NO_LOCK
  BY <1>1, <1>2 DEF Close, Becomes, Only, LockStep, Types, LockType
<1>4. Locking(h)' /\ Unlocking(h)'
  BY <1>2, <1>3 DEF Locking, Unlocking, Held, Call
<1>5. IInv'
  BY <1>2, <1>3, <1>4, StepKeeps DEF LockStep
<1>6. Level(h)' = NO_LOCK
  BY <1>2, <1>3 DEF Level, Call
<1>7. QED
  BY <1>3, <1>5, <1>6, GoesTo, AbstractGiveUp

LEMMA DieStep ==
  ASSUME May = {}, IInv, NEW h \in Handle, Die(h)
  PROVE  IInv' /\ AbstractStep
<1>1. Types /\ OneMachine /\ Counts /\ Compatible /\ Locking(h) /\ Unlocking(h)
  BY DEF IInv
<1>2. UnlockFile(h, local[h])
  BY DEF Die
<1>3. LockStep(h) /\ local'[h] = {}
  BY <1>1, <1>2, UnlockFileKeeps DEF Die
<1>4. Only(h) /\ Types' /\ pc'[h] = "idle" /\ locktype'[h] = NO_LOCK
  BY <1>1, <1>3 DEF Die, Becomes, Goto, Only, LockStep, Types, Pc, LockType
<1>5. Locking(h)' /\ Unlocking(h)'
  BY <1>3, <1>4 DEF Locking, Unlocking, Held, Call
<1>6. IInv'
  BY <1>3, <1>4, <1>5, StepKeeps DEF LockStep
<1>7. Level(h)' = NO_LOCK
  BY <1>4 DEF Level, Call
<1>8. QED
  BY <1>4, <1>6, <1>7, GoesTo, AbstractGiveUp

-----------------------------------------------------------------------------

LEMMA IInvInit == Init => IInv
<1> SUFFICES ASSUME Init PROVE IInv
  OBVIOUS
<1>1. Types
  BY DEF Init, Types, Platform, Lock, LockType, Pc
<1>2. OneMachine
  BY DEF Init, OneMachine
<1>3. \A l : Owners(l) = {}
  BY DEF Init, Owners
<1>4. Counts
  BY <1>3, FS_EmptySet DEF Init, Counts
<1>5. Compatible /\ WriterAlone
  BY DEF Init, Compatible, WriterAlone
<1>6. \A h \in Handle : Locking(h) /\ Unlocking(h)
  BY DEF Init, Locking, Unlocking, Held, Call
<1>7. QED
  BY <1>1, <1>2, <1>4, <1>5, <1>6 DEF IInv

LEMMA IInvStep ==
  ASSUME May = {}
  PROVE  IInv /\ [Next]_vars => IInv' /\ AbstractStep
<1> SUFFICES ASSUME IInv, [Next]_vars PROVE IInv' /\ AbstractStep
  OBVIOUS
<1>1. ASSUME NEW h \in Handle,
             LockPending(h) \/ LockReserved(h) \/ AskAgain(h) \/ CheckReservedLock(h)
      PROVE  IInv' /\ AbstractStep
  BY <1>1, LockPendingStep, LockReservedStep, AskAgainStep, CheckReservedLockStep
<1>2. ASSUME NEW h \in Handle, InCall(h) PROVE IInv' /\ AbstractStep
  BY <1>2, LockSharedStep, DropPendingStep, DropReadStep, LockExclusiveStep,
     EndCheckStep, UnlockStepStep DEF InCall
<1>3. ASSUME NEW h \in Handle, NEW t \in {NO_LOCK, SHARED_LOCK}, Unlock(h, t)
      PROVE  IInv' /\ AbstractStep
  BY <1>3, UnlockBegins
<1>4. ASSUME NEW h \in Handle, Close(h) \/ Die(h) PROVE IInv' /\ AbstractStep
  BY <1>4, CloseStep, DieStep
<1>5. CASE UNCHANGED vars
  <2>1. IInv'
    BY <1>5 DEF vars, locks, IInv, Types, OneMachine, Counts, Compatible, Owners,
                WriterAlone, Locking, Unlocking
  <2>2. \A h \in Handle : Level(h)' = Level(h)
    BY <1>5 DEF vars, locks, Level
  <2>3. Reservers' = Reservers
    BY <1>5, <2>2 DEF vars, locks, Reservers, Owners
  <2>4. QED
    BY <2>1, <2>2, <2>3 DEF AbstractStep, Abstract!vars
<1>6. QED
  BY <1>1, <1>2, <1>3, <1>4, <1>5 DEF Next

LEMMA Always ==
  ASSUME May = {}
  PROVE  Spec => []IInv
BY IInvInit, IInvStep, PTL DEF Spec

LEMMA AbstractInit == Init => Abstract!Init
<1> SUFFICES ASSUME Init PROVE Abstract!Init
  OBVIOUS
<1>1. \A h \in Handle : Level(h) = NO_LOCK
  BY DEF Init, Level, Call
<1>2. Reservers = {}
  BY DEF Init, Reservers, Owners
<1>3. QED
  BY <1>1, <1>2, AbstractConstants DEF Abstract!Init

\* The state is well formed, and on Windows CE no lock is lost from the
\* counts: winLock(), winUnlock() and winClose() give back what they took.
THEOREM WinLockTypeOK ==
  ASSUME May = {}
  PROVE  Spec => []TypeOK
<1>1. IInv => TypeOK
  BY DEF IInv, Types, Counts, TypeOK, Pc
<1>2. QED
  BY <1>1, Always, PTL

\* winLock() and winUnlock() implement the promise of FileLock, whatever the
\* handles call and whenever processes die.
THEOREM WinLockImplements ==
  ASSUME May = {}
  PROVE  Spec => ImplementsFileLock
<1>1. IInv /\ [Next]_vars => AbstractStep
  BY IInvStep
<1>2. QED
  BY <1>1, Always, AbstractInit, PTL DEF Spec, ImplementsFileLock, Abstract!Spec, AbstractStep

\* winCheckReservedLock() never says that nobody writes while a handle holds
\* RESERVED or more.
THEOREM WinLockReservedIsSeen ==
  ASSUME May = {}
  PROVE  Spec => ReservedIsSeen
<1> DEFINE Seen == \A h \in Handle : CheckReservedLock(h) =>
                      \A g \in Handle \ {h} : Level(g) < RESERVED_LOCK
<1>1. IInv => Seen
  <2> SUFFICES ASSUME IInv, NEW h \in Handle, CheckReservedLock(h), NEW g \in Handle
               PROVE  Level(g) < RESERVED_LOCK
    OBVIOUS
  <2>1. Owners("reserved") = {}
    BY GrantsMeans DEF IInv, CheckReservedLock, Conflicts, Lock
  <2>2. QED
    BY <2>1, LevelBacked DEF Owners, LockType
<1>2. QED
  BY <1>1, Always, PTL DEF Spec, ReservedIsSeen

\* "This should never happen": the read lock that winUnlock() gives up for a
\* moment on the way from EXCLUSIVE to SHARED comes back.
THEOREM WinLockReadLockComesBack ==
  ASSUME May = {}
  PROVE  Spec => []ReadLockComesBack
<1>1. IInv => ReadLockComesBack
  BY ReadLockIsFree DEF ReadLockComesBack
<1>2. QED
  BY <1>1, Always, PTL
==============================================================================
