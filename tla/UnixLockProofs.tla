--------------------------- MODULE UnixLockProofs ---------------------------
(***************************************************************************)
(* Machine-checked properties of the POSIX file locks (module UnixLock):   *)
(* what a process knows of its locks is right.  The counts agree with its  *)
(* handles, lockInfo with the strongest of them, and a descriptor whose    *)
(* close() was deferred is closed in the end.                              *)
(***************************************************************************)
EXTENDS UnixLock, FiniteSetTheorems, TLAPS

-----------------------------------------------------------------------------
(* The inductive invariant.                                                *)

InsideMutex == {"sharedRange", "sharedGot", "sharedBusy", "exclRange",
                "downgrade", "dropBytes", "count"}
TakingShared == {"sharedRange", "sharedGot", "sharedBusy"}

\* The level of h as far as lockInfo knows it.
Eff(h) == CASE pc[h] = "setLevel" -> GoalLevel(goal[h])
            [] pc[h] = "count"    -> SHARED_LOCK
            [] OTHER              -> locktype[h]

Counted(p) == {h \in Handle : ProcOf[h] = p /\ Eff(h) >= SHARED_LOCK}

\* Where each thread is, and what it knows there.
Control ==
    /\ \A p \in Proc : mutex[p] # NoHandle => ProcOf[mutex[p]] = p
    /\ \A h \in Handle :
        /\ pc[h] \in InsideMutex <=> mutex[ProcOf[h]] = h
        /\ ~isOpen[h] => pc[h] = "idle" /\ locktype[h] = NO_LOCK
        /\ pc[h] \in TakingShared \cup {"close"} => locktype[h] = NO_LOCK
        /\ pc[h] \in TakingShared => procLock[ProcOf[h]] = NO_LOCK
        /\ pc[h] = "exclRange" =>
               /\ locktype[h] \in {SHARED_LOCK, RESERVED_LOCK}
               /\ procLock[ProcOf[h]] = locktype[h]
        /\ pc[h] \in {"downgrade", "dropBytes"} => locktype[h] > SHARED_LOCK
        /\ pc[h] = "downgrade" => goal[h] = "share"
        /\ pc[h] = "count" => goal[h] # "share" /\ locktype[h] >= SHARED_LOCK
        /\ pc[h] = "setLevel" => locktype[h] > GoalLevel(goal[h])

\* cnt and nLock count the handles that hold a lock, nRef the open ones.
Counts ==
    \A p \in Proc :
        /\ cnt[p] = Cardinality(Counted(p))
        /\ nLock[p] = Cardinality(Counted(p))
        /\ infoRef[p] = Cardinality(Openers(p))
        /\ openRef[p] = Cardinality(Openers(p))

\* Inside a process lockInfo has the strongest level; at most one handle is
\* above SHARED, and one at EXCLUSIVE is the only one with a lock.
ZeroMeansNone ==
    \A p \in Proc : procLock[p] = NO_LOCK <=> cnt[p] = 0
TopIsKnown ==
    \A h \in Handle :
        /\ Eff(h) <= procLock[ProcOf[h]]
        /\ Eff(h) > SHARED_LOCK => Eff(h) = procLock[ProcOf[h]]
OneWriter ==
    \A g, h \in Handle : g # h /\ ProcOf[g] = ProcOf[h] =>
        /\ ~(Eff(g) > SHARED_LOCK /\ Eff(h) > SHARED_LOCK)
        /\ ~(Eff(g) = EXCLUSIVE_LOCK /\ Eff(h) >= SHARED_LOCK)
Levels == ZeroMeansNone /\ TopIsKnown /\ OneWriter

LInv == TypeOK /\ Control /\ Counts /\ Levels

USE ProcOfAssumption, HandleAssumption, MallocAssumption, DeferredAssumption
    DEF NO_LOCK, SHARED_LOCK, RESERVED_LOCK, PENDING_LOCK, EXCLUSIVE_LOCK

-----------------------------------------------------------------------------
(* Finite sets of handles.                                                 *)

\* A subset of the handles is finite, and its cardinality is 0 only if it is
\* empty, 1 only if it has one element.
LEMMA Counting ==
  ASSUME NEW S \in SUBSET Handle
  PROVE  /\ IsFiniteSet(S)
         /\ Cardinality(S) \in Nat
         /\ Cardinality(S) = 0 <=> S = {}
         /\ Cardinality(S) <= 1 => \A g, h \in S : g = h
         /\ \A h : h \notin S => Cardinality(S \cup {h}) = Cardinality(S) + 1
         /\ \A h \in S : Cardinality(S \ {h}) = Cardinality(S) - 1
<1>1. IsFiniteSet(S) /\ Cardinality(S) \in Nat
  BY FS_Subset, FS_CardinalityType
<1>2. Cardinality(S) = 0 <=> S = {}
  BY <1>1, FS_EmptySet
<1>3. Cardinality(S) = 1 => \E x : S = {x}
  BY <1>1, FS_Singleton
<1>4. \A h : h \notin S => Cardinality(S \cup {h}) = Cardinality(S) + 1
  BY <1>1, FS_AddElement
<1>5. \A h \in S : Cardinality(S \ {h}) = Cardinality(S) - 1
  BY <1>1, FS_RemoveElement
<1>6. Cardinality(S) <= 1 => \A g, h \in S : g = h
  BY <1>1, <1>2, <1>3
<1>7. QED
  BY <1>1, <1>2, <1>4, <1>5, <1>6

-----------------------------------------------------------------------------

\* The same, of the sets the counters count.
LEMMA CountedCard ==
  ASSUME NEW p \in Proc
  PROVE  /\ Cardinality(Counted(p)) \in Nat
         /\ Cardinality(Counted(p)) = 0 <=> Counted(p) = {}
         /\ Cardinality(Counted(p)) <= 1 => \A g, h \in Counted(p) : g = h
         /\ \A h : h \notin Counted(p) =>
              Cardinality(Counted(p) \cup {h}) = Cardinality(Counted(p)) + 1
         /\ \A h \in Counted(p) :
              Cardinality(Counted(p) \ {h}) = Cardinality(Counted(p)) - 1
<1> Counted(p) \in SUBSET Handle
  BY DEF Counted
<1> QED
  BY Counting

LEMMA OpenersCard ==
  ASSUME NEW p \in Proc
  PROVE  /\ Cardinality(Openers(p)) \in Nat
         /\ Cardinality(Openers(p)) = 0 <=> Openers(p) = {}
         /\ \A h : h \notin Openers(p) =>
              Cardinality(Openers(p) \cup {h}) = Cardinality(Openers(p)) + 1
         /\ \A h \in Openers(p) :
              Cardinality(Openers(p) \ {h}) = Cardinality(Openers(p)) - 1
<1> Openers(p) \in SUBSET Handle
  BY DEF Openers
<1> QED
  BY Counting

\* Levels are levels.
LEMMA EffType == TypeOK => \A h \in Handle : Eff(h) \in LockType
BY DEF TypeOK, Eff, LockType, GoalLevel

\* The counters stay right when no handle gets or gives back a lock, ...
LEMMA CountsSame ==
  ASSUME Counts, UNCHANGED <<cnt, nLock, infoRef, openRef, isOpen>>,
         \A g \in Handle : Eff(g)' >= SHARED_LOCK <=> Eff(g) >= SHARED_LOCK
  PROVE  Counts'
<1>1. \A q \in Proc : Counted(q)' = Counted(q) /\ Openers(q)' = Openers(q)
  BY DEF Counted, Openers
<1>2. QED
  BY <1>1 DEF Counts

\* ... when one handle gets a lock, ...
LEMMA CountsUp ==
  ASSUME TypeOK, Counts, NEW h \in Handle,
         cnt' = Incr(cnt, ProcOf[h]), nLock' = Incr(nLock, ProcOf[h]),
         UNCHANGED <<infoRef, openRef, isOpen>>,
         ~(Eff(h) >= SHARED_LOCK), Eff(h)' >= SHARED_LOCK,
         \A g \in Handle \ {h} : Eff(g)' >= SHARED_LOCK <=> Eff(g) >= SHARED_LOCK
  PROVE  Counts'
<1> DEFINE p == ProcOf[h]
<1>1. /\ Counted(p)' = Counted(p) \cup {h} /\ h \notin Counted(p)
      /\ \A q \in Proc \ {p} : Counted(q)' = Counted(q)
      /\ \A q \in Proc : Openers(q)' = Openers(q)
  BY DEF Counted, Openers
<1>2. Cardinality(Counted(p)') = Cardinality(Counted(p)) + 1
  BY <1>1, CountedCard
<1>3. \A q \in Proc : /\ cnt'[q] = IF q = p THEN cnt[q] + 1 ELSE cnt[q]
                      /\ nLock'[q] = IF q = p THEN nLock[q] + 1 ELSE nLock[q]
  BY DEF TypeOK, Incr
<1>4. ASSUME NEW q \in Proc
      PROVE  /\ cnt'[q] = Cardinality(Counted(q)')
             /\ nLock'[q] = Cardinality(Counted(q)')
             /\ infoRef'[q] = Cardinality(Openers(q)')
             /\ openRef'[q] = Cardinality(Openers(q)')
  <2>1. /\ cnt[q] = Cardinality(Counted(q)) /\ nLock[q] = Cardinality(Counted(q))
        /\ infoRef[q] = Cardinality(Openers(q)) /\ openRef[q] = Cardinality(Openers(q))
    BY DEF Counts
  <2>2. infoRef' = infoRef /\ openRef' = openRef /\ Openers(q)' = Openers(q)
    BY <1>1
  <2>3. CASE q = p
    BY <1>2, <1>3, <2>1, <2>2, <2>3
  <2>4. CASE q # p
    <3>1. Counted(q)' = Counted(q)
      BY <1>1, <2>4
    <3>2. cnt'[q] = cnt[q] /\ nLock'[q] = nLock[q]
      BY <1>3, <2>4
    <3>3. QED
      BY <2>1, <2>2, <3>1, <3>2
  <2>5. QED
    BY <2>3, <2>4
<1>5. QED
  BY <1>4 DEF Counts

\* ... and when one gives it back.
LEMMA CountsDown ==
  ASSUME TypeOK, Counts, NEW h \in Handle,
         cnt' = Decr(cnt, ProcOf[h]), nLock' = Decr(nLock, ProcOf[h]),
         UNCHANGED <<infoRef, openRef, isOpen>>,
         Eff(h) >= SHARED_LOCK, ~(Eff(h)' >= SHARED_LOCK),
         \A g \in Handle \ {h} : Eff(g)' >= SHARED_LOCK <=> Eff(g) >= SHARED_LOCK
  PROVE  Counts'
<1> DEFINE p == ProcOf[h]
<1>1. /\ Counted(p)' = Counted(p) \ {h} /\ h \in Counted(p)
      /\ \A q \in Proc \ {p} : Counted(q)' = Counted(q)
      /\ \A q \in Proc : Openers(q)' = Openers(q)
  BY DEF Counted, Openers
<1>2. Cardinality(Counted(p)') = Cardinality(Counted(p)) - 1
  BY <1>1, CountedCard
<1>3. \A q \in Proc : /\ cnt'[q] = IF q = p THEN cnt[q] - 1 ELSE cnt[q]
                      /\ nLock'[q] = IF q = p THEN nLock[q] - 1 ELSE nLock[q]
  BY DEF TypeOK, Decr
<1>4. ASSUME NEW q \in Proc
      PROVE  /\ cnt'[q] = Cardinality(Counted(q)')
             /\ nLock'[q] = Cardinality(Counted(q)')
             /\ infoRef'[q] = Cardinality(Openers(q)')
             /\ openRef'[q] = Cardinality(Openers(q)')
  <2>1. /\ cnt[q] = Cardinality(Counted(q)) /\ nLock[q] = Cardinality(Counted(q))
        /\ infoRef[q] = Cardinality(Openers(q)) /\ openRef[q] = Cardinality(Openers(q))
    BY DEF Counts
  <2>2. infoRef' = infoRef /\ openRef' = openRef /\ Openers(q)' = Openers(q)
    BY <1>1
  <2>3. CASE q = p
    BY <1>2, <1>3, <2>1, <2>2, <2>3
  <2>4. CASE q # p
    <3>1. Counted(q)' = Counted(q)
      BY <1>1, <2>4
    <3>2. cnt'[q] = cnt[q] /\ nLock'[q] = nLock[q]
      BY <1>3, <2>4
    <3>3. QED
      BY <2>1, <2>2, <3>1, <3>2
  <2>5. QED
    BY <2>3, <2>4
<1>5. QED
  BY <1>4 DEF Counts

\* A process whose count is 0 has no handle with a lock; a count of 1 is that
\* of one handle.
LEMMA CountMeans ==
  ASSUME Counts, NEW p \in Proc
  PROVE  /\ cnt[p] \in Nat /\ nLock[p] = cnt[p]
         /\ cnt[p] = 0 <=>
              \A h \in Handle : ProcOf[h] = p => ~(Eff(h) >= SHARED_LOCK)
         /\ \A g, h \in Handle :
              cnt[p] <= 1 /\ ProcOf[g] = p /\ ProcOf[h] = p
                /\ Eff(g) >= SHARED_LOCK /\ Eff(h) >= SHARED_LOCK => g = h
<1>1. cnt[p] = Cardinality(Counted(p)) /\ nLock[p] = cnt[p]
  BY DEF Counts
<1>2. cnt[p] \in Nat /\ (cnt[p] = 0 <=> Counted(p) = {})
  BY <1>1, CountedCard
<1>3. cnt[p] <= 1 => \A g, h \in Counted(p) : g = h
  BY <1>1, CountedCard
<1>4. \A h \in Handle : h \in Counted(p) <=>
           ProcOf[h] = p /\ Eff(h) >= SHARED_LOCK
  BY DEF Counted
<1>5. Counted(p) \in SUBSET Handle
  BY DEF Counted
<1>6. cnt[p] = 0 <=> \A h \in Handle : ProcOf[h] = p => ~(Eff(h) >= SHARED_LOCK)
  BY <1>2, <1>4, <1>5
<1>7. ASSUME cnt[p] <= 1, NEW g \in Handle, NEW h \in Handle,
             ProcOf[g] = p, ProcOf[h] = p,
             Eff(g) >= SHARED_LOCK, Eff(h) >= SHARED_LOCK
      PROVE  g = h
  BY <1>3, <1>4, <1>7
<1>8. QED
  BY <1>1, <1>2, <1>6, <1>7

-----------------------------------------------------------------------------
(* Every action preserves the part of the invariant inside the process.    *)

LEMMA InProcessLInv ==
  ASSUME LInv, NEW h \in Handle, LockSharedInProcess(h) PROVE LInv'
<1> DEFINE p == ProcOf[h]
<1> p \in Proc
  OBVIOUS
<1>0. \A g \in Handle : Eff(g) \in LockType
  BY EffType DEF LInv
<1>1. TypeOK'
  BY DEF LInv, kernel, lockInfo, openCnt, TypeOK, PosixLock, PC, LockType, LeaveMutex, EnterMutex, SetLevel, FSetLk,
         Incr, Decr, GoalLevel,
         LockSharedInProcess, SharedCount
<1>2. Control'
  BY DEF LInv, kernel, lockInfo, openCnt, TypeOK, Control, LeaveMutex, EnterMutex, MutexFree, SetLevel, Idle,
         InsideMutex, TakingShared, GoalLevel,
         LockSharedInProcess
<1>3. \A g \in Handle : Eff(g)' = IF g = h THEN SHARED_LOCK ELSE Eff(g)
  BY DEF LInv, kernel, lockInfo, openCnt, TypeOK, Control, Eff, Idle, SetLevel, GoalLevel, InsideMutex,
         TakingShared, LockSharedInProcess
<1>4. Counts'
  <2>1. ~(Eff(h) >= SHARED_LOCK)
    BY DEF LockSharedInProcess, Idle, Eff
  <2>2. /\ cnt' = Incr(cnt, p) /\ nLock' = Incr(nLock, p)
        /\ UNCHANGED <<infoRef, openRef, isOpen>>
    BY DEF LockSharedInProcess, SharedCount
  <2>3. QED
    BY <1>3, <2>1, <2>2, CountsUp DEF LInv
<1>5. Levels'
  <2>1. /\ cnt' = [cnt EXCEPT ![p] = cnt[p] + 1] /\ procLock' = procLock
        /\ procLock[p] \in {SHARED_LOCK, RESERVED_LOCK}
        /\ ~(Eff(h) > SHARED_LOCK)
    BY DEF LockSharedInProcess, SharedCount, Incr, Idle, Eff
  <2>2. cnt[p] \in Nat
    BY CountMeans DEF LInv
  <2>3. ZeroMeansNone'
    BY <2>1, <2>2 DEF LInv, TypeOK, Levels, ZeroMeansNone
  <2>4. TopIsKnown'
    BY <1>0, <1>3, <2>1 DEF LInv, TypeOK, LockType, Levels, TopIsKnown
  <2>5. \A g \in Handle : ProcOf[g] = p => Eff(g) # EXCLUSIVE_LOCK
    BY <2>1 DEF LInv, Levels, TopIsKnown
  <2>6. OneWriter'
    BY <1>0, <1>3, <2>1, <2>5 DEF LInv, LockType, Levels, OneWriter
  <2>7. QED
    BY <2>3, <2>4, <2>6 DEF Levels
<1>6. QED
  BY <1>1, <1>2, <1>4, <1>5 DEF LInv

LEMMA SharedPendingLInv ==
  ASSUME LInv, NEW h \in Handle, LockSharedPending(h) PROVE LInv'
<1> DEFINE p == ProcOf[h]
<1> p \in Proc
  OBVIOUS
<1>0. \A g \in Handle : Eff(g) \in LockType
  BY EffType DEF LInv
<1>1. TypeOK'
  BY DEF LInv, kernel, lockInfo, openCnt, TypeOK, PosixLock, PC, LockType, LeaveMutex, EnterMutex, SetLevel, FSetLk,
         Incr, Decr, GoalLevel,
         LockSharedPending
<1>2. Control'
  BY DEF LInv, kernel, lockInfo, openCnt, TypeOK, Control, LeaveMutex, EnterMutex, MutexFree, SetLevel, Idle,
         InsideMutex, TakingShared, GoalLevel,
         LockSharedPending, Precluded, LockType
<1>3. \A g \in Handle : Eff(g)' = Eff(g)
  BY DEF LInv, kernel, lockInfo, openCnt, TypeOK, Control, Eff, Idle, SetLevel, GoalLevel, InsideMutex,
         TakingShared, LockSharedPending
<1>4. Counts'
  BY <1>0, <1>3, CountsSame DEF LInv, kernel, lockInfo, openCnt, LockType, LockSharedPending
<1>5. Levels'
  BY <1>0, <1>3, CountMeans
  DEF LInv, kernel, lockInfo, openCnt, TypeOK, Levels, ZeroMeansNone,
      TopIsKnown, OneWriter, LockType, SetLevel, Incr, Decr, Precluded, Idle,
      LockSharedPending
<1>6. QED
  BY <1>1, <1>2, <1>4, <1>5 DEF LInv

LEMMA SharedRangeLInv ==
  ASSUME LInv, NEW h \in Handle, LockSharedRange(h) PROVE LInv'
<1> DEFINE p == ProcOf[h]
<1> p \in Proc
  OBVIOUS
<1>0. \A g \in Handle : Eff(g) \in LockType
  BY EffType DEF LInv
<1>1. TypeOK'
  BY DEF LInv, kernel, lockInfo, openCnt, TypeOK, PosixLock, PC, LockType, LeaveMutex, EnterMutex, SetLevel, FSetLk,
         Incr, Decr, GoalLevel,
         LockSharedRange
<1>2. Control'
  BY DEF LInv, kernel, lockInfo, openCnt, TypeOK, Control, LeaveMutex, EnterMutex, MutexFree, SetLevel, Idle,
         InsideMutex, TakingShared, GoalLevel,
         LockSharedRange
<1>3. \A g \in Handle : Eff(g)' = Eff(g)
  BY DEF LInv, kernel, lockInfo, openCnt, TypeOK, Control, Eff, Idle, SetLevel, GoalLevel, InsideMutex,
         TakingShared, LockSharedRange
<1>4. Counts'
  BY <1>0, <1>3, CountsSame DEF LInv, kernel, lockInfo, openCnt, LockType, LockSharedRange
<1>5. Levels'
  BY <1>0, <1>3, CountMeans
  DEF LInv, kernel, lockInfo, openCnt, TypeOK, Levels, ZeroMeansNone,
      TopIsKnown, OneWriter, LockType, SetLevel, Incr, Decr, Precluded, Idle,
      LockSharedRange
<1>6. QED
  BY <1>1, <1>2, <1>4, <1>5 DEF LInv

LEMMA ReservedLInv ==
  ASSUME LInv, NEW h \in Handle, LockReserved(h) PROVE LInv'
<1> DEFINE p == ProcOf[h]
<1> p \in Proc
  OBVIOUS
<1>0. \A g \in Handle : Eff(g) \in LockType
  BY EffType DEF LInv
<1>1. TypeOK'
  BY DEF LInv, kernel, lockInfo, openCnt, TypeOK, PosixLock, PC, LockType, LeaveMutex, EnterMutex, SetLevel, FSetLk,
         Incr, Decr, GoalLevel,
         LockReserved
<1>2. Control'
  BY DEF LInv, kernel, lockInfo, openCnt, TypeOK, Control, LeaveMutex, EnterMutex, MutexFree, SetLevel, Idle,
         InsideMutex, TakingShared, GoalLevel,
         LockReserved
<1>3. \A g \in Handle : Eff(g)' = IF g = h THEN RESERVED_LOCK ELSE Eff(g)
  BY DEF LInv, kernel, lockInfo, openCnt, TypeOK, Control, Eff, Idle, SetLevel, GoalLevel, InsideMutex,
         TakingShared, LockReserved
<1>4. Counts'
  <2>1. Eff(h) >= SHARED_LOCK /\ Eff(h)' >= SHARED_LOCK
    BY <1>3 DEF LInv, TypeOK, Control, LockReserved, SetLevel, Idle, Eff
  <2>2. UNCHANGED <<cnt, nLock, infoRef, openRef, isOpen>>
    BY DEF LockReserved, openCnt
  <2>3. QED
    BY <1>3, <2>1, <2>2, CountsSame DEF LInv
<1>5. Levels'
  <2>1. /\ locktype[h] = SHARED_LOCK /\ procLock[p] = SHARED_LOCK
        /\ procLock' = [procLock EXCEPT ![p] = RESERVED_LOCK]
        /\ cnt' = cnt
    BY DEF LockReserved, Precluded, SetLevel
  <2>2. \A g \in Handle : ProcOf[g] = p => Eff(g) <= SHARED_LOCK
    BY <1>0, <2>1 DEF LInv, LockType, Levels, TopIsKnown
  <2>3. ZeroMeansNone'
    BY <2>1 DEF LInv, TypeOK, Levels, ZeroMeansNone
  <2>4. TopIsKnown'
    BY <1>0, <1>3, <2>1, <2>2 DEF LInv, TypeOK, LockType, Levels, TopIsKnown
  <2>5. OneWriter'
    BY <1>0, <1>3, <2>2 DEF LInv, LockType, Levels, OneWriter
  <2>6. QED
    BY <2>3, <2>4, <2>5 DEF Levels
<1>6. QED
  BY <1>1, <1>2, <1>4, <1>5 DEF LInv

LEMMA ExclPendingLInv ==
  ASSUME LInv, NEW h \in Handle, LockExclusivePending(h) PROVE LInv'
<1> DEFINE p == ProcOf[h]
<1> p \in Proc
  OBVIOUS
<1>0. \A g \in Handle : Eff(g) \in LockType
  BY EffType DEF LInv
<1>1. TypeOK'
  BY DEF LInv, kernel, lockInfo, openCnt, TypeOK, PosixLock, PC, LockType, LeaveMutex, EnterMutex, SetLevel, FSetLk,
         Incr, Decr, GoalLevel,
         LockExclusivePending
<1>2. Control'
  BY DEF LInv, kernel, lockInfo, openCnt, TypeOK, Control, LeaveMutex, EnterMutex, MutexFree, SetLevel, Idle,
         InsideMutex, TakingShared, GoalLevel,
         LockExclusivePending, Precluded
<1>3. \A g \in Handle : Eff(g)' = Eff(g)
  BY DEF LInv, kernel, lockInfo, openCnt, TypeOK, Control, Eff, Idle, SetLevel, GoalLevel, InsideMutex,
         TakingShared, LockExclusivePending
<1>4. Counts'
  BY <1>0, <1>3, CountsSame DEF LInv, kernel, lockInfo, openCnt, LockType, LockExclusivePending
<1>5. Levels'
  BY <1>0, <1>3, CountMeans
  DEF LInv, kernel, lockInfo, openCnt, TypeOK, Levels, ZeroMeansNone,
      TopIsKnown, OneWriter, LockType, SetLevel, Incr, Decr, Precluded, Idle,
      LockExclusivePending
<1>6. QED
  BY <1>1, <1>2, <1>4, <1>5 DEF LInv

LEMMA ExclRangeLInv ==
  ASSUME LInv, NEW h \in Handle, LockExclusiveRange(h) PROVE LInv'
<1> DEFINE p == ProcOf[h]
<1> p \in Proc
  OBVIOUS
<1>0. \A g \in Handle : Eff(g) \in LockType
  BY EffType DEF LInv
<1>1. TypeOK'
  BY DEF LInv, kernel, lockInfo, openCnt, TypeOK, PosixLock, PC, LockType, LeaveMutex, EnterMutex, SetLevel, FSetLk,
         Incr, Decr, GoalLevel,
         LockExclusiveRange
<1>2. Control'
  BY DEF LInv, kernel, lockInfo, openCnt, TypeOK, Control, LeaveMutex, EnterMutex, MutexFree, SetLevel, Idle,
         InsideMutex, TakingShared, GoalLevel,
         LockExclusiveRange
<1>3. \A g \in Handle : Eff(g)' = IF g = h THEN locktype'[h] ELSE Eff(g)
  BY DEF LInv, kernel, lockInfo, openCnt, TypeOK, Control, Eff, Idle, SetLevel, GoalLevel, InsideMutex,
         TakingShared, LockExclusiveRange
<1>4. Counts'
  <2>1. Eff(h) >= SHARED_LOCK /\ Eff(h)' >= SHARED_LOCK
    BY <1>3 DEF LInv, TypeOK, Control, LockExclusiveRange, SetLevel, Idle, Eff
  <2>2. UNCHANGED <<cnt, nLock, infoRef, openRef, isOpen>>
    BY DEF LockExclusiveRange, openCnt
  <2>3. QED
    BY <1>3, <2>1, <2>2, CountsSame DEF LInv
<1>5. Levels'
  <2>1. /\ locktype'[h] \in {PENDING_LOCK, EXCLUSIVE_LOCK}
        /\ procLock' = [procLock EXCEPT ![p] = locktype'[h]]
        /\ cnt' = cnt
        /\ Eff(h) >= SHARED_LOCK
        /\ locktype'[h] = EXCLUSIVE_LOCK => cnt[p] <= 1
    BY DEF LInv, TypeOK, Control, LockExclusiveRange, AloneInProcess, SetLevel,
           Idle, Eff
  <2>2. cnt[p] # 0
    BY <2>1, CountMeans DEF LInv
  <2>3. procLock[p] = Eff(h)
    BY DEF LInv, TypeOK, Control, LockExclusiveRange, Idle, Eff, Levels,
           TopIsKnown
  <2>4. \A g \in Handle \ {h} : ProcOf[g] = p => Eff(g) <= SHARED_LOCK
    BY <1>0, <2>1, <2>3
    DEF LInv, LockType, Levels, TopIsKnown, OneWriter
  <2>5. locktype'[h] = EXCLUSIVE_LOCK =>
          \A g \in Handle \ {h} : ProcOf[g] = p => ~(Eff(g) >= SHARED_LOCK)
    BY <2>1, CountMeans DEF LInv
  <2>6. ZeroMeansNone'
    BY <2>1, <2>2 DEF LInv, TypeOK, Levels, ZeroMeansNone
  <2>7. TopIsKnown'
    BY <1>0, <1>3, <2>1, <2>4 DEF LInv, TypeOK, LockType, Levels, TopIsKnown
  <2>8. OneWriter'
    BY <1>0, <1>3, <2>1, <2>4, <2>5 DEF LInv, LockType, Levels, OneWriter
  <2>9. QED
    BY <2>6, <2>7, <2>8 DEF Levels
<1>6. QED
  BY <1>1, <1>2, <1>4, <1>5 DEF LInv

LEMMA UnlockLInv ==
  ASSUME LInv, NEW h \in Handle, NEW d \in Goal, Unlock(h, d) PROVE LInv'
<1> DEFINE p == ProcOf[h]
<1> p \in Proc
  OBVIOUS
<1>0. \A g \in Handle : Eff(g) \in LockType
  BY EffType DEF LInv
<1>1. TypeOK'
  BY DEF LInv, kernel, lockInfo, openCnt, TypeOK, PosixLock, PC, LockType, LeaveMutex, EnterMutex, SetLevel, FSetLk,
         Incr, Decr, GoalLevel,
         Unlock, Goal
<1>2. Control'
  <2>1. /\ pc[h] = "idle" /\ isOpen[h] /\ mutex[p] = NoHandle
        /\ mutex' = [mutex EXCEPT ![p] = h]
        /\ goal' = [goal EXCEPT ![h] = d]
        /\ UNCHANGED <<isOpen, locktype, procLock>>
        /\ \A g \in Handle \ {h} : pc'[g] = pc[g]
        /\ pc'[h] \in {"count", "downgrade", "dropBytes"}
        /\ pc'[h] = "count" => d # "share" /\ locktype[h] >= SHARED_LOCK
        /\ pc'[h] # "count" => locktype[h] > SHARED_LOCK
        /\ pc'[h] = "downgrade" => d = "share"
    BY DEF LInv, TypeOK, LockType, Unlock, Idle, MutexFree, EnterMutex,
           GoalLevel, lockInfo
  <2>2. QED
    BY <2>1 DEF LInv, TypeOK, Control, InsideMutex, TakingShared
<1>3. \A g \in Handle : Eff(g)' = Eff(g)
  BY DEF LInv, kernel, lockInfo, openCnt, TypeOK, Control, Eff, Idle, SetLevel, GoalLevel, InsideMutex,
         TakingShared, Unlock
<1>4. Counts'
  BY <1>0, <1>3, CountsSame DEF LInv, kernel, lockInfo, openCnt, LockType, Unlock
<1>5. Levels'
  BY <1>0, <1>3, CountMeans
  DEF LInv, kernel, lockInfo, openCnt, TypeOK, Levels, ZeroMeansNone,
      TopIsKnown, OneWriter, LockType, SetLevel, Incr, Decr, Precluded, Idle,
      Unlock
<1>6. QED
  BY <1>1, <1>2, <1>4, <1>5 DEF LInv

LEMMA DowngradeLInv ==
  ASSUME LInv, NEW h \in Handle, UnlockDowngrade(h) PROVE LInv'
<1> DEFINE p == ProcOf[h]
<1> p \in Proc
  OBVIOUS
<1>0. \A g \in Handle : Eff(g) \in LockType
  BY EffType DEF LInv
<1>1. TypeOK'
  BY DEF LInv, kernel, lockInfo, openCnt, TypeOK, PosixLock, PC, LockType, LeaveMutex, EnterMutex, SetLevel, FSetLk,
         Incr, Decr, GoalLevel,
         UnlockDowngrade
<1>2. Control'
  BY DEF LInv, kernel, lockInfo, openCnt, TypeOK, Control, LeaveMutex, EnterMutex, MutexFree, SetLevel, Idle,
         InsideMutex, TakingShared, GoalLevel,
         UnlockDowngrade
<1>3. \A g \in Handle : Eff(g)' = Eff(g)
  BY DEF LInv, kernel, lockInfo, openCnt, TypeOK, Control, Eff, Idle, SetLevel, GoalLevel, InsideMutex,
         TakingShared, UnlockDowngrade
<1>4. Counts'
  BY <1>0, <1>3, CountsSame DEF LInv, kernel, lockInfo, openCnt, LockType, UnlockDowngrade
<1>5. Levels'
  BY <1>0, <1>3, CountMeans
  DEF LInv, kernel, lockInfo, openCnt, TypeOK, Levels, ZeroMeansNone,
      TopIsKnown, OneWriter, LockType, SetLevel, Incr, Decr, Precluded, Idle,
      UnlockDowngrade
<1>6. QED
  BY <1>1, <1>2, <1>4, <1>5 DEF LInv

LEMMA DropBytesLInv ==
  ASSUME LInv, NEW h \in Handle, UnlockDropBytes(h) PROVE LInv'
<1> DEFINE p == ProcOf[h]
<1> p \in Proc
  OBVIOUS
<1>0. \A g \in Handle : Eff(g) \in LockType
  BY EffType DEF LInv
<1>1. TypeOK'
  BY DEF LInv, kernel, lockInfo, openCnt, TypeOK, PosixLock, PC, LockType, LeaveMutex, EnterMutex, SetLevel, FSetLk,
         Incr, Decr, GoalLevel,
         UnlockDropBytes
<1>2. Control'
  <2>1. /\ pc[h] = "dropBytes" /\ mutex[p] = h
        /\ locktype[h] > SHARED_LOCK
        /\ UNCHANGED <<isOpen, locktype, goal>>
        /\ \A g \in Handle \ {h} : pc'[g] = pc[g]
        /\ \A q \in Proc \ {p} : mutex'[q] = mutex[q] /\ procLock'[q] = procLock[q]
        /\ \/ goal[h] = "share" /\ pc'[h] = "setLevel" /\ mutex'[p] = NoHandle
           \/ goal[h] # "share" /\ pc'[h] = "count" /\ mutex'[p] = h
    BY DEF LInv, TypeOK, UnlockDropBytes, Control, InsideMutex, LeaveMutex
  <2>2. \A g \in Handle \ {h} : ProcOf[g] = p => pc[g] \notin InsideMutex
    BY <2>1 DEF LInv, Control
  <2>3. QED
    BY <2>1, <2>2
    DEF LInv, TypeOK, LockType, Control, InsideMutex, TakingShared, GoalLevel
<1>3. \A g \in Handle : Eff(g)' = IF g = h THEN SHARED_LOCK ELSE Eff(g)
  BY DEF LInv, kernel, lockInfo, openCnt, TypeOK, Control, Eff, Idle, SetLevel, GoalLevel, InsideMutex,
         TakingShared, UnlockDropBytes
<1>4. Counts'
  <2>1. Eff(h) >= SHARED_LOCK /\ Eff(h)' >= SHARED_LOCK
    BY <1>3 DEF LInv, TypeOK, LockType, Control, UnlockDropBytes, Eff
  <2>2. UNCHANGED <<cnt, nLock, infoRef, openRef, isOpen>>
    BY DEF UnlockDropBytes, openCnt
  <2>3. QED
    BY <1>3, <2>1, <2>2, CountsSame DEF LInv
<1>5. Levels'
  <2>1. /\ procLock' = [procLock EXCEPT ![p] = SHARED_LOCK]
        /\ cnt' = cnt
        /\ Eff(h) > SHARED_LOCK
    BY DEF LInv, TypeOK, Control, UnlockDropBytes, Eff, lockInfo
  <2>2. cnt[p] # 0
    BY <1>0, <2>1, CountMeans DEF LInv, LockType
  <2>3. \A g \in Handle \ {h} : ProcOf[g] = p => Eff(g) <= SHARED_LOCK
    BY <1>0, <2>1 DEF LInv, LockType, Levels, OneWriter
  <2>4. ZeroMeansNone'
    BY <2>1, <2>2 DEF LInv, TypeOK, Levels, ZeroMeansNone
  <2>5. TopIsKnown'
    BY <1>0, <1>3, <2>1, <2>3 DEF LInv, TypeOK, LockType, Levels, TopIsKnown
  <2>6. OneWriter'
    BY <1>0, <1>3, <2>1, <2>3 DEF LInv, LockType, Levels, OneWriter
  <2>7. QED
    BY <2>4, <2>5, <2>6 DEF Levels
<1>6. QED
  BY <1>1, <1>2, <1>4, <1>5 DEF LInv

LEMMA CountLInv ==
  ASSUME LInv, NEW h \in Handle, UnlockCount(h) PROVE LInv'
<1> DEFINE p == ProcOf[h]
<1> p \in Proc
  OBVIOUS
<1>0. \A g \in Handle : Eff(g) \in LockType
  BY EffType DEF LInv
<1>1. TypeOK'
  <2>1. Eff(h) >= SHARED_LOCK
    BY DEF UnlockCount, Eff
  <2>2. cnt[p] - 1 \in Nat /\ nLock[p] - 1 \in Nat
    BY <2>1, CountMeans DEF LInv
  <2>3. cnt' \in [Proc -> Nat] /\ nLock' \in [Proc -> Nat]
    BY <2>2 DEF LInv, TypeOK, UnlockCount, Decr
  <2>4. nPending' \in [Proc -> 0 .. MaxDeferred]
    BY DEF LInv, TypeOK, UnlockCount, DeferredLeft
  <2>5. /\ pendingByte' \in [Proc -> PosixLock]
        /\ reservedByte' \in [Proc -> PosixLock]
        /\ sharedRange' \in [Proc -> PosixLock]
    BY DEF LInv, TypeOK, UnlockCount, DropAll, FSetLk, PosixLock, kernel
  <2>6. procLock' \in [Proc -> LockType]
    BY DEF LInv, TypeOK, UnlockCount, LockType
  <2>7. QED
    BY <2>3, <2>4, <2>5, <2>6 DEF LInv, TypeOK, UnlockCount, LeaveMutex, PC
<1>2. Control'
  <2>1. /\ pc[h] = "count" /\ mutex[p] = h
        /\ goal[h] # "share" /\ locktype[h] >= SHARED_LOCK
        /\ UNCHANGED <<isOpen, locktype, goal>>
        /\ pc'[h] = "setLevel" /\ mutex'[p] = NoHandle
        /\ \A g \in Handle \ {h} : pc'[g] = pc[g]
        /\ \A q \in Proc \ {p} : mutex'[q] = mutex[q] /\ procLock'[q] = procLock[q]
    BY DEF LInv, TypeOK, UnlockCount, Control, InsideMutex, LeaveMutex
  <2>2. \A g \in Handle \ {h} : ProcOf[g] = p => pc[g] \notin InsideMutex
    BY <2>1 DEF LInv, Control
  <2>3. QED
    BY <2>1, <2>2
    DEF LInv, TypeOK, LockType, Control, InsideMutex, TakingShared, GoalLevel
<1>3. \A g \in Handle : Eff(g)' = IF g = h THEN NO_LOCK ELSE Eff(g)
  BY DEF LInv, kernel, lockInfo, openCnt, TypeOK, Control, Eff, Idle, SetLevel, GoalLevel, InsideMutex,
         TakingShared, UnlockCount
<1>4. Counts'
  <2>1. Eff(h) >= SHARED_LOCK
    BY DEF UnlockCount, Eff
  <2>2. /\ cnt' = Decr(cnt, p) /\ nLock' = Decr(nLock, p)
        /\ UNCHANGED <<infoRef, openRef, isOpen>>
    BY DEF UnlockCount
  <2>3. QED
    BY <1>3, <2>1, <2>2, CountsDown DEF LInv
<1>5. Levels'
  <2>1. /\ cnt' = [cnt EXCEPT ![p] = cnt[p] - 1]
        /\ procLock' = IF cnt[p] = 1 THEN [procLock EXCEPT ![p] = NO_LOCK]
                       ELSE procLock
        /\ Eff(h) = SHARED_LOCK
    BY DEF UnlockCount, Decr, Eff
  <2>2. cnt[p] \in Nat /\ cnt[p] # 0
    BY <2>1, CountMeans DEF LInv
  <2>3. cnt[p] = 1 =>
          \A g \in Handle \ {h} : ProcOf[g] = p => ~(Eff(g) >= SHARED_LOCK)
    BY <2>1, CountMeans DEF LInv
  <2>4. ZeroMeansNone'
    BY <2>1, <2>2 DEF LInv, TypeOK, Levels, ZeroMeansNone
  <2>5. TopIsKnown'
    BY <1>0, <1>3, <2>1, <2>3 DEF LInv, TypeOK, LockType, Levels, TopIsKnown
  <2>6. OneWriter'
    BY <1>0, <1>3, <2>1 DEF LInv, LockType, Levels, OneWriter
  <2>7. QED
    BY <2>4, <2>5, <2>6 DEF Levels
<1>6. QED
  BY <1>1, <1>2, <1>4, <1>5 DEF LInv

LEMMA SetLevelLInv ==
  ASSUME LInv, NEW h \in Handle, UnlockSetLevel(h) PROVE LInv'
<1> DEFINE p == ProcOf[h]
<1> p \in Proc
  OBVIOUS
<1>0. \A g \in Handle : Eff(g) \in LockType
  BY EffType DEF LInv
<1>1. TypeOK'
  BY DEF LInv, kernel, lockInfo, openCnt, TypeOK, PosixLock, PC, LockType, LeaveMutex, EnterMutex, SetLevel, FSetLk,
         Incr, Decr, GoalLevel,
         UnlockSetLevel, Goal
<1>2. Control'
  BY DEF LInv, kernel, lockInfo, openCnt, TypeOK, Control, LeaveMutex, EnterMutex, MutexFree, SetLevel, Idle,
         InsideMutex, TakingShared, GoalLevel,
         UnlockSetLevel
<1>3. \A g \in Handle : Eff(g)' = Eff(g)
  BY DEF LInv, kernel, lockInfo, openCnt, TypeOK, Control, Eff, Idle, SetLevel, GoalLevel, InsideMutex,
         TakingShared, UnlockSetLevel
<1>4. Counts'
  BY <1>0, <1>3, CountsSame DEF LInv, kernel, lockInfo, openCnt, LockType, UnlockSetLevel
<1>5. Levels'
  BY <1>0, <1>3, CountMeans
  DEF LInv, kernel, lockInfo, openCnt, TypeOK, Levels, ZeroMeansNone,
      TopIsKnown, OneWriter, LockType, SetLevel, Incr, Decr, Precluded, Idle,
      UnlockSetLevel
<1>6. QED
  BY <1>1, <1>2, <1>4, <1>5 DEF LInv

LEMMA DropPendingLInv ==
  ASSUME LInv, NEW h \in Handle, LockSharedDropPending(h) PROVE LInv'
<1> DEFINE p == ProcOf[h]
<1> p \in Proc
  OBVIOUS
<1>0. \A g \in Handle : Eff(g) \in LockType
  BY EffType DEF LInv
<1>1. TypeOK'
  BY DEF LInv, TypeOK, LockSharedDropPending, PosixLock, PC, LockType,
         LeaveMutex, SetLevel, FSetLk, Incr
<1>2. Control'
  BY DEF LInv, TypeOK, Control, LockSharedDropPending, LeaveMutex, SetLevel,
         InsideMutex, TakingShared, GoalLevel
<1>3. CASE pc[h] = "sharedGot"
  <2>1. \A g \in Handle : Eff(g)' = IF g = h THEN SHARED_LOCK ELSE Eff(g)
    BY <1>3 DEF LInv, TypeOK, Eff, LockSharedDropPending, SetLevel, GoalLevel
  <2>2. cnt[p] = 0
    BY <1>3 DEF LInv, Control, TakingShared, Levels, ZeroMeansNone
  <2>3. \A g \in Handle : ProcOf[g] = p => ~(Eff(g) >= SHARED_LOCK)
    BY <2>2, CountMeans DEF LInv
  <2>4. /\ cnt' = Incr(cnt, p) /\ nLock' = Incr(nLock, p)
        /\ procLock' = [procLock EXCEPT ![p] = SHARED_LOCK]
        /\ UNCHANGED <<infoRef, openRef, isOpen>>
    BY <1>3, <2>2 DEF LockSharedDropPending, Incr, SetLevel
  <2>5. Counts'
    BY <2>1, <2>3, <2>4, CountsUp DEF LInv
  <2>6. Levels'
    BY <1>0, <2>1, <2>2, <2>3, <2>4
    DEF LInv, TypeOK, Levels, ZeroMeansNone, TopIsKnown, OneWriter, LockType,
        Incr
  <2>7. QED
    BY <1>1, <1>2, <2>5, <2>6 DEF LInv
<1>4. CASE pc[h] = "sharedBusy"
  <2>1. \A g \in Handle : Eff(g)' = Eff(g)
    BY <1>4 DEF LInv, TypeOK, Eff, LockSharedDropPending, GoalLevel
  <2>2. UNCHANGED <<cnt, nLock, procLock, infoRef, openRef, isOpen>>
    BY <1>4 DEF LockSharedDropPending
  <2>3. Counts'
    BY <2>1, <2>2, CountsSame DEF LInv
  <2>4. Levels'
    BY <2>1, <2>2 DEF LInv, Levels, ZeroMeansNone, TopIsKnown, OneWriter
  <2>5. QED
    BY <1>1, <1>2, <2>3, <2>4 DEF LInv
<1>5. QED
  BY <1>3, <1>4 DEF LockSharedDropPending

\* A lockInfo or openCnt without references stands for a process without locks.
LEMMA UnreferencedIsZero ==
  ASSUME LInv, NEW p \in Proc, infoRef[p] = 0 \/ openRef[p] = 0
  PROVE  cnt[p] = 0 /\ nLock[p] = 0 /\ procLock[p] = NO_LOCK
<1>1. Openers(p) = {}
  BY OpenersCard DEF LInv, Counts
<1>2. \A h \in Handle : ProcOf[h] = p => Eff(h) = NO_LOCK
  BY <1>1 DEF Openers, LInv, Control, Eff
<1>3. cnt[p] = 0 /\ nLock[p] = 0
  BY <1>2, CountMeans DEF LInv
<1>4. QED
  BY <1>3 DEF LInv, Levels, ZeroMeansNone

LEMMA OpenLInv ==
  ASSUME LInv, NEW h \in Handle, Open(h) PROVE LInv'
<1> DEFINE p == ProcOf[h]
<1> p \in Proc
  OBVIOUS
<1>1. UNCHANGED <<cnt, procLock, nLock>>
  BY UnreferencedIsZero DEF LInv, TypeOK, Open
<1>2. TypeOK'
  BY <1>1 DEF LInv, TypeOK, Open, Incr, kernel
<1>3. Control'
  BY <1>1 DEF LInv, TypeOK, Control, Open, InsideMutex, TakingShared
<1>4. \A g \in Handle : Eff(g)' = Eff(g)
  BY DEF Eff, Open
<1>5. Counts'
  <2>1. /\ \A q \in Proc : Counted(q)' = Counted(q)
        /\ Openers(p)' = Openers(p) \cup {h} /\ h \notin Openers(p)
        /\ \A q \in Proc \ {p} : Openers(q)' = Openers(q)
    BY <1>4 DEF LInv, TypeOK, Counted, Openers, Open
  <2>2. Cardinality(Openers(p)') = Cardinality(Openers(p)) + 1
    BY <2>1, OpenersCard
  <2>3. \A q \in Proc : /\ infoRef'[q] = IF q = p THEN infoRef[q] + 1 ELSE infoRef[q]
                        /\ openRef'[q] = IF q = p THEN openRef[q] + 1 ELSE openRef[q]
    BY DEF LInv, TypeOK, Open, Incr
  <2>4. ASSUME NEW q \in Proc
        PROVE  /\ cnt'[q] = Cardinality(Counted(q)')
               /\ nLock'[q] = Cardinality(Counted(q)')
               /\ infoRef'[q] = Cardinality(Openers(q)')
               /\ openRef'[q] = Cardinality(Openers(q)')
    <3>1. /\ cnt[q] = Cardinality(Counted(q)) /\ nLock[q] = Cardinality(Counted(q))
          /\ infoRef[q] = Cardinality(Openers(q)) /\ openRef[q] = Cardinality(Openers(q))
      BY DEF LInv, Counts
    <3>2. cnt' = cnt /\ nLock' = nLock /\ Counted(q)' = Counted(q)
      BY <1>1, <2>1
    <3>3. CASE q = p
      BY <2>2, <2>3, <3>1, <3>2, <3>3
    <3>4. CASE q # p
      <4>1. Openers(q)' = Openers(q) /\ infoRef'[q] = infoRef[q] /\ openRef'[q] = openRef[q]
        BY <2>1, <2>3, <3>4
      <4>2. QED
        BY <3>1, <3>2, <4>1
    <3>5. QED
      BY <3>3, <3>4
  <2>5. QED
    BY <2>4 DEF Counts
<1>6. Levels'
  BY <1>1, <1>4 DEF LInv, Levels, ZeroMeansNone, TopIsKnown, OneWriter
<1>7. QED
  BY <1>2, <1>3, <1>5, <1>6 DEF LInv

LEMMA OpenNoMemLInv ==
  ASSUME LInv, NEW h \in Handle, OpenNoMem(h) PROVE LInv'
<1>1. TypeOK'
  BY DEF LInv, TypeOK, OpenNoMem, DropAll, FSetLk, PosixLock, lockInfo, openCnt
<1>2. Control'
  BY DEF LInv, Control, OpenNoMem, lockInfo
<1>3. \A g \in Handle : Eff(g)' = Eff(g)
  BY DEF Eff, OpenNoMem
<1>4. UNCHANGED <<cnt, nLock, procLock, infoRef, openRef, isOpen>>
  BY DEF OpenNoMem, lockInfo, openCnt
<1>5. Counts'
  BY <1>3, <1>4, CountsSame DEF LInv
<1>6. Levels'
  BY <1>3, <1>4 DEF LInv, Levels, ZeroMeansNone, TopIsKnown, OneWriter
<1>7. QED
  BY <1>1, <1>2, <1>5, <1>6 DEF LInv

LEMMA CloseLInv ==
  ASSUME LInv, NEW h \in Handle, Close(h) PROVE LInv'
<1> DEFINE p == ProcOf[h]
<1> p \in Proc
  OBVIOUS
<1>1. /\ isOpen[h] /\ locktype[h] = NO_LOCK /\ pc[h] \in {"idle", "close"}
      /\ isOpen' = [isOpen EXCEPT ![h] = FALSE]
      /\ pc' = [pc EXCEPT ![h] = "idle"]
      /\ infoRef' = Decr(infoRef, p) /\ openRef' = Decr(openRef, p)
      /\ UNCHANGED <<mutex, cnt, procLock, nLock, locktype, goal>>
  BY DEF LInv, Control, Close, TakingShared
<1>2. \A g \in Handle : Eff(g)' = Eff(g)
  BY <1>1 DEF LInv, TypeOK, Eff
<1>3. Openers(p)' = Openers(p) \ {h} /\ h \in Openers(p)
  BY <1>1 DEF LInv, TypeOK, Openers
<1>4. Cardinality(Openers(p)') = Cardinality(Openers(p)) - 1
  BY <1>3, OpenersCard
<1>5. /\ \A q \in Proc : Counted(q)' = Counted(q)
      /\ \A q \in Proc \ {p} : Openers(q)' = Openers(q)
  BY <1>1, <1>2 DEF LInv, TypeOK, Counted, Openers
<1>6. \A q \in Proc : /\ infoRef'[q] = IF q = p THEN infoRef[q] - 1 ELSE infoRef[q]
                      /\ openRef'[q] = IF q = p THEN openRef[q] - 1 ELSE openRef[q]
  BY <1>1 DEF LInv, TypeOK, Decr
<1>7. Counts'
  <2>1. \A q \in Proc : /\ cnt'[q] = Cardinality(Counted(q)')
                        /\ nLock'[q] = Cardinality(Counted(q)')
                        /\ infoRef'[q] = Cardinality(Openers(q)')
                        /\ openRef'[q] = Cardinality(Openers(q)')
    BY <1>1, <1>4, <1>5, <1>6 DEF LInv, Counts
  <2>2. QED
    BY <2>1 DEF Counts
<1>8. infoRef' \in [Proc -> Nat] /\ openRef' \in [Proc -> Nat]
  <2>1. infoRef[p] - 1 \in Nat /\ openRef[p] - 1 \in Nat
    BY <1>3, OpenersCard DEF LInv, Counts
  <2>2. QED
    BY <1>1, <2>1 DEF LInv, TypeOK, Decr
<1>9. TypeOK'
  <2>1. nPending' \in [Proc -> 0 .. MaxDeferred]
    BY DEF LInv, TypeOK, Close, Incr
  <2>2. /\ pendingByte' \in [Proc -> PosixLock]
        /\ reservedByte' \in [Proc -> PosixLock]
        /\ sharedRange' \in [Proc -> PosixLock]
    BY DEF LInv, TypeOK, Close, DropAll, FSetLk, PosixLock, kernel
  <2>3. QED
    BY <1>1, <1>8, <2>1, <2>2 DEF LInv, TypeOK, PC
<1>10. Control'
  BY <1>1 DEF LInv, TypeOK, Control, InsideMutex, TakingShared
<1>11. Levels'
  BY <1>1, <1>2 DEF LInv, Levels, ZeroMeansNone, TopIsKnown, OneWriter
<1>12. QED
  BY <1>7, <1>9, <1>10, <1>11 DEF LInv

LEMMA CrashLInv ==
  ASSUME LInv, NEW p \in Proc, Crash(p) PROVE LInv'
<1>0. \A g \in Handle : Eff(g) \in LockType
  BY EffType DEF LInv
<1>1. TypeOK'
  <2>1. /\ pendingByte' \in [Proc -> PosixLock]
        /\ reservedByte' \in [Proc -> PosixLock]
        /\ sharedRange' \in [Proc -> PosixLock]
    BY DEF LInv, TypeOK, Crash, DropAll, FSetLk, PosixLock
  <2>2. /\ mutex' \in [Proc -> Handle \cup {NoHandle}]
        /\ procLock' \in [Proc -> LockType]
    BY DEF LInv, TypeOK, Crash, LockType, NO_LOCK, EXCLUSIVE_LOCK
  <2>3. /\ cnt' \in [Proc -> Nat] /\ infoRef' \in [Proc -> Nat]
        /\ openRef' \in [Proc -> Nat] /\ nLock' \in [Proc -> Nat]
        /\ nPending' \in [Proc -> 0 .. MaxDeferred]
    BY DeferredAssumption DEF LInv, TypeOK, Crash
  <2>4. /\ isOpen' \in [Handle -> BOOLEAN]
        /\ locktype' \in [Handle -> LockType]
    <3>1. NO_LOCK \in LockType
      BY DEF LockType
    <3>2. locktype' = [h \in Handle |-> IF ProcOf[h] = p THEN NO_LOCK
                                       ELSE locktype[h]]
      BY DEF Crash
    <3>3. locktype' \in [Handle -> LockType]
      BY <3>1, <3>2 DEF LInv, TypeOK
    <3>4. isOpen' \in [Handle -> BOOLEAN]
      BY ZenonT(30) DEF LInv, TypeOK, Crash
    <3>5. QED
      BY <3>3, <3>4
  <2>5. pc' \in [Handle -> PC] /\ goal' \in [Handle -> Goal]
    BY DEF LInv, TypeOK, Crash, PC, Goal
  <2>6. QED
    BY <2>1, <2>2, <2>3, <2>4, <2>5 DEF TypeOK
<1>2. Control'
  BY DEF LInv, TypeOK, Control, Crash, InsideMutex, TakingShared
<1>3. \A g \in Handle : Eff(g)' = IF ProcOf[g] = p THEN NO_LOCK ELSE Eff(g)
  BY DEF Eff, Crash, GoalLevel
<1>4. /\ \A q \in Proc \ {p} : Counted(q)' = Counted(q) /\ Openers(q)' = Openers(q)
      /\ Counted(p)' = {} /\ Openers(p)' = {}
  <2>1. \A q \in Proc \ {p} : Counted(q)' = Counted(q)
    BY <1>3 DEF Counted
  <2>2. \A q \in Proc \ {p} : Openers(q)' = Openers(q)
    BY DEF Openers, Crash
  <2>3. Counted(p)' = {}
    BY <1>3 DEF Counted, NO_LOCK, SHARED_LOCK
  <2>4. Openers(p)' = {}
    BY DEF Openers, Crash
  <2>5. QED
    BY <2>1, <2>2, <2>3, <2>4
<1>5. Counts'
  <2>1. ASSUME NEW q \in Proc
        PROVE  /\ cnt'[q] = Cardinality(Counted(q)')
               /\ nLock'[q] = Cardinality(Counted(q)')
               /\ infoRef'[q] = Cardinality(Openers(q)')
               /\ openRef'[q] = Cardinality(Openers(q)')
    <3>1. CASE q = p
      BY <1>4, <3>1, FS_EmptySet DEF LInv, TypeOK, Crash
    <3>2. CASE q # p
      BY <1>4, <3>2 DEF LInv, TypeOK, Counts, Crash
    <3>3. QED
      BY <3>1, <3>2
  <2>2. QED
    BY <2>1 DEF Counts
<1>6. Levels'
  BY <1>0, <1>3
  DEF LInv, TypeOK, LockType, Levels, ZeroMeansNone, TopIsKnown, OneWriter, Crash
<1>7. QED
  BY <1>1, <1>2, <1>5, <1>6 DEF LInv

LEMMA InitLInv == Init => LInv
<1> SUFFICES ASSUME Init PROVE LInv
  OBVIOUS
<1>1. TypeOK
  BY DEF Init, TypeOK, PosixLock, LockType, PC, Goal
<1>2. Control
  BY DEF Init, Control, InsideMutex, TakingShared
<1>3. \A h \in Handle : Eff(h) = NO_LOCK
  BY DEF Init, Eff
<1>4. \A p \in Proc : Counted(p) = {} /\ Openers(p) = {}
  BY <1>3 DEF Counted, Openers, Init
<1>5. Counts
  BY <1>4, FS_EmptySet DEF Init, Counts
<1>6. Levels
  BY <1>3 DEF Init, Levels, ZeroMeansNone, TopIsKnown, OneWriter
<1>7. QED
  BY <1>1, <1>2, <1>5, <1>6 DEF LInv

LEMMA StutterLInv == LInv /\ UNCHANGED vars => LInv'
<1> SUFFICES ASSUME LInv, UNCHANGED vars PROVE LInv'
  OBVIOUS
<1> USE DEF vars, kernel, lockInfo, openCnt
<1>1. TypeOK' /\ Control'
  BY DEF LInv, TypeOK, Control
<1>2. \A g \in Handle : Eff(g)' = Eff(g)
  BY DEF Eff
<1>3. Counts'
  BY <1>2, CountsSame DEF LInv
<1>4. Levels'
  BY <1>2 DEF LInv, Levels, ZeroMeansNone, TopIsKnown, OneWriter
<1>5. QED
  BY <1>1, <1>3, <1>4 DEF LInv

LEMMA NextLInv == LInv /\ [Next]_vars => LInv'
<1> SUFFICES ASSUME LInv, [Next]_vars PROVE LInv'
  OBVIOUS
<1>1. ASSUME NEW h \in Handle, LockStep(h) PROVE LInv'
  BY <1>1, InProcessLInv, SharedPendingLInv, SharedRangeLInv, DropPendingLInv,
     ReservedLInv, ExclPendingLInv, ExclRangeLInv DEF LockStep
<1>2. ASSUME NEW h \in Handle, UnlockStep(h) PROVE LInv'
  BY <1>2, UnlockLInv, DowngradeLInv, DropBytesLInv, CountLInv, SetLevelLInv
  DEF UnlockStep
<1>3. QED
  BY <1>1, <1>2, OpenLInv, OpenNoMemLInv, CloseLInv, CrashLInv, StutterLInv
  DEF Next

\* Whatever handles are opened, locked, unlocked and closed, and whatever
\* processes are killed, every variable keeps its type: no counter of
\* lockInfo or openCnt goes below zero (unixLock, unixUnlock, unixClose).
THEOREM UnixLockTypeOK == Spec => []TypeOK
<1>1. LInv => TypeOK
  BY DEF LInv
<1>2. QED
  BY <1>1, InitLInv, NextLInv, PTL DEF Spec

\* The asserts of unixLock() and unixUnlock() on lockInfo never fail.
THEOREM UnixLockAssertsHold == Spec => []AssertsHold
<1>1. LInv => AssertsHold
  <2> SUFFICES ASSUME LInv, NEW h \in Handle
      PROVE LET p == ProcOf[h]
            IN  /\ pc[h] \in {"sharedRange", "sharedGot", "sharedBusy"} =>
                       cnt[p] = 0 /\ procLock[p] = NO_LOCK
                /\ pc[h] \in {"downgrade", "dropBytes"} =>
                       cnt[p] # 0 /\ procLock[p] = locktype[h]
                /\ pc[h] = "count" => cnt[p] # 0 /\ nLock[p] >= 1
    BY DEF AssertsHold
  <2> DEFINE p == ProcOf[h]
  <2>1. cnt[p] \in Nat /\ nLock[p] = cnt[p]
    BY CountMeans DEF LInv
  <2>2. Eff(h) >= SHARED_LOCK => cnt[p] # 0
    BY CountMeans DEF LInv
  <2>3. CASE pc[h] \in TakingShared
    BY <2>3 DEF LInv, Control, TakingShared, Levels, ZeroMeansNone
  <2>4. CASE pc[h] \in {"downgrade", "dropBytes"}
    <3>1. locktype[h] > SHARED_LOCK /\ Eff(h) = locktype[h]
      BY <2>4 DEF LInv, Control, Eff
    <3>2. procLock[p] = locktype[h]
      BY <3>1 DEF LInv, Levels, TopIsKnown
    <3>3. Eff(h) >= SHARED_LOCK
      BY <3>1, EffType DEF LInv, LockType
    <3>4. QED
      BY <2>2, <2>4, <3>2, <3>3
  <2>5. CASE pc[h] = "count"
    <3>1. Eff(h) = SHARED_LOCK
      BY <2>5 DEF Eff
    <3>2. QED
      BY <2>1, <2>2, <2>5, <3>1
  <2>6. QED
    BY <2>3, <2>4, <2>5 DEF TakingShared
<1>2. QED
  BY <1>1, InitLInv, NextLInv, PTL DEF Spec

-----------------------------------------------------------------------------
(* What the levels of a process's handles say about each other.            *)

\* A handle above SHARED is where lockInfo.locktype says, or on its way from
\* there to PENDING inside the mutex; nobody has a level lockInfo ignores.
LEMMA LevelFacts ==
  ASSUME LInv, NEW h \in Handle
  PROVE  /\ Level(h) \in LockType /\ Eff(h) \in LockType
         /\ Level(h) >= SHARED_LOCK => Eff(h) >= SHARED_LOCK
         /\ Level(h) > SHARED_LOCK =>
               \/ Level(h) = Eff(h) /\ Eff(h) = procLock[ProcOf[h]]
               \/ /\ pc[h] = "exclRange" /\ mutex[ProcOf[h]] = h
                  /\ Level(h) = PENDING_LOCK
                  /\ Eff(h) = procLock[ProcOf[h]]
         /\ mutex[ProcOf[h]] # h => Level(h) = Eff(h)
<1>1. Level(h) \in LockType /\ Eff(h) \in LockType
  BY EffType DEF LInv, TypeOK, Level, LockType, GoalLevel
<1>2. Level(h) >= SHARED_LOCK => Eff(h) >= SHARED_LOCK
  BY <1>1 DEF LInv, TypeOK, Control, Level, Eff, Unlocking, GoalLevel, LockType
<1>3. mutex[ProcOf[h]] # h => Level(h) = Eff(h)
  BY DEF LInv, Control, Level, Eff, Unlocking, GoalLevel, InsideMutex
<1>4. CASE pc[h] = "exclRange"
  <2>1. mutex[ProcOf[h]] = h /\ Level(h) = PENDING_LOCK
    BY <1>4 DEF LInv, Control, Level, Unlocking, InsideMutex
  <2>2. Eff(h) = procLock[ProcOf[h]]
    BY <1>4 DEF LInv, Control, Eff
  <2>3. QED
    BY <1>1, <1>2, <1>3, <1>4, <2>1, <2>2
<1>5. CASE pc[h] # "exclRange"
  <2>1. Level(h) > SHARED_LOCK => Level(h) = Eff(h)
    BY <1>5 DEF Level, Eff, Unlocking, GoalLevel
  <2>2. Eff(h) > SHARED_LOCK => Eff(h) = procLock[ProcOf[h]]
    BY DEF LInv, Levels, TopIsKnown
  <2>3. QED
    BY <1>1, <1>2, <1>3, <2>1, <2>2
<1>6. QED
  BY <1>4, <1>5

\* Two handles of a process are never both above SHARED.
LEMMA OneTop ==
  ASSUME LInv, NEW g \in Handle, NEW h \in Handle, g # h,
         ProcOf[g] = ProcOf[h], Level(h) > SHARED_LOCK
  PROVE  /\ ~(Level(g) > SHARED_LOCK)
         /\ Level(h) = EXCLUSIVE_LOCK => Level(g) = NO_LOCK
<1>1. /\ Level(h) \in LockType /\ Eff(h) \in LockType
      /\ Level(g) \in LockType /\ Eff(g) \in LockType
      /\ Level(g) >= SHARED_LOCK => Eff(g) >= SHARED_LOCK
      /\ mutex[ProcOf[g]] # g => Level(g) = Eff(g)
      /\ mutex[ProcOf[h]] # h => Level(h) = Eff(h)
      /\ Level(g) > SHARED_LOCK => Eff(g) = procLock[ProcOf[g]]
      /\ Level(h) > SHARED_LOCK => Eff(h) = procLock[ProcOf[h]]
      /\ Level(h) = EXCLUSIVE_LOCK => Eff(h) = EXCLUSIVE_LOCK
  BY LevelFacts
<1>2. /\ ~(Eff(g) > SHARED_LOCK /\ Eff(h) > SHARED_LOCK)
      /\ ~(Eff(h) = EXCLUSIVE_LOCK /\ Eff(g) >= SHARED_LOCK)
      /\ Eff(g) <= procLock[ProcOf[g]] /\ Eff(h) <= procLock[ProcOf[h]]
      /\ Eff(g) > SHARED_LOCK => Eff(g) = procLock[ProcOf[g]]
      /\ Eff(h) > SHARED_LOCK => Eff(h) = procLock[ProcOf[h]]
  BY DEF LInv, Levels, TopIsKnown, OneWriter
<1>3. procLock[ProcOf[h]] \in LockType
  BY DEF LInv, TypeOK
<1>4. QED
  BY <1>1, <1>2, <1>3 DEF LockType

-----------------------------------------------------------------------------
(* What each action does to the levels.                                    *)

LEMMA InProcessLevels ==
  ASSUME LInv, NEW h \in Handle, LockSharedInProcess(h)
  PROVE  \A g \in Handle : /\ Level(g)' = IF g = h THEN SHARED_LOCK ELSE Level(g)
                          /\ Eff(g)' = IF g = h THEN SHARED_LOCK ELSE Eff(g)
BY DEF LInv, TypeOK, Control, Level, Eff, Unlocking, Idle, GoalLevel, SetLevel,
       InsideMutex, TakingShared, LockSharedInProcess

LEMMA SharedPendingLevels ==
  ASSUME LInv, NEW h \in Handle, LockSharedPending(h)
  PROVE  \A g \in Handle : Level(g)' = Level(g) /\ Eff(g)' = Eff(g)
BY DEF LInv, TypeOK, Control, Level, Eff, Unlocking, Idle, GoalLevel, SetLevel,
       InsideMutex, TakingShared, LockSharedPending

LEMMA SharedRangeLevels ==
  ASSUME LInv, NEW h \in Handle, LockSharedRange(h)
  PROVE  \A g \in Handle : Level(g)' = Level(g) /\ Eff(g)' = Eff(g)
BY DEF LInv, TypeOK, Control, Level, Eff, Unlocking, Idle, GoalLevel, SetLevel,
       InsideMutex, TakingShared, LockSharedRange

LEMMA DropPendingLevels ==
  ASSUME LInv, NEW h \in Handle, LockSharedDropPending(h)
  PROVE  /\ \A g \in Handle \ {h} : Level(g)' = Level(g) /\ Eff(g)' = Eff(g)
         /\ Level(h) = NO_LOCK /\ Eff(h) = NO_LOCK
         /\ pc[h] = "sharedGot" => Level(h)' = SHARED_LOCK /\ Eff(h)' = SHARED_LOCK
         /\ pc[h] # "sharedGot" => Level(h)' = NO_LOCK /\ Eff(h)' = NO_LOCK
BY DEF LInv, TypeOK, Control, Level, Eff, Unlocking, Idle, GoalLevel, SetLevel,
       InsideMutex, TakingShared, LockSharedDropPending

LEMMA ReservedLevels ==
  ASSUME LInv, NEW h \in Handle, LockReserved(h)
  PROVE  \A g \in Handle : /\ Level(g)' = IF g = h THEN RESERVED_LOCK ELSE Level(g)
                          /\ Eff(g)' = IF g = h THEN RESERVED_LOCK ELSE Eff(g)
BY DEF LInv, TypeOK, Control, Level, Eff, Unlocking, Idle, GoalLevel, SetLevel,
       InsideMutex, TakingShared, LockReserved

LEMMA ExclPendingLevels ==
  ASSUME LInv, NEW h \in Handle, LockExclusivePending(h)
  PROVE  \A g \in Handle : /\ Level(g)' = IF g = h THEN PENDING_LOCK ELSE Level(g)
                          /\ Eff(g)' = IF g = h THEN Eff(h) ELSE Eff(g)
BY DEF LInv, TypeOK, Control, Level, Eff, Unlocking, Idle, GoalLevel, SetLevel,
       InsideMutex, TakingShared, LockExclusivePending

LEMMA ExclRangeLevels ==
  ASSUME LInv, NEW h \in Handle, LockExclusiveRange(h)
  PROVE  /\ \A g \in Handle \ {h} : Level(g)' = Level(g) /\ Eff(g)' = Eff(g)
         /\ Level(h) = PENDING_LOCK
         /\ Level(h)' = locktype'[h] /\ Eff(h)' = locktype'[h]
BY DEF LInv, TypeOK, Control, Level, Eff, Unlocking, Idle, GoalLevel, SetLevel,
       InsideMutex, TakingShared, LockExclusiveRange

LEMMA UnlockLevels ==
  ASSUME LInv, NEW h \in Handle, NEW k \in Goal, Unlock(h, k)
  PROVE  /\ \A g \in Handle \ {h} : Level(g)' = Level(g)
         /\ \A g \in Handle : Eff(g)' = Eff(g)
         /\ Level(h) = locktype[h] /\ Level(h)' = GoalLevel(k)
BY DEF LInv, TypeOK, Control, Level, Eff, Unlocking, Idle, GoalLevel, SetLevel,
       InsideMutex, TakingShared, Unlock

LEMMA DowngradeLevels ==
  ASSUME LInv, NEW h \in Handle, UnlockDowngrade(h)
  PROVE  \A g \in Handle : Level(g)' = Level(g) /\ Eff(g)' = Eff(g)
BY DEF LInv, TypeOK, Control, Level, Eff, Unlocking, Idle, GoalLevel, SetLevel,
       InsideMutex, TakingShared, UnlockDowngrade

LEMMA DropBytesLevels ==
  ASSUME LInv, NEW h \in Handle, UnlockDropBytes(h)
  PROVE  /\ \A g \in Handle : Level(g)' = Level(g)
         /\ \A g \in Handle : Eff(g)' = IF g = h THEN SHARED_LOCK ELSE Eff(g)
BY DEF LInv, TypeOK, Control, Level, Eff, Unlocking, Idle, GoalLevel, SetLevel,
       InsideMutex, TakingShared, UnlockDropBytes, Goal

LEMMA CountLevels ==
  ASSUME LInv, NEW h \in Handle, UnlockCount(h)
  PROVE  /\ \A g \in Handle : Level(g)' = Level(g)
         /\ \A g \in Handle : Eff(g)' = IF g = h THEN NO_LOCK ELSE Eff(g)
BY DEF LInv, TypeOK, Control, Level, Eff, Unlocking, Idle, GoalLevel, SetLevel,
       InsideMutex, TakingShared, UnlockCount, Goal

LEMMA SetLevelLevels ==
  ASSUME LInv, NEW h \in Handle, UnlockSetLevel(h)
  PROVE  \A g \in Handle : Level(g)' = Level(g) /\ Eff(g)' = Eff(g)
BY DEF LInv, TypeOK, Control, Level, Eff, Unlocking, Idle, GoalLevel, SetLevel,
       InsideMutex, TakingShared, UnlockSetLevel

LEMMA OpenLevels ==
  ASSUME LInv, NEW h \in Handle, Open(h)
  PROVE  \A g \in Handle : Level(g)' = Level(g) /\ Eff(g)' = Eff(g)
BY DEF LInv, TypeOK, Control, Level, Eff, Unlocking, Idle, GoalLevel, SetLevel,
       InsideMutex, TakingShared, Open

LEMMA CloseLevels ==
  ASSUME LInv, NEW h \in Handle, Close(h)
  PROVE  \A g \in Handle : Level(g)' = Level(g) /\ Eff(g)' = Eff(g)
BY DEF LInv, TypeOK, Control, Level, Eff, Unlocking, Idle, GoalLevel, SetLevel,
       InsideMutex, TakingShared, Close

LEMMA CrashLevels ==
  ASSUME LInv, NEW p \in Proc, Crash(p)
  PROVE  \A g \in Handle :
           /\ Level(g)' = IF ProcOf[g] = p THEN NO_LOCK ELSE Level(g)
           /\ Eff(g)' = IF ProcOf[g] = p THEN NO_LOCK ELSE Eff(g)
BY DEF Level, Eff, Unlocking, GoalLevel, Crash

-----------------------------------------------------------------------------
(* The counts are those of the handles: the invariant this needs besides   *)
(* LInv.                                                                   *)

\* A level above SHARED that lockInfo has is that of some handle.
TopIsHeld ==
    \A p \in Proc : procLock[p] > SHARED_LOCK =>
        \E h \in Handle : ProcOf[h] = p /\ Eff(h) = procLock[p]

\* Descriptors wait for a lock to be given up.
DeferredWait == \A p \in Proc : nPending[p] > 0 => nLock[p] > 0

AInv == LInv /\ TopIsHeld /\ DeferredWait

-----------------------------------------------------------------------------
(* TopIsHeld and DeferredWait are kept.                                    *)

\* The level lockInfo has for a process stays above SHARED only if somebody
\* has it.
LEMMA TopStays ==
  ASSUME TopIsHeld,
         \A p \in Proc : procLock'[p] > SHARED_LOCK =>
             \/ \E h \in Handle : ProcOf[h] = p /\ Eff(h)' = procLock'[p]
             \/ /\ procLock'[p] = procLock[p]
                /\ \A h \in Handle : ProcOf[h] = p /\ Eff(h) > SHARED_LOCK => Eff(h)' = Eff(h)
  PROVE  TopIsHeld'
BY DEF TopIsHeld

LEMMA LockStepAInv ==
  ASSUME AInv, NEW h \in Handle, LockStep(h) PROVE TopIsHeld' /\ DeferredWait'
<1> DEFINE p == ProcOf[h]
<1>1. /\ LInv /\ TopIsHeld /\ DeferredWait /\ TypeOK /\ p \in Proc
      /\ \A g \in Handle : Eff(g) \in LockType
  BY EffType DEF AInv, LInv
<1>2. \A q \in Proc : nLock[q] \in Nat /\ nPending[q] \in Nat
  BY <1>1 DEF TypeOK
<1>3. CASE LockSharedInProcess(h)
  <2>1. /\ \A g \in Handle : Eff(g)' = IF g = h THEN SHARED_LOCK ELSE Eff(g)
        /\ Eff(h) = NO_LOCK /\ UNCHANGED <<procLock, nPending>> /\ nLock' = Incr(nLock, p)
    BY <1>1, <1>3, InProcessLevels DEF LockSharedInProcess, Idle, Eff
  <2>2. QED
    BY <1>1, <1>2, <2>1, TopStays DEF DeferredWait, Incr, TypeOK
<1>4. CASE LockSharedPending(h) \/ LockSharedRange(h) \/ LockExclusivePending(h)
  <2>1. UNCHANGED <<procLock, nPending, nLock>>
    BY <1>4 DEF LockSharedPending, LockSharedRange, LockExclusivePending, lockInfo, openCnt
  <2>2. \A g \in Handle : Eff(g)' = Eff(g)
    BY <1>1, <1>4, SharedPendingLevels, SharedRangeLevels, ExclPendingLevels
  <2>3. QED
    BY <1>1, <2>1, <2>2, TopStays DEF DeferredWait
<1>5. CASE LockSharedDropPending(h)
  <2>1. /\ \A g \in Handle \ {h} : Eff(g)' = Eff(g)
        /\ Eff(h) = NO_LOCK
        /\ \/ procLock' = [procLock EXCEPT ![p] = SHARED_LOCK] /\ nLock' = Incr(nLock, p)
           \/ UNCHANGED <<procLock, nLock>>
        /\ UNCHANGED nPending
    BY <1>1, <1>5, DropPendingLevels DEF LockSharedDropPending, SetLevel
  <2>2. QED
    BY <1>1, <1>2, <2>1, TopStays DEF DeferredWait, Incr, TypeOK
<1>6. CASE LockReserved(h) \/ LockExclusiveRange(h)
  <2>1. /\ procLock' = [procLock EXCEPT ![p] = locktype'[h]]
        /\ UNCHANGED <<nPending, nLock>>
    BY <1>1, <1>6 DEF LockReserved, LockExclusiveRange, SetLevel, openCnt, TypeOK
  <2>2. \A g \in Handle \ {h} : Eff(g)' = Eff(g)
    BY <1>1, <1>6, ReservedLevels, ExclRangeLevels
  <2>3. Eff(h)' = locktype'[h]
    BY <1>1, <1>6, ReservedLevels, ExclRangeLevels DEF LockReserved, SetLevel, TypeOK
  <2>4. QED
    BY <1>1, <2>1, <2>2, <2>3, TopStays DEF DeferredWait, TypeOK
<1>7. QED
  BY <1>3, <1>4, <1>5, <1>6 DEF LockStep

LEMMA UnlockStepAInv ==
  ASSUME AInv, NEW h \in Handle, UnlockStep(h) PROVE TopIsHeld' /\ DeferredWait'
<1> DEFINE p == ProcOf[h]
<1>1. LInv /\ TopIsHeld /\ DeferredWait /\ TypeOK /\ p \in Proc
  BY DEF AInv, LInv
<1>2. \A q \in Proc : nLock[q] \in Nat /\ nPending[q] \in Nat
  BY <1>1 DEF TypeOK
<1>3. CASE (\E d \in Goal : Unlock(h, d)) \/ UnlockDowngrade(h) \/ UnlockSetLevel(h)
  <2>1. UNCHANGED <<procLock, nPending, nLock>>
    BY <1>3 DEF Unlock, UnlockDowngrade, UnlockSetLevel, lockInfo, openCnt
  <2>2. \A g \in Handle : Eff(g)' = Eff(g)
    BY <1>1, <1>3, UnlockLevels, DowngradeLevels, SetLevelLevels
  <2>3. QED
    BY <1>1, <2>1, <2>2, TopStays DEF DeferredWait
<1>4. CASE UnlockDropBytes(h)
  <2>1. /\ \A g \in Handle : Eff(g)' = IF g = h THEN SHARED_LOCK ELSE Eff(g)
        /\ procLock' = [procLock EXCEPT ![p] = SHARED_LOCK]
        /\ UNCHANGED <<nPending, nLock>>
    BY <1>1, <1>4, DropBytesLevels DEF UnlockDropBytes, openCnt
  <2>2. QED
    BY <1>1, <2>1, TopStays DEF DeferredWait, TypeOK
<1>5. CASE UnlockCount(h)
  <2>1. /\ \A g \in Handle : Eff(g)' = IF g = h THEN NO_LOCK ELSE Eff(g)
        /\ Eff(h) = SHARED_LOCK
        /\ \A q \in Proc : procLock'[q] \in {procLock[q], NO_LOCK}
    BY <1>1, <1>5, CountLevels DEF UnlockCount, Eff, TypeOK
  <2>2. nLock' = Decr(nLock, p) /\ nPending' = DeferredLeft(p) /\ nLock[p] # 0
    BY <1>1, <1>5, <2>1, CountMeans DEF UnlockCount, LInv
  <2>3. DeferredWait'
    <3>1. /\ nLock'[p] = nLock[p] - 1
          /\ nPending'[p] = IF nLock[p] = 1 THEN 0 ELSE nPending[p]
          /\ \A q \in Proc \ {p} : nLock'[q] = nLock[q] /\ nPending'[q] = nPending[q]
      BY <1>1, <2>2 DEF DeferredLeft, Decr, TypeOK
    <3>2. QED
      BY <1>1, <1>2, <2>2, <3>1 DEF DeferredWait
  <2>4. QED
    BY <1>1, <2>1, <2>3, TopStays
<1>6. QED
  BY <1>3, <1>4, <1>5 DEF UnlockStep

LEMMA OtherAInv ==
  ASSUME AInv, NEW h \in Handle, Open(h) \/ OpenNoMem(h) \/ Close(h)
  PROVE  TopIsHeld' /\ DeferredWait'
<1> DEFINE p == ProcOf[h]
<1>1. LInv /\ TopIsHeld /\ DeferredWait /\ TypeOK /\ p \in Proc
  BY DEF AInv, LInv
<1>2. \A q \in Proc : nLock[q] \in Nat /\ nPending[q] \in Nat
  BY <1>1 DEF TypeOK
<1>3. \A g \in Handle : Eff(g)' = Eff(g)
  BY <1>1, OpenLevels, CloseLevels DEF OpenNoMem, Eff
<1>4. UNCHANGED <<procLock, nLock>>
  BY <1>1, UnreferencedIsZero DEF Open, OpenNoMem, Close, lockInfo, openCnt, TypeOK
<1>5. \A q \in Proc : nPending'[q] > 0 => nPending[q] > 0 \/ nLock[q] > 0
  BY <1>1, <1>2 DEF Open, OpenNoMem, Close, openCnt, HoldsLocks, Incr, TypeOK
<1>6. QED
  BY <1>1, <1>3, <1>4, <1>5, TopStays DEF DeferredWait

LEMMA CrashAInv ==
  ASSUME AInv, NEW p \in Proc, Crash(p) PROVE TopIsHeld' /\ DeferredWait'
<1>1. LInv /\ TopIsHeld /\ DeferredWait /\ TypeOK
  BY DEF AInv, LInv
<1>2. /\ procLock' = [procLock EXCEPT ![p] = 0]
      /\ nLock' = [nLock EXCEPT ![p] = 0] /\ nPending' = [nPending EXCEPT ![p] = 0]
      /\ \A g \in Handle : ProcOf[g] # p => Eff(g)' = Eff(g)
  BY <1>1, CrashLevels DEF Crash
<1>3. QED
  BY <1>1, <1>2, TopStays DEF DeferredWait, TypeOK

LEMMA AInvHolds == Spec => []AInv
<1>1. Init => AInv
  BY InitLInv DEF Init, AInv, TopIsHeld, DeferredWait
<1>2. AInv /\ [Next]_vars => AInv'
  <2> SUFFICES ASSUME AInv, [Next]_vars PROVE AInv'
    OBVIOUS
  <2>1. LInv'
    BY NextLInv DEF AInv
  <2>2. CASE UNCHANGED vars
    <3>1. \A g \in Handle : Eff(g)' = Eff(g)
      BY <2>2 DEF vars, Eff
    <3>2. QED
      BY <2>1, <2>2, <3>1, TopStays DEF AInv, vars, lockInfo, openCnt, DeferredWait
  <2>3. CASE Next
    BY <2>1, <2>3, LockStepAInv, UnlockStepAInv, OtherAInv, CrashAInv DEF Next, AInv
  <2>4. QED
    BY <2>2, <2>3
<1>3. QED
  BY <1>1, <1>2, PTL DEF Spec

-----------------------------------------------------------------------------
(* What follows, whether or not opening a file runs out of memory.         *)

\* Outside of the mutex a handle that has a lock is counted.
LEMMA CountedLockers ==
  ASSUME LInv, NEW p \in Proc, mutex[p] = NoHandle
  PROVE  /\ Lockers(p) = Counted(p)
         /\ \A h \in Handle : ProcOf[h] = p =>
               /\ Level(h) = Eff(h) /\ Level(h) \in LockType
               /\ ~isOpen[h] => Level(h) = NO_LOCK
<1>1. \A h \in Handle : ProcOf[h] = p =>
        Level(h) = Eff(h) /\ Level(h) \in LockType /\ mutex[ProcOf[h]] # h
  BY LevelFacts
<1>2. \A h \in Handle : ProcOf[h] = p /\ ~isOpen[h] => Level(h) = NO_LOCK
  BY DEF LInv, Control, Level, Unlocking
<1>3. Lockers(p) = Counted(p)
  BY <1>1 DEF Lockers, Counted, LockType
<1>4. QED
  BY <1>1, <1>2, <1>3

\* The greatest element of a set of levels, named by what it is.
LEMMA Max0Is ==
  ASSUME NEW S \in SUBSET LockType, NEW m \in LockType,
         S = {} => m = NO_LOCK, S # {} => m \in S, \A x \in S : x <= m
  PROVE  Max0(S) = m
<1>1. CASE S = {}
  BY <1>1 DEF Max0
<1>2. CASE S # {}
  <2>1. m \in S /\ \A y \in S : y <= m
    BY <1>2
  <2>2. \A x \in S : (\A y \in S : y <= x) => x = m
    BY <2>1 DEF LockType
  <2>3. QED
    BY <1>2, <2>1, <2>2 DEF Max0
<1>3. QED
  BY <1>1, <1>2

LEMMA AInvAccounting == AInv => Accounting
<1> SUFFICES ASSUME AInv, NEW p \in Proc, mutex[p] = NoHandle
    PROVE  /\ infoRef[p] = Cardinality(Openers(p))
           /\ openRef[p] = Cardinality(Openers(p))
           /\ cnt[p] = Cardinality(Lockers(p))
           /\ nLock[p] = Cardinality(Lockers(p))
           /\ procLock[p] = Max0({Level(h) : h \in Openers(p)})
  BY DEF Accounting
<1> DEFINE S == {Level(h) : h \in Openers(p)}
<1>1. LInv /\ TopIsHeld /\ procLock[p] \in LockType
  BY DEF AInv, LInv, TypeOK
<1>2. /\ Lockers(p) = Counted(p)
      /\ \A h \in Handle : ProcOf[h] = p =>
            /\ Level(h) = Eff(h) /\ Level(h) \in LockType
            /\ ~isOpen[h] => Level(h) = NO_LOCK
  BY <1>1, CountedLockers
<1>3. \A h \in Handle : ProcOf[h] = p => Level(h) <= procLock[p]
  BY <1>1, <1>2 DEF LInv, Levels, TopIsKnown
\* Somebody has the level that lockInfo says.
<1>4. procLock[p] # NO_LOCK => \E h \in Openers(p) : Level(h) = procLock[p]
  <2> SUFFICES ASSUME procLock[p] # NO_LOCK
               PROVE  \E h \in Handle : ProcOf[h] = p /\ Level(h) = procLock[p]
    BY <1>2 DEF Openers
  <2>1. CASE procLock[p] > SHARED_LOCK
    BY <1>1, <1>2, <2>1 DEF TopIsHeld
  <2>2. CASE procLock[p] = SHARED_LOCK
    <3>1. cnt[p] # 0
      BY <1>1, <2>2 DEF LInv, Levels, ZeroMeansNone
    <3>2. PICK h \in Handle : ProcOf[h] = p /\ Eff(h) >= SHARED_LOCK
      BY <1>1, <3>1, CountMeans DEF LInv
    <3>3. QED
      BY <1>2, <1>3, <2>2, <3>2 DEF LockType
  <2>3. QED
    BY <1>1, <2>1, <2>2 DEF LockType
<1>5. S \in SUBSET LockType /\ \A x \in S : x <= procLock[p]
  BY <1>2, <1>3 DEF Openers
<1>6. S # {} => procLock[p] \in S
  <2>1. CASE procLock[p] = NO_LOCK
    BY <1>2, <1>3, <2>1 DEF Openers, LockType
  <2>2. CASE procLock[p] # NO_LOCK
    BY <1>4, <2>2
  <2>3. QED
    BY <2>1, <2>2
<1>7. S = {} => procLock[p] = NO_LOCK
  BY <1>4
<1>8. Max0(S) = procLock[p]
  BY <1>1, <1>5, <1>6, <1>7, Max0Is
<1>9. QED
  BY <1>1, <1>2, <1>8 DEF LInv, Counts

\* Outside of the mutex the reference counts are the open handles, cnt and
\* nLock the handles with a lock, lockInfo.locktype the strongest of them.
THEOREM UnixLockAccountingHolds == Spec => []Accounting
BY AInvHolds, AInvAccounting, PTL

\* A descriptor on the deferred list is always waiting for a lock that is
\* still held, through an openCnt that still exists: it will be closed.
THEOREM UnixLockDeferredClose == Spec => []DeferredCloseIsDone
<1>1. AInv => DeferredCloseIsDone
  <2> SUFFICES ASSUME AInv, NEW p \in Proc, nPending[p] > 0
               PROVE  nLock[p] > 0 /\ openRef[p] > 0
    BY DEF DeferredCloseIsDone
  <2>1. nLock[p] > 0 /\ openRef[p] \in Nat
    BY DEF AInv, DeferredWait, LInv, TypeOK
  <2>2. openRef[p] # 0
    BY <2>1, UnreferencedIsZero DEF AInv
  <2>3. QED
    BY <2>1, <2>2
<1>2. QED
  BY <1>1, AInvHolds, PTL

\* unixCheckReservedLock() sees every handle that plans to write, be it in
\* this process or in another one.
THEOREM UnixLockReservedIsSeen == Spec => []ReservedIsSeen
<1>1. AInv => ReservedIsSeen
  <2> SUFFICES ASSUME AInv, NEW g \in ReservedHolders, NEW h \in Handle,
                      MutexFree(h), ~CheckReservedLock(h)
               PROVE  FALSE
    BY DEF ReservedIsSeen
  <2>1. /\ LInv /\ g \in Handle /\ Level(g) >= RESERVED_LOCK
        /\ reservedByte[ProcOf[g]] = "write"
        /\ procLock[ProcOf[h]] \in LockType /\ ~(procLock[ProcOf[h]] > SHARED_LOCK)
    BY DEF ReservedHolders, CheckReservedLock, AInv, LInv, TypeOK
  <2>2. CASE ProcOf[g] = ProcOf[h]
    <3>1. mutex[ProcOf[g]] # g
      BY <2>1, <2>2 DEF MutexFree
    <3>2. Level(g) = Eff(g) /\ Level(g) \in LockType /\ Eff(g) <= procLock[ProcOf[h]]
      BY <2>1, <2>2, <3>1, LevelFacts DEF LInv, Levels, TopIsKnown
    <3>3. QED
      BY <2>1, <3>2 DEF LockType
  <2>3. CASE ProcOf[g] # ProcOf[h]
    BY <2>1, <2>3 DEF CheckReservedLock, Grantable
  <2>4. QED
    BY <2>2, <2>3
<1>2. QED
  BY <1>1, AInvHolds, PTL

-----------------------------------------------------------------------------
(* os_unix.c implements FileLock as long as opening the file does not run  *)
(* out of memory.  Under the same assumption the kernel's locks are those   *)
(* lockInfo accounts for.                                                  *)

\* The kernel's locks of different processes do not conflict, ...
NoConflict(byte) ==
    \A p, q \in Proc : p # q /\ byte[p] = "write" => byte[q] = "none"
KernelSound ==
    NoConflict(pendingByte) /\ NoConflict(reservedByte) /\ NoConflict(sharedRange)

\* ... those of a process back the levels of its handles, ...
KernelBacks ==
    \A h \in Handle :
        /\ Eff(h) >= SHARED_LOCK => sharedRange[ProcOf[h]] # "none"
        /\ Level(h) = RESERVED_LOCK => reservedByte[ProcOf[h]] = "write"
        /\ Level(h) >= PENDING_LOCK => pendingByte[ProcOf[h]] = "write"
        /\ Level(h) = EXCLUSIVE_LOCK => sharedRange[ProcOf[h]] = "write"
        /\ pc[h] \in TakingShared => pendingByte[ProcOf[h]] = "read"
        /\ pc[h] = "sharedGot" => sharedRange[ProcOf[h]] # "none"

\* ... and no reserved byte is left behind.
ReservedIsKnown ==
    \A p \in Proc : reservedByte[p] # "none" => procLock[p] >= RESERVED_LOCK

Kernel == KernelSound /\ KernelBacks /\ ReservedIsKnown

IInv == LInv /\ Kernel

-----------------------------------------------------------------------------
(* The steps of FileLock, in terms of Level and ReservedHolders.           *)

AbstractStep == [Abstract!Next]_(Abstract!vars)

\* Only the level of h changes, to t.
Goes(h, t) == \A g \in Handle : Level(g)' = IF g = h THEN t ELSE Level(g)

LEMMA AbstractConstants ==
  /\ Abstract!NO_LOCK = 0 /\ Abstract!SHARED_LOCK = 1
  /\ Abstract!RESERVED_LOCK = 2 /\ Abstract!PENDING_LOCK = 3
  /\ Abstract!EXCLUSIVE_LOCK = 4
BY DEF Abstract!NO_LOCK, Abstract!SHARED_LOCK, Abstract!RESERVED_LOCK,
       Abstract!PENDING_LOCK, Abstract!EXCLUSIVE_LOCK

LEMMA AbstractStutter ==
  ASSUME \A g \in Handle : Level(g)' = Level(g),
         ReservedHolders' = ReservedHolders
  PROVE  AbstractStep
BY DEF AbstractStep, Abstract!vars

LEMMA AbstractSet ==
  ASSUME NEW h \in Handle, NEW t, Goes(h, t)
  PROVE  Abstract!Set(h, t)
BY DEF Goes, Abstract!Set

LEMMA AbstractGetShared ==
  ASSUME NEW h \in Handle, Level(h) = NO_LOCK, Goes(h, SHARED_LOCK),
         \A g \in Handle : Level(g) >= PENDING_LOCK =>
             /\ ProcOf[g] # ProcOf[h]
             /\ \E k \in Handle : /\ ProcOf[k] = ProcOf[h]
                                  /\ Level(k) \in {SHARED_LOCK, RESERVED_LOCK},
         ReservedHolders' = ReservedHolders
  PROVE  AbstractStep
<1>1. Abstract!GetShared(h)
  BY AbstractSet, AbstractConstants DEF Abstract!GetShared
<1>2. QED
  BY <1>1 DEF AbstractStep, Abstract!Next

LEMMA AbstractGetReserved ==
  ASSUME NEW h \in Handle, Level(h) = SHARED_LOCK, Goes(h, RESERVED_LOCK),
         ReservedHolders = {}, ReservedHolders' = {h}
  PROVE  AbstractStep
<1>1. Abstract!GetReserved(h)
  BY AbstractSet, AbstractConstants DEF Abstract!GetReserved
<1>2. QED
  BY <1>1 DEF AbstractStep, Abstract!Next

LEMMA AbstractGetPending ==
  ASSUME NEW h \in Handle, Level(h) \in {SHARED_LOCK, RESERVED_LOCK},
         Goes(h, PENDING_LOCK),
         \A g \in Handle : Level(g) < PENDING_LOCK,
         ReservedHolders' = ReservedHolders
  PROVE  AbstractStep
<1>1. Abstract!GetPending(h)
  BY AbstractSet, AbstractConstants DEF Abstract!GetPending
<1>2. QED
  BY <1>1 DEF AbstractStep, Abstract!Next

LEMMA AbstractGetExclusive ==
  ASSUME NEW h \in Handle, Level(h) = PENDING_LOCK, Goes(h, EXCLUSIVE_LOCK),
         \A g \in Handle \ {h} : Level(g) = NO_LOCK,
         ReservedHolders' = ReservedHolders
  PROVE  AbstractStep
<1>1. Abstract!GetExclusive(h)
  BY AbstractSet, AbstractConstants DEF Abstract!GetExclusive, Abstract!Alone
<1>2. QED
  BY <1>1 DEF AbstractStep, Abstract!Next

LEMMA AbstractRelease ==
  ASSUME NEW h \in Handle, NEW t \in {NO_LOCK, SHARED_LOCK}, t < Level(h),
         Goes(h, t), ReservedHolders' = ReservedHolders \ {h}
  PROVE  AbstractStep
<1>1. Abstract!Release(h, t)
  BY AbstractSet, AbstractConstants DEF Abstract!Release
<1>2. QED
  BY <1>1, AbstractConstants DEF AbstractStep, Abstract!Next

LEMMA AbstractDie ==
  ASSUME NEW p \in Proc,
         \A g \in Handle :
             Level(g)' = IF ProcOf[g] = p THEN NO_LOCK ELSE Level(g),
         ReservedHolders' = {g \in ReservedHolders : ProcOf[g] # p}
  PROVE  AbstractStep
<1>1. Abstract!Die(p)
  BY AbstractConstants DEF Abstract!Die
<1>2. QED
  BY <1>1 DEF AbstractStep, Abstract!Next

-----------------------------------------------------------------------------
(* Every action keeps the kernel's locks right and is a step of FileLock.  *)

\* When levels and kernel locks stay, so does what relates them.
LEMMA KernelSame ==
  ASSUME Kernel, UNCHANGED kernel,
         \A g \in Handle : Level(g)' = Level(g),
         \A g \in Handle : Eff(g)' = Eff(g) \/ ~(Eff(g)' >= SHARED_LOCK),
         \A g \in Handle : pc'[g] = pc[g] \/ pc'[g] \notin TakingShared,
         \A p \in Proc : procLock'[p] = procLock[p] \/ reservedByte[p] = "none"
  PROVE  Kernel' /\ AbstractStep
<1>1. KernelSound'
  BY DEF Kernel, KernelSound, NoConflict, kernel
<1>2. KernelBacks'
  BY DEF Kernel, KernelBacks, kernel, TakingShared
<1>3. ReservedIsKnown'
  BY DEF Kernel, ReservedIsKnown, kernel
<1>4. ReservedHolders' = ReservedHolders
  BY DEF ReservedHolders, kernel
<1>5. QED
  BY <1>1, <1>2, <1>3, <1>4, AbstractStutter DEF Kernel

LEMMA InProcessKernel ==
  ASSUME IInv, NEW h \in Handle, LockSharedInProcess(h)
  PROVE  Kernel' /\ AbstractStep
<1> DEFINE p == ProcOf[h]
<1>1. LInv /\ Kernel /\ p \in Proc
  BY DEF IInv
<1>2. \A g \in Handle : /\ Level(g)' = IF g = h THEN SHARED_LOCK ELSE Level(g)
                       /\ Eff(g)' = IF g = h THEN SHARED_LOCK ELSE Eff(g)
  BY <1>1, InProcessLevels
<1>3. /\ UNCHANGED kernel /\ UNCHANGED procLock /\ UNCHANGED pc
      /\ mutex[p] = NoHandle /\ procLock[p] \in {SHARED_LOCK, RESERVED_LOCK}
      /\ Level(h) = NO_LOCK
  BY DEF LockSharedInProcess, MutexFree, Idle, Level, Unlocking
\* Some handle of the process is at SHARED or RESERVED.
<1>4. PICK k \in Handle : ProcOf[k] = p /\ Eff(k) >= SHARED_LOCK
  BY <1>1, <1>3, CountMeans DEF LInv, Levels, ZeroMeansNone
<1>5. /\ Level(k) = Eff(k) /\ Eff(k) \in LockType /\ Eff(k) <= procLock[p]
  BY <1>1, <1>3, <1>4, LevelFacts DEF LInv, Levels, TopIsKnown
<1>6. Level(k) \in {SHARED_LOCK, RESERVED_LOCK}
  BY <1>3, <1>4, <1>5 DEF LockType
<1>7. \A g \in Handle : ProcOf[g] = p => ~(Level(g) >= PENDING_LOCK)
  <2> SUFFICES ASSUME NEW g \in Handle, ProcOf[g] = p PROVE ~(Level(g) >= PENDING_LOCK)
    OBVIOUS
  <2>1. Level(g) \in LockType /\ Level(g) = Eff(g) /\ Eff(g) <= procLock[p]
    BY <1>1, <1>3, LevelFacts DEF LInv, Levels, TopIsKnown
  <2>2. QED
    BY <1>3, <2>1 DEF LockType
<1>8. sharedRange[p] # "none"
  BY <1>1, <1>4 DEF Kernel, KernelBacks
<1>9. Kernel'
  BY <1>1, <1>2, <1>3, <1>8
  DEF Kernel, KernelSound, NoConflict, KernelBacks, ReservedIsKnown, kernel
<1>10. ReservedHolders' = ReservedHolders
  BY <1>2, <1>3 DEF ReservedHolders, kernel
<1>11. AbstractStep
  BY <1>2, <1>3, <1>4, <1>6, <1>7, <1>10, AbstractGetShared DEF Goes
<1>12. QED
  BY <1>9, <1>11

\* A process whose lockInfo says NO_LOCK has no handle with a level.
LEMMA NoneMeansNone ==
  ASSUME LInv, NEW p \in Proc, procLock[p] = NO_LOCK, NEW g \in Handle,
         ProcOf[g] = p
  PROVE  Level(g) = NO_LOCK /\ Eff(g) = NO_LOCK
<1>1. /\ Level(g) \in LockType /\ Eff(g) \in LockType
      /\ Level(g) >= SHARED_LOCK => Eff(g) >= SHARED_LOCK
      /\ Eff(g) <= procLock[p]
  BY LevelFacts DEF LInv, Levels, TopIsKnown
<1>2. QED
  BY <1>1 DEF LockType

LEMMA SharedPendingKernel ==
  ASSUME IInv, NEW h \in Handle, LockSharedPending(h)
  PROVE  Kernel' /\ AbstractStep
<1> DEFINE p == ProcOf[h]
<1>1. LInv /\ Kernel /\ p \in Proc /\ TypeOK
  BY DEF IInv, LInv
<1>2. \A g \in Handle : Level(g)' = Level(g) /\ Eff(g)' = Eff(g)
  BY <1>1, SharedPendingLevels
<1>3. /\ UNCHANGED <<reservedByte, sharedRange, procLock>>
      /\ \A q \in Proc \ {p} : pendingByte[q] # "write"
      /\ pendingByte' = [pendingByte EXCEPT ![p] = "read"]
      /\ pc' = [pc EXCEPT ![h] = "sharedRange"]
      /\ mutex[p] = NoHandle
  BY DEF LockSharedPending, lockInfo, NoWriterWaits, Grantable, FSetLk, MutexFree
<1>4. procLock[p] = NO_LOCK
  BY <1>1 DEF LockSharedPending, Precluded, TypeOK, LockType
<1>5. \A g \in Handle : ProcOf[g] = p => Level(g) = NO_LOCK /\ Eff(g) = NO_LOCK
  BY <1>1, <1>4, NoneMeansNone
<1>6. KernelSound'
  BY <1>1, <1>3 DEF Kernel, KernelSound, NoConflict, TypeOK
<1>7. KernelBacks'
  BY <1>1, <1>2, <1>3, <1>5 DEF Kernel, KernelBacks, TypeOK, TakingShared
<1>8. ReservedIsKnown'
  BY <1>1, <1>3 DEF Kernel, ReservedIsKnown
<1>9. ReservedHolders' = ReservedHolders
  BY <1>2, <1>3 DEF ReservedHolders
<1>10. QED
  BY <1>2, <1>6, <1>7, <1>8, <1>9, AbstractStutter DEF Kernel

LEMMA SharedRangeKernel ==
  ASSUME IInv, NEW h \in Handle, LockSharedRange(h)
  PROVE  Kernel' /\ AbstractStep
<1> DEFINE p == ProcOf[h]
<1>1. LInv /\ Kernel /\ p \in Proc /\ TypeOK
  BY DEF IInv, LInv
<1>2. \A g \in Handle : Level(g)' = Level(g) /\ Eff(g)' = Eff(g)
  BY <1>1, SharedRangeLevels
<1>3. /\ UNCHANGED <<pendingByte, reservedByte, procLock>> /\ pc[h] = "sharedRange"
      /\ \/ /\ \A q \in Proc \ {p} : sharedRange[q] # "write"
            /\ sharedRange' = [sharedRange EXCEPT ![p] = "read"]
            /\ pc' = [pc EXCEPT ![h] = "sharedGot"]
         \/ UNCHANGED sharedRange /\ pc' = [pc EXCEPT ![h] = "sharedBusy"]
  BY DEF LockSharedRange, lockInfo, Grantable, FSetLk
<1>4. procLock[p] = NO_LOCK
  BY <1>1, <1>3 DEF LInv, Control, TakingShared
<1>5. \A g \in Handle : ProcOf[g] = p => Level(g) = NO_LOCK /\ Eff(g) = NO_LOCK
  BY <1>1, <1>4, NoneMeansNone
<1>6. KernelSound'
  BY <1>1, <1>3 DEF Kernel, KernelSound, NoConflict, TypeOK
<1>7. KernelBacks'
  BY <1>1, <1>2, <1>3, <1>5 DEF Kernel, KernelBacks, TypeOK, TakingShared
<1>8. ReservedIsKnown'
  BY <1>1, <1>3 DEF Kernel, ReservedIsKnown
<1>9. ReservedHolders' = ReservedHolders
  BY <1>2, <1>3 DEF ReservedHolders
<1>10. QED
  BY <1>2, <1>6, <1>7, <1>8, <1>9, AbstractStutter DEF Kernel

LEMMA DropPendingKernel ==
  ASSUME IInv, NEW h \in Handle, LockSharedDropPending(h)
  PROVE  Kernel' /\ AbstractStep
<1> DEFINE p == ProcOf[h]
<1>1. LInv /\ Kernel /\ p \in Proc /\ TypeOK
  BY DEF IInv, LInv
<1>2. /\ \A g \in Handle \ {h} : Level(g)' = Level(g) /\ Eff(g)' = Eff(g)
      /\ Level(h) = NO_LOCK /\ Eff(h) = NO_LOCK
      /\ pc[h] = "sharedGot" => Level(h)' = SHARED_LOCK /\ Eff(h)' = SHARED_LOCK
      /\ pc[h] # "sharedGot" => Level(h)' = NO_LOCK /\ Eff(h)' = NO_LOCK
  BY <1>1, DropPendingLevels
<1>3. /\ UNCHANGED <<reservedByte, sharedRange>> /\ pc[h] \in TakingShared
      /\ pendingByte' = [pendingByte EXCEPT ![p] = "none"]
      /\ pc' = [pc EXCEPT ![h] = "idle"]
      /\ procLock' = IF pc[h] = "sharedGot" THEN [procLock EXCEPT ![p] = SHARED_LOCK]
                     ELSE procLock
  BY DEF LockSharedDropPending, FSetLk, SetLevel, TakingShared
<1>4. procLock[p] = NO_LOCK
  BY <1>1, <1>3 DEF LInv, Control
<1>5. \A g \in Handle : ProcOf[g] = p => Level(g) = NO_LOCK /\ Eff(g) = NO_LOCK
  BY <1>1, <1>4, NoneMeansNone
<1>6. KernelSound'
  BY <1>1, <1>3 DEF Kernel, KernelSound, NoConflict, TypeOK
<1>7. \A g \in Handle : ProcOf[g] = p /\ g # h => pc[g] \notin TakingShared
  BY <1>1, <1>3 DEF LInv, Control, InsideMutex, TakingShared
<1>8. KernelBacks'
  BY <1>1, <1>2, <1>3, <1>5, <1>7 DEF Kernel, KernelBacks, TypeOK, TakingShared
<1>9. reservedByte[p] = "none"
  BY <1>1, <1>4 DEF Kernel, ReservedIsKnown
<1>10. ReservedIsKnown'
  BY <1>1, <1>3, <1>9 DEF Kernel, ReservedIsKnown, TypeOK
<1>11. ReservedHolders' = ReservedHolders
  BY <1>2, <1>3 DEF ReservedHolders
<1>12. \A g \in Handle : Level(g) >= PENDING_LOCK => ~(pc[h] \in TakingShared)
  <2> SUFFICES ASSUME NEW g \in Handle, Level(g) >= PENDING_LOCK PROVE FALSE
    BY <1>3
  <2>1. pendingByte[ProcOf[g]] = "write" /\ pendingByte[p] = "read"
    BY <1>1, <1>3 DEF Kernel, KernelBacks
  <2>2. ProcOf[g] # p
    BY <1>5
  <2>3. QED
    BY <1>1, <2>1, <2>2 DEF Kernel, KernelSound, NoConflict
<1>13. CASE pc[h] = "sharedGot"
  BY <1>2, <1>3, <1>6, <1>8, <1>10, <1>11, <1>12, <1>13, AbstractGetShared
  DEF Kernel, Goes
<1>14. CASE pc[h] # "sharedGot"
  BY <1>2, <1>6, <1>8, <1>10, <1>11, <1>14, AbstractStutter DEF Kernel
<1>15. QED
  BY <1>13, <1>14

\* At the moment a handle may ask for more than SHARED, no other handle of
\* the process is above SHARED.
LEMMA NotPrecluded ==
  ASSUME LInv, NEW h \in Handle, locktype[h] = procLock[ProcOf[h]],
         Idle(h), MutexFree(h), NEW g \in Handle, g # h, ProcOf[g] = ProcOf[h]
  PROVE  /\ Level(g) = Eff(g) /\ Level(g) <= locktype[h]
         /\ ~(Level(g) > SHARED_LOCK)
         /\ locktype[h] = EXCLUSIVE_LOCK => Level(g) = NO_LOCK
<1> DEFINE p == ProcOf[h]
<1>1. /\ Level(g) = Eff(g) /\ Level(g) \in LockType
      /\ Level(h) = locktype[h] /\ Level(h) \in LockType
  BY LevelFacts DEF MutexFree, Idle, Level, Unlocking
<1>2. Eff(g) <= procLock[p] /\ (Eff(g) > SHARED_LOCK => Eff(g) = procLock[p])
  BY DEF LInv, Levels, TopIsKnown
<1>3. Level(h) > SHARED_LOCK => ~(Level(g) > SHARED_LOCK)
  BY OneTop
<1>4. Level(h) = EXCLUSIVE_LOCK => Level(g) = NO_LOCK
  BY OneTop
<1>5. QED
  BY <1>1, <1>2, <1>3, <1>4 DEF LockType

LEMMA ReservedKernel ==
  ASSUME IInv, NEW h \in Handle, LockReserved(h)
  PROVE  Kernel' /\ AbstractStep
<1> DEFINE p == ProcOf[h]
<1>1. LInv /\ Kernel /\ p \in Proc /\ TypeOK
  BY DEF IInv, LInv
<1>2. \A g \in Handle : /\ Level(g)' = IF g = h THEN RESERVED_LOCK ELSE Level(g)
                       /\ Eff(g)' = IF g = h THEN RESERVED_LOCK ELSE Eff(g)
  BY <1>1, ReservedLevels
<1>3. /\ UNCHANGED <<pendingByte, sharedRange, pc>> /\ Idle(h) /\ MutexFree(h)
      /\ \A q \in Proc \ {p} : reservedByte[q] = "none"
      /\ reservedByte' = [reservedByte EXCEPT ![p] = "write"]
      /\ procLock' = [procLock EXCEPT ![p] = RESERVED_LOCK]
      /\ locktype[h] = SHARED_LOCK /\ procLock[p] = SHARED_LOCK
      /\ Level(h) = SHARED_LOCK /\ Eff(h) = SHARED_LOCK
  BY DEF LockReserved, Precluded, SetLevel, FSetLk, Grantable, Idle, Level, Eff, Unlocking
<1>4. \A g \in Handle : g # h /\ ProcOf[g] = p => ~(Level(g) > SHARED_LOCK)
  BY <1>1, <1>3, NotPrecluded
<1>5. KernelSound'
  BY <1>1, <1>3 DEF Kernel, KernelSound, NoConflict, TypeOK
<1>6. KernelBacks'
  BY <1>1, <1>2, <1>3, <1>4 DEF Kernel, KernelBacks, TypeOK
<1>7. ReservedIsKnown'
  BY <1>1, <1>3 DEF Kernel, ReservedIsKnown, TypeOK
<1>8. \A g \in Handle : Level(g) \in LockType
  BY <1>1, LevelFacts
<1>9. ReservedHolders = {}
  BY <1>3, <1>4, <1>8 DEF ReservedHolders, LockType
<1>10. ReservedHolders' = {h}
  <2>1. \A g \in Handle : (Level(g)' >= RESERVED_LOCK /\ reservedByte'[ProcOf[g]] = "write")
                         <=> g = h
    BY <1>1, <1>2, <1>3, <1>4, <1>8 DEF LockType, TypeOK
  <2>2. QED
    BY <2>1 DEF ReservedHolders
<1>11. QED
  BY <1>2, <1>3, <1>5, <1>6, <1>7, <1>9, <1>10, AbstractGetReserved DEF Kernel, Goes

LEMMA ExclPendingKernel ==
  ASSUME IInv, NEW h \in Handle, LockExclusivePending(h)
  PROVE  Kernel' /\ AbstractStep
<1> DEFINE p == ProcOf[h]
<1>1. LInv /\ Kernel /\ p \in Proc /\ TypeOK
  BY DEF IInv, LInv
<1>2. \A g \in Handle : /\ Level(g)' = IF g = h THEN PENDING_LOCK ELSE Level(g)
                       /\ Eff(g)' = IF g = h THEN Eff(h) ELSE Eff(g)
  BY <1>1, ExclPendingLevels
<1>3. /\ UNCHANGED <<reservedByte, sharedRange, procLock>> /\ Idle(h) /\ MutexFree(h)
      /\ \A q \in Proc \ {p} : pendingByte[q] = "none"
      /\ pendingByte' = [pendingByte EXCEPT ![p] = "write"]
      /\ pc' = [pc EXCEPT ![h] = "exclRange"]
      /\ locktype[h] \in {SHARED_LOCK, RESERVED_LOCK} /\ procLock[p] = locktype[h]
      /\ Level(h) = locktype[h] /\ Eff(h) = locktype[h]
      /\ mutex[p] = NoHandle
  BY DEF LockExclusivePending, Precluded, FSetLk, Grantable, Idle, Level, Eff,
         Unlocking, lockInfo, MutexFree
<1>4. \A g \in Handle : g # h /\ ProcOf[g] = p => ~(Level(g) > SHARED_LOCK)
  BY <1>1, <1>3, NotPrecluded
<1>5. \A g \in Handle : Level(g) \in LockType
  BY <1>1, LevelFacts
<1>6. KernelSound'
  BY <1>1, <1>3 DEF Kernel, KernelSound, NoConflict, TypeOK
<1>7. \A g \in Handle : ProcOf[g] = p => pc[g] \notin TakingShared
  BY <1>1, <1>3 DEF LInv, Control, InsideMutex, TakingShared
<1>8. KernelBacks'
  BY <1>1, <1>2, <1>3, <1>4, <1>7 DEF Kernel, KernelBacks, TypeOK, TakingShared
<1>9. ReservedIsKnown'
  BY <1>1, <1>3 DEF Kernel, ReservedIsKnown
<1>10. reservedByte[p] = "write" <=> locktype[h] = RESERVED_LOCK
  BY <1>1, <1>3 DEF Kernel, KernelBacks, ReservedIsKnown
<1>11. ReservedHolders' = ReservedHolders
  <2>1. \A g \in Handle :
          (Level(g)' >= RESERVED_LOCK /\ reservedByte'[ProcOf[g]] = "write")
          <=> (Level(g) >= RESERVED_LOCK /\ reservedByte[ProcOf[g]] = "write")
    BY <1>2, <1>3, <1>10
  <2>2. QED
    BY <2>1 DEF ReservedHolders
<1>12. \A g \in Handle : Level(g) < PENDING_LOCK
  <2> SUFFICES ASSUME NEW g \in Handle PROVE ~(Level(g) >= PENDING_LOCK)
    BY <1>5 DEF LockType
  <2>1. CASE g = h
    BY <1>3, <2>1
  <2>2. CASE g # h /\ ProcOf[g] = p
    BY <1>4, <1>5, <2>2 DEF LockType
  <2>3. CASE ProcOf[g] # p
    BY <1>1, <1>3, <2>3 DEF Kernel, KernelBacks
  <2>4. QED
    BY <2>1, <2>2, <2>3
<1>13. QED
  BY <1>2, <1>3, <1>6, <1>8, <1>9, <1>11, <1>12, AbstractGetPending DEF Kernel, Goes

LEMMA ExclRangeKernel ==
  ASSUME IInv, NEW h \in Handle, LockExclusiveRange(h)
  PROVE  Kernel' /\ AbstractStep
<1> DEFINE p == ProcOf[h]
<1>1. LInv /\ Kernel /\ p \in Proc /\ TypeOK
  BY DEF IInv, LInv
<1>2. /\ \A g \in Handle \ {h} : Level(g)' = Level(g) /\ Eff(g)' = Eff(g)
      /\ Level(h) = PENDING_LOCK
      /\ Level(h)' = locktype'[h] /\ Eff(h)' = locktype'[h]
  BY <1>1, ExclRangeLevels
<1>3. /\ UNCHANGED <<pendingByte, reservedByte>>
      /\ pc' = [pc EXCEPT ![h] = "idle"]
  BY DEF LockExclusiveRange
<1>4. \/ /\ cnt[p] <= 1 /\ \A q \in Proc \ {p} : sharedRange[q] = "none"
         /\ sharedRange' = [sharedRange EXCEPT ![p] = "write"]
         /\ locktype' = [locktype EXCEPT ![h] = EXCLUSIVE_LOCK]
         /\ procLock' = [procLock EXCEPT ![p] = EXCLUSIVE_LOCK]
      \/ /\ UNCHANGED sharedRange
         /\ locktype' = [locktype EXCEPT ![h] = PENDING_LOCK]
         /\ procLock' = [procLock EXCEPT ![p] = PENDING_LOCK]
  BY DEF LockExclusiveRange, AloneInProcess, Grantable, FSetLk, SetLevel
<1>5. locktype'[h] = PENDING_LOCK \/ locktype'[h] = EXCLUSIVE_LOCK
  BY <1>1, <1>4 DEF TypeOK
<1>6. \A g \in Handle : Level(g) \in LockType /\ Eff(g) \in LockType
                       /\ (Level(g) >= SHARED_LOCK => Eff(g) >= SHARED_LOCK)
  BY <1>1, LevelFacts
<1>7. KernelSound'
  BY <1>1, <1>3, <1>4 DEF Kernel, KernelSound, NoConflict, TypeOK
<1>8. /\ pendingByte[p] = "write" /\ sharedRange[p] # "none"
      /\ sharedRange'[p] # "none"
      /\ locktype'[h] = EXCLUSIVE_LOCK => sharedRange'[p] = "write"
  BY <1>1, <1>2, <1>4, <1>6 DEF Kernel, KernelBacks, TypeOK
<1>9. \A g \in Handle \ {h} : ProcOf[g] = p => ~(Level(g) > SHARED_LOCK)
  BY <1>1, <1>2, OneTop
<1>10. KernelBacks'
  <2> SUFFICES ASSUME NEW g \in Handle
        PROVE /\ Eff(g)' >= SHARED_LOCK => sharedRange'[ProcOf[g]] # "none"
              /\ Level(g)' = RESERVED_LOCK => reservedByte'[ProcOf[g]] = "write"
              /\ Level(g)' >= PENDING_LOCK => pendingByte'[ProcOf[g]] = "write"
              /\ Level(g)' = EXCLUSIVE_LOCK => sharedRange'[ProcOf[g]] = "write"
              /\ pc'[g] \in TakingShared => pendingByte'[ProcOf[g]] = "read"
              /\ pc'[g] = "sharedGot" => sharedRange'[ProcOf[g]] # "none"
    BY DEF KernelBacks
  <2>1. CASE g = h
    BY <1>1, <1>2, <1>3, <1>5, <1>8, <2>1 DEF TypeOK, TakingShared
  <2>2. CASE g # h /\ ProcOf[g] = p
    BY <1>1, <1>2, <1>3, <1>8, <1>9, <2>2 DEF TypeOK, Kernel, KernelBacks
  <2>3. CASE ProcOf[g] # p
    BY <1>1, <1>2, <1>3, <1>4, <2>3 DEF TypeOK, Kernel, KernelBacks
  <2>4. QED
    BY <2>1, <2>2, <2>3
<1>11. ReservedIsKnown'
  BY <1>1, <1>3, <1>4 DEF Kernel, ReservedIsKnown, TypeOK
<1>12. ReservedHolders' = ReservedHolders
  <2>1. \A g \in Handle :
          (Level(g)' >= RESERVED_LOCK /\ reservedByte'[ProcOf[g]] = "write")
          <=> (Level(g) >= RESERVED_LOCK /\ reservedByte[ProcOf[g]] = "write")
    BY <1>2, <1>3, <1>5
  <2>2. QED
    BY <2>1 DEF ReservedHolders
<1>13. CASE locktype'[h] = PENDING_LOCK
  BY <1>2, <1>7, <1>10, <1>11, <1>12, <1>13, AbstractStutter DEF Kernel
<1>14. CASE locktype'[h] = EXCLUSIVE_LOCK
  <2>1. cnt[p] <= 1 /\ \A q \in Proc \ {p} : sharedRange[q] = "none"
    BY <1>1, <1>4, <1>14 DEF TypeOK
  <2>2. ASSUME NEW g \in Handle \ {h} PROVE Level(g) = NO_LOCK
    <3>1. CASE ProcOf[g] = p
      BY <1>1, <1>2, <1>6, <2>1, <3>1, CountMeans DEF LInv, LockType
    <3>2. CASE ProcOf[g] # p
      BY <1>1, <1>6, <2>1, <3>2 DEF Kernel, KernelBacks, LockType
    <3>3. QED
      BY <3>1, <3>2
  <2>3. Goes(h, EXCLUSIVE_LOCK)
    BY <1>2, <1>14 DEF Goes
  <2>4. QED
    BY <1>2, <1>7, <1>10, <1>11, <1>12, <2>2, <2>3, AbstractGetExclusive DEF Kernel
<1>15. QED
  BY <1>5, <1>13, <1>14

LEMMA UnlockKernel ==
  ASSUME IInv, NEW h \in Handle, NEW k \in Goal, Unlock(h, k)
  PROVE  Kernel' /\ AbstractStep
<1>1. LInv /\ Kernel /\ TypeOK
  BY DEF IInv, LInv
<1>2. /\ \A g \in Handle \ {h} : Level(g)' = Level(g)
      /\ \A g \in Handle : Eff(g)' = Eff(g)
      /\ Level(h) = locktype[h] /\ Level(h)' = GoalLevel(k)
  BY <1>1, UnlockLevels
<1>3. /\ UNCHANGED <<pendingByte, reservedByte, sharedRange, procLock>>
      /\ locktype[h] > GoalLevel(k)
      /\ \A g \in Handle : pc'[g] = pc[g] \/ pc'[g] \notin TakingShared
  BY <1>1 DEF Unlock, kernel, lockInfo, TypeOK, TakingShared
<1>4. GoalLevel(k) = NO_LOCK \/ GoalLevel(k) = SHARED_LOCK
  BY DEF GoalLevel
<1>5. KernelSound'
  BY <1>1, <1>3 DEF Kernel, KernelSound, NoConflict
<1>6. KernelBacks'
  BY <1>1, <1>2, <1>3, <1>4 DEF Kernel, KernelBacks, TakingShared
<1>7. ReservedIsKnown'
  BY <1>1, <1>3 DEF Kernel, ReservedIsKnown
<1>8. ReservedHolders' = ReservedHolders \ {h}
  <2>1. \A g \in Handle :
          (Level(g)' >= RESERVED_LOCK /\ reservedByte'[ProcOf[g]] = "write")
          <=> (g # h /\ Level(g) >= RESERVED_LOCK /\ reservedByte[ProcOf[g]] = "write")
    BY <1>2, <1>3, <1>4
  <2>2. QED
    BY <2>1 DEF ReservedHolders
<1>9. AbstractStep
  BY <1>2, <1>3, <1>4, <1>8, AbstractRelease DEF Goes
<1>10. QED
  BY <1>5, <1>6, <1>7, <1>9 DEF Kernel

LEMMA DowngradeKernel ==
  ASSUME IInv, NEW h \in Handle, UnlockDowngrade(h)
  PROVE  Kernel' /\ AbstractStep
<1> DEFINE p == ProcOf[h]
<1>1. LInv /\ Kernel /\ p \in Proc /\ TypeOK
  BY DEF IInv, LInv
<1>2. \A g \in Handle : Level(g)' = Level(g) /\ Eff(g)' = Eff(g)
  BY <1>1, DowngradeLevels
<1>3. /\ UNCHANGED <<pendingByte, reservedByte, procLock>>
      /\ sharedRange' = [sharedRange EXCEPT ![p] = "read"]
      /\ pc[h] = "downgrade" /\ pc' = [pc EXCEPT ![h] = "dropBytes"]
  BY DEF UnlockDowngrade, lockInfo, FSetLk
<1>4. /\ locktype[h] > SHARED_LOCK /\ Eff(h) = locktype[h]
      /\ mutex[p] = h /\ Eff(h) \in LockType
  BY <1>1, <1>3 DEF LInv, Control, Eff, InsideMutex, TypeOK
<1>5. sharedRange[p] # "none"
  BY <1>1, <1>4 DEF Kernel, KernelBacks, LockType
<1>6. KernelSound'
  BY <1>1, <1>3, <1>5 DEF Kernel, KernelSound, NoConflict, TypeOK
\* No other handle of the process is at EXCLUSIVE.
<1>7. \A g \in Handle : ProcOf[g] = p => Level(g) # EXCLUSIVE_LOCK
  <2> SUFFICES ASSUME NEW g \in Handle, ProcOf[g] = p, Level(g) = EXCLUSIVE_LOCK
               PROVE FALSE
    OBVIOUS
  <2>1. CASE g = h
    BY <1>3, <2>1 DEF Level, Unlocking, GoalLevel
  <2>2. CASE g # h
    BY <1>1, <1>4, <2>2, LevelFacts DEF LInv, Levels, OneWriter, LockType
  <2>3. QED
    BY <2>1, <2>2
<1>8. KernelBacks'
  BY <1>1, <1>2, <1>3, <1>7 DEF Kernel, KernelBacks, TypeOK, TakingShared
<1>9. ReservedIsKnown'
  BY <1>1, <1>3 DEF Kernel, ReservedIsKnown
<1>10. ReservedHolders' = ReservedHolders
  BY <1>2, <1>3 DEF ReservedHolders
<1>11. QED
  BY <1>2, <1>6, <1>8, <1>9, <1>10, AbstractStutter DEF Kernel

LEMMA DropBytesKernel ==
  ASSUME IInv, NEW h \in Handle, UnlockDropBytes(h)
  PROVE  Kernel' /\ AbstractStep
<1> DEFINE p == ProcOf[h]
<1>1. LInv /\ Kernel /\ p \in Proc /\ TypeOK
  BY DEF IInv, LInv
<1>2. /\ \A g \in Handle : Level(g)' = Level(g)
      /\ \A g \in Handle : Eff(g)' = IF g = h THEN SHARED_LOCK ELSE Eff(g)
  BY <1>1, DropBytesLevels
<1>3. /\ UNCHANGED sharedRange /\ pc[h] = "dropBytes"
      /\ pendingByte' = [pendingByte EXCEPT ![p] = "none"]
      /\ reservedByte' = [reservedByte EXCEPT ![p] = "none"]
      /\ procLock' = [procLock EXCEPT ![p] = SHARED_LOCK]
      /\ \A g \in Handle : pc'[g] = pc[g] \/ pc'[g] \notin TakingShared
  BY <1>1 DEF UnlockDropBytes, FSetLk, TypeOK, TakingShared
<1>4. /\ locktype[h] > SHARED_LOCK /\ Eff(h) = locktype[h]
      /\ mutex[p] = h /\ Eff(h) \in LockType
  BY <1>1, <1>3 DEF LInv, Control, Eff, InsideMutex, TypeOK
<1>5. sharedRange[p] # "none"
  BY <1>1, <1>4 DEF Kernel, KernelBacks, LockType
<1>6. KernelSound'
  BY <1>1, <1>3 DEF Kernel, KernelSound, NoConflict, TypeOK
<1>7. \A g \in Handle : ProcOf[g] = p => Level(g) \in {NO_LOCK, SHARED_LOCK}
  <2> SUFFICES ASSUME NEW g \in Handle, ProcOf[g] = p, Level(g) > SHARED_LOCK
               PROVE FALSE
    BY <1>1, LevelFacts DEF LockType
  <2>1. CASE g = h
    BY <1>3, <2>1 DEF Level, Unlocking, GoalLevel
  <2>2. CASE g # h
    BY <1>1, <1>4, <2>2, LevelFacts DEF LInv, Levels, OneWriter, LockType
  <2>3. QED
    BY <2>1, <2>2
<1>8. \A g \in Handle : ProcOf[g] = p => pc[g] \notin TakingShared
  BY <1>1, <1>3, <1>4 DEF LInv, Control, InsideMutex, TakingShared
<1>9. KernelBacks'
  BY <1>1, <1>2, <1>3, <1>5, <1>7, <1>8 DEF Kernel, KernelBacks, TypeOK, TakingShared
<1>10. ReservedIsKnown'
  BY <1>1, <1>3 DEF Kernel, ReservedIsKnown, TypeOK
<1>11. ReservedHolders' = ReservedHolders
  <2>1. \A g \in Handle :
          (Level(g)' >= RESERVED_LOCK /\ reservedByte'[ProcOf[g]] = "write")
          <=> (Level(g) >= RESERVED_LOCK /\ reservedByte[ProcOf[g]] = "write")
    BY <1>1, <1>2, <1>3, <1>7 DEF TypeOK
  <2>2. QED
    BY <2>1 DEF ReservedHolders
<1>12. QED
  BY <1>2, <1>6, <1>9, <1>10, <1>11, AbstractStutter DEF Kernel

\* Closing a descriptor harms no one in a process where nobody has a lock.
LEMMA DropAllKernel ==
  ASSUME LInv, Kernel, NEW p \in Proc, DropAll(p),
         \A g \in Handle : ProcOf[g] = p =>
             Level(g)' = NO_LOCK /\ Eff(g)' = NO_LOCK /\ pc'[g] \notin TakingShared,
         \A g \in Handle : ProcOf[g] # p =>
             Level(g)' = Level(g) /\ Eff(g)' = Eff(g) /\ pc'[g] = pc[g],
         \A q \in Proc \ {p} : procLock'[q] = procLock[q]
  PROVE  /\ Kernel'
         /\ ReservedHolders' = {g \in ReservedHolders : ProcOf[g] # p}
<1>1. TypeOK
  BY DEF LInv
<1>2. /\ pendingByte' = [pendingByte EXCEPT ![p] = "none"]
      /\ reservedByte' = [reservedByte EXCEPT ![p] = "none"]
      /\ sharedRange' = [sharedRange EXCEPT ![p] = "none"]
  BY DEF DropAll, FSetLk
<1>3. KernelSound'
  BY <1>1, <1>2 DEF Kernel, KernelSound, NoConflict, TypeOK
<1>4. KernelBacks'
  BY <1>1, <1>2 DEF Kernel, KernelBacks, TypeOK, TakingShared
<1>5. ReservedIsKnown'
  BY <1>1, <1>2 DEF Kernel, ReservedIsKnown, TypeOK
<1>6. \A g \in Handle :
        (Level(g)' >= RESERVED_LOCK /\ reservedByte'[ProcOf[g]] = "write")
        <=> /\ ProcOf[g] # p /\ Level(g) >= RESERVED_LOCK
            /\ reservedByte[ProcOf[g]] = "write"
  BY <1>1, <1>2 DEF TypeOK
<1>7. ReservedHolders' = {g \in ReservedHolders : ProcOf[g] # p}
  BY <1>6 DEF ReservedHolders
<1>8. QED
  BY <1>3, <1>4, <1>5, <1>7 DEF Kernel

LEMMA CountKernel ==
  ASSUME IInv, NEW h \in Handle, UnlockCount(h)
  PROVE  Kernel' /\ AbstractStep
<1> DEFINE p == ProcOf[h]
<1>1. LInv /\ Kernel /\ p \in Proc /\ TypeOK
  BY DEF IInv, LInv
<1>2. /\ \A g \in Handle : Level(g)' = Level(g)
      /\ \A g \in Handle : Eff(g)' = IF g = h THEN NO_LOCK ELSE Eff(g)
  BY <1>1, CountLevels
<1>3. /\ \A g \in Handle : pc'[g] = pc[g] \/ pc'[g] \notin TakingShared
      /\ \A g \in Handle \ {h} : pc'[g] = pc[g]
      /\ pc'[h] = "setLevel" /\ pc[h] = "count"
  BY <1>1 DEF UnlockCount, TypeOK, TakingShared
<1>4. mutex[p] = h /\ Eff(h) = SHARED_LOCK
  BY <1>1, <1>3 DEF LInv, Control, InsideMutex, Eff
<1>5. cnt[p] \in Nat /\ nLock[p] = cnt[p] /\ cnt[p] # 0
  BY <1>1, <1>4, CountMeans DEF LInv
<1>6. CASE cnt[p] = 1
  <2>1. DropAll(p) /\ procLock' = [procLock EXCEPT ![p] = NO_LOCK]
    BY <1>6 DEF UnlockCount
  <2>2. ASSUME NEW g \in Handle, ProcOf[g] = p
        PROVE  Level(g) = NO_LOCK /\ Eff(g)' = NO_LOCK /\ pc'[g] \notin TakingShared
    <3>1. CASE g = h
      <4>1. Level(h) = NO_LOCK
        BY <1>1, <1>3 DEF LInv, Control, Level, Unlocking, GoalLevel, TypeOK
      <4>2. QED
        BY <1>2, <1>3, <3>1, <4>1 DEF TakingShared
    <3>2. CASE g # h
      <4>1. ~(Eff(g) >= SHARED_LOCK)
        BY <1>1, <1>4, <1>6, <2>2, <3>2, CountMeans DEF LInv
      <4>2. Level(g) = NO_LOCK /\ Eff(g) = NO_LOCK
        BY <1>1, <4>1, LevelFacts DEF LockType
      <4>3. pc[g] \notin TakingShared
        BY <1>1, <1>4, <2>2, <3>2 DEF LInv, Control, InsideMutex, TakingShared
      <4>4. QED
        BY <1>2, <1>3, <3>2, <4>1, <4>2, <4>3
    <3>3. QED
      BY <3>1, <3>2
  <2>3. Kernel' /\ ReservedHolders' = {g \in ReservedHolders : ProcOf[g] # p}
    BY <1>1, <1>2, <1>3, <2>1, <2>2, DropAllKernel DEF TypeOK
  <2>4. ReservedHolders' = ReservedHolders
    <3>1. \A g \in ReservedHolders : ProcOf[g] # p
      BY <2>2 DEF ReservedHolders
    <3>2. QED
      BY <2>3, <3>1
  <2>5. QED
    BY <1>2, <2>3, <2>4, AbstractStutter
<1>7. CASE cnt[p] # 1
  <2>1. UNCHANGED kernel /\ UNCHANGED procLock
    BY <1>5, <1>7 DEF UnlockCount
  <2>2. QED
    BY <1>1, <1>2, <1>3, <2>1, KernelSame
<1>8. QED
  BY <1>6, <1>7

LEMMA SetLevelKernel ==
  ASSUME IInv, NEW h \in Handle, UnlockSetLevel(h)
  PROVE  Kernel' /\ AbstractStep
<1>1. LInv /\ Kernel /\ TypeOK
  BY DEF IInv, LInv
<1>2. \A g \in Handle : Level(g)' = Level(g) /\ Eff(g)' = Eff(g)
  BY <1>1, SetLevelLevels
<1>3. /\ UNCHANGED kernel /\ UNCHANGED procLock
      /\ \A g \in Handle : pc'[g] = pc[g] \/ pc'[g] \notin TakingShared
  BY <1>1 DEF UnlockSetLevel, lockInfo, TypeOK, TakingShared
<1>4. QED
  BY <1>1, <1>2, <1>3, KernelSame

LEMMA OpenKernel ==
  ASSUME IInv, NEW h \in Handle, Open(h)
  PROVE  Kernel' /\ AbstractStep
<1> DEFINE p == ProcOf[h]
<1>1. LInv /\ Kernel /\ p \in Proc /\ TypeOK
  BY DEF IInv, LInv
<1>2. \A g \in Handle : Level(g)' = Level(g) /\ Eff(g)' = Eff(g)
  BY <1>1, OpenLevels
<1>3. UNCHANGED kernel /\ UNCHANGED pc
  BY DEF Open
<1>4. \A q \in Proc : procLock'[q] = procLock[q] \/ reservedByte[q] = "none"
  <2>1. CASE infoRef[p] # 0
    BY <2>1 DEF Open
  <2>2. CASE infoRef[p] = 0
    <3>1. Openers(p) = {}
      BY <1>1, <2>2, OpenersCard DEF LInv, Counts
    <3>2. \A g \in Handle : ProcOf[g] = p => ~(Eff(g) >= SHARED_LOCK)
      BY <1>1, <3>1 DEF LInv, Control, Openers, Eff
    <3>3. procLock[p] = NO_LOCK
      BY <1>1, <3>2, CountMeans DEF LInv, Levels, ZeroMeansNone
    <3>4. reservedByte[p] = "none"
      BY <1>1, <3>3 DEF Kernel, ReservedIsKnown
    <3>5. QED
      BY <1>1, <3>4 DEF Open, TypeOK
  <2>3. QED
    BY <2>1, <2>2
<1>5. QED
  BY <1>1, <1>2, <1>3, <1>4, KernelSame

LEMMA CloseKernel ==
  ASSUME IInv, NEW h \in Handle, Close(h)
  PROVE  Kernel' /\ AbstractStep
<1> DEFINE p == ProcOf[h]
<1>1. LInv /\ Kernel /\ p \in Proc /\ TypeOK
  BY DEF IInv, LInv
<1>2. \A g \in Handle : Level(g)' = Level(g) /\ Eff(g)' = Eff(g)
  BY <1>1, CloseLevels
<1>3. /\ UNCHANGED procLock /\ mutex[p] = NoHandle
      /\ pc' = [pc EXCEPT ![h] = "idle"]
      /\ UNCHANGED kernel \/ (DropAll(p) /\ ~(nLock[p] > 0))
  BY DEF Close, MutexFree, HoldsLocks
<1>4. \A g \in Handle : pc'[g] = pc[g] \/ pc'[g] \notin TakingShared
  BY <1>1, <1>3 DEF TypeOK, TakingShared
<1>5. CASE UNCHANGED kernel
  BY <1>1, <1>2, <1>3, <1>4, <1>5, KernelSame
<1>6. CASE DropAll(p) /\ ~(nLock[p] > 0)
  <2>1. cnt[p] = 0
    BY <1>1, <1>6, CountMeans DEF LInv
  <2>2. ASSUME NEW g \in Handle, ProcOf[g] = p
        PROVE  Level(g) = NO_LOCK /\ Eff(g) = NO_LOCK /\ pc'[g] \notin TakingShared
    <3>1. ~(Eff(g) >= SHARED_LOCK)
      BY <1>1, <2>1, <2>2, CountMeans DEF LInv
    <3>2. pc[g] \notin TakingShared
      BY <1>1, <1>3, <2>2 DEF LInv, Control, InsideMutex, TakingShared
    <3>3. QED
      BY <1>1, <1>4, <3>1, <3>2, LevelFacts DEF LockType
  <2>3. \A g \in Handle : ProcOf[g] # p => pc'[g] = pc[g]
    BY <1>1, <1>3 DEF TypeOK
  <2>4. Kernel' /\ ReservedHolders' = {g \in ReservedHolders : ProcOf[g] # p}
    BY <1>1, <1>2, <1>3, <1>6, <2>2, <2>3, DropAllKernel
  <2>5. \A g \in ReservedHolders : ProcOf[g] # p
    BY <2>2 DEF ReservedHolders
  <2>6. QED
    BY <1>2, <2>4, <2>5, AbstractStutter
<1>7. QED
  BY <1>3, <1>5, <1>6

LEMMA CrashKernel ==
  ASSUME IInv, NEW p \in Proc, Crash(p)
  PROVE  Kernel' /\ AbstractStep
<1>1. LInv /\ Kernel /\ TypeOK
  BY DEF IInv, LInv
<1>2. \A g \in Handle :
        /\ Level(g)' = IF ProcOf[g] = p THEN NO_LOCK ELSE Level(g)
        /\ Eff(g)' = IF ProcOf[g] = p THEN NO_LOCK ELSE Eff(g)
  BY <1>1, CrashLevels
<1>3. /\ DropAll(p) /\ \A q \in Proc \ {p} : procLock'[q] = procLock[q]
      /\ \A g \in Handle : pc'[g] = IF ProcOf[g] = p THEN "idle" ELSE pc[g]
  BY <1>1 DEF Crash, TypeOK
<1>4. Kernel' /\ ReservedHolders' = {g \in ReservedHolders : ProcOf[g] # p}
  BY <1>1, <1>2, <1>3, DropAllKernel DEF TakingShared
<1>5. QED
  BY <1>2, <1>4, AbstractDie

-----------------------------------------------------------------------------
(* The theorems.                                                           *)

LEMMA InitKernel == Init => Kernel /\ Abstract!Init
<1> SUFFICES ASSUME Init PROVE Kernel /\ Abstract!Init
  OBVIOUS
<1>1. \A g \in Handle : Level(g) = NO_LOCK /\ Eff(g) = NO_LOCK
  BY DEF Init, Level, Eff, Unlocking
<1>2. Kernel
  BY <1>1 DEF Init, Kernel, KernelSound, NoConflict, KernelBacks,
              ReservedIsKnown, TakingShared
<1>3. ReservedHolders = {}
  BY <1>1 DEF ReservedHolders
<1>4. QED
  BY <1>1, <1>2, <1>3, AbstractConstants DEF Abstract!Init

LEMMA StutterKernel ==
  ASSUME IInv, UNCHANGED vars PROVE Kernel' /\ AbstractStep
<1>1. /\ UNCHANGED kernel /\ UNCHANGED <<procLock, pc, goal, locktype>>
  BY DEF vars, lockInfo
<1>2. \A g \in Handle : Level(g)' = Level(g) /\ Eff(g)' = Eff(g)
  BY <1>1 DEF Level, Eff, Unlocking
<1>3. QED
  BY <1>1, <1>2, KernelSame DEF IInv

LEMMA NextKernel ==
  ASSUME OpenFails = {}, IInv, [Next]_vars
  PROVE  IInv' /\ AbstractStep
<1>1. ASSUME NEW h \in Handle, LockStep(h) PROVE Kernel' /\ AbstractStep
  BY <1>1, InProcessKernel, SharedPendingKernel, SharedRangeKernel,
     DropPendingKernel, ReservedKernel, ExclPendingKernel, ExclRangeKernel
  DEF LockStep
<1>2. ASSUME NEW h \in Handle, UnlockStep(h) PROVE Kernel' /\ AbstractStep
  BY <1>2, UnlockKernel, DowngradeKernel, DropBytesKernel, CountKernel,
     SetLevelKernel DEF UnlockStep
<1>3. Kernel' /\ AbstractStep
  BY <1>1, <1>2, OpenKernel, CloseKernel, CrashKernel, StutterKernel
  DEF Next, OpenNoMem
<1>4. LInv'
  BY NextLInv DEF IInv
<1>5. QED
  BY <1>3, <1>4 DEF IInv

LEMMA InvariantHolds ==
  ASSUME OpenFails = {} PROVE Spec => []IInv
<1>1. Init => IInv
  BY InitLInv, InitKernel DEF IInv
<1>2. IInv /\ [Next]_vars => IInv'
  BY NextKernel
<1>3. QED
  BY <1>1, <1>2, PTL DEF Spec

\* When opening a file does not run out of memory, the multiplexing of handles
\* over the kernel's per-process locks implements FileLock, for any number of
\* processes and handles: every fcntl() or local step of unixLock(),
\* unixUnlock() and unixClose() is a change of level FileLock allows, or none.
THEOREM UnixLockImplements ==
  ASSUME OpenFails = {} PROVE Spec => ImplementsFileLock
<1>1. Init => Abstract!Init
  BY InitKernel
<1>2. IInv /\ [Next]_vars => [Abstract!Next]_(Abstract!vars)
  BY NextKernel DEF AbstractStep
<1>3. QED
  BY <1>1, <1>2, InvariantHolds, PTL DEF Spec, ImplementsFileLock, Abstract!Spec

LEMMA IInvExclusion == IInv => Exclusion
<1> SUFFICES ASSUME IInv, NEW g \in Handle, NEW h \in Handle, g # h
    PROVE /\ Level(g) = EXCLUSIVE_LOCK => Level(h) = NO_LOCK
          /\ ~(Level(g) >= PENDING_LOCK /\ Level(h) >= PENDING_LOCK)
          /\ ~(g \in ReservedHolders /\ h \in ReservedHolders)
          /\ ~(Level(g) = RESERVED_LOCK /\ Level(h) = RESERVED_LOCK)
  BY AbstractConstants DEF Exclusion, Abstract!Exclusion
<1>1. LInv /\ Kernel
  BY DEF IInv
<1>2. /\ Level(g) \in LockType /\ Level(h) \in LockType
      /\ Eff(g) \in LockType /\ Eff(h) \in LockType
      /\ Level(h) >= SHARED_LOCK => Eff(h) >= SHARED_LOCK
  BY <1>1, LevelFacts
<1>3. CASE ProcOf[g] = ProcOf[h]
  BY <1>1, <1>2, <1>3, OneTop DEF LockType, ReservedHolders
<1>4. CASE ProcOf[g] # ProcOf[h]
  BY <1>1, <1>2, <1>4
  DEF Kernel, KernelSound, NoConflict, KernelBacks, LockType, ReservedHolders
<1>5. QED
  BY <1>3, <1>4

\* Nobody reads while another connection writes, and no two write: also for
\* the handles of one process, between which the kernel does not arbitrate.
THEOREM UnixLockExclusion ==
  ASSUME OpenFails = {} PROVE Spec => []Exclusion
BY InvariantHolds, IInvExclusion, PTL

-----------------------------------------------------------------------------
(* The kernel and lockInfo agree, unless opening a file runs out of memory. *)

\* What the kernel has for process p is what lockInfo says.
Matches(p) ==
    /\ sharedRange[p] = CASE procLock[p] = NO_LOCK -> "none"
                           [] procLock[p] = EXCLUSIVE_LOCK -> "write"
                           [] OTHER -> "read"
    /\ pendingByte[p] = IF procLock[p] >= PENDING_LOCK THEN "write" ELSE "none"
    /\ procLock[p] = RESERVED_LOCK => reservedByte[p] = "write"
    /\ procLock[p] < RESERVED_LOCK => reservedByte[p] = "none"

\* The same while h is inside the mutex, between two calls of fcntl().
MidCall(h) ==
    LET p == ProcOf[h] IN
    /\ pc[h] \in TakingShared =>
           /\ sharedRange[p] = IF pc[h] = "sharedGot" THEN "read" ELSE "none"
           /\ reservedByte[p] = "none"
    /\ pc[h] = "exclRange" =>
           /\ sharedRange[p] = "read" /\ pendingByte[p] = "write"
    /\ pc[h] = "dropBytes" =>
           \/ sharedRange[p] = "read"
           \/ sharedRange[p] = "write" /\ locktype[h] = EXCLUSIVE_LOCK /\ goal[h] # "share"
    /\ pc[h] = "count" /\ cnt[p] # 1 => Matches(p)

KernelKnown ==
    /\ \A p \in Proc : mutex[p] = NoHandle => Matches(p)
    /\ \A h \in Handle : MidCall(h)

\* Nothing that concerns process q changes.
SameFor(q) ==
    /\ sharedRange'[q] = sharedRange[q] /\ pendingByte'[q] = pendingByte[q]
    /\ reservedByte'[q] = reservedByte[q] /\ procLock'[q] = procLock[q]

\* A step of h, or of another handle while h is not inside the mutex, has to
\* look at the process of h only.
LEMMA KnownStep ==
  ASSUME LInv, KernelKnown, NEW h \in Handle,
         \A q \in Proc \ {ProcOf[h]} :
             SameFor(q) /\ cnt'[q] = cnt[q] /\ mutex'[q] = mutex[q],
         \A g \in Handle \ {h} :
             pc'[g] = pc[g] /\ locktype'[g] = locktype[g] /\ goal'[g] = goal[g],
         mutex[ProcOf[h]] \in {h, NoHandle},
         mutex'[ProcOf[h]] = NoHandle => Matches(ProcOf[h])',
         MidCall(h)'
  PROVE  KernelKnown'
<1>1. \A q \in Proc \ {ProcOf[h]} : Matches(q) => Matches(q)'
  BY DEF SameFor, Matches
<1>2. \A p \in Proc : mutex'[p] = NoHandle => Matches(p)'
  BY <1>1 DEF KernelKnown
<1>3. ASSUME NEW g \in Handle \ {h} PROVE MidCall(g)'
  <2>1. CASE ProcOf[g] = ProcOf[h]
    <3>1. pc[g] \notin InsideMutex
      BY <2>1 DEF LInv, Control
    <3>2. QED
      BY <3>1 DEF MidCall, InsideMutex, TakingShared
  <2>2. CASE ProcOf[g] # ProcOf[h]
    BY <1>1, <2>2 DEF KernelKnown, MidCall, SameFor
  <2>3. QED
    BY <2>1, <2>2
<1>4. QED
  BY <1>2, <1>3 DEF KernelKnown

LEMMA LockStepKnown ==
  ASSUME LInv, KernelKnown, NEW h \in Handle, LockStep(h) PROVE KernelKnown'
<1> DEFINE p == ProcOf[h]
<1>1. TypeOK /\ Control /\ p \in Proc /\ MidCall(h)
  BY DEF LInv, KernelKnown
<1>2. mutex[p] = NoHandle => Matches(p)
  BY DEF KernelKnown
<1> USE DEF FSetLk, EnterMutex, LeaveMutex, MutexFree, SetLevel, Idle, InsideMutex,
            TakingShared, SameFor
<1>3. CASE LockSharedInProcess(h)
  <2>1. Matches(p)' /\ MidCall(h)'
    BY <1>1, <1>2, <1>3 DEF LockSharedInProcess, kernel, Matches, MidCall
  <2>2. QED
    BY <1>1, <1>3, <2>1, KnownStep
    DEF TypeOK, LockSharedInProcess, SharedCount, Incr, kernel
<1>4. CASE LockSharedPending(h)
  <2>1. procLock[p] = NO_LOCK
    BY <1>1, <1>4 DEF TypeOK, LockType, LockSharedPending, Precluded
  <2>2. MidCall(h)'
    BY <1>1, <1>2, <1>4, <2>1 DEF TypeOK, LockSharedPending, Matches, MidCall
  <2>3. QED
    BY <1>1, <1>4, <2>2, KnownStep DEF TypeOK, LockSharedPending, lockInfo
<1>5. CASE LockSharedRange(h)
  <2>1. mutex[p] = h
    BY <1>1, <1>5 DEF LockSharedRange, Control
  <2>2. MidCall(h)'
    BY <1>1, <1>5 DEF TypeOK, LockSharedRange, MidCall
  <2>3. QED
    BY <1>1, <1>5, <2>1, <2>2, KnownStep DEF TypeOK, LockSharedRange, lockInfo
<1>6. CASE LockSharedDropPending(h)
  <2>1. mutex[p] = h /\ procLock[p] = NO_LOCK
    BY <1>1, <1>6 DEF LockSharedDropPending, Control
  <2>2. Matches(p)' /\ MidCall(h)'
    BY <1>1, <1>6, <2>1 DEF TypeOK, LockSharedDropPending, Matches, MidCall
  <2>3. QED
    BY <1>1, <1>6, <2>1, <2>2, KnownStep DEF TypeOK, LockSharedDropPending, Incr
<1>7. CASE LockReserved(h)
  <2>1. procLock[p] = SHARED_LOCK
    BY <1>7 DEF LockReserved, Precluded
  <2>2. Matches(p)' /\ MidCall(h)'
    BY <1>1, <1>2, <1>7, <2>1 DEF TypeOK, LockReserved, Matches, MidCall
  <2>3. QED
    BY <1>1, <1>7, <2>2, KnownStep DEF TypeOK, LockReserved
<1>8. CASE LockExclusivePending(h)
  <2>1. procLock[p] = locktype[h] /\ locktype[h] \in {SHARED_LOCK, RESERVED_LOCK}
    BY <1>8 DEF LockExclusivePending, Precluded
  <2>2. MidCall(h)'
    BY <1>1, <1>2, <1>8, <2>1 DEF TypeOK, LockExclusivePending, Matches, MidCall
  <2>3. QED
    BY <1>1, <1>8, <2>2, KnownStep DEF TypeOK, LockExclusivePending, lockInfo
<1>9. CASE LockExclusiveRange(h)
  <2>1. mutex[p] \in {h, NoHandle} /\ (pc[h] # "exclRange" => procLock[p] = PENDING_LOCK)
    BY <1>1, <1>9 DEF LockExclusiveRange, Control, Precluded
  <2>2. sharedRange[p] = "read" /\ pendingByte[p] = "write"
    BY <1>1, <1>2, <1>9, <2>1 DEF LockExclusiveRange, Matches, MidCall
  <2>3. Matches(p)' /\ MidCall(h)'
    BY <1>1, <1>9, <2>2 DEF TypeOK, LockExclusiveRange, Matches, MidCall
  <2>4. QED
    BY <1>1, <1>9, <2>1, <2>3, KnownStep DEF TypeOK, LockExclusiveRange
<1>10. QED
  BY <1>3, <1>4, <1>5, <1>6, <1>7, <1>8, <1>9 DEF LockStep

\* A handle at EXCLUSIVE is the only one that is counted.
LEMMA ExclusiveIsOne ==
  ASSUME LInv, NEW h \in Handle, Eff(h) = EXCLUSIVE_LOCK
  PROVE  cnt[ProcOf[h]] = 1
<1>1. Counted(ProcOf[h]) = {h}
  BY DEF Counted, LInv, Levels, OneWriter
<1>2. Cardinality({h}) = 1
  BY FS_Singleton
<1>3. QED
  BY <1>1, <1>2 DEF LInv, Counts

LEMMA UnlockStepKnown ==
  ASSUME LInv, KernelKnown, NEW h \in Handle, UnlockStep(h) PROVE KernelKnown'
<1> DEFINE p == ProcOf[h]
<1>1. TypeOK /\ Control /\ p \in Proc /\ MidCall(h)
  BY DEF LInv, KernelKnown
<1>2. mutex[p] = NoHandle => Matches(p)
  BY DEF KernelKnown
<1> USE DEF FSetLk, EnterMutex, LeaveMutex, MutexFree, Idle, InsideMutex,
            TakingShared, SameFor
<1>3. ASSUME NEW d \in Goal, Unlock(h, d) PROVE KernelKnown'
  <2>1. locktype[h] > SHARED_LOCK => procLock[p] = locktype[h]
    BY <1>3 DEF LInv, Levels, TopIsKnown, Unlock, Eff
  <2>2. MidCall(h)'
    BY <1>1, <1>2, <1>3, <2>1
    DEF TypeOK, LockType, Unlock, Matches, MidCall, kernel, lockInfo, GoalLevel, Goal
  <2>3. QED
    BY <1>1, <1>3, <2>2, KnownStep DEF TypeOK, Unlock, kernel, lockInfo
<1>4. CASE UnlockDowngrade(h)
  <2>1. mutex[p] = h
    BY <1>1, <1>4 DEF UnlockDowngrade, Control
  <2>2. MidCall(h)'
    BY <1>1, <1>4 DEF TypeOK, UnlockDowngrade, MidCall
  <2>3. QED
    BY <1>1, <1>4, <2>1, <2>2, KnownStep DEF TypeOK, UnlockDowngrade, lockInfo
<1>5. CASE UnlockDropBytes(h)
  <2>1. mutex[p] = h
    BY <1>1, <1>5 DEF UnlockDropBytes, Control
  <2>2. locktype[h] = EXCLUSIVE_LOCK => cnt[p] = 1
    BY <1>5, ExclusiveIsOne DEF UnlockDropBytes, Eff
  <2>3. sharedRange[p] = "read" => Matches(p)'
    BY <1>1, <1>5 DEF TypeOK, UnlockDropBytes, Matches
  <2>4. mutex'[p] = NoHandle => Matches(p)'
    BY <1>1, <1>5, <2>1, <2>3 DEF TypeOK, UnlockDropBytes, MidCall
  <2>5. MidCall(h)'
    BY <1>1, <1>5, <2>2, <2>3 DEF TypeOK, UnlockDropBytes, MidCall
  <2>6. QED
    BY <1>1, <1>5, <2>1, <2>4, <2>5, KnownStep DEF TypeOK, UnlockDropBytes
<1>6. CASE UnlockCount(h)
  <2>1. mutex[p] = h
    BY <1>1, <1>6 DEF UnlockCount, Control
  <2>2. nLock[p] = cnt[p]
    BY CountMeans DEF LInv
  <2>3. CASE cnt[p] = 1
    <3>1. Matches(p)' /\ MidCall(h)'
      BY <1>1, <1>6, <2>3 DEF TypeOK, UnlockCount, DropAll, Matches, MidCall
    <3>2. QED
      BY <1>1, <1>6, <2>1, <2>3, <3>1, KnownStep DEF TypeOK, UnlockCount, DropAll, Decr
  <2>4. CASE cnt[p] # 1
    <3>1. UNCHANGED <<kernel, procLock>>
      BY <1>6, <2>2, <2>4 DEF UnlockCount
    <3>2. Matches(p)' /\ MidCall(h)'
      BY <1>1, <1>6, <2>4, <3>1 DEF TypeOK, UnlockCount, Matches, MidCall, kernel
    <3>3. QED
      BY <1>1, <1>6, <2>1, <3>1, <3>2, KnownStep DEF TypeOK, UnlockCount, Decr, kernel
  <2>5. QED
    BY <2>3, <2>4
<1>7. CASE UnlockSetLevel(h)
  <2>1. /\ UNCHANGED <<kernel, mutex, lockInfo>>
        /\ \A g \in Handle \ {h} : UNCHANGED <<pc[g], locktype[g], goal[g]>>
        /\ pc'[h] \in {"close", "idle"}
    BY <1>1, <1>7 DEF TypeOK, UnlockSetLevel
  <2>2. \A q \in Proc : Matches(q) => Matches(q)'
    BY <2>1 DEF Matches, kernel, lockInfo
  <2>3. QED
    BY <2>1, <2>2 DEF KernelKnown, MidCall, kernel, lockInfo
<1>8. QED
  BY <1>3, <1>4, <1>5, <1>6, <1>7 DEF UnlockStep

LEMMA OtherKnown ==
  ASSUME LInv, KernelKnown, NEW h \in Handle, Open(h) \/ Close(h) PROVE KernelKnown'
<1> DEFINE p == ProcOf[h]
<1>1. TypeOK /\ p \in Proc /\ MidCall(h) /\ mutex[p] = NoHandle /\ Matches(p)
  BY DEF LInv, KernelKnown, Open, Close, MutexFree
<1>2. CASE Open(h)
  <2>1. UNCHANGED <<kernel, mutex, cnt, procLock, locktype, pc, goal>>
    BY <1>1, <1>2, UnreferencedIsZero DEF Open, TypeOK
  <2>2. \A q \in Proc : Matches(q) => Matches(q)'
    BY <2>1 DEF Matches, kernel
  <2>3. QED
    BY <2>1, <2>2 DEF KernelKnown, MidCall, kernel
<1>3. CASE Close(h)
  <2>1. /\ UNCHANGED <<mutex, cnt, procLock, locktype, goal>>
        /\ pc' = [pc EXCEPT ![h] = "idle"]
    BY <1>3 DEF Close
  <2>2. CASE ~HoldsLocks(p)
    <3>1. procLock[p] = NO_LOCK
      BY <1>1, <2>2, CountMeans DEF LInv, Levels, ZeroMeansNone, HoldsLocks
    <3>2. DropAll(p)
      BY <1>3, <2>2 DEF Close
    <3>3. Matches(p)' /\ MidCall(h)'
      BY <1>1, <2>1, <3>1, <3>2
      DEF TypeOK, DropAll, FSetLk, Matches, MidCall, TakingShared
    <3>4. QED
      BY <1>1, <2>1, <3>2, <3>3, KnownStep DEF TypeOK, DropAll, FSetLk, SameFor
  <2>3. CASE HoldsLocks(p)
    <3>1. UNCHANGED kernel
      BY <1>3, <2>3 DEF Close
    <3>2. \A q \in Proc : Matches(q) => Matches(q)'
      BY <2>1, <3>1 DEF Matches, kernel
    <3>3. QED
      BY <1>1, <2>1, <3>1, <3>2 DEF TypeOK, KernelKnown, MidCall, kernel, TakingShared
  <2>4. QED
    BY <2>2, <2>3
<1>4. QED
  BY <1>2, <1>3

LEMMA CrashKnown ==
  ASSUME LInv, KernelKnown, NEW p \in Proc, Crash(p) PROVE KernelKnown'
<1>1. /\ \A q \in Proc \ {p} : SameFor(q) /\ cnt'[q] = cnt[q] /\ mutex'[q] = mutex[q]
      /\ \A g \in Handle : ProcOf[g] # p => UNCHANGED <<pc[g], locktype[g], goal[g]>>
      /\ \A g \in Handle : ProcOf[g] = p => pc'[g] = "idle"
      /\ Matches(p)'
  BY DEF LInv, TypeOK, Crash, DropAll, FSetLk, SameFor, Matches
<1>2. \A q \in Proc \ {p} : Matches(q) => Matches(q)'
  BY <1>1 DEF SameFor, Matches
<1>3. \A g \in Handle : MidCall(g)'
  BY <1>1, <1>2 DEF KernelKnown, MidCall, SameFor, TakingShared
<1>4. QED
  BY <1>1, <1>2, <1>3 DEF KernelKnown

\* Whenever no thread of a process is inside the mutex the kernel's locks are
\* those lockInfo stands for: no close() of another handle lost one, and none
\* is left behind to starve the other processes.
THEOREM UnixLockKernelMatches ==
  ASSUME OpenFails = {} PROVE Spec => []KernelMatches
<1>1. Init => KernelKnown
  BY DEF Init, KernelKnown, Matches, MidCall, TakingShared
<1>2. AInv /\ KernelKnown /\ [Next]_vars => KernelKnown'
  <2> SUFFICES ASSUME LInv, KernelKnown, [Next]_vars PROVE KernelKnown'
    BY DEF AInv
  <2>1. CASE UNCHANGED vars
    BY <2>1 DEF vars, kernel, lockInfo, KernelKnown, Matches, MidCall
  <2>2. CASE Next
    BY <2>2, LockStepKnown, UnlockStepKnown, OtherKnown, CrashKnown DEF Next, OpenNoMem
  <2>3. QED
    BY <2>1, <2>2
<1>3. KernelKnown => KernelMatches
  BY DEF KernelKnown, Matches, KernelMatches
<1>4. QED
  BY <1>1, <1>2, <1>3, AInvHolds, PTL DEF Spec
=============================================================================
