--------------------------- MODULE FileLockProofs ---------------------------
(***************************************************************************)
(* Machine-checked properties of the abstract file lock.  Exclusion is not *)
(* inductive: GetReserved() looks at the set of handles that went through  *)
(* RESERVED, so the invariant has to tie that set to the levels.           *)
(***************************************************************************)
EXTENDS FileLock, TLAPS

\* level and reserved always have values of their types.
THEOREM FileLockTypeOK == Spec => []TypeOK
<1>1. Init => TypeOK
  BY DEF Init, TypeOK, LockType, NO_LOCK, EXCLUSIVE_LOCK
<1>2. TypeOK /\ [Next]_vars => TypeOK'
  BY DEF TypeOK, Next, vars, Set, GetShared, GetReserved, GetPending,
         GetExclusive, Alone, Release, Die, LockType, NO_LOCK, SHARED_LOCK,
         RESERVED_LOCK, PENDING_LOCK, EXCLUSIVE_LOCK
<1>3. QED
  BY <1>1, <1>2, PTL DEF Spec

ReservedTracksLevels ==
    /\ \A h \in Handle : level[h] = RESERVED_LOCK => h \in reserved
    /\ \A h \in reserved : level[h] >= RESERVED_LOCK

IInv == TypeOK /\ Exclusion /\ ReservedTracksLevels

USE DEF NO_LOCK, SHARED_LOCK, RESERVED_LOCK, PENDING_LOCK, EXCLUSIVE_LOCK

\* The inductive invariant is preserved by every change of level.
LEMMA IInvStep == IInv /\ [Next]_vars => IInv'
<1> SUFFICES ASSUME IInv, [Next]_vars PROVE IInv'
  OBVIOUS
<1> USE DEF IInv, TypeOK, LockType, Exclusion, ReservedTracksLevels, Set
<1>1. ASSUME NEW h \in Handle, GetShared(h) PROVE IInv'
  BY <1>1 DEF GetShared
<1>2. ASSUME NEW h \in Handle, GetReserved(h) PROVE IInv'
  BY <1>2 DEF GetReserved
<1>3. ASSUME NEW h \in Handle, GetPending(h) PROVE IInv'
  BY <1>3 DEF GetPending
<1>4. ASSUME NEW h \in Handle, GetExclusive(h) PROVE IInv'
  BY <1>4 DEF GetExclusive, Alone
<1>5. ASSUME NEW h \in Handle, NEW t \in {NO_LOCK, SHARED_LOCK}, Release(h, t)
      PROVE IInv'
  BY <1>5 DEF Release
<1>6. ASSUME NEW p \in Proc, Die(p) PROVE IInv'
  BY <1>6 DEF Die
<1>7. CASE UNCHANGED vars
  BY <1>7 DEF vars
<1>8. QED
  BY <1>1, <1>2, <1>3, <1>4, <1>5, <1>6, <1>7 DEF Next

\* Two handles never both write, and none reads while another one writes.
THEOREM FileLockExclusion == Spec => []Exclusion
<1>1. Init => IInv
  BY DEF Init, IInv, TypeOK, LockType, Exclusion, ReservedTracksLevels
<1>2. IInv => Exclusion
  BY DEF IInv
<1>3. QED
  BY <1>1, <1>2, IInvStep, PTL DEF Spec
=============================================================================
