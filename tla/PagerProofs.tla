----------------------------- MODULE PagerProofs -----------------------------
(***************************************************************************)
(* Machine-checked properties of the Pager, for any processes and any      *)
(* sizes of file and cache.  In every situation of SetupAssumption the     *)
(* state is well formed.  If no Pager is used on after it lost its lock    *)
(* because its journal could not be created (StopWithoutJournal), the      *)
(* asserts of pager.c hold, and, unless the database was empty, a journal  *)
(* in use is that of one live transaction.                                 *)
(*                                                                         *)
(* The invariant says for each place of the code (pc) which call is being  *)
(* made, what lock it has and whether a journal is open; that Pager.state  *)
(* agrees with the lock; that one process at a time may own the journal;   *)
(* and that the flags of a page mean something only while it is cached     *)
(* and a journal is open.  A second part (Kept) says that a Pager without  *)
(* a lock has no journal and no use of its pages: it is inductive only     *)
(* under StopWithoutJournal.                                               *)
(***************************************************************************)
EXTENDS Pager, WellFoundedInduction, TLAPS

-----------------------------------------------------------------------------
(* The types, in parts.                                                    *)

FilesType ==
    /\ db \in [Page -> Content]
    /\ disk \in [Page -> SUBSET Content] /\ \A g \in Page : db[g] \in disk[g]
    /\ undone \subseteq Page
NamesType ==
    /\ linked \in Txn \cup {NoJournal}
    /\ linkedDisk \subseteq Txn \cup {NoJournal} /\ linked \in linkedDisk
JournalsType ==
    /\ jOrig \in [Txn -> [Page -> Content]] /\ jSize \in [Txn -> 0 .. NPage]
    /\ jRecs \in [Txn -> SUBSET Page] /\ jSynced \in [Txn -> SUBSET Page]
    /\ jCount \in [Txn -> SUBSET Page] /\ jCountDisk \in [Txn -> SUBSET Page]
    /\ jSegment \in [Txn -> SUBSET Page]
PagersType ==
    /\ st \in [Proc -> {"unlock", "shared", "reserved", "exclusive", "synced"}]
    /\ dbSize \in [Proc -> 0 .. NPage \cup {NoSize}]
PagesType ==
    /\ cache \in [Proc -> [Page -> Content \cup {NotCached}]]
    /\ ref \in [Proc -> SUBSET Page]
FlagsType ==
    /\ dirty \in [Proc -> SUBSET Page] /\ inJournal \in [Proc -> SUBSET Page]
    /\ needSync \in [Proc -> SUBSET Page]
    /\ dirtyCache \in [Proc -> BOOLEAN] /\ started \in [Proc -> BOOLEAN]
    /\ dirfd \in [Proc -> BOOLEAN]
    /\ jfd \in [Proc -> Txn \cup {NoJournal}]
ControlType ==
    /\ pc \in [Proc -> Label]
    /\ task \in [Proc -> {"none", "hot", "begin", "recycle", "commit", "rollback"}]
RestType ==
    /\ want \in [Proc -> Page] /\ todo \in [Proc -> SUBSET Page]
    /\ nextTxn \in Nat /\ before \in [Page -> Content]
Types ==
    /\ setup \in Setups /\ Lock!TypeOK
    /\ FilesType /\ NamesType /\ JournalsType /\ PagersType /\ PagesType
    /\ FlagsType /\ ControlType /\ RestType

\* Together they are the type invariant of Pager.
LEMMA TypesOK == TypeOK <=> Types
BY DEF TypeOK, Types, FilesType, NamesType, JournalsType, PagersType, PagesType, FlagsType,
       ControlType, RestType

\* What the assumptions say of the situation and the bounds.
LEMMA SetupType ==
  ASSUME Types
  PROVE  /\ setup.users \subseteq Proc /\ setup.size \in 0 .. NPage
         /\ setup.pages \in 1 .. NPage /\ setup.txns \in 1 .. MaxTxn
         /\ {1 .. setup.pages} \subseteq SUBSET Page
         /\ NPage \in Nat /\ MaxTxn \in Nat /\ NPage > 0 /\ MaxTxn > 0
         /\ 1 \in Page
BY SetupAssumption, SizeAssumption DEF Types, Page
-----------------------------------------------------------------------------
(* The invariant.                                                          *)

\* Pager.state against the lock.
Levels ==
    \A p \in Proc :
        /\ st[p] = "unlock" <=> level[p] = Lock!NO_LOCK
        /\ st[p] = "shared" => level[p] \in {Lock!SHARED_LOCK, Lock!PENDING_LOCK}
        /\ st[p] = "reserved" => p \in reserved
        /\ st[p] \in {"exclusive", "synced"} <=> level[p] = Lock!EXCLUSIVE_LOCK

\* What FileLock guarantees of the levels, with what it needs to be inductive.
Exclusive ==
    /\ \A p \in reserved : level[p] >= Lock!RESERVED_LOCK
    /\ \A p, q \in reserved : p = q
    /\ \A p, q \in Proc :
           p # q /\ level[p] = Lock!EXCLUSIVE_LOCK => level[q] = Lock!NO_LOCK

\* The process that may change the file, its journal and the journal's name.
Owns(p) == st[p] \in {"reserved", "exclusive", "synced"}
Open(p) == jfd[p] # NoJournal

\* The places in pager.c and the calls that lead there, also of a Pager that is
\* used on after it lost its lock.
Place(p) ==
    CASE pc[p] \in {"idle", "failed"} ->
            task[p] = "none" /\ st[p] # "synced" /\ (Open(p) => Owns(p) \/ st[p] = "unlock")
      [] pc[p] \in {"exists", "reserved?", "size", "first"} ->
            task[p] = "none" /\ st[p] = "shared" /\ ~Open(p)
      [] pc[p] = "lock" ->
            \/ task[p] = "hot" /\ st[p] = "shared" /\ ~Open(p)
            \/ task[p] = "begin" /\ st[p] = "reserved" /\ ~Open(p)
            \/ task[p] \in {"recycle", "commit"} /\ st[p] \in {"reserved", "unlock"} /\ Open(p)
      [] pc[p] = "openHot" -> task[p] = "hot" /\ st[p] = "exclusive" /\ ~Open(p)
      [] pc[p] = "openJournal" ->
            task[p] = "begin" /\ st[p] \in {"reserved", "exclusive", "unlock"} /\ ~Open(p)
      [] pc[p] \in {"syncData", "writeCount", "syncCount"} ->
            /\ task[p] \in {"recycle", "commit"}
            /\ st[p] \in {"reserved", "exclusive", "unlock"} /\ Open(p)
      [] pc[p] = "recycle" ->
            task[p] = "recycle" /\ st[p] # "synced" /\ (Open(p) => Owns(p) \/ st[p] = "unlock")
      [] pc[p] = "spill" -> task[p] = "recycle" /\ st[p] = "exclusive" /\ Open(p)
      [] pc[p] = "store" -> task[p] = "commit" /\ st[p] = "exclusive" /\ Open(p)
      [] pc[p] \in {"truncate", "playback"} ->
            task[p] \in {"hot", "rollback"} /\ st[p] = "exclusive" /\ Open(p)
      [] pc[p] = "delete" ->
            /\ task[p] \in {"hot", "commit", "rollback"} /\ Owns(p) /\ Open(p)
            /\ task[p] = "commit" /\ dirtyCache[p] => st[p] = "synced"
      [] pc[p] = "downgrade" -> task[p] \in {"hot", "commit", "rollback"} /\ Owns(p) /\ ~Open(p)

\* Flags and references: page 1 is held while any is, and some page during a
\* transaction; flags are of cached pages and of an open journal, a slot is
\* made free for a page that has none, and nothing waits for a sync when pages
\* are written to the file or when nothing was changed.
Flags(p) ==
    /\ ref[p] \subseteq Cached(p) /\ dirty[p] \subseteq Cached(p)
    /\ ref[p] # {} => 1 \in ref[p]
    /\ task[p] \in {"begin", "recycle"} \/ (Open(p) /\ task[p] # "hot") => ref[p] # {}
    /\ task[p] = "recycle" => want[p] \notin Cached(p)
    /\ ~Open(p) => ~dirtyCache[p] /\ inJournal[p] = {}
    /\ ~dirtyCache[p] => dirty[p] = {} /\ needSync[p] = {}
    /\ pc[p] = "store" \/ (pc[p] = "lock" /\ task[p] = "commit") => needSync[p] = {}

\* The transactions are numbered.
Numbered == nextTxn > Initial

IInv == Types /\ Levels /\ Exclusive /\ (\A p \in Proc : Place(p) /\ Flags(p)) /\ Numbered

\* A Pager that has lost its lock has no journal, and if pages are still in use
\* nothing is done with them but to release them; none is in use while a lock
\* is being taken for the first.
Kept(p) ==
    /\ st[p] = "unlock" => ~Open(p) /\ (ref[p] = {} \/ pc[p] = "failed")
    /\ task[p] = "hot" \/ pc[p] \in {"exists", "reserved?", "size", "first"} => ref[p] = {}

\* The invariant when no Pager is used on without a lock.
LInv == IInv /\ \A p \in Proc : Kept(p)

\* That nobody does so: the callers stop when the journal cannot be created.
StopWithoutJournal == \A s \in Setups : ~s.usedUnlocked

-----------------------------------------------------------------------------
(* A database that is not empty stays so.                                  *)

\* Page 1 has no zeros in it, wherever it may come from: the file, a journal
\* that was used, or a cache.
Used == Initial + 1 .. nextTxn - 1
FirstPages ==
    /\ 0 \notin disk[1]
    /\ \A t \in Txn : 1 \in jRecs[t] => jOrig[t][1] # 0
    /\ \A t \in Txn \cap Used : jSize[t] > 0
    /\ linkedDisk \subseteq {NoJournal} \cup Used
FirstPage(p) ==
    /\ cache[p][1] # 0 /\ dbSize[p] # 0
    /\ Open(p) => jfd[p] \in Used
    /\ pc[p] = "playback" /\ 1 \in todo[p] => jOrig[jfd[p]][1] # 0
\* The open journal is the one with the name.
Named(p) == Open(p) => linked = jfd[p]
NeverEmpty == FirstPages /\ \A p \in Proc : FirstPage(p) /\ Named(p)

-----------------------------------------------------------------------------
(* Sizes.  The greatest of finitely many numbers exists: the order of the   *)
(* natural numbers is well founded.                                         *)

\* Size() is defined for every file: there is a last page that is not empty.
LEMMA LastPage ==
  ASSUME NEW file
  PROVE  \E n \in 0 .. NPage : /\ n > 0 => file[n] # 0
                               /\ \A g \in Page : g > n => file[g] = 0
<1> DEFINE T == {k \in 0 .. NPage : k = NPage \/ file[NPage - k] # 0}
<1> DEFINE R == OpToRel(<, Nat)
<1>1. IsWellFoundedOn(R, Nat)
  BY NatLessThanWellFounded, Zenon
<1>2. T \subseteq Nat /\ T # {}
  BY SizeAssumption
<1> HIDE DEF R, T
<1>3. PICK x \in T : \A y \in T : ~ (<<y, x>> \in R)
  BY <1>1, <1>2, WFMin
<1>4. \A y \in T : ~(y < x)
  BY <1>3, <1>2 DEF R, OpToRel
<1>5. x \in 0 .. NPage /\ NPage - x \in 0 .. NPage
  BY SizeAssumption DEF T
<1>6. NPage - x > 0 => file[NPage - x] # 0
  BY <1>5, SizeAssumption DEF T
<1>7. ASSUME NEW g \in Page, g > NPage - x PROVE file[g] = 0
  <2>1. NPage - g \in 0 .. NPage /\ NPage - g < x /\ NPage - (NPage - g) = g
    BY <1>7, <1>5, SizeAssumption DEF Page
  <2>2. NPage - g \notin T
    BY <2>1, <1>4
  <2>3. QED
    BY <2>1, <2>2 DEF T
<1>8. QED
  BY <1>5, <1>6, <1>7

\* The size of a file and the remembered one are numbers of pages.
LEMMA SizeType == ASSUME NEW file PROVE Size(file) \in 0 .. NPage
BY LastPage DEF Size

LEMMA PageCountType == ASSUME Types, NEW p \in Proc PROVE PageCount(p) \in 0 .. NPage
BY SizeType DEF PageCount, Types, PagersType, NoSize

\* What is read from the file is a page content.
LEMMA FromFileType ==
  ASSUME Types, NEW p \in Proc, NEW g \in Page PROVE FromFile(p, g) \in Content
BY SizeAssumption DEF FromFile, Types, FilesType, Content

\* What is read into the cache, journaled and written is a page content.
LEMMA FetchedType ==
  ASSUME Types, NEW p \in Proc, NEW g \in Page,
         NEW c \in [Page -> Content \cup {NotCached}]
  PROVE  Fetched(p, g, c) \in [Page -> Content \cup {NotCached}]
BY FromFileType DEF Fetched

\* A cached page has a content.
LEMMA CachedType ==
  ASSUME Types, NEW p \in Proc, NEW g \in Cached(p)
  PROVE  g \in Page /\ cache[p][g] \in Content
BY DEF Types, PagesType, Cached

\* Writing a page of the file (sqlite3OsWrite()) keeps the types.
LEMMA WritePageType ==
  ASSUME Types, NEW g \in Page, NEW c \in Content, WritePage(g, c), undone' = undone
  PROVE  FilesType'
BY DEF Types, FilesType, WritePage

\* So does the reuse of a cache slot (pager_recycle()).
LEMMA ReplaceType ==
  ASSUME Types, NEW p \in Proc, NEW g \in Page, Replace(p, g)
  PROVE  PagesType'
<1>1. want[p] \in Page /\ cache[p] \in [Page -> Content \cup {NotCached}]
  BY DEF Types, RestType, PagesType
<1>2. [cache[p] EXCEPT ![g] = NotCached] \in [Page -> Content \cup {NotCached}]
  BY <1>1
<1>3. Fetched(p, want[p], [cache[p] EXCEPT ![g] = NotCached])
        \in [Page -> Content \cup {NotCached}]
  BY <1>1, <1>2, FetchedType
<1>4. QED
  BY <1>1, <1>3 DEF Replace, Types, PagesType

\* An open journal is that of a transaction.
LEMMA OpenType == ASSUME Types, NEW p \in Proc, Open(p) PROVE jfd[p] \in Txn
BY DEF Types, FlagsType, Open

\* sqlite3pager_write() of a cached page, with a journal open.
LEMMA ModifyType ==
  ASSUME Types, NEW p \in Proc, Open(p), NEW g \in Cached(p), Modify(p, g)
  PROVE  JournalsType' /\ PagersType' /\ PagesType' /\ FlagsType'
<1>1. jfd[p] \in Txn /\ jfd[p] \in Content
  BY OpenType, SetupType DEF Txn, Content, Initial
<1>2. g \in Page /\ cache[p][g] \in Content
  BY CachedType
<1>3. JournalsType'
  <2>1. CASE UNCHANGED <<jOrig, jRecs, jSegment>>
    BY <2>1 DEF Modify, Types, JournalsType
  <2>2. CASE /\ jOrig' = [jOrig EXCEPT ![jfd[p]][g] = cache[p][g]]
             /\ jRecs' = [jRecs EXCEPT ![jfd[p]] = @ \cup {g}]
             /\ jSegment' = [jSegment EXCEPT ![jfd[p]] = @ \cup {g}]
    <3>1. jOrig' \in [Txn -> [Page -> Content]]
      BY <1>1, <1>2, <2>2 DEF Types, JournalsType
    <3>2. jRecs' \in [Txn -> SUBSET Page] /\ jSegment' \in [Txn -> SUBSET Page]
      BY <1>1, <1>2, <2>2 DEF Types, JournalsType
    <3>3. QED
      BY <3>1, <3>2 DEF Modify, Types, JournalsType
  <2>3. QED
    BY <2>1, <2>2 DEF Modify
<1>4. PagersType'
  BY <1>2 DEF Modify, Types, PagersType, Page
<1>5. PagesType'
  BY <1>1, <1>2 DEF Modify, Types, PagesType
<1>6. FlagsType'
  BY <1>1, <1>2 DEF Modify, Types, FlagsType
<1>7. QED
  BY <1>3, <1>4, <1>5, <1>6

\* A database rolled back is a database.
LEMMA PlaybackType ==
  ASSUME Types, NEW t \in Txn \cup {NoJournal}
  PROVE  Playback(db, t) \in [Page -> Content]
BY DEF Types, FilesType, JournalsType, Playback, Restored

\* Parts of the state that a step leaves alone keep their types.
LEMMA Unmoved ==
  ASSUME Types
  PROVE  /\ UNCHANGED setup => (setup \in Setups)'
         /\ UNCHANGED locks => Lock!TypeOK'
         /\ UNCHANGED files => FilesType'
         /\ UNCHANGED names => NamesType'
         /\ UNCHANGED journals => JournalsType'
         /\ UNCHANGED pagers => PagersType'
         /\ UNCHANGED pages => PagesType'
         /\ UNCHANGED flags => FlagsType'
         /\ UNCHANGED <<pc, task>> => ControlType'
         /\ UNCHANGED rest => RestType'
BY DEF Types, Lock!TypeOK, FilesType, NamesType, JournalsType, PagersType, PagesType, FlagsType,
       ControlType, RestType, locks, files, names, journals, pagers, flags, pages, rest

USE DEF Lock!NO_LOCK, Lock!SHARED_LOCK, Lock!RESERVED_LOCK, Lock!PENDING_LOCK, Lock!EXCLUSIVE_LOCK

\* Every step keeps the types.
LEMMA TypeStep == ASSUME IInv, [Next]_<<setup, vars>> PROVE Types'
<1> USE SetupType, Unmoved, PageCountType, FromFileType DEF IInv, Types, Goto, Doing
<1>1. ASSUME NEW p \in Proc, LockShared(p), UNCHANGED setup
      PROVE  Types'
  <2>1. Lock!TypeOK'
        BY <1>1 DEF LockShared, Lock!TypeOK, Lock!LockType, Lock!Set, Lock!GetShared
  <2>2. PagersType'
        BY <1>1 DEF LockShared, PagersType
  <2>3. ControlType'
        BY <1>1 DEF LockShared, ControlType, Label
  <2>4. QED
        BY <1>1, <2>1, <2>2, <2>3 DEF LockShared
<1>2. ASSUME NEW p \in Proc, JournalExists(p), UNCHANGED setup
      PROVE  Types'
    BY <1>2 DEF JournalExists, ControlType, Label
<1>3. ASSUME NEW p \in Proc, CheckReserved(p), UNCHANGED setup
      PROVE  Types'
    BY <1>3 DEF CheckReserved, ControlType, Label
<1>4. ASSUME NEW p \in Proc, JournalIsHot(p), UNCHANGED setup
      PROVE  Types'
  <2>1. PagersType'
        BY <1>4 DEF JournalIsHot, Counted, PagersType
  <2>2. ControlType'
        BY <1>4 DEF JournalIsHot, Counted, ControlType, Label
  <2>3. QED
        BY <1>4, <2>1, <2>2 DEF JournalIsHot
<1>5. ASSUME NEW p \in Proc, DeleteOldJournal(p), UNCHANGED setup
      PROVE  Types'
  <2>1. FilesType'
        BY <1>5 DEF DeleteOldJournal, Counted, Unlink, FilesType
  <2>2. NamesType'
        BY <1>5 DEF DeleteOldJournal, Counted, Unlink, NamesType, Txn, NoJournal
  <2>3. PagersType'
        BY <1>5 DEF DeleteOldJournal, Counted, Unlink, PagersType
  <2>4. ControlType'
        BY <1>5 DEF DeleteOldJournal, Counted, Unlink, ControlType, Label
  <2>5. QED
        BY <1>5, <2>1, <2>2, <2>3, <2>4 DEF DeleteOldJournal, Counted, Unlink
<1>6. ASSUME NEW p \in Proc, OpenHotJournal(p), UNCHANGED setup
      PROVE  Types'
  <2>1. FlagsType'
        BY <1>6 DEF OpenHotJournal, FlagsType, NamesType, NoJournal
  <2>2. ControlType'
        BY <1>6 DEF OpenHotJournal, ControlType, Label
  <2>3. QED
        BY <1>6, <2>1, <2>2 DEF OpenHotJournal
<1>7. ASSUME NEW p \in Proc, NoHotJournal(p), UNCHANGED setup
      PROVE  Types'
  <2>1. Lock!TypeOK'
        BY <1>7 DEF NoHotJournal, BusyForHot, GiveUp, ForgetSize, Lock!TypeOK,
       Lock!LockType, Lock!Set, Lock!Release
  <2>2. PagersType'
        BY <1>7 DEF NoHotJournal, BusyForHot, GiveUp, ForgetSize, PagersType, NoSize
  <2>3. ControlType'
        BY <1>7 DEF NoHotJournal, BusyForHot, GiveUp, ForgetSize, ControlType, Label
  <2>4. QED
        BY <1>7, <2>1, <2>2, <2>3 DEF NoHotJournal, BusyForHot, GiveUp, ForgetSize
<1>8. ASSUME NEW p \in Proc, GetFirst(p), UNCHANGED setup
      PROVE  Types'
  <2>1. PagesType'
        BY <1>8 DEF GetFirst, Fetched, Counted, PagesType, NotCached
  <2>2. PagersType'
        BY <1>8 DEF GetFirst, Fetched, Counted, PagersType
  <2>3. ControlType'
        BY <1>8 DEF GetFirst, Fetched, Counted, ControlType, Label
  <2>4. QED
        BY <1>8, <2>1, <2>2, <2>3 DEF GetFirst, Fetched, Counted
<1>9. ASSUME NEW p \in Proc, RecycleClean(p), UNCHANGED setup
      PROVE  Types'
  <2>1. PagesType'
    BY <1>9, ReplaceType DEF RecycleClean, Recyclable, Free, Cached
  <2>2. FlagsType'
        BY <1>9 DEF RecycleClean, Replace, Fetched, Counted, FlagsType
  <2>3. PagersType'
        BY <1>9 DEF RecycleClean, Replace, Fetched, Counted, PagersType
  <2>4. ControlType'
        BY <1>9 DEF RecycleClean, Replace, Fetched, Counted, ControlType, Label
  <2>5. RestType'
        BY <1>9 DEF RecycleClean, Replace, Fetched, Counted, RestType
  <2>6. QED
        BY <1>9, <2>1, <2>2, <2>3, <2>4, <2>5 DEF RecycleClean, Replace, Fetched,
       Counted
<1>10. ASSUME NEW p \in Proc, RecycleDirty(p), UNCHANGED setup
      PROVE  Types'
    BY <1>10 DEF RecycleDirty, Locked, ControlType, Label
<1>11. ASSUME NEW p \in Proc, Spill(p), UNCHANGED setup
      PROVE  Types'
  <2>1. FilesType'
    BY <1>11, CachedType, WritePageType DEF Spill, Recyclable, Free, files
  <2>2. PagesType'
    BY <1>11, ReplaceType DEF Spill, Recyclable, Free, Cached
  <2>3. FlagsType'
        BY <1>11 DEF Spill, Replace, Fetched, Counted, WritePage, Recyclable, Free,
       Cached, FlagsType
  <2>4. PagersType'
        BY <1>11 DEF Spill, Replace, Fetched, Counted, WritePage, Recyclable, Free,
       Cached, PagersType
  <2>5. ControlType'
        BY <1>11 DEF Spill, Replace, Fetched, Counted, WritePage, Recyclable, Free,
       Cached, ControlType, Label
  <2>6. RestType'
        BY <1>11 DEF Spill, Replace, Fetched, Counted, WritePage, Recyclable, Free,
       Cached, RestType
  <2>7. QED
        BY <1>11, <2>1, <2>2, <2>3, <2>4, <2>5, <2>6 DEF Spill, Replace, Fetched,
       Counted, WritePage, Recyclable, Free, Cached
<1>12. ASSUME NEW p \in Proc, SyncRecords(p), UNCHANGED setup
      PROVE  Types'
  <2>1. NamesType'
        BY <1>12 DEF SyncRecords, SyncJournalFile, NamesType
  <2>2. JournalsType'
    BY <1>12, OpenType DEF SyncRecords, SyncJournalFile, Place, JournalsType
  <2>3. FlagsType'
        BY <1>12 DEF SyncRecords, SyncJournalFile, FlagsType
  <2>4. ControlType'
        BY <1>12 DEF SyncRecords, SyncJournalFile, ControlType, Label
  <2>5. QED
        BY <1>12, <2>1, <2>2, <2>3, <2>4 DEF SyncRecords, SyncJournalFile
<1>13. ASSUME NEW p \in Proc, WriteCount(p), UNCHANGED setup
      PROVE  Types'
  <2>1. JournalsType'
    BY <1>13, OpenType DEF WriteCount, Place, JournalsType
  <2>2. ControlType'
        BY <1>13 DEF WriteCount, ControlType, Label
  <2>3. QED
        BY <1>13, <2>1, <2>2 DEF WriteCount
<1>14. ASSUME NEW p \in Proc, SyncCount(p), UNCHANGED setup
      PROVE  Types'
  <2>1. NamesType'
        BY <1>14 DEF SyncCount, SyncJournalFile, NewSegment, Locked, NamesType,
       NoJournal
  <2>2. JournalsType'
    BY <1>14, OpenType DEF SyncCount, SyncJournalFile, NewSegment, Place, JournalsType
  <2>3. FlagsType'
        BY <1>14 DEF SyncCount, SyncJournalFile, NewSegment, Locked, FlagsType
  <2>4. ControlType'
        BY <1>14 DEF SyncCount, SyncJournalFile, NewSegment, Locked, ControlType, Label
  <2>5. QED
        BY <1>14, <2>1, <2>2, <2>3, <2>4 DEF SyncCount, SyncJournalFile, NewSegment,
       Locked
<1>15. ASSUME NEW p \in Proc, LockPending(p), UNCHANGED setup
      PROVE  Types'
    BY <1>15 DEF LockPending, Lock!TypeOK, Lock!LockType, Lock!Set, Lock!GetPending
<1>16. ASSUME NEW p \in Proc, LockExclusive(p), UNCHANGED setup
      PROVE  Types'
  <2>1. Lock!TypeOK'
        BY <1>16 DEF LockExclusive, Lock!TypeOK, Lock!LockType, Lock!Set,
       Lock!GetExclusive
  <2>2. PagersType'
        BY <1>16 DEF LockExclusive, PagersType
  <2>3. ControlType'
        BY <1>16 DEF LockExclusive, Place, ControlType, Label
  <2>4. QED
        BY <1>16, <2>1, <2>2, <2>3 DEF LockExclusive
<1>17. ASSUME NEW p \in Proc, LockBusy(p), UNCHANGED setup
      PROVE  Types'
  <2>1. Lock!TypeOK'
        BY <1>17 DEF LockBusy, BusyForHot, GiveUp, ForgetSize, AfterError, Lock!TypeOK,
       Lock!LockType, Lock!Set, Lock!Release
  <2>2. PagersType'
        BY <1>17 DEF LockBusy, BusyForHot, GiveUp, ForgetSize, AfterError, PagersType,
       NoSize
  <2>3. ControlType'
        BY <1>17 DEF LockBusy, BusyForHot, GiveUp, ForgetSize, AfterError, ControlType,
       Label
  <2>4. QED
        BY <1>17, <2>1, <2>2, <2>3 DEF LockBusy, BusyForHot, GiveUp, ForgetSize,
       AfterError
<1>18. ASSUME NEW p \in Proc, BeginAgain(p), UNCHANGED setup
      PROVE  Types'
    BY <1>18 DEF BeginAgain, ControlType, Label
<1>19. ASSUME NEW p \in Proc, OpenJournal(p), UNCHANGED setup
      PROVE  Types'
  <2>1. NamesType'
    <3>1. nextTxn \in Txn
      BY <1>19, SetupType DEF OpenJournal, Numbered, RestType, Txn, Initial
    <3>2. QED
      BY <1>19, <3>1 DEF OpenJournal, NamesType
  <2>2. JournalsType'
    <3>1. nextTxn \in Txn
      BY <1>19, SetupType DEF OpenJournal, Numbered, RestType, Txn, Initial
    <3>2. QED
      BY <1>19, <3>1 DEF OpenJournal, JournalsType, Page
  <2>3. PagersType'
        BY <1>19 DEF OpenJournal, Counted, PagersType
  <2>4. FlagsType'
    <3>1. nextTxn \in Txn
      BY <1>19, SetupType DEF OpenJournal, Numbered, RestType, Txn, Initial
    <3>2. QED
      BY <1>19, <3>1 DEF OpenJournal, FlagsType
  <2>5. ControlType'
        BY <1>19 DEF OpenJournal, Counted, ControlType, Label
  <2>6. RestType'
        BY <1>19 DEF OpenJournal, Counted, RestType
  <2>7. QED
        BY <1>19, <2>1, <2>2, <2>3, <2>4, <2>5, <2>6 DEF OpenJournal
<1>20. ASSUME NEW p \in Proc, CannotOpenJournal(p), UNCHANGED setup
      PROVE  Types'
  <2>1. Lock!TypeOK'
        BY <1>20 DEF CannotOpenJournal, GiveUp, LetGo, Counted, Lock!TypeOK,
       Lock!LockType, Lock!Set, Lock!Release
  <2>2. PagersType'
        BY <1>20 DEF CannotOpenJournal, GiveUp, LetGo, Counted, PagersType
  <2>3. ControlType'
        BY <1>20 DEF CannotOpenJournal, GiveUp, LetGo, Counted, ControlType, Label
  <2>4. QED
        BY <1>20, <2>1, <2>2, <2>3 DEF CannotOpenJournal, GiveUp, LetGo, Counted
<1>21. ASSUME NEW p \in Proc, CommitNothing(p), UNCHANGED setup
      PROVE  Types'
    BY <1>21 DEF CommitNothing, ControlType, Label
<1>22. ASSUME NEW p \in Proc, Commit(p), UNCHANGED setup
      PROVE  Types'
  <2>1. Open(p) /\ 1 \in Cached(p)
    BY <1>22 DEF Commit, Writing, Calls, Flags, Open
  <2>2. JournalsType' /\ PagersType' /\ PagesType' /\ FlagsType'
    BY <1>22, <2>1, ModifyType DEF Commit
  <2>3. ControlType'
    BY <1>22 DEF Commit, Syncing, Locked, ControlType, Label
  <2>4. Lock!TypeOK' /\ FilesType' /\ NamesType' /\ RestType'
    BY <1>22 DEF Commit, Modify
  <2>5. QED
    BY <1>22, <2>2, <2>3, <2>4
<1>23. ASSUME NEW p \in Proc, SyncDatabase(p), UNCHANGED setup
      PROVE  Types'
  <2>1. FilesType'
        BY <1>23 DEF SyncDatabase, FilesType
  <2>2. PagersType'
        BY <1>23 DEF SyncDatabase, PagersType
  <2>3. ControlType'
        BY <1>23 DEF SyncDatabase, ControlType, Label
  <2>4. QED
        BY <1>23, <2>1, <2>2, <2>3 DEF SyncDatabase
<1>24. ASSUME NEW p \in Proc, DeleteJournal(p), UNCHANGED setup
      PROVE  Types'
  <2>1. FilesType'
        BY <1>24 DEF DeleteJournal, Unlink, Store, Playback, Restored, FilesType
  <2>2. NamesType'
        BY <1>24 DEF DeleteJournal, Unlink, Store, Playback, Restored, NamesType, Txn,
       NoJournal
  <2>3. FlagsType'
        BY <1>24 DEF DeleteJournal, Unlink, Store, Playback, Restored, FlagsType,
       NoJournal
  <2>4. ControlType'
        BY <1>24 DEF DeleteJournal, Unlink, Store, Playback, Restored, ControlType,
       Label
  <2>5. RestType'
    <3>1. Store \in [Page -> Content]
      BY PlaybackType DEF NamesType, Store
    <3>2. QED
      BY <1>24, <3>1 DEF DeleteJournal, RestType
  <2>6. QED
        BY <1>24, <2>1, <2>2, <2>3, <2>4, <2>5 DEF DeleteJournal, Unlink, Store,
       Playback, Restored
<1>25. ASSUME NEW p \in Proc, Downgrade(p), UNCHANGED setup
      PROVE  Types'
  <2>1. Lock!TypeOK'
        BY <1>25 DEF Downgrade, ForgetSize, AfterError, Lock!TypeOK, Lock!LockType,
       Lock!Set, Lock!Release
  <2>2. PagersType'
        BY <1>25 DEF Downgrade, ForgetSize, AfterError, PagersType, NoSize
  <2>3. ControlType'
        BY <1>25 DEF Downgrade, ForgetSize, AfterError, Place, ControlType, Label
  <2>4. QED
        BY <1>25, <2>1, <2>2, <2>3 DEF Downgrade
<1>26. ASSUME NEW p \in Proc, RollbackCache(p), UNCHANGED setup
      PROVE  Types'
  <2>1. PagesType'
    <3>1. [g \in Page |-> IF ~dirtyCache[p] \/ g \notin dirty[p] THEN cache[p][g]
             ELSE IF g <= jSize[jfd[p]] THEN db[g] ELSE 0] \in [Page -> Content \cup {NotCached}]
      BY DEF PagesType, FilesType, Content
    <3>2. QED
      BY <1>26, <3>1 DEF RollbackCache, PagesType
  <2>2. ControlType'
        BY <1>26 DEF RollbackCache, Writing, Calls, ControlType, Label
  <2>3. QED
        BY <1>26, <2>1, <2>2 DEF RollbackCache
<1>27. ASSUME NEW p \in Proc, RollbackFile(p), UNCHANGED setup
      PROVE  Types'
    BY <1>27 DEF RollbackFile, ControlType, Label
<1>28. ASSUME NEW p \in Proc, Truncate(p), UNCHANGED setup
      PROVE  Types'
  <2>1. FilesType'
    BY <1>28 DEF Truncate, FilesType, Content
  <2>2. PagersType'
    <3>1. jfd[p] \in Txn
      BY <1>28, OpenType DEF Truncate, Place
    <3>2. QED
      BY <1>28, <3>1 DEF Truncate, PagersType, JournalsType
  <2>3. ControlType'
        BY <1>28 DEF Truncate, Restored, Past, ControlType, Label
  <2>4. RestType'
    <3>1. jfd[p] \in Txn
      BY <1>28, OpenType DEF Truncate, Place
    <3>2. Restored(jfd[p]) \subseteq Page
      BY <3>1 DEF Restored, JournalsType
    <3>3. QED
      BY <1>28, <3>2 DEF Truncate, RestType
  <2>5. QED
        BY <1>28, <2>1, <2>2, <2>3, <2>4 DEF Truncate
<1>29. ASSUME NEW p \in Proc, Crash(p), UNCHANGED setup
      PROVE  Types'
  <2>1. Lock!TypeOK'
        BY <1>29 DEF Crash, Forget, NoPages, Lock!TypeOK, Lock!LockType, Lock!Set,
       Lock!Die
  <2>2. PagersType'
        BY <1>29 DEF Crash, Forget, NoPages, PagersType, NoSize
  <2>3. PagesType'
        BY <1>29 DEF Crash, Forget, NoPages, PagesType, NotCached
  <2>4. FlagsType'
        BY <1>29 DEF Crash, Forget, NoPages, FlagsType, NoJournal
  <2>5. ControlType'
        BY <1>29 DEF Crash, Forget, NoPages, ControlType, Label
  <2>6. RestType'
        BY <1>29 DEF Crash, Forget, NoPages, RestType
  <2>7. QED
        BY <1>29, <2>1, <2>2, <2>3, <2>4, <2>5, <2>6 DEF Crash, Forget, NoPages
<1>30. ASSUME NEW p \in Proc, NEW exFlag \in BOOLEAN, Begin(p, exFlag), UNCHANGED setup
      PROVE  Types'
  <2>1. Lock!TypeOK'
        BY <1>30 DEF Begin, Calls, Lock!TypeOK, Lock!LockType, Lock!Set,
       Lock!GetReserved
  <2>2. PagersType'
        BY <1>30 DEF Begin, Calls, PagersType
  <2>3. ControlType'
        BY <1>30 DEF Begin, Calls, ControlType, Label
  <2>4. QED
        BY <1>30, <2>1, <2>2, <2>3 DEF Begin
<1>31. ASSUME NEW p \in Proc, NEW call \in {"commit", "rollback"}, EndNoJournal(p, call), UNCHANGED setup
      PROVE  Types'
    BY <1>31 DEF EndNoJournal, ControlType, Label
<1>32. ASSUME NEW p \in Proc, NEW g \in Page, Get(p, g), UNCHANGED setup
      PROVE  Types'
  <2>1. PagesType'
    <3>1. CASE UNCHANGED cache
      BY <1>32, <3>1 DEF Get, PagesType
    <3>2. CASE cache' = [cache EXCEPT ![p] = Fetched(p, g, @)]
      <4>1. cache[p] \in [Page -> Content \cup {NotCached}]
        BY DEF PagesType
      <4>2. Fetched(p, g, cache[p]) \in [Page -> Content \cup {NotCached}]
        BY <4>1, FetchedType
      <4>3. QED
        BY <1>32, <3>2, <4>2 DEF Get, PagesType
    <3>3. QED
      BY <1>32, <3>1, <3>2 DEF Get
  <2>2. PagersType'
        BY <1>32 DEF Get, Calls, Fetched, Counted, Cached, PagersType
  <2>3. QED
        BY <1>32, <2>1, <2>2 DEF Get
<1>33. ASSUME NEW p \in Proc, NEW g \in Page, GetFull(p, g), UNCHANGED setup
      PROVE  Types'
  <2>1. ControlType'
        BY <1>33 DEF GetFull, Syncing, ControlType, Label
  <2>2. RestType'
        BY <1>33 DEF GetFull, Syncing, RestType
  <2>3. QED
        BY <1>33, <2>1, <2>2 DEF GetFull
<1>34. ASSUME NEW p \in Proc, NEW g \in Page, Unref(p, g), UNCHANGED setup
      PROVE  Types'
  <2>1. Lock!TypeOK'
        BY <1>34 DEF Unref, EmptyCache, NoPages, ForgetSize, GiveUp, LetGo, Lock!TypeOK,
       Lock!LockType, Lock!Set, Lock!Release
  <2>2. PagersType'
        BY <1>34 DEF Unref, EmptyCache, NoPages, ForgetSize, GiveUp, LetGo, PagersType, NoSize
  <2>3. PagesType'
    BY <1>34 DEF Unref, EmptyCache, NoPages, PagesType
  <2>4. ControlType'
        BY <1>34 DEF Unref, EmptyCache, NoPages, ForgetSize, GiveUp, LetGo, ControlType, Label
  <2>5. QED
        BY <1>34, <2>1, <2>2, <2>3, <2>4 DEF Unref, EmptyCache, NoPages, ForgetSize,
       GiveUp
<1>35. ASSUME NEW p \in Proc, NEW g \in Page, Write(p, g), UNCHANGED setup
      PROVE  Types'
  <2>1. Open(p) /\ g \in Cached(p)
    BY <1>35 DEF Write, Writing, Calls, Flags, Open
  <2>2. JournalsType' /\ PagersType' /\ PagesType' /\ FlagsType'
    BY <1>35, <2>1, ModifyType DEF Write
  <2>3. ControlType'
    BY <1>35 DEF Write, Syncing, Locked, ControlType, Label
  <2>4. Lock!TypeOK' /\ FilesType' /\ NamesType' /\ RestType'
    BY <1>35 DEF Write, Modify
  <2>5. QED
    BY <1>35, <2>2, <2>3, <2>4
<1>36. ASSUME NEW p \in Proc, NEW g \in Page, StorePage(p, g), UNCHANGED setup
      PROVE  Types'
  <2>1. FilesType'
    <3>1. g \in Cached(p)
      BY <1>36 DEF StorePage, Flags
    <3>2. QED
      BY <1>36, <3>1, CachedType, WritePageType DEF StorePage, files
  <2>2. FlagsType'
        BY <1>36 DEF StorePage, WritePage, FlagsType
  <2>3. QED
        BY <1>36, <2>1, <2>2 DEF StorePage, WritePage
<1>37. ASSUME NEW p \in Proc, NEW g \in Page, PlaybackPage(p, g), UNCHANGED setup
      PROVE  Types'
  <2>1. FilesType'
    <3>1. jfd[p] \in Txn
      BY <1>37, OpenType DEF PlaybackPage, Place
    <3>2. jOrig[jfd[p]][g] \in Content
      BY <3>1 DEF JournalsType
    <3>3. CASE g \in needSync[p]
      BY <1>37, <3>3 DEF PlaybackPage, FilesType
    <3>4. CASE g \notin needSync[p]
      BY <1>37, <3>2, <3>4, WritePageType DEF PlaybackPage
    <3>5. QED
      BY <3>3, <3>4
  <2>2. PagesType'
    <3>1. jfd[p] \in Txn
      BY <1>37, OpenType DEF PlaybackPage, Place
    <3>2. jOrig[jfd[p]][g] \in Content
      BY <3>1 DEF JournalsType
    <3>3. QED
      BY <1>37, <3>2 DEF PlaybackPage, PagesType
  <2>3. FlagsType'
    BY <1>37 DEF PlaybackPage, FlagsType
  <2>4. ControlType'
        BY <1>37 DEF PlaybackPage, WritePage, ControlType, Label
  <2>5. RestType'
        BY <1>37 DEF PlaybackPage, WritePage, RestType
  <2>6. QED
        BY <1>37, <2>1, <2>2, <2>3, <2>4, <2>5 DEF PlaybackPage, WritePage
<1>38. ASSUME PowerFailure, UNCHANGED setup PROVE Types'
  <2> USE <1>38 DEF PowerFailure
  <2>1. FilesType'
    <3>1. db' \in [Page -> Content]
      BY DEF FilesType
    <3>2. QED
      BY <3>1 DEF FilesType
  <2>2. NamesType'
    BY DEF NamesType
  <2>3. JournalsType'
    <3>1. PICK t \in linkedDisk :
             IF t = NoJournal THEN UNCHANGED <<jRecs, jSynced, jCount, jCountDisk>>
             ELSE \E lost \in SUBSET (jRecs[t] \ jSynced[t]),
                     count \in {jCount[t], jCountDisk[t]} \cup
                           IF ~setup.tornSectors \/ jCount[t] = jCountDisk[t] THEN {}
                           ELSE {jCountDisk[t] \ jSegment[t]} :
                       /\ jRecs' = [jRecs EXCEPT ![t] = @ \ lost]
                       /\ jSynced' = [jSynced EXCEPT ![t] = jRecs'[t]]
                       /\ jCount' = [jCount EXCEPT ![t] = count]
                       /\ jCountDisk' = [jCountDisk EXCEPT ![t] = count]
      OBVIOUS
    <3>2. CASE t = NoJournal
      BY <3>1, <3>2 DEF JournalsType
    <3>3. CASE t # NoJournal
      <4>1. t \in Txn
        BY <3>3 DEF NamesType
      <4>2. PICK lost \in SUBSET (jRecs[t] \ jSynced[t]),
                 count \in {jCount[t], jCountDisk[t]} \cup
                       IF ~setup.tornSectors \/ jCount[t] = jCountDisk[t] THEN {}
                       ELSE {jCountDisk[t] \ jSegment[t]} :
                   /\ jRecs' = [jRecs EXCEPT ![t] = @ \ lost]
                   /\ jSynced' = [jSynced EXCEPT ![t] = jRecs'[t]]
                   /\ jCount' = [jCount EXCEPT ![t] = count]
                   /\ jCountDisk' = [jCountDisk EXCEPT ![t] = count]
        BY <3>1, <3>3
      <4>3. count \subseteq Page
        BY <4>1 DEF JournalsType
      <4>4. jRecs' \in [Txn -> SUBSET Page]
        BY <4>1, <4>2 DEF JournalsType
      <4>5. QED
        BY <4>1, <4>2, <4>3, <4>4 DEF JournalsType
    <3>4. QED
      BY <3>2, <3>3
  <2>4. Lock!TypeOK' /\ PagersType' /\ PagesType' /\ FlagsType' /\ ControlType'
    BY DEF Forget, NoPages, Lock!TypeOK, Lock!LockType, PagersType, PagesType, FlagsType, ControlType,
           Label, NoSize, NotCached, NoJournal
  <2>5. Store' \in [Page -> Content]
    BY <2>1, <2>2, <2>3 DEF Store, Playback, FilesType, NamesType, JournalsType, Restored
  <2>6. RestType'
    BY <2>5 DEF Forget, RestType
  <2>7. QED
    BY <2>1, <2>2, <2>3, <2>4, <2>6
<1>39. CASE UNCHANGED <<setup, vars>>
  BY <1>39 DEF vars
<1>40. ASSUME NEW p \in Proc, RollbackUnlocked(p), UNCHANGED setup
       PROVE  Types'
  <2>1. PagesType'
    <3>1. ASSUME NEW g \in Page, dirtyCache[p] PROVE jOrig[jfd[p]][g] \in Content
      BY <3>1, OpenType DEF Flags, JournalsType
    <3>2. QED
      BY <1>40, <3>1 DEF RollbackUnlocked, PagesType
  <2>2. PagersType'
    BY <1>40 DEF RollbackUnlocked, ForgetSize, PagersType, NoSize
  <2>3. QED
    BY <1>40, <2>1, <2>2 DEF RollbackUnlocked
<1>41. QED
    BY <1>1, <1>2, <1>3, <1>4, <1>5, <1>6, <1>7, <1>8, <1>9, <1>10, <1>11, <1>12, <1>13,
     <1>14, <1>15, <1>16, <1>17, <1>18, <1>19, <1>20, <1>21, <1>22, <1>23, <1>24, <1>25,
     <1>26, <1>27, <1>28, <1>29, <1>30, <1>31, <1>32, <1>33, <1>34, <1>35, <1>36, <1>37,
     <1>38, <1>39, <1>40 DEF Next, HotJournal, Recycle, SyncJournal, LockStep, Transaction,
     PageStep

-----------------------------------------------------------------------------
(* The invariant is inductive.                                             *)

\* What the invariant says of a process, and what it says it about.
Mine(p) == <<pc[p], task[p], st[p], jfd[p], dirty[p], inJournal[p], needSync[p], dirtyCache[p],
             ref[p], cache[p], want[p]>>

\* What a step of p has to show: it leaves the other processes as they were.
StepKeeps(p) ==
    /\ \A q \in Proc \ {p} : Mine(q)' = Mine(q)
    /\ Place(p)' /\ Flags(p)' /\ Levels' /\ Exclusive' /\ Numbered'

-----------------------------------------------------------------------------
(* Facts about the helpers of the pager.                                   *)

\* RESERVED and what follows it in Pager.state are of one process at a time.
LEMMA OneOwner ==
  ASSUME IInv, NEW p \in Proc, NEW q \in Proc, Owns(p), Owns(q)
  PROVE  p = q
<1>1. CASE st[p] = "reserved" /\ st[q] = "reserved"
  BY <1>1 DEF IInv, Levels, Exclusive
<1>2. CASE st[p] \in {"exclusive", "synced"}
  BY <1>2 DEF IInv, Levels, Exclusive, Owns
<1>3. CASE st[q] \in {"exclusive", "synced"}
  BY <1>3 DEF IInv, Levels, Exclusive, Owns
<1>4. QED
  BY <1>1, <1>2, <1>3 DEF Owns

\* A journal is open only in a process that owns it.
LEMMA OpenOwns == ASSUME LInv, NEW p \in Proc, Open(p) PROVE Owns(p)
BY DEF LInv, Kept, IInv, Types, ControlType, Label, Place, Owns

\* Reading a page into the cache adds it to the cached pages.
LEMMA FetchedCached ==
  ASSUME Types, NEW p \in Proc, NEW g \in Page,
         NEW c \in [Page -> Content \cup {NotCached}], NEW h \in Page
  PROVE  Fetched(p, g, c)[h] # NotCached <=> h = g \/ c[h] # NotCached
<1>1. FromFile(p, g) # NotCached
  BY FromFileType, SetupType DEF Content, NotCached
<1>2. QED
  BY <1>1 DEF Fetched

\* sqlite3pager_write() marks a cached page; which pages are cached does not change.
LEMMA ModifyFlags ==
  ASSUME IInv, NEW p \in Proc, Open(p), ref[p] # {}, NEW g \in Cached(p), Modify(p, g),
         pc'[p] = "store" \/ (pc'[p] = "lock" /\ task'[p] = "commit") => needSync'[p] = {},
         task'[p] # "recycle"
  PROVE  Flags(p)'
<1> USE DEF IInv, Types
<1>1. jfd[p] # NotCached /\ jfd' = jfd /\ ref' = ref
  BY OpenType, SetupType DEF Modify, Txn, Initial, NotCached
<1>2. g \in Page
  BY DEF Cached
<1>3. Cached(p)' = Cached(p)
  BY <1>1, <1>2 DEF Modify, Cached, PagesType
<1>4. dirtyCache'[p] = TRUE /\ dirty'[p] = dirty[p] \cup {g}
  BY DEF Modify, FlagsType
<1>5. QED
  BY <1>1, <1>3, <1>4 DEF Flags, Open

\* pager_recycle() takes a page that is free and needs no sync.
LEMMA ReplaceFlags ==
  ASSUME IInv, NEW p \in Proc, NEW g \in Recyclable(p), Replace(p, g), task[p] = "recycle",
         dirty'[p] = dirty[p] \ {g}, UNCHANGED <<needSync, dirtyCache, jfd>>
  PROVE  Flags(p)'
<1> USE DEF IInv, Types
<1> DEFINE c == [cache[p] EXCEPT ![g] = NotCached]
<1>1. g \in Page /\ g \notin ref[p] /\ g \notin needSync[p] /\ want[p] \in Page
  BY DEF Recyclable, Free, Cached, RestType
<1>2. c \in [Page -> Content \cup {NotCached}]
  BY <1>1 DEF PagesType
<1>3. cache'[p] = Fetched(p, want[p], c) /\ ref'[p] = ref[p] \cup {want[p]}
  BY DEF Replace, PagesType
<1>4. Cached(p)' = (Cached(p) \ {g}) \cup {want[p]}
  <2>1. ASSUME NEW h \in Page
        PROVE  cache'[p][h] # NotCached <=> h = want[p] \/ (h # g /\ cache[p][h] # NotCached)
    <3>1. c[h] # NotCached <=> h # g /\ cache[p][h] # NotCached
      BY <1>1 DEF PagesType
    <3>2. cache'[p][h] # NotCached <=> h = want[p] \/ c[h] # NotCached
      BY <1>1, <1>2, <1>3, FetchedCached
    <3>3. QED
      BY <3>1, <3>2
  <2>2. QED
    BY <2>1, <1>1 DEF Cached
<1>5. pc'[p] = "idle" /\ task'[p] = "none"
  BY DEF Replace, Goto, Doing, ControlType
<1>6. ref[p] # {} /\ 1 \in ref[p]
  BY DEF Flags
<1>7. ~Open(p) => inJournal'[p] = {}
  BY DEF Replace, Flags, Open, FlagsType
<1>8. QED
  BY <1>1, <1>3, <1>4, <1>5, <1>6, <1>7 DEF Flags, Open

-----------------------------------------------------------------------------
(* The steps.                                                              *)

\* A step that takes or gives back no lock.
LEMMA Untouched ==
  ASSUME IInv
  PROVE  UNCHANGED <<locks, st>> => Levels' /\ Exclusive'
BY DEF IInv, Levels, Exclusive, locks

\* Every step but a power failure: one process acts, as StepKeeps says.
LEMMA Step == ASSUME IInv, Next, UNCHANGED setup, ~PowerFailure
              PROVE  \E p \in Proc : StepKeeps(p)
<1> USE DEF IInv, Types, Goto, Doing, locks, files, names, journals, pagers, pages, flags, rest
<1>1. ASSUME NEW p \in Proc, LockShared(p)
      PROVE  StepKeeps(p)
  <2>1. \A q \in Proc \ {p} : Mine(q)' = Mine(q)
        BY <1>1 DEF LockShared, Mine, PagersType, ControlType
  <2>2. Place(p)'
    <3>1. st[p] = "unlock"
      BY <1>1 DEF LockShared, Levels, Lock!GetShared, Open, Owns, PagersType, ControlType
    <3>2. task[p] = "none" /\ ~Open(p)
      BY <1>1, <3>1 DEF LockShared, Place, Flags, Open, Owns, PagersType, ControlType
    <3>3. QED
      BY <1>1, <3>2 DEF LockShared, Place, Open, Owns, PagersType, ControlType
  <2>3. Flags(p)'
        BY <1>1 DEF LockShared, Place, Flags, Open, Cached, ControlType
  <2>4. Levels' /\ Exclusive'
        BY <1>1 DEF LockShared, Levels, Exclusive, PagersType, Place, Lock!TypeOK,
           Lock!LockType, Lock!Set, Lock!Alone, Lock!GetShared
  <2>5. Numbered'
        BY <1>1 DEF LockShared, Numbered
  <2>6. QED
    BY <2>1, <2>2, <2>3, <2>4, <2>5 DEF StepKeeps
<1>2. ASSUME NEW p \in Proc, JournalExists(p)
      PROVE  StepKeeps(p)
  <2>1. \A q \in Proc \ {p} : Mine(q)' = Mine(q)
        BY <1>2 DEF JournalExists, Mine, ControlType
  <2>2. Place(p)'
        BY <1>2 DEF JournalExists, Place, Flags, Open, Owns, ControlType
  <2>3. Flags(p)'
        BY <1>2 DEF JournalExists, Place, Flags, Open, Cached, ControlType
  <2>4. Levels' /\ Exclusive'
        BY <1>2, Untouched DEF JournalExists
  <2>5. Numbered'
        BY <1>2 DEF JournalExists, Numbered
  <2>6. QED
    BY <2>1, <2>2, <2>3, <2>4, <2>5 DEF StepKeeps
<1>3. ASSUME NEW p \in Proc, CheckReserved(p)
      PROVE  StepKeeps(p)
  <2>1. \A q \in Proc \ {p} : Mine(q)' = Mine(q)
        BY <1>3 DEF CheckReserved, Mine, ControlType
  <2>2. Place(p)'
        BY <1>3 DEF CheckReserved, Place, Flags, Open, Owns, ControlType
  <2>3. Flags(p)'
        BY <1>3 DEF CheckReserved, Place, Flags, Open, Cached, ControlType
  <2>4. Levels' /\ Exclusive'
        BY <1>3, Untouched DEF CheckReserved
  <2>5. Numbered'
        BY <1>3 DEF CheckReserved, Numbered
  <2>6. QED
    BY <2>1, <2>2, <2>3, <2>4, <2>5 DEF StepKeeps
<1>4. ASSUME NEW p \in Proc, JournalIsHot(p)
      PROVE  StepKeeps(p)
  <2>1. \A q \in Proc \ {p} : Mine(q)' = Mine(q)
        BY <1>4 DEF JournalIsHot, Counted, Mine, ControlType
  <2>2. Place(p)'
        BY <1>4 DEF JournalIsHot, Counted, Place, Flags, Open, Owns, ControlType
  <2>3. Flags(p)'
        BY <1>4 DEF JournalIsHot, Counted, Place, Flags, Open, Cached, ControlType
  <2>4. Levels' /\ Exclusive'
        BY <1>4, Untouched DEF JournalIsHot, Counted
  <2>5. Numbered'
        BY <1>4 DEF JournalIsHot, Counted, Numbered
  <2>6. QED
    BY <2>1, <2>2, <2>3, <2>4, <2>5 DEF StepKeeps
<1>5. ASSUME NEW p \in Proc, DeleteOldJournal(p)
      PROVE  StepKeeps(p)
  <2>1. \A q \in Proc \ {p} : Mine(q)' = Mine(q)
        BY <1>5 DEF DeleteOldJournal, Counted, Unlink, Mine, ControlType
  <2>2. Place(p)'
        BY <1>5 DEF DeleteOldJournal, Counted, Unlink, Place, Flags, Open, Owns, ControlType
  <2>3. Flags(p)'
        BY <1>5 DEF DeleteOldJournal, Counted, Unlink, Place, Flags, Open, Cached, ControlType
  <2>4. Levels' /\ Exclusive'
        BY <1>5, Untouched DEF DeleteOldJournal, Counted, Unlink
  <2>5. Numbered'
        BY <1>5 DEF DeleteOldJournal, Counted, Unlink, Numbered
  <2>6. QED
    BY <2>1, <2>2, <2>3, <2>4, <2>5 DEF StepKeeps
<1>6. ASSUME NEW p \in Proc, OpenHotJournal(p)
      PROVE  StepKeeps(p)
  <2>1. \A q \in Proc \ {p} : Mine(q)' = Mine(q)
        BY <1>6 DEF OpenHotJournal, NamesType, Mine, FlagsType, ControlType
  <2>2. Place(p)'
        BY <1>6 DEF OpenHotJournal, NamesType, Place, Flags, Open, Owns, FlagsType, ControlType
  <2>3. Flags(p)'
        BY <1>6 DEF OpenHotJournal, NamesType, Place, Flags, Open, Cached, FlagsType,
           ControlType
  <2>4. Levels' /\ Exclusive'
        BY <1>6, Untouched DEF OpenHotJournal, NamesType
  <2>5. Numbered'
        BY <1>6 DEF OpenHotJournal, NamesType, Numbered
  <2>6. QED
    BY <2>1, <2>2, <2>3, <2>4, <2>5 DEF StepKeeps
<1>7. ASSUME NEW p \in Proc, NoHotJournal(p)
      PROVE  StepKeeps(p)
  <2>1. \A q \in Proc \ {p} : Mine(q)' = Mine(q)
        BY <1>7 DEF NoHotJournal, BusyForHot, GiveUp, ForgetSize, Mine, PagersType, ControlType
  <2>2. Place(p)'
        BY <1>7 DEF NoHotJournal, BusyForHot, GiveUp, ForgetSize, Place, Open, Owns, PagersType,
           ControlType
  <2>3. Flags(p)'
        BY <1>7 DEF NoHotJournal, BusyForHot, GiveUp, ForgetSize, Place, Flags, Open, Cached,
           ControlType
  <2>4. Levels' /\ Exclusive'
        BY <1>7 DEF NoHotJournal, BusyForHot, GiveUp, ForgetSize, Levels, Exclusive, PagersType,
           Place, Lock!TypeOK, Lock!LockType, Lock!Set, Lock!Alone, Lock!Release
  <2>5. Numbered'
        BY <1>7 DEF NoHotJournal, BusyForHot, GiveUp, ForgetSize, Numbered
  <2>6. QED
    BY <2>1, <2>2, <2>3, <2>4, <2>5 DEF StepKeeps
<1>8. ASSUME NEW p \in Proc, GetFirst(p)
      PROVE  StepKeeps(p)
  <2>1. \A q \in Proc \ {p} : Mine(q)' = Mine(q)
        BY <1>8 DEF GetFirst, Fetched, Counted, NotCached, Mine, PagesType, ControlType
  <2>2. Place(p)'
        BY <1>8 DEF GetFirst, Fetched, Counted, NotCached, Place, Flags, Open, Owns, ControlType
  <2>3. Flags(p)'
    <3>1. cache[p] \in [Page -> Content \cup {NotCached}]
      BY DEF PagesType
    <3>2. cache'[p] = Fetched(p, 1, cache[p]) /\ 1 \in Page
      BY <1>8, SetupType DEF GetFirst, PagesType
    <3>3. \A h \in Page : cache'[p][h] # NotCached <=> h = 1 \/ cache[p][h] # NotCached
      BY <3>1, <3>2, FetchedCached
    <3>4. Cached(p)' = Cached(p) \cup {1}
      BY <3>2, <3>3 DEF Cached
    <3>5. QED
      BY <1>8, <3>4 DEF GetFirst, Flags, Open, PagesType, ControlType
  <2>4. Levels' /\ Exclusive'
        BY <1>8, Untouched DEF GetFirst, Fetched, Counted, NotCached
  <2>5. Numbered'
        BY <1>8 DEF GetFirst, Fetched, Counted, NotCached, Numbered
  <2>6. QED
    BY <2>1, <2>2, <2>3, <2>4, <2>5 DEF StepKeeps
<1>9. ASSUME NEW p \in Proc, RecycleClean(p)
      PROVE  StepKeeps(p)
  <2>1. \A q \in Proc \ {p} : Mine(q)' = Mine(q)
        BY <1>9 DEF RecycleClean, Replace, Fetched, Counted, Recyclable, Free, Cached,
           NotCached, Mine, PagesType, ControlType
  <2>2. Place(p)'
        BY <1>9 DEF RecycleClean, Replace, Fetched, Counted, Recyclable, Free, Cached,
           NotCached, Place, Flags, Open, Owns, ControlType
  <2>3. Flags(p)'
    <3>1. PICK g \in Recyclable(p) \ dirty[p] : Replace(p, g)
      BY <1>9 DEF RecycleClean, Open, PagesType, ControlType
    <3>2. task[p] = "recycle"
      BY <1>9 DEF RecycleClean, Place, Open, PagesType, ControlType
    <3>3. dirty'[p] = dirty[p] \ {g}
      BY <1>9, <3>1 DEF RecycleClean, Open, PagesType, ControlType
    <3>4. QED
      BY <1>9, <3>1, <3>2, <3>3, ReplaceFlags DEF RecycleClean, Open, PagesType, ControlType
  <2>4. Levels' /\ Exclusive'
        BY <1>9, Untouched DEF RecycleClean, Replace, Fetched, Counted, Recyclable, Free,
           Cached, NotCached
  <2>5. Numbered'
        BY <1>9 DEF RecycleClean, Replace, Fetched, Counted, Recyclable, Free, Cached,
           NotCached, Numbered
  <2>6. QED
    BY <2>1, <2>2, <2>3, <2>4, <2>5 DEF StepKeeps
<1>10. ASSUME NEW p \in Proc, RecycleDirty(p)
      PROVE  StepKeeps(p)
  <2>1. \A q \in Proc \ {p} : Mine(q)' = Mine(q)
        BY <1>10 DEF RecycleDirty, Locked, Recyclable, Mine, ControlType
  <2>2. Place(p)'
        BY <1>10 DEF RecycleDirty, Locked, Recyclable, Place, Flags, Open, Owns, ControlType
  <2>3. Flags(p)'
        BY <1>10 DEF RecycleDirty, Locked, Recyclable, Place, Flags, Open, Cached, ControlType
  <2>4. Levels' /\ Exclusive'
        BY <1>10, Untouched DEF RecycleDirty, Locked, Recyclable
  <2>5. Numbered'
        BY <1>10 DEF RecycleDirty, Locked, Recyclable, Numbered
  <2>6. QED
    BY <2>1, <2>2, <2>3, <2>4, <2>5 DEF StepKeeps
<1>11. ASSUME NEW p \in Proc, Spill(p)
      PROVE  StepKeeps(p)
  <2>1. \A q \in Proc \ {p} : Mine(q)' = Mine(q)
        BY <1>11 DEF Spill, Replace, Fetched, Counted, Recyclable, Free, Cached, NotCached,
           WritePage, Mine, PagesType, FlagsType, ControlType
  <2>2. Place(p)'
        BY <1>11 DEF Spill, Replace, Fetched, Counted, Recyclable, Free, Cached, NotCached,
           WritePage, Place, Flags, Open, Owns, ControlType
  <2>3. Flags(p)'
    <3>1. PICK g \in Recyclable(p) \cap dirty[p] :
             dirty' = [dirty EXCEPT ![p] = @ \ {g}] /\ Replace(p, g)
      BY <1>11 DEF Spill, Open, PagesType, FlagsType, ControlType
    <3>2. task[p] = "recycle"
      BY <1>11 DEF Spill, Place, Open, PagesType, FlagsType, ControlType
    <3>3. dirty'[p] = dirty[p] \ {g}
      BY <3>1 DEF FlagsType
    <3>4. QED
      BY <1>11, <3>1, <3>2, <3>3, ReplaceFlags DEF Spill, Open, PagesType, FlagsType,
         ControlType
  <2>4. Levels' /\ Exclusive'
        BY <1>11, Untouched DEF Spill, Replace, Fetched, Counted, Recyclable, Free, Cached,
           NotCached, WritePage
  <2>5. Numbered'
        BY <1>11 DEF Spill, Replace, Fetched, Counted, Recyclable, Free, Cached, NotCached,
           WritePage, Numbered
  <2>6. QED
    BY <2>1, <2>2, <2>3, <2>4, <2>5 DEF StepKeeps
<1>12. ASSUME NEW p \in Proc, SyncRecords(p)
      PROVE  StepKeeps(p)
  <2>1. \A q \in Proc \ {p} : Mine(q)' = Mine(q)
        BY <1>12 DEF SyncRecords, SyncJournalFile, Mine, ControlType
  <2>2. Place(p)'
        BY <1>12 DEF SyncRecords, SyncJournalFile, Place, Flags, Open, Owns, ControlType
  <2>3. Flags(p)'
        BY <1>12 DEF SyncRecords, SyncJournalFile, Place, Flags, Open, Cached, ControlType
  <2>4. Levels' /\ Exclusive'
        BY <1>12, Untouched DEF SyncRecords, SyncJournalFile
  <2>5. Numbered'
        BY <1>12 DEF SyncRecords, SyncJournalFile, Numbered
  <2>6. QED
    BY <2>1, <2>2, <2>3, <2>4, <2>5 DEF StepKeeps
<1>13. ASSUME NEW p \in Proc, WriteCount(p)
      PROVE  StepKeeps(p)
  <2>1. \A q \in Proc \ {p} : Mine(q)' = Mine(q)
        BY <1>13 DEF WriteCount, Mine, ControlType
  <2>2. Place(p)'
        BY <1>13 DEF WriteCount, Place, Flags, Open, Owns, ControlType
  <2>3. Flags(p)'
        BY <1>13 DEF WriteCount, Place, Flags, Open, Cached, ControlType
  <2>4. Levels' /\ Exclusive'
        BY <1>13, Untouched DEF WriteCount
  <2>5. Numbered'
        BY <1>13 DEF WriteCount, Numbered
  <2>6. QED
    BY <2>1, <2>2, <2>3, <2>4, <2>5 DEF StepKeeps
<1>14. ASSUME NEW p \in Proc, SyncCount(p)
      PROVE  StepKeeps(p)
  <2>1. \A q \in Proc \ {p} : Mine(q)' = Mine(q)
        BY <1>14 DEF SyncCount, SyncJournalFile, NewSegment, Locked, Mine, FlagsType,
           ControlType
  <2>2. Place(p)'
        BY <1>14 DEF SyncCount, SyncJournalFile, NewSegment, Locked, Place, Flags, Open, Owns,
           ControlType
  <2>3. Flags(p)'
        BY <1>14 DEF SyncCount, SyncJournalFile, NewSegment, Locked, Place, Flags, Open, Cached,
           FlagsType, ControlType
  <2>4. Levels' /\ Exclusive'
        BY <1>14, Untouched DEF SyncCount, SyncJournalFile, NewSegment, Locked
  <2>5. Numbered'
    <3>1. task[p] # "begin"
      BY <1>14 DEF SyncCount, Place, ControlType
    <3>2. QED
      BY <1>14, <3>1 DEF SyncCount, Locked, Numbered, rest, ControlType
  <2>6. QED
    BY <2>1, <2>2, <2>3, <2>4, <2>5 DEF StepKeeps
<1>15. ASSUME NEW p \in Proc, LockPending(p)
      PROVE  StepKeeps(p)
  <2>1. \A q \in Proc \ {p} : Mine(q)' = Mine(q)
        BY <1>15 DEF LockPending, Mine
  <2>2. Place(p)'
        BY <1>15 DEF LockPending, Place, Flags, Open, Owns, Levels, Lock!TypeOK, Lock!LockType,
           Lock!Set, Lock!GetPending
  <2>3. Flags(p)'
        BY <1>15 DEF LockPending, Place, Flags, Open, Cached
  <2>4. Levels' /\ Exclusive'
        BY <1>15 DEF LockPending, Levels, Exclusive, Place, Lock!TypeOK, Lock!LockType,
           Lock!Set, Lock!Alone, Lock!GetPending
  <2>5. Numbered'
        BY <1>15 DEF LockPending, Numbered, Place, Initial
  <2>6. QED
    BY <2>1, <2>2, <2>3, <2>4, <2>5 DEF StepKeeps
<1>16. ASSUME NEW p \in Proc, LockExclusive(p)
      PROVE  StepKeeps(p)
  <2>1. \A q \in Proc \ {p} : Mine(q)' = Mine(q)
        BY <1>16 DEF LockExclusive, Mine, PagersType, ControlType
  <2>2. Place(p)'
        BY <1>16 DEF LockExclusive, Place, Flags, Open, Owns, PagersType, ControlType, Levels,
           Lock!TypeOK, Lock!LockType, Lock!Set, Lock!GetExclusive
  <2>3. Flags(p)'
        BY <1>16 DEF LockExclusive, Place, Flags, Open, Cached, ControlType
  <2>4. Levels' /\ Exclusive'
        BY <1>16 DEF LockExclusive, Levels, Exclusive, PagersType, Place, Lock!TypeOK,
           Lock!LockType, Lock!Set, Lock!Alone, Lock!GetExclusive
  <2>5. Numbered'
        BY <1>16 DEF LockExclusive, Numbered
  <2>6. QED
    BY <2>1, <2>2, <2>3, <2>4, <2>5 DEF StepKeeps
<1>17. ASSUME NEW p \in Proc, LockBusy(p)
      PROVE  StepKeeps(p)
  <2>1. \A q \in Proc \ {p} : Mine(q)' = Mine(q)
        BY <1>17 DEF LockBusy, BusyForHot, GiveUp, ForgetSize, AfterError, Mine, PagersType,
           ControlType
  <2>2. Place(p)'
    <3>1. CASE task[p] = "hot"
      BY <1>17, <3>1 DEF LockBusy, BusyForHot, GiveUp, Place, Open, Owns, PagersType,
         ControlType
    <3>2. CASE task[p] # "hot"
      BY <1>17, <3>2 DEF LockBusy, AfterError, Place, pagers, Open, Owns, PagersType,
         ControlType
    <3>3. QED
      BY <3>1, <3>2
  <2>3. Flags(p)'
        BY <1>17 DEF LockBusy, BusyForHot, GiveUp, ForgetSize, AfterError, Place, Flags, Open,
           Cached, ControlType
  <2>4. Levels' /\ Exclusive'
        BY <1>17 DEF LockBusy, BusyForHot, GiveUp, ForgetSize, AfterError, Levels, Exclusive,
           PagersType, Place, Lock!TypeOK, Lock!LockType, Lock!Set, Lock!Alone, Lock!Release
  <2>5. Numbered'
        BY <1>17 DEF LockBusy, BusyForHot, GiveUp, ForgetSize, AfterError, Numbered
  <2>6. QED
    BY <2>1, <2>2, <2>3, <2>4, <2>5 DEF StepKeeps
<1>18. ASSUME NEW p \in Proc, BeginAgain(p)
      PROVE  StepKeeps(p)
  <2>1. \A q \in Proc \ {p} : Mine(q)' = Mine(q)
        BY <1>18 DEF BeginAgain, Calls, Mine, ControlType
  <2>2. Place(p)'
        BY <1>18 DEF BeginAgain, Calls, Place, Open, PagersType, ControlType
  <2>3. Flags(p)'
        BY <1>18 DEF BeginAgain, Calls, Place, Flags, Open, Cached, ControlType
  <2>4. Levels' /\ Exclusive'
        BY <1>18, Untouched DEF BeginAgain, Calls
  <2>5. Numbered'
        BY <1>18 DEF BeginAgain, Calls, Numbered
  <2>6. QED
    BY <2>1, <2>2, <2>3, <2>4, <2>5 DEF StepKeeps
<1>19. ASSUME NEW p \in Proc, OpenJournal(p)
      PROVE  StepKeeps(p)
  <2>1. \A q \in Proc \ {p} : Mine(q)' = Mine(q)
        BY <1>19 DEF OpenJournal, Counted, Mine, FlagsType, ControlType
  <2>2. Place(p)'
        BY <1>19 DEF OpenJournal, Counted, Place, Flags, Open, Owns, FlagsType, ControlType
  <2>3. Flags(p)'
        BY <1>19 DEF OpenJournal, Counted, Place, Flags, Open, Cached, FlagsType, ControlType
  <2>4. Levels' /\ Exclusive'
        BY <1>19, Untouched DEF OpenJournal, Counted
  <2>5. Numbered'
    BY <1>19 DEF OpenJournal, Numbered, RestType, Initial
  <2>6. QED
    BY <2>1, <2>2, <2>3, <2>4, <2>5 DEF StepKeeps
<1>20. ASSUME NEW p \in Proc, CannotOpenJournal(p)
      PROVE  StepKeeps(p)
  <2>1. \A q \in Proc \ {p} : Mine(q)' = Mine(q)
        BY <1>20 DEF CannotOpenJournal, GiveUp, LetGo, Counted, Mine, PagersType,
           ControlType
  <2>2. Place(p)'
    <3>1. task'[p] = "none" /\ st'[p] = "unlock" /\ pc'[p] \in {"idle", "failed"}
      BY <1>20 DEF CannotOpenJournal, GiveUp, LetGo, PagersType, ControlType
    <3>2. ~Open(p)'
      BY <1>20 DEF CannotOpenJournal, Place, Open
    <3>3. QED
      BY <3>1, <3>2 DEF Place
  <2>3. Flags(p)'
        BY <1>20 DEF CannotOpenJournal, GiveUp, LetGo, Counted, Place, Flags, Open, Cached,
           ControlType
  <2>4. Levels' /\ Exclusive'
        BY <1>20 DEF CannotOpenJournal, GiveUp, LetGo, Counted, Levels, Exclusive,
           PagersType, Place, Lock!TypeOK, Lock!LockType, Lock!Set, Lock!Alone, Lock!Release
  <2>5. Numbered'
        BY <1>20 DEF CannotOpenJournal, GiveUp, LetGo, Counted, Numbered
  <2>6. QED
    BY <2>1, <2>2, <2>3, <2>4, <2>5 DEF StepKeeps
<1>21. ASSUME NEW p \in Proc, CommitNothing(p)
      PROVE  StepKeeps(p)
  <2>1. \A q \in Proc \ {p} : Mine(q)' = Mine(q)
        BY <1>21 DEF CommitNothing, Writing, Calls, Mine, ControlType
  <2>2. Place(p)'
        BY <1>21 DEF CommitNothing, Writing, Calls, Place, Flags, Open, Owns, ControlType
  <2>3. Flags(p)'
        BY <1>21 DEF CommitNothing, Writing, Calls, Place, Flags, Open, Cached, ControlType
  <2>4. Levels' /\ Exclusive'
        BY <1>21, Untouched DEF CommitNothing, Writing, Calls
  <2>5. Numbered'
        BY <1>21 DEF CommitNothing, Writing, Calls, Numbered
  <2>6. QED
    BY <2>1, <2>2, <2>3, <2>4, <2>5 DEF StepKeeps
<1>22. ASSUME NEW p \in Proc, Commit(p)
      PROVE  StepKeeps(p)
  <2>1. \A q \in Proc \ {p} : Mine(q)' = Mine(q)
        BY <1>22 DEF Commit, Writing, Calls, Modify, Syncing, Locked, Mine, PagesType,
           FlagsType, ControlType
  <2>2. Place(p)'
        BY <1>22 DEF Commit, Writing, Calls, Modify, Syncing, Locked, Place, Flags, Open, Owns,
           ControlType
  <2>3. Flags(p)'
    <3>1. Open(p) /\ 1 \in Cached(p) /\ ref[p] # {}
      BY <1>22 DEF Commit, Writing, Calls, Flags, Open, PagesType, FlagsType, ControlType
    <3>2. pc'[p] = "store" \/ (pc'[p] = "lock" /\ task'[p] = "commit") => needSync'[p] = {}
      BY <1>22 DEF Commit, Syncing, Open, PagesType, FlagsType, ControlType
    <3>3. task'[p] # "recycle"
      BY <1>22 DEF Commit, Open, PagesType, FlagsType, ControlType
    <3>4. QED
      BY <1>22, <3>1, <3>2, <3>3, ModifyFlags DEF Commit, Open, PagesType, FlagsType,
         ControlType
  <2>4. Levels' /\ Exclusive'
        BY <1>22, Untouched DEF Commit, Writing, Calls, Modify, Syncing, Locked
  <2>5. Numbered'
        BY <1>22 DEF Commit, Writing, Calls, Modify, Syncing, Locked, Numbered
  <2>6. QED
    BY <2>1, <2>2, <2>3, <2>4, <2>5 DEF StepKeeps
<1>23. ASSUME NEW p \in Proc, SyncDatabase(p)
      PROVE  StepKeeps(p)
  <2>1. \A q \in Proc \ {p} : Mine(q)' = Mine(q)
        BY <1>23 DEF SyncDatabase, Mine, PagersType, ControlType
  <2>2. Place(p)'
        BY <1>23 DEF SyncDatabase, Place, Flags, Open, Owns, PagersType, ControlType
  <2>3. Flags(p)'
        BY <1>23 DEF SyncDatabase, Place, Flags, Open, Cached, ControlType
  <2>4. Levels' /\ Exclusive'
        BY <1>23 DEF SyncDatabase, Levels, Exclusive, PagersType, Place, Lock!TypeOK,
           Lock!LockType, Lock!Set, Lock!Alone
  <2>5. Numbered'
        BY <1>23 DEF SyncDatabase, Numbered
  <2>6. QED
    BY <2>1, <2>2, <2>3, <2>4, <2>5 DEF StepKeeps
<1>24. ASSUME NEW p \in Proc, DeleteJournal(p)
      PROVE  StepKeeps(p)
  <2>1. \A q \in Proc \ {p} : Mine(q)' = Mine(q)
        BY <1>24 DEF DeleteJournal, Unlink, Mine, FlagsType, ControlType
  <2>2. Place(p)'
        BY <1>24 DEF DeleteJournal, Unlink, Place, Flags, Open, Owns, FlagsType, ControlType
  <2>3. Flags(p)'
        BY <1>24 DEF DeleteJournal, Unlink, Place, Flags, Open, Cached, FlagsType, ControlType
  <2>4. Levels' /\ Exclusive'
        BY <1>24, Untouched DEF DeleteJournal, Unlink
  <2>5. Numbered'
        BY <1>24 DEF DeleteJournal, Unlink, Numbered
  <2>6. QED
    BY <2>1, <2>2, <2>3, <2>4, <2>5 DEF StepKeeps
<1>25. ASSUME NEW p \in Proc, Downgrade(p)
      PROVE  StepKeeps(p)
  <2>1. \A q \in Proc \ {p} : Mine(q)' = Mine(q)
        BY <1>25 DEF Downgrade, ForgetSize, AfterError, Mine, PagersType, ControlType
  <2>2. Place(p)'
        BY <1>25 DEF Downgrade, ForgetSize, AfterError, Place, Open, Owns, PagersType, ControlType
  <2>3. Flags(p)'
        BY <1>25 DEF Downgrade, ForgetSize, AfterError, Place, Flags, Open, Cached, ControlType
  <2>4. Levels' /\ Exclusive'
        BY <1>25 DEF Downgrade, ForgetSize, AfterError, Levels, Exclusive, PagersType, Place,
           Lock!TypeOK, Lock!LockType, Lock!Set, Lock!Alone, Lock!Release
  <2>5. Numbered'
        BY <1>25 DEF Downgrade, ForgetSize, AfterError, Numbered
  <2>6. QED
    BY <2>1, <2>2, <2>3, <2>4, <2>5 DEF StepKeeps
<1>26. ASSUME NEW p \in Proc, RollbackCache(p)
      PROVE  StepKeeps(p)
  <2>1. \A q \in Proc \ {p} : Mine(q)' = Mine(q)
        BY <1>26 DEF RollbackCache, Writing, Calls, Mine, PagesType, ControlType
  <2>2. Place(p)'
        BY <1>26 DEF RollbackCache, Writing, Calls, Place, Flags, Open, Owns, ControlType
  <2>3. Flags(p)'
    <3>1. ASSUME NEW g \in Page PROVE cache'[p][g] # NotCached <=> cache[p][g] # NotCached
      <4>1. db[g] # NotCached /\ 0 # NotCached
        BY SetupType DEF FilesType, Content, NotCached
      <4>2. g \in dirty[p] => g \in Cached(p)
        BY DEF Flags
      <4>3. QED
        BY <1>26, <4>1, <4>2 DEF RollbackCache, Cached, Open, PagesType, ControlType
    <3>2. Cached(p)' = Cached(p)
      BY <3>1 DEF Cached, Open, PagesType, ControlType
    <3>3. QED
      BY <1>26, <3>2 DEF RollbackCache, Flags, Writing, Calls, Place, Open, PagesType,
         ControlType
  <2>4. Levels' /\ Exclusive'
        BY <1>26, Untouched DEF RollbackCache, Writing, Calls
  <2>5. Numbered'
        BY <1>26 DEF RollbackCache, Writing, Calls, Numbered
  <2>6. QED
    BY <2>1, <2>2, <2>3, <2>4, <2>5 DEF StepKeeps
<1>27. ASSUME NEW p \in Proc, RollbackFile(p)
      PROVE  StepKeeps(p)
  <2>1. \A q \in Proc \ {p} : Mine(q)' = Mine(q)
        BY <1>27 DEF RollbackFile, Writing, Calls, Mine, ControlType
  <2>2. Place(p)'
        BY <1>27 DEF RollbackFile, Writing, Calls, Place, Flags, Open, Owns, ControlType
  <2>3. Flags(p)'
        BY <1>27 DEF RollbackFile, Writing, Calls, Place, Flags, Open, Cached, ControlType
  <2>4. Levels' /\ Exclusive'
        BY <1>27, Untouched DEF RollbackFile, Writing, Calls
  <2>5. Numbered'
        BY <1>27 DEF RollbackFile, Writing, Calls, Numbered
  <2>6. QED
    BY <2>1, <2>2, <2>3, <2>4, <2>5 DEF StepKeeps
<1>28. ASSUME NEW p \in Proc, Truncate(p)
      PROVE  StepKeeps(p)
  <2>1. \A q \in Proc \ {p} : Mine(q)' = Mine(q)
        BY <1>28 DEF Truncate, Mine, ControlType
  <2>2. Place(p)'
        BY <1>28 DEF Truncate, Place, Flags, Open, Owns, ControlType
  <2>3. Flags(p)'
        BY <1>28 DEF Truncate, Place, Flags, Open, Cached, ControlType
  <2>4. Levels' /\ Exclusive'
        BY <1>28, Untouched DEF Truncate
  <2>5. Numbered'
        BY <1>28 DEF Truncate, Numbered
  <2>6. QED
    BY <2>1, <2>2, <2>3, <2>4, <2>5 DEF StepKeeps
<1>29. ASSUME NEW p \in Proc, Crash(p)
      PROVE  StepKeeps(p)
  <2>1. \A q \in Proc \ {p} : Mine(q)' = Mine(q)
        BY <1>29 DEF Crash, Forget, NoPages, NotCached, Mine, PagersType, PagesType, FlagsType,
           ControlType
  <2>2. Place(p)'
        BY <1>29 DEF Crash, Forget, NoPages, NotCached, Place, Flags, Open, Owns, PagersType,
           FlagsType, ControlType, Levels, Lock!TypeOK, Lock!LockType, Lock!Set, Lock!Die
  <2>3. Flags(p)'
        BY <1>29 DEF Crash, Forget, NoPages, NotCached, Place, Flags, Open, Cached, PagesType,
           FlagsType, ControlType
  <2>4. Levels' /\ Exclusive'
        BY <1>29 DEF Crash, Forget, NoPages, NotCached, Levels, Exclusive, PagersType, Place,
           Lock!TypeOK, Lock!LockType, Lock!Set, Lock!Alone, Lock!Die
  <2>5. Numbered'
        BY <1>29 DEF Crash, Forget, NoPages, NotCached, Numbered
  <2>6. QED
    BY <2>1, <2>2, <2>3, <2>4, <2>5 DEF StepKeeps
<1>30. ASSUME NEW p \in Proc, NEW exFlag \in BOOLEAN, Begin(p, exFlag)
      PROVE  StepKeeps(p)
  <2>1. \A q \in Proc \ {p} : Mine(q)' = Mine(q)
        BY <1>30 DEF Begin, Calls, Mine, PagersType, ControlType
  <2>2. Place(p)'
        BY <1>30 DEF Begin, Calls, Place, Open, Owns, PagersType, ControlType, Levels
  <2>3. Flags(p)'
        BY <1>30 DEF Begin, Calls, Place, Flags, Open, Cached, ControlType
  <2>4. Levels' /\ Exclusive'
        BY <1>30 DEF Begin, Calls, Levels, Exclusive, PagersType, Place, Lock!TypeOK,
           Lock!LockType, Lock!Set, Lock!Alone, Lock!GetReserved
  <2>5. Numbered'
        BY <1>30 DEF Begin, Calls, Numbered
  <2>6. QED
    BY <2>1, <2>2, <2>3, <2>4, <2>5 DEF StepKeeps
<1>31. ASSUME NEW p \in Proc, NEW call \in {"commit", "rollback"}, EndNoJournal(p, call)
      PROVE  StepKeeps(p)
  <2>1. \A q \in Proc \ {p} : Mine(q)' = Mine(q)
        BY <1>31 DEF EndNoJournal, Calls, Mine, ControlType
  <2>2. Place(p)'
        BY <1>31 DEF EndNoJournal, Calls, Place, Flags, Open, Owns, ControlType
  <2>3. Flags(p)'
        BY <1>31 DEF EndNoJournal, Calls, Place, Flags, Open, Cached, ControlType
  <2>4. Levels' /\ Exclusive'
        BY <1>31, Untouched DEF EndNoJournal, Calls
  <2>5. Numbered'
        BY <1>31 DEF EndNoJournal, Calls, Numbered
  <2>6. QED
    BY <2>1, <2>2, <2>3, <2>4, <2>5 DEF StepKeeps
<1>32. ASSUME NEW p \in Proc, NEW g \in Page, Get(p, g)
      PROVE  StepKeeps(p)
  <2>1. \A q \in Proc \ {p} : Mine(q)' = Mine(q)
        BY <1>32 DEF Get, Calls, Fetched, Counted, Mine, PagesType
  <2>2. Place(p)'
        BY <1>32 DEF Get, Calls, Fetched, Counted, Place, Flags, Open, Owns
  <2>3. Flags(p)'
    <3>1. Cached(p)' = Cached(p) \cup {g}
      <4>1. CASE g \in Cached(p) /\ UNCHANGED cache
        BY <4>1 DEF Cached, Open, PagesType
      <4>2. CASE cache' = [cache EXCEPT ![p] = Fetched(p, g, @)]
        <5>1. /\ cache \in [Proc -> [Page -> Content \cup {NotCached}]]
              /\ cache[p] \in [Page -> Content \cup {NotCached}]
          BY DEF PagesType
        <5>2. cache'[p] = Fetched(p, g, cache[p])
          BY <4>2, <5>1
        <5>3. \A h \in Page : cache'[p][h] # NotCached <=> h = g \/ cache[p][h] # NotCached
          BY <5>1, <5>2, FetchedCached
        <5>4. QED
          BY <5>3 DEF Cached
      <4>3. QED
        BY <1>32, <4>1, <4>2 DEF Get, Open, PagesType
    <3>2. task[p] = "none"
      BY <1>32 DEF Get, Calls, Place
    <3>3. QED
      BY <1>32, <3>1, <3>2 DEF Get, Flags, Calls, Open, PagesType
  <2>4. Levels' /\ Exclusive'
        BY <1>32, Untouched DEF Get, Calls, Fetched, Counted
  <2>5. Numbered'
        BY <1>32 DEF Get, Calls, Fetched, Counted, Numbered, Place, Initial
  <2>6. QED
    BY <2>1, <2>2, <2>3, <2>4, <2>5 DEF StepKeeps
<1>33. ASSUME NEW p \in Proc, NEW g \in Page, GetFull(p, g)
      PROVE  StepKeeps(p)
  <2>1. \A q \in Proc \ {p} : Mine(q)' = Mine(q)
        BY <1>33 DEF GetFull, Calls, Syncing, Free, Mine, ControlType, RestType
  <2>2. Place(p)'
        BY <1>33 DEF GetFull, Calls, Syncing, Free, Place, Flags, Open, Owns, ControlType
  <2>3. Flags(p)'
    <3>1. want'[p] = g /\ g \notin Cached(p) /\ ref[p] # {} /\ Cached(p)' = Cached(p)
      BY <1>33 DEF GetFull, Calls, Cached, RestType
    <3>2. pc'[p] \notin {"store", "lock"}
      BY <1>33 DEF GetFull, Syncing, ControlType
    <3>3. QED
      BY <1>33, <3>1, <3>2 DEF GetFull, Flags, Open
  <2>4. Levels' /\ Exclusive'
        BY <1>33, Untouched DEF GetFull, Calls, Syncing, Free
  <2>5. Numbered'
        BY <1>33 DEF GetFull, Calls, Syncing, Free, Numbered
  <2>6. QED
    BY <2>1, <2>2, <2>3, <2>4, <2>5 DEF StepKeeps
<1>34. ASSUME NEW p \in Proc, NEW g \in Page, Unref(p, g)
      PROVE  StepKeeps(p)
  <2>1. \A q \in Proc \ {p} : Mine(q)' = Mine(q)
        BY <1>34 DEF Unref, EmptyCache, NoPages, ForgetSize, GiveUp, LetGo, Mine, PagersType,
           PagesType, ControlType
  <2>2. Place(p)'
    <3>1. CASE g = 1
      BY <1>34, <3>1 DEF Unref, GiveUp, LetGo, Place, Open, Owns, PagersType, ControlType
    <3>2. CASE g # 1
      BY <1>34, <3>2 DEF Unref, Place, pagers, Open, Owns, PagersType, ControlType
    <3>3. QED
      BY <3>1, <3>2
  <2>3. Flags(p)'
        BY <1>34 DEF Unref, EmptyCache, NoPages, ForgetSize, GiveUp, LetGo, Place, Flags, Open, Cached,
           PagesType, ControlType
  <2>4. Levels' /\ Exclusive'
        BY <1>34 DEF Unref, EmptyCache, NoPages, ForgetSize, GiveUp, LetGo, Levels, Exclusive,
           PagersType, Place, Lock!TypeOK, Lock!LockType, Lock!Set, Lock!Alone, Lock!Release
  <2>5. Numbered'
        BY <1>34 DEF Unref, EmptyCache, NoPages, ForgetSize, GiveUp, LetGo, Numbered
  <2>6. QED
    BY <2>1, <2>2, <2>3, <2>4, <2>5 DEF StepKeeps
<1>35. ASSUME NEW p \in Proc, NEW g \in Page, Write(p, g)
      PROVE  StepKeeps(p)
  <2>1. \A q \in Proc \ {p} : Mine(q)' = Mine(q)
        BY <1>35 DEF Write, Writing, Calls, Modify, Mine, PagesType, FlagsType
  <2>2. Place(p)'
        BY <1>35 DEF Write, Writing, Calls, Modify, Place, Flags, Open, Owns
  <2>3. Flags(p)'
    <3>1. Open(p) /\ g \in Cached(p) /\ pc[p] = "idle"
      BY <1>35 DEF Write, Writing, Calls, Flags, Open, PagesType, FlagsType
    <3>2. pc'[p] # "store" /\ task'[p] # "recycle"
      BY <1>35, <3>1 DEF Write, Place, Open, PagesType, FlagsType
    <3>3. QED
      BY <1>35, <3>1, <3>2, ModifyFlags DEF Write, Open, PagesType, FlagsType
  <2>4. Levels' /\ Exclusive'
        BY <1>35, Untouched DEF Write, Writing, Calls, Modify
  <2>5. Numbered'
        BY <1>35 DEF Write, Writing, Calls, Modify, Numbered, Place, Initial
  <2>6. QED
    BY <2>1, <2>2, <2>3, <2>4, <2>5 DEF StepKeeps
<1>36. ASSUME NEW p \in Proc, NEW g \in Page, StorePage(p, g)
      PROVE  StepKeeps(p)
  <2>1. \A q \in Proc \ {p} : Mine(q)' = Mine(q)
        BY <1>36 DEF StorePage, WritePage, Mine, FlagsType
  <2>2. Place(p)'
        BY <1>36 DEF StorePage, WritePage, Place, Flags, Open, Owns
  <2>3. Flags(p)'
        BY <1>36 DEF StorePage, WritePage, Place, Flags, Open, Cached, FlagsType
  <2>4. Levels' /\ Exclusive'
        BY <1>36, Untouched DEF StorePage, WritePage
  <2>5. Numbered'
        BY <1>36 DEF StorePage, WritePage, Numbered, Place, Initial
  <2>6. QED
    BY <2>1, <2>2, <2>3, <2>4, <2>5 DEF StepKeeps
<1>37. ASSUME NEW p \in Proc, NEW g \in Page, PlaybackPage(p, g)
      PROVE  StepKeeps(p)
  <2>1. \A q \in Proc \ {p} : Mine(q)' = Mine(q)
        BY <1>37 DEF PlaybackPage, WritePage, Mine, PagesType, FlagsType, ControlType
  <2>2. Place(p)'
        BY <1>37 DEF PlaybackPage, WritePage, Place, Flags, Open, Owns, ControlType
  <2>3. Flags(p)'
    <3>1. jfd[p] \in Txn
      BY <1>37, OpenType DEF PlaybackPage, Place, Open, PagesType, FlagsType, ControlType
    <3>2. jOrig[jfd[p]][g] # NotCached
      BY <3>1, SetupType DEF JournalsType, Content, NotCached
    <3>3. Cached(p)' = Cached(p)
      BY <1>37, <3>2 DEF PlaybackPage, Cached, Open, PagesType, FlagsType, ControlType
    <3>4. dirty'[p] \subseteq dirty[p] /\ pc'[p] \in {"delete", "playback"} /\ task'[p] # "recycle"
      BY <1>37 DEF PlaybackPage, FlagsType, ControlType, Place
    <3>5. ref' = ref /\ needSync' = needSync /\ dirtyCache' = dirtyCache /\ jfd' = jfd
          /\ inJournal' = inJournal /\ task' = task
      BY <1>37 DEF PlaybackPage
    <3>6. QED
      BY <3>3, <3>4, <3>5 DEF Flags, Open
  <2>4. Levels' /\ Exclusive'
        BY <1>37, Untouched DEF PlaybackPage, WritePage
  <2>5. Numbered'
        BY <1>37 DEF PlaybackPage, WritePage, Numbered
  <2>6. QED
    BY <2>1, <2>2, <2>3, <2>4, <2>5 DEF StepKeeps
<1>38. ASSUME NEW p \in Proc, RollbackUnlocked(p)
       PROVE  StepKeeps(p)
  <2>1. \A q \in Proc \ {p} : Mine(q)' = Mine(q)
    BY <1>38 DEF RollbackUnlocked, ForgetSize, Mine, PagesType, PagersType
  <2>2. Place(p)'
    BY <1>38 DEF RollbackUnlocked, Place, Open, Owns
  <2>3. Cached(p)' = Cached(p)
    <3>1. ASSUME NEW g \in Page, dirtyCache[p] PROVE jOrig[jfd[p]][g] # NotCached
      <4>1. jOrig[jfd[p]][g] \in Content
        BY <3>1, OpenType DEF Flags, JournalsType
      <4>2. QED
        BY <4>1, SetupType DEF Content, NotCached
    <3>2. QED
      BY <1>38, <3>1 DEF RollbackUnlocked, Cached, PagesType
  <2>4. Flags(p)'
    BY <1>38, <2>3 DEF RollbackUnlocked, Flags, Open
  <2>5. Levels' /\ Exclusive'
    BY <1>38, Untouched DEF RollbackUnlocked
  <2>6. Numbered'
    BY <1>38 DEF RollbackUnlocked, Numbered
  <2>7. QED
    BY <2>1, <2>2, <2>4, <2>5, <2>6 DEF StepKeeps
<1>39. QED
    BY <1>1, <1>2, <1>3, <1>4, <1>5, <1>6, <1>7, <1>8, <1>9, <1>10, <1>11, <1>12, <1>13,
     <1>14, <1>15, <1>16, <1>17, <1>18, <1>19, <1>20, <1>21, <1>22, <1>23, <1>24, <1>25,
     <1>26, <1>27, <1>28, <1>29, <1>30, <1>31, <1>32, <1>33, <1>34, <1>35, <1>36, <1>37, <1>38
     DEF Next, HotJournal, Recycle, SyncJournal, LockStep, Transaction, PageStep

\* A power failure leaves every process as it was at first.
LEMMA PowerStep == ASSUME IInv, PowerFailure, UNCHANGED setup
                   PROVE  /\ \A p \in Proc : Place(p)' /\ Flags(p)'
                          /\ Levels' /\ Exclusive' /\ Numbered'
<1> USE DEF PowerFailure, Forget
<1>1. ASSUME NEW p \in Proc
      PROVE  /\ pc'[p] = "idle" /\ task'[p] = "none" /\ st'[p] = "unlock"
             /\ jfd'[p] = NoJournal /\ ref'[p] = {} /\ dirty'[p] = {} /\ needSync'[p] = {}
             /\ dirtyCache'[p] = FALSE /\ level'[p] = Lock!NO_LOCK
  OBVIOUS
<1>2. ASSUME NEW p \in Proc PROVE Place(p)' /\ Flags(p)'
  BY <1>1 DEF Place, Flags, Open, Owns
<1>3. Levels' /\ Exclusive'
  BY <1>1 DEF Levels, Exclusive
<1>4. Numbered'
  BY <1>1 DEF IInv, Numbered
<1>5. QED
  BY <1>2, <1>3, <1>4

\* The invariant holds at first ...
LEMMA InvariantInit == Init => IInv
<1> SUFFICES ASSUME Init PROVE IInv
  OBVIOUS
<1>1. setup \in Setups /\ setup.size \in 0 .. NPage
  BY SetupAssumption DEF Init
<1>2. Types
  BY <1>1, SizeAssumption DEF Init, Types, Lock!Init, Lock!TypeOK, Lock!LockType, FilesType,
     NamesType, JournalsType, PagersType, PagesType, FlagsType, ControlType, RestType, NoPages,
     Page, Content, Txn, Initial, NoJournal, NoSize, NotCached, Label
<1>3. ASSUME NEW p \in Proc PROVE Place(p) /\ Flags(p)
  BY DEF Init, Place, Flags, Open, Owns
<1>4. Levels /\ Exclusive
  BY DEF Init, Lock!Init, Levels, Exclusive
<1>5. Numbered
  BY DEF Init, Numbered, Initial
<1>6. QED
  BY <1>2, <1>3, <1>4, <1>5 DEF IInv

\* ... and every step keeps it.
LEMMA InvariantStep == IInv /\ [Next]_<<setup, vars>> => IInv'
<1> SUFFICES ASSUME IInv, [Next]_<<setup, vars>> PROVE IInv'
  OBVIOUS
<1>1. Types'
  BY TypeStep
<1>2. CASE PowerFailure /\ Next
  <2>1. UNCHANGED setup
    BY <1>2 DEF Next
  <2>2. QED
    BY <1>1, <1>2, <2>1, PowerStep DEF IInv
<1>3. CASE ~PowerFailure /\ Next
  <2>1. PICK p \in Proc : StepKeeps(p)
    BY <1>3, Step DEF Next
  <2>2. ASSUME NEW q \in Proc \ {p} PROVE Place(q)' /\ Flags(q)'
    <3>1. Place(q) /\ Flags(q) /\ Mine(q)' = Mine(q)
      BY <2>1 DEF IInv, StepKeeps
    <3>2. Place(q)'
      BY <3>1 DEF Place, Mine, Open, Owns
    <3>3. Flags(q)'
      BY <3>1 DEF Flags, Mine, Open, Cached
    <3>4. QED
      BY <3>2, <3>3
  <2>3. QED
    BY <1>1, <2>1, <2>2 DEF IInv, StepKeeps
<1>4. CASE UNCHANGED <<setup, vars>>
  <2> USE <1>4 DEF vars, IInv
  <2>1. Levels' /\ Exclusive'
    BY Untouched DEF pagers
  <2>2. Numbered'
    BY DEF Numbered, rest
  <2>3. ASSUME NEW p \in Proc PROVE Place(p)' /\ Flags(p)'
    <3>1. Mine(p)' = Mine(p)
      BY DEF Mine, pagers, pages, flags, rest
    <3>2. Place(p)'
      BY <3>1 DEF Place, Mine, Open, Owns
    <3>3. Flags(p)'
      BY <3>1 DEF Flags, Mine, Open, Cached
    <3>4. QED
      BY <3>2, <3>3
  <2>4. QED
    BY <1>1, <2>1, <2>2, <2>3
<1>5. QED
  BY <1>2, <1>3, <1>4

-----------------------------------------------------------------------------
(* The theorems.                                                           *)

\* The invariant holds in every state the processes can be in.
THEOREM PagerInvariantHolds == Spec => []IInv
BY InvariantInit, InvariantStep, PTL DEF Spec

\* Every step of pager.c leaves a state that is well formed: the journals
\* are of numbered transactions and have records of pages of the file, what
\* a power failure may leave in the file includes what is there, and no
\* page number or size goes past the bounds of the file.
THEOREM PagerTypeOK == Spec => []TypeOK
<1>1. IInv => TypeOK
  BY TypesOK DEF IInv
<1>2. QED
  BY <1>1, PagerInvariantHolds, PTL

-----------------------------------------------------------------------------
(* Nobody uses a Pager on without a lock.                                  *)

\* What Kept says of a process is about this.
KeptOf(p) == <<pc[p], task[p], st[p], jfd[p], ref[p]>>

\* The steps that take or give back no lock, open no journal and make no use
\* of a page that was not in use.
LEMMA KeptStep ==
  ASSUME LInv, [Next]_<<setup, vars>>, ~setup.usedUnlocked
  PROVE  \A p \in Proc : Kept(p)'
<1> USE DEF LInv, IInv, Types, Goto, Doing, locks, files, names, journals, pagers, pages, flags, rest
<1> DEFINE Others(p) == \A q \in Proc \ {p} : KeptOf(q)' = KeptOf(q)
<1>1. ASSUME NEW p \in Proc, LockShared(p) PROVE Kept(p)' /\ Others(p)
  BY <1>1 DEF LockShared, Kept, KeptOf, ControlType, PagersType
<1>2. ASSUME NEW p \in Proc, HotJournal(p) PROVE Kept(p)' /\ Others(p)
  <2> USE DEF Kept, KeptOf, Place, Open, ControlType, PagersType, FlagsType, PagesType
  <2>1. CASE JournalExists(p) \/ CheckReserved(p) \/ JournalIsHot(p) \/ DeleteOldJournal(p)
    BY <2>1 DEF JournalExists, CheckReserved, JournalIsHot, DeleteOldJournal
  <2>2. CASE OpenHotJournal(p)
    BY <2>2 DEF OpenHotJournal
  <2>3. CASE NoHotJournal(p)
    BY <2>3 DEF NoHotJournal, BusyForHot, GiveUp
  <2>4. CASE GetFirst(p)
    BY <2>4 DEF GetFirst
  <2>5. QED
    BY <1>2, <2>1, <2>2, <2>3, <2>4 DEF HotJournal
<1>3. ASSUME NEW p \in Proc, Recycle(p) PROVE Kept(p)' /\ Others(p)
  <2>1. /\ UNCHANGED <<st, jfd>> /\ ref[p] # {}
        /\ pc'[p] \in {"idle", "spill", "lock"} /\ task'[p] # "hot"
        /\ \A q \in Proc \ {p} : pc'[q] = pc[q] /\ task'[q] = task[q] /\ ref'[q] = ref[q]
    BY <1>3 DEF Recycle, RecycleClean, RecycleDirty, Spill, Replace, Locked, Place, Flags,
                ControlType, PagesType
  <2>2. QED
    BY <1>3, <2>1 DEF Recycle, RecycleClean, RecycleDirty, Spill, Kept, KeptOf, Open
<1>4. ASSUME NEW p \in Proc, SyncJournal(p) PROVE Kept(p)' /\ Others(p)
  BY <1>4 DEF SyncJournal, SyncRecords, WriteCount, SyncCount, Locked, Place, Kept, KeptOf, Open,
              ControlType
<1>5. ASSUME NEW p \in Proc, LockStep(p) PROVE Kept(p)' /\ Others(p)
  <2> USE DEF Kept, KeptOf, Place, Open, ControlType, PagersType
  <2>1. CASE LockPending(p)
    BY <2>1 DEF LockPending
  <2>2. CASE LockExclusive(p)
    BY <2>2 DEF LockExclusive
  <2>3. CASE LockBusy(p) /\ task[p] = "hot"
    BY <2>3 DEF LockBusy, BusyForHot, GiveUp
  <2>4. CASE LockBusy(p) /\ task[p] # "hot"
    BY <2>4 DEF LockBusy, AfterError
  <2>5. QED
    BY <1>5, <2>1, <2>2, <2>3, <2>4 DEF LockStep
<1>6. ASSUME NEW p \in Proc, Transaction(p) PROVE Kept(p)' /\ Others(p)
  <2> USE DEF Kept, KeptOf, Open, ControlType, PagersType, FlagsType
  <2>1. CASE \E exFlag \in BOOLEAN : Begin(p, exFlag)
    BY <2>1 DEF Begin, Calls
  <2>2. CASE \E call \in {"commit", "rollback"} : EndNoJournal(p, call)
    BY <2>2 DEF EndNoJournal
  <2>3. CASE BeginAgain(p)
    BY <2>3 DEF BeginAgain, Calls
  <2>4. CASE OpenJournal(p)
    BY <2>4 DEF OpenJournal, Place, Flags
  <2>5. CASE CannotOpenJournal(p)
    BY <2>5 DEF CannotOpenJournal, LetGo, GiveUp, Place
  <2>6. CASE CommitNothing(p) \/ RollbackCache(p) \/ RollbackFile(p) \/ RollbackUnlocked(p)
    BY <2>6 DEF CommitNothing, RollbackCache, RollbackFile, RollbackUnlocked, Writing, Calls
  <2>7. CASE Commit(p)
    BY <2>7 DEF Commit, Writing, Calls, Modify, Locked, Syncing
  <2>8. CASE SyncDatabase(p)
    BY <2>8 DEF SyncDatabase
  <2>9. CASE DeleteJournal(p)
    BY <2>9 DEF DeleteJournal
  <2>10. CASE Downgrade(p)
    BY <2>10 DEF Downgrade, AfterError, Place
  <2>11. CASE Truncate(p)
    BY <2>11 DEF Truncate
  <2>12. QED
    BY <1>6, <2>1, <2>2, <2>3, <2>4, <2>5, <2>6, <2>7, <2>8, <2>9, <2>10, <2>11 DEF Transaction
<1>7. ASSUME NEW p \in Proc, Crash(p) PROVE Kept(p)' /\ Others(p)
  BY <1>7 DEF Crash, Forget, Kept, KeptOf, Open
<1>8. ASSUME NEW p \in Proc, NEW g \in Page, PageStep(p, g) PROVE Kept(p)' /\ Others(p)
  <2> USE DEF Kept, KeptOf, Open, ControlType, PagersType, PagesType, FlagsType
  <2>1. CASE Get(p, g)
    BY <2>1 DEF Get, Calls
  <2>2. CASE GetFull(p, g)
    BY <2>2 DEF GetFull, Calls, Syncing
  <2>3. CASE Unref(p, g)
    BY <2>3 DEF Unref, LetGo, GiveUp, Place
  <2>4. CASE Write(p, g)
    BY <2>4 DEF Write, Modify
  <2>5. CASE StorePage(p, g)
    BY <2>5 DEF StorePage
  <2>6. CASE PlaybackPage(p, g)
    BY <2>6 DEF PlaybackPage
  <2>7. QED
    BY <1>8, <2>1, <2>2, <2>3, <2>4, <2>5, <2>6 DEF PageStep
<1>9. ASSUME PowerFailure, NEW p \in Proc PROVE Kept(p)'
  BY <1>9 DEF PowerFailure, Forget, Kept, Open
<1>10. ASSUME UNCHANGED <<setup, vars>>, NEW p \in Proc PROVE Kept(p)'
  BY <1>10 DEF vars, Kept, Open
<1>11. ASSUME NEW p \in Proc, Kept(p)', Others(p), NEW q \in Proc PROVE Kept(q)'
  BY <1>11 DEF Kept, KeptOf, Open
<1>12. QED
  BY <1>1, <1>2, <1>3, <1>4, <1>5, <1>6, <1>7, <1>8, <1>9, <1>10, <1>11 DEF Next

LEMMA LockedInit == Init => LInv
BY InvariantInit DEF LInv, Init, Kept, Open

LEMMA LockedStep == LInv /\ ~setup.usedUnlocked /\ [Next]_<<setup, vars>> => LInv'
BY InvariantStep, KeptStep DEF LInv

\* The rollback of the call that could not create its journal has nothing to
\* restore.
LEMMA UnlockedIsEmpty ==
  ASSUME LInv, NEW p \in Proc, RollbackUnlocked(p)
  PROVE  /\ pc[p] = "failed" /\ ~Open(p) /\ UNCHANGED cache
         /\ dbSize' = [dbSize EXCEPT ![p] = NoSize]
<1>1. pc[p] = "failed" /\ ~Open(p) /\ ~dirtyCache[p]
  BY DEF LInv, IInv, Kept, Flags, RollbackUnlocked
<1>2. [g \in Page |-> cache[p][g]] = cache[p] /\ cache = [cache EXCEPT ![p] = cache[p]]
  BY DEF LInv, IInv, Types, PagesType
<1>3. UNCHANGED cache
  BY <1>1, <1>2 DEF RollbackUnlocked
<1>4. QED
  BY <1>1, <1>3 DEF RollbackUnlocked, ForgetSize

\* If nobody uses a Pager on without a lock, no state is reached where
\* somebody could have.
THEOREM LockedInvariantHolds == ASSUME StopWithoutJournal PROVE Spec => []LInv
<1>1. LInv => ~setup.usedUnlocked
  BY DEF LInv, IInv, Types, StopWithoutJournal
<1>2. QED
  BY <1>1, LockedInit, LockedStep, PTL DEF Spec

\* The asserts of pager.c never fail, whatever the processes do and wherever
\* they die, if nobody uses a Pager on whose journal could not be created
\* (pager_open_journal() has then given up the lock): Pager.state agrees with
\* the lock, there is a lock whenever sqlite3pager_begin() or _write() may be
\* called, a journal is opened and open only with RESERVED or more, and
\* nothing waits for a sync when pages are written.
THEOREM PagerAssertsHold ==
  ASSUME StopWithoutJournal
  PROVE  Spec => []AssertsHold
<1>1. LInv => AssertsHold
  <2> SUFFICES ASSUME LInv, NEW p \in Proc
               PROVE  /\ st[p] = "unlock" <=> level[p] = Lock!NO_LOCK
                      /\ st[p] \in {"exclusive", "synced"} <=> level[p] = Lock!EXCLUSIVE_LOCK
                      /\ st[p] \in {"unlock", "shared"} /\ pc[p] # "downgrade" => jfd[p] = NoJournal
                      /\ pc[p] = "openJournal" =>
                            st[p] \in {"reserved", "exclusive"} /\ jfd[p] = NoJournal
                      /\ Calls(p) => st[p] # "unlock"
                      /\ pc[p] = "store" => needSync[p] = {}
                      /\ ~dirtyCache[p] => needSync[p] = {}
    BY DEF AssertsHold
  <2>1. /\ st[p] = "unlock" <=> level[p] = Lock!NO_LOCK
        /\ st[p] \in {"exclusive", "synced"} <=> level[p] = Lock!EXCLUSIVE_LOCK
    BY DEF LInv, IInv, Levels
  <2>2. st[p] \in {"unlock", "shared"} => jfd[p] = NoJournal
    BY OpenOwns DEF Open, Owns
  <2>3. pc[p] = "openJournal" => st[p] \in {"reserved", "exclusive"} /\ jfd[p] = NoJournal
    BY DEF LInv, IInv, Place, Flags, Kept, Open
  <2>4. Calls(p) => st[p] # "unlock"
    BY DEF LInv, Kept, Calls
  <2>5. /\ pc[p] = "store" => needSync[p] = {}
        /\ ~dirtyCache[p] => needSync[p] = {}
    BY DEF LInv, IInv, Flags
  <2>6. QED
    BY <2>1, <2>2, <2>3, <2>4, <2>5
<1>2. QED
  BY <1>1, LockedInvariantHolds, PTL

-----------------------------------------------------------------------------
(* A database that is not empty: whose journal is open.                    *)

\* Page 1 exists for everybody.
LEMMA NotZero ==
  ASSUME IInv, NeverEmpty, NEW p \in Proc
  PROVE  db[1] # 0 /\ PageCount(p) \in 1 .. NPage /\ FromFile(p, 1) # 0
<1> USE SetupType DEF IInv, Types
<1>1. db[1] # 0
  BY DEF FilesType, NeverEmpty, FirstPages
<1>2. Size(db) \in 1 .. NPage
  BY <1>1, LastPage DEF Size
<1>3. PageCount(p) \in 1 .. NPage
  BY <1>2 DEF PageCount, PagersType, NeverEmpty, FirstPage, NoSize
<1>4. QED
  BY <1>1, <1>3 DEF FromFile

\* A step that opens no journal, closes none and numbers none has to show
\* where the first pages and sizes it uses come from.
LEMMA Steady ==
  ASSUME IInv, NeverEmpty, UNCHANGED <<linked, jOrig, jSize, jRecs, jfd, nextTxn>>,
         linkedDisk' \subseteq linkedDisk, 0 \notin disk'[1],
         \A q \in Proc : /\ cache'[q][1] # 0 /\ dbSize'[q] # 0
                         /\ pc'[q] = "playback" /\ 1 \in todo'[q] => jOrig[jfd[q]][1] # 0
  PROVE  NeverEmpty'
BY DEF NeverEmpty, FirstPages, FirstPage, Named, Open, Used

\* sqlite3pager_write() journals and changes a page that is not zero.
LEMMA ModifyNeverEmpty ==
  ASSUME IInv, NeverEmpty, NEW p \in Proc, Open(p), NEW g \in Cached(p), Modify(p, g),
         \A q \in Proc : pc'[q] = "playback" => pc[q] = "playback"
  PROVE  NeverEmpty'
<1> USE SetupType DEF IInv, Types
<1>1. g \in Page /\ jfd[p] \in Txn /\ jfd[p] > 0
  BY OpenType DEF Cached, Txn, Initial
<1>2. \A q \in Proc : cache'[q][1] # 0 /\ dbSize'[q] # 0
  BY <1>1 DEF Modify, NeverEmpty, FirstPage, PagesType, PagersType, Page
<1>3. \A t \in Txn : jOrig[t][1] # 0 \/ 1 \in jRecs'[t] \ jRecs[t] => jOrig'[t][1] # 0
  <2>1. CASE UNCHANGED <<jOrig, jRecs>>
    BY <2>1
  <2>2. CASE /\ jOrig' = [jOrig EXCEPT ![jfd[p]][g] = cache[p][g]]
             /\ jRecs' = [jRecs EXCEPT ![jfd[p]] = @ \cup {g}]
    BY <1>1, <2>2 DEF JournalsType, NeverEmpty, FirstPage
  <2>3. QED
    BY <2>1, <2>2 DEF Modify
<1>4. UNCHANGED <<disk, linked, linkedDisk, jSize, jfd, todo, nextTxn>>
  BY DEF Modify, files, names, rest
<1>5. FirstPages'
  BY <1>3, <1>4 DEF NeverEmpty, FirstPages, Used
<1>6. ASSUME NEW q \in Proc PROVE FirstPage(q)' /\ Named(q)'
  <2>1. pc[q] = "playback" => jfd[q] \in Txn
    BY OpenType DEF Place
  <2>2. QED
    BY <1>2, <1>3, <1>4, <2>1 DEF NeverEmpty, FirstPage, Named, Open, Used
<1>7. QED
  BY <1>5, <1>6 DEF NeverEmpty

\* pager_recycle() reads the wanted page into the slot.
LEMMA ReplaceNotZero ==
  ASSUME IInv, NeverEmpty, NEW p \in Proc, NEW g \in Page, Replace(p, g)
  PROVE  \A q \in Proc : cache'[q][1] # 0 /\ dbSize'[q] # 0
<1> USE SetupType DEF IInv, Types
<1>1. [cache[p] EXCEPT ![g] = NotCached][1] # 0
  BY DEF PagesType, NotCached, NeverEmpty, FirstPage
<1>2. Fetched(p, want[p], [cache[p] EXCEPT ![g] = NotCached])[1] # 0
  BY <1>1, NotZero DEF Fetched, PagesType
<1>3. QED
  BY <1>2, NotZero DEF Replace, Counted, PagesType, PagersType, NeverEmpty, FirstPage

\* A database that is not empty stays so.
LEMMA NeverEmptyStep == ASSUME LInv, NeverEmpty, [Next]_<<setup, vars>> PROVE NeverEmpty'
<1> USE SetupType DEF LInv, IInv, Types, Goto, Doing, locks, files, names, journals, pagers, pages, flags,
                      rest
<1>1. ASSUME NEW p \in Proc, LockShared(p)
      PROVE  NeverEmpty'
        BY <1>1, NotZero, Steady DEF LockShared, NamesType, NoSize, PagersType,
       ControlType, NeverEmpty, FirstPages, FirstPage
<1>2. ASSUME NEW p \in Proc, JournalExists(p)
      PROVE  NeverEmpty'
        BY <1>2, NotZero, Steady DEF JournalExists, NamesType, NoSize, PagersType,
       ControlType, NeverEmpty, FirstPages, FirstPage
<1>3. ASSUME NEW p \in Proc, CheckReserved(p)
      PROVE  NeverEmpty'
        BY <1>3, NotZero, Steady DEF CheckReserved, NamesType, NoSize, PagersType,
       ControlType, NeverEmpty, FirstPages, FirstPage
<1>4. ASSUME NEW p \in Proc, JournalIsHot(p)
      PROVE  NeverEmpty'
        BY <1>4, NotZero, Steady DEF JournalIsHot, Counted, NamesType, NoSize,
       PagersType, ControlType, NeverEmpty, FirstPages, FirstPage
<1>5. ASSUME NEW p \in Proc, DeleteOldJournal(p)
      PROVE  NeverEmpty'
    BY <1>5, NotZero DEF DeleteOldJournal
<1>6. ASSUME NEW p \in Proc, OpenHotJournal(p)
      PROVE  NeverEmpty'
  <2>1. ~Open(p) /\ linked \in Used
    BY <1>6 DEF OpenHotJournal, Place, NamesType, NeverEmpty, FirstPages
  <2>2. FirstPages'
    BY <1>6 DEF OpenHotJournal, NeverEmpty, FirstPages, Used
  <2>3. ASSUME NEW q \in Proc PROVE FirstPage(q)' /\ Named(q)'
    BY <1>6, <2>1 DEF OpenHotJournal, NeverEmpty, FirstPage, Named, Open, Used, FlagsType,
                          ControlType
  <2>4. QED
    BY <2>2, <2>3 DEF NeverEmpty
<1>7. ASSUME NEW p \in Proc, NoHotJournal(p)
      PROVE  NeverEmpty'
        BY <1>7, NotZero, Steady DEF NoHotJournal, BusyForHot, GiveUp, ForgetSize,
       NamesType, NoSize, PagersType, ControlType, NeverEmpty, FirstPages, FirstPage
<1>8. ASSUME NEW p \in Proc, GetFirst(p)
      PROVE  NeverEmpty'
  <2>1. \A q \in Proc : cache'[q][1] # 0 /\ dbSize'[q] # 0
    BY <1>8, NotZero DEF GetFirst, Fetched, Counted, NeverEmpty, FirstPage, PagesType, PagersType
  <2>2. QED
    BY <1>8, <2>1, Steady DEF GetFirst, NeverEmpty, FirstPages, FirstPage, ControlType
<1>9. ASSUME NEW p \in Proc, RecycleClean(p)
      PROVE  NeverEmpty'
  <2>1. \A q \in Proc : cache'[q][1] # 0 /\ dbSize'[q] # 0
    BY <1>9, ReplaceNotZero DEF RecycleClean, Recyclable, Free, Cached
  <2>2. QED
    BY <1>9, <2>1, Steady DEF RecycleClean, Replace, NeverEmpty, FirstPages, FirstPage, ControlType
<1>10. ASSUME NEW p \in Proc, RecycleDirty(p)
      PROVE  NeverEmpty'
        BY <1>10, NotZero, Steady DEF RecycleDirty, Locked, Recyclable, NamesType,
       NoSize, PagersType, ControlType, NeverEmpty, FirstPages, FirstPage
<1>11. ASSUME NEW p \in Proc, Spill(p)
      PROVE  NeverEmpty'
  <2>1. \A q \in Proc : cache'[q][1] # 0 /\ dbSize'[q] # 0
    BY <1>11, ReplaceNotZero DEF Spill, Recyclable, Free, Cached
  <2>2. 0 \notin disk'[1]
    BY <1>11 DEF Spill, WritePage, FilesType, NeverEmpty, FirstPages, FirstPage, Recyclable,
                   Free, Cached
  <2>3. QED
    BY <1>11, <2>1, <2>2, Steady DEF Spill, Replace, NeverEmpty, FirstPage, ControlType
<1>12. ASSUME NEW p \in Proc, SyncRecords(p)
      PROVE  NeverEmpty'
        BY <1>12, NotZero, Steady DEF SyncRecords, SyncJournalFile, NamesType, NoSize,
       PagersType, ControlType, NeverEmpty, FirstPages, FirstPage
<1>13. ASSUME NEW p \in Proc, WriteCount(p)
      PROVE  NeverEmpty'
        BY <1>13, NotZero, Steady DEF WriteCount, NamesType, NoSize, PagersType,
       ControlType, NeverEmpty, FirstPages, FirstPage
<1>14. ASSUME NEW p \in Proc, SyncCount(p)
      PROVE  NeverEmpty'
        BY <1>14, NotZero, Steady DEF SyncCount, SyncJournalFile, NewSegment, Locked,
       NamesType, NoSize, PagersType, ControlType, NeverEmpty, FirstPages, FirstPage
<1>15. ASSUME NEW p \in Proc, LockPending(p)
      PROVE  NeverEmpty'
        BY <1>15, NotZero, Steady DEF LockPending, NamesType, NoSize, PagersType,
       ControlType, NeverEmpty, FirstPages, FirstPage
<1>16. ASSUME NEW p \in Proc, LockExclusive(p)
      PROVE  NeverEmpty'
  <2>1. \A q \in Proc : pc'[q] = "playback" => pc[q] = "playback"
    BY <1>16 DEF LockExclusive, Place, ControlType
  <2>2. QED
    BY <1>16, <2>1, Steady DEF LockExclusive, NeverEmpty, FirstPages, FirstPage
<1>17. ASSUME NEW p \in Proc, LockBusy(p)
      PROVE  NeverEmpty'
        BY <1>17, NotZero, Steady DEF LockBusy, BusyForHot, GiveUp, ForgetSize,
       AfterError, NamesType, NoSize, PagersType, ControlType, NeverEmpty, FirstPages,
       FirstPage
<1>18. ASSUME NEW p \in Proc, BeginAgain(p)
      PROVE  NeverEmpty'
        BY <1>18, NotZero, Steady DEF BeginAgain, Calls, NamesType, NoSize, PagersType,
       ControlType, NeverEmpty, FirstPages, FirstPage
<1>19. ASSUME NEW p \in Proc, OpenJournal(p)
      PROVE  NeverEmpty'
  <2>1. PageCount(p) \in 1 .. NPage /\ nextTxn \in Txn /\ nextTxn > Initial
    BY <1>19, NotZero DEF OpenJournal, Numbered, RestType, Txn, Initial
  <2>2. FirstPages'
    <3>1. 1 \notin jRecs'[nextTxn] /\ jSize'[nextTxn] > 0
      BY <1>19, <2>1 DEF OpenJournal, JournalsType
    <3>2. Used' = Used \cup {nextTxn}
      BY <1>19, <2>1 DEF OpenJournal, Used, RestType, Initial
    <3>3. \A t \in Txn \ {nextTxn} : jRecs'[t] = jRecs[t] /\ jSize'[t] = jSize[t]
      BY <1>19, <2>1 DEF OpenJournal, JournalsType
    <3>4. QED
      BY <1>19, <2>1, <3>1, <3>2, <3>3 DEF OpenJournal, NeverEmpty, FirstPages
  <2>3. ASSUME NEW q \in Proc PROVE FirstPage(q)' /\ Named(q)'
    <3>1. CASE q = p
      BY <1>19, <2>1, <3>1
         DEF OpenJournal, Counted, NeverEmpty, FirstPage, Named, Open, Used, FlagsType, ControlType,
             PagersType, RestType, Initial
    <3>2. CASE q # p
      <4>1. ~Open(q)
        <5>1. Owns(p)
          BY <1>19 DEF OpenJournal, Place, Flags, Kept, Owns
        <5>2. QED
          BY <3>2, <5>1, OneOwner, OpenOwns
      <4>2. pc[q] # "playback"
        BY <4>1 DEF Place
      <4>3. jfd'[q] = jfd[q] /\ pc'[q] = pc[q] /\ dbSize'[q] = dbSize[q] /\ cache'[q] = cache[q]
        BY <1>19, <3>2 DEF OpenJournal, Counted, FlagsType, ControlType, PagersType
      <4>4. QED
        BY <4>1, <4>2, <4>3 DEF NeverEmpty, FirstPage, Named, Open
    <3>3. QED
      BY <3>1, <3>2
  <2>4. QED
    BY <2>2, <2>3 DEF NeverEmpty
<1>20. ASSUME NEW p \in Proc, CannotOpenJournal(p)
      PROVE  NeverEmpty'
        BY <1>20, NotZero, Steady DEF CannotOpenJournal, GiveUp, LetGo, Counted,
       NamesType, NoSize, PagersType, ControlType, NeverEmpty, FirstPages, FirstPage
<1>21. ASSUME NEW p \in Proc, CommitNothing(p)
      PROVE  NeverEmpty'
        BY <1>21, NotZero, Steady DEF CommitNothing, Writing, Calls, NamesType, NoSize,
       PagersType, ControlType, NeverEmpty, FirstPages, FirstPage
<1>22. ASSUME NEW p \in Proc, Commit(p)
      PROVE  NeverEmpty'
  <2>1. Open(p) /\ 1 \in Cached(p)
    BY <1>22 DEF Commit, Writing, Calls, Flags, Open
  <2>2. QED
    BY <1>22, <2>1, ModifyNeverEmpty DEF Commit, Syncing, Locked, ControlType
<1>23. ASSUME NEW p \in Proc, SyncDatabase(p)
      PROVE  NeverEmpty'
  <2>1. 0 \notin disk'[1]
    BY <1>23, NotZero DEF SyncDatabase
  <2>2. QED
    BY <1>23, <2>1, Steady DEF SyncDatabase, NeverEmpty, FirstPage, ControlType
<1>24. ASSUME NEW p \in Proc, DeleteJournal(p)
      PROVE  NeverEmpty'
  <2>1. FirstPages'
    BY <1>24 DEF DeleteJournal, Unlink, NeverEmpty, FirstPages, Used
  <2>2. ASSUME NEW q \in Proc PROVE FirstPage(q)' /\ Named(q)'
    <3>1. q # p => ~Open(q)
      BY <1>24, OneOwner, OpenOwns DEF DeleteJournal, Place
    <3>2. ~Open(q)'
      BY <1>24, <3>1 DEF DeleteJournal, Open, FlagsType
    <3>3. pc'[q] # "playback"
      BY <1>24, <3>1 DEF DeleteJournal, Place, ControlType
    <3>4. cache'[q] = cache[q] /\ dbSize'[q] = dbSize[q]
      BY <1>24 DEF DeleteJournal
    <3>5. QED
      BY <3>2, <3>3, <3>4 DEF NeverEmpty, FirstPage, Named
  <2>3. QED
    BY <2>1, <2>2 DEF NeverEmpty
<1>25. ASSUME NEW p \in Proc, Downgrade(p)
      PROVE  NeverEmpty'
  <2>1. \A q \in Proc : pc'[q] = "playback" => pc[q] = "playback"
    BY <1>25 DEF Downgrade, AfterError, Place, ControlType
  <2>2. \A q \in Proc : dbSize'[q] # 0
    BY <1>25 DEF Downgrade, ForgetSize, NoSize, PagersType, NeverEmpty, FirstPage
  <2>3. QED
    BY <1>25, <2>1, <2>2, Steady DEF Downgrade, NeverEmpty, FirstPages, FirstPage
<1>26. ASSUME NEW p \in Proc, RollbackCache(p)
      PROVE  NeverEmpty'
  <2>1. Open(p) /\ jfd[p] \in Txn \cap Used
    BY <1>26, OpenType DEF RollbackCache, Writing, Open, NeverEmpty, FirstPage
  <2>2. jSize[jfd[p]] >= 1 /\ db[1] # 0
    BY <2>1, NotZero DEF NeverEmpty, FirstPages, JournalsType
  <2>3. \A q \in Proc : cache'[q][1] # 0
    BY <1>26, <2>2 DEF RollbackCache, NeverEmpty, FirstPage, PagesType
  <2>4. QED
    BY <1>26, <2>3, Steady DEF RollbackCache, NeverEmpty, FirstPages, FirstPage, ControlType
<1>27. ASSUME NEW p \in Proc, RollbackFile(p)
      PROVE  NeverEmpty'
        BY <1>27, NotZero, Steady DEF RollbackFile, Writing, Calls, NamesType, NoSize,
       PagersType, ControlType, NeverEmpty, FirstPages, FirstPage
<1>28. ASSUME NEW p \in Proc, Truncate(p)
      PROVE  NeverEmpty'
  <2>1. jfd[p] \in Txn \cap Used
    BY <1>28, OpenType DEF Truncate, Place, NeverEmpty, FirstPage
  <2>2. jSize[jfd[p]] \in 1 .. NPage
    BY <2>1 DEF NeverEmpty, FirstPages, JournalsType
  <2>3. 0 \notin disk'[1]
    BY <1>28, <2>2 DEF Truncate, Past, FilesType, NeverEmpty, FirstPages
  <2>4. \A q \in Proc : dbSize'[q] # 0
    BY <1>28, <2>2 DEF Truncate, PagersType, NeverEmpty, FirstPage
  <2>5. \A q \in Proc : pc'[q] = "playback" /\ 1 \in todo'[q] => jOrig[jfd[q]][1] # 0
    BY <1>28, <2>1 DEF Truncate, Restored, ControlType, RestType, NeverEmpty, FirstPages, FirstPage
  <2>6. QED
    BY <1>28, <2>3, <2>4, <2>5, Steady DEF Truncate, NeverEmpty, FirstPage
<1>29. ASSUME NEW p \in Proc, Crash(p)
      PROVE  NeverEmpty'
    BY <1>29 DEF Crash, Forget, NoPages, NotCached, NoSize, NeverEmpty, FirstPages, FirstPage,
                 Named, Open, Used
<1>30. ASSUME NEW p \in Proc, NEW exFlag \in BOOLEAN, Begin(p, exFlag)
      PROVE  NeverEmpty'
        BY <1>30, NotZero, Steady DEF Begin, Calls, NamesType, NoSize, PagersType,
       ControlType, NeverEmpty, FirstPages, FirstPage
<1>31. ASSUME NEW p \in Proc, NEW call \in {"commit", "rollback"}, EndNoJournal(p, call)
      PROVE  NeverEmpty'
        BY <1>31, NotZero, Steady DEF EndNoJournal, Calls, NamesType, NoSize,
       PagersType, ControlType, NeverEmpty, FirstPages, FirstPage
<1>32. ASSUME NEW p \in Proc, NEW g \in Page, Get(p, g)
      PROVE  NeverEmpty'
  <2>1. \A q \in Proc : cache'[q][1] # 0
    <3>1. CASE UNCHANGED cache
      BY <3>1 DEF NeverEmpty, FirstPage
    <3>2. CASE cache' = [cache EXCEPT ![p] = Fetched(p, g, @)]
      BY <3>2, NotZero DEF Fetched, PagesType, NeverEmpty, FirstPage
    <3>3. QED
      BY <1>32, <3>1, <3>2 DEF Get
  <2>2. \A q \in Proc : dbSize'[q] # 0
    BY <1>32, NotZero DEF Get, Counted, PagersType, NeverEmpty, FirstPage
  <2>3. QED
    BY <1>32, <2>1, <2>2, Steady DEF Get, NeverEmpty, FirstPages, FirstPage
<1>33. ASSUME NEW p \in Proc, NEW g \in Page, GetFull(p, g)
      PROVE  NeverEmpty'
        BY <1>33, NotZero, Steady DEF GetFull, Calls, Syncing, Free, NamesType, NoSize,
       PagersType, ControlType, NeverEmpty, FirstPages, FirstPage
<1>34. ASSUME NEW p \in Proc, NEW g \in Page, Unref(p, g)
      PROVE  NeverEmpty'
  <2>1. \A q \in Proc : cache'[q][1] # 0 /\ dbSize'[q] # 0
    BY <1>34 DEF Unref, EmptyCache, NoPages, NotCached, ForgetSize, NoSize, PagesType, PagersType,
                  NeverEmpty, FirstPage
  <2>2. QED
    BY <1>34, <2>1, Steady DEF Unref, NeverEmpty, FirstPages, FirstPage, ControlType
<1>35. ASSUME NEW p \in Proc, NEW g \in Page, Write(p, g)
      PROVE  NeverEmpty'
  <2>1. Open(p) /\ g \in Cached(p)
    BY <1>35 DEF Write, Writing, Calls, Flags, Open
  <2>2. QED
    BY <1>35, <2>1, ModifyNeverEmpty DEF Write
<1>36. ASSUME NEW p \in Proc, NEW g \in Page, StorePage(p, g)
      PROVE  NeverEmpty'
  <2>1. 0 \notin disk'[1]
    BY <1>36 DEF StorePage, WritePage, FilesType, NeverEmpty, FirstPages, FirstPage
  <2>2. QED
    BY <1>36, <2>1, Steady DEF StorePage, NeverEmpty, FirstPage
<1>37. ASSUME NEW p \in Proc, NEW g \in Page, PlaybackPage(p, g)
      PROVE  NeverEmpty'
  <2>1. g = 1 => jOrig[jfd[p]][1] # 0
    BY <1>37 DEF PlaybackPage, NeverEmpty, FirstPage
  <2>2. 0 \notin disk'[1]
    BY <1>37, <2>1 DEF PlaybackPage, WritePage, FilesType, NeverEmpty, FirstPages
  <2>3. \A q \in Proc : cache'[q][1] # 0
    BY <1>37, <2>1 DEF PlaybackPage, PagesType, NeverEmpty, FirstPage
  <2>4. \A q \in Proc : pc'[q] = "playback" /\ 1 \in todo'[q] => jOrig[jfd[q]][1] # 0
    BY <1>37 DEF PlaybackPage, ControlType, RestType, NeverEmpty, FirstPage
  <2>5. QED
    BY <1>37, <2>2, <2>3, <2>4, Steady DEF PlaybackPage, NeverEmpty, FirstPage
<1>38. ASSUME PowerFailure PROVE NeverEmpty'
  <2> USE <1>38 DEF PowerFailure, Forget, NoPages
  <2>1. db'[1] \in disk[1] /\ disk'[1] = {db'[1]}
    BY DEF FilesType
  <2>2. \A t \in Txn : jRecs'[t] \subseteq jRecs[t]
    <3>1. PICK t \in linkedDisk :
             \/ UNCHANGED jRecs
             \/ t # NoJournal /\ \E lost \in SUBSET (jRecs[t] \ jSynced[t]) :
                                     jRecs' = [jRecs EXCEPT ![t] = @ \ lost]
      OBVIOUS
    <3>2. CASE UNCHANGED jRecs
      BY <3>2
    <3>3. CASE t # NoJournal /\ \E lost \in SUBSET (jRecs[t] \ jSynced[t]) :
                                  jRecs' = [jRecs EXCEPT ![t] = @ \ lost]
      BY <3>3 DEF JournalsType
    <3>4. QED
      BY <3>1, <3>2, <3>3
  <2>3. FirstPages'
    BY <2>1, <2>2 DEF NeverEmpty, FirstPages, Used
  <2>4. ASSUME NEW q \in Proc PROVE FirstPage(q)' /\ Named(q)'
    BY DEF FirstPage, Named, Open, NotCached, NoSize
  <2>5. QED
    BY <2>3, <2>4 DEF NeverEmpty
<1>39. CASE UNCHANGED <<setup, vars>>
  BY <1>39 DEF vars, NeverEmpty, FirstPages, FirstPage, Named, Open, Used
<1>40. ASSUME NEW p \in Proc, RollbackUnlocked(p)
       PROVE  NeverEmpty'
  <2>1. FirstPages'
    BY <1>40 DEF RollbackUnlocked, NeverEmpty, FirstPages, Used
  <2>2. ASSUME NEW q \in Proc PROVE FirstPage(q)' /\ Named(q)'
    <3>1. UNCHANGED <<cache, jfd, pc, todo, jOrig, linked, nextTxn>>
      BY <1>40, UnlockedIsEmpty DEF RollbackUnlocked
    <3>2. dbSize'[q] \in {dbSize[q], NoSize}
      BY <1>40, UnlockedIsEmpty DEF PagersType
    <3>3. QED
      BY <3>1, <3>2 DEF NeverEmpty, FirstPage, Named, Open, Used, NoSize
  <2>3. QED
    BY <2>1, <2>2 DEF NeverEmpty
<1>41. QED
    BY <1>1, <1>2, <1>3, <1>4, <1>5, <1>6, <1>7, <1>8, <1>9, <1>10, <1>11, <1>12, <1>13,
     <1>14, <1>15, <1>16, <1>17, <1>18, <1>19, <1>20, <1>21, <1>22, <1>23, <1>24, <1>25,
     <1>26, <1>27, <1>28, <1>29, <1>30, <1>31, <1>32, <1>33, <1>34, <1>35, <1>36, <1>37,
     <1>38, <1>39, <1>40 DEF Next, HotJournal, Recycle, SyncJournal, LockStep, Transaction,
     PageStep

LEMMA InitNeverEmpty == ASSUME \A s \in Setups : s.size > 0 PROVE Init => NeverEmpty
<1> SUFFICES ASSUME Init PROVE NeverEmpty
  OBVIOUS
<1>1. setup \in Setups /\ setup.size >= 1 /\ 1 \in Page
  BY SetupAssumption, SizeAssumption DEF Init, Page
<1>2. FirstPages
  BY <1>1 DEF Init, FirstPages, Initial, NoJournal, Used
<1>3. ASSUME NEW p \in Proc PROVE FirstPage(p) /\ Named(p)
  BY <1>1 DEF Init, FirstPage, Named, Open, NoPages, NotCached, NoSize
<1>4. QED
  BY <1>2, <1>3 DEF NeverEmpty

\* A journal in use is the one with the name, and one process uses it, if the
\* database was not empty at first: no process takes the journal of a live
\* transaction for a hot one, and none deletes it.  (In an empty database
\* hasHotJournal() deletes a journal without any lock.)
THEOREM PagerJournalIsMine ==
  ASSUME StopWithoutJournal, \A s \in Setups : s.size > 0
  PROVE  Spec => []JournalIsMine
<1>1. Init => NeverEmpty
  BY InitNeverEmpty
<1>2. LInv /\ NeverEmpty /\ [Next]_<<setup, vars>> => NeverEmpty'
  BY NeverEmptyStep
<1>3. LInv /\ NeverEmpty => JournalIsMine
  <2> SUFFICES ASSUME LInv, NeverEmpty, NEW p \in Proc, jfd[p] # NoJournal
               PROVE  linked = jfd[p] /\ \A q \in Proc \ {p} : jfd[q] = NoJournal
    BY DEF JournalIsMine
  <2>1. linked = jfd[p]
    BY DEF NeverEmpty, Named, Open
  <2>2. \A q \in Proc \ {p} : jfd[q] = NoJournal
    BY OneOwner, OpenOwns DEF LInv, Open
  <2>3. QED
    BY <2>1, <2>2
<1>4. QED
  BY <1>1, <1>2, <1>3, LockedInvariantHolds, PTL DEF Spec
==============================================================================
