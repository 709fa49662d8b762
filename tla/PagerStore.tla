------------------------------ MODULE PagerStore ------------------------------
(***************************************************************************)
(* Machine-checked properties of the Pager, continued: the contents of     *)
(* file, journals and caches.  The invariant says which pages a live or    *)
(* abandoned transaction may have changed and that their records are on    *)
(* the disk, and that readers find the database in the file.               *)
(*                                                                         *)
(* It is about situations in which the code keeps its promises (Ordinary): *)
(* the others break them, as the runs that expect a violation and the      *)
(* configurations beside them show.                                        *)
(***************************************************************************)
EXTENDS PagerProofs

USE DEF Lock!NO_LOCK, Lock!SHARED_LOCK, Lock!RESERVED_LOCK, Lock!PENDING_LOCK, Lock!EXCLUSIVE_LOCK

\* One process at most uses the file.
Single(s) == \A p, q \in s.users : p = q

\* The file had a page at first; a Pager is left alone after an error, also
\* when it has no lock any more, and closed when a hot journal was in use; the
\* power fails in full-sync mode, and not before a rolled-back file is on the
\* disk; a header is torn when nobody can refuse a commit.
Ordinary(s) ==
    /\ s.size > 0 /\ ~s.otherUsers /\ ~s.usedUnlocked /\ ~s.retriesHot
    /\ s.powerFails => s.fullSync /\ ~s.afterRollback
    /\ s.powerFails /\ s.tornSectors => Single(s)

-----------------------------------------------------------------------------
(* Files and journals.                                                     *)

\* n is the size of the file.
Sized(file, n) == (n > 0 => file[n] # 0) /\ \A g \in Page : g > n => file[g] = 0
\* There is nothing in the database file past page n.
Covers(n) == \A g \in Page : db[g] # 0 => g <= n

\* The records of t that no failure can take away.
Durable(t) == jCountDisk[t] \cap jSynced[t]
\* The file does not have what it had when t journaled page g.
Differs(t, g) == g \in jRecs[t] /\ db[g] # jOrig[t][g]
\* A write of page g may be lost.
Unsynced(g) == disk[g] # {db[g]} /\ g \notin undone
\* The pages t may have changed.
Touched(t) == {g \in Page : Differs(t, g) \/ Unsynced(g)}
\* The database as t found it.
Orig(t) == [g \in Page |-> IF g \in jRecs[t] THEN jOrig[t][g] ELSE db[g]]

\* A header is written again while t depends on its records?
Rewriting(t) == setup.fullSync /\ Single(setup) /\ jCount[t] # jCountDisk[t]
Untouchable(t) == IF Past(t) \cap jSegment[t] = {} THEN jSegment[t] ELSE Page

\* Of every transaction: what is on the disk was written, pages past the
\* original file have no record of their own, and one that has not begun has
\* no journal.
Recorded ==
    \A t \in Txn :
        /\ jCountDisk[t] \subseteq jCount[t] /\ jSynced[t] \subseteq jRecs[t]
        /\ \A g \in Page : g > jSize[t] => jOrig[t][g] = 0
        /\ t >= nextTxn => /\ jRecs[t] = {} /\ jSynced[t] = {} /\ jCountDisk[t] = {}
                           /\ jSize[t] = 0

\* Of a journal that a failure may leave behind: the records of what was
\* changed are durable, and so is the size of the file.  A header that is
\* being written again counts none of them.
Guarded(t) ==
    /\ Touched(t) \subseteq Durable(t)
    /\ Touched(t) # {} => Past(t) \subseteq Durable(t)
    /\ Rewriting(t) => Touched(t) \cap Untouchable(t) = {}
Whole(t) == Sized(Orig(t), jSize[t])

\* Only a journal whose name is on the disk, and no other, protects the file.
OnlyName ==
    \A g \in Page : Unsynced(g) \/ (linked # NoJournal /\ Differs(linked, g))
                    => linked # NoJournal /\ linkedDisk = {linked}

Names == linkedDisk \ {NoJournal}
Lasting == Recorded /\ (\A t \in Names : Guarded(t) /\ Whole(t)) /\ OnlyName

-----------------------------------------------------------------------------
(* The processes.                                                          *)

\* p is looking for a hot journal; p has a transaction; p ends it.
Checking(p) ==
    pc[p] \in {"exists", "reserved?", "size", "openHot"} \/ (pc[p] = "lock" /\ task[p] = "hot")
Live(p) == Open(p) /\ task[p] \notin {"hot", "rollback"}
Ending(p) == pc[p] \in {"store", "delete"} \/ (pc[p] = "lock" /\ task[p] = "commit")

\* The file has the database in it, whatever journal there is.
Clean == linked # NoJournal => \A g \in Page : ~Differs(linked, g)

\* The flags of pages and the journal's records.
Journaled(p) == LET t == jfd[p] IN
    /\ dirty[p] \subseteq inJournal[p] /\ needSync[p] \subseteq inJournal[p]
    /\ inJournal[p] \subseteq jRecs[t] /\ \A g \in jRecs[t] : g <= jSize[t] => g \in inJournal[p]
    /\ Past(t) \subseteq jRecs[t] \cap jCount[t]
    /\ jRecs[t] \subseteq jCount[t] \cup jSegment[t]
    /\ jSegment[t] \subseteq jRecs[t] /\ jCount[t] \subseteq jRecs[t]
    /\ pc[p] = "syncCount" => jRecs[t] \subseteq jCount[t]

\* What needs no sync is on the disk.
Synced(p) == LET t == jfd[p] IN
    /\ dirfd[p] \/ linkedDisk = {t}
    /\ inJournal[p] \ needSync[p] # {} => started[p]
    /\ inJournal[p] \ needSync[p] \subseteq Durable(t)
    /\ started[p] => linkedDisk = {t} /\ Past(t) \subseteq Durable(t)
    /\ started[p] /\ pc[p] # "syncCount" => jCount[t] = jCountDisk[t]

\* What the pages of a transaction say of it: nothing is changed before
\* sqlite3pager_write() and syncJournal(), the size includes all pages, the end
\* leaves nothing.
Changing(p) ==
    /\ ~(dirtyCache[p] /\ started[p]) => \A g \in Page : ~Differs(jfd[p], g)
    /\ dbSize[p] # NoSize /\ \A g \in dirty[p] : g <= dbSize[p]
    /\ pc[p] = "delete" => dirty[p] = {} /\ needSync[p] = {}
    /\ task[p] = "commit" /\ dirtyCache[p] => 1 \in inJournal[p]

\* A header that may be written again counts nothing the file depends on.
Fresh(p) == LET t == jfd[p] IN
    /\ Touched(t) \cap jSegment[t] = {}
    /\ Touched(t) # {} \/ started[p] => Past(t) \cap jSegment[t] = {}
    /\ inJournal[p] \cap jSegment[t] \subseteq needSync[p]

Lives(p) == Live(p) => /\ Journaled(p) /\ Synced(p) /\ Changing(p)
                       /\ setup.fullSync /\ Single(setup) /\ ~Ending(p) => Fresh(p)

\* pager_playback(): what differs is still to do.
Plays(p) ==
    /\ Open(p) => \A g \in needSync[p] : ~Differs(jfd[p], g)
    /\ pc[p] = "playback" => /\ todo[p] \subseteq Restored(jfd[p])
                             /\ \A g \in Page : Differs(jfd[p], g) => g \in todo[p]
    /\ pc[p] = "delete" /\ task[p] # "commit" => \A g \in Page : ~Differs(jfd[p], g)

\* The size a process has in mind before it reads, and while it plays back.
Knows(p) ==
    /\ ~Open(p) /\ pc[p] # "failed" /\ (pc[p] = "downgrade" => task[p] = "hot")
          /\ dbSize[p] # NoSize => st[p] # "unlock" /\ Sized(db, dbSize[p])
    /\ pc[p] \in {"exists", "reserved?", "size"} => dbSize[p] = NoSize
    /\ task[p] = "hot" => dbSize[p] # NoSize
    /\ task[p] = "hot" /\ pc[p] = "truncate" => Sized(db, dbSize[p])
    /\ task[p] = "hot" /\ pc[p] \in {"playback", "delete"} => Sized(Orig(jfd[p]), dbSize[p])

\* Who uses the Pager has a lock, and a cache only while it does.
Holds(p) ==
    /\ p \notin setup.users => st[p] = "unlock"
    /\ p \in reserved => Owns(p)
    /\ Checking(p) \/ pc[p] = "first" \/ task[p] = "hot" => ref[p] = {}
    /\ ref[p] = {} => Cached(p) = {}
    /\ Cached(p) \subseteq 1 .. setup.pages /\ want[p] <= setup.pages
    /\ pc[p] # "failed" /\ (ref[p] # {} \/ pc[p] # "idle") => st[p] # "unlock"

\* The cache and the remembered size of a reader agree with the file.
Reads(p) ==
    Reading(p) => /\ \A g \in Cached(p) \ dirty[p] : cache[p][g] = db[g]
                  /\ dbSize[p] # NoSize => Covers(dbSize[p])

\* Past the test for a hot journal there is none, until the own one.
Found(p) == st[p] # "unlock" /\ ~Checking(p) /\ (Open(p) => st[p] = "reserved") => Clean

Each(p) == Lives(p) /\ Plays(p) /\ Knows(p) /\ Holds(p) /\ Reads(p) /\ Found(p)
Sound == Lasting /\ \A p \in Proc : Each(p)

Inv == LInv /\ NeverEmpty /\ Sound /\ Ordinary(setup)

-----------------------------------------------------------------------------
(* Sizes and reading.                                                      *)

\* A file has one size.
LEMMA SizedIsSize ==
  ASSUME NEW file, NEW n \in 0 .. NPage, Sized(file, n)
  PROVE  Size(file) = n
<1>1. \A m \in 0 .. NPage :
         (/\ m > 0 => file[m] # 0
          /\ \A g \in Page : g > m => file[g] = 0) => m = n
  BY SizeAssumption DEF Sized, Page
<1>2. QED
  BY <1>1, LastPage DEF Size

LEMMA SizeIsSized == ASSUME NEW file PROVE Sized(file, Size(file))
BY LastPage DEF Size, Sized

\* Reading with a size that includes all pages gives what the file has.
LEMMA CoversRead ==
  ASSUME Types, NEW p \in Proc, dbSize[p] # NoSize => Covers(dbSize[p]), NEW g \in Page
  PROVE  FromFile(p, g) = db[g] /\ Covers(PageCount(p))
<1>1. Covers(Size(db))
  <2>1. \A h \in Page : db[h] # 0 => ~(h > Size(db))
    BY SizeIsSized DEF Sized
  <2>2. Size(db) \in Int
    BY SizeType, SizeAssumption
  <2>3. QED
    BY <2>1, <2>2 DEF Covers, Page
<1>2. Covers(PageCount(p))
  BY <1>1 DEF PageCount
<1>3. PageCount(p) \in Int
  BY PageCountType, SizeAssumption
<1>4. QED
  BY <1>2, <1>3 DEF FromFile, Covers, Page

\* Nobody calls a Pager that has lost its lock, not even to roll back.
LEMMA HasLock == ASSUME Inv, NEW p \in Proc PROVE ~RollbackUnlocked(p)
BY DEF Inv, LInv, Kept, RollbackUnlocked, Ordinary

-----------------------------------------------------------------------------
(* Steps that leave the files, or the processes, alone.                    *)

\* Who may change something is alone in it.
LEMMA Apart ==
  ASSUME LInv, NEW p \in Proc, NEW q \in Proc \ {p}
  PROVE  /\ Owns(p) => ~Open(q) /\ ~Owns(q)
         /\ st[p] \in {"exclusive", "synced"} => st[q] = "unlock"
<1>1. Owns(p) => ~Open(q) /\ ~Owns(q)
  BY OneOwner, OpenOwns DEF LInv
<1>2. st[p] \in {"exclusive", "synced"} => st[q] = "unlock"
  BY DEF LInv, IInv, Levels, Exclusive
<1>3. QED
  BY <1>1, <1>2

\* What the invariant says of a process, beyond LInv.
Own(p) == <<pc[p], task[p], st[p], jfd[p], dirty[p], inJournal[p], needSync[p], dirtyCache[p],
            started[p], dirfd[p], dbSize[p], cache[p], ref[p], want[p], todo[p]>>

\* A step that changes no file and no journal.
LEMMA LastingSame ==
  ASSUME Sound, UNCHANGED <<setup, files, names, journals, nextTxn>>
  PROVE  Lasting'
<1>1. Recorded'
  BY DEF Sound, Lasting, Recorded, journals
<1>2. \A t : Touched(t)' = Touched(t) /\ Durable(t)' = Durable(t) /\ Past(t)' = Past(t)
  BY DEF Touched, Differs, Unsynced, Durable, Past, files, journals
<1>3. \A t : Rewriting(t)' = Rewriting(t) /\ Untouchable(t)' = Untouchable(t)
  BY <1>2 DEF Rewriting, Untouchable, Single, journals
<1>4. \A t : Guarded(t) => Guarded(t)'
  BY <1>2, <1>3 DEF Guarded
<1>5. \A t : Whole(t) => Whole(t)'
  BY DEF Whole, Sized, Orig, files, journals
<1>6. OnlyName'
  BY DEF Sound, Lasting, OnlyName, Unsynced, Differs, files, names, journals
<1>7. QED
  BY <1>1, <1>4, <1>5, <1>6 DEF Sound, Lasting, Names, names

\* A process that does not act, when no file and no journal changes.
LEMMA OthersSame ==
  ASSUME NEW q \in Proc, Each(q), Own(q)' = Own(q), q \in reserved' => q \in reserved,
         UNCHANGED <<setup, files, names, journals>>
  PROVE  Each(q)'
<1> USE DEF Own, files, names, journals
<1>1. Live(q)' = Live(q) /\ Ending(q)' = Ending(q) /\ Checking(q)' = Checking(q)
      /\ Open(q)' = Open(q) /\ Reading(q)' = Reading(q)
  BY DEF Live, Ending, Checking, Open, Reading
<1>2. \A t : Touched(t)' = Touched(t) /\ Durable(t)' = Durable(t) /\ Past(t)' = Past(t)
             /\ Restored(t)' = Restored(t)
  BY DEF Touched, Differs, Unsynced, Durable, Past, Restored
<1>3. Lives(q)'
  <2>1. Journaled(q) => Journaled(q)'
    BY <1>2 DEF Journaled
  <2>2. Synced(q) => Synced(q)'
    BY <1>2 DEF Synced
  <2>3. Changing(q) => Changing(q)'
    BY DEF Changing, Differs
  <2>4. Fresh(q) => Fresh(q)'
    BY <1>2 DEF Fresh
  <2>5. QED
    BY <1>1, <2>1, <2>2, <2>3, <2>4 DEF Each, Lives, Single
<1>4. Plays(q)'
  BY <1>1, <1>2 DEF Each, Plays, Differs
<1>5. Knows(q)'
  BY <1>1 DEF Each, Knows, Sized, Orig
<1>6. Holds(q)'
  BY <1>1 DEF Each, Holds, Cached, Owns
<1>7. Reads(q)'
  BY <1>1 DEF Each, Reads, Cached, Covers
<1>8. Found(q)'
  BY <1>1 DEF Each, Found, Clean, Differs
<1>9. QED
  BY <1>3, <1>4, <1>5, <1>6, <1>7, <1>8 DEF Each

\* A process that does not act, when the one with RESERVED does: it has no
\* journal, and if it has a lock the file does not change.
LEMMA OthersOwned ==
  ASSUME LInv, NEW p \in Proc, Owns(p), NEW q \in Proc \ {p}, Each(q),
         Own(q)' = Own(q), q \in reserved' => q \in reserved, UNCHANGED setup,
         st[q] = "unlock" \/ (UNCHANGED db /\ (Clean => Clean'))
  PROVE  Each(q)'
<1> USE DEF Own
<1>1. ~Open(q) /\ ~Open(q)' /\ Checking(q)' = Checking(q) /\ Reading(q)' = Reading(q)
  BY Apart DEF Open, Checking, Reading
<1>2. pc[q] \notin {"playback", "delete", "truncate"}
  BY <1>1 DEF LInv, IInv, Place
<1>3. Lives(q)'
  BY <1>1 DEF Lives, Live
<1>4. Plays(q)'
  BY <1>1, <1>2 DEF Plays
<1>5. Holds(q)'
  BY <1>1 DEF Each, Holds, Cached, Owns
<1>6. Knows(q)'
  BY <1>1, <1>2 DEF Each, Knows, Sized
<1>7. Reads(q)'
  BY <1>1 DEF Each, Reads, Holds, Cached, Covers, Reading
<1>8. Found(q)'
  BY <1>1 DEF Each, Found
<1>9. QED
  BY <1>3, <1>4, <1>5, <1>6, <1>7, <1>8 DEF Each

-----------------------------------------------------------------------------
(* The steps of a process that change no file and no journal.              *)

\* What is said of files and journals is the same after such a step.
LEMMA SharedSame ==
  ASSUME UNCHANGED <<setup, files, names, journals>>
  PROVE  /\ \A t : /\ Touched(t)' = Touched(t) /\ Durable(t)' = Durable(t) /\ Past(t)' = Past(t)
                   /\ Restored(t)' = Restored(t) /\ Orig(t)' = Orig(t)
                   /\ \A g : Differs(t, g)' = Differs(t, g)
         /\ Clean' = Clean /\ Single(setup)' = Single(setup)
         /\ \A n : Covers(n)' = Covers(n)
         /\ UNCHANGED <<db, linked, linkedDisk, jSize, jRecs, jCount, jCountDisk, jSegment>>
BY DEF Touched, Differs, Unsynced, Durable, Past, Restored, Orig, Clean, Single, Covers,
       files, names, journals

\* Such a step of p has to show only what the invariant says of p.
LEMMA LocalStep ==
  ASSUME Inv, NEW p \in Proc, UNCHANGED <<setup, files, names, journals, nextTxn>>,
         \A q \in Proc \ {p} : Own(q)' = Own(q) /\ (q \in reserved' => q \in reserved),
         Each(p)'
  PROVE  Sound'
BY LastingSame, OthersSame DEF Inv, Sound

\* The flags of the pages stay: the transaction goes on as it was.
OwnFlags(p) == <<jfd[p], dirty[p], inJournal[p], needSync[p], dirtyCache[p], started[p], dirfd[p]>>
LEMMA LivesSame ==
  ASSUME NEW p \in Proc, Lives(p), UNCHANGED <<setup, files, names, journals>>,
         OwnFlags(p)' = OwnFlags(p),
         Live(p)' => /\ Live(p) /\ dbSize'[p] = dbSize[p]
                     /\ pc[p] # "syncCount" /\ pc'[p] \notin {"syncCount", "delete"}
                     /\ task'[p] = "commit" => task[p] = "commit"
                     /\ Single(setup) => (Ending(p) => Ending(p)')
  PROVE  Lives(p)'
<1> SUFFICES ASSUME Live(p)' PROVE /\ Journaled(p)' /\ Synced(p)' /\ Changing(p)'
                                   /\ setup.fullSync /\ Single(setup) /\ ~Ending(p)' => Fresh(p)'
  BY DEF Lives, Single
<1> USE SharedSame DEF OwnFlags
<1>1. Journaled(p)'
  BY DEF Lives, Journaled
<1>2. Synced(p)'
  BY DEF Lives, Synced
<1>3. Changing(p)'
  BY DEF Lives, Changing
<1>4. setup.fullSync /\ Single(setup) /\ ~Ending(p)' => Fresh(p)'
  BY DEF Lives, Fresh
<1>5. QED
  BY <1>1, <1>2, <1>3, <1>4

LEMMA PlaysSame ==
  ASSUME NEW p \in Proc, Plays(p), UNCHANGED <<setup, files, names, journals>>,
         jfd'[p] = jfd[p], needSync'[p] = needSync[p],
         pc'[p] # "playback", pc'[p] = "delete" => task'[p] = "commit"
  PROVE  Plays(p)'
BY SharedSame DEF Plays, Open

\* A process that does not play back, and knows no size or that of the file.
LEMMA KnowsFile ==
  ASSUME NEW p \in Proc, pc'[p] \notin {"exists", "reserved?", "size", "playback"},
         task'[p] = "hot" => pc'[p] # "delete" /\ dbSize'[p] # NoSize,
         dbSize'[p] # NoSize => st'[p] # "unlock" /\ Sized(db', dbSize'[p])
  PROVE  Knows(p)'
BY DEF Knows

LEMMA KnowsNothing ==
  ASSUME NEW p \in Proc, task'[p] # "hot", dbSize'[p] = NoSize
  PROVE  Knows(p)'
BY DEF Knows

\* The size of the file includes all pages.
LEMMA SizedCovers ==
  ASSUME Types, NEW n \in Int, Sized(db, n) PROVE Covers(n)
BY DEF Sized, Covers, Page

\* Where p is in the code, without a journal or with one.
LEMMA Places ==
  ASSUME LInv, NEW p \in Proc
  PROVE  /\ pc[p] \in {"idle", "failed"} => task[p] = "none" /\ st[p] # "synced"
         /\ pc[p] \in {"exists", "reserved?", "size", "first"} =>
                task[p] = "none" /\ st[p] = "shared" /\ ~Open(p)
         /\ task[p] = "hot" => pc[p] \in {"lock", "openHot", "truncate", "playback", "delete",
                                          "downgrade"}
         /\ Checking(p) => ~Open(p) /\ st[p] \in {"shared", "exclusive"}
         /\ Open(p) => Owns(p)
         /\ ~Open(p) => dirty[p] = {} /\ needSync[p] = {} /\ ~dirtyCache[p]
BY OpenOwns DEF LInv, IInv, Types, ControlType, Label, Place, Flags, Checking

\* The size a process without a journal has in mind is that of the file.
LEMMA KnowsSized ==
  ASSUME LInv, NEW p \in Proc, Each(p), ~Open(p), pc[p] \notin {"failed", "downgrade"}
  PROVE  Sized(db, PageCount(p)) /\ (st[p] = "unlock" => dbSize[p] = NoSize)
BY SizeIsSized DEF Each, Knows, PageCount

USE DEF Goto, Doing, locks, files, names, journals, pagers, pages, flags, rest

LEMMA LockSharedSound ==
  ASSUME Inv, NEW p \in Proc, LockShared(p), UNCHANGED setup PROVE Sound'
<1> USE DEF Inv, Sound, LInv, IInv, Types
<1>1. /\ UNCHANGED <<files, names, journals, nextTxn>>
      /\ \A q \in Proc \ {p} : Own(q)' = Own(q) /\ (q \in reserved' => q \in reserved)
  BY DEF LockShared, Lock!GetShared, Own, PagersType, ControlType
<1>2. st[p] = "unlock" /\ ~Open(p) /\ task[p] = "none"
  BY Places DEF LockShared, Lock!GetShared, Levels, Owns
<1>3. dbSize'[p] = NoSize
  BY <1>2, KnowsSized DEF LockShared
<1>4. Lives(p)' /\ Plays(p)' /\ Knows(p)'
  BY <1>1, <1>2, <1>3, KnowsNothing DEF LockShared, Lives, Live, Plays, Open, ControlType
<1>5. Holds(p)' /\ Reads(p)' /\ Found(p)'
  BY <1>1, <1>2 DEF LockShared, Lock!GetShared, Each, Holds, Cached, Owns, Reads, Reading, Found,
                    Checking, ControlType, PagersType
<1>6. QED
  BY <1>1, <1>4, <1>5, LocalStep DEF Each

LEMMA JournalExistsSound ==
  ASSUME Inv, NEW p \in Proc, JournalExists(p), UNCHANGED setup PROVE Sound'
<1> USE DEF Inv, Sound, LInv, IInv, Types
<1>1. /\ UNCHANGED <<files, names, journals, nextTxn>>
      /\ \A q \in Proc \ {p} : Own(q)' = Own(q) /\ (q \in reserved' => q \in reserved)
  BY DEF JournalExists, Own, ControlType
<1>2. ~Open(p) /\ task[p] = "none" /\ st[p] = "shared" /\ dbSize[p] = NoSize /\ ref[p] = {}
  BY Places DEF JournalExists, Each, Knows, Holds, Checking
<1>3. Lives(p)' /\ Plays(p)' /\ Knows(p)'
  BY <1>1, <1>2, KnowsNothing DEF JournalExists, Lives, Live, Plays, Open, ControlType
<1>4. Holds(p)' /\ Reads(p)'
  BY <1>2 DEF JournalExists, Each, Holds, Cached, Owns, Reads, Reading, Checking, ControlType
<1>5. Found(p)'
  BY <1>2 DEF JournalExists, Found, Checking, Clean, ControlType
<1>6. QED
  BY <1>1, <1>3, <1>4, <1>5, LocalStep DEF Each

\* Who has RESERVED has found out already.
LEMMA CheckReservedSound ==
  ASSUME Inv, NEW p \in Proc, CheckReserved(p), UNCHANGED setup PROVE Sound'
<1> USE DEF Inv, Sound, LInv, IInv, Types
<1>1. /\ UNCHANGED <<files, names, journals, nextTxn>>
      /\ \A q \in Proc \ {p} : Own(q)' = Own(q) /\ (q \in reserved' => q \in reserved)
  BY DEF CheckReserved, Own, ControlType
<1>2. ~Open(p) /\ task[p] = "none" /\ st[p] = "shared" /\ dbSize[p] = NoSize /\ ref[p] = {}
  BY Places DEF CheckReserved, Each, Knows, Holds, Checking
<1>3. Lives(p)' /\ Plays(p)' /\ Knows(p)'
  BY <1>1, <1>2, KnowsNothing DEF CheckReserved, Lives, Live, Plays, Open, ControlType
<1>4. Holds(p)' /\ Reads(p)'
  BY <1>2 DEF CheckReserved, Each, Holds, Cached, Owns, Reads, Reading, Checking, ControlType
<1>5. Found(p)'
  <2>1. CASE reserved = {}
    BY <2>1 DEF CheckReserved, Found, Checking, ControlType
  <2>2. CASE reserved # {}
    <3>1. PICK q \in Proc : q \in reserved
      BY <2>2 DEF Lock!TypeOK
    <3>2. Owns(q) /\ q # p
      BY <3>1, <1>2 DEF Each, Holds, Owns
    <3>3. st[q] = "reserved"
      BY <3>2, <1>2, Apart DEF Owns
    <3>4. ~Checking(q)
      BY <3>3, Places
    <3>5. Clean
      BY <3>3, <3>4 DEF Each, Found
    <3>6. QED
      BY <3>5, <1>1, SharedSame DEF Found
  <2>3. QED
    BY <2>1, <2>2
<1>6. QED
  BY <1>1, <1>3, <1>4, <1>5, LocalStep DEF Each

LEMMA JournalIsHotSound ==
  ASSUME Inv, NEW p \in Proc, JournalIsHot(p), UNCHANGED setup PROVE Sound'
<1> USE DEF Inv, Sound, LInv, IInv, Types
<1>1. /\ UNCHANGED <<files, names, journals, nextTxn>>
      /\ \A q \in Proc \ {p} : Own(q)' = Own(q) /\ (q \in reserved' => q \in reserved)
  BY DEF JournalIsHot, Counted, Own, ControlType, PagersType
<1>2. ~Open(p) /\ task[p] = "none" /\ st[p] = "shared" /\ ref[p] = {}
  BY Places DEF JournalIsHot, Each, Holds, Checking
<1>3. dbSize'[p] = PageCount(p) /\ Sized(db, PageCount(p)) /\ PageCount(p) # NoSize
  BY <1>2, KnowsSized, PageCountType DEF JournalIsHot, Counted, PagersType, NoSize
<1>4. pc'[p] = "lock" /\ task'[p] = "hot" /\ UNCHANGED <<db, st>>
  BY DEF JournalIsHot, ControlType
<1>5. Lives(p)' /\ Plays(p)' /\ Knows(p)'
  BY <1>1, <1>2, <1>3, <1>4, KnowsFile DEF JournalIsHot, Lives, Live, Plays, Open
<1>6. Holds(p)' /\ Reads(p)' /\ Found(p)'
  BY <1>2, <1>4 DEF JournalIsHot, Each, Holds, Cached, Owns, Reads, Reading, Found, Checking
<1>7. QED
  BY <1>1, <1>5, <1>6, LocalStep DEF Each

LEMMA OpenHotJournalSound ==
  ASSUME Inv, NEW p \in Proc, OpenHotJournal(p), UNCHANGED setup PROVE Sound'
<1> USE DEF Inv, Sound, LInv, IInv, Types
<1>1. /\ UNCHANGED <<files, names, journals, nextTxn>>
      /\ \A q \in Proc \ {p} : Own(q)' = Own(q) /\ (q \in reserved' => q \in reserved)
  BY DEF OpenHotJournal, Own, ControlType, FlagsType
<1>2. ~Open(p) /\ task[p] = "hot" /\ st[p] = "exclusive" /\ ref[p] = {} /\ needSync[p] = {}
  BY Places DEF OpenHotJournal, Each, Holds, Checking, Place
<1>3. dbSize[p] # NoSize /\ Sized(db, dbSize[p])
  BY <1>2 DEF OpenHotJournal, Each, Knows
<1>4. pc'[p] = "truncate" /\ jfd'[p] # NoJournal /\ UNCHANGED <<db, st, task, ref, needSync, dbSize>>
  BY DEF OpenHotJournal, ControlType, FlagsType
<1>5. Lives(p)' /\ Plays(p)' /\ Knows(p)'
  BY <1>2, <1>3, <1>4 DEF Lives, Live, Plays, Knows, Open
<1>6. Holds(p)' /\ Reads(p)' /\ Found(p)'
  BY <1>2, <1>4 DEF OpenHotJournal, Each, Holds, Cached, Owns, Reads, Reading, Found, Checking, Open
<1>7. QED
  BY <1>1, <1>5, <1>6, LocalStep DEF Each

LEMMA NoHotJournalSound ==
  ASSUME Inv, NEW p \in Proc, NoHotJournal(p), UNCHANGED setup PROVE Sound'
<1> USE DEF Inv, Sound, LInv, IInv, Types
<1>1. /\ UNCHANGED <<files, names, journals, nextTxn>>
      /\ \A q \in Proc \ {p} : Own(q)' = Own(q) /\ (q \in reserved' => q \in reserved)
  BY DEF NoHotJournal, BusyForHot, GiveUp, ForgetSize, Lock!Release, Own, ControlType, PagersType
<1>2. ~Open(p) /\ ref[p] = {}
  BY Places DEF NoHotJournal, Each, Holds, Checking
<1>3. /\ pc'[p] = "idle" /\ task'[p] = "none" /\ st'[p] = "unlock" /\ dbSize'[p] = NoSize
      /\ p \notin reserved' /\ UNCHANGED <<jfd, ref, cache, needSync, want>>
  BY DEF NoHotJournal, BusyForHot, GiveUp, ForgetSize, Lock!Release, ControlType, PagersType,
         Ordinary
<1>4. Lives(p)' /\ Plays(p)' /\ Knows(p)'
  BY <1>2, <1>3, KnowsNothing DEF Lives, Live, Plays, Open
<1>5. Holds(p)' /\ Reads(p)' /\ Found(p)'
  BY <1>2, <1>3 DEF Each, Holds, Cached, Owns, Reads, Reading, Found, Checking
<1>6. QED
  BY <1>1, <1>4, <1>5, LocalStep DEF Each

\* Page 1 is read when the file has the database in it.
LEMMA GetFirstSound ==
  ASSUME Inv, NEW p \in Proc, GetFirst(p), UNCHANGED setup PROVE Sound'
<1> USE SetupType DEF Inv, Sound, LInv, IInv, Types
<1>1. /\ UNCHANGED <<files, names, journals, nextTxn>>
      /\ \A q \in Proc \ {p} : Own(q)' = Own(q) /\ (q \in reserved' => q \in reserved)
  BY DEF GetFirst, Counted, Own, ControlType, PagersType, PagesType
<1>2. ~Open(p) /\ st[p] = "shared" /\ ref[p] = {} /\ Cached(p) = {} /\ task[p] = "none"
  BY Places DEF GetFirst, Each, Holds
<1>3. Sized(db, PageCount(p)) /\ Covers(PageCount(p)) /\ PageCount(p) # NoSize
  BY <1>2, KnowsSized, PageCountType, SizedCovers DEF GetFirst, NoSize
<1>4. FromFile(p, 1) = db[1]
  BY <1>2, <1>3, CoversRead DEF PageCount
<1>5. /\ pc'[p] = "idle" /\ task'[p] = "none" /\ dbSize'[p] = PageCount(p) /\ ref'[p] = {1}
      /\ UNCHANGED <<db, st, level, reserved, jfd, needSync, want>>
  BY <1>2 DEF GetFirst, Counted, ControlType, PagersType, PagesType
<1>6. Cached(p)' = {1} /\ cache'[p][1] = db[1]
  <2>1. \A h \in Page : cache[p][h] = NotCached
    BY <1>2 DEF Cached
  <2>2. db[1] # NotCached
    BY DEF FilesType, Content, NotCached
  <2>3. cache'[p] = [cache[p] EXCEPT ![1] = db[1]]
    BY <1>4 DEF GetFirst, Fetched, PagesType
  <2>4. QED
    BY <2>1, <2>2, <2>3 DEF Cached, PagesType
<1>7. Lives(p)' /\ Plays(p)' /\ Knows(p)'
  BY <1>2, <1>3, <1>5, KnowsFile DEF Lives, Live, Plays, Open
<1>8. Reads(p)'
  BY <1>1, <1>3, <1>5, <1>6, SharedSame DEF Reads
<1>9. Holds(p)'
  BY <1>2, <1>5, <1>6 DEF GetFirst, Each, Holds, Owns, Checking
<1>10. Found(p)'
  BY <1>1, <1>2, <1>5, SharedSame DEF GetFirst, Each, Found, Checking
<1>11. QED
  BY <1>1, <1>7, <1>8, <1>9, <1>10, LocalStep DEF Each

\* What is read into the cache is what the file has.
LEMMA FetchedIsFile ==
  ASSUME Types, NEW p \in Proc, NEW g \in Page, dbSize[p] # NoSize => Covers(dbSize[p]),
         NEW c \in [Page -> Content \cup {NotCached}]
  PROVE  /\ Fetched(p, g, c) = [c EXCEPT ![g] = db[g]]
         /\ db[g] # NotCached
<1>1. FromFile(p, g) = db[g]
  BY CoversRead
<1>2. db[g] # NotCached
  BY SetupType DEF Types, FilesType, Content, NotCached
<1>3. QED
  BY <1>1, <1>2 DEF Fetched

LEMMA GetSound ==
  ASSUME Inv, NEW p \in Proc, NEW g \in Page, Get(p, g), UNCHANGED setup PROVE Sound'
<1> USE SetupType DEF Inv, Sound, LInv, IInv, Types
<1>1. /\ UNCHANGED <<files, names, journals, nextTxn>>
      /\ \A q \in Proc \ {p} : Own(q)' = Own(q) /\ (q \in reserved' => q \in reserved)
  BY DEF Get, Counted, Own, PagersType, PagesType
<1>2. /\ pc[p] = "idle" /\ task[p] = "none" /\ ref[p] # {} /\ Reading(p) /\ st[p] # "unlock"
      /\ g \in 1 .. setup.pages
  BY Places DEF Get, Calls, Reading, Each, Holds, Page
<1>3. dbSize[p] # NoSize => Covers(dbSize[p])
  BY <1>2 DEF Each, Reads
<1>4. Covers(PageCount(p)) /\ PageCount(p) # NoSize
  BY <1>2, <1>3, CoversRead, PageCountType DEF NoSize
<1>5. /\ pc'[p] = "idle" /\ task'[p] = "none" /\ ref'[p] = ref[p] \cup {g}
      /\ dbSize'[p] \in {dbSize[p], PageCount(p)}
      /\ OwnFlags(p)' = OwnFlags(p) /\ UNCHANGED <<db, st, locks, want>>
  BY <1>2 DEF Get, Counted, ControlType, PagersType, PagesType, OwnFlags
<1>6. cache'[p] = cache[p] \/ cache'[p] = [cache[p] EXCEPT ![g] = db[g]]
  BY <1>3, FetchedIsFile DEF Get, PagesType
<1>7. Cached(p)' \subseteq 1 .. setup.pages /\ \A h \in Cached(p)' \ dirty[p] : cache'[p][h] = db[h]
  BY <1>2, <1>6 DEF Cached, PagesType, Each, Reads, Holds
<1>8. Lives(p)'
  <2>1. Live(p)' => Live(p) /\ dbSize'[p] = dbSize[p]
    BY <1>2, <1>5 DEF Live, Open, OwnFlags, Each, Lives, Changing, PageCount
  <2>2. QED
    BY <2>1, <1>1, <1>2, <1>5, LivesSame DEF Each, Ending
<1>9. Plays(p)'
  BY <1>1, <1>5, PlaysSame DEF Each, OwnFlags
<1>10. Knows(p)'
  <2>1. CASE Open(p)
    BY <2>1, <1>5 DEF Knows, Open, OwnFlags
  <2>2. CASE ~Open(p)
    BY <2>2, <1>2, <1>5, KnowsSized, KnowsFile DEF PageCount
  <2>3. QED
    BY <2>1, <2>2
<1>11. Holds(p)' /\ Reads(p)'
  BY <1>2, <1>3, <1>4, <1>5, <1>7 DEF Each, Holds, Owns, Checking, Reads, Reading, OwnFlags, Covers
<1>12. Found(p)'
  BY <1>1, <1>2, <1>5, SharedSame DEF Each, Found, Checking, Open, OwnFlags
<1>13. QED
  BY <1>1, <1>8, <1>9, <1>10, <1>11, <1>12, LocalStep DEF Each

LEMMA GetFullSound ==
  ASSUME Inv, NEW p \in Proc, NEW g \in Page, GetFull(p, g), UNCHANGED setup PROVE Sound'
<1> USE DEF Inv, Sound, LInv, IInv, Types
<1>1. /\ UNCHANGED <<files, names, journals, nextTxn>>
      /\ \A q \in Proc \ {p} : Own(q)' = Own(q) /\ (q \in reserved' => q \in reserved)
  BY DEF GetFull, Own, RestType, ControlType
<1>2. /\ pc[p] = "idle" /\ task[p] = "none" /\ ref[p] # {} /\ Reading(p) /\ st[p] # "unlock"
  BY Places DEF GetFull, Calls, Reading, Each, Holds
<1>3. /\ pc'[p] \in {"syncData", "writeCount", "recycle"} /\ task'[p] = "recycle"
      /\ want'[p] = g /\ g <= setup.pages
      /\ OwnFlags(p)' = OwnFlags(p) /\ UNCHANGED <<db, st, locks, ref, cache, dirty, dbSize>>
  BY DEF GetFull, Syncing, ControlType, RestType, OwnFlags
<1>4. Lives(p)'
  BY <1>1, <1>2, <1>3, LivesSame DEF Each, Ending, Live, Open, OwnFlags
<1>5. Plays(p)'
  BY <1>1, <1>3, PlaysSame DEF Each, OwnFlags
<1>6. Knows(p)'
  BY <1>2, <1>3 DEF Each, Knows, Open, OwnFlags, Sized
<1>7. Holds(p)' /\ Reads(p)'
  BY <1>2, <1>3 DEF Each, Holds, Cached, Owns, Checking, Reads, Reading, Covers
<1>8. Found(p)'
  BY <1>1, <1>2, <1>3, SharedSame DEF Each, Found, Checking, Open, OwnFlags
<1>9. QED
  BY <1>1, <1>4, <1>5, <1>6, <1>7, <1>8, LocalStep DEF Each

LEMMA RecycleDirtySound ==
  ASSUME Inv, NEW p \in Proc, RecycleDirty(p), UNCHANGED setup PROVE Sound'
<1> USE DEF Inv, Sound, LInv, IInv, Types
<1>1. /\ UNCHANGED <<files, names, journals, nextTxn>>
      /\ \A q \in Proc \ {p} : Own(q)' = Own(q) /\ (q \in reserved' => q \in reserved)
  BY DEF RecycleDirty, Own, ControlType
<1>2. /\ pc[p] = "recycle" /\ task[p] = "recycle" /\ ref[p] # {} /\ st[p] # "unlock"
  BY DEF RecycleDirty, Place, Flags, Each, Holds
<1>3. /\ pc'[p] \in {"spill", "lock"} /\ task'[p] = "recycle"
      /\ OwnFlags(p)' = OwnFlags(p) /\ UNCHANGED <<db, st, locks, ref, cache, dirty, dbSize, want>>
  BY <1>2 DEF RecycleDirty, Locked, ControlType, OwnFlags
<1>4. Lives(p)'
  BY <1>1, <1>2, <1>3, LivesSame DEF Each, Ending, Live, Open, OwnFlags
<1>5. Plays(p)'
  BY <1>1, <1>3, PlaysSame DEF Each, OwnFlags
<1>6. Knows(p)'
  BY <1>2, <1>3 DEF Each, Knows, Open, OwnFlags, Sized
<1>7. Holds(p)' /\ Reads(p)'
  BY <1>2, <1>3 DEF Each, Holds, Cached, Owns, Checking, Reads, Reading, Covers
<1>8. Found(p)'
  BY <1>1, <1>2, <1>3, SharedSame DEF Each, Found, Checking, Open, OwnFlags
<1>9. QED
  BY <1>1, <1>4, <1>5, <1>6, <1>7, <1>8, LocalStep DEF Each

\* The last page goes with the cache and the lock.
LEMMA UnrefSound ==
  ASSUME Inv, NEW p \in Proc, NEW g \in Page, Unref(p, g), UNCHANGED setup PROVE Sound'
<1> USE DEF Inv, Sound, LInv, IInv, Types
<1>1. /\ UNCHANGED <<files, names, journals, nextTxn>>
      /\ \A q \in Proc \ {p} : Own(q)' = Own(q) /\ (q \in reserved' => q \in reserved)
  BY DEF Unref, GiveUp, LetGo, ForgetSize, EmptyCache, Lock!Release, Own, ControlType, PagersType, PagesType
<1>2. pc[p] \in {"idle", "failed"} /\ task[p] = "none" /\ g \in ref[p]
  BY Places DEF Unref
<1>3. OwnFlags(p)' = OwnFlags(p) /\ UNCHANGED <<db, task, dirty, want, jfd, needSync>>
      /\ ref'[p] = ref[p] \ {g}
  BY DEF Unref, OwnFlags, PagesType
<1>4. Plays(p)'
  BY <1>1, <1>2, <1>3, PlaysSame DEF Unref, Each, ControlType
<1>5. CASE g # 1
  <2>1. UNCHANGED <<st, level, reserved, dbSize, cache, pc>> /\ ref'[p] # {} /\ ref[p] # {}
    BY <1>2, <1>3, <1>5 DEF Unref, Flags
  <2>2. Lives(p)'
    BY <1>1, <1>2, <1>3, <2>1, LivesSame DEF Each, Ending, Live, Open, OwnFlags
  <2>3. Knows(p)'
    BY <1>2, <1>3, <2>1 DEF Each, Knows, Open, OwnFlags, Sized
  <2>4. Holds(p)' /\ Reads(p)'
    BY <1>2, <1>3, <2>1 DEF Each, Holds, Cached, Owns, Checking, Reads, Reading, Covers
  <2>5. Found(p)'
    BY <1>1, <1>2, <1>3, <2>1, SharedSame DEF Each, Found, Checking, Open, OwnFlags
  <2>6. QED
    BY <1>1, <1>4, <2>2, <2>3, <2>4, <2>5, LocalStep DEF Each
<1>6. CASE g = 1
  <2>1. /\ ref'[p] = {} /\ ~Open(p) /\ dbSize'[p] = NoSize /\ cache'[p] = NoPages /\ pc'[p] = "idle"
    BY <1>2, <1>3, <1>6 DEF Unref, ForgetSize, EmptyCache, Open, PagersType, PagesType, ControlType
  <2>2. st'[p] = "unlock" /\ p \notin reserved'
    BY <1>6 DEF Unref, GiveUp, LetGo, Lock!Release, PagersType, Each, Holds, Owns
  <2>3. Lives(p)' /\ Knows(p)'
    BY <1>2, <1>3, <2>1, KnowsNothing DEF Lives, Live, Open
  <2>4. Holds(p)' /\ Reads(p)' /\ Found(p)'
    BY <1>2, <1>3, <2>1, <2>2 DEF Each, Holds, Cached, NoPages, Checking, Reads, Reading, Found
  <2>5. QED
    BY <1>1, <1>4, <2>3, <2>4, LocalStep DEF Each
<1>7. QED
  BY <1>5, <1>6

LEMMA BeginSound ==
  ASSUME Inv, NEW p \in Proc, NEW exFlag \in BOOLEAN, Begin(p, exFlag), UNCHANGED setup
  PROVE  Sound'
<1> USE DEF Inv, Sound, LInv, IInv, Types
<1>1. /\ UNCHANGED <<files, names, journals, nextTxn>>
      /\ \A q \in Proc \ {p} : Own(q)' = Own(q) /\ (q \in reserved' => q \in reserved)
  BY DEF Begin, Lock!GetReserved, Own, ControlType, PagersType
<1>2. /\ pc[p] = "idle" /\ task[p] = "none" /\ ref[p] # {} /\ Reading(p) /\ st[p] = "shared"
      /\ ~Open(p)
  BY Places DEF Begin, Calls, Reading, Owns
<1>3. /\ pc'[p] \in {"lock", "openJournal"} /\ task'[p] = "begin" /\ st'[p] = "reserved"
      /\ UNCHANGED <<db, ref, cache, dirty, dbSize, want, jfd, needSync>>
  BY DEF Begin, ControlType, PagersType
<1>4. Lives(p)' /\ Plays(p)'
  BY <1>1, <1>2, <1>3, PlaysSame DEF Each, Lives, Live, Open
<1>5. Knows(p)'
  BY <1>2, <1>3 DEF Each, Knows, Open, Sized
<1>6. Holds(p)' /\ Reads(p)'
  BY <1>2, <1>3 DEF Each, Holds, Cached, Owns, Checking, Reads, Reading, Covers
<1>7. Found(p)'
  BY <1>1, <1>2, <1>3, SharedSame DEF Each, Found, Checking, Open
<1>8. QED
  BY <1>1, <1>4, <1>5, <1>6, <1>7, LocalStep DEF Each

LEMMA BeginAgainSound ==
  ASSUME Inv, NEW p \in Proc, BeginAgain(p), UNCHANGED setup PROVE Sound'
<1> USE DEF Inv, Sound, LInv, IInv, Types
<1>1. /\ UNCHANGED <<files, names, journals, nextTxn>>
      /\ \A q \in Proc \ {p} : Own(q)' = Own(q) /\ (q \in reserved' => q \in reserved)
  BY DEF BeginAgain, Own, ControlType
<1>2. pc[p] = "idle" /\ task[p] = "none" /\ ref[p] # {} /\ Reading(p) /\ ~Open(p)
  BY Places DEF BeginAgain, Calls, Reading, Open
<1>3. /\ pc'[p] = "openJournal" /\ task'[p] = "begin" /\ st[p] # "unlock"
      /\ UNCHANGED <<db, ref, cache, dirty, dbSize, want, jfd, needSync, st, level, reserved>>
  BY <1>2 DEF BeginAgain, Calls, Kept, ControlType
<1>4. Lives(p)' /\ Plays(p)'
  BY <1>1, <1>2, <1>3, PlaysSame DEF Each, Lives, Live, Open
<1>5. Knows(p)'
  BY <1>2, <1>3 DEF Each, Knows, Open, Sized
<1>6. Holds(p)' /\ Reads(p)'
  BY <1>2, <1>3 DEF Each, Holds, Cached, Owns, Checking, Reads, Reading, Covers
<1>7. Found(p)'
  BY <1>1, <1>2, <1>3, SharedSame DEF Each, Found, Checking, Open
<1>8. QED
  BY <1>1, <1>4, <1>5, <1>6, <1>7, LocalStep DEF Each

LEMMA EndNoJournalSound ==
  ASSUME Inv, NEW p \in Proc, NEW call \in {"commit", "rollback"}, EndNoJournal(p, call),
         UNCHANGED setup
  PROVE  Sound'
<1> USE DEF Inv, Sound, LInv, IInv, Types
<1>1. /\ UNCHANGED <<files, names, journals, nextTxn>>
      /\ \A q \in Proc \ {p} : Own(q)' = Own(q) /\ (q \in reserved' => q \in reserved)
  BY DEF EndNoJournal, Own, ControlType
<1>2. pc[p] = "idle" /\ task[p] = "none" /\ ref[p] # {} /\ Reading(p) /\ ~Open(p)
  BY Places DEF EndNoJournal, Calls, Reading, Open
<1>3. /\ pc'[p] = "downgrade" /\ task'[p] = call /\ st[p] # "unlock"
      /\ UNCHANGED <<db, ref, cache, dirty, dbSize, want, jfd, needSync, st, level, reserved>>
  BY DEF EndNoJournal, ControlType
<1>4. Lives(p)' /\ Plays(p)' /\ Knows(p)'
  BY <1>1, <1>2, <1>3, PlaysSame DEF Each, Lives, Live, Open, Knows
<1>5. Holds(p)' /\ Reads(p)'
  BY <1>2, <1>3 DEF Each, Holds, Cached, Owns, Checking, Reads, Reading, Covers
<1>6. Found(p)'
  BY <1>1, <1>2, <1>3, SharedSame DEF Each, Found, Checking, Open
<1>7. QED
  BY <1>1, <1>4, <1>5, <1>6, LocalStep DEF Each

LEMMA CannotOpenJournalSound ==
  ASSUME Inv, NEW p \in Proc, CannotOpenJournal(p), UNCHANGED setup PROVE Sound'
<1> USE DEF Inv, Sound, LInv, IInv, Types
<1>1. /\ UNCHANGED <<files, names, journals, nextTxn>>
      /\ \A q \in Proc \ {p} : Own(q)' = Own(q) /\ (q \in reserved' => q \in reserved)
  BY DEF CannotOpenJournal, GiveUp, LetGo, Counted, Lock!Release, Own, ControlType, PagersType
<1>0. st[p] # "unlock" /\ ref[p] # {}
  BY DEF CannotOpenJournal, Place, Flags, Kept
<1>2. ~Open(p)
  BY DEF CannotOpenJournal, Place
<1>3. /\ pc'[p] = "failed" /\ task'[p] = "none" /\ st'[p] = "unlock" /\ p \notin reserved'
      /\ UNCHANGED <<ref, cache, want, jfd, needSync>>
  BY <1>2, <1>0 DEF CannotOpenJournal, GiveUp, LetGo, Lock!Release, Ordinary, ControlType, PagersType
<1>4. Lives(p)' /\ Plays(p)' /\ Knows(p)'
  BY <1>1, <1>2, <1>3, PlaysSame DEF Each, Lives, Live, Open, Knows
<1>5. Holds(p)' /\ Reads(p)' /\ Found(p)'
  BY <1>2, <1>3 DEF Each, Holds, Cached, Checking, Reads, Reading, Found
<1>6. QED
  BY <1>1, <1>4, <1>5, LocalStep DEF Each

\* Only the levels of the locks change.
LEMMA LockPendingSound ==
  ASSUME Inv, NEW p \in Proc, LockPending(p), UNCHANGED setup PROVE Sound'
<1>1. UNCHANGED <<files, names, journals, nextTxn, reserved>> /\ \A q \in Proc : Own(q)' = Own(q)
  BY DEF LockPending, Lock!GetPending, Own
<1>2. Each(p)'
  BY <1>1, OthersSame DEF Inv, Sound
<1>3. QED
  BY <1>1, <1>2, LocalStep

LEMMA LockExclusiveSound ==
  ASSUME Inv, NEW p \in Proc, LockExclusive(p), UNCHANGED setup PROVE Sound'
<1> USE DEF Inv, Sound, LInv, IInv, Types
<1>1. /\ UNCHANGED <<files, names, journals, nextTxn>>
      /\ \A q \in Proc \ {p} : Own(q)' = Own(q) /\ (q \in reserved' => q \in reserved)
  BY DEF LockExclusive, Lock!GetExclusive, Own, ControlType, PagersType
<1>2. \/ task[p] = "hot" /\ ~Open(p) /\ pc'[p] = "openHot"
      \/ task[p] = "begin" /\ ~Open(p) /\ st[p] = "reserved" /\ pc'[p] = "openJournal"
      \/ task[p] = "recycle" /\ Open(p) /\ pc'[p] = "spill"
      \/ task[p] = "commit" /\ Open(p) /\ pc'[p] = "store"
  <2>1. pc[p] = "lock" /\ task[p] \in {"hot", "begin", "recycle", "commit"}
        /\ (Open(p) <=> task[p] \in {"recycle", "commit"}) /\ (task[p] = "begin" => st[p] = "reserved")
    BY DEF LockExclusive, Place, Kept
  <2>2. QED
    BY <2>1 DEF LockExclusive, ControlType
<1>3. /\ st'[p] = "exclusive" /\ pc[p] = "lock" /\ OwnFlags(p)' = OwnFlags(p)
      /\ UNCHANGED <<db, task, ref, cache, dirty, want, jfd, needSync, dbSize>>
  BY DEF LockExclusive, Lock!GetExclusive, PagersType, OwnFlags
<1>4. Lives(p)'
  BY <1>1, <1>2, <1>3, LivesSame DEF LockExclusive, Each, Ending, Live, Open
<1>5. Plays(p)'
  BY <1>1, <1>2, <1>3, PlaysSame DEF LockExclusive, Each
<1>6. Knows(p)'
  BY <1>2, <1>3 DEF LockExclusive, Each, Knows, Open, Sized
<1>7. Holds(p)' /\ Reads(p)'
  BY <1>2, <1>3 DEF LockExclusive, Lock!GetExclusive, Each, Holds, Cached, Owns, Checking, Reads,
                    Reading, Covers
<1>8. Found(p)'
  BY <1>1, <1>2, <1>3, SharedSame DEF LockExclusive, Each, Found, Checking, Open
<1>9. QED
  BY <1>1, <1>4, <1>5, <1>6, <1>7, <1>8, LocalStep DEF Each

\* A process that is alone with the file is not refused the lock.
LEMMA NotDenied ==
  ASSUME Inv, NEW p \in Proc, Place(p), pc[p] = "lock", Single(setup)
  PROVE  ~Denied(p)
<1> USE DEF Inv, Sound, LInv, IInv, Types
<1>1. st[p] \in {"shared", "reserved"}
  BY DEF Place, Kept
<1>2. p \in setup.users
  BY <1>1 DEF Each, Holds
<1>3. \A q \in Proc \ {p} : q \notin setup.users
  BY <1>2 DEF Single
<1>4. \A q \in Proc \ {p} : level[q] = Lock!NO_LOCK
  BY <1>3 DEF Each, Holds, Levels
<1>5. level[p] # Lock!EXCLUSIVE_LOCK
  BY <1>1 DEF Levels
<1>6. level[p] \in 0 .. 4
  BY DEF Lock!TypeOK, Lock!LockType
<1>7. QED
  BY <1>4, <1>5, <1>6 DEF Denied, Lock!Alone

\* After a refusal the transaction goes on; who found a hot journal gives up.
LEMMA LockBusySound ==
  ASSUME Inv, NEW p \in Proc, LockBusy(p), UNCHANGED setup PROVE Sound'
<1> USE DEF Inv, Sound, LInv, IInv, Types
<1>1. /\ UNCHANGED <<files, names, journals, nextTxn>>
      /\ \A q \in Proc \ {p} : Own(q)' = Own(q) /\ (q \in reserved' => q \in reserved)
  BY DEF LockBusy, BusyForHot, GiveUp, ForgetSize, Lock!Release, Own, ControlType, PagersType
<1>2. /\ pc[p] = "lock" /\ ~Single(setup)
      /\ task'[p] = "none" /\ OwnFlags(p)' = OwnFlags(p)
      /\ UNCHANGED <<db, ref, cache, dirty, want, jfd, needSync>>
  BY NotDenied DEF LockBusy, ControlType, OwnFlags
<1>3. CASE task[p] = "hot"
  <2>1. /\ pc'[p] = "idle" /\ st'[p] = "unlock" /\ dbSize'[p] = NoSize /\ p \notin reserved'
        /\ ~Open(p) /\ ref[p] = {}
    BY <1>2, <1>3 DEF LockBusy, BusyForHot, GiveUp, ForgetSize, Lock!Release, Ordinary, Place,
                      ControlType, PagersType, Each, Holds
  <2>2. Lives(p)' /\ Plays(p)' /\ Knows(p)'
    BY <1>2, <2>1, KnowsNothing DEF Lives, Live, Plays, Open
  <2>3. Holds(p)' /\ Reads(p)' /\ Found(p)'
    BY <1>2, <2>1 DEF Each, Holds, Cached, Owns, Reads, Reading, Found, Checking
  <2>4. QED
    BY <1>1, <2>2, <2>3, LocalStep DEF Each
<1>4. CASE task[p] # "hot"
  <2>1. /\ UNCHANGED <<st, level, reserved, dbSize>> /\ st[p] = "reserved"
        /\ pc'[p] = IF task[p] = "begin" THEN "failed" ELSE "idle"
        /\ task[p] \in {"begin", "recycle", "commit"} /\ (task[p] = "begin" => ~Open(p))
        /\ task[p] # "begin" => Open(p)
    BY <1>2, <1>4 DEF LockBusy, AfterError, Ordinary, Place, Kept, ControlType
  <2>2. Lives(p)'
    BY <1>1, <1>2, <1>4, <2>1, LivesSame DEF Each, Ending, Live, Open
  <2>3. Plays(p)'
    BY <1>1, <1>2, <2>1, PlaysSame DEF Each
  <2>4. Knows(p)'
    BY <1>2, <2>1 DEF Each, Knows, Open
  <2>5. Holds(p)' /\ Reads(p)'
    BY <1>2, <1>4, <2>1 DEF Each, Holds, Cached, Owns, Checking, Reads, Reading, Covers, Place
  <2>6. Found(p)'
    BY <1>1, <1>2, <1>4, <2>1, SharedSame DEF Each, Found, Checking
  <2>7. QED
    BY <1>1, <2>2, <2>3, <2>4, <2>5, <2>6, LocalStep DEF Each
<1>5. QED
  BY <1>3, <1>4

\* A transaction of which the file shows nothing.
LEMMA NothingDiffers ==
  ASSUME Inv, NEW p \in Proc, Writing(p), st[p] = "reserved" \/ ~dirtyCache[p]
  PROVE  \A g \in Page : ~Differs(jfd[p], g)
<1> USE DEF Inv, Sound
<1>1. Open(p) /\ linked = jfd[p] /\ task[p] = "none" /\ pc[p] = "idle"
  BY Places DEF Writing, Calls, Open, NeverEmpty, Named
<1>2. CASE st[p] = "reserved"
  BY <1>1, <1>2 DEF Each, Found, Checking, Clean, Open
<1>3. CASE ~dirtyCache[p]
  BY <1>1, <1>3 DEF Each, Lives, Live, Changing
<1>4. QED
  BY <1>2, <1>3

LEMMA CommitNothingSound ==
  ASSUME Inv, NEW p \in Proc, CommitNothing(p), UNCHANGED setup PROVE Sound'
<1> USE DEF Inv, Sound, LInv, IInv, Types
<1>1. /\ UNCHANGED <<files, names, journals, nextTxn>>
      /\ \A q \in Proc \ {p} : Own(q)' = Own(q) /\ (q \in reserved' => q \in reserved)
  BY DEF CommitNothing, Own, ControlType
<1>2. /\ pc[p] = "idle" /\ task[p] = "none" /\ ref[p] # {} /\ Reading(p) /\ Open(p) /\ Live(p)
      /\ dirty[p] = {} /\ needSync[p] = {} /\ ~dirtyCache[p]
  BY Places DEF CommitNothing, Writing, Calls, Reading, Open, Live, Flags
<1>3. /\ pc'[p] = "delete" /\ task'[p] = "commit" /\ OwnFlags(p)' = OwnFlags(p)
      /\ UNCHANGED <<db, ref, cache, dirty, dbSize, want, jfd, needSync, st, level, reserved>>
  BY DEF CommitNothing, ControlType, OwnFlags
<1>4. Lives(p)'
  <2> USE SharedSame DEF OwnFlags
  <2>1. Journaled(p) /\ Synced(p) /\ Changing(p)
    BY <1>2 DEF Each, Lives
  <2>2. Journaled(p)'
    BY <1>1, <1>3, <2>1 DEF Journaled
  <2>3. Synced(p)'
    BY <1>1, <1>2, <1>3, <2>1 DEF Synced
  <2>4. Changing(p)'
    BY <1>1, <1>2, <1>3, <2>1 DEF Changing
  <2>5. QED
    BY <1>3, <2>2, <2>3, <2>4 DEF Lives, Ending
<1>5. Plays(p)' /\ Knows(p)'
  BY <1>1, <1>2, <1>3, PlaysSame DEF Each, Knows, Open
<1>6. Holds(p)' /\ Reads(p)'
  BY <1>2, <1>3 DEF Each, Holds, Cached, Owns, Checking, Reads, Reading, Covers
<1>7. Found(p)'
  BY <1>1, <1>2, <1>3, SharedSame DEF Each, Found, Checking, Open
<1>8. QED
  BY <1>1, <1>4, <1>5, <1>6, <1>7, LocalStep DEF Each

LEMMA RollbackCacheSound ==
  ASSUME Inv, NEW p \in Proc, RollbackCache(p), UNCHANGED setup PROVE Sound'
<1> USE DEF Inv, Sound, LInv, IInv, Types
<1>1. /\ UNCHANGED <<files, names, journals, nextTxn>>
      /\ \A q \in Proc \ {p} : Own(q)' = Own(q) /\ (q \in reserved' => q \in reserved)
  BY DEF RollbackCache, Own, ControlType, PagesType
<1>2. pc[p] = "idle" /\ ref[p] # {} /\ Open(p) /\ st[p] # "unlock"
  BY DEF RollbackCache, Writing, Calls, Open
<1>3. /\ pc'[p] = "delete" /\ task'[p] = "rollback"
      /\ UNCHANGED <<db, ref, want, jfd, needSync, st, level, reserved>>
  BY DEF RollbackCache, ControlType
<1>4. Cached(p)' \subseteq Cached(p)
  BY DEF RollbackCache, Cached, PagesType, Flags
<1>5. \A g \in Page : ~Differs(jfd[p], g)
  BY NothingDiffers DEF RollbackCache
<1>6. Lives(p)' /\ Plays(p)' /\ Knows(p)'
  BY <1>1, <1>2, <1>3, <1>5, SharedSame DEF Each, Lives, Live, Plays, Knows, Open
<1>7. Holds(p)' /\ Reads(p)'
  BY <1>2, <1>3, <1>4 DEF Each, Holds, Owns, Checking, Reads, Reading
<1>8. Found(p)'
  BY <1>1, <1>2, <1>3, SharedSame DEF Each, Found, Checking, Open
<1>9. QED
  BY <1>1, <1>6, <1>7, <1>8, LocalStep DEF Each

LEMMA RollbackFileSound ==
  ASSUME Inv, NEW p \in Proc, RollbackFile(p), UNCHANGED setup PROVE Sound'
<1> USE DEF Inv, Sound, LInv, IInv, Types
<1>1. /\ UNCHANGED <<files, names, journals, nextTxn>>
      /\ \A q \in Proc \ {p} : Own(q)' = Own(q) /\ (q \in reserved' => q \in reserved)
  BY DEF RollbackFile, Own, ControlType
<1>2. pc[p] = "idle" /\ ref[p] # {} /\ Open(p) /\ st[p] = "exclusive"
  BY DEF RollbackFile, Writing, Calls, Open
<1>3. /\ pc'[p] = "truncate" /\ task'[p] = "rollback"
      /\ UNCHANGED <<db, ref, cache, want, jfd, needSync, st, level, reserved>>
  BY DEF RollbackFile, ControlType
<1>4. Lives(p)' /\ Plays(p)' /\ Knows(p)'
  BY <1>1, <1>2, <1>3, PlaysSame DEF Each, Lives, Live, Knows, Open
<1>5. Holds(p)' /\ Reads(p)' /\ Found(p)'
  BY <1>2, <1>3 DEF Each, Holds, Cached, Owns, Checking, Reads, Reading, Found, Open
<1>6. QED
  BY <1>1, <1>4, <1>5, LocalStep DEF Each

LEMMA DowngradeSound ==
  ASSUME Inv, NEW p \in Proc, Downgrade(p), UNCHANGED setup PROVE Sound'
<1> USE DEF Inv, Sound, LInv, IInv, Types
<1>1. /\ UNCHANGED <<files, names, journals, nextTxn>>
      /\ \A q \in Proc \ {p} : Own(q)' = Own(q) /\ (q \in reserved' => q \in reserved)
  BY DEF Downgrade, ForgetSize, Lock!Release, Own, ControlType, PagersType
<1>2. pc[p] = "downgrade" /\ task[p] \in {"hot", "commit", "rollback"} /\ st[p] # "unlock" /\ ~Open(p)
  BY DEF Downgrade, Place, Owns
<1>3. Clean
  BY <1>2 DEF Each, Found, Checking
<1>4. /\ st'[p] = "shared" /\ task'[p] = "none" /\ p \notin reserved'
      /\ UNCHANGED <<db, ref, cache, dirty, want, jfd, needSync>>
      /\ task[p] = "hot" => pc'[p] = "first" /\ dbSize'[p] = dbSize[p]
      /\ task[p] = "commit" => pc'[p] = "idle" /\ dbSize'[p] = NoSize
      /\ task[p] = "rollback" => pc'[p] = "failed" /\ dbSize'[p] = NoSize
  BY <1>2 DEF Downgrade, ForgetSize, Lock!Release, AfterError, Ordinary, ControlType, PagersType
<1>5. Lives(p)' /\ Plays(p)'
  BY <1>1, <1>2, <1>4, PlaysSame DEF Each, Lives, Live, Open
<1>6. Knows(p)'
  BY <1>2, <1>4 DEF Each, Knows, Open, Sized
<1>7. Holds(p)' /\ Reads(p)'
  BY <1>2, <1>4 DEF Each, Holds, Cached, Checking, Reads, Reading, Covers
<1>8. Found(p)'
  BY <1>1, <1>3, SharedSame DEF Found
<1>9. QED
  BY <1>1, <1>5, <1>6, <1>7, <1>8, LocalStep DEF Each

\* A process that died has nothing.
LEMMA CrashSound ==
  ASSUME Inv, NEW p \in Proc, Crash(p), UNCHANGED setup PROVE Sound'
<1> USE SetupType DEF Inv, Sound, LInv, IInv, Types
<1>1. UNCHANGED <<files, names, journals, nextTxn>>
  BY DEF Crash
<1>2. \A q \in Proc \ {p} : Own(q)' = Own(q) /\ (q \in reserved' => q \in reserved)
  BY DEF Crash, Forget, Lock!Die, Own
<1>3. /\ st'[p] = "unlock" /\ pc'[p] = "idle" /\ task'[p] = "none" /\ ref'[p] = {}
      /\ cache'[p] = NoPages /\ jfd'[p] = NoJournal /\ dbSize'[p] = NoSize /\ want'[p] = 1
      /\ p \notin reserved'
  BY DEF Crash, Forget, Lock!Die
<1>4. Lives(p)' /\ Plays(p)' /\ Knows(p)'
  BY <1>3, KnowsNothing DEF Lives, Live, Plays, Open
<1>5. Holds(p)' /\ Reads(p)' /\ Found(p)'
  BY <1>1, <1>3 DEF Holds, Cached, NoPages, Checking, Reads, Reading, Found
<1>6. QED
  BY <1>1, <1>2, <1>4, <1>5, LocalStep DEF Each

-----------------------------------------------------------------------------
(* The slot of a page is used for another.                                 *)

\* The cache, and what it says, when page g makes room.  If g was written to
\* the file no other page of it changed.
LEMMA Replaced ==
  ASSUME Inv, NEW p \in Proc, NEW g \in Recyclable(p), Replace(p, g), pc[p] \in {"recycle", "spill"},
         dirty'[p] = dirty[p] \ {g},
         UNCHANGED <<setup, st, needSync, dirtyCache, started, jfd, dirfd, linked, locks>>,
         \A h \in Page \ {g} : db'[h] = db[h],
         db'[g] = db[g] \/ (dbSize[p] # NoSize /\ g <= dbSize[p]),
         ~Open(p) => db' = db
  PROVE  /\ (\A h \in needSync[p] : ~Differs(jfd[p], h)') => Plays(p)'
         /\ Knows(p)' /\ Holds(p)' /\ Reads(p)'
         /\ dbSize'[p] = PageCount(p) /\ pc'[p] = "idle" /\ task'[p] = "none"
         /\ inJournal'[p] = IF Open(p) /\ g <= jSize[jfd[p]] THEN inJournal[p] ELSE inJournal[p] \ {g}
         /\ g \in Page /\ g \notin needSync[p] /\ Reading(p)
<1> USE SetupType DEF Inv, Sound, LInv, IInv, Types
<1> DEFINE w == want[p]
<1>1. task[p] = "recycle" /\ ref[p] # {} /\ w \notin Cached(p) /\ Reading(p) /\ st[p] # "unlock"
  BY DEF Place, Flags, Reading, Each, Holds
<1>2. g \in Page /\ g \in Cached(p) /\ g \notin needSync[p] /\ w \in Page /\ w # g
  BY <1>1 DEF Recyclable, Free, Cached, RestType
<1>3. dbSize[p] # NoSize => Covers(dbSize[p])
  BY <1>1 DEF Each, Reads
<1>4. Covers(PageCount(p)) /\ PageCount(p) # NoSize
  BY <1>3, CoversRead, PageCountType DEF NoSize
<1>5. /\ dbSize'[p] = PageCount(p) /\ pc'[p] = "idle" /\ task'[p] = "none"
      /\ ref'[p] = ref[p] \cup {w} /\ want'[p] = 1
      /\ inJournal'[p] = IF Open(p) /\ g <= jSize[jfd[p]] THEN inJournal[p] ELSE inJournal[p] \ {g}
  BY <1>1 DEF Replace, Counted, PagersType, ControlType, PagesType, FlagsType, RestType, Open
<1>6. cache'[p] = [[cache[p] EXCEPT ![g] = NotCached] EXCEPT ![w] = db[w]] /\ db[w] # NotCached
  <2>1. FromFile(p, w) = db[w]
    BY <1>2, <1>3, CoversRead
  <2>2. db[w] # NotCached
    BY <1>2 DEF FilesType, Content, NotCached
  <2>3. QED
    BY <2>1, <2>2 DEF Replace, Fetched, PagesType
<1>7. Cached(p)' = (Cached(p) \ {g}) \cup {w}
  BY <1>2, <1>6 DEF Cached, PagesType
<1>8. \A h \in Cached(p)' \ dirty'[p] : cache'[p][h] = db'[h]
  <2>1. ASSUME NEW h \in Cached(p)' \ dirty'[p] PROVE cache'[p][h] = db'[h]
    <3>1. h \in Page /\ h # g /\ db'[h] = db[h]
      BY <1>2, <1>7 DEF Cached
    <3>2. CASE h = w
      BY <3>1, <3>2, <1>2, <1>6 DEF PagesType
    <3>3. CASE h # w
      <4>1. h \in Cached(p) \ dirty[p] /\ cache'[p][h] = cache[p][h]
        BY <3>1, <3>3, <1>2, <1>6, <1>7 DEF PagesType
      <4>2. QED
        BY <3>1, <4>1, <1>1 DEF Each, Reads
    <3>4. QED
      BY <3>2, <3>3
  <2>2. QED
    BY <2>1
<1>9. Covers(PageCount(p))'
  <2>1. ASSUME NEW h \in Page, db'[h] # 0 PROVE h <= PageCount(p)
    <3>1. CASE db'[h] = db[h]
      BY <2>1, <3>1, <1>4 DEF Covers
    <3>2. CASE db'[h] # db[h]
      <4>1. h = g
        BY <3>2
      <4>2. QED
        BY <3>2, <4>1 DEF PageCount
    <3>3. QED
      BY <3>1, <3>2
  <2>2. PageCount(p)' = PageCount(p)
    BY <1>4, <1>5 DEF PageCount
  <2>3. QED
    BY <2>1, <2>2 DEF Covers
<1>10. Covers(dbSize[p])'
  BY <1>9, <1>4, <1>5 DEF PageCount
<1>11. (\A h \in needSync[p] : ~Differs(jfd[p], h)') => Plays(p)'
  BY <1>5 DEF Plays, Open
<1>12. Knows(p)'
  <2>1. CASE Open(p)
    BY <2>1, <1>5 DEF Knows, Open
  <2>2. CASE ~Open(p)
    <3>1. Sized(db, PageCount(p))
      BY <2>2, <1>1, KnowsSized
    <3>2. QED
      BY <2>2, <3>1, <1>1, <1>5, KnowsFile
  <2>3. QED
    BY <2>1, <2>2
<1>13. Holds(p)'
  <2>1. Holds(p) /\ w <= setup.pages /\ w \in 1 .. setup.pages
    BY <1>2 DEF Each, Holds, Page
  <2>2. Cached(p)' \subseteq 1 .. setup.pages
    BY <2>1, <1>7 DEF Holds
  <2>3. QED
    BY <2>1, <2>2, <1>1, <1>5 DEF Holds, Owns, Checking
<1>14. Reads(p)'
  BY <1>8, <1>10 DEF Reads
<1>15. QED
  BY <1>1, <1>2, <1>5, <1>11, <1>12, <1>13, <1>14

LEMMA RecycleCleanSound ==
  ASSUME Inv, NEW p \in Proc, RecycleClean(p), UNCHANGED setup PROVE Sound'
<1> USE SetupType DEF Inv, Sound, LInv, IInv, Types
<1>1. PICK g \in Recyclable(p) \ dirty[p] : Replace(p, g)
  BY DEF RecycleClean
<1>2. /\ UNCHANGED <<files, names, journals, nextTxn>>
      /\ \A q \in Proc \ {p} : Own(q)' = Own(q) /\ (q \in reserved' => q \in reserved)
  BY <1>1 DEF RecycleClean, Replace, Counted, Own, ControlType, PagersType, PagesType, FlagsType,
              RestType
<1>3. /\ (\A h \in needSync[p] : ~Differs(jfd[p], h)') => Plays(p)'
      /\ Knows(p)' /\ Holds(p)' /\ Reads(p)'
      /\ dbSize'[p] = PageCount(p) /\ pc'[p] = "idle" /\ task'[p] = "none"
      /\ inJournal'[p] = IF Open(p) /\ g <= jSize[jfd[p]] THEN inJournal[p] ELSE inJournal[p] \ {g}
      /\ g \notin needSync[p]
  BY <1>1, <1>2, Replaced DEF RecycleClean
<1>4. Plays(p)'
  BY <1>2, <1>3, SharedSame DEF RecycleClean, Each, Plays, Open, Place
<1>5. Lives(p)'
  <2> SUFFICES ASSUME Live(p)' PROVE /\ Journaled(p)' /\ Synced(p)' /\ Changing(p)'
                                     /\ setup.fullSync /\ Single(setup) => Fresh(p)'
    BY <1>2, <1>3, SharedSame DEF Lives, Single
  <2>1. Live(p) /\ pc[p] = "recycle" /\ jfd[p] \in Txn
    BY <1>3, OpenType DEF RecycleClean, Live, Open, Place
  <2>2. Journaled(p) /\ Synced(p) /\ Changing(p) /\ (setup.fullSync /\ Single(setup) => Fresh(p))
    BY <2>1 DEF Each, Lives, Ending
  <2>3. UNCHANGED <<jfd, dirty, needSync, dirtyCache, started, dirfd>> /\ dbSize'[p] = dbSize[p]
    BY <1>3, <2>2 DEF RecycleClean, Changing, PageCount
  <2> USE SharedSame
  <2>4. Journaled(p)'
    <3>1. dirty[p] \subseteq inJournal'[p] /\ needSync[p] \subseteq inJournal'[p]
          /\ inJournal'[p] \subseteq inJournal[p]
      BY <1>1, <1>3, <2>2 DEF Journaled
    <3>2. \A h \in jRecs[jfd[p]] : h <= jSize[jfd[p]] => h \in inJournal'[p]
      BY <1>3, <2>1, <2>2 DEF Journaled, Live
    <3>3. QED
      BY <3>1, <3>2, <1>2, <1>3, <2>2, <2>3 DEF Journaled
  <2>5. Synced(p)'
    BY <1>2, <1>3, <2>1, <2>2, <2>3 DEF Synced
  <2>6. Changing(p)'
    BY <1>2, <1>3, <2>2, <2>3 DEF Changing
  <2>7. Fresh(p) => Fresh(p)'
    BY <1>2, <1>3, <2>2, <2>3 DEF Fresh
  <2>8. QED
    BY <2>2, <2>4, <2>5, <2>6, <2>7
<1>6. Found(p)'
  BY <1>2, <1>3, SharedSame DEF RecycleClean, Each, Found, Checking, Open
<1>7. QED
  BY <1>2, <1>3, <1>4, <1>5, <1>6, LocalStep DEF Each

-----------------------------------------------------------------------------
(* The steps of the process that has RESERVED, on the files.               *)

\* Such a step of p has to show what the invariant says of p and of the files.
LEMMA OwnedStep ==
  ASSUME Inv, NEW p \in Proc, Owns(p), UNCHANGED setup,
         \A q \in Proc \ {p} : Own(q)' = Own(q) /\ (q \in reserved' => q \in reserved),
         st[p] \in {"exclusive", "synced"} \/ (UNCHANGED db /\ (Clean => Clean')),
         Lasting', Each(p)'
  PROVE  Sound'
<1>1. ASSUME NEW q \in Proc \ {p} PROVE Each(q)'
  BY OthersOwned, Apart DEF Inv, Sound
<1>2. QED
  BY <1>1 DEF Sound

\* Durable records take part in a rollback.
LEMMA DurableRestored ==
  ASSUME Inv, NEW t \in Txn
  PROVE  Durable(t) \subseteq Restored(t) /\ Durable(t) \subseteq jRecs[t]
BY DEF Inv, Sound, Lasting, Recorded, Durable, Restored

\* What the file has instead of a record is guarded by the only name there is.
LEMMA DiffersGuarded ==
  ASSUME Inv, linked # NoJournal, NEW g \in Page, Differs(linked, g)
  PROVE  linkedDisk = {linked} /\ Guarded(linked) /\ g \in Touched(linked)
<1>1. linkedDisk = {linked}
  BY DEF Inv, Sound, Lasting, OnlyName
<1>2. QED
  BY <1>1 DEF Inv, Sound, Lasting, Names, Touched

\* The pages of W are written, of a transaction whose records are safe.
LEMMA FileStep ==
  ASSUME Inv, NEW W \in SUBSET Page, NEW t,
         UNCHANGED <<setup, undone, names, journals, nextTxn>>,
         \A g \in Page \ W : db'[g] = db[g] /\ disk'[g] = disk[g],
         W # {} => /\ t = linked /\ t # NoJournal /\ linkedDisk = {t}
                   /\ W \subseteq Durable(t) /\ Past(t) \subseteq Durable(t)
                   /\ Rewriting(t) => W \cap Untouchable(t) = {}
  PROVE  Lasting'
<1> USE DEF Inv, Sound, Lasting
<1>1. \A u : /\ Durable(u)' = Durable(u) /\ Past(u)' = Past(u) /\ Rewriting(u)' = Rewriting(u)
             /\ Untouchable(u)' = Untouchable(u)
  BY DEF Durable, Past, Rewriting, Untouchable, Single
<1>2. \A g \in Page \ W : Unsynced(g)' = Unsynced(g) /\ \A u : Differs(u, g)' = Differs(u, g)
  BY DEF Unsynced, Differs
<1>3. \A u : Touched(u)' \subseteq Touched(u) \cup W
  BY <1>2 DEF Touched
<1>4. Names' = Names /\ Names \subseteq Txn
  BY DEF Names, LInv, IInv, Types, NamesType
<1>5. Recorded'
  BY DEF Recorded
<1>6. ASSUME NEW u \in Names PROVE Guarded(u)'
  <2>1. Guarded(u)
    OBVIOUS
  <2>2. CASE W = {}
    BY <2>1, <2>2, <1>1, <1>3 DEF Guarded
  <2>3. CASE W # {}
    <3>1. u = t
      BY <2>3 DEF Names
    <3>2. Touched(t)' \subseteq Durable(t) /\ Past(t) \subseteq Durable(t)
      BY <2>1, <2>3, <3>1, <1>3 DEF Guarded
    <3>3. Rewriting(t) => Touched(t)' \cap Untouchable(t) = {}
      BY <2>1, <2>3, <3>1, <1>3 DEF Guarded
    <3>4. QED
      BY <3>1, <3>2, <3>3, <1>1 DEF Guarded
  <2>4. QED
    BY <2>2, <2>3
<1>7. ASSUME NEW u \in Names PROVE Whole(u)'
  <2>1. \A g \in Page : Orig(u)'[g] = Orig(u)[g]
    <3>1. ASSUME NEW g \in Page, g \notin jRecs[u] PROVE g \notin W
      <4>1. CASE W # {}
        <5>1. u = t /\ u \in Txn
          BY <4>1, <1>4 DEF Names
        <5>2. QED
          BY <3>1, <4>1, <5>1, DurableRestored
      <4>2. QED
        BY <4>1
    <3>2. QED
      BY <3>1 DEF Orig
  <2>2. Whole(u) /\ jSize'[u] = jSize[u]
    OBVIOUS
  <2>3. jSize[u] > 0 => jSize[u] \in Page
    BY <1>4, SizeAssumption DEF LInv, IInv, Types, JournalsType, Page
  <2>4. QED
    BY <2>1, <2>2, <2>3 DEF Whole, Sized
<1>8. OnlyName'
  BY <1>2 DEF OnlyName
<1>9. QED
  BY <1>4, <1>5, <1>6, <1>7, <1>8

\* A page that needs no sync may be written to the file.
LEMMA MayWrite ==
  ASSUME Inv, NEW p \in Proc, Lives(p), Live(p), pc[p] # "syncCount",
         NEW g \in dirty[p] \ needSync[p], NEW t, t = jfd[p]
  PROVE  /\ t = linked /\ t \in Txn /\ t # NoJournal /\ linkedDisk = {t} /\ g \in Durable(t)
         /\ Past(t) \subseteq Durable(t) /\ ~Rewriting(t) /\ started[p] /\ dirtyCache[p] /\ g \in jRecs[t]
<1>1. t = linked /\ t \in Txn /\ t # NoJournal
  BY OpenType DEF Live, Open, Inv, NeverEmpty, Named, LInv, IInv
<1>2. g \in inJournal[p] \ needSync[p]
  BY DEF Lives, Journaled
<1>3. /\ started[p] /\ linkedDisk = {t} /\ g \in Durable(t) /\ Past(t) \subseteq Durable(t)
      /\ jCount[t] = jCountDisk[t]
  BY <1>2 DEF Lives, Synced
<1>4. dirtyCache[p]
  BY DEF Inv, LInv, IInv, Flags
<1>5. QED
  BY <1>1, <1>3, <1>4, DurableRestored DEF Rewriting

\* The page written by a transaction: what the invariant says of p and its
\* pages after Spill or StorePage.
LEMMA WrittenFile ==
  ASSUME Inv, NEW p \in Proc, Live(p), pc[p] \in {"spill", "store"}, NEW g \in dirty[p] \ needSync[p],
         WritePage(g, cache[p][g]), UNCHANGED <<setup, undone, names, journals, nextTxn>>
  PROVE  /\ Lasting'
         /\ \A h \in Page \ {g} : db'[h] = db[h]
         /\ \A h \in Page \ {g} : \A t : Differs(t, h)' = Differs(t, h)
         /\ \A t : Touched(t)' \subseteq Touched(t) \cup {g}
         /\ started[p] /\ dirtyCache[p] /\ g \in inJournal[p]
         /\ dbSize[p] # NoSize /\ g <= dbSize[p]
<1> USE DEF Inv, Sound, LInv, IInv, Types
<1> DEFINE t == jfd[p]
<1>1. Lives(p) /\ g \in Page
  BY DEF Each, FlagsType
<1>2. /\ t = linked /\ t # NoJournal /\ linkedDisk = {t} /\ g \in Durable(t)
      /\ Past(t) \subseteq Durable(t) /\ ~Rewriting(t) /\ started[p] /\ dirtyCache[p]
  BY <1>1, MayWrite
<1>3. /\ \A h \in Page \ {g} : db'[h] = db[h] /\ disk'[h] = disk[h]
  BY DEF WritePage, FilesType
<1>4. Lasting'
  BY <1>1, <1>2, <1>3, FileStep
<1>5. \A h \in Page \ {g} : Unsynced(h)' = Unsynced(h) /\ \A u : Differs(u, h)' = Differs(u, h)
  BY <1>3 DEF Unsynced, Differs
<1>6. \A u : Touched(u)' \subseteq Touched(u) \cup {g}
  BY <1>5 DEF Touched
<1>7. g \in inJournal[p] /\ dbSize[p] # NoSize /\ g <= dbSize[p]
  BY <1>1 DEF Lives, Journaled, Changing
<1>8. QED
  BY <1>2, <1>3, <1>4, <1>5, <1>6, <1>7

LEMMA SpillSound ==
  ASSUME Inv, NEW p \in Proc, Spill(p), UNCHANGED setup PROVE Sound'
<1> USE SetupType DEF Inv, Sound, LInv, IInv, Types
<1>1. PICK g \in Recyclable(p) \cap dirty[p] :
        /\ WritePage(g, cache[p][g]) /\ dirty' = [dirty EXCEPT ![p] = @ \ {g}] /\ Replace(p, g)
  BY DEF Spill
<1> DEFINE t == jfd[p]
<1>2. /\ UNCHANGED <<setup, undone, names, journals, nextTxn, locks, st, needSync, dirtyCache, started,
                     jfd, dirfd>>
      /\ dirty'[p] = dirty[p] \ {g} /\ g \in dirty[p] \ needSync[p] /\ pc[p] = "spill"
  BY <1>1 DEF Spill, FlagsType, Recyclable
<1>3. \A q \in Proc \ {p} : Own(q)' = Own(q) /\ (q \in reserved' => q \in reserved)
  BY <1>1 DEF Spill, Replace, Counted, Own, ControlType, PagersType, PagesType, FlagsType, RestType
<1>4. Live(p) /\ st[p] = "exclusive" /\ task[p] = "recycle" /\ Open(p) /\ t \in Txn /\ Owns(p)
  BY <1>2, OpenType DEF Place, Live, Owns
<1>5. /\ Lasting'
      /\ \A h \in Page \ {g} : db'[h] = db[h]
      /\ \A h \in Page \ {g} : \A u : Differs(u, h)' = Differs(u, h)
      /\ \A u : Touched(u)' \subseteq Touched(u) \cup {g}
      /\ started[p] /\ dirtyCache[p] /\ g \in inJournal[p] /\ dbSize[p] # NoSize /\ g <= dbSize[p]
  BY <1>1, <1>2, <1>4, WrittenFile
<1>6. /\ (\A h \in needSync[p] : ~Differs(jfd[p], h)') => Plays(p)'
      /\ Knows(p)' /\ Holds(p)' /\ Reads(p)'
      /\ dbSize'[p] = PageCount(p) /\ pc'[p] = "idle" /\ task'[p] = "none"
      /\ inJournal'[p] = IF Open(p) /\ g <= jSize[jfd[p]] THEN inJournal[p] ELSE inJournal[p] \ {g}
      /\ g \in Page /\ g \notin needSync[p]
  BY <1>1, <1>2, <1>4, <1>5, Replaced
<1>7. Plays(p)'
  BY <1>2, <1>4, <1>5, <1>6 DEF Each, Plays, FlagsType
<1>8. Lives(p)'
  <2>1. Journaled(p) /\ Synced(p) /\ Changing(p) /\ (setup.fullSync /\ Single(setup) => Fresh(p))
    BY <1>2, <1>4 DEF Each, Lives, Ending
  <2>2. dbSize'[p] = dbSize[p]
    BY <1>5, <1>6 DEF PageCount
  <2>3. \A u : Durable(u)' = Durable(u) /\ Past(u)' = Past(u)
    BY <1>2 DEF Durable, Past
  <2>4. Journaled(p)'
    <3>1. dirty'[p] \subseteq inJournal'[p] /\ needSync[p] \subseteq inJournal'[p]
          /\ inJournal'[p] \subseteq inJournal[p]
      BY <1>2, <1>6, <2>1 DEF Journaled
    <3>2. \A h \in jRecs[jfd[p]] : h <= jSize[jfd[p]] => h \in inJournal'[p]
      BY <1>4, <1>6, <2>1 DEF Journaled
    <3>3. QED
      BY <3>1, <3>2, <1>2, <1>6, <2>1, <2>3 DEF Journaled
  <2>5. inJournal'[p] \subseteq inJournal[p]
    BY <1>6
  <2>6. Synced(p)'
    BY <1>2, <2>1, <2>3, <2>5 DEF Synced
  <2>7. Changing(p)'
    BY <1>2, <1>5, <1>6, <2>1, <2>2 DEF Changing
  <2>8. Fresh(p) => Fresh(p)'
    <3>1. g \notin jSegment[t] \/ ~Fresh(p)
      BY <1>2, <1>5 DEF Fresh
    <3>2. QED
      BY <1>2, <1>5, <2>3, <2>5, <3>1 DEF Fresh
  <2>9. QED
    BY <1>2, <2>1, <2>4, <2>6, <2>7, <2>8 DEF Lives, Single
<1>9. Found(p)'
  BY <1>2, <1>4 DEF Found, Open
<1>10. QED
  BY <1>2, <1>3, <1>4, <1>5, <1>6, <1>7, <1>8, <1>9, OwnedStep DEF Each

LEMMA StorePageSound ==
  ASSUME Inv, NEW p \in Proc, NEW g \in Page, StorePage(p, g), UNCHANGED setup PROVE Sound'
<1> USE SetupType DEF Inv, Sound, LInv, IInv, Types
<1> DEFINE t == jfd[p]
<1>1. /\ UNCHANGED <<setup, undone, names, journals, nextTxn, locks, st, needSync, dirtyCache, started,
                     jfd, dirfd, inJournal, cache, ref, dbSize, pc, task, want, todo>>
      /\ WritePage(g, cache[p][g]) /\ dirty'[p] = dirty[p] \ {g} /\ g \in dirty[p] \ needSync[p]
      /\ pc[p] = "store"
  BY DEF StorePage, FlagsType, Flags
<1>2. \A q \in Proc \ {p} : Own(q)' = Own(q) /\ (q \in reserved' => q \in reserved)
  BY DEF StorePage, Own, FlagsType
<1>3. Live(p) /\ st[p] = "exclusive" /\ task[p] = "commit" /\ Open(p) /\ t \in Txn /\ Owns(p)
  BY <1>1, OpenType DEF Place, Live, Owns
<1>4. /\ Lasting'
      /\ \A h \in Page \ {g} : db'[h] = db[h]
      /\ \A h \in Page \ {g} : \A u : Differs(u, h)' = Differs(u, h)
      /\ started[p] /\ dirtyCache[p] /\ dbSize[p] # NoSize /\ g <= dbSize[p]
  BY <1>1, <1>3, WrittenFile
<1>5. Plays(p)'
  BY <1>1, <1>3, <1>4 DEF Each, Plays, FlagsType
<1>6. Lives(p)'
  <2>1. Journaled(p) /\ Synced(p) /\ Changing(p) /\ Ending(p)'
    BY <1>1, <1>3 DEF Each, Lives, Ending
  <2>2. \A u : Durable(u)' = Durable(u) /\ Past(u)' = Past(u)
    BY <1>1 DEF Durable, Past
  <2>3. Journaled(p)'
    BY <1>1, <2>1, <2>2 DEF Journaled
  <2>4. Synced(p)'
    BY <1>1, <2>1, <2>2 DEF Synced
  <2>5. Changing(p)'
    BY <1>1, <1>4, <2>1 DEF Changing
  <2>6. QED
    BY <2>1, <2>3, <2>4, <2>5 DEF Lives
<1>7. Knows(p)' /\ Holds(p)' /\ Found(p)'
  BY <1>1, <1>3 DEF Each, Knows, Holds, Found, Cached, Owns, Checking, Open
<1>8. Reads(p)'
  <2> SUFFICES ASSUME Reading(p) PROVE Reads(p)'
    BY <1>1 DEF Reads, Reading
  <2>1. Covers(dbSize[p])'
    BY <1>1, <1>4 DEF Each, Reads, Covers
  <2>2. \A h \in Cached(p)' \ dirty'[p] : h = g \/ h \in Cached(p) \ dirty[p]
    BY <1>1 DEF Cached
  <2>3. db'[g] = cache[p][g]
    BY <1>1 DEF WritePage, FilesType
  <2>4. QED
    BY <1>1, <1>4, <2>1, <2>2, <2>3 DEF Each, Reads, Reading, Cached
<1>9. QED
  BY <1>1, <1>2, <1>3, <1>4, <1>5, <1>6, <1>7, <1>8, OwnedStep DEF Each

\* The end of the transaction's writes: everything is on the disk.
LEMMA SyncDatabaseSound ==
  ASSUME Inv, NEW p \in Proc, SyncDatabase(p), UNCHANGED setup PROVE Sound'
<1> USE SetupType DEF Inv, Sound, LInv, IInv, Types
<1>1. /\ UNCHANGED <<setup, db, names, journals, nextTxn, locks, needSync, dirtyCache, started,
                     jfd, dirfd, inJournal, cache, ref, dbSize, task, want, todo, dirty>>
      /\ dirty[p] = {} /\ pc[p] = "store" /\ pc'[p] = "delete" /\ st'[p] = "synced"
      /\ task[p] = "commit" /\ Open(p) /\ Live(p) /\ Owns(p) /\ needSync[p] = {} /\ st[p] # "reserved"
  BY DEF SyncDatabase, ControlType, PagersType, Place, Flags, Live, Owns
<1>2. \A q \in Proc \ {p} : Own(q)' = Own(q) /\ (q \in reserved' => q \in reserved)
  BY DEF SyncDatabase, Own, ControlType, PagersType
<1>3. Clean' = Clean /\ \A u, h : Differs(u, h)' = Differs(u, h)
  BY <1>1 DEF Clean, Differs
<1>4. \A h \in Page : ~Unsynced(h)'
  BY DEF SyncDatabase, Unsynced
<1>5. \A u : /\ Durable(u)' = Durable(u) /\ Past(u)' = Past(u) /\ Rewriting(u)' = Rewriting(u)
             /\ Untouchable(u)' = Untouchable(u) /\ Touched(u)' \subseteq Touched(u)
             /\ Orig(u)' = Orig(u)
  BY <1>1, <1>3, <1>4 DEF Durable, Past, Rewriting, Untouchable, Touched, Single, Orig
<1>6. Lasting'
  <2>1. Recorded' /\ Names' = Names
    BY <1>1 DEF Lasting, Recorded, Names
  <2>2. \A u : Guarded(u) => Guarded(u)'
    BY <1>5 DEF Guarded
  <2>3. \A u : Whole(u) => Whole(u)'
    BY <1>1, <1>5 DEF Whole, Sized
  <2>4. OnlyName'
    BY <1>1, <1>3, <1>4 DEF Lasting, OnlyName
  <2>5. QED
    BY <2>1, <2>2, <2>3, <2>4 DEF Lasting
<1>7. Lives(p)'
  <2>1. Journaled(p) /\ Synced(p) /\ Changing(p) /\ Ending(p)'
    BY <1>1 DEF Each, Lives, Ending
  <2>2. Journaled(p)'
    BY <1>1, <1>5, <2>1 DEF Journaled
  <2>3. Synced(p)'
    BY <1>1, <1>5, <2>1 DEF Synced
  <2>4. Changing(p)'
    BY <1>1, <1>3, <2>1 DEF Changing
  <2>5. QED
    BY <2>1, <2>2, <2>3, <2>4 DEF Lives
<1>8. Plays(p)' /\ Knows(p)'
  BY <1>1, <1>3 DEF Each, Plays, Knows, Open
<1>9. Holds(p)' /\ Reads(p)' /\ Found(p)'
  BY <1>1, <1>3 DEF Each, Holds, Reads, Reading, Covers, Found, Cached, Owns, Checking, Open
<1>10. QED
  BY <1>1, <1>2, <1>3, <1>6, <1>7, <1>8, <1>9, OwnedStep DEF Each

-----------------------------------------------------------------------------
(* Playing a journal back.                                                 *)

\* The pages of W get back what t has in its journal.
LEMMA RestoreStep ==
  ASSUME Inv, NEW t \in Txn, t = linked, NEW W \in SUBSET Restored(t),
         UNCHANGED <<setup, undone, names, journals, nextTxn>>,
         \A g \in Page \ W : db'[g] = db[g] /\ disk'[g] = disk[g],
         \A g \in W : db'[g] = jOrig[t][g] /\ disk'[g] = disk[g] \cup {db'[g]}
  PROVE  /\ Lasting' /\ \A g \in Page : Orig(t)'[g] = Orig(t)[g]
         /\ \A g \in Page : Differs(t, g)' => Differs(t, g) /\ g \notin W
         /\ \A g \in Page \ W : Differs(t, g)' = Differs(t, g)
<1> USE DEF Inv, LInv, IInv, Types
<1> DEFINE X == {g \in W : Differs(t, g)}
<1>1. t # NoJournal /\ W \subseteq jRecs[t] /\ W \subseteq Page
  <2>1. t # NoJournal
    BY SetupType DEF Txn, Initial, NoJournal
  <2>2. Restored(t) \subseteq jRecs[t] /\ jRecs[t] \subseteq Page
    BY DEF Restored, JournalsType
  <2>3. QED
    BY <2>1, <2>2
<1>2. ASSUME NEW g \in Page \ X PROVE db'[g] = db[g] /\ disk'[g] = disk[g]
  <2>1. CASE g \in W
    <3>1. db[g] = jOrig[t][g] /\ db[g] \in disk[g]
      BY <1>1, <2>1 DEF Differs, FilesType
    <3>2. db'[g] = db[g] /\ disk'[g] = disk[g] \cup {db[g]}
      BY <2>1, <3>1
    <3>3. QED
      BY <3>1, <3>2
  <2>2. CASE g \notin W
    BY <2>2
  <2>3. QED
    BY <2>1, <2>2
<1>3. \A g \in X : disk'[g] = disk[g] \cup {db'[g]}
  OBVIOUS
<1>4. X # {} => /\ linkedDisk = {t} /\ X \subseteq Durable(t) /\ Past(t) \subseteq Durable(t)
                /\ Rewriting(t) => X \cap Untouchable(t) = {}
  <2>1. ASSUME NEW g \in X PROVE linkedDisk = {t} /\ Guarded(t) /\ g \in Touched(t)
    BY <2>1, <1>1, DiffersGuarded
  <2>2. QED
    BY <2>1 DEF Guarded
<1>5. Lasting'
  BY <1>1, <1>2, <1>3, <1>4, FileStep
<1>6. \A g \in Page : Orig(t)'[g] = Orig(t)[g]
  BY <1>1 DEF Orig
<1>7. QED
  BY <1>1, <1>5, <1>6 DEF Differs

LEMMA TruncateSound ==
  ASSUME Inv, NEW p \in Proc, Truncate(p), UNCHANGED setup PROVE Sound'
<1> USE SetupType DEF Inv, Sound, LInv, IInv, Types
<1> DEFINE t == jfd[p]
           cut == Past(t) \cap Restored(t)
<1>1. /\ UNCHANGED <<setup, undone, names, journals, nextTxn, locks, st, needSync, dirtyCache, started,
                     jfd, dirfd, inJournal, cache, ref, task, want, dirty>>
      /\ pc[p] = "truncate" /\ pc'[p] = IF Restored(t) \subseteq Past(t) THEN "delete" ELSE "playback"
      /\ task[p] \in {"hot", "rollback"} /\ st[p] = "exclusive" /\ Open(p) /\ Owns(p)
      /\ todo'[p] = Restored(t) \ Past(t) /\ t = linked /\ t \in Txn
      /\ dbSize'[p] = IF Past(t) \subseteq Restored(t) THEN jSize[t] ELSE dbSize[p]
  BY OpenType DEF Truncate, ControlType, PagersType, RestType, Place, Owns, NeverEmpty, Named
<1>2. \A q \in Proc \ {p} : Own(q)' = Own(q) /\ (q \in reserved' => q \in reserved)
  BY DEF Truncate, Own, ControlType, PagersType, RestType
<1>3. /\ Lasting' /\ \A g \in Page : Orig(t)'[g] = Orig(t)[g]
      /\ \A g \in Page : Differs(t, g)' => Differs(t, g) /\ g \notin cut
  <2>1. cut \in SUBSET Restored(t) /\ cut \subseteq Page
    BY DEF Past, Page
  <2>2. \A g \in Page \ cut : db'[g] = db[g] /\ disk'[g] = disk[g]
    BY DEF Truncate
  <2>3. \A g \in cut : db'[g] = 0 /\ disk'[g] = disk[g] \cup {0}
    BY <2>1 DEF Truncate
  <2>4. \A g \in cut : jOrig[t][g] = 0
    BY <1>1, <2>1 DEF Lasting, Recorded, Past
  <2> HIDE DEF cut
  <2>5. \A g \in cut : db'[g] = jOrig[t][g] /\ disk'[g] = disk[g] \cup {db'[g]}
    BY <2>3, <2>4
  <2>6. QED
    BY <1>1, <2>1, <2>2, <2>5, RestoreStep
<1>4. \A g \in Page : Differs(t, g) => g \in Restored(t) /\ Past(t) \subseteq Restored(t)
  <2>1. ASSUME NEW g \in Page, Differs(t, g) PROVE g \in Restored(t) /\ Past(t) \subseteq Restored(t)
    <3>1. Guarded(t) /\ g \in Touched(t)
      BY <1>1, <2>1, DiffersGuarded DEF Open
    <3>2. QED
      BY <1>1, <3>1, DurableRestored DEF Guarded
  <2>2. QED
    BY <2>1
<1>5. Plays(p)'
  <2>1. \A g \in Page : Differs(t, g)' => g \in todo'[p]
    BY <1>1, <1>3, <1>4
  <2>2. Restored(t)' = Restored(t)
    BY <1>1 DEF Restored
  <2>3. \A g \in needSync[p] : ~Differs(t, g)'
    BY <1>1, <1>3 DEF Each, Plays, FlagsType
  <2>4. QED
    BY <1>1, <2>1, <2>2, <2>3 DEF Plays
<1>6. Knows(p)'
  <2> SUFFICES ASSUME task[p] = "hot" PROVE Knows(p)'
    BY <1>1 DEF Knows, Open
  <2>1. jSize[t] \in 0 .. NPage /\ dbSize[p] # NoSize /\ Sized(db, dbSize[p])
    BY <1>1 DEF Each, Knows, JournalsType
  <2>2. dbSize'[p] # NoSize
    BY <1>1, <2>1 DEF NoSize
  <2>3. dbSize'[p] > 0 => dbSize'[p] \in Page
    BY <1>1, <2>1 DEF Page, PagersType, NoSize
  <2>4. Sized(Orig(t), dbSize'[p])
    <3>1. CASE Past(t) \subseteq Restored(t)
      BY <1>1, <3>1 DEF Lasting, Names, Whole, NamesType, Open
    <3>2. CASE ~(Past(t) \subseteq Restored(t))
      <4>1. \A g \in Page : Orig(t)[g] = db[g]
        BY <3>2, <1>4 DEF Orig, Differs
      <4>2. QED
        BY <3>2, <4>1, <1>1, <2>1, <2>3 DEF Sized
    <3>3. QED
      BY <3>1, <3>2
  <2>5. Sized(Orig(jfd[p]), dbSize[p])'
    BY <1>1, <1>3, <2>3, <2>4 DEF Sized
  <2>6. QED
    BY <1>1, <2>2, <2>5 DEF Knows, Open
<1>7. Lives(p)' /\ Holds(p)' /\ Reads(p)' /\ Found(p)'
  BY <1>1 DEF Each, Lives, Live, Holds, Reads, Reading, Found, Cached, Owns, Checking, Open
<1>8. QED
  BY <1>1, <1>2, <1>3, <1>5, <1>6, <1>7, OwnedStep DEF Each

LEMMA PlaybackPageSound ==
  ASSUME Inv, NEW p \in Proc, NEW g \in Page, PlaybackPage(p, g), UNCHANGED setup PROVE Sound'
<1> USE SetupType DEF Inv, Sound, LInv, IInv, Types
<1> DEFINE t == jfd[p]
           W == IF g \in needSync[p] THEN {} ELSE {g}
<1>1. /\ UNCHANGED <<setup, undone, names, journals, nextTxn, locks, st, needSync, dirtyCache, started,
                     jfd, dirfd, inJournal, ref, task, want, dbSize>>
      /\ pc[p] = "playback" /\ pc'[p] = IF todo[p] = {g} THEN "delete" ELSE "playback"
      /\ task[p] \in {"hot", "rollback"} /\ st[p] = "exclusive" /\ Open(p) /\ Owns(p)
      /\ todo'[p] = todo[p] \ {g} /\ g \in todo[p] /\ t = linked /\ t \in Txn
  BY OpenType DEF PlaybackPage, ControlType, RestType, Place, Owns, NeverEmpty, Named
<1>2. \A q \in Proc \ {p} : Own(q)' = Own(q) /\ (q \in reserved' => q \in reserved)
  BY DEF PlaybackPage, Own, ControlType, RestType, FlagsType, PagesType
<1>3. g \in Restored(t)
  BY <1>1 DEF Each, Plays
<1>4. /\ Lasting' /\ \A h \in Page : Orig(t)'[h] = Orig(t)[h]
      /\ \A h \in Page : Differs(t, h)' => Differs(t, h) /\ h \notin W
  <2>1. \A h \in Page \ W : db'[h] = db[h] /\ disk'[h] = disk[h]
    BY DEF PlaybackPage, WritePage, FilesType
  <2>2. \A h \in W : db'[h] = jOrig[t][h] /\ disk'[h] = disk[h] \cup {db'[h]}
    BY DEF PlaybackPage, WritePage, FilesType
  <2>3. W \in SUBSET Restored(t)
    BY <1>3
  <2> HIDE DEF W
  <2>4. QED
    BY <1>1, <2>1, <2>2, <2>3, RestoreStep
<1>5. \A h \in Page : Differs(t, h)' => Differs(t, h) /\ h # g
  BY <1>1, <1>4 DEF Each, Plays
<1>6. Plays(p)'
  <2>1. \A h \in Page : Differs(t, h)' => h \in todo'[p]
    BY <1>1, <1>5 DEF Each, Plays
  <2>2. Restored(t)' = Restored(t)
    BY <1>1 DEF Restored
  <2>3. \A h \in needSync[p] : ~Differs(t, h)'
    BY <1>1, <1>5 DEF Each, Plays, FlagsType
  <2>4. QED
    BY <1>1, <2>1, <2>2, <2>3 DEF Each, Plays
<1>7. Knows(p)'
  <2>1. task[p] = "hot" => dbSize[p] # NoSize /\ Sized(Orig(t), dbSize[p])
    BY <1>1 DEF Each, Knows
  <2>2. dbSize[p] > 0 => dbSize[p] \in Page
    BY DEF Page, PagersType, NoSize
  <2>3. task[p] = "hot" => Sized(Orig(jfd[p]), dbSize[p])'
    BY <1>1, <1>4, <2>1, <2>2 DEF Sized
  <2>4. QED
    BY <1>1, <2>1, <2>3 DEF Knows, Open
<1>8. Cached(p)' \subseteq Cached(p)
  BY DEF PlaybackPage, Cached, PagesType
<1>9. Lives(p)' /\ Holds(p)' /\ Reads(p)' /\ Found(p)'
  BY <1>1, <1>8 DEF Each, Lives, Live, Holds, Reads, Reading, Found, Owns, Checking, Open
<1>10. QED
  BY <1>1, <1>2, <1>4, <1>6, <1>7, <1>9, OwnedStep DEF Each

-----------------------------------------------------------------------------
(* syncJournal().                                                          *)

\* After fsync() every record counted is durable, and the name is on the disk.
LEMMA SyncStep ==
  ASSUME Inv, NEW p \in Proc, Live(p), SyncJournalFile(p), Lives(p),
         UNCHANGED <<setup, files, linked, jOrig, jSize, jRecs, jCount, nextTxn, jfd>>,
         \A t \in Txn \ {jfd[p]} : jSegment'[t] = jSegment[t]
  PROVE  /\ Lasting' /\ jfd[p] = linked /\ jfd[p] \in Txn /\ linkedDisk' = {linked}
         /\ Durable(jfd[p]) \subseteq Durable(jfd[p])' /\ Durable(jfd[p])' = Restored(jfd[p])
         /\ jCountDisk'[jfd[p]] = jCount[jfd[p]]
         /\ dirfd'[p] = FALSE
         /\ \A u : Touched(u)' = Touched(u) /\ Past(u)' = Past(u) /\ \A g : Differs(u, g)' = Differs(u, g)
<1> USE SetupType DEF Inv, Sound, Lasting, LInv, IInv, Types
<1> DEFINE t == jfd[p]
<1>1. t = linked /\ t \in Txn /\ t # NoJournal
  BY OpenType DEF Live, Open, NeverEmpty, Named
<1>2. /\ jSynced' = [jSynced EXCEPT ![t] = jRecs[t]] /\ jCountDisk' = [jCountDisk EXCEPT ![t] = jCount[t]]
      /\ jSynced \in [Txn -> SUBSET Page] /\ jCountDisk \in [Txn -> SUBSET Page]
  BY DEF SyncJournalFile, JournalsType
<1>3. linkedDisk' = {linked} /\ linked \in linkedDisk /\ dirfd'[p] = FALSE
  BY <1>1 DEF SyncJournalFile, Lives, Synced, NamesType, FlagsType
<1>4. \A u : Touched(u)' = Touched(u) /\ Past(u)' = Past(u) /\ \A g : Differs(u, g)' = Differs(u, g)
  BY DEF Touched, Differs, Unsynced, Past
<1>5. Recorded'
  <2>1. t < nextTxn
    BY <1>1 DEF NeverEmpty, FirstPages, FirstPage, Live, Open, Used, RestType, Initial, Txn
  <2>2. ASSUME NEW u \in Txn
        PROVE  /\ jSynced'[u] = IF u = t THEN jRecs[t] ELSE jSynced[u]
               /\ jCountDisk'[u] = IF u = t THEN jCount[t] ELSE jCountDisk[u]
               /\ u >= nextTxn => u # t
    BY <1>1, <1>2, <2>1 DEF RestType, Txn, Initial
  <2>3. QED
    BY <2>2 DEF Recorded
<1>6. Names' = {t} /\ t \in Names
  BY <1>1, <1>3 DEF Names
<1>7. Durable(t) \subseteq Durable(t)' /\ Durable(t)' = Restored(t)
  BY <1>1, <1>2 DEF Durable, Restored, Recorded
<1>8. ~Rewriting(t)'
  BY <1>1, <1>2 DEF Rewriting
<1>9. Guarded(t)' /\ Whole(t)'
  <2>1. Guarded(t) /\ Whole(t)
    BY <1>6
  <2>2. Touched(t)' \subseteq Durable(t)' /\ (Touched(t)' # {} => Past(t)' \subseteq Durable(t)')
    BY <2>1, <1>4, <1>7 DEF Guarded
  <2>3. Orig(t)' = Orig(t)
    BY DEF Orig
  <2>4. QED
    BY <2>1, <2>2, <2>3, <1>1, <1>8 DEF Guarded, Whole, Sized
<1>10. OnlyName'
  BY <1>1, <1>3 DEF OnlyName
<1>11. QED
  BY <1>1, <1>2, <1>3, <1>4, <1>5, <1>6, <1>7, <1>9, <1>10

LEMMA SyncRecordsSound ==
  ASSUME Inv, NEW p \in Proc, SyncRecords(p), UNCHANGED setup PROVE Sound'
<1> USE SetupType DEF Inv, Sound, LInv, IInv, Types
<1> DEFINE t == jfd[p]
<1>1. /\ UNCHANGED <<setup, files, linked, jOrig, jSize, jRecs, jCount, jSegment, nextTxn, locks, st,
                     needSync, dirtyCache, started, jfd, inJournal, ref, task, want, dbSize, cache,
                     dirty, todo>>
      /\ pc[p] = "syncData" /\ pc'[p] = "writeCount"
      /\ task[p] \in {"recycle", "commit"} /\ Open(p) /\ Owns(p) /\ Live(p) /\ Lives(p)
  BY DEF SyncRecords, ControlType, Place, Kept, Owns, Live, Each
<1>2. \A q \in Proc \ {p} : Own(q)' = Own(q) /\ (q \in reserved' => q \in reserved)
  BY DEF SyncRecords, SyncJournalFile, Own, ControlType, FlagsType
<1>3. /\ Lasting' /\ t = linked /\ t \in Txn /\ linkedDisk' = {linked}
      /\ Durable(t) \subseteq Durable(t)' /\ jCountDisk'[t] = jCount[t] /\ dirfd'[p] = FALSE
      /\ \A u : Touched(u)' = Touched(u) /\ Past(u)' = Past(u) /\ \A g : Differs(u, g)' = Differs(u, g)
  BY <1>1, SyncStep DEF SyncRecords
<1>4. Clean' = Clean
  BY <1>1, <1>3 DEF Clean
<1>5. Lives(p)'
  <2>1. /\ Journaled(p) /\ Synced(p) /\ Changing(p) /\ (setup.fullSync /\ Single(setup) => Fresh(p))
    BY <1>1 DEF Lives, Ending
  <2>2. Journaled(p)'
    BY <1>1, <1>3, <2>1 DEF Journaled
  <2>3. Synced(p)'
    BY <1>1, <1>3, <2>1 DEF Synced
  <2>4. Changing(p)'
    BY <1>1, <1>3, <2>1 DEF Changing
  <2>5. Fresh(p) => Fresh(p)'
    BY <1>1, <1>3 DEF Fresh
  <2>6. QED
    BY <1>1, <2>1, <2>2, <2>3, <2>4, <2>5 DEF Lives, Single
<1>6. Plays(p)' /\ Knows(p)' /\ Found(p)'
  BY <1>1, <1>3, <1>4 DEF Each, Plays, Knows, Found, Open, Checking
<1>7. Holds(p)' /\ Reads(p)'
  BY <1>1 DEF Each, Holds, Reads, Reading, Cached, Owns, Checking, Covers
<1>8. QED
  BY <1>1, <1>2, <1>3, <1>4, <1>5, <1>6, <1>7, OwnedStep DEF Each

LEMMA SyncCountSound ==
  ASSUME Inv, NEW p \in Proc, SyncCount(p), UNCHANGED setup PROVE Sound'
<1> USE SetupType DEF Inv, Sound, LInv, IInv, Types
<1> DEFINE t == jfd[p]
<1>1. /\ UNCHANGED <<setup, files, linked, jOrig, jSize, jRecs, jCount, nextTxn, locks, st,
                     dirtyCache, jfd, inJournal, ref, task, want, dbSize, cache, dirty, todo>>
      /\ pc[p] = "syncCount"
      /\ needSync'[p] = {} /\ started'[p] = TRUE
      /\ task[p] \in {"recycle", "commit"} /\ Open(p) /\ Owns(p) /\ Live(p) /\ Lives(p)
  BY DEF SyncCount, FlagsType, Place, Kept, Owns, Live, Each
<1>2. \A q \in Proc \ {p} : Own(q)' = Own(q) /\ (q \in reserved' => q \in reserved)
  BY DEF SyncCount, SyncJournalFile, Own, ControlType, FlagsType
<1>3. t \in Txn /\ \A u \in Txn \ {t} : jSegment'[u] = jSegment[u]
  BY <1>1, OpenType DEF SyncCount, NewSegment, JournalsType
<1>4. /\ Lasting' /\ t = linked /\ t \in Txn /\ linkedDisk' = {linked}
      /\ Durable(t)' = Restored(t) /\ jCountDisk'[t] = jCount[t] /\ dirfd'[p] = FALSE
      /\ \A u : Touched(u)' = Touched(u) /\ Past(u)' = Past(u) /\ \A g : Differs(u, g)' = Differs(u, g)
  BY <1>1, <1>3, SyncStep DEF SyncCount
<1>5. Clean' = Clean
  BY <1>1, <1>4 DEF Clean
<1>6. \/ /\ task[p] = "recycle" /\ pc'[p] = "recycle"
         /\ jSegment'[t] = IF setup.fullSync THEN {} ELSE jSegment[t]
      \/ task[p] = "commit" /\ pc'[p] \in {"store", "lock"} /\ jSegment' = jSegment
  BY <1>1, <1>3 DEF SyncCount, NewSegment, Locked, JournalsType, ControlType
<1>7. Lives(p)'
  <2>1. /\ Journaled(p) /\ Synced(p) /\ Changing(p) /\ Restored(t) = jRecs[t]
    BY <1>1 DEF Lives, Journaled, Restored
  <2>2. Journaled(p)'
    BY <1>1, <1>4, <1>6, <2>1 DEF Journaled
  <2>3. Synced(p)'
    BY <1>1, <1>4, <2>1 DEF Synced, Journaled
  <2>4. Changing(p)'
    BY <1>1, <1>4, <1>6, <2>1 DEF Changing
  <2>5. setup.fullSync /\ ~Ending(p)' => Fresh(p)'
    BY <1>1, <1>6 DEF Fresh, Ending
  <2>6. QED
    BY <1>1, <2>2, <2>3, <2>4, <2>5 DEF Lives
<1>8. Plays(p)' /\ Knows(p)' /\ Found(p)'
  BY <1>1, <1>4, <1>5, <1>6 DEF Each, Plays, Knows, Found, Open, Checking
<1>9. Holds(p)' /\ Reads(p)'
  BY <1>1, <1>6 DEF Each, Holds, Reads, Reading, Cached, Owns, Checking, Covers
<1>10. QED
  BY <1>1, <1>2, <1>4, <1>5, <1>7, <1>8, <1>9, OwnedStep DEF Each

\* The header that counts the records counts nothing the file depends on.
LEMMA WriteCountSound ==
  ASSUME Inv, NEW p \in Proc, WriteCount(p), UNCHANGED setup PROVE Sound'
<1> USE SetupType DEF Inv, Sound, LInv, IInv, Types
<1> DEFINE t == jfd[p]
<1>1. /\ UNCHANGED <<setup, files, names, jOrig, jSize, jRecs, jSynced, jCountDisk, jSegment, nextTxn,
                     locks, st, flags, ref, task, want, dbSize, cache, todo>>
      /\ pc[p] = "writeCount" /\ pc'[p] = "syncCount"
      /\ task[p] \in {"recycle", "commit"} /\ Open(p) /\ Owns(p) /\ Live(p) /\ Lives(p)
  BY DEF WriteCount, ControlType, Place, Kept, Owns, Live, Each
<1>2. \A q \in Proc \ {p} : Own(q)' = Own(q) /\ (q \in reserved' => q \in reserved)
  BY DEF WriteCount, Own, ControlType
<1>3. t = linked /\ t \in Txn /\ jCount' = [jCount EXCEPT ![t] = @ \cup jSegment[t]]
      /\ jCount \in [Txn -> SUBSET Page]
  BY <1>1, OpenType DEF WriteCount, NeverEmpty, Named, JournalsType
<1>4. \A u : /\ Touched(u)' = Touched(u) /\ Past(u)' = Past(u) /\ Durable(u)' = Durable(u)
             /\ Untouchable(u)' = Untouchable(u) /\ Orig(u)' = Orig(u)
             /\ \A g : Differs(u, g)' = Differs(u, g) /\ Unsynced(g)' = Unsynced(g)
  BY <1>1 DEF Touched, Differs, Unsynced, Past, Durable, Untouchable, Orig
<1>5. Clean' = Clean
  BY <1>1, <1>4 DEF Clean
<1>6. /\ Journaled(p) /\ Synced(p) /\ Changing(p) /\ (setup.fullSync /\ Single(setup) => Fresh(p))
  BY <1>1 DEF Lives, Ending
<1>7. Lasting'
  <2>1. Recorded'
    BY <1>1, <1>3 DEF Lasting, Recorded
  <2>2. Names' = Names /\ Names \subseteq Txn
    BY <1>1 DEF Names, NamesType
  <2>3. ASSUME NEW u \in Names PROVE Guarded(u)'
    <3>1. Guarded(u)
      BY DEF Lasting
    <3>2. CASE u # t
      <4>1. Rewriting(u)' = Rewriting(u)
        BY <1>1, <1>3, <2>2, <3>2 DEF Rewriting, Single
      <4>2. QED
        BY <1>4, <3>1, <4>1 DEF Guarded
    <3>3. CASE u = t
      <4>1. setup.fullSync /\ Single(setup) => Touched(t) \cap Untouchable(t) = {}
        BY <1>6 DEF Fresh, Untouchable
      <4>2. QED
        BY <1>1, <1>4, <3>1, <3>3, <4>1 DEF Guarded, Rewriting, Single
    <3>4. QED
      BY <3>2, <3>3
  <2>4. \A u : Whole(u) => Whole(u)'
    BY <1>1, <1>4 DEF Whole, Sized
  <2>5. OnlyName'
    BY <1>1, <1>4 DEF Lasting, OnlyName
  <2>6. QED
    BY <2>1, <2>2, <2>3, <2>4, <2>5 DEF Lasting
<1>8. Lives(p)'
  <2>1. Journaled(p)'
    BY <1>1, <1>3, <1>4, <1>6 DEF Journaled
  <2>2. Synced(p)'
    BY <1>1, <1>4, <1>6 DEF Synced
  <2>3. Changing(p)'
    BY <1>1, <1>4, <1>6 DEF Changing
  <2>4. Fresh(p) => Fresh(p)'
    BY <1>1, <1>4 DEF Fresh
  <2>5. QED
    BY <1>1, <1>6, <2>1, <2>2, <2>3, <2>4 DEF Lives, Single
<1>9. Plays(p)' /\ Knows(p)' /\ Found(p)'
  BY <1>1, <1>4, <1>5 DEF Each, Plays, Knows, Found, Open, Checking
<1>10. Holds(p)' /\ Reads(p)'
  BY <1>1 DEF Each, Holds, Reads, Reading, Cached, Owns, Checking, Covers
<1>11. QED
  BY <1>1, <1>2, <1>5, <1>7, <1>8, <1>9, <1>10, OwnedStep DEF Each

-----------------------------------------------------------------------------
(* sqlite3pager_write().                                                   *)

\* A page not yet in the journal is what the file has.
LEMMA NewPage ==
  ASSUME Inv, NEW p \in Proc, Open(p), pc[p] = "idle", NEW g \in ref[p],
         g \notin inJournal[p], g <= jSize[jfd[p]]
  PROVE  /\ cache[p][g] = db[g] /\ g \notin jRecs[jfd[p]] /\ g \notin Touched(jfd[p])
         /\ g \notin Past(jfd[p])
<1> USE DEF Inv, Sound, LInv, IInv, Types
<1> DEFINE t == jfd[p]
<1>1. t = linked /\ t \in Txn /\ t \in Names
  BY OpenType DEF Open, NeverEmpty, Named, NamesType, Names
<1>2. task[p] = "none" /\ Live(p) /\ Reading(p)
  BY Places DEF Live, Reading
<1>3. Journaled(p)
  BY <1>2 DEF Each, Lives
<1>4. g \in Cached(p) /\ g \notin dirty[p]
  BY <1>3 DEF Flags, Journaled
<1>5. cache[p][g] = db[g]
  BY <1>2, <1>4 DEF Each, Reads
<1>6. g \notin jRecs[t]
  BY <1>3 DEF Journaled
<1>7. g \notin Touched(t)
  BY <1>1, <1>6, DurableRestored DEF Lasting, Guarded
<1>8. g \notin Past(t)
  BY <1>1 DEF Past, JournalsType
<1>9. QED
  BY <1>5, <1>6, <1>7, <1>8

LEMMA ModifySound ==
  ASSUME Inv, NEW p \in Proc, Open(p), pc[p] = "idle", NEW g \in ref[p], g <= setup.pages,
         Modify(p, g), UNCHANGED setup,
         \A q \in Proc \ {p} : pc'[q] = pc[q] /\ task'[q] = task[q],
         pc'[p] \in {"idle", "syncData", "writeCount", "store", "lock"},
         task'[p] \in {"none", "commit"}, task'[p] = "commit" => g = 1
  PROVE  Sound'
<1> USE SetupType DEF Inv, Sound, LInv, IInv, Types
<1> DEFINE t == jfd[p]
           A == g \notin inJournal[p] /\ g <= jSize[t]
<1>1. /\ t = linked /\ t \in Txn /\ t \in Names /\ t # NoJournal /\ t < nextTxn
      /\ g \in Cached(p) /\ g \in Page /\ task[p] = "none" /\ Live(p) /\ Owns(p)
  <2>1. t = linked /\ t \in Txn /\ t \in Names
    BY OpenType DEF Open, NeverEmpty, Named, NamesType, Names
  <2>2. t < nextTxn
    BY DEF NeverEmpty, FirstPage, Used, RestType, Initial
  <2>3. g \in Cached(p) /\ g \in Page
    BY DEF Flags, Cached
  <2>4. task[p] = "none" /\ Live(p) /\ Owns(p)
    BY Places DEF Live
  <2>5. QED
    BY <2>1, <2>2, <2>3, <2>4 DEF Open
<1>2. /\ Journaled(p) /\ Synced(p) /\ Changing(p) /\ (setup.fullSync /\ Single(setup) => Fresh(p))
  BY <1>1 DEF Each, Lives, Ending
<1>3. /\ dirty'[p] = dirty[p] \cup {g} /\ dirtyCache'[p] = TRUE /\ inJournal'[p] = inJournal[p] \cup {g}
      /\ needSync'[p] = IF g \notin inJournal[p] /\ (g <= jSize[t] \/ ~started[p])
                        THEN needSync[p] \cup {g} ELSE needSync[p]
      /\ dbSize'[p] = IF dbSize[p] < g THEN g ELSE dbSize[p]
      /\ \A h \in Page : cache'[p][h] = IF h = g THEN t ELSE cache[p][h]
      /\ UNCHANGED <<locks, files, names, jSize, jSynced, jCount, jCountDisk, st, ref, started, jfd,
                     dirfd, rest>>
  BY <1>1 DEF Modify, FlagsType, PagersType, PagesType
<1>4. /\ \A u \in Txn : jRecs'[u] = IF u = t /\ A THEN jRecs[t] \cup {g} ELSE jRecs[u]
      /\ \A u \in Txn : jSegment'[u] = IF u = t /\ A THEN jSegment[t] \cup {g} ELSE jSegment[u]
  BY <1>1 DEF Modify, JournalsType
<1>5. A => /\ cache[p][g] = db[g] /\ g \notin jRecs[t] /\ g \notin Touched(t) /\ g \notin Past(t)
  BY NewPage
<1>6. \A u \in Txn, h \in Page : jOrig'[u][h] = IF u = t /\ h = g /\ A THEN db[g] ELSE jOrig[u][h]
  <2>1. CASE A
    BY <2>1, <1>1, <1>5 DEF Modify, JournalsType
  <2>2. CASE ~A
    BY <2>2, <1>1 DEF Modify
  <2>3. QED
    BY <2>1, <2>2
<1>7. \A q \in Proc \ {p} : Own(q)' = Own(q) /\ (q \in reserved' => q \in reserved)
  BY DEF Modify, Own, FlagsType, PagersType, PagesType
<1> HIDE DEF A
<1>8. \A u \in Txn, h \in Page : Differs(u, h)' = Differs(u, h) /\ Unsynced(h)' = Unsynced(h)
  BY <1>3, <1>4, <1>5, <1>6 DEF Differs, Unsynced
<1>9. \A u \in Txn : /\ Touched(u)' = Touched(u) /\ Durable(u)' = Durable(u) /\ Past(u)' = Past(u)
                     /\ Rewriting(u)' = Rewriting(u)
  BY <1>3, <1>8 DEF Touched, Durable, Past, Rewriting, Single
<1>10. \A u \in Txn, h \in Page : Orig(u)'[h] = Orig(u)[h]
  BY <1>3, <1>4, <1>5, <1>6 DEF Orig
<1>11. Lasting'
  <2>1. Recorded'
    <3>1. ASSUME NEW u \in Txn, NEW h \in Page, h > jSize'[u] PROVE jOrig'[u][h] = 0
      <4>1. ~(h = g /\ u = t /\ A)
        BY <3>1, <1>1, <1>3 DEF A, JournalsType, Page
      <4>2. QED
        BY <3>1, <4>1, <1>3, <1>6 DEF Lasting, Recorded
    <3>2. ASSUME NEW u \in Txn, u >= nextTxn PROVE u # t
      BY <3>2, <1>1 DEF Txn, Initial, RestType
    <3>3. QED
      BY <3>1, <3>2, <1>3, <1>4 DEF Lasting, Recorded
  <2>2. Names' = Names /\ Names \subseteq Txn
    BY <1>3 DEF Names, NamesType
  <2>3. ASSUME NEW u \in Names PROVE Guarded(u)'
    <3>1. Guarded(u) /\ u \in Txn
      BY <2>2 DEF Lasting
    <3>2. Touched(u) \cap Untouchable(u) = {} => Touched(u) \cap Untouchable(u)' = {}
      <4>1. CASE u = t /\ A
        BY <4>1, <3>1, <1>4, <1>5, <1>9 DEF Untouchable
      <4>2. CASE ~(u = t /\ A)
        BY <4>2, <3>1, <1>4, <1>9 DEF Untouchable
      <4>3. QED
        BY <4>1, <4>2
    <3>3. QED
      BY <3>1, <3>2, <1>9 DEF Guarded
  <2>4. ASSUME NEW u \in Names PROVE Whole(u)'
    <3>1. Whole(u) /\ u \in Txn /\ jSize'[u] = jSize[u] /\ (jSize[u] > 0 => jSize[u] \in Page)
      BY <2>2, <1>3, SizeAssumption DEF Lasting, JournalsType, Page
    <3>2. QED
      BY <3>1, <1>10 DEF Whole, Sized
  <2>5. OnlyName'
    BY <1>1, <1>3, <1>8 DEF Lasting, OnlyName
  <2>6. QED
    BY <2>1, <2>2, <2>3, <2>4, <2>5 DEF Lasting
<1>12. Clean' = Clean
  BY <1>1, <1>3, <1>8 DEF Clean
<1>13. Journaled(p)'
  <2>1. dirty'[p] \subseteq inJournal'[p] /\ needSync'[p] \subseteq inJournal'[p]
    BY <1>2, <1>3 DEF Journaled
  <2>2. inJournal'[p] \subseteq jRecs'[t]
    <3>1. A \/ g \in inJournal[p] \/ g \in Past(t)
      BY <1>1 DEF A, Past, Page, JournalsType
    <3>2. g \in jRecs'[t]
      BY <3>1, <1>1, <1>2, <1>4 DEF Journaled
    <3>3. QED
      BY <3>2, <1>1, <1>2, <1>3, <1>4 DEF Journaled
  <2>3. \A h \in jRecs'[t] : h <= jSize[t] => h \in inJournal'[p]
    BY <1>1, <1>2, <1>3, <1>4 DEF Journaled
  <2>4. jSegment'[t] \subseteq jRecs'[t] /\ jRecs'[t] \subseteq jCount[t] \cup jSegment'[t]
    BY <1>1, <1>2, <1>4 DEF Journaled
  <2>5. jRecs[t] \subseteq jRecs'[t]
    BY <1>1, <1>4
  <2>6. QED
    BY <2>1, <2>2, <2>3, <2>4, <2>5, <1>1, <1>2, <1>3, <1>9 DEF Journaled
<1>14. Synced(p)'
  <2>1. started[p] => inJournal'[p] \ needSync'[p] \subseteq Durable(t)
    <3>1. g > jSize[t] => g \in Past(t)
      BY <1>1 DEF Past, Page
    <3>2. QED
      BY <3>1, <1>1, <1>2, <1>3 DEF Synced, JournalsType, Page
  <2>2. inJournal'[p] \ needSync'[p] # {} => started[p]
    BY <1>2, <1>3 DEF Synced
  <2>3. QED
    BY <2>1, <2>2, <1>1, <1>2, <1>3, <1>9 DEF Synced
<1>15. Changing(p)'
  <2>1. ~started[p] => \A h \in Page : ~Differs(t, h)'
    BY <1>1, <1>2, <1>3, <1>8 DEF Changing
  <2>2. dbSize'[p] # NoSize /\ \A h \in dirty'[p] : h <= dbSize'[p]
    BY <1>1, <1>2, <1>3 DEF Changing, PagersType, FlagsType, NoSize, Page
  <2>3. QED
    BY <2>1, <2>2, <1>3 DEF Changing
<1>16. Fresh(p) => Fresh(p)'
  <2>1. ASSUME Fresh(p) PROVE Fresh(p)'
    <3>1. Touched(t) \cap jSegment'[t] = {} /\ Past(t) \cap jSegment'[t] = Past(t) \cap jSegment[t]
      BY <2>1, <1>1, <1>4, <1>5 DEF Fresh
    <3>2. inJournal'[p] \cap jSegment'[t] \subseteq needSync'[p]
      <4>1. inJournal[p] \cap jSegment'[t] \subseteq needSync'[p]
        BY <2>1, <1>1, <1>3, <1>4 DEF A, Fresh
      <4>2. CASE g \in inJournal[p] \/ g \in needSync'[p]
        BY <4>1, <4>2, <1>3
      <4>3. CASE g \notin inJournal[p] /\ g \notin needSync'[p]
        <5>1. started[p] /\ g \in Past(t) /\ ~A
          BY <4>3, <1>1, <1>3 DEF A, Past, Page, JournalsType
        <5>2. g \notin jSegment'[t]
          BY <5>1, <2>1, <1>1, <1>4 DEF Fresh
        <5>3. QED
          BY <4>1, <5>2, <1>3
      <4>4. QED
        BY <4>2, <4>3
    <3>3. QED
      BY <3>1, <3>2, <2>1, <1>1, <1>3, <1>9 DEF Fresh
  <2>2. QED
    BY <2>1
<1>17. Lives(p)'
  BY <1>2, <1>13, <1>14, <1>15, <1>16 DEF Lives, Single
<1>18. Plays(p)'
  <2>1. \A h \in needSync'[p] : ~Differs(t, h)'
    <3>1. \A h \in needSync[p] : ~Differs(t, h)'
      BY <1>1, <1>3, <1>8 DEF Each, Plays, FlagsType
    <3>2. g \in needSync'[p] \ needSync[p] => ~Differs(t, g)'
      <4>1. CASE A
        <5>1. ~Differs(t, g)
          BY <4>1, <1>5 DEF Differs
        <5>2. QED
          BY <5>1, <1>1, <1>3, <1>8
      <4>2. CASE ~A
        BY <4>2, <1>1, <1>2, <1>3, <1>8 DEF A, Changing
      <4>3. QED
        BY <4>1, <4>2
    <3>3. QED
      BY <3>1, <3>2, <1>3
  <2>2. QED
    BY <2>1, <1>3 DEF Plays
<1>19. Cached(p)' = Cached(p)
  <2>1. t # NotCached
    BY <1>1 DEF Txn, Initial, NotCached
  <2>2. QED
    BY <2>1, <1>1, <1>3 DEF Cached
<1>20. Knows(p)' /\ Holds(p)' /\ Found(p)'
  BY <1>1, <1>3, <1>12, <1>19 DEF Each, Knows, Holds, Found, Owns, Checking, Open
<1>21. Reads(p)'
  <2> SUFFICES ASSUME Reading(p) PROVE Reads(p)'
    BY <1>1, <1>3 DEF Reads, Reading
  <2>1. Covers(dbSize[p])'
    <3>1. Covers(dbSize[p]) /\ dbSize[p] \in 0 .. NPage
      BY <1>2 DEF Each, Reads, Changing, PagersType
    <3>2. dbSize'[p] >= dbSize[p]
      BY <3>1, <1>1, <1>3 DEF Page
    <3>3. dbSize'[p] \in Int
      BY <3>1, <1>1, <1>3 DEF Page
    <3>4. QED
      BY <3>1, <3>2, <3>3, <1>3 DEF Covers, Page
  <2>2. QED
    BY <2>1, <1>3, <1>19 DEF Each, Reads, Cached
<1>22. QED
  BY <1>1, <1>3, <1>7, <1>11, <1>12, <1>17, <1>18, <1>20, <1>21, OwnedStep DEF Each

LEMMA WriteSound ==
  ASSUME Inv, NEW p \in Proc, NEW g \in Page, Write(p, g), UNCHANGED setup PROVE Sound'
<1>1. Open(p) /\ pc[p] = "idle" /\ g \in ref[p] /\ g <= setup.pages /\ UNCHANGED <<pc, task>>
  BY DEF Write, Writing, Calls, Open
<1>2. task[p] = "none"
  BY <1>1, Places DEF Inv
<1>3. QED
  BY <1>1, <1>2, ModifySound DEF Write

LEMMA CommitSound ==
  ASSUME Inv, NEW p \in Proc, Commit(p), UNCHANGED setup PROVE Sound'
<1> USE SetupType DEF Inv, LInv, IInv, Types
<1>1. Open(p) /\ pc[p] = "idle" /\ 1 \in ref[p] /\ 1 <= setup.pages
  BY DEF Commit, Writing, Calls, Open, Flags
<1>2. /\ \A q \in Proc \ {p} : pc'[q] = pc[q] /\ task'[q] = task[q]
      /\ pc'[p] \in {"syncData", "writeCount", "store", "lock"} /\ task'[p] = "commit"
  BY DEF Commit, Syncing, Locked, ControlType
<1>3. QED
  BY <1>1, <1>2, ModifySound DEF Commit

-----------------------------------------------------------------------------
(* The beginning and the end of a journal.                                 *)

\* The new header says what the file has, and nothing was changed yet.
LEMMA OpenJournalSound ==
  ASSUME Inv, NEW p \in Proc, OpenJournal(p), UNCHANGED setup PROVE Sound'
<1> USE SetupType DEF Inv, Sound, LInv, IInv, Types
<1>0. PICK t, n, past : t = nextTxn /\ n = PageCount(p) /\ past = {g \in 1 .. setup.pages : g > n}
  OBVIOUS
<1>1. /\ linked = NoJournal /\ pc[p] = "openJournal" /\ task[p] = "begin" /\ ~Open(p) /\ Owns(p)
      /\ t \in Txn /\ t # NoJournal /\ n \in 0 .. NPage /\ past \subseteq Page
      /\ dirty[p] = {} /\ needSync[p] = {} /\ inJournal[p] = {} /\ st[p] # "unlock"
  <2>1. pc[p] = "openJournal" /\ task[p] = "begin" /\ ~Open(p) /\ Owns(p) /\ st[p] # "unlock"
    BY DEF OpenJournal, Place, Flags, Kept, Owns
  <2>2. t \in Txn /\ t # NoJournal /\ n \in 0 .. NPage
    BY <1>0, <2>1, PageCountType DEF OpenJournal, Numbered, Txn, Initial, NoJournal, RestType
  <2>3. dirty[p] = {} /\ needSync[p] = {} /\ inJournal[p] = {}
    BY <2>1 DEF Flags
  <2>4. QED
    BY <1>0, <2>1, <2>2, <2>3 DEF OpenJournal
<1>2. Sized(db, n) /\ Covers(n) /\ n # NoSize
  BY <1>0, <1>1, KnowsSized, SizedCovers DEF NoSize
<1>3. /\ linked' = t /\ linkedDisk' = linkedDisk \cup {t} /\ nextTxn' = t + 1
      /\ \A u \in Txn : /\ jSize'[u] = IF u = t THEN n ELSE jSize[u]
                        /\ jRecs'[u] = IF u = t THEN past ELSE jRecs[u]
                        /\ jCount'[u] = IF u = t THEN past ELSE jCount[u]
                        /\ jSegment'[u] = IF u = t THEN past ELSE jSegment[u]
      /\ UNCHANGED <<setup, locks, files, jOrig, jSynced, jCountDisk, st, pages, dirty, inJournal,
                     needSync, want, todo>>
  BY <1>0, <1>1 DEF OpenJournal, JournalsType
<1>4. /\ jfd'[p] = t /\ dbSize'[p] = n /\ dirfd'[p] = TRUE /\ started'[p] = FALSE /\ dirtyCache'[p] = FALSE
      /\ pc'[p] = "idle" /\ task'[p] = "none"
  BY <1>0, <1>1 DEF OpenJournal, Counted, FlagsType, PagersType, ControlType
<1>5. \A q \in Proc \ {p} : Own(q)' = Own(q) /\ (q \in reserved' => q \in reserved)
  BY DEF OpenJournal, Counted, Own, FlagsType, PagersType, ControlType
<1>6. \A h \in Page : ~Unsynced(h) /\ ~Unsynced(h)' /\ (\A u \in Txn \ {t} : Differs(u, h)' = Differs(u, h))
  BY <1>1, <1>3 DEF Unsynced, Differs, Lasting, OnlyName
<1>7. jRecs[t] = {} /\ jSynced[t] = {} /\ jCountDisk[t] = {} /\ \A h \in Page : jOrig[t][h] = 0
  <2>1. jRecs[t] = {} /\ jSynced[t] = {} /\ jCountDisk[t] = {} /\ jSize[t] = 0
    BY <1>0, <1>1 DEF Lasting, Recorded, RestType
  <2>2. \A h \in Page : jOrig[t][h] = 0
    BY <1>1, <2>1 DEF Lasting, Recorded, Page
  <2>3. QED
    BY <2>1, <2>2
<1>8. \A h \in past : db[h] = 0 /\ h > n /\ h \in Page
  BY <1>0, <1>1, <1>2 DEF Sized
<1>9. \A h \in Page : ~Differs(t, h)'
  BY <1>1, <1>3, <1>7, <1>8 DEF Differs
<1>10. Touched(t)' = {}
  BY <1>6, <1>9 DEF Touched
<1>11. \A h \in Page : Orig(t)'[h] = db[h]
  BY <1>1, <1>3, <1>7, <1>8 DEF Orig
<1>12. Names' = Names \cup {t} /\ Names \subseteq Txn \ {t}
  BY <1>0, <1>1, <1>3 DEF Names, NamesType, NeverEmpty, FirstPages, Used, RestType, Initial
<1>13. Lasting'
  <2>1. Recorded'
    <3>1. ASSUME NEW u \in Txn, u >= nextTxn' PROVE u # t /\ u >= nextTxn
      BY <3>1, <1>0, <1>1, <1>3 DEF Txn, Initial, RestType
    <3>2. jOrig' = jOrig /\ jSynced' = jSynced /\ jCountDisk' = jCountDisk
      BY <1>3
    <3>3. QED
      BY <3>1, <3>2, <1>1, <1>3, <1>7 DEF Lasting, Recorded
  <2>2. ASSUME NEW u \in Names PROVE Guarded(u)' /\ Whole(u)'
    <3>1. u \in Txn \ {t} /\ Guarded(u) /\ Whole(u)
      BY <1>12 DEF Lasting
    <3>2. Touched(u)' = Touched(u) /\ Durable(u)' = Durable(u) /\ Past(u)' = Past(u)
      BY <3>1, <1>3, <1>6 DEF Touched, Durable, Past
    <3>3. Rewriting(u)' = Rewriting(u) /\ Untouchable(u)' = Untouchable(u) /\ Orig(u)' = Orig(u)
      BY <3>1, <3>2, <1>3 DEF Rewriting, Untouchable, Single, Orig
    <3>4. QED
      BY <3>1, <3>2, <3>3, <1>3 DEF Guarded, Whole, Sized
  <2>3. Guarded(t)'
    BY <1>10 DEF Guarded
  <2>4. Whole(t)'
    <3>1. n > 0 => n \in Page
      BY <1>1 DEF Page
    <3>2. QED
      BY <3>1, <1>1, <1>2, <1>3, <1>11 DEF Whole, Sized
  <2>5. OnlyName'
    BY <1>3, <1>6, <1>9 DEF OnlyName
  <2>6. QED
    BY <1>12, <2>1, <2>2, <2>3, <2>4, <2>5 DEF Lasting
<1>14. Clean'
  BY <1>3, <1>9 DEF Clean
<1>15. Journaled(p)'
  <2>1. Past(t)' = past
    BY <1>0, <1>1, <1>3 DEF Past
  <2>2. \A h \in past : ~(h <= n)
    BY <1>0, <1>1
  <2>3. QED
    BY <2>1, <2>2, <1>1, <1>3, <1>4 DEF Journaled
<1>16. Synced(p)' /\ Changing(p)' /\ Fresh(p)'
  BY <1>1, <1>2, <1>3, <1>4, <1>9, <1>10 DEF Synced, Changing, Fresh
<1>17. Lives(p)' /\ Plays(p)' /\ Knows(p)' /\ Found(p)'
  BY <1>1, <1>3, <1>4, <1>14, <1>15, <1>16 DEF Lives, Plays, Knows, Found, Open
<1>18. Holds(p)' /\ Reads(p)'
  BY <1>1, <1>2, <1>3, <1>4 DEF Each, Holds, Reads, Reading, Cached, Owns, Checking, Covers
<1>19. QED
  BY <1>1, <1>3, <1>5, <1>13, <1>14, <1>17, <1>18, OwnedStep DEF Each

\* A journal goes when the file is whole without it.
LEMMA DeleteJournalSound ==
  ASSUME Inv, NEW p \in Proc, DeleteJournal(p), UNCHANGED setup PROVE Sound'
<1> USE SetupType DEF Inv, Sound, LInv, IInv, Types
<1> DEFINE t == jfd[p]
<1>1. /\ UNCHANGED <<setup, locks, db, disk, journals, pagers, pages, task, want, todo, nextTxn>>
      /\ pc[p] = "delete" /\ pc'[p] = "downgrade" /\ task[p] \in {"hot", "commit", "rollback"}
      /\ Open(p) /\ Owns(p) /\ t = linked /\ t \in Txn
      /\ jfd'[p] = NoJournal /\ dirty'[p] = {} /\ needSync'[p] = {} /\ inJournal'[p] = {}
  BY OpenType DEF DeleteJournal, ControlType, FlagsType, Place, NeverEmpty, Named
<1>2. \A q \in Proc \ {p} : Own(q)' = Own(q) /\ (q \in reserved' => q \in reserved)
  BY DEF DeleteJournal, Own, ControlType, FlagsType
<1>3. /\ linked' = NoJournal /\ linkedDisk' = linkedDisk \cup {NoJournal}
      /\ undone' = undone \cup {g \in Page : disk[g] # {db[g]}}
  BY DEF DeleteJournal, Unlink
<1>4. \A u, h : Differs(u, h)' = Differs(u, h)
  BY <1>1 DEF Differs
<1>5. \A h \in Page : ~Unsynced(h)'
  BY <1>1, <1>3 DEF Unsynced
<1>6. \A u : /\ Durable(u)' = Durable(u) /\ Past(u)' = Past(u) /\ Rewriting(u)' = Rewriting(u)
             /\ Untouchable(u)' = Untouchable(u) /\ Touched(u)' \subseteq Touched(u)
             /\ Orig(u)' = Orig(u)
  BY <1>1, <1>4, <1>5 DEF Durable, Past, Rewriting, Untouchable, Touched, Single, Orig
<1>7. Lasting'
  <2>1. Recorded' /\ Names' = Names
    BY <1>1, <1>3 DEF Lasting, Recorded, Names
  <2>2. \A u : Guarded(u) => Guarded(u)'
    BY <1>6 DEF Guarded
  <2>3. \A u : Whole(u) => Whole(u)'
    BY <1>1, <1>6 DEF Whole, Sized
  <2>4. OnlyName'
    BY <1>3, <1>5 DEF OnlyName
  <2>5. QED
    BY <2>1, <2>2, <2>3, <2>4 DEF Lasting
<1>8. Clean'
  BY <1>3 DEF Clean
<1>9. Knows(p)'
  <2>1. CASE task[p] = "hot"
    <3>1. dbSize[p] # NoSize /\ Sized(Orig(t), dbSize[p]) /\ \A h \in Page : ~Differs(t, h)
      BY <2>1, <1>1 DEF Each, Knows, Plays
    <3>2. \A h \in Page : Orig(t)[h] = db[h]
      BY <3>1 DEF Orig, Differs
    <3>3. dbSize[p] > 0 => dbSize[p] \in Page
      BY DEF PagersType, NoSize, Page
    <3>4. Sized(db, dbSize[p])
      BY <3>1, <3>2, <3>3 DEF Sized
    <3>5. QED
      BY <3>1, <3>4, <2>1, <1>1, KnowsFile DEF Owns
  <2>2. CASE task[p] # "hot"
    BY <2>2, <1>1 DEF Knows, Open
  <2>3. QED
    BY <2>1, <2>2
<1>10. Reads(p)'
  <2> SUFFICES ASSUME Reading(p), Live(p) PROVE Reads(p)'
    BY <1>1 DEF Reads, Reading, Live, Each, Holds
  <2>1. dirty[p] = {}
    BY <1>1 DEF Each, Lives, Changing
  <2>2. QED
    BY <2>1, <1>1 DEF Each, Reads, Covers, Cached
<1>11. Lives(p)' /\ Plays(p)' /\ Holds(p)' /\ Found(p)'
  BY <1>1, <1>8 DEF Each, Lives, Live, Plays, Holds, Found, Owns, Checking, Cached, Open
<1>12. QED
  BY <1>1, <1>2, <1>7, <1>8, <1>9, <1>10, <1>11, OwnedStep DEF Each

\* A journal is not found beside an empty database.
LEMMA DeleteOldJournalSound ==
  ASSUME Inv, NEW p \in Proc, DeleteOldJournal(p), UNCHANGED setup PROVE Sound'
<1>1. PageCount(p) = 0 /\ PageCount(p) \in 1 .. NPage
  BY NotZero DEF DeleteOldJournal, Inv, LInv
<1>2. QED
  BY <1>1, SizeAssumption

-----------------------------------------------------------------------------
(* The power fails.                                                        *)

\* What is lost was not needed: the file differs only in pages whose records
\* are durable, and counted by a header that was not being written.  The
\* journal that is found stands for what it stood for.
LEMMA PowerFailureSound ==
  ASSUME Inv, PowerFailure, UNCHANGED setup
  PROVE  /\ Sound'
         /\ \E t \in linkedDisk : /\ linked' = t /\ linkedDisk' = {t}
                                  /\ t # NoJournal => \A g \in Page : Orig(t)'[g] = Orig(t)[g]
<1> USE SetupType DEF Inv, Sound, LInv, IInv, Types
<1>1. undone = {} /\ setup.fullSync /\ (setup.tornSectors => Single(setup))
  BY DEF PowerFailure, Ordinary
<1>2. \A g \in Page : db'[g] \in disk[g] /\ disk'[g] = {db'[g]}
  <2>1. PICK f \in [{g \in Page : disk[g] # {db[g]}} -> Content] :
          /\ \A g \in DOMAIN f : f[g] \in disk[g]
          /\ db' = [g \in Page |-> IF g \in DOMAIN f THEN f[g] ELSE db[g]]
    BY DEF PowerFailure
  <2>2. disk' = [g \in Page |-> {db'[g]}]
    BY DEF PowerFailure
  <2>3. QED
    BY <2>1, <2>2 DEF FilesType
<1>3. undone' = {} /\ UNCHANGED <<jOrig, jSize, jSegment, nextTxn>>
  BY DEF PowerFailure
<1>4. \A g \in Page : ~Unsynced(g)'
  BY <1>2 DEF Unsynced
<1>5. PICK t \in linkedDisk :
        /\ linked' = t /\ linkedDisk' = {t}
        /\ IF t = NoJournal
           THEN UNCHANGED <<jRecs, jSynced, jCount, jCountDisk>>
           ELSE \E lost \in SUBSET (jRecs[t] \ jSynced[t]),
                   count \in {jCount[t], jCountDisk[t]} \cup
                      IF ~setup.tornSectors \/ jCount[t] = jCountDisk[t] THEN {}
                      ELSE {jCountDisk[t] \ jSegment[t]} :
                /\ jRecs' = [jRecs EXCEPT ![t] = @ \ lost]
                /\ jSynced' = [jSynced EXCEPT ![t] = jRecs'[t]]
                /\ jCount' = [jCount EXCEPT ![t] = count]
                /\ jCountDisk' = [jCountDisk EXCEPT ![t] = count]
  BY DEF PowerFailure
<1>6. ASSUME NEW q \in Proc PROVE Each(q)'
  <2>1. /\ st'[q] = "unlock" /\ pc'[q] = "idle" /\ task'[q] = "none" /\ ref'[q] = {}
        /\ cache'[q] = NoPages /\ jfd'[q] = NoJournal /\ dbSize'[q] = NoSize /\ want'[q] = 1
        /\ reserved' = {}
    BY DEF PowerFailure, Forget
  <2>2. Lives(q)' /\ Plays(q)' /\ Knows(q)'
    BY <2>1, KnowsNothing DEF Lives, Live, Plays, Open
  <2>3. Holds(q)' /\ Reads(q)' /\ Found(q)'
    BY <2>1 DEF Holds, Cached, NoPages, Checking, Reads, Reading, Found
  <2>4. QED
    BY <2>2, <2>3 DEF Each
<1>7. CASE t = NoJournal
  <2>1. UNCHANGED <<jRecs, jSynced, jCount, jCountDisk>> /\ linked' = NoJournal
    BY <1>5, <1>7
  <2>2. Recorded'
    BY <2>1, <1>3 DEF Lasting, Recorded
  <2>3. Names' = {}
    BY <1>5, <1>7 DEF Names
  <2>4. OnlyName'
    BY <2>1, <1>4 DEF OnlyName
  <2>5. QED
    BY <1>5, <1>6, <1>7, <2>2, <2>3, <2>4 DEF Lasting
<1>8. CASE t # NoJournal
  <2>1. t \in Names /\ t \in Txn /\ t < nextTxn /\ Guarded(t) /\ Whole(t)
    BY <1>8 DEF Names, NamesType, NeverEmpty, FirstPages, Used, RestType, Txn, Initial, Lasting
  <2>2. PICK lost, count :
          /\ lost \in SUBSET (jRecs[t] \ jSynced[t])
          /\ \/ count \in {jCount[t], jCountDisk[t]}
             \/ setup.tornSectors /\ jCount[t] # jCountDisk[t] /\ count = jCountDisk[t] \ jSegment[t]
          /\ jRecs' = [jRecs EXCEPT ![t] = @ \ lost]
          /\ jSynced' = [jSynced EXCEPT ![t] = jRecs'[t]]
          /\ jCount' = [jCount EXCEPT ![t] = count]
          /\ jCountDisk' = [jCountDisk EXCEPT ![t] = count]
    BY <1>5, <1>8
  <2>3. \A u \in Txn : /\ jRecs'[u] = IF u = t THEN jRecs[t] \ lost ELSE jRecs[u]
                       /\ jSynced'[u] = IF u = t THEN jRecs[t] \ lost ELSE jSynced[u]
                       /\ jCount'[u] = IF u = t THEN count ELSE jCount[u]
                       /\ jCountDisk'[u] = IF u = t THEN count ELSE jCountDisk[u]
    BY <2>1, <2>2 DEF JournalsType
  <2>4. Durable(t) \subseteq jCount[t] \cap jCountDisk[t] \cap jSynced[t] \cap jRecs[t]
    BY <2>1 DEF Durable, Lasting, Recorded
  <2>5. Durable(t) \cap lost = {}
    BY <2>2, <2>4
  <2>6. Touched(t) \subseteq count /\ (Touched(t) # {} => Past(t) \subseteq count)
    <3>1. CASE count \in {jCount[t], jCountDisk[t]}
      BY <3>1, <2>1, <2>4 DEF Guarded
    <3>2. CASE setup.tornSectors /\ jCount[t] # jCountDisk[t] /\ count = jCountDisk[t] \ jSegment[t]
      <4>1. Touched(t) \cap Untouchable(t) = {}
        BY <3>2, <1>1, <2>1 DEF Guarded, Rewriting
      <4>2. Touched(t) # {} => Past(t) \cap jSegment[t] = {}
        BY <4>1 DEF Untouchable, Touched
      <4>3. Touched(t) \cap jSegment[t] = {}
        BY <4>1, <4>2 DEF Untouchable
      <4>4. QED
        BY <3>2, <4>2, <4>3, <2>1, <2>4 DEF Guarded
    <3>3. QED
      BY <3>1, <3>2, <2>2
  <2>7. ASSUME NEW g \in Page, g \notin Touched(t)
        PROVE  db'[g] = db[g] /\ (g \in jRecs[t] => db[g] = jOrig[t][g])
    BY <2>7, <1>1, <1>2 DEF Touched, Unsynced, Differs
  <2>8. Touched(t)' \subseteq Touched(t)
    <3>1. ASSUME NEW g \in Page, Differs(t, g)' PROVE g \in Touched(t)
      BY <3>1, <1>3, <2>1, <2>3, <2>7 DEF Differs
    <3>2. QED
      BY <3>1, <1>4 DEF Touched
  <2>9. Guarded(t)'
    <3>1. Durable(t)' = count \cap (jRecs[t] \ lost) /\ Past(t)' = Past(t)
      BY <1>3, <2>1, <2>3 DEF Durable, Past
    <3>2. ~Rewriting(t)'
      BY <2>1, <2>3 DEF Rewriting
    <3>3. Touched(t) \subseteq Durable(t) /\ (Touched(t) # {} => Past(t) \subseteq Durable(t))
      BY <2>1 DEF Guarded
    <3>4. Touched(t) \subseteq Durable(t)' /\ (Touched(t) # {} => Past(t) \subseteq Durable(t)')
      BY <3>1, <3>3, <2>4, <2>5, <2>6
    <3>5. QED
      BY <3>1, <3>2, <3>4, <2>8 DEF Guarded
  <2>10. \A g \in Page : Orig(t)'[g] = Orig(t)[g]
    <3>1. ASSUME NEW g \in Page, g \notin jRecs'[t] PROVE g \notin Touched(t)
      BY <3>1, <2>1, <2>3, <2>4, <2>5 DEF Guarded
    <3>2. QED
      BY <3>1, <1>3, <2>1, <2>3, <2>7 DEF Orig
  <2>11. Whole(t)'
    <3>1. jSize[t] > 0 => jSize[t] \in Page
      BY <2>1 DEF JournalsType, Page
    <3>2. QED
      BY <3>1, <1>3, <2>1, <2>10 DEF Whole, Sized
  <2>12. Recorded'
    <3>1. \A u \in Txn : u >= nextTxn => u # t
      BY <2>1 DEF Txn, Initial, RestType
    <3>2. QED
      BY <3>1, <1>3, <2>3 DEF Lasting, Recorded
  <2>13. Names' = {t} /\ OnlyName'
    BY <1>4, <1>5, <1>8 DEF Names, OnlyName
  <2>14. QED
    BY <1>5, <1>6, <2>9, <2>10, <2>11, <2>12, <2>13 DEF Lasting
<1>9. QED
  BY <1>7, <1>8

-----------------------------------------------------------------------------
(* The invariant.                                                          *)

LEMMA InitSound == Init /\ Ordinary(setup) => Sound
<1> SUFFICES ASSUME Init, Ordinary(setup) PROVE Sound
  OBVIOUS
<1>1. setup.size \in 0 .. NPage /\ setup.pages \in 1 .. NPage /\ NPage \in Nat /\ setup.users \subseteq Proc
  BY SetupAssumption, SizeAssumption DEF Init
<1>2. \A u \in Txn : /\ jOrig[u] = [g \in Page |-> 0] /\ jSize[u] = 0 /\ jRecs[u] = {} /\ jSynced[u] = {}
                     /\ jCount[u] = {} /\ jCountDisk[u] = {}
  BY DEF Init
<1>3. linked = NoJournal /\ linkedDisk = {NoJournal} /\ undone = {}
      /\ \A g \in Page : disk[g] = {db[g]}
  BY DEF Init
<1>4. Lasting
  BY <1>2, <1>3 DEF Lasting, Recorded, Names, OnlyName, Unsynced
<1>5. ASSUME NEW p \in Proc PROVE Each(p)
  <2>1. /\ st[p] = "unlock" /\ pc[p] = "idle" /\ task[p] = "none" /\ ref[p] = {}
        /\ cache[p] = NoPages /\ jfd[p] = NoJournal /\ dbSize[p] = NoSize /\ want[p] = 1
        /\ reserved = {}
    BY DEF Init, Lock!Init
  <2>2. Lives(p) /\ Plays(p) /\ Knows(p)
    BY <2>1 DEF Lives, Live, Plays, Open, Knows
  <2>3. Holds(p) /\ Reads(p) /\ Found(p)
    BY <2>1, <1>1 DEF Holds, Cached, NoPages, Checking, Reads, Reading, Found
  <2>4. QED
    BY <2>2, <2>3 DEF Each
<1>6. QED
  BY <1>4, <1>5 DEF Sound

\* Nothing changes when no step is taken.
LEMMA StutterSound == ASSUME Inv, UNCHANGED <<setup, vars>> PROVE Sound'
<1>1. UNCHANGED <<setup, files, names, journals, nextTxn, reserved>> /\ \A q \in Proc : Own(q)' = Own(q)
  BY DEF vars, Own
<1>2. QED
  BY <1>1, LastingSame, OthersSame DEF Inv, Sound

LEMMA SoundStep == Inv /\ [Next]_<<setup, vars>> => Sound'
<1> SUFFICES ASSUME Inv, [Next]_<<setup, vars>> PROVE Sound'
  OBVIOUS
<1>1. CASE UNCHANGED <<setup, vars>>
  BY <1>1, StutterSound
<1>2. CASE Next
  <2>1. UNCHANGED setup
    BY <1>2 DEF Next
  <2>2. ASSUME NEW p \in Proc, HotJournal(p) PROVE Sound'
    BY <2>1, <2>2, JournalExistsSound, CheckReservedSound, JournalIsHotSound, DeleteOldJournalSound,
       OpenHotJournalSound, NoHotJournalSound, GetFirstSound DEF HotJournal
  <2>3. ASSUME NEW p \in Proc, LockShared(p) \/ Recycle(p) \/ SyncJournal(p) PROVE Sound'
    BY <2>1, <2>3, LockSharedSound, RecycleCleanSound, RecycleDirtySound, SpillSound,
       SyncRecordsSound, WriteCountSound, SyncCountSound DEF Recycle, SyncJournal
  <2>4. ASSUME NEW p \in Proc, LockStep(p) \/ Crash(p) PROVE Sound'
    BY <2>1, <2>4, LockPendingSound, LockExclusiveSound, LockBusySound, CrashSound DEF LockStep
  <2>5. ASSUME NEW p \in Proc, Transaction(p) PROVE Sound'
    BY <2>1, <2>5, HasLock, BeginSound, EndNoJournalSound, BeginAgainSound, OpenJournalSound,
       CannotOpenJournalSound, CommitNothingSound, CommitSound, SyncDatabaseSound,
       DeleteJournalSound, DowngradeSound, RollbackCacheSound, RollbackFileSound, TruncateSound
       DEF Transaction, Inv
  <2>6. ASSUME NEW p \in Proc, NEW g \in Page, PageStep(p, g) PROVE Sound'
    BY <2>1, <2>6, GetSound, GetFullSound, UnrefSound, WriteSound, StorePageSound,
       PlaybackPageSound DEF PageStep
  <2>7. ASSUME PowerFailure PROVE Sound'
    BY <2>1, <2>7, PowerFailureSound
  <2>8. QED
    BY <1>2, <2>2, <2>3, <2>4, <2>5, <2>6, <2>7 DEF Next
<1>3. QED
  BY <1>1, <1>2

LEMMA InvHolds == ASSUME \A s \in Setups : Ordinary(s) PROVE Spec => []Inv
<1>1. Init => Inv
  <2>1. Init => Ordinary(setup)
    BY DEF Init
  <2>2. Init => NeverEmpty
    BY InitNeverEmpty DEF Ordinary
  <2>3. QED
    BY <2>1, <2>2, LockedInit, InitSound DEF Inv
<1>2. Inv /\ [Next]_<<setup, vars>> => Inv'
  <2>1. [Next]_<<setup, vars>> => UNCHANGED setup
    BY DEF Next
  <2>2. Inv /\ [Next]_<<setup, vars>> => NeverEmpty'
    BY NeverEmptyStep DEF Inv
  <2>3. Inv => LInv /\ Ordinary(setup) /\ ~setup.usedUnlocked
    BY DEF Inv, Ordinary
  <2>4. Ordinary(setup) /\ UNCHANGED setup => Ordinary(setup)'
    BY DEF Ordinary
  <2>5. QED
    BY <2>1, <2>2, <2>3, <2>4, SoundStep, LockedStep DEF Inv
<1>3. QED
  BY <1>1, <1>2, PTL DEF Spec

-----------------------------------------------------------------------------
(* The theorems.                                                           *)

\* "It is not safe to modify the original database file until after the
\* journal has been synced": while a write of the file may be lost, the name
\* of the journal is on the disk, and in the journal the original page,
\* counted by a header that is on the disk too.
THEOREM PagerWriteAhead ==
  ASSUME \A s \in Setups : Ordinary(s)
  PROVE  Spec => []WriteAhead
<1>1. Inv => WriteAhead
  <2> SUFFICES ASSUME Inv, NEW g \in Page, disk[g] # {db[g]}, g \notin undone, NEW t \in linkedDisk
               PROVE  t # NoJournal /\ g \in jCountDisk[t] /\ g \in jSynced[t]
    BY DEF WriteAhead
  <2>1. linked # NoJournal /\ t = linked /\ t \in Names
    BY DEF Inv, Sound, Lasting, OnlyName, Unsynced, Names
  <2>2. g \in Durable(t)
    BY <2>1 DEF Inv, Sound, Lasting, Guarded, Touched, Unsynced
  <2>3. QED
    BY <2>1, <2>2 DEF Durable
<1>2. QED
  BY <1>1, InvHolds, PTL

\* A reader's cache is the file: the pages that are not dirty have its
\* content, and outside a transaction the remembered size is its size.
THEOREM PagerCacheIsCurrent ==
  ASSUME \A s \in Setups : Ordinary(s)
  PROVE  Spec => []CacheIsCurrent
<1>1. Inv => CacheIsCurrent
  <2> SUFFICES ASSUME Inv, NEW p \in Proc, Reading(p)
               PROVE  /\ \A g \in Cached(p) \ dirty[p] : cache[p][g] = db[g]
                      /\ ~InTransaction(p) => PageCount(p) = Size(db)
    BY DEF CacheIsCurrent
  <2> USE DEF Inv, Sound
  <2>1. \A g \in Cached(p) \ dirty[p] : cache[p][g] = db[g]
    BY DEF Each, Reads
  <2>2. ASSUME ~InTransaction(p), dbSize[p] # NoSize PROVE dbSize[p] = Size(db)
    <3>1. ~Open(p) /\ pc[p] # "failed" /\ (pc[p] = "downgrade" => task[p] = "hot")
      BY <2>2 DEF InTransaction, Reading, Open, LInv, IInv, Place
    <3>2. Sized(db, dbSize[p]) /\ dbSize[p] \in 0 .. NPage
      BY <2>2, <3>1 DEF Each, Knows, LInv, IInv, Types, PagersType
    <3>3. QED
      BY <3>2, SizedIsSize
  <2>3. QED
    BY <2>1, <2>2 DEF PageCount
<1>2. QED
  BY <1>1, InvHolds, PTL

\* In full-sync mode a header is never written again once the file depends on
\* the records it counts, if nobody else uses the file: a transaction that was
\* refused EXCLUSIVE in its commit may go on and does write it again.
THEOREM PagerHeaderIsFinal ==
  ASSUME \A s \in Setups : Ordinary(s) /\ (s.fullSync => Single(s))
  PROVE  Spec => []HeaderIsFinal
<1>1. Spec => [](Inv /\ (setup.fullSync => Single(setup)))
  <2>1. Init => (setup.fullSync => Single(setup))
    BY DEF Init
  <2>2. (setup.fullSync => Single(setup)) /\ [Next]_<<setup, vars>> => (setup.fullSync => Single(setup))'
    BY DEF Next, Single
  <2>3. Spec => []Inv
    BY InvHolds
  <2>4. QED
    BY <2>1, <2>2, <2>3, PTL DEF Spec
<1>2. Inv /\ (setup.fullSync => Single(setup)) => HeaderIsFinal
  <2> SUFFICES ASSUME Inv, setup.fullSync, Single(setup), NEW p \in Proc, pc[p] = "writeCount",
                      NEW g \in jSegment[jfd[p]]
               PROVE  db[g] = jOrig[jfd[p]][g]
    BY DEF HeaderIsFinal
  <2>1. Live(p) /\ jfd[p] \in Txn
    BY OpenType DEF Inv, LInv, IInv, Place, Live
  <2>2. Journaled(p) /\ Fresh(p)
    BY <2>1 DEF Inv, Sound, Each, Lives, Ending
  <2>3. g \in Page /\ g \in jRecs[jfd[p]]
    BY <2>1, <2>2 DEF Journaled, Inv, LInv, IInv, Types, JournalsType
  <2>4. QED
    BY <2>2, <2>3 DEF Fresh, Touched, Differs
<1>3. QED
  BY <1>1, <1>2, PTL

-----------------------------------------------------------------------------
(* It implements AtomicStore: what the journals a power failure may bring  *)
(* back stand for is the store, or the store as it was before the last     *)
(* commit.                                                                 *)

\* What a journal's name may bring back.
History == \A t \in Names : Orig(t) \in {Store, before}

View == [p \in Proc |-> IF Reading(p) THEN Sees(p) ELSE NoPages]

\* What p reads: its own changes, and the file.
Shown(p) == [g \in Page |-> IF g \in dirty[p] THEN cache[p][g] ELSE db[g]]

Readers ==
    \A p \in Proc : Reading(p) => /\ Sees(p) = Shown(p) /\ st[p] # "unlock"
                                  /\ ~Open(p) => Shown(p) = Store
Writers ==
    /\ \A p \in Proc : InTransaction(p) => TheWriter = p /\ Owns(p)
    /\ (\A p \in Proc : ~InTransaction(p)) => TheWriter = NoProc
Stored ==
    /\ linked = NoJournal => Store = db
    /\ linked # NoJournal => Store = Orig(linked) /\ linked \in Names
Known == Inv /\ Readers /\ Writers /\ Stored

-----------------------------------------------------------------------------
(* What the invariant says of the abstract state.                          *)

\* The database is the file as the journal with the name found it.
LEMMA StoreIs == Inv => Stored /\ (Clean => Store = db)
<1> SUFFICES ASSUME Inv PROVE Stored /\ (Clean => Store = db)
  OBVIOUS
<1> USE DEF Inv, LInv, IInv, Types
<1>1. db = [g \in Page |-> db[g]]
  BY DEF FilesType
<1>2. ASSUME linked = NoJournal PROVE Store = db
  BY <1>1, <1>2 DEF Store, Playback
<1>3. ASSUME linked # NoJournal PROVE Store = Orig(linked) /\ linked \in Names
  <2>1. linked \in Names /\ linked \in Txn
    BY <1>3 DEF NamesType, Names
  <2>2. Restored(linked) \subseteq jRecs[linked]
    BY DEF Restored
  <2>3. ASSUME NEW g \in Page, g \in jRecs[linked], g \notin Restored(linked)
        PROVE  db[g] = jOrig[linked][g]
    <3>1. ~Differs(linked, g)
      BY <1>3, <2>1, <2>3, DiffersGuarded, DurableRestored DEF Guarded
    <3>2. QED
      BY <2>3, <3>1 DEF Differs
  <2>4. QED
    BY <1>3, <2>1, <2>2, <2>3 DEF Store, Playback, Orig
<1>4. ASSUME linked # NoJournal, Clean PROVE Store = db
  <2>1. \A g \in Page : Orig(linked)[g] = db[g]
    BY <1>4 DEF Clean, Orig, Differs
  <2>2. QED
    BY <1>1, <1>3, <1>4, <2>1 DEF Orig
<1>5. QED
  BY <1>2, <1>3, <1>4 DEF Stored

\* A reader has a lock, and its pages are those of the file but for the ones it
\* changed; outside a transaction it reads the store.
LEMMA ReadersRead == Inv => Readers
<1> SUFFICES ASSUME Inv, NEW p \in Proc, Reading(p)
             PROVE  /\ Sees(p) = Shown(p) /\ st[p] # "unlock"
                    /\ ~Open(p) => Shown(p) = Store
  BY DEF Readers
<1> USE DEF Inv, LInv, IInv, Types
<1>1. Each(p) /\ Flags(p)
  BY DEF Sound
<1>2. st[p] # "unlock" /\ ~Checking(p)
  BY <1>1 DEF Each, Holds, Reading
<1>3. \A g \in Page : FromFile(p, g) = db[g]
  BY <1>1, CoversRead DEF Each, Reads
<1>4. Sees(p) = Shown(p)
  <2>1. dirty[p] \subseteq Cached(p)
    BY <1>1 DEF Flags
  <2>2. QED
    BY <1>1, <1>3, <2>1 DEF Each, Reads, Sees, Shown
<1>5. ASSUME ~Open(p) PROVE Shown(p) = Store
  <2>1. dirty[p] = {}
    BY <1>5, <1>1 DEF Flags
  <2>2. Store = db
    BY <1>1, <1>2, <1>5, StoreIs DEF Each, Found
  <2>3. db = [g \in Page |-> db[g]]
    BY DEF FilesType
  <2>4. QED
    BY <2>1, <2>2, <2>3 DEF Shown
<1>6. QED
  BY <1>2, <1>4, <1>5

\* Only the process that has RESERVED is in a transaction.
LEMMA WriterIs == Inv => Writers
<1> SUFFICES ASSUME Inv PROVE Writers
  OBVIOUS
<1> DEFINE W == {p \in Proc : InTransaction(p)}
<1>1. ASSUME NEW p \in Proc, InTransaction(p) PROVE Owns(p)
  BY <1>1, OpenOwns DEF Inv, LInv, IInv, Types, ControlType, Label, Place, Owns, InTransaction, Open
<1>2. ASSUME NEW p \in Proc, InTransaction(p) PROVE TheWriter = p
  <2>1. W = {p}
    BY <1>1, <1>2, OneOwner DEF Inv, LInv
  <2>2. TheWriter = IF W = {} THEN NoProc ELSE CHOOSE q \in W : TRUE
    BY DEF TheWriter
  <2>3. (CHOOSE q \in W : TRUE) \in W
    BY <2>1
  <2>4. QED
    BY <2>1, <2>2, <2>3
<1>3. ASSUME \A p \in Proc : ~InTransaction(p) PROVE TheWriter = NoProc
  BY <1>3 DEF TheWriter
<1>4. QED
  BY <1>1, <1>2, <1>3 DEF Writers

LEMMA InvKnown == Inv => Known
BY StoreIs, ReadersRead, WriterIs DEF Known

-----------------------------------------------------------------------------
(* Steps of AtomicStore.                                                   *)

\* The store and what it was stay.
Same == Store' = Store /\ before' = before /\ History'
Refines == Abstract!Next \/ UNCHANGED Abstract!vars

\* The others go on as they were: they read the same, and none becomes a writer.
Others(p) == \A q \in Proc \ {p} : Own(q)' = Own(q)
OthersSee(p) == \A q \in Proc \ {p} : View'[q] = View[q] /\ InTransaction(q)' = InTransaction(q)

LEMMA OthersSeeIt ==
  ASSUME Known, NEW p \in Proc, Others(p), UNCHANGED db \/ st[p] \in {"exclusive", "synced"}
  PROVE  OthersSee(p)
<1> SUFFICES ASSUME NEW q \in Proc \ {p}
             PROVE  View'[q] = View[q] /\ InTransaction(q)' = InTransaction(q)
  BY DEF OthersSee
<1>1. Own(q)' = Own(q)
  BY DEF Others
<1>2. Reading(q)' = Reading(q) /\ InTransaction(q)' = InTransaction(q)
  BY <1>1 DEF Own, Reading, InTransaction
<1>3. Reading(q) => UNCHANGED db
  BY Apart DEF Known, Readers, Inv
<1>4. Reading(q) => Sees(q)' = Sees(q)
  BY <1>1, <1>3 DEF Own, Sees, Cached, FromFile, PageCount
<1>5. QED
  BY <1>2, <1>4 DEF View

\* The writer is known by who is in a transaction.
LEMMA WriterKept ==
  ASSUME Known, Known', NEW p \in Proc, OthersSee(p), InTransaction(p)' = InTransaction(p)
  PROVE  TheWriter' = TheWriter
BY DEF Known, Writers, OthersSee

\* A step that the abstract store does not see, and one that ends reading.
LEMMA Unseen ==
  ASSUME Known, Known', NEW p \in Proc, OthersSee(p), Same,
         \/ ~Reading(p)'
         \/ /\ Reading(p) /\ Reading(p)' /\ Shown(p)' = Shown(p)
            /\ InTransaction(p)' = InTransaction(p)
  PROVE  Refines
<1>1. CASE ~Reading(p)'
  <2>1. View' = [View EXCEPT ![p] = NoPages]
    BY <1>1 DEF View, OthersSee
  <2>2. ~InTransaction(p)'
    BY <1>1 DEF InTransaction
  <2>3. TheWriter' = IF TheWriter = p THEN NoProc ELSE TheWriter
    <3>1. CASE InTransaction(p)
      <4>1. TheWriter = p /\ \A q \in Proc \ {p} : ~InTransaction(q)
        BY <3>1 DEF Known, Writers
      <4>2. \A q \in Proc : ~InTransaction(q)'
        BY <2>2, <4>1 DEF OthersSee
      <4>3. QED
        BY <4>1, <4>2 DEF Known, Writers
    <3>2. CASE ~InTransaction(p)
      <4>1. TheWriter' = TheWriter
        <5>1. InTransaction(p)' = InTransaction(p)
          BY <2>2, <3>2 DEF InTransaction
        <5>2. QED
          BY <5>1, WriterKept
      <4>2. TheWriter # p
        BY <3>2, ProcAssumption DEF Known, Writers
      <4>3. QED
        BY <4>1, <4>2
    <3>3. QED
      BY <3>1, <3>2
  <2>4. Abstract!EndRead(p)
    BY <2>1, <2>3 DEF Abstract!EndRead, View, Same
  <2>5. QED
    BY <2>4 DEF Refines, Abstract!Next
<1>2. CASE /\ Reading(p) /\ Reading(p)' /\ Shown(p)' = Shown(p)
           /\ InTransaction(p)' = InTransaction(p)
  <2>1. View' = View
    BY <1>2 DEF View, OthersSee, Known, Readers
  <2>2. TheWriter' = TheWriter
    BY <1>2, WriterKept
  <2>3. QED
    BY <2>1, <2>2 DEF Refines, Abstract!vars, View, Same
<1>3. QED
  BY <1>1, <1>2

-----------------------------------------------------------------------------
(* Steps that leave the store as it is.                                    *)

LEMMA StoreSame ==
  ASSUME Known, Known', History, UNCHANGED <<before, linked>>, Names' \subseteq Names,
         \A t \in Names : Orig(t)' = Orig(t), linked = NoJournal => UNCHANGED db
  PROVE  Same
<1>1. Store' = Store
  BY DEF Known, Stored
<1>2. QED
  BY <1>1 DEF Same, History

LEMMA FilesSame ==
  ASSUME Known, Known', History, UNCHANGED <<db, linked, linkedDisk, jOrig, jRecs, before>>
  PROVE  Same
BY StoreSame DEF Orig, Names

\* A step after which p does not read.
LEMMA Leaves ==
  ASSUME Known, Known', History, NEW p \in Proc, Others(p), ~Reading(p)',
         UNCHANGED <<db, linked, linkedDisk, jOrig, jRecs, before>>
  PROVE  Refines /\ History'
BY OthersSeeIt, FilesSame, Unseen DEF Same

\* A step that p, which reads, goes on from with the same pages.
LEMMA Stays ==
  ASSUME Known, Known', History, NEW p \in Proc, Others(p), Reading(p), Reading(p)',
         InTransaction(p)' = InTransaction(p),
         \A g \in dirty[p] : cache'[p][g] = cache[p][g], dirty'[p] = dirty[p],
         UNCHANGED <<db, linked, jOrig, jRecs, before>>, Names' \subseteq Names
  PROVE  Refines /\ History'
<1>1. Shown(p)' = Shown(p)
  BY DEF Shown
<1>2. \A t : Orig(t)' = Orig(t)
  BY DEF Orig
<1>3. QED
  BY <1>1, <1>2, OthersSeeIt, StoreSame, Unseen DEF Same

-----------------------------------------------------------------------------
(* Looking for a hot journal, and the first page.                          *)

LEMMA BeforeReading ==
  ASSUME Known, Known', History, NEW p \in Proc,
         \/ LockShared(p) \/ JournalExists(p) \/ CheckReserved(p) \/ JournalIsHot(p)
         \/ OpenHotJournal(p) \/ NoHotJournal(p)
  PROVE  Refines /\ History'
<1> USE DEF Known, Inv, LInv, IInv, Types, Goto, Doing, files, names, journals, pages, rest, pagers, flags
<1>1. ref[p] = {} /\ UNCHANGED <<ref, db, linked, linkedDisk, jOrig, jRecs, before>>
  BY DEF LockShared, JournalExists, CheckReserved, JournalIsHot, OpenHotJournal, NoHotJournal,
         Sound, Each, Holds, Checking
<1>2. Others(p)
  BY DEF LockShared, JournalExists, CheckReserved, JournalIsHot, OpenHotJournal, NoHotJournal,
         BusyForHot, GiveUp, ForgetSize, Counted, Others, Own, ControlType, PagersType, FlagsType
<1>3. ~Reading(p)'
  BY <1>1 DEF Reading
<1>4. QED
  BY <1>1, <1>2, <1>3, Leaves

LEMMA ReadsFirst ==
  ASSUME Known, Known', History, NEW p \in Proc, GetFirst(p) PROVE Refines /\ History'
<1> USE DEF Known, Inv, LInv, IInv, Types, Goto, Doing, files, names, journals, pages, rest, pagers, flags
<1>1. UNCHANGED <<db, linked, linkedDisk, jOrig, jRecs, before>> /\ Others(p)
  BY DEF GetFirst, Counted, Others, Own, ControlType, PagersType, PagesType
<1>2. Same /\ OthersSee(p)
  BY <1>1, FilesSame, OthersSeeIt
<1>3. /\ ref[p] = {} /\ ref'[p] = {1} /\ pc'[p] = "idle" /\ task'[p] = "none"
      /\ ~Open(p) /\ ~Open(p)'
  BY Places DEF GetFirst, Sound, Each, Holds, PagesType, ControlType, Open
<1>4. ~Reading(p) /\ Reading(p)' /\ ~InTransaction(p) /\ ~InTransaction(p)'
  BY <1>3 DEF Reading, InTransaction, Open
<1>5. View[p] = NoPages /\ View' = [View EXCEPT ![p] = Store]
  BY <1>2, <1>3, <1>4 DEF View, OthersSee, Readers, Same
<1>6. TheWriter' = TheWriter
  <2>1. InTransaction(p)' = InTransaction(p)
    BY <1>4 DEF InTransaction
  <2>2. QED
    BY <1>2, <2>1, WriterKept
<1>7. Abstract!StartRead(p)
  BY <1>2, <1>5, <1>6 DEF Abstract!StartRead, View, Same
<1>8. QED
  BY <1>2, <1>7 DEF Refines, Abstract!Next, Same

-----------------------------------------------------------------------------
(* Getting and releasing pages.                                            *)

LEMMA GetsPage ==
  ASSUME Known, Known', History, NEW p \in Proc, NEW g \in Page, Get(p, g)
  PROVE  Refines /\ History'
<1> USE DEF Known, Inv, LInv, IInv, Types, Goto, Doing, files, names, journals, pages, rest, pagers, flags
<1>1. /\ UNCHANGED <<db, linked, linkedDisk, jOrig, jRecs, before, dirty, jfd, pc, task>>
      /\ Others(p) /\ Names' = Names
  BY DEF Get, Counted, Others, Own, PagersType, PagesType, Names
<1>2. Reading(p) /\ Reading(p)' /\ InTransaction(p)' = InTransaction(p)
  <2>1. ref[p] # {} /\ ref'[p] = ref[p] \cup {g} /\ pc[p] = "idle" /\ task[p] = "none"
    BY Places DEF Get, Calls, PagesType
  <2>2. QED
    BY <1>1, <2>1 DEF Reading, InTransaction
<1>3. \A h \in dirty[p] : cache'[p][h] = cache[p][h]
  <2>1. dirty[p] \subseteq Cached(p) /\ Cached(p) \subseteq Page
    BY DEF Flags, Cached
  <2>2. CASE UNCHANGED cache
    BY <2>2
  <2>3. CASE g \notin Cached(p) /\ cache' = [cache EXCEPT ![p] = Fetched(p, g, @)]
    BY <2>1, <2>3 DEF Fetched, PagesType
  <2>4. QED
    BY <2>2, <2>3 DEF Get
<1>4. QED
  BY <1>1, <1>2, <1>3, Stays

\* The slot of a clean or of a written page is used: no other page changes.
LEMMA ReplacedSeen ==
  ASSUME Known, NEW p \in Proc, NEW g \in Recyclable(p), Replace(p, g), task[p] = "recycle",
         pc[p] # "failed", UNCHANGED jfd, dirty'[p] = dirty[p] \ {g}
  PROVE  /\ Reading(p) /\ Reading(p)' /\ InTransaction(p)' = InTransaction(p)
         /\ \A h \in dirty'[p] : cache'[p][h] = cache[p][h]
<1> USE DEF Known, Inv, LInv, IInv, Types, Goto, Doing
<1>1. /\ ref[p] # {} /\ ref'[p] # {} /\ want[p] \notin Cached(p)
      /\ pc'[p] = "idle" /\ task'[p] = "none"
  BY DEF Flags, Replace, PagesType, ControlType
<1>2. Reading(p) /\ Reading(p)' /\ InTransaction(p)' = InTransaction(p)
  BY <1>1 DEF Reading, InTransaction
<1>3. ASSUME NEW h \in dirty[p] \ {g} PROVE cache'[p][h] = cache[p][h]
  <2>1. h \in Cached(p) /\ h \in Page /\ h # want[p]
    BY <1>1 DEF Flags, Cached
  <2>2. want[p] \in Page /\ [cache[p] EXCEPT ![g] = NotCached] \in [Page -> Content \cup {NotCached}]
    BY DEF RestType, PagesType, NotCached
  <2>3. Fetched(p, want[p], [cache[p] EXCEPT ![g] = NotCached])[h] = cache[p][h]
    BY <2>1, <2>2 DEF Fetched, PagesType
  <2>4. QED
    BY <2>3 DEF Replace, PagesType
<1>4. QED
  BY <1>2, <1>3

LEMMA MakesRoom ==
  ASSUME Known, Known', History, NEW p \in Proc,
         RecycleClean(p) \/ RecycleDirty(p) \/ \E g \in Page : GetFull(p, g)
  PROVE  Refines /\ History'
<1> USE DEF Known, Inv, LInv, IInv, Types, Goto, Doing, files, names, journals, pages, rest, pagers, flags
<1>1. CASE RecycleClean(p)
  <2>1. PICK g \in Recyclable(p) \ dirty[p] : Replace(p, g)
    BY <1>1 DEF RecycleClean
  <2>2. pc[p] = "recycle" /\ task[p] = "recycle" /\ dirty'[p] = dirty[p] \ {g}
    BY <1>1 DEF RecycleClean, Place
  <2>3. /\ UNCHANGED <<db, linked, linkedDisk, jOrig, jRecs, before, dirty, jfd>>
        /\ Others(p) /\ Names' = Names
    BY <1>1, <2>1 DEF RecycleClean, Replace, Counted, Others, Own, PagersType, PagesType,
                      FlagsType, ControlType, RestType, Names
  <2>4. QED
    BY <2>1, <2>2, <2>3, ReplacedSeen, Stays
<1>2. CASE RecycleDirty(p)
  <2>1. /\ UNCHANGED <<db, linked, linkedDisk, jOrig, jRecs, before, dirty, jfd, cache, ref, task>>
        /\ Others(p) /\ Names' = Names
    BY <1>2 DEF RecycleDirty, Others, Own, ControlType, Names
  <2>2. /\ pc[p] = "recycle" /\ task[p] = "recycle" /\ pc'[p] # "failed" /\ ref[p] # {}
    BY <1>2 DEF RecycleDirty, Locked, Place, Flags, ControlType
  <2>3. Reading(p) /\ Reading(p)' /\ InTransaction(p)' = InTransaction(p)
    BY <2>1, <2>2 DEF Reading, InTransaction
  <2>4. QED
    BY <2>1, <2>3, Stays
<1>3. CASE \E g \in Page : GetFull(p, g)
  <2>1. /\ UNCHANGED <<db, linked, linkedDisk, jOrig, jRecs, before, dirty, jfd, cache, ref>>
        /\ Others(p) /\ Names' = Names
    BY <1>3 DEF GetFull, Others, Own, ControlType, RestType, Names
  <2>2. /\ pc[p] = "idle" /\ task[p] = "none" /\ pc'[p] # "failed" /\ ref[p] # {}
        /\ task'[p] = "recycle"
    BY <1>3, Places DEF GetFull, Calls, Syncing, ControlType
  <2>3. Reading(p) /\ Reading(p)' /\ InTransaction(p)' = InTransaction(p)
    BY <2>1, <2>2 DEF Reading, InTransaction
  <2>4. QED
    BY <2>1, <2>3, Stays
<1>4. QED
  BY <1>1, <1>2, <1>3

\* The last reference ends the reading.
LEMMA ReleasesPage ==
  ASSUME Known, Known', History, NEW p \in Proc, NEW g \in Page, Unref(p, g)
  PROVE  Refines /\ History'
<1> USE DEF Known, Inv, LInv, IInv, Types, Goto, Doing, files, names, journals, pages, rest, pagers, flags
<1>1. /\ UNCHANGED <<db, linked, linkedDisk, jOrig, jRecs, before, dirty, jfd, task>>
      /\ Others(p) /\ Names' = Names /\ ref'[p] = ref[p] \ {g}
  BY DEF Unref, GiveUp, LetGo, ForgetSize, EmptyCache, Others, Own, PagersType, PagesType, ControlType,
         Names
<1>2. CASE ~Reading(p)'
  BY <1>1, <1>2, Leaves
<1>3. CASE Reading(p)'
  <2>1. g # 1 /\ UNCHANGED <<cache, pc>>
    BY <1>1, <1>3 DEF Unref, Reading
  <2>2. Reading(p) /\ InTransaction(p)' = InTransaction(p)
    BY <1>1, <1>3, <2>1 DEF Reading, InTransaction
  <2>3. QED
    BY <1>1, <1>3, <2>1, <2>2, Stays
<1>4. QED
  BY <1>2, <1>3

-----------------------------------------------------------------------------
(* Locks, and the steps of a transaction that change no file.               *)

LEMMA Locks ==
  ASSUME Known, Known', History, NEW p \in Proc,
         \/ \E exFlag \in BOOLEAN : Begin(p, exFlag)
         \/ BeginAgain(p) \/ CannotOpenJournal(p) \/ LockPending(p) \/ LockExclusive(p)
         \/ LockBusy(p) \/ CommitNothing(p)
  PROVE  Refines /\ History'
<1> USE DEF Known, Inv, LInv, IInv, Types, Goto, Doing, files, names, journals, pages, rest, pagers, flags
<1>1. /\ UNCHANGED <<db, linked, linkedDisk, jOrig, jRecs, before, dirty, jfd, cache, ref>>
      /\ Names' = Names
  BY DEF Begin, BeginAgain, CannotOpenJournal, LockPending, LockExclusive, LockBusy, CommitNothing,
         Names
<1>2. Others(p)
  BY DEF Begin, BeginAgain, CannotOpenJournal, LockPending, LockExclusive, LockBusy, CommitNothing,
         BusyForHot, GiveUp, LetGo, ForgetSize, Counted, Others, Own, ControlType, PagersType
<1>3. CASE ~Reading(p)'
  BY <1>1, <1>2, <1>3, Leaves
<1>4. CASE Reading(p)'
  <2>1. Reading(p)
    <3>1. pc[p] # "failed"
      BY DEF Begin, BeginAgain, CannotOpenJournal, LockPending, LockExclusive, LockBusy,
             CommitNothing, Calls, Writing
    <3>2. task[p] # "rollback"
      BY Places DEF Begin, BeginAgain, CannotOpenJournal, LockPending, LockExclusive, LockBusy,
             CommitNothing, Calls, Writing, Place
    <3>3. QED
      BY <1>1, <1>4, <3>1, <3>2 DEF Reading
  <2>2. InTransaction(p)' = InTransaction(p)
    <3>1. CASE Open(p)
      BY <1>1, <1>4, <2>1, <3>1 DEF InTransaction, Open
    <3>2. CASE ~Open(p)
      <4>1. task[p] # "commit" /\ task'[p] # "commit"
        BY <3>2, Places DEF Begin, BeginAgain, CannotOpenJournal, LockPending, LockExclusive,
             LockBusy, CommitNothing, Calls, Writing, Place, Open, ControlType
      <4>2. QED
        BY <1>1, <1>4, <2>1, <3>2, <4>1 DEF InTransaction, Open
    <3>3. QED
      BY <3>1, <3>2
  <2>3. QED
    BY <1>1, <1>2, <1>4, <2>1, <2>2, Stays
<1>5. QED
  BY <1>3, <1>4

\* The journal is synced: of several names one stays.
LEMMA Syncs ==
  ASSUME Known, Known', History, NEW p \in Proc, SyncRecords(p) \/ WriteCount(p) \/ SyncCount(p)
  PROVE  Refines /\ History'
<1> USE DEF Known, Inv, LInv, IInv, Types, Goto, Doing, files, names, journals, pages, rest, pagers, flags
<1>1. UNCHANGED <<db, linked, jOrig, jRecs, before, dirty, jfd, cache, ref, task>>
  BY DEF SyncRecords, WriteCount, SyncCount, SyncJournalFile
<1>2. Others(p)
  BY DEF SyncRecords, WriteCount, SyncCount, SyncJournalFile, Others, Own, ControlType, FlagsType
<1>3. Names' \subseteq Names
  BY DEF SyncRecords, WriteCount, SyncCount, SyncJournalFile, Names, NamesType
<1>4. /\ Open(p) /\ task[p] \in {"recycle", "commit"} /\ pc[p] # "failed" /\ pc'[p] # "failed"
      /\ Live(p)
  BY DEF SyncRecords, WriteCount, SyncCount, Place, ControlType, Locked, Live
<1>5. ref[p] # {}
  BY <1>4 DEF Flags
<1>6. Reading(p) /\ Reading(p)' /\ InTransaction(p)' = InTransaction(p)
  BY <1>1, <1>4, <1>5 DEF Reading, InTransaction
<1>7. QED
  BY <1>1, <1>2, <1>3, <1>6, Stays

\* A rollback begins: the process reads no more.
LEMMA RollbackBegins ==
  ASSUME Known, Known', History, NEW p \in Proc, RollbackCache(p) \/ RollbackFile(p)
  PROVE  Refines /\ History'
<1> USE DEF Known, Inv, LInv, IInv, Types, Goto, Doing, files, names, journals, pages, rest, pagers, flags
<1>1. UNCHANGED <<db, linked, linkedDisk, jOrig, jRecs, before>> /\ task'[p] = "rollback"
  BY DEF RollbackCache, RollbackFile, ControlType
<1>2. Others(p)
  BY DEF RollbackCache, RollbackFile, Others, Own, ControlType, PagesType
<1>3. QED
  BY <1>1, <1>2, Leaves DEF Reading

-----------------------------------------------------------------------------
(* The file is written: a page whose original is in the only journal there  *)
(* may be.                                                                  *)

LEMMA FileSame ==
  ASSUME Known, Known', History, NEW W \in SUBSET Page, \A g \in Page \ W : db'[g] = db[g],
         UNCHANGED <<linked, linkedDisk, jOrig, jRecs, before>>,
         W # {} => linked # NoJournal /\ linkedDisk = {linked} /\ W \subseteq jRecs[linked]
  PROVE  Same
<1>1. Names' = Names /\ Names \subseteq Txn
  BY DEF Names, Known, Inv, LInv, IInv, Types, NamesType
<1>2. ASSUME NEW t \in Names PROVE Orig(t)' = Orig(t)
  <2>1. ASSUME NEW g \in Page, g \notin jRecs[t] PROVE db'[g] = db[g]
    BY <2>1 DEF Names
  <2>2. QED
    BY <2>1 DEF Orig
<1>3. linked = NoJournal => db' = db
  BY DEF Known, Inv, LInv, IInv, Types, FilesType
<1>4. QED
  BY <1>1, <1>2, <1>3, StoreSame

LEMMA Spills ==
  ASSUME Known, Known', History, NEW p \in Proc, Spill(p) PROVE Refines /\ History'
<1> USE DEF Known, Inv, LInv, IInv, Types, Goto, Doing, files, names, journals, pages, rest, pagers, flags
<1>1. PICK g \in Recyclable(p) \cap dirty[p] :
        /\ WritePage(g, cache[p][g]) /\ dirty' = [dirty EXCEPT ![p] = @ \ {g}] /\ Replace(p, g)
  BY DEF Spill
<1>2. /\ UNCHANGED <<undone, names, journals, before, jfd>> /\ dirty'[p] = dirty[p] \ {g}
      /\ pc[p] = "spill" /\ task[p] = "recycle" /\ st[p] = "exclusive" /\ Live(p)
      /\ g \in dirty[p] \ needSync[p] /\ g \in Page
  BY <1>1 DEF Spill, Place, Live, Recyclable, FlagsType
<1>3. Others(p)
  BY <1>1 DEF Spill, Replace, Counted, Others, Own, ControlType, PagersType, PagesType, FlagsType,
              RestType
<1>4. OthersSee(p)
  BY <1>2, <1>3, OthersSeeIt
<1>5. \A h \in Page \ {g} : db'[h] = db[h]
  BY <1>1 DEF WritePage, FilesType
<1>6. Same
  <2>1. /\ jfd[p] = linked /\ linked # NoJournal /\ linkedDisk = {linked} /\ g \in jRecs[linked]
    BY <1>2, MayWrite, DurableRestored DEF Sound, Each, NamesType
  <2>2. QED
    BY <1>2, <1>5, <2>1, FileSame
<1>7. /\ Reading(p) /\ Reading(p)' /\ InTransaction(p)' = InTransaction(p)
      /\ \A h \in dirty'[p] : cache'[p][h] = cache[p][h]
  BY <1>1, <1>2, ReplacedSeen
<1>8. Shown(p)' = Shown(p)
  <2>1. db'[g] = cache[p][g]
    BY <1>1, <1>2 DEF WritePage, FilesType
  <2>2. QED
    BY <1>2, <1>5, <1>7, <2>1 DEF Shown
<1>9. QED
  BY <1>4, <1>6, <1>7, <1>8, Unseen DEF Same

LEMMA Stores ==
  ASSUME Known, Known', History, NEW p \in Proc,
         SyncDatabase(p) \/ \E g \in Page : StorePage(p, g)
  PROVE  Refines /\ History'
<1> USE DEF Known, Inv, LInv, IInv, Types, Goto, Doing, files, names, journals, pages, rest, pagers, flags
<1>1. /\ UNCHANGED <<names, journals, before, jfd, ref, cache, task>>
      /\ pc[p] = "store" /\ task[p] = "commit" /\ st[p] = "exclusive" /\ Live(p)
      /\ Open(p) /\ pc'[p] # "failed" /\ needSync[p] = {}
  BY DEF SyncDatabase, StorePage, Place, Live, Flags, ControlType
<1>2. Others(p)
  BY DEF SyncDatabase, StorePage, Others, Own, ControlType, PagersType, FlagsType
<1>3. OthersSee(p)
  BY <1>1, <1>2, OthersSeeIt
<1>4. Reading(p) /\ Reading(p)' /\ InTransaction(p)' = InTransaction(p)
  <2>1. ref[p] # {}
    BY <1>1 DEF Flags
  <2>2. QED
    BY <1>1, <2>1 DEF Reading, InTransaction
<1>5. CASE SyncDatabase(p)
  <2>1. UNCHANGED <<db, dirty>>
    BY <1>5 DEF SyncDatabase
  <2>2. Same
    BY <1>1, <2>1, FilesSame
  <2>3. Shown(p)' = Shown(p)
    BY <1>1, <2>1 DEF Shown
  <2>4. QED
    BY <1>3, <1>4, <2>2, <2>3, Unseen DEF Same
<1>6. ASSUME NEW g \in Page, StorePage(p, g) PROVE Refines /\ History'
  <2>1. /\ WritePage(g, cache[p][g]) /\ dirty'[p] = dirty[p] \ {g} /\ g \in dirty[p] \ needSync[p]
        /\ db'[g] = cache[p][g]
    BY <1>1, <1>6 DEF StorePage, FlagsType, WritePage, FilesType
  <2>2. \A h \in Page \ {g} : db'[h] = db[h]
    BY <2>1 DEF WritePage, FilesType
  <2>3. /\ jfd[p] = linked /\ linked # NoJournal /\ linkedDisk = {linked} /\ g \in jRecs[linked]
    BY <1>1, <2>1, MayWrite, DurableRestored DEF Sound, Each, NamesType
  <2>4. Same
    <3>1. {g} \in SUBSET Page /\ {g} \subseteq jRecs[linked]
      BY <2>3
    <3>2. UNCHANGED <<linked, linkedDisk, jOrig, jRecs, before>>
      BY <1>1
    <3>3. QED
      BY <2>2, <2>3, <3>1, <3>2, FileSame
  <2>5. Shown(p)' = Shown(p)
    BY <1>1, <2>1, <2>2 DEF Shown
  <2>6. QED
    BY <1>3, <1>4, <2>4, <2>5, Unseen DEF Same
<1>7. QED
  BY <1>5, <1>6

\* A playback gives back what differs; the process reads nothing.
LEMMA PlaysBack ==
  ASSUME Known, Known', History, NEW p \in Proc,
         Truncate(p) \/ \E g \in Page : PlaybackPage(p, g)
  PROVE  Refines /\ History'
<1> USE DEF Known, Inv, LInv, IInv, Types, Goto, Doing, files, names, journals, pages, rest, pagers, flags
<1> DEFINE t == jfd[p]
           W == {g \in Page : Differs(t, g)}
<1>1. /\ UNCHANGED <<names, journals, before, ref, task>>
      /\ task[p] \in {"hot", "rollback"} /\ st[p] = "exclusive" /\ Open(p)
      /\ t = linked /\ t \in Txn /\ t # NoJournal
  BY OpenType DEF Truncate, PlaybackPage, Place, NeverEmpty, Named, Open
<1>2. Others(p)
  BY DEF Truncate, PlaybackPage, Others, Own, ControlType, PagersType, FlagsType, RestType, PagesType
<1>3. OthersSee(p)
  BY <1>1, <1>2, OthersSeeIt
<1>4. ~Reading(p)'
  <2>1. task[p] = "hot" => ref[p] = {}
    BY DEF Sound, Each, Holds
  <2>2. QED
    BY <1>1, <2>1 DEF Reading
<1>5. ASSUME NEW g \in Page \ W PROVE db'[g] = db[g]
  <2>1. g \in jRecs[t] => db[g] = jOrig[t][g]
    BY <1>5 DEF Differs
  <2>2. CASE Truncate(p)
    <3>1. g \in Past(t) \cap Restored(t) => jOrig[t][g] = 0 /\ g \in jRecs[t]
      BY <1>1 DEF Sound, Lasting, Recorded, Past, Restored
    <3>2. db'[g] = IF g \in Past(t) \cap Restored(t) THEN 0 ELSE db[g]
      BY <2>2 DEF Truncate
    <3>3. QED
      BY <2>1, <3>1, <3>2
  <2>3. ASSUME NEW h \in Page, PlaybackPage(p, h) PROVE db'[g] = db[g]
    <3>1. h \in Restored(t) /\ h \in jRecs[t]
      BY <2>3 DEF PlaybackPage, Sound, Each, Plays, Restored
    <3>2. db' = db \/ db' = [db EXCEPT ![h] = jOrig[t][h]]
      BY <2>3 DEF PlaybackPage, WritePage
    <3>3. QED
      BY <2>1, <3>1, <3>2 DEF FilesType
  <2>4. QED
    BY <2>2, <2>3
<1>6. Same
  <2>1. W # {} => linkedDisk = {linked} /\ W \subseteq jRecs[linked]
    BY <1>1, DiffersGuarded DEF Differs
  <2>2. W \subseteq Page
    OBVIOUS
  <2> HIDE DEF W
  <2>3. QED
    BY <1>1, <1>5, <2>1, <2>2, FileSame
<1>7. QED
  BY <1>3, <1>4, <1>6, Unseen DEF Same

-----------------------------------------------------------------------------
(* The beginning and the end of a transaction.                             *)

\* Nobody else is in a transaction.
LEMMA OnlyWriter ==
  ASSUME Known, NEW p \in Proc, Owns(p), ~InTransaction(p) PROVE TheWriter = NoProc
BY Apart DEF Known, Writers, Inv

LEMMA BeginsWriting ==
  ASSUME Known, Known', NEW p \in Proc, Owns(p), OthersSee(p), Same,
         Reading(p), Reading(p)', ~InTransaction(p), InTransaction(p)', Shown(p)' = Shown(p)
  PROVE  Refines
<1>1. TheWriter = NoProc /\ TheWriter' = p
  BY OnlyWriter DEF Known, Writers
<1>2. View' = View /\ View[p] # NoPages
  <2>1. View' = View
    BY DEF View, OthersSee, Known, Readers
  <2>2. View[p] = Sees(p)
    BY DEF View
  <2>3. Sees(p) # NoPages
    <3>1. Sees(p)[1] = FromFile(p, 1) \/ Sees(p)[1] # NotCached
      BY SetupType DEF Sees, Cached, Known, Inv, LInv, IInv
    <3>2. FromFile(p, 1) # NotCached
      BY FromFileType, SetupType DEF Known, Inv, LInv, IInv, Content, NotCached
    <3>3. NoPages[1] = NotCached
      BY SetupType DEF NoPages, Known, Inv, LInv, IInv
    <3>4. QED
      BY <3>1, <3>2, <3>3
  <2>4. QED
    BY <2>1, <2>2, <2>3
<1>3. Abstract!StartWrite(p)
  BY <1>1, <1>2 DEF Abstract!StartWrite, View, Same
<1>4. QED
  BY <1>3 DEF Refines, Abstract!Next

LEMMA EndsUnopened ==
  ASSUME Known, Known', History, NEW p \in Proc,
         \E call \in {"commit", "rollback"} : EndNoJournal(p, call)
  PROVE  Refines /\ History'
<1> USE DEF Known, Inv, LInv, IInv, Types, Goto, Doing, files, names, journals, pages, rest, pagers, flags
<1>1. /\ UNCHANGED <<db, linked, linkedDisk, jOrig, jRecs, before, dirty, jfd, cache, ref>>
      /\ ~Open(p) /\ Owns(p) /\ pc[p] = "idle" /\ task[p] = "none" /\ ref[p] # {}
      /\ pc'[p] = "downgrade" /\ task'[p] \in {"commit", "rollback"}
  BY Places DEF EndNoJournal, Open, Owns, Calls, ControlType
<1>2. Others(p)
  BY DEF EndNoJournal, Others, Own, ControlType
<1>3. CASE task'[p] = "rollback"
  BY <1>1, <1>2, <1>3, Leaves DEF Reading
<1>4. CASE task'[p] = "commit"
  <2>1. Reading(p) /\ Reading(p)' /\ ~InTransaction(p) /\ InTransaction(p)'
    BY <1>1, <1>4 DEF Reading, InTransaction, Open
  <2>2. Same /\ OthersSee(p) /\ Shown(p)' = Shown(p)
    BY <1>1, <1>2, FilesSame, OthersSeeIt DEF Shown
  <2>3. QED
    BY <1>1, <2>1, <2>2, BeginsWriting DEF Same
<1>5. QED
  BY <1>1, <1>3, <1>4

\* The journal of a new transaction would change nothing.
LEMMA OpensJournal ==
  ASSUME Known, Known', History, NEW p \in Proc, OpenJournal(p) PROVE Refines /\ History'
<1> USE SetupType DEF Known, Inv, LInv, IInv, Types, Goto, Doing, files, names, journals, pages, rest,
                      pagers, flags
<1>0. PICK t, n, past : t = nextTxn /\ n = PageCount(p) /\ past = {g \in 1 .. setup.pages : g > n}
  OBVIOUS
<1>1. /\ linked = NoJournal /\ pc[p] = "openJournal" /\ task[p] = "begin" /\ ~Open(p) /\ Owns(p)
      /\ t \in Txn /\ t # NoJournal /\ dirty[p] = {} /\ ref[p] # {}
  <2>1. pc[p] = "openJournal" /\ task[p] = "begin" /\ ~Open(p) /\ Owns(p) /\ linked = NoJournal
    BY DEF OpenJournal, Place, Flags, Kept, Owns
  <2>2. t \in Txn /\ t # NoJournal
    BY <1>0, <2>1 DEF OpenJournal, Numbered, Txn, Initial, NoJournal, RestType
  <2>3. dirty[p] = {} /\ ref[p] # {}
    BY <2>1 DEF Flags
  <2>4. QED
    BY <2>1, <2>2, <2>3
<1>2. /\ linked' = t /\ linkedDisk' = linkedDisk \cup {t} /\ jfd'[p] = t
      /\ jRecs' = [jRecs EXCEPT ![t] = past] /\ pc'[p] = "idle" /\ task'[p] = "none"
      /\ UNCHANGED <<db, jOrig, before, ref, dirty, cache>>
  BY <1>0, <1>1 DEF OpenJournal, FlagsType, ControlType
<1>3. Others(p) /\ OthersSee(p)
  <2>1. Others(p)
    BY DEF OpenJournal, Counted, Others, Own, ControlType, PagersType, FlagsType
  <2>2. QED
    BY <1>2, <2>1, OthersSeeIt
<1>4. Reading(p) /\ Reading(p)' /\ ~InTransaction(p) /\ InTransaction(p)'
  BY <1>1, <1>2 DEF Reading, InTransaction, Open
<1>5. Shown(p)' = Shown(p)
  BY <1>2 DEF Shown
<1>6. \A h \in Page : Orig(t)'[h] = db[h]
  <2>1. \A h \in Page : jOrig[t][h] = 0
    <3>1. jSize[t] = 0
      BY <1>0, <1>1 DEF Sound, Lasting, Recorded, RestType
    <3>2. QED
      BY <3>1, <1>1 DEF Sound, Lasting, Recorded, Page
  <2>2. \A h \in past : h \in Page => db[h] = 0
    <3>1. Sized(db, n)
      BY <1>0, <1>1, KnowsSized DEF Sound
    <3>2. QED
      BY <1>0, <3>1 DEF Sized
  <2>3. QED
    BY <1>1, <1>2, <2>1, <2>2 DEF Orig, JournalsType
<1>7. Store' = Store /\ History'
  <2>1. Store = db /\ db = [h \in Page |-> db[h]]
    BY <1>1 DEF Stored, FilesType
  <2>2. Store' = Orig(t)' /\ Orig(t)' = [h \in Page |-> Orig(t)'[h]]
    BY <1>1, <1>2 DEF Stored, Orig
  <2>3. Store' = Store
    BY <1>6, <2>1, <2>2
  <2>4. ASSUME NEW u \in Names', u # t PROVE Orig(u)' = Orig(u) /\ u \in Names
    BY <2>4, <1>1, <1>2 DEF Names, Orig, JournalsType, NamesType
  <2>5. QED
    BY <1>2, <2>2, <2>3, <2>4 DEF History
<1>8. QED
  BY <1>1, <1>2, <1>3, <1>4, <1>5, <1>7, BeginsWriting DEF Same

\* The writer's view changes, and what its journal stands for does not.
LEMMA Modifies ==
  ASSUME Known, Known', History, NEW p \in Proc, Writing(p), NEW g \in ref[p], Modify(p, g),
         \A q \in Proc \ {p} : pc'[q] = pc[q] /\ task'[q] = task[q],
         pc'[p] # "failed", task'[p] # "rollback"
  PROVE  Refines /\ History'
<1> USE DEF Known, Inv, LInv, IInv, Types, Goto, Doing, files, names, journals, pages, rest, pagers, flags
<1> DEFINE t == jfd[p]
           A == g \notin inJournal[p] /\ g <= jSize[t]
<1>1. /\ Open(p) /\ pc[p] = "idle" /\ task[p] = "none" /\ t \in Txn
      /\ UNCHANGED <<db, linked, linkedDisk, before, ref, jfd>>
  BY Places, OpenType DEF Writing, Calls, Open, Modify
<1>2. Others(p)
  BY DEF Modify, Others, Own, FlagsType, PagersType, PagesType
<1>3. OthersSee(p)
  BY <1>1, <1>2, OthersSeeIt
<1>4. Reading(p) /\ Reading(p)' /\ InTransaction(p) /\ InTransaction(p)'
  BY <1>1 DEF Reading, InTransaction, Open
<1>5. ASSUME NEW u \in Names PROVE Orig(u)' = Orig(u)
  <2>1. u \in Txn
    BY DEF Names, NamesType
  <2>2. CASE A
    <3>1. cache[p][g] = db[g] /\ g \notin jRecs[t]
      BY <1>1, <2>2, NewPage
    <3>2. /\ jOrig' = [jOrig EXCEPT ![t][g] = db[g]]
          /\ jRecs' = [jRecs EXCEPT ![t] = @ \cup {g}]
      BY <2>2, <3>1 DEF Modify
    <3>3. ASSUME NEW h \in Page PROVE Orig(u)'[h] = Orig(u)[h]
      BY <1>1, <2>1, <3>1, <3>2 DEF Orig, JournalsType
    <3>4. QED
      BY <3>3 DEF Orig
  <2>3. CASE ~A
    BY <1>1, <2>3 DEF Modify, Orig
  <2>4. QED
    BY <2>2, <2>3
<1>6. Same
  BY <1>1, <1>5, StoreSame DEF Names
<1>7. TheWriter = p /\ TheWriter' = p
  BY <1>4 DEF Writers
<1>8. Sees(p)' \in [Page -> Content] /\ View' = [View EXCEPT ![p] = Sees(p)'] /\ View'[p] = Sees(p)'
  <2>1. Shown(p)' \in [Page -> Content]
    <3>1. ASSUME NEW h \in dirty'[p] PROVE cache'[p][h] \in Content
      BY <3>1 DEF Flags, Cached, PagesType, FlagsType
    <3>2. QED
      BY <3>1 DEF Shown, FilesType
  <2>2. Sees(p)' = Shown(p)'
    BY <1>4 DEF Readers
  <2>3. QED
    BY <1>3, <1>4, <2>1, <2>2 DEF View, OthersSee
<1>9. Abstract!Write(p)
  BY <1>6, <1>7, <1>8 DEF Abstract!Write, View, Same
<1>10. QED
  BY <1>6, <1>9 DEF Refines, Abstract!Next, Same

LEMMA Changes ==
  ASSUME Known, Known', History, NEW p \in Proc, Commit(p) \/ \E g \in Page : Write(p, g)
  PROVE  Refines /\ History'
<1> USE DEF Known, Inv, LInv, IInv, Types, Goto, Doing
<1>1. CASE Commit(p)
  <2>1. 1 \in ref[p] /\ Writing(p) /\ Modify(p, 1)
    BY <1>1 DEF Commit, Writing, Calls, Flags
  <2>2. /\ \A q \in Proc \ {p} : pc'[q] = pc[q] /\ task'[q] = task[q]
        /\ pc'[p] # "failed" /\ task'[p] = "commit"
    BY <1>1 DEF Commit, Syncing, Locked, ControlType
  <2>3. QED
    BY <2>1, <2>2, Modifies
<1>2. ASSUME NEW g \in Page, Write(p, g) PROVE Refines /\ History'
  <2>1. g \in ref[p] /\ Writing(p) /\ Modify(p, g) /\ UNCHANGED <<pc, task>>
    BY <1>2 DEF Write
  <2>2. pc[p] # "failed" /\ task[p] # "rollback"
    BY <2>1, Places DEF Writing, Calls
  <2>3. QED
    BY <2>1, <2>2, Modifies
<1>3. QED
  BY <1>1, <1>2

\* The moment of a commit: the store is the writer's view, and nobody looks.
LEMMA DeletesJournal ==
  ASSUME Known, Known', History, NEW p \in Proc, DeleteJournal(p) PROVE Refines /\ History'
<1> USE DEF Known, Inv, LInv, IInv, Types, Goto, Doing, files, names, journals, pages, rest, pagers, flags
<1> DEFINE t == jfd[p]
<1>1. /\ UNCHANGED <<db, jOrig, jRecs, ref, cache, task, dbSize>>
      /\ pc[p] = "delete" /\ pc'[p] = "downgrade" /\ task[p] \in {"hot", "commit", "rollback"}
      /\ Open(p) /\ Owns(p) /\ t = linked /\ t \in Txn /\ t # NoJournal
      /\ linked' = NoJournal /\ linkedDisk' = linkedDisk \cup {NoJournal} /\ dirty'[p] = {}
      /\ before' = IF task[p] = "commit" /\ dirtyCache[p] THEN Store ELSE before
  BY OpenType DEF DeleteJournal, Unlink, ControlType, FlagsType, Place, NeverEmpty, Named, Open
<1>2. ref[p] = {} <=> task[p] = "hot"
  BY <1>1 DEF Flags, Sound, Each, Holds
<1>3. Others(p) /\ OthersSee(p)
  <2>1. Others(p)
    BY DEF DeleteJournal, Others, Own, ControlType, FlagsType
  <2>2. QED
    BY <1>1, <2>1, OthersSeeIt
<1>4. Store' = db /\ Names' = Names /\ \A u : Orig(u)' = Orig(u)
  BY <1>1 DEF Stored, Names, Orig
<1>5. CASE task[p] = "commit" /\ dirtyCache[p]
  <2>1. Live(p) /\ dirty[p] = {} /\ needSync[p] = {} /\ 1 \in inJournal[p] /\ linkedDisk = {t}
    BY <1>1, <1>5 DEF Live, Sound, Each, Lives, Changing, Synced
  <2>2. st[p] = "synced"
    BY <1>1, <1>5 DEF Place
  <2>3. /\ Reading(p) /\ Reading(p)' /\ InTransaction(p) /\ InTransaction(p)'
        /\ TheWriter = p /\ TheWriter' = p
    BY <1>1, <1>2, <1>5 DEF Reading, InTransaction, Open, Writers
  <2>4. Shown(p) = db /\ Shown(p)' = db
    BY <1>1, <2>1 DEF Shown, FilesType
  <2>5. View' = View /\ View[p] = Store' /\ \A q \in Proc \ {p} : View[q] = NoPages
    <3>1. View' = View /\ View[p] = Store'
      BY <1>3, <1>4, <2>3, <2>4 DEF View, OthersSee, Readers
    <3>2. \A q \in Proc \ {p} : ~Reading(q)
      BY <2>2, Apart DEF Readers
    <3>3. QED
      BY <3>1, <3>2 DEF View
  <2>6. Abstract!Commit(p)
    BY <1>1, <1>5, <2>3, <2>5 DEF Abstract!Commit, View
  <2>7. History'
    <3>1. Store = Orig(t)
      BY <1>1 DEF Stored
    <3>2. QED
      BY <1>1, <1>4, <1>5, <2>1, <3>1 DEF History, Names
  <2>8. QED
    BY <2>6, <2>7 DEF Refines, Abstract!Next
<1>6. CASE ~(task[p] = "commit" /\ dirtyCache[p])
  <2>1. \A h \in Page : ~Differs(t, h)
    <3>1. CASE task[p] = "commit"
      BY <1>1, <1>6, <3>1 DEF Sound, Each, Lives, Live, Changing
    <3>2. CASE task[p] # "commit"
      BY <1>1, <3>2 DEF Sound, Each, Plays
    <3>3. QED
      BY <3>1, <3>2
  <2>2. Store = db
    BY <1>1, <2>1, StoreIs DEF Clean
  <2>3. Same
    BY <1>1, <1>4, <1>6, <2>2 DEF Same, History
  <2>4. CASE task[p] = "commit"
    <3>1. dirty[p] = {}
      BY <1>6, <2>4 DEF Flags
    <3>2. Shown(p)' = Shown(p)
      BY <1>1, <3>1 DEF Shown
    <3>3. Reading(p) /\ Reading(p)' /\ InTransaction(p)' = InTransaction(p)
      BY <1>1, <1>2, <2>4 DEF Reading, InTransaction
    <3>4. QED
      BY <1>3, <2>3, <3>2, <3>3, Unseen DEF Same
  <2>5. CASE task[p] # "commit"
    <3>1. ~Reading(p)'
      BY <1>1, <1>2, <2>5 DEF Reading
    <3>2. QED
      BY <1>3, <2>3, <3>1, Unseen DEF Same
  <2>6. QED
    BY <2>4, <2>5
<1>7. QED
  BY <1>5, <1>6

\* The transaction is over.
LEMMA Downgrades ==
  ASSUME Known, Known', History, NEW p \in Proc, Downgrade(p) PROVE Refines /\ History'
<1> USE DEF Known, Inv, LInv, IInv, Types, Goto, Doing, files, names, journals, pages, rest, pagers, flags
<1>1. /\ UNCHANGED <<db, linked, linkedDisk, jOrig, jRecs, before, dirty, jfd, cache, ref>>
      /\ pc[p] = "downgrade" /\ ~Open(p) /\ ~Open(p)' /\ task'[p] = "none"
      /\ task[p] \in {"hot", "commit", "rollback"} /\ Owns(p)
  BY DEF Downgrade, Place, Open, ControlType
<1>2. /\ task[p] = "hot" => ref[p] = {}
      /\ task[p] = "commit" => pc'[p] = "idle"
      /\ task[p] = "rollback" => pc'[p] = "failed"
  BY <1>1 DEF Downgrade, AfterError, Ordinary, ControlType, Sound, Each, Holds
<1>3. Others(p)
  BY DEF Downgrade, Lock!Release, ForgetSize, Others, Own, ControlType, PagersType
<1>4. CASE task[p] = "commit" /\ ref[p] # {}
  <2>1. Same /\ OthersSee(p) /\ Shown(p)' = Shown(p)
    BY <1>1, <1>3, FilesSame, OthersSeeIt DEF Shown
  <2>2. Reading(p) /\ Reading(p)' /\ InTransaction(p) /\ ~InTransaction(p)'
    BY <1>1, <1>2, <1>4 DEF Reading, InTransaction, Open
  <2>3. TheWriter = p
    BY <2>2 DEF Writers
  <2>4. TheWriter' = NoProc
    <3>1. \A q \in Proc \ {p} : ~InTransaction(q)'
      BY <1>1, <2>1, Apart DEF OthersSee, Writers
    <3>2. QED
      BY <2>2, <3>1 DEF Writers
  <2>5. View' = View /\ View[p] = Store
    BY <1>1, <2>1, <2>2 DEF View, OthersSee, Readers
  <2>6. Abstract!EndWrite(p)
    BY <2>1, <2>3, <2>4, <2>5 DEF Abstract!EndWrite, View, Same
  <2>7. QED
    BY <2>1, <2>6 DEF Refines, Abstract!Next, Same
<1>5. CASE ~(task[p] = "commit" /\ ref[p] # {})
  BY <1>1, <1>2, <1>3, <1>5, Leaves DEF Reading
<1>6. QED
  BY <1>4, <1>5

-----------------------------------------------------------------------------
(* Crashes and power failures.                                             *)

LEMMA Crashes ==
  ASSUME Known, Known', History, NEW p \in Proc, Crash(p) PROVE Refines /\ History'
<1>1. UNCHANGED <<db, linked, linkedDisk, jOrig, jRecs, before>>
  BY DEF Crash, files, names, journals
<1>2. Others(p) /\ ref'[p] = {}
  BY DEF Crash, Forget, Others, Own, Known, Inv, LInv, IInv, Types, ControlType, PagersType, PagesType,
         FlagsType, RestType
<1>3. QED
  BY <1>1, <1>2, Leaves DEF Reading

\* The journal that is found says what the store was.
LEMMA PowerFails ==
  ASSUME Known, Known', History, PowerFailure, UNCHANGED setup
  PROVE  Refines /\ History' /\ Store' \in {Store, before}
<1> USE DEF Known, Inv, LInv, IInv, Types
<1>1. PICK t \in linkedDisk : /\ linked' = t /\ linkedDisk' = {t}
                              /\ t # NoJournal => \A g \in Page : Orig(t)'[g] = Orig(t)[g]
  BY PowerFailureSound
<1>2. Store' \in {Store, before}
  <2>1. CASE t # NoJournal
    <3>1. t \in Names /\ Store' = Orig(t)'
      BY <1>1, <2>1 DEF Names, Stored
    <3>2. Orig(t)' = Orig(t)
      BY <1>1, <2>1 DEF Orig
    <3>3. QED
      BY <3>1, <3>2 DEF History
  <2>2. CASE t = NoJournal
    <3>1. \A g \in Page : ~Unsynced(g) /\ (linked # NoJournal => ~Differs(linked, g))
      BY <1>1, <2>2 DEF Sound, Lasting, OnlyName
    <3>2. Store = db
      BY <3>1, StoreIs DEF Clean
    <3>3. undone = {}
      BY DEF PowerFailure, Ordinary
    <3>4. \A g \in Page : disk[g] = {db[g]}
      BY <3>1, <3>3 DEF Unsynced
    <3>5. db' = [g \in Page |-> db[g]]
      BY <3>4 DEF PowerFailure
    <3>6. Store' = db
      BY <1>1, <2>2, <3>5 DEF Stored, FilesType
    <3>7. QED
      BY <3>2, <3>6
  <2>3. QED
    BY <2>1, <2>2
<1>3. History'
  BY <1>1 DEF History, Names, Stored
<1>4. \A q \in Proc : ref'[q] = {}
  BY DEF PowerFailure, Forget
<1>5. View' = [q \in Proc |-> NoPages] /\ TheWriter' = NoProc
  BY <1>4 DEF View, Reading, Writers, InTransaction
<1>6. Abstract!PowerFail
  BY <1>2, <1>5 DEF Abstract!PowerFail, View, PowerFailure
<1>7. QED
  BY <1>2, <1>3, <1>6 DEF Refines, Abstract!Next

-----------------------------------------------------------------------------
(* The theorem.                                                            *)

LEMMA Begins == Init => History /\ Abstract!Init
<1> SUFFICES ASSUME Init PROVE History /\ Abstract!Init
  OBVIOUS
<1>1. History
  BY DEF Init, History, Names
<1>2. Store = db /\ db \in [Page -> Content]
  <2>1. Store = db
    BY DEF Init, Store, Playback
  <2>2. setup.size \in 0 .. NPage
    BY SetupAssumption DEF Init
  <2>3. QED
    BY <2>1, <2>2, SizeAssumption DEF Init, Content, Initial
<1>3. View = [p \in Proc |-> NoPages] /\ TheWriter = NoProc
  BY DEF Init, View, TheWriter, InTransaction, Reading
<1>4. QED
  BY <1>1, <1>2, <1>3 DEF Abstract!Init, View, Init

LEMMA Steps == Known /\ Known' /\ History /\ [Next]_<<setup, vars>> => History' /\ Refines
<1> SUFFICES ASSUME Known, Known', History, [Next]_<<setup, vars>> PROVE History' /\ Refines
  OBVIOUS
<1>1. CASE UNCHANGED <<setup, vars>>
  <2>1. Store' = Store /\ Names' = Names /\ \A t : Orig(t)' = Orig(t)
    BY <1>1 DEF vars, files, names, journals, Store, Playback, Restored, Names, Orig
  <2>2. View' = View /\ TheWriter' = TheWriter
    BY <1>1 DEF vars, files, pages, pagers, flags, View, TheWriter, InTransaction, Reading, Sees,
                Cached, FromFile, PageCount
  <2>3. UNCHANGED before
    BY <1>1 DEF vars, rest
  <2>4. QED
    BY <2>1, <2>2, <2>3 DEF History, Refines, Abstract!vars, View
<1>2. CASE Next
  <2>1. UNCHANGED setup
    BY <1>2 DEF Next
  <2>2. ASSUME NEW p \in Proc, LockShared(p) \/ HotJournal(p) PROVE History' /\ Refines
    <3>1. ~DeleteOldJournal(p)
      BY NotZero, SizeAssumption DEF DeleteOldJournal, Known, Inv, LInv
    <3>2. QED
      BY <2>2, <3>1, BeforeReading, ReadsFirst DEF HotJournal
  <2>3. ASSUME NEW p \in Proc, Recycle(p) \/ SyncJournal(p) \/ LockStep(p)
        PROVE  History' /\ Refines
    BY <2>3, MakesRoom, Spills, Syncs, Locks DEF Recycle, SyncJournal, LockStep
  <2>4. ASSUME NEW p \in Proc, Transaction(p) PROVE History' /\ Refines
    BY <2>4, HasLock, Locks, EndsUnopened, OpensJournal, Changes, Stores, DeletesJournal, Downgrades,
       RollbackBegins, PlaysBack DEF Transaction, Known, Inv
  <2>5. ASSUME NEW p \in Proc, NEW g \in Page, PageStep(p, g) PROVE History' /\ Refines
    BY <2>5, GetsPage, MakesRoom, ReleasesPage, Changes, Stores, PlaysBack DEF PageStep
  <2>6. ASSUME NEW p \in Proc, Crash(p) PROVE History' /\ Refines
    BY <2>6, Crashes
  <2>7. ASSUME PowerFailure PROVE History' /\ Refines
    BY <2>1, <2>7, PowerFails
  <2>8. QED
    BY <1>2, <2>2, <2>3, <2>4, <2>5, <2>6, <2>7 DEF Next
<1>3. QED
  BY <1>1, <1>2

\* The transactions of pager.c are atomic and isolated: for every other
\* process, and after any crash or power failure, the database changes by
\* whole transactions and only when a journal is deleted, while nobody reads;
\* a reader sees one state of it while it reads; one process at a time
\* writes; and what a transaction leaves in the cache is what it committed.
THEOREM PagerImplements ==
  ASSUME \A s \in Setups : Ordinary(s)
  PROVE  Spec => ImplementsAtomicStore
<1>1. Init => Abstract!Init /\ History
  BY Begins
<1>2. Inv => Known
  BY InvKnown
<1>3. Known /\ Known' /\ History /\ [Next]_<<setup, vars>> => History' /\ [Abstract!Next]_(Abstract!vars)
  BY Steps DEF Refines
<1>4. Spec => []Inv
  BY InvHolds
<1>5. QED
  BY <1>1, <1>2, <1>3, <1>4, PTL DEF Spec, ImplementsAtomicStore, Abstract!Spec

\* A power failure loses at most the last commit, and never a part of one.
THEOREM PagerKeepsCommits ==
  ASSUME \A s \in Setups : Ordinary(s)
  PROVE  Spec => PowerFailureKeepsCommits
<1>1. Known /\ Known' /\ History /\ [Next]_<<setup, vars>> =>
        [PowerFailure => Store' \in {Store, before}]_vars
  BY PowerFails DEF Next
<1>2. QED
  BY <1>1, Begins, Steps, InvKnown, InvHolds, PTL DEF Spec, PowerFailureKeepsCommits

=============================================================================
