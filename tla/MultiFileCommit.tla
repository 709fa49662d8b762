--------------------------- MODULE MultiFileCommit ---------------------------
(***************************************************************************)
(* Transactions over several database files: the master journal of         *)
(* vdbeCommit() (vdbeaux.c), the name of it in each rollback journal, and  *)
(* the recovery that asks whether the master journal is still there        *)
(* (pager.c).  What happens inside one file is abstracted from module      *)
(* Pager: the content of a file is the set of the transactions it          *)
(* contains, with Half in it while only some pages are written; a journal  *)
(* is the content to go back to and the name of a master journal; a        *)
(* journal's records are on the disk before the file is written.           *)
(***************************************************************************)
EXTENDS Integers, FiniteSets

CONSTANTS Proc,           \* the processes, each with one connection to all files
          File,           \* the database files
          Master, NoMaster,   \* names of master journals
          Absent,         \* no file of that name
          NoFile,
          MaxTxn,         \* bound: number of the last transaction
          MaxEvents,      \* bound: transactions that commit, crashes and power
                          \*   failures together
          RetriesBusy,    \* may a COMMIT that returned SQLITE_BUSY be tried again?
          AfterRollback   \* may the power fail before what a recovery did, and
                    \*   what it relied on, is on the disk?

ASSUME CommitAssumption ==
    /\ MaxTxn \in Nat \ {0} /\ MaxEvents \in Nat
    /\ NoMaster \notin Master /\ NoFile \notin File
    /\ {RetriesBusy, AfterRollback} \subseteq BOOLEAN

Txn == 1 .. MaxTxn
Half == 0
Content == SUBSET (Txn \cup {Half})
Journal == [orig : Content, master : Master \cup {NoMaster}]
ASSUME AbsentAssumption == Absent \notin Journal /\ \A s \in SUBSET File : s # Absent

VARIABLES
    level,    \* level[p][f]: the lock of p on f
    db, disk, \* the files; what each may be found to be after a power failure
    undone,   \* files whose recovery rests on what may not be on the disk
    journal, jDisk,  \* the rollback journals, likewise
    master, mDisk,   \* the master journals: the files whose journals they name
    drawn,    \* names of master journals used before
    txn,      \* txn[p]: the transaction p commits, 0 before it does
    trans,    \* trans[p]: files with a write transaction (and journal) of p
    synced,   \* synced[p]: those in state PAGER_SYNCED
    zMaster,  \* the master journal p created or follows
    pc, cur,  \* the next step of p, the file it is about
    todo,     \* children pager_delmaster() has still to look at
    rolling,  \* processes inside ROLLBACK
    span, nextTxn, failures   \* history: the files of each transaction, the next
              \*   one, the number of failures

files == <<db, disk, undone>>
journals == <<journal, jDisk>>
masters == <<master, mDisk, drawn>>
own == <<txn, trans, synced>>
history == <<span, nextTxn, failures>>
vars == <<level, files, journals, masters, own, zMaster, pc, cur, todo, rolling, history>>

Goto(p, label) == pc' = [pc EXCEPT ![p] = label]
At(p, label, f) == pc' = [pc EXCEPT ![p] = label] /\ cur' = [cur EXCEPT ![p] = f]
Holds(p, f, l) == level' = [level EXCEPT ![p][f] = l]
Others(p, f) == {level[q][f] : q \in Proc \ {p}}
Exists(m) == m # NoMaster /\ master[m] # Absent

\* A write of a file, a journal or a directory entry: the disk may have it.
MayHave(d, f, v) == [d EXCEPT ![f] = @ \cup {v}]
Has(d, f, v) == [d EXCEPT ![f] = {v}]

\* The bound on what the runs let happen.
MayHappen == nextTxn - 1 + failures < MaxEvents

Init ==
    /\ level = [p \in Proc |-> [f \in File |-> "none"]]
    /\ db = [f \in File |-> {}] /\ disk = [f \in File |-> {{}}]
    /\ undone = {}
    /\ journal = [f \in File |-> Absent] /\ jDisk = [f \in File |-> {Absent}]
    /\ master = [m \in Master |-> Absent] /\ mDisk = [m \in Master |-> {Absent}]
    /\ drawn = {}
    /\ txn = [p \in Proc |-> 0]
    /\ trans = [p \in Proc |-> {}] /\ synced = trans /\ todo = trans
    /\ zMaster = [p \in Proc |-> NoMaster]
    /\ pc = [p \in Proc |-> "idle"] /\ cur = [p \in Proc |-> NoFile]
    /\ rolling = {}
    /\ span = [t \in Txn |-> {}] /\ nextTxn = 1 /\ failures = 0

-----------------------------------------------------------------------------
(* Using a file.  A journal that nobody with RESERVED owns is hot.          *)

Owned(f) == \E q \in Proc : level[q][f] \in {"reserved", "exclusive"}
Hot(f) == journal[f] # Absent /\ ~Owned(f)

Read(p, f) ==
    /\ pc[p] = "idle" /\ level[p][f] = "none"
    /\ ~Hot(f) /\ "exclusive" \notin Others(p, f)
    /\ Holds(p, f, "shared")
    /\ UNCHANGED <<files, journals, masters, own, zMaster, pc, cur, todo, rolling, history>>

Done(p, f) ==
    /\ pc[p] = "idle" /\ level[p][f] = "shared"
    /\ Holds(p, f, "none")
    /\ UNCHANGED <<files, journals, masters, own, zMaster, pc, cur, todo, rolling, history>>

\* The RESERVED lock and the journal of a file the transaction writes.
Begin(p, f) ==
    /\ pc[p] = "idle" /\ level[p][f] = "shared"
    /\ Others(p, f) \cap {"reserved", "exclusive"} = {}
    /\ Holds(p, f, "reserved")
    /\ LET j == [orig |-> db[f], master |-> NoMaster] IN
       /\ journal' = [journal EXCEPT ![f] = j] /\ jDisk' = MayHave(jDisk, f, j)
    /\ trans' = [trans EXCEPT ![p] = @ \cup {f}]
    /\ UNCHANGED <<files, masters, txn, synced, zMaster, pc, cur, todo, rolling, history>>

-----------------------------------------------------------------------------
(* vdbeCommit().                                                            *)

\* The first COMMIT of a transaction, or another one after SQLITE_BUSY.
Committing(p) ==
    /\ pc[p] \in {"idle"} \cup IF RetriesBusy THEN {"busy"} ELSE {}
    /\ IF pc[p] = "idle"
       THEN /\ nextTxn \in Txn /\ MayHappen
            /\ txn' = [txn EXCEPT ![p] = nextTxn]
            /\ nextTxn' = nextTxn + 1 /\ UNCHANGED failures
            /\ span' = [span EXCEPT ![nextTxn] = trans[p]]
       ELSE UNCHANGED <<txn, history>>

\* No more than one file: no master journal.
CommitOne(p) ==
    /\ Committing(p) /\ Cardinality(trans[p]) = 1
    /\ zMaster' = [zMaster EXCEPT ![p] = NoMaster]
    /\ Goto(p, "sync")
    /\ UNCHANGED <<level, files, journals, masters, trans, synced, cur, todo, rolling>>

\* A name that does not exist is drawn at random (never one drawn before),
\* and the file created, written and synced with its directory.
Children_NotLast(p) == trans[p] \ {CHOOSE f \in trans[p] : TRUE}
Children(p) == trans[p]
CreateMaster(p) ==
    /\ Committing(p) /\ Cardinality(trans[p]) > 1
    /\ \E m \in Master \ drawn :
        /\ zMaster' = [zMaster EXCEPT ![p] = m]
        /\ drawn' = drawn \cup {m}
        /\ master' = [master EXCEPT ![m] = Children(p)]
        /\ mDisk' = MayHave(MayHave(mDisk, m, {}), m, Children(p))
    /\ Goto(p, "master")
    /\ UNCHANGED <<level, files, journals, trans, synced, cur, todo, rolling>>

SyncMaster(p) ==
    /\ pc[p] = "master"
    /\ mDisk' = Has(mDisk, zMaster[p], master[zMaster[p]])
    /\ Goto(p, "sync")
    /\ UNCHANGED <<level, files, journals, master, drawn, own, zMaster, cur, todo, rolling, history>>

\* sqlite3BtreeSync() of each file; one that is in state PAGER_SYNCED is
\* left alone, one whose journal names a master journal keeps that name.
SetMaster(f) == journal[f].master # NoMaster
NameMaster(p, f) ==
    /\ pc[p] = "sync" /\ f \in trans[p] \ synced[p]
    /\ LET j == [journal[f] EXCEPT !.master = IF SetMaster(f) THEN @ ELSE zMaster[p]] IN
       /\ journal' = [journal EXCEPT ![f] = j]
       /\ jDisk' = MayHave(jDisk, f, j)
    /\ At(p, "journal", f)
    /\ UNCHANGED <<level, files, masters, own, zMaster, todo, rolling, history>>

\* syncJournal(), with the directory of the journal.
SyncJournal(p) ==
    /\ pc[p] = "journal"
    /\ jDisk' = Has(jDisk, cur[p], journal[cur[p]])
    /\ Goto(p, "lock")
    /\ UNCHANGED <<level, files, journal, masters, own, zMaster, cur, todo, rolling, history>>

Exclusive_BesideReaders(p) ==
    /\ pc[p] = "lock" /\ Others(p, cur[p]) \subseteq {"none", "shared"}
    /\ Holds(p, cur[p], "exclusive")
    /\ Goto(p, "write")
    /\ UNCHANGED <<files, journals, masters, own, zMaster, cur, todo, rolling, history>>
Exclusive(p) ==
    /\ pc[p] = "lock" /\ Others(p, cur[p]) \subseteq {"none"}
    /\ Holds(p, cur[p], "exclusive")
    /\ Goto(p, "write")
    /\ UNCHANGED <<files, journals, masters, own, zMaster, cur, todo, rolling, history>>

\* A reader is in the way: SQLITE_BUSY.  The master journal stays.
CommitBusy(p) ==
    /\ pc[p] = "lock" /\ "shared" \in Others(p, cur[p])
    /\ Goto(p, "busy")
    /\ UNCHANGED <<level, files, journals, masters, own, zMaster, cur, todo, rolling, history>>

\* pager_write_pagelist(): the first page, the others, and the sync.
WriteSome(p) ==
    /\ pc[p] = "write"
    /\ LET f == cur[p] IN
       /\ db' = [db EXCEPT ![f] = @ \cup {Half}]
       /\ disk' = [disk EXCEPT ![f] = @ \cup {db[f] \cup {Half}, db[f] \cup {txn[p]}}]
    /\ Goto(p, "rest")
    /\ UNCHANGED <<level, undone, journals, masters, own, zMaster, cur, todo, rolling, history>>

WriteAll(p) ==
    /\ pc[p] = "rest"
    /\ LET f == cur[p] v == (db[f] \ {Half}) \cup {txn[p]} IN
       /\ db' = [db EXCEPT ![f] = v]
       /\ disk' = Has(disk, f, v)
       /\ synced' = [synced EXCEPT ![p] = @ \cup {f}]
    /\ Goto(p, "sync")
    /\ UNCHANGED <<level, undone, journals, masters, txn, trans, zMaster, cur, todo, rolling, history>>

\* With one file, deleting its journal commits.  With several, deleting the
\* master journal does; the directory is synced before any journal goes.
Synced(p) == pc[p] = "sync" /\ synced[p] = trans[p] /\ trans[p] # {}
DeleteMaster(p) ==
    /\ Synced(p) /\ zMaster[p] # NoMaster
    /\ master' = [master EXCEPT ![zMaster[p]] = Absent]
    /\ mDisk' = MayHave(mDisk, zMaster[p], Absent)
    /\ Goto(p, "directory")
    /\ UNCHANGED <<level, files, journals, drawn, own, zMaster, cur, todo, rolling, history>>

SyncDirectory_Not(p) ==
    /\ pc[p] = "directory"
    /\ Goto(p, "finish")
    /\ UNCHANGED <<level, files, journals, masters, own, zMaster, cur, todo, rolling, history>>
SyncDirectory(p) ==
    /\ pc[p] = "directory"
    /\ mDisk' = [m \in Master |-> IF master[m] = Absent THEN {Absent} ELSE mDisk[m] \ {Absent}]
    /\ Goto(p, "finish")
    /\ UNCHANGED <<level, files, journals, master, drawn, own, zMaster, cur, todo, rolling, history>>

\* pager_unwritelock(): the journal goes, the lock is SHARED again (and
\* released with the last page).
DeleteJournal(p, f) ==
    /\ journal' = [journal EXCEPT ![f] = Absent]
    /\ jDisk' = MayHave(jDisk, f, Absent)
    /\ Holds(p, f, "none")
    /\ trans' = [trans EXCEPT ![p] = @ \ {f}]
    /\ synced' = [synced EXCEPT ![p] = @ \ {f}]
    /\ txn' = [txn EXCEPT ![p] = IF trans[p] \subseteq {f} THEN 0 ELSE @]

CommitFile(p, f) ==
    /\ f \in trans[p]
    /\ pc[p] = "finish" \/ (Synced(p) /\ zMaster[p] = NoMaster)
    /\ DeleteJournal(p, f)
    /\ Goto(p, IF trans[p] = {f} THEN "idle" ELSE "finish")
    /\ UNCHANGED <<files, masters, zMaster, cur, todo, rolling, history>>

-----------------------------------------------------------------------------
(* ROLLBACK, file by file.                                                  *)

Rollback(p) ==
    /\ pc[p] \in {"idle", "busy"} /\ trans[p] # {}
    /\ rolling' = rolling \cup {p}
    /\ Goto(p, "rollback")
    /\ UNCHANGED <<level, files, journals, masters, own, zMaster, cur, todo, history>>

\* The file was not written: only the journal goes.
ForgetFile(p, f) ==
    /\ pc[p] = "rollback" /\ f \in trans[p] /\ level[p][f] = "reserved"
    /\ DeleteJournal(p, f)
    /\ Goto(p, IF trans[p] = {f} THEN "idle" ELSE "rollback")
    /\ rolling' = IF trans[p] = {f} THEN rolling \ {p} ELSE rolling
    /\ UNCHANGED <<files, masters, zMaster, cur, todo, history>>

RollbackFile(p, f) ==
    /\ pc[p] = "rollback" /\ f \in trans[p] /\ level[p][f] = "exclusive"
    /\ At(p, "playback", f)
    /\ UNCHANGED <<level, files, journals, masters, own, zMaster, todo, rolling, history>>

\* sqlite3pager_get() of the first page, with a hot journal: EXCLUSIVE.
Recover(p, f) ==
    /\ pc[p] = "idle" /\ level[p][f] = "none" /\ Others(p, f) \subseteq {"none"}
    /\ Hot(f)
    /\ Holds(p, f, "exclusive")
    /\ At(p, "playback", f)
    /\ UNCHANGED <<files, journals, masters, own, zMaster, todo, rolling, history>>

-----------------------------------------------------------------------------
(* pager_playback() and pager_delmaster().                                  *)

\* The journal names a master journal that is gone: it is not played back.
Playable(j) == j.master = NoMaster \/ Exists(j.master)
Playback(p) ==
    /\ pc[p] = "playback"
    /\ Goto(p, IF Playable(journal[cur[p]]) THEN "restore" ELSE "unlink")
    /\ zMaster' = [zMaster EXCEPT ![p] =
                      IF Playable(journal[cur[p]]) THEN journal[cur[p]].master ELSE NoMaster]
    /\ UNCHANGED <<level, files, journals, masters, own, cur, todo, rolling, history>>

\* Page by page: a file that differs is half restored before it is restored.
RestoreSome(p) ==
    /\ pc[p] = "restore"
    /\ LET f == cur[p]
           part == IF db[f] = journal[f].orig THEN {} ELSE {Half} IN
       /\ db' = [db EXCEPT ![f] = @ \cup part]
       /\ disk' = [disk EXCEPT ![f] = @ \cup {v \cup part : v \in @}]
    /\ Goto(p, "restored")
    /\ UNCHANGED <<level, undone, journals, masters, own, zMaster, cur, todo, rolling, history>>

RestoreAll(p) ==
    /\ pc[p] = "restored"
    /\ LET f == cur[p] IN
       /\ db' = [db EXCEPT ![f] = journal[f].orig]
       /\ disk' = MayHave(disk, f, journal[f].orig)
    /\ Goto(p, "unlink")
    /\ UNCHANGED <<level, undone, journals, masters, own, zMaster, cur, todo, rolling, history>>

After(p) == IF p \in rolling /\ trans[p] # {} THEN "rollback" ELSE "idle"
Stays(p) == rolling' = IF p \in rolling /\ trans[p] = {} THEN rolling \ {p} ELSE rolling

\* Nothing is synced before the journal goes: neither the file nor, if the
\* master journal was found missing, the directory it was missing from.
Certain(f) ==
    /\ disk[f] = {db[f]}
    /\ SetMaster(f) => mDisk[journal[f].master] = {master[journal[f].master]}
Unlink(p) ==
    /\ pc[p] = "unlink"
    /\ LET f == cur[p] IN
       /\ DeleteJournal(p, f)
       /\ undone' = IF Certain(f) THEN undone ELSE undone \cup {f}
    /\ Goto(p, "delmaster")
    /\ UNCHANGED <<db, disk, masters, zMaster, cur, todo, rolling, history>>

\* The master journal may be gone already: SQLITE_CANTOPEN for the caller.
OpenMaster(p) ==
    /\ pc[p] = "delmaster"
    /\ IF Exists(zMaster[p])
       THEN Goto(p, "children") /\ todo' = [todo EXCEPT ![p] = master[zMaster[p]]]
            /\ UNCHANGED rolling
       ELSE Goto(p, After(p)) /\ UNCHANGED todo /\ Stays(p)
    /\ UNCHANGED <<level, files, journals, masters, own, zMaster, cur, history>>

NoChild(p, f) ==
    /\ pc[p] = "children" /\ f \in todo[p] /\ journal[f] = Absent
    /\ todo' = [todo EXCEPT ![p] = @ \ {f}]
    /\ UNCHANGED <<level, files, journals, masters, own, zMaster, pc, cur, rolling, history>>

Child(p, f) ==
    /\ pc[p] = "children" /\ f \in todo[p] /\ journal[f] # Absent
    /\ At(p, "child", f)
    /\ UNCHANGED <<level, files, journals, masters, own, zMaster, todo, rolling, history>>

\* The child was deleted in between (SQLITE_CANTOPEN), or names this master
\* journal: it stays.
Needed(p) == journal[cur[p]] = Absent \/ journal[cur[p]].master = zMaster[p]
ReadChild(p) ==
    /\ pc[p] = "child"
    /\ IF Needed(p)
       THEN Goto(p, After(p)) /\ Stays(p) /\ todo' = [todo EXCEPT ![p] = {}]
       ELSE Goto(p, "children") /\ UNCHANGED rolling /\ todo' = [todo EXCEPT ![p] = @ \ {cur[p]}]
    /\ UNCHANGED <<level, files, journals, masters, own, zMaster, cur, history>>

DeleteOrphan(p) ==
    /\ pc[p] = "children" /\ todo[p] = {}
    /\ master' = [master EXCEPT ![zMaster[p]] = Absent]
    /\ mDisk' = MayHave(mDisk, zMaster[p], Absent)
    /\ Goto(p, After(p)) /\ Stays(p)
    /\ UNCHANGED <<level, files, journals, drawn, own, zMaster, cur, todo, history>>

-----------------------------------------------------------------------------
(* Failures.                                                                *)

Dead(ps) ==
    /\ MayHappen /\ failures' = failures + 1
    /\ level' = [p \in Proc |-> IF p \in ps THEN [f \in File |-> "none"] ELSE level[p]]
    /\ txn' = [p \in Proc |-> IF p \in ps THEN 0 ELSE txn[p]]
    /\ trans' = [p \in Proc |-> IF p \in ps THEN {} ELSE trans[p]]
    /\ synced' = [p \in Proc |-> IF p \in ps THEN {} ELSE synced[p]]
    /\ todo' = [p \in Proc |-> IF p \in ps THEN {} ELSE todo[p]]
    /\ zMaster' = [p \in Proc |-> IF p \in ps THEN NoMaster ELSE zMaster[p]]
    /\ pc' = [p \in Proc |-> IF p \in ps THEN "idle" ELSE pc[p]]
    /\ cur' = [p \in Proc |-> IF p \in ps THEN NoFile ELSE cur[p]]
    /\ rolling' = rolling \ ps

\* (A process that only reads may as well have stopped reading.)
Crash(p) ==
    /\ pc[p] # "idle" \/ trans[p] # {}
    /\ Dead({p})
    /\ UNCHANGED <<files, journals, masters, span, nextTxn>>

\* The operating system writes what it has buffered.
Settle(f) ==
    /\ f \in undone
    /\ disk' = Has(disk, f, db[f])
    /\ mDisk' = [m \in Master |-> {master[m]}]
    /\ undone' = undone \ {f}
    /\ UNCHANGED <<level, db, journals, master, drawn, own, zMaster, pc, cur, todo, rolling, history>>

PowerFail ==
    /\ AfterRollback \/ undone = {}
    /\ Dead(Proc)
    /\ db' \in {d \in [File -> UNION {disk[f] : f \in File}] : \A f \in File : d[f] \in disk[f]}
    /\ disk' = [f \in File |-> {db'[f]}]
    /\ journal' \in {j \in [File -> UNION {jDisk[f] : f \in File}] : \A f \in File : j[f] \in jDisk[f]}
    /\ jDisk' = [f \in File |-> {journal'[f]}]
    /\ master' \in {d \in [Master -> UNION {mDisk[m] : m \in Master}] : \A m \in Master : d[m] \in mDisk[m]}
    /\ mDisk' = [m \in Master |-> {master'[m]}]
    /\ undone' = {}
    /\ UNCHANGED <<drawn, span, nextTxn>>

Next ==
    \/ \E p \in Proc :
        \/ \E f \in File :
            \/ Read(p, f) \/ Done(p, f) \/ Begin(p, f) \/ NameMaster(p, f) \/ CommitFile(p, f)
            \/ ForgetFile(p, f) \/ RollbackFile(p, f) \/ Recover(p, f)
            \/ NoChild(p, f) \/ Child(p, f)
        \/ CommitOne(p) \/ CreateMaster(p) \/ SyncMaster(p) \/ SyncJournal(p)
        \/ Exclusive(p) \/ CommitBusy(p) \/ WriteSome(p) \/ WriteAll(p)
        \/ \/ DeleteMaster(p) \/ SyncDirectory(p)
        \/ Rollback(p) \/ Playback(p) \/ RestoreSome(p) \/ RestoreAll(p) \/ Unlink(p)
        \/ OpenMaster(p) \/ ReadChild(p) \/ DeleteOrphan(p)
        \/ Crash(p)
    \/ \E f \in File : Settle(f)
    \/ PowerFail

Spec == Init /\ [][Next]_vars

-----------------------------------------------------------------------------

\* What the files would contain if every process died now.
Store == [f \in File |->
             IF journal[f] # Absent /\ Playable(journal[f]) THEN journal[f].orig ELSE db[f]]
\* The transactions that may still commit.
Active == {txn[p] : p \in Proc \ rolling} \ ({0} \cup UNION {Store[f] : f \in File})

AtomicStore == INSTANCE AtomicFiles WITH store <- Store, active <- Active

\* A transaction over several files commits in all of them at once, when the
\* master journal is deleted (vdbeCommit); no crash, power failure, rollback
\* or recovery by another process, and no process that finds the master
\* journal superfluous (pager_delmaster), leaves a part of it.
ImplementsAtomicFiles == AtomicStore!Spec

\* Types, the locks of a file being compatible, and a journal belonging to
\* one writer: the protocol of module FileLock, abridged.
TypeOK ==
    /\ level \in [Proc -> [File -> {"none", "shared", "reserved", "exclusive"}]]
    /\ \A f \in File : \A p, q \in Proc :
        /\ level[p][f] = "exclusive" /\ q # p => level[q][f] = "none"
        /\ level[p][f] = "reserved" /\ q # p => level[q][f] \in {"none", "shared"}
    /\ db \in [File -> Content] /\ \A f \in File : disk[f] \subseteq Content
    /\ \A f \in File : {journal[f]} \cup jDisk[f] \subseteq {Absent} \cup Journal
    /\ \A m \in Master : {master[m]} \cup mDisk[m] \subseteq {Absent} \cup SUBSET File
    /\ \A p \in Proc : \A f \in trans[p] :
           level[p][f] \in {"reserved", "exclusive"} /\ journal[f] # Absent

\* A transaction is in all of its files or in none.
AllOrNothing ==
    \A t \in Txn : \A f, g \in span[t] : t \in Store[f] <=> t \in Store[g]

\* A journal that was named in a master journal, and whose transaction is
\* not committed, keeps a master journal that knows it: pager_delmaster()
\* finds it there and lets the master journal live.
KnownToMaster ==
    \A f \in File :
        journal[f] # Absent /\ Exists(journal[f].master) => f \in master[journal[f].master]
=============================================================================
