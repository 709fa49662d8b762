-------------------------- MODULE MultiFileProofs --------------------------
(***************************************************************************)
(* Machine-checked properties of commits over several files (module        *)
(* MultiFileCommit).                                                       *)
(***************************************************************************)
EXTENDS MultiFileCommit, FiniteSetTheorems, TLAPS

-----------------------------------------------------------------------------
(* The inductive invariant: what holds also if a COMMIT is repeated, and    *)
(* whenever the power fails.                                                *)

InFile == {"journal", "lock", "write", "rest"}
Preparing == {"master", "sync"} \cup InFile
Restoring == {"playback", "restore", "restored", "unlink"}
Recovering == {"delmaster", "children", "child"} \cup Restoring
Label == {"idle", "busy", "directory", "finish", "rollback"} \cup Preparing \cup Recovering
Level == {"none", "shared", "reserved", "exclusive"}

FileTypes ==
    /\ db \in [File -> Content] /\ disk \in [File -> SUBSET Content] /\ undone \subseteq File
    /\ journal \in [File -> {Absent} \cup Journal]
    /\ jDisk \in [File -> SUBSET ({Absent} \cup Journal)]
MasterTypes ==
    /\ master \in [Master -> {Absent} \cup SUBSET File]
    /\ mDisk \in [Master -> SUBSET ({Absent} \cup SUBSET File)] /\ drawn \subseteq Master
OwnTypes ==
    /\ level \in [Proc -> [File -> Level]]
    /\ txn \in [Proc -> {0} \cup Txn]
    /\ trans \in [Proc -> SUBSET File] /\ synced \in [Proc -> SUBSET File]
StepTypes ==
    /\ zMaster \in [Proc -> {NoMaster} \cup Master] /\ todo \in [Proc -> SUBSET File]
    /\ pc \in [Proc -> Label] /\ cur \in [Proc -> {NoFile} \cup File]
    /\ rolling \subseteq Proc
HistoryTypes ==
    /\ span \in [Txn -> SUBSET File] /\ nextTxn \in Nat \ {0} /\ failures \in Nat
Types == FileTypes /\ MasterTypes /\ OwnTypes /\ StepTypes /\ HistoryTypes

\* What may be on the disk is among what is there and what was.
Current ==
    /\ \A f \in File : db[f] \in disk[f] /\ journal[f] \in jDisk[f]
    /\ \A m \in Master : master[m] \in mDisk[m]

Locks ==
    \A f \in File, p, q \in Proc : p # q =>
        /\ level[p][f] = "exclusive" => level[q][f] = "none"
        /\ level[p][f] = "reserved" => level[q][f] \in {"none", "shared"}

\* Where a process can be, in which transaction, and with which file.
Place(p) ==
    /\ txn[p] # 0 => trans[p] # {}
    /\ pc[p] = "idle" => txn[p] = 0 /\ p \notin rolling
    /\ pc[p] \in Preparing \cup {"busy", "directory", "finish"} => txn[p] # 0 /\ p \notin rolling
    /\ pc[p] = "rollback" => p \in rolling /\ trans[p] # {}
    /\ pc[p] \in Recovering /\ p \notin rolling => txn[p] = 0
    /\ txn[p] = 0 => synced[p] = {}
    /\ synced[p] \subseteq trans[p] /\ IsFiniteSet(trans[p])
    /\ pc[p] \in InFile => cur[p] \in trans[p] \ synced[p]
    /\ pc[p] \in {"directory", "finish"} => synced[p] = trans[p]
    /\ pc[p] \in Restoring =>
           /\ cur[p] \in File /\ level[p][cur[p]] = "exclusive" /\ journal[cur[p]] # Absent
           /\ p \in rolling <=> cur[p] \in trans[p]
    /\ pc[p] = "child" => cur[p] \in todo[p]
    /\ pc[p] \in {"master", "directory", "children", "child"} => zMaster[p] # NoMaster

\* A journal belongs to who has the lock.
Owns(p) ==
    \A f \in File :
        /\ f \in trans[p] => level[p][f] \in {"reserved", "exclusive"} /\ journal[f] # Absent
        /\ level[p][f] \in {"reserved", "exclusive"} =>
               f \in trans[p] \/ (pc[p] \in Restoring /\ cur[p] = f)
        /\ f \in synced[p] \/ (pc[p] \in {"write", "rest"} /\ cur[p] = f) => level[p][f] = "exclusive"

\* Names of master journals, and the files they have to name.
Knows(p) ==
    LET m == zMaster[p] IN
    /\ m \in drawn \cup {NoMaster}
    /\ m # NoMaster /\ pc[p] \in Preparing => master[m] = Absent \/ trans[p] \subseteq master[m]
    /\ m # NoMaster /\ pc[p] \in Preparing \ {"master"} =>
           \A d \in mDisk[m] : d = Absent \/ trans[p] \subseteq d
Named ==
    /\ \A m \in Master \ drawn : mDisk[m] = {Absent}
    /\ \A f \in File : \A j \in jDisk[f] \ {Absent} :
           /\ j.master \in drawn \cup {NoMaster}
           /\ j.master # NoMaster => \A d \in mDisk[j.master] : d = Absent \/ f \in d

Base ==
    /\ Types /\ Current /\ Locks /\ Named
    /\ \A p \in Proc : Place(p) /\ Owns(p) /\ Knows(p)

-----------------------------------------------------------------------------
(* What holds besides if no COMMIT is repeated and the power does not fail  *)
(* right after a recovery.                                                  *)

Biggest(t, s) == \A u \in s : u <= t

\* Transactions.
Txns ==
    /\ \A p, q \in Proc : txn[p] # 0 /\ txn[p] = txn[q] => p = q
    /\ \A p \in Proc : txn[p] < nextTxn
    /\ \A t \in Txn : t >= nextTxn => span[t] = {}
    /\ \A f \in File : \A t \in Store[f] : t \in Txn /\ t < nextTxn /\ f \in span[t]

\* What is written of each file before a transaction has committed, ...
Prepared(p, f) ==
    /\ Biggest(txn[p], Store[f])
    /\ journal[f].master =
          IF f \in synced[p] \/ (pc[p] \in InFile /\ cur[p] = f) THEN zMaster[p] ELSE NoMaster
    /\ f \in synced[p] \/ (pc[p] \in {"lock", "write", "rest"} /\ cur[p] = f) =>
          jDisk[f] = {journal[f]}
    /\ f \in synced[p] => db[f] = Store[f] \cup {txn[p]}
    /\ pc[p] = "write" /\ cur[p] = f => db[f] = Store[f]
    /\ pc[p] = "rest" /\ cur[p] = f => db[f] = Store[f] \cup {Half}
Prepares(p) ==
    /\ pc[p] \in Preparing \cup {"busy"} => span[txn[p]] = trans[p]
    /\ pc[p] \in Preparing =>
           /\ zMaster[p] = NoMaster => \E f \in File : trans[p] = {f}
           /\ \A f \in File : txn[p] \notin Store[f]
           /\ \A f \in trans[p] : Prepared(p, f)

\* ... and the master journal, which nobody else uses.
HasMaster(p) ==
    LET m == zMaster[p] IN
    /\ pc[p] = "master" => synced[p] = {}
    /\ pc[p] \in Preparing /\ m # NoMaster =>
           /\ master[m] # Absent
           /\ pc[p] # "master" => Absent \notin mDisk[m]
           /\ \A q \in Proc \ {p} : zMaster[q] # m
           /\ \A f \in File : journal[f] # Absent /\ journal[f].master = m => f \in trans[p]

\* After the commit.
Finishes(p) ==
    pc[p] \in {"directory", "finish"} =>
        /\ \E f \in File : txn[p] \in Store[f]
        /\ zMaster[p] # NoMaster /\ master[zMaster[p]] = Absent
        /\ \A f \in trans[p] : journal[f].master = zMaster[p]
        /\ pc[p] = "finish" => mDisk[zMaster[p]] = {Absent}

\* Outside a commit.
Writes(p) ==
    /\ txn[p] = 0 => \A f \in trans[p] : journal[f].master = NoMaster
    /\ p \notin rolling =>
           /\ \A f \in synced[p] : disk[f] = {db[f]}
           /\ \A f \in trans[p] : \/ level[p][f] = "reserved" \/ f \in synced[p]
                                  \/ pc[p] \in {"write", "rest"} /\ cur[p] = f

\* A playback and pager_delmaster().
Restores(p) ==
    /\ pc[p] \in {"restore", "restored"} => Playable(journal[cur[p]])
    /\ pc[p] = "unlink" => db[cur[p]] = Store[cur[p]]
    /\ pc[p] \in {"children", "child"} /\ master[zMaster[p]] # Absent =>
           \A f \in master[zMaster[p]] \ todo[p] :
               journal[f] = Absent \/ journal[f].master # zMaster[p]

Works(p) == Prepares(p) /\ HasMaster(p) /\ Finishes(p) /\ Writes(p) /\ Restores(p)

\* Who reads a file, or is about to write it, finds what it contains.
Quiet(f) ==
    /\ db[f] = Store[f] /\ (disk[f] = {db[f]} \/ f \in undone)
    /\ journal[f] # Absent => journal[f].orig = Store[f]
Reads == \A f \in File, p \in Proc : level[p][f] \in {"shared", "reserved"} => Quiet(f)

\* A power failure finds the file as it is, or with a journal that is there
\* and will be played back, ...
Certainly(j) == j # Absent /\ (j.master = NoMaster \/ Absent \notin mDisk[j.master])
Guarded(f) ==
    /\ db[f] # Store[f] => jDisk[f] = {journal[f]}
    /\ \/ disk[f] = {Store[f]}
       \/ f \in undone
       \/ jDisk[f] = {journal[f]} /\ Certainly(journal[f]) /\ journal[f].orig = Store[f]

\* ... or with a journal of the last commit, which takes it back from all the
\* files it was about.
TakesBack(f, j, t) == j.orig = Store[f] \ {t} /\ t \in Store[f] /\ Biggest(t, Store[f])
Lone(f, t, m) == \E j \in Journal : jDisk[f] = {j} /\ j.master = m /\ TakesBack(f, j, t)
Loses(f, j) ==
    \/ j.orig = Store[f]
    \/ \E t \in Txn :
           /\ TakesBack(f, j, t)
           /\ IF j.master = NoMaster THEN span[t] = {f}
              ELSE /\ master[j.master] = Absent
                   /\ mDisk[j.master] # {Absent} =>
                          \A g \in span[t] : g \in undone \/ Lone(g, t, j.master)
Contents == \A f \in File : Guarded(f) /\ \A j \in jDisk[f] \ {Absent} : Loses(f, j)

IInv == Base /\ Txns /\ Reads /\ Contents /\ \A p \in Proc : Works(p)


USE CommitAssumption, AbsentAssumption

-----------------------------------------------------------------------------
(* Types.                                                                  *)

LEMMA Labels ==
  /\ "idle" \in Label /\ "busy" \in Label /\ "directory" \in Label /\ "finish" \in Label
  /\ "rollback" \in Label /\ "master" \in Label /\ "sync" \in Label /\ "journal" \in Label
  /\ "lock" \in Label /\ "write" \in Label /\ "rest" \in Label /\ "playback" \in Label
  /\ "restore" \in Label /\ "restored" \in Label /\ "unlink" \in Label
  /\ "delmaster" \in Label /\ "children" \in Label /\ "child" \in Label
  BY DEF Label, Preparing, Recovering, Restoring, InFile

LEMMA InitBase == Init => Base
<1> SUFFICES ASSUME Init PROVE Base
  OBVIOUS
<1>1. Types
  BY Labels DEF Init, Types, FileTypes, MasterTypes, OwnTypes, StepTypes, HistoryTypes, Txn, Content, Level
<1>2. Current /\ Locks /\ Named
  BY DEF Init, Current, Locks, Named
<1>3. ASSUME NEW p \in Proc PROVE Place(p) /\ Owns(p) /\ Knows(p)
  BY <1>3, FS_EmptySet DEF Init, Place, Owns, Knows, Preparing, Recovering, Restoring, InFile
<1>4. QED
  BY <1>1, <1>2, <1>3 DEF Base

\* What stays the same keeps its type; the control moves to a label.
LEMMA KeepTypes ==
  ASSUME Types
  PROVE  /\ UNCHANGED <<files, journals>> => FileTypes'
         /\ UNCHANGED masters => MasterTypes'
         /\ UNCHANGED <<level, own>> => OwnTypes'
         /\ UNCHANGED history => HistoryTypes'
  BY DEF Types, FileTypes, MasterTypes, OwnTypes, HistoryTypes, files, journals, masters, own, history

LEMMA MoveTypes ==
  ASSUME Types, NEW p \in Proc, NEW l \in Label,
         zMaster' \in [Proc -> {NoMaster} \cup Master], todo' \in [Proc -> SUBSET File],
         rolling' \subseteq Proc
  PROVE  /\ Goto(p, l) /\ UNCHANGED cur => StepTypes'
         /\ \A f \in File : At(p, l, f) => StepTypes'
  BY DEF Types, StepTypes, Goto, At

LEMMA HoldTypes ==
  ASSUME Types, NEW p \in Proc, NEW f \in File, NEW l \in Level, Holds(p, f, l)
  PROVE  level' \in [Proc -> [File -> Level]]
  BY DEF Types, OwnTypes, Holds

LEMMA DeleteJournalTypes ==
  ASSUME Types, NEW p \in Proc, NEW f \in File, DeleteJournal(p, f), UNCHANGED <<db, disk>>,
         undone' \subseteq File
  PROVE  FileTypes' /\ OwnTypes'
<1>1. level' \in [Proc -> [File -> Level]]
  BY HoldTypes DEF DeleteJournal, Level
<1>2. QED
  BY <1>1 DEF Types, FileTypes, OwnTypes, DeleteJournal, MayHave

\* The steps of a process in its transaction, ...
LEMMA UseTypes ==
  ASSUME Base, NEW p \in Proc, NEW f \in File,
         Read(p, f) \/ Done(p, f) \/ Begin(p, f) \/ NameMaster(p, f) \/ CommitFile(p, f)
         \/ ForgetFile(p, f) \/ RollbackFile(p, f) \/ Recover(p, f)
  PROVE  Types'
<1>1. Types /\ Place(p) /\ Owns(p) /\ Knows(p)
  BY DEF Base
<1>2. /\ zMaster \in [Proc -> {NoMaster} \cup Master] /\ todo \in [Proc -> SUBSET File]
      /\ rolling \subseteq Proc /\ StepTypes
  BY <1>1 DEF Types, StepTypes
<1>3. "none" \in Level /\ "shared" \in Level /\ "reserved" \in Level /\ "exclusive" \in Level
  BY DEF Level
<1>4. CASE Read(p, f) \/ Done(p, f)
  <2>1. level' \in [Proc -> [File -> Level]] /\ UNCHANGED <<files, journals, masters, own, history>>
    BY <1>1, <1>3, <1>4, HoldTypes DEF Read, Done
  <2>2. StepTypes'
    BY <1>2, <1>4 DEF Read, Done, StepTypes
  <2>3. QED
    BY <1>1, <2>1, <2>2, KeepTypes DEF Types, OwnTypes, own
<1>5. CASE Begin(p, f)
  <2>1. level' \in [Proc -> [File -> Level]] /\ UNCHANGED <<files, masters, history>>
    BY <1>1, <1>3, <1>5, HoldTypes DEF Begin
  <2>2. [orig |-> db[f], master |-> NoMaster] \in Journal
    BY <1>1 DEF Journal, Types, FileTypes
  <2>3. FileTypes' /\ OwnTypes' /\ StepTypes'
    BY <1>1, <1>5, <2>1, <2>2 DEF Begin, MayHave, files, Types, FileTypes, OwnTypes, StepTypes
  <2>4. QED
    BY <1>1, <2>1, <2>3, KeepTypes DEF Types
<1>6. CASE NameMaster(p, f)
  <2>1. journal[f] \in Journal /\ zMaster[p] \in {NoMaster} \cup Master
    BY <1>1, <1>6 DEF NameMaster, Owns, Types, FileTypes, StepTypes
  <2> DEFINE j == [journal[f] EXCEPT !.master = IF SetMaster(f) THEN @ ELSE zMaster[p]]
  <2>2. j \in Journal
    BY <2>1 DEF Journal
  <2>3. /\ journal' = [journal EXCEPT ![f] = j] /\ jDisk' = MayHave(jDisk, f, j)
        /\ At(p, "journal", f) /\ UNCHANGED <<level, files, masters, own, zMaster, todo, rolling, history>>
    BY <1>6 DEF NameMaster
  <2> HIDE DEF j
  <2>4. FileTypes'
    BY <1>1, <2>2, <2>3 DEF MayHave, files, Types, FileTypes
  <2>5. StepTypes'
    BY <1>1, <1>2, <2>3, Labels, MoveTypes
  <2>6. QED
    BY <1>1, <2>3, <2>4, <2>5, KeepTypes DEF Types
<1>7. CASE CommitFile(p, f) \/ ForgetFile(p, f)
  <2>1. /\ DeleteJournal(p, f) /\ UNCHANGED <<files, masters, zMaster, cur, todo, history>>
        /\ rolling' \subseteq Proc /\ \E l \in {"idle", "finish", "rollback"} : Goto(p, l)
    BY <1>2, <1>7 DEF CommitFile, ForgetFile
  <2>2. StepTypes'
    BY <1>1, <1>2, <2>1, Labels, MoveTypes
  <2>3. UNCHANGED <<db, disk>> /\ undone' \subseteq File
    BY <1>1, <2>1 DEF files, Types, FileTypes
  <2>4. FileTypes' /\ OwnTypes'
    BY <1>1, <2>1, <2>3, DeleteJournalTypes
  <2>5. QED
    BY <1>1, <2>1, <2>2, <2>4, KeepTypes DEF Types
<1>8. CASE RollbackFile(p, f) \/ Recover(p, f)
  <2>1. /\ At(p, "playback", f)
        /\ UNCHANGED <<files, journals, masters, own, zMaster, todo, rolling, history>>
        /\ level' = level \/ Holds(p, f, "exclusive")
    BY <1>8 DEF RollbackFile, Recover
  <2>2. StepTypes'
    BY <1>1, <1>2, <2>1, Labels, MoveTypes
  <2>3. level' \in [Proc -> [File -> Level]]
    BY <1>1, <1>3, <2>1, HoldTypes DEF Types, OwnTypes
  <2>4. QED
    BY <1>1, <2>1, <2>2, <2>3, KeepTypes DEF Types, OwnTypes, own
<1>9. QED
  BY <1>4, <1>5, <1>6, <1>7, <1>8

\* ... of vdbeCommit(), ...
LEMMA CommitTypes ==
  ASSUME Base, NEW p \in Proc,
         CommitOne(p) \/ CreateMaster(p) \/ SyncMaster(p) \/ SyncJournal(p)
         \/ Exclusive(p) \/ CommitBusy(p) \/ WriteSome(p) \/ WriteAll(p)
         \/ DeleteMaster(p) \/ SyncDirectory(p)
  PROVE  Types'
<1>1. Types /\ Place(p) /\ Owns(p) /\ Knows(p)
  BY DEF Base
<1>2. /\ zMaster \in [Proc -> {NoMaster} \cup Master] /\ todo \in [Proc -> SUBSET File]
      /\ rolling \subseteq Proc /\ cur[p] \in {NoFile} \cup File
  BY <1>1 DEF Types, StepTypes
<1>3. ASSUME NEW l \in Label, Goto(p, l), UNCHANGED <<zMaster, cur, todo, rolling>> PROVE StepTypes'
  BY <1>1, <1>2, <1>3, MoveTypes
<1>4. pc[p] \in InFile => cur[p] \in File /\ cur[p] \in trans[p]
  BY <1>1 DEF Place, Types, OwnTypes
<1>5. ASSUME Committing(p), UNCHANGED <<trans, synced, level>> PROVE OwnTypes' /\ HistoryTypes'
  <2>1. CASE pc[p] = "idle"
    <3>1. /\ nextTxn \in Txn /\ txn' = [txn EXCEPT ![p] = nextTxn]
          /\ nextTxn' = nextTxn + 1 /\ UNCHANGED failures
          /\ span' = [span EXCEPT ![nextTxn] = trans[p]]
      BY <1>5, <2>1 DEF Committing
    <3>2. trans[p] \in SUBSET File /\ nextTxn \in Nat \ {0} /\ span \in [Txn -> SUBSET File] /\ failures \in Nat
      BY <1>1 DEF Types, OwnTypes, HistoryTypes
    <3>3. HistoryTypes'
      <4>1. span' \in [Txn -> SUBSET File]
        BY <3>1, <3>2
      <4>2. nextTxn' \in Nat \ {0}
        BY <3>1, <3>2
      <4>3. QED
        BY <3>1, <3>2, <4>1, <4>2 DEF HistoryTypes
    <3>4. OwnTypes'
      BY <1>1, <1>5, <3>1 DEF Types, OwnTypes
    <3>5. QED
      BY <3>3, <3>4
  <2>2. CASE pc[p] # "idle"
    BY <1>1, <1>5, <2>2, KeepTypes DEF Committing, own
  <2>3. QED
    BY <2>1, <2>2
<1>6. CASE CommitOne(p)
  <2>1. zMaster' \in [Proc -> {NoMaster} \cup Master]
    BY <1>2, <1>6 DEF CommitOne
  <2>2. StepTypes'
    BY <1>1, <1>2, <1>6, <2>1, Labels, MoveTypes DEF CommitOne
  <2>3. QED
    BY <1>1, <1>5, <1>6, <2>2, KeepTypes DEF CommitOne, Types
<1>7. CASE CreateMaster(p)
  <2>1. PICK m \in Master \ drawn :
            /\ zMaster' = [zMaster EXCEPT ![p] = m]
            /\ drawn' = drawn \cup {m}
            /\ master' = [master EXCEPT ![m] = Children(p)]
            /\ mDisk' = MayHave(MayHave(mDisk, m, {}), m, Children(p))
    BY <1>7 DEF CreateMaster
  <2>2. zMaster' \in [Proc -> {NoMaster} \cup Master]
    BY <1>2, <2>1
  <2>3. StepTypes'
    BY <1>1, <1>2, <1>7, <2>2, Labels, MoveTypes DEF CreateMaster
  <2>4. Children(p) \in SUBSET File
    BY <1>1 DEF Children, Types, OwnTypes
  <2>5. MasterTypes'
    BY <1>1, <2>1, <2>4 DEF Types, MasterTypes, MayHave
  <2>6. QED
    BY <1>1, <1>5, <1>7, <2>3, <2>5, KeepTypes DEF CreateMaster, Types
<1>8. CASE SyncMaster(p) \/ SyncDirectory(p) \/ DeleteMaster(p)
  <2>1. /\ UNCHANGED <<level, files, journals, drawn, own, zMaster, cur, todo, rolling, history>>
        /\ \E l \in {"sync", "directory", "finish"} : Goto(p, l)
    BY <1>8 DEF SyncMaster, SyncDirectory, DeleteMaster
  <2>2. StepTypes'
    BY <1>3, <2>1, Labels
  <2>3. MasterTypes'
    BY <1>1, <1>8 DEF Types, MasterTypes, SyncMaster, SyncDirectory, DeleteMaster, Has, MayHave
  <2>4. QED
    BY <1>1, <2>1, <2>2, <2>3, KeepTypes DEF Types
<1>9. CASE SyncJournal(p)
  <2>1. StepTypes'
    BY <1>3, <1>9, Labels DEF SyncJournal
  <2>2. FileTypes'
    BY <1>1, <1>4, <1>9 DEF Types, FileTypes, SyncJournal, Has, files, InFile
  <2>3. QED
    BY <1>1, <1>9, <2>1, <2>2, KeepTypes DEF SyncJournal, Types
<1>10. CASE Exclusive(p) \/ CommitBusy(p)
  <2>1. level' \in [Proc -> [File -> Level]]
    BY <1>1, <1>4, <1>10, HoldTypes DEF Exclusive, CommitBusy, Types, OwnTypes, Level, InFile
  <2>2. StepTypes'
    BY <1>3, <1>10, Labels DEF Exclusive, CommitBusy
  <2>3. UNCHANGED <<files, journals, masters, own, history>>
    BY <1>10 DEF Exclusive, CommitBusy
  <2>4. QED
    BY <1>1, <2>1, <2>2, <2>3, KeepTypes DEF Types, OwnTypes, own
<1>11. CASE WriteSome(p) \/ WriteAll(p)
  <2>1. cur[p] \in File /\ txn[p] \in Txn /\ db[cur[p]] \in Content
    BY <1>1, <1>4, <1>11 DEF WriteSome, WriteAll, Place, InFile, Preparing, Types, FileTypes, OwnTypes
  <2>2. /\ db[cur[p]] \cup {Half} \in Content /\ db[cur[p]] \cup {txn[p]} \in Content
        /\ (db[cur[p]] \ {Half}) \cup {txn[p]} \in Content
    BY <2>1 DEF Content
  <2>3. StepTypes'
    BY <1>3, <1>11, Labels DEF WriteSome, WriteAll
  <2>4. FileTypes'
    <3>1. UNCHANGED <<undone, journals>>
      BY <1>11 DEF WriteSome, WriteAll
    <3>2. db' \in [File -> Content]
      BY <1>1, <1>11, <2>1, <2>2 DEF WriteSome, WriteAll, Types, FileTypes
    <3>3. disk' \in [File -> SUBSET Content]
      <4>1. CASE WriteSome(p)
        <5>1. disk' = [disk EXCEPT ![cur[p]] = @ \cup {db[cur[p]] \cup {Half}, db[cur[p]] \cup {txn[p]}}]
          BY <4>1 DEF WriteSome
        <5>2. QED
          BY <1>1, <2>1, <2>2, <5>1 DEF Types, FileTypes
      <4>2. CASE WriteAll(p)
        <5>1. disk' = [disk EXCEPT ![cur[p]] = {(db[cur[p]] \ {Half}) \cup {txn[p]}}]
          BY <4>2 DEF WriteAll, Has
        <5>2. QED
          BY <1>1, <2>1, <2>2, <5>1 DEF Types, FileTypes
      <4>3. QED
        BY <1>11, <4>1, <4>2
    <3>4. QED
      BY <1>1, <3>1, <3>2, <3>3 DEF Types, FileTypes, journals
  <2>5. OwnTypes'
    BY <1>1, <1>11, <2>1 DEF WriteSome, WriteAll, Types, OwnTypes, own
  <2>6. UNCHANGED <<masters, history>>
    BY <1>11 DEF WriteSome, WriteAll
  <2>7. QED
    BY <1>1, <2>3, <2>4, <2>5, <2>6, KeepTypes DEF Types
<1>12. QED
  BY <1>6, <1>7, <1>8, <1>9, <1>10, <1>11

\* ... of a playback and pager_delmaster(), ...
LEMMA PlaybackTypes ==
  ASSUME Base, NEW p \in Proc,
         Rollback(p) \/ Playback(p) \/ RestoreSome(p) \/ RestoreAll(p) \/ Unlink(p)
         \/ OpenMaster(p) \/ ReadChild(p) \/ DeleteOrphan(p)
         \/ \E f \in File : NoChild(p, f) \/ Child(p, f)
  PROVE  Types'
<1>1. Types /\ Place(p) /\ Owns(p) /\ Knows(p)
  BY DEF Base
<1>2. /\ zMaster \in [Proc -> {NoMaster} \cup Master] /\ todo \in [Proc -> SUBSET File]
      /\ rolling \subseteq Proc /\ cur \in [Proc -> {NoFile} \cup File] /\ pc \in [Proc -> Label]
  BY <1>1 DEF Types, StepTypes
<1>3. pc[p] \in Restoring => cur[p] \in File /\ journal[cur[p]] \in Journal /\ db[cur[p]] \in Content
  BY <1>1 DEF Place, Types, FileTypes
<1>4. After(p) \in Label /\ (Stays(p) => rolling' \subseteq Proc)
  BY <1>2, Labels DEF After, Stays
<1>5. CASE Rollback(p) \/ Playback(p) \/ RestoreSome(p) \/ RestoreAll(p) \/ Unlink(p)
  <2>1. zMaster' \in [Proc -> {NoMaster} \cup Master]
    <3>1. CASE Playback(p)
      <4>1. journal[cur[p]].master \in {NoMaster} \cup Master
        BY <1>3, <3>1 DEF Playback, Restoring, Journal
      <4>2. QED
        BY <1>2, <3>1, <4>1 DEF Playback
    <3>2. QED
      BY <1>2, <1>5, <3>1 DEF Rollback, RestoreSome, RestoreAll, Unlink
  <2>2. /\ \E l \in {"rollback", "restore", "unlink", "restored", "delmaster"} : Goto(p, l)
        /\ UNCHANGED <<cur, todo>> /\ rolling' \subseteq Proc
    BY <1>2, <1>5 DEF Rollback, Playback, RestoreSome, RestoreAll, Unlink
  <2>3. StepTypes'
    BY <1>1, <1>2, <2>1, <2>2, Labels, MoveTypes
  <2>4. UNCHANGED <<masters, history>>
    BY <1>5 DEF Rollback, Playback, RestoreSome, RestoreAll, Unlink
  <2>5. FileTypes' /\ OwnTypes'
    <3>1. CASE Rollback(p) \/ Playback(p)
      BY <1>1, <3>1, KeepTypes DEF Rollback, Playback
    <3>2. CASE RestoreSome(p)
      <4> DEFINE part == IF db[cur[p]] = journal[cur[p]].orig THEN {} ELSE {Half}
      <4>1. \A v \in Content : v \cup part \in Content
        BY DEF Content
      <4>2. /\ db' = [db EXCEPT ![cur[p]] = @ \cup part]
            /\ disk' = [disk EXCEPT ![cur[p]] = @ \cup {v \cup part : v \in @}]
            /\ UNCHANGED <<level, undone, journals, own>>
        BY <3>2 DEF RestoreSome
      <4> HIDE DEF part
      <4>3. cur[p] \in File /\ db[cur[p]] \in Content
        BY <1>3, <3>2 DEF RestoreSome, Restoring
      <4>4. db' \in [File -> Content]
        BY <1>1, <4>1, <4>2, <4>3 DEF Types, FileTypes
      <4>5. {v \cup part : v \in disk[cur[p]]} \subseteq Content
        BY <1>1, <4>1, <4>3 DEF Types, FileTypes
      <4>6. disk' \in [File -> SUBSET Content]
        BY <1>1, <4>2, <4>3, <4>5 DEF Types, FileTypes
      <4>7. QED
        BY <1>1, <4>2, <4>4, <4>6, KeepTypes DEF Types, FileTypes, journals
    <3>3. CASE RestoreAll(p)
      <4>1. cur[p] \in File /\ journal[cur[p]].orig \in Content
        BY <1>3, <3>3 DEF RestoreAll, Restoring, Journal
      <4>2. db' \in [File -> Content] /\ disk' \in [File -> SUBSET Content]
        BY <1>1, <3>3, <4>1 DEF RestoreAll, MayHave, Types, FileTypes
      <4>3. QED
        BY <1>1, <3>3, <4>2, KeepTypes DEF RestoreAll, Types, FileTypes, journals
    <3>4. CASE Unlink(p)
      <4>1. /\ cur[p] \in File /\ DeleteJournal(p, cur[p]) /\ UNCHANGED <<db, disk>>
            /\ undone' \subseteq File
        BY <1>1, <1>3, <3>4 DEF Unlink, Restoring, Types, FileTypes
      <4>2. QED
        BY <1>1, <4>1, DeleteJournalTypes
    <3>5. QED
      BY <1>5, <3>1, <3>2, <3>3, <3>4
  <2>6. QED
    BY <1>1, <2>3, <2>4, <2>5, KeepTypes DEF Types
<1>6. CASE OpenMaster(p) \/ ReadChild(p) \/ DeleteOrphan(p) \/ \E f \in File : NoChild(p, f) \/ Child(p, f)
  <2>1. UNCHANGED <<level, files, journals, own, zMaster, history>>
    BY <1>6 DEF OpenMaster, ReadChild, DeleteOrphan, NoChild, Child
  <2>2. rolling' \subseteq Proc
    BY <1>2, <1>4, <1>6 DEF OpenMaster, ReadChild, DeleteOrphan, NoChild, Child
  <2>3. todo' \in [Proc -> SUBSET File]
    <3>1. CASE OpenMaster(p)
      <4>1. Exists(zMaster[p]) => master[zMaster[p]] \in SUBSET File
        BY <1>1, <1>2 DEF Exists, Types, MasterTypes
      <4>2. QED
        BY <1>2, <3>1, <4>1 DEF OpenMaster
    <3>2. QED
      BY <1>2, <1>6, <3>1 DEF ReadChild, DeleteOrphan, NoChild, Child
  <2>4. StepTypes'
    <3>1. CASE OpenMaster(p) \/ ReadChild(p) \/ DeleteOrphan(p)
      <4>1. \E l \in Label : Goto(p, l)
        BY <1>4, <3>1, Labels DEF OpenMaster, ReadChild, DeleteOrphan
      <4>2. UNCHANGED cur
        BY <3>1 DEF OpenMaster, ReadChild, DeleteOrphan
      <4>3. QED
        BY <1>1, <1>2, <2>1, <2>2, <2>3, <4>1, <4>2, MoveTypes
    <3>2. CASE \E f \in File : Child(p, f)
      BY <1>1, <1>2, <2>1, <2>2, <2>3, <3>2, Labels, MoveTypes DEF Child
    <3>3. CASE \E f \in File : NoChild(p, f)
      BY <1>2, <2>1, <2>2, <2>3, <3>3 DEF NoChild, StepTypes
    <3>4. QED
      BY <1>6, <3>1, <3>2, <3>3
  <2>5. MasterTypes'
    <3>1. CASE DeleteOrphan(p)
      BY <1>1, <3>1 DEF DeleteOrphan, MayHave, Types, MasterTypes
    <3>2. QED
      BY <1>1, <1>6, <3>1, KeepTypes DEF OpenMaster, ReadChild, NoChild, Child
  <2>6. QED
    BY <1>1, <2>1, <2>4, <2>5, KeepTypes DEF Types
<1>7. QED
  BY <1>5, <1>6

\* ... and the failures.
LEMMA DeadTypes ==
  ASSUME Types, NEW ps \in SUBSET Proc, Dead(ps), UNCHANGED <<span, nextTxn>>
  PROVE  OwnTypes' /\ StepTypes' /\ HistoryTypes'
<1>1. OwnTypes'
  BY DEF Dead, Types, OwnTypes, Level
<1>2. pc' \in [Proc -> Label]
  BY Labels DEF Dead, Types, StepTypes
<1>3. StepTypes'
  BY <1>2 DEF Dead, Types, StepTypes
<1>4. QED
  BY <1>1, <1>3 DEF Dead, Types, HistoryTypes

LEMMA FailureTypes ==
  ASSUME Base, (\E p \in Proc : Crash(p)) \/ (\E f \in File : Settle(f)) \/ PowerFail
  PROVE  Types'
<1>1. Types
  BY DEF Base
<1>2. CASE \E p \in Proc : Crash(p)
  <2>1. PICK p \in Proc : Dead({p}) /\ UNCHANGED <<files, journals, masters, span, nextTxn>>
    BY <1>2 DEF Crash
  <2>2. OwnTypes' /\ StepTypes' /\ HistoryTypes'
    BY <1>1, <2>1, DeadTypes
  <2>3. QED
    BY <1>1, <2>1, <2>2, KeepTypes DEF Types
<1>3. CASE \E f \in File : Settle(f)
  <2>1. FileTypes' /\ MasterTypes'
    BY <1>1, <1>3 DEF Settle, Has, journals, Types, FileTypes, MasterTypes
  <2>2. StepTypes'
    BY <1>1, <1>3 DEF Settle, Types, StepTypes
  <2>3. QED
    BY <1>1, <1>3, <2>1, <2>2, KeepTypes DEF Settle, Types
<1>4. CASE PowerFail
  <2>1. db' \in [File -> Content] /\ journal' \in [File -> {Absent} \cup Journal]
    BY <1>1, <1>4 DEF PowerFail, Types, FileTypes
  <2>2. master' \in [Master -> {Absent} \cup SUBSET File]
    BY <1>1, <1>4 DEF PowerFail, Types, MasterTypes
  <2>3. FileTypes' /\ MasterTypes'
    BY <1>1, <1>4, <2>1, <2>2 DEF PowerFail, Types, FileTypes, MasterTypes
  <2>4. OwnTypes' /\ StepTypes' /\ HistoryTypes'
    BY <1>1, <1>4, DeadTypes DEF PowerFail
  <2>5. QED
    BY <2>3, <2>4 DEF Types
<1>5. QED
  BY <1>2, <1>3, <1>4

-----------------------------------------------------------------------------
(* A step of a process, and the others.                                    *)

Mine(p) == <<pc[p], cur[p], txn[p], trans[p], synced[p], zMaster[p], todo[p], level[p], p \in rolling>>

Leaves(p) ==
    /\ \A q \in Proc \ {p} : Mine(q)' = Mine(q)
    /\ \A f \in File :
           /\ journal'[f] = Absent =>
                  journal[f] = Absent \/ level[p][f] \in {"reserved", "exclusive"}
           /\ journal'[f] \notin {Absent, journal[f]} =>
                  LET m == journal'[f].master IN
                  /\ m \in drawn \cup {NoMaster}
                  /\ m # NoMaster => \A d \in mDisk[m] : d = Absent \/ f \in d
           /\ jDisk'[f] \subseteq jDisk[f] \cup {Absent, journal'[f]}
    /\ drawn \subseteq drawn'
    /\ \A m \in drawn : master'[m] \in {Absent, master[m]} /\ mDisk'[m] \subseteq mDisk[m] \cup {Absent}
    /\ \A m \in Master \ drawn' : mDisk'[m] = {Absent}

LEMMA OthersBase ==
  ASSUME Base, Types', NEW p \in Proc, Leaves(p)
  PROVE  Named' /\ \A q \in Proc \ {p} : Place(q)' /\ Owns(q)' /\ Knows(q)'
<1>1. Named'
  <2>1. \A m \in Master \ drawn' : mDisk'[m] = {Absent}
    BY DEF Leaves
  <2>2. ASSUME NEW f \in File, NEW j \in jDisk'[f] \ {Absent}
        PROVE  /\ j.master \in drawn' \cup {NoMaster}
               /\ j.master # NoMaster => \A d \in mDisk'[j.master] : d = Absent \/ f \in d
    <3>1. j \in jDisk[f] \/ j = journal'[f]
      BY <2>2 DEF Leaves
    <3>2. journal[f] \in jDisk[f]
      BY DEF Base, Current
    <3>3. /\ j.master \in drawn \cup {NoMaster}
          /\ j.master # NoMaster => \A d \in mDisk[j.master] : d = Absent \/ f \in d
      <4>1. CASE j \in jDisk[f]
        BY <2>2, <4>1 DEF Base, Named
      <4>2. CASE j = journal'[f] /\ j # journal[f]
        BY <2>2, <4>2 DEF Leaves
      <4>3. QED
        BY <3>1, <3>2, <4>1, <4>2
    <3>4. QED
      BY <3>3 DEF Leaves
  <2>3. QED
    BY <2>1, <2>2 DEF Named
<1>2. ASSUME NEW q \in Proc \ {p} PROVE Place(q)' /\ Owns(q)' /\ Knows(q)'
  <2>1. /\ pc'[q] = pc[q] /\ cur'[q] = cur[q] /\ txn'[q] = txn[q] /\ trans'[q] = trans[q]
        /\ synced'[q] = synced[q] /\ zMaster'[q] = zMaster[q] /\ todo'[q] = todo[q]
        /\ level'[q] = level[q] /\ (q \in rolling' <=> q \in rolling)
    BY DEF Leaves, Mine
  <2>2. Place(q) /\ Owns(q) /\ Knows(q) /\ Types /\ Locks
    BY DEF Base
  <2>3. \A f \in File : level[q][f] \in {"reserved", "exclusive"} /\ journal[f] # Absent =>
            journal'[f] # Absent
    BY <2>2 DEF Leaves, Locks
  <2>4. Owns(q)'
    BY <2>1, <2>2, <2>3 DEF Owns
  <2>5. Place(q)'
    BY <2>1, <2>2, <2>3 DEF Place
  <2>6. Knows(q)'
    BY <2>1, <2>2 DEF Knows, Leaves
  <2>7. QED
    BY <2>4, <2>5, <2>6
<1>3. QED
  BY <1>1, <1>2

\* A lock that a process takes or gives back.
LEMMA LocksKept ==
  ASSUME Base, Types', NEW p \in Proc, \A q \in Proc \ {p} : level'[q] = level[q],
         \A f \in File :
             \/ level'[p][f] \in {"none", level[p][f]}
             \/ level'[p][f] = "shared" /\ "exclusive" \notin Others(p, f)
             \/ level'[p][f] = "reserved" /\ Others(p, f) \cap {"reserved", "exclusive"} = {}
             \/ level'[p][f] = "exclusive" /\ Others(p, f) \subseteq {"none"}
  PROVE  Locks'
<1> SUFFICES ASSUME NEW f \in File, NEW q \in Proc, NEW r \in Proc, q # r
             PROVE  /\ level'[q][f] = "exclusive" => level'[r][f] = "none"
                    /\ level'[q][f] = "reserved" => level'[r][f] \in {"none", "shared"}
  BY DEF Locks
<1>1. \A x, y \in Proc : x # y =>
        /\ level[x][f] = "exclusive" => level[y][f] = "none"
        /\ level[x][f] = "reserved" => level[y][f] \in {"none", "shared"}
  BY DEF Base, Locks
<1>2. \A x \in Proc \ {p} : level[x][f] \in Others(p, f) /\ level[x][f] \in Level
  BY DEF Others, Base, Types, OwnTypes
<1>3. \A x \in Proc \ {p} : level'[x][f] = level[x][f]
  OBVIOUS
<1>4. CASE q # p /\ r # p
  BY <1>1, <1>3, <1>4
<1>5. CASE q = p
  BY <1>1, <1>2, <1>3, <1>5 DEF Level
<1>6. CASE r = p
  BY <1>1, <1>2, <1>3, <1>6 DEF Level
<1>7. QED
  BY <1>4, <1>5, <1>6

\* Steps that leave files, journals and master journals alone.
LEMMA LeavesFiles ==
  ASSUME Base, NEW p \in Proc, UNCHANGED <<journals, masters>>,
         \A q \in Proc \ {p} : Mine(q)' = Mine(q)
  PROVE  Leaves(p)
<1>1. /\ \A f \in File : journal'[f] = journal[f] /\ jDisk'[f] = jDisk[f]
      /\ drawn' = drawn /\ \A m \in Master : master'[m] = master[m] /\ mDisk'[m] = mDisk[m]
  BY DEF journals, masters
<1>2. drawn \subseteq Master /\ \A m \in Master \ drawn : mDisk[m] = {Absent}
  BY DEF Base, Types, MasterTypes, Named
<1>3. QED
  BY <1>1, <1>2 DEF Leaves

LEMMA Moved ==
  ASSUME Types, NEW p \in Proc
  PROVE  /\ \A l : Goto(p, l) => pc'[p] = l /\ \A q \in Proc \ {p} : pc'[q] = pc[q]
         /\ \A l, f : At(p, l, f) => /\ pc'[p] = l /\ cur'[p] = f
                                     /\ \A q \in Proc \ {p} : pc'[q] = pc[q] /\ cur'[q] = cur[q]
         /\ \A f \in File : \A l : Holds(p, f, l) =>
                /\ level'[p][f] = l /\ \A q \in Proc \ {p} : level'[q] = level[q]
                /\ \A g \in File \ {f} : level'[p][g] = level[p][g]
  BY DEF Types, OwnTypes, StepTypes, Goto, At, Holds

LEMMA BaseOf ==
  ASSUME Base, Types', NEW p \in Proc, Leaves(p), Current', Locks',
         Place(p)', Owns(p)', Knows(p)'
  PROVE  Base'
  BY OthersBase DEF Base

-----------------------------------------------------------------------------
(* Every step keeps Base.                                                   *)

\* Steps that only move p, or change its lock on one file.
LEMMA ReadBase ==
  ASSUME Base, NEW p \in Proc, NEW f \in File, Read(p, f) \/ Done(p, f)
  PROVE  Base'
<1>1. Types'
  BY UseTypes
<1>2. Types /\ Place(p) /\ Owns(p) /\ Knows(p) /\ Current
  BY DEF Base
<1>3. /\ UNCHANGED <<files, journals, masters, own, zMaster, pc, cur, todo, rolling, history>>
      /\ level'[p][f] \in {"none", "shared"} /\ level[p][f] \in {"none", "shared"}
      /\ \A q \in Proc \ {p} : level'[q] = level[q]
      /\ \A g \in File \ {f} : level'[p][g] = level[p][g]
      /\ level'[p][f] = "none" \/ "exclusive" \notin Others(p, f)
  BY <1>2, Moved DEF Read, Done
<1>4. Leaves(p)
  BY <1>3, LeavesFiles DEF Mine, own
<1>5. Locks'
  BY <1>1, <1>3, LocksKept
<1>6. Place(p)' /\ Knows(p)'
  BY <1>2, <1>3 DEF Place, Knows, own, journals, masters
<1>7. Owns(p)'
  BY <1>2, <1>3 DEF Owns, own, journals
<1>8. Current'
  BY <1>2, <1>3 DEF Current, files, journals, masters
<1>9. QED
  BY <1>1, <1>4, <1>5, <1>6, <1>7, <1>8, BaseOf

LEMMA BeginBase ==
  ASSUME Base, NEW p \in Proc, NEW f \in File, Begin(p, f)
  PROVE  Base'
<1>1. Types'
  BY UseTypes
<1>2. Types /\ Place(p) /\ Owns(p) /\ Knows(p) /\ Current
  BY DEF Base
<1> DEFINE j == [orig |-> db[f], master |-> NoMaster]
<1>3. /\ UNCHANGED <<files, masters, txn, synced, zMaster, pc, cur, todo, rolling, history>>
      /\ pc[p] = "idle" /\ level'[p][f] = "reserved" /\ level[p][f] = "shared"
      /\ \A q \in Proc \ {p} : level'[q] = level[q] /\ trans'[q] = trans[q]
      /\ \A g \in File \ {f} : level'[p][g] = level[p][g]
      /\ Others(p, f) \cap {"reserved", "exclusive"} = {}
      /\ trans'[p] = trans[p] \cup {f}
  BY <1>2, Moved DEF Begin, Types, OwnTypes
<1>4. /\ journal'[f] = j /\ jDisk'[f] = jDisk[f] \cup {j}
      /\ \A g \in File \ {f} : journal'[g] = journal[g] /\ jDisk'[g] = jDisk[g]
  BY <1>2 DEF Begin, MayHave, Types, FileTypes
<1>5. j \in Journal /\ j.master = NoMaster /\ j # Absent
  BY <1>2 DEF Journal, Types, FileTypes
<1> HIDE DEF j
<1>6. Leaves(p)
  <2>1. drawn \subseteq Master /\ \A m \in Master \ drawn : mDisk[m] = {Absent}
    BY DEF Base, Types, MasterTypes, Named
  <2>2. \A q \in Proc \ {p} : Mine(q)' = Mine(q)
    BY <1>3 DEF Mine
  <2>3. drawn' = drawn /\ master' = master /\ mDisk' = mDisk
    BY <1>3 DEF masters
  <2>4. QED
    BY <1>4, <1>5, <2>1, <2>2, <2>3 DEF Leaves
<1>7. Locks'
  BY <1>1, <1>3, LocksKept
<1>8. Place(p)'
  <2>1. IsFiniteSet(trans[p] \cup {f})
    BY <1>2, FS_AddElement DEF Place
  <2>2. synced[p] = {} /\ txn[p] = 0 /\ p \notin rolling
    BY <1>2, <1>3 DEF Place
  <2>3. QED
    BY <1>3, <2>1, <2>2 DEF Place, Preparing, Recovering, Restoring, InFile
<1>9. Owns(p)'
  <2>1. synced[p] = {}
    BY <1>2, <1>3 DEF Place
  <2>2. QED
    BY <1>2, <1>3, <1>4, <1>5, <2>1 DEF Owns, Restoring
<1>10. Knows(p)'
  BY <1>2, <1>3 DEF Knows, masters, Preparing, InFile
<1>11. Current'
  BY <1>2, <1>3, <1>4 DEF Current, files, masters
<1>12. QED
  BY <1>1, <1>6, <1>7, <1>8, <1>9, <1>10, <1>11, BaseOf

LEMMA NameMasterBase ==
  ASSUME Base, NEW p \in Proc, NEW f \in File, NameMaster(p, f)
  PROVE  Base'
<1>1. Types'
  BY UseTypes
<1>2. Types /\ Place(p) /\ Owns(p) /\ Knows(p) /\ Current /\ Locks
  BY DEF Base
<1> DEFINE j == [journal[f] EXCEPT !.master = IF SetMaster(f) THEN @ ELSE zMaster[p]]
<1>3. /\ UNCHANGED <<level, files, masters, own, zMaster, todo, rolling, history>>
      /\ pc[p] = "sync" /\ f \in trans[p] \ synced[p] /\ pc'[p] = "journal" /\ cur'[p] = f
      /\ \A q \in Proc \ {p} : pc'[q] = pc[q] /\ cur'[q] = cur[q]
  BY <1>2, Moved DEF NameMaster
<1>4. /\ journal'[f] = j /\ jDisk'[f] = jDisk[f] \cup {j}
      /\ \A g \in File \ {f} : journal'[g] = journal[g] /\ jDisk'[g] = jDisk[g]
  BY <1>2 DEF NameMaster, MayHave, Types, FileTypes
<1>5. journal[f] \in Journal /\ journal[f] # Absent
  BY <1>2, <1>3 DEF Owns, Types, FileTypes
<1>6. j \in Journal /\ j # Absent /\ j.master \in {journal[f].master, zMaster[p]}
  <2>1. zMaster[p] \in Master \cup {NoMaster}
    BY <1>2 DEF Types, StepTypes
  <2>2. QED
    BY <1>5, <2>1 DEF Journal
<1> HIDE DEF j
<1>7. Leaves(p)
  <2>1. /\ drawn \subseteq Master /\ \A m \in Master \ drawn : mDisk[m] = {Absent}
        /\ \A i \in jDisk[f] \ {Absent} :
             /\ i.master \in drawn \cup {NoMaster}
             /\ i.master # NoMaster => \A d \in mDisk[i.master] : d = Absent \/ f \in d
    BY DEF Base, Types, MasterTypes, Named
  <2>2. \A q \in Proc \ {p} : Mine(q)' = Mine(q)
    BY <1>3 DEF Mine, own
  <2>3. drawn' = drawn /\ master' = master /\ mDisk' = mDisk
    BY <1>3 DEF masters
  <2>4. /\ zMaster[p] \in drawn \cup {NoMaster}
        /\ zMaster[p] # NoMaster => \A d \in mDisk[zMaster[p]] : d = Absent \/ f \in d
    BY <1>2, <1>3 DEF Knows, Preparing
  <2>5. journal[f] \in jDisk[f] \ {Absent}
    BY <1>2, <1>5 DEF Current
  <2>6. /\ j.master \in drawn \cup {NoMaster}
        /\ j.master # NoMaster => \A d \in mDisk[j.master] : d = Absent \/ f \in d
    BY <1>6, <2>1, <2>4, <2>5
  <2>7. QED
    BY <1>4, <1>6, <2>1, <2>2, <2>3, <2>6 DEF Leaves
<1>8. Locks'
  BY <1>2, <1>3 DEF Locks
<1>9. Place(p)'
  BY <1>2, <1>3 DEF Place, own, Preparing, Recovering, Restoring, InFile
<1>10. Owns(p)'
  BY <1>2, <1>3, <1>4, <1>6 DEF Owns, own, Restoring
<1>11. Knows(p)'
  BY <1>2, <1>3 DEF Knows, masters, own, Preparing, InFile
<1>12. Current'
  BY <1>2, <1>3, <1>4 DEF Current, files, masters
<1>13. QED
  BY <1>1, <1>7, <1>8, <1>9, <1>10, <1>11, <1>12, BaseOf

\* What goes with a journal.
Gone(p, f) ==
    /\ journal'[f] = Absent /\ jDisk'[f] = jDisk[f] \cup {Absent}
    /\ \A g \in File \ {f} : journal'[g] = journal[g] /\ jDisk'[g] = jDisk[g]
    /\ level'[p][f] = "none" /\ \A g \in File \ {f} : level'[p][g] = level[p][g]
    /\ trans'[p] = trans[p] \ {f} /\ synced'[p] = synced[p] \ {f}
    /\ txn'[p] = IF trans[p] \subseteq {f} THEN 0 ELSE txn[p]
    /\ \A q \in Proc \ {p} : /\ level'[q] = level[q] /\ trans'[q] = trans[q]
                             /\ synced'[q] = synced[q] /\ txn'[q] = txn[q]
    /\ IsFiniteSet(trans[p] \ {f}) /\ synced'[p] \subseteq trans'[p]

LEMMA JournalGone ==
  ASSUME Base, NEW p \in Proc, NEW f \in File, DeleteJournal(p, f)
  PROVE  Gone(p, f)
<1>1. Types /\ Place(p)
  BY DEF Base
<1>2. /\ journal'[f] = Absent /\ jDisk'[f] = jDisk[f] \cup {Absent}
      /\ \A g \in File \ {f} : journal'[g] = journal[g] /\ jDisk'[g] = jDisk[g]
  BY <1>1 DEF DeleteJournal, MayHave, Types, FileTypes
<1>3. /\ trans'[p] = trans[p] \ {f} /\ synced'[p] = synced[p] \ {f}
      /\ txn'[p] = IF trans[p] \subseteq {f} THEN 0 ELSE txn[p]
      /\ \A q \in Proc \ {p} : trans'[q] = trans[q] /\ synced'[q] = synced[q] /\ txn'[q] = txn[q]
  BY <1>1 DEF DeleteJournal, Types, OwnTypes
<1>4. /\ level'[p][f] = "none" /\ \A g \in File \ {f} : level'[p][g] = level[p][g]
      /\ \A q \in Proc \ {p} : level'[q] = level[q]
  BY <1>1, Moved DEF DeleteJournal
<1>5. IsFiniteSet(trans[p] \ {f}) /\ synced[p] \subseteq trans[p]
  BY <1>1, FS_RemoveElement DEF Place
<1>6. QED
  BY <1>2, <1>3, <1>4, <1>5 DEF Gone

LEMMA JournalGoneBase ==
  ASSUME Base, Types', NEW p \in Proc, NEW f \in File,
         DeleteJournal(p, f), level[p][f] \in {"reserved", "exclusive"},
         UNCHANGED <<db, disk, masters, zMaster, cur, todo>>,
         \A q \in Proc \ {p} : pc'[q] = pc[q] /\ (q \in rolling' <=> q \in rolling)
  PROVE  /\ Leaves(p) /\ Locks' /\ Current'
         /\ (\A g \in File : g \in trans'[p] => level'[p][g] \in {"reserved", "exclusive"} /\ journal'[g] # Absent)
         /\ (\A g \in File : g \in synced'[p] => level'[p][g] = "exclusive")
         /\ (pc'[p] \notin Preparing => Knows(p)')
<1>1. Types /\ Place(p) /\ Owns(p) /\ Knows(p) /\ Current
  BY DEF Base
<1> Gone(p, f)
  BY JournalGone
<1>2. Leaves(p)
  <2>1. drawn \subseteq Master /\ \A m \in Master \ drawn : mDisk[m] = {Absent}
    BY DEF Base, Types, MasterTypes, Named
  <2>2. \A q \in Proc \ {p} : Mine(q)' = Mine(q)
    BY DEF Gone, Mine
  <2>3. drawn' = drawn /\ master' = master /\ mDisk' = mDisk
    BY DEF masters
  <2>4. QED
    BY <2>1, <2>2, <2>3 DEF Gone, Leaves
<1>3. Locks'
  BY LocksKept DEF Gone
<1>4. Current'
  BY <1>1 DEF Current, masters, Gone
<1>5. \A g \in File : g \in trans'[p] => level'[p][g] \in {"reserved", "exclusive"} /\ journal'[g] # Absent
  BY <1>1 DEF Owns, Gone
<1>6. \A g \in File : g \in synced'[p] => level'[p][g] = "exclusive"
  BY <1>1 DEF Owns, Gone
<1>7. pc'[p] \notin Preparing => Knows(p)'
  BY <1>1 DEF Knows, masters
<1>8. QED
  BY <1>2, <1>3, <1>4, <1>5, <1>6, <1>7

LEMMA CommitFileBase ==
  ASSUME Base, NEW p \in Proc, NEW f \in File, CommitFile(p, f) \/ ForgetFile(p, f)
  PROVE  Base'
<1>1. Types'
  BY UseTypes
<1>2. Types /\ Place(p) /\ Owns(p) /\ Knows(p) /\ Current
  BY DEF Base
<1>3. /\ f \in trans[p] /\ DeleteJournal(p, f) /\ pc[p] \notin Restoring
      /\ UNCHANGED <<db, disk, masters, zMaster, cur, todo>>
      /\ \A q \in Proc \ {p} : pc'[q] = pc[q] /\ (q \in rolling' <=> q \in rolling)
  BY <1>2, Moved DEF CommitFile, ForgetFile, Synced, files, Restoring
<1>4. level[p][f] \in {"reserved", "exclusive"}
  BY <1>2, <1>3 DEF Owns
<1>5. pc'[p] \in {"idle", "finish", "rollback"}
  BY <1>2, Moved DEF CommitFile, ForgetFile
<1>6. Gone(p, f)
  BY <1>3, JournalGone
<1>7. Place(p)'
  <2>1. CASE CommitFile(p, f)
    <3>1. /\ synced[p] = trans[p] /\ p \notin rolling /\ txn[p] # 0 /\ rolling' = rolling
          /\ pc'[p] = IF trans[p] = {f} THEN "idle" ELSE "finish"
      BY <1>2, <2>1, Moved DEF CommitFile, Synced, Place, Preparing
    <3>2. QED
      BY <1>3, <1>4, <1>5, <1>6, <3>1 DEF Gone, Place, Preparing, Recovering, Restoring, InFile
  <2>2. CASE ForgetFile(p, f)
    <3>1. /\ p \in rolling
          /\ pc'[p] = IF trans[p] = {f} THEN "idle" ELSE "rollback"
          /\ p \in rolling' <=> trans[p] # {f}
      BY <1>2, <2>2, Moved DEF ForgetFile, Place
    <3>2. QED
      BY <1>2, <1>3, <1>4, <1>5, <1>6, <3>1 DEF Gone, Place, Preparing, Recovering, Restoring, InFile
  <2>3. QED
    BY <2>1, <2>2
<1>8. Owns(p)'
  <2>1. \A g \in File : level'[p][g] \in {"reserved", "exclusive"} => g \in trans'[p]
    BY <1>2, <1>3, <1>4, <1>6 DEF Gone, Owns
  <2>2. QED
    BY <1>1, <1>3, <1>4, <1>5, <2>1, JournalGoneBase DEF Owns
<1>9. QED
  BY <1>1, <1>3, <1>4, <1>5, <1>7, <1>8, JournalGoneBase, BaseOf DEF Preparing, InFile

LEMMA ToPlaybackBase ==
  ASSUME Base, NEW p \in Proc, NEW f \in File, RollbackFile(p, f) \/ Recover(p, f)
  PROVE  Base'
<1>1. Types'
  BY UseTypes
<1>2. Types /\ Place(p) /\ Owns(p) /\ Knows(p) /\ Current
  BY DEF Base
<1>3. /\ UNCHANGED <<files, journals, masters, own, zMaster, todo, rolling, history>>
      /\ pc'[p] = "playback" /\ cur'[p] = f
      /\ \A q \in Proc \ {p} : pc'[q] = pc[q] /\ cur'[q] = cur[q] /\ level'[q] = level[q]
      /\ level'[p][f] = "exclusive"
      /\ \A g \in File \ {f} : level'[p][g] = level[p][g]
  BY <1>2, Moved DEF RollbackFile, Recover
<1>4. /\ level[p][f] = "exclusive" \/ Others(p, f) \subseteq {"none"}
      /\ p \in rolling <=> f \in trans[p]
      /\ pc[p] = "rollback" \/ (pc[p] = "idle" /\ p \notin rolling)
      /\ journal[f] # Absent
  BY <1>2 DEF RollbackFile, Recover, Hot, Place, Owns
<1>5. Leaves(p)
  BY <1>3, LeavesFiles DEF Mine, own
<1>6. Locks'
  BY <1>1, <1>3, <1>4, LocksKept
<1>7. Place(p)'
  BY <1>2, <1>3, <1>4 DEF Place, own, journals, Preparing, Recovering, Restoring, InFile
<1>8. Knows(p)'
  BY <1>2, <1>3 DEF Knows, masters, own, Preparing, InFile
<1>9. Owns(p)'
  BY <1>2, <1>3, <1>4 DEF Owns, own, journals, Restoring
<1>10. Current'
  BY <1>2, <1>3 DEF Current, files, journals, masters
<1>11. QED
  BY <1>1, <1>5, <1>6, <1>7, <1>8, <1>9, <1>10, BaseOf

\* COMMIT begins.
LEMMA CommitOneBase ==
  ASSUME Base, NEW p \in Proc, CommitOne(p) \/ CreateMaster(p)
  PROVE  Base'
<1>1. Types'
  BY CommitTypes
<1>2. Types /\ Place(p) /\ Owns(p) /\ Knows(p) /\ Current /\ Locks /\ Named
  BY DEF Base
<1>3. /\ UNCHANGED <<level, files, journals, trans, synced, cur, todo, rolling>>
      /\ pc'[p] \in {"sync", "master"} /\ \A q \in Proc \ {p} : pc'[q] = pc[q]
      /\ pc[p] \in {"idle", "busy"}
  BY <1>2, Moved DEF CommitOne, CreateMaster, Committing
<1>4. trans[p] # {}
  <2>1. Cardinality(trans[p]) # 0
    BY DEF CommitOne, CreateMaster
  <2>2. QED
    BY <2>1, FS_EmptySet
<1>5. txn'[p] # 0 /\ \A q \in Proc \ {p} : txn'[q] = txn[q]
  <2>1. CASE pc[p] = "idle"
    <3>1. txn' = [txn EXCEPT ![p] = nextTxn] /\ nextTxn # 0
      BY <1>2, <2>1 DEF CommitOne, CreateMaster, Committing, Types, HistoryTypes
    <3>2. QED
      BY <1>2, <3>1 DEF Types, OwnTypes
  <2>2. CASE pc[p] = "busy"
    <3>1. txn' = txn
      BY <2>2 DEF CommitOne, CreateMaster, Committing
    <3>2. QED
      BY <1>2, <2>2, <3>1 DEF Place
  <2>3. QED
    BY <1>3, <2>1, <2>2
<1>6. p \notin rolling /\ (pc[p] = "idle" => synced[p] = {})
  BY <1>2, <1>3 DEF Place
<1>7. CASE CommitOne(p)
  <2>1. zMaster'[p] = NoMaster /\ (\A q \in Proc \ {p} : zMaster'[q] = zMaster[q]) /\ UNCHANGED masters
        /\ pc'[p] = "sync"
    BY <1>2, <1>7, Moved DEF CommitOne, Types, StepTypes
  <2>2. Leaves(p)
    BY <1>3, <1>5, <2>1, LeavesFiles DEF Mine
  <2>3. Place(p)' /\ Owns(p)' /\ Knows(p)'
    <3>1. Place(p)'
      BY <1>2, <1>3, <1>4, <1>5, <1>6, <2>1 DEF Place, Preparing, Recovering, Restoring, InFile
    <3>2. Owns(p)'
      BY <1>2, <1>3, <2>1 DEF Owns, journals, Restoring
    <3>3. QED
      BY <2>1, <3>1, <3>2 DEF Knows
  <2>4. Current' /\ Locks'
    BY <1>2, <1>3, <2>1 DEF Current, Locks, files, journals, masters
  <2>5. QED
    BY <1>1, <2>2, <2>3, <2>4, BaseOf
<1>8. CASE CreateMaster(p)
  <2>1. PICK m \in Master \ drawn :
            /\ zMaster' = [zMaster EXCEPT ![p] = m]
            /\ drawn' = drawn \cup {m}
            /\ master' = [master EXCEPT ![m] = Children(p)]
            /\ mDisk' = MayHave(MayHave(mDisk, m, {}), m, Children(p))
    BY <1>8 DEF CreateMaster
  <2>2. /\ zMaster'[p] = m /\ \A q \in Proc \ {p} : zMaster'[q] = zMaster[q]
        /\ master'[m] = trans[p] /\ \A n \in Master \ {m} : master'[n] = master[n]
        /\ mDisk'[m] = mDisk[m] \cup {{}, trans[p]} /\ \A n \in Master \ {m} : mDisk'[n] = mDisk[n]
        /\ pc'[p] = "master"
    <3>1. /\ zMaster'[p] = m /\ (\A q \in Proc \ {p} : zMaster'[q] = zMaster[q])
          /\ master'[m] = trans[p] /\ \A n \in Master \ {m} : master'[n] = master[n]
      BY <1>2, <2>1 DEF Types, StepTypes, MasterTypes, Children
    <3>2. mDisk'[m] = mDisk[m] \cup {{}, trans[p]} /\ \A n \in Master \ {m} : mDisk'[n] = mDisk[n]
      BY <1>2, <2>1 DEF Types, MasterTypes, Children, MayHave
    <3>3. pc'[p] = "master"
      BY <1>2, <1>8, Moved DEF CreateMaster
    <3>4. QED
      BY <3>1, <3>2, <3>3
  <2>3. Leaves(p)
    <3>1. \A f \in File : journal'[f] = journal[f] /\ jDisk'[f] = jDisk[f]
      BY <1>3 DEF journals
    <3>2. \A q \in Proc \ {p} : Mine(q)' = Mine(q)
      BY <1>3, <1>5, <2>2 DEF Mine
    <3>3. \A n \in drawn : n \in Master \ {m}
      BY <1>2, <2>1 DEF Types, MasterTypes
    <3>4. \A n \in Master \ drawn' : n \in Master \ {m} /\ mDisk[n] = {Absent}
      BY <1>2, <2>1 DEF Named
    <3>5. QED
      BY <2>1, <2>2, <3>1, <3>2, <3>3, <3>4 DEF Leaves
  <2>4. Place(p)'
    BY <1>2, <1>3, <1>4, <1>5, <1>6, <2>1, <2>2 DEF Place, Preparing, Recovering, Restoring, InFile
  <2>5. Owns(p)'
    BY <1>2, <1>3, <2>2 DEF Owns, journals, Restoring
  <2>6. Knows(p)'
    BY <1>3, <2>1, <2>2 DEF Knows
  <2>7. Locks'
    BY <1>2, <1>3 DEF Locks
  <2>8. Current'
    BY <1>2, <1>3, <2>2 DEF Current, files, journals
  <2>9. QED
    BY <1>1, <2>3, <2>4, <2>5, <2>6, <2>7, <2>8, BaseOf
<1>9. QED
  BY <1>7, <1>8

\* The master journal, its directory, and the journal reach the disk; the
\* master journal is deleted.
LEMMA MasterBase ==
  ASSUME Base, NEW p \in Proc,
         SyncMaster(p) \/ DeleteMaster(p) \/ SyncDirectory(p) \/ DeleteOrphan(p)
  PROVE  Base'
<1>1. Types'
  BY CommitTypes, PlaybackTypes
<1>2. Types /\ Place(p) /\ Owns(p) /\ Knows(p) /\ Current /\ Locks /\ Named
  BY DEF Base
<1>3. /\ UNCHANGED <<level, files, journals, drawn, own, zMaster, cur, todo, history>>
      /\ \A q \in Proc \ {p} : pc'[q] = pc[q] /\ (q \in rolling' <=> q \in rolling)
      /\ DeleteOrphan(p) \/ rolling' = rolling
  BY <1>2, Moved DEF SyncMaster, DeleteMaster, SyncDirectory, DeleteOrphan, Stays
<1>4. /\ \A m \in Master : master'[m] \in {Absent, master[m]} /\ mDisk'[m] \subseteq mDisk[m] \cup {Absent}
      /\ \A m \in Master \ drawn : mDisk'[m] = {Absent}
      /\ \A m \in Master : master'[m] \in mDisk'[m]
  <2>1. zMaster[p] # NoMaster => zMaster[p] \in Master /\ zMaster[p] \in drawn
    BY <1>2 DEF Knows, Types, MasterTypes
  <2>2. \A m \in Master \ drawn : mDisk[m] = {Absent} /\ master[m] = Absent
    BY <1>2 DEF Named, Current
  <2>3. CASE SyncMaster(p)
    BY <1>2, <2>1, <2>2, <2>3 DEF SyncMaster, Has, Place, Current, Types, MasterTypes
  <2>4. CASE DeleteMaster(p)
    BY <1>2, <2>1, <2>2, <2>4 DEF DeleteMaster, MayHave, Current, Types, MasterTypes
  <2>5. CASE SyncDirectory(p)
    BY <1>2, <2>1, <2>2, <2>5 DEF SyncDirectory, Current, Types, MasterTypes
  <2>6. CASE DeleteOrphan(p)
    BY <1>2, <2>1, <2>2, <2>6 DEF DeleteOrphan, MayHave, Place, Current, Types, MasterTypes
  <2>7. QED
    BY <2>3, <2>4, <2>5, <2>6
<1>5. Leaves(p)
  <2>1. \A f \in File : journal'[f] = journal[f] /\ jDisk'[f] = jDisk[f]
    BY <1>3 DEF journals
  <2>2. \A q \in Proc \ {p} : Mine(q)' = Mine(q)
    BY <1>3 DEF Mine, own
  <2>3. drawn \subseteq Master /\ drawn' = drawn
    BY <1>2, <1>3 DEF Types, MasterTypes
  <2>4. QED
    BY <1>4, <2>1, <2>2, <2>3 DEF Leaves
<1>6. Locks'
  BY <1>2, <1>3 DEF Locks
<1>7. Current'
  BY <1>2, <1>3, <1>4 DEF Current, files, journals
<1>8. \/ /\ pc[p] = "master" /\ pc'[p] = "sync" /\ rolling' = rolling
         /\ mDisk'[zMaster[p]] = {master[zMaster[p]]} /\ master' = master
      \/ /\ pc[p] = "sync" /\ pc'[p] = "directory" /\ rolling' = rolling
         /\ synced[p] = trans[p] /\ zMaster[p] # NoMaster
      \/ pc[p] = "directory" /\ pc'[p] = "finish" /\ rolling' = rolling
      \/ pc[p] = "children" /\ pc'[p] = After(p) /\ Stays(p)
  <2>1. zMaster[p] # NoMaster => zMaster[p] \in Master
    BY <1>2 DEF Types, StepTypes
  <2>2. CASE SyncMaster(p)
    BY <1>2, <2>1, <2>2, Moved DEF SyncMaster, Has, Place, Types, MasterTypes
  <2>3. CASE DeleteMaster(p)
    BY <1>2, <2>3, Moved DEF DeleteMaster, Synced
  <2>4. CASE SyncDirectory(p)
    BY <1>2, <2>4, Moved DEF SyncDirectory
  <2>5. CASE DeleteOrphan(p)
    BY <1>2, <2>5, Moved DEF DeleteOrphan
  <2>6. QED
    BY <2>2, <2>3, <2>4, <2>5
<1>9. Place(p)'
  BY <1>2, <1>3, <1>8 DEF Place, own, Preparing, Recovering, Restoring, InFile, After, Stays, journals
<1>10. Owns(p)'
  BY <1>2, <1>3, <1>8 DEF Owns, own, journals, Restoring, After
<1>11. Knows(p)'
  BY <1>2, <1>3, <1>8 DEF Knows, own, Preparing, InFile, After
<1>12. QED
  BY <1>1, <1>5, <1>6, <1>7, <1>9, <1>10, <1>11, BaseOf

LEMMA SyncJournalBase ==
  ASSUME Base, NEW p \in Proc, SyncJournal(p)
  PROVE  Base'
<1>1. Types'
  BY CommitTypes
<1>2. Types /\ Place(p) /\ Owns(p) /\ Knows(p) /\ Current /\ Locks /\ Named
  BY DEF Base
<1>3. /\ UNCHANGED <<level, files, journal, masters, own, zMaster, cur, todo, rolling, history>>
      /\ pc[p] = "journal" /\ pc'[p] = "lock" /\ \A q \in Proc \ {p} : pc'[q] = pc[q]
  BY <1>2, Moved DEF SyncJournal
<1>4. \A f \in File : jDisk'[f] \subseteq jDisk[f] /\ journal[f] \in jDisk'[f]
  BY <1>2 DEF SyncJournal, Has, Current, Types, FileTypes
<1>5. Leaves(p)
  <2>1. \A q \in Proc \ {p} : Mine(q)' = Mine(q)
    BY <1>3 DEF Mine, own
  <2>2. drawn' = drawn /\ master' = master /\ mDisk' = mDisk /\ drawn \subseteq Master
    BY <1>2, <1>3 DEF masters, Types, MasterTypes
  <2>3. QED
    BY <1>2, <1>3, <1>4, <2>1, <2>2 DEF Leaves, Named
<1>6. Locks' /\ Current'
  BY <1>2, <1>3, <1>4 DEF Locks, Current, files, masters
<1>7. Place(p)'
  BY <1>2, <1>3 DEF Place, own, Preparing, Recovering, Restoring, InFile
<1>8. Owns(p)'
  BY <1>2, <1>3 DEF Owns, own, Restoring
<1>9. Knows(p)'
  BY <1>2, <1>3 DEF Knows, own, masters, Preparing, InFile
<1>10. QED
  BY <1>1, <1>5, <1>6, <1>7, <1>8, <1>9, BaseOf

\* A file is written.
LEMMA WriteBase ==
  ASSUME Base, NEW p \in Proc, Exclusive(p) \/ CommitBusy(p) \/ WriteSome(p) \/ WriteAll(p)
  PROVE  Base'
<1>1. Types'
  BY CommitTypes
<1>2. Types /\ Place(p) /\ Owns(p) /\ Knows(p) /\ Current /\ Locks /\ Named
  BY DEF Base
<1>3. /\ UNCHANGED <<journals, masters, txn, trans, zMaster, cur, todo, rolling, history>>
      /\ pc[p] \in InFile /\ \A q \in Proc \ {p} : pc'[q] = pc[q]
  BY <1>2, Moved DEF Exclusive, CommitBusy, WriteSome, WriteAll, own, InFile
<1>4. cur[p] \in File /\ cur[p] \in trans[p] \ synced[p]
  BY <1>2, <1>3 DEF Place, Types, OwnTypes
<1>5. \/ /\ pc[p] = "lock" /\ pc'[p] = "write" /\ level'[p][cur[p]] = "exclusive"
         /\ (\A q \in Proc \ {p} : level'[q] = level[q])
         /\ (\A f \in File \ {cur[p]} : level'[p][f] = level[p][f])
         /\ Others(p, cur[p]) \subseteq {"none"} /\ synced' = synced
      \/ pc[p] = "lock" /\ pc'[p] = "busy" /\ level' = level /\ synced' = synced
      \/ pc[p] = "write" /\ pc'[p] = "rest" /\ level' = level /\ synced' = synced
      \/ /\ pc[p] = "rest" /\ pc'[p] = "sync" /\ level' = level
         /\ synced'[p] = synced[p] \cup {cur[p]} /\ (\A q \in Proc \ {p} : synced'[q] = synced[q])
  <2>1. CASE Exclusive(p)
    BY <1>2, <1>4, <2>1, Moved DEF Exclusive, own
  <2>2. CASE CommitBusy(p) \/ WriteSome(p)
    BY <1>2, <2>2, Moved DEF CommitBusy, WriteSome, own
  <2>3. CASE WriteAll(p)
    BY <1>2, <2>3, Moved DEF WriteAll, Types, OwnTypes
  <2>4. QED
    BY <2>1, <2>2, <2>3
<1>6. \A f \in File : db'[f] \in disk'[f]
  <2>1. CASE Exclusive(p) \/ CommitBusy(p)
    BY <1>2, <2>1 DEF Exclusive, CommitBusy, files, Current
  <2>2. CASE WriteSome(p)
    <3>1. \A f \in File \ {cur[p]} : db'[f] = db[f] /\ disk'[f] = disk[f]
      BY <1>2, <1>4, <2>2 DEF WriteSome, Types, FileTypes
    <3>2. db'[cur[p]] = db[cur[p]] \cup {Half} /\ db[cur[p]] \cup {Half} \in disk'[cur[p]]
      BY <1>2, <1>4, <2>2 DEF WriteSome, Types, FileTypes
    <3>3. QED
      BY <1>2, <1>4, <3>1, <3>2 DEF Current
  <2>3. CASE WriteAll(p)
    BY <1>2, <1>4, <2>3 DEF WriteAll, Has, Types, FileTypes, Current
  <2>4. QED
    BY <2>1, <2>2, <2>3
<1>7. Leaves(p)
  BY <1>3, <1>5, LeavesFiles DEF Mine
<1>8. Locks'
  BY <1>1, <1>4, <1>5, LocksKept
<1>9. Current'
  BY <1>2, <1>3, <1>6 DEF Current, journals, masters
<1>10. Place(p)'
  BY <1>2, <1>3, <1>4, <1>5 DEF Place, Preparing, Recovering, Restoring, InFile
<1>11. Owns(p)'
  <2>1. \A f \in File : f \in trans[p] => level'[p][f] \in {"reserved", "exclusive"} /\ journal'[f] # Absent
    BY <1>2, <1>3, <1>4, <1>5 DEF Owns, journals
  <2>2. \A f \in File : level'[p][f] \in {"reserved", "exclusive"} => f \in trans[p]
    BY <1>2, <1>3, <1>4, <1>5 DEF Owns, InFile, Restoring
  <2>3. \A f \in File : f \in synced'[p] \/ (pc'[p] \in {"write", "rest"} /\ cur[p] = f) =>
                            level'[p][f] = "exclusive"
    BY <1>2, <1>3, <1>4, <1>5 DEF Owns
  <2>4. QED
    BY <1>3, <2>1, <2>2, <2>3 DEF Owns
<1>12. Knows(p)'
  BY <1>2, <1>3, <1>5 DEF Knows, masters, Preparing, InFile
<1>13. QED
  BY <1>1, <1>7, <1>8, <1>9, <1>10, <1>11, <1>12, BaseOf

\* ROLLBACK, playback and what pager_delmaster() reads.
LEMMA PlaybackBase ==
  ASSUME Base, NEW p \in Proc,
         Rollback(p) \/ Playback(p) \/ RestoreSome(p) \/ RestoreAll(p)
         \/ OpenMaster(p) \/ ReadChild(p) \/ \E f \in File : NoChild(p, f) \/ Child(p, f)
  PROVE  Base'
<1>1. Types'
  BY PlaybackTypes
<1>2. Types /\ Place(p) /\ Owns(p) /\ Knows(p) /\ Current /\ Locks
  BY DEF Base
<1>3. /\ UNCHANGED <<level, journals, masters, own, history>>
      /\ \A q \in Proc \ {p} : /\ pc'[q] = pc[q] /\ cur'[q] = cur[q] /\ zMaster'[q] = zMaster[q]
                               /\ todo'[q] = todo[q] /\ (q \in rolling' <=> q \in rolling)
  BY <1>2, Moved DEF Rollback, Playback, RestoreSome, RestoreAll, OpenMaster, ReadChild, NoChild,
                     Child, Stays, Types, StepTypes
<1>4. \A f \in File : db'[f] \in disk'[f]
  <2>1. CASE RestoreSome(p)
    <3> DEFINE part == IF db[cur[p]] = journal[cur[p]].orig THEN {} ELSE {Half}
    <3>1. /\ db' = [db EXCEPT ![cur[p]] = @ \cup part]
          /\ disk' = [disk EXCEPT ![cur[p]] = @ \cup {v \cup part : v \in @}]
      BY <2>1 DEF RestoreSome
    <3> HIDE DEF part
    <3>2. QED
      BY <1>2, <3>1 DEF Types, FileTypes, Current
  <2>2. CASE RestoreAll(p)
    BY <1>2, <2>2 DEF RestoreAll, MayHave, Types, FileTypes, Current
  <2>3. CASE ~RestoreSome(p) /\ ~RestoreAll(p)
    BY <1>2, <2>3 DEF Rollback, Playback, OpenMaster, ReadChild, NoChild, Child, files, Current
  <2>4. QED
    BY <2>1, <2>2, <2>3
<1>5. Leaves(p)
  BY <1>3, LeavesFiles DEF Mine, own
<1>6. Locks' /\ Current'
  BY <1>2, <1>3, <1>4 DEF Locks, Current, journals, masters
<1>7. \/ /\ Rollback(p) /\ pc'[p] = "rollback" /\ rolling' = rolling \cup {p}
         /\ UNCHANGED <<cur, zMaster, todo>>
      \/ /\ pc[p] \in Restoring /\ pc'[p] \in {"restore", "restored", "unlink"}
         /\ UNCHANGED <<cur, todo, rolling>> /\ zMaster'[p] \in {zMaster[p], journal[cur[p]].master, NoMaster}
      \/ /\ pc[p] \in {"delmaster", "children", "child"} /\ pc'[p] = After(p) /\ Stays(p)
         /\ UNCHANGED <<cur, zMaster>>
      \/ /\ OpenMaster(p) /\ pc'[p] = "children" /\ Exists(zMaster[p]) /\ UNCHANGED <<cur, zMaster, rolling>>
      \/ /\ pc[p] = "child" /\ pc'[p] = "children" /\ UNCHANGED <<cur, zMaster, rolling>>
      \/ /\ pc[p] = "children" /\ pc'[p] = "children" /\ UNCHANGED <<cur, zMaster, rolling>>
      \/ \E f \in File : /\ pc[p] = "children" /\ pc'[p] = "child" /\ cur'[p] = f /\ f \in todo[p]
                         /\ UNCHANGED <<zMaster, todo, rolling>>
  <2>1. CASE Rollback(p)
    BY <1>2, <2>1, Moved DEF Rollback
  <2>2. CASE Playback(p)
    BY <1>2, <2>2, Moved DEF Playback, Types, StepTypes, Restoring
  <2>3. CASE RestoreSome(p) \/ RestoreAll(p)
    BY <1>2, <2>3, Moved DEF RestoreSome, RestoreAll, Restoring
  <2>4. CASE OpenMaster(p)
    BY <1>2, <2>4, Moved DEF OpenMaster
  <2>5. CASE ReadChild(p)
    BY <1>2, <2>5, Moved DEF ReadChild
  <2>6. CASE \E f \in File : NoChild(p, f)
    BY <1>2, <2>6 DEF NoChild
  <2>7. CASE \E f \in File : Child(p, f)
    <3>1. PICK f \in File : Child(p, f)
      BY <2>7
    <3>2. QED
      BY <1>2, <3>1, Moved DEF Child
  <2>8. QED
    BY <2>1, <2>2, <2>3, <2>4, <2>5, <2>6, <2>7
<1>8. Place(p)'
  <2>1. \A q \in Proc : trans'[q] = trans[q] /\ txn'[q] = txn[q] /\ synced'[q] = synced[q] /\ level'[q] = level[q]
    BY <1>3 DEF own
  <2>2. CASE Rollback(p)
    <3>1. pc'[p] = "rollback" /\ p \in rolling'
      BY <1>2, <2>2, Moved DEF Rollback
    <3>2. QED
      BY <1>2, <2>1, <2>2, <3>1 DEF Place, Rollback, Preparing, Recovering, Restoring, InFile
  <2>3. CASE pc[p] \in Restoring
    <3>1. pc'[p] \in {"restore", "restored", "unlink"} /\ UNCHANGED <<cur, todo, rolling>>
      BY <1>7, <2>3 DEF Restoring, Rollback, OpenMaster
    <3>2. QED
      BY <1>2, <1>3, <2>1, <2>3, <3>1 DEF Place, Preparing, Recovering, Restoring, InFile, journals
  <2>4. CASE pc[p] \in {"delmaster", "children", "child"} /\ pc'[p] = After(p) /\ Stays(p)
    BY <1>2, <2>1, <2>4 DEF Place, After, Stays, Preparing, Recovering, Restoring, InFile
  <2>5. CASE pc[p] \in {"delmaster", "children", "child"} /\ pc'[p] \in {"children", "child"}
    <3>1. zMaster'[p] = zMaster[p] /\ (p \in rolling' <=> p \in rolling) /\ zMaster[p] # NoMaster
      BY <1>2, <1>7, <2>5 DEF Restoring, Rollback, After, Place, Exists
    <3>2. pc'[p] = "child" => cur'[p] \in todo'[p]
      BY <1>7, <2>5 DEF Restoring, Rollback, After
    <3>3. QED
      BY <1>2, <2>1, <2>5, <3>1, <3>2 DEF Place, Preparing, Recovering, Restoring, InFile
  <2>6. QED
    BY <1>7, <2>2, <2>3, <2>4, <2>5 DEF OpenMaster
<1>9. Owns(p)'
  <2>1. pc'[p] \in Restoring => pc[p] \in Restoring /\ cur'[p] = cur[p]
    BY <1>7 DEF Restoring, After
  <2>2. pc[p] \in Restoring => pc'[p] \in Restoring
    BY <1>7 DEF Restoring, Rollback, OpenMaster
  <2>3. pc'[p] \notin {"write", "rest"}
    BY <1>7 DEF Restoring, After
  <2>4. pc'[p] \in Restoring \/ pc[p] \notin Restoring
    BY <2>2
  <2>5. QED
    BY <1>2, <1>3, <2>1, <2>3, <2>4 DEF Owns, own, journals
<1>10. Knows(p)'
  <2>1. pc'[p] \notin Preparing
    BY <1>7 DEF Preparing, InFile, After
  <2>2. zMaster'[p] \in drawn \cup {NoMaster}
    <3>1. pc[p] \in Restoring => journal[cur[p]].master \in drawn \cup {NoMaster}
      BY <1>2 DEF Place, Current, Base, Named
    <3>2. QED
      BY <1>2, <1>7, <3>1 DEF Knows
  <2>3. QED
    BY <1>3, <2>1, <2>2 DEF Knows, masters
<1>11. QED
  BY <1>1, <1>5, <1>6, <1>8, <1>9, <1>10, BaseOf

LEMMA UnlinkBase ==
  ASSUME Base, NEW p \in Proc, Unlink(p)
  PROVE  Base'
<1>1. Types'
  BY PlaybackTypes
<1>2. Types /\ Place(p) /\ Owns(p) /\ Knows(p)
  BY DEF Base
<1>3. /\ pc[p] = "unlink" /\ pc'[p] = "delmaster" /\ \A q \in Proc \ {p} : pc'[q] = pc[q]
      /\ DeleteJournal(p, cur[p]) /\ UNCHANGED <<db, disk, masters, zMaster, cur, todo, rolling, history>>
  BY <1>2, Moved DEF Unlink
<1>4. cur[p] \in File /\ level[p][cur[p]] = "exclusive"
  BY <1>2, <1>3 DEF Place, Restoring
<1>5. Gone(p, cur[p])
  BY <1>3, <1>4, JournalGone
<1>6. Place(p)'
  BY <1>2, <1>3, <1>4, <1>5 DEF Gone, Place, Preparing, Recovering, Restoring, InFile
<1>7. Owns(p)'
  <2>1. \A g \in File : level'[p][g] \in {"reserved", "exclusive"} => g \in trans'[p]
    BY <1>2, <1>3, <1>4, <1>5 DEF Gone, Owns
  <2>2. QED
    BY <1>1, <1>3, <1>4, <2>1, JournalGoneBase DEF Owns
<1>8. QED
  BY <1>1, <1>3, <1>4, <1>6, <1>7, JournalGoneBase, BaseOf DEF Preparing, InFile

\* Failures.
LEMMA DeadBase ==
  ASSUME Base, Types', NEW ps \in SUBSET Proc, Dead(ps),
         \A q \in Proc \ ps, f \in File : journal'[f] = journal[f],
         \A m \in Master : mDisk'[m] \subseteq mDisk[m] /\ master'[m] \in mDisk[m],
         \A q \in Proc \ ps, m \in Master : master'[m] = master[m],
         \A f \in File : jDisk'[f] \subseteq jDisk[f],
         \A m \in Master \ drawn : mDisk'[m] = {Absent},
         drawn' = drawn, Current'
  PROVE  Base'
<1>1. Types /\ Locks /\ Named /\ Current
  BY DEF Base
<1>2. Locks'
  <2>1. \A q \in Proc : \A f \in File : level'[q][f] \in {"none", level[q][f]}
    BY DEF Dead
  <2>2. QED
    BY <1>1, <2>1 DEF Locks
<1>3. Named'
  <2>1. ASSUME NEW f \in File, NEW j \in jDisk'[f] \ {Absent}
        PROVE  /\ j.master \in drawn \cup {NoMaster}
               /\ j.master # NoMaster => \A d \in mDisk'[j.master] : d = Absent \/ f \in d
    <3>1. j \in jDisk[f] \ {Absent}
      BY <2>1
    <3>2. /\ j.master \in drawn \cup {NoMaster}
          /\ j.master # NoMaster => \A d \in mDisk[j.master] : d = Absent \/ f \in d
      BY <1>1, <3>1 DEF Named
    <3>3. drawn \subseteq Master
      BY <1>1 DEF Types, MasterTypes
    <3>4. QED
      BY <3>2, <3>3
  <2>2. QED
    BY <2>1 DEF Named
<1>4. ASSUME NEW q \in ps PROVE Place(q)' /\ Owns(q)' /\ Knows(q)'
  <2>1. /\ pc'[q] = "idle" /\ txn'[q] = 0 /\ trans'[q] = {} /\ synced'[q] = {} /\ q \notin rolling'
        /\ zMaster'[q] = NoMaster /\ \A f \in File : level'[q][f] = "none"
    BY DEF Dead
  <2>2. QED
    BY <2>1, FS_EmptySet DEF Place, Owns, Knows, Preparing, Recovering, Restoring, InFile
<1>5. ASSUME NEW q \in Proc \ ps PROVE Place(q)' /\ Owns(q)' /\ Knows(q)'
  <2>1. /\ pc'[q] = pc[q] /\ txn'[q] = txn[q] /\ trans'[q] = trans[q] /\ synced'[q] = synced[q]
        /\ zMaster'[q] = zMaster[q] /\ level'[q] = level[q] /\ (q \in rolling' <=> q \in rolling)
        /\ cur'[q] = cur[q] /\ todo'[q] = todo[q]
    BY DEF Dead
  <2>2. Place(q) /\ Owns(q) /\ Knows(q)
    BY DEF Base
  <2>3. Place(q)'
    BY <2>1, <2>2 DEF Place
  <2>4. Owns(q)'
    BY <2>1, <2>2 DEF Owns
  <2>5. Knows(q)'
    <3>1. zMaster[q] \in {NoMaster} \cup Master
      BY <1>1 DEF Types, StepTypes
    <3>2. QED
      BY <2>1, <2>2, <3>1 DEF Knows
  <2>6. QED
    BY <2>3, <2>4, <2>5
<1>6. QED
  BY <1>2, <1>3, <1>4, <1>5 DEF Base

LEMMA FailureBase ==
  ASSUME Base, (\E p \in Proc : Crash(p)) \/ (\E f \in File : Settle(f)) \/ PowerFail
  PROVE  Base'
<1>1. Types'
  BY FailureTypes
<1>2. Types /\ Locks /\ Named /\ Current
  BY DEF Base
<1>3. drawn \subseteq Master /\ \A m \in Master \ drawn : mDisk[m] = {Absent} /\ master[m] = Absent
  BY <1>2 DEF Types, MasterTypes, Named, Current
<1>4. CASE \E p \in Proc : Crash(p)
  <2>1. PICK p \in Proc : Dead({p}) /\ UNCHANGED <<files, journals, masters, span, nextTxn>>
    BY <1>4 DEF Crash
  <2>2. Current'
    BY <1>2, <2>1 DEF Current, files, journals, masters
  <2>3. QED
    BY <1>1, <1>2, <1>3, <2>1, <2>2, DeadBase DEF files, journals, masters, Current
<1>5. CASE \E f \in File : Settle(f)
  <2>1. PICK f \in File : Settle(f)
    BY <1>5
  <2>2. /\ UNCHANGED <<level, db, journals, master, drawn, own, zMaster, pc, cur, todo, rolling, history>>
        /\ disk' = [disk EXCEPT ![f] = {db[f]}]
        /\ \A m \in Master : mDisk'[m] = {master[m]}
    BY <2>1 DEF Settle, Has
  <2>3. \A m \in Master : mDisk'[m] \subseteq mDisk[m]
    BY <1>2, <2>2 DEF Current
  <2>4. Current'
    BY <1>2, <2>2 DEF Current, journals, Types, FileTypes
  <2>5. Locks'
    BY <1>2, <2>2 DEF Locks
  <2>6. Named'
    BY <1>2, <1>3, <2>2, <2>3 DEF Named, journals, Types, FileTypes, Journal
  <2>7. ASSUME NEW q \in Proc PROVE Place(q)' /\ Owns(q)' /\ Knows(q)'
    <3>1. Place(q) /\ Owns(q) /\ Knows(q) /\ zMaster[q] \in {NoMaster} \cup Master
      BY <1>2 DEF Base, Types, StepTypes
    <3>2. Place(q)'
      BY <2>2, <3>1 DEF Place, own, journals
    <3>3. Owns(q)'
      BY <2>2, <3>1 DEF Owns, own, journals
    <3>4. Knows(q)'
      BY <2>2, <2>3, <3>1 DEF Knows, own
    <3>5. QED
      BY <3>2, <3>3, <3>4
  <2>8. QED
    BY <1>1, <2>4, <2>5, <2>6, <2>7 DEF Base
<1>6. CASE PowerFail
  <2>1. /\ \A f \in File : db'[f] \in disk[f] /\ disk'[f] = {db'[f]}
        /\ \A f \in File : journal'[f] \in jDisk[f] /\ jDisk'[f] = {journal'[f]}
        /\ \A m \in Master : master'[m] \in mDisk[m] /\ mDisk'[m] = {master'[m]}
        /\ Dead(Proc) /\ drawn' = drawn
    BY <1>6 DEF PowerFail
  <2>2. Current'
    BY <2>1 DEF Current
  <2>3. \A m \in Master \ drawn : mDisk'[m] = {Absent}
    BY <1>3, <2>1
  <2>4. QED
    BY <1>1, <2>1, <2>2, <2>3, DeadBase
<1>7. QED
  BY <1>4, <1>5, <1>6

LEMMA NextBase == ASSUME Base, [Next]_vars PROVE Base'
<1>1. CASE UNCHANGED vars
  <2>1. /\ UNCHANGED <<level, db, disk, undone, journal, jDisk, master, mDisk, drawn, txn, trans,
                       synced, zMaster, pc, cur, todo, rolling, span, nextTxn, failures>>
    BY <1>1 DEF vars, files, journals, masters, own, history
  <2>2. Types' /\ Current' /\ Locks' /\ Named'
    BY <2>1 DEF Base, Types, FileTypes, MasterTypes, OwnTypes, StepTypes, HistoryTypes, Current, Locks, Named
  <2>3. \A p \in Proc : Place(p)' /\ Owns(p)' /\ Knows(p)'
    BY <2>1 DEF Base, Place, Owns, Knows
  <2>4. QED
    BY <2>2, <2>3 DEF Base
<1>2. ASSUME NEW p \in Proc, NEW f \in File,
             Read(p, f) \/ Done(p, f) \/ Begin(p, f) \/ NameMaster(p, f) \/ CommitFile(p, f)
             \/ ForgetFile(p, f) \/ RollbackFile(p, f) \/ Recover(p, f)
             \/ NoChild(p, f) \/ Child(p, f)
      PROVE  Base'
  BY <1>2, ReadBase, BeginBase, NameMasterBase, CommitFileBase, ToPlaybackBase, PlaybackBase
<1>3. ASSUME NEW p \in Proc,
             CommitOne(p) \/ CreateMaster(p) \/ SyncMaster(p) \/ SyncJournal(p)
             \/ Exclusive(p) \/ CommitBusy(p) \/ WriteSome(p) \/ WriteAll(p)
             \/ DeleteMaster(p) \/ SyncDirectory(p)
             \/ Rollback(p) \/ Playback(p) \/ RestoreSome(p) \/ RestoreAll(p) \/ Unlink(p)
             \/ OpenMaster(p) \/ ReadChild(p) \/ DeleteOrphan(p)
      PROVE  Base'
  BY <1>3, CommitOneBase, MasterBase, SyncJournalBase, WriteBase, PlaybackBase, UnlinkBase
<1>4. CASE (\E p \in Proc : Crash(p)) \/ (\E f \in File : Settle(f)) \/ PowerFail
  BY <1>4, FailureBase
<1>5. QED
  BY <1>1, <1>2, <1>3, <1>4 DEF Next

LEMMA BaseHolds == Spec => []Base
  BY InitBase, NextBase, PTL DEF Spec

-----------------------------------------------------------------------------
(* What the files contain.                                                 *)

LEMMA StoreIs ==
  /\ \A f \in File : Store[f] =
        IF journal[f] # Absent /\ Playable(journal[f]) THEN journal[f].orig ELSE db[f]
  /\ \A f \in File : Store'[f] =
        IF journal'[f] # Absent /\ Playable(journal[f])' THEN journal'[f].orig ELSE db'[f]
  BY DEF Store

LEMMA JournalTypes ==
  ASSUME Base, NEW f \in File
  PROVE  /\ journal[f] # Absent =>
              /\ journal[f] \in Journal /\ journal[f] \in jDisk[f] \ {Absent}
              /\ journal[f].orig \in Content /\ journal[f].master \in Master \cup {NoMaster}
              /\ journal[f].master \in drawn \cup {NoMaster}
         /\ \A j \in jDisk[f] \ {Absent} : j \in Journal /\ j.master \in drawn \cup {NoMaster}
         /\ drawn \subseteq Master /\ \A m \in Master : master[m] \in mDisk[m]
         /\ db[f] \in Content /\ db[f] \in disk[f]
<1>1. Types /\ Current /\ Named
  BY DEF Base
<1>2. journal[f] \in {Absent} \cup Journal /\ journal[f] \in jDisk[f] /\ jDisk[f] \subseteq {Absent} \cup Journal
  BY <1>1 DEF Types, FileTypes, Current
<1>3. \A j \in jDisk[f] \ {Absent} : j.master \in drawn \cup {NoMaster}
  BY <1>1 DEF Named
<1>4. \A j \in Journal : j.orig \in Content /\ j.master \in Master \cup {NoMaster}
  BY DEF Journal
<1>5. drawn \subseteq Master /\ db[f] \in Content /\ db[f] \in disk[f] /\ \A m \in Master : master[m] \in mDisk[m]
  BY <1>1 DEF Types, MasterTypes, FileTypes, Current
<1>6. QED
  BY <1>2, <1>3, <1>4, <1>5

\* Who owns a file owns it alone.
LEMMA OneOwner ==
  ASSUME Base, NEW p \in Proc, NEW q \in Proc \ {p}, NEW f \in File
  PROVE  /\ level[p][f] \in {"reserved", "exclusive"} =>
              /\ level[q][f] \notin {"reserved", "exclusive"}
              /\ f \notin trans[q] /\ f \notin synced[q] /\ ~(pc[q] \in Restoring /\ cur[q] = f)
              /\ ~(pc[q] \in InFile /\ cur[q] = f)
         /\ level[p][f] = "exclusive" => level[q][f] = "none"
<1>1. Locks /\ Owns(q) /\ Place(q)
  BY DEF Base
<1>2. QED
  BY <1>1 DEF Locks, Owns, Place

\* A journal that is to take back the last commit is not played back before
\* a power failure.
LEMMA LoneIs ==
  ASSUME IInv, NEW f \in File, NEW t, NEW m, Lone(f, t, m)
  PROVE  /\ journal[f] # Absent /\ jDisk[f] = {journal[f]} /\ journal[f].master = m
         /\ journal[f].orig # Store[f] /\ ~Playable(journal[f]) /\ db[f] = Store[f]
         /\ m \in drawn /\ m \in Master /\ master[m] = Absent /\ ~Quiet(f)
<1>1. PICK j \in Journal : jDisk[f] = {j} /\ j.master = m /\ TakesBack(f, j, t)
  BY DEF Lone
<1>2. j = journal[f] /\ j # Absent
  BY <1>1 DEF IInv, Base, Current
<1>3. journal[f].orig # Store[f]
  BY <1>1, <1>2 DEF TakesBack
<1>4. ~Playable(journal[f]) /\ db[f] = Store[f]
  BY <1>2, <1>3, StoreIs
<1>5. m \in drawn /\ m \in Master /\ master[m] = Absent
  BY <1>1, <1>2, <1>4, JournalTypes DEF IInv, Playable, Exists
<1>6. QED
  BY <1>1, <1>2, <1>3, <1>4, <1>5 DEF Quiet

-----------------------------------------------------------------------------
(* A step of a process that leaves what the files contain, or commits.     *)

FileStays(f) ==
    /\ db'[f] = db[f] /\ disk'[f] = disk[f] /\ journal'[f] = journal[f] /\ jDisk'[f] = jDisk[f]
    /\ f \in undone' <=> f \in undone

Plays(f) == journal[f] # Absent => (Playable(journal[f])' <=> Playable(journal[f]))

Touches(p, f) ==
    level[p][f] \in {"reserved", "exclusive"} \/ level'[p][f] \in {"reserved", "exclusive"}

\* For the other processes: only files of p change, a file contains the
\* transaction of p besides, and p has a master journal of its own.
Apart(p) ==
    /\ \A q \in Proc \ {p} : Mine(q)' = Mine(q)
    /\ \A f \in File : \/ FileStays(f) /\ Store'[f] = Store[f] /\ Plays(f)
                       \/ Touches(p, f)
    /\ \A f \in File : Store'[f] = Store[f] \/ (txn[p] # 0 /\ Store'[f] = Store[f] \cup {txn[p]})
    /\ \A t \in Txn : t < nextTxn => span'[t] = span[t]
    /\ \A m \in drawn : master'[m] \in {Absent, master[m]} /\ mDisk'[m] \subseteq mDisk[m] \cup {master'[m]}
    /\ \A q \in Proc \ {p} : LET m == zMaster[q] IN
           m # NoMaster =>
               /\ pc[q] \in Preparing => master'[m] = master[m] /\ zMaster'[p] # m
               /\ \A f \in File :
                      journal'[f] \in {Absent, journal[f]} \/ journal'[f].master # m

LEMMA OthersWork ==
  ASSUME IInv, Base', NEW p \in Proc, Apart(p), NEW q \in Proc \ {p}
  PROVE  Works(q)'
<1>1. /\ pc'[q] = pc[q] /\ cur'[q] = cur[q] /\ txn'[q] = txn[q] /\ trans'[q] = trans[q]
      /\ synced'[q] = synced[q] /\ zMaster'[q] = zMaster[q] /\ todo'[q] = todo[q]
      /\ level'[q] = level[q] /\ (q \in rolling' <=> q \in rolling)
  BY DEF Apart, Mine
<1>2. Base /\ Types /\ Place(q) /\ Owns(q) /\ Knows(q) /\ Works(q) /\ Txns
  BY DEF IInv, Base
<1>3. ASSUME NEW f \in File, f \in trans[q] \/ (pc[q] \in Restoring /\ cur[q] = f)
      PROVE  FileStays(f) /\ Store'[f] = Store[f] /\ Plays(f)
  <2>1. level[q][f] \in {"reserved", "exclusive"}
    BY <1>2, <1>3 DEF Owns, Place
  <2>2. ~Touches(p, f)
    <3>1. level[p][f] \notin {"reserved", "exclusive"}
      BY <1>2, <2>1, OneOwner
    <3>2. level'[p][f] \notin {"reserved", "exclusive"}
      BY <1>1, <2>1 DEF Base, Locks
    <3>3. QED
      BY <3>1, <3>2 DEF Touches
  <2>3. QED
    BY <2>2 DEF Apart
<1>4. trans[q] \subseteq File /\ synced[q] \subseteq trans[q] /\ zMaster[q] \in drawn \cup {NoMaster}
  BY <1>2 DEF Types, OwnTypes, Place, Knows
<1>5. txn[q] # 0 => txn[q] \in Txn /\ txn[q] < nextTxn /\ txn[q] # txn[p]
  BY <1>2 DEF Types, OwnTypes, Txns
<1>6. \A m \in drawn : /\ master'[m] \in {Absent, master[m]}
                       /\ mDisk'[m] \subseteq mDisk[m] \cup {master'[m]} /\ master'[m] \in mDisk'[m]
  BY <1>2, JournalTypes DEF Apart, Base, Current, Types, MasterTypes
<1>7. Prepares(q)'
  <2>1. pc[q] \in Preparing \cup {"busy"} => txn[q] # 0
    BY <1>2 DEF Place
  <2>2. pc[q] \in Preparing \cup {"busy"} => span'[txn[q]] = span[txn[q]]
    BY <1>5, <2>1 DEF Apart
  <2>3. pc[q] \in Preparing => \A f \in File : txn[q] \notin Store'[f]
    BY <1>2, <1>5, <2>1 DEF Apart, Works, Prepares
  <2>4. ASSUME pc[q] \in Preparing, NEW f \in trans[q] PROVE Prepared(q, f)'
    <3>1. Prepared(q, f) /\ FileStays(f) /\ Store'[f] = Store[f]
      BY <1>2, <1>3, <1>4, <2>4 DEF Works, Prepares
    <3>2. QED
      BY <1>1, <3>1 DEF Prepared, FileStays
  <2>5. Prepares(q)
    BY <1>2 DEF Works
  <2>6. QED
    BY <1>1, <2>2, <2>3, <2>4, <2>5 DEF Prepares
<1>8. HasMaster(q)'
  <2>1. HasMaster(q)
    BY <1>2 DEF Works
  <2>2. ASSUME pc[q] \in Preparing, zMaster[q] # NoMaster
        PROVE  /\ master'[zMaster[q]] # Absent
               /\ pc[q] # "master" => Absent \notin mDisk'[zMaster[q]]
               /\ zMaster'[p] # zMaster[q]
               /\ \A r \in Proc \ {q} : zMaster'[r] # zMaster[q]
               /\ \A f \in File : journal'[f] # Absent /\ journal'[f].master = zMaster[q] => f \in trans[q]
    <3>1. /\ master'[zMaster[q]] = master[zMaster[q]] /\ zMaster'[p] # zMaster[q]
          /\ \A f \in File : journal'[f] \in {Absent, journal[f]} \/ journal'[f].master # zMaster[q]
      BY <2>2 DEF Apart
    <3>2. \A r \in Proc \ {p} : zMaster'[r] = zMaster[r]
      BY DEF Apart, Mine
    <3>3. QED
      BY <1>4, <1>6, <2>1, <2>2, <3>1, <3>2 DEF HasMaster
  <2>3. QED
    BY <1>1, <2>1, <2>2 DEF HasMaster
<1>9. Finishes(q)'
  <2>1. Finishes(q)
    BY <1>2 DEF Works
  <2>2. \A f \in File : Store[f] \subseteq Store'[f]
    BY DEF Apart
  <2>3. \A f \in trans[q] : journal'[f] = journal[f]
    BY <1>3, <1>4 DEF FileStays
  <2>4. QED
    BY <1>1, <1>4, <1>6, <2>1, <2>2, <2>3 DEF Finishes
<1>10. Writes(q)'
  <2>1. \A f \in trans[q] : journal'[f] = journal[f] /\ disk'[f] = disk[f] /\ db'[f] = db[f]
    BY <1>3, <1>4 DEF FileStays
  <2>2. Writes(q)
    BY <1>2 DEF Works
  <2>3. QED
    BY <1>1, <1>4, <2>1, <2>2 DEF Writes
<1>11. Restores(q)'
  <2>1. Restores(q)
    BY <1>2 DEF Works
  <2>2. pc[q] \in Restoring => /\ cur[q] \in File /\ journal[cur[q]] # Absent
                              /\ FileStays(cur[q]) /\ Store'[cur[q]] = Store[cur[q]] /\ Plays(cur[q])
    BY <1>2, <1>3 DEF Place
  <2>3. pc[q] \in {"restore", "restored"} => Playable(journal[cur[q]])'
    BY <2>1, <2>2 DEF Restores, FileStays, Restoring, Plays
  <2>4. pc[q] = "unlink" => db'[cur[q]] = Store'[cur[q]]
    BY <2>1, <2>2 DEF Restores, FileStays, Restoring
  <2>5. ASSUME pc[q] \in {"children", "child"}, master'[zMaster[q]] # Absent,
               NEW f \in master'[zMaster[q]] \ todo[q]
        PROVE  journal'[f] = Absent \/ journal'[f].master # zMaster[q]
    <3>1. zMaster[q] # NoMaster /\ zMaster[q] \in drawn /\ zMaster[q] \in Master
      BY <1>2, <1>4, <2>5 DEF Place, Types, MasterTypes
    <3>2. master'[zMaster[q]] = master[zMaster[q]] /\ master[zMaster[q]] # Absent
      BY <1>6, <2>5, <3>1
    <3>3. f \in File
      BY <1>2, <2>5, <3>1, <3>2 DEF Types, MasterTypes
    <3>4. journal[f] = Absent \/ journal[f].master # zMaster[q]
      BY <2>1, <2>5, <3>2 DEF Restores
    <3>5. journal'[f] \in {Absent, journal[f]} \/ journal'[f].master # zMaster[q]
      BY <3>1, <3>3 DEF Apart
    <3>6. QED
      BY <3>4, <3>5
  <2>6. QED
    BY <1>1, <2>3, <2>4, <2>5 DEF Restores
<1>12. QED
  BY <1>7, <1>8, <1>9, <1>10, <1>11 DEF Works

\* A step that leaves what the files contain: what it may do to a file, ...
Changes(p, f) ==
    /\ f \in undone => f \in undone'
    /\ \A t \in Txn, m \in Master :
           Lone(f, t, m) => f \in undone' \/ Lone(f, t, m)' \/ mDisk'[m] = {Absent}
    /\ Guarded(f)'
    /\ \A j \in jDisk'[f] \ {Absent} : j \in jDisk[f] \/ j.orig = Store[f]
    /\ Quiet(f)' \/ (level[p][f] = "exclusive" /\ level'[p][f] \in {"exclusive", "none"})

\* ... and to the lock and the master journal of one that it leaves.
Keeps(p) ==
    /\ Apart(p)
    /\ \A f \in File : Store'[f] = Store[f]
    /\ \A f \in File :
           \/ FileStays(f) /\ (level'[p][f] \in {level[p][f], "none", "exclusive"} \/ Quiet(f)')
           \/ Changes(p, f)
    /\ \A f \in File : LET m == journal[f].master IN
           journal[f] # Absent /\ m # NoMaster => master'[m] = master[m]

LEMMA ReadsKept ==
  ASSUME IInv, Base', NEW p \in Proc, Keeps(p)
  PROVE  Reads'
<1> SUFFICES ASSUME NEW f \in File, NEW q \in Proc, level'[q][f] \in {"shared", "reserved"}
             PROVE  Quiet(f)'
  BY DEF Reads
<1>1. \A r \in Proc \ {p} : level'[r] = level[r]
  BY DEF Keeps, Apart, Mine
<1>2. \A r \in Proc : level[r][f] \in {"shared", "reserved"} => Quiet(f)
  BY DEF IInv, Reads
<1>3. Store'[f] = Store[f]
  BY DEF Keeps
<1>4. CASE FileStays(f) /\ (level'[p][f] \in {level[p][f], "none", "exclusive"} \/ Quiet(f)')
  <2>1. Quiet(f)' \/ Quiet(f)
    BY <1>1, <1>2, <1>4
  <2>2. QED
    BY <1>3, <1>4, <2>1 DEF Quiet, FileStays
<1>5. CASE level[p][f] = "exclusive" /\ level'[p][f] \in {"exclusive", "none"}
  BY <1>1, <1>5, OneOwner DEF IInv
<1>6. QED
  BY <1>4, <1>5 DEF Keeps, Changes

LEMMA ContentsKept ==
  ASSUME IInv, Base', NEW p \in Proc, Keeps(p)
  PROVE  Contents'
<1> SUFFICES ASSUME NEW f \in File
             PROVE  Guarded(f)' /\ \A j \in jDisk'[f] \ {Absent} : Loses(f, j)'
  BY DEF Contents
<1>1. Base /\ Guarded(f) /\ \A j \in jDisk[f] \ {Absent} : Loses(f, j)
  BY DEF IInv, Contents
<1>2. \A g \in File : Store'[g] = Store[g]
  BY DEF Keeps
<1>3. \A m \in drawn : /\ m \in Master /\ master[m] \in mDisk[m] /\ master'[m] \in mDisk'[m]
                       /\ mDisk'[m] \subseteq mDisk[m] \cup {master'[m]}
                       /\ master[m] = Absent => master'[m] = Absent
                       /\ mDisk[m] = {Absent} => mDisk'[m] = {Absent}
  BY <1>1, JournalTypes DEF Keeps, Apart, Base, Current
<1>4. Guarded(f)'
  <2>1. CASE FileStays(f)
    <3>1. Certainly(journal[f]) => Certainly(journal[f])'
      <4> SUFFICES ASSUME journal[f] # Absent, journal[f].master # NoMaster,
                          Absent \notin mDisk[journal[f].master]
                   PROVE  Absent \notin mDisk'[journal[f].master]
        BY <2>1 DEF Certainly, FileStays
      <4>1. journal[f].master \in drawn /\ master'[journal[f].master] = master[journal[f].master]
        BY <1>1, JournalTypes DEF Keeps
      <4>2. QED
        BY <1>3, <4>1
    <3>2. QED
      BY <1>1, <1>2, <2>1, <3>1 DEF Guarded, FileStays
  <2>2. QED
    BY <2>1 DEF Keeps, Changes
<1>5. ASSUME NEW j \in jDisk[f] \ {Absent} PROVE Loses(f, j)'
  <2>1. Loses(f, j) /\ j.master \in drawn \cup {NoMaster}
    BY <1>1, JournalTypes
  <2>2. CASE j.orig = Store[f]
    BY <1>2, <2>2 DEF Loses
  <2>3. CASE j.orig # Store[f]
    <3>1. PICK t \in Txn :
              /\ TakesBack(f, j, t)
              /\ IF j.master = NoMaster THEN span[t] = {f}
                 ELSE /\ master[j.master] = Absent
                      /\ mDisk[j.master] # {Absent} =>
                             \A g \in span[t] : g \in undone \/ Lone(g, t, j.master)
      BY <2>1, <2>3 DEF Loses
    <3>2. TakesBack(f, j, t)' /\ t \in Store[f]
      BY <1>2, <3>1 DEF TakesBack
    <3>3. span'[t] = span[t] /\ span[t] \subseteq File
      <4>1. t < nextTxn
        BY <3>2 DEF IInv, Txns
      <4>2. QED
        BY <1>1, <4>1 DEF Keeps, Apart, Base, Types, HistoryTypes
    <3>4. ASSUME j.master # NoMaster, mDisk'[j.master] # {Absent}, NEW g \in span'[t]
          PROVE  g \in undone' \/ Lone(g, t, j.master)'
      <4>1. j.master \in drawn /\ j.master \in Master /\ mDisk[j.master] # {Absent}
        BY <1>3, <2>1, <3>4
      <4>2. g \in undone \/ Lone(g, t, j.master)
        BY <3>1, <3>3, <3>4, <4>1
      <4>3. CASE FileStays(g)
        BY <1>2, <3>3, <3>4, <4>2, <4>3 DEF Lone, TakesBack, FileStays
      <4>4. CASE Changes(p, g)
        BY <3>4, <4>1, <4>2, <4>4 DEF Changes
      <4>5. QED
        BY <3>3, <3>4, <4>3, <4>4 DEF Keeps
    <3>5. j.master # NoMaster => master'[j.master] = Absent
      BY <1>3, <2>1, <3>1
    <3>6. QED
      BY <3>1, <3>2, <3>3, <3>4, <3>5 DEF Loses
  <2>4. QED
    BY <2>2, <2>3
<1>6. ASSUME NEW j \in jDisk'[f] \ {Absent}, j \notin jDisk[f] PROVE Loses(f, j)'
  <2>1. j.orig = Store[f]
    BY <1>6 DEF Keeps, FileStays, Changes
  <2>2. QED
    BY <1>2, <2>1 DEF Loses
<1>7. QED
  BY <1>4, <1>5, <1>6

LEMMA TxnsKept ==
  ASSUME IInv, UNCHANGED <<span, nextTxn>>,
         \A q \in Proc : txn'[q] \in {0, txn[q]},
         \A f \in File : \A t \in Store'[f] :
             t \in Store[f] \/ (t \in Txn /\ t < nextTxn /\ f \in span[t])
  PROVE  Txns'
<1>1. Txns /\ nextTxn \in Nat \ {0}
  BY DEF IInv, Base, Types, HistoryTypes
<1>2. \A q, r \in Proc : txn'[q] # 0 /\ txn'[q] = txn'[r] => q = r
  BY <1>1 DEF Txns
<1>3. \A q \in Proc : txn'[q] < nextTxn'
  BY <1>1 DEF Txns
<1>4. \A t \in Txn : t >= nextTxn' => span'[t] = {}
  BY <1>1 DEF Txns
<1>5. \A f \in File : \A t \in Store'[f] : t \in Txn /\ t < nextTxn' /\ f \in span'[t]
  BY <1>1 DEF Txns
<1>6. QED
  BY <1>2, <1>3, <1>4, <1>5 DEF Txns

LEMMA Kept ==
  ASSUME IInv, Base', NEW p \in Proc, Keeps(p), Works(p)',
         UNCHANGED <<span, nextTxn>>, txn'[p] \in {0, txn[p]}
  PROVE  IInv'
<1>1. Txns'
  <2>1. \A q \in Proc \ {p} : txn'[q] = txn[q]
    BY DEF Keeps, Apart, Mine
  <2>2. \A f \in File : Store'[f] = Store[f]
    BY DEF Keeps
  <2>3. QED
    BY <2>1, <2>2, TxnsKept
<1>2. Reads' /\ Contents'
  BY ReadsKept, ContentsKept
<1>3. \A q \in Proc \ {p} : Works(q)'
  BY OthersWork DEF Keeps
<1>4. QED
  BY <1>1, <1>2, <1>3 DEF IInv

-----------------------------------------------------------------------------
(* What AtomicFiles sees of a step.                                        *)

Claim(p) == IF p \in rolling THEN 0 ELSE txn[p]
Maps == AtomicStore!Next \/ UNCHANGED <<Store, span, Active>>

LEMMA ActiveIs ==
  /\ \A t : t \in Active <=> t # 0 /\ (\E p \in Proc : Claim(p) = t) /\ \A f \in File : t \notin Store[f]
  /\ \A t : t \in Active' <=> t # 0 /\ (\E p \in Proc : Claim(p)' = t) /\ \A f \in File : t \notin Store'[f]
  BY DEF Active, Claim

LEMMA StoreSame ==
  ASSUME \A f \in File : Store'[f] = Store[f]
  PROVE  Store' = Store
  BY DEF Store

\* Nothing, ...
LEMMA Stutters ==
  ASSUME Base, NEW p \in Proc, \A f \in File : Store'[f] = Store[f], UNCHANGED span,
         \A q \in Proc \ {p} : Claim(q)' = Claim(q),
         \/ Claim(p)' = Claim(p)
         \/ /\ Claim(p)' = 0
            /\ Claim(p) # 0 => \E f \in File : Claim(p) \in Store[f]
  PROVE  Maps
<1>1. \A t : t \in Active' <=> t \in Active
  BY ActiveIs
<1>2. Active' = Active
  BY <1>1
<1>3. QED
  BY <1>2, StoreSame DEF Maps

\* ... or a transaction given up, which may have been committed already.
LEMMA Abandons ==
  ASSUME IInv, NEW p \in Proc, \A f \in File : Store'[f] = Store[f], UNCHANGED span,
         \A q \in Proc \ {p} : Claim(q)' = Claim(q), Claim(p)' = 0
  PROVE  Maps
<1>1. CASE txn[p] \notin Active \/ p \in rolling
  <2>1. Claim(p) # 0 => \E f \in File : Claim(p) \in Store[f] 
    BY <1>1, ActiveIs DEF Claim
  <2>2. QED
    BY <2>1, Stutters DEF IInv
<1>2. CASE txn[p] \in Active /\ p \notin rolling
  <2>1. txn[p] # 0 /\ txn[p] \in Txn
    BY <1>2, ActiveIs DEF IInv, Base, Types, OwnTypes
  <2>2. \A q \in Proc \ {p} : Claim(q) # txn[p]
    BY <2>1 DEF IInv, Txns, Claim
  <2>3. \A t : t \in Active' <=> t \in Active \ {txn[p]}
    BY <1>2, <2>1, <2>2, ActiveIs DEF Claim
  <2>4. Active' = Active \ {txn[p]}
    BY <2>3
  <2>5. AtomicStore!Abandon(txn[p])
    BY <1>2, <2>4, StoreSame DEF AtomicStore!Abandon
  <2>6. QED
    BY <2>1, <2>5 DEF Maps, AtomicStore!Next
<1>3. QED
  BY <1>1, <1>2

-----------------------------------------------------------------------------
(* Every step keeps IInv and is one of AtomicFiles, or nothing.             *)

\* Steps that leave files and rollback journals alone.
LEMMA KeepsFiles ==
  ASSUME IInv, NEW p \in Proc, UNCHANGED <<files, journals>>,
         \A t \in Txn : t < nextTxn => span'[t] = span[t],
         \A q \in Proc \ {p} : Mine(q)' = Mine(q),
         \/ zMaster'[p] \in {zMaster[p], NoMaster}
         \/ \A q \in Proc \ {p} : pc[q] \in Preparing => zMaster'[p] # zMaster[q],
         \A f \in File : level'[p][f] \in {level[p][f], "none", "exclusive"} \/ Quiet(f),
         \A m \in drawn :
             /\ mDisk'[m] \subseteq mDisk[m] \cup {master'[m]}
             /\ \/ master'[m] = master[m]
                \/ /\ master'[m] = Absent
                   /\ \A f \in File : journal[f] = Absent \/ journal[f].master # m
                   /\ \A q \in Proc \ {p} : pc[q] \in Preparing => zMaster[q] # m
  PROVE  Keeps(p) /\ \A f \in File : FileStays(f) /\ Store'[f] = Store[f] /\ Plays(f)
<1>1. \A f \in File : FileStays(f)
  BY DEF files, journals, FileStays
<1>2. \A f \in File : journal[f] # Absent /\ journal[f].master # NoMaster =>
          journal[f].master \in drawn /\ master'[journal[f].master] = master[journal[f].master]
  BY JournalTypes DEF IInv
<1>3. \A f \in File : Plays(f)
  BY <1>1, <1>2 DEF Plays, Playable, Exists, FileStays
<1>4. \A f \in File : Store'[f] = Store[f]
  BY <1>1, <1>3, StoreIs DEF FileStays, Plays
<1>5. \A q \in Proc \ {p} : LET m == zMaster[q] IN
           m # NoMaster =>
               /\ pc[q] \in Preparing => master'[m] = master[m] /\ zMaster'[p] # m
               /\ \A f \in File :
                      journal'[f] \in {Absent, journal[f]} \/ journal'[f].master # m
  <2> SUFFICES ASSUME NEW q \in Proc \ {p}, zMaster[q] # NoMaster
               PROVE  /\ pc[q] \in Preparing =>
                             master'[zMaster[q]] = master[zMaster[q]] /\ zMaster'[p] # zMaster[q]
                      /\ \A f \in File :
                             journal'[f] \in {Absent, journal[f]} \/ journal'[f].master # zMaster[q]
    OBVIOUS
  <2>1. zMaster[q] \in drawn
    BY DEF IInv, Base, Knows
  <2>2. pc[q] \in Preparing => zMaster[p] # zMaster[q]
    BY DEF IInv, Works, HasMaster
  <2>3. \A f \in File : journal'[f] = journal[f]
    BY <1>1 DEF FileStays
  <2>4. QED
    BY <2>1, <2>2, <2>3
<1>6. \A f \in File : level'[p][f] \in {level[p][f], "none", "exclusive"} \/ Quiet(f)'
  BY <1>1, <1>4 DEF Quiet, FileStays
<1>7. Apart(p)
  BY <1>1, <1>3, <1>4, <1>5 DEF Apart
<1>8. QED
  BY <1>1, <1>2, <1>3, <1>4, <1>6, <1>7 DEF Keeps

LEMMA BaseNext == ASSUME IInv, Next PROVE Base'
  BY NextBase DEF IInv

\* The parts of Works outside a commit.
LEMMA WorksOutside ==
  ASSUME NEW p \in Proc, pc'[p] \notin Preparing \cup {"busy", "directory", "finish"},
         Writes(p)', Restores(p)'
  PROVE  Works(p)'
  BY DEF Works, Prepares, HasMaster, Finishes, Preparing, InFile

LEMMA ReadStep ==
  ASSUME IInv, Base', NEW p \in Proc, NEW f \in File, Read(p, f) \/ Done(p, f)
  PROVE  IInv' /\ Maps
<1>1. /\ UNCHANGED <<files, journals, masters, own, zMaster, pc, cur, todo, rolling, history>>
      /\ pc[p] = "idle" /\ level[p][f] \in {"none", "shared"}
      /\ \A q \in Proc \ {p} : level'[q] = level[q]
      /\ \A g \in File \ {f} : level'[p][g] = level[p][g]
      /\ level'[p][f] # "none" =>
             level[p][f] = "none" /\ ~Hot(f) /\ "exclusive" \notin Others(p, f)
  BY Moved DEF Read, Done, IInv, Base
<1>2. level'[p][f] # "none" => Quiet(f)
  <2> SUFFICES ASSUME level'[p][f] # "none" PROVE Quiet(f)
    OBVIOUS
  <2>1. CASE Owned(f)
    <3>1. PICK q \in Proc : level[q][f] \in {"reserved", "exclusive"}
      BY <2>1 DEF Owned
    <3>2. level[q][f] = "reserved"
      BY <1>1, <3>1 DEF Others
    <3>3. QED
      BY <3>2 DEF IInv, Reads
  <2>2. CASE ~Owned(f)
    <3>1. journal[f] = Absent
      BY <1>1, <2>2 DEF Hot
    <3>2. Store[f] = db[f] /\ Guarded(f)
      BY <3>1, StoreIs DEF IInv, Contents
    <3>3. QED
      BY <3>1, <3>2 DEF Quiet, Guarded, Certainly
  <2>3. QED
    BY <2>1, <2>2
<1>3. Keeps(p) /\ \A g \in File : FileStays(g) /\ Store'[g] = Store[g] /\ Plays(g)
  <2>1. \A g \in File : level'[p][g] \in {level[p][g], "none", "exclusive"} \/ Quiet(g)
    BY <1>1, <1>2
  <2>2. \A q \in Proc \ {p} : Mine(q)' = Mine(q)
    BY <1>1 DEF Mine, own
  <2>3. zMaster' = zMaster /\ span' = span /\ mDisk' = mDisk /\ master' = master
    BY <1>1 DEF masters, history
  <2>4. QED
    BY <1>1, <2>1, <2>2, <2>3, KeepsFiles
<1>4. Works(p)'
  <2>1. Writes(p) /\ Owns(p) /\ Place(p) /\ trans[p] \subseteq File
    BY DEF IInv, Works, Base, Types, OwnTypes
  <2>2. f \notin trans[p]
    BY <1>1, <2>1 DEF Owns
  <2>3. Writes(p)'
    BY <1>1, <2>1, <2>2 DEF Writes, own, files, journals
  <2>4. QED
    BY <1>1, <2>3, WorksOutside DEF Restores, Preparing, InFile
<1>5. IInv'
  BY <1>1, <1>3, <1>4, Kept DEF own, history
<1>6. Maps
  <2>1. \A q \in Proc : Claim(q)' = Claim(q)
    BY <1>1 DEF Claim, own
  <2>2. QED
    BY <1>1, <1>3, <2>1, Stutters DEF IInv, history
<1>7. QED
  BY <1>5, <1>6

\* The start of a rollback or a recovery, and pager_delmaster() as long as it
\* reads.
LEMMA PlaybackStep ==
  ASSUME IInv, Base', NEW p \in Proc,
         Rollback(p) \/ Playback(p) \/ OpenMaster(p) \/ ReadChild(p)
         \/ \E f \in File : RollbackFile(p, f) \/ Recover(p, f) \/ NoChild(p, f) \/ Child(p, f)
  PROVE  IInv' /\ Maps
<1>1. /\ UNCHANGED <<files, journals, masters, own, history>>
      /\ \A q \in Proc \ {p} : /\ pc'[q] = pc[q] /\ cur'[q] = cur[q] /\ zMaster'[q] = zMaster[q]
                               /\ todo'[q] = todo[q] /\ level'[q] = level[q]
                               /\ (q \in rolling' <=> q \in rolling)
      /\ \A f \in File : level'[p][f] \in {level[p][f], "exclusive"}
  BY Moved DEF Rollback, Playback, OpenMaster, ReadChild, RollbackFile, Recover, NoChild, Child,
        IInv, Base, Types, StepTypes, Stays
<1>2. Base /\ Types /\ Place(p) /\ Owns(p) /\ Works(p) /\ trans[p] \subseteq File
  BY DEF IInv, Base, Types, OwnTypes
<1>3. \/ zMaster'[p] \in {zMaster[p], NoMaster}
      \/ \A q \in Proc \ {p} : pc[q] \in Preparing => zMaster'[p] # zMaster[q]
  <2>1. CASE Playback(p) /\ Playable(journal[cur[p]]) /\ journal[cur[p]].master # NoMaster
    <3>1. zMaster'[p] = journal[cur[p]].master /\ pc[p] = "playback"
      BY <1>2, <2>1 DEF Playback, Types, StepTypes
    <3>2. cur[p] \in File /\ level[p][cur[p]] = "exclusive" /\ journal[cur[p]] # Absent
      BY <1>2, <3>1 DEF Place, Restoring
    <3>3. ASSUME NEW q \in Proc \ {p}, pc[q] \in Preparing, zMaster'[p] = zMaster[q]
          PROVE  FALSE
      <4>1. cur[p] \in trans[q]
        BY <2>1, <3>1, <3>2, <3>3 DEF IInv, Works, HasMaster
      <4>2. QED
        BY <1>2, <3>2, <4>1, OneOwner
    <3>4. QED
      BY <3>3
  <2>2. CASE ~(Playback(p) /\ Playable(journal[cur[p]]) /\ journal[cur[p]].master # NoMaster)
    BY <1>2, <2>2 DEF Playback, Rollback, OpenMaster, ReadChild, RollbackFile, Recover, NoChild, Child,
          Types, StepTypes
  <2>3. QED
    BY <2>1, <2>2
<1>4. Keeps(p) /\ \A g \in File : FileStays(g) /\ Store'[g] = Store[g] /\ Plays(g)
  <2>1. \A g \in File : level'[p][g] \in {level[p][g], "none", "exclusive"} \/ Quiet(g)
    BY <1>1
  <2>2. \A q \in Proc \ {p} : Mine(q)' = Mine(q)
    BY <1>1 DEF Mine, own
  <2>3. span' = span /\ mDisk' = mDisk /\ master' = master
    BY <1>1 DEF masters, history
  <2>4. QED
    BY <1>1, <1>3, <2>1, <2>2, <2>3, KeepsFiles
<1>5. pc'[p] \notin Preparing \cup {"busy", "directory", "finish"}
  BY <1>2, Moved DEF Rollback, Playback, OpenMaster, ReadChild, RollbackFile, Recover, NoChild, Child,
        After, Preparing, InFile
<1>6. p \notin rolling' => p \notin rolling \/ (trans[p] = {} /\ txn[p] = 0)
  BY <1>2 DEF Rollback, Playback, OpenMaster, ReadChild, RollbackFile, Recover, NoChild, Child, Stays, Place
<1>7. p \in rolling' => p \in rolling \/ Rollback(p)
  BY DEF Playback, OpenMaster, ReadChild, RollbackFile, Recover, NoChild, Child, Stays
<1>8. Writes(p)'
  <2>1. Writes(p) /\ synced[p] \subseteq trans[p]
    BY <1>2 DEF Works, Place
  <2>2. \A f \in trans[p] : p \notin rolling /\ p \notin rolling' => level'[p][f] = level[p][f]
    <3>1. CASE \E f \in File : Recover(p, f)
      <4>1. PICK f \in File : Recover(p, f)
        BY <3>1
      <4>2. f \notin trans[p]
        BY <1>2, <4>1 DEF Recover, Owns
      <4>3. \A g \in File \ {f} : level'[p][g] = level[p][g]
        BY <1>2, <4>1, Moved DEF Recover
      <4>4. QED
        BY <1>2, <4>2, <4>3
    <3>2. CASE ~\E f \in File : Recover(p, f)
      BY <3>2 DEF Rollback, Playback, OpenMaster, ReadChild, RollbackFile, NoChild, Child
    <3>3. QED
      BY <3>1, <3>2
  <2>3. p \notin rolling /\ p \notin rolling' => pc[p] \notin {"write", "rest"}
    BY DEF Rollback, Playback, OpenMaster, ReadChild, RollbackFile, Recover, NoChild, Child
  <2>4. UNCHANGED <<db, disk, journal, txn, trans, synced>>
    BY <1>1 DEF files, journals, own
  <2>5. QED
    BY <1>6, <2>1, <2>2, <2>3, <2>4 DEF Writes
<1>9. Restores(p)'
  <2>1. Restores(p)
    BY <1>2 DEF Works
  <2>2. UNCHANGED <<db, journal, master>>
    BY <1>1 DEF files, journals, masters
  <2>3. CASE Playback(p)
    <3>1. /\ cur[p] \in File /\ journal[cur[p]] # Absent /\ cur'[p] = cur[p]
          /\ pc'[p] = IF Playable(journal[cur[p]]) THEN "restore" ELSE "unlink"
      BY <1>2, <2>3, Moved DEF Playback, Place, Restoring
    <3>2. CASE Playable(journal[cur[p]])
      BY <1>4, <3>1, <3>2, <2>2 DEF Restores, Plays
    <3>3. CASE ~Playable(journal[cur[p]])
      BY <1>4, <3>1, <3>3, <2>2, StoreIs DEF Restores
    <3>4. QED
      BY <3>2, <3>3
  <2>4. CASE OpenMaster(p)
    <3>1. pc'[p] \in {"children", "rollback", "idle"} /\ zMaster'[p] = zMaster[p]
      BY <1>2, <2>4, Moved DEF OpenMaster, After
    <3>2. pc'[p] = "children" => todo'[p] = master[zMaster[p]]
      BY <1>2, <2>4, Moved DEF OpenMaster, After, Types, StepTypes
    <3>3. QED
      BY <2>2, <3>1, <3>2 DEF Restores
  <2>5. CASE \E f \in File : NoChild(p, f)
    <3>1. PICK f \in File : NoChild(p, f)
      BY <2>5
    <3>2. /\ pc[p] = "children" /\ journal[f] = Absent /\ pc' = pc /\ zMaster' = zMaster
          /\ todo'[p] = todo[p] \ {f}
      BY <1>2, <3>1 DEF NoChild, Types, StepTypes
    <3>3. QED
      BY <2>1, <2>2, <3>2 DEF Restores
  <2>6. CASE \E f \in File : Child(p, f)
    <3>1. pc'[p] = "child" /\ pc[p] = "children" /\ zMaster' = zMaster /\ todo' = todo
      BY <1>2, <2>6, Moved DEF Child
    <3>2. QED
      BY <2>1, <2>2, <3>1 DEF Restores
  <2>7. CASE ReadChild(p)
    <3>1. pc'[p] \in {"children", "rollback", "idle"} /\ zMaster'[p] = zMaster[p] /\ pc[p] = "child"
      BY <1>2, <2>7, Moved DEF ReadChild, After
    <3>2. pc'[p] = "children" => ~Needed(p) /\ todo'[p] = todo[p] \ {cur[p]}
      BY <1>2, <2>7, Moved DEF ReadChild, After, Types, StepTypes
    <3>3. QED
      BY <2>1, <2>2, <3>1, <3>2 DEF Restores, Needed
  <2>8. CASE Rollback(p) \/ \E f \in File : RollbackFile(p, f) \/ Recover(p, f)
    <3>1. pc'[p] \in {"rollback", "playback"}
      BY <1>2, <2>8, Moved DEF Rollback, RollbackFile, Recover
    <3>2. QED
      BY <3>1 DEF Restores
  <2>9. QED
    BY <2>3, <2>4, <2>5, <2>6, <2>7, <2>8
<1>10. IInv'
  BY <1>1, <1>4, <1>5, <1>8, <1>9, WorksOutside, Kept DEF own, history
<1>11. Maps
  <2>1. \A q \in Proc \ {p} : Claim(q)' = Claim(q)
    BY <1>1 DEF Claim, own
  <2>2. CASE Rollback(p)
    <3>1. Claim(p)' = 0
      BY <2>2 DEF Rollback, Claim
    <3>2. QED
      BY <1>1, <1>4, <2>1, <3>1, Abandons DEF history
  <2>3. CASE ~Rollback(p)
    <3>1. Claim(p)' = Claim(p)
      BY <1>1, <1>6, <1>7, <2>3 DEF Claim, own
    <3>2. QED
      BY <1>1, <1>2, <1>4, <2>1, <3>1, Stutters DEF history
  <2>4. QED
    BY <2>2, <2>3
<1>12. QED
  BY <1>10, <1>11

\* The lock before the file is written.
LEMMA ExclusiveStep ==
  ASSUME IInv, Base', NEW p \in Proc, Exclusive(p) \/ CommitBusy(p)
  PROVE  IInv' /\ Maps
<1>1. /\ UNCHANGED <<files, journals, masters, own, zMaster, cur, todo, rolling, history>>
      /\ pc[p] = "lock" /\ \A q \in Proc \ {p} : pc'[q] = pc[q] /\ level'[q] = level[q]
  BY Moved DEF Exclusive, CommitBusy, IInv, Base, Types, OwnTypes, Place, InFile
<1>2. Base /\ Types /\ Place(p) /\ Owns(p) /\ Works(p) /\ trans[p] \subseteq File
  BY DEF IInv, Base, Types, OwnTypes
<1>3. cur[p] \in trans[p] \ synced[p] /\ cur[p] \in File /\ p \notin rolling
  BY <1>1, <1>2 DEF Place, InFile, Preparing
<1>4. \A g \in File : level'[p][g] = level[p][g] \/ (level'[p][g] = "exclusive" /\ g = cur[p])
  BY <1>2, <1>3, Moved DEF Exclusive, CommitBusy
<1>5. pc'[p] = "write" \/ (pc'[p] = "busy" /\ level' = level)
  BY <1>2, Moved DEF Exclusive, CommitBusy
<1>6. Keeps(p) /\ \A g \in File : FileStays(g) /\ Store'[g] = Store[g] /\ Plays(g)
  <2>1. \A q \in Proc \ {p} : Mine(q)' = Mine(q)
    BY <1>1 DEF Mine, own
  <2>2. span' = span /\ mDisk' = mDisk /\ master' = master
    BY <1>1 DEF masters, history
  <2>3. QED
    BY <1>1, <1>4, <2>1, <2>2, KeepsFiles
<1>7. UNCHANGED <<db, disk, journal, jDisk, master, mDisk, txn, trans, synced, span>>
  BY <1>1 DEF files, journals, masters, own, history
<1>8. db[cur[p]] = Store[cur[p]]
  <2>1. level[p][cur[p]] = "reserved"
    BY <1>1, <1>2, <1>3 DEF Works, Writes
  <2>2. QED
    BY <1>3, <2>1 DEF IInv, Reads, Quiet
<1>9. Works(p)'
  <2>1. Prepares(p) /\ HasMaster(p) /\ Writes(p)
    BY <1>2 DEF Works
  <2>2. ASSUME pc'[p] = "write", NEW f \in trans[p] PROVE Prepared(p, f)'
    <3>1. Prepared(p, f) /\ Store'[f] = Store[f]
      BY <1>1, <1>2, <1>6, <2>1 DEF Prepares, Preparing, InFile
    <3>2. QED
      BY <1>1, <1>7, <1>8, <2>2, <3>1 DEF Prepared, InFile
  <2>3. Prepares(p)'
    BY <1>1, <1>5, <1>6, <1>7, <2>1, <2>2 DEF Prepares, Preparing, InFile
  <2>4. HasMaster(p)'
    BY <1>1, <1>5, <1>7, <2>1 DEF HasMaster, Preparing, InFile
  <2>5. Finishes(p)' /\ Restores(p)'
    BY <1>5 DEF Finishes, Restores
  <2>6. Writes(p)'
    BY <1>1, <1>2, <1>3, <1>4, <1>5, <1>7, <2>1 DEF Writes
  <2>7. QED
    BY <2>3, <2>4, <2>5, <2>6 DEF Works
<1>10. IInv'
  BY <1>1, <1>6, <1>9, Kept DEF own, history
<1>11. Maps
  <2>1. \A q \in Proc : Claim(q)' = Claim(q)
    BY <1>1 DEF Claim, own
  <2>2. QED
    BY <1>2, <1>6, <1>7, <2>1, Stutters
<1>12. QED
  BY <1>10, <1>11

\* The start of a commit.
LEMMA CommitStep ==
  ASSUME IInv, Base', NEW p \in Proc, CommitOne(p) \/ CreateMaster(p), ~RetriesBusy
  PROVE  IInv' /\ Maps
<1>1. /\ UNCHANGED <<level, files, journals, trans, synced, cur, todo, rolling>>
      /\ pc[p] = "idle" /\ pc'[p] \in {"sync", "master"}
      /\ \A q \in Proc \ {p} : pc'[q] = pc[q] /\ txn'[q] = txn[q] /\ zMaster'[q] = zMaster[q]
      /\ nextTxn \in Txn /\ txn'[p] = nextTxn /\ nextTxn' = nextTxn + 1
      /\ span' = [span EXCEPT ![nextTxn] = trans[p]]
  BY Moved DEF CommitOne, CreateMaster, Committing, IInv, Base, Types, OwnTypes, StepTypes
<1>2. Base /\ Types /\ Place(p) /\ Owns(p) /\ Works(p) /\ Txns /\ trans[p] \subseteq File
  BY DEF IInv, Base, Types, OwnTypes
<1>3. txn[p] = 0 /\ synced[p] = {} /\ p \notin rolling /\ trans[p] # {}
  <2>1. Cardinality(trans[p]) # 0
    BY <1>1, <1>2, FS_CardinalityType DEF CommitOne, CreateMaster, Place
  <2>2. QED
    BY <1>1, <1>2, <2>1, FS_EmptySet DEF Place
<1>4. /\ span'[nextTxn] = trans[p] /\ \A t \in Txn \ {nextTxn} : span'[t] = span[t]
      /\ nextTxn \in Nat \ {0} /\ \A t \in Txn : t < nextTxn => t # nextTxn
  BY <1>1, <1>2 DEF Types, HistoryTypes, Txn
<1>5. \/ CommitOne(p) /\ zMaster'[p] = NoMaster /\ pc'[p] = "sync" /\ UNCHANGED masters
      \/ /\ zMaster'[p] \in Master \ drawn /\ pc'[p] = "master"
         /\ master'[zMaster'[p]] = trans[p]
         /\ \A m \in drawn : master'[m] = master[m] /\ mDisk'[m] = mDisk[m]
  <2>1. CASE CommitOne(p)
    BY <1>2, <2>1, Moved DEF CommitOne, Types, StepTypes
  <2>2. CASE CreateMaster(p)
    <3>1. PICK m \in Master \ drawn :
              /\ zMaster' = [zMaster EXCEPT ![p] = m]
              /\ master' = [master EXCEPT ![m] = Children(p)]
              /\ mDisk' = MayHave(MayHave(mDisk, m, {}), m, Children(p))
      BY <2>2 DEF CreateMaster
    <3>2. zMaster'[p] = m /\ pc'[p] = "master"
      BY <1>2, <2>2, <3>1, Moved DEF CreateMaster, Types, StepTypes
    <3>3. drawn \subseteq Master /\ master'[m] = trans[p]
      BY <1>2, <3>1 DEF Types, MasterTypes, Children
    <3>4. \A n \in drawn : master'[n] = master[n] /\ mDisk'[n] = mDisk[n]
      BY <1>2, <3>1, <3>3 DEF Types, MasterTypes, MayHave
    <3>5. QED
      BY <3>2, <3>3, <3>4
  <2>3. QED
    BY <2>1, <2>2
<1>6. \A q \in Proc \ {p} : zMaster[q] \in drawn \cup {NoMaster}
  BY <1>2 DEF Base, Knows
<1>7. Keeps(p) /\ \A g \in File : FileStays(g) /\ Store'[g] = Store[g] /\ Plays(g)
  <2>1. \A q \in Proc \ {p} : Mine(q)' = Mine(q)
    BY <1>1 DEF Mine
  <2>2. \A m \in drawn : master'[m] = master[m] /\ mDisk'[m] = mDisk[m]
    BY <1>5 DEF masters
  <2>3. \/ zMaster'[p] \in {zMaster[p], NoMaster}
        \/ \A q \in Proc \ {p} : pc[q] \in Preparing => zMaster'[p] # zMaster[q]
    BY <1>5, <1>6
  <2>4. \A t \in Txn : t < nextTxn => span'[t] = span[t]
    BY <1>4
  <2>5. QED
    BY <1>1, <2>1, <2>2, <2>3, <2>4, KeepsFiles
<1>8. UNCHANGED <<db, disk, journal, jDisk>>
  BY <1>1 DEF files, journals
<1>9. \A f \in File : /\ nextTxn \notin Store[f] /\ Biggest(nextTxn, Store[f])
  BY <1>2, <1>4 DEF Txns, Txn, Biggest
<1>10. Txns'
  <2>1. \A q, r \in Proc : txn'[q] # 0 /\ txn'[q] = txn'[r] => q = r
    BY <1>1, <1>2, <1>4 DEF Txns
  <2>2. \A q \in Proc : txn'[q] < nextTxn'
    <3>1. \A q \in Proc : txn[q] \in Int /\ txn[q] < nextTxn
      BY <1>2 DEF Txns, Types, OwnTypes, Txn
    <3>2. QED
      BY <1>1, <1>4, <3>1
  <2>3. \A t \in Txn : t >= nextTxn' => span'[t] = {}
    <3>1. \A t \in Txn : t >= nextTxn + 1 => t >= nextTxn /\ t # nextTxn
      BY <1>4 DEF Txn
    <3>2. QED
      BY <1>1, <1>2, <1>4, <3>1 DEF Txns
  <2>4. \A f \in File : \A t \in Store'[f] : t \in Txn /\ t < nextTxn' /\ f \in span'[t]
    <3> SUFFICES ASSUME NEW f \in File, NEW t \in Store'[f]
                 PROVE  t \in Txn /\ t < nextTxn' /\ f \in span'[t]
      OBVIOUS
    <3>1. t \in Txn /\ t < nextTxn /\ f \in span[t]
      BY <1>2, <1>7 DEF Txns
    <3>2. t < nextTxn + 1 /\ t # nextTxn
      BY <1>4, <3>1 DEF Txn
    <3>3. QED
      BY <1>1, <1>4, <3>1, <3>2
  <2>5. QED
    BY <2>1, <2>2, <2>3, <2>4 DEF Txns
<1>11. Works(p)'
  <2>1. pc'[p] \in Preparing /\ pc'[p] \notin InFile
    BY <1>1 DEF Preparing, InFile
  <2>2. ASSUME NEW f \in trans[p] PROVE Prepared(p, f)'
    <3>1. journal[f].master = NoMaster
      BY <1>2, <1>3 DEF Works, Writes
    <3>2. QED
      BY <1>1, <1>2, <1>3, <1>7, <1>8, <1>9, <2>1, <3>1 DEF Prepared
  <2>3. zMaster'[p] = NoMaster => \E f \in File : trans[p] = {f}
    <3>1. CASE CommitOne(p)
      <4>1. PICK f : trans[p] = {f}
        BY <1>2, <3>1, FS_Singleton DEF CommitOne, Place
      <4>2. QED
        BY <1>2, <4>1
    <3>2. CASE zMaster'[p] \in Master
      BY <3>2
    <3>3. QED
      BY <1>5, <3>1, <3>2
  <2>4. Prepares(p)'
    BY <1>1, <1>4, <1>7, <1>9, <2>1, <2>2, <2>3 DEF Prepares
  <2>5. HasMaster(p)'
    <3>1. synced'[p] = {}
      BY <1>1, <1>3
    <3>2. CASE zMaster'[p] \in Master \ drawn
      <4>1. master'[zMaster'[p]] # Absent /\ pc'[p] = "master"
        BY <1>2, <1>5, <3>2
      <4>2. \A q \in Proc \ {p} : zMaster'[q] # zMaster'[p]
        BY <1>1, <1>6, <3>2
      <4>3. \A f \in File : journal'[f] # Absent => journal'[f].master # zMaster'[p]
        BY <1>2, <1>8, <3>2, JournalTypes
      <4>4. QED
        BY <3>1, <4>1, <4>2, <4>3 DEF HasMaster
    <3>3. CASE zMaster'[p] = NoMaster /\ pc'[p] = "sync"
      BY <3>1, <3>3 DEF HasMaster
    <3>4. QED
      BY <1>5, <3>2, <3>3
  <2>6. Finishes(p)' /\ Restores(p)'
    BY <1>1 DEF Finishes, Restores
  <2>7. Writes(p)'
    <3>1. \A f \in trans[p] : level[p][f] = "reserved"
      BY <1>1, <1>2, <1>3 DEF Works, Writes
    <3>2. QED
      BY <1>1, <1>3, <1>4, <3>1 DEF Writes
  <2>8. QED
    BY <2>4, <2>5, <2>6, <2>7 DEF Works
<1>12. IInv'
  <2>1. Reads' /\ Contents' /\ \A q \in Proc \ {p} : Works(q)'
    BY <1>7, ReadsKept, ContentsKept, OthersWork DEF Keeps
  <2>2. QED
    BY <1>10, <1>11, <2>1 DEF IInv
<1>13. Maps
  <2>1. span[nextTxn] = {}
    BY <1>1, <1>2, <1>4 DEF Txns
  <2>2. ASSUME NEW u \in Active PROVE trans[p] \cap span[u] = {}
    <3>1. PICK q \in Proc : Claim(q) = u /\ u # 0 /\ \A f \in File : u \notin Store[f]
      BY ActiveIs
    <3>2. q \notin rolling /\ txn[q] = u /\ q # p
      BY <1>3, <3>1 DEF Claim
    <3>3. Place(q) /\ Works(q) /\ pc[q] \in Label /\ trans[q] \subseteq File
      BY DEF IInv, Base, Types, StepTypes, OwnTypes
    <3>4. pc[q] \in Preparing \cup {"busy"}
      BY <3>1, <3>2, <3>3 DEF Place, Label, Works, Finishes
    <3>5. span[u] = trans[q]
      BY <3>2, <3>3, <3>4 DEF Works, Prepares
    <3>6. \A f \in trans[p] : f \notin trans[q]
      BY <1>2, <3>2, OneOwner DEF Owns
    <3>7. QED
      BY <3>5, <3>6
  <2>3. Active' = Active \cup {nextTxn}
    <3>1. \A q \in Proc \ {p} : Claim(q)' = Claim(q)
      BY <1>1 DEF Claim
    <3>2. Claim(p)' = nextTxn /\ Claim(p) = 0
      BY <1>1, <1>3 DEF Claim
    <3>3. \A t : t \in Active' <=> t \in Active \cup {nextTxn}
      BY <1>4, <1>7, <1>9, <3>1, <3>2, ActiveIs
    <3>4. QED
      BY <3>3
  <2>4. AtomicStore!Prepare(nextTxn, trans[p])
    BY <1>1, <1>3, <1>7, <2>1, <2>2, <2>3, StoreSame DEF AtomicStore!Prepare
  <2>5. QED
    BY <1>1, <1>2, <2>4 DEF Maps, AtomicStore!Next
<1>14. QED
  BY <1>12, <1>13

\* Steps of a process that are about its master journal: it is synced, the
\* deletion is, or pager_delmaster() finds it superfluous.
LEMMA MasterStep ==
  ASSUME IInv, Base', NEW p \in Proc, SyncMaster(p) \/ SyncDirectory(p) \/ DeleteOrphan(p)
  PROVE  IInv' /\ Maps
<1>1. /\ UNCHANGED <<level, files, journals, drawn, own, zMaster, cur, todo, history>>
      /\ \A q \in Proc \ {p} : pc'[q] = pc[q] /\ (q \in rolling' <=> q \in rolling)
      /\ DeleteOrphan(p) \/ rolling' = rolling
  BY Moved DEF SyncMaster, SyncDirectory, DeleteOrphan, Stays, IInv, Base
<1>2. Base /\ Types /\ Place(p) /\ Owns(p) /\ Works(p) /\ Named /\ Current
  BY DEF IInv, Base
<1>3. SyncDirectory(p) \/ (zMaster[p] # NoMaster /\ zMaster[p] \in drawn /\ drawn \subseteq Master)
  BY <1>2 DEF SyncMaster, DeleteOrphan, Place, IInv, Base, Knows, Types, MasterTypes
<1>4. \A m \in drawn :
          /\ mDisk'[m] \subseteq mDisk[m] \cup {master'[m]}
          /\ \/ master'[m] = master[m]
             \/ /\ master'[m] = Absent
                /\ \A f \in File : journal[f] = Absent \/ journal[f].master # m
                /\ \A q \in Proc \ {p} : pc[q] \in Preparing => zMaster[q] # m
  <2>1. CASE SyncMaster(p) \/ SyncDirectory(p)
    <3>1. master' = master /\ drawn \subseteq Master
      BY <1>2, <2>1 DEF SyncMaster, SyncDirectory, Types, MasterTypes
    <3>2. \A m \in drawn : mDisk'[m] \subseteq mDisk[m] \cup {master[m]}
      BY <1>2, <2>1, <3>1 DEF SyncMaster, SyncDirectory, Has, Types, MasterTypes
    <3>3. QED
      BY <3>1, <3>2
  <2>2. CASE DeleteOrphan(p)
    <3> DEFINE m == zMaster[p]
    <3>1. /\ m # NoMaster /\ m \in drawn /\ drawn \subseteq Master
          /\ pc[p] = "children" /\ todo[p] = {}
      BY <1>2, <2>2 DEF DeleteOrphan, Place, IInv, Base, Knows, Types, MasterTypes
    <3>2. /\ master'[m] = Absent /\ mDisk'[m] = mDisk[m] \cup {Absent}
          /\ \A n \in drawn \ {m} : master'[n] = master[n] /\ mDisk'[n] = mDisk[n]
      BY <1>2, <2>2, <3>1 DEF DeleteOrphan, MayHave, Types, MasterTypes
    <3>3. CASE master[m] # Absent
      <4>1. ASSUME NEW f \in File, journal[f] # Absent, journal[f].master = m PROVE FALSE
        <5>1. f \in master[m]
          BY <1>2, <3>1, <3>3, <4>1, JournalTypes DEF Named
        <5>2. QED
          BY <1>2, <3>1, <3>3, <4>1, <5>1 DEF Works, Restores
      <4>2. ASSUME NEW q \in Proc \ {p}, pc[q] \in Preparing, zMaster[q] = m PROVE FALSE
        BY <3>1, <4>2 DEF IInv, Works, HasMaster
      <4>3. QED
        BY <3>2, <4>1, <4>2
    <3>4. QED
      BY <3>2, <3>3
  <2>3. QED
    BY <2>1, <2>2
<1>5. Keeps(p) /\ \A g \in File : FileStays(g) /\ Store'[g] = Store[g] /\ Plays(g)
  <2>1. \A q \in Proc \ {p} : Mine(q)' = Mine(q)
    BY <1>1 DEF Mine, own
  <2>2. span' = span /\ level' = level /\ zMaster' = zMaster
    BY <1>1 DEF history
  <2>3. QED
    BY <1>1, <1>4, <2>1, <2>2, KeepsFiles
<1>6. UNCHANGED <<db, disk, journal, jDisk, txn, trans, synced, span, level, zMaster, cur>>
  BY <1>1 DEF files, journals, own, history
<1>7. p \notin rolling' => p \notin rolling \/ (trans[p] = {} /\ txn[p] = 0 /\ synced[p] = {})
  BY <1>2 DEF SyncMaster, SyncDirectory, DeleteOrphan, Stays, Place
<1>8. p \in rolling' => p \in rolling
  BY DEF SyncMaster, SyncDirectory, DeleteOrphan, Stays
<1>9. Works(p)'
  <2>1. Prepares(p) /\ HasMaster(p) /\ Finishes(p) /\ Writes(p) /\ trans[p] \subseteq File
    BY <1>2 DEF Works, Types, OwnTypes
  <2>2. Writes(p)'
    <3>1. pc[p] \notin {"write", "rest"}
      BY DEF SyncMaster, SyncDirectory, DeleteOrphan
    <3>2. QED
      BY <1>6, <1>7, <2>1, <3>1 DEF Writes
  <2>3. CASE SyncMaster(p)
    <3>1. pc[p] = "master" /\ pc'[p] = "sync" /\ master' = master /\ zMaster[p] \in Master
      BY <1>2, <1>3, <2>3, Moved DEF SyncMaster, SyncDirectory
    <3>2. mDisk'[zMaster[p]] = {master[zMaster[p]]}
      BY <1>2, <2>3, <3>1 DEF SyncMaster, Has, Types, MasterTypes
    <3>3. ASSUME NEW f \in trans[p] PROVE Prepared(p, f)'
      <4>1. Prepared(p, f) /\ Store'[f] = Store[f]
        BY <1>5, <2>1, <3>1 DEF Prepares, Preparing
      <4>2. synced[p] = {}
        BY <2>1, <3>1 DEF HasMaster
      <4>3. QED
        BY <1>6, <3>1, <4>1, <4>2 DEF Prepared, InFile
    <3>4. Prepares(p)'
      BY <1>5, <1>6, <2>1, <3>1, <3>3 DEF Prepares, Preparing
    <3>5. HasMaster(p)'
      BY <1>6, <2>1, <3>1, <3>2 DEF HasMaster, Preparing
    <3>6. QED
      BY <2>2, <3>1, <3>4, <3>5 DEF Works, Finishes, Restores
  <2>4. CASE SyncDirectory(p)
    <3>1. pc[p] = "directory" /\ pc'[p] = "finish" /\ master' = master
      BY <1>2, <2>4, Moved DEF SyncDirectory
    <3>2. zMaster[p] \in Master
      BY <1>2, <2>1, <3>1 DEF Finishes, Types, StepTypes
    <3>3. mDisk'[zMaster[p]] = {Absent}
      BY <1>2, <2>1, <2>4, <3>1, <3>2 DEF SyncDirectory, Finishes
    <3>4. Finishes(p)'
      BY <1>5, <1>6, <2>1, <3>1, <3>3 DEF Finishes
    <3>5. QED
      BY <2>2, <3>1, <3>4 DEF Works, Prepares, HasMaster, Restores, Preparing, InFile
  <2>5. CASE DeleteOrphan(p)
    <3>1. pc'[p] \in {"rollback", "idle"}
      BY <1>2, <2>5, Moved DEF DeleteOrphan, After
    <3>2. QED
      BY <2>2, <3>1, WorksOutside DEF Restores, Preparing, InFile
  <2>6. QED
    BY <2>3, <2>4, <2>5
<1>10. IInv'
  BY <1>1, <1>5, <1>6, <1>9, Kept DEF history
<1>11. Maps
  <2>1. \A q \in Proc : Claim(q)' = Claim(q)
    BY <1>1, <1>6, <1>7, <1>8 DEF Claim
  <2>2. QED
    BY <1>2, <1>5, <1>6, <2>1, Stutters
<1>12. QED
  BY <1>10, <1>11

\* Steps that change one file of p, or its rollback journal.
LEMMA KeepsOne ==
  ASSUME IInv, NEW p \in Proc, NEW f \in File, UNCHANGED <<masters, span>>,
         \A q \in Proc \ {p} : Mine(q)' = Mine(q), zMaster'[p] = zMaster[p],
         \A g \in File \ {f} : FileStays(g) /\ level'[p][g] = level[p][g],
         Touches(p, f), Store'[f] = Store[f], Changes(p, f),
         \/ journal'[f] \in {Absent, journal[f]} \/ journal'[f].master = NoMaster
         \/ pc[p] \in Preparing /\ journal'[f].master = zMaster[p]
  PROVE  Keeps(p) /\ \A g \in File : Store'[g] = Store[g]
<1>1. master' = master /\ mDisk' = mDisk
  BY DEF masters
<1>2. \A g \in File \ {f} : Plays(g)
  BY <1>1 DEF Plays, Playable, Exists, FileStays
<1>3. \A g \in File : Store'[g] = Store[g]
  BY <1>2, StoreIs DEF FileStays, Plays
<1>4. ASSUME NEW q \in Proc \ {p}, zMaster[q] # NoMaster
      PROVE  /\ pc[q] \in Preparing =>
                    master'[zMaster[q]] = master[zMaster[q]] /\ zMaster'[p] # zMaster[q]
             /\ \A g \in File :
                    journal'[g] \in {Absent, journal[g]} \/ journal'[g].master # zMaster[q]
  <2>1. pc[q] \in Preparing => zMaster[p] # zMaster[q]
    BY <1>4 DEF IInv, Works, HasMaster
  <2>2. pc[p] \in Preparing => zMaster[p] # zMaster[q]
    BY <1>4 DEF IInv, Works, HasMaster
  <2>3. QED
    BY <1>1, <1>4, <2>1, <2>2 DEF FileStays
<1>5. \A m \in drawn : master'[m] \in {Absent, master[m]} /\ mDisk'[m] \subseteq mDisk[m] \cup {master'[m]}
  BY <1>1
<1>6. Apart(p)
  BY <1>2, <1>3, <1>4, <1>5 DEF Apart
<1>7. QED
  BY <1>1, <1>3, <1>6 DEF Keeps

\* A journal is begun.
LEMMA BeginStep ==
  ASSUME IInv, Base', NEW p \in Proc, NEW f \in File, Begin(p, f)
  PROVE  IInv' /\ Maps
<1> DEFINE j == [orig |-> db[f], master |-> NoMaster]
<1>1. /\ UNCHANGED <<files, masters, txn, synced, zMaster, pc, cur, todo, rolling, history>>
      /\ pc[p] = "idle" /\ level'[p][f] = "reserved" /\ level[p][f] = "shared"
      /\ \A q \in Proc \ {p} : level'[q] = level[q] /\ trans'[q] = trans[q]
      /\ \A g \in File \ {f} : level'[p][g] = level[p][g]
      /\ trans'[p] = trans[p] \cup {f}
  BY Moved DEF Begin, IInv, Base, Types, OwnTypes
<1>2. Base /\ Types /\ Place(p) /\ Owns(p) /\ Works(p) /\ trans[p] \subseteq File
  BY DEF IInv, Base, Types, OwnTypes
<1>3. /\ journal'[f] = j /\ jDisk'[f] = jDisk[f] \cup {j}
      /\ \A g \in File \ {f} : journal'[g] = journal[g] /\ jDisk'[g] = jDisk[g]
  BY <1>2 DEF Begin, MayHave, Types, FileTypes
<1>4. j # Absent /\ j.orig = db[f] /\ j.master = NoMaster
  BY <1>2 DEF Journal, Types, FileTypes
<1> HIDE DEF j
<1>5. Quiet(f)
  BY <1>1 DEF IInv, Reads
<1>6. UNCHANGED <<db, disk, undone, txn, synced, span, nextTxn, master>>
  BY <1>1 DEF files, history, masters
<1>7. Store'[f] = Store[f] /\ db[f] = Store[f]
  <2>1. Store'[f] = db[f]
    BY <1>3, <1>4, StoreIs DEF Playable
  <2>2. QED
    BY <1>5, <2>1 DEF Quiet
<1>8. Changes(p, f)
  <2>1. \A t \in Txn, m \in Master : ~Lone(f, t, m)
    BY <1>5, LoneIs
  <2>2. disk[f] = {db[f]} \/ f \in undone
    BY <1>5 DEF Quiet
  <2>3. Guarded(f)'
    BY <1>6, <1>7, <2>2 DEF Guarded
  <2>4. Quiet(f)'
    BY <1>3, <1>4, <1>6, <1>7, <2>2 DEF Quiet
  <2>5. QED
    BY <1>3, <1>4, <1>6, <1>7, <2>1, <2>3, <2>4 DEF Changes
<1>9. Keeps(p) /\ \A g \in File : Store'[g] = Store[g]
  <2>1. \A q \in Proc \ {p} : Mine(q)' = Mine(q)
    BY <1>1 DEF Mine
  <2>2. \A g \in File \ {f} : FileStays(g)
    BY <1>3, <1>6 DEF FileStays
  <2>3. QED
    BY <1>1, <1>3, <1>4, <1>6, <1>7, <1>8, <2>1, <2>2, KeepsOne DEF Touches
<1>10. Works(p)'
  <2>1. Writes(p) /\ synced[p] \subseteq trans[p]
    BY <1>2 DEF Works, Place
  <2>2. \A g \in trans[p] : g # f
    BY <1>1, <1>2 DEF Owns
  <2>3. Writes(p)'
    BY <1>1, <1>2, <1>3, <1>4, <1>6, <2>1, <2>2 DEF Writes
  <2>4. QED
    BY <1>1, <2>3, WorksOutside DEF Restores, Preparing, InFile
<1>11. IInv'
  BY <1>6, <1>9, <1>10, Kept
<1>12. Maps
  <2>1. \A q \in Proc : Claim(q)' = Claim(q)
    BY <1>1 DEF Claim
  <2>2. QED
    BY <1>2, <1>6, <1>9, <2>1, Stutters
<1>13. QED
  BY <1>11, <1>12

\* A journal of a transaction that has not committed is played back.
LEMMA InFilePlayable ==
  ASSUME IInv, NEW p \in Proc, pc[p] \in Preparing, NEW f \in trans[p]
  PROVE  /\ f \in File /\ journal[f] # Absent /\ journal[f] \in Journal
         /\ journal[f].master \in {NoMaster, zMaster[p]}
         /\ Playable(journal[f]) /\ journal[f].orig = Store[f]
         /\ \A t, m : ~Lone(f, t, m)
         /\ Prepared(p, f) /\ level[p][f] \in {"reserved", "exclusive"}
<1>1. f \in File /\ journal[f] # Absent /\ journal[f] \in Journal /\ level[p][f] \in {"reserved", "exclusive"}
  BY JournalTypes DEF IInv, Base, Types, OwnTypes, Owns
<1>2. Prepared(p, f) /\ HasMaster(p)
  BY DEF IInv, Works, Prepares
<1>3. journal[f].master \in {NoMaster, zMaster[p]}
  BY <1>2 DEF Prepared
<1>4. Playable(journal[f])
  BY <1>2, <1>3 DEF HasMaster, Playable, Exists
<1>5. journal[f].orig = Store[f]
  BY <1>1, <1>4, StoreIs
<1>6. QED
  BY <1>1, <1>2, <1>3, <1>4, <1>5, LoneIs

LEMMA NameMasterStep ==
  ASSUME IInv, Base', NEW p \in Proc, NEW f \in File, NameMaster(p, f)
  PROVE  IInv' /\ Maps
<1> DEFINE j == [journal[f] EXCEPT !.master = IF SetMaster(f) THEN @ ELSE zMaster[p]]
<1>1. /\ UNCHANGED <<level, files, masters, own, zMaster, todo, rolling, history>>
      /\ pc[p] = "sync" /\ f \in trans[p] \ synced[p] /\ pc'[p] = "journal" /\ cur'[p] = f
      /\ \A q \in Proc \ {p} : pc'[q] = pc[q] /\ cur'[q] = cur[q]
  BY Moved DEF NameMaster, IInv, Base
<1>2. Base /\ Types /\ Place(p) /\ Owns(p) /\ Works(p) /\ trans[p] \subseteq File
  BY DEF IInv, Base, Types, OwnTypes
<1>3. /\ journal'[f] = j /\ jDisk'[f] = jDisk[f] \cup {j}
      /\ \A g \in File \ {f} : journal'[g] = journal[g] /\ jDisk'[g] = jDisk[g]
  BY <1>2 DEF NameMaster, MayHave, Types, FileTypes
<1>4. /\ Playable(journal[f]) /\ journal[f] \in Journal /\ journal[f].orig = Store[f]
      /\ \A t, m : ~Lone(f, t, m)
      /\ pc[p] \in Preparing /\ p \notin rolling
  BY <1>1, <1>2, InFilePlayable DEF Preparing, Place
<1>5. j # Absent /\ j.orig = Store[f] /\ j.master = zMaster[p]
  <2>1. journal[f].master = NoMaster
    BY <1>1, <1>4, InFilePlayable DEF Prepared, InFile
  <2>2. zMaster[p] \in Master \cup {NoMaster}
    BY <1>2 DEF Types, StepTypes
  <2>3. j = [journal[f] EXCEPT !.master = zMaster[p]]
    BY <2>1 DEF SetMaster
  <2>4. [journal[f] EXCEPT !.master = zMaster[p]] \in Journal
    BY <1>4, <2>2 DEF Journal
  <2>5. QED
    BY <1>4, <2>3, <2>4 DEF Journal
<1> HIDE DEF j
<1>6. UNCHANGED <<db, disk, undone, txn, trans, synced, span, nextTxn, master, mDisk, level, zMaster>>
  BY <1>1 DEF files, history, masters, own
<1>7. Store'[f] = Store[f]
  <2>1. zMaster[p] # NoMaster => master[zMaster[p]] # Absent
    BY <1>2, <1>4 DEF Works, HasMaster
  <2>2. Playable(journal[f])'
    BY <1>3, <1>5, <1>6, <2>1 DEF Playable, Exists
  <2>3. QED
    BY <1>3, <1>5, <2>2, StoreIs
<1>8. Quiet(f)
  <2>1. level[p][f] = "reserved"
    BY <1>1, <1>2, <1>4 DEF Works, Writes
  <2>2. QED
    BY <2>1 DEF IInv, Reads
<1>9. Changes(p, f)
  <2>1. disk[f] = {db[f]} \/ f \in undone
    BY <1>8 DEF Quiet
  <2>2. db[f] = Store[f]
    BY <1>8 DEF Quiet
  <2>3. Guarded(f)'
    BY <1>6, <1>7, <2>1, <2>2 DEF Guarded
  <2>4. Quiet(f)'
    BY <1>3, <1>5, <1>6, <1>7, <2>1, <2>2 DEF Quiet
  <2>5. QED
    BY <1>3, <1>4, <1>5, <1>6, <2>3, <2>4 DEF Changes
<1>10. Keeps(p) /\ \A g \in File : Store'[g] = Store[g]
  <2>1. \A q \in Proc \ {p} : Mine(q)' = Mine(q)
    BY <1>1 DEF Mine, own
  <2>2. \A g \in File \ {f} : FileStays(g)
    BY <1>3, <1>6 DEF FileStays
  <2>3. Touches(p, f)
    BY <1>1, <1>2 DEF Touches, Owns
  <2>4. QED
    BY <1>1, <1>3, <1>4, <1>5, <1>6, <1>7, <1>9, <2>1, <2>2, <2>3, KeepsOne
<1>11. Works(p)'
  <2>1. Prepares(p) /\ HasMaster(p) /\ Writes(p)
    BY <1>2 DEF Works
  <2>2. ASSUME NEW g \in trans[p] PROVE Prepared(p, g)'
    <3>1. Prepared(p, g) /\ Store'[g] = Store[g]
      BY <1>2, <1>4, <1>10, <2>1 DEF Prepares
    <3>2. CASE g = f
      BY <1>1, <1>3, <1>5, <1>6, <3>1, <3>2 DEF Prepared, InFile
    <3>3. CASE g # f
      <4>1. journal'[g] = journal[g] /\ jDisk'[g] = jDisk[g]
        BY <1>2, <1>3, <3>3
      <4>2. QED
        BY <1>1, <1>6, <3>1, <3>3, <4>1 DEF Prepared, InFile
    <3>4. QED
      BY <3>2, <3>3
  <2>3. Prepares(p)'
    BY <1>1, <1>4, <1>6, <1>10, <2>1, <2>2 DEF Prepares, Preparing, InFile
  <2>4. HasMaster(p)'
    <3>1. \A g \in File : journal'[g] # Absent /\ journal'[g].master = zMaster[p] /\ zMaster[p] # NoMaster =>
              g \in trans[p]
      BY <1>1, <1>3, <1>4, <2>1 DEF HasMaster
    <3>2. QED
      BY <1>1, <1>4, <1>6, <2>1, <3>1 DEF HasMaster, Preparing, InFile
  <2>5. Finishes(p)' /\ Restores(p)'
    BY <1>1 DEF Finishes, Restores
  <2>6. Writes(p)'
    <3>1. txn[p] # 0
      BY <1>2, <1>4 DEF Place
    <3>2. QED
      BY <1>1, <1>6, <2>1, <3>1 DEF Writes
  <2>7. QED
    BY <2>3, <2>4, <2>5, <2>6 DEF Works
<1>12. IInv'
  BY <1>6, <1>10, <1>11, Kept
<1>13. Maps
  <2>1. \A q \in Proc : Claim(q)' = Claim(q)
    BY <1>1, <1>6 DEF Claim
  <2>2. QED
    BY <1>2, <1>6, <1>10, <2>1, Stutters
<1>14. QED
  BY <1>12, <1>13

LEMMA SyncJournalStep ==
  ASSUME IInv, Base', NEW p \in Proc, SyncJournal(p)
  PROVE  IInv' /\ Maps
<1>1. /\ UNCHANGED <<level, files, journal, masters, own, zMaster, cur, todo, rolling, history>>
      /\ pc[p] = "journal" /\ pc'[p] = "lock" /\ \A q \in Proc \ {p} : pc'[q] = pc[q]
  BY Moved DEF SyncJournal, IInv, Base
<1>2. Base /\ Types /\ Place(p) /\ Owns(p) /\ Works(p) /\ trans[p] \subseteq File
  BY DEF IInv, Base, Types, OwnTypes
<1>3. PICK f \in File :
          f = cur[p] /\ f \in trans[p] \ synced[p] /\ pc[p] \in Preparing /\ p \notin rolling
  BY <1>1, <1>2 DEF Place, InFile, Preparing
<1>4. jDisk'[f] = {journal[f]} /\ \A g \in File \ {f} : jDisk'[g] = jDisk[g]
  BY <1>2, <1>3 DEF SyncJournal, Has, Types, FileTypes
<1>5. /\ journal[f] # Absent /\ Playable(journal[f]) /\ journal[f].orig = Store[f]
      /\ \A t, m : ~Lone(f, t, m)
  BY <1>3, InFilePlayable
<1>6. UNCHANGED <<db, disk, undone, txn, trans, synced, span, nextTxn, master, mDisk, level, zMaster, journal, cur>>
  BY <1>1 DEF files, history, masters, own
<1>7. Store'[f] = Store[f]
  BY <1>3, <1>5, <1>6, StoreIs DEF Playable, Exists
<1>8. Quiet(f)
  <2>1. level[p][f] = "reserved"
    BY <1>1, <1>2, <1>3 DEF Works, Writes
  <2>2. QED
    BY <1>3, <2>1 DEF IInv, Reads
<1>9. Changes(p, f)
  <2>1. Guarded(f)'
    BY <1>6, <1>7, <1>8 DEF Guarded, Quiet
  <2>2. Quiet(f)'
    BY <1>6, <1>7, <1>8 DEF Quiet
  <2>3. journal[f] \in jDisk[f]
    BY <1>2, <1>3 DEF Base, Current
  <2>4. QED
    BY <1>4, <1>5, <1>6, <2>1, <2>2, <2>3 DEF Changes
<1>10. Keeps(p) /\ \A g \in File : Store'[g] = Store[g]
  <2>1. \A q \in Proc \ {p} : Mine(q)' = Mine(q)
    BY <1>1 DEF Mine, own
  <2>2. \A g \in File \ {f} : FileStays(g)
    BY <1>4, <1>6 DEF FileStays
  <2>3. Touches(p, f)
    BY <1>2, <1>3 DEF Touches, Owns
  <2>4. QED
    BY <1>1, <1>3, <1>6, <1>7, <1>9, <2>1, <2>2, <2>3, KeepsOne
<1>11. Works(p)'
  <2>1. Prepares(p) /\ HasMaster(p) /\ Writes(p)
    BY <1>2 DEF Works
  <2>2. ASSUME NEW g \in trans[p] PROVE Prepared(p, g)'
    <3>1. Prepared(p, g) /\ Store'[g] = Store[g]
      BY <1>2, <1>3, <1>10, <2>1 DEF Prepares
    <3>2. g \in File
      BY <1>2
    <3>3. QED
      BY <1>1, <1>3, <1>4, <1>6, <3>1, <3>2 DEF Prepared, InFile
  <2>3. Prepares(p)'
    BY <1>1, <1>3, <1>6, <1>10, <2>1, <2>2 DEF Prepares, Preparing, InFile
  <2>4. HasMaster(p)'
    BY <1>1, <1>6, <2>1 DEF HasMaster, Preparing, InFile
  <2>5. Finishes(p)' /\ Restores(p)'
    BY <1>1 DEF Finishes, Restores
  <2>6. Writes(p)'
    BY <1>1, <1>6, <2>1 DEF Writes
  <2>7. QED
    BY <2>3, <2>4, <2>5, <2>6 DEF Works
<1>12. IInv'
  BY <1>6, <1>10, <1>11, Kept
<1>13. Maps
  <2>1. \A q \in Proc : Claim(q)' = Claim(q)
    BY <1>1, <1>6 DEF Claim
  <2>2. QED
    BY <1>2, <1>6, <1>10, <2>1, Stutters
<1>14. QED
  BY <1>12, <1>13

\* pager_write_pagelist(): the file has its journal until the transaction
\* commits.
LEMMA WriteStep ==
  ASSUME IInv, Base', NEW p \in Proc, WriteSome(p) \/ WriteAll(p)
  PROVE  IInv' /\ Maps
<1>1. /\ UNCHANGED <<level, undone, journals, masters, txn, trans, zMaster, cur, todo, rolling, history>>
      /\ \A q \in Proc \ {p} : pc'[q] = pc[q]
      /\ \/ WriteSome(p) /\ pc[p] = "write" /\ pc'[p] = "rest" /\ synced' = synced
         \/ WriteAll(p) /\ pc[p] = "rest" /\ pc'[p] = "sync"
  BY Moved DEF WriteSome, WriteAll, own, IInv, Base
<1>2. Base /\ Types /\ Place(p) /\ Owns(p) /\ Works(p) /\ Txns /\ trans[p] \subseteq File
  BY DEF IInv, Base, Types, OwnTypes
<1>3. PICK f \in File :
          /\ f = cur[p] /\ f \in trans[p] \ synced[p] /\ pc[p] \in Preparing /\ p \notin rolling
          /\ level[p][f] = "exclusive" /\ txn[p] # 0
  BY <1>1, <1>2 DEF Place, InFile, Preparing, Owns
<1>4. /\ journal[f] # Absent /\ Playable(journal[f]) /\ journal[f].orig = Store[f]
      /\ journal[f].master \in {NoMaster, zMaster[p]} /\ Prepared(p, f)
      /\ \A t, m : ~Lone(f, t, m)
  BY <1>3, InFilePlayable
<1>5. UNCHANGED <<undone, txn, trans, span, nextTxn, master, mDisk, level, zMaster, journal, jDisk, cur>>
  BY <1>1 DEF history, masters, journals
<1>6. /\ \A g \in File \ {f} : db'[g] = db[g] /\ disk'[g] = disk[g]
      /\ WriteSome(p) => db'[f] = db[f] \cup {Half}
      /\ WriteAll(p) => db'[f] = (db[f] \ {Half}) \cup {txn[p]} /\ disk'[f] = {db'[f]}
      /\ WriteAll(p) => synced'[p] = synced[p] \cup {f}
      /\ \A q \in Proc \ {p} : synced'[q] = synced[q]
  BY <1>1, <1>2, <1>3 DEF WriteSome, WriteAll, Has, Types, FileTypes, OwnTypes
<1>7. Store'[f] = Store[f]
  BY <1>4, <1>5, StoreIs DEF Playable, Exists
<1>8. jDisk[f] = {journal[f]} /\ Certainly(journal[f])
  <2>1. jDisk[f] = {journal[f]}
    BY <1>1, <1>3, <1>4 DEF Prepared
  <2>2. zMaster[p] # NoMaster => Absent \notin mDisk[zMaster[p]]
    BY <1>1, <1>2, <1>3 DEF Works, HasMaster
  <2>3. QED
    BY <1>4, <2>1, <2>2 DEF Certainly
<1>9. Changes(p, f)
  <2>1. Guarded(f)'
    BY <1>4, <1>5, <1>7, <1>8 DEF Guarded, Certainly
  <2>2. QED
    BY <1>3, <1>4, <1>5, <2>1 DEF Changes
<1>10. Keeps(p) /\ \A g \in File : Store'[g] = Store[g]
  <2>1. \A q \in Proc \ {p} : Mine(q)' = Mine(q)
    BY <1>1, <1>6 DEF Mine
  <2>2. \A g \in File \ {f} : FileStays(g)
    BY <1>5, <1>6 DEF FileStays
  <2>3. Touches(p, f)
    BY <1>3 DEF Touches
  <2>4. QED
    BY <1>1, <1>3, <1>5, <1>7, <1>9, <2>1, <2>2, <2>3, KeepsOne
<1>11. Works(p)'
  <2>1. Prepares(p) /\ HasMaster(p) /\ Writes(p)
    BY <1>2 DEF Works
  <2>2. ASSUME NEW g \in trans[p] PROVE Prepared(p, g)'
    <3>1. Prepared(p, g) /\ Store'[g] = Store[g] /\ g \in File
      BY <1>2, <1>3, <1>10, <2>1 DEF Prepares
    <3>2. CASE g # f
      <4>1. db'[g] = db[g] /\ (g \in synced'[p] <=> g \in synced[p]) /\ cur[p] # g
        BY <1>1, <1>3, <1>6, <3>1, <3>2
      <4>2. QED
        BY <1>5, <3>1, <4>1 DEF Prepared
    <3>3. CASE g = f /\ WriteSome(p)
      <4>1. db[f] = Store[f] /\ db'[f] = db[f] \cup {Half} /\ pc'[p] = "rest" /\ synced' = synced
            /\ pc[p] = "write"
        BY <1>1, <1>3, <1>4, <1>6, <3>3 DEF Prepared, WriteSome, WriteAll
      <4>2. QED
        BY <1>3, <1>5, <3>1, <3>3, <4>1 DEF Prepared, InFile
    <3>4. CASE g = f /\ WriteAll(p)
      <4>1. db[f] = Store[f] \cup {Half} /\ pc'[p] = "sync" /\ pc[p] = "rest"
        BY <1>1, <1>3, <1>4, <3>4 DEF Prepared, WriteSome, WriteAll
      <4>2. Half \notin Store[f]
        BY <1>2 DEF Txns, Txn, Half
      <4>3. db'[f] = Store[f] \cup {txn[p]} /\ f \in synced'[p]
        BY <1>6, <3>4, <4>1, <4>2
      <4>4. QED
        BY <1>3, <1>5, <1>8, <3>1, <3>4, <4>1, <4>3 DEF Prepared, InFile
    <3>5. QED
      BY <3>2, <3>3, <3>4
  <2>3. pc'[p] \in Preparing /\ pc'[p] # "master"
    BY <1>1 DEF Preparing, InFile
  <2>4. Prepares(p)'
    BY <1>3, <1>5, <1>10, <2>1, <2>2, <2>3 DEF Prepares
  <2>5. HasMaster(p)'
    BY <1>1, <1>3, <1>5, <2>1, <2>3 DEF HasMaster
  <2>6. Finishes(p)' /\ Restores(p)'
    BY <1>1 DEF Finishes, Restores
  <2>7. Writes(p)'
    <3>1. \A g \in synced'[p] : disk'[g] = {db'[g]}
      <4>1. \A g \in synced[p] : g # f /\ g \in File /\ disk[g] = {db[g]}
        BY <1>2, <1>3, <2>1 DEF Writes, Place
      <4>2. QED
        BY <1>1, <1>6, <4>1
    <3>2. \A g \in trans[p] : \/ level[p][g] = "reserved" \/ g \in synced'[p]
                              \/ pc'[p] \in {"write", "rest"} /\ cur[p] = g
      BY <1>1, <1>3, <1>6, <2>1 DEF Writes
    <3>3. QED
      BY <1>3, <1>5, <3>1, <3>2 DEF Writes
  <2>8. QED
    BY <2>4, <2>5, <2>6, <2>7 DEF Works
<1>12. IInv'
  BY <1>5, <1>10, <1>11, Kept
<1>13. Maps
  <2>1. \A q \in Proc : Claim(q)' = Claim(q)
    BY <1>1 DEF Claim
  <2>2. QED
    BY <1>2, <1>5, <1>10, <2>1, Stutters
<1>14. QED
  BY <1>12, <1>13

\* A playback writes what the journal has already promised.
LEMMA RestoreStep ==
  ASSUME IInv, Base', NEW p \in Proc, RestoreSome(p) \/ RestoreAll(p)
  PROVE  IInv' /\ Maps
<1>1. /\ UNCHANGED <<level, undone, journals, masters, own, zMaster, cur, todo, rolling, history>>
      /\ \A q \in Proc \ {p} : pc'[q] = pc[q]
      /\ \/ RestoreSome(p) /\ pc[p] = "restore" /\ pc'[p] = "restored"
         \/ RestoreAll(p) /\ pc[p] = "restored" /\ pc'[p] = "unlink"
  BY Moved DEF RestoreSome, RestoreAll, IInv, Base
<1>2. Base /\ Types /\ Place(p) /\ Owns(p) /\ Works(p) /\ trans[p] \subseteq File
  BY DEF IInv, Base, Types, OwnTypes
<1>3. PICK f \in File :
          /\ f = cur[p] /\ level[p][f] = "exclusive" /\ journal[f] # Absent
          /\ Playable(journal[f]) /\ journal[f].orig = Store[f]
  BY <1>1, <1>2, StoreIs DEF Place, Restoring, Works, Restores
<1>4. \A t, m : ~Lone(f, t, m)
  BY <1>3, LoneIs
<1>5. UNCHANGED <<undone, txn, trans, synced, span, nextTxn, master, mDisk, level, zMaster, journal, jDisk, cur, rolling>>
  BY <1>1 DEF history, masters, journals, own
<1>6. \A g \in File \ {f} : db'[g] = db[g] /\ disk'[g] = disk[g]
  BY <1>2, <1>3 DEF RestoreSome, RestoreAll, MayHave, Types, FileTypes
<1>7. Store'[f] = Store[f]
  BY <1>3, <1>5, StoreIs DEF Playable, Exists
<1>8. Guarded(f) /\ db[f] \in disk[f]
  BY <1>2 DEF IInv, Contents, Base, Current
<1>9. Guarded(f)'
  <2>1. CASE RestoreAll(p)
    <3>1. db'[f] = Store[f] /\ disk'[f] = disk[f] \cup {Store[f]}
      BY <1>2, <1>3, <2>1 DEF RestoreAll, MayHave, Types, FileTypes
    <3>2. disk[f] = {Store[f]} => disk'[f] = {Store[f]}
      BY <3>1
    <3>3. QED
      BY <1>5, <1>7, <1>8, <3>1, <3>2 DEF Guarded, Certainly
  <2>2. CASE RestoreSome(p) /\ db[f] = Store[f]
    <3>1. db'[f] = db[f] \cup {} /\ disk'[f] = disk[f] \cup {v \cup {} : v \in disk[f]}
      <4> DEFINE part == IF db[cur[p]] = journal[cur[p]].orig THEN {} ELSE {Half}
      <4>1. /\ db' = [db EXCEPT ![f] = @ \cup part]
            /\ disk' = [disk EXCEPT ![f] = @ \cup {v \cup part : v \in @}]
        BY <1>3, <2>2 DEF RestoreSome
      <4>2. part = {}
        BY <1>3, <2>2
      <4> HIDE DEF part
      <4>3. db'[f] = db[f] \cup part /\ disk'[f] = disk[f] \cup {v \cup part : v \in disk[f]}
        BY <1>2, <4>1 DEF Types, FileTypes
      <4>4. QED
        BY <4>2, <4>3
    <3>2. db'[f] = db[f] /\ disk'[f] = disk[f]
      <4>1. \A v : v \cup {} = v
        OBVIOUS
      <4>2. {v \cup {} : v \in disk[f]} = disk[f]
        BY <4>1
      <4>3. db[f] \cup {} = db[f]
        BY <4>1
      <4>4. QED
        BY <3>1, <4>2, <4>3
    <3>3. QED
      BY <1>5, <1>7, <1>8, <3>2 DEF Guarded, Certainly
  <2>3. CASE db[f] # Store[f] /\ RestoreSome(p)
    BY <1>5, <1>7, <1>8, <2>3 DEF Guarded, Certainly
  <2>4. QED
    BY <2>1, <2>2, <2>3
<1>10. Changes(p, f)
  BY <1>3, <1>4, <1>5, <1>9 DEF Changes
<1>11. Keeps(p) /\ \A g \in File : Store'[g] = Store[g]
  <2>1. \A q \in Proc \ {p} : Mine(q)' = Mine(q)
    BY <1>1, <1>5 DEF Mine
  <2>2. \A g \in File \ {f} : FileStays(g)
    BY <1>5, <1>6 DEF FileStays
  <2>3. Touches(p, f)
    BY <1>3 DEF Touches
  <2>4. QED
    BY <1>1, <1>3, <1>5, <1>7, <1>10, <2>1, <2>2, <2>3, KeepsOne
<1>12. Works(p)'
  <2>1. Writes(p) /\ synced[p] \subseteq trans[p]
    BY <1>2 DEF Works, Place
  <2>2. Writes(p)'
    <3>1. p \notin rolling => \A g \in synced[p] : g # f /\ g \in File
      BY <1>1, <1>2, <1>3, <2>1 DEF Place, Restoring
    <3>2. QED
      BY <1>1, <1>5, <1>6, <2>1, <3>1 DEF Writes
  <2>3. Restores(p)'
    <3>1. Playable(journal[f])'
      BY <1>3, <1>5 DEF Playable, Exists
    <3>2. RestoreAll(p) => db'[f] = Store[f]
      BY <1>2, <1>3 DEF RestoreAll, Types, FileTypes
    <3>3. QED
      BY <1>1, <1>3, <1>5, <1>7, <3>1, <3>2 DEF Restores, RestoreSome
  <2>4. QED
    BY <1>1, <2>2, <2>3, WorksOutside DEF Preparing, InFile
<1>13. IInv'
  BY <1>5, <1>11, <1>12, Kept
<1>14. Maps
  <2>1. \A q \in Proc : Claim(q)' = Claim(q)
    BY <1>5 DEF Claim
  <2>2. QED
    BY <1>2, <1>5, <1>11, <2>1, Stutters
<1>15. QED
  BY <1>13, <1>14

\* The end of a file in a transaction or a recovery: its journal goes, and
\* the file contains what it would contain without.
LEMMA JournalGoneStep ==
  ASSUME IInv, Base', NEW p \in Proc, NEW f \in File, Gone(p, f),
         UNCHANGED <<db, disk, masters, zMaster, cur, todo, history>>,
         \A q \in Proc \ {p} : pc'[q] = pc[q] /\ (q \in rolling' <=> q \in rolling),
         level[p][f] \in {"reserved", "exclusive"}, db[f] = Store[f],
         \A g \in File \ {f} : g \in undone' <=> g \in undone,
         f \in undone => f \in undone', f \in undone' \/ disk[f] = {db[f]},
         \A t, m : Lone(f, t, m) => f \in undone' \/ mDisk[m] = {Absent},
         pc[p] \notin {"write", "rest"}, p \in rolling \/ p \notin rolling',
         p \notin rolling' => p \notin rolling \/ trans'[p] = {}
  PROVE  /\ Keeps(p) /\ (\A g \in File : Store'[g] = Store[g])
         /\ Writes(p)' /\ txn'[p] \in {0, txn[p]}
<1>1. Base /\ Writes(p) /\ trans[p] \subseteq File /\ synced[p] \subseteq trans[p]
  BY DEF IInv, Works, Base, Types, OwnTypes, Place
<1>2. UNCHANGED <<span, nextTxn, master, mDisk>>
  BY DEF history, masters
<1>3. Store'[f] = Store[f]
  BY StoreIs DEF Gone
<1>4. Changes(p, f)
  <2>1. Guarded(f)'
    BY <1>3 DEF Guarded
  <2>2. Quiet(f)'
    BY <1>3 DEF Quiet, Gone
  <2>3. \A j \in jDisk'[f] \ {Absent} : j \in jDisk[f]
    BY DEF Gone
  <2>4. QED
    BY <1>2, <2>1, <2>2, <2>3 DEF Changes
<1>5. Keeps(p) /\ \A g \in File : Store'[g] = Store[g]
  <2>1. \A q \in Proc \ {p} : Mine(q)' = Mine(q)
    BY DEF Mine, Gone
  <2>2. \A g \in File \ {f} : FileStays(g) /\ level'[p][g] = level[p][g]
    BY DEF FileStays, Gone
  <2>3. Touches(p, f) /\ journal'[f] = Absent
    BY DEF Touches, Gone
  <2>4. QED
    BY <1>2, <1>3, <1>4, <2>1, <2>2, <2>3, KeepsOne
<1>6. Writes(p)'
  <2>1. \A g \in trans'[p] : g \in File \ {f} /\ g \in trans[p]
    BY <1>1 DEF Gone
  <2>2. txn'[p] = 0 => txn[p] = 0 \/ trans'[p] = {}
    BY DEF Gone
  <2>3. \A g \in synced'[p] : g \in synced[p] /\ g \in trans'[p]
    BY <1>1 DEF Gone
  <2>4. \A g \in trans'[p] : /\ journal'[g] = journal[g] /\ level'[p][g] = level[p][g]
                             /\ (g \in synced'[p] <=> g \in synced[p])
    BY <2>1 DEF Gone
  <2>5. QED
    BY <1>1, <2>1, <2>2, <2>3, <2>4 DEF Writes
<1>7. QED
  BY <1>5, <1>6 DEF Gone

LEMMA UnlinkStep ==
  ASSUME IInv, Base', NEW p \in Proc, Unlink(p)
  PROVE  IInv' /\ Maps
<1>1. Base /\ Types /\ Place(p) /\ Works(p) /\ undone \subseteq File
  BY DEF IInv, Base, Types, FileTypes
<1>2. PICK f \in File :
          /\ f = cur[p] /\ level[p][f] = "exclusive" /\ journal[f] # Absent /\ db[f] = Store[f]
          /\ pc[p] = "unlink"
  BY <1>1 DEF Unlink, Place, Restoring, Works, Restores
<1>3. /\ DeleteJournal(p, f) /\ undone' = IF Certain(f) THEN undone ELSE undone \cup {f}
      /\ UNCHANGED <<db, disk, masters, zMaster, cur, todo, rolling, history>>
      /\ pc'[p] = "delmaster" /\ \A q \in Proc \ {p} : pc'[q] = pc[q]
  BY <1>1, <1>2, Moved DEF Unlink
<1>4. Gone(p, f)
  BY <1>1, <1>3, JournalGone
<1>5. f \in undone' \/ disk[f] = {db[f]}
  BY <1>3 DEF Certain
<1>6. ASSUME NEW t, NEW m, Lone(f, t, m) PROVE f \in undone' \/ mDisk[m] = {Absent}
  <2>1. journal[f].master = m /\ master[m] = Absent /\ m # NoMaster
    BY <1>6, LoneIs
  <2>2. QED
    BY <1>3, <2>1 DEF Certain, SetMaster
<1>7. /\ Keeps(p) /\ (\A g \in File : Store'[g] = Store[g])
      /\ Writes(p)' /\ txn'[p] \in {0, txn[p]}
  BY <1>2, <1>3, <1>4, <1>5, <1>6, JournalGoneStep
<1>8. Works(p)'
  BY <1>3, <1>7, WorksOutside DEF Restores, Preparing, InFile
<1>9. IInv'
  BY <1>3, <1>7, <1>8, Kept DEF history
<1>10. Maps
  <2>1. \A q \in Proc \ {p} : Claim(q)' = Claim(q)
    BY <1>3, <1>4 DEF Claim, Gone
  <2>2. p \notin rolling => txn[p] = 0
    BY <1>1, <1>2 DEF Place, Recovering, Restoring
  <2>3. Claim(p)' = Claim(p)
    BY <1>3, <1>7, <2>2 DEF Claim
  <2>4. QED
    BY <1>1, <1>3, <1>7, <2>1, <2>3, Stutters DEF history
<1>11. QED
  BY <1>9, <1>10

LEMMA ForgetStep ==
  ASSUME IInv, Base', NEW p \in Proc, NEW f \in File, ForgetFile(p, f)
  PROVE  IInv' /\ Maps
<1>1. Base /\ Types /\ Place(p) /\ Works(p)
  BY DEF IInv, Base
<1>2. /\ DeleteJournal(p, f) /\ f \in trans[p] /\ level[p][f] = "reserved"
      /\ UNCHANGED <<db, disk, undone, masters, zMaster, cur, todo, history>>
      /\ pc[p] = "rollback" /\ pc'[p] \in {"idle", "rollback"} /\ \A q \in Proc \ {p} : pc'[q] = pc[q]
      /\ rolling' = IF trans[p] = {f} THEN rolling \ {p} ELSE rolling
  BY <1>1, Moved DEF ForgetFile, files
<1>3. Gone(p, f) /\ p \in rolling
  BY <1>1, <1>2, JournalGone DEF Place
<1>4. Quiet(f)
  BY <1>2 DEF IInv, Reads
<1>5. p \notin rolling' => trans'[p] = {} /\ txn'[p] = 0
  BY <1>2, <1>3 DEF Gone
<1>6. \A t, m : ~Lone(f, t, m)
  BY <1>4, LoneIs
<1>7. /\ Keeps(p) /\ (\A g \in File : Store'[g] = Store[g])
      /\ Writes(p)' /\ txn'[p] \in {0, txn[p]}
  BY <1>2, <1>3, <1>4, <1>5, <1>6, JournalGoneStep DEF Quiet
<1>8. Works(p)'
  BY <1>2, <1>7, WorksOutside DEF Restores, Preparing, InFile
<1>9. IInv'
  BY <1>2, <1>7, <1>8, Kept DEF history
<1>10. Maps
  <2>1. \A q \in Proc \ {p} : Claim(q)' = Claim(q)
    BY <1>2, <1>3 DEF Claim, Gone
  <2>2. Claim(p)' = Claim(p)
    BY <1>3, <1>5 DEF Claim
  <2>3. QED
    BY <1>1, <1>2, <1>7, <2>1, <2>2, Stutters DEF history
<1>11. QED
  BY <1>9, <1>10

\* After the commit, the journals go one by one.
LEMMA FinishStep ==
  ASSUME IInv, Base', NEW p \in Proc, NEW f \in File, CommitFile(p, f), pc[p] = "finish"
  PROVE  IInv' /\ Maps
<1>1. Base /\ Types /\ Place(p) /\ Owns(p) /\ Works(p) /\ p \notin rolling /\ txn[p] # 0
  BY DEF IInv, Base, Place
<1>2. /\ DeleteJournal(p, f) /\ f \in trans[p] /\ synced[p] = trans[p]
      /\ UNCHANGED <<db, disk, undone, masters, zMaster, cur, todo, rolling, history>>
      /\ pc'[p] = (IF trans[p] = {f} THEN "idle" ELSE "finish") /\ \A q \in Proc \ {p} : pc'[q] = pc[q]
  BY <1>1, Moved DEF CommitFile, files, Place
<1>3. Gone(p, f)
  BY <1>1, <1>2, JournalGone
<1>4. /\ journal[f].master = zMaster[p] /\ mDisk[zMaster[p]] = {Absent} /\ level[p][f] = "exclusive"
      /\ ~Playable(journal[f]) /\ disk[f] = {db[f]}
  BY <1>1, <1>2 DEF Works, Finishes, Owns, Writes, Playable, Exists
<1>5. db[f] = Store[f]
  BY <1>4, StoreIs
<1>6. \A t, m : Lone(f, t, m) => mDisk[m] = {Absent}
  BY <1>4, LoneIs
<1>7. /\ Keeps(p) /\ (\A g \in File : Store'[g] = Store[g])
      /\ Writes(p)' /\ txn'[p] \in {0, txn[p]}
  BY <1>1, <1>2, <1>3, <1>4, <1>5, <1>6, JournalGoneStep
<1>8. Works(p)'
  <2>1. CASE trans[p] = {f}
    BY <1>2, <1>7, <2>1, WorksOutside DEF Restores, Preparing, InFile
  <2>2. CASE trans[p] # {f}
    <3>1. pc'[p] = "finish" /\ txn'[p] = txn[p]
      BY <1>2, <1>3, <2>2 DEF Gone
    <3>2. \A g \in trans'[p] : g \in trans[p] /\ journal'[g] = journal[g]
      BY <1>1, <1>3 DEF Gone, Types, OwnTypes
    <3>3. Finishes(p)'
      BY <1>1, <1>2, <1>7, <3>1, <3>2 DEF Works, Finishes, masters
    <3>4. QED
      BY <1>7, <3>1, <3>3 DEF Works, Prepares, HasMaster, Restores, Preparing, InFile
  <2>3. QED
    BY <2>1, <2>2
<1>9. IInv'
  BY <1>2, <1>7, <1>8, Kept DEF history
<1>10. Maps
  <2>1. \A q \in Proc \ {p} : Claim(q)' = Claim(q)
    BY <1>2, <1>3 DEF Claim, Gone
  <2>2. \E g \in File : Claim(p) \in Store[g]
    BY <1>1 DEF Works, Finishes, Claim
  <2>3. Claim(p)' \in {0, Claim(p)}
    BY <1>1, <1>2, <1>7 DEF Claim
  <2>4. QED
    BY <1>1, <1>2, <1>7, <2>1, <2>2, <2>3, Stutters DEF history
<1>11. QED
  BY <1>9, <1>10

-----------------------------------------------------------------------------
(* The commit.                                                              *)

LEMMA StoreFunction == Store' = [f \in File |-> Store'[f]]
  BY DEF Store

\* A transaction that commits is in its files, and in no other.
LEMMA Commits ==
  ASSUME IInv, NEW p \in Proc, pc[p] \in Preparing, trans[p] # {}, UNCHANGED <<span, nextTxn>>,
         \A f \in File : Store'[f] = IF f \in trans[p] THEN Store[f] \cup {txn[p]} ELSE Store[f],
         \A q \in Proc \ {p} : Claim(q)' = Claim(q) /\ txn'[q] = txn[q],
         p \notin rolling', txn'[p] \in {0, txn[p]}
  PROVE  Maps /\ Txns'
<1> DEFINE t == txn[p]
<1>1. /\ t \in Txn /\ t # 0 /\ p \notin rolling /\ span[t] = trans[p] /\ t < nextTxn
      /\ trans[p] \subseteq File /\ \A f \in File : t \notin Store[f]
  BY DEF IInv, Base, Types, OwnTypes, Place, Works, Prepares, Txns
<1>2. Claim(p) = t /\ Claim(p)' \in {0, t}
  BY <1>1 DEF Claim
<1>3. Active' = Active \ {t} /\ t \in Active
  <2>1. \A u : u \in Active' => u \in Active \ {t}
    <3> SUFFICES ASSUME NEW u \in Active' PROVE u \in Active \ {t}
      OBVIOUS
    <3>1. PICK q \in Proc : Claim(q)' = u /\ u # 0 /\ \A f \in File : u \notin Store'[f]
      BY ActiveIs
    <3>2. u # t
      BY <1>1, <3>1
    <3>3. Claim(q) = u
      BY <1>2, <3>1, <3>2
    <3>4. QED
      BY <3>1, <3>2, <3>3, ActiveIs
  <2>2. \A u : u \in Active \ {t} => u \in Active'
    <3> SUFFICES ASSUME NEW u \in Active \ {t} PROVE u \in Active'
      OBVIOUS
    <3>1. PICK q \in Proc : Claim(q) = u /\ u # 0 /\ \A f \in File : u \notin Store[f]
      BY ActiveIs
    <3>2. q # p /\ u # t
      BY <1>2, <3>1
    <3>3. Claim(q)' = u /\ \A f \in File : u \notin Store'[f]
      BY <3>1, <3>2
    <3>4. QED
      BY <3>1, <3>3, ActiveIs
  <2>3. t \in Active
    BY <1>1, <1>2, ActiveIs
  <2>4. QED
    BY <2>1, <2>2, <2>3
<1>4. AtomicStore!Commit(t)
  <2>1. [f \in File |-> Store'[f]] = [f \in File |-> IF f \in span[t] THEN Store[f] \cup {t} ELSE Store[f]]
    BY <1>1
  <2>2. Store' = [f \in File |-> IF f \in span[t] THEN Store[f] \cup {t} ELSE Store[f]]
    BY <2>1, StoreFunction
  <2>3. QED
    BY <1>1, <1>3, <2>2 DEF AtomicStore!Commit
<1>5. Maps
  BY <1>1, <1>4 DEF Maps, AtomicStore!Next
<1>6. Txns'
  <2>1. \A f \in File : \A u \in Store'[f] :
            u \in Store[f] \/ (u \in Txn /\ u < nextTxn /\ f \in span[u])
    <3> SUFFICES ASSUME NEW f \in File, NEW u \in Store'[f], u \notin Store[f]
                 PROVE  u \in Txn /\ u < nextTxn /\ f \in span[u]
      OBVIOUS
    <3>1. f \in trans[p] /\ u = txn[p]
      OBVIOUS
    <3>2. QED
      BY <1>1, <3>1
  <2>2. \A q \in Proc : txn'[q] \in {0, txn[q]}
    OBVIOUS
  <2>3. QED
    BY <2>1, <2>2, TxnsKept
<1>7. QED
  BY <1>5, <1>6

\* The file of a transaction that is synced.
LEMMA SyncedFile ==
  ASSUME IInv, NEW p \in Proc, Synced(p), NEW f \in trans[p]
  PROVE  /\ f \in File /\ level[p][f] = "exclusive" /\ journal[f] # Absent /\ journal[f] \in Journal
         /\ journal[f].master = zMaster[p] /\ journal[f].orig = Store[f]
         /\ jDisk[f] = {journal[f]} /\ db[f] = Store[f] \cup {txn[p]} /\ disk[f] = {db[f]}
         /\ txn[p] \notin Store[f] /\ Biggest(txn[p], Store[f])
         /\ Playable(journal[f]) /\ \A t, m : ~Lone(f, t, m)
<1>1. pc[p] \in Preparing /\ f \in synced[p]
  BY DEF Synced, Preparing
<1>2. /\ f \in File /\ journal[f] # Absent /\ journal[f] \in Journal /\ Playable(journal[f])
      /\ journal[f].orig = Store[f] /\ Prepared(p, f) /\ \A t, m : ~Lone(f, t, m)
  BY <1>1, InFilePlayable
<1>3. level[p][f] = "exclusive" /\ p \notin rolling /\ Writes(p) /\ txn[p] \notin Store[f]
  BY <1>1, <1>2 DEF IInv, Base, Owns, Place, Works, Prepares
<1>4. QED
  BY <1>1, <1>2, <1>3 DEF Prepared, Writes

\* One file: its journal is deleted.
LEMMA CommitFileStep ==
  ASSUME IInv, Base', NEW p \in Proc, NEW f \in File, CommitFile(p, f), pc[p] # "finish"
  PROVE  IInv' /\ Maps
<1>1. /\ Synced(p) /\ zMaster[p] = NoMaster /\ DeleteJournal(p, f) /\ f \in trans[p]
      /\ UNCHANGED <<db, disk, undone, masters, zMaster, cur, todo, rolling, history>>
  BY DEF CommitFile, files
<1>2. Base /\ Types /\ Works(p) /\ pc[p] \in Preparing /\ pc[p] = "sync"
  BY <1>1 DEF IInv, Base, Synced, Preparing
<1>3. PICK t \in Txn : t = txn[p] /\ trans[p] = {f} /\ p \notin rolling /\ span[t] = {f}
  <2>1. PICK g \in File : trans[p] = {g}
    BY <1>1, <1>2 DEF Works, Prepares
  <2>2. QED
    BY <1>1, <1>2, <2>1 DEF Works, Prepares, Base, Place, Types, OwnTypes
<1>4. /\ level[p][f] = "exclusive" /\ journal[f] # Absent
      /\ journal[f].master = NoMaster /\ journal[f].orig = Store[f]
      /\ jDisk[f] = {journal[f]} /\ db[f] = Store[f] \cup {t} /\ disk[f] = {db[f]}
      /\ t \notin Store[f] /\ Biggest(t, Store[f]) /\ \A u, m : ~Lone(f, u, m)
  BY <1>1, <1>3, SyncedFile
<1>5. Gone(p, f)
  BY <1>1, <1>2, JournalGone
<1>6. /\ pc'[p] = "idle" /\ \A q \in Proc \ {p} : pc'[q] = pc[q]
      /\ trans'[p] = {} /\ txn'[p] = 0 /\ synced'[p] = {}
  BY <1>2, <1>3, <1>5, Moved DEF CommitFile, Gone
<1>7. UNCHANGED <<span, nextTxn, master, mDisk, drawn>>
  BY <1>1 DEF history, masters
<1>8. Store'[f] = Store[f] \cup {t}
  BY <1>1, <1>4, <1>5, StoreIs DEF Gone
<1>9. \A g \in File \ {f} : /\ FileStays(g) /\ Plays(g) /\ Store'[g] = Store[g]
                            /\ level'[p][g] = level[p][g]
  <2>1. \A g \in File \ {f} : FileStays(g) /\ level'[p][g] = level[p][g]
    BY <1>1, <1>5 DEF FileStays, Gone
  <2>2. \A g \in File \ {f} : Plays(g)
    BY <1>7, <2>1 DEF Plays, Playable, Exists, FileStays
  <2>3. QED
    BY <2>1, <2>2, StoreIs DEF FileStays, Plays
<1>10. Maps /\ Txns'
  <2>1. \A q \in Proc \ {p} : Claim(q)' = Claim(q) /\ txn'[q] = txn[q]
    BY <1>1, <1>5 DEF Claim, Gone
  <2>2. \A g \in File : Store'[g] = IF g \in trans[p] THEN Store[g] \cup {txn[p]} ELSE Store[g]
    BY <1>3, <1>8, <1>9
  <2>3. QED
    BY <1>1, <1>2, <1>3, <1>6, <1>7, <2>1, <2>2, Commits
<1>11. Apart(p)
  <2>1. \A q \in Proc \ {p} : Mine(q)' = Mine(q)
    BY <1>1, <1>5, <1>6 DEF Mine, Gone
  <2>2. Touches(p, f) /\ t # 0 /\ journal'[f] = Absent
    BY <1>4, <1>5, <1>3 DEF Touches, Gone, Txn
  <2>3. \A g \in File : journal'[g] \in {Absent, journal[g]}
    BY <1>9, <2>2 DEF FileStays
  <2>4. \A g \in File : \/ FileStays(g) /\ Store'[g] = Store[g] /\ Plays(g)
                        \/ Touches(p, g)
    BY <1>9, <2>2
  <2>5. \A g \in File : Store'[g] = Store[g] \/ (txn[p] # 0 /\ Store'[g] = Store[g] \cup {txn[p]})
    BY <1>3, <1>8, <1>9, <2>2
  <2>6. QED
    BY <1>1, <1>7, <2>1, <2>3, <2>4, <2>5 DEF Apart
<1>12. Reads'
  <2> SUFFICES ASSUME NEW g \in File, NEW q \in Proc, level'[q][g] \in {"shared", "reserved"}
               PROVE  Quiet(g)'
    BY DEF Reads
  <2>1. g # f
    BY <1>2, <1>4, <1>5, OneOwner DEF Gone
  <2>2. level'[q][g] = level[q][g]
    BY <1>5, <2>1 DEF Gone
  <2>3. Quiet(g)
    BY <2>2 DEF IInv, Reads
  <2>4. QED
    BY <1>9, <2>1, <2>3 DEF Quiet, FileStays
<1>13. Contents'
  <2>1. Guarded(f)'
    BY <1>1, <1>4, <1>8 DEF Guarded
  <2>2. ASSUME NEW j \in jDisk'[f] \ {Absent} PROVE Loses(f, j)'
    <3>1. j = journal[f]
      BY <1>4, <1>5, <2>2 DEF Gone
    <3>2. (Store[f] \cup {t}) \ {t} = Store[f]
      BY <1>4
    <3>3. Biggest(t, Store[f] \cup {t})
      BY <1>3, <1>4 DEF Biggest, Txn
    <3>4. TakesBack(f, j, t)'
      BY <3>1, <1>4, <1>8, <3>2, <3>3 DEF TakesBack
    <3>5. QED
      BY <3>1, <1>3, <1>4, <1>7, <3>4 DEF Loses
  <2>3. ASSUME NEW g \in File \ {f}
        PROVE  Guarded(g)' /\ \A j \in jDisk'[g] \ {Absent} : Loses(g, j)'
    <3>1. Guarded(g) /\ \A j \in jDisk[g] \ {Absent} : Loses(g, j)
      BY DEF IInv, Contents
    <3>2. FileStays(g) /\ Store'[g] = Store[g]
      BY <1>9
    <3>3. Guarded(g)'
      BY <1>7, <3>1, <3>2 DEF Guarded, FileStays, Certainly
    <3>4. ASSUME NEW j \in jDisk[g] \ {Absent} PROVE Loses(g, j)'
      <4>1. CASE j.orig = Store[g]
        BY <3>2, <4>1 DEF Loses
      <4>2. CASE j.orig # Store[g]
        <5>1. PICK u \in Txn :
                  /\ TakesBack(g, j, u)
                  /\ IF j.master = NoMaster THEN span[u] = {g}
                     ELSE /\ master[j.master] = Absent
                          /\ mDisk[j.master] # {Absent} =>
                                 \A h \in span[u] : h \in undone \/ Lone(h, u, j.master)
          BY <3>1, <3>4, <4>2 DEF Loses
        <5>2. TakesBack(g, j, u)'
          BY <3>2, <5>1 DEF TakesBack
        <5>3. \A h \in span[u] : h \in undone \/ Lone(h, u, j.master) =>
                  h \in undone' \/ Lone(h, u, j.master)'
          <6> SUFFICES ASSUME NEW h \in span[u], h \in undone \/ Lone(h, u, j.master)
                       PROVE  h \in undone' \/ Lone(h, u, j.master)'
            OBVIOUS
          <6>1. h \in File
            BY <1>2 DEF Types, HistoryTypes
          <6>2. CASE h \in undone
            BY <1>1, <6>2
          <6>3. CASE h # f
            BY <1>9, <6>1, <6>3 DEF Lone, TakesBack, FileStays
          <6>4. QED
            BY <1>4, <6>2, <6>3
        <5>4. QED
          BY <1>7, <5>1, <5>2, <5>3 DEF Loses
      <4>3. QED
        BY <4>1, <4>2
    <3>5. QED
      BY <3>2, <3>3, <3>4 DEF FileStays
  <2>5. QED
    BY <2>1, <2>2, <2>3 DEF Contents
<1>14. Works(p)'
  BY <1>6, WorksOutside DEF Writes, Restores, Preparing, InFile
<1>15. \A q \in Proc \ {p} : Works(q)'
  BY <1>11, OthersWork
<1>16. QED
  BY <1>10, <1>12, <1>13, <1>14, <1>15 DEF IInv

\* Several files: the master journal is deleted.
LEMMA DeleteMasterStep ==
  ASSUME IInv, Base', NEW p \in Proc, DeleteMaster(p)
  PROVE  IInv' /\ Maps
<1>1. /\ Synced(p) /\ zMaster[p] # NoMaster
      /\ UNCHANGED <<level, files, journals, drawn, own, zMaster, cur, todo, rolling, history>>
      /\ pc'[p] = "directory" /\ \A q \in Proc \ {p} : pc'[q] = pc[q]
  BY Moved DEF DeleteMaster, IInv, Base
<1>2. /\ Base /\ Types /\ Works(p) /\ pc[p] \in Preparing /\ pc[p] = "sync" /\ Owns(p)
      /\ trans[p] \subseteq File /\ trans[p] # {} /\ synced[p] = trans[p] /\ p \notin rolling
  BY <1>1 DEF IInv, Base, Synced, Preparing, Types, OwnTypes, Place
<1>3. PICK t \in Txn, m \in drawn :
          /\ t = txn[p] /\ m = zMaster[p] /\ m \in Master /\ m # NoMaster /\ t # 0
          /\ span[t] = trans[p]
  BY <1>1, <1>2 DEF IInv, Base, Types, OwnTypes, MasterTypes, Knows, Works, Prepares, Place
<1>4. UNCHANGED <<db, disk, undone, journal, jDisk, txn, trans, synced, span, nextTxn, level, drawn, zMaster>>
  BY <1>1 DEF files, journals, own, history
<1>5. /\ master'[m] = Absent /\ mDisk'[m] = mDisk[m] \cup {Absent}
      /\ \A n \in Master \ {m} : master'[n] = master[n] /\ mDisk'[n] = mDisk[n]
      /\ drawn \subseteq Master
  BY <1>2, <1>3 DEF DeleteMaster, MayHave, Types, MasterTypes
<1>6. ASSUME NEW g \in trans[p]
      PROVE  /\ g \in File /\ level[p][g] = "exclusive" /\ journal[g] # Absent /\ journal[g] \in Journal
             /\ journal[g].master = m /\ journal[g].orig = Store[g]
             /\ jDisk[g] = {journal[g]} /\ db[g] = Store[g] \cup {t} /\ disk[g] = {db[g]}
             /\ t \notin Store[g] /\ Biggest(t, Store[g])
             /\ \A u, n : ~Lone(g, u, n)
  BY <1>1, <1>3, SyncedFile
<1>7. ASSUME NEW g \in File \ trans[p] PROVE journal[g] # Absent => journal[g].master # m
  BY <1>1, <1>2, <1>3 DEF Works, HasMaster
<1>8. ASSUME NEW g \in trans[p] PROVE Store'[g] = Store[g] \cup {t}
  <2>1. ~Playable(journal[g])'
    BY <1>3, <1>4, <1>5, <1>6 DEF Playable, Exists
  <2>2. QED
    BY <1>4, <1>6, <2>1, StoreIs
<1>9. ASSUME NEW g \in File \ trans[p] PROVE Plays(g) /\ Store'[g] = Store[g]
  <2>1. Plays(g)
    <3> SUFFICES ASSUME journal[g] # Absent, journal[g].master # NoMaster
                 PROVE  master'[journal[g].master] = master[journal[g].master]
      BY <1>4 DEF Plays, Playable, Exists
    <3>1. journal[g].master \in Master
      BY <1>2, JournalTypes
    <3>2. QED
      BY <1>5, <1>7, <3>1
  <2>2. QED
    BY <1>4, <2>1, StoreIs DEF Plays
<1>10. \A g \in File : FileStays(g)
  BY <1>4 DEF FileStays
<1>11. Maps /\ Txns'
  <2>1. \A q \in Proc : Claim(q)' = Claim(q)
    BY <1>1, <1>4 DEF Claim
  <2>2. \A g \in File : Store'[g] = IF g \in trans[p] THEN Store[g] \cup {txn[p]} ELSE Store[g]
    BY <1>3, <1>8, <1>9
  <2>3. QED
    BY <1>1, <1>2, <1>4, <2>1, <2>2, Commits
<1>12. Apart(p)
  <2>1. \A q \in Proc \ {p} : Mine(q)' = Mine(q)
    BY <1>1, <1>4 DEF Mine
  <2>2. \A g \in File : \/ FileStays(g) /\ Store'[g] = Store[g] /\ Plays(g)
                        \/ Touches(p, g)
    BY <1>6, <1>9, <1>10 DEF Touches
  <2>3. \A g \in File : Store'[g] = Store[g] \/ (txn[p] # 0 /\ Store'[g] = Store[g] \cup {txn[p]})
    BY <1>3, <1>8, <1>9
  <2>4. \A n \in drawn : master'[n] \in {Absent, master[n]} /\ mDisk'[n] \subseteq mDisk[n] \cup {master'[n]}
    BY <1>5
  <2>5. ASSUME NEW q \in Proc \ {p}, zMaster[q] # NoMaster
        PROVE  /\ pc[q] \in Preparing => master'[zMaster[q]] = master[zMaster[q]] /\ zMaster'[p] # zMaster[q]
               /\ \A g \in File : journal'[g] \in {Absent, journal[g]} \/ journal'[g].master # zMaster[q]
    <3>1. zMaster[q] # m
      BY <1>1, <1>2, <1>3 DEF Works, HasMaster
    <3>2. zMaster[q] \in Master
      BY <1>2, <2>5 DEF Types, StepTypes
    <3>3. QED
      BY <1>3, <1>4, <1>5, <3>1, <3>2
  <2>6. QED
    BY <1>4, <2>1, <2>2, <2>3, <2>4, <2>5 DEF Apart
<1>13. Reads'
  <2> SUFFICES ASSUME NEW g \in File, NEW q \in Proc, level[q][g] \in {"shared", "reserved"}
               PROVE  Quiet(g)'
    BY <1>4 DEF Reads
  <2>1. g \notin trans[p]
    <3>1. CASE q = p
      BY <1>6, <3>1
    <3>2. CASE q # p
      BY <1>2, <1>6, <3>2, OneOwner
    <3>3. QED
      BY <3>1, <3>2
  <2>2. Quiet(g)
    BY DEF IInv, Reads
  <2>3. QED
    BY <1>4, <1>9, <2>1, <2>2 DEF Quiet
<1>14. ASSUME NEW g \in trans[p] PROVE Guarded(g)' /\ \A j \in jDisk'[g] \ {Absent} : Loses(g, j)'
  <2>1. Guarded(g)'
    BY <1>4, <1>6, <1>8 DEF Guarded
  <2>2. \A h \in trans[p] : h \in File /\ TakesBack(h, journal[h], t)' /\ Lone(h, t, m)'
    <3> SUFFICES ASSUME NEW h \in trans[p] PROVE h \in File /\ TakesBack(h, journal[h], t)' /\ Lone(h, t, m)'
      OBVIOUS
    <3>1. (Store[h] \cup {t}) \ {t} = Store[h] /\ Biggest(t, Store[h] \cup {t})
      BY <1>6 DEF Biggest, Txn
    <3>2. TakesBack(h, journal[h], t)'
      BY <1>4, <1>6, <1>8, <3>1 DEF TakesBack
    <3>3. Lone(h, t, m)'
      BY <1>4, <1>6, <3>2 DEF Lone
    <3>4. QED
      BY <1>6, <3>2, <3>3
  <2>3. ASSUME NEW j \in jDisk'[g] \ {Absent} PROVE Loses(g, j)'
    <3>1. j = journal[g] /\ journal'[g] = journal[g]
      BY <1>4, <1>6, <2>3
    <3>2. TakesBack(g, j, t)'
      BY <2>2, <3>1
    <3>3. j.master = m /\ span'[t] = trans[p]
      BY <1>3, <1>4, <1>6, <3>1
    <3>4. QED
      BY <1>3, <1>5, <2>2, <3>2, <3>3 DEF Loses
  <2>4. QED
    BY <2>1, <2>3
<1>15. ASSUME NEW g \in File \ trans[p] PROVE Guarded(g)' /\ \A j \in jDisk'[g] \ {Absent} : Loses(g, j)'
  <2>1. Guarded(g) /\ \A j \in jDisk[g] \ {Absent} : Loses(g, j)
    BY DEF IInv, Contents
  <2>2. Guarded(g)'
    <3>1. Certainly(journal[g]) => Certainly(journal[g])'
      <4>1. journal[g] # Absent /\ journal[g].master # NoMaster => journal[g].master \in Master \ {m}
        BY <1>2, <1>7, JournalTypes
      <4>2. QED
        BY <1>4, <1>5, <4>1 DEF Certainly
    <3>2. QED
      BY <1>4, <1>9, <2>1, <3>1 DEF Guarded
  <2>3. ASSUME NEW j \in jDisk[g] \ {Absent} PROVE Loses(g, j)'
    <3>1. CASE j.orig = Store[g]
      BY <1>9, <3>1 DEF Loses
    <3>2. CASE j.orig # Store[g]
      <4>1. PICK u \in Txn :
                /\ TakesBack(g, j, u)
                /\ IF j.master = NoMaster THEN span[u] = {g}
                   ELSE /\ master[j.master] = Absent
                        /\ mDisk[j.master] # {Absent} =>
                               \A h \in span[u] : h \in undone \/ Lone(h, u, j.master)
        BY <2>1, <2>3, <3>2 DEF Loses
      <4>2. TakesBack(g, j, u)'
        BY <1>9, <4>1 DEF TakesBack
      <4>3. CASE j.master = NoMaster
        BY <1>4, <4>1, <4>2, <4>3 DEF Loses
      <4>4. CASE j.master # NoMaster
        <5>1. j.master \in Master
          BY <1>2, <1>5, <2>3, <4>4, JournalTypes
        <5>2. j.master # m
          <6>1. master[m] # Absent
            BY <1>2, <1>3 DEF Works, HasMaster
          <6>2. QED
            BY <4>1, <4>4, <6>1
        <5>3. ASSUME NEW h \in span[u], h \in undone \/ Lone(h, u, j.master)
              PROVE  h \in undone' \/ Lone(h, u, j.master)'
          <6>1. h \in File
            BY <1>2 DEF Types, HistoryTypes
          <6>2. CASE h \in undone
            BY <1>4, <6>2
          <6>3. CASE h \notin trans[p]
            BY <1>4, <1>9, <5>3, <6>1, <6>3 DEF Lone, TakesBack
          <6>4. QED
            BY <1>6, <5>3, <6>2, <6>3
        <5>4. QED
          BY <1>4, <1>5, <4>1, <4>2, <4>4, <5>1, <5>2, <5>3 DEF Loses
      <4>5. QED
        BY <4>3, <4>4
    <3>3. QED
      BY <3>1, <3>2
  <2>4. QED
    BY <1>4, <2>2, <2>3
<1>16. Contents'
  BY <1>14, <1>15 DEF Contents
<1>17. Works(p)'
  <2>1. \E f \in File : txn[p] \in Store'[f]
    BY <1>2, <1>3, <1>8
  <2>2. Finishes(p)'
    BY <1>1, <1>3, <1>4, <1>5, <1>6, <2>1 DEF Finishes
  <2>3. Writes(p)'
    BY <1>1, <1>2, <1>4 DEF Works, Writes
  <2>4. QED
    BY <1>1, <2>2, <2>3 DEF Works, Prepares, HasMaster, Restores, Preparing, InFile
<1>18. \A q \in Proc \ {p} : Works(q)'
  BY <1>12, OthersWork
<1>19. QED
  BY <1>11, <1>13, <1>16, <1>17, <1>18 DEF IInv

\* A process dies.
LEMMA CrashStep ==
  ASSUME IInv, Base', NEW p \in Proc, Crash(p)
  PROVE  IInv' /\ Maps
<1>1. /\ UNCHANGED <<files, journals, masters, span, nextTxn>>
      /\ pc'[p] = "idle" /\ txn'[p] = 0 /\ trans'[p] = {} /\ synced'[p] = {} /\ p \notin rolling'
      /\ zMaster'[p] = NoMaster /\ \A f \in File : level'[p][f] = "none"
      /\ \A q \in Proc \ {p} :
             /\ pc'[q] = pc[q] /\ cur'[q] = cur[q] /\ txn'[q] = txn[q] /\ trans'[q] = trans[q]
             /\ synced'[q] = synced[q] /\ zMaster'[q] = zMaster[q] /\ todo'[q] = todo[q]
             /\ level'[q] = level[q] /\ (q \in rolling' <=> q \in rolling)
  BY DEF Crash, Dead
<1>2. Keeps(p) /\ \A f \in File : Store'[f] = Store[f]
  <2>1. \A q \in Proc \ {p} : Mine(q)' = Mine(q)
    BY <1>1 DEF Mine
  <2>2. span' = span /\ mDisk' = mDisk /\ master' = master
    BY <1>1 DEF masters
  <2>3. QED
    BY <1>1, <2>1, <2>2, KeepsFiles
<1>3. Works(p)'
  <2>1. Writes(p)' /\ Restores(p)'
    BY <1>1 DEF Writes, Restores
  <2>2. QED
    BY <1>1, <2>1, WorksOutside DEF Preparing, InFile
<1>4. IInv'
  BY <1>1, <1>2, <1>3, Kept
<1>5. Maps
  <2>1. Claim(p)' = 0 /\ \A q \in Proc \ {p} : Claim(q)' = Claim(q)
    BY <1>1 DEF Claim
  <2>2. QED
    BY <1>1, <1>2, <2>1, Abandons
<1>6. QED
  BY <1>4, <1>5

\* The operating system writes what it has buffered.
LEMMA SettleStep ==
  ASSUME IInv, Base', NEW s \in File, Settle(s)
  PROVE  IInv' /\ Maps
<1>1. /\ Base /\ Types /\ Txns /\ Reads /\ Contents /\ s \in undone
      /\ \A f \in File : db[f] \in disk[f] /\ journal[f] \in jDisk[f]
  BY DEF IInv, Base, Settle, Current
<1>2. /\ UNCHANGED <<level, db, journal, jDisk, master, drawn, txn, trans, synced, zMaster, pc, cur,
                     todo, rolling, span, nextTxn>>
      /\ disk'[s] = {db[s]} /\ \A f \in File \ {s} : disk'[f] = disk[f]
      /\ \A f \in File \ {s} : f \in undone' <=> f \in undone
      /\ s \notin undone'
      /\ \A m \in Master : mDisk'[m] = {master[m]}
  BY <1>1 DEF Settle, Has, journals, own, history, Types, FileTypes
<1>3. \A f \in File : Store'[f] = Store[f]
  BY <1>2, StoreIs DEF Playable, Exists
<1>4. Maps
  <2>1. Active' = Active
    BY <1>2, <1>3, StoreSame DEF Active
  <2>2. QED
    BY <1>2, <1>3, <2>1, StoreSame DEF Maps
<1>5. Txns'
  BY <1>2, <1>3, TxnsKept
<1>6. Reads'
  <2> SUFFICES ASSUME NEW f \in File, NEW q \in Proc, level[q][f] \in {"shared", "reserved"}
               PROVE  Quiet(f)'
    BY <1>2 DEF Reads
  <2>1. Quiet(f)
    BY <1>1 DEF Reads
  <2>2. QED
    BY <1>2, <1>3, <2>1 DEF Quiet
<1>7. ASSUME NEW f \in File PROVE Guarded(f)'
  <2>1. Guarded(f)
    BY <1>1 DEF Contents
  <2>2. Certainly(journal[f]) => Certainly(journal[f])'
    <3> SUFFICES ASSUME journal[f] # Absent, journal[f].master # NoMaster,
                        Absent \notin mDisk[journal[f].master]
                 PROVE  Absent \notin mDisk'[journal[f].master]
      BY <1>2 DEF Certainly
    <3>1. journal[f].master \in Master /\ master[journal[f].master] # Absent
      BY <1>1, JournalTypes
    <3>2. QED
      BY <1>2, <3>1
  <2>3. CASE f # s
    BY <1>2, <1>3, <2>1, <2>2, <2>3 DEF Guarded
  <2>4. CASE f = s /\ db[f] = Store[f]
    BY <1>2, <1>3, <2>4 DEF Guarded
  <2>5. CASE f = s /\ db[f] # Store[f]
    <3>1. journal[f] # Absent /\ Playable(journal[f]) /\ journal[f].orig = Store[f]
      BY <2>5, StoreIs
    <3>2. Certainly(journal[f])'
      <4>1. journal[f].master # NoMaster => journal[f].master \in Master /\ master[journal[f].master] # Absent
        BY <1>1, <3>1, JournalTypes DEF Playable, Exists
      <4>2. QED
        BY <1>2, <3>1, <4>1 DEF Certainly
    <3>3. QED
      BY <1>2, <1>3, <2>1, <2>5, <3>1, <3>2 DEF Guarded
  <2>6. QED
    BY <2>3, <2>4, <2>5
<1>8. ASSUME NEW f \in File, NEW j \in jDisk'[f] \ {Absent} PROVE Loses(f, j)'
  <2>1. Loses(f, j) /\ (j.master # NoMaster => j.master \in Master)
    BY <1>1, <1>2, JournalTypes DEF Contents
  <2>2. CASE j.orig = Store[f]
    BY <1>3, <2>2 DEF Loses
  <2>3. CASE j.orig # Store[f]
    <3>1. PICK t \in Txn :
              /\ TakesBack(f, j, t)
              /\ IF j.master = NoMaster THEN span[t] = {f} ELSE master[j.master] = Absent
      BY <2>1, <2>3 DEF Loses
    <3>2. TakesBack(f, j, t)'
      BY <1>3, <3>1 DEF TakesBack
    <3>3. j.master # NoMaster => master'[j.master] = Absent /\ mDisk'[j.master] = {Absent}
      BY <1>2, <2>1, <3>1
    <3>4. QED
      BY <1>2, <3>1, <3>2, <3>3 DEF Loses
  <2>4. QED
    BY <2>2, <2>3
<1>9. ASSUME NEW q \in Proc PROVE Works(q)'
  <2>1. Works(q) /\ trans[q] \subseteq File /\ zMaster[q] \in {NoMaster} \cup Master
    BY <1>1 DEF IInv, Types, OwnTypes, StepTypes
  <2>2. Place(q) /\ synced[q] \subseteq File
    BY <1>1 DEF Base, Types, OwnTypes
  <2>3. Prepares(q)'
    <3>1. Prepares(q)
      BY <2>1 DEF Works
    <3>2. ASSUME NEW f \in trans[q], Prepared(q, f) PROVE Prepared(q, f)'
      BY <1>2, <1>3, <2>1, <3>2 DEF Prepared
    <3>3. QED
      BY <1>2, <1>3, <3>1, <3>2 DEF Prepares
  <2>4. HasMaster(q)'
    BY <1>2, <2>1 DEF Works, HasMaster
  <2>5. Finishes(q)'
    BY <1>2, <1>3, <2>1 DEF Works, Finishes
  <2>6. Writes(q)'
    <3>1. \A f \in synced[q] : disk[f] = {db[f]} => disk'[f] = {db[f]}
      BY <1>2, <2>2
    <3>2. QED
      BY <1>2, <2>1, <3>1 DEF Works, Writes
  <2>7. Restores(q)'
    <3>1. Restores(q)
      BY <2>1 DEF Works
    <3>2. pc[q] = "unlink" => cur[q] \in File
      BY <2>2 DEF Place, Restoring
    <3>3. QED
      BY <1>2, <1>3, <3>1, <3>2 DEF Restores, Playable, Exists
  <2>8. QED
    BY <2>3, <2>4, <2>5, <2>6, <2>7 DEF Works
<1>10. QED
  BY <1>4, <1>5, <1>6, <1>7, <1>8, <1>9 DEF IInv, Contents

\* The power fails, but not right after a recovery.  A file is found as it
\* is, or its journal takes it, and the other files, back to what they
\* contained before the last commit.
LEMMA PowerFailStep ==
  ASSUME ~AfterRollback, IInv, Base', PowerFail
  PROVE  IInv' /\ Maps
<1>1. /\ Base /\ Txns /\ Contents /\ undone = {}
      /\ \A f \in File : db'[f] \in disk[f] /\ disk'[f] = {db'[f]}
      /\ \A f \in File : journal'[f] \in jDisk[f] /\ jDisk'[f] = {journal'[f]}
      /\ \A m \in Master : master'[m] \in mDisk[m] /\ mDisk'[m] = {master'[m]}
      /\ UNCHANGED <<drawn, span, nextTxn>>
      /\ span \in [Txn -> SUBSET File]
      /\ \A p \in Proc :
             /\ pc'[p] = "idle" /\ txn'[p] = 0 /\ trans'[p] = {} /\ synced'[p] = {}
             /\ p \notin rolling' /\ \A f \in File : level'[p][f] = "none"
  BY DEF IInv, Base, Types, HistoryTypes, PowerFail, Dead
<1> DEFINE Back(f) == journal'[f] # Absent /\ Playable(journal[f])'
<1>2. \A f \in File : journal'[f] # Absent =>
          journal'[f].master = NoMaster \/ journal'[f].master \in Master
  BY <1>1, JournalTypes
<1>3. ASSUME NEW f \in File, ~Back(f)
      PROVE  disk[f] = {Store[f]} /\ db'[f] = Store[f] /\ Store'[f] = Store[f]
  <2>1. disk[f] = {Store[f]}
    <3> SUFFICES ASSUME jDisk[f] = {journal[f]}, Certainly(journal[f]) PROVE FALSE
      BY <1>1 DEF Contents, Guarded
    <3>1. journal'[f] = journal[f] /\ journal[f] # Absent
      BY <1>1 DEF Certainly
    <3>2. journal[f].master # NoMaster => master'[journal[f].master] # Absent
      BY <1>1, <1>2, <3>1 DEF Certainly
    <3>3. QED
      BY <1>3, <3>1, <3>2 DEF Playable, Exists
  <2>2. QED
    BY <1>1, <1>3, <2>1, StoreIs
<1>4. ASSUME NEW f \in File, Back(f)
      PROVE  /\ Store'[f] = journal'[f].orig /\ Loses(f, journal'[f])
             /\ journal'[f].master # NoMaster => master'[journal'[f].master] # Absent
  BY <1>1, <1>4, StoreIs DEF Contents, Playable, Exists
<1>5. ASSUME NEW f \in File, NEW t \in Store[f], t \notin Store'[f]
      PROVE  /\ Biggest(t, Store[f]) /\ Store'[f] = Store[f] \ {t}
             /\ \A g \in span[t] : Store'[g] = Store[g] \ {t}
  <2>1. Back(f)
    BY <1>3, <1>5
  <2>2. PICK j : j = journal'[f]
    OBVIOUS
  <2>3. PICK u \in Txn :
            /\ TakesBack(f, j, u)
            /\ IF j.master = NoMaster THEN span[u] = {f}
               ELSE mDisk[j.master] # {Absent} => \A g \in span[u] : g \in undone \/ Lone(g, u, j.master)
    BY <1>4, <1>5, <2>1, <2>2 DEF Loses
  <2>4. u = t /\ Biggest(t, Store[f]) /\ Store'[f] = Store[f] \ {t}
    BY <1>4, <1>5, <2>1, <2>2, <2>3 DEF TakesBack
  <2>5. ASSUME j.master # NoMaster, NEW g \in span[t] PROVE Store'[g] = Store[g] \ {t}
    <3>1. j.master \in Master /\ master'[j.master] # Absent /\ mDisk[j.master] # {Absent}
      BY <1>1, <1>2, <1>4, <2>1, <2>2, <2>5
    <3>2. g \in File /\ Lone(g, t, j.master)
      BY <1>1, <2>3, <2>4, <2>5, <3>1
    <3>3. PICK i \in Journal : jDisk[g] = {i} /\ i.master = j.master /\ TakesBack(g, i, t)
      BY <3>2 DEF Lone
    <3>4. journal'[g] = i /\ i # Absent
      BY <1>1, <3>2, <3>3, AbsentAssumption
    <3>5. Back(g)
      BY <2>5, <3>1, <3>3, <3>4 DEF Playable, Exists
    <3>6. QED
      BY <1>4, <3>2, <3>3, <3>4, <3>5 DEF TakesBack
  <2>6. QED
    BY <2>3, <2>4, <2>5
<1>6. \A f \in File : Store'[f] \subseteq Store[f]
  <2> SUFFICES ASSUME NEW f \in File PROVE Store'[f] \subseteq Store[f]
    OBVIOUS
  <2>1. CASE Back(f)
    BY <1>4, <2>1 DEF Loses, TakesBack
  <2>2. QED
    BY <1>3, <2>1
<1>7. Txns'
  BY <1>1, <1>6, TxnsKept
<1>8. Maps
  <2> DEFINE lost == {t \in Txn : \E f \in File : t \in Store[f] \ Store'[f]}
  <2>1. ASSUME NEW f \in File, NEW t \in lost \cap Store[f]
        PROVE  t \notin Store'[f] /\ Biggest(t, Store[f])
    <3>1. PICK g \in File : t \in Store[g] /\ t \notin Store'[g]
      BY <2>1
    <3>2. f \in span[t]
      BY <1>1, <2>1 DEF Txns
    <3>3. t \notin Store'[f]
      BY <1>5, <3>1, <3>2
    <3>4. QED
      BY <1>5, <2>1, <3>3
  <2>2. \A f \in File : Store'[f] = Store[f] \ lost
    <3> SUFFICES ASSUME NEW f \in File PROVE Store'[f] = Store[f] \ lost
      OBVIOUS
    <3>1. \A t \in Store'[f] : t \in Store[f] /\ t \notin lost
      BY <1>6, <2>1
    <3>2. \A t \in Store[f] : t \in Txn /\ (t \notin Store'[f] => t \in lost)
      BY <1>1 DEF Txns
    <3>3. QED
      BY <3>1, <3>2
  <2>3. Store' = [f \in File |-> Store[f] \ lost]
    <3> HIDE DEF lost
    <3>1. QED
      BY <2>2, StoreFunction
  <2>4. Active' = {}
    BY <1>1, ActiveIs DEF Claim
  <2>5. \A f \in File : \A t \in lost \cap Store[f] : \A u \in Store[f] : u <= t
    BY <2>1 DEF Biggest
  <2>6. lost \in SUBSET Txn /\ UNCHANGED span
    BY <1>1
  <2>7. AtomicStore!PowerFail
    <3> HIDE DEF lost
    <3>1. QED
      BY <2>3, <2>4, <2>5, <2>6 DEF AtomicStore!PowerFail
  <2>8. QED
    BY <2>7 DEF Maps, AtomicStore!Next
<1>9. Reads'
  BY <1>1 DEF Reads
<1>10. ASSUME NEW f \in File PROVE Guarded(f)'
  <2>1. CASE Back(f)
    <3>1. Certainly(journal[f])'
      BY <1>1, <1>2, <1>4, <2>1 DEF Certainly
    <3>2. QED
      BY <1>1, <1>4, <2>1, <3>1 DEF Guarded
  <2>2. CASE ~Back(f)
    BY <1>1, <1>3, <2>2 DEF Guarded
  <2>3. QED
    BY <2>1, <2>2
<1>11. ASSUME NEW f \in File, NEW j \in jDisk'[f] \ {Absent} PROVE Loses(f, j)'
  <2>1. j = journal'[f] /\ j # Absent
    BY <1>1, <1>11
  <2>2. CASE Back(f)
    BY <1>4, <2>1, <2>2 DEF Loses
  <2>3. CASE ~Back(f)
    <3>1. Store'[f] = Store[f] /\ Loses(f, j)
      BY <1>1, <1>3, <2>1, <2>3 DEF Contents
    <3>2. j.master # NoMaster /\ j.master \in Master /\ master'[j.master] = Absent
          /\ mDisk'[j.master] = {Absent}
      BY <1>1, <1>2, <2>1, <2>3 DEF Playable, Exists
    <3>3. CASE j.orig = Store[f]
      BY <3>1, <3>3 DEF Loses
    <3>4. CASE j.orig # Store[f]
      <4>1. PICK t \in Txn : TakesBack(f, j, t)
        BY <3>1, <3>4 DEF Loses
      <4>2. TakesBack(f, j, t)'
        BY <3>1, <4>1 DEF TakesBack
      <4>3. QED
        BY <3>2, <4>2 DEF Loses
    <3>5. QED
      BY <3>3, <3>4
  <2>4. QED
    BY <2>2, <2>3
<1>12. ASSUME NEW p \in Proc PROVE Works(p)'
  <2>1. Writes(p)' /\ Restores(p)'
    BY <1>1 DEF Writes, Restores
  <2>2. QED
    BY <1>1, <2>1, WorksOutside DEF Preparing, InFile
<1>13. QED
  BY <1>7, <1>8, <1>9, <1>10, <1>11, <1>12 DEF IInv, Contents

LEMMA InitIInv ==
  ASSUME Init
  PROVE  IInv /\ AtomicStore!Init
<1>1. Base
  BY InitBase
<1>2. /\ \A f \in File : db[f] = {} /\ disk[f] = {{}} /\ journal[f] = Absent /\ jDisk[f] = {Absent}
      /\ \A t \in Txn : span[t] = {}
      /\ \A p \in Proc : /\ pc[p] = "idle" /\ txn[p] = 0 /\ trans[p] = {} /\ synced[p] = {}
                         /\ \A f \in File : level[p][f] = "none"
      /\ nextTxn = 1
  BY DEF Init
<1>3. \A f \in File : Store[f] = {}
  BY <1>2, StoreIs
<1>4. Txns
  BY <1>2, <1>3 DEF Txns
<1>5. Reads /\ Contents
  <2>1. Reads
    BY <1>2 DEF Reads
  <2>2. \A f \in File : Guarded(f) /\ jDisk[f] \ {Absent} = {}
    BY <1>2, <1>3 DEF Guarded
  <2>3. QED
    BY <2>1, <2>2 DEF Contents
<1>6. \A p \in Proc : Works(p)
  BY <1>2 DEF Works, Prepares, HasMaster, Finishes, Writes, Restores, Preparing, InFile
<1>7. AtomicStore!Init
  <2>1. Store = [f \in File |-> {}]
    BY <1>3 DEF Store
  <2>2. Active = {}
    BY <1>2 DEF Active
  <2>3. QED
    BY <2>1, <2>2 DEF Init, AtomicStore!Init
<1>8. QED
  BY <1>1, <1>4, <1>5, <1>6, <1>7 DEF IInv

LEMMA StutterIInv ==
  ASSUME IInv, UNCHANGED vars
  PROVE  IInv' /\ UNCHANGED <<Store, span, Active>>
<1>1. /\ UNCHANGED <<level, db, disk, undone, journal, jDisk, master, mDisk, drawn, txn, trans,
                     synced, zMaster, pc, cur, todo, rolling, span, nextTxn, failures>>
  BY DEF vars, files, journals, masters, own, history
<1>2. Base'
  BY NextBase DEF IInv
<1>3. Store' = Store /\ Active' = Active
  BY <1>1 DEF Store, Active, Playable, Exists
<1>4. Txns' /\ Reads'
  BY <1>1, <1>3 DEF IInv, Txns, Reads, Quiet
<1>5. Contents'
  <2>1. \A f \in File : Guarded(f) => Guarded(f)'
    BY <1>1, <1>3 DEF Guarded, Certainly
  <2>2. ASSUME NEW f \in File, NEW j \in jDisk[f] \ {Absent}, Loses(f, j) PROVE Loses(f, j)'
    BY <1>1, <1>3, <2>2 DEF Loses, TakesBack, Lone
  <2>3. QED
    BY <1>1, <2>1, <2>2 DEF IInv, Contents
<1>6. ASSUME NEW p \in Proc PROVE Works(p)'
  <2>1. Works(p)
    BY DEF IInv
  <2>2. Prepares(p)'
    <3>1. \A f \in trans[p] : Prepared(p, f) => Prepared(p, f)'
      BY <1>1, <1>3 DEF Prepared
    <3>2. QED
      BY <1>1, <1>3, <2>1, <3>1 DEF Works, Prepares
  <2>3. HasMaster(p)' /\ Finishes(p)' /\ Writes(p)' /\ Restores(p)'
    BY <1>1, <1>3, <2>1 DEF Works, HasMaster, Finishes, Writes, Restores, Playable, Exists
  <2>4. QED
    BY <2>2, <2>3 DEF Works
<1>7. QED
  BY <1>1, <1>2, <1>3, <1>4, <1>5, <1>6 DEF IInv

LEMMA NextMaps ==
  ASSUME ~RetriesBusy, ~AfterRollback, IInv, [Next]_vars
  PROVE  IInv' /\ Maps
<1>1. CASE UNCHANGED vars
  BY <1>1, StutterIInv DEF Maps
<1>2. Base'
  BY NextBase DEF IInv
<1>3. ASSUME NEW p \in Proc, NEW f \in File,
             Read(p, f) \/ Done(p, f) \/ Begin(p, f) \/ NameMaster(p, f) \/ ForgetFile(p, f)
             \/ RollbackFile(p, f) \/ Recover(p, f) \/ NoChild(p, f) \/ Child(p, f)
      PROVE  IInv' /\ Maps
  BY <1>2, <1>3, ReadStep, BeginStep, NameMasterStep, ForgetStep, PlaybackStep
<1>4. ASSUME NEW p \in Proc, NEW f \in File, CommitFile(p, f)
      PROVE  IInv' /\ Maps
  BY <1>2, <1>4, FinishStep, CommitFileStep
<1>5. ASSUME NEW p \in Proc,
             CommitOne(p) \/ CreateMaster(p) \/ SyncMaster(p) \/ SyncJournal(p)
             \/ Exclusive(p) \/ CommitBusy(p) \/ WriteSome(p) \/ WriteAll(p)
             \/ DeleteMaster(p) \/ SyncDirectory(p)
      PROVE  IInv' /\ Maps
  BY <1>2, <1>5, CommitStep, MasterStep, SyncJournalStep, ExclusiveStep, WriteStep, DeleteMasterStep
<1>6. ASSUME NEW p \in Proc,
             Rollback(p) \/ Playback(p) \/ RestoreSome(p) \/ RestoreAll(p) \/ Unlink(p)
             \/ OpenMaster(p) \/ ReadChild(p) \/ DeleteOrphan(p) \/ Crash(p)
      PROVE  IInv' /\ Maps
  BY <1>2, <1>6, PlaybackStep, RestoreStep, UnlinkStep, MasterStep, CrashStep
<1>7. ASSUME NEW f \in File, Settle(f) PROVE IInv' /\ Maps
  BY <1>2, <1>7, SettleStep
<1>8. CASE PowerFail
  BY <1>2, <1>8, PowerFailStep
<1>9. QED
  BY <1>1, <1>3, <1>4, <1>5, <1>6, <1>7, <1>8 DEF Next

-----------------------------------------------------------------------------
(* What holds whether or not a COMMIT is repeated, whenever the power fails. *)

\* The files, journals and master journals are what they can be, the locks of
\* a file are compatible, and a file in a transaction has its lock and its
\* journal, for any processes, files and master journals.
THEOREM MultiFileTypeOK == Spec => []TypeOK
<1>1. Base => TypeOK
  <2> SUFFICES ASSUME Base PROVE TypeOK
    OBVIOUS
  <2> USE DEF Base
  <2>1. level \in [Proc -> [File -> {"none", "shared", "reserved", "exclusive"}]]
    BY DEF Types, OwnTypes, Level
  <2>2. \A f \in File : \A p, q \in Proc :
          /\ level[p][f] = "exclusive" /\ q # p => level[q][f] = "none"
          /\ level[p][f] = "reserved" /\ q # p => level[q][f] \in {"none", "shared"}
    BY DEF Locks
  <2>3. /\ db \in [File -> Content] /\ \A f \in File : disk[f] \subseteq Content
        /\ \A f \in File : {journal[f]} \cup jDisk[f] \subseteq {Absent} \cup Journal
    BY DEF Types, FileTypes
  <2>4. \A m \in Master : {master[m]} \cup mDisk[m] \subseteq {Absent} \cup SUBSET File
    BY DEF Types, MasterTypes
  <2>5. \A p \in Proc : \A f \in trans[p] :
           level[p][f] \in {"reserved", "exclusive"} /\ journal[f] # Absent
    BY DEF Owns, Types, OwnTypes
  <2>6. QED
    BY <2>1, <2>2, <2>3, <2>4, <2>5 DEF TypeOK
<1>2. QED
  BY <1>1, BaseHolds, PTL

\* pager_delmaster(): a journal that names a master journal that exists is
\* one of its children, so that the master journal is kept while the journal
\* needs it; also what a power failure leaves of both.
THEOREM MultiFileKnownToMaster == Spec => []KnownToMaster
<1>1. Base => KnownToMaster
  <2> SUFFICES ASSUME Base, NEW f \in File, journal[f] # Absent, Exists(journal[f].master)
               PROVE  f \in master[journal[f].master]
    BY DEF KnownToMaster
  <2>1. journal[f] \in jDisk[f] /\ journal[f] \in Journal
    BY DEF Base, Current, Types, FileTypes
  <2>2. journal[f].master \in Master
    BY <2>1 DEF Exists, Journal
  <2>3. master[journal[f].master] \in mDisk[journal[f].master]
    BY <2>2 DEF Base, Current
  <2>4. QED
    BY <2>1, <2>3 DEF Base, Named, Exists
<1>2. QED
  BY <1>1, BaseHolds, PTL

-----------------------------------------------------------------------------
(* What holds if no COMMIT is repeated and the power does not fail right    *)
(* after a recovery.                                                        *)

\* A transaction over several files commits in all of them at once, whatever
\* the processes, files and master journals: no crash, power failure,
\* rollback or recovery leaves a part of it (vdbeCommit(), pager_playback()
\* and pager_delmaster()).  Neither hypothesis can be left out: the run
\* multifile_retried shows what a repeated COMMIT does, MCPager_afterRollback
\* what a power failure right after a recovery does to one file.
THEOREM MultiFileImplements ==
  ASSUME ~RetriesBusy, ~AfterRollback
  PROVE  Spec => ImplementsAtomicFiles
<1>1. Init => IInv /\ AtomicStore!Init
  BY InitIInv
<1>2. IInv /\ [Next]_vars => IInv' /\ [AtomicStore!Next]_(AtomicStore!vars)
  BY NextMaps DEF Maps, AtomicStore!vars
<1>3. QED
  BY <1>1, <1>2, PTL DEF Spec, ImplementsAtomicFiles, AtomicStore!Spec

\* A transaction is in all of its files or in none: what vdbeaux.c promises
\* of the master journal (vdbeaux.c:974), under the same hypotheses.
THEOREM MultiFileAllOrNothing ==
  ASSUME ~RetriesBusy, ~AfterRollback
  PROVE  Spec => []AllOrNothing
<1>1. Init => IInv /\ AllOrNothing
  <2> SUFFICES ASSUME Init PROVE IInv /\ AllOrNothing
    OBVIOUS
  <2>1. \A t \in Txn : span[t] = {}
    BY DEF Init
  <2>2. QED
    BY <2>1, InitIInv DEF AllOrNothing
<1>2. IInv /\ AllOrNothing /\ [Next]_vars => IInv' /\ AllOrNothing'
  <2> SUFFICES ASSUME IInv, AllOrNothing, [Next]_vars PROVE IInv' /\ AllOrNothing'
    OBVIOUS
  <2>1. IInv' /\ Maps
    BY NextMaps
  <2>2. /\ \A t \in Txn : span[t] = {} => \A f \in File : t \notin Store[f]
        /\ \A t \in Txn : span[t] \subseteq File
        /\ span \in [Txn -> SUBSET File]
    BY DEF IInv, Base, Types, HistoryTypes, Txns
  <2>3. SUFFICES ASSUME NEW t \in Txn, NEW f \in span'[t], NEW g \in span'[t], t \in Store'[f]
                 PROVE  t \in Store'[g]
    BY <2>1 DEF AllOrNothing
  <2>4. f \in span[t] /\ g \in span[t] => (t \in Store[f] <=> t \in Store[g])
    BY DEF AllOrNothing
  <2>5. CASE UNCHANGED <<Store, span, Active>>
    BY <2>3, <2>4, <2>5
  <2>6. CASE \E u \in Txn, fs \in SUBSET File : AtomicStore!Prepare(u, fs)
    <3>1. PICK u \in Txn, fs \in SUBSET File : AtomicStore!Prepare(u, fs)
      BY <2>6
    <3>2. /\ span[u] = {} /\ span'[u] = fs /\ Store' = Store
          /\ \A v \in Txn \ {u} : span'[v] = span[v]
      BY <2>2, <3>1 DEF AtomicStore!Prepare
    <3>3. t # u
      BY <2>2, <2>3, <3>1, <3>2
    <3>4. QED
      BY <2>3, <2>4, <3>2, <3>3
  <2>7. CASE \E u \in Txn : AtomicStore!Commit(u)
    <3>1. PICK u \in Txn : AtomicStore!Commit(u)
      BY <2>7
    <3>2. /\ span' = span
          /\ \A h \in File : Store'[h] = IF h \in span[u] THEN Store[h] \cup {u} ELSE Store[h]
      BY <3>1 DEF AtomicStore!Commit
    <3>3. f \in File /\ g \in File
      BY <2>2, <3>2
    <3>4. CASE t = u
      BY <3>2, <3>3, <3>4
    <3>5. CASE t # u
      BY <2>3, <2>4, <3>2, <3>3, <3>5
    <3>6. QED
      BY <3>4, <3>5
  <2>8. CASE \E u \in Txn : AtomicStore!Abandon(u)
    <3>1. Store' = Store /\ span' = span
      BY <2>8 DEF AtomicStore!Abandon
    <3>2. QED
      BY <2>3, <2>4, <3>1
  <2>9. CASE AtomicStore!PowerFail
    <3>1. PICK lost \in SUBSET Txn :
              span' = span /\ Store' = [h \in File |-> Store[h] \ lost]
      BY <2>9 DEF AtomicStore!PowerFail
    <3>2. f \in File /\ g \in File
      BY <2>2, <3>1
    <3>3. QED
      BY <2>3, <2>4, <3>1, <3>2
  <2>10. QED
    BY <2>1, <2>5, <2>6, <2>7, <2>8, <2>9 DEF Maps, AtomicStore!Next
<1>3. QED
  BY <1>1, <1>2, PTL DEF Spec
=============================================================================
