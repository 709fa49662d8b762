------------------------- MODULE StmtJournalProofs -------------------------
(***************************************************************************)
(* Machine-checked properties of a write transaction with a statement in   *)
(* it: the journals, the flags of the cache and the two bitmaps agree page *)
(* by page with each other, with the file and with what a rollback has to  *)
(* give back (PageGood), and so the pager implements NestedStore.          *)
(*                                                                         *)
(* The theorems assume that a page moves only to a number whose journal    *)
(* flags fit it (~MovesUnflagged); where pages move to any free number the *)
(* store is broken, as the run stmt_moved shows.                           *)
(***************************************************************************)
EXTENDS StmtJournal, SequenceTheorems, FiniteSetTheorems, TLAPS

Record == [page : Page, data : Value]
FileType == {f \in [page : [Page -> Value \cup {Missing}], size : 0 .. MaxPage] :
                \A g \in Page : f.page[g] = Missing <=> g > f.size}
PagerType ==
    [hdr : [Page -> Header], state : {"shared", "reserved", "exclusive"},
     dbSize : 0 .. MaxPage, dirtyCache : BOOLEAN, journalOpen : BOOLEAN,
     origDbSize : 0 .. MaxPage, needSync : BOOLEAN, journalStarted : BOOLEAN,
     alwaysRollback : BOOLEAN, aInJournal : SUBSET Page, journal : Seq(Record),
     nRec : Nat, stmtAutoopen : BOOLEAN, stmtInUse : BOOLEAN, stmtSize : 0 .. MaxPage,
     aInStmt : SUBSET Page, stmtStart : Nat, stmtJournal : Seq(Record)]

(***************************************************************************)
(* What the journals say, page by page.                                    *)
(***************************************************************************)
CountedOf(md, P) == IF md = "normal" THEN SubSeq(P.journal, 1, P.nRec) ELSE P.journal

InMain(P) == PagesOf(P.journal)
InCounted(md, P) == PagesOf(CountedOf(md, P))
InStmt(P) == PagesOf(StmtRecords(P))
MainSays(P, g) == LastOf(P.journal, g)
CountedSays(md, P, g) == LastOf(CountedOf(md, P), g)
StmtSays(P, g) == LastOf(StmtRecords(P), g)

IsCached(P, g) == P.hdr[g].data # NotCached
StoredIn(f, g) == IF g <= f.size THEN f.page[g] ELSE 0
OnFile(f, g, v) == g <= f.size /\ f.page[g] = v

\* The page whose number was given away by the move under way, until its
\* number waits for the journal, and until it is written again.
Waiting(st) == IF st.call = "move" THEN {st.from} ELSE {}
Gone(st) == IF st.call \in {"move", "root"} THEN {st.from} ELSE {}
Always(P, g) == P.hdr[g].alwaysRollback \/ P.alwaysRollback

-----------------------------------------------------------------------------
Sequences(P) ==
    /\ Once(P.journal) /\ Once(StmtRecords(P))
    /\ P.nRec <= Len(P.journal) /\ P.stmtStart <= Len(P.journal)

\* Without a journal nothing was changed.
NoJournal(f, P, un, fs, mk) ==
    ~P.journalOpen =>
        /\ P.journal = <<>> /\ P.aInJournal = {} /\ P.origDbSize = 0 /\ P.nRec = 0
        /\ \A g \in Page : ~P.hdr[g].dirty /\ ~P.hdr[g].needSync /\ ~P.hdr[g].inJournal
        /\ ~P.stmtInUse /\ ~P.dirtyCache /\ P.state # "exclusive" /\ ~P.needSync
        /\ un = fs.unused

Sizes(f, P, st) ==
    /\ f.size <= P.dbSize
    /\ st.call # "store" => P.origDbSize <= P.dbSize
    /\ P.journalOpen /\ P.state = "reserved" => f.size <= P.origDbSize
    /\ P.state = "exclusive" => P.dirtyCache

\* The flags of a page.
FlagsAt(md, P, un, mk, g) ==
    /\ ~IsCached(P, g) => P.hdr[g] = Absent
    /\ P.hdr[g].dirty => P.dirtyCache
    /\ P.hdr[g].needSync => /\ P.needSync /\ P.hdr[g].inJournal /\ md = "normal"
                            /\ P.hdr[g].dirty \/ (g \in un /\ (mk # NoMark => mk[g] = Unused))

\* A page and the main journal with its bitmap.
BitmapAt(P, fs, g) ==
    /\ g \in InMain(P) => g \in P.aInJournal
    /\ g \in P.aInJournal => g <= P.origDbSize /\ (g \in InMain(P) \/ g \in fs.unused)
    /\ g <= P.origDbSize =>
          /\ P.hdr[g].dirty => g \in P.aInJournal
          /\ IsCached(P, g) => (P.hdr[g].inJournal <=> g \in P.aInJournal)

\* What the main journal and the file say of a page: a record that is not
\* counted is of a page that waits for it, and until the file is written they
\* say the same.
OriginalAt(md, f, P, fs, st, g) ==
    /\ g \in InMain(P) \ InCounted(md, P) =>
          P.needSync /\ (P.hdr[g].needSync \/ g \in Waiting(st))
    /\ g \notin fs.unused /\ g <= P.origDbSize =>
          /\ g \in InMain(P) /\ (P.hdr[g].needSync \/ g \in Waiting(st) \/ P.state = "reserved") =>
                OnFile(f, g, MainSays(P, g))
          /\ g \notin P.aInJournal /\ IsCached(P, g) => OnFile(f, g, P.hdr[g].data)
          /\ g \notin InCounted(md, P) => g <= f.size

\* A page of the free list is in the journal, or was there when the
\* transaction began, or is never left out by dont_rollback().
FreeAt(P, un, lo, fs, mk, st, g) ==
    /\ /\ g \notin lo /\ g <= P.origDbSize
       /\ g \in un \/ (mk # NoMark /\ mk[g] = Unused)
       => g \in fs.unused \/ g \in P.aInJournal \/ Always(P, g)
    /\ mk # NoMark =>
          /\ g \notin un /\ mk[g] = Unused /\ g <= P.origDbSize => g \in P.aInJournal
          /\ g \in lo \ Gone(st) => mk[g] = Unused

\* A page that is not dirty is on the file.
CleanAt(f, P, un, g) ==
    g \notin un /\ g <= P.dbSize /\ ~P.hdr[g].dirty =>
        g <= f.size /\ (IsCached(P, g) => P.hdr[g].data = f.page[g])

\* A page and the statement journal with its bitmap.
StmtBitmapAt(P, mk, g) ==
    P.stmtInUse =>
       /\ g \in InStmt(P) => g \in P.aInStmt
       /\ g \in P.aInStmt =>
             /\ g <= P.stmtSize
             /\ g <= P.origDbSize => g \in P.aInJournal
             /\ g \in InStmt(P) \/ mk[g] = Unused
       /\ g <= P.stmtSize /\ IsCached(P, g) => (P.hdr[g].inStmt <=> g \in P.aInStmt)

\* What the statement is given back: the records since it began, and the pages
\* that have none.
StmtOriginalAt(f, P, un, lo, mk, st, g) ==
    P.stmtInUse =>
       /\ g > P.stmtSize => mk[g] \in {Unused, Missing}
       /\ g <= P.stmtSize /\ mk[g] # Unused =>
             /\ g \in InStmt(P) => StmtSays(P, g) = mk[g]
             /\ g \notin InStmt(P) =>
                   /\ IsCached(P, g) => P.hdr[g].data = mk[g]
                   /\ ~P.hdr[g].dirty => OnFile(f, g, mk[g])
             /\ g \in un \ lo => g \in P.aInStmt \/ Always(P, g)
       /\ g \in InStmt(P) /\ P.state = "reserved" =>
             g \in Gone(st) \/ (IsCached(P, g) /\ P.hdr[g].dirty)

PageGood(md, f, P, un, lo, fs, mk, st, g) ==
    /\ FlagsAt(md, P, un, mk, g)
    /\ BitmapAt(P, fs, g)
    /\ OriginalAt(md, f, P, fs, st, g)
    /\ FreeAt(P, un, lo, fs, mk, st, g)
    /\ CleanAt(f, P, un, g)
    /\ StmtBitmapAt(P, mk, g)
    /\ StmtOriginalAt(f, P, un, lo, mk, st, g)

Lists(P, un, lo, fs) ==
    /\ un \subseteq Page /\ lo \subseteq un /\ 1 \notin un
    /\ fs.unused \subseteq Page /\ fs.lost \subseteq fs.unused /\ 1 \notin fs.unused

\* The last page is on the file or will be.
LastPage(f, P, lo, st) ==
    lo \subseteq Gone(st) =>
        /\ f.size < P.dbSize => P.dbSize \in Gone(st) \/ P.hdr[P.dbSize].dirty
        /\ P.journalOpen /\ st.call # "store" => P.origDbSize <= f.size
        /\ P.stmtInUse /\ P.state = "reserved" /\ P.origDbSize < P.stmtSize =>
              P.stmtSize \in Gone(st) \/ P.hdr[P.stmtSize].dirty

ContentOf(f, P, un, g) ==
    IF g \in un THEN Unused ELSE IF g > P.dbSize THEN Missing
    ELSE IF ~IsCached(P, g) THEN StoredIn(f, g) ELSE P.hdr[g].data

\* Whether there is a statement, and what it needs.
Statement(f, P, un, mk) ==
    /\ mk = NoMark \/ (mk \in [Page -> Value \cup {Unused, Missing}] /\ mk[1] # Unused)
    /\ mk = NoMark => ~P.stmtInUse /\ ~P.stmtAutoopen
    /\ ~P.stmtInUse =>
          /\ P.aInStmt = {} /\ P.stmtJournal = <<>> /\ P.stmtSize = 0 /\ P.stmtStart = 0
          /\ \A g \in Page : ~P.hdr[g].inStmt
    /\ mk # NoMark /\ ~P.stmtInUse =>
          /\ ~P.journalOpen /\ P.stmtAutoopen
          /\ \A g \in Page : mk[g] = ContentOf(f, P, un, g)
    /\ P.stmtInUse => P.origDbSize <= P.stmtSize /\ P.stmtSize <= P.dbSize
    /\ P.state = "shared" => mk = NoMark /\ ~P.journalOpen

\* What the call under way has done.
Logged(P, g) ==
    /\ g \in Page /\ g <= P.dbSize
    /\ g <= P.origDbSize => g \in P.aInJournal
    /\ P.stmtInUse /\ g <= P.stmtSize => g \in P.aInStmt
Doing(md, P, un, lo, mk, st) ==
    /\ st.call \in {"none", "vacuum", "allocated", "move", "root", "tail", "lock", "store"}
    /\ P.state = "shared" => st.call = "none"
    /\ st.call \notin {"none", "vacuum"} => P.journalOpen /\ P.dirtyCache
    /\ st.call \in {"vacuum", "tail", "lock", "store"} => mk = NoMark
    /\ st.call = "allocated" =>
          /\ Logged(P, st.to) /\ st.to \in un \ lo
          /\ st.next \in {"root", "drop", "vacuum"} /\ (st.next # "root" => mk = NoMark)
    /\ st.call = "move" => Logged(P, st.from) /\ st.from \in lo
    /\ st.call = "root" =>
          /\ st.from \in Page /\ st.from <= P.dbSize /\ st.from \in lo
          /\ mk # NoMark => Logged(P, st.from)
    /\ st.call = "move" =>
          /\ ~IsCached(P, st.from) /\ md = "normal"
          /\ \/ st.next = [call |-> "root", from |-> st.from]
             \/ st.next = [call |-> "vacuum", size |-> st.next.size] /\ mk = NoMark
    /\ st.call \in {"tail", "lock"} =>
          st.size \in Page /\ (st.size + 1 .. P.dbSize) \subseteq lo
    /\ st.call = "tail" =>
          /\ st.at \in Nat /\ (st.size + 1 .. st.at - 1) \cap (1 .. P.origDbSize) \subseteq P.aInJournal
    /\ st.call = "lock" => (st.size + 1 .. P.origDbSize) \subseteq P.aInJournal
    /\ st.call \in {"lock", "store"} => ~P.needSync
    /\ st.call = "store" => P.state = "exclusive"

Good(md, f, P, un, lo, fs, mk, st) ==
    /\ P \in PagerType /\ Sequences(P) /\ f \in FileType
    /\ NoJournal(f, P, un, fs, mk)
    /\ Sizes(f, P, st)
    /\ Lists(P, un, lo, fs)
    /\ LastPage(f, P, lo, st)
    /\ Statement(f, P, un, mk)
    /\ Doing(md, P, un, lo, mk, st)
    /\ \A g \in Page : PageGood(md, f, P, un, lo, fs, mk, st, g)

IInv ==
    /\ mode \in Modes /\ last \in Value
    /\ pager.state = "shared" => freeAtStart.unused = unused /\ freeAtStart.lost = lost
    /\ pager.state # "shared" => IsCached(pager, 1)
    /\ Good(mode, file, pager, unused, lost, freeAtStart, mark, step)

-----------------------------------------------------------------------------
(* Journals: sequences of records with at most one for each page.          *)

RecordsOf(s) == {s[i] : i \in DOMAIN s}

\* The record of a page is the last one of the page.
LEMMA RecordOf ==
    ASSUME NEW s \in Seq(Record), Once(s), NEW i \in DOMAIN s
    PROVE  LastOf(s, s[i].page) = s[i].data
<1> DEFINE g == s[i].page
           Latest(k) == s[k].page = g /\ \A j \in DOMAIN s : s[j].page = g => j <= k
           k == CHOOSE k \in DOMAIN s : Latest(k)
<1>1. DOMAIN s = 1 .. Len(s)
  OBVIOUS
<1>2. Latest(i)
  BY <1>1 DEF Once
<1>3. k \in DOMAIN s /\ Latest(k)
  BY <1>2
<1>4. k = i
  BY <1>3 DEF Once
<1> QED
  BY <1>4 DEF LastOf

\* What LastOf() finds is a record of the sequence.
LEMMA RecordIn ==
    ASSUME NEW s \in Seq(Record), Once(s), NEW g \in PagesOf(s)
    PROVE  /\ g \in Page /\ LastOf(s, g) \in Value
           /\ \E i \in DOMAIN s : s[i] = [page |-> g, data |-> LastOf(s, g)]
<1>1. PICK i \in DOMAIN s : s[i].page = g
  BY DEF PagesOf
<1>2. s[i] \in Record
  OBVIOUS
<1>3. LastOf(s, g) = s[i].data
  BY RecordOf, <1>1
<1> QED
  BY <1>1, <1>2, <1>3 DEF Record

\* What a journal with the records of another and one more says.
LEMMA OneMore ==
    ASSUME NEW s \in Seq(Record), Once(s), NEW t \in Seq(Record), Once(t),
           NEW r \in Record,
           RecordsOf(t) = RecordsOf(s) \cup {r}
    PROVE  /\ PagesOf(t) = PagesOf(s) \cup {r.page}
           /\ LastOf(t, r.page) = r.data
           /\ \A g \in PagesOf(s) : LastOf(t, g) = LastOf(s, g)
<1>1. PagesOf(t) \subseteq PagesOf(s) \cup {r.page}
  BY ZenonT(60) DEF PagesOf, RecordsOf
<1>2. PagesOf(s) \subseteq PagesOf(t) /\ r.page \in PagesOf(t)
  BY ZenonT(60) DEF PagesOf, RecordsOf
<1>3. LastOf(t, r.page) = r.data
  <2>1. PICK j \in DOMAIN t : t[j] = r
    BY DEF RecordsOf
  <2> QED
    BY RecordOf, <2>1
<1>4. ASSUME NEW g \in PagesOf(s)
      PROVE  LastOf(t, g) = LastOf(s, g)
  <2>1. PICK i \in DOMAIN s : s[i] = [page |-> g, data |-> LastOf(s, g)]
    BY RecordIn
  <2>2. PICK j \in DOMAIN t : t[j] = s[i]
    BY DEF RecordsOf
  <2>3. LastOf(t, t[j].page) = t[j].data
    BY RecordOf
  <2> QED
    BY <2>1, <2>2, <2>3
<1> QED
  BY <1>1, <1>2, <1>3, <1>4

\* A sequence with one record of each page, when it gets one of another page.
LEMMA Appended ==
    ASSUME NEW s \in Seq(Record), Once(s), NEW r \in Record, r.page \notin PagesOf(s)
    PROVE  LET t == Append(s, r)
           IN  /\ t \in Seq(Record) /\ Once(t) /\ Len(t) = Len(s) + 1
               /\ PagesOf(t) = PagesOf(s) \cup {r.page}
               /\ LastOf(t, r.page) = r.data
               /\ \A g \in PagesOf(s) : LastOf(t, g) = LastOf(s, g)
<1> DEFINE t == Append(s, r)
<1>1. /\ t \in Seq(Record) /\ Len(t) = Len(s) + 1 /\ DOMAIN t = 1 .. Len(s) + 1
      /\ DOMAIN s = 1 .. Len(s) /\ Len(s) \in Nat
      /\ \A i \in 1 .. Len(s) : t[i] = s[i] /\ s[i] \in Record
      /\ t[Len(s) + 1] = r
  OBVIOUS
<1> HIDE DEF t
<1>2. Once(t)
  <2> SUFFICES ASSUME NEW i \in 1 .. Len(s) + 1, NEW j \in 1 .. Len(s) + 1, t[i].page = t[j].page
               PROVE  i = j
    BY <1>1 DEF Once
  <2>1. CASE i = Len(s) + 1 /\ j # i
    BY <2>1, <1>1 DEF PagesOf
  <2>2. CASE j = Len(s) + 1 /\ j # i
    BY <2>2, <1>1 DEF PagesOf
  <2>3. CASE i \in 1 .. Len(s) /\ j \in 1 .. Len(s)
    BY <2>3, <1>1 DEF Once
  <2> QED
    BY <2>1, <2>2, <2>3, <1>1
<1>3. RecordsOf(t) = RecordsOf(s) \cup {r}
  BY <1>1 DEF RecordsOf
<1>6. /\ PagesOf(t) = PagesOf(s) \cup {r.page}
      /\ LastOf(t, r.page) = r.data
      /\ \A g \in PagesOf(s) : LastOf(t, g) = LastOf(s, g)
  BY OneMore, <1>1, <1>2, <1>3
<1> QED
  BY <1>1, <1>2, <1>6 DEF t

\* The first records of a journal.
LEMMA Prefix ==
    ASSUME NEW s \in Seq(Record), Once(s), NEW n \in Nat, n <= Len(s)
    PROVE  LET t == SubSeq(s, 1, n)
           IN  /\ t \in Seq(Record) /\ Once(t) /\ Len(t) = n
               /\ PagesOf(t) \subseteq PagesOf(s)
               /\ \A g \in PagesOf(t) : LastOf(t, g) = LastOf(s, g)
<1> DEFINE t == SubSeq(s, 1, n)
<1>1. /\ t \in Seq(Record) /\ Len(t) = n /\ DOMAIN t = 1 .. n
      /\ DOMAIN s = 1 .. Len(s) /\ Len(s) \in Nat
      /\ \A i \in 1 .. n : t[i] = s[i]
  OBVIOUS
<1> HIDE DEF t
<1>2. Once(t)
  BY <1>1 DEF Once
<1>3. PagesOf(t) \subseteq PagesOf(s)
  BY <1>1 DEF PagesOf
<1>4. ASSUME NEW g \in PagesOf(t)
      PROVE  LastOf(t, g) = LastOf(s, g)
  <2>1. PICK i \in DOMAIN t : t[i] = [page |-> g, data |-> LastOf(t, g)]
    BY RecordIn, <1>1, <1>2
  <2>2. i \in DOMAIN s /\ s[i] = t[i]
    BY <1>1
  <2>3. LastOf(s, s[i].page) = s[i].data
    BY RecordOf, <2>2
  <2> QED
    BY <2>1, <2>2, <2>3
<1> QED
  BY <1>1, <1>2, <1>3, <1>4 DEF t

\* What is appended changes no prefix.
LEMMA PrefixKept ==
    ASSUME NEW s \in Seq(Record), NEW r \in Record, NEW n \in Nat, n <= Len(s)
    PROVE  SubSeq(Append(s, r), 1, n) = SubSeq(s, 1, n)
  OBVIOUS

\* A journal of two parts, when one of them gets another record.
LEMMA SecondAppended ==
    ASSUME NEW a \in Seq(Record), NEW s \in Seq(Record), NEW r \in Record,
           NEW k \in Nat, k <= Len(s)
    PROVE  a \o SubSeq(Append(s, r), k + 1, Len(Append(s, r))) =
               Append(a \o SubSeq(s, k + 1, Len(s)), r)
<1> DEFINE u == SubSeq(s, k + 1, Len(s))
           v == SubSeq(Append(s, r), k + 1, Len(Append(s, r)))
           b == Append(s, r)
           n == Len(s)
<1>1. /\ u \in Seq(Record) /\ Len(u) = n - k
      /\ \A i \in 1 .. n - k : u[i] = s[k + i]
  OBVIOUS
<1>2. /\ b \in Seq(Record) /\ Len(b) = n + 1 /\ n \in Nat
      /\ b[n + 1] = r /\ (\A i \in 1 .. n : b[i] = s[i]) /\ k <= n
  OBVIOUS
<1> HIDE DEF b
<1>5. /\ v \in Seq(Record) /\ Len(v) = n + 1 - k
      /\ \A i \in 1 .. n + 1 - k : v[i] = b[k + i]
  BY <1>2, SMTT(60)
<1> HIDE DEF u, v, n
<1>8. /\ Append(u, r) \in Seq(Record) /\ Len(Append(u, r)) = Len(u) + 1
      /\ \A i \in 1 .. Len(u) : Append(u, r)[i] = u[i]
      /\ Append(u, r)[Len(u) + 1] = r
  BY <1>1
<1>9. (n - k) + 1 = n + 1 - k /\ \A i \in 1 .. n + 1 - k : i \in 1 .. n - k \/ i = n + 1 - k
  BY <1>2
<1>6. /\ Append(u, r) \in Seq(Record) /\ Len(Append(u, r)) = n + 1 - k
      /\ \A i \in 1 .. n - k : Append(u, r)[i] = u[i]
      /\ Append(u, r)[n + 1 - k] = r
  BY <1>1, <1>8, <1>9
<1>7. ASSUME NEW i \in 1 .. n + 1 - k
      PROVE  v[i] = Append(u, r)[i]
  <2>1. CASE i \in 1 .. n - k
    <3>1. k + i \in 1 .. n
      BY <2>1, <1>2
    <3>2. v[i] = b[k + i]
      BY <1>5
    <3>3. u[i] = s[k + i] /\ Append(u, r)[i] = u[i]
      BY <2>1, <1>1, <1>6
    <3>4. b[k + i] = s[k + i]
      BY <3>1, <1>2
    <3> QED
      BY <3>2, <3>3, <3>4
  <2>2. CASE i = n + 1 - k
    <3>1. k + i = n + 1 /\ v[i] = b[k + i]
      BY <2>2, <1>2, <1>5
    <3> QED
      BY <2>2, <3>1, <1>2, <1>6
  <2> QED
    BY <2>1, <2>2, <1>9
<1>3. v = Append(u, r)
  BY <1>5, <1>6, <1>7, SeqEqual
<1> HIDE DEF u, v
<1>4. a \o Append(u, r) = Append(a \o u, r)
  BY <1>1
<1> QED
  BY <1>3, <1>4 DEF u, v, b, n

\* The first of two parts gets another record.
LEMMA FirstAppended ==
    ASSUME NEW a \in Seq(Record), NEW u \in Seq(Record), NEW r \in Record,
           Once(a \o u), r.page \notin PagesOf(a \o u)
    PROVE  LET t == Append(a, r) \o u
           IN  /\ t \in Seq(Record) /\ Once(t)
               /\ PagesOf(t) = PagesOf(a \o u) \cup {r.page}
               /\ LastOf(t, r.page) = r.data
               /\ \A g \in PagesOf(a \o u) : LastOf(t, g) = LastOf(a \o u, g)
<1> DEFINE s == a \o u
           t == Append(a, r) \o u
           m == Len(a)
           n == Len(u)
<1>1. /\ s \in Seq(Record) /\ DOMAIN s = 1 .. m + n
      /\ m \in Nat /\ n \in Nat
      /\ \A i \in 1 .. m : s[i] = a[i]
      /\ \A i \in 1 .. n : s[m + i] = u[i]
  OBVIOUS
<1>2. /\ t \in Seq(Record) /\ DOMAIN t = 1 .. m + 1 + n
      /\ \A i \in 1 .. m : t[i] = a[i]
      /\ t[m + 1] = r
      /\ \A i \in 1 .. n : t[m + 1 + i] = u[i]
  OBVIOUS
<1> HIDE DEF s, t, m, n
<1>3. /\ \A i \in 1 .. m : t[i] = s[i]
      /\ \A i \in m + 2 .. m + 1 + n : t[i] = s[i - 1]
  <2>1. ASSUME NEW i \in m + 2 .. m + 1 + n
        PROVE  t[i] = s[i - 1]
    <3> DEFINE l == i - (m + 1)
    <3>1. l \in 1 .. n /\ i = m + 1 + l /\ i - 1 = m + l
      BY <1>1
    <3>2. t[m + 1 + l] = u[l] /\ s[m + l] = u[l]
      BY <3>1, <1>1, <1>2
    <3> QED
      BY <3>1, <3>2
  <2> QED
    BY <1>1, <1>2, <2>1
<1>4. Once(t)
  <2> SUFFICES ASSUME NEW i \in 1 .. m + 1 + n, NEW j \in 1 .. m + 1 + n, t[i].page = t[j].page, i < j
               PROVE  FALSE
    BY <1>1, <1>2 DEF Once
  <2>1. \A l \in 1 .. m + n : s[l].page # r.page
    BY <1>1 DEF PagesOf, s
  <2>2. \A x, y \in 1 .. m + n : s[x].page = s[y].page => x = y
    BY <1>1 DEF Once, s
  <2>3. CASE i = m + 1
    BY <2>3, <2>1, <1>1, <1>2, <1>3
  <2>4. CASE j = m + 1
    BY <2>4, <2>1, <1>1, <1>2, <1>3
  <2>5. CASE j <= m
    BY <2>5, <2>2, <1>1, <1>3
  <2>6. CASE i <= m /\ j > m + 1
    BY <2>6, <2>2, <1>1, <1>3
  <2>7. CASE i > m + 1
    BY <2>7, <2>2, <1>1, <1>3
  <2>8. i = m + 1 \/ j = m + 1 \/ j <= m \/ (i <= m /\ j > m + 1) \/ i > m + 1
    <3>1. i \in Int /\ j \in Int /\ m \in Int
      BY <1>1
    <3> HIDE DEF m, n
    <3> QED
      BY <3>1
  <2> QED
    BY <2>3, <2>4, <2>5, <2>6, <2>7, <2>8
<1>5. ASSUME NEW i \in 1 .. m + n
      PROVE  \E j \in 1 .. m + 1 + n : t[j] = s[i]
  <2>1. CASE i <= m
    <3>1. i \in 1 .. m /\ i \in 1 .. m + 1 + n
      BY <2>1, <1>1
    <3> QED
      BY <3>1, <1>3
  <2>2. CASE ~(i <= m)
    <3>1. i + 1 \in m + 2 .. m + 1 + n /\ (i + 1) - 1 = i /\ i + 1 \in 1 .. m + 1 + n
      BY <2>2, <1>1
    <3>2. t[i + 1] = s[i]
      BY <3>1, <1>3
    <3> QED
      BY <3>1, <3>2
  <2> QED
    BY <2>1, <2>2
<1>6. ASSUME NEW j \in 1 .. m + 1 + n, j # m + 1
      PROVE  \E i \in 1 .. m + n : t[j] = s[i]
  <2>1. CASE j <= m
    <3>1. j \in 1 .. m /\ j \in 1 .. m + n
      BY <2>1, <1>1
    <3> QED
      BY <3>1, <1>3
  <2>2. CASE ~(j <= m)
    <3>0. j \in m + 2 .. m + 1 + n
      BY <2>2, <1>1, <1>6
    <3>1. j - 1 \in 1 .. m + n /\ t[j] = s[j - 1]
      BY <3>0, <1>1, <1>3
    <3> QED
      BY <3>1
  <2> QED
    BY <2>1, <2>2
<1>7. m + 1 \in 1 .. m + 1 + n
  BY <1>1
<1>8. Once(s)
  BY DEF s
<1>10. RecordsOf(t) = RecordsOf(s) \cup {r}
  <2>1. ASSUME NEW x \in RecordsOf(s)
        PROVE  x \in RecordsOf(t)
    <3>1. PICK i \in 1 .. m + n : x = s[i]
      BY <1>1 DEF RecordsOf
    <3>2. PICK j \in 1 .. m + 1 + n : t[j] = s[i]
      BY <1>5
    <3> QED
      BY <3>1, <3>2, <1>2 DEF RecordsOf
  <2>2. ASSUME NEW x \in RecordsOf(t), x # r
        PROVE  x \in RecordsOf(s)
    <3>1. PICK j \in 1 .. m + 1 + n : x = t[j]
      BY <1>2 DEF RecordsOf
    <3>2. PICK i \in 1 .. m + n : t[j] = s[i]
      BY <1>6, <3>1, <2>2, <1>2
    <3> QED
      BY <3>1, <3>2, <1>1 DEF RecordsOf
  <2>3. r \in RecordsOf(t)
    BY <1>2, <1>7 DEF RecordsOf
  <2> QED
    BY <2>1, <2>2, <2>3
<1>9. /\ PagesOf(t) = PagesOf(s) \cup {r.page}
      /\ LastOf(t, r.page) = r.data
      /\ \A g \in PagesOf(s) : LastOf(t, g) = LastOf(s, g)
  BY OneMore, <1>1, <1>2, <1>4, <1>10, <1>8
<1> QED
  BY <1>2, <1>4, <1>9 DEF s, t

-----------------------------------------------------------------------------
(* What each function of the pager does to the fields of the Pager.        *)

\* Everything but the headers, the size and dirtyCache is as it was.
SameJournals(P, Q) ==
    /\ Q.journal = P.journal /\ Q.nRec = P.nRec
    /\ Q.stmtStart = P.stmtStart /\ Q.stmtJournal = P.stmtJournal
SamePager(P, Q) ==
    /\ Q.state = P.state /\ Q.dbSize = P.dbSize /\ Q.dirtyCache = P.dirtyCache
    /\ Q.journalOpen = P.journalOpen /\ Q.origDbSize = P.origDbSize
    /\ Q.needSync = P.needSync /\ Q.journalStarted = P.journalStarted
    /\ Q.alwaysRollback = P.alwaysRollback /\ Q.aInJournal = P.aInJournal
    /\ Q.stmtAutoopen = P.stmtAutoopen /\ Q.stmtInUse = P.stmtInUse
    /\ Q.stmtSize = P.stmtSize /\ Q.aInStmt = P.aInStmt
    /\ SameJournals(P, Q)

\* What a journal says depends on the journal only.
LEMMA SameSays ==
    ASSUME NEW P, NEW Q, SameJournals(P, Q), NEW md
    PROVE  /\ InMain(Q) = InMain(P) /\ InCounted(md, Q) = InCounted(md, P) /\ InStmt(Q) = InStmt(P)
           /\ \A g : /\ MainSays(Q, g) = MainSays(P, g) /\ StmtSays(Q, g) = StmtSays(P, g)
                     /\ CountedSays(md, Q, g) = CountedSays(md, P, g)
           /\ Sequences(P) => Sequences(Q)
  BY DEF SameJournals, InMain, InCounted, InStmt, MainSays, StmtSays, CountedSays, CountedOf,
         StmtRecords, Sequences

\* A page of the file has a value; past the end it is zero.
LEMMA StoredTyped ==
    ASSUME NEW f \in FileType, NEW g \in Page
    PROVE  StoredIn(f, g) \in Value
  BY BoundAssumption DEF FileType, StoredIn, Value, Missing, Page

\* Headers with the same fields are the same.
LEMMA SameHeader ==
    ASSUME NEW a \in Header, NEW b \in Header,
           a.data = b.data, a.dirty = b.dirty, a.inJournal = b.inJournal,
           a.needSync = b.needSync, a.inStmt = b.inStmt, a.alwaysRollback = b.alwaysRollback
    PROVE  a = b
  BY DEF Header

\* sqlite3pager_get(): what is read changes no page that is cached.
LEMMA GotIs ==
    ASSUME file \in FileType, NEW P \in PagerType, NEW g \in Page
    PROVE  LET Q == Got(P, g)
           IN  /\ Q \in PagerType /\ SamePager(P, Q)
               /\ \A h \in Page \ {g} : Q.hdr[h] = P.hdr[h]
               /\ IsCached(P, g) => Q = P
               /\ IsCached(Q, g)
               /\ ~IsCached(P, g) =>
                     Q.hdr[g] = [data |-> IF g <= P.dbSize THEN StoredIn(file, g) ELSE 0,
                                 dirty |-> FALSE,
                                 inJournal |-> g <= P.origDbSize /\ g \in P.aInJournal,
                                 needSync |-> FALSE,
                                 inStmt |-> g <= P.stmtSize /\ g \in P.aInStmt,
                                 alwaysRollback |-> FALSE]
<1> DEFINE H == [data |-> IF g <= P.dbSize THEN StoredIn(file, g) ELSE 0,
                 dirty |-> FALSE,
                 inJournal |-> g <= P.origDbSize /\ g \in P.aInJournal,
                 needSync |-> FALSE,
                 inStmt |-> g <= P.stmtSize /\ g \in P.aInStmt,
                 alwaysRollback |-> FALSE]
           N == [P EXCEPT !.hdr[g] = H]
<1>1. CASE IsCached(P, g)
  BY <1>1 DEF Got, Cached, IsCached, SamePager, SameJournals
<1>2. CASE ~IsCached(P, g)
  <2>1. StoredIn(file, g) \in Value /\ 0 \in Value /\ NotCached \notin Value
    BY StoredTyped, BoundAssumption DEF Value, NotCached
  <2>2. H \in Header /\ H.data # NotCached
    BY <2>1 DEF Header
  <2>3. Got(P, g) = N
    <3> DEFINE A == [Absent EXCEPT
                        !.data = IF g <= P.dbSize THEN Stored(g) ELSE 0,
                        !.inJournal = g <= P.origDbSize /\ g \in P.aInJournal,
                        !.inStmt = g <= P.stmtSize /\ g \in P.aInStmt]
    <3>1. A \in Header
      BY <2>1 DEF Header, Absent, Stored, StoredIn
    <3>2. A.data = H.data /\ A.inJournal = H.inJournal /\ A.inStmt = H.inStmt
      BY DEF Absent, Stored, StoredIn
    <3>3. A.dirty = H.dirty /\ A.needSync = H.needSync /\ A.alwaysRollback = H.alwaysRollback
      BY DEF Absent
    <3> HIDE DEF H
    <3>4. A = H
      BY <2>2, <3>1, <3>2, <3>3, SameHeader
    <3> QED
      BY <1>2, <3>4 DEF Got, Cached, IsCached
  <2> HIDE DEF H
  <2>4. N \in PagerType /\ SamePager(P, N) /\ N.hdr[g] = H
        /\ \A h \in Page \ {g} : N.hdr[h] = P.hdr[h]
    BY <2>2 DEF PagerType, SamePager, SameJournals
  <2> HIDE DEF N
  <2> QED
    BY <1>2, <2>2, <2>3, <2>4 DEF IsCached, H
<1> QED
  BY <1>1, <1>2

\* sqlite3pager_stmt_begin(), field by field.
LEMMA StmtBegunIs ==
    ASSUME NEW P \in PagerType
    PROVE  LET Q == StmtBegun(P)
           IN  /\ Q \in PagerType /\ Q.hdr = P.hdr
               /\ Q.state = P.state /\ Q.dbSize = P.dbSize /\ Q.dirtyCache = P.dirtyCache
               /\ Q.journalOpen = P.journalOpen /\ Q.origDbSize = P.origDbSize
               /\ Q.needSync = P.needSync /\ Q.journalStarted = P.journalStarted
               /\ Q.alwaysRollback = P.alwaysRollback /\ Q.aInJournal = P.aInJournal
               /\ Q.journal = P.journal /\ Q.nRec = P.nRec /\ Q.stmtJournal = P.stmtJournal
               /\ P.journalOpen =>
                     /\ Q.stmtAutoopen = P.stmtAutoopen /\ Q.stmtInUse /\ Q.aInStmt = {}
                     /\ Q.stmtSize = P.dbSize /\ Q.stmtStart = Len(P.journal)
               /\ ~P.journalOpen =>
                     /\ Q.stmtAutoopen /\ Q.stmtInUse = P.stmtInUse /\ Q.aInStmt = P.aInStmt
                     /\ Q.stmtSize = P.stmtSize /\ Q.stmtStart = P.stmtStart
<1>1. Len(P.journal) \in Nat /\ P.dbSize \in 0 .. MaxPage
  BY DEF PagerType
<1> QED
  BY <1>1 DEF StmtBegun, PagerType

\* sqlite3pager_stmt_commit(), field by field.
LEMMA StmtEndedIs ==
    ASSUME NEW P \in PagerType
    PROVE  LET Q == StmtEnded(P)
           IN  /\ Q \in PagerType
               /\ Q.state = P.state /\ Q.dbSize = P.dbSize /\ Q.dirtyCache = P.dirtyCache
               /\ Q.journalOpen = P.journalOpen /\ Q.origDbSize = P.origDbSize
               /\ Q.needSync = P.needSync /\ Q.journalStarted = P.journalStarted
               /\ Q.alwaysRollback = P.alwaysRollback /\ Q.aInJournal = P.aInJournal
               /\ Q.journal = P.journal /\ Q.nRec = P.nRec
               /\ ~Q.stmtAutoopen /\ ~Q.stmtInUse
               /\ P.stmtInUse =>
                     /\ Q.aInStmt = {} /\ Q.stmtJournal = <<>> /\ Q.stmtSize = 0 /\ Q.stmtStart = 0
                     /\ \A g \in Page : Q.hdr[g] = [P.hdr[g] EXCEPT !.inStmt = FALSE]
               /\ ~P.stmtInUse =>
                     /\ Q.aInStmt = P.aInStmt /\ Q.stmtJournal = P.stmtJournal
                     /\ Q.stmtSize = P.stmtSize /\ Q.stmtStart = P.stmtStart /\ Q.hdr = P.hdr
<1>1. CASE ~P.stmtInUse
  BY <1>1 DEF StmtEnded, PagerType
<1>2. CASE P.stmtInUse
  <2> DEFINE H == [g \in Page |-> [P.hdr[g] EXCEPT !.inStmt = FALSE]]
  <2>1. H \in [Page -> Header] /\ <<>> \in Seq(Record) /\ 0 \in 0 .. MaxPage /\ 0 \in Nat
    <3>1. \A g \in Page : P.hdr[g] \in Header
      BY DEF PagerType
    <3>2. \A h \in Header : [h EXCEPT !.inStmt = FALSE] \in Header
      BY DEF Header
    <3>3. <<>> \in Seq(Record) /\ 0 \in 0 .. MaxPage /\ 0 \in Nat
      BY BoundAssumption
    <3> QED
      BY <3>1, <3>2, <3>3
  <2>2. StmtEnded(P) = [P EXCEPT !.stmtAutoopen = FALSE, !.stmtInUse = FALSE, !.aInStmt = {},
                   !.stmtJournal = <<>>, !.stmtSize = 0, !.stmtStart = 0, !.hdr = H]
    BY <1>2 DEF StmtEnded, PagerType
  <2>3. \A g \in Page : H[g] = [P.hdr[g] EXCEPT !.inStmt = FALSE]
    OBVIOUS
  <2> HIDE DEF H
  <2> QED
    BY <1>2, <2>1, <2>2, <2>3, ZenonT(60) DEF PagerType
<1> QED
  BY <1>1, <1>2 DEF PagerType

\* pager_open_journal(), field by field.
LEMMA JournalOpenedIs ==
    ASSUME NEW P \in PagerType
    PROVE  LET Q == JournalOpened(P)
           IN  /\ Q \in PagerType /\ Q.hdr = P.hdr
               /\ Q.state = P.state /\ Q.dbSize = P.dbSize /\ Q.dirtyCache = P.dirtyCache
               /\ Q.journalOpen /\ Q.origDbSize = P.dbSize
               /\ ~Q.needSync /\ ~Q.journalStarted /\ ~Q.alwaysRollback /\ Q.aInJournal = {}
               /\ Q.journal = <<>> /\ Q.nRec = 0 /\ Q.stmtJournal = P.stmtJournal
               /\ Q.stmtAutoopen = P.stmtAutoopen
               /\ P.stmtAutoopen =>
                     /\ Q.stmtInUse /\ Q.aInStmt = {} /\ Q.stmtSize = P.dbSize /\ Q.stmtStart = 0
               /\ ~P.stmtAutoopen =>
                     /\ Q.stmtInUse = P.stmtInUse /\ Q.aInStmt = P.aInStmt
                     /\ Q.stmtSize = P.stmtSize /\ Q.stmtStart = P.stmtStart
<1> DEFINE O == [P EXCEPT !.journalOpen = TRUE, !.origDbSize = P.dbSize,
                       !.journalStarted = FALSE, !.needSync = FALSE,
                       !.alwaysRollback = FALSE, !.aInJournal = {},
                       !.journal = <<>>, !.nRec = 0]
<1>1. /\ O \in PagerType /\ O.hdr = P.hdr
      /\ O.state = P.state /\ O.dbSize = P.dbSize /\ O.dirtyCache = P.dirtyCache
      /\ O.journalOpen /\ O.origDbSize = P.dbSize
      /\ ~O.needSync /\ ~O.journalStarted /\ ~O.alwaysRollback /\ O.aInJournal = {}
      /\ O.journal = <<>> /\ O.nRec = 0 /\ O.stmtJournal = P.stmtJournal
      /\ O.stmtAutoopen = P.stmtAutoopen /\ O.stmtInUse = P.stmtInUse
      /\ O.aInStmt = P.aInStmt /\ O.stmtSize = P.stmtSize /\ O.stmtStart = P.stmtStart
  <2>1. <<>> \in Seq(Record)
    OBVIOUS
  <2> QED
    BY <2>1 DEF PagerType
<1>2. JournalOpened(P) = IF P.stmtAutoopen THEN StmtBegun(O) ELSE O
  BY DEF JournalOpened
<1> HIDE DEF O
<1>3. CASE P.stmtAutoopen
  <2>1. Len(O.journal) = 0 /\ O.stmtAutoopen \in BOOLEAN /\ O.stmtInUse \in BOOLEAN
    BY <1>1 DEF PagerType
  <2> DEFINE Q == StmtBegun(O)
  <2>2. /\ Q \in PagerType /\ Q.hdr = O.hdr
        /\ Q.state = O.state /\ Q.dbSize = O.dbSize /\ Q.dirtyCache = O.dirtyCache
        /\ Q.journalOpen = O.journalOpen /\ Q.origDbSize = O.origDbSize
        /\ Q.needSync = O.needSync /\ Q.journalStarted = O.journalStarted
        /\ Q.alwaysRollback = O.alwaysRollback /\ Q.aInJournal = O.aInJournal
        /\ Q.journal = O.journal /\ Q.nRec = O.nRec /\ Q.stmtJournal = O.stmtJournal
        /\ Q.stmtAutoopen = O.stmtAutoopen /\ Q.stmtInUse
        /\ Q.aInStmt = {} /\ Q.stmtSize = O.dbSize /\ Q.stmtStart = Len(O.journal)
    BY <1>1, StmtBegunIs
  <2>3. JournalOpened(P) = Q
    BY <1>2, <1>3
  <2> HIDE DEF Q
  <2> QED
    BY <1>1, <1>3, <2>1, <2>2, <2>3
<1>4. CASE ~P.stmtAutoopen
  <2>1. JournalOpened(P) = O /\ O.stmtInUse = P.stmtInUse /\ P.stmtInUse \in BOOLEAN
    BY <1>1, <1>2, <1>4 DEF PagerType
  <2> QED
    BY <1>1, <1>4, <2>1
<1> QED
  BY <1>3, <1>4

\* Fields that sqlite3pager_write() leaves alone once the journal is open.
SameSetting(P, Q) ==
    /\ Q.state = P.state /\ Q.journalOpen = P.journalOpen /\ Q.origDbSize = P.origDbSize
    /\ Q.journalStarted = P.journalStarted /\ Q.alwaysRollback = P.alwaysRollback
    /\ Q.nRec = P.nRec /\ Q.stmtAutoopen = P.stmtAutoopen /\ Q.stmtInUse = P.stmtInUse
    /\ Q.stmtSize = P.stmtSize /\ Q.stmtStart = P.stmtStart

\* A page is put into the main journal, field by field.
LEMMA JournaledIs ==
    ASSUME NEW P \in PagerType, NEW g \in Page, IsCached(P, g), ~P.hdr[g].inJournal
    PROVE  LET Q == Journaled(P, g)
               h == P.hdr[g]
               r == [page |-> g, data |-> h.data]
               old == g <= P.origDbSize
               sync == mode = "normal" /\ (old \/ ~P.journalStarted)
           IN  /\ Q \in PagerType /\ SameSetting(P, Q) /\ r \in Record
               /\ Q.dirtyCache = P.dirtyCache /\ Q.dbSize = P.dbSize
               /\ Q.stmtJournal = P.stmtJournal
               /\ \A i \in Page \ {g} : Q.hdr[i] = P.hdr[i]
               /\ Q.hdr[g].data = h.data /\ Q.hdr[g].dirty = h.dirty
               /\ Q.hdr[g].inJournal /\ Q.hdr[g].alwaysRollback = h.alwaysRollback
               /\ Q.hdr[g].needSync <=> sync
               /\ Q.hdr[g].inStmt <=> h.inStmt \/ (old /\ P.stmtInUse)
               /\ Q.needSync <=> P.needSync \/ sync
               /\ Q.journal = IF old THEN Append(P.journal, r) ELSE P.journal
               /\ Q.aInJournal = IF old THEN P.aInJournal \cup {g} ELSE P.aInJournal
               /\ Q.aInStmt = IF old /\ P.stmtInUse THEN P.aInStmt \cup {g} ELSE P.aInStmt
<1> DEFINE h == P.hdr[g]
           r == [page |-> g, data |-> h.data]
           old == g <= P.origDbSize
           sync == mode = "normal" /\ (old \/ ~P.journalStarted)
           js == IF old THEN Append(P.journal, r) ELSE P.journal
           aj == IF old THEN P.aInJournal \cup {g} ELSE P.aInJournal
           as == IF old /\ P.stmtInUse THEN P.aInStmt \cup {g} ELSE P.aInStmt
           ns == P.needSync \/ sync
           Q == Journaled(P, g)
<1>1. h \in Header
  BY DEF PagerType
<1>2. r \in Record
  BY <1>1 DEF Header, Record, IsCached
<1>4. js \in Seq(Record) /\ aj \in SUBSET Page /\ as \in SUBSET Page /\ ns \in BOOLEAN
  BY <1>2 DEF PagerType
<1>5. Q = [P EXCEPT
              !.hdr[g].inJournal = TRUE, !.hdr[g].needSync = sync,
              !.hdr[g].inStmt = @ \/ (old /\ P.stmtInUse),
              !.needSync = @ \/ sync,
              !.journal = IF old THEN Append(@, r) ELSE @,
              !.aInJournal = IF old THEN @ \cup {g} ELSE @,
              !.aInStmt = IF old /\ P.stmtInUse THEN @ \cup {g} ELSE @]
  BY DEF Journaled
<1> HIDE DEF Q
<1> DEFINE k == [h EXCEPT !.inJournal = TRUE, !.needSync = sync,
                          !.inStmt = @ \/ (old /\ P.stmtInUse)]
<1>8. Q.hdr[g] = k
  BY <1>5 DEF PagerType
<1>3. /\ k \in Header /\ k.data = h.data /\ k.dirty = h.dirty
      /\ k.inJournal /\ k.alwaysRollback = h.alwaysRollback
      /\ k.needSync <=> sync
      /\ k.inStmt <=> h.inStmt \/ (old /\ P.stmtInUse)
  BY <1>1 DEF Header
<1> HIDE DEF k
<1>7. /\ Q.hdr[g].data = h.data /\ Q.hdr[g].dirty = h.dirty
      /\ Q.hdr[g].inJournal /\ Q.hdr[g].alwaysRollback = h.alwaysRollback
      /\ Q.hdr[g].needSync <=> sync
      /\ Q.hdr[g].inStmt <=> h.inStmt \/ (old /\ P.stmtInUse)
      /\ Q.hdr[g] \in Header
  BY <1>3, <1>8
<1> HIDE DEF js, aj, as, ns
<1>6. /\ Q \in PagerType /\ SameSetting(P, Q)
      /\ Q.dirtyCache = P.dirtyCache /\ Q.dbSize = P.dbSize /\ Q.stmtJournal = P.stmtJournal
      /\ \A i \in Page \ {g} : Q.hdr[i] = P.hdr[i]
      /\ Q.needSync = ns /\ Q.journal = js /\ Q.aInJournal = aj /\ Q.aInStmt = as
  BY <1>4, <1>5, <1>7, ZenonT(60) DEF PagerType, SameSetting, js, aj, as, ns
<1> QED
  BY <1>2, <1>6, <1>7 DEF js, aj, as, ns, Q

\* A page is put into the statement journal, field by field.
LEMMA StmtJournaledIs ==
    ASSUME NEW P \in PagerType, NEW g \in Page, IsCached(P, g)
    PROVE  LET Q == StmtJournaled(P, g)
               h == P.hdr[g]
               r == [page |-> g, data |-> h.data]
               stm == P.stmtInUse /\ ~h.inStmt /\ g <= P.stmtSize
           IN  /\ Q \in PagerType /\ SameSetting(P, Q) /\ r \in Record
               /\ Q.dirtyCache = P.dirtyCache /\ Q.dbSize = P.dbSize
               /\ Q.journal = P.journal /\ Q.aInJournal = P.aInJournal
               /\ Q.needSync = P.needSync
               /\ \A i \in Page \ {g} : Q.hdr[i] = P.hdr[i]
               /\ Q.hdr[g].data = h.data /\ Q.hdr[g].dirty = h.dirty
               /\ Q.hdr[g].inJournal = h.inJournal /\ Q.hdr[g].needSync = h.needSync
               /\ Q.hdr[g].alwaysRollback = h.alwaysRollback
               /\ Q.hdr[g].inStmt <=> h.inStmt \/ stm
               /\ Q.stmtJournal = IF stm THEN Append(P.stmtJournal, r) ELSE P.stmtJournal
               /\ Q.aInStmt = IF stm THEN P.aInStmt \cup {g} ELSE P.aInStmt
<1> DEFINE h == P.hdr[g]
           r == [page |-> g, data |-> h.data]
           stm == P.stmtInUse /\ ~h.inStmt /\ g <= P.stmtSize
           k == [h EXCEPT !.inStmt = TRUE]
           Q == [P EXCEPT !.hdr = [P.hdr EXCEPT ![g] = k],
                          !.stmtJournal = Append(P.stmtJournal, r),
                          !.aInStmt = P.aInStmt \cup {g}]
<1>1. h \in Header
  BY DEF PagerType
<1>2. r \in Record
  BY <1>1 DEF Header, Record, IsCached
<1>3. CASE ~stm
  <2>1. StmtJournaled(P, g) = P
    BY <1>3 DEF StmtJournaled
  <2> QED
    BY <1>2, <1>3, <2>1 DEF SameSetting
<1>4. CASE stm
  <2>1. /\ k \in Header /\ k.data = h.data /\ k.dirty = h.dirty
        /\ k.inJournal = h.inJournal /\ k.alwaysRollback = h.alwaysRollback
        /\ k.needSync = h.needSync /\ k.inStmt
    BY <1>1 DEF Header
  <2>2. Append(P.stmtJournal, r) \in Seq(Record) /\ P.aInStmt \cup {g} \in SUBSET Page
    BY <1>2 DEF PagerType
  <2>3. StmtJournaled(P, g) = Q
    BY <1>4 DEF StmtJournaled, PagerType
  <2> HIDE DEF k
  <2>4. /\ Q \in PagerType /\ SameSetting(P, Q)
        /\ Q.dirtyCache = P.dirtyCache /\ Q.dbSize = P.dbSize
        /\ Q.journal = P.journal /\ Q.aInJournal = P.aInJournal /\ Q.needSync = P.needSync
        /\ Q.hdr[g] = k /\ \A i \in Page \ {g} : Q.hdr[i] = P.hdr[i]
        /\ Q.stmtJournal = Append(P.stmtJournal, r) /\ Q.aInStmt = P.aInStmt \cup {g}
    BY <2>1, <2>2 DEF PagerType, SameSetting
  <2> HIDE DEF Q
  <2> QED
    BY <1>2, <1>4, <2>1, <2>3, <2>4
<1> QED
  BY <1>3, <1>4

\* sqlite3pager_write() with an open journal: which journal gets the page
\* and what the flags are afterwards.
LEMMA WrittenIs ==
    ASSUME NEW P \in PagerType, NEW g \in Page, P.journalOpen, IsCached(P, g)
    PROVE  LET Q == Written(P, g)
               h == P.hdr[g]
               r == [page |-> g, data |-> h.data]
               rec == ~h.inJournal /\ g <= P.origDbSize
               sync == ~h.inJournal /\ mode = "normal" /\ (g <= P.origDbSize \/ ~P.journalStarted)
               stm == P.stmtInUse /\ ~h.inStmt /\ ~rec /\ g <= P.stmtSize
           IN  /\ Q \in PagerType /\ SameSetting(P, Q) /\ Q.dirtyCache
               /\ Q.dbSize = IF P.dbSize < g THEN g ELSE P.dbSize
               /\ \A i \in Page \ {g} : Q.hdr[i] = P.hdr[i]
               /\ Q.hdr[g].data = h.data /\ Q.hdr[g].dirty /\ Q.hdr[g].inJournal
               /\ Q.hdr[g].needSync <=> (h.needSync /\ h.inJournal) \/ sync
               /\ Q.hdr[g].inStmt <=> h.inStmt \/ (rec /\ P.stmtInUse) \/ stm
               /\ Q.hdr[g].alwaysRollback = h.alwaysRollback
               /\ Q.needSync <=> P.needSync \/ sync
               /\ r \in Record
               /\ Q.journal = IF rec THEN Append(P.journal, r) ELSE P.journal
               /\ Q.aInJournal = IF rec THEN P.aInJournal \cup {g} ELSE P.aInJournal
               /\ Q.stmtJournal = IF stm THEN Append(P.stmtJournal, r) ELSE P.stmtJournal
               /\ Q.aInStmt = IF (rec /\ P.stmtInUse) \/ stm
                              THEN P.aInStmt \cup {g} ELSE P.aInStmt
<1> DEFINE h == P.hdr[g]
           r == [page |-> g, data |-> h.data]
           old == g <= P.origDbSize
           rec == ~h.inJournal /\ old
           sync == ~h.inJournal /\ mode = "normal" /\ (old \/ ~P.journalStarted)
           stm == P.stmtInUse /\ ~h.inStmt /\ ~rec /\ g <= P.stmtSize
           D == [P EXCEPT !.hdr[g].dirty = TRUE]
           J == Journaled(D, g)
           S == StmtJournaled(J, g)
           W == IF ~h.inJournal \/ (P.stmtInUse /\ ~h.inStmt) THEN S ELSE D
<1>1. h \in Header /\ r \in Record
  <2>1. h \in Header
    BY DEF PagerType
  <2> QED
    BY <2>1 DEF Header, Record, IsCached
<1>2. /\ D \in PagerType /\ SamePager(P, D) /\ \A i \in Page \ {g} : D.hdr[i] = P.hdr[i]
      /\ D.hdr[g] = [h EXCEPT !.dirty = TRUE]
  <2>1. [h EXCEPT !.dirty = TRUE] \in Header
    BY <1>1 DEF Header
  <2>2. D = [P EXCEPT !.hdr = [P.hdr EXCEPT ![g] = [h EXCEPT !.dirty = TRUE]]]
    BY DEF PagerType
  <2> HIDE DEF D
  <2> QED
    BY <2>1, <2>2 DEF PagerType, SamePager, SameJournals
<1>3. Written(P, g) = [W EXCEPT !.dirtyCache = TRUE, !.dbSize = IF @ < g THEN g ELSE @]
  <2>1. Written(P, g) =
           [(IF ~D.hdr[g].inJournal \/ (D.stmtInUse /\ ~D.hdr[g].inStmt)
             THEN StmtJournaled(Journaled(IF D.journalOpen THEN D ELSE JournalOpened(D), g), g)
             ELSE D)
            EXCEPT !.dirtyCache = TRUE, !.dbSize = IF @ < g THEN g ELSE @]
    BY DEF Written
  <2>2. /\ D.hdr[g].inJournal = h.inJournal /\ D.hdr[g].inStmt = h.inStmt
        /\ D.stmtInUse = P.stmtInUse /\ D.journalOpen
    BY <1>1, <1>2 DEF SamePager, Header
  <2> HIDE DEF D
  <2> QED
    BY <2>1, <2>2
<1> HIDE DEF D
<1>4. /\ D.hdr[g].data = h.data /\ D.hdr[g].dirty /\ D.hdr[g].inJournal = h.inJournal
      /\ D.hdr[g].needSync = h.needSync /\ D.hdr[g].inStmt = h.inStmt
      /\ D.hdr[g].alwaysRollback = h.alwaysRollback /\ IsCached(D, g)
  BY <1>1, <1>2 DEF Header, IsCached
<1>5. /\ W \in PagerType /\ SameSetting(P, W) /\ W.dbSize = P.dbSize
      /\ \A i \in Page \ {g} : W.hdr[i] = P.hdr[i]
      /\ W.hdr[g].data = h.data /\ W.hdr[g].dirty /\ W.hdr[g].inJournal
      /\ W.hdr[g].needSync <=> (h.needSync /\ h.inJournal) \/ sync
      /\ W.hdr[g].inStmt <=> h.inStmt \/ (rec /\ P.stmtInUse) \/ stm
      /\ W.hdr[g].alwaysRollback = h.alwaysRollback
      /\ W.needSync <=> P.needSync \/ sync
      /\ W.journal = IF rec THEN Append(P.journal, r) ELSE P.journal
      /\ W.aInJournal = IF rec THEN P.aInJournal \cup {g} ELSE P.aInJournal
      /\ W.stmtJournal = IF stm THEN Append(P.stmtJournal, r) ELSE P.stmtJournal
      /\ W.aInStmt = IF (rec /\ P.stmtInUse) \/ stm THEN P.aInStmt \cup {g} ELSE P.aInStmt
  <2>1. CASE ~h.inJournal
    <3>0. /\ ~D.hdr[g].inJournal /\ D.hdr[g].data = h.data
          /\ [page |-> g, data |-> D.hdr[g].data] = r
      BY <1>4, <2>1
    <3>x. /\ J \in PagerType /\ SameSetting(D, J)
          /\ J.dirtyCache = D.dirtyCache /\ J.dbSize = D.dbSize /\ J.stmtJournal = D.stmtJournal
          /\ \A i \in Page \ {g} : J.hdr[i] = D.hdr[i]
          /\ J.hdr[g].data = D.hdr[g].data /\ J.hdr[g].dirty = D.hdr[g].dirty
          /\ J.hdr[g].inJournal /\ J.hdr[g].alwaysRollback = D.hdr[g].alwaysRollback
          /\ J.hdr[g].needSync <=> mode = "normal" /\ (g <= D.origDbSize \/ ~D.journalStarted)
          /\ J.hdr[g].inStmt <=> D.hdr[g].inStmt \/ (g <= D.origDbSize /\ D.stmtInUse)
          /\ J.needSync <=> (D.needSync \/ (mode = "normal" /\ (g <= D.origDbSize \/ ~D.journalStarted)))
          /\ J.journal = IF g <= D.origDbSize
                         THEN Append(D.journal, [page |-> g, data |-> D.hdr[g].data])
                         ELSE D.journal
          /\ J.aInJournal = IF g <= D.origDbSize THEN D.aInJournal \cup {g} ELSE D.aInJournal
          /\ J.aInStmt = IF g <= D.origDbSize /\ D.stmtInUse
                         THEN D.aInStmt \cup {g} ELSE D.aInStmt
      BY <1>2, <1>4, <3>0, JournaledIs
    <3> HIDE DEF J
    <3>1. /\ J \in PagerType /\ SameSetting(D, J)
          /\ J.dirtyCache = D.dirtyCache /\ J.dbSize = D.dbSize /\ J.stmtJournal = D.stmtJournal
          /\ \A i \in Page \ {g} : J.hdr[i] = D.hdr[i]
          /\ J.hdr[g].data = h.data /\ J.hdr[g].dirty
          /\ J.hdr[g].inJournal /\ J.hdr[g].alwaysRollback = h.alwaysRollback
          /\ J.hdr[g].needSync <=> mode = "normal" /\ (g <= D.origDbSize \/ ~D.journalStarted)
          /\ J.hdr[g].inStmt <=> h.inStmt \/ (g <= D.origDbSize /\ D.stmtInUse)
          /\ J.needSync <=> (D.needSync \/ (mode = "normal" /\ (g <= D.origDbSize \/ ~D.journalStarted)))
          /\ J.journal = IF g <= D.origDbSize THEN Append(D.journal, r) ELSE D.journal
          /\ J.aInJournal = IF g <= D.origDbSize THEN D.aInJournal \cup {g} ELSE D.aInJournal
          /\ J.aInStmt = IF g <= D.origDbSize /\ D.stmtInUse
                         THEN D.aInStmt \cup {g} ELSE D.aInStmt
      BY <1>4, <3>0, <3>x
    <3>2. IsCached(J, g)
      BY <3>1, <1>1, <1>4 DEF IsCached
    <3>3. /\ S \in PagerType /\ SameSetting(J, S)
          /\ S.dirtyCache = J.dirtyCache /\ S.dbSize = J.dbSize
          /\ S.journal = J.journal /\ S.aInJournal = J.aInJournal /\ S.needSync = J.needSync
          /\ \A i \in Page \ {g} : S.hdr[i] = J.hdr[i]
          /\ S.hdr[g].data = J.hdr[g].data /\ S.hdr[g].dirty = J.hdr[g].dirty
          /\ S.hdr[g].inJournal = J.hdr[g].inJournal /\ S.hdr[g].needSync = J.hdr[g].needSync
          /\ S.hdr[g].alwaysRollback = J.hdr[g].alwaysRollback
          /\ S.hdr[g].inStmt <=>
                J.hdr[g].inStmt \/ (J.stmtInUse /\ ~J.hdr[g].inStmt /\ g <= J.stmtSize)
          /\ S.stmtJournal = IF J.stmtInUse /\ ~J.hdr[g].inStmt /\ g <= J.stmtSize
                             THEN Append(J.stmtJournal, [page |-> g, data |-> J.hdr[g].data])
                             ELSE J.stmtJournal
          /\ S.aInStmt = IF J.stmtInUse /\ ~J.hdr[g].inStmt /\ g <= J.stmtSize
                         THEN J.aInStmt \cup {g} ELSE J.aInStmt
      BY <3>1, <3>2, StmtJournaledIs
    <3>4. W = S
      BY <2>1
    <3>5. D.stmtSize = P.stmtSize /\ D.origDbSize = P.origDbSize /\ D.stmtInUse = P.stmtInUse
          /\ D.journalStarted = P.journalStarted /\ D.journal = P.journal
          /\ D.aInJournal = P.aInJournal /\ D.stmtJournal = P.stmtJournal
          /\ D.aInStmt = P.aInStmt /\ D.needSync = P.needSync /\ D.dbSize = P.dbSize
      BY <1>2 DEF SamePager, SameJournals
    <3>6. SameSetting(P, W)
      BY <1>2, <3>1, <3>3, <3>4, ZenonT(60) DEF SameSetting, SamePager, SameJournals
    <3>7. J.stmtInUse = P.stmtInUse /\ J.stmtSize = P.stmtSize
      BY <3>1, <3>5 DEF SameSetting
    <3> HIDE DEF S, W
    <3>8. (J.stmtInUse /\ ~J.hdr[g].inStmt /\ g <= J.stmtSize) <=> stm
      BY <2>1, <3>1, <3>5, <3>7
    <3>9. rec <=> old
      BY <2>1
    <3>10. sync <=> mode = "normal" /\ (old \/ ~P.journalStarted)
      BY <2>1
    <3> HIDE DEF stm, rec, sync
    <3>13. [page |-> g, data |-> J.hdr[g].data] = r
      BY <3>1
    <3>14. /\ rec <=> g <= D.origDbSize
           /\ J.journal = IF rec THEN Append(P.journal, r) ELSE P.journal
           /\ J.aInJournal = IF rec THEN P.aInJournal \cup {g} ELSE P.aInJournal
           /\ J.aInStmt = IF rec /\ P.stmtInUse THEN P.aInStmt \cup {g} ELSE P.aInStmt
      BY <3>1, <3>5, <3>9
    <3>15. /\ S.stmtJournal = IF stm THEN Append(P.stmtJournal, r) ELSE P.stmtJournal
           /\ S.aInStmt = IF stm THEN J.aInStmt \cup {g} ELSE J.aInStmt
      BY <3>1, <3>3, <3>5, <3>8, <3>13
    <3>11. /\ W.journal = IF rec THEN Append(P.journal, r) ELSE P.journal
           /\ W.aInJournal = IF rec THEN P.aInJournal \cup {g} ELSE P.aInJournal
           /\ W.stmtJournal = IF stm THEN Append(P.stmtJournal, r) ELSE P.stmtJournal
           /\ W.aInStmt = IF (rec /\ P.stmtInUse) \/ stm THEN P.aInStmt \cup {g} ELSE P.aInStmt
      BY <3>3, <3>4, <3>14, <3>15
    <3>12. /\ W.hdr[g].needSync <=> (h.needSync /\ h.inJournal) \/ sync
           /\ W.hdr[g].inStmt <=> h.inStmt \/ (rec /\ P.stmtInUse) \/ stm
           /\ W.needSync <=> P.needSync \/ sync
      BY <2>1, <3>1, <3>3, <3>4, <3>5, <3>8, <3>9, <3>10
    <3> QED
      BY <1>2, <3>1, <3>3, <3>4, <3>5, <3>6, <3>11, <3>12, ZenonT(60)
  <2>2. CASE h.inJournal /\ P.stmtInUse /\ ~h.inStmt
    <3>1. /\ J = D /\ W = S
      BY <2>2, <1>4 DEF Journaled
    <3> DEFINE T == StmtJournaled(D, g)
    <3>0. W = T
      BY <3>1
    <3>9. D \in PagerType
      BY <1>2
    <3> HIDE DEF S, W
    <3>2. /\ T \in PagerType /\ SameSetting(D, T)
          /\ T.dirtyCache = D.dirtyCache /\ T.dbSize = D.dbSize
          /\ T.journal = D.journal /\ T.aInJournal = D.aInJournal /\ T.needSync = D.needSync
          /\ \A i \in Page \ {g} : T.hdr[i] = D.hdr[i]
          /\ T.hdr[g].data = D.hdr[g].data /\ T.hdr[g].dirty = D.hdr[g].dirty
          /\ T.hdr[g].inJournal = D.hdr[g].inJournal /\ T.hdr[g].needSync = D.hdr[g].needSync
          /\ T.hdr[g].alwaysRollback = D.hdr[g].alwaysRollback
          /\ T.hdr[g].inStmt <=>
                D.hdr[g].inStmt \/ (D.stmtInUse /\ ~D.hdr[g].inStmt /\ g <= D.stmtSize)
          /\ T.stmtJournal = IF D.stmtInUse /\ ~D.hdr[g].inStmt /\ g <= D.stmtSize
                             THEN Append(D.stmtJournal, [page |-> g, data |-> D.hdr[g].data])
                             ELSE D.stmtJournal
          /\ T.aInStmt = IF D.stmtInUse /\ ~D.hdr[g].inStmt /\ g <= D.stmtSize
                         THEN D.aInStmt \cup {g} ELSE D.aInStmt
      BY <1>4, <3>9, StmtJournaledIs
    <3> HIDE DEF T
    <3>3. D.stmtSize = P.stmtSize /\ D.origDbSize = P.origDbSize /\ D.stmtInUse = P.stmtInUse
          /\ D.journalStarted = P.journalStarted /\ D.journal = P.journal
          /\ D.aInJournal = P.aInJournal /\ D.stmtJournal = P.stmtJournal
          /\ D.aInStmt = P.aInStmt /\ D.needSync = P.needSync /\ D.dbSize = P.dbSize
      BY <1>2 DEF SamePager, SameJournals
    <3>4. SameSetting(P, W)
      BY <1>2, <3>0, <3>2 DEF SameSetting, SamePager, SameJournals
    <3>5. [page |-> g, data |-> D.hdr[g].data] = r
      BY <1>4
    <3>6. ~rec /\ ~sync /\ (stm <=> D.stmtInUse /\ ~D.hdr[g].inStmt /\ g <= D.stmtSize)
      BY <1>4, <2>2, <3>3
    <3> HIDE DEF rec, sync, stm
    <3>7. /\ W.journal = IF rec THEN Append(P.journal, r) ELSE P.journal
          /\ W.aInJournal = IF rec THEN P.aInJournal \cup {g} ELSE P.aInJournal
          /\ W.stmtJournal = IF stm THEN Append(P.stmtJournal, r) ELSE P.stmtJournal
          /\ W.aInStmt = IF (rec /\ P.stmtInUse) \/ stm THEN P.aInStmt \cup {g} ELSE P.aInStmt
      BY <3>0, <3>2, <3>3, <3>5, <3>6
    <3>8. /\ W.hdr[g].needSync <=> (h.needSync /\ h.inJournal) \/ sync
          /\ W.hdr[g].inStmt <=> h.inStmt \/ (rec /\ P.stmtInUse) \/ stm
          /\ W.needSync <=> P.needSync \/ sync
          /\ W.hdr[g].data = h.data /\ W.hdr[g].dirty /\ W.hdr[g].inJournal
          /\ W.hdr[g].alwaysRollback = h.alwaysRollback
      BY <1>4, <2>2, <3>0, <3>2, <3>3, <3>6
    <3> QED
      BY <1>2, <3>0, <3>2, <3>3, <3>4, <3>7, <3>8
  <2>3. CASE h.inJournal /\ ~(P.stmtInUse /\ ~h.inStmt)
    <3>1. W = D
      BY <2>3
    <3> HIDE DEF W
    <3> QED
      BY <1>2, <1>4, <2>3, <3>1 DEF SameSetting, SamePager, SameJournals
  <2> QED
    BY <2>1, <2>2, <2>3
<1> DEFINE n == IF P.dbSize < g THEN g ELSE P.dbSize
           Q == [W EXCEPT !.dirtyCache = TRUE, !.dbSize = n]
<1>6. Written(P, g) = Q
  BY <1>3, <1>5
<1> HIDE DEF W
<1>7. n \in 0 .. MaxPage
  BY BoundAssumption DEF PagerType, Page
<1> HIDE DEF n
<1>8. /\ Q \in PagerType /\ SameSetting(W, Q) /\ Q.dirtyCache /\ Q.dbSize = n
      /\ Q.hdr = W.hdr /\ Q.needSync = W.needSync /\ Q.journal = W.journal
      /\ Q.aInJournal = W.aInJournal /\ Q.stmtJournal = W.stmtJournal /\ Q.aInStmt = W.aInStmt
  BY <1>5, <1>7 DEF PagerType, SameSetting
<1> HIDE DEF Q
<1>9. SameSetting(P, Q)
  BY <1>5, <1>8 DEF SameSetting
<1> QED
  BY <1>1, <1>5, <1>6, <1>8, <1>9 DEF n

\* The caller writes to a page it has.
LEMMA DataSetIs ==
    ASSUME NEW P \in PagerType, NEW g \in Page, NEW v \in Value
    PROVE  LET Q == [P EXCEPT !.hdr[g].data = v]
               h == P.hdr[g]
           IN  /\ Q \in PagerType /\ SamePager(P, Q)
               /\ \A i \in Page \ {g} : Q.hdr[i] = P.hdr[i]
               /\ Q.hdr[g].data = v /\ Q.hdr[g].dirty = h.dirty
               /\ Q.hdr[g].inJournal = h.inJournal /\ Q.hdr[g].needSync = h.needSync
               /\ Q.hdr[g].inStmt = h.inStmt /\ Q.hdr[g].alwaysRollback = h.alwaysRollback
<1> DEFINE h == P.hdr[g]
           k == [h EXCEPT !.data = v]
           Q == [P EXCEPT !.hdr[g].data = v]
<1>1. h \in Header
  BY DEF PagerType
<1>2. k \in Header /\ k.data = v /\ k.dirty = h.dirty /\ k.inJournal = h.inJournal
      /\ k.needSync = h.needSync /\ k.inStmt = h.inStmt /\ k.alwaysRollback = h.alwaysRollback
  BY <1>1 DEF Header
<1>3. Q.hdr[g] = k
  BY DEF PagerType
<1> HIDE DEF k
<1>4. /\ Q \in PagerType /\ SamePager(P, Q) /\ \A i \in Page \ {g} : Q.hdr[i] = P.hdr[i]
  BY <1>2, <1>3 DEF PagerType, SamePager, SameJournals
<1> QED
  BY <1>2, <1>3, <1>4

\* sqlite3pager_dont_write(), field by field.
LEMMA DontWriteIs ==
    ASSUME NEW P \in PagerType, NEW g \in Page
    PROVE  LET Q == DontWrite(P, g)
               h == P.hdr[g]
           IN  /\ Q \in PagerType /\ SamePager(P, Q)
               /\ \A i \in Page \ {g} : Q.hdr[i] = P.hdr[i]
               /\ Q.hdr[g].data = h.data
               /\ Q.hdr[g].dirty <=>
                     h.dirty /\ (P.stmtInUse \/ (P.dbSize = g /\ P.origDbSize < P.dbSize))
               /\ Q.hdr[g].inJournal = h.inJournal /\ Q.hdr[g].needSync = h.needSync
               /\ Q.hdr[g].inStmt = h.inStmt /\ Q.hdr[g].alwaysRollback
<1> DEFINE h == P.hdr[g]
           d == h.dirty /\ (P.stmtInUse \/ (P.dbSize = g /\ P.origDbSize < P.dbSize))
           k == [h EXCEPT !.alwaysRollback = TRUE, !.dirty = d]
           Q == DontWrite(P, g)
<1>1. h \in Header
  BY DEF PagerType
<1>2. k \in Header /\ k.data = h.data /\ (k.dirty <=> d) /\ k.inJournal = h.inJournal
      /\ k.needSync = h.needSync /\ k.inStmt = h.inStmt /\ k.alwaysRollback
  BY <1>1 DEF Header
<1>5. Q = [P EXCEPT !.hdr[g].alwaysRollback = TRUE,
                    !.hdr[g].dirty = @ /\ (P.stmtInUse \/ (P.dbSize = g /\ P.origDbSize < P.dbSize))]
  BY DEF DontWrite
<1> HIDE DEF Q
<1>3. Q.hdr[g] = k
  BY <1>5 DEF PagerType
<1> HIDE DEF k
<1>4. /\ Q \in PagerType /\ SamePager(P, Q) /\ \A i \in Page \ {g} : Q.hdr[i] = P.hdr[i]
  BY <1>2, <1>3, <1>5 DEF PagerType, SamePager, SameJournals
<1> QED
  BY <1>2, <1>3, <1>4 DEF Q

\* sqlite3pager_dont_rollback(), field by field.
LEMMA DontRollbackIs ==
    ASSUME NEW P \in PagerType, NEW g \in Page
    PROVE  LET Q == DontRollback(P, g)
               h == P.hdr[g]
               main == ~h.inJournal /\ g <= P.origDbSize
               stmt == P.stmtInUse /\ ~h.inStmt /\ (main \/ g <= P.stmtSize)
               skip == P.state # "exclusive" \/ ~P.journalOpen \/ h.alwaysRollback \/ P.alwaysRollback
           IN  /\ Q \in PagerType
               /\ skip => Q = P
               /\ ~skip =>
                  /\ SameSetting(P, Q) /\ SameJournals(P, Q) /\ Q.dbSize = P.dbSize
                  /\ Q.dirtyCache = P.dirtyCache /\ Q.needSync = P.needSync
                  /\ \A i \in Page \ {g} : Q.hdr[i] = P.hdr[i]
                  /\ Q.hdr[g].data = h.data /\ Q.hdr[g].dirty = h.dirty
                  /\ Q.hdr[g].inJournal <=> h.inJournal \/ main
                  /\ Q.hdr[g].needSync = h.needSync
                  /\ Q.hdr[g].inStmt <=> h.inStmt \/ stmt
                  /\ Q.hdr[g].alwaysRollback = h.alwaysRollback
                  /\ Q.aInJournal = IF main THEN P.aInJournal \cup {g} ELSE P.aInJournal
                  /\ Q.aInStmt = IF stmt THEN P.aInStmt \cup {g} ELSE P.aInStmt
<1> DEFINE h == P.hdr[g]
           main == ~h.inJournal /\ g <= P.origDbSize
           stmt == P.stmtInUse /\ ~h.inStmt /\ (main \/ g <= P.stmtSize)
           skip == P.state # "exclusive" \/ ~P.journalOpen \/ h.alwaysRollback \/ P.alwaysRollback
           k == [h EXCEPT !.inJournal = @ \/ main, !.inStmt = @ \/ stmt]
           Q == DontRollback(P, g)
<1>1. h \in Header
  BY DEF PagerType
<1>2. CASE skip
  BY <1>2 DEF DontRollback
<1>3. CASE ~skip
  <2>1. k \in Header /\ k.data = h.data /\ k.dirty = h.dirty
        /\ (k.inJournal <=> h.inJournal \/ main) /\ k.needSync = h.needSync
        /\ (k.inStmt <=> h.inStmt \/ stmt) /\ k.alwaysRollback = h.alwaysRollback
    BY <1>1 DEF Header
  <2>2. Q = [P EXCEPT !.hdr[g].inJournal = @ \/ main, !.hdr[g].inStmt = @ \/ stmt,
                      !.aInJournal = IF main THEN @ \cup {g} ELSE @,
                      !.aInStmt = IF stmt THEN @ \cup {g} ELSE @]
    BY <1>3 DEF DontRollback
  <2> HIDE DEF Q, main, stmt
  <2>3. Q.hdr[g] = k
    BY <2>2 DEF PagerType
  <2> HIDE DEF k
  <2>4. /\ Q.aInJournal = IF main THEN P.aInJournal \cup {g} ELSE P.aInJournal
        /\ Q.aInStmt = IF stmt THEN P.aInStmt \cup {g} ELSE P.aInStmt
        /\ Q.aInJournal \in SUBSET Page /\ Q.aInStmt \in SUBSET Page
    BY <2>2 DEF PagerType
  <2>5. /\ SameSetting(P, Q) /\ SameJournals(P, Q)
        /\ \A i \in Page \ {g} : Q.hdr[i] = P.hdr[i]
        /\ Q.dbSize = P.dbSize /\ Q.dirtyCache = P.dirtyCache /\ Q.needSync = P.needSync
    BY <2>2 DEF PagerType, SameSetting, SameJournals
  <2>6. Q.hdr \in [Page -> Header]
    BY <2>1, <2>2, <2>3 DEF PagerType
  <2>7. Q \in PagerType
    BY <2>2, <2>4, <2>6 DEF PagerType
  <2> QED
    BY <1>3, <2>1, <2>3, <2>4, <2>5, <2>7 DEF Q, main, stmt
<1> QED
  BY <1>2, <1>3

\* syncJournal(), field by field.
LEMMA JournalSyncedIs ==
    ASSUME NEW P \in PagerType
    PROVE  LET Q == JournalSynced(P)
           IN  /\ Q \in PagerType /\ ~Q.needSync
               /\ ~P.needSync => Q = P
               /\ P.needSync =>
                  /\ \A g \in Page : Q.hdr[g] = [P.hdr[g] EXCEPT !.needSync = FALSE]
                  /\ Q.nRec = Len(P.journal) /\ Q.journalStarted
                  /\ Q.state = P.state /\ Q.dbSize = P.dbSize /\ Q.dirtyCache = P.dirtyCache
                  /\ Q.journalOpen = P.journalOpen /\ Q.origDbSize = P.origDbSize
                  /\ Q.alwaysRollback = P.alwaysRollback /\ Q.aInJournal = P.aInJournal
                  /\ Q.stmtAutoopen = P.stmtAutoopen /\ Q.stmtInUse = P.stmtInUse
                  /\ Q.stmtSize = P.stmtSize /\ Q.aInStmt = P.aInStmt
                  /\ Q.stmtStart = P.stmtStart /\ Q.journal = P.journal
                  /\ Q.stmtJournal = P.stmtJournal
<1>1. CASE ~P.needSync
  BY <1>1 DEF JournalSynced, PagerType
<1>2. CASE P.needSync
  <2> DEFINE H == [g \in Page |-> [P.hdr[g] EXCEPT !.needSync = FALSE]]
             Q == JournalSynced(P)
  <2>1. \A h \in Header : [h EXCEPT !.needSync = FALSE] \in Header
    BY DEF Header
  <2>2. H \in [Page -> Header] /\ \A g \in Page : H[g] = [P.hdr[g] EXCEPT !.needSync = FALSE]
    BY <2>1 DEF PagerType
  <2>3. Len(P.journal) \in Nat
    BY DEF PagerType
  <2>4. Q = [P EXCEPT !.needSync = FALSE, !.nRec = Len(P.journal), !.journalStarted = TRUE, !.hdr = H]
    BY <1>2 DEF JournalSynced, PagerType
  <2> HIDE DEF H, Q
  <2>5. Q \in PagerType /\ ~Q.needSync /\ Q.hdr = H
        /\ Q.nRec = Len(P.journal) /\ Q.journalStarted
        /\ Q.state = P.state /\ Q.dbSize = P.dbSize /\ Q.dirtyCache = P.dirtyCache
        /\ Q.journalOpen = P.journalOpen /\ Q.origDbSize = P.origDbSize
        /\ Q.alwaysRollback = P.alwaysRollback /\ Q.aInJournal = P.aInJournal
        /\ Q.stmtAutoopen = P.stmtAutoopen /\ Q.stmtInUse = P.stmtInUse
        /\ Q.stmtSize = P.stmtSize /\ Q.aInStmt = P.aInStmt
        /\ Q.stmtStart = P.stmtStart /\ Q.journal = P.journal
        /\ Q.stmtJournal = P.stmtJournal
    BY <2>2, <2>3, <2>4 DEF PagerType
  <2> QED
    BY <1>2, <2>2, <2>5 DEF Q
<1> QED
  BY <1>1, <1>2

\* The header of a page that is not cached is well formed.
LEMMA AbsentTyped ==
    /\ Absent \in Header /\ Absent.data = NotCached
    /\ ~Absent.dirty /\ ~Absent.inJournal /\ ~Absent.needSync
    /\ ~Absent.inStmt /\ ~Absent.alwaysRollback
  BY DEF Absent, Header

\* A page leaves the cache.
LEMMA ForgottenIs ==
    ASSUME NEW P \in PagerType, NEW g \in Page
    PROVE  LET Q == Forgotten(P, g)
           IN  /\ Q \in PagerType /\ Q.hdr[g] = Absent
               /\ \A i \in Page \ {g} : Q.hdr[i] = P.hdr[i]
               /\ Q.alwaysRollback <=> P.alwaysRollback \/ P.hdr[g].alwaysRollback
               /\ Q.state = P.state /\ Q.dbSize = P.dbSize /\ Q.dirtyCache = P.dirtyCache
               /\ Q.journalOpen = P.journalOpen /\ Q.origDbSize = P.origDbSize
               /\ Q.needSync = P.needSync /\ Q.journalStarted = P.journalStarted
               /\ Q.aInJournal = P.aInJournal
               /\ Q.stmtAutoopen = P.stmtAutoopen /\ Q.stmtInUse = P.stmtInUse
               /\ Q.stmtSize = P.stmtSize /\ Q.aInStmt = P.aInStmt
               /\ SameJournals(P, Q)
<1>1. P.hdr[g] \in Header
  BY DEF PagerType
<1>2. P.hdr[g].alwaysRollback \in BOOLEAN
  BY <1>1 DEF Header
<1> QED
  BY <1>2, AbsentTyped DEF Forgotten, PagerType, SameJournals

\* sqlite3pager_movepage(): the headers of the two pages, and nothing else.
LEMMA MovedIs ==
    ASSUME NEW P \in PagerType, NEW g \in Page, NEW h \in Page, g # h
    PROVE  LET Q == Moved(P, g, h)
               sync == IsCached(P, h) /\ P.hdr[h].needSync
           IN  /\ Q \in PagerType /\ Q.hdr[g] = Absent
               /\ \A i \in Page \ {g, h} : Q.hdr[i] = P.hdr[i]
               /\ Q.hdr[h].data = P.hdr[g].data /\ Q.hdr[h].dirty
               /\ Q.hdr[h].inJournal <=> P.hdr[g].inJournal \/ sync
               /\ Q.hdr[h].needSync <=> P.hdr[g].needSync \/ sync
               /\ Q.hdr[h].inStmt = P.hdr[g].inStmt
               /\ Q.hdr[h].alwaysRollback = P.hdr[g].alwaysRollback
               /\ Q.dirtyCache /\ Q.dbSize = P.dbSize /\ SameSetting(P, Q) /\ SameJournals(P, Q)
               /\ Q.needSync = P.needSync /\ Q.aInJournal = P.aInJournal /\ Q.aInStmt = P.aInStmt
<1> DEFINE sync == IsCached(P, h) /\ P.hdr[h].needSync
           k == [P.hdr[g] EXCEPT !.dirty = TRUE, !.inJournal = @ \/ sync, !.needSync = @ \/ sync]
           Q == Moved(P, g, h)
<1>1. P.hdr[g] \in Header
  BY DEF PagerType
<1>2. k \in Header /\ k.data = P.hdr[g].data /\ k.dirty
      /\ (k.inJournal <=> P.hdr[g].inJournal \/ sync) /\ (k.needSync <=> P.hdr[g].needSync \/ sync)
      /\ k.inStmt = P.hdr[g].inStmt /\ k.alwaysRollback = P.hdr[g].alwaysRollback
  BY <1>1 DEF Header
<1>3. Q = [P EXCEPT !.hdr[g] = Absent, !.hdr[h] = k, !.dirtyCache = TRUE]
  BY DEF Moved, Cached, IsCached
<1> HIDE DEF k, Q
<1>4. /\ Q \in PagerType /\ Q.hdr[g] = Absent /\ Q.hdr[h] = k
      /\ \A i \in Page \ {g, h} : Q.hdr[i] = P.hdr[i]
      /\ Q.dirtyCache /\ Q.dbSize = P.dbSize /\ SameSetting(P, Q) /\ SameJournals(P, Q)
      /\ Q.needSync = P.needSync /\ Q.aInJournal = P.aInJournal /\ Q.aInStmt = P.aInStmt
  BY <1>2, <1>3, AbsentTyped DEF PagerType, SameSetting, SameJournals
<1> QED
  BY <1>2, <1>4 DEF Q

\* The number that was given away is read again and waits for the journal.
LEMMA HoldIs ==
    ASSUME file \in FileType, NEW P \in PagerType, NEW g \in Page
    PROVE  LET Q == Hold(P, g)
               G == Got(P, g)
           IN  /\ Q \in PagerType
               /\ \A i \in Page \ {g} : Q.hdr[i] = P.hdr[i]
               /\ Q.hdr[g].data = G.hdr[g].data /\ Q.hdr[g].dirty /\ Q.hdr[g].inJournal
               /\ Q.hdr[g].needSync /\ Q.hdr[g].inStmt = G.hdr[g].inStmt
               /\ Q.hdr[g].alwaysRollback = G.hdr[g].alwaysRollback
               /\ Q.dirtyCache = P.dirtyCache /\ Q.dbSize = P.dbSize
               /\ SameSetting(P, Q) /\ SameJournals(P, Q)
               /\ Q.needSync /\ Q.aInJournal = P.aInJournal /\ Q.aInStmt = P.aInStmt
<1> DEFINE G == Got(P, g)
           k == [G.hdr[g] EXCEPT !.needSync = TRUE, !.inJournal = TRUE, !.dirty = TRUE]
           Q == Hold(P, g)
<1>1. G \in PagerType /\ SamePager(P, G) /\ \A i \in Page \ {g} : G.hdr[i] = P.hdr[i]
  BY GotIs
<1>2. G.hdr[g] \in Header
  BY <1>1 DEF PagerType
<1>3. k \in Header /\ k.data = G.hdr[g].data /\ k.dirty /\ k.inJournal /\ k.needSync
      /\ k.inStmt = G.hdr[g].inStmt /\ k.alwaysRollback = G.hdr[g].alwaysRollback
  BY <1>2 DEF Header
<1>4. Q = [G EXCEPT !.needSync = TRUE, !.hdr[g].needSync = TRUE,
                    !.hdr[g].inJournal = TRUE, !.hdr[g].dirty = TRUE]
  BY DEF Hold
<1> HIDE DEF G, Q
<1>5. Q.hdr[g] = k
  BY <1>1, <1>4 DEF PagerType
<1> HIDE DEF k
<1>7. Q.hdr \in [Page -> Header] /\ \A i \in Page \ {g} : Q.hdr[i] = G.hdr[i]
  <2> DEFINE H == [G.hdr EXCEPT ![g].needSync = TRUE, ![g].inJournal = TRUE, ![g].dirty = TRUE]
  <2>1. G.hdr \in [Page -> Header] /\ Q.hdr = H
    BY <1>1, <1>4 DEF PagerType
  <2>2. DOMAIN H = Page /\ \A i \in Page \ {g} : H[i] = G.hdr[i]
    BY <2>1
  <2>3. \A i \in Page : H[i] \in Header
    BY <2>1, <2>2, <1>3, <1>5
  <2>4. H \in [Page -> Header]
    BY <2>2, <2>3
  <2> QED
    BY <2>1, <2>2, <2>4
<1>8. Q \in PagerType
  BY <1>1, <1>4, <1>7 DEF PagerType
<1>6. /\ \A i \in Page \ {g} : Q.hdr[i] = P.hdr[i]
      /\ Q.dirtyCache = P.dirtyCache /\ Q.dbSize = P.dbSize
      /\ SameSetting(P, Q) /\ SameJournals(P, Q)
      /\ Q.needSync /\ Q.aInJournal = P.aInJournal /\ Q.aInStmt = P.aInStmt
  BY <1>1, <1>4, <1>7 DEF PagerType, SameSetting, SameJournals, SamePager
<1> QED
  BY <1>3, <1>5, <1>6, <1>8 DEF G, Q

-----------------------------------------------------------------------------
(* A step changes few pages: the others are good as they were.             *)

\* What a crash would leave of a page, and what it keeps of all of them.
SafeAt(md, f, P, g) ==
    IF ~P.journalOpen THEN f.page[g] ELSE IF g > P.origDbSize THEN Missing
    ELSE IF g \in InCounted(md, P) THEN CountedSays(md, P, g) ELSE StoredIn(f, g)
SameSafe(md, f, P, e, Q, fs) ==
    \A h \in Page \ fs.unused : SafeAt(md, e, Q, h) = SafeAt(md, f, P, h)
SameContent(f, P, un, e, Q, wn) ==
    \A h \in Page : ContentOf(e, Q, wn, h) = ContentOf(f, P, un, h)

\* Two pagers that agree on a page, and the second of which may be dirtier.
SameAt(md, P, Q, h) ==
    /\ Q.hdr[h] = P.hdr[h]
    /\ h \in Q.aInJournal <=> h \in P.aInJournal
    /\ h \in Q.aInStmt <=> h \in P.aInStmt
    /\ h \in InMain(Q) <=> h \in InMain(P)
    /\ h \in InCounted(md, Q) <=> h \in InCounted(md, P)
    /\ h \in InStmt(Q) <=> h \in InStmt(P)
    /\ h \in InMain(P) => MainSays(Q, h) = MainSays(P, h)
    /\ h \in InCounted(md, P) => CountedSays(md, Q, h) = CountedSays(md, P, h)
    /\ h \in InStmt(P) => StmtSays(Q, h) = StmtSays(P, h)
Dirtier(P, Q) ==
    /\ Q.state = P.state \/ Q.state = "exclusive"
    /\ Q.origDbSize = P.origDbSize /\ Q.journalOpen = P.journalOpen
    /\ Q.stmtInUse = P.stmtInUse /\ Q.stmtSize = P.stmtSize
    /\ P.dirtyCache => Q.dirtyCache
    /\ P.needSync => Q.needSync
    /\ P.alwaysRollback => Q.alwaysRollback

\* A page that a step leaves alone is good as it was.
LEMMA PageFrame ==
    ASSUME NEW md, NEW f, NEW e, NEW P, NEW Q, NEW un, NEW wn, NEW lo, NEW lp, NEW fs, NEW mk,
           NEW st, NEW su, NEW h,
           h <= f.size => h <= e.size /\ e.page[h] = f.page[h],
           Dirtier(P, Q), SameAt(md, P, Q, h),
           h \in wn <=> h \in un, h \in lp <=> h \in lo,
           h \in Waiting(su) <=> h \in Waiting(st), h \in Gone(su) <=> h \in Gone(st),
           h <= Q.dbSize => h <= P.dbSize,
           PageGood(md, f, P, un, lo, fs, mk, st, h)
    PROVE  PageGood(md, e, Q, wn, lp, fs, mk, su, h)
<1>1. FlagsAt(md, Q, wn, mk, h)
  BY DEF PageGood, FlagsAt, SameAt, Dirtier, IsCached
<1>2. BitmapAt(Q, fs, h)
  BY DEF PageGood, BitmapAt, SameAt, Dirtier, IsCached
<1>3. OriginalAt(md, e, Q, fs, su, h)
  BY DEF PageGood, OriginalAt, SameAt, Dirtier, IsCached, OnFile
<1>4. FreeAt(Q, wn, lp, fs, mk, su, h)
  BY DEF PageGood, FreeAt, SameAt, Dirtier, Always
<1>5. CleanAt(e, Q, wn, h)
  BY DEF PageGood, CleanAt, SameAt, Dirtier, IsCached
<1>6. StmtBitmapAt(Q, mk, h)
  BY DEF PageGood, StmtBitmapAt, SameAt, Dirtier, IsCached
<1>7. StmtOriginalAt(e, Q, wn, lp, mk, su, h)
  BY DEF PageGood, StmtOriginalAt, SameAt, Dirtier, IsCached, Always, OnFile
<1> QED
  BY <1>1, <1>2, <1>3, <1>4, <1>5, <1>6, <1>7 DEF PageGood

\* A crash leaves what it left of a page that a step leaves alone.
LEMMA SafeFrame ==
    ASSUME NEW md, NEW f, NEW e, NEW P, NEW Q, NEW h, Dirtier(P, Q), SameAt(md, P, Q, h),
           e.page[h] = f.page[h] \/ P.journalOpen, StoredIn(e, h) = StoredIn(f, h)
    PROVE  SafeAt(md, e, Q, h) = SafeAt(md, f, P, h)
  BY DEF SafeAt, SameAt, Dirtier

\* A step that changes headers only changes no journal.
LEMMA PagerFrame ==
    ASSUME NEW P, NEW Q, SamePager(P, Q), NEW md
    PROVE  /\ Dirtier(P, Q) /\ SameJournals(P, Q)
           /\ \A h : Q.hdr[h] = P.hdr[h] => SameAt(md, P, Q, h)
<1>1. SameJournals(P, Q)
  BY DEF SamePager
<1>2. /\ InMain(Q) = InMain(P) /\ InCounted(md, Q) = InCounted(md, P) /\ InStmt(Q) = InStmt(P)
      /\ \A g : /\ MainSays(Q, g) = MainSays(P, g) /\ StmtSays(Q, g) = StmtSays(P, g)
                /\ CountedSays(md, Q, g) = CountedSays(md, P, g)
  BY <1>1, SameSays
<1> QED
  BY <1>1, <1>2 DEF SamePager, SameAt, Dirtier

\* The numbers and pages of a well-formed state.
LEMMA Numbers ==
    ASSUME NEW P \in PagerType, NEW f \in FileType
    PROVE  /\ P.dbSize \in Nat /\ P.origDbSize \in Nat /\ P.stmtSize \in Nat /\ f.size \in Nat
           /\ P.nRec \in Nat /\ P.stmtStart \in Nat /\ 1 \in Page
           /\ P.dbSize > 0 => P.dbSize \in Page
           /\ P.stmtSize > 0 => P.stmtSize \in Page
           /\ \A g \in Page : g \in Nat /\ g >= 1 /\ P.hdr[g] \in Header
           /\ \A g \in Page : f.page[g] \in Value \cup {Missing} /\ (f.page[g] = Missing <=> g > f.size)
           /\ Missing \notin Value /\ NotCached \notin Value /\ Unused \notin Value /\ 0 \in Value
           /\ Missing # Unused /\ Missing # NotCached
  BY BoundAssumption DEF PagerType, FileType, Page, Value, Missing, NotCached, Unused

\* A record that counts is a record of the journal.
LEMMA CountedIn ==
    ASSUME NEW P \in PagerType, Sequences(P), NEW md
    PROVE  /\ InCounted(md, P) \subseteq InMain(P)
           /\ \A g \in InCounted(md, P) : CountedSays(md, P, g) = MainSays(P, g)
           /\ md # "normal" => InCounted(md, P) = InMain(P)
<1>1. P.journal \in Seq(Record) /\ Once(P.journal) /\ P.nRec \in Nat /\ P.nRec <= Len(P.journal)
  BY DEF PagerType, Sequences
<1>2. /\ PagesOf(SubSeq(P.journal, 1, P.nRec)) \subseteq PagesOf(P.journal)
      /\ \A g \in PagesOf(SubSeq(P.journal, 1, P.nRec)) :
            LastOf(SubSeq(P.journal, 1, P.nRec), g) = LastOf(P.journal, g)
  BY <1>1, Prefix
<1> QED
  BY <1>2 DEF InCounted, InMain, CountedSays, MainSays, CountedOf

\* The parts of the invariant.
LEMMA Unpacked ==
    ASSUME NEW md, NEW f, NEW P, NEW un, NEW lo, NEW fs, NEW mk, NEW st,
           Good(md, f, P, un, lo, fs, mk, st)
    PROVE  /\ P \in PagerType /\ Sequences(P) /\ f \in FileType
           /\ NoJournal(f, P, un, fs, mk) /\ Sizes(f, P, st) /\ Lists(P, un, lo, fs)
           /\ LastPage(f, P, lo, st) /\ Statement(f, P, un, mk) /\ Doing(md, P, un, lo, mk, st)
           /\ \A g \in Page : PageGood(md, f, P, un, lo, fs, mk, st, g)
  BY DEF Good

-----------------------------------------------------------------------------
(* Each function of the pager keeps the invariant.                         *)

\* Reading a page keeps the invariant, what a crash would leave, and the contents.
LEMMA GotGood ==
    ASSUME NEW P, NEW un, NEW lo, NEW fs, NEW mk, NEW st, NEW g \in Page,
           Good(mode, file, P, un, lo, fs, mk, st),
           st.call # "store", g \notin Waiting(st)
    PROVE  LET Q == Got(P, g)
           IN  /\ Good(mode, file, Q, un, lo, fs, mk, st)
               /\ SameSafe(mode, file, P, file, Q, fs)
               /\ SameContent(file, P, un, file, Q, un)
               /\ IsCached(Q, g) /\ \A h \in Page : IsCached(P, h) => IsCached(Q, h)
<1> DEFINE Q == Got(P, g)
<1>1. /\ P \in PagerType /\ Sequences(P) /\ file \in FileType
      /\ NoJournal(file, P, un, fs, mk) /\ Sizes(file, P, st) /\ Lists(P, un, lo, fs)
      /\ LastPage(file, P, lo, st) /\ Statement(file, P, un, mk) /\ Doing(mode, P, un, lo, mk, st)
      /\ \A h \in Page : PageGood(mode, file, P, un, lo, fs, mk, st, h)
  BY Unpacked
<1>0. /\ P.dbSize \in Nat /\ P.origDbSize \in Nat /\ P.stmtSize \in Nat /\ file.size \in Nat
      /\ \A h \in Page : h \in Nat
      /\ Missing \notin Value /\ NotCached \notin Value /\ 1 \in Page
      /\ P.dbSize > 0 => P.dbSize \in Page
      /\ P.stmtSize > 0 => P.stmtSize \in Page
      /\ InCounted(mode, P) \subseteq InMain(P)
  BY <1>1, Numbers, CountedIn
<1>2. /\ Q \in PagerType /\ SamePager(P, Q) /\ SameJournals(P, Q)
      /\ \A h \in Page \ {g} : Q.hdr[h] = P.hdr[h]
      /\ IsCached(P, g) => Q = P
      /\ IsCached(Q, g)
  BY <1>1, GotIs, ZenonT(60) DEF SamePager
<1>3. CASE IsCached(P, g)
  BY <1>2, <1>3 DEF SameSafe, SameContent
<1>4. CASE ~IsCached(P, g)
  <2>0. Q.hdr[g] = [data |-> IF g <= P.dbSize THEN StoredIn(file, g) ELSE 0,
                    dirty |-> FALSE,
                    inJournal |-> g <= P.origDbSize /\ g \in P.aInJournal,
                    needSync |-> FALSE,
                    inStmt |-> g <= P.stmtSize /\ g \in P.aInStmt,
                    alwaysRollback |-> FALSE]
    BY <1>1, <1>4, GotIs
  <2>31. /\ Q.hdr[g].data = IF g <= P.dbSize THEN StoredIn(file, g) ELSE 0
         /\ ~Q.hdr[g].dirty /\ ~Q.hdr[g].needSync /\ ~Q.hdr[g].alwaysRollback
    BY <2>0
  <2>32. Q.hdr[g].inJournal = (g <= P.origDbSize /\ g \in P.aInJournal)
    BY <2>0
  <2>33. Q.hdr[g].inStmt = (g <= P.stmtSize /\ g \in P.aInStmt)
    BY <2>0
  <2>1. /\ Q.hdr[g].data = IF g <= P.dbSize THEN StoredIn(file, g) ELSE 0
        /\ ~Q.hdr[g].dirty /\ ~Q.hdr[g].needSync /\ ~Q.hdr[g].alwaysRollback
        /\ Q.hdr[g].inJournal <=> g <= P.origDbSize /\ g \in P.aInJournal
        /\ Q.hdr[g].inStmt <=> g <= P.stmtSize /\ g \in P.aInStmt
    BY <2>31, <2>32, <2>33
  <2>2. P.hdr[g] = Absent
    BY <1>1, <1>4 DEF PageGood, FlagsAt
  <2>3. /\ Sequences(Q) /\ Dirtier(P, Q)
        /\ \A h \in Page \ {g} : SameAt(mode, P, Q, h)
        /\ InMain(Q) = InMain(P) /\ InCounted(mode, Q) = InCounted(mode, P) /\ InStmt(Q) = InStmt(P)
        /\ MainSays(Q, g) = MainSays(P, g) /\ StmtSays(Q, g) = StmtSays(P, g)
        /\ CountedSays(mode, Q, g) = CountedSays(mode, P, g)
    BY <1>1, <1>2, PagerFrame, SameSays
  <2>5. /\ Q.state = P.state /\ Q.dbSize = P.dbSize /\ Q.dirtyCache = P.dirtyCache
        /\ Q.journalOpen = P.journalOpen /\ Q.origDbSize = P.origDbSize
        /\ Q.needSync = P.needSync /\ Q.alwaysRollback = P.alwaysRollback
        /\ Q.aInJournal = P.aInJournal /\ Q.journal = P.journal /\ Q.nRec = P.nRec
        /\ Q.stmtAutoopen = P.stmtAutoopen /\ Q.stmtInUse = P.stmtInUse
        /\ Q.stmtSize = P.stmtSize /\ Q.aInStmt = P.aInStmt
        /\ Q.stmtStart = P.stmtStart /\ Q.stmtJournal = P.stmtJournal
    BY <1>2 DEF SamePager, SameJournals
  <2>6. /\ \A h \in Page \ {g} : Q.hdr[h] = P.hdr[h]
        /\ IsCached(Q, g) /\ Q \in PagerType
    BY <1>2
  <2>7. /\ ~P.hdr[g].dirty /\ ~P.hdr[g].needSync /\ ~P.hdr[g].inJournal
        /\ ~P.hdr[g].inStmt /\ ~P.hdr[g].alwaysRollback
    BY <2>2, AbsentTyped
  <2> HIDE DEF Q
  <2>8. \A h \in Page : ContentOf(file, Q, un, h) = ContentOf(file, P, un, h)
    BY <1>0, <1>4, <2>1, <2>5, <2>6 DEF ContentOf, IsCached
  <2>9. \A h \in Page : SafeAt(mode, file, Q, h) = SafeAt(mode, file, P, h)
    BY <2>3, <2>5, SafeFrame DEF SafeAt
  <2>10. NoJournal(file, Q, un, fs, mk)
    BY <1>1, <2>1, <2>5, <2>6 DEF NoJournal
  <2>11. Sizes(file, Q, st)
    BY <1>1, <2>5 DEF Sizes
  <2>12. Lists(Q, un, lo, fs)
    BY <1>1 DEF Lists
  <2>13. LastPage(file, Q, lo, st)
    BY <1>0, <1>1, <2>1, <2>5, <2>6, <2>7 DEF LastPage
  <2>14. Statement(file, Q, un, mk)
    BY <1>1, <2>1, <2>5, <2>6, <2>7, <2>8 DEF Statement
  <2>15. Doing(mode, Q, un, lo, mk, st)
    BY <1>1, <2>5, <2>6 DEF Doing, Logged, Waiting, IsCached
  <2>16. ASSUME NEW h \in Page \ {g}
         PROVE  PageGood(mode, file, Q, un, lo, fs, mk, st, h)
    BY <1>1, <2>3, <2>5, PageFrame
  <2> DEFINE G == PageGood(mode, file, P, un, lo, fs, mk, st, g)
  <2>17. G
    BY <1>1
  <2>20. FlagsAt(mode, Q, un, mk, g)
    BY <2>1, <2>6 DEF FlagsAt
  <2>21. BitmapAt(Q, fs, g)
    BY <1>0, <2>1, <2>3, <2>5, <2>17 DEF PageGood, BitmapAt
  <2>22. OriginalAt(mode, file, Q, fs, st, g)
    BY <1>0, <1>1, <2>21, <2>1, <2>3, <2>5, <2>7, <2>17 DEF PageGood, BitmapAt, OriginalAt, Sizes, OnFile, StoredIn
  <2>23. FreeAt(Q, un, lo, fs, mk, st, g)
    BY <2>1, <2>5, <2>7, <2>17 DEF PageGood, FreeAt, Always
  <2>24. CleanAt(file, Q, un, g)
    BY <1>0, <2>1, <2>5, <2>7, <2>17 DEF PageGood, CleanAt, StoredIn
  <2>25. StmtBitmapAt(Q, mk, g)
    BY <1>0, <2>1, <2>3, <2>5, <2>17 DEF PageGood, StmtBitmapAt
  <2>26. StmtOriginalAt(file, Q, un, lo, mk, st, g)
    BY <1>0, <1>1, <1>4, <2>1, <2>3, <2>5, <2>7, <2>17 DEF PageGood, StmtOriginalAt, Statement, OnFile, StoredIn, Always
  <2>27. PageGood(mode, file, Q, un, lo, fs, mk, st, g)
    BY <2>20, <2>21, <2>22, <2>23, <2>24, <2>25, <2>26 DEF PageGood
  <2> QED
    BY <1>1, <2>3, <2>6, <2>8, <2>9, <2>10, <2>11, <2>12, <2>13, <2>14, <2>15, <2>16, <2>27
    DEF Good, Q, SameSafe, SameContent, IsCached
<1> QED
  BY <1>3, <1>4

\* What a page may contain; only a page of the free list is unused, and only
\* a page past the end is missing.
LEMMA ContentIs ==
    ASSUME NEW P \in PagerType, NEW f \in FileType, NEW un, NEW g \in Page
    PROVE  /\ ContentOf(f, P, un, g) \in Value \cup {Unused, Missing}
           /\ ContentOf(f, P, un, g) = Unused <=> g \in un
           /\ ContentOf(f, P, un, g) = Missing <=> g \notin un /\ g > P.dbSize
<1>1. /\ P.hdr[g] \in Header /\ Missing \notin Value /\ Unused \notin Value
      /\ Missing # Unused /\ P.dbSize \in Nat /\ g \in Nat
  BY Numbers
<1>2. StoredIn(f, g) \in Value
  BY StoredTyped
<1>3. IsCached(P, g) => P.hdr[g].data \in Value
  BY <1>1 DEF IsCached, Header
<1> QED
  BY <1>1, <1>2, <1>3 DEF ContentOf

\* Opening the journal keeps the invariant: nothing was changed before.
LEMMA JournalOpenedGood ==
    ASSUME NEW f, NEW P, NEW un, NEW lo, NEW fs, NEW mk, NEW st,
           Good(mode, f, P, un, lo, fs, mk, st),
           ~P.journalOpen, P.state # "shared"
    PROVE  LET Q == JournalOpened(P)
           IN  /\ Good(mode, f, Q, un, lo, fs, mk, st)
               /\ SameSafe(mode, f, P, f, Q, fs)
               /\ SameContent(f, P, un, f, Q, un)
               /\ Q.hdr = P.hdr /\ Q.dbSize = P.dbSize /\ Q.journalOpen
<1> DEFINE Q == JournalOpened(P)
<1>1. /\ P \in PagerType /\ Sequences(P) /\ f \in FileType
      /\ NoJournal(f, P, un, fs, mk) /\ Sizes(f, P, st) /\ Lists(P, un, lo, fs)
      /\ LastPage(f, P, lo, st) /\ Statement(f, P, un, mk) /\ Doing(mode, P, un, lo, mk, st)
      /\ \A h \in Page : PageGood(mode, f, P, un, lo, fs, mk, st, h)
  BY Unpacked
<1>2. /\ P.dbSize \in Nat /\ P.origDbSize \in Nat /\ P.stmtSize \in Nat /\ f.size \in Nat
      /\ \A h \in Page : h \in Nat /\ (f.page[h] = Missing <=> h > f.size)
      /\ P.dbSize > 0 => P.dbSize \in Page
  BY <1>1, Numbers
<1>3. /\ P.journal = <<>> /\ P.aInJournal = {} /\ P.origDbSize = 0 /\ P.nRec = 0
      /\ \A g \in Page : ~P.hdr[g].dirty /\ ~P.hdr[g].needSync /\ ~P.hdr[g].inJournal
      /\ ~P.stmtInUse /\ P.state = "reserved" /\ un = fs.unused /\ ~P.needSync
  BY <1>1 DEF NoJournal, PagerType
<1>4. /\ P.aInStmt = {} /\ P.stmtJournal = <<>> /\ P.stmtSize = 0 /\ P.stmtStart = 0
      /\ \A g \in Page : ~P.hdr[g].inStmt
      /\ mk = NoMark => ~P.stmtAutoopen
      /\ mk # NoMark => P.stmtAutoopen /\ \A g \in Page : mk[g] = ContentOf(f, P, un, g)
  BY <1>1, <1>3 DEF Statement
<1>5. /\ Q \in PagerType /\ Q.hdr = P.hdr
      /\ Q.state = P.state /\ Q.dbSize = P.dbSize /\ Q.dirtyCache = P.dirtyCache
      /\ Q.journalOpen /\ Q.origDbSize = P.dbSize
      /\ ~Q.needSync /\ ~Q.journalStarted /\ ~Q.alwaysRollback /\ Q.aInJournal = {}
      /\ Q.journal = <<>> /\ Q.nRec = 0 /\ Q.stmtJournal = <<>>
      /\ Q.stmtAutoopen = P.stmtAutoopen
      /\ P.stmtAutoopen =>
            /\ Q.stmtInUse /\ Q.aInStmt = {} /\ Q.stmtSize = P.dbSize /\ Q.stmtStart = 0
      /\ ~P.stmtAutoopen =>
            /\ Q.stmtInUse = P.stmtInUse /\ Q.aInStmt = P.aInStmt
            /\ Q.stmtSize = P.stmtSize /\ Q.stmtStart = P.stmtStart
  BY <1>1, <1>4, JournalOpenedIs
<1> HIDE DEF Q
<1>6. Q.stmtStart = 0 /\ Q.aInStmt = {} /\ (Q.stmtInUse <=> mk # NoMark)
      /\ (Q.stmtInUse => Q.stmtSize = P.dbSize) /\ (~Q.stmtInUse => Q.stmtSize = 0)
  BY <1>3, <1>4, <1>5
<1>7. st.call \in {"none", "vacuum"} /\ Gone(st) = {} /\ Waiting(st) = {}
  BY <1>1 DEF Doing, Gone, Waiting
<1>8. StmtRecords(Q) = <<>>
  BY <1>5, <1>6 DEF StmtRecords
<1>9. InMain(Q) = {} /\ InCounted(mode, Q) = {} /\ InStmt(Q) = {} /\ Sequences(Q)
  <2>1. PagesOf(<<>>) = {} /\ Once(<<>>) /\ SubSeq(<<>>, 1, 0) = <<>> /\ Len(<<>>) = 0
    BY DEF PagesOf, Once
  <2>2. CountedOf(mode, Q) = <<>>
    BY <1>5, <2>1 DEF CountedOf
  <2>3. InMain(Q) = {} /\ InCounted(mode, Q) = {} /\ InStmt(Q) = {}
    BY <1>5, <1>8, <2>1, <2>2 DEF InMain, InCounted, InStmt
  <2>4. Sequences(Q)
    BY <1>5, <1>6, <1>8, <2>1 DEF Sequences
  <2> QED
    BY <2>3, <2>4
<1>10. ASSUME NEW h \in Page
       PROVE  ContentOf(f, Q, un, h) = ContentOf(f, P, un, h)
  BY <1>5 DEF ContentOf, IsCached
<1>11. ASSUME NEW h \in Page
       PROVE  /\ mk # NoMark => (mk[h] = Unused <=> h \in un)
                             /\ (h > P.dbSize => mk[h] \in {Unused, Missing})
  BY <1>1, <1>4, ContentIs
<1>12. ASSUME NEW h \in Page, h \notin un, h <= P.dbSize
       PROVE  /\ h <= f.size /\ (IsCached(P, h) => P.hdr[h].data = f.page[h])
              /\ mk # NoMark => mk[h] = f.page[h]
  <2>1. h <= f.size /\ (IsCached(P, h) => P.hdr[h].data = f.page[h])
    BY <1>1, <1>3, <1>12 DEF PageGood, CleanAt
  <2> QED
    BY <1>2, <1>4, <1>12, <2>1 DEF ContentOf, StoredIn
<1>13. ASSUME NEW h \in Page \ fs.unused
       PROVE  SafeAt(mode, f, Q, h) = SafeAt(mode, f, P, h)
  BY <1>1, <1>2, <1>3, <1>5, <1>9, <1>12 DEF SafeAt, StoredIn, Sizes
<1>20. NoJournal(f, Q, un, fs, mk)
  BY <1>5 DEF NoJournal
<1>21. lo \subseteq Gone(st) => f.size = P.dbSize
  BY <1>1, <1>2, <1>3, <1>7 DEF LastPage, Sizes, Lists
<1>22. Sizes(f, Q, st)
  BY <1>1, <1>2, <1>3, <1>5 DEF Sizes
<1>23. LastPage(f, Q, lo, st)
  BY <1>2, <1>5, <1>6, <1>21 DEF LastPage
<1>24. Statement(f, Q, un, mk)
  BY <1>1, <1>2, <1>4, <1>5, <1>6, <1>11 DEF Statement
<1>25. Doing(mode, Q, un, lo, mk, st)
  BY <1>1, <1>5, <1>7 DEF Doing
<1>26. ASSUME NEW h \in Page
       PROVE  PageGood(mode, f, Q, un, lo, fs, mk, st, h)
  <2>1. FlagsAt(mode, Q, un, mk, h)
    BY <1>1, <1>3, <1>5 DEF PageGood, FlagsAt, IsCached
  <2>2. BitmapAt(Q, fs, h)
    BY <1>3, <1>5, <1>9 DEF BitmapAt
  <2>3. OriginalAt(mode, f, Q, fs, st, h)
    BY <1>3, <1>5, <1>9, <1>12 DEF OriginalAt, OnFile, IsCached
  <2>4. FreeAt(Q, un, lo, fs, mk, st, h)
    BY <1>1, <1>3, <1>5, <1>11 DEF PageGood, FreeAt
  <2>5. CleanAt(f, Q, un, h)
    BY <1>1, <1>5 DEF PageGood, CleanAt, IsCached
  <2>6. StmtBitmapAt(Q, mk, h)
    BY <1>4, <1>5, <1>6, <1>9 DEF StmtBitmapAt
  <2>7. StmtOriginalAt(f, Q, un, lo, mk, st, h)
    BY <1>3, <1>5, <1>6, <1>9, <1>11, <1>12 DEF StmtOriginalAt, OnFile, IsCached
  <2> QED
    BY <2>1, <2>2, <2>3, <2>4, <2>5, <2>6, <2>7 DEF PageGood
<1>27. Lists(Q, un, lo, fs)
  BY <1>1 DEF Lists
<1> QED
  BY <1>1, <1>5, <1>9, <1>10, <1>13, <1>20, <1>22, <1>23, <1>24, <1>25, <1>26, <1>27
  DEF Good, SameSafe, SameContent, Q

\* What the journals say when one or the other was given a record.
LEMMA RecordAdded ==
    ASSUME NEW md, NEW P \in PagerType, NEW Q \in PagerType, Sequences(P),
           NEW r \in Record, NEW rec \in BOOLEAN, NEW stm \in BOOLEAN, ~(rec /\ stm),
           Q.journal = IF rec THEN Append(P.journal, r) ELSE P.journal,
           Q.stmtJournal = IF stm THEN Append(P.stmtJournal, r) ELSE P.stmtJournal,
           Q.nRec = P.nRec, Q.stmtStart = P.stmtStart,
           rec => r.page \notin InMain(P), rec \/ stm => r.page \notin InStmt(P)
    PROVE  /\ Sequences(Q)
           /\ InMain(Q) = IF rec THEN InMain(P) \cup {r.page} ELSE InMain(P)
           /\ InCounted(md, Q) = IF rec /\ md # "normal" THEN InCounted(md, P) \cup {r.page}
                                 ELSE InCounted(md, P)
           /\ InStmt(Q) = IF rec \/ stm THEN InStmt(P) \cup {r.page} ELSE InStmt(P)
           /\ rec => MainSays(Q, r.page) = r.data
           /\ rec /\ md # "normal" => CountedSays(md, Q, r.page) = r.data
           /\ rec \/ stm => StmtSays(Q, r.page) = r.data
           /\ \A h \in InMain(P) : MainSays(Q, h) = MainSays(P, h)
           /\ \A h \in InCounted(md, P) : CountedSays(md, Q, h) = CountedSays(md, P, h)
           /\ \A h \in InStmt(P) : StmtSays(Q, h) = StmtSays(P, h)
<1>1. /\ P.journal \in Seq(Record) /\ Once(P.journal) /\ Once(StmtRecords(P))
      /\ P.stmtJournal \in Seq(Record) /\ P.nRec \in Nat /\ P.stmtStart \in Nat
      /\ P.nRec <= Len(P.journal) /\ P.stmtStart <= Len(P.journal)
  BY DEF Sequences, PagerType
<1> DEFINE s == P.journal
           tail == SubSeq(s, P.stmtStart + 1, Len(s))
<1>2. tail \in Seq(Record) /\ StmtRecords(P) = P.stmtJournal \o tail /\ StmtRecords(P) \in Seq(Record)
  BY <1>1 DEF StmtRecords
<1>3. CASE rec
  <2>1. Q.journal = Append(s, r) /\ Q.stmtJournal = P.stmtJournal
    BY <1>3
  <2>2. /\ Once(Q.journal) /\ Len(Q.journal) = Len(s) + 1
        /\ PagesOf(Q.journal) = PagesOf(s) \cup {r.page}
        /\ LastOf(Q.journal, r.page) = r.data
        /\ \A g \in PagesOf(s) : LastOf(Q.journal, g) = LastOf(s, g)
    BY <1>1, <1>3, <2>1, Appended DEF InMain
  <2>3. StmtRecords(Q) = Append(StmtRecords(P), r)
    <3>1. P.stmtJournal \o SubSeq(Append(s, r), P.stmtStart + 1, Len(Append(s, r))) =
              Append(P.stmtJournal \o tail, r)
      BY <1>1, SecondAppended, ZenonT(60)
    <3> HIDE DEF s, tail
    <3>2. StmtRecords(Q) =
              P.stmtJournal \o SubSeq(Append(s, r), P.stmtStart + 1, Len(Append(s, r)))
      BY <2>1 DEF StmtRecords
    <3> QED
      BY <1>2, <3>1, <3>2
  <2>4. /\ Once(StmtRecords(Q))
        /\ PagesOf(StmtRecords(Q)) = PagesOf(StmtRecords(P)) \cup {r.page}
        /\ LastOf(StmtRecords(Q), r.page) = r.data
        /\ \A g \in PagesOf(StmtRecords(P)) : LastOf(StmtRecords(Q), g) = LastOf(StmtRecords(P), g)
    <3> DEFINE t == StmtRecords(P)
    <3>1. t \in Seq(Record) /\ Once(t) /\ r.page \notin PagesOf(t)
      BY <1>1, <1>2, <1>3 DEF InStmt
    <3> HIDE DEF t
    <3>2. /\ Once(Append(t, r))
          /\ PagesOf(Append(t, r)) = PagesOf(t) \cup {r.page}
          /\ LastOf(Append(t, r), r.page) = r.data
          /\ \A g \in PagesOf(t) : LastOf(Append(t, r), g) = LastOf(t, g)
      BY <3>1, Appended
    <3> QED
      BY <2>3, <3>2 DEF t
  <2>5. md = "normal" => CountedOf(md, Q) = CountedOf(md, P)
    BY <1>1, <2>1, PrefixKept DEF CountedOf
  <2>6. md # "normal" => CountedOf(md, Q) = Q.journal /\ CountedOf(md, P) = s
    BY DEF CountedOf
  <2>7. Sequences(Q)
    BY <1>1, <2>2, <2>4 DEF Sequences
  <2>8. /\ md = "normal" => InCounted(md, Q) = InCounted(md, P)
        /\ md # "normal" => InCounted(md, Q) = InCounted(md, P) \cup {r.page}
                            /\ CountedSays(md, Q, r.page) = r.data
        /\ \A h \in InCounted(md, P) : CountedSays(md, Q, h) = CountedSays(md, P, h)
    BY <2>2, <2>5, <2>6 DEF InCounted, CountedSays
  <2> QED
    BY <1>3, <2>2, <2>4, <2>7, <2>8 DEF InMain, InStmt, MainSays, StmtSays
<1>4. CASE stm
  <2>1. Q.journal = s /\ Q.stmtJournal = Append(P.stmtJournal, r) /\ ~rec
    BY <1>4
  <2>2. StmtRecords(Q) = Append(P.stmtJournal, r) \o tail
    BY <2>1 DEF StmtRecords
  <2> HIDE DEF tail
  <2>3. /\ Once(StmtRecords(Q))
        /\ PagesOf(StmtRecords(Q)) = PagesOf(StmtRecords(P)) \cup {r.page}
        /\ LastOf(StmtRecords(Q), r.page) = r.data
        /\ \A g \in PagesOf(StmtRecords(P)) : LastOf(StmtRecords(Q), g) = LastOf(StmtRecords(P), g)
    BY <1>1, <1>2, <1>4, <2>2, FirstAppended DEF InStmt
  <2> QED
    BY <1>1, <1>4, <2>1, <2>3 DEF InMain, InStmt, MainSays, StmtSays, InCounted, CountedSays, CountedOf,
       Sequences
<1>5. CASE ~rec /\ ~stm
  <2>1. SameJournals(P, Q)
    BY <1>5 DEF SameJournals
  <2> QED
    BY <1>5, <2>1, SameSays
<1> QED
  BY <1>3, <1>4, <1>5

\* A page that sqlite3pager_write() was called for may be changed.
Writable(P, g) ==
    /\ P.journalOpen /\ IsCached(P, g) /\ g <= P.dbSize
    /\ P.hdr[g].dirty /\ P.dirtyCache
    /\ g <= P.origDbSize => g \in P.aInJournal
    /\ P.stmtInUse /\ g <= P.stmtSize => g \in P.aInStmt

\* sqlite3pager_write() keeps the invariant and what a crash would leave:
\* the page is in the journals that need it.
LEMMA WrittenOpenGood ==
    ASSUME NEW P, NEW un, NEW lo, NEW fs, NEW mk, NEW st, NEW g \in Page,
           Good(mode, file, P, un, lo, fs, mk, st),
           P.journalOpen, IsCached(P, g), st.call \notin {"lock", "store", "move"},
           g <= P.dbSize \/ (g = P.dbSize + 1 /\ st.call # "tail")
    PROVE  LET Q == Written(P, g)
           IN  /\ Good(mode, file, Q, un, lo, fs, mk, st)
               /\ SameSafe(mode, file, P, file, Q, fs)
               /\ \A h \in Page : h <= P.dbSize => ContentOf(file, Q, un, h) = ContentOf(file, P, un, h)
               /\ \A h \in Page \ {g} : ContentOf(file, Q, un, h) = ContentOf(file, P, un, h)
               /\ Q.dbSize = IF P.dbSize < g THEN g ELSE P.dbSize
               /\ Writable(Q, g)
               /\ \A h \in Page : IsCached(P, h) => IsCached(Q, h)
<1> DEFINE Q == Written(P, g)
           d == P.hdr[g]
           r == [page |-> g, data |-> d.data]
           rec == ~d.inJournal /\ g <= P.origDbSize
           sync == ~d.inJournal /\ mode = "normal" /\ (g <= P.origDbSize \/ ~P.journalStarted)
           stm == P.stmtInUse /\ ~d.inStmt /\ ~rec /\ g <= P.stmtSize
<1>1. /\ P \in PagerType /\ Sequences(P) /\ file \in FileType
      /\ NoJournal(file, P, un, fs, mk) /\ Sizes(file, P, st) /\ Lists(P, un, lo, fs)
      /\ LastPage(file, P, lo, st) /\ Statement(file, P, un, mk) /\ Doing(mode, P, un, lo, mk, st)
      /\ \A h \in Page : PageGood(mode, file, P, un, lo, fs, mk, st, h)
  BY Unpacked
<1>0. /\ P.dbSize \in Nat /\ P.origDbSize \in Nat /\ P.stmtSize \in Nat /\ file.size \in Nat
      /\ \A h \in Page : h \in Nat
      /\ P.dbSize > 0 => P.dbSize \in Page
      /\ P.stmtSize > 0 => P.stmtSize \in Page
      /\ InCounted(mode, P) \subseteq InMain(P)
      /\ mode # "normal" => InCounted(mode, P) = InMain(P)
  BY <1>1, Numbers, CountedIn
<1>2. /\ Q \in PagerType /\ SameSetting(P, Q) /\ Q.dirtyCache
      /\ Q.dbSize = IF P.dbSize < g THEN g ELSE P.dbSize
      /\ \A i \in Page \ {g} : Q.hdr[i] = P.hdr[i]
      /\ Q.hdr[g].data = d.data /\ Q.hdr[g].dirty /\ Q.hdr[g].inJournal
      /\ Q.hdr[g].needSync <=> (d.needSync /\ d.inJournal) \/ sync
      /\ Q.hdr[g].inStmt <=> d.inStmt \/ (rec /\ P.stmtInUse) \/ stm
      /\ Q.hdr[g].alwaysRollback = d.alwaysRollback
      /\ Q.needSync <=> P.needSync \/ sync
      /\ r \in Record
      /\ Q.journal = IF rec THEN Append(P.journal, r) ELSE P.journal
      /\ Q.aInJournal = IF rec THEN P.aInJournal \cup {g} ELSE P.aInJournal
      /\ Q.stmtJournal = IF stm THEN Append(P.stmtJournal, r) ELSE P.stmtJournal
      /\ Q.aInStmt = IF (rec /\ P.stmtInUse) \/ stm THEN P.aInStmt \cup {g} ELSE P.aInStmt
  BY <1>1, WrittenIs
<1>3. /\ Q.state = P.state /\ Q.journalOpen = P.journalOpen /\ Q.origDbSize = P.origDbSize
      /\ Q.alwaysRollback = P.alwaysRollback /\ Q.nRec = P.nRec
      /\ Q.stmtAutoopen = P.stmtAutoopen /\ Q.stmtInUse = P.stmtInUse
      /\ Q.stmtSize = P.stmtSize /\ Q.stmtStart = P.stmtStart
  BY <1>2 DEF SameSetting
<1> HIDE DEF Q
<1>4. PageGood(mode, file, P, un, lo, fs, mk, st, g)
  BY <1>1
<1>5. rec => g \notin P.aInJournal /\ g \notin InMain(P)
  BY <1>4 DEF PageGood, BitmapAt
<1>6. P.stmtInUse /\ (rec \/ stm) => g \notin P.aInStmt /\ g \notin InStmt(P)
  BY <1>0, <1>4, <1>5 DEF PageGood, BitmapAt, StmtBitmapAt
<1>7. ~P.stmtInUse => InStmt(P) = InMain(P)
  <2>1. ~P.stmtInUse => P.stmtJournal = <<>> /\ P.stmtStart = 0
    BY <1>1 DEF Statement
  <2>2. P.journal \in Seq(Record) => <<>> \o SubSeq(P.journal, 0 + 1, Len(P.journal)) = P.journal
    OBVIOUS
  <2>3. P.journal \in Seq(Record)
    BY <1>1 DEF PagerType
  <2> QED
    BY <2>1, <2>2, <2>3 DEF InStmt, InMain, StmtRecords
<1>8. /\ rec \in BOOLEAN /\ stm \in BOOLEAN /\ ~(rec /\ stm)
      /\ rec => r.page \notin InMain(P)
      /\ rec \/ stm => r.page \notin InStmt(P)
  BY <1>5, <1>6, <1>7
<1> HIDE DEF r, rec, stm, sync
<1>9. /\ Sequences(Q)
      /\ InMain(Q) = IF rec THEN InMain(P) \cup {r.page} ELSE InMain(P)
      /\ InCounted(mode, Q) = IF rec /\ mode # "normal" THEN InCounted(mode, P) \cup {r.page}
                              ELSE InCounted(mode, P)
      /\ InStmt(Q) = IF rec \/ stm THEN InStmt(P) \cup {r.page} ELSE InStmt(P)
      /\ rec => MainSays(Q, r.page) = r.data
      /\ rec /\ mode # "normal" => CountedSays(mode, Q, r.page) = r.data
      /\ rec \/ stm => StmtSays(Q, r.page) = r.data
      /\ \A h \in InMain(P) : MainSays(Q, h) = MainSays(P, h)
      /\ \A h \in InCounted(mode, P) : CountedSays(mode, Q, h) = CountedSays(mode, P, h)
      /\ \A h \in InStmt(P) : StmtSays(Q, h) = StmtSays(P, h)
  BY <1>1, <1>2, <1>3, <1>8, RecordAdded, SMTT(60)
<1>10. r.page = g /\ r.data = d.data
  BY DEF r
<1>11. Dirtier(P, Q)
  BY <1>2, <1>3 DEF Dirtier
<1>12. ASSUME NEW h \in Page \ {g}
       PROVE  SameAt(mode, P, Q, h)
  BY <1>2, <1>9, <1>10 DEF SameAt
<1>13. ASSUME NEW h \in Page, IsCached(P, h)
       PROVE  IsCached(Q, h)
  BY <1>2, <1>13 DEF IsCached
<1>14. ASSUME NEW h \in Page \ {g}
       PROVE  /\ ContentOf(file, Q, un, h) = ContentOf(file, P, un, h)
              /\ h <= Q.dbSize <=> h <= P.dbSize
  BY <1>0, <1>2 DEF ContentOf, IsCached
<1>15. g <= P.dbSize => ContentOf(file, Q, un, g) = ContentOf(file, P, un, g)
  BY <1>0, <1>2 DEF ContentOf, IsCached
<1>20. FlagsAt(mode, Q, un, mk, g)
  BY <1>2, <1>4, <1>13 DEF PageGood, FlagsAt, sync
<1>21. BitmapAt(Q, fs, g)
  BY <1>2, <1>3, <1>4, <1>9, <1>10 DEF PageGood, BitmapAt, rec
<1>22. OriginalAt(mode, file, Q, fs, st, g)
  BY <1>0, <1>2, <1>3, <1>4, <1>9, <1>10, <1>21 DEF PageGood, BitmapAt, OriginalAt, OnFile, rec, sync
<1>23. FreeAt(Q, un, lo, fs, mk, st, g)
  BY <1>2, <1>3, <1>4 DEF PageGood, FreeAt, Always
<1>24. CleanAt(file, Q, un, g)
  BY <1>2 DEF CleanAt
<1>25. StmtBitmapAt(Q, mk, g)
  BY <1>0, <1>1, <1>2, <1>3, <1>4, <1>6, <1>9, <1>10, <1>21 DEF PageGood, BitmapAt, StmtBitmapAt, Statement, rec, stm
<1>26. StmtOriginalAt(file, Q, un, lo, mk, st, g)
  BY <1>0, <1>2, <1>3, <1>4, <1>6, <1>9, <1>10, <1>13 DEF PageGood, StmtOriginalAt, Always
<1>27. PageGood(mode, file, Q, un, lo, fs, mk, st, g)
  BY <1>20, <1>21, <1>22, <1>23, <1>24, <1>25, <1>26 DEF PageGood
<1>28. ASSUME NEW h \in Page \ {g}
       PROVE  /\ PageGood(mode, file, Q, un, lo, fs, mk, st, h)
              /\ SafeAt(mode, file, Q, h) = SafeAt(mode, file, P, h)
  BY <1>1, <1>11, <1>12, <1>14, PageFrame, SafeFrame
<1>29. g \notin fs.unused => SafeAt(mode, file, Q, g) = SafeAt(mode, file, P, g)
  BY <1>0, <1>3, <1>4, <1>5, <1>9, <1>10 DEF SafeAt, PageGood, OriginalAt, OnFile, StoredIn, rec
<1>30. NoJournal(file, Q, un, fs, mk)
  BY <1>3 DEF NoJournal
<1>31. Sizes(file, Q, st)
  BY <1>0, <1>1, <1>2, <1>3 DEF Sizes
<1>32. Lists(Q, un, lo, fs)
  BY <1>1 DEF Lists
<1>33. LastPage(file, Q, lo, st)
  BY <1>0, <1>1, <1>2, <1>3 DEF LastPage
<1>34. Statement(file, Q, un, mk)
  BY <1>0, <1>1, <1>2, <1>3 DEF Statement, stm
<1>35. Doing(mode, Q, un, lo, mk, st)
  BY <1>0, <1>1, <1>2, <1>3 DEF Doing, Logged
<1>36. Writable(Q, g)
  BY <1>0, <1>2, <1>3, <1>13, <1>21, <1>25 DEF Writable, BitmapAt, StmtBitmapAt, stm
<1> QED
  BY <1>1, <1>2, <1>9, <1>13, <1>14, <1>15, <1>27, <1>28, <1>29, <1>30, <1>31, <1>32, <1>33, <1>34,
     <1>35, <1>36 DEF Good, SameSafe, Q

\* Two pagers with the same fields are the same.
LEMMA SamePagerRecord ==
    ASSUME NEW P \in PagerType, NEW Q \in PagerType,
           SamePager(P, Q), \A g \in Page : Q.hdr[g] = P.hdr[g]
    PROVE  Q = P
<1>1. Q.hdr = P.hdr
  BY DEF PagerType
<1> QED
  BY <1>1 DEF PagerType, SamePager, SameJournals

\* The journal is opened by the first sqlite3pager_write().
LEMMA WrittenOpens ==
    ASSUME NEW P \in PagerType, NEW g \in Page, ~P.journalOpen, ~P.hdr[g].inJournal
    PROVE  Written(P, g) = Written(JournalOpened(P), g)
<1> DEFINE D == [P EXCEPT !.hdr[g].dirty = TRUE]
           J == JournalOpened(P)
           E == [J EXCEPT !.hdr[g].dirty = TRUE]
           k == [P.hdr[g] EXCEPT !.dirty = TRUE]
<1>1. k \in Header /\ k.inJournal = P.hdr[g].inJournal
  <2>1. P.hdr[g] \in Header
    BY DEF PagerType
  <2> QED
    BY <2>1 DEF Header
<1>2. /\ D \in PagerType /\ D.hdr[g] = k /\ D.journalOpen = P.journalOpen
      /\ D.state = P.state /\ D.dbSize = P.dbSize /\ D.dirtyCache = P.dirtyCache
      /\ D.stmtJournal = P.stmtJournal /\ D.stmtAutoopen = P.stmtAutoopen
      /\ D.stmtInUse = P.stmtInUse /\ D.aInStmt = P.aInStmt
      /\ D.stmtSize = P.stmtSize /\ D.stmtStart = P.stmtStart
      /\ \A h \in Page \ {g} : D.hdr[h] = P.hdr[h]
  <2>1. D = [P EXCEPT !.hdr = [P.hdr EXCEPT ![g] = k]]
    BY DEF PagerType
  <2> HIDE DEF D, k
  <2> QED
    BY <1>1, <2>1 DEF PagerType
<1>3. J \in PagerType /\ J.hdr = P.hdr /\ J.journalOpen
  BY JournalOpenedIs
<1>4. /\ E \in PagerType /\ E.hdr[g] = k /\ \A h \in Page \ {g} : E.hdr[h] = P.hdr[h]
      /\ SamePager(J, E)
  <2>1. E = [J EXCEPT !.hdr = [P.hdr EXCEPT ![g] = k]]
    BY <1>3 DEF PagerType
  <2> HIDE DEF J, E, k
  <2> QED
    BY <1>1, <1>3, <2>1 DEF PagerType, SamePager, SameJournals
<1> DEFINE F == JournalOpened(D)
<1>5. F = E
  <2>1. /\ J \in PagerType /\ J.hdr = P.hdr
        /\ J.state = P.state /\ J.dbSize = P.dbSize /\ J.dirtyCache = P.dirtyCache
        /\ J.journalOpen /\ J.origDbSize = P.dbSize
        /\ ~J.needSync /\ ~J.journalStarted /\ ~J.alwaysRollback /\ J.aInJournal = {}
        /\ J.journal = <<>> /\ J.nRec = 0 /\ J.stmtJournal = P.stmtJournal
        /\ J.stmtAutoopen = P.stmtAutoopen
        /\ P.stmtAutoopen =>
              /\ J.stmtInUse /\ J.aInStmt = {} /\ J.stmtSize = P.dbSize /\ J.stmtStart = 0
        /\ ~P.stmtAutoopen =>
              /\ J.stmtInUse = P.stmtInUse /\ J.aInStmt = P.aInStmt
              /\ J.stmtSize = P.stmtSize /\ J.stmtStart = P.stmtStart
    BY JournalOpenedIs
  <2> HIDE DEF D
  <2>2. /\ F \in PagerType /\ F.hdr = D.hdr
        /\ F.state = D.state /\ F.dbSize = D.dbSize /\ F.dirtyCache = D.dirtyCache
        /\ F.journalOpen /\ F.origDbSize = D.dbSize
        /\ ~F.needSync /\ ~F.journalStarted /\ ~F.alwaysRollback /\ F.aInJournal = {}
        /\ F.journal = <<>> /\ F.nRec = 0 /\ F.stmtJournal = D.stmtJournal
        /\ F.stmtAutoopen = D.stmtAutoopen
        /\ D.stmtAutoopen =>
              /\ F.stmtInUse /\ F.aInStmt = {} /\ F.stmtSize = D.dbSize /\ F.stmtStart = 0
        /\ ~D.stmtAutoopen =>
              /\ F.stmtInUse = D.stmtInUse /\ F.aInStmt = D.aInStmt
              /\ F.stmtSize = D.stmtSize /\ F.stmtStart = D.stmtStart
    BY <1>2, JournalOpenedIs
  <2> HIDE DEF F, J, E, k
  <2>3. \A h \in Page : F.hdr[h] = E.hdr[h]
    BY <1>2, <1>4, <2>2
  <2>4. F.journalStarted = J.journalStarted /\ F.needSync = J.needSync
        /\ F.alwaysRollback = J.alwaysRollback /\ F.journalOpen = J.journalOpen
    BY <2>1, <2>2 DEF PagerType
  <2>5. F.stmtInUse = J.stmtInUse /\ F.aInStmt = J.aInStmt
        /\ F.stmtSize = J.stmtSize /\ F.stmtStart = J.stmtStart
    BY <1>2, <2>1, <2>2 DEF PagerType
  <2>6. SamePager(E, F)
    BY <1>2, <1>4, <2>1, <2>2, <2>4, <2>5 DEF SamePager, SameJournals
  <2> QED
    BY <1>4, <2>2, <2>3, <2>6, SamePagerRecord
<1>6. Written(P, g) =
         [StmtJournaled(Journaled(F, g), g) EXCEPT !.dirtyCache = TRUE, !.dbSize = IF @ < g THEN g ELSE @]
  <2>1. ~D.journalOpen /\ ~D.hdr[g].inJournal
    BY <1>1, <1>2
  <2>2. Written(P, g) =
           [(IF ~D.hdr[g].inJournal \/ (D.stmtInUse /\ ~D.hdr[g].inStmt)
             THEN StmtJournaled(Journaled(IF D.journalOpen THEN D ELSE JournalOpened(D), g), g)
             ELSE D)
            EXCEPT !.dirtyCache = TRUE, !.dbSize = IF @ < g THEN g ELSE @]
    BY DEF Written
  <2> HIDE DEF D
  <2> QED
    BY <2>1, <2>2
<1>7. Written(J, g) =
         [StmtJournaled(Journaled(E, g), g) EXCEPT !.dirtyCache = TRUE, !.dbSize = IF @ < g THEN g ELSE @]
  <2>1. E.journalOpen /\ ~E.hdr[g].inJournal
    BY <1>1, <1>3, <1>4 DEF SamePager
  <2>2. Written(J, g) =
           [(IF ~E.hdr[g].inJournal \/ (E.stmtInUse /\ ~E.hdr[g].inStmt)
             THEN StmtJournaled(Journaled(IF E.journalOpen THEN E ELSE JournalOpened(E), g), g)
             ELSE E)
            EXCEPT !.dirtyCache = TRUE, !.dbSize = IF @ < g THEN g ELSE @]
    BY DEF Written
  <2> HIDE DEF J, E
  <2> QED
    BY <2>1, <2>2
<1> HIDE DEF F, J, E
<1>8. Written(P, g) = Written(J, g)
  BY <1>5, <1>6, <1>7
<1> QED
  BY <1>8 DEF J

\* sqlite3pager_write(), which opens the journal if there is none.
LEMMA WrittenGood ==
    ASSUME NEW P, NEW un, NEW lo, NEW fs, NEW mk, NEW st, NEW g \in Page,
           Good(mode, file, P, un, lo, fs, mk, st),
           P.state # "shared", IsCached(P, g), st.call \notin {"lock", "store", "move"},
           g <= P.dbSize \/ (g = P.dbSize + 1 /\ st.call # "tail")
    PROVE  LET Q == Written(P, g)
           IN  /\ Good(mode, file, Q, un, lo, fs, mk, st)
               /\ SameSafe(mode, file, P, file, Q, fs)
               /\ \A h \in Page : h <= P.dbSize => ContentOf(file, Q, un, h) = ContentOf(file, P, un, h)
               /\ \A h \in Page \ {g} : ContentOf(file, Q, un, h) = ContentOf(file, P, un, h)
               /\ Q.dbSize = IF P.dbSize < g THEN g ELSE P.dbSize
               /\ Writable(Q, g)
               /\ \A h \in Page : IsCached(P, h) => IsCached(Q, h)
<1>1. CASE P.journalOpen
  BY <1>1, WrittenOpenGood
<1>2. CASE ~P.journalOpen
  <2> DEFINE J == JournalOpened(P)
             Q == Written(J, g)
  <2>1. P \in PagerType /\ ~P.hdr[g].inJournal
    BY <1>2, Unpacked DEF NoJournal
  <2>2. Written(P, g) = Q
    BY <1>2, <2>1, WrittenOpens
  <2>3. /\ Good(mode, file, J, un, lo, fs, mk, st) /\ SameSafe(mode, file, P, file, J, fs)
        /\ SameContent(file, P, un, file, J, un)
        /\ J.hdr = P.hdr /\ J.dbSize = P.dbSize /\ J.journalOpen
    BY <1>2, JournalOpenedGood
  <2> HIDE DEF J
  <2>4. \A h \in Page : IsCached(P, h) <=> IsCached(J, h)
    BY <2>3 DEF IsCached
  <2>5. /\ Good(mode, file, Q, un, lo, fs, mk, st)
        /\ SameSafe(mode, file, J, file, Q, fs)
        /\ \A h \in Page : h <= J.dbSize => ContentOf(file, Q, un, h) = ContentOf(file, J, un, h)
        /\ \A h \in Page \ {g} : ContentOf(file, Q, un, h) = ContentOf(file, J, un, h)
        /\ Q.dbSize = IF J.dbSize < g THEN g ELSE J.dbSize
        /\ Writable(Q, g)
        /\ \A h \in Page : IsCached(J, h) => IsCached(Q, h)
    BY <2>3, <2>4, WrittenOpenGood
  <2> HIDE DEF Q
  <2> QED
    BY <2>2, <2>3, <2>4, <2>5 DEF SameSafe, SameContent
<1> QED
  BY <1>1, <1>2

\* A page that is in the journals it needs may be changed.
LEMMA DataSetGood ==
    ASSUME NEW f, NEW P, NEW un, NEW lo, NEW fs, NEW mk, NEW st, NEW g \in Page, NEW v \in Value,
           Good(mode, f, P, un, lo, fs, mk, st), Writable(P, g)
    PROVE  LET Q == [P EXCEPT !.hdr[g].data = v]
           IN  /\ Good(mode, f, Q, un, lo, fs, mk, st)
               /\ SameSafe(mode, f, P, f, Q, fs)
               /\ \A h \in Page \ {g} : ContentOf(f, Q, un, h) = ContentOf(f, P, un, h)
               /\ Q.dbSize = P.dbSize
               /\ Writable(Q, g)
               /\ \A h \in Page : IsCached(P, h) => IsCached(Q, h)
<1> DEFINE Q == [P EXCEPT !.hdr[g].data = v]
           d == P.hdr[g]
<1>1. /\ P \in PagerType /\ Sequences(P) /\ f \in FileType
      /\ NoJournal(f, P, un, fs, mk) /\ Sizes(f, P, st) /\ Lists(P, un, lo, fs)
      /\ LastPage(f, P, lo, st) /\ Statement(f, P, un, mk) /\ Doing(mode, P, un, lo, mk, st)
      /\ \A h \in Page : PageGood(mode, f, P, un, lo, fs, mk, st, h)
  BY Unpacked
<1>0. /\ P.dbSize \in Nat /\ P.origDbSize \in Nat /\ P.stmtSize \in Nat /\ f.size \in Nat
      /\ \A h \in Page : h \in Nat
      /\ P.dbSize > 0 => P.dbSize \in Page
      /\ P.stmtSize > 0 => P.stmtSize \in Page
      /\ NotCached \notin Value
  BY <1>1, Numbers
<1>2. /\ Q \in PagerType /\ SamePager(P, Q)
      /\ \A i \in Page \ {g} : Q.hdr[i] = P.hdr[i]
      /\ Q.hdr[g].data = v /\ Q.hdr[g].dirty = d.dirty
      /\ Q.hdr[g].inJournal = d.inJournal /\ Q.hdr[g].needSync = d.needSync
      /\ Q.hdr[g].inStmt = d.inStmt /\ Q.hdr[g].alwaysRollback = d.alwaysRollback
  BY <1>1, DataSetIs
<1> HIDE DEF Q
<1>3. /\ Sequences(Q) /\ Dirtier(P, Q)
      /\ \A h \in Page \ {g} : SameAt(mode, P, Q, h)
      /\ InMain(Q) = InMain(P) /\ InCounted(mode, Q) = InCounted(mode, P) /\ InStmt(Q) = InStmt(P)
      /\ MainSays(Q, g) = MainSays(P, g) /\ StmtSays(Q, g) = StmtSays(P, g)
      /\ CountedSays(mode, Q, g) = CountedSays(mode, P, g)
  BY <1>1, <1>2, PagerFrame, SameSays
<1>4. /\ Q.state = P.state /\ Q.dbSize = P.dbSize /\ Q.dirtyCache = P.dirtyCache
      /\ Q.journalOpen = P.journalOpen /\ Q.origDbSize = P.origDbSize
      /\ Q.needSync = P.needSync /\ Q.alwaysRollback = P.alwaysRollback
      /\ Q.aInJournal = P.aInJournal /\ Q.journal = P.journal /\ Q.nRec = P.nRec
      /\ Q.stmtAutoopen = P.stmtAutoopen /\ Q.stmtInUse = P.stmtInUse
      /\ Q.stmtSize = P.stmtSize /\ Q.aInStmt = P.aInStmt
      /\ Q.stmtStart = P.stmtStart /\ Q.stmtJournal = P.stmtJournal
  BY <1>2 DEF SamePager, SameJournals
<1>5. IsCached(Q, g) /\ \A h \in Page : IsCached(P, h) <=> IsCached(Q, h)
  BY <1>0, <1>2 DEF IsCached, Writable
<1>6. PageGood(mode, f, P, un, lo, fs, mk, st, g)
  BY <1>1
<1>7. ASSUME NEW h \in Page \ {g}
      PROVE  ContentOf(f, Q, un, h) = ContentOf(f, P, un, h)
  BY <1>2, <1>4 DEF ContentOf, IsCached
<1>8. ASSUME NEW h \in Page
      PROVE  SafeAt(mode, f, Q, h) = SafeAt(mode, f, P, h)
  BY <1>3, <1>4, SafeFrame DEF SafeAt
<1>20. FlagsAt(mode, Q, un, mk, g)
  BY <1>2, <1>4, <1>5, <1>6 DEF PageGood, FlagsAt
<1>21. BitmapAt(Q, fs, g)
  BY <1>2, <1>3, <1>4, <1>5, <1>6 DEF PageGood, BitmapAt
<1>22. OriginalAt(mode, f, Q, fs, st, g)
  BY <1>2, <1>3, <1>4, <1>6 DEF PageGood, OriginalAt, Writable
<1>23. FreeAt(Q, un, lo, fs, mk, st, g)
  BY <1>2, <1>4, <1>6 DEF PageGood, FreeAt, Always
<1>24. CleanAt(f, Q, un, g)
  BY <1>2 DEF CleanAt, Writable
<1>25. StmtBitmapAt(Q, mk, g)
  BY <1>2, <1>3, <1>4, <1>5, <1>6 DEF PageGood, StmtBitmapAt
<1>26. StmtOriginalAt(f, Q, un, lo, mk, st, g)
  BY <1>2, <1>3, <1>4, <1>5, <1>6 DEF PageGood, StmtBitmapAt, StmtOriginalAt, Always, Writable
<1>27. PageGood(mode, f, Q, un, lo, fs, mk, st, g)
  BY <1>20, <1>21, <1>22, <1>23, <1>24, <1>25, <1>26 DEF PageGood
<1>28. ASSUME NEW h \in Page \ {g}
       PROVE  PageGood(mode, f, Q, un, lo, fs, mk, st, h)
  BY <1>1, <1>3, <1>4, PageFrame
<1>30. NoJournal(f, Q, un, fs, mk)
  BY <1>4 DEF NoJournal, Writable
<1>31. Sizes(f, Q, st)
  BY <1>1, <1>4 DEF Sizes
<1>32. Lists(Q, un, lo, fs)
  BY <1>1 DEF Lists
<1>33. LastPage(f, Q, lo, st)
  BY <1>0, <1>1, <1>2, <1>4 DEF LastPage
<1>34. Statement(f, Q, un, mk)
  BY <1>0, <1>1, <1>2, <1>4 DEF Statement, Writable
<1>35. Doing(mode, Q, un, lo, mk, st)
  BY <1>1, <1>4, <1>5 DEF Doing, Logged
<1>36. Writable(Q, g)
  BY <1>2, <1>4, <1>5 DEF Writable
<1> QED
  BY <1>1, <1>2, <1>3, <1>4, <1>5, <1>7, <1>8, <1>27, <1>28, <1>30, <1>31, <1>32, <1>33, <1>34,
     <1>35, <1>36 DEF Good, SameSafe, Q

\* A page of the free list that may be changed is taken from it.
LEMMA TakenGood ==
    ASSUME NEW md, NEW f, NEW P, NEW un, NEW lo, NEW fs, NEW mk, NEW st, NEW g \in Page,
           Good(md, f, P, un, lo, fs, mk, st), Writable(P, g),
           \/ st.call = "none" /\ g \notin lo
           \/ st.call = "root" /\ g = st.from
    PROVE  /\ Good(md, f, P, un \ {g}, lo \ {g}, fs, mk, [call |-> "none"])
           /\ \A h \in Page \ {g} : ContentOf(f, P, un \ {g}, h) = ContentOf(f, P, un, h)
<1> DEFINE wn == un \ {g}
           lp == lo \ {g}
           su == [call |-> "none"]
<1>1. /\ P \in PagerType /\ Sequences(P) /\ f \in FileType
      /\ NoJournal(f, P, un, fs, mk) /\ Sizes(f, P, st) /\ Lists(P, un, lo, fs)
      /\ LastPage(f, P, lo, st) /\ Statement(f, P, un, mk) /\ Doing(md, P, un, lo, mk, st)
      /\ \A h \in Page : PageGood(md, f, P, un, lo, fs, mk, st, h)
  BY Unpacked
<1>2. /\ Waiting(st) = {} /\ Waiting(su) = {} /\ Gone(su) = {}
      /\ Gone(st) \subseteq {g} /\ (st.call = "none" => Gone(st) = {})
      /\ (st.call = "root" => Gone(st) = {g})
      /\ su.call = "none"
  BY DEF Waiting, Gone
<1> HIDE DEF su
<1>3. SameAt(md, P, P, g) /\ Dirtier(P, P) /\ \A h \in Page : SameAt(md, P, P, h)
  BY DEF SameAt, Dirtier
<1>4. ASSUME NEW h \in Page \ {g}
      PROVE  PageGood(md, f, P, wn, lp, fs, mk, su, h)
  <2>1. /\ h \in wn <=> h \in un
        /\ h \in lp <=> h \in lo
        /\ h \in Waiting(su) <=> h \in Waiting(st)
        /\ h \in Gone(su) <=> h \in Gone(st)
    BY <1>2
  <2> HIDE DEF wn, lp
  <2> QED
    BY <1>1, <1>3, <2>1, PageFrame
<1>5. PageGood(md, f, P, un, lo, fs, mk, st, g)
  BY <1>1
<1>6. FlagsAt(md, P, wn, mk, g)
  BY <1>5 DEF PageGood, FlagsAt, Writable
<1>7. OriginalAt(md, f, P, fs, su, g)
  BY <1>2, <1>5 DEF PageGood, OriginalAt
<1>8. FreeAt(P, wn, lp, fs, mk, su, g)
  BY <1>2, <1>5 DEF PageGood, FreeAt, Writable
<1>9. CleanAt(f, P, wn, g)
  BY DEF CleanAt, Writable
<1>10. StmtOriginalAt(f, P, wn, lp, mk, su, g)
  BY <1>5 DEF PageGood, StmtOriginalAt, Writable
<1>11. PageGood(md, f, P, wn, lp, fs, mk, su, g)
  BY <1>5, <1>6, <1>7, <1>8, <1>9, <1>10 DEF PageGood
<1>12. NoJournal(f, P, wn, fs, mk)
  BY DEF NoJournal, Writable
<1>13. Sizes(f, P, su)
  BY <1>1, <1>2 DEF Sizes
<1>14. Lists(P, wn, lp, fs)
  BY <1>1 DEF Lists
<1>20. lp \subseteq Gone(su) => lo \subseteq Gone(st)
  BY <1>2
<1>15. LastPage(f, P, lp, su)
  BY <1>1, <1>2, <1>20 DEF LastPage, Writable
<1>16. Statement(f, P, wn, mk)
  BY <1>1 DEF Statement, Writable
<1>17. Doing(md, P, wn, lp, mk, su)
  BY <1>2 DEF Doing
<1>18. ASSUME NEW h \in Page \ {g}
       PROVE  ContentOf(f, P, wn, h) = ContentOf(f, P, un, h)
  BY DEF ContentOf
<1>19. Good(md, f, P, wn, lp, fs, mk, su)
  BY <1>1, <1>4, <1>11, <1>12, <1>13, <1>14, <1>15, <1>16, <1>17 DEF Good
<1> QED
  BY <1>18, <1>19 DEF su

\* A page that goes to the free list need not be written.
LEMMA DontWriteGood ==
    ASSUME NEW f, NEW P, NEW un, NEW lo, NEW fs, NEW mk, NEW st, NEW g \in Page,
           Good(mode, f, P, un, lo, fs, mk, st), P.journalOpen,
           IsCached(P, g), g \notin un, g # 1, st.call = "none"
    PROVE  LET Q == DontWrite(P, g)
           IN  /\ Good(mode, f, Q, un \cup {g}, lo, fs, mk, st)
               /\ SameSafe(mode, f, P, f, Q, fs)
               /\ \A h \in Page \ {g} : ContentOf(f, Q, un \cup {g}, h) = ContentOf(f, P, un, h)
               /\ \A h \in Page : IsCached(P, h) => IsCached(Q, h)
<1> DEFINE Q == DontWrite(P, g)
           d == P.hdr[g]
           wn == un \cup {g}
<1>1. /\ P \in PagerType /\ Sequences(P) /\ f \in FileType
      /\ NoJournal(f, P, un, fs, mk) /\ Sizes(f, P, st) /\ Lists(P, un, lo, fs)
      /\ LastPage(f, P, lo, st) /\ Statement(f, P, un, mk) /\ Doing(mode, P, un, lo, mk, st)
      /\ \A h \in Page : PageGood(mode, f, P, un, lo, fs, mk, st, h)
  BY Unpacked
<1>0. /\ P.dbSize \in Nat /\ P.origDbSize \in Nat /\ P.stmtSize \in Nat /\ f.size \in Nat
      /\ \A h \in Page : h \in Nat
      /\ P.dbSize > 0 => P.dbSize \in Page
      /\ P.stmtSize > 0 => P.stmtSize \in Page
  BY <1>1, Numbers
<1>2. /\ Q \in PagerType /\ SamePager(P, Q)
      /\ \A i \in Page \ {g} : Q.hdr[i] = P.hdr[i]
      /\ Q.hdr[g].data = d.data
      /\ Q.hdr[g].dirty <=> d.dirty /\ (P.stmtInUse \/ (P.dbSize = g /\ P.origDbSize < P.dbSize))
      /\ Q.hdr[g].inJournal = d.inJournal /\ Q.hdr[g].needSync = d.needSync
      /\ Q.hdr[g].inStmt = d.inStmt /\ Q.hdr[g].alwaysRollback
  BY <1>1, DontWriteIs
<1> HIDE DEF Q
<1>3. /\ Sequences(Q) /\ Dirtier(P, Q)
      /\ \A h \in Page \ {g} : SameAt(mode, P, Q, h)
      /\ InMain(Q) = InMain(P) /\ InCounted(mode, Q) = InCounted(mode, P) /\ InStmt(Q) = InStmt(P)
      /\ MainSays(Q, g) = MainSays(P, g) /\ StmtSays(Q, g) = StmtSays(P, g)
      /\ CountedSays(mode, Q, g) = CountedSays(mode, P, g)
  BY <1>1, <1>2, PagerFrame, SameSays
<1>4. /\ Q.state = P.state /\ Q.dbSize = P.dbSize /\ Q.dirtyCache = P.dirtyCache
      /\ Q.journalOpen = P.journalOpen /\ Q.origDbSize = P.origDbSize
      /\ Q.needSync = P.needSync /\ Q.alwaysRollback = P.alwaysRollback
      /\ Q.aInJournal = P.aInJournal /\ Q.journal = P.journal /\ Q.nRec = P.nRec
      /\ Q.stmtAutoopen = P.stmtAutoopen /\ Q.stmtInUse = P.stmtInUse
      /\ Q.stmtSize = P.stmtSize /\ Q.aInStmt = P.aInStmt
      /\ Q.stmtStart = P.stmtStart /\ Q.stmtJournal = P.stmtJournal
  BY <1>2 DEF SamePager, SameJournals
<1>5. IsCached(Q, g) /\ \A h \in Page : IsCached(P, h) <=> IsCached(Q, h)
  BY <1>0, <1>2 DEF IsCached
<1>6. PageGood(mode, f, P, un, lo, fs, mk, st, g)
  BY <1>1
<1>7. ASSUME NEW h \in Page \ {g}
      PROVE  ContentOf(f, Q, wn, h) = ContentOf(f, P, un, h)
  BY <1>2, <1>4 DEF ContentOf, IsCached
<1>8. ASSUME NEW h \in Page
      PROVE  SafeAt(mode, f, Q, h) = SafeAt(mode, f, P, h)
  BY <1>3, <1>4, SafeFrame DEF SafeAt
<1>9. Waiting(st) = {} /\ Gone(st) = {} /\ (~P.stmtInUse => mk = NoMark) /\ g \notin lo
  BY <1>1 DEF Waiting, Gone, Statement, Lists
<1>20. FlagsAt(mode, Q, wn, mk, g)
  BY <1>2, <1>4, <1>5, <1>6, <1>9 DEF PageGood, FlagsAt
<1>21. BitmapAt(Q, fs, g)
  BY <1>2, <1>3, <1>4, <1>5, <1>6 DEF PageGood, BitmapAt
<1>22. OriginalAt(mode, f, Q, fs, st, g)
  BY <1>2, <1>3, <1>4, <1>5, <1>6 DEF PageGood, OriginalAt
<1>23. FreeAt(Q, wn, lo, fs, mk, st, g)
  BY <1>2, <1>4, <1>6, <1>9 DEF PageGood, FreeAt, Always
<1>24. CleanAt(f, Q, wn, g)
  BY DEF CleanAt
<1>25. StmtBitmapAt(Q, mk, g)
  BY <1>2, <1>3, <1>4, <1>5, <1>6 DEF PageGood, StmtBitmapAt
<1>26. StmtOriginalAt(f, Q, wn, lo, mk, st, g)
  BY <1>2, <1>3, <1>4, <1>5, <1>6 DEF PageGood, StmtOriginalAt, Always
<1>27. PageGood(mode, f, Q, wn, lo, fs, mk, st, g)
  BY <1>20, <1>21, <1>22, <1>23, <1>24, <1>25, <1>26 DEF PageGood
<1>28. ASSUME NEW h \in Page \ {g}
       PROVE  PageGood(mode, f, Q, wn, lo, fs, mk, st, h)
  <2>1. h \in wn <=> h \in un
    OBVIOUS
  <2> HIDE DEF wn
  <2> QED
    BY <1>1, <1>3, <1>4, <2>1, PageFrame
<1>30. NoJournal(f, Q, wn, fs, mk)
  BY <1>4 DEF NoJournal
<1>31. Sizes(f, Q, st)
  BY <1>1, <1>4 DEF Sizes
<1>32. Lists(Q, wn, lo, fs)
  BY <1>1 DEF Lists
<1>33. LastPage(f, Q, lo, st)
  BY <1>0, <1>1, <1>2, <1>4, <1>9 DEF LastPage
<1>34. Statement(f, Q, wn, mk)
  BY <1>0, <1>1, <1>2, <1>4 DEF Statement
<1>35. Doing(mode, Q, wn, lo, mk, st)
  BY <1>1, <1>4 DEF Doing
<1> QED
  BY <1>1, <1>2, <1>3, <1>4, <1>5, <1>7, <1>8, <1>27, <1>28, <1>30, <1>31, <1>32, <1>33, <1>34,
     <1>35 DEF Good, SameSafe, Q

\* A page that comes from the free list need not be journaled.
LEMMA DontRollbackGood ==
    ASSUME NEW f, NEW P, NEW un, NEW lo, NEW fs, NEW mk, NEW st, NEW g \in Page,
           Good(mode, f, P, un, lo, fs, mk, st), IsCached(P, g), g \in un \ lo
    PROVE  LET Q == DontRollback(P, g)
           IN  /\ Good(mode, f, Q, un, lo, fs, mk, st)
               /\ SameSafe(mode, f, P, f, Q, fs)
               /\ SameContent(f, P, un, f, Q, un)
               /\ \A h \in Page : IsCached(P, h) => IsCached(Q, h)
               /\ Q.dbSize = P.dbSize /\ Q.state = P.state /\ Q.journalOpen = P.journalOpen
<1> DEFINE Q == DontRollback(P, g)
           d == P.hdr[g]
           main == ~d.inJournal /\ g <= P.origDbSize
           stmt == P.stmtInUse /\ ~d.inStmt /\ (main \/ g <= P.stmtSize)
           skip == P.state # "exclusive" \/ ~P.journalOpen \/ d.alwaysRollback \/ P.alwaysRollback
<1>1. /\ P \in PagerType /\ Sequences(P) /\ f \in FileType
      /\ NoJournal(f, P, un, fs, mk) /\ Sizes(f, P, st) /\ Lists(P, un, lo, fs)
      /\ LastPage(f, P, lo, st) /\ Statement(f, P, un, mk) /\ Doing(mode, P, un, lo, mk, st)
      /\ \A h \in Page : PageGood(mode, f, P, un, lo, fs, mk, st, h)
  BY Unpacked
<1>0. /\ P.dbSize \in Nat /\ P.origDbSize \in Nat /\ P.stmtSize \in Nat /\ f.size \in Nat
      /\ \A h \in Page : h \in Nat
      /\ P.dbSize > 0 => P.dbSize \in Page
      /\ P.stmtSize > 0 => P.stmtSize \in Page
  BY <1>1, Numbers
<1>2. CASE skip
  <2>1. Q = P
    BY <1>2 DEF DontRollback
  <2> HIDE DEF Q
  <2> QED
    BY <2>1 DEF Q, SameSafe, SameContent
<1>3. CASE ~skip
  <2>2. /\ Q \in PagerType /\ SameSetting(P, Q) /\ SameJournals(P, Q)
        /\ Q.dbSize = P.dbSize /\ Q.dirtyCache = P.dirtyCache /\ Q.needSync = P.needSync
        /\ \A i \in Page \ {g} : Q.hdr[i] = P.hdr[i]
        /\ Q.hdr[g].data = d.data /\ Q.hdr[g].dirty = d.dirty
        /\ Q.hdr[g].inJournal <=> d.inJournal \/ main
        /\ Q.hdr[g].needSync = d.needSync
        /\ Q.hdr[g].inStmt <=> d.inStmt \/ stmt
        /\ Q.hdr[g].alwaysRollback = d.alwaysRollback
        /\ Q.aInJournal = IF main THEN P.aInJournal \cup {g} ELSE P.aInJournal
        /\ Q.aInStmt = IF stmt THEN P.aInStmt \cup {g} ELSE P.aInStmt
    BY <1>1, <1>3, DontRollbackIs
  <2> HIDE DEF Q
  <2>3. /\ Sequences(Q)
        /\ InMain(Q) = InMain(P) /\ InCounted(mode, Q) = InCounted(mode, P) /\ InStmt(Q) = InStmt(P)
        /\ \A h : /\ MainSays(Q, h) = MainSays(P, h) /\ StmtSays(Q, h) = StmtSays(P, h)
                  /\ CountedSays(mode, Q, h) = CountedSays(mode, P, h)
    BY <1>1, <2>2, SameSays
  <2>4. /\ Q.state = P.state /\ Q.dbSize = P.dbSize /\ Q.dirtyCache = P.dirtyCache
        /\ Q.journalOpen = P.journalOpen /\ Q.origDbSize = P.origDbSize
        /\ Q.needSync = P.needSync /\ Q.alwaysRollback = P.alwaysRollback
        /\ Q.journal = P.journal /\ Q.nRec = P.nRec
        /\ Q.stmtAutoopen = P.stmtAutoopen /\ Q.stmtInUse = P.stmtInUse
        /\ Q.stmtSize = P.stmtSize /\ Q.stmtStart = P.stmtStart /\ Q.stmtJournal = P.stmtJournal
    BY <2>2 DEF SameSetting, SameJournals
  <2>5. IsCached(Q, g) /\ \A h \in Page : IsCached(P, h) <=> IsCached(Q, h)
    BY <2>2 DEF IsCached
  <2>6. PageGood(mode, f, P, un, lo, fs, mk, st, g)
    BY <1>1
  <2>7. Dirtier(P, Q) /\ \A h \in Page \ {g} : SameAt(mode, P, Q, h)
    BY <2>2, <2>3, <2>4 DEF Dirtier, SameAt
  <2>8. ASSUME NEW h \in Page
        PROVE  /\ SafeAt(mode, f, Q, h) = SafeAt(mode, f, P, h)
               /\ ContentOf(f, Q, un, h) = ContentOf(f, P, un, h)
    BY <2>2, <2>3, <2>4 DEF SafeAt, ContentOf, IsCached
  <2>9. ~Always(P, g)
    BY <1>3 DEF Always
  <2>10. /\ main => g \notin P.aInJournal /\ g \in fs.unused
         /\ stmt => g <= P.stmtSize /\ g \notin P.aInStmt
    BY <1>0, <1>1, <2>6, <2>9 DEF PageGood, BitmapAt, FreeAt, StmtBitmapAt, Statement
  <2>11. stmt => mk[g] = Unused
    BY <1>0, <1>1, <2>6, <2>9, <2>10 DEF PageGood, StmtOriginalAt
  <2>20. FlagsAt(mode, Q, un, mk, g)
    BY <2>2, <2>4, <2>5, <2>6 DEF PageGood, FlagsAt
  <2>21. BitmapAt(Q, fs, g)
    BY <2>2, <2>3, <2>4, <2>5, <2>6, <2>10 DEF PageGood, BitmapAt
  <2>22. OriginalAt(mode, f, Q, fs, st, g)
    BY <2>2, <2>3, <2>4, <2>5, <2>6, <2>10 DEF PageGood, OriginalAt
  <2>23. FreeAt(Q, un, lo, fs, mk, st, g)
    BY <2>2, <2>4, <2>6 DEF PageGood, FreeAt, Always
  <2>24. CleanAt(f, Q, un, g)
    BY <2>2, <2>4, <2>5, <2>6 DEF PageGood, CleanAt
  <2>25. StmtBitmapAt(Q, mk, g)
    BY <1>0, <2>2, <2>3, <2>4, <2>5, <2>6, <2>10, <2>11, <2>21 DEF PageGood, StmtBitmapAt, BitmapAt
  <2>26. StmtOriginalAt(f, Q, un, lo, mk, st, g)
    BY <2>2, <2>3, <2>4, <2>5, <2>6 DEF PageGood, StmtOriginalAt, Always
  <2>27. PageGood(mode, f, Q, un, lo, fs, mk, st, g)
    BY <2>20, <2>21, <2>22, <2>23, <2>24, <2>25, <2>26 DEF PageGood
  <2>28. ASSUME NEW h \in Page \ {g}
         PROVE  PageGood(mode, f, Q, un, lo, fs, mk, st, h)
    BY <1>1, <2>4, <2>7, PageFrame
  <2>30. NoJournal(f, Q, un, fs, mk)
    BY <1>3, <2>4 DEF NoJournal
  <2>31. Sizes(f, Q, st)
    BY <1>1, <2>4 DEF Sizes
  <2>32. Lists(Q, un, lo, fs)
    BY <1>1 DEF Lists
  <2>33. LastPage(f, Q, lo, st)
    BY <1>0, <1>1, <2>2, <2>4 DEF LastPage
  <2>34. Statement(f, Q, un, mk)
    BY <1>0, <1>1, <1>3, <2>2, <2>4 DEF Statement
  <2>35. Doing(mode, Q, un, lo, mk, st)
    BY <1>1, <2>2, <2>4, <2>5 DEF Doing, Logged
  <2> QED
    BY <1>1, <2>2, <2>3, <2>4, <2>5, <2>8, <2>27, <2>28, <2>30, <2>31, <2>32, <2>33, <2>34, <2>35
    DEF Good, SameSafe, SameContent, Q
<1> QED
  BY <1>2, <1>3

\* Syncing the journal keeps the invariant: every record counts now.
LEMMA JournalSyncedGood ==
    ASSUME NEW f, NEW P, NEW un, NEW lo, NEW fs, NEW mk, NEW st,
           Good(mode, f, P, un, lo, fs, mk, st)
    PROVE  LET Q == JournalSynced(P)
           IN  /\ Good(mode, f, Q, un, lo, fs, mk, st)
               /\ SameSafe(mode, f, P, f, Q, fs)
               /\ SameContent(f, P, un, f, Q, un)
               /\ \A h \in Page : IsCached(P, h) => IsCached(Q, h)
               /\ ~Q.needSync /\ Q.state = P.state /\ Q.dbSize = P.dbSize
               /\ Q.journalOpen = P.journalOpen /\ Q.dirtyCache = P.dirtyCache
               /\ Q.origDbSize = P.origDbSize /\ Q.aInJournal = P.aInJournal
<1> DEFINE Q == JournalSynced(P)
<1>1. /\ P \in PagerType /\ Sequences(P) /\ f \in FileType
      /\ NoJournal(f, P, un, fs, mk) /\ Sizes(f, P, st) /\ Lists(P, un, lo, fs)
      /\ LastPage(f, P, lo, st) /\ Statement(f, P, un, mk) /\ Doing(mode, P, un, lo, mk, st)
      /\ \A h \in Page : PageGood(mode, f, P, un, lo, fs, mk, st, h)
  BY Unpacked
<1>0. /\ P.dbSize \in Nat /\ P.origDbSize \in Nat /\ P.stmtSize \in Nat /\ f.size \in Nat
      /\ \A h \in Page : h \in Nat /\ P.hdr[h] \in Header
      /\ P.dbSize > 0 => P.dbSize \in Page
      /\ P.stmtSize > 0 => P.stmtSize \in Page
      /\ InCounted(mode, P) \subseteq InMain(P)
      /\ mode # "normal" => InCounted(mode, P) = InMain(P)
      /\ \A g \in InCounted(mode, P) : CountedSays(mode, P, g) = MainSays(P, g)
  BY <1>1, Numbers, CountedIn
<1>2. CASE ~P.needSync
  <2>1. Q = P
    BY <1>1, <1>2 DEF JournalSynced
  <2> HIDE DEF Q
  <2> QED
    BY <1>2, <2>1 DEF Q, SameSafe, SameContent
<1>3. CASE P.needSync
  <2>2. /\ Q \in PagerType /\ ~Q.needSync
        /\ \A g \in Page : Q.hdr[g] = [P.hdr[g] EXCEPT !.needSync = FALSE]
        /\ Q.nRec = Len(P.journal) /\ Q.journalStarted
        /\ Q.state = P.state /\ Q.dbSize = P.dbSize /\ Q.dirtyCache = P.dirtyCache
        /\ Q.journalOpen = P.journalOpen /\ Q.origDbSize = P.origDbSize
        /\ Q.alwaysRollback = P.alwaysRollback /\ Q.aInJournal = P.aInJournal
        /\ Q.stmtAutoopen = P.stmtAutoopen /\ Q.stmtInUse = P.stmtInUse
        /\ Q.stmtSize = P.stmtSize /\ Q.aInStmt = P.aInStmt
        /\ Q.stmtStart = P.stmtStart /\ Q.journal = P.journal
        /\ Q.stmtJournal = P.stmtJournal
    BY <1>1, <1>3, JournalSyncedIs
  <2> HIDE DEF Q
  <2>3. ASSUME NEW h \in Page
        PROVE  /\ Q.hdr[h].data = P.hdr[h].data /\ (Q.hdr[h].dirty <=> P.hdr[h].dirty)
               /\ (Q.hdr[h].inJournal <=> P.hdr[h].inJournal) /\ ~Q.hdr[h].needSync
               /\ (Q.hdr[h].inStmt <=> P.hdr[h].inStmt)
               /\ (Q.hdr[h].alwaysRollback <=> P.hdr[h].alwaysRollback)
               /\ IsCached(Q, h) <=> IsCached(P, h)
               /\ P.hdr[h] = Absent => Q.hdr[h] = Absent
    <3>1. P.hdr[h] \in Header /\ Q.hdr[h] = [P.hdr[h] EXCEPT !.needSync = FALSE]
      BY <1>0, <2>2
    <3>2. Q.hdr[h].data = P.hdr[h].data /\ Q.hdr[h].dirty = P.hdr[h].dirty
          /\ Q.hdr[h].inJournal = P.hdr[h].inJournal /\ ~Q.hdr[h].needSync
          /\ Q.hdr[h].inStmt = P.hdr[h].inStmt
          /\ Q.hdr[h].alwaysRollback = P.hdr[h].alwaysRollback
      BY <3>1 DEF Header
    <3>3. Q.hdr[h] \in Header
      BY <2>2 DEF PagerType
    <3>4. P.hdr[h] = Absent => Q.hdr[h].needSync = Absent.needSync
      BY <3>2, <3>3 DEF Absent, Header
    <3>5. P.hdr[h] = Absent => Q.hdr[h] = Absent
      BY <3>2, <3>3, <3>4, AbsentTyped, SameHeader
    <3> QED
      BY <3>2, <3>5 DEF IsCached
  <2>4. CountedOf(mode, Q) = P.journal /\ Sequences(Q)
    <3>1. P.journal \in Seq(Record)
      BY <1>1 DEF PagerType
    <3>2. SubSeq(P.journal, 1, Len(P.journal)) = P.journal /\ Len(P.journal) \in Nat
      BY <3>1
    <3>3. StmtRecords(Q) = StmtRecords(P)
      BY <2>2 DEF StmtRecords
    <3>4. CountedOf(mode, Q) = P.journal
      BY <2>2, <3>2 DEF CountedOf
    <3>5. Sequences(Q)
      BY <1>1, <2>2, <3>2, <3>3 DEF Sequences
    <3> QED
      BY <3>4, <3>5
  <2>5. /\ InMain(Q) = InMain(P) /\ InCounted(mode, Q) = InMain(P) /\ InStmt(Q) = InStmt(P)
        /\ \A h : /\ MainSays(Q, h) = MainSays(P, h) /\ StmtSays(Q, h) = StmtSays(P, h)
                  /\ CountedSays(mode, Q, h) = MainSays(P, h)
    BY <2>2, <2>4 DEF InMain, InCounted, InStmt, MainSays, StmtSays, CountedSays, StmtRecords
  <2>6. ASSUME NEW h \in Page
        PROVE  ContentOf(f, Q, un, h) = ContentOf(f, P, un, h)
    BY <2>2, <2>3 DEF ContentOf
  <2>7. ASSUME NEW h \in Page \ fs.unused
        PROVE  SafeAt(mode, f, Q, h) = SafeAt(mode, f, P, h)
    <3>1. CASE h \in InMain(P) \ InCounted(mode, P) /\ h <= P.origDbSize
      BY <1>0, <1>1, <2>2, <2>5, <3>1 DEF SafeAt, PageGood, OriginalAt, OnFile, StoredIn
    <3>2. CASE h \notin InMain(P) \ InCounted(mode, P) \/ ~(h <= P.origDbSize)
      BY <1>0, <2>2, <2>5, <3>2 DEF SafeAt
    <3> QED
      BY <3>1, <3>2
  <2>28. ASSUME NEW g \in Page
         PROVE  PageGood(mode, f, Q, un, lo, fs, mk, st, g)
    <3>1. PageGood(mode, f, P, un, lo, fs, mk, st, g)
      BY <1>1
    <3>20. FlagsAt(mode, Q, un, mk, g)
      BY <2>2, <2>3, <3>1 DEF PageGood, FlagsAt
    <3>21. BitmapAt(Q, fs, g)
      BY <2>2, <2>3, <2>5, <3>1 DEF PageGood, BitmapAt
    <3>22. OriginalAt(mode, f, Q, fs, st, g)
      BY <1>0, <2>2, <2>3, <2>5, <3>1 DEF PageGood, OriginalAt
    <3>23. FreeAt(Q, un, lo, fs, mk, st, g)
      BY <2>2, <2>3, <3>1 DEF PageGood, FreeAt, Always
    <3>24. CleanAt(f, Q, un, g)
      BY <2>2, <2>3, <3>1 DEF PageGood, CleanAt
    <3>25. StmtBitmapAt(Q, mk, g)
      BY <2>2, <2>3, <2>5, <3>1 DEF PageGood, StmtBitmapAt
    <3>26. StmtOriginalAt(f, Q, un, lo, mk, st, g)
      BY <2>2, <2>3, <2>5, <3>1 DEF PageGood, StmtOriginalAt, Always
    <3> QED
      BY <3>20, <3>21, <3>22, <3>23, <3>24, <3>25, <3>26 DEF PageGood
  <2>30. NoJournal(f, Q, un, fs, mk)
    BY <1>1, <1>3, <2>2 DEF NoJournal
  <2>31. Sizes(f, Q, st)
    BY <1>1, <2>2 DEF Sizes
  <2>32. Lists(Q, un, lo, fs)
    BY <1>1 DEF Lists
  <2>33. LastPage(f, Q, lo, st)
    BY <1>0, <1>1, <2>2, <2>3 DEF LastPage
  <2>34. Statement(f, Q, un, mk)
    BY <1>0, <1>1, <2>2, <2>3, <2>6 DEF Statement
  <2>35. Doing(mode, Q, un, lo, mk, st)
    BY <1>1, <2>2, <2>3 DEF Doing, Logged
  <2> QED
    BY <1>1, <2>2, <2>3, <2>4, <2>6, <2>7, <2>28, <2>30, <2>31, <2>32, <2>33, <2>34, <2>35
    DEF Good, SameSafe, SameContent, Q
<1> QED
  BY <1>2, <1>3

\* A clean page, or one just written to the file, may leave the cache.
LEMMA ForgottenGood ==
    ASSUME NEW f, NEW P, NEW un, NEW lo, NEW fs, NEW mk, NEW st, NEW g \in Page,
           Good(mode, f, P, un, lo, fs, mk, st), IsCached(P, g),
           ~P.hdr[g].dirty, ~P.hdr[g].needSync
    PROVE  LET Q == Forgotten(P, g)
           IN  /\ Good(mode, f, Q, un, lo, fs, mk, st)
               /\ SameSafe(mode, f, P, f, Q, fs)
               /\ SameContent(f, P, un, f, Q, un)
               /\ \A h \in Page \ {g} : IsCached(P, h) => IsCached(Q, h)
<1> DEFINE Q == Forgotten(P, g)
<1>1. /\ P \in PagerType /\ Sequences(P) /\ f \in FileType
      /\ NoJournal(f, P, un, fs, mk) /\ Sizes(f, P, st) /\ Lists(P, un, lo, fs)
      /\ LastPage(f, P, lo, st) /\ Statement(f, P, un, mk) /\ Doing(mode, P, un, lo, mk, st)
      /\ \A h \in Page : PageGood(mode, f, P, un, lo, fs, mk, st, h)
  BY Unpacked
<1>0. /\ P.dbSize \in Nat /\ P.origDbSize \in Nat /\ P.stmtSize \in Nat /\ f.size \in Nat
      /\ \A h \in Page : h \in Nat /\ P.hdr[h] \in Header
      /\ P.dbSize > 0 => P.dbSize \in Page
      /\ P.stmtSize > 0 => P.stmtSize \in Page
  BY <1>1, Numbers
<1>2. /\ Q \in PagerType /\ Q.hdr[g] = Absent
      /\ \A i \in Page \ {g} : Q.hdr[i] = P.hdr[i]
      /\ Q.alwaysRollback <=> P.alwaysRollback \/ P.hdr[g].alwaysRollback
      /\ Q.state = P.state /\ Q.dbSize = P.dbSize /\ Q.dirtyCache = P.dirtyCache
      /\ Q.journalOpen = P.journalOpen /\ Q.origDbSize = P.origDbSize
      /\ Q.needSync = P.needSync /\ Q.journalStarted = P.journalStarted
      /\ Q.aInJournal = P.aInJournal
      /\ Q.stmtAutoopen = P.stmtAutoopen /\ Q.stmtInUse = P.stmtInUse
      /\ Q.stmtSize = P.stmtSize /\ Q.aInStmt = P.aInStmt
      /\ SameJournals(P, Q)
  BY <1>1, ForgottenIs
<1> HIDE DEF Q
<1>3. /\ Sequences(Q)
      /\ InMain(Q) = InMain(P) /\ InCounted(mode, Q) = InCounted(mode, P) /\ InStmt(Q) = InStmt(P)
      /\ \A h : /\ MainSays(Q, h) = MainSays(P, h) /\ StmtSays(Q, h) = StmtSays(P, h)
                /\ CountedSays(mode, Q, h) = CountedSays(mode, P, h)
  BY <1>1, <1>2, SameSays
<1>4. /\ Q.journal = P.journal /\ Q.nRec = P.nRec
      /\ Q.stmtStart = P.stmtStart /\ Q.stmtJournal = P.stmtJournal
  BY <1>2 DEF SameJournals
<1>5. /\ ~IsCached(Q, g) /\ \A h \in Page \ {g} : IsCached(P, h) <=> IsCached(Q, h)
      /\ ~Q.hdr[g].dirty /\ ~Q.hdr[g].inJournal /\ ~Q.hdr[g].needSync
      /\ ~Q.hdr[g].inStmt /\ ~Q.hdr[g].alwaysRollback
  BY <1>2, AbsentTyped DEF IsCached
<1>6. PageGood(mode, f, P, un, lo, fs, mk, st, g)
  BY <1>1
<1>7. Dirtier(P, Q) /\ \A h \in Page \ {g} : SameAt(mode, P, Q, h)
  BY <1>2, <1>3 DEF Dirtier, SameAt
<1>8. g \notin Waiting(st)
  BY <1>1 DEF Doing, Waiting
<1>9. g \notin un /\ g <= P.dbSize => g <= f.size /\ P.hdr[g].data = f.page[g]
  BY <1>6 DEF PageGood, CleanAt
<1>10. ASSUME NEW h \in Page
       PROVE  ContentOf(f, Q, un, h) = ContentOf(f, P, un, h)
  <2>1. CASE h = g
    BY <1>0, <1>2, <1>5, <1>9, <2>1 DEF ContentOf, StoredIn
  <2>2. CASE h # g
    BY <1>2, <1>5, <2>2 DEF ContentOf
  <2> QED
    BY <2>1, <2>2
<1>11. ASSUME NEW h \in Page
       PROVE  SafeAt(mode, f, Q, h) = SafeAt(mode, f, P, h)
  BY <1>2, <1>3 DEF SafeAt
<1>20. FlagsAt(mode, Q, un, mk, g)
  BY <1>2, <1>5 DEF FlagsAt
<1>21. BitmapAt(Q, fs, g)
  BY <1>2, <1>3, <1>5, <1>6 DEF PageGood, BitmapAt
<1>22. OriginalAt(mode, f, Q, fs, st, g)
  BY <1>2, <1>3, <1>5, <1>6, <1>8 DEF PageGood, OriginalAt
<1>23. FreeAt(Q, un, lo, fs, mk, st, g)
  BY <1>2, <1>6 DEF PageGood, FreeAt, Always
<1>24. CleanAt(f, Q, un, g)
  BY <1>2, <1>5, <1>9 DEF CleanAt
<1>25. StmtBitmapAt(Q, mk, g)
  BY <1>2, <1>3, <1>5, <1>6 DEF PageGood, StmtBitmapAt
<1>26. StmtOriginalAt(f, Q, un, lo, mk, st, g)
  BY <1>2, <1>3, <1>5, <1>6 DEF PageGood, StmtOriginalAt, Always
<1>27. PageGood(mode, f, Q, un, lo, fs, mk, st, g)
  BY <1>20, <1>21, <1>22, <1>23, <1>24, <1>25, <1>26 DEF PageGood
<1>28. ASSUME NEW h \in Page \ {g}
       PROVE  PageGood(mode, f, Q, un, lo, fs, mk, st, h)
  BY <1>1, <1>2, <1>7, PageFrame
<1>30. NoJournal(f, Q, un, fs, mk)
  BY <1>1, <1>2, <1>4, <1>5 DEF NoJournal
<1>31. Sizes(f, Q, st)
  BY <1>1, <1>2 DEF Sizes
<1>32. Lists(Q, un, lo, fs)
  BY <1>1 DEF Lists
<1>33. LastPage(f, Q, lo, st)
  BY <1>0, <1>1, <1>2 DEF LastPage
<1>34. Statement(f, Q, un, mk)
  BY <1>0, <1>1, <1>2, <1>4, <1>5, <1>10 DEF Statement
<1>35. Doing(mode, Q, un, lo, mk, st)
  BY <1>1, <1>2, <1>5 DEF Doing, Logged
<1> QED
  BY <1>1, <1>2, <1>3, <1>5, <1>10, <1>11, <1>27, <1>28, <1>30, <1>31, <1>32, <1>33, <1>34, <1>35
  DEF Good, SameSafe, SameContent, Q

-----------------------------------------------------------------------------
(* What is done to the file.                                               *)

\* The file cut or extended, page by page.
LEMMA CutIs ==
    ASSUME NEW f \in FileType, NEW n \in 0 .. MaxPage
    PROVE  LET e == Cut(f, n)
           IN  /\ e \in FileType /\ e.size = n
               /\ \A h \in Page : e.page[h] = IF h > n THEN Missing
                                              ELSE IF h > f.size THEN 0 ELSE f.page[h]
               /\ \A h \in Page : StoredIn(e, h) = IF h > n THEN 0 ELSE StoredIn(f, h)
<1> DEFINE e == Cut(f, n)
<1>1. /\ f.size \in Nat /\ n \in Nat /\ \A h \in Page : h \in Nat
      /\ f.size \in 0 .. MaxPage /\ f.page \in [Page -> Value \cup {Missing}]
      /\ \A h \in Page : f.page[h] = Missing <=> h > f.size
      /\ 0 # Missing /\ 0 \in Value
  BY BoundAssumption DEF FileType, Page, Missing, Value
<1>2. /\ e.size = n
      /\ \A h \in Page : e.page[h] = IF h > n THEN Missing
                                     ELSE IF h > f.size THEN 0 ELSE f.page[h]
  <2>1. CASE n = f.size
    BY <1>1, <2>1 DEF Cut
  <2>2. CASE n # f.size
    BY <1>1, <2>2 DEF Cut
  <2> QED
    BY <2>1, <2>2
<1>3. e \in FileType
  <2>1. CASE n = f.size
    BY <2>1 DEF Cut
  <2>2. CASE n # f.size
    <3>1. \A h \in Page : e.page[h] = Missing <=> h > n
      BY <1>1, <1>2
    <3>2. e \in [page : [Page -> Value \cup {Missing}], size : 0 .. MaxPage]
      BY <1>1, <2>2 DEF Cut
    <3> QED
      BY <1>2, <3>1, <3>2 DEF FileType
  <2> QED
    BY <2>1, <2>2
<1>4. ASSUME NEW h \in Page
      PROVE  StoredIn(e, h) = IF h > n THEN 0 ELSE StoredIn(f, h)
  BY <1>1, <1>2 DEF StoredIn
<1> QED
  BY <1>2, <1>3, <1>4

\* The file with one page written, page by page.
LEMMA PutIs ==
    ASSUME NEW f \in FileType, NEW g \in Page, NEW v \in Value
    PROVE  LET e == Put(f, g, v)
           IN  /\ e \in FileType
               /\ e.size = IF g > f.size THEN g ELSE f.size
               /\ e.page[g] = v
               /\ \A h \in Page \ {g} : StoredIn(e, h) = StoredIn(f, h)
               /\ \A h \in Page \ {g} : h <= f.size => e.page[h] = f.page[h]
<1> DEFINE n == IF g > f.size THEN g ELSE f.size
           l == Cut(f, n)
           e == Put(f, g, v)
<1>1. /\ f.size \in Nat /\ n \in Nat /\ n \in 0 .. MaxPage /\ \A h \in Page : h \in Nat
      /\ g <= n /\ f.size <= n /\ v # Missing
  BY BoundAssumption DEF FileType, Page, Missing, Value
<1>2. /\ l \in FileType /\ l.size = n
      /\ \A h \in Page : l.page[h] = IF h > n THEN Missing
                                     ELSE IF h > f.size THEN 0 ELSE f.page[h]
      /\ \A h \in Page : StoredIn(l, h) = IF h > n THEN 0 ELSE StoredIn(f, h)
  BY <1>1, CutIs
<1>3. e = [l EXCEPT !.page[g] = v]
  <2>1. (IF g > f.size THEN Cut(f, g) ELSE f) = l
    BY DEF Cut
  <2> HIDE DEF l, n
  <2> QED
    BY <2>1 DEF Put
<1> HIDE DEF l, e, n
<1>4. e.size = n /\ e.page[g] = v /\ (\A h \in Page \ {g} : e.page[h] = l.page[h])
      /\ e \in [page : [Page -> Value \cup {Missing}], size : 0 .. MaxPage]
  BY <1>2, <1>3 DEF FileType
<1>5. e \in FileType
  BY <1>1, <1>2, <1>4 DEF FileType
<1>6. ASSUME NEW h \in Page \ {g}
      PROVE  /\ StoredIn(e, h) = StoredIn(f, h)
             /\ h <= f.size => e.page[h] = f.page[h]
  BY <1>1, <1>2, <1>4 DEF StoredIn
<1> QED
  BY <1>4, <1>5, <1>6 DEF e, n

\* The file after a playback, page by page.
LEMMA PlayedIs ==
    ASSUME NEW f \in FileType, NEW s \in Seq(Record), Once(s), NEW pages
    PROVE  LET e == Played(f, s, pages)
           IN  /\ e \in FileType /\ e.size = f.size
               /\ \A h \in Page : e.page[h] = IF h <= f.size /\ h \in pages \cap PagesOf(s)
                                              THEN LastOf(s, h) ELSE f.page[h]
<1> DEFINE e == Played(f, s, pages)
           w == [h \in Page |-> IF h <= f.size /\ h \in pages \cap PagesOf(s)
                                THEN LastOf(s, h) ELSE f.page[h]]
<1>1. /\ f.size \in Nat /\ f.size \in 0 .. MaxPage /\ (\A h \in Page : h \in Nat)
      /\ f.page \in [Page -> Value \cup {Missing}]
      /\ \A h \in Page : f.page[h] = Missing <=> h > f.size
      /\ Missing \notin Value
  BY BoundAssumption DEF FileType, Page, Missing, Value
<1>2. e = [f EXCEPT !.page = w]
  BY DEF Played
<1>3. \A h \in PagesOf(s) : LastOf(s, h) \in Value
  BY RecordIn
<1>4. w \in [Page -> Value \cup {Missing}] /\ \A h \in Page : w[h] = Missing <=> h > f.size
  BY <1>1, <1>3
<1>5. \A h \in Page : w[h] = IF h <= f.size /\ h \in pages \cap PagesOf(s)
                             THEN LastOf(s, h) ELSE f.page[h]
  OBVIOUS
<1> HIDE DEF e, w
<1>6. e.page = w /\ e.size = f.size /\ e \in FileType
  BY <1>1, <1>2, <1>4 DEF FileType
<1> QED
  BY <1>5, <1>6 DEF e

\* A page that was changed, and waits for no journal, is written.
LEMMA SpillGood ==
    ASSUME NEW f, NEW P, NEW un, NEW lo, NEW fs, NEW mk, NEW st, NEW g \in Page,
           Good(mode, f, P, un, lo, fs, mk, st), IsCached(P, g), st.call # "store",
           P.hdr[g].dirty, ~P.hdr[g].needSync
    PROVE  LET e == IF g <= P.dbSize THEN Put(f, g, P.hdr[g].data) ELSE f
               Q == [Forgotten(P, g) EXCEPT !.state = "exclusive"]
           IN  /\ Good(mode, e, Q, un, lo, fs, mk, st)
               /\ SameSafe(mode, f, P, e, Q, fs)
               /\ SameContent(f, P, un, e, Q, un)
               /\ \A h \in Page \ {g} : IsCached(P, h) => IsCached(Q, h)
<1> DEFINE F == Forgotten(P, g)
           Q == [F EXCEPT !.state = "exclusive"]
           e == IF g <= P.dbSize THEN Put(f, g, P.hdr[g].data) ELSE f
<1>1. /\ P \in PagerType /\ Sequences(P) /\ f \in FileType
      /\ NoJournal(f, P, un, fs, mk) /\ Sizes(f, P, st) /\ Lists(P, un, lo, fs)
      /\ LastPage(f, P, lo, st) /\ Statement(f, P, un, mk) /\ Doing(mode, P, un, lo, mk, st)
      /\ \A h \in Page : PageGood(mode, f, P, un, lo, fs, mk, st, h)
  BY Unpacked
<1>0. /\ P.dbSize \in Nat /\ P.origDbSize \in Nat /\ P.stmtSize \in Nat /\ f.size \in Nat
      /\ \A h \in Page : h \in Nat /\ P.hdr[h] \in Header
      /\ P.dbSize > 0 => P.dbSize \in Page
      /\ P.stmtSize > 0 => P.stmtSize \in Page
      /\ InCounted(mode, P) \subseteq InMain(P)
  BY <1>1, Numbers, CountedIn
<1>2. /\ Q \in PagerType /\ Q.hdr[g] = Absent
      /\ \A i \in Page \ {g} : Q.hdr[i] = P.hdr[i]
      /\ Q.alwaysRollback <=> P.alwaysRollback \/ P.hdr[g].alwaysRollback
      /\ Q.state = "exclusive" /\ Q.dbSize = P.dbSize /\ Q.dirtyCache = P.dirtyCache
      /\ Q.journalOpen = P.journalOpen /\ Q.origDbSize = P.origDbSize
      /\ Q.needSync = P.needSync /\ Q.journalStarted = P.journalStarted
      /\ Q.aInJournal = P.aInJournal
      /\ Q.stmtAutoopen = P.stmtAutoopen /\ Q.stmtInUse = P.stmtInUse
      /\ Q.stmtSize = P.stmtSize /\ Q.aInStmt = P.aInStmt
      /\ SameJournals(P, Q)
  <2>1. /\ F \in PagerType /\ F.hdr[g] = Absent
        /\ \A i \in Page \ {g} : F.hdr[i] = P.hdr[i]
        /\ F.alwaysRollback <=> P.alwaysRollback \/ P.hdr[g].alwaysRollback
        /\ F.state = P.state /\ F.dbSize = P.dbSize /\ F.dirtyCache = P.dirtyCache
        /\ F.journalOpen = P.journalOpen /\ F.origDbSize = P.origDbSize
        /\ F.needSync = P.needSync /\ F.journalStarted = P.journalStarted
        /\ F.aInJournal = P.aInJournal
        /\ F.stmtAutoopen = P.stmtAutoopen /\ F.stmtInUse = P.stmtInUse
        /\ F.stmtSize = P.stmtSize /\ F.aInStmt = P.aInStmt
        /\ SameJournals(P, F)
    BY <1>1, ForgottenIs
  <2> HIDE DEF F
  <2>2. /\ Q \in PagerType /\ Q.hdr = F.hdr /\ Q.alwaysRollback = F.alwaysRollback
        /\ Q.state = "exclusive" /\ Q.dbSize = F.dbSize /\ Q.dirtyCache = F.dirtyCache
        /\ Q.journalOpen = F.journalOpen /\ Q.origDbSize = F.origDbSize
        /\ Q.needSync = F.needSync /\ Q.journalStarted = F.journalStarted
        /\ Q.aInJournal = F.aInJournal
        /\ Q.stmtAutoopen = F.stmtAutoopen /\ Q.stmtInUse = F.stmtInUse
        /\ Q.stmtSize = F.stmtSize /\ Q.aInStmt = F.aInStmt
        /\ SameJournals(F, Q)
    BY <2>1 DEF PagerType, SameJournals
  <2> HIDE DEF Q
  <2> QED
    BY <2>1, <2>2 DEF SameJournals
<1> DEFINE v == P.hdr[g].data
<1>13. v \in Value
  BY <1>0 DEF Header, IsCached
<1>14. /\ e \in FileType /\ e.size \in Nat /\ f.size <= e.size
       /\ e.size = IF g <= P.dbSize /\ g > f.size THEN g ELSE f.size
       /\ g <= P.dbSize => g <= e.size /\ e.page[g] = v
       /\ \A h \in Page \ {g} : StoredIn(e, h) = StoredIn(f, h)
       /\ \A h \in Page \ {g} : h <= f.size => e.page[h] = f.page[h]
  <2> DEFINE l == Put(f, g, v)
  <2>1. /\ l \in FileType
        /\ l.size = IF g > f.size THEN g ELSE f.size
        /\ l.page[g] = v
        /\ \A h \in Page \ {g} : StoredIn(l, h) = StoredIn(f, h)
        /\ \A h \in Page \ {g} : h <= f.size => l.page[h] = f.page[h]
    BY <1>1, <1>13, PutIs
  <2>2. CASE g <= P.dbSize
    <3>1. e = l
      BY <2>2
    <3> HIDE DEF e, l
    <3> QED
      BY <1>0, <2>1, <2>2, <3>1
  <2>3. CASE ~(g <= P.dbSize)
    <3>1. e = f
      BY <2>3
    <3> HIDE DEF e, l
    <3> QED
      BY <1>0, <1>1, <2>3, <3>1
  <2> QED
    BY <2>2, <2>3
<1> HIDE DEF Q, e
<1>3. /\ Sequences(Q)
      /\ InMain(Q) = InMain(P) /\ InCounted(mode, Q) = InCounted(mode, P) /\ InStmt(Q) = InStmt(P)
      /\ \A h : /\ MainSays(Q, h) = MainSays(P, h) /\ StmtSays(Q, h) = StmtSays(P, h)
                /\ CountedSays(mode, Q, h) = CountedSays(mode, P, h)
  BY <1>1, <1>2, SameSays
<1>4. /\ Q.journal = P.journal /\ Q.nRec = P.nRec
      /\ Q.stmtStart = P.stmtStart /\ Q.stmtJournal = P.stmtJournal
  BY <1>2 DEF SameJournals
<1>5. /\ ~IsCached(Q, g) /\ \A h \in Page \ {g} : IsCached(P, h) <=> IsCached(Q, h)
      /\ ~Q.hdr[g].dirty /\ ~Q.hdr[g].inJournal /\ ~Q.hdr[g].needSync
      /\ ~Q.hdr[g].inStmt /\ ~Q.hdr[g].alwaysRollback
  BY <1>2, AbsentTyped DEF IsCached
<1>6. PageGood(mode, f, P, un, lo, fs, mk, st, g)
  BY <1>1
<1>7. Dirtier(P, Q) /\ \A h \in Page \ {g} : SameAt(mode, P, Q, h)
  BY <1>2, <1>3 DEF Dirtier, SameAt
<1>8. g \notin Waiting(st) /\ P.journalOpen /\ P.dirtyCache
  BY <1>1, <1>6 DEF Doing, Waiting, NoJournal, PageGood, FlagsAt
<1>10. ASSUME NEW h \in Page
       PROVE  ContentOf(e, Q, un, h) = ContentOf(f, P, un, h)
  <2>1. CASE h = g
    BY <1>0, <1>2, <1>5, <1>14, <2>1 DEF ContentOf, StoredIn
  <2>2. CASE h # g
    BY <1>2, <1>5, <1>14, <2>2 DEF ContentOf
  <2> QED
    BY <2>1, <2>2
<1>15. g \notin fs.unused /\ g <= P.origDbSize => g \in InCounted(mode, P)
  BY <1>6, <1>8 DEF PageGood, BitmapAt, OriginalAt
<1>11. ASSUME NEW h \in Page \ fs.unused
       PROVE  SafeAt(mode, e, Q, h) = SafeAt(mode, f, P, h)
  <2>1. CASE h = g
    BY <1>0, <1>2, <1>3, <1>8, <1>15, <2>1 DEF SafeAt
  <2>2. CASE h # g
    BY <1>2, <1>3, <1>8, <1>14, <2>2 DEF SafeAt
  <2> QED
    BY <2>1, <2>2
<1>20. FlagsAt(mode, Q, un, mk, g)
  BY <1>2, <1>5 DEF FlagsAt
<1>21. BitmapAt(Q, fs, g)
  BY <1>2, <1>3, <1>5, <1>6 DEF PageGood, BitmapAt
<1>22. OriginalAt(mode, e, Q, fs, st, g)
  BY <1>2, <1>3, <1>5, <1>6, <1>8, <1>15 DEF PageGood, OriginalAt
<1>23. FreeAt(Q, un, lo, fs, mk, st, g)
  BY <1>2, <1>6 DEF PageGood, FreeAt, Always
<1>24. CleanAt(e, Q, un, g)
  BY <1>2, <1>5, <1>14 DEF CleanAt
<1>25. StmtBitmapAt(Q, mk, g)
  BY <1>2, <1>3, <1>5, <1>6 DEF PageGood, StmtBitmapAt
<1>26. StmtOriginalAt(e, Q, un, lo, mk, st, g)
  BY <1>0, <1>1, <1>2, <1>3, <1>5, <1>6, <1>14 DEF PageGood, StmtOriginalAt, Always, OnFile, Statement
<1>27. PageGood(mode, e, Q, un, lo, fs, mk, st, g)
  BY <1>20, <1>21, <1>22, <1>23, <1>24, <1>25, <1>26 DEF PageGood
<1>28. ASSUME NEW h \in Page \ {g}
       PROVE  PageGood(mode, e, Q, un, lo, fs, mk, st, h)
  <2>1. h <= f.size => h <= e.size /\ e.page[h] = f.page[h]
    BY <1>0, <1>14
  <2> QED
    BY <1>1, <1>2, <1>7, <2>1, PageFrame
<1>30. NoJournal(e, Q, un, fs, mk)
  BY <1>2, <1>8 DEF NoJournal
<1>31. Sizes(e, Q, st)
  BY <1>0, <1>1, <1>2, <1>8, <1>14 DEF Sizes
<1>32. Lists(Q, un, lo, fs)
  BY <1>1 DEF Lists
<1>33. LastPage(e, Q, lo, st)
  BY <1>0, <1>1, <1>2, <1>8, <1>14 DEF LastPage
<1>34. Statement(e, Q, un, mk)
  BY <1>0, <1>1, <1>2, <1>4, <1>5, <1>8 DEF Statement
<1>35. Doing(mode, Q, un, lo, mk, st)
  BY <1>1, <1>2, <1>5 DEF Doing, Logged
<1> QED
  BY <1>1, <1>2, <1>3, <1>5, <1>10, <1>11, <1>14, <1>27, <1>28, <1>30, <1>31, <1>32, <1>33, <1>34, <1>35
  DEF Good, SameSafe, SameContent, Q, e

\* A page is no longer dirty.
LEMMA DirtySetIs ==
    ASSUME NEW P \in PagerType, NEW g \in Page
    PROVE  LET Q == [P EXCEPT !.hdr[g].dirty = FALSE]
               d == P.hdr[g]
           IN  /\ Q \in PagerType /\ SamePager(P, Q)
               /\ \A i \in Page \ {g} : Q.hdr[i] = P.hdr[i]
               /\ Q.hdr[g].data = d.data /\ ~Q.hdr[g].dirty
               /\ Q.hdr[g].inJournal = d.inJournal /\ Q.hdr[g].needSync = d.needSync
               /\ Q.hdr[g].inStmt = d.inStmt /\ Q.hdr[g].alwaysRollback = d.alwaysRollback
<1> DEFINE d == P.hdr[g]
           k == [d EXCEPT !.dirty = FALSE]
           Q == [P EXCEPT !.hdr[g].dirty = FALSE]
<1>1. d \in Header
  BY DEF PagerType
<1>2. k \in Header /\ k.data = d.data /\ ~k.dirty /\ k.inJournal = d.inJournal
      /\ k.needSync = d.needSync /\ k.inStmt = d.inStmt /\ k.alwaysRollback = d.alwaysRollback
  BY <1>1 DEF Header
<1>3. Q.hdr[g] = k
  BY DEF PagerType
<1> HIDE DEF k
<1>4. /\ Q \in PagerType /\ SamePager(P, Q) /\ \A i \in Page \ {g} : Q.hdr[i] = P.hdr[i]
  BY <1>2, <1>3 DEF PagerType, SamePager, SameJournals
<1> QED
  BY <1>2, <1>3, <1>4

\* The end of the transaction writes a page.
LEMMA StoreGood ==
    ASSUME NEW f, NEW P, NEW un, NEW lo, NEW fs, NEW mk, NEW st, NEW g \in Page,
           Good(mode, f, P, un, lo, fs, mk, st), st.call = "store", P.hdr[g].dirty
    PROVE  LET e == IF g <= P.dbSize THEN Put(f, g, P.hdr[g].data) ELSE f
               Q == [P EXCEPT !.hdr[g].dirty = FALSE]
           IN  /\ Good(mode, e, Q, un, lo, fs, mk, st)
               /\ SameSafe(mode, f, P, e, Q, fs)
               /\ SameContent(f, P, un, e, Q, un)
               /\ \A h \in Page : IsCached(P, h) => IsCached(Q, h)
<1> DEFINE Q == [P EXCEPT !.hdr[g].dirty = FALSE]
           e == IF g <= P.dbSize THEN Put(f, g, P.hdr[g].data) ELSE f
           d == P.hdr[g]
           v == P.hdr[g].data
<1>1. /\ P \in PagerType /\ Sequences(P) /\ f \in FileType
      /\ NoJournal(f, P, un, fs, mk) /\ Sizes(f, P, st) /\ Lists(P, un, lo, fs)
      /\ LastPage(f, P, lo, st) /\ Statement(f, P, un, mk) /\ Doing(mode, P, un, lo, mk, st)
      /\ \A h \in Page : PageGood(mode, f, P, un, lo, fs, mk, st, h)
  BY Unpacked
<1>0. /\ P.dbSize \in Nat /\ P.origDbSize \in Nat /\ P.stmtSize \in Nat /\ f.size \in Nat
      /\ \A h \in Page : h \in Nat /\ P.hdr[h] \in Header
      /\ P.dbSize > 0 => P.dbSize \in Page
      /\ P.stmtSize > 0 => P.stmtSize \in Page
      /\ InCounted(mode, P) \subseteq InMain(P)
  BY <1>1, Numbers, CountedIn
<1>2. /\ Q \in PagerType /\ SamePager(P, Q)
      /\ \A i \in Page \ {g} : Q.hdr[i] = P.hdr[i]
      /\ Q.hdr[g].data = d.data /\ ~Q.hdr[g].dirty
      /\ Q.hdr[g].inJournal = d.inJournal /\ Q.hdr[g].needSync = d.needSync
      /\ Q.hdr[g].inStmt = d.inStmt /\ Q.hdr[g].alwaysRollback = d.alwaysRollback
  BY <1>1, DirtySetIs
<1>6. PageGood(mode, f, P, un, lo, fs, mk, st, g)
  BY <1>1
<1>12. IsCached(P, g)
  BY <1>6, AbsentTyped DEF PageGood, FlagsAt
<1>13. v \in Value
  BY <1>0, <1>12 DEF Header, IsCached
<1>14. /\ e \in FileType /\ e.size \in Nat /\ f.size <= e.size
       /\ e.size = IF g <= P.dbSize /\ g > f.size THEN g ELSE f.size
       /\ g <= P.dbSize => g <= e.size /\ e.page[g] = v
       /\ \A h \in Page \ {g} : StoredIn(e, h) = StoredIn(f, h)
       /\ \A h \in Page \ {g} : h <= f.size => e.page[h] = f.page[h]
  <2> DEFINE l == Put(f, g, v)
  <2>1. /\ l \in FileType
        /\ l.size = IF g > f.size THEN g ELSE f.size
        /\ l.page[g] = v
        /\ \A h \in Page \ {g} : StoredIn(l, h) = StoredIn(f, h)
        /\ \A h \in Page \ {g} : h <= f.size => l.page[h] = f.page[h]
    BY <1>1, <1>13, PutIs
  <2>2. CASE g <= P.dbSize
    <3>1. e = l
      BY <2>2
    <3> HIDE DEF e, l
    <3> QED
      BY <1>0, <2>1, <2>2, <3>1
  <2>3. CASE ~(g <= P.dbSize)
    <3>1. e = f
      BY <2>3
    <3> HIDE DEF e, l
    <3> QED
      BY <1>0, <1>1, <2>3, <3>1
  <2> QED
    BY <2>2, <2>3
<1> HIDE DEF Q, e
<1>3. /\ Sequences(Q) /\ Dirtier(P, Q)
      /\ \A h \in Page \ {g} : SameAt(mode, P, Q, h)
      /\ InMain(Q) = InMain(P) /\ InCounted(mode, Q) = InCounted(mode, P) /\ InStmt(Q) = InStmt(P)
      /\ \A h : /\ MainSays(Q, h) = MainSays(P, h) /\ StmtSays(Q, h) = StmtSays(P, h)
                /\ CountedSays(mode, Q, h) = CountedSays(mode, P, h)
  BY <1>1, <1>2, PagerFrame, SameSays
<1>4. /\ Q.state = P.state /\ Q.dbSize = P.dbSize /\ Q.dirtyCache = P.dirtyCache
      /\ Q.journalOpen = P.journalOpen /\ Q.origDbSize = P.origDbSize
      /\ Q.needSync = P.needSync /\ Q.alwaysRollback = P.alwaysRollback
      /\ Q.aInJournal = P.aInJournal /\ Q.journal = P.journal /\ Q.nRec = P.nRec
      /\ Q.stmtAutoopen = P.stmtAutoopen /\ Q.stmtInUse = P.stmtInUse
      /\ Q.stmtSize = P.stmtSize /\ Q.aInStmt = P.aInStmt
      /\ Q.stmtStart = P.stmtStart /\ Q.stmtJournal = P.stmtJournal
  BY <1>2 DEF SamePager, SameJournals
<1>5. /\ \A h \in Page : IsCached(P, h) <=> IsCached(Q, h)
      /\ ~P.hdr[g].needSync
  BY <1>1, <1>2, <1>6 DEF IsCached, Doing, PageGood, FlagsAt
<1>8. /\ Waiting(st) = {} /\ P.journalOpen /\ P.dirtyCache /\ P.state = "exclusive"
      /\ mk = NoMark /\ ~P.stmtInUse
  BY <1>1 DEF Doing, Waiting, Statement
<1>10. ASSUME NEW h \in Page
       PROVE  ContentOf(e, Q, un, h) = ContentOf(f, P, un, h)
  <2>1. CASE h = g
    BY <1>0, <1>2, <1>4, <1>5, <1>12, <2>1 DEF ContentOf
  <2>2. CASE h # g
    BY <1>2, <1>4, <1>5, <1>14, <2>2 DEF ContentOf
  <2> QED
    BY <2>1, <2>2
<1>15. g \notin fs.unused /\ g <= P.origDbSize => g \in InCounted(mode, P)
  BY <1>5, <1>6, <1>8 DEF PageGood, BitmapAt, OriginalAt
<1>11. ASSUME NEW h \in Page \ fs.unused
       PROVE  SafeAt(mode, e, Q, h) = SafeAt(mode, f, P, h)
  <2>1. CASE h = g
    BY <1>0, <1>3, <1>4, <1>8, <1>15, <2>1 DEF SafeAt
  <2>2. CASE h # g
    BY <1>3, <1>4, <1>8, <1>14, <2>2 DEF SafeAt
  <2> QED
    BY <2>1, <2>2
<1>20. FlagsAt(mode, Q, un, mk, g)
  BY <1>2, <1>4, <1>5, <1>12 DEF FlagsAt
<1>21. BitmapAt(Q, fs, g)
  BY <1>2, <1>3, <1>4, <1>5, <1>6 DEF PageGood, BitmapAt
<1>22. OriginalAt(mode, e, Q, fs, st, g)
  BY <1>2, <1>3, <1>4, <1>5, <1>6, <1>8, <1>15 DEF PageGood, BitmapAt, OriginalAt
<1>23. FreeAt(Q, un, lo, fs, mk, st, g)
  BY <1>2, <1>4, <1>6 DEF PageGood, FreeAt, Always
<1>24. CleanAt(e, Q, un, g)
  BY <1>2, <1>4, <1>14 DEF CleanAt
<1>25. StmtBitmapAt(Q, mk, g)
  BY <1>4, <1>8 DEF StmtBitmapAt
<1>26. StmtOriginalAt(e, Q, un, lo, mk, st, g)
  BY <1>4, <1>8 DEF StmtOriginalAt
<1>27. PageGood(mode, e, Q, un, lo, fs, mk, st, g)
  BY <1>20, <1>21, <1>22, <1>23, <1>24, <1>25, <1>26 DEF PageGood
<1>28. ASSUME NEW h \in Page \ {g}
       PROVE  PageGood(mode, e, Q, un, lo, fs, mk, st, h)
  <2>1. h <= f.size => h <= e.size /\ e.page[h] = f.page[h]
    BY <1>0, <1>14
  <2> QED
    BY <1>1, <1>3, <1>4, <2>1, PageFrame
<1>30. NoJournal(e, Q, un, fs, mk)
  BY <1>4, <1>8 DEF NoJournal
<1>31. Sizes(e, Q, st)
  BY <1>0, <1>1, <1>4, <1>8, <1>14 DEF Sizes
<1>32. Lists(Q, un, lo, fs)
  BY <1>1 DEF Lists
<1>33. LastPage(e, Q, lo, st)
  BY <1>0, <1>1, <1>2, <1>4, <1>8, <1>14 DEF LastPage
<1>34. Statement(e, Q, un, mk)
  BY <1>0, <1>1, <1>2, <1>4, <1>8 DEF Statement
<1>35. Doing(mode, Q, un, lo, mk, st)
  BY <1>1, <1>4 DEF Doing, Logged
<1> QED
  BY <1>1, <1>2, <1>3, <1>5, <1>10, <1>11, <1>14, <1>27, <1>28, <1>30, <1>31, <1>32, <1>33, <1>34, <1>35
  DEF Good, SameSafe, SameContent, Q, e

-----------------------------------------------------------------------------
(* Moves.                                                                  *)

\* What the call under way is after a page was moved.
NextCall(st, g) ==
    IF st.next = "vacuum" THEN [call |-> "vacuum", size |-> st.size] ELSE [call |-> "root", from |-> g]
MovedCall(P, st, g) ==
    IF P.hdr[g].needSync THEN [call |-> "move", from |-> g, to |-> st.to, next |-> NextCall(st, g)]
    ELSE NextCall(st, g)

\* A page whose flags fit the new number may get it.
LEMMA MovedGood ==
    ASSUME NEW f, NEW P, NEW un, NEW lo, NEW fs, NEW mk, NEW st, NEW g \in Page,
           Good(mode, f, P, un, lo, fs, mk, st), st.call = "allocated",
           IsCached(P, g), g \notin un, g # 1, g <= P.dbSize, Flagged(P, g, st.to),
           st.next = "root" => Writable(P, g)
    PROVE  LET Q == Moved(P, g, st.to)
               wn == (un \ {st.to}) \cup {g}
               lp == lo \cup {g}
               su == MovedCall(P, st, g)
           IN  /\ Good(mode, f, Q, wn, lp, fs, mk, su)
               /\ SameSafe(mode, f, P, f, Q, fs)
               /\ st.to \in Page /\ st.to \in un /\ st.to # g
               /\ ContentOf(f, Q, wn, st.to) = ContentOf(f, P, un, g)
               /\ \A i \in Page \ {g, st.to} : ContentOf(f, Q, wn, i) = ContentOf(f, P, un, i)
               /\ IsCached(P, 1) => IsCached(Q, 1)
<1> DEFINE h == st.to
           Q == Moved(P, g, h)
           wn == (un \ {h}) \cup {g}
           lp == lo \cup {g}
           su == MovedCall(P, st, g)
           sync == IsCached(P, h) /\ P.hdr[h].needSync
<1>1. /\ P \in PagerType /\ Sequences(P) /\ f \in FileType
      /\ NoJournal(f, P, un, fs, mk) /\ Sizes(f, P, st) /\ Lists(P, un, lo, fs)
      /\ LastPage(f, P, lo, st) /\ Statement(f, P, un, mk) /\ Doing(mode, P, un, lo, mk, st)
      /\ \A i \in Page : PageGood(mode, f, P, un, lo, fs, mk, st, i)
  BY Unpacked
<1>0. /\ P.dbSize \in Nat /\ P.origDbSize \in Nat /\ P.stmtSize \in Nat /\ f.size \in Nat
      /\ \A i \in Page : i \in Nat
      /\ P.dbSize > 0 => P.dbSize \in Page
      /\ P.stmtSize > 0 => P.stmtSize \in Page
  BY <1>1, Numbers
<1>2. /\ P.journalOpen /\ P.dirtyCache
      /\ h \in Page /\ h \in un \ lo /\ h <= P.dbSize /\ h # g
      /\ h <= P.origDbSize => h \in P.aInJournal
      /\ P.stmtInUse /\ h <= P.stmtSize => h \in P.aInStmt
      /\ st.next \in {"root", "drop", "vacuum"} /\ (st.next # "root" => mk = NoMark)
      /\ P.stmtInUse => st.next = "root"
      /\ Waiting(st) = {} /\ Gone(st) = {}
  BY <1>1 DEF Doing, Logged, Waiting, Gone, Statement
<1>3. PageGood(mode, f, P, un, lo, fs, mk, st, g) /\ PageGood(mode, f, P, un, lo, fs, mk, st, h)
  BY <1>1, <1>2
<1>4. /\ Q \in PagerType /\ Q.hdr[g] = Absent
      /\ \A i \in Page \ {g, h} : Q.hdr[i] = P.hdr[i]
      /\ Q.hdr[h].data = P.hdr[g].data /\ Q.hdr[h].dirty
      /\ Q.hdr[h].inJournal <=> P.hdr[g].inJournal \/ sync
      /\ Q.hdr[h].needSync <=> P.hdr[g].needSync \/ sync
      /\ Q.hdr[h].inStmt = P.hdr[g].inStmt
      /\ Q.hdr[h].alwaysRollback = P.hdr[g].alwaysRollback
      /\ Q.dirtyCache /\ Q.dbSize = P.dbSize /\ SameSetting(P, Q) /\ SameJournals(P, Q)
      /\ Q.needSync = P.needSync /\ Q.aInJournal = P.aInJournal /\ Q.aInStmt = P.aInStmt
  BY <1>1, <1>2, MovedIs
<1>5. /\ h <= P.origDbSize /\ h \in P.aInJournal => Q.hdr[h].inJournal
      /\ P.stmtInUse /\ h <= P.stmtSize /\ h \in P.aInStmt => Q.hdr[h].inStmt
      /\ P.hdr[g].needSync => sync
  BY <1>2 DEF Flagged, Cached, IsCached
<1> HIDE DEF h, Q, sync
<1>6. /\ Sequences(Q)
      /\ InMain(Q) = InMain(P) /\ InCounted(mode, Q) = InCounted(mode, P) /\ InStmt(Q) = InStmt(P)
      /\ \A i : /\ MainSays(Q, i) = MainSays(P, i) /\ StmtSays(Q, i) = StmtSays(P, i)
                /\ CountedSays(mode, Q, i) = CountedSays(mode, P, i)
  BY <1>1, <1>4, SameSays
<1>7. /\ Q.state = P.state /\ Q.journalOpen = P.journalOpen /\ Q.origDbSize = P.origDbSize
      /\ Q.alwaysRollback = P.alwaysRollback /\ Q.nRec = P.nRec /\ Q.journal = P.journal
      /\ Q.stmtAutoopen = P.stmtAutoopen /\ Q.stmtInUse = P.stmtInUse
      /\ Q.stmtSize = P.stmtSize /\ Q.stmtStart = P.stmtStart /\ Q.stmtJournal = P.stmtJournal
  BY <1>4 DEF SameSetting, SameJournals
<1>8. /\ ~IsCached(Q, g) /\ IsCached(Q, h)
      /\ \A i \in Page \ {g, h} : IsCached(P, i) <=> IsCached(Q, i)
      /\ ~Q.hdr[g].dirty /\ ~Q.hdr[g].inJournal /\ ~Q.hdr[g].needSync
      /\ ~Q.hdr[g].inStmt /\ ~Q.hdr[g].alwaysRollback
  BY <1>4, AbsentTyped DEF IsCached
<1>9. P.hdr[h].needSync => sync
  BY <1>3, AbsentTyped DEF sync, PageGood, FlagsAt
<1>10. Dirtier(P, Q) /\ \A i \in Page \ {g, h} : SameAt(mode, P, Q, i)
  BY <1>2, <1>4, <1>6, <1>7 DEF Dirtier, SameAt
<1>11. /\ su.call \in {"move", "root", "vacuum"}
       /\ su.call = "move" <=> P.hdr[g].needSync
       /\ su.call = "move" => su.from = g /\ su.next = NextCall(st, g)
       /\ su.call = "root" => su.from = g /\ st.next # "vacuum"
       /\ su.call = "vacuum" => st.next = "vacuum"
  BY <1>2 DEF MovedCall, NextCall
<1> HIDE DEF su
<1>12. /\ Waiting(su) = IF P.hdr[g].needSync THEN {g} ELSE {}
       /\ Gone(su) \subseteq {g} /\ (st.next = "root" => Gone(su) = {g})
  BY <1>2, <1>11 DEF Waiting, Gone
<1>13. P.hdr[g].needSync => /\ mode = "normal" /\ P.needSync /\ P.hdr[g].dirty
                            /\ P.hdr[g].inJournal /\ sync
  BY <1>3, <1>5 DEF PageGood, FlagsAt
<1>20. PageGood(mode, f, Q, wn, lp, fs, mk, su, h)
  <2>0. h \notin wn /\ h \notin lp
    BY <1>2
  <2> HIDE DEF wn, lp
  <2>1. FlagsAt(mode, Q, wn, mk, h)
    BY <1>3, <1>4, <1>8, <1>13 DEF PageGood, FlagsAt, sync
  <2>2. BitmapAt(Q, fs, h)
    BY <1>2, <1>3, <1>4, <1>5, <1>6, <1>7 DEF PageGood, BitmapAt
  <2>3. OriginalAt(mode, f, Q, fs, su, h)
    BY <1>2, <1>3, <1>4, <1>5, <1>6, <1>7, <1>9, <1>12 DEF PageGood, OriginalAt, sync
  <2>4. FreeAt(Q, wn, lp, fs, mk, su, h)
    BY <1>2, <1>4, <1>7, <2>0 DEF FreeAt
  <2>5. CleanAt(f, Q, wn, h)
    BY <1>4 DEF CleanAt
  <2>6. StmtBitmapAt(Q, mk, h)
    BY <1>2, <1>3, <1>4, <1>5, <1>6, <1>7 DEF PageGood, StmtBitmapAt
  <2>7. StmtOriginalAt(f, Q, wn, lp, mk, su, h)
    BY <1>2, <1>3, <1>4, <1>6, <1>7, <1>8, <2>0 DEF PageGood, StmtBitmapAt, StmtOriginalAt
  <2> QED
    BY <2>1, <2>2, <2>3, <2>4, <2>5, <2>6, <2>7 DEF PageGood
<1>21. PageGood(mode, f, Q, wn, lp, fs, mk, su, g)
  <2>0. g \in wn /\ g \in lp
    OBVIOUS
  <2> HIDE DEF wn, lp
  <2>1. FlagsAt(mode, Q, wn, mk, g)
    BY <1>4, <1>8 DEF FlagsAt
  <2>2. BitmapAt(Q, fs, g)
    BY <1>3, <1>4, <1>6, <1>7, <1>8 DEF PageGood, BitmapAt
  <2>3. OriginalAt(mode, f, Q, fs, su, g)
    BY <1>2, <1>3, <1>4, <1>6, <1>7, <1>8, <1>12 DEF PageGood, OriginalAt
  <2>4. FreeAt(Q, wn, lp, fs, mk, su, g)
    BY <1>2, <1>12, <2>0 DEF FreeAt
  <2>5. CleanAt(f, Q, wn, g)
    BY <2>0 DEF CleanAt
  <2>6. StmtBitmapAt(Q, mk, g)
    BY <1>3, <1>4, <1>6, <1>7, <1>8 DEF PageGood, StmtBitmapAt
  <2>7. StmtOriginalAt(f, Q, wn, lp, mk, su, g)
    BY <1>2, <1>3, <1>4, <1>6, <1>7, <1>8, <1>12, <2>0 DEF PageGood, StmtBitmapAt, StmtOriginalAt, Writable
  <2> QED
    BY <2>1, <2>2, <2>3, <2>4, <2>5, <2>6, <2>7 DEF PageGood
<1>22. ASSUME NEW i \in Page \ {g, h}
       PROVE  PageGood(mode, f, Q, wn, lp, fs, mk, su, i)
  <2>1. /\ i \in wn <=> i \in un
        /\ i \in lp <=> i \in lo
        /\ i \in Waiting(su) <=> i \in Waiting(st)
        /\ i \in Gone(su) <=> i \in Gone(st)
    BY <1>2, <1>12
  <2> HIDE DEF wn, lp
  <2> QED
    BY <1>1, <1>4, <1>10, <2>1, PageFrame
<1>23. NoJournal(f, Q, wn, fs, mk)
  BY <1>2, <1>7 DEF NoJournal
<1>24. Sizes(f, Q, su)
  BY <1>1, <1>2, <1>4, <1>7, <1>11 DEF Sizes
<1>25. Lists(Q, wn, lp, fs)
  BY <1>1, <1>2 DEF Lists
<1>26. LastPage(f, Q, lp, su)
  <2>1. lp \subseteq Gone(su) => lo \subseteq Gone(st) /\ Gone(su) = {g}
    BY <1>1, <1>2, <1>12 DEF Lists
  <2> HIDE DEF lp
  <2> QED
    BY <1>0, <1>1, <1>2, <1>4, <1>7, <1>11, <2>1 DEF LastPage
<1>27. Statement(f, Q, wn, mk)
  <2>1. ~P.stmtInUse => \A i \in Page : ~Q.hdr[i].inStmt
    BY <1>1, <1>2, <1>4, <1>8 DEF Statement
  <2> QED
    BY <1>1, <1>2, <1>4, <1>7, <2>1 DEF Statement
<1>28. Logged(P, g) \/ su.call = "vacuum" \/ (su.call = "root" /\ mk = NoMark)
  BY <1>0, <1>1, <1>2, <1>3, <1>11, <1>13 DEF Logged, Writable, PageGood, BitmapAt, Statement
<1>29. Logged(Q, g) \/ su.call = "vacuum" \/ (su.call = "root" /\ mk = NoMark)
  BY <1>4, <1>7, <1>28 DEF Logged
<1>30. Doing(mode, Q, wn, lp, mk, su)
  <2>1. su.call = "move" => \/ su.next = [call |-> "root", from |-> su.from]
                            \/ su.next = [call |-> "vacuum", size |-> su.next.size] /\ mk = NoMark
    BY <1>2, <1>11 DEF NextCall
  <2>2. P.state # "shared"
    BY <1>1, <1>2 DEF Statement
  <2> QED
    BY <1>2, <1>4, <1>7, <1>8, <1>11, <1>13, <1>29, <2>1, <2>2 DEF Doing
<1>31. ASSUME NEW i \in Page \ {g, h}
       PROVE  ContentOf(f, Q, wn, i) = ContentOf(f, P, un, i)
  BY <1>4, <1>8 DEF ContentOf
<1>32. ContentOf(f, Q, wn, h) = ContentOf(f, P, un, g)
  BY <1>0, <1>2, <1>4, <1>8 DEF ContentOf
<1>33. ASSUME NEW i \in Page
       PROVE  SafeAt(mode, f, Q, i) = SafeAt(mode, f, P, i)
  BY <1>6, <1>7 DEF SafeAt
<1>34. IsCached(P, 1) => IsCached(Q, 1)
  <2>1. 1 \in Page /\ 1 # h
    BY <1>1, <1>2, Numbers DEF Lists
  <2> QED
    BY <1>8, <2>1
<1>35. Good(mode, f, Q, wn, lp, fs, mk, su)
  <2> HIDE DEF wn, lp
  <2> QED
    BY <1>1, <1>4, <1>6, <1>20, <1>21, <1>22, <1>23, <1>24, <1>25, <1>26, <1>27, <1>30 DEF Good
<1> QED
  BY <1>2, <1>31, <1>32, <1>33, <1>34, <1>35 DEF SameSafe, h, Q, su

\* The number that was given away waits for the journal.
LEMMA HoldGood ==
    ASSUME NEW P, NEW un, NEW lo, NEW fs, NEW mk, NEW st,
           Good(mode, file, P, un, lo, fs, mk, st), st.call = "move"
    PROVE  LET Q == Hold(P, st.from)
           IN  /\ Good(mode, file, Q, un, lo, fs, mk, st.next)
               /\ SameSafe(mode, file, P, file, Q, fs)
               /\ SameContent(file, P, un, file, Q, un)
               /\ \A h \in Page : IsCached(P, h) => IsCached(Q, h)
<1> DEFINE g == st.from
           su == st.next
           Q == Hold(P, g)
           G == Got(P, g)
<1>1. /\ P \in PagerType /\ Sequences(P) /\ file \in FileType
      /\ NoJournal(file, P, un, fs, mk) /\ Sizes(file, P, st) /\ Lists(P, un, lo, fs)
      /\ LastPage(file, P, lo, st) /\ Statement(file, P, un, mk) /\ Doing(mode, P, un, lo, mk, st)
      /\ \A h \in Page : PageGood(mode, file, P, un, lo, fs, mk, st, h)
  BY Unpacked
<1>0. /\ P.dbSize \in Nat /\ P.origDbSize \in Nat /\ P.stmtSize \in Nat /\ file.size \in Nat
      /\ \A h \in Page : h \in Nat
      /\ P.dbSize > 0 => P.dbSize \in Page
      /\ P.stmtSize > 0 => P.stmtSize \in Page
  BY <1>1, Numbers
<1>2. /\ P.journalOpen /\ P.dirtyCache /\ P.state # "shared" /\ mode = "normal"
      /\ g \in Page /\ g \in lo /\ g \in un /\ g <= P.dbSize /\ ~IsCached(P, g)
      /\ g <= P.origDbSize => g \in P.aInJournal
      /\ P.stmtInUse /\ g <= P.stmtSize => g \in P.aInStmt
      /\ Waiting(st) = {g} /\ Gone(st) = {g}
      /\ \/ su = [call |-> "root", from |-> g]
         \/ su = [call |-> "vacuum", size |-> su.size] /\ mk = NoMark
  <2>1. /\ P.journalOpen /\ P.dirtyCache /\ P.state # "shared" /\ mode = "normal"
        /\ Logged(P, g) /\ g \in lo /\ ~IsCached(P, g)
        /\ \/ su = [call |-> "root", from |-> g]
           \/ su = [call |-> "vacuum", size |-> su.size] /\ mk = NoMark
    BY <1>1 DEF Doing, Statement
  <2> QED
    BY <1>1, <2>1 DEF Logged, Waiting, Gone, Lists
<1>3. /\ su.call \in {"root", "vacuum"} /\ Waiting(su) = {} /\ Gone(su) \subseteq {g}
      /\ su.call = "root" => su.from = g /\ Gone(su) = {g}
      /\ su.call = "vacuum" => mk = NoMark /\ Gone(su) = {}
  BY <1>2 DEF Waiting, Gone
<1>4. /\ Q \in PagerType
      /\ \A i \in Page \ {g} : Q.hdr[i] = P.hdr[i]
      /\ Q.hdr[g].data = G.hdr[g].data /\ Q.hdr[g].dirty /\ Q.hdr[g].inJournal
      /\ Q.hdr[g].needSync /\ Q.hdr[g].inStmt = G.hdr[g].inStmt
      /\ Q.hdr[g].alwaysRollback = G.hdr[g].alwaysRollback
      /\ Q.dirtyCache = P.dirtyCache /\ Q.dbSize = P.dbSize
      /\ SameSetting(P, Q) /\ SameJournals(P, Q)
      /\ Q.needSync /\ Q.aInJournal = P.aInJournal /\ Q.aInStmt = P.aInStmt
  BY <1>1, <1>2, HoldIs
<1>5. IsCached(G, g) /\ (G.hdr[g].inStmt <=> g <= P.stmtSize /\ g \in P.aInStmt)
  <2>1. /\ IsCached(G, g)
        /\ G.hdr[g] = [data |-> IF g <= P.dbSize THEN StoredIn(file, g) ELSE 0,
                       dirty |-> FALSE,
                       inJournal |-> g <= P.origDbSize /\ g \in P.aInJournal,
                       needSync |-> FALSE,
                       inStmt |-> g <= P.stmtSize /\ g \in P.aInStmt,
                       alwaysRollback |-> FALSE]
    BY <1>1, <1>2, GotIs
  <2>2. G.hdr[g].inStmt = (g <= P.stmtSize /\ g \in P.aInStmt)
    BY <2>1
  <2> HIDE DEF G
  <2> QED
    BY <2>1, <2>2
<1>6. IsCached(Q, g) /\ (Q.hdr[g].inStmt <=> g <= P.stmtSize /\ g \in P.aInStmt)
      /\ \A h \in Page \ {g} : IsCached(P, h) <=> IsCached(Q, h)
  BY <1>4, <1>5 DEF IsCached
<1> HIDE DEF Q, G, g, su
<1>7. /\ Sequences(Q)
      /\ InMain(Q) = InMain(P) /\ InCounted(mode, Q) = InCounted(mode, P) /\ InStmt(Q) = InStmt(P)
      /\ \A h : /\ MainSays(Q, h) = MainSays(P, h) /\ StmtSays(Q, h) = StmtSays(P, h)
                /\ CountedSays(mode, Q, h) = CountedSays(mode, P, h)
  BY <1>1, <1>4, SameSays
<1>8. /\ Q.state = P.state /\ Q.journalOpen = P.journalOpen /\ Q.origDbSize = P.origDbSize
      /\ Q.alwaysRollback = P.alwaysRollback /\ Q.nRec = P.nRec /\ Q.journal = P.journal
      /\ Q.stmtAutoopen = P.stmtAutoopen /\ Q.stmtInUse = P.stmtInUse
      /\ Q.stmtSize = P.stmtSize /\ Q.stmtStart = P.stmtStart /\ Q.stmtJournal = P.stmtJournal
  BY <1>4 DEF SameSetting, SameJournals
<1>9. Dirtier(P, Q) /\ \A h \in Page \ {g} : SameAt(mode, P, Q, h)
  BY <1>4, <1>7, <1>8 DEF Dirtier, SameAt
<1>10. ASSUME NEW h \in Page
       PROVE  /\ SafeAt(mode, file, Q, h) = SafeAt(mode, file, P, h)
              /\ ContentOf(file, Q, un, h) = ContentOf(file, P, un, h)
  BY <1>2, <1>4, <1>6, <1>7, <1>8 DEF SafeAt, ContentOf
<1>11. PageGood(mode, file, P, un, lo, fs, mk, st, g)
  BY <1>1, <1>2
<1>20. FlagsAt(mode, Q, un, mk, g)
  BY <1>2, <1>4, <1>6 DEF FlagsAt
<1>21. BitmapAt(Q, fs, g)
  BY <1>2, <1>4, <1>7, <1>8, <1>11 DEF PageGood, BitmapAt
<1>22. OriginalAt(mode, file, Q, fs, su, g)
  BY <1>2, <1>4, <1>7, <1>8, <1>11 DEF PageGood, OriginalAt
<1>23. FreeAt(Q, un, lo, fs, mk, su, g)
  BY <1>2, <1>3 DEF FreeAt
<1>24. CleanAt(file, Q, un, g)
  BY <1>2 DEF CleanAt
<1>25. StmtBitmapAt(Q, mk, g)
  BY <1>2, <1>4, <1>6, <1>7, <1>8, <1>11 DEF PageGood, StmtBitmapAt
<1>26. StmtOriginalAt(file, Q, un, lo, mk, su, g)
  BY <1>2, <1>4, <1>6, <1>7, <1>8, <1>11 DEF PageGood, StmtBitmapAt, StmtOriginalAt
<1>27. PageGood(mode, file, Q, un, lo, fs, mk, su, g)
  BY <1>20, <1>21, <1>22, <1>23, <1>24, <1>25, <1>26 DEF PageGood
<1>28. ASSUME NEW h \in Page \ {g}
       PROVE  PageGood(mode, file, Q, un, lo, fs, mk, su, h)
  <2>1. /\ h \in Waiting(su) <=> h \in Waiting(st)
        /\ h \in Gone(su) <=> h \in Gone(st)
    BY <1>2, <1>3
  <2> QED
    BY <1>1, <1>4, <1>9, <2>1, PageFrame
<1>30. NoJournal(file, Q, un, fs, mk)
  BY <1>2, <1>8 DEF NoJournal
<1>31. Sizes(file, Q, su)
  BY <1>1, <1>2, <1>4, <1>8 DEF Sizes
<1>32. Lists(Q, un, lo, fs)
  BY <1>1 DEF Lists
<1>33. LastPage(file, Q, lo, su)
  BY <1>0, <1>1, <1>2, <1>3, <1>4, <1>8 DEF LastPage
<1>34. Statement(file, Q, un, mk)
  BY <1>0, <1>1, <1>2, <1>4, <1>6, <1>8 DEF Statement
<1>35. Doing(mode, Q, un, lo, mk, su)
  BY <1>1, <1>2, <1>3, <1>4, <1>8 DEF Doing, Logged
<1> QED
  BY <1>1, <1>2, <1>4, <1>6, <1>7, <1>10, <1>27, <1>28, <1>30, <1>31, <1>32, <1>33, <1>34, <1>35
  DEF Good, SameSafe, SameContent, Q, g, su

-----------------------------------------------------------------------------
(* The other steps.                                                        *)

\* The call under way goes on, and the pages it will cut off are given up.
LEMMA StepGood ==
    ASSUME NEW md, NEW f, NEW P, NEW un, NEW lo, NEW lp, NEW fs, NEW mk, NEW st, NEW su,
           Good(md, f, P, un, lo, fs, mk, st),
           Waiting(su) = {}, Gone(su) = {}, Waiting(st) = {}, Gone(st) = {},
           st.call # "store", lo \subseteq lp, lp \subseteq un, lp = lo \/ mk = NoMark,
           Doing(md, P, un, lp, mk, su)
    PROVE  Good(md, f, P, un, lp, fs, mk, su)
<1>1. /\ P \in PagerType /\ Sequences(P) /\ f \in FileType
      /\ NoJournal(f, P, un, fs, mk) /\ Sizes(f, P, st) /\ Lists(P, un, lo, fs)
      /\ LastPage(f, P, lo, st) /\ Statement(f, P, un, mk)
      /\ \A h \in Page : PageGood(md, f, P, un, lo, fs, mk, st, h)
  BY Unpacked
<1>2. ASSUME NEW h \in Page
      PROVE  PageGood(md, f, P, un, lp, fs, mk, su, h)
  <2>1. PageGood(md, f, P, un, lo, fs, mk, st, h)
    BY <1>1
  <2>2. OriginalAt(md, f, P, fs, su, h)
    BY <2>1 DEF PageGood, OriginalAt
  <2>3. FreeAt(P, un, lp, fs, mk, su, h)
    BY <2>1 DEF PageGood, FreeAt
  <2>4. StmtOriginalAt(f, P, un, lp, mk, su, h)
    BY <1>1, <2>1 DEF PageGood, StmtOriginalAt, Statement
  <2> QED
    BY <2>1, <2>2, <2>3, <2>4 DEF PageGood
<1>3. Sizes(f, P, su)
  BY <1>1 DEF Sizes
<1>4. Lists(P, un, lp, fs)
  BY <1>1 DEF Lists
<1>5. LastPage(f, P, lp, su)
  BY <1>1 DEF LastPage
<1> QED
  BY <1>1, <1>2, <1>3, <1>4, <1>5 DEF Good

\* A write transaction begins.
LEMMA BegunGood ==
    ASSUME NEW md, NEW f, NEW P, NEW un, NEW lo, NEW fs, NEW mk, NEW st,
           Good(md, f, P, un, lo, fs, mk, st), P.state = "shared"
    PROVE  LET Q == [P EXCEPT !.state = "reserved"]
           IN  /\ Good(md, f, Q, un, lo, fs, mk, st)
               /\ SameSafe(md, f, P, f, Q, fs)
               /\ SameContent(f, P, un, f, Q, un)
               /\ Q.state = "reserved" /\ Q.journalOpen = P.journalOpen
<1> DEFINE Q == [P EXCEPT !.state = "reserved"]
<1>1. /\ P \in PagerType /\ Sequences(P) /\ f \in FileType
      /\ NoJournal(f, P, un, fs, mk) /\ Sizes(f, P, st) /\ Lists(P, un, lo, fs)
      /\ LastPage(f, P, lo, st) /\ Statement(f, P, un, mk) /\ Doing(md, P, un, lo, mk, st)
      /\ \A h \in Page : PageGood(md, f, P, un, lo, fs, mk, st, h)
  BY Unpacked
<1>0. /\ P.dbSize \in Nat /\ P.origDbSize \in Nat /\ P.stmtSize \in Nat /\ f.size \in Nat
      /\ \A h \in Page : h \in Nat
      /\ P.dbSize > 0 => P.dbSize \in Page
      /\ P.stmtSize > 0 => P.stmtSize \in Page
  BY <1>1, Numbers
<1>2. /\ Q \in PagerType /\ SameJournals(P, Q) /\ Q.hdr = P.hdr /\ Q.state = "reserved"
      /\ Q.dbSize = P.dbSize /\ Q.dirtyCache = P.dirtyCache
      /\ Q.journalOpen = P.journalOpen /\ Q.origDbSize = P.origDbSize
      /\ Q.needSync = P.needSync /\ Q.journalStarted = P.journalStarted
      /\ Q.alwaysRollback = P.alwaysRollback /\ Q.aInJournal = P.aInJournal
      /\ Q.stmtAutoopen = P.stmtAutoopen /\ Q.stmtInUse = P.stmtInUse
      /\ Q.stmtSize = P.stmtSize /\ Q.aInStmt = P.aInStmt
      /\ Q.journal = P.journal /\ Q.nRec = P.nRec
      /\ Q.stmtStart = P.stmtStart /\ Q.stmtJournal = P.stmtJournal
  BY <1>1 DEF PagerType, SameJournals
<1> HIDE DEF Q
<1>3. mk = NoMark /\ ~P.journalOpen /\ ~P.stmtInUse /\ P.journal = <<>> /\ st.call = "none"
  BY <1>1 DEF Statement, NoJournal, Doing
<1>4. /\ Sequences(Q)
      /\ InMain(Q) = InMain(P) /\ InCounted(md, Q) = InCounted(md, P) /\ InStmt(Q) = InStmt(P)
      /\ \A h : /\ MainSays(Q, h) = MainSays(P, h) /\ StmtSays(Q, h) = StmtSays(P, h)
                /\ CountedSays(md, Q, h) = CountedSays(md, P, h)
  BY <1>1, <1>2, SameSays
<1>5. \A h : IsCached(Q, h) <=> IsCached(P, h)
  BY <1>2 DEF IsCached
<1>6. InMain(P) = {}
  BY <1>3 DEF InMain, PagesOf
<1>7. ASSUME NEW h \in Page
      PROVE  PageGood(md, f, Q, un, lo, fs, mk, st, h)
  <2>1. PageGood(md, f, P, un, lo, fs, mk, st, h)
    BY <1>1
  <2>2. FlagsAt(md, Q, un, mk, h) /\ BitmapAt(Q, fs, h) /\ StmtBitmapAt(Q, mk, h)
    BY <1>2, <1>3, <1>4, <1>5, <2>1 DEF PageGood, FlagsAt, BitmapAt, StmtBitmapAt
  <2>3. OriginalAt(md, f, Q, fs, st, h)
    BY <1>2, <1>4, <1>5, <1>6, <2>1 DEF PageGood, OriginalAt
  <2>4. FreeAt(Q, un, lo, fs, mk, st, h) /\ CleanAt(f, Q, un, h)
    BY <1>2, <1>5, <2>1 DEF PageGood, FreeAt, CleanAt, Always
  <2>5. StmtOriginalAt(f, Q, un, lo, mk, st, h)
    BY <1>2, <1>3 DEF StmtOriginalAt
  <2> QED
    BY <2>1, <2>2, <2>3, <2>4, <2>5 DEF PageGood
<1>8. /\ NoJournal(f, Q, un, fs, mk) /\ Sizes(f, Q, st) /\ Lists(Q, un, lo, fs)
      /\ LastPage(f, Q, lo, st) /\ Statement(f, Q, un, mk) /\ Doing(md, Q, un, lo, mk, st)
  BY <1>0, <1>1, <1>2, <1>3 DEF NoJournal, Sizes, Lists, LastPage, Statement, Doing
<1>9. ASSUME NEW h \in Page
      PROVE  /\ SafeAt(md, f, Q, h) = SafeAt(md, f, P, h)
             /\ ContentOf(f, Q, un, h) = ContentOf(f, P, un, h)
  BY <1>2, <1>4, <1>5 DEF SafeAt, ContentOf
<1> QED
  BY <1>1, <1>2, <1>4, <1>7, <1>8, <1>9 DEF Good, SameSafe, SameContent, Q

-----------------------------------------------------------------------------
(* Statements.                                                             *)

\* There is a statement where there is a mark.
LEMMA MarkIs ==
    ASSUME NEW mk, NEW V, mk \in [Page -> V]
    PROVE  mk # NoMark
<1>1. 1 \in DOMAIN mk
  BY Numbers, BoundAssumption DEF Page
<1>2. DOMAIN NoMark = {}
  BY DEF NoMark
<1> QED
  BY <1>1, <1>2

\* A statement begins: it will be given back what the pages contain now.
LEMMA StmtBegunGood ==
    ASSUME NEW f, NEW P, NEW un, NEW lo, NEW fs, NEW mk, NEW st,
           Good(mode, f, P, un, lo, fs, NoMark, st),
           st.call = "none", P.state # "shared",
           mk = [g \in Page |-> ContentOf(f, P, un, g)]
    PROVE  LET Q == StmtBegun(P)
           IN  /\ Good(mode, f, Q, un, lo, fs, mk, st)
               /\ SameSafe(mode, f, P, f, Q, fs)
               /\ SameContent(f, P, un, f, Q, un)
               /\ Q.state = P.state /\ Q.hdr = P.hdr /\ mk # NoMark
<1> DEFINE Q == StmtBegun(P)
<1>1. /\ P \in PagerType /\ Sequences(P) /\ f \in FileType
      /\ NoJournal(f, P, un, fs, NoMark) /\ Sizes(f, P, st) /\ Lists(P, un, lo, fs)
      /\ LastPage(f, P, lo, st) /\ Statement(f, P, un, NoMark) /\ Doing(mode, P, un, lo, NoMark, st)
      /\ \A h \in Page : PageGood(mode, f, P, un, lo, fs, NoMark, st, h)
  BY Unpacked
<1>0. /\ P.dbSize \in Nat /\ P.origDbSize \in Nat /\ P.stmtSize \in Nat /\ f.size \in Nat
      /\ \A h \in Page : h \in Nat /\ h >= 1
      /\ P.dbSize > 0 => P.dbSize \in Page
      /\ P.stmtSize > 0 => P.stmtSize \in Page
      /\ 1 \in Page
  BY <1>1, Numbers
<1>2. /\ Q \in PagerType /\ Q.hdr = P.hdr
      /\ Q.state = P.state /\ Q.dbSize = P.dbSize /\ Q.dirtyCache = P.dirtyCache
      /\ Q.journalOpen = P.journalOpen /\ Q.origDbSize = P.origDbSize
      /\ Q.needSync = P.needSync /\ Q.journalStarted = P.journalStarted
      /\ Q.alwaysRollback = P.alwaysRollback /\ Q.aInJournal = P.aInJournal
      /\ Q.journal = P.journal /\ Q.nRec = P.nRec /\ Q.stmtJournal = P.stmtJournal
      /\ P.journalOpen =>
            /\ Q.stmtAutoopen = P.stmtAutoopen /\ Q.stmtInUse /\ Q.aInStmt = {}
            /\ Q.stmtSize = P.dbSize /\ Q.stmtStart = Len(P.journal)
      /\ ~P.journalOpen =>
            /\ Q.stmtAutoopen /\ Q.stmtInUse = P.stmtInUse /\ Q.aInStmt = P.aInStmt
            /\ Q.stmtSize = P.stmtSize /\ Q.stmtStart = P.stmtStart
  BY <1>1, StmtBegunIs
<1> HIDE DEF Q
<1>3. /\ ~P.stmtInUse /\ P.stmtJournal = <<>> /\ P.aInStmt = {} /\ P.stmtSize = 0 /\ P.stmtStart = 0
      /\ ~P.stmtAutoopen
      /\ \A g \in Page : ~P.hdr[g].inStmt
  BY <1>1 DEF Statement
<1>4. /\ mk \in [Page -> Value \cup {Unused, Missing}]
      /\ \A g \in Page : /\ mk[g] = ContentOf(f, P, un, g)
                         /\ mk[g] = Unused <=> g \in un
                         /\ mk[g] = Missing <=> g \notin un /\ g > P.dbSize
  BY <1>1, ContentIs
<1>5. mk # NoMark /\ mk[1] # Unused
  BY <1>0, <1>1, <1>4, MarkIs DEF Lists
<1>6. \A h : IsCached(Q, h) <=> IsCached(P, h)
  BY <1>2 DEF IsCached
<1>7. ASSUME NEW h \in Page
      PROVE  ContentOf(f, Q, un, h) = ContentOf(f, P, un, h)
  BY <1>2, <1>6 DEF ContentOf
<1>8. /\ InMain(Q) = InMain(P) /\ InCounted(mode, Q) = InCounted(mode, P)
      /\ \A h : /\ MainSays(Q, h) = MainSays(P, h)
                /\ CountedSays(mode, Q, h) = CountedSays(mode, P, h)
  BY <1>2 DEF InMain, InCounted, MainSays, CountedSays, CountedOf
<1>9. ASSUME NEW h \in Page
      PROVE  SafeAt(mode, f, Q, h) = SafeAt(mode, f, P, h)
  BY <1>2, <1>8 DEF SafeAt
<1>10. P.journalOpen => StmtRecords(Q) = <<>>
  <2>1. P.journal \in Seq(Record)
    BY <1>1 DEF PagerType
  <2>2. /\ SubSeq(P.journal, Len(P.journal) + 1, Len(P.journal)) = <<>>
        /\ Len(P.journal) \in Nat
    BY <2>1
  <2> QED
    BY <1>2, <1>3, <2>2 DEF StmtRecords
<1>11. P.journalOpen => InStmt(Q) = {}
  BY <1>10 DEF InStmt, PagesOf
<1>12. Sequences(Q)
  <2>1. P.journal \in Seq(Record)
    BY <1>1 DEF PagerType
  <2>2. CASE P.journalOpen
    <3>1. Once(StmtRecords(Q))
      BY <1>10, <2>2 DEF Once
    <3> QED
      BY <1>1, <1>2, <2>1, <2>2, <3>1 DEF Sequences
  <2>3. CASE ~P.journalOpen
    BY <1>1, <1>2, <2>3 DEF Sequences, StmtRecords
  <2> QED
    BY <2>2, <2>3
<1>28. ASSUME NEW g \in Page
       PROVE  PageGood(mode, f, Q, un, lo, fs, mk, st, g)
  <2>1. PageGood(mode, f, P, un, lo, fs, NoMark, st, g)
    BY <1>1
  <2>20. FlagsAt(mode, Q, un, mk, g)
    BY <1>2, <1>4, <1>6, <2>1 DEF PageGood, FlagsAt
  <2>21. BitmapAt(Q, fs, g)
    BY <1>2, <1>6, <1>8, <2>1 DEF PageGood, BitmapAt
  <2>22. OriginalAt(mode, f, Q, fs, st, g)
    BY <1>2, <1>6, <1>8, <2>1 DEF PageGood, OriginalAt
  <2>23. FreeAt(Q, un, lo, fs, mk, st, g)
    BY <1>1, <1>2, <1>4, <2>1 DEF PageGood, FreeAt, Always, Lists
  <2>24. CleanAt(f, Q, un, g)
    BY <1>2, <1>6, <2>1 DEF PageGood, CleanAt
  <2>25. StmtBitmapAt(Q, mk, g)
    BY <1>2, <1>3, <1>6, <1>11 DEF StmtBitmapAt
  <2>26. StmtOriginalAt(f, Q, un, lo, mk, st, g)
    <3>1. CASE ~P.journalOpen
      BY <1>2, <1>3, <3>1 DEF StmtOriginalAt
    <3>2. CASE P.journalOpen
      <4>1. g > P.dbSize => mk[g] \in {Unused, Missing}
        BY <1>4
      <4>2. ASSUME g <= P.dbSize, mk[g] # Unused
            PROVE  /\ IsCached(P, g) => P.hdr[g].data = mk[g]
                   /\ ~P.hdr[g].dirty => OnFile(f, g, mk[g])
                   /\ g \notin un
        BY <1>0, <1>4, <2>1, <4>2 DEF PageGood, CleanAt, ContentOf, StoredIn, OnFile
      <4> QED
        BY <1>2, <1>6, <1>11, <3>2, <4>1, <4>2 DEF StmtOriginalAt
    <3> QED
      BY <3>1, <3>2
  <2> QED
    BY <2>20, <2>21, <2>22, <2>23, <2>24, <2>25, <2>26 DEF PageGood
<1>30. NoJournal(f, Q, un, fs, mk)
  BY <1>1, <1>2, <1>3 DEF NoJournal
<1>31. Sizes(f, Q, st)
  BY <1>1, <1>2 DEF Sizes
<1>32. Lists(Q, un, lo, fs)
  BY <1>1 DEF Lists
<1>33. LastPage(f, Q, lo, st)
  BY <1>0, <1>1, <1>2, <1>3 DEF LastPage, Sizes
<1>34. Statement(f, Q, un, mk)
  <2>1. Q.stmtInUse => Q.origDbSize <= Q.stmtSize /\ Q.stmtSize <= Q.dbSize
    <3>1. P.origDbSize <= P.dbSize /\ P.dbSize <= P.dbSize
      BY <1>0, <1>1 DEF Sizes
    <3> QED
      BY <1>2, <1>3, <3>1
  <2>2. ~Q.stmtInUse => ~P.journalOpen
    BY <1>2
  <2> QED
    BY <1>1, <1>2, <1>3, <1>4, <1>5, <1>7, <2>1, <2>2 DEF Statement
<1>35. Doing(mode, Q, un, lo, mk, st)
  BY <1>1, <1>2 DEF Doing
<1> QED
  BY <1>1, <1>2, <1>5, <1>7, <1>9, <1>12, <1>28, <1>30, <1>31, <1>32, <1>33, <1>34, <1>35
  DEF Good, SameSafe, SameContent, Q

\* A statement ends, and what it changed stays.
LEMMA StmtEndedGood ==
    ASSUME NEW f, NEW P, NEW un, NEW lo, NEW fs, NEW mk, NEW st,
           Good(mode, f, P, un, lo, fs, mk, st), st.call = "none"
    PROVE  LET Q == StmtEnded(P)
           IN  /\ Good(mode, f, Q, un, lo, fs, NoMark, st)
               /\ SameSafe(mode, f, P, f, Q, fs)
               /\ SameContent(f, P, un, f, Q, un)
               /\ Q.state = P.state
               /\ \A h \in Page : IsCached(P, h) => IsCached(Q, h)
<1> DEFINE Q == StmtEnded(P)
<1>1. /\ P \in PagerType /\ Sequences(P) /\ f \in FileType
      /\ NoJournal(f, P, un, fs, mk) /\ Sizes(f, P, st) /\ Lists(P, un, lo, fs)
      /\ LastPage(f, P, lo, st) /\ Statement(f, P, un, mk) /\ Doing(mode, P, un, lo, mk, st)
      /\ \A h \in Page : PageGood(mode, f, P, un, lo, fs, mk, st, h)
  BY Unpacked
<1>0. /\ P.dbSize \in Nat /\ P.origDbSize \in Nat /\ P.stmtSize \in Nat /\ f.size \in Nat
      /\ \A h \in Page : h \in Nat /\ P.hdr[h] \in Header
      /\ P.dbSize > 0 => P.dbSize \in Page
      /\ P.stmtSize > 0 => P.stmtSize \in Page
  BY <1>1, Numbers
<1>2. /\ Q \in PagerType
      /\ Q.state = P.state /\ Q.dbSize = P.dbSize /\ Q.dirtyCache = P.dirtyCache
      /\ Q.journalOpen = P.journalOpen /\ Q.origDbSize = P.origDbSize
      /\ Q.needSync = P.needSync /\ Q.journalStarted = P.journalStarted
      /\ Q.alwaysRollback = P.alwaysRollback /\ Q.aInJournal = P.aInJournal
      /\ Q.journal = P.journal /\ Q.nRec = P.nRec
      /\ ~Q.stmtAutoopen /\ ~Q.stmtInUse
      /\ P.stmtInUse =>
            /\ Q.aInStmt = {} /\ Q.stmtJournal = <<>> /\ Q.stmtSize = 0 /\ Q.stmtStart = 0
            /\ \A g \in Page : Q.hdr[g] = [P.hdr[g] EXCEPT !.inStmt = FALSE]
      /\ ~P.stmtInUse =>
            /\ Q.aInStmt = P.aInStmt /\ Q.stmtJournal = P.stmtJournal
            /\ Q.stmtSize = P.stmtSize /\ Q.stmtStart = P.stmtStart /\ Q.hdr = P.hdr
  BY <1>1, StmtEndedIs
<1> HIDE DEF Q
<1>3. Q.aInStmt = {} /\ Q.stmtJournal = <<>> /\ Q.stmtSize = 0 /\ Q.stmtStart = 0
  BY <1>1, <1>2 DEF Statement
<1>4. ASSUME NEW h \in Page
      PROVE  /\ Q.hdr[h].data = P.hdr[h].data /\ (Q.hdr[h].dirty <=> P.hdr[h].dirty)
             /\ (Q.hdr[h].inJournal <=> P.hdr[h].inJournal)
             /\ (Q.hdr[h].needSync <=> P.hdr[h].needSync) /\ ~Q.hdr[h].inStmt
             /\ (Q.hdr[h].alwaysRollback <=> P.hdr[h].alwaysRollback)
             /\ IsCached(Q, h) <=> IsCached(P, h)
             /\ P.hdr[h] = Absent => Q.hdr[h] = Absent
  <2>1. CASE P.stmtInUse
    <3>1. P.hdr[h] \in Header /\ Q.hdr[h] = [P.hdr[h] EXCEPT !.inStmt = FALSE]
      BY <1>0, <1>2, <2>1
    <3>2. Q.hdr[h].data = P.hdr[h].data /\ Q.hdr[h].dirty = P.hdr[h].dirty
          /\ Q.hdr[h].inJournal = P.hdr[h].inJournal /\ Q.hdr[h].needSync = P.hdr[h].needSync
          /\ ~Q.hdr[h].inStmt /\ Q.hdr[h].alwaysRollback = P.hdr[h].alwaysRollback
      BY <3>1 DEF Header
    <3>3. Q.hdr[h] \in Header
      BY <1>2 DEF PagerType
    <3>4. P.hdr[h] = Absent => Q.hdr[h].inStmt = Absent.inStmt
      BY <3>2, <3>3 DEF Absent, Header
    <3>5. P.hdr[h] = Absent => Q.hdr[h] = Absent
      BY <3>2, <3>3, <3>4, AbsentTyped, SameHeader
    <3> QED
      BY <3>2, <3>5 DEF IsCached
  <2>2. CASE ~P.stmtInUse
    <3>1. ~P.hdr[h].inStmt /\ Q.hdr[h] = P.hdr[h]
      BY <1>1, <1>2, <2>2 DEF Statement
    <3> QED
      BY <3>1 DEF IsCached
  <2> QED
    BY <2>1, <2>2
<1>8. /\ InMain(Q) = InMain(P) /\ InCounted(mode, Q) = InCounted(mode, P)
      /\ \A h : /\ MainSays(Q, h) = MainSays(P, h)
                /\ CountedSays(mode, Q, h) = CountedSays(mode, P, h)
  BY <1>2 DEF InMain, InCounted, MainSays, CountedSays, CountedOf
<1>9. ASSUME NEW h \in Page
      PROVE  /\ SafeAt(mode, f, Q, h) = SafeAt(mode, f, P, h)
             /\ ContentOf(f, Q, un, h) = ContentOf(f, P, un, h)
  BY <1>2, <1>4, <1>8 DEF SafeAt, ContentOf
<1>12. Sequences(Q)
  <2>1. P.journal \in Seq(Record) /\ Once(P.journal) /\ P.nRec <= Len(P.journal)
    BY <1>1 DEF PagerType, Sequences
  <2>2. SubSeq(P.journal, 1, Len(P.journal)) = P.journal /\ Len(P.journal) \in Nat
    BY <2>1
  <2>3. StmtRecords(Q) = P.journal
    BY <1>2, <1>3, <2>1, <2>2 DEF StmtRecords
  <2> QED
    BY <1>2, <1>3, <2>1, <2>2, <2>3 DEF Sequences
<1>28. ASSUME NEW g \in Page
       PROVE  PageGood(mode, f, Q, un, lo, fs, NoMark, st, g)
  <2>1. PageGood(mode, f, P, un, lo, fs, mk, st, g)
    BY <1>1
  <2>20. FlagsAt(mode, Q, un, NoMark, g)
    BY <1>2, <1>4, <2>1 DEF PageGood, FlagsAt
  <2>21. BitmapAt(Q, fs, g)
    BY <1>2, <1>4, <1>8, <2>1 DEF PageGood, BitmapAt
  <2>22. OriginalAt(mode, f, Q, fs, st, g)
    BY <1>2, <1>4, <1>8, <2>1 DEF PageGood, OriginalAt
  <2>23. FreeAt(Q, un, lo, fs, NoMark, st, g)
    BY <1>2, <1>4, <2>1 DEF PageGood, FreeAt, Always
  <2>24. CleanAt(f, Q, un, g)
    BY <1>2, <1>4, <2>1 DEF PageGood, CleanAt
  <2>25. StmtBitmapAt(Q, NoMark, g)
    BY <1>2 DEF StmtBitmapAt
  <2>26. StmtOriginalAt(f, Q, un, lo, NoMark, st, g)
    BY <1>2 DEF StmtOriginalAt
  <2> QED
    BY <2>20, <2>21, <2>22, <2>23, <2>24, <2>25, <2>26 DEF PageGood
<1>30. NoJournal(f, Q, un, fs, NoMark)
  BY <1>1, <1>2, <1>4 DEF NoJournal
<1>31. Sizes(f, Q, st)
  BY <1>1, <1>2 DEF Sizes
<1>32. Lists(Q, un, lo, fs)
  BY <1>1 DEF Lists
<1>33. LastPage(f, Q, lo, st)
  BY <1>0, <1>1, <1>2, <1>4 DEF LastPage
<1>34. Statement(f, Q, un, NoMark)
  BY <1>1, <1>2, <1>3, <1>4 DEF Statement
<1>35. Doing(mode, Q, un, lo, NoMark, st)
  BY <1>1, <1>2 DEF Doing
<1> QED
  BY <1>1, <1>2, <1>4, <1>9, <1>12, <1>28, <1>30, <1>31, <1>32, <1>33, <1>34, <1>35
  DEF Good, SameSafe, SameContent, Q

\* What the playback of a statement makes of the cache and of the file.
LEMMA PlaybackIs ==
    ASSUME pager \in PagerType, file \in FileType, Once(StmtRecords(pager)),
           \A g \in InStmt(pager) : g <= pager.stmtSize
    PROVE  LET e == StmtPlayback.file
               Q == StmtPlayback.pager
           IN  /\ Q \in PagerType /\ Q.dbSize = pager.stmtSize /\ Q.dirtyCache = pager.dirtyCache
               /\ SameSetting(pager, Q) /\ SameJournals(pager, Q)
               /\ Q.needSync = pager.needSync /\ Q.aInJournal = pager.aInJournal
               /\ Q.aInStmt = pager.aInStmt
               /\ \A g \in Page \ (InStmt(pager) \cap Cached(pager)) : Q.hdr[g] = pager.hdr[g]
               /\ \A g \in InStmt(pager) \cap Cached(pager) :
                     /\ Q.hdr[g].data = StmtSays(pager, g) /\ StmtSays(pager, g) \in Value
                     /\ Q.hdr[g].dirty <=> pager.hdr[g].dirty /\ ~ToFile(pager, g)
                     /\ Q.hdr[g].inJournal = pager.hdr[g].inJournal
                     /\ Q.hdr[g].needSync = pager.hdr[g].needSync
                     /\ Q.hdr[g].inStmt = pager.hdr[g].inStmt
                     /\ Q.hdr[g].alwaysRollback = pager.hdr[g].alwaysRollback
               /\ e \in FileType
               /\ pager.state # "exclusive" => e = file
               /\ pager.state = "exclusive" =>
                     /\ e.size = pager.stmtSize
                     /\ \A g \in Page : g <= pager.stmtSize =>
                           e.page[g] = IF g \in InStmt(pager) /\ ToFile(pager, g) THEN StmtSays(pager, g)
                                       ELSE IF g <= file.size THEN file.page[g] ELSE 0
<1> DEFINE P == pager
           R == StmtRecords(pager)
           T == {g \in Page : ToFile(pager, g)}
           c == IF pager.state = "exclusive" THEN Cut(file, pager.stmtSize) ELSE file
           e == Played(c, R, T)
           New(g) == [P.hdr[g] EXCEPT !.data = LastOf(R, g), !.dirty = P.hdr[g].dirty /\ ~ToFile(pager, g)]
           H == [g \in Page |-> IF g \in Restorable \cap Cached(pager) THEN New(g) ELSE P.hdr[g]]
           Q == [P EXCEPT !.dbSize = pager.stmtSize, !.hdr = H]
<1>1. /\ R \in Seq(Record) /\ Once(R) /\ pager.stmtSize \in 0 .. MaxPage
      /\ \A g \in Page : g \in Nat /\ g >= 1 /\ P.hdr[g] \in Header
      /\ pager.stmtSize \in Nat /\ file.size \in Nat
  <2>1. /\ pager.journal \in Seq(Record) /\ pager.stmtJournal \in Seq(Record)
        /\ pager.stmtStart \in Nat /\ pager.stmtSize \in 0 .. MaxPage
    BY DEF PagerType
  <2>2. SubSeq(pager.journal, pager.stmtStart + 1, Len(pager.journal)) \in Seq(Record)
    BY <2>1
  <2>3. R \in Seq(Record)
    BY <2>1, <2>2 DEF StmtRecords
  <2> QED
    BY <2>1, <2>3, Numbers DEF Page
<1>2. StmtPlayback.file = e /\ StmtPlayback.pager = Q
  <2>1. StmtPlayback.file = e
    BY DEF StmtPlayback
  <2>2. StmtPlayback.pager = Q
    BY DEF StmtPlayback
  <2> QED
    BY <2>1, <2>2
<1>3. /\ \A g \in InStmt(P) : g \in Page /\ LastOf(R, g) \in Value /\ g \in Restorable
      /\ Restorable \subseteq InStmt(P)
  <2>1. \A g \in InStmt(P) : g \in Page /\ LastOf(R, g) \in Value
    BY <1>1, RecordIn DEF InStmt
  <2> QED
    BY <1>1, <2>1 DEF Restorable, InStmt
<1>4. H \in [Page -> Header]
  <2>1. ASSUME NEW g \in Page, g \in Restorable
        PROVE  New(g) \in Header
    BY <1>1, <1>3, <2>1 DEF Header
  <2> QED
    BY <1>1, <2>1
<1>5. \A g \in Page : Q.hdr[g] = H[g]
  BY DEF PagerType
<1>6. /\ Q \in PagerType /\ Q.dbSize = pager.stmtSize /\ Q.dirtyCache = pager.dirtyCache
      /\ SameSetting(pager, Q) /\ SameJournals(pager, Q)
      /\ Q.needSync = pager.needSync /\ Q.aInJournal = pager.aInJournal
      /\ Q.aInStmt = pager.aInStmt
  <2> HIDE DEF H
  <2> QED
    BY <1>1, <1>4 DEF PagerType, SameSetting, SameJournals
<1>7. \A g \in Page \ (InStmt(pager) \cap Cached(pager)) : H[g] = P.hdr[g]
  BY <1>3
<1>8. ASSUME NEW g \in InStmt(pager) \cap Cached(pager)
      PROVE  /\ H[g].data = StmtSays(pager, g) /\ StmtSays(pager, g) \in Value
             /\ H[g].dirty <=> pager.hdr[g].dirty /\ ~ToFile(pager, g)
             /\ H[g].inJournal = pager.hdr[g].inJournal
             /\ H[g].needSync = pager.hdr[g].needSync
             /\ H[g].inStmt = pager.hdr[g].inStmt
             /\ H[g].alwaysRollback = pager.hdr[g].alwaysRollback
  <2>1. g \in Page /\ P.hdr[g] \in Header /\ H[g] = New(g) /\ LastOf(R, g) \in Value
    BY <1>1, <1>3
  <2>2. H[g].dirty = (P.hdr[g].dirty /\ ~ToFile(pager, g))
    BY <2>1 DEF Header
  <2>3. /\ H[g].data = LastOf(R, g)
        /\ H[g].inJournal = pager.hdr[g].inJournal
        /\ H[g].needSync = pager.hdr[g].needSync
        /\ H[g].inStmt = pager.hdr[g].inStmt
        /\ H[g].alwaysRollback = pager.hdr[g].alwaysRollback
    BY <2>1 DEF Header
  <2> HIDE DEF H
  <2> QED
    BY <2>1, <2>2, <2>3 DEF StmtSays
<1>9. c \in FileType
  BY <1>1, CutIs
<1> HIDE DEF c
<1>10. /\ e \in FileType /\ e.size = c.size
       /\ \A h \in Page : e.page[h] = IF h <= c.size /\ h \in T \cap PagesOf(R)
                                      THEN LastOf(R, h) ELSE c.page[h]
  BY <1>1, <1>9, PlayedIs
<1>11. ASSUME pager.state # "exclusive"
       PROVE  e = file
  <2>1. c = file /\ T = {}
    BY <1>11 DEF c, ToFile
  <2>2. file = [page |-> file.page, size |-> file.size] /\ file.page = [h \in Page |-> file.page[h]]
    BY DEF FileType
  <2>3. e = [file EXCEPT !.page = [h \in Page |-> file.page[h]]]
    BY <2>1 DEF Played
  <2> QED
    BY <2>2, <2>3
<1>12. ASSUME pager.state = "exclusive"
       PROVE  /\ e.size = pager.stmtSize
              /\ \A g \in Page : g <= pager.stmtSize =>
                    e.page[g] = IF g \in InStmt(pager) /\ ToFile(pager, g) THEN StmtSays(pager, g)
                                ELSE IF g <= file.size THEN file.page[g] ELSE 0
  <2>1. /\ c.size = pager.stmtSize
        /\ \A h \in Page : c.page[h] = IF h > pager.stmtSize THEN Missing
                                       ELSE IF h > file.size THEN 0 ELSE file.page[h]
    BY <1>1, <1>12, CutIs DEF c
  <2>2. ASSUME NEW g \in Page, g <= pager.stmtSize
        PROVE  e.page[g] = IF g \in InStmt(pager) /\ ToFile(pager, g) THEN StmtSays(pager, g)
                           ELSE IF g <= file.size THEN file.page[g] ELSE 0
    <3>1. g \in Nat /\ file.size \in Nat
      BY <1>1
    <3>2. e.page[g] = IF g <= c.size /\ g \in T \cap PagesOf(R) THEN LastOf(R, g) ELSE c.page[g]
      BY <1>10
    <3>3. g \in T \cap PagesOf(R) <=> g \in InStmt(pager) /\ ToFile(pager, g)
      BY DEF InStmt
    <3>4. c.page[g] = IF g <= file.size THEN file.page[g] ELSE 0
      BY <1>1, <2>1, <2>2, <3>1
    <3> HIDE DEF e, T
    <3> QED
      BY <2>1, <2>2, <3>2, <3>3, <3>4 DEF StmtSays
  <2> QED
    BY <1>10, <2>1, <2>2
<1> HIDE DEF e, H, Q
<1>13. \A g \in InStmt(pager) \cap Cached(pager) : g \in Page /\ Q.hdr[g] = H[g]
  BY <1>3, <1>5
<1> QED
  BY <1>2, <1>5, <1>6, <1>7, <1>8, <1>10, <1>11, <1>12, <1>13

\* A playback gives every page what it had when the statement began.
\* The statement is given back pages.
LEMMA InStmtPages ==
    ASSUME NEW P \in PagerType, Sequences(P)
    PROVE  InStmt(P) \subseteq Page
<1>1. P.journal \in Seq(Record) /\ P.stmtJournal \in Seq(Record) /\ P.stmtStart \in Nat
  BY DEF PagerType
<1>2. SubSeq(P.journal, P.stmtStart + 1, Len(P.journal)) \in Seq(Record)
  BY <1>1
<1>3. StmtRecords(P) \in Seq(Record)
  BY <1>1, <1>2 DEF StmtRecords
<1> QED
  BY <1>3, RecordIn DEF InStmt, Sequences

\* The playback of a statement: every page contains what it contained when
\* the statement began, and a crash still leaves what it would have left.
LEMMA PlaybackGood ==
    ASSUME NEW un, NEW lo, NEW fs, NEW mk, NEW st,
           Good(mode, file, pager, un, lo, fs, mk, st), st.call = "none", pager.stmtInUse
    PROVE  LET e == StmtPlayback.file
               Q == StmtPlayback.pager
               wn == {g \in Page : mk[g] = Unused}
           IN  /\ Good(mode, e, Q, wn, lo, fs, mk, st)
               /\ SameSafe(mode, file, pager, e, Q, fs)
               /\ \A h \in Page : ContentOf(e, Q, wn, h) = mk[h]
               /\ Q.state = pager.state
               /\ \A h \in Page : IsCached(pager, h) => IsCached(Q, h)
<1> DEFINE P == pager
           f == file
           e == StmtPlayback.file
           Q == StmtPlayback.pager
           wn == {g \in Page : mk[g] = Unused}
<1>1. /\ P \in PagerType /\ Sequences(P) /\ f \in FileType
      /\ NoJournal(f, P, un, fs, mk) /\ Sizes(f, P, st) /\ Lists(P, un, lo, fs)
      /\ LastPage(f, P, lo, st) /\ Statement(f, P, un, mk) /\ Doing(mode, P, un, lo, mk, st)
      /\ \A h \in Page : PageGood(mode, f, P, un, lo, fs, mk, st, h)
  BY Unpacked
<1>0. /\ P.dbSize \in Nat /\ P.origDbSize \in Nat /\ P.stmtSize \in Nat /\ f.size \in Nat
      /\ \A h \in Page : h \in Nat /\ P.hdr[h] \in Header
      /\ P.dbSize > 0 => P.dbSize \in Page
      /\ P.stmtSize > 0 => P.stmtSize \in Page
      /\ 1 \in Page
      /\ InCounted(mode, P) \subseteq InMain(P)
      /\ NotCached \notin Value
  BY <1>1, Numbers, CountedIn
<1>2. ASSUME NEW h \in Page
      PROVE  /\ FlagsAt(mode, P, un, mk, h) /\ BitmapAt(P, fs, h) /\ OriginalAt(mode, f, P, fs, st, h)
             /\ FreeAt(P, un, lo, fs, mk, st, h) /\ CleanAt(f, P, un, h)
             /\ StmtBitmapAt(P, mk, h) /\ StmtOriginalAt(f, P, un, lo, mk, st, h)
  BY <1>1 DEF PageGood
<1>3. InStmt(P) \subseteq Page
  BY <1>1, InStmtPages
<1>4. \A h \in InStmt(P) : h <= P.stmtSize /\ h \in P.aInStmt /\ (h <= P.origDbSize => h \in P.aInJournal)
  BY <1>2, <1>3 DEF StmtBitmapAt
<1>5. /\ Q \in PagerType /\ Q.dbSize = P.stmtSize /\ Q.dirtyCache = P.dirtyCache
      /\ SameSetting(P, Q) /\ SameJournals(P, Q)
      /\ Q.needSync = P.needSync /\ Q.aInJournal = P.aInJournal
      /\ Q.aInStmt = P.aInStmt
      /\ \A g \in Page \ (InStmt(P) \cap Cached(P)) : Q.hdr[g] = P.hdr[g]
      /\ \A g \in InStmt(P) \cap Cached(P) :
            /\ Q.hdr[g].data = StmtSays(P, g) /\ StmtSays(P, g) \in Value
            /\ Q.hdr[g].dirty <=> P.hdr[g].dirty /\ ~ToFile(P, g)
            /\ Q.hdr[g].inJournal = P.hdr[g].inJournal
            /\ Q.hdr[g].needSync = P.hdr[g].needSync
            /\ Q.hdr[g].inStmt = P.hdr[g].inStmt
            /\ Q.hdr[g].alwaysRollback = P.hdr[g].alwaysRollback
      /\ e \in FileType
      /\ P.state # "exclusive" => e = f
      /\ P.state = "exclusive" =>
            /\ e.size = P.stmtSize
            /\ \A g \in Page : g <= P.stmtSize =>
                  e.page[g] = IF g \in InStmt(P) /\ ToFile(P, g) THEN StmtSays(P, g)
                              ELSE IF g <= f.size THEN f.page[g] ELSE 0
  BY <1>1, <1>4, PlaybackIs DEF Sequences
<1>6. \A g \in Page : IsCached(P, g) <=> g \in Cached(P)
  BY DEF IsCached, Cached
<1>7. P.stmtInUse /\ P.journalOpen /\ P.state # "shared" /\ mk # NoMark /\ P.origDbSize <= P.stmtSize
      /\ P.stmtSize <= P.dbSize /\ mk \in [Page -> Value \cup {Unused, Missing}] /\ mk[1] # Unused
      /\ (P.state = "reserved" \/ P.state = "exclusive")
  BY <1>1 DEF NoJournal, Statement, PagerType
<1> HIDE DEF Q, e, P, f
<1>8. /\ Waiting(st) = {} /\ Gone(st) = {}
      /\ \A h : h \in wn <=> h \in Page /\ mk[h] = Unused
  BY DEF Waiting, Gone
<1> HIDE DEF wn
<1>9. /\ Sequences(Q)
      /\ InMain(Q) = InMain(P) /\ InCounted(mode, Q) = InCounted(mode, P) /\ InStmt(Q) = InStmt(P)
      /\ \A h : /\ MainSays(Q, h) = MainSays(P, h) /\ StmtSays(Q, h) = StmtSays(P, h)
                /\ CountedSays(mode, Q, h) = CountedSays(mode, P, h)
  BY <1>1, <1>5, SameSays
<1>10. /\ Q.state = P.state /\ Q.journalOpen = P.journalOpen /\ Q.origDbSize = P.origDbSize
       /\ Q.alwaysRollback = P.alwaysRollback /\ Q.nRec = P.nRec /\ Q.journal = P.journal
       /\ Q.stmtAutoopen = P.stmtAutoopen /\ Q.stmtInUse = P.stmtInUse
       /\ Q.stmtSize = P.stmtSize /\ Q.stmtStart = P.stmtStart /\ Q.stmtJournal = P.stmtJournal
  BY <1>5 DEF SameSetting, SameJournals
\* The headers.
<1>11. ASSUME NEW h \in Page
       PROVE  /\ IsCached(Q, h) <=> IsCached(P, h)
              /\ (Q.hdr[h].inJournal <=> P.hdr[h].inJournal)
              /\ (Q.hdr[h].needSync <=> P.hdr[h].needSync)
              /\ (Q.hdr[h].inStmt <=> P.hdr[h].inStmt)
              /\ (Q.hdr[h].alwaysRollback <=> P.hdr[h].alwaysRollback)
              /\ ~IsCached(P, h) => Q.hdr[h] = P.hdr[h]
              /\ h \notin InStmt(P) => Q.hdr[h] = P.hdr[h]
              /\ h \in InStmt(P) /\ IsCached(P, h) => Q.hdr[h].data = StmtSays(P, h)
              /\ Q.hdr[h].dirty => P.hdr[h].dirty
              /\ P.hdr[h].dirty /\ ~Q.hdr[h].dirty => h \in InStmt(P) /\ ToFile(P, h)
              /\ ~ToFile(P, h) => (Q.hdr[h].dirty <=> P.hdr[h].dirty)
  <2>1. CASE h \in InStmt(P) \cap Cached(P)
    BY <1>0, <1>5, <1>6, <2>1 DEF IsCached
  <2>2. CASE h \notin InStmt(P) \cap Cached(P)
    BY <1>5, <1>6, <2>2 DEF IsCached
  <2> QED
    BY <2>1, <2>2
<1>12. ASSUME NEW h \in Page
       PROVE  ToFile(P, h) <=> P.state = "exclusive" /\ ~P.hdr[h].needSync
  BY DEF ToFile
<1>13. ~(\E h \in Page : ~IsCached(P, h) /\ (P.hdr[h].dirty \/ P.hdr[h].needSync))
  BY <1>2, AbsentTyped DEF FlagsAt
\* The file.
<1>14. /\ P.state = "reserved" => e = f
       /\ P.state = "exclusive" => e.size = P.stmtSize
       /\ \A h \in Page : ~(h \in InStmt(P) /\ ToFile(P, h)) /\ h <= P.stmtSize /\ h <= f.size =>
             h <= e.size /\ e.page[h] = f.page[h]
       /\ \A h \in Page : h \in InStmt(P) /\ ToFile(P, h) =>
             h <= e.size /\ e.page[h] = StmtSays(P, h)
       /\ f.size <= P.stmtSize \/ P.state = "exclusive"
       /\ e.size \in Nat
  <2>1. P.state = "reserved" => f.size <= P.stmtSize
    BY <1>0, <1>1, <1>7 DEF Sizes
  <2>2. e.size \in Nat
    BY <1>0, <1>5, <1>7
  <2> QED
    BY <1>0, <1>4, <1>5, <1>7, <1>12, <2>1, <2>2
\* A page that a crash restores from the file waits for the journal.
<1>15. ASSUME NEW h \in Page \ fs.unused, h <= P.origDbSize, h \notin InCounted(mode, P)
       PROVE  /\ ~(h \in InStmt(P) /\ ToFile(P, h))
              /\ h <= f.size /\ h <= e.size /\ e.page[h] = f.page[h]
  <2>1. h <= f.size
    BY <1>2, <1>15 DEF OriginalAt
  <2>2. h \in InStmt(P) => P.hdr[h].needSync
    BY <1>2, <1>4, <1>8, <1>15 DEF OriginalAt, BitmapAt
  <2>3. h <= P.stmtSize
    BY <1>0, <1>7, <1>15
  <2> QED
    BY <1>12, <1>14, <2>1, <2>2, <2>3
<1>16. ASSUME NEW h \in Page \ fs.unused
       PROVE  SafeAt(mode, e, Q, h) = SafeAt(mode, f, P, h)
  BY <1>0, <1>7, <1>9, <1>10, <1>15 DEF SafeAt, StoredIn
\* What is restored.
<1>17. ASSUME NEW h \in Page, h <= P.stmtSize, mk[h] # Unused
       PROVE  /\ IsCached(P, h) => Q.hdr[h].data = mk[h]
              /\ ~Q.hdr[h].dirty => h <= e.size /\ e.page[h] = mk[h]
  <2>1. CASE h \in InStmt(P)
    <3>1. StmtSays(P, h) = mk[h]
      BY <1>2, <1>7, <1>17, <2>1 DEF StmtOriginalAt
    <3>2. ASSUME ~Q.hdr[h].dirty
          PROVE  ToFile(P, h)
      <4>1. P.state = "reserved" => P.hdr[h].dirty
        BY <1>2, <1>7, <1>8, <2>1 DEF StmtOriginalAt
      <4>2. P.hdr[h].needSync => P.hdr[h].dirty
        BY <1>2, <1>7, <1>17 DEF FlagsAt
      <4> QED
        BY <1>7, <1>11, <1>12, <3>2, <4>1, <4>2
    <3> QED
      BY <1>11, <1>14, <2>1, <3>1, <3>2
  <2>2. CASE h \notin InStmt(P)
    <3>1. Q.hdr[h] = P.hdr[h]
      BY <1>11, <2>2
    <3>2. /\ IsCached(P, h) => P.hdr[h].data = mk[h]
          /\ ~P.hdr[h].dirty => OnFile(f, h, mk[h])
      BY <1>2, <1>7, <1>17, <2>2 DEF StmtOriginalAt
    <3> QED
      BY <1>14, <1>17, <2>2, <3>1, <3>2 DEF OnFile
  <2> QED
    BY <2>1, <2>2
<1>18. ASSUME NEW h \in Page
       PROVE  ContentOf(e, Q, wn, h) = mk[h]
  <2>1. h > P.stmtSize => mk[h] \in {Unused, Missing}
    BY <1>2, <1>7 DEF StmtOriginalAt
  <2>2. ~IsCached(P, h) => ~Q.hdr[h].dirty
    BY <1>11, <1>13
  <2> QED
    BY <1>0, <1>5, <1>8, <1>11, <1>17, <2>1, <2>2 DEF ContentOf, StoredIn
<1>28. ASSUME NEW g \in Page
       PROVE  PageGood(mode, e, Q, wn, lo, fs, mk, st, g)
  <2>20. FlagsAt(mode, Q, wn, mk, g)
    <3>1. P.hdr[g].needSync => (P.hdr[g].dirty => Q.hdr[g].dirty)
      BY <1>11, <1>12
    <3> QED
      BY <1>2, <1>5, <1>7, <1>8, <1>11, <3>1 DEF FlagsAt
  <2>21. BitmapAt(Q, fs, g)
    BY <1>2, <1>5, <1>9, <1>10, <1>11 DEF BitmapAt
  <2>22. OriginalAt(mode, e, Q, fs, st, g)
    <3>1. g \in InMain(Q) \ InCounted(mode, Q) => Q.needSync /\ Q.hdr[g].needSync
      BY <1>2, <1>5, <1>8, <1>9, <1>11 DEF OriginalAt
    <3>2. ASSUME g \notin fs.unused, g <= P.origDbSize
          PROVE  /\ g \in InMain(P) /\ (P.hdr[g].needSync \/ P.state = "reserved") =>
                        OnFile(e, g, MainSays(P, g))
                 /\ g \notin P.aInJournal /\ IsCached(P, g) => OnFile(e, g, Q.hdr[g].data)
                 /\ g \notin InCounted(mode, P) => g <= e.size
      <4>1. g <= P.stmtSize
        BY <1>0, <1>7, <3>2
      <4>2. ASSUME g \in InMain(P), P.hdr[g].needSync \/ P.state = "reserved"
            PROVE  OnFile(e, g, MainSays(P, g))
        <5>1. OnFile(f, g, MainSays(P, g))
          BY <1>2, <3>2, <4>2 DEF OriginalAt
        <5> QED
          BY <1>12, <1>14, <4>1, <4>2, <5>1 DEF OnFile
      <4>3. ASSUME g \notin P.aInJournal, IsCached(P, g)
            PROVE  OnFile(e, g, Q.hdr[g].data)
        <5>1. g \notin InStmt(P) /\ OnFile(f, g, P.hdr[g].data)
          BY <1>2, <1>4, <3>2, <4>3 DEF OriginalAt
        <5> QED
          BY <1>11, <1>14, <4>1, <5>1 DEF OnFile
      <4> QED
        BY <1>15, <3>2, <4>2, <4>3
    <3> QED
      BY <1>5, <1>8, <1>9, <1>10, <1>11, <3>1, <3>2 DEF OriginalAt
  <2>23. FreeAt(Q, wn, lo, fs, mk, st, g)
    BY <1>2, <1>5, <1>7, <1>8, <1>10, <1>11 DEF FreeAt, Always
  <2>24. CleanAt(e, Q, wn, g)
    BY <1>5, <1>8, <1>11, <1>17 DEF CleanAt
  <2>25. StmtBitmapAt(Q, mk, g)
    BY <1>2, <1>5, <1>9, <1>10, <1>11 DEF StmtBitmapAt
  <2>26. StmtOriginalAt(e, Q, wn, lo, mk, st, g)
    <3>1. g \in InStmt(P) /\ P.state = "reserved" => IsCached(Q, g) /\ Q.hdr[g].dirty
      BY <1>2, <1>7, <1>8, <1>11, <1>12 DEF StmtOriginalAt
    <3> QED
      BY <1>2, <1>8, <1>9, <1>10, <1>11, <1>17, <3>1 DEF StmtOriginalAt, OnFile
  <2> QED
    BY <2>20, <2>21, <2>22, <2>23, <2>24, <2>25, <2>26 DEF PageGood
<1>30. NoJournal(e, Q, wn, fs, mk)
  BY <1>7, <1>10 DEF NoJournal
<1>31. Sizes(e, Q, st)
  <2>1. e.size <= P.stmtSize /\ (P.state = "reserved" => e.size <= P.origDbSize)
    BY <1>0, <1>1, <1>7, <1>14 DEF Sizes
  <2>2. P.state = "exclusive" => P.dirtyCache
    BY <1>1 DEF Sizes
  <2> QED
    BY <1>5, <1>7, <1>10, <2>1, <2>2 DEF Sizes
<1>32. Lists(Q, wn, lo, fs)
  <2>1. \A h \in lo : h \in Page /\ mk[h] = Unused
    BY <1>1, <1>2, <1>7, <1>8 DEF Lists, FreeAt
  <2> QED
    BY <1>0, <1>1, <1>7, <1>8, <2>1 DEF Lists
<1>33. LastPage(e, Q, lo, st)
  <2>1. ASSUME lo \subseteq {}
        PROVE  /\ e.size < P.stmtSize => Q.hdr[P.stmtSize].dirty
               /\ P.origDbSize <= e.size
               /\ P.state = "reserved" /\ P.origDbSize < P.stmtSize => Q.hdr[P.stmtSize].dirty
    <3>1. /\ P.origDbSize <= f.size
          /\ P.state = "reserved" /\ P.origDbSize < P.stmtSize => P.hdr[P.stmtSize].dirty
      BY <1>1, <1>7, <1>8, <2>1 DEF LastPage
    <3>2. P.state = "reserved" /\ P.origDbSize < P.stmtSize => Q.hdr[P.stmtSize].dirty
      <4>1. P.origDbSize < P.stmtSize => P.stmtSize \in Page
        BY <1>0
      <4> QED
        BY <1>11, <1>12, <3>1, <4>1
    <3>3. P.origDbSize <= e.size
      BY <1>7, <1>14, <3>1
    <3>4. e.size < P.stmtSize => P.state = "reserved" /\ P.origDbSize < P.stmtSize
      BY <1>0, <1>7, <1>14, <3>1
    <3> QED
      BY <3>2, <3>3, <3>4
  <2> QED
    BY <1>5, <1>8, <1>10, <2>1 DEF LastPage
<1>34. Statement(e, Q, wn, mk)
  <2>1. P.stmtInUse /\ Q.stmtSize <= Q.dbSize
    BY <1>0, <1>5, <1>10 DEF P
  <2> QED
    BY <1>7, <1>10, <2>1 DEF Statement
<1>35. Doing(mode, Q, wn, lo, mk, st)
  BY <1>1, <1>10 DEF Doing
<1> QED
  BY <1>5, <1>9, <1>10, <1>11, <1>16, <1>18, <1>28, <1>30, <1>31, <1>32, <1>33, <1>34, <1>35
  DEF Good, SameSafe, Q, e, P, f, wn

-----------------------------------------------------------------------------
(* The end of the transaction.                                             *)

\* The file is cut to n pages if it is longer.
CutTo(f, P, un, lo, n, e, Q, wn, lp) ==
    /\ n < P.dbSize =>
          /\ e = Cut(f, n)
          /\ Q = [P EXCEPT !.state = "exclusive", !.dbSize = n]
          /\ wn = un \cap 1 .. n /\ lp = lo \cap 1 .. n
    /\ ~(n < P.dbSize) =>
          e = f /\ Q = [P EXCEPT !.state = "exclusive"] /\ wn = un /\ lp = lo

\* The file is cut: the pages past the end are unused and in the journal.
LEMMA TruncateGood ==
    ASSUME NEW f, NEW P, NEW un, NEW lo, NEW fs, NEW mk, NEW st,
           Good(mode, f, P, un, lo, fs, mk, st), st.call = "lock",
           NEW e, NEW Q, NEW wn, NEW lp,
           CutTo(f, P, un, lo, st.size, e, Q, wn, lp)
    PROVE  /\ Good(mode, e, Q, wn, lp, fs, mk, [call |-> "store"])
           /\ SameSafe(mode, f, P, e, Q, fs)
           /\ Q.state = "exclusive" /\ mk = NoMark /\ st.size \in Page
           /\ ~(st.size < P.dbSize) => SameContent(f, P, un, e, Q, wn)
           /\ st.size < P.dbSize =>
                 \A h \in Page : /\ h > st.size => /\ ContentOf(f, P, un, h) \in {Unused, Missing}
                                                   /\ ContentOf(e, Q, wn, h) = Missing
                                 /\ ~(h > st.size) => ContentOf(e, Q, wn, h) = ContentOf(f, P, un, h)
           /\ \A h \in Page : IsCached(P, h) => IsCached(Q, h)
<1> DEFINE n == st.size
           su == [call |-> "store"]
<1> USE DEF CutTo
<1>1. /\ P \in PagerType /\ Sequences(P) /\ f \in FileType
      /\ NoJournal(f, P, un, fs, mk) /\ Sizes(f, P, st) /\ Lists(P, un, lo, fs)
      /\ LastPage(f, P, lo, st) /\ Statement(f, P, un, mk) /\ Doing(mode, P, un, lo, mk, st)
      /\ \A h \in Page : PageGood(mode, f, P, un, lo, fs, mk, st, h)
  BY Unpacked
<1>0. /\ P.dbSize \in Nat /\ P.origDbSize \in Nat /\ P.stmtSize \in Nat /\ f.size \in Nat
      /\ \A h \in Page : h \in Nat /\ h >= 1
      /\ P.dbSize > 0 => P.dbSize \in Page
      /\ 1 \in Page
      /\ InCounted(mode, P) \subseteq InMain(P)
  BY <1>1, Numbers, CountedIn
<1>2. /\ n \in Page /\ (n + 1 .. P.dbSize) \subseteq lo /\ (n + 1 .. P.origDbSize) \subseteq P.aInJournal
      /\ P.journalOpen /\ P.dirtyCache /\ mk = NoMark /\ ~P.needSync /\ ~P.stmtInUse
  BY <1>1 DEF Doing, Statement
<1>3. n \in Nat /\ n \in 0 .. MaxPage /\ n >= 1 /\ (\A h \in Page : h \in Nat)
  BY <1>2, BoundAssumption DEF Page
<1>4. /\ Q \in PagerType /\ SameJournals(P, Q) /\ Q.hdr = P.hdr /\ Q.state = "exclusive"
      /\ Q.dirtyCache = P.dirtyCache /\ Q.journalOpen = P.journalOpen /\ Q.origDbSize = P.origDbSize
      /\ Q.needSync = P.needSync /\ Q.alwaysRollback = P.alwaysRollback
      /\ Q.aInJournal = P.aInJournal /\ Q.stmtAutoopen = P.stmtAutoopen
      /\ Q.stmtInUse = P.stmtInUse /\ Q.stmtSize = P.stmtSize /\ Q.aInStmt = P.aInStmt
      /\ Q.journal = P.journal /\ Q.nRec = P.nRec
      /\ Q.stmtStart = P.stmtStart /\ Q.stmtJournal = P.stmtJournal
      /\ Q.dbSize = IF n < P.dbSize THEN n ELSE P.dbSize
  <2>1. CASE n < P.dbSize
    BY <1>1, <1>3, <2>1 DEF PagerType, SameJournals
  <2>2. CASE ~(n < P.dbSize)
    BY <1>1, <2>2 DEF PagerType, SameJournals
  <2> QED
    BY <2>1, <2>2
<1>5. /\ e \in FileType
      /\ n < P.dbSize => e.size = n
      /\ ~(n < P.dbSize) => e = f
      /\ \A h \in Page : h <= n /\ h <= f.size => h <= e.size /\ e.page[h] = f.page[h]
      /\ \A h \in Page : h <= n => StoredIn(e, h) = StoredIn(f, h)
  <2>1. CASE n < P.dbSize
    <3>1. /\ e \in FileType /\ e.size = n
          /\ \A h \in Page : e.page[h] = IF h > n THEN Missing
                                         ELSE IF h > f.size THEN 0 ELSE f.page[h]
          /\ \A h \in Page : StoredIn(e, h) = IF h > n THEN 0 ELSE StoredIn(f, h)
      BY <1>1, <1>3, <2>1, CutIs
    <3> QED
      BY <1>0, <1>3, <2>1, <3>1
  <2>2. CASE ~(n < P.dbSize)
    BY <1>1, <2>2
  <2> QED
    BY <2>1, <2>2
<1>6. /\ \A h \in Page : h <= n => ((h \in wn <=> h \in un) /\ (h \in lp <=> h \in lo))
      /\ wn \subseteq un /\ lp \subseteq lo
      /\ n < P.dbSize => \A h \in Page : h > n => h \notin wn
      /\ ~(n < P.dbSize) => wn = un /\ lp = lo
      /\ lp \subseteq wn
  <2>1. CASE n < P.dbSize
    BY <1>0, <1>1, <1>3, <2>1 DEF Lists
  <2>2. CASE ~(n < P.dbSize)
    BY <1>1, <2>2 DEF Lists
  <2> QED
    BY <2>1, <2>2
<1>61. \A h \in wn : h \notin lp => h \notin lo
  <2>1. CASE n < P.dbSize
    BY <1>0, <1>1, <1>3, <1>6, <2>1 DEF Lists
  <2>2. CASE ~(n < P.dbSize)
    BY <1>6, <2>2
  <2> QED
    BY <2>1, <2>2
<1> HIDE DEF n, su
<1>7. /\ Waiting(st) = {} /\ Gone(st) = {} /\ Waiting(su) = {} /\ Gone(su) = {} /\ su.call = "store"
  BY DEF Waiting, Gone, su
<1>8. /\ Sequences(Q)
      /\ InMain(Q) = InMain(P) /\ InCounted(mode, Q) = InCounted(mode, P) /\ InStmt(Q) = InStmt(P)
      /\ \A h : /\ MainSays(Q, h) = MainSays(P, h) /\ StmtSays(Q, h) = StmtSays(P, h)
                /\ CountedSays(mode, Q, h) = CountedSays(mode, P, h)
  BY <1>1, <1>4, SameSays
<1>9. \A h : IsCached(Q, h) <=> IsCached(P, h)
  BY <1>4 DEF IsCached
<1>10. ASSUME NEW h \in Page
       PROVE  /\ h <= P.origDbSize /\ h \notin P.aInJournal => h <= n
              /\ h <= P.dbSize /\ h \notin lo => h <= n
              /\ ~P.hdr[h].needSync
              /\ h \in InMain(P) => h \in InCounted(mode, P)
              /\ h \notin fs.unused /\ h <= P.origDbSize /\ h \notin InCounted(mode, P) =>
                    h <= n /\ h <= f.size
  <2>1. /\ h <= P.origDbSize /\ h \notin P.aInJournal => h <= n
        /\ h <= P.dbSize /\ h \notin lo => h <= n
    BY <1>0, <1>2, <1>3
  <2>2. PageGood(mode, f, P, un, lo, fs, mk, st, h)
    BY <1>1
  <2>3. ~P.hdr[h].needSync /\ (h \in InMain(P) => h \in InCounted(mode, P))
    BY <1>2, <2>2 DEF PageGood, FlagsAt, OriginalAt
  <2> QED
    BY <2>1, <2>2, <2>3 DEF PageGood, BitmapAt, OriginalAt
<1>11. ASSUME NEW h \in Page \ fs.unused
       PROVE  SafeAt(mode, e, Q, h) = SafeAt(mode, f, P, h)
  BY <1>0, <1>2, <1>4, <1>5, <1>8, <1>10 DEF SafeAt
<1>12. ASSUME NEW h \in Page, h <= n
       PROVE  ContentOf(e, Q, wn, h) = ContentOf(f, P, un, h)
  BY <1>0, <1>3, <1>4, <1>5, <1>6, <1>9, <1>12 DEF ContentOf
<1>13. ASSUME NEW h \in Page, h > n, n < P.dbSize
       PROVE  /\ ContentOf(f, P, un, h) \in {Unused, Missing}
              /\ ContentOf(e, Q, wn, h) = Missing
  <2>1. h <= P.dbSize => h \in un
    BY <1>0, <1>1, <1>3, <1>10, <1>13 DEF Lists
  <2> QED
    BY <1>0, <1>3, <1>4, <1>6, <1>13, <2>1 DEF ContentOf
<1>14. ASSUME ~(n < P.dbSize)
       PROVE  SameContent(f, P, un, e, Q, wn)
  BY <1>4, <1>5, <1>6, <1>9, <1>14 DEF SameContent, ContentOf
<1>28. ASSUME NEW g \in Page
       PROVE  PageGood(mode, e, Q, wn, lp, fs, mk, su, g)
  <2>1. PageGood(mode, f, P, un, lo, fs, mk, st, g)
    BY <1>1
  <2>20. FlagsAt(mode, Q, wn, mk, g)
    BY <1>4, <1>9, <1>10, <2>1 DEF PageGood, FlagsAt
  <2>21. BitmapAt(Q, fs, g)
    BY <1>4, <1>8, <1>9, <2>1 DEF PageGood, BitmapAt
  <2>22. OriginalAt(mode, e, Q, fs, su, g)
    BY <1>4, <1>5, <1>7, <1>8, <1>9, <1>10, <2>1 DEF PageGood, OriginalAt, OnFile
  <2>23. FreeAt(Q, wn, lp, fs, mk, su, g)
    BY <1>2, <1>4, <1>6, <1>61, <2>1 DEF PageGood, FreeAt, Always
  <2>24. CleanAt(e, Q, wn, g)
    <3>1. ASSUME g \notin wn, g <= Q.dbSize
          PROVE  g <= n /\ g <= P.dbSize /\ g \notin un
      <4>1. CASE n < P.dbSize
        BY <1>0, <1>3, <1>4, <1>6, <3>1, <4>1
      <4>2. CASE ~(n < P.dbSize)
        BY <1>0, <1>3, <1>4, <1>6, <3>1, <4>2
      <4> QED
        BY <4>1, <4>2
    <3> QED
      BY <1>4, <1>5, <1>9, <2>1, <3>1 DEF PageGood, CleanAt
  <2>25. StmtBitmapAt(Q, mk, g)
    BY <1>2, <1>4 DEF StmtBitmapAt
  <2>26. StmtOriginalAt(e, Q, wn, lp, mk, su, g)
    BY <1>2, <1>4 DEF StmtOriginalAt
  <2> QED
    BY <2>20, <2>21, <2>22, <2>23, <2>24, <2>25, <2>26 DEF PageGood
<1>30. NoJournal(e, Q, wn, fs, mk)
  BY <1>2, <1>4 DEF NoJournal
<1>31. Sizes(e, Q, su)
  <2>1. e.size <= Q.dbSize
    BY <1>0, <1>1, <1>3, <1>4, <1>5 DEF Sizes
  <2> QED
    BY <1>2, <1>4, <1>7, <2>1 DEF Sizes
<1>32. Lists(Q, wn, lp, fs)
  BY <1>1, <1>6 DEF Lists
<1>33. LastPage(e, Q, lp, su)
  <2>1. CASE n < P.dbSize
    BY <1>0, <1>2, <1>3, <1>4, <1>5, <1>7, <2>1 DEF LastPage
  <2>2. CASE ~(n < P.dbSize)
    BY <1>1, <1>2, <1>4, <1>5, <1>6, <1>7, <2>2 DEF LastPage
  <2> QED
    BY <2>1, <2>2
<1>34. Statement(e, Q, wn, mk)
  BY <1>1, <1>2, <1>4 DEF Statement
<1>35. Doing(mode, Q, wn, lp, mk, su)
  BY <1>2, <1>4, <1>7 DEF Doing
<1> QED
  BY <1>2, <1>3, <1>4, <1>5, <1>8, <1>9, <1>11, <1>12, <1>13, <1>14, <1>28, <1>30, <1>31, <1>32, <1>33,
     <1>34, <1>35, <1>0
  DEF Good, SameSafe, n, su

\* No transaction is under way.
LEMMA ClosedGood ==
    ASSUME NEW f \in FileType, NEW hdr \in [Page -> Header], NEW n \in 0 .. MaxPage,
           NEW un, NEW lo, NEW fs, fs.unused = un, fs.lost = lo,
           un \subseteq Page, lo \subseteq un, 1 \notin un,
           f.size <= n, lo = {} => f.size = n,
           \A g \in Page : /\ hdr[g].data = NotCached => hdr[g] = Absent
                           /\ ~hdr[g].dirty /\ ~hdr[g].needSync /\ ~hdr[g].inJournal /\ ~hdr[g].inStmt
                           /\ g \notin un /\ g <= n =>
                                 g <= f.size /\ (hdr[g].data # NotCached => hdr[g].data = f.page[g])
    PROVE  LET P == Closed(hdr, n)
               st == [call |-> "none"]
           IN  Good(mode, f, P, un, lo, fs, NoMark, st)
<1> DEFINE P == Closed(hdr, n)
           st == [call |-> "none"]
<1>1. /\ P \in PagerType /\ P.hdr = hdr /\ P.state = "shared" /\ P.dbSize = n /\ ~P.dirtyCache
      /\ ~P.journalOpen /\ P.origDbSize = 0 /\ ~P.needSync /\ ~P.alwaysRollback
      /\ P.aInJournal = {} /\ P.journal = <<>> /\ P.nRec = 0 /\ ~P.stmtAutoopen /\ ~P.stmtInUse
      /\ P.stmtSize = 0 /\ P.aInStmt = {} /\ P.stmtStart = 0 /\ P.stmtJournal = <<>>
  <2>1. <<>> \in Seq(Record) /\ 0 \in 0 .. MaxPage /\ 0 \in Nat
    BY BoundAssumption
  <2> QED
    BY <2>1 DEF Closed, PagerType
<1>2. /\ f.size \in Nat /\ n \in Nat /\ \A g \in Page : g \in Nat /\ g >= 1
      /\ \A g \in Page : f.page[g] = Missing <=> g > f.size
  BY <1>1, Numbers
<1> HIDE DEF P, st
<1>3. CountedOf(mode, P) = <<>> /\ StmtRecords(P) = <<>>
  <2>1. SubSeq(<<>>, 1, 0) = <<>> /\ Len(<<>>) = 0 /\ <<>> \o <<>> = <<>>
    OBVIOUS
  <2> QED
    BY <1>1, <2>1 DEF CountedOf, StmtRecords
<1>4. InMain(P) = {} /\ InCounted(mode, P) = {} /\ InStmt(P) = {}
  BY <1>1, <1>3 DEF InMain, InCounted, InStmt, PagesOf
<1>5. Sequences(P)
  BY <1>1, <1>3 DEF Sequences, Once
<1>6. /\ st.call = "none" /\ Waiting(st) = {} /\ Gone(st) = {}
      /\ \A g : IsCached(P, g) <=> hdr[g].data # NotCached
  BY <1>1 DEF st, Waiting, Gone, IsCached
<1>7. ASSUME NEW g \in Page
      PROVE  PageGood(mode, f, P, un, lo, fs, NoMark, st, g)
  <2>1. FlagsAt(mode, P, un, NoMark, g)
    BY <1>1, <1>6 DEF FlagsAt
  <2>2. BitmapAt(P, fs, g)
    BY <1>1, <1>2, <1>4 DEF BitmapAt
  <2>3. OriginalAt(mode, f, P, fs, st, g)
    BY <1>1, <1>2, <1>4 DEF OriginalAt
  <2>4. FreeAt(P, un, lo, fs, NoMark, st, g)
    BY <1>1, <1>2 DEF FreeAt
  <2>5. CleanAt(f, P, un, g)
    BY <1>1, <1>6 DEF CleanAt
  <2>6. StmtBitmapAt(P, NoMark, g) /\ StmtOriginalAt(f, P, un, lo, NoMark, st, g)
    BY <1>1 DEF StmtBitmapAt, StmtOriginalAt
  <2> QED
    BY <2>1, <2>2, <2>3, <2>4, <2>5, <2>6 DEF PageGood
<1>8. NoJournal(f, P, un, fs, NoMark)
  BY <1>1 DEF NoJournal
<1>9. Sizes(f, P, st)
  BY <1>1, <1>2 DEF Sizes
<1>10. Lists(P, un, lo, fs)
  BY DEF Lists
<1>11. LastPage(f, P, lo, st)
  BY <1>1, <1>2, <1>6 DEF LastPage
<1>12. Statement(f, P, un, NoMark)
  BY <1>1 DEF Statement
<1>13. Doing(mode, P, un, lo, NoMark, st)
  BY <1>1, <1>6 DEF Doing
<1>14. Good(mode, f, P, un, lo, fs, NoMark, st)
  BY <1>1, <1>5, <1>7, <1>8, <1>9, <1>10, <1>11, <1>12, <1>13 DEF Good
<1> QED
  BY <1>14 DEF P, st

\* Without a transaction the file is what a crash would leave, and what is read.
LEMMA ClosedIs ==
    ASSUME NEW f \in FileType, NEW hdr \in [Page -> Header], NEW n \in 0 .. MaxPage, NEW un,
           f.size <= n,
           \A g \in Page : g \notin un /\ g <= n =>
              g <= f.size /\ (hdr[g].data # NotCached => hdr[g].data = f.page[g])
    PROVE  LET P == Closed(hdr, n)
           IN  /\ P.state = "shared" /\ P.hdr = hdr /\ P.dbSize = n
               /\ \A g \in Page : SafeAt(mode, f, P, g) = f.page[g]
               /\ \A g \in Page : g \notin un => ContentOf(f, P, un, g) = f.page[g]
               /\ \A g \in Page : g \in un => ContentOf(f, P, un, g) = Unused
<1> DEFINE P == Closed(hdr, n)
<1>1. P.hdr = hdr /\ P.state = "shared" /\ P.dbSize = n /\ ~P.journalOpen
  BY DEF Closed
<1>2. /\ f.size \in Nat /\ n \in Nat /\ \A g \in Page : g \in Nat /\ g >= 1
      /\ \A g \in Page : f.page[g] = Missing <=> g > f.size
  BY BoundAssumption DEF FileType, Page
<1> HIDE DEF P
<1>15. ASSUME NEW g \in Page
       PROVE  /\ SafeAt(mode, f, P, g) = f.page[g]
              /\ g \notin un => ContentOf(f, P, un, g) = f.page[g]
              /\ g \in un => ContentOf(f, P, un, g) = Unused
  BY <1>1, <1>2 DEF SafeAt, ContentOf, StoredIn, IsCached
<1> QED
  BY <1>1, <1>15 DEF P

\* When no page is dirty, what the pages contain is what is on the file.
LEMMA CommitGood ==
    ASSUME NEW f, NEW P, NEW un, NEW lo, NEW fs, NEW mk, NEW st,
           Good(mode, f, P, un, lo, fs, mk, st), st.call = "store",
           \A g \in Page : ~P.hdr[g].dirty
    PROVE  LET hdr == [g \in Page |-> [P.hdr[g] EXCEPT !.inJournal = FALSE, !.inStmt = FALSE]]
               Q == Closed(hdr, P.dbSize)
               gs == [unused |-> un, lost |-> lo]
           IN  /\ Good(mode, f, Q, un, lo, gs, mk, [call |-> "none"])
               /\ Q.state = "shared" /\ mk = NoMark /\ P.state # "shared"
               /\ SameContent(f, P, un, f, Q, un)
               /\ \A g \in Page : g \notin un =>
                     SafeAt(mode, f, Q, g) = ContentOf(f, P, un, g)
<1> DEFINE hdr == [g \in Page |-> [P.hdr[g] EXCEPT !.inJournal = FALSE, !.inStmt = FALSE]]
           Q == Closed(hdr, P.dbSize)
           gs == [unused |-> un, lost |-> lo]
<1>1. /\ P \in PagerType /\ f \in FileType /\ Sizes(f, P, st) /\ Lists(P, un, lo, fs)
      /\ LastPage(f, P, lo, st) /\ Statement(f, P, un, mk) /\ Doing(mode, P, un, lo, mk, st)
      /\ \A h \in Page : PageGood(mode, f, P, un, lo, fs, mk, st, h)
  BY Unpacked
<1>0. /\ P.dbSize \in Nat /\ f.size \in Nat /\ P.dbSize \in 0 .. MaxPage
      /\ \A h \in Page : h \in Nat /\ h >= 1 /\ P.hdr[h] \in Header
      /\ P.dbSize > 0 => P.dbSize \in Page
      /\ \A g \in Page : f.page[g] = Missing <=> g > f.size
  BY <1>1, Numbers DEF PagerType
<1>2. mk = NoMark /\ P.state = "exclusive" /\ ~P.needSync /\ Gone(st) = {}
  BY <1>1 DEF Doing, Gone
<1>3. hdr \in [Page -> Header]
  <2>1. \A h \in Header : [h EXCEPT !.inJournal = FALSE, !.inStmt = FALSE] \in Header
    BY DEF Header
  <2> QED
    BY <1>0, <2>1
<1>4. ASSUME NEW g \in Page
      PROVE  /\ hdr[g].data = P.hdr[g].data
             /\ ~hdr[g].dirty /\ ~hdr[g].needSync /\ ~hdr[g].inJournal /\ ~hdr[g].inStmt
             /\ hdr[g].data = NotCached => hdr[g] = Absent
  <2>1. P.hdr[g] \in Header /\ hdr[g] = [P.hdr[g] EXCEPT !.inJournal = FALSE, !.inStmt = FALSE]
    BY <1>0
  <2>2. ~P.hdr[g].needSync /\ (P.hdr[g].data = NotCached => P.hdr[g] = Absent)
    BY <1>1, <1>2 DEF PageGood, FlagsAt, IsCached
  <2>3. /\ hdr[g].data = P.hdr[g].data /\ hdr[g].dirty = P.hdr[g].dirty
        /\ hdr[g].needSync = P.hdr[g].needSync /\ ~hdr[g].inJournal /\ ~hdr[g].inStmt
        /\ hdr[g].alwaysRollback = P.hdr[g].alwaysRollback
    BY <2>1 DEF Header
  <2>4. P.hdr[g] = Absent => /\ hdr[g].inJournal = Absent.inJournal
                             /\ hdr[g].inStmt = Absent.inStmt
    <3>1. P.hdr[g] = Absent => /\ hdr[g].inJournal = FALSE
                               /\ hdr[g].inStmt = FALSE
      BY <2>1 DEF Header
    <3> QED
      BY <3>1 DEF Absent
  <2>5. P.hdr[g] = Absent => hdr[g] = Absent
    BY <1>3, <2>3, <2>4, AbsentTyped, SameHeader
  <2> QED
    BY <2>2, <2>3, <2>5
<1> HIDE DEF hdr
<1>5. ASSUME NEW g \in Page, g \notin un, g <= P.dbSize
      PROVE  g <= f.size /\ (hdr[g].data # NotCached => hdr[g].data = f.page[g])
  BY <1>1, <1>4, <1>5 DEF PageGood, CleanAt, IsCached
<1>6. f.size <= P.dbSize /\ (lo = {} => f.size = P.dbSize)
  BY <1>0, <1>1, <1>2 DEF Sizes, LastPage
<1>7. un \subseteq Page /\ lo \subseteq un /\ 1 \notin un
  BY <1>1 DEF Lists
<1>8. gs.unused = un /\ gs.lost = lo
  OBVIOUS
<1> HIDE DEF gs
<1>9. /\ Good(mode, f, Q, un, lo, gs, NoMark, [call |-> "none"])
      /\ Q.state = "shared" /\ Q.hdr = hdr /\ Q.dbSize = P.dbSize
      /\ \A g \in Page : SafeAt(mode, f, Q, g) = f.page[g]
      /\ \A g \in Page : g \notin un => ContentOf(f, Q, un, g) = f.page[g]
      /\ \A g \in Page : g \in un => ContentOf(f, Q, un, g) = Unused
  <2>1. f \in FileType /\ P.dbSize \in 0 .. MaxPage
    BY <1>0, <1>1
  <2>2. \A g \in Page :
           /\ hdr[g].data = NotCached => hdr[g] = Absent
           /\ ~hdr[g].dirty /\ ~hdr[g].needSync /\ ~hdr[g].inJournal /\ ~hdr[g].inStmt
           /\ g \notin un /\ g <= P.dbSize =>
                 g <= f.size /\ (hdr[g].data # NotCached => hdr[g].data = f.page[g])
    BY <1>4, <1>5
  <2>3. Good(mode, f, Q, un, lo, gs, NoMark, [call |-> "none"])
    BY <1>3, <1>4, <1>6, <1>7, <1>8, <2>1, <2>2, ClosedGood
  <2>4. \A g \in Page : g \notin un /\ g <= P.dbSize =>
           g <= f.size /\ (hdr[g].data # NotCached => hdr[g].data = f.page[g])
    BY <1>5
  <2> QED
    BY <1>3, <1>6, <2>1, <2>3, <2>4, ClosedIs
<1> HIDE DEF Q
<1>10. ASSUME NEW g \in Page
       PROVE  ContentOf(f, P, un, g) = ContentOf(f, Q, un, g)
  BY <1>4, <1>9 DEF ContentOf, IsCached
<1> QED
  BY <1>2, <1>9, <1>10 DEF Q, gs, hdr, SameContent

\* The transaction is undone: the file that is left, and an empty cache.
LEMMA ForgetGood ==
    ASSUME NEW e \in FileType, NEW P, NEW un, NEW lo, NEW fs, Lists(P, un, lo, fs)
    PROVE  LET Q == Closed(Empty, e.size)
           IN  /\ Good(mode, e, Q, fs.unused, fs.lost, fs, NoMark, [call |-> "none"])
               /\ Q.state = "shared"
               /\ \A g \in Page : SafeAt(mode, e, Q, g) = e.page[g]
               /\ \A g \in Page : g \notin fs.unused => ContentOf(e, Q, fs.unused, g) = e.page[g]
               /\ \A g \in Page : g \in fs.unused => ContentOf(e, Q, fs.unused, g) = Unused
<1>1. /\ e.size \in 0 .. MaxPage /\ e.size <= e.size
      /\ \A g \in Page : g \in Nat
  BY BoundAssumption DEF FileType, Page
<1>2. Empty \in [Page -> Header] /\ \A g \in Page : Empty[g] = Absent
  BY AbsentTyped DEF Empty
<1>3. fs.unused \subseteq Page /\ fs.lost \subseteq fs.unused /\ 1 \notin fs.unused
  BY DEF Lists
<1>4. \A g \in Page :
         /\ Empty[g].data = NotCached => Empty[g] = Absent
         /\ ~Empty[g].dirty /\ ~Empty[g].needSync /\ ~Empty[g].inJournal /\ ~Empty[g].inStmt
         /\ g \notin fs.unused /\ g <= e.size =>
               g <= e.size /\ (Empty[g].data # NotCached => Empty[g].data = e.page[g])
  BY <1>2, AbsentTyped
<1>5. Good(mode, e, Closed(Empty, e.size), fs.unused, fs.lost, fs, NoMark, [call |-> "none"])
  BY <1>1, <1>2, <1>3, <1>4, ClosedGood
<1>6. \A g \in Page : g \notin fs.unused /\ g <= e.size =>
         g <= e.size /\ (Empty[g].data # NotCached => Empty[g].data = e.page[g])
  BY <1>4
<1> QED
  BY <1>1, <1>2, <1>5, <1>6, ClosedIs

\* What the recovery after a crash makes of the file, page by page.
LEMMA RecoveredIs ==
    ASSUME NEW f, NEW P, NEW un, NEW lo, NEW fs, NEW mk, NEW st,
           Good(mode, f, P, un, lo, fs, mk, st)
    PROVE  /\ Recovered(f, P) \in FileType
           /\ \A h \in Page : Recovered(f, P).page[h] = SafeAt(mode, f, P, h)
<1>1. P \in PagerType /\ f \in FileType /\ Sequences(P)
  BY Unpacked
<1>2. /\ P.origDbSize \in Nat /\ f.size \in Nat /\ P.origDbSize \in 0 .. MaxPage
      /\ \A h \in Page : h \in Nat
  BY <1>1, Numbers DEF PagerType
<1>3. CASE ~P.journalOpen
  BY <1>1, <1>3 DEF Recovered, SafeAt
<1>4. CASE P.journalOpen
  <2> DEFINE c == Cut(f, P.origDbSize)
             s == CountedOf(mode, P)
             e == Played(c, s, Page)
  <2>1. s \in Seq(Record) /\ Once(s)
    <3>1. P.journal \in Seq(Record) /\ Once(P.journal) /\ P.nRec \in Nat /\ P.nRec <= Len(P.journal)
      BY <1>1 DEF PagerType, Sequences
    <3>2. /\ SubSeq(P.journal, 1, P.nRec) \in Seq(Record)
          /\ Once(SubSeq(P.journal, 1, P.nRec))
      BY <3>1 DEF Once
    <3> QED
      BY <3>1, <3>2 DEF CountedOf
  <2>2. /\ c \in FileType /\ c.size = P.origDbSize
        /\ \A h \in Page : c.page[h] = IF h > P.origDbSize THEN Missing
                                       ELSE IF h > f.size THEN 0 ELSE f.page[h]
    BY <1>1, <1>2, CutIs
  <2>3. Recovered(f, P) = e
    BY <1>4 DEF Recovered, Counted, CountedOf
  <2> HIDE DEF c, s
  <2>4. /\ e \in FileType
        /\ \A h \in Page : e.page[h] = IF h <= c.size /\ h \in Page \cap PagesOf(s)
                                       THEN LastOf(s, h) ELSE c.page[h]
    BY <2>1, <2>2, PlayedIs
  <2>5. \A h : (h \in PagesOf(s) <=> h \in InCounted(mode, P)) /\ LastOf(s, h) = CountedSays(mode, P, h)
    BY DEF InCounted, CountedSays, s
  <2> HIDE DEF e
  <2>6. ASSUME NEW h \in Page
        PROVE  e.page[h] = SafeAt(mode, f, P, h)
    BY <1>2, <1>4, <2>2, <2>4, <2>5 DEF SafeAt, StoredIn
  <2> QED
    BY <2>3, <2>4, <2>6
<1> QED
  BY <1>3, <1>4

\* What sqlite3pager_rollback() leaves of the file is what a recovery would.
LEMMA RestoredIs ==
    ASSUME NEW un, NEW lo, NEW fs, NEW mk, NEW st,
           Good(mode, file, pager, un, lo, fs, mk, st), Waiting(st) = {}
    PROVE  /\ Restored \in FileType
           /\ \A h \in Page \ fs.unused : Restored.page[h] = SafeAt(mode, file, pager, h)
<1> DEFINE f == file
           P == pager
<1>1. /\ P \in PagerType /\ f \in FileType /\ Sequences(P) /\ NoJournal(f, P, un, fs, mk)
      /\ Sizes(f, P, st) /\ Statement(f, P, un, mk)
      /\ \A h \in Page : PageGood(mode, f, P, un, lo, fs, mk, st, h)
  BY Unpacked
<1>2. /\ P.origDbSize \in Nat /\ f.size \in Nat /\ P.origDbSize \in 0 .. MaxPage
      /\ \A h \in Page : h \in Nat
      /\ \A h \in Page : f.page[h] = Missing <=> h > f.size
      /\ InCounted(mode, P) \subseteq InMain(P)
      /\ \A h \in InCounted(mode, P) : CountedSays(mode, P, h) = MainSays(P, h)
      /\ P.state \in {"shared", "reserved", "exclusive"}
  BY <1>1, Numbers, CountedIn DEF PagerType
<1>3. CASE ~(P.state = "exclusive" /\ P.journalOpen /\ P.dirtyCache)
  <2>1. Restored = f
    BY <1>3 DEF Restored
  <2>2. P.journalOpen => P.state = "reserved" /\ f.size <= P.origDbSize
    BY <1>1, <1>2, <1>3 DEF Statement, Sizes
  <2> HIDE DEF f, P
  <2>3. ASSUME NEW h \in Page \ fs.unused
        PROVE  f.page[h] = SafeAt(mode, f, P, h)
    <3>1. CASE ~P.journalOpen
      BY <3>1 DEF SafeAt
    <3>2. CASE P.journalOpen /\ h > P.origDbSize
      BY <1>2, <2>2, <3>2 DEF SafeAt
    <3>3. CASE P.journalOpen /\ ~(h > P.origDbSize)
      <4>1. OriginalAt(mode, f, P, fs, st, h)
        BY <1>1 DEF PageGood, f, P
      <4>2. h <= P.origDbSize
        BY <1>2, <3>3
      <4>3. h \in InCounted(mode, P) => OnFile(f, h, CountedSays(mode, P, h))
        BY <1>2, <2>2, <3>3, <4>1, <4>2 DEF OriginalAt
      <4>4. h \notin InCounted(mode, P) => h <= f.size
        BY <4>1, <4>2 DEF OriginalAt
      <4> QED
        BY <3>3, <4>3, <4>4 DEF SafeAt, OnFile, StoredIn
    <3> QED
      BY <3>1, <3>2, <3>3
  <2> QED
    BY <1>1, <2>1, <2>3 DEF f, P
<1>4. CASE P.state = "exclusive" /\ P.journalOpen /\ P.dirtyCache
  <2> DEFINE c == Cut(f, P.origDbSize)
             s == CountedOf(mode, P)
             T == {g \in Page : ~P.hdr[g].needSync}
             e == Played(c, s, T)
  <2>1. s \in Seq(Record) /\ Once(s)
    <3>1. P.journal \in Seq(Record) /\ Once(P.journal) /\ P.nRec \in Nat /\ P.nRec <= Len(P.journal)
      BY <1>1 DEF PagerType, Sequences
    <3>2. /\ SubSeq(P.journal, 1, P.nRec) \in Seq(Record)
          /\ Once(SubSeq(P.journal, 1, P.nRec))
      BY <3>1 DEF Once
    <3> QED
      BY <3>1, <3>2 DEF CountedOf
  <2>2. /\ c \in FileType /\ c.size = P.origDbSize
        /\ \A h \in Page : c.page[h] = IF h > P.origDbSize THEN Missing
                                       ELSE IF h > f.size THEN 0 ELSE f.page[h]
    BY <1>1, <1>2, CutIs
  <2>3. Restored = e
    BY <1>4 DEF Restored, Counted, CountedOf
  <2>31. \A h \in Page : h \in T <=> ~P.hdr[h].needSync
    OBVIOUS
  <2> HIDE DEF c, s, T, f, P
  <2>4. /\ e \in FileType
        /\ \A h \in Page : e.page[h] = IF h <= c.size /\ h \in T \cap PagesOf(s)
                                       THEN LastOf(s, h) ELSE c.page[h]
    BY <2>1, <2>2, PlayedIs
  <2>5. \A h : (h \in PagesOf(s) <=> h \in InCounted(mode, P)) /\ LastOf(s, h) = CountedSays(mode, P, h)
    BY DEF InCounted, CountedSays, s
  <2> HIDE DEF e
  <2>6. ASSUME NEW h \in Page \ fs.unused
        PROVE  e.page[h] = SafeAt(mode, f, P, h)
    <3>1. ASSUME h <= P.origDbSize, h \in InCounted(mode, P), P.hdr[h].needSync
          PROVE  OnFile(f, h, CountedSays(mode, P, h))
      <4>1. OriginalAt(mode, f, P, fs, st, h)
        BY <1>1 DEF PageGood, f, P
      <4> QED
        BY <1>2, <3>1, <4>1 DEF OriginalAt, P
    <3> QED
      BY <1>2, <1>4, <2>2, <2>31, <2>4, <2>5, <3>1 DEF SafeAt, StoredIn, OnFile, P, f
  <2> QED
    BY <2>3, <2>4, <2>6 DEF f, P
<1> QED
  BY <1>3, <1>4

-----------------------------------------------------------------------------
(* Each step keeps the invariant, and what it does to the contents.        *)

\* The transaction goes on, and a crash would leave what it would have left.
Going ==
    /\ pager.state # "shared" /\ pager'.state # "shared"
    /\ mode' = mode /\ freeAtStart' = freeAtStart
    /\ SameSafe(mode, file, pager, file', pager', freeAtStart)
    /\ IInv'
Stays ==
    /\ Going /\ mark' = mark
    /\ SameContent(file, pager, unused, file', pager', unused')
Changes(g) ==
    /\ Going /\ mark' = mark
    /\ \A h \in Page \ {g} :
          ContentOf(file', pager', unused', h) = ContentOf(file, pager, unused, h)

\* What is left to show of a step that does not end the transaction.
LEMMA Kept ==
    ASSUME IInv, mode' = mode, last' \in Value, freeAtStart' = freeAtStart,
           pager'.state # "shared", IsCached(pager', 1),
           Good(mode, file', pager', unused', lost', freeAtStart, mark', step')
    PROVE  IInv'
  BY DEF IInv, IsCached

\* A call or an open journal means that there is a transaction.
LEMMA NotShared ==
    ASSUME NEW md, NEW f, NEW P, NEW un, NEW lo, NEW fs, NEW mk, NEW st,
           Good(md, f, P, un, lo, fs, mk, st), st.call # "none" \/ P.journalOpen
    PROVE  P.state # "shared"
  BY DEF Good, Doing, Statement

\* What the invariant says of the state a step starts from.
LEMMA Now ==
    ASSUME IInv
    PROVE  /\ Good(mode, file, pager, unused, lost, freeAtStart, mark, step)
           /\ last \in Value /\ 1 \in Page
           /\ pager.state # "shared" => IsCached(pager, 1)
           /\ step.call # "none" => pager.state # "shared"
           /\ pager \in PagerType /\ file \in FileType
           /\ Lists(pager, unused, lost, freeAtStart)
           /\ Statement(file, pager, unused, mark)
           /\ Doing(mode, pager, unused, lost, mark, step)
  BY NotShared, Numbers, Unpacked DEF IInv

\* The journal is synced because every free page waits for it.
LEMMA SyncForRoomStep == IInv /\ SyncForRoom => Stays
<1> SUFFICES ASSUME IInv, SyncForRoom PROVE Stays
  OBVIOUS
<1> DEFINE Q == JournalSynced(pager)
<1>1. /\ Good(mode, file, pager, unused, lost, freeAtStart, mark, step)
      /\ last \in Value /\ 1 \in Page /\ pager.state # "shared" /\ IsCached(pager, 1)
  BY Now DEF SyncForRoom, MayRecycle
<1>2. /\ Good(mode, file, Q, unused, lost, freeAtStart, mark, step)
      /\ SameSafe(mode, file, pager, file, Q, freeAtStart)
      /\ SameContent(file, pager, unused, file, Q, unused)
      /\ IsCached(Q, 1) /\ Q.state # "shared"
  BY <1>1, JournalSyncedGood
<1>3. pager' = Q /\ mode' = mode /\ file' = file /\ step' = step /\ unused' = unused
      /\ lost' = lost /\ freeAtStart' = freeAtStart /\ mark' = mark /\ last' = last
  BY DEF SyncForRoom, caller
<1> HIDE DEF Q
<1>4. IInv'
  BY <1>1, <1>2, <1>3, Kept
<1> QED
  BY <1>1, <1>2, <1>3, <1>4 DEF Stays, Going

\* After the last page that will be cut off the journal is synced.
LEMMA TailDoneStep == IInv /\ TailDone => Stays
<1> SUFFICES ASSUME IInv, TailDone PROVE Stays
  OBVIOUS
<1> DEFINE Q == JournalSynced(pager)
           su == [call |-> "lock", size |-> step.size]
<1>1. /\ Good(mode, file, pager, unused, lost, freeAtStart, mark, step)
      /\ last \in Value /\ 1 \in Page /\ pager.state # "shared" /\ IsCached(pager, 1)
      /\ step.call = "tail" /\ Unjournaled = {} /\ pager \in PagerType /\ file \in FileType
      /\ Lists(pager, unused, lost, freeAtStart) /\ Doing(mode, pager, unused, lost, mark, step)
  BY Now DEF TailDone
<1>2. /\ Good(mode, file, Q, unused, lost, freeAtStart, mark, step)
      /\ SameSafe(mode, file, pager, file, Q, freeAtStart)
      /\ SameContent(file, pager, unused, file, Q, unused)
      /\ IsCached(Q, 1) /\ Q.state # "shared" /\ ~Q.needSync /\ Q.dbSize = pager.dbSize
      /\ Q.journalOpen = pager.journalOpen /\ Q.dirtyCache = pager.dirtyCache
      /\ Q.origDbSize = pager.origDbSize /\ Q.aInJournal = pager.aInJournal
  BY <1>1, JournalSyncedGood
<1>3. pager' = Q /\ mode' = mode /\ file' = file /\ step' = su /\ unused' = unused
      /\ lost' = lost /\ freeAtStart' = freeAtStart /\ mark' = mark /\ last' = last
  BY DEF TailDone, caller
<1> HIDE DEF Q
<1>4. (step.size + 1 .. pager.origDbSize) \subseteq pager.aInJournal
  <2>1. step.size \in Nat /\ step.at \in Nat /\ pager.origDbSize \in Nat
    BY <1>1, Numbers DEF Doing
  <2>2. (step.size + 1 .. step.at - 1) \cap (1 .. pager.origDbSize) \subseteq pager.aInJournal
    BY <1>1 DEF Doing
  <2>3. ASSUME NEW g \in step.size + 1 .. pager.origDbSize
        PROVE  g \in pager.aInJournal
    <3>1. CASE g >= step.at
      BY <1>1, <2>1, <3>1 DEF Unjournaled
    <3>2. CASE g < step.at
      BY <2>1, <2>2, <3>2
    <3> QED
      BY <2>1, <3>1, <3>2
  <2> QED
    BY <2>3
<1>5. Doing(mode, Q, unused, lost, mark, su)
  BY <1>1, <1>2, <1>4 DEF Doing
<1>6. Good(mode, file, Q, unused, lost, freeAtStart, mark, su)
  BY <1>1, <1>2, <1>5, StepGood DEF Waiting, Gone, Lists
<1>7. IInv'
  BY <1>1, <1>2, <1>3, <1>6, Kept
<1> QED
  BY <1>1, <1>2, <1>3, <1>7 DEF Stays, Going

\* EXCLUSIVE is refused and the transaction goes on.
LEMMA SyncBusyStep == IInv /\ SyncBusy => Stays
<1> SUFFICES ASSUME IInv, SyncBusy PROVE Stays
  OBVIOUS
<1> DEFINE su == [call |-> "none"]
<1>1. /\ Good(mode, file, pager, unused, lost, freeAtStart, mark, step)
      /\ last \in Value /\ 1 \in Page /\ pager.state = "reserved" /\ IsCached(pager, 1)
      /\ step.call = "lock"
      /\ Lists(pager, unused, lost, freeAtStart) /\ Doing(mode, pager, unused, lost, mark, step)
  BY Now DEF SyncBusy
<1>3. pager' = pager /\ mode' = mode /\ file' = file /\ step' = su /\ unused' = unused
      /\ lost' = lost /\ freeAtStart' = freeAtStart /\ mark' = mark /\ last' = last
  BY DEF SyncBusy, caller
<1>5. Doing(mode, pager, unused, lost, mark, su)
  BY <1>1 DEF Doing
<1>6. Good(mode, file, pager, unused, lost, freeAtStart, mark, su)
  BY <1>1, <1>5, StepGood DEF Waiting, Gone, Lists
<1>7. IInv'
  BY <1>1, <1>3, <1>6, Kept
<1> QED
  BY <1>1, <1>3, <1>7 DEF Stays, Going, SameSafe, SameContent

\* A vacuum begins.
LEMMA VacuumStep == IInv /\ Vacuum => Stays
<1> SUFFICES ASSUME IInv, Vacuum PROVE Stays
  OBVIOUS
<1> DEFINE su == [call |-> "vacuum", size |-> pager.dbSize - Cardinality(unused)]
<1>1. /\ Good(mode, file, pager, unused, lost, freeAtStart, mark, step)
      /\ last \in Value /\ 1 \in Page /\ pager.state # "shared" /\ IsCached(pager, 1)
      /\ step.call = "none" /\ mark = NoMark
      /\ Lists(pager, unused, lost, freeAtStart)
  BY Now DEF Vacuum, Ready
<1>3. pager' = pager /\ mode' = mode /\ file' = file /\ step' = su /\ unused' = unused
      /\ lost' = lost /\ freeAtStart' = freeAtStart /\ mark' = mark /\ last' = last
  BY DEF Vacuum, caller
<1>5. Doing(mode, pager, unused, lost, mark, su)
  BY <1>1 DEF Doing
<1>6. Good(mode, file, pager, unused, lost, freeAtStart, mark, su)
  BY <1>1, <1>5, StepGood DEF Waiting, Gone, Lists
<1>7. IInv'
  BY <1>1, <1>3, <1>6, Kept
<1> QED
  BY <1>1, <1>3, <1>7 DEF Stays, Going, SameSafe, SameContent

\* A clean page leaves the cache.
LEMMA RecycleCleanStep ==
    ASSUME NEW g \in Page PROVE IInv /\ RecycleClean(g) => Stays
<1> SUFFICES ASSUME IInv, RecycleClean(g) PROVE Stays
  OBVIOUS
<1> DEFINE Q == Forgotten(pager, g)
<1>1. /\ Good(mode, file, pager, unused, lost, freeAtStart, mark, step)
      /\ last \in Value /\ 1 \in Page /\ pager.state # "shared" /\ IsCached(pager, 1)
      /\ pager \in PagerType
  BY Now DEF RecycleClean, MayRecycle
<1>2. g # 1 /\ IsCached(pager, g) /\ ~pager.hdr[g].dirty /\ ~pager.hdr[g].needSync
  BY DEF RecycleClean, Recyclable, Free, InUse, Cached, IsCached
<1>3. /\ Good(mode, file, Q, unused, lost, freeAtStart, mark, step)
      /\ SameSafe(mode, file, pager, file, Q, freeAtStart)
      /\ SameContent(file, pager, unused, file, Q, unused)
      /\ IsCached(Q, 1)
  BY <1>1, <1>2, ForgottenGood
<1>4. Q.state # "shared"
  BY <1>1, ForgottenIs
<1>5. pager' = Q /\ mode' = mode /\ file' = file /\ step' = step /\ unused' = unused
      /\ lost' = lost /\ freeAtStart' = freeAtStart /\ mark' = mark /\ last' = last
  BY DEF RecycleClean, caller
<1> HIDE DEF Q
<1>6. IInv'
  BY <1>1, <1>3, <1>4, <1>5, Kept
<1> QED
  BY <1>1, <1>3, <1>4, <1>5, <1>6 DEF Stays, Going

\* A dirty page that does not wait for the journal is written and leaves the cache.
LEMMA SpillStep ==
    ASSUME NEW g \in Page PROVE IInv /\ Spill(g) => Stays
<1> SUFFICES ASSUME IInv, Spill(g) PROVE Stays
  OBVIOUS
<1> DEFINE e == IF g <= pager.dbSize THEN Put(file, g, pager.hdr[g].data) ELSE file
           Q == [Forgotten(pager, g) EXCEPT !.state = "exclusive"]
<1>1. /\ Good(mode, file, pager, unused, lost, freeAtStart, mark, step)
      /\ last \in Value /\ 1 \in Page /\ pager.state # "shared" /\ IsCached(pager, 1)
      /\ pager \in PagerType
  BY Now DEF Spill, MayRecycle
<1>2. g # 1 /\ IsCached(pager, g) /\ pager.hdr[g].dirty /\ ~pager.hdr[g].needSync
      /\ step.call # "store"
  BY DEF Spill, MayRecycle, Recyclable, Free, InUse, Cached, IsCached
<1>3. /\ Good(mode, e, Q, unused, lost, freeAtStart, mark, step)
      /\ SameSafe(mode, file, pager, e, Q, freeAtStart)
      /\ SameContent(file, pager, unused, e, Q, unused)
      /\ IsCached(Q, 1)
  BY <1>1, <1>2, SpillGood
<1>4. Q.state # "shared"
  BY <1>1, ForgottenIs DEF PagerType
<1>5. pager' = Q /\ mode' = mode /\ file' = e /\ step' = step /\ unused' = unused
      /\ lost' = lost /\ freeAtStart' = freeAtStart /\ mark' = mark /\ last' = last
  BY DEF Spill, caller
<1> HIDE DEF Q, e
<1>6. IInv'
  BY <1>1, <1>3, <1>4, <1>5, Kept
<1> QED
  BY <1>1, <1>3, <1>4, <1>5, <1>6 DEF Stays, Going

\* A dirty page is written during a commit.
LEMMA StoreStep ==
    ASSUME NEW g \in Page PROVE IInv /\ Store(g) => Stays
<1> SUFFICES ASSUME IInv, Store(g) PROVE Stays
  OBVIOUS
<1> DEFINE e == IF g <= pager.dbSize THEN Put(file, g, pager.hdr[g].data) ELSE file
           Q == [pager EXCEPT !.hdr[g].dirty = FALSE]
<1>1. /\ Good(mode, file, pager, unused, lost, freeAtStart, mark, step)
      /\ last \in Value /\ 1 \in Page /\ pager.state # "shared" /\ IsCached(pager, 1)
      /\ pager \in PagerType /\ step.call = "store" /\ pager.hdr[g].dirty
  BY Now DEF Store
<1>3. /\ Good(mode, e, Q, unused, lost, freeAtStart, mark, step)
      /\ SameSafe(mode, file, pager, e, Q, freeAtStart)
      /\ SameContent(file, pager, unused, e, Q, unused)
      /\ IsCached(Q, 1)
  BY <1>1, StoreGood
<1>4. Q.state # "shared"
  BY <1>1 DEF PagerType
<1>5. pager' = Q /\ mode' = mode /\ file' = e /\ step' = step /\ unused' = unused
      /\ lost' = lost /\ freeAtStart' = freeAtStart /\ mark' = mark /\ last' = last
  BY DEF Store, caller
<1> HIDE DEF Q, e
<1>6. IInv'
  BY <1>1, <1>3, <1>4, <1>5, Kept
<1> QED
  BY <1>1, <1>3, <1>4, <1>5, <1>6 DEF Stays, Going

\* The number that was given away waits for the journal.
LEMMA HoldMovedStep == IInv /\ HoldMoved => Stays
<1> SUFFICES ASSUME IInv, HoldMoved PROVE Stays
  OBVIOUS
<1> DEFINE Q == Hold(pager, step.from)
<1>1. /\ Good(mode, file, pager, unused, lost, freeAtStart, mark, step)
      /\ last \in Value /\ 1 \in Page /\ pager.state # "shared" /\ IsCached(pager, 1)
      /\ pager \in PagerType /\ file \in FileType /\ step.call = "move"
      /\ Doing(mode, pager, unused, lost, mark, step)
  BY Now DEF HoldMoved
<1>2. step.next.call # "none"
  BY <1>1 DEF Doing
<1>3. /\ Good(mode, file, Q, unused, lost, freeAtStart, mark, step.next)
      /\ SameSafe(mode, file, pager, file, Q, freeAtStart)
      /\ SameContent(file, pager, unused, file, Q, unused)
      /\ IsCached(Q, 1)
  BY <1>1, HoldGood
<1>4. Q.state # "shared"
  BY <1>2, <1>3, NotShared
<1>5. pager' = Q /\ mode' = mode /\ file' = file /\ step' = step.next /\ unused' = unused
      /\ lost' = lost /\ freeAtStart' = freeAtStart /\ mark' = mark /\ last' = last
  BY DEF HoldMoved, caller
<1> HIDE DEF Q
<1>6. IInv'
  BY <1>1, <1>3, <1>4, <1>5, Kept
<1> QED
  BY <1>1, <1>3, <1>4, <1>5, <1>6 DEF Stays, Going

\* A page is read and written.
LEMMA TouchedGood ==
    ASSUME NEW P, NEW un, NEW lo, NEW fs, NEW mk, NEW st, NEW g \in Page,
           Good(mode, file, P, un, lo, fs, mk, st),
           P.state # "shared", st.call \notin {"lock", "store", "move"},
           g <= P.dbSize \/ (g = P.dbSize + 1 /\ st.call # "tail")
    PROVE  LET Q == Written(Got(P, g), g)
           IN  /\ Good(mode, file, Q, un, lo, fs, mk, st)
               /\ SameSafe(mode, file, P, file, Q, fs)
               /\ \A h \in Page : h <= P.dbSize => ContentOf(file, Q, un, h) = ContentOf(file, P, un, h)
               /\ \A h \in Page \ {g} : ContentOf(file, Q, un, h) = ContentOf(file, P, un, h)
               /\ Q.dbSize = IF P.dbSize < g THEN g ELSE P.dbSize
               /\ Writable(Q, g) /\ Q.state # "shared"
               /\ \A h \in Page : IsCached(P, h) => IsCached(Q, h)
<1> DEFINE G == Got(P, g)
           Q == Written(G, g)
<1>1. P \in PagerType /\ file \in FileType
  BY Unpacked
<1>2. /\ Good(mode, file, G, un, lo, fs, mk, st)
      /\ SameSafe(mode, file, P, file, G, fs)
      /\ SameContent(file, P, un, file, G, un)
      /\ IsCached(G, g) /\ \A h \in Page : IsCached(P, h) => IsCached(G, h)
  BY GotGood DEF Waiting
<1>3. G.state = P.state /\ G.dbSize = P.dbSize
  BY <1>1, GotIs, ZenonT(60) DEF SamePager
<1> HIDE DEF G
<1>4. /\ Good(mode, file, Q, un, lo, fs, mk, st)
      /\ SameSafe(mode, file, G, file, Q, fs)
      /\ \A h \in Page : h <= P.dbSize => ContentOf(file, Q, un, h) = ContentOf(file, G, un, h)
      /\ \A h \in Page \ {g} : ContentOf(file, Q, un, h) = ContentOf(file, G, un, h)
      /\ Q.dbSize = IF P.dbSize < g THEN g ELSE P.dbSize
      /\ Writable(Q, g)
      /\ \A h \in Page : IsCached(G, h) => IsCached(Q, h)
  BY <1>2, <1>3, WrittenGood
<1> HIDE DEF Q
<1>5. Q.state # "shared"
  BY <1>4, NotShared DEF Writable
<1> QED
  BY <1>2, <1>4, <1>5 DEF SameSafe, SameContent, G, Q

\* A page is taken from the free list.
LEMMA AllocatedGood ==
    ASSUME NEW P, NEW un, NEW lo, NEW fs, NEW mk, NEW st, NEW g \in Page,
           Good(mode, file, P, un, lo, fs, mk, st), P.state # "shared", IsCached(P, 1),
           st.call \in {"none", "vacuum"}, g \in un \ lo, g <= P.dbSize
    PROVE  LET Q == Allocated(P, g)
           IN  /\ Good(mode, file, Q, un, lo, fs, mk, st)
               /\ SameSafe(mode, file, P, file, Q, fs)
               /\ SameContent(file, P, un, file, Q, un)
               /\ Q.dbSize = P.dbSize
               /\ Writable(Q, g) /\ Q.state # "shared"
               /\ \A h \in Page : IsCached(P, h) => IsCached(Q, h)
<1> DEFINE W == Written(P, 1)
           G == Got(W, g)
           D == DontRollback(G, g)
           Q == Written(D, g)
<1>1. P \in PagerType /\ file \in FileType /\ 1 \in Page /\ P.dbSize \in Nat /\ g \in Nat /\ g >= 1
  BY Unpacked, Numbers
<1>2. /\ Good(mode, file, W, un, lo, fs, mk, st)
      /\ SameSafe(mode, file, P, file, W, fs)
      /\ SameContent(file, P, un, file, W, un)
      /\ W.dbSize = P.dbSize /\ Writable(W, 1)
      /\ \A h \in Page : IsCached(P, h) => IsCached(W, h)
  <2>1. 1 <= P.dbSize /\ ~(P.dbSize < 1)
    BY <1>1
  <2>2. /\ Good(mode, file, W, un, lo, fs, mk, st)
        /\ SameSafe(mode, file, P, file, W, fs)
        /\ \A h \in Page : h <= P.dbSize => ContentOf(file, W, un, h) = ContentOf(file, P, un, h)
        /\ \A h \in Page \ {1} : ContentOf(file, W, un, h) = ContentOf(file, P, un, h)
        /\ W.dbSize = IF P.dbSize < 1 THEN 1 ELSE P.dbSize
        /\ Writable(W, 1)
        /\ \A h \in Page : IsCached(P, h) => IsCached(W, h)
    BY <1>1, <2>1, WrittenGood
  <2> HIDE DEF W
  <2> QED
    BY <1>1, <2>1, <2>2 DEF SameContent
<1> HIDE DEF W
<1>3. /\ Good(mode, file, G, un, lo, fs, mk, st)
      /\ SameSafe(mode, file, W, file, G, fs)
      /\ SameContent(file, W, un, file, G, un)
      /\ IsCached(G, g) /\ \A h \in Page : IsCached(W, h) => IsCached(G, h)
  BY <1>2, GotGood DEF Waiting
<1>4. G.journalOpen /\ G.dbSize = P.dbSize
  BY <1>1, <1>2, Unpacked, GotIs DEF SamePager, Writable
<1> HIDE DEF G
<1>5. /\ Good(mode, file, D, un, lo, fs, mk, st)
      /\ SameSafe(mode, file, G, file, D, fs)
      /\ SameContent(file, G, un, file, D, un)
      /\ \A h \in Page : IsCached(G, h) => IsCached(D, h)
      /\ D.dbSize = P.dbSize /\ D.journalOpen
  BY <1>3, <1>4, DontRollbackGood
<1> HIDE DEF D
<1>6. D.state # "shared" /\ IsCached(D, g)
  BY <1>3, <1>5, NotShared
<1>7. /\ Good(mode, file, Q, un, lo, fs, mk, st)
      /\ SameSafe(mode, file, D, file, Q, fs)
      /\ SameContent(file, D, un, file, Q, un)
      /\ Q.dbSize = P.dbSize
      /\ Writable(Q, g)
      /\ \A h \in Page : IsCached(D, h) => IsCached(Q, h)
  <2>1. ~(P.dbSize < g)
    BY <1>1
  <2>2. /\ Good(mode, file, Q, un, lo, fs, mk, st)
        /\ SameSafe(mode, file, D, file, Q, fs)
        /\ \A h \in Page : h <= P.dbSize => ContentOf(file, Q, un, h) = ContentOf(file, D, un, h)
        /\ \A h \in Page \ {g} : ContentOf(file, Q, un, h) = ContentOf(file, D, un, h)
        /\ Q.dbSize = IF P.dbSize < g THEN g ELSE P.dbSize
        /\ Writable(Q, g)
        /\ \A h \in Page : IsCached(D, h) => IsCached(Q, h)
    BY <1>5, <1>6, WrittenGood
  <2> HIDE DEF Q
  <2> QED
    BY <2>1, <2>2 DEF SameContent
<1> HIDE DEF Q
<1>8. Q.state # "shared"
  BY <1>7, NotShared DEF Writable
<1>9. Q = Allocated(P, g)
  BY DEF Allocated, Q, D, G, W
<1>10. SameSafe(mode, file, P, file, Q, fs)
  BY <1>2, <1>3, <1>5, <1>7 DEF SameSafe
<1>11. SameContent(file, P, un, file, Q, un)
  BY <1>2, <1>3, <1>5, <1>7 DEF SameContent
<1> QED
  BY <1>2, <1>3, <1>5, <1>7, <1>8, <1>9, <1>10, <1>11

\* The caller changes a page, or appends one.
LEMMA WriteStep ==
    ASSUME NEW g \in Page PROVE IInv /\ Write(g) => Changes(g)
<1> SUFFICES ASSUME IInv, Write(g) PROVE Changes(g)
  OBVIOUS
<1> DEFINE W == Written(Got(pager, g), g)
           Q == [W EXCEPT !.hdr[g].data = Fresh]
<1>1. /\ Good(mode, file, pager, unused, lost, freeAtStart, mark, step)
      /\ last \in Value /\ 1 \in Page /\ pager.state # "shared" /\ IsCached(pager, 1)
      /\ pager \in PagerType /\ step.call = "none"
  BY Now DEF Write, Ready
<1>2. Fresh \in Value
  BY <1>1, BoundAssumption DEF Write, Call, Fresh, Value
<1>3. g <= pager.dbSize \/ g = pager.dbSize + 1
  BY DEF Write, Live
<1>4. /\ Good(mode, file, W, unused, lost, freeAtStart, mark, step)
      /\ SameSafe(mode, file, pager, file, W, freeAtStart)
      /\ \A h \in Page \ {g} : ContentOf(file, W, unused, h) = ContentOf(file, pager, unused, h)
      /\ Writable(W, g) /\ IsCached(W, 1)
  <2>1. step.call \notin {"lock", "store", "move"} /\ step.call # "tail"
    BY <1>1
  <2>2. /\ Good(mode, file, W, unused, lost, freeAtStart, mark, step)
        /\ SameSafe(mode, file, pager, file, W, freeAtStart)
        /\ \A h \in Page : h <= pager.dbSize =>
              ContentOf(file, W, unused, h) = ContentOf(file, pager, unused, h)
        /\ \A h \in Page \ {g} : ContentOf(file, W, unused, h) = ContentOf(file, pager, unused, h)
        /\ W.dbSize = IF pager.dbSize < g THEN g ELSE pager.dbSize
        /\ Writable(W, g) /\ W.state # "shared"
        /\ \A h \in Page : IsCached(pager, h) => IsCached(W, h)
    BY <1>1, <1>3, <2>1, TouchedGood
  <2> QED
    BY <1>1, <2>2
<1>5. pager' = Q /\ mode' = mode /\ file' = file /\ step' = step /\ unused' = unused
      /\ lost' = lost /\ freeAtStart' = freeAtStart /\ mark' = mark /\ last' = Fresh
  BY DEF Write, Call, Changed, caller
<1> HIDE DEF W
<1>6. /\ Good(mode, file, Q, unused, lost, freeAtStart, mark, step)
      /\ SameSafe(mode, file, W, file, Q, freeAtStart)
      /\ \A h \in Page \ {g} : ContentOf(file, Q, unused, h) = ContentOf(file, W, unused, h)
      /\ Writable(Q, g) /\ IsCached(Q, 1)
  BY <1>1, <1>2, <1>4, DataSetGood
<1> HIDE DEF Q
<1>7. Q.state # "shared"
  BY <1>6, NotShared DEF Writable
<1>8. IInv'
  BY <1>1, <1>2, <1>5, <1>6, <1>7, Kept
<1> QED
  BY <1>1, <1>4, <1>5, <1>6, <1>7, <1>8 DEF Changes, Going, SameSafe

\* freePage() changes one page only: it is unused now.
LEMMA FreePageStep ==
    ASSUME NEW g \in Page PROVE IInv /\ FreePage(g) => Changes(g)
<1> SUFFICES ASSUME IInv, FreePage(g) PROVE Changes(g)
  OBVIOUS
<1> DEFINE W == Written(pager, 1)
           G == Got(W, g)
           Q == DontWrite(G, g)
           wn == unused \cup {g}
<1>1. /\ Good(mode, file, pager, unused, lost, freeAtStart, mark, step)
      /\ last \in Value /\ 1 \in Page /\ pager.state # "shared" /\ IsCached(pager, 1)
      /\ pager \in PagerType /\ file \in FileType /\ step.call = "none"
  BY Now DEF FreePage, Ready
<1>2. Fresh \in Value
  BY <1>1, BoundAssumption DEF FreePage, Call, Fresh, Value
<1>3. /\ g \notin unused /\ g # 1 /\ g <= pager.dbSize /\ 1 <= pager.dbSize
      /\ step.call \notin {"lock", "store", "move"} /\ step.call # "tail"
  <2>1. g \in 1 .. pager.dbSize /\ g \notin unused /\ g # 1 /\ pager.dbSize \in Nat
    BY <1>1, Numbers DEF FreePage, Live
  <2> QED
    BY <1>1, <2>1
<1>4. /\ Good(mode, file, W, unused, lost, freeAtStart, mark, step)
      /\ SameSafe(mode, file, pager, file, W, freeAtStart)
      /\ \A h \in Page : h <= pager.dbSize =>
            ContentOf(file, W, unused, h) = ContentOf(file, pager, unused, h)
      /\ \A h \in Page \ {1} : ContentOf(file, W, unused, h) = ContentOf(file, pager, unused, h)
      /\ W.dbSize = IF pager.dbSize < 1 THEN 1 ELSE pager.dbSize
      /\ Writable(W, 1)
      /\ \A h \in Page : IsCached(pager, h) => IsCached(W, h)
  BY <1>1, <1>3, WrittenGood
<1> HIDE DEF W
<1>5. /\ Good(mode, file, G, unused, lost, freeAtStart, mark, step)
      /\ SameSafe(mode, file, W, file, G, freeAtStart)
      /\ SameContent(file, W, unused, file, G, unused)
      /\ IsCached(G, g) /\ \A h \in Page : IsCached(W, h) => IsCached(G, h)
  BY <1>1, <1>4, GotGood DEF Waiting
<1>6. G.journalOpen
  BY <1>1, <1>4, Unpacked, GotIs DEF SamePager, Writable
<1> HIDE DEF G
<1>7. /\ Good(mode, file, Q, wn, lost, freeAtStart, mark, step)
      /\ SameSafe(mode, file, G, file, Q, freeAtStart)
      /\ \A h \in Page \ {g} : ContentOf(file, Q, wn, h) = ContentOf(file, G, unused, h)
      /\ \A h \in Page : IsCached(G, h) => IsCached(Q, h)
  BY <1>1, <1>3, <1>5, <1>6, DontWriteGood
<1>8. Q.journalOpen
  BY <1>5, <1>6, Unpacked, DontWriteIs DEF SamePager
<1>9. Q = DontWrite(Got(Written(pager, 1), g), g)
  BY DEF Q, G, W
<1> HIDE DEF Q, wn
<1>10. pager' = Q /\ mode' = mode /\ file' = file /\ step' = step /\ unused' = wn
       /\ lost' = lost /\ freeAtStart' = freeAtStart /\ mark' = mark /\ last' = Fresh
  BY <1>9 DEF FreePage, Call, caller, wn
<1>11. Q.state # "shared" /\ IsCached(Q, 1)
  BY <1>1, <1>4, <1>5, <1>7, <1>8, NotShared
<1>12. IInv'
  BY <1>1, <1>2, <1>7, <1>10, <1>11, Kept
<1>13. SameSafe(mode, file, pager, file, Q, freeAtStart)
  BY <1>4, <1>5, <1>7 DEF SameSafe
<1>14. ASSUME NEW h \in Page \ {g}
       PROVE  ContentOf(file, Q, wn, h) = ContentOf(file, pager, unused, h)
  BY <1>3, <1>4, <1>5, <1>7 DEF SameContent
<1> QED
  BY <1>1, <1>10, <1>11, <1>12, <1>13, <1>14 DEF Changes, Going

\* allocatePage() changes one page only: it is in use again.
LEMMA ReuseStep ==
    ASSUME NEW g \in Page PROVE IInv /\ Reuse(g) => Changes(g)
<1> SUFFICES ASSUME IInv, Reuse(g) PROVE Changes(g)
  OBVIOUS
<1> DEFINE A == Allocated(pager, g)
           Q == [A EXCEPT !.hdr[g].data = Fresh]
           wn == unused \ {g}
           none == [call |-> "none"]
<1>1. /\ Good(mode, file, pager, unused, lost, freeAtStart, mark, step)
      /\ last \in Value /\ 1 \in Page /\ pager.state # "shared" /\ IsCached(pager, 1)
      /\ pager \in PagerType /\ step.call = "none"
  BY Now DEF Reuse, Ready
<1>2. Fresh \in Value
  BY <1>1, BoundAssumption DEF Reuse, Call, Fresh, Value
<1>3. g \in unused \ lost /\ g <= pager.dbSize /\ step.call \in {"none", "vacuum"}
  BY <1>1 DEF Reuse
<1>4. /\ Good(mode, file, A, unused, lost, freeAtStart, mark, step)
      /\ SameSafe(mode, file, pager, file, A, freeAtStart)
      /\ SameContent(file, pager, unused, file, A, unused)
      /\ A.dbSize = pager.dbSize
      /\ Writable(A, g) /\ A.state # "shared"
      /\ \A h \in Page : IsCached(pager, h) => IsCached(A, h)
  BY <1>1, <1>3, AllocatedGood
<1> HIDE DEF A
<1>5. /\ Good(mode, file, Q, unused, lost, freeAtStart, mark, step)
      /\ SameSafe(mode, file, A, file, Q, freeAtStart)
      /\ \A h \in Page \ {g} : ContentOf(file, Q, unused, h) = ContentOf(file, A, unused, h)
      /\ Q.dbSize = A.dbSize
      /\ Writable(Q, g)
      /\ \A h \in Page : IsCached(A, h) => IsCached(Q, h)
  BY <1>2, <1>4, DataSetGood
<1>6. Q = [Allocated(pager, g) EXCEPT !.hdr[g].data = Fresh]
  BY DEF A
<1> HIDE DEF Q
<1>7. /\ Good(mode, file, Q, wn, lost \ {g}, freeAtStart, mark, none)
      /\ \A h \in Page \ {g} : ContentOf(file, Q, wn, h) = ContentOf(file, Q, unused, h)
  BY <1>1, <1>3, <1>5, TakenGood
<1>8. lost \ {g} = lost
  BY <1>3
<1>9. Good(mode, file, Q, wn, lost, freeAtStart, mark, step)
  <2> HIDE DEF wn
  <2>1. Good(mode, file, Q, wn, lost, freeAtStart, mark, none)
    BY <1>7, <1>8
  <2>2. Doing(mode, Q, wn, lost, mark, step)
    BY <1>1 DEF Doing
  <2>3. lost \subseteq wn
    BY <2>1, Unpacked DEF Lists
  <2>4. Waiting(none) = {} /\ Gone(none) = {} /\ Waiting(step) = {} /\ Gone(step) = {}
        /\ none.call # "store"
    BY <1>1 DEF Waiting, Gone
  <2> HIDE DEF none
  <2> QED
    BY <2>1, <2>2, <2>3, <2>4, StepGood
<1> HIDE DEF wn, none
<1>10. pager' = Q /\ mode' = mode /\ file' = file /\ step' = step /\ unused' = wn
       /\ lost' = lost /\ freeAtStart' = freeAtStart /\ mark' = mark /\ last' = Fresh
  BY <1>6 DEF Reuse, Call, caller, wn
<1>11. Q.state # "shared" /\ IsCached(Q, 1)
  BY <1>1, <1>4, <1>5, NotShared DEF Writable
<1>12. IInv'
  BY <1>1, <1>2, <1>9, <1>10, <1>11, Kept
<1>13. SameSafe(mode, file, pager, file, Q, freeAtStart)
  BY <1>4, <1>5 DEF SameSafe
<1>14. ASSUME NEW h \in Page \ {g}
       PROVE  ContentOf(file, Q, wn, h) = ContentOf(file, pager, unused, h)
  BY <1>4, <1>5, <1>7 DEF SameContent
<1> QED
  BY <1>1, <1>10, <1>11, <1>12, <1>13, <1>14 DEF Changes, Going

\* The number that was given away gets the new root page.
LEMMA NewRootStep == IInv /\ NewRoot => Changes(step.from) /\ step.from \in Page
<1> SUFFICES ASSUME IInv, NewRoot PROVE Changes(step.from) /\ step.from \in Page
  OBVIOUS
<1> DEFINE g == step.from
           W == Written(Got(pager, g), g)
           Q == [W EXCEPT !.hdr[g].data = Fresh]
           wn == unused \ {g}
           lp == lost \ {g}
           none == [call |-> "none"]
<1>1. /\ Good(mode, file, pager, unused, lost, freeAtStart, mark, step)
      /\ last \in Value /\ 1 \in Page /\ pager.state # "shared" /\ IsCached(pager, 1)
      /\ pager \in PagerType /\ step.call = "root"
      /\ Doing(mode, pager, unused, lost, mark, step)
  BY Now DEF NewRoot
<1>2. Fresh \in Value
  BY <1>1, BoundAssumption DEF NewRoot, Call, Fresh, Value
<1>3. g \in Page /\ g <= pager.dbSize
      /\ step.call \notin {"lock", "store", "move"} /\ step.call # "tail"
  BY <1>1 DEF Doing, Logged
<1>4. /\ Good(mode, file, W, unused, lost, freeAtStart, mark, step)
      /\ SameSafe(mode, file, pager, file, W, freeAtStart)
      /\ \A h \in Page : h <= pager.dbSize =>
            ContentOf(file, W, unused, h) = ContentOf(file, pager, unused, h)
      /\ \A h \in Page \ {g} : ContentOf(file, W, unused, h) = ContentOf(file, pager, unused, h)
      /\ W.dbSize = IF pager.dbSize < g THEN g ELSE pager.dbSize
      /\ Writable(W, g) /\ W.state # "shared"
      /\ \A h \in Page : IsCached(pager, h) => IsCached(W, h)
  BY <1>1, <1>3, TouchedGood
<1> HIDE DEF W
<1>5. /\ Good(mode, file, Q, unused, lost, freeAtStart, mark, step)
      /\ SameSafe(mode, file, W, file, Q, freeAtStart)
      /\ \A h \in Page \ {g} : ContentOf(file, Q, unused, h) = ContentOf(file, W, unused, h)
      /\ Q.dbSize = W.dbSize
      /\ Writable(Q, g)
      /\ \A h \in Page : IsCached(W, h) => IsCached(Q, h)
  BY <1>2, <1>3, <1>4, DataSetGood
<1>6. Q = Changed(pager, g, Fresh)
  BY DEF Changed, W
<1> HIDE DEF Q
<1>7. /\ Good(mode, file, Q, wn, lp, freeAtStart, mark, none)
      /\ \A h \in Page \ {g} : ContentOf(file, Q, wn, h) = ContentOf(file, Q, unused, h)
  BY <1>1, <1>3, <1>5, TakenGood
<1> HIDE DEF wn, lp, none
<1>10. pager' = Q /\ mode' = mode /\ file' = file /\ step' = none /\ unused' = wn
       /\ lost' = lp /\ freeAtStart' = freeAtStart /\ mark' = mark /\ last' = Fresh
  BY <1>6 DEF NewRoot, Call, wn, lp, none
<1>11. Q.state # "shared" /\ IsCached(Q, 1)
  BY <1>1, <1>4, <1>5, NotShared DEF Writable
<1>12. IInv'
  BY <1>1, <1>2, <1>7, <1>10, <1>11, Kept
<1>13. SameSafe(mode, file, pager, file, Q, freeAtStart)
  BY <1>4, <1>5 DEF SameSafe
<1>14. ASSUME NEW h \in Page \ {g}
       PROVE  ContentOf(file, Q, wn, h) = ContentOf(file, pager, unused, h)
  BY <1>4, <1>5, <1>7 DEF SameContent
<1> QED
  BY <1>1, <1>3, <1>10, <1>11, <1>12, <1>13, <1>14 DEF Changes, Going

\* A page taken from the free list stays unused until another is moved there.
LEMMA AllocateStep ==
    ASSUME NEW h \in Page PROVE IInv /\ Allocate(h) => Stays
<1> SUFFICES ASSUME IInv, Allocate(h) PROVE Stays
  OBVIOUS
<1> DEFINE A == Allocated(pager, h)
<1>1. /\ Good(mode, file, pager, unused, lost, freeAtStart, mark, step)
      /\ last \in Value /\ 1 \in Page /\ pager.state # "shared" /\ IsCached(pager, 1)
      /\ step.call \in {"none", "vacuum"}
      /\ Lists(pager, unused, lost, freeAtStart) /\ Doing(mode, pager, unused, lost, mark, step)
  BY Now DEF Allocate, Ready
<1>2. h \in unused \ lost /\ h <= pager.dbSize
  BY DEF Allocate
<1>3. /\ Good(mode, file, A, unused, lost, freeAtStart, mark, step)
      /\ SameSafe(mode, file, pager, file, A, freeAtStart)
      /\ SameContent(file, pager, unused, file, A, unused)
      /\ A.dbSize = pager.dbSize
      /\ Writable(A, h) /\ A.state # "shared"
      /\ \A i \in Page : IsCached(pager, i) => IsCached(A, i)
  BY <1>1, <1>2, AllocatedGood
<1> HIDE DEF A
<1>4. Logged(A, h) /\ A.journalOpen /\ A.dirtyCache
  BY <1>3 DEF Writable, Logged
<1>5. pager' = A /\ mode' = mode /\ file' = file /\ unused' = unused
      /\ freeAtStart' = freeAtStart /\ mark' = mark /\ last' = last
  BY DEF Allocate, A
<1>6. ASSUME NEW su, NEW lp, step' = su, lost' = lp, Doing(mode, A, unused, lp, mark, su),
             su.call \in {"allocated", "vacuum"}, lost \subseteq lp, lp \subseteq unused,
             lp = lost \/ mark = NoMark
      PROVE  Stays
  <2>1. Waiting(step) = {} /\ Gone(step) = {} /\ step.call # "store"
        /\ Waiting(su) = {} /\ Gone(su) = {}
    BY <1>1, <1>6 DEF Waiting, Gone
  <2>2. Good(mode, file, A, unused, lp, freeAtStart, mark, su)
    BY <1>3, <1>6, <2>1, StepGood
  <2>3. IInv'
    BY <1>1, <1>3, <1>5, <1>6, <2>2, Kept
  <2> QED
    BY <1>1, <1>3, <1>5, <2>3 DEF Stays, Going
<1>7. CASE step' = [call |-> "allocated", to |-> h, next |-> "root"] /\ lost' = lost
  <2> DEFINE su == [call |-> "allocated", to |-> h, next |-> "root"]
  <2>1. Doing(mode, A, unused, lost, mark, su)
    BY <1>2, <1>3, <1>4 DEF Doing
  <2> QED
    BY <1>1, <1>6, <1>7, <2>1 DEF Lists
<1>8. CASE /\ step' = [call |-> "allocated", to |-> h, next |-> "vacuum", size |-> step.size]
           /\ lost' = lost /\ step.call = "vacuum"
  <2> DEFINE su == [call |-> "allocated", to |-> h, next |-> "vacuum", size |-> step.size]
  <2>1. Doing(mode, A, unused, lost, mark, su)
    BY <1>1, <1>2, <1>3, <1>4, <1>8 DEF Doing
  <2> QED
    BY <1>1, <1>6, <1>8, <2>1 DEF Lists
<1>9. CASE step' = step /\ lost' = lost \cup {h} /\ step.call = "vacuum"
  <2> DEFINE lp == lost \cup {h}
  <2>1. mark = NoMark
    BY <1>1, <1>9 DEF Doing
  <2>2. Doing(mode, A, unused, lp, mark, step)
    BY <1>3, <1>9, <2>1 DEF Doing
  <2>3. lost \subseteq lp /\ lp \subseteq unused /\ lost' = lp
    BY <1>1, <1>2, <1>9 DEF Lists
  <2> HIDE DEF lp
  <2> QED
    BY <1>6, <1>9, <2>1, <2>2, <2>3
<1> QED
  BY <1>7, <1>8, <1>9 DEF Allocate

\* A page that may be changed is unused until another is moved there.
LEMMA UnusedGood ==
    ASSUME NEW md, NEW f, NEW P, NEW un, NEW lo, NEW fs, NEW mk, NEW st, NEW g \in Page,
           Good(md, f, P, un, lo, fs, mk, st), Writable(P, g), g # 1, g \notin lo,
           st.call = "none",
           NEW su, su.call = "allocated", su.to = g,
           su.next = "root" \/ (su.next = "drop" /\ mk = NoMark)
    PROVE  /\ Good(md, f, P, un \cup {g}, lo, fs, mk, su)
           /\ \A h \in Page \ {g} : ContentOf(f, P, un \cup {g}, h) = ContentOf(f, P, un, h)
<1> DEFINE wn == un \cup {g}
<1>1. /\ P \in PagerType /\ Sequences(P) /\ f \in FileType
      /\ NoJournal(f, P, un, fs, mk) /\ Sizes(f, P, st) /\ Lists(P, un, lo, fs)
      /\ LastPage(f, P, lo, st) /\ Statement(f, P, un, mk) /\ Doing(md, P, un, lo, mk, st)
      /\ \A h \in Page : PageGood(md, f, P, un, lo, fs, mk, st, h)
  BY Unpacked
<1>2. /\ Waiting(st) = {} /\ Gone(st) = {} /\ Waiting(su) = {} /\ Gone(su) = {}
  BY DEF Waiting, Gone
<1>3. SameAt(md, P, P, g) /\ Dirtier(P, P) /\ \A h \in Page : SameAt(md, P, P, h)
  BY DEF SameAt, Dirtier
<1>4. ASSUME NEW h \in Page \ {g}
      PROVE  PageGood(md, f, P, wn, lo, fs, mk, su, h)
  <2>1. /\ h \in wn <=> h \in un
        /\ h \in Waiting(su) <=> h \in Waiting(st)
        /\ h \in Gone(su) <=> h \in Gone(st)
    BY <1>2
  <2> HIDE DEF wn
  <2> QED
    BY <1>1, <1>3, <2>1, PageFrame
<1>5. PageGood(md, f, P, un, lo, fs, mk, st, g)
  BY <1>1
<1>6. FlagsAt(md, P, wn, mk, g)
  BY <1>5 DEF PageGood, FlagsAt, Writable
<1>7. OriginalAt(md, f, P, fs, su, g)
  BY <1>2, <1>5 DEF PageGood, OriginalAt
<1>8. FreeAt(P, wn, lo, fs, mk, su, g)
  BY <1>2, <1>5 DEF PageGood, FreeAt, Writable
<1>9. CleanAt(f, P, wn, g)
  BY DEF CleanAt, Writable
<1>10. StmtOriginalAt(f, P, wn, lo, mk, su, g)
  BY <1>2, <1>5 DEF PageGood, StmtOriginalAt, Writable
<1>11. PageGood(md, f, P, wn, lo, fs, mk, su, g)
  BY <1>5, <1>6, <1>7, <1>8, <1>9, <1>10 DEF PageGood
<1>12. NoJournal(f, P, wn, fs, mk) /\ Sizes(f, P, su) /\ Lists(P, wn, lo, fs)
  BY <1>1, <1>2 DEF NoJournal, Writable, Sizes, Lists
<1>13. LastPage(f, P, lo, su)
  BY <1>1, <1>2 DEF LastPage
<1>14. Statement(f, P, wn, mk)
  BY <1>1 DEF Statement, Writable
<1>15. P.state # "shared"
  BY NotShared DEF Writable
<1>16. Doing(md, P, wn, lo, mk, su)
  BY <1>1, <1>2, <1>15 DEF Doing, Logged, Writable
<1>17. ASSUME NEW h \in Page \ {g}
       PROVE  ContentOf(f, P, wn, h) = ContentOf(f, P, un, h)
  BY DEF ContentOf
<1>18. Good(md, f, P, wn, lo, fs, mk, su)
  BY <1>1, <1>4, <1>11, <1>12, <1>13, <1>14, <1>16 DEF Good
<1> QED
  BY <1>17, <1>18

\* A page at the end of the file is taken into use, for another to move there.
LEMMA AllocateNewStep ==
    ASSUME NEW h \in Page PROVE IInv /\ AllocateNew(h) => Changes(h)
<1> SUFFICES ASSUME IInv, AllocateNew(h) PROVE Changes(h)
  OBVIOUS
<1> DEFINE W == Written(Got(pager, h), h)
           wn == unused \cup {h}
           su == [call |-> "allocated", to |-> h, next |-> "root"]
<1>1. /\ Good(mode, file, pager, unused, lost, freeAtStart, mark, step)
      /\ last \in Value /\ 1 \in Page /\ pager.state # "shared" /\ IsCached(pager, 1)
      /\ pager \in PagerType /\ file \in FileType /\ step.call = "none"
      /\ Lists(pager, unused, lost, freeAtStart)
  BY Now DEF AllocateNew, Ready
<1>2. h = pager.dbSize + 1 /\ unused = {}
  BY DEF AllocateNew
<1>3. h # 1 /\ h \notin lost
  <2>1. \E g \in 1 .. pager.dbSize : g # 1
    BY DEF AllocateNew, Live
  <2>2. pager.dbSize \in Nat
    BY <1>1, Numbers
  <2> QED
    BY <1>1, <1>2, <2>1, <2>2 DEF Lists
<1>4. /\ Good(mode, file, W, unused, lost, freeAtStart, mark, step)
      /\ SameSafe(mode, file, pager, file, W, freeAtStart)
      /\ \A i \in Page : i <= pager.dbSize =>
            ContentOf(file, W, unused, i) = ContentOf(file, pager, unused, i)
      /\ \A i \in Page \ {h} : ContentOf(file, W, unused, i) = ContentOf(file, pager, unused, i)
      /\ W.dbSize = IF pager.dbSize < h THEN h ELSE pager.dbSize
      /\ Writable(W, h) /\ W.state # "shared"
      /\ \A i \in Page : IsCached(pager, i) => IsCached(W, i)
  BY <1>1, <1>2, TouchedGood
<1>5. pager' = W /\ mode' = mode /\ file' = file /\ step' = su /\ unused' = wn
      /\ lost' = lost /\ freeAtStart' = freeAtStart /\ mark' = mark /\ last' = last
  BY DEF AllocateNew
<1>9. su.call = "allocated" /\ su.to = h /\ su.next = "root"
  OBVIOUS
<1> HIDE DEF W, su
<1>6. /\ Good(mode, file, W, wn, lost, freeAtStart, mark, su)
      /\ \A i \in Page \ {h} : ContentOf(file, W, wn, i) = ContentOf(file, W, unused, i)
  BY <1>1, <1>3, <1>4, <1>9, UnusedGood
<1> HIDE DEF wn
<1>7. IInv'
  BY <1>1, <1>4, <1>5, <1>6, Kept
<1>8. ASSUME NEW i \in Page \ {h}
      PROVE  ContentOf(file, W, wn, i) = ContentOf(file, pager, unused, i)
  BY <1>4, <1>6
<1> QED
  BY <1>1, <1>4, <1>5, <1>7, <1>8 DEF Changes, Going

\* A root page is cleared, for another to move there.
LEMMA DropRootStep ==
    ASSUME NEW h \in Page PROVE IInv /\ DropRoot(h) => Changes(h)
<1> SUFFICES ASSUME IInv, DropRoot(h) PROVE Changes(h)
  OBVIOUS
<1> DEFINE W == Written(Got(pager, h), h)
           Q == [W EXCEPT !.hdr[h].data = Fresh]
           wn == unused \cup {h}
           su == [call |-> "allocated", to |-> h, next |-> "drop"]
<1>1. /\ Good(mode, file, pager, unused, lost, freeAtStart, mark, step)
      /\ last \in Value /\ 1 \in Page /\ pager.state # "shared" /\ IsCached(pager, 1)
      /\ pager \in PagerType /\ file \in FileType /\ step.call = "none"
      /\ Lists(pager, unused, lost, freeAtStart)
  BY Now DEF DropRoot, Ready
<1>2. Fresh \in Value
  BY <1>1, BoundAssumption DEF DropRoot, Call, Fresh, Value
<1>3. h <= pager.dbSize /\ h # 1 /\ h \notin lost /\ mark = NoMark
  <2>1. h \in 1 .. pager.dbSize /\ h \notin unused /\ h # 1 /\ mark = NoMark
    BY DEF DropRoot, Live
  <2>2. pager.dbSize \in Nat
    BY <1>1, Numbers
  <2> QED
    BY <1>1, <2>1, <2>2 DEF Lists
<1>4. /\ Good(mode, file, W, unused, lost, freeAtStart, mark, step)
      /\ SameSafe(mode, file, pager, file, W, freeAtStart)
      /\ \A i \in Page \ {h} : ContentOf(file, W, unused, i) = ContentOf(file, pager, unused, i)
      /\ Writable(W, h) /\ IsCached(W, 1)
  <2>1. /\ step.call \notin {"lock", "store", "move"} /\ step.call # "tail"
        /\ Good(mode, file, pager, unused, lost, freeAtStart, mark, step)
        /\ pager.state # "shared"
    BY <1>1
  <2>2. h <= pager.dbSize \/ (h = pager.dbSize + 1 /\ step.call # "tail")
    BY <1>3
  <2>3. /\ Good(mode, file, W, unused, lost, freeAtStart, mark, step)
        /\ SameSafe(mode, file, pager, file, W, freeAtStart)
        /\ \A i \in Page : i <= pager.dbSize =>
              ContentOf(file, W, unused, i) = ContentOf(file, pager, unused, i)
        /\ \A i \in Page \ {h} : ContentOf(file, W, unused, i) = ContentOf(file, pager, unused, i)
        /\ W.dbSize = IF pager.dbSize < h THEN h ELSE pager.dbSize
        /\ Writable(W, h) /\ W.state # "shared"
        /\ \A i \in Page : IsCached(pager, i) => IsCached(W, i)
    BY <2>1, <2>2, TouchedGood
  <2> QED
    BY <1>1, <2>3
<1>5. pager' = Q /\ mode' = mode /\ file' = file /\ step' = su /\ unused' = wn
      /\ lost' = lost /\ freeAtStart' = freeAtStart /\ mark' = mark /\ last' = Fresh
  BY DEF DropRoot, Call, Changed
<1> HIDE DEF W
<1>6. /\ Good(mode, file, Q, unused, lost, freeAtStart, mark, step)
      /\ SameSafe(mode, file, W, file, Q, freeAtStart)
      /\ \A i \in Page \ {h} : ContentOf(file, Q, unused, i) = ContentOf(file, W, unused, i)
      /\ Writable(Q, h) /\ IsCached(Q, 1)
  BY <1>1, <1>2, <1>4, DataSetGood
<1> HIDE DEF Q
<1>11. su.call = "allocated" /\ su.to = h /\ su.next = "drop"
  OBVIOUS
<1> HIDE DEF su
<1>7. /\ Good(mode, file, Q, wn, lost, freeAtStart, mark, su)
      /\ \A i \in Page \ {h} : ContentOf(file, Q, wn, i) = ContentOf(file, Q, unused, i)
  BY <1>1, <1>3, <1>6, <1>11, UnusedGood
<1>8. Q.state # "shared"
  BY <1>6, NotShared DEF Writable
<1> HIDE DEF wn
<1>9. IInv'
  BY <1>1, <1>2, <1>5, <1>6, <1>7, <1>8, Kept
<1>10. ASSUME NEW i \in Page \ {h}
       PROVE  ContentOf(file, Q, wn, i) = ContentOf(file, pager, unused, i)
  BY <1>4, <1>6, <1>7
<1> QED
  BY <1>1, <1>4, <1>5, <1>6, <1>8, <1>9, <1>10 DEF Changes, Going, SameSafe

\* Page g takes the place of an unused one.
Moves(g, h) ==
    /\ Going /\ mark' = mark /\ g \in Page /\ h \in Page /\ g # h
    /\ h \in unused /\ g \in unused'
    /\ ContentOf(file', pager', unused', h) = ContentOf(file, pager, unused, g)
    /\ \A i \in Page \ {g, h} :
          ContentOf(file', pager', unused', i) = ContentOf(file, pager, unused, i)

\* A page moves to a number whose flags it fits.
LEMMA MoveStep ==
    ASSUME NEW g \in Page, ~MovesUnflagged PROVE IInv /\ Move(g) => Moves(g, step.to)
<1> SUFFICES ASSUME IInv, Move(g) PROVE Moves(g, step.to)
  OBVIOUS
<1> DEFINE h == step.to
           G == Got(pager, g)
           W == IF step.next = "root" THEN Written(G, g) ELSE G
           Q == Moved(W, g, h)
           wn == (unused \ {h}) \cup {g}
           lp == lost \cup {g}
           su == MovedCall(W, step, g)
<1>1. /\ Good(mode, file, pager, unused, lost, freeAtStart, mark, step)
      /\ last \in Value /\ 1 \in Page /\ pager.state # "shared" /\ IsCached(pager, 1)
      /\ pager \in PagerType /\ file \in FileType /\ step.call = "allocated"
  BY Now DEF Move
<1>2. /\ g \notin unused /\ g # 1 /\ g <= pager.dbSize /\ ~(pager.dbSize < g)
      /\ step.call \notin {"lock", "store", "move"} /\ step.call # "tail"
  <2>1. g \in 1 .. pager.dbSize /\ g \notin unused /\ g # 1 /\ pager.dbSize \in Nat
    BY <1>1, Numbers DEF Move, Movable, Live
  <2> QED
    BY <1>1, <2>1
<1>3. /\ Good(mode, file, W, unused, lost, freeAtStart, mark, step)
      /\ SameSafe(mode, file, pager, file, W, freeAtStart)
      /\ SameContent(file, pager, unused, file, W, unused)
      /\ IsCached(W, g) /\ IsCached(W, 1) /\ W.dbSize = pager.dbSize
      /\ step.next = "root" => Writable(W, g)
  <2>1. CASE step.next = "root"
    <3> DEFINE T == Written(Got(pager, g), g)
    <3>1. /\ Good(mode, file, T, unused, lost, freeAtStart, mark, step)
          /\ SameSafe(mode, file, pager, file, T, freeAtStart)
          /\ \A i \in Page : i <= pager.dbSize =>
                ContentOf(file, T, unused, i) = ContentOf(file, pager, unused, i)
          /\ \A i \in Page \ {g} : ContentOf(file, T, unused, i) = ContentOf(file, pager, unused, i)
          /\ T.dbSize = IF pager.dbSize < g THEN g ELSE pager.dbSize
          /\ Writable(T, g) /\ T.state # "shared"
          /\ \A i \in Page : IsCached(pager, i) => IsCached(T, i)
      BY <1>1, <1>2, TouchedGood
    <3>2. W = T
      BY <2>1
    <3> HIDE DEF W, T
    <3> QED
      BY <1>1, <1>2, <3>1, <3>2 DEF SameContent, Writable
  <2>2. CASE step.next # "root"
    <3>1. /\ Good(mode, file, G, unused, lost, freeAtStart, mark, step)
          /\ SameSafe(mode, file, pager, file, G, freeAtStart)
          /\ SameContent(file, pager, unused, file, G, unused)
          /\ IsCached(G, g) /\ \A i \in Page : IsCached(pager, i) => IsCached(G, i)
      BY <1>1, GotGood DEF Waiting
    <3>2. G.dbSize = pager.dbSize
      BY <1>1, GotIs DEF SamePager
    <3>3. W = G
      BY <2>2
    <3> HIDE DEF W, G
    <3> QED
      BY <1>1, <2>2, <3>1, <3>2, <3>3
  <2> QED
    BY <2>1, <2>2
<1>4. /\ Flagged(W, g, h) /\ pager' = Q /\ unused' = wn /\ lost' = lp
      /\ mode' = mode /\ file' = file /\ freeAtStart' = freeAtStart /\ mark' = mark /\ last' = last
  BY DEF Move
<1>5. step' = su
  BY DEF Move, AfterMove, MovedCall, NextCall
<1> HIDE DEF W, G
<1>6. /\ Good(mode, file, Q, wn, lp, freeAtStart, mark, su)
      /\ SameSafe(mode, file, W, file, Q, freeAtStart)
      /\ h \in Page /\ h \in unused /\ h # g
      /\ ContentOf(file, Q, wn, h) = ContentOf(file, W, unused, g)
      /\ \A i \in Page \ {g, h} : ContentOf(file, Q, wn, i) = ContentOf(file, W, unused, i)
      /\ IsCached(W, 1) => IsCached(Q, 1)
  BY <1>1, <1>2, <1>3, <1>4, MovedGood
<1>7. su.call # "none" /\ g \in wn
  BY DEF MovedCall, NextCall
<1> HIDE DEF Q, wn, lp, su, h
<1>8. Q.state # "shared" /\ IsCached(Q, 1)
  BY <1>3, <1>6, <1>7, NotShared
<1>9. IInv'
  BY <1>1, <1>4, <1>5, <1>6, <1>8, Kept
<1>10. SameSafe(mode, file, pager, file, Q, freeAtStart)
  BY <1>3, <1>6 DEF SameSafe
<1>11. /\ ContentOf(file, Q, wn, h) = ContentOf(file, pager, unused, g)
       /\ \A i \in Page \ {g, h} : ContentOf(file, Q, wn, i) = ContentOf(file, pager, unused, i)
  BY <1>3, <1>6 DEF SameContent
<1> QED
  BY <1>1, <1>4, <1>6, <1>7, <1>8, <1>9, <1>10, <1>11 DEF Moves, Going, h

\* WrittenGood for the state a step starts from.
LEMMA NowWritten ==
    ASSUME NEW g \in Page, pager.state # "shared", IsCached(pager, g),
           Good(mode, file, pager, unused, lost, freeAtStart, mark, step),
           step.call \in {"none", "vacuum"}, g <= pager.dbSize \/ g = pager.dbSize + 1
    PROVE  LET W == Written(pager, g)
           IN  /\ Good(mode, file, W, unused, lost, freeAtStart, mark, step)
               /\ SameSafe(mode, file, pager, file, W, freeAtStart)
               /\ \A h \in Page \ {g} : ContentOf(file, W, unused, h) = ContentOf(file, pager, unused, h)
               /\ W.dbSize = IF pager.dbSize < g THEN g ELSE pager.dbSize
               /\ Writable(W, g)
               /\ \A h \in Page : IsCached(pager, h) => IsCached(W, h)
<1>1. step.call \notin {"lock", "store", "move"} /\ step.call # "tail"
  OBVIOUS
<1>2. g <= pager.dbSize \/ (g = pager.dbSize + 1 /\ step.call # "tail")
  BY <1>1
<1> DEFINE W == Written(pager, g)
<1>3. /\ Good(mode, file, W, unused, lost, freeAtStart, mark, step)
      /\ SameSafe(mode, file, pager, file, W, freeAtStart)
      /\ \A h \in Page : h <= pager.dbSize =>
            ContentOf(file, W, unused, h) = ContentOf(file, pager, unused, h)
      /\ \A h \in Page \ {g} : ContentOf(file, W, unused, h) = ContentOf(file, pager, unused, h)
      /\ W.dbSize = IF pager.dbSize < g THEN g ELSE pager.dbSize
      /\ Writable(W, g)
      /\ \A h \in Page : IsCached(pager, h) => IsCached(W, h)
  BY <1>1, <1>2, WrittenGood
<1> QED
  BY <1>3

\* sqlite3pager_sync() changes page 1 only; the pages to cut off are lost.
LEMMA SyncStep == IInv /\ Sync => Changes(1)
<1> SUFFICES ASSUME IInv, Sync PROVE Changes(1)
  OBVIOUS
<1> PICK k \in Page : k = 1
  BY Now
<1> DEFINE W == Written(pager, k)
<1>1. /\ Good(mode, file, pager, unused, lost, freeAtStart, mark, step)
      /\ last \in Value /\ 1 \in Page /\ IsCached(pager, 1)
      /\ pager \in PagerType /\ file \in FileType /\ pager.state # "shared"
      /\ step.call \in {"none", "vacuum"} /\ mark = NoMark
      /\ Lists(pager, unused, lost, freeAtStart)
  BY Now DEF Sync, Ready
<1>2. PICK n \in Page :
         /\ \/ Ready /\ n = pager.dbSize
            \/ step.call = "vacuum" /\ n = step.size /\ \A g \in Live : g <= n
         /\ step' = [call |-> "tail", size |-> n, at |-> n + 1]
         /\ lost' = lost \cup (n + 1 .. pager.dbSize)
  BY DEF Sync
<1> DEFINE su == [call |-> "tail", size |-> n, at |-> n + 1]
           lp == lost \cup (n + 1 .. pager.dbSize)
<1>3. /\ pager.dbSize \in Nat /\ n \in Nat /\ n >= 1 /\ pager.dbSize \in 0 .. MaxPage
      /\ MaxPage \in Nat
  BY <1>1, Numbers, BoundAssumption DEF PagerType
<1>4. k <= pager.dbSize \/ k = pager.dbSize + 1
  BY <1>1, <1>3
<1>42. IsCached(pager, k)
  BY <1>1
<1>5. /\ Good(mode, file, W, unused, lost, freeAtStart, mark, step)
      /\ SameSafe(mode, file, pager, file, W, freeAtStart)
      /\ \A h \in Page \ {k} : ContentOf(file, W, unused, h) = ContentOf(file, pager, unused, h)
      /\ W.dbSize = IF pager.dbSize < k THEN k ELSE pager.dbSize
      /\ Writable(W, k)
      /\ \A h \in Page : IsCached(pager, h) => IsCached(W, h)
  BY <1>1, <1>4, <1>42, NowWritten
<1>6. pager' = W /\ mode' = mode /\ file' = file /\ step' = su /\ unused' = unused
      /\ lost' = lp /\ freeAtStart' = freeAtStart /\ mark' = mark /\ last' = last
  BY <1>2 DEF Sync
<1> HIDE DEF W
<1>7. W.state # "shared"
  BY <1>5, NotShared DEF Writable
<1>8. lp \subseteq unused
  <2>1. \A g \in n + 1 .. pager.dbSize : g \in unused
    BY <1>2, <1>3 DEF Live
  <2> QED
    BY <1>1, <2>1 DEF Lists
<1>9. (n + 1 .. W.dbSize) \subseteq lp
  BY <1>3, <1>5
<1>10. Doing(mode, W, unused, lp, mark, su)
  <2>1. n + 1 \in Nat /\ (n + 1 .. (n + 1) - 1) = {}
    BY <1>3
  <2> HIDE DEF lp
  <2> QED
    BY <1>1, <1>2, <1>5, <1>7, <1>9, <2>1 DEF Doing, Writable
<1>11. lost \subseteq lp
  OBVIOUS
<1>12. /\ Waiting(step) = {} /\ Gone(step) = {} /\ step.call # "store"
       /\ Waiting(su) = {} /\ Gone(su) = {}
  BY <1>1 DEF Waiting, Gone
<1> HIDE DEF lp, su
<1>13. Good(mode, file, W, unused, lp, freeAtStart, mark, su)
  BY <1>1, <1>5, <1>8, <1>10, <1>11, <1>12, StepGood
<1>14. IInv'
  BY <1>1, <1>5, <1>6, <1>7, <1>13, Kept
<1> QED
  BY <1>1, <1>5, <1>6, <1>7, <1>14 DEF Changes, Going

\* The first page to cut off that is in no journal is journaled.
LEMMA JournalTailStep ==
    ASSUME NEW g \in Page PROVE IInv /\ JournalTail(g) => Stays
<1> SUFFICES ASSUME IInv, JournalTail(g) PROVE Stays
  OBVIOUS
<1> DEFINE G == Got(pager, g)
           W == Written(G, g)
           su == [call |-> "tail", size |-> step.size, at |-> g + 1]
<1>1. /\ Good(mode, file, pager, unused, lost, freeAtStart, mark, step)
      /\ last \in Value /\ 1 \in Page /\ IsCached(pager, 1) /\ pager.state # "shared"
      /\ pager \in PagerType /\ file \in FileType /\ step.call = "tail"
      /\ Lists(pager, unused, lost, freeAtStart) /\ Doing(mode, pager, unused, lost, mark, step)
  BY Now DEF JournalTail
<1>2. /\ step.size \in Nat /\ step.at \in Nat /\ pager.origDbSize \in Nat /\ g \in Nat
      /\ pager.dbSize \in Nat /\ pager.journalOpen
  BY <1>1, Numbers DEF Doing
<1>3. /\ g \in Unjournaled /\ (\A h \in Unjournaled : g <= h) /\ pager' = W /\ step' = su
      /\ mode' = mode /\ file' = file /\ unused' = unused
      /\ lost' = lost /\ freeAtStart' = freeAtStart /\ mark' = mark /\ last' = last
  BY DEF JournalTail, caller
<1>4. g <= pager.origDbSize /\ g >= step.at /\ g <= pager.dbSize
      /\ step.call \notin {"lock", "store", "move"} /\ ~(pager.dbSize < g)
  <2>1. pager.origDbSize <= pager.dbSize
    BY <1>1, Unpacked DEF Sizes
  <2> QED
    BY <1>1, <1>2, <1>3, <2>1 DEF Unjournaled
<1>5. /\ Good(mode, file, W, unused, lost, freeAtStart, mark, step)
      /\ SameSafe(mode, file, pager, file, W, freeAtStart)
      /\ \A h \in Page : h <= pager.dbSize =>
            ContentOf(file, W, unused, h) = ContentOf(file, pager, unused, h)
      /\ \A h \in Page \ {g} : ContentOf(file, W, unused, h) = ContentOf(file, pager, unused, h)
      /\ W.dbSize = IF pager.dbSize < g THEN g ELSE pager.dbSize
      /\ Writable(W, g) /\ W.state # "shared"
      /\ \A h \in Page : IsCached(pager, h) => IsCached(W, h)
  BY <1>1, <1>4, TouchedGood
<1>6. W.origDbSize = pager.origDbSize /\ pager.aInJournal \subseteq W.aInJournal
  <2>1. /\ G \in PagerType /\ SamePager(pager, G)
        /\ \A h \in Page \ {g} : G.hdr[h] = pager.hdr[h]
        /\ IsCached(pager, g) => G = pager
        /\ IsCached(G, g)
    BY <1>1, GotIs
  <2>2. G.journalOpen /\ G.aInJournal = pager.aInJournal /\ G.origDbSize = pager.origDbSize
    BY <1>2, <2>1 DEF SamePager
  <2> HIDE DEF G
  <2>3. /\ SameSetting(G, W)
        /\ \/ W.aInJournal = G.aInJournal
           \/ W.aInJournal = G.aInJournal \cup {g}
    BY <2>1, <2>2, WrittenIs
  <2> HIDE DEF W
  <2> QED
    BY <2>2, <2>3 DEF SameSetting
<1> HIDE DEF W, G
<1>7. su.call = "tail" /\ su.size = step.size /\ su.at = g + 1 /\ g + 1 \in Nat
  BY <1>2
<1>8. (step.size + 1 .. su.at - 1) \cap (1 .. pager.origDbSize) \subseteq W.aInJournal
  <2>1. (step.size + 1 .. step.at - 1) \cap (1 .. pager.origDbSize) \subseteq pager.aInJournal
    BY <1>1 DEF Doing
  <2>2. g \in W.aInJournal
    BY <1>4, <1>5, <1>6 DEF Writable
  <2>3. ASSUME NEW h \in (step.size + 1 .. g) \cap (1 .. pager.origDbSize)
        PROVE  h \in W.aInJournal
    <3>1. h \in Nat /\ h <= g
      BY <1>2
    <3>2. CASE h = g
      BY <2>2, <3>2
    <3>3. CASE h < step.at
      BY <1>2, <1>6, <2>1, <3>1, <3>3
    <3>4. CASE h >= step.at /\ h < g
      BY <1>2, <1>3, <1>6, <3>1, <3>4 DEF Unjournaled
    <3> QED
      BY <1>2, <3>1, <3>2, <3>3, <3>4
  <2>4. su.at - 1 = g
    BY <1>2, <1>7
  <2> QED
    BY <2>3, <2>4
<1>9. W.dbSize = pager.dbSize
  BY <1>4, <1>5
<1> HIDE DEF su
<1>10. Doing(mode, W, unused, lost, mark, su)
  BY <1>1, <1>2, <1>5, <1>6, <1>7, <1>8, <1>9 DEF Doing, Writable
<1>11. Good(mode, file, W, unused, lost, freeAtStart, mark, su)
  BY <1>1, <1>5, <1>7, <1>10, StepGood DEF Waiting, Gone, Lists
<1>12. SameContent(file, pager, unused, file, W, unused)
  BY <1>4, <1>5 DEF SameContent
<1>13. IInv'
  BY <1>1, <1>3, <1>5, <1>11, Kept
<1> QED
  BY <1>1, <1>3, <1>5, <1>12, <1>13 DEF Stays, Going

-----------------------------------------------------------------------------
(* The last page, the statements, and the ends of a transaction.           *)

Truncates ==
    /\ Going /\ mark = NoMark /\ mark' = mark
    /\ \/ SameContent(file, pager, unused, file', pager', unused')
       \/ \E n \in Page : \A h \in Page :
             /\ h > n => /\ ContentOf(file, pager, unused, h) \in {Unused, Missing}
                         /\ ContentOf(file', pager', unused', h) = Missing
             /\ ~(h > n) =>
                   ContentOf(file', pager', unused', h) = ContentOf(file, pager, unused, h)

\* The file is cut, or it is not longer than it is to be.
LEMMA TruncateStep == IInv /\ Truncate => Truncates
<1> SUFFICES ASSUME IInv, Truncate PROVE Truncates
  OBVIOUS
<1>1. /\ Good(mode, file, pager, unused, lost, freeAtStart, mark, step)
      /\ last \in Value /\ 1 \in Page /\ pager.state # "shared" /\ IsCached(pager, 1)
      /\ step.call = "lock"
  BY Now DEF Truncate
<1> DEFINE e == IF step.size < pager.dbSize THEN Cut(file, step.size) ELSE file
           Q == IF step.size < pager.dbSize
                THEN [pager EXCEPT !.state = "exclusive", !.dbSize = step.size]
                ELSE [pager EXCEPT !.state = "exclusive"]
           wn == IF step.size < pager.dbSize THEN unused \cap 1 .. step.size ELSE unused
           lp == IF step.size < pager.dbSize THEN lost \cap 1 .. step.size ELSE lost
           su == [call |-> "store"]
<1>2. /\ pager' = Q /\ mode' = mode /\ file' = e /\ step' = su /\ unused' = wn
      /\ lost' = lp /\ freeAtStart' = freeAtStart /\ mark' = mark /\ last' = last
  BY DEF Truncate
<1>3. CutTo(file, pager, unused, lost, step.size, e, Q, wn, lp)
  BY DEF CutTo
<1> HIDE DEF e, Q, wn, lp
<1>5. /\ Good(mode, e, Q, wn, lp, freeAtStart, mark, [call |-> "store"])
      /\ SameSafe(mode, file, pager, e, Q, freeAtStart)
      /\ Q.state = "exclusive" /\ mark = NoMark /\ step.size \in Page
      /\ ~(step.size < pager.dbSize) => SameContent(file, pager, unused, e, Q, wn)
      /\ step.size < pager.dbSize =>
            \A h \in Page : /\ h > step.size => /\ ContentOf(file, pager, unused, h) \in {Unused, Missing}
                                                /\ ContentOf(e, Q, wn, h) = Missing
                            /\ ~(h > step.size) =>
                                  ContentOf(e, Q, wn, h) = ContentOf(file, pager, unused, h)
      /\ \A h \in Page : IsCached(pager, h) => IsCached(Q, h)
  BY <1>1, <1>3, TruncateGood
<1>6. IInv'
  BY <1>1, <1>2, <1>5, Kept
<1>7. Going
  BY <1>1, <1>2, <1>5, <1>6 DEF Going
<1> QED
  BY <1>2, <1>5, <1>7 DEF Truncates

Begins ==
    /\ pager.state = "shared" /\ pager'.state # "shared"
    /\ mode' = mode /\ freeAtStart' = freeAtStart /\ mark' = mark
    /\ SameSafe(mode, file, pager, file', pager', freeAtStart)
    /\ SameContent(file, pager, unused, file', pager', unused')
    /\ IInv'

\* A transaction begins.
LEMMA BeginStep == IInv /\ Begin => Begins
<1> SUFFICES ASSUME IInv, Begin PROVE Begins
  OBVIOUS
<1>1. /\ Good(mode, file, pager, unused, lost, freeAtStart, mark, step)
      /\ last \in Value /\ 1 \in Page /\ pager.state = "shared"
      /\ step.call = "none" /\ pager \in PagerType /\ Statement(file, pager, unused, mark)
  BY Now DEF Begin
<1> DEFINE P == [pager EXCEPT !.state = "reserved"]
           J == IF mode = "temp" THEN P ELSE JournalOpened(P)
           Q == Got(J, 1)
<1>2. pager' = Q /\ mode' = mode /\ file' = file /\ step' = step /\ unused' = unused
      /\ lost' = lost /\ freeAtStart' = freeAtStart /\ mark' = mark /\ last' = last
  BY DEF Begin, caller
<1>3. /\ Good(mode, file, P, unused, lost, freeAtStart, mark, step)
      /\ SameSafe(mode, file, pager, file, P, freeAtStart)
      /\ SameContent(file, pager, unused, file, P, unused)
      /\ P.state = "reserved" /\ P.journalOpen = pager.journalOpen
  BY <1>1, BegunGood
<1>4. ~P.journalOpen /\ P.state # "shared"
  BY <1>1, <1>3 DEF Statement
<1> HIDE DEF P
<1>5. /\ Good(mode, file, JournalOpened(P), unused, lost, freeAtStart, mark, step)
      /\ SameSafe(mode, file, P, file, JournalOpened(P), freeAtStart)
      /\ SameContent(file, P, unused, file, JournalOpened(P), unused)
      /\ JournalOpened(P).hdr = P.hdr /\ JournalOpened(P).dbSize = P.dbSize
      /\ JournalOpened(P).journalOpen
  BY <1>3, <1>4, JournalOpenedGood
<1>6. /\ Good(mode, file, J, unused, lost, freeAtStart, mark, step)
      /\ SameSafe(mode, file, pager, file, J, freeAtStart)
      /\ SameContent(file, pager, unused, file, J, unused)
      /\ J.state # "shared"
  <2>1. CASE mode = "temp"
    BY <1>3, <1>4, <2>1
  <2>2. CASE mode # "temp"
    <3>1. J = JournalOpened(P)
      BY <2>2
    <3> HIDE DEF J
    <3>2. J.state # "shared"
      BY <1>5, <3>1, NotShared
    <3> QED
      BY <1>3, <1>5, <3>1, <3>2 DEF SameSafe, SameContent
  <2> QED
    BY <2>1, <2>2
<1> HIDE DEF J
<1>7. J \in PagerType /\ file \in FileType
  BY <1>6, Unpacked
<1>8. /\ Good(mode, file, Q, unused, lost, freeAtStart, mark, step)
      /\ SameSafe(mode, file, J, file, Q, freeAtStart)
      /\ SameContent(file, J, unused, file, Q, unused)
      /\ IsCached(Q, 1) /\ \A h \in Page : IsCached(J, h) => IsCached(Q, h)
  BY <1>1, <1>6, GotGood DEF Waiting
<1>9. Q.state = J.state
  BY <1>1, <1>7, GotIs DEF SamePager
<1> HIDE DEF Q
<1>10. IInv'
  BY <1>1, <1>2, <1>6, <1>8, <1>9, Kept
<1> QED
  BY <1>1, <1>2, <1>6, <1>8, <1>9, <1>10 DEF Begins, SameSafe, SameContent

BeginsStmt ==
    /\ Going /\ mark = NoMark /\ mark' # NoMark
    /\ mark' = [g \in Page |-> ContentOf(file, pager, unused, g)]
    /\ SameContent(file, pager, unused, file', pager', unused')

\* The contents, by the operator of the invariant.
LEMMA ContentsIs == Contents = [g \in Page |-> ContentOf(file, pager, unused, g)]
  BY DEF Contents, ContentOf, Stored, StoredIn, IsCached

\* A statement begins: the contents are marked.
LEMMA BeginStmtStep == IInv /\ BeginStmt => BeginsStmt
<1> SUFFICES ASSUME IInv, BeginStmt PROVE BeginsStmt
  OBVIOUS
<1> DEFINE Q == StmtBegun(pager)
           mk == [g \in Page |-> ContentOf(file, pager, unused, g)]
<1>1. /\ Good(mode, file, pager, unused, lost, freeAtStart, NoMark, step)
      /\ last \in Value /\ 1 \in Page /\ pager.state # "shared" /\ IsCached(pager, 1)
      /\ step.call = "none" /\ mark = NoMark
  BY Now DEF BeginStmt, Ready
<1>2. /\ pager' = Q /\ mode' = mode /\ file' = file /\ step' = step /\ unused' = unused
      /\ lost' = lost /\ freeAtStart' = freeAtStart /\ mark' = mk /\ last' = Fresh
  BY ContentsIs DEF BeginStmt, Call
<1>3. Fresh \in Value
  BY <1>1, BoundAssumption DEF BeginStmt, Call, Fresh, Value
<1>4. mk = [g \in Page |-> ContentOf(file, pager, unused, g)]
  OBVIOUS
<1> HIDE DEF mk
<1>5. /\ Good(mode, file, Q, unused, lost, freeAtStart, mk, step)
      /\ SameSafe(mode, file, pager, file, Q, freeAtStart)
      /\ SameContent(file, pager, unused, file, Q, unused)
      /\ Q.state = pager.state /\ Q.hdr = pager.hdr /\ mk # NoMark
  BY <1>1, <1>4, StmtBegunGood
<1> HIDE DEF Q
<1>6. IsCached(Q, 1)
  BY <1>1, <1>5 DEF IsCached
<1>7. IInv'
  BY <1>1, <1>2, <1>3, <1>5, <1>6, Kept
<1> QED
  BY <1>1, <1>2, <1>4, <1>5, <1>7 DEF BeginsStmt, Going

CommitsStmt ==
    /\ Going /\ mark # NoMark /\ mark' = NoMark
    /\ SameContent(file, pager, unused, file', pager', unused')

\* A statement is committed: nothing changes but that it cannot be undone.
LEMMA CommitStmtStep == IInv /\ CommitStmt => CommitsStmt
<1> SUFFICES ASSUME IInv, CommitStmt PROVE CommitsStmt
  OBVIOUS
<1> DEFINE Q == StmtEnded(pager)
<1>1. /\ Good(mode, file, pager, unused, lost, freeAtStart, mark, step)
      /\ last \in Value /\ 1 \in Page /\ pager.state # "shared" /\ IsCached(pager, 1)
      /\ step.call = "none" /\ mark # NoMark
  BY Now DEF CommitStmt, Ready
<1>2. /\ pager' = Q /\ mode' = mode /\ file' = file /\ step' = step /\ unused' = unused
      /\ lost' = lost /\ freeAtStart' = freeAtStart /\ mark' = NoMark /\ last' = last
  BY DEF CommitStmt
<1>3. /\ Good(mode, file, Q, unused, lost, freeAtStart, NoMark, step)
      /\ SameSafe(mode, file, pager, file, Q, freeAtStart)
      /\ SameContent(file, pager, unused, file, Q, unused)
      /\ Q.state = pager.state
      /\ \A h \in Page : IsCached(pager, h) => IsCached(Q, h)
  BY <1>1, StmtEndedGood
<1> HIDE DEF Q
<1>4. IInv'
  BY <1>1, <1>2, <1>3, Kept
<1> QED
  BY <1>1, <1>2, <1>3, <1>4 DEF CommitsStmt, Going

RollsBackStmt ==
    /\ Going /\ mark # NoMark /\ mark' = NoMark
    /\ mark \in [Page -> Value \cup {Unused, Missing}]
    /\ \A h \in Page : ContentOf(file', pager', unused', h) = mark[h]

\* A statement is undone: the contents are those that were marked.
LEMMA RollbackStmtStep == IInv /\ RollbackStmt => RollsBackStmt
<1> SUFFICES ASSUME IInv, RollbackStmt PROVE RollsBackStmt
  OBVIOUS
<1>1. /\ Good(mode, file, pager, unused, lost, freeAtStart, mark, step)
      /\ last \in Value /\ 1 \in Page /\ pager.state # "shared" /\ IsCached(pager, 1)
      /\ step.call = "none" /\ mark # NoMark
      /\ Statement(file, pager, unused, mark) /\ Lists(pager, unused, lost, freeAtStart)
      /\ pager \in PagerType /\ file \in FileType
  BY Now DEF RollbackStmt, Ready
<1> DEFINE e == IF pager.stmtInUse THEN StmtPlayback.file ELSE file
           R == IF pager.stmtInUse THEN StmtPlayback.pager ELSE pager
           wn == {g \in Page : mark[g] = Unused}
           Q == StmtEnded(R)
<1>2. /\ pager' = Q /\ mode' = mode /\ file' = e /\ step' = step /\ unused' = wn
      /\ lost' = lost /\ freeAtStart' = freeAtStart /\ mark' = NoMark /\ last' = last
  BY DEF RollbackStmt
<1>3. /\ Good(mode, e, R, wn, lost, freeAtStart, mark, step)
      /\ SameSafe(mode, file, pager, e, R, freeAtStart)
      /\ \A h \in Page : ContentOf(e, R, wn, h) = mark[h]
      /\ R.state = pager.state
      /\ \A h \in Page : IsCached(pager, h) => IsCached(R, h)
  <2>1. CASE pager.stmtInUse
    <3> DEFINE p == StmtPlayback.file
               S == StmtPlayback.pager
    <3>1. /\ Good(mode, p, S, wn, lost, freeAtStart, mark, step)
          /\ SameSafe(mode, file, pager, p, S, freeAtStart)
          /\ \A h \in Page : ContentOf(p, S, wn, h) = mark[h]
          /\ S.state = pager.state
          /\ \A h \in Page : IsCached(pager, h) => IsCached(S, h)
      BY <1>1, <2>1, PlaybackGood
    <3>2. e = p /\ R = S
      BY <2>1
    <3> HIDE DEF e, R, wn, p, S
    <3> QED
      BY <3>1, <3>2
  <2>2. CASE ~pager.stmtInUse
    <3>1. \A h \in Page : mark[h] = ContentOf(file, pager, unused, h)
      BY <1>1, <2>2 DEF Statement
    <3>2. \A h \in Page : mark[h] = Unused <=> h \in unused
      <4> TAKE h \in Page
      <4>1. CASE h \in unused
        BY <3>1, <4>1 DEF ContentOf
      <4>2. CASE h \notin unused
        <5>1. file.page[h] \in Value \cup {Missing} /\ pager.hdr[h].data \in Value \cup {NotCached}
          BY <1>1 DEF FileType, PagerType, Header
        <5>2. /\ Unused \notin Value /\ Unused # Missing /\ Unused # NotCached /\ Unused # 0
              /\ Unused \notin Value \cup {Missing} /\ Unused \notin Value \cup {NotCached}
          BY Numbers, BoundAssumption DEF Unused, Missing, NotCached, Value
        <5>3. ContentOf(file, pager, unused, h) # Unused
          BY <4>2, <5>1, <5>2 DEF ContentOf, StoredIn
        <5> QED
          BY <3>1, <4>2, <5>3
      <4> QED
        BY <4>1, <4>2
    <3>3. wn = unused
      BY <1>1, <3>2 DEF Lists
    <3>4. e = file /\ R = pager
      BY <2>2
    <3> HIDE DEF e, R, wn
    <3> QED
      BY <1>1, <3>1, <3>3, <3>4 DEF SameSafe
  <2> QED
    BY <2>1, <2>2
<1> HIDE DEF e, R, wn
<1>4. /\ Good(mode, e, Q, wn, lost, freeAtStart, NoMark, step)
      /\ SameSafe(mode, e, R, e, Q, freeAtStart)
      /\ SameContent(e, R, wn, e, Q, wn)
      /\ Q.state = R.state
      /\ \A h \in Page : IsCached(R, h) => IsCached(Q, h)
  BY <1>1, <1>3, StmtEndedGood
<1> HIDE DEF Q
<1>5. IInv'
  BY <1>1, <1>2, <1>3, <1>4, Kept
<1>6. SameSafe(mode, file, pager, e, Q, freeAtStart)
  BY <1>3, <1>4 DEF SameSafe
<1>7. \A h \in Page : ContentOf(e, Q, wn, h) = mark[h]
  BY <1>3, <1>4 DEF SameContent
<1>8. mark \in [Page -> Value \cup {Unused, Missing}]
  BY <1>1 DEF Statement
<1> QED
  BY <1>1, <1>2, <1>3, <1>4, <1>5, <1>6, <1>7, <1>8 DEF RollsBackStmt, Going

\* What is left to show of a step that ends the transaction.
LEMMA KeptClosed ==
    ASSUME IInv, mode' = mode, last' = last, pager'.state = "shared",
           freeAtStart'.unused = unused', freeAtStart'.lost = lost',
           Good(mode, file', pager', unused', lost', freeAtStart', mark', step')
    PROVE  IInv'
  BY DEF IInv

Commits ==
    /\ pager.state # "shared" /\ pager'.state = "shared" /\ mark = NoMark /\ mark' = NoMark
    /\ unused' = unused /\ freeAtStart'.unused = unused
    /\ SameContent(file, pager, unused, file', pager', unused')
    /\ \A g \in Page : g \notin unused =>
          SafeAt(mode, file', pager', g) = ContentOf(file, pager, unused, g)
    /\ mode' = mode /\ IInv'

\* A transaction is committed: a crash leaves its contents from now on.
LEMMA CommitStep == IInv /\ Commit => Commits
<1> SUFFICES ASSUME IInv, Commit PROVE Commits
  OBVIOUS
<1>1. /\ Good(mode, file, pager, unused, lost, freeAtStart, mark, step)
      /\ step.call = "store" /\ \A g \in Page : ~pager.hdr[g].dirty
  BY Now DEF Commit
<1> DEFINE hdr == [g \in Page |-> [pager.hdr[g] EXCEPT !.inJournal = FALSE, !.inStmt = FALSE]]
           Q == Closed(hdr, pager.dbSize)
           gs == [unused |-> unused, lost |-> lost]
<1>2. /\ pager' = Q /\ mode' = mode /\ file' = file /\ step' = [call |-> "none"]
      /\ unused' = unused /\ lost' = lost /\ freeAtStart' = gs /\ mark' = mark /\ last' = last
  BY DEF Commit, Ended
<1>3. /\ Good(mode, file, Q, unused, lost, gs, mark, [call |-> "none"])
      /\ Q.state = "shared" /\ mark = NoMark /\ pager.state # "shared"
      /\ SameContent(file, pager, unused, file, Q, unused)
      /\ \A g \in Page : g \notin unused =>
            SafeAt(mode, file, Q, g) = ContentOf(file, pager, unused, g)
  BY <1>1, CommitGood
<1>4. gs.unused = unused /\ gs.lost = lost
  OBVIOUS
<1> HIDE DEF Q, gs
<1>5. IInv'
  BY <1>1, <1>2, <1>3, <1>4, KeptClosed
<1> QED
  BY <1>1, <1>2, <1>3, <1>4, <1>5 DEF Commits

RollsBack ==
    /\ pager.state # "shared" /\ pager'.state = "shared" /\ mark' = NoMark
    /\ mode' = mode /\ freeAtStart' = freeAtStart /\ unused' = freeAtStart.unused
    /\ SameSafe(mode, file, pager, file', pager', freeAtStart)
    /\ \A g \in Page : g \notin unused' =>
          ContentOf(file', pager', unused', g) = SafeAt(mode, file, pager, g)
    /\ IInv'

\* A file that has what a crash would leave ends the transaction.
LEMMA ForgetStep ==
    ASSUME NEW e \in FileType, IInv, Forget(e), pager.state # "shared",
           \A h \in Page \ freeAtStart.unused : e.page[h] = SafeAt(mode, file, pager, h)
    PROVE  RollsBack
<1> DEFINE Q == Closed(Empty, e.size)
<1>1. Lists(pager, unused, lost, freeAtStart)
  BY Now
<1>2. /\ pager' = Q /\ mode' = mode /\ file' = e /\ step' = [call |-> "none"]
      /\ unused' = freeAtStart.unused /\ lost' = freeAtStart.lost
      /\ freeAtStart' = freeAtStart /\ mark' = NoMark /\ last' = last
  BY DEF Forget, Ended
<1>3. /\ Good(mode, e, Q, freeAtStart.unused, freeAtStart.lost, freeAtStart, NoMark, [call |-> "none"])
      /\ Q.state = "shared"
      /\ \A g \in Page : SafeAt(mode, e, Q, g) = e.page[g]
      /\ \A g \in Page : g \notin freeAtStart.unused =>
            ContentOf(e, Q, freeAtStart.unused, g) = e.page[g]
      /\ \A g \in Page : g \in freeAtStart.unused =>
            ContentOf(e, Q, freeAtStart.unused, g) = Unused
  BY <1>1, ForgetGood
<1> HIDE DEF Q
<1>4. IInv'
  BY <1>2, <1>3, KeptClosed
<1>5. SameSafe(mode, file, pager, e, Q, freeAtStart)
  BY <1>3 DEF SameSafe
<1>6. \A g \in Page : g \notin freeAtStart.unused =>
         ContentOf(e, Q, freeAtStart.unused, g) = SafeAt(mode, file, pager, g)
  BY <1>3
<1> QED
  BY <1>2, <1>3, <1>4, <1>5, <1>6 DEF RollsBack

\* sqlite3pager_rollback() gives back what a crash would leave.
LEMMA RollbackStep == IInv /\ Rollback => RollsBack
<1> SUFFICES ASSUME IInv, Rollback PROVE RollsBack
  OBVIOUS
<1>1. /\ Good(mode, file, pager, unused, lost, freeAtStart, mark, step)
      /\ pager.state # "shared" /\ step.call \in {"none", "vacuum"}
  BY Now DEF Rollback, Ready
<1>2. /\ Restored \in FileType
      /\ \A h \in Page \ freeAtStart.unused : Restored.page[h] = SafeAt(mode, file, pager, h)
  BY <1>1, RestoredIs DEF Waiting
<1> QED
  BY <1>1, <1>2, ForgetStep DEF Rollback

\* So does the recovery after a crash.
LEMMA CrashStep == IInv /\ Crash => RollsBack
<1> SUFFICES ASSUME IInv, Crash PROVE RollsBack
  OBVIOUS
<1>1. Good(mode, file, pager, unused, lost, freeAtStart, mark, step)
  BY Now
<1>2. /\ Recovered(file, pager) \in FileType
      /\ \A h \in Page : Recovered(file, pager).page[h] = SafeAt(mode, file, pager, h)
  BY <1>1, RecoveredIs
<1> QED
  BY <1>2, ForgetStep DEF Crash

-----------------------------------------------------------------------------
(* The theorems.                                                           *)

\* The invariant holds at first.
LEMMA InitGood == Init => IInv
<1> SUFFICES ASSUME Init PROVE IInv
  OBVIOUS
<1>1. PICK n \in Page :
         /\ file = [page |-> [g \in Page |-> IF g <= n THEN g ELSE Missing], size |-> n]
         /\ unused \in SUBSET (2 .. n)
         /\ pager = Closed(Empty, n)
  BY DEF Init
<1>2. /\ mode \in Modes /\ lost = {} /\ freeAtStart = [unused |-> unused, lost |-> {}]
      /\ step = [call |-> "none"] /\ mark = NoMark /\ last = MaxPage
  BY DEF Init
<1>3. n \in Nat /\ n \in 0 .. MaxPage /\ MaxPage \in Nat /\ MaxCalls \in Nat
  BY BoundAssumption DEF Page
<1>4. file \in FileType /\ file.size = n
  <2>1. \A g \in Page : g \in Value /\ g # Missing /\ g \in Nat
    BY <1>3 DEF Page, Value, Missing
  <2>2. file.page \in [Page -> Value \cup {Missing}]
    BY <1>1, <2>1
  <2>3. \A g \in Page : file.page[g] = Missing <=> g > n
    BY <1>1, <1>3, <2>1
  <2> QED
    BY <1>1, <1>3, <2>2, <2>3 DEF FileType
<1>5. Empty \in [Page -> Header] /\ \A g \in Page : Empty[g] = Absent
  BY AbsentTyped DEF Empty
<1>6. unused \subseteq Page /\ 1 \notin unused /\ freeAtStart.unused = unused /\ freeAtStart.lost = lost
  BY <1>1, <1>2, <1>3 DEF Page
<1>7. \A g \in Page : /\ Empty[g].data = NotCached => Empty[g] = Absent
                      /\ ~Empty[g].dirty /\ ~Empty[g].needSync /\ ~Empty[g].inJournal /\ ~Empty[g].inStmt
                      /\ g \notin unused /\ g <= n =>
                            g <= file.size /\ (Empty[g].data # NotCached => Empty[g].data = file.page[g])
  BY <1>4, <1>5 DEF Absent
<1>8. Good(mode, file, Closed(Empty, n), unused, lost, freeAtStart, NoMark, [call |-> "none"])
  <2>1. file.size <= n /\ (lost = {} => file.size = n) /\ lost \subseteq unused
    BY <1>2, <1>3, <1>4
  <2> HIDE DEF Empty
  <2> QED
    BY <1>3, <1>4, <1>5, <1>6, <1>7, <2>1, ClosedGood
<1>9. pager.state = "shared"
  BY <1>1 DEF Closed
<1>10. last \in Value
  BY <1>2, <1>3 DEF Value
<1> QED
  BY <1>1, <1>2, <1>6, <1>8, <1>9, <1>10 DEF IInv

\* Every step keeps the invariant.
LEMMA NextGood ==
    ASSUME ~MovesUnflagged PROVE IInv /\ [Next]_vars => IInv'
<1> SUFFICES ASSUME IInv, [Next]_vars PROVE IInv'
  OBVIOUS
<1> USE DEF Stays, Changes, Moves, Going
<1>1. CASE UNCHANGED vars
  BY <1>1 DEF IInv, vars, IsCached
<1>2. ASSUME NEW g \in Page, Write(g) \/ FreePage(g) \/ Reuse(g) \/ Move(g)
                                \/ Allocate(g) \/ AllocateNew(g) \/ DropRoot(g)
      PROVE  IInv'
  BY <1>2, WriteStep, FreePageStep, ReuseStep, MoveStep,
     AllocateStep, AllocateNewStep, DropRootStep
<1>3. ASSUME NEW g \in Page, RecycleClean(g) \/ Spill(g) \/ JournalTail(g) \/ Store(g)
      PROVE  IInv'
  BY <1>3, RecycleCleanStep, SpillStep, JournalTailStep, StoreStep
<1>4. CASE Begin
  BY <1>4, BeginStep DEF Begins
<1>5. CASE BeginStmt
  BY <1>5, BeginStmtStep DEF BeginsStmt
<1>6. CASE CommitStmt
  BY <1>6, CommitStmtStep DEF CommitsStmt
<1>7. CASE RollbackStmt
  BY <1>7, RollbackStmtStep DEF RollsBackStmt
<1>8. CASE Vacuum \/ HoldMoved \/ NewRoot \/ SyncForRoom
  BY <1>8, VacuumStep, HoldMovedStep, NewRootStep, SyncForRoomStep
<1>9. CASE Sync \/ TailDone \/ SyncBusy
  BY <1>9, SyncStep, TailDoneStep, SyncBusyStep
<1>10. CASE Truncate
  BY <1>10, TruncateStep DEF Truncates
<1>11. CASE Commit
  BY <1>11, CommitStep DEF Commits
<1>12. CASE Rollback \/ Crash
  BY <1>12, RollbackStep, CrashStep DEF RollsBack
<1> QED
  BY <1>1, <1>2, <1>3, <1>4, <1>5, <1>6, <1>7, <1>8, <1>9, <1>10, <1>11, <1>12 DEF Next

\* The invariant implies that the state is well formed.
LEMMA TypeGood == IInv => TypeOK
<1> SUFFICES ASSUME IInv PROVE TypeOK
  OBVIOUS
<1>1. /\ pager \in PagerType /\ Sequences(pager) /\ file \in FileType
      /\ Lists(pager, unused, lost, freeAtStart) /\ Statement(file, pager, unused, mark)
      /\ NoJournal(file, pager, unused, freeAtStart, mark)
      /\ \A g \in Page : FlagsAt(mode, pager, unused, mark, g)
      /\ mode \in Modes /\ last \in Value
  BY Unpacked DEF IInv, PageGood
<1>2. /\ file.size \in 0 .. MaxPage /\ file.page \in [Page -> Value \cup {Missing}]
      /\ \A g \in Page : file.page[g] = Missing <=> g > file.size
  BY <1>1 DEF FileType
<1>3. /\ pager.hdr \in [Page -> Header] /\ pager.state \in {"shared", "reserved", "exclusive"}
      /\ {pager.dbSize, pager.origDbSize, pager.stmtSize} \subseteq 0 .. MaxPage
      /\ pager.aInJournal \subseteq Page /\ pager.aInStmt \subseteq Page
      /\ pager.nRec \in Nat /\ pager.stmtStart \in Nat
      /\ pager.journal \in Seq(Record) /\ pager.stmtJournal \in Seq(Record)
  BY <1>1 DEF PagerType
<1>4. \A g \in Page \ Cached(pager) : pager.hdr[g] = Absent
  BY <1>1 DEF FlagsAt, Cached, IsCached
<1>5. pager.nRec <= Len(pager.journal) /\ pager.stmtStart <= Len(pager.journal) /\ Once(pager.journal)
  BY <1>1 DEF Sequences
<1>6. Once(pager.stmtJournal)
  <2> DEFINE t == SubSeq(pager.journal, pager.stmtStart + 1, Len(pager.journal))
             s == pager.stmtJournal
  <2>1. Once(s \o t)
    BY <1>1 DEF Sequences, StmtRecords
  <2>2. s \in Seq(Record) /\ t \in Seq(Record)
    BY <1>3, SubSeqProperties
  <2> HIDE DEF s, t
  <2>3. \A i \in DOMAIN s : i \in DOMAIN (s \o t) /\ (s \o t)[i] = s[i]
    BY <2>2
  <2> QED
    BY <2>1, <2>3 DEF Once, s
<1>7. /\ pager.stmtInUse => mark # NoMark /\ pager.journalOpen
      /\ pager.state = "shared" => mark = NoMark /\ ~pager.journalOpen
  BY <1>1 DEF Statement, NoJournal
<1> QED
  BY <1>1, <1>2, <1>3, <1>4, <1>5, <1>6, <1>7 DEF TypeOK, Lists

\* The invariant implies the asserts of pager.c.
LEMMA AssertsGood == IInv => AssertsHold
<1> SUFFICES ASSUME IInv PROVE AssertsHold
  OBVIOUS
<1>1. /\ pager \in PagerType /\ file \in FileType /\ Sizes(file, pager, step)
      /\ Statement(file, pager, unused, mark) /\ Sequences(pager)
      /\ \A g \in Page : PageGood(mode, file, pager, unused, lost, freeAtStart, mark, step, g)
  BY Unpacked DEF IInv
<1>2. /\ pager.origDbSize \in Nat /\ pager.stmtSize \in Nat
      /\ \A g \in Page : g \in Nat
  BY <1>1, Numbers
<1>3. ASSUME NEW g \in Page, pager.hdr[g].needSync
      PROVE  pager.needSync /\ pager.hdr[g].inJournal /\ (pager.hdr[g].dirty \/ g \notin Live)
  BY <1>1, <1>3 DEF PageGood, FlagsAt, Live
<1>4. ASSUME NEW g \in Page, pager.hdr[g].inStmt
      PROVE  pager.hdr[g].inJournal \/ g > pager.origDbSize
  <2>1. pager.stmtInUse /\ pager.origDbSize <= pager.stmtSize
    BY <1>1, <1>4 DEF Statement
  <2>2. IsCached(pager, g)
    BY <1>1, <1>4 DEF PageGood, FlagsAt, Absent
  <2>3. CASE g <= pager.origDbSize
    <3>1. g <= pager.stmtSize
      BY <1>2, <2>1, <2>3
    <3>2. g \in pager.aInJournal
      BY <1>1, <1>4, <2>1, <2>2, <2>3, <3>1 DEF PageGood, StmtBitmapAt
    <3> QED
      BY <1>1, <2>2, <2>3, <3>2 DEF PageGood, BitmapAt
  <2> QED
    BY <1>2, <2>3
<1>5. ASSUME pager.stmtInUse, pager.state = "reserved", Ready
      PROVE  PagesOf(StmtRecords(pager)) \subseteq Cached(pager)
  <2>1. Gone(step) = {}
    BY <1>5 DEF Ready, Gone
  <2>2. InStmt(pager) \subseteq Page
    BY <1>1, InStmtPages
  <2> QED
    BY <1>1, <1>5, <2>1, <2>2 DEF PageGood, StmtOriginalAt, InStmt, Cached, IsCached
<1> QED
  BY <1>3, <1>4, <1>5 DEF AssertsHold

\* The invariant implies that the file has the size the pager remembers.
LEMMA SizeGood == IInv => SizeWritten
<1> SUFFICES ASSUME IInv, pager.state = "shared", lost = {} PROVE file.size = pager.dbSize
  BY DEF SizeWritten
<1>1. /\ pager \in PagerType /\ file \in FileType /\ Sizes(file, pager, step)
      /\ Statement(file, pager, unused, mark) /\ LastPage(file, pager, lost, step)
      /\ NoJournal(file, pager, unused, freeAtStart, mark) /\ Doing(mode, pager, unused, lost, mark, step)
  BY Unpacked DEF IInv
<1>2. file.size \in Nat /\ pager.dbSize \in Nat /\ (pager.dbSize > 0 => pager.dbSize \in Page)
  BY <1>1, Numbers
<1>3. Gone(step) = {} /\ ~pager.journalOpen
  BY <1>1 DEF Doing, Gone, Statement
<1>4. ~(file.size < pager.dbSize)
  BY <1>1, <1>2, <1>3 DEF LastPage, NoJournal
<1> QED
  BY <1>1, <1>2, <1>4 DEF Sizes

\* The invariant always holds.
LEMMA Invariant ==
    ASSUME ~MovesUnflagged PROVE Spec => []IInv
<1>1. Init => IInv
  BY InitGood
<1>2. IInv /\ [Next]_vars => IInv'
  BY NextGood
<1> QED
  BY <1>1, <1>2, PTL DEF Spec

\* The state of the pager and its journals stays well formed: a page is in
\* each journal once, the counts are within the journals, a page that is not
\* cached has no flags (pager.c), unless a page moves to a number whose flags
\* differ.
THEOREM StmtJournalTypeOK ==
    ASSUME ~MovesUnflagged PROVE Spec => []TypeOK
  BY Invariant, TypeGood, PTL

\* The asserts of pager.c about the two journals hold under the same
\* assumption: a page that waits makes the pager wait and is in the journal, a
\* page given to the statement journal is in the main journal or new, a page a
\* statement is to restore is cached as long as the file is not written.
THEOREM StmtJournalAssertsHold ==
    ASSUME ~MovesUnflagged PROVE Spec => []AssertsHold
  BY Invariant, AssertsGood, PTL

\* Outside a transaction the file has the size the pager remembers (dbSize),
\* though pages of the free list are not written, unless a vacuum that was
\* refused left pages behind.
THEOREM StmtJournalSizeWritten ==
    ASSUME ~MovesUnflagged PROVE Spec => []SizeWritten
  BY Invariant, SizeGood, PTL

-----------------------------------------------------------------------------
(* The pager implements NestedStore.                                       *)

SafeOf(md, f, P, fs) ==
    [g \in Page |-> IF g \in fs.unused THEN Unused ELSE SafeAt(md, f, P, g)]
ContentsOf(f, P, un) == [g \in Page |-> ContentOf(f, P, un, g)]

\* What a crash would leave, by the operator of the invariant.
LEMMA SafeIs == IInv => Safe = SafeOf(mode, file, pager, freeAtStart)
<1> SUFFICES ASSUME IInv PROVE Safe = SafeOf(mode, file, pager, freeAtStart)
  OBVIOUS
<1>1. Good(mode, file, pager, unused, lost, freeAtStart, mark, step)
  BY DEF IInv
<1> DEFINE r == Recovered(file, pager)
<1>2. r \in FileType /\ \A h \in Page : r.page[h] = SafeAt(mode, file, pager, h)
  BY <1>1, RecoveredIs
<1>3. Safe = [g \in Page |-> IF g \in freeAtStart.unused THEN Unused
                             ELSE IF g > r.size THEN Missing ELSE r.page[g]]
  BY DEF Safe
<1>4. \A h \in Page : r.page[h] = Missing <=> h > r.size
  BY <1>2 DEF FileType
<1> HIDE DEF r
<1> QED
  BY <1>2, <1>3, <1>4 DEF SafeOf

\* The same of the next state.
LEMMA SafeNext == IInv' => Safe' = SafeOf(mode', file', pager', freeAtStart')
<1>1. IInv => Safe = SafeOf(mode, file, pager, freeAtStart)
  BY SafeIs
<1>2. (IInv => Safe = SafeOf(mode, file, pager, freeAtStart))'
  BY <1>1, PTL
<1> QED
  BY <1>2

\* What the pages contain, in this state and the next.
LEMMA ContentsNext ==
    /\ Contents = ContentsOf(file, pager, unused)
    /\ Contents' = ContentsOf(file', pager', unused')
  BY DEF Contents, ContentsOf, ContentOf, Stored, StoredIn, IsCached

\* While the transaction goes on a crash would leave the same.
LEMMA SafeSame ==
    ASSUME NEW md, NEW f, NEW P, NEW e, NEW Q, NEW fs, SameSafe(md, f, P, e, Q, fs)
    PROVE  SafeOf(md, e, Q, fs) = SafeOf(md, f, P, fs)
  BY DEF SafeOf, SameSafe

\* The abstract store while the transaction goes on.
LEMMA GoingIs ==
    ASSUME IInv, Going
    PROVE  /\ Safe' = Safe /\ pager.state # "shared" /\ pager'.state # "shared"
           /\ \A h \in Page : /\ Contents[h] = ContentOf(file, pager, unused, h)
                              /\ Contents'[h] = ContentOf(file', pager', unused', h)
<1>1. Safe = SafeOf(mode, file, pager, freeAtStart)
  BY SafeIs
<1>2. Safe' = SafeOf(mode, file', pager', freeAtStart)
  BY SafeNext DEF Going
<1>3. SafeOf(mode, file', pager', freeAtStart) = SafeOf(mode, file, pager, freeAtStart)
  BY SafeSame DEF Going
<1>4. \A h \in Page : /\ Contents[h] = ContentOf(file, pager, unused, h)
                      /\ Contents'[h] = ContentOf(file', pager', unused', h)
  BY ContentsNext DEF ContentsOf
<1> QED
  BY <1>1, <1>2, <1>3, <1>4 DEF Going

\* Where no content changes the abstract pages stay.
LEMMA ContentsSame ==
    ASSUME SameContent(file, pager, unused, file', pager', unused')
    PROVE  Contents' = Contents
  BY ContentsNext DEF ContentsOf, SameContent

\* A step that changes no content is a stuttering step of NestedStore.
LEMMA StaysMaps == IInv /\ Stays => UNCHANGED Abstract!vars
<1> SUFFICES ASSUME IInv, Stays PROVE UNCHANGED Abstract!vars
  OBVIOUS
<1>1. Safe' = Safe /\ (pager'.state # "shared") = (pager.state # "shared")
  BY GoingIs DEF Stays
<1>2. Contents' = Contents /\ mark' = mark
  BY ContentsSame DEF Stays
<1> QED
  BY <1>1, <1>2 DEF Abstract!vars

\* A step that changes one page is a Change.
LEMMA ChangesMaps ==
    ASSUME NEW g \in Page PROVE IInv /\ Changes(g) => Abstract!Change(g)
<1> SUFFICES ASSUME IInv, Changes(g) PROVE Abstract!Change(g)
  OBVIOUS
<1>1. /\ Safe' = Safe /\ pager.state # "shared" /\ pager'.state # "shared"
      /\ \A h \in Page \ {g} : Contents'[h] = Contents[h]
      /\ mark' = mark
  BY GoingIs DEF Changes
<1> QED
  BY <1>1 DEF Abstract!Change

\* A page that gets another number is a Move.
LEMMA MovesMaps ==
    ASSUME NEW g, NEW h PROVE IInv /\ Moves(g, h) => Abstract!Move(g, h)
<1> SUFFICES ASSUME IInv, Moves(g, h) PROVE Abstract!Move(g, h)
  OBVIOUS
<1>1. /\ Safe' = Safe /\ pager.state # "shared" /\ pager'.state # "shared"
      /\ g \in Page /\ h \in Page /\ g # h /\ mark' = mark
      /\ \A i \in Page : /\ Contents[i] = ContentOf(file, pager, unused, i)
                         /\ Contents'[i] = ContentOf(file', pager', unused', i)
  BY GoingIs DEF Moves
<1>2. Contents[h] = Unused /\ Contents'[g] = Unused /\ Contents'[h] = Contents[g]
  BY <1>1 DEF Moves, ContentOf
<1>3. \A i \in Page \ {g, h} : Contents'[i] = Contents[i]
  BY <1>1 DEF Moves
<1>4. Contents = [i \in Page |-> Contents[i]] /\ Contents' = [i \in Page |-> Contents'[i]]
  BY ContentsNext DEF ContentsOf
<1>5. Contents' = [Contents EXCEPT ![h] = Contents[g], ![g] = Unused]
  <2> DEFINE c == Contents
             d == Contents'
  <2> HIDE DEF c, d
  <2>1. /\ c = [i \in Page |-> c[i]] /\ d = [i \in Page |-> d[i]]
        /\ d[g] = Unused /\ d[h] = c[g] /\ \A i \in Page \ {g, h} : d[i] = c[i]
    BY <1>2, <1>3, <1>4 DEF c, d
  <2>2. d = [c EXCEPT ![h] = c[g], ![g] = Unused]
    BY <1>1, <2>1
  <2> QED
    BY <2>2 DEF c, d
<1> QED
  BY <1>1, <1>2, <1>5 DEF Abstract!Move

\* A file that is cut is a Truncate, or nothing was to be cut off.
LEMMA TruncatesMaps ==
    IInv /\ Truncates => (UNCHANGED Abstract!vars) \/ (\E n \in Page : Abstract!Truncate(n))
<1> SUFFICES ASSUME IInv, Truncates
             PROVE  (UNCHANGED Abstract!vars) \/ (\E n \in Page : Abstract!Truncate(n))
  OBVIOUS
<1>1. CASE SameContent(file, pager, unused, file', pager', unused')
  <2>1. Stays
    BY <1>1 DEF Truncates, Stays
  <2> QED
    BY <2>1, StaysMaps
<1>2. ASSUME NEW n \in Page,
             \A h \in Page :
                /\ h > n => /\ ContentOf(file, pager, unused, h) \in {Unused, Missing}
                            /\ ContentOf(file', pager', unused', h) = Missing
                /\ ~(h > n) =>
                      ContentOf(file', pager', unused', h) = ContentOf(file, pager, unused, h)
      PROVE  Abstract!Truncate(n)
  <2>1. /\ Safe' = Safe /\ pager.state # "shared" /\ pager'.state # "shared"
        /\ mark' = mark /\ mark = NoMark
        /\ \A i \in Page : /\ Contents[i] = ContentOf(file, pager, unused, i)
                           /\ Contents'[i] = ContentOf(file', pager', unused', i)
    BY GoingIs DEF Truncates
  <2>2. \A i \in Page : i > n => Contents[i] \in {Unused, Missing}
    BY <1>2, <2>1
  <2>3. Contents' = [i \in Page |-> Contents'[i]]
    BY ContentsNext DEF ContentsOf
  <2>4. \A i \in Page : Contents'[i] = IF i > n THEN Missing ELSE Contents[i]
    BY <1>2, <2>1
  <2>5. Contents' = [i \in Page |-> IF i > n THEN Missing ELSE Contents[i]]
    <3> DEFINE c == Contents
               d == Contents'
    <3> HIDE DEF c, d
    <3>1. d = [i \in Page |-> d[i]] /\ \A i \in Page : d[i] = IF i > n THEN Missing ELSE c[i]
      BY <2>3, <2>4 DEF c, d
    <3>2. d = [i \in Page |-> IF i > n THEN Missing ELSE c[i]]
      BY <3>1
    <3> QED
      BY <3>2 DEF c, d
  <2> QED
    BY <2>1, <2>2, <2>5 DEF Abstract!Truncate
<1> QED
  BY <1>1, <1>2 DEF Truncates

\* The begin of a transaction is a Begin.
LEMMA BeginsMaps == IInv /\ Begins => Abstract!Begin
<1> SUFFICES ASSUME IInv, Begins PROVE Abstract!Begin
  OBVIOUS
<1>1. Safe = SafeOf(mode, file, pager, freeAtStart)
  BY SafeIs
<1>2. Safe' = SafeOf(mode, file', pager', freeAtStart)
  BY SafeNext DEF Begins
<1>3. SafeOf(mode, file', pager', freeAtStart) = SafeOf(mode, file, pager, freeAtStart)
  BY SafeSame DEF Begins
<1>4. Contents' = Contents
  BY ContentsSame DEF Begins
<1>5. pager.state = "shared" /\ pager'.state # "shared" /\ mark' = mark
  BY DEF Begins
<1> QED
  BY <1>1, <1>2, <1>3, <1>4, <1>5 DEF Abstract!Begin

\* The begin of a statement is a BeginStmt.
LEMMA BeginsStmtMaps == IInv /\ BeginsStmt => Abstract!BeginStmt
<1> SUFFICES ASSUME IInv, BeginsStmt PROVE Abstract!BeginStmt
  OBVIOUS
<1>1. Safe' = Safe /\ pager.state # "shared" /\ pager'.state # "shared"
  BY GoingIs DEF BeginsStmt
<1>2. Contents' = Contents
  BY ContentsSame DEF BeginsStmt
<1>3. mark = NoMark /\ mark' = Contents
  BY ContentsNext DEF BeginsStmt, ContentsOf
<1> QED
  BY <1>1, <1>2, <1>3 DEF Abstract!BeginStmt

\* The commit of a statement is a CommitStmt.
LEMMA CommitsStmtMaps == IInv /\ CommitsStmt => Abstract!CommitStmt
<1> SUFFICES ASSUME IInv, CommitsStmt PROVE Abstract!CommitStmt
  OBVIOUS
<1>1. Safe' = Safe /\ pager.state # "shared" /\ pager'.state # "shared"
  BY GoingIs DEF CommitsStmt
<1>2. Contents' = Contents
  BY ContentsSame DEF CommitsStmt
<1> QED
  BY <1>1, <1>2 DEF Abstract!CommitStmt, CommitsStmt

\* The rollback of a statement is a RollbackStmt.
LEMMA RollsBackStmtMaps == IInv /\ RollsBackStmt => Abstract!RollbackStmt
<1> SUFFICES ASSUME IInv, RollsBackStmt PROVE Abstract!RollbackStmt
  OBVIOUS
<1>1. Safe' = Safe /\ pager.state # "shared" /\ pager'.state # "shared"
  BY GoingIs DEF RollsBackStmt
<1>2. Contents' = mark
  <2>1. mark = [i \in Page |-> mark[i]]
    BY DEF RollsBackStmt
  <2>2. \A i \in Page : ContentOf(file', pager', unused', i) = mark[i]
    BY DEF RollsBackStmt
  <2>3. ContentsOf(file', pager', unused') = [i \in Page |-> mark[i]]
    BY <2>2 DEF ContentsOf
  <2> QED
    BY <2>1, <2>3, ContentsNext
<1> QED
  BY <1>1, <1>2 DEF Abstract!RollbackStmt, RollsBackStmt

\* A commit is a Commit.
LEMMA CommitsMaps == IInv /\ Commits => Abstract!Commit
<1> SUFFICES ASSUME IInv, Commits PROVE Abstract!Commit
  OBVIOUS
<1>1. Safe' = SafeOf(mode, file', pager', freeAtStart')
  BY SafeNext DEF Commits
<1>2. Contents' = Contents
  BY ContentsSame DEF Commits
<1>3. /\ \A g \in Page : g \notin unused =>
            SafeAt(mode, file', pager', g) = ContentOf(file, pager, unused, g)
      /\ freeAtStart'.unused = unused
  BY DEF Commits
<1>4. \A g \in Page : g \in unused => ContentOf(file, pager, unused, g) = Unused
  BY DEF ContentOf
<1>5. SafeOf(mode, file', pager', freeAtStart') = ContentsOf(file, pager, unused)
  BY <1>3, <1>4 DEF SafeOf, ContentsOf
<1>6. Safe' = Contents
  BY <1>1, <1>5, ContentsNext
<1>7. pager.state # "shared" /\ pager'.state = "shared" /\ mark = NoMark /\ mark' = NoMark
  BY DEF Commits
<1> QED
  BY <1>2, <1>6, <1>7 DEF Abstract!Commit

\* A rollback and a crash are a Rollback.
LEMMA RollsBackMaps == IInv /\ RollsBack => Abstract!Rollback
<1> SUFFICES ASSUME IInv, RollsBack PROVE Abstract!Rollback
  OBVIOUS
<1>1. Safe = SafeOf(mode, file, pager, freeAtStart)
  BY SafeIs
<1>2. Safe' = SafeOf(mode, file', pager', freeAtStart)
  BY SafeNext DEF RollsBack
<1>3. SafeOf(mode, file', pager', freeAtStart) = SafeOf(mode, file, pager, freeAtStart)
  BY SafeSame DEF RollsBack
<1>4. \A g \in Page : g \notin unused' =>
         ContentOf(file', pager', unused', g) = SafeAt(mode, file, pager, g)
  BY DEF RollsBack
<1>5. \A g \in Page : g \in unused' => ContentOf(file', pager', unused', g) = Unused
  BY DEF ContentOf
<1>6. ContentsOf(file', pager', unused') = SafeOf(mode, file, pager, freeAtStart)
  <2>1. unused' = freeAtStart.unused
    BY DEF RollsBack
  <2> QED
    BY <1>4, <1>5, <2>1 DEF SafeOf, ContentsOf
<1>7. Contents' = Safe
  BY <1>1, <1>6, ContentsNext
<1>8. pager.state # "shared" /\ pager'.state = "shared" /\ mark' = NoMark
  BY DEF RollsBack
<1> QED
  BY <1>1, <1>2, <1>3, <1>7, <1>8 DEF Abstract!Rollback

\* The initial states map to initial states.
LEMMA InitMaps == Init => Abstract!Init
<1> SUFFICES ASSUME Init PROVE Abstract!Init
  OBVIOUS
<1>1. IInv
  BY InitGood
<1>2. PICK n \in Page :
         /\ file = [page |-> [g \in Page |-> IF g <= n THEN g ELSE Missing], size |-> n]
         /\ unused \in SUBSET (2 .. n)
         /\ pager = Closed(Empty, n)
  BY DEF Init
<1>3. freeAtStart.unused = unused /\ mark = NoMark /\ pager.state = "shared"
  BY <1>2 DEF Init, Closed
<1>4. /\ Good(mode, file, pager, unused, lost, freeAtStart, mark, step)
      /\ pager \in PagerType /\ file \in FileType
  BY <1>1, Now
<1>5. ~pager.journalOpen /\ pager.dbSize = n /\ file.size = n /\ pager.hdr = Empty
  BY <1>2 DEF Closed
<1>6. \A g \in Page : g \notin unused =>
         ContentOf(file, pager, unused, g) = SafeAt(mode, file, pager, g)
  <2> TAKE g \in Page
  <2>1. ~IsCached(pager, g)
    BY <1>5 DEF Empty, IsCached, Absent
  <2>2. g \in Nat /\ n \in Nat /\ (file.page[g] = Missing <=> g > n)
    BY <1>4, <1>5, Numbers
  <2> QED
    BY <1>5, <2>1, <2>2 DEF ContentOf, SafeAt, StoredIn
<1>7. \A g \in Page : g \in unused => ContentOf(file, pager, unused, g) = Unused
  BY DEF ContentOf
<1>8. ContentsOf(file, pager, unused) = SafeOf(mode, file, pager, freeAtStart)
  BY <1>3, <1>6, <1>7 DEF ContentsOf, SafeOf
<1>9. Contents = Safe
  BY <1>1, <1>8, SafeIs, ContentsNext
<1> QED
  BY <1>3, <1>9 DEF Abstract!Init

\* Every step maps to a step of NestedStore or changes nothing.
LEMMA NextMaps ==
    ASSUME ~MovesUnflagged PROVE IInv /\ [Next]_vars => [Abstract!Next]_Abstract!vars
<1> SUFFICES ASSUME IInv, [Next]_vars PROVE [Abstract!Next]_Abstract!vars
  OBVIOUS
<1>1. CASE UNCHANGED vars
  BY <1>1 DEF vars, Abstract!vars, Safe, Contents, Stored, Recovered, Counted
<1>2. ASSUME NEW g \in Page, Write(g) \/ FreePage(g) \/ Reuse(g) \/ AllocateNew(g) \/ DropRoot(g)
      PROVE  Abstract!Next
  <2>1. Abstract!Change(g)
    BY <1>2, WriteStep, FreePageStep, ReuseStep, AllocateNewStep, DropRootStep, ChangesMaps
  <2> QED
    BY <2>1 DEF Abstract!Next
<1>3. ASSUME NEW g \in Page,
             Allocate(g) \/ RecycleClean(g) \/ Spill(g) \/ JournalTail(g) \/ Store(g)
      PROVE  UNCHANGED Abstract!vars
  BY <1>3, AllocateStep, RecycleCleanStep, SpillStep, JournalTailStep, StoreStep, StaysMaps
<1>4. ASSUME NEW g \in Page, Move(g)
      PROVE  Abstract!Next
  <2>1. Moves(g, step.to)
    BY <1>4, MoveStep
  <2>2. Abstract!Move(g, step.to) /\ g \in Page /\ step.to \in Page
    BY <2>1, MovesMaps DEF Moves
  <2> QED
    BY <2>2 DEF Abstract!Next
<1>5. CASE Begin
  BY <1>5, BeginStep, BeginsMaps DEF Abstract!Next
<1>6. CASE BeginStmt
  BY <1>6, BeginStmtStep, BeginsStmtMaps DEF Abstract!Next
<1>7. CASE CommitStmt
  BY <1>7, CommitStmtStep, CommitsStmtMaps DEF Abstract!Next
<1>8. CASE RollbackStmt
  BY <1>8, RollbackStmtStep, RollsBackStmtMaps DEF Abstract!Next
<1>9. CASE Vacuum \/ HoldMoved \/ SyncForRoom \/ TailDone \/ SyncBusy
  BY <1>9, VacuumStep, HoldMovedStep, SyncForRoomStep, TailDoneStep, SyncBusyStep, StaysMaps
<1>10. CASE NewRoot
  <2>1. Changes(step.from) /\ step.from \in Page
    BY <1>10, NewRootStep
  <2>2. Abstract!Change(step.from)
    BY <2>1, ChangesMaps
  <2> QED
    BY <2>1, <2>2 DEF Abstract!Next
<1>11. CASE Sync
  <2>1. Changes(1) /\ 1 \in Page
    BY <1>11, SyncStep, Now
  <2>2. Abstract!Change(1)
    BY <2>1, ChangesMaps
  <2> QED
    BY <2>1, <2>2 DEF Abstract!Next
<1>12. CASE Truncate
  BY <1>12, TruncateStep, TruncatesMaps DEF Abstract!Next
<1>13. CASE Commit
  BY <1>13, CommitStep, CommitsMaps DEF Abstract!Next
<1>14. CASE Rollback \/ Crash
  BY <1>14, RollbackStep, CrashStep, RollsBackMaps DEF Abstract!Next
<1> QED
  BY <1>1, <1>2, <1>3, <1>4, <1>5, <1>6, <1>7, <1>8, <1>9, <1>10, <1>11, <1>12, <1>13, <1>14 DEF Next

\* pager.c implements NestedStore: whatever is written early, left out of a
\* journal or moved, a statement rollback gives back what the pages were when
\* the statement began, a rollback or a crash what they were when the
\* transaction began, and a commit keeps everything.
THEOREM StmtJournalImplements ==
    ASSUME ~MovesUnflagged PROVE Spec => ImplementsNestedStore
<1>1. Init => Abstract!Init
  BY InitMaps
<1>2. IInv /\ [Next]_vars => [Abstract!Next]_Abstract!vars
  BY NextMaps
<1>3. Spec => []IInv
  BY Invariant
<1> QED
  BY <1>1, <1>2, <1>3, PTL DEF Spec, ImplementsNestedStore, Abstract!Spec
=============================================================================
