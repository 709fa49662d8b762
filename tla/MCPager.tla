------------------------------ MODULE MCPager ------------------------------
(* Instances of Pager for TLC. *)
EXTENDS Pager, TLC

CONSTANTS p1, p2, p3
Symmetric == Permutations(Proc)

\* A journal that has no name, not even after a power failure, and that
\* nobody has open does not exist any more: states that differ only in the
\* contents of such journals are the same.
Existing == (linkedDisk \cup {jfd[p] : p \in Proc}) \ {NoJournal}
Visible ==
    <<setup, locks, files, names, pagers, pages, flags, pc, task, rest,
      [t \in Existing |-> <<jOrig[t], jSize[t], jRecs[t], jSynced[t],
                            jCount[t], jCountDisk[t], jSegment[t]>>]>>

Users(n) == {U \in SUBSET Proc : Cardinality(U) = n}
No == {FALSE}
Yes == {TRUE}

\* Processes in each other's way, with a cache of one slot.
Crowd ==
    [users : Users(3), size : {1, 2}, pages : {2}, txns : {3}, mxPage : {1},
     fullSync : No, otherUsers : No, usedUnlocked : No, retriesHot : No,
     powerFails : No, afterRollback : No, tornSectors : No]
\* Power failures in full-sync mode.
Power ==
    [users : Users(2), size : {1, 2}, pages : {2}, txns : {3}, mxPage : {1},
     fullSync : Yes, otherUsers : No, usedUnlocked : No, retriesHot : No,
     powerFails : Yes, afterRollback : No, tornSectors : No]
\* Pages spill before the commit, and a header may be torn.
Torn ==
    [users : Users(1), size : {0, 3}, pages : {4}, txns : {2}, mxPage : {3},
     fullSync : Yes, otherUsers : No, usedUnlocked : No, retriesHot : No,
     powerFails : Yes, afterRollback : No, tornSectors : Yes]
\* Other users keep the Pager in use after a BEGIN that failed or a rollback.
Others ==
    [users : Users(2), size : {1, 2}, pages : {2}, txns : {3}, mxPage : {1},
     fullSync : Yes, otherUsers : Yes, usedUnlocked : No, retriesHot : Yes,
     powerFails : No, afterRollback : No, tornSectors : No]

\* A process comes to read after the other may have crashed.
Recovery ==
    [users : Users(2), size : {1}, pages : {2}, txns : {2}, mxPage : {1},
     fullSync : Yes, otherUsers : No, usedUnlocked : No, retriesHot : Yes,
     powerFails : Yes, afterRollback : No, tornSectors : No]

Transactions == Crowd \cup Power \cup Torn
Afterwards == Recovery \cup Others

\* An empty database, where hasHotJournal() deletes a journal.
Empty ==
    [users : Users(2), size : {0}, pages : {2}, txns : {3}, mxPage : {2},
     fullSync : Yes, otherUsers : No, usedUnlocked : No, retriesHot : No,
     powerFails : No, afterRollback : No, tornSectors : No]
\* The power fails when a rolled-back file is not yet on the disk.
RolledBack ==
    [users : Users(1), size : {2}, pages : {3}, txns : {2}, mxPage : {2},
     fullSync : Yes, otherUsers : No, usedUnlocked : No, retriesHot : No,
     powerFails : Yes, afterRollback : Yes, tornSectors : No]
\* The Pager is used again after SQLITE_BUSY for a hot journal.
Retried ==
    [users : Users(2), size : {1}, pages : {2}, txns : {3}, mxPage : {2},
     fullSync : No, otherUsers : No, usedUnlocked : No, retriesHot : Yes,
     powerFails : No, afterRollback : No, tornSectors : No]
\* A commit may be refused when a page more than the cache holds is in use,
\* and go on; a header may be torn.
Refused ==
    [users : Users(2), size : {1, 2}, pages : {3}, txns : {2}, mxPage : {2},
     fullSync : Yes, otherUsers : No, usedUnlocked : No, retriesHot : No,
     powerFails : Yes, afterRollback : No, tornSectors : Yes]
\* A cache that other connections share.
SharedCache ==
    [users : Users(1), size : {2}, pages : {2}, txns : {2}, mxPage : {2},
     fullSync : Yes, otherUsers : Yes, usedUnlocked : No, retriesHot : No,
     powerFails : No, afterRollback : No, tornSectors : No]
\* A Pager that lost its lock for want of a journal is used on.
Unlocked ==
    [users : Users(2), size : {2}, pages : {3}, txns : {3}, mxPage : {3},
     fullSync : Yes, otherUsers : Yes, usedUnlocked : Yes, retriesHot : No,
     powerFails : No, afterRollback : No, tornSectors : No]
=============================================================================
