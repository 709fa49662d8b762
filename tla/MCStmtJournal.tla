--------------------------- MODULE MCStmtJournal ---------------------------
(* Instances of StmtJournal for TLC. *)
EXTENDS StmtJournal
=============================================================================
