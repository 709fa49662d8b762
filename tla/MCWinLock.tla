------------------------------ MODULE MCWinLock -----------------------------
(* Instances of WinLock for TLC. *)
EXTENDS WinLock, TLC
=============================================================================
