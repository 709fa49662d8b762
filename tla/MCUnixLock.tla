----------------------------- MODULE MCUnixLock -----------------------------
(* Instances of UnixLock for TLC. *)
EXTENDS UnixLock, TLC

CONSTANTS p1, p2, p3, h1, h2, h3, h4

TwoByTwo == (h1 :> p1) @@ (h2 :> p1) @@ (h3 :> p2) @@ (h4 :> p2)
TwoAndOne == (h1 :> p1) @@ (h2 :> p1) @@ (h3 :> p2)

\* Handles of the same process are interchangeable.
SwapHandles == Permutations({h1, h2}) \cup Permutations({h3, h4})
=============================================================================
