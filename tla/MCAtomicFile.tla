---------------------------- MODULE MCAtomicFile ----------------------------
(***************************************************************************)
(* Instances of AtomicFile for TLC.                                        *)
(***************************************************************************)
EXTENDS AtomicFile, TLC

CONSTANTS p1, p2, c1, c2, c3

\* Two calls in one process, one in another.
TwoProcesses == {p1, p2}
ThreeCalls == {c1, c2, c3}
ProcessOf3 == c1 :> p1 @@ c2 :> p1 @@ c3 :> p2
Kind3 == c1 :> "write" @@ c2 :> "delete" @@ c3 :> "update"

\* A single update.
OneProcess == {p1}
OneCall == {c1}
ProcessOf1 == c1 :> p1
Update1 == c1 :> "update"
=============================================================================
