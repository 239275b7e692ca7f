--------------------------- MODULE MCSnapshotCalls ---------------------------
(***************************************************************************)
(* SnapshotCalls for TLC.  Calls of the same kind, users and goroutines    *)
(* are interchangeable, so runs without liveness use their symmetry.       *)
(***************************************************************************)
EXTENDS SnapshotCalls, TLC

Symmetry == Permutations(Users) \cup Permutations(Calls \ Lookups)
=============================================================================
