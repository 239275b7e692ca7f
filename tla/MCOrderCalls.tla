---------------------------- MODULE MCOrderCalls ----------------------------
(***************************************************************************)
(* OrderCalls for TLC.  Calls of one kind, ids and terms are               *)
(* interchangeable, so runs without liveness use their symmetry.           *)
(***************************************************************************)
EXTENDS OrderCalls, TLC

\* Every call is made.
EveryCall == {Calls}

Symmetry == Permutations(News) \cup Permutations(Cancels) \cup Permutations(Replaces)
            \cup Permutations(Ids) \cup Permutations(Terms)
=============================================================================
