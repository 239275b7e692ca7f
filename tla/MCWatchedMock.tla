---------------------------- MODULE MCWatchedMock ----------------------------
(***************************************************************************)
(* WatchedMock for TLC.                                                    *)
(***************************************************************************)
EXTENDS WatchedMock, TLC

\* For either call, with and without a report.
SomeExpectations ==
    {[for |-> "GetSnapshot", id |-> i, reports |-> <<>>] : i \in Ids}
    \cup {[for |-> "NewOrder", id |-> i,
           reports |-> <<[effect |-> "keep", id |-> i, tif |-> "GTC"]>>] : i \in Ids}

Symmetry == Permutations(Callers)
=============================================================================
