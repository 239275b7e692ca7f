-------------------------------- MODULE Feed --------------------------------
(***************************************************************************)
(* What a trader needs of its subscription to a gate: whatever the gate    *)
(* publishes is handed over once, in the order of publication, and only    *)
(* what says nothing to a trader is dropped on the way.                    *)
(*                                                                         *)
(* An entry is a sequence of at most one payload; the empty one stands for *)
(* a publication that says nothing.                                        *)
(***************************************************************************)
EXTENDS Naturals, Sequences

VARIABLES
    waiting,   \* entries published and not handed over yet
    handling   \* the payload handed over last, if any

feedVars == <<waiting, handling>>

FeedInit == waiting = <<>> /\ handling = <<>>

Publication ==
    /\ Len(waiting') = Len(waiting) + 1
    /\ SubSeq(waiting', 1, Len(waiting)) = waiting
    /\ UNCHANGED handling

HandOver ==
    /\ waiting # <<>>
    /\ Head(waiting) # <<>>
    /\ handling' = Head(waiting)
    /\ waiting' = Tail(waiting)

Drop ==
    /\ \E i \in 1 .. Len(waiting) :
          /\ waiting[i] = <<>>
          /\ waiting' = SubSeq(waiting, 1, i - 1) \o SubSeq(waiting, i + 1, Len(waiting))
    /\ UNCHANGED handling

FeedNext == Publication \/ HandOver \/ Drop

FeedSafety == FeedInit /\ [][FeedNext]_feedVars

\* Everything that waits is handed over or dropped in the end.
FeedSpec == FeedSafety /\ WF_feedVars(HandOver) /\ WF_feedVars(Drop)
=============================================================================
