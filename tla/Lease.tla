-------------------------------- MODULE Lease --------------------------------
(***************************************************************************)
(* What a watcher of users promises: a user's lease runs from the last     *)
(* time the user was seen; it is not revoked before it is older than Term, *)
(* and never gets older than Limit.                                        *)
(***************************************************************************)
EXTENDS Integers

CONSTANTS Clients, Term, Limit, Nobody

VARIABLES
    time,
    seen    \* when a client was seen last, Nobody for one without a lease

leaseVars == <<time, seen>>

LeaseInit == time \in Nat /\ seen = [u \in Clients |-> Nobody]

Renew(u) == seen' = [seen EXCEPT ![u] = time] /\ UNCHANGED time

Revoke(u) ==
    /\ seen[u] # Nobody
    /\ time - seen[u] > Term
    /\ seen' = [seen EXCEPT ![u] = Nobody]
    /\ UNCHANGED time

Pass ==
    /\ \A u \in Clients : seen[u] # Nobody => time - seen[u] < Limit
    /\ time' = time + 1
    /\ UNCHANGED seen

LeaseNext == Pass \/ \E u \in Clients : Renew(u) \/ Revoke(u)

LeaseSpec == LeaseInit /\ [][LeaseNext]_leaseVars
=============================================================================
