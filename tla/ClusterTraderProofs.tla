------------------------- MODULE ClusterTraderProofs -------------------------
(***************************************************************************)
(* Proofs about ClusterTrader, for any number of gates, users, calls,      *)
(* Unsubscribes and movers and whatever the gates do.                      *)
(*                                                                         *)
(* CallUsesAssigned is not inductive alone: LoadOrStore takes an absent    *)
(* assignment for its own, so that a call which has its gate must be known *)
(* to have one.  RoutingInv adds that.  Nothing is needed of the ring: the *)
(* claim holds whatever getNextEnabled returns.                            *)
(*                                                                         *)
(* NoLostReadiness needs to know what updateEnabled has done when it is in *)
(* the middle: as long as there is no news, what it has counted and filled *)
(* in is right for the gates it has looked at.                             *)
(*                                                                         *)
(* RoundRobin needs that no gate is in the ring twice and which places the *)
(* present turn has passed: TurnInv.                                       *)
(***************************************************************************)
EXTENDS ClusterTrader, FiniteSetTheorems, TLAPS

\* The functions that are updated have their domains.
RoutingDomains ==
    /\ assigned = [u \in Users |-> assigned[u]]
    /\ pc = [c \in Calls |-> pc[c]]
    /\ gate = [c \in Calls |-> gate[c]]
    /\ user \in [Calls -> Users]

\* A call beyond getNextEnabled has a gate.
HasGate == \A c \in Calls : pc[c] \in {"store", "call"} => gate[c] # NoGate

RoutingInv == RoutingDomains /\ HasGate /\ CallUsesAssigned

LEMMA InitRouting == Init => RoutingInv
BY DEF Init, RoutingInv, RoutingDomains, HasGate, CallUsesAssigned

\* What leaves the calls and the assignments alone keeps RoutingInv.
LEMMA OthersKeepRouting ==
    ASSUME RoutingInv, UNCHANGED <<assigned, callVars, rerouted>>
    PROVE  RoutingInv'
BY DEF RoutingInv, RoutingDomains, HasGate, CallUsesAssigned, callVars

\* A new assignment of user u overtakes the calls that have u's old gate.
LEMMA ReassigningKeepsRouting ==
    ASSUME RoutingInv, NEW u, NEW g,
           assigned' = [assigned EXCEPT ![u] = g],
           rerouted' = rerouted \cup Rerouted(u),
           UNCHANGED callVars
    PROVE  RoutingInv'
<1>1. RoutingDomains' /\ HasGate'
    BY DEF RoutingInv, RoutingDomains, HasGate, callVars
<1>2. SUFFICES ASSUME NEW c \in Calls \ rerouted', pc'[c] = "call"
               PROVE  gate'[c] = assigned'[user'[c]]
    BY <1>1 DEF RoutingInv, CallUsesAssigned
<1>3. c \notin rerouted /\ user[c] # u /\ pc[c] = "call"
    BY <1>2 DEF Rerouted, callVars
<1>4. assigned'[user[c]] = assigned[user[c]]
    BY <1>3 DEF RoutingInv, RoutingDomains
<1> QED
    BY <1>2, <1>3, <1>4 DEF RoutingInv, CallUsesAssigned, callVars

LEMMA StepRouting == RoutingInv /\ [Next]_vars => RoutingInv'
<1> SUFFICES ASSUME RoutingInv, [Next]_vars PROVE RoutingInv'
    OBVIOUS
<1>d. RoutingDomains /\ HasGate /\ CallUsesAssigned
    BY DEF RoutingInv
<1> USE DEF RoutingDomains, HasGate, CallUsesAssigned
<1>1. ASSUME NEW c \in Calls, Start(c) PROVE RoutingInv'
  <2>1. gate' = [gate EXCEPT ![c] = assigned[user[c]]] /\ UNCHANGED <<assigned, user, rerouted>>
      BY <1>1 DEF Start
  <2>2. pc' = [pc EXCEPT ![c] = IF assigned[user[c]] = NoGate THEN "next" ELSE "call"]
      BY <1>1 DEF Start, Goto
  <2> QED BY <1>d, <2>1, <2>2 DEF RoutingInv
<1>2. ASSUME NEW c \in Calls, NextEnabled(c) PROVE RoutingInv'
  <2>0. UNCHANGED <<assigned, user, rerouted>>
      BY <1>2 DEF NextEnabled
  <2>1. CASE PickedGate # NoGate
    <3>1. gate' = [gate EXCEPT ![c] = PickedGate] /\ pc' = [pc EXCEPT ![c] = "store"]
        BY <1>2, <2>1 DEF NextEnabled, Goto
    <3> QED BY <1>d, <2>0, <2>1, <3>1 DEF RoutingInv
  <2>2. CASE PickedGate = NoGate
    <3>1. gate' = gate /\ pc' = [pc EXCEPT ![c] = "returned"]
        BY <1>2, <2>2 DEF NextEnabled, Goto
    <3> QED BY <1>d, <2>0, <3>1 DEF RoutingInv
  <2> QED BY <2>1, <2>2
<1>3. ASSUME NEW c \in Calls, StoreGate(c) PROVE RoutingInv'
  <2> DEFINE g == Assignment(c)
  <2>1. pc[c] = "store" /\ pc' = [pc EXCEPT ![c] = "call"] /\ UNCHANGED <<user, rerouted>>
      BY <1>3 DEF StoreGate, Goto
  <2>2. gate' = [gate EXCEPT ![c] = g] /\ assigned' = [assigned EXCEPT ![user[c]] = g]
      BY <1>3 DEF StoreGate
  <2>3. g # NoGate /\ (assigned[user[c]] # NoGate => g = assigned[user[c]])
      BY <1>d, <2>1 DEF Assignment
  <2>4. RoutingDomains' /\ HasGate'
      BY <1>d, <2>1, <2>2, <2>3
  <2>5. ASSUME NEW d \in Calls \ rerouted, pc'[d] = "call"
        PROVE  gate'[d] = assigned'[user'[d]]
    <3>1. CASE d = c
        BY <1>d, <2>1, <2>2, <3>1
    <3>2. CASE d # c
      <4>1. pc[d] = "call" /\ gate[d] # NoGate /\ gate[d] = assigned[user[d]]
          BY <1>d, <2>1, <2>5, <3>2
      <4>2. assigned'[user[d]] = assigned[user[d]]
          BY <1>d, <2>2, <2>3, <4>1
      <4> QED BY <1>d, <2>1, <2>2, <3>2, <4>1, <4>2
    <3> QED BY <3>1, <3>2
  <2> QED BY <2>1, <2>4, <2>5 DEF RoutingInv
<1>4. ASSUME NEW c \in Calls, CallGate(c) PROVE RoutingInv'
    BY <1>d, <1>4 DEF CallGate, Goto, RoutingInv
<1>5. ASSUME NEW t \in Unsubscribers, DeleteAssigned(t) PROVE RoutingInv'
    BY <1>5, ReassigningKeepsRouting DEF DeleteAssigned
<1>6. ASSUME NEW m \in Movers, StoreMove(m) PROVE RoutingInv'
    BY <1>6, ReassigningKeepsRouting DEF StoreMove
<1>7. ASSUME NEW g \in Gates, GateChange(g) \/ GateAnnounce(g) \/ ForwarderStep(g)
      PROVE  RoutingInv'
    BY <1>7, OthersKeepRouting
       DEF GateChange, GateAnnounce, ForwarderStep, ForwarderReceive, ForwarderSend
<1>8. CASE HandlerStep \/ ReceiveReady
    BY <1>8, OthersKeepRouting
       DEF HandlerStep, TakeStatus, Count, Fill, Swap, Announce, Spawn, ReceiveReady
<1>9. ASSUME NEW t \in Unsubscribers, LoadAssigned(t) \/ UnsubscribeGate(t) PROVE RoutingInv'
    BY <1>9, OthersKeepRouting DEF LoadAssigned, UnsubscribeGate
<1>10. ASSUME NEW m \in Movers, MoverStep(m), ~StoreMove(m) PROVE RoutingInv'
    BY <1>10, OthersKeepRouting
       DEF MoverStep, StartRange, Visit, RangeDone, CheckGate, NextGate, MoveSnapshot, ReleaseOld
<1>11. CASE UNCHANGED vars
    BY <1>11, OthersKeepRouting DEF vars
<1> QED
    BY <1>1, <1>2, <1>3, <1>4, <1>5, <1>6, <1>7, <1>8, <1>9, <1>10, <1>11
       DEF Next, CallStep, UnsubStep

\* A call uses the gate its user is assigned to, however many first calls of
\* the user race for the assignment, unless a move or an Unsubscribe comes
\* between getGate and the gate.
THEOREM CallsUseAssigned == Spec => []CallUsesAssigned
<1>1. RoutingInv => CallUsesAssigned
    BY DEF RoutingInv
<1> QED
    BY InitRouting, StepRouting, <1>1, PTL DEF Spec

-----------------------------------------------------------------------------
(* The ring and the news.                                                    *)

ReadyGates == {g \in Gates : gateReady[g]}
\* Those that a loop of updateEnabled has seen when it comes to gate k.
ReadyBelow(k) == {g \in 1 .. k - 1 : gateReady[g]}

RingTyped ==
    /\ gateReady \in [Gates -> BOOLEAN]
    /\ gateChan \in [Gates -> Nat]
    /\ status \in Nat
    /\ isReady \in BOOLEAN
    /\ enabled = Empty \/ enabled \in Ring
    /\ handler \in [pc : {"idle", "count", "fill", "swap", "announce", "spawn"},
                    gate : Gates, count : 0 .. NumGates]
    /\ handler.pc = "count" => handler.count < handler.gate

\* The places of the ring that the second loop has written when it has found
\* f gates of n: it begins at the second one and comes round to the first.
FilledPlaces(f, n) == IF f = n THEN 1 .. n ELSE 2 .. f + 1

\* The new ring holds the ready gates that have been seen, in the places that
\* have been written.
Filled(seen) ==
    LET n == Cardinality(ReadyGates)
        f == Cardinality(seen) IN
    IF n = 0 THEN enabled = Empty
    ELSE /\ enabled \in Ring
         /\ enabled.len = n
         /\ enabled.at = IF f = n THEN 1 ELSE f + 1
         /\ {enabled.value[i] : i \in FilledPlaces(f, n)} = seen

\* What updateEnabled and setReady have done is right for the gates as they are.
UpToDate ==
    /\ handler.pc = "count" => handler.count = Cardinality(ReadyBelow(handler.gate))
    /\ handler.pc \in {"fill", "swap"} => handler.count = Cardinality(ReadyGates)
    /\ handler.pc = "fill" => Filled(ReadyBelow(handler.gate))
    /\ handler.pc \notin {"count", "fill"} => RingExact
    /\ handler.pc \notin {"count", "fill", "swap"} => isReady = (\E g \in Gates : gateReady[g])

NewsInv == RingTyped /\ (NewsUnderWay \/ UpToDate)

\* The loops' progress through the gates.
LEMMA BelowCounts ==
    ASSUME gateReady \in [Gates -> BOOLEAN], NEW k \in Gates
    PROVE  /\ IsFiniteSet(ReadyGates) /\ Cardinality(ReadyGates) \in 0 .. NumGates
           /\ IsFiniteSet(ReadyBelow(k)) /\ Cardinality(ReadyBelow(k)) \in 0 .. k - 1
           /\ ReadyBelow(k) \subseteq ReadyGates
           /\ gateReady[k] => /\ ReadyBelow(k + 1) = ReadyBelow(k) \cup {k}
                              /\ k \notin ReadyBelow(k)
                              /\ Cardinality(ReadyBelow(k + 1)) = Cardinality(ReadyBelow(k)) + 1
                              /\ Cardinality(ReadyBelow(k)) < Cardinality(ReadyGates)
           /\ ~gateReady[k] => ReadyBelow(k + 1) = ReadyBelow(k)
           /\ k = NumGates => ReadyBelow(k + 1) = ReadyGates
           /\ k # NumGates => k + 1 \in Gates
<1>0. NumGates \in Nat \ {0} /\ k \in Nat /\ 1 <= k /\ k <= NumGates
  BY GatesAssumption DEF Gates
<1>1. /\ IsFiniteSet(Gates) /\ Cardinality(Gates) = NumGates
      /\ IsFiniteSet(1 .. k - 1) /\ Cardinality(1 .. k - 1) = k - 1
  BY <1>0, FS_Interval DEF Gates
<1>2. ReadyGates \subseteq Gates /\ ReadyBelow(k) \subseteq 1 .. k - 1
  BY DEF ReadyGates, ReadyBelow
<1>3. /\ IsFiniteSet(ReadyGates) /\ Cardinality(ReadyGates) <= NumGates
      /\ IsFiniteSet(ReadyBelow(k)) /\ Cardinality(ReadyBelow(k)) <= k - 1
  BY <1>1, <1>2, FS_Subset
<1>4. Cardinality(ReadyGates) \in Nat /\ Cardinality(ReadyBelow(k)) \in Nat
  BY <1>3, FS_CardinalityType
<1>5. ReadyBelow(k) \subseteq ReadyGates
  BY <1>0 DEF ReadyBelow, ReadyGates, Gates
<1>6. ASSUME gateReady[k]
      PROVE  /\ ReadyBelow(k + 1) = ReadyBelow(k) \cup {k}
             /\ k \notin ReadyBelow(k)
             /\ Cardinality(ReadyBelow(k + 1)) = Cardinality(ReadyBelow(k)) + 1
             /\ Cardinality(ReadyBelow(k)) < Cardinality(ReadyGates)
  <2>1. ReadyBelow(k + 1) = ReadyBelow(k) \cup {k}
    BY <1>0, <1>6 DEF ReadyBelow
  <2>2. k \notin ReadyBelow(k) /\ k \in ReadyGates
    BY <1>0, <1>6 DEF ReadyBelow, ReadyGates
  <2>3. Cardinality(ReadyBelow(k + 1)) = Cardinality(ReadyBelow(k)) + 1
    BY <1>3, <2>1, <2>2, FS_AddElement
  <2>4. /\ Cardinality(ReadyBelow(k)) <= Cardinality(ReadyGates)
        /\ Cardinality(ReadyBelow(k)) # Cardinality(ReadyGates)
    BY <1>3, <1>5, <2>2, FS_Subset
  <2> QED
    BY <1>4, <2>1, <2>2, <2>3, <2>4
<1>7. ~gateReady[k] => ReadyBelow(k + 1) = ReadyBelow(k)
  BY <1>0 DEF ReadyBelow
<1>8. k = NumGates => ReadyBelow(k + 1) = ReadyGates
  BY <1>0 DEF ReadyBelow, ReadyGates, Gates
<1>9. k # NumGates => k + 1 \in Gates
  BY <1>0 DEF Gates
<1> QED
  BY <1>0, <1>3, <1>4, <1>5, <1>6, <1>7, <1>8, <1>9

\* Before the first gate nothing has been seen.
LEMMA NothingBelow == ReadyBelow(1) = {} /\ Cardinality(ReadyBelow(1)) = 0
<1>1. ReadyBelow(1) = {}
  BY DEF ReadyBelow
<1> QED
  BY <1>1, FS_EmptySet

LEMMA RingShape ==
    ASSUME enabled \in Ring
    PROVE  /\ enabled # Empty
           /\ enabled.len \in Gates /\ enabled.at \in 1 .. enabled.len
           /\ enabled.value \in [1 .. enabled.len -> Gates \cup {NoGate}]
           /\ NextAt \in 1 .. enabled.len
           /\ enabled = [len |-> enabled.len, at |-> enabled.at, value |-> enabled.value]
<1>1. PICK n \in Gates : enabled \in [len : {n}, at : 1 .. n, value : [1 .. n -> Gates \cup {NoGate}]]
  BY DEF Ring
<1>2. enabled.len = n /\ n \in Nat /\ n >= 1
  BY <1>1, GatesAssumption DEF Gates
<1>3. enabled # Empty
  BY <1>2 DEF Empty
<1>4. enabled.at \in 1 .. n
  BY <1>1
<1>5. NextAt \in 1 .. n
  BY <1>2, <1>4 DEF NextAt
<1> QED
  BY <1>1, <1>2, <1>3, <1>5

\* A pick turns the ring and leaves what is in it.
LEMMA PickKeeps ==
    ASSUME RingTyped, Pick
    PROVE  /\ enabled' = Empty \/ enabled' \in Ring
           /\ enabled'.len = enabled.len /\ enabled'.value = enabled.value
           /\ handler.pc \notin {"count", "fill"}
<1>1. CASE enabled = Empty
  BY <1>1 DEF Pick, MutexFree
<1>2. CASE enabled # Empty
  <2>1. enabled \in Ring /\ enabled' = [enabled EXCEPT !.at = NextAt]
    BY <1>2 DEF RingTyped, Pick, Picked
  <2>2. enabled' = [len |-> enabled.len, at |-> NextAt, value |-> enabled.value]
    BY <2>1, RingShape
  <2>3. enabled' \in Ring
    BY <2>1, <2>2, RingShape DEF Ring
  <2> QED
    BY <2>2, <2>3 DEF Pick, MutexFree
<1> QED
  BY <1>1, <1>2

LEMMA NewRingShape ==
    ASSUME NEW n \in Gates
    PROVE  /\ NewRing(n) = [len |-> n, at |-> 1, value |-> [i \in 1 .. n |-> NoGate]]
           /\ NewRing(n) \in Ring
           /\ NewRing(n).len = n /\ NewRing(n).at = 1
<1>1. n \in Nat /\ n >= 1
  BY GatesAssumption DEF Gates
<1>2. 1 \in 1 .. n
  BY <1>1
<1>3. NewRing(n) = [len |-> n, at |-> 1, value |-> [i \in 1 .. n |-> NoGate]]
  BY <1>1 DEF NewRing
<1>4. NewRing(n) \in [len : {n}, at : 1 .. n, value : [1 .. n -> Gates \cup {NoGate}]]
  BY <1>2, <1>3
<1> QED
  BY <1>3, <1>4 DEF Ring

LEMMA FilledWithShape ==
    ASSUME enabled \in Ring, NEW g \in Gates
    PROVE  /\ FilledWith(g) \in Ring
           /\ FilledWith(g).len = enabled.len /\ FilledWith(g).at = NextAt
           /\ FilledWith(g).value = [enabled.value EXCEPT ![NextAt] = g]
<1>1. FilledWith(g) = [len |-> enabled.len, at |-> NextAt,
                       value |-> [enabled.value EXCEPT ![NextAt] = g]]
  <2>1. enabled = [len |-> enabled.len, at |-> enabled.at, value |-> enabled.value]
    BY RingShape
  <2> DEFINE e == [len |-> enabled.len, at |-> enabled.at, value |-> enabled.value]
  <2>2. FilledWith(g) = [e EXCEPT !.at = NextAt, !.value[NextAt] = g]
    BY <2>1 DEF FilledWith
  <2> QED
    BY <2>2
<1>2. [enabled.value EXCEPT ![NextAt] = g] \in [1 .. enabled.len -> Gates \cup {NoGate}]
  BY RingShape
<1>3. FilledWith(g) \in Ring
  BY <1>1, <1>2, RingShape DEF Ring
<1> QED
  BY <1>1, <1>3

\* The second loop writes the next place.
LEMMA FilledGrows ==
    ASSUME NEW k \in Gates, gateReady \in [Gates -> BOOLEAN], gateReady[k],
           Filled(ReadyBelow(k)), enabled # Empty, gateReady' = gateReady,
           enabled' = FilledWith(k)
    PROVE  Filled(ReadyBelow(k + 1))'
<1> DEFINE n == Cardinality(ReadyGates)
           f == Cardinality(ReadyBelow(k))
<1>1. /\ f \in Nat /\ n \in Nat /\ f < n
      /\ ReadyBelow(k + 1) = ReadyBelow(k) \cup {k}
      /\ Cardinality(ReadyBelow(k + 1)) = f + 1
  BY BelowCounts DEF Gates
<1>2. /\ enabled \in Ring /\ enabled.len = n /\ enabled.at = f + 1
      /\ {enabled.value[i] : i \in FilledPlaces(f, n)} = ReadyBelow(k)
  BY <1>1 DEF Filled
<1>3. ReadyGates' = ReadyGates /\ ReadyBelow(k + 1)' = ReadyBelow(k + 1)
  BY DEF ReadyGates, ReadyBelow
<1>4. /\ enabled' \in Ring /\ enabled'.len = n /\ enabled'.at = NextAt
      /\ enabled'.value = [enabled.value EXCEPT ![NextAt] = k]
      /\ enabled.value \in [1 .. n -> Gates \cup {NoGate}]
  BY <1>2, FilledWithShape, RingShape
<1>5. NextAt = IF f + 1 = n THEN 1 ELSE f + 2
  <2>1. NextAt = ((f + 1) % n) + 1
    BY <1>2 DEF NextAt
  <2> HIDE DEF n, f
  <2>2. (f + 1) % n = IF f + 1 = n THEN 0 ELSE f + 1
    BY <1>1
  <2> QED
    BY <1>1, <2>1, <2>2
<1> HIDE DEF n, f
<1>6. FilledPlaces(f, n) = 2 .. f + 1
  BY <1>1 DEF FilledPlaces
<1>7. /\ FilledPlaces(f + 1, n) = FilledPlaces(f, n) \cup {NextAt}
      /\ NextAt \notin FilledPlaces(f, n)
      /\ NextAt \in 1 .. n /\ FilledPlaces(f, n) \subseteq 1 .. n
  BY <1>1, <1>5, <1>6 DEF FilledPlaces
<1>8. {enabled'.value[i] : i \in FilledPlaces(f + 1, n)} = ReadyBelow(k) \cup {k}
  <2>1. \A i \in FilledPlaces(f, n) : enabled'.value[i] = enabled.value[i]
    BY <1>4, <1>7
  <2>2. enabled'.value[NextAt] = k
    BY <1>4, <1>7
  <2> QED
    BY <1>2, <1>7, <2>1, <2>2
<1>9. enabled'.at = IF f + 1 = n THEN 1 ELSE f + 1 + 1
  BY <1>1, <1>4, <1>5
<1>10. n # 0 /\ n = Cardinality(ReadyGates)
  BY <1>1 DEF n
<1> QED
  BY <1>1, <1>3, <1>4, <1>8, <1>9, <1>10 DEF Filled

\* When all gates have been seen the ring is what it should be.
LEMMA FilledAll == ASSUME Filled(ReadyGates) PROVE RingExact
<1>1. ReadyGates = {g \in Gates : gateReady[g]} /\ IsFiniteSet(ReadyGates)
  <2>1. IsFiniteSet(Gates)
    BY GatesAssumption, FS_Interval DEF Gates
  <2> QED
    BY <2>1, FS_Subset DEF ReadyGates
<1>2. CASE Cardinality(ReadyGates) = 0
  <2>1. ReadyGates = {} /\ enabled = Empty
    BY <1>1, <1>2, FS_EmptySet DEF Filled
  <2>2. Empty.len = 0 /\ {Empty.value[i] : i \in 1 .. 0} = {}
    BY DEF Empty
  <2> QED
    BY <1>1, <1>2, <2>1, <2>2 DEF RingExact
<1>3. CASE Cardinality(ReadyGates) # 0
  <2>1. /\ enabled.len = Cardinality(ReadyGates)
        /\ {enabled.value[i] : i \in 1 .. Cardinality(ReadyGates)} = ReadyGates
    BY <1>3 DEF Filled, FilledPlaces
  <2> QED
    BY <1>1, <2>1 DEF RingExact
<1> QED
  BY <1>2, <1>3

LEMMA InitNews == Init => NewsInv
<1> SUFFICES ASSUME Init PROVE NewsInv
  OBVIOUS
<1>1. 1 \in Gates /\ 0 \in 0 .. NumGates
  BY GatesAssumption DEF Gates
<1>2. RingTyped
  BY <1>1 DEF Init, RingTyped
<1>3. ASSUME \A g \in Gates : ~gateReady[g] PROVE UpToDate
  <2>1. {g \in Gates : gateReady[g]} = {}
    BY <1>3
  <2>2. Cardinality({}) = 0 /\ {enabled.value[i] : i \in 1 .. 0} = {}
    BY FS_EmptySet
  <2>3. RingExact
    BY <2>1, <2>2 DEF Init, RingExact, Empty
  <2> QED
    BY <1>3, <2>3 DEF Init, UpToDate
<1>4. NewsUnderWay \/ \A g \in Gates : ~gateReady[g]
  BY DEF Init, NewsUnderWay
<1> QED
  BY <1>2, <1>3, <1>4 DEF NewsInv

\* Whatever the gates and the forwarders do is news or brings it nearer.
LEMMA GatesNews ==
    ASSUME RingTyped, NEW g \in Gates, GateChange(g) \/ GateAnnounce(g) \/ ForwarderStep(g)
    PROVE  RingTyped' /\ NewsUnderWay'
<1>1. CASE GateChange(g)
  BY <1>1 DEF GateChange, RingTyped, NewsUnderWay, handlerVars, clusterVars
<1>2. CASE GateAnnounce(g)
  <2>1. gateChan'[g] > 0 /\ gateChan' \in [Gates -> Nat]
    BY <1>2, BoundsAssumption DEF GateAnnounce, RingTyped
  <2> QED
    BY <1>2, <2>1 DEF GateAnnounce, RingTyped, NewsUnderWay, handlerVars, clusterVars
<1>3. CASE ForwarderReceive(g)
  <2>1. gateChan' \in [Gates -> Nat]
    BY <1>3 DEF ForwarderReceive, RingTyped
  <2> QED
    BY <1>3, <2>1 DEF ForwarderReceive, RingTyped, NewsUnderWay, clusterVars
<1>4. CASE ForwarderSend(g)
  BY <1>4 DEF ForwarderSend, RingTyped, NewsUnderWay, gateVars, clusterVars
<1> QED
  BY <1>1, <1>2, <1>3, <1>4 DEF ForwarderStep

\* What looks at none of it.
LEMMA OthersKeepNews ==
    ASSUME NewsInv,
           UNCHANGED <<gateReady, changing, gateChan, forwarding, status, isReady, handler>>,
           \/ UNCHANGED enabled
           \/ Pick
    PROVE  NewsInv'
<1>0. ReadyGates' = ReadyGates /\ ReadyBelow(handler.gate)' = ReadyBelow(handler.gate)
  BY DEF ReadyGates, ReadyBelow
<1>1. RingTyped /\ (NewsUnderWay' <=> NewsUnderWay)
  BY DEF NewsInv, NewsUnderWay
<1>2. CASE UNCHANGED enabled
  <2>1. RingTyped' /\ (RingExact' <=> RingExact)
    BY <1>1, <1>2 DEF RingTyped, RingExact
  <2>2. Filled(ReadyBelow(handler.gate))' <=> Filled(ReadyBelow(handler.gate))
    BY <1>0, <1>2 DEF Filled
  <2>3. UpToDate => UpToDate'
    <3>1. (\E g \in Gates : gateReady[g])' <=> (\E g \in Gates : gateReady[g])
      OBVIOUS
    <3> QED
      BY <1>0, <2>1, <2>2, <3>1 DEF UpToDate
  <2> QED
    BY <1>1, <2>1, <2>3 DEF NewsInv
<1>3. CASE Pick
  <2>1. RingTyped'
    BY <1>1, <1>3, PickKeeps DEF RingTyped
  <2>2. RingExact => RingExact'
    BY <1>1, <1>3, PickKeeps DEF RingExact
  <2>3. UpToDate => UpToDate'
    <3>1. (\E g \in Gates : gateReady[g])' <=> (\E g \in Gates : gateReady[g])
      OBVIOUS
    <3>2. handler.pc \notin {"count", "fill"} /\ handler' = handler /\ isReady' = isReady
      BY <1>1, <1>3, PickKeeps
    <3> QED
      BY <1>0, <2>2, <3>1, <3>2 DEF UpToDate
  <2> QED
    BY <1>1, <2>1, <2>3 DEF NewsInv
<1> QED
  BY <1>2, <1>3

\* The first loop starts over.
LEMMA TakeStatusNews == NewsInv /\ TakeStatus => NewsInv'
<1> SUFFICES ASSUME NewsInv, TakeStatus PROVE NewsInv'
  OBVIOUS
<1>1. /\ UNCHANGED <<gateReady, gateChan, isReady, enabled>>
      /\ status' = status - 1 /\ status > 0 /\ status \in Nat
      /\ handler' = [pc |-> "count", gate |-> 1, count |-> 0]
  BY DEF TakeStatus, Update, gateVars, clusterVars, NewsInv, RingTyped
<1>2. RingTyped'
  BY <1>1, GatesAssumption DEF NewsInv, RingTyped, Gates
<1>3. UpToDate'
  <2>1. Cardinality(ReadyBelow(1))' = 0
    <3>1. ReadyBelow(1)' = {}
      BY DEF ReadyBelow
    <3> QED
      BY <3>1, FS_EmptySet
  <2> QED
    BY <1>1, <2>1 DEF UpToDate
<1> QED
  BY <1>2, <1>3 DEF NewsInv

\* The first loop counts, and in the end makes a ring of the right length.
LEMMA CountNews == NewsInv /\ Count => NewsInv'
<1> SUFFICES ASSUME NewsInv, Count PROVE NewsInv'
  OBVIOUS
<1> DEFINE k == handler.gate
           n == handler.count + IF gateReady[k] THEN 1 ELSE 0
<1>0. /\ RingTyped /\ handler.pc = "count" /\ k \in Gates
      /\ handler.count \in Nat /\ handler.count < k
      /\ UNCHANGED <<gateReady, changing, gateChan, forwarding, status, isReady>>
      /\ NumGates \in Nat \ {0}
  BY GatesAssumption DEF NewsInv, RingTyped, Count, gateVars, clusterVars
<1>1. n \in 0 .. k /\ k \in 1 .. NumGates
  BY <1>0 DEF RingTyped, Gates
<1>2. NewsUnderWay' <=> NewsUnderWay
  BY <1>0 DEF NewsUnderWay
<1>3. CASE k # NumGates
  <2>1. handler' = [pc |-> "count", gate |-> k + 1, count |-> n] /\ UNCHANGED enabled
    BY <1>3 DEF Count, After
  <2>2. RingTyped'
    BY <1>0, <1>1, <1>3, <2>1 DEF RingTyped, Gates
  <2>3. UpToDate => UpToDate'
    <3>1. ReadyBelow(handler.gate)' = ReadyBelow(k + 1)
      BY <1>0, <2>1 DEF ReadyBelow
    <3>2. handler.count = Cardinality(ReadyBelow(k)) => n = Cardinality(ReadyBelow(k + 1))
      BY <1>0, BelowCounts DEF RingTyped
    <3> QED
      BY <1>0, <2>1, <3>1, <3>2 DEF UpToDate
  <2> QED
    BY <1>2, <2>2, <2>3 DEF NewsInv
<1>4. CASE k = NumGates
  <2>1. handler' = [pc |-> "fill", gate |-> 1, count |-> n] /\ enabled' = NewRing(n)
    BY <1>4 DEF Count, After
  <2>2. n # 0 => NewRing(n) \in Ring /\ NewRing(n).len = n /\ NewRing(n).at = 1
    <3>1. n # 0 => n \in Gates
      <4> HIDE DEF n, k
      <4> QED
        BY <1>0, <1>1 DEF Gates
    <3> HIDE DEF n
    <3> QED
      BY <3>1, NewRingShape
  <2>3. n = 0 => NewRing(n) = Empty
    BY DEF NewRing
  <2>4. RingTyped'
    BY <1>0, <1>1, <1>4, <2>1, <2>2, <2>3 DEF RingTyped, Gates
  <2>5. UpToDate => UpToDate'
    <3> SUFFICES ASSUME UpToDate PROVE UpToDate'
      OBVIOUS
    <3>1. n = Cardinality(ReadyGates)
      BY <1>0, <1>4, BelowCounts DEF RingTyped, UpToDate
    <3>2. ReadyGates' = ReadyGates /\ ReadyBelow(1)' = {} /\ Cardinality({}) = 0
      BY <1>0, FS_EmptySet DEF ReadyGates, ReadyBelow
    <3>3. (ReadyBelow(handler.gate))' = {}
      BY <2>1, <3>2
    <3>4. Cardinality(ReadyGates)' = n
      BY <3>1, <3>2
    <3>5. Filled(ReadyBelow(handler.gate))'
      <4> HIDE DEF n
      <4>1. CASE n = 0
        BY <2>1, <2>3, <3>4, <4>1 DEF Filled
      <4>2. CASE n # 0
        <5>1. /\ enabled' \in Ring /\ enabled'.len = n /\ enabled'.at = 1
          BY <2>1, <2>2, <4>2
        <5>2. FilledPlaces(0, n) = {} /\ 0 # n
          BY <4>2 DEF FilledPlaces
        <5>3. {enabled'.value[i] : i \in FilledPlaces(0, n)} = {}
          BY <5>2
        <5> QED
          BY <3>2, <3>3, <3>4, <5>1, <5>2, <5>3 DEF Filled
      <4> QED
        BY <4>1, <4>2
    <3> QED
      BY <2>1, <3>1, <3>2, <3>5 DEF UpToDate
  <2> QED
    BY <1>2, <2>4, <2>5 DEF NewsInv
<1> QED
  BY <1>3, <1>4

\* The second loop fills the ring, or panics.
LEMMA FillNews == NewsInv /\ Fill => NewsInv'
<1> SUFFICES ASSUME NewsInv, Fill PROVE NewsInv'
  OBVIOUS
<1>0. /\ RingTyped /\ handler.pc = "fill" /\ handler.gate \in Gates
      /\ handler.count \in 0 .. NumGates
      /\ UNCHANGED <<gateReady, changing, gateChan, forwarding, status, isReady>>
      /\ NumGates \in Nat \ {0}
  BY GatesAssumption DEF NewsInv, RingTyped, Fill, gateVars, clusterVars
<1>1. CASE handler' = handler /\ enabled' = enabled
  BY <1>0, <1>1, OthersKeepNews
<1>2. CASE /\ handler' = After("fill", "swap", handler.count)
           /\ \/ ~gateReady[handler.gate] /\ enabled' = enabled
              \/ /\ gateReady[handler.gate] /\ enabled # Empty
                 /\ enabled' = FilledWith(handler.gate)
  <2>1. enabled' = Empty \/ enabled' \in Ring
    BY <1>0, <1>2, FilledWithShape DEF RingTyped
  <2>2. /\ handler'.pc \in {"fill", "swap"} /\ handler'.count = handler.count
        /\ handler'.gate \in Gates
        /\ handler' = [pc |-> handler'.pc, gate |-> handler'.gate, count |-> handler.count]
        /\ handler.gate = NumGates => handler'.pc = "swap"
        /\ handler.gate # NumGates => handler'.pc = "fill" /\ handler'.gate = handler.gate + 1
    BY <1>0, <1>2 DEF After, Gates
  <2>3. RingTyped'
    BY <1>0, <2>1, <2>2 DEF RingTyped
  <2>4. NewsUnderWay' <=> NewsUnderWay
    BY <1>0 DEF NewsUnderWay
  <2>5. ASSUME UpToDate PROVE UpToDate'
    <3>1. PICK k \in Gates : k = handler.gate
      BY <1>0
    <3>2. Filled(ReadyBelow(k)) /\ handler.count = Cardinality(ReadyGates)
      BY <1>0, <2>5, <3>1 DEF UpToDate
    <3>3. ReadyGates' = ReadyGates /\ ReadyBelow(k + 1)' = ReadyBelow(k + 1)
      BY <1>0 DEF ReadyGates, ReadyBelow
    <3>4. Filled(ReadyBelow(k + 1))'
      <4>1. CASE gateReady[k]
        BY <1>0, <1>2, <3>1, <3>2, <4>1, FilledGrows DEF RingTyped
      <4>2. CASE ~gateReady[k]
        <5>1. ReadyBelow(k + 1) = ReadyBelow(k) /\ enabled' = enabled
          BY <1>0, <1>2, <3>1, <4>2, BelowCounts DEF RingTyped
        <5> QED
          BY <3>2, <3>3, <5>1 DEF Filled
      <4> QED
        BY <4>1, <4>2
    <3>5. CASE k # NumGates
      BY <2>2, <3>1, <3>2, <3>3, <3>4, <3>5 DEF UpToDate
    <3>6. CASE k = NumGates
      <4>1. Filled(ReadyGates)'
        <5>1. ReadyBelow(k + 1) = ReadyGates
          BY <1>0, <3>6, BelowCounts DEF RingTyped
        <5> QED
          BY <3>3, <3>4, <5>1
      <4>2. RingExact'
        BY <4>1, FilledAll, PTL
      <4> QED
        BY <2>2, <3>1, <3>2, <3>3, <3>6, <4>2 DEF UpToDate
    <3> QED
      BY <3>5, <3>6
  <2> QED
    BY <2>3, <2>4, <2>5 DEF NewsInv
<1> QED
  BY <1>1, <1>2 DEF Fill

\* The cluster's own readiness follows the count.
LEMMA SwapNews == NewsInv /\ Swap => NewsInv'
<1> SUFFICES ASSUME NewsInv, Swap PROVE NewsInv'
  OBVIOUS
<1>0. /\ RingTyped /\ handler.pc = "swap"
      /\ UNCHANGED <<gateReady, changing, gateChan, forwarding, status, enabled>>
      /\ isReady' = (handler.count > 0)
      /\ handler'.pc \in {"announce", "spawn"}
      /\ handler' = [pc |-> handler'.pc, gate |-> handler.gate, count |-> handler.count]
  BY DEF NewsInv, RingTyped, Swap, gateVars
<1>1. NewsUnderWay' <=> NewsUnderWay
  BY <1>0 DEF NewsUnderWay
<1>2. RingTyped'
  BY <1>0 DEF RingTyped
<1>3. ASSUME UpToDate PROVE UpToDate'
  <2>1. RingExact /\ handler.count = Cardinality(ReadyGates)
    BY <1>0, <1>3 DEF UpToDate
  <2>2. (handler.count > 0) = (\E g \in Gates : gateReady[g])
    <3>1. IsFiniteSet(ReadyGates)
      <4>1. IsFiniteSet(Gates) /\ ReadyGates \subseteq Gates
        BY GatesAssumption, FS_Interval DEF Gates, ReadyGates
      <4> QED
        BY <4>1, FS_Subset
    <3>2. handler.count = 0 <=> ReadyGates = {}
      BY <2>1, <3>1, FS_EmptySet
    <3>3. ReadyGates = {} <=> ~ \E g \in Gates : gateReady[g]
      BY DEF ReadyGates
    <3>4. handler.count \in Nat
      BY <1>0, GatesAssumption DEF RingTyped
    <3>5. (handler.count > 0) <=> ReadyGates # {}
      BY <3>2, <3>4
    <3>6. (handler.count > 0) \in BOOLEAN
      BY <3>4
    <3> QED
      BY <3>3, <3>5, <3>6
  <2>3. RingExact'
    BY <1>0, <2>1 DEF RingExact
  <2>4. isReady' = (\E g \in Gates : gateReady[g])'
    BY <1>0, <2>2
  <2> QED
    BY <1>0, <2>3, <2>4 DEF UpToDate
<1> QED
  BY <1>1, <1>2, <1>3 DEF NewsInv

\* The end of setReady, and the mover.
LEMMA TailNews == NewsInv /\ (Announce \/ \E m \in Movers : Spawn(m)) => NewsInv'
<1> SUFFICES ASSUME NewsInv, Announce \/ \E m \in Movers : Spawn(m) PROVE NewsInv'
  OBVIOUS
<1>0. /\ RingTyped /\ handler.pc \in {"announce", "spawn"}
      /\ UNCHANGED <<gateReady, changing, gateChan, forwarding, status, enabled, isReady>>
      /\ handler'.pc \in {"spawn", "idle"}
      /\ handler' = [pc |-> handler'.pc, gate |-> handler.gate, count |-> handler.count]
  BY DEF NewsInv, RingTyped, Announce, Spawn, gateVars, clusterVars
<1>1. NewsUnderWay' <=> NewsUnderWay
  BY <1>0 DEF NewsUnderWay
<1>2. RingTyped'
  BY <1>0 DEF RingTyped
<1>3. UpToDate => UpToDate'
  <2>1. RingExact' <=> RingExact
    BY <1>0 DEF RingExact
  <2>2. (\E g \in Gates : gateReady[g])' <=> (\E g \in Gates : gateReady[g])
    BY <1>0
  <2> QED
    BY <1>0, <2>1, <2>2 DEF UpToDate
<1> QED
  BY <1>1, <1>2, <1>3 DEF NewsInv

LEMMA StepNews == NewsInv /\ [Next]_vars => NewsInv'
<1> SUFFICES ASSUME NewsInv, [Next]_vars PROVE NewsInv'
  OBVIOUS
<1> USE DEF gateVars, handlerVars, clusterVars
<1>1. ASSUME NEW g \in Gates, GateChange(g) \/ GateAnnounce(g) \/ ForwarderStep(g)
      PROVE  NewsInv'
  BY <1>1, GatesNews DEF NewsInv
<1>2. CASE HandlerStep
  BY <1>2, TakeStatusNews, CountNews, FillNews, SwapNews, TailNews DEF HandlerStep
<1>3. CASE ReceiveReady
  BY <1>3, OthersKeepNews DEF ReceiveReady
<1>4. ASSUME NEW c \in Calls, Start(c) \/ CallStep(c) PROVE NewsInv'
  BY <1>4, OthersKeepNews DEF Start, CallStep, NextEnabled, StoreGate, CallGate
<1>5. ASSUME NEW t \in Unsubscribers, LoadAssigned(t) \/ UnsubStep(t) PROVE NewsInv'
  BY <1>5, OthersKeepNews DEF LoadAssigned, UnsubStep, DeleteAssigned, UnsubscribeGate
<1>6. ASSUME NEW m \in Movers, MoverStep(m) PROVE NewsInv'
  BY <1>6, OthersKeepNews
     DEF MoverStep, StartRange, Visit, RangeDone, CheckGate, NextGate, MoveSnapshot, StoreMove,
         ReleaseOld
<1>7. CASE UNCHANGED vars
  BY <1>7, OthersKeepNews DEF vars
<1> QED
  BY <1>1, <1>2, <1>3, <1>4, <1>5, <1>6, <1>7 DEF Next

\* Whenever handleReady waits and no change is on its way to it, the ring holds
\* the ready gates and isReady says whether there is one, although the channels
\* drop values and the two loops of updateEnabled read the gates one by one
\* while they change.
THEOREM NewsIsHeard == Spec => []NoLostReadiness
<1>1. NewsInv => NoLostReadiness
  BY DEF NewsInv, UpToDate, NoLostReadiness
<1> QED
  BY InitNews, StepNews, <1>1, PTL DEF Spec

-----------------------------------------------------------------------------
(* Type correctness.                                                         *)

LEMMA InitTypeOK == Init => TypeOK
<1>1. /\ 1 \in Gates /\ 0 \in 0 .. NumGates /\ 0 \in 0 .. MaxChanges
      /\ 0 \in 0 .. ReadyCap /\ 0 \in 0 .. StatusCap
  BY GatesAssumption, BoundsAssumption DEF Gates
<1>2. ASSUME Init
      PROVE  /\ moverGate \in [Movers -> Gates \cup {NoGate}]
             /\ nextGate \in [Movers -> Gates \cup {NoGate}]
             /\ handler \in [pc : {"idle", "count", "fill", "swap", "announce", "spawn"},
                             gate : Gates, count : 0 .. NumGates]
             /\ gateReady \in [Gates -> BOOLEAN] /\ changing \subseteq Gates
             /\ gateChan \in [Gates -> 0 .. ReadyCap]
             /\ picks \in [Gates -> Nat]
  BY <1>1, <1>2 DEF Init
<1>3. ASSUME Init
      PROVE  /\ subs \in [Gates -> SUBSET Users] /\ assigned \in [Users -> Gates \cup {NoGate}]
             /\ pc \in [Calls -> {"start", "next", "store", "call", "returned"}]
             /\ user \in [Calls -> Users] /\ gate \in [Calls -> Gates \cup {NoGate}]
             /\ err \in [Calls -> {"none", "no gates"}]
             /\ unsubPc \in [Unsubscribers -> {"start", "delete", "call", "returned"}]
             /\ unsubUser \in [Unsubscribers -> Users]
             /\ unsubGate \in [Unsubscribers -> Gates \cup {NoGate}]
             /\ moverPc \in [Movers -> {"idle", "started", "range", "check", "next", "snapshot",
                                       "store", "release"}]
             /\ todo \in [Movers -> SUBSET Users] /\ moverUser \in [Movers -> Users]
  BY <1>3 DEF Init
<1>4. ASSUME Init
      PROVE  /\ changes \in 0 .. MaxChanges /\ status \in 0 .. StatusCap /\ ready \in 0 .. ReadyCap
             /\ enabled = Empty /\ isReady \in BOOLEAN /\ panicked \in BOOLEAN
             /\ forwarding \subseteq Gates /\ rerouted \subseteq Calls /\ forgotten \subseteq Users
  BY <1>1, <1>4 DEF Init
<1> QED
  BY <1>2, <1>3, <1>4 DEF TypeOK

\* A pick counts for a gate.
LEMMA PickCounts ==
    ASSUME RingTyped, picks \in [Gates -> Nat], Pick
    PROVE  PickedGate \in Gates \cup {NoGate} /\ picks' \in [Gates -> Nat]
<1>1. PickedGate \in Gates \cup {NoGate}
  <2>1. CASE enabled = Empty
    BY <2>1 DEF PickedGate
  <2>2. CASE enabled \in Ring
    <3>1. Picked = [len |-> enabled.len, at |-> NextAt, value |-> enabled.value]
      BY <2>2, RingShape DEF Picked
    <3> QED
      BY <2>2, <3>1, RingShape DEF PickedGate
  <2> QED
    BY <2>1, <2>2 DEF RingTyped
<1> QED
  BY <1>1 DEF Pick

MoverStates == {"idle", "started", "range", "check", "next", "snapshot", "store", "release"}

LEMMA StepTypeOK == TypeOK /\ NewsInv /\ NewsInv' /\ [Next]_vars => TypeOK'
<1> SUFFICES ASSUME TypeOK, RingTyped, RingTyped', [Next]_vars PROVE TypeOK'
  BY DEF NewsInv
<1> USE DEF gateVars, handlerVars, clusterVars, callVars, unsubVars, moverVars
<1>0. MaxChanges \in Nat /\ ReadyCap \in Nat \ {0} /\ StatusCap \in Nat \ {0}
  BY BoundsAssumption
<1>r. /\ enabled' = Empty \/ enabled' \in Ring
      /\ handler' \in [pc : {"idle", "count", "fill", "swap", "announce", "spawn"},
                       gate : Gates, count : 0 .. NumGates]
      /\ gateReady' \in [Gates -> BOOLEAN] /\ isReady' \in BOOLEAN
  BY DEF RingTyped
<1>t. /\ changes \in 0 .. MaxChanges /\ changing \subseteq Gates
      /\ gateChan \in [Gates -> 0 .. ReadyCap]
      /\ status \in 0 .. StatusCap /\ ready \in 0 .. ReadyCap
      /\ panicked \in BOOLEAN /\ picks \in [Gates -> Nat]
  BY DEF TypeOK
<1>m. /\ moverPc \in [Movers -> MoverStates] /\ moverUser \in [Movers -> Users]
      /\ moverGate \in [Movers -> Gates \cup {NoGate}] /\ nextGate \in [Movers -> Gates \cup {NoGate}]
      /\ todo \in [Movers -> SUBSET Users] /\ assigned \in [Users -> Gates \cup {NoGate}]
      /\ subs \in [Gates -> SUBSET Users]
  BY DEF TypeOK, MoverStates
<1>1. ASSUME NEW g \in Gates, GateChange(g) PROVE TypeOK'
  <2>1. changes' \in 0 .. MaxChanges /\ changing' \subseteq Gates
    BY <1>0, <1>t, <1>1 DEF GateChange
  <2> QED
    BY <1>1, <1>r, <2>1 DEF GateChange, TypeOK
<1>2. ASSUME NEW g \in Gates, GateAnnounce(g) PROVE TypeOK'
  <2>1. gateChan' \in [Gates -> 0 .. ReadyCap]
    BY <1>0, <1>t, <1>2 DEF GateAnnounce
  <2> QED
    BY <1>2, <1>r, <2>1 DEF GateAnnounce, TypeOK
<1>3. ASSUME NEW g \in Gates, ForwarderReceive(g) PROVE TypeOK'
  <2>1. gateChan' \in [Gates -> 0 .. ReadyCap]
    BY <1>0, <1>t, <1>3 DEF ForwarderReceive
  <2> QED
    BY <1>3, <1>r, <2>1 DEF ForwarderReceive, TypeOK
<1>4. ASSUME NEW g \in Gates, ForwarderSend(g) PROVE TypeOK'
  <2>1. status' \in 0 .. StatusCap
    BY <1>0, <1>t, <1>4 DEF ForwarderSend
  <2> QED
    BY <1>4, <1>r, <2>1 DEF ForwarderSend, TypeOK
<1>5. CASE TakeStatus
  <2>1. status' \in 0 .. StatusCap
    BY <1>0, <1>t, <1>5 DEF TakeStatus
  <2> QED
    BY <1>5, <1>r, <2>1 DEF TakeStatus, TypeOK
<1>6. CASE Count
  <2>1. picks' \in [Gates -> Nat]
    BY <1>t, <1>6 DEF Count
  <2> QED
    BY <1>6, <1>r, <2>1 DEF Count, TypeOK
<1>7. CASE Fill
  <2>1. panicked' \in BOOLEAN
    BY <1>t, <1>7 DEF Fill
  <2> QED
    BY <1>7, <1>r, <2>1 DEF Fill, TypeOK
<1>8. CASE Swap
  BY <1>8, <1>r DEF Swap, TypeOK
<1>9. CASE Announce
  <2>1. ready' \in 0 .. ReadyCap
    BY <1>0, <1>t, <1>9 DEF Announce
  <2> QED
    BY <1>9, <1>r, <2>1 DEF Announce, TypeOK
<1>10. ASSUME NEW m \in Movers, Spawn(m) PROVE TypeOK'
  BY <1>10, <1>r DEF Spawn, TypeOK
<1>11. CASE ReceiveReady
  <2>1. ready' \in 0 .. ReadyCap
    BY <1>0, <1>t, <1>11 DEF ReceiveReady
  <2> QED
    BY <1>11, <1>r, <2>1 DEF ReceiveReady, TypeOK
<1>12. ASSUME NEW c \in Calls, Start(c) PROVE TypeOK'
  BY <1>12, <1>r DEF Start, Goto, TypeOK
<1>13. ASSUME NEW c \in Calls, NextEnabled(c) PROVE TypeOK'
  <2>1. PickedGate \in Gates \cup {NoGate} /\ picks' \in [Gates -> Nat]
    BY <1>13, PickCounts DEF NextEnabled, TypeOK
  <2>2. /\ gate' \in [Calls -> Gates \cup {NoGate}] /\ err' \in [Calls -> {"none", "no gates"}]
        /\ pc' \in [Calls -> {"start", "next", "store", "call", "returned"}]
    <3>1. /\ gate \in [Calls -> Gates \cup {NoGate}] /\ err \in [Calls -> {"none", "no gates"}]
          /\ pc \in [Calls -> {"start", "next", "store", "call", "returned"}]
      BY DEF TypeOK
    <3> QED
      BY <1>13, <2>1, <3>1 DEF NextEnabled, Goto
  <2> QED
    BY <1>13, <1>r, <2>1, <2>2 DEF NextEnabled, TypeOK
<1>14. ASSUME NEW c \in Calls, StoreGate(c) PROVE TypeOK'
  BY <1>14, <1>r DEF StoreGate, Assignment, Goto, TypeOK
<1>15. ASSUME NEW c \in Calls, CallGate(c) PROVE TypeOK'
  BY <1>15, <1>r DEF CallGate, Goto, TypeOK
<1>16. ASSUME NEW t \in Unsubscribers, LoadAssigned(t) PROVE TypeOK'
  BY <1>16, <1>r DEF LoadAssigned, UnsubGoto, TypeOK
<1>17. ASSUME NEW t \in Unsubscribers, DeleteAssigned(t) PROVE TypeOK'
  BY <1>17, <1>r DEF DeleteAssigned, UnsubGoto, Rerouted, TypeOK
<1>18. ASSUME NEW t \in Unsubscribers, UnsubscribeGate(t) PROVE TypeOK'
  BY <1>18, <1>r DEF UnsubscribeGate, UnsubGoto, TypeOK
<1>19. ASSUME NEW m \in Movers, NEW u \in Users, Visit(m, u) PROVE TypeOK'
  <2>1. /\ moverGate' \in [Movers -> Gates \cup {NoGate}] /\ moverUser' \in [Movers -> Users]
        /\ todo' \in [Movers -> SUBSET Users] /\ moverPc' \in [Movers -> MoverStates]
    BY <1>19, <1>m DEF Visit, MoverGoto, MoverStates
  <2> QED
    BY <1>19, <1>m, <1>r, <2>1 DEF Visit, TypeOK, MoverStates
<1>20. ASSUME NEW m \in Movers, RangeDone(m) PROVE TypeOK'
  BY <1>20, <1>r DEF RangeDone, MoverGoto, TypeOK
<1>21. ASSUME NEW m \in Movers, CheckGate(m) PROVE TypeOK'
  BY <1>21, <1>r DEF CheckGate, MoverGoto, TypeOK
<1>22. ASSUME NEW m \in Movers, NextGate(m) PROVE TypeOK'
  <2>1. PickedGate \in Gates \cup {NoGate} /\ picks' \in [Gates -> Nat]
    BY <1>22, PickCounts DEF NextGate, TypeOK
  <2>2. nextGate' \in [Movers -> Gates \cup {NoGate}] /\ moverPc' \in [Movers -> MoverStates]
    BY <1>22, <1>m, <2>1 DEF NextGate, MoverGoto, MoverStates
  <2> QED
    BY <1>22, <1>m, <1>r, <2>1, <2>2 DEF NextGate, TypeOK, MoverStates
<1>23. ASSUME NEW m \in Movers, MoveSnapshot(m) PROVE TypeOK'
  <2>1. subs' \in [Gates -> SUBSET Users] /\ moverPc' \in [Movers -> MoverStates]
    <3>1. moverPc' = [moverPc EXCEPT ![m] = "store"] \/ moverPc' = [moverPc EXCEPT ![m] = "range"]
      BY <1>23 DEF MoveSnapshot, MoverGoto
    <3>2. subs' = [subs EXCEPT ![nextGate[m]] = @ \cup {moverUser[m]}]
      BY <1>23 DEF MoveSnapshot
    <3>3. moverPc' \in [Movers -> MoverStates]
      BY <1>m, <3>1 DEF MoverStates
    <3>4. PICK g \in Gates \cup {NoGate}, u \in Users : g = nextGate[m] /\ u = moverUser[m]
      BY <1>m
    <3>5. subs' = [h \in Gates |-> IF h = g THEN subs[h] \cup {u} ELSE subs[h]]
      BY <1>m, <3>2, <3>4
    <3> QED
      BY <1>m, <3>3, <3>5
  <2> QED
    BY <1>23, <1>m, <1>r, <2>1 DEF MoveSnapshot, TypeOK, MoverStates
<1>24. ASSUME NEW m \in Movers, StoreMove(m) PROVE TypeOK'
  BY <1>24, <1>r DEF StoreMove, MoverGoto, Rerouted, TypeOK
<1>25. ASSUME NEW m \in Movers, ReleaseOld(m) PROVE TypeOK'
  BY <1>25, <1>r DEF ReleaseOld, MoverGoto, TypeOK
<1>26. CASE UNCHANGED vars
  BY <1>26, <1>r DEF vars, TypeOK
<1>27. ASSUME HandlerStep PROVE TypeOK'
  BY <1>27, <1>5, <1>6, <1>7, <1>8, <1>9, <1>10 DEF HandlerStep
<1>28. ASSUME NEW m \in Movers, StartRange(m) PROVE TypeOK'
  <2>1. todo' \in [Movers -> SUBSET Users] /\ moverPc' \in [Movers -> MoverStates]
    BY <1>28, <1>m DEF StartRange, MoverGoto, MoverStates
  <2> QED
    BY <1>28, <1>m, <1>r, <2>1 DEF StartRange, TypeOK, MoverStates
<1>29. ASSUME NEW m \in Movers, MoverStep(m) PROVE TypeOK'
  BY <1>29, <1>19, <1>20, <1>21, <1>22, <1>23, <1>24, <1>25, <1>28 DEF MoverStep
<1> QED
  BY <1>1, <1>2, <1>3, <1>4, <1>11, <1>12, <1>13, <1>14, <1>15, <1>16, <1>17, <1>18, <1>26,
     <1>27, <1>29 DEF Next, ForwarderStep, CallStep, UnsubStep

\* Every variable keeps its type: the channels stay within their capacities, the
\* position of the ring within the ring, and what updateEnabled has counted
\* within the number of gates.
THEOREM TypeCorrect == Spec => []TypeOK
<1> QED
  BY InitNews, StepNews, InitTypeOK, StepTypeOK, PTL DEF Spec

-----------------------------------------------------------------------------
(* The gates' turns.                                                         *)

\* The places of a ring of n that a turn which began after place b has passed
\* when it has come to place a.
Passed(b, a, n) == IF b <= a THEN b + 1 .. a ELSE (b + 1 .. n) \cup (1 .. a)

\* The gates of the ring's places have been picked equally often, those that the
\* turn has passed once more.
InTurn(b, k) ==
    \A i \in 1 .. enabled.len :
        picks[enabled.value[i]] = IF i \in Passed(b, enabled.at, enabled.len) THEN k + 1 ELSE k

\* No gate is in the ring twice.  While the ring is being filled it holds gates
\* that the loop has seen, and none has been picked.
TurnInv ==
    /\ picks \in [Gates -> Nat]
    /\ \A i, j \in 1 .. enabled.len :
          enabled.value[i] = enabled.value[j] /\ enabled.value[i] # NoGate => i = j
    /\ handler.pc = "fill" =>
          /\ \A i \in 1 .. enabled.len : enabled.value[i] < handler.gate
          /\ \A g \in Gates : picks[g] = 0
    /\ enabled # Empty /\ (\A i \in 1 .. enabled.len : enabled.value[i] # NoGate) =>
          \E b \in 1 .. enabled.len, k \in Nat : InTurn(b, k)

\* One more place is passed, or the turn is complete.
LEMMA PassedNext ==
    ASSUME NEW n \in Nat \ {0}, NEW a \in 1 .. n, NEW b \in 1 .. n
    PROVE  LET x == (a % n) + 1 IN
           /\ x \in 1 .. n
           /\ x # b => x \notin Passed(b, a, n) /\ Passed(b, x, n) = Passed(b, a, n) \cup {x}
           /\ x = b => /\ \A i \in 1 .. n : i \in Passed(b, a, n) <=> i # b
                       /\ Passed(b, x, n) = {}
<1>1. a % n = IF a = n THEN 0 ELSE a
  OBVIOUS
<1>2. CASE a = n
  <2>1. (a % n) + 1 = 1
    BY <1>1, <1>2
  <2> QED
    BY <1>2, <2>1 DEF Passed
<1>3. CASE a # n
  <2>1. (a % n) + 1 = a + 1 /\ a + 1 \in 1 .. n
    BY <1>1, <1>3
  <2>2. a + 1 # b => a + 1 \notin Passed(b, a, n) /\ Passed(b, a + 1, n) = Passed(b, a, n) \cup {a + 1}
    BY <1>3 DEF Passed
  <2>3. a + 1 = b => /\ \A i \in 1 .. n : i \in Passed(b, a, n) <=> i # b
                     /\ Passed(b, a + 1, n) = {}
    BY <1>3 DEF Passed
  <2> QED
    BY <2>1, <2>2, <2>3
<1> QED
  BY <1>2, <1>3

LEMMA InitTurn == Init => TurnInv
<1>1. \A i \in 1 .. Empty.len : FALSE
  BY DEF Empty
<1> QED
  BY <1>1 DEF Init, TurnInv

\* A step that leaves the ring alone and begins no filling.
LEMMA OthersKeepTurn ==
    ASSUME TurnInv, UNCHANGED <<enabled, picks>>, handler'.pc = "fill" => handler' = handler
    PROVE  TurnInv'
  BY DEF TurnInv, InTurn

\* A pick goes on to the next place, whose gate has had its turn last.
LEMMA PickTurn ==
    ASSUME RingTyped, TurnInv, Pick, UNCHANGED handler PROVE TurnInv'
<1>1. /\ enabled' = Empty \/ enabled' \in Ring
      /\ enabled'.len = enabled.len /\ enabled'.value = enabled.value
      /\ handler.pc # "fill"
  BY PickKeeps
<1>2. picks' \in [Gates -> Nat] /\ \A g \in Gates : picks'[g] = IF g = PickedGate THEN picks[g] + 1 ELSE picks[g]
  BY PickCounts DEF TurnInv, Pick
<1>3. ASSUME enabled' # Empty, \A i \in 1 .. enabled'.len : enabled'.value[i] # NoGate
      PROVE  \E b \in 1 .. enabled'.len, k \in Nat : InTurn(b, k)'
  <2>1. enabled # Empty /\ enabled \in Ring
    BY <1>3 DEF Pick, RingTyped
  <2> DEFINE n == enabled.len
             a == enabled.at
             v == enabled.value
             x == (a % n) + 1
  <2>2. /\ n \in Nat \ {0} /\ a \in 1 .. n /\ v \in [1 .. n -> Gates \cup {NoGate}]
        /\ enabled' = Picked
        /\ Picked = [len |-> n, at |-> x, value |-> v]
        /\ PickedGate = v[x]
    <3>1. n \in Gates /\ a \in 1 .. n /\ v \in [1 .. n -> Gates \cup {NoGate}] /\ NextAt = x
      BY <2>1, RingShape DEF NextAt
    <3>2. Picked = [len |-> n, at |-> x, value |-> v]
      BY <2>1, <3>1, RingShape DEF Picked
    <3>3. enabled' = Picked /\ PickedGate = v[x]
      BY <2>1, <3>2 DEF Pick, PickedGate
    <3> QED
      BY <3>1, <3>2, <3>3, GatesAssumption DEF Gates
  <2>3. PICK b \in 1 .. n, k \in Nat : InTurn(b, k)
    BY <1>1, <1>3, <2>1 DEF TurnInv
  <2>4. /\ \A i \in 1 .. n : v[i] \in Gates /\ (v[i] = PickedGate <=> i = x)
        /\ x \in 1 .. n
    <3>1. x \in 1 .. n
      BY <2>2, PassedNext
    <3>2. \A i \in 1 .. n : v[i] \in Gates
      BY <1>1, <1>3, <2>2
    <3>3. \A i \in 1 .. n : v[i] = v[x] => i = x
      BY <1>1, <1>3, <3>1 DEF TurnInv
    <3> QED
      BY <2>2, <3>1, <3>2, <3>3
  <2>5. enabled'.len = n /\ enabled'.at = x /\ enabled'.value = v
    BY <2>2
  <2>6. \A i \in 1 .. n : picks[v[i]] = IF i \in Passed(b, a, n) THEN k + 1 ELSE k
    BY <2>3 DEF InTurn
  <2>7. \A i \in 1 .. n : picks'[v[i]] = IF i = x THEN picks[v[i]] + 1 ELSE picks[v[i]]
    BY <1>2, <2>4
  <2>8. /\ x # b => x \notin Passed(b, a, n) /\ Passed(b, x, n) = Passed(b, a, n) \cup {x}
        /\ x = b => /\ \A i \in 1 .. n : i \in Passed(b, a, n) <=> i # b
                    /\ Passed(b, x, n) = {}
    BY <2>2, PassedNext
  <2> HIDE DEF n, a, v, x
  <2>9. CASE x # b
    <3>1. \A i \in 1 .. n : picks'[v[i]] = IF i \in Passed(b, x, n) THEN k + 1 ELSE k
      BY <2>4, <2>6, <2>7, <2>8, <2>9
    <3>2. InTurn(b, k)'
      BY <2>5, <3>1 DEF InTurn
    <3> QED
      BY <2>5, <3>2
  <2>10. CASE x = b
    <3>1. \A i \in 1 .. n : picks'[v[i]] = IF i \in Passed(b, x, n) THEN k + 1 + 1 ELSE k + 1
      BY <2>4, <2>6, <2>7, <2>8, <2>10
    <3>2. InTurn(b, k + 1)'
      BY <2>5, <3>1 DEF InTurn
    <3>3. k + 1 \in Nat
      OBVIOUS
    <3> QED
      BY <2>5, <3>2, <3>3
  <2> QED
    BY <2>9, <2>10
<1> QED
  BY <1>1, <1>2, <1>3 DEF TurnInv

\* The first loop ends with a ring of its own and no pick.
LEMMA CountTurn ==
    ASSUME RingTyped, TurnInv, Count PROVE TurnInv'
<1>1. CASE handler.gate # NumGates
  <2>1. UNCHANGED <<enabled, picks>> /\ handler'.pc = "count"
    BY <1>1 DEF Count, After
  <2> QED
    BY <2>1, OthersKeepTurn
<1>2. CASE handler.gate = NumGates
  <2>1. PICK n : enabled' = NewRing(n) /\ n \in 0 .. NumGates
    <3>1. /\ enabled' = NewRing(handler.count + IF gateReady[handler.gate] THEN 1 ELSE 0)
          /\ handler.count \in 0 .. NumGates /\ handler.count < handler.gate
          /\ NumGates \in Nat
      BY <1>2, GatesAssumption DEF Count, RingTyped
    <3>2. handler.count + (IF gateReady[handler.gate] THEN 1 ELSE 0) \in 0 .. NumGates
      BY <1>2, <3>1
    <3> QED
      BY <3>1, <3>2
  <2>2. picks' = [g \in Gates |-> 0] /\ handler'.gate = 1
    BY <1>2 DEF Count, After
  <2>3. CASE n = 0
    <3>1. enabled' = Empty /\ \A i \in 1 .. enabled'.len : FALSE
      BY <2>1, <2>3 DEF NewRing, Empty
    <3> QED
      BY <2>2, <3>1 DEF TurnInv
  <2>4. CASE n # 0
    <3>1. n \in Gates
      BY <2>1, <2>4, GatesAssumption DEF Gates
    <3>2. enabled'.len = n /\ \A i \in 1 .. n : enabled'.value[i] = NoGate
      BY <2>1, <3>1, NewRingShape
    <3>3. 1 \in 1 .. n /\ NoGate < 1
      BY <3>1, GatesAssumption DEF Gates, NoGate
    <3> QED
      BY <2>2, <3>2, <3>3 DEF TurnInv
  <2> QED
    BY <2>1, <2>3, <2>4
<1> QED
  BY <1>1, <1>2

\* The second loop writes a gate that is not there yet.
LEMMA FillTurn ==
    ASSUME RingTyped, TurnInv, Fill PROVE TurnInv'
<1>0. /\ handler.pc = "fill" /\ handler.gate \in Gates /\ picks' = picks
      /\ NumGates \in Nat
  BY GatesAssumption DEF Fill, RingTyped
<1>1. CASE UNCHANGED <<enabled, handler>>
  BY <1>0, <1>1, OthersKeepTurn
<1>2. CASE handler' = After("fill", "swap", handler.count) /\ enabled' = enabled
  <2>1. handler'.pc = "fill" => handler'.gate = handler.gate + 1
    BY <1>2 DEF After
  <2>2. \A i \in 1 .. enabled.len : enabled.value[i] \in Nat
    <3>1. CASE enabled = Empty
      BY <3>1 DEF Empty
    <3>2. CASE enabled \in Ring
      BY <3>2, RingShape DEF Gates, NoGate
    <3> QED
      BY <3>1, <3>2 DEF RingTyped
  <2>3. handler.gate \in Nat
    BY <1>0 DEF Gates
  <2>4. \A i \in 1 .. enabled.len : enabled.value[i] < handler.gate /\ enabled.value[i] < handler.gate + 1
    BY <1>0, <2>2, <2>3 DEF TurnInv
  <2> QED
    BY <1>0, <1>2, <2>1, <2>4 DEF TurnInv, InTurn
<1>3. CASE /\ handler' = After("fill", "swap", handler.count)
           /\ enabled # Empty /\ enabled' = FilledWith(handler.gate)
  <2>0. PICK h, n, v, x :
           h = handler.gate /\ n = enabled.len /\ v = enabled.value /\ x = NextAt
    OBVIOUS
  <2>1. handler'.pc = "fill" => handler'.gate = h + 1
    BY <1>3, <2>0 DEF After
  <2>2. /\ v \in [1 .. n -> Gates \cup {NoGate}] /\ x \in 1 .. n /\ h \in Gates
        /\ enabled'.len = n /\ enabled'.at = x
        /\ enabled'.value = [v EXCEPT ![x] = h]
        /\ n \in Gates /\ enabled' \in Ring
    BY <1>0, <1>3, <2>0, RingShape, FilledWithShape DEF RingTyped
  <2>3. /\ \A i \in 1 .. n : v[i] < h
        /\ \A i, j \in 1 .. n : v[i] = v[j] /\ v[i] # NoGate => i = j
        /\ \A g \in Gates : picks[g] = 0
        /\ picks \in [Gates -> Nat]
    BY <1>0, <2>0 DEF TurnInv
  <2>4. \A i \in 1 .. n : enabled'.value[i] = IF i = x THEN h ELSE v[i]
    BY <2>2
  <2>5. h \in Nat /\ \A i \in 1 .. n : v[i] \in Nat
    BY <1>0, <2>2 DEF Gates, NoGate
  <2>6. \A i \in 1 .. n : enabled'.value[i] \in Gates \cup {NoGate}
    BY <2>2, <2>4
  <2>7. \A i \in 1 .. n : enabled'.value[i] < h + 1 /\ (i # x => enabled'.value[i] # h)
    BY <2>3, <2>4, <2>5
  <2>8. \A i, j \in 1 .. n : enabled'.value[i] = enabled'.value[j] /\ enabled'.value[i] # NoGate => i = j
    BY <2>3, <2>4, <2>7
  <2>9. ASSUME \A i \in 1 .. n : enabled'.value[i] # NoGate
        PROVE  InTurn(x, 0)'
    <3>1. Passed(x, x, n) = {}
      <4>1. x \in Int
        BY <2>2
      <4> QED
        BY <4>1 DEF Passed
    <3>2. \A i \in 1 .. n : picks[enabled'.value[i]] = 0
      BY <2>3, <2>6, <2>9
    <3> QED
      BY <1>0, <2>2, <3>1, <3>2 DEF InTurn
  <2>10. /\ picks' \in [Gates -> Nat]
         /\ \A g \in Gates : picks'[g] = 0
         /\ \A i \in 1 .. enabled'.len : handler'.pc = "fill" => enabled'.value[i] < handler'.gate
         /\ \A i, j \in 1 .. enabled'.len :
               enabled'.value[i] = enabled'.value[j] /\ enabled'.value[i] # NoGate => i = j
    BY <1>0, <2>1, <2>2, <2>3, <2>7, <2>8
  <2>11. (\A i \in 1 .. enabled'.len : enabled'.value[i] # NoGate) =>
            \E b \in 1 .. enabled'.len, k \in Nat : InTurn(b, k)'
    <3>1. x \in 1 .. enabled'.len /\ 0 \in Nat
      BY <2>2
    <3> QED
      BY <2>2, <2>9, <3>1
  <2> QED
    BY <2>10, <2>11 DEF TurnInv
<1> QED
  BY <1>1, <1>2, <1>3 DEF Fill

LEMMA StepTurn == NewsInv /\ TurnInv /\ [Next]_vars => TurnInv'
<1> SUFFICES ASSUME RingTyped, TurnInv, [Next]_vars PROVE TurnInv'
  BY DEF NewsInv
<1> USE DEF gateVars, handlerVars, clusterVars
<1>1. ASSUME NEW g \in Gates, GateChange(g) \/ GateAnnounce(g) \/ ForwarderStep(g)
      PROVE  TurnInv'
  BY <1>1, OthersKeepTurn DEF GateChange, GateAnnounce, ForwarderStep, ForwarderReceive, ForwarderSend
<1>2. CASE HandlerStep
  <2>1. CASE TakeStatus
    BY <2>1, OthersKeepTurn DEF TakeStatus, Update
  <2>2. CASE Swap
    <3>1. handler'.pc \in {"announce", "spawn"}
      BY <2>2 DEF Swap, RingTyped
    <3> QED
      BY <2>2, <3>1, OthersKeepTurn DEF Swap
  <2>3. CASE Announce \/ \E m \in Movers : Spawn(m)
    <3>1. handler'.pc \in {"spawn", "idle"}
      BY <2>3 DEF Announce, Spawn, RingTyped
    <3> QED
      BY <2>3, <3>1, OthersKeepTurn DEF Announce, Spawn
  <2> QED
    BY <1>2, <2>1, <2>2, <2>3, CountTurn, FillTurn DEF HandlerStep
<1>3. CASE ReceiveReady
  BY <1>3, OthersKeepTurn DEF ReceiveReady
<1>4. ASSUME NEW c \in Calls, Start(c) \/ CallStep(c) PROVE TurnInv'
  <2>1. CASE NextEnabled(c)
    BY <2>1, PickTurn DEF NextEnabled
  <2> QED
    BY <1>4, <2>1, OthersKeepTurn DEF Start, CallStep, StoreGate, CallGate
<1>5. ASSUME NEW t \in Unsubscribers, LoadAssigned(t) \/ UnsubStep(t) PROVE TurnInv'
  BY <1>5, OthersKeepTurn DEF LoadAssigned, UnsubStep, DeleteAssigned, UnsubscribeGate
<1>6. ASSUME NEW m \in Movers, MoverStep(m) PROVE TurnInv'
  <2>1. CASE NextGate(m)
    BY <2>1, PickTurn DEF NextGate
  <2> QED
    BY <1>6, <2>1, OthersKeepTurn
       DEF MoverStep, StartRange, Visit, RangeDone, CheckGate, MoveSnapshot, StoreMove, ReleaseOld
<1>7. CASE UNCHANGED vars
  BY <1>7, OthersKeepTurn DEF vars
<1> QED
  BY <1>1, <1>2, <1>3, <1>4, <1>5, <1>6, <1>7 DEF Next

\* From one update of the ring to the next no gate in it is picked twice more
\* than another, however first calls and movers compete for the picks: unless
\* the gates changed while updateEnabled looked at them, so that a place of
\* the ring has stayed empty.
THEOREM GatesTakeTurns == Spec => []RoundRobin
<1>1. NewsInv /\ TurnInv => RoundRobin
  <2> SUFFICES ASSUME TurnInv, enabled # Empty,
                      NoGate \notin {enabled.value[i] : i \in 1 .. enabled.len},
                      NEW i \in 1 .. enabled.len, NEW j \in 1 .. enabled.len
               PROVE  picks[enabled.value[i]] <= picks[enabled.value[j]] + 1
    BY DEF RoundRobin
  <2>1. PICK b \in 1 .. enabled.len, k \in Nat : InTurn(b, k)
    BY DEF TurnInv
  <2>2. picks[enabled.value[i]] \in {k, k + 1} /\ picks[enabled.value[j]] \in {k, k + 1}
    BY <2>1 DEF InTurn
  <2> QED
    BY <2>2
<1> QED
  BY InitNews, StepNews, InitTurn, StepTurn, <1>1, PTL DEF Spec
=============================================================================
