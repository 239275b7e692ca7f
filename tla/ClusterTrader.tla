---------------------------- MODULE ClusterTrader ----------------------------
(***************************************************************************)
(* The clusterTrader of cluster-trader.go: one Trader made of several.     *)
(*                                                                         *)
(* A gate that becomes ready or ceases to be says so on its Ready channel. *)
(* A forwarder per gate passes that on to handleReady, which rebuilds the  *)
(* ring of enabled gates, sets the cluster's own readiness and starts a    *)
(* goroutine that moves users off gates that are not ready.  A user's      *)
(* first call picks the next gate of the ring; later calls use the gate    *)
(* the user is assigned to, until Unsubscribe or a move.                   *)
(*                                                                         *)
(* A gate is a Trader: all that is seen of it is its readiness and which   *)
(* users it has subscribed.  The values on the readiness channels are left *)
(* out, since nobody in the cluster looks at them.                         *)
(***************************************************************************)
EXTENDS Naturals, FiniteSets

CONSTANTS
    NumGates,    \* len(available)
    Users,       \* user identifiers
    Calls,       \* one goroutine per operation called
    Unsubscribers, \* one goroutine per Unsubscribe
    Movers,      \* bound: goroutines of moveUsersForAvailableGates at a time
    MaxChanges,  \* bound: changes of the gates' readiness
    ReadyCap,    \* capacity of a gate's and of the cluster's ready channel
    StatusCap,   \* capacity of statusChanged
    Faults       \* may the GetSnapshot of a move fail?

Gates == 1 .. NumGates
NoGate == 0  \* nil

ASSUME GatesAssumption == NumGates \in Nat \ {0}
ASSUME BoundsAssumption ==
    /\ MaxChanges \in Nat
    /\ ReadyCap \in Nat \ {0}
    /\ StatusCap \in Nat \ {0}
    /\ Faults \in BOOLEAN

VARIABLES
    \* the gates
    gateReady,   \* IsReady
    changing,    \* gates that have changed isReady and not yet said so
    gateChan,    \* values in a gate's Ready channel
    subs,        \* users a gate has subscribed
    changes,     \* history: changes so far
    \* the cluster
    enabled,     \* the ring: its length, the element c.enabled points at, the values
    isReady, ready, \* the cluster's readiness, and the values in its ready channel
    assigned,    \* a user's gate
    \* handleReady and its forwarders
    forwarding,  \* gates whose forwarder has a value to pass on
    status,      \* values in statusChanged
    handler,     \* handleReady: where it is, the gate it looks at, enabledCount
    panicked,    \* updateEnabled has dereferenced a nil ring
    \* goroutines
    pc, user, gate, err, \* of a call
    unsubPc, unsubUser, unsubGate,
    moverPc, todo, moverUser, moverGate, nextGate,
    \* history
    rerouted,    \* calls whose user was moved or unsubscribed after they got a gate
    picks,       \* how often a gate was picked from the present ring
    forgotten    \* users that were unsubscribed and not called for since

gateVars == <<gateReady, changing, gateChan, changes>>
clusterVars == <<isReady, ready>>
handlerVars == <<forwarding, status, handler, panicked>>
callVars == <<pc, user, gate, err>>
unsubVars == <<unsubPc, unsubUser, unsubGate>>
moverVars == <<moverPc, todo, moverUser, moverGate, nextGate>>
vars == <<gateVars, subs, enabled, clusterVars, assigned, handlerVars, callVars, unsubVars,
          moverVars, rerouted, picks, forgotten>>

Ring == UNION {[len : {n}, at : 1 .. n, value : [1 .. n -> Gates \cup {NoGate}]] : n \in Gates}
\* ring.New(0) is nil.
Empty == [len |-> 0, at |-> 0, value |-> <<>>]

TypeOK ==
    /\ gateReady \in [Gates -> BOOLEAN]
    /\ changing \subseteq Gates
    /\ gateChan \in [Gates -> 0 .. ReadyCap]
    /\ subs \in [Gates -> SUBSET Users]
    /\ changes \in 0 .. MaxChanges
    /\ enabled = Empty \/ enabled \in Ring
    /\ isReady \in BOOLEAN
    /\ ready \in 0 .. ReadyCap
    /\ assigned \in [Users -> Gates \cup {NoGate}]
    /\ forwarding \subseteq Gates
    /\ status \in 0 .. StatusCap
    /\ handler \in [pc : {"idle", "count", "fill", "swap", "announce", "spawn"},
                    gate : Gates, count : 0 .. NumGates]
    /\ panicked \in BOOLEAN
    /\ pc \in [Calls -> {"start", "next", "store", "call", "returned"}]
    /\ user \in [Calls -> Users]
    /\ gate \in [Calls -> Gates \cup {NoGate}]
    /\ err \in [Calls -> {"none", "no gates"}]
    /\ unsubPc \in [Unsubscribers -> {"start", "delete", "call", "returned"}]
    /\ unsubUser \in [Unsubscribers -> Users]
    /\ unsubGate \in [Unsubscribers -> Gates \cup {NoGate}]
    /\ moverPc \in [Movers -> {"idle", "started", "range", "check", "next", "snapshot", "store",
                            "release"}]
    /\ todo \in [Movers -> SUBSET Users]
    /\ moverUser \in [Movers -> Users]
    /\ {moverGate, nextGate} \subseteq [Movers -> Gates \cup {NoGate}]
    /\ rerouted \subseteq Calls
    /\ picks \in [Gates -> Nat]
    /\ forgotten \subseteq Users

Init ==
    /\ gateReady \in [Gates -> BOOLEAN]
    \* a gate that is ready already has said so once
    /\ changing = {g \in Gates : gateReady[g]}
    /\ gateChan = [g \in Gates |-> 0]
    /\ subs = [g \in Gates |-> {}]
    /\ changes = 0
    /\ enabled = Empty
    /\ isReady = FALSE
    /\ ready = 0
    /\ assigned = [u \in Users |-> NoGate]
    /\ forwarding = {}
    /\ status = 0
    /\ handler = [pc |-> "idle", gate |-> 1, count |-> 0]
    /\ panicked = FALSE
    /\ pc = [c \in Calls |-> "start"]
    /\ user \in [Calls -> Users]
    /\ gate = [c \in Calls |-> NoGate]
    /\ err = [c \in Calls |-> "none"]
    /\ unsubPc = [t \in Unsubscribers |-> "start"]
    /\ unsubUser \in [Unsubscribers -> Users]
    /\ unsubGate = [t \in Unsubscribers |-> NoGate]
    /\ moverPc = [m \in Movers |-> "idle"]
    /\ todo = [m \in Movers |-> {}]
    /\ moverUser \in [Movers -> Users]
    /\ moverGate = [m \in Movers |-> NoGate]
    /\ nextGate = [m \in Movers |-> NoGate]
    /\ rerouted = {}
    /\ picks = [g \in Gates |-> 0]
    /\ forgotten = {}

-----------------------------------------------------------------------------
(* The gates: setReady of a zmqTrader, run by its handleReady.               *)

\* The readiness changes first ...
GateChange(g) ==
    /\ changes < MaxChanges
    /\ g \notin changing
    /\ gateReady' = [gateReady EXCEPT ![g] = ~@]
    /\ changing' = changing \cup {g}
    /\ changes' = changes + 1
    /\ UNCHANGED <<gateChan, subs, enabled, clusterVars, assigned, handlerVars, callVars,
                   unsubVars, moverVars, rerouted, picks, forgotten>>

\* ... and then the channel gets the value, or drops it if it is full.
GateAnnounce(g) ==
    /\ g \in changing
    /\ changing' = changing \ {g}
    /\ gateChan' = [gateChan EXCEPT ![g] = IF @ < ReadyCap THEN @ + 1 ELSE @]
    /\ UNCHANGED <<gateReady, changes, subs, enabled, clusterVars, assigned, handlerVars,
                   callVars, unsubVars, moverVars, rerouted, picks, forgotten>>

-----------------------------------------------------------------------------
(* handleReady, its forwarders and updateEnabled.                            *)

ForwarderReceive(g) ==
    /\ g \notin forwarding
    /\ gateChan[g] > 0
    /\ gateChan' = [gateChan EXCEPT ![g] = @ - 1]
    /\ forwarding' = forwarding \cup {g}
    /\ UNCHANGED <<gateReady, changing, changes, subs, enabled, clusterVars, assigned, status,
                   handler, panicked, callVars, unsubVars, moverVars, rerouted, picks, forgotten>>

ForwarderSend(g) ==
    /\ g \in forwarding
    /\ status < StatusCap
    /\ forwarding' = forwarding \ {g}
    /\ status' = status + 1
    /\ UNCHANGED <<gateVars, subs, enabled, clusterVars, assigned, handler, panicked, callVars,
                   unsubVars, moverVars, rerouted, picks, forgotten>>

MutantUpdate == [pc |-> "count", gate |-> 1, count |-> handler.count]
\* updateEnabled begins: it takes mx and looks at the first gate.
Update == [pc |-> "count", gate |-> 1, count |-> 0]

TakeStatus ==
    /\ handler.pc = "idle"
    /\ status > 0
    /\ status' = status - 1
    /\ handler' = Update
    /\ UNCHANGED <<gateVars, subs, enabled, clusterVars, assigned, forwarding, panicked,
                   callVars, unsubVars, moverVars, rerouted, picks, forgotten>>

\* updateEnabled holds mx through both of its loops.
MutexFree == handler.pc \notin {"count", "fill"}
\* The loops go over the gates in order.
After(phase, next, n) ==
    [pc |-> IF handler.gate = NumGates THEN next ELSE phase,
     gate |-> IF handler.gate = NumGates THEN 1 ELSE handler.gate + 1, count |-> n]

NewRing(n) ==
    IF n = 0 THEN Empty ELSE [len |-> n, at |-> 1, value |-> [i \in 1 .. n |-> NoGate]]

\* The first loop counts the gates that are ready; the new ring has that size.
Count ==
    LET n == handler.count + IF gateReady[handler.gate] THEN 1 ELSE 0 IN
    /\ handler.pc = "count"
    /\ handler' = After("count", "fill", n)
    /\ enabled' = IF handler.gate = NumGates THEN NewRing(n) ELSE enabled
    /\ picks' = IF handler.gate = NumGates THEN [g \in Gates |-> 0] ELSE picks
    /\ UNCHANGED <<gateVars, subs, clusterVars, assigned, forwarding, status, panicked,
                   callVars, unsubVars, moverVars, rerouted, forgotten>>

NextAt == (enabled.at % enabled.len) + 1

MutantFilledWith(g) == [enabled EXCEPT !.value[enabled.at] = g]
\* The ring after c.enabled = c.enabled.Next() and c.enabled.Value = client.
FilledWith(g) == [enabled EXCEPT !.at = NextAt, !.value[NextAt] = g]

\* The second loop asks every gate again.
Fill ==
    /\ handler.pc = "fill"
    /\ \/ /\ ~gateReady[handler.gate]
          /\ handler' = After("fill", "swap", handler.count)
          /\ UNCHANGED <<enabled, panicked>>
       \/ /\ gateReady[handler.gate]
          /\ enabled # Empty
          /\ enabled' = FilledWith(handler.gate)
          /\ handler' = After("fill", "swap", handler.count)
          /\ UNCHANGED panicked
       \/ /\ gateReady[handler.gate]
          /\ enabled = Empty  \* Next() of a nil ring
          /\ panicked' = TRUE
          /\ UNCHANGED <<enabled, handler>>
    /\ UNCHANGED <<gateVars, subs, clusterVars, assigned, forwarding, status, callVars,
                   unsubVars, moverVars, rerouted, picks, forgotten>>

\* setReady of the cluster: a change of isReady is announced ...
Swap ==
    /\ handler.pc = "swap"
    /\ isReady' = (handler.count > 0)
    /\ handler' = [handler EXCEPT !.pc = IF isReady' # isReady THEN "announce" ELSE "spawn"]
    /\ UNCHANGED <<gateVars, subs, enabled, ready, assigned, forwarding, status, panicked,
                   callVars, unsubVars, moverVars, rerouted, picks, forgotten>>

\* ... unless the ready channel is full.
Announce ==
    /\ handler.pc = "announce"
    /\ ready' = IF ready < ReadyCap THEN ready + 1 ELSE ready
    /\ handler' = [handler EXCEPT !.pc = "spawn"]
    /\ UNCHANGED <<gateVars, subs, enabled, isReady, assigned, forwarding, status, panicked,
                   callVars, unsubVars, moverVars, rerouted, picks, forgotten>>

\* The user of the cluster looks at its Ready channel.
ReceiveReady ==
    /\ ready > 0
    /\ ready' = ready - 1
    /\ UNCHANGED <<gateVars, subs, enabled, isReady, assigned, handlerVars, callVars,
                   unsubVars, moverVars, rerouted, picks, forgotten>>

\* go c.moveUsersForAvailableGates().
Spawn(m) ==
    /\ handler.pc = "spawn"
    /\ moverPc[m] = "idle"
    /\ handler' = [handler EXCEPT !.pc = "idle"]
    /\ moverPc' = [moverPc EXCEPT ![m] = "started"]
    /\ UNCHANGED <<gateVars, subs, enabled, clusterVars, assigned, forwarding, status, panicked,
                   callVars, unsubVars, todo, moverUser, moverGate, nextGate, rerouted, picks,
                   forgotten>>

-----------------------------------------------------------------------------
(* getNextEnabled and getGate.                                               *)

MutantPicked == enabled
\* The ring once getNextEnabled has gone one element on, and what is there.
Picked == [enabled EXCEPT !.at = NextAt]
PickedGate == IF enabled = Empty THEN NoGate ELSE Picked.value[Picked.at]

\* getNextEnabled, in a critical section of its own.
Pick ==
    /\ MutexFree
    /\ enabled' = IF enabled = Empty THEN enabled ELSE Picked
    /\ picks' = [g \in Gates |-> IF g = PickedGate THEN picks[g] + 1 ELSE picks[g]]

Goto(c, from, to) == pc[c] = from /\ pc' = [pc EXCEPT ![c] = to]

\* getGate: assigned.Load.
Start(c) ==
    LET u == user[c] IN
    /\ Goto(c, "start", IF assigned[u] = NoGate THEN "next" ELSE "call")
    /\ gate' = [gate EXCEPT ![c] = assigned[u]]
    /\ forgotten' = forgotten \ {u}
    /\ UNCHANGED <<gateVars, subs, enabled, clusterVars, assigned, handlerVars, user, err,
                   unsubVars, moverVars, rerouted, picks>>

NextEnabled(c) ==
    /\ Pick
    /\ \/ /\ PickedGate # NoGate
          /\ Goto(c, "next", "store")
          /\ gate' = [gate EXCEPT ![c] = PickedGate]
          /\ UNCHANGED err
       \/ /\ PickedGate = NoGate
          /\ Goto(c, "next", "returned")
          /\ err' = [err EXCEPT ![c] = "no gates"]
          /\ UNCHANGED gate
    /\ UNCHANGED <<gateVars, subs, clusterVars, assigned, handlerVars, user, unsubVars,
                   moverVars, rerouted, forgotten>>

MutantAssignment(c) == gate[c]
\* assigned.LoadOrStore: the first call of a user decides.
Assignment(c) == IF assigned[user[c]] = NoGate THEN gate[c] ELSE assigned[user[c]]

StoreGate(c) ==
    /\ Goto(c, "store", "call")
    /\ assigned' = [assigned EXCEPT ![user[c]] = Assignment(c)]
    /\ gate' = [gate EXCEPT ![c] = Assignment(c)]
    /\ UNCHANGED <<gateVars, subs, enabled, clusterVars, handlerVars, user, err, unsubVars,
                   moverVars, rerouted, picks, forgotten>>

\* The operation itself, which subscribes the user at the gate.
CallGate(c) ==
    /\ Goto(c, "call", "returned")
    /\ subs' = [subs EXCEPT ![gate[c]] = @ \cup {user[c]}]
    /\ rerouted' = rerouted \ {c}
    /\ UNCHANGED <<gateVars, enabled, clusterVars, assigned, handlerVars, user, gate, err,
                   unsubVars, moverVars, picks, forgotten>>

\* The calls that are about to use the gate that user u has had.
Rerouted(u) == {c \in Calls : pc[c] = "call" /\ user[c] = u}

-----------------------------------------------------------------------------
(* Unsubscribe.                                                              *)

UnsubGoto(t, from, to) == unsubPc[t] = from /\ unsubPc' = [unsubPc EXCEPT ![t] = to]

LoadAssigned(t) ==
    LET u == unsubUser[t] IN
    /\ UnsubGoto(t, "start", IF assigned[u] = NoGate THEN "returned" ELSE "delete")
    /\ unsubGate' = [unsubGate EXCEPT ![t] = assigned[u]]
    /\ forgotten' = IF \A c \in Calls : user[c] = u => pc[c] \in {"start", "returned"}
                    THEN forgotten \cup {u} ELSE forgotten
    /\ UNCHANGED <<gateVars, subs, enabled, clusterVars, assigned, handlerVars, callVars,
                   unsubUser, moverVars, rerouted, picks>>

DeleteAssigned(t) ==
    LET u == unsubUser[t] IN
    /\ UnsubGoto(t, "delete", "call")
    /\ assigned' = [assigned EXCEPT ![u] = NoGate]
    /\ rerouted' = rerouted \cup Rerouted(u)
    /\ UNCHANGED <<gateVars, subs, enabled, clusterVars, handlerVars, callVars, unsubUser,
                   unsubGate, moverVars, picks, forgotten>>

UnsubscribeGate(t) ==
    /\ UnsubGoto(t, "call", "returned")
    /\ subs' = [subs EXCEPT ![unsubGate[t]] = @ \ {unsubUser[t]}]
    /\ UNCHANGED <<gateVars, enabled, clusterVars, assigned, handlerVars, callVars, unsubUser,
                   unsubGate, moverVars, rerouted, picks, forgotten>>

-----------------------------------------------------------------------------
(* moveUsersForAvailableGates.                                               *)

MoverGoto(m, from, to) == moverPc[m] = from /\ moverPc' = [moverPc EXCEPT ![m] = to]

\* The goroutine runs: Range will come to the users assigned now, and may come to
\* others that are stored while it goes on.
StartRange(m) ==
    /\ MoverGoto(m, "started", "range")
    /\ \E S \in SUBSET Users :
          /\ {u \in Users : assigned[u] # NoGate} \subseteq S
          /\ todo' = [todo EXCEPT ![m] = S]
    /\ UNCHANGED <<gateVars, subs, enabled, clusterVars, assigned, handlerVars, callVars,
                   unsubVars, moverUser, moverGate, nextGate, rerouted, picks, forgotten>>

\* Range goes on to a user, in an order of its own, and loads its gate; a user
\* deleted meanwhile is skipped.
Visit(m, u) ==
    /\ u \in todo[m]
    /\ MoverGoto(m, "range", IF assigned[u] = NoGate THEN "range" ELSE "check")
    /\ todo' = [todo EXCEPT ![m] = @ \ {u}]
    /\ moverUser' = [moverUser EXCEPT ![m] = u]
    /\ moverGate' = [moverGate EXCEPT ![m] = assigned[u]]
    /\ UNCHANGED <<gateVars, subs, enabled, clusterVars, assigned, handlerVars, callVars,
                   unsubVars, nextGate, rerouted, picks, forgotten>>

RangeDone(m) ==
    /\ todo[m] = {}
    /\ MoverGoto(m, "range", "idle")
    /\ UNCHANGED <<gateVars, subs, enabled, clusterVars, assigned, handlerVars, callVars,
                   unsubVars, todo, moverUser, moverGate, nextGate, rerouted, picks, forgotten>>

CheckGate(m) ==
    /\ MoverGoto(m, "check", IF gateReady[moverGate[m]] THEN "range" ELSE "next")
    /\ UNCHANGED <<gateVars, subs, enabled, clusterVars, assigned, handlerVars, callVars,
                   unsubVars, todo, moverUser, moverGate, nextGate, rerouted, picks, forgotten>>

\* Without a gate to move to, the mover gives up altogether.
NextGate(m) ==
    /\ Pick
    /\ MoverGoto(m, "next", IF PickedGate = NoGate THEN "idle" ELSE "snapshot")
    /\ nextGate' = [nextGate EXCEPT ![m] = PickedGate]
    /\ UNCHANGED <<gateVars, subs, clusterVars, assigned, handlerVars, callVars, unsubVars,
                   todo, moverUser, moverGate, rerouted, forgotten>>

\* GetSnapshot of the new gate; when it fails the user stays where it is.
MoveSnapshot(m) ==
    /\ \/ MoverGoto(m, "snapshot", "store")
       \/ Faults /\ MoverGoto(m, "snapshot", "range")
    /\ subs' = [subs EXCEPT ![nextGate[m]] = @ \cup {moverUser[m]}]
    /\ UNCHANGED <<gateVars, enabled, clusterVars, assigned, handlerVars, callVars, unsubVars,
                   todo, moverUser, moverGate, nextGate, rerouted, picks, forgotten>>

StoreMove(m) ==
    LET u == moverUser[m] IN
    /\ MoverGoto(m, "store", "release")
    /\ assigned' = [assigned EXCEPT ![u] = nextGate[m]]
    /\ rerouted' = rerouted \cup Rerouted(u)
    /\ UNCHANGED <<gateVars, subs, enabled, clusterVars, handlerVars, callVars, unsubVars,
                   todo, moverUser, moverGate, nextGate, picks, forgotten>>

ReleaseOld(m) ==
    /\ MoverGoto(m, "release", "range")
    /\ subs' = [subs EXCEPT ![moverGate[m]] = @ \ {moverUser[m]}]
    /\ UNCHANGED <<gateVars, enabled, clusterVars, assigned, handlerVars, callVars, unsubVars,
                   todo, moverUser, moverGate, nextGate, rerouted, picks, forgotten>>

-----------------------------------------------------------------------------
ForwarderStep(g) == ForwarderReceive(g) \/ ForwarderSend(g)
HandlerStep ==
    TakeStatus \/ Count \/ Fill \/ Swap \/ Announce \/ \E m \in Movers : Spawn(m)
CallStep(c) == NextEnabled(c) \/ StoreGate(c) \/ CallGate(c)
UnsubStep(t) == DeleteAssigned(t) \/ UnsubscribeGate(t)
MoverStep(m) ==
    \/ \E u \in Users : Visit(m, u)
    \/ StartRange(m) \/ RangeDone(m) \/ CheckGate(m) \/ NextGate(m) \/ MoveSnapshot(m) \/ StoreMove(m)
    \/ ReleaseOld(m)

Next ==
    /\ ~panicked
    /\ \/ \E g \in Gates : GateChange(g) \/ GateAnnounce(g) \/ ForwarderStep(g)
       \/ HandlerStep
       \/ ReceiveReady
       \/ \E c \in Calls : Start(c) \/ CallStep(c)
       \/ \E t \in Unsubscribers : LoadAssigned(t) \/ UnsubStep(t)
       \/ \E m \in Movers : MoverStep(m)

Spec == Init /\ [][Next]_vars

\* Goroutines that can run do run: the announcements, the forwarders, the
\* handler, what has been called, and the movers, whose GetSnapshot has a
\* timeout.  No gate has to change, and nobody has to call or to read Ready.
Fairness ==
    /\ \A g \in Gates : WF_vars(~panicked /\ GateAnnounce(g)) /\ WF_vars(~panicked /\ ForwarderStep(g))
    /\ WF_vars(~panicked /\ HandlerStep)
    /\ \A c \in Calls : WF_vars(~panicked /\ CallStep(c))
    /\ \A t \in Unsubscribers : WF_vars(~panicked /\ UnsubStep(t))
    /\ \A m \in Movers : WF_vars(~panicked /\ MoverStep(m))

FairSpec == Spec /\ Fairness

-----------------------------------------------------------------------------
(* Properties.                                                               *)

\* Every ready gate is in the ring once, and nothing else is.
RingExact ==
    LET readyGates == {g \in Gates : gateReady[g]} IN
    /\ enabled.len = Cardinality(readyGates)
    /\ {enabled.value[i] : i \in 1 .. enabled.len} = readyGates

\* A change that updateEnabled is still to hear of.
NewsUnderWay ==
    status > 0 \/ \E g \in Gates : g \in changing \/ g \in forwarding \/ gateChan[g] > 0

\* No change of a gate is lost, although full channels drop some and the two
\* loops of updateEnabled may see different gates: whenever the ring is not
\* the set of ready gates or isReady does not say whether there is one,
\* another update is to come.
NoLostReadiness ==
    handler.pc \in {"idle", "spawn"} /\ ~NewsUnderWay =>
        RingExact /\ isReady = (\E g \in Gates : gateReady[g])

\* A call goes to the gate that its user is assigned to, also when several
\* first calls of the user run at once, unless the user was moved or
\* unsubscribed after the call had its gate.
CallUsesAssigned ==
    \A c \in Calls \ rerouted : pc[c] = "call" => gate[c] = assigned[user[c]]

\* As long as the ring is exact the gates are picked in turn.
RoundRobin ==
    MutexFree /\ enabled # Empty /\ NoGate \notin {enabled.value[i] : i \in 1 .. enabled.len} =>
        \A i, j \in 1 .. enabled.len : picks[enabled.value[i]] <= picks[enabled.value[j]] + 1

\* Once the gates stop changing the ring and the readiness settle.
Settles ==
    <>[](panicked \/ (RingExact /\ isReady = (\E g \in Gates : gateReady[g])))

\* "update enabled (ready for serve) list of trading gates" (cluster-trader.go:155)
\* works whatever the gates do meanwhile.
UpdateNeverPanics == ~panicked

\* The list of gates ready to serve (cluster-trader.go:155) holds gates only, so
\* that a call finds one as long as the list is not empty.
EnabledAreGates ==
    MutexFree => NoGate \notin {enabled.value[i] : i \in 1 .. enabled.len}

\* "move each user one by one to prevent degradation latency of core trading
\* gate" (cluster-trader.go:130).
MovesOneByOne ==
    \A m, n \in Movers : moverPc[m] = "snapshot" /\ moverPc[n] = "snapshot" => m = n

\* After Unsubscribe a user has no gate until somebody calls for it again
\* (cluster-trader_internal_test.go:149).
UnsubscribedIsForgotten ==
    \A u \in forgotten :
        /\ \A t \in Unsubscribers : unsubPc[t] \in {"start", "returned"}
        /\ \A m \in Movers : moverPc[m] = "idle"
        => assigned[u] = NoGate

\* When nothing is under way, a user is subscribed at the gate it is assigned to
\* (cluster-trader.go:142 to 146): the gate tells it about its orders.
AssignedIsSubscribed ==
    /\ \A c \in Calls : pc[c] \in {"start", "returned"}
    /\ \A t \in Unsubscribers : unsubPc[t] \in {"start", "returned"}
    /\ \A m \in Movers : moverPc[m] = "idle"
    => \A u \in Users : assigned[u] # NoGate => u \in subs[assigned[u]]

\* Nobody stays at a gate that has ceased to be ready while there is another
\* (cluster-trader_internal_test.go:113).
UsersLeaveDeadGates ==
    \A u \in Users :
        <>[](\/ panicked
             \/ assigned[u] = NoGate
             \/ gateReady[assigned[u]]
             \/ \A g \in Gates : ~gateReady[g])
=============================================================================
