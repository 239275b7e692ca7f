------------------------------ MODULE GateReady ------------------------------
(***************************************************************************)
(* How a gate comes to be ready: the two connections (zmq-push.go,         *)
(* zmq-xsub.go), the monitors of their sockets (zmq-monitor.go), the       *)
(* canary orders and the handleReady goroutine of zmq-trader.go.           *)
(*                                                                         *)
(* Each connection keeps a flag and sends every change of it into a        *)
(* channel.  The push flag follows the monitor.  The xsub flag is cleared  *)
(* by the monitor and set by every message read.  handleReady waits for    *)
(* news of a connection or of a canary order, then reads both flags and    *)
(* isCanaryTrade again.  The gate's own ready channel, which it then feeds *)
(* when the outcome changed, is the subject of ClusterTrader.              *)
(***************************************************************************)
EXTENDS Naturals, Sequences

CONSTANTS
    Spawned,     \* bound: goroutines `go c.canaryTest()' at a time
    Loop,        \* the goroutine canaryTestLoop
    MaxChanges,  \* bound: changes of the network and of the gate
    MaxInbox,    \* bound: messages in the xsub socket
    ReadyCap     \* capacity of a connection's ready channel

ASSUME LoopAssumption == Loop \notin Spawned
ASSUME BoundsAssumption ==
    /\ MaxChanges \in Nat
    /\ MaxInbox \in Nat
    /\ ReadyCap \in Nat \ {0}

Conns == {"push", "xsub"}
\* The goroutines that call setReady of a connection.
Announcers == {"push", "monitor", "reader"}
Tests == Spawned \cup {Loop}

VARIABLES
    \* the network and the gate
    link,        \* which connections stand
    trading,     \* does the gate take orders?
    events,      \* events of a socket its monitor has not seen: connected (TRUE), closed
    inbox,       \* messages in the xsub socket
    changes,     \* history: changes so far
    \* the connections
    connReady,   \* isReady of a connection
    connChan,    \* ready of a connection
    announcing,  \* what setReady has swapped in and not yet sent, at most one value
    panicked,    \* a ready channel was full
    closed,      \* history: was `closed' the last the xsub monitor had to say?
    \* the canary
    isCanaryTrade,
    testPc, result, \* of a canaryTest
    \* handleReady
    handler, ready, \* where it is, and the conjunction as far as evaluated
    isReady

netVars == <<link, trading, events, inbox, changes>>
connVars == <<connReady, connChan, announcing, panicked, closed>>
canaryVars == <<isCanaryTrade, testPc, result>>
handlerVars == <<handler, ready, isReady>>
vars == <<netVars, connVars, canaryVars, handlerVars>>

TypeOK ==
    /\ link \in [Conns -> BOOLEAN]
    /\ trading \in BOOLEAN
    /\ events \in [Conns -> Seq(BOOLEAN)]
    /\ inbox \in 0 .. MaxInbox
    /\ changes \in 0 .. MaxChanges
    /\ connReady \in [Conns -> BOOLEAN]
    /\ connChan \in [Conns -> Seq(BOOLEAN)]
    /\ \A k \in Conns : Len(connChan[k]) <= ReadyCap
    /\ announcing \in [Announcers -> Seq(BOOLEAN)]
    /\ \A g \in Announcers : Len(announcing[g]) <= 1
    /\ panicked \in BOOLEAN
    /\ closed \in BOOLEAN
    /\ isCanaryTrade \in BOOLEAN
    /\ testPc \in [Tests -> {"idle", "tick", "call", "compare", "store", "send"}]
    /\ \A t \in Spawned : testPc[t] # "tick"
    /\ result \in [Tests -> BOOLEAN]
    /\ handler \in {"select", "push", "xsub", "canary", "publish"}
    /\ ready \in BOOLEAN
    /\ isReady \in BOOLEAN

Init ==
    \* the sockets connect while, or after, the client is created
    /\ link \in [Conns -> BOOLEAN]
    /\ trading \in BOOLEAN
    /\ events = [k \in Conns |-> IF link[k] THEN <<TRUE>> ELSE <<>>]
    /\ inbox = 0
    /\ changes = 0
    /\ connReady = [k \in Conns |-> FALSE]
    /\ connChan = [k \in Conns |-> <<>>]
    /\ announcing = [g \in Announcers |-> <<>>]
    /\ panicked = FALSE
    /\ closed = FALSE
    /\ isCanaryTrade = FALSE
    /\ testPc = [t \in Tests |-> "idle"]
    /\ result = [t \in Tests |-> FALSE]
    /\ handler = "select"
    /\ ready = FALSE
    /\ isReady = FALSE

-----------------------------------------------------------------------------
(* The network and the gate.                                                 *)

Change == changes < MaxChanges /\ changes' = changes + 1

\* A connection is made: EVENT_CONNECTED.
Connect(k) ==
    /\ ~link[k]
    /\ Change
    /\ link' = [link EXCEPT ![k] = TRUE]
    /\ events' = [events EXCEPT ![k] = Append(@, TRUE)]
    /\ UNCHANGED <<trading, inbox, connVars, canaryVars, handlerVars>>

\* A connection breaks.  The event for that is none the monitor passes on.
Break(k) ==
    /\ link[k]
    /\ Change
    /\ link' = [link EXCEPT ![k] = FALSE]
    /\ UNCHANGED <<trading, events, inbox, connVars, canaryVars, handlerVars>>

\* An attempt to connect again fails: EVENT_CLOSED.
RetryFails(k) ==
    /\ ~link[k]
    /\ Change
    /\ events' = [events EXCEPT ![k] = Append(@, FALSE)]
    /\ UNCHANGED <<link, trading, inbox, connVars, canaryVars, handlerVars>>

\* The gate sends a heartbeat, or anything else.  What has arrived stays in
\* the socket when the connection breaks.
GateMessage ==
    /\ link["xsub"]
    /\ inbox < MaxInbox
    /\ inbox' = inbox + 1
    /\ UNCHANGED <<link, trading, events, changes, connVars, canaryVars, handlerVars>>

\* The gate starts or stops taking orders.
GateTrading ==
    /\ Change
    /\ trading' = ~trading
    /\ UNCHANGED <<link, events, inbox, connVars, canaryVars, handlerVars>>

-----------------------------------------------------------------------------
(* The connections: the swap of setReady and then its send.                  *)

SetReady(k, g, val) ==
    /\ announcing[g] = <<>>
    /\ connReady' = [connReady EXCEPT ![k] = val]
    /\ announcing' = [announcing EXCEPT ![g] = IF connReady[k] = val THEN <<>> ELSE <<val>>]
    /\ UNCHANGED <<connChan, panicked>>

\* runSocketMonitor passes an event on, and the push connection takes it.
PushStatus ==
    /\ events["push"] # <<>>
    /\ events' = [events EXCEPT !["push"] = Tail(@)]
    /\ SetReady("push", "push", Head(events["push"]))
    /\ UNCHANGED <<link, trading, inbox, changes, closed, canaryVars, handlerVars>>

\* The xsub connection takes an event: only `closed' changes its flag.
MonitorStatus ==
    /\ events["xsub"] # <<>>
    /\ announcing["monitor"] = <<>>
    /\ events' = [events EXCEPT !["xsub"] = Tail(@)]
    /\ closed' = ~Head(events["xsub"])
    /\ IF Head(events["xsub"])
       THEN UNCHANGED <<connReady, announcing, connChan, panicked>>
       ELSE SetReady("xsub", "monitor", FALSE)
    /\ UNCHANGED <<link, trading, inbox, changes, canaryVars, handlerVars>>

\* readMessages takes a message.
ReadMessage ==
    /\ inbox > 0
    /\ inbox' = inbox - 1
    /\ SetReady("xsub", "reader", TRUE)
    /\ UNCHANGED <<link, trading, events, changes, closed, canaryVars, handlerVars>>

ConnOf(g) == IF g = "push" THEN "push" ELSE "xsub"

\* Mutant: room for one value more than there is.
MutantAnnounce(g) ==
    LET k == ConnOf(g) IN
    /\ announcing[g] # <<>>
    /\ announcing' = [announcing EXCEPT ![g] = <<>>]
    /\ Len(connChan[k]) <= ReadyCap
    /\ connChan' = [connChan EXCEPT ![k] = Append(@, Head(announcing[g]))]
    /\ UNCHANGED <<panicked, connReady, closed, netVars, canaryVars, handlerVars>>

\* The send of setReady.
Announce(g) ==
    LET k == ConnOf(g) IN
    /\ announcing[g] # <<>>
    /\ announcing' = [announcing EXCEPT ![g] = <<>>]
    /\ IF Len(connChan[k]) < ReadyCap
       THEN /\ connChan' = [connChan EXCEPT ![k] = Append(@, Head(announcing[g]))]
            /\ UNCHANGED panicked
       ELSE /\ panicked' = TRUE
            /\ UNCHANGED connChan
    /\ UNCHANGED <<connReady, closed, netVars, canaryVars, handlerVars>>

-----------------------------------------------------------------------------
(* The canary orders.                                                        *)

\* Mutant: the loop goes on only while canary orders pass.
MutantTick ==
    /\ testPc[Loop] = "idle"
    /\ connReady["push"] /\ isCanaryTrade
    /\ testPc' = [testPc EXCEPT ![Loop] = "tick"]
    /\ UNCHANGED <<isCanaryTrade, result, netVars, connVars, handlerVars>>

\* canaryTestLoop looks at the two flags, one after the other.
Tick ==
    /\ testPc[Loop] = "idle"
    /\ connReady["push"]
    /\ testPc' = [testPc EXCEPT ![Loop] = "tick"]
    /\ UNCHANGED <<isCanaryTrade, result, netVars, connVars, handlerVars>>

TickXsub ==
    /\ testPc[Loop] = "tick"
    /\ testPc' = [testPc EXCEPT ![Loop] = IF connReady["xsub"] THEN "call" ELSE "idle"]
    /\ UNCHANGED <<isCanaryTrade, result, netVars, connVars, handlerVars>>

\* canaryTestCall: the order got through and was taken, or it was not, or it
\* took too long.
CanaryPasses == trading /\ \A k \in Conns : link[k]

CanaryCall(t) ==
    /\ testPc[t] = "call"
    /\ testPc' = [testPc EXCEPT ![t] = "compare"]
    /\ \/ /\ result' = [result EXCEPT ![t] = CanaryPasses]
          /\ UNCHANGED changes
       \/ /\ CanaryPasses
          /\ Change
          /\ result' = [result EXCEPT ![t] = FALSE]
    /\ UNCHANGED <<isCanaryTrade, link, trading, events, inbox, connVars, handlerVars>>

\* The three steps of canaryTest that follow take no lock.
Compare(t) ==
    /\ testPc[t] = "compare"
    /\ testPc' = [testPc EXCEPT ![t] = IF result[t] # isCanaryTrade THEN "store" ELSE "idle"]
    /\ UNCHANGED <<isCanaryTrade, result, netVars, connVars, handlerVars>>

\* Mutant: the send is given up when handleReady is not waiting for it.
MutantStore(t) ==
    /\ testPc[t] = "store"
    /\ isCanaryTrade' = result[t]
    /\ testPc' = [testPc EXCEPT ![t] = IF handler = "select" THEN "send" ELSE "idle"]
    /\ UNCHANGED <<result, netVars, connVars, handlerVars>>

Store(t) ==
    /\ testPc[t] = "store"
    /\ isCanaryTrade' = result[t]
    /\ testPc' = [testPc EXCEPT ![t] = "send"]
    /\ UNCHANGED <<result, netVars, connVars, handlerVars>>

-----------------------------------------------------------------------------
(* handleReady.                                                              *)

TakePush ==
    /\ handler = "select"
    /\ connChan["push"] # <<>>
    /\ connChan' = [connChan EXCEPT !["push"] = Tail(@)]
    /\ handler' = "push"
    /\ UNCHANGED <<ready, isReady, connReady, announcing, panicked, closed, netVars, canaryVars>>

\* An xsub connection that became ready is tried out in a goroutine.
TakeXsub ==
    /\ handler = "select"
    /\ connChan["xsub"] # <<>>
    /\ connChan' = [connChan EXCEPT !["xsub"] = Tail(@)]
    /\ handler' = "push"
    /\ IF Head(connChan["xsub"])
       THEN \E t \in Spawned :
                /\ testPc[t] = "idle"
                /\ testPc' = [testPc EXCEPT ![t] = "call"]
       ELSE UNCHANGED testPc
    /\ UNCHANGED <<ready, isReady, connReady, announcing, panicked, closed, netVars,
                   isCanaryTrade, result>>

\* canaryTrade has no buffer: its sender goes on when the value is received.
TakeCanary(t) ==
    /\ handler = "select"
    /\ testPc[t] = "send"
    /\ testPc' = [testPc EXCEPT ![t] = "idle"]
    /\ handler' = "push"
    /\ UNCHANGED <<ready, isReady, isCanaryTrade, result, netVars, connVars>>

\* c.push.IsReady() && c.xsub.IsReady() && c.isCanaryTrade
Value(input) == IF input = "canary" THEN isCanaryTrade ELSE connReady[input]
Following == [push |-> "xsub", xsub |-> "canary", canary |-> "publish"]

ReadInput ==
    /\ handler \in {"push", "xsub", "canary"}
    /\ ready' = Value(handler)
    /\ handler' = IF Value(handler) THEN Following[handler] ELSE "publish"
    /\ UNCHANGED <<isReady, netVars, connVars, canaryVars>>

Publish ==
    /\ handler = "publish"
    /\ isReady' = ready
    /\ handler' = "select"
    /\ UNCHANGED <<ready, netVars, connVars, canaryVars>>

-----------------------------------------------------------------------------
Environment ==
    \/ \E k \in Conns : Connect(k) \/ Break(k) \/ RetryFails(k)
    \/ GateMessage
    \/ GateTrading

Connection ==
    \/ PushStatus \/ MonitorStatus \/ ReadMessage
    \/ \E g \in Announcers : Announce(g)

CanaryTest(t) == CanaryCall(t) \/ Compare(t) \/ Store(t)

HandleReady ==
    \/ TakePush \/ TakeXsub
    \/ \E t \in Tests : TakeCanary(t)
    \/ ReadInput
    \/ Publish

Next ==
    /\ ~panicked
    /\ \/ Environment
       \/ Connection
       \/ Tick \/ TickXsub
       \/ \E t \in Tests : CanaryTest(t)
       \/ HandleReady

Spec == Init /\ [][Next]_vars

\* Goroutines are scheduled again and again, the ticker goes on, and a gate
\* that is connected sends heartbeats.
Fairness ==
    /\ WF_vars(~panicked /\ GateMessage)
    /\ WF_vars(~panicked /\ PushStatus)
    /\ WF_vars(~panicked /\ MonitorStatus)
    /\ WF_vars(~panicked /\ ReadMessage)
    /\ \A g \in Announcers : WF_vars(~panicked /\ Announce(g))
    /\ WF_vars(~panicked /\ (Tick \/ TickXsub))
    /\ \A t \in Tests : WF_vars(~panicked /\ CanaryTest(t))
    /\ WF_vars(~panicked /\ HandleReady)

FairSpec == Spec /\ Fairness

-----------------------------------------------------------------------------
(* Properties.                                                               *)

\* Something has changed that handleReady will still hear of.
News ==
    \/ \E g \in Announcers : announcing[g] # <<>>
    \/ \E k \in Conns : connChan[k] # <<>>
    \/ \E t \in Tests : testPc[t] = "send"
    \/ panicked

Inputs == connReady["push"] /\ connReady["xsub"] /\ isCanaryTrade

\* When handleReady waits and there is no news under way, the gate's readiness
\* is that of its connections and its last canary order: no interleaving of
\* the monitors, the reader, two canary tests and the evaluation of the
\* conjunction leaves it with a stale outcome.
ReadyFollowsInputs == handler = "select" /\ ~News => isReady = Inputs

\* Once network and gate are left alone, the gate's readiness comes to say
\* whether it can be reached and takes orders, even if a monitor missed that
\* a connection broke or a canary test stored an outdated result.
ReadySettles ==
    \/ <>panicked
    \/ <>[](isReady = CanaryPasses)

\* zmq-xsub.go:57: `IsReady return connection ready state. If connection
\* established and heartbeat is received, then true'.  So it is not while the
\* connection is broken and the monitor has said so.
ClosedIsNotReady ==
    closed /\ ~link["xsub"] /\ events["xsub"] = <<>> => ~connReady["xsub"]

\* zmq-xsub.go:171, zmq-push.go:124: a ready channel has room for what setReady
\* sends, or the program panics.
ReadyNeverPanics == ~panicked
=============================================================================
