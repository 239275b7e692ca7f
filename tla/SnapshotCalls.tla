---------------------------- MODULE SnapshotCalls ----------------------------
(***************************************************************************)
(* How a zmqTrader obtains a user's orders (zmq-trader.go).                *)
(*                                                                         *)
(* A goroutine that needs the orders of a user (GetSnapshot, GetOrder and  *)
(* the order operations) finds them in the cache, or registers a call in   *)
(* pendingSnap, subscribes the user at the gate unless somebody already    *)
(* did, and blocks until the goroutine input() has stored the snapshot and *)
(* signals the call.  Unsubscribe, run by other goroutines, throws the     *)
(* cache away.  The gate is a ZeroMQ peer: subscriptions travel to it and  *)
(* snapshots and reports travel back, each way in order.                   *)
(*                                                                         *)
(* The orders themselves are abstracted to the changes of the user's book  *)
(* they reflect: change k is the k-th report of that user, and a book is   *)
(* the set of the changes made so far.                                     *)
(***************************************************************************)
EXTENDS Naturals, Sequences, FiniteSets

CONSTANTS
    Users,         \* user identifiers
    Calls,         \* one goroutine, and one call id, per call made
    Lookups,       \* the calls made through requireSnapshotOrder
    Unsubscribers, \* one goroutine per Unsubscribe
    InitialBook,   \* changes every book holds before anybody subscribes
    MaxChanges,    \* bound: changes of a user's book
    Deadlines,     \* may the context of a call expire?
    Faults         \* may a send fail, or the gate's messages be lost?

ASSUME CallAssumption == Lookups \subseteq Calls
ASSUME BookAssumption ==
    /\ InitialBook \in Nat
    /\ MaxChanges \in Nat
    /\ InitialBook <= MaxChanges
ASSUME SwitchAssumption == Deadlines \in BOOLEAN /\ Faults \in BOOLEAN

VARIABLES
    \* zmqTrader
    acceptedUsers, \* users whose snapshots and reports are cached
    pendingSnap,   \* calls waiting for a user's snapshot
    doneBuf,       \* calls whose one-place Done channel is full
    \* ordersContainer
    locks,         \* users with an entry in locks: hasOrders
    users,         \* the cached orders; no inner map reads as no orders
    \* goroutines
    pc, callUser, outcome, result, \* of a call
    duplicateRequest, \* calls that found the user already pending
    input,         \* the goroutine that handles the gate's messages
    unsubPc, unsubUser,
    \* the gate and the two sockets
    wire,          \* subscriptions under way to the gate
    reports,       \* messages under way to the trader
    subscribed, book,
    \* history
    asOf           \* the book's length when a call registered

callVars == <<pc, callUser, outcome, result, duplicateRequest, asOf>>
unsubVars == <<unsubPc, unsubUser>>
gateVars == <<subscribed, book>>
containerVars == <<locks, users>>
vars == <<acceptedUsers, pendingSnap, doneBuf, locks, users, callVars, input,
          unsubVars, wire, reports, gateVars>>

Changes == 1 .. MaxChanges
Snapshot(u, n) == [kind |-> "snapshot", user |-> u, change |-> n]
Report(u, n) == [kind |-> "report", user |-> u, change |-> n]
Snapshots == [kind : {"snapshot"}, user : Users, change : 0 .. MaxChanges]
Reports == [kind : {"report"}, user : Users, change : Changes]
Messages == Snapshots \cup Reports
Requests == [kind : {"subscribe", "unsubscribe"}, user : Users]

CallStates == {"start", "accept", "check", "register", "subscribe", "wait",
               "unregister", "read", "returned"}
\* The states in which a call is in pendingSnap.
Registered == {"subscribe", "wait", "unregister"}

TypeOK ==
    /\ acceptedUsers \subseteq Users
    /\ pendingSnap \in [Users -> SUBSET Calls]
    /\ doneBuf \subseteq Calls
    /\ locks \subseteq Users
    /\ users \in [Users -> SUBSET Changes]
    /\ pc \in [Calls -> CallStates]
    /\ callUser \in [Calls -> Users]
    /\ outcome \in [Calls -> {"none", "ok", "deadline", "send failed", "unlocked"}]
    /\ result \in [Calls -> SUBSET Changes]
    /\ duplicateRequest \subseteq Calls
    /\ asOf \in [Calls -> 0 .. MaxChanges]
    /\ input \in [pc : {"idle"}, msg : Messages]
               \cup [pc : {"lock", "write", "notify"}, msg : Snapshots]
               \cup [pc : {"apply"}, msg : Reports]
    /\ unsubPc \in [Unsubscribers -> {"start", "forget", "delete", "returned"}]
    /\ unsubUser \in [Unsubscribers -> Users]
    /\ wire \in Seq(Requests)
    /\ reports \in Seq(Messages)
    /\ subscribed \subseteq Users
    /\ book \in [Users -> 0 .. MaxChanges]

Init ==
    /\ acceptedUsers = {}
    /\ pendingSnap = [u \in Users |-> {}]
    /\ doneBuf = {}
    /\ locks = {}
    /\ users = [u \in Users |-> {}]
    /\ pc = [c \in Calls |-> "start"]
    /\ callUser \in [Calls -> Users]
    /\ outcome = [c \in Calls |-> "none"]
    /\ result = [c \in Calls |-> {}]
    /\ duplicateRequest = {}
    /\ asOf = [c \in Calls |-> 0]
    /\ input \in [pc : {"idle"}, msg : {Snapshot(u, 0) : u \in Users}]
    /\ unsubPc = [t \in Unsubscribers |-> "start"]
    /\ unsubUser \in [Unsubscribers -> Users]
    /\ wire = <<>>
    /\ reports = <<>>
    /\ subscribed = {}
    /\ book = [u \in Users |-> InitialBook]

-----------------------------------------------------------------------------
(* A call, from GetSnapshot or requireSnapshotOrder down to its return.      *)

Goto(c, from, to) == pc[c] = from /\ pc' = [pc EXCEPT ![c] = to]

\* requireSnapshotOrder looks at the cache before it calls requireSnapshot,
\* GetSnapshot calls requireSnapshot at once.
Start(c) ==
    /\ Goto(c, "start", IF c \in Lookups /\ callUser[c] \in locks THEN "read" ELSE "accept")
    /\ UNCHANGED <<acceptedUsers, pendingSnap, doneBuf, containerVars, callUser, outcome,
                   result, duplicateRequest, asOf, input, unsubVars, wire, reports, gateVars>>

\* ensureUserAccepted: LoadOrStore.
WithAccepted(u) == acceptedUsers \cup {u}

Accept(c) ==
    /\ Goto(c, "accept", "check")
    /\ acceptedUsers' = WithAccepted(callUser[c])
    /\ UNCHANGED <<pendingSnap, doneBuf, containerVars, callUser, outcome, result,
                   duplicateRequest, asOf, input, unsubVars, wire, reports, gateVars>>

CheckCache(c) ==
    /\ Goto(c, "check", IF callUser[c] \in locks THEN "read" ELSE "register")
    /\ UNCHANGED <<acceptedUsers, pendingSnap, doneBuf, containerVars, callUser, outcome,
                   result, duplicateRequest, asOf, input, unsubVars, wire, reports, gateVars>>

\* Is somebody else's subscription to be relied on?
SubscriptionPending(u) == pendingSnap[u] # {}

Register(c) ==
    LET u == callUser[c] IN
    /\ Goto(c, "register", IF SubscriptionPending(u) THEN "wait" ELSE "subscribe")
    /\ duplicateRequest' = IF SubscriptionPending(u) THEN duplicateRequest \cup {c}
                           ELSE duplicateRequest
    /\ pendingSnap' = [pendingSnap EXCEPT ![u] = @ \cup {c}]
    /\ asOf' = [asOf EXCEPT ![c] = book[u]]
    /\ UNCHANGED <<acceptedUsers, doneBuf, containerVars, callUser, outcome, result,
                   input, unsubVars, wire, reports, gateVars>>

\* Only the call that found nobody waiting gets here; the socket may refuse.
Subscribe(c) ==
    /\ \/ /\ Goto(c, "subscribe", "wait")
          /\ wire' = Append(wire, [kind |-> "subscribe", user |-> callUser[c]])
          /\ UNCHANGED outcome
       \/ /\ Faults
          /\ Goto(c, "subscribe", "unregister")
          /\ outcome' = [outcome EXCEPT ![c] = "send failed"]
          /\ UNCHANGED wire
    /\ UNCHANGED <<acceptedUsers, pendingSnap, doneBuf, containerVars, callUser, result,
                   duplicateRequest, asOf, input, unsubVars, reports, gateVars>>

\* The select statement: the Done channel ...
Wake(c) ==
    /\ c \in doneBuf
    /\ Goto(c, "wait", "unregister")
    /\ doneBuf' = doneBuf \ {c}
    /\ outcome' = [outcome EXCEPT ![c] = "ok"]
    /\ UNCHANGED <<acceptedUsers, pendingSnap, containerVars, callUser, result,
                   duplicateRequest, asOf, input, unsubVars, wire, reports, gateVars>>

\* ... or the context of the call.
Expire(c) ==
    /\ Deadlines
    /\ Goto(c, "wait", "unregister")
    /\ outcome' = [outcome EXCEPT ![c] = "deadline"]
    /\ UNCHANGED <<acceptedUsers, pendingSnap, doneBuf, containerVars, callUser, result,
                   duplicateRequest, asOf, input, unsubVars, wire, reports, gateVars>>

MutantDropsAll(c, u) == {}
MutantKeptOnError(c, u) == IF outcome[c] = "ok" THEN pendingSnap[u] \ {c} ELSE pendingSnap[u]
\* What the deferred function leaves of a user's waiting calls.
Remaining(c, u) == pendingSnap[u] \ {c}

\* The deferred function runs on every way out of requireSnapshot.
Unregister(c) ==
    LET u == callUser[c] IN
    /\ Goto(c, "unregister", IF outcome[c] = "ok" THEN "read" ELSE "returned")
    /\ pendingSnap' = [pendingSnap EXCEPT ![u] = Remaining(c, u)]
    /\ UNCHANGED <<acceptedUsers, doneBuf, containerVars, callUser, outcome, result,
                   duplicateRequest, asOf, input, unsubVars, wire, reports, gateVars>>

\* getOrders and getOrder: without a lock there is no answer, with one an
\* absent inner map reads as an empty one.
ReadOrders(c) ==
    LET u == callUser[c] IN
    /\ Goto(c, "read", "returned")
    /\ outcome' = [outcome EXCEPT ![c] = IF u \in locks THEN "ok" ELSE "unlocked"]
    /\ result' = [result EXCEPT ![c] = IF u \in locks THEN users[u] ELSE {}]
    /\ UNCHANGED <<acceptedUsers, pendingSnap, doneBuf, containerVars, callUser,
                   duplicateRequest, asOf, input, unsubVars, wire, reports, gateVars>>

-----------------------------------------------------------------------------
(* The goroutine input(): one message of the gate at a time.                 *)

MutantSkipsWhilePending(m) ==
    IF m.user \notin acceptedUsers \/ (m.kind = "report" /\ pendingSnap[m.user] # {}) THEN "idle"
    ELSE IF m.kind = "snapshot" THEN "lock" ELSE "apply"
MutantAllSnapshots(m) == IF m.user \notin acceptedUsers THEN "idle" ELSE "lock"
MutantNotStored(m) ==
    IF m.user \notin acceptedUsers THEN "idle"
    ELSE IF m.kind = "snapshot" THEN "notify" ELSE "apply"
\* What the trader does with a message: an unaccepted user is not cached.
Handling(m) ==
    IF m.user \notin acceptedUsers THEN "idle"
    ELSE IF m.kind = "snapshot" THEN "lock" ELSE "apply"

Receive ==
    /\ input.pc = "idle"
    /\ reports # <<>>
    /\ input' = [pc |-> Handling(Head(reports)), msg |-> Head(reports)]
    /\ reports' = Tail(reports)
    /\ UNCHANGED <<acceptedUsers, pendingSnap, doneBuf, containerVars, callVars, unsubVars,
                   wire, gateVars>>

\* setOrders, its first half: the user's lock, visible to hasOrders at once.
StoreLock ==
    /\ input.pc = "lock"
    /\ locks' = locks \cup {input.msg.user}
    /\ input' = [input EXCEPT !.pc = "write"]
    /\ UNCHANGED <<acceptedUsers, pendingSnap, doneBuf, users, callVars, unsubVars, wire,
                   reports, gateVars>>

\* setOrders, its second half: the orders, under that lock.
WriteOrders ==
    /\ input.pc = "write"
    /\ users' = [users EXCEPT ![input.msg.user] = 1 .. input.msg.change]
    /\ input' = [input EXCEPT !.pc = "notify"]
    /\ UNCHANGED <<acceptedUsers, pendingSnap, doneBuf, locks, callVars, unsubVars, wire,
                   reports, gateVars>>

MutantWokenAll(u) == UNION {pendingSnap[v] : v \in Users}
\* Whose Done channel handleSnapshot fills; done() never blocks.
Woken(u) == pendingSnap[u]

Notify ==
    /\ input.pc = "notify"
    /\ doneBuf' = doneBuf \cup Woken(input.msg.user)
    /\ input' = [input EXCEPT !.pc = "idle"]
    /\ UNCHANGED <<acceptedUsers, pendingSnap, containerVars, callVars, unsubVars, wire,
                   reports, gateVars>>

MutantOnlyChange(u, n) == {n}
\* ordersContainer.handleReport: only with a snapshot to apply it to.
WithChange(u, n) == users[u] \cup {n}

ApplyReport ==
    LET u == input.msg.user IN
    /\ input.pc = "apply"
    /\ users' = IF u \in locks THEN [users EXCEPT ![u] = WithChange(u, input.msg.change)] ELSE users
    /\ input' = [input EXCEPT !.pc = "idle"]
    /\ UNCHANGED <<acceptedUsers, pendingSnap, doneBuf, locks, callVars, unsubVars, wire,
                   reports, gateVars>>

-----------------------------------------------------------------------------
(* Unsubscribe.                                                              *)

UnsubGoto(t, from, to) == unsubPc[t] = from /\ unsubPc' = [unsubPc EXCEPT ![t] = to]

\* UnSubscribe of the socket; its error is only logged.
SendUnsubscribe(t) ==
    /\ UnsubGoto(t, "start", "forget")
    /\ \/ wire' = Append(wire, [kind |-> "unsubscribe", user |-> unsubUser[t]])
       \/ Faults /\ UNCHANGED wire
    /\ UNCHANGED <<acceptedUsers, pendingSnap, doneBuf, containerVars, callVars, input,
                   unsubUser, reports, gateVars>>

Forget(t) ==
    /\ UnsubGoto(t, "forget", "delete")
    /\ acceptedUsers' = acceptedUsers \ {unsubUser[t]}
    /\ UNCHANGED <<pendingSnap, doneBuf, containerVars, callVars, input, unsubUser, wire,
                   reports, gateVars>>

\* ordersContainer.delete: nothing without a lock, else both maps under it.
DeleteOrders(t) ==
    LET u == unsubUser[t] IN
    /\ UnsubGoto(t, "delete", "returned")
    /\ locks' = locks \ {u}
    /\ users' = IF u \in locks THEN [users EXCEPT ![u] = {}] ELSE users
    /\ UNCHANGED <<acceptedUsers, pendingSnap, doneBuf, callVars, input, unsubUser, wire,
                   reports, gateVars>>

-----------------------------------------------------------------------------
(* The gate and the sockets.                                                 *)

\* A new subscription is answered with a snapshot of the user's orders.
GateSubscribe ==
    /\ wire # <<>>
    /\ Head(wire).kind = "subscribe"
    /\ wire' = Tail(wire)
    /\ LET u == Head(wire).user IN
       /\ subscribed' = subscribed \cup {u}
       /\ reports' = Append(reports, Snapshot(u, book[u]))
    /\ UNCHANGED <<acceptedUsers, pendingSnap, doneBuf, containerVars, callVars, input,
                   unsubVars, book>>

GateUnsubscribe ==
    /\ wire # <<>>
    /\ Head(wire).kind = "unsubscribe"
    /\ wire' = Tail(wire)
    /\ subscribed' = subscribed \ {Head(wire).user}
    /\ UNCHANGED <<acceptedUsers, pendingSnap, doneBuf, containerVars, callVars, input,
                   unsubVars, reports, book>>

\* The user's book changes; a subscriber is told.
GateChange(u) ==
    /\ book[u] < MaxChanges
    /\ book' = [book EXCEPT ![u] = @ + 1]
    /\ reports' = IF u \in subscribed THEN Append(reports, Report(u, book[u] + 1))
                  ELSE reports
    /\ UNCHANGED <<acceptedUsers, pendingSnap, doneBuf, containerVars, callVars, input,
                   unsubVars, wire, subscribed>>

\* The connection breaks and a message is gone.
LoseMessage ==
    /\ Faults
    /\ reports # <<>>
    /\ reports' = Tail(reports)
    /\ UNCHANGED <<acceptedUsers, pendingSnap, doneBuf, containerVars, callVars, input,
                   unsubVars, wire, gateVars>>

-----------------------------------------------------------------------------
CallStep(c) ==
    \/ Accept(c) \/ CheckCache(c) \/ Register(c) \/ Subscribe(c)
    \/ Wake(c) \/ Unregister(c) \/ ReadOrders(c)
InputStep == Receive \/ StoreLock \/ WriteOrders \/ Notify \/ ApplyReport
UnsubStep(t) == SendUnsubscribe(t) \/ Forget(t) \/ DeleteOrders(t)
GateStep == GateSubscribe \/ GateUnsubscribe

Next ==
    \/ \E c \in Calls : Start(c) \/ CallStep(c) \/ Expire(c)
    \/ InputStep
    \/ \E t \in Unsubscribers : UnsubStep(t)
    \/ GateStep
    \/ \E u \in Users : GateChange(u)
    \/ LoseMessage

Spec == Init /\ [][Next]_vars

\* The Go scheduler runs every goroutine that can run, contexts expire, and
\* the gate keeps answering.  Nobody has to call, and no book has to change.
Fairness ==
    /\ \A c \in Calls : WF_vars(CallStep(c)) /\ WF_vars(Expire(c))
    /\ WF_vars(InputStep)
    /\ \A t \in Unsubscribers : WF_vars(Forget(t) \/ DeleteOrders(t))
    /\ WF_vars(GateStep)

FairSpec == Spec /\ Fairness

-----------------------------------------------------------------------------
(* Properties.                                                               *)

\* pendingSnap names exactly the calls between their registration and their
\* deferred removal: handleSnapshot misses none and keeps no returned one.
PendingSnapExact ==
    \A u \in Users : pendingSnap[u] = {c \in Calls : pc[c] \in Registered /\ callUser[c] = u}

\* Changes of a user that the trader has been sent but has not applied.
InFlight(u) ==
    {m.change : m \in {n \in {reports[i] : i \in DOMAIN reports} \cup
                            (IF input.pc = "apply" THEN {input.msg} ELSE {}) :
                          n.kind = "report" /\ n.user = u}}

\* A cached book is the user's book up to the reports still under way, so a
\* read of requireSnapshot's cache (zmq-trader.go:74) is late, never wrong.
\* It needs that nobody unsubscribes and that no message is lost.
CacheTracksFeed ==
    \A u \in locks :
        (input.msg.user = u => input.pc \notin {"write", "notify"})
            => u \in subscribed /\ users[u] = (1 .. book[u]) \ InFlight(u)

\* A call that subscribed by itself returns the orders its user had when it
\* registered, and is not told that there are none.  It needs that nobody
\* unsubscribes, no message is lost and no earlier call gave up.
SubscriberSeesStart ==
    \A c \in Calls \ duplicateRequest :
        pc[c] = "returned" =>
            outcome[c] = "ok" /\ 1 .. asOf[c] \subseteq result[c]

\* The answer "fail processing consist user snapshot request" (zmq-trader.go:319)
\* is given only to a call that an Unsubscribe of its user overtook.
UnlockedOnlyByUnsubscribe ==
    \A c \in Calls : outcome[c] = "unlocked" =>
        \E t \in Unsubscribers : unsubUser[t] = callUser[c] /\ unsubPc[t] = "returned"

\* As long as a user stays cached, no change the cache once showed is taken
\* back: neither a late snapshot nor a late report undoes a newer one.
CacheNeverGoesBack ==
    [][\A u \in locks \cap locks' : users[u] \subseteq users'[u]]_vars

\* A call that subscribes gets an answer although no deadline limits it.
SubscriberReturns ==
    \A c \in Calls : pc[c] = "subscribe" ~> pc[c] = "returned"

\* Whatever fails, no call stays registered in pendingSnap for ever.
PendingDrained ==
    \A c \in Calls : pc[c] \in Registered ~> c \notin pendingSnap[callUser[c]]

\* A GetSnapshot or a lookup that succeeds shows the orders the user had all
\* along (zmq-trader_internal_test.go:439 expects them in the answer).
AnswersShowOldOrders ==
    \A c \in Calls : pc[c] = "returned" /\ outcome[c] = "ok"
                        => 1 .. InitialBook \subseteq result[c]

\* Every call returns once it has registered, with no deadline to help it: two
\* parallel GetSnapshot with context.Background() both get their answer
\* (zmq-trader_internal_test.go:373 and :377).
EveryCallReturns == \A c \in Calls : pc[c] = "register" ~> pc[c] = "returned"

\* Unsubscribe flushes the cache (zmq-trader.go:57) and a snapshot that comes
\* later does not bring it back (zmq-trader_internal_test.go:335).
UnsubscribedIsFlushed ==
    (input.pc = "idle" /\ \A t \in Unsubscribers : unsubPc[t] \in {"start", "returned"})
        => locks \subseteq acceptedUsers
=============================================================================
