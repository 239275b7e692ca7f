----------------------------- MODULE MockTrader -----------------------------
(***************************************************************************)
(* MockTrader (mock-trader.go): a Trader that answers from a list of       *)
(* expectations per user, or plays a simple exchange for the users of its  *)
(* fixtures.  Unlike zmqTrader it has no goroutine of its own: reports are *)
(* handled by the callers.                                                 *)
(*                                                                         *)
(* A step is one access to what goroutines share: the expectations under   *)
(* expectationMx, the locks and the maps of ordersContainer.  Of an order  *)
(* its id and timeInForce are kept; IOC stands for FOK too.                *)
(***************************************************************************)
EXTENDS Naturals, Sequences, ServedUsers

CONSTANTS
    Goroutines,    \* each runs one operation at a time
    Ids,
    MaxExpected,   \* bound on the expectations of a user
    NoOrders,      \* a user without a map of orders
    NoOrder

VARIABLES
    allowAutoTrade, \* the users of the fixtures
    expectations,  \* of a user; <<>> for a user not in the map
    locks,         \* users with a mutex in ordersContainer
    orders,        \* orders of a user in ordersContainer
    call,          \* the operation of a goroutine
    crashed,       \* a write to a nil map has ended the process
    overtaken      \* history: goroutines between the Load and the Lock of
                   \* handleReport whose user was deleted meanwhile

mockVars == <<allowAutoTrade, expectations, locks, orders, call, crashed, overtaken>>

TimesInForce == {"GTC", "IOC"}
Books == [Ids -> TimesInForce \cup {NoOrder}]
EmptyBook == [i \in Ids |-> NoOrder]

ASSUME MockAssumption ==
    MaxExpected \in Nat /\ NoOrders \notin Books /\ NoOrder \notin TimesInForce

Operations == {"GetSnapshot", "GetOrder", "NewOrder", "CancelOrder", "ReplaceOrder",
               "Unsubscribe"}
\* What reports do to the container: "keep" has status New, "drop" a final one.
Reports == [effect : {"keep", "drop"}, id : Ids, tif : TimesInForce]
\* reports is <<>> for an expectation without report.
Expectations ==
    [for : {"NewOrder", "GetSnapshot", "Unsubscribe"}, id : Ids,
     reports : {<<>>} \cup {<<r>> : r \in Reports}]

\* todo: the reports the call has yet to handle.
Calls ==
    [pc : {"idle", "expecting", "pop", "inited", "mutex", "store", "load", "apply",
           "orders", "lookup", "delete", "forget"},
     op : Operations, user : Users, id : Ids, tif : TimesInForce, todo : Seq(Reports)]

MockTypeOK ==
    /\ allowAutoTrade \subseteq Users
    /\ expectations \in [Users -> Seq(Expectations)]
    /\ \A u \in Users : Len(expectations[u]) <= MaxExpected
    /\ locks \subseteq Users
    /\ orders \in [Users -> Books \cup {NoOrders}]
    /\ call \in [Goroutines -> Calls]
    /\ crashed \in BOOLEAN
    /\ overtaken \subseteq Goroutines

\* Of a goroutine that is in no call.
NoCall ==
    [pc |-> "idle", op |-> "GetOrder", user |-> CHOOSE u \in Users : TRUE,
     id |-> CHOOSE i \in Ids : TRUE, tif |-> "GTC", todo |-> <<>>]

\* NewTrader sets the fixtures up, if at all, before anybody has the trader.
MockInit ==
    /\ allowAutoTrade \in SUBSET Users
    /\ expectations = [u \in Users |-> <<>>]
    /\ locks = allowAutoTrade
    /\ orders \in [Users -> {NoOrders} \cup [Ids -> {"GTC", NoOrder}]]
    /\ \A u \in Users : orders[u] = NoOrders <=> u \notin allowAutoTrade
    /\ call = [g \in Goroutines |-> NoCall]
    /\ crashed = FALSE
    /\ overtaken = {}

At(g, pc) == call[g].pc = pc /\ ~crashed
Goto(g, pc) == call' = [call EXCEPT ![g].pc = pc]
Return(g) == call' = [call EXCEPT ![g] = NoCall]
\* The call handles reports, if there are any.
Handle(c, rs) == [c EXCEPT !.pc = "load", !.todo = rs]

addExpectation(u, e) ==
    /\ Len(expectations[u]) < MaxExpected
    /\ expectations' = [expectations EXCEPT ![u] = Append(@, e)]
    /\ UNCHANGED <<allowAutoTrade, locks, orders, call, crashed, overtaken>>
-----------------------------------------------------------------------------
(***************************************************************************)
(* The operations.                                                         *)
(***************************************************************************)
FirstStep(op) ==
    CASE op \in {"NewOrder", "GetSnapshot"} -> "expecting"
      [] op \in {"GetOrder", "CancelOrder"} -> "orders"
      [] op = "Unsubscribe" -> "delete"

\* ReplaceOrder returns "not implemented" at once.
Begin(g, op, u, i, t) ==
    /\ At(g, "idle")
    /\ IF op = "ReplaceOrder" THEN UNCHANGED call
       ELSE call' = [call EXCEPT ![g] = [pc |-> FirstStep(op), op |-> op, user |-> u,
                                         id |-> i, tif |-> t, todo |-> <<>>]]
    /\ UNCHANGED <<allowAutoTrade, expectations, locks, orders, crashed, overtaken>>

\* hasExpectations; without one, Unsubscribe is over.
Expecting(g) ==
    /\ At(g, "expecting")
    /\ LET c == call[g] IN
           IF expectations[c.user] # <<>> THEN Goto(g, "pop")
           ELSE IF c.op = "Unsubscribe" THEN Return(g)
           ELSE Goto(g, "orders")
    /\ UNCHANGED <<allowAutoTrade, expectations, locks, orders, crashed, overtaken>>

\* popExpectations, which finds none if another call was faster, and the test
\* whether the expectation is for this call.  It is gone in any case.
Fits(e, c) == e.for = c.op /\ (c.op = "NewOrder" => e.id = c.id)

Pop(g) ==
    /\ At(g, "pop")
    /\ LET c == call[g]
           list == expectations[c.user] IN
           /\ expectations' =
                  [expectations EXCEPT ![c.user] = IF list = <<>> THEN <<>> ELSE Tail(list)]
           /\ IF c.op = "Unsubscribe" \/ list = <<>> THEN Return(g)
              ELSE IF ~Fits(Head(list), c) THEN Return(g)
              ELSE call' = [call EXCEPT ![g].pc = "inited", ![g].todo = Head(list).reports]
    /\ UNCHANGED <<allowAutoTrade, locks, orders, crashed, overtaken>>

\* hasOrders.
Inited(g) ==
    /\ At(g, "inited")
    /\ Goto(g, IF call[g].user \in locks THEN "load" ELSE "mutex")
    /\ UNCHANGED <<allowAutoTrade, expectations, locks, orders, crashed, overtaken>>

\* setOrders(userID, nil) finds or stores the mutex: another call may have come first,
\* after hasOrders, ...
Mutex(g) ==
    /\ At(g, "mutex")
    /\ locks' = locks \cup {call[g].user}
    /\ Goto(g, "store")
    /\ UNCHANGED <<allowAutoTrade, expectations, orders, crashed, overtaken>>

\* ... whose orders the critical section then replaces.
Store(g) ==
    /\ At(g, "store")
    /\ orders' = [orders EXCEPT ![call[g].user] = EmptyBook]
    /\ Goto(g, "load")
    /\ UNCHANGED <<allowAutoTrade, expectations, locks, crashed, overtaken>>

\* Where a call goes on that has no report left to handle.
After(c) == IF c.op = "GetSnapshot" THEN [c EXCEPT !.pc = "orders"] ELSE NoCall

\* handleReport loads the mutex; without one the report is ignored.
Load(g) ==
    /\ At(g, "load")
    /\ LET c == call[g] IN
           call' = [call EXCEPT ![g] =
                       IF c.todo = <<>> THEN After(c)
                       ELSE IF c.user \in locks THEN [c EXCEPT !.pc = "apply"]
                       ELSE [c EXCEPT !.todo = Tail(@)]]
    /\ UNCHANGED <<allowAutoTrade, expectations, locks, orders, crashed, overtaken>>

\* The critical section of handleReport: the deletion of a key of a nil map does
\* nothing, an assignment to it panics.
Applied(r, book) ==
    IF book = NoOrders THEN NoOrders
    ELSE [book EXCEPT ![r.id] = IF r.effect = "keep" THEN r.tif ELSE NoOrder]

Apply(g) ==
    /\ At(g, "apply")
    /\ LET c == call[g]
           r == Head(c.todo) IN
           IF orders[c.user] = NoOrders /\ r.effect = "keep"
           THEN crashed' = TRUE /\ UNCHANGED <<orders, call, overtaken>>
           ELSE /\ orders' = [orders EXCEPT ![c.user] = Applied(r, @)]
                /\ call' = [call EXCEPT ![g].pc = "load", ![g].todo = Tail(@)]
                /\ overtaken' = overtaken \ {g}
                /\ UNCHANGED crashed
    /\ UNCHANGED <<allowAutoTrade, expectations, locks>>

\* hasOrders; a user without orders gets an error, and so does an order of a user
\* in neither mode.  GetSnapshot and GetOrder read the orders and return.
Orders(g) ==
    /\ At(g, "orders")
    /\ LET c == call[g] IN
           IF /\ c.op \in {"NewOrder", "CancelOrder"}
              /\ c.user \in locks \cap allowAutoTrade
           THEN Goto(g, "lookup")
           ELSE Return(g)
    /\ UNCHANGED <<allowAutoTrade, expectations, locks, orders, crashed, overtaken>>

\* getOrder, and the reports of the order played: a new order must not be there,
\* and does not stay if it is IOC; a canceled one must be there.
MutantAutoReports(c) == <<[effect |-> "keep", id |-> c.id, tif |-> c.tif]>>
AutoReports(c) ==
    LET report(e) == [effect |-> e, id |-> c.id, tif |-> c.tif] IN
    IF c.op = "CancelOrder" THEN <<report("drop")>>
    ELSE IF c.tif = "IOC" THEN <<report("keep"), report("drop")>>
    ELSE <<report("keep")>>

Found(c) == orders[c.user] # NoOrders /\ orders[c.user][c.id] # NoOrder

Lookup(g) ==
    /\ At(g, "lookup")
    /\ LET c == call[g] IN
           IF Found(c) = (c.op = "CancelOrder")
           THEN call' = [call EXCEPT ![g] = Handle(c, AutoReports(c))]
           ELSE Return(g)
    /\ UNCHANGED <<allowAutoTrade, expectations, locks, orders, crashed, overtaken>>

\* delete of ordersContainer loads the mutex, ...
Delete(g) ==
    /\ At(g, "delete")
    /\ Goto(g, IF call[g].user \in locks THEN "forget" ELSE "expecting")
    /\ UNCHANGED <<allowAutoTrade, expectations, locks, orders, crashed, overtaken>>

\* ... and in its critical section removes the orders and the mutex.
MutantForgotten(u) == UNCHANGED <<locks>>
Forgotten(u) == locks' = locks \ {u}

Forget(g) ==
    /\ At(g, "forget")
    /\ LET u == call[g].user IN
           /\ orders' = [orders EXCEPT ![u] = NoOrders]
           /\ Forgotten(u)
           /\ overtaken' =
                  overtaken \cup {h \in Goroutines : call[h].pc = "apply" /\ call[h].user = u}
    /\ Goto(g, "expecting")
    /\ UNCHANGED <<allowAutoTrade, expectations, crashed>>

Step(g) ==
    \/ Expecting(g) \/ Pop(g)
    \/ Inited(g) \/ Mutex(g) \/ Store(g) \/ Load(g) \/ Apply(g)
    \/ Orders(g) \/ Lookup(g)
    \/ Delete(g) \/ Forget(g)
-----------------------------------------------------------------------------
\* Goroutines that are in a call for user u, Unsubscribe aside.
Busy(u) == {g \in Goroutines :
                call[g].pc # "idle" /\ call[g].user = u /\ call[g].op # "Unsubscribe"}

\* An IOC order that the exchange plays is only there until the call that placed
\* it has handled the second report, whatever else is done to the user's orders.
IocNeverRests ==
    \A u \in allowAutoTrade, i \in Ids :
        orders[u] # NoOrders /\ orders[u][i] = "IOC" =>
            \E g \in Busy(u) : \E k \in 1 .. Len(call[g].todo) :
                call[g].todo[k].effect = "drop" /\ call[g].todo[k].id = i

\* No call writes to the map of a user that has none.  The code does: CrashNeedsWindow
\* of WatchedMock says when.
NeverCrashes == ~crashed
=============================================================================
