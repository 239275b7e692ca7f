----------------------------- MODULE OrderCalls -----------------------------
(***************************************************************************)
(* NewOrder, CancelOrder and ReplaceOrder of zmqTrader (zmq-trader.go) for *)
(* one user whose snapshot is loaded.                                      *)
(*                                                                         *)
(* A caller consults the cached orders, registers its call under the       *)
(* client order id in pendingFilled or pendingCancel, sends a request and  *)
(* blocks on the call's Done channel.  The goroutine input() applies every *)
(* report of the gate to the cache, writes the report into the calls it    *)
(* answers and signals them.  It holds the mutex mx while it does so, but  *)
(* a caller reads Reply, trades and Error of its call without the mutex.   *)
(*                                                                         *)
(* An order is its terms (price and quantity asked for) and the quantity   *)
(* left.  FOK is covered by IOC: the code treats them alike, and what a    *)
(* gate does with a FOK order it may do with an IOC one.  Report New also  *)
(* stands for Suspended, which every branch treats alike.                  *)
(***************************************************************************)
EXTENDS Naturals, Sequences, FiniteSets

CONSTANTS
    News, Cancels, Replaces, \* one goroutine, and one call id, per call
    Ids,          \* client order ids
    Terms,        \* what an order may ask for
    Quantity,     \* of every order; bound on its fills
    IdReuse,      \* may a caller take a client order id used before? "never",
                  \* "in parallel" with another NewOrder, or "always"
    Deadlines,    \* calls whose context may expire
    Faults,       \* calls whose send may fail
    Casts,        \* sets of calls that may be made in one behaviour
    NoOrder, NoReply, NoCall

Calls == News \cup Cancels \cup Replaces

ASSUME CallsAssumption ==
    /\ News \cap Cancels = {}
    /\ News \cap Replaces = {}
    /\ Cancels \cap Replaces = {}
    /\ NoCall \notin Calls
\* A cancel request is known by an id of its own, no order's.
ASSUME IdsAssumption == Ids \cap (Calls \cup {NoCall}) = {}
ASSUME QuantityAssumption == Quantity \in Nat \ {0}
ASSUME SwitchesAssumption ==
    /\ IdReuse \in {"never", "in parallel", "always"}
    /\ {Deadlines, Faults} \cup Casts \subseteq SUBSET Calls

VARIABLES
    \* requests: the arguments of the calls
    id,           \* client order id the call is about
    newId,        \* of a replace: RequestClientOrderID, the id of the new order
    terms,        \* of a new order and of a replace
    timeInForce, waitComplete,
    \* zmqTrader
    pendingFilled, pendingCancel,
    cache,        \* the user's orders in ordersContainer
    \* requestCall
    Reply, Error, trades,
    doneBuf,      \* calls whose one-place Done channel is full
    \* goroutines
    pc, ret,      \* of a call: where it is and what it returns
    input,        \* the goroutine that handles the gate's messages
    \* the gate and the two sockets
    wire, reports, book,
    \* history
    sent, applied, \* reports sent by the gate and applied to the cache
    placed,        \* new orders the gate accepted
    rejected,      \* calls whose requests the gate rejected
    born,          \* the report with which an order got its id
    fills          \* fills of a new order

args == <<id, newId, terms, timeInForce, waitComplete>>
callFields == <<Reply, Error, trades>>
gateVars == <<book, sent, placed, rejected, born, fills>>
vars == <<args, pendingFilled, pendingCancel, cache, callFields, doneBuf, pc, ret,
          input, wire, reports, gateVars, applied>>

Orders == [terms : Terms, left : 1 .. Quantity]
MutantKept(r) == r.kind \in {"new", "replaced", "trade"}
\* The reports that leave an order in the cache.
Kept(r) == r.kind \in {"new", "replaced"} \/ (r.kind = "trade" /\ r.left > 0)
Filled(r) == r.kind = "trade" /\ r.left = 0
Final(r) == r.kind \in {"canceled", "expired"} \/ Filled(r)

\* What the gate reports of an order.
OrderReports ==
    [kind : {"new", "trade", "canceled", "expired"}, id : Ids, terms : Terms,
     left : 0 .. Quantity, timeInForce : {"GTC", "IOC"}, n : Nat]
    \cup [kind : {"replaced"}, id : Ids, original : Ids, terms : Terms, left : 0 .. Quantity,
          timeInForce : {"GTC"}, n : Nat]

ASSUME ReplyAssumption == NoReply \notin OrderReports

CallStates == {"absent", "start", "lookup", "register", "send", "wait", "collect", "unregister",
               "returned"}
\* The states in which a call is in pendingFilled or pendingCancel.
Registered == {"send", "wait", "collect", "unregister"}
Errors == {"none", "duplicate", "not found", "not changed", "reject", "deadline", "send failed"}

\* The parts of the type the registration of calls depends on.
CallsTypeOK ==
    /\ pc \in [Calls -> CallStates]
    /\ id \in [Calls -> Ids]
    /\ pendingFilled \in [Ids -> News \cup {NoCall}]
    /\ pendingCancel \in [Ids -> SUBSET (Cancels \cup Replaces)]

TypeOK ==
    /\ CallsTypeOK
    /\ cache \in [Ids -> Orders \cup {NoOrder}]
    /\ book \in [Ids -> Orders \cup {NoOrder}]
    /\ Error \in [Calls -> {"none", "reject"}]
    /\ trades \in [Calls -> Nat]
    /\ doneBuf \subseteq Calls
    /\ \A c \in Calls : ret[c].err \in Errors /\ ret[c].trades \in Nat
    /\ input.pc \in {"idle", "cache", "canceled", "reply", "trades", "done", "reject"}
    /\ applied <= sent
    /\ placed \subseteq News
    /\ rejected \subseteq Calls \ placed
    /\ \A i \in Ids : born[i] <= sent

\* The id an order is to get, and the ids that the callers keep to.
OrderId(c) == IF c \in Replaces THEN newId[c] ELSE id[c]
IdsAllowed(calls) ==
    \A c \in calls \ Cancels :
        /\ IdReuse # "always" => book[OrderId(c)] = NoOrder
        /\ IdReuse = "never" => \A d \in calls \ Cancels : OrderId(c) = OrderId(d) => c = d

\* Which arguments a call has that is not made does not matter.
AbsentPlain(calls) ==
    \A c \in News \ calls : timeInForce[c] = "GTC" /\ ~waitComplete[c]

Init ==
    /\ id \in [Calls -> Ids]
    /\ newId \in [Replaces -> Ids]
    /\ \A c \in Replaces : newId[c] # id[c]
    /\ terms \in [News \cup Replaces -> Terms]
    /\ timeInForce \in [News -> {"GTC", "IOC"}]
    /\ waitComplete \in [News -> BOOLEAN]
    /\ pendingFilled = [i \in Ids |-> NoCall]
    /\ pendingCancel = [i \in Ids |-> {}]
    /\ book \in [Ids -> {NoOrder} \cup [terms : Terms, left : {Quantity}]]
    /\ cache = book
    /\ Reply = [c \in Calls |-> NoReply]
    /\ Error = [c \in Calls |-> "none"]
    /\ trades = [c \in Calls |-> 0]
    /\ doneBuf = {}
    /\ \E cast \in Casts :
          /\ pc = [c \in Calls |-> IF c \in cast THEN "start" ELSE "absent"]
          /\ IdsAllowed(cast)
          /\ AbsentPlain(cast)
    /\ ret = [c \in Calls |-> [reply |-> NoReply, trades |-> 0, err |-> "none"]]
    /\ input = [pc |-> "idle"]
    /\ wire = <<>>
    /\ reports = <<>>
    /\ sent = 0
    /\ applied = 0
    /\ placed = {}
    /\ rejected = {}
    /\ born = [i \in Ids |-> 0]
    /\ fills = [c \in News |-> 0]

-----------------------------------------------------------------------------
(* The callers.                                                              *)

Goto(c, from, to) == pc[c] = from /\ pc' = [pc EXCEPT ![c] = to]
Return(c, from, e) ==
    /\ Goto(c, from, "returned")
    /\ ret' = [ret EXCEPT ![c].err = e]

\* input() holds mx from the look-up of the calls to the last signal.
MutexFree == input.pc \notin {"trades", "done"}

\* What requireSnapshotOrder finds for the three operations.
StartNew(c) ==
    /\ \/ cache[id[c]] # NoOrder /\ Return(c, "start", "duplicate")
       \/ cache[id[c]] = NoOrder /\ Goto(c, "start", "register") /\ UNCHANGED ret
    /\ UNCHANGED <<args, pendingFilled, pendingCancel, cache, callFields, doneBuf, input,
                   wire, reports, gateVars, applied>>

StartCancel(c) ==
    /\ Goto(c, "start", IF cache[id[c]] = NoOrder THEN "lookup" ELSE "register")
    /\ UNCHANGED <<args, pendingFilled, pendingCancel, cache, callFields, doneBuf, ret, input,
                   wire, reports, gateVars, applied>>

StartReplace(c) ==
    /\ \/ cache[id[c]] = NoOrder /\ Return(c, "start", "not found")
       \/ /\ cache[id[c]] # NoOrder
          /\ cache[id[c]].terms = terms[c]
          /\ Return(c, "start", "not changed")
       \/ /\ cache[id[c]] # NoOrder
          /\ cache[id[c]].terms # terms[c]
          /\ Goto(c, "start", "register")
          /\ UNCHANGED ret
    /\ UNCHANGED <<args, pendingFilled, pendingCancel, cache, callFields, doneBuf, input,
                   wire, reports, gateVars, applied>>

\* CancelOrder: an order that is not cached yet may be one being placed.
LookupPending(c) ==
    /\ MutexFree
    /\ \/ pendingFilled[id[c]] = NoCall /\ Return(c, "lookup", "not found")
       \/ pendingFilled[id[c]] # NoCall /\ Goto(c, "lookup", "register") /\ UNCHANGED ret
    /\ UNCHANGED <<args, pendingFilled, pendingCancel, cache, callFields, doneBuf, input,
                   wire, reports, gateVars, applied>>

MutantNeverDuplicate(i) == FALSE
Duplicate(i) == pendingFilled[i] # NoCall

\* NewOrder: the duplicate check and the registration are one critical section.
RegisterNew(c) ==
    LET i == id[c] IN
    /\ MutexFree
    /\ \/ /\ Duplicate(i)
          /\ Return(c, "register", "duplicate")
          /\ UNCHANGED pendingFilled
       \/ /\ ~Duplicate(i)
          /\ Goto(c, "register", "send")
          /\ pendingFilled' = [pendingFilled EXCEPT ![i] = c]
          /\ UNCHANGED ret
    /\ UNCHANGED <<args, pendingCancel, cache, callFields, doneBuf, input, wire, reports,
                   gateVars, applied>>

\* CancelOrder and ReplaceOrder: any number of calls per order.
RegisterCancel(c) ==
    /\ MutexFree
    /\ Goto(c, "register", "send")
    /\ pendingCancel' = [pendingCancel EXCEPT ![id[c]] = @ \cup {c}]
    /\ UNCHANGED <<args, pendingFilled, cache, callFields, doneBuf, ret, input, wire, reports,
                   gateVars, applied>>

\* A cancel request is identified by an id generated for it, here the call; a
\* replace request by the id its order will have.
RequestId(c) == IF c \in Replaces THEN newId[c] ELSE c
Request(c) == [call |-> c, id |-> id[c], request |-> RequestId(c)]

Send(c) ==
    /\ \/ Goto(c, "send", "wait") /\ wire' = Append(wire, Request(c)) /\ UNCHANGED ret
       \/ /\ c \in Faults
          /\ Goto(c, "send", "unregister")
          /\ ret' = [ret EXCEPT ![c].err = "send failed"]
          /\ UNCHANGED wire
    /\ UNCHANGED <<args, pendingFilled, pendingCancel, cache, callFields, doneBuf, input,
                   reports, gateVars, applied>>

\* case result := <-call.Done: return result.Reply, result.trades, result.Error
\* reads the fields one after the other, while input() may be writing them.
Wake(c) ==
    /\ c \in doneBuf
    /\ Goto(c, "wait", "collect")
    /\ doneBuf' = doneBuf \ {c}
    /\ ret' = [ret EXCEPT ![c].reply = Reply[c]]
    /\ UNCHANGED <<args, pendingFilled, pendingCancel, cache, callFields, input, wire,
                   reports, gateVars, applied>>

Collect(c) ==
    /\ Goto(c, "collect", "unregister")
    /\ ret' = [ret EXCEPT ![c] = [reply |-> @.reply, trades |-> trades[c], err |-> Error[c]]]
    /\ UNCHANGED <<args, pendingFilled, pendingCancel, cache, callFields, doneBuf, input, wire,
                   reports, gateVars, applied>>

Expire(c) ==
    /\ c \in Deadlines
    /\ Goto(c, "wait", "unregister")
    /\ ret' = [ret EXCEPT ![c].err = "deadline"]
    /\ UNCHANGED <<args, pendingFilled, pendingCancel, cache, callFields, doneBuf, input, wire,
                   reports, gateVars, applied>>

Others(c) == pendingCancel[id[c]] \ {c}

\* The deferred functions.
Unregister(c) ==
    /\ MutexFree
    /\ Goto(c, "unregister", "returned")
    /\ IF c \in News
       THEN /\ pendingFilled' = [pendingFilled EXCEPT ![id[c]] = NoCall]
            /\ UNCHANGED pendingCancel
       ELSE /\ pendingCancel' = [pendingCancel EXCEPT ![id[c]] = Others(c)]
            /\ UNCHANGED pendingFilled
    /\ UNCHANGED <<args, cache, callFields, doneBuf, ret, input, wire, reports, gateVars, applied>>

-----------------------------------------------------------------------------
(* The goroutine input().                                                    *)

MutantAnswerFirst(r) ==
    CASE r.kind = "reject" -> "reject" [] r.kind = "canceled" -> "canceled" [] OTHER -> "cache"
\* handleReport fills the cache before it answers the calls.
FirstStep(r) == IF r.kind = "reject" THEN "reject" ELSE "cache"

Receive ==
    /\ input.pc = "idle"
    /\ reports # <<>>
    /\ input' = [pc |-> FirstStep(Head(reports)), msg |-> Head(reports)]
    /\ reports' = Tail(reports)
    /\ UNCHANGED <<args, pendingFilled, pendingCancel, cache, callFields, doneBuf, pc, ret,
                   wire, gateVars, applied>>

MutantKeepsOriginal(r) ==
    [cache EXCEPT ![r.id] = IF Kept(r) THEN [terms |-> r.terms, left |-> r.left] ELSE NoOrder]

\* ordersContainer.handleReport: the replaced order goes, the report's own
\* order is stored or, once it is done, removed.
Updated(r) ==
    [i \in Ids |->
        IF i = r.id THEN IF Kept(r) THEN [terms |-> r.terms, left |-> r.left] ELSE NoOrder
        ELSE IF r.kind = "replaced" /\ i = r.original THEN NoOrder
        ELSE cache[i]]

ApplyReport ==
    /\ input.pc = "cache"
    /\ cache' = Updated(input.msg)
    /\ applied' = input.msg.n
    /\ input' = [input EXCEPT !.pc = IF input.msg.kind = "canceled" THEN "canceled" ELSE "reply"]
    /\ UNCHANGED <<args, pendingFilled, pendingCancel, callFields, doneBuf, pc, ret, wire,
                   reports, gateVars>>

\* A Canceled report answers the calls in pendingCancel and nothing else.
AnswerCanceled ==
    LET calls == pendingCancel[input.msg.id] IN
    /\ input.pc = "canceled"
    /\ Reply' = [c \in Calls |-> IF c \in calls THEN input.msg ELSE Reply[c]]
    /\ doneBuf' = doneBuf \cup calls
    /\ input' = [input EXCEPT !.pc = "idle"]
    /\ UNCHANGED <<args, pendingFilled, pendingCancel, cache, Error, trades, pc, ret, wire,
                   reports, gateVars, applied>>

\* Any other report first goes into the call that placed the order: the Reply ...
SetReply ==
    LET c == pendingFilled[input.msg.id] IN
    /\ input.pc = "reply"
    /\ c # NoCall
    /\ Reply' = [Reply EXCEPT ![c] = input.msg]
    /\ input' = [input EXCEPT !.pc = IF input.msg.kind = "trade" THEN "trades" ELSE "done"]
    /\ UNCHANGED <<args, pendingFilled, pendingCancel, cache, Error, trades, doneBuf, pc, ret,
                   wire, reports, gateVars, applied>>

\* ... then the trade ...
AppendTrade ==
    /\ input.pc = "trades"
    /\ trades' = [trades EXCEPT ![pendingFilled[input.msg.id]] = @ + 1]
    /\ input' = [input EXCEPT !.pc = "done"]
    /\ UNCHANGED <<args, pendingFilled, pendingCancel, cache, Reply, Error, doneBuf, pc, ret,
                   wire, reports, gateVars, applied>>

MutantFirstReport(c, r) == TRUE
MutantOnlyFilled(c, r) == r.timeInForce = "IOC" => ~waitComplete[c] \/ Filled(r)
\* ... and then the signal: an IOC order may have to be complete first.
Answers(c, r) == r.timeInForce = "IOC" => ~waitComplete[c] \/ Filled(r) \/ r.kind = "expired"

MutantEveryTrade(r) ==
    IF r.kind = "replaced" THEN pendingCancel[r.original]
    ELSE IF r.kind = "trade" THEN pendingCancel[r.id] ELSE {}
\* Cancels and replaces are answered as well once the order is filled or replaced.
Resolved(r) ==
    IF r.kind = "replaced" THEN pendingCancel[r.original]
    ELSE IF Filled(r) THEN pendingCancel[r.id] ELSE {}

\* The new order's call and the cancels, before mx is released.
Signal ==
    LET c == pendingFilled[input.msg.id]
        calls == Resolved(input.msg) IN
    /\ input.pc = "done" \/ (input.pc = "reply" /\ c = NoCall)
    /\ Reply' = [d \in Calls |-> IF d \in calls THEN input.msg ELSE Reply[d]]
    /\ doneBuf' = doneBuf \cup calls
                    \cup IF c # NoCall /\ Answers(c, input.msg) THEN {c} ELSE {}
    /\ input' = [input EXCEPT !.pc = "idle"]
    /\ UNCHANGED <<args, pendingFilled, pendingCancel, cache, Error, trades, pc, ret, wire,
                   reports, gateVars, applied>>

MutantAllCancels(r) ==
    (IF pendingFilled[r.id] = NoCall THEN {} ELSE {pendingFilled[r.id]}) \cup pendingCancel[r.id]
\* A reject is for the call that places the order, whatever was rejected, and
\* for the cancel or replace with the request id of the reject.
Rejected(r) ==
    (IF pendingFilled[r.id] = NoCall THEN {} ELSE {pendingFilled[r.id]})
    \cup {c \in pendingCancel[r.id] : RequestId(c) = r.request}

AnswerReject ==
    LET calls == Rejected(input.msg) IN
    /\ input.pc = "reject"
    /\ Error' = [c \in Calls |-> IF c \in calls THEN "reject" ELSE Error[c]]
    /\ doneBuf' = doneBuf \cup calls
    /\ input' = [input EXCEPT !.pc = "idle"]
    /\ UNCHANGED <<args, pendingFilled, pendingCancel, cache, Reply, trades, pc, ret, wire,
                   reports, gateVars, applied>>

-----------------------------------------------------------------------------
(* The gate.                                                                 *)

Report(kind, i, order, tif, n) ==
    [kind |-> kind, id |-> i, terms |-> order.terms, left |-> order.left,
     timeInForce |-> tif, n |-> n]

\* A request is rejected, for a reason of the gate's own if need be.
GateReject ==
    LET r == Head(wire) IN
    /\ wire # <<>>
    /\ r.call \in Cancels => book[r.id] = NoOrder
    /\ wire' = Tail(wire)
    /\ rejected' = rejected \cup {r.call}
    /\ reports' = Append(reports, [kind |-> "reject", id |-> r.id,
                                   request |-> IF r.call \in News THEN NoCall ELSE r.request])
    /\ UNCHANGED <<args, pendingFilled, pendingCancel, cache, callFields, doneBuf, pc, ret,
                   input, book, sent, placed, born, fills, applied>>

\* A GTC order enters the book.
GatePlace ==
    LET r == Head(wire)
        order == [terms |-> terms[r.call], left |-> Quantity] IN
    /\ wire # <<>>
    /\ r.call \in News
    /\ timeInForce[r.call] = "GTC"
    /\ book[r.id] = NoOrder
    /\ wire' = Tail(wire)
    /\ book' = [book EXCEPT ![r.id] = order]
    /\ placed' = placed \cup {r.call}
    /\ sent' = sent + 1
    /\ born' = [born EXCEPT ![r.id] = sent + 1]
    /\ reports' = Append(reports, Report("new", r.id, order, "GTC", sent + 1))
    /\ UNCHANGED <<args, pendingFilled, pendingCancel, cache, callFields, doneBuf, pc, ret,
                   input, rejected, fills, applied>>

\* An IOC order is filled k times at once, and what is left expires.
GateExecute ==
    LET r == Head(wire)
        left(j) == [terms |-> terms[r.call], left |-> Quantity - j]
        ioc(kind, j, n) == Report(kind, r.id, left(j), "IOC", sent + n) IN
    /\ wire # <<>>
    /\ r.call \in News
    /\ timeInForce[r.call] = "IOC"
    /\ book[r.id] = NoOrder
    /\ wire' = Tail(wire)
    /\ placed' = placed \cup {r.call}
    /\ \E k \in 0 .. Quantity :
        /\ fills' = [fills EXCEPT ![r.call] = k]
        /\ LET news == <<ioc("new", 0, 1)>> \o [j \in 1 .. k |-> ioc("trade", j, j + 1)]
               all == IF k = Quantity THEN news ELSE Append(news, ioc("expired", k, k + 2)) IN
           reports' = reports \o all /\ sent' = sent + Len(all)
    /\ UNCHANGED <<args, pendingFilled, pendingCancel, cache, callFields, doneBuf, pc, ret,
                   input, book, rejected, born, applied>>

GateCancel ==
    LET r == Head(wire) IN
    /\ wire # <<>>
    /\ r.call \in Cancels
    /\ book[r.id] # NoOrder
    /\ wire' = Tail(wire)
    /\ book' = [book EXCEPT ![r.id] = NoOrder]
    /\ sent' = sent + 1
    /\ reports' = Append(reports, Report("canceled", r.id, book[r.id], "GTC", sent + 1))
    /\ UNCHANGED <<args, pendingFilled, pendingCancel, cache, callFields, doneBuf, pc, ret,
                   input, placed, rejected, born, fills, applied>>

\* The order goes on under the request's id and with its terms.
GateReplace ==
    LET r == Head(wire)
        order == [terms |-> terms[r.call], left |-> book[r.id].left] IN
    /\ wire # <<>>
    /\ r.call \in Replaces
    /\ book[r.id] # NoOrder
    /\ book[r.request] = NoOrder
    /\ wire' = Tail(wire)
    /\ book' = [book EXCEPT ![r.id] = NoOrder, ![r.request] = order]
    /\ sent' = sent + 1
    /\ born' = [born EXCEPT ![r.request] = sent + 1]
    /\ reports' = Append(reports, [kind |-> "replaced", id |-> r.request, original |-> r.id,
                                   terms |-> order.terms, left |-> order.left,
                                   timeInForce |-> "GTC", n |-> sent + 1])
    /\ UNCHANGED <<args, pendingFilled, pendingCancel, cache, callFields, doneBuf, pc, ret,
                   input, placed, rejected, fills, applied>>

\* Somebody trades with an order of the book.
GateFill(i) ==
    LET order == [book[i] EXCEPT !.left = @ - 1] IN
    /\ book[i] # NoOrder
    /\ book' = [book EXCEPT ![i] = IF order.left = 0 THEN NoOrder ELSE order]
    /\ fills' = [c \in News |->
                    IF c \in placed /\ id[c] = i /\ timeInForce[c] = "GTC" THEN fills[c] + 1
                    ELSE fills[c]]
    /\ sent' = sent + 1
    /\ reports' = Append(reports, Report("trade", i, order, "GTC", sent + 1))
    /\ UNCHANGED <<args, pendingFilled, pendingCancel, cache, callFields, doneBuf, pc, ret,
                   input, wire, placed, rejected, born, applied>>

-----------------------------------------------------------------------------
CallStep(c) ==
    \/ c \in News /\ (StartNew(c) \/ RegisterNew(c))
    \/ c \in Cancels /\ (StartCancel(c) \/ LookupPending(c) \/ RegisterCancel(c))
    \/ c \in Replaces /\ (StartReplace(c) \/ RegisterCancel(c))
    \/ Send(c) \/ Wake(c) \/ Collect(c) \/ Unregister(c)
InputStep ==
    \/ Receive \/ ApplyReport \/ AnswerCanceled \/ SetReply \/ AppendTrade \/ Signal
    \/ AnswerReject
GateStep == GateReject \/ GatePlace \/ GateExecute \/ GateCancel \/ GateReplace

Next ==
    \/ \E c \in Calls : CallStep(c) \/ Expire(c)
    \/ InputStep
    \/ GateStep
    \/ \E i \in Ids : GateFill(i)

Spec == Init /\ [][Next]_vars

\* Goroutines that can run do run (a call that is made goes on, but nobody has
\* to make one), and the gate handles every request; nobody has to trade and no
\* context has to expire.
Fairness ==
    /\ \A c \in Calls : WF_vars(pc[c] # "start" /\ CallStep(c))
    /\ WF_vars(InputStep)
    /\ WF_vars(GateStep)

FairSpec == Spec /\ Fairness

-----------------------------------------------------------------------------
(* Properties.                                                               *)

Succeeded(c) == pc[c] = "returned" /\ ret[c].err = "none"

\* The two maps name exactly the calls between their registration and their
\* deferred removal; so at most one NewOrder per client order id is under way.
PendingExact ==
    /\ \A i \in Ids, c \in News :
          pendingFilled[i] = c <=> pc[c] \in Registered /\ id[c] = i
    /\ \A i \in Ids : pendingCancel[i] =
          {c \in Cancels \cup Replaces : pc[c] \in Registered /\ id[c] = i}

\* When an operation returns with a report, the cache already reflects it: a
\* GetOrder made next sees the order as the report has it (zmq-trader.go:474).
ReadYourWrites ==
    \A c \in Calls : Succeeded(c) => ret[c].reply # NoReply /\ ret[c].reply.n <= applied

\* Once every report is applied the cached orders are the gate's orders.
CacheTracksBook == reports = <<>> /\ input.pc # "cache" => cache = book

OwnId(c) == \A d \in News \ {c} : id[d] = id[c] => pc[d] = "absent"

\* A NewOrder that asked to wait for an IOC order to complete returns its last
\* report and every one of its trades (zmq-trader.go:439), if nobody else uses its
\* client order id: a late report of another order with it would be taken for its own.
CompleteReply ==
    \A c \in News :
        Succeeded(c) /\ timeInForce[c] = "IOC" /\ waitComplete[c] /\ OwnId(c)
            => Final(ret[c].reply) /\ ret[c].trades = fills[c]

RefusedYetPlaced(c) ==
    pc[c] = "returned" /\ ret[c].err \in {"duplicate", "reject"} /\ c \in placed

\* A NewOrder that fails as a duplicate or with a reject has left no order at the
\* gate (handleRejectPayload, zmq-trader.go:352), unless what it was told of is the
\* rejection of another request with its client order id: of a cancel, of a replace,
\* or of a NewOrder whose caller has gone.
RejectMeansNotPlaced ==
    \A c \in News : RefusedYetPlaced(c) =>
        \E d \in rejected \ {c} : id[d] = id[c] /\ (d \in News => pc[d] = "returned")

\* The same without exception.  The code does not keep it: a cancel that reaches the gate
\* before the order is rejected under the order's id, and the NewOrder that waits under
\* that id is told so (zmq-trader.go:352).
RefusedIsNotPlaced == \A c \in News : ~RefusedYetPlaced(c)

\* A cancel or a replace is refused only if the gate refused that very request
\* (zmq-trader.go:363).
CancelRejectIsOwn ==
    \A c \in Cancels \cup Replaces :
        pc[c] = "returned" /\ ret[c].err = "reject" => c \in rejected

\* After a successful CancelOrder there is no such order at the gate, unless it
\* was placed after the report that CancelOrder returned.
CancelMeansGone ==
    \A c \in Cancels : Succeeded(c) =>
        \/ book[id[c]] = NoOrder
        \/ born[id[c]] > ret[c].reply.n

\* Every call that is registered returns, with no deadline to help it.
EveryCallReturns == \A c \in Calls : pc[c] \in Registered ~> pc[c] = "returned"

\* A NewOrder that succeeds has placed its order ("NewOrder place new order for
\* user", zmq-trader.go:127), also when its client order id was used before.
SuccessMeansPlaced == \A c \in News : Succeeded(c) => c \in placed

\* A NewOrder that returns a filled order returns all of its trades
\* (zmq-trader_internal_test.go:634 and :635).
FilledShowsAllTrades ==
    \A c \in News : Succeeded(c) /\ Filled(ret[c].reply) => ret[c].trades = fills[c]

\* A successful CancelOrder returns an order that is canceled or filled
\* (zmq-trader_internal_test.go:1071 and :1295).
CancelEndsOrder == \A c \in Cancels : Succeeded(c) => Final(ret[c].reply)
=============================================================================
