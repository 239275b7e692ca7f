-------------------------- MODULE OrderCallsProofs --------------------------
(***************************************************************************)
(* Theorems about OrderCalls, for any number of callers, ids and orders:   *)
(* types, the pending maps are exact, what an operation returns is cached, *)
(* a canceled order is gone, the cache ends as the book, a refusal is      *)
(* one's own, a NewOrder that is refused and placed all the same has an    *)
(* explanation, and an order awaited to completion is returned whole.      *)
(*                                                                         *)
(* Two of them hold only while no id is used again in a way that mixes     *)
(* the reports of two orders; the condition is part of the theorem and     *)
(* MCOrderCalls_reused.cfg shows one way in which it fails otherwise.      *)
(***************************************************************************)
EXTENDS OrderCalls, TLAPS

\* A call of one kind is a call, is no call of another kind, and is not NoCall.
LEMMA CallKinds ==
    /\ \A c \in News : c \in Calls /\ c \notin Cancels /\ c \notin Replaces /\ c # NoCall
    /\ \A c \in Cancels \cup Replaces : c \in Calls /\ c \notin News
    /\ \A c \in Calls : c \in News \/ c \in Cancels \cup Replaces
  BY CallsAssumption DEF Calls

\* What registration means, with the type it needs.
RegistrationInv == CallsTypeOK /\ PendingExact

LEMMA InitRegistration == Init => RegistrationInv
<1> SUFFICES ASSUME Init PROVE RegistrationInv
  OBVIOUS
<1>1. CallsTypeOK
  BY DEF Init, CallsTypeOK, CallStates
<1>2. PendingExact
  BY CallKinds DEF Init, PendingExact, Registered
<1> QED
  BY <1>1, <1>2 DEF RegistrationInv

\* A caller's step that leaves both maps alone must not cross the border of
\* Registered.
LEMMA MoveKeepsRegistration ==
    ASSUME RegistrationInv, NEW c \in Calls, NEW to \in CallStates,
           pc' = [pc EXCEPT ![c] = to],
           pc[c] \in Registered <=> to \in Registered,
           UNCHANGED <<id, pendingFilled, pendingCancel>>
    PROVE  RegistrationInv'
<1>1. CallsTypeOK'
  BY DEF RegistrationInv, CallsTypeOK
<1>2. PendingExact'
  BY CallKinds DEF RegistrationInv, CallsTypeOK, PendingExact
<1> QED
  BY <1>1, <1>2 DEF RegistrationInv

\* Neither does a step of input() or of the gate.
LEMMA OthersKeepRegistration ==
    ASSUME RegistrationInv, UNCHANGED <<id, pc, pendingFilled, pendingCancel>>
    PROVE  RegistrationInv'
  BY DEF RegistrationInv, CallsTypeOK, PendingExact

LEMMA NextRegistration == RegistrationInv /\ [Next]_vars => RegistrationInv'
<1> SUFFICES ASSUME RegistrationInv, [Next]_vars PROVE RegistrationInv'
  OBVIOUS
<1>t. /\ pc \in [Calls -> CallStates]
      /\ id \in [Calls -> Ids]
      /\ pendingFilled \in [Ids -> News \cup {NoCall}]
      /\ pendingCancel \in [Ids -> SUBSET (Cancels \cup Replaces)]
      /\ PendingExact
  BY DEF RegistrationInv, CallsTypeOK
<1>1. ASSUME NEW c \in News, StartNew(c) PROVE RegistrationInv'
  <2>1. \E to \in {"returned", "register"} : pc[c] = "start" /\ pc' = [pc EXCEPT ![c] = to]
    BY <1>1 DEF StartNew, Return, Goto
  <2> QED
    BY <1>1, <2>1, CallKinds, MoveKeepsRegistration DEF StartNew, args, Registered, CallStates
<1>2. ASSUME NEW c \in Cancels, StartCancel(c) PROVE RegistrationInv'
  <2>1. \E to \in {"lookup", "register"} : pc[c] = "start" /\ pc' = [pc EXCEPT ![c] = to]
    BY <1>2 DEF StartCancel, Goto
  <2> QED
    BY <1>2, <2>1, CallKinds, MoveKeepsRegistration DEF StartCancel, args, Registered, CallStates
<1>3. ASSUME NEW c \in Replaces, StartReplace(c) PROVE RegistrationInv'
  <2>1. \E to \in {"returned", "register"} : pc[c] = "start" /\ pc' = [pc EXCEPT ![c] = to]
    BY <1>3 DEF StartReplace, Return, Goto
  <2> QED
    BY <1>3, <2>1, CallKinds, MoveKeepsRegistration DEF StartReplace, args, Registered, CallStates
<1>4. ASSUME NEW c \in Cancels, LookupPending(c) PROVE RegistrationInv'
  <2>1. \E to \in {"returned", "register"} : pc[c] = "lookup" /\ pc' = [pc EXCEPT ![c] = to]
    BY <1>4 DEF LookupPending, Return, Goto
  <2> QED
    BY <1>4, <2>1, CallKinds, MoveKeepsRegistration DEF LookupPending, args, Registered, CallStates
<1>5. ASSUME NEW c \in News, RegisterNew(c) PROVE RegistrationInv'
  <2>c. c \in Calls /\ id' = id /\ pendingCancel' = pendingCancel
    BY <1>5, CallKinds DEF RegisterNew, args
  <2>1. CASE Return(c, "register", "duplicate") /\ UNCHANGED pendingFilled
    <3>1. pc[c] = "register" /\ pc' = [pc EXCEPT ![c] = "returned"]
      BY <2>1 DEF Return, Goto
    <3> QED
      BY <2>1, <2>c, <3>1, MoveKeepsRegistration DEF Registered, CallStates
  <2>2. CASE /\ pendingFilled[id[c]] = NoCall
             /\ Goto(c, "register", "send")
             /\ pendingFilled' = [pendingFilled EXCEPT ![id[c]] = c]
    <3>1. /\ pc[c] \notin Registered /\ pc'[c] \in Registered
          /\ pc' \in [Calls -> CallStates]
          /\ \A d \in Calls \ {c} : pc'[d] = pc[d]
      BY <2>2, <2>c, <1>t DEF Goto, Registered, CallStates
    <3>2. CallsTypeOK'
      BY <2>2, <2>c, <3>1, <1>t DEF CallsTypeOK
    <3>3. \A i \in Ids, d \in News :
             pendingFilled'[i] = d <=> pc'[d] \in Registered /\ id'[d] = i
      BY <2>2, <2>c, <3>1, <1>t, CallKinds DEF PendingExact
    <3>4. \A i \in Ids : pendingCancel'[i] =
             {d \in Cancels \cup Replaces : pc'[d] \in Registered /\ id'[d] = i}
      BY <2>c, <3>1, <1>t, CallKinds DEF PendingExact
    <3> QED
      BY <3>2, <3>3, <3>4 DEF RegistrationInv, PendingExact
  <2> QED
    BY <1>5, <2>1, <2>2 DEF RegisterNew, Duplicate
<1>6. ASSUME NEW c \in Cancels \cup Replaces, RegisterCancel(c) PROVE RegistrationInv'
  <2>1. /\ c \in Calls /\ id' = id /\ pendingFilled' = pendingFilled
        /\ pendingCancel' = [pendingCancel EXCEPT ![id[c]] = @ \cup {c}]
        /\ pc[c] = "register" /\ pc' = [pc EXCEPT ![c] = "send"]
    BY <1>6, CallKinds DEF RegisterCancel, Goto, args
  <2>2. /\ pc[c] \notin Registered /\ pc'[c] \in Registered
        /\ pc' \in [Calls -> CallStates]
        /\ \A d \in Calls \ {c} : pc'[d] = pc[d]
    BY <2>1, <1>t DEF Registered, CallStates
  <2>3. CallsTypeOK'
    BY <2>1, <2>2, <1>t DEF CallsTypeOK
  <2>4. \A i \in Ids, d \in News :
           pendingFilled'[i] = d <=> pc'[d] \in Registered /\ id'[d] = i
    BY <2>1, <2>2, <1>t, CallKinds DEF PendingExact
  <2>5. \A i \in Ids : pendingCancel'[i] =
           {d \in Cancels \cup Replaces : pc'[d] \in Registered /\ id'[d] = i}
    BY <2>1, <2>2, <1>t, CallKinds DEF PendingExact
  <2> QED
    BY <2>3, <2>4, <2>5 DEF RegistrationInv, PendingExact
<1>7. ASSUME NEW c \in Calls, Send(c) PROVE RegistrationInv'
  <2>1. \E to \in {"wait", "unregister"} : pc[c] = "send" /\ pc' = [pc EXCEPT ![c] = to]
    BY <1>7 DEF Send, Goto
  <2> QED
    BY <1>7, <2>1, MoveKeepsRegistration DEF Send, args, Registered, CallStates
<1>8. ASSUME NEW c \in Calls, Wake(c) PROVE RegistrationInv'
  <2>1. pc[c] = "wait" /\ pc' = [pc EXCEPT ![c] = "collect"]
    BY <1>8 DEF Wake, Goto
  <2> QED
    BY <1>8, <2>1, MoveKeepsRegistration DEF Wake, args, Registered, CallStates
<1>9. ASSUME NEW c \in Calls, Collect(c) PROVE RegistrationInv'
  <2>1. pc[c] = "collect" /\ pc' = [pc EXCEPT ![c] = "unregister"]
    BY <1>9 DEF Collect, Goto
  <2> QED
    BY <1>9, <2>1, MoveKeepsRegistration DEF Collect, args, Registered, CallStates
<1>10. ASSUME NEW c \in Calls, Expire(c) PROVE RegistrationInv'
  <2>1. pc[c] = "wait" /\ pc' = [pc EXCEPT ![c] = "unregister"]
    BY <1>10 DEF Expire, Goto
  <2> QED
    BY <1>10, <2>1, MoveKeepsRegistration DEF Expire, args, Registered, CallStates
<1>11. ASSUME NEW c \in Calls, Unregister(c) PROVE RegistrationInv'
  <2>1. /\ id' = id
        /\ pc[c] \in Registered /\ pc'[c] \notin Registered
        /\ pc' \in [Calls -> CallStates]
        /\ \A d \in Calls \ {c} : pc'[d] = pc[d]
    BY <1>11, <1>t DEF Unregister, Goto, Registered, CallStates, args
  <2>2. CASE c \in News
    <3>1. /\ pendingFilled' = [pendingFilled EXCEPT ![id[c]] = NoCall]
          /\ pendingCancel' = pendingCancel
      BY <1>11, <2>2 DEF Unregister
    <3>2. CallsTypeOK'
      BY <2>1, <3>1, <1>t DEF CallsTypeOK
    <3>3. \A i \in Ids, d \in News :
             pendingFilled'[i] = d <=> pc'[d] \in Registered /\ id'[d] = i
      BY <2>1, <2>2, <3>1, <1>t, CallKinds DEF PendingExact
    <3>4. \A i \in Ids : pendingCancel'[i] =
             {d \in Cancels \cup Replaces : pc'[d] \in Registered /\ id'[d] = i}
      BY <2>1, <2>2, <3>1, <1>t, CallKinds DEF PendingExact
    <3> QED
      BY <3>2, <3>3, <3>4 DEF RegistrationInv, PendingExact
  <2>3. CASE c \in Cancels \cup Replaces
    <3>1. /\ pendingFilled' = pendingFilled
          /\ pendingCancel' = [pendingCancel EXCEPT ![id[c]] = @ \ {c}]
      BY <1>11, <2>3, CallKinds DEF Unregister, Others
    <3>2. CallsTypeOK'
      BY <2>1, <3>1, <1>t DEF CallsTypeOK
    <3>3. \A i \in Ids, d \in News :
             pendingFilled'[i] = d <=> pc'[d] \in Registered /\ id'[d] = i
      BY <2>1, <2>3, <3>1, <1>t, CallKinds DEF PendingExact
    <3>4. \A i \in Ids : pendingCancel'[i] =
             {d \in Cancels \cup Replaces : pc'[d] \in Registered /\ id'[d] = i}
      BY <2>1, <2>3, <3>1, <1>t, CallKinds DEF PendingExact
    <3> QED
      BY <3>2, <3>3, <3>4 DEF RegistrationInv, PendingExact
  <2> QED
    BY <2>2, <2>3, CallKinds
<1>12. CASE InputStep
  BY <1>12, OthersKeepRegistration
     DEF InputStep, Receive, ApplyReport, AnswerCanceled, SetReply, AppendTrade, Signal,
         AnswerReject, args
<1>13. CASE GateStep \/ \E i \in Ids : GateFill(i)
  BY <1>13, OthersKeepRegistration
     DEF GateStep, GateReject, GatePlace, GateExecute, GateCancel, GateReplace, GateFill, args
<1>14. CASE UNCHANGED vars
  BY <1>14, OthersKeepRegistration DEF vars, args
<1> QED
  BY <1>1, <1>2, <1>3, <1>4, <1>5, <1>6, <1>7, <1>8, <1>9, <1>10, <1>11, <1>12, <1>13, <1>14
     DEF Next, CallStep

\* The reports and rejects of an order find exactly the calls that wait for
\* them, and two NewOrders never wait under one client order id: the check and
\* the registration (zmq-trader.go:145) are atomic, and no deferred removal
\* takes away the registration of another call.
THEOREM PendingIsExact == Spec => []PendingExact
<1>1. Init => RegistrationInv
  BY InitRegistration
<1>2. RegistrationInv /\ [Next]_vars => RegistrationInv'
  BY NextRegistration
<1>3. RegistrationInv => PendingExact
  BY DEF RegistrationInv
<1> QED
  BY <1>1, <1>2, <1>3, PTL DEF Spec

-----------------------------------------------------------------------------
(* What a caller is told of is in the cache.                                 *)

Rejects == [kind : {"reject"}, id : Ids, request : Ids \cup Calls \cup {NoCall}]
Requests ==
    {r \in [call : Calls, id : Ids, request : Ids \cup Calls] :
        r.call \in Replaces => r.request \in Ids}

\* The parts of the type that messages depend on.
MessagesTyped ==
    /\ newId \in [Replaces -> Ids]
    /\ terms \in [News \cup Replaces -> Terms]
    /\ timeInForce \in [News -> {"GTC", "IOC"}]
    /\ book \in [Ids -> Orders \cup {NoOrder}]
    /\ wire \in Seq(Requests)
    /\ reports \in Seq(OrderReports \cup Rejects)
    /\ sent \in Nat
    /\ input.pc \in {"idle", "cache", "canceled", "reply", "trades", "done", "reject"}
    /\ input.pc # "idle" => input = [pc |-> input.pc, msg |-> input.msg]
    /\ input.pc = "reject" => input.msg \in Rejects
    /\ input.pc \in {"cache", "canceled", "reply", "trades", "done"} => input.msg \in OrderReports

LEMMA ReportFields ==
    ASSUME NEW m \in OrderReports
    PROVE  /\ m.kind # "reject" /\ m.id \in Ids /\ m.n \in Nat /\ m.left \in 0 .. Quantity
           /\ m # NoReply
           /\ m.kind = "replaced" => m.original \in Ids
  BY ReplyAssumption DEF OrderReports

LEMMA RejectFields ==
    ASSUME NEW m \in Rejects
    PROVE  m.kind = "reject" /\ m.id \in Ids /\ m \notin OrderReports
  BY ReportFields DEF Rejects

LEMMA ReportTyped ==
    ASSUME NEW kind \in {"new", "trade", "canceled", "expired"}, NEW i \in Ids, NEW order,
           order.terms \in Terms, order.left \in 0 .. Quantity,
           NEW tif \in {"GTC", "IOC"}, NEW n \in Nat
    PROVE  LET m == Report(kind, i, order, tif, n) IN
           /\ m \in OrderReports
           /\ m.kind = kind /\ m.id = i /\ m.left = order.left /\ m.n = n
  BY DEF Report, OrderReports

\* The gate numbers its reports.
Reporting(new) ==
    /\ new \in Seq(OrderReports)
    /\ reports' = reports \o new
    /\ sent' = sent + Len(new)
    /\ \A j \in 1 .. Len(new) : new[j].n = sent + j

\* What a step of the gate does to messages and book.
GateEffect ==
    /\ UNCHANGED <<args, pendingFilled, pendingCancel, cache, callFields, doneBuf, pc, ret,
                   input, applied>>
    /\ book' \in [Ids -> Orders \cup {NoOrder}]
    /\ wire' \in Seq(Requests)
    /\ \/ \E new \in Seq(OrderReports) : Reporting(new)
       \/ \E r \in Rejects : reports' = Append(reports, r) /\ sent' = sent

LEMMA Concatenation ==
    ASSUME NEW S, NEW a \in Seq(S), NEW b \in Seq(S)
    PROVE  /\ a \o b \in Seq(S) /\ Len(a \o b) = Len(a) + Len(b)
           /\ \A i \in 1 .. Len(a) : (a \o b)[i] = a[i]
           /\ \A i \in Len(a) + 1 .. Len(a) + Len(b) : (a \o b)[i] = b[i - Len(a)]
  OBVIOUS

LEMMA OneReport ==
    ASSUME MessagesTyped, NEW m \in OrderReports, m.n = sent + 1,
           reports' = Append(reports, m), sent' = sent + 1
    PROVE  \E new \in Seq(OrderReports) : Reporting(new)
<1>1. <<m>> \in Seq(OrderReports) /\ Len(<<m>>) = 1 /\ <<m>>[1] = m
  OBVIOUS
<1>2. Append(reports, m) = reports \o <<m>>
  BY DEF MessagesTyped
<1>3. \A j \in 1 .. Len(<<m>>) : <<m>>[j].n = sent + j
  BY <1>1
<1>4. Reporting(<<m>>)
  BY <1>1, <1>2, <1>3 DEF Reporting
<1> QED
  BY <1>1, <1>4

LEMMA HeadTyped ==
    ASSUME MessagesTyped, wire # <<>>
    PROVE  /\ Head(wire) \in Requests /\ Tail(wire) \in Seq(Requests)
           /\ Head(wire).id \in Ids /\ Head(wire).call \in Calls
           /\ Head(wire).request \in Ids \cup Calls
           /\ Head(wire).call \in Replaces => Head(wire).request \in Ids
<1>1. Head(wire) \in Requests /\ Tail(wire) \in Seq(Requests)
  BY DEF MessagesTyped
<1> QED
  BY <1>1 DEF Requests

\* What the j-th report of an IOC order that is filled k times is.
KindOf(j, k) == IF j = 1 THEN "new" ELSE IF j <= k + 1 THEN "trade" ELSE "expired"
LeftAt(j, k) == IF j <= k + 1 THEN Quantity - (j - 1) ELSE Quantity - k
ReportsOf(k) == IF k = Quantity THEN k + 1 ELSE k + 2

LEMMA ExecuteScript ==
    ASSUME MessagesTyped, GateExecute
    PROVE  \E k \in 0 .. Quantity, new \in Seq(OrderReports) :
              /\ fills' = [fills EXCEPT ![Head(wire).call] = k]
              /\ Reporting(new)
              /\ Len(new) = ReportsOf(k)
              /\ \A j \in 1 .. Len(new) :
                    /\ new[j].id = Head(wire).id /\ new[j].timeInForce = "IOC"
                    /\ new[j].kind = KindOf(j, k) /\ new[j].left = LeftAt(j, k)
<1>0. Quantity \in Nat /\ Quantity > 0 /\ sent \in Nat /\ sent + 1 \in Nat
  BY QuantityAssumption DEF MessagesTyped
<1> DEFINE r == Head(wire)
           left(j) == [terms |-> terms[r.call], left |-> Quantity - j]
           ioc(kind, j, n) == Report(kind, r.id, left(j), "IOC", sent + n)
<1>1. PICK k \in 0 .. Quantity :
         /\ fills' = [fills EXCEPT ![r.call] = k]
         /\ LET news == <<ioc("new", 0, 1)>> \o [j \in 1 .. k |-> ioc("trade", j, j + 1)]
                all == IF k = Quantity THEN news ELSE Append(news, ioc("expired", k, k + 2)) IN
            reports' = reports \o all /\ sent' = sent + Len(all)
  BY DEF GateExecute
<1>2. r.id \in Ids /\ terms[r.call] \in Terms
  BY HeadTyped DEF GateExecute, MessagesTyped
<1>3. ASSUME NEW kind \in {"new", "trade", "expired"}, NEW j \in 0 .. Quantity, NEW n \in Nat
      PROVE  LET m == ioc(kind, j, n) IN
             /\ m \in OrderReports /\ m.n = sent + n /\ m.kind = kind
             /\ m.left = Quantity - j /\ m.id = r.id /\ m.timeInForce = "IOC"
  <2> DEFINE order == left(j)
             m == Report(kind, r.id, order, "IOC", sent + n)
  <2>1. order.terms = terms[r.call] /\ order.left = Quantity - j
    OBVIOUS
  <2>2. Quantity - j \in 0 .. Quantity /\ sent + n \in Nat
    BY <1>0
  <2>3. order.terms \in Terms /\ order.left \in 0 .. Quantity
    BY <1>2, <2>1, <2>2
  <2>4. m.timeInForce = "IOC"
    BY DEF Report
  <2>5. m = ioc(kind, j, n)
    OBVIOUS
  <2> HIDE DEF order
  <2>6. /\ m \in OrderReports /\ m.kind = kind /\ m.id = r.id /\ m.n = sent + n
        /\ m.left = order.left
    BY <1>2, <2>2, <2>3, ReportTyped
  <2> HIDE DEF m, ioc
  <2> QED
    BY <2>1, <2>4, <2>5, <2>6
<1> HIDE DEF ioc
<1> DEFINE Says(m, j) ==
             /\ m \in OrderReports /\ m.n = sent + j
             /\ m.id = r.id /\ m.timeInForce = "IOC"
             /\ m.kind = KindOf(j, k) /\ m.left = LeftAt(j, k)
           first == <<ioc("new", 0, 1)>>
           fills1 == [j \in 1 .. k |-> ioc("trade", j, j + 1)]
           news == first \o fills1
           all == IF k = Quantity THEN news ELSE Append(news, ioc("expired", k, k + 2))
<1>4. k \in Nat /\ k + 1 \in Nat /\ k + 2 \in Nat /\ k <= Quantity /\ 0 \in 0 .. Quantity /\ 1 \in Nat
  BY <1>0
<1>5. first \in Seq(OrderReports) /\ Len(first) = 1 /\ Says(first[1], 1)
  <2>1. LET m == ioc("new", 0, 1) IN
        /\ m \in OrderReports /\ m.n = sent + 1 /\ m.kind = "new"
        /\ m.left = Quantity - 0 /\ m.id = r.id /\ m.timeInForce = "IOC"
    BY <1>3, <1>4
  <2>2. KindOf(1, k) = "new" /\ LeftAt(1, k) = Quantity - 0
    BY <1>0, <1>4 DEF KindOf, LeftAt
  <2> QED
    BY <2>1, <2>2
<1>6. /\ fills1 \in Seq(OrderReports) /\ Len(fills1) = k
      /\ \A j \in 1 .. k : Says(fills1[j], j + 1)
  <2>1. ASSUME NEW j \in 1 .. k PROVE Says(ioc("trade", j, j + 1), j + 1)
    <3>1. j \in 0 .. Quantity /\ j + 1 \in Nat
      BY <1>0, <1>4
    <3>2. LET m == ioc("trade", j, j + 1) IN
          /\ m \in OrderReports /\ m.n = sent + (j + 1) /\ m.kind = "trade"
          /\ m.left = Quantity - j /\ m.id = r.id /\ m.timeInForce = "IOC"
      BY <1>3, <3>1
    <3>3. KindOf(j + 1, k) = "trade" /\ LeftAt(j + 1, k) = Quantity - j
      BY <1>0, <1>4 DEF KindOf, LeftAt
    <3> QED
      BY <3>2, <3>3
  <2>2. fills1 \in [1 .. k -> OrderReports]
    BY <2>1
  <2>3. fills1 \in Seq(OrderReports) /\ Len(fills1) = k
    BY <1>4, <2>2
  <2> QED
    BY <2>1, <2>3
<1> HIDE DEF first, fills1, Says
<1>7. /\ news \in Seq(OrderReports) /\ Len(news) = k + 1
      /\ \A j \in 1 .. k + 1 : Says(news[j], j)
  <2>1. /\ news \in Seq(OrderReports) /\ Len(news) = k + 1 /\ news[1] = first[1]
        /\ \A j \in 2 .. k + 1 : news[j] = fills1[j - 1]
    <3>1. /\ news \in Seq(OrderReports) /\ Len(news) = Len(first) + Len(fills1)
          /\ \A i \in 1 .. Len(first) : news[i] = first[i]
          /\ \A i \in Len(first) + 1 .. Len(first) + Len(fills1) :
                news[i] = fills1[i - Len(first)]
      <4>1. first \in Seq(OrderReports) /\ fills1 \in Seq(OrderReports)
        BY <1>5, <1>6
      <4> QED
        BY <4>1, Concatenation, ZenonT(30)
    <3> HIDE DEF news
    <3> QED
      BY <1>4, <1>5, <1>6, <3>1
  <2>2. ASSUME NEW j \in 1 .. k + 1 PROVE Says(news[j], j)
    <3>1. CASE j = 1
      BY <1>5, <2>1, <3>1
    <3>2. CASE j # 1
      <4>1. j \in 2 .. k + 1 /\ j - 1 \in 1 .. k /\ (j - 1) + 1 = j
        BY <1>4, <3>2
      <4>2. news[j] = fills1[j - 1] /\ Says(fills1[j - 1], (j - 1) + 1)
        BY <1>6, <2>1, <4>1
      <4> QED
        BY <4>1, <4>2
    <3> QED
      BY <3>1, <3>2
  <2> QED
    BY <2>1, <2>2
<1> HIDE DEF news
<1>8. /\ all \in Seq(OrderReports) /\ Len(all) = ReportsOf(k)
      /\ \A j \in 1 .. Len(all) : Says(all[j], j)
  <2>1. CASE k = Quantity
    BY <1>7, <2>1 DEF ReportsOf
  <2>2. CASE k # Quantity
    <3> DEFINE last == ioc("expired", k, k + 2)
    <3>1. last \in OrderReports /\ Says(last, k + 2)
      <4>1. /\ last \in OrderReports /\ last.n = sent + (k + 2) /\ last.kind = "expired"
            /\ last.left = Quantity - k /\ last.id = r.id /\ last.timeInForce = "IOC"
        BY <1>3, <1>4
      <4>2. KindOf(k + 2, k) = "expired" /\ LeftAt(k + 2, k) = Quantity - k
        BY <1>4 DEF KindOf, LeftAt
      <4> QED
        BY <4>1, <4>2 DEF Says
    <3>2. all = Append(news, last)
      BY <2>2
    <3> HIDE DEF last, all
    <3>3. /\ all \in Seq(OrderReports) /\ Len(all) = k + 2 /\ all[k + 2] = last
          /\ \A j \in 1 .. k + 1 : all[j] = news[j]
      BY <1>4, <1>7, <3>1, <3>2
    <3>4. \A j \in 1 .. k + 2 : j \in 1 .. k + 1 \/ j = k + 2
      BY <1>4
    <3> QED
      BY <1>7, <2>2, <3>1, <3>3, <3>4 DEF ReportsOf
  <2> QED
    BY <2>1, <2>2
<1>9. reports' = reports \o all /\ sent' = sent + Len(all)
  BY <1>1 DEF news, first, fills1, ioc
<1> HIDE DEF all
<1>10. Reporting(all)
  BY <1>8, <1>9 DEF Reporting, Says
<1>11. \A j \in 1 .. Len(all) :
          /\ all[j].id = r.id /\ all[j].timeInForce = "IOC"
          /\ all[j].kind = KindOf(j, k) /\ all[j].left = LeftAt(j, k)
  BY <1>8 DEF Says
<1> QED
  BY <1>1, <1>8, <1>10, <1>11

\* The reports of an IOC order are all about it, and the last one ends it.
LEMMA ExecuteReports ==
    ASSUME MessagesTyped, GateExecute
    PROVE  \E new \in Seq(OrderReports) :
              /\ Reporting(new)
              /\ \A j \in 1 .. Len(new) :
                    /\ new[j].id = Head(wire).id /\ new[j].kind # "replaced"
                    /\ new[j].kind = "new" => new[j].left > 0
              /\ Len(new) > 0 /\ ~Kept(new[Len(new)])
<1>0. Quantity \in Nat /\ Quantity > 0
  BY QuantityAssumption
<1>1. PICK k \in 0 .. Quantity, new \in Seq(OrderReports) :
         /\ Reporting(new) /\ Len(new) = ReportsOf(k)
         /\ \A j \in 1 .. Len(new) :
               /\ new[j].id = Head(wire).id
               /\ new[j].kind = KindOf(j, k) /\ new[j].left = LeftAt(j, k)
  BY ExecuteScript
<1>2. \A j \in 1 .. Len(new) :
         /\ new[j].id = Head(wire).id /\ new[j].kind # "replaced"
         /\ new[j].kind = "new" => new[j].left > 0
  BY <1>0, <1>1 DEF KindOf, LeftAt
<1>3. Len(new) > 0 /\ Len(new) \in 1 .. Len(new)
  BY <1>0, <1>1 DEF ReportsOf
<1>4. ~Kept(new[Len(new)])
  <2>1. new[Len(new)].kind = KindOf(Len(new), k) /\ new[Len(new)].left = LeftAt(Len(new), k)
    BY <1>1, <1>3
  <2>2. CASE k = Quantity
    <3>1. new[Len(new)].kind = "trade" /\ new[Len(new)].left = 0
      BY <1>0, <1>1, <2>1, <2>2 DEF KindOf, LeftAt, ReportsOf
    <3> QED
      BY <3>1 DEF Kept
  <2>3. CASE k # Quantity
    <3>1. new[Len(new)].kind = "expired"
      BY <1>0, <1>1, <2>1, <2>3 DEF KindOf, ReportsOf
    <3> QED
      BY <3>1 DEF Kept
  <2> QED
    BY <2>2, <2>3
<1> QED
  BY <1>1, <1>2, <1>3, <1>4

LEMMA GateSteps ==
    ASSUME MessagesTyped, GateStep \/ \E i \in Ids : GateFill(i)
    PROVE  GateEffect
<1>0. Quantity \in Nat /\ Quantity > 0 /\ sent \in Nat /\ sent + 1 \in Nat
  BY QuantityAssumption DEF MessagesTyped
<1>k. News \subseteq Calls
  BY DEF Calls
<1>1. CASE GateReject
  <2> DEFINE r == Head(wire)
             m == [kind |-> "reject", id |-> r.id,
                   request |-> IF r.call \in News THEN NoCall ELSE r.request]
  <2>1. m \in Rejects
    BY <1>1, HeadTyped DEF GateReject, Rejects
  <2> QED
    BY <1>1, <2>1, HeadTyped DEF GateReject, GateEffect, MessagesTyped
<1>2. CASE GatePlace
  <2> DEFINE r == Head(wire)
             order == [terms |-> terms[r.call], left |-> Quantity]
  <2>1. /\ order \in Orders /\ order.terms \in Terms /\ order.left = Quantity
        /\ Quantity \in 0 .. Quantity /\ r.id \in Ids
    BY <1>0, <1>2, HeadTyped DEF GatePlace, MessagesTyped, Orders
  <2> DEFINE m == Report("new", r.id, order, "GTC", sent + 1)
  <2>2. m \in OrderReports /\ m.n = sent + 1
    BY <1>0, <2>1, ReportTyped
  <2>3. \E new \in Seq(OrderReports) : Reporting(new)
    BY <1>2, <2>2, OneReport DEF GatePlace
  <2>4. book' \in [Ids -> Orders \cup {NoOrder}]
    BY <1>2, <2>1 DEF GatePlace, MessagesTyped
  <2> QED
    BY <1>2, <2>3, <2>4, HeadTyped DEF GatePlace, GateEffect
<1>3. CASE GateExecute
  <2>1. \E new \in Seq(OrderReports) : Reporting(new)
    BY <1>3, ExecuteReports
  <2> QED
    BY <1>3, <2>1, HeadTyped DEF GateExecute, GateEffect, MessagesTyped
<1>4. CASE GateCancel
  <2> DEFINE r == Head(wire)
             m == Report("canceled", r.id, book[r.id], "GTC", sent + 1)
  <2>1. book[r.id] \in Orders /\ r.id \in Ids
    BY <1>4, HeadTyped DEF GateCancel, MessagesTyped
  <2>2. book[r.id].terms \in Terms /\ book[r.id].left \in 0 .. Quantity
    BY <1>0, <2>1 DEF Orders
  <2>3. m \in OrderReports /\ m.n = sent + 1
    BY <1>0, <2>1, <2>2, ReportTyped
  <2>4. \E new \in Seq(OrderReports) : Reporting(new)
    BY <1>4, <2>3, OneReport DEF GateCancel
  <2>5. book' \in [Ids -> Orders \cup {NoOrder}]
    BY <1>4 DEF GateCancel, MessagesTyped
  <2> QED
    BY <1>4, <2>4, <2>5, HeadTyped DEF GateCancel, GateEffect
<1>5. CASE GateReplace
  <2> DEFINE r == Head(wire)
             order == [terms |-> terms[r.call], left |-> book[r.id].left]
             m == [kind |-> "replaced", id |-> r.request, original |-> r.id,
                   terms |-> order.terms, left |-> order.left,
                   timeInForce |-> "GTC", n |-> sent + 1]
  <2>1. book[r.id] \in Orders /\ r.id \in Ids /\ r.request \in Ids
    BY <1>5, HeadTyped DEF GateReplace, MessagesTyped
  <2>2. terms[r.call] \in Terms /\ book[r.id].left \in 1 .. Quantity
    BY <1>5, <2>1 DEF GateReplace, MessagesTyped, Orders
  <2>3. order \in Orders /\ order.left \in 0 .. Quantity /\ order.terms \in Terms
    BY <1>0, <2>2 DEF Orders
  <2>4. m \in OrderReports /\ m.n = sent + 1
    BY <1>0, <2>1, <2>3 DEF OrderReports
  <2>5. \E new \in Seq(OrderReports) : Reporting(new)
    BY <1>5, <2>4, OneReport DEF GateReplace
  <2>6. book' \in [Ids -> Orders \cup {NoOrder}]
    BY <1>5, <2>3 DEF GateReplace, MessagesTyped
  <2> QED
    BY <1>5, <2>5, <2>6, HeadTyped DEF GateReplace, GateEffect
<1>6. ASSUME NEW i \in Ids, GateFill(i) PROVE GateEffect
  <2> DEFINE order == [book[i] EXCEPT !.left = @ - 1]
             m == Report("trade", i, order, "GTC", sent + 1)
  <2>1. book[i] \in Orders
    BY <1>6 DEF GateFill, MessagesTyped
  <2>2. /\ order.terms \in Terms /\ order.left \in 0 .. Quantity
        /\ order.left # 0 => order \in Orders
    BY <1>0, <2>1 DEF Orders
  <2> HIDE DEF order
  <2>3. m \in OrderReports /\ m.n = sent + 1
    BY <1>0, <2>2, ReportTyped
  <2>4. \E new \in Seq(OrderReports) : Reporting(new)
    BY <1>6, <2>3, OneReport DEF GateFill, order
  <2>5. book' \in [Ids -> Orders \cup {NoOrder}]
    BY <1>6, <2>2 DEF GateFill, MessagesTyped, order
  <2> QED
    BY <1>6, <2>4, <2>5 DEF GateFill, GateEffect, MessagesTyped
<1> QED
  BY <1>1, <1>2, <1>3, <1>4, <1>5, <1>6 DEF GateStep

\* What the callers do to the messages.
LEMMA CallersKeepMessages ==
    ASSUME RegistrationInv, MessagesTyped, NEW c \in Calls, CallStep(c) \/ Expire(c)
    PROVE  /\ MessagesTyped'
           /\ UNCHANGED <<input, reports, sent, applied, Reply, Error>>
<1> USE DEF args, gateVars, callFields
<1>1. /\ UNCHANGED <<newId, terms, timeInForce, book, reports, sent, input, applied, Reply, Error>>
      /\ wire' = wire \/ wire' = Append(wire, Request(c))
  BY DEF CallStep, Expire, StartNew, RegisterNew, StartCancel, LookupPending, RegisterCancel,
         StartReplace, Send, Wake, Collect, Unregister
<1>2. Request(c) \in Requests
  BY DEF RegistrationInv, CallsTypeOK, MessagesTyped, Request, RequestId, Requests
<1>3. wire' \in Seq(Requests)
  <2>1. wire \in Seq(Requests)
    BY DEF MessagesTyped
  <2>2. \A r \in Requests : Append(wire, r) \in Seq(Requests)
    BY <2>1
  <2> QED
    BY <1>1, <1>2, <2>1, <2>2
<1> QED
  BY <1>1, <1>3 DEF MessagesTyped

LEMMA NextMessages == RegistrationInv /\ MessagesTyped /\ [Next]_vars => MessagesTyped'
<1> SUFFICES ASSUME RegistrationInv, MessagesTyped, [Next]_vars PROVE MessagesTyped'
  OBVIOUS
<1> USE DEF args, gateVars
<1>1. ASSUME NEW c \in Calls, CallStep(c) \/ Expire(c) PROVE MessagesTyped'
  BY <1>1, CallersKeepMessages
<1>2. CASE Receive
  <2>1. /\ Head(reports) \in OrderReports \cup Rejects
        /\ Tail(reports) \in Seq(OrderReports \cup Rejects)
    BY <1>2 DEF Receive, MessagesTyped
  <2>2. /\ FirstStep(Head(reports)) = "reject" => Head(reports) \in Rejects
        /\ FirstStep(Head(reports)) = "cache" => Head(reports) \in OrderReports
        /\ FirstStep(Head(reports)) \in {"reject", "cache"}
    BY <2>1, ReportFields, RejectFields DEF FirstStep
  <2>3. /\ input'.pc = FirstStep(Head(reports)) /\ input'.msg = Head(reports)
        /\ input' = [pc |-> input'.pc, msg |-> input'.msg]
        /\ reports' = Tail(reports)
        /\ UNCHANGED <<newId, terms, timeInForce, book, sent, wire>>
    BY <1>2 DEF Receive
  <2> QED
    BY <2>1, <2>2, <2>3 DEF MessagesTyped
<1>3. CASE ApplyReport
  BY <1>3 DEF ApplyReport, MessagesTyped
<1>4. CASE AnswerCanceled
  BY <1>4 DEF AnswerCanceled, MessagesTyped
<1>5. CASE SetReply
  BY <1>5 DEF SetReply, MessagesTyped
<1>6. CASE AppendTrade
  BY <1>6 DEF AppendTrade, MessagesTyped
<1>7. CASE Signal
  BY <1>7 DEF Signal, MessagesTyped
<1>8. CASE AnswerReject
  BY <1>8 DEF AnswerReject, MessagesTyped
<1>9. CASE GateStep \/ \E i \in Ids : GateFill(i)
  <2>1. GateEffect
    BY <1>9, GateSteps
  <2>2. reports' \in Seq(OrderReports \cup Rejects) /\ sent' \in Nat
    <3>1. CASE \E new \in Seq(OrderReports) : Reporting(new)
      BY <3>1 DEF Reporting, MessagesTyped
    <3>2. CASE \E r \in Rejects : reports' = Append(reports, r) /\ sent' = sent
      BY <3>2 DEF MessagesTyped
    <3> QED
      BY <2>1, <3>1, <3>2 DEF GateEffect
  <2> QED
    BY <2>1, <2>2 DEF GateEffect, MessagesTyped
<1>10. CASE UNCHANGED vars
  BY <1>10 DEF vars, MessagesTyped
<1> QED
  BY <1>1, <1>2, <1>3, <1>4, <1>5, <1>6, <1>7, <1>8, <1>9, <1>10 DEF Next, InputStep

\* Reports are sent, and wait, in the order of their numbers.
Numbered ==
    /\ applied \in Nat /\ applied <= sent
    /\ \A j \in 1 .. Len(reports) : reports[j] \in OrderReports =>
          applied <= reports[j].n /\ reports[j].n <= sent
    /\ \A i, j \in 1 .. Len(reports) :
          i < j /\ reports[i] \in OrderReports /\ reports[j] \in OrderReports =>
             reports[i].n <= reports[j].n
    /\ input.pc = "cache" =>
          /\ applied <= input.msg.n /\ input.msg.n <= sent
          /\ \A j \in 1 .. Len(reports) :
                reports[j] \in OrderReports => input.msg.n <= reports[j].n
    /\ input.pc \in {"canceled", "reply", "trades", "done"} => input.msg.n <= applied

LEMMA NextNumbered ==
    RegistrationInv /\ MessagesTyped /\ Numbered /\ [Next]_vars => Numbered' /\ applied <= applied'
<1> SUFFICES ASSUME RegistrationInv, MessagesTyped, Numbered, [Next]_vars
             PROVE  Numbered' /\ applied <= applied'
  OBVIOUS
<1> USE DEF args, gateVars
<1>0. applied \in Nat /\ sent \in Nat /\ reports \in Seq(OrderReports \cup Rejects)
  BY DEF MessagesTyped, Numbered
<1>1. CASE UNCHANGED <<input, reports, sent, applied>>
  BY <1>0, <1>1 DEF Numbered
<1>2. CASE Receive
  <2>1. /\ input'.pc = FirstStep(Head(reports)) /\ input'.msg = Head(reports)
        /\ reports # <<>> /\ reports' = Tail(reports) /\ UNCHANGED <<sent, applied>>
    BY <1>2 DEF Receive
  <2>2. /\ Head(reports) = reports[1] /\ 1 \in 1 .. Len(reports)
        /\ Len(reports') = Len(reports) - 1
        /\ \A j \in 1 .. Len(reports') : reports'[j] = reports[j + 1] /\ j + 1 \in 1 .. Len(reports)
    BY <1>0, <2>1
  <2>3. /\ \A j \in 1 .. Len(reports') : reports'[j] \in OrderReports =>
              applied <= reports'[j].n /\ reports'[j].n <= sent
        /\ \A i, j \in 1 .. Len(reports') :
              i < j /\ reports'[i] \in OrderReports /\ reports'[j] \in OrderReports =>
                 reports'[i].n <= reports'[j].n
    <3>1. ASSUME NEW j \in 1 .. Len(reports'), reports'[j] \in OrderReports
          PROVE  applied <= reports'[j].n /\ reports'[j].n <= sent
      BY <2>2, <3>1 DEF Numbered
    <3>2. ASSUME NEW i \in 1 .. Len(reports'), NEW j \in 1 .. Len(reports'), i < j,
                 reports'[i] \in OrderReports, reports'[j] \in OrderReports
          PROVE  reports'[i].n <= reports'[j].n
      <4>1. i + 1 < j + 1 /\ i + 1 \in 1 .. Len(reports) /\ j + 1 \in 1 .. Len(reports)
        BY <2>2, <3>2
      <4> QED
        BY <2>2, <3>2, <4>1 DEF Numbered
    <3> QED
      BY <3>1, <3>2
  <2>4. CASE FirstStep(Head(reports)) = "reject"
    BY <1>0, <2>1, <2>3, <2>4 DEF Numbered
  <2>5. CASE FirstStep(Head(reports)) # "reject"
    <3>1. Head(reports) \in OrderReports /\ FirstStep(Head(reports)) = "cache"
      BY <1>0, <2>1, <2>5, RejectFields DEF FirstStep
    <3>2. /\ applied <= input'.msg.n /\ input'.msg.n <= sent
          /\ \A j \in 1 .. Len(reports') :
                reports'[j] \in OrderReports => input'.msg.n <= reports'[j].n
      BY <2>1, <2>2, <3>1 DEF Numbered
    <3> QED
      BY <1>0, <2>1, <2>3, <3>1, <3>2 DEF Numbered
  <2> QED
    BY <2>4, <2>5
<1>3. CASE ApplyReport
  <2>1. /\ input.pc = "cache" /\ applied' = input.msg.n /\ input'.msg = input.msg
        /\ input'.pc \in {"canceled", "reply"}
        /\ UNCHANGED <<sent, reports>>
    BY <1>3 DEF ApplyReport, MessagesTyped
  <2>2. input.msg.n \in Nat
    BY <2>1, ReportFields DEF MessagesTyped
  <2> QED
    BY <1>0, <2>1, <2>2 DEF Numbered
<1>4. CASE AnswerCanceled \/ SetReply \/ AppendTrade \/ Signal \/ AnswerReject
  <2>1. /\ UNCHANGED <<sent, reports, applied>>
        /\ \/ input'.pc = "idle"
           \/ /\ input.pc \in {"reply", "trades"} /\ input'.pc \in {"trades", "done"}
              /\ input'.msg = input.msg
    BY <1>4 DEF AnswerCanceled, SetReply, AppendTrade, Signal, AnswerReject, MessagesTyped
  <2> QED
    BY <1>0, <2>1 DEF Numbered
<1>5. CASE GateStep \/ \E i \in Ids : GateFill(i)
  <2>1. GateEffect /\ UNCHANGED <<applied, input>>
    BY <1>5, GateSteps DEF GateEffect
  <2>2. CASE \E r \in Rejects : reports' = Append(reports, r) /\ sent' = sent
    <3>1. PICK r \in Rejects : reports' = Append(reports, r) /\ sent' = sent
      BY <2>2
    <3>2. /\ Len(reports') = Len(reports) + 1 /\ reports'[Len(reports) + 1] \notin OrderReports
          /\ \A j \in 1 .. Len(reports) : reports'[j] = reports[j]
      BY <1>0, <3>1, RejectFields
    <3>3. \A j \in 1 .. Len(reports') : reports'[j] \in OrderReports =>
             j \in 1 .. Len(reports) /\ reports'[j] = reports[j]
      BY <1>0, <3>2
    <3> QED
      BY <1>0, <2>1, <3>1, <3>3 DEF Numbered
  <2>3. CASE \E new \in Seq(OrderReports) : Reporting(new)
    <3>1. PICK new \in Seq(OrderReports) : Reporting(new)
      BY <2>3
    <3>2. /\ sent' = sent + Len(new) /\ sent' \in Nat /\ sent <= sent' /\ Len(new) \in Nat
          /\ Len(reports) \in Nat
      BY <1>0, <3>1 DEF Reporting
    <3>3. /\ Len(reports') = Len(reports) + Len(new)
          /\ \A j \in 1 .. Len(reports) : reports'[j] = reports[j]
          /\ \A j \in Len(reports) + 1 .. Len(reports) + Len(new) : reports'[j] = new[j - Len(reports)]
      BY <1>0, <3>1, Concatenation DEF Reporting
    <3>4. \A j \in Len(reports) + 1 .. Len(reports') :
             /\ reports'[j].n = sent + (j - Len(reports))
             /\ reports'[j].n \in Nat
             /\ sent <= reports'[j].n /\ reports'[j].n <= sent'
      <4> SUFFICES ASSUME NEW j \in Len(reports) + 1 .. Len(reports')
                   PROVE  /\ reports'[j].n = sent + (j - Len(reports))
                          /\ reports'[j].n \in Nat
                          /\ sent <= reports'[j].n /\ reports'[j].n <= sent'
        OBVIOUS
      <4>1. j - Len(reports) \in 1 .. Len(new) /\ reports'[j] = new[j - Len(reports)]
        BY <3>2, <3>3
      <4>2. reports'[j].n = sent + (j - Len(reports))
        BY <3>1, <4>1 DEF Reporting
      <4> QED
        BY <1>0, <3>2, <4>1, <4>2
    <3>5. \A j \in 1 .. Len(reports') : reports'[j] \in OrderReports =>
             applied <= reports'[j].n /\ reports'[j].n <= sent'
      <4> SUFFICES ASSUME NEW j \in 1 .. Len(reports'), reports'[j] \in OrderReports
                   PROVE  applied <= reports'[j].n /\ reports'[j].n <= sent'
        OBVIOUS
      <4>1. CASE j \in 1 .. Len(reports)
        <5>1. reports[j].n \in Nat /\ applied <= reports[j].n /\ reports[j].n <= sent
          BY <3>3, <4>1, ReportFields DEF Numbered
        <5> QED
          BY <1>0, <3>2, <3>3, <4>1, <5>1
      <4>2. CASE j \in Len(reports) + 1 .. Len(reports')
        BY <1>0, <3>2, <3>4, <4>2 DEF Numbered
      <4> QED
        BY <3>2, <3>3, <4>1, <4>2
    <3>6. ASSUME NEW i \in 1 .. Len(reports'), NEW j \in 1 .. Len(reports'), i < j,
                 reports'[i] \in OrderReports, reports'[j] \in OrderReports
          PROVE  reports'[i].n <= reports'[j].n
      <4>1. CASE j \in 1 .. Len(reports)
        <5>1. i \in 1 .. Len(reports)
          BY <3>2, <3>6, <4>1
        <5> QED
          BY <3>3, <3>6, <4>1, <5>1 DEF Numbered
      <4>2. CASE j \notin 1 .. Len(reports) /\ i \in 1 .. Len(reports)
        <5>1. j \in Len(reports) + 1 .. Len(reports')
          BY <3>2, <3>3, <4>2
        <5>2. reports[i].n \in Nat /\ reports[i].n <= sent
          BY <3>3, <3>6, <4>2, ReportFields DEF Numbered
        <5> QED
          BY <1>0, <3>3, <3>4, <4>2, <5>1, <5>2
      <4>3. CASE i \notin 1 .. Len(reports)
        <5>1. {i, j} \subseteq Len(reports) + 1 .. Len(reports')
          BY <3>2, <3>3, <3>6, <4>3
        <5> QED
          BY <1>0, <3>2, <3>4, <3>6, <5>1
      <4> QED
        BY <4>1, <4>2, <4>3
    <3>7. input.pc = "cache" =>
             /\ applied <= input.msg.n /\ input.msg.n <= sent'
             /\ \A j \in 1 .. Len(reports') :
                   reports'[j] \in OrderReports => input.msg.n <= reports'[j].n
      <4> SUFFICES ASSUME input.pc = "cache"
                   PROVE  /\ applied <= input.msg.n /\ input.msg.n <= sent'
                          /\ \A j \in 1 .. Len(reports') :
                                reports'[j] \in OrderReports => input.msg.n <= reports'[j].n
        OBVIOUS
      <4>1. /\ input.msg.n \in Nat /\ applied <= input.msg.n /\ input.msg.n <= sent
            /\ \A j \in 1 .. Len(reports) :
                  reports[j] \in OrderReports => input.msg.n <= reports[j].n
        BY ReportFields DEF MessagesTyped, Numbered
      <4>2. ASSUME NEW j \in 1 .. Len(reports'), reports'[j] \in OrderReports
            PROVE  input.msg.n <= reports'[j].n
        <5>1. CASE j \in 1 .. Len(reports)
          BY <3>3, <4>1, <4>2, <5>1
        <5>2. CASE j \in Len(reports) + 1 .. Len(reports')
          BY <1>0, <3>4, <4>1, <5>2
        <5> QED
          BY <3>2, <3>3, <5>1, <5>2
      <4> QED
        BY <1>0, <3>2, <4>1, <4>2
    <3>8. applied <= sent'
      BY <1>0, <3>2 DEF Numbered
    <3> QED
      BY <1>0, <2>1, <3>5, <3>6, <3>7, <3>8 DEF Numbered
  <2> QED
    BY <2>1, <2>2, <2>3 DEF GateEffect
<1>6. ASSUME NEW c \in Calls, CallStep(c) \/ Expire(c)
      PROVE  UNCHANGED <<input, reports, sent, applied>>
  BY <1>6, CallersKeepMessages
<1> QED
  BY <1>1, <1>2, <1>3, <1>4, <1>5, <1>6 DEF Next, InputStep, vars

\* What is written into a call and what it returns is a report that is applied,
\* and nobody is woken, or returns, without a report or an error.
Answered ==
    /\ Reply \in [Calls -> OrderReports \cup {NoReply}]
    /\ Error \in [Calls -> {"none", "reject"}]
    /\ ret = [c \in Calls |-> [reply |-> ret[c].reply, trades |-> ret[c].trades, err |-> ret[c].err]]
    /\ \A c \in Calls :
          /\ ret[c].reply \in OrderReports \cup {NoReply}
          /\ Reply[c] # NoReply => Reply[c].n <= applied
          /\ ret[c].reply # NoReply => ret[c].reply.n <= applied
          /\ c \in doneBuf => Reply[c] # NoReply \/ Error[c] = "reject"
          /\ pc[c] = "collect" => ret[c].reply # NoReply \/ Error[c] = "reject"
          /\ pc[c] \in {"unregister", "returned"} => ret[c].reply # NoReply \/ ret[c].err # "none"
    /\ input.pc \in {"trades", "done"} =>
          /\ pendingFilled[input.msg.id] # NoCall
          /\ Reply[pendingFilled[input.msg.id]] # NoReply

LEMMA InitAnswered == Init => MessagesTyped /\ Numbered /\ Answered
<1> SUFFICES ASSUME Init PROVE MessagesTyped /\ Numbered /\ Answered
  OBVIOUS
<1>1. MessagesTyped
  <2>1. [terms : Terms, left : {Quantity}] \subseteq Orders
    BY QuantityAssumption DEF Orders
  <2>2. book \in [Ids -> Orders \cup {NoOrder}]
    BY <2>1 DEF Init
  <2>3. wire \in Seq(Requests) /\ reports \in Seq(OrderReports \cup Rejects)
    BY DEF Init
  <2> QED
    BY <2>2, <2>3 DEF Init, MessagesTyped
<1>2. Numbered
  BY DEF Init, Numbered
<1>3. Answered
  <2>1. \A c \in Calls : pc[c] \in {"start", "absent"}
    BY DEF Init
  <2>2. ret = [c \in Calls |-> [reply |-> NoReply, trades |-> 0, err |-> "none"]]
    BY DEF Init
  <2> QED
    BY <2>1, <2>2 DEF Init, Answered
<1> QED
  BY <1>1, <1>2, <1>3

\* A step of caller c that returns rc and leaves the rest alone.
LEMMA CallerAnswered ==
    ASSUME RegistrationInv, MessagesTyped, Answered, NEW c \in Calls, NEW to, NEW rc,
           UNCHANGED <<Reply, Error, applied, input>>,
           pc' = [pc EXCEPT ![c] = to], doneBuf' \subseteq doneBuf,
           ret' = [ret EXCEPT ![c] = rc],
           rc = [reply |-> rc.reply, trades |-> rc.trades, err |-> rc.err],
           rc.reply \in OrderReports \cup {NoReply},
           rc.reply # NoReply => rc.reply.n <= applied,
           to = "collect" => rc.reply # NoReply \/ Error[c] = "reject",
           to \in {"unregister", "returned"} => rc.reply # NoReply \/ rc.err # "none",
           MutexFree \/ UNCHANGED pendingFilled
    PROVE  Answered'
<1>1. pc \in [Calls -> CallStates]
  BY DEF RegistrationInv, CallsTypeOK
<1>2. pc'[c] = to /\ \A d \in Calls \ {c} : pc'[d] = pc[d]
  BY <1>1
<1>3. ret'[c] = rc /\ \A d \in Calls \ {c} : ret'[d] = ret[d]
  BY DEF Answered
<1>4. ret' = [d \in Calls |-> [reply |-> ret'[d].reply, trades |-> ret'[d].trades,
                               err |-> ret'[d].err]]
  <2>1. \A d \in Calls : ret[d] = [reply |-> ret[d].reply, trades |-> ret[d].trades, err |-> ret[d].err]
    BY DEF Answered
  <2>2. \A d \in Calls : ret'[d] = [reply |-> ret'[d].reply, trades |-> ret'[d].trades,
                                     err |-> ret'[d].err]
    BY <1>3, <2>1
  <2>3. ret' = [d \in Calls |-> ret'[d]]
    BY DEF Answered
  <2> QED
    BY <2>2, <2>3
<1>5. ASSUME NEW d \in Calls
      PROVE  /\ ret'[d].reply \in OrderReports \cup {NoReply}
             /\ Reply'[d] # NoReply => Reply'[d].n <= applied'
             /\ ret'[d].reply # NoReply => ret'[d].reply.n <= applied'
             /\ d \in doneBuf' => Reply'[d] # NoReply \/ Error'[d] = "reject"
             /\ pc'[d] = "collect" => ret'[d].reply # NoReply \/ Error'[d] = "reject"
             /\ pc'[d] \in {"unregister", "returned"} => ret'[d].reply # NoReply \/ ret'[d].err # "none"
  BY <1>2, <1>3 DEF Answered
<1>6. input'.pc \in {"trades", "done"} =>
          /\ pendingFilled'[input'.msg.id] # NoCall
          /\ Reply'[pendingFilled'[input'.msg.id]] # NoReply
  BY DEF MutexFree, Answered
<1>7. /\ Reply' \in [Calls -> OrderReports \cup {NoReply}]
      /\ Error' \in [Calls -> {"none", "reject"}]
  BY DEF Answered
<1> QED
  BY <1>4, <1>5, <1>6, <1>7 DEF Answered

\* A step of input() that writes its report, or an error, into the calls in S.
LEMMA InputAnswered ==
    ASSUME RegistrationInv, MessagesTyped, Numbered, Answered, NEW S, NEW T,
           UNCHANGED <<pc, ret, pendingFilled, applied>>,
           Reply' = [c \in Calls |-> IF c \in S THEN input.msg ELSE Reply[c]],
           Error' = [c \in Calls |-> IF c \in T THEN "reject" ELSE Error[c]],
           S # {} => input.pc \in {"canceled", "reply", "trades", "done"},
           \A c \in Calls : c \in doneBuf' =>
              c \in doneBuf \/ c \in S \/ c \in T \/ Reply[c] # NoReply,
           input'.pc \in {"trades", "done"} =>
              /\ pendingFilled[input'.msg.id] # NoCall
              /\ Reply'[pendingFilled[input'.msg.id]] # NoReply
    PROVE  Answered'
<1>1. S # {} => input.msg \in OrderReports /\ input.msg # NoReply /\ input.msg.n <= applied
  BY ReportFields DEF MessagesTyped, Numbered
<1>2. /\ Reply' \in [Calls -> OrderReports \cup {NoReply}]
      /\ Error' \in [Calls -> {"none", "reject"}]
  BY <1>1 DEF Answered
<1>3. ASSUME NEW d \in Calls
      PROVE  /\ Reply[d] # NoReply => Reply'[d] # NoReply
             /\ Error[d] = "reject" => Error'[d] = "reject"
             /\ Reply'[d] # NoReply => Reply'[d].n <= applied
             /\ d \in S => Reply'[d] # NoReply
             /\ d \in T => Error'[d] = "reject"
  BY <1>1 DEF Answered
<1>4. ASSUME NEW d \in Calls
      PROVE  /\ ret'[d].reply \in OrderReports \cup {NoReply}
             /\ Reply'[d] # NoReply => Reply'[d].n <= applied'
             /\ ret'[d].reply # NoReply => ret'[d].reply.n <= applied'
             /\ d \in doneBuf' => Reply'[d] # NoReply \/ Error'[d] = "reject"
             /\ pc'[d] = "collect" => ret'[d].reply # NoReply \/ Error'[d] = "reject"
             /\ pc'[d] \in {"unregister", "returned"} => ret'[d].reply # NoReply \/ ret'[d].err # "none"
  BY <1>3 DEF Answered
<1>5. ret' = [c \in Calls |-> [reply |-> ret'[c].reply, trades |-> ret'[c].trades, err |-> ret'[c].err]]
  BY DEF Answered
<1> QED
  BY <1>2, <1>4, <1>5 DEF Answered

\* A caller goes on with what it has, ...
LEMMA GoesOn ==
    ASSUME RegistrationInv, MessagesTyped, Answered, NEW c \in Calls, NEW to,
           UNCHANGED <<Reply, Error, applied, input, ret>>,
           pc' = [pc EXCEPT ![c] = to], doneBuf' = doneBuf,
           to \in {"lookup", "register", "send", "wait"}
              \/ (pc[c] = "unregister" /\ to = "returned"),
           MutexFree \/ UNCHANGED pendingFilled
    PROVE  Answered'
<1> DEFINE rc == ret[c]
<1>1. ret' = [ret EXCEPT ![c] = rc] /\ rc = [reply |-> rc.reply, trades |-> rc.trades, err |-> rc.err]
  BY DEF Answered
<1>2. /\ rc.reply \in OrderReports \cup {NoReply}
      /\ rc.reply # NoReply => rc.reply.n <= applied
      /\ pc[c] = "unregister" => rc.reply # NoReply \/ rc.err # "none"
  BY DEF Answered
<1>3. /\ to # "collect"
      /\ to \in {"unregister", "returned"} => rc.reply # NoReply \/ rc.err # "none"
  BY <1>2
<1> HIDE DEF rc
<1> QED
  BY <1>1, <1>2, <1>3, CallerAnswered

\* ... or gives up with an error.
LEMMA GivesUp ==
    ASSUME RegistrationInv, MessagesTyped, Answered, NEW c \in Calls, NEW to, NEW e,
           UNCHANGED <<Reply, Error, applied, input>>,
           pc' = [pc EXCEPT ![c] = to], doneBuf' = doneBuf,
           ret' = [ret EXCEPT ![c].err = e], e # "none", to \in {"unregister", "returned"},
           MutexFree \/ UNCHANGED pendingFilled
    PROVE  Answered'
<1> DEFINE rc == [reply |-> ret[c].reply, trades |-> ret[c].trades, err |-> e]
<1>1. ret[c] = [reply |-> ret[c].reply, trades |-> ret[c].trades, err |-> ret[c].err]
  BY DEF Answered
<1>2. [ret[c] EXCEPT !.err = e] = rc
  BY <1>1
<1>3. ret' = [ret EXCEPT ![c] = rc]
  BY <1>2
<1>4. /\ rc.reply \in OrderReports \cup {NoReply}
      /\ rc.reply # NoReply => rc.reply.n <= applied
      /\ rc.err # "none"
      /\ rc = [reply |-> rc.reply, trades |-> rc.trades, err |-> rc.err]
  BY DEF Answered
<1> HIDE DEF rc
<1> QED
  BY <1>3, <1>4, CallerAnswered

LEMMA CallerSteps ==
    ASSUME RegistrationInv, MessagesTyped, Answered, NEW c \in Calls, CallStep(c) \/ Expire(c)
    PROVE  Answered'
<1>0. UNCHANGED <<input, applied, Reply, Error>>
  BY CallersKeepMessages
<1>1. CASE StartNew(c)
  <2>1. CASE Return(c, "start", "duplicate")
    BY <1>0, <1>1, <2>1, GivesUp DEF StartNew, Return, Goto
  <2>2. CASE Goto(c, "start", "register") /\ UNCHANGED ret
    BY <1>0, <1>1, <2>2, GoesOn DEF StartNew, Goto
  <2> QED
    BY <1>1, <2>1, <2>2 DEF StartNew
<1>2. CASE StartCancel(c)
  <2>1. CASE Goto(c, "start", "lookup")
    BY <1>0, <1>2, <2>1, GoesOn DEF StartCancel, Goto
  <2>2. CASE Goto(c, "start", "register")
    BY <1>0, <1>2, <2>2, GoesOn DEF StartCancel, Goto
  <2> QED
    BY <1>2, <2>1, <2>2 DEF StartCancel
<1>3. CASE StartReplace(c)
  <2>1. CASE \E e \in {"not found", "not changed"} : Return(c, "start", e)
    BY <1>0, <1>3, <2>1, GivesUp DEF StartReplace, Return, Goto
  <2>2. CASE Goto(c, "start", "register") /\ UNCHANGED ret
    BY <1>0, <1>3, <2>2, GoesOn DEF StartReplace, Goto
  <2> QED
    BY <1>3, <2>1, <2>2 DEF StartReplace
<1>4. CASE LookupPending(c)
  <2>1. CASE Return(c, "lookup", "not found")
    BY <1>0, <1>4, <2>1, GivesUp DEF LookupPending, Return, Goto
  <2>2. CASE Goto(c, "lookup", "register") /\ UNCHANGED ret
    BY <1>0, <1>4, <2>2, GoesOn DEF LookupPending, Goto
  <2> QED
    BY <1>4, <2>1, <2>2 DEF LookupPending
<1>5. CASE RegisterNew(c)
  <2>1. CASE Return(c, "register", "duplicate")
    BY <1>0, <1>5, <2>1, GivesUp DEF RegisterNew, Return, Goto
  <2>2. CASE Goto(c, "register", "send") /\ UNCHANGED ret
    BY <1>0, <1>5, <2>2, GoesOn DEF RegisterNew, Goto
  <2> QED
    BY <1>5, <2>1, <2>2 DEF RegisterNew
<1>6. CASE RegisterCancel(c)
  BY <1>0, <1>6, GoesOn DEF RegisterCancel, Goto
<1>7. CASE Send(c)
  <2>1. CASE Goto(c, "send", "wait") /\ UNCHANGED ret
    BY <1>0, <1>7, <2>1, GoesOn DEF Send, Goto
  <2>2. CASE Goto(c, "send", "unregister") /\ ret' = [ret EXCEPT ![c].err = "send failed"]
    BY <1>0, <1>7, <2>2, GivesUp DEF Send, Goto
  <2> QED
    BY <1>7, <2>1, <2>2 DEF Send
<1>8. CASE Wake(c)
  <2> DEFINE rc == [reply |-> Reply[c], trades |-> ret[c].trades, err |-> ret[c].err]
  <2>1. ret[c] = [reply |-> ret[c].reply, trades |-> ret[c].trades, err |-> ret[c].err]
    BY DEF Answered
  <2>2. [ret[c] EXCEPT !.reply = Reply[c]] = rc
    BY <2>1
  <2>3. /\ ret' = [ret EXCEPT ![c] = rc] /\ pc' = [pc EXCEPT ![c] = "collect"]
        /\ doneBuf' \subseteq doneBuf /\ UNCHANGED pendingFilled
    BY <1>8, <2>2 DEF Wake, Goto
  <2>4. /\ rc.reply \in OrderReports \cup {NoReply}
        /\ rc.reply # NoReply => rc.reply.n <= applied
        /\ rc.reply # NoReply \/ Error[c] = "reject"
        /\ rc = [reply |-> rc.reply, trades |-> rc.trades, err |-> rc.err]
    BY <1>8 DEF Answered, Wake
  <2> HIDE DEF rc
  <2> QED
    BY <1>0, <2>3, <2>4, CallerAnswered
<1>9. CASE Collect(c)
  <2> DEFINE rc == [reply |-> ret[c].reply, trades |-> trades[c], err |-> Error[c]]
  <2>3. ret' = [ret EXCEPT ![c] = rc]
    BY <1>9 DEF Collect
  <2>4. /\ pc' = [pc EXCEPT ![c] = "unregister"] /\ pc[c] = "collect"
        /\ doneBuf' = doneBuf /\ UNCHANGED pendingFilled
    BY <1>9 DEF Collect, Goto
  <2>5. /\ rc.reply \in OrderReports \cup {NoReply}
        /\ rc.reply # NoReply => rc.reply.n <= applied
        /\ rc.reply # NoReply \/ rc.err # "none"
        /\ rc = [reply |-> rc.reply, trades |-> rc.trades, err |-> rc.err]
    BY <2>4 DEF Answered
  <2> HIDE DEF rc
  <2> QED
    BY <1>0, <2>3, <2>4, <2>5, CallerAnswered
<1>10. CASE Expire(c)
  BY <1>0, <1>10, GivesUp DEF Expire, Goto
<1>11. CASE Unregister(c)
  BY <1>0, <1>11, GoesOn DEF Unregister, Goto
<1> QED
  BY <1>1, <1>2, <1>3, <1>4, <1>5, <1>6, <1>7, <1>8, <1>9, <1>10, <1>11 DEF CallStep

LEMMA NextAnswered ==
    RegistrationInv /\ MessagesTyped /\ Numbered /\ Answered /\ [Next]_vars => Answered'
<1> SUFFICES ASSUME RegistrationInv, MessagesTyped, Numbered, Answered, [Next]_vars
             PROVE  Answered'
  OBVIOUS
<1> USE DEF args, callFields, gateVars
<1>0. /\ pendingFilled \in [Ids -> News \cup {NoCall}]
      /\ pendingCancel \in [Ids -> SUBSET (Cancels \cup Replaces)]
      /\ \A i \in Ids : pendingFilled[i] # NoCall => pendingFilled[i] \in Calls
      /\ \A i \in Ids : pendingCancel[i] \subseteq Calls
  BY CallKinds DEF RegistrationInv, CallsTypeOK, Calls
<1>f. /\ Reply = [c \in Calls |-> Reply[c]] /\ Error = [c \in Calls |-> Error[c]]
  BY DEF Answered
<1>n. PICK nobody : nobody = {}
  OBVIOUS
<1>1. CASE /\ UNCHANGED <<pc, ret, pendingFilled, Reply, Error, doneBuf>>
           /\ applied \in Nat /\ applied' \in Nat /\ applied <= applied'
           /\ input'.pc \in {"trades", "done"} => input' = input
  <2>1. ASSUME NEW m \in OrderReports, m.n <= applied PROVE m.n <= applied'
    BY <1>1, <2>1, ReportFields
  <2>2. \A c \in Calls :
           /\ Reply[c] # NoReply => Reply[c].n <= applied'
           /\ ret[c].reply # NoReply => ret[c].reply.n <= applied'
    BY <2>1 DEF Answered
  <2> QED
    BY <1>1, <2>2 DEF Answered
<1>2. ASSUME NEW c \in Calls, CallStep(c) \/ Expire(c) PROVE Answered'
  BY <1>2, CallerSteps
<1>3. CASE Receive
  BY <1>1, <1>3 DEF Receive, FirstStep, Numbered
<1>4. CASE ApplyReport
  <2>1. applied <= applied' /\ applied \in Nat /\ applied' \in Nat
    BY <1>4, NextNumbered DEF Numbered
  <2>2. input'.pc \in {"canceled", "reply"}
    BY <1>4 DEF ApplyReport, MessagesTyped
  <2> QED
    BY <1>1, <1>4, <2>1, <2>2 DEF ApplyReport
<1>5. CASE AnswerCanceled
  <2> DEFINE S == pendingCancel[input.msg.id]
  <2>1. /\ UNCHANGED <<pc, ret, pendingFilled, applied>>
        /\ Reply' = [c \in Calls |-> IF c \in S THEN input.msg ELSE Reply[c]]
        /\ Error' = [c \in Calls |-> IF c \in nobody THEN "reject" ELSE Error[c]]
        /\ doneBuf' = doneBuf \cup S /\ input.pc = "canceled" /\ input'.pc = "idle"
    BY <1>5, <1>f, <1>n DEF AnswerCanceled, MessagesTyped
  <2> HIDE DEF S
  <2> QED
    BY <1>n, <2>1, InputAnswered
<1>6. CASE SetReply
  <2> DEFINE c0 == pendingFilled[input.msg.id]
             S == {c0}
  <2>1. input.pc = "reply" /\ c0 # NoCall /\ input.msg \in OrderReports /\ input.msg.id \in Ids
    BY <1>6, ReportFields DEF SetReply, MessagesTyped
  <2>2. c0 \in Calls
    BY <1>0, <2>1
  <2>3. /\ UNCHANGED <<pc, ret, pendingFilled, applied, doneBuf>>
        /\ Reply' = [c \in Calls |-> IF c \in S THEN input.msg ELSE Reply[c]]
        /\ Error' = [c \in Calls |-> IF c \in nobody THEN "reject" ELSE Error[c]]
        /\ input'.msg = input.msg
    BY <1>6, <1>f, <1>n, <2>1, <2>2 DEF SetReply, MessagesTyped
  <2>4. Reply'[pendingFilled[input'.msg.id]] # NoReply /\ pendingFilled[input'.msg.id] # NoCall
    BY <2>1, <2>2, <2>3, ReportFields
  <2> HIDE DEF S, c0
  <2> QED
    BY <1>n, <2>1, <2>3, <2>4, InputAnswered
<1>7. CASE AppendTrade
  <2>1. input'.msg = input.msg /\ input.pc = "trades"
    BY <1>7 DEF AppendTrade, MessagesTyped
  <2>2. /\ UNCHANGED <<pc, ret, pendingFilled, applied, doneBuf>>
        /\ Reply' = [c \in Calls |-> IF c \in nobody THEN input.msg ELSE Reply[c]]
        /\ Error' = [c \in Calls |-> IF c \in nobody THEN "reject" ELSE Error[c]]
        /\ pendingFilled[input'.msg.id] # NoCall
        /\ Reply'[pendingFilled[input'.msg.id]] # NoReply
    BY <1>7, <1>f, <1>n, <2>1 DEF AppendTrade, Answered
  <2> QED
    BY <1>n, <2>2, InputAnswered
<1>8. CASE Signal
  <2> DEFINE c0 == pendingFilled[input.msg.id]
             S == Resolved(input.msg)
  <2>1. /\ UNCHANGED <<pc, ret, pendingFilled, applied>>
        /\ Reply' = [c \in Calls |-> IF c \in S THEN input.msg ELSE Reply[c]]
        /\ Error' = [c \in Calls |-> IF c \in nobody THEN "reject" ELSE Error[c]]
        /\ doneBuf' \subseteq doneBuf \cup S \cup IF c0 # NoCall THEN {c0} ELSE {}
        /\ input.pc = "done" \/ (input.pc = "reply" /\ c0 = NoCall)
        /\ input'.pc = "idle"
    BY <1>8, <1>f, <1>n DEF Signal, MessagesTyped
  <2>2. \A c \in Calls : c \in doneBuf' => c \in doneBuf \/ c \in S \/ c \in nobody \/ Reply[c] # NoReply
    BY <2>1 DEF Answered
  <2> HIDE DEF S, c0
  <2> QED
    BY <1>n, <2>1, <2>2, InputAnswered
<1>9. CASE AnswerReject
  <2> DEFINE T == Rejected(input.msg)
  <2>1. /\ UNCHANGED <<pc, ret, pendingFilled, applied>>
        /\ Reply' = [c \in Calls |-> IF c \in nobody THEN input.msg ELSE Reply[c]]
        /\ Error' = [c \in Calls |-> IF c \in T THEN "reject" ELSE Error[c]]
        /\ doneBuf' = doneBuf \cup T /\ input'.pc = "idle"
    BY <1>9, <1>f, <1>n DEF AnswerReject, MessagesTyped
  <2> HIDE DEF T
  <2> QED
    BY <1>n, <2>1, InputAnswered
<1>10. CASE GateStep \/ \E i \in Ids : GateFill(i)
  BY <1>1, <1>10, GateSteps DEF GateEffect, Numbered
<1>11. CASE UNCHANGED vars
  BY <1>1, <1>11 DEF vars, Numbered
<1> QED
  BY <1>2, <1>3, <1>4, <1>5, <1>6, <1>7, <1>8, <1>9, <1>10, <1>11 DEF Next, InputStep

\* When an operation returns with success it returns a report, and the cache has
\* taken it in before (handleReport calls orders.handleReport first,
\* zmq-trader.go:430): whatever other calls are about the same order, whatever is
\* rejected meanwhile, and although the caller reads its call's fields without mx.
THEOREM AnswersAreCached == Spec => []ReadYourWrites
<1> DEFINE Inv == RegistrationInv /\ MessagesTyped /\ Numbered /\ Answered
<1>1. Init => Inv
  BY InitRegistration, InitAnswered
<1>2. Inv /\ [Next]_vars => Inv'
  BY NextRegistration, NextMessages, NextNumbered, NextAnswered
<1>3. Inv => ReadYourWrites
  BY DEF Answered, ReadYourWrites, Succeeded
<1> QED
  BY <1>1, <1>2, <1>3, PTL DEF Spec

-----------------------------------------------------------------------------
(* What was canceled is gone.                                                *)

\* Order i is not at the gate, or was placed there after report n.
Gone(i, n) == book[i] = NoOrder \/ born[i] > n

\* The report says of an order that it is over, and it is.
Ended(m) ==
    /\ m.kind = "canceled" \/ Filled(m) => Gone(m.id, m.n)
    /\ m.kind = "replaced" => Gone(m.original, m.n)

Endings ==
    /\ born \in [Ids -> Nat]
    /\ \A j \in 1 .. Len(reports) : reports[j] \in OrderReports => Ended(reports[j])
    /\ input.pc \in {"cache", "canceled", "reply", "trades", "done"} => Ended(input.msg)
    /\ input.pc = "canceled" => input.msg.kind = "canceled"
    /\ \A c \in Cancels \cup Replaces :
          /\ Reply[c] # NoReply => Gone(id[c], Reply[c].n)
          /\ ret[c].reply # NoReply => Gone(id[c], ret[c].reply.n)

LEMMA Appended ==
    ASSUME MessagesTyped, NEW m, reports' = Append(reports, m)
    PROVE  \A j \in 1 .. Len(reports') :
              (j \in 1 .. Len(reports) /\ reports'[j] = reports[j]) \/ reports'[j] = m
<1>1. reports \in Seq(OrderReports \cup Rejects)
  BY DEF MessagesTyped
<1> QED
  BY <1>1

\* The gate's steps give an order its id anew only with a higher number, and
\* what they report to be over is over.
LEMMA GateBook ==
    ASSUME MessagesTyped, born \in [Ids -> Nat], GateStep \/ \E i \in Ids : GateFill(i)
    PROVE  /\ born' \in [Ids -> Nat]
           /\ \A i \in Ids :
                 \/ book'[i] = NoOrder
                 \/ born'[i] = sent + 1
                 \/ book[i] # NoOrder /\ born'[i] = born[i]
           /\ \A j \in 1 .. Len(reports') :
                 \/ j \in 1 .. Len(reports) /\ reports'[j] = reports[j]
                 \/ reports'[j].kind = "reject"
                 \/ Ended(reports[j])'
<1>0. Quantity \in Nat /\ sent \in Nat /\ sent + 1 \in Nat /\ reports \in Seq(OrderReports \cup Rejects)
  BY QuantityAssumption DEF MessagesTyped
<1>b. book \in [Ids -> Orders \cup {NoOrder}]
  BY DEF MessagesTyped
<1>1. CASE GateReject
  <2> DEFINE r == Head(wire)
             m == [kind |-> "reject", id |-> r.id,
                   request |-> IF r.call \in News THEN NoCall ELSE r.request]
  <2>1. reports' = Append(reports, m) /\ UNCHANGED <<book, born>>
    BY <1>1 DEF GateReject
  <2>2. m.kind = "reject"
    OBVIOUS
  <2> HIDE DEF m
  <2> QED
    BY <2>1, <2>2, Appended
<1>2. CASE GatePlace
  <2> DEFINE r == Head(wire)
             order == [terms |-> terms[r.call], left |-> Quantity]
             m == Report("new", r.id, order, "GTC", sent + 1)
  <2>1. /\ reports' = Append(reports, m) /\ r.id \in Ids
        /\ book' = [book EXCEPT ![r.id] = order]
        /\ born' = [born EXCEPT ![r.id] = sent + 1]
    BY <1>2, HeadTyped DEF GatePlace
  <2>2. m.kind = "new"
    BY DEF Report
  <2> HIDE DEF m, order, r
  <2>3. ASSUME NEW j \in 1 .. Len(reports'), reports'[j] = m PROVE Ended(reports[j])'
    BY <2>2, <2>3 DEF Ended, Filled
  <2> QED
    BY <1>0, <1>b, <2>1, <2>3, Appended
<1>3. CASE GateExecute
  <2>1. PICK new \in Seq(OrderReports) :
           /\ Reporting(new)
           /\ \A j \in 1 .. Len(new) : new[j].id = Head(wire).id /\ new[j].kind # "replaced"
    BY <1>3, ExecuteReports
  <2>2. UNCHANGED <<book, born>> /\ book[Head(wire).id] = NoOrder
    BY <1>3 DEF GateExecute
  <2>3. /\ Len(reports') = Len(reports) + Len(new)
        /\ \A j \in 1 .. Len(reports) : reports'[j] = reports[j]
        /\ \A j \in Len(reports) + 1 .. Len(reports) + Len(new) : reports'[j] = new[j - Len(reports)]
    BY <1>0, <2>1, Concatenation DEF Reporting
  <2>4. ASSUME NEW j \in 1 .. Len(reports'), j \notin 1 .. Len(reports) PROVE Ended(reports[j])'
    <3>1. /\ j \in Len(reports) + 1 .. Len(reports) + Len(new)
          /\ j - Len(reports) \in 1 .. Len(new)
      BY <2>1, <2>3, <2>4
    <3>2. reports'[j].id = Head(wire).id /\ reports'[j].kind # "replaced"
      BY <2>1, <2>3, <3>1
    <3> QED
      BY <2>2, <3>2 DEF Ended, Gone
  <2> QED
    BY <2>2, <2>3, <2>4
<1>4. CASE GateCancel
  <2> DEFINE r == Head(wire)
             m == Report("canceled", r.id, book[r.id], "GTC", sent + 1)
  <2>1. /\ reports' = Append(reports, m) /\ r.id \in Ids
        /\ book' = [book EXCEPT ![r.id] = NoOrder] /\ born' = born
    BY <1>4, HeadTyped DEF GateCancel
  <2>2. m.kind = "canceled" /\ m.id = r.id
    BY DEF Report
  <2> HIDE DEF m, r
  <2>3. ASSUME NEW j \in 1 .. Len(reports'), reports'[j] = m PROVE Ended(reports[j])'
    BY <1>b, <2>1, <2>2, <2>3 DEF Ended, Gone
  <2> QED
    BY <1>0, <1>b, <2>1, <2>3, Appended
<1>5. CASE GateReplace
  <2> DEFINE r == Head(wire)
             order == [terms |-> terms[r.call], left |-> book[r.id].left]
             m == [kind |-> "replaced", id |-> r.request, original |-> r.id,
                   terms |-> order.terms, left |-> order.left,
                   timeInForce |-> "GTC", n |-> sent + 1]
  <2>1. /\ reports' = Append(reports, m) /\ r.id \in Ids /\ r.request \in Ids
        /\ book[r.id] # NoOrder /\ book[r.request] = NoOrder
        /\ book' = [book EXCEPT ![r.id] = NoOrder, ![r.request] = order]
        /\ born' = [born EXCEPT ![r.request] = sent + 1]
    BY <1>5, HeadTyped DEF GateReplace
  <2>2. m.kind = "replaced" /\ m.original = r.id
    OBVIOUS
  <2>3. r.id # r.request
    BY <2>1
  <2> HIDE DEF m, order, r
  <2>4. /\ book'[r.id] = NoOrder /\ born'[r.request] = sent + 1
        /\ \A i \in Ids \ {r.id, r.request} : book'[i] = book[i] /\ born'[i] = born[i]
    BY <1>b, <2>1, <2>3
  <2>5. ASSUME NEW j \in 1 .. Len(reports'), reports'[j] = m PROVE Ended(reports[j])'
    BY <2>2, <2>4, <2>5 DEF Ended, Gone, Filled
  <2>6. \A i \in Ids :
           \/ book'[i] = NoOrder
           \/ born'[i] = sent + 1
           \/ book[i] # NoOrder /\ born'[i] = born[i]
    BY <2>4
  <2>7. born' \in [Ids -> Nat]
    BY <1>0, <2>1
  <2>8. \A j \in 1 .. Len(reports') :
           (j \in 1 .. Len(reports) /\ reports'[j] = reports[j]) \/ Ended(reports[j])'
    BY <2>1, <2>5, Appended
  <2> QED
    BY <2>6, <2>7, <2>8
<1>6. ASSUME NEW i \in Ids, GateFill(i)
      PROVE  /\ born' = born
             /\ \A h \in Ids : book'[h] = NoOrder \/ book[h] # NoOrder
             /\ \A j \in 1 .. Len(reports') :
                   \/ j \in 1 .. Len(reports) /\ reports'[j] = reports[j]
                   \/ Ended(reports[j])'
  <2> DEFINE order == [book[i] EXCEPT !.left = @ - 1]
             m == Report("trade", i, order, "GTC", sent + 1)
  <2>1. /\ reports' = Append(reports, m) /\ born' = born /\ book[i] # NoOrder
        /\ book' = [book EXCEPT ![i] = IF order.left = 0 THEN NoOrder ELSE order]
    BY <1>6 DEF GateFill
  <2> HIDE DEF order
  <2>2. m.kind = "trade" /\ m.id = i /\ m.left = order.left
    BY DEF Report
  <2> HIDE DEF m
  <2>3. ASSUME NEW j \in 1 .. Len(reports'), reports'[j] = m PROVE Ended(reports[j])'
    BY <1>b, <2>1, <2>2, <2>3 DEF Ended, Gone, Filled
  <2> QED
    BY <1>b, <2>1, <2>3, Appended
<1> QED
  BY <1>1, <1>2, <1>3, <1>4, <1>5, <1>6 DEF GateStep

LEMMA InitEndings == Init => Endings
<1> SUFFICES ASSUME Init PROVE Endings
  OBVIOUS
<1>1. /\ born \in [Ids -> Nat] /\ reports = <<>> /\ input.pc = "idle"
      /\ \A c \in Calls : Reply[c] = NoReply /\ ret[c].reply = NoReply
  BY DEF Init
<1>2. Cancels \cup Replaces \subseteq Calls /\ Len(reports) = 0
  BY <1>1 DEF Calls
<1> QED
  BY <1>1, <1>2 DEF Endings

LEMMA NextEndings ==
    RegistrationInv /\ MessagesTyped /\ Numbered /\ Answered /\ Endings /\ [Next]_vars => Endings'
<1> SUFFICES ASSUME RegistrationInv, MessagesTyped, Numbered, Answered, Endings, [Next]_vars
             PROVE  Endings'
  OBVIOUS
<1> USE DEF args, callFields, gateVars
<1>0. /\ id \in [Calls -> Ids] /\ Cancels \cup Replaces \subseteq Calls
      /\ pendingFilled \in [Ids -> News \cup {NoCall}]
      /\ reports \in Seq(OrderReports \cup Rejects) /\ sent \in Nat /\ applied \in Nat
      /\ applied <= sent /\ PendingExact
  BY DEF RegistrationInv, CallsTypeOK, Calls, MessagesTyped, Numbered
<1>1. CASE /\ UNCHANGED <<book, born, reports, Reply, id>>
           /\ input'.pc \in {"cache", "canceled", "reply", "trades", "done"} =>
                 /\ input.pc \in {"cache", "canceled", "reply", "trades", "done"}
                 /\ input'.msg = input.msg
           /\ input'.pc = "canceled" => input'.msg.kind = "canceled"
           /\ \A c \in Calls : ret'[c].reply \in {ret[c].reply, Reply[c]}
  BY <1>0, <1>1 DEF Endings, Ended, Gone
<1>2. ASSUME NEW c \in Calls, CallStep(c) \/ Expire(c) PROVE Endings'
  <2>1. UNCHANGED <<input, book, born, reports, Reply, id>>
    BY <1>2 DEF CallStep, Expire, StartNew, RegisterNew, StartCancel, LookupPending,
                RegisterCancel, StartReplace, Send, Wake, Collect, Unregister
  <2>2. \/ \E e : ret' = [ret EXCEPT ![c].err = e]
        \/ ret' = ret
        \/ ret' = [ret EXCEPT ![c].reply = Reply[c]]
        \/ ret' = [ret EXCEPT ![c] = [reply |-> @.reply, trades |-> trades[c], err |-> Error[c]]]
    BY <1>2 DEF CallStep, Expire, StartNew, RegisterNew, StartCancel, LookupPending, Return,
                RegisterCancel, StartReplace, Send, Wake, Collect, Unregister
  <2>3. \A d \in Calls : ret[d] = [reply |-> ret[d].reply, trades |-> ret[d].trades, err |-> ret[d].err]
    BY DEF Answered
  <2>4. ret = [d \in Calls |-> ret[d]]
    BY DEF Answered
  <2>5. \A d \in Calls : ret'[d].reply \in {ret[d].reply, Reply[d]}
    BY <2>2, <2>3, <2>4
  <2> QED
    BY <1>1, <2>1, <2>5 DEF Endings
<1>3. CASE Receive
  <2>1. /\ input'.msg = Head(reports) /\ input'.pc = FirstStep(Head(reports))
        /\ reports # <<>> /\ reports' = Tail(reports)
        /\ UNCHANGED <<book, born, Reply, id, ret>>
        /\ input'.pc \in {"reject", "cache"}
    BY <1>3 DEF Receive, FirstStep
  <2>2. /\ Head(reports) = reports[1] /\ 1 \in 1 .. Len(reports)
        /\ reports[1] \in OrderReports \cup Rejects
        /\ \A j \in 1 .. Len(reports') : reports'[j] = reports[j + 1] /\ j + 1 \in 1 .. Len(reports)
    BY <1>0, <2>1
  <2>3. \A j \in 1 .. Len(reports') : reports'[j] \in OrderReports => Ended(reports[j])'
    BY <2>1, <2>2 DEF Endings, Ended, Gone
  <2>4. input'.pc # "reject" => Ended(input.msg)'
    <3>1. input'.pc # "reject" => reports[1] \in OrderReports
      BY <2>1, <2>2, RejectFields DEF FirstStep
    <3> QED
      BY <2>1, <2>2, <3>1 DEF Endings, Ended, Gone
  <2> QED
    BY <2>1, <2>3, <2>4 DEF Endings, Gone
<1>4. CASE ApplyReport \/ AppendTrade \/ AnswerReject
  <2>1. /\ UNCHANGED <<book, born, reports, Reply, id, ret>>
        /\ \/ input'.pc = "idle"
           \/ /\ input.pc \in {"cache", "trades"}
              /\ input'.msg = input.msg
              /\ input'.pc = "canceled" => input.msg.kind = "canceled"
    BY <1>4 DEF ApplyReport, AppendTrade, AnswerReject, MessagesTyped
  <2> QED
    BY <1>1, <2>1
<1>5. ASSUME NEW S, UNCHANGED <<book, born, reports, id, ret>>,
             Reply' = [c \in Calls |-> IF c \in S THEN input.msg ELSE Reply[c]],
             \A c \in S \cap (Cancels \cup Replaces) : Gone(id[c], input.msg.n),
             \/ input'.pc = "idle"
             \/ /\ input.pc = "reply" /\ input'.pc \in {"trades", "done"}
                /\ input'.msg = input.msg
      PROVE  Endings'
  <2>2. \A j \in 1 .. Len(reports') : reports'[j] \in OrderReports => Ended(reports[j])'
    BY <1>5 DEF Endings, Ended, Gone
  <2>3. /\ input'.pc \in {"cache", "canceled", "reply", "trades", "done"} => Ended(input.msg)'
        /\ input'.pc = "canceled" => input'.msg.kind = "canceled"
    BY <1>5 DEF Endings, Ended, Gone
  <2>4. ASSUME NEW c \in Cancels \cup Replaces
        PROVE  /\ Reply'[c] # NoReply => Gone(id[c], Reply[c].n)'
               /\ ret'[c].reply # NoReply => Gone(id[c], ret[c].reply.n)'
    <3>1. c \in Calls
      BY <1>0
    <3>2. CASE c \in S
      BY <1>5, <3>1, <3>2 DEF Endings, Gone
    <3>3. CASE c \notin S
      BY <1>5, <3>1, <3>3 DEF Endings, Gone
    <3> QED
      BY <3>2, <3>3
  <2>5. born' \in [Ids -> Nat]
    BY <1>5 DEF Endings
  <2> QED
    BY <2>2, <2>3, <2>4, <2>5 DEF Endings
<1>6. CASE AnswerCanceled
  <2> DEFINE S == pendingCancel[input.msg.id]
  <2>0. input.pc = "canceled" /\ input.msg.id \in Ids
    BY <1>6, ReportFields DEF AnswerCanceled, MessagesTyped
  <2>1. /\ UNCHANGED <<book, born, reports, id, ret>>
        /\ Reply' = [c \in Calls |-> IF c \in S THEN input.msg ELSE Reply[c]]
        /\ input'.pc = "idle"
    BY <1>6 DEF AnswerCanceled, MessagesTyped
  <2>2. \A c \in S : id[c] = input.msg.id
    BY <1>0, <2>0 DEF PendingExact
  <2>3. Gone(input.msg.id, input.msg.n)
    BY <2>0 DEF Endings, Ended
  <2> HIDE DEF S
  <2> QED
    BY <1>5, <2>1, <2>2, <2>3
<1>7. CASE SetReply
  <2> DEFINE S == {pendingFilled[input.msg.id]}
  <2>0. input.pc = "reply" /\ input.msg.id \in Ids
    BY <1>7, ReportFields DEF SetReply, MessagesTyped
  <2>1. /\ UNCHANGED <<book, born, reports, id, ret>>
        /\ Reply' = [c \in Calls |-> IF c \in S THEN input.msg ELSE Reply[c]]
        /\ input'.msg = input.msg /\ input'.pc \in {"trades", "done"}
    BY <1>7 DEF SetReply, MessagesTyped, Answered
  <2>2. S \cap (Cancels \cup Replaces) = {}
    BY <1>0, <1>7, <2>0, CallKinds DEF SetReply
  <2> HIDE DEF S
  <2> QED
    BY <1>5, <2>0, <2>1, <2>2
<1>8. CASE Signal
  <2> DEFINE S == Resolved(input.msg)
  <2>0. input.pc \in {"done", "reply"} /\ input.msg \in OrderReports
    BY <1>8 DEF Signal, MessagesTyped
  <2>1. /\ UNCHANGED <<book, born, reports, id, ret>>
        /\ Reply' = [c \in Calls |-> IF c \in S THEN input.msg ELSE Reply[c]]
        /\ input'.pc = "idle"
    BY <1>8 DEF Signal, MessagesTyped
  <2>2. \A c \in S : Gone(id[c], input.msg.n)
    <3>1. Ended(input.msg)
      BY <2>0 DEF Endings
    <3>2. CASE input.msg.kind = "replaced"
      <4>1. input.msg.original \in Ids
        BY <2>0, <3>2, ReportFields
      <4>2. \A c \in S : id[c] = input.msg.original
        BY <1>0, <3>2, <4>1 DEF Resolved, PendingExact
      <4> QED
        BY <3>1, <3>2, <4>2 DEF Ended
    <3>3. CASE input.msg.kind # "replaced" /\ Filled(input.msg)
      <4>1. input.msg.id \in Ids
        BY <2>0, ReportFields
      <4>2. \A c \in S : id[c] = input.msg.id
        BY <1>0, <3>3, <4>1 DEF Resolved, PendingExact
      <4> QED
        BY <3>1, <3>3, <4>2 DEF Ended
    <3> QED
      BY <3>2, <3>3 DEF Resolved
  <2> HIDE DEF S
  <2> QED
    BY <1>5, <2>1, <2>2
<1>9. CASE GateStep \/ \E i \in Ids : GateFill(i)
  <2>0. GateEffect
    BY <1>9, GateSteps
  <2>1. /\ born' \in [Ids -> Nat]
        /\ \A i \in Ids :
              \/ book'[i] = NoOrder
              \/ born'[i] = sent + 1
              \/ book[i] # NoOrder /\ born'[i] = born[i]
        /\ \A j \in 1 .. Len(reports') :
              \/ j \in 1 .. Len(reports) /\ reports'[j] = reports[j]
              \/ reports'[j].kind = "reject"
              \/ Ended(reports[j])'
    BY <1>9, GateBook DEF Endings
  <2>2. ASSUME NEW i \in Ids, NEW n \in Nat, n <= sent, Gone(i, n)
        PROVE  Gone(i, n)'
    BY <1>0, <2>1, <2>2 DEF Gone
  <2>3. ASSUME NEW m \in OrderReports, m.n <= sent, Ended(m)
        PROVE  Ended(m)'
    <3>1. m.id \in Ids /\ m.n \in Nat /\ (m.kind = "replaced" => m.original \in Ids)
      BY ReportFields
    <3> QED
      BY <2>2, <2>3, <3>1 DEF Ended, Filled
  <2>4. ASSUME NEW j \in 1 .. Len(reports'), reports'[j] \in OrderReports
        PROVE  Ended(reports[j])'
    <3>1. CASE j \in 1 .. Len(reports) /\ reports'[j] = reports[j]
      <4>1. reports[j].n <= sent /\ Ended(reports[j])
        BY <2>4, <3>1 DEF Numbered, Endings
      <4>2. PICK m \in OrderReports : m = reports[j]
        BY <2>4, <3>1
      <4>3. Ended(m)'
        BY <2>3, <4>1, <4>2
      <4> QED
        BY <3>1, <4>2, <4>3 DEF Ended, Gone, Filled
    <3>2. CASE reports'[j].kind = "reject"
      BY <2>4, <3>2, ReportFields
    <3>3. CASE Ended(reports[j])'
      BY <3>3
    <3> QED
      BY <2>1, <3>1, <3>2, <3>3
  <2>5. /\ UNCHANGED <<input, Reply, ret, id>>
    BY <2>0 DEF GateEffect
  <2>6. input.pc \in {"cache", "canceled", "reply", "trades", "done"} => Ended(input.msg)'
    <3> SUFFICES ASSUME input.pc \in {"cache", "canceled", "reply", "trades", "done"}
                 PROVE  Ended(input.msg)'
      OBVIOUS
    <3>1. input.msg \in OrderReports /\ input.msg.n \in Nat /\ Ended(input.msg)
      BY ReportFields DEF MessagesTyped, Endings
    <3>2. input.msg.n <= sent
      BY <1>0, <3>1 DEF Numbered
    <3>3. PICK m \in OrderReports : m = input.msg
      BY <3>1
    <3>4. Ended(m)'
      BY <2>3, <3>1, <3>2, <3>3
    <3> QED
      BY <2>5, <3>3, <3>4
  <2>7. ASSUME NEW c \in Cancels \cup Replaces
        PROVE  /\ Reply[c] # NoReply => Gone(id[c], Reply[c].n)'
               /\ ret[c].reply # NoReply => Gone(id[c], ret[c].reply.n)'
    <3>1. c \in Calls /\ id[c] \in Ids
      BY <1>0
    <3>2. ASSUME NEW m \in OrderReports, m.n <= applied, Gone(id[c], m.n)
          PROVE  book'[id[c]] = NoOrder \/ born'[id[c]] > m.n
      <4>1. m.n \in Nat /\ m.n <= sent
        BY <1>0, <3>2, ReportFields
      <4> QED
        BY <2>2, <3>1, <3>2, <4>1 DEF Gone
    <3>3. Reply[c] # NoReply => Gone(id[c], Reply[c].n)'
      BY <2>5, <3>1, <3>2 DEF Answered, Endings, Gone
    <3>4. ret[c].reply # NoReply => Gone(id[c], ret[c].reply.n)'
      BY <2>5, <3>1, <3>2 DEF Answered, Endings, Gone
    <3> QED
      BY <3>3, <3>4
  <2> QED
    BY <2>1, <2>4, <2>5, <2>6, <2>7 DEF Endings
<1>10. CASE UNCHANGED vars
  BY <1>1, <1>10 DEF vars, Endings
<1> QED
  BY <1>2, <1>3, <1>4, <1>6, <1>7, <1>8, <1>9, <1>10 DEF Next, InputStep

\* After a CancelOrder that succeeds its order is not at the gate, unless one was
\* placed with that id after the report that CancelOrder returned: whether the
\* order was canceled, filled or replaced by then, and whatever other cancels and
\* replaces of it are under way.
THEOREM CanceledIsGone == Spec => []CancelMeansGone
<1> DEFINE Inv == RegistrationInv /\ MessagesTyped /\ Numbered /\ Answered /\ Endings
<1>1. Init => Inv
  BY InitRegistration, InitAnswered, InitEndings
<1>2. Inv /\ [Next]_vars => Inv'
  BY NextRegistration, NextMessages, NextNumbered, NextAnswered, NextEndings
<1>3. Inv => CancelMeansGone
  <2> SUFFICES ASSUME Inv, NEW c \in Cancels, Succeeded(c)
               PROVE  book[id[c]] = NoOrder \/ born[id[c]] > ret[c].reply.n
    BY DEF CancelMeansGone
  <2>1. c \in Calls /\ ret[c].reply # NoReply
    BY CallKinds DEF Answered, Succeeded
  <2> QED
    BY <2>1 DEF Endings, Gone
<1> QED
  BY <1>1, <1>2, <1>3, PTL DEF Spec

-----------------------------------------------------------------------------
(* The cache follows the book.                                               *)

\* A report says something of order i, namely this.
Touches(m, i) == m.kind # "reject" /\ (m.id = i \/ (m.kind = "replaced" /\ m.original = i))
Told(m, i) == IF m.id = i /\ Kept(m) THEN [terms |-> m.terms, left |-> m.left] ELSE NoOrder

LEMMA UpdatedTells ==
    ASSUME NEW m \in OrderReports, NEW i \in Ids
    PROVE  Updated(m)[i] = IF Touches(m, i) THEN Told(m, i) ELSE cache[i]
  BY ReportFields DEF Updated, Touches, Told

\* The last that is told of an order, be it queued or in hand, is how it is at
\* the gate; if nothing is under way, the cache has it so.
BookInv ==
    /\ cache = [i \in Ids |-> cache[i]]
    /\ \A i \in Ids :
          /\ \A j \in 1 .. Len(reports) :
                /\ Touches(reports[j], i)
                /\ \A k \in 1 .. Len(reports) : k > j => ~Touches(reports[k], i)
                => Told(reports[j], i) = book[i]
          /\ (\A k \in 1 .. Len(reports) : ~Touches(reports[k], i))
                => IF input.pc = "cache" /\ Touches(input.msg, i)
                   THEN Told(input.msg, i) = book[i]
                   ELSE cache[i] = book[i]

\* The last of some messages tells all that a step of the gate did to the book.
Tells(new) ==
    /\ new \in Seq(OrderReports \cup Rejects)
    /\ Len(new) > 0
    /\ reports' = reports \o new
    /\ \A i \in Ids :
          IF Touches(new[Len(new)], i) THEN Told(new[Len(new)], i) = book'[i]
          ELSE book'[i] = book[i] /\ \A j \in 1 .. Len(new) : ~Touches(new[j], i)

LEMMA OneTells ==
    ASSUME MessagesTyped, NEW m \in OrderReports \cup Rejects, reports' = Append(reports, m),
           \A i \in Ids : IF Touches(m, i) THEN Told(m, i) = book'[i] ELSE book'[i] = book[i]
    PROVE  \E new \in Seq(OrderReports \cup Rejects) : Tells(new)
<1>1. /\ <<m>> \in Seq(OrderReports \cup Rejects) /\ Len(<<m>>) = 1 /\ <<m>>[1] = m
      /\ \A j \in 1 .. Len(<<m>>) : <<m>>[j] = m
  OBVIOUS
<1>2. Append(reports, m) = reports \o <<m>>
  BY DEF MessagesTyped
<1>3. Tells(<<m>>)
  BY <1>1, <1>2 DEF Tells
<1> QED
  BY <1>1, <1>3

LEMMA GateTells ==
    ASSUME MessagesTyped, GateStep \/ \E i \in Ids : GateFill(i)
    PROVE  \E new \in Seq(OrderReports \cup Rejects) : Tells(new)
<1>0. Quantity \in Nat /\ Quantity > 0 /\ sent \in Nat /\ sent + 1 \in Nat
  BY QuantityAssumption DEF MessagesTyped
<1>b. book \in [Ids -> Orders \cup {NoOrder}]
  BY DEF MessagesTyped
<1>1. CASE GateReject
  <2> DEFINE r == Head(wire)
             m == [kind |-> "reject", id |-> r.id,
                   request |-> IF r.call \in News THEN NoCall ELSE r.request]
  <2>1. m \in Rejects /\ m.kind = "reject"
    BY <1>1, HeadTyped DEF GateReject, Rejects
  <2>2. reports' = Append(reports, m) /\ book' = book
    BY <1>1 DEF GateReject
  <2> HIDE DEF m
  <2> QED
    BY <2>1, <2>2, OneTells DEF Touches
<1>2. CASE GatePlace
  <2> DEFINE r == Head(wire)
             order == [terms |-> terms[r.call], left |-> Quantity]
             m == Report("new", r.id, order, "GTC", sent + 1)
  <2>1. order.terms \in Terms /\ order.left \in 0 .. Quantity /\ r.id \in Ids
    BY <1>0, <1>2, HeadTyped DEF GatePlace, MessagesTyped
  <2>2. m \in OrderReports
    BY <1>0, <2>1, ReportTyped
  <2>3. reports' = Append(reports, m) /\ book' = [book EXCEPT ![r.id] = order]
    BY <1>2 DEF GatePlace
  <2>4. /\ m.kind = "new" /\ m.id = r.id
        /\ [terms |-> m.terms, left |-> m.left] = order
    BY DEF Report
  <2> HIDE DEF m, order, r
  <2>5. \A i \in Ids : IF Touches(m, i) THEN Told(m, i) = book'[i] ELSE book'[i] = book[i]
    BY <1>b, <2>1, <2>3, <2>4 DEF Touches, Told, Kept
  <2> QED
    BY <2>2, <2>3, <2>5, OneTells
<1>3. CASE GateExecute
  <2>1. PICK new \in Seq(OrderReports) :
           /\ Reporting(new)
           /\ \A j \in 1 .. Len(new) : new[j].id = Head(wire).id /\ new[j].kind # "replaced"
           /\ Len(new) > 0 /\ ~Kept(new[Len(new)])
    BY <1>3, ExecuteReports
  <2>2. book' = book /\ book[Head(wire).id] = NoOrder
    BY <1>3 DEF GateExecute
  <2>3. /\ \A j \in 1 .. Len(new) : new[j].kind # "reject"
        /\ Len(new) \in 1 .. Len(new) /\ new \in Seq(OrderReports \cup Rejects)
    <3>1. \A j \in 1 .. Len(new) : new[j] \in OrderReports
      BY <2>1
    <3>2. Len(new) \in Nat
      BY <2>1
    <3> QED
      BY <2>1, <3>1, <3>2, ReportFields
  <2>4. ASSUME NEW i \in Ids
        PROVE  IF Touches(new[Len(new)], i) THEN Told(new[Len(new)], i) = book'[i]
               ELSE book'[i] = book[i] /\ \A j \in 1 .. Len(new) : ~Touches(new[j], i)
    BY <2>1, <2>2, <2>3 DEF Touches, Told
  <2> QED
    BY <2>1, <2>3, <2>4 DEF Tells, Reporting
<1>4. CASE GateCancel
  <2> DEFINE r == Head(wire)
             m == Report("canceled", r.id, book[r.id], "GTC", sent + 1)
  <2>1. book[r.id] \in Orders /\ r.id \in Ids
    BY <1>4, HeadTyped DEF GateCancel, MessagesTyped
  <2>2. book[r.id].terms \in Terms /\ book[r.id].left \in 0 .. Quantity
    BY <1>0, <2>1 DEF Orders
  <2>3. m \in OrderReports
    BY <1>0, <2>1, <2>2, ReportTyped
  <2>4. reports' = Append(reports, m) /\ book' = [book EXCEPT ![r.id] = NoOrder]
    BY <1>4 DEF GateCancel
  <2>5. m.kind = "canceled" /\ m.id = r.id
    BY DEF Report
  <2> HIDE DEF m, r
  <2>6. \A i \in Ids : IF Touches(m, i) THEN Told(m, i) = book'[i] ELSE book'[i] = book[i]
    BY <1>b, <2>1, <2>4, <2>5 DEF Touches, Told, Kept
  <2> QED
    BY <2>3, <2>4, <2>6, OneTells
<1>5. CASE GateReplace
  <2> DEFINE r == Head(wire)
             order == [terms |-> terms[r.call], left |-> book[r.id].left]
             m == [kind |-> "replaced", id |-> r.request, original |-> r.id,
                   terms |-> order.terms, left |-> order.left,
                   timeInForce |-> "GTC", n |-> sent + 1]
  <2>1. book[r.id] \in Orders /\ r.id \in Ids /\ r.request \in Ids
    BY <1>5, HeadTyped DEF GateReplace, MessagesTyped
  <2>2. order.terms \in Terms /\ order.left \in 0 .. Quantity
    BY <1>0, <1>5, <2>1 DEF GateReplace, MessagesTyped, Orders
  <2>3. m \in OrderReports
    BY <1>0, <2>1, <2>2 DEF OrderReports
  <2>4. /\ reports' = Append(reports, m)
        /\ book' = [book EXCEPT ![r.id] = NoOrder, ![r.request] = order]
        /\ book[r.id] # NoOrder /\ book[r.request] = NoOrder
    BY <1>5 DEF GateReplace
  <2>5. /\ m.kind = "replaced" /\ m.id = r.request /\ m.original = r.id
        /\ [terms |-> m.terms, left |-> m.left] = order
    OBVIOUS
  <2>6. r.id # r.request
    BY <2>4
  <2> HIDE DEF m, order, r
  <2>7. \A i \in Ids : IF Touches(m, i) THEN Told(m, i) = book'[i] ELSE book'[i] = book[i]
    BY <1>b, <2>1, <2>4, <2>5, <2>6 DEF Touches, Told, Kept
  <2> QED
    BY <2>3, <2>4, <2>7, OneTells
<1>6. ASSUME NEW o \in Ids, GateFill(o)
      PROVE  \E new \in Seq(OrderReports \cup Rejects) : Tells(new)
  <2> DEFINE order == [book[o] EXCEPT !.left = @ - 1]
             m == Report("trade", o, order, "GTC", sent + 1)
  <2>1. book[o] \in Orders
    BY <1>6 DEF GateFill, MessagesTyped
  <2>2. /\ order.terms \in Terms /\ order.left \in 0 .. Quantity
        /\ order = [terms |-> order.terms, left |-> order.left]
    BY <1>0, <2>1 DEF Orders
  <2>3. /\ reports' = Append(reports, m)
        /\ book' = [book EXCEPT ![o] = IF order.left = 0 THEN NoOrder ELSE order]
    BY <1>6 DEF GateFill
  <2> HIDE DEF order
  <2>4. m \in OrderReports
    BY <1>0, <2>2, ReportTyped
  <2>5. /\ m.kind = "trade" /\ m.id = o /\ m.left = order.left
        /\ [terms |-> m.terms, left |-> m.left] = order
    BY <2>2 DEF Report
  <2> HIDE DEF m
  <2>6. \A i \in Ids : IF Touches(m, i) THEN Told(m, i) = book'[i] ELSE book'[i] = book[i]
    BY <1>b, <2>2, <2>3, <2>5 DEF Touches, Told, Kept
  <2> QED
    BY <2>3, <2>4, <2>6, OneTells
<1> QED
  BY <1>1, <1>2, <1>3, <1>4, <1>5, <1>6 DEF GateStep

LEMMA InitBook == Init => BookInv
<1> SUFFICES ASSUME Init PROVE BookInv
  OBVIOUS
<1>1. /\ cache = book /\ reports = <<>> /\ input.pc = "idle"
      /\ book \in [Ids -> {NoOrder} \cup [terms : Terms, left : {Quantity}]]
  BY DEF Init
<1>2. Len(reports) = 0
  BY <1>1
<1> QED
  BY <1>1, <1>2 DEF BookInv

LEMMA NextBook ==
    RegistrationInv /\ MessagesTyped /\ BookInv /\ [Next]_vars => BookInv'
<1> SUFFICES ASSUME RegistrationInv, MessagesTyped, BookInv, [Next]_vars PROVE BookInv'
  OBVIOUS
<1> USE DEF args, gateVars, callFields
<1>0. reports \in Seq(OrderReports \cup Rejects)
  BY DEF MessagesTyped
<1>1. CASE /\ UNCHANGED <<cache, book, reports>>
           /\ input' = input \/ "cache" \notin {input.pc, input'.pc}
  BY <1>1 DEF BookInv
<1>2. ASSUME NEW c \in Calls, CallStep(c) \/ Expire(c)
      PROVE  UNCHANGED <<cache, book, reports, input>>
  BY <1>2 DEF CallStep, Expire, StartNew, RegisterNew, StartCancel, LookupPending,
              RegisterCancel, StartReplace, Send, Wake, Collect, Unregister
<1>3. CASE Receive
  <2>1. /\ input.pc = "idle" /\ reports # <<>> /\ reports' = Tail(reports)
        /\ input'.pc = FirstStep(Head(reports)) /\ input'.msg = Head(reports)
        /\ UNCHANGED <<cache, book>>
    BY <1>3 DEF Receive
  <2>2. /\ Head(reports) = reports[1] /\ Len(reports) \in Nat /\ 1 \in 1 .. Len(reports)
        /\ Len(reports') = Len(reports) - 1
        /\ \A j \in 1 .. Len(reports') : reports'[j] = reports[j + 1] /\ j + 1 \in 1 .. Len(reports)
    BY <1>0, <2>1
  <2>3. \A k \in 1 .. Len(reports) : k > 1 => k - 1 \in 1 .. Len(reports') /\ reports'[k - 1] = reports[k]
    BY <2>2
  <2>4. ASSUME NEW i \in Ids, NEW j \in 1 .. Len(reports'), Touches(reports'[j], i),
               \A k \in 1 .. Len(reports') : k > j => ~Touches(reports'[k], i)
        PROVE  Told(reports'[j], i) = book'[i]
    <3>1. reports'[j] = reports[j + 1] /\ j + 1 \in 1 .. Len(reports)
      BY <2>2
    <3>2. ASSUME NEW k \in 1 .. Len(reports), k > j + 1 PROVE ~Touches(reports[k], i)
      <4>1. k > 1 /\ k - 1 > j
        BY <2>2, <3>2
      <4>2. k - 1 \in 1 .. Len(reports') /\ reports'[k - 1] = reports[k]
        BY <2>3, <4>1
      <4> QED
        BY <2>4, <4>1, <4>2
    <3>3. Told(reports[j + 1], i) = book[i]
      BY <2>4, <3>1, <3>2 DEF BookInv
    <3> QED
      BY <2>1, <3>1, <3>3
  <2>5. ASSUME NEW i \in Ids, \A k \in 1 .. Len(reports') : ~Touches(reports'[k], i)
        PROVE  IF input'.pc = "cache" /\ Touches(input'.msg, i)
               THEN Told(input'.msg, i) = book'[i]
               ELSE cache'[i] = book'[i]
    <3>1. \A k \in 1 .. Len(reports) : k > 1 => ~Touches(reports[k], i)
      BY <2>3, <2>5
    <3>2. CASE Touches(reports[1], i)
      <4>1. Told(reports[1], i) = book[i]
        BY <2>2, <3>1, <3>2 DEF BookInv
      <4>2. input'.pc = "cache"
        BY <2>1, <2>2, <3>2 DEF FirstStep, Touches
      <4> QED
        BY <2>1, <2>2, <3>2, <4>1, <4>2
    <3>3. CASE ~Touches(reports[1], i)
      <4>1. \A k \in 1 .. Len(reports) : ~Touches(reports[k], i)
        BY <2>2, <3>1, <3>3
      <4> QED
        BY <2>1, <2>2, <3>3, <4>1 DEF BookInv
    <3> QED
      BY <3>2, <3>3
  <2> QED
    BY <2>1, <2>4, <2>5 DEF BookInv
<1>4. CASE ApplyReport
  <2>1. /\ input.pc = "cache" /\ input'.pc # "cache" /\ cache' = Updated(input.msg)
        /\ UNCHANGED <<reports, book>> /\ input.msg \in OrderReports
    BY <1>4 DEF ApplyReport, MessagesTyped
  <2>2. \A i \in Ids : cache'[i] = IF Touches(input.msg, i) THEN Told(input.msg, i) ELSE cache[i]
    BY <2>1, UpdatedTells
  <2>3. cache' = [i \in Ids |-> cache'[i]]
    BY <2>1 DEF Updated
  <2>4. ASSUME NEW i \in Ids, \A k \in 1 .. Len(reports) : ~Touches(reports[k], i)
        PROVE  cache'[i] = book[i]
    BY <2>1, <2>2, <2>4 DEF BookInv
  <2> QED
    BY <2>1, <2>3, <2>4 DEF BookInv
<1>5. CASE AnswerCanceled \/ SetReply \/ AppendTrade \/ Signal \/ AnswerReject
  <2>1. /\ UNCHANGED <<cache, book, reports>> /\ "cache" \notin {input.pc, input'.pc}
    BY <1>5 DEF AnswerCanceled, SetReply, AppendTrade, Signal, AnswerReject, MessagesTyped
  <2> QED
    BY <1>1, <2>1
<1>6. CASE GateStep \/ \E i \in Ids : GateFill(i)
  <2>1. UNCHANGED <<cache, input>>
    BY <1>6, GateSteps DEF GateEffect
  <2>2. PICK new \in Seq(OrderReports \cup Rejects) : Tells(new)
    BY <1>6, GateTells
  <2>3. /\ Len(reports') = Len(reports) + Len(new) /\ Len(reports) \in Nat /\ Len(new) \in Nat
        /\ \A j \in 1 .. Len(reports) : reports'[j] = reports[j]
        /\ \A j \in Len(reports) + 1 .. Len(reports) + Len(new) : reports'[j] = new[j - Len(reports)]
    BY <1>0, <2>2, Concatenation DEF Tells
  <2>4. Len(reports') \in Len(reports) + 1 .. Len(reports) + Len(new)
    BY <2>2, <2>3 DEF Tells
  <2>5. reports'[Len(reports')] = new[Len(new)] /\ Len(reports') \in 1 .. Len(reports')
    BY <2>3, <2>4
  <2>6. ASSUME NEW i \in Ids, NEW j \in 1 .. Len(reports'), Touches(reports'[j], i),
               \A k \in 1 .. Len(reports') : k > j => ~Touches(reports'[k], i)
        PROVE  Told(reports'[j], i) = book'[i]
    <3>1. CASE Touches(new[Len(new)], i)
      <4>1. j = Len(reports')
        <5>1. ~(Len(reports') > j)
          BY <2>5, <2>6, <3>1
        <5>2. Len(reports') \in Nat /\ j \in Nat /\ j <= Len(reports')
          BY <2>3
        <5> QED
          BY <5>1, <5>2
      <4> QED
        BY <2>2, <2>5, <3>1, <4>1 DEF Tells
    <3>2. CASE ~Touches(new[Len(new)], i)
      <4>1. book'[i] = book[i] /\ \A k \in 1 .. Len(new) : ~Touches(new[k], i)
        BY <2>2, <3>2 DEF Tells
      <4>2. j \in 1 .. Len(reports)
        <5> SUFFICES ASSUME j \notin 1 .. Len(reports) PROVE FALSE
          OBVIOUS
        <5>1. j \in Len(reports) + 1 .. Len(reports) + Len(new) /\ j - Len(reports) \in 1 .. Len(new)
          BY <2>3
        <5> QED
          BY <2>3, <2>6, <4>1, <5>1
      <4>3. \A k \in 1 .. Len(reports) :
               k \in 1 .. Len(reports') /\ reports'[k] = reports[k]
        BY <2>3
      <4> QED
        BY <2>6, <4>1, <4>2, <4>3 DEF BookInv
    <3> QED
      BY <3>1, <3>2
  <2>7. ASSUME NEW i \in Ids, \A k \in 1 .. Len(reports') : ~Touches(reports'[k], i)
        PROVE  IF input.pc = "cache" /\ Touches(input.msg, i)
               THEN Told(input.msg, i) = book'[i]
               ELSE cache[i] = book'[i]
    <3>1. ~Touches(new[Len(new)], i)
      BY <2>5, <2>7
    <3>2. book'[i] = book[i]
      BY <2>2, <3>1 DEF Tells
    <3>3. \A k \in 1 .. Len(reports) : ~Touches(reports[k], i)
      BY <2>3, <2>7
    <3> QED
      BY <3>2, <3>3 DEF BookInv
  <2> QED
    BY <2>1, <2>6, <2>7 DEF BookInv
<1>7. CASE UNCHANGED vars
  BY <1>1, <1>7 DEF vars
<1> QED
  BY <1>1, <1>2, <1>3, <1>4, <1>5, <1>6, <1>7 DEF Next, InputStep

\* When no report is under way the cached orders are the gate's (ordersContainer's
\* handleReport, orders-container.go), whatever was placed, replaced under another
\* id, filled, canceled or refused, and whatever ids were used again.
THEOREM CacheEndsAsBook == Spec => []CacheTracksBook
<1> DEFINE Inv == RegistrationInv /\ MessagesTyped /\ BookInv
<1>1. Init => Inv
  BY InitRegistration, InitAnswered, InitBook
<1>2. Inv /\ [Next]_vars => Inv'
  BY NextRegistration, NextMessages, NextBook
<1>3. Inv => CacheTracksBook
  <2> SUFFICES ASSUME Inv, reports = <<>>, input.pc # "cache" PROVE cache = book
    BY DEF CacheTracksBook
  <2>1. Len(reports) = 0
    OBVIOUS
  <2>2. \A i \in Ids : cache[i] = book[i]
    BY <2>1 DEF BookInv
  <2> QED
    BY <2>2 DEF BookInv, MessagesTyped
<1> QED
  BY <1>1, <1>2, <1>3, PTL DEF Spec

-----------------------------------------------------------------------------
(* A refusal is one's own, while no client order id is asked for twice.      *)

\* Whose request the reject names was refused.
OwnReject(m) ==
    \A c \in Cancels \cup Replaces :
        pc[c] # "absent" /\ RequestId(c) = m.request => c \in rejected

\* Requests carry their calls' ids, no two replaces one; rejects, and the errors
\* they leave in the calls, are of refused requests.
RefusalInv ==
    /\ \A i \in 1 .. Len(wire) :
          pc[wire[i].call] # "absent" /\ wire[i].request = RequestId(wire[i].call)
    /\ \A j \in 1 .. Len(reports) : reports[j].kind = "reject" => OwnReject(reports[j])
    /\ input.pc = "reject" => OwnReject(input.msg)
    /\ \A c \in Cancels \cup Replaces :
          Error[c] = "reject" \/ ret[c].err = "reject" => c \in rejected
    /\ \A c, d \in Replaces :
          pc[c] # "absent" /\ pc[d] # "absent" /\ newId[c] = newId[d] => c = d

LEMMA InitRefusal == IdReuse = "never" /\ Init => RefusalInv
<1> SUFFICES ASSUME IdReuse = "never", Init PROVE RefusalInv
  OBVIOUS
<1>1. PICK cast \in Casts :
         /\ pc = [c \in Calls |-> IF c \in cast THEN "start" ELSE "absent"]
         /\ IdsAllowed(cast)
  BY DEF Init
<1>2. Replaces \subseteq Calls /\ Cancels \cup Replaces \subseteq Calls
  BY DEF Calls
<1>3. \A c, d \in Replaces :
         pc[c] # "absent" /\ pc[d] # "absent" /\ newId[c] = newId[d] => c = d
  BY <1>1, <1>2, CallsAssumption DEF IdsAllowed, OrderId
<1>4. /\ wire = <<>> /\ reports = <<>> /\ input.pc = "idle"
      /\ \A c \in Calls : Error[c] = "none" /\ ret[c].err = "none"
  BY DEF Init
<1>5. Len(wire) = 0 /\ Len(reports) = 0
  BY <1>4
<1> QED
  BY <1>2, <1>3, <1>4, <1>5 DEF RefusalInv

LEMMA CallersKeepRefusal ==
    ASSUME RegistrationInv, MessagesTyped, Answered, RefusalInv,
           NEW c \in Calls, CallStep(c) \/ Expire(c)
    PROVE  RefusalInv'
<1> USE DEF args, gateVars, callFields
<1>0. /\ pc \in [Calls -> CallStates] /\ Cancels \cup Replaces \subseteq Calls
      /\ wire \in Seq(Requests) /\ \A i \in 1 .. Len(wire) : wire[i].call \in Calls
  <2>1. wire \in Seq(Requests) /\ \A r \in Requests : r.call \in Calls
    BY DEF MessagesTyped, Requests
  <2>2. \A i \in 1 .. Len(wire) : wire[i].call \in Calls
    BY <2>1
  <2> QED
    BY <2>1, <2>2 DEF RegistrationInv, CallsTypeOK, Calls
<1>1. UNCHANGED <<newId, rejected, reports, input, Error>>
  BY DEF CallStep, Expire, StartNew, RegisterNew, StartCancel, LookupPending,
         RegisterCancel, StartReplace, Send, Wake, Collect, Unregister
<1>2. pc[c] # "absent" /\ \E to \in CallStates \ {"absent"} : pc' = [pc EXCEPT ![c] = to]
  BY DEF CallStep, Expire, StartNew, RegisterNew, StartCancel, LookupPending, Return, Goto,
         RegisterCancel, StartReplace, Send, Wake, Collect, Unregister, CallStates
<1>3. \A d \in Calls : pc'[d] = "absent" <=> pc[d] = "absent"
  BY <1>0, <1>2
<1>4. wire' = wire \/ wire' = Append(wire, Request(c))
  BY DEF CallStep, Expire, StartNew, RegisterNew, StartCancel, LookupPending,
         RegisterCancel, StartReplace, Send, Wake, Collect, Unregister
<1>5. \A i \in 1 .. Len(wire') :
         pc'[wire'[i].call] # "absent" /\ wire'[i].request = RequestId(wire[i].call)'
  <2>2. CASE wire' = wire
    BY <1>0, <1>1, <1>3, <2>2 DEF RefusalInv, RequestId
  <2>3. CASE wire' = Append(wire, Request(c))
    <3>1. Request(c).call = c /\ Request(c).request = RequestId(c)
      BY DEF Request
    <3>2. \A i \in 1 .. Len(wire') :
             (i \in 1 .. Len(wire) /\ wire'[i] = wire[i]) \/ wire'[i] = Request(c)
      BY <1>0, <2>3
    <3> QED
      BY <1>0, <1>1, <1>2, <1>3, <3>1, <3>2 DEF RefusalInv, RequestId
  <2> QED
    BY <1>4, <2>2, <2>3
<1>6. \A m : OwnReject(m) => OwnReject(m)'
  BY <1>0, <1>1, <1>3 DEF OwnReject, RequestId
<1>7. \A d \in Cancels \cup Replaces :
         Error'[d] = "reject" \/ ret'[d].err = "reject" => d \in rejected'
  <2>1. \/ \E e : e # "reject" /\ ret' = [ret EXCEPT ![c].err = e]
        \/ ret' = ret
        \/ ret' = [ret EXCEPT ![c].reply = Reply[c]]
        \/ ret' = [ret EXCEPT ![c] = [reply |-> @.reply, trades |-> trades[c], err |-> Error[c]]]
    BY DEF CallStep, Expire, StartNew, RegisterNew, StartCancel, LookupPending, Return,
           RegisterCancel, StartReplace, Send, Wake, Collect, Unregister
  <2>2. /\ \A d \in Calls : ret[d] = [reply |-> ret[d].reply, trades |-> ret[d].trades,
                                      err |-> ret[d].err]
        /\ ret = [d \in Calls |-> ret[d]]
    BY DEF Answered
  <2>3. \A d \in Calls : ret'[d].err = "reject" => "reject" \in {ret[d].err, Error[d]}
    BY <2>1, <2>2
  <2> QED
    BY <1>0, <1>1, <2>3 DEF RefusalInv
<1>8. \A j \in 1 .. Len(reports') : reports'[j].kind = "reject" => OwnReject(reports[j])'
  <2>1. \A j \in 1 .. Len(reports) : reports[j].kind = "reject" => OwnReject(reports[j])'
    BY <1>1, <1>6 DEF RefusalInv, OwnReject
  <2> QED
    BY <1>1, <2>1
<1>9. input'.pc = "reject" => OwnReject(input.msg)'
  BY <1>0, <1>1, <1>3 DEF RefusalInv, OwnReject, RequestId
<1>10. \A d, e \in Replaces :
          pc'[d] # "absent" /\ pc'[e] # "absent" /\ newId'[d] = newId'[e] => d = e
  BY <1>0, <1>1, <1>3 DEF RefusalInv
<1> QED
  BY <1>5, <1>7, <1>8, <1>9, <1>10 DEF RefusalInv

\* All that the gate sends but a reject is about orders.
LEMMA OrdersReported ==
    ASSUME MessagesTyped, GateStep \/ \E i \in Ids : GateFill(i), ~GateReject
    PROVE  \E new \in Seq(OrderReports) : Reporting(new)
<1>1. sent' # sent
  <2>0. sent \in Nat
    BY DEF MessagesTyped
  <2>1. CASE GateExecute
    <3>1. PICK new \in Seq(OrderReports) : Reporting(new) /\ Len(new) > 0
      BY <2>1, ExecuteReports
    <3> QED
      BY <2>0, <3>1 DEF Reporting
  <2>2. CASE GatePlace \/ GateCancel \/ GateReplace \/ \E i \in Ids : GateFill(i)
    <3>1. sent' = sent + 1
      BY <2>2, Zenon DEF GatePlace, GateCancel, GateReplace, GateFill
    <3> QED
      BY <2>0, <3>1
  <2> QED
    BY <2>1, <2>2 DEF GateStep
<1> QED
  BY <1>1, GateSteps DEF GateEffect

LEMMA GateKeepsRefusal ==
    ASSUME RegistrationInv, MessagesTyped, RefusalInv, GateStep \/ \E i \in Ids : GateFill(i)
    PROVE  RefusalInv'
<1> USE DEF args, gateVars, callFields
<1>0. /\ UNCHANGED <<pc, newId, input, Error, ret>>
      /\ wire \in Seq(Requests) /\ reports \in Seq(OrderReports \cup Rejects)
  BY GateSteps DEF GateEffect, MessagesTyped
<1>1. \/ wire' = wire
      \/ wire # <<>> /\ wire' = Tail(wire)
  BY DEF GateStep, GateReject, GatePlace, GateExecute, GateCancel, GateReplace, GateFill
<1>2. \A i \in 1 .. Len(wire') :
         pc'[wire'[i].call] # "absent" /\ wire'[i].request = RequestId(wire[i].call)'
  <2>1. \A i \in 1 .. Len(wire') : \E j \in 1 .. Len(wire) : wire'[i] = wire[j]
    <3>1. CASE wire' = wire
      BY <3>1
    <3>2. CASE wire # <<>> /\ wire' = Tail(wire)
      <4>1. \A i \in 1 .. Len(wire') : i + 1 \in 1 .. Len(wire) /\ wire'[i] = wire[i + 1]
        BY <1>0, <3>2
      <4> QED
        BY <4>1
    <3> QED
      BY <1>1, <3>1, <3>2
  <2> QED
    BY <1>0, <2>1 DEF RefusalInv, RequestId
<1>3. rejected \subseteq rejected'
  BY DEF GateStep, GateReject, GatePlace, GateExecute, GateCancel, GateReplace, GateFill
<1>4. \A m : OwnReject(m) => OwnReject(m)'
  BY <1>0, <1>3 DEF OwnReject, RequestId
<1>5. ASSUME GateReject
      PROVE  \E n : /\ reports' = Append(reports, n)
                     /\ \A c \in Cancels \cup Replaces :
                           pc[c] # "absent" /\ RequestId(c) = n.request => c \in rejected'
  <2> DEFINE r == Head(wire)
             m == [kind |-> "reject", id |-> r.id,
                   request |-> IF r.call \in News THEN NoCall ELSE r.request]
  <2>1. wire # <<>> /\ rejected' = rejected \cup {r.call} /\ reports' = Append(reports, m)
    BY <1>5 DEF GateReject
  <2>2. r = wire[1] /\ 1 \in 1 .. Len(wire) /\ r.call \in Calls
    BY <1>0, <2>1, HeadTyped
  <2>3. pc[r.call] # "absent" /\ r.request = RequestId(r.call)
    BY <2>2 DEF RefusalInv
  <2>4. \A c \in Replaces : newId[c] \in Ids
    BY DEF MessagesTyped
  <2>5. m.request = IF r.call \in News THEN NoCall ELSE RequestId(r.call)
    BY <2>3
  <2> HIDE DEF m, r
  <2>6. ASSUME NEW c \in Cancels \cup Replaces, pc[c] # "absent", RequestId(c) = m.request
        PROVE  c = r.call
    <3>1. RequestId(c) \in Ids \cup Calls /\ RequestId(c) # NoCall
      BY <2>4, CallsAssumption, IdsAssumption DEF RequestId, Calls
    <3>2. r.call \in Cancels \cup Replaces /\ RequestId(r.call) = RequestId(c)
      BY <2>2, <2>5, <2>6, <3>1 DEF Calls
    <3>3. CASE c \in Replaces
      <4>1. newId[c] \in Ids /\ RequestId(c) = newId[c]
        BY <2>4, <3>3 DEF RequestId
      <4>2. r.call \in Replaces /\ newId[r.call] = newId[c]
        BY <2>2, <3>2, <4>1, IdsAssumption DEF RequestId
      <4> QED
        BY <2>3, <2>6, <3>3, <4>2 DEF RefusalInv
    <3>4. CASE c \notin Replaces
      <4>1. RequestId(c) = c /\ c \in Calls
        BY <3>4 DEF RequestId, Calls
      <4>2. r.call \notin Replaces
        BY <2>4, <3>2, <4>1, IdsAssumption DEF RequestId
      <4> QED
        BY <3>2, <4>1, <4>2 DEF RequestId
    <3> QED
      BY <3>3, <3>4
  <2> QED
    BY <2>1, <2>6
<1>6. \A j \in 1 .. Len(reports') : reports'[j].kind = "reject" => OwnReject(reports[j])'
  <2>1. \A j \in 1 .. Len(reports) : reports[j].kind = "reject" =>
           \A c \in Cancels \cup Replaces :
              pc[c] # "absent" /\ RequestId(c) = reports[j].request => c \in rejected'
    BY <1>3 DEF RefusalInv, OwnReject
  <2>2. \A j \in 1 .. Len(reports') : reports'[j].kind = "reject" =>
           \A c \in Cancels \cup Replaces :
              pc[c] # "absent" /\ RequestId(c) = reports'[j].request => c \in rejected'
    <3>1. CASE GateReject
      <4>1. PICK n : /\ reports' = Append(reports, n)
                     /\ \A c \in Cancels \cup Replaces :
                           pc[c] # "absent" /\ RequestId(c) = n.request => c \in rejected'
        BY <1>5, <3>1
      <4>2. \A j \in 1 .. Len(reports') :
               (j \in 1 .. Len(reports) /\ reports'[j] = reports[j]) \/ reports'[j] = n
        BY <4>1, Appended
      <4> QED
        BY <2>1, <4>1, <4>2
    <3>2. CASE \E new \in Seq(OrderReports) : Reporting(new)
      <4>1. PICK new \in Seq(OrderReports) : Reporting(new)
        BY <3>2
      <4>2. /\ Len(reports') = Len(reports) + Len(new)
            /\ \A j \in 1 .. Len(reports) : reports'[j] = reports[j]
            /\ \A j \in Len(reports) + 1 .. Len(reports) + Len(new) :
                  reports'[j] = new[j - Len(reports)]
        BY <1>0, <4>1, Concatenation DEF Reporting
      <4>3. \A j \in 1 .. Len(new) : new[j].kind # "reject"
        BY ReportFields
      <4>4. \A j \in 1 .. Len(reports') :
               (j \in 1 .. Len(reports) /\ reports'[j] = reports[j]) \/ reports'[j].kind # "reject"
        <5> SUFFICES ASSUME NEW j \in 1 .. Len(reports'), j \notin 1 .. Len(reports)
                     PROVE  reports'[j].kind # "reject"
          BY <4>2
        <5>1. j \in Len(reports) + 1 .. Len(reports) + Len(new) /\ j - Len(reports) \in 1 .. Len(new)
          BY <1>0, <4>1, <4>2
        <5> QED
          BY <4>2, <4>3, <5>1
      <4> QED
        BY <2>1, <4>4
    <3> QED
      BY <3>1, <3>2, OrdersReported
  <2> QED
    BY <1>0, <2>2 DEF OwnReject, RequestId
<1>7. \A c \in Cancels \cup Replaces :
         Error'[c] = "reject" \/ ret'[c].err = "reject" => c \in rejected'
  BY <1>0, <1>3 DEF RefusalInv
<1>8. input'.pc = "reject" => OwnReject(input.msg)'
  BY <1>0, <1>3 DEF RefusalInv, OwnReject, RequestId
<1>9. \A d, e \in Replaces :
          pc'[d] # "absent" /\ pc'[e] # "absent" /\ newId'[d] = newId'[e] => d = e
  BY <1>0 DEF RefusalInv
<1> QED
  BY <1>2, <1>6, <1>7, <1>8, <1>9 DEF RefusalInv

LEMMA NextRefusal ==
    RegistrationInv /\ MessagesTyped /\ Answered /\ RefusalInv /\ [Next]_vars => RefusalInv'
<1> SUFFICES ASSUME RegistrationInv, MessagesTyped, Answered, RefusalInv, [Next]_vars
             PROVE  RefusalInv'
  OBVIOUS
<1> USE DEF args, gateVars, callFields
<1>0. /\ Cancels \cup Replaces \subseteq Calls /\ reports \in Seq(OrderReports \cup Rejects)
      /\ PendingExact /\ pendingFilled \in [Ids -> News \cup {NoCall}]
      /\ Error \in [Calls -> {"none", "reject"}]
  BY DEF RegistrationInv, CallsTypeOK, MessagesTyped, Answered, Calls
<1>1. CASE /\ UNCHANGED <<pc, newId, wire, ret, rejected, reports>>
           /\ input'.pc = "reject" => input' = input
           /\ \A c \in Cancels \cup Replaces : Error'[c] = "reject" => c \in rejected
  BY <1>1 DEF RefusalInv, OwnReject, RequestId
<1>2. ASSUME NEW c \in Calls, CallStep(c) \/ Expire(c) PROVE RefusalInv'
  BY <1>2, CallersKeepRefusal
<1>3. CASE GateStep \/ \E i \in Ids : GateFill(i)
  BY <1>3, GateKeepsRefusal
<1>4. CASE Receive
  <2>1. /\ reports # <<>> /\ reports' = Tail(reports)
        /\ input'.pc = FirstStep(Head(reports)) /\ input'.msg = Head(reports)
        /\ UNCHANGED <<pc, newId, wire, ret, rejected, Error>>
    BY <1>4 DEF Receive
  <2>2. /\ Head(reports) = reports[1] /\ 1 \in 1 .. Len(reports)
        /\ \A j \in 1 .. Len(reports') : reports'[j] = reports[j + 1] /\ j + 1 \in 1 .. Len(reports)
    BY <1>0, <2>1
  <2>3. input'.pc = "reject" => reports[1].kind = "reject"
    BY <2>1, <2>2 DEF FirstStep
  <2>4. input'.pc = "reject" => OwnReject(input.msg)'
    BY <2>1, <2>2, <2>3 DEF RefusalInv, OwnReject, RequestId
  <2>5. \A j \in 1 .. Len(reports') : reports'[j].kind = "reject" => OwnReject(reports[j])'
    BY <2>1, <2>2 DEF RefusalInv, OwnReject, RequestId
  <2> QED
    BY <2>1, <2>4, <2>5 DEF RefusalInv, RequestId
<1>5. CASE ApplyReport \/ AnswerCanceled \/ SetReply \/ AppendTrade \/ Signal
  <2>1. /\ UNCHANGED <<pc, newId, wire, ret, rejected, reports, Error>>
        /\ input'.pc # "reject"
    BY <1>5 DEF ApplyReport, AnswerCanceled, SetReply, AppendTrade, Signal, MessagesTyped
  <2> QED
    BY <1>1, <2>1 DEF RefusalInv
<1>6. CASE AnswerReject
  <2>1. /\ input.pc = "reject" /\ input'.pc = "idle"
        /\ Error' = [c \in Calls |-> IF c \in Rejected(input.msg) THEN "reject" ELSE Error[c]]
        /\ UNCHANGED <<pc, newId, wire, ret, rejected, reports>>
    BY <1>6 DEF AnswerReject, MessagesTyped
  <2>2. input.msg.id \in Ids
    BY <2>1, RejectFields DEF MessagesTyped
  <2>3. ASSUME NEW c \in Cancels \cup Replaces, c \in Rejected(input.msg) PROVE c \in rejected
    <3>1. c \in pendingCancel[input.msg.id] /\ RequestId(c) = input.msg.request
      BY <1>0, <2>2, <2>3, CallKinds DEF Rejected
    <3>2. pc[c] # "absent"
      BY <1>0, <2>2, <3>1 DEF PendingExact, Registered
    <3> QED
      BY <2>1, <3>1, <3>2 DEF RefusalInv, OwnReject
  <2>4. \A c \in Cancels \cup Replaces : Error'[c] = "reject" => c \in rejected
    BY <1>0, <2>1, <2>3 DEF RefusalInv
  <2> QED
    BY <1>1, <2>1, <2>4
<1>7. CASE UNCHANGED vars
  BY <1>1, <1>7 DEF vars, RefusalInv
<1> QED
  BY <1>2, <1>3, <1>4, <1>5, <1>6, <1>7 DEF Next, InputStep

\* As long as callers take every client order id once, a CancelOrder or a
\* ReplaceOrder that is refused was refused itself: handleRejectPayload
\* (zmq-trader.go:363) hands no reject to another cancel or replace of the order.
THEOREM RefusedItself == IdReuse = "never" /\ Spec => []CancelRejectIsOwn
<1> SUFFICES ASSUME IdReuse = "never" PROVE Spec => []CancelRejectIsOwn
  OBVIOUS
<1> DEFINE Inv == RegistrationInv /\ MessagesTyped /\ Numbered /\ Answered /\ RefusalInv
<1>1. Init => Inv
  BY InitRegistration, InitAnswered, InitRefusal
<1>2. Inv /\ [Next]_vars => Inv'
  BY NextRegistration, NextMessages, NextNumbered, NextAnswered, NextRefusal
<1>3. Inv => CancelRejectIsOwn
  BY DEF RefusalInv, CancelRejectIsOwn
<1> HIDE DEF Inv
<1> QED
  BY <1>1, <1>2, <1>3, PTL DEF Spec
-----------------------------------------------------------------------------
(* Whom a reject is meant for.                                               *)

\* Where a call is as long as its request is not sent.
Unsent == {"absent", "start", "lookup", "register", "send"}

\* What a caller's step leaves alone, where it takes the call, and that it sends
\* the call's request at most.
LEMMA CallerEffect ==
    ASSUME NEW c \in Calls, CallStep(c) \/ Expire(c)
    PROVE  /\ UNCHANGED <<args, cache, Reply, Error, trades, input, reports, gateVars, applied>>
           /\ \E to \in CallStates \ {"absent"} :
                 /\ pc' = [pc EXCEPT ![c] = to]
                 /\ pc[c] \notin {"absent", "returned"}
                 /\ to \in Unsent => pc[c] \in Unsent
                 /\ to = "returned" => pc[c] # "wait"
                 /\ \/ wire' = wire
                    \/ pc[c] = "send" /\ to = "wait" /\ wire' = Append(wire, Request(c))
           /\ doneBuf' \subseteq doneBuf
  BY DEF CallStep, Expire, StartNew, RegisterNew, StartCancel, LookupPending, Return, Goto,
         RegisterCancel, StartReplace, Send, Wake, Collect, Unregister, CallStates, Unsent,
         args, gateVars, callFields

\* A request is sent once and answered once by the gate.
Underway(c) == \E i \in 1 .. Len(wire) : wire[i].call = c
PostInv ==
    /\ placed \subseteq News
    /\ rejected \subseteq Calls \ placed
    /\ \A c \in placed \cup rejected : pc[c] \notin Unsent /\ ~Underway(c)
    /\ \A i \in 1 .. Len(wire) :
          /\ wire[i].id = id[wire[i].call]
          /\ wire[i].request = RequestId(wire[i].call)
          /\ pc[wire[i].call] \notin Unsent
          /\ \A j \in 1 .. Len(wire) : wire[i].call = wire[j].call => i = j

LEMMA InitPost == Init => PostInv
<1> SUFFICES ASSUME Init PROVE PostInv
  OBVIOUS
<1>1. wire = <<>> /\ placed = {} /\ rejected = {}
  BY DEF Init
<1>2. Len(wire) = 0
  BY <1>1
<1> QED
  BY <1>1, <1>2 DEF PostInv

\* What the gate does to the requests.
LEMMA GateTakes ==
    ASSUME GateStep \/ \E i \in Ids : GateFill(i)
    PROVE  \/ UNCHANGED <<wire, placed, rejected>>
           \/ /\ wire # <<>> /\ wire' = Tail(wire)
              /\ \/ UNCHANGED placed /\ rejected' \in {rejected, rejected \cup {Head(wire).call}}
                 \/ /\ UNCHANGED rejected /\ Head(wire).call \in News
                    /\ placed' = placed \cup {Head(wire).call}
  BY DEF GateStep, GateReject, GatePlace, GateExecute, GateCancel, GateReplace, GateFill

LEMMA NextPost ==
    RegistrationInv /\ MessagesTyped /\ PostInv /\ [Next]_vars => PostInv'
<1> SUFFICES ASSUME RegistrationInv, MessagesTyped, PostInv, [Next]_vars PROVE PostInv'
  OBVIOUS
<1>0. /\ pc \in [Calls -> CallStates] /\ wire \in Seq(Requests)
      /\ \A i \in 1 .. Len(wire) : wire[i].call \in Calls
      /\ placed \subseteq News /\ News \subseteq Calls
  <2>1. wire \in Seq(Requests) /\ \A r \in Requests : r.call \in Calls
    BY DEF MessagesTyped, Requests
  <2>2. \A i \in 1 .. Len(wire) : wire[i].call \in Calls
    BY <2>1
  <2> QED
    BY <2>1, <2>2 DEF RegistrationInv, CallsTypeOK, Calls, PostInv
<1>1. ASSUME NEW c \in Calls, CallStep(c) \/ Expire(c) PROVE PostInv'
  <2>1. UNCHANGED <<id, newId, placed, rejected>>
    BY <1>1, CallerEffect DEF args, gateVars
  <2>2. PICK to \in CallStates \ {"absent"} :
           /\ pc' = [pc EXCEPT ![c] = to]
           /\ to \in Unsent => pc[c] \in Unsent
           /\ \/ wire' = wire
              \/ pc[c] = "send" /\ to = "wait" /\ wire' = Append(wire, Request(c))
    BY <1>1, CallerEffect
  <2>3. \A d \in Calls : pc[d] \notin Unsent => pc'[d] \notin Unsent
    BY <1>0, <2>2
  <2>4. CASE wire' = wire
    BY <1>0, <2>1, <2>3, <2>4 DEF PostInv, Underway, RequestId
  <2>5. CASE pc[c] = "send" /\ to = "wait" /\ wire' = Append(wire, Request(c))
    <3>1. Request(c).call = c /\ Request(c).id = id[c] /\ Request(c).request = RequestId(c)
      BY DEF Request
    <3>2. pc[c] \in Unsent /\ pc'[c] \notin Unsent
      BY <1>0, <2>2, <2>5 DEF Unsent
    <3>3. ~Underway(c) /\ c \notin placed \cup rejected
      BY <3>2 DEF PostInv, Underway
    <3>4. /\ Len(wire') = Len(wire) + 1 /\ Len(wire) \in Nat /\ wire'[Len(wire) + 1] = Request(c)
          /\ \A i \in 1 .. Len(wire) : wire'[i] = wire[i]
      BY <1>0, <2>5
    <3>5. \A i \in 1 .. Len(wire') : i \in 1 .. Len(wire) \/ i = Len(wire) + 1
      BY <3>4
    <3>6. \A d \in placed \cup rejected : ~Underway(d)'
      BY <3>1, <3>3, <3>4, <3>5 DEF PostInv, Underway
    <3>7. ASSUME NEW i \in 1 .. Len(wire')
          PROVE  /\ wire'[i].id = id[wire'[i].call]
                 /\ wire'[i].request = RequestId(wire'[i].call)
                 /\ pc'[wire'[i].call] \notin Unsent
                 /\ \A j \in 1 .. Len(wire') : wire'[i].call = wire'[j].call => i = j
      BY <1>0, <2>3, <3>1, <3>2, <3>3, <3>4, <3>5 DEF PostInv, Underway
    <3> QED
      BY <1>0, <2>1, <2>3, <3>6, <3>7 DEF PostInv, RequestId
  <2> QED
    BY <2>2, <2>4, <2>5
<1>2. CASE InputStep \/ UNCHANGED vars
  <2>1. UNCHANGED <<id, newId, pc, wire, placed, rejected>>
    BY <1>2 DEF InputStep, Receive, ApplyReport, AnswerCanceled, SetReply, AppendTrade, Signal,
                AnswerReject, vars, args, gateVars
  <2> QED
    BY <2>1 DEF PostInv, Underway, RequestId
<1>3. CASE GateStep \/ \E i \in Ids : GateFill(i)
  <2>1. UNCHANGED <<id, newId, pc>>
    BY <1>3, GateSteps DEF GateEffect, args
  <2>2. CASE UNCHANGED <<wire, placed, rejected>>
    BY <2>1, <2>2 DEF PostInv, Underway, RequestId
  <2>3. CASE wire # <<>> /\ wire' = Tail(wire)
    <3>1. /\ Head(wire) = wire[1] /\ 1 \in 1 .. Len(wire)
          /\ \A i \in 1 .. Len(wire') : wire'[i] = wire[i + 1] /\ i + 1 \in 1 .. Len(wire) /\ i + 1 # 1
      BY <1>0, <2>3
    <3>2. Head(wire).call \in Calls /\ pc[Head(wire).call] \notin Unsent
      BY <1>0, <3>1 DEF PostInv
    <3>3. \A i \in 1 .. Len(wire') : wire'[i].call # Head(wire).call
      BY <3>1 DEF PostInv
    <3>4. Head(wire).call \notin placed \cup rejected
      BY <3>1 DEF PostInv, Underway
    <3>5. \A c \in placed \cup rejected : ~Underway(c)'
      BY <3>1 DEF PostInv, Underway
    <3>6. /\ placed' \cup rejected' \subseteq placed \cup rejected \cup {Head(wire).call}
          /\ placed' \subseteq News /\ rejected' \subseteq Calls \ placed'
      BY <1>0, <1>3, <2>2, <3>2, <3>4, GateTakes DEF PostInv
    <3>7. \A c \in placed' \cup rejected' : pc'[c] \notin Unsent /\ ~Underway(c)'
      BY <2>1, <3>2, <3>3, <3>5, <3>6 DEF PostInv, Underway
    <3>8. \A i, j \in 1 .. Len(wire') : i + 1 = j + 1 => i = j
      OBVIOUS
    <3>9. \A i \in 1 .. Len(wire') :
             /\ wire'[i].id = id[wire'[i].call]
             /\ wire'[i].request = RequestId(wire'[i].call)
             /\ pc[wire'[i].call] \notin Unsent
             /\ \A j \in 1 .. Len(wire') : wire'[i].call = wire'[j].call => i = j
      <4> SUFFICES ASSUME NEW i \in 1 .. Len(wire')
                   PROVE  /\ wire'[i].id = id[wire'[i].call]
                          /\ wire'[i].request = RequestId(wire'[i].call)
                          /\ pc[wire'[i].call] \notin Unsent
                          /\ \A j \in 1 .. Len(wire') : wire'[i].call = wire'[j].call => i = j
        OBVIOUS
      <4>1. wire'[i] = wire[i + 1] /\ i + 1 \in 1 .. Len(wire)
        BY <3>1
      <4>2. \A j \in 1 .. Len(wire') : wire'[i].call = wire'[j].call => i = j
        BY <3>1, <3>8, <4>1 DEF PostInv
      <4> QED
        BY <4>1, <4>2 DEF PostInv
    <3> QED
      BY <2>1, <3>6, <3>7, <3>9 DEF PostInv, RequestId
  <2> QED
    BY <1>3, <2>2, <2>3, GateTakes
<1> QED
  BY <1>1, <1>2, <1>3 DEF Next

\* A rejected request about the same order, not of a NewOrder that still waits.
Blamed(c) == \E d \in rejected : id[d] = id[c] /\ (d \in News \ {c} => pc[d] = "returned")
Blames(m) == \E d \in rejected : id[d] = m.id
BlameInv ==
    /\ \A j \in 1 .. Len(reports) : reports[j].kind = "reject" => Blames(reports[j])
    /\ input.pc = "reject" => Blames(input.msg)
    /\ \A c \in News :
          /\ Error[c] = "reject" \/ ret[c].err = "reject" => Blamed(c)
          /\ ret[c].err = "duplicate" =>
                pc[c] = "returned" /\ ~Underway(c) /\ c \notin placed

LEMMA InitBlame == Init => BlameInv
<1> SUFFICES ASSUME Init PROVE BlameInv
  OBVIOUS
<1>1. /\ reports = <<>> /\ input.pc = "idle" /\ News \subseteq Calls
      /\ \A c \in Calls : Error[c] = "none" /\ ret[c].err = "none"
  BY DEF Init, Calls
<1>2. Len(reports) = 0
  BY <1>1
<1> QED
  BY <1>1, <1>2 DEF BlameInv

LEMMA NextBlame ==
    RegistrationInv /\ MessagesTyped /\ Answered /\ PostInv /\ BlameInv /\ [Next]_vars => BlameInv'
<1> SUFFICES ASSUME RegistrationInv, MessagesTyped, Answered, PostInv, BlameInv, [Next]_vars
             PROVE  BlameInv'
  OBVIOUS
<1>0. /\ pc \in [Calls -> CallStates] /\ wire \in Seq(Requests) /\ News \subseteq Calls
      /\ reports \in Seq(OrderReports \cup Rejects) /\ rejected \subseteq Calls
      /\ Error \in [Calls -> {"none", "reject"}]
  BY DEF RegistrationInv, CallsTypeOK, MessagesTyped, Answered, Calls, PostInv
\* What blames a call goes on blaming it.
<1>b. ASSUME UNCHANGED id, rejected \subseteq rejected',
             \A d \in Calls : pc[d] = "returned" => pc'[d] = "returned"
      PROVE  /\ \A c : Blamed(c) => Blamed(c)'
             /\ \A m : Blames(m) => Blames(m)'
  BY <1>0, <1>b DEF Blamed, Blames
<1>1. ASSUME NEW c \in Calls, CallStep(c) \/ Expire(c) PROVE BlameInv'
  <2>1. UNCHANGED <<id, Error, input, reports, placed, rejected>>
    BY <1>1, CallerEffect DEF args, gateVars
  <2>2. PICK to \in CallStates \ {"absent"} :
           /\ pc' = [pc EXCEPT ![c] = to]
           /\ pc[c] # "returned"
           /\ \/ wire' = wire
              \/ to = "wait" /\ wire' = Append(wire, Request(c))
    BY <1>1, CallerEffect
  <2>3. \A d \in Calls : pc[d] = "returned" => pc'[d] = "returned"
    BY <1>0, <2>2
  <2>4. /\ \A d : Blamed(d) => Blamed(d)'
        /\ \A m : Blames(m) => Blames(m)'
    BY <1>b, <2>1, <2>3
  <2>5. \A d \in News \ {c} : ~Underway(d) => ~Underway(d)'
    <3>1. CASE wire' = wire
      BY <3>1 DEF Underway
    <3>2. CASE wire' = Append(wire, Request(c))
      <4>1. \A i \in 1 .. Len(wire') :
               (i \in 1 .. Len(wire) /\ wire'[i] = wire[i]) \/ wire'[i].call = c
        BY <1>0, <3>2 DEF Request
      <4> QED
        BY <4>1 DEF Underway
    <3> QED
      BY <2>2, <3>1, <3>2
  <2>6. /\ \A d \in Calls \ {c} : ret'[d] = ret[d]
        /\ \/ ret'[c].err = ret[c].err
           \/ ret'[c].err = Error[c]
           \/ ret'[c].err \notin {"duplicate", "reject"}
           \/ /\ ret'[c].err = "duplicate" /\ pc[c] \in Unsent /\ wire' = wire
              /\ pc'[c] = "returned"
    <3>1. /\ \A d \in Calls : ret[d] = [reply |-> ret[d].reply, trades |-> ret[d].trades,
                                        err |-> ret[d].err]
          /\ ret = [d \in Calls |-> ret[d]]
      BY DEF Answered
    <3>2. \/ ret' = ret
          \/ ret' = [ret EXCEPT ![c].reply = Reply[c]]
          \/ ret' = [ret EXCEPT ![c] = [reply |-> @.reply, trades |-> trades[c], err |-> Error[c]]]
          \/ \E e : e \notin {"duplicate", "reject"} /\ ret' = [ret EXCEPT ![c].err = e]
          \/ /\ ret' = [ret EXCEPT ![c].err = "duplicate"] /\ pc[c] \in Unsent /\ wire' = wire
             /\ pc' = [pc EXCEPT ![c] = "returned"]
      BY <1>1 DEF CallStep, Expire, StartNew, RegisterNew, StartCancel, LookupPending, Return, Goto,
             RegisterCancel, StartReplace, Send, Wake, Collect, Unregister, Unsent
    <3> QED
      BY <1>0, <3>1, <3>2
  <2>7. ASSUME NEW d \in News
        PROVE  /\ Error'[d] = "reject" \/ ret'[d].err = "reject" => Blamed(d)'
               /\ ret'[d].err = "duplicate" =>
                     pc'[d] = "returned" /\ ~Underway(d)' /\ d \notin placed'
    <3>1. CASE d # c
      BY <1>0, <2>1, <2>3, <2>4, <2>5, <2>6, <3>1 DEF BlameInv
    <3>2. CASE d = c
      <4>1. Error'[d] = "reject" \/ ret'[d].err = "reject" => Blamed(d)'
        BY <1>0, <2>1, <2>4, <2>6, <3>2 DEF BlameInv
      <4>2. ASSUME ret'[d].err = "duplicate"
            PROVE  pc'[d] = "returned" /\ ~Underway(d)' /\ d \notin placed'
        <5>1. ret[c].err # "duplicate" /\ Error[c] # "duplicate"
          BY <1>0, <2>2, <3>2 DEF BlameInv
        <5>2. pc[c] \in Unsent /\ wire' = wire /\ pc'[c] = "returned"
          BY <2>6, <3>2, <4>2, <5>1
        <5>3. ~Underway(c) /\ c \notin placed
          BY <5>2 DEF PostInv, Underway
        <5> QED
          BY <2>1, <3>2, <5>2, <5>3 DEF Underway
      <4> QED
        BY <4>1, <4>2
    <3> QED
      BY <3>1, <3>2
  <2>8. input'.pc = "reject" => Blames(input.msg)'
    BY <2>1, <2>4 DEF BlameInv, Blames
  <2>9. \A j \in 1 .. Len(reports') : reports'[j].kind = "reject" => Blames(reports[j])'
    BY <2>1, <2>4 DEF BlameInv, Blames
  <2> QED
    BY <2>7, <2>8, <2>9 DEF BlameInv
<1>2. CASE GateStep \/ \E i \in Ids : GateFill(i)
  <2>1. UNCHANGED <<id, pc, input, Error, ret>>
    BY <1>2, GateSteps DEF GateEffect, args, callFields
  <2>2. /\ rejected \subseteq rejected' /\ \A c \in News : ~Underway(c) => ~Underway(c)'
        /\ \A c \in News : ~Underway(c) /\ c \notin placed => c \notin placed'
    <3>1. CASE UNCHANGED <<wire, placed, rejected>>
      BY <3>1 DEF Underway
    <3>2. CASE wire # <<>> /\ wire' = Tail(wire)
      <4>1. /\ Head(wire) = wire[1] /\ 1 \in 1 .. Len(wire)
            /\ \A i \in 1 .. Len(wire') : wire'[i] = wire[i + 1] /\ i + 1 \in 1 .. Len(wire)
        BY <1>0, <3>2
      <4> QED
        BY <1>2, <4>1, GateTakes DEF Underway
    <3> QED
      BY <1>2, <3>1, <3>2, GateTakes
  <2>3. /\ \A d : Blamed(d) => Blamed(d)'
        /\ \A m : Blames(m) => Blames(m)'
    BY <1>b, <2>1, <2>2
  <2>4. \A j \in 1 .. Len(reports') : reports'[j].kind = "reject" => Blames(reports[j])'
    <3>1. \A j \in 1 .. Len(reports) : reports[j].kind = "reject" =>
             \E d \in rejected' : id[d] = reports[j].id
      BY <2>2 DEF BlameInv, Blames
    <3>2. CASE GateReject
      <4> DEFINE r == Head(wire)
                 m == [kind |-> "reject", id |-> r.id,
                       request |-> IF r.call \in News THEN NoCall ELSE r.request]
      <4>1. wire # <<>> /\ r.call \in rejected' /\ reports' = Append(reports, m)
        BY <3>2 DEF GateReject
      <4>2. r.id = id[r.call]
        <5>1. r = wire[1] /\ 1 \in 1 .. Len(wire)
          BY <1>0, <4>1
        <5> QED
          BY <5>1 DEF PostInv
      <4>3. m.id = r.id
        OBVIOUS
      <4> HIDE DEF m, r
      <4>4. \A j \in 1 .. Len(reports') :
               (j \in 1 .. Len(reports) /\ reports'[j] = reports[j]) \/ reports'[j] = m
        BY <4>1, Appended
      <4>5. \A j \in 1 .. Len(reports') : reports'[j].kind = "reject" =>
               \E d \in rejected' : id[d] = reports'[j].id
        BY <3>1, <4>1, <4>2, <4>3, <4>4
      <4> QED
        BY <2>1, <4>5 DEF Blames
    <3>3. CASE \E new \in Seq(OrderReports) : Reporting(new)
      <4>1. PICK new \in Seq(OrderReports) : Reporting(new)
        BY <3>3
      <4>2. /\ Len(reports') = Len(reports) + Len(new)
            /\ \A j \in 1 .. Len(reports) : reports'[j] = reports[j]
            /\ \A j \in Len(reports) + 1 .. Len(reports) + Len(new) :
                  reports'[j] = new[j - Len(reports)]
        BY <1>0, <4>1, Concatenation DEF Reporting
      <4>3. \A j \in 1 .. Len(new) : new[j].kind # "reject"
        BY ReportFields
      <4>4. \A j \in 1 .. Len(reports') :
               (j \in 1 .. Len(reports) /\ reports'[j] = reports[j]) \/ reports'[j].kind # "reject"
        <5> SUFFICES ASSUME NEW j \in 1 .. Len(reports'), j \notin 1 .. Len(reports)
                     PROVE  reports'[j].kind # "reject"
          BY <4>2
        <5>1. j \in Len(reports) + 1 .. Len(reports) + Len(new) /\ j - Len(reports) \in 1 .. Len(new)
          BY <1>0, <4>1, <4>2
        <5> QED
          BY <4>2, <4>3, <5>1
      <4> QED
        BY <2>1, <3>1, <4>4 DEF Blames
    <3> QED
      BY <1>2, <3>2, <3>3, OrdersReported
  <2>5. input'.pc = "reject" => Blames(input.msg)'
    BY <2>1, <2>3 DEF BlameInv, Blames
  <2> QED
    BY <1>0, <2>1, <2>2, <2>3, <2>4, <2>5 DEF BlameInv
<1>3. CASE Receive
  <2>1. /\ reports # <<>> /\ reports' = Tail(reports)
        /\ input'.pc = FirstStep(Head(reports)) /\ input'.msg = Head(reports)
        /\ UNCHANGED <<pc, id, wire, ret, rejected, placed, Error>>
    BY <1>3 DEF Receive, args, gateVars, callFields
  <2>2. /\ Head(reports) = reports[1] /\ 1 \in 1 .. Len(reports)
        /\ \A j \in 1 .. Len(reports') : reports'[j] = reports[j + 1] /\ j + 1 \in 1 .. Len(reports)
    BY <1>0, <2>1
  <2>3. input'.pc = "reject" => reports[1].kind = "reject"
    BY <2>1, <2>2 DEF FirstStep
  <2>4. input'.pc = "reject" => Blames(input.msg)'
    BY <2>1, <2>2, <2>3 DEF BlameInv, Blames
  <2>5. \A j \in 1 .. Len(reports') : reports'[j].kind = "reject" => Blames(reports[j])'
    BY <2>1, <2>2 DEF BlameInv, Blames
  <2> QED
    BY <2>1, <2>4, <2>5 DEF BlameInv, Blamed, Underway
<1>4. CASE ApplyReport \/ AnswerCanceled \/ SetReply \/ AppendTrade \/ Signal
  <2>1. /\ UNCHANGED <<pc, id, wire, ret, rejected, placed, reports, Error>>
        /\ input'.pc # "reject"
    BY <1>4 DEF ApplyReport, AnswerCanceled, SetReply, AppendTrade, Signal, MessagesTyped,
                args, gateVars, callFields
  <2> QED
    BY <2>1 DEF BlameInv, Blamed, Blames, Underway
<1>5. CASE AnswerReject
  <2>1. /\ input.pc = "reject" /\ input'.pc = "idle"
        /\ Error' = [c \in Calls |-> IF c \in Rejected(input.msg) THEN "reject" ELSE Error[c]]
        /\ UNCHANGED <<pc, id, wire, ret, rejected, placed, reports>>
    BY <1>5 DEF AnswerReject, MessagesTyped, args, gateVars
  <2>2. input.msg.id \in Ids
    BY <2>1, RejectFields DEF MessagesTyped
  <2>3. ASSUME NEW c \in News, c \in Rejected(input.msg) PROVE Blamed(c)
    <3>1. pendingFilled[input.msg.id] = c
      BY <2>2, <2>3, CallKinds DEF Rejected, RegistrationInv, CallsTypeOK
    <3>2. id[c] = input.msg.id
      BY <2>2, <3>1 DEF RegistrationInv, PendingExact
    <3>3. PICK d \in rejected : id[d] = input.msg.id
      BY <2>1 DEF BlameInv, Blames
    <3>4. ASSUME d \in News \ {c} PROVE pc[d] = "returned"
      <4>1. pc[d] \notin Registered
        BY <2>2, <3>1, <3>3, <3>4 DEF RegistrationInv, PendingExact
      <4>2. pc[d] \notin Unsent /\ pc[d] \in CallStates
        BY <1>0 DEF PostInv
      <4> QED
        BY <4>1, <4>2 DEF Registered, Unsent, CallStates
    <3> QED
      BY <3>2, <3>3, <3>4 DEF Blamed
  <2>4. \A c \in News : Error'[c] = "reject" => Blamed(c)
    BY <1>0, <2>1, <2>3 DEF BlameInv
  <2> QED
    BY <2>1, <2>4 DEF BlameInv, Blamed, Blames, Underway
<1>6. CASE UNCHANGED vars
  BY <1>6 DEF vars, args, gateVars, callFields, BlameInv, Blamed, Blames, Underway
<1> QED
  BY <1>1, <1>2, <1>3, <1>4, <1>5, <1>6 DEF Next, InputStep

\* A NewOrder that is refused although the gate has its order was told of the
\* rejection of another request about the client order id: handleRejectPayload
\* (zmq-trader.go:352) gives every reject to the NewOrder that waits under the id.
THEOREM RefusalIsExplained == Spec => []RejectMeansNotPlaced
<1> DEFINE Inv == RegistrationInv /\ MessagesTyped /\ Numbered /\ Answered /\ PostInv /\ BlameInv
<1>1. Init => Inv
  BY InitRegistration, InitAnswered, InitPost, InitBlame
<1>2. Inv /\ [Next]_vars => Inv'
  BY NextRegistration, NextMessages, NextNumbered, NextAnswered, NextPost, NextBlame
<1>3. Inv => RejectMeansNotPlaced
  <2> SUFFICES ASSUME Inv, NEW c \in News, RefusedYetPlaced(c)
               PROVE  \E d \in rejected \ {c} : id[d] = id[c] /\ (d \in News => pc[d] = "returned")
    BY DEF RejectMeansNotPlaced
  <2>1. c \in placed /\ ret[c].err = "reject"
    BY DEF RefusedYetPlaced, BlameInv
  <2>2. c \notin rejected /\ Blamed(c)
    BY <2>1 DEF PostInv, BlameInv
  <2> QED
    BY <2>2 DEF Blamed
<1> HIDE DEF Inv
<1> QED
  BY <1>1, <1>2, <1>3, PTL DEF Spec
-----------------------------------------------------------------------------
(* The types.                                                                *)

\* A report that puts an order into the cache has something left of it.
Stored(m) == m.kind \in {"new", "replaced"} => m.left > 0

RestTyped ==
    /\ cache \in [Ids -> Orders \cup {NoOrder}]
    /\ trades \in [Calls -> Nat]
    /\ doneBuf \subseteq Calls
    /\ \A c \in Calls : ret[c].err \in Errors /\ ret[c].trades \in Nat
    /\ born \in [Ids -> Nat]
    /\ \A i \in Ids : born[i] <= sent
    /\ \A j \in 1 .. Len(reports) : Stored(reports[j])
    /\ input.pc = "cache" => Stored(input.msg)

LEMMA InitRest == Init => RestTyped
<1> SUFFICES ASSUME Init PROVE RestTyped
  OBVIOUS
<1>1. [terms : Terms, left : {Quantity}] \subseteq Orders
  BY QuantityAssumption DEF Orders
<1>2. cache \in [Ids -> Orders \cup {NoOrder}]
  BY <1>1 DEF Init
<1>3. reports = <<>> /\ input.pc = "idle" /\ Len(reports) = 0
  BY DEF Init
<1>4. /\ trades = [c \in Calls |-> 0] /\ doneBuf = {} /\ born = [i \in Ids |-> 0] /\ sent = 0
  BY DEF Init
<1>5. born \in [Ids -> Nat] /\ \A i \in Ids : born[i] <= sent
  BY <1>4
<1>6. \A c \in Calls : ret[c].err \in Errors /\ ret[c].trades \in Nat
  <2>1. \A c \in Calls : ret[c].err = "none"
    BY DEF Init
  <2>2. \A c \in Calls : ret[c].trades = 0
    BY DEF Init
  <2>3. "none" \in Errors /\ 0 \in Nat
    BY DEF Errors
  <2> QED
    BY <2>1, <2>2, <2>3
<1>7. \A j \in 1 .. Len(reports) : Stored(reports[j])
  BY <1>3
<1>8. trades \in [Calls -> Nat] /\ doneBuf \subseteq Calls
  BY <1>4
<1> QED
  BY <1>2, <1>3, <1>5, <1>6, <1>7, <1>8 DEF RestTyped

LEMMA GateStores ==
    ASSUME MessagesTyped, RestTyped, GateStep \/ \E i \in Ids : GateFill(i)
    PROVE  /\ \A j \in 1 .. Len(reports') : Stored(reports[j])'
           /\ born' \in [Ids -> Nat] /\ \A i \in Ids : born'[i] <= sent'
<1> USE DEF gateVars
<1>0. /\ Quantity \in Nat /\ Quantity > 0 /\ sent \in Nat /\ sent + 1 \in Nat
      /\ reports \in Seq(OrderReports \cup Rejects)
      /\ born \in [Ids -> Nat] /\ \A i \in Ids : born[i] <= sent
  BY QuantityAssumption DEF MessagesTyped, RestTyped
\* One message is added, and at most one order is born with it.
<1>1. ASSUME NEW m, reports' = Append(reports, m), Stored(m),
             \/ sent' \in {sent, sent + 1} /\ born' = born
             \/ \E i \in Ids : sent' = sent + 1 /\ born' = [born EXCEPT ![i] = sent + 1]
      PROVE  /\ \A j \in 1 .. Len(reports') : Stored(reports[j])'
             /\ born' \in [Ids -> Nat] /\ \A i \in Ids : born'[i] <= sent'
  <2>1. \A j \in 1 .. Len(reports') :
           (j \in 1 .. Len(reports) /\ reports'[j] = reports[j]) \/ reports'[j] = m
    BY <1>1, Appended
  <2>2. \A j \in 1 .. Len(reports') : Stored(reports'[j])
    BY <1>1, <2>1 DEF RestTyped
  <2> QED
    BY <1>0, <1>1, <2>2 DEF Stored
<1>2. CASE GateReject
  BY <1>1, <1>2 DEF GateReject, Stored
<1>3. CASE GatePlace
  <2> DEFINE order == [terms |-> terms[Head(wire).call], left |-> Quantity]
             m == Report("new", Head(wire).id, order, "GTC", sent + 1)
  <2>1. Stored(m)
    BY <1>0 DEF Stored, Report
  <2>2. reports' = Append(reports, m) /\ sent' = sent + 1
        /\ born' = [born EXCEPT ![Head(wire).id] = sent + 1] /\ Head(wire).id \in Ids
    BY <1>3, HeadTyped DEF GatePlace
  <2> HIDE DEF m
  <2> QED
    BY <1>1, <2>1, <2>2
<1>4. CASE GateExecute
  <2>1. PICK new \in Seq(OrderReports) :
           /\ Reporting(new)
           /\ \A j \in 1 .. Len(new) :
                 /\ new[j].kind # "replaced"
                 /\ new[j].kind = "new" => new[j].left > 0
    BY <1>4, ExecuteReports
  <2>2. /\ Len(reports') = Len(reports) + Len(new) /\ Len(reports) \in Nat /\ Len(new) \in Nat
        /\ \A j \in 1 .. Len(reports) : reports'[j] = reports[j]
        /\ \A j \in Len(reports) + 1 .. Len(reports) + Len(new) :
              reports'[j] = new[j - Len(reports)]
    BY <1>0, <2>1, Concatenation DEF Reporting
  <2>3. ASSUME NEW j \in 1 .. Len(reports') PROVE Stored(reports'[j])
    <3>1. CASE j \in 1 .. Len(reports)
      BY <2>2, <3>1 DEF RestTyped
    <3>2. CASE j \notin 1 .. Len(reports)
      <4>1. j \in Len(reports) + 1 .. Len(reports) + Len(new) /\ j - Len(reports) \in 1 .. Len(new)
        BY <2>2, <3>2
      <4> QED
        BY <2>1, <2>2, <4>1 DEF Stored
    <3> QED
      BY <3>1, <3>2
  <2>4. born' = born /\ sent' = sent + Len(new)
    BY <1>4, <2>1 DEF GateExecute, Reporting
  <2> QED
    BY <1>0, <2>2, <2>3, <2>4 DEF Stored
<1>5. CASE GateCancel
  <2> DEFINE m == Report("canceled", Head(wire).id, book[Head(wire).id], "GTC", sent + 1)
  <2>1. Stored(m)
    BY DEF Stored, Report
  <2>2. reports' = Append(reports, m) /\ sent' = sent + 1 /\ born' = born
    BY <1>5 DEF GateCancel
  <2> HIDE DEF m
  <2> QED
    BY <1>1, <2>1, <2>2
<1>6. CASE GateReplace
  <2> DEFINE r == Head(wire)
             order == [terms |-> terms[r.call], left |-> book[r.id].left]
             m == [kind |-> "replaced", id |-> r.request, original |-> r.id,
                   terms |-> order.terms, left |-> order.left,
                   timeInForce |-> "GTC", n |-> sent + 1]
  <2>1. book[r.id] \in Orders /\ r.request \in Ids
    BY <1>6, HeadTyped DEF GateReplace, MessagesTyped
  <2>2. Stored(m)
    BY <1>0, <2>1 DEF Stored, Orders
  <2>3. /\ reports' = Append(reports, m) /\ sent' = sent + 1
        /\ born' = [born EXCEPT ![r.request] = sent + 1]
    BY <1>6 DEF GateReplace
  <2> HIDE DEF m, r
  <2> QED
    BY <1>1, <2>1, <2>2, <2>3
<1>7. ASSUME NEW o \in Ids, GateFill(o)
      PROVE  /\ \A j \in 1 .. Len(reports') : Stored(reports[j])'
             /\ born' \in [Ids -> Nat] /\ \A i \in Ids : born'[i] <= sent'
  <2> DEFINE m == Report("trade", o, [book[o] EXCEPT !.left = @ - 1], "GTC", sent + 1)
  <2>1. Stored(m)
    BY DEF Stored, Report
  <2>2. reports' = Append(reports, m) /\ sent' = sent + 1 /\ born' = born
    BY <1>7 DEF GateFill
  <2> HIDE DEF m
  <2> QED
    BY <1>1, <2>1, <2>2
<1> QED
  BY <1>2, <1>3, <1>4, <1>5, <1>6, <1>7 DEF GateStep

LEMMA NextRest ==
    RegistrationInv /\ MessagesTyped /\ Answered /\ RestTyped /\ [Next]_vars => RestTyped'
<1> SUFFICES ASSUME RegistrationInv, MessagesTyped, Answered, RestTyped, [Next]_vars
             PROVE  RestTyped'
  OBVIOUS
<1>0. /\ reports \in Seq(OrderReports \cup Rejects) /\ Calls = News \cup Cancels \cup Replaces
      /\ trades \in [Calls -> Nat] /\ doneBuf \subseteq Calls
      /\ \A i \in Ids : pendingCancel[i] \subseteq Calls /\ pendingFilled[i] \in Calls \cup {NoCall}
      /\ \A c \in Calls : Error[c] \in {"none", "reject"}
  BY DEF RegistrationInv, CallsTypeOK, MessagesTyped, RestTyped, Calls, Answered
<1>1. ASSUME NEW c \in Calls, CallStep(c) \/ Expire(c) PROVE RestTyped'
  <2>1. UNCHANGED <<cache, trades, born, sent, reports, input>> /\ doneBuf' \subseteq doneBuf
    BY <1>1, CallerEffect DEF gateVars
  <2>2. ASSUME NEW d \in Calls PROVE ret'[d].err \in Errors /\ ret'[d].trades \in Nat
    <3>1. /\ \A e \in Calls : ret[e] = [reply |-> ret[e].reply, trades |-> ret[e].trades,
                                        err |-> ret[e].err]
          /\ ret = [e \in Calls |-> ret[e]]
      BY DEF Answered
    <3>2. \/ ret' = ret
          \/ ret' = [ret EXCEPT ![c].reply = Reply[c]]
          \/ ret' = [ret EXCEPT ![c] = [reply |-> @.reply, trades |-> trades[c], err |-> Error[c]]]
          \/ \E e \in Errors : ret' = [ret EXCEPT ![c].err = e]
      BY <1>1 DEF CallStep, Expire, StartNew, RegisterNew, StartCancel, LookupPending, Return, Goto,
             RegisterCancel, StartReplace, Send, Wake, Collect, Unregister, Errors
    <3>3. ret[d].err \in Errors /\ ret[d].trades \in Nat /\ trades[c] \in Nat /\ Error[c] \in Errors
      BY <1>0 DEF RestTyped, Errors
    <3> QED
      BY <3>1, <3>2, <3>3
  <2> QED
    BY <1>0, <2>1, <2>2 DEF RestTyped, Stored
<1>2. CASE GateStep \/ \E i \in Ids : GateFill(i)
  <2>1. UNCHANGED <<cache, trades, doneBuf, ret, input>>
    BY <1>2, GateSteps DEF GateEffect, callFields
  <2> QED
    BY <1>2, <2>1, GateStores DEF RestTyped, Stored
<1>3. CASE Receive
  <2>1. /\ reports # <<>> /\ reports' = Tail(reports) /\ input'.msg = Head(reports)
        /\ UNCHANGED <<cache, trades, doneBuf, ret, born, sent>>
    BY <1>3 DEF Receive, gateVars, callFields
  <2>2. /\ Head(reports) = reports[1] /\ 1 \in 1 .. Len(reports)
        /\ \A j \in 1 .. Len(reports') : reports'[j] = reports[j + 1] /\ j + 1 \in 1 .. Len(reports)
    BY <1>0, <2>1
  <2> QED
    BY <2>1, <2>2 DEF RestTyped, Stored
<1>4. CASE ApplyReport
  <2>1. /\ input.pc = "cache" /\ input'.pc # "cache" /\ cache' = Updated(input.msg)
        /\ input.msg \in OrderReports
        /\ UNCHANGED <<trades, doneBuf, ret, born, sent, reports>>
    BY <1>4 DEF ApplyReport, MessagesTyped, gateVars, callFields
  <2>2. Kept(input.msg) => [terms |-> input.msg.terms, left |-> input.msg.left] \in Orders
    BY <2>1, QuantityAssumption DEF RestTyped, Stored, Kept, OrderReports, Orders
  <2>3. cache' \in [Ids -> Orders \cup {NoOrder}]
    BY <2>1, <2>2 DEF Updated, RestTyped
  <2> QED
    BY <2>1, <2>3 DEF RestTyped, Stored
<1>5. CASE AnswerCanceled \/ SetReply \/ AppendTrade \/ Signal \/ AnswerReject
  <2>1. /\ UNCHANGED <<cache, ret, born, sent, reports>> /\ input'.pc # "cache"
    BY <1>5 DEF AnswerCanceled, SetReply, AppendTrade, Signal, AnswerReject, MessagesTyped, gateVars
  <2>2. trades' = trades \/ trades' = [trades EXCEPT ![pendingFilled[input.msg.id]] = @ + 1]
    BY <1>5 DEF AnswerCanceled, SetReply, AppendTrade, Signal, AnswerReject, callFields
  <2>3. trades' \in [Calls -> Nat]
    BY <1>0, <2>2
  <2>4. doneBuf' \subseteq Calls
    <3>1. CASE AnswerCanceled
      <4>1. input.msg.id \in Ids
        BY <3>1, ReportFields DEF AnswerCanceled, MessagesTyped
      <4> QED
        BY <1>0, <3>1, <4>1 DEF AnswerCanceled
    <3>2. CASE SetReply \/ AppendTrade
      BY <1>0, <3>2 DEF SetReply, AppendTrade
    <3>3. CASE Signal
      <4>1. input.msg \in OrderReports
        BY <3>3 DEF Signal, MessagesTyped
      <4>2. Resolved(input.msg) \subseteq Calls
        BY <1>0, <4>1, ReportFields DEF Resolved
      <4>3. input.msg.id \in Ids
        BY <4>1, ReportFields
      <4> QED
        BY <1>0, <3>3, <4>2, <4>3 DEF Signal
    <3>4. CASE AnswerReject
      <4>1. input.msg.id \in Ids
        BY <3>4, RejectFields DEF AnswerReject, MessagesTyped
      <4> QED
        BY <1>0, <3>4, <4>1 DEF AnswerReject, Rejected
    <3> QED
      BY <1>5, <3>1, <3>2, <3>3, <3>4
  <2> QED
    BY <2>1, <2>3, <2>4 DEF RestTyped, Stored
<1>6. CASE UNCHANGED vars
  BY <1>6 DEF vars, gateVars, callFields, RestTyped, Stored
<1> QED
  BY <1>1, <1>2, <1>3, <1>4, <1>5, <1>6 DEF Next, InputStep

\* Every variable keeps its type: what is cached and what is in the book are orders
\* with something left, and no request is both accepted and rejected.
THEOREM TypeCorrect == Spec => []TypeOK
<1> DEFINE Inv == RegistrationInv /\ MessagesTyped /\ Numbered /\ Answered /\ PostInv /\ RestTyped
<1>1. Init => Inv
  BY InitRegistration, InitAnswered, InitPost, InitRest
<1>2. Inv /\ [Next]_vars => Inv'
  BY NextRegistration, NextMessages, NextNumbered, NextAnswered, NextPost, NextRest
<1>3. Inv => TypeOK
  BY DEF RegistrationInv, MessagesTyped, Numbered, Answered, PostInv, RestTyped, TypeOK
<1> HIDE DEF Inv
<1> QED
  BY <1>1, <1>2, <1>3, PTL DEF Spec
-----------------------------------------------------------------------------
(* What the last report of an IOC order finds.                               *)

\* The number of the last report that has left the queue.
Heard == IF input.pc = "cache" THEN applied + 1 ELSE applied
InHand == input.pc \in {"cache", "canceled", "reply", "trades", "done"}

\* No number is left out: the reports are handled one by one.
Gapless ==
    /\ input.pc = "cache" => input.msg.n = applied + 1
    /\ input.pc \in {"canceled", "reply", "trades", "done"} => input.msg.n = applied /\ applied > 0
    /\ input.pc = "trades" => input.msg.kind = "trade"
    /\ \A j \in 1 .. Len(reports) :
          reports[j].kind # "reject" => reports[j].n \in Heard + 1 .. sent
    /\ \A i, j \in 1 .. Len(reports) :
          i < j /\ reports[i].kind # "reject" /\ reports[j].kind # "reject" =>
             reports[i].n < reports[j].n
    /\ \A n \in Heard + 1 .. sent :
          \E j \in 1 .. Len(reports) : reports[j].kind # "reject" /\ reports[j].n = n

LEMMA InitGapless == Init => Gapless
<1> SUFFICES ASSUME Init PROVE Gapless
  OBVIOUS
<1>1. reports = <<>> /\ input.pc = "idle" /\ sent = 0 /\ applied = 0
  BY DEF Init
<1>2. Len(reports) = 0 /\ Heard = 0
  BY <1>1 DEF Heard
<1> QED
  BY <1>1, <1>2 DEF Gapless

LEMMA NextGapless ==
    RegistrationInv /\ MessagesTyped /\ Numbered /\ Gapless /\ [Next]_vars => Gapless'
<1> SUFFICES ASSUME RegistrationInv, MessagesTyped, Numbered, Gapless, [Next]_vars PROVE Gapless'
  OBVIOUS
<1>0. /\ reports \in Seq(OrderReports \cup Rejects) /\ applied \in Nat /\ sent \in Nat
      /\ \A j \in 1 .. Len(reports) : reports[j].kind # "reject" => reports[j].n \in Nat
      /\ Heard \in Nat
  <2>1. reports \in Seq(OrderReports \cup Rejects) /\ applied \in Nat /\ sent \in Nat
    BY DEF MessagesTyped, Numbered
  <2>2. \A j \in 1 .. Len(reports) : reports[j] \in OrderReports \cup Rejects
    BY <2>1
  <2> QED
    BY <2>1, <2>2, ReportFields, RejectFields DEF Heard
<1>1. CASE UNCHANGED <<input, reports, sent, applied>>
  BY <1>1 DEF Gapless, Heard
<1>2. ASSUME NEW c \in Calls, CallStep(c) \/ Expire(c) PROVE Gapless'
  BY <1>1, <1>2, CallersKeepMessages
<1>3. CASE Receive
  <2>1. /\ input.pc = "idle" /\ reports # <<>> /\ reports' = Tail(reports)
        /\ input'.pc = FirstStep(Head(reports)) /\ input'.msg = Head(reports)
        /\ UNCHANGED <<sent, applied>>
    BY <1>3 DEF Receive, gateVars
  <2>2. /\ Head(reports) = reports[1] /\ 1 \in 1 .. Len(reports)
        /\ Len(reports') = Len(reports) - 1 /\ Len(reports) \in Nat
        /\ \A j \in 1 .. Len(reports') :
              reports'[j] = reports[j + 1] /\ j + 1 \in 1 .. Len(reports) /\ j + 1 > 1
        /\ \A j \in 1 .. Len(reports) : j # 1 =>
              j - 1 \in 1 .. Len(reports') /\ reports'[j - 1] = reports[j]
    BY <1>0, <2>1
  <2>3. Heard = applied
    BY <2>1 DEF Heard
  <2>4. \A i, j \in 1 .. Len(reports') :
          i < j /\ reports'[i].kind # "reject" /\ reports'[j].kind # "reject" =>
             reports'[i].n < reports'[j].n
    <3> SUFFICES ASSUME NEW i \in 1 .. Len(reports'), NEW j \in 1 .. Len(reports'), i < j,
                        reports'[i].kind # "reject", reports'[j].kind # "reject"
                 PROVE  reports'[i].n < reports'[j].n
      OBVIOUS
    <3>1. i + 1 < j + 1
      OBVIOUS
    <3> QED
      BY <2>2, <3>1 DEF Gapless
  <2>5. CASE reports[1].kind = "reject"
    <3>1. input'.pc = "reject" /\ Heard' = applied
      BY <2>1, <2>2, <2>5 DEF FirstStep, Heard
    <3>2. \A j \in 1 .. Len(reports') :
             reports'[j].kind # "reject" => reports'[j].n \in applied + 1 .. sent
      BY <2>2, <2>3 DEF Gapless
    <3>3. ASSUME NEW n \in applied + 1 .. sent
          PROVE  \E j \in 1 .. Len(reports') : reports'[j].kind # "reject" /\ reports'[j].n = n
      <4>1. PICK j \in 1 .. Len(reports) : reports[j].kind # "reject" /\ reports[j].n = n
        BY <2>3 DEF Gapless
      <4>2. j # 1
        BY <2>5, <4>1
      <4> QED
        BY <2>2, <4>1, <4>2
    <3> QED
      BY <2>1, <2>4, <3>1, <3>2, <3>3 DEF Gapless
  <2>6. CASE reports[1].kind # "reject"
    <3>1. input'.pc = "cache" /\ Heard' = applied + 1 /\ input'.msg = reports[1]
      BY <2>1, <2>2, <2>6 DEF FirstStep, Heard
    <3>2. reports[1].n \in applied + 1 .. sent
      BY <2>2, <2>3, <2>6 DEF Gapless
    <3>3. \A j \in 1 .. Len(reports) : j # 1 /\ reports[j].kind # "reject" =>
             reports[1].n < reports[j].n /\ reports[j].n \in applied + 1 .. sent
      BY <2>2, <2>3, <2>6 DEF Gapless
    <3>4. reports[1].n = applied + 1
      <4>1. PICK j \in 1 .. Len(reports) : reports[j].kind # "reject" /\ reports[j].n = applied + 1
        <5>1. applied + 1 \in Heard + 1 .. sent
          BY <1>0, <2>3, <3>2
        <5> QED
          BY <5>1 DEF Gapless
      <4> QED
        BY <1>0, <3>2, <3>3, <4>1
    <3>5. \A j \in 1 .. Len(reports') :
             reports'[j].kind # "reject" => reports'[j].n \in applied + 2 .. sent
      BY <1>0, <2>2, <3>3, <3>4
    <3>6. ASSUME NEW n \in applied + 2 .. sent
          PROVE  \E j \in 1 .. Len(reports') : reports'[j].kind # "reject" /\ reports'[j].n = n
      <4>1. n \in Heard + 1 .. sent /\ n # applied + 1
        BY <1>0, <2>3
      <4>2. PICK j \in 1 .. Len(reports) : reports[j].kind # "reject" /\ reports[j].n = n
        BY <4>1 DEF Gapless
      <4>3. j # 1
        BY <3>4, <4>1, <4>2
      <4> QED
        BY <2>2, <4>2, <4>3
    <3>7. (applied + 1) + 1 = applied + 2
      BY <1>0
    <3> QED
      BY <2>1, <2>4, <3>1, <3>4, <3>5, <3>6, <3>7 DEF Gapless
  <2> QED
    BY <2>5, <2>6
<1>4. CASE ApplyReport
  <2>1. /\ input.pc = "cache" /\ applied' = input.msg.n /\ input'.msg = input.msg
        /\ input'.pc \in {"canceled", "reply"}
        /\ UNCHANGED <<sent, reports>>
    BY <1>4 DEF ApplyReport, MessagesTyped, gateVars
  <2>2. Heard = applied + 1 /\ Heard' = applied + 1 /\ applied' = applied + 1
    BY <2>1 DEF Heard, Gapless
  <2>3. applied' > 0
    BY <1>0, <2>2
  <2> QED
    BY <2>1, <2>2, <2>3 DEF Gapless
<1>5. CASE AnswerCanceled \/ SetReply \/ AppendTrade \/ Signal \/ AnswerReject
  <2>1. /\ UNCHANGED <<sent, reports, applied>> /\ input.pc # "cache"
        /\ \/ input'.pc = "idle"
           \/ /\ input.pc \in {"reply", "trades"} /\ input'.pc \in {"trades", "done"}
              /\ input'.msg = input.msg
              /\ input'.pc = "trades" => input.msg.kind = "trade"
    BY <1>5 DEF AnswerCanceled, SetReply, AppendTrade, Signal, AnswerReject, MessagesTyped, gateVars
  <2>2. Heard = applied /\ Heard' = applied
    BY <2>1 DEF Heard
  <2> QED
    BY <2>1, <2>2 DEF Gapless
<1>6. CASE GateStep \/ \E i \in Ids : GateFill(i)
  <2>1. UNCHANGED <<applied, input>> /\ Heard' = Heard
    BY <1>6, GateSteps DEF GateEffect, Heard
  <2>2. CASE \E r \in Rejects : reports' = Append(reports, r) /\ sent' = sent
    <3>1. PICK r \in Rejects : reports' = Append(reports, r) /\ sent' = sent
      BY <2>2
    <3>2. /\ Len(reports') = Len(reports) + 1 /\ reports'[Len(reports) + 1].kind = "reject"
          /\ \A j \in 1 .. Len(reports) : j \in 1 .. Len(reports') /\ reports'[j] = reports[j]
          /\ \A j \in 1 .. Len(reports') : j \in 1 .. Len(reports) \/ j = Len(reports) + 1
      BY <1>0, <3>1, RejectFields
    <3> QED
      BY <2>1, <3>1, <3>2 DEF Gapless
  <2>3. CASE \E new \in Seq(OrderReports) : Reporting(new)
    <3>1. PICK new \in Seq(OrderReports) : Reporting(new)
      BY <2>3
    <3>2. /\ Len(reports') = Len(reports) + Len(new) /\ Len(reports) \in Nat /\ Len(new) \in Nat
          /\ \A j \in 1 .. Len(reports) : j \in 1 .. Len(reports') /\ reports'[j] = reports[j]
          /\ \A j \in Len(reports) + 1 .. Len(reports) + Len(new) :
                reports'[j] = new[j - Len(reports)]
          /\ sent' = sent + Len(new)
      BY <1>0, <3>1, Concatenation DEF Reporting
    <3>3. ASSUME NEW j \in 1 .. Len(reports'), j \notin 1 .. Len(reports)
          PROVE  /\ reports'[j].n = sent + (j - Len(reports)) /\ j > Len(reports)
                 /\ reports'[j].n \in sent + 1 .. sent'
      <4>1. j \in Len(reports) + 1 .. Len(reports) + Len(new) /\ j - Len(reports) \in 1 .. Len(new)
        BY <3>2, <3>3
      <4>2. reports'[j].n = sent + (j - Len(reports))
        BY <3>1, <3>2, <4>1 DEF Reporting
      <4> QED
        BY <1>0, <3>2, <4>1, <4>2
    <3>4. \A j \in 1 .. Len(reports') : reports'[j].kind # "reject" =>
             /\ reports'[j].n \in Heard + 1 .. sent'
             /\ j \in 1 .. Len(reports) => reports'[j].n <= sent
      <4>1. Heard <= sent
        BY <1>0 DEF Heard, Numbered, Gapless
      <4> QED
        BY <1>0, <3>2, <3>3, <4>1 DEF Gapless
    <3>5. \A i, j \in 1 .. Len(reports') :
             i < j /\ reports'[i].kind # "reject" /\ reports'[j].kind # "reject" =>
                reports'[i].n < reports'[j].n
      <4> SUFFICES ASSUME NEW i \in 1 .. Len(reports'), NEW j \in 1 .. Len(reports'), i < j,
                          reports'[i].kind # "reject", reports'[j].kind # "reject"
                   PROVE  reports'[i].n < reports'[j].n
        OBVIOUS
      <4>1. CASE j \in 1 .. Len(reports)
        <5>1. i \in 1 .. Len(reports)
          BY <3>2, <4>1
        <5> QED
          BY <3>2, <4>1, <5>1 DEF Gapless
      <4>2. CASE j \notin 1 .. Len(reports) /\ i \in 1 .. Len(reports)
        BY <1>0, <3>2, <3>3, <3>4, <4>2
      <4>3. CASE j \notin 1 .. Len(reports) /\ i \notin 1 .. Len(reports)
        BY <1>0, <3>2, <3>3, <4>3
      <4> QED
        BY <3>2, <4>1, <4>2, <4>3
    <3>6. ASSUME NEW n \in Heard + 1 .. sent'
          PROVE  \E j \in 1 .. Len(reports') : reports'[j].kind # "reject" /\ reports'[j].n = n
      <4>1. CASE n <= sent
        <5>1. n \in Heard + 1 .. sent
          BY <1>0, <4>1
        <5>2. PICK j \in 1 .. Len(reports) : reports[j].kind # "reject" /\ reports[j].n = n
          BY <5>1 DEF Gapless
        <5> QED
          BY <3>2, <5>2
      <4>2. CASE ~(n <= sent)
        <5> DEFINE j == Len(reports) + (n - sent)
        <5>1. j \in Len(reports) + 1 .. Len(reports) + Len(new) /\ j - Len(reports) = n - sent
              /\ n - sent \in 1 .. Len(new) /\ j \in 1 .. Len(reports')
          BY <1>0, <3>2, <4>2
        <5>2. reports'[j] = new[n - sent] /\ new[n - sent].n = sent + (n - sent)
          BY <3>1, <3>2, <5>1 DEF Reporting
        <5>3. new[n - sent] \in OrderReports
          BY <5>1
        <5>4. sent + (n - sent) = n
          BY <1>0
        <5> HIDE DEF j
        <5> QED
          BY <5>1, <5>2, <5>3, <5>4, ReportFields
      <4> QED
        BY <4>1, <4>2
    <3> QED
      BY <2>1, <3>4, <3>5, <3>6 DEF Gapless
  <2> QED
    BY <1>6, <2>2, <2>3, GateSteps DEF GateEffect
<1>7. CASE UNCHANGED vars
  BY <1>1, <1>7 DEF vars, gateVars
<1> QED
  BY <1>2, <1>3, <1>4, <1>5, <1>6, <1>7 DEF Next, InputStep

\* A NewOrder that waits for its IOC order to complete, and is the only one
\* with its client order id.
Alone(c) ==
    c \in News /\ timeInForce[c] = "IOC" /\ waitComplete[c] /\ OwnId(c) /\ pc[c] # "absent"

\* No report about i is under way.
Quiet(i) ==
    /\ \A j \in 1 .. Len(reports) : reports[j].kind # "reject" => reports[j].id # i
    /\ InHand => input.msg.id # i

\* The reports about i are those numbered b + 1 up to b + ReportsOf(k), in
\* the order in which the gate makes them of k fills.
Fits(m, i, k, b) ==
    /\ m.id = i <=> m.n \in b + 1 .. b + ReportsOf(k)
    /\ m.id = i => /\ m.timeInForce = "IOC"
                   /\ m.kind = KindOf(m.n - b, k)
                   /\ m.left = LeftAt(m.n - b, k)
Scripted(i, k, b) ==
    /\ b + ReportsOf(k) <= sent
    /\ \A j \in 1 .. Len(reports) : reports[j].kind # "reject" => Fits(reports[j], i, k, b)
    /\ InHand => Fits(input.msg, i, k, b)

\* The number of the last report that no trade is still to be appended for, and
\* how many trades there are up to a report.
Handled == IF input.pc \in {"reply", "trades"} THEN applied - 1 ELSE applied
CountOf(h, b, k) ==
    IF h <= b + 1 THEN 0 ELSE IF h <= b + 1 + k THEN h - (b + 1) ELSE k

\* The call has the trades that are handled, and is woken with the last report.
Over(k, b) == Handled >= b + ReportsOf(k)
Traded(c, k, b) ==
    /\ pc[c] \in Registered => trades[c] = CountOf(Handled, b, k)
    /\ pc[c] \in Registered /\ input.pc \in {"trades", "done"} /\ input.msg.id = id[c]
          => Reply[c] = input.msg
    /\ c \in doneBuf => Error[c] = "reject" \/ (Final(Reply[c]) /\ Over(k, b))
    /\ pc[c] = "collect" => Error[c] = "reject" \/ (Final(ret[c].reply) /\ Over(k, b))

Unplaced(c) ==
    /\ Quiet(id[c])
    /\ trades[c] = 0
    /\ c \in doneBuf \/ pc[c] = "collect" => Error[c] = "reject"
Executed(c) ==
    /\ fills[c] \in 0 .. Quantity
    /\ \E b \in 0 .. sent : Scripted(id[c], fills[c], b) /\ Traded(c, fills[c], b)
Whole(c) == c \in placed /\ Final(ret[c].reply) /\ ret[c].trades = fills[c]
OffBook(c) ==
    /\ book[id[c]] = NoOrder
    /\ \A d \in Replaces : pc[d] # "absent" => newId[d] # id[c]

\* What is claimed of a call that is alone.
Claimed(c) ==
    /\ OffBook(c)
    /\ c \notin placed => Unplaced(c)
    /\ c \in placed => Executed(c)
    /\ pc[c] \in {"unregister", "returned"} /\ ret[c].err = "none" => Whole(c)
AloneInv ==
    /\ fills \in [News -> Nat]
    /\ \A c \in News : Alone(c) => Claimed(c)

\* How the trades are counted: report n follows the handled report h.
LEMMA CountSteps ==
    ASSUME NEW h \in Nat, NEW b \in Nat, NEW k \in 0 .. Quantity, NEW n, n = h + 1
    PROVE  /\ n \notin b + 1 .. b + ReportsOf(k) => CountOf(n, b, k) = CountOf(h, b, k)
           /\ n \in b + 1 .. b + ReportsOf(k) =>
                 /\ KindOf(n - b, k) = "trade" => CountOf(n, b, k) = CountOf(h, b, k) + 1
                 /\ KindOf(n - b, k) # "trade" => CountOf(n, b, k) = CountOf(h, b, k)
                 /\ \/ KindOf(n - b, k) = "expired"
                    \/ KindOf(n - b, k) = "trade" /\ LeftAt(n - b, k) = 0
                    => n >= b + ReportsOf(k)
           /\ h >= b + ReportsOf(k) => CountOf(h, b, k) = k /\ n \notin b + 1 .. b + ReportsOf(k)
           /\ ReportsOf(k) \in Nat
<1>0. k \in Nat /\ k <= Quantity /\ Quantity \in Nat
  BY QuantityAssumption
<1>1. k + 1 <= ReportsOf(k) /\ ReportsOf(k) <= k + 2 /\ ReportsOf(k) \in Nat
      /\ (ReportsOf(k) = k + 2 => k # Quantity) /\ (k = Quantity => ReportsOf(k) = k + 1)
  BY <1>0 DEF ReportsOf
<1>2. n \notin b + 1 .. b + ReportsOf(k) => CountOf(n, b, k) = CountOf(h, b, k)
  BY <1>0, <1>1 DEF CountOf
<1>3. ASSUME n \in b + 1 .. b + ReportsOf(k)
      PROVE  /\ KindOf(n - b, k) = "trade" => CountOf(n, b, k) = CountOf(h, b, k) + 1
             /\ KindOf(n - b, k) # "trade" => CountOf(n, b, k) = CountOf(h, b, k)
             /\ \/ KindOf(n - b, k) = "expired"
                \/ KindOf(n - b, k) = "trade" /\ LeftAt(n - b, k) = 0
                => n >= b + ReportsOf(k)
  <2>1. CASE n - b = 1
    BY <1>0, <2>1 DEF KindOf, CountOf
  <2>2. CASE n - b # 1 /\ n - b <= k + 1
    <3>1. KindOf(n - b, k) = "trade" /\ LeftAt(n - b, k) = Quantity - (n - b - 1)
      BY <2>2 DEF KindOf, LeftAt
    <3>2. CountOf(n, b, k) = CountOf(h, b, k) + 1
      BY <1>0, <1>3, <2>2 DEF CountOf
    <3>3. Quantity - (n - b - 1) = 0 => n >= b + ReportsOf(k)
      BY <1>0, <1>1, <1>3, <2>2
    <3> QED
      BY <3>1, <3>2, <3>3
  <2>3. CASE n - b # 1 /\ ~(n - b <= k + 1)
    <3>1. KindOf(n - b, k) = "expired"
      BY <2>3 DEF KindOf
    <3>2. CountOf(n, b, k) = CountOf(h, b, k)
      BY <1>0, <1>1, <1>3, <2>3 DEF CountOf
    <3>3. n >= b + ReportsOf(k)
      BY <1>0, <1>1, <1>3, <2>3
    <3> QED
      BY <3>1, <3>2, <3>3
  <2> QED
    BY <2>1, <2>2, <2>3
<1>4. h >= b + ReportsOf(k) => CountOf(h, b, k) = k /\ n \notin b + 1 .. b + ReportsOf(k)
  BY <1>0, <1>1 DEF CountOf
<1> QED
  BY <1>1, <1>2, <1>3, <1>4
\* A client order id is not used again, not even for a replacement.
IdsKept == IdReuse = "never" \/ (IdReuse = "in parallel" /\ Replaces = {})

LEMMA InitAlone == IdsKept /\ Init => AloneInv
<1> SUFFICES ASSUME IdsKept, Init PROVE AloneInv
  OBVIOUS
<1>1. PICK cast \in Casts :
         /\ pc = [c \in Calls |-> IF c \in cast THEN "start" ELSE "absent"]
         /\ IdsAllowed(cast)
  BY DEF Init
<1>2. /\ reports = <<>> /\ Len(reports) = 0 /\ input.pc = "idle" /\ doneBuf = {} /\ placed = {}
      /\ trades = [c \in Calls |-> 0] /\ fills = [c \in News |-> 0]
  BY DEF Init
<1>3. ASSUME NEW c \in News, Alone(c) PROVE OffBook(c)
  <2>1. c \in Calls /\ c \notin Cancels /\ c \notin Replaces /\ c \in cast /\ OrderId(c) = id[c]
    BY <1>1, <1>3, CallKinds DEF Alone, OrderId
  <2>2. book[id[c]] = NoOrder
    BY <1>1, <2>1 DEF IdsAllowed, IdsKept
  <2>3. ASSUME NEW d \in Replaces, pc[d] # "absent" PROVE newId[d] # id[c]
    <3>1. d \in Calls /\ d \notin Cancels /\ d \in cast /\ OrderId(d) = newId[d] /\ d # c
      BY <1>1, <2>1, <2>3, CallsAssumption DEF OrderId, Calls
    <3> QED
      BY <1>1, <2>1, <2>3, <3>1 DEF IdsAllowed, IdsKept
  <2> QED
    BY <2>2, <2>3 DEF OffBook
<1>4. ASSUME NEW c \in News
      PROVE  /\ Unplaced(c) /\ c \notin placed
             /\ pc[c] \notin {"unregister", "returned"}
  BY <1>1, <1>2, CallKinds DEF Unplaced, Quiet, InHand
<1>5. fills \in [News -> Nat]
  BY <1>2
<1> QED
  BY <1>3, <1>4, <1>5 DEF AloneInv, Claimed

\* What is under way only passes through input().
LEMMA InputKeepsStream ==
    ASSUME MessagesTyped, InputStep, NEW i, NEW k, NEW b
    PROVE  /\ Quiet(i) => Quiet(i)'
           /\ Scripted(i, k, b) => Scripted(i, k, b)'
<1>0. reports \in Seq(OrderReports \cup Rejects)
  BY DEF MessagesTyped
<1>1. CASE Receive
  <2>1. /\ reports # <<>> /\ reports' = Tail(reports)
        /\ input'.pc = FirstStep(Head(reports)) /\ input'.msg = Head(reports) /\ sent' = sent
    BY <1>1 DEF Receive, gateVars
  <2>2. /\ Head(reports) = reports[1] /\ 1 \in 1 .. Len(reports)
        /\ \A j \in 1 .. Len(reports') : reports'[j] = reports[j + 1] /\ j + 1 \in 1 .. Len(reports)
    BY <1>0, <2>1
  <2>3. InHand' => reports[1].kind # "reject" /\ input'.msg = reports[1]
    BY <2>1, <2>2 DEF InHand, FirstStep
  <2>4. Quiet(i) => Quiet(i)'
    BY <2>2, <2>3 DEF Quiet
  <2>5. Scripted(i, k, b) => Scripted(i, k, b)'
    BY <2>1, <2>2, <2>3 DEF Scripted
  <2> QED
    BY <2>4, <2>5
<1>2. CASE ApplyReport \/ AnswerCanceled \/ SetReply \/ AppendTrade \/ Signal \/ AnswerReject
  <2>1. /\ UNCHANGED <<reports, sent>>
        /\ InHand' => InHand /\ input'.msg = input.msg
    BY <1>2 DEF ApplyReport, AnswerCanceled, SetReply, AppendTrade, Signal, AnswerReject,
                MessagesTyped, gateVars, InHand
  <2> QED
    BY <2>1 DEF Quiet, Scripted
<1> QED
  BY <1>1, <1>2 DEF InputStep

\* Reports of other orders do not mix with those about i.
LEMMA OthersKeepStream ==
    ASSUME MessagesTyped, NEW i, NEW k, NEW b \in Nat, ReportsOf(k) \in Nat, UNCHANGED input,
           \/ \E new \in Seq(OrderReports) : Reporting(new) /\ \A j \in 1 .. Len(new) : new[j].id # i
           \/ \E r \in Rejects : reports' = Append(reports, r) /\ sent' = sent
    PROVE  /\ Quiet(i) => Quiet(i)'
           /\ Scripted(i, k, b) => Scripted(i, k, b)'
           /\ sent <= sent'
<1>0. reports \in Seq(OrderReports \cup Rejects) /\ sent \in Nat
  BY DEF MessagesTyped
<1>1. ASSUME NEW new \in Seq(OrderReports), Reporting(new), \A j \in 1 .. Len(new) : new[j].id # i
      PROVE  /\ Quiet(i) => Quiet(i)'
             /\ Scripted(i, k, b) => Scripted(i, k, b)'
             /\ sent <= sent'
  <2>1. /\ Len(reports') = Len(reports) + Len(new) /\ Len(reports) \in Nat /\ Len(new) \in Nat
        /\ \A j \in 1 .. Len(reports) : reports'[j] = reports[j]
        /\ \A j \in Len(reports) + 1 .. Len(reports) + Len(new) :
              reports'[j] = new[j - Len(reports)]
        /\ sent' = sent + Len(new)
    BY <1>0, <1>1, Concatenation DEF Reporting
  <2>2. ASSUME NEW j \in 1 .. Len(reports'), j \notin 1 .. Len(reports)
        PROVE  reports'[j].id # i /\ reports'[j].n \in sent + 1 .. sent'
    <3>1. j \in Len(reports) + 1 .. Len(reports) + Len(new) /\ j - Len(reports) \in 1 .. Len(new)
      BY <2>1, <2>2
    <3>2. reports'[j].n = sent + (j - Len(reports)) /\ reports'[j].id # i
      BY <1>1, <2>1, <3>1 DEF Reporting
    <3> QED
      BY <1>0, <2>1, <3>1, <3>2
  <2>3. Quiet(i) => Quiet(i)'
    BY <2>1, <2>2 DEF Quiet, InHand
  <2>4. ASSUME Scripted(i, k, b) PROVE Scripted(i, k, b)'
    <3>1. ASSUME NEW j \in 1 .. Len(reports'), j \notin 1 .. Len(reports)
          PROVE  Fits(reports'[j], i, k, b)
      <4>1. reports'[j].n \notin b + 1 .. b + ReportsOf(k)
        BY <1>0, <2>1, <2>2, <2>4, <3>1 DEF Scripted
      <4> QED
        BY <2>2, <3>1, <4>1 DEF Fits
    <3>2. \A j \in 1 .. Len(reports') : reports'[j].kind # "reject" => Fits(reports'[j], i, k, b)
      BY <2>1, <2>4, <3>1 DEF Scripted
    <3>3. b + ReportsOf(k) <= sent'
      BY <1>0, <2>1, <2>4 DEF Scripted
    <3> QED
      BY <2>4, <3>2, <3>3 DEF Scripted, InHand
  <2> QED
    BY <1>0, <2>1, <2>3, <2>4
<1>2. ASSUME NEW r \in Rejects, reports' = Append(reports, r), sent' = sent
      PROVE  /\ Quiet(i) => Quiet(i)'
             /\ Scripted(i, k, b) => Scripted(i, k, b)'
             /\ sent <= sent'
  <2>1. \A j \in 1 .. Len(reports') :
           (j \in 1 .. Len(reports) /\ reports'[j] = reports[j]) \/ reports'[j].kind = "reject"
    BY <1>2, Appended, RejectFields
  <2> QED
    BY <1>0, <1>2, <2>1 DEF Quiet, Scripted, InHand
<1> QED
  BY <1>1, <1>2
\* The request the gate looks at is its caller's.
LEMMA HeadPosted ==
    ASSUME MessagesTyped, PostInv, wire # <<>>
    PROVE  LET r == Head(wire) IN
           /\ r.id = id[r.call] /\ r.request = RequestId(r.call)
           /\ pc[r.call] \notin Unsent /\ r.call \notin placed
<1>1. Head(wire) = wire[1] /\ 1 \in 1 .. Len(wire)
  BY DEF MessagesTyped
<1> QED
  BY <1>1 DEF PostInv, Underway

\* All that the gate does but the execution of c is about other orders.
LEMMA GateLeavesAlone ==
    ASSUME RegistrationInv, MessagesTyped, PostInv, NEW c \in News, Alone(c), OffBook(c),
           fills \in [News -> Nat], GateStep \/ \E i \in Ids : GateFill(i),
           ~(GateExecute /\ Head(wire).call = c)
    PROVE  /\ book'[id[c]] = NoOrder
           /\ c \in placed' <=> c \in placed
           /\ fills' \in [News -> Nat] /\ fills'[c] = fills[c]
           /\ \/ \E new \in Seq(OrderReports) :
                    Reporting(new) /\ \A j \in 1 .. Len(new) : new[j].id # id[c]
              \/ \E r \in Rejects : reports' = Append(reports, r) /\ sent' = sent
<1> USE DEF gateVars
<1>0. /\ Quantity \in Nat /\ Quantity > 0 /\ sent \in Nat /\ sent + 1 \in Nat
      /\ book \in [Ids -> Orders \cup {NoOrder}] /\ id[c] \in Ids /\ book[id[c]] = NoOrder
      /\ News \subseteq Calls
  BY QuantityAssumption DEF MessagesTyped, OffBook, RegistrationInv, CallsTypeOK, Calls
\* One report that is not about the order of c.
<1>1. ASSUME NEW m \in OrderReports, m.id # id[c], m.n = sent + 1, sent' = sent + 1,
             reports' = Append(reports, m)
      PROVE  \E new \in Seq(OrderReports) :
                Reporting(new) /\ \A j \in 1 .. Len(new) : new[j].id # id[c]
  <2>1. <<m>> \in Seq(OrderReports) /\ Len(<<m>>) = 1 /\ <<m>>[1] = m
    OBVIOUS
  <2>2. Append(reports, m) = reports \o <<m>>
    BY DEF MessagesTyped
  <2>3. Reporting(<<m>>) /\ \A j \in 1 .. Len(<<m>>) : <<m>>[j].id # id[c]
    BY <1>1, <2>1, <2>2 DEF Reporting
  <2> QED
    BY <2>1, <2>3
\* A request of another NewOrder has another id.
<1>2. ASSUME wire # <<>>, Head(wire).call \in News, Head(wire).call # c
      PROVE  Head(wire).id # id[c]
  BY <1>2, HeadPosted DEF Alone, OwnId, Unsent
<1>3. CASE GateReject
  <2> DEFINE r == Head(wire)
             m == [kind |-> "reject", id |-> r.id,
                   request |-> IF r.call \in News THEN NoCall ELSE r.request]
  <2>1. m \in Rejects
    BY <1>3, HeadTyped DEF GateReject, Rejects
  <2>2. reports' = Append(reports, m) /\ UNCHANGED <<book, placed, fills, sent>>
    BY <1>3 DEF GateReject
  <2> HIDE DEF m
  <2> QED
    BY <1>0, <2>1, <2>2
<1>4. CASE GatePlace
  <2> DEFINE r == Head(wire)
             order == [terms |-> terms[r.call], left |-> Quantity]
             m == Report("new", r.id, order, "GTC", sent + 1)
  <2>1. r.call # c /\ r.id # id[c] /\ r.id \in Ids /\ terms[r.call] \in Terms
    BY <1>2, <1>4, HeadTyped DEF GatePlace, Alone, MessagesTyped
  <2>2. m \in OrderReports /\ m.id = r.id /\ m.n = sent + 1
    <3>1. order.terms \in Terms /\ order.left \in 0 .. Quantity
      BY <1>0, <2>1
    <3>2. m \in OrderReports
      BY <1>0, <2>1, <3>1, ReportTyped
    <3>3. m.id = r.id /\ m.n = sent + 1
      BY DEF Report
    <3> QED
      BY <3>2, <3>3
  <2>3. /\ reports' = Append(reports, m) /\ book' = [book EXCEPT ![r.id] = order]
        /\ placed' = placed \cup {r.call} /\ sent' = sent + 1 /\ fills' = fills
    BY <1>4 DEF GatePlace
  <2> HIDE DEF m, order
  <2> QED
    BY <1>0, <1>1, <2>1, <2>2, <2>3
<1>5. CASE GateExecute
  <2>1. PICK k \in 0 .. Quantity, new \in Seq(OrderReports) :
           /\ fills' = [fills EXCEPT ![Head(wire).call] = k]
           /\ Reporting(new)
           /\ \A j \in 1 .. Len(new) : new[j].id = Head(wire).id
    BY <1>5, ExecuteScript
  <2>2. /\ Head(wire).call # c /\ Head(wire).call \in News /\ Head(wire).id # id[c]
        /\ book' = book /\ placed' = placed \cup {Head(wire).call}
    BY <1>2, <1>5 DEF GateExecute
  <2> QED
    BY <1>0, <2>1, <2>2
<1>6. CASE GateCancel
  <2> DEFINE r == Head(wire)
             m == Report("canceled", r.id, book[r.id], "GTC", sent + 1)
  <2>1. book[r.id] \in Orders /\ r.id \in Ids /\ r.id # id[c]
    BY <1>0, <1>6, HeadTyped DEF GateCancel
  <2>2. book[r.id].terms \in Terms /\ book[r.id].left \in 0 .. Quantity
    BY <1>0, <2>1 DEF Orders
  <2>3. m \in OrderReports /\ m.id = r.id /\ m.n = sent + 1
    BY <1>0, <2>1, <2>2, ReportTyped
  <2>4. /\ reports' = Append(reports, m) /\ book' = [book EXCEPT ![r.id] = NoOrder]
        /\ sent' = sent + 1 /\ UNCHANGED <<placed, fills>>
    BY <1>6 DEF GateCancel
  <2> HIDE DEF m, r
  <2> QED
    BY <1>0, <1>1, <2>1, <2>3, <2>4
<1>7. CASE GateReplace
  <2> DEFINE r == Head(wire)
             order == [terms |-> terms[r.call], left |-> book[r.id].left]
             m == [kind |-> "replaced", id |-> r.request, original |-> r.id,
                   terms |-> order.terms, left |-> order.left,
                   timeInForce |-> "GTC", n |-> sent + 1]
  <2>1. book[r.id] \in Orders /\ r.id \in Ids /\ r.request \in Ids /\ r.id # id[c]
    BY <1>0, <1>7, HeadTyped DEF GateReplace
  <2>2. r.request # id[c]
    BY <1>7, HeadPosted DEF GateReplace, OffBook, RequestId, Unsent
  <2>3. order.terms \in Terms /\ order.left \in 0 .. Quantity
    BY <1>0, <1>7, <2>1 DEF GateReplace, MessagesTyped, Orders
  <2>4. m \in OrderReports /\ m.id = r.request /\ m.n = sent + 1
    BY <1>0, <2>1, <2>3 DEF OrderReports
  <2>5. /\ reports' = Append(reports, m)
        /\ book' = [book EXCEPT ![r.id] = NoOrder, ![r.request] = order]
        /\ sent' = sent + 1 /\ UNCHANGED <<placed, fills>>
    BY <1>7 DEF GateReplace
  <2> HIDE DEF m, order, r
  <2> QED
    BY <1>0, <1>1, <2>1, <2>2, <2>4, <2>5
<1>8. ASSUME NEW o \in Ids, GateFill(o)
      PROVE  /\ book'[id[c]] = NoOrder
             /\ c \in placed' <=> c \in placed
             /\ fills' \in [News -> Nat] /\ fills'[c] = fills[c]
             /\ \E new \in Seq(OrderReports) :
                   Reporting(new) /\ \A j \in 1 .. Len(new) : new[j].id # id[c]
  <2> DEFINE order == [book[o] EXCEPT !.left = @ - 1]
             m == Report("trade", o, order, "GTC", sent + 1)
  <2>1. book[o] \in Orders /\ o # id[c]
    BY <1>0, <1>8 DEF GateFill
  <2>2. order.terms \in Terms /\ order.left \in 0 .. Quantity
    BY <1>0, <2>1 DEF Orders
  <2>3. /\ reports' = Append(reports, m) /\ sent' = sent + 1 /\ placed' = placed
        /\ \E x : book' = [book EXCEPT ![o] = x]
        /\ fills' = [d \in News |->
                        IF d \in placed /\ id[d] = o /\ timeInForce[d] = "GTC" THEN fills[d] + 1
                        ELSE fills[d]]
    BY <1>8 DEF GateFill
  <2>4. fills' \in [News -> Nat] /\ fills'[c] = fills[c]
    BY <2>1, <2>3
  <2> HIDE DEF order
  <2>5. m \in OrderReports /\ m.id = o /\ m.n = sent + 1
    BY <1>0, <2>2, ReportTyped
  <2> HIDE DEF m
  <2>6. book'[id[c]] = NoOrder
    BY <1>0, <2>1, <2>3
  <2> QED
    BY <1>1, <2>1, <2>3, <2>4, <2>5, <2>6
<1> QED
  BY <1>3, <1>4, <1>5, <1>6, <1>7, <1>8 DEF GateStep

\* An execution of c starts the reports about its order.
LEMMA ExecutionStarts ==
    ASSUME RegistrationInv, MessagesTyped, Numbered, PostInv, NEW c \in News,
           Quiet(id[c]), fills \in [News -> Nat], GateExecute, Head(wire).call = c
    PROVE  /\ c \notin placed /\ c \in placed' /\ book' = book
           /\ fills' \in [News -> Nat] /\ fills'[c] \in 0 .. Quantity
           /\ \E k \in 0 .. Quantity, b \in 0 .. sent' :
                 k = fills'[c] /\ b = sent /\ Scripted(id[c], k, b)'
           /\ \A d \in News \ {c} : fills'[d] = fills[d] /\ (d \in placed' <=> d \in placed)
<1>0. /\ reports \in Seq(OrderReports \cup Rejects) /\ sent \in Nat /\ Quantity \in Nat
      /\ applied \in Nat /\ applied <= sent
  BY QuantityAssumption DEF MessagesTyped, Numbered
<1>1. /\ wire # <<>> /\ book' = book /\ placed' = placed \cup {c} /\ UNCHANGED <<id, input>>
  BY DEF GateExecute, args
<1>2. c \notin placed /\ Head(wire).id = id[c]
  BY <1>1, HeadPosted
<1>3. PICK k \in 0 .. Quantity, new \in Seq(OrderReports) :
         /\ fills' = [fills EXCEPT ![c] = k]
         /\ Reporting(new)
         /\ Len(new) = ReportsOf(k)
         /\ \A j \in 1 .. Len(new) :
               /\ new[j].id = id[c] /\ new[j].timeInForce = "IOC"
               /\ new[j].kind = KindOf(j, k) /\ new[j].left = LeftAt(j, k)
  BY <1>2, ExecuteScript
<1>4. fills' \in [News -> Nat] /\ fills'[c] = k /\ \A d \in News \ {c} : fills'[d] = fills[d]
  BY <1>3
<1>5. /\ Len(reports') = Len(reports) + Len(new) /\ Len(reports) \in Nat /\ Len(new) \in Nat
      /\ \A j \in 1 .. Len(reports) : reports'[j] = reports[j]
      /\ \A j \in Len(reports) + 1 .. Len(reports) + Len(new) :
            reports'[j] = new[j - Len(reports)]
      /\ sent' = sent + Len(new)
  <2>1. new \in Seq(OrderReports \cup Rejects) /\ reports' = reports \o new /\ sent' = sent + Len(new)
    BY <1>3 DEF Reporting
  <2> QED
    BY <1>0, <2>1, Concatenation
<1>6. ASSUME NEW j \in 1 .. Len(reports'), reports'[j].kind # "reject"
      PROVE  Fits(reports'[j], id[c], k, sent)
  <2>1. CASE j \in 1 .. Len(reports)
    <3>1. reports'[j] = reports[j] /\ reports[j] \in OrderReports
      BY <1>0, <1>5, <1>6, <2>1, RejectFields
    <3>2. reports[j].n <= sent /\ reports[j].n \in Nat /\ reports[j].id # id[c]
      BY <1>6, <2>1, <3>1, ReportFields DEF Numbered, Quiet
    <3> QED
      BY <1>0, <3>1, <3>2 DEF Fits
  <2>2. CASE j \notin 1 .. Len(reports)
    <3>1. j \in Len(reports) + 1 .. Len(reports) + Len(new) /\ j - Len(reports) \in 1 .. Len(new)
      BY <1>5, <2>2
    <3>2. PICK p \in 1 .. Len(new) : reports'[j] = new[p]
      BY <1>5, <3>1
    <3>3. new[p].n = sent + p
      BY <1>3 DEF Reporting
    <3>4. new[p].n - sent = p /\ new[p].n \in sent + 1 .. sent + ReportsOf(k)
      BY <1>0, <1>3, <1>5, <3>3
    <3> QED
      BY <1>3, <3>2, <3>4 DEF Fits
  <2> QED
    BY <2>1, <2>2
<1>7. InHand => Fits(input.msg, id[c], k, sent)
  <2> SUFFICES ASSUME InHand PROVE Fits(input.msg, id[c], k, sent)
    OBVIOUS
  <2>1. input.msg.n <= sent /\ input.msg.n \in Nat /\ input.msg.id # id[c]
    BY <1>0, ReportFields DEF InHand, MessagesTyped, Numbered, Quiet
  <2> QED
    BY <1>0, <2>1 DEF Fits
<1>8. PICK b : b = sent
  OBVIOUS
<1>9. Scripted(id[c], k, b)'
  <2>1. b + ReportsOf(k) <= sent'
    BY <1>0, <1>3, <1>5, <1>8
  <2>2. \A j \in 1 .. Len(reports') : reports'[j].kind # "reject" => Fits(reports'[j], id'[c], k, b)
    BY <1>1, <1>6, <1>8
  <2>3. InHand' => Fits(input'.msg, id'[c], k, b)
    BY <1>1, <1>7, <1>8 DEF InHand
  <2> QED
    BY <2>1, <2>2, <2>3 DEF Scripted
<1>10. b \in 0 .. sent'
  BY <1>0, <1>5, <1>8
<1> QED
  BY <1>1, <1>2, <1>4, <1>8, <1>9, <1>10
\* A step of the NewOrder itself.
LEMMA NewSteps ==
    ASSUME RegistrationInv, Answered, NEW c \in News, CallStep(c) \/ Expire(c)
    PROVE  /\ pc'[c] \in Registered => pc[c] \in Registered \cup Unsent
           /\ \/ /\ ret'[c] = ret[c] /\ pc'[c] # "collect"
                 /\ pc'[c] \in {"unregister", "returned"} => pc[c] = "unregister"
              \/ ret'[c].err # "none" /\ pc'[c] # "collect"
              \/ /\ c \in doneBuf /\ pc'[c] = "collect" /\ pc[c] \in Registered
                 /\ ret'[c].reply = Reply[c]
              \/ /\ pc[c] = "collect" /\ pc'[c] = "unregister"
                 /\ ret'[c].reply = ret[c].reply /\ ret'[c].trades = trades[c]
                 /\ ret'[c].err = Error[c]
<1>0. /\ pc \in [Calls -> CallStates] /\ c \in Calls /\ c \notin Cancels /\ c \notin Replaces
      /\ ret[c] = [reply |-> ret[c].reply, trades |-> ret[c].trades, err |-> ret[c].err]
      /\ ret = [d \in Calls |-> ret[d]]
  BY CallKinds DEF RegistrationInv, CallsTypeOK, Answered
<1>1. CASE StartNew(c)
  BY <1>0, <1>1 DEF StartNew, Return, Goto, Registered, Unsent
<1>2. CASE RegisterNew(c)
  BY <1>0, <1>2 DEF RegisterNew, Return, Goto, Registered, Unsent
<1>3. CASE Send(c)
  BY <1>0, <1>3 DEF Send, Goto, Registered, Unsent
<1>4. CASE Wake(c)
  BY <1>0, <1>4 DEF Wake, Goto, Registered, Unsent
<1>5. CASE Collect(c)
  BY <1>0, <1>5 DEF Collect, Goto, Registered, Unsent
<1>6. CASE Expire(c)
  BY <1>0, <1>6 DEF Expire, Goto, Registered, Unsent
<1>7. CASE Unregister(c)
  BY <1>0, <1>7 DEF Unregister, Goto, Registered, Unsent
<1> QED
  BY <1>0, <1>1, <1>2, <1>3, <1>4, <1>5, <1>6, <1>7 DEF CallStep

\* The execution of c's order, with its id, its fills and the number it starts at.
Phase(c, i, k, b) ==
    /\ i = id[c] /\ k = fills[c] /\ k \in 0 .. Quantity /\ b \in 0 .. sent
    /\ Scripted(i, k, b) /\ Traded(c, k, b)

LEMMA ExecutionPhase ==
    ASSUME NEW c, Executed(c) PROVE \E i, k, b : Phase(c, i, k, b)
  BY DEF Executed, Phase

LEMMA PhaseExecuted ==
    ASSUME NEW c, NEW i, NEW k, NEW b, Phase(c, i, k, b)' PROVE Executed(c)'
<1>1. /\ i = id'[c] /\ k = fills'[c] /\ k \in 0 .. Quantity /\ b \in 0 .. sent'
      /\ Scripted(i, k, b)' /\ Traded(c, k, b)'
  BY DEF Phase
<1>2. Scripted(id[c], fills[c], b)' /\ Traded(c, fills[c], b)'
  BY <1>1 DEF Scripted, Traded, Over
<1> QED
  BY <1>1, <1>2 DEF Executed

LEMMA CallersKeepClaims ==
    ASSUME RegistrationInv, MessagesTyped, Numbered, Answered, PostInv,
           NEW c \in News, Claimed(c), NEW e \in Calls, CallStep(e) \/ Expire(e)
    PROVE  Claimed(c)'
<1>0. /\ UNCHANGED <<id, newId, book, placed, fills, sent, applied, input, reports, trades, Reply, Error>>
      /\ doneBuf' \subseteq doneBuf
  BY CallerEffect DEF args, gateVars
<1>1. /\ pc \in [Calls -> CallStates] /\ c \in Calls /\ Replaces \subseteq Calls
      /\ applied \in Nat
  BY DEF RegistrationInv, CallsTypeOK, Calls, Numbered
<1>2. PICK to \in CallStates \ {"absent"} : pc' = [pc EXCEPT ![e] = to] /\ pc[e] # "absent"
  BY CallerEffect
<1>3. OffBook(c)'
  BY <1>0, <1>1, <1>2 DEF Claimed, OffBook
<1>4. Quiet(id[c]) => Quiet(id[c])'
  BY <1>0 DEF Quiet, InHand
<1>5. CASE pc'[c] = pc[c] /\ ret'[c] = ret[c]
  <2>1. c \notin placed => Unplaced(c)'
    BY <1>0, <1>4, <1>5 DEF Claimed, Unplaced
  <2>2. ASSUME c \in placed PROVE Executed(c)'
    <3>1. PICK i, k, b : Phase(c, i, k, b)
      BY <2>2, ExecutionPhase DEF Claimed
    <3>2. Phase(c, i, k, b)'
      BY <1>0, <1>5, <3>1 DEF Phase, Scripted, Traded, InHand, Handled, Over
    <3> QED
      BY <3>2, PhaseExecuted
  <2>3. pc'[c] \in {"unregister", "returned"} /\ ret'[c].err = "none" => Whole(c)'
    BY <1>0, <1>5 DEF Claimed, Whole
  <2> QED
    BY <1>0, <1>3, <2>1, <2>2, <2>3 DEF Claimed
<1>6. CASE e # c
  <2>1. pc'[c] = pc[c]
    BY <1>1, <1>2, <1>6
  <2>2. ret'[c] = ret[c]
    BY <1>1, <1>6 DEF CallStep, Expire, StartNew, RegisterNew, StartCancel, LookupPending, Return,
           RegisterCancel, StartReplace, Send, Wake, Collect, Unregister, Answered
  <2> QED
    BY <1>5, <2>1, <2>2
<1>7. CASE e = c
  <2>1. /\ pc'[c] \in Registered => pc[c] \in Registered \cup Unsent
        /\ \/ /\ ret'[c] = ret[c] /\ pc'[c] # "collect"
              /\ pc'[c] \in {"unregister", "returned"} => pc[c] = "unregister"
           \/ ret'[c].err # "none" /\ pc'[c] # "collect"
           \/ /\ c \in doneBuf /\ pc'[c] = "collect" /\ pc[c] \in Registered
              /\ ret'[c].reply = Reply[c]
           \/ /\ pc[c] = "collect" /\ pc'[c] = "unregister"
              /\ ret'[c].reply = ret[c].reply /\ ret'[c].trades = trades[c]
              /\ ret'[c].err = Error[c]
    BY <1>7, NewSteps
  <2>2. c \notin placed => Unplaced(c)'
    BY <1>0, <1>4, <2>1 DEF Claimed, Unplaced
  <2>3. ASSUME c \in placed PROVE Executed(c)'
    <3>1. PICK i, k, b : Phase(c, i, k, b)
      BY <2>3, ExecutionPhase DEF Claimed
    <3>2. pc'[c] \in Registered => pc[c] \in Registered
      BY <2>1, <2>3 DEF PostInv
    <3>3. Scripted(i, k, b)'
      BY <1>0, <3>1 DEF Phase, Scripted, InHand
    <3>4. UNCHANGED Handled
      BY <1>0 DEF Handled
    <3>5. Traded(c, k, b)'
      BY <1>0, <2>1, <3>1, <3>2, <3>4 DEF Phase, Traded, Over
    <3>6. Phase(c, i, k, b)'
      BY <1>0, <3>1, <3>3, <3>5 DEF Phase
    <3> QED
      BY <3>6, PhaseExecuted
  <2>4. ASSUME pc'[c] \in {"unregister", "returned"}, ret'[c].err = "none" PROVE Whole(c)'
    <3>1. CASE ret'[c] = ret[c] /\ pc[c] = "unregister"
      BY <1>0, <2>4, <3>1 DEF Claimed, Whole
    <3>2. CASE /\ pc[c] = "collect"
               /\ ret'[c].reply = ret[c].reply /\ ret'[c].trades = trades[c]
               /\ ret'[c].err = Error[c]
      <4>1. Error[c] # "reject"
        BY <2>4, <3>2
      <4>2. c \in placed
        BY <3>2, <4>1 DEF Claimed, Unplaced
      <4>3. PICK b \in 0 .. sent : Traded(c, fills[c], b) /\ fills[c] \in 0 .. Quantity
        BY <4>2 DEF Claimed, Executed
      <4>4. /\ Final(ret[c].reply) /\ Over(fills[c], b)
            /\ trades[c] = CountOf(Handled, b, fills[c])
        BY <3>2, <4>1, <4>3 DEF Traded, Registered
      <4>5. CountOf(Handled, b, fills[c]) = fills[c]
        <5>1. /\ Handled >= b + ReportsOf(fills[c]) /\ b \in Nat
              /\ applied \in Nat /\ Handled \in {applied, applied - 1}
          BY <1>1, <4>3, <4>4 DEF Over, Handled
        <5>2. ReportsOf(fills[c]) \in Nat /\ ReportsOf(fills[c]) >= fills[c] + 1
          BY <4>3, QuantityAssumption DEF ReportsOf
        <5> QED
          BY <4>3, <5>1, <5>2, QuantityAssumption DEF CountOf
      <4> QED
        BY <1>0, <3>2, <4>2, <4>4, <4>5 DEF Whole
    <3> QED
      BY <2>1, <2>4, <3>1, <3>2
  <2> QED
    BY <1>0, <1>3, <2>2, <2>3, <2>4 DEF Claimed
<1> QED
  BY <1>6, <1>7
\* Whom a report of order i finds, and what is the matter with it.
LEMMA ReportFor ==
    ASSUME RegistrationInv, MessagesTyped, Gapless, Numbered, NEW c \in News, InHand,
           NEW i, NEW k, NEW b, Phase(c, i, k, b)
    PROVE  /\ input.msg \in OrderReports /\ input.msg.id \in Ids
           /\ pendingFilled[input.msg.id] = c <=> pc[c] \in Registered /\ input.msg.id = i
           /\ b \in Nat /\ k \in 0 .. Quantity /\ applied \in Nat
           /\ input.msg.id = i <=> input.msg.n \in b + 1 .. b + ReportsOf(k)
           /\ input.msg.id = i =>
                 /\ input.msg.timeInForce = "IOC"
                 /\ input.msg.kind = KindOf(input.msg.n - b, k)
                 /\ input.msg.left = LeftAt(input.msg.n - b, k)
<1>1. input.msg \in OrderReports /\ input.msg.id \in Ids
  BY ReportFields DEF InHand, MessagesTyped
<1>2. pendingFilled[input.msg.id] = c <=> pc[c] \in Registered /\ input.msg.id = i
  BY <1>1 DEF RegistrationInv, PendingExact, Phase
<1>3. b \in Nat /\ k \in 0 .. Quantity /\ applied \in Nat
  BY DEF Phase, MessagesTyped, Numbered
<1> QED
  BY <1>1, <1>2, <1>3 DEF Phase, Scripted, Fits

\* input() moves from one place to another with its report.
LEMMA InputKeepsTraded ==
    ASSUME RegistrationInv, MessagesTyped, Numbered, Gapless, NEW c \in News, Alone(c),
           Answered, RestTyped, NEW i, NEW k, NEW b, Phase(c, i, k, b), InputStep
    PROVE  Traded(c, k, b)'
<1>0. /\ UNCHANGED <<id, pc, ret>>
      /\ \A d \in Calls : Error[d] = "reject" => Error'[d] = "reject"
      /\ c \in Calls /\ c \notin Cancels /\ c \notin Replaces /\ c # NoCall /\ Quantity \in Nat
      /\ \A x \in Ids : pendingCancel[x] \subseteq Cancels \cup Replaces
      /\ i = id[c] /\ Traded(c, k, b)
  <2>1. UNCHANGED <<id, pc, ret>>
    BY DEF InputStep, Receive, ApplyReport, AnswerCanceled, SetReply, AppendTrade, Signal,
           AnswerReject, args
  <2>2. \A d \in Calls : Error[d] = "reject" => Error'[d] = "reject"
    BY DEF InputStep, Receive, ApplyReport, AnswerCanceled, SetReply, AppendTrade, Signal,
           AnswerReject, callFields
  <2> QED
    BY <2>1, <2>2, CallKinds, QuantityAssumption DEF RegistrationInv, CallsTypeOK, Phase
<1> DEFINE m == input.msg
           n == input.msg.n
           count(h) == CountOf(h, b, k)
<1>c. ASSUME InHand
      PROVE  /\ m \in OrderReports /\ m.id \in Ids
             /\ pendingFilled[m.id] = c <=> pc[c] \in Registered /\ m.id = i
             /\ b \in Nat /\ k \in 0 .. Quantity /\ applied \in Nat
             /\ m.id = i <=> n \in b + 1 .. b + ReportsOf(k)
             /\ m.id = i => /\ m.timeInForce = "IOC"
                            /\ m.kind = KindOf(n - b, k) /\ m.left = LeftAt(n - b, k)
  BY <1>c, ReportFor
\* The step from report h to the next one, n.
<1>d. ASSUME NEW h \in Nat, n = h + 1, InHand
      PROVE  /\ m.id # i \/ m.kind # "trade" => count(n) = count(h)
             /\ m.id = i /\ m.kind = "trade" => count(n) = count(h) + 1
             /\ m.id = i /\ Final(m) => n >= b + ReportsOf(k)
             /\ h >= b + ReportsOf(k) => m.id # i
             /\ h >= b + ReportsOf(k) => n >= b + ReportsOf(k)
  <2>0. n \in Nat /\ ReportsOf(k) \in Nat
    BY <1>c, <1>d, CountSteps
  <2>1. /\ n \notin b + 1 .. b + ReportsOf(k) => count(n) = count(h)
        /\ n \in b + 1 .. b + ReportsOf(k) =>
              /\ KindOf(n - b, k) = "trade" => count(n) = count(h) + 1
              /\ KindOf(n - b, k) # "trade" => count(n) = count(h)
              /\ \/ KindOf(n - b, k) = "expired"
                 \/ KindOf(n - b, k) = "trade" /\ LeftAt(n - b, k) = 0
                 => n >= b + ReportsOf(k)
        /\ h >= b + ReportsOf(k) => n \notin b + 1 .. b + ReportsOf(k)
    BY <1>c, <1>d, CountSteps
  <2>2. m.id = i /\ Final(m) =>
           \/ KindOf(n - b, k) = "expired"
           \/ KindOf(n - b, k) = "trade" /\ LeftAt(n - b, k) = 0
    BY <1>c, <1>d DEF Final, Filled, KindOf
  <2>3. h >= b + ReportsOf(k) => n >= b + ReportsOf(k)
    BY <1>c, <1>d, <2>0
  <2> HIDE DEF count, m, n
  <2> QED
    BY <1>c, <1>d, <2>1, <2>2, <2>3
<1> HIDE DEF count
<1>1. CASE Receive
  <2>1. /\ UNCHANGED <<trades, Reply, Error, doneBuf, applied>>
        /\ input'.pc \notin {"reply", "trades", "done"} /\ input.pc = "idle"
    BY <1>1 DEF Receive, FirstStep, callFields
  <2>2. Handled' = Handled
    BY <2>1 DEF Handled
  <2> QED
    BY <1>0, <2>1, <2>2 DEF Traded, Over
<1>2. CASE ApplyReport
  <2>1. /\ UNCHANGED <<trades, Reply, Error, doneBuf>> /\ input.pc = "cache" /\ InHand
        /\ n = applied + 1 /\ applied' = n /\ applied \in Nat
        /\ \/ input'.pc = "canceled" /\ m.kind = "canceled"
           \/ input'.pc = "reply"
    BY <1>2 DEF ApplyReport, callFields, InHand, MessagesTyped, Gapless, Numbered
  <2>2. Handled = applied
    BY <2>1 DEF Handled
  <2>3. CASE input'.pc = "reply"
    <3>1. Handled' = Handled
      BY <2>1, <2>2, <2>3 DEF Handled
    <3> QED
      BY <1>0, <2>1, <2>3, <3>1 DEF Traded, Over
  <2>4. CASE input'.pc = "canceled" /\ m.kind = "canceled"
    <3>1. Handled' = n
      BY <2>1, <2>4 DEF Handled
    <3>2. count(n) = count(applied)
      BY <1>d, <2>1, <2>4
    <3>3. CountOf(Handled', b, k) = CountOf(Handled, b, k)
      BY <2>2, <3>1, <3>2 DEF count
    <3>4. Over(k, b) => Over(k, b)'
      BY <1>d, <2>1, <2>2, <3>1 DEF Over
    <3> QED
      BY <1>0, <2>1, <2>4, <3>3, <3>4 DEF Traded
  <2> QED
    BY <2>1, <2>3, <2>4
<1>3. CASE AnswerCanceled
  <2>1. /\ input.pc = "canceled" /\ input'.pc = "idle" /\ InHand
        /\ UNCHANGED <<trades, Error, applied>>
        /\ Reply' = [d \in Calls |-> IF d \in pendingCancel[m.id] THEN m ELSE Reply[d]]
        /\ doneBuf' = doneBuf \cup pendingCancel[m.id]
    BY <1>3 DEF AnswerCanceled, InHand, MessagesTyped
  <2>2. Reply'[c] = Reply[c] /\ (c \in doneBuf' <=> c \in doneBuf)
    BY <1>0, <1>c, <2>1
  <2>3. Handled' = Handled
    BY <2>1 DEF Handled
  <2> QED
    BY <1>0, <2>1, <2>2, <2>3 DEF Traded, Over
<1>4. CASE SetReply
  <2>1. /\ input.pc = "reply" /\ InHand /\ n = applied /\ applied > 0 /\ applied \in Nat
        /\ UNCHANGED <<trades, Error, doneBuf, applied>> /\ input'.msg = m
        /\ input'.pc = IF m.kind = "trade" THEN "trades" ELSE "done"
        /\ Reply' = [Reply EXCEPT ![pendingFilled[m.id]] = m]
    BY <1>4 DEF SetReply, InHand, MessagesTyped, Gapless, Numbered
  <2>2. Handled = applied - 1 /\ applied - 1 \in Nat /\ n = (applied - 1) + 1
    BY <2>1 DEF Handled
  <2>3. CountOf(Handled', b, k) = CountOf(Handled, b, k)
    <3>1. CASE m.kind = "trade"
      BY <2>1, <2>2, <3>1 DEF Handled
    <3>2. CASE m.kind # "trade"
      <4>1. Handled' = n
        BY <2>1, <3>2 DEF Handled
      <4>2. count(n) = count(applied - 1)
        BY <1>d, <2>1, <2>2, <3>2
      <4> QED
        BY <2>2, <4>1, <4>2 DEF count
    <3> QED
      BY <3>1, <3>2
  <2>4. Over(k, b) => m.id # i /\ Over(k, b)'
    <3>1. applied - 1 >= b + ReportsOf(k) => m.id # i /\ n >= b + ReportsOf(k)
      BY <1>d, <2>1, <2>2
    <3>2. Handled' \in {Handled, n}
      BY <2>1, <2>2 DEF Handled
    <3> QED
      BY <2>2, <3>1, <3>2 DEF Over
  <2>5. m.id # i => Reply'[c] = Reply[c]
    BY <1>c, <2>1
  <2>6. pc[c] \in Registered /\ m.id = i => Reply'[c] = m
    BY <1>0, <1>c, <2>1 DEF InHand, Answered
  <2> QED
    BY <1>0, <2>1, <2>3, <2>4, <2>5, <2>6 DEF Traded
<1>5. CASE AppendTrade
  <2>1. /\ input.pc = "trades" /\ InHand /\ n = applied /\ applied > 0 /\ applied \in Nat
        /\ m.kind = "trade"
        /\ UNCHANGED <<Reply, Error, doneBuf, applied>> /\ input'.msg = m /\ input'.pc = "done"
        /\ trades' = [trades EXCEPT ![pendingFilled[m.id]] = @ + 1]
    BY <1>5 DEF AppendTrade, InHand, MessagesTyped, Gapless, Numbered
  <2>2. /\ Handled = applied - 1 /\ applied - 1 \in Nat /\ n = (applied - 1) + 1
        /\ Handled' = n
    BY <2>1 DEF Handled
  <2>3. pc[c] \in Registered => trades'[c] = CountOf(Handled', b, k)
    <3>1. pc[c] \in Registered => trades[c] = count(applied - 1)
      BY <1>0, <2>2 DEF Traded, count
    <3>2. CASE m.id = i /\ pc[c] \in Registered
      <4>1. trades'[c] = trades[c] + 1
        BY <1>0, <1>c, <2>1, <3>2 DEF RestTyped
      <4>2. count(n) = count(applied - 1) + 1
        BY <1>d, <2>1, <2>2, <3>2
      <4> QED
        BY <2>2, <3>1, <3>2, <4>1, <4>2 DEF count
    <3>3. CASE m.id # i
      <4>1. trades'[c] = trades[c]
        BY <1>c, <2>1, <3>3
      <4>2. count(n) = count(applied - 1)
        BY <1>d, <2>1, <2>2, <3>3
      <4> QED
        BY <2>2, <3>1, <4>1, <4>2 DEF count
    <3> QED
      BY <3>2, <3>3
  <2>4. Over(k, b) => Over(k, b)'
    BY <1>d, <2>1, <2>2 DEF Over
  <2> QED
    BY <1>0, <2>1, <2>3, <2>4 DEF Traded
<1>6. CASE Signal
  <2>1. /\ input.pc \in {"reply", "done"} /\ input'.pc = "idle" /\ InHand
        /\ input.pc = "reply" => pendingFilled[m.id] = NoCall
        /\ n = applied /\ applied > 0 /\ applied \in Nat
        /\ UNCHANGED <<trades, Error, applied>>
        /\ Reply' = [d \in Calls |-> IF d \in Resolved(m) THEN m ELSE Reply[d]]
        /\ doneBuf' = doneBuf \cup Resolved(m)
              \cup IF pendingFilled[m.id] # NoCall /\ Answers(pendingFilled[m.id], m)
                   THEN {pendingFilled[m.id]} ELSE {}
    BY <1>6 DEF Signal, InHand, MessagesTyped, Gapless, Numbered
  <2>2. Resolved(m) \subseteq Cancels \cup Replaces
    <3>1. m.kind = "replaced" => m.original \in Ids
      BY <1>c, <2>1, ReportFields
    <3> QED
      BY <1>0, <1>c, <2>1, <3>1 DEF Resolved
  <2>3. Reply'[c] = Reply[c]
    BY <1>0, <2>1, <2>2
  <2>4. Handled' = n /\ (applied - 1) \in Nat /\ n = (applied - 1) + 1
    BY <2>1 DEF Handled
  <2>5. CASE input.pc = "reply"
    <3>1. Handled = applied - 1 /\ ~(pc[c] \in Registered /\ m.id = i)
      BY <1>0, <1>c, <2>1, <2>5 DEF Handled
    <3>2. pc[c] \in Registered => CountOf(Handled', b, k) = CountOf(Handled, b, k)
      <4>1. m.id # i => count(n) = count(applied - 1)
        BY <1>d, <2>1, <2>4
      <4> QED
        BY <2>4, <3>1, <4>1 DEF count
    <3>3. Over(k, b) => Over(k, b)'
      BY <1>d, <2>1, <2>4, <3>1 DEF Over
    <3>4. c \in doneBuf' <=> c \in doneBuf
      BY <1>0, <2>1, <2>2, <2>5
    <3> QED
      BY <1>0, <2>1, <2>3, <3>2, <3>3, <3>4 DEF Traded
  <2>6. CASE input.pc = "done"
    <3>1. Handled' = Handled
      BY <2>1, <2>6 DEF Handled
    <3>2. ASSUME c \in doneBuf', c \notin doneBuf
          PROVE  Final(Reply[c]) /\ Over(k, b)
      <4>1. pendingFilled[m.id] = c /\ Answers(c, m)
        BY <1>0, <2>1, <2>2, <3>2
      <4>2. pc[c] \in Registered /\ m.id = i /\ m.timeInForce = "IOC"
        BY <1>c, <2>1, <4>1
      <4>3. Filled(m) \/ m.kind = "expired"
        BY <4>1, <4>2 DEF Answers, Alone
      <4>4. Final(m) /\ Reply[c] = m
        BY <1>0, <2>6, <4>2, <4>3 DEF Traded, Final
      <4>5. n >= b + ReportsOf(k)
        BY <1>d, <2>1, <2>4, <4>2, <4>4
      <4> QED
        BY <2>4, <3>1, <4>4, <4>5 DEF Over
    <3> QED
      BY <1>0, <2>1, <2>3, <3>1, <3>2 DEF Traded, Over
  <2> QED
    BY <2>1, <2>5, <2>6
<1>7. CASE AnswerReject
  <2>1. /\ input.pc = "reject" /\ input'.pc = "idle"
        /\ UNCHANGED <<trades, Reply, applied>>
        /\ Error' = [d \in Calls |-> IF d \in Rejected(m) THEN "reject" ELSE Error[d]]
        /\ doneBuf' = doneBuf \cup Rejected(m)
    BY <1>7 DEF AnswerReject, MessagesTyped
  <2>2. Handled' = Handled
    BY <2>1 DEF Handled
  <2> QED
    BY <1>0, <2>1, <2>2 DEF Traded, Over
<1> QED
  BY <1>1, <1>2, <1>3, <1>4, <1>5, <1>6, <1>7 DEF InputStep
\* A report of another order changes nothing for the call.
LEMMA InputKeepsClaims ==
    ASSUME RegistrationInv, MessagesTyped, Numbered, Gapless, Answered, RestTyped, PostInv,
           NEW c \in News, Alone(c), Claimed(c), InputStep
    PROVE  Claimed(c)'
<1>0. /\ UNCHANGED <<id, newId, pc, ret, placed, fills, book, sent>>
      /\ \A d \in Calls : Error[d] = "reject" => Error'[d] = "reject"
      /\ c \in Calls /\ c \notin Cancels /\ c \notin Replaces /\ c # NoCall
      /\ \A x \in Ids : pendingCancel[x] \subseteq Cancels \cup Replaces
      /\ id[c] \in Ids /\ trades \in [Calls -> Nat]
  <2>1. UNCHANGED <<id, newId, pc, ret, placed, fills, book, sent>>
    BY DEF InputStep, Receive, ApplyReport, AnswerCanceled, SetReply, AppendTrade, Signal,
           AnswerReject, args, gateVars
  <2>2. \A d \in Calls : Error[d] = "reject" => Error'[d] = "reject"
    BY DEF InputStep, Receive, ApplyReport, AnswerCanceled, SetReply, AppendTrade, Signal,
           AnswerReject, callFields
  <2> QED
    BY <2>1, <2>2, CallKinds DEF RegistrationInv, CallsTypeOK, RestTyped
<1>1. OffBook(c)' /\ (Whole(c) => Whole(c)')
  BY <1>0 DEF Claimed, OffBook, Whole
<1>2. ASSUME c \in placed PROVE Executed(c)'
  <2>1. PICK i, k, b : Phase(c, i, k, b)
    BY <1>2, ExecutionPhase DEF Claimed
  <2>2. Traded(c, k, b)'
    BY <2>1, InputKeepsTraded
  <2>3. Scripted(i, k, b)'
    BY <2>1, InputKeepsStream DEF Phase
  <2>4. Phase(c, i, k, b)'
    BY <1>0, <2>1, <2>2, <2>3 DEF Phase
  <2> QED
    BY <2>4, PhaseExecuted
<1>3. ASSUME c \notin placed PROVE Unplaced(c)'
  <2>1. PICK i : i = id[c]
    OBVIOUS
  <2>2. Quiet(i) /\ trades[c] = 0 /\ (c \in doneBuf \/ pc[c] = "collect" => Error[c] = "reject")
    BY <1>3, <2>1 DEF Claimed, Unplaced
  <2>3. Quiet(i)'
    BY <2>2, InputKeepsStream
  <2>4. InHand => /\ input.msg \in OrderReports /\ input.msg.id \in Ids
                  /\ pendingFilled[input.msg.id] # c
    <3>1. InHand => input.msg \in OrderReports /\ input.msg.id \in Ids
      BY ReportFields DEF InHand, MessagesTyped
    <3> QED
      BY <2>1, <2>2, <3>1 DEF Quiet, RegistrationInv, PendingExact
  <2>5. trades'[c] = 0 /\ (c \in doneBuf' => c \in doneBuf \/ Error'[c] = "reject")
    <3>1. CASE Receive \/ ApplyReport \/ SetReply
      BY <2>2, <3>1 DEF Receive, ApplyReport, SetReply, callFields
    <3>2. CASE AnswerCanceled
      <4>1. InHand /\ trades' = trades /\ doneBuf' = doneBuf \cup pendingCancel[input.msg.id]
        BY <3>2 DEF AnswerCanceled, InHand
      <4> QED
        BY <1>0, <2>2, <2>4, <4>1
    <3>3. CASE AppendTrade
      <4>1. /\ InHand /\ doneBuf' = doneBuf
            /\ trades' = [trades EXCEPT ![pendingFilled[input.msg.id]] = @ + 1]
        BY <3>3 DEF AppendTrade, InHand
      <4> QED
        BY <1>0, <2>2, <2>4, <4>1
    <3>4. CASE Signal
      <4>1. /\ InHand /\ trades' = trades
            /\ doneBuf' = doneBuf \cup Resolved(input.msg)
                  \cup IF /\ pendingFilled[input.msg.id] # NoCall
                          /\ Answers(pendingFilled[input.msg.id], input.msg)
                       THEN {pendingFilled[input.msg.id]} ELSE {}
        BY <3>4 DEF Signal, InHand
      <4>2. input.msg.kind = "replaced" => input.msg.original \in Ids
        BY <2>4, <4>1, ReportFields
      <4>3. c \notin Resolved(input.msg)
        BY <1>0, <2>4, <4>1, <4>2 DEF Resolved
      <4> QED
        BY <2>2, <2>4, <4>1, <4>3
    <3>5. CASE AnswerReject
      <4>1. /\ trades' = trades /\ doneBuf' = doneBuf \cup Rejected(input.msg)
            /\ Error' = [d \in Calls |-> IF d \in Rejected(input.msg) THEN "reject" ELSE Error[d]]
        BY <3>5 DEF AnswerReject
      <4> QED
        BY <1>0, <2>2, <4>1
    <3> QED
      BY <3>1, <3>2, <3>3, <3>4, <3>5 DEF InputStep
  <2> QED
    BY <1>0, <2>1, <2>2, <2>3, <2>5 DEF Unplaced, Quiet, InHand
<1> QED
  BY <1>0, <1>1, <1>2, <1>3 DEF Claimed
\* The gate executes the order of the call, or does something about others.
LEMMA GateKeepsClaims ==
    ASSUME RegistrationInv, MessagesTyped, Numbered, Gapless, PostInv, NEW c \in News,
           Alone(c), Claimed(c), fills \in [News -> Nat],
           GateStep \/ \E o \in Ids : GateFill(o)
    PROVE  Claimed(c)'
<1>0. /\ UNCHANGED <<id, newId, pc, ret, applied, input, trades, Reply, Error, doneBuf>>
      /\ applied \in Nat /\ applied <= sent /\ sent \in Nat
  BY GateSteps DEF GateEffect, args, callFields, Numbered, MessagesTyped
<1>1. CASE GateExecute /\ Head(wire).call = c
  <2>1. PICK i : i = id[c]
    OBVIOUS
  <2>2. /\ c \notin placed /\ c \in placed' /\ book' = book
        /\ \E k \in 0 .. Quantity, b \in 0 .. sent' :
              k = fills'[c] /\ b = sent /\ Scripted(id[c], k, b)'
    <3>1. c \notin placed
      BY <1>1, HeadPosted DEF GateExecute
    <3>2. Quiet(id[c])
      BY <3>1 DEF Claimed, Unplaced
    <3> QED
      BY <1>1, <3>2, ExecutionStarts
  <2>3. PICK k \in 0 .. Quantity, b \in 0 .. sent' :
           k = fills'[c] /\ b = sent /\ Scripted(id[c], k, b)'
    BY <2>2
  <2>4. Quiet(i) /\ trades[c] = 0 /\ (c \in doneBuf \/ pc[c] = "collect" => Error[c] = "reject")
    BY <2>1, <2>2 DEF Claimed, Unplaced
  <2>5. CountOf(Handled, b, k) = 0 /\ Handled' = Handled
    <3>1. Handled \in {applied, applied - 1} /\ Handled' = Handled
      BY <1>0 DEF Handled
    <3>2. Handled <= b + 1
      BY <1>0, <2>3, <3>1
    <3> QED
      BY <3>1, <3>2 DEF CountOf
  <2>6. ~(input.pc \in {"trades", "done"} /\ input.msg.id = id[c])
    BY <2>1, <2>4 DEF Quiet, InHand
  <2>7. Traded(c, k, b)'
    BY <1>0, <2>4, <2>5, <2>6 DEF Traded
  <2>8. Scripted(i, k, b)'
    BY <1>0, <2>1, <2>3 DEF Scripted
  <2>9. Phase(c, i, k, b)'
    BY <1>0, <2>1, <2>3, <2>7, <2>8 DEF Phase
  <2>10. Executed(c)'
    BY <2>9, PhaseExecuted
  <2>11. OffBook(c)' /\ (Whole(c) => Whole(c)')
    BY <1>0, <2>2 DEF Claimed, OffBook, Whole
  <2> QED
    BY <1>0, <2>2, <2>10, <2>11 DEF Claimed, Whole
<1>2. CASE ~(GateExecute /\ Head(wire).call = c)
  <2>1. /\ book'[id[c]] = NoOrder
        /\ c \in placed' <=> c \in placed
        /\ fills'[c] = fills[c]
        /\ \/ \E new \in Seq(OrderReports) :
                 Reporting(new) /\ \A j \in 1 .. Len(new) : new[j].id # id[c]
           \/ \E r \in Rejects : reports' = Append(reports, r) /\ sent' = sent
    BY <1>2, GateLeavesAlone DEF Claimed
  <2>2. ASSUME NEW k, NEW b \in Nat, ReportsOf(k) \in Nat, NEW i, i = id[c]
        PROVE  /\ Quiet(i) => Quiet(i)'
               /\ Scripted(i, k, b) => Scripted(i, k, b)'
               /\ sent <= sent'
    BY <1>0, <2>1, <2>2, OthersKeepStream
  <2>3. ASSUME c \in placed PROVE Executed(c)'
    <3>1. PICK i, k, b : Phase(c, i, k, b)
      BY <2>3, ExecutionPhase DEF Claimed
    <3>2. b \in Nat /\ ReportsOf(k) \in Nat /\ i = id[c]
      BY <1>0, <3>1, QuantityAssumption DEF Phase, ReportsOf
    <3>3. Scripted(i, k, b)' /\ sent <= sent'
      BY <2>2, <3>1, <3>2 DEF Phase
    <3>4. sent' \in Nat
      BY GateSteps, NextMessages DEF Next, MessagesTyped
    <3>5. b \in 0 .. sent'
      BY <1>0, <3>1, <3>3, <3>4 DEF Phase
    <3>6. Handled' = Handled
      BY <1>0 DEF Handled
    <3>7. Traded(c, k, b)'
      BY <1>0, <3>1, <3>6 DEF Phase, Traded, Over
    <3>8. Phase(c, i, k, b)'
      BY <1>0, <2>1, <3>1, <3>3, <3>5, <3>7 DEF Phase
    <3> QED
      BY <3>8, PhaseExecuted
  <2>4. ASSUME c \notin placed PROVE Unplaced(c)'
    <3>1. PICK i : i = id[c]
      OBVIOUS
    <3>2. Quiet(i) /\ trades[c] = 0 /\ (c \in doneBuf \/ pc[c] = "collect" => Error[c] = "reject")
      BY <2>4, <3>1 DEF Claimed, Unplaced
    <3>3. 0 \in Nat /\ ReportsOf(0) \in Nat
      BY QuantityAssumption DEF ReportsOf
    <3>4. Quiet(i)'
      BY <2>2, <3>1, <3>2, <3>3
    <3> QED
      BY <1>0, <3>1, <3>2, <3>4 DEF Unplaced, Quiet, InHand
  <2>5. OffBook(c)' /\ (Whole(c) => Whole(c)')
    BY <1>0, <2>1 DEF Claimed, OffBook, Whole
  <2> QED
    BY <1>0, <2>1, <2>3, <2>4, <2>5 DEF Claimed
<1> QED
  BY <1>1, <1>2

LEMMA NextAlone ==
    /\ RegistrationInv /\ MessagesTyped /\ Numbered /\ Gapless /\ Answered /\ RestTyped /\ PostInv
    /\ AloneInv /\ [Next]_vars
    => AloneInv'
<1> SUFFICES ASSUME RegistrationInv, MessagesTyped, Numbered, Gapless, Answered, RestTyped, PostInv,
                    AloneInv, [Next]_vars
             PROVE  AloneInv'
  OBVIOUS
<1>1. UNCHANGED args /\ \A c \in Calls : pc[c] = "absent" <=> pc'[c] = "absent"
  <2>1. ASSUME NEW c \in Calls, CallStep(c) \/ Expire(c)
        PROVE  UNCHANGED args /\ \A d \in Calls : pc[d] = "absent" <=> pc'[d] = "absent"
    <3>1. PICK to \in CallStates \ {"absent"} : pc' = [pc EXCEPT ![c] = to] /\ pc[c] # "absent"
      BY <2>1, CallerEffect
    <3>2. UNCHANGED args
      BY <2>1, CallerEffect
    <3> QED
      BY <3>1, <3>2 DEF RegistrationInv, CallsTypeOK
  <2>2. CASE InputStep
    BY <2>2 DEF InputStep, Receive, ApplyReport, AnswerCanceled, SetReply, AppendTrade, Signal,
                AnswerReject
  <2>3. CASE GateStep \/ \E o \in Ids : GateFill(o)
    BY <2>3, GateSteps DEF GateEffect
  <2>4. CASE UNCHANGED vars
    BY <2>4 DEF vars
  <2> QED
    BY <2>1, <2>2, <2>3, <2>4 DEF Next
<1>2. ASSUME NEW c \in News, Alone(c)' PROVE Alone(c)
  BY <1>1, <1>2, CallKinds DEF Alone, OwnId, args
<1>3. fills' \in [News -> Nat]
  <2>1. CASE UNCHANGED fills
    BY <2>1 DEF AloneInv
  <2>2. CASE GateExecute
    <3>1. PICK k \in 0 .. Quantity : fills' = [fills EXCEPT ![Head(wire).call] = k]
      BY <2>2, ExecuteScript
    <3>2. k \in Nat
      BY QuantityAssumption
    <3> QED
      BY <3>1, <3>2 DEF AloneInv
  <2>3. CASE \E o \in Ids : GateFill(o)
    BY <2>3 DEF GateFill, AloneInv
  <2>4. ASSUME NEW c \in Calls, CallStep(c) \/ Expire(c) PROVE UNCHANGED fills
    BY <2>4, CallerEffect DEF gateVars
  <2> QED
    BY <2>1, <2>2, <2>3, <2>4
       DEF Next, InputStep, Receive, ApplyReport, AnswerCanceled, SetReply, AppendTrade, Signal,
           AnswerReject, GateStep, GateReject, GatePlace, GateCancel, GateReplace, gateVars, vars
<1>4. ASSUME NEW c \in News, Alone(c)' PROVE Claimed(c)'
  <2>1. Alone(c) /\ Claimed(c) /\ fills \in [News -> Nat]
    BY <1>2, <1>4 DEF AloneInv
  <2>2. ASSUME NEW e \in Calls, CallStep(e) \/ Expire(e) PROVE Claimed(c)'
    BY <2>1, <2>2, CallersKeepClaims
  <2>3. CASE InputStep
    BY <2>1, <2>3, InputKeepsClaims
  <2>4. CASE GateStep \/ \E o \in Ids : GateFill(o)
    BY <2>1, <2>4, GateKeepsClaims
  <2>5. CASE UNCHANGED vars
    <3>1. UNCHANGED <<args, book, pc, ret, placed, fills, sent, applied, input, reports, trades,
                      Reply, Error, doneBuf>>
      BY <2>5 DEF vars, callFields, gateVars
    <3>2. ASSUME c \in placed PROVE Executed(c)'
      <4>1. PICK i, k, b : Phase(c, i, k, b)
        BY <2>1, <3>2, ExecutionPhase DEF Claimed
      <4>2. Phase(c, i, k, b)'
        BY <3>1, <4>1 DEF Phase, Scripted, Traded, InHand, Handled, Over, args
      <4> QED
        BY <4>2, PhaseExecuted
    <3>3. c \notin placed => Unplaced(c)'
      BY <2>1, <3>1 DEF Claimed, Unplaced, Quiet, InHand, args
    <3>4. OffBook(c)' /\ (Whole(c) => Whole(c)')
      BY <2>1, <3>1 DEF Claimed, OffBook, Whole, args
    <3> QED
      BY <2>1, <3>1, <3>2, <3>3, <3>4 DEF Claimed
  <2> QED
    BY <2>2, <2>3, <2>4, <2>5 DEF Next
<1> QED
  BY <1>3, <1>4 DEF AloneInv

\* A NewOrder that waits for an IOC order to complete returns its last report and
\* every one of its trades (zmq-trader.go:439), whatever cancels, fills and orders of
\* others go on beside it: the trade is appended before the call is signaled, and the
\* caller reads the call only then.  Client order ids must not be used again, not even
\* for the order that a replace makes: a late report about the other order would be
\* taken for the call's own.
THEOREM CompletedIsWhole == IdsKept /\ Spec => []CompleteReply
<1> SUFFICES ASSUME IdsKept PROVE Spec => []CompleteReply
  OBVIOUS
<1> DEFINE Inv == /\ RegistrationInv /\ MessagesTyped /\ Numbered /\ Gapless /\ Answered
                  /\ RestTyped /\ PostInv /\ AloneInv
<1>1. Init => Inv
  BY InitRegistration, InitAnswered, InitGapless, InitRest, InitPost, InitAlone
<1>2. Inv /\ [Next]_vars => Inv'
  BY NextRegistration, NextMessages, NextNumbered, NextGapless, NextAnswered, NextRest, NextPost,
     NextAlone
<1>3. Inv => CompleteReply
  BY DEF AloneInv, CompleteReply, Succeeded, Alone, Claimed, Whole
<1> HIDE DEF Inv
<1> QED
  BY <1>1, <1>2, <1>3, PTL DEF Spec
=============================================================================
