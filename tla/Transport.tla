------------------------------ MODULE Transport ------------------------------
(***************************************************************************)
(* A zmqTrader's way to its gate and back: the requests that the push      *)
(* connection writes (zmq-push.go), the gate's answers, readMessages of    *)
(* the xsub connection (zmq-xsub.go), which turns them into payloads, and  *)
(* the reports channel to the input goroutine of zmq-trader.go.            *)
(*                                                                         *)
(* What becomes of a payload is the subject of SnapshotCalls and           *)
(* OrderCalls; that every message read sets the connection's flag, of      *)
(* GateReady.                                                              *)
(***************************************************************************)
EXTENDS OrderCodec

CONSTANTS
    Chars,         \* characters of client order ids
    Users,         \* user numbers
    Symbols, Prices,
    Requests,      \* the requests that callers make
    Reasons,       \* reject codes the gate uses
    MaxSends,      \* bound: requests made
    MaxMessages,   \* bound: messages the gate publishes
    ReportsCap     \* capacity of the reports channel, 1000 in the code

Arrays == [1 .. IdWidth -> Chars \cup {Nul}]
Texts == UNION {[1 .. n -> Chars] : n \in 0 .. IdWidth}

NumberTexts == [zeros : Nat, number : 0 .. MaxUint]

\* A request, whichever of the fields its kind has.
Request(r) ==
    /\ r.op \in {"new", "cancel", "replace"}
    /\ r.user \in Users
    /\ {r.id, r.cancelId} \subseteq {IdOf(t) : t \in Texts}
    /\ r.symbol \in Symbols
    /\ {r.price, r.stopPrice} \subseteq Prices \cup {NotGiven}
    /\ r.quantity \in NumberTexts
    /\ r.expireTime \in 0 .. MaxUint
    /\ r.postOnly \in BOOLEAN

\* The ids of requests come from ClientOrderIdStrToType; what a gate says of a quantity
\* that is no number is not known here.
ASSUME RequestsAssumption ==
    /\ Nul \notin Chars
    /\ \A r \in Requests : Request(r)
ASSUME BoundsAssumption ==
    /\ MaxSends \in Nat
    /\ MaxMessages \in Nat
    /\ ReportsCap \in Nat \ {0}

VARIABLES
    sends,      \* history: the requests made, and whether the send succeeded
    toGate,     \* messages in the push socket
    received,   \* requests the gate has got
    published,  \* history: number of messages the gate has published
    feed,       \* messages in the xsub socket
    held,       \* the payload readMessages is about to put into reports, if any
    reports,    \* the channel
    handling,   \* what input has taken last, if anything
    crashed     \* a conversion has panicked

senderVars == <<sends, toGate>>
gateVars == <<received, published>>
readerVars == <<held, reports, crashed>>
vars == <<senderVars, gateVars, feed, readerVars, handling>>

Init ==
    /\ sends = <<>>
    /\ toGate = <<>>
    /\ received = {}
    /\ published = 0
    /\ feed = <<>>
    /\ held = <<>>
    /\ reports = <<>>
    /\ handling = <<>>
    /\ crashed = FALSE

-----------------------------------------------------------------------------
(* The push connection.                                                      *)

\* Send*: a request that cannot be written, or that the socket does not take
\* (DONTWAIT, no connection), comes back as an error.
Send(r) ==
    /\ Len(sends) < MaxSends
    /\ \/ /\ Marshals(r)
          /\ sends' = Append(sends, [request |-> r, sent |-> TRUE])
          /\ toGate' = Append(toGate, RequestText(r))
       \/ /\ sends' = Append(sends, [request |-> r, sent |-> FALSE])
          /\ UNCHANGED toGate
    /\ UNCHANGED <<gateVars, feed, readerVars, handling>>

-----------------------------------------------------------------------------
(* The gate.                                                                 *)

GateReceive ==
    /\ toGate # <<>>
    /\ received' = received \cup {Head(toGate)}
    /\ toGate' = Tail(toGate)
    /\ UNCHANGED <<sends, published, feed, readerVars, handling>>

\* The gate's text of the order a request asks for, with the number that the quantity
\* is.  A replace does not say whether the order is PostOnly.
GateOrder(q, postOnly, status, number) ==
    [id |-> IF q.op = "replace" THEN q.cancelId ELSE q.id, status |-> status,
     side |-> q.side, type |-> q.type, tif |-> q.tif, postOnly |-> postOnly,
     symbol |-> q.symbol, price |-> q.price, quantity |-> q.quantity.number,
     orderId |-> number, latestId |-> number]

Report(q, type, order, reason) ==
    [kind |-> "ExecutionReport", user |-> q.user,
     body |-> [type |-> type, userId |-> q.user, order |-> order,
               original |-> IF q.op = "replace" THEN q.id ELSE <<>>, reason |-> reason,
               tradeId |-> IF type = "trade" THEN 1 ELSE 0]]

\* A refusal; the user is not always named in it.
GateRefusal(q, kind, userId, reason) ==
    [kind |-> kind, user |-> q.user,
     body |-> [userId |-> userId, id |-> q.id, cancelId |-> q.cancelId, reason |-> reason]]

Refusals(q, kind) ==
    {GateRefusal(q, kind, u, reason) : u \in {q.user, <<>>}, reason \in Reasons}

\* Only an order that was rejected has no number.
OrderReports(q) ==
    LET order(status) == GateOrder(q, q.postOnly, status, 1) IN
    {Report(q, "new", order("new"), ""), Report(q, "suspended", order("suspended"), ""),
     Report(q, "trade", order("partiallyFilled"), ""), Report(q, "trade", order("filled"), ""),
     Report(q, "canceled", order("canceled"), ""), Report(q, "expired", order("expired"), ""),
     Report(q, "status", order("new"), "")}
    \cup {Report(q, "rejected", GateOrder(q, q.postOnly, "rejected", NotANumber), reason) :
             reason \in Reasons}

Replaced(q) == {Report(q, "replaced", GateOrder(q, kept, "new", 1), "") : kept \in BOOLEAN}

\* What the gate may say of a request, and of an order that came of it.
Answers(q) ==
    CASE q.op = "new" -> OrderReports(q)
      [] q.op = "cancel" -> Refusals(q, "CancelReject")
      [] q.op = "replace" ->
            Replaced(q) \cup Refusals(q, "CancelReplaceReject")

Snapshot(user, Q) ==
    [kind |-> "Snapshot", user |-> user,
     body |-> [userId |-> user, orders |-> {GateOrder(q, q.postOnly, "new", 1) : q \in Q}]]

\* Reports that cannot be read: of a status the package does not know, and of a quantity
\* that is no uint64.
Unreadable(q) ==
    {Report(q, "new", GateOrder(q, q.postOnly, "delayed", 1), ""),
     Report(q, "new", [GateOrder(q, q.postOnly, "new", 1) EXCEPT !.quantity = -1], "")}

\* Messages nobody asked for.
Unsolicited ==
    {[kind |-> "Heartbeat", user |-> <<>>, body |-> <<>>],
     [kind |-> "SubscriptionReply", user |-> <<>>, body |-> <<>>]}
    \cup {Snapshot(u, {q \in received : q.op = "new" /\ q.user = u}) :
             u \in {q.user : q \in received}}
    \cup UNION {Unreadable(q) : q \in {p \in received : p.op = "new"}}

GatePublish ==
    /\ published < MaxMessages
    /\ published' = published + 1
    /\ \E m \in Unsolicited \cup UNION {Answers(q) : q \in received} : feed' = Append(feed, m)
    /\ UNCHANGED <<senderVars, received, readerVars, handling>>

-----------------------------------------------------------------------------
(* readMessages.                                                             *)

\* json.Unmarshal of a whole message.
Unmarshals(m) ==
    CASE m.kind = "Snapshot" -> \A o \in m.body.orders : OrderUnmarshals(o)
      [] m.kind = "ExecutionReport" ->
            /\ OrderUnmarshals(m.body.order)
            /\ m.body.type \in DOMAIN ReportTypeOf
            /\ m.body.original # <<>> => IdUnmarshals(m.body.original)
      [] m.kind \in {"CancelReject", "CancelReplaceReject"} ->
            IdUnmarshals(m.body.id) /\ IdUnmarshals(m.body.cancelId)
      [] OTHER -> FALSE

\* The conversions of what was unmarshalled that panic: an order without a
\* number, unless the report is a reject, and an absent user.
Rejects(m) == m.kind = "ExecutionReport" /\ ReportTypeOf[m.body.type] = "Rejected"
Panics(m) ==
    \/ m.kind = "Snapshot" /\ \E o \in m.body.orders : ~OrderConverts(o)
    \/ m.kind = "ExecutionReport" /\ ~Rejects(m) /\ ~OrderConverts(m.body.order)
    \/ m.kind \in {"Snapshot", "ExecutionReport"} /\ m.body.userId = <<>>

\* A refusal that names no user is for the user of the topic.
Addressee(m) == UserOf(IF m.body.userId = <<>> THEN m.user ELSE m.body.userId)

\* Mutant: the ids of the two requests are mixed up.
MutantRefusal(m) ==
    [kind |-> "reject", user |-> Addressee(m), id |-> IdOf(m.body.cancelId),
     cancelId |-> IdOf(m.body.id), reason |-> m.body.reason]

Refusal(m) ==
    [kind |-> "reject", user |-> Addressee(m), id |-> IdOf(m.body.id),
     cancelId |-> IdOf(m.body.cancelId), reason |-> m.body.reason]

ModelsOf(orders) == {OrderModel(o) : o \in orders}

Payload(m) ==
    CASE m.kind = "Snapshot" ->
            [kind |-> "snapshot", user |-> UserOf(m.body.userId),
             orders |-> ModelsOf(m.body.orders)]
      [] m.kind = "ExecutionReport" /\ ~Rejects(m) ->
            [kind |-> "report", user |-> UserOf(m.body.userId), report |-> OrderReport(m.body)]
      [] Rejects(m) ->
            [kind |-> "reject", user |-> UserOf(m.body.userId), id |-> IdOf(m.body.order.id),
             cancelId |-> EmptyId, reason |-> m.body.reason]
      [] OTHER -> Refusal(m)

\* What a message says to the trader: nothing if it is a heartbeat, a reply to
\* a subscription, or cannot be unmarshalled.
Entry(m) == IF Unmarshals(m) THEN <<Payload(m)>> ELSE <<>>

Read ==
    /\ feed # <<>>
    /\ held = <<>>
    /\ feed' = Tail(feed)
    /\ IF Unmarshals(Head(feed)) /\ Panics(Head(feed))
       THEN crashed' = TRUE /\ UNCHANGED held
       ELSE held' = Entry(Head(feed)) /\ UNCHANGED crashed
    /\ UNCHANGED <<senderVars, gateVars, reports, handling>>

\* Mutant: a full channel drops what comes, as the ready channels do.
MutantDroppingPut ==
    /\ held # <<>>
    /\ reports' = IF Len(reports) < ReportsCap THEN reports \o held ELSE reports
    /\ held' = <<>>
    /\ UNCHANGED <<senderVars, gateVars, feed, crashed, handling>>

\* The send into the channel waits for a free place.
Put ==
    /\ held # <<>>
    /\ Len(reports) < ReportsCap
    /\ reports' = reports \o held
    /\ held' = <<>>
    /\ UNCHANGED <<senderVars, gateVars, feed, crashed, handling>>

\* input takes the next report.
Input ==
    /\ reports # <<>>
    /\ handling' = <<Head(reports)>>
    /\ reports' = Tail(reports)
    /\ UNCHANGED <<senderVars, gateVars, feed, held, crashed>>

-----------------------------------------------------------------------------
Next ==
    /\ ~crashed
    /\ \/ \E r \in Requests : Send(r)
       \/ GateReceive \/ GatePublish
       \/ Read \/ Put
       \/ Input

Spec == Init /\ [][Next]_vars

\* The goroutines of the trader run; nobody has to make a request, and the
\* gate has to say nothing.
FairSpec ==
    /\ Spec
    /\ WF_vars(~crashed /\ (Read \/ Put))
    /\ WF_vars(~crashed /\ Input)

-----------------------------------------------------------------------------
(* Properties.                                                               *)

UserTexts == {UserText(u) : u \in Users}

SideTexts == {SideText[x] : x \in DOMAIN SideText}
TypeTexts == {TypeText[x] : x \in DOMAIN TypeText}
TimeInForceTexts == {TimeInForceText[x] : x \in DOMAIN TimeInForceText}
PriceTexts == Prices \cup {NotGiven}

RequestTexts ==
    [op : {"new"}, user : UserTexts, id : Seq(Chars), type : TypeTexts, side : SideTexts,
     tif : TimeInForceTexts, postOnly : BOOLEAN, symbol : Symbols, quantity : NumberTexts,
     price : PriceTexts, stopPrice : PriceTexts, expireTime : NumberTexts]
    \cup [op : {"cancel"}, user : UserTexts, id : Seq(Chars), cancelId : Seq(Chars),
          symbol : Symbols, side : SideTexts]
    \cup [op : {"replace"}, user : UserTexts, id : Seq(Chars), cancelId : Seq(Chars),
          symbol : Symbols, side : SideTexts, type : TypeTexts, tif : TimeInForceTexts,
          quantity : NumberTexts, price : PriceTexts]

OrderModels ==
    [id : Arrays, status : DOMAIN StatusText, side : DOMAIN SideText, type : DOMAIN TypeText,
     tif : DOMAIN TimeInForceText, postOnly : BOOLEAN, symbol : Symbols, price : PriceTexts,
     quantity : NumberTexts, stopPrice : {NotGiven}, expireTime : {0},
     averagePrice : {NotGiven}, orderId : Nat]

ReportModels ==
    [order : OrderModels, type : DOMAIN ReportTypeText, original : Arrays, tradeId : Nat]

Payloads ==
    [kind : {"snapshot"}, user : Users, orders : SUBSET OrderModels]
    \cup [kind : {"report"}, user : Users, report : ReportModels]
    \cup [kind : {"reject"}, user : Users, id : Arrays, cancelId : Arrays, reason : Reasons]

TypeOK ==
    /\ sends \in Seq([request : Requests, sent : BOOLEAN])
    /\ Len(sends) <= MaxSends
    /\ toGate \in Seq(RequestTexts)
    /\ received \subseteq RequestTexts
    /\ published \in 0 .. MaxMessages
    /\ Len(feed) <= published
    /\ held \in Seq(Payloads) /\ Len(held) <= 1
    /\ reports \in Seq(Payloads) /\ Len(reports) <= ReportsCap
    /\ handling \in Seq(Payloads) /\ Len(handling) <= 1
    /\ crashed \in BOOLEAN

\* The requests that went out without an error.
Sent == {s.request : s \in {sends[i] : i \in DOMAIN sends} \cap [request : Requests, sent : {TRUE}]}

\* Is order model m the order that request r asks for, as far as messages tell?  The
\* quantity is the same number; of the stop price and the expire time nothing comes
\* back, and of PostOnly a replace says nothing.
AsRequested(m, r) ==
    /\ r.op \in {"new", "replace"}
    /\ m.id = IF r.op = "replace" THEN r.cancelId ELSE r.id
    /\ <<m.side, m.type, m.tif, m.symbol, m.price>> =
          <<r.side, r.type, r.tif, r.symbol, r.price>>
    /\ m.quantity = FormatUint(r.quantity.number)
    /\ r.op = "new" => m.postOnly = r.postOnly

\* The orders a trader is told of, in reports and in snapshots, are those its users
\* asked for, by id, side, type, time in force, symbol, price, the number of the
\* quantity and, but for replacements, PostOnly; and a replacement names the order it
\* replaces.  So far writing a request (MarshalJSON) and reading the gate's echo of it
\* (UnmarshalJSON, CreateOrderModel) cancel out.
OrdersAsRequested ==
    \A p \in {held[i] : i \in DOMAIN held} :
        /\ p.kind = "report" =>
              \E r \in Sent :
                  /\ r.user = p.user
                  /\ AsRequested(p.report.order, r)
                  /\ p.report.original = IF r.op = "replace" THEN r.id ELSE EmptyId
        /\ p.kind = "snapshot" =>
              \A m \in p.orders : \E r \in Sent : r.user = p.user /\ AsRequested(m, r)

\* A refusal comes back under the user and the ids of the request it refuses,
\* which is where handleRejectPayload looks for the call, also when the gate
\* leaves the user out; under other ids the call would wait for its deadline.
\* The error the call then gets has the text of the gate's reason, or is the
\* one for all other reasons.
RefusalsFindTheirCall ==
    \A p \in {held[i] : i \in DOMAIN held} :
        p.kind = "reject" =>
            \E r \in Sent :
                /\ r.user = p.user
                /\ r.id = p.id
                /\ p.cancelId = IF r.op = "new" THEN EmptyId ELSE r.cancelId
                /\ ErrorText[getErrorByReject(p.reason)] \in {p.reason, "unknown"}

\* No answer to a request is lost for want of understanding, and none brings
\* the reader down, a reject without an order number included.
AnswersUnderstood ==
    /\ ~crashed
    /\ \A m \in {feed[i] : i \in DOMAIN feed} \cap UNION {Answers(q) : q \in received} :
          Unmarshals(m)

\* What waits for the input goroutine: in the channel, at the reader, and in
\* the socket.
Waiting ==
    [i \in DOMAIN reports |-> <<reports[i]>>] \o [i \in DOMAIN held |-> <<held[i]>>]
    \o [i \in DOMAIN feed |-> Entry(feed[i])]

F == INSTANCE Feed WITH waiting <- Waiting

\* What is handed over, and in which order.
FeedSafe == F!FeedSafety

\* Socket, reader and bounded channel together are one queue without a bound:
\* input takes every payload once and in the order of publication, and a full
\* channel or a message that cannot be read holds nothing up for ever.
ImplementsFeed == F!FeedSpec

\* A trade that the gate numbers keeps its number
\* (zmq-trader_internal_test.go:860: `assert.Equal(t, uint64(1123), trades[0].ID)').
TradesKeepNumbers ==
    \A p \in {held[i] : i \in DOMAIN held} :
        p.kind = "report" /\ p.report.type = "Trade" => p.report.tradeId # 0
=============================================================================
