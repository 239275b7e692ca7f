--------------------------- MODULE TransportProofs ---------------------------
(***************************************************************************)
(* For any requests, ids, users and reasons: what the conversions write,   *)
(* they read again; so a trader is told of the orders it asked for, its    *)
(* refusals find their calls, and no answer is lost; and the way of the    *)
(* answers implements the safety of Feed.                                  *)
(***************************************************************************)
EXTENDS Transport, TLAPS

\* The tables of String and MarshalJSON on the one side and of UnmarshalJSON on
\* the other are inverse to one another.
LEMMA TablesAgree ==
    /\ \A x \in DOMAIN SideText : SideText[x] \in DOMAIN SideOf /\ SideOf[SideText[x]] = x
    /\ \A x \in DOMAIN TypeText : TypeText[x] \in DOMAIN TypeOf /\ TypeOf[TypeText[x]] = x
    /\ \A x \in DOMAIN TimeInForceText :
          TimeInForceText[x] \in DOMAIN TimeInForceOf /\ TimeInForceOf[TimeInForceText[x]] = x
  BY DEF SideText, SideOf, TypeText, TypeOf, TimeInForceText, TimeInForceOf

LEMMA ErrorsAgree ==
    ASSUME NEW code
    PROVE  ErrorText[getErrorByReject(code)] \in {code, "unknown"}
  BY DEF ErrorOf, ErrorText, getErrorByReject

LEMMA TextShape == ASSUME NEW t \in Texts PROVE t \in Seq(Chars) /\ Len(t) \in 0 .. IdWidth
<1>1. PICK n \in 0 .. IdWidth : t \in [1 .. n -> Chars]
  BY DEF Texts
<1> QED
  BY <1>1, IdWidthAssumption

\* An id that was made of a text is written as that text, and read as that id.
LEMMA IdRoundTrip ==
    ASSUME NEW t \in Texts
    PROVE  /\ IdLength(IdOf(t)) = Len(t)
           /\ IdText(IdOf(t)) = t
<1> DEFINE co == IdOf(t)
<1>1. t \in Seq(Chars) /\ Len(t) \in 0 .. IdWidth /\ IdWidth \in Nat
  BY TextShape, IdWidthAssumption
<1>2. \A i \in 1 .. IdWidth : co[i] = IF i <= Len(t) THEN t[i] ELSE Nul
  BY DEF IdOf
<1>3. \A i \in 1 .. Len(t) : co[i] = t[i] /\ co[i] # Nul
  BY <1>1, <1>2, RequestsAssumption
<1>4. Len(t) < IdWidth => co[Len(t) + 1] = Nul
  BY <1>1, <1>2
<1>5. ASSUME NEW n \in 0 .. IdWidth, \A i \in 1 .. n : co[i] # Nul, n < IdWidth => co[n + 1] = Nul
      PROVE  n = Len(t)
  <2>1. CASE n < Len(t)
    BY <1>1, <1>3, <1>5, <2>1
  <2>2. CASE Len(t) < n
    BY <1>1, <1>4, <1>5, <2>2
  <2> QED
    BY <1>1, <2>1, <2>2
<1>6. IdLength(co) = Len(t)
  BY <1>1, <1>3, <1>4, <1>5 DEF IdLength
<1>7. IdText(co) = t
  <2>1. SubSeq(co, 1, Len(t)) = t
    <3>1. co \in [1 .. IdWidth -> Chars \cup {Nul}]
      BY <1>1, <1>2 DEF IdOf
    <3>2. co \in Seq(Chars \cup {Nul}) /\ Len(co) = IdWidth
      BY <1>1, <3>1
    <3> HIDE DEF co
    <3>3. /\ SubSeq(co, 1, Len(t)) \in Seq(Chars \cup {Nul})
          /\ Len(SubSeq(co, 1, Len(t))) = Len(t)
          /\ \A i \in 1 .. Len(t) : SubSeq(co, 1, Len(t))[i] = co[i]
      BY <1>1, <3>2
    <3> QED
      BY <1>1, <1>3, <3>3
  <2> QED
    BY <1>6, <2>1 DEF IdText
<1> QED
  BY <1>6, <1>7

LEMMA MarshalledId ==
    ASSUME NEW t \in Texts, IdMarshals(IdOf(t))
    PROVE  /\ IdUnmarshals(IdText(IdOf(t)))
           /\ IdOf(IdText(IdOf(t))) = IdOf(t)
<1>1. IdLength(IdOf(t)) = Len(t) /\ IdText(IdOf(t)) = t /\ Len(t) \in 0 .. IdWidth
  BY IdRoundTrip, TextShape
<1> QED
  BY <1>1, IdWidthAssumption DEF IdMarshals, IdUnmarshals

-----------------------------------------------------------------------------
(* What the trader makes of the gate's answers to a request.                 *)

\* A request that was made and written, and its text.
Asks(r, q) == r \in Sent /\ Marshals(r) /\ q = RequestText(r)

\* What the properties ask of a payload.
Fine(p) ==
    /\ p.kind = "report" =>
          \E r \in Sent :
              /\ r.user = p.user
              /\ AsRequested(p.report.order, r)
              /\ p.report.original = IF r.op = "replace" THEN r.id ELSE EmptyId
    /\ p.kind = "snapshot" =>
          \A o \in p.orders : \E r \in Sent : r.user = p.user /\ AsRequested(o, r)
    /\ p.kind = "reject" =>
          /\ \E r \in Sent :
                /\ r.user = p.user
                /\ r.id = p.id
                /\ p.cancelId = IF r.op = "new" THEN EmptyId ELSE r.cancelId
          /\ ErrorText[getErrorByReject(p.reason)] \in {p.reason, "unknown"}

\* A message that is understood, and says what is so.
Reads(m) == Unmarshals(m) /\ ~Panics(m) /\ Fine(Payload(m))

LEMMA SentAreRequests == Sent \subseteq Requests
  BY DEF Sent

\* The fields of a request's text.
LEMMA TextFields ==
    ASSUME NEW r, r.op \in {"new", "cancel", "replace"}
    PROVE  LET q == RequestText(r) IN
               /\ q.op = r.op /\ q.user = UserText(r.user) /\ q.id = IdText(r.id)
               /\ r.op # "new" => q.cancelId = IdText(r.cancelId)
               /\ r.op # "cancel" =>
                     /\ q.type = TypeText[r.type] /\ q.side = SideText[r.side]
                     /\ q.tif = TimeInForceText[r.tif] /\ q.symbol = r.symbol
                     /\ q.quantity = r.quantity /\ q.price = r.price
               /\ r.op = "new" => q.postOnly = r.postOnly
<1>1. CASE r.op = "new"
  BY <1>1 DEF RequestText
<1>2. CASE r.op = "cancel"
  BY <1>2 DEF RequestText
<1>3. CASE r.op = "replace"
  BY <1>3 DEF RequestText
<1> QED
  BY <1>1, <1>2, <1>3

LEMMA RequestOps == ASSUME NEW r \in Requests PROVE r.op \in {"new", "cancel", "replace"}
  BY RequestsAssumption DEF Request

\* The ids in a request's text.
LEMMA TextIds ==
    ASSUME NEW r \in Requests, Marshals(r)
    PROVE  /\ IdUnmarshals(RequestText(r).id)
           /\ IdOf(RequestText(r).id) = r.id
           /\ r.op # "new" => /\ IdUnmarshals(RequestText(r).cancelId)
                              /\ IdOf(RequestText(r).cancelId) = r.cancelId
<1>1. PICK t \in Texts, s \in Texts : r.id = IdOf(t) /\ r.cancelId = IdOf(s)
  BY RequestsAssumption DEF Request
<1>2. RequestText(r).id = IdText(r.id) /\ IdMarshals(r.id)
  BY RequestOps, TextFields DEF Marshals
<1>3. r.op # "new" => RequestText(r).cancelId = IdText(r.cancelId) /\ IdMarshals(r.cancelId)
  BY RequestOps, TextFields DEF Marshals
<1> QED
  BY <1>1, <1>2, <1>3, MarshalledId

\* The gate's text of an order, read: what its request asked for.
LEMMA OrderReads ==
    ASSUME NEW r \in Requests, Marshals(r), r.op \in {"new", "replace"},
           NEW status \in DOMAIN StatusOf, NEW postOnly, r.op = "new" => postOnly = r.postOnly
    PROVE  LET o == GateOrder(RequestText(r), postOnly, status, 1) IN
               /\ OrderUnmarshals(o)
               /\ OrderConverts(o)
               /\ AsRequested(OrderModel(o), r)
<1> DEFINE q == RequestText(r)
           o == GateOrder(q, postOnly, status, 1)
<1>1. /\ q.op = r.op /\ q.symbol = r.symbol /\ q.price = r.price /\ q.quantity = r.quantity
      /\ q.side = SideText[r.side] /\ q.type = TypeText[r.type] /\ q.tif = TimeInForceText[r.tif]
  BY TextFields
<1>2. /\ o.id = IF r.op = "replace" THEN q.cancelId ELSE q.id
      /\ o.status = status /\ o.side = q.side /\ o.type = q.type /\ o.tif = q.tif
      /\ o.symbol = q.symbol /\ o.price = q.price /\ o.quantity = q.quantity.number
      /\ o.postOnly = postOnly /\ o.orderId = 1 /\ o.latestId = 1
  BY <1>1 DEF GateOrder
<1>3. /\ r.side \in DOMAIN SideText
      /\ r.type \in DOMAIN TypeText /\ r.tif \in DOMAIN TimeInForceText
  BY DEF Marshals
<1>4. /\ o.side \in DOMAIN SideOf /\ SideOf[o.side] = r.side
      /\ o.type \in DOMAIN TypeOf /\ TypeOf[o.type] = r.type
      /\ o.tif \in DOMAIN TimeInForceOf /\ TimeInForceOf[o.tif] = r.tif
  BY <1>1, <1>2, <1>3, TablesAgree
<1>5. /\ IdUnmarshals(o.id)
      /\ IdOf(o.id) = IF r.op = "replace" THEN r.cancelId ELSE r.id
  BY <1>2, TextIds
<1>q. o.quantity \in 0 .. MaxUint
  BY <1>1, <1>2, RequestsAssumption DEF Request, NumberTexts
<1> HIDE DEF o, q
<1>6. OrderUnmarshals(o)
  BY <1>2, <1>4, <1>5, <1>q DEF OrderUnmarshals
<1>7. OrderConverts(o)
  BY <1>2 DEF OrderConverts, NotANumber
<1>8. /\ OrderModel(o).id = IdOf(o.id) /\ OrderModel(o).side = SideOf[o.side]
      /\ OrderModel(o).type = TypeOf[o.type] /\ OrderModel(o).tif = TimeInForceOf[o.tif]
      /\ OrderModel(o).symbol = o.symbol /\ OrderModel(o).price = o.price
      /\ OrderModel(o).quantity = FormatUint(o.quantity)
      /\ OrderModel(o).postOnly = o.postOnly
  BY DEF OrderModel
<1>9. AsRequested(OrderModel(o), r)
  BY <1>1, <1>2, <1>4, <1>5, <1>8 DEF AsRequested
<1> QED
  BY <1>6, <1>7, <1>9 DEF o, q

LEMMA UserReads == ASSUME NEW u PROVE UserOf(UserText(u)) = u /\ UserText(u) # <<>>
  BY DEF UserOf, UserText

\* A report that is no reject.
LEMMA ReportReads ==
    ASSUME NEW r, NEW q, Asks(r, q),
           NEW type \in DOMAIN ReportTypeOf, type # "rejected",
           NEW order, OrderUnmarshals(order), OrderConverts(order),
           AsRequested(OrderModel(order), r), NEW reason,
           \/ r.op = "new" /\ type # "replaced"
           \/ r.op = "replace" /\ type = "replaced"
    PROVE  Reads(Report(q, type, order, reason))
<1> DEFINE m == Report(q, type, order, reason)
<1>1. r \in Requests /\ Marshals(r) /\ q = RequestText(r) /\ r \in Sent
  BY SentAreRequests DEF Asks
<1>2. q.op = r.op /\ q.user = UserText(r.user)
  BY <1>1, RequestOps, TextFields
<1>3. /\ m.kind = "ExecutionReport" /\ m.body.type = type /\ m.body.userId = q.user
      /\ m.body.order = order
      /\ m.body.original = IF r.op = "replace" THEN q.id ELSE <<>>
  BY <1>2 DEF Report
<1>4. /\ OrderUnmarshals(m.body.order) /\ OrderConverts(m.body.order)
      /\ AsRequested(OrderModel(m.body.order), r)
  BY <1>3
<1>5. IdUnmarshals(q.id) /\ IdOf(q.id) = r.id
  BY <1>1, TextIds
<1>6. /\ ReportTypeOf[type] # "Rejected"
      /\ ReportTypeOf[type] = "Replaced" <=> type = "replaced"
  BY DEF ReportTypeOf
<1> HIDE DEF m
<1>7. Unmarshals(m)
  BY <1>3, <1>4, <1>5 DEF Unmarshals
<1>8. ~Rejects(m) /\ ~Panics(m)
  BY <1>2, <1>3, <1>4, <1>6, UserReads DEF Panics, Rejects
<1>9. Payload(m) = [kind |-> "report", user |-> UserOf(m.body.userId), report |-> OrderReport(m.body)]
  BY <1>3, <1>8 DEF Payload
<1>10. /\ Payload(m).kind = "report" /\ Payload(m).user = r.user
       /\ Payload(m).report.order = OrderModel(m.body.order)
       /\ Payload(m).report.original =
              IF ReportTypeOf[type] = "Replaced" THEN IdOf(m.body.original) ELSE EmptyId
  BY <1>2, <1>3, <1>9, UserReads DEF OrderReport
<1>11. Payload(m).report.original = IF r.op = "replace" THEN r.id ELSE EmptyId
  BY <1>3, <1>5, <1>6, <1>10
<1>12. Fine(Payload(m))
  BY <1>1, <1>4, <1>10, <1>11 DEF Fine
<1> QED
  BY <1>7, <1>8, <1>12 DEF Reads, m

\* The report of an order that was rejected; it need not have a number.
LEMMA RejectReads ==
    ASSUME NEW r, NEW q, Asks(r, q), r.op = "new", NEW reason
    PROVE  Reads(Report(q, "rejected", GateOrder(q, q.postOnly, "rejected", NotANumber), reason))
<1> DEFINE order == GateOrder(q, q.postOnly, "rejected", NotANumber)
           m == Report(q, "rejected", order, reason)
<1>1. r \in Requests /\ Marshals(r) /\ q = RequestText(r) /\ r \in Sent
  BY SentAreRequests DEF Asks
<1>2. q.op = r.op /\ q.user = UserText(r.user) /\ q.postOnly = r.postOnly
  BY <1>1, RequestOps, TextFields
<1>3. /\ m.kind = "ExecutionReport" /\ m.body.type = "rejected" /\ m.body.userId = q.user
      /\ m.body.order = order
      /\ m.body.original = <<>> /\ m.body.reason = reason
  BY <1>2 DEF Report
<1>4. "rejected" \in DOMAIN StatusOf /\ "rejected" \in DOMAIN ReportTypeOf
      /\ ReportTypeOf["rejected"] = "Rejected"
  BY DEF StatusOf, ReportTypeOf
<1>5. OrderUnmarshals(GateOrder(q, q.postOnly, "rejected", 1))
  BY <1>1, <1>2, <1>4, OrderReads
<1>6. OrderUnmarshals(m.body.order) /\ m.body.order.id = q.id
  BY <1>2, <1>3, <1>5 DEF OrderUnmarshals, GateOrder
<1>7. IdOf(q.id) = r.id
  BY <1>1, TextIds
<1> HIDE DEF m
<1>8. Unmarshals(m)
  BY <1>3, <1>4, <1>6 DEF Unmarshals
<1>9. Rejects(m) /\ ~Panics(m)
  BY <1>2, <1>3, <1>4, UserReads DEF Panics, Rejects
<1>10. Payload(m) = [kind |-> "reject", user |-> UserOf(m.body.userId),
                     id |-> IdOf(m.body.order.id), cancelId |-> EmptyId, reason |-> m.body.reason]
  BY <1>3, <1>9 DEF Payload
<1>11. Payload(m) = [kind |-> "reject", user |-> r.user, id |-> r.id, cancelId |-> EmptyId,
                     reason |-> reason]
  BY <1>2, <1>3, <1>6, <1>7, <1>10, UserReads
<1>12. Fine(Payload(m))
  BY <1>1, <1>11, ErrorsAgree DEF Fine
<1> QED
  BY <1>8, <1>9, <1>12 DEF Reads, m

\* A refusal of a cancel or a replace, with or without the user.
LEMMA RefusalReads ==
    ASSUME NEW r, NEW q, Asks(r, q), r.op \in {"cancel", "replace"},
           NEW kind \in {"CancelReject", "CancelReplaceReject"},
           NEW user \in {q.user, <<>>}, NEW reason
    PROVE  Reads(GateRefusal(q, kind, user, reason))
<1> DEFINE m == GateRefusal(q, kind, user, reason)
<1>1. r \in Requests /\ Marshals(r) /\ q = RequestText(r) /\ r \in Sent
  BY SentAreRequests DEF Asks
<1>2. q.user = UserText(r.user)
  BY <1>1, RequestOps, TextFields
<1>3. /\ m.kind = kind /\ m.user = q.user /\ m.body.userId = user
      /\ m.body.id = q.id /\ m.body.cancelId = q.cancelId /\ m.body.reason = reason
  BY DEF GateRefusal
<1>4. /\ IdUnmarshals(q.id) /\ IdOf(q.id) = r.id
      /\ IdUnmarshals(q.cancelId) /\ IdOf(q.cancelId) = r.cancelId
  BY <1>1, TextIds
<1> HIDE DEF m
<1>5. Unmarshals(m)
  BY <1>3, <1>4 DEF Unmarshals
<1>6. ~Rejects(m) /\ ~Panics(m)
  BY <1>3 DEF Panics, Rejects
<1>7. Payload(m) = Refusal(m)
  BY <1>3, <1>6 DEF Payload
<1>8. Addressee(m) = r.user
  BY <1>2, <1>3, UserReads DEF Addressee
<1>9. Payload(m) = [kind |-> "reject", user |-> r.user, id |-> r.id, cancelId |-> r.cancelId,
                    reason |-> reason]
  BY <1>3, <1>4, <1>7, <1>8 DEF Refusal
<1>10. Fine(Payload(m))
  BY <1>1, <1>9, ErrorsAgree DEF Fine
<1> QED
  BY <1>5, <1>6, <1>10 DEF Reads, m

LEMMA AnswerReads ==
    ASSUME NEW r, NEW q, Asks(r, q), NEW m \in Answers(q)
    PROVE  Reads(m)
<1>1. q.op = r.op /\ r.op \in {"new", "cancel", "replace"}
  BY SentAreRequests, RequestOps, TextFields DEF Asks
<1>0. r \in Requests /\ Marshals(r) /\ q = RequestText(r)
  BY SentAreRequests DEF Asks
<1>2. /\ {"new", "suspended", "partiallyFilled", "filled", "canceled", "expired"}
             \subseteq DOMAIN StatusOf
      /\ {"new", "suspended", "trade", "canceled", "expired", "status", "replaced"}
             \subseteq DOMAIN ReportTypeOf
  BY DEF StatusOf, ReportTypeOf
<1>3. ASSUME NEW kind \in {"CancelReject", "CancelReplaceReject"}, NEW x \in Refusals(q, kind),
             r.op \in {"cancel", "replace"}
      PROVE  Reads(x)
  <2>1. PICK user \in {q.user, <<>>}, reason \in Reasons : x = GateRefusal(q, kind, user, reason)
    BY <1>3 DEF Refusals
  <2> QED
    BY <1>3, <2>1, RefusalReads
<1>4. CASE r.op = "new"
  <2>1. m \in OrderReports(q)
    BY <1>1, <1>4 DEF Answers
  <2>2. ASSUME NEW type \in {"new", "suspended", "trade", "canceled", "expired", "status"},
               NEW status \in {"new", "suspended", "partiallyFilled", "filled", "canceled",
                               "expired"}
        PROVE  Reads(Report(q, type, GateOrder(q, q.postOnly, status, 1), ""))
    <3>1. q.postOnly = r.postOnly
      BY <1>0, <1>4, RequestOps, TextFields
    <3>2. LET o == GateOrder(q, q.postOnly, status, 1) IN
             OrderUnmarshals(o) /\ OrderConverts(o) /\ AsRequested(OrderModel(o), r)
      BY <1>0, <1>2, <1>4, <3>1, OrderReads
    <3>3. type \in DOMAIN ReportTypeOf /\ type \notin {"rejected", "replaced"}
      BY <1>2
    <3> QED
      BY <1>4, <3>2, <3>3, ReportReads
  <2>3. ASSUME NEW reason
        PROVE  Reads(Report(q, "rejected", GateOrder(q, q.postOnly, "rejected", NotANumber), reason))
    BY <1>4, RejectReads
  <2> QED
    BY <2>1, <2>2, <2>3 DEF OrderReports
<1>5. CASE r.op = "cancel"
  <2>1. m \in Refusals(q, "CancelReject")
    BY <1>1, <1>5 DEF Answers
  <2> QED
    BY <1>3, <1>5, <2>1
<1>6. CASE r.op = "replace"
  <2>1. m \in Replaced(q) \/ m \in Refusals(q, "CancelReplaceReject")
    BY <1>1, <1>6 DEF Answers
  <2>2. ASSUME NEW kept \in BOOLEAN
        PROVE  Reads(Report(q, "replaced", GateOrder(q, kept, "new", 1), ""))
    <3>1. LET o == GateOrder(q, kept, "new", 1) IN
             OrderUnmarshals(o) /\ OrderConverts(o) /\ AsRequested(OrderModel(o), r)
      BY <1>0, <1>2, <1>6, OrderReads
    <3> QED
      BY <1>2, <1>6, <3>1, ReportReads
  <2> QED
    BY <1>3, <1>6, <2>1, <2>2 DEF Replaced
<1> QED
  BY <1>1, <1>4, <1>5, <1>6

-----------------------------------------------------------------------------
(* The invariant: everything on its way to the gate was asked for, and       *)
(* everything on its way back is what the gate may say of that.              *)

Asked == {RequestText(r) : r \in {s \in Sent : Marshals(s)}}
SnapshotsOf(user) == {Snapshot(user, Q) : Q \in SUBSET {q \in Asked : q.op = "new" /\ q.user = user}}

Noise == {[kind |-> k, user |-> <<>>, body |-> <<>>] : k \in {"Heartbeat", "SubscriptionReply"}}

AnyUnreadable == UNION {Unreadable(q) : q \in Asked}
AnySnapshot == UNION {SnapshotsOf(q.user) : q \in Asked}
AnyAnswer == UNION {Answers(q) : q \in Asked}

Said == Noise \cup AnyUnreadable \cup AnySnapshot \cup AnyAnswer

Told == {Payload(m) : m \in {x \in Said : Unmarshals(x)}}

IInv ==
    /\ sends \in Seq([request : Requests, sent : BOOLEAN])
    /\ toGate \in Seq(Asked)
    /\ received \subseteq Asked
    /\ feed \in Seq(Said)
    /\ held \in {<<>>} \cup {<<p>> : p \in Told}
    /\ reports \in Seq(Told)
    /\ crashed = FALSE

LEMMA SnapshotReads ==
    ASSUME NEW p \in Asked, NEW m \in SnapshotsOf(p.user), Unmarshals(m)
    PROVE  ~Panics(m) /\ Fine(Payload(m))
<1>1. PICK Q \in SUBSET {q \in Asked : q.op = "new" /\ q.user = p.user} : m = Snapshot(p.user, Q)
  BY DEF SnapshotsOf
<1>2. PICK s : Asks(s, p)
  BY DEF Asked, Asks
<1>3. p.user = UserText(s.user)
  BY <1>2, SentAreRequests, RequestOps, TextFields DEF Asks
<1>4. /\ m.kind = "Snapshot" /\ m.body.userId = p.user
      /\ m.body.orders = {GateOrder(q, q.postOnly, "new", 1) : q \in Q}
  BY <1>1 DEF Snapshot
<1>5. ASSUME NEW o \in m.body.orders
      PROVE  OrderConverts(o) /\ \E r \in Sent : r.user = s.user /\ AsRequested(OrderModel(o), r)
  <2>1. PICK q \in Q : o = GateOrder(q, q.postOnly, "new", 1)
    BY <1>4, <1>5
  <2>2. PICK r : Asks(r, q)
    BY DEF Asked, Asks
  <2>3. r \in Requests /\ Marshals(r) /\ q = RequestText(r) /\ r \in Sent
    BY <2>2, SentAreRequests DEF Asks
  <2>4. r.op = "new" /\ UserText(r.user) = UserText(s.user) /\ q.postOnly = r.postOnly
    BY <1>3, <2>3, RequestOps, TextFields
  <2>5. r.user = s.user
    BY <2>4, UserReads
  <2>6. "new" \in DOMAIN StatusOf
    BY DEF StatusOf
  <2> QED
    BY <2>1, <2>3, <2>4, <2>5, <2>6, OrderReads
<1>6. ~Panics(m) /\ ~Rejects(m)
  BY <1>3, <1>4, <1>5, UserReads DEF Panics, Rejects
<1>7. Payload(m) = [kind |-> "snapshot", user |-> UserOf(m.body.userId),
                    orders |-> ModelsOf(m.body.orders)]
  BY <1>4, <1>6 DEF Payload
<1>8. Payload(m).kind = "snapshot" /\ Payload(m).user = s.user
      /\ Payload(m).orders = ModelsOf(m.body.orders)
  BY <1>3, <1>4, <1>7, UserReads
<1>9. Fine(Payload(m))
  BY <1>5, <1>8 DEF Fine, ModelsOf
<1> QED
  BY <1>6, <1>9

\* Of all that the gate says, what is understood is so.
LEMMA SaidReads ==
    ASSUME NEW m \in Said, Unmarshals(m) PROVE ~Panics(m) /\ Fine(Payload(m))
<1>1. CASE m \in Noise
  BY <1>1 DEF Noise, Unmarshals
<1>2. CASE \E q \in Asked : m \in Unreadable(q)
  <2>1. PICK q \in Asked : m \in Unreadable(q)
    BY <1>2
  <2> DEFINE order(status) == GateOrder(q, q.postOnly, status, 1)
             some == [order("new") EXCEPT !.quantity = -1]
  <2>a. order("delayed").status = "delayed" /\ some.quantity = -1
    BY DEF GateOrder
  <2>b. m \in {Report(q, "new", order("delayed"), ""), Report(q, "new", some, "")}
    BY <2>1 DEF Unreadable
  <2>c. \A o : /\ Report(q, "new", o, "").kind = "ExecutionReport"
              /\ Report(q, "new", o, "").body.order = o
    BY DEF Report
  <2> HIDE DEF order, some
  <2>2. m.kind = "ExecutionReport" /\ m.body.order \in {order("delayed"), some}
    BY <2>b, <2>c
  <2>3. "delayed" \notin DOMAIN StatusOf /\ -1 \notin 0 .. MaxUint
    BY DEF StatusOf
  <2>4. ~OrderUnmarshals(m.body.order)
    BY <2>a, <2>2, <2>3 DEF OrderUnmarshals
  <2> QED
    BY <2>2, <2>4 DEF Unmarshals
<1>3. CASE \E q \in Asked : m \in Answers(q)
  BY <1>3, AnswerReads DEF Asked, Asks, Reads
<1>4. CASE \E q \in Asked : m \in SnapshotsOf(q.user)
  BY <1>4, SnapshotReads
<1>5. m \in Noise \/ m \in AnyUnreadable \/ m \in AnySnapshot \/ m \in AnyAnswer
  BY DEF Said
<1> QED
  BY <1>1, <1>2, <1>3, <1>4, <1>5 DEF AnyUnreadable, AnySnapshot, AnyAnswer

LEMMA ToldIsFine == ASSUME NEW p \in Told PROVE Fine(p)
  BY SaidReads DEF Told

-----------------------------------------------------------------------------
\* Sequences over a set are sequences over a larger one.
LEMMA LargerSeq == ASSUME NEW S, NEW T, S \subseteq T PROVE Seq(S) \subseteq Seq(T)
<1>1. ASSUME NEW s \in Seq(S) PROVE s \in Seq(T)
  BY s \in [1 .. Len(s) -> T], Len(s) \in Nat
<1> QED
  BY <1>1

\* Nobody takes back what was sent.
LEMMA SentGrows ==
    ASSUME sends \in Seq([request : Requests, sent : BOOLEAN]),
           NEW r \in Requests, NEW b \in BOOLEAN,
           sends' = Append(sends, [request |-> r, sent |-> b])
    PROVE  /\ sends' \in Seq([request : Requests, sent : BOOLEAN])
           /\ Sent \subseteq Sent'
           /\ b => r \in Sent'
<1> DEFINE x == [request |-> r, sent |-> b]
<1>1. /\ sends' \in Seq([request : Requests, sent : BOOLEAN])
      /\ Len(sends') = Len(sends) + 1
      /\ \A i \in 1 .. Len(sends) : sends'[i] = sends[i]
      /\ sends'[Len(sends) + 1] = x
      /\ DOMAIN sends = 1 .. Len(sends) /\ DOMAIN sends' = 1 .. Len(sends')
      /\ Len(sends) \in Nat
  OBVIOUS
<1>2. \A i \in DOMAIN sends : i \in DOMAIN sends' /\ sends'[i] = sends[i]
  BY <1>1
<1>3. Sent \subseteq Sent'
  BY <1>2 DEF Sent
<1>4. b => r \in Sent'
  <2> SUFFICES ASSUME b PROVE r \in Sent'
    OBVIOUS
  <2>1. x \in {sends'[i] : i \in DOMAIN sends'} \cap [request : Requests, sent : {TRUE}]
    BY <1>1
  <2>2. x.request = r
    OBVIOUS
  <2> QED
    BY <2>1, <2>2 DEF Sent
<1> QED
  BY <1>1, <1>3, <1>4

\* What was asked and said stays so.
LEMMA AskedGrows ==
    ASSUME Sent \subseteq Sent'
    PROVE  Asked \subseteq Asked' /\ Said \subseteq Said' /\ Told \subseteq Told'
<1>1. Asked \subseteq Asked'
  BY DEF Asked, Asks
<1>2. ASSUME NEW user PROVE SnapshotsOf(user) \subseteq SnapshotsOf(user)'
  BY <1>1 DEF SnapshotsOf
<1>3. Said \subseteq Said'
  <2>1. ASSUME NEW q \in Asked PROVE SnapshotsOf(q.user) \subseteq SnapshotsOf(q.user)'
    BY <1>2
  <2>2. AnySnapshot \subseteq AnySnapshot'
    BY <1>1, <2>1 DEF AnySnapshot
  <2>3. AnyAnswer \subseteq AnyAnswer'
    BY <1>1 DEF AnyAnswer
  <2>4. AnyUnreadable \subseteq AnyUnreadable'
    BY <1>1 DEF AnyUnreadable
  <2> QED
    BY <2>2, <2>3, <2>4 DEF Said, Noise
<1>4. Told \subseteq Told'
  BY <1>3 DEF Told
<1> QED
  BY <1>1, <1>3, <1>4

-----------------------------------------------------------------------------
LEMMA InitIInv == Init => IInv
  BY DEF Init, IInv

LEMMA SendIInv == ASSUME IInv, NEW r \in Requests, Send(r) PROVE IInv'
<1>1. PICK b \in BOOLEAN :
          /\ sends' = Append(sends, [request |-> r, sent |-> b])
          /\ IF b THEN Marshals(r) /\ toGate' = Append(toGate, RequestText(r)) ELSE UNCHANGED toGate
  BY DEF Send
<1>2. /\ sends' \in Seq([request : Requests, sent : BOOLEAN])
      /\ Sent \subseteq Sent'
      /\ b => r \in Sent'
  BY <1>1, SentGrows DEF IInv
<1>3. /\ Asked \subseteq Asked' /\ Said \subseteq Said' /\ Told \subseteq Told'
      /\ Seq(Asked) \subseteq Seq(Asked') /\ Seq(Said) \subseteq Seq(Said')
      /\ Seq(Told) \subseteq Seq(Told')
  BY <1>2, AskedGrows, LargerSeq
<1>4. toGate' \in Seq(Asked')
  <2>1. CASE b
    <3>1. RequestText(r) \in Asked'
      BY <1>1, <1>2, <2>1 DEF Asked
    <3>2. toGate \in Seq(Asked')
      BY <1>3 DEF IInv
    <3> QED
      BY <1>1, <2>1, <3>1, <3>2
  <2>2. CASE ~b
    BY <1>1, <1>3, <2>2 DEF IInv
  <2> QED
    BY <2>1, <2>2
<1> QED
  BY <1>2, <1>3, <1>4 DEF IInv, Send, gateVars, readerVars

\* Steps that make no request leave what was asked as it is.
LEMMA SendsStay ==
    ASSUME UNCHANGED sends
    PROVE  Sent' = Sent /\ Asked' = Asked /\ Said' = Said /\ Told' = Told
<1>1. Sent' = Sent
  BY DEF Sent
<1>2. Asked' = Asked
  BY <1>1 DEF Asked, Asks
<1>3. \A user : SnapshotsOf(user)' = SnapshotsOf(user)
  BY <1>2 DEF SnapshotsOf
<1>4. Said' = Said
  BY <1>2, <1>3 DEF Said, Noise, AnyUnreadable, AnySnapshot, AnyAnswer
<1> QED
  BY <1>1, <1>2, <1>4 DEF Told

LEMMA GateReceiveIInv == IInv /\ GateReceive => IInv'
<1> SUFFICES ASSUME IInv, GateReceive PROVE IInv'
  OBVIOUS
<1>1. Head(toGate) \in Asked /\ Tail(toGate) \in Seq(Asked)
  BY DEF IInv, GateReceive
<1> QED
  BY <1>1, SendsStay DEF IInv, GateReceive, readerVars

LEMMA PublishedIsSaid ==
    ASSUME IInv, NEW m \in Unsolicited \cup UNION {Answers(q) : q \in received}
    PROVE  m \in Said
<1>1. received \subseteq Asked
  BY DEF IInv
<1>2. CASE \E q \in received : m \in Answers(q)
  BY <1>1, <1>2 DEF Said, AnyAnswer
<1>3. CASE m \in Unsolicited
  <2>1. CASE m \in {[kind |-> "Heartbeat", user |-> <<>>, body |-> <<>>],
                    [kind |-> "SubscriptionReply", user |-> <<>>, body |-> <<>>]}
    BY <2>1 DEF Said, Noise
  <2>2. CASE \E u \in {q.user : q \in received} :
                 m = Snapshot(u, {q \in received : q.op = "new" /\ q.user = u})
    <3>1. PICK p \in received :
              m = Snapshot(p.user, {q \in received : q.op = "new" /\ q.user = p.user})
      BY <2>2
    <3>2. m \in SnapshotsOf(p.user)
      BY <1>1, <3>1 DEF SnapshotsOf
    <3> QED
      BY <1>1, <3>2 DEF Said, AnySnapshot
  <2>3. CASE \E q \in received : m \in Unreadable(q)
    BY <1>1, <2>3 DEF Said, AnyUnreadable
  <2> QED
    BY <1>3, <2>1, <2>2, <2>3 DEF Unsolicited
<1> QED
  BY <1>2, <1>3

LEMMA GatePublishIInv == IInv /\ GatePublish => IInv'
<1> SUFFICES ASSUME IInv, GatePublish PROVE IInv'
  OBVIOUS
<1>1. PICK m \in Unsolicited \cup UNION {Answers(q) : q \in received} : feed' = Append(feed, m)
  BY DEF GatePublish
<1>2. feed' \in Seq(Said)
  <2>1. m \in Said
    BY PublishedIsSaid
  <2>2. feed \in Seq(Said)
    BY DEF IInv
  <2> QED
    BY <1>1, <2>1, <2>2
<1> QED
  BY <1>2, SendsStay DEF IInv, GatePublish, senderVars, readerVars

LEMMA ReadIInv == IInv /\ Read => IInv'
<1> SUFFICES ASSUME IInv, Read PROVE IInv'
  OBVIOUS
<1>1. Head(feed) \in Said /\ Tail(feed) \in Seq(Said)
  BY DEF IInv, Read
<1>2. ~(Unmarshals(Head(feed)) /\ Panics(Head(feed)))
  BY <1>1, SaidReads
<1>3. Entry(Head(feed)) \in {<<>>} \cup {<<p>> : p \in Told}
  BY <1>1 DEF Entry, Told
<1> QED
  BY <1>1, <1>2, <1>3, SendsStay DEF IInv, Read, senderVars, gateVars

LEMMA PutIInv == IInv /\ Put => IInv'
<1> SUFFICES ASSUME IInv, Put PROVE IInv'
  OBVIOUS
<1>1. PICK p \in Told : held = <<p>>
  BY DEF IInv, Put
<1>2. reports \o held \in Seq(Told)
  BY <1>1 DEF IInv
<1> QED
  BY <1>2, SendsStay DEF IInv, Put, senderVars, gateVars

LEMMA InputIInv == IInv /\ Input => IInv'
<1> SUFFICES ASSUME IInv, Input PROVE IInv'
  OBVIOUS
<1>1. Tail(reports) \in Seq(Told)
  BY DEF IInv, Input
<1> QED
  BY <1>1, SendsStay DEF IInv, Input, senderVars, gateVars

LEMMA NextIInv == IInv /\ [Next]_vars => IInv'
<1> SUFFICES ASSUME IInv, [Next]_vars PROVE IInv'
  OBVIOUS
<1>1. CASE UNCHANGED vars
  BY <1>1, SendsStay DEF IInv, vars, senderVars, gateVars, readerVars
<1> QED
  BY <1>1, SendIInv, GateReceiveIInv, GatePublishIInv, ReadIInv, PutIInv, InputIInv DEF Next

LEMMA IInvHolds == Spec => []IInv
  BY InitIInv, NextIInv, PTL DEF Spec

LEMMA HeldIsFine == ASSUME IInv, NEW p \in {held[i] : i \in DOMAIN held} PROVE Fine(p)
<1>1. held # <<>>
  OBVIOUS
<1>2. PICK x \in Told : held = <<x>>
  BY <1>1 DEF IInv
<1>3. p = x
  BY <1>2
<1> QED
  BY <1>2, <1>3, ToldIsFine

\* Whatever is asked, in whatever order and by however many callers: an order
\* that a report or a snapshot tells of is one that a request of that user asked
\* for, with every field as it was asked.
THEOREM TraderHearsItsOrders == Spec => []OrdersAsRequested
<1>1. IInv => OrdersAsRequested
  BY HeldIsFine DEF OrdersAsRequested, Fine
<1> QED
  BY <1>1, IInvHolds, PTL

\* Every refusal comes back under the ids and the user of a request that was
\* made, where handleRejectPayload (zmq-trader.go:348) looks for its call.
THEOREM RefusalsFindCalls == Spec => []RefusalsFindTheirCall
<1>1. IInv => RefusalsFindTheirCall
  BY HeldIsFine DEF RefusalsFindTheirCall, Fine
<1> QED
  BY <1>1, IInvHolds, PTL

\* Every answer of the gate to a request is understood, and the conversions that
\* may panic (messages.go:161-167) never meet an order without a number.
THEOREM NoAnswerIsLost == Spec => []AnswersUnderstood
<1>1. IInv => AnswersUnderstood
  <2> SUFFICES ASSUME IInv, NEW q \in received, NEW m \in Answers(q) PROVE Unmarshals(m)
    BY DEF AnswersUnderstood, IInv
  <2>1. q \in Asked
    BY DEF IInv
  <2> QED
    BY <2>1, AnswerReads DEF Asked, Asks, Reads
<1> QED
  BY <1>1, IInvHolds, PTL

-----------------------------------------------------------------------------
(* Refinement of Feed.                                                       *)

Queue(rs, h, f) ==
    [i \in DOMAIN rs |-> <<rs[i]>>] \o [i \in DOMAIN h |-> <<h[i]>>]
    \o [i \in DOMAIN f |-> Entry(f[i])]

\* Entry of a message, or of a payload that is on its way already.
Entries == {<<>>} \cup {<<p>> : p \in Told}

LEMMA ConcatShape ==
    ASSUME NEW S, NEW s \in Seq(S), NEW t \in Seq(S)
    PROVE  /\ s \o t \in Seq(S) /\ Len(s \o t) = Len(s) + Len(t)
           /\ \A i \in 1 .. Len(s) + Len(t) :
                 (s \o t)[i] = IF i <= Len(s) THEN s[i] ELSE t[i - Len(s)]
  OBVIOUS

\* What such a queue looks like.
Shaped(q, rs, h, f) ==
    /\ q \in Seq(Entries)
    /\ Len(q) = Len(rs) + Len(h) + Len(f)
    /\ \A i \in 1 .. Len(rs) + Len(h) + Len(f) :
          q[i] = IF i <= Len(rs) THEN <<rs[i]>>
                 ELSE IF i <= Len(rs) + Len(h) THEN <<h[i - Len(rs)]>>
                 ELSE Entry(f[i - Len(rs) - Len(h)])

LEMMA QueueShape ==
    ASSUME NEW rs \in Seq(Told), NEW h \in Seq(Told), NEW f \in Seq(Said)
    PROVE  Shaped(Queue(rs, h, f), rs, h, f)
<1> DEFINE a == [i \in DOMAIN rs |-> <<rs[i]>>]
           b == [i \in DOMAIN h |-> <<h[i]>>]
           c == [i \in DOMAIN f |-> Entry(f[i])]
<1>1. /\ Len(rs) \in Nat /\ DOMAIN rs = 1 .. Len(rs)
      /\ Len(h) \in Nat /\ DOMAIN h = 1 .. Len(h)
      /\ Len(f) \in Nat /\ DOMAIN f = 1 .. Len(f)
  OBVIOUS
<1>2. /\ \A i \in 1 .. Len(rs) : <<rs[i]>> \in Entries
      /\ \A i \in 1 .. Len(h) : <<h[i]>> \in Entries
      /\ \A i \in 1 .. Len(f) : Entry(f[i]) \in Entries
  <2>1. \A m \in Said : Entry(m) \in Entries
    BY DEF Entry, Entries, Told
  <2> QED
    BY <2>1 DEF Entries
<1>3. a \in Seq(Entries) /\ Len(a) = Len(rs) /\ \A i \in 1 .. Len(rs) : a[i] = <<rs[i]>>
  <2>1. a \in [1 .. Len(rs) -> Entries]
    BY <1>1, <1>2
  <2> QED
    BY <1>1, <2>1
<1>4. b \in Seq(Entries) /\ Len(b) = Len(h) /\ \A i \in 1 .. Len(h) : b[i] = <<h[i]>>
  <2>1. b \in [1 .. Len(h) -> Entries]
    BY <1>1, <1>2
  <2> QED
    BY <1>1, <2>1
<1>5. c \in Seq(Entries) /\ Len(c) = Len(f) /\ \A i \in 1 .. Len(f) : c[i] = Entry(f[i])
  <2>1. c \in [1 .. Len(f) -> Entries]
    BY <1>1, <1>2
  <2> QED
    BY <1>1, <2>1
<1>6. Queue(rs, h, f) = a \o b \o c
  BY DEF Queue
<1> HIDE DEF a, b, c
<1>7. /\ a \o b \in Seq(Entries) /\ Len(a \o b) = Len(rs) + Len(h)
      /\ \A i \in 1 .. Len(rs) + Len(h) :
            (a \o b)[i] = IF i <= Len(rs) THEN <<rs[i]>> ELSE <<h[i - Len(rs)]>>
  <2> a \in Seq(Entries) /\ b \in Seq(Entries)
    BY <1>3, <1>4
  <2>3. /\ a \o b \in Seq(Entries) /\ Len(a \o b) = Len(a) + Len(b)
        /\ \A i \in 1 .. Len(a) + Len(b) :
              (a \o b)[i] = IF i <= Len(a) THEN a[i] ELSE b[i - Len(a)]
    BY ONLY a \in Seq(Entries), b \in Seq(Entries), ConcatShape
  <2>1. /\ a \o b \in Seq(Entries) /\ Len(a \o b) = Len(rs) + Len(h)
        /\ \A i \in 1 .. Len(rs) + Len(h) :
              (a \o b)[i] = IF i <= Len(rs) THEN a[i] ELSE b[i - Len(rs)]
    BY <1>3, <1>4, <2>3
  <2>2. ASSUME NEW i \in 1 .. Len(rs) + Len(h)
        PROVE  (a \o b)[i] = IF i <= Len(rs) THEN <<rs[i]>> ELSE <<h[i - Len(rs)]>>
    <3>1. CASE i <= Len(rs)
      BY <1>1, <1>3, <2>1, <3>1
    <3>2. CASE ~(i <= Len(rs))
      <4>1. i - Len(rs) \in 1 .. Len(h)
        BY <1>1, <3>2
      <4> QED
        BY <1>4, <2>1, <3>2, <4>1
    <3> QED
      BY <3>1, <3>2
  <2> QED
    BY <2>1, <2>2
<1> DEFINE ab == a \o b
<1>8. ab \in Seq(Entries) /\ Len(ab) = Len(rs) + Len(h)
  BY <1>7
<1>9. Queue(rs, h, f) = ab \o c
  BY <1>6
<1>10. \A i \in 1 .. Len(rs) + Len(h) : ab[i] = IF i <= Len(rs) THEN <<rs[i]>> ELSE <<h[i - Len(rs)]>>
  BY <1>7
<1> HIDE DEF ab
<1>11. /\ Queue(rs, h, f) \in Seq(Entries) /\ Len(Queue(rs, h, f)) = Len(rs) + Len(h) + Len(f)
       /\ \A i \in 1 .. Len(rs) + Len(h) + Len(f) :
             Queue(rs, h, f)[i] = IF i <= Len(ab) THEN ab[i] ELSE c[i - Len(ab)]
  <2> ab \in Seq(Entries) /\ c \in Seq(Entries)
    BY <1>5, <1>8
  <2>1. /\ ab \o c \in Seq(Entries) /\ Len(ab \o c) = Len(ab) + Len(c)
        /\ \A i \in 1 .. Len(ab) + Len(c) :
              (ab \o c)[i] = IF i <= Len(ab) THEN ab[i] ELSE c[i - Len(ab)]
    BY ONLY ab \in Seq(Entries), c \in Seq(Entries), ConcatShape
  <2> QED
    BY <1>5, <1>8, <1>9, <2>1
<1>12. ASSUME NEW i \in 1 .. Len(rs) + Len(h) + Len(f)
       PROVE  Queue(rs, h, f)[i] =
                  IF i <= Len(rs) THEN <<rs[i]>>
                  ELSE IF i <= Len(rs) + Len(h) THEN <<h[i - Len(rs)]>>
                  ELSE Entry(f[i - Len(rs) - Len(h)])
  <2>1. CASE i <= Len(rs) + Len(h)
    <3>1. i \in 1 .. Len(rs) + Len(h)
      BY <1>1, <2>1
    <3> QED
      BY <1>1, <1>8, <1>10, <1>11, <2>1, <3>1
  <2>2. CASE ~(i <= Len(rs) + Len(h))
    <3>1. i - (Len(rs) + Len(h)) \in 1 .. Len(f) /\ ~(i <= Len(rs))
          /\ i - (Len(rs) + Len(h)) = i - Len(rs) - Len(h)
      BY <1>1, <2>2
    <3> QED
      BY <1>5, <1>8, <1>11, <2>2, <3>1
  <2> QED
    BY <2>1, <2>2
<1> QED
  BY <1>11, <1>12 DEF Shaped

\* Two queues are one if they hold the same.
LEMMA SameQueue ==
    ASSUME NEW S, NEW s \in Seq(S), NEW t \in Seq(S),
           Len(s) = Len(t), \A i \in 1 .. Len(s) : s[i] = t[i]
    PROVE  s = t
  OBVIOUS

\* What the invariant says of the queue.
LEMMA QueueIs ==
    ASSUME IInv
    PROVE  /\ Waiting = Queue(reports, held, feed)
           /\ reports \in Seq(Told) /\ held \in Seq(Told) /\ feed \in Seq(Said)
           /\ Len(held) \in {0, 1}
<1>1. Waiting = Queue(reports, held, feed)
  BY DEF Waiting, Queue
<1>2. held \in Seq(Told) /\ Len(held) \in {0, 1}
  <2>1. CASE held = <<>>
    BY <2>1
  <2>2. CASE \E p \in Told : held = <<p>>
    BY <2>2
  <2> QED
    BY <2>1, <2>2 DEF IInv
<1> QED
  BY <1>1, <1>2 DEF IInv

LEMMA WaitingShape == ASSUME IInv PROVE Shaped(Waiting, reports, held, feed)
  BY QueueIs, QueueShape, Zenon

\* The queue after a step that makes no request.
LEMMA NextShape ==
    ASSUME IInv', UNCHANGED sends
    PROVE  /\ Shaped(Waiting', reports', held', feed')
           /\ reports' \in Seq(Told) /\ held' \in Seq(Told) /\ feed' \in Seq(Said)
<1>1. reports' \in Seq(Told) /\ feed' \in Seq(Said)
  BY SendsStay DEF IInv
<1>2. held' \in {<<>>} \cup {<<p>> : p \in Told}
  BY SendsStay DEF IInv
<1>3. held' \in Seq(Told)
  <2>1. CASE held' = <<>>
    BY <2>1
  <2>2. CASE \E p \in Told : held' = <<p>>
    BY <2>2
  <2> QED
    BY <1>2, <2>1, <2>2
<1>4. Waiting' = Queue(reports', held', feed')
  BY DEF Waiting, Queue
<1> QED
  BY <1>1, <1>3, <1>4, QueueShape, Zenon

LEMMA InitFeed == Init => F!FeedInit
<1> SUFFICES ASSUME Init PROVE F!FeedInit
  OBVIOUS
<1>1. reports = <<>> /\ held = <<>> /\ feed = <<>> /\ handling = <<>>
  BY DEF Init
<1>2. IInv
  BY InitIInv
<1>3. Waiting \in Seq(Entries) /\ Len(Waiting) = 0
  BY <1>1, <1>2, WaitingShape DEF Shaped
<1>4. Waiting = <<>>
  BY <1>3
<1> QED
  BY <1>1, <1>4 DEF F!FeedInit

LEMMA PublishFeed == ASSUME IInv, IInv', GatePublish PROVE F!Publication
<1> DEFINE w == Waiting
           x == Waiting'
<1>1. PICK m : feed' = Append(feed, m)
  BY DEF GatePublish
<1>2. UNCHANGED <<sends, reports, held, handling>>
  BY DEF GatePublish, senderVars, readerVars
<1>3. Shaped(w, reports, held, feed) /\ Shaped(x, reports, held, feed')
  BY <1>2, WaitingShape, NextShape
<1>4. /\ Len(feed') = Len(feed) + 1 /\ Len(feed) \in Nat
      /\ \A i \in 1 .. Len(feed) : feed'[i] = feed[i]
      /\ Len(reports) \in Nat /\ Len(held) \in Nat
  BY <1>1, QueueIs
<1> HIDE DEF w, x
<1>5. /\ w \in Seq(Entries) /\ Len(w) = Len(reports) + Len(held) + Len(feed)
      /\ x \in Seq(Entries) /\ Len(x) = Len(w) + 1 /\ Len(w) \in Nat
  BY <1>3, <1>4 DEF Shaped
<1>6. ASSUME NEW i \in 1 .. Len(w) PROVE x[i] = w[i]
  <2>1. /\ i \in 1 .. Len(reports) + Len(held) + Len(feed)
        /\ i \in 1 .. Len(reports) + Len(held) + Len(feed')
        /\ ~(i <= Len(reports) + Len(held)) =>
              feed'[i - Len(reports) - Len(held)] = feed[i - Len(reports) - Len(held)]
    <3>1. i \in 1 .. Len(reports) + Len(held) + Len(feed) /\ Len(feed') = Len(feed) + 1
      BY <1>4, <1>5
    <3>2. ~(i <= Len(reports) + Len(held)) => i - Len(reports) - Len(held) \in 1 .. Len(feed)
      BY <1>4, <3>1
    <3>3. i \in 1 .. Len(reports) + Len(held) + Len(feed')
      BY <1>4, <3>1
    <3> QED
      BY <1>4, <3>1, <3>2, <3>3
  <2> QED
    BY <1>3, <1>4, <2>1 DEF Shaped
<1>7. /\ SubSeq(x, 1, Len(w)) \in Seq(Entries) /\ Len(SubSeq(x, 1, Len(w))) = Len(w)
      /\ \A i \in 1 .. Len(w) : SubSeq(x, 1, Len(w))[i] = x[i]
  BY <1>5
<1>8. SubSeq(x, 1, Len(w)) = w
  BY <1>5, <1>6, <1>7, SameQueue
<1> QED
  BY <1>2, <1>5, <1>8 DEF F!Publication, w, x

LEMMA PutFeed == ASSUME IInv, IInv', Put PROVE UNCHANGED <<Waiting, handling>>
<1> DEFINE w == Waiting
           x == Waiting'
           n == Len(reports)
<1>1. UNCHANGED <<sends, feed, handling>> /\ held' = <<>>
  BY DEF Put, senderVars, gateVars
<1>2. PICK p \in Told : held = <<p>>
  BY DEF IInv, Put
<1>3. Shaped(w, reports, held, feed) /\ Shaped(x, reports', <<>>, feed)
  BY <1>1, WaitingShape, NextShape
<1>4. /\ Len(held) = 1 /\ held[1] = p /\ Len(<<>>) = 0 /\ n \in Nat /\ Len(feed) \in Nat
      /\ Len(reports') = n + 1 /\ reports'[n + 1] = p
      /\ \A i \in 1 .. n : reports'[i] = reports[i]
  <2>1. reports \in Seq(Told) /\ reports' = reports \o <<p>>
    BY <1>2, QueueIs DEF Put
  <2>2. reports' = Append(reports, p)
    BY <2>1
  <2> QED
    BY <1>2, <2>1, <2>2, QueueIs
<1> HIDE DEF w, x, n
<1>5. /\ w \in Seq(Entries) /\ Len(w) = n + 1 + Len(feed)
      /\ \A i \in 1 .. n + 1 + Len(feed) :
            w[i] = IF i <= n THEN <<reports[i]>>
                   ELSE IF i <= n + 1 THEN <<held[i - n]>> ELSE Entry(feed[i - n - 1])
  BY <1>3, <1>4 DEF Shaped, n
<1>6. /\ x \in Seq(Entries) /\ Len(x) = n + 1 + Len(feed)
      /\ \A i \in 1 .. n + 1 + Len(feed) :
            x[i] = IF i <= n + 1 THEN <<reports'[i]>> ELSE Entry(feed[i - n - 1])
  <2>1. /\ x \in Seq(Entries) /\ Len(x) = Len(reports') + Len(<<>>) + Len(feed)
        /\ \A i \in 1 .. Len(reports') + Len(<<>>) + Len(feed) :
              x[i] = IF i <= Len(reports') THEN <<reports'[i]>>
                     ELSE IF i <= Len(reports') + Len(<<>>) THEN <<<<>>[i - Len(reports')]>>
                     ELSE Entry(feed[i - Len(reports') - Len(<<>>)])
    BY <1>3, Zenon DEF Shaped
  <2>2. /\ Len(reports') + Len(<<>>) = n + 1
        /\ \A i \in 1 .. n + 1 + Len(feed) : i - Len(reports') - Len(<<>>) = i - n - 1
    BY <1>4
  <2> QED
    BY <1>4, <2>1, <2>2
<1>7. ASSUME NEW i \in 1 .. Len(w) PROVE w[i] = x[i]
  <2>1. i \in 1 .. n + 1 + Len(feed) /\ i \in Nat
    BY <1>4, <1>5
  <2>2. CASE i <= n
    BY <1>4, <1>5, <1>6, <2>1, <2>2
  <2>3. CASE i = n + 1
    <3>1. i - n = 1 /\ ~(i <= n) /\ i <= n + 1
      BY <1>4, <2>3
    <3> QED
      BY <1>4, <1>5, <1>6, <2>1, <2>3, <3>1
  <2>4. CASE i > n + 1
    <3>1. ~(i <= n) /\ ~(i <= n + 1)
      BY <1>4, <2>4
    <3> QED
      BY <1>5, <1>6, <2>1, <3>1
  <2> QED
    BY <1>4, <2>1, <2>2, <2>3, <2>4
<1>8. w = x
  BY <1>5, <1>6, <1>7, SameQueue
<1> QED
  BY <1>1, <1>8 DEF w, x

LEMMA InputFeed == ASSUME IInv, IInv', Input PROVE F!HandOver
<1> DEFINE w == Waiting
           x == Waiting'
           n == Len(reports)
           k == Len(held)
<1>1. /\ UNCHANGED <<sends, held, feed>> /\ reports # <<>>
      /\ handling' = <<Head(reports)>> /\ reports' = Tail(reports)
  BY DEF Input, senderVars
<1>2. Shaped(w, reports, held, feed) /\ Shaped(x, reports', held, feed)
  BY <1>1, WaitingShape, NextShape
<1>3. /\ n \in Nat \ {0} /\ k \in Nat /\ Len(feed) \in Nat
      /\ Len(reports') = n - 1 /\ Head(reports) = reports[1]
      /\ \A i \in 1 .. n - 1 : reports'[i] = reports[i + 1]
  BY <1>1, QueueIs
<1> HIDE DEF w, x, n, k
<1>4. /\ w \in Seq(Entries) /\ Len(w) = n + k + Len(feed)
      /\ \A i \in 1 .. n + k + Len(feed) :
            w[i] = IF i <= n THEN <<reports[i]>>
                   ELSE IF i <= n + k THEN <<held[i - n]>> ELSE Entry(feed[i - n - k])
  BY <1>2, <1>3 DEF Shaped, n, k
<1>5. /\ x \in Seq(Entries) /\ Len(x) = n - 1 + k + Len(feed)
      /\ \A i \in 1 .. n - 1 + k + Len(feed) :
            x[i] = IF i <= n - 1 THEN <<reports'[i]>>
                   ELSE IF i <= n - 1 + k THEN <<held[i - (n - 1)]>>
                   ELSE Entry(feed[i - (n - 1) - k])
  BY <1>2, <1>3 DEF Shaped, n, k
<1>6. w[1] = handling'
  <2>1. 1 \in 1 .. n + k + Len(feed) /\ 1 <= n
    BY <1>3
  <2> QED
    BY <1>1, <1>3, <1>4, <2>1
<1>7. ASSUME NEW i \in 1 .. Len(x) PROVE x[i] = w[i + 1]
  <2>1. /\ i \in 1 .. n - 1 + k + Len(feed)
        /\ i + 1 \in 1 .. n + k + Len(feed)
        /\ i <= n - 1 <=> i + 1 <= n
        /\ i <= n - 1 + k <=> i + 1 <= n + k
        /\ i - (n - 1) = i + 1 - n
        /\ i - (n - 1) - k = i + 1 - n - k
        /\ i <= n - 1 => reports'[i] = reports[i + 1]
    BY <1>3, <1>5
  <2>2. x[i] = IF i <= n - 1 THEN <<reports'[i]>>
               ELSE IF i <= n - 1 + k THEN <<held[i - (n - 1)]>>
               ELSE Entry(feed[i - (n - 1) - k])
    BY <1>5, <2>1
  <2>3. w[i + 1] = IF i + 1 <= n THEN <<reports[i + 1]>>
                   ELSE IF i + 1 <= n + k THEN <<held[i + 1 - n]>>
                   ELSE Entry(feed[i + 1 - n - k])
    <3>1. PICK j \in 1 .. n + k + Len(feed) : j = i + 1
      BY <2>1
    <3>2. w[j] = IF j <= n THEN <<reports[j]>>
                 ELSE IF j <= n + k THEN <<held[j - n]>> ELSE Entry(feed[j - n - k])
      BY <1>4
    <3> QED
      BY <1>3, <1>5, <2>1, <3>1, <3>2
  <2> QED
    BY <2>1, <2>2, <2>3
<1>8. w # <<>> /\ Head(w) = w[1] /\ Tail(w) \in Seq(Entries) /\ Len(Tail(w)) = Len(w) - 1
      /\ \A i \in 1 .. Len(w) - 1 : Tail(w)[i] = w[i + 1]
  <2>1. w \in Seq(Entries) /\ Len(w) > 0
    BY <1>3, <1>4
  <2> QED
    BY <2>1
<1>9. x = Tail(w)
  <2>1. Len(x) = Len(Tail(w)) /\ Len(x) = Len(w) - 1
    BY <1>3, <1>4, <1>5, <1>8
  <2>2. \A i \in 1 .. Len(x) : x[i] = Tail(w)[i]
    BY <1>7, <1>8, <2>1
  <2> QED
    BY <1>5, <1>8, <2>1, <2>2, SameQueue
<1>10. Head(w) # <<>> /\ handling' = Head(w)
  <2>1. handling' # <<>>
    BY <1>1
  <2> QED
    BY <1>6, <1>8, <2>1, Zenon
<1> QED
  BY <1>8, <1>9, <1>10 DEF F!HandOver, w, x

\* A message that says something moves up, one that says nothing is dropped.
LEMMA ReadFeed == ASSUME IInv, IInv', Read PROVE UNCHANGED <<Waiting, handling>> \/ F!Drop
<1> DEFINE w == Waiting
           x == Waiting'
           n == Len(reports)
           k == Len(held')
           l == Len(feed)
<1>1. /\ UNCHANGED <<sends, reports, handling>> /\ held = <<>> /\ feed # <<>>
      /\ feed' = Tail(feed)
  BY DEF Read, senderVars
<1>2. held' = Entry(Head(feed))
  <2>1. Head(feed) \in Said
    BY <1>1, QueueIs
  <2> QED
    BY <2>1, SaidReads DEF Read, Entry
<1>3. Shaped(w, reports, <<>>, feed) /\ Shaped(x, reports, held', feed')
  BY <1>1, WaitingShape, NextShape
<1>4. /\ n \in Nat /\ Len(<<>>) = 0 /\ l \in Nat \ {0} /\ Head(feed) = feed[1]
      /\ Len(feed') = l - 1
      /\ \A i \in 1 .. l - 1 : feed'[i] = feed[i + 1]
  BY <1>1, QueueIs
<1>5. k \in {0, 1} /\ (Unmarshals(Head(feed)) <=> k = 1)
  BY <1>2 DEF Entry
<1> HIDE DEF w, x, n, k, l
<1>6. /\ w \in Seq(Entries) /\ Len(w) = n + l
      /\ \A i \in 1 .. n + l : w[i] = IF i <= n THEN <<reports[i]>> ELSE Entry(feed[i - n])
  <2>1. /\ w \in Seq(Entries) /\ Len(w) = n + Len(<<>>) + l
        /\ \A i \in 1 .. n + Len(<<>>) + l :
              w[i] = IF i <= n THEN <<reports[i]>>
                     ELSE IF i <= n + Len(<<>>) THEN <<<<>>[i - n]>>
                     ELSE Entry(feed[i - n - Len(<<>>)])
    BY <1>3, Zenon DEF Shaped, n, l
  <2>2. n + Len(<<>>) = n /\ \A i \in 1 .. n + l : i - n - Len(<<>>) = i - n
    BY <1>4
  <2> QED
    BY <2>1, <2>2
<1>7. /\ x \in Seq(Entries) /\ Len(x) = n + k + (l - 1)
      /\ \A i \in 1 .. n + k + (l - 1) :
            x[i] = IF i <= n THEN <<reports[i]>>
                   ELSE IF i <= n + k THEN <<held'[i - n]>> ELSE Entry(feed'[i - n - k])
  BY <1>3, <1>4 DEF Shaped, n, k
<1>8. CASE k = 1
  <2>1. <<held'[1]>> = Entry(feed[1])
    BY <1>2, <1>4, <1>5, <1>8 DEF Entry
  <2>2. ASSUME NEW i \in 1 .. Len(w) PROVE w[i] = x[i]
    <3>1. i \in 1 .. n + l /\ i \in 1 .. n + k + (l - 1)
      BY <1>4, <1>6, <1>8
    <3>2. CASE i <= n
      BY <1>6, <1>7, <3>1, <3>2
    <3>3. CASE i = n + 1
      <4>1. i - n = 1 /\ ~(i <= n) /\ i <= n + k
        BY <1>4, <1>8, <3>3
      <4> QED
        BY <1>6, <1>7, <2>1, <3>1, <4>1
    <3>4. CASE i > n + 1
      <4>1. ~(i <= n) /\ ~(i <= n + k) /\ feed'[i - n - k] = feed[i - n]
        BY <1>4, <1>8, <3>1, <3>4
      <4> QED
        BY <1>6, <1>7, <3>1, <4>1
    <3> QED
      BY <1>4, <3>1, <3>2, <3>3, <3>4
  <2>3. Len(w) = Len(x)
    BY <1>4, <1>6, <1>7, <1>8
  <2>4. w = x
    BY <1>6, <1>7, <2>2, <2>3, SameQueue
  <2> QED
    BY <1>1, <2>4 DEF w, x
<1>9. CASE k = 0
  <2> DEFINE s == SubSeq(w, 1, n)
             t == SubSeq(w, n + 2, n + l)
  <2>1. Entry(feed[1]) = <<>>
    BY <1>2, <1>4, <1>5, <1>9 DEF Entry
  <2>2. Len(w) = n + l /\ Len(x) = n + (l - 1)
    BY <1>4, <1>6, <1>7, <1>9
  <2>3. n + 1 \in 1 .. Len(w) /\ w[n + 1] = <<>>
    <3>1. n + 1 \in 1 .. n + l /\ ~(n + 1 <= n) /\ n + 1 - n = 1
      BY <1>4
    <3>2. PICK j \in 1 .. n + l : j = n + 1
      BY <3>1
    <3>3. w[j] = IF j <= n THEN <<reports[j]>> ELSE Entry(feed[j - n])
      BY <1>6
    <3>4. w[n + 1] = <<>>
      BY <1>4, <2>1, <3>1, <3>2, <3>3
    <3> QED
      BY <2>2, <3>1, <3>4
  <2>4. /\ s \in Seq(Entries) /\ Len(s) = n /\ \A i \in 1 .. n : s[i] = w[i]
    BY <1>4, <1>6
  <2>5. /\ t \in Seq(Entries) /\ Len(t) = l - 1
        /\ \A i \in 1 .. l - 1 : t[i] = w[i + n + 1]
    BY <1>4, <1>6
  <2>6. SubSeq(w, 1, n + 1 - 1) = s /\ SubSeq(w, n + 1 + 1, Len(w)) = t
    BY <1>4, <2>2
  <2> HIDE DEF s, t
  <2>7. /\ s \o t \in Seq(Entries) /\ Len(s \o t) = n + (l - 1)
        /\ \A i \in 1 .. n + (l - 1) : (s \o t)[i] = IF i <= n THEN s[i] ELSE t[i - n]
    <3> s \in Seq(Entries) /\ t \in Seq(Entries)
      BY <2>4, <2>5
    <3>1. /\ s \o t \in Seq(Entries) /\ Len(s \o t) = Len(s) + Len(t)
          /\ \A i \in 1 .. Len(s) + Len(t) :
                (s \o t)[i] = IF i <= Len(s) THEN s[i] ELSE t[i - Len(s)]
      BY ONLY s \in Seq(Entries), t \in Seq(Entries), ConcatShape
    <3> QED
      BY <2>4, <2>5, <3>1
  <2>8. ASSUME NEW i \in 1 .. n + (l - 1) PROVE x[i] = (s \o t)[i]
    <3>1. i \in 1 .. n + k + (l - 1) /\ i \in 1 .. n + l /\ (i <= n + k <=> i <= n)
      BY <1>4, <1>9
    <3>2. CASE i <= n
      <4>1. x[i] = <<reports[i]>> /\ w[i] = <<reports[i]>>
        BY <1>6, <1>7, <3>1, <3>2, Zenon
      <4>2. (s \o t)[i] = s[i]
        BY <2>7, <3>2, Zenon
      <4>3. s[i] = w[i]
        BY <1>4, <2>4, <3>2
      <4> QED
        BY <4>1, <4>2, <4>3
    <3>3. CASE ~(i <= n)
      <4>1. /\ i - n \in 1 .. l - 1 /\ (i - n) + n + 1 = i + 1
            /\ i + 1 \in 1 .. n + l /\ ~(i + 1 <= n)
        BY <1>4, <3>3
      <4>2. (s \o t)[i] = w[i + 1]
        <5>1. (s \o t)[i] = t[i - n]
          BY <2>7, <3>3
        <5> QED
          BY <2>5, <4>1, <5>1
      <4>3. w[i + 1] = Entry(feed[i + 1 - n])
        <5>1. PICK j \in 1 .. n + l : j = i + 1
          BY <4>1
        <5>2. w[j] = IF j <= n THEN <<reports[j]>> ELSE Entry(feed[j - n])
          BY <1>6
        <5> QED
          BY <1>4, <4>1, <5>1, <5>2
      <4>4. x[i] = Entry(feed'[i - n])
        <5>1. x[i] = Entry(feed'[i - n - k])
          BY <1>7, <3>1, <3>3
        <5>2. i - n - k = i - n
          BY <1>4, <1>9
        <5> QED
          BY <5>1, <5>2
      <4>5. feed'[i - n] = feed[i + 1 - n]
        BY <1>4, <4>1
      <4> QED
        BY <4>2, <4>3, <4>4, <4>5
    <3> QED
      BY <3>2, <3>3
  <2>9. x = s \o t
    BY <1>7, <2>2, <2>7, <2>8, SameQueue
  <2>10. x = SubSeq(w, 1, n + 1 - 1) \o SubSeq(w, n + 1 + 1, Len(w))
    BY <2>6, <2>9
  <2>11. PICK i \in 1 .. Len(w) : i = n + 1
    BY <2>3
  <2>12. w[i] = <<>> /\ x = SubSeq(w, 1, i - 1) \o SubSeq(w, i + 1, Len(w))
    BY <1>4, <2>3, <2>10, <2>11, i - 1 = n, i + 1 = n + 1 + 1, n + 1 - 1 = n
  <2>13. /\ i \in 1 .. Len(Waiting) /\ Waiting[i] = <<>>
         /\ Waiting' = SubSeq(Waiting, 1, i - 1) \o SubSeq(Waiting, i + 1, Len(Waiting))
    BY <2>12 DEF w, x
  <2>14. UNCHANGED handling
    BY <1>1
  <2>15. F!Drop
    BY <2>13, <2>14 DEF F!Drop
  <2> QED
    BY <2>15
<1> QED
  BY <1>5, <1>8, <1>9

LEMMA StutterFeed ==
    ASSUME UNCHANGED <<reports, held, feed, handling>>
    PROVE  UNCHANGED <<Waiting, handling>>
  BY DEF Waiting

\* Socket, reader and channel are one queue, whatever the channel's capacity and
\* whatever the gate says: nothing that says something to the trader is lost,
\* handed over twice or overtaken (zmq-xsub.go:215-332, zmq-trader.go:333).
THEOREM TransportQueues == Spec => FeedSafe
<1>1. IInv /\ IInv' /\ [Next]_vars => [F!FeedNext]_(F!feedVars)
  <2> SUFFICES ASSUME IInv, IInv', [Next]_vars PROVE F!FeedNext \/ UNCHANGED <<Waiting, handling>>
    BY DEF F!feedVars
  <2>1. CASE UNCHANGED vars
    BY <2>1, StutterFeed DEF vars, readerVars
  <2>2. ASSUME NEW r \in Requests, Send(r) PROVE UNCHANGED <<Waiting, handling>>
    BY <2>2, StutterFeed DEF Send, readerVars
  <2>3. CASE GateReceive
    BY <2>3, StutterFeed DEF GateReceive, readerVars
  <2> QED
    BY <2>1, <2>2, <2>3, PublishFeed, ReadFeed, PutFeed, InputFeed DEF Next, F!FeedNext
<1> QED
  BY <1>1, InitFeed, IInvHolds, PTL DEF Spec, FeedSafe, F!FeedSafety
=============================================================================
