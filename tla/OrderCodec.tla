----------------------------- MODULE OrderCodec -----------------------------
(***************************************************************************)
(* The conversions between the structures of the package and the texts of  *)
(* the gate's protocol (the enumerations, clientorderid.go, error.go,      *)
(* messages.go, requests.go).                                              *)
(*                                                                         *)
(* A value of an enumeration is called as its Go constant without the      *)
(* prefix; a value that is no constant, which Go allows, is any other      *)
(* name.  Symbols and prices are texts that pass through as they are; a    *)
(* quantity is text in a request and a number in the gate's messages.      *)
(***************************************************************************)
EXTENDS Integers, Sequences

CONSTANTS
    IdWidth,    \* bytes of a ClientOrderId, 32 in the code
    Nul,        \* the byte that fills an id up
    MaxUint     \* the largest uint64

ASSUME IdWidthAssumption == IdWidth \in Nat \ {0}
ASSUME MaxUintAssumption == MaxUint \in Nat

\* The text of a number: how many zeros it leads with, and the number.
FormatUint(n) == [zeros |-> 0, number |-> n]

\* A text that is empty or, with omitempty, left out.
NotGiven == ""

-----------------------------------------------------------------------------
(* The enumerations.  Of each pair of tables the first is what String and  *)
(* MarshalJSON write, the second what UnmarshalJSON and StrToType read.    *)

SideText == [Sell |-> "sell", Buy |-> "buy"]
SideOf == [sell |-> "Sell", buy |-> "Buy"]

TypeText ==
    [Market |-> "market", Limit |-> "limit", StopMarket |-> "stopMarket",
     StopLimit |-> "stopLimit"]
TypeOf ==
    [market |-> "Market", limit |-> "Limit", stopMarket |-> "StopMarket",
     stopLimit |-> "StopLimit"]

TimeInForceText ==
    [GTC |-> "GTC", IOC |-> "IOC", FOK |-> "FOK", DAY |-> "Day", GTD |-> "GTD"]
TimeInForceOf ==
    [GTC |-> "GTC", IOC |-> "IOC", FOK |-> "FOK", Day |-> "DAY", GTD |-> "GTD"]

StatusText ==
    [New |-> "new", Suspended |-> "suspended", PartiallyFilled |-> "partiallyFilled",
     Filled |-> "filled", Canceled |-> "canceled", Rejected |-> "rejected",
     Expired |-> "expired"]
StatusOf ==
    [new |-> "New", canceled |-> "Canceled", rejected |-> "Rejected",
     partiallyFilled |-> "PartiallyFilled", filled |-> "Filled",
     suspended |-> "Suspended", expired |-> "Expired"]

ReportTypeText ==
    [New |-> "new", Suspended |-> "suspended", Canceled |-> "canceled",
     Rejected |-> "rejected", Expired |-> "expired", Trade |-> "trade",
     Status |-> "status", Replaced |-> "replaced"]
ReportTypeOf ==
    [new |-> "New", canceled |-> "Canceled", replaced |-> "Replaced",
     rejected |-> "Rejected", trade |-> "Trade", expired |-> "Expired",
     suspended |-> "Suspended", status |-> "Status"]

-----------------------------------------------------------------------------
(* Client order ids: a text is a sequence of characters, an id an array of *)
(* IdWidth bytes.                                                          *)

\* ClientOrderIdStrToType copies a text that is not too long and fills the array up.
IdOf(text) == [i \in 1..IdWidth |-> IF i <= Len(text) THEN text[i] ELSE Nul]

EmptyId == IdOf(<<>>)

\* bytes.IndexByte(co[:], 0) as a length: all of the array without a Nul.
IdLength(co) ==
    CHOOSE n \in 0..IdWidth :
        /\ \A i \in 1..n : co[i] # Nul
        /\ n < IdWidth => co[n + 1] = Nul

\* MarshalJSON refuses an empty id and writes the rest without the padding.
IdMarshals(co) == IdLength(co) > 0
IdText(co) == SubSeq(co, 1, IdLength(co))

\* Mutant: no room for an id that fills the array.
MutantIdUnmarshals(text) == Len(text) + 2 >= 3 /\ Len(text) + 2 < IdWidth + 2

\* UnmarshalJSON goes by the length of the data, which has two quotes.
IdUnmarshals(text) == Len(text) + 2 >= 3 /\ Len(text) + 2 <= IdWidth + 2

-----------------------------------------------------------------------------
(* Requests, as NewOrder, CancelOrder and ReplaceOrder hand them to the    *)
(* push connection: records with the fields of Request in Transport, of    *)
(* which each kind of request uses its own.                                *)

\* messageUserID: the number behind `user_'.  An absent user is <<>>.
UserText(user) == <<"user_", user>>
UserOf(text) == text[2]

\* json.Marshal of a request: every field it has must be one that can be written.
Marshals(r) ==
    /\ IdMarshals(r.id)
    /\ r.side \in DOMAIN SideText
    /\ r.op \in {"cancel", "replace"} => IdMarshals(r.cancelId)
    /\ r.op \in {"new", "replace"} =>
          r.type \in DOMAIN TypeText /\ r.tif \in DOMAIN TimeInForceText

\* The message sent.  Only a new order has PostOnly, a stop price and an expire time;
\* the latter is written as text, also if it is 0.
RequestText(r) ==
    CASE r.op = "new" ->
            [op |-> r.op, user |-> UserText(r.user), id |-> IdText(r.id),
             type |-> TypeText[r.type], side |-> SideText[r.side],
             tif |-> TimeInForceText[r.tif], postOnly |-> r.postOnly, symbol |-> r.symbol,
             quantity |-> r.quantity, price |-> r.price, stopPrice |-> r.stopPrice,
             expireTime |-> FormatUint(r.expireTime)]
      [] r.op = "cancel" ->
            [op |-> r.op, user |-> UserText(r.user), id |-> IdText(r.id),
             cancelId |-> IdText(r.cancelId), symbol |-> r.symbol, side |-> SideText[r.side]]
      [] r.op = "replace" ->
            [op |-> r.op, user |-> UserText(r.user), id |-> IdText(r.id),
             cancelId |-> IdText(r.cancelId), symbol |-> r.symbol, side |-> SideText[r.side],
             type |-> TypeText[r.type], tif |-> TimeInForceText[r.tif],
             quantity |-> r.quantity, price |-> r.price]

-----------------------------------------------------------------------------
(* The gate's messages: [kind, user, body] with the user of the topic.     *)

\* An order number that is no number: `N/A' in the gate's texts.
NotANumber == 0

\* json.Unmarshal of an order, in a snapshot or in a report.
OrderUnmarshals(o) ==
    /\ IdUnmarshals(o.id)
    /\ o.status \in DOMAIN StatusOf
    /\ o.side \in DOMAIN SideOf
    /\ o.type \in DOMAIN TypeOf
    /\ o.tif \in DOMAIN TimeInForceOf
    /\ o.quantity \in 0 .. MaxUint

\* CreateOrderModel: it panics over numbers it cannot parse.  The messages have no stop
\* price and no expire time; the average price that they have is not taken over.
OrderConverts(o) == NotANumber \notin {o.orderId, o.latestId}
OrderModel(o) ==
    [id |-> IdOf(o.id), status |-> StatusOf[o.status], side |-> SideOf[o.side],
     type |-> TypeOf[o.type], tif |-> TimeInForceOf[o.tif], postOnly |-> o.postOnly,
     symbol |-> o.symbol, price |-> o.price, quantity |-> FormatUint(o.quantity),
     stopPrice |-> NotGiven, expireTime |-> 0, averagePrice |-> NotGiven,
     orderId |-> o.orderId]

\* Mutant: the id of the order that was replaced is taken over for no report.
MutantOrderReport(b) ==
    [order |-> OrderModel(b.order), type |-> ReportTypeOf[b.type], original |-> EmptyId,
     tradeId |-> 0]

\* CreateOrderReport, which knows nothing of the trade: TradeID, Timestamp and
\* the fee of the report stay zero.
OrderReport(b) ==
    [order |-> OrderModel(b.order), type |-> ReportTypeOf[b.type],
     original |-> IF ReportTypeOf[b.type] = "Replaced" THEN IdOf(b.original) ELSE EmptyId,
     tradeId |-> 0]

\* The reject codes that have an error of their own, and the rest.
ErrorOf ==
    [duplicateOrder |-> "ErrorDuplicateClientOrder", orderNotFound |-> "ErrorNotFoundOrder",
     orderExceedsLimit |-> "ErrorExceedsLimit", orderIsNotChanged |-> "ErrorNotChanged",
     badQuantity |-> "ErrorBadQuantity", badPrice |-> "ErrorBadPrice",
     tradingNotStarted |-> "ErrorTradingNotStarted",
     expireTimeIsNotSpecified |-> "ErrorNoExpireTime", tooLateToEnter |-> "ErrorTooLateToEnter"]
\* errorMapping, the texts of the errors.
ErrorText ==
    [ErrorUnknown |-> "unknown", ErrorDuplicateClientOrder |-> "duplicateOrder",
     ErrorNotFoundOrder |-> "orderNotFound", ErrorExceedsLimit |-> "orderExceedsLimit",
     ErrorNotChanged |-> "orderIsNotChanged", ErrorBadQuantity |-> "badQuantity",
     ErrorBadPrice |-> "badPrice", ErrorTradingNotStarted |-> "tradingNotStarted",
     ErrorNoExpireTime |-> "expireTimeIsNotSpecified", ErrorTooLateToEnter |-> "tooLateToEnter"]

getErrorByReject(code) == IF code \in DOMAIN ErrorOf THEN ErrorOf[code] ELSE "ErrorUnknown"
=============================================================================
