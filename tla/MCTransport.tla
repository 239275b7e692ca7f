----------------------------- MODULE MCTransport -----------------------------
(***************************************************************************)
(* Transport for TLC: ids of up to two characters, and requests that       *)
(* differ from a plain one in one field, so that every value of every      *)
(* enumeration occurs, and one that is no value, or in all the terms.      *)
(***************************************************************************)
EXTENDS Transport, TLC

Plain(o, u) ==
    [op |-> o, user |-> u, id |-> IdOf(<<"a">>), cancelId |-> IdOf(<<"a", "a">>),
     side |-> "Sell", type |-> "Limit", tif |-> "GTC", postOnly |-> FALSE,
     symbol |-> CHOOSE s \in Symbols : TRUE, price |-> CHOOSE p \in Prices : TRUE,
     quantity |-> [zeros |-> 0, number |-> 1], stopPrice |-> NotGiven, expireTime |-> 0]

\* A request with all terms of its order different, ...
Stop(r) ==
    [r EXCEPT !.type = "StopLimit", !.tif = "GTD", !.postOnly = TRUE,
              !.symbol = CHOOSE s \in Symbols \ {r.symbol} : TRUE, !.price = NotGiven,
              !.quantity = [zeros |-> 1, number |-> MaxUint], !.stopPrice = r.price,
              !.expireTime = MaxUint]

\* ... or with a different value in one of the fields its kind has.
Variants(r) ==
    {Stop(r)} \cup {[r EXCEPT !.id = IdOf(t)] : t \in Texts}
    \cup {[r EXCEPT !.side = x] : x \in DOMAIN SideText \cup {"none"}}
    \cup (IF r.op = "new" THEN {} ELSE {[r EXCEPT !.cancelId = IdOf(t)] : t \in Texts})
    \cup (IF r.op = "cancel" THEN {} ELSE
              {[r EXCEPT !.type = x] : x \in DOMAIN TypeText \cup {"none"}}
              \cup {[r EXCEPT !.tif = x] : x \in DOMAIN TimeInForceText \cup {"none"}})

FirstUser == CHOOSE u \in Users : TRUE

\* Any request of one user, and plain ones of the others.
SomeRequests ==
    UNION {Variants(Plain(o, FirstUser)) : o \in {"new", "cancel", "replace"}}
    \cup {Plain(o, u) : o \in {"new", "cancel"}, u \in Users}
=============================================================================
