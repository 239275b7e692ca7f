--------------------------- MODULE GateReadyProofs ---------------------------
(***************************************************************************)
(* Proofs about GateReady, for any number of canary goroutines, any        *)
(* capacity of the channels and whatever the network and the gate do.      *)
(*                                                                         *)
(* ReadyFollowsInputs speaks of handleReady at its select only.  Between   *)
(* two selects it has read some of the inputs: EvaluationExact says that,  *)
(* unless there is news, what it has read still holds.  That suffices,     *)
(* since whoever changes an input leaves news that only handleReady takes. *)
(***************************************************************************)
EXTENDS GateReady, SequenceTheorems, TLAPS

LEMMA SingletonSeq ==
    ASSUME NEW S, NEW e \in S
    PROVE  <<e>> \in Seq(S) /\ Len(<<e>>) = 1
OBVIOUS

LEMMA OptionalSeq ==
    ASSUME NEW S, NEW e \in S, NEW P
    PROVE  LET s == IF P THEN <<>> ELSE <<e>> IN s \in Seq(S) /\ Len(s) <= 1
<1>1. CASE P
    BY <1>1
<1>2. CASE ~P
    BY <1>2, SingletonSeq
<1> QED
    BY <1>1, <1>2

LEMMA InitType == Init => TypeOK
<1> SUFFICES ASSUME Init PROVE TypeOK
    OBVIOUS
<1>1. \A k \in Conns : events[k] \in Seq(BOOLEAN)
  <2>1. <<TRUE>> \in Seq(BOOLEAN) /\ <<>> \in Seq(BOOLEAN)
      BY SingletonSeq
  <2> QED BY <2>1 DEF Init
<1>2. events \in [Conns -> Seq(BOOLEAN)]
    BY <1>1 DEF Init
<1>3. link \in [Conns -> BOOLEAN] /\ trading \in BOOLEAN
    BY DEF Init
<1>4. /\ connReady \in [Conns -> BOOLEAN] /\ connChan \in [Conns -> Seq(BOOLEAN)]
      /\ announcing \in [Announcers -> Seq(BOOLEAN)]
      /\ \A k \in Conns : Len(connChan[k]) <= ReadyCap
      /\ \A g \in Announcers : Len(announcing[g]) <= 1
  <2>1. <<>> \in Seq(BOOLEAN) /\ Len(<<>>) = 0
      OBVIOUS
  <2> QED BY <2>1, BoundsAssumption DEF Init
<1>5. /\ testPc \in [Tests -> {"idle", "tick", "call", "compare", "store", "send"}]
      /\ \A t \in Spawned : testPc[t] # "tick"
      /\ result \in [Tests -> BOOLEAN]
    BY DEF Init, Tests
<1>6. inbox \in 0 .. MaxInbox /\ changes \in 0 .. MaxChanges
    BY BoundsAssumption DEF Init
<1>7. /\ panicked \in BOOLEAN /\ closed \in BOOLEAN /\ isCanaryTrade \in BOOLEAN
      /\ ready \in BOOLEAN /\ isReady \in BOOLEAN
      /\ handler \in {"select", "push", "xsub", "canary", "publish"}
    BY Zenon DEF Init
<1> QED
    BY <1>2, <1>3, <1>4, <1>5, <1>6, <1>7 DEF TypeOK

\* setReady keeps the connection's part of the types.
LEMMA SetReadyType ==
    ASSUME TypeOK, NEW k \in Conns, NEW g \in Announcers, NEW val \in BOOLEAN,
           SetReady(k, g, val)
    PROVE  /\ connReady' \in [Conns -> BOOLEAN]
           /\ announcing' \in [Announcers -> Seq(BOOLEAN)]
           /\ \A h \in Announcers : Len(announcing'[h]) <= 1
           /\ connChan' = connChan /\ panicked' = panicked
<1> DEFINE said == IF connReady[k] = val THEN <<>> ELSE <<val>>
<1>1. said \in Seq(BOOLEAN) /\ Len(said) <= 1
    BY OptionalSeq
<1>2. announcing' = [announcing EXCEPT ![g] = said]
    BY DEF SetReady
<1> QED
    BY <1>1, <1>2 DEF SetReady, TypeOK

LEMMA TestsType == Loop \in Tests /\ \A t \in Spawned : t \in Tests /\ t # Loop
BY LoopAssumption DEF Tests

LEMMA StepType == TypeOK /\ [Next]_vars => TypeOK'
<1> SUFFICES ASSUME TypeOK, [Next]_vars PROVE TypeOK'
    OBVIOUS
<1>t. /\ link \in [Conns -> BOOLEAN] /\ events \in [Conns -> Seq(BOOLEAN)]
      /\ inbox \in 0 .. MaxInbox /\ changes \in 0 .. MaxChanges
      /\ connChan \in [Conns -> Seq(BOOLEAN)]
      /\ announcing \in [Announcers -> Seq(BOOLEAN)]
      /\ testPc \in [Tests -> {"idle", "tick", "call", "compare", "store", "send"}]
      /\ result \in [Tests -> BOOLEAN]
    BY DEF TypeOK
<1> USE DEF netVars, connVars, canaryVars, handlerVars
<1>0. ASSUME Change PROVE changes' \in 0 .. MaxChanges
    BY <1>t, <1>0, BoundsAssumption DEF Change
<1>1. ASSUME NEW k \in Conns, Connect(k) PROVE TypeOK'
  <2>1. events' \in [Conns -> Seq(BOOLEAN)] /\ link' \in [Conns -> BOOLEAN]
      BY <1>t, <1>1 DEF Connect
  <2> QED BY <1>0, <1>1, <2>1 DEF Connect, TypeOK
<1>2. ASSUME NEW k \in Conns, Break(k) PROVE TypeOK'
    BY <1>0, <1>2 DEF Break, TypeOK
<1>3. ASSUME NEW k \in Conns, RetryFails(k) PROVE TypeOK'
  <2>1. events' \in [Conns -> Seq(BOOLEAN)]
      BY <1>t, <1>3 DEF RetryFails
  <2> QED BY <1>0, <1>3, <2>1 DEF RetryFails, TypeOK
<1>4. CASE GateMessage
  <2>1. inbox' \in 0 .. MaxInbox
      BY <1>t, <1>4, BoundsAssumption DEF GateMessage
  <2> QED BY <1>4, <2>1 DEF GateMessage, TypeOK
<1>5. CASE GateTrading
    BY <1>0, <1>5 DEF GateTrading, TypeOK
<1>6. CASE PushStatus
  <2>1. Head(events["push"]) \in BOOLEAN /\ Tail(events["push"]) \in Seq(BOOLEAN)
      BY <1>t, <1>6, HeadTailProperties DEF PushStatus, Conns
  <2>2. events' \in [Conns -> Seq(BOOLEAN)]
      BY <1>t, <1>6, <2>1 DEF PushStatus
  <2>3. SetReady("push", "push", Head(events["push"]))
      BY <1>6 DEF PushStatus
  <2> HIDE DEF connVars
  <2> QED BY <1>6, <2>1, <2>2, <2>3, SetReadyType DEF PushStatus, TypeOK, Conns, Announcers
<1>7. CASE MonitorStatus
  <2>1. Head(events["xsub"]) \in BOOLEAN /\ Tail(events["xsub"]) \in Seq(BOOLEAN)
      BY <1>t, <1>7, HeadTailProperties DEF MonitorStatus, Conns
  <2>2. events' \in [Conns -> Seq(BOOLEAN)] /\ closed' \in BOOLEAN
      BY <1>t, <1>7, <2>1 DEF MonitorStatus
  <2>3. CASE Head(events["xsub"])
      BY <1>7, <2>2, <2>3 DEF MonitorStatus, TypeOK
  <2>4. CASE ~Head(events["xsub"])
    <3>1. SetReady("xsub", "monitor", FALSE)
        BY <1>7, <2>4 DEF MonitorStatus
    <3> QED BY <1>7, <2>2, <3>1, SetReadyType DEF MonitorStatus, TypeOK, Conns, Announcers
  <2> QED BY <2>3, <2>4
<1>8. CASE ReadMessage
  <2>1. inbox' \in 0 .. MaxInbox
      BY <1>t, <1>8, BoundsAssumption DEF ReadMessage
  <2>2. SetReady("xsub", "reader", TRUE)
      BY <1>8 DEF ReadMessage
  <2> QED BY <1>8, <2>1, <2>2, SetReadyType DEF ReadMessage, TypeOK, Conns, Announcers
<1>9. ASSUME NEW g \in Announcers, Announce(g) PROVE TypeOK'
  <2> DEFINE k == ConnOf(g)
  <2>1. k \in Conns
      BY DEF ConnOf, Conns
  <2>2. announcing' \in [Announcers -> Seq(BOOLEAN)] /\ \A h \in Announcers : Len(announcing'[h]) <= 1
    <3>1. announcing' = [announcing EXCEPT ![g] = <<>>]
        BY <1>9 DEF Announce
    <3> QED BY <1>t, <3>1 DEF TypeOK
  <2>3. Head(announcing[g]) \in BOOLEAN
      BY <1>t, <1>9, HeadTailProperties DEF Announce
  <2>4. CASE Len(connChan[k]) < ReadyCap
    <3>1. connChan' = [connChan EXCEPT ![k] = Append(@, Head(announcing[g]))]
        BY <1>9, <2>4 DEF Announce
    <3>2. Append(connChan[k], Head(announcing[g])) \in Seq(BOOLEAN)
          /\ Len(Append(connChan[k], Head(announcing[g]))) <= ReadyCap
        BY <1>t, <2>1, <2>3, <2>4, AppendProperties, BoundsAssumption
    <3>3. connChan' \in [Conns -> Seq(BOOLEAN)] /\ \A j \in Conns : Len(connChan'[j]) <= ReadyCap
        BY <1>t, <2>1, <3>1, <3>2 DEF TypeOK
    <3>4. UNCHANGED <<panicked, connReady, closed, netVars, canaryVars, handlerVars>>
        BY <1>9, <2>4 DEF Announce
    <3> QED BY <2>2, <3>3, <3>4 DEF TypeOK
  <2>5. CASE ~(Len(connChan[k]) < ReadyCap)
    <3>1. panicked' = TRUE /\ UNCHANGED <<connChan, connReady, closed, netVars, canaryVars, handlerVars>>
        BY <1>9, <2>5 DEF Announce
    <3> QED BY <2>2, <3>1 DEF TypeOK
  <2> QED BY <2>4, <2>5
<1>10. CASE Tick \/ TickXsub
  <2>1. /\ testPc' \in [Tests -> {"idle", "tick", "call", "compare", "store", "send"}]
        /\ \A t \in Spawned : testPc'[t] # "tick"
      BY <1>t, <1>10, TestsType DEF Tick, TickXsub, TypeOK
  <2> QED BY <1>10, <2>1 DEF Tick, TickXsub, TypeOK
<1>11. ASSUME NEW t \in Tests, CanaryCall(t) PROVE TypeOK'
  <2>1. /\ testPc' \in [Tests -> {"idle", "tick", "call", "compare", "store", "send"}]
        /\ \A s \in Spawned : testPc'[s] # "tick"
      BY <1>t, <1>11, TestsType DEF CanaryCall, TypeOK
  <2>2. CanaryPasses \in BOOLEAN
      BY DEF CanaryPasses
  <2>3. result' \in [Tests -> BOOLEAN] /\ changes' \in 0 .. MaxChanges
      BY <1>t, <1>0, <1>11, <2>2 DEF CanaryCall
  <2> QED BY <1>11, <2>1, <2>3 DEF CanaryCall, TypeOK
<1>12. ASSUME NEW t \in Tests, Compare(t) \/ Store(t) \/ TakeCanary(t) PROVE TypeOK'
  <2>1. /\ testPc' \in [Tests -> {"idle", "tick", "call", "compare", "store", "send"}]
        /\ \A s \in Spawned : testPc'[s] # "tick"
      BY <1>t, <1>12, TestsType DEF Compare, Store, TakeCanary, TypeOK
  <2>2. isCanaryTrade' \in BOOLEAN
      BY <1>t, <1>12 DEF Compare, Store, TakeCanary, TypeOK
  <2> QED BY <1>12, <2>1, <2>2 DEF Compare, Store, TakeCanary, TypeOK
<1>13. CASE TakePush \/ TakeXsub
  <2>1. /\ testPc' \in [Tests -> {"idle", "tick", "call", "compare", "store", "send"}]
        /\ \A s \in Spawned : testPc'[s] # "tick"
      BY <1>t, <1>13, TestsType DEF TakePush, TakeXsub, TypeOK
  <2>2. PICK k \in Conns : connChan[k] # <<>> /\ connChan' = [connChan EXCEPT ![k] = Tail(@)]
      BY <1>13 DEF TakePush, TakeXsub, Conns
  <2>3. Tail(connChan[k]) \in Seq(BOOLEAN) /\ Len(Tail(connChan[k])) <= ReadyCap
    <3>1. Len(connChan[k]) \in Nat /\ Len(connChan[k]) <= ReadyCap
        BY <1>t, LenProperties DEF TypeOK
    <3>2. Tail(connChan[k]) \in Seq(BOOLEAN) /\ Len(Tail(connChan[k])) = Len(connChan[k]) - 1
        BY <1>t, <2>2, HeadTailProperties
    <3> QED BY <3>1, <3>2, BoundsAssumption
  <2>4. connChan' \in [Conns -> Seq(BOOLEAN)] /\ \A j \in Conns : Len(connChan'[j]) <= ReadyCap
      BY <1>t, <2>2, <2>3 DEF TypeOK
  <2> QED BY <1>13, <2>1, <2>4 DEF TakePush, TakeXsub, TypeOK
<1>14. CASE ReadInput
  <2>1. Value(handler) \in BOOLEAN /\ handler' \in {"select", "push", "xsub", "canary", "publish"}
      BY <1>14 DEF ReadInput, Value, Following, TypeOK, Conns
  <2> QED BY <1>14, <2>1 DEF ReadInput, TypeOK
<1>15. CASE Publish
    BY <1>15 DEF Publish, TypeOK
<1>16. CASE UNCHANGED vars
    BY <1>16 DEF vars, TypeOK
<1> QED
    BY <1>1, <1>2, <1>3, <1>4, <1>5, <1>6, <1>7, <1>8, <1>9, <1>10, <1>11, <1>12, <1>13,
       <1>14, <1>15, <1>16
       DEF Next, Environment, Connection, CanaryTest, HandleReady

-----------------------------------------------------------------------------
\* What handleReady has found out holds until it is told of a change.
EvaluationExact ==
    ~News =>
        /\ handler = "select" => isReady = Inputs
        /\ handler \in {"xsub", "canary"} => connReady["push"]
        /\ handler = "canary" => connReady["xsub"]
        /\ handler = "publish" => ready = Inputs

LEMMA InitEvaluation == Init => EvaluationExact
BY DEF Init, EvaluationExact, Inputs, Conns

\* A step that neither takes news nor changes an input.
LEMMA QuietKeepsEvaluation ==
    ASSUME EvaluationExact, News => News', UNCHANGED <<connReady, isCanaryTrade, handlerVars>>
    PROVE  EvaluationExact'
BY DEF EvaluationExact, Inputs, handlerVars

\* A step that leaves news.
LEMMA NewsKeepsEvaluation == News' => EvaluationExact'
BY DEF EvaluationExact

\* setReady either changes nothing or leaves news.
LEMMA SetReadyNews ==
    ASSUME TypeOK, NEW k \in Conns, NEW g \in Announcers, NEW val \in BOOLEAN,
           SetReady(k, g, val)
    PROVE  News' \/ UNCHANGED <<connReady, connChan, announcing, panicked>>
<1>1. CASE connReady[k] = val
    BY <1>1 DEF SetReady, TypeOK
<1>2. CASE connReady[k] # val
  <2>1. announcing'[g] = <<val>>
      BY <1>2 DEF SetReady, TypeOK
  <2> QED BY <2>1 DEF News
<1> QED
    BY <1>1, <1>2

LEMMA StepEvaluation == TypeOK /\ EvaluationExact /\ [Next]_vars => EvaluationExact'
<1> SUFFICES ASSUME TypeOK, EvaluationExact, [Next]_vars PROVE EvaluationExact'
    OBVIOUS
<1>t. /\ events \in [Conns -> Seq(BOOLEAN)]
      /\ connChan \in [Conns -> Seq(BOOLEAN)]
      /\ announcing \in [Announcers -> Seq(BOOLEAN)]
      /\ testPc \in [Tests -> {"idle", "tick", "call", "compare", "store", "send"}]
    BY DEF TypeOK
<1>1. CASE Environment \/ UNCHANGED vars
  <2>1. UNCHANGED <<connVars, canaryVars, handlerVars>>
      BY <1>1 DEF Environment, Connect, Break, RetryFails, GateMessage, GateTrading, vars
  <2>2. News' = News
      BY <2>1 DEF News, connVars, canaryVars
  <2> QED BY <2>1, <2>2, QuietKeepsEvaluation DEF connVars, canaryVars
<1>2. ASSUME NEW k \in Conns, NEW g \in Announcers, NEW val \in BOOLEAN, SetReady(k, g, val),
             UNCHANGED <<canaryVars, handlerVars>>
      PROVE  EvaluationExact'
  <2>1. CASE News'
      BY <2>1, NewsKeepsEvaluation
  <2>2. CASE UNCHANGED <<connReady, connChan, announcing, panicked>>
    <3>1. News' = News
        BY <1>2, <2>2 DEF News, canaryVars
    <3> QED BY <1>2, <2>2, <3>1, QuietKeepsEvaluation DEF canaryVars
  <2> QED BY <1>2, <2>1, <2>2, SetReadyNews
<1>3. CASE PushStatus
  <2>1. Head(events["push"]) \in BOOLEAN
      BY <1>t, <1>3, HeadTailProperties DEF PushStatus, Conns
  <2> QED BY <1>2, <1>3, <2>1 DEF PushStatus, Conns, Announcers
<1>4. CASE MonitorStatus
  <2>1. CASE Head(events["xsub"])
    <3>1. UNCHANGED <<connReady, announcing, connChan, panicked, canaryVars, handlerVars>>
        BY <1>4, <2>1 DEF MonitorStatus
    <3>2. News' = News
        BY <3>1 DEF News, canaryVars
    <3> QED BY <3>1, <3>2, QuietKeepsEvaluation DEF canaryVars
  <2>2. CASE ~Head(events["xsub"])
      BY <1>2, <1>4, <2>2 DEF MonitorStatus, Conns, Announcers
  <2> QED BY <2>1, <2>2
<1>5. CASE ReadMessage
    BY <1>2, <1>5 DEF ReadMessage, Conns, Announcers
<1>6. ASSUME NEW g \in Announcers, Announce(g) PROVE EvaluationExact'
  <2> DEFINE k == ConnOf(g)
  <2>1. k \in Conns /\ Head(announcing[g]) \in BOOLEAN
      BY <1>t, <1>6, HeadTailProperties DEF Announce, ConnOf, Conns
  <2>2. CASE Len(connChan[k]) < ReadyCap
    <3>1. connChan'[k] = Append(connChan[k], Head(announcing[g]))
        BY <1>t, <1>6, <2>1, <2>2 DEF Announce
    <3>2. connChan'[k] # <<>>
        BY <1>t, <2>1, <3>1, AppendProperties
    <3> QED BY <2>1, <3>2, NewsKeepsEvaluation DEF News
  <2>3. CASE ~(Len(connChan[k]) < ReadyCap)
      BY <1>6, <2>3, NewsKeepsEvaluation DEF Announce, News
  <2> QED BY <2>2, <2>3
<1>7. ASSUME NEW t \in Tests,
             Tick \/ TickXsub \/ CanaryCall(t) \/ Compare(t)
      PROVE  EvaluationExact'
  <2>1. UNCHANGED <<isCanaryTrade, connVars, handlerVars>>
      BY <1>7 DEF Tick, TickXsub, CanaryCall, Compare
  <2>2. \A s \in Tests : testPc[s] = "send" => testPc'[s] = "send"
      BY <1>t, <1>7, TestsType DEF Tick, TickXsub, CanaryCall, Compare
  <2>3. News => News'
      BY <2>1, <2>2 DEF News, connVars
  <2> QED BY <2>1, <2>3, QuietKeepsEvaluation DEF connVars
<1>8. ASSUME NEW t \in Tests, Store(t) PROVE EvaluationExact'
    BY <1>t, <1>8, NewsKeepsEvaluation DEF Store, News
<1>9. ASSUME NEW t \in Tests, TakePush \/ TakeXsub \/ TakeCanary(t) PROVE EvaluationExact'
    BY <1>9 DEF TakePush, TakeXsub, TakeCanary, EvaluationExact
<1>10. CASE ReadInput \/ Publish
  <2>1. UNCHANGED <<connReady, isCanaryTrade, connVars, canaryVars>>
      BY <1>10 DEF ReadInput, Publish, connVars, canaryVars
  <2>2. News' = News /\ Inputs' = Inputs
      BY <2>1 DEF News, Inputs, connVars, canaryVars
  <2> SUFFICES ASSUME ~News PROVE EvaluationExact'
      BY <2>2 DEF EvaluationExact
  <2>3. CASE Publish
      BY <2>2, <2>3 DEF Publish, EvaluationExact
  <2>4. CASE ReadInput /\ handler = "push"
      BY <2>1, <2>2, <2>4 DEF ReadInput, Value, Following, EvaluationExact, Inputs, TypeOK, Conns
  <2>5. CASE ReadInput /\ handler = "xsub"
      BY <2>1, <2>2, <2>5 DEF ReadInput, Value, Following, EvaluationExact, Inputs, TypeOK, Conns
  <2>6. CASE ReadInput /\ handler = "canary"
      BY <2>1, <2>2, <2>6 DEF ReadInput, Value, Following, EvaluationExact, Inputs, TypeOK, Conns
  <2> QED BY <1>10, <2>3, <2>4, <2>5, <2>6 DEF ReadInput
<1> QED
    BY <1>1, <1>3, <1>4, <1>5, <1>6, <1>7, <1>8, <1>9, <1>10, TestsType
       DEF Next, Connection, CanaryTest, HandleReady

\* Every variable keeps its type; a ready channel never holds more than its
\* capacity and setReady has at most one value to send.
THEOREM TypeCorrect == Spec => []TypeOK
BY InitType, StepType, PTL DEF Spec

\* With no news under way, a waiting handleReady has published what the
\* connections and the last canary order amount to.
THEOREM ReadinessFollows == Spec => []ReadyFollowsInputs
<1>1. EvaluationExact => ReadyFollowsInputs
    BY DEF EvaluationExact, ReadyFollowsInputs
<1> QED
    BY InitType, StepType, InitEvaluation, StepEvaluation, <1>1, PTL DEF Spec
=============================================================================
