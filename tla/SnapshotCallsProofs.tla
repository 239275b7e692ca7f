------------------------ MODULE SnapshotCallsProofs ------------------------
(***************************************************************************)
(* Theorems about SnapshotCalls, for any number of users, calls and        *)
(* unsubscribers, with and without deadlines and faults; those on the      *)
(* cache and the feed without unsubscribers and faults, and the last one,  *)
(* on what a subscriber returns, without deadlines as well.                *)
(***************************************************************************)
EXTENDS SnapshotCalls, SequenceTheorems, TLAPS

-----------------------------------------------------------------------------
(* Type correctness.                                                         *)

LEMMA InitTypeOK == Init => TypeOK
  BY BookAssumption DEF Init, TypeOK, CallStates, Messages, Snapshots, Snapshot, Changes

\* The first changes of a book are changes, and so is the next one.
LEMMA PrefixOfChanges ==
    ASSUME NEW n \in 0 .. MaxChanges
    PROVE  1 .. n \in SUBSET Changes
<1>1. n \in Int /\ n <= MaxChanges
  BY BookAssumption
<1>2. ASSUME NEW k \in 1 .. n PROVE k \in Changes
  BY <1>1, BookAssumption DEF Changes
<1> QED
  BY <1>2

LEMMA NextChange ==
    ASSUME NEW n \in 0 .. MaxChanges, n < MaxChanges
    PROVE  n + 1 \in Changes /\ n + 1 \in 0 .. MaxChanges
  BY BookAssumption DEF Changes

\* What the gate sends has the type of a message.
LEMMA SnapshotType ==
    ASSUME NEW u \in Users, NEW n \in 0 .. MaxChanges
    PROVE  Snapshot(u, n) \in Messages
  BY DEF Snapshot, Snapshots, Messages

LEMMA ReportType ==
    ASSUME NEW u \in Users, NEW n \in Changes
    PROVE  Report(u, n) \in Messages
  BY DEF Report, Reports, Messages

LEMMA NextTypeOK == TypeOK /\ [Next]_vars => TypeOK'
<1> SUFFICES ASSUME TypeOK, [Next]_vars PROVE TypeOK'
  OBVIOUS
<1> USE BookAssumption DEF TypeOK
<1>1. ASSUME NEW c \in Calls, Start(c) PROVE TypeOK'
  BY <1>1 DEF Start, Goto, CallStates, containerVars, unsubVars, gateVars
<1>2. ASSUME NEW c \in Calls, Accept(c) PROVE TypeOK'
  BY <1>2 DEF Accept, Goto, WithAccepted, CallStates, containerVars, unsubVars, gateVars
<1>3. ASSUME NEW c \in Calls, CheckCache(c) PROVE TypeOK'
  BY <1>3 DEF CheckCache, Goto, CallStates, containerVars, unsubVars, gateVars
<1>4. ASSUME NEW c \in Calls, Register(c) PROVE TypeOK'
  BY <1>4 DEF Register, Goto, SubscriptionPending, CallStates, containerVars, unsubVars, gateVars
<1>5. ASSUME NEW c \in Calls, Subscribe(c) PROVE TypeOK'
  <2>1. Append(wire, [kind |-> "subscribe", user |-> callUser[c]]) \in Seq(Requests)
    BY AppendProperties DEF Requests
  <2>2. wire' \in Seq(Requests)
    <3>1. \/ wire' = Append(wire, [kind |-> "subscribe", user |-> callUser[c]])
          \/ wire' = wire
      BY <1>5 DEF Subscribe
    <3> QED
      BY <2>1, <3>1
  <2>3. pc' \in [Calls -> CallStates]
    <3>1. \/ pc' = [pc EXCEPT ![c] = "wait"]
          \/ pc' = [pc EXCEPT ![c] = "unregister"]
      BY <1>5 DEF Subscribe, Goto
    <3> QED
      BY <3>1 DEF CallStates
  <2>4. outcome' \in [Calls -> {"none", "ok", "deadline", "send failed", "unlocked"}]
    <3>1. outcome' = outcome \/ outcome' = [outcome EXCEPT ![c] = "send failed"]
      BY <1>5 DEF Subscribe
    <3> QED
      BY <3>1
  <2>5. UNCHANGED <<acceptedUsers, pendingSnap, doneBuf, locks, users, callUser, result,
                    duplicateRequest, asOf, input, unsubPc, unsubUser, reports, subscribed, book>>
    BY <1>5 DEF Subscribe, containerVars, unsubVars, gateVars
  <2> QED
    BY <2>2, <2>3, <2>4, <2>5
<1>6. ASSUME NEW c \in Calls, Wake(c) PROVE TypeOK'
  BY <1>6 DEF Wake, Goto, CallStates, containerVars, unsubVars, gateVars
<1>7. ASSUME NEW c \in Calls, Expire(c) PROVE TypeOK'
  BY <1>7 DEF Expire, Goto, CallStates, containerVars, unsubVars, gateVars
<1>8. ASSUME NEW c \in Calls, Unregister(c) PROVE TypeOK'
  BY <1>8 DEF Unregister, Goto, Remaining, CallStates, containerVars, unsubVars, gateVars
<1>9. ASSUME NEW c \in Calls, ReadOrders(c) PROVE TypeOK'
  BY <1>9 DEF ReadOrders, Goto, CallStates, containerVars, unsubVars, gateVars
<1>10. CASE Receive
  <2>1. Head(reports) \in Messages /\ Tail(reports) \in Seq(Messages)
    BY <1>10, HeadTailProperties DEF Receive
  <2>2. input' \in [pc : {"idle"}, msg : Messages]
                 \cup [pc : {"lock", "write", "notify"}, msg : Snapshots]
                 \cup [pc : {"apply"}, msg : Reports]
    BY <1>10, <2>1 DEF Receive, Handling, Messages, Snapshots, Reports
  <2> QED
    BY <1>10, <2>1, <2>2 DEF Receive, callVars, containerVars, unsubVars, gateVars
<1>11. CASE StoreLock
  <2>1. input.msg \in Snapshots
    BY <1>11 DEF StoreLock
  <2>2. input' = [pc |-> "write", msg |-> input.msg] /\ input.msg.user \in Users
    BY <1>11, <2>1 DEF StoreLock, Snapshots
  <2> QED
    BY <1>11, <2>1, <2>2 DEF StoreLock, callVars, unsubVars, gateVars
<1>12. CASE WriteOrders
  <2>1. input.msg \in Snapshots
    BY <1>12 DEF WriteOrders
  <2>2. input' = [pc |-> "notify", msg |-> input.msg]
    BY <1>12, <2>1 DEF WriteOrders
  <2>3. 1 .. input.msg.change \in SUBSET Changes
    <3>1. input.msg.change \in 0 .. MaxChanges
      BY <2>1 DEF Snapshots
    <3> QED
      BY <3>1, PrefixOfChanges
  <2> QED
    BY <1>12, <2>1, <2>2, <2>3 DEF WriteOrders, callVars, unsubVars, gateVars
<1>13. CASE Notify
  <2>1. input' = [pc |-> "idle", msg |-> input.msg] /\ input.msg \in Messages
    BY <1>13 DEF Notify, Messages
  <2>2. Woken(input.msg.user) \subseteq Calls
    <3>1. input.msg.user \in Users
      BY <1>13 DEF Notify, Snapshots
    <3> QED
      BY <3>1 DEF Woken
  <2> QED
    BY <1>13, <2>1, <2>2 DEF Notify, callVars, containerVars, unsubVars, gateVars
<1>14. CASE ApplyReport
  <2>1. input.msg \in Reports
    BY <1>14 DEF ApplyReport
  <2>2. input' = [pc |-> "idle", msg |-> input.msg]
    BY <1>14, <2>1 DEF ApplyReport
  <2>3. WithChange(input.msg.user, input.msg.change) \in SUBSET Changes
    BY <2>1 DEF WithChange, Reports
  <2>4. users' \in [Users -> SUBSET Changes]
    BY <1>14, <2>3 DEF ApplyReport
  <2> QED
    BY <1>14, <2>1, <2>2, <2>4 DEF ApplyReport, Messages, callVars, unsubVars, gateVars
<1>15. ASSUME NEW t \in Unsubscribers, SendUnsubscribe(t) PROVE TypeOK'
  <2>1. Append(wire, [kind |-> "unsubscribe", user |-> unsubUser[t]]) \in Seq(Requests)
    BY AppendProperties DEF Requests
  <2> QED
    BY <1>15, <2>1 DEF SendUnsubscribe, UnsubGoto, callVars, containerVars, gateVars
<1>16. ASSUME NEW t \in Unsubscribers, Forget(t) PROVE TypeOK'
  BY <1>16 DEF Forget, UnsubGoto, callVars, containerVars, gateVars
<1>17. ASSUME NEW t \in Unsubscribers, DeleteOrders(t) PROVE TypeOK'
  BY <1>17 DEF DeleteOrders, UnsubGoto, callVars, gateVars
<1>18. CASE GateSubscribe
  <2>1. Head(wire) \in Requests /\ Tail(wire) \in Seq(Requests)
    BY <1>18, HeadTailProperties DEF GateSubscribe
  <2>2. Head(wire).user \in Users
    BY <2>1 DEF Requests
  <2>3. Snapshot(Head(wire).user, book[Head(wire).user]) \in Messages
    BY <2>2, SnapshotType
  <2>4. Append(reports, Snapshot(Head(wire).user, book[Head(wire).user])) \in Seq(Messages)
    BY <2>3, AppendProperties
  <2> QED
    BY <1>18, <2>1, <2>2, <2>4 DEF GateSubscribe, callVars, containerVars, unsubVars
<1>19. CASE GateUnsubscribe
  <2>1. Tail(wire) \in Seq(Requests)
    BY <1>19, HeadTailProperties DEF GateUnsubscribe
  <2> QED
    BY <1>19, <2>1 DEF GateUnsubscribe, callVars, containerVars, unsubVars
<1>20. ASSUME NEW u \in Users, GateChange(u) PROVE TypeOK'
  <2>1. book[u] + 1 \in Changes /\ book[u] + 1 \in 0 .. MaxChanges
    BY <1>20, NextChange DEF GateChange
  <2>2. Report(u, book[u] + 1) \in Messages
    BY <2>1, ReportType
  <2>3. Append(reports, Report(u, book[u] + 1)) \in Seq(Messages)
    BY <2>2, AppendProperties
  <2> QED
    BY <1>20, <2>1, <2>3 DEF GateChange, callVars, containerVars, unsubVars
<1>21. CASE LoseMessage
  <2>1. Tail(reports) \in Seq(Messages)
    BY <1>21, HeadTailProperties DEF LoseMessage
  <2> QED
    BY <1>21, <2>1 DEF LoseMessage, callVars, containerVars, unsubVars, gateVars
<1>22. CASE UNCHANGED vars
  BY <1>22 DEF vars, callVars, containerVars, unsubVars, gateVars
<1> QED
  BY <1>1, <1>2, <1>3, <1>4, <1>5, <1>6, <1>7, <1>8, <1>9, <1>10, <1>11, <1>12, <1>13,
     <1>14, <1>15, <1>16, <1>17, <1>18, <1>19, <1>20, <1>21, <1>22
     DEF Next, CallStep, InputStep, UnsubStep, GateStep

\* Every variable keeps its type: in particular no message carries a change
\* that its user's book does not have.
THEOREM TypeCorrect == Spec => []TypeOK
<1>1. Init => TypeOK
  BY InitTypeOK
<1>2. TypeOK /\ [Next]_vars => TypeOK'
  BY NextTypeOK
<1> QED
  BY <1>1, <1>2, PTL DEF Spec

-----------------------------------------------------------------------------
(* The calls that wait are the calls that are registered.                    *)

LEMMA InitPendingSnapExact == Init => PendingSnapExact
  BY DEF Init, PendingSnapExact, Registered

LEMMA NextPendingSnapExact ==
    TypeOK /\ PendingSnapExact /\ [Next]_vars => PendingSnapExact'
<1> SUFFICES ASSUME TypeOK, PendingSnapExact, [Next]_vars PROVE PendingSnapExact'
  OBVIOUS
<1>t. /\ pc \in [Calls -> CallStates]
      /\ callUser \in [Calls -> Users]
      /\ pendingSnap \in [Users -> SUBSET Calls]
  BY DEF TypeOK
\* A step that moves a call without crossing the border of Registered.
<1>m. ASSUME NEW c \in Calls, NEW to, pc' = [pc EXCEPT ![c] = to],
             pc[c] \in Registered <=> to \in Registered,
             UNCHANGED <<pendingSnap, callUser>>
      PROVE  PendingSnapExact'
  BY <1>m, <1>t DEF PendingSnapExact
\* A step of somebody else.
<1>o. ASSUME UNCHANGED <<pendingSnap, callUser, pc>> PROVE PendingSnapExact'
  BY <1>o DEF PendingSnapExact
<1>1. ASSUME NEW c \in Calls, Start(c) PROVE PendingSnapExact'
  BY <1>1, <1>m DEF Start, Goto, Registered
<1>2. ASSUME NEW c \in Calls, Accept(c) PROVE PendingSnapExact'
  BY <1>2, <1>m DEF Accept, Goto, Registered
<1>3. ASSUME NEW c \in Calls, CheckCache(c) PROVE PendingSnapExact'
  BY <1>3, <1>m DEF CheckCache, Goto, Registered
<1>4. ASSUME NEW c \in Calls, Register(c) PROVE PendingSnapExact'
  <2>1. /\ pc[c] \notin Registered
        /\ pc'[c] \in Registered
        /\ \A d \in Calls \ {c} : pc'[d] = pc[d]
        /\ pendingSnap' = [pendingSnap EXCEPT ![callUser[c]] = @ \cup {c}]
        /\ callUser' = callUser
    BY <1>4, <1>t DEF Register, Goto, Registered
  <2> QED
    BY <2>1, <1>t DEF PendingSnapExact
<1>5. ASSUME NEW c \in Calls, Subscribe(c) PROVE PendingSnapExact'
  BY <1>5, <1>m DEF Subscribe, Goto, Registered
<1>6. ASSUME NEW c \in Calls, Wake(c) PROVE PendingSnapExact'
  BY <1>6, <1>m DEF Wake, Goto, Registered
<1>7. ASSUME NEW c \in Calls, Expire(c) PROVE PendingSnapExact'
  BY <1>7, <1>m DEF Expire, Goto, Registered
<1>8. ASSUME NEW c \in Calls, Unregister(c) PROVE PendingSnapExact'
  <2>1. /\ pc[c] \in Registered
        /\ pc'[c] \notin Registered
        /\ \A d \in Calls \ {c} : pc'[d] = pc[d]
        /\ pendingSnap' = [pendingSnap EXCEPT ![callUser[c]] = @ \ {c}]
        /\ callUser' = callUser
    BY <1>8, <1>t DEF Unregister, Remaining, Goto, Registered
  <2> QED
    BY <2>1, <1>t DEF PendingSnapExact
<1>9. ASSUME NEW c \in Calls, ReadOrders(c) PROVE PendingSnapExact'
  BY <1>9, <1>m DEF ReadOrders, Goto, Registered
<1>10. CASE InputStep
  BY <1>10, <1>o DEF InputStep, Receive, StoreLock, WriteOrders, Notify, ApplyReport, callVars
<1>11. ASSUME NEW t \in Unsubscribers, UnsubStep(t) PROVE PendingSnapExact'
  BY <1>11, <1>o DEF UnsubStep, SendUnsubscribe, Forget, DeleteOrders, callVars
<1>12. CASE GateStep \/ LoseMessage \/ \E u \in Users : GateChange(u)
  BY <1>12, <1>o DEF GateStep, GateSubscribe, GateUnsubscribe, LoseMessage, GateChange, callVars
<1>13. CASE UNCHANGED vars
  BY <1>13, <1>o DEF vars, callVars
<1> QED
  BY <1>1, <1>2, <1>3, <1>4, <1>5, <1>6, <1>7, <1>8, <1>9, <1>10, <1>11, <1>12, <1>13
     DEF Next, CallStep

\* Between its registration and its deferred removal, and only then, a call is
\* found by handleSnapshot under its own user; nobody's return removes another.
THEOREM PendingSnapIsExact == Spec => []PendingSnapExact
<1>1. Init => PendingSnapExact
  BY InitPendingSnapExact
<1>2. TypeOK /\ PendingSnapExact /\ [Next]_vars => PendingSnapExact'
  BY NextPendingSnapExact
<1> QED
  BY <1>1, <1>2, TypeCorrect, PTL DEF Spec
-----------------------------------------------------------------------------
(* A call that was woken finds the cache, or an Unsubscribe took it away.    *)

\* The user is cached, or has been flushed by an Unsubscribe.
CachedOrFlushed(u) ==
    \/ u \in locks
    \/ \E t \in Unsubscribers : unsubUser[t] = u /\ unsubPc[t] = "returned"

\* The calls on the way from their wake-up to the read of the cache.
Served ==
    doneBuf \cup {c \in Calls : pc[c] = "read" \/ (pc[c] = "unregister" /\ outcome[c] = "ok")}

\* The strengthening: the snapshot is stored before anybody is woken, and
\* being stored or flushed is never undone.
ServedInv ==
    /\ input.pc \in {"write", "notify"} => CachedOrFlushed(input.msg.user)
    /\ \A c \in Served : CachedOrFlushed(callUser[c])
    /\ \A c \in Calls : outcome[c] = "unlocked" =>
          /\ pc[c] = "returned"
          /\ \E t \in Unsubscribers : unsubUser[t] = callUser[c] /\ unsubPc[t] = "returned"
LEMMA InitServedInv == Init => ServedInv
  BY DEF Init, ServedInv, Served

LEMMA NextServedInv ==
    TypeOK /\ PendingSnapExact /\ ServedInv /\ [Next]_vars => ServedInv'
<1> SUFFICES ASSUME TypeOK, PendingSnapExact, ServedInv, [Next]_vars PROVE ServedInv'
  OBVIOUS
<1>t. /\ pc \in [Calls -> CallStates]
      /\ callUser \in [Calls -> Users]
      /\ outcome \in [Calls -> {"none", "ok", "deadline", "send failed", "unlocked"}]
      /\ pendingSnap \in [Users -> SUBSET Calls]
      /\ doneBuf \subseteq Calls
      /\ unsubPc \in [Unsubscribers -> {"start", "forget", "delete", "returned"}]
      /\ input \in [pc : {"idle"}, msg : Messages]
                 \cup [pc : {"lock", "write", "notify"}, msg : Snapshots]
                 \cup [pc : {"apply"}, msg : Reports]
  BY DEF TypeOK
\* A step that leaves Unsubscribe and input() alone and makes nobody served
\* who was not: at most the calls that are cached now join.
<1>m. ASSUME UNCHANGED <<locks, unsubPc, unsubUser, input, callUser>>,
             \A c \in Served' : c \in Served \/ (c \in Calls /\ callUser[c] \in locks),
             \A c \in Calls : outcome'[c] = "unlocked" => outcome[c] = "unlocked" /\ pc'[c] = pc[c]
      PROVE  ServedInv'
  BY <1>m DEF ServedInv, CachedOrFlushed
<1>1. ASSUME NEW c \in Calls, Start(c) PROVE ServedInv'
  <2>1. UNCHANGED <<locks, unsubPc, unsubUser, input, callUser, outcome, doneBuf>>
    BY <1>1 DEF Start, containerVars, unsubVars
  <2>2. /\ pc[c] = "start" /\ pc'[c] \in {"read", "accept"}
        /\ pc'[c] = "read" => callUser[c] \in locks
        /\ \A d \in Calls \ {c} : pc'[d] = pc[d]
    BY <1>1, <1>t DEF Start, Goto
  <2> QED
    BY <2>1, <2>2, <1>m DEF Served, ServedInv
<1>2. ASSUME NEW c \in Calls, Accept(c) PROVE ServedInv'
  <2>1. UNCHANGED <<locks, unsubPc, unsubUser, input, callUser, outcome, doneBuf>>
    BY <1>2 DEF Accept, containerVars, unsubVars
  <2>2. /\ pc[c] = "accept" /\ pc'[c] = "check"
        /\ \A d \in Calls \ {c} : pc'[d] = pc[d]
    BY <1>2, <1>t DEF Accept, Goto
  <2> QED
    BY <2>1, <2>2, <1>m DEF Served, ServedInv
<1>3. ASSUME NEW c \in Calls, CheckCache(c) PROVE ServedInv'
  <2>1. UNCHANGED <<locks, unsubPc, unsubUser, input, callUser, outcome, doneBuf>>
    BY <1>3 DEF CheckCache, containerVars, unsubVars
  <2>2. /\ pc[c] = "check" /\ pc'[c] \in {"read", "register"}
        /\ pc'[c] = "read" => callUser[c] \in locks
        /\ \A d \in Calls \ {c} : pc'[d] = pc[d]
    BY <1>3, <1>t DEF CheckCache, Goto
  <2> QED
    BY <2>1, <2>2, <1>m DEF Served, ServedInv
<1>4. ASSUME NEW c \in Calls, Register(c) PROVE ServedInv'
  <2>1. UNCHANGED <<locks, unsubPc, unsubUser, input, callUser, outcome, doneBuf>>
    BY <1>4 DEF Register, containerVars, unsubVars
  <2>2. /\ pc[c] = "register" /\ pc'[c] \in {"wait", "subscribe"}
        /\ \A d \in Calls \ {c} : pc'[d] = pc[d]
    BY <1>4, <1>t DEF Register, Goto
  <2> QED
    BY <2>1, <2>2, <1>m DEF Served, ServedInv
<1>5. ASSUME NEW c \in Calls, Subscribe(c) PROVE ServedInv'
  <2>1. UNCHANGED <<locks, unsubPc, unsubUser, input, callUser, doneBuf>>
    BY <1>5 DEF Subscribe, containerVars, unsubVars
  <2>2. /\ pc[c] = "subscribe"
        /\ \/ pc'[c] = "wait" /\ outcome'[c] = outcome[c]
           \/ pc'[c] = "unregister" /\ outcome'[c] = "send failed"
        /\ \A d \in Calls \ {c} : pc'[d] = pc[d] /\ outcome'[d] = outcome[d]
    <3>1. CASE Goto(c, "subscribe", "wait") /\ UNCHANGED outcome
      BY <3>1, <1>t DEF Goto
    <3>2. CASE /\ Goto(c, "subscribe", "unregister")
               /\ outcome' = [outcome EXCEPT ![c] = "send failed"]
      BY <3>2, <1>t DEF Goto
    <3> QED
      BY <3>1, <3>2, <1>5 DEF Subscribe
  <2> QED
    BY <2>1, <2>2, <1>m DEF Served, ServedInv
<1>6. ASSUME NEW c \in Calls, Wake(c) PROVE ServedInv'
  <2>1. UNCHANGED <<locks, unsubPc, unsubUser, input, callUser>> /\ doneBuf' = doneBuf \ {c}
    BY <1>6 DEF Wake, containerVars, unsubVars
  <2>2. /\ pc[c] = "wait" /\ pc'[c] = "unregister" /\ outcome'[c] = "ok" /\ c \in doneBuf
        /\ \A d \in Calls \ {c} : pc'[d] = pc[d] /\ outcome'[d] = outcome[d]
    BY <1>6, <1>t DEF Wake, Goto
  <2> QED
    BY <2>1, <2>2, <1>m DEF Served, ServedInv
<1>7. ASSUME NEW c \in Calls, Expire(c) PROVE ServedInv'
  <2>1. UNCHANGED <<locks, unsubPc, unsubUser, input, callUser, doneBuf>>
    BY <1>7 DEF Expire, containerVars, unsubVars
  <2>2. /\ pc[c] = "wait" /\ pc'[c] = "unregister" /\ outcome'[c] = "deadline"
        /\ \A d \in Calls \ {c} : pc'[d] = pc[d] /\ outcome'[d] = outcome[d]
    BY <1>7, <1>t DEF Expire, Goto
  <2> QED
    BY <2>1, <2>2, <1>m DEF Served, ServedInv
<1>8. ASSUME NEW c \in Calls, Unregister(c) PROVE ServedInv'
  <2>1. UNCHANGED <<locks, unsubPc, unsubUser, input, callUser, outcome, doneBuf>>
    BY <1>8 DEF Unregister, containerVars, unsubVars
  <2>2. /\ pc[c] = "unregister" /\ pc'[c] \in {"read", "returned"}
        /\ pc'[c] = "read" => outcome[c] = "ok"
        /\ \A d \in Calls \ {c} : pc'[d] = pc[d]
    BY <1>8, <1>t DEF Unregister, Goto
  <2> QED
    BY <2>1, <2>2, <1>m DEF Served, ServedInv
<1>9. ASSUME NEW c \in Calls, ReadOrders(c) PROVE ServedInv'
  <2>1. UNCHANGED <<locks, unsubPc, unsubUser, input, callUser, doneBuf>>
    BY <1>9 DEF ReadOrders, containerVars, unsubVars
  <2>2. /\ pc[c] = "read" /\ pc'[c] = "returned"
        /\ outcome'[c] = "unlocked" => callUser[c] \notin locks
        /\ \A d \in Calls \ {c} : pc'[d] = pc[d] /\ outcome'[d] = outcome[d]
    BY <1>9, <1>t DEF ReadOrders, Goto
  <2>3. CachedOrFlushed(callUser[c])
    <3>1. c \in Served
      BY <2>2 DEF Served
    <3> QED
      BY <3>1 DEF ServedInv
  <2>4. \A d \in Served' : d \in Served
    BY <2>1, <2>2 DEF Served
  <2> QED
    BY <2>1, <2>2, <2>3, <2>4 DEF ServedInv, CachedOrFlushed
<1>10. CASE Receive
  <2>1. UNCHANGED <<locks, unsubPc, unsubUser, callUser, outcome, pc, doneBuf>>
    BY <1>10 DEF Receive, containerVars, unsubVars, callVars
  <2>2. input'.pc \notin {"write", "notify"}
    BY <1>10 DEF Receive, Handling
  <2> QED
    BY <2>1, <2>2 DEF ServedInv, Served, CachedOrFlushed
<1>11. CASE StoreLock
  <2>1. UNCHANGED <<unsubPc, unsubUser, callUser, outcome, pc, doneBuf>>
    BY <1>11 DEF StoreLock, unsubVars, callVars
  <2>2. locks' = locks \cup {input.msg.user} /\ input'.msg = input.msg
    BY <1>11, <1>t DEF StoreLock
  <2> QED
    BY <2>1, <2>2 DEF ServedInv, Served, CachedOrFlushed
<1>12. CASE WriteOrders
  <2>1. UNCHANGED <<locks, unsubPc, unsubUser, callUser, outcome, pc, doneBuf>>
    BY <1>12 DEF WriteOrders, unsubVars, callVars
  <2>2. input.pc = "write" /\ input'.msg = input.msg
    BY <1>12, <1>t DEF WriteOrders
  <2> QED
    BY <2>1, <2>2 DEF ServedInv, Served, CachedOrFlushed
<1>13. CASE Notify
  <2>1. UNCHANGED <<locks, unsubPc, unsubUser, callUser, outcome, pc>>
    BY <1>13 DEF Notify, containerVars, unsubVars, callVars
  <2>2. input.pc = "notify" /\ input'.pc = "idle" /\ input.msg.user \in Users
    BY <1>13, <1>t DEF Notify, Snapshots
  <2>3. doneBuf' = doneBuf \cup pendingSnap[input.msg.user]
    BY <1>13 DEF Notify, Woken
  <2>4. \A c \in pendingSnap[input.msg.user] : callUser[c] = input.msg.user
    BY <2>2 DEF PendingSnapExact
  <2> QED
    BY <2>1, <2>2, <2>3, <2>4 DEF ServedInv, Served, CachedOrFlushed
<1>14. CASE ApplyReport
  <2>1. UNCHANGED <<locks, unsubPc, unsubUser, callUser, outcome, pc, doneBuf>>
    BY <1>14 DEF ApplyReport, unsubVars, callVars
  <2>2. input'.pc = "idle"
    BY <1>14, <1>t DEF ApplyReport
  <2> QED
    BY <2>1, <2>2 DEF ServedInv, Served, CachedOrFlushed
<1>15. ASSUME NEW t \in Unsubscribers, SendUnsubscribe(t) \/ Forget(t) PROVE ServedInv'
  <2>1. UNCHANGED <<locks, unsubUser, input, callUser, outcome, pc, doneBuf>>
    BY <1>15 DEF SendUnsubscribe, Forget, containerVars, callVars
  <2>2. \A s \in Unsubscribers : unsubPc[s] = "returned" => unsubPc'[s] = "returned"
    BY <1>15, <1>t DEF SendUnsubscribe, Forget, UnsubGoto
  <2> QED
    BY <2>1, <2>2 DEF ServedInv, Served, CachedOrFlushed
<1>16. ASSUME NEW t \in Unsubscribers, DeleteOrders(t) PROVE ServedInv'
  <2>1. UNCHANGED <<unsubUser, input, callUser, outcome, pc, doneBuf>>
    BY <1>16 DEF DeleteOrders, callVars
  <2>2. \A s \in Unsubscribers : unsubPc[s] = "returned" => unsubPc'[s] = "returned"
    BY <1>16, <1>t DEF DeleteOrders, UnsubGoto
  <2>3. unsubPc'[t] = "returned" /\ locks' = locks \ {unsubUser[t]}
    BY <1>16, <1>t DEF DeleteOrders, UnsubGoto
  <2>4. \A u : CachedOrFlushed(u) => CachedOrFlushed(u)'
    BY <2>1, <2>2, <2>3 DEF CachedOrFlushed
  <2> QED
    BY <2>1, <2>2, <2>4 DEF ServedInv, Served
<1>17. CASE GateStep \/ LoseMessage \/ \E u \in Users : GateChange(u)
  <2>1. UNCHANGED <<locks, unsubPc, unsubUser, input, callUser, outcome, pc, doneBuf>>
    BY <1>17 DEF GateStep, GateSubscribe, GateUnsubscribe, LoseMessage, GateChange,
                 callVars, containerVars, unsubVars
  <2> QED
    BY <2>1 DEF ServedInv, Served, CachedOrFlushed
<1>18. CASE UNCHANGED vars
  BY <1>18 DEF vars, callVars, containerVars, unsubVars, ServedInv, Served, CachedOrFlushed
<1> QED
  BY <1>1, <1>2, <1>3, <1>4, <1>5, <1>6, <1>7, <1>8, <1>9, <1>10, <1>11, <1>12, <1>13,
     <1>14, <1>15, <1>16, <1>17, <1>18
     DEF Next, CallStep, InputStep, UnsubStep

\* GetSnapshot gives its "fail processing" error (zmq-trader.go:319) only when
\* an Unsubscribe of the same user flushed the cache under it: with nobody
\* unsubscribing, a call that is woken always finds the orders.
THEOREM UnlockedNeedsUnsubscribe == Spec => []UnlockedOnlyByUnsubscribe
<1>1. Init => ServedInv
  BY InitServedInv
<1>2. TypeOK /\ PendingSnapExact /\ ServedInv /\ [Next]_vars => ServedInv'
  BY NextServedInv
<1>3. ServedInv => UnlockedOnlyByUnsubscribe
  BY DEF ServedInv, UnlockedOnlyByUnsubscribe
<1> QED
  BY <1>1, <1>2, <1>3, TypeCorrect, PendingSnapIsExact, PTL DEF Spec

-----------------------------------------------------------------------------
(* The cache and the feed, while nobody unsubscribes and nothing is lost.    *)

\* The changes of user u that are told after place j of a queue.
After(s, j, u) ==
    {s[i].change : i \in {k \in 1 .. Len(s) : k > j /\ s[k].kind = "report" /\ s[k].user = u}}

LEMMA AfterAppend ==
    ASSUME NEW s \in Seq(Messages), NEW m, NEW j \in 0 .. Len(s), NEW u
    PROVE  After(Append(s, m), j, u) =
              After(s, j, u) \cup IF m.kind = "report" /\ m.user = u THEN {m.change} ELSE {}
<1> DEFINE t == Append(s, m)
           I == {k \in 1 .. Len(s) : k > j /\ s[k].kind = "report" /\ s[k].user = u}
           J == {k \in 1 .. Len(t) : k > j /\ t[k].kind = "report" /\ t[k].user = u}
<1>1. /\ Len(t) = Len(s) + 1 /\ t[Len(s) + 1] = m /\ Len(s) \in Nat
      /\ \A k \in 1 .. Len(s) : t[k] = s[k]
  OBVIOUS
<1> HIDE DEF t
<1>2. J = I \cup IF m.kind = "report" /\ m.user = u THEN {Len(s) + 1} ELSE {}
  BY <1>1
<1>3. \A k \in I : t[k].change = s[k].change
  BY <1>1
<1>4. After(s, j, u) = {s[k].change : k \in I} /\ After(t, j, u) = {t[k].change : k \in J}
  BY DEF After
<1> HIDE DEF I, J
<1>5. {t[k].change : k \in J} =
         {s[k].change : k \in I} \cup IF m.kind = "report" /\ m.user = u THEN {m.change} ELSE {}
  BY <1>1, <1>2, <1>3
<1> QED
  BY <1>4, <1>5 DEF t

LEMMA AfterEnd ==
    ASSUME NEW s \in Seq(Messages), NEW j \in Nat, j >= Len(s), NEW u
    PROVE  After(s, j, u) = {}
<1>1. {k \in 1 .. Len(s) : k > j /\ s[k].kind = "report" /\ s[k].user = u} = {}
  OBVIOUS
<1> QED
  BY <1>1 DEF After

LEMMA AfterTail ==
    ASSUME NEW s \in Seq(Messages), s # <<>>, NEW j \in 0 .. Len(s) - 1, NEW u
    PROVE  After(Tail(s), j, u) = After(s, j + 1, u)
<1> DEFINE t == Tail(s)
<1>1. /\ Len(t) = Len(s) - 1 /\ Len(s) \in Nat /\ Len(s) > 0
      /\ \A k \in 1 .. Len(t) : t[k] = s[k + 1]
  OBVIOUS
<1> HIDE DEF t
<1>2. ASSUME NEW x \in After(t, j, u) PROVE x \in After(s, j + 1, u)
  <2>1. PICK k \in 1 .. Len(t) : k > j /\ t[k].kind = "report" /\ t[k].user = u /\ x = t[k].change
    BY <1>2 DEF After
  <2>2. k + 1 \in 1 .. Len(s) /\ k + 1 > j + 1 /\ t[k] = s[k + 1]
    BY <1>1, <2>1
  <2> QED
    BY <2>1, <2>2 DEF After
<1>3. ASSUME NEW x \in After(s, j + 1, u) PROVE x \in After(t, j, u)
  <2>1. PICK k \in 1 .. Len(s) : k > j + 1 /\ s[k].kind = "report" /\ s[k].user = u /\ x = s[k].change
    BY <1>3 DEF After
  <2>2. k - 1 \in 1 .. Len(t) /\ k - 1 > j /\ (k - 1) + 1 = k
    BY <1>1, <2>1
  <2>3. t[k - 1] = s[k]
    BY <1>1, <2>2
  <2> QED
    BY <2>1, <2>2, <2>3 DEF After
<1>4. After(t, j, u) = After(s, j + 1, u)
  BY <1>2, <1>3
<1> QED
  BY <1>4 DEF t

LEMMA AfterHead ==
    ASSUME NEW s \in Seq(Messages), s # <<>>, NEW u
    PROVE  After(s, 0, u) =
              After(s, 1, u) \cup IF s[1].kind = "report" /\ s[1].user = u THEN {s[1].change} ELSE {}
<1> DEFINE I == {k \in 1 .. Len(s) : k > 0 /\ s[k].kind = "report" /\ s[k].user = u}
           J == {k \in 1 .. Len(s) : k > 1 /\ s[k].kind = "report" /\ s[k].user = u}
<1>1. Len(s) \in Nat /\ Len(s) > 0
  OBVIOUS
<1>2. I = J \cup IF s[1].kind = "report" /\ s[1].user = u THEN {1} ELSE {}
  BY <1>1
<1>3. After(s, 0, u) = {s[k].change : k \in I} /\ After(s, 1, u) = {s[k].change : k \in J}
  BY DEF After
<1> HIDE DEF I, J
<1> QED
  BY <1>2, <1>3

Applying(u) ==
    IF input.pc = "apply" /\ input.msg.user = u THEN {input.msg.change} ELSE {}

LEMMA InFlightIs ==
    ASSUME TypeOK, NEW u
    PROVE  InFlight(u) = After(reports, 0, u) \cup Applying(u)
<1>0. reports \in Seq(Messages)
  BY DEF TypeOK
<1>1. DOMAIN reports = 1 .. Len(reports) /\ \A k \in 1 .. Len(reports) : k > 0
  BY <1>0
<1>2. ASSUME NEW x \in InFlight(u) PROVE x \in After(reports, 0, u) \cup Applying(u)
  <2>1. PICK n \in {reports[i] : i \in DOMAIN reports} \cup
                      (IF input.pc = "apply" THEN {input.msg} ELSE {}) :
           n.kind = "report" /\ n.user = u /\ x = n.change
    BY <1>2 DEF InFlight
  <2>2. CASE n \in {reports[i] : i \in DOMAIN reports}
    <3>1. PICK k \in 1 .. Len(reports) : n = reports[k]
      BY <1>1, <2>2
    <3> QED
      BY <1>1, <2>1, <3>1 DEF After
  <2>3. CASE input.pc = "apply" /\ n = input.msg
    BY <2>1, <2>3 DEF Applying
  <2> QED
    BY <2>1, <2>2, <2>3
<1>3. ASSUME NEW x \in After(reports, 0, u) PROVE x \in InFlight(u)
  <2>1. PICK k \in 1 .. Len(reports) :
           reports[k].kind = "report" /\ reports[k].user = u /\ x = reports[k].change
    BY <1>3 DEF After
  <2> QED
    BY <1>1, <2>1 DEF InFlight
<1>4. ASSUME NEW x \in Applying(u) PROVE x \in InFlight(u)
  <2>1. input.pc = "apply" /\ input.msg.user = u /\ x = input.msg.change
    BY <1>4 DEF Applying
  <2>2. input.msg.kind = "report"
    BY <2>1 DEF TypeOK, Reports
  <2> QED
    BY <2>1, <2>2 DEF InFlight
<1> QED
  BY <1>2, <1>3, <1>4

\* Messages of a user are under way only once it is subscribed; a snapshot is
\* followed by exactly the changes that it lacks, and no change is told twice.
QueueInv ==
    /\ \A i \in 1 .. Len(wire) : wire[i].kind = "subscribe"
    /\ \A j \in 1 .. Len(reports) :
          LET m == reports[j] IN
          /\ m.user \in subscribed
          /\ m.change <= book[m.user]
          /\ m.kind = "snapshot" => After(reports, j, m.user) = m.change + 1 .. book[m.user]
          /\ m.kind = "report" => m.change \notin After(reports, j, m.user)

\* The same of the message in hand.
InputInv ==
    input.pc # "idle" =>
        LET m == input.msg IN
        /\ m.user \in subscribed \cap acceptedUsers
        /\ m.change <= book[m.user]
        /\ m.kind = "snapshot" => After(reports, 0, m.user) = m.change + 1 .. book[m.user]
        /\ m.kind = "report" => m.change \notin After(reports, 0, m.user)

\* The cache shows what has been told and applied.
CacheInv ==
    /\ locks \subseteq acceptedUsers
    /\ \A u \in Users \ locks : users[u] = {}
    /\ input.pc \in {"write", "notify"} => input.msg.user \in locks
    /\ input.pc = "write" => users[input.msg.user] \subseteq 1 .. input.msg.change
    /\ input.pc = "notify" => users[input.msg.user] = 1 .. input.msg.change
    /\ \A u \in locks :
          (input.msg.user = u => input.pc \notin {"write", "notify"}) =>
             /\ u \in subscribed
             /\ users[u] = (1 .. book[u]) \ (After(reports, 0, u) \cup Applying(u))

FeedInv == TypeOK /\ QueueInv /\ InputInv /\ CacheInv

\* The constants of the claim.
Faithful == Unsubscribers = {} /\ ~Faults

LEMMA InitFeed == Init => FeedInv
<1> SUFFICES ASSUME Init PROVE FeedInv
  OBVIOUS
<1>1. TypeOK
  BY InitTypeOK
<1>2. QueueInv /\ InputInv /\ CacheInv
  BY DEF Init, QueueInv, InputInv, CacheInv
<1> QED
  BY <1>1, <1>2 DEF FeedInv

\* A caller may subscribe and accept its user.
LEMMA CallersKeepFeed ==
    ASSUME FeedInv, ~Faults, NEW c \in Calls, Start(c) \/ CallStep(c) \/ Expire(c)
    PROVE  QueueInv' /\ InputInv' /\ CacheInv'
<1> USE DEF containerVars, unsubVars, gateVars
<1>1. /\ UNCHANGED <<reports, subscribed, book, input, locks, users>>
      /\ acceptedUsers \subseteq acceptedUsers'
      /\ \/ wire' = wire
         \/ \E u \in Users : wire' = Append(wire, [kind |-> "subscribe", user |-> u])
  BY DEF FeedInv, TypeOK, Start, CallStep, Expire, Accept, WithAccepted, CheckCache, Register,
         Subscribe, Wake, Unregister, ReadOrders
<1>2. \A i \in 1 .. Len(wire') : wire'[i].kind = "subscribe"
  <2>1. wire \in Seq(Requests) /\ \A i \in 1 .. Len(wire) : wire[i].kind = "subscribe"
    BY DEF FeedInv, TypeOK, QueueInv
  <2>2. CASE wire' = wire
    BY <2>1, <2>2
  <2>3. ASSUME NEW u \in Users, wire' = Append(wire, [kind |-> "subscribe", user |-> u])
        PROVE  \A i \in 1 .. Len(wire') : wire'[i].kind = "subscribe"
    BY <2>1, <2>3
  <2> QED
    BY <1>1, <2>2, <2>3
<1>3. QueueInv'
  BY <1>1, <1>2 DEF FeedInv, QueueInv
<1>4. InputInv'
  BY <1>1 DEF FeedInv, InputInv
<1>5. \A u \in Users : Applying(u)' = Applying(u)
  BY <1>1 DEF Applying
<1>6. CacheInv'
  BY <1>1, <1>5 DEF FeedInv, CacheInv, TypeOK, Applying
<1> QED
  BY <1>3, <1>4, <1>6

\* Whoever takes the first message of the queue leaves the queue in order.
LEMMA ReceiveKeepsQueue ==
    ASSUME FeedInv, reports # <<>>, reports' = Tail(reports), UNCHANGED <<wire, subscribed, book>>
    PROVE  QueueInv' /\ \A u \in Users : After(reports', 0, u) = After(reports, 1, u)
<1>1. /\ reports \in Seq(Messages) /\ reports # <<>>
      /\ Len(reports') = Len(reports) - 1
      /\ \A j \in 1 .. Len(reports') : /\ reports'[j] = reports[j + 1]
                                      /\ j + 1 \in 1 .. Len(reports)
                                      /\ j \in 0 .. Len(reports) - 1
      /\ 0 \in 0 .. Len(reports) - 1
  <2>1. reports \in Seq(Messages)
    BY DEF FeedInv, TypeOK
  <2> QED
    BY <2>1
<1>2. \A j \in 0 .. Len(reports) - 1 : \A u : After(reports', j, u) = After(reports, j + 1, u)
  BY <1>1, AfterTail
<1>3. ASSUME NEW j \in 1 .. Len(reports')
      PROVE  LET m == reports'[j] IN
             /\ m.user \in subscribed'
             /\ m.change <= book'[m.user]
             /\ m.kind = "snapshot" => After(reports', j, m.user) = m.change + 1 .. book'[m.user]
             /\ m.kind = "report" => m.change \notin After(reports', j, m.user)
  BY <1>1, <1>2 DEF FeedInv, QueueInv
<1>4. QueueInv'
  BY <1>3 DEF FeedInv, QueueInv
<1> QED
  BY <1>1, <1>2, <1>4

\* The first message becomes the one in hand.
LEMMA ReceiveKeepsFeed ==
    ASSUME FeedInv, Receive PROVE QueueInv' /\ InputInv' /\ CacheInv'
<1> USE DEF containerVars, callVars, unsubVars, gateVars
<1>1. /\ input.pc = "idle" /\ reports # <<>> /\ reports' = Tail(reports)
      /\ input' = [pc |-> Handling(Head(reports)), msg |-> Head(reports)]
      /\ UNCHANGED <<acceptedUsers, locks, users, wire, subscribed, book>>
  BY DEF Receive
<1>2. reports \in Seq(Messages) /\ book \in [Users -> 0 .. MaxChanges] /\ locks \subseteq Users
  BY DEF FeedInv, TypeOK
<1>3. QueueInv' /\ \A u \in Users : After(reports', 0, u) = After(reports, 1, u)
  BY <1>1, ReceiveKeepsQueue
<1> DEFINE m == Head(reports)
<1>4. m = reports[1] /\ m \in Messages /\ 1 \in 1 .. Len(reports)
  BY <1>1, <1>2
<1>5. m.user \in Users /\ m.kind \in {"snapshot", "report"}
  BY <1>4 DEF Messages, Snapshots, Reports
<1>6. /\ m.user \in subscribed /\ m.change <= book[m.user]
      /\ m.kind = "snapshot" => After(reports, 1, m.user) = m.change + 1 .. book[m.user]
      /\ m.kind = "report" => m.change \notin After(reports, 1, m.user)
  BY <1>4 DEF FeedInv, QueueInv
<1>7. /\ input'.msg = m /\ input'.pc \in {"idle", "lock", "apply"}
      /\ input'.pc = "idle" <=> m.user \notin acceptedUsers
      /\ input'.pc = "apply" => m.kind = "report"
      /\ m.kind = "report" /\ m.user \in acceptedUsers => input'.pc = "apply"
  BY <1>1, <1>5 DEF Handling
<1> HIDE DEF m
<1>8. InputInv'
  BY <1>1, <1>3, <1>5, <1>6, <1>7 DEF InputInv
<1>9. ASSUME NEW u \in locks
      PROVE  After(reports', 0, u) \cup Applying(u)' = After(reports, 0, u) \cup Applying(u)
  <2>1. u \in acceptedUsers /\ u \in Users
    BY <1>2 DEF FeedInv, CacheInv
  <2>2. Applying(u) = {}
    BY <1>1 DEF Applying
  <2>3. Applying(u)' = IF m.kind = "report" /\ m.user = u THEN {m.change} ELSE {}
    BY <1>7, <2>1 DEF Applying
  <2>4. After(reports, 0, u) = After(reports, 1, u) \cup
                                  IF m.kind = "report" /\ m.user = u THEN {m.change} ELSE {}
    BY <1>1, <1>2, <1>4, AfterHead
  <2> QED
    BY <1>3, <2>1, <2>2, <2>3, <2>4
<1>10. CacheInv'
  <2>1. ASSUME NEW u \in locks
        PROVE  /\ u \in subscribed
               /\ users[u] = (1 .. book[u]) \ (After(reports', 0, u) \cup Applying(u)')
    BY <1>1, <1>9 DEF FeedInv, CacheInv
  <2> QED
    BY <1>1, <1>7, <2>1 DEF FeedInv, CacheInv
<1> QED
  BY <1>3, <1>8, <1>10

\* What the gate tells and what the trader has of a message in hand.
LEMMA MessageInHand ==
    ASSUME FeedInv
    PROVE  /\ input.msg.user \in Users /\ input.msg.change \in 0 .. MaxChanges
           /\ input.pc \in {"lock", "write", "notify"} => input.msg.kind = "snapshot"
           /\ input.pc = "apply" => input.msg.kind = "report" /\ input.msg.change \in Changes
           /\ input = [pc |-> input.pc, msg |-> input.msg]
           /\ input.pc \in {"idle", "lock", "write", "notify", "apply"}
<1>1. input \in [pc : {"idle"}, msg : Messages]
               \cup [pc : {"lock", "write", "notify"}, msg : Snapshots]
               \cup [pc : {"apply"}, msg : Reports]
  BY DEF FeedInv, TypeOK
<1> QED
  BY <1>1, BookAssumption DEF Messages, Snapshots, Reports, Changes

LEMMA InputKeepsFeed ==
    ASSUME FeedInv, StoreLock \/ WriteOrders \/ Notify \/ ApplyReport
    PROVE  QueueInv' /\ InputInv' /\ CacheInv'
<1> USE DEF containerVars, callVars, unsubVars, gateVars
<1> DEFINE m == input.msg
<1>1. /\ UNCHANGED <<acceptedUsers, wire, reports, subscribed, book>>
      /\ input'.msg = m /\ input.pc # "idle"
  BY MessageInHand DEF StoreLock, WriteOrders, Notify, ApplyReport
<1>2. QueueInv'
  BY <1>1 DEF FeedInv, QueueInv
<1>3. InputInv'
  BY <1>1 DEF FeedInv, InputInv
<1>4. /\ users \in [Users -> SUBSET Changes] /\ locks \subseteq Users
      /\ book \in [Users -> 0 .. MaxChanges] /\ MaxChanges \in Nat
      /\ m.user \in Users /\ m.change \in 0 .. MaxChanges /\ book[m.user] \in Nat
  <2>1. /\ users \in [Users -> SUBSET Changes] /\ locks \subseteq Users
        /\ book \in [Users -> 0 .. MaxChanges] /\ MaxChanges \in Nat
    BY BookAssumption DEF FeedInv, TypeOK
  <2>2. m.user \in Users /\ m.change \in 0 .. MaxChanges
    BY MessageInHand
  <2> QED
    BY <2>1, <2>2
<1>5. /\ m.user \in subscribed /\ m.user \in acceptedUsers
      /\ m.change <= book[m.user]
      /\ m.kind = "snapshot" => After(reports, 0, m.user) = m.change + 1 .. book[m.user]
      /\ m.kind = "report" => m.change \notin After(reports, 0, m.user)
  BY <1>1 DEF FeedInv, InputInv
<1>6. /\ m.kind = "snapshot" => (1 .. book[m.user]) \ After(reports, 0, m.user) = 1 .. m.change
  BY <1>4, <1>5
<1>7. CASE StoreLock
  <2>1. /\ locks' = locks \cup {m.user} /\ input.pc = "lock" /\ input'.pc = "write"
        /\ users' = users /\ m.kind = "snapshot"
    BY <1>7, MessageInHand DEF StoreLock
  <2>2. users[m.user] \subseteq 1 .. m.change
    <3>1. CASE m.user \in locks
      <4>1. Applying(m.user) = {}
        BY <2>1 DEF Applying
      <4> QED
        BY <1>6, <2>1, <3>1, <4>1 DEF FeedInv, CacheInv
    <3>2. CASE m.user \notin locks
      BY <1>4, <3>2 DEF FeedInv, CacheInv
    <3> QED
      BY <3>1, <3>2
  <2>3. ASSUME NEW u \in locks', m.user # u
        PROVE  /\ u \in subscribed
               /\ users[u] = (1 .. book[u]) \ (After(reports, 0, u) \cup Applying(u)')
    <3>1. u \in locks /\ Applying(u)' = Applying(u)
      BY <1>1, <2>1, <2>3 DEF Applying
    <3> QED
      BY <2>1, <3>1 DEF FeedInv, CacheInv
  <2>4. locks' \subseteq acceptedUsers' /\ \A u \in Users \ locks' : users'[u] = {}
    BY <1>1, <1>5, <2>1 DEF FeedInv, CacheInv
  <2>5. CacheInv'
    BY <1>1, <2>1, <2>2, <2>3, <2>4 DEF CacheInv
  <2> QED
    BY <1>2, <1>3, <2>5
<1>8. CASE WriteOrders
  <2>1. /\ users' = [users EXCEPT ![m.user] = 1 .. m.change]
        /\ input.pc = "write" /\ input'.pc = "notify" /\ locks' = locks /\ m.user \in locks
    BY <1>8 DEF WriteOrders, FeedInv, CacheInv
  <2>2. /\ users'[m.user] = 1 .. m.change
        /\ \A u \in Users \ {m.user} : users'[u] = users[u]
    BY <1>4, <2>1
  <2>3. \A u : Applying(u)' = Applying(u)
    BY <1>1, <2>1 DEF Applying
  <2>4. CacheInv'
    BY <1>1, <1>4, <2>1, <2>2, <2>3 DEF FeedInv, CacheInv
  <2> QED
    BY <1>2, <1>3, <2>4
<1>9. CASE Notify
  <2>1. /\ UNCHANGED <<users, locks>> /\ input.pc = "notify" /\ input'.pc = "idle"
        /\ m.kind = "snapshot" /\ users[m.user] = 1 .. m.change
    BY <1>9, MessageInHand DEF Notify, FeedInv, CacheInv
  <2>2. \A u : Applying(u)' = {} /\ Applying(u) = {}
    BY <1>1, <2>1 DEF Applying
  <2>3. CacheInv'
    BY <1>1, <1>4, <1>5, <1>6, <2>1, <2>2 DEF FeedInv, CacheInv
  <2> QED
    BY <1>2, <1>3, <2>3
<1>10. CASE ApplyReport
  <2>1. /\ users' = IF m.user \in locks THEN [users EXCEPT ![m.user] = users[m.user] \cup {m.change}]
                     ELSE users
        /\ input.pc = "apply" /\ input'.pc = "idle" /\ locks' = locks /\ m.kind = "report"
        /\ m.change \in Changes
    BY <1>10, MessageInHand DEF ApplyReport, WithChange
  <2>2. \A u \in Users : Applying(u)' = {} /\ Applying(u) = IF m.user = u THEN {m.change} ELSE {}
    BY <1>1, <2>1 DEF Applying
  <2>3. m.change \in 1 .. book[m.user]
    BY <1>4, <1>5, <2>1 DEF Changes
  <2>4. ASSUME NEW u \in locks
        PROVE  /\ u \in subscribed
               /\ users'[u] = (1 .. book[u]) \ After(reports, 0, u)
    <3>1. u \in Users
      BY <1>4
    <3>2. u \in subscribed /\ users[u] = (1 .. book[u]) \ (After(reports, 0, u) \cup Applying(u))
      BY <2>1 DEF FeedInv, CacheInv
    <3>3. CASE u = m.user
      BY <1>4, <1>5, <2>1, <2>2, <2>3, <3>1, <3>2, <3>3
    <3>4. CASE u # m.user
      BY <1>4, <2>1, <2>2, <3>1, <3>2, <3>4
    <3> QED
      BY <3>2, <3>3, <3>4
  <2>5. \A u \in Users \ locks : users'[u] = {}
    BY <1>4, <2>1 DEF FeedInv, CacheInv
  <2>6. CacheInv'
    BY <1>1, <1>4, <2>1, <2>2, <2>4, <2>5 DEF FeedInv, CacheInv
  <2> QED
    BY <1>2, <1>3, <2>6
<1> QED
  BY <1>7, <1>8, <1>9, <1>10

\* A subscription is answered with the whole book.
LEMMA SubscribeKeepsFeed ==
    ASSUME FeedInv, GateSubscribe PROVE QueueInv' /\ InputInv' /\ CacheInv'
<1> USE DEF containerVars, callVars, unsubVars
<1>0. /\ wire \in Seq(Requests) /\ reports \in Seq(Messages) /\ Len(reports) \in Nat
      /\ book \in [Users -> 0 .. MaxChanges] /\ MaxChanges \in Nat /\ locks \subseteq Users
  <2>1. /\ wire \in Seq(Requests) /\ reports \in Seq(Messages)
        /\ book \in [Users -> 0 .. MaxChanges] /\ locks \subseteq Users
    BY DEF FeedInv, TypeOK
  <2> QED
    BY <2>1, BookAssumption
<1> DEFINE w == Head(wire).user
           m == Snapshot(w, book[w])
<1>1. /\ wire # <<>> /\ wire' = Tail(wire) /\ subscribed' = subscribed \cup {w}
      /\ reports' = Append(reports, m)
      /\ UNCHANGED <<acceptedUsers, locks, users, input, book>>
  BY DEF GateSubscribe
<1>2. Head(wire) \in Requests
  BY <1>0, <1>1
<1>3. w \in Users /\ book[w] \in Nat
  BY <1>0, <1>2 DEF Requests
<1>4. m.kind = "snapshot" /\ m.user = w /\ m.change = book[w]
  BY DEF Snapshot
<1> HIDE DEF m, w
<1>5. /\ \A j \in 0 .. Len(reports) : \A u : After(reports', j, u) = After(reports, j, u)
      /\ \A u : After(reports', Len(reports) + 1, u) = {}
  <2>1. ASSUME NEW j \in 0 .. Len(reports), NEW u
        PROVE  After(reports', j, u) = After(reports, j, u)
    <3>1. After(reports', j, u) =
             After(reports, j, u) \cup IF m.kind = "report" /\ m.user = u THEN {m.change} ELSE {}
      BY <1>0, <1>1, AfterAppend
    <3> QED
      BY <1>4, <3>1
  <2>2. reports' \in Seq(Messages) /\ Len(reports') = Len(reports) + 1
    <3>1. m \in Messages
      BY <1>0, <1>3, SnapshotType DEF m
    <3> QED
      BY <1>0, <1>1, <3>1
  <2> QED
    BY <1>0, <2>1, <2>2, AfterEnd
<1>6. /\ Len(reports') = Len(reports) + 1 /\ reports'[Len(reports) + 1] = m
      /\ \A j \in 1 .. Len(reports) : reports'[j] = reports[j] /\ j \in 0 .. Len(reports)
      /\ 0 \in 0 .. Len(reports)
  BY <1>0, <1>1
<1>7. \A i \in 1 .. Len(wire') : wire'[i].kind = "subscribe"
  <2>1. \A i \in 1 .. Len(wire') : wire'[i] = wire[i + 1] /\ i + 1 \in 1 .. Len(wire)
    BY <1>0, <1>1
  <2> QED
    BY <2>1 DEF FeedInv, QueueInv
<1>8. ASSUME NEW j \in 1 .. Len(reports')
      PROVE  LET n == reports'[j] IN
             /\ n.user \in subscribed'
             /\ n.change <= book'[n.user]
             /\ n.kind = "snapshot" => After(reports', j, n.user) = n.change + 1 .. book'[n.user]
             /\ n.kind = "report" => n.change \notin After(reports', j, n.user)
  <2>1. CASE j \in 1 .. Len(reports)
    BY <1>1, <1>5, <1>6, <2>1 DEF FeedInv, QueueInv
  <2>2. CASE j = Len(reports) + 1
    <3>1. reports'[j] = m /\ After(reports', j, w) = {}
      BY <1>5, <1>6, <2>2
    <3>2. book[w] + 1 .. book[w] = {} /\ book[w] <= book[w]
      BY <1>3
    <3> QED
      BY <1>1, <1>4, <3>1, <3>2
  <2> QED
    BY <1>0, <1>6, <2>1, <2>2
<1>9. QueueInv'
  BY <1>7, <1>8 DEF QueueInv
<1>10. InputInv'
  BY <1>1, <1>5, <1>6 DEF FeedInv, InputInv
<1>11. \A u : Applying(u)' = Applying(u)
  BY <1>1 DEF Applying
<1>12. CacheInv'
  BY <1>1, <1>5, <1>6, <1>11 DEF FeedInv, CacheInv
<1> QED
  BY <1>9, <1>10, <1>12

\* A change of a user's book is told to those who have its snapshot, or to nobody.
LEMMA ChangeKeepsFeed ==
    ASSUME FeedInv, NEW w \in Users, GateChange(w) PROVE QueueInv' /\ InputInv' /\ CacheInv'
<1> USE DEF containerVars, callVars, unsubVars
<1>0. /\ reports \in Seq(Messages) /\ Len(reports) \in Nat
      /\ book \in [Users -> 0 .. MaxChanges] /\ MaxChanges \in Nat /\ locks \subseteq Users
      /\ users \in [Users -> SUBSET Changes]
  <2>1. /\ reports \in Seq(Messages) /\ book \in [Users -> 0 .. MaxChanges]
        /\ locks \subseteq Users /\ users \in [Users -> SUBSET Changes]
    BY DEF FeedInv, TypeOK
  <2> QED
    BY <2>1, BookAssumption
<1> DEFINE m == Report(w, book[w] + 1)
<1>1. /\ book[w] < MaxChanges /\ book' = [book EXCEPT ![w] = book[w] + 1]
      /\ reports' = IF w \in subscribed THEN Append(reports, m) ELSE reports
      /\ UNCHANGED <<acceptedUsers, locks, users, input, wire, subscribed>>
  BY DEF GateChange
<1>2. /\ book[w] \in Nat /\ book'[w] = book[w] + 1
      /\ \A u \in Users \ {w} : book'[u] = book[u]
  BY <1>0, <1>1
<1>3. m.kind = "report" /\ m.user = w /\ m.change = book[w] + 1 /\ m \in Messages
  <2>1. book[w] + 1 \in Changes
    BY <1>0, <1>1, <1>2 DEF Changes
  <2> QED
    BY <2>1, ReportType DEF Report
<1> HIDE DEF m
<1>4. \A u : Applying(u)' = Applying(u)
  BY <1>1 DEF Applying
<1>5. /\ \A j \in 1 .. Len(reports) : reports[j].user \in Users /\ reports[j].change \in Nat
      /\ input.msg.user \in Users /\ input.msg.change \in Nat
  <2>1. \A x \in Messages : x.user \in Users /\ x.change \in Nat
    BY BookAssumption DEF Messages, Snapshots, Reports, Changes
  <2>2. \A j \in 1 .. Len(reports) : reports[j] \in Messages
    BY <1>0
  <2> QED
    BY <1>0, <2>1, <2>2, MessageInHand
<1>6. CASE w \notin subscribed
  <2>1. reports' = reports
    BY <1>1, <1>6
  <2>2. \A j \in 1 .. Len(reports) : reports[j].user # w
    BY <1>6 DEF FeedInv, QueueInv
  <2>3. QueueInv'
    BY <1>1, <1>2, <1>5, <2>1, <2>2 DEF FeedInv, QueueInv
  <2>4. InputInv'
    BY <1>1, <1>2, <1>5, <1>6, <2>1 DEF FeedInv, InputInv
  <2>5. w \notin locks
    BY <1>6 DEF FeedInv, CacheInv, InputInv
  <2>6. CacheInv'
    BY <1>0, <1>1, <1>2, <1>4, <2>1, <2>5 DEF FeedInv, CacheInv
  <2> QED
    BY <2>3, <2>4, <2>6
<1>7. CASE w \in subscribed
  <2>1. reports' = Append(reports, m)
    BY <1>1, <1>7
  <2>2. \A j \in 0 .. Len(reports) : \A u :
           After(reports', j, u) = After(reports, j, u) \cup IF u = w THEN {book[w] + 1} ELSE {}
    BY <1>0, <1>3, <2>1, AfterAppend
  <2>3. After(reports', Len(reports) + 1, w) = {}
    <3>1. reports' \in Seq(Messages) /\ Len(reports') = Len(reports) + 1
      BY <1>0, <1>3, <2>1
    <3> QED
      BY <1>0, <3>1, AfterEnd
  <2>4. /\ Len(reports') = Len(reports) + 1 /\ reports'[Len(reports) + 1] = m
        /\ \A j \in 1 .. Len(reports) : reports'[j] = reports[j] /\ j \in 0 .. Len(reports)
        /\ 0 \in 0 .. Len(reports)
    BY <1>0, <2>1
  <2>5. \A n \in Nat : n <= book[w] =>
           /\ n <= book'[w] /\ n # book[w] + 1
           /\ (n + 1 .. book[w]) \cup {book[w] + 1} = n + 1 .. book'[w]
    BY <1>2
  <2>6. ASSUME NEW j \in 1 .. Len(reports')
        PROVE  LET n == reports'[j] IN
               /\ n.user \in subscribed'
               /\ n.change <= book'[n.user]
               /\ n.kind = "snapshot" => After(reports', j, n.user) = n.change + 1 .. book'[n.user]
               /\ n.kind = "report" => n.change \notin After(reports', j, n.user)
    <3>1. CASE j \in 1 .. Len(reports)
      <4> DEFINE n == reports[j]
      <4>1. /\ reports'[j] = n /\ n.user \in Users /\ n.change \in Nat
            /\ After(reports', j, n.user) =
                  After(reports, j, n.user) \cup IF n.user = w THEN {book[w] + 1} ELSE {}
        BY <1>5, <2>2, <2>4, <3>1
      <4>2. /\ n.user \in subscribed
            /\ n.change <= book[n.user]
            /\ n.kind = "snapshot" => After(reports, j, n.user) = n.change + 1 .. book[n.user]
            /\ n.kind = "report" => n.change \notin After(reports, j, n.user)
        BY <3>1 DEF FeedInv, QueueInv
      <4> HIDE DEF n
      <4>3. /\ n.change <= book'[n.user]
            /\ n.kind = "snapshot" => After(reports', j, n.user) = n.change + 1 .. book'[n.user]
            /\ n.kind = "report" => n.change \notin After(reports', j, n.user)
        <5>1. CASE n.user = w
          BY <2>5, <4>1, <4>2, <5>1
        <5>2. CASE n.user # w
          BY <1>2, <4>1, <4>2, <5>2
        <5> QED
          BY <5>1, <5>2
      <4> QED
        BY <1>1, <4>1, <4>2, <4>3
    <3>2. CASE j = Len(reports) + 1
      <4>1. reports'[j] = m /\ After(reports', j, w) = {}
        BY <2>3, <2>4, <3>2
      <4>2. m.change <= book'[w] /\ m.user \in subscribed' /\ m.kind # "snapshot"
        BY <1>1, <1>2, <1>3, <1>7
      <4>3. m.change \notin After(reports', j, m.user)
        BY <1>3, <4>1
      <4> QED
        BY <1>3, <4>1, <4>2, <4>3
    <3> QED
      BY <1>0, <2>4, <3>1, <3>2
  <2>7. QueueInv'
    BY <1>1, <2>6 DEF FeedInv, QueueInv
  <2>8. ASSUME input.pc # "idle"
        PROVE  LET n == input.msg IN
               /\ n.user \in subscribed \cap acceptedUsers
               /\ n.change <= book'[n.user]
               /\ n.kind = "snapshot" => After(reports', 0, n.user) = n.change + 1 .. book'[n.user]
               /\ n.kind = "report" => n.change \notin After(reports', 0, n.user)
    <3> DEFINE n == input.msg
    <3>1. /\ n.user \in subscribed \cap acceptedUsers
          /\ n.change <= book[n.user]
          /\ n.kind = "snapshot" => After(reports, 0, n.user) = n.change + 1 .. book[n.user]
          /\ n.kind = "report" => n.change \notin After(reports, 0, n.user)
      BY <2>8 DEF FeedInv, InputInv
    <3>2. /\ n.user \in Users /\ n.change \in Nat
          /\ After(reports', 0, n.user) =
                After(reports, 0, n.user) \cup IF n.user = w THEN {book[w] + 1} ELSE {}
      BY <1>5, <2>2, <2>4
    <3> HIDE DEF n
    <3>3. /\ n.change <= book'[n.user]
          /\ n.kind = "snapshot" => After(reports', 0, n.user) = n.change + 1 .. book'[n.user]
          /\ n.kind = "report" => n.change \notin After(reports', 0, n.user)
      <4>1. CASE n.user = w
        BY <2>5, <3>1, <3>2, <4>1
      <4>2. CASE n.user # w
        BY <1>2, <3>1, <3>2, <4>2
      <4> QED
        BY <4>1, <4>2
    <3> QED
      BY <3>1, <3>3 DEF n
  <2>9. ASSUME NEW u \in locks, input.msg.user = u => input.pc \notin {"write", "notify"}
        PROVE  /\ u \in subscribed
               /\ users[u] = (1 .. book'[u]) \ (After(reports', 0, u) \cup Applying(u))
    <3>1. /\ u \in subscribed /\ u \in Users
          /\ users[u] = (1 .. book[u]) \ (After(reports, 0, u) \cup Applying(u))
      BY <1>0, <2>9 DEF FeedInv, CacheInv
    <3>2. After(reports', 0, u) = After(reports, 0, u) \cup IF u = w THEN {book[w] + 1} ELSE {}
      BY <2>2, <2>4
    <3>3. CASE u = w
      <4>1. (1 .. book'[w]) = (1 .. book[w]) \cup {book[w] + 1} /\ book[w] + 1 \notin 1 .. book[w]
        BY <1>2
      <4> QED
        BY <3>1, <3>2, <3>3, <4>1
    <3>4. CASE u # w
      BY <1>2, <3>1, <3>2, <3>4
    <3> QED
      BY <3>1, <3>3, <3>4
  <2>10. CacheInv'
    BY <1>1, <1>4, <2>9 DEF FeedInv, CacheInv
  <2> QED
    BY <1>1, <2>7, <2>8, <2>10 DEF InputInv
<1> QED
  BY <1>6, <1>7

\* No request to unsubscribe is under way.
LEMMA NoGateUnsubscribe == ASSUME FeedInv PROVE ~GateUnsubscribe
<1> SUFFICES ASSUME GateUnsubscribe PROVE FALSE
  OBVIOUS
<1>1. wire \in Seq(Requests) /\ wire # <<>> /\ Head(wire).kind = "unsubscribe"
  BY DEF GateUnsubscribe, FeedInv, TypeOK
<1>2. Head(wire) = wire[1] /\ 1 \in 1 .. Len(wire)
  BY <1>1
<1> QED
  BY <1>1, <1>2 DEF FeedInv, QueueInv

LEMMA NextFeed ==
    ASSUME Faithful, FeedInv, [Next]_vars PROVE FeedInv'
<1> USE DEF containerVars, callVars, unsubVars, gateVars
<1>0. TypeOK'
  BY NextTypeOK DEF FeedInv
<1>1. ASSUME NEW c \in Calls, Start(c) \/ CallStep(c) \/ Expire(c)
      PROVE  QueueInv' /\ InputInv' /\ CacheInv'
  BY <1>1, CallersKeepFeed DEF Faithful
<1>2. ASSUME InputStep PROVE QueueInv' /\ InputInv' /\ CacheInv'
  <2>1. CASE Receive
    BY <2>1, ReceiveKeepsFeed
  <2>2. CASE StoreLock \/ WriteOrders \/ Notify \/ ApplyReport
    BY <2>2, InputKeepsFeed
  <2> QED
    BY <1>2, <2>1, <2>2 DEF InputStep
<1>3. ASSUME GateStep PROVE QueueInv' /\ InputInv' /\ CacheInv'
  <2>1. ~GateUnsubscribe
    BY NoGateUnsubscribe
  <2> QED
    BY <1>3, <2>1, SubscribeKeepsFeed DEF GateStep
<1>4. ASSUME NEW u \in Users, GateChange(u) PROVE QueueInv' /\ InputInv' /\ CacheInv'
  BY <1>4, ChangeKeepsFeed
<1>5. ASSUME UNCHANGED vars PROVE QueueInv' /\ InputInv' /\ CacheInv'
  BY <1>5 DEF vars, FeedInv, QueueInv, InputInv, CacheInv, Applying
<1>6. ~\E t \in Unsubscribers : UnsubStep(t)
  BY DEF Faithful
<1>7. ~LoseMessage
  BY DEF Faithful, LoseMessage
<1> QED
  BY <1>0, <1>1, <1>2, <1>3, <1>4, <1>5, <1>6, <1>7 DEF Next, FeedInv

\* As long as nobody unsubscribes and no message is lost, a cached book is the
\* user's book without the changes that are still under way, however many calls
\* subscribe, give up, come back and are answered by each other's snapshots.
THEOREM CacheFollowsFeed == Faithful /\ Spec => []CacheTracksFeed
<1> SUFFICES ASSUME Faithful PROVE Spec => []CacheTracksFeed
  OBVIOUS
<1>1. FeedInv /\ [Next]_vars => FeedInv'
  BY NextFeed
<1>2. FeedInv => CacheTracksFeed
  BY InFlightIs DEF FeedInv, CacheInv, CacheTracksFeed
<1> HIDE DEF FeedInv, Faithful
<1> QED
  BY InitFeed, <1>1, <1>2, PTL DEF Spec

\* Cached users stay cached, and their orders are only added to.
LEMMA CacheGrows ==
    ASSUME Faithful, FeedInv, [Next]_vars
    PROVE  locks \subseteq locks' /\ \A u \in locks : users[u] \subseteq users'[u]
<1> USE DEF containerVars, callVars, unsubVars, gateVars
<1>1. users \in [Users -> SUBSET Changes] /\ locks \subseteq Users
  BY DEF FeedInv, TypeOK
<1>2. CASE WriteOrders
  BY <1>1, <1>2 DEF WriteOrders, FeedInv, CacheInv
<1>3. CASE ApplyReport
  BY <1>1, <1>3 DEF ApplyReport, WithChange
<1>4. CASE StoreLock
  BY <1>4 DEF StoreLock
<1>5. WriteOrders \/ ApplyReport \/ StoreLock \/ UNCHANGED <<locks, users>>
  <2>1. ASSUME NEW c \in Calls, Start(c) \/ CallStep(c) \/ Expire(c) PROVE UNCHANGED <<locks, users>>
    BY <2>1 DEF Start, CallStep, Expire, Accept, CheckCache, Register, Subscribe, Wake,
                Unregister, ReadOrders
  <2>2. ASSUME InputStep PROVE WriteOrders \/ ApplyReport \/ StoreLock \/ UNCHANGED <<locks, users>>
    BY <2>2 DEF InputStep, Receive, Notify
  <2>3. ASSUME GateStep PROVE UNCHANGED <<locks, users>>
    BY <2>3 DEF GateStep, GateSubscribe, GateUnsubscribe
  <2>4. ASSUME NEW u \in Users, GateChange(u) PROVE UNCHANGED <<locks, users>>
    BY <2>4 DEF GateChange
  <2>5. ~\E t \in Unsubscribers : UnsubStep(t)
    BY DEF Faithful
  <2>6. LoseMessage \/ UNCHANGED vars => UNCHANGED <<locks, users>>
    BY DEF LoseMessage, vars
  <2> QED
    BY <2>1, <2>2, <2>3, <2>4, <2>5, <2>6 DEF Next
<1>6. CASE UNCHANGED <<locks, users>>
  BY <1>6
<1> QED
  BY <1>2, <1>3, <1>4, <1>5, <1>6

\* And then no second snapshot, however late, takes back a change that the cache
\* has shown.
THEOREM CacheOnlyGrows == Faithful /\ Spec => CacheNeverGoesBack
<1> SUFFICES ASSUME Faithful PROVE Spec => CacheNeverGoesBack
  OBVIOUS
<1> DEFINE Grows == \A u \in locks \cap locks' : users[u] \subseteq users'[u]
<1>1. FeedInv /\ [Next]_vars => FeedInv'
  BY NextFeed
<1>2. FeedInv /\ [Next]_vars => [Grows]_vars
  BY CacheGrows
<1> HIDE DEF FeedInv, Faithful, Grows
<1>3. Spec => [][Grows]_vars
  BY InitFeed, <1>1, <1>2, PTL DEF Spec
<1> QED
  BY <1>3 DEF Grows, CacheNeverGoesBack

-----------------------------------------------------------------------------
(* A call that subscribes sees the orders its user had when it registered.   *)

\* Where the subscription of a user is: on the way to the gate, answered with a
\* snapshot that is on the way back, or with that snapshot in hand.
Asked(u) == \E i \in 1 .. Len(wire) : wire[i].user = u
IsAnswer(j, u) == reports[j].kind = "snapshot" /\ reports[j].user = u
Told(u) == \E j \in 1 .. Len(reports) : IsAnswer(j, u)
InHand(u) == input.pc \in {"lock", "write", "notify"} /\ input.msg.user = u
UnderWay(u) == Asked(u) \/ Told(u) \/ InHand(u)

\* A snapshot of the user on its way shows the first n changes.
Offered(u, n) ==
    \/ \E j \in 1 .. Len(reports) : IsAnswer(j, u) /\ reports[j].change = n
    \/ InHand(u) /\ input.msg.change = n

\* The calls that were signalled and are still registered.
Roused == doneBuf \cup {c \in Calls : pc[c] = "unregister"}

\* A user has at most one subscription under way.
OneSubscription ==
    /\ \A i, j \in 1 .. Len(wire) : wire[i].user = wire[j].user => i = j
    /\ \A i, j \in 1 .. Len(reports) : \A u \in Users : IsAnswer(i, u) /\ IsAnswer(j, u) => i = j
    /\ \A u \in Users : /\ ~(Asked(u) /\ Told(u))
                        /\ ~(Asked(u) /\ InHand(u))
                        /\ ~(Told(u) /\ InHand(u))

\* Who may be registered for a user while its subscription is made, is under
\* way and has been answered.
TurnInv ==
    /\ \A u \in Users : UnderWay(u) => pendingSnap[u] # {}
    /\ \A c \in Calls : pc[c] = "subscribe" =>
          /\ ~UnderWay(callUser[c])
          /\ \A d \in Calls \ {c} : callUser[d] = callUser[c] =>
                pc[d] # "subscribe" /\ d \notin Roused
    /\ \A c \in doneBuf : pc[c] = "wait"
    /\ \A c \in Roused : ~UnderWay(callUser[c])

\* What a call that subscribes is going to be answered with.
AnswerInv ==
    /\ \A c \in Calls : asOf[c] <= book[callUser[c]]
    /\ \A c \in Calls : pc[c] \in {"start", "accept", "check", "register"} => asOf[c] = 0
    /\ \A c \in Calls \ duplicateRequest : pc[c] = "wait" =>
          \A n : Offered(callUser[c], n) => asOf[c] <= n
    /\ \A c \in Calls \ duplicateRequest : c \in Roused \/ pc[c] = "read" =>
          callUser[c] \in locks /\ 1 .. asOf[c] \subseteq users[callUser[c]]
    /\ \A c \in Calls : pc[c] = "unregister" => outcome[c] = "ok"
    /\ SubscriberSeesStart

StartInv == OneSubscription /\ TurnInv /\ AnswerInv

LEMMA InitStart == Init => StartInv
<1> SUFFICES ASSUME Init PROVE StartInv
  OBVIOUS
<1>1. wire = <<>> /\ reports = <<>> /\ input.pc = "idle"
  BY DEF Init
<1>2. /\ \A i \in 1 .. Len(wire) : FALSE
      /\ \A i \in 1 .. Len(reports) : FALSE
  BY <1>1
<1>3. \A u : ~UnderWay(u) /\ \A n : ~Offered(u, n)
  BY <1>1, <1>2 DEF UnderWay, Asked, Told, InHand, Offered
<1>4. OneSubscription
  BY <1>2, <1>3 DEF OneSubscription, UnderWay
<1>5. TurnInv /\ AnswerInv
  BY <1>3, BookAssumption DEF Init, TurnInv, AnswerInv, Roused, SubscriberSeesStart
<1> QED
  BY <1>4, <1>5 DEF StartInv

\* What a step does to the subscriptions that it does not begin.
Kept(u) == UnderWay(u)' => UnderWay(u)
NothingOlder(u) == \A n : Offered(u, n)' => Offered(u, n) \/ n = book[u]

\* A step that leaves the queues and the hand alone.
LEMMA NothingMoves ==
    ASSUME OneSubscription, UNCHANGED <<wire, reports, input>>
    PROVE  OneSubscription' /\ \A u : Kept(u) /\ NothingOlder(u)
  BY DEF OneSubscription, Kept, NothingOlder, UnderWay, Offered, Asked, Told, IsAnswer, InHand

\* The gate answers the first request of the queue.
LEMMA AnswerMoves ==
    ASSUME FeedInv, OneSubscription, GateSubscribe
    PROVE  OneSubscription' /\ \A u \in Users : Kept(u) /\ NothingOlder(u)
<1> USE DEF containerVars, callVars, unsubVars
<1> DEFINE w == Head(wire).user
           m == Snapshot(w, book[w])
<1>1. /\ wire # <<>> /\ wire' = Tail(wire) /\ reports' = Append(reports, m)
      /\ input' = input
  BY DEF GateSubscribe
<1>2. wire \in Seq(Requests) /\ reports \in Seq(Messages)
  BY DEF FeedInv, TypeOK
<1>3. /\ w = wire[1].user /\ 1 \in 1 .. Len(wire)
      /\ \A i \in 1 .. Len(wire') : wire'[i] = wire[i + 1] /\ i + 1 \in 2 .. Len(wire)
      /\ w \in Users
  <2>1. Head(wire) = wire[1] /\ 1 \in 1 .. Len(wire) /\ Head(wire) \in Requests
    BY <1>1, <1>2
  <2>2. \A i \in 1 .. Len(wire') : wire'[i] = wire[i + 1] /\ i + 1 \in 2 .. Len(wire)
    BY <1>1, <1>2
  <2> QED
    BY <2>1, <2>2 DEF Requests
<1>4. m.kind = "snapshot" /\ m.user = w /\ m.change = book[w]
  BY DEF Snapshot
<1> HIDE DEF m, w
<1>5. /\ Len(reports') = Len(reports) + 1 /\ reports'[Len(reports) + 1] = m
      /\ \A j \in 1 .. Len(reports) : reports'[j] = reports[j]
      /\ Len(reports) \in Nat
  BY <1>1, <1>2
<1>6. Asked(w) /\ ~Told(w) /\ ~InHand(w)
  BY <1>3 DEF Asked, OneSubscription
<1>7. \A u \in Users : Asked(u)' => Asked(u) /\ u # w
  <2> SUFFICES ASSUME NEW u \in Users, NEW i \in 1 .. Len(wire'), wire'[i].user = u
               PROVE  Asked(u) /\ u # w
    BY DEF Asked
  <2>1. wire[i + 1].user = u /\ i + 1 \in 1 .. Len(wire) /\ i + 1 # 1
    BY <1>2, <1>3
  <2> QED
    BY <1>3, <2>1 DEF Asked, OneSubscription
<1>8. \A u \in Users : Told(u)' <=> Told(u) \/ u = w
  <2>1. \A u : Told(u)' <=> \E j \in 1 .. Len(reports') : reports'[j].kind = "snapshot" /\ reports'[j].user = u
    BY DEF Told, IsAnswer
  <2>2. \A j : j \in 1 .. Len(reports') <=> j \in 1 .. Len(reports) \/ j = Len(reports) + 1
    BY <1>5
  <2> QED
    BY <1>4, <1>5, <2>1, <2>2 DEF Told, IsAnswer
<1>9. \A u : InHand(u)' <=> InHand(u)
  BY <1>1 DEF InHand
<1>10. \A i, j \in 1 .. Len(wire') : wire'[i].user = wire'[j].user => i = j
  <2> SUFFICES ASSUME NEW i \in 1 .. Len(wire'), NEW j \in 1 .. Len(wire'),
                      wire'[i].user = wire'[j].user
               PROVE  i = j
    OBVIOUS
  <2>1. i + 1 \in 1 .. Len(wire) /\ j + 1 \in 1 .. Len(wire) /\ wire[i + 1].user = wire[j + 1].user
    BY <1>2, <1>3
  <2>2. i + 1 = j + 1
    BY <2>1 DEF OneSubscription
  <2> QED
    BY <2>2
<1>11. \A i, j \in 1 .. Len(reports') : \A u \in Users : IsAnswer(i, u)' /\ IsAnswer(j, u)' => i = j
  <2> SUFFICES ASSUME NEW i \in 1 .. Len(reports'), NEW j \in 1 .. Len(reports'), NEW u \in Users,
                      reports'[i].kind = "snapshot", reports'[i].user = u,
                      reports'[j].kind = "snapshot", reports'[j].user = u
               PROVE  i = j
    BY DEF IsAnswer
  <2>1. CASE u = w
    BY <1>5, <1>6, <2>1 DEF Told, IsAnswer
  <2>2. CASE u # w
    BY <1>4, <1>5, <2>2 DEF OneSubscription, IsAnswer
  <2> QED
    BY <2>1, <2>2
<1>12. OneSubscription'
  BY <1>6, <1>7, <1>8, <1>9, <1>10, <1>11 DEF OneSubscription
<1>13. \A u \in Users : Kept(u)
  BY <1>6, <1>7, <1>8, <1>9 DEF Kept, UnderWay
<1>14. ASSUME NEW u \in Users, NEW n, Offered(u, n)' PROVE Offered(u, n) \/ n = book[u]
  <2>1. \/ \E j \in 1 .. Len(reports') :
              reports'[j].kind = "snapshot" /\ reports'[j].user = u /\ reports'[j].change = n
        \/ InHand(u) /\ input.msg.change = n
    BY <1>1, <1>9, <1>14 DEF Offered, IsAnswer
  <2> QED
    BY <1>4, <1>5, <2>1 DEF Offered, IsAnswer
<1> QED
  BY <1>12, <1>13, <1>14 DEF NothingOlder

\* A change is no snapshot.
LEMMA ChangeMoves ==
    ASSUME FeedInv, OneSubscription, NEW w \in Users, GateChange(w)
    PROVE  OneSubscription' /\ \A u \in Users : Kept(u) /\ NothingOlder(u)
<1> USE DEF containerVars, callVars, unsubVars
<1>1. /\ UNCHANGED <<wire, input>>
      /\ reports' = reports \/ reports' = Append(reports, Report(w, book[w] + 1))
  BY DEF GateChange
<1>2. reports \in Seq(Messages)
  BY DEF FeedInv, TypeOK
<1>3. \A j \in 1 .. Len(reports') :
         \/ j \in 1 .. Len(reports) /\ reports'[j] = reports[j]
         \/ reports'[j].kind = "report"
  BY <1>1, <1>2 DEF Report
<1>4. \A j \in 1 .. Len(reports') : \A u : IsAnswer(j, u)' =>
         j \in 1 .. Len(reports) /\ IsAnswer(j, u) /\ reports'[j] = reports[j]
  BY <1>3 DEF IsAnswer
<1>5. \A u : /\ Asked(u)' <=> Asked(u)
             /\ InHand(u)' <=> InHand(u)
             /\ Told(u)' => Told(u)
  BY <1>1, <1>4 DEF Asked, InHand, Told
<1>6. OneSubscription'
  BY <1>1, <1>4, <1>5 DEF OneSubscription
<1> QED
  BY <1>1, <1>4, <1>5, <1>6 DEF Kept, UnderWay, NothingOlder, Offered

\* The trader takes the first message of the queue in hand, or drops it.
LEMMA ReceiveMoves ==
    ASSUME FeedInv, OneSubscription, Receive
    PROVE  OneSubscription' /\ \A u \in Users : Kept(u) /\ NothingOlder(u)
<1> USE DEF containerVars, callVars, unsubVars, gateVars
<1>1. /\ wire' = wire /\ reports # <<>> /\ reports' = Tail(reports) /\ input.pc = "idle"
      /\ input' = [pc |-> Handling(Head(reports)), msg |-> Head(reports)]
  BY DEF Receive
<1>2. reports \in Seq(Messages)
  BY DEF FeedInv, TypeOK
<1>3. /\ Head(reports) = reports[1] /\ 1 \in 1 .. Len(reports)
      /\ \A j \in 1 .. Len(reports') : reports'[j] = reports[j + 1] /\ j + 1 \in 2 .. Len(reports)
      /\ \A j \in 1 .. Len(reports') : j + 1 \in 1 .. Len(reports) /\ j + 1 # 1
      /\ \A i, j \in 1 .. Len(reports') : i + 1 = j + 1 => i = j
  BY <1>1, <1>2
<1>4. \A u : ~InHand(u) /\ (Asked(u)' <=> Asked(u))
  BY <1>1 DEF InHand, Asked
<1>5. \A u \in Users : InHand(u)' => IsAnswer(1, u) /\ input'.msg = reports[1]
  <2>1. Handling(Head(reports)) \in {"lock", "write", "notify"} => Head(reports).kind = "snapshot"
    BY DEF Handling
  <2> QED
    BY <1>1, <1>3, <2>1 DEF InHand, IsAnswer
<1>6. \A u \in Users : \A j \in 1 .. Len(reports') : IsAnswer(j, u)' => IsAnswer(j + 1, u)
  BY <1>3 DEF IsAnswer
<1>7. \A u \in Users : /\ Told(u)' => Told(u)
                       /\ InHand(u)' => Told(u)
  BY <1>3, <1>5, <1>6 DEF Told
<1>8. \A u \in Users : ~(Told(u)' /\ InHand(u)')
  BY <1>3, <1>5, <1>6 DEF Told, OneSubscription
<1>9. OneSubscription'
  BY <1>1, <1>3, <1>4, <1>6, <1>7, <1>8 DEF OneSubscription
<1>10. ASSUME NEW u \in Users, NEW n, Offered(u, n)' PROVE Offered(u, n)
  <2>1. CASE \E j \in 1 .. Len(reports') : IsAnswer(j, u)' /\ reports'[j].change = n
    BY <1>3, <1>6, <2>1 DEF Offered
  <2>2. CASE InHand(u)' /\ input'.msg.change = n
    BY <1>3, <1>5, <2>2 DEF Offered
  <2> QED
    BY <1>10, <2>1, <2>2 DEF Offered
<1> QED
  BY <1>4, <1>7, <1>9, <1>10 DEF Kept, UnderWay, NothingOlder

\* It stores what is in hand and signals.
LEMMA HandMoves ==
    ASSUME FeedInv, OneSubscription, StoreLock \/ WriteOrders \/ Notify \/ ApplyReport
    PROVE  OneSubscription' /\ \A u \in Users : Kept(u) /\ NothingOlder(u)
<1> USE DEF containerVars, callVars, unsubVars, gateVars
<1>1. /\ UNCHANGED <<wire, reports>> /\ input'.msg = input.msg
      /\ input'.pc \in {"lock", "write", "notify"} => input.pc \in {"lock", "write", "notify"}
  BY MessageInHand DEF StoreLock, WriteOrders, Notify, ApplyReport
<1>2. \A u : /\ Asked(u)' <=> Asked(u)
             /\ Told(u)' <=> Told(u)
             /\ InHand(u)' => InHand(u)
             /\ \A j : IsAnswer(j, u)' <=> IsAnswer(j, u)
  BY <1>1 DEF Asked, Told, InHand, IsAnswer
<1>3. OneSubscription'
  BY <1>1, <1>2 DEF OneSubscription
<1>4. \A u \in Users : Kept(u)
  BY <1>2 DEF Kept, UnderWay
<1>5. \A u \in Users : NothingOlder(u)
  BY <1>1, <1>2 DEF NothingOlder, Offered
<1> QED
  BY <1>3, <1>4, <1>5

\* Only a call that may subscribe begins a subscription, its user's only one.
LEMMA SubscribeMoves ==
    ASSUME FeedInv, OneSubscription, NEW c \in Calls, ~UnderWay(callUser[c]),
           wire' = Append(wire, [kind |-> "subscribe", user |-> callUser[c]]),
           UNCHANGED <<reports, input, callUser>>
    PROVE  /\ OneSubscription'
           /\ \A u \in Users \ {callUser[c]} : Kept(u)
           /\ \A u \in Users : NothingOlder(u)
           /\ \A n : ~Offered(callUser[c], n)'
<1>1. wire \in Seq(Requests) /\ callUser[c] \in Users
  BY DEF FeedInv, TypeOK
<1> DEFINE r == [kind |-> "subscribe", user |-> callUser[c]]
<1>2. r.user = callUser[c]
  OBVIOUS
<1> HIDE DEF r
<1>3. /\ Len(wire') = Len(wire) + 1 /\ wire'[Len(wire) + 1] = r /\ Len(wire) \in Nat
      /\ \A j \in 1 .. Len(wire) : wire'[j] = wire[j]
  BY <1>1 DEF r
<1>4. \A u : /\ (Told(u)' <=> Told(u)) /\ (InHand(u)' <=> InHand(u))
             /\ \A j : IsAnswer(j, u)' <=> IsAnswer(j, u)
  BY DEF Told, InHand, IsAnswer
<1>5. \A u : Asked(u)' => Asked(u) \/ u = callUser[c]
  BY <1>2, <1>3 DEF Asked
<1>6. \A i, j \in 1 .. Len(wire') : wire'[i].user = wire'[j].user => i = j
  <2>1. \A i \in 1 .. Len(wire) : wire[i].user # callUser[c]
    BY DEF UnderWay, Asked
  <2> QED
    BY <1>2, <1>3, <2>1 DEF OneSubscription
<1>7. OneSubscription'
  BY <1>4, <1>5, <1>6 DEF OneSubscription, UnderWay
<1>8. \A u, n : Offered(u, n)' <=> Offered(u, n)
  BY <1>4 DEF Offered
<1>9. \A n : ~Offered(callUser[c], n)
  BY DEF Offered, UnderWay, Told
<1>10. \A u \in Users \ {callUser[c]} : Kept(u)
  BY <1>4, <1>5 DEF Kept, UnderWay
<1>11. \A u \in Users : NothingOlder(u)
  BY <1>8 DEF NothingOlder
<1> QED
  BY <1>7, <1>8, <1>9, <1>10, <1>11

LEMMA StartTypes ==
    ASSUME FeedInv
    PROVE  /\ pc \in [Calls -> CallStates] /\ callUser \in [Calls -> Users]
           /\ book \in [Users -> Nat] /\ asOf \in [Calls -> Nat]
           /\ doneBuf \subseteq Calls /\ duplicateRequest \subseteq Calls
           /\ pendingSnap \in [Users -> SUBSET Calls]
           /\ outcome \in [Calls -> {"none", "ok", "deadline", "send failed", "unlocked"}]
           /\ result \in [Calls -> SUBSET Changes]
<1>1. 0 .. MaxChanges \subseteq Nat
  BY BookAssumption
<1>2. book \in [Users -> 0 .. MaxChanges] /\ asOf \in [Calls -> 0 .. MaxChanges]
  BY DEF FeedInv, TypeOK
<1>3. book \in [Users -> Nat] /\ asOf \in [Calls -> Nat]
  BY <1>1, <1>2
<1> QED
  BY <1>3 DEF FeedInv, TypeOK

\* A step of somebody else, who signals nobody.
LEMMA OthersKeepStart ==
    ASSUME FeedInv, TurnInv, AnswerInv,
           UNCHANGED <<callVars, pendingSnap, doneBuf>>,
           \A u \in Users : Kept(u) /\ NothingOlder(u) /\ book[u] <= book'[u] /\ book'[u] \in Nat,
           locks \subseteq locks', \A u \in locks : users[u] \subseteq users'[u]
    PROVE  TurnInv' /\ AnswerInv'
<1> USE DEF callVars
<1>1. /\ callUser \in [Calls -> Users] /\ book \in [Users -> Nat] /\ asOf \in [Calls -> Nat]
      /\ doneBuf \subseteq Calls
  BY StartTypes
<1>2. Roused' = Roused
  BY DEF Roused
<1>3. \A u \in Users : ~UnderWay(u) => ~UnderWay(u)'
  BY DEF Kept
<1>4. TurnInv'
  <2>1. \A u \in Users : UnderWay(u)' => pendingSnap'[u] # {}
    BY <1>3 DEF TurnInv
  <2>2. \A c \in Calls : pc'[c] = "subscribe" =>
           /\ ~UnderWay(callUser[c])'
           /\ \A d \in Calls \ {c} : callUser'[d] = callUser'[c] =>
                 pc'[d] # "subscribe" /\ d \notin Roused'
    <3>1. \A c \in Calls : ~UnderWay(callUser[c]) => ~UnderWay(callUser[c])'
      BY <1>1, <1>3
    <3> QED
      BY <1>2, <3>1 DEF TurnInv
  <2>3. \A c \in doneBuf' : pc'[c] = "wait"
    BY DEF TurnInv
  <2>4. \A c \in Roused' : ~UnderWay(callUser[c])'
    <3>1. \A c \in Calls : ~UnderWay(callUser[c]) => ~UnderWay(callUser[c])'
      BY <1>1, <1>3
    <3>2. Roused \subseteq Calls
      BY <1>1 DEF Roused
    <3> QED
      BY <1>2, <3>1, <3>2 DEF TurnInv
  <2> QED
    BY <2>1, <2>2, <2>3, <2>4 DEF TurnInv
<1>5. AnswerInv'
  <2>1. \A c \in Calls : asOf'[c] <= book'[callUser'[c]]
    BY <1>1 DEF AnswerInv
  <2>2. ASSUME NEW c \in Calls \ duplicateRequest, pc[c] = "wait", NEW n, Offered(callUser[c], n)'
        PROVE  asOf[c] <= n
    <3>1. callUser[c] \in Users /\ callUser'[c] = callUser[c]
      BY <1>1
    <3>2. Offered(callUser[c], n) \/ n = book[callUser[c]]
      BY <2>2, <3>1 DEF NothingOlder
    <3> QED
      BY <2>2, <3>1, <3>2 DEF AnswerInv
  <2>3. \A c \in Calls \ duplicateRequest : c \in Roused \/ pc[c] = "read" =>
           callUser[c] \in locks' /\ 1 .. asOf[c] \subseteq users'[callUser[c]]
    BY DEF AnswerInv
  <2>4. SubscriberSeesStart'
    BY DEF AnswerInv, SubscriberSeesStart
  <2> QED
    BY <1>2, <2>1, <2>2, <2>3, <2>4 DEF AnswerInv
<1> QED
  BY <1>4, <1>5

\* handleSnapshot signals the calls that wait for the snapshot it has stored.
LEMMA NotifyKeepsStart ==
    ASSUME FeedInv, PendingSnapExact, StartInv, Notify PROVE TurnInv' /\ AnswerInv'
<1> USE DEF containerVars, callVars, unsubVars, gateVars
<1>0. PICK u \in Users : u = input.msg.user
  BY MessageInHand
<1>1. /\ UNCHANGED <<pendingSnap, locks, users, callVars, wire, reports, book>>
      /\ input.pc = "notify" /\ input'.pc = "idle"
      /\ doneBuf' = doneBuf \cup pendingSnap[u]
  BY <1>0, MessageInHand DEF Notify, Woken
<1>2. u \in Users /\ InHand(u) /\ UnderWay(u)
  BY <1>0, <1>1 DEF InHand, UnderWay
<1>3. \A v : (UnderWay(v)' => UnderWay(v)) /\ \A n : Offered(v, n)' => Offered(v, n)
  BY <1>1 DEF UnderWay, Asked, Told, InHand, Offered, IsAnswer
<1>4. ~UnderWay(u)'
  <2>1. ~Asked(u) /\ ~Told(u)
    BY <1>2 DEF StartInv, OneSubscription
  <2> QED
    BY <1>1, <2>1 DEF UnderWay, Asked, Told, InHand, IsAnswer
<1>5. \A c \in pendingSnap[u] : /\ c \in Calls /\ callUser[c] = u /\ pc[c] = "wait"
  BY <1>2 DEF PendingSnapExact, Registered, StartInv, TurnInv, Roused
<1>6. u \in locks /\ users[u] = 1 .. input.msg.change /\ Offered(u, input.msg.change)
  BY <1>0, <1>1, <1>2 DEF FeedInv, CacheInv, Offered
<1>7. Roused' = Roused \cup pendingSnap[u]
  BY <1>1 DEF Roused
<1>8. \A c \in Calls : ~UnderWay(callUser[c]) => ~UnderWay(callUser[c])'
  BY <1>1, <1>3
<1>9. TurnInv'
  <2>1. \A v \in Users : UnderWay(v)' => pendingSnap'[v] # {}
    BY <1>1, <1>3 DEF StartInv, TurnInv
  <2>2. ASSUME NEW c \in Calls, pc'[c] = "subscribe"
        PROVE  /\ ~UnderWay(callUser[c])'
               /\ \A d \in Calls \ {c} : callUser'[d] = callUser'[c] =>
                     pc'[d] # "subscribe" /\ d \notin Roused'
    <3>1. callUser[c] # u
      BY <1>1, <1>2, <2>2 DEF StartInv, TurnInv
    <3> QED
      BY <1>1, <1>5, <1>7, <1>8, <2>2, <3>1 DEF StartInv, TurnInv
  <2>3. \A c \in doneBuf' : pc'[c] = "wait"
    BY <1>1, <1>5 DEF StartInv, TurnInv
  <2>4. \A c \in Roused' : ~UnderWay(callUser[c])'
    <3>1. Roused \subseteq Calls
      BY StartTypes DEF Roused
    <3>2. \A c \in pendingSnap[u] : ~UnderWay(callUser[c])'
      BY <1>1, <1>4, <1>5
    <3> QED
      BY <1>7, <1>8, <3>1, <3>2 DEF StartInv, TurnInv
  <2> QED
    BY <2>1, <2>2, <2>3, <2>4 DEF TurnInv
<1>10. AnswerInv'
  <2>1. ASSUME NEW c \in Calls \ duplicateRequest, c \in pendingSnap[u]
        PROVE  callUser[c] \in locks /\ 1 .. asOf[c] \subseteq users[callUser[c]]
    <3>1. asOf[c] <= input.msg.change
      BY <1>5, <1>6, <2>1 DEF StartInv, AnswerInv
    <3>2. asOf[c] \in Nat /\ input.msg.change \in 0 .. MaxChanges
      BY StartTypes, MessageInHand
    <3> QED
      BY <1>5, <1>6, <2>1, <3>1, <3>2, BookAssumption
  <2>2. \A c \in Calls \ duplicateRequest : c \in Roused' \/ pc'[c] = "read" =>
           callUser'[c] \in locks' /\ 1 .. asOf'[c] \subseteq users'[callUser'[c]]
    BY <1>1, <1>7, <2>1 DEF StartInv, AnswerInv
  <2>3. \A c \in Calls \ duplicateRequest : pc'[c] = "wait" =>
           \A n : Offered(callUser[c], n)' => asOf'[c] <= n
    BY <1>1, <1>3 DEF StartInv, AnswerInv
  <2> QED
    BY <1>1, <2>2, <2>3 DEF StartInv, AnswerInv, SubscriberSeesStart
<1> QED
  BY <1>9, <1>10

\* Steps of a call before it registers, and of one that has the answer.
LEMMA UnregisteredKeepStart ==
    ASSUME FeedInv, TurnInv, AnswerInv, NEW c \in Calls,
           Start(c) \/ Accept(c) \/ CheckCache(c) \/ ReadOrders(c)
    PROVE  TurnInv' /\ AnswerInv'
<1> USE DEF containerVars, callVars, unsubVars, gateVars
<1>1. /\ UNCHANGED <<pendingSnap, doneBuf, locks, users, callUser, duplicateRequest, asOf,
                     wire, reports, input, book>>
      /\ \A d \in Calls \ {c} : pc'[d] = pc[d] /\ outcome'[d] = outcome[d] /\ result'[d] = result[d]
      /\ pc[c] \in {"start", "accept", "check", "read"}
      /\ pc'[c] \in {"accept", "check", "register", "read", "returned"}
  BY StartTypes DEF Start, Accept, CheckCache, ReadOrders, Goto
<1>2. \/ /\ pc[c] \in {"start", "accept", "check"} /\ pc'[c] # "returned"
         /\ pc'[c] = "read" => callUser[c] \in locks
         /\ outcome'[c] = outcome[c]
      \/ pc[c] = "read" /\ pc'[c] = "returned"
  BY StartTypes DEF Start, Accept, CheckCache, ReadOrders, Goto
<1>3. Roused' = Roused
  <2>1. \A d \in Calls : pc'[d] = "unregister" <=> pc[d] = "unregister"
    BY <1>1
  <2> QED
    BY <1>1, <2>1 DEF Roused
<1>4. \A u : /\ UnderWay(u)' <=> UnderWay(u)
             /\ \A n : Offered(u, n)' <=> Offered(u, n)
  BY <1>1 DEF UnderWay, Asked, Told, InHand, Offered, IsAnswer
<1>5. \A d \in Calls : UnderWay(callUser[d])' <=> UnderWay(callUser[d])
  BY <1>1, <1>4
<1>6. TurnInv'
  <2>1. \A d \in Calls : pc'[d] = "subscribe" <=> pc[d] = "subscribe"
    BY <1>1
  <2>2. \A d \in doneBuf' : pc'[d] = "wait"
    BY <1>1, StartTypes DEF TurnInv
  <2>3. Roused \subseteq Calls
    BY StartTypes DEF Roused
  <2> QED
    BY <1>1, <1>3, <1>4, <1>5, <2>1, <2>2, <2>3 DEF TurnInv
<1>7. AnswerInv'
  <2>1. \A d \in Calls \ duplicateRequest : pc'[d] = "wait" =>
           \A n : Offered(callUser[d], n)' => asOf'[d] <= n
    BY <1>1, <1>4 DEF AnswerInv
  <2>2. \A d \in Calls : pc'[d] \in {"start", "accept", "check", "register"} => asOf'[d] = 0
    BY <1>1, <1>2 DEF AnswerInv
  <2>3. ASSUME NEW d \in Calls \ duplicateRequest, d \in Roused' \/ pc'[d] = "read"
        PROVE  callUser'[d] \in locks' /\ 1 .. asOf'[d] \subseteq users'[callUser'[d]]
    <3>1. CASE d = c /\ pc'[c] = "read"
      <4>1. callUser[c] \in locks /\ asOf[c] = 0
        BY <1>1, <1>2, <3>1 DEF AnswerInv
      <4> QED
        BY <1>1, <3>1, <4>1
    <3>2. CASE d # c \/ pc'[c] # "read"
      BY <1>1, <1>3, <2>3, <3>2 DEF AnswerInv
    <3> QED
      BY <3>1, <3>2
  <2>4. \A d \in Calls : pc'[d] = "unregister" => outcome'[d] = "ok"
    BY <1>1 DEF AnswerInv
  <2>5. SubscriberSeesStart'
    <3>1. ASSUME c \notin duplicateRequest, pc'[c] = "returned"
          PROVE  outcome'[c] = "ok" /\ 1 .. asOf[c] \subseteq result'[c]
      <4>1. ReadOrders(c) /\ pc[c] = "read"
        BY StartTypes, <3>1 DEF Start, Accept, CheckCache, ReadOrders, Goto
      <4>2. callUser[c] \in locks /\ 1 .. asOf[c] \subseteq users[callUser[c]]
        BY <3>1, <4>1 DEF AnswerInv
      <4> QED
        BY <4>1, <4>2, StartTypes DEF ReadOrders
    <3> QED
      BY <1>1, <3>1 DEF AnswerInv, SubscriberSeesStart
  <2> QED
    BY <1>1, <2>1, <2>2, <2>3, <2>4, <2>5 DEF AnswerInv
<1> QED
  BY <1>6, <1>7

\* Who registers first for a user finds nothing under way for it.
LEMMA RegisterKeepsStart ==
    ASSUME FeedInv, PendingSnapExact, TurnInv, AnswerInv, NEW c \in Calls, Register(c)
    PROVE  TurnInv' /\ AnswerInv'
<1> USE DEF containerVars, unsubVars, gateVars
<1>0. PICK u \in Users : u = callUser[c]
  BY StartTypes
<1>1. /\ UNCHANGED <<doneBuf, locks, users, callUser, outcome, result, wire, reports, input, book>>
      /\ pc[c] = "register" /\ \A d \in Calls \ {c} : pc'[d] = pc[d] /\ asOf'[d] = asOf[d]
      /\ pendingSnap' = [pendingSnap EXCEPT ![u] = @ \cup {c}] /\ asOf'[c] = book[u]
      /\ duplicateRequest' = IF pendingSnap[u] # {} THEN duplicateRequest \cup {c}
                             ELSE duplicateRequest
      /\ pc'[c] = IF pendingSnap[u] # {} THEN "wait" ELSE "subscribe"
  BY <1>0, StartTypes DEF Register, Goto, SubscriptionPending
<1>2. \A v : /\ UnderWay(v)' <=> UnderWay(v)
             /\ \A n : Offered(v, n)' <=> Offered(v, n)
  BY <1>1 DEF UnderWay, Asked, Told, InHand, Offered, IsAnswer
<1>3. \A d \in Calls : UnderWay(callUser[d])' <=> UnderWay(callUser[d])
  BY <1>1, <1>2
<1>4. Roused' = Roused /\ c \notin Roused /\ Roused \subseteq Calls
  <2>1. \A d \in Calls : pc'[d] = "unregister" <=> pc[d] = "unregister"
    BY <1>1
  <2>2. c \notin doneBuf
    BY <1>1 DEF TurnInv
  <2> QED
    BY <1>1, <2>1, <2>2, StartTypes DEF Roused
<1>5. \A d \in Calls : callUser[d] = u /\ (pc[d] = "subscribe" \/ d \in Roused) => d \in pendingSnap[u]
  BY DEF PendingSnapExact, Registered, Roused, TurnInv
<1>6. TurnInv'
  <2>1. \A v \in Users : UnderWay(v)' => pendingSnap'[v] # {}
    BY <1>1, <1>2, StartTypes DEF TurnInv
  <2>2. ASSUME NEW d \in Calls, pc'[d] = "subscribe"
        PROVE  /\ ~UnderWay(callUser[d])'
               /\ \A e \in Calls \ {d} : callUser'[e] = callUser'[d] =>
                     pc'[e] # "subscribe" /\ e \notin Roused'
    <3>1. CASE d = c
      <4>1. pendingSnap[u] = {}
        BY <1>1, <2>2, <3>1
      <4>2. ~UnderWay(u)
        BY <4>1 DEF TurnInv
      <4>3. \A e \in Calls \ {c} : callUser[e] = u => pc[e] # "subscribe" /\ e \notin Roused
        BY <1>5, <4>1
      <4> QED
        BY <1>0, <1>1, <1>3, <1>4, <3>1, <4>2, <4>3
    <3>2. CASE d # c
      <4>1. /\ ~UnderWay(callUser[d])
            /\ \A e \in Calls \ {d} : callUser[e] = callUser[d] =>
                  pc[e] # "subscribe" /\ e \notin Roused
        BY <1>1, <2>2, <3>2 DEF TurnInv
      <4>2. callUser[d] = u => pendingSnap[u] # {}
        BY <1>1, <1>5, <2>2, <3>2
      <4> QED
        BY <1>0, <1>1, <1>3, <1>4, <4>1, <4>2
    <3> QED
      BY <3>1, <3>2
  <2>3. \A d \in doneBuf' : pc'[d] = "wait"
    BY <1>1, <1>4, StartTypes DEF TurnInv
  <2>4. \A d \in Roused' : ~UnderWay(callUser[d])'
    BY <1>3, <1>4 DEF TurnInv
  <2> QED
    BY <2>1, <2>2, <2>3, <2>4 DEF TurnInv
<1>7. AnswerInv'
  <2>1. \A d \in Calls : asOf'[d] <= book'[callUser'[d]]
    <3>1. asOf'[c] = book[callUser[c]] /\ book[u] \in Nat
      BY <1>0, <1>1, StartTypes
    <3>2. asOf'[c] <= book[callUser[c]]
      BY <1>0, <3>1
    <3> QED
      BY <1>1, <3>2 DEF AnswerInv
  <2>2. \A d \in Calls : pc'[d] \in {"start", "accept", "check", "register"} => asOf'[d] = 0
    BY <1>1 DEF AnswerInv
  <2>3. ASSUME NEW d \in Calls \ duplicateRequest', pc'[d] = "wait", NEW n, Offered(callUser[d], n)'
        PROVE  asOf'[d] <= n
    <3>1. d # c
      BY <1>1, <2>3
    <3>2. d \notin duplicateRequest /\ pc[d] = "wait"
      BY <1>1, <2>3, <3>1
    <3> QED
      BY <1>1, <1>2, <2>3, <3>1, <3>2 DEF AnswerInv
  <2>4. \A d \in Calls \ duplicateRequest' : d \in Roused' \/ pc'[d] = "read" =>
           callUser'[d] \in locks' /\ 1 .. asOf'[d] \subseteq users'[callUser'[d]]
    BY <1>1, <1>4 DEF AnswerInv
  <2>5. \A d \in Calls : pc'[d] = "unregister" => outcome'[d] = "ok"
    BY <1>1 DEF AnswerInv
  <2>6. SubscriberSeesStart'
    BY <1>1 DEF AnswerInv, SubscriberSeesStart
  <2> QED
    BY <2>1, <2>2, <2>3, <2>4, <2>5, <2>6 DEF AnswerInv
<1> QED
  BY <1>6, <1>7

\* The only call of its user that may subscribe does so.
LEMMA SubscribeKeepsStart ==
    ASSUME FeedInv, PendingSnapExact, StartInv, ~Faults, NEW c \in Calls, Subscribe(c)
    PROVE  StartInv'
<1> USE DEF containerVars, unsubVars, gateVars
<1>0. PICK u \in Users : u = callUser[c]
  BY StartTypes
<1>1. /\ UNCHANGED <<pendingSnap, doneBuf, locks, users, callUser, outcome, result,
                     duplicateRequest, asOf, reports, input, book>>
      /\ pc[c] = "subscribe" /\ pc'[c] = "wait" /\ \A d \in Calls \ {c} : pc'[d] = pc[d]
      /\ wire' = Append(wire, [kind |-> "subscribe", user |-> callUser[c]])
  BY StartTypes DEF Subscribe, Goto
<1>2. /\ ~UnderWay(callUser[c])
      /\ \A d \in Calls \ {c} : callUser[d] = u => pc[d] # "subscribe" /\ d \notin Roused
  BY <1>0, <1>1 DEF StartInv, TurnInv
<1>3. /\ OneSubscription'
      /\ \A v \in Users \ {u} : UnderWay(v)' => UnderWay(v)
      /\ \A v \in Users : \A n : Offered(v, n)' => Offered(v, n) \/ n = book[v]
      /\ \A n : ~Offered(u, n)'
  <2>1. /\ OneSubscription'
        /\ \A v \in Users \ {callUser[c]} : Kept(v)
        /\ \A v \in Users : NothingOlder(v)
        /\ \A n : ~Offered(callUser[c], n)'
    BY <1>1, <1>2, SubscribeMoves DEF StartInv
  <2>2. \A n : ~Offered(u, n)'
    BY <1>0, <1>1, <2>1
  <2> QED
    BY <1>0, <2>1, <2>2 DEF Kept, NothingOlder
<1>4. Roused' = Roused /\ c \notin Roused /\ Roused \subseteq Calls
  <2>1. \A d \in Calls : pc'[d] = "unregister" <=> pc[d] = "unregister"
    BY <1>1
  <2>2. c \notin doneBuf
    BY <1>1 DEF StartInv, TurnInv
  <2> QED
    BY <1>1, <2>1, <2>2, StartTypes DEF Roused
<1>5. \A d \in Calls : callUser[d] # u /\ ~UnderWay(callUser[d]) => ~UnderWay(callUser[d])'
  BY <1>1, <1>3, StartTypes
<1>6. TurnInv'
  <2>1. c \in pendingSnap[u]
    BY <1>0, <1>1 DEF PendingSnapExact, Registered
  <2>2. \A v \in Users : UnderWay(v)' => pendingSnap'[v] # {}
    BY <1>1, <1>3, <2>1 DEF StartInv, TurnInv
  <2>3. ASSUME NEW d \in Calls, pc'[d] = "subscribe"
        PROVE  /\ ~UnderWay(callUser[d])'
               /\ \A e \in Calls \ {d} : callUser'[e] = callUser'[d] =>
                     pc'[e] # "subscribe" /\ e \notin Roused'
    <3>1. d # c /\ pc[d] = "subscribe"
      BY <1>1, <2>3
    <3>2. callUser[d] # u
      BY <1>2, <3>1
    <3> QED
      BY <1>1, <1>4, <1>5, <3>1, <3>2 DEF StartInv, TurnInv
  <2>4. \A d \in doneBuf' : pc'[d] = "wait"
    BY <1>1, StartTypes DEF StartInv, TurnInv
  <2>5. \A d \in Roused' : ~UnderWay(callUser[d])'
    BY <1>2, <1>4, <1>5 DEF StartInv, TurnInv
  <2> QED
    BY <2>2, <2>3, <2>4, <2>5 DEF TurnInv
<1>7. AnswerInv'
  <2>1. ASSUME NEW d \in Calls \ duplicateRequest, pc'[d] = "wait", NEW n, Offered(callUser[d], n)'
        PROVE  asOf[d] <= n
    <3>1. d # c
      BY <1>0, <1>1, <1>3, <2>1
    <3>2. Offered(callUser[d], n) \/ n = book[callUser[d]]
      <4>1. callUser[d] \in Users /\ callUser'[d] = callUser[d]
        BY <1>1, StartTypes
      <4> QED
        BY <1>3, <2>1, <4>1
    <3> QED
      BY <1>1, <2>1, <3>1, <3>2 DEF StartInv, AnswerInv
  <2>2. \A d \in Calls : pc'[d] \in {"start", "accept", "check", "register"} => asOf'[d] = 0
    BY <1>1 DEF StartInv, AnswerInv
  <2>3. \A d \in Calls \ duplicateRequest : d \in Roused' \/ pc'[d] = "read" =>
           callUser'[d] \in locks' /\ 1 .. asOf'[d] \subseteq users'[callUser'[d]]
    BY <1>1, <1>4 DEF StartInv, AnswerInv
  <2>4. \A d \in Calls : pc'[d] = "unregister" => outcome'[d] = "ok"
    BY <1>1 DEF StartInv, AnswerInv
  <2>5. SubscriberSeesStart'
    BY <1>1 DEF StartInv, AnswerInv, SubscriberSeesStart
  <2> QED
    BY <1>1, <2>1, <2>2, <2>3, <2>4, <2>5 DEF StartInv, AnswerInv
<1> QED
  BY <1>3, <1>6, <1>7 DEF StartInv

\* A signalled call goes on to read the cache, and nothing is under way any more.
LEMMA ReturnKeepsStart ==
    ASSUME FeedInv, PendingSnapExact, TurnInv, AnswerInv, NEW c \in Calls, Wake(c) \/ Unregister(c)
    PROVE  TurnInv' /\ AnswerInv'
<1> USE DEF containerVars, unsubVars, gateVars
<1>1. /\ UNCHANGED <<locks, users, callUser, result, duplicateRequest, asOf, wire, reports, input, book>>
      /\ \A d \in Calls \ {c} : pc'[d] = pc[d] /\ outcome'[d] = outcome[d]
  BY StartTypes DEF Wake, Unregister, Goto
<1>2. \/ /\ c \in doneBuf /\ doneBuf' = doneBuf \ {c} /\ pendingSnap' = pendingSnap
         /\ pc[c] = "wait" /\ pc'[c] = "unregister" /\ outcome'[c] = "ok"
      \/ /\ doneBuf' = doneBuf /\ pendingSnap' = [pendingSnap EXCEPT ![callUser[c]] = @ \ {c}]
         /\ pc[c] = "unregister" /\ pc'[c] = "read" /\ outcome'[c] = outcome[c]
  BY StartTypes DEF Wake, Unregister, Remaining, Goto, AnswerInv
<1>3. c \in Roused /\ Roused' \subseteq Roused /\ Roused \subseteq Calls
  <2>1. c \in Roused /\ Roused \subseteq Calls
    BY <1>2, StartTypes DEF Roused
  <2>2. \A d \in Calls : pc'[d] = "unregister" => d \in Roused
    BY <1>1, <2>1 DEF Roused
  <2> QED
    BY <1>2, <2>1, <2>2 DEF Roused
<1>4. \A v : /\ UnderWay(v)' <=> UnderWay(v)
             /\ \A n : Offered(v, n)' <=> Offered(v, n)
  BY <1>1 DEF UnderWay, Asked, Told, InHand, Offered, IsAnswer
<1>5. \A d \in Calls : UnderWay(callUser[d])' <=> UnderWay(callUser[d])
  BY <1>1, <1>4
<1>6. ~UnderWay(callUser[c])
  BY <1>3 DEF TurnInv
<1>7. \A d \in Calls : pc'[d] \in {"start", "accept", "check", "register", "subscribe", "wait", "returned"}
         => d # c /\ pc[d] = pc'[d]
  BY <1>1, <1>2
<1>8. TurnInv'
  <2>1. \A v \in Users : UnderWay(v)' => pendingSnap'[v] # {}
    <3>1. \A v \in Users : v # callUser[c] => pendingSnap'[v] = pendingSnap[v]
      BY <1>2, StartTypes
    <3> QED
      BY <1>4, <1>6, <3>1 DEF TurnInv
  <2>2. \A d \in doneBuf' : pc'[d] = "wait"
    BY <1>1, <1>2, StartTypes DEF TurnInv
  <2>3. \A d \in Calls : pc'[d] = "subscribe" =>
           /\ ~UnderWay(callUser[d])'
           /\ \A e \in Calls \ {d} : callUser'[e] = callUser'[d] =>
                 pc'[e] # "subscribe" /\ e \notin Roused'
    BY <1>1, <1>3, <1>5, <1>7 DEF TurnInv
  <2>4. \A d \in Roused' : ~UnderWay(callUser[d])'
    BY <1>3, <1>5 DEF TurnInv
  <2> QED
    BY <2>1, <2>2, <2>3, <2>4 DEF TurnInv
<1>9. AnswerInv'
  <2>1. \A d \in Calls \ duplicateRequest : pc'[d] = "wait" =>
           \A n : Offered(callUser[d], n)' => asOf'[d] <= n
    BY <1>1, <1>4, <1>7 DEF AnswerInv
  <2>2. \A d \in Calls : pc'[d] \in {"start", "accept", "check", "register"} => asOf'[d] = 0
    BY <1>1, <1>7 DEF AnswerInv
  <2>3. \A d \in Calls \ duplicateRequest : d \in Roused' \/ pc'[d] = "read" =>
           callUser'[d] \in locks' /\ 1 .. asOf'[d] \subseteq users'[callUser'[d]]
    BY <1>1, <1>3 DEF AnswerInv
  <2>4. \A d \in Calls : pc'[d] = "unregister" => outcome'[d] = "ok"
    BY <1>1, <1>2 DEF AnswerInv
  <2>5. SubscriberSeesStart'
    BY <1>1, <1>7 DEF AnswerInv, SubscriberSeesStart
  <2> QED
    BY <1>1, <2>1, <2>2, <2>3, <2>4, <2>5 DEF AnswerInv
<1> QED
  BY <1>8, <1>9

LEMMA NextStart ==
    ASSUME Faithful, ~Deadlines, FeedInv, FeedInv', PendingSnapExact, StartInv, [Next]_vars
    PROVE  StartInv'
<1> USE DEF containerVars, callVars, unsubVars, gateVars
<1>0. OneSubscription /\ TurnInv /\ AnswerInv
  BY DEF StartInv
<1>1. /\ locks \subseteq locks' /\ \A u \in locks : users[u] \subseteq users'[u]
      /\ \A u \in Users : book[u] \in Nat /\ book'[u] \in Nat
  <2>1. book \in [Users -> Nat] /\ book' \in [Users -> Nat]
    <3>1. 0 .. MaxChanges \subseteq Nat
      BY BookAssumption
    <3>2. book \in [Users -> 0 .. MaxChanges] /\ book' \in [Users -> 0 .. MaxChanges]
      BY DEF FeedInv, TypeOK
    <3> QED
      BY <3>1, <3>2
  <2> QED
    BY <2>1, CacheGrows
<1>2. ASSUME NEW c \in Calls, Start(c) \/ CallStep(c) PROVE StartInv'
  <2>1. CASE Start(c) \/ Accept(c) \/ CheckCache(c) \/ ReadOrders(c)
    <3>1. UNCHANGED <<wire, reports, input>>
      BY <2>1 DEF Start, Accept, CheckCache, ReadOrders
    <3> QED
      BY <1>0, <2>1, <3>1, NothingMoves, UnregisteredKeepStart DEF StartInv
  <2>2. CASE Register(c)
    <3>1. UNCHANGED <<wire, reports, input>>
      BY <2>2 DEF Register
    <3> QED
      BY <1>0, <2>2, <3>1, NothingMoves, RegisterKeepsStart DEF StartInv
  <2>3. CASE Subscribe(c)
    BY <2>3, SubscribeKeepsStart DEF Faithful
  <2>4. CASE Wake(c) \/ Unregister(c)
    <3>1. UNCHANGED <<wire, reports, input>>
      BY <2>4 DEF Wake, Unregister
    <3> QED
      BY <1>0, <2>4, <3>1, NothingMoves, ReturnKeepsStart DEF StartInv
  <2> QED
    BY <1>2, <2>1, <2>2, <2>3, <2>4 DEF CallStep
<1>3. ASSUME UNCHANGED <<callVars, pendingSnap, doneBuf>>, OneSubscription',
             \A u \in Users : Kept(u) /\ NothingOlder(u) /\ book[u] <= book'[u]
      PROVE  StartInv'
  BY <1>0, <1>1, <1>3, OthersKeepStart DEF StartInv
<1>4. CASE InputStep
  <2>1. CASE Notify
    BY <1>0, <2>1, HandMoves, NotifyKeepsStart DEF StartInv
  <2>2. CASE Receive
    <3>1. UNCHANGED <<callVars, pendingSnap, doneBuf, book>>
      BY <2>2 DEF Receive
    <3> QED
      BY <1>0, <1>1, <1>3, <2>2, <3>1, ReceiveMoves
  <2>3. CASE StoreLock \/ WriteOrders \/ ApplyReport
    <3>1. UNCHANGED <<callVars, pendingSnap, doneBuf, book>>
      BY <2>3 DEF StoreLock, WriteOrders, ApplyReport
    <3> QED
      BY <1>0, <1>1, <1>3, <2>3, <3>1, HandMoves
  <2> QED
    BY <1>4, <2>1, <2>2, <2>3 DEF InputStep
<1>5. CASE GateSubscribe
  <2>1. UNCHANGED <<callVars, pendingSnap, doneBuf, book>>
    BY <1>5 DEF GateSubscribe
  <2> QED
    BY <1>0, <1>1, <1>3, <1>5, <2>1, AnswerMoves
<1>6. ASSUME NEW w \in Users, GateChange(w) PROVE StartInv'
  <2>1. UNCHANGED <<callVars, pendingSnap, doneBuf>>
    BY <1>6 DEF GateChange
  <2>2. \A u \in Users : book[u] <= book'[u]
    <3>1. /\ book' = [book EXCEPT ![w] = book[w] + 1]
          /\ book \in [Users -> 0 .. MaxChanges]
      BY <1>6 DEF GateChange, FeedInv, TypeOK
    <3>2. \A u \in Users : book'[u] = book[u] \/ book'[u] = book[u] + 1
      BY <3>1
    <3> QED
      BY <1>1, <3>2
  <2> QED
    BY <1>0, <1>3, <1>6, <2>1, <2>2, ChangeMoves
<1>7. CASE UNCHANGED vars
  <2>1. UNCHANGED <<callVars, pendingSnap, doneBuf, book, wire, reports, input>>
    BY <1>7 DEF vars
  <2> QED
    BY <1>0, <1>1, <1>3, <2>1, NothingMoves
<1>8. ~GateUnsubscribe
  BY NoGateUnsubscribe
<1>9. /\ ~LoseMessage
      /\ ~\E t \in Unsubscribers : UnsubStep(t)
      /\ \A c \in Calls : ~Expire(c)
  BY DEF Faithful, LoseMessage, Expire
<1> QED
  BY <1>2, <1>4, <1>5, <1>6, <1>7, <1>8, <1>9 DEF Next, GateStep

\* With nobody unsubscribing, nothing lost and no deadline, a call that finds no
\* other waiting for its user and subscribes is never answered with a snapshot
\* that was taken before it asked, nor woken by one that was meant for another
\* call, nor told that there are no orders: what it returns holds every change
\* its user's book had when it registered.
THEOREM SubscribersSeeStart == Faithful /\ ~Deadlines /\ Spec => []SubscriberSeesStart
<1> SUFFICES ASSUME Faithful, ~Deadlines PROVE Spec => []SubscriberSeesStart
  OBVIOUS
<1>1. FeedInv /\ [Next]_vars => FeedInv'
  BY NextFeed
<1>2. FeedInv /\ FeedInv' /\ PendingSnapExact /\ StartInv /\ [Next]_vars => StartInv'
  BY NextStart
<1>3. StartInv => SubscriberSeesStart
  BY DEF StartInv, AnswerInv
<1> HIDE DEF FeedInv, Faithful, StartInv, PendingSnapExact
<1> QED
  BY InitFeed, InitStart, PendingSnapIsExact, <1>1, <1>2, <1>3, PTL DEF Spec
=============================================================================
