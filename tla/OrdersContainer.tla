--------------------------- MODULE OrdersContainer ---------------------------
(***************************************************************************)
(* The locking of ordersContainer (orders-container.go).                   *)
(*                                                                         *)
(* The container is one plain map, users, from a user to the map of the    *)
(* user's orders, and one sync.Map, locks, from a user to the RWMutex of   *)
(* that user.  Every operation loads the mutex, locks it and then touches  *)
(* users; delete also takes the mutex out of locks, while others that have *)
(* loaded it may still wait for it.  The operations of one zmqTrader run   *)
(* on these goroutines: setOrders and handleReport on input(), getOrders   *)
(* and getOrder on the goroutines of the calls, delete on those of         *)
(* Unsubscribe.  hasOrders, a single look into locks, has no steps here.   *)
(*                                                                         *)
(* Of users only the presence of a user's orders is kept.  The effect of a *)
(* critical section takes place when it ends, so that two goroutines that  *)
(* are in one at the same time are two goroutines that may race.           *)
(***************************************************************************)
EXTENDS Naturals

CONSTANTS
    Users,      \* user identifiers
    Input,      \* the goroutine that stores snapshots and reports
    Readers,    \* goroutines that call getOrders or getOrder
    Deleters,   \* goroutines that call delete
    MaxMutexes, \* bound: mutexes ever created
    NoMutex

Goroutines == {Input} \cup Readers \cup Deleters

ASSUME GoroutinesAssumption ==
    /\ Input \notin Readers \cup Deleters
    /\ Readers \cap Deleters = {}
ASSUME MutexAssumption == MaxMutexes \in Nat /\ NoMutex \notin Nat

VARIABLES
    locks,     \* the mutex of a user, or NoMutex
    users,     \* users with a map of orders
    mutexes,   \* mutexes created so far, named 1, 2, ...
    pc,        \* where a goroutine is in its operation
    op,        \* which operation it runs
    user, mx,  \* the local variables userID and mx
    found,     \* what a read returned
    crashed,   \* a write to a nil map has ended the process
    overtaken  \* history: goroutines whose user was deleted since they loaded mx

vars == <<locks, users, mutexes, pc, op, user, mx, found, crashed, overtaken>>

\* Their identities.
Mutexes == 1 .. MaxMutexes

\* Reports that end in an order kept and in an order removed.
Operations(g) ==
    IF g = Input THEN {"set", "keep", "drop"}
    ELSE IF g \in Readers THEN {"get"} ELSE {"delete"}

\* How the local state of a goroutine hangs together.
ShapeOK ==
    \A g \in Goroutines :
        /\ op[g] \in Operations(g)
        /\ pc[g] = "store" => op[g] = "set"
        /\ pc[g] = "forget" => op[g] = "delete"
        /\ mx[g] = NoMutex <=> pc[g] \in {"idle", "load", "store"}

TypeOK ==
    /\ locks \in [Users -> Mutexes \cup {NoMutex}]
    /\ users \subseteq Users
    /\ mutexes \in 0 .. MaxMutexes
    /\ pc \in [Goroutines -> {"idle", "load", "store", "lock", "inside", "forget"}]
    /\ op \in [Goroutines -> {"set", "keep", "drop", "get", "delete"}]
    /\ user \in [Goroutines -> Users]
    /\ mx \in [Goroutines -> Mutexes \cup {NoMutex}]
    /\ found \in [Readers -> {"nothing", "no lock", "no orders", "orders"}]
    /\ crashed \in BOOLEAN
    /\ overtaken \subseteq Goroutines
    /\ ShapeOK

Init ==
    /\ locks = [u \in Users |-> NoMutex]
    /\ users = {}
    /\ mutexes = 0
    /\ pc = [g \in Goroutines |-> "idle"]
    /\ op \in [Goroutines -> {"set", "keep", "drop", "get", "delete"}]
    /\ \A g \in Goroutines : op[g] \in Operations(g)
    /\ user \in [Goroutines -> Users]
    /\ mx = [g \in Goroutines |-> NoMutex]
    /\ found = [g \in Readers |-> "nothing"]
    /\ crashed = FALSE
    /\ overtaken = {}

-----------------------------------------------------------------------------
\* The return from an operation, with the deferred Unlock or RUnlock.
Finish(g) ==
    /\ pc' = [pc EXCEPT ![g] = "idle"]
    /\ mx' = [mx EXCEPT ![g] = NoMutex]
    /\ overtaken' = overtaken \ {g}

\* Goroutine g calls an operation for some user.  handleReport returns at once from
\* reports of the other types.
Call(g) ==
    /\ pc[g] = "idle"
    /\ pc' = [pc EXCEPT ![g] = "load"]
    /\ \E u \in Users : user' = [user EXCEPT ![g] = u]
    /\ \E o \in Operations(g) : op' = [op EXCEPT ![g] = o]
    /\ UNCHANGED <<locks, users, mutexes, mx, found, crashed, overtaken>>

\* locks.Load finds the mutex.
Load(g) ==
    /\ pc[g] = "load"
    /\ locks[user[g]] # NoMutex
    /\ mx' = [mx EXCEPT ![g] = locks[user[g]]]
    /\ pc' = [pc EXCEPT ![g] = "lock"]
    /\ UNCHANGED <<locks, users, mutexes, op, user, found, crashed, overtaken>>

MutantAfterMiss(g) == IF op[g] \in {"set", "keep"} THEN "store" ELSE "idle"
\* Without a mutex only setOrders goes on, the others return.
AfterMiss(g) == IF op[g] = "set" THEN "store" ELSE "idle"

LoadMiss(g) ==
    /\ pc[g] = "load"
    /\ locks[user[g]] = NoMutex
    /\ pc' = [pc EXCEPT ![g] = AfterMiss(g)]
    /\ found' = [r \in Readers |-> IF r = g THEN "no lock" ELSE found[r]]
    /\ UNCHANGED <<locks, users, mutexes, op, user, mx, crashed, overtaken>>

\* locks.LoadOrStore in setOrders.
StoreLock(g) ==
    LET u == user[g] IN
    /\ pc[g] = "store"
    /\ pc' = [pc EXCEPT ![g] = "lock"]
    /\ \/ /\ locks[u] # NoMutex
          /\ mx' = [mx EXCEPT ![g] = locks[u]]
          /\ UNCHANGED <<locks, mutexes>>
       \/ /\ locks[u] = NoMutex
          /\ mutexes < MaxMutexes
          /\ mutexes' = mutexes + 1
          /\ locks' = [locks EXCEPT ![u] = mutexes + 1]
          /\ mx' = [mx EXCEPT ![g] = mutexes + 1]
    /\ UNCHANGED <<users, op, user, found, crashed, overtaken>>

Holds(g) == pc[g] \in {"inside", "forget"}
Reading(g) == op[g] = "get"

MutantFreeFor(g) == TRUE
\* Lock waits for everybody that holds the mutex, RLock for a writer.
FreeFor(g) == \A h \in Goroutines : Holds(h) /\ mx[h] = mx[g] => Reading(g) /\ Reading(h)

Lock(g) ==
    /\ pc[g] = "lock"
    /\ FreeFor(g)
    /\ pc' = [pc EXCEPT ![g] = "inside"]
    /\ UNCHANGED <<locks, users, mutexes, op, user, mx, found, crashed, overtaken>>

\* setOrders: users[userID] gets the snapshot's orders.
SetOrders(g) ==
    /\ pc[g] = "inside"
    /\ op[g] = "set"
    /\ users' = users \cup {user[g]}
    /\ Finish(g)
    /\ UNCHANGED <<locks, mutexes, op, user, found, crashed>>

\* handleReport: an order is stored in the user's map, which has to be there ...
KeepOrder(g) ==
    /\ pc[g] = "inside"
    /\ op[g] = "keep"
    /\ \/ user[g] \in users /\ Finish(g) /\ UNCHANGED crashed
       \/ user[g] \notin users /\ crashed' = TRUE /\ UNCHANGED <<pc, mx, overtaken>>
    /\ UNCHANGED <<locks, users, mutexes, op, user, found>>

\* ... or deleted from it, which a nil map permits.
DropOrder(g) ==
    /\ pc[g] = "inside"
    /\ op[g] = "drop"
    /\ Finish(g)
    /\ UNCHANGED <<locks, users, mutexes, op, user, found, crashed>>

\* getOrders: a user without a map has no orders.
GetOrders(g) ==
    /\ pc[g] = "inside"
    /\ op[g] = "get"
    /\ found' = [found EXCEPT ![g] = IF user[g] \in users THEN "orders" ELSE "no orders"]
    /\ Finish(g)
    /\ UNCHANGED <<locks, users, mutexes, op, user, crashed>>

\* The goroutines with an operation under way on the user that g deletes.
Overtakes(g) == {h \in Goroutines \ {g} : user[h] = user[g] /\ mx[h] # NoMutex}

\* delete, its first half ...
DeleteOrders(g) ==
    /\ pc[g] = "inside"
    /\ op[g] = "delete"
    /\ users' = users \ {user[g]}
    /\ pc' = [pc EXCEPT ![g] = "forget"]
    /\ overtaken' = overtaken \cup Overtakes(g)
    /\ UNCHANGED <<locks, mutexes, op, user, mx, found, crashed>>

MutantOwnLock(g) == IF locks[user[g]] = mx[g] THEN [locks EXCEPT ![user[g]] = NoMutex] ELSE locks
\* What locks.Delete leaves: whatever mutex the user has by now is taken out.
WithoutLock(g) == [locks EXCEPT ![user[g]] = NoMutex]

\* ... and its second.
DeleteLock(g) ==
    /\ pc[g] = "forget"
    /\ locks' = WithoutLock(g)
    /\ pc' = [pc EXCEPT ![g] = "idle"]
    /\ mx' = [mx EXCEPT ![g] = NoMutex]
    /\ overtaken' = (overtaken \cup Overtakes(g)) \ {g}
    /\ UNCHANGED <<users, mutexes, op, user, found, crashed>>

Step(g) ==
    \/ Call(g) \/ Load(g) \/ LoadMiss(g) \/ StoreLock(g) \/ Lock(g)
    \/ SetOrders(g) \/ KeepOrder(g) \/ DropOrder(g) \/ GetOrders(g)
    \/ DeleteOrders(g) \/ DeleteLock(g)

Next == ~crashed /\ \E g \in Goroutines : Step(g)

Spec == Init /\ [][Next]_vars

-----------------------------------------------------------------------------
(* Properties.                                                               *)

\* A user that hasOrders has a map of orders, but for a snapshot that is being
\* stored and for a deletion under way.  This rests on the order of the steps
\* of setOrders and of delete, and on delete taking out whatever mutex it finds.
LockedHasOrders ==
    \A u \in Users : locks[u] # NoMutex =>
        \/ u \in users
        \/ user[Input] = u /\ op[Input] = "set" /\ mx[Input] # NoMutex
        \/ \E g \in Deleters : user[g] = u /\ pc[g] = "forget"

\* Two goroutines that are in the critical section of one user at once only
\* read, unless the user was deleted while one of them waited for its mutex.
UserExclusive ==
    \A g, h \in Goroutines \ overtaken :
        g # h /\ Holds(g) /\ Holds(h) /\ user[g] = user[h] => Reading(g) /\ Reading(h)

\* handleReport writes to a nil map only if the user was deleted in the middle
\* of somebody's operation.
CrashNeedsOvertaking ==
    crashed => \E g \in overtaken : user[g] = user[Input]

\* "handleReport fill user orders map. allow process only if user orders
\* snapshot exist" (orders-container.go:69).
ReportNeedsSnapshot == ~crashed
=============================================================================
