------------------------ MODULE OrdersContainerProofs ------------------------
(***************************************************************************)
(* Proofs about OrdersContainer, for any number of users and goroutines.   *)
(*                                                                         *)
(* UserExclusive rests on CurrentMutex: the mutex that a goroutine has     *)
(* loaded is still its user's, unless the user was deleted meanwhile.  Two *)
(* goroutines of one user that nobody overtook therefore use one mutex,    *)
(* and MutexExclusive, what Lock and RLock guarantee, keeps them apart.    *)
(***************************************************************************)
EXTENDS OrdersContainer, TLAPS

\* The mutex somebody loaded is the user's own, or a deletion came between.
CurrentMutex ==
    \A g \in Goroutines \ overtaken : mx[g] # NoMutex => mx[g] = locks[user[g]]

\* The holders of one mutex only read.
MutexExclusive ==
    \A g, h \in Goroutines :
        g # h /\ Holds(g) /\ Holds(h) /\ mx[g] = mx[h] => Reading(g) /\ Reading(h)

LockingInv == TypeOK /\ CurrentMutex /\ MutexExclusive

-----------------------------------------------------------------------------
\* What the proofs need of the names of mutexes.
LEMMA MutexNames ==
    /\ NoMutex \notin Mutexes
    /\ \A n \in 0 .. MaxMutexes : n < MaxMutexes => n + 1 \in Mutexes /\ n + 1 \in 0 .. MaxMutexes
BY MutexAssumption DEF Mutexes

\* Values keep their types, and a goroutine has a mutex exactly while it waits
\* for it or holds it.
LEMMA TypeStep == TypeOK /\ [Next]_vars => TypeOK'
<1> SUFFICES ASSUME TypeOK, [Next]_vars PROVE TypeOK'
    OBVIOUS
<1> USE MutexNames
<1>a. CASE UNCHANGED vars
    BY <1>a DEF vars, TypeOK, ShapeOK
<1>b. CASE Next
  <2> PICK g \in Goroutines : Step(g)
      BY <1>b DEF Next
  <2>0. locks[user[g]] \in Mutexes \cup {NoMutex}
    <3>1. user[g] \in Users
        BY DEF TypeOK
    <3> QED BY <3>1 DEF TypeOK
  <2> USE DEF TypeOK, ShapeOK
  <2>1. CASE Call(g)
    <3>1. PICK u \in Users : user' = [user EXCEPT ![g] = u]
        BY <2>1 DEF Call
    <3>2. PICK o \in Operations(g) : op' = [op EXCEPT ![g] = o]
        BY <2>1 DEF Call
    <3>3. o \in {"set", "keep", "drop", "get", "delete"}
        BY DEF Operations
    <3>4. op' \in [Goroutines -> {"set", "keep", "drop", "get", "delete"}]
        BY <3>2, <3>3
    <3>5. pc' = [pc EXCEPT ![g] = "load"] /\ pc[g] = "idle" /\ mx' = mx
        BY <2>1 DEF Call
    <3>6. ShapeOK'
        BY <3>2, <3>5
    <3> QED BY <2>1, <3>1, <3>4, <3>5, <3>6 DEF Call
  <2>2. CASE Load(g)
    <3>1. locks[user[g]] \in Mutexes
        BY <2>0, <2>2 DEF Load
    <3>2. mx' = [mx EXCEPT ![g] = locks[user[g]]] /\ pc' = [pc EXCEPT ![g] = "lock"]
        BY <2>2 DEF Load
    <3>3. UNCHANGED <<locks, users, mutexes, op, user, found, crashed, overtaken>>
        BY <2>2 DEF Load
    <3>4. ShapeOK'
        BY <3>1, <3>2, <3>3
    <3> QED BY <3>1, <3>2, <3>3, <3>4
  <2>3. CASE LoadMiss(g)
    <3>1. found' \in [Readers -> {"nothing", "no lock", "no orders", "orders"}]
        BY <2>3 DEF LoadMiss, ShapeOK
    <3>2. AfterMiss(g) \in {"store", "idle"} /\ (AfterMiss(g) = "store" => op[g] = "set")
        BY DEF AfterMiss
    <3> QED BY <2>3, <3>1, <3>2 DEF LoadMiss
  <2>4. CASE StoreLock(g)
    <3>1. PICK m \in Mutexes : mx' = [mx EXCEPT ![g] = m]
      <4>1. CASE locks[user[g]] # NoMutex
          BY <2>0, <2>4, <4>1 DEF StoreLock
      <4>2. CASE locks[user[g]] = NoMutex
          BY <2>4, <4>2 DEF StoreLock
      <4> QED BY <4>1, <4>2
    <3>2. mutexes' \in 0 .. MaxMutexes /\ locks' \in [Users -> Mutexes \cup {NoMutex}]
        BY <2>4 DEF StoreLock
    <3>3. pc' = [pc EXCEPT ![g] = "lock"]
        BY <2>4 DEF StoreLock
    <3>4. UNCHANGED <<users, op, user, found, crashed, overtaken>>
        BY <2>4 DEF StoreLock
    <3>5. ShapeOK'
        BY <3>1, <3>3, <3>4
    <3> QED BY <3>1, <3>2, <3>3, <3>4, <3>5
  <2>5. CASE Lock(g)
      BY <2>5 DEF Lock
  <2>6. CASE SetOrders(g)
      BY <2>6 DEF SetOrders, Finish
  <2>7. CASE KeepOrder(g)
      BY <2>7 DEF KeepOrder, Finish
  <2>8. CASE DropOrder(g)
      BY <2>8 DEF DropOrder, Finish
  <2>9. CASE GetOrders(g)
      BY <2>9 DEF GetOrders, Finish
  <2>10. CASE DeleteOrders(g)
      BY <2>10 DEF DeleteOrders, Overtakes
  <2>11. CASE DeleteLock(g)
      BY <2>11 DEF DeleteLock, Overtakes, WithoutLock
  <2> QED BY <2>1, <2>2, <2>3, <2>4, <2>5, <2>6, <2>7, <2>8, <2>9, <2>10, <2>11 DEF Step
<1> QED BY <1>a, <1>b

LEMMA InitType == Init => TypeOK
<1> SUFFICES ASSUME Init PROVE TypeOK
    OBVIOUS
<1>1. ShapeOK
    BY DEF Init, ShapeOK
<1>2. mutexes \in 0 .. MaxMutexes
    BY MutexAssumption DEF Init
<1> QED BY <1>1, <1>2 DEF Init, TypeOK

\* Type correctness of the container for every number of users and goroutines.
THEOREM TypeCorrect == Spec => []TypeOK
BY InitType, TypeStep, PTL DEF Spec

-----------------------------------------------------------------------------
\* No step makes a goroutine's mutex differ from its user's, except that a
\* deletion overtakes it.
LEMMA CurrentStep == TypeOK /\ CurrentMutex /\ [Next]_vars => CurrentMutex'
<1> SUFFICES ASSUME TypeOK, CurrentMutex, [Next]_vars PROVE CurrentMutex'
    OBVIOUS
<1> USE MutexNames DEF CurrentMutex
<1>a. CASE UNCHANGED vars
    BY <1>a DEF vars
<1>b. CASE Next
  <2> PICK g \in Goroutines : Step(g)
      BY <1>b DEF Next
  <2>t. /\ locks \in [Users -> Mutexes \cup {NoMutex}]
        /\ mx \in [Goroutines -> Mutexes \cup {NoMutex}]
        /\ user \in [Goroutines -> Users]
        /\ pc \in [Goroutines -> {"idle", "load", "store", "lock", "inside", "forget"}]
        /\ \A h \in Goroutines : mx[h] = NoMutex <=> pc[h] \in {"idle", "load", "store"}
      BY DEF TypeOK, ShapeOK
  <2>1. CASE Call(g)
      BY <2>t, <2>1 DEF Call
  <2>2. CASE Load(g)
      BY <2>t, <2>2 DEF Load
  <2>3. CASE LoadMiss(g)
      BY <2>t, <2>3 DEF LoadMiss
  <2>4. CASE StoreLock(g)
    <3>1. CASE locks[user[g]] # NoMutex
        BY <2>t, <2>4, <3>1 DEF StoreLock
    <3>2. CASE locks[user[g]] = NoMutex
      <4>1. \A h \in Goroutines \ overtaken : user[h] = user[g] => mx[h] = NoMutex
          BY <2>t, <3>2
      <4> QED BY <2>t, <2>4, <3>2, <4>1 DEF StoreLock
    <3> QED BY <3>1, <3>2
  <2>5. CASE Lock(g)
      BY <2>t, <2>5 DEF Lock
  <2>6. CASE Finish(g) /\ UNCHANGED <<locks, user>>
      BY <2>t, <2>6 DEF Finish
  <2>7. CASE KeepOrder(g) /\ UNCHANGED <<pc, mx, overtaken>>
      BY <2>t, <2>7 DEF KeepOrder
  <2>8. CASE DeleteOrders(g)
      BY <2>t, <2>8 DEF DeleteOrders
  <2>9. CASE DeleteLock(g)
    <3>1. \A h \in Goroutines \ overtaken' : h # g /\ user[h] = user[g] => mx[h] = NoMutex
        BY <2>t, <2>9 DEF DeleteLock, Overtakes
    <3>2. \A h \in Goroutines \ overtaken' : h # g => h \notin overtaken
        BY <2>9 DEF DeleteLock
    <3>3. mx' = [mx EXCEPT ![g] = NoMutex] /\ locks' = [locks EXCEPT ![user[g]] = NoMutex]
          /\ user' = user
        BY <2>9 DEF DeleteLock, WithoutLock
    <3> QED BY <2>t, <3>1, <3>2, <3>3
  <2> QED BY <2>1, <2>2, <2>3, <2>4, <2>5, <2>6, <2>7, <2>8, <2>9
         DEF Step, SetOrders, KeepOrder, DropOrder, GetOrders
<1> QED BY <1>a, <1>b

\* Lock and RLock admit nobody that must not be there.
LEMMA ExclusiveStep == TypeOK /\ MutexExclusive /\ [Next]_vars => MutexExclusive'
<1> SUFFICES ASSUME TypeOK, MutexExclusive, [Next]_vars PROVE MutexExclusive'
    OBVIOUS
<1> USE DEF MutexExclusive, Holds, Reading
<1>a. CASE UNCHANGED vars
    BY <1>a DEF vars
<1>b. CASE Next
  <2> PICK g \in Goroutines : Step(g)
      BY <1>b DEF Next
  <2>t. /\ mx \in [Goroutines -> Mutexes \cup {NoMutex}]
        /\ op \in [Goroutines -> {"set", "keep", "drop", "get", "delete"}]
        /\ pc \in [Goroutines -> {"idle", "load", "store", "lock", "inside", "forget"}]
      BY DEF TypeOK
  <2>1. CASE Call(g)
      BY <2>t, <2>1 DEF Call
  <2>2. CASE Load(g)
      BY <2>t, <2>2 DEF Load
  <2>3. CASE LoadMiss(g)
    <3>1. AfterMiss(g) \in {"store", "idle"}
        BY DEF AfterMiss
    <3> QED BY <2>t, <2>3, <3>1 DEF LoadMiss
  <2>4. CASE StoreLock(g)
    <3>1. pc' = [pc EXCEPT ![g] = "lock"] /\ op' = op
        BY <2>4 DEF StoreLock
    <3>2. \A h \in Goroutines \ {g} : mx'[h] = mx[h]
        BY <2>t, <2>4 DEF StoreLock
    <3> QED BY <2>t, <3>1, <3>2
  <2>5. CASE Lock(g)
      BY <2>t, <2>5 DEF Lock, FreeFor
  <2>6. CASE Finish(g) /\ op' = op
      BY <2>t, <2>6 DEF Finish
  <2>7. CASE UNCHANGED <<pc, op, mx>>
      BY <2>7
  <2>8. CASE DeleteOrders(g)
      BY <2>t, <2>8 DEF DeleteOrders
  <2>9. CASE DeleteLock(g)
      BY <2>t, <2>9 DEF DeleteLock
  <2> QED BY <2>1, <2>2, <2>3, <2>4, <2>5, <2>6, <2>7, <2>8, <2>9
         DEF Step, SetOrders, KeepOrder, DropOrder, GetOrders
<1> QED BY <1>a, <1>b

LEMMA LockingImpliesExclusive == LockingInv => UserExclusive
<1> SUFFICES ASSUME LockingInv,
                    NEW g \in Goroutines \ overtaken, NEW h \in Goroutines \ overtaken,
                    g # h, Holds(g), Holds(h), user[g] = user[h]
             PROVE  Reading(g) /\ Reading(h)
    BY DEF UserExclusive
<1>1. mx[g] # NoMutex /\ mx[h] # NoMutex
    BY DEF LockingInv, TypeOK, ShapeOK, Holds
<1>2. mx[g] = mx[h]
    BY <1>1 DEF LockingInv, CurrentMutex
<1> QED BY <1>2 DEF LockingInv, MutexExclusive

LEMMA InitLocking == Init => LockingInv
<1>1. Init => TypeOK
    BY InitType
<1>2. Init => CurrentMutex /\ MutexExclusive
    BY DEF Init, CurrentMutex, MutexExclusive, Holds
<1> QED BY <1>1, <1>2 DEF LockingInv

LEMMA LockingStep == LockingInv /\ [Next]_vars => LockingInv'
BY TypeStep, CurrentStep, ExclusiveStep DEF LockingInv

\* Two goroutines are in the critical section of one user at once, one of them
\* writing, only if a deletion of that user went on meanwhile: the lazily
\* created mutexes never give a user two live mutexes by themselves.
THEOREM UsersAreExclusive == Spec => []UserExclusive
<1>1. LockingInv => UserExclusive
    BY LockingImpliesExclusive
<1> QED BY InitLocking, LockingStep, <1>1, PTL DEF Spec

-----------------------------------------------------------------------------
\* A step leaves no user with a mutex and without a map of orders.
LEMMA HasOrdersStep == TypeOK /\ LockedHasOrders /\ [Next]_vars => LockedHasOrders'
<1> SUFFICES ASSUME TypeOK, LockedHasOrders, [Next]_vars PROVE LockedHasOrders'
    OBVIOUS
<1> USE MutexNames, GoroutinesAssumption DEF LockedHasOrders
<1>a. CASE UNCHANGED vars
    BY <1>a DEF vars
<1>b. CASE Next
  <2> PICK g \in Goroutines : Step(g)
      BY <1>b DEF Next
  <2>t. /\ locks \in [Users -> Mutexes \cup {NoMutex}]
        /\ mx \in [Goroutines -> Mutexes \cup {NoMutex}]
        /\ mutexes \in 0 .. MaxMutexes
        /\ op \in [Goroutines -> {"set", "keep", "drop", "get", "delete"}]
        /\ user \in [Goroutines -> Users]
        /\ pc \in [Goroutines -> {"idle", "load", "store", "lock", "inside", "forget"}]
        /\ \A h \in Goroutines :
              /\ op[h] = "set" => h = Input
              /\ op[h] = "delete" => h \in Deleters
              /\ pc[h] = "store" => op[h] = "set"
              /\ mx[h] = NoMutex <=> pc[h] \in {"idle", "load", "store"}
        /\ Input \in Goroutines /\ Deleters \subseteq Goroutines
      BY DEF TypeOK, ShapeOK, Operations, Goroutines
  <2> DEFINE Storing(u) == user[Input] = u /\ op[Input] = "set" /\ mx[Input] # NoMutex
             Deleting(u) == \E d \in Deleters : user[d] = u /\ pc[d] = "forget"
  <2>u. SUFFICES ASSUME NEW u \in Users, locks'[u] # NoMutex, u \notin users'
                 PROVE  Storing(u)' \/ Deleting(u)'
      OBVIOUS
  <2>1. CASE Call(g)
      BY <2>t, <2>u, <2>1 DEF Call
  <2>2. CASE Load(g)
      BY <2>t, <2>u, <2>2 DEF Load
  <2>3. CASE LoadMiss(g)
    <3>1. pc' = [pc EXCEPT ![g] = AfterMiss(g)] /\ pc[g] = "load"
          /\ UNCHANGED <<locks, users, op, user, mx>>
        BY <2>3 DEF LoadMiss
    <3>2. Storing(u) \/ Deleting(u)
        BY <2>u, <3>1
    <3> QED BY <2>t, <3>1, <3>2
  <2>4. CASE StoreLock(g)
    <3>1. g = Input /\ op[g] = "set" /\ op' = op /\ user' = user /\ users' = users
        BY <2>t, <2>4 DEF StoreLock
    <3>2. mx'[g] # NoMutex
        BY <2>t, <2>4 DEF StoreLock
    <3>3. pc' = [pc EXCEPT ![g] = "lock"] /\ pc[g] = "store"
        BY <2>4 DEF StoreLock
    <3>4. CASE u = user[g]
        BY <3>1, <3>2, <3>4
    <3>5. CASE u # user[g]
      <4>1. locks'[u] = locks[u]
          BY <2>t, <2>4, <3>5 DEF StoreLock
      <4>2. Deleting(u)
          BY <2>u, <3>1, <3>5, <4>1
      <4> QED BY <2>t, <3>1, <3>3, <4>2
    <3> QED BY <3>4, <3>5
  <2>5. CASE Lock(g)
      BY <2>t, <2>u, <2>5 DEF Lock
  <2>6. CASE SetOrders(g)
    <3>1. g = Input /\ u # user[g] /\ u \notin users /\ locks[u] # NoMutex
        BY <2>t, <2>u, <2>6 DEF SetOrders
    <3>2. Deleting(u)
        BY <3>1
    <3> QED BY <2>t, <2>6, <3>2 DEF SetOrders, Finish
  <2>7. CASE (KeepOrder(g) \/ DropOrder(g) \/ GetOrders(g)) /\ Finish(g)
    <3>1. op[g] # "set" /\ pc[g] = "inside"
        BY <2>7 DEF KeepOrder, DropOrder, GetOrders
    <3>2. UNCHANGED <<locks, users, op, user>>
        BY <2>7 DEF KeepOrder, DropOrder, GetOrders
    <3>3. Storing(u) \/ Deleting(u)
        BY <2>u, <3>2
    <3> QED BY <2>t, <2>7, <3>1, <3>2, <3>3 DEF Finish
  <2>8. CASE KeepOrder(g) /\ UNCHANGED <<pc, mx, overtaken>>
      BY <2>t, <2>u, <2>8 DEF KeepOrder
  <2>9. CASE DeleteOrders(g)
    <3>1. g \in Deleters /\ pc' = [pc EXCEPT ![g] = "forget"]
        BY <2>t, <2>9 DEF DeleteOrders
    <3>2. UNCHANGED <<locks, op, user, mx>> /\ users' = users \ {user[g]}
        BY <2>9 DEF DeleteOrders
    <3>3. CASE u = user[g]
        BY <2>t, <3>1, <3>2, <3>3
    <3>4. CASE u # user[g]
      <4>1. Storing(u) \/ Deleting(u)
          BY <2>u, <3>2, <3>4
      <4> QED BY <2>t, <3>1, <3>2, <4>1
    <3> QED BY <3>3, <3>4
  <2>10. CASE DeleteLock(g)
    <3>1. u # user[g] /\ locks[u] # NoMutex /\ u \notin users
        BY <2>t, <2>u, <2>10 DEF DeleteLock, WithoutLock
    <3>2. pc' = [pc EXCEPT ![g] = "idle"] /\ mx' = [mx EXCEPT ![g] = NoMutex]
          /\ op' = op /\ user' = user /\ pc[g] = "forget"
        BY <2>10 DEF DeleteLock
    <3>3. g # Input
        BY <2>t, <3>2 DEF TypeOK, ShapeOK, Operations
    <3>4. Storing(u) \/ Deleting(u)
        BY <3>1
    <3> QED BY <2>t, <3>1, <3>2, <3>3, <3>4
  <2> QED BY <2>1, <2>2, <2>3, <2>4, <2>5, <2>6, <2>7, <2>8, <2>9, <2>10
         DEF Step, KeepOrder, DropOrder, GetOrders
<1> QED BY <1>a, <1>b

\* A user that hasOrders can be read, but for a first snapshot that is being
\* stored and for a deletion under way.
THEOREM LockedUsersHaveOrders == Spec => []LockedHasOrders
<1>1. Init => TypeOK /\ LockedHasOrders
    BY InitType DEF Init, LockedHasOrders
<1>2. TypeOK /\ LockedHasOrders /\ [Next]_vars => (TypeOK /\ LockedHasOrders)'
    BY TypeStep, HasOrdersStep
<1> QED BY <1>1, <1>2, PTL DEF Spec

\* The write to a nil map that ends the process needs a deletion of the same
\* user in the middle of an operation: without one, handleReport only goes on
\* with a map to write to.
THEOREM CrashesNeedOvertaking == Spec => []CrashNeedsOvertaking
<1> DEFINE Inv == LockingInv /\ LockedHasOrders /\ CrashNeedsOvertaking
<1>1. Init => Inv
    BY InitLocking DEF Init, LockedHasOrders, CrashNeedsOvertaking
<1>2. Inv /\ [Next]_vars => Inv'
  <2> SUFFICES ASSUME Inv, [Next]_vars PROVE CrashNeedsOvertaking'
      BY LockingStep, HasOrdersStep DEF LockingInv
  <2>1. CASE UNCHANGED vars
      BY <2>1 DEF vars, CrashNeedsOvertaking
  <2>2. CASE Next
    <3> PICK g \in Goroutines : Step(g)
        BY <2>2 DEF Next
    <3>1. ~crashed
        BY <2>2 DEF Next
    <3>2. CASE KeepOrder(g) /\ user[g] \notin users
      <4>1. g = Input /\ op[g] = "keep" /\ pc[g] = "inside" /\ mx[g] # NoMutex
          BY <3>2 DEF KeepOrder, LockingInv, TypeOK, ShapeOK, Operations
      <4>2. user' = user /\ overtaken' = overtaken
          BY <3>2 DEF KeepOrder
      <4>3. CASE g \in overtaken
          BY <4>1, <4>2, <4>3 DEF CrashNeedsOvertaking
      <4>4. CASE g \notin overtaken
        <5>1. locks[user[g]] # NoMutex /\ user[g] \in Users
            BY <4>1, <4>4 DEF LockingInv, CurrentMutex, TypeOK
        <5>2. PICK d \in Deleters : user[d] = user[g] /\ pc[d] = "forget"
            BY <3>2, <4>1, <5>1 DEF LockedHasOrders
        <5>3. d \in Goroutines /\ d # g /\ Holds(d) /\ Holds(g) /\ ~Reading(g)
            BY <4>1, <5>2, GoroutinesAssumption DEF Goroutines, Holds, Reading
        <5>4. d \in overtaken
            BY <4>4, <5>2, <5>3, LockingImpliesExclusive DEF UserExclusive
        <5> QED BY <4>1, <4>2, <5>2, <5>4 DEF CrashNeedsOvertaking
      <4> QED BY <4>3, <4>4
    <3>3. CASE ~crashed'
        BY <3>3 DEF CrashNeedsOvertaking
    <3>4. KeepOrder(g) \/ crashed' = crashed
        BY DEF Step, Call, Load, LoadMiss, StoreLock, Lock, SetOrders, DropOrder, GetOrders,
               DeleteOrders, DeleteLock
    <3> QED BY <3>1, <3>2, <3>3, <3>4 DEF KeepOrder
  <2> QED BY <2>1, <2>2
<1> QED BY <1>1, <1>2, PTL DEF Spec
=============================================================================
