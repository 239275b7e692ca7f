-------------------------- MODULE WatchedMockProofs --------------------------
(***************************************************************************)
(* UserWatcher implements Lease, for any users, durations and clocks; and  *)
(* what the watcher promises, it keeps with the mock trader and a program  *)
(* around it.                                                              *)
(*                                                                         *)
(* Two invariants carry the first proof.  Noted says what a note and       *)
(* obsoleteTime mean in ticks; with it nobody is released early.  Fresh    *)
(* bounds the age of the notes by the run of release that went through     *)
(* them last; with it everybody is released in time.                       *)
(*                                                                         *)
(* The composition takes the watcher's steps only, so that the theorems    *)
(* about the watcher carry over; and the trader deletes orders only while  *)
(* the watcher waits for it.                                               *)
(*                                                                         *)
(* The last two theorems are about calls of any length, in any number. One *)
(* that is over within Kept keeps its user in the notes by its own touch,  *)
(* and the users of the longer ones are in late: KeptInv.  A mutex has its *)
(* map unless a call is between the two stores of setOrders, and only a    *)
(* call longer than Kept is overtaken by a release: MapsInv.               *)
(***************************************************************************)
EXTENDS WatchedMock, TLAPS

\* A user's note in ticks.
Ticks(s) == TicksPerSecond * s

\* Whole seconds are less than a second behind.
LEMMA SecondsRoundDown ==
    ASSUME NEW n \in Nat
    PROVE  /\ Seconds(n) \in Nat
           /\ Ticks(Seconds(n)) <= n
           /\ n < Ticks(Seconds(n)) + TicksPerSecond
  BY TimeAssumption DEF Seconds, Ticks

\* Ticks keeps the order of seconds, with room for one.
LEMMA TicksMonotone ==
    ASSUME NEW a \in Int, NEW b \in Int
    PROVE  /\ a <= b => Ticks(a) <= Ticks(b)
           /\ a < b => Ticks(a) + TicksPerSecond <= Ticks(b)
  BY TimeAssumption DEF Ticks

LEMMA TicksMinus ==
    ASSUME NEW a \in Int, NEW b \in Int
    PROVE  Ticks(a) \in Int /\ Ticks(a - b) = Ticks(a) - Ticks(b)
  BY TimeAssumption DEF Ticks

LEMMA KeptNat == Kept \in Nat /\ Kept = Ticks(Seconds(Duration)) /\ Kept <= Duration
  BY SecondsRoundDown, TimeAssumption, TicksMinus DEF Kept, Ticks

-----------------------------------------------------------------------------
(* The invariants.                                                           *)

\* What the rest needs of the types.
Typed ==
    /\ now \in Nat
    /\ users \in [Users -> Nat \cup {Never}]
    /\ ticker \in [next : Nat, full : BOOLEAN]
    /\ release \in [pc : {"wait", "lock", "loop", "unsubscribe"}, obsolete : Int, user : Users]
    /\ due \in Nat
    /\ touched \in [Users -> Nat \cup {Never}]

Noted ==
    /\ \A u \in Users :
          /\ users[u] = Never <=> touched[u] = Never
          /\ users[u] # Never => touched[u] <= now /\ users[u] = Seconds(touched[u])
    /\ release.pc = "unsubscribe" => IsObsolete(release.user)
    /\ release.pc # "wait" => release.obsolete <= Seconds(now) - Seconds(Duration)

\* Every note is within Kept of time t, up to a second.
NotesReach(t) == \A u \in Users : users[u] # Never => Ticks(users[u]) + TicksPerSecond > t - Kept

Fresh ==
    /\ now <= ticker.next
    /\ ticker.next - Duration <= now
    /\ Rests => NotesReach(ticker.next - Duration)
    /\ ~Rests => /\ due <= now
                 /\ now <= due + Lag
                 /\ NotesReach(due - LongestWait)
    /\ release.pc # "wait" =>
          /\ Ticks(release.obsolete) + TicksPerSecond > due - Kept
          /\ ~ticker.full =>
                Ticks(release.obsolete) + TicksPerSecond > ticker.next - Duration - Kept

Inv == Typed /\ Noted /\ Fresh

LEMMA InitInv == Users # {} /\ WatcherInit => Inv
<1> SUFFICES ASSUME Users # {}, WatcherInit PROVE Inv
  OBVIOUS
<1>1. Sleeping \in [pc : {"wait"}, obsolete : {0}, user : Users]
  BY DEF Sleeping
<1>2. Typed
  BY <1>1, TimeAssumption DEF WatcherInit, Typed
<1>3. Noted
  BY <1>1 DEF WatcherInit, Noted
<1>4. Fresh
  BY <1>1, <1>2, TimeAssumption DEF WatcherInit, Typed, Fresh, Rests, NotesReach
<1> QED
  BY <1>2, <1>3, <1>4 DEF Inv

\* The notes are not touched, time does not pass, the goroutine runs.
LEMMA NotesStay ==
    ASSUME NEW t, UNCHANGED users
    PROVE  NotesReach(t) => NotesReach(t)'
  BY DEF NotesReach

LEMMA FireInv == Inv /\ Fire => Inv'
<1> SUFFICES ASSUME Inv, Fire PROVE Inv'
  OBVIOUS
<1>1. Typed'
  BY TimeAssumption DEF Inv, Typed, Fire
<1>2. Noted'
  BY DEF Inv, Noted, Fire, IsObsolete
<1>3. Fresh'
  <2> USE DEF Inv, Typed
  <2>1. LongestWait \in Nat /\ Duration <= LongestWait
    BY TimeAssumption DEF LongestWait
  <2>2. CASE Rests
    BY <2>1, <2>2, KeptNat, TimeAssumption DEF Fire, Fresh, Rests, NotesReach, Ticks
  <2>3. CASE ~Rests
    BY <2>3, TimeAssumption DEF Fire, Fresh, Rests, NotesReach
  <2> QED
    BY <2>2, <2>3
<1> QED
  BY <1>1, <1>2, <1>3 DEF Inv

LEMMA WakeInv == Inv /\ Wake => Inv'
<1> SUFFICES ASSUME Inv, Wake PROVE Inv'
  OBVIOUS
<1>a. now \in Nat /\ Duration \in Nat
  BY TimeAssumption DEF Inv, Typed
<1>1. /\ Seconds(now) \in Nat
      /\ Seconds(Duration) \in Nat
      /\ now < Ticks(Seconds(now)) + TicksPerSecond
  BY <1>a, SecondsRoundDown
<1>2. /\ release' = [release EXCEPT !.pc = "lock", !.obsolete = ObsoleteTime]
      /\ ObsoleteTime = Seconds(now) - Seconds(Duration)
      /\ ObsoleteTime \in Int
      /\ Ticks(ObsoleteTime) = Ticks(Seconds(now)) - Kept
      /\ Ticks(Seconds(now)) \in Int
  BY <1>1, TicksMinus, KeptNat DEF Wake, ObsoleteTime
<1>b. release'.pc = "lock" /\ release'.obsolete = ObsoleteTime
  BY <1>2 DEF Inv, Typed
<1>3. Typed'
  <2>1. release' \in [pc : {"wait", "lock", "loop", "unsubscribe"}, obsolete : Int, user : Users]
    BY <1>2 DEF Inv, Typed
  <2> QED
    BY <2>1 DEF Inv, Typed, Wake
<1>4. Noted'
  BY <1>2, <1>b DEF Inv, Typed, Noted, Wake, IsObsolete
<1>5. Fresh'
  <2>1. ~Rests /\ ~Rests'
    BY DEF Wake, Rests, Inv, Typed
  <2>2. Ticks(release'.obsolete) + TicksPerSecond > now - Kept
    BY <1>a, <1>1, <1>2, <1>b, KeptNat, TimeAssumption
  <2>3. \A t \in Int : t <= now => Ticks(release'.obsolete) + TicksPerSecond > t - Kept
    BY <2>2, <1>a, <1>2, <1>b, KeptNat, TimeAssumption
  <2>4. ticker.next - Duration \in Int /\ due \in Int
    BY TimeAssumption DEF Inv, Typed
  <2> QED
    BY <2>1, <2>3, <2>4, NotesStay DEF Wake, Fresh, Inv, Typed, NotesReach
<1> QED
  BY <1>3, <1>4, <1>5 DEF Inv

\* Lock and Visit move the goroutine on inside a run.
LEMMA MoveInv ==
    ASSUME Inv, release.pc # "wait", UNCHANGED <<now, users, ticker, due, touched>>,
           release' \in [pc : {"lock", "loop", "unsubscribe"}, obsolete : {release.obsolete},
                         user : Users],
           release'.pc = "unsubscribe" => IsObsolete(release'.user)
    PROVE  Inv'
<1>1. Typed'
  BY DEF Inv, Typed
<1>2. Noted'
  BY DEF Inv, Noted, IsObsolete
<1>3. Fresh'
  BY DEF Inv, Fresh, Rests, NotesReach
<1> QED
  BY <1>1, <1>2, <1>3 DEF Inv

LEMMA LockInv == Inv /\ Lock => Inv'
<1> SUFFICES ASSUME Inv, Lock PROVE Inv'
  OBVIOUS
<1>1. release' \in [pc : {"loop"}, obsolete : {release.obsolete}, user : Users]
  BY DEF Inv, Typed, Lock
<1> QED
  BY <1>1, MoveInv DEF Lock

LEMMA VisitInv == ASSUME Inv, NEW u \in Users, Visit(u) PROVE Inv'
<1>1. release' \in [pc : {"unsubscribe"}, obsolete : {release.obsolete}, user : {u}]
  BY DEF Inv, Typed, Visit
<1> QED
  BY <1>1, MoveInv DEF Visit

\* A user less: what is said of all notes still holds.
LEMMA UnsubscribedInv == Inv /\ Unsubscribed => Inv'
<1> SUFFICES ASSUME Inv, Unsubscribed PROVE Inv'
  OBVIOUS
<1>1. /\ release.user \in Users
      /\ release' \in [pc : {"loop"}, obsolete : {release.obsolete}, user : Users]
  BY DEF Inv, Typed, Unsubscribed, Sleeping
<1>2. \A u \in Users :
          \/ users'[u] = Never /\ touched'[u] = Never
          \/ users'[u] = users[u] /\ touched'[u] = touched[u]
  BY <1>1 DEF Inv, Typed, Unsubscribed
<1>3. Typed'
  BY <1>1 DEF Inv, Typed, Unsubscribed
<1>4. Noted'
  BY <1>1, <1>2 DEF Inv, Noted, Unsubscribed
<1>5. Fresh'
  BY <1>1, <1>2 DEF Inv, Fresh, Rests, NotesReach, Unsubscribed
<1> QED
  BY <1>3, <1>4, <1>5 DEF Inv

\* After the loop no note is older than obsoleteTime.
LEMMA UnlockInv == Inv /\ Unlock => Inv'
<1> SUFFICES ASSUME Inv, Unlock PROVE Inv'
  OBVIOUS
<1>1. /\ release' \in [pc : {"wait"}, obsolete : {0}, user : Users]
      /\ release.obsolete \in Int
  BY DEF Inv, Typed, Unlock, Sleeping
<1>2. Typed'
  BY <1>1 DEF Inv, Typed, Unlock
<1>3. Noted'
  BY <1>1 DEF Inv, Noted, Unlock
<1>4. Fresh'
  <2>1. \A u \in Users : users[u] # Never => Ticks(release.obsolete) <= Ticks(users[u])
    <3> SUFFICES ASSUME NEW u \in Users, users[u] # Never
                 PROVE  Ticks(release.obsolete) <= Ticks(users[u])
      OBVIOUS
    <3>1. users[u] \in Int /\ release.obsolete <= users[u]
      BY <1>1 DEF Inv, Typed, Unlock, IsObsolete
    <3> QED
      BY <3>1, <1>1, TicksMonotone
  <2>2. \A u \in Users : users[u] # Never => Ticks(users[u]) \in Int
    BY TicksMinus DEF Inv, Typed
  <2>3. Ticks(release.obsolete) \in Int
    BY <1>1, TicksMinus
  <2>4. \A t \in Int : Ticks(release.obsolete) + TicksPerSecond > t - Kept => NotesReach(t)
    BY <2>1, <2>2, <2>3, KeptNat, TimeAssumption DEF NotesReach
  <2>5. /\ LongestWait \in Nat /\ Lag <= LongestWait
        /\ due \in Nat /\ now \in Nat /\ ticker.next \in Nat
        /\ ticker.full \in BOOLEAN
        /\ Lag \in Nat /\ Duration \in Nat /\ Kept \in Nat
    BY KeptNat, TimeAssumption DEF LongestWait, Inv, Typed
  <2>6. /\ ~Rests /\ release.pc # "wait"
        /\ Rests' <=> ~ticker.full
        /\ UNCHANGED <<now, users, ticker>>
        /\ due' = IF ticker.full THEN now ELSE 0
    BY <1>1, <2>5 DEF Unlock, Rests
  <2>7. CASE ~ticker.full
    <3>1. NotesReach(ticker.next - Duration)
      BY <2>4, <2>5, <2>6, <2>7 DEF Inv, Fresh
    <3> QED
      BY <1>1, <2>6, <2>7, <3>1, NotesStay DEF Inv, Fresh, NotesReach
  <2>8. CASE ticker.full
    <3>1. Ticks(release.obsolete) + TicksPerSecond > (now - LongestWait) - Kept
      BY <2>3, <2>5, <2>6, TimeAssumption DEF Inv, Fresh
    <3>2. NotesReach(now - LongestWait)
      BY <2>4, <2>5, <3>1
    <3> QED
      BY <1>1, <2>5, <2>6, <2>8, <3>2 DEF Inv, Fresh, NotesReach
  <2> QED
    BY <2>5, <2>7, <2>8
<1> QED
  BY <1>2, <1>3, <1>4 DEF Inv

\* A fresh note reaches as far as any.
LEMMA TouchInv == ASSUME Inv, NEW u \in Users, Touch(u) PROVE Inv'
<1>1. now \in Nat /\ Seconds(now) \in Nat /\ now < Ticks(Seconds(now)) + TicksPerSecond
  BY SecondsRoundDown DEF Inv, Typed
<1>2. /\ users' = [users EXCEPT ![u] = Seconds(now)]
      /\ touched' = [touched EXCEPT ![u] = now]
      /\ UNCHANGED <<now, ticker, release, due>>
      /\ release.pc # "unsubscribe"
  BY DEF Touch, Locked
<1>3. Typed'
  BY <1>1, <1>2 DEF Inv, Typed
<1>4. Noted'
  <2>1. now # Never /\ Seconds(now) # Never
    BY <1>1, TimeAssumption
  <2> QED
    BY <1>1, <1>2, <2>1 DEF Inv, Typed, Noted
<1>5. Fresh'
  <2>1. \A t \in Int : t <= now /\ NotesReach(t) => NotesReach(t)'
    <3> SUFFICES ASSUME NEW t \in Int, t <= now, NotesReach(t), NEW v \in Users,
                        users'[v] # Never
                 PROVE  Ticks(users'[v]) + TicksPerSecond > t - Kept
      BY DEF NotesReach
    <3>1. CASE v = u
      <4>1. users'[v] = Seconds(now)
        BY <1>2, <3>1 DEF Inv, Typed
      <4>2. Ticks(Seconds(now)) \in Int
        BY <1>1, TicksMinus
      <4> QED
        BY <1>1, <4>1, <4>2, KeptNat, TimeAssumption
    <3>2. CASE v # u
      BY <1>2, <3>2 DEF Inv, Typed, NotesReach
    <3> QED
      BY <3>1, <3>2
  <2>2. /\ ticker.next - Duration \in Int /\ due - LongestWait \in Int
        /\ due <= now => due - LongestWait <= now
    BY <1>1, TimeAssumption DEF Inv, Typed, LongestWait
  <2>3. /\ Rests => NotesReach(ticker.next - Duration)'
        /\ ~Rests => NotesReach(due - LongestWait)'
    BY <1>2, <2>1, <2>2 DEF Inv, Fresh, NotesReach
  <2> QED
    BY <1>2, <2>3 DEF Inv, Fresh, Rests, NotesReach
<1> QED
  BY <1>3, <1>4, <1>5 DEF Inv

LEMMA AdvanceInv == Inv /\ Advance => Inv'
<1> SUFFICES ASSUME Inv, Advance PROVE Inv'
  OBVIOUS
<1>1. /\ now \in Nat /\ now' = now + 1 /\ now' \in Nat
      /\ UNCHANGED <<users, ticker, release, due, touched>>
  BY DEF Inv, Typed, Advance
<1>2. Typed'
  BY <1>1 DEF Inv, Typed
<1>3. Noted'
  <2>1. Seconds(now) <= Seconds(now + 1)
    <3>1. /\ Seconds(now) \in Nat /\ Ticks(Seconds(now)) <= now
          /\ Seconds(now + 1) \in Nat
          /\ now + 1 < Ticks(Seconds(now + 1)) + TicksPerSecond
      BY <1>1, SecondsRoundDown
    <3>2. Seconds(now + 1) < Seconds(now) =>
              Ticks(Seconds(now + 1)) + TicksPerSecond <= Ticks(Seconds(now))
      BY <3>1, TicksMonotone
    <3>3. Ticks(Seconds(now)) \in Int /\ Ticks(Seconds(now + 1)) \in Int
      BY <3>1, TicksMinus
    <3> QED
      BY <1>1, <3>1, <3>2, <3>3, TimeAssumption
  <2>2. Seconds(now) \in Nat /\ Seconds(now + 1) \in Nat /\ Seconds(Duration) \in Nat
    BY <1>1, SecondsRoundDown, TimeAssumption
  <2> QED
    BY <1>1, <2>1, <2>2 DEF Inv, Typed, Noted, IsObsolete
<1>4. Fresh'
  BY <1>1, TimeAssumption DEF Inv, Typed, Fresh, Rests, NotesReach, Advance
<1> QED
  BY <1>2, <1>3, <1>4 DEF Inv

LEMMA NextInv == Inv /\ [WatcherNext]_watcherVars => Inv'
<1> SUFFICES ASSUME Inv, [WatcherNext]_watcherVars PROVE Inv'
  OBVIOUS
<1>1. CASE UNCHANGED watcherVars
  BY <1>1 DEF watcherVars, Inv, Typed, Noted, Fresh, IsObsolete, Rests, NotesReach
<1> QED
  BY <1>1, AdvanceInv, FireInv, WakeInv, LockInv, VisitInv, UnsubscribedInv, UnlockInv, TouchInv
     DEF WatcherNext, Releasing

-----------------------------------------------------------------------------
(* The theorems.                                                             *)

LEMMA InvHolds == Users # {} /\ WatcherSpec => []Inv
<1>1. Users # {} /\ WatcherSpec => Inv
  BY InitInv DEF WatcherSpec
<1> QED
  BY <1>1, NextInv, PTL DEF WatcherSpec

LEMMA InvNotEarly == Inv => NotReleasedEarly
<1> SUFFICES ASSUME Inv, release.pc = "unsubscribe"
             PROVE  now - touched[release.user] > Kept
  BY DEF NotReleasedEarly
<1>1. PICK u \in Users : u = release.user /\ IsObsolete(u)
  BY DEF Inv, Typed, Noted
<1>2. now \in Nat /\ release.obsolete \in Int
  BY DEF Inv, Typed
<1>3. /\ users[u] # Never
      /\ users[u] < release.obsolete
      /\ release.obsolete <= Seconds(now) - Seconds(Duration)
  BY <1>1 DEF Inv, Noted, IsObsolete
<1>4. touched[u] \in Nat /\ users[u] = Seconds(touched[u])
  BY <1>1, <1>3 DEF Inv, Typed, Noted
<1>5. /\ Seconds(touched[u]) \in Nat /\ Seconds(now) \in Nat /\ Seconds(Duration) \in Nat
      /\ touched[u] < Ticks(Seconds(touched[u])) + TicksPerSecond
      /\ Ticks(Seconds(now)) <= now
  BY <1>2, <1>4, SecondsRoundDown, TimeAssumption
<1>6. /\ Seconds(touched[u]) < Seconds(now) - Seconds(Duration)
      /\ Seconds(now) - Seconds(Duration) \in Int
  BY <1>2, <1>3, <1>4, <1>5
<1>7. Ticks(Seconds(touched[u])) + TicksPerSecond <= Ticks(Seconds(now) - Seconds(Duration))
  BY <1>5, <1>6, TicksMonotone
<1>8. /\ Ticks(Seconds(now) - Seconds(Duration)) = Ticks(Seconds(now)) - Kept
      /\ Ticks(Seconds(touched[u])) \in Int /\ Ticks(Seconds(now)) \in Int
  <2>1. /\ Seconds(now) \in Int /\ Seconds(Duration) \in Int /\ Seconds(touched[u]) \in Int
    BY <1>5
  <2>2. Ticks(Seconds(now) - Seconds(Duration)) = Ticks(Seconds(now)) - Ticks(Seconds(Duration))
    BY <2>1, TicksMinus
  <2>3. Ticks(Seconds(touched[u])) \in Int /\ Ticks(Seconds(now)) \in Int
    BY <2>1, TicksMinus
  <2> QED
    BY <2>2, <2>3, KeptNat
<1> QED
  BY <1>1, <1>2, <1>4, <1>5, <1>7, <1>8, KeptNat, TimeAssumption

\* The watcher's promise to the users: release unsubscribes nobody who was touched
\* within the whole seconds of its duration, for every duration and however long
\* it waits for the mutex and for the trader.
THEOREM NeverReleasedEarly == Users # {} /\ WatcherSpec => []NotReleasedEarly
  BY InvHolds, InvNotEarly, PTL

-----------------------------------------------------------------------------
(* Refinement.                                                               *)

\* Time only passes while every note may still get a tick older.
LEMMA NotesInTime == Inv /\ Advance => \A u \in Users : touched[u] # Never => now - touched[u] < Longest
<1> SUFFICES ASSUME Inv, Advance, NEW u \in Users, touched[u] # Never
             PROVE  now - touched[u] < Longest
  OBVIOUS
<1>1. /\ touched[u] \in Nat /\ users[u] \in Nat /\ users[u] # Never
      /\ users[u] = Seconds(touched[u])
      /\ now \in Nat /\ due \in Nat /\ ticker.next \in Nat
      /\ Lag \in Nat /\ Duration \in Nat /\ Kept \in Nat
      /\ LongestWait \in Nat /\ Duration <= LongestWait
  BY KeptNat, TimeAssumption DEF Inv, Typed, Noted, LongestWait
<1>2. Ticks(users[u]) <= touched[u] /\ Ticks(users[u]) \in Int
  <2>1. Ticks(Seconds(touched[u])) <= touched[u]
    BY <1>1, SecondsRoundDown
  <2>2. users[u] \in Int
    BY <1>1
  <2>3. Ticks(users[u]) \in Int
    BY <2>2, TicksMinus
  <2> QED
    BY <1>1, <2>1, <2>3
<1>3. Longest = Kept + TicksPerSecond - 1 + LongestWait + Lag
  BY DEF Longest
<1>4. CASE Rests
  <2>1. Ticks(users[u]) + TicksPerSecond > ticker.next - Duration - Kept
    BY <1>1, <1>4 DEF Inv, Fresh, NotesReach
  <2> QED
    BY <1>1, <1>2, <1>3, <2>1, TimeAssumption DEF Advance
<1>5. CASE ~Rests
  <2>1. Ticks(users[u]) + TicksPerSecond > due - LongestWait - Kept
    BY <1>1, <1>5 DEF Inv, Fresh, NotesReach
  <2>2. now < due + Lag
    BY <1>5 DEF Advance
  <2> QED
    BY <1>1, <1>2, <1>3, <2>1, <2>2, TimeAssumption
<1> QED
  BY <1>4, <1>5

LEMMA StepRefines == Inv /\ [WatcherNext]_watcherVars => [Leases!LeaseNext]_<<now, touched>>
<1> SUFFICES ASSUME Inv, [WatcherNext]_watcherVars PROVE [Leases!LeaseNext]_<<now, touched>>
  OBVIOUS
<1> USE DEF Leases!LeaseNext
<1>1. CASE UNCHANGED <<now, touched>>
  BY <1>1
<1>2. CASE Advance
  BY <1>2, NotesInTime DEF Advance, Leases!Pass
<1>3. CASE Unsubscribed
  <2>1. release.user \in Users /\ users[release.user] # Never
    BY <1>3 DEF Inv, Typed, Noted, Unsubscribed, IsObsolete
  <2>2. touched[release.user] # Never
    BY <2>1 DEF Inv, Noted
  <2>3. now - touched[release.user] > Kept
    BY <1>3, InvNotEarly DEF NotReleasedEarly, Unsubscribed
  <2>4. Leases!Revoke(release.user)
    BY <1>3, <2>2, <2>3 DEF Unsubscribed, Leases!Revoke
  <2> QED
    BY <2>1, <2>4
<1>4. ASSUME NEW u \in Users, Touch(u) PROVE [Leases!LeaseNext]_<<now, touched>>
  <2>1. Leases!Renew(u)
    BY <1>4 DEF Touch, Leases!Renew
  <2> QED
    BY <2>1
<1>5. CASE Fire \/ Releasing \/ UNCHANGED watcherVars
  BY <1>1, <1>5 DEF Fire, Releasing, Wake, Lock, Visit, Unlock, watcherVars
<1> QED
  BY <1>2, <1>3, <1>4, <1>5 DEF WatcherNext

\* UserWatcher implements Lease: it releases nobody who was touched lately and
\* everybody else in time, whatever is touched while release waits for the mutex
\* or holds it.
THEOREM WatcherLeases == Users # {} /\ WatcherSpec => ImplementsLease
<1>1. WatcherInit => Leases!LeaseInit
  <2> SUFFICES ASSUME WatcherInit PROVE Leases!LeaseInit
    OBVIOUS
  <2>1. now \in Nat
    BY TimeAssumption DEF WatcherInit
  <2> QED
    BY <2>1 DEF WatcherInit, Leases!LeaseInit
<1> QED
  BY <1>1, InvHolds, StepRefines, PTL DEF WatcherSpec, ImplementsLease, Leases!LeaseSpec, Leases!leaseVars

-----------------------------------------------------------------------------
(* The watcher with callers and a trader.                                    *)

LEMMA NextWatches == Next => [WatcherNext]_watcherVars
  BY DEF Next, Serve, CallerStep, WatcherStep, StartRelease, ReleaserStep, EndRelease, Expect,
         PassTime, WatcherNext, Releasing

LEMMA SpecWatches == Spec => WatcherSpec
<1>1. Init => WatcherInit
  BY DEF Init
<1>2. [Next]_vars => [WatcherNext]_watcherVars
  BY NextWatches DEF vars
<1> QED
  BY <1>1, <1>2, PTL DEF Spec, WatcherSpec

\* In the composition, too, release unsubscribes nobody who was touched within
\* the whole seconds of its duration (user-watcher.go:35-45).
THEOREM NobodyReleasedEarly == Users # {} /\ Spec => []NotReleasedEarly
  BY SpecWatches, NeverReleasedEarly

\* The composition implements Lease: whatever calls the program has under way.
THEOREM WatchedUsersLease == Users # {} /\ Spec => ImplementsLease
  BY SpecWatches, WatcherLeases

-----------------------------------------------------------------------------
(* The orders of active users.                                               *)

\* What the rest needs of the trader's types.
Shapes ==
    /\ expectations \in [Users -> Seq(Expectations)]
    /\ orders \in [Users -> Books \cup {NoOrders}]
    /\ call \in [Goroutines -> Calls]
    /\ \A g \in Goroutines : call[g].pc = "apply" => call[g].todo # <<>>

\* Orders are deleted by the watcher's goroutine only, and for the user it is at.
DeletesForWatcher ==
    \A g \in Goroutines :
        call[g].pc \in {"delete", "forget"} =>
            g = Releaser /\ release.pc = "unsubscribe" /\ release.user = call[g].user

\* What a goroutine's call may become in a step of it.
NextCalls(c) ==
    {x \in Calls : /\ x.pc = "apply" => x.todo # <<>>
                   /\ x.pc # "delete"
                   /\ x.pc = "forget" => c.pc = "delete" /\ x.user = c.user}

LEMMA ShortSequences ==
    ASSUME NEW S, NEW a \in S, NEW b \in S
    PROVE  {<<>>, <<a>>, <<a, b>>} \subseteq Seq(S)
  OBVIOUS

LEMMA NoCallIsNext ==
    ASSUME Users # {}, Ids # {}, NEW c PROVE NoCall \in NextCalls(c)
<1>1. /\ (CHOOSE u \in Users : TRUE) \in Users
      /\ (CHOOSE i \in Ids : TRUE) \in Ids
  OBVIOUS
<1> QED
  BY <1>1 DEF NoCall, NextCalls, Calls, Operations, TimesInForce

\* Moving on to a place that asks nothing of the call.
LEMMA GotoIsNext ==
    ASSUME NEW c \in Calls,
           NEW pc \in {"idle", "expecting", "pop", "inited", "mutex", "store", "load", "orders",
                     "lookup"},
           NEW rs \in Seq(Reports)
    PROVE  /\ [c EXCEPT !.pc = pc] \in NextCalls(c)
           /\ [c EXCEPT !.pc = pc, !.todo = rs] \in NextCalls(c)
  BY DEF NextCalls, Calls

LEMMA StepCalls ==
    ASSUME Users # {}, Ids # {}, Shapes, NEW g \in Goroutines, Step(g)
    PROVE  \E x \in NextCalls(call[g]) : call' = [call EXCEPT ![g] = x]
<1> DEFINE c == call[g]
<1>0. c \in Calls /\ c.user \in Users /\ c.id \in Ids /\ c.tif \in TimesInForce
      /\ c.todo \in Seq(Reports) /\ c.op \in Operations
  BY DEF Shapes, Calls
<1>1. CASE Expecting(g)
  BY <1>0, <1>1, NoCallIsNext, GotoIsNext DEF Expecting, Goto, Return
<1>2. CASE Pop(g)
  <2>1. CASE expectations[c.user] = <<>>
    BY <1>0, <1>2, <2>1, NoCallIsNext, GotoIsNext DEF Pop, Return
  <2>2. CASE expectations[c.user] # <<>>
    <3>1. Head(expectations[c.user]) \in Expectations
      BY <1>0, <2>2 DEF Shapes
    <3>2. Head(expectations[c.user]).reports \in Seq(Reports)
      <4>1. ASSUME NEW e \in Expectations PROVE e.reports \in Seq(Reports)
        <5>1. e.reports \in {<<>>} \cup {<<r>> : r \in Reports}
          BY DEF Expectations
        <5>2. <<>> \in Seq(Reports)
          OBVIOUS
        <5> QED
          BY <5>1, <5>2, ShortSequences
      <4> QED
        BY <3>1, <4>1
    <3>3. /\ [c EXCEPT !.pc = "inited", !.todo = Head(expectations[c.user]).reports] \in NextCalls(c)
          /\ NoCall \in NextCalls(c)
      BY <1>0, <3>2, NoCallIsNext, GotoIsNext
    <3>4. \/ call' = [call EXCEPT ![g] = NoCall]
          \/ call' = [call EXCEPT ![g].pc = "inited",
                                 ![g].todo = Head(expectations[c.user]).reports]
      BY <1>2, <2>2 DEF Pop, Return
    <3>5. CASE call' = [call EXCEPT ![g] = NoCall]
      BY <3>3, <3>5
    <3>6. CASE call' = [call EXCEPT ![g].pc = "inited",
                                    ![g].todo = Head(expectations[c.user]).reports]
      <4> DEFINE x == [c EXCEPT !.pc = "inited", !.todo = Head(expectations[c.user]).reports]
      <4>1. call' = [call EXCEPT ![g] = x]
        BY <3>6
      <4> QED
        BY <3>3, <4>1
    <3> QED
      BY <3>4, <3>5, <3>6
  <2> QED
    BY <2>1, <2>2
<1>3. CASE Inited(g) \/ Mutex(g) \/ Store(g) \/ Orders(g)
  BY <1>0, <1>3, NoCallIsNext, GotoIsNext DEF Inited, Mutex, Store, Orders, Goto, Return
<1>4. CASE Load(g)
  <2>1. CASE c.todo = <<>>
    BY <1>0, <1>4, <2>1, NoCallIsNext, GotoIsNext DEF Load, After
  <2>2. CASE c.todo # <<>>
    <3>1. Tail(c.todo) \in Seq(Reports)
      BY <1>0, <2>2
    <3>2. /\ [c EXCEPT !.pc = "apply"] \in NextCalls(c)
          /\ c.pc = "load" => [c EXCEPT !.todo = Tail(c.todo)] \in NextCalls(c)
      BY <1>0, <2>2, <3>1 DEF NextCalls, Calls
    <3> QED
      BY <1>4, <2>2, <3>2 DEF Load, At
  <2> QED
    BY <2>1, <2>2
<1>5. CASE Apply(g)
  <2>1. c.pc = "apply" /\ c.todo # <<>> /\ Tail(c.todo) \in Seq(Reports)
    BY <1>0, <1>5 DEF Apply, At, Shapes
  <2>2. c \in NextCalls(c) /\ [c EXCEPT !.pc = "load", !.todo = Tail(c.todo)] \in NextCalls(c)
    BY <1>0, <2>1, GotoIsNext DEF NextCalls
  <2>3. \/ call' = call
        \/ call' = [call EXCEPT ![g].pc = "load", ![g].todo = Tail(call[g].todo)]
    BY <1>5 DEF Apply
  <2>4. CASE call' = call
    <3>1. call' = [call EXCEPT ![g] = c]
      BY <2>4 DEF Shapes
    <3> QED
      BY <2>2, <3>1
  <2>5. CASE call' = [call EXCEPT ![g].pc = "load", ![g].todo = Tail(call[g].todo)]
    <3>1. call' = [call EXCEPT ![g] = [c EXCEPT !.pc = "load", !.todo = Tail(c.todo)]]
      BY <2>5
    <3> QED
      BY <2>2, <3>1
  <2> QED
    BY <2>3, <2>4, <2>5
<1>6. CASE Lookup(g)
  <2>1. ASSUME NEW e \in {"keep", "drop"}
        PROVE  [effect |-> e, id |-> c.id, tif |-> c.tif] \in Reports
    BY <1>0 DEF Reports
  <2>2. AutoReports(c) \in Seq(Reports)
    BY <2>1, ShortSequences DEF AutoReports
  <2>3. /\ [c EXCEPT !.pc = "load", !.todo = AutoReports(c)] \in NextCalls(c)
        /\ NoCall \in NextCalls(c)
    BY <1>0, <2>2, NoCallIsNext, GotoIsNext
  <2> QED
    BY <1>6, <2>3 DEF Lookup, Handle, Return
<1>7. CASE Delete(g)
  <2>1. c.pc = "delete" => [c EXCEPT !.pc = "forget"] \in NextCalls(c)
    BY <1>0 DEF NextCalls, Calls
  <2> QED
    BY <1>0, <1>7, <2>1, GotoIsNext DEF Delete, Goto, At
<1>8. CASE Forget(g)
  BY <1>0, <1>8, NoCallIsNext, GotoIsNext DEF Forget, Goto
<1> QED
  BY <1>1, <1>2, <1>3, <1>4, <1>5, <1>6, <1>7, <1>8 DEF Step

\* Of all steps only Forget takes a user's orders away.
LEMMA StepOrders ==
    ASSUME Shapes, NEW g \in Goroutines, Step(g)
    PROVE  /\ expectations' \in [Users -> Seq(Expectations)]
           /\ orders' \in [Users -> Books \cup {NoOrders}]
           /\ \A u \in Users : orders[u] # NoOrders /\ orders'[u] = NoOrders =>
                                   call[g].pc = "forget" /\ call[g].user = u
<1> DEFINE c == call[g]
<1>0. c \in Calls /\ c.user \in Users /\ c.todo \in Seq(Reports)
  BY DEF Shapes, Calls
<1> USE DEF Shapes
<1>1. CASE Expecting(g) \/ Inited(g) \/ Mutex(g) \/ Load(g) \/ Orders(g) \/ Lookup(g) \/ Delete(g)
  BY <1>1 DEF Expecting, Inited, Mutex, Load, Orders, Lookup, Delete
<1>2. CASE Pop(g)
  BY <1>0, <1>2 DEF Pop
<1>3. CASE Store(g)
  <2>1. EmptyBook \in Books /\ EmptyBook # NoOrders
    BY MockAssumption DEF EmptyBook, Books
  <2> QED
    BY <1>0, <1>3, <2>1 DEF Store
<1>4. CASE Apply(g)
  <2>1. Head(c.todo) \in Reports
    BY <1>0, <1>4 DEF Apply, At
  <2>2. ASSUME NEW b \in Books, NEW r \in Reports
        PROVE  Applied(r, b) \in Books /\ Applied(r, b) # NoOrders
    BY <2>2, MockAssumption DEF Applied, Books, Reports
  <2>3. Applied(Head(c.todo), NoOrders) = NoOrders
    BY DEF Applied
  <2>4. CASE UNCHANGED orders
    BY <1>4, <2>4 DEF Apply
  <2>5. CASE orders' = [orders EXCEPT ![c.user] = Applied(Head(c.todo), @)]
    BY <1>0, <1>4, <2>1, <2>2, <2>3, <2>5 DEF Apply
  <2> QED
    BY <1>4, <2>4, <2>5 DEF Apply
<1>5. CASE Forget(g)
  BY <1>0, <1>5 DEF Forget, At
<1> QED
  BY <1>1, <1>2, <1>3, <1>4, <1>5 DEF Step

-----------------------------------------------------------------------------
LEMMA ShapesStart == Users # {} /\ Ids # {} /\ Init => Shapes /\ DeletesForWatcher
<1> SUFFICES ASSUME Users # {}, Ids # {}, Init PROVE Shapes /\ DeletesForWatcher
  OBVIOUS
<1>1. NoCall \in Calls /\ NoCall.pc = "idle"
  BY NoCallIsNext DEF NextCalls, NoCall
<1> QED
  BY <1>1 DEF Init, MockInit, Shapes, DeletesForWatcher, Books, TimesInForce

\* A call begins at its first step; an Unsubscribe deletes at once.
LEMMA BeginCalls ==
    ASSUME NEW g \in Goroutines, NEW op \in Operations, NEW u \in Users, NEW i \in Ids,
           NEW t \in TimesInForce, Shapes, Begin(g, op, u, i, t)
    PROVE  /\ Shapes'
           /\ UNCHANGED orders
           /\ \A h \in Goroutines :
                 \/ call'[h] = call[h]
                 \/ /\ h = g
                    /\ call'[h].pc = "delete" => op = "Unsubscribe" /\ call'[h].user = u
                    /\ call'[h].pc # "forget"
<1> DEFINE x == [pc |-> FirstStep(op), op |-> op, user |-> u, id |-> i, tif |-> t, todo |-> <<>>]
<1>1. CASE op = "ReplaceOrder"
  BY <1>1 DEF Begin, Shapes
<1>2. CASE op # "ReplaceOrder"
  <2>1. /\ FirstStep(op) \in {"expecting", "orders", "delete"}
        /\ FirstStep(op) = "delete" => op = "Unsubscribe"
    BY <1>2 DEF FirstStep, Operations
  <2>2. x \in Calls /\ x.pc = FirstStep(op) /\ x.user = u
    BY <2>1 DEF Calls
  <2>3. call' = [call EXCEPT ![g] = x]
    BY <1>2 DEF Begin
  <2> QED
    BY <2>1, <2>2, <2>3 DEF Begin, Shapes
<1> QED
  BY <1>1, <1>2

\* Steps of the trader.
LEMMA StepKeeps ==
    ASSUME Users # {}, Ids # {}, Shapes, DeletesForWatcher, NEW g \in Goroutines, Step(g),
           UNCHANGED watcherVars
    PROVE  /\ Shapes' /\ DeletesForWatcher'
           /\ \A u \in Users : orders[u] # NoOrders /\ orders'[u] = NoOrders =>
                                   release.pc = "unsubscribe" /\ release.user = u
<1>1. PICK x \in NextCalls(call[g]) : call' = [call EXCEPT ![g] = x]
  BY StepCalls
<1>2. Shapes'
  BY <1>1, StepOrders DEF Shapes, NextCalls
<1>3. DeletesForWatcher'
  BY <1>1 DEF Shapes, DeletesForWatcher, NextCalls, watcherVars
<1>4. ASSUME NEW u \in Users, orders[u] # NoOrders, orders'[u] = NoOrders
      PROVE  release.pc = "unsubscribe" /\ release.user = u
  BY <1>4, StepOrders DEF DeletesForWatcher
<1> QED
  BY <1>2, <1>3, <1>4

LEMMA NextKeeps ==
    ASSUME Users # {}, Ids # {}, Inv, Shapes, DeletesForWatcher, [Next]_vars
    PROVE  /\ Shapes' /\ DeletesForWatcher'
           /\ \A u \in Users : orders[u] # NoOrders /\ orders'[u] = NoOrders =>
                                   release.pc = "unsubscribe" /\ release.user = u
<1>0. Releaser \in Goroutines /\ Callers \subseteq Goroutines /\ Releaser \notin Callers
  BY CallersAssumption
<1>1. ASSUME NEW c \in Callers, NEW op \in Operations \ {"Unsubscribe"}, NEW u \in Users,
             NEW i \in Ids, NEW t \in TimesInForce, Serve(c, op, u, i, t)
      PROVE  /\ Shapes' /\ DeletesForWatcher' /\ UNCHANGED orders
  <2>1. Begin(c, op, u, i, t) /\ UNCHANGED release
    BY <1>1 DEF Serve, Touch
  <2> QED
    BY <1>0, <2>1, BeginCalls DEF DeletesForWatcher
<1>2. ASSUME NEW c \in Callers, CallerStep(c)
      PROVE  Step(c) /\ UNCHANGED watcherVars
  BY <1>2 DEF CallerStep
<1>3. ASSUME NEW u \in Users, StartRelease(u)
      PROVE  /\ Shapes' /\ DeletesForWatcher' /\ UNCHANGED orders
  <2>1. PICK i \in Ids : Begin(Releaser, "Unsubscribe", u, i, "GTC")
    <3>1. (CHOOSE i \in Ids : TRUE) \in Ids
      OBVIOUS
    <3> QED
      BY <1>3, <3>1 DEF StartRelease
  <2>2. /\ release.pc = "loop"
        /\ release'.pc = "unsubscribe" /\ release'.user = u
    BY <1>3 DEF StartRelease, Visit, Inv, Typed
  <2>3. "Unsubscribe" \in Operations /\ "GTC" \in TimesInForce
    BY DEF Operations, TimesInForce
  <2> QED
    BY <1>0, <2>1, <2>2, <2>3, BeginCalls DEF DeletesForWatcher
<1>4. CASE EndRelease
  BY <1>0, <1>4 DEF EndRelease, mockVars, Shapes, DeletesForWatcher
<1>5. CASE (Fire \/ Wake \/ Lock \/ Unlock) /\ UNCHANGED mockVars
  BY <1>5 DEF Fire, Wake, Lock, Unlock, mockVars, Shapes, DeletesForWatcher
<1>6. ASSUME NEW u \in Users, NEW e \in Expected, Expect(u, e)
      PROVE  /\ Shapes' /\ DeletesForWatcher' /\ UNCHANGED orders
  <2>1. e \in Expectations
    BY CallersAssumption
  <2> QED
    BY <1>6, <2>1 DEF Expect, addExpectation, watcherVars, Shapes, DeletesForWatcher
<1>7. CASE PassTime \/ UNCHANGED vars
  BY <1>7 DEF PassTime, Advance, vars, mockVars, watcherVars, Shapes, DeletesForWatcher
<1>8. CASE ReleaserStep
  BY <1>0, <1>8, StepKeeps DEF ReleaserStep
<1>9. CASE \E c \in Callers : CallerStep(c)
  BY <1>0, <1>2, <1>9, StepKeeps
<1>10. CASE WatcherStep
  BY <1>3, <1>4, <1>5, <1>8, <1>10 DEF WatcherStep, EndRelease, mockVars
<1> QED
  BY <1>1, <1>6, <1>7, <1>9, <1>10 DEF Next, PassTime, vars, mockVars

KeepsOrders ==
    \A u \in Users : orders[u] # NoOrders /\ orders'[u] = NoOrders => now - touched[u] > Kept

\* Whoever keeps coming keeps its orders: the trader deletes the orders of a user
\* only for the watcher, who was right to give the user up, although the program
\* calls the trader for that user at any moment and without asking the watcher.
THEOREM ActiveKeepOrders == Users # {} /\ Ids # {} /\ Spec => ActiveUsersKeepOrders
<1> SUFFICES ASSUME Users # {}, Ids # {} PROVE Spec => ActiveUsersKeepOrders
  OBVIOUS
<1> DEFINE IInv == Inv /\ Shapes /\ DeletesForWatcher
<1>1. Init => IInv
  BY InitInv, ShapesStart DEF Init
<1>2. IInv /\ [Next]_vars => IInv'
  <2>1. [Next]_vars => [WatcherNext]_watcherVars
    BY NextWatches DEF vars
  <2> QED
    BY <2>1, NextInv, NextKeeps
<1>3. IInv /\ [Next]_vars => [KeepsOrders]_vars
  <2> SUFFICES ASSUME IInv, [Next]_vars PROVE KeepsOrders
    OBVIOUS
  <2>1. NotReleasedEarly
    BY InvNotEarly
  <2> QED
    BY <2>1, NextKeeps DEF NotReleasedEarly, KeepsOrders
<1>4. [][KeepsOrders]_vars => ActiveUsersKeepOrders
  BY DEF KeepsOrders, ActiveUsersKeepOrders
<1> HIDE DEF IInv
<1> QED
  BY <1>1, <1>2, <1>3, <1>4, PTL DEF Spec

-----------------------------------------------------------------------------
(* IOC orders of the users the mock plays the exchange for.                  *)

\* The reports such a user's call may still have to handle.
Played(i) ==
    LET report(e, t) == [effect |-> e, id |-> i, tif |-> t] IN
    {<<>>, <<report("keep", "GTC")>>, <<report("drop", "GTC")>>, <<report("drop", "IOC")>>,
     <<report("keep", "IOC"), report("drop", "IOC")>>}

\* Those users never have expectations, hence no call of theirs sets orders up,
\* and the reports come in the order of the exchange.
FixtureCalls ==
    /\ \A u \in allowAutoTrade : expectations[u] = <<>>
    /\ \A g \in Goroutines : call[g].user \in allowAutoTrade =>
          /\ call[g].pc \notin {"inited", "mutex", "store"}
          /\ call[g].pc = "lookup" => call[g].op # "Unsubscribe"
          /\ call[g].todo \in Played(call[g].id)
          /\ call[g].todo # <<>> =>
                call[g].pc \in {"load", "apply"} /\ call[g].op # "Unsubscribe"

\* Whoever has orders has the mutex that reports are applied under.
FixtureLocks == \A u \in allowAutoTrade : orders[u] # NoOrders => u \in locks

FixtureInv == allowAutoTrade \subseteq Users /\ FixtureCalls /\ FixtureLocks /\ IocNeverRests

\* Call c will still handle a report that drops order i of user u.
Owes(c, u, i) ==
    /\ c.pc # "idle" /\ c.user = u /\ c.op # "Unsubscribe"
    /\ \E k \in 1 .. Len(c.todo) : c.todo[k].effect = "drop" /\ c.todo[k].id = i

LEMMA IocOwed ==
    IocNeverRests <=>
        \A u \in allowAutoTrade, i \in Ids :
            orders[u] # NoOrders /\ orders[u][i] = "IOC" => \E g \in Goroutines : Owes(call[g], u, i)
  BY DEF IocNeverRests, Busy, Owes

\* A step of goroutine g, whose call becomes x, keeps the property if no order
\* stays that g alone was to drop, and each new one is for g to drop.
LEMMA OwedStays ==
    ASSUME IocNeverRests, Shapes, NEW g \in Goroutines, NEW x,
           call' = [call EXCEPT ![g] = x], UNCHANGED allowAutoTrade,
           \A u \in allowAutoTrade, i \in Ids :
              orders'[u] # NoOrders /\ orders'[u][i] = "IOC" =>
                 \/ Owes(x, u, i)
                 \/ /\ orders[u] # NoOrders /\ orders[u][i] = "IOC"
                    /\ ~Owes(call[g], u, i)
    PROVE  IocNeverRests'
<1>1. SUFFICES ASSUME NEW u \in allowAutoTrade, NEW i \in Ids,
                      orders'[u] # NoOrders, orders'[u][i] = "IOC"
               PROVE  \E h \in Goroutines : call'[h].pc # "idle" /\ Owes(call'[h], u, i)
  BY DEF IocNeverRests, Busy, Owes
<1>2. CASE Owes(x, u, i)
  BY <1>2 DEF Shapes, Owes
<1>3. CASE orders[u] # NoOrders /\ orders[u][i] = "IOC" /\ ~Owes(call[g], u, i)
  <2>1. PICK h \in Goroutines : Owes(call[h], u, i)
    BY <1>3, IocOwed
  <2> QED
    BY <1>3, <2>1 DEF Shapes, Owes
<1> QED
  BY <1>1, <1>2, <1>3

\* A call without reports to handle owes nothing.
LEMMA NothingOwed ==
    ASSUME NEW c, NEW u, NEW i, c.todo = <<>> PROVE ~Owes(c, u, i)
  BY DEF Owes

LEMMA FixtureStart == Users # {} /\ Ids # {} /\ Init => FixtureInv
<1> SUFFICES ASSUME Users # {}, Ids # {}, Init PROVE FixtureInv
  OBVIOUS
<1>1. NoCall.pc = "idle" /\ NoCall.todo = <<>> /\ <<>> \in Played(NoCall.id)
  BY DEF NoCall, Played
<1>2. FixtureCalls /\ FixtureLocks /\ allowAutoTrade \subseteq Users
  BY <1>1 DEF Init, MockInit, FixtureCalls, FixtureLocks
<1>3. ASSUME NEW u \in allowAutoTrade, NEW i \in Ids PROVE orders[u][i] # "IOC" \/ orders[u] = NoOrders
  BY <1>3, <1>2, MockAssumption DEF Init, MockInit, TimesInForce
<1>4. IocNeverRests
  BY <1>3 DEF IocNeverRests
<1> QED
  BY <1>2, <1>4 DEF FixtureInv

\* What a step of goroutine g must show of its call's next state x, for the user
\* of a fixture.
FixtureCall(x) ==
    x.user \in allowAutoTrade =>
        /\ x.pc \notin {"inited", "mutex", "store"}
        /\ x.pc = "lookup" => x.op # "Unsubscribe"
        /\ x.todo \in Played(x.id)
        /\ x.todo # <<>> => x.pc \in {"load", "apply"} /\ x.op # "Unsubscribe"

LEMMA CallsStay ==
    ASSUME FixtureCalls, Shapes, NEW g \in Goroutines, NEW x, FixtureCall(x),
           call' = [call EXCEPT ![g] = x], UNCHANGED allowAutoTrade,
           \A u \in allowAutoTrade : expectations'[u] = <<>>
    PROVE  FixtureCalls'
  BY DEF FixtureCalls, FixtureCall, Shapes

\* Steps that touch no orders, of a call that has no report to handle yet.
LEMMA EarlySteps ==
    ASSUME FixtureInv, Shapes, NEW g \in Goroutines, NEW x, FixtureCall(x),
           call' = [call EXCEPT ![g] = x], UNCHANGED allowAutoTrade,
           \A u \in allowAutoTrade : expectations'[u] = <<>>,
           \A u \in allowAutoTrade : orders'[u] = orders[u] \/ orders'[u] = NoOrders,
           \A u \in allowAutoTrade : u \in locks /\ u \notin locks' => orders'[u] = NoOrders,
           call[g].user \in allowAutoTrade => call[g].todo = <<>>
    PROVE  FixtureInv'
<1>1. FixtureCalls'
  BY CallsStay DEF FixtureInv
<1>2. FixtureLocks'
  BY DEF FixtureInv, FixtureLocks
<1>3. ASSUME NEW u \in allowAutoTrade, NEW i \in Ids PROVE ~Owes(call[g], u, i)
  BY NothingOwed DEF Owes
<1>4. IocNeverRests'
  BY <1>3, OwedStays DEF FixtureInv
<1> QED
  BY <1>1, <1>2, <1>4 DEF FixtureInv

\* What is in Played, by what a call may do with it.
LEMMA PlayedReports ==
    ASSUME NEW i, NEW rs \in Played(i), rs # <<>>
    PROVE  /\ Head(rs).id = i
           /\ Tail(rs) \in Played(i)
           /\ Head(rs).effect # "keep" => Head(rs).effect = "drop" /\ Tail(rs) = <<>>
           /\ Head(rs).effect = "keep" /\ Head(rs).tif # "GTC" =>
                 Len(Tail(rs)) = 1 /\ Tail(rs)[1].effect = "drop" /\ Tail(rs)[1].id = i
           /\ \A k \in 1 .. Len(rs) : rs[k].id = i
<1> DEFINE report(e, t) == [effect |-> e, id |-> i, tif |-> t]
<1>1. ASSUME NEW e \in {"keep", "drop"}, NEW t \in {"GTC", "IOC"}, rs = <<report(e, t)>>
      PROVE  Head(rs) = report(e, t) /\ Tail(rs) = <<>> /\ Len(rs) = 1 /\ rs[1] = report(e, t)
  BY <1>1
<1>2. ASSUME rs = <<report("keep", "IOC"), report("drop", "IOC")>>
      PROVE  /\ Head(rs) = report("keep", "IOC") /\ Tail(rs) = <<report("drop", "IOC")>>
             /\ Len(rs) = 2 /\ rs[1] = report("keep", "IOC") /\ rs[2] = report("drop", "IOC")
  BY <1>2
<1>3. CASE rs \in {<<report("keep", "GTC")>>, <<report("drop", "GTC")>>, <<report("drop", "IOC")>>}
  <2>1. PICK e \in {"keep", "drop"}, t \in {"GTC", "IOC"} :
            rs = <<report(e, t)>> /\ (e = "keep" => t = "GTC")
    BY <1>3
  <2>2. <<>> \in Played(i)
    BY DEF Played
  <2> QED
    BY <1>1, <2>1, <2>2
<1>4. CASE rs = <<report("keep", "IOC"), report("drop", "IOC")>>
  <2>1. <<report("drop", "IOC")>> \in Played(i)
    BY DEF Played
  <2>2. Len(Tail(rs)) = 1 /\ Tail(rs)[1] = report("drop", "IOC")
    BY <1>2, <1>4
  <2> QED
    BY <1>2, <1>4, <2>1, <2>2
<1> QED
  BY <1>3, <1>4 DEF Played

LEMMA AutoReportsPlayed ==
    ASSUME NEW c, c.tif \in TimesInForce PROVE AutoReports(c) \in Played(c.id)
  BY DEF AutoReports, Played, TimesInForce

LEMMA LoadFixture ==
    ASSUME Users # {}, Ids # {}, FixtureInv, Shapes, NEW g \in Goroutines, Load(g)
    PROVE  FixtureInv'
<1> DEFINE c == call[g]
<1>0. c \in Calls /\ FixtureCalls /\ FixtureLocks /\ c.pc = "load"
  BY DEF Shapes, FixtureInv, Load, At
<1>1. UNCHANGED <<allowAutoTrade, expectations, locks, orders>>
  BY DEF Load
<1>2. CASE c.todo = <<>>
  <2>1. call' = [call EXCEPT ![g] = After(c)]
    BY <1>2 DEF Load
  <2>2. FixtureCall(After(c))
    BY <1>0, <1>2 DEF After, FixtureCall, NoCall, Calls, Played
  <2> QED
    BY <1>0, <1>1, <1>2, <2>1, <2>2, EarlySteps DEF FixtureCalls
<1>3. CASE c.todo # <<>> /\ c.user \in locks
  <2> DEFINE x == [c EXCEPT !.pc = "apply"]
  <2>1. call' = [call EXCEPT ![g] = x]
    BY <1>3 DEF Load
  <2>2. /\ x.pc = "apply" /\ x.user = c.user /\ x.op = c.op /\ x.todo = c.todo /\ x.id = c.id
    BY <1>0 DEF Calls
  <2>3. FixtureCall(x)
    BY <1>0, <1>3, <2>2 DEF FixtureCall, FixtureCalls
  <2>4. FixtureCalls'
    BY <1>0, <1>1, <2>1, <2>3, CallsStay DEF FixtureCalls
  <2>5. ASSUME NEW u, NEW i, Owes(c, u, i) PROVE Owes(x, u, i)
    BY <2>2, <2>5 DEF Owes
  <2>6. IocNeverRests'
    BY <1>1, <2>1, <2>5, OwedStays DEF FixtureInv
  <2> QED
    BY <1>0, <1>1, <2>4, <2>6 DEF FixtureInv, FixtureLocks
<1>4. CASE c.todo # <<>> /\ c.user \notin locks
  <2> DEFINE x == [c EXCEPT !.todo = Tail(c.todo)]
  <2>1. call' = [call EXCEPT ![g] = x]
    BY <1>0, <1>4 DEF Load
  <2>2. /\ x.pc = "load" /\ x.user = c.user /\ x.op = c.op /\ x.todo = Tail(c.todo) /\ x.id = c.id
    BY <1>0 DEF Calls
  <2>3. FixtureCall(x)
    BY <1>0, <1>4, <2>2, PlayedReports DEF FixtureCall, FixtureCalls
  <2>4. FixtureCalls'
    BY <1>0, <1>1, <2>1, <2>3, CallsStay DEF FixtureCalls
  <2>5. ASSUME NEW u \in allowAutoTrade, NEW i, orders[u] # NoOrders PROVE ~Owes(c, u, i)
    BY <1>0, <1>4, <2>5 DEF Owes, FixtureLocks
  <2>6. IocNeverRests'
    BY <1>1, <2>1, <2>5, OwedStays DEF FixtureInv
  <2> QED
    BY <1>0, <1>1, <2>4, <2>6 DEF FixtureInv, FixtureLocks
<1> QED
  BY <1>2, <1>3, <1>4

LEMMA ApplyFixture ==
    ASSUME FixtureInv, Shapes, NEW g \in Goroutines, Apply(g)
    PROVE  FixtureInv'
<1> DEFINE c == call[g]
           r == Head(c.todo)
           x == [c EXCEPT !.pc = "load", !.todo = Tail(c.todo)]
<1>0. /\ c \in Calls /\ c.user \in Users /\ FixtureCalls /\ FixtureLocks
      /\ c.pc = "apply" /\ c.todo # <<>> /\ allowAutoTrade \subseteq Users
  BY DEF Shapes, FixtureInv, Apply, At, Calls
<1>c. CASE UNCHANGED <<orders, call>>
  BY <1>c DEF Apply, FixtureInv, FixtureCalls, FixtureLocks, IocNeverRests, Busy
<1> SUFFICES ASSUME ~UNCHANGED <<orders, call>> PROVE FixtureInv'
  BY <1>c
<1>1. /\ UNCHANGED <<allowAutoTrade, expectations, locks>>
      /\ call' = [call EXCEPT ![g] = x]
      /\ orders' = [orders EXCEPT ![c.user] = Applied(r, orders[c.user])]
  BY DEF Apply
<1>2. x.pc = "load" /\ x.user = c.user /\ x.op = c.op /\ x.todo = Tail(c.todo) /\ x.id = c.id
  BY <1>0 DEF Calls
<1>3. FixtureCall(x)
  BY <1>0, <1>2, PlayedReports DEF FixtureCall, FixtureCalls
<1>4. FixtureCalls'
  BY <1>0, <1>1, <1>3, CallsStay DEF FixtureCalls
<1>5. \A u \in Users : u # c.user => orders'[u] = orders[u]
  BY <1>1 DEF Shapes
<1>6. orders'[c.user] = Applied(r, orders[c.user])
  BY <1>0, <1>1 DEF Shapes
<1>7. FixtureLocks'
  <2>1. orders[c.user] = NoOrders => orders'[c.user] = NoOrders
    BY <1>6 DEF Applied
  <2> QED
    BY <1>0, <1>1, <1>5, <2>1 DEF FixtureLocks
<1>8. ASSUME NEW u \in allowAutoTrade, NEW i \in Ids, orders'[u] # NoOrders, orders'[u][i] = "IOC"
      PROVE  \/ Owes(x, u, i)
             \/ orders[u] # NoOrders /\ orders[u][i] = "IOC" /\ ~Owes(c, u, i)
  <2>1. CASE u # c.user
    BY <1>0, <1>5, <1>8, <2>1 DEF Owes
  <2>2. CASE u = c.user
    <3>0. /\ c.todo \in Played(c.id) /\ c.op # "Unsubscribe"
      BY <1>0, <2>2 DEF FixtureCalls
    <3>1. orders[u] # NoOrders /\ orders[u] \in Books
      BY <1>0, <1>6, <1>8, <2>2 DEF Applied, Shapes
    <3>2. orders'[u] = [orders[u] EXCEPT ![r.id] = IF r.effect = "keep" THEN r.tif ELSE NoOrder]
      BY <1>6, <2>2, <3>1 DEF Applied
    <3>3. /\ r.id = c.id
          /\ r.effect = "keep" /\ r.tif # "GTC" =>
                Len(Tail(c.todo)) = 1 /\ Tail(c.todo)[1].effect = "drop" /\ Tail(c.todo)[1].id = c.id
          /\ \A k \in 1 .. Len(c.todo) : c.todo[k].id = c.id
      BY <1>0, <3>0, PlayedReports
    <3>4. CASE i = c.id
      <4>1. r.effect = "keep" /\ r.tif = "IOC"
        BY <1>8, <3>1, <3>2, <3>3, <3>4, MockAssumption DEF Books, TimesInForce
      <4>2. Len(x.todo) = 1 /\ x.todo[1].effect = "drop" /\ x.todo[1].id = i
        BY <1>2, <3>3, <3>4, <4>1
      <4> QED
        BY <1>2, <2>2, <3>0, <4>2, 1 \in 1 .. 1 DEF Owes
    <3>5. CASE i # c.id
      <4>1. orders[u][i] = "IOC"
        BY <1>8, <3>1, <3>2, <3>3, <3>5 DEF Books
      <4>2. ~Owes(c, u, i)
        BY <3>3, <3>5 DEF Owes
      <4> QED
        BY <3>1, <4>1, <4>2
    <3> QED
      BY <3>4, <3>5
  <2> QED
    BY <2>1, <2>2
<1>9. IocNeverRests'
  BY <1>1, <1>8, OwedStays DEF FixtureInv
<1> QED
  BY <1>0, <1>1, <1>4, <1>7, <1>9 DEF FixtureInv

LEMMA StepFixture ==
    ASSUME Users # {}, Ids # {}, FixtureInv, Shapes, NEW g \in Goroutines, Step(g)
    PROVE  FixtureInv'
<1> DEFINE c == call[g]
<1>0. /\ c \in Calls /\ c.user \in Users /\ c.tif \in TimesInForce
      /\ FixtureCalls /\ FixtureLocks /\ allowAutoTrade \subseteq Users
  BY DEF Shapes, FixtureInv, Calls
<1>1. c.pc \notin {"load", "apply"} /\ c.user \in allowAutoTrade => c.todo = <<>>
  BY <1>0 DEF FixtureCalls
<1>2. FixtureCall(NoCall)
  BY DEF FixtureCall, NoCall, Played
<1>3. ASSUME NEW p \in {"idle", "expecting", "pop", "load", "orders", "delete", "forget"},
             c.pc \notin {"load", "apply"}
      PROVE  FixtureCall([c EXCEPT !.pc = p])
  <2> DEFINE x == [c EXCEPT !.pc = p]
  <2>1. x.pc = p /\ x.user = c.user /\ x.todo = c.todo /\ x.id = c.id
    BY <1>0 DEF Calls
  <2>2. x.user \in allowAutoTrade => x.todo = <<>> /\ x.todo \in Played(x.id)
    BY <1>1, <1>3, <2>1 DEF Played
  <2> QED
    BY <1>3, <2>1, <2>2 DEF FixtureCall
<1>4. CASE Expecting(g) \/ Orders(g) \/ Delete(g)
  <2>0. c.op \in {"NewOrder", "CancelOrder"} /\ c.pc = "orders" => FixtureCall([c EXCEPT !.pc = "lookup"])
    BY <1>0, <1>1 DEF FixtureCall, Calls, Played
  <2>1. \E x : FixtureCall(x) /\ call' = [call EXCEPT ![g] = x]
    BY <1>2, <1>3, <1>4, <2>0 DEF Expecting, Orders, Delete, At, Goto, Return
  <2> QED
    BY <1>0, <1>1, <1>4, <2>1, EarlySteps DEF Expecting, Orders, Delete, At, FixtureCalls
<1>5. CASE Pop(g)
  <2>1. \A u \in allowAutoTrade : expectations'[u] = <<>>
    BY <1>0, <1>5 DEF Pop, FixtureCalls, Shapes
  <2>2. \E x : FixtureCall(x) /\ call' = [call EXCEPT ![g] = x]
    <3>1. CASE expectations[c.user] = <<>>
      BY <1>2, <1>5, <3>1 DEF Pop, Return
    <3>2. CASE expectations[c.user] # <<>>
      <4> DEFINE x == [c EXCEPT !.pc = "inited", !.todo = Head(expectations[c.user]).reports]
      <4>1. x.user \notin allowAutoTrade
        BY <1>0, <3>2 DEF FixtureCalls, Calls
      <4>2. FixtureCall(x)
        BY <4>1 DEF FixtureCall
      <4>3. call' = [call EXCEPT ![g] = NoCall] \/ call' = [call EXCEPT ![g] = x]
        BY <1>5, <3>2 DEF Pop, Return
      <4> QED
        BY <1>2, <4>2, <4>3
    <3> QED
      BY <3>1, <3>2
  <2> QED
    BY <1>0, <1>1, <1>5, <2>1, <2>2, EarlySteps DEF Pop, At
<1>6. CASE Inited(g) \/ Mutex(g) \/ Store(g)
  <2>0. c.user \notin allowAutoTrade
    BY <1>0, <1>6 DEF Inited, Mutex, Store, At, FixtureCalls
  <2>1. ASSUME NEW p PROVE FixtureCall([c EXCEPT !.pc = p])
    BY <1>0, <2>0 DEF FixtureCall, Calls
  <2>2. \E x : FixtureCall(x) /\ call' = [call EXCEPT ![g] = x]
    BY <1>6, <2>1 DEF Inited, Mutex, Store, Goto
  <2>3. \A u \in allowAutoTrade : orders'[u] = orders[u] /\ (u \in locks => u \in locks')
    BY <1>0, <1>6, <2>0 DEF Inited, Mutex, Store, Shapes
  <2> QED
    BY <1>0, <1>1, <1>6, <2>0, <2>2, <2>3, EarlySteps DEF Inited, Mutex, Store, FixtureCalls
<1>7. CASE Lookup(g)
  <2>1. FixtureCall([c EXCEPT !.pc = "load", !.todo = AutoReports(c)])
    <3>1. c.op # "Unsubscribe" \/ c.user \notin allowAutoTrade
      BY <1>0, <1>7 DEF Lookup, At, FixtureCalls
    <3> QED
      BY <1>0, <3>1, AutoReportsPlayed DEF FixtureCall, Calls
  <2>2. \E x : FixtureCall(x) /\ call' = [call EXCEPT ![g] = x]
    BY <1>2, <1>7, <2>1 DEF Lookup, Handle, Return
  <2> QED
    BY <1>0, <1>1, <1>7, <2>2, EarlySteps DEF Lookup, At, FixtureCalls
<1>8. CASE Forget(g)
  <2>1. /\ orders' = [orders EXCEPT ![c.user] = NoOrders]
        /\ locks' = locks \ {c.user}
        /\ call' = [call EXCEPT ![g] = [c EXCEPT !.pc = "expecting"]]
        /\ c.pc = "forget"
    BY <1>8 DEF Forget, Forgotten, Goto, At
  <2>2. \A u \in allowAutoTrade :
            /\ orders'[u] = orders[u] \/ orders'[u] = NoOrders
            /\ u \in locks /\ u \notin locks' => orders'[u] = NoOrders
    BY <1>0, <2>1 DEF Shapes
  <2>3. FixtureCall([c EXCEPT !.pc = "expecting"])
    BY <1>3, <2>1
  <2> QED
    BY <1>0, <1>1, <1>8, <2>1, <2>2, <2>3, EarlySteps DEF Forget, FixtureCalls
<1> QED
  BY <1>4, <1>5, <1>6, <1>7, <1>8, LoadFixture, ApplyFixture DEF Step

\* A call begins with nothing to handle.
LEMMA BeginFixture ==
    ASSUME NEW g \in Goroutines, NEW op \in Operations, NEW u \in Users, NEW i \in Ids,
           NEW t \in TimesInForce, FixtureInv, Shapes, Begin(g, op, u, i, t)
    PROVE  FixtureInv'
<1> DEFINE x == [pc |-> FirstStep(op), op |-> op, user |-> u, id |-> i, tif |-> t, todo |-> <<>>]
<1>0. UNCHANGED <<allowAutoTrade, expectations, locks, orders>> /\ call[g].pc = "idle"
  BY DEF Begin, At
<1>1. CASE op = "ReplaceOrder"
  BY <1>0, <1>1
     DEF Begin, FixtureInv, FixtureCalls, FixtureLocks, IocNeverRests, Busy
<1>2. CASE op # "ReplaceOrder"
  <2>1. call' = [call EXCEPT ![g] = x]
    BY <1>2 DEF Begin
  <2>2. FirstStep(op) \in {"expecting", "orders", "delete"}
    BY <1>2 DEF FirstStep, Operations
  <2>3. FixtureCall(x)
    BY <2>2 DEF FixtureCall, Played
  <2> QED
    BY <1>0, <2>1, <2>3, EarlySteps DEF FixtureInv, FixtureCalls
<1> QED
  BY <1>1, <1>2

LEMMA NextFixture ==
    ASSUME Users # {}, Ids # {}, FixtureInv, Shapes, [Next]_vars
    PROVE  FixtureInv'
<1>0. Releaser \in Goroutines /\ Callers \subseteq Goroutines
  BY CallersAssumption
<1>1. CASE UNCHANGED mockVars
  BY <1>1 DEF mockVars, FixtureInv, FixtureCalls, FixtureLocks, IocNeverRests, Busy
<1>2. ASSUME NEW c \in Callers, NEW op \in Operations \ {"Unsubscribe"}, NEW u \in Users,
             NEW i \in Ids, NEW t \in TimesInForce, Serve(c, op, u, i, t)
      PROVE  FixtureInv'
  BY <1>0, <1>2, BeginFixture DEF Serve
<1>3. ASSUME NEW u \in Users, StartRelease(u) PROVE FixtureInv'
  <2>1. PICK i \in Ids : Begin(Releaser, "Unsubscribe", u, i, "GTC")
    <3>1. (CHOOSE i \in Ids : TRUE) \in Ids
      OBVIOUS
    <3> QED
      BY <1>3, <3>1 DEF StartRelease
  <2>2. "Unsubscribe" \in Operations /\ "GTC" \in TimesInForce
    BY DEF Operations, TimesInForce
  <2> QED
    BY <1>0, <2>1, <2>2, BeginFixture
<1>4. ASSUME NEW g \in Goroutines, Step(g) PROVE FixtureInv'
  BY <1>4, StepFixture
<1>5. ASSUME NEW u \in Users \ allowAutoTrade, NEW e \in Expected, Expect(u, e)
      PROVE  FixtureInv'
  <2>1. UNCHANGED <<allowAutoTrade, locks, orders, call>>
    BY <1>5 DEF Expect, addExpectation
  <2>2. \A v \in allowAutoTrade : expectations'[v] = expectations[v]
    BY <1>5 DEF Expect, addExpectation, FixtureInv, Shapes
  <2>3. FixtureCalls'
    BY <2>1, <2>2 DEF FixtureInv, FixtureCalls
  <2> QED
    BY <2>1, <2>3 DEF FixtureInv, FixtureLocks, IocNeverRests, Busy
<1>6. CASE WatcherStep
  BY <1>0, <1>1, <1>3, <1>4, <1>6 DEF WatcherStep, ReleaserStep, EndRelease
<1>7. CASE \E c \in Callers : CallerStep(c)
  BY <1>0, <1>4, <1>7 DEF CallerStep
<1> QED
  BY <1>1, <1>2, <1>5, <1>6, <1>7 DEF Next, PassTime, vars

\* An IOC order of the exchange that the mock plays (mock-trader.go:240-262) is
\* gone when its call is, whatever callers and watcher do to the user meanwhile.
THEOREM IocOrdersPass == Users # {} /\ Ids # {} /\ Spec => []IocNeverRests
<1> SUFFICES ASSUME Users # {}, Ids # {} PROVE Spec => []IocNeverRests
  OBVIOUS
<1> DEFINE IInv == Inv /\ Shapes /\ DeletesForWatcher /\ FixtureInv
<1>1. Init => IInv
  BY InitInv, ShapesStart, FixtureStart DEF Init
<1>2. IInv /\ [Next]_vars => IInv'
  <2>1. [Next]_vars => [WatcherNext]_watcherVars
    BY NextWatches DEF vars
  <2> QED
    BY <2>1, NextInv, NextKeeps, NextFixture
<1>3. IInv => IocNeverRests
  BY DEF FixtureInv
<1> HIDE DEF IInv
<1> QED
  BY <1>1, <1>2, <1>3, PTL DEF Spec
-----------------------------------------------------------------------------
(* Whom the program calls for while the watcher lets a user go.              *)

\* A call of at most Kept has its user still touched; the user of a longer one is late.
CallersTimed ==
    /\ since \in [Callers -> Nat]
    /\ \A c \in Callers : call[c].pc # "idle" =>
          /\ call[c].op # "Unsubscribe"
          /\ since[c] <= now
          /\ now - since[c] <= Kept =>
                touched[call[c].user] # Never /\ since[c] <= touched[call[c].user]
          /\ now - since[c] > Kept => call[c].user \in late

\* The watcher's goroutine only unsubscribes, namely the user that release is at,
\* and release goes on when the user has no mutex any more, or is late.
ReleaserCall ==
    /\ call[Releaser].pc \in {"idle", "delete", "forget", "expecting", "pop"}
    /\ call[Releaser].pc # "idle" =>
          /\ call[Releaser].op = "Unsubscribe"
          /\ release.pc = "unsubscribe"
          /\ call[Releaser].user = release.user
    /\ release.pc = "unsubscribe" =>
          \/ call[Releaser].pc \in {"delete", "forget"}
          \/ release.user \notin locks \/ release.user \in late

\* Whoever the trader keeps orders of, fixtures aside, was touched.
LocksTouched ==
    /\ locks \subseteq Users
    /\ \A u \in locks \ (allowAutoTrade \cup late) : touched[u] # Never

KeptInv == CallersTimed /\ ReleaserCall /\ LocksTouched

\* Who calls for the user that release is at has been doing so for longer than Kept: the
\* call touched the user when it began, and one that begins waits for the watcher's mutex.
LEMMA NobodyCalls ==
    ASSUME Inv, CallersTimed, release.pc = "unsubscribe",
           NEW c \in Callers, call[c].pc # "idle", call[c].user = release.user
    PROVE  now - since[c] > Kept /\ release.user \in late
<1>1. now - touched[release.user] > Kept
  BY InvNotEarly DEF NotReleasedEarly
<1>2. /\ now \in Nat /\ since[c] \in Nat /\ since[c] <= now
      /\ now - since[c] <= Kept =>
            touched[release.user] # Never /\ since[c] <= touched[release.user]
      /\ now - since[c] > Kept => release.user \in late
  BY DEF CallersTimed, Inv, Typed
<1>3. release.user \in Users /\ touched \in [Users -> Nat \cup {Never}] /\ Kept \in Nat
  BY KeptNat DEF Inv, Typed
<1>4. now - since[c] > Kept
  <2>1. SUFFICES ASSUME now - since[c] <= Kept PROVE FALSE
    BY <1>2, <1>3
  <2>2. touched[release.user] \in Nat /\ since[c] <= touched[release.user]
    BY <1>2, <1>3, <2>1
  <2> QED
    BY <1>1, <1>2, <1>3, <2>1, <2>2
<1> QED
  BY <1>2, <1>4

\* Where a step takes the call of goroutine g.
LEMMA StepMoves ==
    ASSUME Shapes, NEW g \in Goroutines, Step(g)
    PROVE  /\ call[g].pc # "idle" /\ ~crashed
           /\ \A h \in Goroutines \ {g} : call'[h] = call[h]
           /\ call'[g].pc = "idle" \/ (call'[g].user = call[g].user /\ call'[g].op = call[g].op)
           /\ call[g].op = "Unsubscribe" /\ call[g].pc \in {"delete", "forget", "expecting", "pop"}
                 => call'[g].pc \in {"idle", "forget", "expecting", "pop"}
           /\ call[g].pc = "delete" => call'[g].pc = "forget" \/ call[g].user \notin locks
           /\ call'[g].pc = "forget" => call[g].pc = "delete"
           /\ call'[g].pc = "apply" =>
                 (call[g].pc = "load" /\ call[g].user \in locks) \/ (crashed' /\ call' = call)
           /\ call'[g].pc = "store" => call[g].pc = "mutex"
<1> DEFINE c == call[g]
<1>0. c \in Calls /\ call \in [Goroutines -> Calls] /\ NoCall.pc = "idle"
  BY DEF Shapes, NoCall
<1>1. CASE Expecting(g)
  BY <1>0, <1>1 DEF Expecting, At, Goto, Return, Calls
<1>2. CASE Pop(g)
  BY <1>0, <1>2 DEF Pop, At, Return, Calls
<1>3. CASE Inited(g) \/ Mutex(g)
  BY <1>0, <1>3 DEF Inited, Mutex, At, Goto, Calls
<1>4. CASE Store(g)
  BY <1>0, <1>4 DEF Store, At, Goto, Calls
<1>5. CASE Load(g)
  BY <1>0, <1>5 DEF Load, At, After, Calls
<1>6. CASE Apply(g)
  BY <1>0, <1>6 DEF Apply, At, Calls
<1>7. CASE Orders(g)
  BY <1>0, <1>7 DEF Orders, At, Goto, Return, Calls
<1>8. CASE Lookup(g)
  BY <1>0, <1>8 DEF Lookup, At, Handle, Return, Calls
<1>9. CASE Delete(g)
  BY <1>0, <1>9 DEF Delete, At, Goto, Calls
<1>10. CASE Forget(g)
  BY <1>0, <1>10 DEF Forget, At, Goto, Calls
<1> QED
  BY <1>1, <1>2, <1>3, <1>4, <1>5, <1>6, <1>7, <1>8, <1>9, <1>10 DEF Step

\* What a step does to the mutexes and the maps, and when it crashes.
LEMMA StepMaps ==
    ASSUME Shapes, NEW g \in Goroutines, Step(g)
    PROVE  /\ \/ locks' = locks /\ call'[g].pc # "store" /\ call[g].pc # "forget"
              \/ /\ call[g].pc = "mutex" /\ locks' = locks \cup {call[g].user}
                 /\ call'[g].pc = "store"
              \/ call[g].pc = "forget" /\ locks' = locks \ {call[g].user} /\ call'[g].pc = "expecting"
           /\ \A u \in Users : orders'[u] = NoOrders =>
                 orders[u] = NoOrders \/ (call[g].pc = "forget" /\ call[g].user = u)
           /\ call[g].pc = "store" => orders'[call[g].user] # NoOrders
           /\ crashed' => /\ call[g].pc = "apply" /\ orders[call[g].user] = NoOrders
                          /\ UNCHANGED <<orders, call, overtaken>>
           /\ UNCHANGED allowAutoTrade
<1> DEFINE c == call[g]
<1>0. c \in Calls /\ call \in [Goroutines -> Calls] /\ NoCall.pc = "idle" /\ c.user \in Users
  BY DEF Shapes, NoCall, Calls
<1>a. \A u \in Users : orders'[u] = NoOrders =>
         orders[u] = NoOrders \/ (c.pc = "forget" /\ c.user = u)
  BY StepOrders
<1>1. CASE Expecting(g) \/ Pop(g) \/ Inited(g) \/ Load(g) \/ Orders(g) \/ Lookup(g) \/ Delete(g)
  <2>1. /\ call'[g].pc # "store" /\ c.pc \notin {"store", "forget"}
        /\ ~crashed'
    BY <1>1, StepMoves DEF Expecting, Pop, Inited, Load, Orders, Lookup, Delete, At
  <2> QED
    BY <1>a, <1>1, <2>1 DEF Expecting, Pop, Inited, Load, Orders, Lookup, Delete, At
<1>2. CASE Mutex(g)
  BY <1>0, <1>a, <1>2 DEF Mutex, At, Goto, Calls
<1>3. CASE Store(g)
  <2>1. EmptyBook # NoOrders
    BY MockAssumption DEF EmptyBook, Books
  <2>2. orders'[c.user] # NoOrders
    BY <1>0, <1>3, <2>1 DEF Store, Shapes
  <2>3. call'[g].pc = "load"
    BY <1>0, <1>3 DEF Store, Goto, Calls
  <2> QED
    BY <1>a, <1>3, <2>2, <2>3 DEF Store, At
<1>4. CASE Apply(g)
  <2>1. c.pc = "apply" /\ call'[g].pc \in {"load", "apply"}
    BY <1>0, <1>4 DEF Apply, At, Calls
  <2>2. crashed' => orders[c.user] = NoOrders /\ UNCHANGED <<orders, call, overtaken>>
    BY <1>4 DEF Apply, At
  <2> QED
    BY <1>a, <1>4, <2>1, <2>2 DEF Apply
<1>5. CASE Forget(g)
  <2>1. call'[g].pc = "expecting"
    BY <1>0, <1>5 DEF Forget, Goto, Calls
  <2> QED
    BY <1>a, <1>5, <2>1 DEF Forget, Forgotten, At
<1> QED
  BY <1>1, <1>2, <1>3, <1>4, <1>5 DEF Step

\* Who is overtaken: a deletion overtakes whom it finds about to apply a report, and
\* the report being applied, the call is overtaken no longer.
LEMMA StepOvertakes ==
    ASSUME Shapes, NEW g \in Goroutines, Step(g)
    PROVE  \/ /\ call[g].pc = "forget"
              /\ overtaken' = overtaken \cup
                    {h \in Goroutines : call[h].pc = "apply" /\ call[h].user = call[g].user}
           \/ /\ call[g].pc # "forget"
              /\ overtaken' \subseteq overtaken
              /\ overtaken \ {g} \subseteq overtaken'
              /\ g \in overtaken' => call[g].pc # "apply" \/ call' = call
<1>1. CASE Expecting(g) \/ Pop(g) \/ Inited(g) \/ Mutex(g) \/ Store(g) \/ Load(g) \/ Orders(g)
             \/ Lookup(g) \/ Delete(g)
  BY <1>1 DEF Expecting, Pop, Inited, Mutex, Store, Load, Orders, Lookup, Delete, At
<1>2. CASE Apply(g)
  BY <1>2 DEF Apply, At
<1>3. CASE Forget(g)
  BY <1>3 DEF Forget, At
<1> QED
  BY <1>1, <1>2, <1>3 DEF Step

\* A call that begins is at its first step.
LEMMA BeginMoves ==
    ASSUME Shapes, NEW g \in Goroutines, NEW op \in Operations, NEW u \in Users, NEW i \in Ids,
           NEW t \in TimesInForce, Begin(g, op, u, i, t)
    PROVE  /\ call[g].pc = "idle" /\ ~crashed
           /\ UNCHANGED <<allowAutoTrade, expectations, locks, orders, crashed, overtaken>>
           /\ \A h \in Goroutines \ {g} : call'[h] = call[h]
           /\ \/ op = "ReplaceOrder" /\ call'[g].pc = "idle"
              \/ /\ call'[g].pc = FirstStep(op) /\ call'[g].pc \in {"expecting", "orders", "delete"}
                 /\ op = "Unsubscribe" => call'[g].pc = "delete"
                 /\ call'[g].user = u /\ call'[g].op = op
<1>1. CASE op = "ReplaceOrder"
  BY <1>1 DEF Begin, At
<1>2. CASE op # "ReplaceOrder"
  BY <1>2 DEF Begin, At, Shapes, FirstStep, Operations
<1> QED
  BY <1>1, <1>2
\* The cases of a step, by who takes it.
StepOf(g) == Step(g) /\ UNCHANGED watcherVars
Served(c, op, u) ==
    /\ Touch(u)
    /\ \E i \in Ids, t \in TimesInForce : Begin(c, op, u, i, t)
    /\ since' = [since EXCEPT ![c] = IF call'[c].pc = "idle" THEN 0 ELSE now]
    /\ late' = IF Overlong(u, now) THEN late ELSE late \ {u}
Called(c) ==
    /\ StepOf(c) /\ UNCHANGED late
    /\ since' = [since EXCEPT ![c] = IF call'[c].pc = "idle" THEN 0 ELSE @]
Dismissed(u) ==
    /\ Visit(u) /\ UNCHANGED callVars
    /\ \E i \in Ids : Begin(Releaser, "Unsubscribe", u, i, "GTC")
\* Nobody's call moves, and the watcher neither begins nor ends an Unsubscribe.
Aside ==
    /\ UNCHANGED <<allowAutoTrade, locks, orders, call, crashed, overtaken, since, touched>>
    /\ release'.pc = "unsubscribe" <=> release.pc = "unsubscribe"
    /\ release.pc = "unsubscribe" => UNCHANGED release
    /\ \/ now' = now /\ late' = late
       \/ now' = now + 1 /\ late' = late \cup {u \in Users : Overlong(u, now + 1)}

LEMMA StepCases ==
    ASSUME Ids # {}, Inv, [Next]_vars
    PROVE  \/ \E c \in Callers, op \in Operations \ {"Unsubscribe"}, u \in Users : Served(c, op, u)
           \/ \E c \in Callers : Called(c)
           \/ \E u \in Users : Dismissed(u)
           \/ StepOf(Releaser) /\ UNCHANGED callVars
           \/ EndRelease /\ UNCHANGED callVars
           \/ Aside
<1>1. ASSUME NEW c \in Callers, NEW op \in Operations \ {"Unsubscribe"}, NEW u \in Users,
             NEW i \in Ids, NEW t \in TimesInForce, Serve(c, op, u, i, t)
      PROVE  Served(c, op, u)
  BY <1>1 DEF Serve, Served
<1>2. ASSUME NEW c \in Callers, CallerStep(c) PROVE Called(c)
  BY <1>2 DEF CallerStep, Called, StepOf
<1>3. ASSUME NEW u \in Users, StartRelease(u), UNCHANGED callVars PROVE Dismissed(u)
  <2>1. (CHOOSE i \in Ids : TRUE) \in Ids
    OBVIOUS
  <2> QED
    BY <1>3, <2>1 DEF StartRelease, Dismissed
<1>4. CASE (Fire \/ Wake \/ Lock \/ Unlock) /\ UNCHANGED mockVars /\ UNCHANGED callVars
  <2>0. "pc" \in DOMAIN release /\ Sleeping.pc = "wait"
    BY DEF Inv, Typed, Sleeping
  <2>1. release'.pc = "unsubscribe" <=> release.pc = "unsubscribe"
    BY <1>4, <2>0 DEF Fire, Wake, Lock, Unlock
  <2>2. release.pc = "unsubscribe" => UNCHANGED release
    BY <1>4 DEF Fire, Wake, Lock, Unlock
  <2> QED
    BY <1>4, <2>1, <2>2 DEF Aside, Fire, Wake, Lock, Unlock, mockVars, callVars
<1>5. ASSUME NEW u \in Users, NEW e \in Expected, Expect(u, e) PROVE Aside
  BY <1>5 DEF Expect, addExpectation, watcherVars, callVars, Aside
<1>6. CASE PassTime
  BY <1>6 DEF PassTime, Advance, mockVars, Aside
<1>7. CASE UNCHANGED vars
  BY <1>7 DEF vars, watcherVars, mockVars, callVars, Aside
<1>8. CASE WatcherStep
  BY <1>3, <1>4, <1>8 DEF WatcherStep, ReleaserStep, StepOf
<1> QED
  BY <1>1, <1>2, <1>5, <1>6, <1>7, <1>8 DEF Next

LEMMA KeptStart == Users # {} /\ Init => KeptInv
<1> SUFFICES ASSUME Users # {}, Init PROVE KeptInv
  OBVIOUS
<1>1. NoCall.pc = "idle" /\ Releaser \in Goroutines /\ Callers \subseteq Goroutines
  BY CallersAssumption DEF NoCall
<1>2. \A g \in Goroutines : call[g].pc = "idle"
  BY <1>1 DEF Init, MockInit
<1>3. release.pc = "wait" /\ locks = allowAutoTrade /\ allowAutoTrade \subseteq Users
  BY DEF Init, MockInit, WatcherInit, Sleeping
<1>4. since \in [Callers -> Nat]
  BY DEF Init
<1> QED
  BY <1>1, <1>2, <1>3, <1>4 DEF KeptInv, CallersTimed, ReleaserCall, LocksTouched

LEMMA NextKept ==
    ASSUME Ids # {}, Inv, Shapes, KeptInv, [Next]_vars
    PROVE  KeptInv'
<1>0. /\ Releaser \in Goroutines /\ Callers \subseteq Goroutines /\ Releaser \notin Callers
      /\ Kept \in Nat /\ now \in Nat
      /\ touched \in [Users -> Nat \cup {Never}]
      /\ release = [pc |-> release.pc, obsolete |-> release.obsolete, user |-> release.user]
      /\ \A g \in Goroutines : call[g].user \in Users
      /\ CallersTimed /\ ReleaserCall /\ LocksTouched /\ since \in [Callers -> Nat]
  BY CallersAssumption, KeptNat DEF Inv, Typed, Shapes, Calls, KeptInv, CallersTimed
<1>n. Never \notin Nat
  BY TimeAssumption
<1>1. ASSUME NEW c \in Callers, NEW op \in Operations \ {"Unsubscribe"}, NEW u \in Users,
             Served(c, op, u)
      PROVE  KeptInv'
  <2>1. /\ touched' = [touched EXCEPT ![u] = now] /\ UNCHANGED <<now, release>>
        /\ since' = [since EXCEPT ![c] = IF call'[c].pc = "idle" THEN 0 ELSE now]
        /\ release.pc # "unsubscribe"
        /\ late' = IF Overlong(u, now) THEN late ELSE late \ {u}
    BY <1>1 DEF Served, Touch, Locked
  <2>2. /\ UNCHANGED <<allowAutoTrade, locks>>
        /\ \A h \in Goroutines \ {c} : call'[h] = call[h]
        /\ call'[c].pc = "idle" \/ (call'[c].user = u /\ call'[c].op = op)
    BY <1>0, <1>1, BeginMoves DEF Served
  <2>3. CallersTimed'
    <3>1. since' \in [Callers -> Nat] /\ \A d \in Callers \ {c} : since'[d] = since[d]
      BY <1>0, <2>1
    <3>2. ASSUME NEW d \in Callers \ {c}, call'[d].pc # "idle"
          PROVE  /\ call'[d].op # "Unsubscribe" /\ since'[d] <= now'
                 /\ now' - since'[d] <= Kept =>
                       /\ touched'[call'[d].user] # Never
                       /\ since'[d] <= touched'[call'[d].user]
                 /\ now' - since'[d] > Kept => call'[d].user \in late'
      <4>1. call'[d] = call[d] /\ call[d].user \in Users /\ since'[d] = since[d] /\ now' = now
        BY <1>0, <2>1, <2>2, <3>1
      <4>2. /\ call[d].op # "Unsubscribe" /\ since[d] <= now /\ since[d] \in Nat
            /\ now - since[d] <= Kept =>
                  touched[call[d].user] # Never /\ since[d] <= touched[call[d].user]
            /\ now - since[d] > Kept => call[d].user \in late
        BY <1>0, <3>2, <4>1 DEF CallersTimed
      <4>3. touched'[call[d].user] \in {now, touched[call[d].user]}
        BY <1>0, <2>1, <4>1
      <4>4. ASSUME now - since[d] <= Kept
            PROVE  touched'[call[d].user] # Never /\ since[d] <= touched'[call[d].user]
        BY <1>0, <1>n, <4>2, <4>3, <4>4
      <4>5. ASSUME now - since[d] > Kept PROVE call[d].user \in late'
        <5>1. call[d].user = u => Overlong(u, now)
          BY <3>2, <4>1, <4>5 DEF Overlong
        <5> QED
          BY <2>1, <4>2, <4>5, <5>1
      <4> QED
        BY <4>1, <4>2, <4>4, <4>5
    <3>3. ASSUME call'[c].pc # "idle"
          PROVE  /\ call'[c].op # "Unsubscribe" /\ since'[c] <= now'
                 /\ now' - since'[c] <= Kept
                 /\ touched'[call'[c].user] # Never /\ since'[c] <= touched'[call'[c].user]
      <4>1. call'[c].op = op /\ call'[c].user = u /\ since'[c] = now /\ touched'[u] = now
        BY <1>0, <2>1, <2>2, <3>3
      <4> QED
        BY <1>0, <1>n, <2>1, <4>1
    <3>4. ASSUME NEW d \in Callers, call'[d].pc # "idle"
          PROVE  /\ call'[d].op # "Unsubscribe" /\ since'[d] <= now'
                 /\ now' - since'[d] <= Kept =>
                       /\ touched'[call'[d].user] # Never
                       /\ since'[d] <= touched'[call'[d].user]
                 /\ now' - since'[d] > Kept => call'[d].user \in late'
      <4>1. CASE d # c
        BY <3>2, <3>4, <4>1
      <4>2. CASE d = c
        <5>1. now' - since'[c] \in Int
          BY <1>0, <2>1, <3>1
        <5> QED
          BY <1>0, <3>3, <3>4, <4>2, <5>1
      <4> QED
        BY <4>1, <4>2
    <3> QED
      BY <3>1, <3>4 DEF CallersTimed
  <2>4. ReleaserCall'
    BY <1>0, <2>1, <2>2 DEF ReleaserCall
  <2>5. LocksTouched'
    BY <1>0, <1>n, <2>1, <2>2 DEF LocksTouched
  <2> QED
    BY <2>3, <2>4, <2>5 DEF KeptInv
<1>2. ASSUME NEW c \in Callers, Called(c) PROVE KeptInv'
  <2>1. /\ UNCHANGED <<touched, now, release, late>> /\ Step(c) /\ c \in Goroutines
        /\ since' = [since EXCEPT ![c] = IF call'[c].pc = "idle" THEN 0 ELSE @]
    BY <1>0, <1>2 DEF Called, StepOf, watcherVars
  <2>2. /\ call[c].pc # "idle"
        /\ \A h \in Goroutines \ {c} : call'[h] = call[h]
        /\ call'[c].pc = "idle" \/ (call'[c].user = call[c].user /\ call'[c].op = call[c].op)
    BY <2>1, StepMoves
  <2>m. /\ UNCHANGED allowAutoTrade
        /\ locks' \subseteq locks \cup {call[c].user}
    BY <2>1, StepMaps
  <2>3. /\ call[c].op # "Unsubscribe" /\ call[c].user \in Users
        /\ touched[call[c].user] # Never \/ call[c].user \in late
        /\ release.pc = "unsubscribe" /\ call[c].user = release.user => release.user \in late
    <3>1. now - since[c] <= Kept \/ now - since[c] > Kept
      BY <1>0
    <3> QED
      BY <1>0, <2>2, <3>1, NobodyCalls DEF CallersTimed
  <2>4. CallersTimed'
    <3>1. since' \in [Callers -> Nat] /\ \A d \in Callers \ {c} : since'[d] = since[d]
      BY <1>0, <2>1
    <3>2. call'[c].pc # "idle" => since'[c] = since[c]
      BY <1>0, <2>1
    <3>3. \A d \in Callers : call'[d].pc # "idle" =>
             /\ call[d].pc # "idle" /\ call'[d].op = call[d].op /\ call'[d].user = call[d].user
             /\ since'[d] = since[d]
      BY <1>0, <2>2, <3>1, <3>2
    <3> QED
      BY <1>0, <2>1, <3>1, <3>3 DEF CallersTimed
  <2>5. ReleaserCall'
    <3>1. call'[Releaser] = call[Releaser]
      BY <1>0, <2>2
    <3>2. release.pc = "unsubscribe" =>
             \/ call[Releaser].pc \in {"delete", "forget"}
             \/ release.user \notin locks' \/ release.user \in late
      BY <1>0, <2>m, <2>3 DEF ReleaserCall
    <3> QED
      BY <1>0, <2>1, <3>1, <3>2 DEF ReleaserCall
  <2>6. LocksTouched'
    BY <1>0, <2>1, <2>m, <2>3 DEF LocksTouched
  <2> QED
    BY <2>4, <2>5, <2>6 DEF KeptInv
<1>3. ASSUME NEW u \in Users, Dismissed(u) PROVE KeptInv'
  <2>1. /\ UNCHANGED <<touched, now, since, late>> /\ release.pc = "loop"
        /\ release'.pc = "unsubscribe" /\ release'.user = u
    BY <1>0, <1>3 DEF Dismissed, Visit, callVars
  <2>2. "Unsubscribe" \in Operations /\ "GTC" \in TimesInForce
    BY DEF Operations, TimesInForce
  <2>3. /\ UNCHANGED <<allowAutoTrade, locks>>
        /\ \A h \in Goroutines \ {Releaser} : call'[h] = call[h]
        /\ call'[Releaser].pc = "delete" /\ call'[Releaser].user = u
        /\ call'[Releaser].op = "Unsubscribe"
    BY <1>0, <1>3, <2>2, BeginMoves DEF Dismissed
  <2>4. CallersTimed'
    BY <1>0, <2>1, <2>3 DEF CallersTimed
  <2> QED
    BY <1>0, <2>1, <2>3, <2>4 DEF KeptInv, ReleaserCall, LocksTouched
<1>4. CASE StepOf(Releaser) /\ UNCHANGED callVars
  <2>1. UNCHANGED <<touched, now, release, since, late>> /\ Step(Releaser)
    BY <1>4 DEF StepOf, watcherVars, callVars
  <2>2. /\ call[Releaser].pc # "idle"
        /\ \A h \in Goroutines \ {Releaser} : call'[h] = call[h]
        /\ call'[Releaser].pc = "idle" \/ (/\ call'[Releaser].user = call[Releaser].user
                                           /\ call'[Releaser].op = call[Releaser].op)
        /\ call[Releaser].op = "Unsubscribe"
              /\ call[Releaser].pc \in {"delete", "forget", "expecting", "pop"}
              => call'[Releaser].pc \in {"idle", "forget", "expecting", "pop"}
        /\ call[Releaser].pc = "delete" =>
              call'[Releaser].pc = "forget" \/ call[Releaser].user \notin locks
    BY <1>0, <2>1, StepMoves
  <2>3. /\ UNCHANGED allowAutoTrade
        /\ \/ locks' = locks /\ call[Releaser].pc # "forget"
           \/ call[Releaser].pc = "mutex"
           \/ call[Releaser].pc = "forget" /\ locks' = locks \ {call[Releaser].user}
    BY <1>0, <2>1, StepMaps
  <2>4. call[Releaser].op = "Unsubscribe" /\ release.pc = "unsubscribe"
        /\ call[Releaser].user = release.user
        /\ call[Releaser].pc \in {"delete", "forget", "expecting", "pop"}
    BY <1>0, <2>2 DEF ReleaserCall
  <2>5. CallersTimed'
    BY <1>0, <2>1, <2>2 DEF CallersTimed
  <2>6. ReleaserCall'
    BY <1>0, <2>1, <2>2, <2>3, <2>4 DEF ReleaserCall
  <2>7. LocksTouched'
    BY <1>0, <2>1, <2>3, <2>4 DEF LocksTouched
  <2> QED
    BY <2>5, <2>6, <2>7 DEF KeptInv
<1>5. CASE EndRelease /\ UNCHANGED callVars
  <2>1. /\ release.pc = "unsubscribe" /\ release'.pc = "loop" /\ call[Releaser].pc = "idle"
        /\ touched' = [touched EXCEPT ![release.user] = Never]
        /\ UNCHANGED <<now, since, late, allowAutoTrade, locks, call>>
    BY <1>0, <1>5 DEF EndRelease, Unsubscribed, mockVars, callVars
  <2>2. release.user \notin locks \/ release.user \in late
    BY <1>0, <2>1 DEF ReleaserCall
  <2>3. ASSUME NEW c \in Callers, call[c].pc # "idle"
        PROVE  \/ now - since[c] > Kept /\ call[c].user \in late
               \/ touched'[call[c].user] = touched[call[c].user]
    <3>1. CASE call[c].user = release.user
      BY <1>0, <2>1, <2>3, <3>1, NobodyCalls
    <3>2. CASE call[c].user # release.user
      BY <1>0, <2>1, <3>2
    <3> QED
      BY <3>1, <3>2
  <2>4. CallersTimed'
    <3>1. ASSUME NEW c \in Callers, call[c].pc # "idle"
          PROVE  /\ call[c].op # "Unsubscribe" /\ since[c] <= now
                 /\ now - since[c] <= Kept =>
                       touched'[call[c].user] # Never /\ since[c] <= touched'[call[c].user]
                 /\ now - since[c] > Kept => call[c].user \in late
      <4>1. now - since[c] \in Int /\ Kept \in Int
        BY <1>0
      <4> QED
        BY <1>0, <2>3, <3>1, <4>1 DEF CallersTimed
    <3> QED
      BY <1>0, <2>1, <3>1 DEF CallersTimed
  <2>5. LocksTouched'
    BY <1>0, <2>1, <2>2 DEF LocksTouched
  <2> QED
    BY <1>0, <2>1, <2>4, <2>5 DEF KeptInv, ReleaserCall
<1>6. CASE Aside
  <2>0. /\ UNCHANGED <<allowAutoTrade, locks, call, since, touched>>
        /\ late \subseteq late' /\ now' \in Nat /\ now <= now'
        /\ release'.pc = "unsubscribe" <=> release.pc = "unsubscribe"
        /\ release.pc = "unsubscribe" => release' = release
    BY <1>0, <1>6 DEF Aside
  <2>1. ASSUME NEW c \in Callers, call[c].pc # "idle", now' - since[c] > Kept
        PROVE  call[c].user \in late'
    <3>1. CASE now' = now /\ late' = late
      BY <1>0, <2>1, <3>1 DEF CallersTimed
    <3>2. CASE now' = now + 1 /\ late' = late \cup {u \in Users : Overlong(u, now + 1)}
      <4>1. Overlong(call[c].user, now + 1)
        BY <2>1, <3>2 DEF Overlong
      <4> QED
        BY <1>0, <3>2, <4>1
    <3> QED
      BY <1>6, <3>1, <3>2 DEF Aside
  <2>2. ASSUME NEW c \in Callers, call[c].pc # "idle"
        PROVE  /\ call[c].op # "Unsubscribe" /\ since[c] <= now'
               /\ now' - since[c] <= Kept =>
                     touched[call[c].user] # Never /\ since[c] <= touched[call[c].user]
    BY <1>0, <2>0, <2>2 DEF CallersTimed
  <2>3. CallersTimed'
    BY <1>0, <2>0, <2>1, <2>2 DEF CallersTimed
  <2>4. ReleaserCall'
    BY <1>0, <2>0 DEF ReleaserCall
  <2>5. LocksTouched'
    BY <1>0, <2>0 DEF LocksTouched
  <2> QED
    BY <2>3, <2>4, <2>5 DEF KeptInv
<1> QED
  BY <1>1, <1>2, <1>3, <1>4, <1>5, <1>6, StepCases

\* Nobody is kept forever: whoever the trader keeps orders of because the program
\* called for it is in the watcher's notes (user-watcher.go:29), so that release comes
\* to it, even if Unsubscribe and calls of the program follow each other closely; but
\* for those of whom a call has lasted longer than the watcher's duration.
THEOREM KeptUsersAreWatched == Users # {} /\ Ids # {} /\ Spec => []KeptAreWatched
<1> SUFFICES ASSUME Users # {}, Ids # {} PROVE Spec => []KeptAreWatched
  OBVIOUS
<1> DEFINE IInv == Inv /\ Shapes /\ DeletesForWatcher /\ KeptInv
<1>1. Init => IInv
  BY InitInv, ShapesStart, KeptStart DEF Init
<1>2. IInv /\ [Next]_vars => IInv'
  <2>1. [Next]_vars => [WatcherNext]_watcherVars
    BY NextWatches DEF vars
  <2> QED
    BY <2>1, NextInv, NextKeeps, NextKept
<1>3. IInv => KeptAreWatched
  BY DEF Inv, Noted, KeptInv, LocksTouched, KeptAreWatched
<1> HIDE DEF IInv
<1> QED
  BY <1>1, <1>2, <1>3, PTL DEF Spec
-----------------------------------------------------------------------------
(* The map that reports are applied to.                                      *)

\* Who has been overtaken by a deletion is in a call that has lasted longer than Kept.
OvertakenAreLate ==
    \A c \in overtaken :
        c \in Callers /\ call[c].pc = "apply" /\ now - since[c] > Kept

\* A caller for user u has stored the mutex and is about to store the map.
Storing(u) == \E c \in Callers : call[c].pc = "store" /\ call[c].user = u

\* Everybody who has a mutex has a map, and so has everybody a report of whom is about
\* to be applied, but while somebody is storing it, or after a deletion.
MapsInv ==
    /\ OvertakenAreLate
    /\ \A u \in locks : orders[u] = NoOrders => Storing(u)
    /\ \A c \in Callers \ overtaken :
          call[c].pc = "apply" /\ orders[call[c].user] = NoOrders => Storing(call[c].user)
    /\ CrashNeedsWindow

LEMMA MapsStart == Users # {} /\ Init => MapsInv
<1> SUFFICES ASSUME Users # {}, Init PROVE MapsInv
  OBVIOUS
<1>1. NoCall.pc = "idle" /\ Callers \subseteq Goroutines
  BY CallersAssumption DEF NoCall
<1>2. \A c \in Callers : call[c].pc = "idle"
  BY <1>1 DEF Init, MockInit
<1>3. \A u \in locks : orders[u] # NoOrders
  BY DEF Init, MockInit
<1>4. ~crashed /\ overtaken = {}
  BY DEF Init, MockInit
<1> QED
  BY <1>2, <1>3, <1>4 DEF MapsInv, OvertakenAreLate, CrashNeedsWindow

\* A step that neither moves a call to or from one of the critical sections, nor deletes.
LEMMA MapsStay ==
    ASSUME MapsInv, ~crashed, now \in Nat, now' \in Nat, now <= now',
           since \in [Callers -> Nat],
           UNCHANGED <<locks, orders, crashed, overtaken>>,
           \A c \in Callers :
              /\ call'[c].pc = "apply" <=> call[c].pc = "apply"
              /\ call'[c].pc = "store" <=> call[c].pc = "store"
              /\ call[c].pc \in {"apply", "store"} =>
                    call'[c].user = call[c].user /\ since'[c] = since[c]
    PROVE  MapsInv'
<1>1. OvertakenAreLate'
  <2>1. \A c \in Callers : since[c] \in Nat
    OBVIOUS
  <2> QED
    BY <2>1, KeptNat DEF MapsInv, OvertakenAreLate
<1>2. \A u : Storing(u) => Storing(u)'
  BY DEF Storing
<1>3. \A u \in locks' : orders'[u] = NoOrders => Storing(u)'
  BY <1>2 DEF MapsInv
<1>4. ASSUME NEW c \in Callers \ overtaken', call'[c].pc = "apply",
             orders'[call'[c].user] = NoOrders
      PROVE  Storing(call[c].user)'
  <2>1. c \in Callers \ overtaken /\ call[c].pc = "apply" /\ call'[c].user = call[c].user
    BY <1>4
  <2>2. Storing(call[c].user)
    BY <1>4, <2>1 DEF MapsInv
  <2>3. PICK d \in Callers : call[d].pc = "store" /\ call[d].user = call[c].user
    BY <2>2 DEF Storing
  <2>4. call'[d].pc = "store" /\ call'[d].user = call'[c].user
    BY <2>1, <2>3
  <2> QED
    BY <2>4 DEF Storing
<1>5. CrashNeedsWindow'
  BY DEF CrashNeedsWindow
<1> QED
  BY <1>1, <1>3, <1>4, <1>5 DEF MapsInv

LEMMA NextMaps ==
    ASSUME Ids # {}, Inv, Shapes, DeletesForWatcher, KeptInv, MapsInv, [Next]_vars
    PROVE  MapsInv'
<1>0. /\ Releaser \in Goroutines /\ Callers \subseteq Goroutines /\ Releaser \notin Callers
      /\ \A g \in Goroutines : call[g].user \in Users
      /\ locks \subseteq Users /\ now \in Nat /\ since \in [Callers -> Nat]
      /\ CallersTimed /\ ReleaserCall
  BY CallersAssumption DEF Shapes, Calls, KeptInv, LocksTouched, CallersTimed, Inv, Typed
<1>s. ASSUME UNCHANGED <<now, since, call, crashed, overtaken, locks, orders>> PROVE MapsInv'
  <2>1. OvertakenAreLate'
    BY <1>s DEF MapsInv, OvertakenAreLate
  <2>2. \A u : Storing(u)' <=> Storing(u)
    BY <1>s DEF Storing
  <2>3. CrashNeedsWindow'
    BY <1>s DEF MapsInv, CrashNeedsWindow
  <2> QED
    BY <1>s, <2>1, <2>2, <2>3 DEF MapsInv
<1>v. CASE UNCHANGED vars
  BY <1>v, <1>s DEF vars, watcherVars, mockVars, callVars
<1>c. CASE crashed
  BY <1>c, <1>v DEF Next
<1>1. ASSUME ~crashed, NEW c \in Callers, NEW op \in Operations \ {"Unsubscribe"},
             NEW u \in Users, Served(c, op, u)
      PROVE  MapsInv'
  <2>1. /\ call[c].pc = "idle"
        /\ UNCHANGED <<locks, orders, crashed, overtaken>>
        /\ \A h \in Goroutines \ {c} : call'[h] = call[h]
        /\ call'[c].pc \in {"idle", "expecting", "orders", "delete"}
    BY <1>0, <1>1, BeginMoves DEF Served
  <2>2. /\ now' = now
        /\ \A d \in Callers \ {c} : since'[d] = since[d]
    BY <1>0, <1>1 DEF Served, Touch
  <2>3. \A d \in Callers :
           /\ call'[d].pc = "apply" <=> call[d].pc = "apply"
           /\ call'[d].pc = "store" <=> call[d].pc = "store"
           /\ call[d].pc \in {"apply", "store"} =>
                 call'[d].user = call[d].user /\ since'[d] = since[d]
    BY <1>0, <2>1, <2>2
  <2> QED
    BY <1>0, <1>1, <2>1, <2>2, <2>3, MapsStay
<1>2. ASSUME ~crashed, NEW c \in Callers, Called(c) PROVE MapsInv'
  <2>1. Step(c) /\ c \in Goroutines /\ now' = now
    BY <1>0, <1>2 DEF Called, StepOf, watcherVars
  <2>2. /\ call[c].pc # "idle" /\ call[c].user \in Users
        /\ \A h \in Goroutines \ {c} : call'[h] = call[h]
        /\ call'[c].pc = "idle" \/ call'[c].user = call[c].user
        /\ call'[c].pc = "apply" =>
              (call[c].pc = "load" /\ call[c].user \in locks) \/ (crashed' /\ call' = call)
        /\ call'[c].pc = "store" => call[c].pc = "mutex"
    BY <1>0, <2>1, StepMoves
  <2>3. call[c].pc # "forget"
    BY <1>0, <2>2 DEF DeletesForWatcher
  <2>4. /\ \/ locks' = locks /\ call'[c].pc # "store"
           \/ locks' = locks \cup {call[c].user} /\ call'[c].pc = "store"
        /\ \A u \in Users : orders'[u] = NoOrders => orders[u] = NoOrders
        /\ call[c].pc = "store" => orders'[call[c].user] # NoOrders
        /\ crashed' => /\ call[c].pc = "apply" /\ orders[call[c].user] = NoOrders
                       /\ UNCHANGED <<orders, call, overtaken>>
    BY <2>1, <2>3, StepMaps
  <2>5. /\ overtaken' \subseteq overtaken /\ overtaken \ {c} \subseteq overtaken'
        /\ c \in overtaken' => call[c].pc # "apply" \/ call' = call
    BY <2>1, <2>3, StepOvertakes
  <2>6. \A d \in Callers : since'[d] = since[d] \/ (d = c /\ call'[c].pc = "idle")
    BY <1>0, <1>2 DEF Called
  <2>7. OvertakenAreLate'
    <3> SUFFICES ASSUME NEW d \in overtaken'
                 PROVE  d \in Callers /\ call'[d].pc = "apply" /\ now' - since'[d] > Kept
      BY DEF OvertakenAreLate
    <3>1. d \in Callers /\ call[d].pc = "apply" /\ now - since[d] > Kept
      BY <2>5 DEF MapsInv, OvertakenAreLate
    <3>2. call'[d] = call[d]
      BY <1>0, <2>2, <2>5, <3>1
    <3> QED
      BY <2>1, <2>6, <3>1, <3>2
  <2>8. \* Who was storing the map still is, or has stored it.
        ASSUME NEW u \in Users, orders'[u] = NoOrders, Storing(u)
        PROVE  Storing(u)'
    <3>1. PICK d \in Callers : call[d].pc = "store" /\ call[d].user = u
      BY <2>8 DEF Storing
    <3>2. d # c
      BY <2>4, <2>8, <3>1
    <3> QED
      BY <1>0, <2>2, <3>1, <3>2 DEF Storing
  <2>9. ASSUME NEW u \in locks', orders'[u] = NoOrders PROVE Storing(u)'
    <3>1. u \in Users /\ orders[u] = NoOrders
      BY <1>0, <2>2, <2>4, <2>9
    <3>2. CASE u \in locks
      BY <2>8, <2>9, <3>1, <3>2 DEF MapsInv
    <3>3. CASE u \notin locks
      <4>1. u = call[c].user /\ call'[c].pc = "store"
        BY <2>4, <2>9, <3>3
      <4> QED
        BY <2>2, <4>1 DEF Storing
    <3> QED
      BY <3>2, <3>3
  <2>10. ASSUME NEW d \in Callers \ overtaken', call'[d].pc = "apply",
                orders'[call'[d].user] = NoOrders
         PROVE  Storing(call[d].user)'
    <3>1. call'[d].user = call[d].user /\ call[d].user \in Users
      BY <1>0, <2>2, <2>10
    <3>2. orders[call[d].user] = NoOrders
      BY <2>4, <2>10, <3>1
    <3>3. Storing(call[d].user)
      <4>1. CASE d # c \/ call' = call
        <5>1. d \notin overtaken /\ call[d].pc = "apply"
          BY <1>0, <2>2, <2>4, <2>5, <2>10, <4>1, <1>2
        <5> QED
          BY <3>2, <5>1 DEF MapsInv
      <4>2. CASE d = c /\ call' # call
        BY <2>2, <2>10, <3>2, <4>2 DEF MapsInv
      <4> QED
        BY <4>1, <4>2
    <3>4. PICK u \in Users : u = call[d].user
      BY <3>1
    <3>5. Storing(u)'
      BY <2>8, <2>10, <3>1, <3>3, <3>4
    <3> QED
      BY <3>1, <3>4, <3>5 DEF Storing
  <2>11. CrashNeedsWindow'
    <3> SUFFICES ASSUME crashed' PROVE CrashNeedsWindow'
      BY DEF CrashNeedsWindow
    <3>1. call[c].pc = "apply" /\ orders[call[c].user] = NoOrders /\ call' = call
      BY <2>4
    <3>2. CASE c \in overtaken
      <4>1. now - since[c] > Kept /\ since'[c] = since[c] /\ c \in overtaken'
        BY <2>4, <2>6, <3>1, <3>2 DEF MapsInv, OvertakenAreLate
      <4> QED
        BY <2>1, <3>1, <4>1 DEF CrashNeedsWindow
    <3>3. CASE c \notin overtaken
      <4>1. PICK d \in Callers : call[d].pc = "store" /\ call[d].user = call[c].user
        BY <3>1, <3>3 DEF MapsInv, Storing
      <4> QED
        BY <3>1, <4>1 DEF CrashNeedsWindow
    <3> QED
      BY <3>2, <3>3
  <2> QED
    BY <2>7, <2>9, <2>10, <2>11 DEF MapsInv
<1>3. ASSUME ~crashed, NEW u \in Users, Dismissed(u) PROVE MapsInv'
  <2>1. "Unsubscribe" \in Operations /\ "GTC" \in TimesInForce
    BY DEF Operations, TimesInForce
  <2>2. /\ UNCHANGED <<locks, orders, crashed, overtaken>>
        /\ \A h \in Goroutines \ {Releaser} : call'[h] = call[h]
    BY <1>0, <1>3, <2>1, BeginMoves DEF Dismissed
  <2>3. now' = now /\ since' = since
    BY <1>3 DEF Dismissed, Visit, callVars
  <2>4. \A d \in Callers : call'[d] = call[d]
    BY <1>0, <2>2
  <2> QED
    BY <1>0, <1>3, <2>2, <2>3, <2>4, MapsStay
<1>4. CASE ~crashed /\ StepOf(Releaser) /\ UNCHANGED callVars
  <2>1. /\ Step(Releaser) /\ call[Releaser].pc # "idle"
        /\ \A h \in Goroutines \ {Releaser} : call'[h] = call[h]
        /\ UNCHANGED <<now, since>>
    BY <1>0, <1>4, StepMoves DEF StepOf, watcherVars, callVars
  <2>2. /\ call[Releaser].pc \in {"delete", "forget", "expecting", "pop"}
        /\ release.pc = "unsubscribe" /\ call[Releaser].user = release.user
    BY <1>0, <2>1 DEF ReleaserCall
  <2>3. /\ \/ locks' = locks /\ call[Releaser].pc # "forget"
           \/ call[Releaser].pc = "forget" /\ locks' = locks \ {release.user}
        /\ \A u \in Users : orders'[u] = NoOrders =>
              orders[u] = NoOrders \/ (call[Releaser].pc = "forget" /\ release.user = u)
        /\ ~crashed'
    BY <1>0, <2>1, <2>2, StepMaps
  <2>4. \A c \in Callers : call'[c] = call[c] /\ call[c].user \in Users
    BY <1>0, <2>1
  <2>5. \A u : Storing(u) => Storing(u)'
    BY <2>4 DEF Storing
  <2>6. \/ /\ call[Releaser].pc = "forget"
           /\ overtaken' = overtaken \cup
                 {h \in Goroutines : call[h].pc = "apply" /\ call[h].user = release.user}
        \/ /\ call[Releaser].pc # "forget" /\ overtaken' = overtaken
    <3>1. Releaser \notin overtaken
      BY <1>0 DEF MapsInv, OvertakenAreLate
    <3> QED
      BY <1>0, <2>1, <2>2, <3>1, StepOvertakes
  <2>7. OvertakenAreLate'
    <3> SUFFICES ASSUME NEW d \in overtaken'
                 PROVE  d \in Callers /\ call'[d].pc = "apply" /\ now' - since'[d] > Kept
      BY DEF OvertakenAreLate
    <3>1. CASE d \in overtaken
      BY <2>1, <2>4, <3>1 DEF MapsInv, OvertakenAreLate
    <3>2. CASE d \notin overtaken
      <4>1. d \in Goroutines /\ call[d].pc = "apply" /\ call[d].user = release.user
        BY <2>6, <3>2
      <4>2. d \in Callers
        BY <2>2, <4>1, CallersAssumption
      <4>3. now - since[d] > Kept
        BY <1>0, <2>2, <4>1, <4>2, NobodyCalls
      <4> QED
        BY <2>1, <2>4, <4>1, <4>2, <4>3
    <3> QED
      BY <3>1, <3>2
  <2>8. ASSUME NEW u \in locks', orders'[u] = NoOrders PROVE Storing(u)'
    <3>1. u \in locks /\ orders[u] = NoOrders
      BY <1>0, <2>3, <2>8
    <3> QED
      BY <2>5, <3>1 DEF MapsInv
  <2>9. ASSUME NEW d \in Callers \ overtaken', call'[d].pc = "apply",
               orders'[call'[d].user] = NoOrders
        PROVE  Storing(call[d].user)'
    <3>1. d \in Goroutines /\ d \notin overtaken /\ call'[d] = call[d] /\ call[d].pc = "apply"
      BY <1>0, <2>4, <2>6, <2>9
    <3>2. orders[call[d].user] = NoOrders
      <4>1. call[Releaser].pc = "forget" => call[d].user # release.user
        BY <2>6, <2>9, <3>1
      <4> QED
        BY <2>3, <2>4, <2>9, <3>1, <4>1
    <3>3. Storing(call[d].user)
      BY <2>9, <3>1, <3>2 DEF MapsInv
    <3> QED
      BY <2>4, <3>1, <3>3 DEF Storing
  <2>10. CrashNeedsWindow'
    BY <2>3 DEF CrashNeedsWindow
  <2> QED
    BY <2>7, <2>8, <2>9, <2>10 DEF MapsInv
<1>5. CASE EndRelease /\ UNCHANGED callVars
  BY <1>5, <1>s DEF EndRelease, Unsubscribed, mockVars, callVars
<1>6. CASE ~crashed /\ Aside
  <2>1. /\ UNCHANGED <<locks, orders, call, crashed, overtaken, since>>
        /\ now' \in Nat /\ now <= now'
    BY <1>0, <1>6 DEF Aside
  <2> QED
    BY <1>0, <1>6, <2>1, MapsStay
<1> QED
  BY <1>c, <1>1, <1>2, <1>3, <1>4, <1>5, <1>6, StepCases

\* The mock writes to the map of a user that has none only in the two windows of the
\* locking: while another call of the user is between storing the mutex and storing the
\* map in setOrders (orders-container.go:21, :30), or, deleted by release between the
\* Load and the Lock of handleReport (:79, :84), in a call that has lasted longer than
\* the duration that the watcher respects.
THEOREM CrashesNeedWindow == Users # {} /\ Ids # {} /\ Spec => []CrashNeedsWindow
<1> SUFFICES ASSUME Users # {}, Ids # {} PROVE Spec => []CrashNeedsWindow
  OBVIOUS
<1> DEFINE IInv == Inv /\ Shapes /\ DeletesForWatcher /\ KeptInv /\ MapsInv
<1>1. Init => IInv
  BY InitInv, ShapesStart, KeptStart, MapsStart DEF Init
<1>2. IInv /\ [Next]_vars => IInv'
  <2>1. [Next]_vars => [WatcherNext]_watcherVars
    BY NextWatches DEF vars
  <2> QED
    BY <2>1, NextInv, NextKeeps, NextKept, NextMaps
<1>3. IInv => CrashNeedsWindow
  BY DEF MapsInv
<1> HIDE DEF IInv
<1> QED
  BY <1>1, <1>2, <1>3, PTL DEF Spec
=============================================================================
