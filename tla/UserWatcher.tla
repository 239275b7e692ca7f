----------------------------- MODULE UserWatcher -----------------------------
(***************************************************************************)
(* UserWatcher (user-watcher.go): it notes when a user was touched last,   *)
(* and a goroutine woken by a ticker unsubscribes the users whose note is  *)
(* too old.                                                                *)
(*                                                                         *)
(* Time passes in ticks, TicksPerSecond to the second: the notes are whole *)
(* seconds (time.Now().Unix()), the ticker and the program are not.        *)
(* Unsubscribe of the trader takes time, and release holds the mutex mx    *)
(* all the while, so that Touch waits.  Touch itself is one step, taken    *)
(* when its lock is granted and the clock read.                            *)
(***************************************************************************)
EXTENDS Integers, ServedUsers

CONSTANTS
    TicksPerSecond,
    Duration,    \* of the watcher, in ticks
    MaxTime,     \* bound on the clock
    Lag,         \* how long release may take, from the tick of the ticker on
    Never

ASSUME TimeAssumption ==
    /\ TicksPerSecond \in Nat \ {0}
    /\ Duration \in Nat \ {0}
    /\ {MaxTime, Lag} \subseteq Nat
    /\ Never \notin Int

VARIABLES
    now,
    users,     \* the watcher's notes, in seconds
    ticker,    \* next: when the ticker fires; full: its one-place channel is
    release,   \* the goroutine; obsolete is obsoleteTime
    due,       \* when release had to start, 0 while it need not
    touched    \* history: when a user was touched last, until it is unsubscribed

watcherVars == <<now, users, ticker, release, due, touched>>

Seconds(ticks) == ticks \div TicksPerSecond

WatcherTypeOK ==
    /\ now \in 0 .. MaxTime
    /\ users \in [Users -> Nat \cup {Never}]
    /\ ticker \in [next : Nat, full : BOOLEAN]
    /\ release \in [pc : {"wait", "lock", "loop", "unsubscribe"}, obsolete : Int, user : Users]
    /\ due \in Nat
    /\ touched \in [Users -> Nat \cup {Never}]

\* Between two runs.
Sleeping == [pc |-> "wait", obsolete |-> 0, user |-> CHOOSE u \in Users : TRUE]

WatcherInit ==
    /\ now \in 0 .. TicksPerSecond - 1
    /\ users = [u \in Users |-> Never]
    /\ ticker = [next |-> now + Duration, full |-> FALSE]
    /\ release = Sleeping
    /\ due = 0
    /\ touched = [u \in Users |-> Never]

MutantLocked == release.pc = "loop"
Locked == release.pc \in {"loop", "unsubscribe"}
Rests == release.pc = "wait" /\ ~ticker.full

\* A tick finds the channel empty, or is lost.
Fire ==
    /\ now = ticker.next
    /\ ticker' = [next |-> ticker.next + Duration, full |-> TRUE]
    /\ due' = IF Rests THEN now ELSE due
    /\ UNCHANGED <<now, users, release, touched>>

\* release() starts: obsoleteTime is computed before the mutex is locked.
ObsoleteTime == Seconds(now) - Seconds(Duration)

Wake ==
    /\ release.pc = "wait"
    /\ ticker.full
    /\ ticker' = [ticker EXCEPT !.full = FALSE]
    /\ release' = [release EXCEPT !.pc = "lock", !.obsolete = ObsoleteTime]
    /\ UNCHANGED <<now, users, due, touched>>

Lock ==
    /\ release.pc = "lock"
    /\ release' = [release EXCEPT !.pc = "loop"]
    /\ UNCHANGED <<now, users, ticker, due, touched>>

MutantIsObsolete(u) == users[u] # Never /\ users[u] <= release.obsolete
IsObsolete(u) == users[u] # Never /\ users[u] < release.obsolete

\* The loop comes to a user whose note is too old; the others it passes over.
Visit(u) ==
    /\ release.pc = "loop"
    /\ IsObsolete(u)
    /\ release' = [release EXCEPT !.pc = "unsubscribe", !.user = u]
    /\ UNCHANGED <<now, users, ticker, due, touched>>

\* Unsubscribe has returned.
Unsubscribed ==
    /\ release.pc = "unsubscribe"
    /\ users' = [users EXCEPT ![release.user] = Never]
    /\ touched' = [touched EXCEPT ![release.user] = Never]
    /\ release' = [release EXCEPT !.pc = "loop", !.user = Sleeping.user]
    /\ UNCHANGED <<now, ticker, due>>

Unlock ==
    /\ release.pc = "loop"
    /\ \A u \in Users : ~IsObsolete(u)
    /\ release' = Sleeping
    /\ due' = IF ticker.full THEN now ELSE 0
    /\ UNCHANGED <<now, users, ticker, touched>>

Touch(u) ==
    /\ ~Locked
    /\ users' = [users EXCEPT ![u] = Seconds(now)]
    /\ touched' = [touched EXCEPT ![u] = now]
    /\ UNCHANGED <<now, ticker, release, due>>

\* The ticker is never late, and release no more than Lag.
Advance ==
    /\ now < MaxTime
    /\ now < ticker.next
    /\ Rests \/ now < due + Lag
    /\ now' = now + 1
    /\ UNCHANGED <<users, ticker, release, due, touched>>

Releasing == Wake \/ Lock \/ (\E u \in Users : Visit(u)) \/ Unlock

WatcherNext ==
    \/ Advance \/ Fire \/ Releasing \/ Unsubscribed
    \/ \E u \in Users : Touch(u)

WatcherSpec == WatcherInit /\ [][WatcherNext]_watcherVars
-----------------------------------------------------------------------------
(***************************************************************************)
(* What the watcher promises.                                              *)
(***************************************************************************)
\* The part of Duration that obsoleteTime respects: int64(Seconds()) drops the
\* fraction of a second.
Kept == TicksPerSecond * Seconds(Duration)

\* The user that release is unsubscribing was touched more than Kept ago: the
\* notes lose the fraction of a second, obsoleteTime may be computed long before
\* the lock is got, and the user may be touched in between, but not later.
NotReleasedEarly ==
    release.pc = "unsubscribe" => now - touched[release.user] > Kept

\* The longest that a user not touched stays: Kept, the second that the notes
\* lose, the time to the next tick or, if it was already there, to the end of the
\* run before, and what release takes.
LongestWait == IF Lag > Duration THEN Lag ELSE Duration
Longest == Kept + TicksPerSecond - 1 + LongestWait + Lag

Leases == INSTANCE Lease WITH
    Clients <- Users, Term <- Kept, Limit <- Longest, Nobody <- Never,
    time <- now, seen <- touched

\* The watcher implements a lease: it releases nobody who was touched lately, and
\* everybody else in time, whatever is touched while release waits for the mutex
\* or holds it.
ImplementsLease == Leases!LeaseSpec
=============================================================================
