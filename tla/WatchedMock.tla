----------------------------- MODULE WatchedMock -----------------------------
(***************************************************************************)
(* A program that serves users with a MockTrader and a UserWatcher on it:  *)
(* a goroutine of the program touches the user and then makes its call;    *)
(* the watcher's goroutine unsubscribes the users who stay away.  The      *)
(* program itself is not part of the repository.                           *)
(***************************************************************************)
EXTENDS UserWatcher, MockTrader

CONSTANTS
    Callers,
    Releaser,   \* the watcher's goroutine
    Expected,   \* expectations that the program adds
    MaxCall     \* bound: how long a call may take

ASSUME CallersAssumption ==
    /\ Releaser \notin Callers
    /\ Goroutines = Callers \cup {Releaser}
    /\ Expected \subseteq Expectations
    /\ MaxCall \in Nat

VARIABLES
    since,   \* history: when a caller's call began
    late     \* history: users a call of whom has lasted longer than Kept, until they
             \* are touched and no such call is under way

callVars == <<since, late>>
vars == <<watcherVars, mockVars, callVars>>

Init == WatcherInit /\ MockInit /\ since = [c \in Callers |-> 0] /\ late = {}

\* At time t a call for user u has been under way for longer than Kept.
Overlong(u, t) ==
    \E c \in Callers : call[c].pc # "idle" /\ call[c].user = u /\ t - since[c] > Kept

\* The program touches the user and makes the call.  The time in force of an order only
\* matters where the mock plays the exchange.
Serve(c, op, u, i, t) ==
    /\ t # "GTC" => op = "NewOrder" /\ u \in allowAutoTrade
    /\ Touch(u)
    /\ Begin(c, op, u, i, t)
    /\ since' = [since EXCEPT ![c] = IF call'[c].pc = "idle" THEN 0 ELSE now]
    /\ late' = IF Overlong(u, now) THEN late ELSE late \ {u}

CallerStep(c) ==
    /\ Step(c)
    /\ since' = [since EXCEPT ![c] = IF call'[c].pc = "idle" THEN 0 ELSE @]
    /\ UNCHANGED <<watcherVars, late>>

\* release calls Unsubscribe of the trader and waits for it.
StartRelease(u) ==
    /\ Visit(u)
    /\ Begin(Releaser, "Unsubscribe", u, CHOOSE i \in Ids : TRUE, "GTC")
ReleaserStep == Step(Releaser) /\ UNCHANGED watcherVars
EndRelease == call[Releaser].pc = "idle" /\ Unsubscribed /\ UNCHANGED mockVars

WatcherStep ==
    /\ \/ \E u \in Users : StartRelease(u)
       \/ ReleaserStep
       \/ EndRelease
       \/ (Fire \/ Wake \/ Lock \/ Unlock) /\ UNCHANGED mockVars
    /\ UNCHANGED callVars

Expect(u, e) == addExpectation(u, e) /\ UNCHANGED <<watcherVars, callVars>>

PassTime ==
    /\ Advance
    /\ \A c \in Callers : call[c].pc # "idle" => now < since[c] + MaxCall
    /\ late' = late \cup {u \in Users : Overlong(u, now + 1)}
    /\ UNCHANGED <<mockVars, since>>

Next ==
    /\ ~crashed
    /\ \/ \E c \in Callers, op \in Operations \ {"Unsubscribe"}, u \in Users, i \in Ids,
             t \in TimesInForce : Serve(c, op, u, i, t)
       \/ \E c \in Callers : CallerStep(c)
       \/ WatcherStep
       \/ \E u \in Users \ allowAutoTrade, e \in Expected : Expect(u, e)
       \/ PassTime

Spec == Init /\ [][Next]_vars
-----------------------------------------------------------------------------
TypeOK == WatcherTypeOK /\ MockTypeOK /\ since \in [Callers -> Nat] /\ late \subseteq Users

\* A user whose orders the trader keeps because the program called for it is watched:
\* nobody is kept forever.  Only a call that lasts longer than Kept may bring its user
\* back after release has forgotten it.
KeptAreWatched ==
    \A u \in Users \ (allowAutoTrade \cup late) : u \in locks => users[u] # Never

\* The mock writes to a nil map (orders-container.go:91) only in one of two windows: a
\* report is handled after another call of its user has stored the mutex in setOrders
\* and before it stores the map; or release deletes the user between the Load and the
\* Lock of handleReport, in a call that by then has lasted longer than Kept.
CrashNeedsWindow ==
    crashed => \E c \in Callers :
        /\ call[c].pc = "apply"
        /\ \/ \E d \in Callers : call[d].pc = "store" /\ call[d].user = call[c].user
           \/ c \in overtaken /\ now - since[c] > Kept

\* The orders of a user touched within Kept do not disappear, whatever release
\* was waiting for when it was touched.
ActiveUsersKeepOrders ==
    [][\A u \in Users :
          orders[u] # NoOrders /\ orders'[u] = NoOrders =>
              now - touched[u] > Kept]_vars
=============================================================================
