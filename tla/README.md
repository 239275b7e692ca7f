# A TLA+ development of code-piece

`code-piece` (Go, package `pkg/trading`) is a client of trading gates. A program
calls it to place, cancel and replace orders and to read a user's orders; the
package talks to the gates over ZeroMQ and can combine several gates into one
trader. This directory models its concurrency, checks it with TLC on small
instances, and proves with TLAPS what can be proved for instances of any size.

    tlc -config MCSnapshotCalls_reads.cfg MCSnapshotCalls.tla
    tlapm SnapshotCallsProofs.tla

`PROJECT.json` lists the runs, what each definition translates (file and lines),
the mutations every property must catch, the disagreements found, the hazards of
the code and the theorems.

## 1. The system

| part | state | operations | speaks to |
|---|---|---|---|
| `zmqTrader`, snapshots (`zmq-trader.go`) | `acceptedUsers`, `pendingSnap` under `mx`, the cache | `GetSnapshot`, `GetOrder`, `Unsubscribe`, `requireSnapshot`; `input` handling snapshots and reports | callers' goroutines, the xsub connection, `ordersContainer` |
| `zmqTrader`, orders | `pendingFilled`, `pendingCancel` under `mx`; a `requestCall` per call (`call.go`) | `NewOrder`, `CancelOrder`, `ReplaceOrder`; `input` handling reports and rejects | callers, the push connection, the cache |
| `ordersContainer` | `users` (a plain map of maps), `locks` (a `sync.Map` of mutexes) | `setOrders`, `hasOrders`, `getOrders`, `getOrder`, `handleReport`, `delete` | called by the `input` goroutine, by callers and by `Unsubscribe` |
| `clusterTrader` | ring `enabled` under `mx`, `assigned` (a `sync.Map`), `isReady`, `ready` | the operations of a Trader by way of `getGate`; `updateEnabled`, `handleReady`, `moveUsersForAvailableGates` | its gates, through their `Ready` channels and operations |
| readiness of a gate (`zmq-monitor.go`, `zmq-push.go`, `zmq-xsub.go`, `canary.go`) | a flag and a channel of two places per connection, `isCanaryTrade`, `isReady` | `setReady`, the socket monitors, `canaryTest`, `canaryTestLoop`, `zmqTrader.handleReady` | ZeroMQ events and messages, `NewOrder` for the canary |
| transport (`zmq-push.go`, `zmq-xsub.go`) | two sockets, the bounded `reports` channel | `Send*`, `Subscribe`, `UnSubscribe`, `readMessages` | the gate, `input` |
| conversions (`messages.go`, `requests.go`, the enumerations, `error.go`, `clientorderid.go`) | none | JSON to and from structures, reject codes to errors | transport |
| `UserWatcher` | the time of each user's last use under a mutex, a ticker | `Touch`, `release` | calls `Unsubscribe` of a Trader |
| `MockTrader` | expectations under a mutex, the users of its fixtures, an `ordersContainer`, a flag and a channel | the operations of a Trader, `addExpectation`, `SetReady`, `Ready` | its callers |
| `NewTrader` (`dsn.go`) | none of its own | parses a connection string, makes connections, gates and a cluster | connections, `StartNewClient`, `newClusterTrader`, `MockTrader` |
| `Trader` (`trader.go`) | none | the interface | - |

What is hard here is concurrency. One goroutine (`input`) handles everything a
gate says; every caller, every Unsubscribe, every mover and every canary order is
a goroutine of its own; the state they share is guarded by several mutexes, by
`sync.Map`s, by atomic flags or by nothing. Messages may be lost, calls may time
out and be tried again, connections come and go.

What makes each part correct:

- *snapshots*: a call that waits is found by the snapshot; a cached book is the
  gate's book up to what is under way and never goes back; an unsubscribed user
  leaves nothing behind; every call returns;
- *orders*: an answer belongs to the call it is given to; a result is complete
  and already in the cache; a refusal means that nothing was placed, or another
  request with that id was refused; every call returns;
- *container*: goroutines of one user exclude one another; a user that has a
  mutex has orders; nothing writes to a map that is gone;
- *cluster*: the ring is the set of ready gates once the news has been heard; a
  call goes to its user's gate; users are spread, moved and forgotten as asked;
- *readiness*: the published flag follows its inputs and in the end the truth;
- *transport and conversions*: what is reported is what was asked for, refusals find
  their calls, everything published is handed over once and in order;
- *watcher*: nobody used lately is unsubscribed, everybody else is, in time;
- *mock*: orders come and go as the exchange it plays would have it, whoever calls;
- *start*: a trader that is returned is the one the string describes.

## 2. Modules

| module | models | proofs | instances |
|---|---|---|---|
| `SnapshotCalls` | the snapshot path of `zmqTrader` | `SnapshotCallsProofs` | `MCSnapshotCalls` |
| `OrderCalls` | the order operations of `zmqTrader` | `OrderCallsProofs` | `MCOrderCalls` |
| `OrdersContainer` | the locking of `ordersContainer` | `OrdersContainerProofs` | `MCOrdersContainer` |
| `ClusterTrader` | `clusterTrader` over abstract gates | `ClusterTraderProofs` | `MCClusterTrader` |
| `GateReady` | how one gate's readiness comes about | `GateReadyProofs` | `MCGateReady` |
| `OrderCodec` | the conversions, as operators | `TransportProofs` | by `MCTransport` |
| `Transport` | requests to the gate, messages back to `input` | `TransportProofs` | `MCTransport` |
| `Feed` | abstract: one unbounded queue | refined in `TransportProofs` | by `MCTransport` |
| `UserWatcher` | the watcher and its clock | `WatchedMockProofs` | by `MCWatchedMock` |
| `Lease` | abstract: leases of users | refined in `WatchedMockProofs` | by `MCWatchedMock` |
| `MockTrader` | the operations of the mock | `WatchedMockProofs` | by `MCWatchedMock` |
| `WatchedMock` | callers, watcher and mock together | `WatchedMockProofs` | `MCWatchedMock` |
| `ServedUsers` | the users that watcher and mock share | - | - |
| `Startup` | `NewTrader`, and readiness of the mock | `StartupProofs` | `MCStartup` |

A step of a model is the code between two accesses to shared state, or a whole
critical section of a mutex. Where a goroutine reads shared data without the lock
that its writers hold, the read is a step of its own. Definitions whose names end
the same as the code's do the same; the names that begin with `Mutant` are
deliberate mistakes used to see that a property can fail.

**SnapshotCalls.** A call is at one of the lines of `requireSnapshot` (`pc`).
`Register`, `Unregister` and `Woken` are the critical sections of `mx`. The reader
handles a snapshot in three steps, since `hasOrders` is true as soon as the mutex
is stored and before the orders are written (`StoreLock`, `WriteOrders`,
`Notify`). A book is the set of the changes it has seen, numbered by user, so that
"late", "missing" and "undone" can be told. Subscriptions travel to the gate and
snapshots and reports back, each way in order; `Faults` lets sends fail and
messages be lost, `Deadlines` lets contexts expire.

**OrderCalls.** One user with a loaded snapshot. Callers go through lookup,
registration, send and wait; the reader applies a report to the cache, answers the
calls it belongs to under `mx`, and signals them through a channel of one place. A
caller reads the fields of its call after the wake-up and without the mutex
(`Collect`). The gate accepts, fills, cancels, replaces and rejects as it likes,
in the order of the requests. An order is its terms and what is left of it.

**OrdersContainer.** Here only the presence of a user's orders counts, and the
identity of mutexes: `delete` takes a mutex out of `locks` while others wait for
it, and the next snapshot makes a new one.

**ClusterTrader.** Gates change when they like and announce it on bounded channels
that drop. A forwarder per gate passes the news on; `handleReady` recounts, refills
the ring, swaps and announces its own readiness and starts a mover, which finds the users of
the moment it runs and perhaps some that are stored while it goes on (`StartRange`).
Every call of `IsReady` is a step, so that the two loops of `updateEnabled` may disagree. Calls,
Unsubscribes and movers interleave at every access to `assigned`.

**GateReady.** The two connections, with the swap and the send of `setReady` as two
steps; the canary goroutines with call, compare, store and send as four; and
`handleReady`, which reads its three inputs one after the other. What the gate
publishes here is the `gateReady` of `ClusterTrader`; the channel between the two
is modelled there (`GateChange`, `GateAnnounce`).

**OrderCodec and Transport.** `OrderCodec` has a pair of tables for each
enumeration, what is written and what is read, and an operator for each conversion,
with the errors and panics of each: an id is an array of bytes filled up with zeros,
an order number may be no number, a status may be unknown. A quantity is text in a
request and a number in a message, so that it comes back written as `FormatUint`
writes it; the messages have no stop price and no expire time, and a replace does
not even ask for them or for PostOnly. `Transport` sends
requests through these to a gate that answers each in all the ways the protocol has,
and the reader turns what comes back into payloads and puts them into the bounded
channel, from which `input` takes them. Read and put are two steps. What is lost on
the way is modelled in `SnapshotCalls`.

**UserWatcher, MockTrader and WatchedMock.** The watcher's clock has several ticks
to the second, since the code truncates; `release` computes its limit before it gets
the mutex (`Wake`, `Lock`) and holds the mutex while it unsubscribes (`Visit`,
`Unsubscribed`). A call of the mock is at one of its accesses to shared state.
`WatchedMock` extends both: a caller touches the user and then makes its call, and
the `Unsubscribe` that `release` waits for takes its steps in the mock
(`StartRelease`, `ReleaserStep`, `EndRelease`) among those of the callers. An
operation that finds no orders for an expectation runs `setOrders` in two steps
(`Mutex`, `Store`) after `hasOrders` (`Inited`), so that two calls may both run it. The
program around the two is not in the repository, and nothing is assumed of it: calls
of one user overlap and take as long as they like, up to the bound `MaxCall`. Which
calls last longer than the watcher waits is kept in `late` for the properties.

**Startup.** `NewTrader` goes from gate to gate and from connection to connection;
every step may fail and return, and connections live and change their flags from the
moment they are made. `url.Parse` is represented by what it makes of a word.

Two abstract specifications say what a component promises. `Feed` is a queue:
publications are handed over once, in order, and only those are dropped that say
nothing to a trader; socket, reader and bounded channel implement it (`Waiting` is
the refinement mapping: the channel, what the reader holds, and the socket, one
after the other). `Lease` gives a user a lease that a touch renews, that is not
revoked before `Term` and never gets older than `Limit`; the watcher implements it,
alone and together with callers and trader, with `Kept` and `Longest` for the two.

The other modules stand side by side: `SnapshotCalls`
supplies what `OrderCalls` starts from (a loaded cache), `OrdersContainer` details
the locking of the cache both use, `ClusterTrader` uses gates whose flag `GateReady`
explains, and `Transport` delivers the messages that `SnapshotCalls` and
`OrderCalls` begin with.

## 3. Runs

Bounds are CONSTANTS of the modules, named in their headers: the goroutines of
each kind, changes of books and gates, fills, capacities of channels and messages
in a socket. Two or three goroutines and one or two users are enough for the
races, which are all between two actors over one user; where a third matters (a
second call that relies on the first one's subscription while a third reads, a
cancel beside a replace and a new order) it is there. The code's channels are kept at their capacity
of 2 or taken as 1; `statusChanged`, 10 in the code, is 1, which only makes its
senders wait earlier. Ids have two bytes instead of 32, which leaves an empty, a
filled-up and a full one; the `reports` channel holds 1 value instead of 1000, so
that it is full when a message waits; `MaxUint` is 3, which leaves a quantity
in between, and one at the limit that is written with a leading zero; the clock of the watcher runs for seven
half-seconds with a duration of two, which is long enough for a touch, a tick, a
release and a second touch. Symmetry is used only for safety. Deadlock is not checked:
the callers' work is finite and the programs may come to rest, and what must not
block is stated as liveness.

The runs listed in `PROJECT.json` that pass:

| run | instance | shows |
|---|---|---|
| `snapshot_reads` | three calls, two users, two changes of each book; reliable messages, no deadlines | `PendingSnapExact`: a snapshot finds the calls that wait for it; `CacheTracksFeed`: cached books are the gate's up to reports under way; `SubscriberSeesStart`: a call that subscribed returns the orders its user had |
| `snapshot_faults` | two calls (one a lookup), an Unsubscribe, a book of one change that sees another; losses, failed sends and deadlines | `UnlockedOnlyByUnsubscribe`: only an overtaken call is told that its snapshot is gone; `CacheNeverGoesBack`: the cache takes back no change; `PendingDrained`: nobody stays in `pendingSnap` for ever |
| `order_place` | a NewOrder filled in two trades and a CancelOrder of it, with failed sends and deadlines that need not come; or two NewOrder with one client order id | `CompleteReply`: an IOC order awaited to completion has its final report and all trades; `CancelMeansGone`: after a successful cancel there is no order; `PendingExact`: pending maps are exact; `RejectMeansNotPlaced`: "duplicate" and "reject" mean that nothing was placed, unless the caller was told of the rejection of another request with its id (a cancel, a replace, or a NewOrder whose caller had gone); `EveryCallReturns`, without the help of a deadline |
| `order_mixed` | a NewOrder, a CancelOrder and a ReplaceOrder over two ids and two terms; failed sends, deadlines | `ReadYourWrites`: what an operation returned is already in the cache; `CacheTracksBook`: the cache ends as the gate's book; `CancelRejectIsOwn`: refusals are one's own |
| `container_locking` | two users, the reader's goroutine, a caller, two deletions | `LockedHasOrders`, `UserExclusive`, `CrashNeedsOvertaking`: what the two-level locking guarantees in spite of deletions |
| `cluster_news` | two gates, three changes, no calls | `NoLostReadiness`: no change of a gate is lost for the ring; `Settles`: ring and readiness come to rest |
| `cluster_routes` | two calls and an Unsubscribe of one user, two gates, one change, failing moves | `CallUsesAssigned`: calls use the gate of their user; `RoundRobin`: gates are taken in turn |
| `gate_follows` | two changes of links or gate, a canary goroutine beside the loop | `ReadyFollowsInputs`: no interleaving leaves a stale readiness; `ReadySettles`: in the end it tells whether the gate can be traded with |
| `transport_feed` | one request of any kind, plain or with any other value in one field; up to three messages of the gate on it, two users | `OrdersAsRequested`: orders told of are those asked for, in all that messages tell of them; `RefusalsFindTheirCall`: refusals come back under the ids and the user of their call; `AnswersUnderstood`: no answer is lost for want of understanding and none makes the reader panic; `ImplementsFeed`: the way back is one queue |
| `watched_released` | two callers of one user, who has fixtures or may get an expectation; the watcher; calls of up to a second and a half, which is longer than the watcher waits, overlapping as they like | `NotReleasedEarly`, `ImplementsLease`: when users are released; `ActiveUsersKeepOrders`: orders of active users stay; `KeptAreWatched`: whoever has orders is watched, unless a call was longer than that; `IocNeverRests`: no IOC order stays; `CrashNeedsWindow`: a write to a nil map needs another call within `setOrders`, or a release in the middle of a call longer than that |
| `startup_created` | strings of up to three words, each step may fail, flags change twice | `TraderAsWritten`: the gates of the trader are those of the string, with their ports, keys and token |

One listed run finds a disagreement between the code and its tests (`findings`
quotes the lines): in `snapshot_lost_wakeup` the property `EveryCallReturns` fails,
since a call that looked at the cache just before the snapshot registers just after,
and is never woken.

The other configurations in this directory are kept for the reader and are not
among the listed runs. `MCSnapshotCalls_return.cfg` passes: with reliable messages
and without deadlines a call that subscribes returns (`SubscriberReturns`), so that
the lost wake-up only concerns calls that rely on another one's subscription. Each
of the rest has TLC show one more behaviour that a comment or a test speaks against:

| configuration | property | what happens |
|---|---|---|
| `MCSnapshotCalls_empty_read` | `AnswersShowOldOrders` | a call between the store of the mutex and the write of the orders reads none |
| `MCSnapshotCalls_resurrect` | `UnsubscribedIsFlushed` | a snapshot being handled is cached after Unsubscribe |
| `MCOrderCalls_torn` | `FilledShowsAllTrades` | the report returned is Filled and its trade is missing |
| `MCOrderCalls_replaced` | `CancelEndsOrder` | a cancel succeeds because the order was replaced |
| `MCOrderCalls_reused` | `SuccessMeansPlaced` | a late report answers the next order with that id |
| `MCOrdersContainer_nil_map` | `ReportNeedsSnapshot` | a report that waited for the mutex writes to the user's map after its deletion (`orders-container.go:91`) |
| `MCClusterTrader_nil_ring` | `UpdateNeverPanics` | the two loops of `updateEnabled` disagree and the ring is nil (`cluster-trader.go:167`) |
| `MCClusterTrader_self_move` | `AssignedIsSubscribed` | a user is moved to the gate it is at and then unsubscribed there (`cluster-trader.go:146`) |
| `MCClusterTrader_parallel_moves` | `MovesOneByOne` | users are not moved one by one |
| `MCClusterTrader_resurrected` | `UnsubscribedIsForgotten` | a mover brings back an unsubscribed user |
| `MCClusterTrader_stranded` | `UsersLeaveDeadGates` | a user stays at a gate that went away |
| `MCGateReady_stale` | `ClosedIsNotReady` | a message left in the socket makes a closed connection ready |
| `MCGateReady_panics` | `ReadyNeverPanics` | three changes before `handleReady` is scheduled |
| `MCTransport_trades` | `TradesKeepNumbers` | a report read from a message has no trade number (`messages.go:133`; a test of `zmqTrader` expects one, `zmq-trader_internal_test.go:860`) |
| `MCStartup_left_behind` | `StartupSurvives` | `NewTrader` fails and leaves connections open (`dsn.go:92-94`), whose flags change a third time (`zmq-xsub.go:171`) |

What the passing runs assume or exempt is needed, as one changed line of their
configurations shows:

| configuration | change | property | what happens |
|---|---|---|---|
| `MCWatchedMock_released` | check `NeverCrashes` | `NeverCrashes` | in two calls of a user without orders one has stored the mutex and not yet the map when the other writes to it (`mock-trader.go:105`); or a release takes the map from under a call longer than `Kept`: both windows of `CrashNeedsWindow` come up in this instance |
| `MCOrderCalls_place` | check `RefusedIsNotPlaced` | `RefusedIsNotPlaced` | a cancel of the order overtakes it and is rejected; the NewOrder is told so, returns, and is then placed (`zmq-trader.go:352`) |
| `MCStartup_created` | `Setters = {s1, s2}`, check `MockNewsIsCurrent` | `MockNewsIsCurrent` | two `SetReady` swap the flag in one order and send in the other (`mock-trader.go:206`); with one setter it holds |
| `MCClusterTrader_nil_ring` | check `EnabledAreGates` | `EnabledAreGates` | a gate that goes down between the two loops leaves a nil entry in the ring |

`StartupSurvives` holds in `MCStartup_created`, where no flag changes more than twice;
`TypeOK` of `Transport` and of `WatchedMock` hold in their listed instances. They are
not among the listed properties.

## 4. Fairness

`FairSpec` of a module adds weak fairness, per goroutine, for what the Go scheduler
guarantees: a goroutine that can run runs. In `SnapshotCalls` deadlines come in the
end where `Deadlines` says there are any; in `OrderCalls` none has to come, so that
its `EveryCallReturns` owes nothing to them. A gate answers what it is sent (`GateStep` of `SnapshotCalls`
and `OrderCalls`) unless a message is lost, and sends heartbeats while it is
connected (`GateMessage` of `GateReady`). No fairness is assumed of callers that
have not started, of the network's and the gates' changes (which are finite in
number) or of faults. In `GateReady` the `select` of `handleReady` is fair as a
whole and not for each case, which is enough because changes are finite. In
`Transport` the reader runs (`Read` or `Put`) and `input` runs; nobody has to make a
request and the gate may be silent. `WatchedMock` needs no fairness: that time passes
only so far before the ticker fires and `release` is done (`Lag`) is a guard of its
clock. Where a
panic ends the program the liveness properties make an exception for it, and
`MCClusterTrader_nil_ring.cfg` and `MCGateReady_panics.cfg` show the panic.

## 5. Proofs

For every value of the constants, under the named assumptions in the modules
(disjoint sets of goroutines, natural bounds, request ids that are no order ids):

| theorem | says | argument |
|---|---|---|
| `SnapshotCallsProofs!TypeCorrect` | types | each step keeps them |
| `SnapshotCallsProofs!PendingSnapIsExact` | `PendingSnapExact` | only `Register` and `Unregister` cross the border of the registered states, and each changes the map alike |
| `SnapshotCallsProofs!UnlockedNeedsUnsubscribe` | `UnlockedOnlyByUnsubscribe` | strengthened by `ServedInv`: from the moment a snapshot is stored, its user is locked or was unsubscribed, and a call is signalled only from then on |
| `SnapshotCallsProofs!CacheFollowsFeed` | `CacheTracksFeed`, if nobody unsubscribes and nothing is lost (`Faithful`) | `FeedInv`: a snapshot that is queued or in hand is followed by exactly the changes that it lacks, no change is told twice (`After`: the changes told after a place of the queue), and a cached book lacks exactly what is still to come |
| `SnapshotCallsProofs!CacheOnlyGrows` | `CacheNeverGoesBack`, under the same condition | from `FeedInv`: a second snapshot reflects all that has been applied before it |
| `SnapshotCallsProofs!SubscribersSeeStart` | `SubscriberSeesStart`, under the same condition and without deadlines | `OneSubscription`: a user has one subscription or snapshot under way; `AnswerInv`: the snapshot under way is no older than the question of any call that waits for it, and from the wake-up on the cache has what it told |
| `OrderCallsProofs!TypeCorrect` | types | each step; `RestTyped`: what is cached or in the book has something left |
| `OrderCallsProofs!PendingIsExact` | `PendingExact` | `RegistrationInv`: the types of the calls together with the property; the steps of reader and gate do not touch the maps |
| `OrderCallsProofs!AnswersAreCached` | `ReadYourWrites` | reports carry the gate's numbers and wait in their order (`Numbered`), whatever has been written into a call has been applied, and nobody is woken without a report or an error (`Answered`) |
| `OrderCallsProofs!CanceledIsGone` | `CancelMeansGone` | `Endings`: a report that ends an order, on its way or returned, is true until its id is born again |
| `OrderCallsProofs!CacheEndsAsBook` | `CacheTracksBook` | `BookInv`: the last report about an id, queued or in hand, tells how the gate has the order now (`Tells`: so the gate's steps report, an IOC order's many reports included); an id without one is cached as it is at the gate |
| `OrderCallsProofs!RefusedItself` | `CancelRejectIsOwn`, if no client order id is asked for twice | `RefusalInv`: requests carry ids that tell the calls apart, and rejects and errors are of requests that were refused |
| `OrderCallsProofs!RefusalIsExplained` | `RejectMeansNotPlaced` | `BlameInv`: every reject and every refused call has a rejected request behind it (`Blames`), which for a call whose order is at the gate is another one |
| `OrderCallsProofs!CompletedIsWhole` | `CompleteReply`, if `IdsKept`: no id is used again, or only by NewOrder side by side and without replaces | `Gapless`: the reports under way and applied have every number once; `AloneInv`: reports under an id are of the one order with it, its trades come before its end, and a call has been given every one of them that was applied since it registered |
| `OrdersContainerProofs!TypeCorrect` | types and the shape of an operation | each step |
| `OrdersContainerProofs!UsersAreExclusive` | `UserExclusive` | not inductive alone: `CurrentMutex` (what somebody loaded is still the user's mutex unless a deletion came between) and `MutexExclusive` (what RWMutex guarantees) |
| `OrdersContainerProofs!LockedUsersHaveOrders` | `LockedHasOrders` | on top of that, by the order of the steps of `setOrders` and `delete` |
| `OrdersContainerProofs!CrashesNeedOvertaking` | `CrashNeedsOvertaking` | from the two before: a goroutine that was not overtaken holds the user's own mutex, and then there are orders |
| `ClusterTraderProofs!CallsUseAssigned` | `CallUsesAssigned` | `RoutingInv`: a call past `getNextEnabled` has a gate, so `LoadOrStore` always leaves call and assignment alike |
| `ClusterTraderProofs!NewsIsHeard` | `NoLostReadiness` | `NewsInv`: either there is news of a change on its way, or what `updateEnabled` has counted and filled in is right for the gates it has looked at (`Filled`: the places of the ring written so far hold the ready gates seen so far) |
| `ClusterTraderProofs!TypeCorrect` | types, and the capacity of the channels | each step |
| `ClusterTraderProofs!GatesTakeTurns` | `RoundRobin` | `TurnInv`: no gate is in the ring twice, and the places the present turn has passed have been picked once more than those ahead |
| `GateReadyProofs!TypeCorrect` | types, and the capacity of the channels | each step |
| `GateReadyProofs!ReadinessFollows` | `ReadyFollowsInputs` | `EvaluationExact`: while there is no news, what `handleReady` has read so far still holds, since whoever changes an input leaves news that only its `select` takes |
| `TransportProofs!TraderHearsItsOrders` | `OrdersAsRequested` | `IInv`: all that is on its way to the gate was asked for in a request that was sent, all that is on its way back is one of the gate's answers to such; and lemmas that reading undoes writing, for tables, ids, orders, reports and refusals |
| `TransportProofs!RefusalsFindCalls` | `RefusalsFindTheirCall` | as before |
| `TransportProofs!NoAnswerIsLost` | `AnswersUnderstood` | as before |
| `TransportProofs!TransportQueues` | `FeedSafe`, the safety part of `ImplementsFeed` | a step at one of the three places does to their concatenation what one of the queue's steps does, or nothing |
| `WatchedMockProofs!NeverReleasedEarly` | `NotReleasedEarly` | `Noted`: notes are the seconds of the last touch, and `obsoleteTime` is no later than now permits |
| `WatchedMockProofs!WatcherLeases` | `ImplementsLease` | `Fresh`: how old a note can be, by where `release` and the ticker are; from it, that time may pass only while all leases are short of `Longest` |
| `WatchedMockProofs!NobodyReleasedEarly`, `WatchedUsersLease` | the same of the composition | a step of the composition is a step of the watcher, or none |
| `WatchedMockProofs!ActiveKeepOrders` | `ActiveUsersKeepOrders` | only the watcher's goroutine is in a deletion, and for the user it is at (`DeletesForWatcher`) |
| `WatchedMockProofs!IocOrdersPass` | `IocNeverRests` | `FixtureInv`: users with fixtures never have expectations, and an IOC order that rests is one that some call still has a report for that drops it (`Owes`) |
| `WatchedMockProofs!KeptUsersAreWatched` | `KeptAreWatched` | `KeptInv`: a call is either of a `late` user or not older than `Kept`, so that its own touch keeps its user in the notes, and what a release deletes is gone before the note is |
| `WatchedMockProofs!CrashesNeedWindow` | `CrashNeedsWindow` | `MapsInv`: a mutex has its map unless some call is between the two stores of `setOrders` (`Storing`); so has a call that is about to apply a report, unless it was overtaken by a release, which only calls longer than `Kept` are (`OvertakenAreLate`) |
| `StartupProofs!TypeCorrect` | types; started gates have both connections running | `StartInv`: how many connections there are at each step |
| `StartupProofs!MadeAsWritten` | `TraderAsWritten`, for strings of any length | induction over the words for both loops of `parseDsnZmq`: the gates after n words are the addresses among them (`GatesSoFar`), a setting is its last occurrence (`SettingIsLast`); then `StartInv`: the connections are the configurations' |

The conditions of these theorems are those of the code's use, and most have a run
that shows that they are needed:

- `Faithful` (nobody unsubscribes, nothing is lost) and the absence of deadlines:
  with them `CacheTracksFeed` and `SubscriberSeesStart` say what the cache is; without
  them they are false, since `Unsubscribe` empties the cache of a user that a call is
  about to read, a lost report is missing in the cache for good, and a call whose
  deadline has passed returns without an answer.
  `CacheNeverGoesBack` without `Faithful` is model-checked by `snapshot_faults`.
- `IdsKept`: client order ids are meant to be unique (`ClientOrderIdGenerate`). If an
  id is used for a second order while reports about the first are on their way, they
  are taken for the second's (`MCOrderCalls_reused`), and trades of the
  one count for the other: `trades` may exceed the quantity, so that the types only say that it is a
  number. A replace gives its order a new id, which is such a second use as well.
- `RejectMeansNotPlaced` needs no condition, but says less than one may expect. A
  reject whose caller has given up is handed to the next NewOrder that waits under its
  id (`zmq-trader.go:352`), whose order may be placed; and with three NewOrder of one id
  nobody even has to give up: a late report of the first may answer the second, whose own
  request the gate still rejects; that reject is then handed to the third.
- `late` in `KeptAreWatched` and the two windows of `CrashNeedsWindow` are what the
  properties exempt, not conditions of the theorems, which speak of calls of any length
  and in any number. A call longer than `Kept` may bring its user back after the release
  has forgotten it; section 3 shows the two windows.

Every invariant that a listed run checks is a theorem. Proved by least
counterexample rather than by an induction rule: what the loops over words compute.
Not proved, and left to TLC: all liveness (`SubscriberReturns`, `PendingDrained`,
`EveryCallReturns`, `Settles`, `ReadySettles`, and the fair part of `ImplementsFeed`),
which needs fairness and ENABLED and is beyond the prover; and the properties of the
configurations beside the listed runs.

## 6. Not modelled

- Keys, tokens and topics as text, JSON as text, `url.Parse` and `strings.Split`:
  represented by what they make of their input. Symbols and prices are texts
  without structure, which the code passes through as strings. A quantity is a number
  and the zeros it is written with: the code sends it as the caller's text, reads it
  as `uint64` (`messages.go:60`, `:122`) and writes it anew (`:75`, `:146`). The stop
  price and the expire time leave with a new order (`requests.go:31-32`) and never come
  back, since no message has them; PostOnly does not leave with a replace. Last,
  cumulative and leaves quantities, the last price, the times and `Login` are left out.
- The random numbers of `ClientOrderIdGenerate`: an id is any id.
- The Go memory model within a step: `con.users` is one map that goroutines of
  different users write to at once, and `isCanaryTrade` is read without a lock;
  the models take single reads and writes as atomic.
- The metrics and the log.
- Restarts: the package keeps nothing on disk and a new process starts from `Init`.
- The tests' helpers.

## 7. Plan

1. An abstract cache of which `OrdersContainer` without overtaking is a
   refinement, and an abstract readiness of which `GateReady` is one.
2. `SnapshotCalls` and `OrderCalls` composed: orders placed while the snapshot is on
   its way.
