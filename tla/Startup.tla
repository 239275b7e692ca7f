------------------------------- MODULE Startup -------------------------------
(***************************************************************************)
(* NewTrader (dsn.go): a Trader from a connection string.  The string is   *)
(* parsed; each of its gates gets an xsub and a push connection and a      *)
(* zmqTrader, which reads their ready channels; two or more gates become a *)
(* cluster.  A connection has goroutines of its own from the moment its    *)
(* constructor returns, and changes its ready flag whether or not somebody *)
(* reads its channel yet; a third unread change panics.  When a step       *)
(* fails, NewTrader returns the error and closes nothing.                  *)
(*                                                                         *)
(* A string is a sequence of words, as strings.Split makes it; a word is   *)
(* what its prefix and url.Parse make of it.  mock:// gives a MockTrader,  *)
(* whose SetReady and Ready are modelled here.                             *)
(***************************************************************************)
EXTENDS Integers, FiniteSets, Sequences

CONSTANTS
    Words,         \* words of connection strings
    MaxWords,      \* bound on their number
    MaxPort,       \* the largest TCP port
    Failures,      \* may creating, connecting or writing to a socket fail?
    EarlyChanges,  \* bound on the changes of a flag until NewTrader returns, ...
    LateChanges,   \* ... and from then on, while nobody reads them
    Setters        \* goroutines that call SetReady of a mock

NoPort == -1     \* none given
BadPort == -2    \* not a number
NotGiven == ""   \* a key or token

ASSUME WordsAssumption ==
    \A w \in Words :
        \/ w.key \in {"token", "xsub_key", "push_key"} /\ w.value \in STRING
        \/ w.key = "zmq" /\ w.host \in STRING /\ {w.port, w.xsub} \subseteq Int
        \/ w.key = "mock" /\ w.port \in Int /\ {w.ready, w.fixtures} \subseteq BOOLEAN
        \/ w.key = "other"
ASSUME StartupBounds ==
    /\ {MaxWords, MaxPort, EarlyChanges, LateChanges} \subseteq Nat
    /\ Failures \in BOOLEAN

VARIABLES
    dsn,
    pc,        \* of NewTrader
    configs,   \* what the string says
    conns,     \* the connections of each gate
    started,   \* gates that have their zmqTrader
    result,    \* what NewTrader returns
    crashed,
    \* MockTrader
    isReady, ready, setting,
    heard      \* history: the last value read from ready, if any

mockVars == <<isReady, ready, setting, heard>>
gateVars == <<conns, started, crashed>>
vars == <<dsn, pc, configs, gateVars, result, mockVars>>

Sides == {"xsub", "push"}
\* A connection that has not been made.
NoConn ==
    [state |-> "none", addr |-> <<>>, key |-> NotGiven, token |-> NotGiven,
     flag |-> FALSE, ready |-> <<>>, changes |-> 0]
-----------------------------------------------------------------------------
(***************************************************************************)
(* parseDsnZmq.                                                            *)
(***************************************************************************)
\* The last word of a key wins, wherever it is: seen[n] is its value after n words.
MutantSetting(words, key) ==
    LET seen[n \in 0 .. Len(words)] ==
            IF n = 0 THEN NotGiven
            ELSE IF words[n].key = key /\ seen[n - 1] = NotGiven THEN words[n].value ELSE seen[n - 1]
    IN seen[Len(words)]
Seen(words, key) ==
    LET seen[n \in 0 .. Len(words)] ==
            IF n = 0 THEN NotGiven
            ELSE IF words[n].key = key THEN words[n].value ELSE seen[n - 1]
    IN seen
Setting(words, key) == Seen(words, key)[Len(words)]

Malformed(w) == w.host = "" \/ w.port \in {NoPort, BadPort} \/ w.xsub = BadPort

Config(words, w) ==
    [PushAddr |-> <<w.host, w.port>>,
     XSubAddr |-> <<w.host, IF w.xsub = NoPort THEN w.port + 1 ELSE w.xsub>>,
     Token |-> Setting(words, "token"),
     PushKey |-> Setting(words, "push_key"),
     XSubKey |-> Setting(words, "xsub_key")]

IsZmq(w) == w.key = "zmq"

\* What the loop has after each word; it ends at the first malformed one.
Failed == [err |-> TRUE, result |-> <<>>]
AfterWord(words) ==
    LET after[n \in 0 .. Len(words)] ==
            IF n = 0 THEN [err |-> FALSE, result |-> <<>>]
            ELSE IF after[n - 1].err \/ ~IsZmq(words[n]) THEN after[n - 1]
            ELSE IF Malformed(words[n]) THEN Failed
            ELSE [err |-> FALSE, result |-> Append(after[n - 1].result, Config(words, words[n]))]
    IN after

parseDsnZmq(words) ==
    LET parsed == AfterWord(words)[Len(words)]
    IN IF parsed.result = <<>> THEN Failed ELSE parsed
-----------------------------------------------------------------------------
TypeOK ==
    /\ pc \in {"parse", "xsub", "greet", "push", "start", "cluster", "returned"}
    /\ started \in 0 .. Len(configs)
    /\ Len(conns) \in {started, started + 1}
    /\ \A i \in 1 .. started : \A s \in Sides : conns[i][s].state = "running"
    /\ result \in {"none", "error", "gate", "cluster", "mock"}
    /\ result # "none" <=> pc = "returned"
    /\ crashed \in BOOLEAN
    /\ isReady \in BOOLEAN
    /\ setting \in [Setters -> {"idle", "on", "off"}]
    /\ heard \in {<<>>, <<TRUE>>, <<FALSE>>}

Init ==
    /\ dsn \in UNION {[1 .. n -> Words] : n \in 1 .. MaxWords}
    /\ dsn[1].key = "mock" => Len(dsn) = 1
    /\ pc = "parse"
    /\ configs = <<>>
    /\ conns = <<>>
    /\ started = 0
    /\ result = "none"
    /\ crashed = FALSE
    /\ isReady = FALSE
    /\ ready = <<>>
    /\ setting = [s \in Setters |-> "idle"]
    /\ heard = <<>>

Return(r) == pc' = "returned" /\ result' = r

\* The string has to begin with a scheme; a gate's address makes it zmq://.
Parse ==
    /\ pc = "parse"
    /\ IsZmq(dsn[1])
    /\ LET parsed == parseDsnZmq(dsn) IN
           /\ configs' = parsed.result
           /\ IF parsed.err THEN Return("error") ELSE pc' = "xsub" /\ UNCHANGED result
    /\ UNCHANGED <<dsn, gateVars, mockVars>>

NotSupported ==
    /\ pc = "parse"
    /\ dsn[1].key \notin {"zmq", "mock"}
    /\ Return("error")
    /\ UNCHANGED <<dsn, configs, gateVars, mockVars>>

\* NewMockTrader, SetReady and SetupFixtures, before anybody else has the trader.
ParseMock ==
    /\ pc = "parse"
    /\ dsn[1].key = "mock"
    /\ IF dsn[1].port = BadPort
       THEN Return("error") /\ UNCHANGED mockVars
       ELSE /\ Return("mock")
            /\ isReady' = dsn[1].ready
            /\ ready' = IF dsn[1].ready THEN <<TRUE>> ELSE <<>>
            /\ UNCHANGED <<setting, heard>>
    /\ UNCHANGED <<dsn, configs, gateVars>>
-----------------------------------------------------------------------------
(***************************************************************************)
(* createZmqTrader for one gate after the other.                           *)
(***************************************************************************)
MutantGate == 1
Gate == started + 1
Opened(addr, key) ==
    [NoConn EXCEPT !.state = "open", !.addr = addr, !.key = key, !.token = configs[Gate].Token]

\* newXSubConnection makes a socket, with a goroutine that monitors it, and connects.
ConnectFails(addr) == Failures \/ addr[2] > MaxPort

OpenXSub ==
    /\ pc = "xsub"
    /\ LET c == configs[Gate] IN
           /\ conns' = Append(conns, [xsub |-> Opened(c.XSubAddr, c.XSubKey), push |-> NoConn])
           /\ \/ c.XSubAddr[2] <= MaxPort /\ pc' = "greet" /\ UNCHANGED result
              \/ ConnectFails(c.XSubAddr) /\ Return("error")
    /\ UNCHANGED <<dsn, configs, started, crashed, mockVars>>

\* The first heartbeat subscription and the one of the canary user; then the
\* goroutines that read the socket and the monitor.
GreetXSub ==
    /\ pc = "greet"
    /\ \/ /\ conns' = [conns EXCEPT ![Gate].xsub.state = "running"]
          /\ pc' = "push"
          /\ UNCHANGED result
       \/ Failures /\ Return("error") /\ UNCHANGED conns
    /\ UNCHANGED <<dsn, configs, started, crashed, mockVars>>

\* CreatePushConnection.
OpenPush ==
    /\ pc = "push"
    /\ LET c == configs[Gate] IN
           \/ /\ c.PushAddr[2] <= MaxPort
              /\ conns' = [conns EXCEPT ![Gate].push =
                              [Opened(c.PushAddr, c.PushKey) EXCEPT !.state = "running"]]
              /\ pc' = "start"
              /\ UNCHANGED result
           \/ /\ ConnectFails(c.PushAddr)
              /\ conns' = [conns EXCEPT ![Gate].push = Opened(c.PushAddr, c.PushKey)]
              /\ Return("error")
    /\ UNCHANGED <<dsn, configs, started, crashed, mockVars>>

\* StartNewClient; handleReady of the new zmqTrader reads both channels from now on.
StartNewClient ==
    /\ pc = "start"
    /\ started' = Gate
    /\ IF Len(configs) = 1 THEN Return("gate")
       ELSE /\ pc' = IF started' = Len(configs) THEN "cluster" ELSE "xsub"
            /\ UNCHANGED result
    /\ UNCHANGED <<dsn, configs, conns, crashed, mockVars>>

newClusterTrader ==
    /\ pc = "cluster"
    /\ Return("cluster")
    /\ UNCHANGED <<dsn, configs, gateVars, mockVars>>

\* setReady of a connection nobody reads from yet, or ever.
ReadyCap == 2

Change(i, s) ==
    LET c == conns[i][s] IN
    /\ ~crashed
    /\ i > started
    /\ c.state = "running"
    /\ c.changes < EarlyChanges + (IF pc = "returned" THEN LateChanges ELSE 0)
    /\ crashed' = (Len(c.ready) >= ReadyCap)
    /\ conns' = [conns EXCEPT ![i][s] =
                    [c EXCEPT !.flag = ~@, !.ready = Append(@, ~c.flag), !.changes = @ + 1]]
    /\ UNCHANGED <<dsn, pc, configs, started, result, mockVars>>
-----------------------------------------------------------------------------
(***************************************************************************)
(* SetReady of MockTrader: an atomic swap, then a send that waits for room *)
(* in the channel.                                                         *)
(***************************************************************************)
Swap(s, val) ==
    /\ isReady' = val
    /\ setting' = [setting EXCEPT ![s] = IF val = isReady THEN "idle"
                                           ELSE IF val THEN "on" ELSE "off"]

SetReady(s, val) ==
    /\ result = "mock"
    /\ setting[s] = "idle"
    /\ Swap(s, val)
    /\ UNCHANGED <<dsn, pc, configs, gateVars, result, ready, heard>>

SendReady(s) ==
    /\ setting[s] # "idle"
    /\ Len(ready) < ReadyCap
    /\ ready' = Append(ready, setting[s] = "on")
    /\ setting' = [setting EXCEPT ![s] = "idle"]
    /\ UNCHANGED <<dsn, pc, configs, gateVars, result, isReady, heard>>

\* The program, or a cluster, reads the channel that Ready() returns.
ReadReady ==
    /\ ready # <<>>
    /\ heard' = <<Head(ready)>>
    /\ ready' = Tail(ready)
    /\ UNCHANGED <<dsn, pc, configs, gateVars, result, isReady, setting>>

Create ==
    \/ Parse \/ NotSupported \/ ParseMock
    \/ OpenXSub \/ GreetXSub \/ OpenPush \/ StartNewClient \/ newClusterTrader

Next ==
    \/ ~crashed /\ Create
    \/ \E i \in 1 .. Len(conns), s \in Sides : Change(i, s)
    \/ \E s \in Setters : SendReady(s) \/ \E val \in BOOLEAN : SetReady(s, val)
    \/ ReadReady

Spec == Init /\ [][Next]_vars
-----------------------------------------------------------------------------
(***************************************************************************)
(* What starting up promises.                                              *)
(***************************************************************************)
Places(P(_)) == {i \in 1 .. Len(dsn) : P(dsn[i])}
LastPlace(S) == CHOOSE i \in S : \A j \in S : j <= i
Given(key) ==
    LET at == Places(LAMBDA w : w.key = key) IN IF at = {} THEN NotGiven ELSE dsn[LastPlace(at)].value

\* The gate at place i of the string: how many gates there are up to it.
Nth(i) == Cardinality({j \in Places(IsZmq) : j <= i})

\* A trader that NewTrader returns has, in the order of the string, a gate for
\* every address in it and nothing else, each with both of its connections running
\* and read: to its own ports, with the keys and the token given last.  An address
\* at fault anywhere in the string means an error, even if gates before it could
\* have been created.
TraderAsWritten ==
    result \in {"gate", "cluster"} =>
        /\ \A i \in Places(IsZmq) : ~Malformed(dsn[i])
        /\ started = Cardinality(Places(IsZmq)) /\ Len(conns) = started
        /\ result = "gate" <=> started = 1
        /\ \A i \in Places(IsZmq) :
               LET w == dsn[i]
                   gate == conns[Nth(i)] IN
               /\ gate.push.addr = <<w.host, w.port>>
               /\ gate.xsub.addr = <<w.host, IF w.xsub = NoPort THEN w.port + 1 ELSE w.xsub>>
               /\ gate.push.key = Given("push_key")
               /\ gate.xsub.key = Given("xsub_key")
               /\ \A s \in Sides :
                      /\ gate[s].token = Given("token")
                      /\ gate[s].addr[2] <= MaxPort
                      /\ gate[s].state = "running"

\* NewTrader survives what its connections do before their zmqTrader reads their
\* channels: the capacity is enough for a connection that comes and goes once.
StartupSurvives == ~crashed

\* A change of a mock's state that has been told is the last one told.
MockNewsIsCurrent ==
    (\A s \in Setters : setting[s] = "idle") /\ ready = <<>> =>
        isReady = (heard = <<TRUE>>)
=============================================================================
