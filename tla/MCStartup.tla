------------------------------ MODULE MCStartup ------------------------------
(***************************************************************************)
(* Startup for TLC: settings given twice, an address of every kind.        *)
(***************************************************************************)
EXTENDS Startup

Address(h, p, x) == [key |-> "zmq", host |-> h, port |-> p, xsub |-> x]

SomeWords ==
    {[key |-> "token", value |-> v] : v \in {"a", "b"}}
    \cup {[key |-> k, value |-> "k"] : k \in {"xsub_key", "push_key"}}
    \cup {Address("h", 1, NoPort), Address("h", 3, 2), Address("h", 3, NoPort),
          Address("", 1, NoPort), Address("h", NoPort, 1), Address("h", 1, BadPort)}
    \cup {[key |-> "mock", port |-> p, ready |-> b, fixtures |-> FALSE] :
              p \in {NoPort, BadPort}, b \in BOOLEAN}
    \cup {[key |-> "other"]}
=============================================================================
