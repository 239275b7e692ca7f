--------------------------- MODULE MCClusterTrader ---------------------------
\* Instances of ClusterTrader for TLC.
EXTENDS ClusterTrader, TLC

\* Neither users nor the goroutines of one kind are told apart; the gates have
\* an order.
Symmetry ==
    Permutations(Users) \cup Permutations(Calls) \cup Permutations(Unsubscribers)
    \cup Permutations(Movers)
=============================================================================
