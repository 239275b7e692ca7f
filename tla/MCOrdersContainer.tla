-------------------------- MODULE MCOrdersContainer --------------------------
\* Instances of OrdersContainer for TLC.
EXTENDS OrdersContainer, TLC

\* Neither users nor the goroutines of one kind are told apart.
Symmetry == Permutations(Users) \cup Permutations(Readers) \cup Permutations(Deleters)
=============================================================================
