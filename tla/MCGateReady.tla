----------------------------- MODULE MCGateReady -----------------------------
\* Instances of GateReady for TLC.
EXTENDS GateReady, TLC

\* The goroutines started by handleReady are not told apart.
Symmetry == Permutations(Spawned)
=============================================================================
