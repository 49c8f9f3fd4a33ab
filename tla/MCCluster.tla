------------------------------ MODULE MCCluster -------------------------------
(* Instances of Cluster for TLC. *)
EXTENDS Cluster, TLC

\* A negative, a zero and a positive weight.
SomeWeights == {-1, 0, 2}

AllStrategies == {"RoundRobin", "WeightedRoundRobin", "LeastConnections"}

\* The other nodes are interchangeable.
Symmetry == Permutations(Nodes)
===============================================================================
