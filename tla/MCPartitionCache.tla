-------------------------- MODULE MCPartitionCache --------------------------
(* Model checking of PartitionCache: the nodes are interchangeable.         *)
EXTENDS PartitionCache, TLC

Symmetry == Permutations(Node)
=============================================================================
