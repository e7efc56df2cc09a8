-------------------------- MODULE MCShardActuation --------------------------
(***************************************************************************)
(* ShardActuation for TLC.  No counter is unbounded, so the configurations *)
(* bound only the sets: machines, clusters, Needs and workers.             *)
(***************************************************************************)
EXTENDS ShardActuation, TLC

\* Machines and workers are interchangeable.
Symmetry == Permutations(Machines) \cup Permutations(Workers) \cup Permutations(Clusters)
=============================================================================
