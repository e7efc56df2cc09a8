--------------------------- MODULE MCCoordinator ---------------------------
(***************************************************************************)
(* Coordinator for TLC: a fleet of two shards that have registered.        *)
(***************************************************************************)
EXTENDS Coordinator, TLC

CONSTANTS s1, s2

BothShards == << s1, s2 >>

\* Replicas are interchangeable.
Symmetry == Permutations(Replicas)
=============================================================================
