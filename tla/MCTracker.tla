----------------------------- MODULE MCTracker ------------------------------
(* Instances of RedisConsensusTracker for TLC. *)
EXTENDS RedisConsensusTracker, TLC

\* Lock values are only compared for equality, and the instances are alike.
Symmetry == Permutations(Tokens) \union Permutations(Instances)

=============================================================================
