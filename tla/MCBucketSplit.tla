---------------------------- MODULE MCBucketSplit ----------------------------
(* BucketSplit on a small instance. *)
EXTENDS BucketSplit, TLC

Symmetry == Permutations(Writers) \cup Permutations(Splitters)
=============================================================================
