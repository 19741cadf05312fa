------------------------------- MODULE MCSweep -------------------------------
(* Sweep on a small instance. *)
EXTENDS Sweep, TLC

Symmetry == Permutations(Clients) \cup Permutations(Values) \cup Permutations(Sweepers)
=============================================================================
