----------------------------- MODULE MCRowWrite -----------------------------
(* RowWrite on a small instance. *)
EXTENDS RowWrite, TLC

Symmetry == Permutations(Clients) \cup Permutations(Values)
=============================================================================
