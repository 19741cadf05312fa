------------------------------ MODULE MCElector ------------------------------
(* Elector on a small instance. *)
EXTENDS Elector, TLC

Symmetry == Permutations(Nodes)
=============================================================================
