----------------------------- MODULE MCStatements -----------------------------
\* Statements for TLC.
EXTENDS Statements, TLC

Symmetry == Permutations(Sessions) \cup Permutations(Values)
=============================================================================
