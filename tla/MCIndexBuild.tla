----------------------------- MODULE MCIndexBuild -----------------------------
\* IndexBuild for TLC.
EXTENDS IndexBuild, TLC

Symmetry == Permutations(Leaders) \cup Permutations(Values)

\* Bound: statements and DDL statements together.
MaxBoth == 3

Bounded == writes + ddls <= MaxBoth

\* Beyond these states IndexComplete promises nothing: its histories are up, or the index
\* is gone and no DDL statement is left to create one.
Promised ==
    /\ ~shifted /\ ~stray /\ blind \cup reborn # Pks
    /\ cat = "none" => (ddls < MaxDdl \/ ddl.pc = "save")
=============================================================================
