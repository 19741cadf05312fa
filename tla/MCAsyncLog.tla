------------------------------ MODULE MCAsyncLog ------------------------------
\* AsyncLog for TLC.
EXTENDS AsyncLog, SequencesExt

\* ReplayAll is the commands of the entries, one after the other: here for the lists of
\* up to three entries of one pk and two values.
ASSUME ReplayInOrder ==
    LET w == CHOOSE v \in Values : v # Empty
        E == [pk : {1}, old : Values, oiv : {1}, new : Values, ver : {1, 2}]
        B == {{}, {<<w, 1, 1>>}, {<<w, 1, 2>>}}
    IN  \A b \in B, es \in UNION {[1 .. n -> E] : n \in 0 .. 3} :
            ReplayAll(b, es) = FoldLeft(LAMBDA x, e : (x \ Undo(e)) \cup Redo(e), b, es)

\* Nothing more is promised, and nothing more explored.
Sound == sound
=============================================================================
