------------------------------ MODULE MCRangeScan ------------------------------
\* RangeScan for TLC: two rows, an INSERT below them, a DELETE of the higher one; three rows
\* that nobody writes for the order.
EXTENDS RangeScan

RowsNow == [k \in RPks |-> CASE k = 1 -> 4 [] k = 2 -> 6 [] OTHER -> 0]
RowsOnly == [k \in RPks |-> CASE k = 1 -> 4 [] k = 2 -> 6 [] OTHER -> 2]
TheWrites == {<<3, 2>>, <<2, 0>>}
Cut(a, n) == [at |-> a, k |-> n]
Whole == <<[lower |-> Cut("belowNull", 0), upper |-> Cut("aboveAll", 0)]>>
\* x <= 4 OR x >= 6.
Parts == <<[lower |-> Cut("belowNull", 0), upper |-> Cut("above", 4)],
           [lower |-> Cut("below", 6), upper |-> Cut("aboveAll", 0)]>>
\* x <= 4, and the two intervals backwards.
TheQueries == {<<<<Parts[1]>>, FALSE>>, <<Parts, TRUE>>}
WholeQuery == {<<Whole, FALSE>>}
\* "a", "ab", "b".
TheStrings == {<<1>>, <<1, 2>>, <<2>>}
=============================================================================
