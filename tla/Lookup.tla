-------------------------------- MODULE Lookup --------------------------------
(***************************************************************************)
(* From the index lookup of go-mysql-server to the request that exec runs  *)
(* (engine/translate.go, engine/index.go, engine/indexsearchable.go), and  *)
(* what the request returns (exec/exec.go Predicate.Match).  Table.        *)
(* PreciseMatch tells gms to drop the filter, and gms drops the Sort node  *)
(* too: nobody checks the result again.                                    *)
(*                                                                         *)
(* A range of gms is a lower and an upper cut.  As a lower cut Below{k} is *)
(* closed and Above{k} open, as an upper cut it is the other way round.    *)
(* The value of a string column is a sequence of bytes; a score is an even *)
(* number, so that math.Nextafter is one more.  A row without the column   *)
(* is NULL there: it has no member in the index.                           *)
(***************************************************************************)
EXTENDS Naturals, FiniteSets, Sequences

CONSTANTS
    Scores,   \* values of a numeric column
    Strings,  \* values of a string column
    Top,      \* the byte 0xff, which no string has
    Null      \* NULL, the column is missing

ASSUME LookupAssumption ==
    /\ Scores \subseteq Nat \ {0} /\ \A s \in Scores : s % 2 = 0
    /\ Top \in Nat /\ Strings \subseteq Seq(1 .. Top - 1) \ {<<>>}
    /\ Null \notin Scores /\ Null \notin Strings

Inf == 1 + CHOOSE s \in Scores : \A o \in Scores : o <= s   \* +inf; -inf is 0

(***************************************************************************)
(* gms.                                                                    *)
(***************************************************************************)
\* The order of strings, byte by byte.
Lex(a, b) ==
    \E i \in 1 .. Len(b) : /\ \A j \in 1 .. i - 1 : j <= Len(a) /\ a[j] = b[j]
                           /\ i > Len(a) \/ a[i] < b[i]
Less(t, a, b) == IF t = "num" THEN a < b ELSE Lex(a, b)

\* BelowNull, NULL, AboveNull, the values, AboveAll, in this order.
AfterLower(t, c, v) ==
    IF v = Null THEN c.at = "belowNull"
    ELSE CASE c.at = "below" -> ~Less(t, v, c.k) [] c.at = "above" -> Less(t, c.k, v) [] OTHER -> TRUE
BeforeUpper(t, c, v) ==
    v = Null \/ CASE c.at = "above" -> ~Less(t, c.k, v) [] c.at = "below" -> Less(t, v, c.k) [] OTHER -> c.at = "aboveAll"
InRange(t, r, v) == AfterLower(t, r.lower, v) /\ BeforeUpper(t, r.upper, v)
Wanted(t, rs, v) == \E i \in DOMAIN rs : InRange(t, rs[i], v)

(***************************************************************************)
(* Predicates.                                                             *)
(***************************************************************************)
Contains(r, s) == (IF r.loOpen THEN s > r.lo ELSE s >= r.lo) /\ (IF r.hiOpen THEN s < r.hi ELSE s <= r.hi)

StrContains(r, v) ==
    /\ r.loInf \/ (IF r.loOpen THEN Lex(r.lo, v) ELSE ~Lex(v, r.lo))
    /\ r.hiInf \/ (IF r.hiOpen THEN Lex(v, r.hi) ELSE ~Lex(r.hi, v))

HasPrefix(v, p) == Len(p) <= Len(v) /\ SubSeq(v, 1, Len(p)) = p

\* A predicate has one kind of constraint, which NULL does not meet; a PointGet has none.
PredicateMatch(p, v) ==
    \/ p.by = "none"
    \/ /\ v # Null
       /\ CASE p.by = "eq" -> \E i \in DOMAIN p.of : p.of[i] = v
            [] p.by = "ranges" -> \E i \in DOMAIN p.of : Contains(p.of[i], v)
            [] p.by = "str" -> \E i \in DOMAIN p.of : StrContains(p.of[i], v)
            [] p.by = "prefix" -> HasPrefix(v, p.of)

(***************************************************************************)
(* translateLookup.                                                        *)
(***************************************************************************)
HasKey(c) == c.at \in {"below", "above"}

\* A point: closed on both sides at the same key.
PointValue(r) == r.lower.at = "below" /\ r.upper.at = "above" /\ r.lower.k = r.upper.k

\* prefixRangeBounds: [p, p 0xff), which only LookupForExpressions makes.
PrefixRangeBounds(r) ==
    r.lower.at = "below" /\ r.upper.at = "below" /\ r.upper.k = Append(r.lower.k, Top)

\* CanSupport: what gms may ask of an index.
CanSupport(ix, rs) ==
    ix = "range" \/ \A i \in DOMAIN rs : PointValue(rs[i]) \/ (ix = "prefix" /\ PrefixRangeBounds(rs[i]))

\* Mutant: Above is taken for the closed bound on both sides.
RangeBoundClosed(r) ==
    [lo |-> IF HasKey(r.lower) THEN r.lower.k ELSE 0, loOpen |-> r.lower.at = "below",
     hi |-> IF HasKey(r.upper) THEN r.upper.k ELSE Inf, hiOpen |-> r.upper.at = "below"]

RangeBound(r) ==
    [lo |-> IF HasKey(r.lower) THEN r.lower.k ELSE 0, loOpen |-> r.lower.at = "above",
     hi |-> IF HasKey(r.upper) THEN r.upper.k ELSE Inf, hiOpen |-> r.upper.at = "below"]

StrRange(r) ==
    [lo |-> IF HasKey(r.lower) THEN r.lower.k ELSE <<>>, loInf |-> ~HasKey(r.lower), loOpen |-> r.lower.at = "above",
     hi |-> IF HasKey(r.upper) THEN r.upper.k ELSE <<>>, hiInf |-> ~HasKey(r.upper), hiOpen |-> r.upper.at = "below"]

\* The values once each, by the decoded value; the encoded order of numbers differs.
DedupSortValues(t, vals, desc) ==
    LET set == {vals[i] : i \in DOMAIN vals}
        before(a, b) == IF desc THEN Less(t, b, a) ELSE Less(t, a, b)
    IN  [n \in 1 .. Cardinality(set) |-> CHOOSE v \in set : Cardinality({w \in set : before(w, v)}) = n - 1]

\* Mutant: by Lo, whatever the direction.
SortByLo(q, desc) ==
    LET rank(i) == Cardinality({j \in DOMAIN q : q[j].lo < q[i].lo \/ (q[j].lo = q[i].lo /\ j < i)})
    IN  [n \in DOMAIN q |-> q[CHOOSE i \in DOMAIN q : rank(i) = n - 1]]

\* sortRangeBounds: by Lo, for DESC by Hi from the top; the sort is stable.
SortRangeBounds(q, desc) ==
    LET before(a, b) == IF desc THEN a.hi > b.hi ELSE a.lo < b.lo
        rank(i) == Cardinality({j \in DOMAIN q : before(q[j], q[i]) \/ (~before(q[i], q[j]) /\ j < i)})
    IN  [n \in DOMAIN q |-> q[CHOOSE i \in DOMAIN q : rank(i) = n - 1]]

\* fullScanFallback: the whole register, and a predicate of the column's type.
FullScanFallback(t, rs) ==
    [kind |-> "scan", of |-> <<>>,
     pred |-> IF t = "str" THEN [by |-> "str", of |-> [i \in DOMAIN rs |-> StrRange(rs[i])]]
              ELSE [by |-> "ranges", of |-> [i \in DOMAIN rs |-> RangeBound(rs[i])]]]

\* The points of a primary key or of an equality index; the first range that is no
\* point decides what becomes of the whole lookup.
TranslatePoints(ix, t, rs, desc) ==
    LET vals == DedupSortValues(t, [i \in DOMAIN rs |-> rs[i].lower.k], desc)
        other == {i \in DOMAIN rs : ~PointValue(rs[i])}
        first == CHOOSE i \in other : \A j \in other : i <= j
    IN  IF other = {}
        THEN IF ix = "primary" THEN [kind |-> "point", of |-> vals, pred |-> [by |-> "none", of |-> <<>>]]
             ELSE [kind |-> "eq", of |-> vals, pred |-> [by |-> "eq", of |-> vals]]
        ELSE IF ix = "prefix" /\ PrefixRangeBounds(rs[first])
        THEN [kind |-> "prefix", of |-> <<rs[first].lower.k, rs[first].upper.k>>, pred |-> [by |-> "prefix", of |-> rs[first].lower.k]]
        ELSE FullScanFallback(t, rs)

TranslateLookup(ix, t, rs, desc) ==
    IF ix = "range"
    THEN LET bounds == SortRangeBounds([i \in DOMAIN rs |-> RangeBound(rs[i])], desc)
         IN  [kind |-> "range", of |-> bounds, pred |-> [by |-> "ranges", of |-> bounds]]
    ELSE TranslatePoints(ix, t, rs, desc)

\* LookupForExpressions: LIKE 'p%'.
LikePrefix(p) == <<[lower |-> [at |-> "below", k |-> p], upper |-> [at |-> "below", k |-> Append(p, Top)]]>>

(***************************************************************************)
(* What a request returns: a row is found under its value, if it has one,  *)
(* and passes.                                                             *)
(***************************************************************************)
\* The member of the dictionary copy is "value 0x00 pk": ZRANGEBYLEX [lo [hi.
Candidate(req, v) ==
    \/ req.kind = "scan"
    \/ /\ v # Null
       /\ CASE req.kind \in {"eq", "point"} -> \E i \in DOMAIN req.of : req.of[i] = v
            [] req.kind = "range" -> \E i \in DOMAIN req.of : Contains(req.of[i], v)
            [] req.kind = "prefix" -> ~Lex(Append(v, 0), req.of[1]) /\ ~Lex(req.of[2], Append(v, 0))

Returned(req, v) == Candidate(req, v) /\ PredicateMatch(req.pred, v)

(***************************************************************************)
(* Properties, over every lookup of up to two ranges.                      *)
(***************************************************************************)
Column(t) == IF t = "num" THEN Scores ELSE Strings
Cuts(t) == [at : {"below", "above"}, k : Column(t)]
\* Cuts that have no key.
Keyless(t, ats) == [at : ats, k : {IF t = "num" THEN 0 ELSE <<>>}]
LowerCuts(t) == Cuts(t) \cup Keyless(t, {"belowNull", "aboveNull"})
UpperCuts(t) == Cuts(t) \cup Keyless(t, {"aboveNull", "aboveAll"})
Ranges(t) == [lower : LowerCuts(t), upper : UpperCuts(t)]
Lookups(t) == {<<r>> : r \in Ranges(t)} \cup (Ranges(t) \X Ranges(t))

\* Ranges that do not end with the NULLs (that of IS NULL does), and lookups of such ranges.
Valued(t) == {r \in Ranges(t) : r.upper.at # "aboveNull"}
ValuedLookups(t) == {rs \in Lookups(t) : \A i \in DOMAIN rs : rs[i] \in Valued(t)}

\* Of the rows that have a value a request returns those that were asked for, and it
\* returns no row without one.
Exact(ix, t, rs) ==
    LET req == TranslateLookup(ix, t, rs, FALSE)
    IN  \A v \in Column(t) \cup {Null} : Returned(req, v) <=> (v # Null /\ Wanted(t, rs, v))

\* The cuts keep their meaning on every path, also where translateLookup falls back
\* to the whole register, and ZRANGEBYLEX [p [p0xff is LIKE 'p%'; what is lost are the
\* rows without a value that a range from BelowNull asks for.
LookupExact ==
    /\ \A rs \in ValuedLookups("num") :
          /\ Exact("range", "num", rs) /\ Exact("eq", "num", rs)
          /\ CanSupport("primary", rs) => Exact("primary", "num", rs)
    /\ \A rs \in ValuedLookups("str") : Exact("prefix", "str", rs)
    /\ \A p \in Strings, v \in Strings \cup {Null} :
          (v # Null /\ HasPrefix(v, p)) <=> Returned(TranslateLookup("prefix", "str", LikePrefix(p), FALSE), v)

\* gms merges the ranges that overlap or touch (RemoveOverlappingRanges).
CutAt(c) == CASE c.at = "below" -> c.k [] c.at = "above" -> c.k + 1 [] c.at = "aboveAll" -> Inf [] OTHER -> 0
Apart(rs) == \A i, j \in DOMAIN rs : i < j => \/ CutAt(rs[i].upper) < CutAt(rs[j].lower)
                                              \/ CutAt(rs[j].upper) < CutAt(rs[i].lower)
Precedes(t, a, b, desc) == IF desc THEN Less(t, b, a) ELSE Less(t, a, b)

\* Values and intervals come in the order of the column, each value once, so that
\* reading one after the other is reading in order.
LookupOrdered ==
    \A desc \in BOOLEAN :
        /\ \A rs \in {q \in ValuedLookups("num") : Apart(q)} :
              LET q == TranslateLookup("range", "num", rs, desc).of
              IN  \A i, j \in DOMAIN q, a, b \in Scores :
                     (i < j /\ Contains(q[i], a) /\ Contains(q[j], b)) => Precedes("num", a, b, desc)
        /\ \A t \in {"num", "str"} : \A rs \in {q \in Lookups(t) : CanSupport("eq", q)} :
              LET q == TranslateLookup("eq", t, rs, desc).of
              IN  \A i, j \in DOMAIN q : i < j => Precedes(t, q[i], q[j], desc)

\* table.go: PreciseMatch "an index access can replace the filter".  IS NULL is the range
\* from BelowNull to AboveNull, IS NULL OR x >= k has one from BelowNull.
NullsPrecise ==
    \A rs \in Lookups("num"), v \in Scores \cup {Null} :
        Returned(TranslateLookup("range", "num", rs, FALSE), v) <=> Wanted("num", rs, v)
=============================================================================
