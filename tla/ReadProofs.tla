------------------------------- MODULE ReadProofs -------------------------------
(***************************************************************************)
(* Theorems about HotRead and RangeScan.                                   *)
(***************************************************************************)
EXTENDS HotRead, RangeScan, FiniteSetTheorems, SequenceTheorems, TLAPS

(***************************************************************************)
(* The inductive invariant of a lookup.                                    *)
(***************************************************************************)
Distinct(q) == \A i, j \in DOMAIN q : q[i] = q[j] => i = j
DistinctPks(q) == \A i, j \in DOMAIN q : q[i][1] = q[j][1] => i = j

\* What was returned, what is being fetched and what is still on the list are
\* different rows.
Once(s) ==
    /\ Distinct(s.list) /\ Distinct(s.collect) /\ DistinctPks(s.items) /\ DistinctPks(s.out)
    /\ \A i \in DOMAIN s.out, j \in DOMAIN s.items : s.out[i][1] # s.items[j][1]
    /\ \A i \in DOMAIN s.out, j \in DOMAIN s.list : s.out[i][1] # s.list[j]
    /\ \A i \in DOMAIN s.items, j \in DOMAIN s.list : s.items[i][1] # s.list[j]

\* A stream that reads the bucket has seen all it has returned; one with a list reads no page.
Sources(s) ==
    IF s.cached THEN ~s.more
    ELSE /\ s.list = <<>>
         /\ \A i \in DOMAIN s.out : s.out[i][1] \in s.seen
         /\ \A i \in DOMAIN s.items : s.items[i][1] \in s.seen
         /\ \A i \in DOMAIN s.collect : s.collect[i] \in s.seen

Phase(s) ==
    /\ s.pc \in {"wait", "build", "page", "exists"} => ~s.cached /\ s.items = <<>>
    /\ s.pc \in {"wait", "build"} => s.out = <<>> /\ s.collect = <<>> /\ ~s.more
    /\ s.pc = "idle" => s.out = <<>>
    /\ s.pc = "exists" => Len(s.page) <= PageRows
    /\ s.pc = "fetch" => s.items # <<>>

StreamShape(s) == Once(s) /\ Sources(s) /\ Phase(s)
ListShape == l1 # <<>> => Distinct(l1[1])
HInv == HTypeOK /\ (\A x \in Streams : StreamShape(st[x])) /\ ListShape

\* Without covering columns, and if no row dies between HGETALL and PTTL: all that the
\* store and the row cache say now, a running query may return.
Plain == ~Covering /\ "late" \notin ReadFaults
Told == Now \cup {<<k, rc[k].n>> : k \in {j \in Pks : rc[j].n # 0 /\ rc[j].hit}}
CacheShape ==
    \A k \in Pks : /\ rc[k].n # 0 => (rc[k].bound <=> k \in Mortal)
                   /\ k \in lost => row[k].n = 0 /\ (rc[k].n = 0 \/ rc[k].cut)
Sound == \A x \in Sessions : st[x].pc # "idle" => Told \subseteq st[x].hist
SInv == CacheShape /\ Sound /\ ReadsSound

(***************************************************************************)
(* Orders and ranks.                                                       *)
(***************************************************************************)
TotalOn(R, S) ==
    /\ \A a \in S : <<a, a>> \notin R
    /\ \A a, b \in S : a = b \/ <<a, b>> \in R \/ <<b, a>> \in R
    /\ \A a, b, c \in S : (<<a, b>> \in R /\ <<b, c>> \in R) => <<a, c>> \in R
Under(R, S, a) == Cardinality({o \in S : <<o, a>> \in R})
HasRanks(R, S) ==
    /\ Cardinality(S) \in Nat
    /\ \A a \in S : Under(R, S, a) \in 0 .. Cardinality(S) - 1
    /\ \A a, b \in S : Under(R, S, a) = Under(R, S, b) => a = b
    /\ \A n \in 0 .. Cardinality(S) - 1 : \E a \in S : Under(R, S, a) = n

\* In a finite set with a total order R, ranks are the numbers below the cardinality,
\* each the rank of one element.
LEMMA Ranked ==
    ASSUME NEW S, IsFiniteSet(S), NEW R, TotalOn(R, S)
    PROVE  HasRanks(R, S)
<1> USE DEF TotalOn
<1> DEFINE Low(a) == {o \in S : <<o, a>> \in R}
           c == Cardinality(S)
           f == [a \in S |-> Cardinality(Low(a))]
<1>1. c \in Nat BY FS_CardinalityType
<1>2. \A a \in S : Low(a) \in SUBSET S OBVIOUS
<1>3. ASSUME NEW a \in S PROVE IsFiniteSet(Low(a)) /\ Cardinality(Low(a)) \in Nat
  BY <1>2, FS_Subset, FS_CardinalityType
<1>4. ASSUME NEW a \in S PROVE Cardinality(Low(a)) < c
  <2>1. a \notin Low(a) OBVIOUS
  <2>2. Low(a) \in SUBSET S /\ Low(a) # S BY <2>1
  <2>3. Cardinality(Low(a)) <= c /\ Cardinality(Low(a)) # c BY <2>2, FS_Subset
  <2>4. QED BY <1>1, <1>3, <2>3
<1>5. ASSUME NEW a \in S, NEW b \in S, <<a, b>> \in R PROVE Cardinality(Low(a)) < Cardinality(Low(b))
  <2>1. Low(a) \in SUBSET Low(b) BY <1>5
  <2>2. a \in Low(b) /\ a \notin Low(a) BY <1>5
  <2>3. Low(a) # Low(b) BY <2>2
  <2>4. Cardinality(Low(a)) <= Cardinality(Low(b)) /\ Cardinality(Low(a)) # Cardinality(Low(b)) BY <1>3, <2>1, <2>3, FS_Subset
  <2>5. QED BY <1>3, <2>4
<1> HIDE DEF Low
<1>6. ASSUME NEW a \in S, NEW b \in S, Cardinality(Low(a)) = Cardinality(Low(b)) PROVE a = b
  <2>1. <<a, b>> \notin R BY <1>3, <1>5, <1>6
  <2>2. <<b, a>> \notin R BY <1>3, <1>5, <1>6
  <2>3. QED BY <2>1, <2>2
<1>7. f \in [S -> 0 .. c - 1] BY <1>1, <1>3, <1>4
<1>8. f \in Injection(S, 0 .. c - 1) BY <1>6, <1>7 DEF Injection, IsInjective
<1>9. IsFiniteSet(0 .. c - 1) /\ Cardinality(0 .. c - 1) = c
  <2> HIDE DEF c
  <2>1. 0 \in Int /\ c - 1 \in Int BY <1>1
  <2>2. /\ IsFiniteSet(0 .. c - 1)
        /\ Cardinality(0 .. c - 1) = IF 0 > c - 1 THEN 0 ELSE c - 1 - 0 + 1
    BY <2>1, FS_Interval
  <2>3. (IF 0 > c - 1 THEN 0 ELSE c - 1 - 0 + 1) = c BY <1>1
  <2>4. QED BY <2>2, <2>3
<1>10. f \in Surjection(S, 0 .. c - 1) BY <1>8, <1>9, FS_Injection
<1>11. ASSUME NEW n \in 0 .. c - 1 PROVE \E a \in S : Cardinality(Low(a)) = n
  <2>1. \E a \in S : f[a] = n BY <1>10 DEF Surjection
  <2>2. QED BY <2>1
<1>12. \A a \in S : Cardinality(Low(a)) \in 0 .. c - 1 BY <1>1, <1>3, <1>4
<1>13. /\ \A a \in S : Cardinality(Low(a)) \in 0 .. c - 1
       /\ \A a, b \in S : Cardinality(Low(a)) = Cardinality(Low(b)) => a = b
       /\ \A n \in 0 .. c - 1 : \E a \in S : Cardinality(Low(a)) = n
  BY <1>6, <1>11, <1>12
<1>14. QED BY <1>1, <1>13 DEF Low, Under, HasRanks

\* The i-th number of a set of numbers.
LEMMA KthFacts ==
    ASSUME NEW S \in SUBSET Nat, IsFiniteSet(S)
    PROVE  /\ Cardinality(S) \in Nat
           /\ \A i \in 1 .. Cardinality(S) : Kth(S, i) \in S
           /\ \A i, j \in 1 .. Cardinality(S) : Kth(S, i) = Kth(S, j) => i = j
<1> DEFINE R == {x \in Nat \X Nat : x[1] < x[2]}
           Low(a) == {h \in S : h < a}
<1>1. \A a \in S : a \in Nat OBVIOUS
<1>2. \A a, b \in S : <<a, b>> \in R <=> a < b BY <1>1
<1>3. /\ \A a \in S : <<a, a>> \notin R
      /\ \A a, b \in S : a = b \/ <<a, b>> \in R \/ <<b, a>> \in R
      /\ \A a, b, c \in S : (<<a, b>> \in R /\ <<b, c>> \in R) => <<a, c>> \in R
  BY <1>1, <1>2
<1>4. \A a \in S : Under(R, S, a) = Cardinality(Low(a)) BY <1>2 DEF Under
<1> HIDE DEF R, Low
<1>4a. TotalOn(R, S) BY <1>3 DEF TotalOn
<1>4b. HasRanks(R, S) BY <1>4a, Ranked, Zenon
<1>5. /\ Cardinality(S) \in Nat
      /\ \A n \in 0 .. Cardinality(S) - 1 : \E a \in S : Under(R, S, a) = n
  BY <1>4b DEF HasRanks
<1>6. ASSUME NEW i \in 1 .. Cardinality(S) PROVE Kth(S, i) \in S /\ Cardinality(Low(Kth(S, i))) = i - 1
  <2>1. i - 1 \in 0 .. Cardinality(S) - 1 BY <1>5
  <2>2. \E a \in S : Cardinality(Low(a)) = i - 1 BY <1>4, <1>5, <2>1
  <2>3. Kth(S, i) = CHOOSE a \in S : Cardinality(Low(a)) = i - 1 BY DEF Kth, Low
  <2>4. QED BY <2>2, <2>3
<1>7. ASSUME NEW i \in 1 .. Cardinality(S), NEW j \in 1 .. Cardinality(S), Kth(S, i) = Kth(S, j) PROVE i = j
  <2>1. i - 1 = j - 1 BY <1>6, <1>7
  <2>2. i \in Int /\ j \in Int BY <1>5
  <2>3. QED BY <2>1, <2>2
<1>8. QED BY <1>5, <1>6, <1>7

(***************************************************************************)
(* The pages of a bucket.                                                  *)
(***************************************************************************)
LEMMA MemberParts ==
    \A m \in Members : m[1] \in Pks /\ m[1] \in Nat /\ m[2] \in Nat /\ m[3] \in Nat /\ m = <<m[1], m[2], m[3]>>
<1> TAKE m \in Members
<1>1. \E k \in Pks, a \in Nat, b \in Nat : m = <<k, a, b>> BY DEF Members
<1>2. PICK k \in Pks, a \in Nat, b \in Nat : m = <<k, a, b>> BY <1>1
<1>3. m[1] = k /\ m[2] = a /\ m[3] = b BY <1>2
<1>4. QED BY <1>2, <1>3, HotReadAssumption

LEMMA LexicalFacts ==
    ASSUME NEW S \in Buckets
    PROVE  Cardinality(S) \in Nat /\ Lexical(S) \in Seq(Members) /\ Len(Lexical(S)) = Cardinality(S)
<1> DEFINE R == {x \in Members \X Members : Before(x[1], x[2])}
           Low(m) == {o \in S : Before(o, m)}
           c == Cardinality(S)
           e(i) == CHOOSE m \in S : Cardinality(Low(m)) = i - 1
<1>1. S \in SUBSET Members /\ IsFiniteSet(S) BY DEF Buckets
<1>2. \A m \in Members : m[1] \in Nat /\ m[2] \in Nat /\ m[3] \in Nat /\ m = <<m[1], m[2], m[3]>> BY MemberParts
<1>3. \A a, b \in S : <<a, b>> \in R <=> Before(a, b) BY <1>1
<1>4. /\ \A a \in S : <<a, a>> \notin R
      /\ \A a, b \in S : a = b \/ <<a, b>> \in R \/ <<b, a>> \in R
      /\ \A a, b, d \in S : (<<a, b>> \in R /\ <<b, d>> \in R) => <<a, d>> \in R
  <2> HIDE DEF R
  <2>1. \A a \in S : ~Before(a, a) BY <1>1, <1>2 DEF Before
  <2>2. \A a, b \in S : a = b \/ Before(a, b) \/ Before(b, a)
    <3> TAKE a, b \in S
    <3>1. a \in Members /\ b \in Members BY <1>1
    <3>2. /\ a[1] \in Nat /\ a[2] \in Nat /\ a[3] \in Nat /\ b[1] \in Nat /\ b[2] \in Nat /\ b[3] \in Nat
          /\ a = <<a[1], a[2], a[3]>> /\ b = <<b[1], b[2], b[3]>> BY <1>2, <3>1
    <3>3. QED BY <3>2 DEF Before
  <2>3. \A a, b, d \in S : (Before(a, b) /\ Before(b, d)) => Before(a, d)
    <3> TAKE a, b, d \in S
    <3>1. /\ a[1] \in Nat /\ a[2] \in Nat /\ a[3] \in Nat /\ b[1] \in Nat /\ b[2] \in Nat /\ b[3] \in Nat
          /\ d[1] \in Nat /\ d[2] \in Nat /\ d[3] \in Nat BY <1>1, <1>2
    <3>2. QED BY <3>1 DEF Before
  <2>4. QED BY <1>3, <2>1, <2>2, <2>3
<1>5. \A a \in S : Under(R, S, a) = Cardinality(Low(a)) BY <1>3 DEF Under
<1> HIDE DEF R, Low
<1>5a. TotalOn(R, S) BY <1>4 DEF TotalOn
<1>5b. HasRanks(R, S) BY <1>1, <1>5a, Ranked, Zenon
<1>6. /\ c \in Nat
      /\ \A n \in 0 .. c - 1 : \E a \in S : Under(R, S, a) = n
  BY <1>5b DEF HasRanks
<1>7. ASSUME NEW i \in 1 .. c PROVE e(i) \in S
  <2>1. i - 1 \in 0 .. c - 1 BY <1>6
  <2>2. \E m \in S : Cardinality(Low(m)) = i - 1 BY <1>5, <1>6, <2>1
  <2>3. QED BY <2>2
<1>8. Lexical(S) = [i \in 1 .. c |-> e(i)] BY DEF Lexical, Low
<1> HIDE DEF e, c
<1>9. \A i \in 1 .. c : e(i) \in Members BY <1>1, <1>7
<1>10. Lexical(S) \in Seq(Members) /\ Len(Lexical(S)) = c BY <1>6, <1>8, <1>9
<1>11. QED BY <1>6, <1>10 DEF c

\* The head of a sequence.
LEMMA UptoFacts ==
    ASSUME NEW T, NEW q \in Seq(T), NEW n \in Nat
    PROVE  /\ Upto(q, n) \in Seq(T) /\ Len(Upto(q, n)) <= n /\ Len(Upto(q, n)) <= Len(q)
           /\ DOMAIN Upto(q, n) = 1 .. Len(Upto(q, n))
           /\ \A i \in 1 .. Len(Upto(q, n)) : Upto(q, n)[i] = q[i]
           /\ (q # <<>> /\ n > 0) => Upto(q, n) # <<>>
<1> DEFINE k == IF n < Len(q) THEN n ELSE Len(q)
<1>1. k \in Nat /\ k <= n /\ k <= Len(q) /\ Len(q) \in Nat BY LenProperties
<1>2. \A i \in 1 .. k : q[i] \in T BY <1>1, ElementOfSeq
<1>3. (q # <<>> /\ n > 0) => k > 0 BY <1>1, EmptySeq, LenProperties
<1> HIDE DEF k
<1>4. /\ SubSeq(q, 1, k) \in Seq(T) /\ Len(SubSeq(q, 1, k)) = k
      /\ \A i \in 1 .. k : SubSeq(q, 1, k)[i] = q[i]
  BY <1>1, <1>2
<1>5. Upto(q, n) = SubSeq(q, 1, k) BY DEF Upto, k
<1>6. k > 0 => SubSeq(q, 1, k) # <<>> BY <1>1, <1>4
<1>7. QED BY <1>1, <1>3, <1>4, <1>5, <1>6

LEMMA ZrangeFacts ==
    ASSUME NEW S \in Buckets, NEW n \in Nat
    PROVE  Zrange(S, n) \in Seq(Members) /\ Len(Zrange(S, n)) <= PageRows
<1>1. Cardinality(S) \in Nat /\ Lexical(S) \in Seq(Members) /\ Len(Lexical(S)) = Cardinality(S) BY LexicalFacts
<1>2. \A i \in n + 1 .. Cardinality(S) : Lexical(S)[i] \in Members BY <1>1, ElementOfSeq
<1>3. SubSeq(Lexical(S), n + 1, Cardinality(S)) \in Seq(Members) BY <1>1, <1>2
<1>4. QED BY <1>3, UptoFacts, HotReadAssumption DEF Zrange

LEMMA DedupFacts ==
    ASSUME NEW page \in Seq(Members), NEW seen \in SUBSET Pks
    PROVE  /\ Dedup(page, seen) \in Seq(Members) /\ Len(Dedup(page, seen)) <= Len(page)
           /\ DistinctPks(Dedup(page, seen))
           /\ \A i \in DOMAIN Dedup(page, seen) : Dedup(page, seen)[i][1] \in Pks \ seen
<1> DEFINE F == Fresh(page, seen)
           n == Cardinality(F)
           d == Dedup(page, seen)
<1>1. Len(page) \in Nat /\ DOMAIN page = 1 .. Len(page) /\ \A i \in 1 .. Len(page) : page[i] \in Members BY LenProperties, ElementOfSeq
<1>2. F \in SUBSET (1 .. Len(page)) BY <1>1 DEF Fresh
<1>3. IsFiniteSet(1 .. Len(page)) /\ Cardinality(1 .. Len(page)) = Len(page)
  <2>1. 1 \in Int /\ Len(page) \in Int BY <1>1
  <2>2. /\ IsFiniteSet(1 .. Len(page))
        /\ Cardinality(1 .. Len(page)) = IF 1 > Len(page) THEN 0 ELSE Len(page) - 1 + 1
    BY <2>1, FS_Interval
  <2>3. (IF 1 > Len(page) THEN 0 ELSE Len(page) - 1 + 1) = Len(page) BY <1>1
  <2>4. QED BY <2>2, <2>3
<1>4. IsFiniteSet(F) /\ n <= Len(page) BY <1>2, <1>3, FS_Subset
<1>5. F \in SUBSET Nat BY <1>1, <1>2
<1>6. ASSUME NEW a \in F, NEW b \in F, page[a][1] = page[b][1] PROVE a = b
  <2>1. a \in 1 .. Len(page) /\ b \in 1 .. Len(page) BY <1>2
  <2>2. /\ \A j \in 1 .. a - 1 : page[j][1] # page[a][1]
        /\ \A j \in 1 .. b - 1 : page[j][1] # page[b][1] BY DEF Fresh
  <2>3. ~(a < b) BY <1>1, <1>6, <2>1, <2>2
  <2>4. ~(b < a) BY <1>1, <1>6, <2>1, <2>2
  <2>5. QED BY <1>1, <2>1, <2>3, <2>4
<1>7. \A a \in F : page[a] \in Members /\ page[a][1] \in Pks \ seen
  <2> TAKE a \in F
  <2>1. a \in 1 .. Len(page) /\ page[a][1] \notin seen BY <1>2 DEF Fresh
  <2>2. page[a] \in Members BY <1>1, <2>1
  <2>3. page[a][1] \in Pks BY <2>2, MemberParts
  <2>4. QED BY <2>1, <2>2, <2>3
<1>8. d = [i \in 1 .. n |-> page[Kth(F, i)]] BY DEF Dedup
<1> HIDE DEF F, n, d
<1>9. /\ n \in Nat
      /\ \A i \in 1 .. n : Kth(F, i) \in F
      /\ \A i, j \in 1 .. n : Kth(F, i) = Kth(F, j) => i = j
  BY <1>4, <1>5, KthFacts DEF n
<1>10. \A i \in 1 .. n : d[i] = page[Kth(F, i)] /\ page[Kth(F, i)] \in Members BY <1>7, <1>8, <1>9
<1>11. d \in Seq(Members) /\ Len(d) = n /\ DOMAIN d = 1 .. n BY <1>8, <1>9, <1>10
<1>12. DistinctPks(d)
  <2> SUFFICES ASSUME NEW i \in 1 .. n, NEW j \in 1 .. n, d[i][1] = d[j][1] PROVE i = j BY <1>11 DEF DistinctPks
  <2>1. Kth(F, i) \in F /\ Kth(F, j) \in F /\ page[Kth(F, i)][1] = page[Kth(F, j)][1] BY <1>9, <1>10
  <2>2. Kth(F, i) = Kth(F, j) BY <1>6, <2>1
  <2>3. QED BY <1>9, <2>2
<1>13. \A i \in DOMAIN d : d[i][1] \in Pks \ seen BY <1>7, <1>9, <1>10, <1>11
<1>14. QED BY <1>4, <1>11, <1>12, <1>13 DEF d

(***************************************************************************)
(* The steps of a stream.                                                  *)
(***************************************************************************)
\* What a stream that goes on keeps of itself.
Keeps(y, s) == y.out = s.out /\ y.hist = s.hist
StreamOK(s) == s \in StreamT /\ Len(s.items) <= PageRows /\ StreamShape(s)
\* A stream that has what it needs, but is not yet on its way.
Ready(s) == s \in StreamT /\ Len(s.items) <= PageRows /\ Once(s) /\ Sources(s)

LEMMA SeqFacts ==
    ASSUME NEW T, NEW q \in Seq(T)
    PROVE  Len(q) \in Nat /\ DOMAIN q = 1 .. Len(q) /\ (\A i \in DOMAIN q : q[i] \in T) /\ (q = <<>> <=> Len(q) = 0)
<1>1. Len(q) \in Nat /\ DOMAIN q = 1 .. Len(q) BY LenProperties
<1>2. \A i \in DOMAIN q : q[i] \in T BY <1>1, ElementOfSeq
<1>3. q = <<>> <=> Len(q) = 0 BY EmptySeq
<1>4. QED BY <1>1, <1>2, <1>3

LEMMA OnwardFacts ==
    ASSUME NEW s, Ready(s)
    PROVE  StreamOK(Onward(s)) /\ Keeps(Onward(s), s) /\ Onward(s).pc \in {"page", "fetch", "done"}
<1>1. s \in StreamT /\ Len(s.items) <= PageRows /\ Once(s) /\ Sources(s) BY DEF Ready
<1>2. s.items \in Seq(Members) /\ s.list \in Seq(Pks) /\ s.more \in BOOLEAN BY <1>1 DEF StreamT
<1>3. CASE s.items # <<>>
  <2>1. PICK y : y = [s EXCEPT !.pc = "fetch"] OBVIOUS
  <2>2. y \in StreamT BY <1>1, <2>1 DEF StreamT, StreamPcs
  <2>3. /\ y.pc = "fetch" /\ y.items = s.items /\ y.list = s.list /\ y.out = s.out /\ y.collect = s.collect
        /\ y.seen = s.seen /\ y.cached = s.cached /\ y.more = s.more /\ y.hist = s.hist BY <1>1, <2>1 DEF StreamT
  <2>4. Once(y) BY <1>1, <2>3 DEF Once
  <2>5. Sources(y) BY <1>1, <2>3 DEF Sources
  <2>6. Phase(y) BY <1>3, <2>3 DEF Phase
  <2>7. Onward(s) = y BY <1>3, <2>1 DEF Onward
  <2>8. QED BY <1>1, <2>2, <2>3, <2>4, <2>5, <2>6, <2>7 DEF StreamOK, StreamShape, Keeps
<1>4. CASE s.items = <<>> /\ s.list # <<>>
  <2>1. PICK b : b = Upto(s.list, PageRows) OBVIOUS
  <2>2. /\ b \in Seq(Pks) /\ Len(b) <= PageRows /\ Len(b) <= Len(s.list)
        /\ b # <<>> /\ \A i \in 1 .. Len(b) : b[i] = s.list[i] BY <1>2, <1>4, <2>1, UptoFacts, HotReadAssumption
  <2>3. /\ Len(b) \in Nat /\ DOMAIN b = 1 .. Len(b) /\ \A i \in 1 .. Len(b) : b[i] \in Pks BY <2>2, SeqFacts
  <2>4. Len(s.list) \in Nat /\ DOMAIN s.list = 1 .. Len(s.list) /\ \A i \in 1 .. Len(s.list) : s.list[i] \in Pks BY <1>2, SeqFacts
  <2>5. PICK it : it = [i \in DOMAIN b |-> <<b[i], 0, 0>>] OBVIOUS
  <2>6. /\ it \in Seq(Members) /\ Len(it) = Len(b) /\ DOMAIN it = 1 .. Len(b)
        /\ \A i \in 1 .. Len(b) : it[i][1] = b[i]
    <3>1. \A i \in 1 .. Len(b) : <<b[i], 0, 0>> \in Members BY <2>3 DEF Members
    <3>2. it = [i \in 1 .. Len(b) |-> <<b[i], 0, 0>>] BY <2>3, <2>5
    <3>3. QED BY <2>3, <3>1, <3>2
  <2>7. PICK r : r = SubSeq(s.list, Len(b) + 1, Len(s.list)) OBVIOUS
  <2>8. /\ r \in Seq(Pks) /\ Len(r) = Len(s.list) - Len(b) /\ DOMAIN r = 1 .. Len(r)
        /\ \A i \in 1 .. Len(r) : r[i] = s.list[i + Len(b)]
    <3>1. \A i \in Len(b) + 1 .. Len(s.list) : s.list[i] \in Pks BY <2>3, <2>4
    <3>2. /\ r \in Seq(Pks) /\ Len(r) = Len(s.list) - Len(b)
          /\ \A i \in 1 .. Len(s.list) - Len(b) : r[i] = s.list[i + Len(b)]
      BY <1>2, <2>2, <2>3, <2>4, <2>7, <3>1
    <3>3. QED BY <3>2, SeqFacts
  <2>9. PICK y : y = [s EXCEPT !.pc = "fetch", !.items = it, !.list = r] OBVIOUS
  <2>10. y \in StreamT BY <1>1, <2>6, <2>8, <2>9 DEF StreamT, StreamPcs
  <2>11. /\ y.pc = "fetch" /\ y.items = it /\ y.list = r /\ y.out = s.out /\ y.collect = s.collect
         /\ y.seen = s.seen /\ y.cached = s.cached /\ y.more = s.more /\ y.hist = s.hist BY <1>1, <2>9 DEF StreamT
  <2>12. s.cached /\ ~s.more BY <1>1, <1>4 DEF Sources
  <2>13. Once(y)
    <3>1. Distinct(r)
      <4> SUFFICES ASSUME NEW i \in 1 .. Len(r), NEW j \in 1 .. Len(r), r[i] = r[j] PROVE i = j BY <2>8 DEF Distinct
      <4>1. i + Len(b) \in DOMAIN s.list /\ j + Len(b) \in DOMAIN s.list BY <2>3, <2>4, <2>8
      <4>2. s.list[i + Len(b)] = s.list[j + Len(b)] BY <2>8
      <4>3. i + Len(b) = j + Len(b) BY <1>1, <4>1, <4>2 DEF Once, Distinct
      <4>4. QED BY <2>3, <4>3
    <3>2. DistinctPks(it)
      <4> SUFFICES ASSUME NEW i \in 1 .. Len(b), NEW j \in 1 .. Len(b), it[i][1] = it[j][1] PROVE i = j BY <2>6 DEF DistinctPks
      <4>1. i \in DOMAIN s.list /\ j \in DOMAIN s.list BY <2>2, <2>3, <2>4
      <4>2. s.list[i] = s.list[j] BY <2>2, <2>6
      <4>3. QED BY <1>1, <4>1, <4>2 DEF Once, Distinct
    <3>3. \A i \in DOMAIN s.out, j \in DOMAIN it : s.out[i][1] # it[j][1]
      <4> TAKE i \in DOMAIN s.out, j \in DOMAIN it
      <4>1. j \in DOMAIN s.list /\ it[j][1] = s.list[j] BY <2>2, <2>3, <2>4, <2>6
      <4>2. QED BY <1>1, <4>1 DEF Once
    <3>4. \A i \in DOMAIN s.out, j \in DOMAIN r : s.out[i][1] # r[j]
      <4> TAKE i \in DOMAIN s.out, j \in DOMAIN r
      <4>1. j + Len(b) \in DOMAIN s.list /\ r[j] = s.list[j + Len(b)] BY <2>3, <2>4, <2>8
      <4>2. QED BY <1>1, <4>1 DEF Once
    <3>5. \A i \in DOMAIN it, j \in DOMAIN r : it[i][1] # r[j]
      <4> TAKE i \in DOMAIN it, j \in DOMAIN r
      <4>1. j + Len(b) \in DOMAIN s.list /\ r[j] = s.list[j + Len(b)] BY <2>3, <2>4, <2>8
      <4>2. i \in DOMAIN s.list /\ it[i][1] = s.list[i] BY <2>2, <2>3, <2>4, <2>6
      <4>3. i # j + Len(b) BY <2>3, <2>6, <2>8
      <4>4. s.list[i] # s.list[j + Len(b)] BY <1>1, <4>1, <4>2, <4>3 DEF Once, Distinct
      <4>5. QED BY <4>1, <4>2, <4>4
    <3>6. Distinct(s.collect) /\ DistinctPks(s.out) BY <1>1 DEF Once
    <3>7. QED BY <2>11, <3>1, <3>2, <3>3, <3>4, <3>5, <3>6 DEF Once
  <2>14. Sources(y) BY <2>11, <2>12 DEF Sources
  <2>14a. it # <<>> BY <2>2, <2>3, <2>6, SeqFacts
  <2>15. Phase(y) BY <2>11, <2>14a DEF Phase
  <2>16. Onward(s) = y BY <1>4, <2>1, <2>5, <2>7, <2>9 DEF Onward
  <2>17. Len(y.items) <= PageRows BY <2>2, <2>6, <2>11
  <2>18. QED BY <2>10, <2>11, <2>13, <2>14, <2>15, <2>16, <2>17 DEF StreamOK, StreamShape, Keeps
<1>5. CASE s.items = <<>> /\ s.list = <<>>
  <2>1. PICK p : p = (IF s.more THEN "page" ELSE "done") OBVIOUS
  <2>2. p \in {"page", "done"} /\ (p = "page" => s.more) BY <1>2, <2>1
  <2>3. PICK y : y = [s EXCEPT !.pc = p] OBVIOUS
  <2>4. y \in StreamT BY <1>1, <2>2, <2>3 DEF StreamT, StreamPcs
  <2>5. /\ y.pc = p /\ y.items = s.items /\ y.list = s.list /\ y.out = s.out /\ y.collect = s.collect
        /\ y.seen = s.seen /\ y.cached = s.cached /\ y.more = s.more /\ y.hist = s.hist BY <1>1, <2>3 DEF StreamT
  <2>6. Once(y) BY <1>1, <2>5 DEF Once
  <2>7. Sources(y) BY <1>1, <2>5 DEF Sources
  <2>8. p = "page" => ~s.cached BY <1>1, <2>2 DEF Sources
  <2>9. Phase(y) BY <1>5, <2>2, <2>5, <2>8 DEF Phase
  <2>10. Onward(s) = y BY <1>5, <2>1, <2>3 DEF Onward
  <2>11. QED BY <1>1, <2>2, <2>4, <2>5, <2>6, <2>7, <2>9, <2>10 DEF StreamOK, StreamShape, Keeps
<1>6. QED BY <1>3, <1>4, <1>5

\* A page that has arrived from the bucket.
LEMMA TakeFacts ==
    ASSUME NEW s, Ready(s), ~s.cached, s.items = <<>>, NEW page \in Seq(Members), Len(page) <= PageRows
    PROVE  /\ Ready(Take(s, page)) /\ Keeps(Take(s, page), s)
           /\ ~Take(s, page).cached /\ Take(s, page).list = <<>>
<1>1. s \in StreamT /\ Len(s.items) <= PageRows /\ Once(s) /\ Sources(s) BY DEF Ready
<1>2. /\ s.seen \in SUBSET Pks /\ s.collect \in Seq(Pks) /\ s.cur \in Nat /\ s.out \in Seq(Pks \X Nat) /\ s.items \in Seq(Members)
      /\ s.list \in Seq(Pks)
  BY <1>1 DEF StreamT
<1>3. PICK new : new = Dedup(page, s.seen) OBVIOUS
<1>4. /\ new \in Seq(Members) /\ Len(new) <= Len(page) /\ DistinctPks(new)
      /\ \A i \in DOMAIN new : new[i][1] \in Pks \ s.seen
  BY <1>2, <1>3, DedupFacts
<1>5. Len(new) \in Nat /\ DOMAIN new = 1 .. Len(new) /\ Len(page) \in Nat BY <1>4, SeqFacts
<1>6. Len(new) <= PageRows BY <1>4, <1>5, HotReadAssumption
<1>7. PICK pks : pks = [i \in DOMAIN new |-> new[i][1]] OBVIOUS
<1>8. pks \in Seq(Pks) /\ Len(pks) = Len(new) /\ DOMAIN pks = 1 .. Len(new) /\ \A i \in DOMAIN new : pks[i] = new[i][1]
  <2>1. pks = [i \in 1 .. Len(new) |-> new[i][1]] BY <1>5, <1>7
  <2>2. \A i \in 1 .. Len(new) : new[i][1] \in Pks BY <1>4, <1>5
  <2>3. QED BY <1>5, <2>1, <2>2
<1>9. PICK col : col = (IF Covering THEN s.collect ELSE s.collect \o pks) OBVIOUS
<1>10. PICK sn : sn = s.seen \cup {new[i][1] : i \in DOMAIN new} OBVIOUS
<1>11. sn \in SUBSET Pks /\ (\A i \in DOMAIN new : new[i][1] \in sn) /\ s.seen \subseteq sn BY <1>2, <1>4, <1>10
<1>12. /\ \A i \in DOMAIN s.out : s.out[i][1] \in s.seen
       /\ \A i \in DOMAIN s.collect : s.collect[i] \in s.seen
       /\ s.list = <<>>
  BY <1>1 DEF Sources
<1>13. /\ col \in Seq(Pks) /\ Distinct(col) /\ \A i \in DOMAIN col : col[i] \in sn
  <2>1. Len(s.collect) \in Nat /\ DOMAIN s.collect = 1 .. Len(s.collect) BY <1>2, SeqFacts
  <2>2. CASE Covering
    <3>1. col = s.collect BY <1>9, <2>2
    <3>2. Distinct(s.collect) BY <1>1 DEF Once
    <3>3. QED BY <1>2, <1>11, <1>12, <3>1, <3>2
  <2>3. CASE ~Covering
    <3>1. PICK a, b : a = s.collect /\ b = pks OBVIOUS
    <3>2. /\ a \in Seq(Pks) /\ b \in Seq(Pks) /\ col = a \o b
          /\ Len(a) \in Nat /\ DOMAIN a = 1 .. Len(a) /\ Len(b) \in Nat /\ DOMAIN b = 1 .. Len(b)
      BY <1>2, <1>5, <1>8, <1>9, <2>1, <2>3, <3>1
    <3>3. /\ col \in Seq(Pks) /\ Len(col) = Len(a) + Len(b)
          /\ \A i \in 1 .. Len(a) + Len(b) : col[i] = IF i <= Len(a) THEN a[i] ELSE b[i - Len(a)]
      BY <3>2, ConcatProperties
    <3>4. DOMAIN col = 1 .. Len(a) + Len(b) BY <3>3, SeqFacts
    <3>5. Distinct(a) BY <1>1, <3>1 DEF Once
    <3>6. Distinct(b) BY <1>4, <1>5, <1>8, <3>1 DEF Distinct, DistinctPks
    <3>7. \A i \in DOMAIN a : a[i] \in s.seen BY <1>12, <3>1
    <3>8. \A i \in DOMAIN b : b[i] \notin s.seen /\ b[i] \in sn BY <1>4, <1>5, <1>8, <1>11, <3>1
    <3>9. \A i \in DOMAIN col : (i \in DOMAIN a /\ col[i] = a[i]) \/ (i - Len(a) \in DOMAIN b /\ col[i] = b[i - Len(a)] /\ i > Len(a))
      BY <3>2, <3>3, <3>4
    <3>10. Distinct(col)
      <4> SUFFICES ASSUME NEW i \in DOMAIN col, NEW j \in DOMAIN col, col[i] = col[j] PROVE i = j BY DEF Distinct
      <4>1. CASE i \in DOMAIN a /\ col[i] = a[i] /\ j \in DOMAIN a /\ col[j] = a[j]
        BY <3>5, <4>1 DEF Distinct
      <4>2. CASE i - Len(a) \in DOMAIN b /\ col[i] = b[i - Len(a)] /\ j - Len(a) \in DOMAIN b /\ col[j] = b[j - Len(a)]
        <5>1. i - Len(a) = j - Len(a) BY <3>6, <4>2 DEF Distinct
        <5>2. i \in Nat /\ j \in Nat BY <3>2, <3>4
        <5>3. QED BY <3>2, <5>1, <5>2
      <4>3. CASE (i \in DOMAIN a /\ col[i] = a[i] /\ j - Len(a) \in DOMAIN b /\ col[j] = b[j - Len(a)])
              \/ (j \in DOMAIN a /\ col[j] = a[j] /\ i - Len(a) \in DOMAIN b /\ col[i] = b[i - Len(a)])
        BY <3>7, <3>8, <4>3
      <4>4. QED BY <3>9, <4>1, <4>2, <4>3
    <3>11. \A i \in DOMAIN col : col[i] \in sn BY <1>11, <3>7, <3>8, <3>9
    <3>12. QED BY <3>3, <3>10, <3>11
  <2>4. QED BY <2>2, <2>3
<1>14. PICK more : more = (Len(page) = PageRows) OBVIOUS
<1>15. more \in BOOLEAN BY <1>14
<1>16. PICK cur : cur = (IF Len(page) = PageRows THEN s.cur + PageRows ELSE s.cur) OBVIOUS
<1>17. cur \in Nat BY <1>2, <1>16, HotReadAssumption
<1>18. <<>> \in Seq(Members) OBVIOUS
<1>19. PICK y : y = [s EXCEPT !.page = <<>>, !.items = new, !.seen = sn, !.collect = col, !.more = more, !.cur = cur] OBVIOUS
<1>20. y \in StreamT BY <1>1, <1>4, <1>11, <1>13, <1>15, <1>17, <1>18, <1>19 DEF StreamT
<1>21. /\ y.items = new /\ y.seen = sn /\ y.collect = col /\ y.out = s.out /\ y.hist = s.hist /\ y.list = s.list /\ y.cached = s.cached
  BY <1>1, <1>19 DEF StreamT
<1>22. Take(s, page) = y BY <1>3, <1>7, <1>9, <1>10, <1>14, <1>16, <1>19 DEF Take
<1>23. Once(y)
  <2>1. DistinctPks(s.out) /\ Distinct(s.list) BY <1>1 DEF Once
  <2>2. \A i \in DOMAIN s.out, j \in DOMAIN new : s.out[i][1] # new[j][1] BY <1>4, <1>12
  <2>3. DOMAIN s.list = {} BY <1>12, SeqFacts
  <2>4. QED BY <1>4, <1>13, <1>21, <2>1, <2>2, <2>3 DEF Once
<1>24. Sources(y) BY <1>11, <1>12, <1>13, <1>21 DEF Sources
<1>25. QED BY <1>6, <1>12, <1>20, <1>21, <1>22, <1>23, <1>24 DEF Ready, Keeps

\* A stream that has returned nothing yet gets a list of different pks.
LEMMA ListedFacts ==
    ASSUME NEW s, StreamOK(s), s.pc \in {"wait", "build"}, NEW q \in Seq(Pks), Distinct(q)
    PROVE  /\ Ready([s EXCEPT !.cached = TRUE, !.list = q]) /\ Keeps([s EXCEPT !.cached = TRUE, !.list = q], s)
           /\ StreamOK([s EXCEPT !.pc = "build"]) /\ Keeps([s EXCEPT !.pc = "build"], s)
<1>1. s \in StreamT /\ Len(s.items) <= PageRows /\ Once(s) /\ Sources(s) /\ Phase(s) BY DEF StreamOK, StreamShape
<1>2. s.items = <<>> /\ s.out = <<>> /\ ~s.cached /\ s.collect = <<>> /\ ~s.more BY <1>1 DEF Phase
<1>3. s.items \in Seq(Members) /\ s.out \in Seq(Pks \X Nat) BY <1>1 DEF StreamT
<1>4. DOMAIN s.items = {} /\ DOMAIN s.out = {} BY <1>2, <1>3, SeqFacts
<1>5. PICK y : y = [s EXCEPT !.cached = TRUE, !.list = q] OBVIOUS
<1>6. y \in StreamT BY <1>1, <1>5 DEF StreamT
<1>7. /\ y.items = s.items /\ y.list = q /\ y.out = s.out /\ y.collect = s.collect /\ y.hist = s.hist
      /\ y.cached = TRUE /\ y.more = s.more BY <1>1, <1>5 DEF StreamT
<1>8. Once(y) BY <1>1, <1>4, <1>7 DEF Once
<1>9. Sources(y) BY <1>2, <1>7 DEF Sources
<1>10. PICK z : z = [s EXCEPT !.pc = "build"] OBVIOUS
<1>11. z \in StreamT BY <1>1, <1>10 DEF StreamT, StreamPcs
<1>12. /\ z.pc = "build" /\ z.items = s.items /\ z.list = s.list /\ z.out = s.out /\ z.collect = s.collect
       /\ z.seen = s.seen /\ z.cached = s.cached /\ z.more = s.more /\ z.hist = s.hist BY <1>1, <1>10 DEF StreamT
<1>13. Once(z) BY <1>1, <1>12 DEF Once
<1>14. Sources(z) BY <1>1, <1>12 DEF Sources
<1>15. Phase(z) BY <1>2, <1>12 DEF Phase
<1>16. Ready(y) /\ Keeps(y, s) BY <1>1, <1>6, <1>7, <1>8, <1>9 DEF Ready, Keeps
<1>17. StreamOK(z) /\ Keeps(z, s) BY <1>1, <1>11, <1>12, <1>13, <1>14, <1>15 DEF StreamOK, StreamShape, Keeps
<1>18. QED BY <1>5, <1>10, <1>16, <1>17

LEMMA NoStreamFacts ==
    StreamOK(NoStream) /\ NoStream.pc = "idle" /\ NoStream.out = <<>> /\ NoStream.items = <<>>
<1>1. NoStream \in StreamT BY HotReadAssumption DEF NoStream, StreamT, StreamPcs
<1>2. /\ NoStream.pc = "idle" /\ NoStream.out = <<>> /\ NoStream.items = <<>> /\ NoStream.list = <<>> /\ NoStream.collect = <<>>
      /\ ~NoStream.cached /\ ~NoStream.more BY DEF NoStream
<1>3. DOMAIN << >> = {} /\ Len(<< >>) = 0 OBVIOUS
<1>4. Once(NoStream) BY <1>2, <1>3 DEF Once, Distinct, DistinctPks
<1>5. Sources(NoStream) BY <1>2, <1>3 DEF Sources
<1>6. Phase(NoStream) BY <1>2 DEF Phase
<1>7. QED BY <1>1, <1>2, <1>3, <1>4, <1>5, <1>6, HotReadAssumption DEF StreamOK, StreamShape

\* A stream that starts.
LEMMA StartFacts ==
    ASSUME NEW s \in StreamT, s.pc \in {"wait", "build"}, s.items = <<>>, s.list = <<>>, s.out = <<>>, s.collect = <<>>,
           ~s.cached, ~s.more
    PROVE  StreamOK(s)
<1>1. DOMAIN << >> = {} /\ Len(<< >>) = 0 OBVIOUS
<1>2. Once(s) BY <1>1 DEF Once, Distinct, DistinctPks
<1>3. Sources(s) BY <1>1 DEF Sources
<1>4. Phase(s) BY DEF Phase
<1>5. QED BY <1>1, <1>2, <1>3, <1>4, HotReadAssumption DEF StreamOK, StreamShape

LEMMA NoStreamFields ==
    /\ NoStream \in StreamT /\ NoStream.pc = "idle" /\ NoStream.out = <<>> /\ NoStream.items = <<>> /\ NoStream.list = <<>>
    /\ NoStream.collect = <<>> /\ ~NoStream.cached /\ ~NoStream.more
<1>1. NoStream \in StreamT BY NoStreamFacts DEF StreamOK
<1>2. QED BY <1>1 DEF NoStream

\* A stream between two commands.
LEMMA MovedFacts ==
    ASSUME NEW s, StreamOK(s), s.pc \in {"build", "page", "exists"}, NEW y \in StreamT,
           y.pc \in {"page", "exists"}, y.pc = "exists" => Len(y.page) <= PageRows,
           y.items = s.items, y.list = s.list, y.out = s.out, y.collect = s.collect,
           y.seen = s.seen, y.cached = s.cached, y.more = s.more, y.hist = s.hist
    PROVE  StreamOK(y) /\ Keeps(y, s)
<1>1. Once(s) /\ Sources(s) /\ Phase(s) /\ Len(s.items) <= PageRows BY DEF StreamOK, StreamShape
<1>2. Once(y) BY <1>1 DEF Once
<1>3. Sources(y) BY <1>1 DEF Sources
<1>4. Phase(y) BY <1>1 DEF Phase
<1>5. QED BY <1>1, <1>2, <1>3, <1>4 DEF StreamOK, StreamShape, Keeps

LEMMA TailFacts ==
    ASSUME NEW T, NEW q \in Seq(T), q # <<>>
    PROVE  /\ Head(q) = q[1] /\ q[1] \in T /\ 1 \in DOMAIN q /\ Tail(q) \in Seq(T) /\ Len(Tail(q)) = Len(q) - 1
           /\ \A i \in DOMAIN Tail(q) : i + 1 \in DOMAIN q /\ i + 1 # 1 /\ Tail(q)[i] = q[i + 1]
<1>1. Len(q) \in Nat /\ DOMAIN q = 1 .. Len(q) /\ Len(q) # 0 BY SeqFacts
<1>2. Tail(q) \in Seq(T) /\ Len(Tail(q)) = Len(q) - 1 /\ \A i \in 1 .. Len(q) - 1 : Tail(q)[i] = q[i + 1] BY HeadTailProperties
<1>3. DOMAIN Tail(q) = 1 .. Len(q) - 1 BY <1>2, SeqFacts
<1>4. Head(q) = q[1] OBVIOUS
<1>5. q[1] \in T /\ 1 \in DOMAIN q BY <1>1, SeqFacts
<1>6. QED BY <1>1, <1>2, <1>3, <1>4, <1>5

\* The first item is fetched: it is dropped, or returned with content n.
LEMMA FetchedFacts ==
    ASSUME NEW s, StreamOK(s), s.pc = "fetch", NEW n \in Nat
    PROVE  LET k == Head(s.items)[1]
               o == Append(s.out, <<k, n>>)
               d == Onward([s EXCEPT !.items = Tail(@)])
               e == Onward([[s EXCEPT !.out = Append(@, <<k, n>>)] EXCEPT !.items = Tail(@)])
           IN  /\ k \in Pks
               /\ StreamOK(d) /\ Keeps(d, s) /\ d.pc # "idle"
               /\ StreamOK(e) /\ e.out = o /\ e.hist = s.hist /\ e.pc # "idle"
               /\ \A i \in DOMAIN o : (i \in DOMAIN s.out /\ o[i] = s.out[i]) \/ o[i] = <<k, n>>
<1>1. s \in StreamT /\ Len(s.items) <= PageRows /\ Once(s) /\ Sources(s) /\ Phase(s) BY DEF StreamOK, StreamShape
<1>2. s.items \in Seq(Members) /\ s.out \in Seq(Pks \X Nat) /\ s.items # <<>> BY <1>1 DEF StreamT, Phase
<1>3. PICK t : t = Tail(s.items) OBVIOUS
<1>4. /\ Head(s.items) = s.items[1] /\ s.items[1] \in Members /\ 1 \in DOMAIN s.items
      /\ t \in Seq(Members) /\ Len(t) = Len(s.items) - 1
      /\ \A i \in DOMAIN t : i + 1 \in DOMAIN s.items /\ i + 1 # 1 /\ t[i] = s.items[i + 1]
  BY <1>2, <1>3, TailFacts
<1>5. PICK k : k = Head(s.items)[1] OBVIOUS
<1>6. k \in Pks /\ k = s.items[1][1] BY <1>4, <1>5, MemberParts
<1>7. Len(t) <= PageRows
  <2>1. Len(s.items) \in Nat BY <1>2, SeqFacts
  <2>2. QED BY <1>1, <1>4, <2>1, HotReadAssumption
<1>8. PICK o : o = Append(s.out, <<k, n>>) OBVIOUS
<1>9. /\ o \in Seq(Pks \X Nat) /\ DOMAIN o = 1 .. Len(s.out) + 1 /\ DOMAIN s.out = 1 .. Len(s.out) /\ Len(s.out) \in Nat
      /\ \A i \in DOMAIN s.out : o[i] = s.out[i]
      /\ o[Len(s.out) + 1] = <<k, n>>
  <2>1. <<k, n>> \in Pks \X Nat BY <1>6
  <2>2. Len(s.out) \in Nat /\ DOMAIN s.out = 1 .. Len(s.out) BY <1>2, SeqFacts
  <2>3. /\ o \in Seq(Pks \X Nat) /\ Len(o) = Len(s.out) + 1 /\ o[Len(s.out) + 1] = <<k, n>>
        /\ \A i \in 1 .. Len(s.out) : o[i] = s.out[i]
    BY <1>2, <1>8, <2>1, AppendProperties
  <2>4. DOMAIN o = 1 .. Len(o) BY <2>3, SeqFacts
  <2>5. QED BY <2>2, <2>3, <2>4
<1>10. \A i \in DOMAIN o : (i \in DOMAIN s.out /\ o[i] = s.out[i]) \/ (i = Len(s.out) + 1 /\ o[i] = <<k, n>>) BY <1>9
<1>11. PICK u : u = [s EXCEPT !.items = t] OBVIOUS
<1>12. u \in StreamT BY <1>1, <1>4, <1>11 DEF StreamT
<1>13. /\ u.items = t /\ u.list = s.list /\ u.out = s.out /\ u.collect = s.collect /\ u.seen = s.seen
       /\ u.cached = s.cached /\ u.more = s.more /\ u.hist = s.hist BY <1>1, <1>11 DEF StreamT
<1>14. DistinctPks(t)
  <2> SUFFICES ASSUME NEW i \in DOMAIN t, NEW j \in DOMAIN t, t[i][1] = t[j][1] PROVE i = j BY DEF DistinctPks
  <2>1. i + 1 \in DOMAIN s.items /\ j + 1 \in DOMAIN s.items /\ s.items[i + 1][1] = s.items[j + 1][1] BY <1>4
  <2>2. i + 1 = j + 1 BY <1>1, <2>1 DEF Once, DistinctPks
  <2>3. i \in Nat /\ j \in Nat BY <1>4, SeqFacts
  <2>4. QED BY <2>2, <2>3
<1>15. /\ Distinct(s.list) /\ Distinct(s.collect) /\ DistinctPks(s.items) /\ DistinctPks(s.out)
       /\ \A i \in DOMAIN s.out, j \in DOMAIN s.items : s.out[i][1] # s.items[j][1]
       /\ \A i \in DOMAIN s.out, j \in DOMAIN s.list : s.out[i][1] # s.list[j]
       /\ \A i \in DOMAIN s.items, j \in DOMAIN s.list : s.items[i][1] # s.list[j]
  BY <1>1 DEF Once
<1>16. /\ \A i \in DOMAIN s.out, j \in DOMAIN t : s.out[i][1] # t[j][1]
       /\ \A i \in DOMAIN t, j \in DOMAIN s.list : t[i][1] # s.list[j]
       /\ \A j \in DOMAIN t : k # t[j][1]
       /\ \A j \in DOMAIN s.list : k # s.list[j]
       /\ \A i \in DOMAIN s.out : s.out[i][1] # k
  <2>1. \A j \in DOMAIN t : k # t[j][1] BY <1>4, <1>6, <1>15 DEF DistinctPks
  <2>2. QED BY <1>4, <1>6, <1>15, <2>1
<1>17. Once(u) BY <1>13, <1>14, <1>15, <1>16 DEF Once
<1>18. ~s.cached => \A i \in DOMAIN t : t[i][1] \in s.seen BY <1>1, <1>4 DEF Sources
<1>19. Sources(u) BY <1>1, <1>13, <1>18 DEF Sources
<1>20. Ready(u) BY <1>7, <1>12, <1>13, <1>17, <1>19 DEF Ready
<1>21. StreamOK(Onward(u)) /\ Keeps(Onward(u), u) /\ Onward(u).pc # "idle" BY <1>20, OnwardFacts
<1>22. PICK v : v = [[s EXCEPT !.out = o] EXCEPT !.items = t] OBVIOUS
<1>23. v \in StreamT BY <1>1, <1>4, <1>9, <1>22 DEF StreamT
<1>24. /\ v.items = t /\ v.list = s.list /\ v.out = o /\ v.collect = s.collect /\ v.seen = s.seen
       /\ v.cached = s.cached /\ v.more = s.more /\ v.hist = s.hist BY <1>1, <1>22 DEF StreamT
<1>25. \A i \in DOMAIN o : (i \in DOMAIN s.out /\ o[i][1] = s.out[i][1]) \/ (i = Len(s.out) + 1 /\ o[i][1] = k) BY <1>10
<1>26. Once(v)
  <2>1. DistinctPks(o)
    <3> SUFFICES ASSUME NEW i \in DOMAIN o, NEW j \in DOMAIN o, o[i][1] = o[j][1] PROVE i = j BY DEF DistinctPks
    <3>1. QED BY <1>15, <1>16, <1>25 DEF DistinctPks
  <2>2. \A i \in DOMAIN o, j \in DOMAIN t : o[i][1] # t[j][1] BY <1>16, <1>25
  <2>3. \A i \in DOMAIN o, j \in DOMAIN s.list : o[i][1] # s.list[j] BY <1>15, <1>16, <1>25
  <2>4. QED BY <1>14, <1>15, <1>16, <1>24, <2>1, <2>2, <2>3 DEF Once
<1>27. Sources(v)
  <2>1. ~s.cached => k \in s.seen BY <1>1, <1>4, <1>6 DEF Sources
  <2>2. ~s.cached => \A i \in DOMAIN o : o[i][1] \in s.seen BY <1>1, <1>25, <2>1 DEF Sources
  <2>3. QED BY <1>1, <1>18, <1>24, <2>2 DEF Sources
<1>28. Ready(v) BY <1>7, <1>23, <1>24, <1>26, <1>27 DEF Ready
<1>29. StreamOK(Onward(v)) /\ Keeps(Onward(v), v) /\ Onward(v).pc # "idle" BY <1>28, OnwardFacts
<1>30. [s EXCEPT !.items = Tail(@)] = u BY <1>1, <1>3, <1>11 DEF StreamT
<1>31. [[s EXCEPT !.out = Append(@, <<k, n>>)] EXCEPT !.items = Tail(@)] = v BY <1>1, <1>3, <1>8, <1>22 DEF StreamT
<1>32. Keeps(Onward(u), s) BY <1>13, <1>21 DEF Keeps
<1>33. Onward(v).out = o /\ Onward(v).hist = s.hist BY <1>24, <1>29 DEF Keeps
<1>34. QED BY <1>5, <1>6, <1>8, <1>10, <1>21, <1>29, <1>30, <1>31, <1>32, <1>33

(***************************************************************************)
(* The parts of the invariant, and the steps that leave most of them alone. *)
(***************************************************************************)
RowT == [n : Nat, hit : BOOLEAN, iv : Nat]
CachedT == [n : Nat, hit : BOOLEAN, bound : BOOLEAN, cut : BOOLEAN]
ReplicaT == [alive : BOOLEAN, mem : Buckets]
MgrT == [pc : {"idle", "review", "unlink", "eval", "aeval", "register", "down"}, i : Nat, snap : Buckets, cold : Nat]
StoreOK == row \in [Pks -> RowT] /\ lost \in SUBSET Pks /\ src \in Buckets
ReplicasOK == rep \in [1 .. K -> ReplicaT] /\ reg \in {0, K} /\ stat \in BOOLEAN /\ cand \in BOOLEAN /\ mgr \in MgrT
ListOK == l1 \in Seq(Seq(Pks)) /\ Len(l1) <= 1 /\ ListShape
CachesOK == repc \in {0, K, NoEntry} /\ rc \in [Pks -> CachedT]
StreamsOK == st \in [Streams -> StreamT] /\ \A x \in Streams : StreamOK(st[x])
CountsOK == writes \in Nat /\ downs \in Nat

LEMMA HParts ==
    /\ HInv <=> (StoreOK /\ ReplicasOK /\ ListOK /\ CachesOK /\ StreamsOK /\ CountsOK)
    /\ HInv' <=> (StoreOK' /\ ReplicasOK' /\ ListOK' /\ CachesOK' /\ StreamsOK' /\ CountsOK')
BY Zenon DEF HInv, HTypeOK, StoreOK, ReplicasOK, ListOK, CachesOK, StreamsOK, CountsOK, RowT, CachedT, ReplicaT, MgrT, StreamOK

\* What happens to a query while others move.
Calm == \A x \in Sessions : \/ Keeps(st'[x], st[x]) /\ (st'[x].pc # "idle" => st[x].pc # "idle")
                            \/ st'[x] = NoStream

LEMMA CalmFacts ==
    ASSUME SInv, UNCHANGED <<row, lost, rc>>, Calm
    PROVE  SInv'
<1>1. CacheShape' BY DEF SInv, CacheShape
<1>2. Told' = Told BY DEF Told, Now
<1>3. NoStream.pc = "idle" /\ NoStream.out = <<>> BY NoStreamFacts
<1>4. Sound'
  <2> SUFFICES ASSUME NEW x \in Sessions, st'[x].pc # "idle" PROVE Told \subseteq st'[x].hist BY <1>2, Zenon DEF Sound
  <2>1. st[x].pc # "idle" /\ st'[x].hist = st[x].hist BY <1>3 DEF Calm, Keeps
  <2>2. QED BY <2>1 DEF SInv, Sound
<1>5. ReadsSound'
  <2> SUFFICES ASSUME NEW x \in Sessions, NEW i \in DOMAIN st'[x].out PROVE st'[x].out[i] \in st'[x].hist BY DEF ReadsSound
  <2>1. CASE st'[x] = NoStream BY <1>3, <2>1
  <2>2. CASE Keeps(st'[x], st[x])
    <3>1. st'[x].out = st[x].out /\ st'[x].hist = st[x].hist BY <2>2 DEF Keeps
    <3>2. QED BY <3>1 DEF SInv, ReadsSound
  <2>3. QED BY <2>1, <2>2 DEF Calm
<1>6. QED BY <1>1, <1>4, <1>5 DEF SInv

LEMMA StoreTypes ==
    ASSUME StoreOK, CachesOK
    PROVE  /\ \A k \in Pks : row[k].n \in Nat /\ row[k].hit \in BOOLEAN /\ row[k].iv \in Nat
           /\ \A k \in Pks : rc[k].n \in Nat /\ rc[k].hit \in BOOLEAN /\ rc[k].bound \in BOOLEAN /\ rc[k].cut \in BOOLEAN
BY DEF StoreOK, CachesOK, RowT, CachedT

LEMMA BucketFacts ==
    /\ {} \in Buckets
    /\ \A S \in Buckets, k \in Pks, r \in RowT : S \ {Member(k, r)} \in Buckets /\ S \cup {Member(k, r)} \in Buckets
<1>1. {} \in Buckets BY FS_EmptySet DEF Buckets
<1>2. ASSUME NEW S \in Buckets, NEW k \in Pks, NEW r \in RowT
      PROVE  S \ {Member(k, r)} \in Buckets /\ S \cup {Member(k, r)} \in Buckets
  <2>1. S \in SUBSET Members /\ IsFiniteSet(S) BY DEF Buckets
  <2>2. r.n \in Nat /\ r.iv \in Nat BY DEF RowT
  <2>3. Member(k, r) \in Members BY <2>2 DEF Member, Members
  <2>4. PICK m \in Members : m = Member(k, r) BY <2>3
  <2>5. IsFiniteSet(S \cup {m}) BY <2>1, FS_AddElement
  <2>6. IsFiniteSet(S \ {m}) BY <2>1, FS_RemoveElement
  <2>7. QED BY <2>1, <2>4, <2>5, <2>6 DEF Buckets
<1>3. QED BY <1>1, <1>2

LEMMA WatchFacts ==
    ASSUME StreamsOK, NEW k \in Pks, NEW n \in Nat
    PROVE  /\ Watch(k, n) \in [Streams -> StreamT]
           /\ \A x \in Streams : /\ StreamOK(Watch(k, n)[x])
                                 /\ Watch(k, n)[x].out = st[x].out /\ Watch(k, n)[x].pc = st[x].pc
                                 /\ st[x].hist \subseteq Watch(k, n)[x].hist
                                 /\ (x \in Sessions /\ st[x].pc # "idle") => <<k, n>> \in Watch(k, n)[x].hist
<1>1. ASSUME NEW x \in Streams
      PROVE  /\ StreamOK(Watch(k, n)[x])
             /\ Watch(k, n)[x].out = st[x].out /\ Watch(k, n)[x].pc = st[x].pc
             /\ st[x].hist \subseteq Watch(k, n)[x].hist
             /\ (x \in Sessions /\ st[x].pc # "idle") => <<k, n>> \in Watch(k, n)[x].hist
  <2>1. StreamOK(st[x]) BY DEF StreamsOK
  <2>2. PICK s : s = st[x] OBVIOUS
  <2>3. s \in StreamT /\ Once(s) /\ Sources(s) /\ Phase(s) /\ Len(s.items) <= PageRows BY <2>1, <2>2 DEF StreamOK, StreamShape
  <2>4. PICK h : h = s.hist \cup {<<k, n>>} OBVIOUS
  <2>5. h \in SUBSET (Pks \X Nat) BY <2>3, <2>4 DEF StreamT
  <2>6. PICK y : y = [s EXCEPT !.hist = h] OBVIOUS
  <2>7. y \in StreamT BY <2>3, <2>5, <2>6 DEF StreamT
  <2>8. /\ y.pc = s.pc /\ y.page = s.page /\ y.items = s.items /\ y.list = s.list /\ y.out = s.out /\ y.collect = s.collect
        /\ y.seen = s.seen /\ y.cached = s.cached /\ y.more = s.more /\ y.hist = h BY <2>3, <2>6 DEF StreamT
  <2>9. Once(y) BY <2>3, <2>8 DEF Once
  <2>10. Sources(y) BY <2>3, <2>8 DEF Sources
  <2>11. Phase(y) BY <2>3, <2>8 DEF Phase
  <2>12. StreamOK(y) BY <2>3, <2>7, <2>8, <2>9, <2>10, <2>11 DEF StreamOK, StreamShape
  <2>13. Watch(k, n)[x] = IF x \in Sessions /\ s.pc # "idle" THEN y ELSE s BY <2>2, <2>4, <2>6 DEF Watch
  <2>14. QED BY <2>1, <2>2, <2>4, <2>8, <2>12, <2>13
<1>2. PICK f : f = Watch(k, n) OBVIOUS
<1>3. f = [x \in Streams |-> f[x]] BY <1>2 DEF Watch
<1>4. \A x \in Streams : f[x] \in StreamT BY <1>1, <1>2 DEF StreamOK
<1>5. f \in [Streams -> StreamT] BY <1>3, <1>4
<1>6. QED BY <1>1, <1>2, <1>5

(***************************************************************************)
(* The writers.                                                            *)
(***************************************************************************)
LEMMA NoRowT == NoRow \in RowT /\ NoRow.n = 0 /\ NoRow.hit = FALSE
BY DEF NoRow, RowT

\* Fewer contents to tell.
LEMMA LessTold ==
    ASSUME SInv, UNCHANGED st, CacheShape', Told' \subseteq Told
    PROVE  SInv'
<1>1. Sound'
  <2> SUFFICES ASSUME NEW x \in Sessions, st[x].pc # "idle" PROVE Told' \subseteq st[x].hist BY Zenon DEF Sound
  <2>1. QED BY DEF SInv, Sound
<1>2. ReadsSound' BY DEF SInv, ReadsSound
<1>3. QED BY <1>1, <1>2 DEF SInv

LEMMA CommitStep ==
    ASSUME HInv, NEW k \in Pks, NEW hit \in BOOLEAN, NEW short \in BOOLEAN, Commit(k, hit, short)
    PROVE  HInv' /\ (SInv => SInv')
<1>1. StoreOK /\ ReplicasOK /\ ListOK /\ CachesOK /\ StreamsOK /\ CountsOK BY HParts
<1>2. PICK old : old = row[k] OBVIOUS
<1>3. PICK n : n = writes + 2 OBVIOUS
<1>4. n \in Nat /\ n # 0 BY <1>1, <1>3 DEF CountsOK
<1>5. PICK since : since = IF old.hit THEN old.iv ELSE n OBVIOUS
<1>6. old \in RowT BY <1>1, <1>2 DEF StoreOK
<1>7. since \in Nat BY <1>4, <1>5, <1>6 DEF RowT
<1>8. PICK new : new = [n |-> n, hit |-> hit, iv |-> since] OBVIOUS
<1>9. new \in RowT /\ new.n = n /\ new.hit = hit BY <1>4, <1>7, <1>8 DEF RowT
<1>10. /\ row' = [row EXCEPT ![k] = new]
       /\ src' = (IF old.hit /\ ~hit THEN src \ {Member(k, old)} ELSE src) \cup (IF ~old.hit /\ hit THEN {Member(k, new)} ELSE {})
       /\ st' = IF hit THEN Watch(k, n) ELSE st
       /\ lost' = lost \ {k} /\ writes' = writes + 1
       /\ rc' = (IF short THEN [rc EXCEPT ![k] = [rc[k] EXCEPT !.cut = TRUE]] ELSE rc)
       /\ UNCHANGED <<l4, mgr, repc, l1, downs>>
  BY <1>2, <1>3, <1>5, <1>8 DEF Commit
<1>11. UNCHANGED <<rep, reg, stat, cand, mgr, repc, l1, downs>> BY <1>10 DEF l4
<1>11a. /\ rc' \in [Pks -> CachedT]
        /\ \A j \in Pks : rc'[j].n = rc[j].n /\ rc'[j].hit = rc[j].hit /\ rc'[j].bound = rc[j].bound /\ (rc[j].cut => rc'[j].cut)
  <2>1. rc \in [Pks -> CachedT] BY <1>1 DEF CachesOK
  <2>2. CASE ~short BY <1>10, <2>1, <2>2
  <2>3. CASE short
    <3>1. PICK o \in CachedT : o = rc[k] BY <2>1
    <3>2. PICK w : w = [o EXCEPT !.cut = TRUE] OBVIOUS
    <3>3. w \in CachedT /\ w.n = o.n /\ w.hit = o.hit /\ w.bound = o.bound /\ w.cut BY <3>2 DEF CachedT
    <3>4. rc' = [rc EXCEPT ![k] = w] BY <1>10, <2>3, <3>1, <3>2
    <3>5. rc' \in [Pks -> CachedT] /\ rc'[k] = w /\ \A j \in Pks : j # k => rc'[j] = rc[j] BY <2>1, <3>3, <3>4
    <3>6. QED BY <3>1, <3>3, <3>5
  <2>4. QED BY <2>2, <2>3
<1>12. src' \in Buckets
  <2>1. src \in Buckets BY <1>1 DEF StoreOK
  <2>2. src \ {Member(k, old)} \in Buckets /\ src \cup {Member(k, new)} \in Buckets BY <1>6, <1>9, <2>1, BucketFacts
  <2>3. src' \in {src, src \ {Member(k, old)}, src \cup {Member(k, new)}} BY <1>10
  <2>4. QED BY <2>1, <2>2, <2>3
<1>13. StoreOK' BY <1>1, <1>9, <1>10, <1>12 DEF StoreOK
<1>14. ReplicasOK' /\ ListOK' /\ CachesOK' BY <1>1, <1>11, <1>11a DEF ReplicasOK, ListOK, ListShape, CachesOK
<1>15. CountsOK' BY <1>1, <1>10, <1>11 DEF CountsOK
<1>16. StreamsOK'
  <2>1. CASE hit BY <1>1, <1>4, <1>10, <2>1, WatchFacts DEF StreamsOK
  <2>2. CASE ~hit BY <1>1, <1>10, <2>2 DEF StreamsOK
  <2>3. QED BY <2>1, <2>2
<1>17. HInv' BY <1>13, <1>14, <1>15, <1>16, HParts
<1>18. ASSUME SInv PROVE SInv'
  <2>1. row'[k] = new /\ \A j \in Pks : j # k => row'[j] = row[j] BY <1>1, <1>10 DEF StoreOK
  <2>2. CacheShape'
    <3> SUFFICES ASSUME NEW j \in Pks PROVE /\ rc'[j].n # 0 => (rc'[j].bound <=> j \in Mortal)
                                            /\ j \in lost' => row'[j].n = 0 /\ (rc'[j].n = 0 \/ rc'[j].cut)
      BY Zenon DEF CacheShape
    <3>1. /\ rc[j].n # 0 => (rc[j].bound <=> j \in Mortal)
          /\ j \in lost => row[j].n = 0 /\ (rc[j].n = 0 \/ rc[j].cut) BY <1>18 DEF SInv, CacheShape
    <3>2. j \in lost' => j # k /\ j \in lost BY <1>10
    <3>3. QED BY <1>11a, <2>1, <3>1, <3>2
  <2>3. \A p \in Told' : p \in Told \/ (hit /\ p = <<k, n>>)
    <3> SUFFICES ASSUME NEW j \in Pks, NEW p,
                        \/ row'[j].hit /\ p = <<j, row'[j].n>>
                        \/ rc[j].n # 0 /\ rc[j].hit /\ p = <<j, rc[j].n>>
                 PROVE  p \in Told \/ (hit /\ p = <<k, n>>)
      BY <1>11a DEF Told, Now
    <3>1. CASE rc[j].n # 0 /\ rc[j].hit /\ p = <<j, rc[j].n>> BY <3>1 DEF Told
    <3>2. CASE row'[j].hit /\ p = <<j, row'[j].n>> /\ j # k BY <2>1, <3>2 DEF Told, Now
    <3>3. CASE row'[j].hit /\ p = <<j, row'[j].n>> /\ j = k BY <1>9, <2>1, <3>3
    <3>4. QED BY <3>1, <3>2, <3>3
  <2>4. \A x \in Sessions : /\ st'[x].out = st[x].out /\ st'[x].pc = st[x].pc /\ st[x].hist \subseteq st'[x].hist
                            /\ (hit /\ st[x].pc # "idle") => <<k, n>> \in st'[x].hist
    <3> TAKE x \in Sessions
    <3>1. x \in Streams BY DEF Streams
    <3>2. CASE hit BY <1>1, <1>4, <1>10, <3>1, <3>2, WatchFacts
    <3>3. CASE ~hit BY <1>10, <3>3
    <3>4. QED BY <3>2, <3>3
  <2>5. Sound'
    <3> SUFFICES ASSUME NEW x \in Sessions, st'[x].pc # "idle", NEW p \in Told' PROVE p \in st'[x].hist BY Zenon DEF Sound
    <3>1. Told \subseteq st[x].hist BY <1>18, <2>4 DEF SInv, Sound
    <3>2. QED BY <2>3, <2>4, <3>1
  <2>6. ReadsSound'
    <3> SUFFICES ASSUME NEW x \in Sessions, NEW i \in DOMAIN st'[x].out PROVE st'[x].out[i] \in st'[x].hist BY DEF ReadsSound
    <3>1. i \in DOMAIN st[x].out /\ st'[x].out[i] = st[x].out[i] BY <2>4
    <3>2. st[x].out[i] \in st[x].hist BY <1>18, <3>1 DEF SInv, ReadsSound
    <3>3. QED BY <2>4, <3>1, <3>2
  <2>7. QED BY <2>2, <2>5, <2>6 DEF SInv
<1>19. QED BY <1>17, <1>18

LEMMA DeleteRowStep ==
    ASSUME HInv, NEW k \in Pks, DeleteRow(k)
    PROVE  HInv' /\ (SInv => SInv')
<1>1. StoreOK /\ ReplicasOK /\ ListOK /\ CachesOK /\ StreamsOK /\ CountsOK BY HParts
<1>2. /\ row' = [row EXCEPT ![k] = NoRow] /\ src' = (IF row[k].hit THEN src \ {Member(k, row[k])} ELSE src)
      /\ writes' = writes + 1 /\ UNCHANGED <<lost, rep, reg, stat, cand, mgr, repc, l1, rc, st, downs>>
  BY DEF DeleteRow, l4, near
<1>3. src' \in Buckets
  <2>1. src \in Buckets /\ row[k] \in RowT BY <1>1 DEF StoreOK
  <2>2. src \ {Member(k, row[k])} \in Buckets BY <2>1, BucketFacts
  <2>3. QED BY <1>2, <2>1, <2>2
<1>4. StoreOK' BY <1>1, <1>2, <1>3, NoRowT DEF StoreOK
<1>5. ReplicasOK' /\ ListOK' /\ CachesOK' /\ StreamsOK' BY <1>1, <1>2 DEF ReplicasOK, ListOK, ListShape, CachesOK, StreamsOK
<1>6. CountsOK' BY <1>1, <1>2 DEF CountsOK
<1>7. HInv' BY <1>4, <1>5, <1>6, HParts
<1>8. ASSUME SInv PROVE SInv'
  <2>1. row'[k] = NoRow /\ \A j \in Pks : j # k => row'[j] = row[j] BY <1>1, <1>2 DEF StoreOK
  <2>2. CacheShape'
    <3> SUFFICES ASSUME NEW j \in Pks PROVE /\ rc[j].n # 0 => (rc[j].bound <=> j \in Mortal)
                                            /\ j \in lost => row'[j].n = 0 /\ (rc[j].n = 0 \/ rc[j].cut)
      BY <1>2, Zenon DEF CacheShape
    <3>1. /\ rc[j].n # 0 => (rc[j].bound <=> j \in Mortal)
          /\ j \in lost => row[j].n = 0 /\ (rc[j].n = 0 \/ rc[j].cut) BY <1>8 DEF SInv, CacheShape
    <3>2. QED BY <2>1, <3>1, NoRowT
  <2>3. Told' \subseteq Told
    <3>1. \A j \in Pks : row'[j].hit => row[j].hit /\ row'[j].n = row[j].n BY <2>1, NoRowT
    <3>2. QED BY <1>2, <3>1 DEF Told, Now
  <2>4. QED BY <1>2, <1>8, <2>2, <2>3, LessTold
<1>9. QED BY <1>7, <1>8

\* An entry of the row cache that ends.
LEMMA EndedFacts ==
    ASSUME CachesOK, NEW k \in Pks
    PROVE  LET f == [rc EXCEPT ![k] = NoCache]
           IN  f \in [Pks -> CachedT] /\ f[k].n = 0 /\ \A j \in Pks : j # k => f[j] = rc[j]
<1>1. PICK z : z = NoCache OBVIOUS
<1>2. z \in CachedT /\ z.n = 0 BY <1>1 DEF CachedT, NoCache
<1>3. PICK f : f = [rc EXCEPT ![k] = z] OBVIOUS
<1>4. f \in [Pks -> CachedT] /\ f[k] = z /\ \A j \in Pks : j # k => f[j] = rc[j] BY <1>2, <1>3 DEF CachesOK
<1>5. QED BY <1>1, <1>2, <1>3, <1>4

LEMMA ExpireStep ==
    ASSUME HInv, NEW k \in Pks, Expire(k)
    PROVE  HInv' /\ (SInv => SInv')
<1>1. StoreOK /\ ReplicasOK /\ ListOK /\ CachesOK /\ StreamsOK /\ CountsOK BY HParts
<1>2. PICK f : f = [rc EXCEPT ![k] = NoCache] OBVIOUS
<1>3. f \in [Pks -> CachedT] /\ f[k].n = 0 /\ \A j \in Pks : j # k => f[j] = rc[j] BY <1>1, <1>2, EndedFacts
<1>4. /\ k \in Mortal /\ row' = [row EXCEPT ![k] = NoRow] /\ lost' = lost \cup {k}
      /\ rc' = (IF rc[k].bound /\ ~rc[k].cut THEN f ELSE rc)
      /\ UNCHANGED <<src, rep, reg, stat, cand, mgr, repc, l1, st, writes, downs>>
  BY <1>2 DEF Expire, Ends, l4
<1>5. StoreOK' BY <1>1, <1>4, NoRowT DEF StoreOK
<1>6. CachesOK' BY <1>1, <1>3, <1>4 DEF CachesOK
<1>7. ReplicasOK' /\ ListOK' /\ StreamsOK' /\ CountsOK' BY <1>1, <1>4 DEF ReplicasOK, ListOK, ListShape, StreamsOK, CountsOK
<1>8. HInv' BY <1>5, <1>6, <1>7, HParts
<1>9. ASSUME SInv PROVE SInv'
  <2>1. row'[k] = NoRow /\ \A j \in Pks : j # k => row'[j] = row[j] BY <1>1, <1>4 DEF StoreOK
  <2>2. (rc'[k].n = 0 \/ (rc'[k] = rc[k] /\ rc[k].cut)) /\ \A j \in Pks : j # k => rc'[j] = rc[j]
    <3>1. rc[k].n # 0 => (rc[k].bound <=> k \in Mortal) BY <1>9 DEF SInv, CacheShape
    <3>2. CASE rc[k].bound /\ ~rc[k].cut BY <1>3, <1>4, <3>2
    <3>3. CASE ~rc[k].bound \/ rc[k].cut
      <4>1. rc' = rc BY <1>4, <3>3
      <4>2. rc[k].n = 0 \/ rc[k].cut BY <1>4, <3>1, <3>3
      <4>3. QED BY <4>1, <4>2
    <3>4. QED BY <3>2, <3>3
  <2>3. CacheShape'
    <3> SUFFICES ASSUME NEW j \in Pks PROVE /\ rc'[j].n # 0 => (rc'[j].bound <=> j \in Mortal)
                                            /\ j \in lost' => row'[j].n = 0 /\ (rc'[j].n = 0 \/ rc'[j].cut)
      BY Zenon DEF CacheShape
    <3>1. /\ rc[j].n # 0 => (rc[j].bound <=> j \in Mortal)
          /\ j \in lost => row[j].n = 0 /\ (rc[j].n = 0 \/ rc[j].cut) BY <1>9 DEF SInv, CacheShape
    <3>2. CASE j = k BY <2>1, <2>2, <3>1, <3>2, NoRowT
    <3>3. CASE j # k BY <1>4, <2>1, <2>2, <3>1, <3>3
    <3>4. QED BY <3>2, <3>3
  <2>4. Told' \subseteq Told
    <3>1. \A j \in Pks : row'[j].hit => row[j].hit /\ row'[j].n = row[j].n BY <2>1, NoRowT
    <3>2. \A j \in Pks : rc'[j].n # 0 => rc'[j] = rc[j] BY <2>2
    <3>3. QED BY <3>1, <3>2 DEF Told, Now
  <2>5. QED BY <1>4, <1>9, <2>3, <2>4, LessTold
<1>10. QED BY <1>8, <1>9

LEMMA RcLapsesStep ==
    ASSUME HInv, NEW k \in Pks, RcLapses(k)
    PROVE  HInv' /\ (SInv => SInv')
<1>1. StoreOK /\ ReplicasOK /\ ListOK /\ CachesOK /\ StreamsOK /\ CountsOK BY HParts
<1>2. /\ rc' = [rc EXCEPT ![k] = NoCache]
      /\ UNCHANGED <<row, lost, src, rep, reg, stat, cand, mgr, repc, l1, st, writes, downs>>
  BY DEF RcLapses, CStep, hstore, l4
<1>3. rc' \in [Pks -> CachedT] /\ rc'[k].n = 0 /\ \A j \in Pks : j # k => rc'[j] = rc[j] BY <1>1, <1>2, EndedFacts
<1>4. CachesOK' BY <1>1, <1>2, <1>3 DEF CachesOK
<1>5. StoreOK' /\ ReplicasOK' /\ ListOK' /\ StreamsOK' /\ CountsOK'
  BY <1>1, <1>2 DEF StoreOK, ReplicasOK, ListOK, ListShape, StreamsOK, CountsOK
<1>6. HInv' BY <1>4, <1>5, HParts
<1>7. ASSUME SInv PROVE SInv'
  <2>1. CacheShape'
    <3> SUFFICES ASSUME NEW j \in Pks PROVE /\ rc'[j].n # 0 => (rc'[j].bound <=> j \in Mortal)
                                            /\ j \in lost => row[j].n = 0 /\ (rc'[j].n = 0 \/ rc'[j].cut)
      BY <1>2, Zenon DEF CacheShape
    <3>1. /\ rc[j].n # 0 => (rc[j].bound <=> j \in Mortal)
          /\ j \in lost => row[j].n = 0 /\ (rc[j].n = 0 \/ rc[j].cut) BY <1>7 DEF SInv, CacheShape
    <3>2. CASE j = k BY <1>3, <3>1, <3>2
    <3>3. CASE j # k BY <1>3, <3>1, <3>3
    <3>4. QED BY <3>2, <3>3
  <2>2. Told' \subseteq Told
    <3>1. \A j \in Pks : rc'[j].n # 0 => rc'[j] = rc[j] BY <1>3
    <3>2. QED BY <1>2, <3>1 DEF Told, Now
  <2>3. QED BY <1>2, <1>7, <2>1, <2>2, LessTold
<1>8. QED BY <1>6, <1>7

(***************************************************************************)
(* The controller and the near caches.                                     *)
(***************************************************************************)
LEMMA StillCalm ==
    ASSUME UNCHANGED st
    PROVE  Calm
BY DEF Calm, Keeps

LEMMA MgrRecords ==
    ASSUME ReplicasOK, src \in Buckets
    PROVE  /\ \A p \in {"idle", "review", "down"} : [IdleM EXCEPT !.pc = p] \in MgrT
           /\ \A p \in {"eval", "aeval"}, c \in Nat : Refresh(p, c) \in MgrT
           /\ \A p \in {"idle", "review", "unlink", "eval", "aeval", "register", "down"} : [mgr EXCEPT !.pc = p] \in MgrT
           /\ IdleM \in MgrT
<1>1. {} \in Buckets BY BucketFacts
<1>2. IdleM \in MgrT BY <1>1 DEF IdleM, MgrT
<1>3. \A p \in {"idle", "review", "down"} : [IdleM EXCEPT !.pc = p] \in MgrT BY <1>2 DEF MgrT
<1>4. \A p \in {"eval", "aeval"}, c \in Nat : Refresh(p, c) \in MgrT BY DEF Refresh, MgrT
<1>5. \A p \in {"idle", "review", "unlink", "eval", "aeval", "register", "down"} : [mgr EXCEPT !.pc = p] \in MgrT
  BY DEF ReplicasOK, MgrT
<1>6. QED BY <1>2, <1>3, <1>4, <1>5

LEMMA L4TickStep ==
    ASSUME ReplicasOK, src \in Buckets, L4Tick
    PROVE  ReplicasOK'
<1>1. PICK cold : cold = IF stat THEN 0 ELSE mgr.cold + 1 OBVIOUS
<1>2. mgr \in MgrT /\ mgr.cold \in Nat BY DEF ReplicasOK, MgrT
<1>3. cold \in Nat BY <1>1, <1>2
<1>4. mgr' = (IF reg = 0 THEN [IdleM EXCEPT !.pc = "review"]
              ELSE IF cold >= ColdTicks THEN [mgr EXCEPT !.pc = "unlink", !.cold = cold, !.i = 1]
              ELSE Refresh("eval", cold))
  BY <1>1 DEF L4Tick
<1>5. [mgr EXCEPT !.pc = "unlink", !.cold = cold, !.i = 1] \in MgrT BY <1>2, <1>3 DEF MgrT
<1>6. mgr' \in MgrT BY <1>3, <1>4, <1>5, MgrRecords
<1>7. UNCHANGED <<rep, reg, stat, cand>> BY DEF L4Tick, l4
<1>8. QED BY <1>6, <1>7 DEF ReplicasOK

LEMMA RefreshEvalStep ==
    ASSUME ReplicasOK, CountsOK, RefreshEval
    PROVE  ReplicasOK' /\ CountsOK'
<1>1. mgr \in MgrT /\ mgr.i \in Nat /\ mgr.snap \in Buckets BY DEF ReplicasOK, MgrT
<1>2. PICK r : r = [alive |-> mgr.snap # {}, mem |-> mgr.snap] OBVIOUS
<1>3. r \in ReplicaT BY <1>1, <1>2 DEF ReplicaT
<1>4. rep' = [rep EXCEPT ![mgr.i] = r] BY <1>2 DEF RefreshEval
<1>5. rep' \in [1 .. K -> ReplicaT] BY <1>3, <1>4 DEF ReplicasOK
<1>6. PICK j : j = mgr.i + 1 OBVIOUS
<1>7. PICK p : p = IF mgr.pc = "eval" THEN "review" ELSE "register" OBVIOUS
<1>8. j \in Nat /\ p \in {"review", "register"} BY <1>1, <1>6, <1>7
<1>9. mgr' = (IF mgr.i < K THEN [mgr EXCEPT !.i = j] ELSE [mgr EXCEPT !.pc = p, !.snap = {}, !.i = 0])
  BY <1>6, <1>7 DEF RefreshEval
<1>10. [mgr EXCEPT !.i = j] \in MgrT BY <1>1, <1>8 DEF MgrT
<1>11. {} \in Buckets BY BucketFacts
<1>12. [mgr EXCEPT !.pc = p, !.snap = {}, !.i = 0] \in MgrT BY <1>1, <1>8, <1>11 DEF MgrT
<1>13. mgr' \in MgrT BY <1>9, <1>10, <1>12
<1>14. UNCHANGED <<reg, stat, cand, writes>> /\ downs' = (IF Blinks(mgr.i) THEN downs + 1 ELSE downs) BY DEF RefreshEval
<1>15. downs' \in Nat BY <1>14 DEF CountsOK
<1>16. QED BY <1>5, <1>13, <1>14, <1>15 DEF ReplicasOK, CountsOK

LEMMA DeactivateStep ==
    ASSUME ReplicasOK, src \in Buckets, Deactivate
    PROVE  ReplicasOK'
<1>1. mgr \in MgrT /\ mgr.i \in Nat BY DEF ReplicasOK, MgrT
<1>2. UNCHANGED <<stat, cand>> BY DEF Deactivate
<1>3. CASE mgr.i <= reg
  <2>1. PICK r : r = [alive |-> FALSE, mem |-> {}] OBVIOUS
  <2>2. r \in ReplicaT BY <2>1, BucketFacts DEF ReplicaT
  <2>3. rep' = [rep EXCEPT ![mgr.i] = r] /\ reg' = reg BY <1>3, <2>1 DEF Deactivate
  <2>4. PICK j : j = mgr.i + 1 OBVIOUS
  <2>5. mgr' = [mgr EXCEPT !.i = j] /\ j \in Nat BY <1>1, <1>3, <2>4 DEF Deactivate
  <2>6. mgr' \in MgrT BY <1>1, <2>5 DEF MgrT
  <2>7. rep' \in [1 .. K -> ReplicaT] BY <2>2, <2>3 DEF ReplicasOK
  <2>8. QED BY <1>2, <2>3, <2>6, <2>7 DEF ReplicasOK
<1>4. CASE ~(mgr.i <= reg)
  <2>1. reg' = 0 /\ mgr' = [IdleM EXCEPT !.pc = "review"] /\ rep' = rep BY <1>4 DEF Deactivate
  <2>2. mgr' \in MgrT BY <2>1, MgrRecords
  <2>3. QED BY <1>2, <2>1, <2>2 DEF ReplicasOK
<1>5. QED BY <1>3, <1>4

LEMMA ReviewStep ==
    ASSUME ReplicasOK, src \in Buckets, Review
    PROVE  ReplicasOK'
<1>1. mgr.cold \in Nat BY DEF ReplicasOK, MgrT
<1>2. mgr' \in {Refresh("aeval", mgr.cold), [mgr EXCEPT !.pc = "idle"]} BY DEF Review
<1>3. mgr' \in MgrT BY <1>1, <1>2, MgrRecords
<1>4. UNCHANGED <<rep, reg, stat>> /\ cand' = FALSE BY DEF Review
<1>5. QED BY <1>3, <1>4 DEF ReplicasOK

LEMMA ControllerStep ==
    ASSUME HInv, MgrStep \/ MgrDown \/ MgrUp \/ StatLapses \/ \E i \in 1 .. K : ReplicaLapses(i)
    PROVE  HInv' /\ (SInv => SInv')
<1>1. StoreOK /\ ReplicasOK /\ ListOK /\ CachesOK /\ StreamsOK /\ CountsOK /\ src \in Buckets BY HParts DEF StoreOK
<1>2. UNCHANGED <<row, lost, src, repc, l1, rc, st, writes>>
  <2>1. CASE L4Tick BY <2>1 DEF L4Tick, MStep, hstore, near
  <2>2. CASE RefreshEval BY <2>2 DEF RefreshEval, hstore, near
  <2>3. CASE Deactivate BY <2>3 DEF Deactivate, MStep, hstore, near
  <2>4. CASE Review BY <2>4 DEF Review, MStep, hstore, near
  <2>5. CASE Register BY <2>5 DEF Register, MStep, hstore, near
  <2>6. CASE MgrDown BY <2>6 DEF MgrDown, hstore, near
  <2>7. CASE MgrUp BY <2>7 DEF MgrUp, MStep, hstore, near
  <2>8. CASE StatLapses BY <2>8 DEF StatLapses, MStep, hstore, near
  <2>9. CASE \E i \in 1 .. K : ReplicaLapses(i) BY <2>9 DEF ReplicaLapses, MStep, hstore, near
  <2>10. QED BY <2>1, <2>2, <2>3, <2>4, <2>5, <2>6, <2>7, <2>8, <2>9 DEF MgrStep
<1>3. ReplicasOK' /\ CountsOK'
  <2>1. CASE L4Tick BY <1>1, <1>2, <2>1, L4TickStep DEF L4Tick, MStep, CountsOK
  <2>2. CASE RefreshEval BY <1>1, <2>2, RefreshEvalStep
  <2>3. CASE Deactivate BY <1>1, <1>2, <2>3, DeactivateStep DEF Deactivate, MStep, CountsOK
  <2>4. CASE Review BY <1>1, <1>2, <2>4, ReviewStep DEF Review, MStep, CountsOK
  <2>5. CASE Register
    <3>1. mgr' = [mgr EXCEPT !.pc = "idle"] /\ reg' = K /\ UNCHANGED <<rep, stat, cand, downs>> BY <2>5 DEF Register, MStep
    <3>2. mgr' \in MgrT BY <1>1, <3>1, MgrRecords
    <3>3. QED BY <1>1, <1>2, <3>1, <3>2 DEF ReplicasOK, CountsOK
  <2>6. CASE MgrDown
    <3>1. mgr' = [IdleM EXCEPT !.pc = "down"] /\ downs' = downs + 1 /\ UNCHANGED <<rep, reg, stat, cand>> BY <2>6 DEF MgrDown, l4
    <3>2. mgr' \in MgrT BY <1>1, <3>1, MgrRecords
    <3>3. QED BY <1>1, <1>2, <3>1, <3>2 DEF ReplicasOK, CountsOK
  <2>7. CASE MgrUp
    <3>1. mgr' = IdleM /\ UNCHANGED <<rep, reg, stat, cand, downs>> BY <2>7 DEF MgrUp, MStep, l4
    <3>2. mgr' \in MgrT BY <1>1, <3>1, MgrRecords
    <3>3. QED BY <1>1, <1>2, <3>1, <3>2 DEF ReplicasOK, CountsOK
  <2>8. CASE StatLapses
    <3>1. stat' = FALSE /\ UNCHANGED <<rep, reg, cand, mgr, downs>> BY <2>8 DEF StatLapses, MStep
    <3>2. QED BY <1>1, <1>2, <3>1 DEF ReplicasOK, CountsOK
  <2>9. CASE \E i \in 1 .. K : ReplicaLapses(i)
    <3>1. PICK i \in 1 .. K : ReplicaLapses(i) BY <2>9
    <3>2. PICK r : r = [alive |-> FALSE, mem |-> {}] OBVIOUS
    <3>3. r \in ReplicaT BY <3>2, BucketFacts DEF ReplicaT
    <3>4. rep' = [rep EXCEPT ![i] = r] /\ UNCHANGED <<reg, stat, cand, mgr, downs>> BY <3>1, <3>2 DEF ReplicaLapses, MStep
    <3>5. rep' \in [1 .. K -> ReplicaT] BY <1>1, <3>3, <3>4 DEF ReplicasOK
    <3>6. QED BY <1>1, <1>2, <3>4, <3>5 DEF ReplicasOK, CountsOK
  <2>10. QED BY <2>1, <2>2, <2>3, <2>4, <2>5, <2>6, <2>7, <2>8, <2>9 DEF MgrStep
<1>4. StoreOK' /\ ListOK' /\ CachesOK' /\ StreamsOK' BY <1>1, <1>2 DEF StoreOK, ListOK, ListShape, CachesOK, StreamsOK
<1>5. HInv' BY <1>3, <1>4, HParts
<1>6. SInv => SInv' BY <1>2, StillCalm, CalmFacts
<1>7. QED BY <1>5, <1>6

LEMMA LapseStep ==
    ASSUME HInv, RepcLapses \/ L1Lapses
    PROVE  HInv' /\ (SInv => SInv')
<1>1. StoreOK /\ ReplicasOK /\ ListOK /\ CachesOK /\ StreamsOK /\ CountsOK BY HParts
<1>2. /\ UNCHANGED <<row, lost, src, rep, reg, stat, cand, mgr, rc, st, writes, downs>>
      /\ l1' \in {l1, <<>>} /\ repc' \in {repc, NoEntry}
  BY DEF RepcLapses, L1Lapses, CStep, hstore, l4
<1>3. ListOK'
  <2>1. CASE l1' = l1 BY <1>1, <2>1 DEF ListOK, ListShape
  <2>2. CASE l1' = <<>>
    <3>1. <<>> \in Seq(Seq(Pks)) /\ Len(<<>>) = 0 OBVIOUS
    <3>2. l1' \in Seq(Seq(Pks)) /\ Len(l1') <= 1 BY <2>2, <3>1
    <3>3. ListShape' BY <2>2 DEF ListShape
    <3>4. QED BY <3>2, <3>3 DEF ListOK
  <2>3. QED BY <1>2, <2>1, <2>2
<1>4. CachesOK' BY <1>1, <1>2 DEF CachesOK
<1>5. StoreOK' /\ ReplicasOK' /\ StreamsOK' /\ CountsOK' BY <1>1, <1>2 DEF StoreOK, ReplicasOK, StreamsOK, CountsOK
<1>6. HInv' BY <1>3, <1>4, <1>5, HParts
<1>7. SInv => SInv' BY <1>2, StillCalm, CalmFacts
<1>8. QED BY <1>6, <1>7

(***************************************************************************)
(* The streams.                                                            *)
(***************************************************************************)
\* One stream moves.
LEMMA OneStream ==
    ASSUME StreamsOK, NEW x \in Streams, NEW r, StreamOK(r), st' = [st EXCEPT ![x] = r]
    PROVE  StreamsOK' /\ st'[x] = r /\ \A y \in Streams : y # x => st'[y] = st[y]
<1>1. r \in StreamT /\ st \in [Streams -> StreamT] BY DEF StreamOK, StreamsOK
<1>2. st'[x] = r /\ (\A y \in Streams : y # x => st'[y] = st[y]) /\ st' \in [Streams -> StreamT] BY <1>1
<1>3. \A y \in Streams : StreamOK(st'[y]) BY <1>2 DEF StreamsOK
<1>4. QED BY <1>2, <1>3 DEF StreamsOK

LEMMA OneCalm ==
    ASSUME NEW x \in Streams, \A y \in Streams : y # x => st'[y] = st[y],
           (Keeps(st'[x], st[x]) /\ (st'[x].pc # "idle" => st[x].pc # "idle")) \/ st'[x] = NoStream
    PROVE  Calm
<1> SUFFICES ASSUME NEW y \in Sessions
             PROVE  (Keeps(st'[y], st[y]) /\ (st'[y].pc # "idle" => st[y].pc # "idle")) \/ st'[y] = NoStream
  BY Zenon DEF Calm
<1>1. y \in Streams BY DEF Streams
<1>2. CASE y = x BY <1>2
<1>3. CASE y # x
  <2>1. st'[y] = st[y] BY <1>1, <1>3
  <2>2. QED BY <2>1 DEF Keeps
<1>4. QED BY <1>2, <1>3

LEMMA FillFacts ==
    ASSUME ListOK, NEW x \in Streams, StreamOK(st'[x]), Fill(x)
    PROVE  ListOK'
<1>1. PICK c : c = st'[x].collect OBVIOUS
<1>2. c \in Seq(Pks) /\ Distinct(c) BY <1>1 DEF StreamOK, StreamShape, StreamT, Once
<1>3. <<c>> \in Seq(Seq(Pks)) /\ Len(<<c>>) = 1 /\ <<c>>[1] = c BY <1>2
<1>4. l1' = l1 \/ l1' = <<c>> BY <1>1 DEF Fill
<1>5. CASE l1' = l1 BY <1>5 DEF ListOK, ListShape
<1>6. CASE l1' = <<c>> BY <1>2, <1>3, <1>6 DEF ListOK, ListShape
<1>7. QED BY <1>4, <1>5, <1>6

LEMMA BuildStep ==
    ASSUME HInv, NEW x \in Streams, Build(x)
    PROVE  HInv' /\ (SInv => SInv')
<1>1. StoreOK /\ ReplicasOK /\ ListOK /\ CachesOK /\ StreamsOK /\ CountsOK BY HParts
<1>2. PICK k : k = (IF repc = NoEntry THEN reg ELSE repc) OBVIOUS
<1>3. k \in {0, K} BY <1>1, <1>2 DEF CachesOK, ReplicasOK
<1>4. PICK i \in (IF k = 0 THEN {0} ELSE 1 .. k) : st' = [st EXCEPT ![x] = [st[x] EXCEPT !.pc = "page", !.key = i]]
  BY <1>2 DEF Build, Goes
<1>5. i \in 0 .. K BY <1>3, <1>4, HotReadAssumption
<1>6. PICK s : s = st[x] OBVIOUS
<1>7. StreamOK(s) /\ s \in StreamT /\ s.pc = "build" BY <1>1, <1>6 DEF Build, StreamsOK, StreamOK
<1>8. PICK y : y = [s EXCEPT !.pc = "page", !.key = i] OBVIOUS
<1>9. y \in StreamT BY <1>5, <1>7, <1>8 DEF StreamT, StreamPcs
<1>10. /\ y.pc = "page" /\ y.items = s.items /\ y.list = s.list /\ y.out = s.out /\ y.collect = s.collect
       /\ y.seen = s.seen /\ y.cached = s.cached /\ y.more = s.more /\ y.hist = s.hist BY <1>7, <1>8 DEF StreamT
<1>11. StreamOK(y) /\ Keeps(y, s) BY <1>7, <1>9, <1>10, MovedFacts
<1>12. st' = [st EXCEPT ![x] = y] BY <1>4, <1>6, <1>8
<1>13. StreamsOK' /\ st'[x] = y /\ \A z \in Streams : z # x => st'[z] = st[z] BY <1>1, <1>11, <1>12, OneStream
<1>14. Calm BY <1>6, <1>7, <1>11, <1>13, OneCalm
<1>15. /\ UNCHANGED <<row, lost, src, rep, reg, mgr, l1, rc, writes, downs>> /\ repc' = k
  BY <1>2 DEF Build, RStep, hstore
<1>16. \E hit \in BOOLEAN : stat' = (stat \/ hit) /\ cand' = (cand \/ hit) BY DEF Build
<1>17. stat' \in BOOLEAN /\ cand' \in BOOLEAN BY <1>16
<1>18. ReplicasOK' BY <1>1, <1>15, <1>17 DEF ReplicasOK
<1>19. CachesOK' BY <1>1, <1>3, <1>15 DEF CachesOK
<1>20. StoreOK' /\ ListOK' /\ CountsOK' BY <1>1, <1>15 DEF StoreOK, ListOK, ListShape, CountsOK
<1>21. HInv' BY <1>13, <1>18, <1>19, <1>20, HParts
<1>22. SInv => SInv' BY <1>14, <1>15, CalmFacts
<1>23. QED BY <1>21, <1>22

\* The flight ends, or goes on.
LEMMA CollectedFacts ==
    ASSUME StreamsOK, ListOK, NEW f, Ready(f), ~f.cached, f.list = <<>>, Collected(f)
    PROVE  StreamsOK' /\ ListOK' /\ Calm
<1>1. f \in StreamT /\ f.items \in Seq(Members) /\ f.collect \in Seq(Pks) /\ Once(f) /\ Sources(f) /\ Distinct(f.collect)
  BY DEF Ready, StreamT, Once
<1>2. "flight" \in Streams /\ \A x \in Sessions : x \in Streams /\ x # "flight" BY HotReadAssumption DEF Streams
<1>3. PICK over : over = (Len(f.collect) > L2Max) OBVIOUS
<1>4. over \in BOOLEAN BY <1>3
<1>5. CASE f.more /\ ~over
  <2>0. PICK none : none = <<>> OBVIOUS
  <2>1. PICK e : e = [f EXCEPT !.pc = "page", !.items = none] OBVIOUS
  <2>2. e \in StreamT
    <3>1. none \in Seq(Members) BY <2>0
    <3>2. QED BY <1>1, <2>1, <3>1 DEF StreamT, StreamPcs
  <2>3. /\ e.pc = "page" /\ e.items = <<>> /\ e.list = f.list /\ e.out = f.out /\ e.collect = f.collect
        /\ e.seen = f.seen /\ e.cached = f.cached /\ e.more = f.more /\ e.hist = f.hist BY <1>1, <2>0, <2>1 DEF StreamT
  <2>4. DOMAIN <<>> = {} /\ Len(<<>>) = 0 OBVIOUS
  <2>5. Once(e) BY <1>1, <2>3, <2>4 DEF Once, DistinctPks
  <2>6. Sources(e) BY <1>1, <2>3, <2>4 DEF Sources
  <2>7. Phase(e) BY <2>3 DEF Phase
  <2>8. StreamOK(e) BY <2>2, <2>3, <2>4, <2>5, <2>6, <2>7, HotReadAssumption DEF StreamOK, StreamShape
  <2>9. st' = [st EXCEPT !["flight"] = e] /\ l1' = l1 BY <1>3, <1>5, <2>0, <2>1 DEF Collected, Goes
  <2>10. StreamsOK' /\ \A y \in Streams : y # "flight" => st'[y] = st[y] BY <1>2, <2>8, <2>9, OneStream
  <2>11. Calm
    <3>1. \A x \in Sessions : st'[x] = st[x] BY <1>2, <2>10
    <3>2. QED BY <3>1 DEF Calm, Keeps
  <2>12. ListOK' BY <2>9 DEF ListOK, ListShape
  <2>13. QED BY <2>10, <2>11, <2>12
<1>6. CASE ~(f.more /\ ~over)
  <2> DEFINE got(s) == IF over \/ f.collect = <<>> THEN [s EXCEPT !.pc = "build"]
                       ELSE Onward([s EXCEPT !.cached = TRUE, !.list = f.collect])
  <2>1. /\ l1' = IF over THEN l1 ELSE <<f.collect>>
        /\ st' = [x \in Streams |-> IF x = "flight" THEN NoStream ELSE IF st[x].pc = "wait" THEN got(st[x]) ELSE st[x]]
    BY <1>3, <1>6 DEF Collected
  <2>2. ASSUME NEW s, StreamOK(s), s.pc = "wait" PROVE StreamOK(got(s)) /\ Keeps(got(s), s)
    <3>1. /\ Ready([s EXCEPT !.cached = TRUE, !.list = f.collect]) /\ Keeps([s EXCEPT !.cached = TRUE, !.list = f.collect], s)
          /\ StreamOK([s EXCEPT !.pc = "build"]) /\ Keeps([s EXCEPT !.pc = "build"], s)
      BY <1>1, <2>2, ListedFacts
    <3>2. PICK t : t = [s EXCEPT !.cached = TRUE, !.list = f.collect] OBVIOUS
    <3>3. Ready(t) /\ Keeps(t, s) BY <3>1, <3>2
    <3>4. StreamOK(Onward(t)) /\ Keeps(Onward(t), t) BY <3>3, OnwardFacts
    <3>5. Keeps(Onward(t), s) BY <3>3, <3>4 DEF Keeps
    <3>6. got(s) = Onward(t) \/ got(s) = [s EXCEPT !.pc = "build"] BY <3>2
    <3>7. QED BY <3>1, <3>4, <3>5, <3>6
  <2> HIDE DEF got
  <2>3. ASSUME NEW x \in Streams
        PROVE  /\ StreamOK(st'[x])
               /\ x # "flight" => Keeps(st'[x], st[x]) /\ (st'[x].pc # "idle" => st[x].pc # "idle")
    <3>1. StreamOK(st[x]) BY DEF StreamsOK
    <3>2. st'[x] = IF x = "flight" THEN NoStream ELSE IF st[x].pc = "wait" THEN got(st[x]) ELSE st[x] BY <2>1
    <3>3. CASE x = "flight" BY <3>2, <3>3, NoStreamFacts
    <3>4. CASE x # "flight" /\ st[x].pc = "wait"
      <4>1. StreamOK(got(st[x])) /\ Keeps(got(st[x]), st[x]) BY <2>2, <3>1, <3>4
      <4>2. QED BY <3>2, <3>4, <4>1
    <3>5. CASE x # "flight" /\ st[x].pc # "wait" BY <3>1, <3>2, <3>5 DEF Keeps
    <3>6. QED BY <3>3, <3>4, <3>5
  <2>4. StreamsOK'
    <3>1. \A x \in Streams : st'[x] \in StreamT BY <2>3 DEF StreamOK
    <3>2. st' = [x \in Streams |-> st'[x]] BY <2>1
    <3>3. st' \in [Streams -> StreamT] BY <3>1, <3>2
    <3>4. QED BY <2>3, <3>3 DEF StreamsOK
  <2>5. Calm BY <1>2, <2>3 DEF Calm
  <2>6. ListOK'
    <3>1. PICK c : c = f.collect OBVIOUS
    <3>2. c \in Seq(Pks) /\ Distinct(c) BY <1>1, <3>1
    <3>3. <<c>> \in Seq(Seq(Pks)) /\ Len(<<c>>) = 1 /\ <<c>>[1] = c BY <3>2
    <3>4. l1' = l1 \/ l1' = <<c>> BY <2>1, <3>1
    <3>5. CASE l1' = l1 BY <3>5 DEF ListOK, ListShape
    <3>6. CASE l1' = <<c>> BY <3>2, <3>3, <3>6 DEF ListOK, ListShape
    <3>7. QED BY <3>4, <3>5, <3>6
  <2>7. QED BY <2>4, <2>5, <2>6
<1>7. QED BY <1>5, <1>6

LEMMA TakenFacts ==
    ASSUME StreamsOK, ListOK, NEW x \in Streams, st[x].pc \in {"page", "exists"},
           NEW page \in Seq(Members), Len(page) <= PageRows, Taken(x, page)
    PROVE  StreamsOK' /\ ListOK' /\ Calm
<1>1. PICK s : s = st[x] OBVIOUS
<1>2. StreamOK(s) BY <1>1 DEF StreamsOK
<1>3. Ready(s) /\ ~s.cached /\ s.items = <<>> BY <1>1, <1>2 DEF StreamOK, StreamShape, Ready, Phase
<1>4. PICK t : t = Take(s, page) OBVIOUS
<1>5. Ready(t) /\ Keeps(t, s) /\ ~t.cached /\ t.list = <<>> BY <1>3, <1>4, TakeFacts
<1>6. IF x = "flight" THEN Collected(t) ELSE Goes(x, Onward(t)) /\ Fill(x) BY <1>1, <1>4 DEF Taken
<1>7. CASE x = "flight" BY <1>5, <1>6, <1>7, CollectedFacts
<1>8. CASE x # "flight"
  <2>1. StreamOK(Onward(t)) /\ Keeps(Onward(t), t) BY <1>5, OnwardFacts
  <2>2. PICK y : y = Onward(t) OBVIOUS
  <2>3. StreamOK(y) /\ Keeps(y, s) BY <1>5, <2>1, <2>2 DEF Keeps
  <2>4. st' = [st EXCEPT ![x] = y] /\ Fill(x) BY <1>6, <1>8, <2>2 DEF Goes
  <2>5. StreamsOK' /\ st'[x] = y /\ \A z \in Streams : z # x => st'[z] = st[z] BY <2>3, <2>4, OneStream
  <2>6. ListOK' BY <2>3, <2>4, <2>5, FillFacts
  <2>7. st[x].pc # "idle" OBVIOUS
  <2>8. Calm BY <1>1, <2>3, <2>5, <2>7, OneCalm
  <2>9. QED BY <2>5, <2>6, <2>8
<1>9. QED BY <1>7, <1>8

\* A stream that reads: only the streams and the list change.
LEMMA ReadStep ==
    ASSUME HInv, UNCHANGED <<l4, repc, rc>>, RStep, StreamsOK', ListOK', Calm
    PROVE  HInv' /\ (SInv => SInv')
<1>1. StoreOK /\ ReplicasOK /\ CachesOK /\ CountsOK BY HParts
<1>2. UNCHANGED <<row, lost, src, rep, reg, stat, cand, mgr, repc, rc, writes, downs>> BY DEF RStep, hstore, l4
<1>3. StoreOK' /\ ReplicasOK' /\ CachesOK' /\ CountsOK' BY <1>1, <1>2 DEF StoreOK, ReplicasOK, CachesOK, CountsOK
<1>4. HInv' BY <1>3, HParts
<1>5. SInv => SInv' BY <1>2, CalmFacts
<1>6. QED BY <1>4, <1>5

LEMMA PageStep ==
    ASSUME HInv, NEW x \in Streams, Page(x)
    PROVE  HInv' /\ (SInv => SInv')
<1>1. StoreOK /\ ReplicasOK /\ ListOK /\ CachesOK /\ StreamsOK /\ CountsOK BY HParts
<1>2. PICK s : s = st[x] OBVIOUS
<1>3. StreamOK(s) /\ s \in StreamT /\ s.pc = "page" /\ s.cur \in Nat /\ s.key \in 0 .. K
  BY <1>1, <1>2 DEF Page, StreamsOK, StreamOK, StreamT
<1>4. StreamsOK' /\ ListOK' /\ Calm
  <2>1. CASE s.key = 0
    <3>1. PICK p : p = Zrange(src, s.cur) OBVIOUS
    <3>2. p \in Seq(Members) /\ Len(p) <= PageRows BY <1>1, <1>3, <3>1, ZrangeFacts DEF StoreOK
    <3>3. Taken(x, p) BY <1>2, <2>1, <3>1 DEF Page
    <3>4. QED BY <1>1, <1>2, <1>3, <3>2, <3>3, TakenFacts
  <2>2. CASE s.key # 0
    <3>1. s.key \in 1 .. K BY <1>3, <2>2, HotReadAssumption
    <3>2. rep[s.key].mem \in Buckets BY <1>1, <3>1 DEF ReplicasOK, ReplicaT
    <3>3. PICK p : p = Zrange(rep[s.key].mem, s.cur) OBVIOUS
    <3>4. p \in Seq(Members) /\ Len(p) <= PageRows BY <1>3, <3>2, <3>3, ZrangeFacts
    <3>5. PICK y : y = [s EXCEPT !.pc = "exists", !.page = p] OBVIOUS
    <3>6. y \in StreamT BY <1>3, <3>4, <3>5 DEF StreamT, StreamPcs
    <3>7. /\ y.pc = "exists" /\ y.page = p /\ y.items = s.items /\ y.list = s.list /\ y.out = s.out /\ y.collect = s.collect
          /\ y.seen = s.seen /\ y.cached = s.cached /\ y.more = s.more /\ y.hist = s.hist BY <1>3, <3>5 DEF StreamT
    <3>8. StreamOK(y) /\ Keeps(y, s) BY <1>3, <3>4, <3>6, <3>7, MovedFacts
    <3>9. st' = [st EXCEPT ![x] = y] /\ l1' = l1 BY <1>2, <2>2, <3>3, <3>5 DEF Page, Goes
    <3>10. StreamsOK' /\ st'[x] = y /\ \A z \in Streams : z # x => st'[z] = st[z] BY <1>1, <3>8, <3>9, OneStream
    <3>11. Calm BY <1>2, <1>3, <3>8, <3>10, OneCalm
    <3>12. ListOK' BY <1>1, <3>9 DEF ListOK, ListShape
    <3>13. QED BY <3>10, <3>11, <3>12
  <2>3. QED BY <2>1, <2>2
<1>5. QED BY <1>4, ReadStep DEF Page

LEMMA ExistsStep ==
    ASSUME HInv, NEW x \in Streams, Exists(x)
    PROVE  HInv' /\ (SInv => SInv')
<1>1. StoreOK /\ ReplicasOK /\ ListOK /\ CachesOK /\ StreamsOK /\ CountsOK BY HParts
<1>2. PICK s : s = st[x] OBVIOUS
<1>3. StreamOK(s) /\ s \in StreamT /\ s.pc = "exists" /\ s.page \in Seq(Members) /\ Len(s.page) <= PageRows
  BY <1>1, <1>2 DEF Exists, StreamsOK, StreamOK, StreamT, StreamShape, Phase
<1>4. StreamsOK' /\ ListOK' /\ Calm
  <2>1. CASE rep[s.key].alive
    <3>1. PICK p : p = s.page OBVIOUS
    <3>2. Taken(x, p) BY <1>2, <2>1, <3>1 DEF Exists
    <3>3. QED BY <1>1, <1>2, <1>3, <3>1, <3>2, TakenFacts
  <2>2. CASE ~rep[s.key].alive
    <3>0. PICK none : none = <<>> OBVIOUS
    <3>1. PICK y : y = [s EXCEPT !.pc = "page", !.key = 0, !.page = none] OBVIOUS
    <3>2. y \in StreamT
      <4>1. none \in Seq(Members) /\ 0 \in 0 .. K BY <3>0, HotReadAssumption
      <4>2. QED BY <1>3, <3>1, <4>1 DEF StreamT, StreamPcs
    <3>3. /\ y.pc = "page" /\ y.items = s.items /\ y.list = s.list /\ y.out = s.out /\ y.collect = s.collect
          /\ y.seen = s.seen /\ y.cached = s.cached /\ y.more = s.more /\ y.hist = s.hist BY <1>3, <3>1 DEF StreamT
    <3>4. StreamOK(y) /\ Keeps(y, s) BY <1>3, <3>2, <3>3, MovedFacts
    <3>5. st' = [st EXCEPT ![x] = y] /\ l1' = l1 BY <1>2, <2>2, <3>0, <3>1 DEF Exists, Goes
    <3>6. StreamsOK' /\ st'[x] = y /\ \A z \in Streams : z # x => st'[z] = st[z] BY <1>1, <3>4, <3>5, OneStream
    <3>7. Calm BY <1>2, <1>3, <3>4, <3>6, OneCalm
    <3>8. ListOK' BY <1>1, <3>5 DEF ListOK, ListShape
    <3>9. QED BY <3>6, <3>7, <3>8
  <2>3. QED BY <2>1, <2>2
<1>5. QED BY <1>4, ReadStep DEF Exists

LEMMA CloseStep ==
    ASSUME HInv, NEW x \in Streams, Close(x)
    PROVE  HInv' /\ (SInv => SInv')
<1>1. StreamsOK /\ ListOK BY HParts
<1>2. st' = [st EXCEPT ![x] = NoStream] /\ UNCHANGED <<l4, repc, l1, rc>> /\ RStep BY DEF Close, Goes, near
<1>3. StreamsOK' /\ st'[x] = NoStream /\ \A z \in Streams : z # x => st'[z] = st[z] BY <1>1, <1>2, NoStreamFacts, OneStream
<1>4. Calm BY <1>3, OneCalm
<1>5. ListOK' BY <1>1, <1>2 DEF ListOK, ListShape
<1>6. QED BY <1>2, <1>3, <1>4, <1>5, ReadStep

\* What a query that starts may return.
LEMMA HistFacts ==
    ASSUME StoreOK, CachesOK
    PROVE  Now \cup Lately \in SUBSET (Pks \X Nat) /\ (CacheShape => Told \subseteq Now \cup Lately)
<1>1. \A k \in Pks : row[k].n \in Nat /\ rc[k].n \in Nat BY StoreTypes
<1>2. Now \cup Lately \in SUBSET (Pks \X Nat) BY <1>1 DEF Now, Lately
<1>3. ASSUME CacheShape PROVE Told \subseteq Now \cup Lately
  <2>1. \A j \in Pks : rc[j].n # 0 => (j \notin lost \/ rc[j].cut) BY <1>3 DEF CacheShape
  <2>2. QED BY <2>1 DEF Told, Lately
<1>4. QED BY <1>2, <1>3

LEMMA RunStep ==
    ASSUME HInv, NEW x \in Sessions, Run(x)
    PROVE  HInv' /\ (SInv => SInv')
<1>1. StoreOK /\ ReplicasOK /\ ListOK /\ CachesOK /\ StreamsOK /\ CountsOK BY HParts
<1>2. x \in Streams /\ "flight" \in Streams /\ x # "flight" BY HotReadAssumption DEF Streams
<1>3. PICK h : h = Now \cup Lately OBVIOUS
<1>4. h \in SUBSET (Pks \X Nat) /\ (CacheShape => Told \subseteq h) BY <1>1, <1>3, HistFacts
<1>5. PICK s : s = [NoStream EXCEPT !.hist = h] OBVIOUS
<1>6. PICK b : b = [s EXCEPT !.pc = "build"] OBVIOUS
<1>7. PICK w : w = [s EXCEPT !.pc = "wait"] OBVIOUS
<1>8. /\ StreamOK(b) /\ b.pc = "build" /\ b.out = <<>> /\ b.hist = h
      /\ StreamOK(w) /\ w.pc = "wait" /\ w.out = <<>> /\ w.hist = h
  <2>1. s \in StreamT BY <1>4, <1>5, NoStreamFields DEF StreamT
  <2>2. /\ s.items = <<>> /\ s.list = <<>> /\ s.out = <<>> /\ s.collect = <<>> /\ ~s.cached /\ ~s.more /\ s.hist = h
    BY <1>5, NoStreamFields DEF StreamT
  <2>3. b \in StreamT /\ w \in StreamT BY <1>6, <1>7, <2>1 DEF StreamT, StreamPcs
  <2>4. /\ b.pc = "build" /\ b.items = s.items /\ b.list = s.list /\ b.out = s.out /\ b.collect = s.collect
        /\ b.cached = s.cached /\ b.more = s.more /\ b.hist = s.hist BY <1>6, <2>1 DEF StreamT
  <2>5. /\ w.pc = "wait" /\ w.items = s.items /\ w.list = s.list /\ w.out = s.out /\ w.collect = s.collect
        /\ w.cached = s.cached /\ w.more = s.more /\ w.hist = s.hist BY <1>7, <2>1 DEF StreamT
  <2>6. StreamOK(b) BY <2>2, <2>3, <2>4, StartFacts
  <2>7. StreamOK(w) BY <2>2, <2>3, <2>5, StartFacts
  <2>8. QED BY <2>2, <2>4, <2>5, <2>6, <2>7
<1>9. UNCHANGED <<row, lost, src, rep, reg, stat, cand, mgr, repc, l1, rc, writes, downs>> BY DEF Run, RStep, hstore, l4, near
\* Started(r): the session becomes r, which has returned nothing yet.
<1> DEFINE Started(r) == StreamOK(r) /\ r.out = <<>> /\ r.hist = h
<1>10. /\ StreamsOK'
       /\ Started(st'[x])
       /\ \A y \in Sessions : y # x => st'[y] = st[y]
  <2>1. CASE Covering
    <3>1. st' = [st EXCEPT ![x] = b] BY <1>3, <1>5, <1>6, <2>1 DEF Run, Goes
    <3>2. StreamsOK' /\ st'[x] = b /\ \A y \in Streams : y # x => st'[y] = st[y] BY <1>1, <1>2, <1>8, <3>1, OneStream
    <3>3. QED BY <1>8, <3>2 DEF Streams
  <2>2. CASE ~Covering /\ l1 # <<>>
    <3>1. PICK q : q = l1[1] OBVIOUS
    <3>2. q \in Seq(Pks) /\ Distinct(q)
      <4>1. 1 \in DOMAIN l1 BY <1>1, <2>2, SeqFacts DEF ListOK
      <4>2. QED BY <1>1, <2>2, <3>1, <4>1, SeqFacts DEF ListOK, ListShape
    <3>3. PICK t : t = [s EXCEPT !.cached = TRUE, !.list = q] OBVIOUS
    <3>4. PICK u : u = [b EXCEPT !.cached = TRUE, !.list = q] OBVIOUS
    <3>5. Ready(u) /\ Keeps(u, b) BY <1>8, <3>2, <3>4, ListedFacts
    <3>6. s \in StreamT /\ b \in StreamT /\ t \in StreamT BY <1>4, <1>5, <1>8, <3>2, <3>3, NoStreamFacts DEF StreamOK, StreamT
    <3>7. /\ t.items = u.items /\ t.list = u.list /\ t.out = u.out /\ t.collect = u.collect /\ t.seen = u.seen
          /\ t.cached = u.cached /\ t.more = u.more /\ t.hist = u.hist BY <1>6, <3>3, <3>4, <3>6 DEF StreamT
    <3>8. Ready(t) BY <3>5, <3>6, <3>7 DEF Ready, Once, Sources
    <3>9. StreamOK(Onward(t)) /\ Keeps(Onward(t), t) BY <3>8, OnwardFacts
    <3>10. Started(Onward(t)) BY <1>8, <3>5, <3>7, <3>9 DEF Keeps
    <3>11. Started(b) BY <1>8
    <3>12. PICK r : r = IF q = <<>> THEN b ELSE Onward(t) OBVIOUS
    <3>13. Started(r) BY <3>10, <3>11, <3>12
    <3>14. st' = [st EXCEPT ![x] = r] BY <1>3, <1>5, <1>6, <2>2, <3>1, <3>3, <3>12 DEF Run, Goes
    <3>15. StreamsOK' /\ st'[x] = r /\ \A y \in Streams : y # x => st'[y] = st[y] BY <1>1, <1>2, <3>13, <3>14, OneStream
    <3>16. QED BY <3>13, <3>15 DEF Streams
  <2>3. CASE ~Covering /\ l1 = <<>>
    <3>1. PICK f : f = IF st["flight"].pc = "idle" THEN [NoStream EXCEPT !.pc = "build"] ELSE st["flight"] OBVIOUS
    <3>2. StreamOK(f)
      <4>1. PICK z : z = [NoStream EXCEPT !.pc = "build"] OBVIOUS
      <4>2. z \in StreamT BY <4>1, NoStreamFields DEF StreamT, StreamPcs
      <4>3. /\ z.pc = "build" /\ z.items = <<>> /\ z.list = <<>> /\ z.out = <<>> /\ z.collect = <<>> /\ ~z.cached /\ ~z.more
        BY <4>1, NoStreamFields DEF StreamT
      <4>3a. StreamOK(z) BY <4>2, <4>3, StartFacts
      <4>4. StreamOK(st["flight"]) BY <1>1, <1>2 DEF StreamsOK
      <4>5. QED BY <3>1, <4>1, <4>3a, <4>4
    <3>3. st' = [st EXCEPT ![x] = w, !["flight"] = f]
      <4>1. st' = [st EXCEPT ![x] = w, !["flight"] = IF @.pc = "idle" THEN [NoStream EXCEPT !.pc = "build"] ELSE @]
        BY <1>3, <1>5, <1>7, <2>3 DEF Run
      <4>2. QED BY <1>2, <3>1, <4>1
    <3>4. st \in [Streams -> StreamT] /\ w \in StreamT /\ f \in StreamT BY <1>1, <1>8, <3>2 DEF StreamsOK, StreamOK
    <3>5. /\ st' \in [Streams -> StreamT] /\ st'[x] = w /\ st'["flight"] = f
          /\ \A y \in Streams : y # x /\ y # "flight" => st'[y] = st[y] BY <1>2, <3>3, <3>4
    <3>6. \A y \in Streams : StreamOK(st'[y]) BY <1>1, <1>8, <3>2, <3>5 DEF StreamsOK
    <3>7. \A y \in Sessions : y # x => st'[y] = st[y] BY <3>5, HotReadAssumption DEF Streams
    <3>8. QED BY <1>8, <3>5, <3>6, <3>7 DEF StreamsOK
  <2>4. QED BY <2>1, <2>2, <2>3, HotReadAssumption
<1>11. StoreOK' /\ ReplicasOK' /\ ListOK' /\ CachesOK' /\ CountsOK'
  BY <1>1, <1>9 DEF StoreOK, ReplicasOK, ListOK, ListShape, CachesOK, CountsOK
<1>12. HInv' BY <1>10, <1>11, HParts
<1>13. ASSUME SInv PROVE SInv'
  <2>1. CacheShape /\ CacheShape' /\ Told' = Told BY <1>9, <1>13 DEF SInv, CacheShape, Told, Now
  <2>2. Sound'
    <3> SUFFICES ASSUME NEW y \in Sessions, st'[y].pc # "idle" PROVE Told \subseteq st'[y].hist BY <2>1, Zenon DEF Sound
    <3>1. CASE y = x BY <1>4, <1>10, <2>1, <3>1
    <3>2. CASE y # x BY <1>10, <1>13, <3>2 DEF SInv, Sound
    <3>3. QED BY <3>1, <3>2
  <2>3. ReadsSound'
    <3> SUFFICES ASSUME NEW y \in Sessions, NEW i \in DOMAIN st'[y].out PROVE st'[y].out[i] \in st'[y].hist BY DEF ReadsSound
    <3>1. CASE y = x BY <1>10, <3>1
    <3>2. CASE y # x BY <1>10, <1>13, <3>2 DEF SInv, ReadsSound
    <3>3. QED BY <3>1, <3>2
  <2>4. QED BY <2>1, <2>2, <2>3 DEF SInv
<1>14. QED BY <1>12, <1>13

\* The stream of a fetch: what it returns, if anything, is told.
Fetched(x) == \E n \in Nat : LET k == Head(st[x].items)[1] IN
    /\ st'[x].hist = st[x].hist /\ st'[x].pc # "idle"
    /\ \/ st'[x].out = st[x].out
       \/ /\ <<k, n>> \in Told
          /\ \A i \in DOMAIN st'[x].out : (i \in DOMAIN st[x].out /\ st'[x].out[i] = st[x].out[i]) \/ st'[x].out[i] = <<k, n>>

\* Emit, then on to the next item.
LEMMA EmitFacts ==
    ASSUME StreamsOK, NEW x \in Streams, st[x].pc = "fetch", NEW r, r.n \in Nat,
           LET k == Head(st[x].items)[1] IN
               /\ Match(r) => <<k, r.n>> \in Told
               /\ st' = [st EXCEPT ![x] = After(Emit(st[x], k, r))]
    PROVE  StreamsOK' /\ Fetched(x) /\ \A y \in Streams : y # x => st'[y] = st[y]
<1>1. PICK s : s = st[x] OBVIOUS
<1>2. StreamOK(s) /\ s.pc = "fetch" BY <1>1 DEF StreamsOK
<1>3. PICK n : n = r.n OBVIOUS
<1>4. n \in Nat BY <1>3
<1>5. PICK k : k = Head(s.items)[1] OBVIOUS
<1>6. PICK d : d = Onward([s EXCEPT !.items = Tail(@)]) OBVIOUS
<1>7. PICK o : o = Append(s.out, <<k, n>>) OBVIOUS
<1>8. PICK e : e = Onward([[s EXCEPT !.out = Append(@, <<k, n>>)] EXCEPT !.items = Tail(@)]) OBVIOUS
<1>9. /\ StreamOK(d) /\ Keeps(d, s) /\ d.pc # "idle"
      /\ StreamOK(e) /\ e.out = o /\ e.hist = s.hist /\ e.pc # "idle"
      /\ \A i \in DOMAIN o : (i \in DOMAIN s.out /\ o[i] = s.out[i]) \/ o[i] = <<k, n>>
  BY <1>2, <1>4, <1>5, <1>6, <1>7, <1>8, FetchedFacts
<1>10. After(Emit(s, k, r)) = IF Match(r) THEN e ELSE d
  <2>1. CASE Match(r)
    <3>1. Emit(s, k, r) = [s EXCEPT !.out = Append(@, <<k, n>>)] BY <1>3, <2>1 DEF Emit
    <3>2. QED BY <1>8, <2>1, <3>1 DEF After
  <2>2. CASE ~Match(r)
    <3>1. Emit(s, k, r) = s BY <2>2 DEF Emit
    <3>2. QED BY <1>6, <2>2, <3>1 DEF After
  <2>3. QED BY <2>1, <2>2
<1>11. PICK y : y = After(Emit(s, k, r)) OBVIOUS
<1>12. StreamOK(y) BY <1>9, <1>10, <1>11
<1>13. st' = [st EXCEPT ![x] = y] BY <1>1, <1>5, <1>11
<1>14. StreamsOK' /\ st'[x] = y /\ \A z \in Streams : z # x => st'[z] = st[z] BY <1>12, <1>13, OneStream
<1>15. Fetched(x)
  <2>1. CASE Match(r)
    <3>1. y = e /\ <<k, n>> \in Told BY <1>1, <1>3, <1>5, <1>10, <1>11, <2>1
    <3>2. /\ st'[x].hist = s.hist /\ st'[x].pc # "idle" /\ st'[x].out = o BY <1>9, <1>14, <3>1
    <3>3. QED BY <1>1, <1>4, <1>5, <1>9, <3>1, <3>2 DEF Fetched
  <2>2. CASE ~Match(r)
    <3>1. y = d BY <1>10, <1>11, <2>2
    <3>2. /\ st'[x].hist = s.hist /\ st'[x].pc # "idle" /\ st'[x].out = s.out BY <1>9, <1>14, <3>1 DEF Keeps
    <3>3. QED BY <1>1, <1>4, <3>2 DEF Fetched
  <2>3. QED BY <2>1, <2>2
<1>16. QED BY <1>14, <1>15

\* The queries, when one of them has fetched a row and no more is told than before.
LEMMA FetchedSound ==
    ASSUME SInv, NEW x \in Streams, st[x].pc = "fetch", Fetched(x), \A y \in Streams : y # x => st'[y] = st[y],
           CacheShape', Told' \subseteq Told
    PROVE  SInv'
<1>1. \A y \in Sessions : y \in Streams BY DEF Streams
<1>2. Sound'
  <2> SUFFICES ASSUME NEW y \in Sessions, st'[y].pc # "idle" PROVE Told' \subseteq st'[y].hist BY Zenon DEF Sound
  <2>1. CASE y = x
    <3>1. st'[y].hist = st[y].hist /\ st[y].pc # "idle" BY <2>1 DEF Fetched
    <3>2. QED BY <3>1 DEF SInv, Sound
  <2>2. CASE y # x
    <3>1. st'[y] = st[y] BY <1>1, <2>2
    <3>2. QED BY <3>1 DEF SInv, Sound
  <2>3. QED BY <2>1, <2>2
<1>3. ReadsSound'
  <2> SUFFICES ASSUME NEW y \in Sessions, NEW i \in DOMAIN st'[y].out PROVE st'[y].out[i] \in st'[y].hist BY DEF ReadsSound
  <2>1. CASE y = x
    <3>1. Told \subseteq st[y].hist BY <2>1 DEF SInv, Sound
    <3>2. /\ st'[y].hist = st[y].hist
          /\ (i \in DOMAIN st[y].out /\ st'[y].out[i] = st[y].out[i]) \/ st'[y].out[i] \in Told
      BY <2>1 DEF Fetched
    <3>3. QED BY <3>1, <3>2 DEF SInv, ReadsSound
  <2>2. CASE y # x
    <3>1. st'[y] = st[y] BY <1>1, <2>2
    <3>2. QED BY <3>1 DEF SInv, ReadsSound
  <2>3. QED BY <2>1, <2>2
<1>4. QED BY <1>2, <1>3 DEF SInv

LEMMA FetchRowStep ==
    ASSUME HInv, NEW x \in Streams, st[x].pc = "fetch", FetchRow(x)
    PROVE  /\ StreamsOK' /\ row' \in [Pks -> RowT] /\ lost' \in SUBSET Pks /\ rc' \in [Pks -> CachedT]
           /\ (SInv /\ "late" \notin ReadFaults) => SInv'
<1>1. StoreOK /\ ReplicasOK /\ ListOK /\ CachesOK /\ StreamsOK /\ CountsOK BY HParts
<1>2. PICK k : k = Head(st[x].items)[1] OBVIOUS
<1>3. k \in Pks
  <2>1. StreamOK(st[x]) BY <1>1 DEF StreamsOK
  <2>2. QED BY <1>2, <2>1, FetchedFacts
<1>4. /\ row \in [Pks -> RowT] /\ lost \in SUBSET Pks /\ rc \in [Pks -> CachedT] BY <1>1 DEF StoreOK, CachesOK
<1>5. row[k].n \in Nat /\ rc[k].n \in Nat /\ row[k].hit \in BOOLEAN BY <1>1, <1>3, StoreTypes
<1>6. CASE rc[k].n # 0
  <2>1. st' = [st EXCEPT ![x] = After(Emit(st[x], k, rc[k]))] /\ UNCHANGED <<rc, row, lost>> BY <1>2, <1>6 DEF FetchRow, Goes
  <2>2. Match(rc[k]) => <<k, rc[k].n>> \in Told BY <1>3 DEF Match, Told
  <2>3. PICK r : r = rc[k] OBVIOUS
  <2>4. StreamsOK' /\ Fetched(x) /\ \A y \in Streams : y # x => st'[y] = st[y] BY <1>1, <1>2, <1>5, <2>1, <2>2, <2>3, EmitFacts
  <2>5. SInv => CacheShape' /\ Told' \subseteq Told BY <2>1 DEF SInv, CacheShape, Told, Now
  <2>6. SInv => SInv' BY <2>4, <2>5, FetchedSound
  <2>7. QED BY <1>4, <2>1, <2>4, <2>6
<1>7. CASE rc[k].n = 0
  <2>1. PICK live : live = (row[k].n # 0) OBVIOUS
  <2>2. PICK gone \in {FALSE} \cup {"late" \in ReadFaults /\ UseRowCache /\ live /\ k \in Mortal} :
             /\ st' = [st EXCEPT ![x] = After(Emit(st[x], k, row[k]))]
             /\ rc' = IF UseRowCache /\ live
                      THEN [rc EXCEPT ![k] = [n |-> row[k].n, hit |-> row[k].hit, bound |-> k \in Mortal /\ ~gone, cut |-> FALSE]]
                      ELSE rc
             /\ row' = IF gone THEN [row EXCEPT ![k] = NoRow] ELSE row
             /\ lost' = IF gone THEN lost \cup {k} ELSE lost
    BY <1>2, <1>7, <2>1 DEF FetchRow, Goes
  <2>3. Match(row[k]) => <<k, row[k].n>> \in Told BY <1>3 DEF Match, Told, Now
  <2>4. PICK r : r = row[k] OBVIOUS
  <2>5. StreamsOK' /\ Fetched(x) /\ \A y \in Streams : y # x => st'[y] = st[y] BY <1>1, <1>2, <1>5, <2>2, <2>3, <2>4, EmitFacts
  <2>6. row' \in [Pks -> RowT] /\ lost' \in SUBSET Pks BY <1>3, <1>4, <2>2, NoRowT
  <2>7. PICK bd : bd = (k \in Mortal /\ ~gone) OBVIOUS
  <2>8. bd \in BOOLEAN BY <2>7
  <2>9. PICK z : z = [n |-> row[k].n, hit |-> row[k].hit, bound |-> bd, cut |-> FALSE] OBVIOUS
  <2>10. z \in CachedT /\ z.n = row[k].n /\ z.hit = row[k].hit /\ z.bound = bd BY <1>5, <2>8, <2>9 DEF CachedT
  <2>11. rc' = IF UseRowCache /\ live THEN [rc EXCEPT ![k] = z] ELSE rc BY <2>2, <2>7, <2>9
  <2>12. rc' \in [Pks -> CachedT] /\ (\A j \in Pks : j # k => rc'[j] = rc[j]) /\ (rc'[k] = rc[k] \/ (live /\ rc'[k] = z))
    BY <1>3, <1>4, <2>10, <2>11
  <2>13. ASSUME SInv, "late" \notin ReadFaults PROVE SInv'
    <3>1. ~gone BY <2>2, <2>13
    <3>2. row' = row /\ lost' = lost /\ (bd <=> k \in Mortal) BY <2>2, <2>7, <3>1
    <3>3. CacheShape'
      <4> SUFFICES ASSUME NEW j \in Pks PROVE /\ rc'[j].n # 0 => (rc'[j].bound <=> j \in Mortal)
                                              /\ j \in lost => row[j].n = 0 /\ (rc'[j].n = 0 \/ rc'[j].cut)
        BY <3>2, Zenon DEF CacheShape
      <4>1. /\ rc[j].n # 0 => (rc[j].bound <=> j \in Mortal)
            /\ j \in lost => row[j].n = 0 /\ (rc[j].n = 0 \/ rc[j].cut) BY <2>13 DEF SInv, CacheShape
      <4>2. CASE rc'[j] = rc[j] BY <4>1, <4>2
      <4>3. CASE j = k /\ live /\ rc'[k] = z BY <2>1, <2>10, <3>2, <4>1, <4>3
      <4>4. QED BY <2>12, <4>2, <4>3
    <3>4. Told' \subseteq Told
      <4>1. \A j \in Pks : rc'[j].n # 0 /\ rc'[j].hit => <<j, rc'[j].n>> \in Told
        <5> TAKE j \in Pks
        <5>1. CASE rc'[j] = rc[j] BY <5>1 DEF Told
        <5>2. CASE j = k /\ rc'[k] = z BY <2>10, <5>2 DEF Told, Now
        <5>3. QED BY <2>12, <5>1, <5>2
      <4>2. QED BY <3>2, <4>1 DEF Told, Now
    <3>5. QED BY <2>5, <2>13, <3>3, <3>4, FetchedSound
  <2>14. QED BY <2>5, <2>6, <2>12, <2>13
<1>8. QED BY <1>6, <1>7

LEMMA FetchCoveredStep ==
    ASSUME HInv, NEW x \in Streams, st[x].pc = "fetch", FetchCovered(x)
    PROVE  StreamsOK' /\ UNCHANGED <<rc, row, lost>>
<1>1. StreamsOK BY HParts
<1>2. PICK s : s = st[x] OBVIOUS
<1>3. StreamOK(s) /\ s \in StreamT /\ s.pc = "fetch" /\ s.items \in Seq(Members) /\ s.items # <<>>
  BY <1>1, <1>2 DEF StreamsOK, StreamOK, StreamT, StreamShape, Phase
<1>4. PICK m : m = Head(s.items) OBVIOUS
<1>5. m \in Members BY <1>3, <1>4, TailFacts
<1>6. PICK n : n = m[3] OBVIOUS
<1>7. n \in Nat BY <1>5, <1>6, MemberParts
<1>8. PICK d : d = Onward([s EXCEPT !.items = Tail(@)]) OBVIOUS
<1>9. PICK e : e = Onward([[s EXCEPT !.out = Append(@, <<m[1], n>>)] EXCEPT !.items = Tail(@)]) OBVIOUS
<1>10. StreamOK(d) /\ StreamOK(e) BY <1>3, <1>4, <1>7, <1>8, <1>9, FetchedFacts
<1>11. PICK y : y = IF row[m[1]].n # 0 THEN e ELSE d OBVIOUS
<1>12. st' = [st EXCEPT ![x] = y]
  <2>1. PICK v : v = IF row[m[1]].n # 0 THEN [s EXCEPT !.out = Append(@, <<m[1], n>>)] ELSE s OBVIOUS
  <2>2. st' = [st EXCEPT ![x] = After(v)] BY <1>2, <1>4, <1>6, <2>1 DEF FetchCovered, Goes
  <2>3. CASE row[m[1]].n # 0
    <3>1. After(v) = y BY <1>9, <1>11, <2>1, <2>3 DEF After
    <3>2. QED BY <2>2, <3>1
  <2>4. CASE row[m[1]].n = 0
    <3>1. After(v) = y BY <1>8, <1>11, <2>1, <2>4 DEF After
    <3>2. QED BY <2>2, <3>1
  <2>5. QED BY <2>3, <2>4
<1>13. StreamsOK' BY <1>1, <1>10, <1>11, <1>12, OneStream
<1>14. QED BY <1>13 DEF FetchCovered

LEMMA FetchItemsStep ==
    ASSUME HInv, NEW x \in Streams, FetchItems(x)
    PROVE  HInv' /\ ((SInv /\ Plain) => SInv')
<1>1. StoreOK /\ ReplicasOK /\ ListOK /\ CachesOK /\ StreamsOK /\ CountsOK BY HParts
<1>2. UNCHANGED <<src, rep, reg, stat, cand, repc, mgr, writes, downs>> /\ st[x].pc = "fetch" /\ Fill(x) BY DEF FetchItems, l4
<1>3. /\ StreamsOK' /\ row' \in [Pks -> RowT] /\ lost' \in SUBSET Pks /\ rc' \in [Pks -> CachedT]
      /\ (SInv /\ Plain) => SInv'
  <2>1. CASE Covering
    <3>1. StreamsOK' /\ UNCHANGED <<rc, row, lost>> BY <1>2, <2>1, FetchCoveredStep DEF FetchItems
    <3>2. QED BY <1>1, <2>1, <3>1 DEF StoreOK, CachesOK, Plain
  <2>2. CASE ~Covering
    <3>1. FetchRow(x) BY <2>2 DEF FetchItems
    <3>2. QED BY <1>2, <3>1, FetchRowStep DEF Plain
  <2>3. QED BY <2>1, <2>2
<1>4. ListOK' BY <1>1, <1>2, <1>3, FillFacts DEF StreamsOK
<1>5. StoreOK' /\ CachesOK' BY <1>1, <1>2, <1>3 DEF StoreOK, CachesOK
<1>6. ReplicasOK' /\ CountsOK' BY <1>1, <1>2 DEF ReplicasOK, CountsOK
<1>7. HInv' BY <1>3, <1>4, <1>5, <1>6, HParts
<1>8. QED BY <1>3, <1>7

(***************************************************************************)
(* The invariant holds.                                                    *)
(***************************************************************************)
LEMMA HInitInv ==
    ASSUME HInit
    PROVE  HInv /\ SInv
<1>1. First \in RowT /\ First.n = 1 BY DEF First, RowT
<1>2. StoreOK
  <2>1. row \in [Pks -> RowT] BY <1>1, NoRowT DEF HInit
  <2>2. IsFiniteSet(Initially) BY FS_Subset, HotReadAssumption
  <2>3. IsFiniteSet(src)
    <3>1. PICK f : f = [k \in Initially |-> Member(k, First)] OBVIOUS
    <3>2. src = {f[k] : k \in Initially} BY <3>1 DEF HInit
    <3>3. f \in Surjection(Initially, src)
      <4>1. f \in [Initially -> src] BY <3>1 DEF HInit
      <4>2. \A m \in src : \E k \in Initially : f[k] = m BY <3>2
      <4>3. QED BY <4>1, <4>2 DEF Surjection
    <3>4. QED BY <2>2, <3>3, FS_Surjection
  <2>4. src \in SUBSET Members
    <3>1. \A k \in Initially : Member(k, First) \in Members
      <4>1. First.iv \in Nat /\ First.n \in Nat BY <1>1 DEF RowT
      <4>2. QED BY <4>1, HotReadAssumption DEF Member, Members
    <3>2. QED BY <3>1 DEF HInit
  <2>5. lost = {} BY DEF HInit
  <2>6. QED BY <2>1, <2>3, <2>4, <2>5 DEF StoreOK, Buckets
<1>3. {} \in Buckets BY BucketFacts
<1>4. ReplicasOK
  <2>1. PICK r : r = [alive |-> FALSE, mem |-> {}] OBVIOUS
  <2>2. r \in ReplicaT BY <1>3, <2>1 DEF ReplicaT
  <2>3. rep = [i \in 1 .. K |-> r] BY <2>1 DEF HInit
  <2>4. rep \in [1 .. K -> ReplicaT] BY <2>2, <2>3
  <2>5. IdleM \in MgrT BY <1>3 DEF IdleM, MgrT
  <2>6. QED BY <2>4, <2>5 DEF HInit, ReplicasOK
<1>5. ListOK
  <2>1. <<>> \in Seq(Seq(Pks)) /\ Len(<<>>) = 0 OBVIOUS
  <2>2. QED BY <2>1 DEF HInit, ListOK, ListShape
<1>6. CachesOK
  <2>1. PICK z : z = NoCache OBVIOUS
  <2>2. z \in CachedT BY <2>1 DEF CachedT, NoCache
  <2>3. rc = [k \in Pks |-> z] BY <2>1 DEF HInit
  <2>4. rc \in [Pks -> CachedT] BY <2>2, <2>3
  <2>5. QED BY <2>4 DEF HInit, CachesOK
<1>7. \A x \in Streams : st[x] = NoStream BY DEF HInit
<1>8. StreamsOK
  <2>1. NoStream \in StreamT BY NoStreamFacts DEF StreamOK
  <2>2. st \in [Streams -> StreamT] BY <2>1 DEF HInit
  <2>3. QED BY <1>7, <2>2, NoStreamFacts DEF StreamsOK
<1>9. CountsOK BY DEF HInit, CountsOK
<1>10. HInv BY <1>2, <1>4, <1>5, <1>6, <1>8, <1>9, HParts
<1>11. CacheShape
  <2>1. \A k \in Pks : rc[k].n = 0 BY DEF HInit, NoCache
  <2>2. QED BY <2>1 DEF HInit, CacheShape
<1>12. \A x \in Sessions : st[x] = NoStream BY <1>7 DEF Streams
<1>13. Sound BY <1>12, NoStreamFacts DEF Sound
<1>14. ReadsSound BY <1>12, NoStreamFacts DEF ReadsSound
<1>15. QED BY <1>10, <1>11, <1>13, <1>14 DEF SInv

LEMMA HNextInv ==
    ASSUME HInv, [HNext]_hvars
    PROVE  HInv' /\ ((SInv /\ Plain) => SInv')
<1>1. CASE UNCHANGED hvars
  <2>1. UNCHANGED <<row, lost, src, rep, reg, stat, cand, mgr, repc, l1, rc, st, writes, downs>>
    BY <1>1 DEF hvars, hstore, l4, near
  <2>2. StoreOK /\ ReplicasOK /\ ListOK /\ CachesOK /\ StreamsOK /\ CountsOK BY HParts
  <2>3. StoreOK' /\ ReplicasOK' /\ ListOK' /\ CachesOK' /\ StreamsOK' /\ CountsOK'
    BY <2>1, <2>2 DEF StoreOK, ReplicasOK, ListOK, ListShape, CachesOK, StreamsOK, CountsOK
  <2>4. SInv => SInv' BY <2>1, StillCalm, CalmFacts
  <2>5. QED BY <2>3, <2>4, HParts
<1>2. ASSUME NEW k \in Pks, (\E hit, short \in BOOLEAN : Commit(k, hit, short)) \/ DeleteRow(k) \/ Expire(k) \/ RcLapses(k)
      PROVE  HInv' /\ (SInv => SInv')
  BY <1>2, CommitStep, DeleteRowStep, ExpireStep, RcLapsesStep
<1>3. CASE MgrStep \/ MgrDown \/ MgrUp \/ StatLapses \/ \E i \in 1 .. K : ReplicaLapses(i) BY <1>3, ControllerStep
<1>4. CASE RepcLapses \/ L1Lapses BY <1>4, LapseStep
<1>5. ASSUME NEW x \in Sessions, Run(x) PROVE HInv' /\ (SInv => SInv') BY <1>5, RunStep
<1>6. ASSUME NEW x \in Streams, StreamStep(x) PROVE HInv' /\ ((SInv /\ Plain) => SInv')
  BY <1>6, BuildStep, PageStep, ExistsStep, FetchItemsStep, CloseStep DEF StreamStep
<1>7. QED BY <1>1, <1>2, <1>3, <1>4, <1>5, <1>6 DEF HNext

\* The types of the store, the caches, the replicas and the streams of exec.go hold; no
\* batch to fetch is longer than the tuning allows.
THEOREM LookupTypeCorrect == HSpec => []HTypeOK
<1>1. HInit => HInv BY HInitInv
<1>2. HInv /\ [HNext]_hvars => HInv' BY HNextInv
<1>3. HInv => HTypeOK BY DEF HInv
<1>4. QED BY <1>1, <1>2, <1>3, PTL DEF HSpec

\* No lookup returns a row twice (fillScatter's dedup, the lists of L1 and L2, the replica that
\* dies between two pages), for any number of sessions, rows, replicas and any page size.
THEOREM LookupReadsOnce == HSpec => []ReadOnce
<1>1. HInit => HInv BY HInitInv
<1>2. HInv /\ [HNext]_hvars => HInv' BY HNextInv
<1>3. HInv => ReadOnce
  <2> SUFFICES ASSUME HInv, NEW x \in Sessions PROVE DistinctPks(st[x].out) BY DEF ReadOnce, DistinctPks
  <2>1. x \in Streams BY DEF Streams
  <2>2. QED BY <2>1 DEF HInv, StreamShape, Once
<1>4. QED BY <1>1, <1>2, <1>3, PTL DEF HSpec

\* What a lookup that fetches its rows returns had, at some moment of the query, the value asked
\* for and the content returned, or was in the row cache when the query began and had not expired
\* on the TTL that the entry was filled with.  The two conditions are the ones it needs: a covering
\* index answers from the member, and a row that dies between HGETALL and PTTL is cached past its end.
THEOREM LookupIsSound ==
    ASSUME ~Covering, "late" \notin ReadFaults
    PROVE  HSpec => []ReadsSound
<1>1. HInit => HInv /\ SInv BY HInitInv
<1>2. Plain BY DEF Plain
<1>3. HInv /\ SInv /\ [HNext]_hvars => (HInv /\ SInv)' BY <1>2, HNextInv
<1>4. SInv => ReadsSound BY DEF SInv
<1>5. QED BY <1>1, <1>3, <1>4, PTL DEF HSpec

(***************************************************************************)
(* The inductive invariant of a range index that is split and merged.      *)
(***************************************************************************)
SplitOf(r, c) ==
    /\ c \in Kids \X Kids /\ c[1].lo = r.lo /\ c[1].hi = c[2].lo /\ c[2].hi = r.hi
    /\ c[1].lo <= c[1].hi /\ c[2].lo <= c[2].hi /\ c[1].i # c[2].i
MergeOf(l, q, c) == c \in Kids \X Kids /\ c[1] = c[2] /\ l.hi = q.lo /\ c[1].lo = l.lo /\ c[1].hi = q.hi

\* Two buckets of one merge, left and right.
Pair(l, q) == l # q /\ q.st = l.st /\ q.c = l.c /\ MergeOf(l, q, l.c) /\ \A p \in ranges : p.c = l.c => p = l \/ p = q

BucketShape(r) ==
    /\ r.lo <= r.hi /\ r.i < next
    /\ r.st = "ACTIVE" <=> r.c = <<>>
    /\ r.st \in {"SPLITTING", "DRAINING"} => SplitOf(r, r.c) /\ \A q \in ranges : q.c = r.c => q = r
    /\ r.st \in {"MERGING", "MERGE_DRAIN"} => \E q \in ranges : Pair(r, q) \/ Pair(q, r)

\* Nobody has number n: no bucket, and no child of one.
Unused(n) == \A r \in ranges : r.i # n /\ \A j \in DOMAIN r.c : r.c[j].i # n

Partition == \A s \in Scores : \E r \in ranges : RangeContains(r, s) /\ \A q \in ranges : RangeContains(q, s) => q = r

\* Numbers are given once; the buckets of the document divide the axis.
DocShape ==
    /\ \A r, q \in ranges : r.i = q.i => r = q
    /\ \A r \in ranges : BucketShape(r)
    /\ \A r, q \in ranges : \A j \in DOMAIN r.c : r.c[j].i < next /\ r.c[j].i # q.i
    /\ \A r, q \in ranges : \A j \in DOMAIN r.c, h \in DOMAIN q.c : r.c[j].i = q.c[h].i => r.c = q.c
    /\ Partition

\* The state in which a splitter has left its old buckets.
Left(r) ==
    IF sp.pc \in {"next", "busy"} THEN r.st = "ACTIVE"
    ELSE r.c = sp.new /\ r.st = IF sp.drain THEN Drain(sp.op) ELSE Busy(sp.op)

OldBuckets ==
    \/ /\ sp.op = "split"
       /\ \E r \in ranges : sp.old = <<r.i>> /\ SplitOf(r, sp.new) /\ Left(r)
    \/ /\ sp.op = "merge"
       /\ \E l, q \in ranges : l # q /\ sp.old = <<l.i, q.i>> /\ MergeOf(l, q, sp.new) /\ Left(l) /\ Left(q)

Working == sp.pc \in {"next", "busy", "page", "move", "final"}

\* A splitter's locals are what the document says; its new numbers are unused and
\* their buckets empty until the document names them.
JobShape ==
    /\ Working => OldBuckets /\ (sp.todo = sp.old \/ sp.todo = Tail(sp.old) \/ sp.todo = <<>>)
    /\ sp.pc = "next" => /\ next + 1 <= 2 * steps /\ sp.new[1].i = next
                         /\ sp.new[2].i = IF sp.op = "split" THEN next + 1 ELSE next
    /\ sp.pc = "busy" => \A j \in 1 .. 2 : sp.new[j].i < next /\ Unused(sp.new[j].i) /\ bk[sp.new[j].i] = {}
    /\ sp.pc \in {"next", "busy"} => ~sp.drain /\ sp.todo = sp.old
    /\ sp.pc = "move" => sp.todo # <<>>
    /\ sp.pc = "final" => sp.drain

Inside(b, S) == \A m \in S : RangeContains(b, m[1])

\* Members are in the bucket of their score, and their stamps were given.
Stocked ==
    /\ \A i \in RIdx : (\A m \in bk[i] : m[3] <= rw + 1) /\ (i >= next => bk[i] = {})
    /\ \A r \in ranges : Inside(r, bk[r.i]) /\ \A j \in DOMAIN r.c : Inside(r.c[j], bk[r.c[j].i])

MemberOf(k) == <<score[k], k, iv[k]>>

\* The page in hand; a short page of the drain is all that the bucket has.
BatchShape ==
    sp.pc = "move" =>
        /\ sp.live \subseteq sp.page /\ \A m \in sp.page : m[3] <= rw + 1
        /\ \A r \in ranges : r.i = Head(sp.todo) => Inside(r, sp.page)
        /\ \A m \in sp.page : m \notin sp.live => m # MemberOf(m[2])
        /\ (sp.drain /\ Cardinality(sp.page) < MoveBatch) => bk[Head(sp.todo)] \subseteq sp.page

\* What the drain has finished stays empty.
Emptied ==
    /\ (sp.pc \in {"page", "move"} /\ sp.drain) => \A i \in Elems(sp.old) : i \in Elems(sp.todo) \/ bk[i] = {}
    /\ sp.pc = "final" => \A i \in Elems(sp.old) : bk[i] = {}

\* The member of a row is in the bucket of its score, or in the child.
HomeOf(r, k) ==
    \/ MemberOf(k) \in bk[r.i]
    \/ \E j \in DOMAIN r.c : RangeContains(r.c[j], score[k]) /\ MemberOf(k) \in bk[r.c[j].i]
AtHome == \A k \in RPks, r \in ranges : (score[k] # 0 /\ RangeContains(r, score[k])) => HomeOf(r, k)

IndexT ==
    /\ score \in [RPks -> Scores \cup {0}] /\ iv \in [RPks -> Nat] /\ bk \in [RIdx -> SUBSET RMembers]
    /\ ranges \subseteq RangeT /\ next \in Nat /\ hot \in BOOLEAN /\ sp \in JobT
    /\ rw \in Nat /\ steps \in Nat /\ steps <= MaxSteps /\ next <= 2 * steps + 1

RInv == IndexT /\ DocShape /\ JobShape /\ Stocked /\ BatchShape /\ Emptied /\ AtHome


(***************************************************************************)
(* Buckets in score order.                                                 *)
(***************************************************************************)
LEMMA RIdxNat == RIdx \subseteq Nat /\ 0 \in RIdx /\ MaxSteps \in Nat
BY RangeAssumption DEF RIdx

\* +inf is above every score.
LEMMA InfFacts == Inf \in Nat /\ \A s \in Scores : s \in Nat /\ s # 0 /\ s < Inf
<1> DEFINE R == {x \in Nat \X Nat : x[2] < x[1]}
           Up(a) == {o \in Scores : a < o}
<1>1. Scores \subseteq Nat /\ 0 \notin Scores /\ Scores # {} /\ IsFiniteSet(Scores) BY LookupAssumption, RangeAssumption
<1>2. \A a, b \in Scores : <<a, b>> \in R <=> b < a BY <1>1
<1>3. TotalOn(R, Scores)
  <2>1. /\ \A a \in Scores : <<a, a>> \notin R
        /\ \A a, b \in Scores : a = b \/ <<a, b>> \in R \/ <<b, a>> \in R
        /\ \A a, b, c \in Scores : (<<a, b>> \in R /\ <<b, c>> \in R) => <<a, c>> \in R
    <3> HIDE DEF R
    <3>1. \A a \in Scores : a \in Nat BY <1>1
    <3>2. QED BY <1>2, <3>1
  <2> HIDE DEF R
  <2>2. QED BY <2>1 DEF TotalOn
<1>4. \A a \in Scores : Under(R, Scores, a) = Cardinality(Up(a)) BY <1>2 DEF Under
<1> HIDE DEF R
<1>5. HasRanks(R, Scores) BY <1>1, <1>3, Ranked, Zenon
<1>6. Cardinality(Scores) \in Nat /\ Cardinality(Scores) # 0 BY <1>1, FS_EmptySet, FS_CardinalityType
<1>7. PICK a \in Scores : Under(R, Scores, a) = 0 BY <1>5, <1>6 DEF HasRanks
<1>8. IsFiniteSet(Up(a)) BY <1>1, FS_Subset
<1>9. Up(a) = {} BY <1>4, <1>7, <1>8, FS_EmptySet
<1>10. \A o \in Scores : o <= a BY <1>1, <1>9
<1> DEFINE t == CHOOSE s \in Scores : \A o \in Scores : o <= s
<1>11. t \in Scores /\ \A o \in Scores : o <= t BY <1>10
<1>12. Inf = 1 + t BY DEF Inf
<1> HIDE DEF t
<1>13. QED BY <1>1, <1>11, <1>12

LEMMA RMemberParts ==
    \A m \in RMembers : m[1] \in Scores /\ m[1] \in Nat /\ m[2] \in RPks /\ m[2] \in Nat /\ m[3] \in Nat /\ m = <<m[1], m[2], m[3]>>
<1> TAKE m \in RMembers
<1>1. PICK a \in Scores, k \in RPks, n \in Nat : m = <<a, k, n>> BY DEF RMembers
<1>2. RPks \subseteq Nat /\ \A s \in Scores : s \in Nat BY RangeAssumption, InfFacts
<1>3. m[1] = a /\ m[2] = k /\ m[3] = n BY <1>1
<1>4. QED BY <1>1, <1>2, <1>3

Precede(desc, a, b) == IF desc THEN RBefore(b, a) ELSE RBefore(a, b)
RankIn(S, desc, m) == Cardinality({o \in S : Precede(desc, o, m)})
InRank(S, desc, q) ==
    /\ Cardinality(S) \in Nat /\ DOMAIN q = 1 .. Cardinality(S) /\ q \in Seq(S) /\ Len(q) = Cardinality(S)
    /\ \A n \in 1 .. Cardinality(S) : q[n] \in S /\ RankIn(S, desc, q[n]) = n - 1
    /\ \A m \in S : RankIn(S, desc, m) \in 0 .. Cardinality(S) - 1 /\ q[RankIn(S, desc, m) + 1] = m

LEMMA BeforeFacts ==
    ASSUME NEW desc \in BOOLEAN
    PROVE  /\ \A a \in RMembers : ~Precede(desc, a, a)
           /\ \A a, b \in RMembers : a = b \/ Precede(desc, a, b) \/ Precede(desc, b, a)
           /\ \A a, b, d \in RMembers : (Precede(desc, a, b) /\ Precede(desc, b, d)) => Precede(desc, a, d)
<1>1. ASSUME NEW a \in RMembers PROVE ~RBefore(a, a)
  <2>1. a[1] \in Nat /\ a[2] \in Nat /\ a[3] \in Nat BY RMemberParts
  <2>2. QED BY <2>1 DEF RBefore
<1>2. ASSUME NEW a \in RMembers, NEW b \in RMembers PROVE a = b \/ RBefore(a, b) \/ RBefore(b, a)
  <2>1. /\ a[1] \in Nat /\ a[2] \in Nat /\ a[3] \in Nat /\ b[1] \in Nat /\ b[2] \in Nat /\ b[3] \in Nat
        /\ a = <<a[1], a[2], a[3]>> /\ b = <<b[1], b[2], b[3]>> BY RMemberParts
  <2>2. QED BY <2>1 DEF RBefore
<1>3. ASSUME NEW a \in RMembers, NEW b \in RMembers, NEW d \in RMembers, RBefore(a, b), RBefore(b, d) PROVE RBefore(a, d)
  <2>1. /\ a[1] \in Nat /\ a[2] \in Nat /\ a[3] \in Nat /\ b[1] \in Nat /\ b[2] \in Nat /\ b[3] \in Nat
        /\ d[1] \in Nat /\ d[2] \in Nat /\ d[3] \in Nat BY RMemberParts
  <2>2. QED BY <1>3, <2>1 DEF RBefore
<1>4. QED BY <1>1, <1>2, <1>3 DEF Precede

\* Sorted puts every member of a finite set at its rank.
LEMMA SortedFacts ==
    ASSUME NEW S \in SUBSET RMembers, IsFiniteSet(S), NEW desc \in BOOLEAN
    PROVE  InRank(S, desc, Sorted(S, desc))
<1> DEFINE R == {x \in RMembers \X RMembers : Precede(desc, x[1], x[2])}
           c == Cardinality(S)
           e(n) == CHOOSE m \in S : RankIn(S, desc, m) = n - 1
<1>1. \A a, b \in S : <<a, b>> \in R <=> Precede(desc, a, b) OBVIOUS
<1>2. \A a \in S : Under(R, S, a) = RankIn(S, desc, a) BY <1>1 DEF Under, RankIn
<1> HIDE DEF R
<1>3. \A a \in S : a \in RMembers OBVIOUS
<1>4. TotalOn(R, S)
  <2>1. \A a \in S : <<a, a>> \notin R BY <1>1, <1>3, BeforeFacts
  <2>2. \A a, b \in S : a = b \/ <<a, b>> \in R \/ <<b, a>> \in R BY <1>1, <1>3, BeforeFacts, Zenon
  <2>3. \A a, b, d \in S : (<<a, b>> \in R /\ <<b, d>> \in R) => <<a, d>> \in R BY <1>1, <1>3, BeforeFacts
  <2>4. QED BY <2>1, <2>2, <2>3 DEF TotalOn
<1>5. HasRanks(R, S) BY <1>4, Ranked, Zenon
<1>6. /\ c \in Nat
      /\ \A a \in S : RankIn(S, desc, a) \in 0 .. c - 1
      /\ \A a, b \in S : RankIn(S, desc, a) = RankIn(S, desc, b) => a = b
      /\ \A n \in 0 .. c - 1 : \E a \in S : RankIn(S, desc, a) = n
  BY <1>2, <1>5 DEF HasRanks
<1>7. ASSUME NEW n \in 1 .. c PROVE e(n) \in S /\ RankIn(S, desc, e(n)) = n - 1
  <2>1. n - 1 \in 0 .. c - 1 BY <1>6
  <2>2. \E m \in S : RankIn(S, desc, m) = n - 1 BY <1>6, <2>1
  <2>3. QED BY <2>2
<1>8. Sorted(S, desc) = [n \in 1 .. c |-> e(n)]
  <2>1. CASE desc BY <2>1 DEF Sorted, RankIn, Precede
  <2>2. CASE ~desc BY <2>2 DEF Sorted, RankIn, Precede
  <2>3. QED BY <2>1, <2>2
<1> HIDE DEF e, c
<1>9. Sorted(S, desc) \in Seq(S) /\ Len(Sorted(S, desc)) = c /\ DOMAIN Sorted(S, desc) = 1 .. c BY <1>6, <1>7, <1>8
<1>10. \A n \in 1 .. c : Sorted(S, desc)[n] \in S /\ RankIn(S, desc, Sorted(S, desc)[n]) = n - 1 BY <1>7, <1>8
<1>11. ASSUME NEW m \in S PROVE Sorted(S, desc)[RankIn(S, desc, m) + 1] = m
  <2>1. RankIn(S, desc, m) + 1 \in 1 .. c /\ RankIn(S, desc, m) \in Nat BY <1>6
  <2>2. Sorted(S, desc)[RankIn(S, desc, m) + 1] \in S BY <1>10, <2>1
  <2>3. RankIn(S, desc, Sorted(S, desc)[RankIn(S, desc, m) + 1]) = RankIn(S, desc, m) + 1 - 1 BY <1>10, <2>1
  <2>4. QED BY <1>6, <2>1, <2>2, <2>3
<1>12. QED BY <1>6, <1>9, <1>10, <1>11 DEF InRank, c

\* What comes before a member has a lower rank.
LEMMA RankGrows ==
    ASSUME NEW S \in SUBSET RMembers, IsFiniteSet(S), NEW desc \in BOOLEAN, NEW a \in S, NEW b \in S, Precede(desc, a, b)
    PROVE  RankIn(S, desc, a) < RankIn(S, desc, b)
<1> DEFINE A == {o \in S : Precede(desc, o, a)}
           B == {o \in S : Precede(desc, o, b)}
<1>1. \A o \in S : o \in RMembers OBVIOUS
<1>2. A \subseteq B BY <1>1, BeforeFacts
<1>3. a \in B /\ a \notin A BY <1>1, BeforeFacts
<1>4. IsFiniteSet(B) /\ IsFiniteSet(A) BY FS_Subset
<1> HIDE DEF A, B
<1>5. A # B BY <1>3
<1>6. Cardinality(A) \in Nat /\ Cardinality(B) \in Nat BY <1>4, FS_CardinalityType
<1>7. Cardinality(A) <= Cardinality(B) /\ Cardinality(A) # Cardinality(B) BY <1>2, <1>4, <1>5, FS_Subset
<1>8. Cardinality(A) < Cardinality(B) BY <1>6, <1>7
<1>9. QED BY <1>8 DEF RankIn, A, B


\* The stamps that were given so far are finitely many.
LEMMA BucketsFinite ==
    ASSUME NEW S \in SUBSET RMembers, NEW n \in Nat, \A m \in S : m[3] <= n
    PROVE  IsFiniteSet(S)
<1>1. IsFiniteSet(Scores) /\ IsFiniteSet(RPks) BY RangeAssumption
<1>2. IsFiniteSet(0 .. n) BY FS_Interval
<1> DEFINE T == RPks \X (0 .. n)
           U == Scores \X T
           f == [m \in S |-> <<m[1], <<m[2], m[3]>>>>]
<1>3. IsFiniteSet(T) BY <1>1, <1>2, FS_Product
<1>4. IsFiniteSet(U) BY <1>1, <1>3, FS_Product
<1>5. ASSUME NEW m \in S PROVE m[1] \in Scores /\ m[2] \in RPks /\ m[3] \in 0 .. n /\ m = <<m[1], m[2], m[3]>>
  <2>1. m \in RMembers OBVIOUS
  <2>2. m[1] \in Scores /\ m[2] \in RPks /\ m[3] \in Nat /\ m = <<m[1], m[2], m[3]>> BY <2>1, RMemberParts
  <2>3. QED BY <2>2
<1>6. f \in [S -> U] BY <1>5
<1>7. \A a, b \in S : f[a] = f[b] => a = b
  <2> TAKE a, b \in S
  <2>1. a = <<a[1], a[2], a[3]>> /\ b = <<b[1], b[2], b[3]>> BY <1>5
  <2>2. f[a] = <<a[1], <<a[2], a[3]>>>> /\ f[b] = <<b[1], <<b[2], b[3]>>>> OBVIOUS
  <2> HIDE DEF f
  <2>3. f[a] = f[b] => (a[1] = b[1] /\ a[2] = b[2] /\ a[3] = b[3]) BY <2>2
  <2>4. QED BY <2>1, <2>3
<1> HIDE DEF f, U
<1>8. f \in Injection(S, U) BY <1>6, <1>7 DEF Injection, IsInjective
<1>9. QED BY <1>4, <1>8, FS_Injection

\* The first n members of a bucket: all of them, if they are fewer than n.
FirstOf(S, n) == LET q == Sorted(S, FALSE) IN {q[i] : i \in 1 .. Bound(Len(q), n)}

LEMMA FirstFacts ==
    ASSUME NEW S \in SUBSET RMembers, IsFiniteSet(S), NEW n \in Nat
    PROVE  /\ FirstOf(S, n) \subseteq S /\ IsFiniteSet(FirstOf(S, n))
           /\ Cardinality(FirstOf(S, n)) < n => FirstOf(S, n) = S
           /\ (FirstOf(S, n) = {} /\ n # 0) => S = {}
<1>0. PICK d \in BOOLEAN : d = FALSE OBVIOUS
<1>1. PICK q : q = Sorted(S, d) OBVIOUS
<1>2. PICK c : c = Cardinality(S) OBVIOUS
<1>3. InRank(S, d, q) BY <1>1, SortedFacts
<1>4. /\ c \in Nat /\ Len(q) = c
      /\ \A i \in 1 .. c : q[i] \in S /\ RankIn(S, d, q[i]) = i - 1
      /\ \A m \in S : RankIn(S, d, m) \in 0 .. c - 1 /\ q[RankIn(S, d, m) + 1] = m
  BY <1>2, <1>3 DEF InRank
<1>5. PICK b : b = Bound(c, n) OBVIOUS
<1>6. b \in Nat /\ b <= c /\ (b = c \/ b = n) BY <1>4, <1>5 DEF Bound
<1> DEFINE F == {q[i] : i \in 1 .. b}
           f == [i \in 1 .. b |-> q[i]]
<1>7. FirstOf(S, n) = F BY <1>0, <1>1, <1>4, <1>5 DEF FirstOf
<1>8. \A i \in 1 .. b : i \in 1 .. c BY <1>4, <1>6
<1>9. F \subseteq S /\ IsFiniteSet(F)
  <2>1. \A i \in 1 .. b : q[i] \in S BY <1>4, <1>8
  <2>2. F \subseteq S BY <2>1
  <2>3. QED BY <2>2, FS_Subset
<1>10. ASSUME b = c PROVE F = S
  <2>1. \A m \in S : RankIn(S, d, m) + 1 \in 1 .. b /\ q[RankIn(S, d, m) + 1] = m BY <1>4, <1>10
  <2>2. QED BY <1>9, <2>1
<1>11. Cardinality(F) = b
  <2>1. f \in [1 .. b -> F] OBVIOUS
  <2>2. \A i, j \in 1 .. b : f[i] = f[j] => i = j
    <3> TAKE i, j \in 1 .. b
    <3>1. RankIn(S, d, q[i]) = i - 1 /\ RankIn(S, d, q[j]) = j - 1 BY <1>4, <1>8
    <3>2. f[i] = q[i] /\ f[j] = q[j] OBVIOUS
    <3>3. i \in Int /\ j \in Int BY <1>6
    <3> HIDE DEF f
    <3>4. QED BY <3>1, <3>2, <3>3
  <2>3. \A y \in F : \E i \in 1 .. b : f[i] = y OBVIOUS
  <2> HIDE DEF f, F
  <2>4. f \in Bijection(1 .. b, F) BY <2>1, <2>2, <2>3 DEF Bijection, Injection, Surjection, IsInjective
  <2>5. IsFiniteSet(1 .. b) /\ Cardinality(1 .. b) = b
    <3>1. 1 \in Int /\ b \in Int BY <1>6
    <3>2. IsFiniteSet(1 .. b) /\ Cardinality(1 .. b) = IF 1 > b THEN 0 ELSE b - 1 + 1 BY <3>1, FS_Interval
    <3>3. (IF 1 > b THEN 0 ELSE b - 1 + 1) = b BY <1>6
    <3>4. QED BY <3>2, <3>3
  <2>6. IsFiniteSet(F) /\ Cardinality(1 .. b) = Cardinality(F) BY <2>4, <2>5, FS_Bijection DEF ExistsBijection
  <2>7. QED BY <2>5, <2>6
<1> HIDE DEF F
<1>12. Cardinality(F) < n => F = S BY <1>6, <1>10, <1>11
<1>13. (F = {} /\ n # 0) => S = {}
  <2>1. F = {} => b = 0 BY <1>11, FS_EmptySet
  <2>2. QED BY <1>6, <1>10, <2>1
<1>14. QED BY <1>7, <1>9, <1>12, <1>13


(***************************************************************************)
(* The document and the splitter.                                          *)
(***************************************************************************)
LEMMA KidParts ==
    /\ \A k \in Kids : k.i \in RIdx /\ k.i \in Nat /\ k.lo \in Nat /\ k.hi \in Nat /\ k.st = "ACTIVE" /\ k.c = <<>>
    /\ \A c \in Kids \X Kids : c[1] \in Kids /\ c[2] \in Kids /\ DOMAIN c = 1 .. 2 /\ c = <<c[1], c[2]>> /\ c # <<>>
<1>1. \A k \in Kids : k.i \in RIdx /\ k.i \in Nat /\ k.lo \in Nat /\ k.hi \in Nat /\ k.st = "ACTIVE" /\ k.c = <<>>
  BY RIdxNat DEF Kids
<1>2. ASSUME NEW c \in Kids \X Kids PROVE c[1] \in Kids /\ c[2] \in Kids /\ DOMAIN c = 1 .. 2 /\ c = <<c[1], c[2]>> /\ c # <<>>
  <2>1. PICK a \in Kids, b \in Kids : c = <<a, b>> OBVIOUS
  <2>2. Len(c) = 2 /\ c[1] = a /\ c[2] = b /\ DOMAIN c = 1 .. 2 BY <2>1
  <2>3. Len(<<>>) = 0 OBVIOUS
  <2>4. QED BY <2>1, <2>2, <2>3
<1>3. QED BY <1>1, <1>2

LEMMA RangeParts ==
    \A r \in RangeT : r.i \in RIdx /\ r.i \in Nat /\ r.lo \in Nat /\ r.hi \in Nat /\ r.c \in Pairs
BY RIdxNat DEF RangeT

JobRec(pc, op, old, new, todo, page, live, drain) ==
    [pc |-> pc, op |-> op, old |-> old, new |-> new, todo |-> todo, page |-> page, live |-> live, drain |-> drain]

LEMMA JobParts ==
    ASSUME NEW j \in JobT
    PROVE  j = JobRec(j.pc, j.op, j.old, j.new, j.todo, j.page, j.live, j.drain)
BY DEF JobT, JobRec

LEMMA MedianMember ==
    ASSUME NEW b, bk[b] \in SUBSET RMembers, IsFiniteSet(bk[b]), bk[b] # {}
    PROVE  SampleMedian(b) \in Nat /\ \E m \in bk[b] : SampleMedian(b) = m[1]
<1>1. PICK S \in SUBSET RMembers : S = bk[b] OBVIOUS
<1>2. PICK d \in BOOLEAN : d = FALSE OBVIOUS
<1>3. PICK q : q = Sorted(S, d) OBVIOUS
<1>4. InRank(S, d, q) BY <1>1, <1>3, SortedFacts
<1>5. PICK c : c = Cardinality(S) OBVIOUS
<1>6. c \in Nat /\ c # 0 BY <1>1, <1>5, FS_CardinalityType, FS_EmptySet
<1>7. c \div 2 + 1 \in 1 .. c BY <1>6
<1>8. q[c \div 2 + 1] \in S BY <1>4, <1>5, <1>7 DEF InRank
<1>9. SampleMedian(b) = q[c \div 2 + 1][1] BY <1>1, <1>2, <1>3, <1>5 DEF SampleMedian
<1>10. PICK m \in S : SampleMedian(b) = m[1] BY <1>8, <1>9
<1>11. QED BY <1>1, <1>10, RMemberParts

LEMMA MedianFacts ==
    ASSUME IndexT, Stocked, NEW r \in ranges, bk[r.i] # {}
    PROVE  SampleMedian(r.i) \in Nat /\ r.lo <= SampleMedian(r.i) /\ SampleMedian(r.i) < r.hi
<1>1. r.i \in RIdx BY RangeParts DEF IndexT
<1>2. bk[r.i] \in SUBSET RMembers /\ rw + 1 \in Nat /\ \A m \in bk[r.i] : m[3] <= rw + 1 BY <1>1 DEF IndexT, Stocked
<1>3. IsFiniteSet(bk[r.i]) BY <1>2, BucketsFinite
<1>4. SampleMedian(r.i) \in Nat /\ \E m \in bk[r.i] : SampleMedian(r.i) = m[1] BY <1>2, <1>3, MedianMember
<1>5. RangeContains(r, SampleMedian(r.i)) BY <1>4 DEF Stocked, Inside
<1>6. QED BY <1>4, <1>5 DEF RangeContains

\* The job of a merge that is resumed: the neighbour with the same target is the other
\* bucket of the pair.
LEMMA ResumedPair ==
    ASSUME IndexT, DocShape, NEW r \in ranges, NEW q \in ranges, r.st \in {"MERGING", "MERGE_DRAIN"},
           q # r, q.lo = r.hi, q.c = r.c
    PROVE  MergeOf(r, q, r.c) /\ q.st = r.st
<1>1. PICK p \in ranges : Pair(r, p) \/ Pair(p, r) BY DEF DocShape, BucketShape
<1>2. r.lo \in Nat /\ r.hi \in Nat /\ q.lo \in Nat /\ q.hi \in Nat /\ r.lo <= r.hi /\ q.lo <= q.hi
  BY RangeParts DEF IndexT, DocShape, BucketShape
<1>3. p = q
  <2>1. CASE Pair(r, p) BY <2>1 DEF Pair
  <2>2. CASE Pair(p, r) BY <2>2 DEF Pair
  <2>3. QED BY <1>1, <2>1, <2>2
<1>4. CASE Pair(r, q) BY <1>4 DEF Pair
<1>5. CASE Pair(q, r)
  <2>1. MergeOf(q, r, r.c) /\ q.st = r.st BY <1>5 DEF Pair
  <2>2. PICK c : c = r.c OBVIOUS
  <2>3. c \in Kids \X Kids /\ c[1] = c[2] /\ q.hi = r.lo /\ c[1].lo = q.lo /\ c[1].hi = r.hi BY <2>1, <2>2 DEF MergeOf
  <2>4. q.lo = r.lo /\ q.hi = r.hi BY <1>2, <2>3
  <2>5. QED BY <2>1, <2>2, <2>3, <2>4 DEF MergeOf
<1>6. QED BY <1>1, <1>3, <1>4, <1>5

LEMMA NewNumbers ==
    ASSUME IndexT, steps < MaxSteps
    PROVE  next \in RIdx /\ next + 1 \in RIdx /\ next + 1 <= 2 * (steps + 1)
BY RIdxNat DEF IndexT, RIdx

\* What Begin leaves to show: the job.
LEMMA BegunStep ==
    ASSUME RInv, UNCHANGED <<score, iv, bk, ranges, next, hot, rw>>, steps' = steps + 1, steps < MaxSteps,
           NEW pc \in {"next", "page"}, NEW op \in {"split", "merge"}, NEW old \in Seq(RIdx), NEW new \in Pairs, NEW drain \in BOOLEAN,
           sp' = JobRec(pc, op, old, new, old, {}, {}, drain),
           OldBuckets',
           pc = "next" => /\ ~drain /\ new[1].i = next
                          /\ new[2].i = IF op = "split" THEN next + 1 ELSE next
    PROVE  RInv'
<1>1. IndexT'
  <2>1. sp' \in JobT BY DEF JobT, JobRec
  <2>2. steps' \in Nat /\ steps' <= MaxSteps /\ next <= 2 * steps' + 1 BY RIdxNat DEF RInv, IndexT
  <2>3. QED BY <2>1, <2>2 DEF RInv, IndexT
<1>2. DocShape' BY DEF RInv, DocShape, BucketShape, Pair, Partition, MergeOf, SplitOf
<1>3. sp'.pc = pc /\ sp'.old = old /\ sp'.todo = old /\ sp'.new = new /\ sp'.op = op /\ sp'.drain = drain BY DEF JobRec
<1>4. next + 1 <= 2 * steps'
  <2>1. IndexT BY DEF RInv
  <2>2. QED BY <2>1, NewNumbers
<1>5. JobShape' BY <1>3, <1>4 DEF JobShape, Working
<1>6. Stocked' BY DEF RInv, Stocked, Inside
<1>7. BatchShape' BY <1>3 DEF BatchShape
<1>8. Emptied' BY <1>3 DEF Emptied
<1>9. AtHome' BY DEF RInv, AtHome, HomeOf, MemberOf
<1>10. QED BY <1>1, <1>2, <1>5, <1>6, <1>7, <1>8, <1>9 DEF RInv


LEMMA BeginStep ==
    ASSUME RInv, Careful, NEW op \in {"split", "merge"}, NEW r \in ranges, Begin(op, r)
    PROVE  RInv'
<1>1. PICK q \in (IF op = "merge" THEN Right(r) ELSE {r}) :
          LET old == IF op = "merge" THEN <<r.i, q.i>> ELSE <<r.i>>
              job == [NoJob EXCEPT !.op = op, !.old = old, !.todo = old]
          IN  /\ (op = "merge" /\ Careful) => q # r /\ q.st = r.st /\ q.c = r.c
              /\ \/ /\ r.st = "ACTIVE"
                    /\ op = "split" => bk[r.i] # {}
                    /\ Job([job EXCEPT !.pc = "next", !.new = IF op = "split" THEN SplitInto(r) ELSE MergeInto(r, q)])
                 \/ r.st = Busy(op) /\ Job([job EXCEPT !.pc = "page", !.new = r.c])
                 \/ r.st = Drain(op) /\ Job([job EXCEPT !.pc = "page", !.new = r.c, !.drain = TRUE])
  BY Zenon DEF Begin
<1> DEFINE old == IF op = "merge" THEN <<r.i, q.i>> ELSE <<r.i>>
           fresh == IF op = "split" THEN SplitInto(r) ELSE MergeInto(r, q)
<1>2. q \in ranges /\ (op = "merge" => q # r /\ q.st = r.st /\ q.c = r.c /\ q.lo = r.hi) /\ (op = "split" => q = r)
  BY <1>1 DEF Right
<1>3. \/ r.st = "ACTIVE" /\ (op = "split" => bk[r.i] # {}) /\ sp' = JobRec("next", op, old, fresh, old, {}, {}, FALSE)
      \/ r.st = Busy(op) /\ sp' = JobRec("page", op, old, r.c, old, {}, {}, FALSE)
      \/ r.st = Drain(op) /\ sp' = JobRec("page", op, old, r.c, old, {}, {}, TRUE)
  BY <1>1, ZenonT(40) DEF Job, NoJob, JobRec
<1>4. UNCHANGED <<score, iv, bk, ranges, next, hot, rw>> /\ steps' = steps + 1 /\ steps < MaxSteps
  BY DEF Begin, rdoc, SStep
<1>5. IndexT /\ DocShape /\ Stocked BY DEF RInv
<1>6. r \in RangeT /\ q \in RangeT BY <1>2, <1>5 DEF IndexT
<1>7. /\ r.i \in RIdx /\ q.i \in RIdx /\ r.lo \in Nat /\ r.hi \in Nat /\ q.lo \in Nat /\ q.hi \in Nat
      /\ r.c \in Pairs /\ r.lo <= r.hi /\ q.lo <= q.hi
  BY <1>2, <1>5, <1>6, RangeParts DEF DocShape, BucketShape
<1>8. old \in Seq(RIdx)
  <2>1. <<r.i, q.i>> \in Seq(RIdx) /\ <<r.i>> \in Seq(RIdx) BY <1>7
  <2>2. QED BY <2>1
<1>9. next \in RIdx /\ next + 1 \in RIdx /\ next \in Nat BY <1>4, <1>5, NewNumbers DEF IndexT
<1> HIDE DEF old, fresh
<1>10. ASSUME r.st = "ACTIVE", op = "split" => bk[r.i] # {}, sp' = JobRec("next", op, old, fresh, old, {}, {}, FALSE)
       PROVE  RInv'
  <2>1. CASE op = "split"
    <3>1. PICK mid : mid = SampleMedian(r.i) OBVIOUS
    <3>2. mid \in Nat /\ r.lo <= mid /\ mid <= r.hi BY <1>5, <1>7, <1>10, <2>1, <3>1, MedianFacts
    <3>3. PICK a : a = Child(next, r.lo, mid) OBVIOUS
    <3>4. PICK b : b = Child(next + 1, mid, r.hi) OBVIOUS
    <3>5. a \in Kids /\ a.i = next /\ a.lo = r.lo /\ a.hi = mid BY <1>7, <1>9, <3>2, <3>3 DEF Kids, Child
    <3>6. b \in Kids /\ b.i = next + 1 /\ b.lo = mid /\ b.hi = r.hi BY <1>7, <1>9, <3>2, <3>4 DEF Kids, Child
    <3>7. fresh = <<a, b>> BY <2>1, <3>1, <3>3, <3>4 DEF fresh, SplitInto
    <3>8. fresh \in Kids \X Kids /\ fresh \in Pairs /\ fresh[1] = a /\ fresh[2] = b BY <3>5, <3>6, <3>7 DEF Pairs
    <3>9. SplitOf(r, fresh) BY <1>9, <3>2, <3>5, <3>6, <3>8 DEF SplitOf
    <3>10. sp'.pc = "next" /\ sp'.op = "split" /\ sp'.old = <<r.i>> /\ sp'.new = fresh BY <1>10, <2>1 DEF JobRec, old
    <3>11. OldBuckets'
      <4>1. r \in ranges' /\ Left(r)' BY <1>4, <1>10, <3>10 DEF Left
      <4>2. SplitOf(r, sp'.new) BY <3>9, <3>10
      <4>3. QED BY <3>10, <4>1, <4>2 DEF OldBuckets, SplitOf
    <3>12. fresh[1].i = next /\ fresh[2].i = (IF op = "split" THEN next + 1 ELSE next) BY <2>1, <3>5, <3>6, <3>8
    <3>13. QED BY <1>4, <1>8, <1>10, <3>8, <3>11, <3>12, BegunStep
  <2>2. CASE op = "merge"
    <3>1. PICK a : a = Child(next, r.lo, q.hi) OBVIOUS
    <3>2. a \in Kids /\ a.i = next /\ a.lo = r.lo /\ a.hi = q.hi BY <1>7, <1>9, <3>1 DEF Kids, Child
    <3>3. fresh = <<a, a>> BY <2>2, <3>1 DEF fresh, MergeInto
    <3>4. fresh \in Kids \X Kids /\ fresh \in Pairs /\ fresh[1] = a /\ fresh[2] = a BY <3>2, <3>3 DEF Pairs
    <3>5. MergeOf(r, q, fresh) BY <1>2, <2>2, <3>2, <3>4 DEF MergeOf
    <3>6. sp'.pc = "next" /\ sp'.op = "merge" /\ sp'.old = <<r.i, q.i>> /\ sp'.new = fresh BY <1>10, <2>2 DEF JobRec, old
    <3>7. OldBuckets'
      <4>1. r \in ranges' /\ q \in ranges' /\ Left(r)' /\ Left(q)' BY <1>2, <1>4, <1>10, <2>2, <3>6 DEF Left
      <4>2. MergeOf(r, q, sp'.new) BY <3>5, <3>6
      <4>3. QED BY <1>2, <2>2, <3>6, <4>1, <4>2 DEF OldBuckets, MergeOf
    <3>8. fresh[1].i = next /\ fresh[2].i = (IF op = "split" THEN next + 1 ELSE next) BY <2>2, <3>2, <3>4
    <3>9. QED BY <1>4, <1>8, <1>10, <3>4, <3>7, <3>8, BegunStep
  <2>3. QED BY <2>1, <2>2
<1>11. ASSUME NEW drain \in BOOLEAN, r.st = IF drain THEN Drain(op) ELSE Busy(op), sp' = JobRec("page", op, old, r.c, old, {}, {}, drain)
       PROVE  RInv'
  <2>1. sp'.pc = "page" /\ sp'.op = op /\ sp'.old = old /\ sp'.new = r.c /\ sp'.drain = drain BY <1>11 DEF JobRec
  <2>2. OldBuckets'
    <3>1. CASE op = "split"
      <4>1. r.st \in {"SPLITTING", "DRAINING"} BY <1>11, <3>1 DEF Drain, Busy
      <4>2. SplitOf(r, r.c) BY <1>5, <4>1 DEF DocShape, BucketShape
      <4>3. SplitOf(r, sp'.new) BY <2>1, <4>2
      <4>4. r \in ranges' /\ Left(r)' BY <1>4, <1>11, <2>1 DEF Left
      <4>5. sp'.old = <<r.i>> BY <2>1, <3>1 DEF old
      <4>6. QED BY <2>1, <3>1, <4>3, <4>4, <4>5 DEF OldBuckets, SplitOf
    <3>2. CASE op = "merge"
      <4>1. r.st \in {"MERGING", "MERGE_DRAIN"} BY <1>11, <3>2 DEF Drain, Busy
      <4>2. MergeOf(r, q, r.c) BY <1>2, <1>5, <3>2, <4>1, ResumedPair
      <4>3. MergeOf(r, q, sp'.new) BY <2>1, <4>2
      <4>4. r \in ranges' /\ Left(r)' /\ q \in ranges' /\ Left(q)' BY <1>2, <1>4, <1>11, <2>1, <3>2 DEF Left
      <4>5. sp'.old = <<r.i, q.i>> BY <2>1, <3>2 DEF old
      <4>6. QED BY <1>2, <2>1, <3>2, <4>3, <4>4, <4>5 DEF OldBuckets, MergeOf
    <3>3. QED BY <3>1, <3>2
  <2>3. QED BY <1>4, <1>7, <1>8, <1>11, <2>2, BegunStep
<1>12. QED BY <1>3, <1>10, <1>11, Zenon


LEMMA NewPair ==
    ASSUME OldBuckets
    PROVE  sp.new \in Kids \X Kids
BY DEF OldBuckets, SplitOf, MergeOf

LEMMA CasNextStep ==
    ASSUME RInv, CasNext
    PROVE  RInv'
<1>1. sp.pc = "next" /\ next' = next + (IF sp.op = "split" THEN 2 ELSE 1) /\ sp' = [sp EXCEPT !.pc = "busy"]
  BY DEF CasNext, Job
<1>2. UNCHANGED <<score, iv, bk, ranges, hot, rw, steps>> BY DEF CasNext, SStep
<1>3. sp \in JobT /\ next \in Nat /\ steps \in Nat BY DEF RInv, IndexT
<1>4. /\ sp' \in JobT /\ sp'.pc = "busy" /\ sp'.op = sp.op /\ sp'.old = sp.old /\ sp'.new = sp.new
      /\ sp'.todo = sp.todo /\ sp'.drain = sp.drain BY <1>1, <1>3 DEF JobT
<1>5. /\ OldBuckets /\ (sp.todo = sp.old \/ sp.todo = Tail(sp.old) \/ sp.todo = <<>>)
      /\ next + 1 <= 2 * steps /\ sp.new[1].i = next /\ sp.new[2].i = IF sp.op = "split" THEN next + 1 ELSE next
  BY <1>1 DEF RInv, JobShape, Working
<1>6. next' \in Nat /\ next < next' /\ next' <= 2 * steps + 1 BY <1>1, <1>3, <1>5
<1>7. IndexT' BY <1>2, <1>4, <1>6 DEF RInv, IndexT
<1>8. \A r \in ranges : r.i < next /\ r.i \in Nat /\ \A j \in DOMAIN r.c : r.c[j].i < next
  BY RangeParts DEF RInv, IndexT, DocShape, BucketShape
<1>9. \A r \in ranges : r.i < next' BY <1>3, <1>6, <1>8
<1>10. \A r \in ranges : \A j \in DOMAIN r.c : r.c[j].i \in Nat
  <2> TAKE r \in ranges
  <2>1. r.c \in Pairs BY RangeParts DEF RInv, IndexT
  <2>2. CASE r.c = <<>> BY <2>2
  <2>3. CASE r.c \in Kids \X Kids BY <2>3, KidParts
  <2>4. QED BY <2>1, <2>2, <2>3 DEF Pairs
<1>11. \A r \in ranges : \A j \in DOMAIN r.c : r.c[j].i < next' BY <1>3, <1>6, <1>8, <1>10
<1>12. DocShape'
  <2>1. \A r \in ranges : BucketShape(r) => BucketShape(r)' BY <1>2, <1>9 DEF BucketShape, Pair, MergeOf, SplitOf
  <2>2. Partition' BY <1>2 DEF RInv, DocShape, Partition, RangeContains
  <2>3. QED BY <1>2, <1>11, <2>1, <2>2 DEF RInv, DocShape
<1>13. OldBuckets' BY <1>1, <1>2, <1>4, <1>5 DEF OldBuckets, Left, SplitOf, MergeOf
<1>14. sp.new[1].i \in RIdx /\ sp.new[2].i \in RIdx BY <1>5, NewPair, KidParts
<1>15. ASSUME NEW j \in 1 .. 2 PROVE sp.new[j].i < next' /\ Unused(sp.new[j].i)' /\ bk[sp.new[j].i] = {}
  <2>1. sp.new[j].i \in RIdx /\ sp.new[j].i >= next /\ sp.new[j].i < next' BY <1>1, <1>3, <1>5, <1>14
  <2>2. bk[sp.new[j].i] = {} BY <2>1 DEF RInv, Stocked
  <2>3. PICK n \in Nat : n = sp.new[j].i BY <2>1, RIdxNat
  <2>4. \A r \in ranges : r.i # n /\ \A h \in DOMAIN r.c : r.c[h].i # n BY <1>3, <1>8, <1>10, <2>1, <2>3
  <2>5. Unused(n)' BY <1>2, <2>4 DEF Unused
  <2>6. QED BY <1>4, <2>1, <2>2, <2>3, <2>5
<1>15a. ~sp.drain /\ sp.todo = sp.old BY <1>1 DEF RInv, JobShape
<1>16. JobShape' BY <1>2, <1>4, <1>5, <1>13, <1>15, <1>15a DEF JobShape, Unused
<1>17. Stocked'
  <2>1. \A i \in RIdx : i >= next' => bk[i] = {} BY <1>3, <1>6, RIdxNat DEF RInv, Stocked
  <2>2. QED BY <1>2, <2>1 DEF RInv, Stocked, Inside
<1>18. BatchShape' /\ Emptied' BY <1>4 DEF BatchShape, Emptied
<1>19. AtHome' BY <1>2 DEF RInv, AtHome, HomeOf, MemberOf
<1>20. QED BY <1>7, <1>12, <1>16, <1>17, <1>18, <1>19 DEF RInv


\* A bucket of the document after its state was set.
Mark(r, mode) == IF r.i \in Elems(sp.old) THEN [r EXCEPT !.st = mode, !.c = sp.new] ELSE r

LEMMA MarkFacts ==
    ASSUME IndexT, DocShape, OldBuckets, NEW mode \in {"SPLITTING", "DRAINING", "MERGING", "MERGE_DRAIN"}
    PROVE  /\ \A r \in ranges : /\ Mark(r, mode) \in RangeT
                                /\ Mark(r, mode).i = r.i /\ Mark(r, mode).lo = r.lo /\ Mark(r, mode).hi = r.hi
                                /\ r.i \in Elems(sp.old) => Mark(r, mode).st = mode /\ Mark(r, mode).c = sp.new
                                /\ r.i \notin Elems(sp.old) => Mark(r, mode) = r
           /\ \A r, q \in ranges : Mark(r, mode) = Mark(q, mode) => r = q
           /\ Marked(mode, sp.new) = {Mark(r, mode) : r \in ranges}
<1>1. ASSUME NEW r \in ranges
      PROVE  /\ Mark(r, mode) \in RangeT
             /\ Mark(r, mode).i = r.i /\ Mark(r, mode).lo = r.lo /\ Mark(r, mode).hi = r.hi
             /\ r.i \in Elems(sp.old) => Mark(r, mode).st = mode /\ Mark(r, mode).c = sp.new
             /\ r.i \notin Elems(sp.old) => Mark(r, mode) = r
  <2>1. r \in RangeT BY DEF IndexT
  <2>2. PICK c \in Pairs : c = sp.new BY NewPair DEF Pairs
  <2>3. CASE r.i \in Elems(sp.old)
    <3>1. Mark(r, mode) = [r EXCEPT !.st = mode, !.c = c] BY <2>2, <2>3 DEF Mark
    <3>2. QED BY <2>1, <2>2, <2>3, <3>1 DEF RangeT
  <2>4. CASE r.i \notin Elems(sp.old) BY <2>1, <2>4 DEF Mark
  <2>5. QED BY <2>3, <2>4
<1>2. ASSUME NEW r \in ranges, NEW q \in ranges, Mark(r, mode) = Mark(q, mode) PROVE r = q
  <2>1. r.i = q.i BY <1>1, <1>2
  <2>2. QED BY <2>1 DEF DocShape
<1>3. Marked(mode, sp.new) = {Mark(r, mode) : r \in ranges} BY DEF Marked, Mark
<1>4. QED BY <1>1, <1>2, <1>3

\* The numbers of the new buckets are nobody else's.
Apartness ==
    \A j \in 1 .. 2 : /\ sp.new[j].i < next
                      /\ Inside(sp.new[j], bk[sp.new[j].i])
                      /\ \A q \in ranges : /\ q.i # sp.new[j].i
                                           /\ q.i \notin Elems(sp.old) => \A h \in DOMAIN q.c : q.c[h].i # sp.new[j].i

LEMMA OldNumbers ==
    ASSUME OldBuckets
    PROVE  /\ sp.op \in {"split", "merge"}
           /\ sp.op = "split" => \E r \in ranges : Elems(sp.old) = {r.i} /\ SplitOf(r, sp.new) /\ Left(r)
           /\ sp.op = "merge" => \E l, q \in ranges : l # q /\ Elems(sp.old) = {l.i, q.i} /\ MergeOf(l, q, sp.new) /\ Left(l) /\ Left(q)
<1>1. \A a : Elems(<<a>>) = {a}
  <2> TAKE a
  <2>1. DOMAIN <<a>> = {1} /\ <<a>>[1] = a OBVIOUS
  <2>2. QED BY <2>1 DEF Elems
<1>2. \A a, b : Elems(<<a, b>>) = {a, b}
  <2> TAKE a, b
  <2>1. DOMAIN <<a, b>> = {1, 2} /\ <<a, b>>[1] = a /\ <<a, b>>[2] = b OBVIOUS
  <2>2. QED BY <2>1 DEF Elems
<1>3. CASE sp.op = "split"
  <2>1. PICK r \in ranges : sp.old = <<r.i>> /\ SplitOf(r, sp.new) /\ Left(r) BY <1>3 DEF OldBuckets
  <2>2. Elems(sp.old) = {r.i} BY <1>1, <2>1
  <2>3. QED BY <1>3, <2>1, <2>2
<1>4. CASE sp.op = "merge"
  <2>1. PICK l, q \in ranges : l # q /\ sp.old = <<l.i, q.i>> /\ MergeOf(l, q, sp.new) /\ Left(l) /\ Left(q) BY <1>4 DEF OldBuckets
  <2>2. Elems(sp.old) = {l.i, q.i} BY <1>2, <2>1
  <2>3. QED BY <1>4, <2>1, <2>2
<1>5. QED BY <1>3, <1>4 DEF OldBuckets

LEMMA MarkedDoc ==
    ASSUME IndexT, DocShape, OldBuckets, Apartness, NEW mode, mode = Busy(sp.op) \/ mode = Drain(sp.op),
           ranges' = Marked(mode, sp.new), UNCHANGED next
    PROVE  DocShape'
<1> DEFINE E == Elems(sp.old)
           mk(r) == Mark(r, mode)
<1>0. mode \in {"SPLITTING", "DRAINING", "MERGING", "MERGE_DRAIN"} BY OldNumbers DEF Busy, Drain
<1>1. \A r \in ranges : /\ mk(r) \in RangeT /\ mk(r).i = r.i /\ mk(r).lo = r.lo /\ mk(r).hi = r.hi
                        /\ r.i \in E => mk(r).st = mode /\ mk(r).c = sp.new
                        /\ r.i \notin E => mk(r) = r
  BY <1>0, MarkFacts
<1>2. \A r, q \in ranges : mk(r) = mk(q) => r = q BY <1>0, MarkFacts
<1>3. ranges' = {mk(r) : r \in ranges} BY <1>0, MarkFacts
<1>4. sp.new \in Kids \X Kids /\ DOMAIN sp.new = 1 .. 2 /\ sp.new # <<>> BY NewPair, KidParts
<1> HIDE DEF E, mk
<1>5. \A r \in ranges : r.i \notin E => r.c # sp.new
  <2> SUFFICES ASSUME NEW r \in ranges, r.i \notin E, r.c = sp.new PROVE FALSE OBVIOUS
  <2>1. 1 \in DOMAIN r.c /\ 1 \in 1 .. 2 BY <1>4
  <2>2. r.c[1].i # sp.new[1].i BY <2>1 DEF Apartness, E
  <2>3. QED BY <2>2
<1>6. \A x \in ranges' : \E r \in ranges : x = mk(r) BY <1>3
<1>7. \A r \in ranges : mk(r) \in ranges' BY <1>3
<1>8. ASSUME NEW r \in ranges, r.i \notin E PROVE BucketShape(r)'
  <2>1. BucketShape(r) BY DEF DocShape
  <2>2. mk(r) = r /\ r \in ranges' BY <1>1, <1>7, <1>8
  <2>3. ASSUME NEW y \in ranges', y.c = r.c PROVE y \in ranges
    <3>1. PICK q \in ranges : y = mk(q) BY <1>6
    <3>2. q.i \notin E BY <1>1, <1>5, <1>8, <2>3, <3>1
    <3>3. QED BY <1>1, <3>1, <3>2
  <2>5. CASE r.st = "ACTIVE" BY <2>1, <2>5 DEF BucketShape
  <2>6. CASE r.st \in {"SPLITTING", "DRAINING"}
    <3>1. \A y \in ranges' : y.c = r.c => y = r BY <2>1, <2>3, <2>6 DEF BucketShape
    <3>2. QED BY <2>1, <2>6, <3>1 DEF BucketShape, SplitOf
  <2>7. CASE r.st \in {"MERGING", "MERGE_DRAIN"}
    <3>1. PICK p \in ranges : Pair(r, p) \/ Pair(p, r) BY <2>1, <2>7 DEF BucketShape
    <3>2. p.c = r.c /\ p.st = r.st BY <3>1 DEF Pair
    <3>3. p.i \notin E
      <4> SUFFICES ASSUME p.i \in E PROVE FALSE OBVIOUS
      <4>1. BucketShape(p) BY DEF DocShape
      <4>2. PICK a \in ranges : a.i \in E /\ p = a /\ Left(a)
        <5>1. CASE sp.op = "split" BY <5>1, OldNumbers DEF E, DocShape
        <5>2. CASE sp.op = "merge" BY <5>2, OldNumbers DEF E, DocShape
        <5>3. QED BY <5>1, <5>2, OldNumbers
      <4>3. p.st = "ACTIVE" \/ p.c = sp.new BY <4>2 DEF Left
      <4>4. p.c = sp.new BY <2>7, <3>2, <4>3
      <4>5. QED BY <1>5, <1>8, <3>2, <4>4
    <3>4. p \in ranges' BY <1>1, <1>7, <3>3
    <3>5. Pair(r, p)' \/ Pair(p, r)' BY <2>3, <3>1, <3>2 DEF Pair, MergeOf
    <3>6. QED BY <2>1, <2>7, <3>4, <3>5 DEF BucketShape
  <2>8. r.st \in {"ACTIVE", "SPLITTING", "DRAINING", "MERGING", "MERGE_DRAIN"} BY DEF IndexT, RangeT
  <2>9. QED BY <2>5, <2>6, <2>7, <2>8
<1>9. ASSUME NEW y \in ranges', y.c = sp.new PROVE \E q \in ranges : q.i \in E /\ y = mk(q)
  <2>1. PICK q \in ranges : y = mk(q) BY <1>6
  <2>2. QED BY <1>1, <1>5, <1>9, <2>1
<1>10. ASSUME NEW r \in ranges, r.i \in E, NEW x, x = mk(r) PROVE BucketShape(x)'
  <2>1. /\ mk(r).lo <= mk(r).hi /\ mk(r).i < next /\ mk(r).st = mode /\ mk(r).c = sp.new
        /\ mk(r).lo = r.lo /\ mk(r).hi = r.hi
    BY <1>1, <1>10 DEF DocShape, BucketShape
  <2>2. mode # "ACTIVE" BY <1>0
  <2>3. CASE sp.op = "split"
    <3>1. PICK a \in ranges : E = {a.i} /\ SplitOf(a, sp.new) BY <2>3, OldNumbers DEF E
    <3>2. a = r BY <1>10, <3>1 DEF DocShape
    <3>3. mode \in {"SPLITTING", "DRAINING"} BY <2>3 DEF Busy, Drain
    <3>4. SplitOf(mk(r), sp.new) BY <2>1, <3>1, <3>2 DEF SplitOf
    <3>5. \A y \in ranges' : y.c = sp.new => y = mk(r) BY <1>9, <3>1, <3>2 DEF DocShape
    <3>6. QED BY <1>4, <1>10, <2>1, <3>3, <3>4, <3>5 DEF BucketShape, SplitOf
  <2>4. CASE sp.op = "merge"
    <3>1. PICK l, q \in ranges : l # q /\ E = {l.i, q.i} /\ MergeOf(l, q, sp.new) BY <2>4, OldNumbers DEF E
    <3>2. r = l \/ r = q BY <1>10, <3>1 DEF DocShape
    <3>3. mode \in {"MERGING", "MERGE_DRAIN"} BY <2>4 DEF Busy, Drain
    <3>4. PICK a : a = mk(l) OBVIOUS
    <3>5. PICK b : b = mk(q) OBVIOUS
    <3>6. l.i \in E /\ q.i \in E BY <3>1
    <3>7. a.st = mode /\ a.c = sp.new /\ a.lo = l.lo /\ a.hi = l.hi /\ a \in ranges' BY <1>1, <1>7, <3>4, <3>6
    <3>8. b.st = mode /\ b.c = sp.new /\ b.lo = q.lo /\ b.hi = q.hi /\ b \in ranges' BY <1>1, <1>7, <3>5, <3>6
    <3>9. a # b BY <1>2, <3>1, <3>4, <3>5
    <3>10. \A y \in ranges' : y.c = sp.new => y = a \/ y = b
      <4> SUFFICES ASSUME NEW y \in ranges', y.c = sp.new PROVE y = a \/ y = b OBVIOUS
      <4>1. PICK z \in ranges : z.i \in E /\ y = mk(z) BY <1>9
      <4>2. z = l \/ z = q BY <3>1, <4>1 DEF DocShape
      <4>3. QED BY <3>4, <3>5, <4>1, <4>2
    <3>11. MergeOf(a, b, sp.new) BY <3>1, <3>7, <3>8 DEF MergeOf
    <3>12. Pair(a, b)' BY <3>7, <3>8, <3>9, <3>10, <3>11 DEF Pair, MergeOf
    <3>13. x = a \/ x = b BY <1>10, <3>2, <3>4, <3>5
    <3>14. QED BY <1>4, <1>10, <2>1, <3>3, <3>7, <3>8, <3>12, <3>13 DEF BucketShape
  <2>5. QED BY <2>3, <2>4, OldNumbers
<1>11. \A x \in ranges' : BucketShape(x)'
  <2> TAKE x \in ranges'
  <2>1. PICK r \in ranges : x = mk(r) BY <1>6
  <2>2. CASE r.i \in E BY <1>10, <2>1, <2>2
  <2>3. CASE r.i \notin E BY <1>1, <1>8, <2>1, <2>3
  <2>4. QED BY <2>2, <2>3
<1>12. \A x, y \in ranges' : x.i = y.i => x = y
  <2> SUFFICES ASSUME NEW x \in ranges', NEW y \in ranges', x.i = y.i PROVE x = y OBVIOUS
  <2>1. PICK r \in ranges : x = mk(r) BY <1>6
  <2>2. PICK q \in ranges : y = mk(q) BY <1>6
  <2>3. r = q BY <1>1, <2>1, <2>2 DEF DocShape
  <2>4. QED BY <2>1, <2>2, <2>3
<1>13. \A x, y \in ranges' : \A j \in DOMAIN x.c : x.c[j].i < next /\ x.c[j].i # y.i
  <2> TAKE x, y \in ranges'
  <2> TAKE j \in DOMAIN x.c
  <2>1. PICK r \in ranges : x = mk(r) BY <1>6
  <2>2. PICK q \in ranges : y = mk(q) BY <1>6
  <2>3. y.i = q.i BY <1>1, <2>2
  <2>4. CASE r.i \in E
    <3>1. x.c = sp.new BY <1>1, <2>1, <2>4
    <3>2. j \in 1 .. 2 BY <1>4, <3>1
    <3>3. sp.new[j].i < next /\ q.i # sp.new[j].i BY <3>2 DEF Apartness
    <3>4. QED BY <2>3, <3>1, <3>3
  <2>5. CASE r.i \notin E
    <3>1. x = r BY <1>1, <2>1, <2>5
    <3>2. QED BY <2>3, <3>1 DEF DocShape
  <2>6. QED BY <2>4, <2>5
<1>14. \A x, y \in ranges' : \A j \in DOMAIN x.c, h \in DOMAIN y.c : x.c[j].i = y.c[h].i => x.c = y.c
  <2> SUFFICES ASSUME NEW x \in ranges', NEW y \in ranges', NEW j \in DOMAIN x.c, NEW h \in DOMAIN y.c, x.c[j].i = y.c[h].i
               PROVE  x.c = y.c
    OBVIOUS
  <2>1. PICK r \in ranges : x = mk(r) BY <1>6
  <2>2. PICK q \in ranges : y = mk(q) BY <1>6
  <2>3. r.i \in E => x.c = sp.new /\ j \in 1 .. 2 BY <1>1, <1>4, <2>1
  <2>4. q.i \in E => y.c = sp.new /\ h \in 1 .. 2 BY <1>1, <1>4, <2>2
  <2>5. r.i \notin E => x.c = r.c BY <1>1, <2>1
  <2>6. q.i \notin E => y.c = q.c BY <1>1, <2>2
  <2>7. CASE r.i \in E /\ q.i \in E BY <2>3, <2>4, <2>7
  <2>8. CASE r.i \in E /\ q.i \notin E
    <3>1. q.c[h].i # sp.new[j].i BY <2>3, <2>6, <2>8 DEF Apartness, E
    <3>2. QED BY <2>3, <2>6, <2>8, <3>1
  <2>9. CASE r.i \notin E /\ q.i \in E
    <3>1. r.c[j].i # sp.new[h].i BY <2>4, <2>5, <2>9 DEF Apartness, E
    <3>2. QED BY <2>4, <2>5, <2>9, <3>1
  <2>10. CASE r.i \notin E /\ q.i \notin E BY <2>5, <2>6, <2>10 DEF DocShape
  <2>11. QED BY <2>7, <2>8, <2>9, <2>10
<1>15. Partition'
  <2>1. \A r \in ranges, s \in Scores : RangeContains(mk(r), s) <=> RangeContains(r, s) BY <1>1 DEF RangeContains
  <2>2. ASSUME NEW s \in Scores PROVE \E x \in ranges' : RangeContains(x, s) /\ \A y \in ranges' : RangeContains(y, s) => y = x
    <3>1. PICK r \in ranges : RangeContains(r, s) /\ \A q \in ranges : RangeContains(q, s) => q = r BY DEF DocShape, Partition
    <3>2. mk(r) \in ranges' /\ RangeContains(mk(r), s) BY <1>7, <2>1, <3>1
    <3>3. \A y \in ranges' : RangeContains(y, s) => y = mk(r) BY <1>6, <2>1, <3>1
    <3>4. QED BY <3>2, <3>3
  <2>3. QED BY <2>2 DEF Partition, RangeContains
<1>16. QED BY <1>11, <1>12, <1>13, <1>14, <1>15 DEF DocShape


\* CasBusy and CasDrain, but for the job.
LEMMA MarkedStep ==
    ASSUME RInv, OldBuckets, Apartness, NEW mode, mode = Busy(sp.op) \/ mode = Drain(sp.op), ranges' = Marked(mode, sp.new),
           UNCHANGED <<score, iv, bk, next, hot, rw, steps>>, sp' \in JobT
    PROVE  IndexT' /\ DocShape' /\ Stocked' /\ AtHome'
<1> DEFINE E == Elems(sp.old)
           mk(r) == Mark(r, mode)
<1>0. IndexT /\ DocShape /\ Stocked /\ AtHome BY DEF RInv
<1>1. mode \in {"SPLITTING", "DRAINING", "MERGING", "MERGE_DRAIN"} BY OldNumbers DEF Busy, Drain
<1>2. \A r \in ranges : /\ mk(r) \in RangeT /\ mk(r).i = r.i /\ mk(r).lo = r.lo /\ mk(r).hi = r.hi
                        /\ r.i \in E => mk(r).st = mode /\ mk(r).c = sp.new
                        /\ r.i \notin E => mk(r) = r
  BY <1>0, <1>1, MarkFacts
<1>3. ranges' = {mk(r) : r \in ranges} BY <1>0, <1>1, MarkFacts
<1>4. \A x \in ranges' : \E r \in ranges : x = mk(r) BY <1>3
<1>5. sp.new \in Kids \X Kids /\ DOMAIN sp.new = 1 .. 2 BY NewPair, KidParts
<1>6. \A r \in ranges : r.i \in E => Left(r)
  <2>1. CASE sp.op = "split" BY <1>0, <2>1, OldNumbers DEF DocShape
  <2>2. CASE sp.op = "merge" BY <1>0, <2>2, OldNumbers DEF DocShape
  <2>3. QED BY <2>1, <2>2, OldNumbers
<1>7. \A r \in ranges : r.i \in E => r.c = <<>> \/ r.c = sp.new BY <1>0, <1>6 DEF Left, DocShape, BucketShape
<1> HIDE DEF E, mk
<1>8. IndexT'
  <2>1. ranges' \subseteq RangeT BY <1>2, <1>4
  <2>2. QED BY <1>0, <2>1 DEF IndexT
<1>9. DocShape' BY <1>0, MarkedDoc
<1>10. ASSUME NEW x \in ranges' PROVE Inside(x, bk[x.i]) /\ \A j \in DOMAIN x.c : Inside(x.c[j], bk[x.c[j].i])
  <2>1. PICK r \in ranges : x = mk(r) BY <1>4
  <2>2. Inside(r, bk[r.i]) /\ \A j \in DOMAIN r.c : Inside(r.c[j], bk[r.c[j].i]) BY <1>0 DEF Stocked
  <2>3. Inside(x, bk[x.i])
    <3>1. x.i = r.i /\ x.lo = r.lo /\ x.hi = r.hi BY <1>2, <2>1
    <3>2. QED BY <2>2, <3>1 DEF Inside, RangeContains
  <2>4. \A j \in 1 .. 2 : Inside(sp.new[j], bk[sp.new[j].i]) BY DEF Apartness
  <2>5. CASE r.i \in E
    <3>1. x.c = sp.new BY <1>2, <2>1, <2>5
    <3>2. QED BY <1>5, <2>3, <2>4, <3>1
  <2>6. CASE r.i \notin E
    <3>1. x = r BY <1>2, <2>1, <2>6
    <3>2. QED BY <2>2, <3>1
  <2>7. QED BY <2>5, <2>6
<1>11. Stocked' BY <1>0, <1>10 DEF Stocked, Inside, RangeContains
<1>12. ASSUME NEW k \in RPks, NEW x \in ranges', score[k] # 0, RangeContains(x, score[k]) PROVE HomeOf(x, k)
  <2>1. PICK r \in ranges : x = mk(r) BY <1>4
  <2>2. RangeContains(r, score[k]) /\ x.i = r.i BY <1>2, <1>12, <2>1 DEF RangeContains
  <2>3. HomeOf(r, k) BY <1>0, <1>12, <2>2 DEF AtHome
  <2>4. x.c = r.c \/ r.c = <<>>
    <3>1. CASE r.i \in E BY <1>2, <1>7, <2>1, <3>1
    <3>2. CASE r.i \notin E BY <1>2, <2>1, <3>2
    <3>3. QED BY <3>1, <3>2
  <2>5. CASE x.c = r.c BY <2>2, <2>3, <2>5 DEF HomeOf
  <2>6. CASE r.c = <<>>
    <3>1. DOMAIN r.c = {} BY <2>6
    <3>2. QED BY <2>2, <2>3, <3>1 DEF HomeOf
  <2>7. QED BY <2>4, <2>5, <2>6
<1>13. AtHome'
  <2>1. \A k \in RPks, x \in ranges' : HomeOf(x, k) => HomeOf(x, k)' BY DEF HomeOf, MemberOf, RangeContains
  <2>2. QED BY <1>12, <2>1 DEF AtHome, RangeContains
<1>14. QED BY <1>8, <1>9, <1>11, <1>13

\* The old buckets under their new state.
LEMMA MarkedOld ==
    ASSUME IndexT, DocShape, OldBuckets, NEW mode, mode = Busy(sp.op) \/ mode = Drain(sp.op), ranges' = Marked(mode, sp.new),
           sp'.op = sp.op, sp'.old = sp.old, sp'.new = sp.new, sp'.pc = "page",
           mode = IF sp'.drain THEN Drain(sp.op) ELSE Busy(sp.op)
    PROVE  OldBuckets'
<1>1. mode \in {"SPLITTING", "DRAINING", "MERGING", "MERGE_DRAIN"} BY OldNumbers DEF Busy, Drain
<1>2. \A r \in ranges : /\ Mark(r, mode).i = r.i /\ Mark(r, mode).lo = r.lo /\ Mark(r, mode).hi = r.hi
                        /\ r.i \in Elems(sp.old) => Mark(r, mode).st = mode /\ Mark(r, mode).c = sp.new
  BY <1>1, MarkFacts
<1>3. \A r, q \in ranges : Mark(r, mode) = Mark(q, mode) => r = q BY <1>1, MarkFacts
<1>4. \A r \in ranges : Mark(r, mode) \in ranges' BY <1>1, MarkFacts
<1>5. ASSUME NEW x, x.st = mode, x.c = sp.new PROVE Left(x)' BY <1>5 DEF Left, Busy, Drain
<1>6. CASE sp.op = "split"
  <2>1. PICK r \in ranges : sp.old = <<r.i>> /\ SplitOf(r, sp.new) BY <1>6 DEF OldBuckets
  <2>2. PICK x : x = Mark(r, mode) OBVIOUS
  <2>3. r.i \in Elems(sp.old)
    <3>1. <<r.i>>[1] = r.i /\ 1 \in DOMAIN <<r.i>> OBVIOUS
    <3>2. QED BY <2>1, <3>1 DEF Elems
  <2>4. x \in ranges' /\ x.i = r.i /\ x.lo = r.lo /\ x.hi = r.hi /\ x.st = mode /\ x.c = sp.new BY <1>2, <1>4, <2>2, <2>3
  <2>5. Left(x)' BY <1>5, <2>4
  <2>6. SplitOf(x, sp.new) BY <2>1, <2>4 DEF SplitOf
  <2>7. QED BY <1>6, <2>1, <2>4, <2>5, <2>6 DEF OldBuckets, SplitOf
<1>7. CASE sp.op = "merge"
  <2>1. PICK l, q \in ranges : l # q /\ sp.old = <<l.i, q.i>> /\ MergeOf(l, q, sp.new) BY <1>7 DEF OldBuckets
  <2>2. PICK x : x = Mark(l, mode) OBVIOUS
  <2>3. PICK y : y = Mark(q, mode) OBVIOUS
  <2>4. l.i \in Elems(sp.old) /\ q.i \in Elems(sp.old)
    <3>1. <<l.i, q.i>>[1] = l.i /\ <<l.i, q.i>>[2] = q.i /\ 1 \in DOMAIN <<l.i, q.i>> /\ 2 \in DOMAIN <<l.i, q.i>> OBVIOUS
    <3>2. QED BY <2>1, <3>1 DEF Elems
  <2>5. x \in ranges' /\ x.i = l.i /\ x.lo = l.lo /\ x.hi = l.hi /\ x.st = mode /\ x.c = sp.new BY <1>2, <1>4, <2>2, <2>4
  <2>6. y \in ranges' /\ y.i = q.i /\ y.lo = q.lo /\ y.hi = q.hi /\ y.st = mode /\ y.c = sp.new BY <1>2, <1>4, <2>3, <2>4
  <2>7. Left(x)' /\ Left(y)' BY <1>5, <2>5, <2>6
  <2>8. x # y BY <1>3, <2>1, <2>2, <2>3
  <2>9. MergeOf(x, y, sp.new) BY <2>1, <2>5, <2>6 DEF MergeOf
  <2>10. QED BY <1>7, <2>1, <2>5, <2>6, <2>7, <2>8, <2>9 DEF OldBuckets, MergeOf
<1>8. QED BY <1>6, <1>7, OldNumbers


LEMMA ApartLater ==
    ASSUME RInv, sp.pc \in {"page", "move", "final"}
    PROVE  OldBuckets /\ Apartness
<1>0. IndexT /\ DocShape /\ Stocked BY DEF RInv
<1>1. OldBuckets BY DEF RInv, JobShape, Working
<1>2. \A r : Left(r) => r.c = sp.new /\ r.st = (IF sp.drain THEN Drain(sp.op) ELSE Busy(sp.op)) BY DEF Left
<1>3. PICK a \in ranges : a.i \in Elems(sp.old) /\ Left(a) /\ \A q \in ranges : q.c = a.c => q.i \in Elems(sp.old)
  <2>1. CASE sp.op = "split"
    <3>1. PICK r \in ranges : Elems(sp.old) = {r.i} /\ Left(r) BY <1>1, <2>1, OldNumbers
    <3>2. r.st \in {"SPLITTING", "DRAINING"} BY <1>2, <2>1, <3>1 DEF Busy, Drain
    <3>3. \A q \in ranges : q.c = r.c => q = r BY <1>0, <3>2 DEF DocShape, BucketShape
    <3>4. QED BY <3>1, <3>3
  <2>2. CASE sp.op = "merge"
    <3>1. PICK l, q \in ranges : l # q /\ Elems(sp.old) = {l.i, q.i} /\ Left(l) /\ Left(q) BY <1>1, <2>2, OldNumbers
    <3>2. l.st \in {"MERGING", "MERGE_DRAIN"} /\ q.c = l.c BY <1>2, <2>2, <3>1 DEF Busy, Drain
    <3>3. PICK p \in ranges : Pair(l, p) \/ Pair(p, l) BY <1>0, <3>2 DEF DocShape, BucketShape
    <3>4. \A z \in ranges : z.c = l.c => z = l \/ z = p BY <3>3 DEF Pair
    <3>5. p = q BY <3>1, <3>2, <3>4
    <3>6. QED BY <3>1, <3>4, <3>5
  <2>3. QED BY <1>1, <2>1, <2>2, OldNumbers
<1>4. a.c = sp.new BY <1>2, <1>3
<1>5. DOMAIN sp.new = 1 .. 2 BY <1>1, NewPair, KidParts
<1>6. ASSUME NEW j \in 1 .. 2, NEW q \in ranges, q.i \notin Elems(sp.old), NEW h \in DOMAIN q.c PROVE q.c[h].i # sp.new[j].i
  <2>1. q.c[h].i = a.c[j].i => q.c = a.c BY <1>0, <1>4, <1>5 DEF DocShape
  <2>2. QED BY <1>3, <1>4, <1>6, <2>1
<1>7. \A j \in 1 .. 2 : sp.new[j].i < next /\ Inside(sp.new[j], bk[sp.new[j].i]) /\ \A q \in ranges : q.i # sp.new[j].i
  BY <1>0, <1>4, <1>5 DEF DocShape, Stocked
<1>8. QED BY <1>1, <1>6, <1>7 DEF Apartness

LEMMA CasBusyStep ==
    ASSUME RInv, CasBusy
    PROVE  RInv'
<1>1. sp.pc = "busy" /\ ranges' = Marked(Busy(sp.op), sp.new) /\ sp' = [sp EXCEPT !.pc = "page"] BY DEF CasBusy, Job
<1>2. UNCHANGED <<score, iv, bk, next, hot, rw, steps>> BY DEF CasBusy, SStep
<1>3. sp \in JobT /\ IndexT /\ DocShape BY DEF RInv, IndexT
<1>4. /\ sp' \in JobT /\ sp'.pc = "page" /\ sp'.op = sp.op /\ sp'.old = sp.old /\ sp'.new = sp.new
      /\ sp'.todo = sp.todo /\ sp'.drain = sp.drain BY <1>1, <1>3 DEF JobT
<1>5. OldBuckets /\ ~sp.drain /\ sp.todo = sp.old BY <1>1 DEF RInv, JobShape, Working
<1>6. \A j \in 1 .. 2 : sp.new[j].i < next /\ Unused(sp.new[j].i) /\ bk[sp.new[j].i] = {} BY <1>1 DEF RInv, JobShape
<1>7. Apartness BY <1>6 DEF Apartness, Unused, Inside
<1>8. PICK mode : mode = Busy(sp.op) OBVIOUS
<1>9. ranges' = Marked(mode, sp.new) BY <1>1, <1>8
<1>10. IndexT' /\ DocShape' /\ Stocked' /\ AtHome' BY <1>2, <1>4, <1>5, <1>7, <1>8, <1>9, MarkedStep
<1>11. OldBuckets' BY <1>3, <1>4, <1>5, <1>8, <1>9, MarkedOld
<1>12. JobShape' BY <1>4, <1>5, <1>11 DEF JobShape
<1>13. BatchShape' /\ Emptied' BY <1>4, <1>5 DEF BatchShape, Emptied
<1>14. QED BY <1>10, <1>12, <1>13 DEF RInv

LEMMA CasDrainStep ==
    ASSUME RInv, CasDrain
    PROVE  RInv'
<1>1. sp.pc = "page" /\ ranges' = Marked(Drain(sp.op), sp.new) /\ sp' = [sp EXCEPT !.todo = sp.old, !.drain = TRUE] BY DEF CasDrain, Job
<1>2. UNCHANGED <<score, iv, bk, next, hot, rw, steps>> BY DEF CasDrain, SStep
<1>3. sp \in JobT /\ IndexT /\ DocShape BY DEF RInv, IndexT
<1>4. /\ sp' \in JobT /\ sp'.pc = "page" /\ sp'.op = sp.op /\ sp'.old = sp.old /\ sp'.new = sp.new
      /\ sp'.todo = sp.old /\ sp'.drain = TRUE BY <1>1, <1>3 DEF JobT
<1>5. OldBuckets /\ Apartness BY <1>1, ApartLater
<1>6. PICK mode : mode = Drain(sp.op) OBVIOUS
<1>7. ranges' = Marked(mode, sp.new) BY <1>1, <1>6
<1>8. IndexT' /\ DocShape' /\ Stocked' /\ AtHome' BY <1>2, <1>4, <1>5, <1>6, <1>7, MarkedStep
<1>9. OldBuckets' BY <1>3, <1>4, <1>5, <1>6, <1>7, MarkedOld
<1>10. JobShape' BY <1>4, <1>5, <1>9 DEF JobShape
<1>11. BatchShape' /\ Emptied' BY <1>4, <1>5 DEF BatchShape, Emptied
<1>12. QED BY <1>8, <1>10, <1>11 DEF RInv

\* A step that only changes the job.
LEMMA JobOnly ==
    ASSUME RInv, UNCHANGED <<score, iv, bk, ranges, next, rw, steps>>, hot' \in BOOLEAN, sp' \in JobT, JobShape', BatchShape', Emptied'
    PROVE  RInv'
<1>1. IndexT' BY DEF RInv, IndexT
<1>2. DocShape' BY DEF RInv, DocShape, BucketShape, Pair, Partition, MergeOf, SplitOf
<1>3. Stocked' BY DEF RInv, Stocked, Inside
<1>4. AtHome' BY DEF RInv, AtHome, HomeOf, MemberOf
<1>5. QED BY <1>1, <1>2, <1>3, <1>4 DEF RInv

LEMMA IdleStep ==
    ASSUME RInv, UNCHANGED <<score, iv, bk, ranges, next, rw, steps>>, hot' \in BOOLEAN, sp' = NoJob
    PROVE  RInv'
<1>1. sp' \in JobT /\ sp'.pc = "idle" BY DEF NoJob, JobT, Pairs
<1>2. JobShape' /\ BatchShape' /\ Emptied' BY <1>1 DEF JobShape, Working, BatchShape, Emptied
<1>3. QED BY <1>1, <1>2, JobOnly


LEMMA TodoFacts ==
    ASSUME OldBuckets, sp.todo = sp.old \/ sp.todo = Tail(sp.old) \/ sp.todo = <<>>, sp.todo # <<>>
    PROVE  /\ Head(sp.todo) \in Elems(sp.old) /\ (Tail(sp.todo) = Tail(sp.old) \/ Tail(sp.todo) = <<>>)
           /\ Elems(sp.todo) = {Head(sp.todo)} \cup Elems(Tail(sp.todo))
<1>1. \A a : Elems(<<a>>) = {a}
  <2> TAKE a
  <2>1. DOMAIN <<a>> = {1} /\ <<a>>[1] = a OBVIOUS
  <2>2. QED BY <2>1 DEF Elems
<1>2. \A a, b : Elems(<<a, b>>) = {a, b}
  <2> TAKE a, b
  <2>1. DOMAIN <<a, b>> = {1, 2} /\ <<a, b>>[1] = a /\ <<a, b>>[2] = b OBVIOUS
  <2>2. QED BY <2>1 DEF Elems
<1>3. Elems(<<>>) = {} BY DEF Elems
<1>4. ASSUME NEW a, sp.old = <<a>>
      PROVE  /\ Head(sp.todo) \in Elems(sp.old) /\ (Tail(sp.todo) = Tail(sp.old) \/ Tail(sp.todo) = <<>>)
             /\ Elems(sp.todo) = {Head(sp.todo)} \cup Elems(Tail(sp.todo))
  <2>1. Tail(<<a>>) = <<>> /\ Head(<<a>>) = a OBVIOUS
  <2>2. sp.todo = <<a>> BY <1>4, <2>1
  <2>3. QED BY <1>1, <1>3, <1>4, <2>1, <2>2
<1>5. ASSUME NEW a, NEW b, sp.old = <<a, b>>
      PROVE  /\ Head(sp.todo) \in Elems(sp.old) /\ (Tail(sp.todo) = Tail(sp.old) \/ Tail(sp.todo) = <<>>)
             /\ Elems(sp.todo) = {Head(sp.todo)} \cup Elems(Tail(sp.todo))
  <2>1. Tail(<<a, b>>) = <<b>> /\ Head(<<a, b>>) = a /\ Tail(<<b>>) = <<>> /\ Head(<<b>>) = b OBVIOUS
  <2>2. CASE sp.todo = <<a, b>> BY <1>1, <1>2, <1>5, <2>1, <2>2
  <2>3. CASE sp.todo = <<b>> BY <1>1, <1>2, <1>3, <1>5, <2>1, <2>3
  <2>4. QED BY <1>5, <2>1, <2>2, <2>3
<1>6. QED BY <1>4, <1>5 DEF OldBuckets

\* The buckets of a job, past the CAS that marked them.
LEMMA OldStates ==
    ASSUME RInv, sp.pc \in {"page", "move", "final"}
    PROVE  /\ OldBuckets /\ Apartness
           /\ \A i \in Elems(sp.old) : \E r \in ranges : r.i = i
           /\ \A r \in ranges : r.i \in Elems(sp.old) =>
                 r.c = sp.new /\ r.st = IF sp.drain THEN Drain(sp.op) ELSE Busy(sp.op)
<1>1. OldBuckets /\ Apartness BY ApartLater
<1>2. DocShape BY DEF RInv
<1>3. \A r \in ranges : r.i \in Elems(sp.old) => Left(r)
  <2>1. CASE sp.op = "split" BY <1>1, <1>2, <2>1, OldNumbers DEF DocShape
  <2>2. CASE sp.op = "merge" BY <1>1, <1>2, <2>2, OldNumbers DEF DocShape
  <2>3. QED BY <1>1, <2>1, <2>2, OldNumbers
<1>4. \A i \in Elems(sp.old) : \E r \in ranges : r.i = i
  <2>1. CASE sp.op = "split" BY <1>1, <2>1, OldNumbers
  <2>2. CASE sp.op = "merge" BY <1>1, <2>2, OldNumbers
  <2>3. QED BY <1>1, <2>1, <2>2, OldNumbers
<1>5. QED BY <1>1, <1>3, <1>4 DEF Left

LEMMA MigratePageStep ==
    ASSUME RInv, MigratePage
    PROVE  RInv'
<1>0. IndexT /\ Stocked /\ JobShape /\ Emptied /\ sp \in JobT BY DEF RInv, IndexT
<1>1. sp.pc = "page" /\ sp.todo # <<>> /\ UNCHANGED <<score, iv, bk, ranges, next, hot, rw, steps>>
  BY DEF MigratePage, rdoc, SStep
<1>2. PICK page : page = FirstOf(bk[Head(sp.todo)], MoveBatch) OBVIOUS
<1>3. PICK live : live = {m \in page : score[m[2]] # 0} OBVIOUS
<1>4. sp' = (IF page = {} THEN [sp EXCEPT !.todo = Tail(@)]
             ELSE [sp EXCEPT !.pc = "move", !.page = page, !.live = live])
  BY <1>2, <1>3 DEF MigratePage, FirstOf, Job
<1>5. OldBuckets /\ (sp.todo = sp.old \/ sp.todo = Tail(sp.old) \/ sp.todo = <<>>) BY <1>0, <1>1 DEF JobShape, Working
<1>6. /\ Head(sp.todo) \in Elems(sp.old) /\ (Tail(sp.todo) = Tail(sp.old) \/ Tail(sp.todo) = <<>>)
      /\ Elems(sp.todo) = {Head(sp.todo)} \cup Elems(Tail(sp.todo))
  BY <1>1, <1>5, TodoFacts
<1>7. PICK h : h = Head(sp.todo) OBVIOUS
<1>8. PICK a \in ranges : a.i = h BY <1>1, <1>6, <1>7, OldStates
<1>9. h \in RIdx BY <1>0, <1>8, RangeParts DEF IndexT
<1>10. bk[h] \in SUBSET RMembers /\ rw + 1 \in Nat /\ \A m \in bk[h] : m[3] <= rw + 1 BY <1>0, <1>9 DEF IndexT, Stocked
<1>11. IsFiniteSet(bk[h]) BY <1>10, BucketsFinite
<1>12. MoveBatch \in Nat /\ MoveBatch # 0 BY RangeAssumption
<1>13. /\ page \subseteq bk[h]
       /\ Cardinality(page) < MoveBatch => page = bk[h]
       /\ page = {} => bk[h] = {}
  BY <1>2, <1>7, <1>10, <1>11, <1>12, FirstFacts
<1>14. hot' \in BOOLEAN BY <1>0, <1>1 DEF IndexT
<1>15. CASE page = {}
  <2>1. PICK todo : todo = Tail(sp.todo) OBVIOUS
  <2>2. todo \in Seq(RIdx) BY <1>0, <1>1, <2>1 DEF JobT
  <2>3. sp' = [sp EXCEPT !.todo = todo] BY <1>4, <1>15, <2>1
  <2>4. /\ sp' \in JobT /\ sp'.pc = "page" /\ sp'.op = sp.op /\ sp'.old = sp.old /\ sp'.new = sp.new
        /\ sp'.todo = todo /\ sp'.drain = sp.drain BY <1>0, <1>1, <2>2, <2>3 DEF JobT
  <2>5. OldBuckets' BY <1>1, <1>5, <2>4 DEF OldBuckets, Left, SplitOf, MergeOf
  <2>6. JobShape' BY <1>6, <2>1, <2>4, <2>5 DEF JobShape
  <2>7. BatchShape' BY <2>4 DEF BatchShape
  <2>8. ASSUME sp.drain, NEW i \in Elems(sp.old) PROVE i \in Elems(todo) \/ bk[i] = {}
    <3>1. i \in Elems(sp.todo) \/ bk[i] = {} BY <1>0, <1>1, <2>8 DEF Emptied
    <3>2. QED BY <1>6, <1>7, <1>13, <1>15, <2>1, <3>1
  <2>9. Emptied' BY <1>1, <2>4, <2>8 DEF Emptied
  <2>10. QED BY <1>1, <1>14, <2>4, <2>6, <2>7, <2>9, JobOnly
<1>16. CASE page # {}
  <2>1. page \in SUBSET RMembers /\ live \in SUBSET RMembers BY <1>3, <1>10, <1>13
  <2>2. sp' = [sp EXCEPT !.pc = "move", !.page = page, !.live = live] BY <1>4, <1>16
  <2>3. /\ sp' \in JobT /\ sp'.pc = "move" /\ sp'.op = sp.op /\ sp'.old = sp.old /\ sp'.new = sp.new
        /\ sp'.todo = sp.todo /\ sp'.drain = sp.drain /\ sp'.page = page /\ sp'.live = live BY <1>0, <2>1, <2>2 DEF JobT
  <2>4. OldBuckets' BY <1>1, <1>5, <2>3 DEF OldBuckets, Left, SplitOf, MergeOf
  <2>5. JobShape' BY <1>1, <1>5, <2>3, <2>4 DEF JobShape
  <2>6. \A m \in page : m[3] <= rw + 1 BY <1>10, <1>13
  <2>7. \A r \in ranges : r.i = h => Inside(r, page) BY <1>0, <1>13 DEF Stocked, Inside
  <2>8. \A m \in page : m \notin live => m # MemberOf(m[2])
    <3> SUFFICES ASSUME NEW m \in page, m \notin live PROVE m # MemberOf(m[2]) OBVIOUS
    <3>1. score[m[2]] = 0 BY <1>3
    <3>2. m[1] # 0 BY <2>1, RMemberParts, InfFacts
    <3>3. MemberOf(m[2])[1] = 0 BY <3>1 DEF MemberOf
    <3>4. QED BY <3>2, <3>3
  <2>9. BatchShape'
    <3>1. live \subseteq page BY <1>3
    <3>2. (\A m \in page : m \notin live => m # MemberOf(m[2]))' BY <1>1, <2>8 DEF MemberOf
    <3>3. (\A r \in ranges : r.i = h => Inside(r, page))' BY <1>1, <2>7 DEF Inside, RangeContains
    <3>4. QED BY <1>1, <1>7, <1>13, <2>3, <2>6, <3>1, <3>2, <3>3 DEF BatchShape
  <2>10. Emptied' BY <1>0, <1>1, <2>3 DEF Emptied
  <2>11. QED BY <1>1, <1>14, <2>3, <2>5, <2>9, <2>10, JobOnly
<1>17. QED BY <1>15, <1>16

LEMMA UnlinkStep ==
    ASSUME RInv, Unlink
    PROVE  RInv'
<1>0. IndexT /\ JobShape /\ Emptied /\ sp \in JobT BY DEF RInv, IndexT
<1>1. sp.pc = "page" /\ sp.todo = <<>> /\ sp.drain /\ sp' = [sp EXCEPT !.pc = "final"] BY DEF Unlink, Job
<1>2. UNCHANGED <<score, iv, ranges, next, hot, rw, steps>> BY DEF Unlink, rdoc, SStep
<1>3. bk' = [i \in RIdx |-> IF i \in Elems(sp.old) THEN {} ELSE bk[i]] BY DEF Unlink
<1>4. Elems(<<>>) = {} BY DEF Elems
<1>5. \A i \in Elems(sp.old) : bk[i] = {} BY <1>0, <1>1, <1>4 DEF Emptied
<1>6. bk' = bk BY <1>0, <1>3, <1>5 DEF IndexT
<1>7. /\ sp' \in JobT /\ sp'.pc = "final" /\ sp'.op = sp.op /\ sp'.old = sp.old /\ sp'.new = sp.new
      /\ sp'.todo = sp.todo /\ sp'.drain = sp.drain BY <1>0, <1>1 DEF JobT
<1>8. OldBuckets BY <1>0, <1>1 DEF JobShape, Working
<1>9. OldBuckets' BY <1>1, <1>2, <1>7, <1>8 DEF OldBuckets, Left, SplitOf, MergeOf
<1>10. JobShape' BY <1>1, <1>7, <1>9 DEF JobShape
<1>11. BatchShape' /\ Emptied' BY <1>5, <1>6, <1>7 DEF BatchShape, Emptied
<1>12. hot' \in BOOLEAN BY <1>0, <1>2 DEF IndexT
<1>13. QED BY <1>2, <1>6, <1>7, <1>10, <1>11, <1>12, JobOnly


LEMMA KidById ==
    ASSUME OldBuckets, NEW j \in 1 .. 2, NEW h \in 1 .. 2, sp.new[j].i = sp.new[h].i
    PROVE  sp.new[j] = sp.new[h]
<1>1. CASE sp.op = "split"
  <2>1. sp.new[1].i # sp.new[2].i BY <1>1, OldNumbers DEF SplitOf
  <2>2. QED BY <2>1
<1>2. CASE sp.op = "merge"
  <2>1. sp.new[1] = sp.new[2] BY <1>2, OldNumbers DEF MergeOf
  <2>2. QED BY <2>1
<1>3. QED BY <1>1, <1>2, OldNumbers

\* A new bucket for what an old one contains.
LEMMA NewHolds ==
    ASSUME IndexT, DocShape, OldBuckets, NEW a \in ranges, a.i \in Elems(sp.old), NEW s \in Nat, RangeContains(a, s)
    PROVE  \E j \in 1 .. 2 : Target(s) = sp.new[j].i /\ RangeContains(sp.new[j], s)
<1>1. a.lo <= s /\ s < a.hi /\ a.lo \in Nat /\ a.hi \in Nat BY RangeParts DEF RangeContains, IndexT
<1>2. sp.new[1] \in Kids /\ sp.new[2] \in Kids BY NewPair, KidParts
<1>3. /\ sp.new[1].lo \in Nat /\ sp.new[1].hi \in Nat /\ sp.new[2].lo \in Nat /\ sp.new[2].hi \in Nat BY <1>2, KidParts
<1>4. CASE sp.op = "split"
  <2>1. PICK r \in ranges : Elems(sp.old) = {r.i} /\ SplitOf(r, sp.new) BY <1>4, OldNumbers
  <2>2. r = a BY <2>1 DEF DocShape
  <2>3. sp.new[1].lo = a.lo /\ sp.new[1].hi = sp.new[2].lo /\ sp.new[2].hi = a.hi BY <2>1, <2>2 DEF SplitOf
  <2>4. CASE s < sp.new[2].lo
    <3>1. Target(s) = sp.new[1].i BY <1>4, <2>4 DEF Target
    <3>2. RangeContains(sp.new[1], s) BY <1>1, <2>3, <2>4 DEF RangeContains
    <3>3. QED BY <3>1, <3>2
  <2>5. CASE ~(s < sp.new[2].lo)
    <3>1. Target(s) = sp.new[2].i BY <1>4, <2>5 DEF Target
    <3>2. RangeContains(sp.new[2], s) BY <1>1, <1>3, <2>3, <2>5 DEF RangeContains
    <3>3. QED BY <3>1, <3>2
  <2>6. QED BY <2>4, <2>5
<1>5. CASE sp.op = "merge"
  <2>1. PICK l, q \in ranges : Elems(sp.old) = {l.i, q.i} /\ MergeOf(l, q, sp.new) BY <1>5, OldNumbers
  <2>2. a = l \/ a = q BY <2>1 DEF DocShape
  <2>3. /\ l.lo \in Nat /\ l.hi \in Nat /\ q.lo \in Nat /\ q.hi \in Nat /\ l.lo <= l.hi /\ q.lo <= q.hi
    BY RangeParts DEF IndexT, DocShape, BucketShape
  <2>4. sp.new[1] = sp.new[2] /\ l.hi = q.lo /\ sp.new[1].lo = l.lo /\ sp.new[1].hi = q.hi BY <2>1 DEF MergeOf
  <2>5. RangeContains(sp.new[2], s) BY <1>1, <2>2, <2>3, <2>4 DEF RangeContains
  <2>6. Target(s) = sp.new[2].i BY <1>5 DEF Target
  <2>7. QED BY <2>5, <2>6
<1>6. QED BY <1>4, <1>5, OldNumbers

LEMMA MigrateBatchStep ==
    ASSUME RInv, MigrateBatch
    PROVE  RInv'
<1>0. IndexT /\ DocShape /\ Stocked /\ JobShape /\ BatchShape /\ Emptied /\ AtHome /\ sp \in JobT BY DEF RInv, IndexT
<1>1. sp.pc = "move" /\ UNCHANGED <<score, iv, ranges, next, hot, rw, steps>> BY DEF MigrateBatch, rdoc, SStep
<1>2. PICK h : h = Head(sp.todo) OBVIOUS
<1>3. bk' = [i \in RIdx |-> (IF i = h THEN bk[i] \ sp.page ELSE bk[i]) \cup {m \in sp.live : Target(m[1]) = i}]
  BY <1>2 DEF MigrateBatch
<1>4. PICK todo : todo = IF Cardinality(sp.page) < MoveBatch THEN Tail(sp.todo) ELSE sp.todo OBVIOUS
<1>5. sp' = [sp EXCEPT !.pc = "page", !.page = {}, !.live = {}, !.todo = todo] BY <1>4 DEF MigrateBatch, Job
<1>6. OldBuckets /\ Apartness
      /\ (\A i \in Elems(sp.old) : \E r \in ranges : r.i = i)
      /\ \A r \in ranges : r.i \in Elems(sp.old) => r.c = sp.new
  BY <1>1, OldStates
<1>7. sp.todo # <<>> /\ (sp.todo = sp.old \/ sp.todo = Tail(sp.old) \/ sp.todo = <<>>) BY <1>0, <1>1 DEF JobShape, Working
<1>8. /\ h \in Elems(sp.old) /\ (Tail(sp.todo) = Tail(sp.old) \/ Tail(sp.todo) = <<>>)
      /\ Elems(sp.todo) = {h} \cup Elems(Tail(sp.todo))
  BY <1>2, <1>6, <1>7, TodoFacts
<1>9. PICK a \in ranges : a.i = h BY <1>6, <1>8
<1>10. h \in RIdx BY <1>0, <1>9, RangeParts DEF IndexT
<1>11. /\ sp.live \subseteq sp.page /\ (\A m \in sp.page : m[3] <= rw + 1) /\ Inside(a, sp.page)
       /\ (\A m \in sp.page : m \notin sp.live => m # MemberOf(m[2]))
       /\ (sp.drain /\ Cardinality(sp.page) < MoveBatch) => bk[h] \subseteq sp.page
       /\ sp.live \subseteq RMembers
  BY <1>0, <1>1, <1>2, <1>9 DEF BatchShape, JobT
<1>12. \A m \in sp.live : \E j \in 1 .. 2 : Target(m[1]) = sp.new[j].i /\ RangeContains(sp.new[j], m[1])
  <2> TAKE m \in sp.live
  <2>1. m[1] \in Nat BY <1>11, RMemberParts
  <2>2. RangeContains(a, m[1]) BY <1>11 DEF Inside
  <2>3. QED BY <1>0, <1>6, <1>8, <1>9, <2>1, <2>2, NewHolds
<1>13. \A m \in sp.live : Target(m[1]) < next /\ \A r \in ranges : Target(m[1]) # r.i BY <1>6, <1>12 DEF Apartness
<1>14. \A i \in RIdx : bk[i] \subseteq RMembers /\ bk'[i] = (IF i = h THEN bk[i] \ sp.page ELSE bk[i]) \cup {m \in sp.live : Target(m[1]) = i}
  BY <1>0, <1>3 DEF IndexT
<1>15. \A r \in ranges : r.i \in RIdx /\ bk'[r.i] = IF r.i = h THEN bk[r.i] \ sp.page ELSE bk[r.i]
  <2> TAKE r \in ranges
  <2>1. r.i \in RIdx BY <1>0, RangeParts DEF IndexT
  <2>2. {m \in sp.live : Target(m[1]) = r.i} = {} BY <1>13
  <2>3. QED BY <1>14, <2>1, <2>2
<1>16. \A r \in ranges : \A j \in DOMAIN r.c : r.c[j].i \in RIdx /\ r.c[j].i # h
  <2> TAKE r \in ranges
  <2> TAKE j \in DOMAIN r.c
  <2>1. r.c[j].i # h BY <1>0, <1>9 DEF DocShape
  <2>2. r.c \in Pairs BY <1>0, RangeParts DEF IndexT
  <2>3. r.c \in Kids \X Kids
    <3>1. DOMAIN <<>> = {} OBVIOUS
    <3>2. r.c # <<>> BY <3>1
    <3>3. QED BY <2>2, <3>2 DEF Pairs
  <2>4. j \in 1 .. 2 BY <2>3, KidParts
  <2>5. QED BY <2>1, <2>3, <2>4, KidParts
<1>17. bk' \in [RIdx -> SUBSET RMembers] BY <1>3, <1>11, <1>14
<1>18. todo \in Seq(RIdx) BY <1>0, <1>4, <1>7 DEF JobT
<1>19. /\ sp' \in JobT /\ sp'.pc = "page" /\ sp'.op = sp.op /\ sp'.old = sp.old /\ sp'.new = sp.new
       /\ sp'.todo = todo /\ sp'.drain = sp.drain BY <1>0, <1>5, <1>18 DEF JobT
<1>20. IndexT' BY <1>0, <1>1, <1>17, <1>19 DEF IndexT
<1>21. DocShape' BY <1>0, <1>1 DEF DocShape, BucketShape, Pair, Partition, MergeOf, SplitOf
<1>22. JobShape'
  <2>1. OldBuckets' BY <1>1, <1>6, <1>19 DEF OldBuckets, Left, SplitOf, MergeOf
  <2>2. sp'.todo = sp'.old \/ sp'.todo = Tail(sp'.old) \/ sp'.todo = <<>> BY <1>4, <1>7, <1>8, <1>19
  <2>3. QED BY <1>19, <2>1, <2>2 DEF JobShape
<1>23. Stocked'
  <2>1. ASSUME NEW i \in RIdx PROVE \A m \in bk'[i] : m[3] <= rw + 1
    <3>1. \A m \in bk[i] : m[3] <= rw + 1 BY <1>0 DEF Stocked
    <3>2. QED BY <1>11, <1>14, <3>1
  <2>2. ASSUME NEW i \in RIdx, i >= next PROVE bk'[i] = {}
    <3>1. bk[i] = {} BY <1>0, <2>2 DEF Stocked
    <3>2. i \in Nat /\ next \in Nat BY <1>0, RIdxNat DEF IndexT
    <3>3. ASSUME NEW m \in sp.live PROVE Target(m[1]) # i BY <1>13, <2>2, <3>2
    <3>4. QED BY <1>14, <3>1, <3>3
  <2>3. \A r \in ranges : Inside(r, bk'[r.i]) BY <1>0, <1>15, ZenonT(40) DEF Stocked, Inside
  <2>4. ASSUME NEW r \in ranges, NEW j \in DOMAIN r.c PROVE Inside(r.c[j], bk'[r.c[j].i])
    <3>1. PICK i \in RIdx : i = r.c[j].i BY <1>16
    <3>2. ASSUME NEW m \in bk'[i] PROVE RangeContains(r.c[j], m[1])
      <4>1. CASE m \in bk[i] BY <1>0, <3>1, <4>1 DEF Stocked, Inside
      <4>2. CASE m \in sp.live /\ Target(m[1]) = i
        <5>1. PICK g \in 1 .. 2 : i = sp.new[g].i /\ RangeContains(sp.new[g], m[1]) BY <1>12, <4>2
        <5>2. r.i \in Elems(sp.old)
          <6>1. r.i \notin Elems(sp.old) => \A x \in DOMAIN r.c : r.c[x].i # sp.new[g].i BY <1>6 DEF Apartness
          <6>2. QED BY <3>1, <5>1, <6>1
        <5>3. r.c = sp.new BY <1>6, <5>2
        <5>4. j \in 1 .. 2 BY <1>6, <5>3, NewPair, KidParts
        <5>5. sp.new[j] = sp.new[g] BY <1>6, <3>1, <5>1, <5>3, <5>4, KidById
        <5>6. QED BY <5>1, <5>3, <5>5
      <4>3. QED BY <1>14, <3>2, <4>1, <4>2
    <3>3. QED BY <3>1, <3>2 DEF Inside
  <2>5. (\A i \in RIdx : (\A m \in bk[i] : m[3] <= rw + 1) /\ (i >= next => bk[i] = {}))' BY <1>1, <2>1, <2>2
  <2>6. (\A r \in ranges : Inside(r, bk[r.i]) /\ \A j \in DOMAIN r.c : Inside(r.c[j], bk[r.c[j].i]))'
    BY <1>1, <2>3, <2>4 DEF Inside, RangeContains
  <2>7. QED BY <2>5, <2>6 DEF Stocked
<1>24. BatchShape' BY <1>19 DEF BatchShape
<1>25. Emptied'
  <2>1. ASSUME sp.drain, NEW i \in Elems(sp.old) PROVE i \in Elems(todo) \/ bk'[i] = {}
    <3>1. PICK r \in ranges : r.i = i BY <1>6
    <3>2. bk'[i] = IF i = h THEN bk[i] \ sp.page ELSE bk[i] BY <1>15, <3>1
    <3>3. i \in Elems(sp.todo) \/ bk[i] = {} BY <1>0, <1>1, <2>1 DEF Emptied
    <3>4. CASE bk[i] = {} BY <3>2, <3>4
    <3>5. CASE i \in Elems(sp.todo) /\ Cardinality(sp.page) < MoveBatch
      <4>1. CASE i = h BY <1>11, <2>1, <3>2, <3>5, <4>1
      <4>2. CASE i # h BY <1>4, <1>8, <3>5, <4>2
      <4>3. QED BY <4>1, <4>2
    <3>6. CASE i \in Elems(sp.todo) /\ ~(Cardinality(sp.page) < MoveBatch) BY <1>4, <3>6
    <3>7. QED BY <3>3, <3>4, <3>5, <3>6
  <2>2. QED BY <1>19, <2>1 DEF Emptied
<1>26. AtHome'
  <2>1. ASSUME NEW k \in RPks, NEW r \in ranges, score[k] # 0, RangeContains(r, score[k])
        PROVE  \/ MemberOf(k) \in bk'[r.i]
               \/ \E j \in DOMAIN r.c : RangeContains(r.c[j], score[k]) /\ MemberOf(k) \in bk'[r.c[j].i]
    <3>1. PICK m : m = MemberOf(k) OBVIOUS
    <3>2. m[1] = score[k] /\ m[2] = k BY <3>1 DEF MemberOf
    <3>3. HomeOf(r, k) BY <1>0, <2>1 DEF AtHome
    <3>4. CASE m \in bk[r.i] /\ (r.i # h \/ m \notin sp.page) BY <1>15, <3>1, <3>4
    <3>5. CASE r.i = h /\ m \in sp.page
      <4>1. m \in sp.live BY <1>11, <3>1, <3>2, <3>5
      <4>2. PICK j \in 1 .. 2 : Target(m[1]) = sp.new[j].i /\ RangeContains(sp.new[j], m[1]) BY <1>12, <4>1
      <4>3. r.c = sp.new /\ j \in DOMAIN r.c BY <1>6, <1>8, <3>5, NewPair, KidParts
      <4>4. r.c[j].i \in RIdx BY <1>16, <4>3
      <4>5. m \in bk'[r.c[j].i] BY <1>14, <4>1, <4>2, <4>3, <4>4
      <4>6. QED BY <3>1, <3>2, <4>2, <4>3, <4>5
    <3>6. ASSUME NEW j \in DOMAIN r.c, RangeContains(r.c[j], score[k]), m \in bk[r.c[j].i] PROVE m \in bk'[r.c[j].i]
      BY <1>14, <1>16, <3>6
    <3>7. QED BY <3>1, <3>3, <3>4, <3>5, <3>6 DEF HomeOf
  <2>2. QED BY <1>1, <2>1 DEF AtHome, HomeOf, MemberOf, RangeContains
<1>27. QED BY <1>20, <1>21, <1>22, <1>23, <1>24, <1>25, <1>26 DEF RInv


\* What a new bucket contains, an old one contains, and not the other new one.
LEMMA NewFrom ==
    ASSUME IndexT, DocShape, OldBuckets, NEW j \in 1 .. 2, NEW s \in Nat, RangeContains(sp.new[j], s)
    PROVE  /\ \E a \in ranges : a.i \in Elems(sp.old) /\ RangeContains(a, s)
           /\ \A h \in 1 .. 2 : RangeContains(sp.new[h], s) => sp.new[h] = sp.new[j]
<1>1. sp.new[1] \in Kids /\ sp.new[2] \in Kids BY NewPair, KidParts
<1>2. /\ sp.new[1].lo \in Nat /\ sp.new[1].hi \in Nat /\ sp.new[2].lo \in Nat /\ sp.new[2].hi \in Nat BY <1>1, KidParts
<1>3. CASE sp.op = "split"
  <2>1. PICK r \in ranges : Elems(sp.old) = {r.i} /\ SplitOf(r, sp.new) BY <1>3, OldNumbers
  <2>2. r.lo \in Nat /\ r.hi \in Nat BY RangeParts DEF IndexT
  <2>3. /\ sp.new[1].lo = r.lo /\ sp.new[1].hi = sp.new[2].lo /\ sp.new[2].hi = r.hi
        /\ sp.new[1].lo <= sp.new[1].hi /\ sp.new[2].lo <= sp.new[2].hi
    BY <2>1 DEF SplitOf
  <2>4. RangeContains(r, s) BY <1>2, <2>2, <2>3 DEF RangeContains
  <2>5. ~(RangeContains(sp.new[1], s) /\ RangeContains(sp.new[2], s)) BY <1>2, <2>3 DEF RangeContains
  <2>6. QED BY <2>1, <2>4, <2>5
<1>4. CASE sp.op = "merge"
  <2>1. PICK l, q \in ranges : Elems(sp.old) = {l.i, q.i} /\ MergeOf(l, q, sp.new) BY <1>4, OldNumbers
  <2>2. /\ l.lo \in Nat /\ l.hi \in Nat /\ q.lo \in Nat /\ q.hi \in Nat BY RangeParts DEF IndexT
  <2>3. sp.new[1] = sp.new[2] /\ l.hi = q.lo /\ sp.new[1].lo = l.lo /\ sp.new[1].hi = q.hi BY <2>1 DEF MergeOf
  <2>4. RangeContains(l, s) \/ RangeContains(q, s) BY <2>2, <2>3 DEF RangeContains
  <2>5. QED BY <2>1, <2>3, <2>4
<1>5. QED BY <1>3, <1>4, OldNumbers

LEMMA NewShape ==
    ASSUME IndexT, DocShape, OldBuckets, NEW j \in 1 .. 2
    PROVE  sp.new[j] \in RangeT /\ sp.new[j].lo <= sp.new[j].hi /\ sp.new[j].st = "ACTIVE" /\ sp.new[j].c = <<>>
<1>1. sp.new[j] \in Kids /\ sp.new[1] \in Kids /\ sp.new[2] \in Kids BY NewPair, KidParts
<1>2. sp.new[j] \in RangeT /\ sp.new[j].st = "ACTIVE" /\ sp.new[j].c = <<>> BY <1>1 DEF Kids, RangeT, Pairs
<1>3. sp.new[j].lo <= sp.new[j].hi
  <2>1. CASE sp.op = "split"
    <3>1. sp.new[1].lo <= sp.new[1].hi /\ sp.new[2].lo <= sp.new[2].hi BY <2>1, OldNumbers DEF SplitOf
    <3>2. QED BY <3>1
  <2>2. CASE sp.op = "merge"
    <3>1. PICK l, q \in ranges : Elems(sp.old) = {l.i, q.i} /\ MergeOf(l, q, sp.new) BY <2>2, OldNumbers
    <3>2. /\ l.lo \in Nat /\ l.hi \in Nat /\ q.lo \in Nat /\ q.hi \in Nat /\ l.lo <= l.hi /\ q.lo <= q.hi
      BY RangeParts DEF IndexT, DocShape, BucketShape
    <3>3. sp.new[1] = sp.new[2] /\ l.hi = q.lo /\ sp.new[1].lo = l.lo /\ sp.new[1].hi = q.hi BY <3>1 DEF MergeOf
    <3>4. sp.new[1].lo <= sp.new[1].hi BY <3>2, <3>3
    <3>5. QED BY <3>3, <3>4
  <2>3. QED BY <2>1, <2>2, OldNumbers
<1>4. QED BY <1>2, <1>3

LEMMA ReplacedDoc ==
    ASSUME IndexT, DocShape, OldBuckets, Apartness, \A r \in ranges : r.i \in Elems(sp.old) => r.c = sp.new,
           ranges' = Replaced, UNCHANGED next
    PROVE  DocShape'
<1> DEFINE E == Elems(sp.old)
           N(j) == sp.new[j]
<1>1. DOMAIN sp.new = 1 .. 2 /\ sp.new # <<>> BY NewPair, KidParts
<1>2. ranges' = {r \in ranges : r.i \notin E} \cup {N(j) : j \in 1 .. 2} BY <1>1 DEF Replaced, Elems
<1>3. \A j \in 1 .. 2 : N(j) \in RangeT /\ N(j).lo <= N(j).hi /\ N(j).st = "ACTIVE" /\ N(j).c = <<>> /\ N(j).i < next
  BY NewShape DEF Apartness
<1>4. \A j \in 1 .. 2 : \A q \in ranges : q.i # N(j).i BY DEF Apartness
<1>5. \A j \in 1 .. 2 : \A q \in ranges : q.i \notin E => \A h \in DOMAIN q.c : q.c[h].i # N(j).i BY DEF Apartness
<1>6. \A j, h \in 1 .. 2 : N(j).i = N(h).i => N(j) = N(h) BY KidById
<1>7. \A r \in ranges : r.i \notin E => r.c # sp.new
  <2> SUFFICES ASSUME NEW r \in ranges, r.i \notin E, r.c = sp.new PROVE FALSE OBVIOUS
  <2>1. 1 \in DOMAIN r.c /\ 1 \in 1 .. 2 BY <1>1
  <2>2. r.c[1].i # N(1).i BY <1>5, <2>1
  <2>3. QED BY <2>2
<1>8. DOMAIN <<>> = {} OBVIOUS
<1> HIDE DEF E, N
<1>9. \A x \in ranges' : (x \in ranges /\ x.i \notin E) \/ \E j \in 1 .. 2 : x = N(j) BY <1>2
<1>10. \A r \in ranges : r.i \notin E => r \in ranges' BY <1>2
<1>11. ASSUME NEW r \in ranges, r.i \notin E PROVE BucketShape(r)'
  <2>1. BucketShape(r) BY DEF DocShape
  <2>2. \A y \in ranges' : y.c = r.c /\ r.c # <<>> => y \in ranges BY <1>3, <1>9
  <2>3. r.st \in {"ACTIVE", "SPLITTING", "DRAINING", "MERGING", "MERGE_DRAIN"} BY DEF IndexT, RangeT
  <2>4. CASE r.st = "ACTIVE" BY <2>1, <2>4 DEF BucketShape
  <2>5. r.st # "ACTIVE" => r.c # <<>> BY <2>1 DEF BucketShape
  <2>6. CASE r.st \in {"SPLITTING", "DRAINING"}
    <3>1. \A y \in ranges' : y.c = r.c => y = r BY <2>1, <2>2, <2>5, <2>6 DEF BucketShape
    <3>2. QED BY <2>1, <2>6, <3>1 DEF BucketShape, SplitOf
  <2>7. CASE r.st \in {"MERGING", "MERGE_DRAIN"}
    <3>1. PICK p \in ranges : Pair(r, p) \/ Pair(p, r) BY <2>1, <2>7 DEF BucketShape
    <3>2. p.c = r.c BY <3>1 DEF Pair
    <3>3. p.i \notin E BY <1>7, <1>11, <3>2 DEF E
    <3>4. p \in ranges' BY <1>10, <3>3
    <3>5. Pair(r, p)' \/ Pair(p, r)' BY <2>2, <2>5, <2>7, <3>1, <3>2 DEF Pair, MergeOf
    <3>6. QED BY <2>1, <2>7, <3>4, <3>5 DEF BucketShape
  <2>8. QED BY <2>3, <2>4, <2>6, <2>7
<1>12. ASSUME NEW j \in 1 .. 2, NEW x, x = N(j) PROVE BucketShape(x)'
  <2>1. x.lo <= x.hi /\ x.i < next /\ x.st = "ACTIVE" /\ x.c = <<>> BY <1>3, <1>12
  <2>2. QED BY <2>1 DEF BucketShape
<1>13. \A x \in ranges' : BucketShape(x)' BY <1>9, <1>11, <1>12
<1>14. \A x, y \in ranges' : x.i = y.i => x = y
  <2> SUFFICES ASSUME NEW x \in ranges', NEW y \in ranges', x.i = y.i PROVE x = y OBVIOUS
  <2>1. CASE x \in ranges /\ y \in ranges BY <2>1 DEF DocShape
  <2>2. CASE x \in ranges /\ \E j \in 1 .. 2 : y = N(j) BY <1>4, <2>2
  <2>3. CASE y \in ranges /\ \E j \in 1 .. 2 : x = N(j) BY <1>4, <2>3
  <2>4. CASE (\E j \in 1 .. 2 : x = N(j)) /\ \E j \in 1 .. 2 : y = N(j) BY <1>6, <2>4
  <2>5. QED BY <1>9, <2>1, <2>2, <2>3, <2>4
<1>15. \A x, y \in ranges' : \A j \in DOMAIN x.c : x.c[j].i < next /\ x.c[j].i # y.i
  <2> TAKE x, y \in ranges'
  <2> TAKE j \in DOMAIN x.c
  <2>1. x \in ranges /\ x.i \notin E BY <1>3, <1>8, <1>9
  <2>2. CASE y \in ranges BY <2>1, <2>2 DEF DocShape
  <2>3. CASE \E h \in 1 .. 2 : y = N(h)
    <3>1. x.c[j].i < next BY <2>1 DEF DocShape
    <3>2. x.c[j].i # y.i BY <1>5, <2>1, <2>3
    <3>3. QED BY <3>1, <3>2
  <2>4. QED BY <1>9, <2>2, <2>3
<1>16. \A x, y \in ranges' : \A j \in DOMAIN x.c, h \in DOMAIN y.c : x.c[j].i = y.c[h].i => x.c = y.c
  <2> SUFFICES ASSUME NEW x \in ranges', NEW y \in ranges', NEW j \in DOMAIN x.c, NEW h \in DOMAIN y.c, x.c[j].i = y.c[h].i
               PROVE  x.c = y.c
    OBVIOUS
  <2>1. x \in ranges /\ y \in ranges BY <1>3, <1>8, <1>9
  <2>2. QED BY <2>1 DEF DocShape
<1>17. ASSUME NEW s \in Scores PROVE \E x \in ranges' : RangeContains(x, s) /\ \A y \in ranges' : RangeContains(y, s) => y = x
  <2>0. s \in Nat BY InfFacts
  <2>1. PICK r \in ranges : RangeContains(r, s) /\ \A q \in ranges : RangeContains(q, s) => q = r BY DEF DocShape, Partition
  <2>2. ASSUME NEW j \in 1 .. 2, RangeContains(N(j), s)
        PROVE  r.i \in E /\ \A h \in 1 .. 2 : RangeContains(N(h), s) => N(h) = N(j)
    <3>1. PICK a \in ranges : a.i \in E /\ RangeContains(a, s) BY <2>0, <2>2, NewFrom DEF E, N
    <3>2. r.i \in E BY <2>1, <3>1
    <3>3. QED BY <2>0, <2>2, <3>2, NewFrom DEF N
  <2>3. CASE r.i \notin E
    <3>1. \A y \in ranges' : RangeContains(y, s) => y = r BY <1>9, <2>1, <2>2, <2>3
    <3>2. QED BY <1>10, <2>1, <2>3, <3>1
  <2>4. CASE r.i \in E
    <3>1. PICK j \in 1 .. 2 : RangeContains(N(j), s) BY <2>0, <2>1, <2>4, NewHolds DEF E, N
    <3>2. N(j) \in ranges' BY <1>2
    <3>3. \A y \in ranges' : RangeContains(y, s) => y = N(j) BY <1>9, <2>1, <2>2, <2>4, <3>1
    <3>4. QED BY <3>1, <3>2, <3>3
  <2>5. QED BY <2>3, <2>4
<1>18. Partition' BY <1>17 DEF Partition, RangeContains
<1>19. QED BY <1>13, <1>14, <1>15, <1>16, <1>18 DEF DocShape

LEMMA CasFinalStep ==
    ASSUME RInv, CasFinal
    PROVE  RInv'
<1>0. IndexT /\ DocShape /\ Stocked /\ JobShape /\ Emptied /\ AtHome /\ sp \in JobT BY DEF RInv, IndexT
<1>1. sp.pc = "final" /\ ranges' = Replaced /\ UNCHANGED <<score, iv, bk, next, hot, rw, steps>> BY DEF CasFinal, SStep
<1>2. sp' = (IF sp.op = "split" THEN [sp EXCEPT !.pc = "hot"] ELSE NoJob) BY DEF CasFinal, Job
<1>3. sp' \in JobT /\ sp'.pc \in {"hot", "idle"}
  <2>1. CASE sp.op = "split" BY <1>0, <1>2, <2>1 DEF JobT
  <2>2. CASE sp.op # "split" BY <1>2, <2>2 DEF NoJob, JobT, Pairs
  <2>3. QED BY <2>1, <2>2
<1>4. OldBuckets /\ Apartness /\ \A r \in ranges : r.i \in Elems(sp.old) => r.c = sp.new BY <1>1, OldStates
<1>5. DocShape' BY <1>0, <1>1, <1>4, ReplacedDoc
<1>6. DOMAIN sp.new = 1 .. 2 BY <1>4, NewPair, KidParts
<1>7. \A x \in ranges' : (x \in ranges /\ x.i \notin Elems(sp.old)) \/ \E j \in 1 .. 2 : x = sp.new[j]
  BY <1>1, <1>6 DEF Replaced, Elems
<1>8. \A j \in 1 .. 2 : sp.new[j] \in RangeT /\ sp.new[j].c = <<>> BY <1>0, <1>4, NewShape
<1>9. IndexT'
  <2>1. ranges' \subseteq RangeT BY <1>0, <1>7, <1>8 DEF IndexT
  <2>2. QED BY <1>0, <1>1, <1>3, <2>1 DEF IndexT
<1>10. DOMAIN <<>> = {} OBVIOUS
<1>11. Stocked'
  <2>1. \A x \in ranges' : Inside(x, bk[x.i]) /\ \A j \in DOMAIN x.c : Inside(x.c[j], bk[x.c[j].i])
    <3> TAKE x \in ranges'
    <3>1. CASE x \in ranges BY <1>0, <3>1 DEF Stocked
    <3>2. CASE \E j \in 1 .. 2 : x = sp.new[j] BY <1>4, <1>8, <1>10, <3>2 DEF Apartness
    <3>3. QED BY <1>7, <3>1, <3>2
  <2>2. (\A i \in RIdx : (\A m \in bk[i] : m[3] <= rw + 1) /\ (i >= next => bk[i] = {}))' BY <1>0, <1>1 DEF Stocked
  <2>3. (\A x \in ranges : Inside(x, bk[x.i]) /\ \A j \in DOMAIN x.c : Inside(x.c[j], bk[x.c[j].i]))'
    BY <1>1, <2>1 DEF Inside, RangeContains
  <2>4. QED BY <2>2, <2>3 DEF Stocked
<1>12. ASSUME NEW k \in RPks, NEW x \in ranges', score[k] # 0, RangeContains(x, score[k]) PROVE HomeOf(x, k)
  <2>1. CASE x \in ranges BY <1>0, <1>12, <2>1 DEF AtHome
  <2>2. CASE \E j \in 1 .. 2 : x = sp.new[j]
    <3>1. PICK j \in 1 .. 2 : x = sp.new[j] BY <2>2
    <3>2. PICK s \in Nat : s = score[k]
      <4>1. score[k] \in Scores BY <1>0, <1>12 DEF IndexT
      <4>2. QED BY <4>1, InfFacts
    <3>3. PICK a \in ranges : a.i \in Elems(sp.old) /\ RangeContains(a, s) BY <1>0, <1>4, <1>12, <3>1, <3>2, NewFrom
    <3>4. HomeOf(a, k) /\ bk[a.i] = {} /\ a.c = sp.new BY <1>0, <1>1, <1>4, <1>12, <3>2, <3>3 DEF AtHome, Emptied
    <3>5. PICK h \in 1 .. 2 : RangeContains(sp.new[h], s) /\ MemberOf(k) \in bk[sp.new[h].i] BY <1>6, <3>2, <3>4 DEF HomeOf
    <3>6. sp.new[h] = sp.new[j] BY <1>0, <1>4, <1>12, <3>1, <3>2, <3>5, NewFrom
    <3>7. QED BY <3>1, <3>5, <3>6 DEF HomeOf
  <2>3. QED BY <1>7, <2>1, <2>2
<1>13. AtHome'
  <2>1. \A k \in RPks, x \in ranges' : HomeOf(x, k) => HomeOf(x, k)' BY <1>1 DEF HomeOf, MemberOf, RangeContains
  <2>2. QED BY <1>1, <1>12, <2>1 DEF AtHome, RangeContains
<1>14. JobShape' /\ BatchShape' /\ Emptied' BY <1>3 DEF JobShape, Working, BatchShape, Emptied
<1>15. QED BY <1>5, <1>9, <1>11, <1>13, <1>14 DEF RInv


\* The children of a bucket: two, told apart by their numbers, for what it contains.
LEMMA ChildFacts ==
    ASSUME IndexT, DocShape, NEW r \in ranges, r.c # <<>>
    PROVE  /\ DOMAIN r.c = 1 .. 2 /\ r.st # "ACTIVE" /\ r.c[1].i \in RIdx /\ r.c[2].i \in RIdx
           /\ \A j, h \in DOMAIN r.c : r.c[j].i = r.c[h].i => r.c[j] = r.c[h]
           /\ \A s \in Nat : RangeContains(r, s) => RangeContains(r.c[2], s) \/ RangeContains(r.c[1], s)
           /\ r.st \in {"MERGING", "MERGE_DRAIN"} => \A s \in Nat : RangeContains(r, s) => RangeContains(r.c[1], s)
<1>1. r \in RangeT /\ BucketShape(r) BY DEF IndexT, DocShape
<1>2. r.lo \in Nat /\ r.hi \in Nat /\ r.c \in Pairs BY <1>1, RangeParts
<1>3. PICK c : c = r.c OBVIOUS
<1>4. c \in Kids \X Kids /\ DOMAIN c = 1 .. 2 BY <1>2, <1>3, KidParts DEF Pairs
<1>5. /\ c[1].i \in RIdx /\ c[2].i \in RIdx
      /\ c[1].lo \in Nat /\ c[1].hi \in Nat /\ c[2].lo \in Nat /\ c[2].hi \in Nat
  BY <1>4, KidParts
<1>6. r.st # "ACTIVE" BY <1>1 DEF BucketShape
<1>7. r.st \in {"SPLITTING", "DRAINING"} \/ r.st \in {"MERGING", "MERGE_DRAIN"} BY <1>1, <1>6 DEF RangeT
<1>8. CASE r.st \in {"SPLITTING", "DRAINING"}
  <2>1. SplitOf(r, c) BY <1>1, <1>3, <1>8 DEF BucketShape
  <2>2. c[1].lo = r.lo /\ c[1].hi = c[2].lo /\ c[2].hi = r.hi /\ c[1].i # c[2].i BY <2>1 DEF SplitOf
  <2>3. \A s \in Nat : RangeContains(r, s) => RangeContains(c[2], s) \/ RangeContains(c[1], s)
    BY <1>2, <1>5, <2>2 DEF RangeContains
  <2>4. \A j, h \in DOMAIN c : c[j].i = c[h].i => c[j] = c[h] BY <1>4, <2>2
  <2>5. QED BY <1>3, <1>4, <1>5, <1>6, <1>8, <2>3, <2>4
<1>9. CASE r.st \in {"MERGING", "MERGE_DRAIN"}
  <2>1. PICK p \in ranges : Pair(r, p) \/ Pair(p, r) BY <1>1, <1>9 DEF BucketShape
  <2>2. p.lo \in Nat /\ p.hi \in Nat /\ p.lo <= p.hi /\ r.lo <= r.hi BY <1>1, RangeParts DEF IndexT, DocShape, BucketShape
  <2>3. c[1] = c[2] /\ \/ r.hi = p.lo /\ c[1].lo = r.lo /\ c[1].hi = p.hi
                       \/ p.hi = r.lo /\ c[1].lo = p.lo /\ c[1].hi = r.hi
    BY <1>3, <2>1 DEF Pair, MergeOf
  <2>4. \A s \in Nat : RangeContains(r, s) => RangeContains(c[1], s) BY <1>2, <2>2, <2>3 DEF RangeContains
  <2>5. \A j, h \in DOMAIN c : c[j].i = c[h].i => c[j] = c[h] BY <1>4, <2>3
  <2>6. QED BY <1>3, <1>4, <1>5, <1>6, <2>4, <2>5
<1>10. QED BY <1>7, <1>8, <1>9

\* Where a bucket of the document has the members of a score.
HeldIn(r, s, i) == i = r.i \/ \E j \in DOMAIN r.c : i = r.c[j].i /\ RangeContains(r.c[j], s)

\* A write goes to the bucket of its score or to the child, and not to a bucket that drains.
LEMMA WriteFacts ==
    ASSUME IndexT, DocShape, NEW s \in Scores
    PROVE  \E r \in ranges : /\ RangeContains(r, s) /\ \A q \in ranges : RangeContains(q, s) => q = r
                             /\ WriteTargetsRange(s) # {}
                             /\ \A i \in WriteTargetsRange(s) : i \in RIdx /\ HeldIn(r, s, i)
                             /\ r.st \in {"DRAINING", "MERGE_DRAIN"} => r.i \notin WriteTargetsRange(s)
<1>1. s \in Nat BY InfFacts
<1>2. PICK r \in ranges : RangeContains(r, s) /\ \A q \in ranges : RangeContains(q, s) => q = r BY DEF DocShape, Partition
<1>3. r = CHOOSE x \in ranges : RangeContains(x, s) BY <1>2
<1>4. PICK child : child = IF RangeContains(r.c[2], s) THEN r.c[2].i ELSE r.c[1].i OBVIOUS
<1>5. WriteTargetsRange(s) = CASE r.st = "ACTIVE" -> {r.i}
                               [] r.st = "SPLITTING" -> {r.i, child}
                               [] r.st = "DRAINING" -> {child}
                               [] r.st = "MERGING" -> {r.c[1].i, r.i}
                               [] r.st = "MERGE_DRAIN" -> {r.c[1].i}
  BY <1>3, <1>4 DEF WriteTargetsRange
<1>6. r \in RangeT /\ BucketShape(r) BY DEF IndexT, DocShape
<1>7. r.i \in RIdx BY <1>6, RangeParts
<1>8. HeldIn(r, s, r.i) BY DEF HeldIn
<1>9. CASE r.st = "ACTIVE"
  <2>1. WriteTargetsRange(s) = {r.i} BY <1>5, <1>9
  <2>2. QED BY <1>2, <1>7, <1>8, <1>9, <2>1
<1>10. CASE r.st # "ACTIVE"
  <2>1. r.c # <<>> BY <1>6, <1>10 DEF BucketShape
  <2>2. /\ DOMAIN r.c = 1 .. 2 /\ r.c[1].i \in RIdx /\ r.c[2].i \in RIdx
        /\ RangeContains(r.c[2], s) \/ RangeContains(r.c[1], s)
        /\ r.st \in {"MERGING", "MERGE_DRAIN"} => RangeContains(r.c[1], s)
    BY <1>1, <1>2, <2>1, ChildFacts
  <2>3. child \in RIdx /\ HeldIn(r, s, child) BY <1>4, <2>2 DEF HeldIn
  <2>4. r.st \in {"MERGING", "MERGE_DRAIN"} => HeldIn(r, s, r.c[1].i) BY <2>2 DEF HeldIn
  <2>5. child # r.i /\ r.c[1].i # r.i BY <1>4, <2>2 DEF DocShape
  <2>6. CASE r.st = "SPLITTING"
    <3>1. WriteTargetsRange(s) = {r.i, child} BY <1>5, <2>6
    <3>2. QED BY <1>2, <1>7, <1>8, <2>3, <2>6, <3>1
  <2>7. CASE r.st = "DRAINING"
    <3>1. WriteTargetsRange(s) = {child} BY <1>5, <2>7
    <3>2. QED BY <1>2, <2>3, <2>5, <3>1
  <2>8. CASE r.st = "MERGING"
    <3>1. WriteTargetsRange(s) = {r.c[1].i, r.i} BY <1>5, <2>8
    <3>2. QED BY <1>2, <1>7, <1>8, <2>2, <2>4, <2>8, <3>1
  <2>9. CASE r.st = "MERGE_DRAIN"
    <3>1. WriteTargetsRange(s) = {r.c[1].i} BY <1>5, <2>9
    <3>2. QED BY <1>2, <2>2, <2>4, <2>5, <2>9, <3>1
  <2>10. QED BY <1>6, <1>10, <2>6, <2>7, <2>8, <2>9 DEF RangeT
<1>11. QED BY <1>9, <1>10

\* Nothing is written to the buckets that a job drains.
LEMMA DrainedRest ==
    ASSUME RInv, sp.pc \in {"page", "move", "final"}, sp.drain, NEW i \in Elems(sp.old), NEW s \in Scores
    PROVE  i \notin WriteTargetsRange(s)
<1>0. IndexT /\ DocShape BY DEF RInv
<1>1. PICK a \in ranges : a.i = i BY OldStates
<1>2. a.st \in {"DRAINING", "MERGE_DRAIN"} BY <1>1, OldStates DEF Drain
<1>3. PICK r \in ranges : /\ \A h \in WriteTargetsRange(s) : HeldIn(r, s, h)
                          /\ r.st \in {"DRAINING", "MERGE_DRAIN"} => r.i \notin WriteTargetsRange(s)
  BY <1>0, WriteFacts
<1>4. \A j \in DOMAIN r.c : r.c[j].i # a.i BY <1>0 DEF DocShape
<1>5. ASSUME i \in WriteTargetsRange(s) PROVE FALSE
  <2>1. a.i = r.i BY <1>1, <1>3, <1>4, <1>5 DEF HeldIn
  <2>2. a = r BY <1>0, <2>1 DEF DocShape
  <2>3. QED BY <1>1, <1>2, <1>3, <1>5, <2>2
<1>6. QED BY <1>5

LEMMA WriteStep ==
    ASSUME RInv, NEW k \in RPks, NEW s \in Scores \cup {0}, Write(k, s)
    PROVE  RInv'
<1>0. IndexT /\ DocShape /\ Stocked /\ JobShape /\ BatchShape /\ Emptied /\ AtHome /\ sp \in JobT BY DEF RInv, IndexT
<1>1. UNCHANGED <<ranges, next, hot, sp, steps>> /\ rw' = rw + 1 /\ rw \in Nat BY <1>0 DEF Write, rdoc, IndexT
<1>2. PICK f : f = <<s, k, rw + 2>> OBVIOUS
<1>3. PICK gone : gone = MemberOf(k) OBVIOUS
<1>4. PICK old : old = IF score[k] = 0 THEN {} ELSE Numbers(ReadBucketsRange(ranges, score[k], score[k])) OBVIOUS
<1>5. PICK add : add = IF s = 0 THEN {} ELSE WriteTargetsRange(s) OBVIOUS
<1>6. bk' = [i \in RIdx |-> (IF i \in old THEN bk[i] \ {gone} ELSE bk[i]) \cup (IF i \in add THEN {f} ELSE {})]
  BY <1>2, <1>3, <1>4, <1>5 DEF Write, MemberOf
<1>7. score' = [score EXCEPT ![k] = s] /\ iv' = [iv EXCEPT ![k] = IF s = 0 THEN 0 ELSE rw + 2] BY DEF Write
<1>8. f[1] = s /\ f[2] = k /\ f[3] = rw + 2 BY <1>2
<1>9. s # 0 => f \in RMembers /\ s \in Scores /\ s \in Nat
  <2>1. rw + 2 \in Nat BY <1>1
  <2>2. QED BY <1>2, <2>1, InfFacts DEF RMembers
<1>10. \A i \in RIdx : /\ bk[i] \subseteq RMembers
                       /\ bk'[i] = (IF i \in old THEN bk[i] \ {gone} ELSE bk[i]) \cup (IF i \in add THEN {f} ELSE {})
  BY <1>0, <1>6 DEF IndexT
<1>11. add # {} => s # 0 BY <1>5
<1>12. \A i \in RIdx : bk'[i] \subseteq bk[i] \cup {f} /\ (i \notin add => bk'[i] \subseteq bk[i]) BY <1>10
<1>13. bk' \in [RIdx -> SUBSET RMembers]
  <2>1. \A i \in RIdx : bk'[i] \subseteq RMembers BY <1>9, <1>10, <1>11
  <2>2. QED BY <1>6, <2>1
<1>14. IndexT'
  <2>1. score' \in [RPks -> Scores \cup {0}] BY <1>0, <1>7 DEF IndexT
  <2>2. iv' \in [RPks -> Nat] BY <1>0, <1>1, <1>7 DEF IndexT
  <2>3. rw' \in Nat BY <1>1
  <2>4. QED BY <1>0, <1>1, <1>13, <2>1, <2>2, <2>3 DEF IndexT
<1>15. DocShape' BY <1>0, <1>1 DEF DocShape, BucketShape, Pair, Partition, MergeOf, SplitOf
<1>16. s # 0 => \E r \in ranges : /\ RangeContains(r, s) /\ (\A q \in ranges : RangeContains(q, s) => q = r)
                                  /\ add # {} /\ \A i \in add : i \in RIdx /\ HeldIn(r, s, i)
  BY <1>0, <1>5, <1>9, WriteFacts
<1>17. \A i \in add : i < next /\ \E r \in ranges : i = r.i \/ \E j \in DOMAIN r.c : i = r.c[j].i
  BY <1>0, <1>11, <1>16 DEF HeldIn, DocShape, BucketShape
<1>18. JobShape'
  <2>1. ASSUME sp.pc = "busy", NEW j \in 1 .. 2 PROVE bk'[sp.new[j].i] = {}
    <3>1. PICK n : n = sp.new[j].i OBVIOUS
    <3>2. n \in RIdx
      <4>1. OldBuckets BY <1>0, <2>1 DEF JobShape, Working
      <4>2. QED BY <3>1, <4>1, NewPair, KidParts
    <3>3. Unused(n) /\ bk[n] = {} BY <1>0, <2>1, <3>1 DEF JobShape
    <3>4. n \notin add BY <1>17, <3>3 DEF Unused
    <3>5. QED BY <1>12, <3>1, <3>2, <3>3, <3>4
  <2>2. Working => OldBuckets' BY <1>0, <1>1 DEF JobShape, OldBuckets, Left, SplitOf, MergeOf
  <2>3. ASSUME sp.pc = "busy", NEW j \in 1 .. 2 PROVE sp.new[j].i < next /\ Unused(sp.new[j].i)'
    <3>1. sp.new[j].i < next /\ Unused(sp.new[j].i) BY <1>0, <2>3 DEF JobShape
    <3>2. QED BY <1>1, <3>1 DEF Unused
  <2>4. QED BY <1>0, <1>1, <2>1, <2>2, <2>3 DEF JobShape, Working, Unused
<1>19. Stocked'
  <2>1. ASSUME NEW i \in RIdx PROVE \A m \in bk'[i] : m[3] <= rw' + 1
    <3>1. \A m \in bk[i] : m[3] <= rw + 1 /\ m[3] \in Nat BY <1>0, <1>10, RMemberParts DEF Stocked
    <3>2. \A m \in bk[i] : m[3] <= rw' + 1 BY <1>1, <3>1
    <3>3. f[3] <= rw' + 1 BY <1>1, <1>8
    <3>4. QED BY <1>12, <3>2, <3>3
  <2>2. ASSUME NEW i \in RIdx, i >= next PROVE bk'[i] = {}
    <3>1. bk[i] = {} BY <1>0, <2>2 DEF Stocked
    <3>2. i \notin add BY <1>0, <1>17, <2>2, RIdxNat DEF IndexT
    <3>3. QED BY <1>12, <3>1, <3>2
  <2>3. ASSUME NEW q \in ranges PROVE Inside(q, bk'[q.i])
    <3>1. q.i \in RIdx BY <1>0, RangeParts DEF IndexT
    <3>2. q.i \in add => RangeContains(q, s) BY <1>0, <1>11, <1>16 DEF HeldIn, DocShape
    <3>3. QED BY <1>0, <1>8, <1>12, <3>1, <3>2 DEF Stocked, Inside
  <2>4. ASSUME NEW q \in ranges, NEW j \in DOMAIN q.c PROVE Inside(q.c[j], bk'[q.c[j].i])
    <3>0. q.c # <<>>
      <4>1. DOMAIN <<>> = {} OBVIOUS
      <4>2. QED BY <4>1
    <3>1. PICK i : i = q.c[j].i OBVIOUS
    <3>2. i \in RIdx BY <1>0, <3>0, <3>1, ChildFacts
    <3>3. i \in add => RangeContains(q.c[j], s)
      <4> SUFFICES ASSUME i \in add PROVE RangeContains(q.c[j], s) OBVIOUS
      <4>1. PICK r \in ranges : HeldIn(r, s, i) BY <1>11, <1>16
      <4>2. i # r.i BY <1>0, <3>1 DEF DocShape
      <4>3. PICK h \in DOMAIN r.c : i = r.c[h].i /\ RangeContains(r.c[h], s) BY <4>1, <4>2 DEF HeldIn
      <4>4. q.c = r.c
        <5>1. \A x \in DOMAIN q.c, y \in DOMAIN r.c : q.c[x].i = r.c[y].i => q.c = r.c BY <1>0 DEF DocShape
        <5>2. QED BY <3>1, <4>3, <5>1
      <4>5. q.c[j] = q.c[h]
        <5>1. \A x, y \in DOMAIN q.c : q.c[x].i = q.c[y].i => q.c[x] = q.c[y] BY <1>0, <3>0, ChildFacts
        <5>2. QED BY <3>1, <4>3, <4>4, <5>1
      <4>6. QED BY <4>3, <4>4, <4>5
    <3>4. QED BY <1>0, <1>8, <1>12, <3>1, <3>2, <3>3 DEF Stocked, Inside
  <2>5. (\A i \in RIdx : (\A m \in bk[i] : m[3] <= rw + 1) /\ (i >= next => bk[i] = {}))' BY <1>1, <2>1, <2>2
  <2>6. (\A r \in ranges : Inside(r, bk[r.i]) /\ \A j \in DOMAIN r.c : Inside(r.c[j], bk[r.c[j].i]))'
    BY <1>1, <2>3, <2>4 DEF Inside, RangeContains
  <2>7. QED BY <2>5, <2>6 DEF Stocked
<1>20. ASSUME sp.pc \in {"page", "move", "final"}, sp.drain, NEW i \in Elems(sp.old) PROVE bk'[i] \subseteq bk[i]
  <2>1. i \in RIdx
    <3>1. PICK a \in ranges : a.i = i BY <1>20, OldStates
    <3>2. QED BY <1>0, <3>1, RangeParts DEF IndexT
  <2>2. i \notin add BY <1>5, <1>9, <1>20, DrainedRest
  <2>3. QED BY <1>12, <2>1, <2>2
<1>21. BatchShape'
  <2> SUFFICES ASSUME sp.pc = "move" PROVE BatchShape' BY <1>1 DEF BatchShape
  <2>1. /\ sp.live \subseteq sp.page /\ (\A m \in sp.page : m[3] <= rw + 1)
        /\ (\A r \in ranges : r.i = Head(sp.todo) => Inside(r, sp.page))
        /\ (\A m \in sp.page : m \notin sp.live => m # MemberOf(m[2]))
        /\ (sp.drain /\ Cardinality(sp.page) < MoveBatch) => bk[Head(sp.todo)] \subseteq sp.page
        /\ sp.page \subseteq RMembers
    BY <1>0 DEF BatchShape, JobT
  <2>2. \A m \in sp.page : m[3] <= rw' + 1 /\ m[3] <= rw + 1 /\ m[3] \in Nat
    <3> TAKE m \in sp.page
    <3>1. m[3] \in Nat BY <2>1, RMemberParts
    <3>2. QED BY <1>1, <2>1, <3>1
  <2>3. ASSUME NEW m \in sp.page, m \notin sp.live PROVE m # <<score'[m[2]], m[2], iv'[m[2]]>>
    <3>1. m[1] # 0 /\ m[2] \in RPks BY <2>1, RMemberParts, InfFacts
    <3>2. CASE m[2] # k
      <4>1. score'[m[2]] = score[m[2]] /\ iv'[m[2]] = iv[m[2]] BY <1>0, <1>7, <3>1, <3>2 DEF IndexT
      <4>2. QED BY <2>1, <2>3, <4>1 DEF MemberOf
    <3>3. CASE m[2] = k
      <4>1. score'[k] = s /\ iv'[k] = IF s = 0 THEN 0 ELSE rw + 2 BY <1>0, <1>7 DEF IndexT
      <4>2. <<score'[m[2]], m[2], iv'[m[2]]>>[1] = s /\ <<score'[m[2]], m[2], iv'[m[2]]>>[3] = iv'[k] BY <3>3, <4>1
      <4>3. s # 0 => iv'[k] # m[3] BY <1>1, <2>2, <4>1
      <4>4. QED BY <3>1, <4>2, <4>3
    <3>4. QED BY <3>2, <3>3
  <2>4. (sp.drain /\ Cardinality(sp.page) < MoveBatch) => bk'[Head(sp.todo)] \subseteq sp.page
    <3>1. OldBuckets /\ (sp.todo = sp.old \/ sp.todo = Tail(sp.old) \/ sp.todo = <<>>) /\ sp.todo # <<>> BY <1>0 DEF JobShape, Working
    <3>2. Head(sp.todo) \in Elems(sp.old) BY <3>1, TodoFacts
    <3>3. QED BY <1>20, <2>1, <3>2
  <2>5. (\A r \in ranges : r.i = Head(sp.todo) => Inside(r, sp.page))' BY <1>1, <2>1 DEF Inside, RangeContains
  <2>6. QED BY <1>1, <2>1, <2>2, <2>3, <2>4, <2>5 DEF BatchShape, MemberOf
<1>22. Emptied'
  <2>1. sp.pc = "final" => sp.drain BY <1>0 DEF JobShape
  <2>2. QED BY <1>0, <1>1, <1>20, <2>1 DEF Emptied
<1>23. AtHome'
  <2>1. ASSUME NEW n \in RPks, NEW x \in ranges, score'[n] # 0, RangeContains(x, score'[n]), NEW m, m = <<score'[n], n, iv'[n]>>
        PROVE  \/ m \in bk'[x.i]
               \/ \E j \in DOMAIN x.c : RangeContains(x.c[j], score'[n]) /\ m \in bk'[x.c[j].i]
    <3>1. CASE n = k
      <4>1. score'[n] = s /\ iv'[n] = (IF s = 0 THEN 0 ELSE rw + 2) BY <1>0, <1>7, <3>1 DEF IndexT
      <4>2. s # 0 /\ m = f /\ RangeContains(x, s) BY <1>2, <2>1, <3>1, <4>1
      <4>3. PICK i \in add : i \in RIdx /\ HeldIn(x, s, i) BY <1>16, <4>2
      <4>4. m \in bk'[i] BY <1>10, <4>2, <4>3
      <4>5. QED BY <4>1, <4>3, <4>4 DEF HeldIn
    <3>2. CASE n # k
      <4>1. score'[n] = score[n] /\ iv'[n] = iv[n] BY <1>0, <1>7, <3>2 DEF IndexT
      <4>2. m = MemberOf(n) /\ m[2] = n BY <2>1, <4>1 DEF MemberOf
      <4>3. gone[2] = k BY <1>3 DEF MemberOf
      <4>4. m # gone BY <3>2, <4>2, <4>3
      <4>5. \A i \in RIdx : m \in bk[i] => m \in bk'[i] BY <1>10, <4>4
      <4>6. HomeOf(x, n) BY <1>0, <2>1, <4>1 DEF AtHome
      <4>7. x.i \in RIdx BY <1>0, RangeParts DEF IndexT
      <4>8. \A j \in DOMAIN x.c : x.c[j].i \in RIdx
        <5>1. DOMAIN <<>> = {} OBVIOUS
        <5>2. QED BY <1>0, <5>1, ChildFacts
      <4>9. QED BY <4>1, <4>2, <4>5, <4>6, <4>7, <4>8 DEF HomeOf
    <3>3. QED BY <3>1, <3>2
  <2>2. QED BY <1>1, <2>1 DEF AtHome, HomeOf, MemberOf, RangeContains
<1>24. QED BY <1>14, <1>15, <1>18, <1>19, <1>21, <1>22, <1>23 DEF RInv


LEMMA RInitInv == RInit => RInv
<1> SUFFICES ASSUME RInit PROVE RInv OBVIOUS
<1>1. PICK r0 : r0 = [i |-> 0, lo |-> 0, hi |-> Inf, st |-> "ACTIVE", c |-> <<>>] OBVIOUS
<1>2. ranges = {r0} /\ next = 1 /\ rw = 0 /\ steps = 0 /\ hot = SplitBefore /\ sp = NoJob /\ score = RInitially BY <1>1 DEF RInit
<1>3. PICK S : S = {<<RInitially[k], k, 1>> : k \in {j \in RPks : RInitially[j] # 0}} OBVIOUS
<1>4. bk = [i \in RIdx |-> IF i = 0 THEN S ELSE {}] BY <1>3 DEF RInit
<1>5. RInitially \in [RPks -> Scores \cup {0}] /\ SplitBefore \in BOOLEAN /\ MaxSteps \in Nat BY RangeAssumption
<1>6. r0 \in RangeT /\ r0.i = 0 /\ r0.lo = 0 /\ r0.hi = Inf /\ r0.st = "ACTIVE" /\ r0.c = <<>>
  BY <1>1, InfFacts, RIdxNat DEF RangeT, Pairs
<1>7. \A m \in S : m \in RMembers /\ m[1] \in Scores /\ m[3] = 1
  <2>1. \A k \in {j \in RPks : RInitially[j] # 0} : RInitially[k] \in Scores BY <1>5
  <2>2. QED BY <1>3, <2>1 DEF RMembers
<1>8. iv = [k \in RPks |-> IF RInitially[k] = 0 THEN 0 ELSE 1] BY DEF RInit
<1>9. sp \in JobT /\ sp.pc = "idle" BY <1>2 DEF NoJob, JobT, Pairs
<1>10. IndexT
  <2>1. bk \in [RIdx -> SUBSET RMembers] BY <1>4, <1>7
  <2>2. iv \in [RPks -> Nat] BY <1>8
  <2>3. QED BY <1>2, <1>5, <1>6, <1>9, <2>1, <2>2 DEF IndexT
<1>11. \A s \in Scores : RangeContains(r0, s) BY <1>6, InfFacts DEF RangeContains
<1>12. DOMAIN <<>> = {} OBVIOUS
<1>13. DocShape
  <2>1. BucketShape(r0) BY <1>2, <1>6, InfFacts DEF BucketShape
  <2>2. Partition BY <1>2, <1>11 DEF Partition
  <2>3. QED BY <1>2, <1>6, <1>12, <2>1, <2>2 DEF DocShape
<1>14. JobShape /\ BatchShape /\ Emptied BY <1>9 DEF JobShape, Working, BatchShape, Emptied
<1>15. Stocked
  <2>1. \A i \in RIdx : (\A m \in bk[i] : m[3] <= rw + 1) /\ (i >= next => bk[i] = {}) BY <1>2, <1>4, <1>7
  <2>2. 0 \in RIdx BY RIdxNat
  <2>3. Inside(r0, bk[r0.i]) BY <1>4, <1>6, <1>7, <1>11, <2>2 DEF Inside
  <2>4. QED BY <1>2, <1>6, <1>12, <2>1, <2>3 DEF Stocked
<1>16. AtHome
  <2>1. ASSUME NEW k \in RPks, score[k] # 0 PROVE MemberOf(k) \in bk[0]
    <3>1. MemberOf(k) = <<RInitially[k], k, 1>> BY <1>2, <1>8, <2>1 DEF MemberOf
    <3>2. MemberOf(k) \in S BY <1>2, <1>3, <2>1, <3>1
    <3>3. QED BY <1>4, <3>2, RIdxNat
  <2>2. QED BY <1>2, <1>6, <2>1 DEF AtHome, HomeOf
<1>17. QED BY <1>10, <1>13, <1>14, <1>15, <1>16 DEF RInv

LEMMA RFrame ==
    ASSUME RInv, UNCHANGED <<score, iv, bk, ranges, next, hot, sp, rw, steps>>
    PROVE  RInv'
<1>1. hot' \in BOOLEAN /\ sp' \in JobT BY DEF RInv, IndexT
<1>2. Working => OldBuckets' BY DEF RInv, JobShape, OldBuckets, Left, SplitOf, MergeOf
<1>3. JobShape' BY <1>2 DEF RInv, JobShape, Working, Unused
<1>4. BatchShape' BY DEF RInv, BatchShape, Inside, RangeContains, MemberOf
<1>5. Emptied' BY DEF RInv, Emptied
<1>6. QED BY <1>1, <1>3, <1>4, <1>5, JobOnly

LEMMA RangeStep ==
    ASSUME RInv, Careful, [RNext]_rvars
    PROVE  RInv'
<1>1. CASE Query
  <2>1. UNCHANGED <<score, iv, bk, ranges, next, hot, sp, rw, steps>>
    BY <1>1, Zenon DEF Query, RunRange, Route, Seed, Step, Fetch, Done, QStep, rstore, rdoc
  <2>2. QED BY <2>1, RFrame
<1>2. CASE UNCHANGED rvars
  <2>1. UNCHANGED <<score, iv, bk, ranges, next, hot, sp, rw, steps>> BY <1>2 DEF rvars, rstore, rdoc
  <2>2. QED BY <2>1, RFrame
<1>3. CASE \E w \in Writes : Write(w[1], w[2])
  <2>1. PICK w \in Writes : Write(w[1], w[2]) BY <1>3
  <2>2. w \in RPks \X (Scores \cup {0}) BY RangeAssumption
  <2>3. w[1] \in RPks /\ w[2] \in Scores \cup {0} BY <2>2
  <2>4. QED BY <2>1, <2>3, WriteStep
<1>4. CASE Controller
  <2>1. CASE \E op \in {"split", "merge"}, r \in ranges : Begin(op, r) BY <2>1, BeginStep
  <2>2. CASE CasNext BY <2>2, CasNextStep
  <2>3. CASE CasBusy BY <2>3, CasBusyStep
  <2>4. CASE MigratePage BY <2>4, MigratePageStep
  <2>5. CASE MigrateBatch BY <2>5, MigrateBatchStep
  <2>6. CASE CasDrain BY <2>6, CasDrainStep
  <2>7. CASE Unlink BY <2>7, UnlinkStep
  <2>8. CASE CasFinal BY <2>8, CasFinalStep
  <2>9. CASE RegisterHot
    <3>1. UNCHANGED <<score, iv, bk, ranges, next, rw, steps>> /\ hot' \in BOOLEAN /\ sp' = NoJob
      BY <2>9 DEF RegisterHot, SStep, Job
    <3>2. QED BY <3>1, IdleStep
  <2>10. CASE Crash
    <3>1. UNCHANGED <<score, iv, bk, ranges, next, rw, steps>> /\ hot' = hot /\ sp' = NoJob BY <2>10 DEF Crash, SStep, Job, rdoc
    <3>2. hot' \in BOOLEAN BY <3>1 DEF RInv, IndexT
    <3>3. QED BY <3>1, <3>2, IdleStep
  <2>11. QED BY <1>4, <2>1, <2>2, <2>3, <2>4, <2>5, <2>6, <2>7, <2>8, <2>9, <2>10 DEF Controller
<1>5. QED BY <1>1, <1>2, <1>3, <1>4 DEF RNext

LEMMA RInvAlways ==
    ASSUME Careful
    PROVE  RSpec => []RInv
<1>1. RInit => RInv BY RInitInv
<1>2. RInv /\ [RNext]_rvars => RInv' BY RangeStep
<1>3. QED BY <1>1, <1>2, PTL DEF RSpec

\* The member of a row is in a bucket that is read for the document's bucket of its score.
LEMMA RowInBucket ==
    ASSUME RInv, NEW k \in RPks, score[k] # 0
    PROVE  \E r \in ranges : RangeContains(r, score[k]) /\ \E b \in BucketsOf(r) : MemberOf(k) \in bk[b[1]]
<1>0. IndexT /\ DocShape /\ AtHome BY DEF RInv
<1>1. PICK s \in Scores : s = score[k] BY <1>0 DEF IndexT
<1>2. PICK r \in ranges : RangeContains(r, s) BY <1>0 DEF DocShape, Partition
<1>3. PICK i : HeldIn(r, s, i) /\ MemberOf(k) \in bk[i] BY <1>0, <1>1, <1>2 DEF AtHome, HomeOf, HeldIn
<1>4. \E b \in BucketsOf(r) : b[1] = i
  <2>1. CASE i = r.i
    <3>1. <<r.i, r.i, 0>> \in BucketsOf(r) /\ <<r.i, r.i, 0>>[1] = r.i BY DEF BucketsOf
    <3>2. QED BY <2>1, <3>1
  <2>2. CASE i # r.i
    <3>1. PICK j \in DOMAIN r.c : i = r.c[j].i /\ RangeContains(r.c[j], s) BY <1>3, <2>2 DEF HeldIn
    <3>2. r.c # <<>>
      <4>1. DOMAIN <<>> = {} OBVIOUS
      <4>2. QED BY <4>1
    <3>3. DOMAIN r.c = 1 .. 2 BY <1>0, <3>2, ChildFacts
    <3>4. PICK x : x = r.c[1].i OBVIOUS
    <3>5. PICK y : y = r.c[2].i OBVIOUS
    <3>6. <<x, r.i, 1>> \in BucketsOf(r) /\ <<x, r.i, 1>>[1] = x BY <3>2, <3>4 DEF BucketsOf
    <3>7. r.st # "MERGE_DRAIN" => <<y, r.i, 2>> \in BucketsOf(r) /\ <<y, r.i, 2>>[1] = y BY <3>2, <3>5 DEF BucketsOf
    <3>8. r.st = "MERGE_DRAIN" => x = y
      <4> SUFFICES ASSUME r.st = "MERGE_DRAIN" PROVE x = y OBVIOUS
      <4>1. PICK p \in ranges : Pair(r, p) \/ Pair(p, r) BY <1>0 DEF DocShape, BucketShape
      <4>2. r.c[1] = r.c[2] BY <4>1 DEF Pair, MergeOf
      <4>3. QED BY <3>4, <3>5, <4>2
    <3>9. i = x \/ i = y BY <3>1, <3>3, <3>4, <3>5
    <3>10. QED BY <3>6, <3>7, <3>8, <3>9
  <2>3. QED BY <2>1, <2>2
<1>5. QED BY <1>1, <1>2, <1>3, <1>4

LEMMA HomeFollows == RInv => OneHome /\ Homed
<1> SUFFICES ASSUME RInv PROVE OneHome /\ Homed OBVIOUS
<1>0. IndexT /\ DocShape /\ AtHome BY DEF RInv
<1>1. ASSUME NEW s \in Scores
      PROVE  /\ Cardinality({r \in ranges : RangeContains(r, s)}) = 1
             /\ \A r \in ranges : r.c # <<>> /\ RangeContains(r, s) => \E j \in 1 .. 2 : RangeContains(r.c[j], s)
  <2>1. PICK r \in ranges : RangeContains(r, s) /\ \A q \in ranges : RangeContains(q, s) => q = r BY <1>0 DEF DocShape, Partition
  <2>2. {q \in ranges : RangeContains(q, s)} = {r} BY <2>1
  <2>3. Cardinality({r}) = 1 BY FS_Singleton
  <2>4. s \in Nat BY InfFacts
  <2>5. ASSUME NEW q \in ranges, q.c # <<>>, RangeContains(q, s) PROVE \E j \in 1 .. 2 : RangeContains(q.c[j], s)
    <3>1. RangeContains(q.c[2], s) \/ RangeContains(q.c[1], s) BY <1>0, <2>4, <2>5, ChildFacts
    <3>2. QED BY <3>1
  <2>6. QED BY <2>2, <2>3, <2>5
<1>2. ASSUME NEW k \in RPks, score[k] # 0
      PROVE  \E b \in ReadBucketsRange(ranges, score[k], score[k]) : <<score[k], k, iv[k]>> \in bk[b[1]]
  <2>1. PICK s \in Scores : s = score[k] BY <1>0, <1>2 DEF IndexT
  <2>2. s \in Nat BY InfFacts
  <2>3. PICK r \in ranges : RangeContains(r, s) /\ \E b \in BucketsOf(r) : MemberOf(k) \in bk[b[1]] BY <1>2, <2>1, RowInBucket
  <2>4. r.lo \in Nat /\ r.hi \in Nat BY <1>0, RangeParts DEF IndexT
  <2>5. r \in Overlapping(ranges, s, s) BY <2>2, <2>3, <2>4 DEF Overlapping, RangeOverlaps, RangeContains
  <2>6. BucketsOf(r) \subseteq ReadBucketsRange(ranges, s, s) BY <2>5 DEF ReadBucketsRange
  <2>7. QED BY <2>1, <2>3, <2>6 DEF MemberOf
<1>3. QED BY <1>1, <1>2 DEF OneHome, Homed

\* A score has one home: the buckets of the document divide the axis, and so do the
\* children of a bucket that is split or merged, whatever SplitRange and MergeRange did
\* before and wherever a controller died between two of their CASes.
THEOREM ScoreHasOneHome ==
    ASSUME Careful
    PROVE  RSpec => []OneHome
<1>1. RInv => OneHome BY HomeFollows
<1>2. QED BY <1>1, RInvAlways, PTL

\* SplitRange and MergeRange hide no row: a lookup of the row's score reads a bucket with
\* the row's member, before, between and after their steps, for any buckets, batches,
\* crashes and writers.
THEOREM RowsStayHomed ==
    ASSUME Careful
    PROVE  RSpec => []Homed
<1>1. RInv => Homed BY HomeFollows
<1>2. QED BY <1>1, RInvAlways, PTL


(***************************************************************************)
(* Types.  Whatever merges are asked for: documents may then be wrong, but *)
(* the locals and the buckets keep their types.                            *)
(***************************************************************************)
Stamped == \A i \in RIdx : \A m \in bk[i] : m[3] <= rw + 1
JobPlain ==
    /\ sp.pc = "next" => next + 1 <= 2 * steps
    /\ sp.pc = "move" => sp.todo # <<>> /\ \A m \in sp.live : m[3] <= rw + 1
Loose == IndexT /\ Stamped /\ JobPlain

LEMMA LooseFinite ==
    ASSUME IndexT, Stamped, NEW b \in RIdx
    PROVE  bk[b] \in SUBSET RMembers /\ IsFiniteSet(bk[b])
<1>1. bk[b] \in SUBSET RMembers /\ rw + 1 \in Nat /\ \A m \in bk[b] : m[3] <= rw + 1 BY DEF IndexT, Stamped
<1>2. QED BY <1>1, BucketsFinite

LEMMA LooseInit == RInit => Loose
<1> SUFFICES ASSUME RInit PROVE Loose OBVIOUS
<1>1. RInv BY RInitInv
<1>2. sp.pc = "idle" BY DEF RInit, NoJob
<1>3. QED BY <1>1, <1>2 DEF RInv, Stocked, Loose, Stamped, JobPlain

LEMMA LooseBegin ==
    ASSUME Loose, NEW op \in {"split", "merge"}, NEW r \in ranges, Begin(op, r)
    PROVE  Loose'
<1>0. IndexT /\ Stamped /\ JobPlain BY DEF Loose
<1>1. PICK q \in (IF op = "merge" THEN Right(r) ELSE {r}) :
          LET old == IF op = "merge" THEN <<r.i, q.i>> ELSE <<r.i>>
              job == [NoJob EXCEPT !.op = op, !.old = old, !.todo = old]
          IN  \/ /\ r.st = "ACTIVE"
                 /\ op = "split" => bk[r.i] # {}
                 /\ Job([job EXCEPT !.pc = "next", !.new = IF op = "split" THEN SplitInto(r) ELSE MergeInto(r, q)])
              \/ r.st = Busy(op) /\ Job([job EXCEPT !.pc = "page", !.new = r.c])
              \/ r.st = Drain(op) /\ Job([job EXCEPT !.pc = "page", !.new = r.c, !.drain = TRUE])
  BY Zenon DEF Begin
<1> DEFINE old == IF op = "merge" THEN <<r.i, q.i>> ELSE <<r.i>>
           new == IF op = "split" THEN SplitInto(r) ELSE MergeInto(r, q)
<1>2. q \in ranges BY <1>1 DEF Right
<1>3. \/ (op = "split" => bk[r.i] # {}) /\ sp' = JobRec("next", op, old, new, old, {}, {}, FALSE)
      \/ sp' = JobRec("page", op, old, r.c, old, {}, {}, FALSE)
      \/ sp' = JobRec("page", op, old, r.c, old, {}, {}, TRUE)
  BY <1>1, ZenonT(40) DEF Job, NoJob, JobRec
<1>4. UNCHANGED <<score, iv, bk, ranges, next, hot, rw>> /\ steps' = steps + 1 /\ steps < MaxSteps
  BY DEF Begin, rdoc, SStep
<1>5. r \in RangeT /\ q \in RangeT BY <1>0, <1>2 DEF IndexT
<1>6. /\ r.i \in RIdx /\ q.i \in RIdx /\ r.lo \in Nat /\ r.hi \in Nat /\ q.lo \in Nat /\ q.hi \in Nat /\ r.c \in Pairs
  BY <1>5, RangeParts
<1>7. old \in Seq(RIdx)
  <2>1. <<r.i, q.i>> \in Seq(RIdx) /\ <<r.i>> \in Seq(RIdx) BY <1>6
  <2>2. QED BY <2>1
<1>8. next \in RIdx /\ next + 1 \in RIdx /\ next \in Nat /\ next + 1 <= 2 * (steps + 1) BY <1>0, <1>4, NewNumbers DEF IndexT
<1>9. (op = "split" => bk[r.i] # {}) => new \in Pairs
  <2> SUFFICES ASSUME op = "split" => bk[r.i] # {} PROVE new \in Pairs OBVIOUS
  <2>1. CASE op = "split"
    <3>1. PICK mid \in Nat : mid = SampleMedian(r.i)
      <4>1. bk[r.i] \in SUBSET RMembers /\ IsFiniteSet(bk[r.i]) BY <1>0, <1>6, LooseFinite
      <4>2. QED BY <2>1, <4>1, MedianMember
    <3>2. PICK a \in Kids : a = Child(next, r.lo, mid) BY <1>6, <1>8, <3>1 DEF Kids, Child
    <3>3. PICK b \in Kids : b = Child(next + 1, mid, r.hi) BY <1>6, <1>8, <3>1 DEF Kids, Child
    <3>4. new = <<a, b>> BY <2>1, <3>1, <3>2, <3>3 DEF SplitInto
    <3> HIDE DEF new
    <3>5. QED BY <3>4 DEF Pairs
  <2>2. CASE op # "split"
    <3>1. PICK a \in Kids : a = Child(next, r.lo, q.hi) BY <1>6, <1>8 DEF Kids, Child
    <3>2. new = <<a, a>> BY <2>2, <3>1 DEF MergeInto
    <3> HIDE DEF new
    <3>3. QED BY <3>2 DEF Pairs
  <2>3. QED BY <2>1, <2>2
<1> HIDE DEF old, new
<1>10. sp' \in JobT /\ sp'.pc \in {"next", "page"}
  <2>1. CASE (op = "split" => bk[r.i] # {}) /\ sp' = JobRec("next", op, old, new, old, {}, {}, FALSE)
    <3>1. PICK n \in Pairs : n = new BY <1>9, <2>1
    <3>2. QED BY <1>7, <2>1, <3>1 DEF JobRec, JobT
  <2>2. ASSUME NEW d \in BOOLEAN, sp' = JobRec("page", op, old, r.c, old, {}, {}, d) PROVE sp' \in JobT /\ sp'.pc \in {"next", "page"}
    <3>1. PICK n \in Pairs : n = r.c BY <1>6
    <3>2. QED BY <1>7, <2>2, <3>1 DEF JobRec, JobT
  <2>3. QED BY <1>3, <2>1, <2>2
<1>11. IndexT'
  <2>1. steps' \in Nat /\ steps' <= MaxSteps /\ next <= 2 * steps' + 1 BY <1>0, <1>4, RIdxNat DEF IndexT
  <2>2. QED BY <1>0, <1>4, <1>10, <2>1 DEF IndexT
<1>12. Stamped' /\ JobPlain' BY <1>0, <1>4, <1>8, <1>10 DEF Stamped, JobPlain
<1>13. QED BY <1>11, <1>12 DEF Loose

\* A step of the splitter on the document.
LEMMA LooseDoc ==
    ASSUME Loose, UNCHANGED <<score, iv, bk, rw, steps>>, hot' \in BOOLEAN, sp' \in JobT, ranges' \subseteq RangeT,
           next' \in Nat, next' <= 2 * steps + 1, sp'.pc \notin {"next", "move"}
    PROVE  Loose'
BY DEF Loose, IndexT, Stamped, JobPlain

LEMMA LooseStep ==
    ASSUME Loose, [RNext]_rvars
    PROVE  Loose'
<1>0. IndexT /\ Stamped /\ JobPlain /\ sp \in JobT /\ hot \in BOOLEAN /\ next \in Nat /\ steps \in Nat /\ next <= 2 * steps + 1
      /\ ranges \subseteq RangeT
  BY DEF Loose, IndexT
<1>1. ASSUME UNCHANGED <<score, iv, bk, ranges, next, hot, sp, rw, steps>> PROVE Loose'
  BY <1>1 DEF Loose, IndexT, Stamped, JobPlain
<1>2. CASE Query
  <2>1. UNCHANGED <<score, iv, bk, ranges, next, hot, sp, rw, steps>>
    BY <1>2, Zenon DEF Query, RunRange, Route, Seed, Step, Fetch, Done, QStep, rstore, rdoc
  <2>2. QED BY <1>1, <2>1
<1>3. CASE UNCHANGED rvars
  <2>1. UNCHANGED <<score, iv, bk, ranges, next, hot, sp, rw, steps>> BY <1>3 DEF rvars, rstore, rdoc
  <2>2. QED BY <1>1, <2>1
<1>4. ASSUME NEW w \in Writes, Write(w[1], w[2]) PROVE Loose'
  <2>1. w \in RPks \X (Scores \cup {0}) BY RangeAssumption
  <2>2. PICK k \in RPks, s \in Scores \cup {0} : k = w[1] /\ s = w[2] BY <2>1
  <2>3. Write(k, s) BY <1>4, <2>2
  <2>4. UNCHANGED <<ranges, next, hot, sp, steps>> /\ rw' = rw + 1 /\ rw \in Nat BY <1>0, <2>3 DEF Write, rdoc, IndexT
  <2> DEFINE old == IF score[k] = 0 THEN {} ELSE Numbers(ReadBucketsRange(ranges, score[k], score[k]))
             add == IF s = 0 THEN {} ELSE WriteTargetsRange(s)
  <2>5. /\ s = 0 => add = {}
        /\ bk' = [i \in RIdx |-> (IF i \in old THEN bk[i] \ {<<score[k], k, iv[k]>>} ELSE bk[i])
                                 \cup (IF i \in add THEN {<<s, k, rw + 2>>} ELSE {})]
    BY <2>3 DEF Write
  <2> HIDE DEF old, add
  <2>6. PICK f : f = <<s, k, rw + 2>> OBVIOUS
  <2>7. f[3] = rw + 2 /\ (s # 0 => f \in RMembers)
    <3>1. rw + 2 \in Nat BY <2>4
    <3>2. QED BY <2>6, <3>1 DEF RMembers
  <2>8. \A i \in RIdx : bk[i] \subseteq RMembers /\ bk'[i] \subseteq bk[i] \cup {f} /\ (s = 0 => bk'[i] \subseteq bk[i])
    BY <1>0, <2>5, <2>6 DEF IndexT
  <2>9. bk' \in [RIdx -> SUBSET RMembers]
    <3>1. \A i \in RIdx : bk'[i] \subseteq RMembers BY <2>7, <2>8
    <3>2. QED BY <2>5, <3>1
  <2>10. score' \in [RPks -> Scores \cup {0}] /\ iv' \in [RPks -> Nat] BY <1>0, <2>3, <2>4 DEF Write, IndexT
  <2>11. IndexT' BY <1>0, <2>4, <2>9, <2>10 DEF IndexT
  <2>12. ASSUME NEW i \in RIdx, NEW m \in bk'[i] PROVE m[3] <= rw' + 1
    <3>1. CASE m \in bk[i]
      <4>1. m[3] <= rw + 1 /\ m[3] \in Nat BY <1>0, <2>8, <3>1, RMemberParts DEF Stamped
      <4>2. QED BY <2>4, <4>1
    <3>2. CASE m = f BY <2>4, <2>7, <3>2
    <3>3. QED BY <2>8, <3>1, <3>2
  <2>13. Stamped' BY <2>12 DEF Stamped
  <2>14. \A m \in sp.live : m[3] <= rw + 1 => m[3] <= rw' + 1
    <3> TAKE m \in sp.live
    <3>1. m[3] \in Nat BY <1>0, RMemberParts DEF JobT
    <3>2. QED BY <2>4, <3>1
  <2>15. JobPlain' BY <1>0, <2>4, <2>14 DEF JobPlain
  <2>16. QED BY <2>11, <2>13, <2>15 DEF Loose
<1>5. CASE CasNext
  <2>1. sp.pc = "next" /\ next' = next + (IF sp.op = "split" THEN 2 ELSE 1) /\ sp' = [sp EXCEPT !.pc = "busy"]
        /\ UNCHANGED <<score, iv, bk, ranges, hot, rw, steps>>
    BY <1>5 DEF CasNext, Job, SStep
  <2>2. sp' \in JobT /\ sp'.pc = "busy" BY <1>0, <2>1 DEF JobT
  <2>3. next + 1 <= 2 * steps BY <1>0, <2>1 DEF JobPlain
  <2>4. next' \in Nat /\ next' <= 2 * steps + 1 BY <1>0, <2>1, <2>3
  <2>5. QED BY <1>0, <2>1, <2>2, <2>4, LooseDoc
<1>6. ASSUME NEW mode \in {"SPLITTING", "DRAINING", "MERGING", "MERGE_DRAIN"} PROVE Marked(mode, sp.new) \subseteq RangeT
  <2>1. PICK c \in Pairs : c = sp.new BY <1>0 DEF JobT
  <2>2. \A r \in ranges : [r EXCEPT !.st = mode, !.c = c] \in RangeT BY <1>0, <2>1 DEF RangeT
  <2>3. QED BY <1>0, <2>1, <2>2, Zenon DEF Marked
<1>7. CASE CasBusy
  <2>1. ranges' = Marked(Busy(sp.op), sp.new) /\ sp' = [sp EXCEPT !.pc = "page"] /\ UNCHANGED <<score, iv, bk, next, hot, rw, steps>>
    BY <1>7 DEF CasBusy, Job, SStep
  <2>2. sp' \in JobT /\ sp'.pc = "page" BY <1>0, <2>1 DEF JobT
  <2>3. ranges' \subseteq RangeT BY <1>6, <2>1 DEF Busy
  <2>4. QED BY <1>0, <2>1, <2>2, <2>3, LooseDoc
<1>8. CASE CasDrain
  <2>1. ranges' = Marked(Drain(sp.op), sp.new) /\ sp' = [sp EXCEPT !.todo = sp.old, !.drain = TRUE] /\ sp.pc = "page"
        /\ UNCHANGED <<score, iv, bk, next, hot, rw, steps>>
    BY <1>8 DEF CasDrain, Job, SStep
  <2>2. sp' \in JobT /\ sp'.pc = "page" BY <1>0, <2>1 DEF JobT
  <2>3. ranges' \subseteq RangeT BY <1>6, <2>1 DEF Drain
  <2>4. QED BY <1>0, <2>1, <2>2, <2>3, LooseDoc
<1>9. CASE CasFinal
  <2>1. ranges' = Replaced /\ sp' = (IF sp.op = "split" THEN [sp EXCEPT !.pc = "hot"] ELSE NoJob)
        /\ UNCHANGED <<score, iv, bk, next, hot, rw, steps>>
    BY <1>9 DEF CasFinal, Job, SStep
  <2>2. sp' \in JobT /\ sp'.pc \in {"hot", "idle"}
    <3>1. CASE sp.op = "split" BY <1>0, <2>1, <3>1 DEF JobT
    <3>2. CASE sp.op # "split" BY <2>1, <3>2 DEF NoJob, JobT, Pairs
    <3>3. QED BY <3>1, <3>2
  <2>3. Elems(sp.new) \subseteq RangeT
    <3>1. PICK c \in Pairs : c = sp.new BY <1>0 DEF JobT
    <3>2. Kids \subseteq RangeT BY DEF Kids, RangeT, Pairs
    <3>3. CASE c = <<>>
      <4>1. DOMAIN <<>> = {} OBVIOUS
      <4>2. QED BY <3>1, <3>3, <4>1 DEF Elems
    <3>4. CASE c \in Kids \X Kids
      <4>1. \A j \in DOMAIN c : c[j] \in Kids BY <3>4, KidParts
      <4>2. QED BY <3>1, <3>2, <4>1 DEF Elems
    <3>5. QED BY <3>3, <3>4 DEF Pairs
  <2>4. ranges' \subseteq RangeT BY <1>0, <2>1, <2>3 DEF Replaced
  <2>5. QED BY <1>0, <2>1, <2>2, <2>4, LooseDoc
<1>10. CASE RegisterHot \/ Crash
  <2>1. UNCHANGED <<score, iv, bk, ranges, next, rw, steps>> /\ hot' \in BOOLEAN /\ sp' = NoJob
    BY <1>0, <1>10 DEF RegisterHot, Crash, SStep, Job, rdoc
  <2>2. sp' \in JobT /\ sp'.pc = "idle" BY <2>1 DEF NoJob, JobT, Pairs
  <2>3. QED BY <1>0, <2>1, <2>2, LooseDoc
<1>11. CASE MigratePage
  <2>1. sp.pc = "page" /\ sp.todo # <<>> /\ UNCHANGED <<score, iv, bk, ranges, next, hot, rw, steps>>
    BY <1>11 DEF MigratePage, rdoc, SStep
  <2>2. PICK page : page = FirstOf(bk[Head(sp.todo)], MoveBatch) OBVIOUS
  <2>3. PICK live : live = {m \in page : score[m[2]] # 0} OBVIOUS
  <2>4. sp' = (IF page = {} THEN [sp EXCEPT !.todo = Tail(@)]
               ELSE [sp EXCEPT !.pc = "move", !.page = page, !.live = live])
    BY <1>11, <2>2, <2>3 DEF MigratePage, FirstOf, Job
  <2>5. PICK h \in RIdx : h = Head(sp.todo)
    <3>1. sp.todo \in Seq(RIdx) BY <1>0 DEF JobT
    <3>2. QED BY <2>1, <3>1
  <2>6. bk[h] \in SUBSET RMembers /\ IsFiniteSet(bk[h]) BY <1>0, LooseFinite
  <2>7. page \subseteq bk[h] BY <2>2, <2>5, <2>6, FirstFacts, RangeAssumption
  <2>8. CASE page = {}
    <3>1. PICK todo : todo = Tail(sp.todo) OBVIOUS
    <3>2. todo \in Seq(RIdx) BY <1>0, <2>1, <3>1 DEF JobT
    <3>3. sp' = [sp EXCEPT !.todo = todo] BY <2>4, <2>8, <3>1
    <3>4. sp' \in JobT /\ sp'.pc = "page" BY <1>0, <2>1, <3>2, <3>3 DEF JobT
    <3>5. QED BY <1>0, <2>1, <3>4, LooseDoc
  <2>9. CASE page # {}
    <3>1. page \in SUBSET RMembers /\ live \in SUBSET RMembers BY <2>3, <2>6, <2>7
    <3>2. sp' = [sp EXCEPT !.pc = "move", !.page = page, !.live = live] BY <2>4, <2>9
    <3>3. sp' \in JobT /\ sp'.pc = "move" /\ sp'.todo = sp.todo /\ sp'.live = live BY <1>0, <3>1, <3>2 DEF JobT
    <3>4. \A m \in live : m[3] <= rw + 1 BY <1>0, <2>3, <2>7 DEF Stamped
    <3>5. QED BY <1>0, <2>1, <3>3, <3>4 DEF Loose, IndexT, Stamped, JobPlain
  <2>10. QED BY <2>8, <2>9
<1>12. CASE MigrateBatch
  <2>1. sp.pc = "move" /\ UNCHANGED <<score, iv, ranges, next, hot, rw, steps>> BY <1>12 DEF MigrateBatch, rdoc, SStep
  <2>2. bk' = [i \in RIdx |-> (IF i = Head(sp.todo) THEN bk[i] \ sp.page ELSE bk[i]) \cup {m \in sp.live : Target(m[1]) = i}]
    BY <1>12 DEF MigrateBatch
  <2>3. PICK todo : todo = IF Cardinality(sp.page) < MoveBatch THEN Tail(sp.todo) ELSE sp.todo OBVIOUS
  <2>4. sp' = [sp EXCEPT !.pc = "page", !.page = {}, !.live = {}, !.todo = todo] BY <1>12, <2>3 DEF MigrateBatch, Job
  <2>5. sp.todo # <<>> /\ (\A m \in sp.live : m[3] <= rw + 1) /\ sp.live \subseteq RMembers BY <1>0, <2>1 DEF JobPlain, JobT
  <2>6. todo \in Seq(RIdx) BY <1>0, <2>3, <2>5 DEF JobT
  <2>7. sp' \in JobT /\ sp'.pc = "page" BY <1>0, <2>4, <2>6 DEF JobT
  <2>8. \A i \in RIdx : bk[i] \subseteq RMembers /\ bk'[i] \subseteq bk[i] \cup sp.live BY <1>0, <2>2 DEF IndexT
  <2>9. bk' \in [RIdx -> SUBSET RMembers]
    <3>1. \A i \in RIdx : bk'[i] \subseteq RMembers BY <2>5, <2>8
    <3>2. QED BY <2>2, <3>1
  <2>10. Stamped'
    <3>1. \A i \in RIdx : \A m \in bk'[i] : m[3] <= rw + 1 BY <1>0, <2>5, <2>8 DEF Stamped
    <3>2. QED BY <2>1, <3>1 DEF Stamped
  <2>11. QED BY <1>0, <2>1, <2>7, <2>9, <2>10 DEF Loose, IndexT, JobPlain
<1>13. CASE Unlink
  <2>1. sp.pc = "page" /\ sp' = [sp EXCEPT !.pc = "final"] /\ UNCHANGED <<score, iv, ranges, next, hot, rw, steps>>
        /\ bk' = [i \in RIdx |-> IF i \in Elems(sp.old) THEN {} ELSE bk[i]]
    BY <1>13 DEF Unlink, Job, rdoc, SStep
  <2>2. sp' \in JobT /\ sp'.pc = "final" BY <1>0, <2>1 DEF JobT
  <2>3. \A i \in RIdx : bk[i] \subseteq RMembers /\ bk'[i] \subseteq bk[i] BY <1>0, <2>1 DEF IndexT
  <2>4. bk' \in [RIdx -> SUBSET RMembers]
    <3>1. \A i \in RIdx : bk'[i] \subseteq RMembers BY <2>3
    <3>2. QED BY <2>1, <3>1
  <2>5. Stamped'
    <3>1. \A i \in RIdx : \A m \in bk'[i] : m[3] <= rw + 1 BY <1>0, <2>3 DEF Stamped
    <3>2. QED BY <2>1, <3>1 DEF Stamped
  <2>6. QED BY <1>0, <2>1, <2>2, <2>4, <2>5 DEF Loose, IndexT, JobPlain
<1>14. ASSUME NEW op \in {"split", "merge"}, NEW r \in ranges, Begin(op, r) PROVE Loose' BY <1>14, LooseBegin
<1>15. QED BY <1>2, <1>3, <1>4, <1>5, <1>7, <1>8, <1>9, <1>10, <1>11, <1>12, <1>13, <1>14 DEF RNext, Controller


(***************************************************************************)
(* The query.  Its invariants are stated of a stream s, since a step goes  *)
(* through two of them: popped, then refilled.                             *)
(***************************************************************************)
BoundT == [lo : Nat, loOpen : BOOLEAN, hi : Nat, hiOpen : BOOLEAN]
WaysT == UNION {[D -> WayT] : D \in SUBSET Places}
ScanT == [pc : {"idle", "route", "seed", "step", "fetch", "done"}, hot : BOOLEAN, rs : Seq(BoundT), desc : BOOLEAN,
          pred : SUBSET BoundT, ways : WaysT, heap : SUBSET (RMembers \X Places), cand : Seq(RMembers), seen : SUBSET RPks,
          out : Seq(RPks \X Scores), must : SUBSET RPks, moved : BOOLEAN, stale : BOOLEAN, wide : BOOLEAN, stray : BOOLEAN]

Reading == {"seed", "step", "fetch"}
InHeap(s, w) == {x \in s.heap : x[2] = w}
Counted(s) == \A w \in DOMAIN s.ways : s.ways[w].inHeap = Cardinality(InHeap(s, w))
Refilled(s) == \A w \in DOMAIN s.ways : s.ways[w].inHeap = 0 => s.ways[w].done
HeapShape(s) == \A x \in s.heap : x[1][3] <= rw + 1 /\ x[2] \in DOMAIN s.ways /\ Contains(Head(s.rs), x[1][1])
CandShape(s) == \A i \in DOMAIN s.cand : Contains(Head(s.rs), s.cand[i][1])

\* Heap and candidates are of the interval that is read; a way that has nothing in the
\* heap is exhausted.
ScanShape ==
    /\ sc \in ScanT
    /\ sc.pc \in Reading => sc.rs # <<>>
    /\ sc.pc = "done" => sc.rs = <<>>
    /\ sc.pc # "fetch" => sc.cand = <<>>
    /\ sc.pc \notin {"step", "fetch"} => sc.heap = {}
    /\ sc.pc \notin Reading => sc.ways = <<>>
    /\ sc.pc = "seed" => \A w \in DOMAIN sc.ways : sc.ways[w].cursor = 0 /\ sc.ways[w].inHeap = 0 /\ ~sc.ways[w].done
    /\ HeapShape(sc) /\ CandShape(sc) /\ Len(sc.cand) <= ExecBatch
    /\ sc.pc \in {"step", "fetch"} => Counted(sc) /\ Refilled(sc)

OutOnce == ScanOnce /\ \A i \in DOMAIN sc.out : sc.out[i][1] \in sc.seen

\* A row that came up: delivered or dropped, a candidate, or in the heap.
InCand(s, k) == \E i \in DOMAIN s.cand : s.cand[i][2] = k
CameUp(s, k) == k \in s.seen \/ (\E x \in s.heap : x[1][2] = k) \/ InCand(s, k)
Within(b, r) == {m \in bk[b] : Contains(r, m[1])}
InBucket(s, b) == Within(b, Head(s.rs))
Passed(s, w, m) == s.ways[w].done \/ RankIn(InBucket(s, w[1]), s.desc, m) < s.ways[w].cursor

\* While no member leaves its bucket: what lies behind a cursor came up.
Behind(s) == \A w \in DOMAIN s.ways : \A m \in InBucket(s, w[1]) : (m[2] \in s.must /\ Passed(s, w, m)) => CameUp(s, m[2])
ReadSoFar == (~sc.moved /\ sc.pc \in Reading) => Behind(sc)

RestRs == IF sc.pc \in Reading THEN Tail(sc.rs) ELSE sc.rs
Later(k) == \E i \in DOMAIN RestRs : Contains(RestRs[i], score[k])
Current(k) == sc.pc \in Reading /\ Contains(Head(sc.rs), score[k]) /\ \E w \in DOMAIN sc.ways : MemberOf(k) \in bk[w[1]]

\* A row that satisfies the predicate was delivered, or is in the interval that is read, or
\* in a later one.
Wants(k) == score[k] # 0 /\ \E r \in sc.pred : Contains(r, score[k])
Given(k) == k \in sc.seen => \E i \in DOMAIN sc.out : sc.out[i][1] = k
Somewhere(k) == k \in sc.seen \/ Later(k) \/ Current(k)
Expected == (~sc.moved /\ ~sc.stale /\ sc.pc # "idle") => \A k \in sc.must : Wants(k) /\ Given(k) /\ Somewhere(k)

NotAfter(desc, a, b) == IF desc THEN b <= a ELSE a <= b
AllBefore(desc, A, B) == \A a \in A, b \in B : NotAfter(desc, a, b)
Awaited(s, k) == k \in s.must /\ k \notin s.seen

\* Of the rows that satisfy the predicate all along, the scores of those that were delivered;
\* of the candidates; of the heap; of what no cursor has reached.
GivenOut(s) == {a \in Scores : \E i \in DOMAIN s.out : s.out[i][1] \in s.must /\ s.out[i][2] = a}
Popping(s) == {a \in Scores : \E i \in DOMAIN s.cand : Awaited(s, s.cand[i][2]) /\ s.cand[i][1] = a}
Heaped(s) == {a \in Scores : \E x \in s.heap : Awaited(s, x[1][2]) /\ ~InCand(s, x[1][2]) /\ x[1][1] = a}
NotRead(s) == {a \in Scores : \E w \in DOMAIN s.ways : \E m \in InBucket(s, w[1]) : m[2] \in s.must /\ ~CameUp(s, m[2]) /\ m[1] = a}
InRest == {a \in Scores : \E i \in DOMAIN RestRs : Contains(RestRs[i], a)}

\* With one way: delivered, candidates, heap, not yet read, later intervals.
Undisturbed == ~sc.wide /\ ~sc.moved /\ ~sc.stray
Queue(s) ==
    /\ AllBefore(s.desc, GivenOut(s), Popping(s))
    /\ AllBefore(s.desc, GivenOut(s) \cup Popping(s), Heaped(s))
    /\ AllBefore(s.desc, GivenOut(s) \cup Popping(s) \cup Heaped(s), NotRead(s))
    /\ \A i, j \in DOMAIN s.cand : i < j => NotAfter(s.desc, s.cand[i][1], s.cand[j][1])
OneWay(s) == \A w, v \in DOMAIN s.ways : w = v
InTurn ==
    Undisturbed => /\ InOrder /\ AllBefore(sc.desc, GivenOut(sc), InRest)
                   /\ OneWay(sc) /\ (sc.pc \in Reading => Queue(sc))


(***************************************************************************)
(* Pages, pipelines, candidates.                                           *)
(***************************************************************************)
\* p is the page of the members S, count of them at offset off.
IsPage(S, desc, off, count, p) ==
    /\ p \in Seq(S) /\ Len(p) \in Nat /\ DOMAIN p = 1 .. Len(p) /\ Len(p) <= count
    /\ \A i \in DOMAIN p : p[i] \in S /\ RankIn(S, desc, p[i]) = off + i - 1
    /\ \A i, j \in DOMAIN p : p[i] = p[j] => i = j
    /\ \A m \in S : /\ RankIn(S, desc, m) \in Nat
                    /\ RankIn(S, desc, m) < off \/ RankIn(S, desc, m) >= off + Len(p) \/ \E i \in DOMAIN p : p[i] = m
    /\ Len(p) < count => \A m \in S : RankIn(S, desc, m) < off \/ \E i \in DOMAIN p : p[i] = m

LEMMA PageFacts ==
    ASSUME IndexT, Stamped, NEW b \in RIdx, NEW r, NEW desc \in BOOLEAN, NEW off \in Nat, NEW count \in Nat
    PROVE  IsPage(Within(b, r), desc, off, count, PageCmd(b, r, desc, off, count))
<1>0. PICK S, p : S = Within(b, r) /\ p = PageCmd(b, r, desc, off, count) OBVIOUS
<1>1. bk[b] \in SUBSET RMembers /\ IsFiniteSet(bk[b]) BY LooseFinite
<1>2. S \in SUBSET RMembers /\ S \in SUBSET bk[b] BY <1>0, <1>1 DEF Within
<1>3. IsFiniteSet(S) BY <1>1, <1>2, FS_Subset
<1>4. PICK q : q = Sorted(S, desc) OBVIOUS
<1>5. InRank(S, desc, q) BY <1>2, <1>3, <1>4, SortedFacts
<1>6. PICK c : c = Cardinality(S) OBVIOUS
<1>7. /\ c \in Nat /\ Len(q) = c
      /\ \A n \in 1 .. c : q[n] \in S /\ RankIn(S, desc, q[n]) = n - 1
      /\ \A m \in S : RankIn(S, desc, m) \in 0 .. c - 1 /\ q[RankIn(S, desc, m) + 1] = m
  BY <1>5, <1>6 DEF InRank
<1>8. PICK e : e = Bound(c, off + count) OBVIOUS
<1>9. e \in Nat /\ e <= c /\ e <= off + count /\ (e = c \/ e = off + count) BY <1>7, <1>8 DEF Bound
<1>10. p = SubSeq(q, off + 1, e) BY <1>0, <1>4, <1>7, <1>8 DEF PageCmd, Within
<1>11. \A i \in off + 1 .. e : i \in 1 .. c BY <1>7, <1>9
<1>12. \A i \in off + 1 .. e : q[i] \in S BY <1>7, <1>11
<1>13. off + 1 \in Int /\ e \in Int BY <1>9
<1>14. /\ p \in Seq(S)
       /\ Len(p) = IF off + 1 <= e THEN e - (off + 1) + 1 ELSE 0
       /\ \A i \in 1 .. e - (off + 1) + 1 : p[i] = q[off + 1 + i - 1]
  BY <1>10, <1>12, <1>13, SubSeqProperties
<1>15. Len(p) = (IF off < e THEN e - off ELSE 0) /\ Len(p) \in Nat /\ DOMAIN p = 1 .. Len(p) BY <1>9, <1>14
<1>16. \A i \in DOMAIN p : i \in 1 .. e - off /\ i \in Nat /\ off + i \in 1 .. c
  <2> TAKE i \in DOMAIN p
  <2>1. i \in 1 .. Len(p) /\ i \in Nat /\ off < e BY <1>9, <1>15
  <2>2. QED BY <1>7, <1>9, <1>15, <2>1, SMTT(30)
<1>17. ASSUME NEW i \in DOMAIN p PROVE p[i] = q[off + i]
  <2>1. i \in 1 .. e - (off + 1) + 1 /\ off + 1 + i - 1 = off + i BY <1>9, <1>16
  <2>2. QED BY <1>14, <2>1
<1>18. \A i \in DOMAIN p : p[i] \in S /\ RankIn(S, desc, p[i]) = off + i - 1 BY <1>7, <1>16, <1>17
<1>19. \A i, j \in DOMAIN p : p[i] = p[j] => i = j
  <2> TAKE i, j \in DOMAIN p
  <2>1. i \in Nat /\ j \in Nat BY <1>16
  <2>2. p[i] = p[j] => off + i - 1 = off + j - 1 BY <1>18
  <2>3. QED BY <2>1, <2>2
<1>20. ASSUME NEW m \in S
       PROVE  /\ RankIn(S, desc, m) \in Nat /\ RankIn(S, desc, m) < c
              /\ (off <= RankIn(S, desc, m) /\ RankIn(S, desc, m) < e) => \E i \in DOMAIN p : p[i] = m
  <2>1. PICK n : n = RankIn(S, desc, m) OBVIOUS
  <2>2. n \in 0 .. c - 1 /\ q[n + 1] = m BY <1>7, <2>1
  <2>3. n \in Nat /\ n < c BY <1>7, <2>2
  <2>4. ASSUME off <= n, n < e PROVE \E i \in DOMAIN p : p[i] = m
    <3>1. PICK i : i = n + 1 - off OBVIOUS
    <3>2. i \in DOMAIN p /\ off + i = n + 1 BY <1>9, <1>15, <2>3, <2>4, <3>1
    <3>3. QED BY <1>17, <2>2, <3>2
  <2>5. QED BY <2>1, <2>3, <2>4
<1>21. ASSUME NEW m \in S
       PROVE  RankIn(S, desc, m) < off \/ RankIn(S, desc, m) >= off + Len(p) \/ \E i \in DOMAIN p : p[i] = m
  BY <1>9, <1>15, <1>20
<1>22. ASSUME Len(p) < count, NEW m \in S PROVE RankIn(S, desc, m) < off \/ \E i \in DOMAIN p : p[i] = m
  <2>1. e = c BY <1>9, <1>15, <1>22
  <2>2. QED BY <1>20, <2>1
<1>23. Len(p) <= count BY <1>9, <1>15
<1>24. IsPage(S, desc, off, count, p) BY <1>14, <1>15, <1>18, <1>19, <1>20, <1>21, <1>22, <1>23 DEF IsPage
<1>25. QED BY <1>0, <1>24, Zenon

LEMMA KthOrder ==
    ASSUME NEW S \in SUBSET Nat, IsFiniteSet(S)
    PROVE  /\ Cardinality(S) \in Nat
           /\ \A n \in 1 .. Cardinality(S) : Kth(S, n) \in S
           /\ \A a \in S : \E n \in 1 .. Cardinality(S) : Kth(S, n) = a
           /\ \A n, h \in 1 .. Cardinality(S) : n < h => Kth(S, n) < Kth(S, h)
<1> DEFINE R == {x \in Nat \X Nat : x[1] < x[2]}
           Low(a) == {h \in S : h < a}
<1>0. PICK c : c = Cardinality(S) OBVIOUS
<1>1. \A a \in S : a \in Nat OBVIOUS
<1>2. \A a, b \in S : <<a, b>> \in R <=> a < b BY <1>1
<1>3. /\ \A a \in S : <<a, a>> \notin R
      /\ \A a, b \in S : a = b \/ <<a, b>> \in R \/ <<b, a>> \in R
      /\ \A a, b, d \in S : (<<a, b>> \in R /\ <<b, d>> \in R) => <<a, d>> \in R
  BY <1>1, <1>2
<1>4. \A a \in S : Under(R, S, a) = Cardinality(Low(a)) BY <1>2 DEF Under
<1> HIDE DEF R
<1>5. TotalOn(R, S) BY <1>3 DEF TotalOn
<1>6. HasRanks(R, S) BY <1>5, Ranked, Zenon
<1>7. /\ c \in Nat
      /\ \A a \in S : Cardinality(Low(a)) \in 0 .. c - 1
      /\ \A a, b \in S : Cardinality(Low(a)) = Cardinality(Low(b)) => a = b
      /\ \A n \in 0 .. c - 1 : \E a \in S : Cardinality(Low(a)) = n
  BY <1>0, <1>4, <1>6 DEF HasRanks
<1>8. ASSUME NEW a \in S, NEW b \in S, Cardinality(Low(a)) < Cardinality(Low(b)) PROVE a < b
  <2>1. CASE b <= a
    <3>1. Low(b) \in SUBSET Low(a)
      <4>1. \A h \in S : h < b => h < a BY <1>1, <2>1
      <4>2. QED BY <4>1
    <3>2. IsFiniteSet(Low(a)) BY FS_Subset
    <3>3. Cardinality(Low(b)) <= Cardinality(Low(a)) BY <3>1, <3>2, FS_Subset
    <3>4. Cardinality(Low(a)) \in Nat /\ Cardinality(Low(b)) \in Nat BY <1>7
    <3>5. QED BY <1>8, <3>3, <3>4
  <2>2. QED BY <1>1, <2>1
<1> HIDE DEF Low
<1>9. ASSUME NEW n \in 1 .. c PROVE Kth(S, n) \in S /\ Cardinality(Low(Kth(S, n))) = n - 1
  <2>1. n - 1 \in 0 .. c - 1 BY <1>7
  <2>2. \E a \in S : Cardinality(Low(a)) = n - 1 BY <1>7, <2>1
  <2>3. Kth(S, n) = CHOOSE a \in S : Cardinality(Low(a)) = n - 1 BY DEF Kth, Low
  <2>4. QED BY <2>2, <2>3
<1>10. ASSUME NEW a \in S PROVE \E n \in 1 .. c : Kth(S, n) = a
  <2>1. PICK n : n = Cardinality(Low(a)) + 1 OBVIOUS
  <2>2. n \in 1 .. c /\ n - 1 = Cardinality(Low(a)) BY <1>7, <2>1
  <2>3. Kth(S, n) = a BY <1>7, <1>9, <2>2
  <2>4. QED BY <2>2, <2>3
<1>11. ASSUME NEW n \in 1 .. c, NEW h \in 1 .. c, n < h PROVE Kth(S, n) < Kth(S, h)
  <2>1. n - 1 < h - 1 BY <1>7, <1>11
  <2>2. QED BY <1>8, <1>9, <2>1
<1>12. QED BY <1>0, <1>7, <1>9, <1>10, <1>11

\* The elements at the places of S, in order.
LEMMA AtFacts ==
    ASSUME NEW T, NEW q \in Seq(T), NEW S \in SUBSET DOMAIN q, NEW a, a = At(q, S)
    PROVE  /\ a \in Seq(T) /\ DOMAIN a = 1 .. Len(a) /\ Len(a) \in Nat
           /\ \A n \in DOMAIN a : Kth(S, n) \in S /\ a[n] = q[Kth(S, n)]
           /\ \A n, h \in DOMAIN a : n < h => Kth(S, n) < Kth(S, h)
           /\ \A i \in S : \E n \in DOMAIN a : a[n] = q[i]
<1>1. DOMAIN q = 1 .. Len(q) /\ Len(q) \in Nat OBVIOUS
<1>2. S \in SUBSET Nat /\ S \in SUBSET (1 .. Len(q)) BY <1>1
<1>3. IsFiniteSet(1 .. Len(q)) BY <1>1, FS_Interval
<1>4. IsFiniteSet(S) BY <1>2, <1>3, FS_Subset
<1>5. PICK c : c = Cardinality(S) OBVIOUS
<1>6. /\ c \in Nat
      /\ \A n \in 1 .. c : Kth(S, n) \in S
      /\ \A i \in S : \E n \in 1 .. c : Kth(S, n) = i
      /\ \A n, h \in 1 .. c : n < h => Kth(S, n) < Kth(S, h)
  BY <1>2, <1>4, <1>5, KthOrder
<1>7. a = [n \in 1 .. c |-> q[Kth(S, n)]] BY <1>5 DEF At, Kth
<1>8. \A n \in 1 .. c : q[Kth(S, n)] \in T BY <1>6
<1>9. a \in Seq(T) /\ DOMAIN a = 1 .. c /\ Len(a) = c BY <1>6, <1>7, <1>8
<1>10. \A n \in 1 .. c : a[n] = q[Kth(S, n)] BY <1>7
<1>11. ASSUME NEW i \in S PROVE \E n \in DOMAIN a : a[n] = q[i]
  <2>1. PICK n \in 1 .. c : Kth(S, n) = i BY <1>6
  <2>2. QED BY <1>9, <1>10, <2>1
<1>12. QED BY <1>6, <1>9, <1>10, <1>11

LEMMA PlacesFinite == IsFiniteSet(Places)
<1>1. IsFiniteSet(RIdx)
  <2>1. 0 \in Int /\ 2 * MaxSteps \in Int BY RIdxNat
  <2>2. QED BY <2>1, FS_Interval DEF RIdx
<1>2. IsFiniteSet(0 .. 2)
  <2>1. 0 \in Int /\ 2 \in Int OBVIOUS
  <2>2. QED BY <2>1, FS_Interval
<1> DEFINE T == RIdx \X (0 .. 2)
           U == RIdx \X T
           f == [m \in Places |-> <<m[1], <<m[2], m[3]>>>>]
<1>3. IsFiniteSet(T) BY <1>1, <1>2, FS_Product
<1>4. IsFiniteSet(U) BY <1>1, <1>3, FS_Product
<1>5. \A m \in Places : m[1] \in RIdx /\ m[2] \in RIdx /\ m[3] \in 0 .. 2 /\ m = <<m[1], m[2], m[3]>> BY DEF Places
<1>6. f \in [Places -> U] BY <1>5
<1>7. \A a, b \in Places : f[a] = f[b] => a = b
  <2> TAKE a, b \in Places
  <2>1. a = <<a[1], a[2], a[3]>> /\ b = <<b[1], b[2], b[3]>> BY <1>5
  <2>2. f[a] = <<a[1], <<a[2], a[3]>>>> /\ f[b] = <<b[1], <<b[2], b[3]>>>> OBVIOUS
  <2> HIDE DEF f
  <2>3. f[a] = f[b] => (a[1] = b[1] /\ a[2] = b[2] /\ a[3] = b[3]) BY <2>2
  <2>4. QED BY <2>1, <2>3
<1> HIDE DEF f, U
<1>8. f \in Injection(Places, U) BY <1>6, <1>7 DEF Injection, IsInjective
<1>9. QED BY <1>4, <1>8, FS_Injection

LEMMA HeapFinite ==
    ASSUME NEW H \in SUBSET (RMembers \X Places), NEW n \in Nat, \A x \in H : x[1][3] <= n
    PROVE  IsFiniteSet(H)
<1> DEFINE M == {m \in RMembers : m[3] <= n}
<1>1. IsFiniteSet(M) BY BucketsFinite
<1>2. IsFiniteSet(M \X Places) BY <1>1, PlacesFinite, FS_Product
<1>3. H \in SUBSET (M \X Places)
  <2>1. ASSUME NEW x \in H PROVE x \in M \X Places
    <3>1. PICK m \in RMembers, w \in Places : x = <<m, w>> OBVIOUS
    <3>2. x[1] = m BY <3>1
    <3>3. m \in M BY <3>2
    <3>4. QED BY <3>1, <3>3
  <2>2. QED BY <2>1
<1>4. QED BY <1>2, <1>3, FS_Subset

LEMMA WithoutCard ==
    ASSUME NEW A, IsFiniteSet(A), NEW B \in SUBSET A
    PROVE  Cardinality(A \ B) = Cardinality(A) - Cardinality(B)
<1>1. IsFiniteSet(B) /\ IsFiniteSet(A \ B) BY FS_Subset
<1>2. (A \ B) \cup B = A /\ (A \ B) \cap B = {} OBVIOUS
<1>3. Cardinality(A) = Cardinality(A \ B) + Cardinality(B) - Cardinality({}) BY <1>1, <1>2, FS_Union
<1>4. Cardinality(A) \in Nat /\ Cardinality(B) \in Nat /\ Cardinality(A \ B) \in Nat BY <1>1, FS_CardinalityType
<1>5. QED BY <1>3, <1>4, FS_EmptySet

\* Different elements: as many as places.
LEMMA ImageCard ==
    ASSUME NEW D, IsFiniteSet(D), NEW g, DOMAIN g = D, \A i, j \in D : g[i] = g[j] => i = j
    PROVE  Cardinality({g[i] : i \in D}) = Cardinality(D) /\ IsFiniteSet({g[i] : i \in D})
<1> DEFINE I == {g[i] : i \in D}
           f == [i \in D |-> g[i]]
<1>1. f \in [D -> I] OBVIOUS
<1>2. \A i, j \in D : f[i] = f[j] => i = j OBVIOUS
<1>3. \A y \in I : \E i \in D : f[i] = y OBVIOUS
<1> HIDE DEF f, I
<1>4. f \in Bijection(D, I) BY <1>1, <1>2, <1>3 DEF Bijection, Injection, Surjection, IsInjective
<1>5. IsFiniteSet(I) /\ Cardinality(I) = Cardinality(D) BY <1>4, FS_Bijection DEF ExistsBijection
<1>6. QED BY <1>5 DEF I


(***************************************************************************)
(* The intervals of a request.                                             *)
(***************************************************************************)
Earlier(desc, a, b) == IF desc THEN a.hi > b.hi ELSE a.lo < b.lo

\* sortRangeBounds permutes, and what comes later does not belong before.
Permuted(q, desc, t) ==
    /\ t \in Seq(BoundT) /\ DOMAIN t = DOMAIN q
    /\ \A i \in DOMAIN q : \E n \in DOMAIN t : t[n] = q[i]
    /\ \A n \in DOMAIN t : \E i \in DOMAIN q : t[n] = q[i]
    /\ \A n, h \in DOMAIN t : n < h => \E i, j \in DOMAIN q : i # j /\ t[n] = q[i] /\ t[h] = q[j] /\ ~Earlier(desc, q[j], q[i])

LEMMA SortedBounds ==
    ASSUME NEW q \in Seq(BoundT), NEW desc \in BOOLEAN
    PROVE  Permuted(q, desc, SortRangeBounds(q, desc))
<1> DEFINE key(i) == IF desc THEN q[i].hi ELSE q[i].lo
           Rel(i, j) == Earlier(desc, q[i], q[j]) \/ (~Earlier(desc, q[j], q[i]) /\ i < j)
           R == {x \in Nat \X Nat : Rel(x[1], x[2])}
           D == DOMAIN q
<1>1. D = 1 .. Len(q) /\ Len(q) \in Nat OBVIOUS
<1>2. \A i \in D : i \in Nat /\ q[i].lo \in Nat /\ q[i].hi \in Nat
  <2>1. \A i \in D : i \in Nat /\ q[i] \in BoundT BY <1>1
  <2>2. \A b \in BoundT : b.lo \in Nat /\ b.hi \in Nat BY DEF BoundT
  <2>3. QED BY <2>1, <2>2
<1>3. IsFiniteSet(D) /\ Cardinality(D) = Len(q)
  <2>1. 1 \in Int /\ Len(q) \in Int BY <1>1
  <2>2. IsFiniteSet(1 .. Len(q)) /\ Cardinality(1 .. Len(q)) = IF 1 > Len(q) THEN 0 ELSE Len(q) - 1 + 1 BY <2>1, FS_Interval
  <2>3. QED BY <1>1, <2>2
<1>4. \A i, j \in D : <<i, j>> \in R <=> Rel(i, j) BY <1>2
<1>5. TotalOn(R, D)
  <2>1. \A a \in D : ~Rel(a, a) BY <1>2 DEF Earlier
  <2>2. \A a, b \in D : a = b \/ Rel(a, b) \/ Rel(b, a) BY <1>2 DEF Earlier
  <2>3. \A a, b, c \in D : (Rel(a, b) /\ Rel(b, c)) => Rel(a, c)
    <3>1. CASE desc BY <1>2, <3>1 DEF Earlier
    <3>2. CASE ~desc BY <1>2, <3>2 DEF Earlier
    <3>3. QED BY <3>1, <3>2
  <2> HIDE DEF R, Rel
  <2>4. QED BY <1>4, <2>1, <2>2, <2>3 DEF TotalOn
<1> DEFINE rank(i) == Cardinality({j \in D : Rel(j, i)})
           at(n) == CHOOSE i \in D : rank(i) = n - 1
<1>6. \A i \in D : Under(R, D, i) = rank(i) BY <1>4 DEF Under
<1>7. SortRangeBounds(q, desc) = [n \in D |-> q[at(n)]] BY DEF SortRangeBounds, Earlier
<1> HIDE DEF R
<1>8. HasRanks(R, D) BY <1>3, <1>5, Ranked, Zenon
<1>9. /\ \A i \in D : rank(i) \in 0 .. Len(q) - 1
      /\ \A i, j \in D : rank(i) = rank(j) => i = j
      /\ \A n \in 0 .. Len(q) - 1 : \E i \in D : rank(i) = n
  <2> HIDE DEF rank, Rel
  <2>1. /\ \A i \in D : Under(R, D, i) \in 0 .. Len(q) - 1
        /\ \A i, j \in D : Under(R, D, i) = Under(R, D, j) => i = j
        /\ \A n \in 0 .. Len(q) - 1 : \E i \in D : Under(R, D, i) = n
    BY <1>3, <1>8 DEF HasRanks
  <2>2. QED BY <1>6, <2>1
<1>10. ASSUME NEW i \in D, NEW j \in D, Rel(j, i) PROVE rank(j) < rank(i)
  <2> DEFINE A == {h \in D : Rel(h, j)}
             B == {h \in D : Rel(h, i)}
  <2>1. A \subseteq B
    <3>1. \A a, b, c \in D : (Rel(a, b) /\ Rel(b, c)) => Rel(a, c) BY <1>4, <1>5 DEF TotalOn
    <3> HIDE DEF Rel
    <3>2. QED BY <1>10, <3>1
  <2>2. j \in B /\ j \notin A
    <3>1. ~Rel(j, j) BY <1>4, <1>5 DEF TotalOn
    <3> HIDE DEF Rel
    <3>2. QED BY <1>10, <3>1
  <2>3. IsFiniteSet(B) /\ IsFiniteSet(A) BY <1>3, FS_Subset
  <2>4. rank(j) = Cardinality(A) /\ rank(i) = Cardinality(B) OBVIOUS
  <2> HIDE DEF A, B, rank
  <2>5. A # B BY <2>2
  <2>6. Cardinality(A) \in Nat /\ Cardinality(B) \in Nat BY <2>3, FS_CardinalityType
  <2>7. Cardinality(A) <= Cardinality(B) /\ Cardinality(A) # Cardinality(B) BY <2>1, <2>3, <2>5, FS_Subset
  <2>8. QED BY <2>4, <2>6, <2>7
<1> HIDE DEF rank
<1>11. ASSUME NEW n \in D PROVE at(n) \in D /\ rank(at(n)) = n - 1
  <2>1. n - 1 \in 0 .. Len(q) - 1 BY <1>1
  <2>2. \E i \in D : rank(i) = n - 1 BY <1>9, <2>1
  <2>3. QED BY <2>2
<1> HIDE DEF at
<1>12. ASSUME NEW i \in D PROVE \E n \in D : at(n) = i
  <2>1. PICK n : n = rank(i) + 1 OBVIOUS
  <2>2. n \in D /\ n - 1 = rank(i) BY <1>1, <1>9, <2>1
  <2>3. at(n) = i BY <1>9, <1>11, <2>2
  <2>4. QED BY <2>2, <2>3
<1>13. ASSUME NEW n \in D, NEW h \in D, n < h PROVE at(n) # at(h) /\ ~Earlier(desc, q[at(h)], q[at(n)])
  <2>1. n \in Nat /\ h \in Nat BY <1>2
  <2>2. rank(at(n)) < rank(at(h)) /\ at(n) \in D /\ at(h) \in D /\ rank(at(n)) \in Nat /\ rank(at(h)) \in Nat
    <3>1. \A x \in 0 .. Len(q) - 1 : x \in Nat BY <1>1
    <3>2. QED BY <1>9, <1>11, <1>13, <2>1, <3>1
  <2>3. ~Rel(at(h), at(n)) BY <1>10, <2>2
  <2>4. QED BY <2>2, <2>3
<1> DEFINE t == [n \in D |-> q[at(n)]]
<1>14. \A n \in D : q[at(n)] \in BoundT BY <1>11
<1>15. t \in Seq(BoundT) /\ DOMAIN t = D /\ \A n \in D : t[n] = q[at(n)] BY <1>1, <1>14
<1> HIDE DEF t, Rel
<1>16. \A i \in D : \E n \in DOMAIN t : t[n] = q[i] BY <1>12, <1>15
<1>17. \A n \in DOMAIN t : \E i \in D : t[n] = q[i] BY <1>11, <1>15
<1>18. ASSUME NEW n \in DOMAIN t, NEW h \in DOMAIN t, n < h
       PROVE  \E i, j \in D : i # j /\ t[n] = q[i] /\ t[h] = q[j] /\ ~Earlier(desc, q[j], q[i])
  BY <1>11, <1>13, <1>15, <1>18
<1>19. Permuted(q, desc, t) BY <1>15, <1>16, <1>17, <1>18 DEF Permuted
<1>20. QED BY <1>7, <1>19 DEF t

\* rangeBound keeps the meaning of the cuts.
LEMMA RangeBoundFacts ==
    ASSUME NEW r \in Valued("num")
    PROVE  /\ RangeBound(r) \in BoundT /\ CutAt(r.lower) \in Nat /\ CutAt(r.upper) \in Nat
           /\ CutAt(r.lower) <= RangeBound(r).lo + 1 /\ RangeBound(r).hi <= CutAt(r.upper)
           /\ \A s \in Scores : /\ InRange("num", r, s) <=> Contains(RangeBound(r), s)
                                /\ Contains(RangeBound(r), s) => CutAt(r.lower) <= s /\ s < CutAt(r.upper)
                                                                 /\ RangeBound(r).lo <= s /\ s <= RangeBound(r).hi
<1>1. Inf \in Nat /\ \A s \in Scores : s \in Nat /\ s # 0 /\ s < Inf BY InfFacts
<1>2. PICK lw \in LowerCuts("num"), up \in UpperCuts("num") : r = [lower |-> lw, upper |-> up] BY DEF Valued, Ranges
<1>3. r.lower = lw /\ r.upper = up BY <1>2
<1>4. /\ lw.at \in {"below", "above", "belowNull", "aboveNull"} /\ (lw.at \in {"below", "above"} => lw.k \in Scores)
  BY DEF LowerCuts, Cuts, Keyless, Column
<1>5. /\ up.at \in {"below", "above", "aboveAll"} /\ (up.at \in {"below", "above"} => up.k \in Scores)
  <2>1. up.at # "aboveNull" BY <1>3 DEF Valued
  <2>2. QED BY <2>1 DEF UpperCuts, Cuts, Keyless, Column
<1>6. PICK lo, loOpen, hi, hiOpen :
          /\ lo = (IF HasKey(lw) THEN lw.k ELSE 0) /\ loOpen = (lw.at = "above")
          /\ hi = (IF HasKey(up) THEN up.k ELSE Inf) /\ hiOpen = (up.at = "below")
  OBVIOUS
<1>7. RangeBound(r) = [lo |-> lo, loOpen |-> loOpen, hi |-> hi, hiOpen |-> hiOpen] BY <1>3, <1>6 DEF RangeBound
<1>8. lo \in Nat /\ hi \in Nat BY <1>1, <1>4, <1>5, <1>6 DEF HasKey
<1>9. loOpen \in BOOLEAN /\ hiOpen \in BOOLEAN BY <1>6
<1>10. RangeBound(r) \in BoundT BY <1>7, <1>8, <1>9 DEF BoundT
<1>11. /\ RangeBound(r).lo = lo /\ RangeBound(r).hi = hi /\ (RangeBound(r).loOpen <=> lw.at = "above")
       /\ (RangeBound(r).hiOpen <=> up.at = "below")
  <2>1. RangeBound(r).lo = lo /\ RangeBound(r).hi = hi /\ RangeBound(r).loOpen = loOpen /\ RangeBound(r).hiOpen = hiOpen BY <1>7
  <2>2. (loOpen <=> lw.at = "above") /\ (hiOpen <=> up.at = "below") BY <1>6
  <2>3. QED BY <2>1, <2>2
<1>12. CutAt(lw) \in Nat /\ CutAt(up) \in Nat /\ CutAt(lw) <= lo + 1 /\ hi <= CutAt(up)
  BY <1>1, <1>4, <1>5, <1>6, <1>8 DEF HasKey, CutAt
<1>13. ASSUME NEW s \in Scores
       PROVE  /\ InRange("num", r, s) <=> Contains(RangeBound(r), s)
              /\ Contains(RangeBound(r), s) => CutAt(lw) <= s /\ s < CutAt(up) /\ lo <= s /\ s <= hi
  <2>1. s \in Nat /\ s # 0 /\ s < Inf /\ s # Null BY <1>1, LookupAssumption
  <2>2. AfterLower("num", lw, s) <=> IF lw.at = "above" THEN s > lo ELSE s >= lo
    BY <1>1, <1>4, <1>6, <2>1 DEF HasKey, AfterLower, Less
  <2>3. BeforeUpper("num", up, s) <=> IF up.at = "below" THEN s < hi ELSE s <= hi
    BY <1>1, <1>5, <1>6, <2>1 DEF HasKey, BeforeUpper, Less
  <2>4. Contains(RangeBound(r), s) <=> (IF lw.at = "above" THEN s > lo ELSE s >= lo) /\ (IF up.at = "below" THEN s < hi ELSE s <= hi)
    BY <1>11 DEF Contains
  <2>5. InRange("num", r, s) <=> AfterLower("num", lw, s) /\ BeforeUpper("num", up, s) BY <1>3 DEF InRange
  <2>6. ((IF lw.at = "above" THEN s > lo ELSE s >= lo) /\ (IF up.at = "below" THEN s < hi ELSE s <= hi))
        => CutAt(lw) <= s /\ s < CutAt(up) /\ lo <= s /\ s <= hi
    BY <1>1, <1>4, <1>5, <1>6, <1>8, <2>1 DEF HasKey, CutAt
  <2>7. QED BY <2>2, <2>3, <2>4, <2>5, <2>6
<1>14. QED BY <1>3, <1>10, <1>11, <1>12, <1>13

InSequence(q, desc) ==
    \A i, j \in DOMAIN q : \A a, b \in Scores : (i < j /\ Contains(q[i], a) /\ Contains(q[j], b)) => Precedes("num", a, b, desc)

\* The request of a range index asks for what the statement asks for, in order.
LEMMA RequestFacts ==
    ASSUME NEW q \in Seq(Valued("num")), NEW desc \in BOOLEAN, NEW req, req = TranslateLookup("range", "num", q, desc)
    PROVE  /\ req.of \in Seq(BoundT) /\ req.pred.of = req.of
           /\ \A s \in Scores : Wanted("num", q, s) <=> \E i \in DOMAIN req.of : Contains(req.of[i], s)
           /\ Apart(q) => InSequence(req.of, desc)
<1>1. DOMAIN q = 1 .. Len(q) /\ Len(q) \in Nat /\ \A i \in DOMAIN q : q[i] \in Valued("num") OBVIOUS
<1>2. PICK u : u = [i \in DOMAIN q |-> RangeBound(q[i])] OBVIOUS
<1>3. PICK t : t = SortRangeBounds(u, desc) OBVIOUS
<1>4. req = [kind |-> "range", of |-> t, pred |-> [by |-> "ranges", of |-> t]] BY <1>2, <1>3 DEF TranslateLookup
<1>5. req.of = t /\ req.pred.of = t BY <1>4
<1>6. \A i \in DOMAIN q : RangeBound(q[i]) \in BoundT BY <1>1, RangeBoundFacts
<1>7. u \in Seq(BoundT) /\ DOMAIN u = DOMAIN q /\ \A i \in DOMAIN q : u[i] = RangeBound(q[i]) BY <1>1, <1>2, <1>6
<1>8. Permuted(u, desc, t) BY <1>3, <1>7, SortedBounds
<1>9. /\ t \in Seq(BoundT)
      /\ \A i \in DOMAIN u : \E n \in DOMAIN t : t[n] = u[i]
      /\ \A n \in DOMAIN t : \E i \in DOMAIN u : t[n] = u[i]
      /\ \A n, h \in DOMAIN t : n < h => \E i, j \in DOMAIN u : i # j /\ t[n] = u[i] /\ t[h] = u[j] /\ ~Earlier(desc, u[j], u[i])
  BY <1>8 DEF Permuted
<1>10. ASSUME NEW s \in Scores PROVE Wanted("num", q, s) <=> \E i \in DOMAIN t : Contains(t[i], s)
  <2>1. \A i \in DOMAIN q : InRange("num", q[i], s) <=> Contains(u[i], s) BY <1>1, <1>7, RangeBoundFacts
  <2>2. Wanted("num", q, s) <=> \E i \in DOMAIN q : InRange("num", q[i], s) BY DEF Wanted
  <2>3. QED BY <1>7, <1>9, <2>1, <2>2
<1>11. ASSUME Apart(q), NEW n \in DOMAIN t, NEW h \in DOMAIN t, NEW a \in Scores, NEW b \in Scores,
              n < h, Contains(t[n], a), Contains(t[h], b)
       PROVE  Precedes("num", a, b, desc)
  <2>1. PICK i \in DOMAIN q, j \in DOMAIN q : i # j /\ t[n] = u[i] /\ t[h] = u[j] /\ ~Earlier(desc, u[j], u[i])
    BY <1>7, <1>9, <1>11
  <2>2. PICK x \in Valued("num"), y \in Valued("num") : x = q[i] /\ y = q[j] /\ u[i] = RangeBound(x) /\ u[j] = RangeBound(y)
    BY <1>1, <1>7
  <2>3. CutAt(x.upper) < CutAt(y.lower) \/ CutAt(y.upper) < CutAt(x.lower)
    <3>1. i \in Nat /\ j \in Nat BY <1>1
    <3>2. QED BY <1>11, <2>1, <2>2, <3>1 DEF Apart
  <2>4. /\ CutAt(x.lower) \in Nat /\ CutAt(x.upper) \in Nat /\ CutAt(x.lower) <= u[i].lo + 1 /\ u[i].hi <= CutAt(x.upper)
        /\ CutAt(x.lower) <= a /\ a < CutAt(x.upper) /\ u[i].lo <= a /\ a <= u[i].hi
    BY <1>11, <2>1, <2>2, RangeBoundFacts
  <2>5. /\ CutAt(y.lower) \in Nat /\ CutAt(y.upper) \in Nat /\ CutAt(y.lower) <= u[j].lo + 1 /\ u[j].hi <= CutAt(y.upper)
        /\ CutAt(y.lower) <= b /\ b < CutAt(y.upper) /\ u[j].lo <= b /\ b <= u[j].hi
    BY <1>11, <2>1, <2>2, RangeBoundFacts
  <2>6. u[i].lo \in Nat /\ u[i].hi \in Nat /\ u[j].lo \in Nat /\ u[j].hi \in Nat 
    <3>1. u[i] \in BoundT /\ u[j] \in BoundT BY <1>7
    <3>2. \A z \in BoundT : z.lo \in Nat /\ z.hi \in Nat BY DEF BoundT
    <3>3. QED BY <3>1, <3>2
  <2>7. a \in Nat /\ b \in Nat BY InfFacts
  <2>8. CASE desc
    <3>1. u[j].hi <= u[i].hi BY <2>1, <2>6, <2>8 DEF Earlier
    <3>2. PICK A \in Nat, B \in Nat, C \in Nat, D \in Nat : A = CutAt(x.lower) /\ B = CutAt(x.upper) /\ C = CutAt(y.lower) /\ D = CutAt(y.upper)
      BY <2>4, <2>5
    <3>3. PICK l \in Nat, m \in Nat : l = u[i].hi /\ m = u[j].hi BY <2>6
    <3>4. l <= B /\ A <= a /\ C <= b /\ b <= m /\ b < D /\ m <= l BY <2>4, <2>5, <3>1, <3>2, <3>3
    <3>5. B < C \/ D < A BY <2>3, <3>2
    <3>6. b < a BY <2>7, <3>4, <3>5
    <3>7. QED BY <2>8, <3>6 DEF Precedes, Less
  <2>9. CASE ~desc
    <3>1. u[i].lo <= u[j].lo BY <2>1, <2>6, <2>9 DEF Earlier
    <3> DEFINE A == CutAt(x.lower)
               B == CutAt(y.upper)
               l == u[i].lo
               m == u[j].lo
    <3>2. A \in Nat /\ B \in Nat /\ l \in Nat /\ m \in Nat /\ A <= l + 1 /\ m <= b /\ b < B /\ l <= m BY <2>4, <2>5, <2>6, <3>1
    <3> HIDE DEF A, B, l, m
    <3>3. ~(B < A) BY <2>7, <3>2
    <3>4. a < b
      <4>1. CutAt(x.upper) < CutAt(y.lower) BY <2>3, <3>3 DEF A, B
      <4>2. QED BY <2>4, <2>5, <2>7, <4>1
    <3>5. QED BY <2>9, <3>4 DEF Precedes, Less
  <2>10. QED BY <2>8, <2>9
<1>12. Apart(q) => InSequence(t, desc) BY <1>11 DEF InSequence
<1>13. QED BY <1>5, <1>9, <1>10, <1>12


PageOf(s, w, count) == PageCmd(w[1], Head(s.rs), s.desc, s.ways[w].cursor, count)
PageItems(s, W, count) == UNION {{<<PageOf(s, w, count)[i], w>> : i \in DOMAIN PageOf(s, w, count)} : w \in W}

LEMMA WaysParts ==
    ASSUME NEW s \in ScanT
    PROVE  DOMAIN s.ways \subseteq Places /\ \A w \in DOMAIN s.ways : s.ways[w] \in WayT /\ w[1] \in RIdx
<1>1. s.ways \in WaysT BY DEF ScanT
<1>2. PICK D \in SUBSET Places : s.ways \in [D -> WayT] BY <1>1 DEF WaysT
<1>3. DOMAIN s.ways = D /\ \A w \in D : s.ways[w] \in WayT BY <1>2
<1>4. \A w \in Places : w[1] \in RIdx BY DEF Places
<1>5. QED BY <1>3, <1>4

\* The same stream, up to its heap, ways, candidates and place in the loop.
Same(s, t) ==
    /\ t.hot = s.hot /\ t.rs = s.rs /\ t.desc = s.desc /\ t.pred = s.pred /\ t.seen = s.seen
    /\ t.out = s.out /\ t.must = s.must /\ t.moved = s.moved /\ t.stale = s.stale /\ t.wide = s.wide /\ t.stray = s.stray

LEMMA PageIn ==
    ASSUME IndexT, Stamped, NEW s \in ScanT, NEW w \in DOMAIN s.ways, NEW count \in Nat
    PROVE  IsPage(InBucket(s, w[1]), s.desc, s.ways[w].cursor, count, PageOf(s, w, count))
<1>1. w[1] \in RIdx BY WaysParts
<1>2. s.ways[w].cursor \in Nat BY WaysParts DEF WayT
<1>3. s.desc \in BOOLEAN BY DEF ScanT
<1>4. IsPage(Within(w[1], Head(s.rs)), s.desc, s.ways[w].cursor, count, PageCmd(w[1], Head(s.rs), s.desc, s.ways[w].cursor, count))
  BY <1>1, <1>2, <1>3, PageFacts
<1>5. QED BY <1>4 DEF InBucket, PageOf

ItemsShape(s, W, count) ==
    /\ PageItems(s, W, count) \subseteq RMembers \X Places
    /\ \A x \in PageItems(s, W, count) :
          \E w \in W : \E i \in DOMAIN PageOf(s, w, count) : x = <<PageOf(s, w, count)[i], w>> /\ x[1] = PageOf(s, w, count)[i] /\ x[2] = w
    /\ \A w \in W : \A i \in DOMAIN PageOf(s, w, count) : <<PageOf(s, w, count)[i], w>> \in PageItems(s, W, count)
    /\ \A x \in PageItems(s, W, count) : x[2] \in W /\ x[1][3] <= rw + 1 /\ x[1] \in InBucket(s, x[2][1])

LEMMA ItemFacts ==
    ASSUME IndexT, Stamped, NEW s \in ScanT, NEW W \in SUBSET DOMAIN s.ways, NEW count \in Nat
    PROVE  ItemsShape(s, W, count)
<1>1. \A x \in PageItems(s, W, count) : \E w \in W : \E i \in DOMAIN PageOf(s, w, count) : x = <<PageOf(s, w, count)[i], w>>
  BY DEF PageItems
<1>2. \A w \in W : \A i \in DOMAIN PageOf(s, w, count) : <<PageOf(s, w, count)[i], w>> \in PageItems(s, W, count)
  BY DEF PageItems
<1>3. \A x \in PageItems(s, W, count) :
         \E w \in W : \E i \in DOMAIN PageOf(s, w, count) : x = <<PageOf(s, w, count)[i], w>> /\ x[1] = PageOf(s, w, count)[i] /\ x[2] = w
  <2> TAKE x \in PageItems(s, W, count)
  <2>0. PICK w \in W : \E i \in DOMAIN PageOf(s, w, count) : x = <<PageOf(s, w, count)[i], w>> BY <1>1
  <2>1. PICK i \in DOMAIN PageOf(s, w, count) : x = <<PageOf(s, w, count)[i], w>> BY <2>0
  <2>2. x[1] = PageOf(s, w, count)[i] /\ x[2] = w BY <2>1
  <2>3. QED BY <2>1, <2>2
<1>4. ASSUME NEW x \in PageItems(s, W, count)
      PROVE  x \in RMembers \X Places /\ x[2] \in W /\ x[1][3] <= rw + 1 /\ x[1] \in InBucket(s, x[2][1])
  <2>0. PICK w \in W : \E i \in DOMAIN PageOf(s, w, count) : x = <<PageOf(s, w, count)[i], w>> /\ x[1] = PageOf(s, w, count)[i] /\ x[2] = w
    BY <1>3
  <2>1. PICK i \in DOMAIN PageOf(s, w, count) : x = <<PageOf(s, w, count)[i], w>> /\ x[1] = PageOf(s, w, count)[i] /\ x[2] = w
    BY <2>0
  <2>2. PICK m : m = PageOf(s, w, count)[i] OBVIOUS
  <2>3. m \in InBucket(s, w[1])
    <3>1. IsPage(InBucket(s, w[1]), s.desc, s.ways[w].cursor, count, PageOf(s, w, count)) BY PageIn
    <3>2. QED BY <2>1, <2>2, <3>1 DEF IsPage
  <2>4. w \in Places /\ w[1] \in RIdx BY WaysParts
  <2>5. m \in RMembers /\ m[3] <= rw + 1 BY <2>3, <2>4 DEF InBucket, Within, IndexT, Stamped
  <2>6. QED BY <2>1, <2>2, <2>3, <2>4, <2>5
<1> HIDE DEF PageItems
<1>5. QED BY <1>2, <1>3, <1>4 DEF ItemsShape

\* t is s after pages of count members for the ways of W.
Paged(s, W, count, t) ==
    /\ t \in ScanT /\ Same(s, t) /\ t.cand = s.cand /\ t.heap = s.heap \cup PageItems(s, W, count) /\ DOMAIN t.ways = DOMAIN s.ways
    /\ \A w \in DOMAIN s.ways : w \notin W => t.ways[w] = s.ways[w]
    /\ \A w \in W : /\ t.ways[w].cursor = s.ways[w].cursor + Len(PageOf(s, w, count))
                    /\ t.ways[w].inHeap = s.ways[w].inHeap + Len(PageOf(s, w, count))
                    /\ t.ways[w].done <=> Len(PageOf(s, w, count)) < count

LEMMA PagesFacts ==
    ASSUME IndexT, Stamped, NEW s \in ScanT, NEW W \in SUBSET DOMAIN s.ways, NEW count \in Nat, NEW t, t = Pages(s, W, count)
    PROVE  Paged(s, W, count, t)
<1>1. DOMAIN s.ways \subseteq Places /\ \A w \in DOMAIN s.ways : s.ways[w] \in WayT BY WaysParts
<1> DEFINE way(w) == IF w \in W THEN [s.ways[w] EXCEPT !.cursor = @ + Len(PageOf(s, w, count)), !.inHeap = @ + Len(PageOf(s, w, count)),
                                                    !.done = Len(PageOf(s, w, count)) < count]
                     ELSE s.ways[w]
<1>2. PICK H : H = s.heap \cup PageItems(s, W, count) OBVIOUS
<1>3. PICK G : G = [w \in DOMAIN s.ways |-> way(w)] BY Zenon
<1>4. t = [s EXCEPT !.heap = H, !.ways = G]
  <2> DEFINE page == [w \in W |-> PageOf(s, w, count)]
             got(w) == Len(page[w])
             items == UNION {{<<page[w][i], w>> : i \in DOMAIN page[w]} : w \in W}
             ways == [w \in DOMAIN s.ways |->
                         IF w \in W THEN [s.ways[w] EXCEPT !.cursor = @ + got(w), !.inHeap = @ + got(w), !.done = got(w) < count]
                         ELSE s.ways[w]]
  <2>1. t = [s EXCEPT !.heap = @ \cup items, !.ways = ways] BY DEF Pages, PageOf
  <2>2. items = PageItems(s, W, count) BY DEF PageItems
  <2>3. ways = G BY <1>3, Zenon
  <2> HIDE DEF items, ways
  <2>4. QED BY <1>2, <2>1, <2>2, <2>3
<1>5. ASSUME NEW w \in W
      PROVE  /\ way(w) \in WayT
             /\ way(w).cursor = s.ways[w].cursor + Len(PageOf(s, w, count))
             /\ way(w).inHeap = s.ways[w].inHeap + Len(PageOf(s, w, count))
             /\ way(w).done <=> Len(PageOf(s, w, count)) < count
  <2>1. PICK v \in WayT : v = s.ways[w] BY <1>1, SMTT(30)
  <2>2. PICK g \in Nat : g = Len(PageOf(s, w, count))
    <3>1. IsPage(InBucket(s, w[1]), s.desc, s.ways[w].cursor, count, PageOf(s, w, count)) BY PageIn
    <3>2. QED BY <3>1, Zenon DEF IsPage
  <2>3. (g < count) \in BOOLEAN OBVIOUS
  <2>4. PICK d \in BOOLEAN : d = (g < count) BY <2>3, Zenon
  <2>5. way(w) = [v EXCEPT !.cursor = @ + g, !.inHeap = @ + g, !.done = d] BY <2>1, <2>2, <2>4
  <2> HIDE DEF way
  <2>6. PICK a \in Nat, b \in Nat, e \in BOOLEAN : v = [cursor |-> a, inHeap |-> b, done |-> e] BY DEF WayT
  <2>7. way(w) = [cursor |-> a + g, inHeap |-> b + g, done |-> d] BY <2>5, <2>6
  <2>8. way(w) \in WayT /\ way(w).cursor = v.cursor + g /\ way(w).inHeap = v.inHeap + g /\ way(w).done = d BY <2>6, <2>7 DEF WayT
  <2>9. d <=> g < count BY <2>4
  <2>10. QED BY <2>1, <2>2, <2>8, <2>9
<1>6. ASSUME NEW w \in DOMAIN s.ways, w \notin W PROVE way(w) = s.ways[w] BY <1>6
<1> HIDE DEF way
<1>7. G \in WaysT
  <2>1. \A w \in DOMAIN s.ways : way(w) \in WayT BY <1>1, <1>5, <1>6
  <2>2. G \in [DOMAIN s.ways -> WayT] BY <1>3, <2>1
  <2>3. QED BY <1>1, <2>2 DEF WaysT
<1>8. H \in SUBSET (RMembers \X Places)
  <2>1. s.heap \subseteq RMembers \X Places BY DEF ScanT
  <2>2. PageItems(s, W, count) \subseteq RMembers \X Places 
    <3>1. ItemsShape(s, W, count) BY ItemFacts
    <3>2. QED BY <3>1 DEF ItemsShape
  <2>3. QED BY <1>2, <2>1, <2>2
<1>9. t \in ScanT /\ t.heap = H /\ t.ways = G BY <1>4, <1>7, <1>8, ZenonT(40) DEF ScanT
<1>10. Same(s, t) /\ t.cand = s.cand BY <1>4 DEF ScanT, Same
<1>11. DOMAIN G = DOMAIN s.ways /\ \A w \in DOMAIN s.ways : G[w] = way(w) BY <1>3
<1>12. QED BY <1>2, <1>5, <1>6, <1>9, <1>10, <1>11 DEF Paged


\* The heap gives the lowest, one after the other.
BatchOf(heap, desc, f) ==
    /\ \E n \in Nat : n <= ExecBatch /\ DOMAIN f = 1 .. n
    /\ \A i \in DOMAIN f : f[i] \in heap
    /\ \A i, j \in DOMAIN f : f[i] = f[j] => i = j
    /\ \A i, j \in DOMAIN f : i < j => NotAfter(desc, f[i][1][1], f[j][1][1])
    /\ \A i \in DOMAIN f : \A y \in heap \ Elems(f) : NotAfter(desc, f[i][1][1], y[1][1])

LEMMA BatchFacts ==
    ASSUME NEW heap, IsFiniteSet(heap), NEW desc \in BOOLEAN, NEW f \in Batches(heap, desc)
    PROVE  BatchOf(heap, desc, f)
<1> DEFINE n == Bound(Cardinality(heap), ExecBatch)
           notAfter(x, y) == IF desc THEN y[1][1] <= x[1][1] ELSE x[1][1] <= y[1][1]
<1>1. Cardinality(heap) \in Nat /\ ExecBatch \in Nat BY FS_CardinalityType, RangeAssumption
<1>2. n \in Nat /\ n <= ExecBatch BY <1>1 DEF Bound
<1>3. f \in [1 .. n -> heap] /\ \A i \in 1 .. n : /\ \A j \in 1 .. i - 1 : f[j] # f[i]
                                                 /\ \A y \in heap \ {f[j] : j \in 1 .. i - 1} : notAfter(f[i], y)
  BY DEF Batches
<1>4. \A x, y : notAfter(x, y) <=> NotAfter(desc, x[1][1], y[1][1]) BY DEF NotAfter
<1> HIDE DEF n, notAfter
<1>5. DOMAIN f = 1 .. n /\ \A i \in 1 .. n : f[i] \in heap BY <1>3
<1>6. ASSUME NEW i \in 1 .. n, NEW j \in 1 .. n, i < j PROVE f[i] # f[j] /\ NotAfter(desc, f[i][1][1], f[j][1][1])
  <2>1. i \in 1 .. j - 1 BY <1>2, <1>6
  <2>2. \A h \in 1 .. j - 1 : f[h] # f[j] BY <1>3
  <2>3. \A h \in 1 .. i - 1 : f[h] # f[j]
    <3>1. \A h \in 1 .. i - 1 : h \in 1 .. j - 1 BY <1>2, <1>6
    <3>2. QED BY <2>2, <3>1
  <2>4. f[j] \in heap \ {f[h] : h \in 1 .. i - 1} BY <1>5, <2>3
  <2>5. notAfter(f[i], f[j]) BY <1>3, <2>4
  <2>6. QED BY <1>4, <2>1, <2>2, <2>5
<1>7. ASSUME NEW i \in 1 .. n, NEW j \in 1 .. n, f[i] = f[j] PROVE i = j
  <2>1. i \in Nat /\ j \in Nat BY <1>2
  <2>2. ~(i < j) /\ ~(j < i) BY <1>6, <1>7
  <2>3. QED BY <2>1, <2>2
<1>8. ASSUME NEW i \in 1 .. n, NEW y \in heap \ Elems(f) PROVE NotAfter(desc, f[i][1][1], y[1][1])
  <2>1. \A h \in 1 .. n : f[h] # y BY <1>5 DEF Elems
  <2>2. \A h \in 1 .. i - 1 : h \in 1 .. n BY <1>2
  <2>3. y \in heap \ {f[h] : h \in 1 .. i - 1} BY <2>1, <2>2
  <2>4. notAfter(f[i], y) BY <1>3, <2>3
  <2>5. QED BY <1>4, <2>4
<1>9. QED BY <1>2, <1>5, <1>6, <1>7, <1>8 DEF BatchOf

LEMMA StreamHeap ==
    ASSUME Loose, NEW s \in ScanT, HeapShape(s)
    PROVE  IsFiniteSet(s.heap) /\ \A w : IsFiniteSet(InHeap(s, w)) /\ Cardinality(InHeap(s, w)) \in Nat
<1>1. s.heap \in SUBSET (RMembers \X Places) /\ rw + 1 \in Nat /\ \A x \in s.heap : x[1][3] <= rw + 1
  BY DEF ScanT, HeapShape, Loose, IndexT
<1>2. IsFiniteSet(s.heap) BY <1>1, HeapFinite
<1>3. \A w : IsFiniteSet(InHeap(s, w)) BY <1>2, FS_Subset DEF InHeap
<1>4. QED BY <1>2, <1>3, FS_CardinalityType

LEMMA PopFacts ==
    ASSUME Loose, NEW s \in ScanT, HeapShape(s), Counted(s), NEW f \in Batches(s.heap, s.desc), NEW u, u = Popped(s, f)
    PROVE  /\ u \in ScanT /\ Same(s, u) /\ u.heap = s.heap \ Elems(f) /\ BatchOf(s.heap, s.desc, f)
           /\ DOMAIN u.cand = DOMAIN f /\ Len(u.cand) <= ExecBatch /\ \A i \in DOMAIN f : u.cand[i] = f[i][1]
           /\ DOMAIN u.ways = DOMAIN s.ways
           /\ \A w \in DOMAIN s.ways : u.ways[w].cursor = s.ways[w].cursor /\ u.ways[w].done = s.ways[w].done
           /\ Counted(u)
<1>1. IsFiniteSet(s.heap) /\ \A w : IsFiniteSet(InHeap(s, w)) /\ Cardinality(InHeap(s, w)) \in Nat BY StreamHeap
<1>2. BatchOf(s.heap, s.desc, f) BY <1>1, BatchFacts DEF ScanT
<1>3. PICK n \in Nat : n <= ExecBatch /\ DOMAIN f = 1 .. n BY <1>2 DEF BatchOf
<1>4. \A i \in DOMAIN f : f[i] \in s.heap BY <1>2 DEF BatchOf
<1>5. \A i, j \in DOMAIN f : f[i] = f[j] => i = j BY <1>2 DEF BatchOf
<1>6. DOMAIN s.ways \subseteq Places /\ \A w \in DOMAIN s.ways : s.ways[w] \in WayT BY WaysParts
<1> DEFINE Own(w) == {i \in DOMAIN f : f[i][2] = w}
           TakenOf(w) == {f[i] : i \in Own(w)}
           way(w) == [s.ways[w] EXCEPT !.inHeap = @ - Cardinality({i \in DOMAIN f : f[i][2] = w})]
<1>7. PICK H : H = s.heap \ Elems(f) OBVIOUS
<1>8. PICK C : C = [i \in DOMAIN f |-> f[i][1]] OBVIOUS
<1>9. PICK G : G = [w \in DOMAIN s.ways |-> way(w)] OBVIOUS
<1>10. u = [s EXCEPT !.heap = H, !.cand = C, !.ways = G] BY <1>7, <1>8, <1>9 DEF Popped
<1>11. ASSUME NEW w \in DOMAIN s.ways
       PROVE  /\ {x \in H : x[2] = w} = InHeap(s, w) \ TakenOf(w)
              /\ Cardinality({x \in H : x[2] = w}) = Cardinality(InHeap(s, w)) - Cardinality(Own(w))
              /\ Cardinality({x \in H : x[2] = w}) \in Nat /\ Cardinality(Own(w)) \in Nat
  <2>1. {x \in H : x[2] = w} = InHeap(s, w) \ TakenOf(w) BY <1>7 DEF InHeap, Elems
  <2>2. TakenOf(w) \in SUBSET InHeap(s, w) BY <1>4 DEF InHeap
  <2>3. IsFiniteSet(DOMAIN f)
    <3>1. 1 \in Int /\ n \in Int OBVIOUS
    <3>2. QED BY <1>3, <3>1, FS_Interval
  <2>4. IsFiniteSet(Own(w)) BY <2>3, FS_Subset
  <2>5. PICK g : g = [i \in Own(w) |-> f[i]] OBVIOUS
  <2>6. DOMAIN g = Own(w) /\ \A i \in Own(w) : g[i] = f[i] BY <2>5
  <2>7. \A i, j \in Own(w) : g[i] = g[j] => i = j BY <1>5, <2>6
  <2>8. {g[i] : i \in Own(w)} = TakenOf(w) BY <2>6
  <2> HIDE DEF Own, TakenOf
  <2>9. Cardinality({g[i] : i \in Own(w)}) = Cardinality(Own(w)) BY <2>4, <2>6, <2>7, ImageCard
  <2>10. Cardinality(TakenOf(w)) = Cardinality(Own(w)) BY <2>8, <2>9
  <2>11. Cardinality(InHeap(s, w) \ TakenOf(w)) = Cardinality(InHeap(s, w)) - Cardinality(TakenOf(w)) BY <1>1, <2>2, WithoutCard
  <2>12. IsFiniteSet(InHeap(s, w) \ TakenOf(w)) BY <1>1, FS_Difference
  <2>13. Cardinality(InHeap(s, w) \ TakenOf(w)) \in Nat /\ Cardinality(Own(w)) \in Nat BY <2>4, <2>12, FS_CardinalityType
  <2>14. QED BY <2>1, <2>10, <2>11, <2>13
<1>12. ASSUME NEW w \in DOMAIN s.ways
       PROVE  /\ way(w) \in WayT /\ way(w).cursor = s.ways[w].cursor /\ way(w).done = s.ways[w].done
              /\ way(w).inHeap = Cardinality({x \in H : x[2] = w})
  <2>1. PICK v \in WayT : v = s.ways[w] BY <1>6
  <2>2. PICK c, d \in Nat : c = Cardinality(Own(w)) /\ d = Cardinality({x \in H : x[2] = w}) BY <1>11
  <2>3. way(w) = [v EXCEPT !.inHeap = @ - c] BY <2>1, <2>2
  <2>4. v.inHeap - c = d BY <1>11, <2>1, <2>2 DEF Counted
  <2>5. PICK x \in Nat, y \in Nat, e \in BOOLEAN : v = [cursor |-> x, inHeap |-> y, done |-> e] BY DEF WayT
  <2> HIDE DEF way
  <2>6. way(w) = [cursor |-> x, inHeap |-> d, done |-> e] BY <2>3, <2>4, <2>5
  <2>7. way(w) \in WayT /\ way(w).cursor = v.cursor /\ way(w).done = v.done /\ way(w).inHeap = d BY <2>5, <2>6 DEF WayT
  <2>8. QED BY <2>1, <2>2, <2>7
<1> HIDE DEF way, Own, TakenOf
<1>13. G \in WaysT
  <2>1. G \in [DOMAIN s.ways -> WayT] BY <1>9, <1>12
  <2>2. QED BY <1>6, <2>1 DEF WaysT
<1>14. s.heap \subseteq RMembers \X Places /\ H \in SUBSET (RMembers \X Places) BY <1>7 DEF ScanT
<1>15. C \in Seq(RMembers) /\ DOMAIN C = DOMAIN f /\ Len(C) <= ExecBatch /\ \A i \in DOMAIN f : C[i] = f[i][1]
  <2>1. \A i \in 1 .. n : f[i][1] \in RMembers BY <1>3, <1>4, <1>14
  <2>2. QED BY <1>3, <1>8, <2>1
<1>16. u \in ScanT /\ u.heap = H /\ u.cand = C /\ u.ways = G BY <1>10, <1>13, <1>14, <1>15, ZenonT(40) DEF ScanT
<1>17. Same(s, u) BY <1>10 DEF ScanT, Same
<1>18. DOMAIN G = DOMAIN s.ways /\ \A w \in DOMAIN s.ways : G[w] = way(w) BY <1>9
<1>19. Counted(u) BY <1>12, <1>16, <1>18 DEF Counted, InHeap
<1>20. QED BY <1>2, <1>7, <1>12, <1>15, <1>16, <1>17, <1>18, <1>19

RanEmpty(s) == {w \in DOMAIN s.ways : s.ways[w].inHeap = 0 /\ ~s.ways[w].done}

LEMMA PagesCount ==
    ASSUME Loose, NEW s \in ScanT, HeapShape(s), Counted(s), NEW count \in Nat \ {0}, NEW t, t = Pages(s, RanEmpty(s), count)
    PROVE  Counted(t) /\ Refilled(t) /\ HeapShape(t)
<1>0. IndexT /\ Stamped BY DEF Loose
<1>1. PICK W : W = RanEmpty(s) OBVIOUS
<1>2. W \in SUBSET DOMAIN s.ways /\ \A w \in W : s.ways[w].inHeap = 0 BY <1>1 DEF RanEmpty
<1>3. count \in Nat OBVIOUS
<1>4. /\ t \in ScanT /\ Same(s, t) /\ t.heap = s.heap \cup PageItems(s, W, count) /\ DOMAIN t.ways = DOMAIN s.ways
      /\ \A w \in DOMAIN s.ways : w \notin W => t.ways[w] = s.ways[w]
      /\ \A w \in W : /\ t.ways[w].cursor = s.ways[w].cursor + Len(PageOf(s, w, count))
                      /\ t.ways[w].inHeap = s.ways[w].inHeap + Len(PageOf(s, w, count))
                      /\ t.ways[w].done <=> Len(PageOf(s, w, count)) < count
  <2>1. Paged(s, W, count, t) BY <1>0, <1>1, <1>2, <1>3, PagesFacts
  <2>2. QED BY <2>1 DEF Paged
<1>5. /\ \A x \in PageItems(s, W, count) :
            \E w \in W : \E i \in DOMAIN PageOf(s, w, count) : x = <<PageOf(s, w, count)[i], w>> /\ x[1] = PageOf(s, w, count)[i] /\ x[2] = w
      /\ \A w \in W : \A i \in DOMAIN PageOf(s, w, count) : <<PageOf(s, w, count)[i], w>> \in PageItems(s, W, count)
      /\ \A x \in PageItems(s, W, count) : x[2] \in W /\ x[1][3] <= rw + 1 /\ x[1] \in InBucket(s, x[2][1])
  <2>1. ItemsShape(s, W, count) BY <1>0, <1>2, <1>3, ItemFacts
  <2>2. QED BY <2>1 DEF ItemsShape
<1>6. \A w \in DOMAIN s.ways : IsPage(InBucket(s, w[1]), s.desc, s.ways[w].cursor, count, PageOf(s, w, count))
  BY <1>0, <1>3, PageIn
<1>7. HeapShape(t)
  <2>1. t.rs = s.rs BY <1>4 DEF Same
  <2>2. \A x \in PageItems(s, W, count) : x[1][3] <= rw + 1 /\ x[2] \in DOMAIN t.ways /\ Contains(Head(t.rs), x[1][1])
    BY <1>2, <1>4, <1>5, <2>1 DEF InBucket, Within
  <2>3. \A x \in s.heap : x[1][3] <= rw + 1 /\ x[2] \in DOMAIN t.ways /\ Contains(Head(t.rs), x[1][1]) BY <1>4, <2>1 DEF HeapShape
  <2>4. QED BY <1>4, <2>2, <2>3 DEF HeapShape
<1>8. ASSUME NEW w \in W PROVE t.ways[w].inHeap = Cardinality(InHeap(t, w)) /\ (t.ways[w].inHeap = 0 => t.ways[w].done)
  <2>1. PICK p : p = PageOf(s, w, count) OBVIOUS
  <2>2. Len(p) \in Nat /\ DOMAIN p = 1 .. Len(p) /\ \A i, j \in DOMAIN p : p[i] = p[j] => i = j BY <1>2, <1>6, <2>1 DEF IsPage
  <2>3. InHeap(s, w) = {}
    <3>1. IsFiniteSet(InHeap(s, w)) BY StreamHeap
    <3>2. Cardinality(InHeap(s, w)) = 0 BY <1>2 DEF Counted
    <3>3. QED BY <3>1, <3>2, FS_EmptySet
  <2>4. PICK g : g = [i \in DOMAIN p |-> <<p[i], w>>] OBVIOUS
  <2>5. DOMAIN g = DOMAIN p /\ \A i \in DOMAIN p : g[i] = <<p[i], w>> BY <2>4
  <2>6. \A i, j \in DOMAIN p : g[i] = g[j] => i = j
    <3> TAKE i, j \in DOMAIN p
    <3>1. g[i][1] = p[i] /\ g[j][1] = p[j] BY <2>5
    <3>2. QED BY <2>2, <3>1
  <2>7. InHeap(t, w) = {g[i] : i \in DOMAIN p}
    <3>1. \A x \in t.heap : x[2] = w => \E i \in DOMAIN p : x = g[i] BY <1>4, <1>5, <2>1, <2>3, <2>5 DEF InHeap
    <3>2. \A i \in DOMAIN p : g[i] \in t.heap /\ g[i][2] = w 
      <4> TAKE i \in DOMAIN p
      <4>1. g[i] = <<p[i], w>> BY <2>5
      <4>2. <<p[i], w>> \in PageItems(s, W, count) BY <1>5, <2>1
      <4>3. QED BY <1>4, <4>1, <4>2
    <3>3. QED BY <3>1, <3>2 DEF InHeap
  <2>8. IsFiniteSet(DOMAIN p) /\ Cardinality(DOMAIN p) = Len(p)
    <3>1. 1 \in Int /\ Len(p) \in Int BY <2>2
    <3>2. IsFiniteSet(1 .. Len(p)) /\ Cardinality(1 .. Len(p)) = IF 1 > Len(p) THEN 0 ELSE Len(p) - 1 + 1 BY <3>1, FS_Interval
    <3>3. QED BY <2>2, <3>2
  <2>9. Cardinality({g[i] : i \in DOMAIN p}) = Cardinality(DOMAIN p) BY <2>5, <2>6, <2>8, ImageCard
  <2>10. t.ways[w].inHeap = Len(p) BY <1>2, <1>4, <2>1, <2>2
  <2>11. t.ways[w].inHeap = 0 => Len(p) < count BY <2>10
  <2>12. QED BY <1>4, <2>1, <2>7, <2>8, <2>9, <2>10, <2>11
<1>9. ASSUME NEW w \in DOMAIN s.ways, w \notin W PROVE t.ways[w].inHeap = Cardinality(InHeap(t, w)) /\ (t.ways[w].inHeap = 0 => t.ways[w].done)
  <2>1. t.ways[w] = s.ways[w] BY <1>4, <1>9
  <2>2. InHeap(t, w) = InHeap(s, w) BY <1>4, <1>5, <1>9 DEF InHeap
  <2>3. s.ways[w].inHeap = 0 => s.ways[w].done BY <1>1, <1>9 DEF RanEmpty
  <2>4. QED BY <2>1, <2>2, <2>3 DEF Counted
<1>10. Counted(t) /\ Refilled(t) BY <1>4, <1>8, <1>9 DEF Counted, Refilled
<1>11. QED BY <1>7, <1>10


(***************************************************************************)
(* What the steps do to the stream.                                        *)
(***************************************************************************)
LEMMA ScanFields ==
    ASSUME NEW s \in ScanT
    PROVE  /\ s.pc \in {"idle", "route", "seed", "step", "fetch", "done"} /\ s.hot \in BOOLEAN /\ s.rs \in Seq(BoundT)
           /\ s.desc \in BOOLEAN /\ s.pred \in SUBSET BoundT /\ s.ways \in WaysT /\ s.heap \in SUBSET (RMembers \X Places)
           /\ s.cand \in Seq(RMembers) /\ s.seen \in SUBSET RPks /\ s.out \in Seq(RPks \X Scores) /\ s.must \in SUBSET RPks
           /\ s.moved \in BOOLEAN /\ s.stale \in BOOLEAN /\ s.wide \in BOOLEAN /\ s.stray \in BOOLEAN
BY DEF ScanT

LEMMA NoWays == <<>> \in WaysT /\ DOMAIN <<>> = {}
<1>1. DOMAIN <<>> = {} OBVIOUS
<1>2. <<>> \in [{} -> WayT] OBVIOUS
<1>3. {} \in SUBSET Places OBVIOUS
<1>4. QED BY <1>1, <1>2, <1>3 DEF WaysT

NoScanFields(s) ==
    /\ s.pc = "idle" /\ s.heap = {} /\ s.cand = <<>> /\ s.seen = {} /\ s.out = <<>> /\ s.must = {} /\ s.rs = <<>> /\ s.ways = <<>>
    /\ ~s.moved /\ ~s.stale /\ ~s.wide /\ ~s.stray

LEMMA NoScanT == NoScan \in ScanT /\ NoScanFields(NoScan)
<1>1. PICK h \in BOOLEAN : h = FALSE OBVIOUS
<1>2. PICK e \in WaysT : e = <<>> BY NoWays
<1>3. <<>> \in Seq(BoundT) /\ <<>> \in Seq(RMembers) /\ <<>> \in Seq(RPks \X Scores) OBVIOUS
<1>4. NoScan = [pc |-> "idle", hot |-> h, rs |-> <<>>, desc |-> h, pred |-> {}, ways |-> e, heap |-> {}, cand |-> <<>>,
                seen |-> {}, out |-> <<>>, must |-> {}, moved |-> h, stale |-> h, wide |-> h, stray |-> h]
  BY <1>1, <1>2 DEF NoScan
<1>5. NoScan \in ScanT BY <1>3, <1>4 DEF ScanT
<1>6. NoScanFields(NoScan) BY <1>1, <1>2, <1>4 DEF NoScanFields
<1>7. QED BY <1>5, <1>6

\* A query begins.
Begun(q, desc) ==
    /\ sc' \in ScanT /\ sc'.pc = "route" /\ sc'.hot = hot /\ sc'.rs = TranslateLookup("range", "num", q, desc).of /\ sc'.desc = desc
    /\ sc'.pred = Elems(TranslateLookup("range", "num", q, desc).of) /\ sc'.heap = {} /\ sc'.cand = <<>> /\ sc'.seen = {} /\ sc'.out = <<>>
    /\ sc'.must = {k \in RPks : score[k] # 0 /\ Wanted("num", q, score[k])} /\ sc'.ways = <<>>
    /\ ~sc'.moved /\ ~sc'.stale /\ ~sc'.wide /\ ~sc'.stray

LEMMA RunEffect ==
    ASSUME Loose, NEW q \in Seq(Valued("num")), NEW desc \in BOOLEAN, RunRange(q, desc)
    PROVE  Begun(q, desc)
<1>1. PICK req : req = TranslateLookup("range", "num", q, desc) OBVIOUS
<1>2. req.of \in Seq(BoundT) /\ req.pred.of = req.of BY <1>1, RequestFacts
<1>3. PICK b \in Seq(BoundT) : b = req.of BY <1>2
<1>4. PICK P \in SUBSET BoundT : P = Elems(b)
  <2>1. Elems(b) \in SUBSET BoundT BY DEF Elems
  <2>2. QED BY <2>1
<1>5. PICK M \in SUBSET RPks : M = {k \in RPks : score[k] # 0 /\ Wanted("num", q, score[k])} OBVIOUS
<1>6. PICK h \in BOOLEAN : h = hot BY DEF Loose, IndexT
<1>7. sc' = [NoScan EXCEPT !.pc = "route", !.hot = h, !.rs = b, !.desc = desc, !.pred = P, !.must = M]
  BY <1>1, <1>2, <1>3, <1>4, <1>5, <1>6 DEF RunRange, Scan
<1>8. PICK s \in ScanT : s = NoScan BY NoScanT
<1>9. NoScanFields(s) BY <1>8, NoScanT
<1>10. sc' = [s EXCEPT !.pc = "route", !.hot = h, !.rs = b, !.desc = desc, !.pred = P, !.must = M] BY <1>7, <1>8
<1>11. sc' \in ScanT BY <1>10, ZenonT(40) DEF ScanT
<1>12. /\ sc'.pc = "route" /\ sc'.hot = h /\ sc'.rs = b /\ sc'.desc = desc /\ sc'.pred = P /\ sc'.heap = {}
       /\ sc'.cand = <<>> /\ sc'.seen = {} /\ sc'.out = <<>> /\ sc'.must = M /\ sc'.ways = <<>> /\ ~sc'.moved /\ ~sc'.stale /\ ~sc'.wide /\ ~sc'.stray
  BY <1>9, <1>10 DEF ScanT, NoScanFields
<1>13. QED BY <1>1, <1>3, <1>4, <1>5, <1>6, <1>11, <1>12 DEF Begun

LEMMA BucketsPlaced ==
    ASSUME NEW r \in RangeT
    PROVE  BucketsOf(r) \subseteq Places
<1>2. r.i \in RIdx /\ r.c \in Pairs BY RangeParts
<1>3. ASSUME r.c # <<>> PROVE r.c[1].i \in RIdx /\ r.c[2].i \in RIdx
  <2>1. r.c \in Kids \X Kids BY <1>2, <1>3 DEF Pairs
  <2>2. r.c[1] \in Kids /\ r.c[2] \in Kids BY <2>1
  <2>3. QED BY <2>2 DEF Kids
<1>4. <<r.i, r.i, 0>> \in Places BY <1>2 DEF Places
<1>5. r.c # <<>> => <<r.c[1].i, r.i, 1>> \in Places /\ <<r.c[2].i, r.i, 2>> \in Places BY <1>2, <1>3 DEF Places
<1>6. QED BY <1>4, <1>5 DEF BucketsOf

DocsT == docs \subseteq SUBSET RangeT

\* The ways of the next interval.
Routed(b) ==
    /\ sc' \in ScanT /\ sc'.pc = "seed" /\ DOMAIN sc'.ways = b /\ b \in SUBSET Places
    /\ \A w \in b : sc'.ways[w].cursor = 0 /\ sc'.ways[w].inHeap = 0 /\ ~sc'.ways[w].done
    /\ sc'.hot = sc.hot /\ sc'.rs = sc.rs /\ sc'.desc = sc.desc /\ sc'.pred = sc.pred /\ sc'.heap = sc.heap /\ sc'.cand = sc.cand
    /\ sc'.seen = sc.seen /\ sc'.out = sc.out /\ sc'.must = sc.must /\ sc'.moved = sc.moved /\ sc'.stray = sc.stray
    /\ sc'.wide <=> sc.wide \/ Cardinality(b) > 1
    /\ sc'.stale <=> sc.stale \/ Misses(b, Head(sc.rs))

\* The last interval was read; the interval is over.
Ended(p, rs, ways) ==
    /\ sc' \in ScanT /\ sc'.pc = p /\ sc'.rs = rs /\ sc'.ways = ways
    /\ sc'.hot = sc.hot /\ sc'.desc = sc.desc /\ sc'.pred = sc.pred /\ sc'.heap = sc.heap /\ sc'.cand = sc.cand /\ sc'.seen = sc.seen
    /\ sc'.out = sc.out /\ sc'.must = sc.must /\ sc'.moved = sc.moved /\ sc'.stale = sc.stale /\ sc'.stray = sc.stray /\ sc'.wide = sc.wide

LEMMA RouteEffect ==
    ASSUME DocsT, sc \in ScanT, Route
    PROVE  \/ sc.rs = <<>> /\ Ended("done", sc.rs, sc.ways)
           \/ sc.rs # <<>> /\ \E b : Routed(b)
<1>1. CASE sc.rs = <<>>
  <2>1. sc' = [sc EXCEPT !.pc = "done"] BY <1>1 DEF Route, Scan
  <2>2. sc' \in ScanT BY <2>1 DEF ScanT
  <2>3. QED BY <1>1, <2>1, <2>2 DEF Ended, ScanT
<1>2. CASE sc.rs # <<>>
  <2>1. PICK b \in RangeBucketsFor(Head(sc.rs)) :
           Scan([sc EXCEPT !.pc = "seed", !.wide = @ \/ Cardinality(b) > 1, !.stale = @ \/ Misses(b, Head(sc.rs)),
                           !.ways = [w \in b |-> [cursor |-> 0, inHeap |-> 0, done |-> FALSE]]])
    BY <1>2 DEF Route
  <2>2. b \in SUBSET Places
    <3>1. <<0, 0, 0>> \in Places BY RIdxNat DEF Places
    <3>2. \A d \in docs : \A r \in d : BucketsOf(r) \subseteq Places BY BucketsPlaced DEF DocsT
    <3>3. \A d \in docs : CoveredBy(d, Head(sc.rs)) \subseteq Places BY <3>2 DEF CoveredBy, ReadBucketsRange, Overlapping
    <3>4. QED BY <2>1, <3>1, <3>3 DEF RangeBucketsFor
  <2>3. PICK v \in WayT : v = [cursor |-> 0, inHeap |-> 0, done |-> FALSE]
    <3>1. PICK d \in BOOLEAN : d = FALSE OBVIOUS
    <3>2. [cursor |-> 0, inHeap |-> 0, done |-> d] \in WayT BY DEF WayT
    <3>3. QED BY <3>1, <3>2
  <2>4. v.cursor = 0 /\ v.inHeap = 0 /\ ~v.done BY <2>3
  <2>5. PICK G : G = [w \in b |-> v] OBVIOUS
  <2>6. G \in WaysT /\ DOMAIN G = b /\ \A w \in b : G[w] = v BY <2>2, <2>5 DEF WaysT
  <2>7. (sc.wide \/ Cardinality(b) > 1) \in BOOLEAN OBVIOUS
  <2>8. PICK x \in BOOLEAN : x = (sc.wide \/ Cardinality(b) > 1) BY <2>7, Zenon
  <2>8a. (sc.stale \/ Misses(b, Head(sc.rs))) \in BOOLEAN OBVIOUS
  <2>8b. PICK y \in BOOLEAN : y = (sc.stale \/ Misses(b, Head(sc.rs))) BY <2>8a, Zenon
  <2>9. sc' = [sc EXCEPT !.pc = "seed", !.wide = x, !.stale = y, !.ways = G] BY <2>1, <2>3, <2>5, <2>8, <2>8b DEF Scan
  <2>10. sc' \in ScanT BY <2>6, <2>9 DEF ScanT
  <2>11. sc'.pc = "seed" /\ sc'.wide = x /\ sc'.stale = y /\ sc'.ways = G BY <2>9 DEF ScanT
  <2>12. /\ sc'.hot = sc.hot /\ sc'.rs = sc.rs /\ sc'.desc = sc.desc /\ sc'.pred = sc.pred /\ sc'.heap = sc.heap /\ sc'.cand = sc.cand
         /\ sc'.seen = sc.seen /\ sc'.out = sc.out /\ sc'.must = sc.must /\ sc'.moved = sc.moved /\ sc'.stray = sc.stray
    BY <2>9 DEF ScanT
  <2>13. (x <=> sc.wide \/ Cardinality(b) > 1) /\ (y <=> sc.stale \/ Misses(b, Head(sc.rs))) BY <2>8, <2>8b
  <2>14. Routed(b) BY <2>2, <2>4, <2>6, <2>10, <2>11, <2>12, <2>13 DEF Routed
  <2>15. QED BY <1>2, <2>14
<1>3. QED BY <1>1, <1>2

\* A page step, up to the place in the loop.
LEMMA PagedOn ==
    ASSUME NEW s, NEW W, NEW count, NEW t, Paged(s, W, count, t), NEW p \in {"step", "fetch"}, sc' = [t EXCEPT !.pc = p]
    PROVE  Paged(s, W, count, sc') /\ sc'.pc = p
<1>1. t \in ScanT BY DEF Paged
<1>2. sc' \in ScanT /\ sc'.pc = p /\ Same(t, sc') /\ sc'.cand = t.cand /\ sc'.heap = t.heap /\ sc'.ways = t.ways BY <1>1 DEF ScanT, Same
<1>3. QED BY <1>2 DEF Paged, Same

LEMMA SeedEffect ==
    ASSUME Loose, sc \in ScanT, Seed
    PROVE  sc'.pc = "step" /\ Paged(sc, DOMAIN sc.ways, 1, sc')
<1>1. PICK t : t = Pages(sc, DOMAIN sc.ways, 1) OBVIOUS
<1>2. PICK W \in SUBSET DOMAIN sc.ways : W = DOMAIN sc.ways OBVIOUS
<1>3. PICK n \in Nat : n = 1 OBVIOUS
<1>4. Paged(sc, W, n, t) BY <1>1, <1>2, <1>3, PagesFacts DEF Loose
<1>5. sc' = [t EXCEPT !.pc = "step"] BY <1>1 DEF Seed, Scan
<1>6. Paged(sc, W, n, sc') /\ sc'.pc = "step" BY <1>4, <1>5, PagedOn
<1>7. QED BY <1>2, <1>3, <1>6

\* The batch f, out of the heap and into the candidates: u.
Took(f, u) ==
    /\ u \in ScanT /\ Same(sc, u) /\ u.heap = sc.heap \ Elems(f) /\ BatchOf(sc.heap, sc.desc, f)
    /\ DOMAIN u.cand = DOMAIN f /\ Len(u.cand) <= ExecBatch /\ \A i \in DOMAIN f : u.cand[i] = f[i][1]
    /\ DOMAIN u.ways = DOMAIN sc.ways
    /\ \A w \in DOMAIN sc.ways : u.ways[w].cursor = sc.ways[w].cursor /\ u.ways[w].done = sc.ways[w].done
    /\ Counted(u)

LEMMA StepEffect ==
    ASSUME Loose, sc \in ScanT, HeapShape(sc), Counted(sc), sc.rs # <<>>, Step
    PROVE  \/ sc.heap = {} /\ Ended("route", Tail(sc.rs), <<>>)
           \/ \E f, u : Took(f, u) /\ HeapShape(u) /\ sc'.pc = "fetch" /\ Paged(u, RanEmpty(u), RefillPage, sc')
<1>1. CASE sc.heap = {}
  <2>1. PICK e \in WaysT : e = <<>> BY NoWays
  <2>2. sc.rs \in Seq(BoundT) BY DEF ScanT
  <2>3. PICK t \in Seq(BoundT) : t = Tail(sc.rs) BY <2>2, HeadTailProperties
  <2>4. sc' = [sc EXCEPT !.pc = "route", !.rs = t, !.ways = e] BY <1>1, <2>1, <2>3 DEF Step, Scan
  <2>5. sc' \in ScanT BY <2>4 DEF ScanT
  <2>6. Ended("route", t, e) BY <2>4, <2>5 DEF Ended, ScanT
  <2>7. QED BY <1>1, <2>1, <2>3, <2>6
<1>2. CASE sc.heap # {}
  <2>1. PICK f \in Batches(sc.heap, sc.desc) : sc' = [RefillWays(Popped(sc, f)) EXCEPT !.pc = "fetch"] BY <1>2 DEF Step, Scan
  <2>2. PICK u : u = Popped(sc, f) OBVIOUS
  <2>3. Took(f, u) BY <2>2, PopFacts DEF Took
  <2>4. HeapShape(u) BY <2>3 DEF Took, HeapShape, Same
  <2>5. PICK t : t = RefillWays(u) OBVIOUS
  <2>6. t = Pages(u, RanEmpty(u), RefillPage) BY <2>5 DEF RefillWays, RanEmpty
  <2>7. RefillPage \in Nat BY RangeAssumption
  <2>8. RanEmpty(u) \in SUBSET DOMAIN u.ways BY DEF RanEmpty
  <2>9. Paged(u, RanEmpty(u), RefillPage, t) BY <2>3, <2>6, <2>7, <2>8, PagesFacts DEF Loose, Took
  <2>10. sc' = [t EXCEPT !.pc = "fetch"] BY <2>1, <2>2, <2>5
  <2>11. Paged(u, RanEmpty(u), RefillPage, sc') /\ sc'.pc = "fetch" BY <2>9, <2>10, PagedOn
  <2>12. QED BY <2>3, <2>4, <2>11
<1>3. QED BY <1>1, <1>2

(***************************************************************************)
(* Fetch: the rows of new candidates, in their order.                      *)
(***************************************************************************)
Matching == {i \in Unseen(sc.cand, sc.seen) : RMatch(sc.cand[i][2])}
Delivered(new) ==
    /\ new \in Seq(RPks \X Scores) /\ DOMAIN new = 1 .. Len(new) /\ Len(new) \in Nat
    /\ \A n \in DOMAIN new : /\ Kth(Matching, n) \in Matching
                             /\ new[n][1] = sc.cand[Kth(Matching, n)][2] /\ new[n][2] = score[sc.cand[Kth(Matching, n)][2]]
    /\ \A n, h \in DOMAIN new : n < h => Kth(Matching, n) < Kth(Matching, h)
    /\ \A i \in Matching : \E n \in DOMAIN new : new[n][1] = sc.cand[i][2]

RowsGot(new) ==
    /\ Delivered(new)
    /\ sc' \in ScanT /\ sc'.pc = "step" /\ sc'.cand = <<>> /\ sc'.out = sc.out \o new
    /\ sc'.seen = sc.seen \cup {sc.cand[i][2] : i \in Unseen(sc.cand, sc.seen)}
    /\ ~sc'.stray => ~sc.stray /\ \A n \in DOMAIN new : sc.cand[Kth(Matching, n)][1] = new[n][2]
    /\ sc'.hot = sc.hot /\ sc'.rs = sc.rs /\ sc'.desc = sc.desc /\ sc'.pred = sc.pred /\ sc'.heap = sc.heap /\ sc'.ways = sc.ways
    /\ sc'.must = sc.must /\ sc'.moved = sc.moved /\ sc'.stale = sc.stale /\ sc'.wide = sc.wide

LEMMA FetchEffect ==
    ASSUME Loose, sc \in ScanT, Fetch
    PROVE  \E new : RowsGot(new)
<1>1. PICK items : items = Unseen(sc.cand, sc.seen) OBVIOUS
<1>2. PICK J : J = Matching OBVIOUS
<1>3. J = {i \in items : RMatch(sc.cand[i][2])} BY <1>1, <1>2 DEF Matching
<1>4. PICK rows : rows = At(sc.cand, J) OBVIOUS
<1>5. PICK new : new = [n \in DOMAIN rows |-> <<rows[n][2], score[rows[n][2]]>>] OBVIOUS
<1>6. PICK S : S = sc.seen \cup {sc.cand[i][2] : i \in items} OBVIOUS
<1>7. (sc.stray \/ \E n \in DOMAIN rows : rows[n][1] # score[rows[n][2]]) \in BOOLEAN OBVIOUS
<1>8. PICK x \in BOOLEAN : x = (sc.stray \/ \E n \in DOMAIN rows : rows[n][1] # score[rows[n][2]]) BY <1>7, Zenon
<1>9. PICK o : o = sc.out \o new BY Zenon
<1>10. sc' = [sc EXCEPT !.pc = "step", !.cand = <<>>, !.seen = S, !.out = o, !.stray = x]
  BY <1>1, <1>3, <1>4, <1>5, <1>6, <1>8, <1>9, Zenon DEF Fetch, Scan
<1>11. sc.cand \in Seq(RMembers) /\ sc.seen \in SUBSET RPks /\ sc.out \in Seq(RPks \X Scores) BY DEF ScanT
<1>12. items \in SUBSET DOMAIN sc.cand /\ J \in SUBSET DOMAIN sc.cand BY <1>1, <1>3 DEF Unseen
<1>13. /\ rows \in Seq(RMembers) /\ DOMAIN rows = 1 .. Len(rows) /\ Len(rows) \in Nat
       /\ \A n \in DOMAIN rows : Kth(J, n) \in J /\ rows[n] = sc.cand[Kth(J, n)]
       /\ \A n, h \in DOMAIN rows : n < h => Kth(J, n) < Kth(J, h)
       /\ \A i \in J : \E n \in DOMAIN rows : rows[n] = sc.cand[i]
  BY <1>4, <1>11, <1>12, AtFacts
<1>14. ASSUME NEW n \in DOMAIN rows PROVE <<rows[n][2], score[rows[n][2]]>> \in RPks \X Scores
  <2>1. rows[n] \in RMembers /\ Kth(J, n) \in J /\ rows[n] = sc.cand[Kth(J, n)] BY <1>13
  <2>2. rows[n][2] \in RPks BY <2>1, RMemberParts
  <2>3. score[rows[n][2]] # 0 BY <1>3, <2>1, Zenon DEF RMatch
  <2>4. score[rows[n][2]] \in Scores BY <2>2, <2>3 DEF Loose, IndexT
  <2>5. QED BY <2>2, <2>4
<1>15. new \in Seq(RPks \X Scores) /\ DOMAIN new = DOMAIN rows /\ Len(new) = Len(rows) BY <1>5, <1>13, <1>14
<1>16. \A n \in DOMAIN rows : new[n][1] = rows[n][2] /\ new[n][2] = score[rows[n][2]] BY <1>5
<1>17. Delivered(new) BY <1>2, <1>13, <1>15, <1>16, SMTT(30) DEF Delivered
<1>18. S \in SUBSET RPks
  <2>1. \A i \in items : sc.cand[i] \in RMembers BY <1>11, <1>12
  <2>2. \A i \in items : sc.cand[i][2] \in RPks BY <2>1, RMemberParts
  <2>3. QED BY <1>6, <1>11, <2>2
<1>19. o \in Seq(RPks \X Scores) BY <1>9, <1>11, <1>15, ConcatProperties
<1>20. <<>> \in Seq(RMembers) OBVIOUS
<1>21. sc' \in ScanT BY <1>10, <1>18, <1>19, <1>20 DEF ScanT
<1>22. sc'.pc = "step" /\ sc'.cand = <<>> /\ sc'.out = o /\ sc'.seen = S /\ sc'.stray = x BY <1>10 DEF ScanT
<1>23. /\ sc'.hot = sc.hot /\ sc'.rs = sc.rs /\ sc'.desc = sc.desc /\ sc'.pred = sc.pred /\ sc'.heap = sc.heap /\ sc'.ways = sc.ways
       /\ sc'.must = sc.must /\ sc'.moved = sc.moved /\ sc'.stale = sc.stale /\ sc'.wide = sc.wide
  BY <1>10 DEF ScanT
<1>24. ASSUME ~x PROVE ~sc.stray /\ \A n \in DOMAIN new : sc.cand[Kth(Matching, n)][1] = new[n][2]
  <2>1. ~sc.stray /\ \A n \in DOMAIN rows : rows[n][1] = score[rows[n][2]] BY <1>8, <1>24
  <2>2. QED BY <1>2, <1>13, <1>15, <1>16, <2>1
<1>25. QED BY <1>1, <1>6, <1>9, <1>17, <1>21, <1>22, <1>23, <1>24 DEF RowsGot


(***************************************************************************)
(* What writers and splitters do to a query that runs.                     *)
(***************************************************************************)
Unaltered ==
    /\ sc' \in ScanT /\ sc'.pc = sc.pc /\ sc'.hot = sc.hot /\ sc'.rs = sc.rs /\ sc'.desc = sc.desc /\ sc'.pred = sc.pred
    /\ sc'.ways = sc.ways /\ sc'.heap = sc.heap /\ sc'.cand = sc.cand /\ sc'.seen = sc.seen /\ sc'.out = sc.out
    /\ sc'.stale = sc.stale /\ sc'.wide = sc.wide /\ sc'.stray = sc.stray /\ sc'.must \subseteq sc.must /\ (sc.moved => sc'.moved)

\* Members only came, none of them of a row that the query must return.
Grown == \A i \in RIdx : bk[i] \subseteq bk'[i] /\ \A m \in bk'[i] : m \in bk[i] \/ m[2] \notin sc'.must

Aside ==
    /\ Unaltered /\ rw' \in Nat /\ rw <= rw' /\ (hot => hot')
    /\ (sc.pc # "idle" /\ ~sc'.moved) => Grown
    /\ sc.pc # "idle" => \A k \in sc'.must : score'[k] = score[k] /\ iv'[k] = iv[k]

LEMMA DisturbFacts ==
    ASSUME sc \in ScanT, NEW T, NEW mv \in BOOLEAN, Disturb(T, mv)
    PROVE  Unaltered /\ sc'.must = sc.must \ T /\ ((mv /\ sc.pc # "idle") => sc'.moved)
<1>1. PICK M \in SUBSET RPks : M = sc.must \ T BY DEF ScanT
<1>2. (sc.moved \/ (mv /\ sc.pc # "idle")) \in BOOLEAN OBVIOUS
<1>3. PICK b \in BOOLEAN : b = (sc.moved \/ (mv /\ sc.pc # "idle")) BY <1>2, Zenon
<1>4. sc' = [sc EXCEPT !.must = M, !.moved = b] BY <1>1, <1>3 DEF Disturb
<1>5. sc' \in ScanT BY <1>4 DEF ScanT
<1>6. sc'.must = M /\ sc'.moved = b BY <1>4 DEF ScanT
<1>7. /\ sc'.pc = sc.pc /\ sc'.hot = sc.hot /\ sc'.rs = sc.rs /\ sc'.desc = sc.desc /\ sc'.pred = sc.pred
      /\ sc'.ways = sc.ways /\ sc'.heap = sc.heap /\ sc'.cand = sc.cand /\ sc'.seen = sc.seen /\ sc'.out = sc.out
      /\ sc'.stale = sc.stale /\ sc'.wide = sc.wide /\ sc'.stray = sc.stray
  BY <1>4 DEF ScanT
<1>8. (sc.moved => b) /\ ((mv /\ sc.pc # "idle") => b) BY <1>3
<1>9. QED BY <1>1, <1>5, <1>6, <1>7, <1>8 DEF Unaltered

LEMMA WriteAside ==
    ASSUME Loose, sc \in ScanT, NEW k \in RPks, NEW s \in Scores \cup {0}, Write(k, s)
    PROVE  Aside
<1> DEFINE old == IF score[k] = 0 THEN {} ELSE Numbers(ReadBucketsRange(ranges, score[k], score[k]))
           add == IF s = 0 THEN {} ELSE WriteTargetsRange(s)
           gone == <<score[k], k, iv[k]>>
<1>1. /\ bk' = [i \in RIdx |-> (IF i \in old THEN bk[i] \ {gone} ELSE bk[i]) \cup (IF i \in add THEN {<<s, k, rw + 2>>} ELSE {})]
      /\ Disturb({k}, old # {})
      /\ score' = [score EXCEPT ![k] = s] /\ iv' = [iv EXCEPT ![k] = IF s = 0 THEN 0 ELSE rw + 2]
      /\ rw' = rw + 1 /\ UNCHANGED rdoc
  BY DEF Write
<1> HIDE DEF old, add, gone
<1>2. (old # {}) \in BOOLEAN OBVIOUS
<1>3. PICK mv \in BOOLEAN : mv = (old # {}) BY <1>2, Zenon
<1>4. Disturb({k}, mv) BY <1>1, <1>3
<1>5. Unaltered /\ sc'.must = sc.must \ {k} /\ ((mv /\ sc.pc # "idle") => sc'.moved) BY <1>4, DisturbFacts
<1>6. ASSUME sc.pc # "idle", ~sc'.moved PROVE Grown
  <2>1. old = {} BY <1>3, <1>5, <1>6
  <2>2. \A i \in RIdx : bk[i] \subseteq bk'[i] /\ \A m \in bk'[i] : m \in bk[i] \/ m = <<s, k, rw + 2>> BY <1>1, <2>1
  <2>3. <<s, k, rw + 2>>[2] = k OBVIOUS
  <2>4. QED BY <1>5, <2>2, <2>3 DEF Grown
<1>7. \A j \in sc'.must : score'[j] = score[j] /\ iv'[j] = iv[j]
  <2>1. score \in [RPks -> Scores \cup {0}] /\ iv \in [RPks -> Nat] BY DEF Loose, IndexT
  <2>2. QED BY <1>1, <1>5, <2>1
<1>8. rw' \in Nat /\ rw <= rw' /\ hot' = hot BY <1>1 DEF Loose, IndexT, rdoc
<1>9. QED BY <1>5, <1>6, <1>7, <1>8 DEF Aside

LEMMA ControllerAside ==
    ASSUME Loose, sc \in ScanT, Controller
    PROVE  Aside
<1>0. rw \in Nat BY DEF Loose, IndexT
<1>1. score' = score /\ iv' = iv /\ rw' = rw
  BY ZenonT(40) DEF Controller, Begin, CasNext, CasBusy, MigratePage, MigrateBatch, CasDrain, Unlink, CasFinal, RegisterHot, Crash, SStep
<1>2. hot => hot'
  BY Zenon DEF Controller, Begin, CasNext, CasBusy, MigratePage, MigrateBatch, CasDrain, Unlink, CasFinal, RegisterHot, Crash, rdoc
<1>3. ASSUME sc' = sc, bk' = bk PROVE Aside
  <2>1. Unaltered BY <1>3 DEF Unaltered
  <2>2. Grown BY <1>3 DEF Grown
  <2>3. QED BY <1>0, <1>1, <1>2, <2>1, <2>2 DEF Aside
<1>4. CASE MigrateBatch
  <2>1. PICK mv \in BOOLEAN : mv = TRUE OBVIOUS
  <2>2. Disturb({}, mv) BY <1>4, <2>1 DEF MigrateBatch
  <2>3. Unaltered /\ (sc.pc # "idle" => sc'.moved) BY <2>1, <2>2, DisturbFacts
  <2>4. QED BY <1>0, <1>1, <1>2, <2>3 DEF Aside
<1>5. CASE Unlink
  <2>0. (\E i \in Elems(sp.old) : bk[i] # {}) \in BOOLEAN OBVIOUS
  <2>1. PICK mv \in BOOLEAN : mv = (\E i \in Elems(sp.old) : bk[i] # {}) BY <2>0, Zenon
  <2>2. Disturb({}, mv) /\ bk' = [i \in RIdx |-> IF i \in Elems(sp.old) THEN {} ELSE bk[i]] BY <1>5, <2>1 DEF Unlink
  <2>3. Unaltered /\ ((mv /\ sc.pc # "idle") => sc'.moved) BY <2>2, DisturbFacts
  <2>4. ASSUME sc.pc # "idle", ~sc'.moved PROVE Grown
    <3>1. \A i \in Elems(sp.old) : bk[i] = {} BY <2>1, <2>3, <2>4
    <3>2. \A i \in RIdx : bk'[i] = bk[i] BY <2>2, <3>1
    <3>3. QED BY <3>2 DEF Grown
  <2>5. QED BY <1>0, <1>1, <1>2, <2>3, <2>4 DEF Aside
<1>6. CASE \/ \E op \in {"split", "merge"}, r \in ranges : Begin(op, r)
           \/ CasNext \/ CasBusy \/ MigratePage \/ CasDrain \/ CasFinal \/ RegisterHot \/ Crash
  <2>1. sc' = sc /\ bk' = bk BY <1>6, Zenon DEF Begin, CasNext, CasBusy, MigratePage, CasDrain, CasFinal, RegisterHot, Crash
  <2>2. QED BY <1>3, <2>1
<1>7. QED BY <1>4, <1>5, <1>6 DEF Controller

LEMMA OthersAside ==
    ASSUME Loose, sc \in ScanT, [RNext]_rvars
    PROVE  Query \/ Aside
<1>1. CASE UNCHANGED rvars
  <2>1. sc' = sc /\ bk' = bk /\ score' = score /\ iv' = iv /\ rw' = rw /\ hot' = hot BY <1>1 DEF rvars, rstore, rdoc
  <2>2. rw \in Nat BY DEF Loose, IndexT
  <2>3. Unaltered /\ Grown BY <2>1 DEF Unaltered, Grown
  <2>4. QED BY <2>1, <2>2, <2>3 DEF Aside
<1>2. CASE Controller BY <1>2, ControllerAside
<1>3. ASSUME NEW w \in Writes, Write(w[1], w[2]) PROVE Aside
  <2>1. w[1] \in RPks /\ w[2] \in Scores \cup {0} BY RangeAssumption
  <2>2. QED BY <1>3, <2>1, WriteAside
<1>4. QED BY <1>1, <1>2, <1>3 DEF RNext

(***************************************************************************)
(* The shape of the stream, and no row twice.                              *)
(***************************************************************************)
QueryStill == UNCHANGED <<score, iv, bk, ranges, next, hot, sp, rw, steps>>

LEMMA QueryQuiet == Query => QueryStill
BY Zenon DEF Query, RunRange, Route, Seed, Step, Fetch, Done, QStep, rstore, rdoc, QueryStill

LEMMA AsideShape ==
    ASSUME ScanShape, OutOnce, Aside, rw \in Nat
    PROVE  ScanShape' /\ OutOnce'
<1>1. Unaltered /\ rw' \in Nat /\ rw <= rw' BY DEF Aside
<1>2. /\ sc' \in ScanT /\ sc'.pc = sc.pc /\ sc'.rs = sc.rs /\ sc'.ways = sc.ways /\ sc'.heap = sc.heap /\ sc'.cand = sc.cand
      /\ sc'.seen = sc.seen /\ sc'.out = sc.out
  BY <1>1 DEF Unaltered
<1>3. HeapShape(sc)'
  <2>1. \A x \in sc.heap : x[1][3] \in Nat
    <3>1. \A x \in sc.heap : x[1] \in RMembers BY DEF ScanShape, ScanT
    <3>2. QED BY <3>1, RMemberParts
  <2>2. \A x \in sc.heap : x[1][3] <= rw + 1 BY DEF ScanShape, HeapShape
  <2>3. \A x \in sc.heap : x[1][3] <= rw' + 1 BY <1>1, <2>1, <2>2
  <2>4. QED BY <1>2, <2>3 DEF ScanShape, HeapShape
<1>4. CandShape(sc)' BY <1>2 DEF ScanShape, CandShape
<1>5. sc.pc \in {"step", "fetch"} => Counted(sc)' /\ Refilled(sc)' BY <1>2 DEF ScanShape, Counted, Refilled, InHeap
<1>6. ScanShape' BY <1>2, <1>3, <1>4, <1>5 DEF ScanShape
<1>7. OutOnce' BY <1>2 DEF OutOnce, ScanOnce
<1>8. QED BY <1>6, <1>7


LEMMA RunShape ==
    ASSUME Loose, NEW q, NEW desc, Begun(q, desc)
    PROVE  ScanShape' /\ OutOnce'
<1>1. sc' \in ScanT /\ sc'.pc = "route" /\ sc'.heap = {} /\ sc'.cand = <<>> /\ sc'.out = <<>> /\ sc'.ways = <<>> BY DEF Begun
<1>2. HeapShape(sc)' /\ CandShape(sc)' BY <1>1 DEF HeapShape, CandShape
<1>3. Len(sc'.cand) <= ExecBatch BY <1>1, RangeAssumption
<1>4. ScanShape' BY <1>1, <1>2, <1>3 DEF ScanShape, Reading
<1>5. OutOnce' BY <1>1 DEF OutOnce, ScanOnce
<1>6. QED BY <1>4, <1>5

LEMMA RouteShape ==
    ASSUME DocsT, ScanShape, OutOnce, Route
    PROVE  ScanShape' /\ OutOnce'
<1>1. sc \in ScanT /\ sc.pc = "route" /\ sc.heap = {} /\ sc.cand = <<>> /\ sc.ways = <<>> /\ Len(sc.cand) <= ExecBatch
  BY DEF ScanShape, Route, Reading
<1>2. CASE sc.rs = <<>> /\ Ended("done", sc.rs, sc.ways)
  <2>1. sc' \in ScanT /\ sc'.pc = "done" /\ sc'.rs = <<>> /\ sc'.ways = <<>> /\ sc'.heap = {} /\ sc'.cand = <<>> /\ sc'.seen = sc.seen /\ sc'.out = sc.out
    BY <1>1, <1>2 DEF Ended
  <2>2. HeapShape(sc)' /\ CandShape(sc)' BY <2>1 DEF HeapShape, CandShape
  <2>3. ScanShape' BY <1>1, <2>1, <2>2 DEF ScanShape, Reading
  <2>4. OutOnce' BY <2>1 DEF OutOnce, ScanOnce
  <2>5. QED BY <2>3, <2>4
<1>3. ASSUME NEW b, sc.rs # <<>>, Routed(b) PROVE ScanShape' /\ OutOnce'
  <2>1. /\ sc' \in ScanT /\ sc'.pc = "seed" /\ sc'.rs # <<>> /\ sc'.heap = {} /\ sc'.cand = <<>> /\ sc'.seen = sc.seen /\ sc'.out = sc.out
        /\ DOMAIN sc'.ways = b /\ \A w \in b : sc'.ways[w].cursor = 0 /\ sc'.ways[w].inHeap = 0 /\ ~sc'.ways[w].done
    BY <1>1, <1>3 DEF Routed
  <2>2. HeapShape(sc)' /\ CandShape(sc)' BY <2>1 DEF HeapShape, CandShape
  <2>3. ScanShape' BY <1>1, <2>1, <2>2 DEF ScanShape, Reading
  <2>4. OutOnce' BY <2>1 DEF OutOnce, ScanOnce
  <2>5. QED BY <2>3, <2>4
<1>4. QED BY <1>1, <1>2, <1>3, RouteEffect

\* Pages, seen from the state after the step.
LEMMA PagedShape ==
    ASSUME Loose, QueryStill, NEW s \in ScanT, HeapShape(s), Counted(s), NEW count \in Nat \ {0}, Paged(s, RanEmpty(s), count, sc')
    PROVE  Counted(sc)' /\ Refilled(sc)' /\ HeapShape(sc)'
<1>1. PICK t : t = Pages(s, RanEmpty(s), count) OBVIOUS
<1>2. Counted(t) /\ Refilled(t) /\ HeapShape(t) BY <1>1, PagesCount
<1>3. count \in Nat /\ RanEmpty(s) \in SUBSET DOMAIN s.ways BY DEF RanEmpty
<1>4. Paged(s, RanEmpty(s), count, t) BY <1>1, <1>3, PagesFacts DEF Loose
<1>5. t.heap = sc'.heap /\ t.rs = sc'.rs BY <1>4 DEF Paged, Same
<1>6. rw' = rw BY DEF QueryStill
<1>7. DOMAIN t.ways = DOMAIN sc'.ways BY <1>4 DEF Paged
<1>8. ASSUME NEW w \in DOMAIN t.ways PROVE t.ways[w].inHeap = sc'.ways[w].inHeap /\ (t.ways[w].done <=> sc'.ways[w].done)
  BY <1>3, <1>4 DEF Paged
<1>9. Counted(sc)' BY <1>2, <1>5, <1>7, <1>8 DEF Counted, InHeap
<1>10. Refilled(sc)' BY <1>2, <1>7, <1>8 DEF Refilled
<1>11. HeapShape(sc)' BY <1>2, <1>5, <1>6, <1>7 DEF HeapShape
<1>12. QED BY <1>9, <1>10, <1>11

LEMMA SeedShape ==
    ASSUME Loose, ScanShape, OutOnce, Seed, QueryStill
    PROVE  ScanShape' /\ OutOnce' /\ RanEmpty(sc) = DOMAIN sc.ways /\ Counted(sc)
<1>1. sc \in ScanT /\ sc.pc = "seed" /\ HeapShape(sc) /\ sc.rs # <<>> /\ sc.cand = <<>> /\ sc.heap = {} /\ Len(sc.cand) <= ExecBatch
  BY DEF ScanShape, Seed, Reading
<1>2. \A w \in DOMAIN sc.ways : sc.ways[w].inHeap = 0 /\ ~sc.ways[w].done BY <1>1 DEF ScanShape
<1>3. RanEmpty(sc) = DOMAIN sc.ways BY <1>2 DEF RanEmpty
<1>4. Counted(sc)
  <2>1. \A w : InHeap(sc, w) = {} BY <1>1 DEF InHeap
  <2>2. QED BY <1>2, <2>1, FS_EmptySet DEF Counted
<1>5. sc'.pc = "step" /\ Paged(sc, DOMAIN sc.ways, 1, sc') BY <1>1, SeedEffect
<1>6. 1 \in Nat \ {0} OBVIOUS
<1>7. Counted(sc)' /\ Refilled(sc)' /\ HeapShape(sc)' BY <1>1, <1>3, <1>4, <1>5, <1>6, PagedShape
<1>8. sc' \in ScanT /\ Same(sc, sc') /\ sc'.cand = sc.cand BY <1>5 DEF Paged
<1>9. CandShape(sc)' BY <1>1, <1>8 DEF CandShape
<1>10. ScanShape' BY <1>1, <1>5, <1>7, <1>8, <1>9 DEF ScanShape, Reading, Same
<1>11. OutOnce' BY <1>8 DEF OutOnce, ScanOnce, Same
<1>12. QED BY <1>3, <1>4, <1>10, <1>11

LEMMA StepShape ==
    ASSUME Loose, ScanShape, OutOnce, Step, QueryStill
    PROVE  ScanShape' /\ OutOnce'
<1>1. sc \in ScanT /\ sc.pc = "step" /\ HeapShape(sc) /\ Counted(sc) /\ sc.rs # <<>> /\ sc.cand = <<>> /\ Len(sc.cand) <= ExecBatch
  BY DEF ScanShape, Step, Reading
<1>2. CASE sc.heap = {} /\ Ended("route", Tail(sc.rs), <<>>)
  <2>1. sc' \in ScanT /\ sc'.pc = "route" /\ sc'.ways = <<>> /\ sc'.heap = {} /\ sc'.cand = <<>> /\ sc'.seen = sc.seen /\ sc'.out = sc.out
    BY <1>1, <1>2 DEF Ended
  <2>2. HeapShape(sc)' /\ CandShape(sc)' BY <2>1 DEF HeapShape, CandShape
  <2>3. ScanShape' BY <1>1, <2>1, <2>2 DEF ScanShape, Reading
  <2>4. OutOnce' BY <2>1 DEF OutOnce, ScanOnce
  <2>5. QED BY <2>3, <2>4
<1>3. ASSUME NEW f, NEW u, Took(f, u), HeapShape(u), sc'.pc = "fetch", Paged(u, RanEmpty(u), RefillPage, sc')
      PROVE  ScanShape' /\ OutOnce'
  <2>1. u \in ScanT /\ Counted(u) /\ Same(sc, u) /\ Len(u.cand) <= ExecBatch BY <1>3 DEF Took
  <2>2. RefillPage \in Nat \ {0} BY RangeAssumption
  <2>3. Counted(sc)' /\ Refilled(sc)' /\ HeapShape(sc)' BY <1>3, <2>1, <2>2, PagedShape
  <2>4. sc' \in ScanT /\ Same(u, sc') /\ sc'.cand = u.cand BY <1>3 DEF Paged
  <2>5. sc'.rs = sc.rs /\ sc'.seen = sc.seen /\ sc'.out = sc.out BY <2>1, <2>4 DEF Same
  <2>6. CandShape(sc)'
    <3>1. \A i \in DOMAIN f : f[i] \in sc.heap BY <1>3 DEF Took, BatchOf
    <3>2. \A i \in DOMAIN u.cand : i \in DOMAIN f /\ u.cand[i] = f[i][1] BY <1>3 DEF Took
    <3>3. QED BY <1>1, <2>4, <2>5, <3>1, <3>2 DEF CandShape, HeapShape
  <2>7. ScanShape' BY <1>1, <1>3, <2>1, <2>3, <2>4, <2>5, <2>6 DEF ScanShape, Reading
  <2>8. OutOnce' BY <2>5 DEF OutOnce, ScanOnce
  <2>9. QED BY <2>7, <2>8
<1>4. QED BY <1>1, <1>2, <1>3, StepEffect

\* The places of the concatenation.
LEMMA OutPlaces ==
    ASSUME NEW T, NEW a \in Seq(T), NEW b \in Seq(T), NEW c, c = a \o b
    PROVE  /\ \A i \in DOMAIN c : \/ i \in DOMAIN a /\ c[i] = a[i]
                                  \/ i \notin DOMAIN a /\ i - Len(a) \in DOMAIN b /\ c[i] = b[i - Len(a)]
           /\ \A i \in DOMAIN a : i \in DOMAIN c /\ c[i] = a[i]
           /\ \A n \in DOMAIN b : n + Len(a) \in DOMAIN c /\ c[n + Len(a)] = b[n]
           /\ DOMAIN a = 1 .. Len(a) /\ Len(a) \in Nat /\ DOMAIN b = 1 .. Len(b) /\ Len(b) \in Nat
<1>1. DOMAIN a = 1 .. Len(a) /\ Len(a) \in Nat /\ DOMAIN b = 1 .. Len(b) /\ Len(b) \in Nat OBVIOUS
<1>2. c \in Seq(T) /\ Len(c) = Len(a) + Len(b) /\ \A i \in 1 .. Len(a) + Len(b) : c[i] = IF i <= Len(a) THEN a[i] ELSE b[i - Len(a)]
  BY ConcatProperties
<1>3. DOMAIN c = 1 .. Len(a) + Len(b) BY <1>2
<1>4. ASSUME NEW i \in DOMAIN c
      PROVE  \/ i \in DOMAIN a /\ c[i] = a[i]
             \/ i \notin DOMAIN a /\ i - Len(a) \in DOMAIN b /\ c[i] = b[i - Len(a)]
  BY <1>1, <1>2, <1>3
<1>5. ASSUME NEW i \in DOMAIN a PROVE i \in DOMAIN c /\ c[i] = a[i] BY <1>1, <1>2, <1>3
<1>6. ASSUME NEW n \in DOMAIN b PROVE n + Len(a) \in DOMAIN c /\ c[n + Len(a)] = b[n]
  <2>1. n + Len(a) \in 1 .. Len(a) + Len(b) /\ ~(n + Len(a) <= Len(a)) /\ n + Len(a) - Len(a) = n BY <1>1, SMTT(30)
  <2>2. QED BY <1>2, <1>3, <2>1
<1>7. QED BY <1>1, <1>4, <1>5, <1>6

LEMMA FetchShape ==
    ASSUME Loose, ScanShape, OutOnce, Fetch, QueryStill
    PROVE  ScanShape' /\ OutOnce'
<1>1. sc \in ScanT /\ sc.pc = "fetch" /\ HeapShape(sc) /\ Counted(sc) /\ Refilled(sc) /\ sc.rs # <<>> BY DEF ScanShape, Fetch, Reading
<1>2. PICK new : RowsGot(new) BY <1>1, FetchEffect
<1>3. /\ sc' \in ScanT /\ sc'.pc = "step" /\ sc'.cand = <<>> /\ sc'.heap = sc.heap /\ sc'.ways = sc.ways /\ sc'.rs = sc.rs
      /\ sc'.out = sc.out \o new /\ sc'.seen = sc.seen \cup {sc.cand[i][2] : i \in Unseen(sc.cand, sc.seen)} /\ Delivered(new)
  BY <1>2 DEF RowsGot
<1>4. rw' = rw BY DEF QueryStill
<1>5. Counted(sc)' /\ Refilled(sc)' /\ HeapShape(sc)' /\ CandShape(sc)'
  BY <1>1, <1>3, <1>4 DEF Counted, Refilled, HeapShape, CandShape, InHeap
<1>6. Len(sc'.cand) <= ExecBatch BY <1>3, RangeAssumption
<1>7. ScanShape' BY <1>1, <1>3, <1>5, <1>6 DEF ScanShape, Reading
<1>8. \A i \in DOMAIN sc.out : sc.out[i][1] \in sc.seen BY DEF OutOnce
<1>9. \A i, j \in DOMAIN sc.out : sc.out[i][1] = sc.out[j][1] => i = j BY DEF OutOnce, ScanOnce
<1>10. /\ \A n \in DOMAIN new : Kth(Matching, n) \in Matching /\ new[n][1] = sc.cand[Kth(Matching, n)][2]
       /\ \A n, h \in DOMAIN new : n < h => Kth(Matching, n) < Kth(Matching, h)
  BY <1>3 DEF Delivered
<1>11. ASSUME NEW n \in DOMAIN new PROVE new[n][1] \notin sc.seen /\ new[n][1] \in sc'.seen
  BY <1>3, <1>10 DEF Matching, Unseen
<1>12. ASSUME NEW n \in DOMAIN new, NEW h \in DOMAIN new, n < h PROVE new[n][1] # new[h][1]
  <2>1. PICK a, b : a = Kth(Matching, n) /\ b = Kth(Matching, h) OBVIOUS
  <2>2. a \in Matching /\ b \in Matching /\ a < b /\ new[n][1] = sc.cand[a][2] /\ new[h][1] = sc.cand[b][2] BY <1>10, <1>12, <2>1
  <2>3. DOMAIN sc.cand = 1 .. Len(sc.cand) /\ Len(sc.cand) \in Nat BY <1>1 DEF ScanT
  <2>4. a \in Nat /\ b \in Nat /\ 1 <= a BY <2>2, <2>3 DEF Matching, Unseen
  <2>5. a \in 1 .. b - 1 BY <2>2, <2>4
  <2>6. \A j \in 1 .. b - 1 : sc.cand[j][2] # sc.cand[b][2] BY <2>2 DEF Matching, Unseen
  <2>7. QED BY <2>2, <2>5, <2>6
<1>13. PICK T : T = RPks \X Scores OBVIOUS
<1>14. sc.out \in Seq(T) /\ new \in Seq(T) BY <1>1, <1>3, <1>13 DEF ScanT, Delivered
<1>15. PICK o : o = sc.out \o new OBVIOUS
<1>16. /\ \A i \in DOMAIN o : \/ i \in DOMAIN sc.out /\ o[i] = sc.out[i]
                              \/ i \notin DOMAIN sc.out /\ i - Len(sc.out) \in DOMAIN new /\ o[i] = new[i - Len(sc.out)]
       /\ DOMAIN new = 1 .. Len(new) /\ Len(new) \in Nat /\ DOMAIN sc.out = 1 .. Len(sc.out) /\ Len(sc.out) \in Nat
  BY <1>14, <1>15, OutPlaces
<1>17. \A i \in DOMAIN o : i \in Nat
  <2>1. o \in Seq(T) BY <1>14, <1>15, ConcatProperties
  <2>2. QED BY <2>1
<1>18. ASSUME NEW i \in DOMAIN o PROVE o[i][1] \in sc'.seen BY <1>3, <1>8, <1>11, <1>16
<1>19. ASSUME NEW i \in DOMAIN o, NEW j \in DOMAIN o, i < j PROVE o[i][1] # o[j][1]
  <2>1. CASE i \in DOMAIN sc.out /\ j \in DOMAIN sc.out BY <1>9, <1>16, <1>17, <1>19, <2>1
  <2>2. CASE i \in DOMAIN sc.out /\ j \notin DOMAIN sc.out
    <3>1. o[i][1] \in sc.seen BY <1>8, <1>16, <2>2
    <3>2. o[j][1] \notin sc.seen BY <1>11, <1>16, <2>2
    <3>3. QED BY <3>1, <3>2
  <2>3. CASE i \notin DOMAIN sc.out
    <3>1. j \notin DOMAIN sc.out BY <1>16, <1>17, <1>19, <2>3
    <3>2. PICK n \in DOMAIN new, h \in DOMAIN new : n = i - Len(sc.out) /\ h = j - Len(sc.out) /\ o[i] = new[n] /\ o[j] = new[h]
      BY <1>16, <2>3, <3>1
    <3>3. n < h BY <1>16, <1>17, <1>19, <3>2
    <3>4. QED BY <1>12, <3>2, <3>3
  <2>4. QED BY <2>1, <2>2, <2>3
<1>20. \A i, j \in DOMAIN o : o[i][1] = o[j][1] => i = j BY <1>17, <1>19
<1>21. OutOnce' BY <1>3, <1>15, <1>18, <1>20 DEF OutOnce, ScanOnce
<1>22. QED BY <1>7, <1>21

LEMMA IdleShape ==
    ASSUME NEW s, s = NoScan, sc' = s
    PROVE  ScanShape' /\ OutOnce'
<1>1. sc' \in ScanT /\ NoScanFields(sc') BY NoScanT
<1>2. HeapShape(sc)' /\ CandShape(sc)' BY <1>1 DEF HeapShape, CandShape, NoScanFields
<1>3. Len(sc'.cand) <= ExecBatch BY <1>1, RangeAssumption DEF NoScanFields
<1>4. ScanShape' BY <1>1, <1>2, <1>3 DEF ScanShape, Reading, NoScanFields
<1>5. OutOnce' BY <1>1 DEF OutOnce, ScanOnce, NoScanFields
<1>6. QED BY <1>4, <1>5

StreamInv == Loose /\ DocsT /\ ScanShape /\ OutOnce /\ scans \in Nat

LEMMA StreamInit == RInit => StreamInv
<1> SUFFICES ASSUME RInit PROVE StreamInv OBVIOUS
<1>1. Loose BY LooseInit
<1>2. sc = NoScan BY DEF RInit
<1>3. sc \in ScanT /\ NoScanFields(sc) BY <1>2, NoScanT
<1>4. HeapShape(sc) /\ CandShape(sc) BY <1>3 DEF HeapShape, CandShape, NoScanFields
<1>5. Len(sc.cand) <= ExecBatch BY <1>3, RangeAssumption DEF NoScanFields
<1>6. ScanShape BY <1>3, <1>4, <1>5 DEF ScanShape, Reading, NoScanFields
<1>7. OutOnce BY <1>3 DEF OutOnce, ScanOnce, NoScanFields
<1>8. scans \in Nat /\ docs = {ranges} BY DEF RInit
<1>9. DocsT BY <1>1, <1>8 DEF DocsT, Loose, IndexT
<1>10. QED BY <1>1, <1>6, <1>7, <1>8, <1>9 DEF StreamInv

\* The caches hold documents.
LEMMA DocsStep ==
    ASSUME DocsT, Loose', [RNext]_rvars
    PROVE  DocsT'
<1>1. docs' = docs \/ (docs' = {ranges} /\ ranges' = ranges) \/ docs' = docs \cup {ranges'}
  <2>1. CASE UNCHANGED rvars BY <2>1 DEF rvars, rdoc
  <2>2. CASE Query BY <2>2, Zenon DEF Query, RunRange, Route, Seed, Step, Fetch, Done, QStep, rdoc
  <2>3. CASE Controller
    BY <2>3, Zenon DEF Controller, Begin, CasNext, CasBusy, MigratePage, MigrateBatch, CasDrain, Unlink, CasFinal, RegisterHot, Crash, Written, rdoc
  <2>4. ASSUME NEW w \in Writes, Write(w[1], w[2]) PROVE docs' = docs BY <2>4 DEF Write, rdoc
  <2>5. QED BY <2>1, <2>2, <2>3, <2>4 DEF RNext
<1>2. ranges' \subseteq RangeT BY DEF Loose, IndexT
<1>3. CASE docs' = {ranges} /\ ranges' = ranges BY <1>2, <1>3 DEF DocsT
<1>4. CASE docs' = docs BY <1>4 DEF DocsT
<1>5. CASE docs' = docs \cup {ranges'} BY <1>2, <1>5 DEF DocsT
<1>6. QED BY <1>1, <1>3, <1>4, <1>5

LEMMA ScanStep == StreamInv /\ [RNext]_rvars => StreamInv'
<1> SUFFICES ASSUME StreamInv, [RNext]_rvars PROVE StreamInv' OBVIOUS
<1>0. Loose /\ DocsT /\ ScanShape /\ OutOnce /\ sc \in ScanT /\ rw \in Nat BY DEF StreamInv, ScanShape, Loose, IndexT
<1>1. Loose' /\ DocsT' /\ scans' \in Nat
  <2>1. Loose' /\ DocsT' BY <1>0, LooseStep, DocsStep
  <2>2. CASE UNCHANGED rvars BY <2>1, <2>2 DEF StreamInv, rvars
  <2>3. CASE Query
    <3>1. scans' = scans \/ scans' = scans + 1 BY <2>3, Zenon DEF Query, RunRange, Route, Seed, Step, Fetch, Done
    <3>2. scans \in Nat BY DEF StreamInv
    <3>3. QED BY <2>1, <3>1, <3>2
  <2>4. CASE Controller
    BY <2>1, <2>4, Zenon DEF StreamInv, Controller, Begin, CasNext, CasBusy, MigratePage, MigrateBatch, CasDrain, Unlink, CasFinal, RegisterHot,
                      Crash, SStep
  <2>5. ASSUME NEW w \in Writes, Write(w[1], w[2]) PROVE scans' \in Nat BY <2>5 DEF StreamInv, Write
  <2>6. QED BY <2>1, <2>2, <2>3, <2>4, <2>5 DEF RNext
<1>2. CASE Query
  <2>0. QueryStill BY <1>2, QueryQuiet
  <2>1. ASSUME NEW q \in Queries, RunRange(q[1], q[2]) PROVE ScanShape' /\ OutOnce'
    <3>1. PICK a \in Seq(Valued("num")), d \in BOOLEAN : a = q[1] /\ d = q[2] BY RangeAssumption
    <3>2. Begun(a, d) BY <1>0, <2>1, <3>1, RunEffect
    <3>3. QED BY <1>0, <3>2, RunShape
  <2>2. CASE Route BY <1>0, <1>1, <2>2, RouteShape DEF StreamInv
  <2>3. CASE Seed BY <1>0, <1>1, <2>0, <2>3, SeedShape DEF StreamInv
  <2>4. CASE Step BY <1>0, <1>1, <2>0, <2>4, StepShape DEF StreamInv
  <2>5. CASE Fetch BY <1>0, <1>1, <2>0, <2>5, FetchShape DEF StreamInv
  <2>6. CASE Done
    <3>1. sc' = NoScan BY <2>6 DEF Done, Scan
    <3>2. QED BY <1>1, <3>1, IdleShape DEF StreamInv
  <2>7. QED BY <1>1, <1>2, <2>1, <2>2, <2>3, <2>4, <2>5, <2>6 DEF Query, StreamInv
<1>3. CASE Aside
  <2>1. ScanShape' /\ OutOnce' BY <1>0, <1>3, AsideShape
  <2>2. QED BY <1>1, <2>1 DEF StreamInv
<1>4. QED BY <1>0, <1>2, <1>3, OthersAside

LEMMA StreamAlways == RSpec => []StreamInv
BY StreamInit, ScanStep, PTL DEF RSpec

\* ScanOnce: no row comes twice, although its member may be in the parent and in a child,
\* the target of a merge is read up to four times, and inserts shift the pages - whatever
\* merges are asked for.
THEOREM RowsComeOnce == RSpec => []ScanOnce
<1>1. StreamInv => ScanOnce BY DEF StreamInv, OutOnce
<1>2. QED BY <1>1, StreamAlways, PTL

\* RTypeOK: what a way has in the heap is what its counter says, and a batch of candidates is
\* no longer than exec.batch.
THEOREM RangeTypeCorrect == RSpec => []RTypeOK
<1>1. StreamInv => RTypeOK
  <2> SUFFICES ASSUME StreamInv PROVE RTypeOK OBVIOUS
  <2>1. IndexT /\ DocsT /\ ScanShape /\ sc \in ScanT BY DEF StreamInv, Loose, ScanShape
  <2>2. /\ sc.seen \subseteq RPks /\ sc.heap \subseteq RMembers \X Places /\ sc.cand \in Seq(RMembers) /\ Len(sc.cand) <= ExecBatch
        /\ sc.out \in Seq(RPks \X Scores)
    BY <2>1 DEF ScanT, ScanShape
  <2>3. DOMAIN sc.ways \subseteq Places /\ \A w \in DOMAIN sc.ways : sc.ways[w] \in WayT BY <2>1, WaysParts
  <2>4. ASSUME NEW w \in DOMAIN sc.ways PROVE sc.ways[w].inHeap = Cardinality({x \in sc.heap : x[2] = w})
    <3>1. CASE sc.pc \in {"step", "fetch"} BY <2>1, <3>1 DEF ScanShape, Counted, InHeap
    <3>2. CASE sc.pc = "seed"
      <4>1. sc.ways[w].inHeap = 0 /\ {x \in sc.heap : x[2] = w} = {} BY <2>1, <3>2 DEF ScanShape
      <4>2. QED BY <4>1, FS_EmptySet
    <3>3. CASE sc.pc \notin Reading
      <4>1. sc.ways = <<>> BY <2>1, <3>3 DEF ScanShape
      <4>2. QED BY <4>1, NoWays
    <3>4. QED BY <3>1, <3>2, <3>3 DEF Reading
  <2>5. {rw, steps, scans} \subseteq Nat BY <2>1 DEF IndexT, StreamInv
  <2>6. QED BY <2>1, <2>2, <2>3, <2>4, <2>5 DEF RTypeOK, IndexT, DocsT
<1>2. QED BY <1>1, StreamAlways, PTL


(***************************************************************************)
(* What lies behind a cursor came up.                                      *)
(***************************************************************************)
LEMMA LeastOf ==
    ASSUME NEW S \in SUBSET Nat, IsFiniteSet(S), S # {}
    PROVE  \E a \in S : \A b \in S : a <= b
<1>1. PICK c : c = Cardinality(S) OBVIOUS
<1>2. /\ c \in Nat
      /\ \A n \in 1 .. c : Kth(S, n) \in S
      /\ \A a \in S : \E n \in 1 .. c : Kth(S, n) = a
      /\ \A n, h \in 1 .. c : n < h => Kth(S, n) < Kth(S, h)
  BY <1>1, KthOrder
<1>3. c # 0 BY <1>1, FS_EmptySet
<1>4. 1 \in 1 .. c BY <1>2, <1>3
<1>5. ASSUME NEW b \in S PROVE Kth(S, 1) <= b
  <2>1. PICK n \in 1 .. c : Kth(S, n) = b BY <1>2
  <2>2. n = 1 \/ 1 < n BY <1>2
  <2>3. Kth(S, 1) \in Nat /\ b \in Nat BY <1>2, <1>4
  <2>4. QED BY <1>2, <1>4, <2>1, <2>2, <2>3
<1>6. QED BY <1>2, <1>4, <1>5

LEMMA SeenAll ==
    ASSUME sc \in ScanT, NEW new, RowsGot(new)
    PROVE  \A i \in DOMAIN sc.cand : sc.cand[i][2] \in sc'.seen
<1> TAKE i \in DOMAIN sc.cand
<1>1. sc'.seen = sc.seen \cup {sc.cand[j][2] : j \in Unseen(sc.cand, sc.seen)} BY DEF RowsGot
<1>2. DOMAIN sc.cand = 1 .. Len(sc.cand) /\ Len(sc.cand) \in Nat BY DEF ScanT
<1>3. CASE sc.cand[i][2] \notin sc.seen
  <2> DEFINE S == {j \in DOMAIN sc.cand : sc.cand[j][2] = sc.cand[i][2]}
  <2>1. S \in SUBSET Nat /\ i \in S BY <1>2
  <2>2. IsFiniteSet(1 .. Len(sc.cand))
    <3>1. 1 \in Int /\ Len(sc.cand) \in Int BY <1>2
    <3>2. QED BY <3>1, FS_Interval
  <2>3. IsFiniteSet(S) BY <1>2, <2>2, FS_Subset
  <2>4. PICK a \in S : \A b \in S : a <= b
    <3> HIDE DEF S
    <3>1. S # {} BY <2>1
    <3>2. QED BY <2>1, <2>3, <3>1, LeastOf
  <2>5. a \in DOMAIN sc.cand /\ a \in Nat /\ sc.cand[a][2] = sc.cand[i][2] BY <1>2
  <2>6. ASSUME NEW j \in 1 .. a - 1, sc.cand[j][2] = sc.cand[a][2] PROVE FALSE
    <3>1. j \in DOMAIN sc.cand /\ ~(a <= j) BY <1>2, <2>5
    <3>2. j \in S BY <2>5, <2>6, <3>1
    <3>3. QED BY <2>4, <3>1, <3>2
  <2>7. a \in Unseen(sc.cand, sc.seen) BY <1>3, <2>5, <2>6 DEF Unseen
  <2>8. QED BY <1>1, <2>5, <2>7
<1>4. QED BY <1>1, <1>3

LEMMA RankMonotone ==
    ASSUME NEW A, NEW B \in SUBSET RMembers, IsFiniteSet(B), A \subseteq B, NEW desc \in BOOLEAN, NEW m
    PROVE  RankIn(A, desc, m) \in Nat /\ RankIn(B, desc, m) \in Nat /\ RankIn(A, desc, m) <= RankIn(B, desc, m)
<1> DEFINE P == {o \in A : Precede(desc, o, m)}
           Q == {o \in B : Precede(desc, o, m)}
<1>1. P \subseteq Q OBVIOUS
<1>2. Q \subseteq B OBVIOUS
<1>3. IsFiniteSet(Q) BY <1>2, FS_Subset
<1>4. IsFiniteSet(P) /\ Cardinality(P) <= Cardinality(Q) BY <1>1, <1>3, FS_Subset
<1>5. Cardinality(P) \in Nat /\ Cardinality(Q) \in Nat BY <1>3, <1>4, FS_CardinalityType
<1>6. QED BY <1>4, <1>5 DEF RankIn

LEMMA WithinFinite ==
    ASSUME Loose, NEW b \in RIdx, NEW r
    PROVE  Within(b, r) \in SUBSET RMembers /\ IsFiniteSet(Within(b, r))
<1>1. bk[b] \in SUBSET RMembers /\ IsFiniteSet(bk[b]) BY LooseFinite DEF Loose
<1>2. Within(b, r) \in SUBSET bk[b] BY DEF Within
<1>3. QED BY <1>1, <1>2, FS_Subset

LEMMA PagedBehind ==
    ASSUME Loose, NEW s \in ScanT, Behind(s), NEW count \in Nat, NEW W \in SUBSET DOMAIN s.ways, NEW t, Paged(s, W, count, t)
    PROVE  Behind(t)
<1>0. IndexT /\ Stamped BY DEF Loose
<1>1. /\ t \in ScanT /\ Same(s, t) /\ t.cand = s.cand /\ t.heap = s.heap \cup PageItems(s, W, count) /\ DOMAIN t.ways = DOMAIN s.ways
      /\ \A w \in DOMAIN s.ways : w \notin W => t.ways[w] = s.ways[w]
      /\ \A w \in W : /\ t.ways[w].cursor = s.ways[w].cursor + Len(PageOf(s, w, count))
                      /\ t.ways[w].done <=> Len(PageOf(s, w, count)) < count
  BY DEF Paged
<1>2. t.rs = s.rs /\ t.desc = s.desc /\ t.must = s.must /\ t.seen = s.seen BY <1>1 DEF Same
<1>3. \A k : CameUp(s, k) => CameUp(t, k) BY <1>1, <1>2 DEF CameUp, InCand
<1>4. \A w : InBucket(t, w[1]) = InBucket(s, w[1]) BY <1>2 DEF InBucket
<1>5. ItemsShape(s, W, count) BY <1>0, ItemFacts
<1>6. ASSUME NEW w \in DOMAIN s.ways, NEW m \in InBucket(s, w[1]), m[2] \in s.must, Passed(t, w, m) PROVE CameUp(t, m[2])
  <2>1. t.ways[w].done \/ RankIn(InBucket(s, w[1]), s.desc, m) < t.ways[w].cursor BY <1>2, <1>4, <1>6 DEF Passed
  <2>2. CASE w \notin W
    <3>1. Passed(s, w, m) BY <1>1, <2>1, <2>2 DEF Passed
    <3>2. CameUp(s, m[2]) BY <1>6, <3>1 DEF Behind
    <3>3. QED BY <1>3, <3>2
  <2>3. CASE w \in W
    <3>1. PICK p : p = PageOf(s, w, count) OBVIOUS
    <3>2. PICK n : n = RankIn(InBucket(s, w[1]), s.desc, m) OBVIOUS
    <3>3. IsPage(InBucket(s, w[1]), s.desc, s.ways[w].cursor, count, p) BY <1>0, <3>1, PageIn
    <3>4. /\ n \in Nat /\ (n < s.ways[w].cursor \/ n >= s.ways[w].cursor + Len(p) \/ \E i \in DOMAIN p : p[i] = m)
          /\ Len(p) < count => (n < s.ways[w].cursor \/ \E i \in DOMAIN p : p[i] = m)
          /\ Len(p) \in Nat
      BY <1>6, <3>2, <3>3 DEF IsPage
    <3>5. s.ways[w].cursor \in Nat BY WaysParts DEF WayT
    <3>6. n < s.ways[w].cursor \/ \E i \in DOMAIN p : p[i] = m
      <4>1. CASE t.ways[w].done BY <1>1, <2>3, <3>1, <3>4, <4>1
      <4>2. CASE n < t.ways[w].cursor
        <5>1. n < s.ways[w].cursor + Len(p) BY <1>1, <2>3, <3>1, <4>2
        <5>2. QED BY <3>4, <3>5, <5>1
      <4>3. QED BY <2>1, <3>2, <4>1, <4>2
    <3>7. CASE n < s.ways[w].cursor
      <4>1. Passed(s, w, m) BY <3>2, <3>7 DEF Passed
      <4>2. CameUp(s, m[2]) BY <1>6, <4>1 DEF Behind
      <4>3. QED BY <1>3, <4>2
    <3>8. ASSUME NEW i \in DOMAIN p, p[i] = m PROVE CameUp(t, m[2])
      <4>1. PICK x : x = <<m, w>> OBVIOUS
      <4>2. x \in t.heap BY <1>1, <1>5, <2>3, <3>1, <3>8, <4>1 DEF ItemsShape
      <4>3. x[1] = m BY <4>1
      <4>4. QED BY <4>2, <4>3 DEF CameUp
    <3>9. QED BY <3>6, <3>7, <3>8
  <2>4. QED BY <2>2, <2>3
<1>7. QED BY <1>1, <1>2, <1>4, <1>6 DEF Behind

\* A batch goes from the heap to the candidates.
LEMMA TookUp ==
    ASSUME sc \in ScanT, sc.cand = <<>>, NEW f, NEW u, Took(f, u)
    PROVE  \A k : CameUp(sc, k) => CameUp(u, k)
<1>1. /\ Same(sc, u) /\ u.heap = sc.heap \ Elems(f) /\ DOMAIN u.cand = DOMAIN f /\ \A i \in DOMAIN f : u.cand[i] = f[i][1]
  BY DEF Took
<1>2. u.seen = sc.seen BY <1>1 DEF Same
<1>3. ASSUME NEW k, CameUp(sc, k) PROVE CameUp(u, k)
  <2>1. CASE k \in sc.seen BY <1>2, <2>1 DEF CameUp
  <2>2. ASSUME NEW x \in sc.heap, x[1][2] = k PROVE CameUp(u, k)
    <3>1. CASE x \in u.heap BY <2>2, <3>1 DEF CameUp
    <3>2. CASE x \notin u.heap
      <4>1. PICK i \in DOMAIN f : x = f[i] BY <1>1, <3>2 DEF Elems
      <4>2. i \in DOMAIN u.cand /\ u.cand[i][2] = k BY <1>1, <2>2, <4>1
      <4>3. QED BY <4>2 DEF CameUp, InCand
    <3>3. QED BY <3>1, <3>2
  <2>3. ~InCand(sc, k) BY DEF InCand
  <2>4. QED BY <1>3, <2>1, <2>2, <2>3 DEF CameUp
<1>4. QED BY <1>3

LEMMA TookBehind ==
    ASSUME sc \in ScanT, Behind(sc), sc.cand = <<>>, NEW f, NEW u, Took(f, u)
    PROVE  Behind(u)
<1>1. /\ Same(sc, u) /\ DOMAIN u.ways = DOMAIN sc.ways
      /\ \A w \in DOMAIN sc.ways : u.ways[w].cursor = sc.ways[w].cursor /\ u.ways[w].done = sc.ways[w].done
  BY DEF Took
<1>2. u.rs = sc.rs /\ u.desc = sc.desc /\ u.must = sc.must BY <1>1 DEF Same
<1>3. \A k : CameUp(sc, k) => CameUp(u, k) BY TookUp
<1>4. \A w : InBucket(u, w[1]) = InBucket(sc, w[1]) BY <1>2 DEF InBucket
<1>5. QED BY <1>1, <1>2, <1>3, <1>4 DEF Behind, Passed

\* The same, in the state after a step of the query.
LEMMA BehindNext ==
    ASSUME QueryStill, NEW t, Behind(t), t = sc'
    PROVE  Behind(sc)'
<1>1. bk' = bk BY DEF QueryStill
<1>2. QED BY <1>1 DEF Behind, Passed, CameUp, InCand, InBucket, Within

FiniteNext == \A b \in RIdx : bk'[b] \in SUBSET RMembers /\ IsFiniteSet(bk'[b])

LEMMA NextFinite == Loose' => FiniteNext
<1>1. Loose' => bk' \in [RIdx -> SUBSET RMembers] /\ rw' \in Nat BY DEF Loose, IndexT
<1>2. Loose' => \A b \in RIdx : \A o \in bk'[b] : o[3] <= rw' + 1 BY DEF Loose, Stamped
<1>3. ASSUME bk' \in [RIdx -> SUBSET RMembers], rw' \in Nat, \A b \in RIdx : \A o \in bk'[b] : o[3] <= rw' + 1
      PROVE  FiniteNext
  <2>1. SUFFICES ASSUME NEW b \in RIdx PROVE bk'[b] \in SUBSET RMembers /\ IsFiniteSet(bk'[b]) BY DEF FiniteNext
  <2>2. PICK x \in Nat : x = rw' BY <1>3, Zenon
  <2>3. PICK S \in SUBSET RMembers : S = bk'[b] BY <1>3
  <2>4. \A o \in S : o[3] <= x + 1 BY <1>3, <2>2, <2>3, Zenon
  <2>5. x + 1 \in Nat OBVIOUS
  <2>6. IsFiniteSet(S) BY <2>4, <2>5, BucketsFinite
  <2>7. QED BY <2>3, <2>6
<1>4. QED BY <1>1, <1>2, <1>3, Zenon

LEMMA AsideBehind ==
    ASSUME Loose, FiniteNext, sc \in ScanT, Aside, sc.pc # "idle", ~sc'.moved, Behind(sc)
    PROVE  Behind(sc)'
<1>1. /\ Grown /\ sc'.rs = sc.rs /\ sc'.desc = sc.desc /\ sc'.ways = sc.ways /\ sc'.heap = sc.heap /\ sc'.cand = sc.cand
      /\ sc'.seen = sc.seen /\ sc'.must \subseteq sc.must
  BY DEF Aside, Unaltered
<1>2. \A k : CameUp(sc, k) => CameUp(sc, k)' BY <1>1 DEF CameUp, InCand
<1>2a. \A b \in RIdx : bk'[b] \in SUBSET RMembers /\ IsFiniteSet(bk'[b]) BY DEF FiniteNext
<1>3. ASSUME NEW w \in DOMAIN sc.ways, NEW m \in InBucket(sc, w[1])', m[2] \in sc'.must, Passed(sc, w, m)' PROVE CameUp(sc, m[2])'
  <2>1. PICK r : r = Head(sc.rs) OBVIOUS
  <2>2. PICK b \in RIdx : b = w[1] BY WaysParts
  <2>3. PICK B : B = Within(b, r)' OBVIOUS
  <2>4. B = {o \in bk'[b] : Contains(r, o[1])} BY <2>3 DEF Within
  <2>5. InBucket(sc, w[1])' = B BY <1>1, <2>1, <2>2, <2>4 DEF InBucket, Within
  <2>6. PICK A : A = Within(b, r) OBVIOUS
  <2>7. InBucket(sc, w[1]) = A BY <2>1, <2>2, <2>6 DEF InBucket
  <2>8. m \in bk[b] BY <1>1, <1>3, <2>2, <2>4, <2>5 DEF Grown
  <2>9. m \in A BY <1>3, <2>4, <2>5, <2>6, <2>8 DEF Within
  <2>10. A \subseteq B BY <1>1, <2>4, <2>6 DEF Within, Grown
  <2>11. B \in SUBSET RMembers /\ IsFiniteSet(B)
    <3>1. bk'[b] \in SUBSET RMembers /\ IsFiniteSet(bk'[b]) BY <1>2a
    <3>2. B \in SUBSET bk'[b] BY <2>4
    <3>3. QED BY <3>1, <3>2, FS_Subset
  <2>12. sc.desc \in BOOLEAN BY DEF ScanT
  <2>13. RankIn(A, sc.desc, m) \in Nat /\ RankIn(B, sc.desc, m) \in Nat /\ RankIn(A, sc.desc, m) <= RankIn(B, sc.desc, m)
    BY <2>10, <2>11, <2>12, RankMonotone
  <2>14. sc.ways[w].done \/ RankIn(B, sc.desc, m) < sc.ways[w].cursor BY <1>1, <1>3, <2>5 DEF Passed
  <2>15. sc.ways[w].cursor \in Nat BY WaysParts DEF WayT
  <2>16. sc.ways[w].done \/ RankIn(A, sc.desc, m) < sc.ways[w].cursor BY <2>13, <2>14, <2>15
  <2>17. CameUp(sc, m[2]) BY <1>1, <1>3, <2>7, <2>9, <2>16 DEF Behind, Passed
  <2>18. QED BY <1>2, <2>17
<1>4. QED BY <1>1, <1>3 DEF Behind

LEMMA BehindStep ==
    ASSUME StreamInv, ReadSoFar, [RNext]_rvars
    PROVE  ReadSoFar'
<1>0. Loose /\ DocsT /\ ScanShape /\ OutOnce /\ sc \in ScanT /\ FiniteNext BY LooseStep, NextFinite DEF StreamInv, ScanShape
<1>1. SUFFICES ASSUME ~sc'.moved, sc'.pc \in Reading PROVE Behind(sc)' BY DEF ReadSoFar
<1>2. CASE Aside
  <2>1. sc.pc = sc'.pc /\ (sc.moved => sc'.moved) BY <1>2 DEF Aside, Unaltered
  <2>2. Behind(sc) /\ sc.pc # "idle" BY <1>1, <2>1 DEF ReadSoFar, Reading
  <2>3. QED BY <1>0, <1>1, <1>2, <2>2, AsideBehind
<1>3. CASE Query
  <2>0. QueryStill BY <1>3, QueryQuiet
  <2>1. ASSUME NEW q \in Queries, RunRange(q[1], q[2]) PROVE FALSE
    <3>1. PICK a \in Seq(Valued("num")), d \in BOOLEAN : a = q[1] /\ d = q[2] BY RangeAssumption
    <3>2. Begun(a, d) BY <1>0, <2>1, <3>1, RunEffect
    <3>3. QED BY <1>1, <3>2 DEF Begun, Reading
  <2>2. CASE Route
    <3>1. ASSUME Ended("done", sc.rs, sc.ways) PROVE FALSE BY <1>1, <3>1 DEF Ended, Reading
    <3>2. ASSUME NEW b, Routed(b) PROVE Behind(sc)'
      <4>1. sc' \in ScanT /\ DOMAIN sc'.ways = b /\ \A w \in b : sc'.ways[w].cursor = 0 /\ ~sc'.ways[w].done BY <3>2 DEF Routed
      <4>2. PICK t \in ScanT : t = sc' BY <4>1
      <4>3. ASSUME NEW w \in DOMAIN t.ways, NEW m \in InBucket(t, w[1]), Passed(t, w, m) PROVE FALSE
        <5>1. w[1] \in RIdx BY WaysParts
        <5>2. InBucket(t, w[1]) \in SUBSET RMembers /\ IsFiniteSet(InBucket(t, w[1])) BY <1>0, <5>1, WithinFinite DEF InBucket
        <5>3. RankIn(InBucket(t, w[1]), t.desc, m) \in Nat BY <5>2, RankMonotone DEF ScanT
        <5>4. t.ways[w].cursor = 0 /\ ~t.ways[w].done BY <4>1, <4>2
        <5>5. QED BY <4>3, <5>3, <5>4 DEF Passed
      <4>4. Behind(t) BY <4>3 DEF Behind
      <4>5. QED BY <2>0, <4>2, <4>4, BehindNext
    <3>3. QED BY <1>0, <2>2, <3>1, <3>2, RouteEffect
  <2>3. CASE Seed
    <3>1. sc.pc = "seed" BY <2>3 DEF Seed
    <3>2. Paged(sc, DOMAIN sc.ways, 1, sc') BY <1>0, <2>3, SeedEffect
    <3>3. Behind(sc) BY <1>1, <3>1, <3>2 DEF Paged, Same, ReadSoFar, Reading
    <3>4. PICK t : t = sc' OBVIOUS
    <3>5. PICK W \in SUBSET DOMAIN sc.ways : W = DOMAIN sc.ways OBVIOUS
    <3>6. PICK n \in Nat : n = 1 OBVIOUS
    <3>7. Paged(sc, W, n, t) BY <3>2, <3>4, <3>5, <3>6
    <3>8. Behind(t) BY <1>0, <3>3, <3>7, PagedBehind
    <3>9. QED BY <2>0, <3>4, <3>8, BehindNext
  <2>4. CASE Step
    <3>1. sc.pc = "step" /\ HeapShape(sc) /\ Counted(sc) /\ sc.rs # <<>> /\ sc.cand = <<>> BY <1>0, <2>4 DEF Step, ScanShape, Reading
    <3>2. ASSUME Ended("route", Tail(sc.rs), <<>>) PROVE FALSE BY <1>1, <3>2 DEF Ended, Reading
    <3>3. ASSUME NEW f, NEW u, Took(f, u), Paged(u, RanEmpty(u), RefillPage, sc') PROVE Behind(sc)'
      <4>1. sc'.moved = sc.moved BY <3>3 DEF Took, Paged, Same
      <4>2. Behind(sc) BY <1>1, <3>1, <4>1 DEF ReadSoFar, Reading
      <4>3. u \in ScanT BY <3>3 DEF Took
      <4>4. Behind(u) BY <1>0, <3>1, <3>3, <4>2, TookBehind
      <4>5. PICK t : t = sc' OBVIOUS
      <4>6. Paged(u, RanEmpty(u), RefillPage, t) BY <3>3, <4>5
      <4>7. RefillPage \in Nat /\ RanEmpty(u) \in SUBSET DOMAIN u.ways BY RangeAssumption DEF RanEmpty
      <4>8. Behind(t) BY <1>0, <4>3, <4>4, <4>6, <4>7, PagedBehind
      <4>9. QED BY <2>0, <4>5, <4>8, BehindNext
    <3>4. QED BY <1>0, <2>4, <3>1, <3>2, <3>3, StepEffect
  <2>5. CASE Fetch
    <3>1. PICK new : RowsGot(new) BY <1>0, <2>5, FetchEffect
    <3>2. /\ sc'.moved = sc.moved /\ sc'.rs = sc.rs /\ sc'.desc = sc.desc /\ sc'.must = sc.must /\ sc'.heap = sc.heap /\ sc'.ways = sc.ways
          /\ sc'.seen = sc.seen \cup {sc.cand[i][2] : i \in Unseen(sc.cand, sc.seen)}
      BY <3>1, SMTT(30) DEF RowsGot
    <3>3. Behind(sc) BY <1>1, <2>5, <3>2 DEF ReadSoFar, Reading, Fetch
    <3>4. PICK t : t = sc' OBVIOUS
    <3>5. \A i \in DOMAIN sc.cand : sc.cand[i][2] \in t.seen BY <1>0, <3>1, <3>4, SeenAll
    <3>6. \A k : CameUp(sc, k) => CameUp(t, k) BY <3>2, <3>4, <3>5 DEF CameUp, InCand
    <3>7. \A w : InBucket(t, w[1]) = InBucket(sc, w[1]) BY <3>2, <3>4 DEF InBucket
    <3>8. Behind(t) BY <3>2, <3>3, <3>4, <3>6, <3>7 DEF Behind, Passed
    <3>9. QED BY <2>0, <3>4, <3>8, BehindNext
  <2>6. ASSUME Done PROVE FALSE
    <3>1. sc' = NoScan BY <2>6 DEF Done, Scan
    <3>2. QED BY <1>1, <3>1, NoScanT DEF NoScanFields, Reading
  <2>7. QED BY <1>3, <2>1, <2>2, <2>3, <2>4, <2>5, <2>6 DEF Query
<1>4. QED BY <1>0, <1>2, <1>3, OthersAside


(***************************************************************************)
(* Rows that satisfy the predicate all along come.                         *)
(***************************************************************************)
\* The interval that is read overlaps the bucket of a score that it contains.
LEMMA RouteMeets ==
    ASSUME RInv, NEW h \in BoundT, NEW k \in RPks, score[k] # 0, Contains(h, score[k])
    PROVE  \E w \in CoveredBy(ranges, h) : MemberOf(k) \in bk[w[1]]
<1>1. PICK s \in Scores : s = score[k] BY DEF RInv, IndexT
<1>2. s \in Nat BY InfFacts
<1>3. PICK r \in ranges : RangeContains(r, s) /\ \E b \in BucketsOf(r) : MemberOf(k) \in bk[b[1]] BY <1>1, RowInBucket
<1>4. r.lo \in Nat /\ r.hi \in Nat BY RangeParts DEF RInv, IndexT
<1>5. h.lo \in Nat /\ h.hi \in Nat BY DEF BoundT
<1>6. PICK lo : lo = IF h.loOpen THEN h.lo + 1 ELSE h.lo OBVIOUS
<1>7. PICK hi : hi = IF h.hiOpen THEN h.hi - 1 ELSE h.hi OBVIOUS
<1>8. lo \in Int /\ hi \in Int /\ lo <= s /\ s <= hi BY <1>1, <1>2, <1>5, <1>6, <1>7 DEF Contains
<1>9. r.lo <= s /\ s < r.hi BY <1>3 DEF RangeContains
<1>10. r.lo <= hi /\ lo <= r.hi BY <1>2, <1>4, <1>8, <1>9
<1>11. r \in Overlapping(ranges, lo, hi) BY <1>10 DEF Overlapping, RangeOverlaps
<1>12. BucketsOf(r) \subseteq ReadBucketsRange(ranges, lo, hi) BY <1>11 DEF ReadBucketsRange
<1>13. CoveredBy(ranges, h) = ReadBucketsRange(ranges, lo, hi) BY <1>6, <1>7 DEF CoveredBy
<1>14. QED BY <1>3, <1>12, <1>13

\* A step of the query that keeps the interval and its ways.
LEMMA SameInterval ==
    ASSUME QueryStill, Expected, ~sc'.moved, sc'.moved = sc.moved, ~sc'.stale, sc'.stale = sc.stale, sc.pc \in Reading, sc'.pc \in Reading, sc'.rs = sc.rs,
           DOMAIN sc'.ways = DOMAIN sc.ways, sc'.pred = sc.pred, sc'.must = sc.must, sc'.seen = sc.seen, sc'.out = sc.out
    PROVE  Expected'
<1>1. score' = score /\ iv' = iv /\ bk' = bk BY DEF QueryStill
<1>2. \A k \in sc.must : Wants(k) /\ Given(k) /\ Somewhere(k) BY DEF Expected, Reading
<1>3. RestRs' = RestRs BY DEF RestRs
<1>4. \A k : Later(k) => Later(k)' BY <1>1, <1>3 DEF Later
<1>5. \A k : Current(k) => Current(k)' BY <1>1 DEF Current, MemberOf
<1>6. \A k : Wants(k) => Wants(k)' BY <1>1 DEF Wants
<1>7. \A k : Given(k) => Given(k)' BY DEF Given
<1>8. \A k : Somewhere(k) => Somewhere(k)' BY <1>4, <1>5 DEF Somewhere
<1>9. QED BY <1>2, <1>6, <1>7, <1>8 DEF Expected

LEMMA ExpectedStep ==
    ASSUME RInv, StreamInv, ReadSoFar, Expected, [RNext]_rvars
    PROVE  Expected'
<1>0. Loose /\ DocsT /\ ScanShape /\ OutOnce /\ sc \in ScanT BY DEF StreamInv, ScanShape
<1>1. SUFFICES ASSUME ~sc'.moved, ~sc'.stale, sc'.pc # "idle" PROVE Expected' BY DEF Expected
<1>2. CASE Aside
  <2>1. /\ sc'.pc = sc.pc /\ sc'.rs = sc.rs /\ sc'.pred = sc.pred /\ sc'.ways = sc.ways /\ sc'.seen = sc.seen /\ sc'.out = sc.out
        /\ sc'.must \subseteq sc.must /\ ~sc.moved /\ ~sc.stale
    BY <1>1, <1>2 DEF Aside, Unaltered
  <2>2. Grown /\ \A k \in sc'.must : score'[k] = score[k] /\ iv'[k] = iv[k] BY <1>1, <1>2, <2>1 DEF Aside
  <2>3. RestRs' = RestRs BY <2>1 DEF RestRs
  <2>4. ASSUME NEW k \in sc'.must PROVE Wants(k)' /\ Given(k)' /\ Somewhere(k)'
    <3>1. Wants(k) /\ Given(k) /\ Somewhere(k) BY <1>1, <2>1, <2>4 DEF Expected
    <3>2. score'[k] = score[k] /\ iv'[k] = iv[k] BY <2>2, <2>4
    <3>3. Wants(k)' BY <2>1, <3>1, <3>2 DEF Wants
    <3>4. Given(k)' BY <2>1, <3>1 DEF Given
    <3>5. Later(k) => Later(k)' BY <2>3, <3>2 DEF Later
    <3>6. Current(k) => Current(k)'
      <4>1. \A w \in DOMAIN sc.ways : bk[w[1]] \subseteq bk'[w[1]] BY <1>0, <2>2, WaysParts DEF Grown
      <4>2. QED BY <2>1, <3>2, <4>1 DEF Current, MemberOf
    <3>7. QED BY <2>1, <3>1, <3>3, <3>4, <3>5, <3>6 DEF Somewhere
  <2>5. QED BY <2>4 DEF Expected
<1>3. CASE Query
  <2>0. QueryStill /\ score' = score /\ iv' = iv /\ bk' = bk BY <1>3, QueryQuiet DEF QueryStill
  <2>1. ASSUME NEW q \in Queries, RunRange(q[1], q[2]) PROVE Expected'
    <3>1. PICK a \in Seq(Valued("num")), d \in BOOLEAN : a = q[1] /\ d = q[2] BY RangeAssumption
    <3>2. Begun(a, d) BY <1>0, <2>1, <3>1, RunEffect
    <3>3. PICK req : req = TranslateLookup("range", "num", a, d) OBVIOUS
    <3>4. \A s \in Scores : Wanted("num", a, s) <=> \E i \in DOMAIN req.of : Contains(req.of[i], s) BY <3>3, RequestFacts
    <3>5. /\ sc'.pc = "route" /\ sc'.rs = req.of /\ sc'.pred = Elems(req.of) /\ sc'.seen = {}
          /\ sc'.must = {k \in RPks : score[k] # 0 /\ Wanted("num", a, score[k])}
      BY <3>2, <3>3 DEF Begun
    <3>6. RestRs' = req.of BY <3>5 DEF RestRs, Reading
    <3>7. ASSUME NEW k \in sc'.must PROVE Wants(k)' /\ Given(k)' /\ Somewhere(k)'
      <4>1. k \in RPks /\ score[k] # 0 /\ Wanted("num", a, score[k]) BY <3>5, <3>7
      <4>2. score[k] \in Scores BY <1>0, <4>1 DEF Loose, IndexT
      <4>3. PICK i \in DOMAIN req.of : Contains(req.of[i], score[k]) BY <3>4, <4>1, <4>2
      <4>4. req.of[i] \in Elems(req.of) BY DEF Elems
      <4>5. Wants(k)' BY <2>0, <3>5, <4>1, <4>3, <4>4 DEF Wants
      <4>6. Given(k)' BY <3>5 DEF Given
      <4>7. Later(k)' BY <2>0, <3>6, <4>3 DEF Later
      <4>8. QED BY <4>5, <4>6, <4>7 DEF Somewhere
    <3>8. QED BY <3>7 DEF Expected
  <2>2. CASE Route
    <3>0. sc.pc = "route" /\ RestRs = sc.rs /\ \A k : ~Current(k) BY <2>2 DEF Route, RestRs, Current, Reading
    <3>1. CASE sc.rs = <<>> /\ Ended("done", sc.rs, sc.ways)
      <4>1. /\ sc'.pc = "done" /\ sc'.pred = sc.pred /\ sc'.seen = sc.seen /\ sc'.out = sc.out /\ sc'.must = sc.must /\ sc'.moved = sc.moved /\ sc'.stale = sc.stale
        BY <3>1 DEF Ended
      <4>2. \A k \in sc.must : Wants(k) /\ Given(k) /\ Somewhere(k) BY <1>1, <3>0, <4>1 DEF Expected
      <4>3. \A k : ~Later(k)
        <5>1. DOMAIN <<>> = {} OBVIOUS
        <5>2. QED BY <3>0, <3>1, <5>1 DEF Later
      <4>4. \A k \in sc.must : Wants(k)' /\ Given(k)' /\ k \in sc'.seen BY <2>0, <3>0, <4>1, <4>2, <4>3 DEF Wants, Given, Somewhere
      <4>5. QED BY <4>1, <4>4 DEF Expected, Somewhere
    <3>2. ASSUME NEW b, sc.rs # <<>>, Routed(b) PROVE Expected'
      <4>1. /\ sc'.pc = "seed" /\ sc'.pred = sc.pred /\ sc'.seen = sc.seen /\ sc'.out = sc.out /\ sc'.must = sc.must /\ sc'.moved = sc.moved
            /\ sc'.rs = sc.rs /\ DOMAIN sc'.ways = b /\ ~sc.stale /\ ~Misses(b, Head(sc.rs))
        BY <1>1, <3>2 DEF Routed
      <4>2. \A k \in sc.must : Wants(k) /\ Given(k) /\ Somewhere(k) BY <1>1, <3>0, <4>1 DEF Expected
      <4>3. Numbers(CoveredBy(ranges, Head(sc.rs))) \subseteq Numbers(b) BY <4>1 DEF Misses
      <4>4. sc.rs \in Seq(BoundT) BY <1>0 DEF ScanT
      <4>5. Head(sc.rs) \in BoundT /\ Head(sc.rs) = sc.rs[1] BY <3>2, <4>4, HeadTailProperties
      <4>6. RestRs' = Tail(sc.rs) BY <4>1 DEF RestRs, Reading
      <4>7. ASSUME NEW k \in sc.must, Later(k) PROVE Later(k)' \/ Current(k)'
        <5>1. PICK i \in DOMAIN sc.rs : Contains(sc.rs[i], score[k]) BY <3>0, <4>7 DEF Later
        <5>2. k \in RPks /\ score[k] # 0 BY <1>0, <4>2, <4>7 DEF ScanT, Wants
        <5>3. CASE i = 1
          <6>0. PICK v \in CoveredBy(ranges, Head(sc.rs)) : MemberOf(k) \in bk[v[1]] BY <4>5, <5>1, <5>2, <5>3, RouteMeets
          <6>1. \E w \in b : MemberOf(k) \in bk[w[1]] BY <4>3, <6>0 DEF Numbers
          <6>2. Current(k)' BY <2>0, <4>1, <4>5, <5>1, <5>3, <6>1 DEF Current, Reading, MemberOf
          <6>3. QED BY <6>2
        <5>4. CASE i # 1
          <6>1. PICK t : t = Tail(sc.rs) OBVIOUS
          <6>2. Len(t) = Len(sc.rs) - 1 /\ t \in Seq(BoundT) /\ \A n \in 1 .. Len(t) : t[n] = sc.rs[n + 1]
            BY <3>2, <4>4, <6>1, HeadTailProperties
          <6>3. PICK n : n = i - 1 OBVIOUS
          <6>4. i \in 1 .. Len(sc.rs) /\ Len(sc.rs) \in Nat BY <4>4, <5>1
          <6>5. n \in DOMAIN t /\ n \in 1 .. Len(t) /\ n + 1 = i BY <5>4, <6>2, <6>3, <6>4
          <6>6. Contains(t[n], score[k]) BY <5>1, <6>2, <6>5
          <6>7. Later(k)' BY <2>0, <4>6, <6>1, <6>5, <6>6 DEF Later
          <6>8. QED BY <6>7
        <5>5. QED BY <5>3, <5>4
      <4>8. ASSUME NEW k \in sc'.must PROVE Wants(k)' /\ Given(k)' /\ Somewhere(k)'
        <5>1. k \in sc.must BY <4>1, <4>8
        <5>2. Wants(k) /\ Given(k) /\ Somewhere(k) BY <4>2, <5>1
        <5>3. Wants(k)' BY <2>0, <4>1, <5>2 DEF Wants
        <5>4. Given(k)' BY <4>1, <5>2 DEF Given
        <5>5. k \in sc'.seen \/ Later(k)' \/ Current(k)' BY <3>0, <4>1, <4>7, <5>1, <5>2 DEF Somewhere
        <5>6. QED BY <5>3, <5>4, <5>5 DEF Somewhere
      <4>9. QED BY <4>8 DEF Expected
    <3>3. QED BY <1>0, <2>2, <3>1, <3>2, RouteEffect
  <2>3. CASE Seed
    <3>1. sc.pc = "seed" BY <2>3 DEF Seed
    <3>2. sc'.pc = "step" /\ Paged(sc, DOMAIN sc.ways, 1, sc') BY <1>0, <2>3, SeedEffect
    <3>3. /\ sc'.moved = sc.moved /\ sc'.stale = sc.stale /\ sc'.rs = sc.rs /\ DOMAIN sc'.ways = DOMAIN sc.ways /\ sc'.pred = sc.pred /\ sc'.must = sc.must
          /\ sc'.seen = sc.seen /\ sc'.out = sc.out
      BY <3>2 DEF Paged, Same
    <3>4. sc.pc \in Reading /\ sc'.pc \in Reading BY <3>1, <3>2 DEF Reading
    <3>5. QED BY <1>1, <2>0, <3>3, <3>4, SameInterval
  <2>4. CASE Step
    <3>1. /\ sc.pc = "step" /\ HeapShape(sc) /\ Counted(sc) /\ Refilled(sc) /\ sc.rs # <<>> /\ sc.cand = <<>>
      BY <1>0, <2>4 DEF Step, ScanShape, Reading
    <3>2. CASE sc.heap = {} /\ Ended("route", Tail(sc.rs), <<>>)
      <4>1. /\ sc'.pc = "route" /\ sc'.pred = sc.pred /\ sc'.seen = sc.seen /\ sc'.out = sc.out /\ sc'.must = sc.must /\ sc'.moved = sc.moved /\ sc'.stale = sc.stale
            /\ sc'.rs = Tail(sc.rs)
        BY <3>2 DEF Ended
      <4>2. \A k \in sc.must : Wants(k) /\ Given(k) /\ Somewhere(k) BY <1>1, <3>1, <4>1 DEF Expected
      <4>3. RestRs' = RestRs BY <3>1, <4>1 DEF RestRs, Reading
      <4>4. Behind(sc) BY <1>1, <3>1, <4>1 DEF ReadSoFar, Reading
      <4>5. \A w \in DOMAIN sc.ways : sc.ways[w].done
        <5>1. \A w \in DOMAIN sc.ways : InHeap(sc, w) = {} BY <3>2 DEF InHeap
        <5>2. \A w \in DOMAIN sc.ways : sc.ways[w].inHeap = 0 BY <3>1, <5>1, FS_EmptySet DEF Counted
        <5>3. QED BY <3>1, <5>2 DEF Refilled
      <4>6. ASSUME NEW k \in sc.must, Current(k) PROVE k \in sc.seen
        <5>1. PICK w \in DOMAIN sc.ways : MemberOf(k) \in bk[w[1]] BY <4>6 DEF Current
        <5>2. PICK m : m = MemberOf(k) OBVIOUS
        <5>3. m[1] = score[k] /\ m[2] = k BY <5>2 DEF MemberOf
        <5>4. m \in InBucket(sc, w[1]) BY <4>6, <5>1, <5>2, <5>3 DEF InBucket, Within, Current
        <5>5. CameUp(sc, m[2]) BY <4>4, <4>5, <4>6, <5>3, <5>4 DEF Behind, Passed
        <5>6. ~InCand(sc, k)
          <6>1. DOMAIN <<>> = {} OBVIOUS
          <6>2. QED BY <3>1, <6>1 DEF InCand
        <5>7. QED BY <3>2, <5>3, <5>5, <5>6 DEF CameUp
      <4>7. \A k : Later(k) => Later(k)' BY <2>0, <4>3 DEF Later
      <4>8. ASSUME NEW k \in sc'.must PROVE Wants(k)' /\ Given(k)' /\ Somewhere(k)'
        <5>1. k \in sc.must BY <4>1, <4>8
        <5>2. Wants(k) /\ Given(k) /\ Somewhere(k) BY <4>2, <5>1
        <5>3. Wants(k)' BY <2>0, <4>1, <5>2 DEF Wants
        <5>4. Given(k)' BY <4>1, <5>2 DEF Given
        <5>5. k \in sc'.seen \/ Later(k)' BY <4>1, <4>6, <4>7, <5>1, <5>2 DEF Somewhere
        <5>6. QED BY <5>3, <5>4, <5>5 DEF Somewhere
      <4>9. QED BY <4>8 DEF Expected
    <3>3. ASSUME NEW f, NEW u, Took(f, u), sc'.pc = "fetch", Paged(u, RanEmpty(u), RefillPage, sc') PROVE Expected'
      <4>1. /\ sc'.moved = sc.moved /\ sc'.stale = sc.stale /\ sc'.rs = sc.rs /\ DOMAIN sc'.ways = DOMAIN sc.ways /\ sc'.pred = sc.pred /\ sc'.must = sc.must
            /\ sc'.seen = sc.seen /\ sc'.out = sc.out
        BY <3>3 DEF Took, Paged, Same
      <4>2. sc.pc \in Reading /\ sc'.pc \in Reading BY <3>1, <3>3, SMTT(30) DEF Reading
      <4>3. QED BY <1>1, <2>0, <4>1, <4>2, SameInterval
    <3>4. QED BY <1>0, <2>4, <3>1, <3>2, <3>3, StepEffect
  <2>5. CASE Fetch
    <3>0. sc.pc = "fetch" BY <2>5 DEF Fetch
    <3>1. PICK new : RowsGot(new) BY <1>0, <2>5, FetchEffect
    <3>2. /\ sc'.pc = "step" /\ sc'.moved = sc.moved /\ sc'.stale = sc.stale /\ sc'.rs = sc.rs /\ sc'.pred = sc.pred /\ sc'.must = sc.must /\ sc'.ways = sc.ways
          /\ sc'.seen = sc.seen \cup {sc.cand[i][2] : i \in Unseen(sc.cand, sc.seen)} /\ sc'.out = sc.out \o new
      BY <3>1 DEF RowsGot
    <3>3. \A k \in sc.must : Wants(k) /\ Given(k) /\ Somewhere(k) BY <1>1, <3>0, <3>2 DEF Expected
    <3>4. RestRs' = RestRs BY <3>0, <3>2 DEF RestRs, Reading
    <3>5. \A k : Later(k) => Later(k)' BY <2>0, <3>4 DEF Later
    <3>6. \A k : Current(k) => Current(k)' BY <2>0, <3>0, <3>2 DEF Current, MemberOf, Reading
    <3>7. PICK T : T = RPks \X Scores OBVIOUS
    <3>8. sc.out \in Seq(T) /\ new \in Seq(T) BY <1>0, <3>1, <3>7 DEF ScanT, RowsGot, Delivered
    <3>9. PICK o : o = sc.out \o new OBVIOUS
    <3>10. /\ \A i \in DOMAIN sc.out : i \in DOMAIN o /\ o[i] = sc.out[i]
           /\ \A n \in DOMAIN new : n + Len(sc.out) \in DOMAIN o /\ o[n + Len(sc.out)] = new[n]
      BY <3>8, <3>9, OutPlaces
    <3>11. ASSUME NEW k \in sc.must, k \in sc'.seen PROVE \E i \in DOMAIN o : o[i][1] = k
      <4>1. CASE k \in sc.seen
        <5>1. PICK i \in DOMAIN sc.out : sc.out[i][1] = k BY <3>3, <4>1 DEF Given
        <5>2. QED BY <3>10, <5>1
      <4>2. CASE k \notin sc.seen
        <5>1. PICK i \in Unseen(sc.cand, sc.seen) : k = sc.cand[i][2] BY <3>2, <3>11, <4>2
        <5>2. RMatch(sc.cand[i][2]) BY <3>3, <5>1 DEF Wants, RMatch
        <5>3. i \in Matching BY <5>1, <5>2 DEF Matching
        <5>4. PICK n \in DOMAIN new : new[n][1] = k BY <3>1, <5>1, <5>3 DEF RowsGot, Delivered
        <5>5. QED BY <3>10, <5>4
      <4>3. QED BY <4>1, <4>2
    <3>12. ASSUME NEW k \in sc'.must PROVE Wants(k)' /\ Given(k)' /\ Somewhere(k)'
      <4>1. k \in sc.must BY <3>2, <3>12
      <4>2. Wants(k) /\ Given(k) /\ Somewhere(k) BY <3>3, <4>1
      <4>3. Wants(k)' BY <2>0, <3>2, <4>2 DEF Wants
      <4>4. Given(k)' BY <3>2, <3>9, <3>11, <4>1 DEF Given
      <4>5. k \in sc'.seen \/ Later(k)' \/ Current(k)' BY <3>2, <3>5, <3>6, <4>2 DEF Somewhere
      <4>6. QED BY <4>3, <4>4, <4>5 DEF Somewhere
    <3>13. QED BY <3>12 DEF Expected
  <2>6. ASSUME Done PROVE FALSE
    <3>1. sc' = NoScan BY <2>6 DEF Done, Scan
    <3>2. QED BY <1>1, <3>1, NoScanT DEF NoScanFields
  <2>7. QED BY <1>3, <2>1, <2>2, <2>3, <2>4, <2>5, <2>6 DEF Query
<1>4. QED BY <1>0, <1>2, <1>3, OthersAside

CompleteInv == RInv /\ StreamInv /\ ReadSoFar /\ Expected

LEMMA CompleteInit == RInit => CompleteInv
<1> SUFFICES ASSUME RInit PROVE CompleteInv OBVIOUS
<1>1. RInv /\ StreamInv BY RInitInv, StreamInit
<1>2. sc = NoScan BY DEF RInit
<1>3. sc.pc = "idle" BY <1>2, NoScanT DEF NoScanFields
<1>4. QED BY <1>1, <1>2, <1>3 DEF CompleteInv, ReadSoFar, Expected, Reading

\* ScanComplete: a row that satisfies the predicate from the beginning of a query to its end
\* is in the result, from whatever state of a split or a merge it is read, through the Store's
\* cache, and whatever is inserted meanwhile - if no member leaves a bucket while the query
\* runs and no interval is routed by a document that lacks a bucket of the current one.  For
\* any buckets, batches, refill pages and intervals.
THEOREM NoRowIsMissed ==
    ASSUME Careful
    PROVE  RSpec => []ScanComplete
<1>1. RInit => CompleteInv BY CompleteInit
<1>2. CompleteInv /\ [RNext]_rvars => CompleteInv'
  <2> SUFFICES ASSUME CompleteInv, [RNext]_rvars PROVE CompleteInv' OBVIOUS
  <2>0. RInv /\ StreamInv /\ ReadSoFar /\ Expected BY DEF CompleteInv
  <2>1. RInv' BY <2>0, RangeStep
  <2>2. StreamInv' BY <2>0, ScanStep
  <2>3. ReadSoFar' BY <2>0, BehindStep
  <2>4. Expected' BY <2>0, ExpectedStep
  <2>5. QED BY <2>1, <2>2, <2>3, <2>4 DEF CompleteInv
<1>3. CompleteInv => ScanComplete
  <2> SUFFICES ASSUME CompleteInv, sc.pc = "done", ~sc.moved, ~sc.stale, NEW k \in sc.must PROVE \E i \in DOMAIN sc.out : sc.out[i][1] = k
    BY DEF ScanComplete
  <2>1. Given(k) /\ Somewhere(k) BY DEF CompleteInv, Expected
  <2>2. sc.rs = <<>> BY DEF CompleteInv, StreamInv, ScanShape
  <2>3. RestRs = <<>> /\ ~Current(k) BY <2>2 DEF RestRs, Current, Reading
  <2>4. ~Later(k)
    <3>1. DOMAIN <<>> = {} OBVIOUS
    <3>2. QED BY <2>3, <3>1 DEF Later
  <2>5. QED BY <2>1, <2>3, <2>4 DEF Given, Somewhere
<1>4. QED BY <1>1, <1>2, <1>3, PTL DEF RSpec


(***************************************************************************)
(* With one bucket, rows come in order.                                    *)
(***************************************************************************)
LEMMA RankOrder ==
    ASSUME NEW S \in SUBSET RMembers, IsFiniteSet(S), NEW desc \in BOOLEAN, NEW a \in S, NEW b \in S,
           RankIn(S, desc, a) \in Nat, RankIn(S, desc, b) \in Nat, RankIn(S, desc, a) < RankIn(S, desc, b)
    PROVE  NotAfter(desc, a[1], b[1])
<1>1. a \in RMembers /\ b \in RMembers /\ a # b OBVIOUS
<1>2. ~Precede(desc, b, a)
  <2>1. Precede(desc, b, a) => RankIn(S, desc, b) < RankIn(S, desc, a) BY RankGrows
  <2>2. QED BY <2>1
<1>3. Precede(desc, a, b) BY <1>1, <1>2, BeforeFacts
<1>4. a[1] \in Nat /\ b[1] \in Nat BY <1>1, RMemberParts
<1>5. QED BY <1>3, <1>4 DEF Precede, RBefore, NotAfter

\* What comes up stays so when pages are read.
LEMMA PagedQueue ==
    ASSUME Loose, NEW s \in ScanT, HeapShape(s), Queue(s), OneWay(s), Behind(s), NEW count \in Nat, NEW W \in SUBSET DOMAIN s.ways,
           \A w \in W : InHeap(s, w) = {}, NEW t, Paged(s, W, count, t)
    PROVE  Queue(t) /\ OneWay(t)
<1>0. IndexT /\ Stamped BY DEF Loose
<1>1. /\ t \in ScanT /\ Same(s, t) /\ t.cand = s.cand /\ t.heap = s.heap \cup PageItems(s, W, count) /\ DOMAIN t.ways = DOMAIN s.ways
  BY DEF Paged
<1>2. t.rs = s.rs /\ t.desc = s.desc /\ t.must = s.must /\ t.seen = s.seen /\ t.out = s.out BY <1>1 DEF Same
<1>3. \A k : (InCand(t, k) <=> InCand(s, k)) /\ (CameUp(s, k) => CameUp(t, k)) BY <1>1, <1>2 DEF CameUp, InCand
<1>4. \A w : InBucket(t, w[1]) = InBucket(s, w[1]) BY <1>2 DEF InBucket
<1>5. ItemsShape(s, W, count) BY <1>0, ItemFacts
<1>6. GivenOut(t) = GivenOut(s) BY <1>2 DEF GivenOut
<1>7. Popping(t) = Popping(s) BY <1>1, <1>2 DEF Popping, Awaited
<1>8. NotRead(t) \subseteq NotRead(s) BY <1>1, <1>2, <1>3, <1>4 DEF NotRead
<1>9. W # {} => s.heap = {}
  <2> SUFFICES ASSUME NEW w \in W, NEW x \in s.heap PROVE FALSE OBVIOUS
  <2>1. x[2] \in DOMAIN s.ways BY DEF HeapShape
  <2>2. x[2] = w BY <2>1 DEF OneWay
  <2>3. QED BY <2>2 DEF InHeap
<1>10. ASSUME NEW a \in Heaped(t) PROVE a \in Heaped(s) \/ a \in NotRead(s)
  <2>1. PICK x \in t.heap : Awaited(t, x[1][2]) /\ ~InCand(t, x[1][2]) /\ x[1][1] = a /\ a \in Scores BY DEF Heaped
  <2>2. Awaited(s, x[1][2]) /\ ~InCand(s, x[1][2]) BY <1>2, <1>3, <2>1 DEF Awaited
  <2>3. CASE x \in s.heap BY <2>1, <2>2, <2>3 DEF Heaped
  <2>4. CASE x \in PageItems(s, W, count)
    <3>1. x[2] \in W /\ x[1] \in InBucket(s, x[2][1]) BY <1>5, <2>4 DEF ItemsShape
    <3>2. s.heap = {} BY <1>9, <3>1
    <3>3. ~CameUp(s, x[1][2]) BY <2>2, <3>2 DEF CameUp, Awaited
    <3>4. x[1][2] \in s.must BY <2>2 DEF Awaited
    <3>5. a \in NotRead(s) BY <2>1, <3>1, <3>3, <3>4 DEF NotRead
    <3>6. QED BY <3>5
  <2>5. QED BY <1>1, <2>1, <2>3, <2>4
<1>11. ASSUME NEW a \in Heaped(t), NEW b \in NotRead(t) PROVE NotAfter(t.desc, a, b)
  <2>1. CASE a \in Heaped(s) BY <1>2, <1>8, <2>1 DEF Queue, AllBefore
  <2>2. CASE a \notin Heaped(s)
    <3>1. PICK x \in t.heap : Awaited(t, x[1][2]) /\ ~InCand(t, x[1][2]) /\ x[1][1] = a /\ a \in Scores BY DEF Heaped
    <3>2. x \notin s.heap BY <1>2, <1>3, <2>2, <3>1 DEF Heaped, Awaited
    <3>3. x \in PageItems(s, W, count) BY <1>1, <3>1, <3>2
    <3>4. PICK w \in W : \E i \in DOMAIN PageOf(s, w, count) : x[1] = PageOf(s, w, count)[i] /\ x[2] = w
      BY <1>5, <3>3 DEF ItemsShape
    <3>5. PICK p : p = PageOf(s, w, count) OBVIOUS
    <3>6. PICK i \in DOMAIN p : x[1] = p[i] BY <3>4, <3>5
    <3>7. PICK v \in DOMAIN s.ways : \E m \in InBucket(s, v[1]) : m[2] \in s.must /\ ~CameUp(t, m[2]) /\ m[1] = b
      BY <1>1, <1>2, <1>4 DEF NotRead
    <3>8. v = w BY DEF OneWay
    <3>9. PICK m \in InBucket(s, w[1]) : m[2] \in s.must /\ ~CameUp(t, m[2]) /\ m[1] = b BY <3>7, <3>8
    <3>10. PICK S : S = InBucket(s, w[1]) OBVIOUS
    <3>11. IsPage(S, s.desc, s.ways[w].cursor, count, p) BY <1>0, <3>5, <3>10, PageIn
    <3>12. PICK n : n = RankIn(S, s.desc, m) OBVIOUS
    <3>13. PICK c \in Nat : c = s.ways[w].cursor BY WaysParts DEF WayT
    <3>14. /\ n \in Nat /\ (n < c \/ n >= c + Len(p) \/ \E j \in DOMAIN p : p[j] = m)
           /\ Len(p) \in Nat /\ DOMAIN p = 1 .. Len(p) /\ p[i] \in S /\ RankIn(S, s.desc, p[i]) = c + i - 1
      BY <3>9, <3>10, <3>11, <3>12, <3>13 DEF IsPage
    <3>15. ~(n < c)
      <4> SUFFICES ASSUME n < c PROVE FALSE OBVIOUS
      <4>1. Passed(s, w, m) BY <3>10, <3>12, <3>13 DEF Passed
      <4>2. CameUp(s, m[2]) BY <3>9, <4>1 DEF Behind
      <4>3. QED BY <1>3, <3>9, <4>2
    <3>16. ASSUME NEW j \in DOMAIN p, p[j] = m PROVE FALSE
      <4>1. PICK y : y = <<m, w>> OBVIOUS
      <4>2. y \in t.heap /\ y[1] = m BY <1>1, <1>5, <3>5, <3>16, <4>1 DEF ItemsShape
      <4>3. QED BY <3>9, <4>2 DEF CameUp
    <3>17. n >= c + Len(p) BY <3>14, <3>15, <3>16
    <3>18. c + i - 1 \in Nat /\ c + i - 1 < n BY <3>14, <3>17
    <3>19. S \in SUBSET RMembers /\ IsFiniteSet(S)
      <4>1. w[1] \in RIdx BY WaysParts
      <4>2. QED BY <3>10, <4>1, WithinFinite DEF InBucket
    <3>20. m \in S BY <3>9, <3>10
    <3>21. s.desc \in BOOLEAN BY DEF ScanT
    <3>22. NotAfter(s.desc, p[i][1], m[1]) BY <3>12, <3>14, <3>18, <3>19, <3>20, <3>21, RankOrder
    <3>23. QED BY <1>2, <3>1, <3>6, <3>9, <3>22
  <2>3. QED BY <2>1, <2>2
<1>12. AllBefore(t.desc, GivenOut(t), Popping(t)) BY <1>2, <1>6, <1>7 DEF Queue
<1>13. AllBefore(t.desc, GivenOut(t) \cup Popping(t), Heaped(t)) BY <1>2, <1>6, <1>7, <1>10 DEF Queue, AllBefore
<1>14. AllBefore(t.desc, GivenOut(t) \cup Popping(t) \cup Heaped(t), NotRead(t))
  BY <1>2, <1>6, <1>7, <1>8, <1>11 DEF Queue, AllBefore
<1>15. OneWay(t) BY <1>1 DEF OneWay
<1>16. \A i, j \in DOMAIN t.cand : i < j => NotAfter(t.desc, t.cand[i][1], t.cand[j][1]) BY <1>1, <1>2 DEF Queue
<1>17. QED BY <1>12, <1>13, <1>14, <1>15, <1>16 DEF Queue

\* The lowest of the heap become candidates.
LEMMA TookQueue ==
    ASSUME sc \in ScanT, Queue(sc), OneWay(sc), sc.cand = <<>>, NEW f, NEW u, Took(f, u)
    PROVE  Queue(u) /\ OneWay(u)
<1>1. /\ u \in ScanT /\ Same(sc, u) /\ u.heap = sc.heap \ Elems(f) /\ DOMAIN u.cand = DOMAIN f /\ DOMAIN u.ways = DOMAIN sc.ways
      /\ \A i \in DOMAIN f : u.cand[i] = f[i][1]
      /\ BatchOf(sc.heap, sc.desc, f)
  BY DEF Took
<1>2. u.rs = sc.rs /\ u.desc = sc.desc /\ u.must = sc.must /\ u.seen = sc.seen /\ u.out = sc.out BY <1>1 DEF Same
<1>3. \A k : CameUp(sc, k) => CameUp(u, k) BY TookUp
<1>4. \A w : InBucket(u, w[1]) = InBucket(sc, w[1]) BY <1>2 DEF InBucket
<1>5. \A k : ~InCand(sc, k) BY DEF InCand
<1>6. GivenOut(u) = GivenOut(sc) BY <1>2 DEF GivenOut
<1>7. NotRead(u) \subseteq NotRead(sc) BY <1>1, <1>2, <1>3, <1>4 DEF NotRead
<1>8. Heaped(u) \subseteq Heaped(sc) BY <1>1, <1>2, <1>5 DEF Heaped, Awaited
<1>9. ASSUME NEW a \in Popping(u) PROVE a \in Heaped(sc) /\ \E i \in DOMAIN f : f[i][1][1] = a
  <2>1. PICK i \in DOMAIN f : Awaited(sc, f[i][1][2]) /\ f[i][1][1] = a /\ a \in Scores BY <1>1, <1>2 DEF Popping, Awaited
  <2>2. f[i] \in sc.heap BY <1>1 DEF BatchOf
  <2>3. QED BY <1>5, <2>1, <2>2 DEF Heaped
<1>10. ASSUME NEW a \in Popping(u), NEW b \in Heaped(u) PROVE NotAfter(u.desc, a, b)
  <2>1. PICK i \in DOMAIN f : f[i][1][1] = a BY <1>9
  <2>2. PICK x \in u.heap : x[1][1] = b BY DEF Heaped
  <2>3. x \in sc.heap \ Elems(f) BY <1>1
  <2>4. QED BY <1>1, <1>2, <2>1, <2>2, <2>3 DEF BatchOf
<1>11. AllBefore(u.desc, GivenOut(u), Popping(u)) BY <1>2, <1>6, <1>9 DEF Queue, AllBefore
<1>12. AllBefore(u.desc, GivenOut(u) \cup Popping(u), Heaped(u)) BY <1>2, <1>6, <1>8, <1>10 DEF Queue, AllBefore
<1>13. AllBefore(u.desc, GivenOut(u) \cup Popping(u) \cup Heaped(u), NotRead(u)) BY <1>2, <1>6, <1>7, <1>8, <1>9 DEF Queue, AllBefore
<1>14. \A i, j \in DOMAIN u.cand : i < j => NotAfter(u.desc, u.cand[i][1], u.cand[j][1]) BY <1>1, <1>2 DEF BatchOf
<1>15. OneWay(u) BY <1>1 DEF OneWay
<1>16. QED BY <1>11, <1>12, <1>13, <1>14, <1>15 DEF Queue

\* The same, in the state after a step of the query.
LEMMA QueueNext ==
    ASSUME QueryStill, NEW t, Queue(t), OneWay(t), t = sc'
    PROVE  Queue(sc)' /\ OneWay(sc)'
<1>1. bk' = bk BY DEF QueryStill
<1>2. QED BY <1>1 DEF Queue, OneWay, AllBefore, GivenOut, Popping, Heaped, NotRead, Awaited, CameUp, InCand, InBucket, Within


RsOrdered == InSequence(sc.rs, sc.desc)

LEMMA RsStep ==
    ASSUME StreamInv, RsOrdered, [RNext]_rvars
    PROVE  RsOrdered'
<1>0. Loose /\ DocsT /\ ScanShape /\ sc \in ScanT BY DEF StreamInv, ScanShape
<1>1. ASSUME sc'.rs = sc.rs, sc'.desc = sc.desc PROVE RsOrdered' BY <1>1 DEF RsOrdered, InSequence
<1>2. ASSUME sc'.rs = <<>> PROVE RsOrdered'
  <2>1. DOMAIN sc'.rs = {} BY <1>2
  <2>2. QED BY <2>1 DEF RsOrdered, InSequence
<1>3. CASE Aside BY <1>1, <1>3 DEF Aside, Unaltered
<1>4. CASE Query
  <2>1. ASSUME NEW q \in Queries, RunRange(q[1], q[2]) PROVE RsOrdered'
    <3>1. PICK a \in Seq(Valued("num")), d \in BOOLEAN : a = q[1] /\ d = q[2] /\ Apart(a) BY RangeAssumption
    <3>2. Begun(a, d) BY <1>0, <2>1, <3>1, RunEffect
    <3>3. PICK req : req = TranslateLookup("range", "num", a, d) OBVIOUS
    <3>4. InSequence(req.of, d) BY <3>1, <3>3, RequestFacts
    <3>5. sc'.rs = req.of /\ sc'.desc = d BY <3>2, <3>3 DEF Begun
    <3>6. QED BY <3>4, <3>5 DEF RsOrdered, InSequence
  <2>2. CASE Route
    <3>1. ASSUME NEW b, Routed(b) PROVE sc'.rs = sc.rs /\ sc'.desc = sc.desc BY <3>1 DEF Routed
    <3>2. sc'.rs = sc.rs /\ sc'.desc = sc.desc BY <1>0, <2>2, <3>1, RouteEffect DEF Ended
    <3>3. QED BY <1>1, <3>2
  <2>3. CASE Seed
    <3>1. Paged(sc, DOMAIN sc.ways, 1, sc') BY <1>0, <2>3, SeedEffect
    <3>2. QED BY <1>1, <3>1 DEF Paged, Same
  <2>4. CASE Step
    <3>1. sc.pc = "step" /\ HeapShape(sc) /\ Counted(sc) /\ sc.rs # <<>> BY <1>0, <2>4 DEF Step, ScanShape, Reading
    <3>2. ASSUME Ended("route", Tail(sc.rs), <<>>) PROVE RsOrdered'
      <4>1. sc'.rs = Tail(sc.rs) /\ sc'.desc = sc.desc BY <3>2 DEF Ended
      <4>2. sc.rs \in Seq(BoundT) BY <1>0 DEF ScanT
      <4>3. PICK t : t = Tail(sc.rs) OBVIOUS
      <4>4. DOMAIN t = 1 .. Len(sc.rs) - 1 /\ DOMAIN sc.rs = 1 .. Len(sc.rs) /\ Len(sc.rs) \in Nat /\ \A i \in DOMAIN t : t[i] = sc.rs[i + 1]
        BY <3>1, <4>2, <4>3
      <4>5. ASSUME NEW i \in DOMAIN t, NEW j \in DOMAIN t, NEW a \in Scores, NEW b \in Scores,
                   i < j, Contains(t[i], a), Contains(t[j], b)
            PROVE  Precedes("num", a, b, sc.desc)
        <5>1. i + 1 \in DOMAIN sc.rs /\ j + 1 \in DOMAIN sc.rs /\ i + 1 < j + 1 BY <4>4, <4>5
        <5>2. PICK x \in DOMAIN sc.rs, y \in DOMAIN sc.rs : x < y /\ sc.rs[x] = t[i] /\ sc.rs[y] = t[j] BY <4>4, <5>1
        <5>3. QED BY <4>5, <5>2 DEF RsOrdered, InSequence
      <4>6. InSequence(t, sc.desc) BY <4>5 DEF InSequence
      <4>7. QED BY <4>1, <4>3, <4>6 DEF RsOrdered, InSequence
    <3>3. ASSUME NEW f, NEW u, Took(f, u), Paged(u, RanEmpty(u), RefillPage, sc') PROVE RsOrdered'
      BY <1>1, <3>3 DEF Took, Paged, Same
    <3>4. QED BY <1>0, <2>4, <3>1, <3>2, <3>3, StepEffect
  <2>5. CASE Fetch
    <3>1. PICK new : RowsGot(new) BY <1>0, <2>5, FetchEffect
    <3>2. QED BY <1>1, <3>1 DEF RowsGot
  <2>6. CASE Done
    <3>1. sc' = NoScan BY <2>6 DEF Done, Scan
    <3>2. QED BY <1>2, <3>1, NoScanT DEF NoScanFields
  <2>7. QED BY <1>4, <2>1, <2>2, <2>3, <2>4, <2>5, <2>6 DEF Query
<1>5. QED BY <1>0, <1>3, <1>4, OthersAside

LEMMA AtMostOne ==
    ASSUME NEW b \in SUBSET Places, ~(Cardinality(b) > 1), NEW w \in b, NEW v \in b
    PROVE  w = v
<1> SUFFICES ASSUME w # v PROVE FALSE OBVIOUS
<1>1. IsFiniteSet(b) BY PlacesFinite, FS_Subset
<1>2. IsFiniteSet({w}) /\ Cardinality({w}) = 1 BY FS_Singleton
<1>3. Cardinality({w} \cup {v}) = 2
  <2>1. PICK S : S = {w} OBVIOUS
  <2>2. IsFiniteSet(S) /\ Cardinality(S) = 1 /\ v \notin S BY <1>2, <2>1
  <2>3. Cardinality(S \cup {v}) = Cardinality(S) + 1 BY <2>2, FS_AddElement
  <2>4. QED BY <2>1, <2>2, <2>3
<1>4. {w} \cup {v} \in SUBSET b OBVIOUS
<1>5. Cardinality({w} \cup {v}) <= Cardinality(b) BY <1>1, <1>4, FS_Subset
<1>6. Cardinality(b) \in Nat BY <1>1, FS_CardinalityType
<1>7. QED BY <1>3, <1>5, <1>6

\* Inserts add nothing that the query must return.
LEMMA AsideQueue ==
    ASSUME sc \in ScanT, Aside, sc.pc # "idle", ~sc'.moved, Queue(sc)
    PROVE  Queue(sc)'
<1>1. /\ Grown /\ sc'.rs = sc.rs /\ sc'.desc = sc.desc /\ sc'.ways = sc.ways /\ sc'.heap = sc.heap /\ sc'.cand = sc.cand
      /\ sc'.seen = sc.seen /\ sc'.must \subseteq sc.must /\ sc'.out = sc.out
  BY DEF Aside, Unaltered
<1>2. \A k : (CameUp(sc, k) <=> CameUp(sc, k)') /\ (InCand(sc, k) <=> InCand(sc, k)') BY <1>1 DEF CameUp, InCand
<1>3. \A k : Awaited(sc, k)' => Awaited(sc, k) BY <1>1 DEF Awaited
<1>4. GivenOut(sc)' \subseteq GivenOut(sc) BY <1>1 DEF GivenOut
<1>5. Popping(sc)' \subseteq Popping(sc) BY <1>1 DEF Popping, Awaited
<1>6. Heaped(sc)' \subseteq Heaped(sc) BY <1>1 DEF Heaped, Awaited, InCand
<1>7. NotRead(sc)' \subseteq NotRead(sc)
  <2> SUFFICES ASSUME NEW a \in NotRead(sc)' PROVE a \in NotRead(sc) OBVIOUS
  <2>1. a \in Scores /\ \E w \in DOMAIN sc.ways : \E m \in InBucket(sc, w[1])' : m[2] \in sc'.must /\ ~CameUp(sc, m[2])' /\ m[1] = a
    BY <1>1 DEF NotRead, CameUp, InCand, InBucket, Within
  <2>2. PICK w \in DOMAIN sc.ways : \E m \in InBucket(sc, w[1])' : m[2] \in sc'.must /\ ~CameUp(sc, m[2])' /\ m[1] = a BY <2>1
  <2>3. PICK m \in InBucket(sc, w[1])' : m[2] \in sc'.must /\ ~CameUp(sc, m[2])' /\ m[1] = a BY <2>2
  <2>4. PICK b \in RIdx : b = w[1] BY WaysParts
  <2>5. m \in bk'[b] /\ Contains(Head(sc.rs), m[1]) BY <1>1, <2>4 DEF InBucket, Within
  <2>6. m \in bk[b] BY <1>1, <2>3, <2>5 DEF Grown
  <2>7. m \in InBucket(sc, w[1]) BY <2>4, <2>5, <2>6 DEF InBucket, Within
  <2>8. m[2] \in sc.must /\ ~CameUp(sc, m[2]) BY <1>1, <1>2, <2>3
  <2>9. QED BY <2>1, <2>3, <2>7, <2>8 DEF NotRead
<1>8. AllBefore(sc.desc, GivenOut(sc), Popping(sc))' BY <1>1, <1>4, <1>5 DEF Queue, AllBefore
<1>9. AllBefore(sc.desc, GivenOut(sc) \cup Popping(sc), Heaped(sc))' BY <1>1, <1>4, <1>5, <1>6 DEF Queue, AllBefore
<1>10. AllBefore(sc.desc, GivenOut(sc) \cup Popping(sc) \cup Heaped(sc), NotRead(sc))'
  BY <1>1, <1>4, <1>5, <1>6, <1>7 DEF Queue, AllBefore
<1>11. (\A i, j \in DOMAIN sc.cand : i < j => NotAfter(sc.desc, sc.cand[i][1], sc.cand[j][1]))' BY <1>1 DEF Queue, NotAfter
<1>12. QED BY <1>8, <1>9, <1>10, <1>11 DEF Queue


\* Candidates become rows: those that are behind them in the heap, in the bucket or in a
\* later interval do not come before.
LEMMA FetchTurn ==
    ASSUME Loose, ScanShape, RsOrdered, sc.pc = "fetch", NEW new, RowsGot(new), ~sc'.stray,
           InOrder, AllBefore(sc.desc, GivenOut(sc), InRest), Queue(sc), OneWay(sc), QueryStill
    PROVE  InOrder' /\ AllBefore(sc.desc, GivenOut(sc), InRest)' /\ OneWay(sc)' /\ Queue(sc)'
<1>0. sc \in ScanT /\ sc.rs # <<>> /\ CandShape(sc) BY DEF ScanShape, Reading
<1>1. /\ Delivered(new) /\ sc'.cand = <<>> /\ sc'.out = sc.out \o new /\ sc'.pc = "step"
      /\ sc'.seen = sc.seen \cup {sc.cand[i][2] : i \in Unseen(sc.cand, sc.seen)}
      /\ \A n \in DOMAIN new : sc.cand[Kth(Matching, n)][1] = new[n][2]
      /\ sc'.rs = sc.rs /\ sc'.desc = sc.desc /\ sc'.heap = sc.heap /\ sc'.ways = sc.ways /\ sc'.must = sc.must
  BY DEF RowsGot
<1>2. sc.out \in Seq(RPks \X Scores) /\ new \in Seq(RPks \X Scores) BY <1>0, <1>1 DEF ScanT, Delivered
<1>4. PICK t : t = sc' OBVIOUS
<1>5. \A i \in DOMAIN sc.cand : sc.cand[i][2] \in t.seen BY <1>0, <1>4, SeenAll
<1>6. ASSUME NEW n \in DOMAIN new
      PROVE  /\ Kth(Matching, n) \in DOMAIN sc.cand /\ Contains(Head(sc.rs), new[n][2]) /\ new[n][2] \in Scores
             /\ new[n][1] \in sc.must => new[n][2] \in Popping(sc)
  <2>1. PICK i \in Matching : i = Kth(Matching, n) BY <1>1 DEF Delivered
  <2>2. i \in DOMAIN sc.cand /\ sc.cand[i][2] \notin sc.seen BY DEF Matching, Unseen
  <2>3. new[n][1] = sc.cand[i][2] /\ new[n][2] = sc.cand[i][1] BY <1>1, <2>1 DEF Delivered
  <2>4. new[n] \in RPks \X Scores BY <1>2
  <2>5. new[n][2] \in Scores BY <2>4
  <2>6. Contains(Head(sc.rs), new[n][2]) BY <1>0, <2>2, <2>3 DEF CandShape
  <2>7. new[n][1] \in sc.must => new[n][2] \in Popping(sc) BY <2>2, <2>3, <2>5 DEF Popping, Awaited
  <2>8. QED BY <2>1, <2>2, <2>5, <2>6, <2>7
<1>7. /\ DOMAIN t.out = 1 .. Len(sc.out) + Len(new) /\ DOMAIN sc.out = 1 .. Len(sc.out) /\ DOMAIN new = 1 .. Len(new)
      /\ Len(sc.out) \in Nat /\ Len(new) \in Nat
      /\ \A i \in DOMAIN sc.out : t.out[i] = sc.out[i]
      /\ \A i \in DOMAIN t.out : i \notin DOMAIN sc.out => i - Len(sc.out) \in DOMAIN new /\ t.out[i] = new[i - Len(sc.out)]
  <2>1. t.out = sc.out \o new BY <1>1, <1>4
  <2>2. QED BY <1>2, <2>1
<1>8. ASSUME NEW x \in GivenOut(t)
      PROVE  x \in GivenOut(sc) \/ (x \in Popping(sc) /\ Contains(Head(sc.rs), x))
  <2>1. PICK i \in DOMAIN t.out : t.out[i][1] \in sc.must /\ t.out[i][2] = x /\ x \in Scores BY <1>1, <1>4 DEF GivenOut
  <2>2. CASE i \in DOMAIN sc.out BY <1>7, <2>1, <2>2 DEF GivenOut
  <2>3. CASE i \notin DOMAIN sc.out
    <3>1. PICK n \in DOMAIN new : t.out[i] = new[n] BY <1>7, <2>3
    <3>2. QED BY <1>6, <2>1, <3>1
  <2>4. QED BY <2>2, <2>3
<1>9. ASSUME NEW i \in DOMAIN t.out, NEW j \in DOMAIN t.out, i < j, t.out[i][1] \in sc.must, t.out[j][1] \in sc.must
      PROVE  NotAfter(sc.desc, t.out[i][2], t.out[j][2])
  <2>1. i \in Nat /\ j \in Nat BY <1>7
  <2>2. CASE j \in DOMAIN sc.out
    <3>1. i \in DOMAIN sc.out BY <1>7, <1>9, <2>1, <2>2
    <3>2. QED BY <1>7, <1>9, <2>2, <3>1, ZenonT(40) DEF InOrder, NotAfter
  <2>3. CASE i \in DOMAIN sc.out /\ j \notin DOMAIN sc.out
    <3>1. PICK n \in DOMAIN new : t.out[j] = new[n] BY <1>7, <2>3
    <3>2. new[n][2] \in Popping(sc) BY <1>6, <1>9, <3>1
    <3>3. sc.out[i] \in RPks \X Scores BY <1>2, <2>3
    <3>4. sc.out[i][2] \in Scores BY <3>3
    <3>5. sc.out[i][2] \in GivenOut(sc) BY <1>7, <1>9, <2>3, <3>4 DEF GivenOut
    <3>6. QED BY <1>7, <2>3, <3>1, <3>2, <3>5 DEF Queue, AllBefore
  <2>4. CASE i \notin DOMAIN sc.out /\ j \notin DOMAIN sc.out
    <3>1. PICK n \in DOMAIN new, h \in DOMAIN new : n = i - Len(sc.out) /\ h = j - Len(sc.out) /\ t.out[i] = new[n] /\ t.out[j] = new[h]
      BY <1>7, <2>4
    <3>2. n < h BY <1>7, <1>9, <2>1, <3>1
    <3>3. Kth(Matching, n) < Kth(Matching, h) BY <1>1, <3>2 DEF Delivered
    <3>4. Kth(Matching, n) \in DOMAIN sc.cand /\ Kth(Matching, h) \in DOMAIN sc.cand BY <1>6
    <3>5. NotAfter(sc.desc, sc.cand[Kth(Matching, n)][1], sc.cand[Kth(Matching, h)][1]) BY <3>3, <3>4 DEF Queue
    <3>6. QED BY <1>1, <3>1, <3>5
  <2>5. QED BY <1>7, <2>1, <2>2, <2>3, <2>4
<1>10. InOrder' BY <1>1, <1>4, <1>9 DEF InOrder, NotAfter
<1>11. RestRs' = Tail(sc.rs) /\ RestRs = Tail(sc.rs) BY <1>1 DEF RestRs, Reading
<1>12. ASSUME NEW x \in GivenOut(t), NEW y \in InRest PROVE NotAfter(sc.desc, x, y)
  <2>1. CASE x \in GivenOut(sc) BY <2>1 DEF AllBefore
  <2>2. CASE x \in Popping(sc) /\ Contains(Head(sc.rs), x)
    <3>1. x \in Scores /\ y \in Scores BY <2>2 DEF Popping, InRest
    <3>2. PICK i \in DOMAIN Tail(sc.rs) : Contains(Tail(sc.rs)[i], y) BY <1>11 DEF InRest
    <3>3. sc.rs \in Seq(BoundT) BY <1>0 DEF ScanT
    <3>4. i + 1 \in DOMAIN sc.rs /\ 1 \in DOMAIN sc.rs /\ 1 < i + 1 /\ Tail(sc.rs)[i] = sc.rs[i + 1] /\ Head(sc.rs) = sc.rs[1]
      BY <1>0, <3>3
    <3>5. PICK n \in DOMAIN sc.rs, h \in DOMAIN sc.rs : n < h /\ Contains(sc.rs[n], x) /\ Contains(sc.rs[h], y) BY <2>2, <3>2, <3>4
    <3>6. Precedes("num", x, y, sc.desc) BY <3>1, <3>5 DEF RsOrdered, InSequence
    <3>7. x \in Nat /\ y \in Nat BY <3>1, InfFacts
    <3>8. QED BY <3>6, <3>7 DEF Precedes, Less, NotAfter
  <2>3. QED BY <1>8, <2>1, <2>2
<1>13. AllBefore(sc.desc, GivenOut(sc), InRest)'
  <2>1. InRest' = InRest BY <1>11 DEF InRest
  <2>2. GivenOut(sc)' = GivenOut(t) BY <1>4 DEF GivenOut
  <2>3. QED BY <1>1, <1>12, <2>1, <2>2 DEF AllBefore
<1>14. Popping(t) = {} /\ \A k : ~InCand(t, k) BY <1>1, <1>4 DEF Popping, InCand
<1>15. sc.seen \subseteq t.seen /\ \A k : CameUp(sc, k) => CameUp(t, k) BY <1>1, <1>4, <1>5 DEF CameUp, InCand
<1>16. Heaped(t) \subseteq Heaped(sc)
  <2> SUFFICES ASSUME NEW x \in Heaped(t) PROVE x \in Heaped(sc) OBVIOUS
  <2>1. PICK y \in sc.heap : Awaited(t, y[1][2]) /\ y[1][1] = x /\ x \in Scores BY <1>1, <1>4 DEF Heaped
  <2>2. Awaited(sc, y[1][2]) /\ ~InCand(sc, y[1][2]) BY <1>1, <1>4, <1>5, <1>15, <2>1 DEF Awaited, InCand
  <2>3. QED BY <2>1, <2>2 DEF Heaped
<1>17. NotRead(t) \subseteq NotRead(sc)
  <2>1. \A w : InBucket(t, w[1]) = InBucket(sc, w[1]) BY <1>1, <1>4 DEF InBucket
  <2>2. QED BY <1>1, <1>4, <1>15, <2>1 DEF NotRead
<1>18. AllBefore(t.desc, GivenOut(t) \cup Popping(t), Heaped(t)) BY <1>1, <1>4, <1>8, <1>14, <1>16 DEF Queue, AllBefore
<1>19. AllBefore(t.desc, GivenOut(t) \cup Popping(t) \cup Heaped(t), NotRead(t))
  BY <1>1, <1>4, <1>8, <1>14, <1>16, <1>17 DEF Queue, AllBefore
<1>20. AllBefore(t.desc, GivenOut(t), Popping(t)) BY <1>14 DEF AllBefore
<1>21. DOMAIN t.cand = {} BY <1>1, <1>4
<1>22. Queue(t) BY <1>18, <1>19, <1>20, <1>21 DEF Queue
<1>23. OneWay(t) BY <1>1, <1>4 DEF OneWay
<1>24. Queue(sc)' /\ OneWay(sc)' BY <1>4, <1>22, <1>23, QueueNext
<1>25. QED BY <1>10, <1>13, <1>24


\* Nothing was delivered and nothing is read.
LEMMA NothingYet ==
    ASSUME sc' \in ScanT, sc'.out = <<>>, sc'.ways = <<>>, sc'.pc \notin Reading
    PROVE  InTurn'
<1>1. DOMAIN sc'.out = {} /\ DOMAIN sc'.ways = {} BY NoWays
<1>2. InOrder' BY <1>1 DEF InOrder
<1>3. GivenOut(sc)' = {} BY <1>1 DEF GivenOut
<1>4. AllBefore(sc.desc, GivenOut(sc), InRest)' BY <1>3 DEF AllBefore
<1>5. OneWay(sc)' BY <1>1 DEF OneWay
<1>6. QED BY <1>2, <1>4, <1>5 DEF InTurn

LEMMA TurnStep ==
    ASSUME StreamInv, ReadSoFar, RsOrdered, InTurn, [RNext]_rvars
    PROVE  InTurn'
<1>0. Loose /\ DocsT /\ ScanShape /\ sc \in ScanT BY DEF StreamInv, ScanShape
<1>1. SUFFICES ASSUME Undisturbed'
               PROVE  InOrder' /\ AllBefore(sc.desc, GivenOut(sc), InRest)' /\ OneWay(sc)' /\ (sc'.pc \in Reading => Queue(sc)')
  BY DEF InTurn
<1>2. ~sc'.wide /\ ~sc'.moved /\ ~sc'.stray BY <1>1 DEF Undisturbed
<1> DEFINE Turn == InOrder /\ AllBefore(sc.desc, GivenOut(sc), InRest) /\ OneWay(sc) /\ (sc.pc \in Reading => Queue(sc))
           Kept == sc'.out = sc.out /\ sc'.must = sc.must /\ sc'.desc = sc.desc
<1>3. ASSUME ~sc.wide, ~sc.moved, ~sc.stray PROVE Turn BY <1>3 DEF InTurn, Undisturbed
<1>4. ASSUME Kept, Turn PROVE InOrder' /\ GivenOut(sc)' = GivenOut(sc) BY <1>4 DEF InOrder, GivenOut
<1>5. ASSUME Kept, Turn, InRest' \subseteq InRest PROVE InOrder' /\ AllBefore(sc.desc, GivenOut(sc), InRest)'
  <2>1. InOrder' /\ GivenOut(sc)' = GivenOut(sc) BY <1>4, <1>5
  <2>2. QED BY <1>5, <2>1 DEF AllBefore
<1> HIDE DEF Turn, Kept
<1>6. CASE Aside
  <2>1. Unaltered BY <1>6 DEF Aside
  <2>2. /\ sc'.pc = sc.pc /\ sc'.rs = sc.rs /\ sc'.desc = sc.desc /\ sc'.ways = sc.ways /\ sc'.out = sc.out
        /\ sc'.must \subseteq sc.must /\ sc'.wide = sc.wide /\ sc'.stray = sc.stray /\ (sc.moved => sc'.moved)
    BY <2>1 DEF Unaltered
  <2>3. Turn BY <1>2, <1>3, <2>2
  <2>4. InOrder' BY <2>2, <2>3 DEF Turn, InOrder
  <2>5. InRest' = InRest BY <2>2 DEF InRest, RestRs
  <2>6. GivenOut(sc)' \subseteq GivenOut(sc) BY <2>2 DEF GivenOut
  <2>7. AllBefore(sc.desc, GivenOut(sc), InRest)' BY <2>2, <2>3, <2>5, <2>6 DEF Turn, AllBefore
  <2>8. OneWay(sc)' BY <2>2, <2>3 DEF Turn, OneWay
  <2>9. ASSUME sc'.pc \in Reading PROVE Queue(sc)'
    <3>1. Queue(sc) /\ sc.pc # "idle" BY <2>2, <2>3, <2>9 DEF Turn, Reading
    <3>2. QED BY <1>0, <1>2, <1>6, <3>1, AsideQueue
  <2>10. QED BY <2>4, <2>7, <2>8, <2>9
<1>7. CASE Query
  <2>0. QueryStill BY <1>7, QueryQuiet
  <2>1. ASSUME NEW q \in Queries, RunRange(q[1], q[2]) PROVE InTurn'
    <3>1. PICK a \in Seq(Valued("num")), d \in BOOLEAN : a = q[1] /\ d = q[2] BY RangeAssumption
    <3>2. Begun(a, d) BY <1>0, <2>1, <3>1, RunEffect
    <3>3. QED BY <3>2, NothingYet DEF Begun, Reading
  <2>2. ASSUME Route PROVE InTurn'
    <3>0. sc.pc = "route" BY <2>2 DEF Route
    <3>1. ASSUME Ended("done", sc.rs, sc.ways) PROVE InTurn'
      <4>1. Kept /\ sc'.pc = "done" /\ sc'.rs = sc.rs /\ sc'.ways = sc.ways BY <3>1 DEF Ended, Kept
      <4>2. ~sc.wide /\ ~sc.moved /\ ~sc.stray BY <1>2, <3>1 DEF Ended
      <4>3. Turn BY <1>3, <4>2
      <4>4. InRest' = InRest BY <3>0, <4>1 DEF InRest, RestRs, Reading
      <4>5. InOrder' /\ AllBefore(sc.desc, GivenOut(sc), InRest)' BY <1>5, <4>1, <4>3, <4>4
      <4>6. OneWay(sc)' BY <4>1, <4>3 DEF Turn, OneWay
      <4>7. QED BY <4>1, <4>5, <4>6 DEF InTurn, Reading
    <3>2. ASSUME NEW b, Routed(b), sc.rs # <<>> PROVE InTurn'
      <4>1. Kept /\ sc'.pc = "seed" /\ sc'.rs = sc.rs /\ DOMAIN sc'.ways = b /\ b \in SUBSET Places BY <3>2 DEF Routed, Kept
      <4>2. ~sc.wide /\ ~sc.moved /\ ~sc.stray /\ ~(Cardinality(b) > 1) BY <1>2, <3>2 DEF Routed
      <4>3. Turn BY <1>3, <4>2
      <4>4. sc.heap = {} /\ sc.cand = <<>> BY <1>0, <3>0 DEF ScanShape
      <4>5. sc'.heap = {} /\ sc'.cand = <<>> BY <3>2, <4>4 DEF Routed
      <4>6. sc.rs \in Seq(BoundT) BY <1>0 DEF ScanT
      <4>7. RestRs = sc.rs /\ RestRs' = Tail(sc.rs) BY <3>0, <4>1 DEF RestRs, Reading
      <4>8. InRest' \subseteq InRest
        <5> SUFFICES ASSUME NEW a \in InRest' PROVE a \in InRest OBVIOUS
        <5>1. PICK i \in DOMAIN Tail(sc.rs) : Contains(Tail(sc.rs)[i], a) /\ a \in Scores BY <4>7 DEF InRest
        <5>2. i + 1 \in DOMAIN sc.rs /\ Tail(sc.rs)[i] = sc.rs[i + 1] BY <3>2, <4>6
        <5>3. PICK h \in DOMAIN sc.rs : Contains(sc.rs[h], a) BY <5>1, <5>2
        <5>4. QED BY <4>7, <5>1, <5>3 DEF InRest
      <4>9. InOrder' /\ AllBefore(sc.desc, GivenOut(sc), InRest)' BY <1>5, <4>1, <4>3, <4>8
      <4>10. OneWay(sc)'
        <5>1. \A w, v \in b : w = v BY <4>1, <4>2, AtMostOne
        <5>2. QED BY <4>1, <5>1 DEF OneWay
      <4>11. Popping(sc)' = {} /\ Heaped(sc)' = {} /\ DOMAIN sc'.cand = {} BY <4>5 DEF Popping, Heaped
      <4>12. NotRead(sc)' \subseteq InRest
        <5> SUFFICES ASSUME NEW a \in NotRead(sc)' PROVE a \in InRest OBVIOUS
        <5>1. a \in Scores /\ Contains(Head(sc.rs), a) BY <4>1 DEF NotRead, InBucket, Within
        <5>2. 1 \in DOMAIN sc.rs /\ Head(sc.rs) = sc.rs[1] BY <3>2, <4>6
        <5>3. QED BY <4>7, <5>1, <5>2 DEF InRest
      <4>13. GivenOut(sc)' = GivenOut(sc) BY <1>4, <4>1, <4>3
      <4>14. AllBefore(sc.desc, GivenOut(sc) \cup Popping(sc) \cup Heaped(sc), NotRead(sc))'
        BY <4>1, <4>3, <4>11, <4>12, <4>13 DEF Turn, AllBefore, Kept
      <4>15. AllBefore(sc.desc, GivenOut(sc), Popping(sc))' /\ AllBefore(sc.desc, GivenOut(sc) \cup Popping(sc), Heaped(sc))'
        BY <4>11 DEF AllBefore
      <4>16. Queue(sc)' BY <4>11, <4>14, <4>15 DEF Queue
      <4>17. QED BY <4>9, <4>10, <4>16 DEF InTurn
    <3>3. QED BY <1>0, <2>2, <3>1, <3>2, RouteEffect
  <2>3. ASSUME Seed PROVE InTurn'
    <3>1. sc.pc = "seed" /\ sc.heap = {} BY <1>0, <2>3 DEF Seed, ScanShape
    <3>2. sc'.pc = "step" /\ Paged(sc, DOMAIN sc.ways, 1, sc') BY <1>0, <2>3, SeedEffect
    <3>3. Kept /\ sc'.rs = sc.rs /\ ~sc.wide /\ ~sc.moved /\ ~sc.stray BY <1>2, <3>2 DEF Paged, Same, Kept
    <3>4. Turn /\ Behind(sc) BY <1>3, <3>1, <3>3 DEF ReadSoFar, Reading
    <3>5. PICK t : t = sc' OBVIOUS
    <3>6. PICK W \in SUBSET DOMAIN sc.ways : W = DOMAIN sc.ways OBVIOUS
    <3>7. PICK n \in Nat : n = 1 OBVIOUS
    <3>8. Paged(sc, W, n, t) BY <3>2, <3>5, <3>6, <3>7
    <3>9. Queue(sc) /\ OneWay(sc) /\ HeapShape(sc) BY <1>0, <3>1, <3>4 DEF Turn, Reading, ScanShape
    <3>10. \A w \in W : InHeap(sc, w) = {} BY <3>1 DEF InHeap
    <3>11. Queue(t) /\ OneWay(t) BY <1>0, <3>4, <3>8, <3>9, <3>10, PagedQueue
    <3>12. Queue(sc)' /\ OneWay(sc)' BY <2>0, <3>5, <3>11, QueueNext
    <3>13. InRest' = InRest BY <3>1, <3>2, <3>3 DEF InRest, RestRs, Reading
    <3>14. InOrder' /\ AllBefore(sc.desc, GivenOut(sc), InRest)' BY <1>5, <3>3, <3>4, <3>13
    <3>15. QED BY <3>12, <3>14 DEF InTurn
  <2>4. ASSUME Step PROVE InTurn'
    <3>1. sc.pc = "step" /\ HeapShape(sc) /\ Counted(sc) /\ sc.rs # <<>> /\ sc.cand = <<>> BY <1>0, <2>4 DEF Step, ScanShape, Reading
    <3>2. ASSUME Ended("route", Tail(sc.rs), <<>>) PROVE InTurn'
      <4>1. Kept /\ sc'.pc = "route" /\ sc'.rs = Tail(sc.rs) /\ sc'.ways = <<>> BY <3>2 DEF Ended, Kept
      <4>2. ~sc.wide /\ ~sc.moved /\ ~sc.stray BY <1>2, <3>2 DEF Ended
      <4>3. Turn BY <1>3, <4>2
      <4>4. InRest' = InRest BY <3>1, <4>1 DEF InRest, RestRs, Reading
      <4>5. InOrder' /\ AllBefore(sc.desc, GivenOut(sc), InRest)' BY <1>5, <4>1, <4>3, <4>4
      <4>6. DOMAIN sc'.ways = {} BY <4>1, NoWays
      <4>7. OneWay(sc)' BY <4>6 DEF OneWay
      <4>8. QED BY <4>1, <4>5, <4>7 DEF InTurn, Reading
    <3>3. ASSUME NEW f, NEW u, Took(f, u), HeapShape(u), sc'.pc = "fetch", Paged(u, RanEmpty(u), RefillPage, sc') PROVE InTurn'
      <4>1. Kept /\ sc'.rs = sc.rs /\ ~sc.wide /\ ~sc.moved /\ ~sc.stray BY <1>2, <3>3 DEF Took, Paged, Same, Kept
      <4>2. Turn /\ Behind(sc) BY <1>3, <3>1, <4>1 DEF ReadSoFar, Reading
      <4>3. Queue(sc) /\ OneWay(sc) BY <3>1, <4>2 DEF Turn, Reading
      <4>4. u \in ScanT /\ Counted(u) BY <3>3 DEF Took
      <4>5. Queue(u) /\ OneWay(u) BY <1>0, <3>1, <3>3, <4>3, TookQueue
      <4>6. Behind(u) BY <1>0, <3>1, <3>3, <4>2, TookBehind
      <4>7. PICK t : t = sc' OBVIOUS
      <4>8. PICK W : W = RanEmpty(u) OBVIOUS
      <4>9. RefillPage \in Nat /\ W \in SUBSET DOMAIN u.ways BY <4>8, RangeAssumption DEF RanEmpty
      <4>10. ASSUME NEW w \in W PROVE InHeap(u, w) = {}
        <5>1. w \in DOMAIN u.ways /\ u.ways[w].inHeap = 0 BY <4>8 DEF RanEmpty
        <5>2. Cardinality(InHeap(u, w)) = 0 BY <4>4, <5>1 DEF Counted
        <5>3. IsFiniteSet(InHeap(u, w)) BY <1>0, <3>3, <4>4, StreamHeap
        <5>4. QED BY <5>2, <5>3, FS_EmptySet
      <4>11. Paged(u, W, RefillPage, t) BY <3>3, <4>7, <4>8
      <4>12. Queue(t) /\ OneWay(t) BY <1>0, <3>3, <4>4, <4>5, <4>6, <4>9, <4>10, <4>11, PagedQueue
      <4>13. Queue(sc)' /\ OneWay(sc)' BY <2>0, <4>7, <4>12, QueueNext
      <4>14. InRest' = InRest BY <3>1, <3>3, <4>1 DEF InRest, RestRs, Reading
      <4>15. InOrder' /\ AllBefore(sc.desc, GivenOut(sc), InRest)' BY <1>5, <4>1, <4>2, <4>14
      <4>16. QED BY <4>13, <4>15 DEF InTurn
    <3>4. QED BY <1>0, <2>4, <3>1, <3>2, <3>3, StepEffect
  <2>5. ASSUME Fetch PROVE InTurn'
    <3>1. PICK new : RowsGot(new) BY <1>0, <2>5, FetchEffect, SMTT(30)
    <3>2. sc.pc = "fetch" BY <2>5 DEF Fetch
    <3>3. ~sc.wide /\ ~sc.moved /\ ~sc.stray BY <1>2, <3>1 DEF RowsGot
    <3>4. Turn BY <1>3, <3>3
    <3>5. InOrder /\ AllBefore(sc.desc, GivenOut(sc), InRest) /\ Queue(sc) /\ OneWay(sc) BY <3>2, <3>4 DEF Turn, Reading
    <3>6. InOrder' /\ AllBefore(sc.desc, GivenOut(sc), InRest)' /\ OneWay(sc)' /\ Queue(sc)'
      BY <1>0, <1>2, <2>0, <3>1, <3>2, <3>5, FetchTurn
    <3>7. QED BY <3>6 DEF InTurn
  <2>6. ASSUME Done PROVE InTurn'
    <3>1. sc' = NoScan BY <2>6 DEF Done, Scan
    <3>2. QED BY <3>1, NoScanT, NothingYet DEF NoScanFields, Reading
  <2>7. InTurn' BY <1>7, <2>1, <2>2, <2>3, <2>4, <2>5, <2>6 DEF Query
  <2>8. QED BY <1>1, <2>7 DEF InTurn
<1>8. QED BY <1>0, <1>6, <1>7, OthersAside

OrderInv == StreamInv /\ ReadSoFar /\ RsOrdered /\ InTurn

\* OrderedAlone: the rows of an index that is in one bucket come in the order that gms relies
\* on when it drops the Sort node - those that satisfy the predicate from the beginning to the
\* end, whatever is inserted meanwhile, if no member leaves a bucket while the query runs and
\* no member that was left behind returned a row.
THEOREM OneBucketInOrder == RSpec => []OrderedAlone
<1>1. RInit => OrderInv
  <2> SUFFICES ASSUME RInit PROVE OrderInv OBVIOUS
  <2>1. StreamInv BY StreamInit
  <2>2. sc = NoScan BY DEF RInit
  <2>3. sc.pc = "idle" /\ sc.rs = <<>> /\ sc.out = <<>> /\ sc.ways = <<>> BY <2>2, NoScanT DEF NoScanFields
  <2>4. ReadSoFar BY <2>3 DEF ReadSoFar, Reading
  <2>5. DOMAIN sc.rs = {} /\ DOMAIN sc.out = {} /\ DOMAIN sc.ways = {} BY <2>3, NoWays
  <2>6. RsOrdered BY <2>5 DEF RsOrdered, InSequence
  <2>7. InOrder /\ OneWay(sc) BY <2>5 DEF InOrder, OneWay
  <2>8. GivenOut(sc) = {} BY <2>5 DEF GivenOut
  <2>9. AllBefore(sc.desc, GivenOut(sc), InRest) BY <2>8 DEF AllBefore
  <2>10. InTurn BY <2>3, <2>7, <2>9 DEF InTurn, Reading
  <2>11. QED BY <2>1, <2>4, <2>6, <2>10 DEF OrderInv
<1>2. OrderInv /\ [RNext]_rvars => OrderInv' BY ScanStep, BehindStep, RsStep, TurnStep DEF OrderInv
<1>3. OrderInv => OrderedAlone BY DEF OrderInv, InTurn, Undisturbed, OrderedAlone
<1>4. QED BY <1>1, <1>2, <1>3, PTL DEF RSpec


(***************************************************************************)
(* translateLookup.                                                        *)
(***************************************************************************)
StringFacts(a) == Len(a) \in Nat /\ DOMAIN a = 1 .. Len(a) /\ a # <<>> /\ \A i \in 1 .. Len(a) : a[i] \in Nat /\ a[i] < Top

LEMMA StringParts == \A a \in Strings : a \in Seq(Nat) /\ StringFacts(a)
<1> TAKE a \in Strings
<1>1. a \in Seq(1 .. Top - 1) /\ a # <<>> /\ Top \in Nat BY LookupAssumption
<1>2. Len(a) \in Nat /\ DOMAIN a = 1 .. Len(a) /\ \A i \in 1 .. Len(a) : a[i] \in 1 .. Top - 1 BY <1>1
<1>3. \A i \in 1 .. Len(a) : a[i] \in Nat /\ a[i] < Top BY <1>1, <1>2
<1>4. a \in Seq(Nat) BY <1>1
<1>5. QED BY <1>1, <1>2, <1>3, <1>4 DEF StringFacts

\* The order of strings is total.
LEMMA LexTotal ==
    ASSUME NEW a \in Strings, NEW b \in Strings
    PROVE  a = b \/ Lex(a, b) \/ Lex(b, a)
<1> SUFFICES ASSUME a # b PROVE Lex(a, b) \/ Lex(b, a) OBVIOUS
<1>1. a \in Seq(Nat) /\ b \in Seq(Nat) /\ StringFacts(a) /\ StringFacts(b) BY StringParts, SMTT(30)
<1>2. PICK m \in Nat, n \in Nat : m = Len(a) /\ n = Len(b) BY <1>1, Zenon DEF StringFacts
<1> DEFINE D == {i \in 1 .. m + n : i > m \/ i > n \/ a[i] # b[i]}
<1>3. m # 0 /\ n # 0 BY <1>1, <1>2 DEF StringFacts
<1>4. D # {}
  <2>1. CASE m < n
    <3>1. m + 1 \in D BY <1>3, <2>1
    <3>2. QED BY <3>1
  <2>2. CASE n < m
    <3>1. n + 1 \in D BY <1>3, <2>2
    <3>2. QED BY <3>1
  <2>3. CASE m = n
    <3>1. PICK i \in 1 .. m : a[i] # b[i] BY <1>1, <1>2, <2>3, SeqEqual
    <3>2. i \in D BY <1>2, <3>1
    <3>3. QED BY <3>2
  <2>4. QED BY <2>1, <2>2, <2>3
<1>5. IsFiniteSet(1 .. m + n)
  <2>1. 1 \in Int /\ m + n \in Int OBVIOUS
  <2>2. QED BY <2>1, FS_Interval
<1>6. D \in SUBSET (1 .. m + n) /\ D \in SUBSET Nat OBVIOUS
<1>7. IsFiniteSet(D) BY <1>5, <1>6, FS_Subset
<1>8. PICK i \in D : \A j \in D : i <= j
  <2> HIDE DEF D
  <2>1. QED BY <1>4, <1>6, <1>7, LeastOf
<1>9. i \in Nat /\ 1 <= i /\ (i > m \/ i > n \/ a[i] # b[i]) BY <1>2
<1>10. \A j \in 1 .. i - 1 : j <= m /\ j <= n /\ a[j] = b[j]
  <2> TAKE j \in 1 .. i - 1
  <2>1. j \in 1 .. m + n /\ ~(i <= j) BY <1>6, <1>9
  <2>2. j \notin D BY <1>8, <2>1
  <2>3. QED BY <1>2, <2>1, <2>2
<1>11. i <= m \/ i <= n
  <2> SUFFICES ASSUME i > m, i > n PROVE FALSE BY <1>2, <1>9
  <2>1. CASE m < n
    <3>1. n \in 1 .. i - 1 BY <1>3, <1>9
    <3>2. QED BY <1>10, <2>1, <3>1
  <2>2. CASE n < m
    <3>1. m \in 1 .. i - 1 BY <1>3, <1>9
    <3>2. QED BY <1>10, <2>2, <3>1
  <2>3. CASE m = n
    <3>1. \A j \in 1 .. m : j \in 1 .. i - 1 BY <1>9
    <3>2. \A j \in 1 .. m : a[j] = b[j] BY <1>10, <3>1
    <3>3. QED BY <1>1, <1>2, <2>3, <3>2, SeqEqual
  <2>4. QED BY <2>1, <2>2, <2>3
<1>12. CASE i > m
  <2>1. i \in 1 .. n BY <1>9, <1>11, <1>12
  <2>2. Lex(a, b) BY <1>2, <1>10, <1>12, <2>1 DEF Lex
  <2>3. QED BY <2>2
<1>13. CASE i > n
  <2>1. i \in 1 .. m BY <1>9, <1>11, <1>13
  <2>2. Lex(b, a) BY <1>2, <1>10, <1>13, <2>1 DEF Lex
  <2>3. QED BY <2>2
<1>14. CASE i <= m /\ i <= n
  <2>1. i \in 1 .. m /\ i \in 1 .. n /\ a[i] # b[i] BY <1>9, <1>14
  <2>2. a[i] \in Nat /\ b[i] \in Nat BY <1>1, <1>2, <2>1 DEF StringFacts
  <2>3. CASE a[i] < b[i]
    <3>1. Lex(a, b) BY <1>2, <1>10, <2>1, <2>3 DEF Lex
    <3>2. QED BY <3>1
  <2>4. CASE b[i] < a[i]
    <3>1. Lex(b, a) BY <1>2, <1>10, <2>1, <2>4 DEF Lex
    <3>2. QED BY <3>1
  <2>5. QED BY <2>1, <2>2, <2>3, <2>4
<1>15. QED BY <1>2, <1>9, <1>12, <1>13, <1>14

LEMMA LexIrreflexive ==
    ASSUME NEW a \in Strings
    PROVE  ~Lex(a, a)
<1> SUFFICES ASSUME Lex(a, a) PROVE FALSE OBVIOUS
<1>1. StringFacts(a) BY StringParts
<1>2. PICK i \in 1 .. Len(a) : i > Len(a) \/ a[i] < a[i] BY DEF Lex
<1>3. a[i] \in Nat /\ Len(a) \in Nat BY <1>1 DEF StringFacts
<1>4. QED BY <1>2, <1>3

LEMMA LexTransitive ==
    ASSUME NEW a \in Strings, NEW b \in Strings, NEW c \in Strings, Lex(a, b), Lex(b, c)
    PROVE  Lex(a, c)
<1>1. StringFacts(a) /\ StringFacts(b) /\ StringFacts(c) BY StringParts
<1>2. PICK l \in Nat, m \in Nat, n \in Nat : l = Len(a) /\ m = Len(b) /\ n = Len(c) BY <1>1, Zenon DEF StringFacts
<1>3. PICK i \in 1 .. m : (\A j \in 1 .. i - 1 : j <= l /\ a[j] = b[j]) /\ (i > l \/ a[i] < b[i]) BY <1>2 DEF Lex
<1>4. PICK k \in 1 .. n : (\A j \in 1 .. k - 1 : j <= m /\ b[j] = c[j]) /\ (k > m \/ b[k] < c[k]) BY <1>2 DEF Lex
<1>5. i \in Nat /\ k \in Nat OBVIOUS
<1>6. CASE i < k
  <2>1. i \in 1 .. k - 1 /\ i \in 1 .. n BY <1>5, <1>6
  <2>2. \A j \in 1 .. i - 1 : j \in 1 .. k - 1 BY <1>5, <1>6
  <2>3. \A j \in 1 .. i - 1 : j <= l /\ a[j] = c[j] BY <1>3, <1>4, <2>2
  <2>4. i > l \/ a[i] < c[i] BY <1>3, <1>4, <2>1
  <2>5. QED BY <1>2, <2>1, <2>3, <2>4 DEF Lex
<1>7. CASE k < i
  <2>1. k \in 1 .. i - 1 /\ k <= m BY <1>5, <1>7
  <2>2. \A j \in 1 .. k - 1 : j \in 1 .. i - 1 BY <1>5, <1>7
  <2>3. \A j \in 1 .. k - 1 : j <= l /\ a[j] = c[j] BY <1>3, <1>4, <2>2
  <2>4. a[k] < c[k] BY <1>3, <1>4, <1>5, <2>1
  <2>5. QED BY <1>2, <2>3, <2>4 DEF Lex
<1>8. CASE i = k
  <2>1. b[i] < c[i] BY <1>4, <1>5, <1>8
  <2>2. \A j \in 1 .. i - 1 : j <= l /\ a[j] = c[j] BY <1>3, <1>4, <1>8
  <2>3. ASSUME ~(i > l) PROVE a[i] < c[i]
    <3>1. i \in 1 .. l /\ i \in 1 .. m /\ i \in 1 .. n BY <1>5, <1>8, <2>3
    <3>2. a[i] \in Nat /\ b[i] \in Nat /\ c[i] \in Nat BY <1>1, <1>2, <3>1 DEF StringFacts
    <3>3. QED BY <1>3, <2>1, <2>3, <3>2
  <2>4. QED BY <1>2, <1>8, <2>2, <2>3 DEF Lex
<1>9. QED BY <1>5, <1>6, <1>7, <1>8

LEMMA PrecedesTotal ==
    ASSUME NEW t \in {"num", "str"}, NEW desc \in BOOLEAN
    PROVE  /\ \A a \in Column(t) : ~Precedes(t, a, a, desc)
           /\ \A a, b \in Column(t) : a = b \/ Precedes(t, a, b, desc) \/ Precedes(t, b, a, desc)
           /\ \A a, b, c \in Column(t) : (Precedes(t, a, b, desc) /\ Precedes(t, b, c, desc)) => Precedes(t, a, c, desc)
<1>1. CASE t = "num"
  <2>1. \A a \in Column(t) : a \in Nat BY <1>1, InfFacts DEF Column
  <2>2. QED BY <1>1, <2>1 DEF Precedes, Less
<1>2. CASE t = "str"
  <2>1. Column(t) = Strings BY <1>2 DEF Column
  <2>2. \A a, b : Less(t, a, b) <=> Lex(a, b) BY <1>2 DEF Less
  <2>3. \A a \in Strings : ~Lex(a, a) BY LexIrreflexive
  <2>4. \A a, b \in Strings : a = b \/ Lex(a, b) \/ Lex(b, a) BY LexTotal
  <2>5. \A a, b, c \in Strings : (Lex(a, b) /\ Lex(b, c)) => Lex(a, c) BY LexTransitive
  <2>6. QED BY <2>1, <2>2, <2>3, <2>4, <2>5 DEF Precedes
<1>3. QED BY <1>1, <1>2


\* The values once each, in order.
InOrderOnce(t, S, desc, q) ==
    /\ Len(q) \in Nat /\ DOMAIN q = 1 .. Len(q)
    /\ \A n \in DOMAIN q : q[n] \in S
    /\ \A v \in S : \E n \in DOMAIN q : q[n] = v
    /\ \A n, h \in DOMAIN q : n < h => Precedes(t, q[n], q[h], desc)

LEMMA SortedValues ==
    ASSUME NEW t \in {"num", "str"}, NEW desc \in BOOLEAN, NEW vals \in Seq(Column(t))
    PROVE  InOrderOnce(t, {vals[i] : i \in DOMAIN vals}, desc, DedupSortValues(t, vals, desc))
<1>1. PICK S : S = {vals[i] : i \in DOMAIN vals} OBVIOUS
<1>2. S \subseteq Column(t) /\ IsFiniteSet(S)
  <2>1. DOMAIN vals = 1 .. Len(vals) /\ Len(vals) \in Nat OBVIOUS
  <2>2. IsFiniteSet(DOMAIN vals)
    <3>1. 1 \in Int /\ Len(vals) \in Int BY <2>1
    <3>2. QED BY <2>1, <3>1, FS_Interval
  <2>3. S \subseteq Column(t) BY <1>1
  <2>4. vals \in Surjection(DOMAIN vals, S) BY <1>1 DEF Surjection
  <2>5. QED BY <2>2, <2>3, <2>4, FS_Surjection
<1> DEFINE R == {x \in S \X S : Precedes(t, x[1], x[2], desc)}
           c == Cardinality(S)
           e(n) == CHOOSE v \in S : Under(R, S, v) = n - 1
<1>3. \A a, b \in S : <<a, b>> \in R <=> Precedes(t, a, b, desc) OBVIOUS
<1>4. TotalOn(R, S)
  <2>1. \A a \in S : a \in Column(t) BY <1>2
  <2> HIDE DEF R
  <2>2. \A a \in S : <<a, a>> \notin R BY <1>3, <2>1, PrecedesTotal
  <2>3. \A a, b \in S : a = b \/ <<a, b>> \in R \/ <<b, a>> \in R BY <1>3, <2>1, PrecedesTotal, ZenonT(40)
  <2>4. \A a, b, d \in S : (<<a, b>> \in R /\ <<b, d>> \in R) => <<a, d>> \in R BY <1>3, <2>1, PrecedesTotal
  <2>5. QED BY <2>2, <2>3, <2>4 DEF TotalOn
<1> HIDE DEF R
<1>5. HasRanks(R, S) BY <1>2, <1>4, Ranked, Zenon
<1>6. /\ c \in Nat
      /\ \A a \in S : Under(R, S, a) \in 0 .. c - 1
      /\ \A n \in 0 .. c - 1 : \E a \in S : Under(R, S, a) = n
      /\ \A a, b \in S : Under(R, S, a) = Under(R, S, b) => a = b
  BY <1>5 DEF HasRanks
<1>7. ASSUME NEW n \in 1 .. c PROVE e(n) \in S /\ Under(R, S, e(n)) = n - 1
  <2>1. n - 1 \in 0 .. c - 1 BY <1>6
  <2>2. \E v \in S : Under(R, S, v) = n - 1 BY <1>6, <2>1
  <2>3. QED BY <2>2
<1>8. \A v \in S : Under(R, S, v) = Cardinality({w \in S : Precedes(t, w, v, desc)})
  <2> TAKE v \in S
  <2>1. {w \in S : <<w, v>> \in R} = {w \in S : Precedes(t, w, v, desc)} BY <1>3
  <2>2. QED BY <2>1 DEF Under
<1>9. DedupSortValues(t, vals, desc) = [n \in 1 .. c |-> e(n)]
  <2>1. DedupSortValues(t, vals, desc) = [n \in 1 .. c |-> CHOOSE v \in S : Cardinality({w \in S : Precedes(t, w, v, desc)}) = n - 1]
    BY <1>1 DEF DedupSortValues, Precedes
  <2>2. QED BY <1>8, <2>1
<1>10. PICK q : q = DedupSortValues(t, vals, desc) OBVIOUS
<1> HIDE DEF e, c
<1>11. /\ DOMAIN q = 1 .. c /\ Len(q) = c
       /\ \A n \in 1 .. c : q[n] \in S /\ Under(R, S, q[n]) = n - 1
  BY <1>6, <1>7, <1>9, <1>10
<1>12. ASSUME NEW v \in S PROVE \E n \in 1 .. c : q[n] = v
  <2>1. PICK n : n = Under(R, S, v) + 1 OBVIOUS
  <2>2. Under(R, S, v) \in 0 .. c - 1 BY <1>6
  <2>3. n \in 1 .. c /\ n - 1 = Under(R, S, v) BY <1>6, <2>1, <2>2
  <2>4. q[n] \in S /\ Under(R, S, q[n]) = Under(R, S, v) BY <1>11, <2>3
  <2>5. q[n] = v BY <1>6, <2>4
  <2>6. QED BY <2>3, <2>5
<1>13. ASSUME NEW n \in 1 .. c, NEW h \in 1 .. c, n < h PROVE Precedes(t, q[n], q[h], desc)
  <2>1. PICK a \in S, b \in S : a = q[n] /\ b = q[h] BY <1>11
  <2>2. Under(R, S, a) = n - 1 /\ Under(R, S, b) = h - 1 BY <1>11, <2>1
  <2>3. n \in Nat /\ h \in Nat BY <1>6
  <2>4. a # b BY <1>13, <2>2, <2>3
  <2>5. ~Precedes(t, b, a, desc)
    <3> SUFFICES ASSUME Precedes(t, b, a, desc) PROVE FALSE OBVIOUS
    <3> DEFINE A == {w \in S : Precedes(t, w, a, desc)}
               B == {w \in S : Precedes(t, w, b, desc)}
    <3>1. B \subseteq A BY <1>2, PrecedesTotal
    <3>2. IsFiniteSet(A) BY <1>2, FS_Subset
    <3>3. Cardinality(B) <= Cardinality(A) BY <3>1, <3>2, FS_Subset
    <3>4. Cardinality(A) = n - 1 /\ Cardinality(B) = h - 1 BY <1>8, <2>2
    <3>5. QED BY <1>13, <2>3, <3>3, <3>4
  <2>6. a \in Column(t) /\ b \in Column(t) BY <1>2
  <2>7. Precedes(t, a, b, desc) BY <2>4, <2>5, <2>6, PrecedesTotal
  <2>8. QED BY <2>1, <2>7
<1>14. InOrderOnce(t, S, desc, q) BY <1>6, <1>11, <1>12, <1>13 DEF InOrderOnce
<1>15. QED BY <1>1, <1>10, <1>14

\* The cuts of a range.
CutFacts(t, r) ==
    /\ r.lower.at \in {"below", "above", "belowNull", "aboveNull"} /\ r.upper.at \in {"below", "above", "aboveAll"}
    /\ HasKey(r.lower) => r.lower.k \in Column(t)
    /\ HasKey(r.upper) => r.upper.k \in Column(t)

LEMMA CutParts ==
    ASSUME NEW t \in {"num", "str"}, NEW r \in Valued(t)
    PROVE  CutFacts(t, r)
<1>1. PICK lw \in LowerCuts(t), up \in UpperCuts(t) : r = [lower |-> lw, upper |-> up] BY DEF Valued, Ranges
<1>2. r.lower = lw /\ r.upper = up BY <1>1
<1>3. lw.at \in {"below", "above", "belowNull", "aboveNull"} /\ (lw.at \in {"below", "above"} => lw.k \in Column(t))
  BY DEF LowerCuts, Cuts, Keyless
<1>4. up.at \in {"below", "above", "aboveAll"} /\ (up.at \in {"below", "above"} => up.k \in Column(t))
  <2>1. up.at # "aboveNull" BY <1>2 DEF Valued
  <2>2. QED BY <2>1 DEF UpperCuts, Cuts, Keyless
<1>5. QED BY <1>2, <1>3, <1>4 DEF CutFacts, HasKey

LEMMA ValuesNotNull == \A t \in {"num", "str"} : Null \notin Column(t)
BY LookupAssumption DEF Column

\* A point is the range of its key.
LEMMA PointFacts ==
    ASSUME NEW t \in {"num", "str"}, NEW r \in Valued(t), PointValue(r), NEW v \in Column(t)
    PROVE  r.lower.k \in Column(t) /\ (InRange(t, r, v) <=> v = r.lower.k)
<1>1. CutFacts(t, r) BY CutParts
<1>2. r.lower.at = "below" /\ r.upper.at = "above" /\ r.upper.k = r.lower.k BY DEF PointValue
<1>3. r.lower.k \in Column(t) BY <1>1, <1>2 DEF CutFacts, HasKey
<1>3a. v # Null BY ValuesNotNull
<1>4. InRange(t, r, v) <=> ~Less(t, v, r.lower.k) /\ ~Less(t, r.lower.k, v) BY <1>2, <1>3a DEF InRange, AfterLower, BeforeUpper
<1>5. PICK d \in BOOLEAN : d = FALSE OBVIOUS
<1>6. \A a, b : Precedes(t, a, b, d) <=> Less(t, a, b) BY <1>5 DEF Precedes
<1>7. v = r.lower.k \/ Precedes(t, v, r.lower.k, d) \/ Precedes(t, r.lower.k, v, d) BY <1>3, PrecedesTotal
<1>8. ~Precedes(t, v, v, d) BY PrecedesTotal
<1>9. QED BY <1>3, <1>4, <1>6, <1>7, <1>8

\* strRange keeps the meaning of the cuts.
LEMMA StrRangeFacts ==
    ASSUME NEW r \in Valued("str"), NEW v, v # Null
    PROVE  InRange("str", r, v) <=> StrContains(StrRange(r), v)
<1>1. CutFacts("str", r)
  <2>1. PICK t \in {"num", "str"} : t = "str" OBVIOUS
  <2>2. CutFacts(t, r) BY <2>1, CutParts
  <2>3. QED BY <2>1, <2>2
<1>2. \A a, b : Less("str", a, b) <=> Lex(a, b) BY DEF Less
<1>3. PICK lw, up : lw = r.lower /\ up = r.upper OBVIOUS
<1>4. PICK s : s = StrRange(r) OBVIOUS
<1>5. /\ s.lo = (IF HasKey(lw) THEN lw.k ELSE <<>>) /\ s.loInf = ~HasKey(lw) /\ s.loOpen = (lw.at = "above")
      /\ s.hi = (IF HasKey(up) THEN up.k ELSE <<>>) /\ s.hiInf = ~HasKey(up) /\ s.hiOpen = (up.at = "below")
  BY <1>3, <1>4 DEF StrRange
<1>6. AfterLower("str", lw, v) <=> (s.loInf \/ (IF s.loOpen THEN Lex(s.lo, v) ELSE ~Lex(v, s.lo)))
  BY <1>1, <1>2, <1>3, <1>5 DEF AfterLower, CutFacts, HasKey
<1>7. BeforeUpper("str", up, v) <=> (s.hiInf \/ (IF s.hiOpen THEN Lex(v, s.hi) ELSE ~Lex(s.hi, v)))
  BY <1>1, <1>2, <1>3, <1>5 DEF BeforeUpper, CutFacts, HasKey
<1>8. QED BY <1>3, <1>4, <1>6, <1>7 DEF InRange, StrContains


LEMMA NoPrefixRange ==
    ASSUME NEW r \in Valued("str")
    PROVE  ~PrefixRangeBounds(r)
<1> SUFFICES ASSUME PrefixRangeBounds(r) PROVE FALSE OBVIOUS
<1>1. CutFacts("str", r)
  <2>1. PICK t \in {"num", "str"} : t = "str" OBVIOUS
  <2>2. CutFacts(t, r) BY <2>1, CutParts
  <2>3. QED BY <2>1, <2>2
<1>2. PICK a, b : a = r.lower.k /\ b = r.upper.k OBVIOUS
<1>3. b = Append(a, Top) /\ r.lower.at = "below" /\ r.upper.at = "below" BY <1>2 DEF PrefixRangeBounds
<1>4. a \in Strings /\ b \in Strings BY <1>1, <1>2, <1>3 DEF CutFacts, HasKey, Column
<1>5. a \in Seq(Nat) /\ Top \in Nat /\ StringFacts(b) BY <1>4, StringParts, LookupAssumption
<1>6. Len(b) = Len(a) + 1 /\ b[Len(a) + 1] = Top /\ Len(a) \in Nat BY <1>3, <1>5
<1>7. Len(a) + 1 \in 1 .. Len(b) BY <1>6
<1>8. Top < Top BY <1>5, <1>6, <1>7 DEF StringFacts
<1>9. QED BY <1>5, <1>8

\* The points of a lookup: their values, once each and in order.
PointRequest(ix, t, S, desc, req) ==
    /\ ix = "primary" => req.kind = "point" /\ req.pred.by = "none"
    /\ ix # "primary" => req.kind = "eq" /\ req.pred.by = "eq" /\ req.pred.of = req.of
    /\ InOrderOnce(t, S, desc, req.of)

LEMMA PointsFacts ==
    ASSUME NEW ix \in {"primary", "eq", "prefix"}, NEW t \in {"num", "str"}, NEW desc \in BOOLEAN, NEW rs \in Seq(Valued(t)),
           \A i \in DOMAIN rs : PointValue(rs[i]), NEW req, req = TranslateLookup(ix, t, rs, desc)
    PROVE  PointRequest(ix, t, {rs[i].lower.k : i \in DOMAIN rs}, desc, req)
<1>1. DOMAIN rs = 1 .. Len(rs) /\ Len(rs) \in Nat /\ \A i \in DOMAIN rs : rs[i] \in Valued(t) OBVIOUS
<1>2. PICK vals : vals = [i \in DOMAIN rs |-> rs[i].lower.k] OBVIOUS
<1>3. \A i \in DOMAIN rs : rs[i].lower.k \in Column(t)
  <2> TAKE i \in DOMAIN rs
  <2>1. CutFacts(t, rs[i]) BY <1>1, CutParts
  <2>2. QED BY <2>1 DEF CutFacts, PointValue, HasKey
<1>4. vals \in Seq(Column(t)) /\ DOMAIN vals = DOMAIN rs /\ \A i \in DOMAIN rs : vals[i] = rs[i].lower.k BY <1>1, <1>2, <1>3
<1>5. PICK q : q = DedupSortValues(t, vals, desc) OBVIOUS
<1>6. InOrderOnce(t, {vals[i] : i \in DOMAIN vals}, desc, q) BY <1>4, <1>5, SortedValues
<1>7. {vals[i] : i \in DOMAIN vals} = {rs[i].lower.k : i \in DOMAIN rs} BY <1>4
<1>8. {i \in DOMAIN rs : ~PointValue(rs[i])} = {} OBVIOUS
<1>9. req = IF ix = "primary" THEN [kind |-> "point", of |-> q, pred |-> [by |-> "none", of |-> <<>>]]
            ELSE [kind |-> "eq", of |-> q, pred |-> [by |-> "eq", of |-> q]]
  BY <1>2, <1>5, <1>8 DEF TranslateLookup, TranslatePoints
<1>10. req.of = q BY <1>9
<1>11. ix = "primary" => req.kind = "point" /\ req.pred.by = "none" BY <1>9
<1>12. ix # "primary" => req.kind = "eq" /\ req.pred.by = "eq" /\ req.pred.of = q BY <1>9
<1>13. InOrderOnce(t, {rs[i].lower.k : i \in DOMAIN rs}, desc, q) BY <1>6, <1>7
<1>14. QED BY <1>10, <1>11, <1>12, <1>13 DEF PointRequest

\* The request of a primary key or of an equality index asks for what the statement asks for.
LEMMA PointsExact ==
    ASSUME NEW ix \in {"primary", "eq", "prefix"}, NEW t \in {"num", "str"}, ix = "prefix" => t = "str", NEW desc \in BOOLEAN,
           NEW rs \in Seq(Valued(t)), NEW v \in Column(t)
    PROVE  Wanted(t, rs, v) <=> Returned(TranslateLookup(ix, t, rs, desc), v)
<1>1. DOMAIN rs = 1 .. Len(rs) /\ Len(rs) \in Nat /\ \A i \in DOMAIN rs : rs[i] \in Valued(t) OBVIOUS
<1>2. PICK req : req = TranslateLookup(ix, t, rs, desc) OBVIOUS
<1>2a. v # Null BY ValuesNotNull
<1>3. CASE \A i \in DOMAIN rs : PointValue(rs[i])
  <2>1. PICK S : S = {rs[i].lower.k : i \in DOMAIN rs} OBVIOUS
  <2>2. PointRequest(ix, t, S, desc, req) BY <1>2, <1>3, <2>1, PointsFacts
  <2>3. v \in S <=> \E n \in DOMAIN req.of : req.of[n] = v BY <2>2 DEF PointRequest, InOrderOnce
  <2>4. Wanted(t, rs, v) <=> v \in S
    <3>1. \A i \in DOMAIN rs : InRange(t, rs[i], v) <=> v = rs[i].lower.k BY <1>1, <1>3, PointFacts
    <3>2. QED BY <2>1, <3>1 DEF Wanted
  <2>5. Candidate(req, v) <=> v \in S
    <3>1. req.kind \in {"eq", "point"} BY <2>2 DEF PointRequest
    <3>2. QED BY <1>2a, <2>3, <3>1 DEF Candidate
  <2>6. v \in S => PredicateMatch(req.pred, v)
    <3>1. req.pred.by = "none" \/ (req.pred.by = "eq" /\ req.pred.of = req.of) BY <2>2 DEF PointRequest
    <3>2. QED BY <1>2a, <2>3, <3>1 DEF PredicateMatch
  <2>7. QED BY <1>2, <2>4, <2>5, <2>6 DEF Returned
<1>4. CASE ~\A i \in DOMAIN rs : PointValue(rs[i])
  <2> DEFINE other == {i \in DOMAIN rs : ~PointValue(rs[i])}
             first == CHOOSE i \in other : \A j \in other : i <= j
  <2>1. other # {} /\ other \in SUBSET Nat /\ other \in SUBSET (1 .. Len(rs)) BY <1>1, <1>4
  <2>2. IsFiniteSet(other)
    <3>1. 1 \in Int /\ Len(rs) \in Int BY <1>1
    <3>2. IsFiniteSet(1 .. Len(rs)) BY <3>1, FS_Interval
    <3>3. QED BY <2>1, <3>2, FS_Subset
  <2>3. first \in DOMAIN rs
    <3>1. \E i \in other : \A j \in other : i <= j
      <4> HIDE DEF other
      <4>1. QED BY <2>1, <2>2, LeastOf
    <3>2. QED BY <3>1
  <2>4. ~(ix = "prefix" /\ PrefixRangeBounds(rs[first]))
    <3> HIDE DEF first
    <3>1. QED BY <1>1, <2>3, NoPrefixRange
  <2>5. req = FullScanFallback(t, rs) BY <1>2, <2>1, <2>4 DEF TranslateLookup, TranslatePoints
  <2> HIDE DEF other, first
  <2>6. req.kind = "scan" BY <2>5 DEF FullScanFallback
  <2>7. Candidate(req, v) BY <2>6 DEF Candidate
  <2>8. CASE t = "str"
    <3>1. req.pred = [by |-> "str", of |-> [i \in DOMAIN rs |-> StrRange(rs[i])]] BY <2>5, <2>8 DEF FullScanFallback
    <3>2. PredicateMatch(req.pred, v) <=> \E i \in DOMAIN rs : StrContains(StrRange(rs[i]), v) BY <1>2a, <3>1 DEF PredicateMatch
    <3>3. \A i \in DOMAIN rs : InRange(t, rs[i], v) <=> StrContains(StrRange(rs[i]), v) BY <1>1, <1>2a, <2>8, StrRangeFacts
    <3>4. QED BY <1>2, <2>7, <3>2, <3>3 DEF Returned, Wanted
  <2>9. CASE t = "num"
    <3>1. req.pred = [by |-> "ranges", of |-> [i \in DOMAIN rs |-> RangeBound(rs[i])]] BY <2>5, <2>9 DEF FullScanFallback
    <3>2. PredicateMatch(req.pred, v) <=> \E i \in DOMAIN rs : Contains(RangeBound(rs[i]), v) BY <1>2a, <3>1 DEF PredicateMatch
    <3>3. v \in Scores BY <2>9 DEF Column
    <3>4. \A i \in DOMAIN rs : InRange(t, rs[i], v) <=> Contains(RangeBound(rs[i]), v) BY <1>1, <2>9, <3>3, RangeBoundFacts
    <3>5. QED BY <1>2, <2>7, <3>2, <3>4 DEF Returned, Wanted
  <2>10. QED BY <2>8, <2>9
<1>5. QED BY <1>3, <1>4

LEMMA RangeExact ==
    ASSUME NEW rs \in Seq(Valued("num")), NEW desc \in BOOLEAN, NEW s \in Scores
    PROVE  Wanted("num", rs, s) <=> Returned(TranslateLookup("range", "num", rs, desc), s)
<1>1. PICK req : req = TranslateLookup("range", "num", rs, desc) OBVIOUS
<1>2. req.pred.of = req.of /\ (Wanted("num", rs, s) <=> \E i \in DOMAIN req.of : Contains(req.of[i], s)) BY <1>1, RequestFacts
<1>3. req.kind = "range" /\ req.pred.by = "ranges" /\ s # Null BY <1>1, LookupAssumption DEF TranslateLookup
<1>4. Candidate(req, s) <=> \E i \in DOMAIN req.of : Contains(req.of[i], s) BY <1>3 DEF Candidate
<1>5. PredicateMatch(req.pred, s) <=> \E i \in DOMAIN req.of : Contains(req.of[i], s) BY <1>2, <1>3 DEF PredicateMatch
<1>6. QED BY <1>1, <1>2, <1>4, <1>5 DEF Returned

\* ZRANGEBYLEX from p to p 0xff finds "v 0x00 pk" for every v that begins with p.
LEMMA PrefixMember ==
    ASSUME NEW p \in Strings, NEW v \in Strings, HasPrefix(v, p)
    PROVE  ~Lex(Append(v, 0), p) /\ ~Lex(Append(p, Top), Append(v, 0))
<1>1. p \in Seq(Nat) /\ v \in Seq(Nat) /\ StringFacts(p) /\ StringFacts(v) /\ Top \in Nat BY StringParts, LookupAssumption
<1>2. PICK m \in Nat, n \in Nat : m = Len(p) /\ n = Len(v) BY <1>1
<1>3. m <= n /\ m # 0
  <2>1. m # 0 BY <1>1, <1>2 DEF StringFacts
  <2>2. QED BY <1>2, <2>1 DEF HasPrefix
<1>4. \A i \in 1 .. m : v[i] = p[i]
  <2>1. SubSeq(v, 1, m) = p BY <1>2 DEF HasPrefix
  <2>2. \A i \in 1 .. m : SubSeq(v, 1, m)[i] = v[i] BY <1>1, <1>2, <1>3
  <2>3. QED BY <2>1, <2>2
<1>5. PICK w : w = Append(v, 0) OBVIOUS
<1>6. Len(w) = n + 1 /\ w[n + 1] = 0 /\ \A i \in 1 .. n : w[i] = v[i] BY <1>1, <1>2, <1>5
<1>7. PICK u : u = Append(p, Top) OBVIOUS
<1>8. Len(u) = m + 1 /\ u[m + 1] = Top /\ \A i \in 1 .. m : u[i] = p[i] BY <1>1, <1>2, <1>7
<1>9. \A i \in 1 .. n : v[i] \in Nat /\ v[i] < Top BY <1>1, <1>2 DEF StringFacts
<1>10. ~Lex(w, p)
  <2> SUFFICES ASSUME Lex(w, p) PROVE FALSE OBVIOUS
  <2>1. PICK i \in 1 .. m : i > Len(w) \/ w[i] < p[i] BY <1>2 DEF Lex
  <2>2. i \in 1 .. n BY <1>3
  <2>3. w[i] = p[i] /\ p[i] \in Nat BY <1>4, <1>6, <1>9, <2>2
  <2>4. QED BY <1>6, <2>1, <2>2, <2>3
<1>11. ~Lex(u, w)
  <2> SUFFICES ASSUME Lex(u, w) PROVE FALSE OBVIOUS
  <2>1. PICK i \in 1 .. n + 1 : (\A j \in 1 .. i - 1 : j <= m + 1 /\ u[j] = w[j]) /\ (i > m + 1 \/ u[i] < w[i]) BY <1>6, <1>8 DEF Lex
  <2>2. CASE i <= m
    <3>1. i \in 1 .. m /\ i \in 1 .. n BY <1>3, <2>2
    <3>2. u[i] = v[i] /\ w[i] = v[i] /\ v[i] \in Nat BY <1>4, <1>6, <1>8, <1>9, <3>1
    <3>3. QED BY <2>1, <2>2, <3>2
  <2>3. w[m + 1] \in Nat /\ ~(Top < w[m + 1]) /\ w[m + 1] # Top
    <3>1. CASE m = n
      <4>1. w[m + 1] = 0 BY <1>6, <3>1
      <4>2. v[1] \in Nat /\ v[1] < Top BY <1>3, <1>9
      <4>3. QED BY <1>1, <4>1, <4>2
    <3>2. CASE m < n
      <4>1. PICK k \in 1 .. n : k = m + 1 BY <3>2
      <4>2. w[k] = v[k] /\ v[k] \in Nat /\ v[k] < Top BY <1>6, <1>9
      <4>3. w[k] \in Nat /\ ~(Top < w[k]) /\ w[k] # Top BY <1>1, <4>2
      <4>4. QED BY <4>1, <4>3
    <3>3. QED BY <1>3, <3>1, <3>2
  <2>4. CASE i = m + 1 BY <1>8, <2>1, <2>3, <2>4
  <2>5. CASE i > m + 1
    <3>1. m + 1 \in 1 .. i - 1 BY <2>5
    <3>2. QED BY <1>8, <2>1, <2>3, <3>1
  <2>6. QED BY <2>2, <2>4, <2>5
<1>12. QED BY <1>5, <1>7, <1>10, <1>11

LEMMA LikeExact ==
    ASSUME NEW p \in Strings, NEW v \in Strings, NEW desc \in BOOLEAN
    PROVE  HasPrefix(v, p) <=> Returned(TranslateLookup("prefix", "str", LikePrefix(p), desc), v)
<1>1. PICK r : r = [lower |-> [at |-> "below", k |-> p], upper |-> [at |-> "below", k |-> Append(p, Top)]] OBVIOUS
<1>2. PICK rs : rs = LikePrefix(p) OBVIOUS
<1>3. rs = <<r>> BY <1>1, <1>2 DEF LikePrefix
<1>4. DOMAIN rs = {1} /\ rs[1] = r BY <1>3
<1>5. r.lower.k = p /\ r.upper.k = Append(p, Top) /\ r.lower.at = "below" /\ r.upper.at = "below" BY <1>1
<1>6. ~PointValue(r) /\ PrefixRangeBounds(r) BY <1>5 DEF PointValue, PrefixRangeBounds
<1>7. PICK other : other = {i \in DOMAIN rs : ~PointValue(rs[i])} OBVIOUS
<1>8. other = {1} BY <1>4, <1>6, <1>7
<1>9. (CHOOSE i \in other : \A j \in other : i <= j) = 1 BY <1>8
<1>10. PICK req : req = TranslateLookup("prefix", "str", rs, desc) OBVIOUS
<1>11. req = [kind |-> "prefix", of |-> <<r.lower.k, r.upper.k>>, pred |-> [by |-> "prefix", of |-> r.lower.k]]
  <2>1. req = TranslatePoints("prefix", "str", rs, desc) BY <1>10 DEF TranslateLookup
  <2>2. other # {} /\ rs[CHOOSE i \in other : \A j \in other : i <= j] = r BY <1>4, <1>8, <1>9
  <2>3. QED BY <1>6, <1>7, <2>1, <2>2 DEF TranslatePoints
<1>12. req.kind = "prefix" /\ req.of[1] = p /\ req.of[2] = Append(p, Top) /\ req.pred.by = "prefix" /\ req.pred.of = p BY <1>5, <1>11
<1>12a. v # Null BY LookupAssumption
<1>13. Candidate(req, v) <=> ~Lex(Append(v, 0), p) /\ ~Lex(Append(p, Top), Append(v, 0)) BY <1>12, <1>12a DEF Candidate
<1>14. PredicateMatch(req.pred, v) <=> HasPrefix(v, p) BY <1>12, <1>12a DEF PredicateMatch
<1>15. HasPrefix(v, p) => Candidate(req, v) BY <1>13, PrefixMember
<1>16. QED BY <1>2, <1>10, <1>14, <1>15 DEF Returned


LEMMA LookupsT == \A t \in {"num", "str"} : \A rs \in Lookups(t) : rs \in Seq(Ranges(t))
<1> TAKE t \in {"num", "str"}
<1> TAKE rs \in Lookups(t)
<1>1. PICK R : R = Ranges(t) OBVIOUS
<1>2. rs \in {<<r>> : r \in R} \/ rs \in R \X R BY <1>1 DEF Lookups
<1>3. CASE rs \in {<<r>> : r \in R}
  <2>1. PICK r \in R : rs = <<r>> BY <1>3
  <2>2. <<r>> \in Seq(R) OBVIOUS
  <2>3. QED BY <1>1, <2>1, <2>2
<1>4. CASE rs \in R \X R
  <2>1. PICK a \in R, b \in R : rs = <<a, b>> BY <1>4
  <2>2. <<a, b>> \in Seq(R) OBVIOUS
  <2>3. QED BY <1>1, <2>1, <2>2
<1>5. QED BY <1>2, <1>3, <1>4

LEMMA ValuedT == \A t \in {"num", "str"} : \A rs \in ValuedLookups(t) : rs \in Seq(Valued(t))
<1> TAKE t \in {"num", "str"}
<1> TAKE rs \in ValuedLookups(t)
<1>1. rs \in Seq(Ranges(t)) BY LookupsT DEF ValuedLookups
<1>2. \A i \in DOMAIN rs : rs[i] \in Valued(t) BY DEF ValuedLookups
<1>3. PICK V : V = Valued(t) OBVIOUS
<1>4. DOMAIN rs = 1 .. Len(rs) /\ Len(rs) \in Nat /\ rs = [i \in 1 .. Len(rs) |-> rs[i]] BY <1>1
<1>5. rs \in [1 .. Len(rs) -> V] BY <1>2, <1>3, <1>4
<1>6. QED BY <1>3, <1>4, <1>5, SeqDef

\* Every path has a member or a predicate, and NULL passes neither.
LEMMA NullNever ==
    ASSUME NEW ix, NEW t, NEW rs, NEW desc
    PROVE  ~Returned(TranslateLookup(ix, t, rs, desc), Null)
<1>1. PICK req : req = TranslateLookup(ix, t, rs, desc) OBVIOUS
<1>2. req.kind # "scan" \/ req.pred.by # "none"
  <2>1. CASE ix = "range"
    <3>1. req.kind = "range" BY <1>1, <2>1 DEF TranslateLookup
    <3>2. QED BY <3>1
  <2>2. CASE ix # "range"
    <3>1. req = TranslatePoints(ix, t, rs, desc) BY <1>1, <2>2 DEF TranslateLookup
    <3>2. PICK f : f = FullScanFallback(t, rs) OBVIOUS
    <3>3. f.pred.by # "none" BY <3>2 DEF FullScanFallback
    <3>4. req.kind \in {"point", "eq", "prefix"} \/ req = f BY <3>1, <3>2 DEF TranslatePoints
    <3>5. QED BY <3>3, <3>4
  <2>3. QED BY <2>1, <2>2
<1>3. QED BY <1>1, <1>2 DEF Returned, Candidate, PredicateMatch

\* LookupExact, from the lemmas on each kind of index, which hold of lookups of any number of
\* ranges and of both directions.
LEMMA ExactLookups == LookupExact
<1>1. PICK desc \in BOOLEAN : desc = FALSE OBVIOUS
<1>2. PICK nu \in {"num", "str"}, tx \in {"num", "str"} : nu = "num" /\ tx = "str" OBVIOUS
<1>3. PICK eq \in {"primary", "eq", "prefix"}, pr \in {"primary", "eq", "prefix"}, px \in {"primary", "eq", "prefix"} :
         eq = "eq" /\ pr = "primary" /\ px = "prefix"
  OBVIOUS
<1>4. ASSUME NEW ix \in {"primary", "eq", "prefix"}, NEW t \in {"num", "str"}, ix = "prefix" => t = "str", NEW rs \in ValuedLookups(t)
      PROVE  Exact(ix, t, rs)
  <2>1. rs \in Seq(Valued(t)) BY ValuedT
  <2>2. PICK req : req = TranslateLookup(ix, t, rs, desc) OBVIOUS
  <2>3. \A v \in Column(t) : Wanted(t, rs, v) <=> Returned(req, v) BY <1>4, <2>1, <2>2, PointsExact
  <2>4. ~Returned(req, Null) BY <2>2, NullNever
  <2>5. Null \notin Column(t) BY ValuesNotNull
  <2>6. \A v \in Column(t) \cup {Null} : Returned(req, v) <=> (v # Null /\ Wanted(t, rs, v)) BY <2>3, <2>4, <2>5
  <2>7. QED BY <1>1, <2>2, <2>6 DEF Exact
<1>5. ASSUME NEW rs \in ValuedLookups("num") PROVE Exact("range", "num", rs)
  <2>1. rs \in Seq(Valued(nu)) BY <1>2, ValuedT
  <2>2. PICK req : req = TranslateLookup("range", "num", rs, desc) OBVIOUS
  <2>3. \A v \in Scores : Wanted("num", rs, v) <=> Returned(req, v) BY <1>2, <2>1, <2>2, RangeExact
  <2>4. ~Returned(req, Null) BY <2>2, NullNever
  <2>5. Null \notin Scores /\ Column("num") = Scores BY LookupAssumption DEF Column
  <2>6. \A v \in Column("num") \cup {Null} : Returned(req, v) <=> (v # Null /\ Wanted("num", rs, v)) BY <2>3, <2>4, <2>5
  <2>7. QED BY <1>1, <2>2, <2>6 DEF Exact
<1>6. ASSUME NEW rs \in ValuedLookups("num") PROVE Exact("eq", "num", rs) /\ Exact("primary", "num", rs)
  <2>1. Exact(eq, nu, rs) /\ Exact(pr, nu, rs) BY <1>2, <1>3, <1>4
  <2>2. QED BY <1>2, <1>3, <2>1
<1>7. ASSUME NEW rs \in ValuedLookups("str") PROVE Exact("prefix", "str", rs)
  <2>1. Exact(px, tx, rs) BY <1>2, <1>3, <1>4
  <2>2. QED BY <1>2, <1>3, <2>1
<1>8. ASSUME NEW p \in Strings, NEW v \in Strings \cup {Null}
      PROVE  (v # Null /\ HasPrefix(v, p)) <=> Returned(TranslateLookup("prefix", "str", LikePrefix(p), FALSE), v)
  <2>1. PICK req : req = TranslateLookup("prefix", "str", LikePrefix(p), desc) OBVIOUS
  <2>2. CASE v = Null
    <3>1. ~Returned(req, Null) BY <2>1, NullNever
    <3>2. QED BY <1>1, <2>1, <2>2, <3>1
  <2>3. CASE v \in Strings
    <3>1. HasPrefix(v, p) <=> Returned(req, v) BY <2>1, <2>3, LikeExact
    <3>2. v # Null BY <2>3, LookupAssumption
    <3>3. QED BY <1>1, <2>1, <3>1, <3>2
  <2>4. QED BY <2>2, <2>3
<1>9. QED BY <1>5, <1>6, <1>7, <1>8 DEF LookupExact

LEMMA OrderedLookups == LookupOrdered
<1> SUFFICES ASSUME NEW desc \in BOOLEAN
             PROVE  /\ \A rs \in {q \in ValuedLookups("num") : Apart(q)} :
                          LET q == TranslateLookup("range", "num", rs, desc).of
                          IN  \A i, j \in DOMAIN q, a, b \in Scores :
                                 (i < j /\ Contains(q[i], a) /\ Contains(q[j], b)) => Precedes("num", a, b, desc)
                    /\ \A t \in {"num", "str"} : \A rs \in {q \in Lookups(t) : CanSupport("eq", q)} :
                          LET q == TranslateLookup("eq", t, rs, desc).of
                          IN  \A i, j \in DOMAIN q : i < j => Precedes(t, q[i], q[j], desc)
  BY DEF LookupOrdered
<1>1. ASSUME NEW rs \in {q \in ValuedLookups("num") : Apart(q)}
      PROVE  InSequence(TranslateLookup("range", "num", rs, desc).of, desc)
  <2>1. PICK nu \in {"num", "str"} : nu = "num" OBVIOUS
  <2>2. rs \in Seq(Valued(nu)) BY <2>1, ValuedT
  <2>3. PICK req : req = TranslateLookup("range", "num", rs, desc) OBVIOUS
  <2>4. Apart(rs) => InSequence(req.of, desc) BY <2>1, <2>2, <2>3, RequestFacts
  <2>5. QED BY <2>3, <2>4
<1>2. ASSUME NEW t \in {"num", "str"}, NEW rs \in {q \in Lookups(t) : CanSupport("eq", q)}, NEW q, q = TranslateLookup("eq", t, rs, desc).of
      PROVE  \A i, j \in DOMAIN q : i < j => Precedes(t, q[i], q[j], desc)
  <2>1. rs \in Seq(Valued(t))
    <3>1. rs \in Seq(Ranges(t)) BY LookupsT
    <3>2. DOMAIN rs = 1 .. Len(rs) /\ Len(rs) \in Nat /\ rs = [i \in 1 .. Len(rs) |-> rs[i]] BY <3>1
    <3>3. \A i \in DOMAIN rs : rs[i] \in Ranges(t) /\ rs[i].upper.at = "above" BY <3>1 DEF CanSupport, PointValue
    <3>4. PICK V : V = Valued(t) OBVIOUS
    <3>5. \A i \in DOMAIN rs : rs[i] \in V BY <3>3, <3>4 DEF Valued
    <3>6. rs \in [1 .. Len(rs) -> V] BY <3>2, <3>5
    <3>7. QED BY <3>2, <3>4, <3>6, SeqDef
  <2>2. PICK eq \in {"primary", "eq", "prefix"} : eq = "eq" OBVIOUS
  <2>3. \A i \in DOMAIN rs : PointValue(rs[i]) BY DEF CanSupport
  <2>4. PICK req : req = TranslateLookup(eq, t, rs, desc) OBVIOUS
  <2>5. PICK S : S = {rs[i].lower.k : i \in DOMAIN rs} OBVIOUS
  <2>6. PointRequest(eq, t, S, desc, req) BY <2>1, <2>3, <2>4, <2>5, PointsFacts
  <2>7. q = req.of BY <1>2, <2>2, <2>4
  <2>8. QED BY <2>6, <2>7 DEF PointRequest, InOrderOnce
<1>3. QED BY <1>1, <1>2 DEF InSequence

\* LookupRight: translateLookup turns the ranges of gms into a request that returns, of the rows
\* that have a value, those that the statement asks for, no row that is NULL, and all in the order
\* that gms relies on - for whatever values, strings and cuts but an upper AboveNull, in a primary
\* key, an equality, a range or a prefix index.
THEOREM LookupsAreExact == RSpec => []LookupRight
<1>1. LookupRight BY ExactLookups, OrderedLookups DEF LookupRight
<1>2. QED BY <1>1, PTL
=============================================================================
