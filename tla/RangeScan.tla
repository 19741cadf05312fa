------------------------------- MODULE RangeScan -------------------------------
(***************************************************************************)
(* A range index: the document of its buckets (bucketmap/bucketmap.go),    *)
(* SplitRange and MergeRange (controller/split.go), the lookup of score    *)
(* intervals that merges the buckets in score order (engine/translate.go,  *)
(* exec/topk.go), and writers.                                             *)
(*                                                                         *)
(* A bucket is a set of <<score, pk, iv>>.  A write takes its document and *)
(* sends its commands in one step, a migrated page moves in one step:      *)
(* late writers, concurrent splitters and torn pipelines are the subject   *)
(* of BucketSplit, whose protocol SplitRange and MergeRange repeat.  A     *)
(* query reads the document through the cache of the Store.  Lookup        *)
(* translates the queries.  prefix.go merges the same way, over the one    *)
(* bucket of the dictionary copy.                                          *)
(***************************************************************************)
EXTENDS Lookup

CONSTANTS
    RPks,        \* primary keys, numbers
    RInitially,  \* rows at the start: a function from pks to scores, 0: no row
    Queries,     \* what gms passes: <<sequence of disjoint ranges, IsReverse>>
    MoveBatch,   \* Splitter.batch
    ExecBatch,   \* tuning exec.batch
    RefillPage,  \* tuning exec.topk_refill_page
    SplitBefore, \* "@range" is in the hot registry: the index was split before
    Careful,     \* merges are asked for from the left: of two buckets that are both ACTIVE, or of one merge
    Writes,      \* the writes that happen: <<pk, score>>, 0: the row is deleted
    MaxRWrites,  \* bound: writes
    MaxSteps,    \* bound: calls of SplitRange and MergeRange
    MaxScans     \* bound: queries

ASSUME RangeAssumption ==
    /\ RPks \subseteq Nat /\ IsFiniteSet(RPks) /\ IsFiniteSet(Scores) /\ Scores # {}
    /\ RInitially \in [RPks -> Scores \cup {0}]
    /\ \A q \in Queries : q[1] \in Seq(Valued("num")) /\ Apart(q[1]) /\ q[2] \in BOOLEAN
    /\ Writes \subseteq RPks \X (Scores \cup {0}) /\ SplitBefore \in BOOLEAN /\ Careful \in BOOLEAN
    /\ {MoveBatch, ExecBatch, RefillPage} \subseteq Nat \ {0} /\ {MaxRWrites, MaxSteps, MaxScans} \subseteq Nat

VARIABLES
    score,   \* per pk, the column of its row, 0: no row
    iv,      \* per pk, the stamp of its member
    ranges,  \* the document: field "r", a list of buckets with different numbers
    next,    \* the document: field "next"
    hot,     \* "@range" is in the hot registry
    docs,    \* the documents that a Store's cache may hold: those of its last second
    bk,      \* per bucket number, its members
    sp,      \* the splitter's locals
    sc,      \* the query's stream
    rw, steps, scans

rstore == <<score, iv, bk>>
rdoc == <<ranges, next, hot, docs>>
rvars == <<rstore, rdoc, sp, sc, rw, steps, scans>>

RIdx == 0 .. 2 * MaxSteps
Bound(n, a) == IF n < a THEN n ELSE a

(***************************************************************************)
(* Routing.  A bucket of the document: its number, [lo, hi), its state and *)
(* its children while it is split or merged.                               *)
(***************************************************************************)
RangeContains(r, s) == r.lo <= s /\ s < r.hi
RangeOverlaps(r, lo, hi) == r.lo <= hi /\ lo <= r.hi

WriteTargetsRange(s) ==
    LET r == CHOOSE x \in ranges : RangeContains(x, s)
        child == IF RangeContains(r.c[2], s) THEN r.c[2].i ELSE r.c[1].i
    IN  CASE r.st = "ACTIVE" -> {r.i}
          [] r.st = "SPLITTING" -> {r.i, child}
          [] r.st = "DRAINING" -> {child}
          [] r.st = "MERGING" -> {r.c[1].i, r.i}
          [] r.st = "MERGE_DRAIN" -> {r.c[1].i}

\* What is read for a bucket of the document: <<number, the bucket's number, place>>.
\* The target of a merge is its old buckets' child twice, and is read as often.
BucketsOf(r) ==
    {<<r.i, r.i, 0>>} \cup (IF r.c = <<>> THEN {} ELSE {<<r.c[1].i, r.i, 1>>})
                     \cup (IF r.c = <<>> \/ r.st = "MERGE_DRAIN" THEN {} ELSE {<<r.c[2].i, r.i, 2>>})

Overlapping(d, lo, hi) == {r \in d : RangeOverlaps(r, lo, hi)}

\* Mutant: the bucket that is split is no longer read.
ReadBucketsNoParent(d, lo, hi) ==
    UNION {IF r.st = "SPLITTING" THEN {b \in BucketsOf(r) : b[3] # 0} ELSE BucketsOf(r) : r \in Overlapping(d, lo, hi)}

ReadBucketsRange(d, lo, hi) == UNION {BucketsOf(r) : r \in Overlapping(d, lo, hi)}

Numbers(ways) == {b[1] : b \in ways}
Elems(q) == {q[i] : i \in DOMAIN q}

(***************************************************************************)
(* Order and pages of a bucket: ZRANGEBYSCORE / ZREVRANGEBYSCORE LIMIT.    *)
(***************************************************************************)
RBefore(a, b) == a[1] < b[1] \/ (a[1] = b[1] /\ (a[2] < b[2] \/ (a[2] = b[2] /\ a[3] < b[3])))

Sorted(S, desc) ==
    LET rank(m) == Cardinality({o \in S : IF desc THEN RBefore(m, o) ELSE RBefore(o, m)})
    IN  [n \in 1 .. Cardinality(S) |-> CHOOSE m \in S : rank(m) = n - 1]

PageCmd(b, r, desc, off, count) ==
    LET q == Sorted({m \in bk[b] : Contains(r, m[1])}, desc)
    IN  SubSeq(q, off + 1, Bound(Len(q), off + count))

(***************************************************************************)
(* Initially one bucket holds the rows.                                    *)
(***************************************************************************)
NoJob == [pc |-> "idle", op |-> "none", old |-> <<>>, new |-> <<>>, todo |-> <<>>, page |-> {}, live |-> {}, drain |-> FALSE]
NoScan == [pc |-> "idle", hot |-> FALSE, rs |-> <<>>, desc |-> FALSE, pred |-> {}, ways |-> <<>>, heap |-> {}, cand |-> <<>>,
           seen |-> {}, out |-> <<>>, must |-> {}, moved |-> FALSE, stale |-> FALSE, wide |-> FALSE, stray |-> FALSE]

RInit ==
    /\ score = RInitially
    /\ iv = [k \in RPks |-> IF RInitially[k] = 0 THEN 0 ELSE 1]
    /\ ranges = {[i |-> 0, lo |-> 0, hi |-> Inf, st |-> "ACTIVE", c |-> <<>>]}
    /\ next = 1
    /\ hot = SplitBefore /\ docs = {ranges}
    /\ bk = [i \in RIdx |-> IF i = 0 THEN {<<RInitially[k], k, 1>> : k \in {j \in RPks : RInitially[j] # 0}} ELSE {}]
    /\ sp = NoJob /\ sc = NoScan
    /\ rw = 0 /\ steps = 0 /\ scans = 0

\* History: a member has left a bucket, or a row has changed, while the query ran.
Disturb(touched, moves) ==
    sc' = [sc EXCEPT !.must = @ \ touched, !.moved = @ \/ (moves /\ sc.pc # "idle")]

(***************************************************************************)
(* Writers: INSERT, UPDATE and DELETE of the indexed column (buildIndexOps)*)
(***************************************************************************)
Write(k, s) ==
    /\ rw < MaxRWrites /\ score[k] # s
    /\ LET old == IF score[k] = 0 THEN {} ELSE Numbers(ReadBucketsRange(ranges, score[k], score[k]))
           add == IF s = 0 THEN {} ELSE WriteTargetsRange(s)
           gone == <<score[k], k, iv[k]>>
       IN  /\ bk' = [i \in RIdx |-> (IF i \in old THEN bk[i] \ {gone} ELSE bk[i])
                                    \cup (IF i \in add THEN {<<s, k, rw + 2>>} ELSE {})]
           /\ Disturb({k}, old # {})
    /\ score' = [score EXCEPT ![k] = s]
    /\ iv' = [iv EXCEPT ![k] = IF s = 0 THEN 0 ELSE rw + 2]
    /\ rw' = rw + 1
    /\ UNCHANGED <<rdoc, sp, steps, scans>>

(***************************************************************************)
(* The controller.                                                         *)
(***************************************************************************)
Job(j) == sp' = j
SStep == UNCHANGED <<score, iv, rw, scans>>

Busy(op) == IF op = "split" THEN "SPLITTING" ELSE "MERGING"
Drain(op) == IF op = "split" THEN "DRAINING" ELSE "MERGE_DRAIN"

\* sampleMedian: of the members at a quarter, a half and three quarters of the bucket,
\* the one in the middle.
SampleMedian(b) == Sorted(bk[b], FALSE)[Cardinality(bk[b]) \div 2 + 1][1]

\* The children of a split, the target of a merge.
Child(i, lo, hi) == [i |-> i, lo |-> lo, hi |-> hi, st |-> "ACTIVE", c |-> <<>>]
SplitInto(r) == LET mid == SampleMedian(r.i) IN <<Child(next, r.lo, mid), Child(next + 1, mid, r.hi)>>
MergeInto(l, r) == LET m == Child(next, l.lo, r.hi) IN <<m, m>>

\* MergeRange: the neighbour.  Of several (all but one are empty intervals) the code
\* takes the first of the list.
Right(r) == {q \in ranges : q.lo = r.hi}

\* SplitRange and MergeRange, LoadFresh at the head of the loop: the bucket that is
\* named, for a merge also its right neighbour, and where their state leads.  A
\* state of the other operation, a bucket without members and a last bucket are
\* errors.  A candidate that is a child is not found.
Begin(op, r) ==
    /\ sp.pc = "idle" /\ steps < MaxSteps
    /\ steps' = steps + 1
    /\ \E q \in (IF op = "merge" THEN Right(r) ELSE {r}) :
          LET old == IF op = "merge" THEN <<r.i, q.i>> ELSE <<r.i>>
              job == [NoJob EXCEPT !.op = op, !.old = old, !.todo = old]
          IN  /\ (op = "merge" /\ Careful) => q # r /\ q.st = r.st /\ q.c = r.c
              /\ \/ /\ r.st = "ACTIVE"
                    /\ op = "split" => bk[r.i] # {}
                    /\ Job([job EXCEPT !.pc = "next", !.new = IF op = "split" THEN SplitInto(r) ELSE MergeInto(r, q)])
                 \/ r.st = Busy(op) /\ Job([job EXCEPT !.pc = "page", !.new = r.c])
                 \/ r.st = Drain(op) /\ Job([job EXCEPT !.pc = "page", !.new = r.c, !.drain = TRUE])
    /\ UNCHANGED <<rdoc, bk, sc>> /\ SStep

\* CAS next.
CasNext ==
    /\ sp.pc = "next"
    /\ next' = next + (IF sp.op = "split" THEN 2 ELSE 1)
    /\ Job([sp EXCEPT !.pc = "busy"])
    /\ UNCHANGED <<ranges, hot, docs, bk, sc, steps>> /\ SStep

\* CAS r: the state of the old buckets.
Marked(st, new) == {IF r.i \in Elems(sp.old) THEN [r EXCEPT !.st = st, !.c = new] ELSE r : r \in ranges}

\* The caches keep what they have.
Written == docs' = docs \cup {ranges'}

CasBusy ==
    /\ sp.pc = "busy"
    /\ ranges' = Marked(Busy(sp.op), sp.new) /\ Written
    /\ Job([sp EXCEPT !.pc = "page"])
    /\ UNCHANGED <<next, hot, bk, sc, steps>> /\ SStep

\* migrateRange / migrateRangeTo: the first page of the bucket, and EXISTS of its rows.
MigratePage ==
    /\ sp.pc = "page" /\ sp.todo # <<>>
    /\ LET q == Sorted(bk[Head(sp.todo)], FALSE)
           page == {q[i] : i \in 1 .. Bound(Len(q), MoveBatch)}
       IN  Job(IF page = {} THEN [sp EXCEPT !.todo = Tail(@)]
                ELSE [sp EXCEPT !.pc = "move", !.page = page, !.live = {m \in page : score[m[2]] # 0}])
    /\ UNCHANGED <<rdoc, bk, sc, steps>> /\ SStep

\* The child of a split by score; the merged bucket.
Target(s) == IF sp.op = "split" /\ s < sp.new[2].lo THEN sp.new[1].i ELSE sp.new[2].i

\* migrateBatch: ZADD of the live members, ZREM of all.  A short page is the last.
MigrateBatch ==
    /\ sp.pc = "move"
    /\ bk' = [i \in RIdx |-> (IF i = Head(sp.todo) THEN bk[i] \ sp.page ELSE bk[i]) \cup {m \in sp.live : Target(m[1]) = i}]
    /\ Job([sp EXCEPT !.pc = "page", !.page = {}, !.live = {},
                       !.todo = IF Cardinality(sp.page) < MoveBatch THEN Tail(@) ELSE @])
    /\ Disturb({}, TRUE)
    /\ UNCHANGED <<rdoc, steps>> /\ SStep

\* CAS DRAINING / MERGE_DRAIN.
CasDrain ==
    /\ sp.pc = "page" /\ sp.todo = <<>> /\ ~sp.drain
    /\ ranges' = Marked(Drain(sp.op), sp.new) /\ Written
    /\ Job([sp EXCEPT !.todo = sp.old, !.drain = TRUE])
    /\ UNCHANGED <<next, hot, bk, sc, steps>> /\ SStep

\* drainGrace is over, and with it the life of every cached document but the last:
\* UNLINK of the old buckets.
Unlink ==
    /\ sp.pc = "page" /\ sp.todo = <<>> /\ sp.drain
    /\ bk' = [i \in RIdx |-> IF i \in Elems(sp.old) THEN {} ELSE bk[i]]
    /\ Job([sp EXCEPT !.pc = "final"])
    /\ Disturb({}, \E i \in Elems(sp.old) : bk[i] # {})
    /\ docs' = {ranges}
    /\ UNCHANGED <<ranges, next, hot, steps>> /\ SStep

\* Mutant: the right bucket of a merge stays in the document.
ReplacedBoth == {r \in ranges : r.i # sp.old[1]} \cup Elems(sp.new)

\* The children in the place of the parent; the merged bucket in the place of the two.
Replaced == {r \in ranges : r.i \notin Elems(sp.old)} \cup Elems(sp.new)

CasFinal ==
    /\ sp.pc = "final"
    /\ ranges' = Replaced /\ Written
    /\ Job(IF sp.op = "split" THEN [sp EXCEPT !.pc = "hot"] ELSE NoJob)
    /\ UNCHANGED <<next, hot, bk, sc, steps>> /\ SStep

RegisterHot ==
    /\ sp.pc = "hot"
    /\ hot' = TRUE
    /\ Job(NoJob)
    /\ UNCHANGED <<ranges, next, docs, bk, sc, steps>> /\ SStep

\* The controller dies; the document and the buckets stay as they are.
Crash ==
    /\ sp.pc # "idle"
    /\ Job(NoJob)
    /\ UNCHANGED <<rdoc, bk, sc, steps>> /\ SStep

Controller ==
    \/ \E op \in {"split", "merge"}, r \in ranges : Begin(op, r)
    \/ CasNext \/ CasBusy \/ MigratePage \/ MigrateBatch \/ CasDrain \/ Unlink \/ CasFinal \/ RegisterHot \/ Crash

(***************************************************************************)
(* The query.                                                              *)
(***************************************************************************)
QStep == UNCHANGED <<rstore, rdoc, sp, rw, steps>>
Scan(r) == sc' = r

\* Run: initRoutes asks the hot registry.
RunRange(q, desc) ==
    /\ sc.pc = "idle" /\ scans < MaxScans
    /\ LET req == TranslateLookup("range", "num", q, desc)
       IN  Scan([NoScan EXCEPT !.pc = "route", !.hot = hot, !.rs = req.of, !.desc = desc, !.pred = Elems(req.pred.of),
                               !.must = {k \in RPks : score[k] # 0 /\ Wanted("num", q, score[k])}])
    /\ scans' = scans + 1
    /\ QStep

\* The buckets that document d gives for an interval.
CoveredBy(d, r) == ReadBucketsRange(d, IF r.loOpen THEN r.lo + 1 ELSE r.lo, IF r.hiOpen THEN r.hi - 1 ELSE r.hi)

\* rangeBucketsFor: the buckets of the next interval, from a document of the cache;
\* bucket 0 when the index is not registered or a look at registry or document fails.
RangeBucketsFor(r) == {{<<0, 0, 0>>}} \cup {CoveredBy(d, r) : d \in {x \in docs : sc.hot}}

\* History: a bucket that the document has by now is not read.
Misses(b, r) == ~(Numbers(CoveredBy(ranges, r)) \subseteq Numbers(b))

Route ==
    /\ sc.pc = "route"
    /\ IF sc.rs = <<>> THEN Scan([sc EXCEPT !.pc = "done"])
       ELSE \E b \in RangeBucketsFor(Head(sc.rs)) :
                Scan([sc EXCEPT !.pc = "seed", !.wide = @ \/ Cardinality(b) > 1, !.stale = @ \/ Misses(b, Head(sc.rs)),
                                !.ways = [w \in b |-> [cursor |-> 0, inHeap |-> 0, done |-> FALSE]]])
    /\ QStep /\ UNCHANGED scans

\* Pages for the ways of W, count members each, in one pipeline; all go into the heap.
\* A short page is the last of its way.
Pages(s, W, count) ==
    LET page == [w \in W |-> PageCmd(w[1], Head(s.rs), s.desc, s.ways[w].cursor, count)]
        got(w) == Len(page[w])
    IN  [s EXCEPT !.heap = @ \cup UNION {{<<page[w][i], w>> : i \in DOMAIN page[w]} : w \in W},
                  !.ways = [w \in DOMAIN s.ways |->
                               IF w \in W THEN [s.ways[w] EXCEPT !.cursor = @ + got(w), !.inHeap = @ + got(w), !.done = got(w) < count]
                               ELSE s.ways[w]]]

\* seed: one member of every way; a way without one is done.
Seed ==
    /\ sc.pc = "seed"
    /\ Scan([Pages(sc, DOMAIN sc.ways, 1) EXCEPT !.pc = "step"])
    /\ QStep /\ UNCHANGED scans

\* The heap gives its first ExecBatch members; those with the same score in any order.
Batches(heap, desc) ==
    LET n == Bound(Cardinality(heap), ExecBatch)
        notAfter(x, y) == IF desc THEN y[1][1] <= x[1][1] ELSE x[1][1] <= y[1][1]
    IN  {f \in [1 .. n -> heap] :
            \A i \in 1 .. n : /\ \A j \in 1 .. i - 1 : f[j] # f[i]
                              /\ \A y \in heap \ {f[j] : j \in 1 .. i - 1} : notAfter(f[i], y)}

Popped(s, f) ==
    [s EXCEPT !.heap = @ \ Elems(f), !.cand = [i \in DOMAIN f |-> f[i][1]],
              !.ways = [w \in DOMAIN s.ways |-> [s.ways[w] EXCEPT !.inHeap = @ - Cardinality({i \in DOMAIN f : f[i][2] = w})]]]

\* Mutant: the refill starts behind the member after the last one.
RefillSkips(s) ==
    LET ran == {w \in DOMAIN s.ways : s.ways[w].inHeap = 0 /\ ~s.ways[w].done}
    IN  Pages([s EXCEPT !.ways = [w \in DOMAIN s.ways |-> [s.ways[w] EXCEPT !.cursor = IF w \in ran THEN @ + 1 ELSE @]]],
              ran, RefillPage)

\* refillWays: the ways that ran empty in this batch.
RefillWays(s) == Pages(s, {w \in DOMAIN s.ways : s.ways[w].inHeap = 0 /\ ~s.ways[w].done}, RefillPage)

\* step: a batch is popped, and only then the ways that ran empty are refilled.
\* Without candidates the interval is over, and fillOrderedRange takes the next one.
Step ==
    /\ sc.pc = "step"
    /\ IF sc.heap = {} THEN Scan([sc EXCEPT !.pc = "route", !.rs = Tail(@), !.ways = <<>>])
       ELSE \E f \in Batches(sc.heap, sc.desc) : Scan([RefillWays(Popped(sc, f)) EXCEPT !.pc = "fetch"])
    /\ QStep /\ UNCHANGED scans

\* Mutant: a member that is in two buckets counts twice.
UnseenAll(cand, seen) == DOMAIN cand

\* The candidates whose pk was not seen yet: their places.
Unseen(cand, seen) ==
    {i \in DOMAIN cand : cand[i][2] \notin seen /\ \A j \in 1 .. i - 1 : cand[j][2] # cand[i][2]}

At(q, S) == [n \in 1 .. Cardinality(S) |-> q[CHOOSE i \in S : Cardinality({j \in S : j < i}) = n - 1]]

\* fetchItems: the rows of the candidates, those that live and satisfy the predicate.
\* History: a member that was left behind has put its row in a place that is not the row's.
RMatch(k) == score[k] # 0 /\ \E r \in sc.pred : Contains(r, score[k])

Fetch ==
    /\ sc.pc = "fetch"
    /\ LET items == Unseen(sc.cand, sc.seen)
           rows == At(sc.cand, {i \in items : RMatch(sc.cand[i][2])})
       IN  Scan([sc EXCEPT !.pc = "step", !.cand = <<>>, !.seen = @ \cup {sc.cand[i][2] : i \in items},
                           !.out = @ \o [i \in DOMAIN rows |-> <<rows[i][2], score[rows[i][2]]>>],
                           !.stray = @ \/ \E i \in DOMAIN rows : rows[i][1] # score[rows[i][2]]])
    /\ QStep /\ UNCHANGED scans

\* The result has been consumed.
Done == sc.pc = "done" /\ Scan(NoScan) /\ QStep /\ UNCHANGED scans

Query ==
    \/ \E q \in Queries : RunRange(q[1], q[2])
    \/ Route \/ Seed \/ Step \/ Fetch \/ Done

RNext == Query \/ Controller \/ \E w \in Writes : Write(w[1], w[2])

RSpec == RInit /\ [][RNext]_rvars

(***************************************************************************)
(* Properties.                                                             *)
(***************************************************************************)
Kids == [i : RIdx, lo : Nat, hi : Nat, st : {"ACTIVE"}, c : {<<>>}]
Pairs == {<<>>} \cup (Kids \X Kids)
RangeT == [i : RIdx, lo : Nat, hi : Nat, st : {"ACTIVE", "SPLITTING", "DRAINING", "MERGING", "MERGE_DRAIN"}, c : Pairs]
RMembers == Scores \X RPks \X Nat
JobT == [pc : {"idle", "next", "busy", "page", "move", "final", "hot"}, op : {"none", "split", "merge"}, old : Seq(RIdx),
         new : Pairs, todo : Seq(RIdx), page : SUBSET RMembers, live : SUBSET RMembers, drain : BOOLEAN]
Places == RIdx \X RIdx \X (0 .. 2)
WayT == [cursor : Nat, inHeap : Nat, done : BOOLEAN]

\* The types of document, buckets and locals; a batch of candidates is no longer than
\* exec.batch, and what a way has in the heap is what its counter says.
RTypeOK ==
    /\ score \in [RPks -> Scores \cup {0}] /\ iv \in [RPks -> Nat] /\ bk \in [RIdx -> SUBSET RMembers]
    /\ ranges \subseteq RangeT /\ docs \subseteq SUBSET RangeT /\ next \in Nat /\ hot \in BOOLEAN /\ sp \in JobT
    /\ sc.seen \subseteq RPks /\ sc.heap \subseteq RMembers \X Places /\ DOMAIN sc.ways \subseteq Places
    /\ sc.cand \in Seq(RMembers) /\ Len(sc.cand) <= ExecBatch /\ sc.out \in Seq(RPks \X Scores)
    /\ \A w \in DOMAIN sc.ways :
          sc.ways[w] \in WayT /\ sc.ways[w].inHeap = Cardinality({x \in sc.heap : x[2] = w})
    /\ {rw, steps, scans} \subseteq Nat

\* A query that runs may rely on translateLookup, whatever gms asked of whichever index:
\* of the rows that have a value the request returns those that the statement asks for and
\* no others (a row that is NULL comes never, NullsPrecise), and asks for them in the
\* order that gms relies on once it has dropped filter and sort.
LookupRight == sc.pc # "idle" => LookupExact /\ LookupOrdered

\* Every score belongs to one bucket of the document, and while that bucket is split
\* or merged to one child: a score has one home, whatever was split, merged or
\* abandoned half way before.
OneHome ==
    \A s \in Scores :
        /\ Cardinality({r \in ranges : RangeContains(r, s)}) = 1
        /\ \A r \in ranges : r.c # <<>> /\ RangeContains(r, s) => \E j \in 1 .. 2 : RangeContains(r.c[j], s)

\* No split and no merge hides a row from the readers of the document: the member
\* of every row is in a bucket that a lookup of the row's score reads.
Homed ==
    \A k \in RPks : score[k] # 0 =>
        \E b \in ReadBucketsRange(ranges, score[k], score[k]) : <<score[k], k, iv[k]>> \in bk[b[1]]

\* A row comes once, although its member may be in the parent and in a child, the
\* target of a merge is read up to four times, and inserts shift the pages.
ScanOnce == \A i, j \in DOMAIN sc.out : sc.out[i][1] = sc.out[j][1] => i = j

\* A row that satisfies the predicate from the beginning of the query to its end is
\* in the result, from whatever state of a split or merge it is read, from an old
\* document too and whatever is inserted meanwhile - if no member leaves a bucket
\* while the query runs: the pages go by offset (topk.go, mergeWay.cursor); and if the
\* cached document names the buckets of the current one: in one that is older than
\* SPLITTING or MERGING the children are missing, and with it the rows that were moved.
ScanComplete ==
    sc.pc = "done" /\ ~sc.moved /\ ~sc.stale => \A k \in sc.must : \E i \in DOMAIN sc.out : sc.out[i][1] = k

\* Of the rows that satisfy the predicate from the beginning of the query to its end.
InOrder ==
    \A i, j \in DOMAIN sc.out : (i < j /\ {sc.out[i][1], sc.out[j][1]} \subseteq sc.must) =>
        IF sc.desc THEN sc.out[j][2] <= sc.out[i][2] ELSE sc.out[i][2] <= sc.out[j][2]

\* The order that gms relies on when it drops the Sort node, for an index that is in
\* one bucket, whatever is inserted meanwhile - if no member leaves a bucket while the
\* query runs, and no member that was left behind returned a row.
OrderedAlone == ~sc.wide /\ ~sc.moved /\ ~sc.stray => InOrder

\* topk.go:23 "the sort order is guaranteed by construction": every result is in
\* score order, also over several buckets.
Ordered == ~sc.moved /\ ~sc.stray => InOrder
=============================================================================
