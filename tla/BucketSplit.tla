----------------------------- MODULE BucketSplit -----------------------------
(***************************************************************************)
(* Online split and merge of the buckets of one hot value of an equality   *)
(* index (controller/split.go SplitEq and MergeEq) under concurrent writers*)
(* that route by a cached BucketMap document (bucketmap/bucketmap.go).     *)
(*                                                                         *)
(* The document is changed by version CAS.  The buckets live in different  *)
(* slots, so the commands of one migration batch or of one write execute   *)
(* in any order across buckets.                                            *)
(*                                                                         *)
(* A primary key is represented by its xxhash64, the only thing routing    *)
(* looks at.  A member "pk 0x1f ver" is the pair <<pk, ver>>.  A write is  *)
(* its row commit, with the document it had loaded, followed by its index  *)
(* commands; RowWrite is about the commit itself.                          *)
(***************************************************************************)
EXTENDS Naturals, Sequences, FiniteSets, Functions

CONSTANTS
    Pks,            \* the rows, by the hash of their primary key
    Writers,        \* gateway processes that write; each caches the document
    Splitters,      \* goroutines that run SplitEq / MergeEq
    Ops,            \* what the splitters are asked to do
    NSub,           \* the number of sub-buckets at the start, a power of 2
    Batch,          \* page size of the migration
    MaxStepRetries, \* const maxStepRetries
    Timely,         \* no write outlives the document cache TTL
    Faults,         \* subset of {"die", "crash", "cut", "longpass"}
    MaxVer,         \* bound: row versions
    MaxDeaths,      \* bound: rows that expire
    MaxIdx,         \* bound: bucket indices
    MaxBegins       \* bound: SplitEq / MergeEq calls

ASSUME PksAssumption == Pks \subseteq Nat
ASSUME OpsAssumption == Ops \subseteq {"split", "merge"} /\ Faults \subseteq {"die", "crash", "cut", "longpass"}
ASSUME SizeAssumption ==
    /\ NSub \in Nat \ {0} /\ Batch \in Nat \ {0} /\ MaxStepRetries \in Nat \ {0}
    /\ MaxVer \in Nat /\ MaxDeaths \in Nat /\ MaxIdx \in Nat /\ MaxIdx >= 2 * NSub - 2 /\ MaxBegins \in Nat
    /\ Timely \in BOOLEAN

Idx == 0 .. MaxIdx
Member == Pks \X (1 .. MaxVer)

VARIABLES
    doc,      \* the persisted document: version, next, the entry of the value
    hot,      \* the value is in the hot-value registry
    bucket,   \* the members of each bucket
    row,      \* per pk: _ver (0: no row), and the stamp of its member (0: none)
    deaths,   \* the number of rows that have expired so far
    hit,      \* history: the pks born again while a ZREM of the same member was due
    cache,    \* per writer: the document it has loaded
    wrem,     \* per writer: ZREMs to execute
    wadd,     \* per writer: ZADDs to execute
    spc,      \* per splitter: where it is
    loc,      \* per splitter: its local variables
    begins,   \* the number of SplitEq / MergeEq calls so far
    crashed   \* history: a controller has died

store   == <<doc, hot, bucket>>
rows    == <<row, deaths, hit>>
writers == <<cache, wrem, wadd>>
split   == <<spc, loc, begins, crashed>>
vars    == <<store, rows, writers, split>>

(***************************************************************************)
(* Routing (bucketmap.go).  An absent entry is the entry with bucket 0.    *)
(***************************************************************************)
EqSubFor(pk, n) == pk % n
Pick(q, pk) == q[EqSubFor(pk, Len(q)) + 1]

\* Mutant: a draining split still writes the parent.
WriteTargetsDrainBoth(e, pk) ==
    CASE e.st \in {"SPLITTING", "MERGING", "DRAINING"} -> {Pick(e.p, pk), Pick(e.c, pk)}
      [] e.st = "MERGE_DRAIN" -> {Pick(e.p, pk)}
      [] e.st = "ACTIVE" -> {Pick(e.b, pk)}

WriteTargetsEq(e, pk) ==
    CASE e.st \in {"SPLITTING", "MERGING"} -> {Pick(e.p, pk), Pick(e.c, pk)}
      [] e.st = "DRAINING" -> {Pick(e.c, pk)}
      [] e.st = "MERGE_DRAIN" -> {Pick(e.p, pk)}
      [] e.st = "ACTIVE" -> {Pick(e.b, pk)}

\* Mutant: a draining entry reads only its targets.
ReadBucketsTargets(e) ==
    CASE e.st = "ACTIVE" -> Range(e.b)
      [] e.st = "DRAINING" -> Range(e.c)
      [] e.st = "MERGE_DRAIN" -> Range(e.p)
      [] OTHER -> Range(e.p) \cup Range(e.c)

ReadBucketsEq(e) == IF e.st = "ACTIVE" THEN Range(e.b) ELSE Range(e.p) \cup Range(e.c)

\* The sources and the targets of a migration.
From(e) == IF e.st \in {"SPLITTING", "DRAINING"} THEN e.p ELSE e.c
To(e)   == IF e.st \in {"SPLITTING", "DRAINING"} THEN e.c ELSE e.p

\* exec.eqBuckets: only a registered value is looked up in the document.
EqBuckets == IF hot THEN ReadBucketsEq(doc) ELSE {0}

(***************************************************************************)
(* Initially the value has NSub sub-buckets (0, then 1 2, then 3 .. 6).    *)
(***************************************************************************)
NoEntry == [b |-> <<>>, st |-> "ACTIVE", p |-> <<>>, c |-> <<>>]

\* The locals of a splitter: the operation, the attempt, the version its CAS
\* expects, the Next it read, the entry it works on; the buckets left to empty,
\* the page in hand and its ZADDs and ZREMs to execute; whether the drain phase
\* has begun and with which document version, the clock of the drain phase, and
\* its value when the pass began and when the last page was read.
NoLoc == [op |-> "none", at |-> 0, ver |-> 0, next |-> 0, e |-> NoEntry,
          todo |-> <<>>, page |-> {}, add |-> {}, rem |-> {},
          drain |-> FALSE, dver |-> 0, clock |-> "early", pass |-> "early", read |-> "early"]

InitDoc == [ver |-> 0, next |-> 2 * NSub - 1, b |-> [i \in 1 .. NSub |-> NSub - 2 + i],
            st |-> "ACTIVE", p |-> <<>>, c |-> <<>>]

Init ==
    /\ doc = InitDoc
    /\ hot = (NSub > 1)
    /\ bucket = [i \in Idx |-> {}]
    /\ row = [k \in Pks |-> [ver |-> 0, iv |-> 0]]
    /\ deaths = 0
    /\ hit = {}
    /\ cache = [w \in Writers |-> InitDoc]
    /\ wrem = [w \in Writers |-> {}]
    /\ wadd = [w \in Writers |-> {}]
    /\ spc = [s \in Splitters |-> "idle"]
    /\ loc = [s \in Splitters |-> NoLoc]
    /\ begins = 0
    /\ crashed = FALSE

(***************************************************************************)
(* Writers.                                                                *)
(***************************************************************************)
Idle(w) == wrem[w] = {} /\ wadd[w] = {}

\* Somebody will still execute a ZREM of this member: a writer, or a migration batch that
\* does not copy it.
Due(m) ==
    \/ \E w \in Writers : \E i \in Idx : <<i, m>> \in wrem[w]
    \/ \E s \in Splitters :
          m \in loc[s].rem \ loc[s].add /\ m \notin bucket[Pick(To(loc[s].e), m[1])]

\* The column takes the hot value: a member in every write target.  The _ver of a row that
\* is born again starts at 1, so its member may be one of an earlier life.
Put(w, k) ==
    /\ Idle(w) /\ row[k].iv = 0 /\ row[k].ver < MaxVer
    /\ LET v == row[k].ver + 1
       IN  /\ row' = [row EXCEPT ![k] = [ver |-> v, iv |-> v]]
           /\ wadd' = [wadd EXCEPT ![w] = {<<i, <<k, v>>>> : i \in WriteTargetsEq(cache[w], k)}]
           /\ hit' = IF Due(<<k, v>>) THEN hit \cup {k} ELSE hit \ {k}
    /\ UNCHANGED <<store, deaths, cache, wrem, split>>

\* The column takes another value: the exact member leaves every read bucket.
Away(w, k) ==
    /\ Idle(w) /\ row[k].iv # 0 /\ row[k].ver < MaxVer
    /\ row' = [row EXCEPT ![k] = [ver |-> row[k].ver + 1, iv |-> 0]]
    /\ wrem' = [wrem EXCEPT ![w] = {<<i, <<k, row[k].iv>>>> : i \in ReadBucketsEq(cache[w])}]
    /\ UNCHANGED <<store, deaths, hit, cache, wadd, split>>

WriterZadd(w, x) ==
    /\ x \in wadd[w]
    /\ bucket' = [bucket EXCEPT ![x[1]] = @ \cup {x[2]}]
    /\ wadd' = [wadd EXCEPT ![w] = @ \ {x}]
    /\ UNCHANGED <<doc, hot, rows, cache, wrem, split>>

WriterZrem(w, x) ==
    /\ x \in wrem[w]
    /\ bucket' = [bucket EXCEPT ![x[1]] = @ \ {x[2]}]
    /\ wrem' = [wrem EXCEPT ![w] = @ \ {x}]
    /\ UNCHANGED <<doc, hot, rows, cache, wadd, split>>

\* The cache TTL is over: the next Load reads the document.
CacheLapses(w) ==
    /\ Idle(w) /\ cache[w] # doc
    /\ cache' = [cache EXCEPT ![w] = doc]
    /\ UNCHANGED <<store, rows, wrem, wadd, split>>

\* The row expires; its members stay.
Die(k) ==
    /\ "die" \in Faults /\ row[k].ver # 0 /\ deaths < MaxDeaths
    /\ row' = [row EXCEPT ![k] = [ver |-> 0, iv |-> 0]]
    /\ deaths' = deaths + 1
    /\ UNCHANGED <<store, hit, writers, split>>

(***************************************************************************)
(* The state machine of SplitEq and MergeEq.                               *)
(***************************************************************************)
Entry == [b |-> doc.b, st |-> doc.st, p |-> doc.p, c |-> doc.c]
Busy(op) == IF op = "split" THEN "SPLITTING" ELSE "MERGING"
Drain(op) == IF op = "split" THEN "DRAINING" ELSE "MERGE_DRAIN"

Goto(s, l, r) == spc' = [spc EXCEPT ![s] = l] /\ loc' = [loc EXCEPT ![s] = r] /\ UNCHANGED <<begins, crashed>>
Leave(s) == Goto(s, "idle", NoLoc)

\* "continue": the next attempt, or ErrStaleMetadata.
Again(s) ==
    IF loc[s].at + 1 < MaxStepRetries
    THEN Goto(s, "load", [NoLoc EXCEPT !.op = loc[s].op, !.at = loc[s].at + 1])
    ELSE Leave(s)

\* The migration of the entry e starts; v is the version of a draining entry.
Migrate(s, e, d, v) ==
    Goto(s, "page", [NoLoc EXCEPT !.op = loc[s].op, !.at = loc[s].at, !.e = e,
                                  !.todo = From(e), !.drain = d, !.dver = v])

\* bucket_state_cas.lua
CasHolds(s) == doc.ver = loc[s].ver
CasEntry(e) == doc' = [ver |-> doc.ver + 1, next |-> doc.next, b |-> e.b, st |-> e.st, p |-> e.p, c |-> e.c]

\* A split doubles the sub-buckets, a merge halves them; the new ones are numbered
\* from Next.
NewTargets(op, b) == IF op = "split" THEN 2 * Len(b) ELSE Len(b) \div 2

NewIndices(op, b, next) == [i \in 1 .. NewTargets(op, b) |-> next + i - 1]

NextAfter(op, b, next) == next + NewTargets(op, b)

Room(op) == doc.next + NewTargets(op, doc.b) <= MaxIdx + 1

Begin(s, op) ==
    /\ spc[s] = "idle" /\ begins < MaxBegins
    /\ doc.st = "ACTIVE" => Room(op)
    /\ spc' = [spc EXCEPT ![s] = "load"]
    /\ loc' = [loc EXCEPT ![s] = [NoLoc EXCEPT !.op = op]]
    /\ begins' = begins + 1
    /\ UNCHANGED <<store, rows, writers, crashed>>

\* LoadFresh at the head of the loop, and where the entry's state leads.
LoadFresh(s) ==
    /\ spc[s] = "load"
    /\ LET op == loc[s].op
       IN  IF op = "merge" /\ Len(doc.b) <= 1 THEN Leave(s)
           ELSE CASE doc.st = "ACTIVE" ->
                       /\ Room(op)
                       /\ Goto(s, "next", [loc[s] EXCEPT !.ver = doc.ver, !.e = Entry, !.next = doc.next])
                  [] doc.st = Busy(op) -> Migrate(s, Entry, FALSE, 0)
                  [] doc.st = Drain(op) -> Migrate(s, Entry, TRUE, doc.ver)
                  [] OTHER -> Again(s)
    /\ UNCHANGED <<store, rows, writers>>

\* CAS next: the new bucket indices are taken.
CasNext(s) ==
    /\ spc[s] = "next"
    /\ IF CasHolds(s)
       THEN LET op == loc[s].op
                b == loc[s].e.b
                new == NewIndices(op, b, loc[s].next)
                e == [b |-> b, st |-> Busy(op),
                      p |-> IF op = "split" THEN b ELSE new, c |-> IF op = "split" THEN new ELSE b]
            IN  /\ doc' = [doc EXCEPT !.ver = @ + 1, !.next = NextAfter(op, b, loc[s].next)]
                /\ Goto(s, "reload", [loc[s] EXCEPT !.e = e])
       ELSE Again(s) /\ UNCHANGED doc
    /\ UNCHANGED <<hot, bucket, rows, writers>>

\* LoadFresh again: only the version of what is read is used.
Reload(s) ==
    /\ spc[s] = "reload"
    /\ Goto(s, "busy", [loc[s] EXCEPT !.ver = doc.ver])
    /\ UNCHANGED <<store, rows, writers>>

\* CAS SPLITTING / MERGING.
CasBusy(s) ==
    /\ spc[s] = "busy"
    /\ IF CasHolds(s)
       THEN CasEntry(loc[s].e) /\ Migrate(s, loc[s].e, FALSE, 0)
       ELSE Again(s) /\ UNCHANGED doc
    /\ UNCHANGED <<hot, bucket, rows, writers>>

(***************************************************************************)
(* migrateEq / migrateEqTo / migrateBatch.                                 *)
(***************************************************************************)

\* ZRANGE 0 batch-1 of the next bucket to empty.
Page(s) ==
    /\ spc[s] = "page" /\ loc[s].todo # <<>>
    /\ LET from == bucket[Head(loc[s].todo)]
       IN  IF from = {}
           THEN Goto(s, "page", [loc[s] EXCEPT !.todo = Tail(@), !.read = loc[s].clock])
           ELSE \E m \in SUBSET from :
                  /\ Cardinality(m) = Batch \/ (Cardinality(m) < Batch /\ m = from)
                  /\ Goto(s, "exists", [loc[s] EXCEPT !.page = m, !.read = loc[s].clock])
    /\ UNCHANGED <<store, rows, writers>>

\* EXISTS of the rows of the page: a dead member is not copied.
Exists(s) ==
    /\ spc[s] = "exists"
    /\ Goto(s, "move",
            [loc[s] EXCEPT !.rem = loc[s].page,
                           !.add = {m \in loc[s].page : row[m[1]].ver # 0}])
    /\ UNCHANGED <<store, rows, writers>>

MoveAdd(s, m) ==
    /\ spc[s] = "move" /\ m \in loc[s].add
    /\ bucket' = [bucket EXCEPT ![Pick(To(loc[s].e), m[1])] = @ \cup {m}]
    /\ Goto(s, "move", [loc[s] EXCEPT !.add = @ \ {m}])
    /\ UNCHANGED <<doc, hot, rows, writers>>

MoveRem(s, m) ==
    /\ spc[s] = "move" /\ m \in loc[s].rem
    /\ bucket' = [bucket EXCEPT ![Head(loc[s].todo)] = @ \ {m}]
    /\ Goto(s, "move", [loc[s] EXCEPT !.rem = @ \ {m}])
    /\ UNCHANGED <<doc, hot, rows, writers>>

\* A short page was the last one of its bucket.
MoveDone(s) ==
    /\ spc[s] = "move" /\ loc[s].add = {} /\ loc[s].rem = {}
    /\ Goto(s, "page", [loc[s] EXCEPT !.page = {},
                                      !.todo = IF Cardinality(loc[s].page) < Batch THEN Tail(@) ELSE @])
    /\ UNCHANGED <<store, rows, writers>>

\* Mutant: every pass of the drain phase sets a new deadline.
PassDoneNewDeadline(s) ==
    /\ spc[s] = "page" /\ loc[s].todo = <<>>
    /\ IF loc[s].drain
       THEN Goto(s, IF loc[s].clock = "over" THEN "unlink" ELSE "page",
                 [loc[s] EXCEPT !.todo = From(loc[s].e), !.clock = "early", !.pass = "early"])
       ELSE Goto(s, "mark", loc[s])
    /\ UNCHANGED <<store, rows, writers>>

\* The pass is over.  The drain loop looks at the clock only now.
PassDone(s) ==
    /\ spc[s] = "page" /\ loc[s].todo = <<>>
    /\ IF loc[s].drain
       THEN Goto(s, IF loc[s].clock = "over" THEN "unlink" ELSE "page",
                 [loc[s] EXCEPT !.todo = From(loc[s].e), !.pass = loc[s].clock])
       ELSE Goto(s, "mark", loc[s])
    /\ UNCHANGED <<store, rows, writers>>

\* LoadFresh: the entry as it is now, marked DRAINING / MERGE_DRAIN.
Mark(s) ==
    /\ spc[s] = "mark"
    /\ IF doc.st = "ACTIVE" THEN Again(s)
       ELSE Goto(s, "drain", [loc[s] EXCEPT !.ver = doc.ver, !.e = [Entry EXCEPT !.st = Drain(loc[s].op)]])
    /\ UNCHANGED <<store, rows, writers>>

CasDrain(s) ==
    /\ spc[s] = "drain"
    /\ IF CasHolds(s)
       THEN CasEntry(loc[s].e) /\ Migrate(s, loc[s].e, TRUE, doc.ver + 1)
       ELSE Again(s) /\ UNCHANGED doc
    /\ UNCHANGED <<hot, bucket, rows, writers>>

(***************************************************************************)
(* The clock of drainGrace: the grace period is the cache TTL and a margin.*)
(* If Timely, no write with an older document is left when the TTL is over *)
(* (assumed by drainGrace), and moving one page takes less time than the   *)
(* margin, so that a page is read in it; without the fault "longpass" this *)
(* is true of a whole pass over the source buckets.                        *)
(***************************************************************************)
Draining(s) == spc[s] \in {"page", "exists", "move"} /\ loc[s].drain

TtlOver(s) ==
    /\ Draining(s) /\ loc[s].clock = "early"
    /\ Timely => \A w \in Writers : cache[w].ver >= loc[s].dver
    /\ Goto(s, spc[s], [loc[s] EXCEPT !.clock = "margin"])
    /\ UNCHANGED <<store, rows, writers>>

GraceOver(s) ==
    /\ Draining(s) /\ loc[s].clock = "margin"
    /\ Timely => (IF "longpass" \in Faults THEN loc[s].read ELSE loc[s].pass) = "margin"
    /\ Goto(s, spc[s], [loc[s] EXCEPT !.clock = "over"])
    /\ UNCHANGED <<store, rows, writers>>

\* UNLINK of the emptied buckets, one by one.
Unlink(s) ==
    /\ spc[s] = "unlink" /\ loc[s].todo # <<>>
    /\ bucket' = [bucket EXCEPT ![Head(loc[s].todo)] = {}]
    /\ Goto(s, "unlink", [loc[s] EXCEPT !.todo = Tail(@)])
    /\ UNCHANGED <<doc, hot, rows, writers>>

\* LoadFresh: only the version is used.
ReloadFinal(s) ==
    /\ spc[s] = "unlink" /\ loc[s].todo = <<>>
    /\ Goto(s, "final", [loc[s] EXCEPT !.ver = doc.ver])
    /\ UNCHANGED <<store, rows, writers>>

\* CAS ACTIVE with the new buckets; a split still has to register the value.
CasFinal(s) ==
    /\ spc[s] = "final"
    /\ IF CasHolds(s)
       THEN /\ CasEntry([NoEntry EXCEPT !.b = To(loc[s].e)])
            /\ IF loc[s].op = "split" THEN Goto(s, "hot", loc[s]) ELSE Leave(s)
       ELSE Again(s) /\ UNCHANGED doc
    /\ UNCHANGED <<hot, bucket, rows, writers>>

RegisterHot(s) ==
    /\ spc[s] = "hot"
    /\ hot' = TRUE
    /\ Leave(s)
    /\ UNCHANGED <<doc, bucket, rows, writers>>

\* The controller dies, between two batches ("crash") or inside the pipeline of
\* a batch, or a command of it fails for good ("cut"): what was not executed
\* never is.  SplitEq and MergeEq resume from the document when called again.
Crash(s) ==
    /\ spc[s] # "idle"
    /\ "cut" \in Faults \/ ("crash" \in Faults /\ spc[s] # "move")
    /\ spc' = [spc EXCEPT ![s] = "idle"] /\ loc' = [loc EXCEPT ![s] = NoLoc]
    /\ crashed' = TRUE /\ UNCHANGED begins
    /\ UNCHANGED <<store, rows, writers>>

WriterStep(w) ==
    \/ \E k \in Pks : Put(w, k) \/ Away(w, k)
    \/ \E x \in wadd[w] : WriterZadd(w, x)
    \/ \E x \in wrem[w] : WriterZrem(w, x)
    \/ CacheLapses(w)

SplitterStep(s) ==
    \/ LoadFresh(s) \/ CasNext(s) \/ Reload(s) \/ CasBusy(s)
    \/ Page(s) \/ Exists(s) \/ MoveDone(s) \/ PassDone(s) \/ Mark(s) \/ CasDrain(s)
    \/ \E m \in loc[s].add : MoveAdd(s, m)
    \/ \E m \in loc[s].rem : MoveRem(s, m)
    \/ Unlink(s) \/ ReloadFinal(s) \/ CasFinal(s) \/ RegisterHot(s)

Next ==
    \/ \E w \in Writers : WriterStep(w)
    \/ \E k \in Pks : Die(k)
    \/ \E s \in Splitters :
          \/ \E op \in Ops : Begin(s, op)
          \/ SplitterStep(s) \/ TtlOver(s) \/ GraceOver(s) \/ Crash(s)

Spec == Init /\ [][Next]_vars

\* Redis answers, the caches' TTL lapses, the clock runs.
FairSpec ==
    /\ Spec
    /\ \A w \in Writers :
          /\ WF_vars(\E x \in wadd[w] : WriterZadd(w, x))
          /\ WF_vars(\E x \in wrem[w] : WriterZrem(w, x))
          /\ WF_vars(CacheLapses(w))
    /\ \A s \in Splitters :
          WF_vars(SplitterStep(s)) /\ WF_vars(TtlOver(s)) /\ WF_vars(GraceOver(s))

(***************************************************************************)
(* Properties.                                                             *)
(***************************************************************************)
States == {"ACTIVE", "SPLITTING", "DRAINING", "MERGING", "MERGE_DRAIN"}
Document == [ver : Nat, next : Nat, b : Seq(Idx), st : States, p : Seq(Idx), c : Seq(Idx)]
EqEntry == [b : Seq(Idx), st : States, p : Seq(Idx), c : Seq(Idx)]
Steps == {"idle", "load", "next", "reload", "busy", "page", "exists", "move", "mark", "drain", "unlink", "final", "hot"}
Clock == {"early", "margin", "over"}
Locals == [op : {"none", "split", "merge"}, at : 0 .. MaxStepRetries - 1, ver : Nat, next : Nat, e : EqEntry,
           todo : Seq(Idx), page : SUBSET Member, add : SUBSET Member, rem : SUBSET Member,
           drain : BOOLEAN, dver : Nat, clock : Clock, pass : Clock, read : Clock]

\* The types of the document, the buckets and the locals: bucket indices stay in
\* range, attempts are bounded.
TypeOK ==
    /\ doc \in Document
    /\ hot \in BOOLEAN
    /\ bucket \in [Idx -> SUBSET Member]
    /\ row \in [Pks -> [ver : 0 .. MaxVer, iv : 0 .. MaxVer]]
    /\ deaths \in Nat /\ hit \subseteq Pks
    /\ cache \in [Writers -> Document]
    /\ wrem \in [Writers -> SUBSET (Idx \X Member)]
    /\ wadd \in [Writers -> SUBSET (Idx \X Member)]
    /\ spc \in [Splitters -> Steps]
    /\ loc \in [Splitters -> Locals]
    /\ begins \in Nat /\ crashed \in BOOLEAN

MemberOf(k) == <<k, row[k].iv>>
Indexed == {k \in Pks : row[k].iv # 0}

\* The member is in a bucket the document reads, or on its way into one.
Reaches(m) ==
    \E i \in ReadBucketsEq(doc) :
        \/ m \in bucket[i]
        \/ \E w \in Writers : <<i, m>> \in wadd[w]
        \/ \E s \in Splitters : m \in loc[s].add /\ Pick(To(loc[s].e), m[1]) = i

\* A split or merge loses nobody: through migration, dual writes, writes with an
\* old document, rows that expire and are born again, the drain phase and the
\* UNLINK, the member of every row that has the value stays in a bucket that the
\* document names to its readers.  Only a row that is born again while a ZREM of
\* the same member is due loses it (hit): the batch that found its earlier life
\* dead, or the writer that moved it away, removes the member of the new life.
NoneLost == \A k \in Indexed \ hit : Reaches(MemberOf(k))

\* No member is left in a bucket that nobody reads: what UNLINK removed stays
\* removed, although writers with old documents still write to old buckets.
NoOrphans == \A i \in Idx \ ReadBucketsEq(doc) : bucket[i] = {}

\* No intermediate state of the document stays: SPLITTING, DRAINING, MERGING and
\* MERGE_DRAIN lead to ACTIVE when no controller dies.
Settles == doc.st # "ACTIVE" ~> (doc.st = "ACTIVE" \/ crashed)

\* docs/08 8.3: "no read hole".  A row with the value whose write is done is in a
\* bucket the read path looks at, when no migration batch is under way.
NoReadHole ==
    (\A s \in Splitters : spc[s] # "move") =>
        \A k \in Indexed :
            \/ \E i \in EqBuckets : MemberOf(k) \in bucket[i]
            \/ \E w \in Writers, i \in Idx : <<i, MemberOf(k)>> \in wadd[w]
=============================================================================
