-------------------------------- MODULE HotRead --------------------------------
(***************************************************************************)
(* The equality lookup of a hot value (exec/exec.go) behind every layer    *)
(* that may answer for the store: the L1 cache of pk lists, the L2 flight  *)
(* that concurrent queries share, the L4 replicas of the bucket            *)
(* (controller/l4.go, driven by controller/manager.go and the samples of   *)
(* telemetry/telemetry.go) and the row cache (nearcache/rowcache.go).      *)
(*                                                                         *)
(* One gateway serves the sessions, one controller runs the manager.  One  *)
(* value, in one bucket.  A row's content is the number of the write that  *)
(* made it; member <<pk, iv, cov>> is "pk 0x1f iv" with the content of the *)
(* covering columns if the index has any.  Buckets that are split are the  *)
(* subject of BucketSplit; SplitMembers is beyond this instance.           *)
(***************************************************************************)
EXTENDS Naturals, FiniteSets, Sequences

CONSTANTS
    Pks,         \* primary keys, numbers: ZRANGE sorts by them
    Initially,   \* those with a row that has the value at the start
    Mortal,      \* those whose rows may have a TTL
    Sessions,    \* client connections of the gateway
    Covering,    \* the index has covering columns, and covers the queries
    UseRowCache, \* hotkey_row_cache
    K,           \* replicas of a bucket (2 in review)
    PageRows,    \* tuning exec.batch
    L2Max,       \* tuning exec.l2_max_collect
    L4Members,   \* Manager.L4Members
    ColdTicks,   \* ticks without samples before replicas are given up
    ReadFaults,  \* subset of {"late", "down"}
    MaxWrites,   \* bound: writes
    MaxDowns     \* bound: controllers that stop, replicas that die and live again under a reader

ASSUME HotReadAssumption ==
    /\ Pks \subseteq Nat /\ IsFiniteSet(Pks) /\ Mortal \cup Initially \subseteq Pks /\ Covering \in BOOLEAN /\ UseRowCache \in BOOLEAN
    /\ K \in Nat \ {0} /\ PageRows \in Nat \ {0} /\ L2Max \in Nat /\ L4Members \in Nat \ {0}
    /\ ColdTicks \in Nat \ {0} /\ ReadFaults \subseteq {"late", "down"} /\ MaxWrites \in Nat /\ MaxDowns \in Nat
    /\ "flight" \notin Sessions

VARIABLES
    row,     \* per pk: content n (0: none), whether it has the value, the member's stamp
    lost,    \* history: pks whose row has expired and was not written again
    src,     \* the bucket
    rep,     \* per replica: [alive, mem]
    reg,     \* "r4:" entry in the registry: the number of replicas, 0: none
    stat,    \* the bucket's sample counter exists
    cand,    \* the bucket is a split / replica candidate
    mgr,     \* the controller's locals
    repc,    \* the gateway's cache of the registry entry; NoEntry: lapsed
    l1,      \* the L1 entry of the query: <<list>>, or <<>>
    rc,      \* per pk, the row cache: content (0: none), whether it was given the row's
             \* remaining TTL, and (history) whether the row was given less since then
    st,      \* per session, and the L2 flight: the stream's locals
    writes, downs

NoEntry == K + 1
Streams == Sessions \cup {"flight"}
hstore == <<row, lost, src>>
l4 == <<rep, reg, stat, cand>>
near == <<repc, l1, rc>>
hvars == <<hstore, l4, mgr, near, st, writes, downs>>

NoRow == [n |-> 0, hit |-> FALSE, iv |-> 0]
NoCache == [n |-> 0, hit |-> FALSE, bound |-> FALSE, cut |-> FALSE]
NoStream == [pc |-> "idle", key |-> 0, cur |-> 0, page |-> <<>>, more |-> FALSE, seen |-> {},
             list |-> <<>>, cached |-> FALSE, items |-> <<>>, collect |-> <<>>, out |-> <<>>, hist |-> {}]
IdleM == [pc |-> "idle", i |-> 0, snap |-> {}, cold |-> 0]

Member(k, r) == <<k, r.iv, IF Covering THEN r.n ELSE 0>>
Before(a, b) == a[1] < b[1] \/ (a[1] = b[1] /\ (a[2] < b[2] \/ (a[2] = b[2] /\ a[3] < b[3])))
Upto(q, n) == SubSeq(q, 1, IF n < Len(q) THEN n ELSE Len(q))
\* The members of a bucket have one score: Redis sorts them as strings.
Lexical(S) == [i \in 1 .. Cardinality(S) |-> CHOOSE m \in S : Cardinality({o \in S : Before(o, m)}) = i - 1]
\* ZRANGE from, from + batch - 1.
Zrange(S, from) == Upto(SubSeq(Lexical(S), from + 1, Cardinality(S)), PageRows)

First == [n |-> 1, hit |-> TRUE, iv |-> 1]

\* Nothing is cached or replicated.
HInit ==
    /\ row = [k \in Pks |-> IF k \in Initially THEN First ELSE NoRow]
    /\ src = {Member(k, First) : k \in Initially}
    /\ lost = {}
    /\ rep = [i \in 1 .. K |-> [alive |-> FALSE, mem |-> {}]]
    /\ reg = 0 /\ stat = FALSE /\ cand = FALSE /\ mgr = IdleM
    /\ repc = NoEntry /\ l1 = <<>>
    /\ rc = [k \in Pks |-> NoCache]
    /\ st = [x \in Streams |-> NoStream]
    /\ writes = 0 /\ downs = 0

(***************************************************************************)
(* Writers.  A write and its index commands are one step here (RowWrite    *)
(* has them).  buildIndexOps touches the index when the indexed column     *)
(* changes and at no other time.                                           *)
(***************************************************************************)
Watch(k, n) == [x \in Streams |-> IF x \in Sessions /\ st[x].pc # "idle"
                                  THEN [st[x] EXCEPT !.hist = @ \cup {<<k, n>>}] ELSE st[x]]

\* INSERT or UPDATE.  short: it gives the row a TTL that ends before the row cache's
\* entry does (_ttl set or shortened, or a new row with a TTL); nothing tells the entry.
Commit(k, hit, short) ==
    /\ writes < MaxWrites /\ (hit \/ row[k].hit) /\ (short => k \in Mortal /\ rc[k].n # 0)
    /\ LET old == row[k]
           n == writes + 2
           new == [n |-> n, hit |-> hit, iv |-> IF old.hit THEN old.iv ELSE n]
       IN  /\ row' = [row EXCEPT ![k] = new]
           /\ src' = (IF old.hit /\ ~hit THEN src \ {Member(k, old)} ELSE src)
                     \cup (IF ~old.hit /\ hit THEN {Member(k, new)} ELSE {})
           /\ st' = IF hit THEN Watch(k, n) ELSE st
    /\ lost' = lost \ {k}
    /\ rc' = IF short THEN [rc EXCEPT ![k] = [rc[k] EXCEPT !.cut = TRUE]] ELSE rc
    /\ writes' = writes + 1
    /\ UNCHANGED <<l4, mgr, repc, l1, downs>>

\* DELETE: the row and, if it has the value, its member.
DeleteRow(k) ==
    /\ writes < MaxWrites /\ row[k].n # 0
    /\ row' = [row EXCEPT ![k] = NoRow]
    /\ src' = IF row[k].hit THEN src \ {Member(k, row[k])} ELSE src
    /\ writes' = writes + 1
    /\ UNCHANGED <<lost, l4, mgr, near, st, downs>>

\* What time does to the row cache when a row expires: an entry that was given the
\* row's remaining TTL has ended by then, unless the row got less after that: the
\* entry's life is fixed when it is filled, and no write drops it.
Ends(k) == rc' = IF rc[k].bound /\ ~rc[k].cut THEN [rc EXCEPT ![k] = NoCache] ELSE rc

Expire(k) ==
    /\ k \in Mortal /\ row[k].n # 0
    /\ row' = [row EXCEPT ![k] = NoRow] /\ lost' = lost \cup {k}
    /\ Ends(k)
    /\ UNCHANGED <<src, l4, mgr, repc, l1, st, writes, downs>>

(***************************************************************************)
(* The controller: Manager.Tick is L4Manager.Tick, then the review of the  *)
(* candidates.                                                             *)
(***************************************************************************)
MStep == UNCHANGED <<hstore, near, st, writes, downs>>

\* Refresh reads the whole source, ZRANGE 0 -1, before it writes the replicas.
Refresh(pc, cold) == [pc |-> pc, i |-> 1, snap |-> src, cold |-> cold]

\* L4Manager.Tick: registryAll, sampledOps, the count of cold ticks, and Refresh.
L4Tick ==
    /\ mgr.pc = "idle"
    /\ LET cold == IF stat THEN 0 ELSE mgr.cold + 1
       IN  mgr' = IF reg = 0 THEN [IdleM EXCEPT !.pc = "review"]
                  ELSE IF cold >= ColdTicks THEN [mgr EXCEPT !.pc = "unlink", !.cold = cold, !.i = 1]
                  ELSE Refresh("eval", cold)
    /\ UNCHANGED l4 /\ MStep

\* DEL, ZADDs, PEXPIRE: a replica without members is no key.  A page of a dead
\* replica that is rebuilt before the page's EXISTS passes for an empty bucket;
\* downs bounds how often that happens.
Blinks(i) == ~rep[i].alive /\ \E x \in Streams : st[x].pc = "exists" /\ st[x].key = i

RefreshEval ==
    /\ mgr.pc \in {"eval", "aeval"}
    /\ Blinks(mgr.i) => downs < MaxDowns
    /\ downs' = IF Blinks(mgr.i) THEN downs + 1 ELSE downs
    /\ rep' = [rep EXCEPT ![mgr.i] = [alive |-> mgr.snap # {}, mem |-> mgr.snap]]
    /\ mgr' = (IF mgr.i < K THEN [mgr EXCEPT !.i = @ + 1]
           ELSE [mgr EXCEPT !.pc = IF @ = "eval" THEN "review" ELSE "register", !.snap = {}, !.i = 0])
    /\ UNCHANGED <<reg, stat, cand, hstore, near, st, writes>>

\* Deactivate: UNLINK of the replicas one by one, then HDEL.  The cached entry
\* it also drops is the one of the controller's own process.
Deactivate ==
    /\ mgr.pc = "unlink"
    /\ IF mgr.i <= reg
       THEN rep' = [rep EXCEPT ![mgr.i] = [alive |-> FALSE, mem |-> {}]] /\ mgr' = [mgr EXCEPT !.i = @ + 1] /\ UNCHANGED reg
       ELSE reg' = 0 /\ mgr' = [IdleM EXCEPT !.pc = "review"] /\ UNCHANGED rep
    /\ UNCHANGED <<stat, cand>> /\ MStep

\* review: Confirm (ZCARD, HDEL of the candidate), then Activate.
Review ==
    /\ mgr.pc = "review"
    /\ cand' = FALSE
    /\ mgr' = IF cand /\ Cardinality(src) >= L4Members THEN Refresh("aeval", mgr.cold) ELSE [mgr EXCEPT !.pc = "idle"]
    /\ UNCHANGED <<rep, reg, stat>> /\ MStep

\* The end of Activate: HGET, and HSET if the bucket is not registered.
Register ==
    /\ mgr.pc = "register"
    /\ reg' = K
    /\ mgr' = [mgr EXCEPT !.pc = "idle"]
    /\ UNCHANGED <<rep, stat, cand>> /\ MStep

MgrStep == L4Tick \/ RefreshEval \/ Deactivate \/ Review \/ Register

\* The controller stops; another one starts with no count of cold ticks.
MgrDown ==
    /\ "down" \in ReadFaults /\ mgr.pc # "down" /\ downs < MaxDowns
    /\ mgr' = [IdleM EXCEPT !.pc = "down"]
    /\ downs' = downs + 1
    /\ UNCHANGED <<l4, hstore, near, st, writes>>

MgrUp == mgr.pc = "down" /\ mgr' = IdleM /\ UNCHANGED l4 /\ MStep

\* 60 s without a refresh.
ReplicaLapses(i) ==
    /\ mgr.pc = "down" /\ rep[i].alive
    /\ rep' = [rep EXCEPT ![i] = [alive |-> FALSE, mem |-> {}]]
    /\ UNCHANGED <<reg, stat, cand, mgr>> /\ MStep

\* 60 s without a sample.
StatLapses == stat /\ stat' = FALSE /\ UNCHANGED <<rep, reg, cand, mgr>> /\ MStep

(***************************************************************************)
(* The near caches lapse.                                                  *)
(***************************************************************************)
CStep == UNCHANGED <<hstore, l4, mgr, st, writes, downs>>
RepcLapses == repc # NoEntry /\ repc' = NoEntry /\ UNCHANGED <<l1, rc>> /\ CStep
L1Lapses == l1 # <<>> /\ l1' = <<>> /\ UNCHANGED <<repc, rc>> /\ CStep
RcLapses(k) ==
    /\ rc[k].n # 0
    /\ rc' = [rc EXCEPT ![k] = NoCache]
    /\ UNCHANGED <<repc, l1>> /\ CStep

(***************************************************************************)
(* The stream.                                                             *)
(***************************************************************************)
Goes(x, r) == st' = [st EXCEPT ![x] = r]
RStep == UNCHANGED <<hstore, mgr, writes, downs>>

Now == {<<k, row[k].n>> : k \in {j \in Pks : row[j].hit}}
\* What the row cache may still say: the content of rows that did not expire, and of
\* those that expired on a TTL they were given after the entry was filled.
Lately == {<<k, rc[k].n>> : k \in {j \in Pks : (j \notin lost \/ rc[j].cut) /\ rc[j].n # 0 /\ rc[j].hit}}

\* buildBuckets: ReplicaFor, with its cache, and the sample.
Build(x) ==
    /\ st[x].pc = "build"
    /\ UNCHANGED <<rep, reg, l1, rc>> /\ RStep
    /\ LET k == IF repc = NoEntry THEN reg ELSE repc
       IN  /\ repc' = k
           /\ \E i \in (IF k = 0 THEN {0} ELSE 1 .. k) : Goes(x, [st[x] EXCEPT !.pc = "page", !.key = i])
    /\ \E hit \in BOOLEAN : stat' = (stat \/ hit) /\ cand' = (cand \/ hit)

\* Mutant: a pk that was seen is taken again.
DedupNone(page, seen) == page

\* The first member of every pk that was not seen yet.
Kth(S, i) == CHOOSE j \in S : Cardinality({h \in S : h < j}) = i - 1
Fresh(page, seen) == {i \in DOMAIN page : page[i][1] \notin seen /\ \A j \in 1 .. i - 1 : page[j][1] # page[i][1]}
Dedup(page, seen) == [i \in 1 .. Cardinality(Fresh(page, seen)) |-> page[Kth(Fresh(page, seen), i)]]

\* Where a stream goes when what it had to fetch is fetched: the next batch of its
\* list, the next page, or io.EOF.
Onward(s) ==
    IF s.items # <<>> THEN [s EXCEPT !.pc = "fetch"]
    ELSE IF s.list # <<>>
    THEN LET batch == Upto(s.list, PageRows)
         IN  [s EXCEPT !.pc = "fetch", !.items = [i \in DOMAIN batch |-> <<batch[i], 0, 0>>],
                       !.list = SubSeq(@, Len(batch) + 1, Len(@))]
    ELSE [s EXCEPT !.pc = IF s.more THEN "page" ELSE "done"]

\* Run: the L1 entry; or the L2 flight, which this session starts or joins.  The
\* empty list is Go's nil: the stream goes to the buckets as if nothing was cached.
Run(x) ==
    /\ st[x].pc = "idle"
    /\ LET s == [NoStream EXCEPT !.hist = Now \cup Lately]
       IN  CASE Covering -> Goes(x, [s EXCEPT !.pc = "build"])
             [] ~Covering /\ l1 # <<>> ->
                  Goes(x, IF l1[1] = <<>> THEN [s EXCEPT !.pc = "build"]
                          ELSE Onward([s EXCEPT !.cached = TRUE, !.list = l1[1]]))
             [] ~Covering /\ l1 = <<>> ->
                  st' = [st EXCEPT ![x] = [s EXCEPT !.pc = "wait"],
                                   !["flight"] = IF @.pc = "idle" THEN [NoStream EXCEPT !.pc = "build"] ELSE @]
    /\ UNCHANGED <<l4, near>> /\ RStep

\* A stream that has read the bucket to its end fills L1.
Fill(x) == l1' = IF st'[x].pc = "done" /\ ~Covering /\ ~st[x].cached THEN <<st'[x].collect>> ELSE l1

\* A page has arrived from a key that is alive.
Take(s, page) ==
    LET new == Dedup(page, s.seen)
    IN  [s EXCEPT !.page = <<>>, !.items = new, !.seen = @ \cup {new[i][1] : i \in DOMAIN new},
                  !.collect = IF Covering THEN @ ELSE @ \o [i \in DOMAIN new |-> new[i][1]],
                  !.more = Len(page) = PageRows,
                  !.cur = IF Len(page) = PageRows THEN @ + PageRows ELSE @]

\* collectEqPKs, the flight: the list goes into L1 and to all who wait for it.
\* Beyond L2Max they read on their own.
Collected(f) ==
    LET over == Len(f.collect) > L2Max
        got(s) == IF over \/ f.collect = <<>> THEN [s EXCEPT !.pc = "build"]
                  ELSE Onward([s EXCEPT !.cached = TRUE, !.list = f.collect])
    IN  IF f.more /\ ~over
        THEN Goes("flight", [f EXCEPT !.pc = "page", !.items = <<>>]) /\ UNCHANGED l1
        ELSE /\ l1' = IF over THEN l1 ELSE <<f.collect>>
             /\ st' = [x \in Streams |-> IF x = "flight" THEN NoStream
                                         ELSE IF st[x].pc = "wait" THEN got(st[x]) ELSE st[x]]

Taken(x, page) ==
    \E s \in {Take(st[x], page)} :
        IF x = "flight" THEN Collected(s) ELSE Goes(x, Onward(s)) /\ Fill(x)

\* One page of the bucket; a replica is asked whether it exists in the same
\* pipeline, after the page.
Page(x) ==
    /\ st[x].pc = "page"
    /\ UNCHANGED <<l4, repc, rc>> /\ RStep
    /\ LET s == st[x]
       IN  IF s.key = 0 THEN Taken(x, Zrange(src, s.cur))
           ELSE Goes(x, [s EXCEPT !.pc = "exists", !.page = Zrange(rep[s.key].mem, s.cur)]) /\ UNCHANGED l1

\* Mutant: the page of a dead replica is taken for the bucket.
ExistsTrusted(x) ==
    /\ st[x].pc = "exists"
    /\ Taken(x, st[x].page)
    /\ UNCHANGED <<l4, repc, rc>> /\ RStep

\* A dead replica: the source is read instead, from the same cursor.
Exists(x) ==
    /\ st[x].pc = "exists"
    /\ UNCHANGED <<l4, repc, rc>> /\ RStep
    /\ IF rep[st[x].key].alive THEN Taken(x, st[x].page)
       ELSE Goes(x, [st[x] EXCEPT !.pc = "page", !.key = 0, !.page = <<>>]) /\ UNCHANGED l1

\* Mutant: what the index says is not checked against the row.
MatchTrusting(r) == r.n # 0

\* Predicate.Match on a live row.
Match(r) == r.n # 0 /\ r.hit

After(s) == Onward([s EXCEPT !.items = Tail(@)])
Emit(s, k, r) == IF Match(r) THEN [s EXCEPT !.out = Append(@, <<k, r.n>>)] ELSE s

\* fetchRows, one row: the row cache, or HGETALL (and PTTL, to fill the cache).
\* gone: the row expires after the HGETALL, and PTTL says -2.
FetchRow(x) ==
    LET s == st[x]
        k == Head(s.items)[1]
        live == row[k].n # 0
    IN  IF rc[k].n # 0 THEN Goes(x, After(Emit(s, k, rc[k]))) /\ UNCHANGED <<rc, row, lost>>
        ELSE \E gone \in {FALSE} \cup {"late" \in ReadFaults /\ UseRowCache /\ live /\ k \in Mortal} :
             /\ Goes(x, After(Emit(s, k, row[k])))
             /\ rc' = IF UseRowCache /\ live
                      THEN [rc EXCEPT ![k] = [n |-> row[k].n, hit |-> row[k].hit, bound |-> k \in Mortal /\ ~gone, cut |-> FALSE]]
                      ELSE rc
             /\ row' = IF gone THEN [row EXCEPT ![k] = NoRow] ELSE row
             /\ lost' = IF gone THEN lost \cup {k} ELSE lost

\* fetchCovered, one row: the register says whether the row lives, the member
\* has the columns, and the predicate is checked on the bucket's own value.
FetchCovered(x) ==
    LET s == st[x]
        m == Head(s.items)
    IN  /\ Goes(x, After(IF row[m[1]].n # 0 THEN [s EXCEPT !.out = Append(@, <<m[1], m[3]>>)] ELSE s))
        /\ UNCHANGED <<rc, row, lost>>

\* fetchItems.
FetchItems(x) ==
    /\ st[x].pc = "fetch"
    /\ UNCHANGED <<src, l4, repc, mgr, writes, downs>>
    /\ IF Covering THEN FetchCovered(x) ELSE FetchRow(x)
    /\ Fill(x)

\* The result has been consumed.
Close(x) ==
    /\ st[x].pc = "done"
    /\ Goes(x, NoStream)
    /\ UNCHANGED <<l4, near>> /\ RStep

StreamStep(x) ==
    \/ Build(x) \/ Page(x) \/ Exists(x) \/ FetchItems(x) \/ Close(x)

HNext ==
    \/ \E k \in Pks, hit, short \in BOOLEAN : Commit(k, hit, short)
    \/ \E k \in Pks : DeleteRow(k) \/ Expire(k) \/ RcLapses(k)
    \/ MgrStep \/ MgrDown \/ MgrUp \/ StatLapses
    \/ \E i \in 1 .. K : ReplicaLapses(i)
    \/ RepcLapses \/ L1Lapses
    \/ \E x \in Sessions : Run(x)
    \/ \E x \in Streams : StreamStep(x)

\* Redis answers, goroutines run, the controller ticks, TTLs end.  Nobody need
\* ever ask again.
HFairness ==
    /\ \A x \in Streams : WF_hvars(StreamStep(x))
    /\ WF_hvars(MgrStep) /\ WF_hvars(RepcLapses) /\ WF_hvars(L1Lapses)
    /\ \A i \in 1 .. K : WF_hvars(ReplicaLapses(i))
    /\ \A k \in Pks : WF_hvars(RcLapses(k))

HSpec == HInit /\ [][HNext]_hvars /\ HFairness

(***************************************************************************)
(* Properties.                                                             *)
(***************************************************************************)
Members == Pks \X Nat \X Nat
Buckets == {S \in SUBSET Members : IsFiniteSet(S)}
StreamPcs == {"idle", "wait", "build", "page", "exists", "fetch", "done"}
StreamT == [pc : StreamPcs, key : 0 .. K, cur : Nat, page : Seq(Members), more : BOOLEAN, seen : SUBSET Pks,
            list : Seq(Pks), cached : BOOLEAN, items : Seq(Members), collect : Seq(Pks),
            out : Seq(Pks \X Nat), hist : SUBSET (Pks \X Nat)]

\* The types of the store, the caches, the replicas and the streams; a bucket is finite,
\* and what waits to be fetched is no longer than a batch.
HTypeOK ==
    /\ row \in [Pks -> [n : Nat, hit : BOOLEAN, iv : Nat]] /\ lost \in SUBSET Pks /\ src \in Buckets
    /\ rep \in [1 .. K -> [alive : BOOLEAN, mem : Buckets]] /\ reg \in {0, K} /\ stat \in BOOLEAN /\ cand \in BOOLEAN
    /\ mgr \in [pc : {"idle", "review", "unlink", "eval", "aeval", "register", "down"}, i : Nat, snap : Buckets, cold : Nat]
    /\ repc \in {0, K, NoEntry} /\ l1 \in Seq(Seq(Pks)) /\ Len(l1) <= 1
    /\ rc \in [Pks -> [n : Nat, hit : BOOLEAN, bound : BOOLEAN, cut : BOOLEAN]]
    /\ st \in [Streams -> StreamT] /\ \A x \in Streams : Len(st[x].items) <= PageRows
    /\ writes \in Nat /\ downs \in Nat

\* No stale layer shows through: a row that a query returns had, at some moment of
\* the query, the value that was asked for and the content that was returned; with
\* the row cache, the content may be what was cached when the query began, but not
\* that of a row that had expired by then, except on a TTL that was set or shortened
\* after the entry was filled (rowcache.go says "an expired row is never returned").
ReadsSound == \A x \in Sessions : \A i \in DOMAIN st[x].out : st[x].out[i] \in st[x].hist

\* No row is returned twice: not when a replica dies between two pages and the
\* source is read from the replica's cursor, nor when a row's old and new members
\* are both in the bucket.
ReadOnce == \A x \in Sessions : \A i, j \in DOMAIN st[x].out : st[x].out[i][1] = st[x].out[j][1] => i = j

\* No layer hides a row for ever: if a row keeps the value, then from some time on
\* every query that ends has returned it, whatever lists and replicas were made
\* before it was written, and although replicas die unrefreshed with their
\* controller while the registry still sends readers to them.
Found ==
    \A k \in Pks :
        <>[](row[k].hit) =>
            <>[](\A x \in Sessions : st[x].pc = "done" => \E i \in DOMAIN st[x].out : st[x].out[i][1] = k)
=============================================================================
