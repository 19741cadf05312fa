# Verification of KiDB

KiDB is a MySQL-protocol gateway (go-mysql-server, "gms") over a sharded Redis. It has no
transactions across slots: a row, its index buckets, its expiry register, the catalogue and the
governance documents live in different slots, each command or Lua script is atomic in its slot
only, and everything else is ordered by protocol. This project models those protocols in TLA+,
checks them with TLC, and proves the safety of most of them with TLAPS: the row-write protocol
and the sweeper, the unique constraint under concurrent statements, bucket splits and merges, the
asynchronous index and the backfill of a new one, the life cycle of tables, the equality lookup behind
its caches, the reconciler and the lease of the controller election.

Source paths are relative to the repository root (`src/` in `PROJECT.json`).

## 1. Inventory

| Component | State it keeps | Operations | Interacts with | Module |
|---|---|---|---|---|
| Row write protocol, `txguard/txguard.go`, `script/lua/write_row.lua` | row hash (`_ver`, `_iv:{idx}`, columns, TTL), receipt hash | `WriteRow`, `DeleteRow`: pre-read, unique reservation, row Lua, index pipeline; at most `stale_retries` attempts | BucketMap routing, retrying client, register, async log | `RowWrite` |
| Unique reservations, `txguard.go` | `u:{table}:{idx}:{val}` with PX 24 h | reserve, verify against the buckets, take over a dead owner, release, roll back | write protocol, sweeper | `Statements` |
| Row editors, `engine/editors.go` | none | INSERT, UPDATE, DELETE over `WriteRow` and `DeleteRow` | write protocol | `Statements` |
| Retrying client, `kv/retry_client.go`, `kv/retry.go` | none | repeats `Do`, `Pipeline`, `Eval` on transient errors | everybody | in each |
| Expiry sweeper, `sweeper/sweeper.go`, `sweep_batch.lua`, `gateway/roles.go` | register lock | find due pks, read receipts, death check and receipt delete in one Lua, client segment | write protocol | `Sweep` |
| BucketMap, `bucketmap/bucketmap.go`, `bucket_state_cas.lua` | one document per index; a cache per process; registry of hot values | routing of writes and reads, version CAS | writers, readers, controller | `BucketSplit`, `RangeScan` |
| Split and merge, `controller/split.go` | locals; progress is in the document | `SplitEq`, `MergeEq`, `SplitRange`, `MergeRange` | BucketMap, buckets, registry | `BucketSplit`, `RangeScan` |
| Manager, telemetry, `controller/manager.go`, `telemetry/telemetry.go` | candidates, sample counters | review candidates, decide on split or replicas | split, L4 | `HotRead` |
| Election, `controller/elector.go`, `lock_renew.lua`, `lock_release.lua` | lock with TTL, vacancy clock | campaign, renew, concede, release | every controller role | `Elector` |
| Reconciler, `controller/reconcile.go` | locals of a page | compare a sample of rows with register and buckets; remove members with another stamp, enter missing rows | all of the above | `Reconcile` |
| DDL and its jobs, `engine/ddlexec.go`, `controller/jobrunner.go`, `controller/dropjob.go` | job documents with cursor | create and drop index, backfill, create and drop table, clean-up | catalogue, write protocol | `IndexBuild`, `TableLife` |
| Catalogue and lease, `meta/*.go`, `catalog_set.lua` | definitions, schema version, per-process cache and lease | load, CAS, lease check, invalidate | everybody | `IndexBuild`, `TableLife` |
| Asynchronous indexer, `indexer/indexer.go`, `gateway/roles.go` | change log, dead letters | `ConsumeLog`: LRANGE, apply, LTRIM | write protocol | `AsyncLog`, `SyncIndex` |
| Hot-bucket replicas, `controller/l4.go`, `replica_refresh.lua` | replicas, registry entry | activate, refresh, give up, resolve | read path | `HotRead` |
| Equality reads and caches, `exec/exec.go`, `nearcache/*.go` | paging cursors, L1 list, L2 flight, row cache | scatter, page, verify | BucketMap, L4 | `HotRead` |
| Range reads, `exec/topk.go` | merge heap and cursors | seed, pop, refill, verify | BucketMap | `RangeScan` |
| Translation of lookups, `engine/translate.go`, `index.go`, `indexsearchable.go` | none | gms ranges to requests and predicates | gms, read path | `Lookup` |
| Codecs, sessions, wiring, generated code | none of their own | | | |

What is hard in this system:

* **Interleaving.** The index segments of writes of one row execute in any order, against
  each other and against later commits of the row (`txguard.go:293`).
* **Incarnations.** A row that is deleted or expires loses `_ver`; the next one starts at 1
  and its members and version checks look like the old one's. The same holds for a table that
  is dropped and created again.
* **Partial failure.** Two segments, two slots, no rollback: the row Lua is committed when
  the index pipeline fails, the receipt is gone when the sweeper's client segment fails, the
  job is listed when the catalogue entry is still there.
* **Check, then act.** Reservations, INSERT's look at the row, the reconciler's page and the
  sweeper's receipt are read in one command and acted upon in another.
* **Stale copies.** Writers route by a document and a definition that are a cache TTL old;
  readers are served from pk lists, replicas and cached rows.
* **Leases without fencing.** The sweeper's lock is never renewed; the controller's role
  goroutine outlives its lock.
* **Offset paging** over sets that change: backfill, drop job, scans.

What makes it correct: a live row is found by every index lookup (superfluous members are
tolerated because rows are checked again on reading); the register knows every live row; an
expired row's members can be found and removed; updates are not lost; a unique value has one
live row; splits, merges, backfills and drops lose nobody and leave nothing; a scan returns
each row once, in order; calls, sweeps, splits and jobs end. The `hazards` of `PROJECT.json`
list, line by line, where each of these could fail.

## 2. Modules

| Module | Models | EXTENDS or INSTANCEs |
|---|---|---|
| `RowWrite` | `WriteRow`, `DeleteRow`, `write_row.lua`, `buildIndexOps`, re-sends, expiry | |
| `Sweep` | `SweepShard`, `sweep_batch.lua`, the register lock, beside the writers | `RowWrite` |
| `SweepProofs` | theorems about `RowWrite` and `Sweep` | `Sweep`, TLAPS |
| `Statements` | INSERT, UPDATE, DELETE and the unique reservations, beside a sweeper | |
| `StatementsProofs` | theorems about `Statements` | `Statements`, TLAPS |
| `BucketSplit` | `SplitEq`, `MergeEq`, routing, document cache, version CAS | |
| `BucketSplitProofs` | theorems about `BucketSplit` | `BucketSplit`, TLAPS |
| `RangeScan` | `SplitRange`, `MergeRange`, range routing, the ordered merge of a lookup | `Lookup` |
| `Lookup` | from gms ranges to requests, predicates | |
| `HotRead` | equality lookup behind L1, L2, L4 and the row cache; L4 manager | |
| `ReadProofs` | theorems about `HotRead`, `RangeScan` and `Lookup` | `HotRead`, `RangeScan`, TLAPS |
| `AsyncLog` | change log and its consumers | instance of `SyncIndex` |
| `SyncIndex` | abstract: an index that each statement maintains at once | |
| `AsyncLogProofs` | the refinement of `SyncIndex`, step by step | `AsyncLog`, TLAPS |
| `IndexBuild` | CREATE and DROP INDEX, backfill job, definition cache | |
| `IndexBuildProofs` | theorems about `IndexBuild` | `IndexBuild`, TLAPS |
| `TableLife` | CREATE and DROP TABLE, clean-up job, catalogue cache and lease | |
| `TableLifeProofs` | theorems about `TableLife` | `TableLife`, TLAPS |
| `Reconcile` | the reconciler's page beside writers and sweeper | |
| `Elector` | the controller election: lock, watchdog, role, release, failures of nodes, time | |
| `ControllerProofs` | theorems about `Elector` and `Reconcile` | `Elector`, `Reconcile`, TLAPS |
| `MC...` | values of constants and symmetry sets for TLC | the module of that name |

The protocols meet in Redis keys only, so each module models one of them in full and reduces
its neighbours to what they do to those keys: `RowWrite` has every command of a row's pipeline
and `Statements`, `TableLife`, `HotRead` take the pipeline as one step; `BucketSplit` has late
writers, torn batches and concurrent splitters and `RangeScan`, whose protocol is the same
over intervals, has not; `Reconcile` and `IndexBuild` split a statement where its commit and its
index segment come apart. `Sweep` is the composition of sweepers with the whole of `RowWrite`.

### RowWrite

One primary key, one synchronous equality index, any number of clients. `row`, `rcpt`, `idx`
and `exp` are the row hash, the receipt, the members in the buckets and the register entry. A
member `pk 0x1f ver` in the bucket of value `v` is the pair `<<v, ver>>`. Per client, `pc`,
`snap`, `rsnap`, `tries` and `sends` are the locals of the call; `rem`, `add` and `reg` are
the commands of its pipeline that have not been executed yet.

| Action | Code |
|---|---|
| `StartWrite`, `StartDelete` | entry of `WriteRow` / `DeleteRow` |
| `Preread`, `DeleteNothing`, `ReadReceipt`, `CasMismatch` | HGETALL row, early return of a delete, HGETALL receipt (`mergeReceiptUndo`), `ExpectedOldVer` |
| `RowLua`, `RowLuaReplyLost`, `Stale` | the Eval of `write_row.lua`: commit; commit with the reply lost and the Eval repeated; version mismatch |
| `Zrem`, `Zadd`, `Register`, `Resend`, `Done` | the commands of the pipeline one at a time, `WithRetry`, return |
| `GiveUp`, `SegmentLost` | errors before the commit; failure or process death after it |
| `ExpireRow`, `ExpireReceipt` | Redis TTL of the row; of the receipt `receipt_grace_ms` later |

Commands of one pipeline on the same bucket keep their list order (ZREMs first), commands on
different buckets do not. `Redos`, `Undos`, `Receipts` are the three lists of
`buildIndexOps`. Time is abstract: a row with a TTL may expire at any moment.

History variables: `inc` counts the births of the row, `seen` is the incarnation a call was
prepared for, `overlap` says that the current incarnation has met commands prepared for another
one, `fault` that one of its commits lost its index segment. The properties are about rows
without `overlap`; section 5 shows that the condition is needed.

### Sweep

Extends `RowWrite` with `Sweepers`. `TakeLock` / `LockLapses` are SET NX PX and its expiry (the
code never releases or renews the lock), `Find` is ZRANGEBYSCORE (the score comes from the
writer's clock, so a live row may be found), `ReadRcpt` the receipt pipeline, `SweepBatch` the Lua,
`CleanMember` / `CleanRegister` the client segment, `SweepResend` / `SweepFails` its failures.
History: `late` (the row was born while a sweep of its predecessor was in its client segment),
`raced` (the row changed or died inside another call's index segment, or was born inside a
sweep's), `orphaned` (a receipt went away without its members being removed, or never learned of
them because a commit lost its index segment).

### Statements

`row`, `rcpt`, `bucket`, `resv` and `seq` are the keys of a table with one UNIQUE column;
`call[c]` is the statement of a session with the locals of `editors.go` and `txguard.go`. A
statement passes through `ReadExisting` (INSERT), `Preread`, `ReadReceipt`, then the reservation:
`Reserve` (SET NX PX), `GetOwner`, `OwnerAlive` (EXISTS), `TakeOver` (DEL, then SET NX again
in `RetryReserve`), `VerifyBucket` and `VerifyMembers` (`verifyBucketExclusive`), with
`ReserveError` and the rollback (`Fail`) on the way out; then `RowLua`, `IndexPipeline` and the
release of the old value, `ReleaseGet` and `ReleaseDel`, two commands. `Retry` is the stale
loop, `RowTooLarge` the early return of `checkRowSize`, `DeletePreread` / `DeleteLua` /
`DeleteIndex` a DELETE or the first half of a key change, `SweepRead` .. `SweepDel` the
sweeper. `Looks` is what `verifyBucketExclusive` sees of the value's members: `VerifyMax` of them (ZRANGE 0 63), and
any part when the document cannot be loaded (bucket 0). Faults: a lost pipeline, a lost release, a reservation error, a row too large, a
reservation that lapses, a document that is not loaded. History: `breach` (a reservation was deleted under a write that relies
on it, the window docs/05 declares, or was relied on unverified by a second write of its row, or a verification did not
see the live row that has the value),
`clash` (two actors on one row), `aba`, `fault`, `births`.

### BucketSplit

One hot value of an equality index. `doc` is the persisted document reduced to the entry of this
value (`b`, `st`, `p`, `c` are Buckets, State, Parents, Children) with `ver` and `next`; `cache`
is what each writer has loaded; `hot` the hot-value registry. A pk is its hash, because
routing looks at nothing else. `Put` and `Away` are writes that set the value or replace
it: the row commit and the list of commands, which `WriterZadd` / `WriterZrem` execute. A splitter
runs `LoadFresh`, `CasNext`, `Reload`, `CasBusy`, then migrates (`Page`, `Exists`, `MoveAdd`,
`MoveRem`, `MoveDone`), marks the entry (`Mark`, `CasDrain`), drains until the clock is over
(`PassDone`, `TtlOver`, `GraceOver`), unlinks (`Unlink`) and finishes (`ReloadFinal`, `CasFinal`,
`RegisterHot`). Every `CAS` may fail and lead to the next attempt (`Again`), `Crash` is the
death of the controller. A row that expires (`Die`) may be born again, and its stamps start over: history `hit` has the rows
that were born while a ZREM of the same member was due (`Due`), in a writer or in a batch that had found the row's
earlier life dead.

Assumptions of the drain phase are explicit. `Timely` says that a write does not live longer than
the cache TTL after it loaded the document, which the comment at `split.go:140-142` takes for
granted; without the fault `longpass`, that a whole pass over the source buckets is shorter than
the grace margin; without `cut`, that a batch's pipeline is executed completely. Section 5 says
what happens without them.

### Lookup and RangeScan

`Lookup` has no state. `RangeBound`, `StrRange`, `DedupSortValues`, `SortRangeBounds`,
`FullScanFallback`, `TranslatePoints` and `TranslateLookup` are the functions of
`translate.go`; `CanSupport` and `PrefixRangeBounds` of `index.go`; `LikePrefix` is what
`LookupForExpressions` builds; `PredicateMatch`, `Contains` and `StrContains` are the predicates
of `exec.go`. The reference is the meaning of the cuts in gms (`Wanted`), NULL included: it lies
between BelowNull and AboveNull, and a row that is NULL has no member in any index. `Exact` says that a request returns
the rows that are wanted and have a value, and no row that is NULL. Scores are even numbers, so that `math.Nextafter` is one more;
strings are short sequences of bytes; the coding of values is left out, so `DedupSortValues`
compares values, as the code does after decoding.

`RangeScan` has the document of a range index (`ranges`, `next`), the registry (`hot`), the
buckets (`bk`), a splitter (`sp`) and a query (`sc`). `Write` is a statement that routes by
`WriteTargetsRange`; `CasNext` .. `RegisterHot` are the steps of `SplitRange` and `MergeRange`,
`Crash` may end them anywhere and the next `Begin` resumes; `RunRange`, `Route`, `Seed`, `Step`,
`Fetch` are the lookup: `initRoutes`, `rangeBucketsFor`, the seed round, a batch popped and the
ways refilled, dedup and row check. `docs` are the documents that the Store's cache may still hold: all since the last
drain, which outlasts the cache. `RangeBucketsFor` routes an interval by any of them, or to bucket 0, as the code does
when the registry or the document cannot be read or the index is not registered. Ties in the heap are broken any way. History in `sc`: `must` are
the rows that a complete result has, `moved` that a member left a bucket while the query ran, `stale` that an interval
was routed past a bucket that the current document has for it, `wide` that an
interval was read from more than one bucket, `stray` that a member which was left behind has returned its
row in a place that is not the row's. The document's list is a set of buckets, as no routing depends on its
order: where `MergeRange` takes the first of several right neighbours (all but one of them are empty
intervals), the model takes any.

`Careful` says which merges are asked for: of a bucket and its right neighbour that are both ACTIVE, or
again the two of a merge that was interrupted. `MergeRange` looks at the state of the left bucket only. Nothing
in `src/` calls it outside tests, so who would have to take care is open.

### HotRead

One value in one bucket (`src`), its replicas (`rep`), the registry entry (`reg`) with the
gateway's cache of it (`repc`), the sample counter and candidate set, the L1 list, the row
cache and the streams: one per session and one for the L2 flight. `Run`, `Fill`, `Page`,
`Exists`, `Take`, `FetchRow` / `FetchCovered`, `Close` are the stream of `exec.go`: L1, the shared collection with its
cap, pages from a replica with the EXISTS that guards it and the fall back to the source at the
same cursor, the row check. `Review`, `Register`, `L4Tick`, `RefreshEval`, `Deactivate` are
the manager and the L4 tick, `MgrDown` / `MgrUp` its death and return, the `...Lapses` actions
the lifetimes. An entry of the row cache lives for the TTL that the row had when it was read (`bound`); a write that
leaves the row a shorter one (`Commit` with `short`) does not touch it (`cut`), and then the row ends before its entry (`Ends`).
A stream's `hist` is what its answer may contain.

### AsyncLog and SyncIndex

`Write`, `Delete` append an entry with the old and the new value to the bounded `log` in the row's Lua; in an entry NULL
and the empty string are the same (`EscLogField`). A write on a full log fails; a delete does not notice (`DeleteFull`). Any
number of consumers, without a lock, do `ReadLog`, `Apply` (also in part and twice, `ApplyTwice`), `Trim` by count, `Abandon`, or
`ApplyFails`: then the batch goes to `dlq`, if that RPUSH does not fail as well, and is trimmed all the same. History `sound`: no batch failed for good,
and no consumer applied or trimmed after another had trimmed its entries.
`SyncIndex` is the abstract index, where a statement changes row and member together; it promises nothing
once `sound` is gone. The
refinement mapping takes `idx` to be the bucket with the pending log replayed: a
statement is one abstract step and everything a consumer does is a stutter. `ReplayAll` says which
members a replay leaves: those that an entry adds and no later one removes, and those of the bucket
that no entry removes. `MCAsyncLog` compares it with the fold of the consumer's step over every
short log (`ReplayInOrder`).

### IndexBuild, TableLife

In `IndexBuild` the index is `none`, `building` or `visible` in the catalogue; `cached` says whether a
gateway's definition has it. `CreateIndex` .. `SetFirstJob` and `DropIndex` .. `Unlink` are the DDL
statements command by command, `TakeJob`, `ScanPage`, `ReadRows`, `AddMembers`,
`StoreCursor`, `Finish`, `ClearJob` a tick of a job runner; two leaders may be at it. An empty page stores the cursor of the
next shard (`NextShard`), and the tick may end there; the next one finds no shard left and finishes. `CountRows` may find no row in a
table that has some: ZCOUNT from now leaves out those in the last second of their TTL, as scores are cut to seconds. A leader
that crashes is one whose steps are not taken any more. History: `blind` (rows written through a
definition without the index, also those between commit and segment when the index enters the
catalogue and those that the count left out), `old` (statements that were between commit and segment when their row was deleted and
inserted again), `reborn` (rows that the commands of such a statement have hit, or that replaced the
one a commit was prepared for), `shifted` (an entry left the register below the offset of a job), `stray` (the index was dropped
under its job).

In `TableLife` the keys of a table name outlive the table: a row's `gen` says which CREATE it
belongs to, and nothing in the store does. `Create...` and `Drop...` are the statements
command by command, `GetLease`, `GetDef`, `WriteRow` a write through the cached catalogue, `ListJobs` .. `ClearJob` a tick of the drop
job, which two controllers may run at once, `Crash` and `CrashLeader` their deaths. `CreateBlind` and `DropBlind` are the statements that go
on when the list of jobs cannot be read. A DROP of few rows (by `RowCount`, which may miss rows in their last second) reads the
register page by page, by offset, and deletes each page before it reads the next (`DropPage`, `DropRow`, `DropPageDone`). A row is `late` when it
was written while a DROP ran or through a stale definition, the window the docs declare. History: `raced` (a CREATE saved over
a job it had not seen, or a job was cleared under another controller), `jumped` (the DROP's offset went past an entry that no page had
returned).

### Reconcile

`Start`, `Commit`, `Segment`, `Register` are a statement in its segments, which may `Die` between them;
`Expire` and `SweepRow` are the neighbours. `Sample`, `ReadRows`, `CheckMembers`, `ReadBuckets`, `Clean`,
`Orphans`, `Unregistered`, `ReadTTL`, `Enter` are the commands of `ReconcilePage` in order. A bucket is read up to rank
`BucketRows` (ZRANGE 0 63). `Old` are rows from before the index, which have no `_iv`.

### Elector

`lock` and `left` are the value of `lk:ctrl` and its remaining PX; a node is its token. Per node,
`pc` is where `Campaign` is, `ctx` the role's context, `wd` the watchdog with its ticker (`pend`)
and the timeout of a renewal (`late`), `old` counts role goroutines that `runRole` left behind.

| Action | Code |
|---|---|
| `WakeUp`, `Acquire`, `Denied`, `AcquireFails`, `Granted` | the contest: backoff over, SET NX PX with its outcomes (also executed with the reply lost), start of the term |
| `Concede`, `Renew`, `RenewOk`, `RenewRefused`, `RenewFails`, `WatchdogStops` | `runWatchdog` and `lock_renew.lua` |
| `RoleReturns`, `OldRoleEnds`, `Stopped` | `runRole`, the role's own end, `<-watchDone` |
| `Release`, `ReleaseFails`, `LateRelease` | `release` and `lock_release.lua`; a release that timed out may be executed later |
| `Shutdown`, `Exit`, `Crash`, `Restart` | the life of the process; a new process has a new token |
| `Tick`, `Stall` | a third of the TTL passes, in time or with a deadline missed |

Time is counted in thirds of the TTL, the unit of every deadline in `elector.go`: the ticker, the
timeout of a renewal and the timeout of a release are `ttl/3`. `Tick` waits until what is `Overdue`
has been handled; `Stall` does not and sets the history variable `untimely`, as does a late
release that hits a new term. How long a campaigner sleeps only delays its next attempt.

## 3. Runs

| Run | Instance | Shows |
|---|---|---|
| `RowWrite` | 2 clients, 2 values, 2 calls, all TTL modes, CAS callers, every fault | `IInv` (the inductive invariant of the proofs), `TypeOK`, `NoMiss`, `Registered`, `ReceiptCoversRow`, `NoLostUpdate`, `VersionsGrow` |
| `Sweep` | 1 client, 2 sweepers, 2 calls, faults `sweep`, `grace` | `SweepSpares`, `SweptClean`, `EventuallySwept` |
| `Statements` | 2 sessions, 2 pks, 2 values, 2 statements of any kind, one fault of each kind or one lapse, verifications that see one member or a part, one id left in `seq` | `UniqueHeld`, `NoStrayReservation`, `InsertSpares` |
| `Split` | 2 pks, 1 writer, 1 splitter, 2 splits or merges, an expiry with rebirth, crashes | `NoneLost`, `NoOrphans`, `Settles` |
| `RangeScan` | 3 rows, 3 scores, an INSERT or DELETE, 3 splits or merges with crashes, a query of x <= 4 or of two intervals backwards, routed by any cached document or to bucket 0; all lookups of up to two ranges over 3 scores or 3 strings, with rows that are NULL | `LookupRight`, `OneHome`, `Homed`, `ScanOnce`, `ScanComplete`, `OrderedAlone` |
| `RangeOrdered` | 3 rows that nobody writes, splits before the query, a query of the whole axis | violation of `Ordered`: the finding of section 5 |
| `HotRead` | 2 pks, one of them with a TTL, a session with its L2 flight, a replica, pages of one row, a write, which may shorten the TTL, one failure of the controller | `ReadsSound`, `ReadOnce`, `Found` |
| `AsyncLog` | 2 pks, 2 values, NULL and the empty string, 3 statements, batch 2, log of 2, two consumers, one fault | `ImplementsSync` (refinement of `SyncIndex`), `EventuallyIndexed` |
| `IndexBuild` | 2 pks, 2 values, 3 statements (at most 2 writes, 2 DDL), 2 leaders, pages of one | `IndexComplete` |
| `TableLife` | 2 sessions, 2 controllers, 2 pks, 2 statements, a crash or a list of jobs that fails, pages of one | `NoLeak`, `NoGhosts`, `JobSpares`, `JobEnds` |
| `Reconcile` | 2 writers, 2 pks, one older than the index, 2 values, 2 writes, one of which may die half-way, a page of 2 rows, 2 members of a bucket | `ReportsTrue`, `Reported`, `Heals` |
| `ElectorSafe` | 2 nodes, 1 abandoned role per node, 3 failures | `LeaseInv`, `ActiveHoldsLock`, `DeposedStops`, `WorkResumes` |

Every module states its type invariant (`TypeOK`, `STypeOK`, `HTypeOK`, `RTypeOK`, `ETypeOK`). All are
proved, that of `Elector` as part of `LeaseInv`.

`RangeScan` also passes with the query of the whole axis in place of x <= 4 and with an UPDATE of row 2 beside
INSERT and DELETE (3.2 million states).

Deadlock is checked in `ElectorSafe`. In the others it is not: statements, versions and splits are
bounded, so a model that has used them up is at rest, which is a legal state of the system
(nobody has to send a statement).

**Bounds.** The conflicts of these protocols are between two actors, so two clients, sessions,
sweepers or leaders are enough to meet each of them; the proofs are for any number. Two values
distinguish "changed" from "unchanged" and NULL or "no row" is a third case. `StaleRetries = 2`
has a retry and a last attempt, `MaxAttempts = 2` one re-send. A split needs two pks to separate,
a merge two buckets to join; `Batch`, `PageRows` and `RefillPage` of one make every page
boundary happen with two rows, `Batch = 2` gives full and short pages. `MaxIdx` bounds the
bucket indices: `Begin` does not start an operation for which no indices are left. `MaxVer`,
`MaxCalls`, `MaxStmts`, `MaxWrites`, `MaxDdl`, `MaxOps`, `MaxSteps`, `MaxBegins` and `MaxScans` bound the
number of operations, `MaxFaults`, `MaxDeaths` and `MaxDowns` the number of failures. In `Sweep` two calls let a row be
written, die and be born again under two sweepers. In `Split` the one death lets a row be born again under a split; with `MaxVer = 2` a row is written
at most twice in a life, so that `Settles` meets late writes in every pass but not writers that go on for ever; what ends
the drain is its deadline. In `TableLife` the table and its rows are there at the start, so that two statements are a DROP and a CREATE, or a DROP
and a late write. Three runs stop where their properties promise nothing any more: `IndexBuild` (`Promised`), `AsyncLog` (`Sound`), `TableLife`
(`Unraced`, so that `JobEnds` too is checked up to a race only). `MaxBoth` bounds statements and DDL statements of `IndexBuild` together. Clients, sessions, leaders and values are symmetric where a run
checks only safety; pks are not, as they have an order or are hashes. In the election two
nodes contend, and three failures allow, for instance, a late release into a new term and a
crash of the other node.

**Fairness.** Weak fairness of the steps of a client, sweeper, splitter, consumer, stream or
job runner: goroutines run, and every Redis request is answered or ends with an error by its timeout. Weak
fairness of lifetimes (`LockLapses`, `CacheLapses`, `TtlOver`, `GraceOver`, `ReplicaLapses`,
`RepcLapses`, `L1Lapses`, `RcLapses`): clocks run. In `Reconcile` the page is a whole register
(`PageRows = 2`), so that weak fairness of its steps suffices: `Reported` and `Heals` say nothing about a register larger than the page, which
the code samples at random. In `TableLife` some controller goes on; in `AsyncLog` each consumer does. No fairness for starting statements, for
faults or for the expiry of rows. For the election: weak fairness of `Tick` and of each
goroutine; strong fairness of `WatchdogStops`, because Go's `select` picks at random and does not
prefer the ticker to a cancelled context for ever; nobody has to restart a node. `Settles` rests on the deadline of the
drain loop; `JobEnds` on the forced sweep of expired rows.

**Mutants.** Each property of each passing run is violated by a small change of a definition in
the model (the `Mutant:` operators): a missing `_iv`, an unchecked version, a receipt that lists
only what changed, a reservation that is trusted without a look at the bucket, a DROP
that reads one page, a replica that is not asked whether it lives.

## 4. Proofs

The first part of `SweepProofs` proves, about `RowWrite` and for any sets of clients and values, any retry limits, any number of
calls and every combination of faults, from the assumptions stated in `RowWrite` only:

* `Invariance`: `Spec => []IInv`;
* `TypeCorrect`, `RowsStayIndexed`, `RowsStayRegistered`, `ReceiptsCoverRows`, `NoUpdateIsLost`:
  the safety invariants `TypeOK`, `NoMiss`, `Registered`, `ReceiptCoversRow`, `NoLostUpdate`;
* `StampsGrow`: the action property `VersionsGrow`.

`NoMiss` is not inductive: that a pending ZREM cannot name the current member depends on
what the pending command was made from. `IInv` adds

* `RowShape`: an absent row has version 0, a stamp is never above the version, a clean row with
  a value has a stamp;
* `SnapShape`: a snapshot of the current incarnation is the row itself or an older version of it,
  and equal versions mean equal rows: this is why the Lua's version check makes the
  precomputed lists right;
* `SegmentShape`: pending commands are among those computed from the snapshot, and a ZREM that
  precedes a ZADD on its bucket leaves that ZADD pending;
* `UndoIsOlder`: while a clean row lives, every pending undo is stamped below the row's member,
  except that a birth that undoes a receipt may name its own new member, which it then adds.

Each action is a lemma of its own; the step lemmas share lemmas about `Undos`, `Redos` and
`Return`.

`ControllerProofs` proves, for any set of nodes and any number of failures, `LeaseInvariance`
(`ESpec => []LeaseInv`) and from it `LeaseIsSound` (`ESpec => []ActiveHoldsLock`): while deadlines are
kept, a role that was not told to stop has the lock. `ActiveHoldsLock` is not inductive, as time
may run out under it. `Covered` says for each phase how much of the TTL is left: three thirds while
the watchdog waits for its ticker, two when the ticker has fired or the renewal is in flight, one when
the renewal is past its timeout; and that a context or a watchdog exists only during a
term. A step of another node changes the lock only when it is free or that node's own
(`OtherNodes`), the node's own steps keep the cover (`OwnSteps`), and a third may only pass when nothing is
overdue (`TimePasses`). A step that sets `untimely` has nothing to show.

The second part of `SweepProofs` adds any number of sweepers and proves `SweepSparesLiveRows` and
`SweepLeavesNothing`, the invariants `SweepSpares` and `SweptClean`, and `SweepTypeCorrect`. It takes
over the part `Base` of `IInv` that the sweepers do not touch: a writer's step preserves it by the
lemmas of the first part, a sweeper's step has only the effects that `SweepEffect` lists.
`SweptClean` relates the index to the register, and nothing in one step ties the two together: `Tidy` says where
every member is accounted for (it is the live row's, or on the dead row's receipt, or on the list of a
pipeline or sweep that is under way), that a receipt is the current row's, and that the register knows
every live row and every receipt. `Tidy` is what a race in an index segment or a lost receipt
destroys, so the invariant is `raced \/ orphaned \/ Tidy`.

`StatementsProofs` proves, for any sessions, rows, values, statements and retries, with every
failure and the lapse of reservations, `ReservationsKeepUnique` and `ReservationsGivenBack` (the
invariants `UniqueHeld` and `NoStrayReservation`), `InsertSparesRows` (the action property
`InsertSpares`) and `StatementsTypeCorrect`. The first two are for `PlainKeys`, which says that no value is
in `Escaped`: section 5 has the counterexample for the others. `IInv` has three parts, each under
the condition it needs: `Base`, always; `Unique`, until a reservation is deleted under a write
or a verification misses the rival, or a fault other than a lapse happens (`Unbroken`); `Tidy`, until two actors meet on one row (`Apart`).

* `Base` has types, the shape of a statement's locals, `SnapShape` (a snapshot is the row or an older
  version of it, so that a commit that passes the version check was prepared for the row it finds, or
  `aba` records the opposite) and `BornShape` (a row at the key that a statement is to write is
  younger than its `readExisting`, through the delete half of a key change as well), which is `InsertSpares`.
* `UniqueHeld` says nothing about reservations. `Reserved` and `Clear` say that a statement past the
  check has the reservation and that no other row has the value; `Trusted`, that a reservation anybody
  finds stands for a free value, unless its own statement has yet to verify it; `Seen`, that the members
  which `verifyBucketExclusive` has read name every rival; `Indexed`, that a row is in the bucket of its
  value, unless its writer is about to enter it, and then that writer has the reservation. So a rival is
  met either in the bucket or at SET NX.
* `Tidy` accounts for what is left over: every member and every reservation is a live row's, or on
  the receipt of a dead row, or on the list of one statement or sweep that is to remove it (`MembersDue`,
  `ReservationsDue`). That needs `Exclusive` (nobody shares a row), `Current` (what a statement has
  read of its row is so, unless the row expired) and `Receipts`.

`BucketSplitProofs` proves `SplitLosesNobody` and `SplitLeavesNothing`, the invariants `NoneLost`
and `NoOrphans`, and `SplitTypeCorrect`, for any rows, writers, sub-buckets, page size, splits,
merges and crashes, under `Assumed`: at most one splitter, `Timely`, no `longpass` and no `cut`. `NoneLost` leaves out the rows in `hit`, which were born again
while a ZREM of their member was due. These are the assumptions of `drainGrace` and `migrateBatch`; section 5 has the counterexample of each. `BInv` says,
for each step of the splitter, what its copy of the entry has to do with the document (`Knows`), that a
cached document is the current one or an older one by which nobody writes to an unread bucket
(`CacheShape`), and that what a batch removes from the source is in the target or about to be
(`BatchSafe`). The heart is `Drained`: once the cache TTL is over, every writer has the draining document, so
that nobody writes to a source any more, and a pass begun after that leaves each bucket it has
finished empty; so UNLINK and the final CAS find the sources empty.

`AsyncLogProofs` proves `LogImplementsSync`: `Spec => ImplementsSync`, the refinement of `SyncIndex`,
and `LogConverges`: when the log is empty and all consumers are idle, the bucket has the member of every row;
both for any number of consumers and as long as `sound` holds. The lemmas are about the replay: an
appended entry acts last (`ReplayAppend`), a prefix of the log that is applied early, wholly or in part, is
absorbed when the log is replayed (`ReplayAbsorbs`), and a log can be replayed in two parts (`ReplaySplits`). `AInv`
says that the batch of a consumer that is not late is the head of the log (`BatchIsHead`), that the log
replays to the same without a batch that is about to be trimmed (`BatchApplied`), and that replaying the log
gives every row its member (`RowsLogged`).

`TableLifeProofs` proves `NothingLeaks`, `NoGhostRows` and `JobSparesTable`, the properties
`NoLeak`, `NoGhosts` and `JobSpares`, and `TypeCorrect`, for any sessions, controllers, rows, page size, statements, crashes
and failures. `IInv` is `TypeOK`, the shape of the locals, and two parts under the condition that each needs.
`JobAlone`, until `raced`: while a controller is at a job the job is listed, and past its look at the catalogue the table
stays away. `Covered`, until `raced` or `jumped`: without a table, either a job is listed or no row is owed
(`JobDone`, `TableCovered`), and a synchronous DROP has every owed row in its page or still ahead of its offset
(`DropHasAll`, `DropCovered`).

`ControllerProofs` also proves `ReportsAreTrue`, the property `ReportsTrue`, and `TypeCorrect` of `Reconcile`. `RInv` says that
a page reads a row once (`OneRow`) and, as long as nobody else moves, that what has been computed so far is so:
the missing members, the members seen in a bucket, the rows without a register entry and the orphans.

`IndexBuildProofs` proves `IndexIsComplete`, the invariant `IndexComplete`, with `BackfillInvariant`
behind it, and `IndexTypeCorrect`, for any rows, values, gateways, leaders, page size and number of
statements. A row is `Held` when a member with its value is there or about to be added by a segment
that is due, and no segment due removes it. `IInv` is `TypeOK`, `Flights` (a segment due was computed from an older
version of the row than the one that lives now), `Registered` (a live row is in the register or about to be),
`Loaded` (a version that is still the catalogue's was read with what the catalogue has) and, unless
`shifted` or `stray`, `Backfill`: which statement or leader may be at work in which phase of the
index (`Turns`); rows outside the register are held, as they were written under the index
(`Outside`); a visible index holds every row (`Published`); below a cursor every row is held or in the page
that a leader has in hand (`Walked`). `Carries` is what the steps have in common: a row that the index answers
for keeps a member, or gets the one of its new version. The lemmas about ranks say that a page is the entries
from its offset on and that an entry that joins the register or leaves it above the cursor does
not move the ranks below; a cursor past its shard is above every rank (`RankBelow`).

`ReadProofs` proves about `HotRead`, for any rows, sessions, replicas, page size, cap and every
failure of manager, replicas and caches, `LookupReadsOnce` (`ReadOnce`) and `LookupTypeCorrect`, and, for `~Covering`
and without the fault `late`, `LookupIsSound` (`ReadsSound`), which allows an entry of the row cache the TTL that the row had when
it was read (`cut`); section 5 shows that the conditions are needed. `HInv` says
of every stream that the rows it has returned, is fetching and has still on its list are different
(`Once`), that a stream which reads the bucket has seen what it has returned, while one with a list reads no page
(`Sources`), and which of these are empty in which phase (`Phase`); the list of L1 has no pk
twice. Pages come in member order by rank, so the lemmas `Ranked`, `KthFacts` and `LexicalFacts` say that
ranks in a finite set are different and fill an initial segment. `SInv` is about time: whatever store and row
cache tell now is in the `hist` of every query that runs (`Sound`), so that whatever a
stream returns later was true at some moment of the query, or cached when it began.

The second part of `ReadProofs` is about `RangeScan`, for any rows, scores, statements, queries, batches, pages, splits,
merges and crashes.

* `ScoreHasOneHome` and `RowsStayHomed` (`OneHome`, `Homed`), for `Careful`. `RInv` says that the buckets divide the axis
  and that numbers are given once, to buckets and children alike (`DocShape`); that the splitter's
  locals are what the document says, and that its new numbers are unused and their buckets empty until the
  document names them (`JobShape`); that a bucket has only members of its interval (`Stocked`); that a page
  in hand drops only members which are no row's (`BatchShape`); that what the drain has finished stays
  empty (`Emptied`); and that the member of a row is in the bucket of its score or in the child (`AtHome`).
  `Homed` alone is not inductive: UNLINK and the final CAS are safe only by `Emptied`.
* `RowsComeOnce` (`ScanOnce`) and `RangeTypeCorrect` (`RTypeOK`), whatever merges are asked for. `Loose` is what is
  left of `RInv` then; `ScanShape` says that heap and candidates are of the interval that is read and
  that a way with nothing in the heap is exhausted; `OutOnce`, that whatever was returned has been seen.
* `NoRowIsMissed` (`ScanComplete`), for `Careful`, queries during which no member moves (`moved`) and that no interval routes
  past a bucket of the current document (`stale`); section 5 shows what happens without them. `ReadSoFar`:
  what lies behind a cursor, by rank in the bucket, came up; inserts shift ranks only upwards.
  `Expected`: a row that has to be in the result was returned, or is in the interval that is read
  and in a bucket that is read for it, or in a later interval; the last two come from `RInv`.
* `OneBucketInOrder` (`OrderedAlone`), whatever merges are asked for. `InTurn` says that the scores come in
  the order: returned, candidates, heap, not yet read, later intervals. `Queue` has it for rows that satisfy the predicate all along
  only: section 5 has the reason.
* `LookupsAreExact` (`LookupRight`) needs no invariant: it is about the functions of `translate.go`, rows that are NULL included; only
  an upper AboveNull, the range of IS NULL, is left out (section 5). Its lemmas are for
  any number of ranges, both directions, any scores and any strings without 0x00 and 0xff: `RangeExact`,
  `PointsExact` and `LikeExact` (what is returned is what is wanted), `SortedBounds` and
  `SortedValues` (the two sorts, by rank), `LexTotal` and `LexTransitive` (the order of strings).

Only model-checked: liveness (`EventuallySwept`, `Settles`, `EventuallyIndexed`,
`Reported`, `Heals`, `JobEnds`, `Found`, `DeposedStops`, `WorkResumes`), as the prover does not handle fairness. Every safety property
of the passing runs is proved.

## 5. Finding and observations

**Finding** (run `RangeOrdered`, quoted in `findings`). `topk.go` pops a batch from the heap
before it refills the ways that ran dry. After the seed round each bucket has one entry in the
heap, so with two buckets the larger of the two is returned before the rest of the first
bucket. gms has dropped the Sort node, and the comment says that order holds by construction. An index
in one bucket is ordered (`OrderedAlone`), with two exceptions that the proof brought out. A superfluous member, such
as the old member of an updated row that a late page of a merge adds again, returns its row in the old
place (`stray`; with `<<2, 2>>` in `TheWrites` and the query of the whole axis, TLC violates `OrderedAlone` without that premise). And two inserts during a query shift the pages twice, so that one of the
inserted rows is met behind its place; rows that were there from the beginning keep their order.

The same modules show, with other constants, where a statement of the docs or of a comment holds
only under a condition. The runs check the property with the condition in it; the table names the
stronger form.

| Property (module) | Constants | What happens |
|---|---|---|
| `UndoNeverHitsLiveMember` (`RowWrite`) | 2 clients, no faults | versions restart after a delete or an expiry, so a late ZREM removes the member of the next row (`txguard.go:379`, docs/05:54-57) |
| `AcknowledgedIndexed` (`RowWrite`) | 1 client, fault `segment` or `reply` | a write repeated after a failed index segment, or after its own commit came back as stale, sees the value unchanged, sends no ZADD and returns ok (`txguard.go:663`, docs/05:119) |
| `NothingLeaks` (`Sweep`) | fault `sweep` | a sweep fails after its Lua deleted the receipt; the next one finds no receipt and removes only the register entry (docs/07:74) |
| `NothingLeaks` (`Sweep`) | fault `grace` | the receipt expires before a sweeper comes |
| `NothingLeaks` (`Sweep`) | no faults, 2 values, modes set and keep | the Lua deletes a receipt newer than the one that was read |
| `UniqueHeld` without its premise on `fault` (`Statements`) | fault `reserve` or `release` | a reservation is made and the value is not found free: `verifyBucketExclusive` fails, or its release is lost. The reservation stays, and the next write of the same row takes it for its own and verifies nothing (`txguard.go:455`) |
| `NoStrayReservation`, `UniqueHeld` (`Statements`) | `Escaped = {a}` | `verifyBucketExclusive` releases the key of the value escaped a second time (`txguard.go:515`, `keycodec.go:110`), which does not exist: the reservation stays, and the next write of the same row takes it for its own and verifies nothing |
| `UniqueHeld` without the clause of `breach` on verifications (`Statements`) | no faults; or fault `load` | `verifyBucketExclusive` reads ZRANGE 0 63 of a bucket (`txguard.go:489`), so a rival behind 64 leftover members is not seen; and bucket 0 only when the document cannot be loaded (`txguard.go:480-486`): the duplicate is written |
| `NoReadHole` (`BucketSplit`), `ScanComplete` without `stale` (`RangeScan`) | 1 writer | rows are not found by a lookup while their value is split for the first time: readers consult the document only after `RegisterHot` (`split.go:132`, docs/08:29) |
| `ScanComplete` without `stale` (`RangeScan`) | as the run | a query routes by the Store's cached document, up to a second old (`topk.go:269`), by the cached registry (`exec.go:448`), or to bucket 0 when loading fails (`topk.go:270-272`): rows that were migrated before the query began are not in the result, without an error |
| `NoOrphans`, `Settles` (`BucketSplit`) | 2 splitters, `Pks = {0}` | two splitters overwrite each other's entry: after CAS next, `split.go:82` reads only the version again; `NoneLost` and `TypeOK` hold there |
| `NoneLost` (`BucketSplit`) | `Timely = FALSE`; fault `longpass`, `NSub = 2`; fault `cut` | a write older than the cache TTL is unlinked with the parent; the first bucket of the last drain pass is not looked at again; the ZREM of a batch is executed and its ZADD is not |
| `NoneLost` without leaving out `hit` (`BucketSplit`) | `MaxDeaths = 1` | a batch asks EXISTS and finds the row dead; a writer with the old document inserts the row again, whose stamp restarts, so its member in the parent is the same; the batch's ZREM removes it and nothing adds it to the child (`split.go:169-185`) |
| `Homed` (`RangeScan`) | `Careful = FALSE` | `MergeRange` merges into a right neighbour that is being split |
| `OneHome` (`RangeScan`) | `Careful = FALSE`, `MaxSteps = 4` | two splits, a merge that is interrupted, and `MergeRange` for its right bucket: it takes the next neighbour (`split.go:498`) for the other bucket of the merge and marks it with the children of the first |
| `NullsPrecise` (`Lookup`) | any | IS NULL on a range index becomes the whole axis (`translate.go:312`), and `table.go:329` has told gms to drop the filter. A range from BelowNull (ORDER BY x, x IS NULL OR ..) becomes one from -inf and returns no row that is NULL, as these are in no index |
| `ReadsSound` (`HotRead`) | `ReadFaults = {"late"}` | a row that dies between HGETALL and PTTL (-2) is cached for the default lifetime (docs/08:75) |
| `ReadsSound` without `cut` in `hist` (`HotRead`) | as the run | the lifetime of a cached row is the TTL that the row had when it was read (`exec.go:997`, `rowcache.go:49-55`); an UPDATE that sets or shortens `_ttl` (`editors.go:155`, `230`), or an INSERT with a TTL after a DELETE, leaves the entry as it is, and the expired row is returned, against `rowcache.go:13` and docs/08:75 |
| `ReadsSound` (`HotRead`) | `Covering = TRUE` | a covered lookup returns the columns of a member whose row has changed (docs/04:88) |
| `Converged` without `sound` (`AsyncLog`) | 2 consumers, no faults | every instance runs a consumer and there is no lock (`roles.go:172`): LRANGE and LTRIM by count of two consumers trim entries that neither has applied |
| `Converged` without `sound` (`AsyncLog`) | 1 consumer, 1 fault | a batch that cannot be applied goes to the dead letters; the error of that RPUSH is ignored and LTRIM follows (`indexer.go:122`), so the entries may be gone altogether |
| `Converged` with the empty string indexed (`AsyncLog`) | value `Empty` | NULL and the empty string are the same in a log entry (`indexer.go:78-93`): a row with `c = ''` never gets a member in an asynchronous index, although it gets one in a synchronous index |
| `DriftHarmless`, `LeaseHarmless` (`IndexBuild`) | without `Promised` | an entry that leaves the register under the backfill's offset makes it skip a row; a gateway within its lease writes without the new index |
| `IndexComplete` without excluding `reborn` (`IndexBuild`) | 2 gateways | versions restart when a row is deleted and inserted again, so the late segment of a statement on the first one removes the member of the second (`txguard.go:379`) |
| `IndexComplete` without leaving out `blind` (`IndexBuild`) | as the run | CREATE INDEX takes a table for empty whose rows are all in the last second of their TTL (`exec.go:1073-1091`) and publishes the index without a backfill (`ddlexec.go:203-224`); a write that then prolongs the TTL and keeps the value sends no ZADD (`txguard.go:287`), so the row lives on without a member |
| `NoLeak`, `NoGhosts` without `jumped` (`TableLife`) | pages of 1, 2 rows | a synchronous DROP pages through the register by offset (`exec.go:678-680`, `751-753`) and deletes what it has read before it reads on (`ddlexec.go:128-141`): with more than `exec.batch` rows (512; the limit of the synchronous path is 4096) every second page is skipped, its rows stay, and no job is listed for them |
| `NoGhosts`, `JobSpares` without `raced` (`TableLife`) | a list of jobs that fails | CREATE and DROP go on when `ListDropJobs` fails (`ddlexec.go:54`, `100`): the table is created over a listed job, whose rows it takes over, and which, when it is past its look at the catalogue, deletes the new ones |
| `JobSpares` without `raced` (`TableLife`) | 2 controllers | a controller that has passed `LoadTable` when another one clears the job goes on in the table that is created meanwhile: it deletes its rows and lists the job again with its cursor |
| `Heals` without `InFirst` (`Reconcile`) | `BucketRows = 1` | the reconciler reads ZRANGE 0 63 of a bucket (`reconcile.go:290`), so a superfluous member at a higher rank is never met |
| `RegisterHeals` (`Reconcile`) | as the run | a row without a register entry is only met through the bucket of a sampled row with the same value (docs/07:55) |
| `Heals` (`Reconcile`) | `PageRows = 1` | the last row is never sampled: the offset is `Int63n(total - rows)` |
| `OneAtWork` (`Elector`) | 2 nodes, no failures | a node that concedes or fails to renew releases the lock while its role is still in the middle of a step (`elector.go:228`, docs/08:80) |

Noted while reading, without a property: a CREATE TABLE that looked at the jobs before a DROP
listed its own is not stopped either (`raced` in `TableLife`, `ddlexec.go:53-56`); a DELETE on a full log does nothing and returns no error
(`DeleteFull`, `txguard.go:364-374`), and if the row's `_ver` is 1, which is what the reply is compared with, it counts the row as deleted and removes its register entry
and its synchronous members while the row lives; a row that is born between the sweeper's death check and its client
segment loses its member and its register entry (`late` in `Sweep`, `sweeper.go:126`); an INSERT overwrites a row that was born after its look (`editors.go:89`,
outside `InsertSpares`); a crash between the
catalogue's Save or DEL and the INCR of the schema version leaves caches as they are; DROP at once
leaves the sequence, the bucket documents and the telemetry keys; an IN list with more rows per
value than a page is not in value order, because `fillScatter` reads a page of every bucket
per round; LIKE may return a row twice that has a leftover member of an older value, as the prefix
merge removes duplicates only for a registered copy (`prefix.go:90`); pages by offset skip rows
when members leave the bucket (`moved` in `RangeScan`); nothing resumes an interrupted split until telemetry
nominates its bucket again; a full batch of due entries whose rows live hides the later ones
from the sweeper (`sweeper.go:70`).

Superfluous members (the late ZADD of an overwritten write, a forgotten receipt) are dirt, not
errors: readers check rows again. The reconciler removes the members of a live row whose stamp
differs and enters a row that has lost its register entry; members of dead rows it only counts. Between its
HGETALL and its ZREM lie several commands: a row that is updated meanwhile loses its new member, if its new value is also
that of another row of the page, whose bucket is read (`reconcile.go:313-325`; `ReportsTrue` is about pages during which nobody else moves).

## 6. Not modelled, and the plan

Not modelled because there is no state protocol in it: codecs, sessions, the wire protocol, wiring,
metrics, generated code. Backoff times and error classes of the retrying client are abstracted to
"re-sent, at most `MaxAttempts` times". Not modelled of otherwise modelled parts: rows with
several indexes at once, the prefix copy and its merge, the pushdown of aggregates, the limiter of full
scans, `checkUniqueNoDup` and the abort of a unique backfill, the reconciler's reports about
reservations and dead letters, the thresholds of telemetry.

Worth doing next: the prefix copy with its merge, and the pushdown of aggregates, as modules beside `RangeScan`.
