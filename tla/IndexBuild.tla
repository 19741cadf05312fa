------------------------------ MODULE IndexBuild ------------------------------
(***************************************************************************)
(* CREATE INDEX and DROP INDEX on a table that is written to               *)
(* (engine/ddlexec.go), and the job runner of the controller that fills    *)
(* the new index from the existing rows (controller/jobrunner.go).         *)
(*                                                                         *)
(* The index enters the catalogue as Building, so that statements maintain *)
(* it, and the job walks the expiry register by rank, a page at a time,    *)
(* with its cursor in the catalogue; then the index becomes visible.       *)
(* Statements use the definition their gateway has cached.  One table, one *)
(* register shard, one equality index, its values' bucket 0.               *)
(***************************************************************************)
EXTENDS Naturals, FiniteSets

CONSTANTS
    Gateways,   \* instances; each runs one statement at a time
    Leaders,    \* controllers that believe they hold the lock
    MaxPk,      \* primary keys are 1 .. MaxPk
    Values,     \* values of the indexed column
    None,       \* no value
    Batch,      \* tuning exec.batch
    MaxWrites,  \* bound: statements
    MaxDdl      \* bound: DDL statements

ASSUME IndexBuildAssumption ==
    /\ MaxPk \in Nat \ {0} /\ Batch \in Nat \ {0}
    /\ None \notin Values /\ MaxWrites \in Nat /\ MaxDdl \in Nat

Pks == 1 .. MaxPk

VARIABLES
    row,      \* per pk: _ver (0: no row), the column, _iv of the index (0: no field)
    exp,      \* the expiry register; rows without a TTL rank by pk
    member,   \* the members of the index: <<value, pk, stamp>>
    cat,      \* the index in the catalogue: "none", "building", "visible"
    catVer,   \* _ver of the catalogue entry
    job,      \* _job: whether there is one, and its cursor
    cached,   \* per gateway: its cached definition has the index
    wr,       \* per gateway: its statement
    ddl,      \* the DDL session
    run,      \* per leader: its locals in Tick
    writes, ddls,
    blind,    \* history: rows written by a statement that did not know the index, that the
              \*          index caught between commit and index segment, or not counted
    shifted,  \* history: an entry left the register while a job was under way
    stray,    \* history: a job's index was dropped before the job ended
    old,      \* history: gateways whose row was inserted again since they committed
    reborn    \* history: rows hit by commands prepared for a row deleted before them

vars == <<row, exp, member, cat, catVer, job, cached, wr, ddl, run, writes, ddls,
          blind, shifted, stray, old, reborn>>
store == <<row, exp, member>>
meta == <<cat, catVer, job>>
bounds == <<writes, ddls>>
hist == <<blind, shifted, stray, old, reborn>>

NoRow == [ver |-> 0, val |-> None, iv |-> 0]
NoJob == [on |-> FALSE, cur |-> 0]
IdleW == [pc |-> "idle", op |-> "W", pk |-> 1, val |-> None, knows |-> FALSE, snap |-> NoRow]
IdleD == [pc |-> "idle", ver |-> 0]
IdleR == [pc |-> "idle", ver |-> 0, has |-> "none", cur |-> 0, pks |-> {}, rows |-> {}]

\* A table at rest: its rows were inserted before there was an index (s = "none"), or
\* after one was created on the empty table.
Init ==
    /\ \E v \in Values, n \in 0 .. MaxPk, s \in {"none", "visible"} :
          /\ row = [p \in Pks |-> IF p <= n THEN [ver |-> 1, val |-> v, iv |-> IF s = "none" THEN 0 ELSE 1] ELSE NoRow]
          /\ exp = 1 .. n
          /\ member = IF s = "none" THEN {} ELSE {<<v, p, 1>> : p \in exp}
          /\ cat = s
          /\ cached = [g \in Gateways |-> s # "none"]
    /\ catVer = 1 /\ job = NoJob
    /\ wr = [g \in Gateways |-> IdleW]
    /\ ddl = IdleD
    /\ run = [l \in Leaders |-> IdleR]
    /\ writes = 0 /\ ddls = 0
    /\ blind = {} /\ shifted = FALSE /\ stray = FALSE /\ old = {} /\ reborn = {}

Live(p) == row[p].ver > 0

(***************************************************************************)
(* Statements.                                                             *)
(***************************************************************************)
\* The lease of a gateway's cache runs out and it sees the schema version.
Refresh(g) ==
    /\ cached[g] # (cat # "none")
    /\ cached' = [cached EXCEPT ![g] = cat # "none"]
    /\ UNCHANGED <<store, meta, wr, ddl, run, bounds, hist>>

\* The definition is taken from the cache and the row is pre-read.
Start(g, o, p, v) ==
    /\ wr[g].pc = "idle" /\ writes < MaxWrites
    /\ o = "D" => Live(p)
    /\ wr' = [wr EXCEPT ![g] = [pc |-> "lua", op |-> o, pk |-> p, val |-> v, knows |-> cached[g], snap |-> row[p]]]
    /\ writes' = writes + 1
    /\ UNCHANGED <<store, meta, cached, ddl, run, ddls, hist>>

IvOf(r) == IF r.iv > 0 THEN r.iv ELSE r.ver

\* buildIndexOps: the member of the old value goes and one of the new value comes when
\* the pre-read has another value.  A definition that has the index, Building or not,
\* maintains it.
Maintains(w) == w.knows
Changed(w) == w.op = "D" \/ w.snap.val # w.val
Undo(w) == IF Maintains(w) /\ Changed(w) THEN {<<w.snap.val, w.pk, IvOf(w.snap)>>} ELSE {}
Redo(w) == IF Maintains(w) /\ Changed(w) /\ w.op # "D" THEN {<<w.val, w.pk, w.snap.ver + 1>>} ELSE {}

InFlight(p) == {g \in Gateways : wr[g].pc = "index" /\ wr[g].pk = p}

\* The row Lua.  A stale version reads the row again: a DELETE that finds none is done.
\* An insert leaves the statements still under way on the deleted row behind.
Commit(g) ==
    /\ wr[g].pc = "lua"
    /\ LET w == wr[g]
           r == row[w.pk]
       IN  IF r.ver # w.snap.ver
           THEN /\ wr' = [wr EXCEPT ![g] = IF w.op = "D" /\ r.ver = 0 THEN IdleW ELSE [w EXCEPT !.snap = r]]
                /\ UNCHANGED <<row, blind, old, reborn>>
           ELSE /\ row' = [row EXCEPT ![w.pk] =
                      IF w.op = "D" THEN NoRow
                      ELSE [ver |-> r.ver + 1, val |-> w.val,
                            iv |-> IF Maintains(w) /\ Changed(w) THEN r.ver + 1 ELSE r.iv]]
                /\ wr' = [wr EXCEPT ![g].pc = "index"]
                /\ blind' = IF ~w.knows /\ cat # "none" THEN blind \cup {w.pk} ELSE blind
                /\ old' = IF r.ver = 0 THEN old \cup InFlight(w.pk) ELSE old
                /\ reborn' = IF w.snap # r THEN reborn \cup {w.pk} ELSE reborn
    /\ UNCHANGED <<exp, member, meta, cached, ddl, run, bounds, shifted, stray>>

\* The statement enters its row in the register: always with a TTL clause or an INSERT,
\* else ("U", the TTL is kept) only for a new row.
Registers(w) == w.op = "W" \/ (w.op = "U" /\ w.snap.ver = 0)

\* The segment takes the member or the register entry of a row that was born since.
Hits(g) ==
    LET w == wr[g]
    IN  /\ g \in old /\ Live(w.pk)
        /\ \/ \E m \in Undo(w) \cap member : m[1] = row[w.pk].val
           \/ w.op = "D" /\ w.pk \in exp

\* The index commands and the register.
IndexSegment(g) ==
    /\ wr[g].pc = "index"
    /\ LET w == wr[g]
       IN  /\ member' = (member \ Undo(w)) \cup Redo(w)
           /\ exp' = IF w.op = "D" THEN exp \ {w.pk} ELSE IF Registers(w) THEN exp \cup {w.pk} ELSE exp
           /\ shifted' = (shifted \/ (w.op = "D" /\ w.pk \in exp /\ job.on))
           /\ reborn' = IF Hits(g) THEN reborn \cup {w.pk} ELSE reborn
    /\ old' = old \ {g}
    /\ wr' = [wr EXCEPT ![g] = IdleW]
    /\ UNCHANGED <<row, meta, cached, ddl, run, bounds, blind, stray>>

(***************************************************************************)
(* The DDL session: createIndex and dropIndex.                             *)
(***************************************************************************)
DdlAt(l) == ddl.pc = l
DdlGoto(l) == ddl' = [ddl EXCEPT !.pc = l]
\* Save, once its compare-and-set on _ver has found the version expected.
Save(s) == cat' = s /\ catVer' = catVer + 1

\* An index of that name is an error.
CreateIndex ==
    /\ DdlAt("idle") /\ ddls < MaxDdl /\ cat = "none"
    /\ ddl' = [pc |-> "save", ver |-> catVer]
    /\ ddls' = ddls + 1
    /\ UNCHANGED <<store, meta, cached, wr, run, writes, hist>>

SaveBuilding ==
    /\ DdlAt("save")
    /\ IF catVer = ddl.ver
       THEN /\ Save("building") /\ ddl' = [pc |-> "count", ver |-> catVer + 1]
            /\ blind' = blind \cup {p \in Pks : InFlight(p) # {}}
       ELSE ddl' = IdleD /\ UNCHANGED <<cat, catVer, blind>>
    /\ UNCHANGED <<store, job, cached, wr, run, bounds, shifted, stray, old, reborn>>

\* RowCount: an empty table needs no job.  ZCOUNT (now, +inf) leaves out the rows whose
\* expiry, cut to seconds in the register, has passed: a table whose rows are all in the
\* last second of their TTL counts as empty.
CountRows ==
    /\ DdlAt("count")
    /\ \/ exp # {} /\ DdlGoto("getjob") /\ UNCHANGED blind
       \/ DdlGoto("publish") /\ blind' = blind \cup exp
    /\ UNCHANGED <<store, meta, cached, wr, run, bounds, shifted, stray, old, reborn>>

Publish ==
    /\ DdlAt("publish")
    /\ IF catVer = ddl.ver THEN Save("visible") ELSE UNCHANGED <<cat, catVer>>
    /\ ddl' = IdleD
    /\ UNCHANGED <<store, job, cached, wr, run, bounds, hist>>

\* A job under way is an error; the index stays in the catalogue.
CheckJob ==
    /\ DdlAt("getjob")
    /\ IF job.on THEN ddl' = IdleD ELSE DdlGoto("setjob")
    /\ UNCHANGED <<store, meta, cached, wr, run, bounds, hist>>

SetFirstJob ==
    /\ DdlAt("setjob")
    /\ job' = [on |-> TRUE, cur |-> 0]
    /\ ddl' = IdleD
    /\ UNCHANGED <<store, cat, catVer, cached, wr, run, bounds, hist>>

DropIndex ==
    /\ DdlAt("idle") /\ ddls < MaxDdl /\ cat # "none"
    /\ ddl' = [pc |-> "remove", ver |-> catVer]
    /\ ddls' = ddls + 1
    /\ UNCHANGED <<store, meta, cached, wr, run, writes, hist>>

SaveRemoved ==
    /\ DdlAt("remove")
    /\ IF catVer = ddl.ver
       THEN /\ Save("none") /\ DdlGoto("unlink")
            /\ stray' = (stray \/ job.on \/ \E l \in Leaders : run[l].pc # "idle")
       ELSE ddl' = IdleD /\ UNCHANGED <<cat, catVer, stray>>
    /\ UNCHANGED <<store, job, cached, wr, run, bounds, blind, shifted, old, reborn>>

\* The bucket of every live row's value goes; _iv stays in the rows.
Unlink ==
    /\ DdlAt("unlink")
    /\ member' = {m \in member : ~\E p \in Pks : Live(p) /\ row[p].val = m[1]}
    /\ ddl' = IdleD
    /\ UNCHANGED <<row, exp, meta, cached, wr, run, bounds, hist>>

(***************************************************************************)
(* The job runner.                                                         *)
(***************************************************************************)
At(l, s) == run[l].pc = s
Set(l, r) == run' = [run EXCEPT ![l] = r]
RunnerRest == UNCHANGED <<cached, wr, ddl, bounds, hist>>

\* Tick: GetJob and Load.
TakeJob(l) ==
    /\ At(l, "idle") /\ job.on
    /\ Set(l, [IdleR EXCEPT !.pc = "scan", !.ver = catVer, !.has = cat, !.cur = job.cur])
    /\ UNCHANGED <<store, meta>> /\ RunnerRest

Rank(p) == Cardinality({q \in exp : q < p})

\* Mutant: the page starts one rank further.
PageSkips(n) == {p \in exp : n + 1 <= Rank(p) /\ Rank(p) < n + Batch + 1}

\* ZRANGE cur .. cur + batch - 1.
Page(n) == {p \in exp : n <= Rank(p) /\ Rank(p) < n + Batch}

\* The cursor (shard + 1) << 32 of the shard after the only one, above any offset.
NextShard == MaxPk + 1

\* A cursor past the last shard ends the walk; an empty page sends the cursor there.
ScanPage(l) ==
    /\ At(l, "scan")
    /\ LET c == run[l].cur
           ps == Page(c)
       IN  \/ c >= NextShard /\ Set(l, [run[l] EXCEPT !.pc = "finish"])
           \/ c < NextShard /\ ps = {} /\ Set(l, [run[l] EXCEPT !.pc = "setjob", !.cur = NextShard])
           \/ c < NextShard /\ ps # {} /\ Set(l, [run[l] EXCEPT !.pc = "rows", !.pks = ps, !.cur = c + Cardinality(ps)])
    /\ UNCHANGED <<store, meta>> /\ RunnerRest

\* HGETALL of the page's rows.
ReadRows(l) ==
    /\ At(l, "rows")
    /\ Set(l, [run[l] EXCEPT !.pc = "zadd", !.rows = {<<row[p].val, p, row[p].ver>> : p \in {q \in run[l].pks : Live(q)}}])
    /\ UNCHANGED <<store, meta>> /\ RunnerRest

\* A member is stamped with the row's _ver; _iv is not written.
AddMembers(l) ==
    /\ At(l, "zadd")
    /\ member' = member \cup run[l].rows
    /\ Set(l, [run[l] EXCEPT !.pc = "setjob", !.rows = {}, !.pks = {}])
    /\ UNCHANGED <<row, exp, meta>> /\ RunnerRest

\* The cursor is stored, whatever has become of the job; then the next page, or the
\* tick's budget is used up.
StoreCursor(l) ==
    /\ At(l, "setjob")
    /\ job' = [on |-> TRUE, cur |-> run[l].cur]
    /\ \/ Set(l, [run[l] EXCEPT !.pc = "scan"])
       \/ Set(l, IdleR)
    /\ UNCHANGED <<store, cat, catVer>> /\ RunnerRest

\* finish: GetJob, and Save of the definition that was loaded, with the index visible;
\* a stale version is an error and the job stays.
Finish(l) ==
    /\ At(l, "finish")
    /\ IF job.on /\ catVer # run[l].ver
       THEN Set(l, IdleR) /\ UNCHANGED <<cat, catVer>>
       ELSE /\ Set(l, [run[l] EXCEPT !.pc = "clear"])
            /\ IF job.on THEN Save(IF run[l].has = "building" THEN "visible" ELSE run[l].has)
               ELSE UNCHANGED <<cat, catVer>>
    /\ UNCHANGED <<store, job>> /\ RunnerRest

ClearJob(l) ==
    /\ At(l, "clear")
    /\ job' = NoJob
    /\ Set(l, IdleR)
    /\ UNCHANGED <<store, cat, catVer>> /\ RunnerRest

RunnerStep(l) ==
    TakeJob(l) \/ ScanPage(l) \/ ReadRows(l) \/ AddMembers(l) \/ StoreCursor(l) \/ Finish(l) \/ ClearJob(l)

DdlStep == SaveBuilding \/ CountRows \/ Publish \/ CheckJob \/ SetFirstJob \/ SaveRemoved \/ Unlink

Next ==
    \/ \E g \in Gateways : Refresh(g) \/ Commit(g) \/ IndexSegment(g)
    \/ \E g \in Gateways, p \in Pks : Start(g, "D", p, None) \/ \E v \in Values, o \in {"W", "U"} : Start(g, o, p, v)
    \/ CreateIndex \/ DropIndex \/ DdlStep
    \/ \E l \in Leaders : RunnerStep(l)

Spec == Init /\ [][Next]_vars

(***************************************************************************)
(* Properties.                                                             *)
(***************************************************************************)
Rows == {r \in [ver : Nat, val : Values \cup {None}, iv : Nat] : r.iv <= r.ver /\ (r.ver > 0) = (r.val \in Values)}
Stamped == Values \X Pks \X Nat
Phases == {"none", "building", "visible"}
Stmts == [pc : {"idle", "lua", "index"}, op : {"W", "U", "D"}, pk : Pks,
          val : Values \cup {None}, knows : BOOLEAN, snap : Rows]
Ticks == [pc : {"idle", "scan", "rows", "zadd", "setjob", "finish", "clear"}, ver : Nat, has : Phases,
          cur : Nat, pks : SUBSET Pks, rows : SUBSET Stamped]

\* The types of the store and of the locals: a live row has a value, and its member's
\* stamp is not newer than the row; a statement is overtaken only while its segment is due.
TypeOK ==
    /\ row \in [Pks -> Rows] /\ exp \in SUBSET Pks /\ member \in SUBSET Stamped
    /\ cat \in Phases /\ catVer \in Nat
    /\ job \in [on : BOOLEAN, cur : Nat] /\ cached \in [Gateways -> BOOLEAN]
    /\ wr \in [Gateways -> Stmts]
    /\ \A g \in Gateways : (wr[g].pc # "idle" /\ wr[g].op # "D") => wr[g].val \in Values
    /\ ddl \in [pc : {"idle", "save", "count", "publish", "getjob", "setjob", "remove", "unlink"}, ver : Nat]
    /\ run \in [Leaders -> Ticks]
    /\ writes \in Nat /\ ddls \in Nat /\ shifted \in BOOLEAN /\ stray \in BOOLEAN
    /\ blind \in SUBSET Pks /\ reborn \in SUBSET Pks /\ old \subseteq {g \in Gateways : wr[g].pc = "index"}

\* Every live row among rows that no statement is at work on has a member for its value.
Complete(rows) ==
    \A p \in rows : (Live(p) /\ InFlight(p) = {}) => \E m \in member : m[1] = row[p].val /\ m[2] = p

\* A visible index finds every live row, however the job, its resumption by another
\* leader, crashes and statements interleave (docs/06 6.3: no hole in the window, as
\* statements maintain the index from Building on) -- unless a statement with an older
\* definition wrote the row, its last second kept it out of the count, commands for a
\* deleted row hit the one inserted in its place, an entry left the register under the
\* job's offset, or the index was dropped under its job.
IndexComplete ==
    (cat = "visible" /\ ~shifted /\ ~stray) => Complete(Pks \ (blind \cup reborn))

\* jobrunner.go backfillShard: "offset drift is harmless, whatever is added or removed
\* during the backfill is covered by the write path".
DriftHarmless ==
    (cat = "visible" /\ ~stray) => Complete(Pks \ (blind \cup reborn))

\* meta/lease.go: "correctness never depends on the lease: the CAS in the write path's
\* Lua is behind it".
LeaseHarmless ==
    (cat = "visible" /\ ~shifted /\ ~stray) => Complete(Pks \ reborn)
=============================================================================
