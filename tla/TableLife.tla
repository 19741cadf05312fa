------------------------------- MODULE TableLife -------------------------------
(***************************************************************************)
(* CREATE TABLE and DROP TABLE (engine/ddlexec.go), the clean-up job that  *)
(* a DROP of a large table leaves to the controller (controller/           *)
(* dropjob.go), and the cached catalogue through which the statements of   *)
(* other gateways still reach a table that is gone (meta/cache.go).        *)
(*                                                                         *)
(* One table name.  Its keys are named after it, so the rows of a table    *)
(* that was dropped are rows of the table that is created next: gen tells  *)
(* them apart here, and nothing tells them apart in the store.  A row is   *)
(* written and deleted in one step; RowWrite has the steps.                *)
(*                                                                         *)
(* The register is a set: every write may move an entry to another rank,   *)
(* so what a ZRANGE by rank returns is any choice of that many entries.    *)
(***************************************************************************)
EXTENDS Naturals, FiniteSets

CONSTANTS
    Clients,    \* sessions, each on a gateway of its own
    Leaders,    \* controllers: a role may outlive its lock (Elector), so two can be at work
    MaxPk,      \* primary keys are 1 .. MaxPk
    SyncMax,    \* tuning controller.drop_sync_max_rows
    Batch,      \* tuning exec.batch
    RowsPerTick,\* tuning controller.job_rows_per_tick
    MaxOps,     \* bound: statements
    MaxFaults   \* bound: sessions and controllers that stop, lists of jobs that fail

ASSUME TableLifeAssumption ==
    /\ MaxPk \in Nat \ {0} /\ Batch \in Nat \ {0} /\ RowsPerTick \in Nat \ {0}
    /\ SyncMax \in Nat /\ MaxOps \in Nat /\ MaxFaults \in Nat

Pks == 1 .. MaxPk

VARIABLES
    cat,      \* c:table: the generation of the definition, 0: no key
    listed,   \* the table is in c:tables
    job,      \* c:dropjobs: the generation of the job's definition, 0: no job
    sv,       \* ver:schema
    row,      \* per pk: the row's generation (0: no row); late: see Late
    exp,      \* the expiry register
    cache,    \* per gateway: the cached definition's generation, 0: none
    seen,     \* per gateway: the version its lease was checked against, 0: not valid
    cl,       \* per client: the statement under way
    ld,       \* per controller: the locals of stepDrop
    gens,     \* history: the definitions saved so far
    raced,    \* history: a CREATE saved over a clean-up job it had not seen, or a job was
              \* cleared while another controller was at work on it
    jumped,   \* history: the offset of a DROP's scan jumped over an entry no page had returned
    ops, faults

store == <<cat, listed, job, sv, row, exp>>
local == <<cache, seen>>
bounds == <<ops, faults>>
history == <<gens, raced, jumped>>
vars == <<store, local, cl, ld, history, bounds>>

\* The steps of a DROP that come before the catalogue is gone.
Dropping == {"d.count", "d.big", "d.small", "d.job", "d.scan", "d.rows", "d.cat"}
SessionPcs ==
    {"idle", "c.jobs", "c.save", "c.incr", "c.reg", "d.unreg", "d.incr", "w.def", "w.row"} \cup Dropping
LeaderPcs == {"idle", "load", "sweep", "page", "rows", "forced", "cursor", "card", "unlink", "clear"}

Row == [gen : Nat, late : BOOLEAN]
\* cursor, got, todo, full: the scan's offset, the entries its pages had, the rows of the
\* page still to delete, and whether the page was a full one.
Statement == [pc : SessionPcs, gen : Nat, pk : Pks \cup {0}, cursor : Nat, got : SUBSET Pks,
              todo : SUBSET Pks, full : BOOLEAN]
Tick == [pc : LeaderPcs, gen : Nat, budget : 0 .. RowsPerTick, page : SUBSET Pks,
         dead : SUBSET Pks, full : BOOLEAN]

NoRow == [gen |-> 0, late |-> FALSE]
IdleC == [pc |-> "idle", gen |-> 0, pk |-> 0, cursor |-> 0, got |-> {}, todo |-> {}, full |-> FALSE]
IdleL == [pc |-> "idle", gen |-> 0, budget |-> 0, page |-> {}, dead |-> {}, full |-> FALSE]

\* A table with any rows, some of them expired, or what a DROP has left of it to the
\* controller; every gateway has it cached.
Init ==
    /\ \/ cat = 1 /\ listed = TRUE /\ job = 0 /\ sv = 1
       \/ cat = 0 /\ listed = FALSE /\ job = 1 /\ sv = 2
    /\ gens = 1
    /\ \E D \in SUBSET Pks :
          row = [p \in Pks |-> IF p \in D THEN NoRow ELSE [gen |-> 1, late |-> FALSE]]
    /\ exp = Pks
    /\ cache = [c \in Clients |-> 1]
    /\ seen = [c \in Clients |-> 1]
    /\ cl = [c \in Clients |-> IdleC] /\ ld = [l \in Leaders |-> IdleL]
    /\ raced = FALSE /\ jumped = FALSE /\ ops = 0 /\ faults = 0

\* The entries of S that its first n ranks can hold: n of them, or all there are.
First(S, n) == {P \in SUBSET S : Cardinality(P) = n \/ (P = S /\ Cardinality(S) < n)}
Live(p) == row[p].gen > 0
At(c, l) == cl[c].pc = l
Go(c, l) == cl' = [cl EXCEPT ![c].pc = l]
End(c) == cl' = [cl EXCEPT ![c] = IdleC]
Begin(c) == At(c, "idle") /\ ops < MaxOps /\ ops' = ops + 1

\* CatalogCache.Invalidate: the statement's own gateway only.
Invalidate(c) == cache' = [cache EXCEPT ![c] = 0] /\ seen' = [seen EXCEPT ![c] = 0]

(***************************************************************************)
(* CREATE TABLE: Load, ListDropJobs, Save with version 0 and its INCR,     *)
(* RegisterTable, Invalidate.                                              *)
(***************************************************************************)
CreateLoad(c) ==
    /\ Begin(c)
    /\ cat = 0 /\ cl' = [cl EXCEPT ![c] = [IdleC EXCEPT !.pc = "c.jobs"]]
    /\ UNCHANGED <<store, local, ld, history, faults>>

\* Mutant: the list of jobs is not looked at.
AnyTime == TRUE

\* No clean-up job of that name is listed.
MayCreate == job = 0

CreateJobs(c) ==
    /\ At(c, "c.jobs")
    /\ IF MayCreate THEN cl' = [cl EXCEPT ![c] = [@ EXCEPT !.pc = "c.save", !.gen = job]] ELSE End(c)
    /\ UNCHANGED <<store, local, ld, history, bounds>>

\* The error of ListDropJobs is not looked at: neither statement has seen a job.
CreateBlind(c) ==
    /\ At(c, "c.jobs") /\ faults < MaxFaults /\ faults' = faults + 1
    /\ Go(c, "c.save")
    /\ UNCHANGED <<store, local, ld, history, ops>>

\* catalog_set.lua with the expected version 0: there is no key.
CreateSave(c) ==
    /\ At(c, "c.save")
    /\ IF cat = 0 THEN /\ cat' = gens + 1 /\ gens' = gens + 1 /\ raced' = (raced \/ (job # 0 /\ cl[c].gen = 0))
                       /\ Go(c, "c.incr")
       ELSE End(c) /\ UNCHANGED <<cat, gens, raced>>
    /\ UNCHANGED <<listed, job, sv, row, exp, local, ld, jumped, bounds>>

CreateIncr(c) ==
    /\ At(c, "c.incr") /\ sv' = sv + 1 /\ Go(c, "c.reg")
    /\ UNCHANGED <<cat, listed, job, row, exp, local, ld, history, bounds>>

CreateRegister(c) ==
    /\ At(c, "c.reg") /\ listed' = TRUE /\ End(c) /\ Invalidate(c)
    /\ UNCHANGED <<cat, job, sv, row, exp, ld, history, bounds>>

(***************************************************************************)
(* DROP TABLE.                                                             *)
(***************************************************************************)
DropLoad(c) ==
    /\ Begin(c)
    /\ cat # 0 /\ cl' = [cl EXCEPT ![c] = [IdleC EXCEPT !.pc = "d.count", !.gen = cat]]
    /\ UNCHANGED <<store, local, ld, history, faults>>

\* RowCount, ZCOUNT (now, +inf): the entries that are not due.  A score is cut to seconds
\* (txguard.go:287), so the entry of a row that is still there can be due.
RowCount == 0 .. Cardinality(exp)

\* The count decides, with ListDropJobs, which way it goes.
DropCount(c) ==
    /\ At(c, "d.count")
    /\ \E n \in RowCount : IF n > SyncMax THEN Go(c, "d.big") ELSE Go(c, "d.small")
    /\ UNCHANGED <<store, local, ld, history, bounds>>

NoJob(c) == \/ At(c, "d.big") /\ Go(c, "d.job")
            \/ At(c, "d.small") /\ Go(c, "d.scan")

DropJobs(c) ==
    /\ IF job = 0 THEN NoJob(c) ELSE cl[c].pc \in {"d.big", "d.small"} /\ Go(c, "d.cat")
    /\ UNCHANGED <<store, local, ld, history, bounds>>

DropBlind(c) ==
    /\ NoJob(c) /\ faults < MaxFaults /\ faults' = faults + 1
    /\ UNCHANGED <<store, local, ld, history, ops>>

\* SetDropJob, before the catalogue goes.
DropSetJob(c) ==
    /\ At(c, "d.job") /\ job' = cl[c].gen /\ Go(c, "d.cat")
    /\ UNCHANGED <<cat, listed, sv, row, exp, local, ld, history, bounds>>

\* FullScan, a page of the register: the entries past the offset, whatever became of those
\* before it; the rows that are there go to dropTable.
DropPage(c) ==
    /\ At(c, "d.scan")
    /\ \E skip \in First(exp, cl[c].cursor) : \E page \in First(exp \ skip, Batch) :
          /\ cl' = [cl EXCEPT ![c] = [cl[c] EXCEPT !.pc = "d.rows", !.cursor = cl[c].cursor + Cardinality(page),
                       !.got = cl[c].got \cup page, !.todo = {p \in page : Live(p)},
                       !.full = (Cardinality(page) = Batch)]]
          /\ jumped' = (jumped \/ ~(skip \subseteq cl[c].got))
    /\ UNCHANGED <<store, local, ld, gens, raced, bounds>>

\* DeleteRow: the row and its register entry; nothing where there is no row.
Delete(p) ==
    /\ row' = [row EXCEPT ![p] = NoRow]
    /\ exp' = IF Live(p) THEN exp \ {p} ELSE exp

DropRow(c) ==
    /\ At(c, "d.rows")
    /\ \E p \in cl[c].todo : Delete(p) /\ cl' = [cl EXCEPT ![c].todo = @ \ {p}]
    /\ UNCHANGED <<cat, listed, job, sv, local, ld, history, bounds>>

\* Mutant: a full page is taken for the last one.
OnePage(full) == "d.cat"

\* A full page may not be the last.
PageDone(full) == IF full THEN "d.scan" ELSE "d.cat"

DropPageDone(c) ==
    /\ At(c, "d.rows") /\ cl[c].todo = {}
    /\ Go(c, PageDone(cl[c].full))
    /\ UNCHANGED <<store, local, ld, history, bounds>>

DropCat(c) ==
    /\ At(c, "d.cat") /\ cat' = 0 /\ cl' = [cl EXCEPT ![c] = [IdleC EXCEPT !.pc = "d.unreg"]]
    /\ UNCHANGED <<listed, job, sv, row, exp, local, ld, history, bounds>>

DropUnregister(c) ==
    /\ At(c, "d.unreg") /\ listed' = FALSE /\ Go(c, "d.incr")
    /\ UNCHANGED <<cat, job, sv, row, exp, local, ld, history, bounds>>

DropIncr(c) ==
    /\ At(c, "d.incr") /\ sv' = sv + 1 /\ End(c) /\ Invalidate(c)
    /\ UNCHANGED <<cat, listed, job, row, exp, ld, history, bounds>>

(***************************************************************************)
(* An INSERT through the cached catalogue.                                 *)
(***************************************************************************)
\* checkLease: within the lease the cache is taken as it is, past it (at any time) the
\* versions are compared and a change empties the cache.
GetLease(c, p) ==
    /\ Begin(c)
    /\ \/ /\ seen' = [seen EXCEPT ![c] = sv]
          /\ cache' = [cache EXCEPT ![c] = IF seen[c] = sv THEN @ ELSE 0]
       \/ seen[c] # 0 /\ UNCHANGED local
    /\ cl' = [cl EXCEPT ![c] = [IdleC EXCEPT !.pc = "w.def", !.pk = p]]
    /\ UNCHANGED <<store, ld, history, faults>>

\* The cached definition, or the one Load finds; no such table ends the statement.
GetDef(c) ==
    /\ At(c, "w.def")
    /\ LET g == IF cache[c] # 0 THEN cache[c] ELSE cat
       IN  /\ cache' = [cache EXCEPT ![c] = g]
           /\ cl' = [cl EXCEPT ![c] = IF g = 0 THEN IdleC ELSE [@ EXCEPT !.pc = "w.row", !.gen = g]]
    /\ UNCHANGED <<store, seen, ld, history, bounds>>

\* A row written when its table is gone, or when a DROP of it is under way.
Late(g) == g # cat \/ \E d \in Clients : cl[d].pc \in Dropping

WriteRow(c) ==
    /\ At(c, "w.row")
    /\ row' = [row EXCEPT ![cl[c].pk] = [gen |-> cl[c].gen, late |-> Late(cl[c].gen)]]
    /\ exp' = exp \cup {cl[c].pk}
    /\ End(c)
    /\ UNCHANGED <<cat, listed, job, sv, local, ld, history, bounds>>

\* The row's TTL: the register entry stays.
Expire(p) ==
    /\ Live(p) /\ row' = [row EXCEPT ![p] = NoRow]
    /\ UNCHANGED <<cat, listed, job, sv, exp, local, cl, ld, history, bounds>>

(***************************************************************************)
(* The controller: tickDropJobs and stepDrop.  The sweep of due entries at *)
(* the start of a shard is the sweeper's (Sweep), one step here.           *)
(***************************************************************************)
LAt(l, k) == ld[l].pc = k
LGo(l, k) == ld' = [ld EXCEPT ![l].pc = k]
LEnd(l) == ld' = [ld EXCEPT ![l] = IdleL]
\* Past the loop over the pages its locals are gone.
Past(l, k) == ld' = [ld EXCEPT ![l] = [IdleL EXCEPT !.pc = k, !.gen = ld[l].gen]]

ListJobs(l) ==
    /\ LAt(l, "idle") /\ job # 0
    /\ ld' = [ld EXCEPT ![l] = [IdleL EXCEPT !.pc = "load", !.gen = job]]
    /\ UNCHANGED <<store, local, cl, history, bounds>>

\* Mutant: the catalogue is not looked at.
Anyhow == FALSE

\* A job whose catalogue is there is a DROP under way.
DropUnderWay == cat # 0

LoadTable(l) ==
    /\ LAt(l, "load")
    /\ IF DropUnderWay THEN LEnd(l)
       ELSE ld' = [ld EXCEPT ![l] = [@ EXCEPT !.pc = "sweep", !.budget = RowsPerTick]]
    /\ UNCHANGED <<store, local, cl, history, bounds>>

\* SweepShard: due entries without a row leave the register.
SweepShard(l) ==
    /\ LAt(l, "sweep")
    /\ \E D \in {{}, {p \in exp : ~Live(p)}} : exp' = exp \ D
    /\ LGo(l, "page")
    /\ UNCHANGED <<cat, listed, job, sv, row, local, cl, history, bounds>>

\* ZRANGE 0 batch-1, as long as the tick's budget lasts.
ReadPage(l) ==
    /\ LAt(l, "page") /\ exp # {} /\ ld[l].budget > 0
    /\ \E page \in First(exp, Batch) :
          ld' = [ld EXCEPT ![l] = [@ EXCEPT !.pc = "rows", !.page = page,
                                            !.full = (Cardinality(page) = Batch)]]
    /\ UNCHANGED <<store, local, cl, history, bounds>>

NoPage(l) ==
    /\ LAt(l, "page") /\ (exp = {} \/ ld[l].budget = 0)
    /\ Past(l, "cursor")
    /\ UNCHANGED <<store, local, cl, history, bounds>>

JobDelete(l) ==
    /\ LAt(l, "rows") /\ ld[l].budget > 0
    /\ \E p \in ld[l].page :
          /\ Delete(p)
          /\ ld' = [ld EXCEPT ![l] = [ld[l] EXCEPT !.page = ld[l].page \ {p}, !.budget = ld[l].budget - 1,
                                  !.dead = ld[l].dead \cup {q \in {p} : ~Live(q)}]]
    /\ UNCHANGED <<cat, listed, job, sv, local, cl, history, bounds>>

\* Mutant: what DeleteRow found dead is left for the sweeper.
NotForced(D) == {}

\* SweepPksForced: the pks without a row leave the register whatever their score.
Forced(D) == {p \in D : ~Live(p)}

SweepForced(l) ==
    /\ LAt(l, "rows") /\ (ld[l].page = {} \/ ld[l].budget = 0)
    /\ exp' = exp \ Forced(ld[l].dead)
    /\ IF ld[l].full THEN ld' = [ld EXCEPT ![l] = [@ EXCEPT !.pc = "page", !.page = {}, !.dead = {}, !.full = FALSE]]
       ELSE Past(l, "cursor")
    /\ UNCHANGED <<cat, listed, job, sv, row, local, cl, history, bounds>>

\* SetDropJob with the cursor.
SaveCursor(l) ==
    /\ LAt(l, "cursor") /\ job' = ld[l].gen /\ LGo(l, "card")
    /\ UNCHANGED <<cat, listed, sv, row, exp, local, cl, history, bounds>>

\* ZCARD of the register.
Emptied == exp = {}

CountLeft(l) ==
    /\ LAt(l, "card")
    /\ IF Emptied THEN LGo(l, "unlink") ELSE LEnd(l)
    /\ UNCHANGED <<store, local, cl, history, bounds>>

\* finishDrop: UNLINK of the register and of the index's keys, then ClearDropJob.
Unlink(l) ==
    /\ LAt(l, "unlink") /\ exp' = {} /\ LGo(l, "clear")
    /\ UNCHANGED <<cat, listed, job, sv, row, local, cl, history, bounds>>

ClearJob(l) ==
    /\ LAt(l, "clear") /\ job' = 0 /\ LEnd(l)
    /\ raced' = (raced \/ \E m \in Leaders : m # l /\ ~LAt(m, "idle"))
    /\ UNCHANGED <<cat, listed, sv, row, exp, local, cl, gens, jumped, bounds>>

\* Sessions and controllers stop, or an error ends what they do, between any two commands.
Crash(c) ==
    /\ ~At(c, "idle") /\ faults < MaxFaults /\ faults' = faults + 1
    /\ End(c)
    /\ UNCHANGED <<store, local, ld, history, ops>>

CrashLeader(l) ==
    /\ ~LAt(l, "idle") /\ faults < MaxFaults /\ faults' = faults + 1
    /\ LEnd(l)
    /\ UNCHANGED <<store, local, cl, history, ops>>

Leader(l) ==
    \/ ListJobs(l) \/ LoadTable(l) \/ SweepShard(l) \/ ReadPage(l) \/ NoPage(l) \/ JobDelete(l)
    \/ SweepForced(l) \/ SaveCursor(l) \/ CountLeft(l) \/ Unlink(l) \/ ClearJob(l)

Session(c) ==
    \/ CreateLoad(c) \/ CreateJobs(c) \/ CreateBlind(c) \/ CreateSave(c) \/ CreateIncr(c) \/ CreateRegister(c)
    \/ DropLoad(c) \/ DropCount(c) \/ DropJobs(c) \/ DropBlind(c) \/ DropSetJob(c)
    \/ DropPage(c) \/ DropRow(c) \/ DropPageDone(c) \/ DropCat(c) \/ DropUnregister(c) \/ DropIncr(c)
    \/ GetDef(c) \/ WriteRow(c) \/ Crash(c)
    \/ \E p \in Pks : GetLease(c, p)

Next ==
    \/ \E c \in Clients : Session(c)
    \/ \E p \in Pks : Expire(p)
    \/ \E l \in Leaders : Leader(l) \/ CrashLeader(l)

Spec == Init /\ [][Next]_vars

\* Some controller ticks for ever; nothing is assumed of the others or of the statements.
FairSpec == Spec /\ WF_vars(\E l \in Leaders : Leader(l))

(***************************************************************************)
(* Properties.                                                             *)
(***************************************************************************)
\* Types; a job deletes no more rows in a tick than its budget.
TypeOK ==
    /\ {cat, job, gens, ops, faults} \subseteq Nat /\ sv \in Nat \ {0}
    /\ listed \in BOOLEAN /\ raced \in BOOLEAN /\ jumped \in BOOLEAN
    /\ row \in [Pks -> Row] /\ exp \in SUBSET Pks
    /\ cache \in [Clients -> Nat] /\ seen \in [Clients -> Nat]
    /\ cl \in [Clients -> Statement] /\ ld \in [Leaders -> Tick]

\* ddlexec.go ("the job is listed first, the catalogue goes after"): the rows that were
\* there when a DROP began are never left without either the table or a job, whoever
\* crashes where.  What can leave them is the scan's offset jumping over a row, and a
\* CREATE or a second controller that overlaps with a clean-up job.
NoLeak ==
    \A p \in Pks : (Live(p) /\ ~row[p].late /\ row[p].gen # cat /\ ~raced /\ ~jumped) => job # 0

\* ddlexec.go createTable: the rows of a dropped table are no rows of the one created
\* next, unless they were written while it was dropped or through a stale catalogue, or
\* left by one of the two above.
NoGhosts ==
    \A p \in Pks : (Live(p) /\ cat # 0 /\ ~raced /\ ~jumped) => row[p].gen = cat \/ row[p].late

\* dropjob.go: a clean-up job deletes no row of a table that is in the catalogue, unless
\* the CREATE had not seen the job or the job was cleared under another controller.
JobSpares ==
    [][\A l \in Leaders, p \in Pks :
          (ld'[l].budget < ld[l].budget /\ Live(p) /\ row[p].gen = cat /\ ~raced) => row'[p] = row[p]]_vars

\* dropjob.go: the loop ends, expired rows or not, and the job goes.
JobEnds == [](job # 0 /\ cat = 0 => <>(job = 0 \/ cat # 0))
=============================================================================
