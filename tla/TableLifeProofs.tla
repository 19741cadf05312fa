---------------------------- MODULE TableLifeProofs ----------------------------
(***************************************************************************)
(* For any number of sessions, controllers, rows, statements and crashes:  *)
(* a DROP leaves no row without the table or a clean-up job, the table     *)
(* created next has no row of the one before, and the job deletes no row   *)
(* of a table that is in the catalogue, short of the two overlaps that     *)
(* raced and jumped record.                                                *)
(***************************************************************************)
EXTENDS TableLife, FiniteSetTheorems, TLAPS

(***************************************************************************)
(* The inductive invariant.                                                *)
(***************************************************************************)
\* A row that a DROP answers for: it was there before the DROP began.
Owed(p) == Live(p) /\ ~row[p].late
NoneOwed == \A p \in Pks : ~Owed(p)

\* What a session holds follows from where it is.
SessionShape ==
    \A c \in Clients :
        /\ cl[c].pc \in Dropping => cl[c].gen # 0
        /\ cl[c].pc = "w.row" => cl[c].gen # 0 /\ cl[c].pk \in Pks
        /\ cl[c].pc = "w.def" => cl[c].pk \in Pks
        /\ cl[c].pc \in {"c.jobs", "c.save"} => cl[c].gen = 0
        /\ cl[c].pc \in {"d.count", "d.big", "d.small"} => cl[c].got = {}

\* A controller at work has the job's definition.
LeaderShape == \A l \in Leaders : ld[l].pc # "idle" => ld[l].gen # 0

\* Controllers work on a job that is listed; past their look at the catalogue the job's
\* table is gone, and stays gone until the job is.
JobAlone ==
    \A l \in Leaders :
        /\ ld[l].pc # "idle" => job # 0
        /\ ld[l].pc \notin {"idle", "load"} => cat = 0

\* The register has every row that a DROP answers for.
Registered == \A p \in Pks : Owed(p) => p \in exp

\* A synchronous DROP has every row it answers for on its list, or has it to read yet.
Ahead(c, p) ==
    /\ cl[c].pc = "d.scan" => p \notin cl[c].got
    /\ cl[c].pc = "d.rows" => p \in cl[c].todo \/ (cl[c].full /\ p \notin cl[c].got)
DropHasAll == \A c \in Clients : \A p \in Pks : Owed(p) => Ahead(c, p)

\* The catalogue is about to go: the rows are gone or a job answers for them.
DropCovered == \A c \in Clients : cl[c].pc = "d.cat" => job # 0 \/ NoneOwed

\* The job is about to go: so are the rows.
JobDone == \A l \in Leaders : ld[l].pc \in {"unlink", "clear"} => NoneOwed

\* Without a table a job answers for the rows; with one they are its own.
TableCovered ==
    /\ cat = 0 => job # 0 \/ NoneOwed
    /\ cat # 0 => \A p \in Pks : Owed(p) => row[p].gen = cat

Covered == Registered /\ DropHasAll /\ DropCovered /\ JobDone /\ TableCovered
IInv ==
    /\ TypeOK /\ SessionShape /\ LeaderShape
    /\ raced \/ JobAlone
    /\ raced \/ jumped \/ Covered

(***************************************************************************)
(* Types.                                                                  *)
(***************************************************************************)
LEMMA PksFinite == IsFiniteSet(Pks)
BY FS_Interval, TableLifeAssumption DEF Pks

\* A page is a part of the register; what is not full is the rest of it.
LEMMA FirstFacts ==
    ASSUME NEW S \in SUBSET Pks, NEW n, NEW P \in First(S, n)
    PROVE  P \in SUBSET S /\ P \in SUBSET Pks /\ Cardinality(P) \in Nat /\ (Cardinality(P) # n => P = S)
<1>1. P \in SUBSET S /\ (Cardinality(P) # n => P = S) BY DEF First
<1>2. P \in SUBSET Pks BY <1>1
<1>3. IsFiniteSet(P) BY <1>2, PksFinite, FS_Subset
<1>4. QED BY <1>1, <1>2, <1>3, FS_CardinalityType

LEMMA Idle ==
    /\ NoRow \in Row
    /\ IdleC \in Statement
    /\ IdleL \in Tick
BY TableLifeAssumption DEF NoRow, IdleC, IdleL, SessionPcs, LeaderPcs, Row, Statement, Tick

\* A step of a session from one place to the next.
LEMMA GoType ==
    ASSUME TypeOK, NEW c \in Clients, NEW k \in SessionPcs, Go(c, k)
    PROVE  cl' \in [Clients -> Statement]
BY DEF TypeOK, Go, Statement

LEMMA EndType ==
    ASSUME TypeOK, NEW c \in Clients, End(c)
    PROVE  cl' \in [Clients -> Statement]
BY Idle DEF TypeOK, End

LEMMA InvalidateType ==
    ASSUME TypeOK, NEW c \in Clients, Invalidate(c)
    PROVE  cache' \in [Clients -> Nat] /\ seen' \in [Clients -> Nat]
BY DEF TypeOK, Invalidate

LEMMA DeleteType ==
    ASSUME TypeOK, NEW p \in Pks, Delete(p)
    PROVE  row' \in [Pks -> Row] /\ exp' \in SUBSET Pks
BY Idle DEF TypeOK, Delete

\* What a page leaves in the record of the session.
LEMMA PageType ==
    ASSUME TypeOK, NEW c \in Clients, DropPage(c)
    PROVE  \E skip \in SUBSET exp : \E page \in SUBSET (exp \ skip) :
              /\ cl'[c] = [cl[c] EXCEPT !.pc = "d.rows", !.cursor = cl[c].cursor + Cardinality(page),
                       !.got = cl[c].got \cup page, !.todo = {p \in page : Live(p)},
                       !.full = (Cardinality(page) = Batch)]
              /\ cl' = [cl EXCEPT ![c] = cl'[c]]
              /\ cl'[c] \in Statement
              /\ jumped' = (jumped \/ ~(skip \subseteq cl[c].got))
              /\ Cardinality(page) # Batch => page = exp \ skip
<1>1. PICK skip \in First(exp, cl[c].cursor) : \E page \in First(exp \ skip, Batch) :
          /\ cl' = [cl EXCEPT ![c] = [cl[c] EXCEPT !.pc = "d.rows", !.cursor = cl[c].cursor + Cardinality(page),
                       !.got = cl[c].got \cup page, !.todo = {p \in page : Live(p)},
                       !.full = (Cardinality(page) = Batch)]]
          /\ jumped' = (jumped \/ ~(skip \subseteq cl[c].got))
  BY DEF DropPage
<1>2. PICK page \in First(exp \ skip, Batch) :
          /\ cl' = [cl EXCEPT ![c] = [cl[c] EXCEPT !.pc = "d.rows", !.cursor = cl[c].cursor + Cardinality(page),
                       !.got = cl[c].got \cup page, !.todo = {p \in page : Live(p)},
                       !.full = (Cardinality(page) = Batch)]]
          /\ jumped' = (jumped \/ ~(skip \subseteq cl[c].got))
  BY <1>1
<1>3. exp \in SUBSET Pks /\ cl \in [Clients -> Statement] BY DEF TypeOK
<1>4. skip \in SUBSET exp BY <1>3, FirstFacts
<1>5. exp \ skip \in SUBSET Pks BY <1>3
<1>6. /\ page \in SUBSET (exp \ skip) /\ page \in SUBSET Pks /\ Cardinality(page) \in Nat
      /\ Cardinality(page) # Batch => page = exp \ skip
  BY <1>5, FirstFacts
<1>n. PICK n \in Nat : n = Cardinality(page) BY <1>6
<1>t. PICK t \in SUBSET Pks : t = {p \in page : Live(p)} BY <1>6
<1>7. (n = Batch) \in BOOLEAN OBVIOUS
<1>f. PICK f \in BOOLEAN : f = (n = Batch) BY <1>7, Zenon
<1>r. PICK r : r = [cl[c] EXCEPT !.pc = "d.rows", !.cursor = cl[c].cursor + n, !.got = cl[c].got \cup page,
                                 !.todo = t, !.full = f]
  OBVIOUS
<1>8. cl'[c] = r
  <2>1. cl' = [cl EXCEPT ![c] = r]
    BY <1>2, <1>3, <1>n, <1>t, <1>f, <1>r, Zenon
  <2>2. QED BY <1>3, <2>1
<1>9. cl'[c] \in Statement
  <2>1. cl[c] \in Statement BY <1>3
  <2>2. cl[c].cursor + n \in Nat /\ cl[c].got \cup page \in SUBSET Pks BY <1>6, <2>1 DEF Statement
  <2>3. "d.rows" \in SessionPcs BY DEF SessionPcs, Dropping
  <2>4. r \in Statement BY <1>r, <2>1, <2>2, <2>3 DEF Statement
  <2>5. QED BY <1>8, <2>4
<1>10. cl'[c] = [cl[c] EXCEPT !.pc = "d.rows", !.cursor = cl[c].cursor + Cardinality(page),
                       !.got = cl[c].got \cup page, !.todo = {p \in page : Live(p)},
                       !.full = (Cardinality(page) = Batch)]
  BY <1>8, <1>r, <1>n, <1>t, <1>f, Zenon
<1>11. cl' = [cl EXCEPT ![c] = cl'[c]] BY <1>2, <1>3, <1>10, Zenon
<1>12. QED BY <1>2, <1>4, <1>6, <1>9, <1>10, <1>11

\* Every action of a session keeps the types.
LEMMA SessionType ==
    ASSUME TypeOK, SessionShape, NEW c \in Clients, Session(c)
    PROVE  TypeOK'
<1> USE DEF store, local, bounds, history
<1>L. /\ {"idle", "c.jobs", "c.save", "c.incr", "c.reg", "d.unreg", "d.incr", "w.def", "w.row"} \subseteq SessionPcs
      /\ {"d.count", "d.big", "d.small", "d.job", "d.scan", "d.rows", "d.cat"} \subseteq SessionPcs
  BY DEF SessionPcs, Dropping
<1>1. CASE CreateLoad(c)
  <2>1. cl' \in [Clients -> Statement]
    BY <1>1, <1>L, Idle DEF CreateLoad, TypeOK, Statement
  <2>2. QED BY <1>1, <2>1 DEF CreateLoad, Begin, TypeOK
<1>2. CASE DropLoad(c)
  <2>1. cl' \in [Clients -> Statement] BY <1>2, <1>L, Idle DEF DropLoad, TypeOK, Statement
  <2>2. QED BY <1>2, <2>1 DEF DropLoad, Begin, TypeOK
<1>3. CASE CreateBlind(c) BY <1>3, <1>L, GoType DEF CreateBlind, TypeOK
<1>4. CASE Crash(c) BY <1>4, EndType DEF Crash, TypeOK
<1>5. CASE CreateJobs(c)
  <2>1. CASE MayCreate
    <3>0. job \in Nat /\ cl \in [Clients -> Statement] BY DEF TypeOK
    <3>1. cl' \in [Clients -> Statement] BY <1>5, <2>1, <3>0, <1>L DEF CreateJobs, Statement
    <3>2. QED BY <1>5, <2>1, <3>1 DEF CreateJobs, TypeOK
  <2>2. CASE ~MayCreate BY <1>5, <2>2, EndType DEF CreateJobs, TypeOK
  <2>3. QED BY <2>1, <2>2
<1>6. CASE CreateSave(c)
  <2>1. raced' \in BOOLEAN BY <1>6 DEF CreateSave, TypeOK
  <2>2. CASE cat = 0 BY <1>6, <2>1, <2>2, <1>L, GoType DEF CreateSave, TypeOK
  <2>3. CASE cat # 0 BY <1>6, <2>3, EndType DEF CreateSave, TypeOK
  <2>4. QED BY <2>2, <2>3
<1>7. CASE CreateIncr(c) BY <1>7, <1>L, GoType DEF CreateIncr, TypeOK
<1>8. CASE CreateRegister(c) BY <1>8, EndType, InvalidateType DEF CreateRegister, TypeOK
<1>9. CASE DropCount(c)
  <2>1. Go(c, "d.big") \/ Go(c, "d.small") BY <1>9 DEF DropCount
  <2>2. cl' \in [Clients -> Statement] BY <1>L, <2>1, GoType
  <2>3. QED BY <1>9, <2>2 DEF DropCount, TypeOK
<1>10. CASE DropJobs(c)
  BY <1>10, <1>L, GoType DEF DropJobs, NoJob, TypeOK
<1>11. CASE DropSetJob(c)
  <2>1. cl[c].gen \in Nat BY DEF TypeOK, Statement
  <2>2. QED BY <1>11, <1>L, <2>1, GoType DEF DropSetJob, TypeOK
<1>12. CASE DropBlind(c)
  BY <1>12, <1>L, GoType DEF DropBlind, NoJob, TypeOK
<1>13. CASE DropPage(c)
  <2>1. cl'[c] \in Statement /\ cl' = [cl EXCEPT ![c] = cl'[c]] /\ jumped' \in BOOLEAN
    <3>1. PICK skip \in SUBSET exp : \E page \in SUBSET (exp \ skip) :
              /\ cl' = [cl EXCEPT ![c] = cl'[c]]
              /\ cl'[c] \in Statement
              /\ jumped' = (jumped \/ ~(skip \subseteq cl[c].got))
      BY <1>13, PageType
    <3>2. QED BY <3>1
  <2>2. cl' \in [Clients -> Statement] BY <2>1 DEF TypeOK
  <2>3. QED BY <1>13, <2>1, <2>2 DEF DropPage, TypeOK
<1>14. CASE DropRow(c)
  <2>1. PICK p \in cl[c].todo : Delete(p) /\ cl' = [cl EXCEPT ![c].todo = @ \ {p}] BY <1>14 DEF DropRow
  <2>2. p \in Pks BY DEF TypeOK, Statement
  <2>3. row' \in [Pks -> Row] /\ exp' \in SUBSET Pks BY <2>1, <2>2, DeleteType
  <2>4. cl' \in [Clients -> Statement] BY <2>1 DEF TypeOK, Statement
  <2>5. QED BY <1>14, <2>3, <2>4 DEF DropRow, TypeOK
<1>15. CASE DropPageDone(c)
  <2>1. PICK k \in SessionPcs : k = PageDone(cl[c].full) BY <1>L DEF PageDone
  <2>2. Go(c, k) BY <1>15, <2>1 DEF DropPageDone
  <2>3. cl' \in [Clients -> Statement] BY <2>2, GoType
  <2>4. QED BY <1>15, <2>3 DEF DropPageDone, TypeOK
<1>16. CASE DropCat(c)
  <2>1. cl' \in [Clients -> Statement] BY <1>16, <1>L, Idle DEF DropCat, TypeOK, Statement
  <2>2. QED BY <1>16, <2>1 DEF DropCat, TypeOK
<1>17. CASE DropUnregister(c) BY <1>17, <1>L, GoType DEF DropUnregister, TypeOK
<1>18. CASE DropIncr(c) BY <1>18, EndType, InvalidateType DEF DropIncr, TypeOK
<1>19. CASE GetDef(c)
  <2> DEFINE g == IF cache[c] # 0 THEN cache[c] ELSE cat
  <2>1. g \in Nat BY DEF TypeOK
  <2>2. /\ cache' = [cache EXCEPT ![c] = g]
        /\ cl' = [cl EXCEPT ![c] = IF g = 0 THEN IdleC ELSE [@ EXCEPT !.pc = "w.row", !.gen = g]]
    BY <1>19 DEF GetDef
  <2> HIDE DEF g
  <2>3. cl' \in [Clients -> Statement]
    BY <1>L, <2>1, <2>2, Idle DEF TypeOK, Statement
  <2>4. QED BY <1>19, <2>1, <2>2, <2>3 DEF GetDef, TypeOK
<1>20. CASE WriteRow(c)
  <2>1. cl[c].pk \in Pks BY <1>20 DEF WriteRow, At, SessionShape
  <2>2. Late(cl[c].gen) \in BOOLEAN BY DEF Late
  <2>3. [gen |-> cl[c].gen, late |-> Late(cl[c].gen)] \in Row
    BY <2>2 DEF TypeOK, Row, Statement
  <2>4. row' \in [Pks -> Row] /\ exp' \in SUBSET Pks
    BY <1>20, <2>1, <2>3 DEF WriteRow, TypeOK
  <2>5. QED BY <1>20, <2>4, EndType DEF WriteRow, TypeOK
<1>21. ASSUME NEW p \in Pks, GetLease(c, p) PROVE TypeOK'
  <2>1. cl' \in [Clients -> Statement]
    BY <1>21, <1>L, Idle DEF GetLease, TypeOK, Statement
  <2>2. cache' \in [Clients -> Nat] /\ seen' \in [Clients -> Nat]
    BY <1>21 DEF GetLease, TypeOK
  <2>3. ops' \in Nat
    <3>1. ops \in Nat BY DEF TypeOK
    <3>2. ops' = ops + 1 BY <1>21 DEF GetLease, Begin
    <3>3. QED BY <3>1, <3>2
  <2>4. UNCHANGED <<store, ld, history, faults>> BY <1>21 DEF GetLease
  <2>5. QED BY <2>1, <2>2, <2>3, <2>4 DEF TypeOK
<1>22. QED
  BY <1>1, <1>2, <1>3, <1>4, <1>5, <1>6, <1>7, <1>8, <1>9, <1>10, <1>11, <1>12, <1>13, <1>14,
     <1>15, <1>16, <1>17, <1>18, <1>19, <1>20, <1>21 DEF Session

\* Where a step of a controller leads, and what it has then.
LEMMA LeaderFacts ==
    ASSUME TypeOK, NEW l \in Leaders, Leader(l) \/ CrashLeader(l)
    PROVE  /\ ld' \in [Leaders -> Tick]
           /\ \A m \in Leaders : m # l => ld'[m] = ld[m]
           /\ ld'[l].pc \in {"idle", "load"} \/ ld'[l].gen = ld[l].gen
           /\ ld'[l].pc = "load" => ld'[l].gen = job /\ job # 0
<1> USE DEF LAt
<1>L. {"idle", "load", "sweep", "page", "rows", "cursor", "card", "unlink", "clear"} \subseteq LeaderPcs
  BY DEF LeaderPcs
<1>T. ld \in [Leaders -> Tick] /\ ld[l] \in Tick /\ job \in Nat BY DEF TypeOK
<1>G. ASSUME NEW k \in LeaderPcs \ {"load"}, LGo(l, k) \/ Past(l, k)
      PROVE  /\ ld' \in [Leaders -> Tick]
             /\ \A m \in Leaders : m # l => ld'[m] = ld[m]
             /\ ld'[l].gen = ld[l].gen /\ ld'[l].pc = k
  <2>1. CASE LGo(l, k) BY <1>T, <1>G, <2>1 DEF LGo, Tick
  <2>2. CASE Past(l, k)
    <3>1. [IdleL EXCEPT !.pc = k, !.gen = ld[l].gen] \in Tick BY <1>T, <1>G, Idle DEF Tick
    <3>2. QED BY <1>T, <2>2, <3>1 DEF Past, IdleL
  <2>3. QED BY <1>G, <2>1, <2>2
<1>E. ASSUME LEnd(l)
      PROVE  /\ ld' \in [Leaders -> Tick]
             /\ \A m \in Leaders : m # l => ld'[m] = ld[m]
             /\ ld'[l].pc = "idle"
  BY <1>T, <1>E, Idle DEF LEnd, IdleL
<1>1. CASE ListJobs(l)
  <2>1. [IdleL EXCEPT !.pc = "load", !.gen = job] \in Tick BY <1>T, <1>L, Idle DEF Tick
  <2>2. QED BY <1>1, <1>T, <2>1 DEF ListJobs, IdleL
<1>2. CASE LoadTable(l)
  <2>1. CASE DropUnderWay BY <1>2, <1>E, <2>1 DEF LoadTable
  <2>2. CASE ~DropUnderWay
    <3>1. RowsPerTick \in 0 .. RowsPerTick BY TableLifeAssumption
    <3>2. [ld[l] EXCEPT !.pc = "sweep", !.budget = RowsPerTick] \in Tick BY <1>T, <1>L, <3>1 DEF Tick
    <3>3. ld' = [ld EXCEPT ![l] = [@ EXCEPT !.pc = "sweep", !.budget = RowsPerTick]]
      BY <1>2, <2>2 DEF LoadTable
    <3>4. ld'[l].pc = "sweep" /\ ld'[l].gen = ld[l].gen BY <1>T, <3>3 DEF Tick
    <3>5. QED BY <1>T, <3>2, <3>3, <3>4
  <2>3. QED BY <2>1, <2>2
<1>3. CASE SweepShard(l) BY <1>3, <1>L, <1>G DEF SweepShard
<1>4. CASE ReadPage(l)
  <2>1. PICK page \in First(exp, Batch) :
          ld' = [ld EXCEPT ![l] = [@ EXCEPT !.pc = "rows", !.page = page,
                                            !.full = (Cardinality(page) = Batch)]]
    BY <1>4 DEF ReadPage
  <2>2. page \in SUBSET Pks BY FirstFacts DEF TypeOK
  <2>3. (Cardinality(page) = Batch) \in BOOLEAN OBVIOUS
  <2>f. PICK f \in BOOLEAN : f = (Cardinality(page) = Batch) BY <2>3, Zenon
  <2>4. ld' = [ld EXCEPT ![l] = [@ EXCEPT !.pc = "rows", !.page = page, !.full = f]] BY <2>1, <2>f, Zenon
  <2>5. [ld[l] EXCEPT !.pc = "rows", !.page = page, !.full = f] \in Tick BY <1>T, <1>L, <2>2 DEF Tick
  <2>6. ld'[l].pc = "rows" /\ ld'[l].gen = ld[l].gen BY <1>T, <2>4 DEF Tick
  <2>7. QED BY <1>T, <2>4, <2>5, <2>6
<1>5. CASE NoPage(l) BY <1>5, <1>L, <1>G DEF NoPage
<1>6. CASE JobDelete(l)
  <2>1. PICK p \in ld[l].page :
          ld' = [ld EXCEPT ![l] = [ld[l] EXCEPT !.page = ld[l].page \ {p}, !.budget = ld[l].budget - 1,
                                  !.dead = ld[l].dead \cup {q \in {p} : ~Live(q)}]]
    BY <1>6 DEF JobDelete
  <2>d. PICK dd : dd = ld[l].dead \cup {q \in {p} : ~Live(q)} OBVIOUS
  <2>2. p \in Pks /\ dd \in SUBSET Pks /\ ld[l].page \ {p} \in SUBSET Pks BY <1>T, <2>d DEF Tick
  <2>3. ld[l].budget - 1 \in 0 .. RowsPerTick BY <1>6, <1>T, TableLifeAssumption DEF JobDelete, Tick
  <2>b. PICK b \in 0 .. RowsPerTick : b = ld[l].budget - 1 BY <2>3
  <2>r. PICK r : r = [ld[l] EXCEPT !.page = ld[l].page \ {p}, !.budget = b, !.dead = dd] OBVIOUS
  <2>4. ld' = [ld EXCEPT ![l] = r] BY <1>T, <2>1, <2>d, <2>b, <2>r, Zenon
  <2>5. r \in Tick BY <1>T, <2>2, <2>r DEF Tick
  <2>6. ld'[l].pc = "rows" /\ ld'[l].gen = ld[l].gen BY <1>6, <1>T, <2>4, <2>r DEF Tick, JobDelete
  <2>7. QED BY <1>T, <2>4, <2>5, <2>6
<1>7. CASE SweepForced(l)
  <2>1. CASE ld[l].full
    <3>1. ld' = [ld EXCEPT ![l] = [@ EXCEPT !.pc = "page", !.page = {}, !.dead = {}, !.full = FALSE]]
      BY <1>7, <2>1 DEF SweepForced
    <3>2. [ld[l] EXCEPT !.pc = "page", !.page = {}, !.dead = {}, !.full = FALSE] \in Tick
      BY <1>T, <1>L DEF Tick
    <3>3. ld'[l].pc = "page" /\ ld'[l].gen = ld[l].gen BY <1>T, <3>1 DEF Tick
    <3>4. QED BY <1>T, <3>1, <3>2, <3>3
  <2>2. CASE ~ld[l].full BY <1>7, <1>L, <1>G, <2>2 DEF SweepForced
  <2>3. QED BY <2>1, <2>2
<1>8. CASE SaveCursor(l) BY <1>8, <1>L, <1>G DEF SaveCursor
<1>9. CASE CountLeft(l) BY <1>9, <1>L, <1>G, <1>E DEF CountLeft
<1>10. CASE Unlink(l) BY <1>10, <1>L, <1>G DEF Unlink
<1>11. CASE ClearJob(l) BY <1>11, <1>E DEF ClearJob
<1>12. CASE CrashLeader(l) BY <1>12, <1>E DEF CrashLeader
<1>13. QED
  BY <1>1, <1>2, <1>3, <1>4, <1>5, <1>6, <1>7, <1>8, <1>9, <1>10, <1>11, <1>12 DEF Leader

\* Every action of a controller keeps the types, and so does the clock.
LEMMA LeaderType ==
    ASSUME TypeOK, NEW l \in Leaders, Leader(l) \/ CrashLeader(l)
    PROVE  TypeOK'
<1> USE DEF store, local, bounds, history
<1>0. ld' \in [Leaders -> Tick] BY LeaderFacts
<1>T. ld[l] \in Tick BY DEF TypeOK
<1>1. CASE ListJobs(l) BY <1>0, <1>1 DEF ListJobs, TypeOK
<1>2. CASE LoadTable(l) BY <1>0, <1>2 DEF LoadTable, TypeOK
<1>3. CASE SweepShard(l) BY <1>0, <1>3 DEF SweepShard, TypeOK
<1>4. CASE ReadPage(l) BY <1>0, <1>4 DEF ReadPage, TypeOK
<1>5. CASE NoPage(l) BY <1>0, <1>5 DEF NoPage, TypeOK
<1>6. CASE JobDelete(l)
  <2>1. PICK p \in ld[l].page : Delete(p) BY <1>6 DEF JobDelete
  <2>2. p \in Pks BY <1>T DEF Tick
  <2>3. row' \in [Pks -> Row] /\ exp' \in SUBSET Pks BY <2>1, <2>2, DeleteType
  <2>4. QED BY <1>0, <1>6, <2>3 DEF JobDelete, TypeOK
<1>7. CASE SweepForced(l) BY <1>0, <1>7 DEF SweepForced, TypeOK
<1>8. CASE SaveCursor(l) BY <1>0, <1>8, <1>T DEF SaveCursor, TypeOK, Tick
<1>9. CASE CountLeft(l) BY <1>0, <1>9 DEF CountLeft, TypeOK
<1>10. CASE Unlink(l) BY <1>0, <1>10 DEF Unlink, TypeOK
<1>11. CASE ClearJob(l)
  <2>1. raced' \in BOOLEAN BY <1>11 DEF ClearJob, TypeOK
  <2>2. QED BY <1>0, <1>11, <2>1 DEF ClearJob, TypeOK
<1>12. CASE CrashLeader(l) BY <1>0, <1>12 DEF CrashLeader, TypeOK
<1>13. QED
  BY <1>1, <1>2, <1>3, <1>4, <1>5, <1>6, <1>7, <1>8, <1>9, <1>10, <1>11, <1>12 DEF Leader

LEMMA ClockType ==
    ASSUME TypeOK, (\E p \in Pks : Expire(p)) \/ UNCHANGED vars
    PROVE  TypeOK'
<1> USE DEF store, local, bounds, history
<1>1. ASSUME NEW p \in Pks, Expire(p) PROVE TypeOK' BY <1>1, Idle DEF Expire, TypeOK
<1>2. CASE UNCHANGED vars BY <1>2 DEF vars, TypeOK
<1>3. QED BY <1>1, <1>2

(***************************************************************************)
(* What the steps do to a session and to a controller.                     *)
(***************************************************************************)
\* A step of a session: what the record is after it, and the other sessions.
LEMMA GoFacts ==
    ASSUME TypeOK, NEW c \in Clients, NEW k, Go(c, k)
    PROVE  /\ cl'[c].pc = k /\ cl'[c].gen = cl[c].gen /\ cl'[c].pk = cl[c].pk
           /\ cl'[c].todo = cl[c].todo /\ cl'[c].got = cl[c].got
           /\ \A d \in Clients : d # c => cl'[d] = cl[d]
BY DEF TypeOK, Go, Statement

LEMMA EndFacts ==
    ASSUME TypeOK, NEW c \in Clients, End(c)
    PROVE  /\ cl'[c].pc = "idle"
           /\ \A d \in Clients : d # c => cl'[d] = cl[d]
BY DEF TypeOK, End, IdleC

\* Where the steps of a session lead.
SessionMoves(c) ==
    /\ \A d \in Clients : d # c => cl'[d] = cl[d]
    /\ cl'[c].pc \in Dropping => cl'[c].gen # 0
    /\ cl'[c].pc = "w.row" => cl'[c].gen # 0 /\ cl'[c].pk \in Pks
    /\ cl'[c].pc = "w.def" => cl'[c].pk \in Pks
    /\ cl'[c].pc \in {"c.jobs", "c.save"} => cl'[c].gen = 0
    /\ cl'[c].pc \in {"d.count", "d.big", "d.small"} => cl'[c].got = {}

LEMMA MovesKeepShape ==
    ASSUME SessionShape, NEW c \in Clients, SessionMoves(c)
    PROVE  SessionShape'
BY DEF SessionShape, SessionMoves

LEMMA SessionFacts ==
    ASSUME TypeOK, SessionShape, NEW c \in Clients, Session(c)
    PROVE  SessionMoves(c)
<1> USE DEF At, SessionMoves, SessionShape, Dropping
<1>0. cl[c] \in Statement BY DEF TypeOK
<1>1. CASE CreateLoad(c)
  <2>1. cl' = [cl EXCEPT ![c] = [IdleC EXCEPT !.pc = "c.jobs"]] BY <1>1 DEF CreateLoad
  <2>2. QED BY <2>1, <1>0 DEF IdleC, TypeOK, Statement
<1>2. CASE DropLoad(c) BY <1>2, <1>0 DEF DropLoad, Begin, IdleC, TypeOK, Statement
<1>3. CASE CreateBlind(c) BY <1>3, GoFacts DEF CreateBlind
<1>4. CASE Crash(c) BY <1>4, EndFacts DEF Crash
<1>5. CASE CreateJobs(c)
  <2>1. CASE MayCreate
    <3>1. cl' = [cl EXCEPT ![c] = [cl[c] EXCEPT !.pc = "c.save", !.gen = job]] /\ job = 0
      BY <1>5, <2>1 DEF CreateJobs, MayCreate
    <3>2. cl'[c] = [cl[c] EXCEPT !.pc = "c.save", !.gen = job] BY <3>1 DEF TypeOK
    <3>3. cl'[c].pc = "c.save" /\ cl'[c].gen = 0 BY <1>0, <3>1, <3>2 DEF Statement
    <3>4. \A d \in Clients : d # c => cl'[d] = cl[d] BY <3>1 DEF TypeOK
    <3>5. QED BY <3>3, <3>4
  <2>2. CASE ~MayCreate BY <1>5, <2>2, EndFacts DEF CreateJobs
  <2>3. QED BY <2>1, <2>2
<1>6. CASE CreateSave(c)
  <2>1. CASE cat = 0 BY <1>6, <2>1, GoFacts DEF CreateSave
  <2>2. CASE cat # 0 BY <1>6, <2>2, EndFacts DEF CreateSave
  <2>3. QED BY <2>1, <2>2
<1>7. CASE CreateIncr(c) BY <1>7, GoFacts DEF CreateIncr
<1>8. CASE CreateRegister(c) BY <1>8, EndFacts DEF CreateRegister
<1>9. CASE DropCount(c)
  <2>1. (Go(c, "d.big") \/ Go(c, "d.small")) /\ cl[c].pc = "d.count" BY <1>9 DEF DropCount
  <2>2. QED BY <2>1, GoFacts
<1>10. CASE DropJobs(c) BY <1>10, GoFacts DEF DropJobs, NoJob
<1>11. CASE DropSetJob(c) BY <1>11, GoFacts DEF DropSetJob
<1>12. CASE DropBlind(c) BY <1>12, GoFacts DEF DropBlind, NoJob
<1>13. CASE DropPage(c)
  <2>1. PICK skip \in SUBSET exp : \E page \in SUBSET (exp \ skip) :
              /\ cl'[c] = [cl[c] EXCEPT !.pc = "d.rows", !.cursor = cl[c].cursor + Cardinality(page),
                       !.got = cl[c].got \cup page, !.todo = {p \in page : Live(p)},
                       !.full = (Cardinality(page) = Batch)]
              /\ cl' = [cl EXCEPT ![c] = cl'[c]]
    BY <1>13, PageType
  <2>2. cl'[c].pc = "d.rows" /\ cl'[c].gen = cl[c].gen BY <1>0, <2>1 DEF Statement
  <2>3. \A d \in Clients : d # c => cl'[d] = cl[d] BY <2>1 DEF TypeOK
  <2>4. cl[c].gen # 0 BY <1>13 DEF DropPage
  <2>5. QED BY <2>2, <2>3, <2>4
<1>14. CASE DropRow(c)
  <2>1. PICK p \in cl[c].todo : cl' = [cl EXCEPT ![c].todo = @ \ {p}] BY <1>14 DEF DropRow
  <2>2. cl'[c].pc = cl[c].pc /\ cl'[c].gen = cl[c].gen /\ \A d \in Clients : d # c => cl'[d] = cl[d]
    BY <1>0, <2>1 DEF TypeOK, Statement
  <2>3. cl[c].pc = "d.rows" BY <1>14 DEF DropRow
  <2>4. QED BY <2>2, <2>3
<1>15. CASE DropPageDone(c)
  <2>1. PICK k \in {"d.scan", "d.cat"} : Go(c, k) BY <1>15 DEF DropPageDone, PageDone
  <2>2. cl[c].pc = "d.rows" BY <1>15 DEF DropPageDone
  <2>3. QED BY <2>1, <2>2, GoFacts
<1>16. CASE DropCat(c) BY <1>16, <1>0 DEF DropCat, IdleC, TypeOK, Statement
<1>17. CASE DropUnregister(c) BY <1>17, GoFacts DEF DropUnregister
<1>18. CASE DropIncr(c) BY <1>18, EndFacts DEF DropIncr
<1>19. CASE GetDef(c)
  <2> DEFINE g == IF cache[c] # 0 THEN cache[c] ELSE cat
  <2>1. cl' = [cl EXCEPT ![c] = IF g = 0 THEN IdleC ELSE [@ EXCEPT !.pc = "w.row", !.gen = g]]
    BY <1>19 DEF GetDef
  <2> HIDE DEF g
  <2>2. CASE g = 0 BY <2>1, <2>2 DEF IdleC, TypeOK
  <2>3. CASE g # 0
    <3>1. cl'[c] = [cl[c] EXCEPT !.pc = "w.row", !.gen = g] BY <2>1, <2>3 DEF TypeOK
    <3>2. cl'[c].pc = "w.row" /\ cl'[c].gen = g /\ cl'[c].pk = cl[c].pk BY <1>0, <3>1 DEF Statement
    <3>3. \A d \in Clients : d # c => cl'[d] = cl[d] BY <2>1 DEF TypeOK
    <3>4. cl[c].pk \in Pks BY <1>19 DEF GetDef
    <3>5. QED BY <2>3, <3>2, <3>3, <3>4
  <2>4. QED BY <2>2, <2>3
<1>20. CASE WriteRow(c) BY <1>20, EndFacts DEF WriteRow
<1>21. ASSUME NEW p \in Pks, GetLease(c, p) PROVE SessionMoves(c)
  BY <1>21, <1>0 DEF GetLease, IdleC, TypeOK, Statement
<1>22. QED
  BY <1>1, <1>2, <1>3, <1>4, <1>5, <1>6, <1>7, <1>8, <1>9, <1>10, <1>11, <1>12, <1>13, <1>14,
     <1>15, <1>16, <1>17, <1>18, <1>19, <1>20, <1>21 DEF Session

\* Only the statements and their errors move a session; only a controller moves a controller.
LEMMA SessionLeavesLeaders ==
    ASSUME NEW c \in Clients, Session(c)
    PROVE  ld' = ld
BY DEF Session, CreateLoad, CreateJobs, CreateBlind, CreateSave, CreateIncr, CreateRegister,
       DropLoad, DropCount, DropJobs, DropBlind, DropSetJob, DropPage, DropRow, DropPageDone,
       DropCat, DropUnregister, DropIncr, GetDef, WriteRow, Crash, GetLease

LEMMA LeaderLeavesSessions ==
    ASSUME NEW l \in Leaders, Leader(l) \/ CrashLeader(l)
    PROVE  UNCHANGED <<cat, cl, jumped>>
BY DEF Leader, ListJobs, LoadTable, SweepShard, ReadPage, NoPage, JobDelete, SweepForced,
       SaveCursor, CountLeft, Unlink, ClearJob, CrashLeader, store, history

\* A controller at work has the job's definition, whoever moves.
LEMMA LeaderShapeStep ==
    ASSUME TypeOK, LeaderShape, [Next]_vars
    PROVE  LeaderShape'
<1>1. ASSUME ld' = ld PROVE LeaderShape' BY <1>1 DEF LeaderShape
<1>2. ASSUME NEW c \in Clients, Session(c) PROVE LeaderShape' BY <1>1, <1>2, SessionLeavesLeaders
<1>3. ASSUME NEW l \in Leaders, Leader(l) \/ CrashLeader(l) PROVE LeaderShape'
  <2>1. /\ \A m \in Leaders : m # l => ld'[m] = ld[m]
        /\ ld'[l].pc \in {"idle", "load"} \/ ld'[l].gen = ld[l].gen
        /\ ld'[l].pc = "load" => ld'[l].gen = job /\ job # 0
    BY <1>3, LeaderFacts
  <2>2. ld[l].pc = "idle" => ld'[l].pc \in {"idle", "load"}
    <3>1. CASE ListJobs(l)
      <4>1. ld'[l] = [IdleL EXCEPT !.pc = "load", !.gen = job] BY <3>1 DEF ListJobs, TypeOK
      <4>2. QED BY <4>1 DEF IdleL
    <3>2. CASE ~ListJobs(l)
      BY <1>3, <3>2 DEF Leader, LoadTable, SweepShard, ReadPage, NoPage, JobDelete,
         SweepForced, SaveCursor, CountLeft, Unlink, ClearJob, CrashLeader, LAt
    <3>3. QED BY <3>1, <3>2
  <2>3. QED BY <2>1, <2>2 DEF LeaderShape
<1>4. ASSUME NEW p \in Pks, Expire(p) PROVE LeaderShape' BY <1>1, <1>4 DEF Expire
<1>5. CASE UNCHANGED vars BY <1>1, <1>5 DEF vars
<1>6. QED BY <1>2, <1>3, <1>4, <1>5 DEF Next

\* Without a race the job and the table are never there together under a controller.
LEMMA JobAloneStep ==
    ASSUME TypeOK, SessionShape, LeaderShape, raced \/ JobAlone, [Next]_vars
    PROVE  (raced \/ JobAlone)'
<1> SUFFICES ASSUME ~raced' PROVE JobAlone'
  BY DEF TypeOK
<1> USE DEF store, local, bounds, history, At, LAt
<1>0. ASSUME JobAlone, ld' = ld, job # 0 => job' # 0, cat' = cat \/ cat' = 0 PROVE JobAlone'
  BY <1>0 DEF JobAlone
<1>1. ASSUME NEW c \in Clients, Session(c) PROVE JobAlone'
  <2>0. ld' = ld BY <1>1, SessionLeavesLeaders
  <2>1. CASE CreateSave(c)
    <3>1. JobAlone /\ cl[c].gen = 0 BY <2>1 DEF CreateSave, SessionShape
    <3>2. CASE cat # 0 BY <1>0, <2>0, <2>1, <3>1, <3>2 DEF CreateSave
    <3>3. CASE cat = 0
      <4>1. job = 0 /\ job' = job BY <2>1, <3>1, <3>3 DEF CreateSave
      <4>2. \A l \in Leaders : ld'[l].pc = "idle" BY <2>0, <3>1, <4>1 DEF JobAlone
      <4>3. QED BY <4>2 DEF JobAlone
    <3>4. QED BY <3>2, <3>3
  <2>2. CASE DropSetJob(c)
    <3>1. job' # 0 /\ raced' = raced /\ cat' = cat BY <2>2 DEF DropSetJob, SessionShape, Dropping
    <3>2. QED BY <1>0, <2>0, <3>1
  <2>3. CASE DropCat(c)
    <3>1. job' = job /\ raced' = raced /\ cat' = 0 BY <2>3 DEF DropCat
    <3>2. QED BY <1>0, <2>0, <3>1
  <2>4. CASE ~CreateSave(c) /\ ~DropSetJob(c) /\ ~DropCat(c)
    <3>1. job' = job /\ raced' = raced /\ cat' = cat
      BY <1>1, <2>4 DEF Session, CreateLoad, CreateJobs, CreateBlind, CreateIncr, CreateRegister,
         DropLoad, DropCount, DropJobs, DropBlind, DropPage, DropRow, DropPageDone,
         DropUnregister, DropIncr, GetDef, WriteRow, Crash, GetLease
    <3>2. QED BY <1>0, <2>0, <3>1
  <2>5. QED BY <2>1, <2>2, <2>3, <2>4
<1>2. ASSUME NEW l \in Leaders, Leader(l) \/ CrashLeader(l) PROVE JobAlone'
  <2>0. cat' = cat /\ (\A m \in Leaders : m # l => ld'[m] = ld[m]) BY <1>2, LeaderFacts, LeaderLeavesSessions
  <2>T. ld[l] \in Tick /\ ld \in [Leaders -> Tick] BY DEF TypeOK
  <2>K. ASSUME JobAlone, job # 0 => job' # 0, ld'[l].pc # "idle" => job' # 0,
               ld'[l].pc \notin {"idle", "load"} => cat = 0
        PROVE  JobAlone'
    BY <2>0, <2>K DEF JobAlone
  <2>1. CASE ListJobs(l)
    <3>1. ld'[l] = [IdleL EXCEPT !.pc = "load", !.gen = job] BY <2>1, <2>T DEF ListJobs
    <3>2. ld'[l].pc = "load" BY <3>1 DEF IdleL
    <3>3. QED BY <2>1, <2>K, <3>2 DEF ListJobs
  <2>2. CASE LoadTable(l)
    <3>0. raced' = raced /\ job' = job /\ ld[l].pc = "load" BY <2>2 DEF LoadTable
    <3>1. CASE DropUnderWay
      <4>1. ld'[l].pc = "idle" BY <2>2, <2>T, <3>1 DEF LoadTable, LEnd, IdleL
      <4>2. QED BY <2>K, <3>0, <4>1
    <3>2. CASE ~DropUnderWay
      <4>1. cat = 0 BY <3>2 DEF DropUnderWay
      <4>2. JobAlone /\ job # 0 BY <3>0 DEF JobAlone
      <4>3. QED BY <2>K, <3>0, <4>1, <4>2
    <3>3. QED BY <3>1, <3>2
  <2>3. CASE SaveCursor(l)
    <3>1. job' # 0 /\ raced' = raced /\ ld[l].pc = "cursor" BY <2>3 DEF SaveCursor, LeaderShape
    <3>2. JobAlone /\ cat = 0 BY <3>1 DEF JobAlone
    <3>3. QED BY <2>K, <3>1, <3>2
  <2>4. CASE ClearJob(l)
    <3>1. ~raced /\ (\A m \in Leaders : m # l => ld[m].pc = "idle") BY <2>4 DEF ClearJob
    <3>2. ld'[l].pc = "idle" BY <2>4, <2>T DEF ClearJob, LEnd, IdleL
    <3>3. \A m \in Leaders : ld'[m].pc = "idle" BY <2>0, <3>1, <3>2
    <3>4. QED BY <3>3 DEF JobAlone
  <2>5. CASE CrashLeader(l)
    <3>1. ld'[l].pc = "idle" /\ raced' = raced /\ job' = job BY <2>5, <2>T DEF CrashLeader, LEnd, IdleL
    <3>2. QED BY <2>K, <3>1
  <2>6. CASE \/ SweepShard(l) \/ ReadPage(l) \/ NoPage(l) \/ JobDelete(l) \/ SweepForced(l)
             \/ CountLeft(l) \/ Unlink(l)
    <3>1. raced' = raced /\ job' = job /\ ld[l].pc \notin {"idle", "load"}
      BY <2>6 DEF SweepShard, ReadPage, NoPage, JobDelete, SweepForced, CountLeft, Unlink
    <3>2. JobAlone /\ job # 0 /\ cat = 0 BY <3>1 DEF JobAlone
    <3>3. QED BY <2>K, <3>1, <3>2
  <2>7. QED BY <1>2, <2>1, <2>2, <2>3, <2>4, <2>5, <2>6 DEF Leader
<1>3. ASSUME NEW p \in Pks, Expire(p) PROVE JobAlone' BY <1>0, <1>3 DEF Expire
<1>4. CASE UNCHANGED vars BY <1>0, <1>4 DEF vars
<1>5. QED BY <1>1, <1>2, <1>3, <1>4 DEF Next

(***************************************************************************)
(* Coverage of the rows, step by step.                                     *)
(***************************************************************************)
\* Rows may go, none comes, and what the register has of the others stays.
Fewer == \A p \in Pks : Owed(p)' => Owed(p) /\ row'[p].gen = row[p].gen /\ (p \in exp => p \in exp')

\* A job stays; where a DROP or the job says that all is done, it is.
LEMMA Kept ==
    ASSUME Covered, cat' = cat, job # 0 => job' # 0, Fewer,
           \A l \in Leaders : ld'[l].pc \in {"unlink", "clear"} => ld[l].pc \in {"unlink", "clear"} \/ NoneOwed',
           \A d \in Clients : \A p \in Pks : Owed(p)' => Ahead(d, p)',
           \A d \in Clients : cl'[d].pc = "d.cat" => cl[d].pc = "d.cat" \/ job' # 0 \/ NoneOwed'
    PROVE  Covered'
<1>1. NoneOwed => NoneOwed' BY DEF NoneOwed, Fewer
<1>3. Registered' BY DEF Covered, Registered, Fewer
<1>4. DropHasAll' BY DEF DropHasAll
<1>5. DropCovered' BY <1>1 DEF Covered, DropCovered
<1>6. JobDone' BY <1>1 DEF Covered, JobDone
<1>7. TableCovered' BY <1>1 DEF Covered, TableCovered, Fewer
<1>8. QED BY <1>3, <1>4, <1>5, <1>6, <1>7 DEF Covered

\* The steps of a session that touch no row, no register and no catalogue.
LEMMA KeptBySession ==
    ASSUME Covered, NEW c \in Clients, UNCHANGED <<cat, row, exp, ld>>, job # 0 => job' # 0,
           \A d \in Clients : d # c => cl'[d] = cl[d],
           \A p \in Pks : Owed(p) => Ahead(c, p)',
           cl'[c].pc = "d.cat" => job' # 0 \/ NoneOwed
    PROVE  Covered'
<1>1. \A p \in Pks : Owed(p)' <=> Owed(p) BY DEF Owed, Live
<1>2. NoneOwed => NoneOwed' BY <1>1 DEF NoneOwed
<1>3. Fewer BY <1>1 DEF Fewer
<1>4. \A l \in Leaders : ld'[l].pc \in {"unlink", "clear"} => ld[l].pc \in {"unlink", "clear"} OBVIOUS
<1>5. \A d \in Clients : \A p \in Pks : Owed(p)' => Ahead(d, p)'
  <2>1. ASSUME NEW d \in Clients, NEW p \in Pks, Owed(p)', d # c PROVE Ahead(d, p)'
    <3>1. Ahead(d, p) BY <1>1, <2>1 DEF Covered, DropHasAll
    <3>2. cl'[d] = cl[d] BY <2>1
    <3>3. QED BY <3>1, <3>2 DEF Ahead
  <2>2. QED BY <1>1, <2>1
<1>6. \A d \in Clients : cl'[d].pc = "d.cat" => cl[d].pc = "d.cat" \/ job' # 0 \/ NoneOwed'
  BY <1>2
<1>7. QED BY <1>3, <1>4, <1>5, <1>6, Kept

\* Those that neither scan nor are about to take the catalogue.
LEMMA KeptElsewhere ==
    ASSUME Covered, NEW c \in Clients, UNCHANGED <<cat, row, exp, ld>>, job # 0 => job' # 0,
           \A d \in Clients : d # c => cl'[d] = cl[d],
           cl'[c].pc \notin {"d.scan", "d.rows"},
           cl'[c].pc = "d.cat" => job' # 0
    PROVE  Covered'
<1>1. \A p \in Pks : Owed(p) => Ahead(c, p)' BY DEF Ahead
<1>2. QED BY <1>1, KeptBySession

\* The steps that the sessions do not take: the controllers', and the clock's.
LEMMA KeptByLeader ==
    ASSUME Covered, UNCHANGED <<cat, cl>>, job # 0 => job' # 0, Fewer,
           \A l \in Leaders : ld'[l].pc \in {"unlink", "clear"} => ld[l].pc \in {"unlink", "clear"} \/ NoneOwed
    PROVE  Covered'
<1>1. NoneOwed => NoneOwed' BY DEF NoneOwed, Fewer
<1>2. \A l \in Leaders : ld'[l].pc \in {"unlink", "clear"} => ld[l].pc \in {"unlink", "clear"} \/ NoneOwed'
  BY <1>1
<1>3. \A d \in Clients : \A p \in Pks : Owed(p)' => Ahead(d, p)'
  BY DEF Covered, DropHasAll, Ahead, Fewer
<1>4. \A d \in Clients : cl'[d].pc = "d.cat" => cl[d].pc = "d.cat" \/ job' # 0 \/ NoneOwed'
  OBVIOUS
<1>5. QED BY <1>2, <1>3, <1>4, Kept

\* DeleteRow takes a row and its entry together.
LEMMA DeleteKeeps ==
    ASSUME TypeOK, NEW q \in Pks, Delete(q)
    PROVE  Fewer /\ ~Owed(q)'
BY DEF TypeOK, Delete, Owed, Live, NoRow, Row, Fewer

\* A page of the register: what it leaves unread is beyond it.
LEMMA PageCovers ==
    ASSUME TypeOK, Covered, NEW c \in Clients, DropPage(c), ~jumped', NEW p \in Pks, Owed(p)
    PROVE  Ahead(c, p)'
<1>1. PICK skip \in SUBSET exp : \E page \in SUBSET (exp \ skip) :
              /\ cl'[c] = [cl[c] EXCEPT !.pc = "d.rows", !.cursor = cl[c].cursor + Cardinality(page),
                       !.got = cl[c].got \cup page, !.todo = {q \in page : Live(q)},
                       !.full = (Cardinality(page) = Batch)]
              /\ cl'[c] \in Statement
              /\ jumped' = (jumped \/ ~(skip \subseteq cl[c].got))
              /\ Cardinality(page) # Batch => page = exp \ skip
  BY PageType
<1>2. PICK page \in SUBSET (exp \ skip) :
              /\ cl'[c] = [cl[c] EXCEPT !.pc = "d.rows", !.cursor = cl[c].cursor + Cardinality(page),
                       !.got = cl[c].got \cup page, !.todo = {q \in page : Live(q)},
                       !.full = (Cardinality(page) = Batch)]
              /\ cl'[c] \in Statement
              /\ jumped' = (jumped \/ ~(skip \subseteq cl[c].got))
              /\ Cardinality(page) # Batch => page = exp \ skip
  BY <1>1
<1>3. cl[c] \in Statement BY DEF TypeOK
<1>4. p \in exp /\ p \notin cl[c].got /\ Live(p)
  <2>1. cl[c].pc = "d.scan" BY DEF DropPage, At
  <2>2. QED BY <2>1 DEF Covered, Registered, DropHasAll, Ahead, Owed
<1>5. p \notin skip BY <1>2, <1>4
<1>6. cl'[c].pc = "d.rows" /\ cl'[c].got = cl[c].got \cup page /\ cl'[c].todo = {q \in page : Live(q)}
  BY <1>2, <1>3 DEF Statement
<1>7. cl'[c].full = (Cardinality(page) = Batch)
  <2>1. DOMAIN cl[c] = {"pc", "gen", "pk", "cursor", "got", "todo", "full"} BY <1>3 DEF Statement
  <2>2. QED BY <1>2, <2>1
<1>8. CASE p \in page
  <2>1. p \in cl'[c].todo BY <1>4, <1>6, <1>8
  <2>2. QED BY <1>6, <2>1 DEF Ahead
<1>9. CASE p \notin page
  <2>1. Cardinality(page) = Batch BY <1>2, <1>4, <1>5, <1>9
  <2>2. cl'[c].full BY <1>7, <2>1
  <2>3. p \notin cl'[c].got BY <1>4, <1>6, <1>9
  <2>4. QED BY <1>6, <2>2, <2>3 DEF Ahead
<1>10. QED BY <1>8, <1>9

\* Short of a race and of a jump the rows stay covered, whatever a session does.
LEMMA SessionCovers ==
    ASSUME TypeOK, TypeOK', SessionShape, JobAlone, Covered, NEW c \in Clients, Session(c), ~raced', ~jumped'
    PROVE  Covered'
<1> USE DEF store, local, bounds, history, At
<1>K. (\A d \in Clients : d # c => cl'[d] = cl[d]) /\ ld' = ld
  BY SessionFacts, SessionLeavesLeaders DEF SessionMoves
<1>1. CASE CreateSave(c)
  <2>1. cl[c].gen = 0 BY <1>1 DEF CreateSave, SessionShape
  <2>2. CASE cat # 0
    <3>1. End(c) /\ UNCHANGED <<cat, row, exp, job>> BY <1>1, <2>2 DEF CreateSave
    <3>2. QED BY <1>K, <3>1, EndFacts, KeptElsewhere
  <2>3. CASE cat = 0
    <3>1. /\ cat' = gens + 1 /\ raced' = (raced \/ (job # 0 /\ cl[c].gen = 0)) /\ Go(c, "c.incr")
          /\ UNCHANGED <<job, row, exp>>
      BY <1>1, <2>3 DEF CreateSave
    <3>2. job = 0 BY <2>1, <3>1
    <3>3. NoneOwed BY <2>3, <3>2 DEF Covered, TableCovered
    <3>4. \A p \in Pks : ~Owed(p)' BY <3>1, <3>3 DEF NoneOwed, Owed, Live
    <3>5. QED BY <3>4
      DEF Covered, Registered, DropHasAll, DropCovered, JobDone, TableCovered, NoneOwed
  <2>4. QED BY <2>2, <2>3
<1>2. CASE CreateLoad(c)
  <2>1. UNCHANGED <<cat, row, exp, job>> /\ cl'[c].pc = "c.jobs" BY <1>2 DEF CreateLoad, IdleC, TypeOK
  <2>2. QED BY <1>K, <2>1, KeptElsewhere
<1>3. CASE DropLoad(c)
  <2>1. UNCHANGED <<cat, row, exp, job>> /\ cl'[c].pc = "d.count" BY <1>3 DEF DropLoad, IdleC, TypeOK
  <2>2. QED BY <1>K, <2>1, KeptElsewhere
<1>4. CASE CreateBlind(c)
  <2>1. UNCHANGED <<cat, row, exp, job>> /\ Go(c, "c.save") BY <1>4 DEF CreateBlind
  <2>2. QED BY <1>K, <2>1, GoFacts, KeptElsewhere
<1>5. CASE Crash(c)
  <2>1. UNCHANGED <<cat, row, exp, job>> /\ End(c) BY <1>5 DEF Crash
  <2>2. QED BY <1>K, <2>1, EndFacts, KeptElsewhere
<1>6. CASE CreateJobs(c)
  <2>1. UNCHANGED <<cat, row, exp, job>> BY <1>6 DEF CreateJobs
  <2>2. cl'[c].pc \in {"c.save", "idle"}
    <3>1. CASE MayCreate
      <4>1. cl' = [cl EXCEPT ![c] = [cl[c] EXCEPT !.pc = "c.save", !.gen = job]]
        BY <1>6, <3>1 DEF CreateJobs
      <4>2. cl'[c] = [cl[c] EXCEPT !.pc = "c.save", !.gen = job] BY <4>1 DEF TypeOK
      <4>3. QED BY <4>2 DEF TypeOK, Statement
    <3>2. CASE ~MayCreate BY <1>6, <3>2, EndFacts DEF CreateJobs
    <3>3. QED BY <3>1, <3>2
  <2>3. QED BY <1>K, <2>1, <2>2, KeptElsewhere
<1>7. CASE CreateIncr(c)
  <2>1. UNCHANGED <<cat, row, exp, job>> /\ Go(c, "c.reg") BY <1>7 DEF CreateIncr
  <2>2. QED BY <1>K, <2>1, GoFacts, KeptElsewhere
<1>8. CASE CreateRegister(c)
  <2>1. UNCHANGED <<cat, row, exp, job>> /\ End(c) BY <1>8 DEF CreateRegister
  <2>2. QED BY <1>K, <2>1, EndFacts, KeptElsewhere
<1>9. CASE DropCount(c)
  <2>1. UNCHANGED <<cat, row, exp, job>> /\ (Go(c, "d.big") \/ Go(c, "d.small")) BY <1>9 DEF DropCount
  <2>2. cl'[c].pc \in {"d.big", "d.small"} BY <2>1, GoFacts
  <2>3. QED BY <1>K, <2>1, <2>2, KeptElsewhere
<1>10. CASE DropJobs(c) \/ DropBlind(c)
  <2>1. /\ UNCHANGED <<cat, row, exp, job>>
        /\ \/ Go(c, "d.job")
           \/ Go(c, "d.scan") /\ cl[c].pc = "d.small"
           \/ job # 0 /\ Go(c, "d.cat")
    BY <1>10 DEF DropJobs, DropBlind, NoJob
  <2>2. CASE Go(c, "d.job") BY <1>K, <2>1, <2>2, GoFacts, KeptElsewhere
  <2>3. CASE Go(c, "d.scan") /\ cl[c].pc = "d.small"
    <3>1. cl'[c].pc = "d.scan" /\ cl'[c].got = {} BY <2>3, GoFacts DEF SessionShape
    <3>2. \A p \in Pks : Owed(p) => Ahead(c, p)' BY <3>1 DEF Ahead
    <3>3. QED BY <1>K, <2>1, <3>1, <3>2, KeptBySession
  <2>4. CASE job # 0 /\ Go(c, "d.cat") BY <1>K, <2>1, <2>4, GoFacts, KeptElsewhere
  <2>5. QED BY <2>1, <2>2, <2>3, <2>4
<1>11. CASE DropSetJob(c)
  <2>1. UNCHANGED <<cat, row, exp>> /\ Go(c, "d.cat") /\ job' = cl[c].gen BY <1>11 DEF DropSetJob
  <2>2. job' # 0 BY <1>11, <2>1 DEF DropSetJob, SessionShape, Dropping
  <2>3. QED BY <1>K, <2>1, <2>2, GoFacts, KeptElsewhere
<1>12. CASE DropPage(c)
  <2>1. UNCHANGED <<cat, row, exp, job>> BY <1>12 DEF DropPage
  <2>2. \A p \in Pks : Owed(p) => Ahead(c, p)' BY <1>12, PageCovers
  <2>3. cl'[c].pc = "d.rows"
    <3>1. \E skip \in SUBSET exp : \E page \in SUBSET (exp \ skip) :
              /\ cl'[c] = [cl[c] EXCEPT !.pc = "d.rows", !.cursor = cl[c].cursor + Cardinality(page),
                       !.got = cl[c].got \cup page, !.todo = {p \in page : Live(p)},
                       !.full = (Cardinality(page) = Batch)]
              /\ cl' = [cl EXCEPT ![c] = cl'[c]]
      BY <1>12, PageType
    <3>2. cl[c] \in Statement BY DEF TypeOK
    <3>3. QED BY <3>1, <3>2 DEF Statement
  <2>4. QED BY <1>K, <2>1, <2>2, <2>3, KeptBySession
<1>13. CASE DropRow(c)
  <2>1. PICK q \in cl[c].todo : Delete(q) /\ cl' = [cl EXCEPT ![c].todo = @ \ {q}] BY <1>13 DEF DropRow
  <2>2. q \in Pks BY DEF TypeOK, Statement
  <2>3. UNCHANGED <<cat, job>> /\ cl[c].pc = "d.rows" BY <1>13 DEF DropRow
  <2>4. Fewer /\ ~Owed(q)' BY <2>1, <2>2, DeleteKeeps
  <2>5. /\ cl'[c].pc = cl[c].pc /\ cl'[c].todo = cl[c].todo \ {q}
        /\ cl'[c].full = cl[c].full /\ cl'[c].got = cl[c].got
    BY <2>1 DEF TypeOK, Statement
  <2>6. \A d \in Clients : \A p \in Pks : Owed(p)' => Ahead(d, p)'
    <3>1. ASSUME NEW d \in Clients, NEW p \in Pks, Owed(p)' PROVE Ahead(d, p)'
      <4>1. Owed(p) /\ p # q BY <2>4, <3>1 DEF Fewer
      <4>2. Ahead(d, p) BY <4>1 DEF Covered, DropHasAll
      <4>3. CASE d = c BY <2>5, <4>1, <4>2, <4>3 DEF Ahead
      <4>4. CASE d # c
        <5>1. cl'[d] = cl[d] BY <1>K, <4>4
        <5>2. QED BY <4>2, <5>1 DEF Ahead
      <4>5. QED BY <4>3, <4>4
    <3>2. QED BY <3>1
  <2>7. \A d \in Clients : cl'[d].pc = "d.cat" => cl[d].pc = "d.cat" BY <1>K, <2>5
  <2>8. QED BY <1>K, <2>3, <2>4, <2>6, <2>7, Kept
<1>14. CASE DropPageDone(c)
  <2>1. UNCHANGED <<cat, row, exp, job>> /\ cl[c].todo = {} /\ cl[c].pc = "d.rows" BY <1>14 DEF DropPageDone
  <2>2. CASE cl[c].full
    <3>1. Go(c, "d.scan") BY <1>14, <2>2 DEF DropPageDone, PageDone
    <3>2. cl'[c].pc = "d.scan" /\ cl'[c].got = cl[c].got BY <3>1, GoFacts
    <3>3. \A p \in Pks : Owed(p) => p \notin cl[c].got BY <2>1 DEF Covered, DropHasAll, Ahead
    <3>4. \A p \in Pks : Owed(p) => Ahead(c, p)' BY <3>2, <3>3 DEF Ahead
    <3>5. QED BY <1>K, <2>1, <3>2, <3>4, KeptBySession
  <2>3. CASE ~cl[c].full
    <3>1. Go(c, "d.cat") BY <1>14, <2>3 DEF DropPageDone, PageDone
    <3>2. cl'[c].pc = "d.cat" BY <3>1, GoFacts
    <3>3. NoneOwed BY <2>1, <2>3 DEF Covered, DropHasAll, Ahead, NoneOwed
    <3>4. \A p \in Pks : Owed(p) => Ahead(c, p)' BY <3>2 DEF Ahead
    <3>5. QED BY <1>K, <2>1, <3>2, <3>3, <3>4, KeptBySession
  <2>4. QED BY <2>2, <2>3
<1>15. CASE DropCat(c)
  <2>1. UNCHANGED <<row, exp, job>> /\ cat' = 0 /\ cl'[c].pc = "d.unreg" BY <1>15 DEF DropCat, IdleC, TypeOK
  <2>2. \A p \in Pks : Owed(p)' <=> Owed(p) BY <2>1 DEF Owed, Live
  <2>3. NoneOwed <=> NoneOwed' BY <2>2 DEF NoneOwed
  <2>4. job' # 0 \/ NoneOwed' BY <1>15, <2>1, <2>3 DEF DropCat, Covered, DropCovered
  <2>5. Registered' BY <2>1, <2>2 DEF Covered, Registered
  <2>6. DropHasAll'
    <3>1. ASSUME NEW d \in Clients, NEW p \in Pks, Owed(p)' PROVE Ahead(d, p)'
      <4>1. CASE d = c BY <2>1, <4>1 DEF Ahead
      <4>2. CASE d # c
        <5>1. cl'[d] = cl[d] /\ Ahead(d, p) BY <1>K, <2>2, <3>1, <4>2 DEF Covered, DropHasAll
        <5>2. QED BY <5>1 DEF Ahead
      <4>3. QED BY <4>1, <4>2
    <3>2. QED BY <3>1 DEF DropHasAll
  <2>7. DropCovered' BY <2>4 DEF DropCovered
  <2>8. JobDone' BY <1>K, <2>3 DEF Covered, JobDone
  <2>9. TableCovered' BY <2>1, <2>4 DEF TableCovered
  <2>10. QED BY <2>5, <2>6, <2>7, <2>8, <2>9 DEF Covered
<1>16. CASE DropUnregister(c)
  <2>1. UNCHANGED <<cat, row, exp, job>> /\ Go(c, "d.incr") BY <1>16 DEF DropUnregister
  <2>2. QED BY <1>K, <2>1, GoFacts, KeptElsewhere
<1>17. CASE DropIncr(c)
  <2>1. UNCHANGED <<cat, row, exp, job>> /\ End(c) BY <1>17 DEF DropIncr
  <2>2. QED BY <1>K, <2>1, EndFacts, KeptElsewhere
<1>18. CASE GetDef(c)
  <2>1. UNCHANGED <<cat, row, exp, job>> BY <1>18 DEF GetDef
  <2>2. cl'[c].pc \in {"idle", "w.row"}
    <3> DEFINE g == IF cache[c] # 0 THEN cache[c] ELSE cat
    <3>1. cl' = [cl EXCEPT ![c] = IF g = 0 THEN IdleC ELSE [@ EXCEPT !.pc = "w.row", !.gen = g]]
      BY <1>18 DEF GetDef
    <3> HIDE DEF g
    <3>2. CASE g = 0 BY <3>1, <3>2 DEF IdleC, TypeOK
    <3>3. CASE g # 0
      <4>1. cl'[c] = [cl[c] EXCEPT !.pc = "w.row", !.gen = g] BY <3>1, <3>3 DEF TypeOK
      <4>2. QED BY <4>1 DEF TypeOK, Statement
    <3>4. QED BY <3>2, <3>3
  <2>3. QED BY <1>K, <2>1, <2>2, KeptElsewhere
<1>19. ASSUME NEW p \in Pks, GetLease(c, p) PROVE Covered'
  <2>1. UNCHANGED <<cat, row, exp, job>> /\ cl'[c].pc = "w.def" BY <1>19 DEF GetLease, IdleC, TypeOK
  <2>2. QED BY <1>K, <2>1, KeptElsewhere
<1>20. CASE WriteRow(c)
  <2>k. PICK k \in Pks : k = cl[c].pk BY <1>20 DEF WriteRow, SessionShape
  <2>g. PICK g : g = cl[c].gen OBVIOUS
  <2>1. g # 0 BY <1>20, <2>g DEF WriteRow, SessionShape
  <2>2. /\ row' = [row EXCEPT ![k] = [gen |-> g, late |-> Late(g)]]
        /\ exp' = exp \cup {k} /\ UNCHANGED <<cat, job>> /\ End(c)
    BY <1>20, <2>k, <2>g DEF WriteRow
  <2>3. cl'[c].pc = "idle" BY <2>2, EndFacts
  <2>4. \A p \in Pks : p # k => (Owed(p)' <=> Owed(p)) /\ row'[p] = row[p]
    BY <2>2 DEF Owed, Live, TypeOK
  <2>5. row'[k].gen = g /\ (Owed(k)' => ~Late(g))
    BY <2>2 DEF Owed, TypeOK
  <2>6. Owed(k)' => g = cat /\ cat # 0 BY <2>1, <2>5 DEF Late
  <2>7. Owed(k)' => \A d \in Clients : cl[d].pc \notin {"d.scan", "d.rows", "d.cat"}
    BY <2>5 DEF Late, Dropping
  <2>9. Registered' BY <2>2, <2>4 DEF Covered, Registered
  <2>10. DropHasAll'
    <3>1. ASSUME NEW d \in Clients, NEW p \in Pks, Owed(p)' PROVE Ahead(d, p)'
      <4>1. CASE d = c BY <2>3, <4>1 DEF Ahead
      <4>2. CASE d # c /\ p = k
        <5>1. cl'[d] = cl[d] BY <1>K, <4>2
        <5>2. QED BY <2>7, <3>1, <4>2, <5>1 DEF Ahead
      <4>3. CASE d # c /\ p # k
        <5>1. cl'[d] = cl[d] BY <1>K, <4>3
        <5>2. Ahead(d, p) BY <2>4, <3>1, <4>3 DEF Covered, DropHasAll
        <5>3. QED BY <5>1, <5>2 DEF Ahead
      <4>4. QED BY <4>1, <4>2, <4>3
    <3>2. QED BY <3>1 DEF DropHasAll
  <2>11. ASSUME NoneOwed, ~Owed(k)' PROVE NoneOwed' BY <2>4, <2>11 DEF NoneOwed
  <2>12. DropCovered'
    <3>1. ASSUME NEW d \in Clients, cl'[d].pc = "d.cat" PROVE job' # 0 \/ NoneOwed'
      <4>1. d # c BY <2>3, <3>1
      <4>2. cl[d].pc = "d.cat" BY <1>K, <3>1, <4>1
      <4>3. ~Owed(k)' BY <2>7, <4>2
      <4>4. QED BY <2>2, <2>11, <4>2, <4>3 DEF Covered, DropCovered
    <3>2. QED BY <3>1 DEF DropCovered
  <2>13. JobDone'
    <3>1. ASSUME NEW l \in Leaders, ld'[l].pc \in {"unlink", "clear"} PROVE NoneOwed'
      <4>1. ld[l].pc \in {"unlink", "clear"} BY <1>K, <3>1
      <4>2. cat = 0 /\ NoneOwed BY <4>1 DEF JobAlone, Covered, JobDone
      <4>3. QED BY <2>6, <2>11, <4>2
    <3>2. QED BY <3>1 DEF JobDone
  <2>14. TableCovered'
    <3>1. CASE cat = 0 BY <2>2, <2>6, <2>11, <3>1 DEF Covered, TableCovered
    <3>2. CASE cat # 0 BY <2>2, <2>4, <2>5, <2>6, <3>2 DEF Covered, TableCovered
    <3>3. QED BY <3>1, <3>2
  <2>15. QED BY <2>9, <2>10, <2>12, <2>13, <2>14 DEF Covered
<1>21. QED
  BY <1>1, <1>2, <1>3, <1>4, <1>5, <1>6, <1>7, <1>8, <1>9, <1>10, <1>11, <1>12, <1>13, <1>14,
     <1>15, <1>16, <1>17, <1>18, <1>19, <1>20 DEF Session

\* Whatever a controller does.
LEMMA LeaderCovers ==
    ASSUME TypeOK, LeaderShape, Covered, NEW l \in Leaders, Leader(l) \/ CrashLeader(l)
    PROVE  Covered'
<1> USE DEF store, local, bounds, history, LAt
<1>0. cat' = cat /\ cl' = cl /\ (\A m \in Leaders : m # l => ld'[m] = ld[m])
  BY LeaderFacts, LeaderLeavesSessions
<1>T. ld[l] \in Tick /\ ld \in [Leaders -> Tick] BY DEF TypeOK
<1>G. ASSUME NEW k, LGo(l, k) \/ Past(l, k) PROVE ld'[l].pc = k
  <2>1. CASE LGo(l, k) BY <1>T, <2>1 DEF LGo, Tick
  <2>2. CASE Past(l, k) BY <1>T, <2>2 DEF Past, IdleL
  <2>3. QED BY <1>G, <2>1, <2>2
<1>E. ASSUME LEnd(l) PROVE ld'[l].pc = "idle" BY <1>T, <1>E DEF LEnd, IdleL
<1>R. ASSUME UNCHANGED <<row, exp>> PROVE Fewer BY <1>R DEF Owed, Live, Fewer
<1>D. ASSUME UNCHANGED row, \A p \in Pks : p \in exp /\ p \notin exp' => ~Live(p) PROVE Fewer
  BY <1>D DEF Owed, Live, Fewer
<1>K. ASSUME Fewer, job # 0 => job' # 0,
             ld'[l].pc \in {"unlink", "clear"} => ld[l].pc \in {"unlink", "clear"} \/ NoneOwed
      PROVE  Covered'
  <2>1. \A m \in Leaders : ld'[m].pc \in {"unlink", "clear"} => ld[m].pc \in {"unlink", "clear"} \/ NoneOwed
    BY <1>0, <1>K
  <2>2. QED BY <1>0, <1>K, <2>1, KeptByLeader
<1>1. CASE ListJobs(l)
  <2>1. UNCHANGED <<row, exp, job>> BY <1>1 DEF ListJobs
  <2>2. ld'[l] = [IdleL EXCEPT !.pc = "load", !.gen = job] BY <1>1, <1>T DEF ListJobs
  <2>3. ld'[l].pc = "load" BY <2>2 DEF IdleL
  <2>4. QED BY <1>K, <1>R, <2>1, <2>3
<1>2. CASE LoadTable(l)
  <2>1. UNCHANGED <<row, exp, job>> BY <1>2 DEF LoadTable
  <2>2. ld'[l].pc \in {"idle", "sweep"}
    <3>1. CASE DropUnderWay BY <1>2, <1>E, <3>1 DEF LoadTable
    <3>2. CASE ~DropUnderWay BY <1>2, <1>T, <3>2 DEF LoadTable, Tick
    <3>3. QED BY <3>1, <3>2
  <2>3. QED BY <1>K, <1>R, <2>1, <2>2
<1>3. CASE SweepShard(l)
  <2>1. UNCHANGED <<row, job>> /\ ld'[l].pc = "page" BY <1>3, <1>G DEF SweepShard
  <2>2. \A p \in Pks : p \in exp /\ p \notin exp' => ~Live(p) BY <1>3 DEF SweepShard
  <2>3. QED BY <1>D, <1>K, <2>1, <2>2
<1>4. CASE ReadPage(l)
  <2>1. UNCHANGED <<row, exp, job>> BY <1>4 DEF ReadPage
  <2>2. ld'[l].pc = "rows" BY <1>4, <1>T DEF ReadPage, Tick
  <2>3. QED BY <1>K, <1>R, <2>1, <2>2
<1>5. CASE NoPage(l)
  <2>1. UNCHANGED <<row, exp, job>> /\ ld'[l].pc = "cursor" BY <1>5, <1>G DEF NoPage
  <2>2. QED BY <1>K, <1>R, <2>1
<1>6. CASE JobDelete(l)
  <2>1. PICK p \in ld[l].page :
          /\ Delete(p)
          /\ ld' = [ld EXCEPT ![l] = [ld[l] EXCEPT !.page = ld[l].page \ {p}, !.budget = ld[l].budget - 1,
                                  !.dead = ld[l].dead \cup {q \in {p} : ~Live(q)}]]
    BY <1>6 DEF JobDelete
  <2>2. p \in Pks BY <1>T DEF Tick
  <2>3. Fewer BY <2>1, <2>2, DeleteKeeps
  <2>4. ld'[l].pc = ld[l].pc BY <1>T, <2>1 DEF Tick
  <2>5. job' = job BY <1>6 DEF JobDelete
  <2>6. QED BY <1>K, <2>3, <2>4, <2>5
<1>7. CASE SweepForced(l)
  <2>1. UNCHANGED <<row, job>> BY <1>7 DEF SweepForced
  <2>2. ld'[l].pc \in {"page", "cursor"}
    <3>1. CASE ld[l].full
      <4>1. ld' = [ld EXCEPT ![l] = [ld[l] EXCEPT !.pc = "page", !.page = {}, !.dead = {}, !.full = FALSE]]
        BY <1>7, <3>1 DEF SweepForced
      <4>2. ld'[l] = [ld[l] EXCEPT !.pc = "page", !.page = {}, !.dead = {}, !.full = FALSE] BY <1>T, <4>1
      <4>3. QED BY <1>T, <4>2 DEF Tick
    <3>2. CASE ~ld[l].full BY <1>7, <1>G, <3>2 DEF SweepForced
    <3>3. QED BY <3>1, <3>2
  <2>3. \A p \in Pks : p \in exp /\ p \notin exp' => ~Live(p) BY <1>7 DEF SweepForced, Forced
  <2>4. QED BY <1>D, <1>K, <2>1, <2>2, <2>3
<1>8. CASE SaveCursor(l)
  <2>1. UNCHANGED <<row, exp>> /\ job' # 0 BY <1>8 DEF SaveCursor, LeaderShape
  <2>2. ld'[l].pc = "card" BY <1>8, <1>G DEF SaveCursor
  <2>3. QED BY <1>K, <1>R, <2>1, <2>2
<1>9. CASE CountLeft(l)
  <2>1. UNCHANGED <<row, exp, job>> BY <1>9 DEF CountLeft
  <2>2. ld'[l].pc = "idle" \/ (exp = {} /\ ld'[l].pc = "unlink") BY <1>9, <1>E, <1>G DEF CountLeft, Emptied
  <2>3. exp = {} => NoneOwed BY DEF Covered, Registered, NoneOwed
  <2>4. QED BY <1>K, <1>R, <2>1, <2>2, <2>3
<1>10. CASE Unlink(l)
  <2>1. UNCHANGED <<row, job>> /\ ld[l].pc = "unlink" BY <1>10 DEF Unlink
  <2>2. NoneOwed BY <2>1 DEF Covered, JobDone
  <2>3. Fewer BY <2>1, <2>2 DEF Fewer, NoneOwed, Owed, Live
  <2>4. QED BY <1>K, <2>1, <2>2, <2>3
<1>11. CASE ClearJob(l)
  <2>1. UNCHANGED <<row, exp>> /\ ld[l].pc = "clear" BY <1>11 DEF ClearJob
  <2>2. NoneOwed BY <2>1 DEF Covered, JobDone
  <2>3. \A p \in Pks : ~Owed(p)' BY <2>1, <2>2 DEF NoneOwed, Owed, Live
  <2>4. QED BY <2>3
    DEF Covered, Registered, DropHasAll, DropCovered, JobDone, TableCovered, NoneOwed
<1>12. CASE CrashLeader(l)
  <2>1. UNCHANGED <<row, exp, job>> /\ ld'[l].pc = "idle" BY <1>12, <1>E DEF CrashLeader
  <2>2. QED BY <1>K, <1>R, <2>1
<1>13. QED
  BY <1>1, <1>2, <1>3, <1>4, <1>5, <1>6, <1>7, <1>8, <1>9, <1>10, <1>11, <1>12 DEF Leader

\* And the clock.
LEMMA CoveredStep ==
    ASSUME TypeOK, TypeOK', SessionShape, LeaderShape, raced \/ JobAlone, raced \/ jumped \/ Covered, [Next]_vars
    PROVE  (raced \/ jumped \/ Covered)'
<1> SUFFICES ASSUME ~raced', ~jumped' PROVE Covered'
  BY DEF TypeOK
<1> USE DEF store, local, bounds, history
<1>1. ASSUME NEW c \in Clients, Session(c) PROVE Covered'
  <2>1. ~raced /\ ~jumped
    <3>1. CASE CreateSave(c)
      <4>1. jumped' = jumped BY <3>1 DEF CreateSave
      <4>2. raced => raced'
        <5>1. CASE cat = 0 BY <3>1, <5>1, Zenon DEF CreateSave
        <5>2. CASE cat # 0 BY <3>1, <5>2 DEF CreateSave
        <5>3. QED BY <5>1, <5>2
      <4>3. QED BY <4>1, <4>2
    <3>2. CASE DropPage(c)
      <4>1. raced' = raced BY <3>2 DEF DropPage
      <4>2. jumped => jumped' BY <3>2, Zenon DEF DropPage
      <4>3. QED BY <4>1, <4>2
    <3>3. CASE ~CreateSave(c) /\ ~DropPage(c)
      <4>1. raced' = raced /\ jumped' = jumped
        BY <1>1, <3>3 DEF Session, CreateLoad, CreateJobs, CreateBlind, CreateIncr, CreateRegister,
           DropLoad, DropCount, DropJobs, DropBlind, DropSetJob, DropRow, DropPageDone,
           DropCat, DropUnregister, DropIncr, GetDef, WriteRow, Crash, GetLease
      <4>2. QED BY <4>1
    <3>4. QED BY <3>1, <3>2, <3>3
  <2>2. QED BY <1>1, <2>1, SessionCovers
<1>2. ASSUME NEW l \in Leaders, Leader(l) \/ CrashLeader(l) PROVE Covered'
  <2>1. ~raced /\ ~jumped
    <3>1. CASE ClearJob(l)
      <4>1. jumped' = jumped BY <3>1 DEF ClearJob
      <4>2. raced => raced' BY <3>1, Zenon DEF ClearJob
      <4>3. QED BY <4>1, <4>2
    <3>2. CASE ~ClearJob(l)
      <4>1. raced' = raced /\ jumped' = jumped
        BY <1>2, <3>2 DEF Leader, ListJobs, LoadTable, SweepShard, ReadPage, NoPage, JobDelete, SweepForced,
           SaveCursor, CountLeft, Unlink, CrashLeader
      <4>2. QED BY <4>1
    <3>3. QED BY <3>1, <3>2
  <2>2. QED BY <1>2, <2>1, LeaderCovers
<1>3. ASSUME NEW q \in Pks, Expire(q) PROVE Covered'
  <2>1. UNCHANGED <<cat, exp, job, cl, ld, raced, jumped>> /\ row' = [row EXCEPT ![q] = NoRow]
    BY <1>3 DEF Expire
  <2>2. Fewer BY <2>1 DEF Owed, Live, TypeOK, NoRow, Fewer
  <2>3. QED BY <2>1, <2>2, KeptByLeader
<1>4. CASE UNCHANGED vars
  <2>1. UNCHANGED <<cat, row, exp, job, cl, ld, raced, jumped>> BY <1>4 DEF vars
  <2>2. Fewer BY <2>1 DEF Owed, Live, Fewer
  <2>3. QED BY <2>1, <2>2, KeptByLeader
<1>5. QED BY <1>1, <1>2, <1>3, <1>4 DEF Next

(***************************************************************************)
(* The theorems.                                                           *)
(***************************************************************************)
LEMMA InitInv == Init => IInv
<1> SUFFICES ASSUME Init PROVE IInv
  OBVIOUS
<1>1. (\A c \in Clients : cl[c] = IdleC) /\ (\A l \in Leaders : ld[l] = IdleL) BY DEF Init
<1>2. SessionShape BY <1>1 DEF SessionShape, IdleC, Dropping
<1>3. LeaderShape /\ JobAlone /\ JobDone BY <1>1 DEF LeaderShape, JobAlone, JobDone, IdleL
<1>4. TypeOK
  <2>1. PICK D \in SUBSET Pks : row = [p \in Pks |-> IF p \in D THEN NoRow ELSE [gen |-> 1, late |-> FALSE]]
    BY DEF Init
  <2>2. row \in [Pks -> Row] BY <2>1, Idle DEF Row
  <2>3. cl \in [Clients -> Statement] BY Idle DEF Init
  <2>4. ld \in [Leaders -> Tick] BY Idle DEF Init
  <2>5. cache \in [Clients -> Nat] /\ seen \in [Clients -> Nat]
    BY DEF Init
  <2>6. /\ {cat, job, gens, ops, faults} \subseteq Nat /\ sv \in Nat \ {0} /\ exp \in SUBSET Pks
        /\ listed \in BOOLEAN /\ raced \in BOOLEAN /\ jumped \in BOOLEAN
    <3>1. /\ gens = 1 /\ exp = Pks
          /\ raced = FALSE /\ jumped = FALSE /\ ops = 0 /\ faults = 0
      BY DEF Init
    <3>2. listed \in BOOLEAN /\ raced \in BOOLEAN /\ jumped \in BOOLEAN BY <3>1, Zenon DEF Init
    <3>3. cat \in {0, 1} /\ job \in {0, 1} /\ sv \in {1, 2} BY DEF Init
    <3>4. {cat, job, gens, ops, faults} \subseteq Nat /\ sv \in Nat \ {0} BY <3>1, <3>3, SMT
    <3>5. exp \in SUBSET Pks BY <3>1
    <3>6. QED BY <3>2, <3>4, <3>5
  <2>7. QED BY <2>2, <2>3, <2>4, <2>5, <2>6 DEF TypeOK
<1>5. \A p \in Pks : row[p].gen \in {0, 1}
  <2>1. PICK D \in SUBSET Pks : row = [p \in Pks |-> IF p \in D THEN NoRow ELSE [gen |-> 1, late |-> FALSE]]
    BY DEF Init
  <2>2. QED BY <2>1 DEF NoRow
<1>6. TableCovered BY <1>5 DEF Init, TableCovered, Owed, Live
<1>7. Registered BY DEF Init, Registered
<1>8. DropHasAll /\ DropCovered BY <1>1 DEF DropHasAll, DropCovered, IdleC, Ahead
<1>9. QED BY <1>2, <1>3, <1>4, <1>6, <1>7, <1>8 DEF IInv, Covered

LEMMA StepInv == IInv /\ [Next]_vars => IInv'
<1> SUFFICES ASSUME IInv, [Next]_vars PROVE IInv'
  OBVIOUS
<1>0. TypeOK /\ SessionShape /\ LeaderShape /\ (raced \/ JobAlone) /\ (raced \/ jumped \/ Covered) BY DEF IInv
<1>1. TypeOK' BY <1>0, SessionType, LeaderType, ClockType DEF Next
<1>2. SessionShape'
  <2>1. ASSUME NEW c \in Clients, Session(c) PROVE SessionShape'
    BY <1>0, <2>1, SessionFacts, MovesKeepShape
  <2>2. ASSUME UNCHANGED cl PROVE SessionShape' BY <1>0, <2>2 DEF SessionShape
  <2>3. ASSUME NEW l \in Leaders, Leader(l) \/ CrashLeader(l) PROVE SessionShape'
    BY <2>2, <2>3, LeaderLeavesSessions
  <2>4. CASE (\E p \in Pks : Expire(p)) \/ UNCHANGED vars BY <2>2, <2>4 DEF Expire, vars
  <2>5. QED BY <2>1, <2>3, <2>4 DEF Next
<1>3. LeaderShape' BY <1>0, LeaderShapeStep
<1>4. (raced \/ JobAlone)' BY <1>0, JobAloneStep
<1>5. (raced \/ jumped \/ Covered)' BY <1>0, <1>1, CoveredStep
<1>6. QED BY <1>1, <1>2, <1>3, <1>4, <1>5 DEF IInv

LEMMA InvAlways == Spec => []IInv
BY InitInv, StepInv, PTL DEF Spec

\* Every variable keeps its type: a tick of a clean-up job deletes no more rows than its budget.
THEOREM TypeCorrect == Spec => []TypeOK
<1>1. IInv => TypeOK BY DEF IInv
<1>2. QED BY <1>1, InvAlways, PTL

\* ddlexec.go dropTable, dropjob.go: whoever crashes where, the rows that were there when
\* a DROP began have their table or a clean-up job, as long as the scan's offset jumps over
\* none and neither a CREATE nor a second controller overlaps with a job.
THEOREM NothingLeaks == Spec => []NoLeak
<1>1. IInv => NoLeak
  <2> SUFFICES ASSUME IInv, NEW p \in Pks, Live(p), ~row[p].late, row[p].gen # cat, ~raced, ~jumped
               PROVE  job # 0
    BY DEF NoLeak
  <2>1. TableCovered /\ Owed(p) BY DEF IInv, Covered, Owed
  <2>2. QED BY <2>1 DEF TableCovered, NoneOwed
<1>2. QED BY <1>1, InvAlways, PTL

\* ddlexec.go createTable: under the same conditions a table created after a DROP has no
\* row of the one before.
THEOREM NoGhostRows == Spec => []NoGhosts
<1>1. IInv => NoGhosts
  <2> SUFFICES ASSUME IInv, NEW p \in Pks, Live(p), cat # 0, ~raced, ~jumped, ~row[p].late
               PROVE  row[p].gen = cat
    BY DEF NoGhosts
  <2>1. TableCovered /\ Owed(p) BY DEF IInv, Covered, Owed
  <2>2. QED BY <2>1 DEF TableCovered
<1>2. QED BY <1>1, InvAlways, PTL

\* dropjob.go stepDrop: a clean-up job, run by any number of controllers, deletes no row of
\* a table that is in the catalogue, short of the overlaps that raced records.
THEOREM JobSparesTable == Spec => JobSpares
<1>1. IInv /\ [Next]_vars =>
        [\A l \in Leaders, p \in Pks :
          (ld'[l].budget < ld[l].budget /\ Live(p) /\ row[p].gen = cat /\ ~raced) => row'[p] = row[p]]_vars
  <2> SUFFICES ASSUME IInv, [Next]_vars, NEW l \in Leaders, NEW p \in Pks,
                      ld'[l].budget < ld[l].budget, Live(p), row[p].gen = cat, ~raced
               PROVE  row'[p] = row[p]
    OBVIOUS
  <2>T. TypeOK /\ ld \in [Leaders -> Tick] /\ ld[l].budget \in Nat
    BY TableLifeAssumption DEF IInv, TypeOK, Tick
  <2>0. ld'[l] # ld[l] BY <2>T
  <2>1. ASSUME NEW c \in Clients, Session(c) PROVE FALSE BY <2>0, <2>1, SessionLeavesLeaders
  <2>2. ASSUME NEW m \in Leaders, Leader(m) \/ CrashLeader(m) PROVE row'[p] = row[p]
    <3>1. m = l BY <2>0, <2>2, <2>T, LeaderFacts
    <3>2. CASE JobDelete(l)
      <4>1. ld[l].pc = "rows" BY <3>2 DEF JobDelete, LAt
      <4>2. cat = 0 BY <4>1 DEF IInv, JobAlone
      <4>3. QED BY <4>2 DEF Live
    <3>3. CASE ~JobDelete(l)
      BY <2>2, <3>1, <3>3 DEF Leader, ListJobs, LoadTable, SweepShard, ReadPage, NoPage, SweepForced,
         SaveCursor, CountLeft, Unlink, ClearJob, CrashLeader, store
    <3>4. QED BY <3>2, <3>3
  <2>3. ASSUME NEW q \in Pks, Expire(q) PROVE FALSE BY <2>0, <2>3 DEF Expire
  <2>4. CASE UNCHANGED vars BY <2>0, <2>4 DEF vars
  <2>5. QED BY <2>1, <2>2, <2>3, <2>4 DEF Next
<1>2. QED BY <1>1, InvAlways, PTL DEF Spec, JobSpares
=============================================================================
