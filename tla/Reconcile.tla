------------------------------- MODULE Reconcile -------------------------------
(***************************************************************************)
(* The reconciler (controller/reconcile.go): it samples a page of the      *)
(* expiry register, reads its rows, and some commands later compares them  *)
(* with the index, while statements, expiry and the sweeper go on.  It     *)
(* reports drift, and repairs two kinds of it: members with another stamp  *)
(* than the row's are removed, rows without a register entry are entered.  *)
(*                                                                         *)
(* One table, one register shard, one visible synchronous equality index   *)
(* that is not split.  Its reports about reservations and dead letters     *)
(* change nothing and are left out.                                        *)
(***************************************************************************)
EXTENDS Naturals, FiniteSets

CONSTANTS
    MaxPk,      \* primary keys are 1 .. MaxPk
    Values,     \* values of the indexed column
    None,       \* no value
    Old,        \* the rows that are older than the index: they have no _iv
    Writers,    \* sessions with a statement
    PageRows,   \* tuning controller.reconcile_rows_per_slot
    BucketRows, \* the members that ZRANGE 0 63 reads of a bucket
    MaxWrites,  \* bound: statements
    MaxDeaths   \* bound: statements that die between two of their segments

ASSUME ReconcileAssumption ==
    /\ MaxPk \in Nat \ {0} /\ PageRows \in Nat \ {0} /\ BucketRows \in Nat \ {0} /\ MaxWrites \in Nat /\ MaxDeaths \in Nat
    /\ None \notin Values /\ Values # {} /\ Old \subseteq 1 .. MaxPk

Pks == 1 .. MaxPk

VARIABLES
    row,     \* per pk: _ver (0: no row), the column, _iv (0: no field), has a TTL
    rcpt,    \* the pks that have a receipt
    exp,     \* the expiry register
    member,  \* the members of the index: <<value, pk, stamp>>
    wr,      \* per writer: its statement
    rec,     \* the reconciler's locals in ReconcilePage
    writes, deaths

vars == <<row, rcpt, exp, member, wr, rec, writes, deaths>>
data == <<row, rcpt, exp, member>>

NoRow == [ver |-> 0, val |-> None, iv |-> 0, ttl |-> FALSE]
Live(p) == row[p].ver > 0
IvOf(r) == IF r.iv > 0 THEN r.iv ELSE r.ver
\* expectedMember: from _iv, or from the row's version where there is none.
Expected(p, r) == <<r.val, p, IvOf(r)>>

IdleW == [pc |-> "idle", pk |-> 1, val |-> None, snap |-> NoRow]
\* quiet: no other actor has moved since the page was read.
IdleR == [pc |-> "idle", pks |-> {}, live |-> {}, swept |-> {}, seen |-> {}, lost |-> {}, todo |-> {},
          missing |-> {}, orphan |-> {}, quiet |-> TRUE]

\* Rows of one value, in their index.
Init ==
    /\ LET v == CHOOSE w \in Values : TRUE
       IN  /\ row = [p \in Pks |-> [ver |-> 1, val |-> v, iv |-> IF p \in Old THEN 0 ELSE 1, ttl |-> FALSE]]
           /\ member = {<<v, p, 1>> : p \in Pks}
    /\ rcpt = {} /\ exp = Pks
    /\ wr = [w \in Writers |-> IdleW] /\ rec = IdleR
    /\ writes = 0 /\ deaths = 0

(***************************************************************************)
(* The others: statements, expiry, the sweeper.                            *)
(***************************************************************************)
Disturb == rec' = [rec EXCEPT !.quiet = rec.pc = "idle"]

Set(w, rest) == wr' = [wr EXCEPT ![w] = rest]

\* The pre-read; v = None deletes.
Start(w, p, v) ==
    /\ wr[w].pc = "idle" /\ writes < MaxWrites
    /\ v = None => Live(p)
    /\ Set(w, [pc |-> "lua", pk |-> p, val |-> v, snap |-> row[p]])
    /\ writes' = writes + 1
    /\ Disturb /\ UNCHANGED <<data, deaths>>

\* The row Lua; a row that has changed since is read again.
Commit(w, t) ==
    /\ wr[w].pc = "lua"
    /\ LET s == wr[w]
           p == s.pk
           r == row[p]
       IN  CASE r.ver # s.snap.ver -> Set(w, [s EXCEPT !.snap = r]) /\ UNCHANGED <<row, rcpt>>
             [] r.ver = s.snap.ver /\ s.val = None ->
                  /\ row' = [row EXCEPT ![p] = NoRow] /\ rcpt' = rcpt \ {p}
                  /\ Set(w, IF r.ver = 0 THEN IdleW ELSE [s EXCEPT !.pc = "index"])
             [] OTHER ->
                  /\ row' = [row EXCEPT ![p] = [ver |-> r.ver + 1, val |-> s.val, ttl |-> t,
                                                iv |-> IF r.val # s.val THEN r.ver + 1 ELSE r.iv]]
                  /\ rcpt' = IF t THEN rcpt \cup {p} ELSE rcpt \ {p}
                  /\ Set(w, [s EXCEPT !.pc = "index"])
    /\ Disturb /\ UNCHANGED <<exp, member, writes, deaths>>

\* The index segment, from the row as it was read.
Segment(w) ==
    /\ wr[w].pc = "index"
    /\ LET s == wr[w]
           undo == IF s.snap.ver > 0 /\ s.snap.val # s.val THEN {Expected(s.pk, s.snap)} ELSE {}
           redo == IF s.val # None /\ s.snap.val # s.val THEN {<<s.val, s.pk, s.snap.ver + 1>>} ELSE {}
       IN  /\ member' = (member \ undo) \cup redo
           /\ Set(w, [s EXCEPT !.pc = "exp"])
    /\ Disturb /\ UNCHANGED <<row, rcpt, exp, writes, deaths>>

Register(w) ==
    /\ wr[w].pc = "exp"
    /\ exp' = IF wr[w].val = None THEN exp \ {wr[w].pk} ELSE exp \cup {wr[w].pk}
    /\ Set(w, IdleW)
    /\ Disturb /\ UNCHANGED <<row, rcpt, member, writes, deaths>>

\* The instance dies between two segments.
Die(w) ==
    /\ wr[w].pc \in {"index", "exp"} /\ deaths < MaxDeaths
    /\ Set(w, IdleW) /\ deaths' = deaths + 1
    /\ Disturb /\ UNCHANGED <<data, writes>>

Expire(p) ==
    /\ row[p].ttl
    /\ row' = [row EXCEPT ![p] = NoRow]
    /\ Disturb /\ UNCHANGED <<rcpt, exp, member, wr, writes, deaths>>

\* The sweeper (Sweep has its steps): the receipt, the members it names, the entry.
SweepRow(p) ==
    /\ ~Live(p) /\ p \in rcpt /\ p \in exp /\ \A w \in Writers : wr[w].pc = "idle"
    /\ rcpt' = rcpt \ {p} /\ exp' = exp \ {p} /\ member' = {m \in member : m[2] # p}
    /\ Disturb /\ UNCHANGED <<row, wr, writes, deaths>>

(***************************************************************************)
(* ReconcilePage.                                                          *)
(***************************************************************************)
At(l) == rec.pc = l
Others == UNCHANGED <<wr, writes, deaths>>

\* The offset of the page: Int63n(total - rows) where the register has more than a page.
Offsets(n) == IF n > PageRows THEN 0 .. n - PageRows - 1 ELSE {0}

\* The rank of an entry: rows without a TTL have one score and rank by pk.
Rank(p) == Cardinality({q \in exp : q < p})

\* ZRANGE of the register from rank o on.
Page(o) == {p \in exp : o <= Rank(p) /\ Rank(p) < o + PageRows}

Sample ==
    /\ At("idle") /\ exp # {}
    /\ \E o \in Offsets(Cardinality(exp)) :
          rec' = [IdleR EXCEPT !.pc = "rows", !.pks = Page(o)]
    /\ UNCHANGED data /\ Others

\* HGETALL and EXISTS of the receipt.
ReadRows ==
    /\ At("rows")
    /\ rec' = [rec EXCEPT !.pc = "forward",
                          !.pks = {}, !.live = {<<p, row[p]>> : p \in {q \in rec.pks : Live(q)}},
                          !.swept = {p \in rec.pks : ~Live(p) /\ p \notin rcpt}]
    /\ UNCHANGED data /\ Others

\* Mutant: a row that is older than its index passes without a look.
IndexedOrOld(p, r) == r.iv = 0 \/ Expected(p, r) \in member

\* ZSCORE of the member a live row should have.
Indexed(p, r) == Expected(p, r) \in member

CheckMembers ==
    /\ At("forward")
    /\ rec' = [rec EXCEPT !.pc = "reverse", !.missing = {x[1] : x \in {y \in rec.live : ~Indexed(y[1], y[2])}}]
    /\ UNCHANGED data /\ Others

\* A bucket's members have one score and rank by pk and stamp.
InFirst(m) ==
    Cardinality({n \in member : n[1] = m[1] /\ (n[2] < m[2] \/ (n[2] = m[2] /\ n[3] < m[3]))}) < BucketRows

\* ZRANGE 0 63 of the buckets of the live rows' values.
ReadBuckets ==
    /\ At("reverse")
    /\ rec' = [rec EXCEPT !.pc = "clean", !.seen = {m \in member : InFirst(m) /\ \E x \in rec.live : x[2].val = m[1]}]
    /\ UNCHANGED data /\ Others

\* A member of a row of the page with another stamp than the row's.
Drifted(m, x) == m[2] = x[1] /\ m[3] # IvOf(x[2])

\* Mutant: what drifted is only reported.
CleanNone == {}

ToClean == {m \in rec.seen : \E x \in rec.live : Drifted(m, x)}

\* The pks of the buckets that are rows of the page: only these may be entered.
ToEnter(found, here) == found \cap here

\* ZREM of them, as they were read.  The other pks are looked up.
Clean ==
    /\ At("clean")
    /\ member' = member \ ToClean
    /\ LET here == {x[1] : x \in rec.live}
           found == {m[2] : m \in rec.seen}
       IN  rec' = [rec EXCEPT !.pc = "orphans", !.seen = {}, !.swept = {}, !.lost = found \ (here \cup rec.swept), !.todo = ToEnter(found, here)]
    /\ UNCHANGED <<row, rcpt, exp>> /\ Others

\* Mutant: the receipt of an expired row is not looked for.
RowGone(p) == ~Live(p)

\* Neither the row nor its receipt, which the sweeper still needs.
IsOrphan(p) == ~Live(p) /\ p \notin rcpt

Orphans ==
    /\ At("orphans")
    /\ rec' = [rec EXCEPT !.pc = "zscore", !.lost = {}, !.orphan = {p \in rec.lost : IsOrphan(p)}]
    /\ UNCHANGED data /\ Others

\* ZSCORE in the register of the rows of the page that have a member.
Unregistered ==
    /\ At("zscore")
    /\ rec' = [rec EXCEPT !.pc = "pttl", !.live = {}, !.missing = {}, !.orphan = {}, !.todo = rec.todo \ exp]
    /\ UNCHANGED data /\ Others

\* PTTL: a row that is gone is not entered.
ReadTTL ==
    /\ At("pttl")
    /\ rec' = [rec EXCEPT !.pc = "enter", !.todo = {p \in rec.todo : Live(p)}]
    /\ UNCHANGED data /\ Others

Enter ==
    /\ At("enter")
    /\ exp' = exp \cup rec.todo
    /\ rec' = IdleR
    /\ UNCHANGED <<row, rcpt, member>> /\ Others

ReconcileStep ==
    \/ Sample \/ ReadRows \/ CheckMembers \/ ReadBuckets \/ Clean \/ Orphans \/ Unregistered \/ ReadTTL \/ Enter

Next ==
    \/ \E w \in Writers :
          \/ \E p \in Pks, v \in Values \cup {None} : Start(w, p, v)
          \/ (\E t \in BOOLEAN : Commit(w, t)) \/ Segment(w) \/ Register(w) \/ Die(w)
    \/ \E p \in Pks : Expire(p) \/ SweepRow(p)
    \/ ReconcileStep

Spec == Init /\ [][Next]_vars

\* The controller ticks; a statement goes on or dies.
FairSpec ==
    /\ Spec /\ WF_vars(ReconcileStep)
    /\ \A w \in Writers : WF_vars((\E t \in BOOLEAN : Commit(w, t)) \/ Segment(w) \/ Register(w))

(***************************************************************************)
(* Properties.                                                             *)
(***************************************************************************)
Row == [ver : Nat, val : Values \cup {None}, iv : Nat, ttl : BOOLEAN]
Member == Values \X Pks \X (Nat \ {0})
Statement == [pc : {"idle", "lua", "index", "exp"}, pk : Pks, val : Values \cup {None}, snap : Row]
PagePcs == {"idle", "rows", "forward", "reverse", "clean", "orphans", "zscore", "pttl", "enter"}
PageLocals == [pc : PagePcs, pks : SUBSET Pks, live : SUBSET (Pks \X Row), swept : SUBSET Pks, seen : SUBSET Member,
               lost : SUBSET Pks, todo : SUBSET Pks, missing : SUBSET Pks, orphan : SUBSET Pks, quiet : BOOLEAN]

\* The types of the store and of the locals; a stamp is never above its row's version.
TypeOK ==
    /\ row \in [Pks -> Row] /\ \A p \in Pks : row[p].iv <= row[p].ver
    /\ rcpt \in SUBSET Pks /\ exp \in SUBSET Pks /\ member \in SUBSET Member
    /\ wr \in [Writers -> Statement]
    /\ rec \in PageLocals
    /\ writes \in Nat /\ deaths \in Nat

Findable(p) == Live(p) /\ \E m \in member : m[1] = row[p].val /\ m[2] = p

\* What is reported is so: when nobody else has moved since the page was read, the rows
\* reported as missing from the index are those that are, and members are reported as
\* orphans whose row and receipt are gone.
ReportsTrue ==
    (At("zscore") /\ rec.quiet) =>
        /\ rec.missing = {x[1] : x \in {y \in rec.live : Expected(y[1], y[2]) \notin member}}
        /\ \A p \in rec.orphan : ~Live(p) /\ p \notin rcpt /\ \E m \in member : m[2] = p

\* A member that does not have its live row's stamp.
Stale(m) == Live(m[2]) /\ m[3] # IvOf(row[m[2]]) /\ \E p \in Pks : Live(p) /\ p \in exp /\ row[p].val = m[1]

\* A repair may remove the member of a row that was written after the page was read
\* (reconcile.go:313-325), as a dying statement may lose it.  A registered row that is
\* without its member for good is then reported (index_member_missing), as long as the
\* register fits a page.
Reported ==
    \A p \in Pks :
        (Live(p) /\ p \in exp /\ Expected(p, row[p]) \notin member)
            ~> (p \in rec.missing \/ ~Live(p) \/ p \notin exp \/ Expected(p, row[p]) \in member)

\* The dirt that interleaved and dying statements leave among the first members of the
\* bucket of a value in use goes away (reconcile.go exception 1), as long as both rows are
\* in the page.
Heals == []<>(\A m \in member : m[2] \in exp /\ InFirst(m) => ~Stale(m))

\* reconcile.go exception 2: a row whose register entry was lost is entered again.
RegisterHeals ==
    \A p \in Pks : (Findable(p) /\ p \notin exp) ~> ~(Findable(p) /\ p \notin exp)
=============================================================================
