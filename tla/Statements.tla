------------------------------ MODULE Statements ------------------------------
(***************************************************************************)
(* INSERT, UPDATE and DELETE statements (engine/editors.go) over a table   *)
(* with one unique index, and the reservations that enforce it             *)
(* (txguard/txguard.go reserveUnique, verifyBucketExclusive, releaseUnique,*)
(* rollbackReservations), beside a sweeper that releases the reservations  *)
(* of expired rows.                                                        *)
(*                                                                         *)
(* The reservation of a value is one key, created by SET NX and removed by *)
(* an unconditional DEL that follows a GET of its owner: two commands, with*)
(* anything in between.  RowWrite is about the commands of one row's index *)
(* pipeline; here the pipeline is one step.  A REPLACE or an ON DUPLICATE  *)
(* KEY UPDATE is an INSERT followed by a DELETE and an INSERT, or by an    *)
(* UPDATE, of the same session.                                            *)
(***************************************************************************)
EXTENDS Naturals, FiniteSets

CONSTANTS
    Sessions,      \* connections that run statements
    MaxPk,         \* primary keys are 1 .. MaxPk
    Values,        \* values of the unique column
    None,          \* no value, no owner
    StaleRetries,  \* tuning txguard.stale_retries
    Kinds,         \* subset of {"insert", "auto", "update", "delete"}
    VerifyMax,     \* the members that a verification reads of a bucket: 64
    Faults,        \* subset of {"segment", "release", "reserve", "size", "px", "load"}
    Escaped,       \* values whose EscapeValue is not the value itself
    MaxStmts       \* bound: statements started

Pks == 1 .. MaxPk

ASSUME StatementsAssumption ==
    /\ MaxPk \in Nat \ {0} /\ StaleRetries \in Nat \ {0} /\ VerifyMax \in Nat \ {0} /\ MaxStmts \in Nat
    /\ None \notin Values /\ None \notin Pks
    /\ Kinds \subseteq {"insert", "auto", "update", "delete"}
    /\ Faults \subseteq {"segment", "release", "reserve", "size", "px", "load"}
    /\ Escaped \subseteq Values

VARIABLES
    row,     \* per pk: _ver (0: no row), the unique column, its _iv, has a TTL
    rcpt,    \* per pk: the receipt of a row with a TTL: value (__uniq) and stamp
    bucket,  \* the members of the unique index: <<value, pk, stamp>>
    resv,    \* per value: the pk that owns its reservation, or None
    seq,     \* seq:{table}
    call,    \* per session: the statement it runs and its locals
    sweep,   \* the sweeper: where it is, its pk and the receipt it read
    started, \* the number of statements started
    births,  \* history, per pk: how often a row was born
    breach,  \* history: a reservation was deleted under a write that relies on it,
             \* relied on while another session had yet to verify it, or verified
             \* without a look at the member of the row that has the value
    clash,   \* history: two statements, or one and the sweeper, were at work on one row
    aba,     \* history: a command prepared for a row hit a later incarnation of it
    fault    \* history: what failed: an index pipeline, a release, a reservation, or a
             \* reservation that lapsed; bound: one

vars == <<row, rcpt, bucket, resv, seq, call, sweep, started, births, breach, clash,
          aba, fault>>

NoRow == [ver |-> 0, val |-> None, iv |-> 0, ttl |-> FALSE]
NoRcpt == [val |-> None, iv |-> 0]
Live(p) == row[p].ver > 0

\* pk: the row that is worked on; next: the row to write after the delete of pk (0:
\* none); val, ttl: what is written; seen, born: births when the row was pre-read and
\* when readExisting ran; mem: the pks that were read; rel: the value to release; res:
\* the answer once it is released.
NoCall == [op |-> "none", pc |-> "idle", pk |-> 1, next |-> 0, val |-> None, ttl |-> FALSE,
           snap |-> NoRow, rs |-> NoRcpt, seen |-> 0, born |-> 0, tries |-> 0,
           acq |-> FALSE, mem |-> {}, rel |-> None, res |-> "none"]
NoSweep == [pc |-> "idle", pk |-> 1, rs |-> NoRcpt]

\* A table at rest: row p was inserted with the value f[p], and has a TTL if p \in T.  Init
\* takes the first few rows, and a TTL for the first: a bound.
Settled(f, T) ==
    LET here == {p \in Pks : f[p] # None}
    IN  /\ row = [p \in Pks |-> IF p \in here THEN [ver |-> 1, val |-> f[p], iv |-> 1, ttl |-> p \in T]
                                ELSE NoRow]
        /\ rcpt = [p \in Pks |-> IF p \in here \cap T THEN [val |-> f[p], iv |-> 1] ELSE NoRcpt]
        /\ bucket = {<<f[p], p, 1>> : p \in here}
        /\ resv = [v \in Values |-> IF \E p \in here : f[p] = v THEN CHOOSE p \in here : f[p] = v ELSE None]
        /\ births = [p \in Pks |-> IF p \in here THEN 1 ELSE 0]

Init ==
    /\ \E n \in 0 .. MaxPk, f \in [Pks -> Values \cup {None}], T \in SUBSET {1} :
          /\ \A p, q \in Pks : (p # q /\ f[p] # None) => f[p] # f[q]
          /\ \A p \in Pks : f[p] # None <=> p <= n
          /\ \A p \in T : p <= n
          /\ Settled(f, T)
    /\ seq = MaxPk - 1     \* bound: one id is left to give
    /\ call = [c \in Sessions |-> NoCall]
    /\ sweep = NoSweep
    /\ started = 0
    /\ breach = FALSE /\ clash = FALSE /\ aba = FALSE /\ fault = {}

Set(c, r) == call' = [call EXCEPT ![c] = r]
Goto(c, l) == Set(c, [call[c] EXCEPT !.pc = l])
At(c, l) == call[c].pc = l
data == <<row, rcpt, bucket, seq>>
hist == <<births, breach, clash, aba, fault>>

\* The answer; the delete half of a key change goes on to WriteRow.
Answer(c, r) ==
    Set(c, IF r = "gone" /\ call[c].next # 0
           THEN [NoCall EXCEPT !.op = "update", !.pc = "row", !.pk = call[c].next, !.val = call[c].val,
                               !.born = call[c].born]
           ELSE NoCall)

\* A value to release comes before the answer.
Finish(c, r, v) ==
    IF v = None THEN Answer(c, r)
    ELSE Set(c, [NoCall EXCEPT !.op = call[c].op, !.pc = "relget", !.pk = call[c].pk, !.next = call[c].next,
                               !.val = call[c].val, !.born = call[c].born, !.rel = v, !.res = r])

\* WriteRow fails: rollbackReservations of what it has acquired.
Fail(c, r) == Finish(c, r, IF call[c].acq THEN call[c].val ELSE None)

(***************************************************************************)
(* The editors up to WriteRow / DeleteRow.                                 *)
(***************************************************************************)
\* The statement of a session is about a row in P.
WorksOn(c, P) == ~At(c, "idle") /\ ~At(c, "seq") /\ {call[c].pk, call[c].next} \cap P # {}

\* The rows in P are at work elsewhere.
Busy(c, P) ==
    \/ sweep.pc # "idle" /\ sweep.pk \in P
    \/ \E d \in Sessions \ {c} : WorksOn(d, P)

Begin(c, r) ==
    /\ At(c, "idle") /\ started < MaxStmts
    /\ started' = started + 1
    /\ Set(c, r)
    /\ clash' = (clash \/ (r.pc # "seq" /\ Busy(c, {r.pk, r.next} \ {0})))
    /\ UNCHANGED <<data, resv, sweep, births, breach, aba, fault>>

Insert(c, p, v, t) ==
    /\ "insert" \in Kinds
    /\ Begin(c, [NoCall EXCEPT !.op = "insert", !.pc = "exists", !.pk = p, !.val = v, !.ttl = t])

\* pk 0: NextAutoID gives it.
InsertAuto(c, v) ==
    /\ "auto" \in Kinds /\ seq < MaxPk
    /\ Begin(c, [NoCall EXCEPT !.op = "insert", !.pc = "seq", !.val = v])

\* The engine has read the row p and hands both rows over; q # p changes the key.
Update(c, p, q, v) ==
    /\ "update" \in Kinds /\ Live(p)
    /\ Begin(c, [NoCall EXCEPT !.op = "update", !.pc = IF p = q THEN "row" ELSE "exists",
                               !.pk = p, !.next = IF p = q THEN 0 ELSE q, !.val = v])

Delete(c, p) ==
    /\ "delete" \in Kinds /\ Live(p)
    /\ Begin(c, [NoCall EXCEPT !.op = "delete", !.pc = "drow", !.pk = p])

NextAutoID(c) ==
    /\ At(c, "seq") /\ seq < MaxPk
    /\ seq' = seq + 1
    /\ Set(c, [call[c] EXCEPT !.pc = "exists", !.pk = seq + 1])
    /\ clash' = (clash \/ Busy(c, {seq + 1}))
    /\ UNCHANGED <<row, rcpt, bucket, resv, sweep, started, births, breach, aba, fault>>

NewPk(c) == IF call[c].next = 0 THEN call[c].pk ELSE call[c].next
Checked(c) == Set(c, [call[c] EXCEPT !.pc = IF call[c].op = "insert" THEN "row" ELSE "drow",
                                     !.born = births[NewPk(c)]])

\* Mutant: WriteRow's upsert is relied on to find the duplicate.
ReadExistingSkipped(c) == At(c, "exists") /\ Checked(c) /\ UNCHANGED <<data, resv, sweep, started, hist>>

\* A live row at the new key is error 1062.
ReadExisting(c) ==
    /\ At(c, "exists")
    /\ IF Live(NewPk(c)) THEN Answer(c, "exists") ELSE Checked(c)
    /\ UNCHANGED <<data, resv, sweep, started, hist>>

(***************************************************************************)
(* WriteRow: pre-read and reservation.                                     *)
(***************************************************************************)
\* checkRowSize: a key change has deleted the old row by now.
RowTooLarge(c) ==
    /\ "size" \in Faults /\ At(c, "row") /\ call[c].tries = 0
    /\ Answer(c, "err")
    /\ UNCHANGED <<data, resv, sweep, started, hist>>

Preread(c) ==
    /\ At(c, "row")
    /\ Set(c, [call[c] EXCEPT !.pc = IF Live(call[c].pk) THEN "nx" ELSE "rcpt",
                              !.snap = row[call[c].pk], !.rs = NoRcpt, !.seen = births[call[c].pk]])
    /\ UNCHANGED <<data, resv, sweep, started, hist>>

ReadReceipt(c) ==
    /\ At(c, "rcpt")
    /\ Set(c, [call[c] EXCEPT !.pc = "nx", !.rs = rcpt[call[c].pk]])
    /\ UNCHANGED <<data, resv, sweep, started, hist>>

SetNX(c) == resv' = [resv EXCEPT ![call[c].val] = call[c].pk]
Free(c) == resv[call[c].val] = None
Acquired(c) == Set(c, [call[c] EXCEPT !.pc = "lua", !.acq = TRUE, !.mem = {}])

\* SET NX PX.
Reserve(c) ==
    /\ At(c, "nx")
    /\ IF Free(c) THEN SetNX(c) /\ Goto(c, "verify") ELSE UNCHANGED resv /\ Goto(c, "owner")
    /\ UNCHANGED <<data, sweep, started, hist>>

\* Another session has made the reservation for this row and has not found the value
\* free: it is still verifying, or is about to give it back.
Unproven(c) ==
    \E d \in Sessions \ {c} :
        /\ call[d].pk = call[c].pk /\ call[d].val = call[c].val
        /\ call[d].pc \in {"verify", "check"} \/ (call[d].rel = call[c].val /\ call[d].res = "dup")

\* GET: nobody any more, this row (taken for its own earlier attempt), or another row.
GetOwner(c) ==
    /\ At(c, "owner")
    /\ CASE Free(c) -> Goto(c, "nx2")
         [] resv[call[c].val] = call[c].pk -> Acquired(c)
         [] OTHER -> Set(c, [call[c] EXCEPT !.pc = "alive", !.mem = {resv[call[c].val]}])
    /\ breach' = (breach \/ (resv[call[c].val] = call[c].pk /\ Unproven(c)))
    /\ UNCHANGED <<data, resv, sweep, started, births, clash, aba, fault>>

\* EXISTS owner: alive is a conflict.
OwnerAlive(c) ==
    /\ At(c, "alive")
    /\ IF \E p \in call[c].mem : Live(p) THEN Fail(c, "dup") ELSE Set(c, [call[c] EXCEPT !.pc = "takeover", !.mem = {}])
    /\ UNCHANGED <<data, resv, sweep, started, hist>>

\* A write of row p that has reserved v and whose member is not in its bucket yet.
Relies(c, p, v) ==
    /\ call[c].pk = p /\ call[c].val = v
    /\ call[c].pc \in {"verify", "check", "lua", "index"} \/ (call[c].acq /\ call[c].pc \in {"row", "rcpt", "nx", "owner", "nx2"})

\* DEL of a reservation, whoever owns it now.
Del(v) ==
    /\ resv' = [resv EXCEPT ![v] = None]
    /\ breach' = (breach \/ \E c \in Sessions : resv[v] # None /\ Relies(c, resv[v], v))
    /\ UNCHANGED <<births, clash, aba, fault>>

TakeOver(c) ==
    /\ At(c, "takeover")
    /\ Del(call[c].val)
    /\ Goto(c, "nx2")
    /\ UNCHANGED <<data, sweep, started>>

\* retryReserve: to lose it is answered as a duplicate, whoever won it.
RetryReserve(c) ==
    /\ At(c, "nx2")
    /\ IF Free(c) THEN SetNX(c) /\ Goto(c, "verify") ELSE UNCHANGED resv /\ Fail(c, "dup")
    /\ UNCHANGED <<data, sweep, started, hist>>

\* ZRANGE 0 63 of each bucket of the value.  When the document cannot be loaded, a value
\* that is split is looked up in bucket 0 alone, whatever that holds.
Looks(ms) == {m \in SUBSET ms : m = ms \/ Cardinality(m) >= VerifyMax \/ "load" \in Faults}

VerifyBucket(c) ==
    /\ At(c, "verify")
    /\ LET ms == {x \in bucket : x[1] = call[c].val}
       IN  \E m \in Looks(ms) :
              /\ IF m = {} THEN Acquired(c) ELSE Set(c, [call[c] EXCEPT !.pc = "check", !.mem = {x[2] : x \in m}])
              /\ breach' = (breach \/ \E x \in ms : /\ x[2] # call[c].pk /\ Live(x[2]) /\ row[x[2]].val = x[1]
                                                    /\ x[2] \notin {y[2] : y \in m})
    /\ UNCHANGED <<data, resv, sweep, started, births, clash, aba, fault>>

\* Mutant: a fresh reservation is taken for proof that the value is free.
VerifyMembersTrusting(c) == At(c, "check") /\ Acquired(c) /\ UNCHANGED <<data, resv, sweep, started, hist>>

\* EXISTS of the rows: another live one is a conflict, and the reservation goes.  The
\* key to release is built from the escaped value, which UniqueKey escapes once more.
VerifyMembers(c) ==
    /\ At(c, "check")
    /\ IF ~\E p \in call[c].mem \ {call[c].pk} : Live(p) THEN Acquired(c)
       ELSE IF call[c].val \in Escaped THEN Fail(c, "dup") ELSE Finish(c, "dup", call[c].val)
    /\ UNCHANGED <<data, resv, sweep, started, hist>>

\* A command of reserveUnique fails.
ReserveError(c) ==
    /\ "reserve" \in Faults /\ fault = {} /\ call[c].pc \in {"nx", "owner", "alive", "takeover", "nx2", "verify", "check"}
    /\ Fail(c, "err")
    /\ fault' = fault \cup {"reserve"}
    /\ UNCHANGED <<data, resv, sweep, started, births, breach, clash, aba>>

(***************************************************************************)
(* WriteRow: the row Lua, the index pipeline, the releases.                *)
(***************************************************************************)
\* A stale version: again from the pre-read, up to the configured number of attempts.
Retry(c, l) ==
    IF call[c].tries + 1 < StaleRetries
    THEN Set(c, [call[c] EXCEPT !.pc = l, !.tries = @ + 1])
    ELSE Fail(c, "err")

\* An UPDATE without _ttl keeps the row's TTL.
RowLua(c) ==
    /\ At(c, "lua")
    /\ LET p == call[c].pk
           s == call[c].snap
           r == row[p]
           ttl == IF call[c].op = "update" THEN r.ttl ELSE call[c].ttl
           iv == IF s.val # call[c].val THEN s.ver + 1 ELSE r.iv
       IN  IF r.ver # s.ver
           THEN Retry(c, "row") /\ UNCHANGED <<row, rcpt, births, aba>>
           ELSE /\ row' = [row EXCEPT ![p] = [ver |-> r.ver + 1, val |-> call[c].val, iv |-> iv, ttl |-> ttl]]
                /\ rcpt' = [rcpt EXCEPT ![p] = IF ttl \/ call[c].op = "update"
                                               THEN [val |-> call[c].val, iv |-> IF s.val # call[c].val THEN iv ELSE s.iv]
                                               ELSE NoRcpt]
                /\ births' = [births EXCEPT ![p] = IF r.ver = 0 THEN @ + 1 ELSE @]
                /\ aba' = (aba \/ births[p] # call[c].seen)
                /\ Set(c, [call[c] EXCEPT !.pc = "index", !.seen = 0, !.born = 0, !.tries = 0, !.ttl = FALSE])
    /\ UNCHANGED <<bucket, resv, seq, sweep, started, breach, clash, fault>>

Member(p, s) == IF s.val = None THEN {} ELSE {<<s.val, p, s.iv>>}

\* ZREM of members; one that is a live row's was named for an earlier incarnation of
\* the row, which had the same version.
ZRem(ms, add) ==
    /\ bucket' = (bucket \ ms) \cup add
    /\ aba' = (aba \/ \E x \in ms \ add : Live(x[2]) /\ row[x[2]].val = x[1] /\ row[x[2]].iv = x[3])
    /\ UNCHANGED <<births, breach, clash, fault>>

Other(v, w) == IF v = w THEN None ELSE v

\* Mutant: an UPDATE does not release the value it replaces.
ToReleaseRevivedOnly(c) == IF call[c].snap.ver = 0 THEN Other(call[c].rs.val, call[c].val) ELSE None

\* The value that was replaced; of a revived row, the one its receipt names.
ToRelease(c) ==
    Other(IF call[c].snap.ver = 0 THEN call[c].rs.val ELSE call[c].snap.val, call[c].val)

IndexPipeline(c) ==
    /\ At(c, "index")
    /\ LET p == call[c].pk
           s == call[c].snap
           changed == s.val # call[c].val
           undo == (IF changed THEN Member(p, s) ELSE {}) \cup Member(p, call[c].rs)
           redo == IF changed THEN {<<call[c].val, p, s.ver + 1>>} ELSE {}
       IN  ZRem(undo, redo)
    /\ Finish(c, "ok", ToRelease(c))
    /\ UNCHANGED <<row, rcpt, resv, seq, sweep, started>>

\* The pipeline fails: the row is committed and the reservation is rolled back.
PipelineLost(c) ==
    /\ "segment" \in Faults /\ fault = {} /\ At(c, "index")
    /\ Fail(c, "err")
    /\ fault' = fault \cup {"segment"}
    /\ UNCHANGED <<data, resv, sweep, started, births, breach, clash, aba>>

\* releaseUnique: GET, and only the row's own reservation is deleted.
ReleaseGet(c) ==
    /\ At(c, "relget")
    /\ IF resv[call[c].rel] = call[c].pk THEN Goto(c, "reldel") ELSE Answer(c, call[c].res)
    /\ UNCHANGED <<data, resv, sweep, started, hist>>

ReleaseDel(c) ==
    /\ At(c, "reldel")
    /\ Del(call[c].rel)
    /\ Answer(c, call[c].res)
    /\ UNCHANGED <<data, sweep, started>>

\* Either command fails: the error is ignored.
ReleaseLost(c) ==
    /\ "release" \in Faults /\ fault = {} /\ call[c].pc \in {"relget", "reldel"}
    /\ Answer(c, call[c].res)
    /\ fault' = fault \cup {"release"}
    /\ UNCHANGED <<data, resv, sweep, started, births, breach, clash, aba>>

(***************************************************************************)
(* DeleteRow.                                                              *)
(***************************************************************************)
DeletePreread(c) ==
    /\ At(c, "drow")
    /\ IF Live(call[c].pk)
       THEN Set(c, [call[c] EXCEPT !.pc = "dlua", !.snap = row[call[c].pk], !.seen = births[call[c].pk]])
       ELSE Answer(c, "gone")
    /\ UNCHANGED <<data, resv, sweep, started, hist>>

\* The D branch of the row Lua.  A row that is gone is stale: its version is 0.
DeleteLua(c) ==
    /\ At(c, "dlua")
    /\ LET p == call[c].pk
       IN  IF row[p].ver # call[c].snap.ver
           THEN Retry(c, "drow") /\ UNCHANGED <<row, rcpt, aba>>
           ELSE /\ row' = [row EXCEPT ![p] = NoRow]
                /\ rcpt' = [rcpt EXCEPT ![p] = NoRcpt]
                /\ aba' = (aba \/ births[p] # call[c].seen)
                /\ Set(c, [call[c] EXCEPT !.pc = "dindex", !.seen = 0, !.tries = 0])
    /\ UNCHANGED <<bucket, resv, seq, sweep, started, births, breach, clash, fault>>

DeleteIndex(c) ==
    /\ At(c, "dindex")
    /\ ZRem(Member(call[c].pk, call[c].snap), {})
    /\ Finish(c, "gone", call[c].snap.val)
    /\ UNCHANGED <<row, rcpt, resv, seq, sweep, started>>

(***************************************************************************)
(* Expiry and the sweeper.                                                 *)
(***************************************************************************)
Expire(p) ==
    /\ row[p].ttl
    /\ row' = [row EXCEPT ![p] = NoRow]
    /\ UNCHANGED <<rcpt, bucket, resv, seq, call, sweep, started, hist>>

\* The PX of a reservation, 24 h: no statement takes that long.  Bound: one lapse, or one
\* failure.
ReservationLapses(v) ==
    /\ "px" \in Faults /\ fault = {} /\ resv[v] # None /\ ~\E c \in Sessions : Relies(c, resv[v], v)
    /\ resv' = [resv EXCEPT ![v] = None]
    /\ fault' = {"px"}
    /\ UNCHANGED <<data, call, sweep, started, births, breach, clash, aba>>

SweepTo(l, p, r) == sweep' = [pc |-> l, pk |-> p, rs |-> r]

SweepRead(p) ==
    /\ sweep.pc = "idle" /\ ~Live(p) /\ rcpt[p] # NoRcpt
    /\ SweepTo("lua", p, rcpt[p])
    /\ clash' = (clash \/ \E c \in Sessions : WorksOn(c, {p}))
    /\ UNCHANGED <<data, resv, call, started, births, breach, aba, fault>>

SweepLua ==
    /\ sweep.pc = "lua"
    /\ IF Live(sweep.pk) THEN sweep' = NoSweep /\ UNCHANGED rcpt
       ELSE SweepTo("clean", sweep.pk, sweep.rs) /\ rcpt' = [rcpt EXCEPT ![sweep.pk] = NoRcpt]
    /\ UNCHANGED <<row, bucket, seq, resv, call, started, hist>>

SweepClean ==
    /\ sweep.pc = "clean"
    /\ ZRem(Member(sweep.pk, sweep.rs), {})
    /\ SweepTo("get", sweep.pk, sweep.rs)
    /\ UNCHANGED <<row, rcpt, seq, resv, call, started>>

SweepGet ==
    /\ sweep.pc = "get"
    /\ IF resv[sweep.rs.val] = sweep.pk THEN SweepTo("del", sweep.pk, sweep.rs) ELSE sweep' = NoSweep
    /\ UNCHANGED <<data, resv, call, started, hist>>

SweepDel ==
    /\ sweep.pc = "del"
    /\ Del(sweep.rs.val)
    /\ sweep' = NoSweep
    /\ UNCHANGED <<data, call, started>>

SessionStep(c) ==
    \/ NextAutoID(c) \/ ReadExisting(c) \/ Preread(c) \/ ReadReceipt(c)
    \/ Reserve(c) \/ GetOwner(c) \/ OwnerAlive(c) \/ TakeOver(c) \/ RetryReserve(c)
    \/ VerifyBucket(c) \/ VerifyMembers(c) \/ RowLua(c) \/ IndexPipeline(c)
    \/ ReleaseGet(c) \/ ReleaseDel(c)
    \/ DeletePreread(c) \/ DeleteLua(c) \/ DeleteIndex(c)

SweeperStep == (\E p \in Pks : SweepRead(p)) \/ SweepLua \/ SweepClean \/ SweepGet \/ SweepDel

Next ==
    \/ \E c \in Sessions :
          \/ \E p \in Pks, v \in Values, t \in BOOLEAN : Insert(c, p, v, t)
          \/ \E v \in Values : InsertAuto(c, v)
          \/ \E p, q \in Pks, v \in Values : Update(c, p, q, v)
          \/ \E p \in Pks : Delete(c, p)
          \/ SessionStep(c) \/ PipelineLost(c) \/ ReleaseLost(c) \/ ReserveError(c) \/ RowTooLarge(c)
    \/ \E p \in Pks : Expire(p)
    \/ \E v \in Values : ReservationLapses(v)
    \/ SweeperStep

Spec == Init /\ [][Next]_vars

(***************************************************************************)
(* Properties.                                                             *)
(***************************************************************************)
Pcs == {"idle", "seq", "exists", "row", "rcpt", "nx", "owner", "alive", "takeover", "nx2", "verify",
        "check", "lua", "index", "relget", "reldel", "drow", "dlua", "dindex"}
Row == [ver : Nat, val : Values \cup {None}, iv : Nat, ttl : BOOLEAN]
Receipt == [val : Values \cup {None}, iv : Nat]
Locals == [op : {"none", "insert", "update", "delete"}, pc : Pcs, pk : Pks, next : Pks \cup {0},
           val : Values \cup {None}, ttl : BOOLEAN, snap : Row, rs : Receipt, seen : Nat, born : Nat,
           tries : 0 .. StaleRetries - 1, acq : BOOLEAN, mem : SUBSET Pks, rel : Values \cup {None},
           res : {"none", "ok", "gone", "dup", "err", "exists"}]

\* The types of the store and of the statements' locals: an owner is a row, a
\* release is of a value, attempts are bounded.
TypeOK ==
    /\ row \in [Pks -> Row] /\ rcpt \in [Pks -> Receipt]
    /\ bucket \in SUBSET (Values \X Pks \X Nat)
    /\ resv \in [Values -> Pks \cup {None}]
    /\ seq \in 0 .. MaxPk
    /\ call \in [Sessions -> Locals]
    /\ \A c \in Sessions : call[c].pc \in {"relget", "reldel"} <=> call[c].rel # None
    /\ sweep \in [pc : {"idle", "lua", "clean", "get", "del"}, pk : Pks, rs : Receipt]
    /\ started \in Nat /\ births \in [Pks -> Nat]
    /\ breach \in BOOLEAN /\ clash \in BOOLEAN /\ aba \in BOOLEAN /\ fault \in SUBSET Faults

\* The unique constraint: no two live rows have the same value, however statements,
\* take-overs, releases, expiry, the sweeper and the 24 h lapse of reservations
\* interleave -- unless a reservation was deleted under a write that relies on it
\* (docs/05 5.3 declares the take-over window) or used unverified by a second write of
\* its row, its verification looked at 64 other members or at the wrong bucket, a command
\* hit a later incarnation of its row, or a pipeline was lost.
UniqueHeld ==
    (~breach /\ ~aba /\ fault \subseteq {"px"}) =>
        \A p, q \in Pks : (p # q /\ Live(p) /\ Live(q)) => row[p].val # row[q].val

\* An INSERT, or the write half of a key change, overwrites no row that lived when
\* readExisting ran: what it finds at its commit was born during the statement.
InsertSpares ==
    [][\A c \in Sessions :
          LET p == call[c].pk
          IN  (At(c, "lua") /\ call'[c].pc = "index" /\ Live(p))
                  => births[p] > call[c].born]_vars

AtRest == sweep.pc = "idle" /\ \A c \in Sessions : At(c, "idle")

\* docs/05 5.3: a conflict is "a live row that has the same value".  When nothing runs, a
\* value that no live row has can be written: neither its reservation nor a member of
\* its bucket belongs to a live row.
Usable ==
    \A v \in Values, p \in Pks :
        (Live(p) /\ row[p].val # v) => resv[v] # p /\ \A x \in bucket : ~(x[1] = v /\ x[2] = p)

\* What UPDATE, DELETE, key changes, revival, take-overs and failed statements had
\* reserved and indexed is given back, as long as no two of them overlapped on one row.
NoStrayReservation == (AtRest /\ ~clash /\ fault \subseteq {"px"}) => Usable
=============================================================================
