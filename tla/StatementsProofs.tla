-------------------------- MODULE StatementsProofs --------------------------
(***************************************************************************)
(* For any number of sessions, rows, values and statements: the unique     *)
(* constraint holds, reservations and members are given back, and an       *)
(* INSERT overwrites no row that it has seen.                              *)
(***************************************************************************)
EXTENDS Statements, TLAPS

(***************************************************************************)
(* The inductive invariant, for every state.                               *)
(***************************************************************************)
\* A value that is released under its own name: section 5 of the README.
PlainKeys == Escaped = {}

Reserving == {"nx", "owner", "alive", "takeover", "nx2", "verify", "check", "lua"}
Deleting == {"drow", "dlua", "dindex"}

\* What the locals of a statement have to do with each other.
Shape(r) ==
    /\ r.pc # "idle" /\ r.op # "delete" => r.val \in Values
    /\ r.op = "delete" => r.next = 0 /\ r.pc \in Deleting \cup {"relget", "reldel"}
    /\ r.pc = "lua" => r.acq
    /\ r.pc = "row" /\ r.acq => r.tries > 0
    /\ r.snap.ver = 0 => r.snap = NoRow
    /\ r.pc = "dlua" => r.snap.ver > 0
    /\ r.op = "insert" => r.next = 0
    /\ r.pc = "seq" => r.next = 0
    /\ r.pc \in Deleting \cup {"seq", "exists"} => ~r.acq
    /\ r.pc \in {"seq", "exists"} => r.born = 0
    /\ r.pc \in Reserving \cup {"row", "rcpt", "index"} => r.next = 0

\* A row has a value, a version and a birth, or nothing.
RowShape == \A p \in Pks : IF row[p].ver = 0 THEN row[p] = NoRow ELSE row[p].val \in Values /\ births[p] > 0

\* A snapshot of the row as it lives now is the row or an older version of it.
SnapShape ==
    \A c \in Sessions : call[c].pc \in Reserving \cup {"rcpt"} =>
        LET p == call[c].pk
        IN  /\ call[c].seen <= births[p]
            /\ (Live(p) /\ call[c].seen = births[p]) =>
                  /\ call[c].snap.ver <= row[p].ver
                  /\ call[c].snap.ver = row[p].ver => call[c].snap = row[p]

\* A row that lives at the key a statement is to write was born after readExisting: in
\* the whole statement, the delete half of a key change and its releases included.
Aim(r) == IF r.next = 0 THEN r.pk ELSE r.next
BornAt(p, b) == b <= births[p] /\ (Live(p) => b < births[p])
BornOk(r) == BornAt(Aim(r), r.born)
BornShape == \A c \in Sessions : BornOk(call[c])

Base == TypeOK /\ (\A c \in Sessions : Shape(call[c])) /\ RowShape /\ SnapShape /\ BornShape

(***************************************************************************)
(* Uniqueness.                                                             *)
(***************************************************************************)
\* The statement relies on its reservation; it has found the value free; it has yet to.
Owns(r) == r.pc \in {"verify", "check", "lua", "index"} \/ (r.acq /\ r.pc \in {"row", "rcpt", "nx", "owner", "nx2"})
Sure(r) == r.pc = "lua" \/ (r.acq /\ r.pc \in {"row", "rcpt", "nx", "owner", "nx2"})
Doubts(r) == r.pc \in {"verify", "check"} \/ (r.rel # None /\ r.rel = r.val /\ r.res = "dup")
\* It will enter the member of row p.
Enters(r, p) == r.pc = "index" /\ r.pk = p /\ r.val = row[p].val /\ r.snap.val # r.val /\ r.snap.ver + 1 = row[p].iv

\* No row but p has the value v.
Sole(p, v) == \A q \in Pks : (q # p /\ Live(q)) => row[q].val # v

Reserved == \A c \in Sessions :
    /\ Owns(call[c]) => resv[call[c].val] = call[c].pk
    /\ call[c].pc \in {"alive", "takeover"} => ~call[c].acq
Clear == \A c \in Sessions : Sure(call[c]) => Sole(call[c].pk, call[c].val)
\* A reservation stands for a free value, unless its statement has not found out yet.
Trusted ==
    \A v \in Values : resv[v] # None =>
        Sole(resv[v], v) \/ \E c \in Sessions : call[c].pk = resv[v] /\ call[c].val = v /\ Doubts(call[c])
\* The members that were read name every other row that has the value.
Seen == \A c \in Sessions : call[c].pc = "check" =>
    \A q \in Pks : (q # call[c].pk /\ Live(q) /\ row[q].val = call[c].val) => q \in call[c].mem
\* A row is in the bucket of its value, or about to be.
Indexed == \A p \in Pks : Live(p) =>
    <<row[p].val, p, row[p].iv>> \in bucket \/ \E c \in Sessions : Enters(call[c], p)
Distinct == \A p, q \in Pks : (p # q /\ Live(p) /\ Live(q)) => row[p].val # row[q].val

Unbroken == PlainKeys /\ ~breach /\ ~aba /\ fault \subseteq {"px"}
Unique == Reserved /\ Clear /\ Trusted /\ Seen /\ Indexed /\ Distinct

(***************************************************************************)
(* Nothing is left behind.                                                 *)
(***************************************************************************)
Works(r) == r.pc # "idle" /\ r.pc # "seq"
Keys(r) == {r.pk, r.next} \ {0}

\* Nobody shares a row.
Exclusive ==
    /\ \A c, d \in Sessions : (c # d /\ Works(call[c]) /\ Works(call[d])) => Keys(call[c]) \cap Keys(call[d]) = {}
    /\ sweep.pc # "idle" => \A c \in Sessions : Works(call[c]) => sweep.pk \notin Keys(call[c])

\* What a statement has read of its row is so, unless the row expired.
Current(r) ==
    /\ r.pc = "rcpt" => ~Live(r.pk) /\ r.snap = NoRow
    /\ r.pc \in Reserving =>
          IF r.snap.ver = 0 THEN ~Live(r.pk) /\ r.rs = rcpt[r.pk]
          ELSE r.rs = NoRcpt /\ (Live(r.pk) => r.snap = row[r.pk])
    /\ r.pc = "index" =>
          IF Live(r.pk) THEN row[r.pk].val = r.val /\ (r.snap.val # r.val => row[r.pk].iv = r.snap.ver + 1)
          ELSE rcpt[r.pk].val = r.val /\ (r.snap.val # r.val => rcpt[r.pk].iv = r.snap.ver + 1)
    /\ r.pc = "dlua" => (Live(r.pk) => r.snap = row[r.pk])

\* The receipt of a row that can expire is that of its member.
Receipts == \A p \in Pks : row[p].ttl => rcpt[p].val = row[p].val /\ rcpt[p].iv = row[p].iv

SweepCurrent == sweep.pc = "lua" => ~Live(sweep.pk) /\ sweep.rs = rcpt[sweep.pk]

Undo(r) == (IF r.snap.val # r.val THEN Member(r.pk, r.snap) ELSE {}) \cup Member(r.pk, r.rs)

\* Every member is a row's, on the receipt of a dead row, or somebody's to remove.
Removes(r, m) == \/ r.pc = "index" /\ m \in Undo(r)
                 \/ r.pc = "dindex" /\ m \in Member(r.pk, r.snap)
MemberDue(m) ==
    \/ Live(m[2]) /\ m[1] = row[m[2]].val /\ m[3] = row[m[2]].iv
    \/ ~Live(m[2]) /\ m[1] = rcpt[m[2]].val /\ m[3] = rcpt[m[2]].iv
    \/ \E c \in Sessions : Removes(call[c], m)
    \/ sweep.pc = "clean" /\ m \in Member(sweep.pk, sweep.rs)
MembersDue == \A m \in bucket : MemberDue(m)

\* Every reservation is a row's, on the receipt of a dead row, or somebody's to use or
\* to release.
Displaced(r) == IF r.snap.ver = 0 THEN r.rs.val ELSE r.snap.val
Handles(r, v) ==
    \/ r.val = v /\ r.pc \in {"verify", "check"}
    \/ r.val = v /\ r.acq /\ r.pc \in Reserving \cup {"row", "rcpt"}
    \/ r.pc = "index" /\ v = Displaced(r)
    \/ r.rel = v
    \/ r.pc = "dindex" /\ v = r.snap.val
ReservationDue(p, v) ==
    \/ Live(p) /\ row[p].val = v
    \/ ~Live(p) /\ rcpt[p].val = v
    \/ \E c \in Sessions : call[c].pk = p /\ Handles(call[c], v)
    \/ sweep.pc \in {"clean", "get", "del"} /\ sweep.pk = p /\ sweep.rs.val = v
ReservationsDue == \A v \in Values, p \in Pks : resv[v] = p => ReservationDue(p, v)

Apart == PlainKeys /\ ~clash /\ fault \subseteq {"px"}
Tidy == Exclusive /\ (\A c \in Sessions : Current(call[c])) /\ Receipts /\ SweepCurrent /\ MembersDue /\ ReservationsDue

IInv == Base /\ (Unbroken => Unique) /\ (Apart => Tidy)

(***************************************************************************)
(* The locals of a statement.                                              *)
(***************************************************************************)
Local(r) == r \in Locals /\ Shape(r) /\ (r.pc \in {"relget", "reldel"} <=> r.rel # None)

SnapOk(r) ==
    r.pc \in Reserving \cup {"rcpt"} =>
        /\ r.seen <= births[r.pk]
        /\ (Live(r.pk) /\ r.seen = births[r.pk]) =>
              /\ r.snap.ver <= row[r.pk].ver
              /\ r.snap.ver = row[r.pk].ver => r.snap = row[r.pk]

\* The locals after Answer and after Finish.
Answered(x, r) ==
    IF r = "gone" /\ x.next # 0
    THEN [NoCall EXCEPT !.op = "update", !.pc = "row", !.pk = x.next, !.val = x.val, !.born = x.born]
    ELSE NoCall

Finished(x, r, v) ==
    IF v = None THEN Answered(x, r)
    ELSE [NoCall EXCEPT !.op = x.op, !.pc = "relget", !.pk = x.pk, !.next = x.next, !.val = x.val,
                        !.born = x.born, !.rel = v, !.res = r]

LEMMA AnswerSets == \A c \in Sessions : \A r : Answer(c, r) <=> Set(c, Answered(call[c], r))
BY DEF Answer, Answered

LEMMA FinishSets == \A c \in Sessions : \A r, v : Finish(c, r, v) <=> Set(c, Finished(call[c], r, v))
BY DEF Finish, Finished, Answer, Answered

Answers == {"none", "ok", "gone", "dup", "err", "exists"}

LEMMA NoneTypes == /\ NoRow \in Row /\ NoRcpt \in Receipt /\ NoCall \in Locals /\ Local(NoCall)
                   /\ NoCall.pc = "idle" /\ NoCall.op = "none" /\ NoCall.rel = None /\ NoCall.res = "none" /\ ~NoCall.acq /\ NoCall.born = 0
                   /\ NoSweep \in [pc : {"idle", "lua", "clean", "get", "del"}, pk : Pks, rs : Receipt]
<1>1. 1 \in Pks /\ 0 \in 0 .. StaleRetries - 1 BY StatementsAssumption DEF Pks
<1>2. NoRow \in Row BY DEF NoRow, Row
<1>3. NoRcpt \in Receipt BY DEF NoRcpt, Receipt
<1>4. NoCall \in Locals BY <1>1, <1>2, <1>3 DEF NoCall, Locals, Pcs
<1>5. Shape(NoCall) BY DEF NoCall, Shape, Deleting
<1>6. QED BY <1>1, <1>2, <1>3, <1>4, <1>5 DEF NoCall, Local, NoSweep

\* It counts from the same readExisting, or from none.
SameBorn(x, y) == y.born = 0 \/ (y.born = x.born /\ Aim(y) = Aim(x))

\* A statement that is answered relies on nothing and is about the same rows.
Retired(x, y) ==
    /\ Local(y) /\ ~Owns(y) /\ ~Sure(y)
    /\ y.pc \notin Reserving \cup {"rcpt", "index", "dindex", "dlua", "seq"}
    /\ Works(y) => Keys(y) \subseteq Keys(x)
    /\ SameBorn(x, y)

\* The write half of a key change.
LEMMA WriteHalf ==
    ASSUME NEW k \in Pks, NEW w \in Values, NEW b \in Nat, NEW y,
           y = [op |-> "update", pc |-> "row", pk |-> k, next |-> 0, val |-> w, ttl |-> FALSE,
                snap |-> NoRow, rs |-> NoRcpt, seen |-> 0, born |-> b, tries |-> 0, acq |-> FALSE,
                mem |-> {}, rel |-> None, res |-> "none"]
    PROVE  /\ y \in Locals /\ y.op = "update" /\ y.pc = "row" /\ y.pk = k /\ y.val = w /\ ~y.acq /\ y.rel = None
           /\ y.next = 0 /\ y.snap = NoRow /\ y.res = "none" /\ y.born = b
<1>1. 0 \in 0 .. StaleRetries - 1 BY StatementsAssumption
<1>2. y \in Locals BY <1>1, NoneTypes DEF Locals, Pcs
<1>3. QED BY <1>2

LEMMA AnsweredFacts ==
    ASSUME NEW x, Local(x), x.pc # "idle", NEW r \in Answers
    PROVE  Retired(x, Answered(x, r)) /\ Answered(x, r).rel = None /\ ~Doubts(Answered(x, r))
<1> DEFINE y == Answered(x, r)
<1>1. CASE r = "gone" /\ x.next # 0
  <2>1. /\ x.next \in Pks \cup {0} /\ x.val \in Values \cup {None} /\ x.born \in Nat /\ x.op # "delete" /\ x.val \in Values
        /\ 0 \notin Pks
    BY <1>1 DEF Local, Locals, Shape, Pks
  <2>2. y = [NoCall EXCEPT !.op = "update", !.pc = "row", !.pk = x.next, !.val = x.val, !.born = x.born]
    BY <1>1 DEF Answered
  <2> HIDE DEF y
  <2>3. /\ y \in Locals /\ y.op = "update" /\ y.pc = "row" /\ y.pk = x.next /\ y.val = x.val /\ ~y.acq /\ y.rel = None
        /\ y.next = 0 /\ y.snap = NoRow /\ y.res = "none" /\ y.born = x.born
    <3>1. PICK k \in Pks, w \in Values, b \in Nat : k = x.next /\ w = x.val /\ b = x.born BY <1>1, <2>1
    <3>2. y = [op |-> "update", pc |-> "row", pk |-> x.next, next |-> 0, val |-> x.val, ttl |-> FALSE,
               snap |-> NoRow, rs |-> NoRcpt, seen |-> 0, born |-> x.born, tries |-> 0, acq |-> FALSE,
               mem |-> {}, rel |-> None, res |-> "none"]
      BY <2>2 DEF NoCall
    <3>3. y = [op |-> "update", pc |-> "row", pk |-> k, next |-> 0, val |-> w, ttl |-> FALSE,
               snap |-> NoRow, rs |-> NoRcpt, seen |-> 0, born |-> b, tries |-> 0, acq |-> FALSE,
               mem |-> {}, rel |-> None, res |-> "none"]
      BY <3>1, <3>2
    <3>4. /\ y \in Locals /\ y.op = "update" /\ y.pc = "row" /\ y.pk = k /\ y.val = w /\ ~y.acq /\ y.rel = None
          /\ y.next = 0 /\ y.snap = NoRow /\ y.res = "none" /\ y.born = b
      BY <3>3, WriteHalf
    <3>5. QED BY <3>1, <3>4
  <2>4. Local(y) BY <2>1, <2>3 DEF Local, Shape, Deleting
  <2>6. SameBorn(x, y) BY <1>1, <2>3 DEF SameBorn, Aim
  <2>5. QED BY <1>1, <2>1, <2>3, <2>4, <2>6, StatementsAssumption DEF Retired, Owns, Sure, Reserving, Doubts, Keys, y
<1>2. CASE ~(r = "gone" /\ x.next # 0)
  <2>1. y = NoCall BY <1>2 DEF Answered
  <2>2. QED BY <2>1, NoneTypes DEF Retired, SameBorn, Owns, Sure, Reserving, Doubts, Works
<1>3. QED BY <1>1, <1>2

LEMMA FinishedFacts ==
    ASSUME NEW x, Local(x), x.pc # "idle", NEW r \in Answers, NEW v \in Values \cup {None}
    PROVE  /\ Retired(x, Finished(x, r, v))
           /\ v # None => /\ Finished(x, r, v).rel = v /\ Finished(x, r, v).pk = x.pk
                          /\ Finished(x, r, v).val = x.val /\ Finished(x, r, v).res = r
<1> DEFINE y == Finished(x, r, v)
<1>1. CASE v = None BY <1>1, AnsweredFacts DEF Finished
<1>2. CASE v # None
  <2>1. /\ x.pk \in Pks /\ x.next \in Pks \cup {0} /\ x.val \in Values \cup {None} /\ x.born \in Nat
        /\ x.op \in {"none", "insert", "update", "delete"} /\ Shape(x)
    BY DEF Local, Locals
  <2>2. y = [NoCall EXCEPT !.op = x.op, !.pc = "relget", !.pk = x.pk, !.next = x.next, !.val = x.val,
                           !.born = x.born, !.rel = v, !.res = r]
    BY <1>2 DEF Finished
  <2>3. y \in Locals
    <3>1. y = [op |-> x.op, pc |-> "relget", pk |-> x.pk, next |-> x.next, val |-> x.val, ttl |-> FALSE,
               snap |-> NoRow, rs |-> NoRcpt, seen |-> 0, born |-> x.born, tries |-> 0, acq |-> FALSE,
               mem |-> {}, rel |-> v, res |-> r]
      BY <2>2 DEF NoCall
    <3>2. 0 \in 0 .. StaleRetries - 1 BY StatementsAssumption
    <3>3. QED BY <2>1, <3>1, <3>2, NoneTypes DEF Locals, Pcs, Answers
  <2>4. /\ y.op = x.op /\ y.pc = "relget" /\ y.pk = x.pk /\ y.next = x.next /\ y.val = x.val /\ y.rel = v /\ y.res = r
        /\ ~y.acq /\ y.snap = NoRow /\ y.born = x.born
    BY <1>2, <2>2 DEF NoCall
  <2> HIDE DEF y
  <2>5. Local(y) BY <1>2, <2>1, <2>3, <2>4 DEF Local, Shape, Deleting, Reserving
  <2>6. SameBorn(x, y) BY <2>4 DEF SameBorn, Aim
  <2>7. QED BY <1>2, <2>4, <2>5, <2>6 DEF Retired, Owns, Sure, Reserving, Keys, y
<1>3. QED BY <1>1, <1>2

(***************************************************************************)
(* A step of a statement that changes no row and no bucket.                *)
(***************************************************************************)
\* What is broken stays broken.
FlagsGrow == (breach => breach') /\ (aba => aba') /\ (clash => clash') /\ fault \subseteq fault'

FlagTypes == breach \in BOOLEAN /\ clash \in BOOLEAN /\ aba \in BOOLEAN /\ fault \in SUBSET Faults

LEMMA FlagsFacts == ASSUME FlagsGrow PROVE (Unbroken' => Unbroken) /\ (Apart' => Apart)
<1>1. fault' \subseteq {"px"} => fault \subseteq {"px"} BY DEF FlagsGrow
<1>2. QED BY <1>1, Zenon DEF FlagsGrow, Unbroken, Apart, PlainKeys

LEMMA TypeFacts ==
    ASSUME TypeOK
    PROVE  /\ row \in [Pks -> Row] /\ rcpt \in [Pks -> Receipt] /\ bucket \in SUBSET (Values \X Pks \X Nat)
           /\ resv \in [Values -> Pks \cup {None}] /\ call \in [Sessions -> Locals] /\ births \in [Pks -> Nat]
           /\ \A c \in Sessions : call[c] \in Locals /\ call[c].pk \in Pks /\ call[c].snap \in Row /\ call[c].rs \in Receipt
                                  /\ call[c].seen \in Nat /\ call[c].born \in Nat /\ call[c].val \in Values \cup {None}
           /\ \A p \in Pks : row[p] \in Row /\ row[p].ver \in Nat /\ row[p].iv \in Nat /\ row[p].val \in Values \cup {None}
                             /\ rcpt[p] \in Receipt /\ births[p] \in Nat
BY DEF TypeOK, Locals, Row

LEMMA LocalFacts == ASSUME Base, NEW c \in Sessions PROVE Local(call[c]) /\ SnapOk(call[c]) /\ BornOk(call[c])
<1>1. Local(call[c]) BY DEF Base, TypeOK, Local
<1>2. SnapOk(call[c]) BY DEF Base, SnapShape, SnapOk
<1>3. BornOk(call[c]) BY DEF Base, BornShape
<1>4. QED BY <1>1, <1>2, <1>3

LEMMA BornFacts ==
    ASSUME Base, NEW x, BornOk(x), NEW y \in Locals, SameBorn(x, y)
    PROVE  BornOk(y)
<1>1. Aim(y) \in Pks BY DEF Aim, Locals
<1>2. BornAt(Aim(y), 0) BY <1>1, TypeFacts DEF Base, RowShape, BornAt, Live
<1>3. QED BY <1>2 DEF SameBorn, BornOk

\* The types of what is not in the locals.
StoreTypes ==
    /\ row \in [Pks -> Row] /\ rcpt \in [Pks -> Receipt] /\ bucket \in SUBSET (Values \X Pks \X Nat)
    /\ resv \in [Values -> Pks \cup {None}] /\ seq \in 0 .. MaxPk
    /\ sweep \in [pc : {"idle", "lua", "clean", "get", "del"}, pk : Pks, rs : Receipt]
    /\ started \in Nat /\ births \in [Pks -> Nat] /\ FlagTypes

LEMMA BaseFrom ==
    ASSUME call' \in [Sessions -> Locals], StoreTypes', RowShape',
           \A c \in Sessions : (Local(call[c]) /\ SnapOk(call[c]) /\ BornOk(call[c]))'
    PROVE  Base'
<1>1. TypeOK' BY DEF TypeOK, StoreTypes, FlagTypes, Local
<1>2. SnapShape' BY DEF SnapShape, SnapOk
<1>3. BornShape' BY DEF BornShape
<1>4. (\A c \in Sessions : Shape(call[c]))' BY DEF Local
<1>5. QED BY <1>1, <1>2, <1>3, <1>4 DEF Base

\* No row is touched and session c's locals become y.
LEMMA BaseKept ==
    ASSUME Base, NEW c \in Sessions, NEW y, Local(y), SnapOk(y), BornOk(y),
           call' = [call EXCEPT ![c] = y], UNCHANGED <<row, births>>, StoreTypes'
    PROVE  Base'
<1>1. call \in [Sessions -> Locals] BY DEF Base, TypeOK
<1>2. y \in Locals BY DEF Local
<1>3. call' \in [Sessions -> Locals] /\ call'[c] = y /\ \A d \in Sessions : d # c => call'[d] = call[d] BY <1>1, <1>2
<1>4. RowShape' BY DEF Base, RowShape
<1>5. ASSUME NEW d \in Sessions PROVE (Local(call[d]) /\ SnapOk(call[d]) /\ BornOk(call[d]))'
  <2>1. ASSUME NEW z, z = call'[d], Local(z), SnapOk(z), BornOk(z) PROVE (Local(call[d]) /\ SnapOk(call[d]) /\ BornOk(call[d]))'
    BY <2>1 DEF SnapOk, BornOk, BornAt, Live
  <2>2. CASE d = c BY <1>3, <2>1, <2>2
  <2>3. CASE d # c BY <1>3, <2>1, <2>3, LocalFacts
  <2>4. QED BY <2>2, <2>3
<1>6. QED BY <1>3, <1>4, <1>5, BaseFrom

USimple(c, y) ==
    LET x == call[c]
    IN  /\ x.pc # "index"
        /\ Owns(y) => resv'[y.val] = y.pk
        /\ y.pc \in {"alive", "takeover"} => ~y.acq
        /\ Sure(y) => Sole(y.pk, y.val)
        /\ y.pc = "check" => \A q \in Pks : (q # y.pk /\ Live(q) /\ row[q].val = y.val) => q \in y.mem
        /\ Doubts(x) => \/ Doubts(y) /\ y.pk = x.pk /\ y.val = x.val
                        \/ Sole(x.pk, x.val) \/ resv'[x.val] # x.pk
        /\ \A v \in Values :
              \/ resv'[v] = resv[v]
              \/ resv'[v] = None /\ \A d \in Sessions : ~(Owns(call[d]) /\ call[d].val = v /\ call[d].pk = resv[v])
              \/ resv[v] = None /\ resv'[v] = y.pk /\ y.val = v /\ Doubts(y)

LEMMA UniqueKept ==
    ASSUME Base, Unique, NEW c \in Sessions, NEW y, USimple(c, y),
           call' = [call EXCEPT ![c] = y], UNCHANGED <<row, bucket>>
    PROVE  Unique'
<1>T. /\ call \in [Sessions -> Locals] /\ resv \in [Values -> Pks \cup {None}]
      /\ \A d \in Sessions : call[d].pk \in Pks /\ (Owns(call[d]) => call[d].val \in Values)
  <2>1. \A d \in Sessions : Shape(call[d]) BY DEF Base
  <2>2. \A d \in Sessions : Owns(call[d]) => call[d].val \in Values BY <2>1 DEF Shape, Owns, Deleting
  <2>3. QED BY <2>2, TypeFacts DEF Base
<1>1. call'[c] = y /\ \A d \in Sessions : d # c => call'[d] = call[d] BY <1>T
<1>S. \A p, v : Sole(p, v)' <=> Sole(p, v) BY DEF Sole, Live
<1>2. Reserved'
  <2>1. ASSUME NEW d \in Sessions, d # c, Owns(call[d]) PROVE resv'[call[d].val] = call[d].pk
    <3>1. resv[call[d].val] = call[d].pk /\ call[d].val \in Values /\ call[d].pk # None
      BY <1>T, <2>1, StatementsAssumption DEF Unique, Reserved
    <3>2. QED BY <2>1, <3>1 DEF USimple
  <2>2. QED BY <1>1, <2>1 DEF Unique, Reserved, USimple
<1>3. Clear' BY <1>1, <1>S DEF Unique, Clear, USimple
<1>4. Trusted'
  <2> SUFFICES ASSUME NEW v \in Values, resv'[v] # None
               PROVE  Sole(resv'[v], v) \/ \E d \in Sessions : call'[d].pk = resv'[v] /\ call'[d].val = v /\ Doubts(call'[d])
    BY <1>S DEF Trusted
  <2>1. CASE resv'[v] = resv[v]
    <3>1. Sole(resv[v], v) \/ \E d \in Sessions : call[d].pk = resv[v] /\ call[d].val = v /\ Doubts(call[d])
      BY <2>1 DEF Unique, Trusted
    <3>2. ASSUME NEW d \in Sessions, call[d].pk = resv[v], call[d].val = v, Doubts(call[d])
          PROVE  Sole(resv'[v], v) \/ \E e \in Sessions : call'[e].pk = resv'[v] /\ call'[e].val = v /\ Doubts(call'[e])
      <4>1. CASE d # c BY <1>1, <2>1, <3>2, <4>1
      <4>2. CASE d = c BY <1>1, <2>1, <3>2, <4>2 DEF USimple
      <4>3. QED BY <4>1, <4>2
    <3>3. QED BY <2>1, <3>1, <3>2
  <2>2. CASE resv[v] = None /\ resv'[v] = y.pk /\ y.val = v /\ Doubts(y) BY <1>1, <2>2
  <2>3. QED BY <2>1, <2>2 DEF USimple
<1>5. Seen' BY <1>1 DEF Unique, Seen, USimple, Live
<1>6. Indexed'
  <2>1. ASSUME NEW d \in Sessions, NEW p \in Pks, Enters(call[d], p) PROVE Enters(call[d], p)'
    <3>1. d # c BY <2>1 DEF Enters, USimple
    <3>2. QED BY <1>1, <2>1, <3>1 DEF Enters
  <2>2. QED BY <2>1 DEF Unique, Indexed, Live
<1>7. Distinct' BY DEF Unique, Distinct, Live
<1>8. QED BY <1>2, <1>3, <1>4, <1>5, <1>6, <1>7 DEF Unique

\* Nobody but c is at work on the rows of y.
Alone(c, y) ==
    Works(y) => /\ \A d \in Sessions : (d # c /\ Works(call[d])) => Keys(call[d]) \cap Keys(y) = {}
                /\ sweep.pc # "idle" => sweep.pk \notin Keys(y)

TSimple(c, y) ==
    LET x == call[c]
    IN  /\ x.pc \notin {"index", "dindex"}
        /\ Alone(c, y) /\ Current(y)
        /\ \A v \in Values : (resv'[v] = x.pk /\ Handles(x, v)) =>
              \/ y.pk = x.pk /\ Handles(y, v)
              \/ IF Live(x.pk) THEN row[x.pk].val = v ELSE rcpt[x.pk].val = v
        /\ \A v \in Values :
              resv'[v] = resv[v] \/ resv'[v] = None \/ (resv'[v] = y.pk /\ Handles(y, v))

LEMMA StillAlone ==
    ASSUME Exclusive, NEW c \in Sessions, NEW y, Works(y) => Works(call[c]) /\ Keys(y) \subseteq Keys(call[c])
    PROVE  Alone(c, y)
BY DEF Exclusive, Alone

LEMMA ExclusiveKept ==
    ASSUME Exclusive, call \in [Sessions -> Locals], NEW c \in Sessions, NEW y, Alone(c, y),
           call' = [call EXCEPT ![c] = y], UNCHANGED sweep
    PROVE  Exclusive'
<1>1. call'[c] = y /\ \A d \in Sessions : d # c => call'[d] = call[d] OBVIOUS
<1>2. ASSUME NEW d \in Sessions, NEW e \in Sessions, d # e, Works(call'[d]), Works(call'[e])
      PROVE  Keys(call'[d]) \cap Keys(call'[e]) = {}
  <2>1. CASE d = c BY <1>1, <1>2, <2>1 DEF Alone
  <2>2. CASE e = c BY <1>1, <1>2, <2>2 DEF Alone
  <2>3. CASE d # c /\ e # c BY <1>1, <1>2, <2>3 DEF Exclusive
  <2>4. QED BY <2>1, <2>2, <2>3
<1>3. ASSUME sweep.pc # "idle", NEW d \in Sessions, Works(call'[d]) PROVE sweep.pk \notin Keys(call'[d])
  BY <1>1, <1>3 DEF Alone, Exclusive
<1>4. QED BY <1>2, <1>3 DEF Exclusive

LEMMA TidyKept ==
    ASSUME Base, Tidy, NEW c \in Sessions, NEW y, TSimple(c, y),
           call' = [call EXCEPT ![c] = y], UNCHANGED <<row, rcpt, bucket, sweep>>
    PROVE  Tidy'
<1>T. call \in [Sessions -> Locals] BY DEF Base, TypeOK
<1>1. call'[c] = y /\ \A d \in Sessions : d # c => call'[d] = call[d] BY <1>T
<1>2. Exclusive' BY <1>T, ExclusiveKept DEF Tidy, TSimple
<1>3. (\A d \in Sessions : Current(call[d]))'
  <2>1. ASSUME NEW d \in Sessions, NEW z, z = call'[d], Current(z) PROVE Current(call[d])'
    BY <2>1 DEF Current, Live
  <2>2. ASSUME NEW d \in Sessions PROVE Current(call[d])'
    <3>1. CASE d = c BY <1>1, <2>1, <3>1 DEF TSimple
    <3>2. CASE d # c BY <1>1, <2>1, <3>2 DEF Tidy
    <3>3. QED BY <3>1, <3>2
  <2>3. QED BY <2>2
<1>4. Receipts' /\ SweepCurrent' BY DEF Tidy, Receipts, SweepCurrent, Live
<1>5. MembersDue'
  <2>1. ASSUME NEW m \in bucket PROVE MemberDue(m)'
    <3>1. MemberDue(m) BY <2>1 DEF Tidy, MembersDue
    <3>2. ASSUME NEW d \in Sessions, Removes(call[d], m) PROVE Removes(call'[d], m)
      BY <1>1, <3>2 DEF TSimple, Removes
    <3>3. QED BY <3>1, <3>2 DEF MemberDue, Live
  <2>2. QED BY <2>1 DEF MembersDue
<1>6. ReservationsDue'
  <2>1. ASSUME NEW v \in Values, NEW p \in Pks, resv'[v] = p PROVE ReservationDue(p, v)'
    <3>0. p # None BY StatementsAssumption
    <3>1. CASE resv'[v] = y.pk /\ Handles(y, v) BY <1>1, <2>1, <3>1 DEF ReservationDue
    <3>2. CASE resv'[v] = resv[v]
      <4>1. ReservationDue(p, v) BY <2>1, <3>2 DEF Tidy, ReservationsDue
      <4>2. ASSUME NEW d \in Sessions, call[d].pk = p, Handles(call[d], v)
            PROVE  \/ call'[d].pk = p /\ Handles(call'[d], v)
                   \/ IF Live(p) THEN row[p].val = v ELSE rcpt[p].val = v
        BY <1>1, <2>1, <4>2 DEF TSimple
      <4>3. QED BY <4>1, <4>2 DEF ReservationDue, Live
    <3>3. QED BY <2>1, <3>0, <3>1, <3>2 DEF TSimple
  <2>2. QED BY <2>1 DEF ReservationsDue
<1>7. QED BY <1>2, <1>3, <1>4, <1>5, <1>6 DEF Tidy

\* The three together.
LEMMA Simple ==
    ASSUME IInv, NEW c \in Sessions, NEW y, Local(y), SnapOk(y), BornOk(y),
           call' = [call EXCEPT ![c] = y], UNCHANGED <<row, rcpt, bucket, births, sweep>>,
           resv' \in [Values -> Pks \cup {None}], seq' \in 0 .. MaxPk, started' \in Nat, FlagTypes', FlagsGrow,
           Unbroken /\ Unique /\ Unbroken' => USimple(c, y), Apart /\ Tidy /\ Apart' => TSimple(c, y)
    PROVE  IInv'
<1>1. StoreTypes' BY DEF StoreTypes, IInv, Base, TypeOK
<1>2. Base' BY <1>1, BaseKept DEF IInv
<1>3. Unbroken' => Unique' BY FlagsFacts, UniqueKept DEF IInv
<1>4. Apart' => Tidy' BY FlagsFacts, TidyKept DEF IInv
<1>5. QED BY <1>2, <1>3, <1>4 DEF IInv

(***************************************************************************)
(* The editors up to WriteRow and DeleteRow.                               *)
(***************************************************************************)
LEMMA PcFacts ==
    ASSUME NEW x, Local(x)
    PROVE  /\ Doubts(x) => x.pc \in {"verify", "check", "relget", "reldel"}
           /\ \A v \in Values : Handles(x, v) =>
                 x.pc \in Reserving \cup {"row", "rcpt", "index", "dindex", "relget", "reldel"}
BY StatementsAssumption DEF Local, Doubts, Handles, Reserving

\* The flags and the rest of the store stand still.
LEMMA Still ==
    ASSUME IInv, UNCHANGED <<resv, seq, started, hist>>
    PROVE  /\ resv' \in [Values -> Pks \cup {None}] /\ seq' \in 0 .. MaxPk /\ started' \in Nat
           /\ FlagTypes' /\ FlagsGrow
<1>1. /\ resv \in [Values -> Pks \cup {None}] /\ seq \in 0 .. MaxPk /\ started \in Nat
      /\ breach \in BOOLEAN /\ clash \in BOOLEAN /\ aba \in BOOLEAN /\ fault \in SUBSET Faults
  BY DEF IInv, Base, TypeOK
<1>2. breach' = breach /\ clash' = clash /\ aba' = aba /\ fault' = fault BY DEF hist
<1>3. FlagTypes' BY <1>1, <1>2, Zenon DEF FlagTypes
<1>4. FlagsGrow BY <1>2 DEF FlagsGrow
<1>5. QED BY <1>1, <1>3, <1>4

LEMMA BeginInv ==
    ASSUME IInv, NEW c \in Sessions, NEW r, Local(r), r.pc \in {"seq", "exists", "row", "drow"}, ~r.acq,
           r.born = 0, Begin(c, r)
    PROVE  IInv'
<1> DEFINE x == call[c]
<1>1. /\ x.pc = "idle" /\ call' = [call EXCEPT ![c] = r] /\ started' = started + 1
      /\ clash' = (clash \/ (r.pc # "seq" /\ Busy(c, {r.pk, r.next} \ {0})))
      /\ UNCHANGED <<row, rcpt, bucket, seq, resv, sweep, births, breach, aba, fault>>
  BY DEF Begin, At, Set, data
<1>2. Local(x) BY LocalFacts DEF IInv
<1>3. SnapOk(r) /\ BornOk(r)
  <2>1. SnapOk(r) BY DEF SnapOk, Reserving
  <2>2. BornOk(x) /\ r \in Locals /\ SameBorn(x, r) BY LocalFacts DEF IInv, Local, SameBorn
  <2>3. QED BY <2>1, <2>2, BornFacts DEF IInv
<1>4. FlagTypes' /\ FlagsGrow
  <2>1. breach \in BOOLEAN /\ clash \in BOOLEAN /\ aba \in BOOLEAN /\ fault \in SUBSET Faults
    BY DEF IInv, Base, TypeOK
  <2>2. clash' \in BOOLEAN /\ (clash => clash') BY <1>1, <2>1
  <2>3. FlagTypes' BY <1>1, <2>1, <2>2, Zenon DEF FlagTypes
  <2>4. FlagsGrow BY <1>1, <2>2 DEF FlagsGrow
  <2>5. QED BY <2>3, <2>4
<1>5. USimple(c, r) BY <1>1, <1>2, PcFacts DEF USimple, Owns, Sure
<1>6. ASSUME Apart' PROVE TSimple(c, r)
  <2>1. ~clash' BY <1>6 DEF Apart
  <2>2. Works(r) => ~Busy(c, {r.pk, r.next} \ {0}) BY <1>1, <2>1 DEF Works
  <2>3. Alone(c, r) BY <2>2 DEF Alone, Busy, WorksOn, At, Works, Keys
  <2>4. Current(r) BY DEF Current, Reserving
  <2>5. QED BY <1>1, <1>2, <2>3, <2>4, PcFacts DEF TSimple, Reserving
<1>7. resv' \in [Values -> Pks \cup {None}] /\ seq' \in 0 .. MaxPk /\ started' \in Nat
  BY <1>1 DEF IInv, Base, TypeOK
<1>8. QED BY <1>1, <1>3, <1>4, <1>5, <1>6, <1>7, Simple

LEMMA StartsInv ==
    ASSUME IInv, NEW c \in Sessions,
           \/ \E p \in Pks, v \in Values, t \in BOOLEAN : Insert(c, p, v, t)
           \/ \E v \in Values : InsertAuto(c, v)
           \/ \E p, q \in Pks, v \in Values : Update(c, p, q, v)
           \/ \E p \in Pks : Delete(c, p)
    PROVE  IInv'
<1>0. 1 \in Pks /\ 0 \in 0 .. StaleRetries - 1 /\ 0 \notin Pks BY StatementsAssumption DEF Pks
<1>1. ASSUME NEW p \in Pks, NEW v \in Values, NEW t \in BOOLEAN, Insert(c, p, v, t) PROVE IInv'
  <2>1. PICK r : r = [NoCall EXCEPT !.op = "insert", !.pc = "exists", !.pk = p, !.val = v, !.ttl = t] OBVIOUS
  <2>2. r = [op |-> "insert", pc |-> "exists", pk |-> p, next |-> 0, val |-> v, ttl |-> t,
             snap |-> NoRow, rs |-> NoRcpt, seen |-> 0, born |-> 0, tries |-> 0,
             acq |-> FALSE, mem |-> {}, rel |-> None, res |-> "none"]
    BY <2>1 DEF NoCall
  <2>3. Local(r) /\ ~r.acq /\ r.pc = "exists" /\ r.born = 0 BY <1>0, <2>2, NoneTypes DEF Local, Locals, Shape, Pcs, Deleting
  <2>4. QED BY <1>1, <2>1, <2>3, BeginInv DEF Insert
<1>2. ASSUME NEW v \in Values, InsertAuto(c, v) PROVE IInv'
  <2>1. PICK r : r = [NoCall EXCEPT !.op = "insert", !.pc = "seq", !.val = v] OBVIOUS
  <2>2. r = [op |-> "insert", pc |-> "seq", pk |-> 1, next |-> 0, val |-> v, ttl |-> FALSE,
             snap |-> NoRow, rs |-> NoRcpt, seen |-> 0, born |-> 0, tries |-> 0,
             acq |-> FALSE, mem |-> {}, rel |-> None, res |-> "none"]
    BY <2>1 DEF NoCall
  <2>3. Local(r) /\ ~r.acq /\ r.pc = "seq" /\ r.born = 0 BY <1>0, <2>2, NoneTypes DEF Local, Locals, Shape, Pcs, Deleting
  <2>4. QED BY <1>2, <2>1, <2>3, BeginInv DEF InsertAuto
<1>3. ASSUME NEW p \in Pks, NEW q \in Pks, NEW v \in Values, Update(c, p, q, v) PROVE IInv'
  <2>1. PICK r : r = [NoCall EXCEPT !.op = "update", !.pc = IF p = q THEN "row" ELSE "exists",
                                    !.pk = p, !.next = IF p = q THEN 0 ELSE q, !.val = v]
    OBVIOUS
  <2>2. r = [op |-> "update", pc |-> IF p = q THEN "row" ELSE "exists", pk |-> p, next |-> IF p = q THEN 0 ELSE q,
             val |-> v, ttl |-> FALSE, snap |-> NoRow, rs |-> NoRcpt, seen |-> 0, born |-> 0, tries |-> 0,
             acq |-> FALSE, mem |-> {}, rel |-> None, res |-> "none"]
    BY <2>1 DEF NoCall
  <2>3. Local(r) /\ ~r.acq /\ r.pc \in {"row", "exists"} /\ r.born = 0
    BY <1>0, <2>2, NoneTypes DEF Local, Locals, Shape, Pcs, Deleting, Reserving
  <2>4. QED BY <1>3, <2>1, <2>3, BeginInv DEF Update
<1>4. ASSUME NEW p \in Pks, Delete(c, p) PROVE IInv'
  <2>1. PICK r : r = [NoCall EXCEPT !.op = "delete", !.pc = "drow", !.pk = p] OBVIOUS
  <2>2. r = [op |-> "delete", pc |-> "drow", pk |-> p, next |-> 0, val |-> None, ttl |-> FALSE,
             snap |-> NoRow, rs |-> NoRcpt, seen |-> 0, born |-> 0, tries |-> 0,
             acq |-> FALSE, mem |-> {}, rel |-> None, res |-> "none"]
    BY <2>1 DEF NoCall
  <2>3. Local(r) /\ ~r.acq /\ r.pc = "drow" /\ r.born = 0
    BY <1>0, <2>2, NoneTypes DEF Local, Locals, Shape, Pcs, Deleting
  <2>4. QED BY <1>4, <2>1, <2>3, BeginInv DEF Delete
<1>5. QED BY <1>1, <1>2, <1>3, <1>4

LEMMA RetiredOk ==
    ASSUME Base, NEW c \in Sessions, NEW y, Retired(call[c], y)
    PROVE  Local(y) /\ SnapOk(y) /\ BornOk(y)
<1>1. Local(y) /\ y \in Locals /\ SameBorn(call[c], y) BY DEF Retired, Local
<1>2. SnapOk(y) BY DEF Retired, SnapOk
<1>3. QED BY <1>1, <1>2, LocalFacts, BornFacts

\* The statement is answered, or goes on to release a value.
LEMMA Retire ==
    ASSUME IInv, NEW c \in Sessions, NEW y, Works(call[c]), call[c].pc \notin {"index", "dindex"},
           Retired(call[c], y), Set(c, y), UNCHANGED <<data, births, sweep>>,
           resv' \in [Values -> Pks \cup {None}], started' \in Nat, FlagTypes', FlagsGrow,
           \A v \in Values :
              \/ resv'[v] = resv[v]
              \/ /\ resv'[v] = None
                 /\ Unbroken' => \A d \in Sessions : ~(Owns(call[d]) /\ call[d].val = v /\ call[d].pk = resv[v]),
           Unbroken' /\ Doubts(call[c]) =>
              (Doubts(y) /\ y.pk = call[c].pk /\ y.val = call[c].val) \/ resv'[call[c].val] # call[c].pk,
           Apart' => \A v \in Values : (resv'[v] = call[c].pk /\ Handles(call[c], v)) => y.pk = call[c].pk /\ Handles(y, v)
    PROVE  IInv'
<1>1. Local(y) /\ SnapOk(y) /\ BornOk(y) BY RetiredOk DEF IInv
<1>2. Unbroken' => USimple(c, y) BY DEF Retired, USimple, Reserving
<1>3. ASSUME Tidy, Apart' PROVE TSimple(c, y)
  <2>1. Alone(c, y) BY <1>3, StillAlone DEF Retired, Tidy
  <2>2. Current(y) BY DEF Retired, Current
  <2>3. QED BY <1>3, <2>1, <2>2 DEF TSimple
<1>4. seq' \in 0 .. MaxPk BY DEF data, IInv, Base, TypeOK
<1>5. QED BY <1>1, <1>2, <1>3, <1>4, Simple DEF Set, data

LEMMA RetireStill ==
    ASSUME IInv, NEW c \in Sessions, NEW y, Works(call[c]), call[c].pc \notin {"index", "dindex"},
           Retired(call[c], y), Set(c, y), UNCHANGED <<data, resv, sweep, started, hist>>,
           Unbroken' /\ Doubts(call[c]) =>
              (Doubts(y) /\ y.pk = call[c].pk /\ y.val = call[c].val) \/ resv'[call[c].val] # call[c].pk,
           Apart' => \A v \in Values : (resv'[v] = call[c].pk /\ Handles(call[c], v)) => y.pk = call[c].pk /\ Handles(y, v)
    PROVE  IInv'
<1>1. UNCHANGED <<resv, seq, started, hist>> /\ UNCHANGED <<data, births, sweep>> BY DEF data, hist
<1>2. QED BY <1>1, Still, Retire

\* A failure for which neither property answers.
LEMMA Faulty ==
    ASSUME IInv, NEW c \in Sessions, NEW y, Retired(call[c], y), Set(c, y),
           UNCHANGED <<data, resv, sweep, started, births, breach, clash, aba>>,
           NEW f, f # "px", fault' = fault \cup {f}, f \in Faults
    PROVE  IInv'
<1>1. Local(y) /\ SnapOk(y) /\ BornOk(y) BY RetiredOk DEF IInv
<1>2. ~Unbroken' /\ ~Apart' BY DEF Unbroken, Apart
<1>3. StoreTypes' BY DEF IInv, Base, TypeOK, StoreTypes, FlagTypes, data
<1>4. Base' BY <1>1, <1>3, BaseKept DEF IInv, Set, data
<1>5. QED BY <1>2, <1>4 DEF IInv

LEMMA FailRetires ==
    ASSUME NEW c \in Sessions, Local(call[c]), call[c].pc # "idle", NEW r \in Answers, Fail(c, r)
    PROVE  \E y : /\ Retired(call[c], y) /\ Set(c, y)
                  /\ (call[c].acq /\ call[c].val \in Values) => y.rel = call[c].val /\ y.pk = call[c].pk
<1> DEFINE v == IF call[c].acq THEN call[c].val ELSE None
<1>1. v \in Values \cup {None} BY DEF Local, Locals
<1>2. Set(c, Finished(call[c], r, v)) BY FinishSets DEF Fail
<1>3. v # None <=> call[c].acq /\ call[c].val # None OBVIOUS
<1> HIDE DEF v
<1>4. QED BY <1>1, <1>2, <1>3, FinishedFacts, StatementsAssumption DEF v

\* A session that moves on with the store at rest.
LEMMA Moves ==
    ASSUME IInv, NEW c \in Sessions, NEW y, Local(y), SnapOk(y), BornOk(y), Set(c, y),
           UNCHANGED <<data, resv, sweep, started, hist>>,
           Unbroken /\ Unique => USimple(c, y), Apart /\ Tidy => TSimple(c, y)
    PROVE  IInv'
<1>1. UNCHANGED <<resv, seq, started, hist>> /\ UNCHANGED <<row, rcpt, bucket, births, sweep>> BY DEF data, hist
<1>2. QED BY <1>1, Still, Simple DEF Set

LEMMA NextAutoIDInv == ASSUME IInv, NEW c \in Sessions, NextAutoID(c) PROVE IInv'
<1> DEFINE x == call[c]
<1>1. /\ x.pc = "seq" /\ seq < MaxPk /\ seq' = seq + 1
      /\ call' = [call EXCEPT ![c] = [x EXCEPT !.pc = "exists", !.pk = seq + 1]]
      /\ clash' = (clash \/ Busy(c, {seq + 1}))
      /\ UNCHANGED <<row, rcpt, bucket, resv, sweep, started, births, breach, aba, fault>>
  BY DEF NextAutoID, At, Set
<1>2. PICK y : y = [x EXCEPT !.pc = "exists", !.pk = seq + 1] OBVIOUS
<1>3. Local(x) /\ BornOk(x) BY LocalFacts DEF IInv
<1>4. seq + 1 \in Pks /\ seq' \in 0 .. MaxPk /\ resv' \in [Values -> Pks \cup {None}] /\ started' \in Nat
  BY <1>1, StatementsAssumption DEF IInv, Base, TypeOK, Pks
<1>5. y \in Locals /\ y.pc = "exists" /\ y.pk = seq + 1 /\ y.next = 0 /\ ~y.acq
      /\ y.rel = x.rel /\ y.snap = x.snap /\ y.op = x.op /\ y.val = x.val /\ y.born = 0
  BY <1>1, <1>2, <1>3, <1>4 DEF Local, Locals, Pcs, Shape
<1>6. Local(y) BY <1>1, <1>3, <1>5 DEF Local, Shape, Deleting
<1>7. SnapOk(y) /\ BornOk(y)
  <2>1. SnapOk(y) BY <1>5 DEF SnapOk, Reserving
  <2>2. SameBorn(x, y) BY <1>5 DEF SameBorn
  <2>3. QED BY <1>3, <1>5, <2>1, <2>2, BornFacts DEF IInv
<1>8. FlagTypes' /\ FlagsGrow
  <2>1. breach \in BOOLEAN /\ clash \in BOOLEAN /\ aba \in BOOLEAN /\ fault \in SUBSET Faults
    BY DEF IInv, Base, TypeOK
  <2>2. clash' \in BOOLEAN /\ (clash => clash') BY <1>1, <2>1
  <2>3. FlagTypes' BY <1>1, <2>1, <2>2, Zenon DEF FlagTypes
  <2>4. FlagsGrow BY <1>1, <2>2 DEF FlagsGrow
  <2>5. QED BY <2>3, <2>4
<1>9. USimple(c, y) BY <1>1, <1>3, <1>5, PcFacts DEF USimple, Owns, Sure
<1>10. ASSUME Apart' PROVE TSimple(c, y)
  <2>1. ~clash' BY <1>10 DEF Apart
  <2>2. ~Busy(c, {seq + 1}) BY <1>1, <2>1, Zenon
  <2>6. Keys(y) = {seq + 1} BY <1>4, <1>5 DEF Keys, Pks
  <2>3. Alone(c, y) BY <2>2, <2>6 DEF Alone, Busy, WorksOn, At, Works, Keys
  <2>4. Current(y) BY <1>5 DEF Current, Reserving
  <2>5. QED BY <1>1, <1>3, <1>5, <2>3, <2>4, PcFacts DEF TSimple, Reserving
<1>11. QED BY <1>1, <1>2, <1>4, <1>6, <1>7, <1>8, <1>9, <1>10, Simple

LEMMA ReadExistingInv == ASSUME IInv, NEW c \in Sessions, ReadExisting(c) PROVE IInv'
<1> DEFINE x == call[c]
<1>1. x.pc = "exists" /\ UNCHANGED <<data, resv, sweep, started, hist>> BY DEF ReadExisting, At
<1>2. Local(x) BY LocalFacts DEF IInv
<1>3. CASE Live(NewPk(c))
  <2>1. Set(c, Answered(x, "exists")) BY <1>3, AnswerSets DEF ReadExisting
  <2>2. Retired(x, Answered(x, "exists")) BY <1>1, <1>2, AnsweredFacts DEF Answers
  <2>3. QED BY <1>1, <1>2, <2>1, <2>2, RetireStill, PcFacts DEF Works, Reserving
<1>4. CASE ~Live(NewPk(c))
  <2>3. NewPk(c) \in Pks /\ births[NewPk(c)] \in Nat BY <1>2 DEF NewPk, Local, Locals, IInv, Base, TypeOK
  <2>0. PICK l \in {"row", "drow"} : l = IF x.op = "insert" THEN "row" ELSE "drow" OBVIOUS
  <2>b. PICK b \in Nat : b = births[NewPk(c)] BY <2>3
  <2>1. PICK y : y = [x EXCEPT !.pc = l, !.born = b] OBVIOUS
  <2>2. Set(c, y) BY <1>4, <2>0, <2>1, <2>b DEF ReadExisting, Checked
  <2>4. /\ y \in Locals /\ y.pc = l /\ y.born = b
        /\ y.op = x.op /\ y.pk = x.pk /\ y.next = x.next /\ y.val = x.val /\ y.acq = x.acq /\ y.snap = x.snap
        /\ y.rel = x.rel
    BY <1>2, <2>1 DEF Local, Locals, Pcs
  <2>5. Local(y) BY <1>1, <1>2, <2>0, <2>4 DEF Local, Shape, Deleting, Reserving
  <2>6. SnapOk(y) BY <2>0, <2>4 DEF SnapOk, Reserving
  <2>7. BornOk(y) BY <1>2, <1>4, <2>0, <2>b, <2>3, <2>4 DEF BornOk, BornAt, Aim, NewPk
  <2>8. ~y.acq BY <1>1, <1>2, <2>4 DEF Local, Shape
  <2>9. USimple(c, y) BY <1>1, <1>2, <2>0, <2>4, <2>8, PcFacts DEF USimple, Owns, Sure, data
  <2>10. ASSUME Tidy PROVE TSimple(c, y)
    <3>1. Works(x) /\ Keys(y) = Keys(x) BY <1>1, <2>4 DEF Works, Keys
    <3>2. Alone(c, y) BY <2>10, <3>1, StillAlone DEF Tidy
    <3>3. Current(y) BY <2>0, <2>4 DEF Current, Reserving
    <3>4. QED BY <1>1, <1>2, <2>10, <3>2, <3>3, PcFacts DEF TSimple, Reserving
  <2>11. QED BY <1>1, <2>2, <2>5, <2>6, <2>7, <2>9, <2>10, Moves
<1>5. QED BY <1>3, <1>4

LEMMA RowTooLargeInv == ASSUME IInv, NEW c \in Sessions, RowTooLarge(c) PROVE IInv'
<1> DEFINE x == call[c]
<1>1. x.pc = "row" /\ x.tries = 0 /\ UNCHANGED <<data, resv, sweep, started, hist>> BY DEF RowTooLarge, At
<1>2. Local(x) BY LocalFacts DEF IInv
<1>3. Set(c, Answered(x, "err")) BY AnswerSets DEF RowTooLarge
<1>4. Retired(x, Answered(x, "err")) BY <1>1, <1>2, AnsweredFacts DEF Answers
<1>5. ~x.acq /\ x.rel = None BY <1>1, <1>2 DEF Local, Shape
<1>6. ~Doubts(x) /\ \A v \in Values : ~Handles(x, v) BY <1>1, <1>5, StatementsAssumption DEF Doubts, Handles
<1>7. QED BY <1>1, <1>3, <1>4, <1>6, RetireStill DEF Works

(***************************************************************************)
(* Pre-read and reservation.                                               *)
(***************************************************************************)
\* The fields that no step from the pre-read to the row Lua changes.
SameCall(x, y) ==
    /\ y.op = x.op /\ y.pk = x.pk /\ y.next = x.next /\ y.val = x.val /\ y.rel = x.rel /\ y.born = x.born
    /\ y.res = x.res

SameSnap(x, y) == SameCall(x, y) /\ y.snap = x.snap /\ y.rs = x.rs /\ y.seen = x.seen /\ y.tries = x.tries

Writing == Reserving \cup {"row", "rcpt"}

LEMMA WritingFacts ==
    ASSUME Base, NEW c \in Sessions, call[c].pc \in Writing
    PROVE  /\ call[c].val \in Values /\ call[c].val # None /\ call[c].pk \in Pks /\ call[c].pk # None
           /\ call[c].rel = None /\ call[c].op # "delete" /\ Works(call[c])
<1>1. Local(call[c]) BY LocalFacts
<1>2. QED BY <1>1, StatementsAssumption DEF Local, Locals, Shape, Writing, Reserving, Deleting, Works

LEMMA SameAlone ==
    ASSUME Tidy, NEW c \in Sessions, NEW y, Works(call[c]), SameCall(call[c], y)
    PROVE  Alone(c, y)
BY StillAlone DEF Tidy, SameCall, Keys

\* From one step of the reservation to another.
LEMMA SnapMoves ==
    ASSUME IInv, NEW c \in Sessions, NEW y \in Locals, call[c].pc \in Reserving, y.pc \in Reserving,
           SameSnap(call[c], y), y.pc = "lua" => y.acq
    PROVE  /\ Local(y) /\ SnapOk(y) /\ BornOk(y)
           /\ Tidy => Alone(c, y) /\ Current(y)
<1> DEFINE x == call[c]
<1>1. Local(x) /\ SnapOk(x) /\ BornOk(x) BY LocalFacts DEF IInv
<1>2. Local(y) BY <1>1 DEF Local, Shape, SameSnap, SameCall, Reserving, Deleting
<1>3. SnapOk(y) BY <1>1 DEF SnapOk, SameSnap, SameCall
<1>4. BornOk(y) BY <1>1 DEF BornOk, Aim, SameSnap, SameCall
<1>5. ASSUME Tidy PROVE Alone(c, y) /\ Current(y)
  <2>1. Works(x) BY WritingFacts DEF IInv, Writing
  <2>2. Current(x) BY <1>5 DEF Tidy
  <2>3. Alone(c, y) BY <1>5, <2>1, SameAlone DEF SameSnap
  <2>4. Current(y) BY <2>2 DEF Current, SameSnap, SameCall, Reserving
  <2>5. QED BY <2>3, <2>4
<1>6. QED BY <1>2, <1>3, <1>4, <1>5

LEMMA PrereadInv == ASSUME IInv, NEW c \in Sessions, Preread(c) PROVE IInv'
<1> DEFINE x == call[c]
<1>1. x.pc = "row" /\ UNCHANGED <<data, resv, sweep, started, hist>> BY DEF Preread, At
<1>2. Local(x) /\ BornOk(x) BY LocalFacts DEF IInv
<1>3. /\ x.pk \in Pks /\ row[x.pk] \in Row /\ births[x.pk] \in Nat /\ row[x.pk].ver \in Nat
      /\ x.val \in Values /\ x.rel = None /\ Works(x) /\ x.op # "delete"
  BY <1>1, TypeFacts, WritingFacts DEF IInv, Base, Writing
<1>4. PICK l \in {"nx", "rcpt"} : l = IF Live(x.pk) THEN "nx" ELSE "rcpt" OBVIOUS
<1>5. PICK y : y = [x EXCEPT !.pc = l, !.snap = row[x.pk], !.rs = NoRcpt, !.seen = births[x.pk]] OBVIOUS
<1>6. Set(c, y) BY <1>4, <1>5 DEF Preread
<1>7. y \in Locals
  <2>1. x \in Locals BY <1>2 DEF Local
  <2>2. PICK s \in Row, b \in Nat : s = row[x.pk] /\ b = births[x.pk] BY <1>3
  <2>3. y = [x EXCEPT !.pc = l, !.snap = s, !.rs = NoRcpt, !.seen = b] BY <1>5, <2>2
  <2>4. NoRcpt \in Receipt BY NoneTypes
  <2>5. QED BY <2>1, <2>3, <2>4 DEF Locals, Pcs
<1>8. /\ y.pc = l /\ y.snap = row[x.pk] /\ y.rs = NoRcpt /\ y.seen = births[x.pk] /\ SameCall(x, y)
      /\ y.acq = x.acq /\ y.tries = x.tries
  BY <1>2, <1>5 DEF Local, Locals, SameCall
<1>9. row[x.pk].ver = 0 => row[x.pk] = NoRow BY <1>3 DEF IInv, Base, RowShape
<1>10. Local(y) BY <1>1, <1>2, <1>3, <1>7, <1>8, <1>9 DEF Local, Shape, SameCall, Deleting, Reserving
<1>11. SnapOk(y) BY <1>3, <1>8 DEF SnapOk, SameCall
<1>12. BornOk(y) BY <1>2, <1>8 DEF BornOk, Aim, SameCall
<1>13. ASSUME Unique PROVE USimple(c, y)
  <2>1. (Owns(y) => Owns(x)) /\ (Sure(y) => Sure(x)) BY <1>1, <1>8 DEF Owns, Sure
  <2>2. ~Doubts(x) BY <1>1, <1>2, PcFacts
  <2>3. QED BY <1>1, <1>8, <1>13, <2>1, <2>2 DEF USimple, SameCall, Unique, Reserved, Clear
<1>14. ASSUME Tidy PROVE TSimple(c, y)
  <2>1. Alone(c, y) BY <1>3, <1>8, <1>14, SameAlone
  <2>2. Current(y) BY <1>3, <1>4, <1>8, <1>9 DEF Current, Reserving, SameCall, Live
  <2>3. \A v \in Values : Handles(x, v) => Handles(y, v)
    BY <1>1, <1>3, <1>8, StatementsAssumption DEF Handles, Reserving, SameCall
  <2>4. QED BY <1>1, <1>8, <2>1, <2>2, <2>3 DEF TSimple, SameCall
<1>15. QED BY <1>1, <1>6, <1>10, <1>11, <1>12, <1>13, <1>14, Moves

LEMMA ReadReceiptInv == ASSUME IInv, NEW c \in Sessions, ReadReceipt(c) PROVE IInv'
<1> DEFINE x == call[c]
<1>1. x.pc = "rcpt" /\ UNCHANGED <<data, resv, sweep, started, hist>> BY DEF ReadReceipt, At
<1>2. Local(x) /\ BornOk(x) /\ SnapOk(x) BY LocalFacts DEF IInv
<1>3. x.pk \in Pks /\ rcpt[x.pk] \in Receipt /\ x.val \in Values /\ x.rel = None /\ Works(x) /\ x.op # "delete"
  BY <1>1, TypeFacts, WritingFacts DEF IInv, Base, Writing
<1>5. PICK y : y = [x EXCEPT !.pc = "nx", !.rs = rcpt[x.pk]] OBVIOUS
<1>6. Set(c, y) BY <1>5 DEF ReadReceipt
<1>7. y \in Locals BY <1>2, <1>3, <1>5 DEF Local, Locals, Pcs
<1>8. /\ y.pc = "nx" /\ y.snap = x.snap /\ y.rs = rcpt[x.pk] /\ y.seen = x.seen /\ SameCall(x, y)
      /\ y.acq = x.acq /\ y.tries = x.tries
  BY <1>2, <1>5 DEF Local, Locals, SameCall
<1>10. Local(y) BY <1>1, <1>2, <1>3, <1>7, <1>8 DEF Local, Shape, SameCall, Deleting, Reserving
<1>11. SnapOk(y) BY <1>1, <1>2, <1>8 DEF SnapOk, SameCall
<1>12. BornOk(y) BY <1>2, <1>8 DEF BornOk, Aim, SameCall
<1>13. ASSUME Unique PROVE USimple(c, y)
  <2>1. (Owns(y) => Owns(x)) /\ (Sure(y) => Sure(x)) BY <1>1, <1>8 DEF Owns, Sure
  <2>2. ~Doubts(x) BY <1>1, <1>2, PcFacts
  <2>3. QED BY <1>1, <1>8, <1>13, <2>1, <2>2 DEF USimple, SameCall, Unique, Reserved, Clear
<1>14. ASSUME Tidy PROVE TSimple(c, y)
  <2>1. Alone(c, y) BY <1>3, <1>8, <1>14, SameAlone
  <2>2. Current(x) BY <1>14 DEF Tidy
  <2>3. Current(y) BY <1>1, <1>8, <2>2 DEF Current, Reserving, SameCall, NoRow
  <2>4. \A v \in Values : Handles(x, v) => Handles(y, v)
    BY <1>1, <1>3, <1>8, StatementsAssumption DEF Handles, Reserving, SameCall
  <2>5. QED BY <1>1, <1>8, <2>1, <2>3, <2>4 DEF TSimple, SameCall
<1>15. QED BY <1>1, <1>6, <1>10, <1>11, <1>12, <1>13, <1>14, Moves

\* SET NX takes a free value: at the first attempt and after a take-over.
LEMMA SetNXInv ==
    ASSUME IInv, NEW c \in Sessions, call[c].pc \in {"nx", "nx2"}, Free(c), SetNX(c), Goto(c, "verify"),
           UNCHANGED <<data, sweep, started, hist>>
    PROVE  IInv'
<1> DEFINE x == call[c]
<1>1. x \in Locals /\ Local(x) BY LocalFacts DEF IInv, Local
<1>2. x.val \in Values /\ x.val # None /\ x.pk \in Pks /\ x.pk # None /\ x.rel = None
  BY WritingFacts DEF IInv, Writing, Reserving
<1>3. PICK y : y = [x EXCEPT !.pc = "verify"] OBVIOUS
<1>4. Set(c, y) BY <1>3 DEF Goto
<1>5. y \in Locals /\ y.pc = "verify" /\ SameSnap(x, y) /\ y.acq = x.acq
  BY <1>1, <1>3 DEF Locals, Pcs, SameSnap, SameCall
<1>6. Local(y) /\ SnapOk(y) /\ BornOk(y) /\ (Tidy => Alone(c, y) /\ Current(y)) BY <1>5, SnapMoves DEF Reserving
<1>7. resv \in [Values -> Pks \cup {None}] /\ resv' = [resv EXCEPT ![x.val] = x.pk] /\ resv[x.val] = None
  BY DEF IInv, Base, TypeOK, SetNX, Free
<1>8. resv' \in [Values -> Pks \cup {None}] /\ resv'[x.val] = x.pk /\ \A v \in Values : v # x.val => resv'[v] = resv[v]
  BY <1>2, <1>7
<1>9. USimple(c, y)
  <2>1. Doubts(y) /\ ~Sure(y) /\ y.pk = x.pk /\ y.val = x.val BY <1>5 DEF Doubts, Sure, SameSnap, SameCall
  <2>2. ~Doubts(x) BY <1>1, PcFacts
  <2>3. QED BY <1>5, <1>7, <1>8, <2>1, <2>2 DEF USimple
<1>10. ASSUME Tidy PROVE TSimple(c, y)
  <2>1. Handles(y, x.val) BY <1>5 DEF Handles, SameSnap, SameCall
  <2>2. \A v \in Values : Handles(x, v) => Handles(y, v)
    BY <1>2, <1>5, StatementsAssumption DEF Handles, Reserving, SameSnap, SameCall
  <2>3. QED BY <1>5, <1>6, <1>8, <1>10, <2>1, <2>2 DEF TSimple, SameSnap, SameCall
<1>11. seq' \in 0 .. MaxPk /\ started' \in Nat /\ FlagTypes' /\ FlagsGrow
  <2>1. /\ breach \in BOOLEAN /\ clash \in BOOLEAN /\ aba \in BOOLEAN /\ fault \in SUBSET Faults
        /\ seq \in 0 .. MaxPk /\ started \in Nat
    BY DEF IInv, Base, TypeOK
  <2>2. FlagTypes' BY <2>1, Zenon DEF FlagTypes, hist
  <2>3. FlagsGrow BY DEF FlagsGrow, hist
  <2>4. QED BY <2>1, <2>2, <2>3 DEF data
<1>12. QED BY <1>4, <1>6, <1>8, <1>9, <1>10, <1>11, Simple DEF Set, data, hist

LEMMA ReserveInv == ASSUME IInv, NEW c \in Sessions, Reserve(c) PROVE IInv'
<1> DEFINE x == call[c]
<1>1. x.pc = "nx" /\ UNCHANGED <<data, sweep, started, hist>> BY DEF Reserve, At
<1>2. CASE Free(c) BY <1>1, <1>2, SetNXInv DEF Reserve
<1>3. CASE ~Free(c)
  <2>1. UNCHANGED resv /\ Goto(c, "owner") BY <1>3 DEF Reserve
  <2>2. x \in Locals /\ Local(x) BY LocalFacts DEF IInv, Local
  <2>3. PICK y : y = [x EXCEPT !.pc = "owner"] OBVIOUS
  <2>4. Set(c, y) BY <2>1, <2>3 DEF Goto
  <2>5. y \in Locals /\ y.pc = "owner" /\ SameSnap(x, y) /\ y.acq = x.acq
    BY <2>2, <2>3 DEF Locals, Pcs, SameSnap, SameCall
  <2>6. Local(y) /\ SnapOk(y) /\ BornOk(y) /\ (Tidy => Alone(c, y) /\ Current(y)) BY <1>1, <2>5, SnapMoves DEF Reserving
  <2>7. ASSUME Unique PROVE USimple(c, y)
    <3>1. (Owns(y) => Owns(x)) /\ (Sure(y) => Sure(x)) BY <1>1, <2>5 DEF Owns, Sure
    <3>2. ~Doubts(x) BY <1>1, <2>2, PcFacts
    <3>3. QED BY <1>1, <2>1, <2>5, <2>7, <3>1, <3>2 DEF USimple, SameSnap, SameCall, Unique, Reserved, Clear
  <2>8. ASSUME Tidy PROVE TSimple(c, y)
    <3>1. \A v \in Values : Handles(x, v) => Handles(y, v)
      BY <1>1, <2>5, StatementsAssumption DEF Handles, Reserving, SameSnap, SameCall
    <3>2. QED BY <1>1, <2>1, <2>5, <2>6, <2>8, <3>1 DEF TSimple, SameSnap, SameCall
  <2>9. QED BY <1>1, <2>1, <2>4, <2>6, <2>7, <2>8, Moves
<1>4. QED BY <1>2, <1>3

\* Nothing but breach changes among the flags.
BreachGrows == breach' \in BOOLEAN /\ (breach => breach') /\ UNCHANGED <<births, clash, aba, fault>>

LEMMA BreachFacts ==
    ASSUME IInv, BreachGrows, UNCHANGED <<data, started>>
    PROVE  seq' \in 0 .. MaxPk /\ started' \in Nat /\ FlagTypes' /\ FlagsGrow
<1>1. /\ breach \in BOOLEAN /\ clash \in BOOLEAN /\ aba \in BOOLEAN /\ fault \in SUBSET Faults
      /\ seq \in 0 .. MaxPk /\ started \in Nat
  BY DEF IInv, Base, TypeOK
<1>2. FlagTypes' BY <1>1, Zenon DEF FlagTypes, BreachGrows
<1>3. FlagsGrow BY DEF FlagsGrow, BreachGrows
<1>4. QED BY <1>1, <1>2, <1>3 DEF data

LEMMA AcquiredInv ==
    ASSUME IInv, NEW c \in Sessions, call[c].pc \in {"owner", "verify", "check"}, Acquired(c),
           UNCHANGED <<data, resv, sweep, started>>, BreachGrows,
           Unbroken /\ Unique /\ Unbroken' => Sole(call[c].pk, call[c].val) /\ resv[call[c].val] = call[c].pk
    PROVE  IInv'
<1> DEFINE x == call[c]
<1>1. x \in Locals /\ Local(x) BY LocalFacts DEF IInv, Local
<1>2. x.val \in Values /\ x.val # None /\ x.rel = None BY WritingFacts DEF IInv, Writing, Reserving
<1>3. PICK y : y = [x EXCEPT !.pc = "lua", !.acq = TRUE, !.mem = {}] OBVIOUS
<1>4. Set(c, y) BY <1>3 DEF Acquired
<1>5. y \in Locals /\ y.pc = "lua" /\ SameSnap(x, y) /\ y.acq
  BY <1>1, <1>3 DEF Locals, Pcs, SameSnap, SameCall
<1>6. Local(y) /\ SnapOk(y) /\ BornOk(y) /\ (Tidy => Alone(c, y) /\ Current(y)) BY <1>5, SnapMoves DEF Reserving
<1>7. Unbroken /\ Unique /\ Unbroken' => USimple(c, y)
  BY <1>5 DEF USimple, SameSnap, SameCall, Sure, Owns
<1>8. ASSUME Tidy PROVE TSimple(c, y)
  <2>1. \A v \in Values : Handles(x, v) => Handles(y, v)
    BY <1>2, <1>5, StatementsAssumption DEF Handles, Reserving, SameSnap, SameCall
  <2>2. QED BY <1>5, <1>6, <1>8, <2>1 DEF TSimple, SameSnap, SameCall
<1>9. resv' \in [Values -> Pks \cup {None}] BY DEF IInv, Base, TypeOK
<1>10. QED BY <1>4, <1>6, <1>7, <1>8, <1>9, BreachFacts, Simple DEF Set, data, BreachGrows

LEMMA GetOwnerInv == ASSUME IInv, NEW c \in Sessions, GetOwner(c) PROVE IInv'
<1> DEFINE x == call[c]
<1>1. /\ x.pc = "owner" /\ UNCHANGED <<data, resv, sweep, started, births, clash, aba, fault>>
      /\ breach' = (breach \/ (resv[x.val] = x.pk /\ Unproven(c)))
  BY DEF GetOwner, At
<1>2. x \in Locals /\ Local(x) BY LocalFacts DEF IInv, Local
<1>3. x.val \in Values /\ x.val # None /\ x.pk \in Pks /\ x.pk # None /\ x.rel = None /\ Works(x)
  BY <1>1, WritingFacts DEF IInv, Writing, Reserving
<1>4. BreachGrows
  <2>1. breach \in BOOLEAN BY DEF IInv, Base, TypeOK
  <2>2. breach' \in BOOLEAN /\ (breach => breach') BY <1>1, <2>1
  <2>3. QED BY <1>1, <2>2 DEF BreachGrows
<1>5. resv[x.val] \in Pks \cup {None} /\ resv' \in [Values -> Pks \cup {None}] BY <1>1, <1>3 DEF IInv, Base, TypeOK
<1>6. CASE resv[x.val] = x.pk
  <2>1. ~Free(c) BY <1>3, <1>6 DEF Free
  <2>2. Acquired(c) BY <1>6, <2>1 DEF GetOwner
  <2>3. ASSUME Unique, Unbroken' PROVE Sole(x.pk, x.val)
    <3>1. ~breach' BY <2>3 DEF Unbroken
    <3>2. ~Unproven(c) BY <1>1, <1>6, <3>1
    <3>3. \A d \in Sessions : ~(call[d].pk = x.pk /\ call[d].val = x.val /\ Doubts(call[d]))
      <4>1. ~Doubts(x) BY <1>1, <1>2, PcFacts
      <4>2. QED BY <3>2, <4>1 DEF Unproven, Doubts
    <3>4. QED BY <1>3, <1>6, <2>3, <3>3 DEF Unique, Trusted
  <2>4. QED BY <1>1, <1>4, <1>6, <2>2, <2>3, AcquiredInv
<1>7. CASE Free(c)
  <2>1. Goto(c, "nx2") BY <1>3, <1>7 DEF GetOwner, Free
  <2>3. PICK y : y = [x EXCEPT !.pc = "nx2"] OBVIOUS
  <2>4. Set(c, y) BY <2>1, <2>3 DEF Goto
  <2>5. y \in Locals /\ y.pc = "nx2" /\ SameSnap(x, y) /\ y.acq = x.acq
    BY <1>2, <2>3 DEF Locals, Pcs, SameSnap, SameCall
  <2>6. Local(y) /\ SnapOk(y) /\ BornOk(y) /\ (Tidy => Alone(c, y) /\ Current(y)) BY <1>1, <2>5, SnapMoves DEF Reserving
  <2>7. ASSUME Unique PROVE USimple(c, y)
    <3>1. (Owns(y) => Owns(x)) /\ (Sure(y) => Sure(x)) BY <1>1, <2>5 DEF Owns, Sure
    <3>2. ~Doubts(x) BY <1>1, <1>2, PcFacts
    <3>3. QED BY <1>1, <2>5, <2>7, <3>1, <3>2 DEF USimple, SameSnap, SameCall, Unique, Reserved, Clear
  <2>8. ASSUME Tidy PROVE TSimple(c, y)
    <3>1. \A v \in Values : Handles(x, v) => Handles(y, v)
      BY <1>1, <1>3, <2>5, StatementsAssumption DEF Handles, Reserving, SameSnap, SameCall
    <3>2. QED BY <1>1, <2>5, <2>6, <2>8, <3>1 DEF TSimple, SameSnap, SameCall
  <2>9. QED BY <1>1, <1>4, <1>5, <2>4, <2>6, <2>7, <2>8, BreachFacts, Simple DEF Set, data
<1>8. CASE ~Free(c) /\ resv[x.val] # x.pk
  <2>0. PICK o \in Pks : o = resv[x.val] BY <1>5, <1>8 DEF Free
  <2>1. Set(c, [x EXCEPT !.pc = "alive", !.mem = {o}]) BY <1>8, <2>0 DEF GetOwner
  <2>3. PICK y : y = [x EXCEPT !.pc = "alive", !.mem = {o}] OBVIOUS
  <2>4. Set(c, y) BY <2>1, <2>3
  <2>5. y \in Locals /\ y.pc = "alive" /\ SameSnap(x, y) /\ y.acq = x.acq
    BY <1>2, <2>3 DEF Locals, Pcs, SameSnap, SameCall
  <2>6. Local(y) /\ SnapOk(y) /\ BornOk(y) /\ (Tidy => Alone(c, y) /\ Current(y)) BY <1>1, <2>5, SnapMoves DEF Reserving
  <2>7. ASSUME Unique PROVE USimple(c, y)
    <3>1. ~Owns(y) /\ ~Sure(y) BY <2>5 DEF Owns, Sure
    <3>2. ~Doubts(x) BY <1>1, <1>2, PcFacts
    <3>3. ~y.acq BY <1>1, <1>8, <2>5, <2>7 DEF Unique, Reserved, Owns
    <3>4. QED BY <1>1, <2>5, <3>1, <3>2, <3>3 DEF USimple
  <2>8. ASSUME Tidy PROVE TSimple(c, y)
    <3>1. \A v \in Values : Handles(x, v) => Handles(y, v)
      BY <1>1, <1>3, <2>5, StatementsAssumption DEF Handles, Reserving, SameSnap, SameCall
    <3>2. QED BY <1>1, <2>5, <2>6, <2>8, <3>1 DEF TSimple, SameSnap, SameCall
  <2>9. QED BY <1>1, <1>4, <1>5, <2>4, <2>6, <2>7, <2>8, BreachFacts, Simple DEF Set, data
<1>9. QED BY <1>6, <1>7, <1>8

\* reserveUnique ends with a conflict: what an earlier attempt reserved is released.
LEMMA ConflictInv ==
    ASSUME IInv, NEW c \in Sessions, call[c].pc \in {"alive", "nx2"}, Fail(c, "dup"),
           UNCHANGED <<data, resv, sweep, started, hist>>
    PROVE  IInv'
<1> DEFINE x == call[c]
<1>1. Local(x) BY LocalFacts DEF IInv
<1>2. x.val \in Values /\ x.rel = None /\ Works(x) BY WritingFacts DEF IInv, Writing, Reserving
<1>3. PICK y : Retired(x, y) /\ Set(c, y) /\ (x.acq => y.rel = x.val /\ y.pk = x.pk)
  BY <1>1, <1>2, FailRetires DEF Answers
<1>4. ~Doubts(x) BY <1>1, PcFacts
<1>5. \A v \in Values : Handles(x, v) => y.pk = x.pk /\ Handles(y, v)
  BY <1>2, <1>3, StatementsAssumption DEF Handles
<1>6. QED BY <1>2, <1>3, <1>4, <1>5, RetireStill

LEMMA OwnerAliveInv == ASSUME IInv, NEW c \in Sessions, OwnerAlive(c) PROVE IInv'
<1> DEFINE x == call[c]
<1>1. x.pc = "alive" /\ UNCHANGED <<data, resv, sweep, started, hist>> BY DEF OwnerAlive, At
<1>2. CASE \E p \in x.mem : Live(p) BY <1>1, <1>2, ConflictInv DEF OwnerAlive
<1>3. CASE ~\E p \in x.mem : Live(p)
  <2>2. x \in Locals /\ Local(x) BY LocalFacts DEF IInv, Local
  <2>3. PICK y : y = [x EXCEPT !.pc = "takeover", !.mem = {}] OBVIOUS
  <2>4. Set(c, y) BY <1>3, <2>3 DEF OwnerAlive
  <2>5. y \in Locals /\ y.pc = "takeover" /\ SameSnap(x, y) /\ y.acq = x.acq
    BY <2>2, <2>3 DEF Locals, Pcs, SameSnap, SameCall
  <2>6. Local(y) /\ SnapOk(y) /\ BornOk(y) /\ (Tidy => Alone(c, y) /\ Current(y)) BY <1>1, <2>5, SnapMoves DEF Reserving
  <2>7. ASSUME Unique PROVE USimple(c, y)
    <3>1. ~Owns(y) /\ ~Sure(y) BY <2>5 DEF Owns, Sure
    <3>2. ~Doubts(x) BY <1>1, <2>2, PcFacts
    <3>3. ~y.acq BY <1>1, <2>5, <2>7 DEF Unique, Reserved
    <3>4. QED BY <1>1, <2>5, <3>1, <3>2, <3>3 DEF USimple
  <2>8. ASSUME Tidy PROVE TSimple(c, y)
    <3>1. \A v \in Values : Handles(x, v) => Handles(y, v)
      BY <1>1, <2>5, StatementsAssumption DEF Handles, Reserving, SameSnap, SameCall
    <3>2. QED BY <1>1, <2>5, <2>6, <2>8, <3>1 DEF TSimple, SameSnap, SameCall
  <2>9. QED BY <1>1, <2>4, <2>6, <2>7, <2>8, Moves
<1>4. QED BY <1>2, <1>3

\* DEL of a reservation that is not broken takes it from nobody who relies on it.
LEMMA DelFacts ==
    ASSUME IInv, NEW v \in Values, Del(v)
    PROVE  /\ BreachGrows /\ resv' \in [Values -> Pks \cup {None}] /\ resv'[v] = None
           /\ \A w \in Values : w # v => resv'[w] = resv[w]
           /\ Unbroken' => \A d \in Sessions : ~(Owns(call[d]) /\ call[d].val = v /\ call[d].pk = resv[v])
<1>1. /\ resv' = [resv EXCEPT ![v] = None]
      /\ breach' = (breach \/ \E c \in Sessions : resv[v] # None /\ Relies(c, resv[v], v))
      /\ UNCHANGED <<births, clash, aba, fault>>
  BY DEF Del
<1>2. breach \in BOOLEAN /\ resv \in [Values -> Pks \cup {None}] BY DEF IInv, Base, TypeOK
<1>3. BreachGrows BY <1>1, <1>2 DEF BreachGrows
<1>4. ASSUME Unbroken', NEW d \in Sessions, Owns(call[d]), call[d].val = v, call[d].pk = resv[v] PROVE FALSE
  <2>1. ~breach' BY <1>4 DEF Unbroken
  <2>2. ~(resv[v] # None /\ Relies(d, resv[v], v)) BY <1>1, <2>1
  <2>3. resv[v] \in Pks BY <1>4, TypeFacts DEF IInv, Base
  <2>4. QED BY <1>4, <2>2, <2>3, StatementsAssumption DEF Relies, Owns
<1>5. QED BY <1>1, <1>2, <1>3, <1>4

LEMMA TakeOverInv == ASSUME IInv, NEW c \in Sessions, TakeOver(c) PROVE IInv'
<1> DEFINE x == call[c]
<1>1. x.pc = "takeover" /\ Del(x.val) /\ Goto(c, "nx2") /\ UNCHANGED <<data, sweep, started>> BY DEF TakeOver, At
<1>2. x \in Locals /\ Local(x) BY LocalFacts DEF IInv, Local
<1>3. x.val \in Values /\ x.rel = None BY <1>1, WritingFacts DEF IInv, Writing, Reserving
<1>4. PICK y : y = [x EXCEPT !.pc = "nx2"] OBVIOUS
<1>5. Set(c, y) BY <1>1, <1>4 DEF Goto
<1>6. y \in Locals /\ y.pc = "nx2" /\ SameSnap(x, y) /\ y.acq = x.acq
  BY <1>2, <1>4 DEF Locals, Pcs, SameSnap, SameCall
<1>7. Local(y) /\ SnapOk(y) /\ BornOk(y) /\ (Tidy => Alone(c, y) /\ Current(y)) BY <1>1, <1>6, SnapMoves DEF Reserving
<1>8. ASSUME Unique, Unbroken' PROVE USimple(c, y)
  <2>1. ~y.acq BY <1>1, <1>6, <1>8 DEF Unique, Reserved
  <2>2. ~Owns(y) /\ ~Sure(y) BY <1>6, <2>1 DEF Owns, Sure
  <2>3. ~Doubts(x) BY <1>1, <1>2, PcFacts
  <2>4. QED BY <1>1, <1>3, <1>6, <1>8, <2>2, <2>3, DelFacts DEF USimple
<1>9. ASSUME Tidy PROVE TSimple(c, y)
  <2>1. \A v \in Values : Handles(x, v) => Handles(y, v)
    BY <1>1, <1>3, <1>6, StatementsAssumption DEF Handles, Reserving, SameSnap, SameCall
  <2>2. QED BY <1>1, <1>3, <1>6, <1>7, <1>9, <2>1, DelFacts DEF TSimple, SameSnap, SameCall
<1>10. QED BY <1>1, <1>3, <1>5, <1>7, <1>8, <1>9, DelFacts, BreachFacts, Simple DEF Set, data, BreachGrows

LEMMA RetryReserveInv == ASSUME IInv, NEW c \in Sessions, RetryReserve(c) PROVE IInv'
<1>1. call[c].pc = "nx2" /\ UNCHANGED <<data, sweep, started, hist>> BY DEF RetryReserve, At
<1>2. CASE Free(c) BY <1>1, <1>2, SetNXInv DEF RetryReserve
<1>3. CASE ~Free(c) BY <1>1, <1>3, ConflictInv DEF RetryReserve
<1>4. QED BY <1>2, <1>3

LEMMA HistGrows == ASSUME IInv, UNCHANGED hist PROVE BreachGrows
<1>1. breach \in BOOLEAN BY DEF IInv, Base, TypeOK
<1>2. QED BY <1>1 DEF BreachGrows, hist

\* Another row that has the value is in its bucket: a write that has yet to enter it would
\* own the reservation.
LEMMA OthersIndexed ==
    ASSUME IInv, Unique, NEW c \in Sessions, call[c].pc = "verify",
           NEW q \in Pks, q # call[c].pk, Live(q), row[q].val = call[c].val
    PROVE  \E m \in bucket : m[1] = call[c].val /\ m[2] = q
<1>1. resv[call[c].val] = call[c].pk BY DEF Unique, Reserved, Owns
<1>2. ASSUME NEW d \in Sessions, Enters(call[d], q) PROVE FALSE
  <2>1. resv[call[d].val] = call[d].pk BY <1>2 DEF Unique, Reserved, Owns, Enters
  <2>2. QED BY <1>1, <1>2, <2>1 DEF Enters
<1>3. <<row[q].val, q, row[q].iv>> \in bucket BY <1>2 DEF Unique, Indexed
<1>4. QED BY <1>3

LEMMA VerifyBucketInv == ASSUME IInv, NEW c \in Sessions, VerifyBucket(c) PROVE IInv'
<1> DEFINE x == call[c]
           ms == {z \in bucket : z[1] = x.val}
<1>0. PICK b \in SUBSET ms :
         /\ IF b = {} THEN Acquired(c) ELSE Set(c, [x EXCEPT !.pc = "check", !.mem = {z[2] : z \in b}])
         /\ breach' = (breach \/ \E z \in ms : /\ z[2] # x.pk /\ Live(z[2]) /\ row[z[2]].val = z[1]
                                               /\ z[2] \notin {y[2] : y \in b})
  BY DEF VerifyBucket, Looks
<1>1. x.pc = "verify" /\ UNCHANGED <<data, resv, sweep, started, births, clash, aba, fault>> BY DEF VerifyBucket, At
<1>2. x \in Locals /\ Local(x) BY LocalFacts DEF IInv, Local
<1>3. x.val \in Values /\ x.rel = None BY <1>1, WritingFacts DEF IInv, Writing, Reserving
<1>4. ASSUME Unique, Unbroken', NEW q \in Pks, q # x.pk, Live(q), row[q].val = x.val PROVE q \in {z[2] : z \in b}
  <2>1. ~breach' BY <1>4 DEF Unbroken
  <2>2. PICK m \in bucket : m[1] = x.val /\ m[2] = q BY <1>1, <1>4, OthersIndexed
  <2>3. m \in ms BY <2>2
  <2>4. QED BY <1>0, <1>4, <2>1, <2>2, <2>3
<1>5. BreachGrows /\ resv' \in [Values -> Pks \cup {None}]
  <2>1. breach \in BOOLEAN /\ resv \in [Values -> Pks \cup {None}] BY DEF IInv, Base, TypeOK
  <2>2. breach' \in BOOLEAN /\ (breach => breach') BY <1>0, <2>1
  <2>3. QED BY <1>1, <2>1, <2>2 DEF BreachGrows
<1>6. CASE b = {}
  <2>1. Acquired(c) BY <1>0, <1>6
  <2>2. ASSUME Unique, Unbroken' PROVE Sole(x.pk, x.val) /\ resv[x.val] = x.pk
    BY <1>1, <1>4, <1>6, <2>2 DEF Sole, Unique, Reserved, Owns
  <2>3. QED BY <1>1, <1>5, <2>1, <2>2, AcquiredInv
<1>7. CASE b # {}
  <2>0. {z[2] : z \in b} \in SUBSET Pks
    <3>1. bucket \in SUBSET (Values \X Pks \X Nat) BY DEF IInv, Base, TypeOK
    <3>2. QED BY <3>1
  <2>1. PICK n \in SUBSET Pks : n = {z[2] : z \in b} BY <2>0
  <2>2. PICK y : y = [x EXCEPT !.pc = "check", !.mem = n] OBVIOUS
  <2>3. Set(c, y) BY <1>0, <1>7, <2>1, <2>2
  <2>4. y \in Locals /\ y.pc = "check" /\ SameSnap(x, y) /\ y.acq = x.acq /\ y.mem = n
    BY <1>2, <2>2 DEF Locals, Pcs, SameSnap, SameCall
  <2>5. Local(y) /\ SnapOk(y) /\ BornOk(y) /\ (Tidy => Alone(c, y) /\ Current(y)) BY <1>1, <2>4, SnapMoves DEF Reserving
  <2>6. ASSUME Unique, Unbroken' PROVE USimple(c, y)
    <3>1. Owns(x) /\ ~Sure(y) /\ Doubts(y) BY <1>1, <2>4 DEF Owns, Sure, Doubts
    <3>2. resv[y.val] = y.pk BY <2>4, <2>6, <3>1 DEF Unique, Reserved, SameSnap, SameCall
    <3>3. \A q \in Pks : (q # x.pk /\ Live(q) /\ row[q].val = x.val) => q \in n BY <1>4, <2>1, <2>6
    <3>4. QED BY <1>1, <2>4, <2>6, <3>1, <3>2, <3>3 DEF USimple, SameSnap, SameCall
  <2>7. ASSUME Tidy PROVE TSimple(c, y)
    <3>1. \A v \in Values : Handles(x, v) => Handles(y, v)
      BY <1>1, <1>3, <2>4, StatementsAssumption DEF Handles, Reserving, SameSnap, SameCall
    <3>2. QED BY <1>1, <2>4, <2>5, <2>7, <3>1 DEF TSimple, SameSnap, SameCall
  <2>8. QED BY <1>1, <1>5, <2>3, <2>5, <2>6, <2>7, BreachFacts, Simple DEF Set, data
<1>8. QED BY <1>6, <1>7

LEMMA VerifyMembersInv == ASSUME IInv, NEW c \in Sessions, VerifyMembers(c) PROVE IInv'
<1> DEFINE x == call[c]
           Free1 == ~\E p \in x.mem \ {x.pk} : Live(p)
<1>1. x.pc = "check" /\ UNCHANGED <<data, resv, sweep, started, hist>> BY DEF VerifyMembers, At
<1>2. x \in Locals /\ Local(x) BY LocalFacts DEF IInv, Local
<1>3. x.val \in Values /\ x.val # None /\ x.rel = None /\ Works(x) BY <1>1, WritingFacts DEF IInv, Writing, Reserving
<1>5. CASE Free1
  <2>1. Acquired(c) BY <1>5 DEF VerifyMembers
  <2>2. ASSUME Unique PROVE Sole(x.pk, x.val) /\ resv[x.val] = x.pk
    BY <1>1, <1>5, <2>2 DEF Sole, Unique, Reserved, Owns, Seen
  <2>3. QED BY <1>1, <2>1, <2>2, AcquiredInv, HistGrows
<1>6. CASE ~Free1 /\ x.val \notin Escaped
  <2>1. Finish(c, "dup", x.val) BY <1>6 DEF VerifyMembers
  <2>2. PICK y : y = Finished(x, "dup", x.val) OBVIOUS
  <2>3. Set(c, y) BY <2>1, <2>2, FinishSets
  <2>4. Retired(x, y) /\ y.rel = x.val /\ y.pk = x.pk /\ y.val = x.val /\ y.res = "dup"
    BY <1>1, <1>2, <1>3, <2>2, FinishedFacts DEF Answers
  <2>5. Doubts(y) BY <1>3, <2>4 DEF Doubts
  <2>6. \A v \in Values : Handles(x, v) => Handles(y, v)
    BY <1>1, <1>3, <2>4, StatementsAssumption DEF Handles
  <2>7. QED BY <1>1, <1>3, <2>3, <2>4, <2>5, <2>6, RetireStill
<1>7. CASE ~Free1 /\ x.val \in Escaped
  <2>1. Fail(c, "dup") BY <1>7 DEF VerifyMembers
  <2>2. PICK y : Retired(x, y) /\ Set(c, y) BY <1>1, <1>2, <2>1, FailRetires DEF Answers
  <2>3. ~Unbroken' /\ ~Apart' BY <1>7 DEF Unbroken, Apart, PlainKeys
  <2>4. QED BY <1>1, <1>3, <2>2, <2>3, RetireStill
<1>8. QED BY <1>5, <1>6, <1>7

LEMMA ReserveErrorInv == ASSUME IInv, NEW c \in Sessions, ReserveError(c) PROVE IInv'
<1>1. /\ "reserve" \in Faults /\ Fail(c, "err") /\ fault' = fault \cup {"reserve"} /\ call[c].pc # "idle"
      /\ UNCHANGED <<data, resv, sweep, started, births, breach, clash, aba>>
  BY DEF ReserveError
<1>2. Local(call[c]) BY LocalFacts DEF IInv
<1>3. PICK y : Retired(call[c], y) /\ Set(c, y) BY <1>1, <1>2, FailRetires DEF Answers
<1>4. QED BY <1>1, <1>3, Faulty

LEMMA PipelineLostInv == ASSUME IInv, NEW c \in Sessions, PipelineLost(c) PROVE IInv'
<1>1. /\ "segment" \in Faults /\ Fail(c, "err") /\ fault' = fault \cup {"segment"} /\ call[c].pc = "index"
      /\ UNCHANGED <<data, resv, sweep, started, births, breach, clash, aba>>
  BY DEF PipelineLost, At
<1>2. Local(call[c]) BY LocalFacts DEF IInv
<1>3. PICK y : Retired(call[c], y) /\ Set(c, y) BY <1>1, <1>2, FailRetires DEF Answers
<1>4. QED BY <1>1, <1>3, Faulty

(***************************************************************************)
(* The release of a value.                                                 *)
(***************************************************************************)
LEMMA ReleasingFacts ==
    ASSUME IInv, NEW c \in Sessions, call[c].pc \in {"relget", "reldel"}
    PROVE  /\ Local(call[c]) /\ Works(call[c]) /\ call[c].rel \in Values /\ call[c].res \in Answers
           /\ Retired(call[c], Answered(call[c], call[c].res))
           /\ Doubts(call[c]) => call[c].val = call[c].rel
           /\ \A v \in Values : Handles(call[c], v) => v = call[c].rel
<1>1. Local(call[c]) BY LocalFacts DEF IInv
<1>2. call[c].rel \in Values /\ call[c].res \in Answers BY <1>1 DEF Local, Locals, Answers
<1>3. Retired(call[c], Answered(call[c], call[c].res)) BY <1>1, <1>2, AnsweredFacts
<1>4. QED BY <1>1, <1>2, <1>3 DEF Works, Doubts, Handles, Reserving

LEMMA ReleaseGetInv == ASSUME IInv, NEW c \in Sessions, ReleaseGet(c) PROVE IInv'
<1> DEFINE x == call[c]
<1>1. x.pc = "relget" /\ UNCHANGED <<data, resv, sweep, started, hist>> BY DEF ReleaseGet, At
<1>2. x \in Locals /\ Local(x) /\ BornOk(x) BY LocalFacts DEF IInv, Local
<1>3. CASE resv[x.rel] = x.pk
  <2>1. PICK y : y = [x EXCEPT !.pc = "reldel"] OBVIOUS
  <2>2. Set(c, y) BY <1>3, <2>1 DEF ReleaseGet, Goto
  <2>3. y \in Locals /\ y.pc = "reldel" /\ SameSnap(x, y) /\ y.acq = x.acq
    BY <1>2, <2>1 DEF Locals, Pcs, SameSnap, SameCall
  <2>4. Local(y) BY <1>1, <1>2, <2>3 DEF Local, Shape, SameSnap, SameCall, Deleting, Reserving
  <2>5. SnapOk(y) /\ BornOk(y) BY <1>2, <2>3 DEF SnapOk, BornOk, Aim, SameSnap, SameCall, Reserving
  <2>6. USimple(c, y) BY <1>1, <2>3 DEF USimple, Owns, Sure, Doubts, SameSnap, SameCall
  <2>7. ASSUME Tidy PROVE TSimple(c, y)
    <3>1. Alone(c, y) BY <1>1, <2>3, <2>7, SameAlone DEF Works, SameSnap
    <3>2. Current(y) BY <2>3 DEF Current, Reserving
    <3>3. QED BY <1>1, <2>3, <3>1, <3>2 DEF TSimple, Handles, SameSnap, SameCall, Reserving
  <2>8. QED BY <1>1, <2>2, <2>4, <2>5, <2>6, <2>7, Moves
<1>4. CASE resv[x.rel] # x.pk
  <2>1. Set(c, Answered(x, x.res)) BY <1>4, AnswerSets DEF ReleaseGet
  <2>2. QED BY <1>1, <1>4, <2>1, ReleasingFacts, RetireStill
<1>5. QED BY <1>3, <1>4

LEMMA ReleaseDelInv == ASSUME IInv, NEW c \in Sessions, ReleaseDel(c) PROVE IInv'
<1> DEFINE x == call[c]
<1>1. x.pc = "reldel" /\ Del(x.rel) /\ Answer(c, x.res) /\ UNCHANGED <<data, sweep, started>> BY DEF ReleaseDel, At
<1>2. Set(c, Answered(x, x.res)) BY <1>1, AnswerSets
<1>3. x.rel \in Values /\ x.pk \in Pks /\ x.pk # None
  BY <1>1, ReleasingFacts, TypeFacts, StatementsAssumption DEF IInv, Base
<1>4. QED BY <1>1, <1>2, <1>3, ReleasingFacts, DelFacts, BreachFacts, Retire DEF BreachGrows

LEMMA ReleaseLostInv == ASSUME IInv, NEW c \in Sessions, ReleaseLost(c) PROVE IInv'
<1>1. /\ "release" \in Faults /\ Answer(c, call[c].res) /\ fault' = fault \cup {"release"}
      /\ call[c].pc \in {"relget", "reldel"}
      /\ UNCHANGED <<data, resv, sweep, started, births, breach, clash, aba>>
  BY DEF ReleaseLost
<1>2. Set(c, Answered(call[c], call[c].res)) BY <1>1, AnswerSets
<1>3. QED BY <1>1, <1>2, ReleasingFacts, Faulty

(***************************************************************************)
(* DeleteRow up to the Lua, and stale versions.                            *)
(***************************************************************************)
LEMMA DeletePrereadInv == ASSUME IInv, NEW c \in Sessions, DeletePreread(c) PROVE IInv'
<1> DEFINE x == call[c]
<1>1. x.pc = "drow" /\ UNCHANGED <<data, resv, sweep, started, hist>> BY DEF DeletePreread, At
<1>2. x \in Locals /\ Local(x) /\ BornOk(x) BY LocalFacts DEF IInv, Local
<1>3. ~Doubts(x) /\ (\A v \in Values : ~Handles(x, v)) /\ Works(x) BY <1>1, <1>2, PcFacts DEF Reserving, Works
<1>4. CASE ~Live(x.pk)
  <2>1. Set(c, Answered(x, "gone")) BY <1>4, AnswerSets DEF DeletePreread
  <2>2. Retired(x, Answered(x, "gone")) BY <1>1, <1>2, AnsweredFacts DEF Answers
  <2>3. QED BY <1>1, <1>3, <2>1, <2>2, RetireStill
<1>5. CASE Live(x.pk)
  <2>0. x.pk \in Pks /\ row[x.pk] \in Row /\ births[x.pk] \in Nat /\ row[x.pk].ver \in Nat
    BY TypeFacts DEF IInv, Base
  <2>1. PICK y : y = [x EXCEPT !.pc = "dlua", !.snap = row[x.pk], !.seen = births[x.pk]] OBVIOUS
  <2>2. Set(c, y) BY <1>5, <2>1 DEF DeletePreread
  <2>3. y \in Locals BY <1>2, <2>0, <2>1 DEF Locals, Pcs
  <2>4. y.pc = "dlua" /\ y.snap = row[x.pk] /\ SameCall(x, y) /\ y.acq = x.acq
    BY <1>2, <2>1 DEF Locals, SameCall
  <2>5. Local(y) BY <1>1, <1>2, <1>5, <2>0, <2>3, <2>4 DEF Local, Shape, SameCall, Deleting, Live, Reserving
  <2>6. SnapOk(y) /\ BornOk(y) BY <1>2, <2>4 DEF SnapOk, BornOk, Aim, SameCall, Reserving
  <2>7. USimple(c, y) BY <1>1, <1>3, <2>4 DEF USimple, Owns, Sure
  <2>8. ASSUME Tidy PROVE TSimple(c, y)
    <3>1. Alone(c, y) BY <1>3, <2>4, <2>8, SameAlone
    <3>2. Current(y) BY <2>4 DEF Current, Reserving, SameCall
    <3>3. QED BY <1>1, <1>3, <3>1, <3>2 DEF TSimple
  <2>9. QED BY <1>1, <2>2, <2>5, <2>6, <2>7, <2>8, Moves
<1>6. QED BY <1>4, <1>5

\* A stale version: the next attempt keeps what it has reserved.
LEMMA RetryInv ==
    ASSUME IInv, NEW c \in Sessions, NEW l, <<call[c].pc, l>> \in {<<"lua", "row">>, <<"dlua", "drow">>}, Retry(c, l),
           UNCHANGED <<data, resv, sweep, started, hist>>
    PROVE  IInv'
<1> DEFINE x == call[c]
<1>1. x \in Locals /\ Local(x) /\ BornOk(x) BY LocalFacts DEF IInv, Local
<1>2. (x.pc = "lua" /\ l = "row") \/ (x.pc = "dlua" /\ l = "drow") OBVIOUS
<1>3. Works(x) /\ ~Doubts(x) BY <1>1, <1>2, PcFacts DEF Works
<1>4. CASE x.tries + 1 < StaleRetries
  <2>0. x.tries \in 0 .. StaleRetries - 1 /\ x.tries + 1 \in 0 .. StaleRetries - 1
    BY <1>1, <1>4, StatementsAssumption DEF Locals
  <2>1. PICK y : y = [x EXCEPT !.pc = l, !.tries = x.tries + 1] OBVIOUS
  <2>2. Set(c, y) BY <1>4, <2>1 DEF Retry
  <2>3. y \in Locals BY <1>1, <1>2, <2>0, <2>1 DEF Locals, Pcs
  <2>4. y.pc = l /\ y.tries = x.tries + 1 /\ SameCall(x, y) /\ y.acq = x.acq /\ y.snap = x.snap
    BY <1>1, <2>1 DEF Locals, SameCall
  <2>5. Local(y) BY <1>1, <1>2, <2>0, <2>3, <2>4 DEF Local, Shape, SameCall, Deleting, Reserving
  <2>6. SnapOk(y) BY <1>2, <2>4 DEF SnapOk, Reserving
  <2>7. BornOk(y) BY <1>1, <2>4 DEF BornOk, Aim, SameCall
  <2>8. ASSUME Unique PROVE USimple(c, y)
    <3>1. (Owns(y) => Owns(x)) /\ (Sure(y) => Sure(x)) BY <1>2, <2>4 DEF Owns, Sure
    <3>2. QED BY <1>2, <1>3, <2>4, <2>8, <3>1 DEF USimple, SameCall, Unique, Reserved, Clear
  <2>9. ASSUME Tidy PROVE TSimple(c, y)
    <3>1. Alone(c, y) BY <1>3, <2>4, <2>9, SameAlone
    <3>2. Current(y) BY <1>2, <2>4 DEF Current, Reserving
    <3>3. \A v \in Values : Handles(x, v) => Handles(y, v)
      BY <1>1, <1>2, <2>4 DEF Handles, SameCall, Reserving
    <3>4. QED BY <1>2, <2>4, <3>1, <3>2, <3>3 DEF TSimple, SameCall
  <2>10. QED BY <2>2, <2>5, <2>6, <2>7, <2>8, <2>9, Moves
<1>5. CASE ~(x.tries + 1 < StaleRetries)
  <2>1. Fail(c, "err") BY <1>5 DEF Retry
  <2>2. PICK y : /\ Retired(x, y) /\ Set(c, y)
                 /\ (x.acq /\ x.val \in Values) => y.rel = x.val /\ y.pk = x.pk
    BY <1>1, <1>2, <2>1, FailRetires DEF Answers
  <2>3. \A v \in Values : Handles(x, v) => y.pk = x.pk /\ Handles(y, v)
    BY <1>1, <1>2, <2>2, StatementsAssumption DEF Handles, Local
  <2>4. QED BY <1>2, <1>3, <2>2, <2>3, RetireStill
<1>6. QED BY <1>4, <1>5

(***************************************************************************)
(* Steps that leave the statements alone: the sweeper and a lapse.         *)
(***************************************************************************)
\* The sweeper holds the reservation that its receipt names.
Sweeps(p, v) == sweep.pc \in {"clean", "get", "del"} /\ sweep.pk = p /\ sweep.rs.val = v

LEMMA BaseRest == ASSUME Base, UNCHANGED <<row, births, call>>, StoreTypes' PROVE Base'
<1>1. TypeOK' BY DEF Base, TypeOK, StoreTypes, FlagTypes
<1>2. RowShape' BY DEF Base, RowShape
<1>3. SnapShape' BY DEF Base, SnapShape, Live
<1>4. BornShape' BY DEF Base, BornShape, BornOk, BornAt, Live
<1>5. (\A c \in Sessions : Shape(call[c]))' BY DEF Base
<1>6. QED BY <1>1, <1>2, <1>3, <1>4, <1>5 DEF Base

\* Reservations may go that nobody relies on, and members that no live row has.
LEMMA UniqueRest ==
    ASSUME Base, Unique, UNCHANGED <<row, call>>,
           \A v \in Values :
              \/ resv'[v] = resv[v]
              \/ resv'[v] = None /\ \A d \in Sessions : ~(Owns(call[d]) /\ call[d].val = v /\ call[d].pk = resv[v]),
           \A p \in Pks : (Live(p) /\ <<row[p].val, p, row[p].iv>> \in bucket) => <<row[p].val, p, row[p].iv>> \in bucket'
    PROVE  Unique'
<1>S. \A p, v : Sole(p, v)' <=> Sole(p, v) BY DEF Sole, Live
<1>1. Reserved'
  <2>1. ASSUME NEW d \in Sessions, Owns(call[d]) PROVE resv'[call[d].val] = call[d].pk
    <3>1. call[d].val \in Values BY <2>1 DEF Base, Shape, Owns, Deleting
    <3>2. resv[call[d].val] = call[d].pk BY <2>1 DEF Unique, Reserved
    <3>3. QED BY <2>1, <3>1, <3>2
  <2>2. QED BY <2>1 DEF Unique, Reserved
<1>2. Clear' BY <1>S DEF Unique, Clear
<1>3. Trusted'
  <2> SUFFICES ASSUME NEW v \in Values, resv'[v] # None
               PROVE  Sole(resv'[v], v) \/ \E d \in Sessions : call'[d].pk = resv'[v] /\ call'[d].val = v /\ Doubts(call'[d])
    BY <1>S DEF Trusted
  <2>1. resv'[v] = resv[v] OBVIOUS
  <2>2. Sole(resv[v], v) \/ \E d \in Sessions : call[d].pk = resv[v] /\ call[d].val = v /\ Doubts(call[d])
    BY <2>1 DEF Unique, Trusted
  <2>3. QED BY <2>1, <2>2
<1>4. Seen' BY DEF Unique, Seen, Live
<1>5. Indexed' BY DEF Unique, Indexed, Live, Enters
<1>6. Distinct' BY DEF Unique, Distinct, Live
<1>7. QED BY <1>1, <1>2, <1>3, <1>4, <1>5, <1>6 DEF Unique

LEMMA StoreMoves ==
    ASSUME IInv, UNCHANGED <<row, rcpt, bucket, seq, births, call, started>>,
           sweep' \in [pc : {"idle", "lua", "clean", "get", "del"}, pk : Pks, rs : Receipt],
           resv' \in [Values -> Pks \cup {None}], FlagTypes', FlagsGrow,
           \A v \in Values :
              \/ resv'[v] = resv[v]
              \/ /\ resv'[v] = None
                 /\ Unbroken' => \A d \in Sessions : ~(Owns(call[d]) /\ call[d].val = v /\ call[d].pk = resv[v]),
           sweep.pc = "clean" => sweep' = sweep,
           Apart' /\ Tidy => /\ SweepCurrent'
                             /\ sweep'.pc # "idle" => \A c \in Sessions : Works(call[c]) => sweep'.pk \notin Keys(call[c])
                             /\ \A v \in Values, p \in Pks : (resv'[v] = p /\ Sweeps(p, v)) => Sweeps(p, v)'
    PROVE  IInv'
<1>1. StoreTypes' BY DEF IInv, Base, TypeOK, StoreTypes
<1>2. Base' BY <1>1, BaseRest DEF IInv
<1>3. Unbroken' => Unique' BY FlagsFacts, UniqueRest DEF IInv
<1>4. ASSUME Apart' PROVE Tidy'
  <2>1. Tidy BY <1>4, FlagsFacts DEF IInv
  <2>2. Exclusive' BY <1>4, <2>1 DEF Tidy, Exclusive
  <2>3. (\A c \in Sessions : Current(call[c]))' BY <2>1 DEF Tidy, Current, Live
  <2>4. Receipts' BY <2>1 DEF Tidy, Receipts
  <2>5. MembersDue' BY <2>1 DEF Tidy, MembersDue, MemberDue, Live
  <2>6. ASSUME NEW v \in Values, NEW p \in Pks, resv'[v] = p PROVE ReservationDue(p, v)'
    <3>1. resv[v] = p BY <2>6, StatementsAssumption
    <3>2. ReservationDue(p, v) BY <2>1, <3>1 DEF Tidy, ReservationsDue
    <3>3. CASE Sweeps(p, v) BY <1>4, <2>1, <2>6, <3>3 DEF ReservationDue, Sweeps
    <3>4. CASE ~Sweeps(p, v) BY <3>2, <3>4 DEF ReservationDue, Sweeps, Live
    <3>5. QED BY <3>3, <3>4
  <2>7. ReservationsDue' BY <2>6 DEF ReservationsDue
  <2>8. QED BY <1>4, <2>1, <2>2, <2>3, <2>4, <2>5, <2>7 DEF Tidy
<1>5. QED BY <1>2, <1>3, <1>4 DEF IInv

LEMMA ReservationLapsesInv == ASSUME IInv, NEW v \in Values, ReservationLapses(v) PROVE IInv'
<1>1. /\ "px" \in Faults /\ fault = {} /\ resv[v] # None /\ (~\E c \in Sessions : Relies(c, resv[v], v))
      /\ resv' = [resv EXCEPT ![v] = None] /\ fault' = {"px"}
      /\ UNCHANGED <<data, call, sweep, started, births, breach, clash, aba>>
  BY DEF ReservationLapses
<1>2. /\ breach \in BOOLEAN /\ clash \in BOOLEAN /\ aba \in BOOLEAN /\ resv \in [Values -> Pks \cup {None}]
      /\ sweep \in [pc : {"idle", "lua", "clean", "get", "del"}, pk : Pks, rs : Receipt]
  BY DEF IInv, Base, TypeOK
<1>3. fault' \in SUBSET Faults /\ fault \subseteq fault' BY <1>1
<1>4. FlagTypes' BY <1>1, <1>2, <1>3, Zenon DEF FlagTypes
<1>5. FlagsGrow BY <1>1, <1>3 DEF FlagsGrow
<1>6. resv' \in [Values -> Pks \cup {None}] /\ resv'[v] = None /\ \A w \in Values : w # v => resv'[w] = resv[w]
  BY <1>1, <1>2
<1>7. \A d \in Sessions : ~(Owns(call[d]) /\ call[d].val = v /\ call[d].pk = resv[v]) BY <1>1 DEF Owns, Relies
<1>8. Tidy => /\ SweepCurrent'
              /\ sweep'.pc # "idle" => \A c \in Sessions : Works(call[c]) => sweep'.pk \notin Keys(call[c])
              /\ \A w \in Values, p \in Pks : (resv'[w] = p /\ Sweeps(p, w)) => Sweeps(p, w)'
  BY <1>1 DEF Tidy, SweepCurrent, Exclusive, Sweeps, data, Live
<1>9. QED BY <1>1, <1>2, <1>4, <1>5, <1>6, <1>7, <1>8, StoreMoves DEF data

LEMMA SweepReadInv == ASSUME IInv, NEW p \in Pks, SweepRead(p) PROVE IInv'
<1>1. /\ sweep.pc = "idle" /\ ~Live(p) /\ sweep' = [pc |-> "lua", pk |-> p, rs |-> rcpt[p]]
      /\ clash' = (clash \/ \E c \in Sessions : WorksOn(c, {p}))
      /\ UNCHANGED <<data, resv, call, started, births, breach, aba, fault>>
  BY DEF SweepRead, SweepTo
<1>2. /\ breach \in BOOLEAN /\ clash \in BOOLEAN /\ aba \in BOOLEAN /\ fault \in SUBSET Faults
      /\ resv \in [Values -> Pks \cup {None}] /\ rcpt[p] \in Receipt
  BY DEF IInv, Base, TypeOK
<1>3. clash' \in BOOLEAN /\ (clash => clash') BY <1>1, <1>2
<1>4. FlagTypes' BY <1>1, <1>2, <1>3, Zenon DEF FlagTypes
<1>5. FlagsGrow BY <1>1, <1>3 DEF FlagsGrow
<1>6. sweep' \in [pc : {"idle", "lua", "clean", "get", "del"}, pk : Pks, rs : Receipt] BY <1>1, <1>2
<1>7. ASSUME Apart' PROVE \A c \in Sessions : Works(call[c]) => p \notin Keys(call[c])
  <2>1. ~clash' BY <1>7 DEF Apart
  <2>2. ~\E c \in Sessions : WorksOn(c, {p}) BY <1>1, <2>1, Zenon
  <2>3. QED BY <2>2 DEF WorksOn, At, Works, Keys
<1>8. SweepCurrent' BY <1>1 DEF SweepCurrent, Live, data
<1>9. \A v, q : ~Sweeps(q, v) BY <1>1 DEF Sweeps
<1>10. QED BY <1>1, <1>2, <1>4, <1>5, <1>6, <1>7, <1>8, <1>9, StoreMoves DEF data

LEMMA NoSweepFacts == NoSweep \in [pc : {"idle", "lua", "clean", "get", "del"}, pk : Pks, rs : Receipt] /\ NoSweep.pc = "idle"
BY NoneTypes DEF NoSweep

LEMMA SweepGetInv == ASSUME IInv, SweepGet PROVE IInv'
<1>1. sweep.pc = "get" /\ UNCHANGED <<data, resv, call, started, hist>> BY DEF SweepGet
<1>2. /\ sweep \in [pc : {"idle", "lua", "clean", "get", "del"}, pk : Pks, rs : Receipt] /\ seq \in 0 .. MaxPk
      /\ resv \in [Values -> Pks \cup {None}]
  BY DEF IInv, Base, TypeOK
<1>3. FlagTypes' /\ FlagsGrow BY <1>1, Still DEF data
<1>4. CASE resv[sweep.rs.val] = sweep.pk
  <2>1. sweep' = [pc |-> "del", pk |-> sweep.pk, rs |-> sweep.rs] BY <1>4 DEF SweepGet, SweepTo
  <2>2. sweep' \in [pc : {"idle", "lua", "clean", "get", "del"}, pk : Pks, rs : Receipt] BY <1>2, <2>1
  <2>3. sweep'.pc = "del" /\ sweep'.pk = sweep.pk /\ sweep'.rs = sweep.rs BY <2>1
  <2>4. Tidy => \A c \in Sessions : Works(call[c]) => sweep'.pk \notin Keys(call[c]) BY <1>1, <2>3 DEF Tidy, Exclusive
  <2>5. SweepCurrent' BY <2>3 DEF SweepCurrent
  <2>6. \A v, p : Sweeps(p, v) => Sweeps(p, v)' BY <2>3 DEF Sweeps
  <2>7. QED BY <1>1, <1>2, <1>3, <2>2, <2>4, <2>5, <2>6, StoreMoves DEF data, hist
<1>5. CASE resv[sweep.rs.val] # sweep.pk
  <2>1. sweep' = NoSweep BY <1>5 DEF SweepGet
  <2>2. SweepCurrent' BY <2>1, NoSweepFacts DEF SweepCurrent
  <2>3. \A v \in Values, p \in Pks : resv'[v] = p => ~Sweeps(p, v) BY <1>1, <1>5 DEF Sweeps
  <2>4. QED BY <1>1, <1>2, <1>3, <2>1, <2>2, <2>3, NoSweepFacts, StoreMoves DEF data, hist
<1>6. QED BY <1>4, <1>5

LEMMA SweepDelInv == ASSUME IInv, SweepDel PROVE IInv'
<1>1. sweep.pc = "del" /\ Del(sweep.rs.val) /\ sweep' = NoSweep /\ UNCHANGED <<data, call, started>> BY DEF SweepDel
<1>2. resv \in [Values -> Pks \cup {None}] /\ sweep.rs.val \in Values \cup {None} /\ breach \in BOOLEAN
  BY DEF IInv, Base, TypeOK, Receipt
<1>3. /\ BreachGrows /\ resv' \in [Values -> Pks \cup {None}]
      /\ sweep.rs.val \in Values => resv'[sweep.rs.val] = None
      /\ \A w \in Values : w # sweep.rs.val => resv'[w] = resv[w]
      /\ Unbroken' /\ sweep.rs.val \in Values =>
            \A d \in Sessions : ~(Owns(call[d]) /\ call[d].val = sweep.rs.val /\ call[d].pk = resv[sweep.rs.val])
  <2>1. CASE sweep.rs.val \in Values BY <1>1, <2>1, DelFacts
  <2>2. CASE sweep.rs.val = None
    <3>1. sweep.rs.val \notin Values BY <2>2, StatementsAssumption
    <3>2. resv' = [resv EXCEPT ![sweep.rs.val] = None] BY <1>1 DEF Del
    <3>3. BreachGrows BY <1>1, <1>2 DEF Del, BreachGrows
    <3>4. QED BY <1>2, <3>1, <3>2, <3>3
  <2>3. QED BY <1>2, <2>1, <2>2
<1>4. FlagTypes' /\ FlagsGrow BY <1>1, <1>3, BreachFacts
<1>5. SweepCurrent' BY <1>1, NoSweepFacts DEF SweepCurrent
<1>6. \A v \in Values, p \in Pks : resv'[v] = p => ~Sweeps(p, v) BY <1>3, StatementsAssumption DEF Sweeps
<1>7. QED BY <1>1, <1>3, <1>4, <1>5, <1>6, NoSweepFacts, StoreMoves DEF data, BreachGrows

\* SWEEP_LUA removes the receipt that was read: the sweeper holds it from here on.
LEMMA SweepLuaInv == ASSUME IInv, SweepLua PROVE IInv'
<1>1. sweep.pc = "lua" /\ UNCHANGED <<row, bucket, seq, resv, call, started, hist>> BY DEF SweepLua
<1>2. /\ sweep \in [pc : {"idle", "lua", "clean", "get", "del"}, pk : Pks, rs : Receipt]
      /\ rcpt \in [Pks -> Receipt] /\ resv \in [Values -> Pks \cup {None}] /\ bucket \in SUBSET (Values \X Pks \X Nat)
  BY DEF IInv, Base, TypeOK
<1>3. FlagTypes' /\ FlagsGrow BY <1>1, Still
<1>4. CASE Live(sweep.pk)
  <2>1. sweep' = NoSweep /\ rcpt' = rcpt BY <1>4 DEF SweepLua
  <2>2. SweepCurrent' BY <2>1, NoSweepFacts DEF SweepCurrent
  <2>3. \A v, p : ~Sweeps(p, v) BY <1>1 DEF Sweeps
  <2>4. QED BY <1>1, <1>2, <1>3, <2>1, <2>2, <2>3, NoSweepFacts, StoreMoves DEF hist
<1>5. CASE ~Live(sweep.pk)
  <2>1. PICK p \in Pks : p = sweep.pk BY <1>2
  <2>2. PICK r \in Receipt : r = sweep.rs BY <1>2
  <2>3. sweep' = [pc |-> "clean", pk |-> p, rs |-> r] /\ rcpt' = [rcpt EXCEPT ![p] = NoRcpt]
    BY <1>5, <2>1, <2>2 DEF SweepLua, SweepTo
  <2>4. sweep'.pc = "clean" /\ sweep'.pk = p /\ sweep'.rs = r BY <2>3
  <2>5. rcpt' \in [Pks -> Receipt] /\ \A q \in Pks : q # p => rcpt'[q] = rcpt[q] BY <1>2, <2>3, NoneTypes
  <2>6. sweep' \in [pc : {"idle", "lua", "clean", "get", "del"}, pk : Pks, rs : Receipt] BY <2>3
  <2>7. StoreTypes' BY <1>1, <1>3, <2>5, <2>6 DEF IInv, Base, TypeOK, StoreTypes, hist
  <2>8. Base' BY <1>1, <2>7, BaseRest DEF IInv, hist
  <2>9. Unbroken' => Unique' BY <1>1, <1>3, FlagsFacts, UniqueRest DEF IInv
  <2>10. ASSUME Apart' PROVE Tidy'
    <3>0. Tidy BY <1>3, <2>10, FlagsFacts DEF IInv
    <3>1. r = rcpt[p] BY <1>1, <2>1, <2>2, <3>0 DEF Tidy, SweepCurrent
    <3>2. \A c \in Sessions : Works(call[c]) => p \notin Keys(call[c]) BY <1>1, <2>1, <3>0 DEF Tidy, Exclusive
    <3>3. Exclusive' BY <1>1, <2>4, <3>0, <3>2 DEF Tidy, Exclusive
    <3>4. ASSUME NEW c \in Sessions PROVE Current(call[c])'
      <4>1. Current(call[c]) BY <3>0 DEF Tidy
      <4>2. call[c].pk \in Pks /\ call[c].pk # 0 BY TypeFacts DEF IInv, Base, Pks
      <4>3. CASE Works(call[c])
        <5>1. call[c].pk # p BY <3>2, <4>2, <4>3 DEF Keys
        <5>2. QED BY <1>1, <2>5, <4>1, <4>2, <5>1 DEF Current, Live
      <4>4. CASE ~Works(call[c]) BY <1>1, <4>4 DEF Current, Works, Reserving
      <4>5. QED BY <4>3, <4>4
    <3>5. Receipts'
      <4>1. ~row[p].ttl BY <1>5, <2>1, TypeFacts DEF IInv, Base, RowShape, Live, NoRow
      <4>2. QED BY <1>1, <2>5, <3>0, <4>1 DEF Tidy, Receipts
    <3>6. SweepCurrent' BY <2>4 DEF SweepCurrent
    <3>7. ASSUME NEW m \in bucket PROVE MemberDue(m)'
      <4>1. MemberDue(m) BY <3>0 DEF Tidy, MembersDue
      <4>2. m \in Values \X Pks \X Nat /\ m[1] # None /\ m[2] \in Pks /\ m = <<m[1], m[2], m[3]>>
        BY <1>2, StatementsAssumption
      <4>3. CASE m[2] = p /\ m[1] = rcpt[p].val /\ m[3] = rcpt[p].iv
        <5>1. m \in Member(p, r) BY <3>1, <4>2, <4>3 DEF Member
        <5>2. QED BY <2>4, <5>1 DEF MemberDue
      <4>4. CASE ~(m[2] = p /\ m[1] = rcpt[p].val /\ m[3] = rcpt[p].iv)
        <5>1. \/ Live(m[2]) /\ m[1] = row[m[2]].val /\ m[3] = row[m[2]].iv
              \/ ~Live(m[2]) /\ m[1] = rcpt[m[2]].val /\ m[3] = rcpt[m[2]].iv /\ m[2] # p
              \/ \E c \in Sessions : Removes(call[c], m)
          BY <1>1, <4>1, <4>4 DEF MemberDue
        <5>2. QED BY <1>1, <2>5, <4>2, <5>1 DEF MemberDue, Live
      <4>5. QED BY <4>3, <4>4
    <3>8. ASSUME NEW v \in Values, NEW q \in Pks, resv'[v] = q PROVE ReservationDue(q, v)'
      <4>1. ReservationDue(q, v) BY <1>1, <3>0, <3>8 DEF Tidy, ReservationsDue
      <4>2. CASE q = p /\ rcpt[p].val = v BY <2>4, <3>1, <4>2 DEF ReservationDue
      <4>3. CASE ~(q = p /\ rcpt[p].val = v) BY <1>1, <2>5, <4>1, <4>3 DEF ReservationDue, Live
      <4>4. QED BY <4>2, <4>3
    <3>9. QED BY <1>1, <3>3, <3>4, <3>5, <3>6, <3>7, <3>8 DEF Tidy, MembersDue, ReservationsDue
  <2>11. QED BY <2>8, <2>9, <2>10 DEF IInv
<1>6. QED BY <1>4, <1>5

(***************************************************************************)
(* Index pipelines.                                                        *)
(***************************************************************************)
\* A pipeline that is not broken spares the member of a live row.
LEMMA ZRemFacts ==
    ASSUME IInv, NEW ms, NEW add, ZRem(ms, add), UNCHANGED <<row, rcpt, resv, seq, started>>,
           add \in SUBSET (Values \X Pks \X Nat)
    PROVE  /\ bucket' = (bucket \ ms) \cup add /\ bucket' \in SUBSET (Values \X Pks \X Nat)
           /\ FlagTypes' /\ FlagsGrow
           /\ Unbroken' => \A p \in Pks :
                 (Live(p) /\ <<row[p].val, p, row[p].iv>> \in bucket) => <<row[p].val, p, row[p].iv>> \in bucket'
<1>1. /\ bucket' = (bucket \ ms) \cup add
      /\ aba' = (aba \/ \E x \in ms \ add : Live(x[2]) /\ row[x[2]].val = x[1] /\ row[x[2]].iv = x[3])
      /\ UNCHANGED <<births, breach, clash, fault>>
  BY DEF ZRem
<1>2. /\ breach \in BOOLEAN /\ clash \in BOOLEAN /\ aba \in BOOLEAN /\ fault \in SUBSET Faults
      /\ bucket \in SUBSET (Values \X Pks \X Nat)
  BY DEF IInv, Base, TypeOK
<1>3. aba' \in BOOLEAN /\ (aba => aba') BY <1>1, <1>2
<1>4. FlagTypes' BY <1>1, <1>2, <1>3, Zenon DEF FlagTypes
<1>5. FlagsGrow BY <1>1, <1>3 DEF FlagsGrow
<1>6. ASSUME Unbroken', NEW p \in Pks, Live(p), <<row[p].val, p, row[p].iv>> \in bucket
      PROVE  <<row[p].val, p, row[p].iv>> \in bucket'
  <2>1. ~aba' BY <1>6 DEF Unbroken
  <2>2. ~\E x \in ms \ add : Live(x[2]) /\ row[x[2]].val = x[1] /\ row[x[2]].iv = x[3] BY <1>1, <2>1, Zenon
  <2>3. PICK m : m = <<row[p].val, p, row[p].iv>> OBVIOUS
  <2>4. m[1] = row[p].val /\ m[2] = p /\ m[3] = row[p].iv BY <2>3
  <2>5. m \notin ms \ add BY <1>6, <2>2, <2>4
  <2>6. QED BY <1>1, <1>6, <2>3, <2>5
<1>7. bucket' \in SUBSET (Values \X Pks \X Nat) BY <1>1, <1>2
<1>8. QED BY <1>1, <1>4, <1>5, <1>6, <1>7

LEMMA SweepCleanInv == ASSUME IInv, SweepClean PROVE IInv'
<1>1. /\ sweep.pc = "clean" /\ ZRem(Member(sweep.pk, sweep.rs), {})
      /\ sweep' = [pc |-> "get", pk |-> sweep.pk, rs |-> sweep.rs]
      /\ UNCHANGED <<row, rcpt, seq, resv, call, started>> /\ UNCHANGED births
  BY DEF SweepClean, SweepTo, ZRem
<1>2. sweep'.pc = "get" /\ sweep'.pk = sweep.pk /\ sweep'.rs = sweep.rs BY <1>1
<1>3. /\ bucket' = bucket \ Member(sweep.pk, sweep.rs) /\ bucket' \in SUBSET (Values \X Pks \X Nat)
      /\ FlagTypes' /\ FlagsGrow
      /\ Unbroken' => \A p \in Pks :
            (Live(p) /\ <<row[p].val, p, row[p].iv>> \in bucket) => <<row[p].val, p, row[p].iv>> \in bucket'
  BY <1>1, ZRemFacts
<1>4. sweep' \in [pc : {"idle", "lua", "clean", "get", "del"}, pk : Pks, rs : Receipt] BY <1>1 DEF IInv, Base, TypeOK
<1>5. StoreTypes' BY <1>1, <1>3, <1>4 DEF IInv, Base, TypeOK, StoreTypes
<1>6. Base' BY <1>1, <1>5, BaseRest DEF IInv
<1>7. Unbroken' => Unique' BY <1>1, <1>3, FlagsFacts, UniqueRest DEF IInv
<1>8. ASSUME Apart' PROVE Tidy'
  <2>0. Tidy BY <1>3, <1>8, FlagsFacts DEF IInv
  <2>1. Exclusive' BY <1>1, <1>2, <2>0 DEF Tidy, Exclusive
  <2>2. (\A c \in Sessions : Current(call[c]))' BY <1>1, <2>0 DEF Tidy, Current, Live
  <2>3. Receipts' BY <1>1, <2>0 DEF Tidy, Receipts
  <2>4. SweepCurrent' BY <1>2 DEF SweepCurrent
  <2>5. ASSUME NEW m \in bucket' PROVE MemberDue(m)'
    <3>1. MemberDue(m) /\ m \notin Member(sweep.pk, sweep.rs) BY <1>3, <2>0, <2>5 DEF Tidy, MembersDue
    <3>2. QED BY <1>1, <3>1 DEF MemberDue, Live
  <2>6. ASSUME NEW v \in Values, NEW p \in Pks, resv'[v] = p PROVE ReservationDue(p, v)'
    <3>1. ReservationDue(p, v) BY <1>1, <2>0, <2>6 DEF Tidy, ReservationsDue
    <3>2. QED BY <1>1, <1>2, <3>1 DEF ReservationDue, Live
  <2>7. QED BY <2>1, <2>2, <2>3, <2>4, <2>5, <2>6 DEF Tidy, MembersDue, ReservationsDue
<1>9. QED BY <1>6, <1>7, <1>8 DEF IInv

\* The pipeline of a statement, which ends with the value to release.
LEMMA PipelineInv ==
    ASSUME IInv, NEW c \in Sessions, NEW y, Retired(call[c], y), Set(c, y), call[c].pc \in {"index", "dindex"},
           NEW ms, NEW add, ZRem(ms, add), UNCHANGED <<row, rcpt, resv, seq, sweep, started>>,
           add \in SUBSET (Values \X Pks \X Nat),
           \A m : Removes(call[c], m) => m \in ms,
           \A p \in Pks : Enters(call[c], p) => <<row[p].val, p, row[p].iv>> \in add,
           Tidy => \A m \in add : IF Live(m[2]) THEN m[1] = row[m[2]].val /\ m[3] = row[m[2]].iv
                                  ELSE m[1] = rcpt[m[2]].val /\ m[3] = rcpt[m[2]].iv,
           Tidy => \A v \in Values : Handles(call[c], v) =>
                      \/ y.pk = call[c].pk /\ Handles(y, v)
                      \/ IF Live(call[c].pk) THEN row[call[c].pk].val = v ELSE rcpt[call[c].pk].val = v
    PROVE  IInv'
<1> DEFINE x == call[c]
<1>T. call \in [Sessions -> Locals] /\ Local(x) BY LocalFacts DEF IInv, Base, TypeOK
<1>1. /\ bucket' = (bucket \ ms) \cup add /\ bucket' \in SUBSET (Values \X Pks \X Nat)
      /\ FlagTypes' /\ FlagsGrow /\ UNCHANGED births
      /\ Unbroken' => \A p \in Pks :
            (Live(p) /\ <<row[p].val, p, row[p].iv>> \in bucket) => <<row[p].val, p, row[p].iv>> \in bucket'
  BY ZRemFacts DEF ZRem
<1>2. Local(y) /\ SnapOk(y) /\ BornOk(y) BY RetiredOk DEF IInv
<1>3. StoreTypes' BY <1>1 DEF IInv, Base, TypeOK, StoreTypes
<1>4. Base' BY <1>1, <1>2, <1>3, BaseKept DEF IInv, Set
<1>5. call'[c] = y /\ \A d \in Sessions : d # c => call'[d] = call[d] BY <1>T DEF Set
<1>6. ASSUME Unbroken' PROVE Unique'
  <2>0. Unique BY <1>1, <1>6, FlagsFacts DEF IInv
  <2>S. \A p, v : Sole(p, v)' <=> Sole(p, v) BY DEF Sole, Live
  <2>1. Reserved' BY <1>5, <2>0 DEF Unique, Reserved, Retired, Reserving
  <2>2. Clear' BY <1>5, <2>0, <2>S DEF Unique, Clear, Retired
  <2>3. Trusted'
    <3>1. ~Doubts(x) BY <1>T, PcFacts
    <3> SUFFICES ASSUME NEW v \in Values, resv[v] # None
                 PROVE  Sole(resv[v], v) \/ \E d \in Sessions : call'[d].pk = resv[v] /\ call'[d].val = v /\ Doubts(call'[d])
      BY <2>S DEF Trusted
    <3>2. Sole(resv[v], v) \/ \E d \in Sessions : call[d].pk = resv[v] /\ call[d].val = v /\ Doubts(call[d])
      BY <2>0 DEF Unique, Trusted
    <3>3. QED BY <1>5, <3>1, <3>2
  <2>4. Seen' BY <1>5, <2>0 DEF Unique, Seen, Retired, Reserving, Live
  <2>5. Indexed'
    <3>1. ASSUME NEW p \in Pks, Live(p)
          PROVE  <<row[p].val, p, row[p].iv>> \in bucket' \/ \E d \in Sessions : Enters(call'[d], p)
      <4>1. CASE <<row[p].val, p, row[p].iv>> \in bucket BY <1>1, <1>6, <3>1, <4>1
      <4>2. ASSUME NEW d \in Sessions, Enters(call[d], p)
            PROVE  <<row[p].val, p, row[p].iv>> \in bucket' \/ Enters(call'[d], p)
        BY <1>1, <1>5, <4>2
      <4>3. QED BY <2>0, <3>1, <4>1, <4>2 DEF Unique, Indexed
    <3>2. QED BY <3>1 DEF Indexed, Live, Enters
  <2>6. Distinct' BY <2>0 DEF Unique, Distinct, Live
  <2>7. QED BY <2>1, <2>2, <2>3, <2>4, <2>5, <2>6 DEF Unique
<1>7. ASSUME Apart' PROVE Tidy'
  <2>0. Tidy BY <1>1, <1>7, FlagsFacts DEF IInv
  <2>1. Works(x) BY DEF Works
  <2>2. Alone(c, y) BY <2>0, <2>1, StillAlone DEF Tidy, Retired
  <2>3. Exclusive' BY <1>T, <2>0, <2>2, ExclusiveKept DEF Tidy, Set
  <2>4. ASSUME NEW d \in Sessions PROVE Current(call[d])'
    <3>1. Current(y) BY DEF Retired, Current
    <3>2. PICK z : z = call'[d] /\ Current(z) BY <1>5, <2>0, <3>1 DEF Tidy
    <3>3. QED BY <3>2 DEF Current, Live
  <2>5. Receipts' /\ SweepCurrent' BY <2>0 DEF Tidy, Receipts, SweepCurrent, Live
  <2>6. ASSUME NEW m \in bucket' PROVE MemberDue(m)'
    <3>1. CASE m \in add BY <2>0, <3>1 DEF MemberDue, Live
    <3>2. CASE m \notin add
      <4>1. m \in bucket /\ m \notin ms BY <1>1, <2>6, <3>2
      <4>2. MemberDue(m) BY <2>0, <4>1 DEF Tidy, MembersDue
      <4>3. ASSUME NEW d \in Sessions, Removes(call[d], m) PROVE Removes(call'[d], m) BY <1>5, <4>1, <4>3
      <4>4. QED BY <4>2, <4>3 DEF MemberDue, Live
    <3>3. QED BY <3>1, <3>2
  <2>7. ASSUME NEW v \in Values, NEW p \in Pks, resv'[v] = p PROVE ReservationDue(p, v)'
    <3>1. ReservationDue(p, v) BY <2>0, <2>7 DEF Tidy, ReservationsDue
    <3>2. ASSUME NEW d \in Sessions, call[d].pk = p, Handles(call[d], v)
          PROVE  \/ call'[d].pk = p /\ Handles(call'[d], v)
                 \/ IF Live(p) THEN row[p].val = v ELSE rcpt[p].val = v
      BY <1>5, <2>0, <3>2
    <3>3. QED BY <3>1, <3>2 DEF ReservationDue, Live
  <2>8. QED BY <2>3, <2>4, <2>5, <2>6, <2>7 DEF Tidy, MembersDue, ReservationsDue
<1>8. QED BY <1>4, <1>6, <1>7 DEF IInv

LEMMA IndexPipelineInv == ASSUME IInv, NEW c \in Sessions, IndexPipeline(c) PROVE IInv'
<1> DEFINE x == call[c]
           redo == IF x.snap.val # x.val THEN {<<x.val, x.pk, x.snap.ver + 1>>} ELSE {}
<1>1. /\ x.pc = "index" /\ ZRem(Undo(x), redo) /\ Finish(c, "ok", ToRelease(c))
      /\ UNCHANGED <<row, rcpt, resv, seq, sweep, started>>
  BY DEF IndexPipeline, At, Undo
<1>2. Local(x) /\ x \in Locals BY LocalFacts DEF IInv, Local
<1>3. x.val \in Values /\ x.pk \in Pks /\ x.snap \in Row /\ x.snap.ver \in Nat /\ x.rs \in Receipt /\ x.rel = None
  BY <1>1, <1>2 DEF Local, Locals, Shape, Row, Deleting
<1>4. PICK v \in Values \cup {None} : v = ToRelease(c)
  BY <1>3 DEF ToRelease, Other, Row, Receipt
<1>5. PICK y : y = Finished(x, "ok", v) OBVIOUS
<1>6. Set(c, y) BY <1>1, <1>4, <1>5, FinishSets
<1>7. Retired(x, y) /\ (v # None => y.rel = v /\ y.pk = x.pk) BY <1>1, <1>2, <1>5, FinishedFacts DEF Answers
<1>8. redo \in SUBSET (Values \X Pks \X Nat) BY <1>3
<1>9. \A m : Removes(x, m) => m \in Undo(x) BY <1>1 DEF Removes
<1>10. \A p \in Pks : Enters(x, p) => <<row[p].val, p, row[p].iv>> \in redo BY DEF Enters
<1>11. ASSUME Tidy, NEW m \in redo
       PROVE  IF Live(m[2]) THEN m[1] = row[m[2]].val /\ m[3] = row[m[2]].iv
              ELSE m[1] = rcpt[m[2]].val /\ m[3] = rcpt[m[2]].iv
  <2>1. x.snap.val # x.val /\ m[1] = x.val /\ m[2] = x.pk /\ m[3] = x.snap.ver + 1 BY <1>11
  <2>2. Current(x) BY <1>11 DEF Tidy
  <2>3. QED BY <1>1, <2>1, <2>2 DEF Current
<1>12. ASSUME Tidy, NEW w \in Values, Handles(x, w)
       PROVE  \/ y.pk = x.pk /\ Handles(y, w)
              \/ IF Live(x.pk) THEN row[x.pk].val = w ELSE rcpt[x.pk].val = w
  <2>1. w = Displaced(x) /\ w # None BY <1>1, <1>3, <1>12, StatementsAssumption DEF Handles, Reserving
  <2>2. CASE w = x.val
    <3>1. Current(x) BY <1>12 DEF Tidy
    <3>2. QED BY <1>1, <2>2, <3>1 DEF Current
  <2>3. CASE w # x.val
    <3>1. v = w BY <1>4, <2>1, <2>3 DEF ToRelease, Other, Displaced
    <3>2. QED BY <1>7, <2>1, <3>1 DEF Handles
  <2>4. QED BY <2>2, <2>3
<1> HIDE DEF redo
<1>13. QED BY <1>1, <1>6, <1>7, <1>8, <1>9, <1>10, <1>11, <1>12, PipelineInv

LEMMA DeleteIndexInv == ASSUME IInv, NEW c \in Sessions, DeleteIndex(c) PROVE IInv'
<1> DEFINE x == call[c]
<1>1. /\ x.pc = "dindex" /\ ZRem(Member(x.pk, x.snap), {}) /\ Finish(c, "gone", x.snap.val)
      /\ UNCHANGED <<row, rcpt, resv, seq, sweep, started>>
  BY DEF DeleteIndex, At
<1>2. Local(x) /\ x \in Locals BY LocalFacts DEF IInv, Local
<1>3. x.pk \in Pks /\ x.snap \in Row /\ x.rel = None BY <1>1, <1>2 DEF Local, Locals
<1>4. PICK v \in Values \cup {None} : v = x.snap.val BY <1>3 DEF Row
<1>5. PICK y : y = Finished(x, "gone", v) OBVIOUS
<1>6. Set(c, y) BY <1>1, <1>4, <1>5, FinishSets
<1>7. Retired(x, y) /\ (v # None => y.rel = v /\ y.pk = x.pk) BY <1>1, <1>2, <1>5, FinishedFacts DEF Answers
<1>9. \A m : Removes(x, m) => m \in Member(x.pk, x.snap) BY <1>1 DEF Removes
<1>10. \A p \in Pks : ~Enters(x, p) BY <1>1 DEF Enters
<1>12. ASSUME NEW w \in Values, Handles(x, w) PROVE y.pk = x.pk /\ Handles(y, w)
  <2>1. w = v /\ w # None BY <1>1, <1>3, <1>4, <1>12, StatementsAssumption DEF Handles, Reserving
  <2>2. QED BY <1>7, <2>1 DEF Handles
<1>13. QED BY <1>1, <1>6, <1>7, <1>9, <1>10, <1>12, PipelineInv

(***************************************************************************)
(* A row dies: by a DELETE or by its TTL.                                  *)
(***************************************************************************)
Quiet(r) == ~Owns(r) /\ ~Sure(r) /\ ~Doubts(r) /\ r.pc \notin {"check", "index", "alive", "takeover"}

LEMMA DeadRow ==
    ASSUME Base, NEW p \in Pks, row' = [row EXCEPT ![p] = NoRow]
    PROVE  /\ row' \in [Pks -> Row] /\ ~Live(p)' /\ row'[p] = NoRow /\ \A q \in Pks : q # p => row'[q] = row[q]
           /\ UNCHANGED births => RowShape'
<1>1. row \in [Pks -> Row] BY DEF Base, TypeOK
<1>2. row' \in [Pks -> Row] /\ row'[p] = NoRow /\ \A q \in Pks : q # p => row'[q] = row[q] BY <1>1, NoneTypes
<1>3. UNCHANGED births => RowShape' BY <1>2 DEF RowShape, Base, NoRow
<1>4. QED BY <1>2, <1>3 DEF Live, NoRow

\* Fewer rows live, so that every value is as free as before.
LEMMA UniqueDies ==
    ASSUME Base, Unique, NEW p \in Pks, row' = [row EXCEPT ![p] = NoRow], UNCHANGED <<bucket, resv>>,
           \A d \in Sessions : call'[d] = call[d] \/ (Quiet(call[d]) /\ Quiet(call'[d]))
    PROVE  Unique'
<1>1. ~Live(p)' /\ \A q \in Pks : q # p => row'[q] = row[q] BY DeadRow
<1>2. \A q \in Pks : Live(q)' => q # p /\ Live(q) BY <1>1 DEF Live
<1>3. ASSUME NEW q, NEW v, Sole(q, v) PROVE Sole(q, v)' BY <1>1, <1>2, <1>3 DEF Sole
<1>4. Reserved' BY DEF Unique, Reserved, Quiet
<1>5. Clear'
  <2>1. ASSUME NEW d \in Sessions, Sure(call'[d]) PROVE Sole(call[d].pk, call[d].val)'
    <3>1. call'[d] = call[d] BY <2>1 DEF Quiet
    <3>2. PICK q, v : q = call[d].pk /\ v = call[d].val OBVIOUS
    <3>3. Sole(q, v)' BY <1>3, <2>1, <3>1, <3>2 DEF Unique, Clear
    <3>4. QED BY <3>1, <3>2, <3>3 DEF Sole
  <2>2. QED BY <2>1 DEF Clear
<1>6. Trusted'
  <2>1. ASSUME NEW v \in Values, NEW q, q = resv[v], q # None
        PROVE  Sole(q, v)' \/ \E d \in Sessions : call'[d].pk = q /\ call'[d].val = v /\ Doubts(call'[d])
    <3>1. Sole(q, v) \/ \E d \in Sessions : call[d].pk = q /\ call[d].val = v /\ Doubts(call[d])
      BY <2>1 DEF Unique, Trusted
    <3>2. QED BY <1>3, <3>1 DEF Quiet
  <2>2. QED BY <2>1 DEF Trusted, Sole
<1>7. Seen' BY <1>1, <1>2 DEF Unique, Seen, Quiet
<1>8. Indexed'
  <2>1. ASSUME NEW q \in Pks, Live(q)'
        PROVE  <<row'[q].val, q, row'[q].iv>> \in bucket \/ \E d \in Sessions : Enters(call[d], q)'
    <3>1. Live(q) /\ row'[q] = row[q] BY <1>1, <1>2, <2>1
    <3>2. ASSUME NEW d \in Sessions, Enters(call[d], q) PROVE Enters(call[d], q)' BY <3>1, <3>2 DEF Enters, Quiet
    <3>3. QED BY <3>1, <3>2 DEF Unique, Indexed
  <2>2. QED BY <2>1 DEF Indexed
<1>9. Distinct' BY <1>1, <1>2 DEF Unique, Distinct
<1>10. QED BY <1>4, <1>5, <1>6, <1>7, <1>8, <1>9 DEF Unique

\* No snapshot is one of a row that lives.
LEMMA DiesOk ==
    ASSUME Base, NEW p \in Pks, row' = [row EXCEPT ![p] = NoRow], UNCHANGED births,
           NEW r \in Locals, SnapOk(r), BornOk(r)
    PROVE  SnapOk(r)' /\ BornOk(r)'
<1>1. ~Live(p)' /\ \A q \in Pks : q # p => row'[q] = row[q] BY DeadRow
<1>2. \A q \in Pks : Live(q)' => q # p /\ Live(q) BY <1>1 DEF Live
<1>3. r.pk \in Pks /\ Aim(r) \in Pks BY DEF Locals, Aim
<1>4. SnapOk(r)' BY <1>1, <1>2, <1>3 DEF SnapOk
<1>5. BornOk(r)' BY <1>2, <1>3 DEF BornOk, BornAt
<1>6. QED BY <1>4, <1>5

LEMMA ExpireInv == ASSUME IInv, NEW p \in Pks, Expire(p) PROVE IInv'
<1>1. row[p].ttl /\ row' = [row EXCEPT ![p] = NoRow] /\ UNCHANGED <<rcpt, bucket, resv, seq, call, sweep, started, hist>>
  BY DEF Expire
<1>2. UNCHANGED <<births, breach, clash, aba, fault>> BY <1>1 DEF hist
<1>3. row' \in [Pks -> Row] /\ ~Live(p)' /\ row'[p] = NoRow /\ RowShape' /\ \A q \in Pks : q # p => row'[q] = row[q]
  BY <1>1, <1>2, DeadRow DEF IInv
<1>4. Live(p) BY <1>1, TypeFacts DEF IInv, Base, RowShape, Live, NoRow
<1>5. FlagTypes' /\ FlagsGrow BY <1>1, Still
<1>6. StoreTypes' BY <1>1, <1>2, <1>3, <1>5 DEF IInv, Base, TypeOK, StoreTypes
<1>7. Base'
  <2>1. ASSUME NEW d \in Sessions PROVE (Local(call[d]) /\ SnapOk(call[d]) /\ BornOk(call[d]))'
    <3>1. PICK z : z = call[d] OBVIOUS
    <3>2. Local(z) /\ SnapOk(z) /\ BornOk(z) /\ z \in Locals BY <3>1, LocalFacts DEF IInv, Local
    <3>3. SnapOk(z)' /\ BornOk(z)' BY <1>1, <1>2, <3>2, DiesOk DEF IInv
    <3>4. QED BY <1>1, <3>1, <3>2, <3>3
  <2>2. call' \in [Sessions -> Locals] BY <1>1 DEF IInv, Base, TypeOK
  <2>3. QED BY <1>3, <1>6, <2>1, <2>2, BaseFrom
<1>8. Unbroken' => Unique' BY <1>1, <1>5, FlagsFacts, UniqueDies DEF IInv
<1>9. ASSUME Apart' PROVE Tidy'
  <2>0. Tidy BY <1>5, <1>9, FlagsFacts DEF IInv
  <2>1. Exclusive' BY <1>1, <2>0 DEF Tidy, Exclusive
  <2>2. rcpt[p].val = row[p].val /\ rcpt[p].iv = row[p].iv BY <1>1, <2>0 DEF Tidy, Receipts
  <2>3. \A q \in Pks : Live(q)' => q # p /\ Live(q) BY <1>3 DEF Live
  <2>4. ASSUME NEW d \in Sessions PROVE Current(call[d])'
    <3>1. Current(call[d]) /\ call[d].pk \in Pks BY <2>0, TypeFacts DEF Tidy, IInv, Base
    <3>2. CASE call[d].pk = p
      <4>1. call'[d].pk = p /\ call'[d] = call[d] /\ ~Live(call[d].pk)' BY <1>1, <1>3, <3>2 DEF Live
      <4>2. QED BY <1>1, <1>4, <2>2, <3>1, <3>2, <4>1 DEF Current, Live
    <3>3. CASE call[d].pk # p BY <1>1, <1>3, <3>1, <3>3 DEF Current, Live
    <3>4. QED BY <3>2, <3>3
  <2>5. Receipts' BY <1>1, <1>3, <2>0 DEF Tidy, Receipts, NoRow
  <2>6. SweepCurrent'
    <3>1. sweep.pc = "lua" => sweep.pk # p BY <1>4, <2>0 DEF Tidy, SweepCurrent
    <3>2. sweep.pk \in Pks BY DEF IInv, Base, TypeOK
    <3>3. QED BY <1>1, <1>3, <2>0, <3>1, <3>2 DEF Tidy, SweepCurrent, Live
  <2>7. ASSUME NEW m \in bucket PROVE MemberDue(m)'
    <3>1. MemberDue(m) /\ m[2] \in Pks BY <2>0 DEF Tidy, MembersDue, IInv, Base, TypeOK
    <3>2. CASE m[2] = p BY <1>1, <1>3, <1>4, <2>2, <3>1, <3>2 DEF MemberDue
    <3>3. CASE m[2] # p BY <1>1, <1>3, <3>1, <3>3 DEF MemberDue, Live
    <3>4. QED BY <3>2, <3>3
  <2>8. ASSUME NEW v \in Values, NEW q \in Pks, resv'[v] = q PROVE ReservationDue(q, v)'
    <3>1. ReservationDue(q, v) BY <1>1, <2>0, <2>8 DEF Tidy, ReservationsDue
    <3>2. CASE q = p BY <1>1, <1>3, <1>4, <2>2, <3>1, <3>2 DEF ReservationDue
    <3>3. CASE q # p BY <1>1, <1>3, <3>1, <3>3 DEF ReservationDue, Live
    <3>4. QED BY <3>2, <3>3
  <2>9. QED BY <1>1, <2>1, <2>4, <2>5, <2>6, <2>7, <2>8 DEF Tidy, MembersDue, ReservationsDue
<1>10. QED BY <1>7, <1>8, <1>9 DEF IInv

\* Nobody else who is at work has the row.
LEMMA OthersElsewhere ==
    ASSUME Base, Tidy, NEW c \in Sessions, Works(call[c])
    PROVE  /\ \A d \in Sessions : (d # c /\ Works(call[d])) => call[d].pk # call[c].pk
           /\ sweep.pc # "idle" => sweep.pk # call[c].pk
<1>1. \A d \in Sessions : call[d].pk \in Pks /\ call[d].pk # 0 BY TypeFacts DEF Base, Pks
<1>2. QED BY <1>1 DEF Tidy, Exclusive, Keys

\* What is current stays so while its row does.
LEMMA CurrentStays ==
    ASSUME NEW d \in Sessions, NEW p, Current(call[d]), Works(call[d]) => call[d].pk # p, call[d].pk \in Pks,
           UNCHANGED call[d], \A q \in Pks : q # p => row'[q] = row[q] /\ rcpt'[q] = rcpt[q]
    PROVE  Current(call[d])'
<1>1. CASE Works(call[d]) BY <1>1 DEF Current, Live
<1>2. CASE ~Works(call[d]) BY <1>2 DEF Current, Works, Reserving
<1>3. QED BY <1>1, <1>2

LEMMA DeleteLuaInv == ASSUME IInv, NEW c \in Sessions, DeleteLua(c) PROVE IInv'
<1> DEFINE x == call[c]
<1>1. x.pc = "dlua" /\ UNCHANGED <<bucket, resv, seq, sweep, started, births, breach, clash, fault>> BY DEF DeleteLua, At
<1>2. CASE row[x.pk].ver # x.snap.ver
  <2>1. Retry(c, "drow") /\ UNCHANGED <<row, rcpt, aba>> BY <1>2 DEF DeleteLua
  <2>2. UNCHANGED <<data, resv, sweep, started, hist>> BY <1>1, <2>1 DEF data, hist
  <2>3. QED BY <1>1, <2>1, <2>2, RetryInv
<1>3. CASE row[x.pk].ver = x.snap.ver
  <2>0. x \in Locals /\ Local(x) BY LocalFacts DEF IInv, Local
  <2>1. PICK p \in Pks : p = x.pk BY <2>0 DEF Locals
  <2>2. /\ row' = [row EXCEPT ![p] = NoRow] /\ rcpt' = [rcpt EXCEPT ![p] = NoRcpt]
        /\ aba' = (aba \/ births[p] # x.seen)
        /\ Set(c, [x EXCEPT !.pc = "dindex", !.seen = 0, !.tries = 0])
    BY <1>3, <2>1 DEF DeleteLua
  <2>3. PICK y : y = [x EXCEPT !.pc = "dindex", !.seen = 0, !.tries = 0] OBVIOUS
  <2>4. Set(c, y) BY <2>2, <2>3
  <2>5. y \in Locals
    <3>1. 0 \in 0 .. StaleRetries - 1 BY StatementsAssumption
    <3>2. QED BY <2>0, <2>3, <3>1 DEF Locals, Pcs
  <2>6. y.pc = "dindex" /\ SameCall(x, y) /\ y.snap = x.snap /\ y.acq = x.acq BY <2>0, <2>3 DEF Locals, SameCall
  <2>7. Local(y) BY <1>1, <2>0, <2>5, <2>6 DEF Local, Shape, SameCall, Deleting, Reserving
  <2>8. row' \in [Pks -> Row] /\ ~Live(p)' /\ row'[p] = NoRow /\ RowShape' /\ \A q \in Pks : q # p => row'[q] = row[q]
    BY <1>1, <2>2, DeadRow DEF IInv
  <2>9. call \in [Sessions -> Locals] /\ rcpt \in [Pks -> Receipt] BY DEF IInv, Base, TypeOK
  <2>10. /\ call' \in [Sessions -> Locals] /\ call'[c] = y /\ \A d \in Sessions : d # c => call'[d] = call[d]
    BY <2>4, <2>5, <2>9 DEF Set
  <2>11. rcpt' \in [Pks -> Receipt] /\ rcpt'[p] = NoRcpt /\ \A q \in Pks : q # p => rcpt'[q] = rcpt[q]
    BY <2>2, <2>9, NoneTypes
  <2>12. FlagTypes' /\ FlagsGrow
    <3>1. breach \in BOOLEAN /\ clash \in BOOLEAN /\ aba \in BOOLEAN /\ fault \in SUBSET Faults BY DEF IInv, Base, TypeOK
    <3>2. aba' \in BOOLEAN /\ (aba => aba') BY <2>2, <3>1
    <3>3. FlagTypes' BY <1>1, <3>1, <3>2, Zenon DEF FlagTypes
    <3>4. FlagsGrow BY <1>1, <3>2 DEF FlagsGrow
    <3>5. QED BY <3>3, <3>4
  <2>13. StoreTypes' BY <1>1, <2>8, <2>11, <2>12 DEF IInv, Base, TypeOK, StoreTypes
  <2>14. Base'
    <3>1. ASSUME NEW d \in Sessions PROVE (Local(call[d]) /\ SnapOk(call[d]) /\ BornOk(call[d]))'
      <4>1. SnapOk(y) /\ BornOk(y)
        <5>1. BornOk(x) BY LocalFacts DEF IInv
        <5>2. QED BY <2>6, <5>1 DEF SnapOk, BornOk, Aim, SameCall, Reserving
      <4>2. PICK z : z = call'[d] OBVIOUS
      <4>3. Local(z) /\ SnapOk(z) /\ BornOk(z) BY <2>7, <2>10, <4>1, <4>2, LocalFacts DEF IInv
      <4>4. z \in Locals BY <4>3 DEF Local
      <4>5. SnapOk(z)' /\ BornOk(z)' BY <1>1, <2>2, <4>3, <4>4, DiesOk DEF IInv
      <4>6. QED BY <4>2, <4>3, <4>5
    <3>2. QED BY <2>8, <2>10, <2>13, <3>1, BaseFrom
  <2>15. Unbroken' => Unique'
    <3>1. Quiet(x) BY <1>1, <2>0, PcFacts DEF Quiet, Owns, Sure
    <3>2. Quiet(y) BY <2>6, <2>7, PcFacts DEF Quiet, Owns, Sure
    <3>3. \A d \in Sessions : call'[d] = call[d] \/ (Quiet(call[d]) /\ Quiet(call'[d])) BY <2>10, <3>1, <3>2
    <3>4. QED BY <1>1, <2>2, <2>12, <3>3, FlagsFacts, UniqueDies DEF IInv
  <2>16. ASSUME Apart' PROVE Tidy'
    <3>0. Tidy BY <2>12, <2>16, FlagsFacts DEF IInv
    <3>1. Works(x) BY <1>1 DEF Works
    <3>2. Exclusive' BY <1>1, <2>4, <2>6, <2>9, <3>0, <3>1, SameAlone, ExclusiveKept DEF Tidy, Set
    <3>3. /\ \A d \in Sessions : (d # c /\ Works(call[d])) => call[d].pk # p
          /\ sweep.pc # "idle" => sweep.pk # p
      BY <2>1, <3>0, <3>1, OthersElsewhere DEF IInv
    <3>4. Live(p) /\ row[p] = x.snap
      <4>1. x.snap.ver > 0 BY <1>1, <2>0 DEF Local, Shape
      <4>2. Current(x) BY <3>0 DEF Tidy
      <4>3. QED BY <1>1, <1>3, <2>1, <4>1, <4>2 DEF Live, Current
    <3>5. ASSUME NEW d \in Sessions PROVE Current(call[d])'
      <4>1. CASE d = c BY <2>6, <2>10, <4>1 DEF Current, Reserving
      <4>2. CASE d # c
        <5>1. Current(call[d]) /\ call[d].pk \in Pks BY <3>0, TypeFacts DEF Tidy, IInv, Base
        <5>2. QED BY <2>8, <2>10, <2>11, <3>3, <4>2, <5>1, CurrentStays
      <4>3. QED BY <4>1, <4>2
    <3>6. Receipts' BY <2>8, <2>11, <3>0 DEF Tidy, Receipts, NoRow
    <3>7. SweepCurrent'
      <4>1. sweep.pk \in Pks BY DEF IInv, Base, TypeOK
      <4>2. QED BY <1>1, <2>8, <2>11, <3>0, <3>3, <4>1 DEF Tidy, SweepCurrent, Live
    <3>8. ASSUME NEW m \in bucket PROVE MemberDue(m)'
      <4>1. MemberDue(m) BY <3>0 DEF Tidy, MembersDue
      <4>2. m[2] \in Pks /\ m[1] # None /\ m = <<m[1], m[2], m[3]>> BY StatementsAssumption DEF IInv, Base, TypeOK
      <4>3. ASSUME NEW d \in Sessions, Removes(call[d], m) PROVE Removes(call'[d], m)
        BY <1>1, <2>10, <4>3 DEF Removes
      <4>4. CASE m[2] = p /\ m[1] = row[p].val /\ m[3] = row[p].iv
        <5>1. m \in Member(y.pk, y.snap) BY <2>1, <2>6, <3>4, <4>2, <4>4 DEF Member, SameCall
        <5>2. QED BY <2>6, <2>10, <5>1 DEF MemberDue, Removes
      <4>5. CASE ~(m[2] = p /\ m[1] = row[p].val /\ m[3] = row[p].iv)
        BY <1>1, <2>8, <2>11, <3>4, <4>1, <4>2, <4>3, <4>5 DEF MemberDue, Live
      <4>6. QED BY <4>4, <4>5
    <3>9. ASSUME NEW v \in Values, NEW q \in Pks, resv'[v] = q PROVE ReservationDue(q, v)'
      <4>1. ReservationDue(q, v) BY <1>1, <3>0, <3>9 DEF Tidy, ReservationsDue
      <4>2. ASSUME NEW d \in Sessions, call[d].pk = q, Handles(call[d], v) PROVE call'[d].pk = q /\ Handles(call'[d], v)
        BY <1>1, <2>0, <2>10, <4>2, PcFacts DEF Reserving
      <4>3. CASE q = p /\ row[p].val = v
        <5>1. call'[c].pk = q /\ Handles(call'[c], v) BY <2>1, <2>6, <2>10, <3>4, <4>3 DEF Handles, SameCall
        <5>2. QED BY <5>1 DEF ReservationDue
      <4>4. CASE ~(q = p /\ row[p].val = v) BY <1>1, <2>8, <2>11, <3>4, <4>1, <4>2, <4>4 DEF ReservationDue, Live
      <4>5. QED BY <4>3, <4>4
    <3>10. QED BY <1>1, <3>2, <3>5, <3>6, <3>7, <3>8, <3>9 DEF Tidy, MembersDue, ReservationsDue
  <2>17. QED BY <2>14, <2>15, <2>16 DEF IInv
<1>4. QED BY <1>2, <1>3

(***************************************************************************)
(* The row Lua commits.                                                    *)
(***************************************************************************)
\* The locals that a commit keeps.
SameRow(x, y) == /\ y.op = x.op /\ y.pk = x.pk /\ y.next = x.next /\ y.val = x.val /\ y.snap = x.snap /\ y.rs = x.rs

\* The commit of x at p, which the row Lua finds at the version of x's snapshot: the
\* parts of RowLua that the proofs use, with y the locals after it and n the new row.
Commits(c, p, y, n) ==
    LET x == call[c]
    IN  /\ x.pc = "lua" /\ x.pk = p /\ x.acq /\ x.rel = None /\ x.val \in Values /\ Local(y)
        /\ SameRow(x, y) /\ y.pc = "index" /\ y.born = 0
        /\ row[p].ver = x.snap.ver /\ n \in Row /\ n.ver = row[p].ver + 1 /\ n.val = x.val
        /\ n.iv = IF x.snap.val # x.val THEN x.snap.ver + 1 ELSE row[p].iv
        /\ row' = [row EXCEPT ![p] = n]
        /\ births' = [births EXCEPT ![p] = IF row[p].ver = 0 THEN @ + 1 ELSE @]
        /\ Set(c, y)
        /\ UNCHANGED <<bucket, resv, sweep>>

LEMMA CommitFacts ==
    ASSUME Base, NEW c \in Sessions, NEW p \in Pks, NEW y, NEW n, Commits(c, p, y, n)
    PROVE  /\ row' \in [Pks -> Row] /\ row'[p] = n /\ (\A q \in Pks : q # p => row'[q] = row[q])
           /\ Live(p)' /\ (\A q \in Pks : q # p => (Live(q)' <=> Live(q)))
           /\ births' \in [Pks -> Nat] /\ (\A q \in Pks : q # p => births'[q] = births[q])
           /\ births'[p] = (IF row[p].ver = 0 THEN births[p] + 1 ELSE births[p])
           /\ call' \in [Sessions -> Locals] /\ call'[c] = y /\ (\A d \in Sessions : d # c => call'[d] = call[d])
<1>1. row \in [Pks -> Row] /\ births \in [Pks -> Nat] /\ call \in [Sessions -> Locals]
  BY TypeFacts DEF Base
<1>2. row[p].ver \in Nat /\ births[p] \in Nat BY <1>1, TypeFacts DEF Base
<1>3. row' \in [Pks -> Row] /\ row'[p] = n /\ (\A q \in Pks : q # p => row'[q] = row[q]) BY <1>1 DEF Commits
<1>4. Live(p)' /\ (\A q \in Pks : q # p => (Live(q)' <=> Live(q))) BY <1>2, <1>3 DEF Commits, Live
<1>5. PICK b \in Nat : b = IF row[p].ver = 0 THEN births[p] + 1 ELSE births[p] BY <1>2
<1>6. births' = [births EXCEPT ![p] = b] BY <1>1, <1>5 DEF Commits
<1>7. births' \in [Pks -> Nat] /\ births'[p] = b /\ (\A q \in Pks : q # p => births'[q] = births[q]) BY <1>1, <1>6
<1>8. call' = [call EXCEPT ![c] = y] /\ y \in Locals BY DEF Commits, Set, Local
<1>9. call' \in [Sessions -> Locals] /\ call'[c] = y /\ (\A d \in Sessions : d # c => call'[d] = call[d]) BY <1>1, <1>8
<1>10. QED BY <1>1, <1>3, <1>4, <1>5, <1>7, <1>9

\* A snapshot that others have taken of the row is an older version now.
LEMMA CommitBase ==
    ASSUME Base, NEW c \in Sessions, NEW p \in Pks, NEW y, NEW n, Commits(c, p, y, n), StoreTypes'
    PROVE  Base'
<1>1. /\ row'[p] = n /\ (\A q \in Pks : q # p => row'[q] = row[q])
      /\ Live(p)' /\ (\A q \in Pks : q # p => (Live(q)' <=> Live(q)))
      /\ (\A q \in Pks : q # p => births'[q] = births[q])
      /\ births'[p] = (IF row[p].ver = 0 THEN births[p] + 1 ELSE births[p])
      /\ call' \in [Sessions -> Locals] /\ call'[c] = y /\ (\A d \in Sessions : d # c => call'[d] = call[d])
  BY CommitFacts
<1>2. row[p].ver \in Nat /\ births[p] \in Nat /\ n.ver = row[p].ver + 1 /\ n.val \in Values
  BY TypeFacts DEF Base, Commits
<1>3. RowShape' BY <1>1, <1>2 DEF RowShape, Base
<1>4. ASSUME NEW z \in Locals, SnapOk(z), BornOk(z) PROVE SnapOk(z)' /\ BornOk(z)'
  <2>1. z.pk \in Pks /\ Aim(z) \in Pks /\ z.seen \in Nat /\ z.born \in Nat /\ z.snap.ver \in Nat BY DEF Locals, Row, Aim
  <2>2. row[p].ver # 0 => births'[p] = births[p] /\ Live(p) /\ row'[p].ver = row[p].ver + 1 BY <1>1, <1>2 DEF Live
  <2>3. SnapOk(z)'
    <3>1. CASE z.pk # p BY <1>1, <1>4, <2>1, <3>1 DEF SnapOk
    <3>2. CASE z.pk = p /\ row[p].ver = 0 BY <1>1, <1>2, <1>4, <2>1, <3>2 DEF SnapOk
    <3>3. CASE z.pk = p /\ row[p].ver # 0 BY <1>2, <1>4, <2>1, <2>2, <3>3 DEF SnapOk
    <3>4. QED BY <3>1, <3>2, <3>3
  <2>4. BornOk(z)'
    <3>1. PICK q \in Pks : q = Aim(z) BY <2>1
    <3>2. CASE q # p BY <1>1, <1>4, <3>1, <3>2 DEF BornOk, BornAt
    <3>3. CASE q = p BY <1>1, <1>2, <1>4, <2>1, <2>2, <3>1, <3>3 DEF BornOk, BornAt
    <3>4. QED BY <3>2, <3>3
  <2>5. QED BY <2>3, <2>4
<1>5. ASSUME NEW d \in Sessions PROVE (Local(call[d]) /\ SnapOk(call[d]) /\ BornOk(call[d]))'
  <2>1. Local(y) /\ SnapOk(y) /\ BornOk(y)
    <3>1. Local(y) /\ y \in Locals /\ SameBorn(call[c], y) BY DEF Commits, Local, SameBorn
    <3>2. SnapOk(y) BY DEF Commits, SnapOk, Reserving
    <3>3. QED BY <3>1, <3>2, LocalFacts, BornFacts
  <2>2. PICK z : z = call'[d] OBVIOUS
  <2>3. Local(z) /\ SnapOk(z) /\ BornOk(z) BY <1>1, <2>1, <2>2, LocalFacts
  <2>4. SnapOk(z)' /\ BornOk(z)' BY <1>4, <2>3 DEF Local
  <2>5. QED BY <2>2, <2>3, <2>4
<1>6. QED BY <1>1, <1>3, <1>5, BaseFrom

\* The value was found free and is reserved: nobody else relies on it.
LEMMA CommitUnique ==
    ASSUME Base, Unique, NEW c \in Sessions, NEW p \in Pks, NEW y, NEW n, Commits(c, p, y, n), call[c].snap = row[p]
    PROVE  Unique'
<1> DEFINE x == call[c]
<1>1. /\ row'[p] = n /\ (\A q \in Pks : q # p => row'[q] = row[q])
      /\ Live(p)' /\ (\A q \in Pks : q # p => (Live(q)' <=> Live(q)))
      /\ call'[c] = y /\ (\A d \in Sessions : d # c => call'[d] = call[d])
  BY CommitFacts
<1>2. /\ x.pc = "lua" /\ x.pk = p /\ x.val \in Values /\ y.pc = "index" /\ y.val = x.val /\ y.pk = p /\ y.snap = x.snap
      /\ n.val = x.val /\ n.iv = (IF x.snap.val # x.val THEN x.snap.ver + 1 ELSE row[p].iv)
      /\ UNCHANGED <<bucket, resv>> /\ Local(x) /\ Local(y)
  BY LocalFacts DEF Commits, SameRow
<1>3. Sole(p, x.val) /\ resv[x.val] = p BY <1>2 DEF Unique, Clear, Reserved, Sure, Owns
<1>4. ASSUME NEW q, NEW v, Sole(q, v), v = x.val => q = p PROVE Sole(q, v)'
  BY <1>1, <1>2, <1>4 DEF Sole
<1>5. Reserved' BY <1>1, <1>2, <1>3 DEF Unique, Reserved
<1>6. Clear'
  <2>1. ASSUME NEW d \in Sessions, Sure(call'[d]) PROVE Sole(call[d].pk, call[d].val)'
    <3>1. d # c /\ call'[d] = call[d] BY <1>1, <1>2, <2>1 DEF Sure
    <3>2. PICK q, v : q = call[d].pk /\ v = call[d].val OBVIOUS
    <3>3. Sole(q, v) /\ resv[v] = q BY <2>1, <3>1, <3>2 DEF Unique, Clear, Reserved, Sure, Owns
    <3>4. Sole(q, v)' BY <1>3, <1>4, <3>3
    <3>5. QED BY <3>1, <3>2, <3>4 DEF Sole
  <2>2. QED BY <2>1 DEF Clear
<1>7. Trusted'
  <2>1. ~Doubts(x) BY <1>2, PcFacts
  <2>2. ASSUME NEW v \in Values, NEW q, q = resv[v], q # None
        PROVE  Sole(q, v)' \/ \E d \in Sessions : call'[d].pk = q /\ call'[d].val = v /\ Doubts(call'[d])
    <3>1. Sole(q, v) \/ \E d \in Sessions : call[d].pk = q /\ call[d].val = v /\ Doubts(call[d])
      BY <2>2 DEF Unique, Trusted
    <3>2. QED BY <1>1, <1>3, <1>4, <2>1, <2>2, <3>1
  <2>3. QED BY <1>2, <2>2 DEF Trusted, Sole
<1>8. Seen'
  <2>1. ASSUME NEW d \in Sessions, call'[d].pc = "check", NEW q \in Pks, q # call'[d].pk, Live(q)', row'[q].val = call'[d].val
        PROVE  q \in call'[d].mem
    <3>1. d # c /\ call'[d] = call[d] BY <1>1, <1>2, <2>1
    <3>2. resv[call[d].val] = call[d].pk BY <2>1, <3>1 DEF Unique, Reserved, Owns
    <3>3. q # p BY <1>1, <1>2, <1>3, <2>1, <3>1, <3>2
    <3>4. QED BY <1>1, <2>1, <3>1, <3>3 DEF Unique, Seen
  <2>2. QED BY <2>1 DEF Seen
<1>9. Indexed'
  <2>1. ASSUME NEW q \in Pks, Live(q)'
        PROVE  <<row'[q].val, q, row'[q].iv>> \in bucket \/ \E d \in Sessions : Enters(call[d], q)'
    <3>1. ASSUME NEW d \in Sessions, Enters(call[d], q), row'[q].val = row[q].val, row'[q].iv = row[q].iv
          PROVE  Enters(call[d], q)'
      <4>1. d # c /\ call'[d] = call[d] BY <1>1, <1>2, <3>1 DEF Enters
      <4>2. QED BY <3>1, <4>1 DEF Enters
    <3>2. ASSUME Live(q), row'[q].val = row[q].val, row'[q].iv = row[q].iv
          PROVE  <<row'[q].val, q, row'[q].iv>> \in bucket \/ \E d \in Sessions : Enters(call[d], q)'
      <4>1. <<row[q].val, q, row[q].iv>> \in bucket \/ \E d \in Sessions : Enters(call[d], q) BY <3>2 DEF Unique, Indexed
      <4>2. QED BY <3>1, <3>2, <4>1
    <3>3. CASE q # p BY <1>1, <2>1, <3>2, <3>3
    <3>4. CASE q = p /\ x.snap.val # x.val
      <4>1. Enters(call[c], p)' BY <1>1, <1>2, <3>4 DEF Enters
      <4>2. QED BY <3>4, <4>1
    <3>5. CASE q = p /\ x.snap.val = x.val
      <4>1. row[p].val = x.val /\ row[p].val # None BY <1>2, <3>5, StatementsAssumption
      <4>2. Live(p) BY <1>1, <4>1, TypeFacts DEF Live, Base, RowShape, NoRow
      <4>3. QED BY <1>1, <1>2, <3>2, <3>5, <4>1, <4>2
    <3>6. QED BY <3>3, <3>4, <3>5
  <2>2. QED BY <1>2, <2>1 DEF Indexed
<1>10. Distinct'
  <2>1. ASSUME NEW q \in Pks, NEW r \in Pks, q # r, Live(q)', Live(r)' PROVE row'[q].val # row'[r].val
    BY <1>1, <1>2, <1>3, <2>1 DEF Unique, Distinct, Sole
  <2>2. QED BY <2>1 DEF Distinct
<1>11. QED BY <1>5, <1>6, <1>7, <1>8, <1>9, <1>10 DEF Unique

\* The old member and the old value are the statement's to remove and to release.
LEMMA CommitTidy ==
    ASSUME Base, Tidy, NEW c \in Sessions, NEW p \in Pks, NEW y, NEW n, Commits(c, p, y, n),
           NEW r, rcpt' = [rcpt EXCEPT ![p] = r], r \in Receipt,
           n.ttl => r = [val |-> call[c].val, iv |-> IF call[c].snap.val # call[c].val THEN n.iv ELSE call[c].snap.iv]
    PROVE  Tidy'
<1> DEFINE x == call[c]
<1>1. /\ row'[p] = n /\ (\A q \in Pks : q # p => row'[q] = row[q])
      /\ Live(p)' /\ (\A q \in Pks : q # p => (Live(q)' <=> Live(q)))
      /\ call \in [Sessions -> Locals] /\ call'[c] = y /\ (\A d \in Sessions : d # c => call'[d] = call[d])
  BY CommitFacts, TypeFacts DEF Base
<1>2. /\ x.pc = "lua" /\ x.pk = p /\ x.val \in Values /\ y.pc = "index" /\ SameRow(x, y) /\ n.ver = row[p].ver + 1
      /\ row[p].ver = x.snap.ver
      /\ n.val = x.val /\ n.iv = (IF x.snap.val # x.val THEN x.snap.ver + 1 ELSE row[p].iv)
      /\ UNCHANGED <<bucket, resv, sweep>> /\ Local(x) /\ Local(y) /\ Set(c, y) /\ Works(x) /\ x.rel = None
  BY LocalFacts DEF Commits, Works
<1>3. rcpt \in [Pks -> Receipt] /\ rcpt'[p] = r /\ \A q \in Pks : q # p => rcpt'[q] = rcpt[q]
  BY <1>1, TypeFacts DEF Base
<1>4. /\ x.snap = row[p]
      /\ IF Live(p) THEN x.snap.ver > 0 ELSE x.snap.ver = 0 /\ x.rs = rcpt[p]
  <2>1. Current(x) BY DEF Tidy
  <2>2. x.snap.ver \in Nat /\ row[p].ver \in Nat BY <1>1, TypeFacts DEF Base, Row
  <2>3. x.snap.ver = 0 => x.snap = NoRow /\ row[p] = NoRow BY <1>1, <1>2 DEF Local, Shape, Base, RowShape
  <2>4. QED BY <1>2, <2>1, <2>2, <2>3 DEF Current, Reserving, Live
<1>5. /\ \A d \in Sessions : (d # c /\ Works(call[d])) => call[d].pk # p
      /\ sweep.pc # "idle" => sweep.pk # p
  BY <1>2, OthersElsewhere
<1>6. Exclusive'
  <2>1. Works(y) /\ Keys(y) = Keys(x) BY <1>2 DEF Works, Keys, SameRow
  <2>2. QED BY <1>1, <1>2, <2>1, StillAlone, ExclusiveKept DEF Tidy, Set
<1>7. ASSUME NEW d \in Sessions PROVE Current(call[d])'
  <2>1. CASE d = c BY <1>1, <1>2, <2>1 DEF Current, Reserving, SameRow
  <2>2. CASE d # c
    <3>1. Current(call[d]) /\ call[d].pk \in Pks BY TypeFacts DEF Tidy, Base
    <3>2. QED BY <1>1, <1>3, <1>5, <2>2, <3>1, CurrentStays
  <2>3. QED BY <2>1, <2>2
<1>8. Receipts'
  <2>1. n.ttl => r.val = n.val /\ r.iv = n.iv BY <1>2, <1>4
  <2>2. QED BY <1>1, <1>3, <2>1 DEF Tidy, Receipts
<1>9. SweepCurrent'
  <2>1. sweep.pk \in Pks BY DEF Base, TypeOK
  <2>2. QED BY <1>1, <1>2, <1>3, <1>5, <2>1 DEF Tidy, SweepCurrent
<1>10. ASSUME NEW m \in bucket PROVE MemberDue(m)'
  <2>1. MemberDue(m) BY DEF Tidy, MembersDue
  <2>2. m[2] \in Pks /\ m[1] # None /\ m = <<m[1], m[2], m[3]>> BY StatementsAssumption DEF Base, TypeOK
  <2>3. ASSUME NEW d \in Sessions, Removes(call[d], m) PROVE Removes(call'[d], m)
    BY <1>1, <1>2, <2>3 DEF Removes
  <2>4. CASE m[2] = p /\ Live(p) /\ m[1] = row[p].val /\ m[3] = row[p].iv
    <3>1. CASE x.snap.val # x.val
      <4>1. m \in Undo(y) BY <1>2, <1>4, <2>2, <2>4, <3>1 DEF Undo, Member, SameRow
      <4>2. QED BY <1>1, <1>2, <4>1 DEF MemberDue, Removes
    <3>2. CASE x.snap.val = x.val BY <1>1, <1>2, <1>4, <2>4, <3>2 DEF MemberDue
    <3>3. QED BY <3>1, <3>2
  <2>5. CASE m[2] = p /\ ~Live(p) /\ m[1] = rcpt[p].val /\ m[3] = rcpt[p].iv
    <3>1. m \in Undo(y) BY <1>2, <1>4, <2>2, <2>5 DEF Undo, Member, SameRow
    <3>2. QED BY <1>1, <1>2, <3>1 DEF MemberDue, Removes
  <2>6. CASE \E d \in Sessions : Removes(call[d], m) BY <2>3, <2>6 DEF MemberDue
  <2>7. CASE sweep.pc = "clean" /\ m \in Member(sweep.pk, sweep.rs) BY <1>2, <2>7 DEF MemberDue
  <2>8. CASE m[2] # p /\ (IF Live(m[2]) THEN m[1] = row[m[2]].val /\ m[3] = row[m[2]].iv
                          ELSE m[1] = rcpt[m[2]].val /\ m[3] = rcpt[m[2]].iv)
    BY <1>1, <1>3, <2>2, <2>8 DEF MemberDue
  <2>9. QED BY <2>1, <2>4, <2>5, <2>6, <2>7, <2>8 DEF MemberDue
<1>11. ASSUME NEW v \in Values, NEW q \in Pks, resv'[v] = q PROVE ReservationDue(q, v)'
  <2>1. ReservationDue(q, v) BY <1>2, <1>11 DEF Tidy, ReservationsDue
  <2>2. CASE q = p /\ v = x.val BY <1>1, <1>2, <2>2 DEF ReservationDue
  <2>3. CASE q = p /\ v # x.val /\ (IF Live(p) THEN row[p].val = v ELSE rcpt[p].val = v)
    <3>1. v = Displaced(y) BY <1>2, <1>4, <2>3 DEF Displaced, SameRow, Live
    <3>2. call'[c].pk = q /\ Handles(call'[c], v) BY <1>1, <1>2, <2>3, <3>1 DEF Handles, SameRow
    <3>3. QED BY <3>2 DEF ReservationDue
  <2>4. CASE q # p /\ (IF Live(q) THEN row[q].val = v ELSE rcpt[q].val = v)
    BY <1>1, <1>3, <2>4 DEF ReservationDue
  <2>5. ASSUME NEW d \in Sessions, call[d].pk = q, Handles(call[d], v), ~(q = p /\ v = x.val) PROVE ReservationDue(q, v)'
    <3>1. d # c
      <4>1. Handles(x, v) => v = x.val BY <1>2, StatementsAssumption DEF Handles
      <4>2. QED BY <1>2, <2>5, <4>1
    <3>2. call'[d] = call[d] BY <1>1, <3>1
    <3>3. QED BY <2>5, <3>2 DEF ReservationDue
  <2>6. CASE sweep.pc \in {"clean", "get", "del"} /\ sweep.pk = q /\ sweep.rs.val = v BY <1>2, <2>6 DEF ReservationDue
  <2>7. QED BY <2>1, <2>2, <2>3, <2>4, <2>5, <2>6 DEF ReservationDue
<1>12. QED BY <1>2, <1>6, <1>7, <1>8, <1>9, <1>10, <1>11 DEF Tidy, MembersDue, ReservationsDue

LEMMA RowLuaInv == ASSUME IInv, NEW c \in Sessions, RowLua(c) PROVE IInv'
<1> DEFINE x == call[c]
<1>1. x.pc = "lua" /\ UNCHANGED <<bucket, resv, seq, sweep, started, breach, clash, fault>> BY DEF RowLua, At
<1>2. CASE row[x.pk].ver # x.snap.ver
  <2>1. Retry(c, "row") /\ UNCHANGED <<row, rcpt, births, aba>> BY <1>2 DEF RowLua
  <2>2. UNCHANGED <<data, resv, sweep, started, hist>> BY <1>1, <2>1 DEF data, hist
  <2>3. QED BY <1>1, <2>1, <2>2, RetryInv
<1>3. CASE row[x.pk].ver = x.snap.ver
  <2>0. x \in Locals /\ Local(x) /\ SnapOk(x) BY LocalFacts DEF IInv, Local
  <2>1. PICK p \in Pks : p = x.pk BY <2>0 DEF Locals
  <2>2. /\ x.val \in Values /\ x.rel = None /\ x.acq /\ x.ttl \in BOOLEAN /\ x.snap \in Row /\ x.snap.ver \in Nat
        /\ x.snap.iv \in Nat /\ row[p] \in Row /\ row[p].ver \in Nat /\ row[p].iv \in Nat /\ row[p].ttl \in BOOLEAN
        /\ births[p] \in Nat
    <3>1. x.val \in Values /\ x.rel = None /\ x.acq
      BY <1>1, <2>0, WritingFacts DEF IInv, Writing, Reserving, Local, Shape
    <3>2. row[p] \in Row /\ births[p] \in Nat BY TypeFacts DEF IInv, Base
    <3>3. QED BY <2>0, <3>1, <3>2 DEF Locals, Row
  <2>3. PICK t \in BOOLEAN : t = IF x.op = "update" THEN row[p].ttl ELSE x.ttl BY <2>2
  <2>4. PICK i \in Nat : i = IF x.snap.val # x.val THEN x.snap.ver + 1 ELSE row[p].iv BY <2>2
  <2>5. PICK n : n = [ver |-> row[p].ver + 1, val |-> x.val, iv |-> i, ttl |-> t] OBVIOUS
  <2>6. PICK r : r = IF t \/ x.op = "update"
                     THEN [val |-> x.val, iv |-> IF x.snap.val # x.val THEN i ELSE x.snap.iv]
                     ELSE NoRcpt
    OBVIOUS
  <2>7. PICK y : y = [x EXCEPT !.pc = "index", !.seen = 0, !.born = 0, !.tries = 0, !.ttl = FALSE] OBVIOUS
  <2>8. /\ row' = [row EXCEPT ![p] = n] /\ rcpt' = [rcpt EXCEPT ![p] = r]
        /\ births' = [births EXCEPT ![p] = IF row[p].ver = 0 THEN @ + 1 ELSE @]
        /\ aba' = (aba \/ births[p] # x.seen) /\ Set(c, y)
    BY <1>3, <2>1, <2>3, <2>4, <2>5, <2>6, <2>7 DEF RowLua
  <2>9. n \in Row /\ n.ver = row[p].ver + 1 /\ n.val = x.val /\ n.iv = i /\ n.ttl = t BY <2>2, <2>5 DEF Row
  <2>10. r \in Receipt /\ (n.ttl => r = [val |-> x.val, iv |-> IF x.snap.val # x.val THEN n.iv ELSE x.snap.iv])
    <3>1. CASE t \/ x.op = "update"
      <4>1. PICK j \in Nat : j = IF x.snap.val # x.val THEN i ELSE x.snap.iv BY <2>2
      <4>2. r = [val |-> x.val, iv |-> j] BY <2>6, <3>1, <4>1
      <4>3. QED BY <2>2, <2>9, <4>1, <4>2 DEF Receipt
    <3>2. CASE ~(t \/ x.op = "update") BY <2>6, <2>9, <3>2, NoneTypes
    <3>3. QED BY <3>1, <3>2
  <2>11. y \in Locals
    <3>1. 0 \in 0 .. StaleRetries - 1 BY StatementsAssumption
    <3>2. QED BY <2>0, <2>7, <3>1 DEF Locals, Pcs
  <2>12. y.pc = "index" /\ y.born = 0 /\ SameRow(x, y) /\ y.acq = x.acq /\ y.rel = x.rel BY <2>0, <2>7 DEF Locals, SameRow
  <2>13. Local(y) BY <1>1, <2>0, <2>2, <2>11, <2>12 DEF Local, Shape, SameRow, Deleting, Reserving
  <2>14. Commits(c, p, y, n)
    BY <1>1, <1>3, <2>1, <2>2, <2>4, <2>8, <2>9, <2>12, <2>13 DEF Commits
  <2>15. FlagTypes' /\ FlagsGrow
    <3>1. breach \in BOOLEAN /\ clash \in BOOLEAN /\ aba \in BOOLEAN /\ fault \in SUBSET Faults BY DEF IInv, Base, TypeOK
    <3>2. aba' \in BOOLEAN /\ (aba => aba') BY <2>8, <3>1
    <3>3. FlagTypes' BY <1>1, <3>1, <3>2, Zenon DEF FlagTypes
    <3>4. FlagsGrow BY <1>1, <3>2 DEF FlagsGrow
    <3>5. QED BY <3>3, <3>4
  <2>16. row' \in [Pks -> Row] /\ births' \in [Pks -> Nat] BY <2>14, CommitFacts DEF IInv
  <2>17. rcpt' \in [Pks -> Receipt]
    <3>1. rcpt \in [Pks -> Receipt] BY DEF IInv, Base, TypeOK
    <3>2. QED BY <2>8, <2>10, <3>1
  <2>18. StoreTypes' BY <1>1, <2>15, <2>16, <2>17 DEF IInv, Base, TypeOK, StoreTypes
  <2>19. Base' BY <2>14, <2>18, CommitBase DEF IInv
  <2>20. ASSUME Unbroken' PROVE Unique'
    <3>1. ~aba' BY <2>20 DEF Unbroken
    <3>2. births[p] = x.seen BY <2>8, <3>1, Zenon
    <3>3. x.snap = row[p]
      <4>1. CASE row[p].ver = 0 BY <1>3, <2>0, <2>1, <4>1 DEF Local, Shape, IInv, Base, RowShape
      <4>2. CASE row[p].ver # 0 BY <1>1, <1>3, <2>0, <2>1, <2>2, <3>2, <4>2 DEF SnapOk, Reserving, Live
      <4>3. QED BY <4>1, <4>2
    <3>4. Unique BY <2>15, <2>20, FlagsFacts DEF IInv
    <3>5. QED BY <2>14, <3>3, <3>4, CommitUnique DEF IInv
  <2>21. ASSUME Apart' PROVE Tidy'
    <3>1. Tidy BY <2>15, <2>21, FlagsFacts DEF IInv
    <3>2. QED BY <2>8, <2>10, <2>14, <3>1, CommitTidy DEF IInv
  <2>22. QED BY <2>19, <2>20, <2>21 DEF IInv
<1>4. QED BY <1>2, <1>3

(***************************************************************************)
(* The invariant.                                                          *)
(***************************************************************************)
LEMMA InitInv == Init => IInv
<1> SUFFICES ASSUME Init PROVE IInv OBVIOUS
<1>1. PICK N \in 0 .. MaxPk, f \in [Pks -> Values \cup {None}], T \in SUBSET {1} :
         /\ \A p, q \in Pks : (p # q /\ f[p] # None) => f[p] # f[q]
         /\ \A p \in Pks : f[p] # None <=> p <= N
         /\ \A p \in T : p <= N
         /\ Settled(f, T)
  BY DEF Init
<1>2. /\ seq = MaxPk - 1 /\ call = [c \in Sessions |-> NoCall] /\ sweep = NoSweep /\ started = 0
      /\ breach = FALSE /\ clash = FALSE /\ aba = FALSE /\ fault = {}
  BY DEF Init
<1> DEFINE here == {p \in Pks : f[p] # None}
<1>3. /\ row = [p \in Pks |-> IF p \in here THEN [ver |-> 1, val |-> f[p], iv |-> 1, ttl |-> p \in T] ELSE NoRow]
      /\ rcpt = [p \in Pks |-> IF p \in here \cap T THEN [val |-> f[p], iv |-> 1] ELSE NoRcpt]
      /\ bucket = {<<f[p], p, 1>> : p \in here}
      /\ resv = [v \in Values |-> IF \E p \in here : f[p] = v THEN CHOOSE p \in here : f[p] = v ELSE None]
      /\ births = [p \in Pks |-> IF p \in here THEN 1 ELSE 0]
  BY <1>1 DEF Settled
<1>4. ASSUME NEW p \in Pks
      PROVE  IF p \in here THEN /\ row[p] \in Row /\ row[p].ver = 1 /\ row[p].val = f[p] /\ row[p].iv = 1
                                /\ (row[p].ttl <=> p \in T) /\ f[p] \in Values
             ELSE row[p] = NoRow
  <2>1. CASE p \in here
    <3>1. f[p] \in Values BY <2>1
    <3>2. row[p] = [ver |-> 1, val |-> f[p], iv |-> 1, ttl |-> p \in T] BY <1>3, <2>1
    <3>3. ASSUME NEW t \in BOOLEAN, (p \in T) = t
          PROVE  row[p] \in Row /\ row[p].ver = 1 /\ row[p].val = f[p] /\ row[p].iv = 1 /\ row[p].ttl = t
      <4>1. row[p] = [ver |-> 1, val |-> f[p], iv |-> 1, ttl |-> t] BY <3>2, <3>3, Zenon
      <4>2. QED BY <3>1, <4>1 DEF Row
    <3>4. CASE p \in T
      <4>1. (p \in T) = TRUE BY <3>4, Zenon
      <4>2. QED BY <2>1, <3>1, <3>3, <3>4, <4>1, Zenon
    <3>5. CASE p \notin T
      <4>1. (p \in T) = FALSE BY <3>5
      <4>2. QED BY <2>1, <3>1, <3>3, <3>5, <4>1, Zenon
    <3>6. QED BY <3>4, <3>5
  <2>2. CASE p \notin here BY <1>3, <2>2
  <2>3. QED BY <2>1, <2>2
<1>5. ASSUME NEW p \in Pks
      PROVE  rcpt[p] \in Receipt /\ (p \in here \cap T => rcpt[p].val = f[p] /\ rcpt[p].iv = 1)
  <2>1. CASE p \in here \cap T
    <3>1. rcpt[p] = [val |-> f[p], iv |-> 1] BY <1>3, <2>1
    <3>2. QED BY <1>4, <3>1 DEF Receipt
  <2>2. CASE p \notin here \cap T BY <1>3, <2>2, NoneTypes
  <2>3. QED BY <2>1, <2>2
<1>6. ASSUME NEW v \in Values
      PROVE  resv[v] \in Pks \cup {None} /\ (resv[v] # None => resv[v] \in here /\ f[resv[v]] = v)
  BY <1>3, <1>6
<1>7. \A p \in Pks : Live(p) <=> p \in here BY <1>4 DEF Live, NoRow
<1>8. \A c \in Sessions : call[c] = NoCall BY <1>2
<1>9. Base
  <2>1. row \in [Pks -> Row] BY <1>3, <1>4, NoneTypes
  <2>2. rcpt \in [Pks -> Receipt] BY <1>3, <1>5
  <2>3. bucket \in SUBSET (Values \X Pks \X Nat) BY <1>3, <1>4
  <2>4. resv \in [Values -> Pks \cup {None}] BY <1>3, <1>6
  <2>5. births \in [Pks -> Nat] BY <1>3
  <2>6. seq \in 0 .. MaxPk BY <1>2, StatementsAssumption
  <2>7. call \in [Sessions -> Locals] BY <1>2, NoneTypes
  <2>8. \A c \in Sessions : Local(call[c]) BY <1>8, NoneTypes
  <2>9. breach \in BOOLEAN /\ clash \in BOOLEAN /\ aba \in BOOLEAN /\ fault \in SUBSET Faults /\ started \in Nat
    BY <1>2
  <2>10. sweep \in [pc : {"idle", "lua", "clean", "get", "del"}, pk : Pks, rs : Receipt] BY <1>2, NoSweepFacts
  <2>0. \A c \in Sessions : call[c].pc \in {"relget", "reldel"} <=> call[c].rel # None BY <2>8 DEF Local
  <2>11. TypeOK BY <2>0, <2>1, <2>2, <2>3, <2>4, <2>5, <2>6, <2>7, <2>9, <2>10 DEF TypeOK
  <2>12. RowShape
    <3>1. ASSUME NEW p \in Pks PROVE IF row[p].ver = 0 THEN row[p] = NoRow ELSE row[p].val \in Values /\ births[p] > 0
      <4>1. CASE p \in here BY <1>3, <1>4, <4>1
      <4>2. CASE p \notin here
        <5>1. row[p] = NoRow BY <1>4, <4>2
        <5>2. NoRow.ver = 0 BY DEF NoRow
        <5>3. QED BY <5>1, <5>2
      <4>3. QED BY <4>1, <4>2
    <3>2. QED BY <3>1 DEF RowShape
  <2>13. SnapShape BY <1>8, NoneTypes DEF SnapShape, Reserving
  <2>15. BornShape
    <3>1. Aim(NoCall) \in Pks BY NoneTypes DEF Aim, Locals
    <3>2. BornAt(Aim(NoCall), 0) BY <1>3, <1>7, <3>1 DEF BornAt
    <3>3. QED BY <1>8, <3>2, NoneTypes DEF BornShape, BornOk
  <2>14. QED BY <2>8, <2>11, <2>12, <2>13, <2>15 DEF Base, Local
<1>10. Unique
  <2>1. Reserved /\ Clear /\ Seen BY <1>8, NoneTypes DEF Reserved, Clear, Seen, Owns, Sure
  <2>2. ASSUME NEW v \in Values, resv[v] # None PROVE Sole(resv[v], v)
    <3>1. resv[v] \in here /\ f[resv[v]] = v BY <1>6, <2>2
    <3>2. \A q \in Pks : (q # resv[v] /\ Live(q)) => row[q].val = f[q] /\ f[q] # v BY <1>1, <1>4, <1>7, <3>1
    <3>3. QED BY <3>2 DEF Sole
  <2>3. Indexed BY <1>3, <1>4, <1>7 DEF Indexed
  <2>4. Distinct BY <1>1, <1>4, <1>7 DEF Distinct
  <2>5. QED BY <2>1, <2>2, <2>3, <2>4 DEF Unique, Trusted
<1>11. Tidy
  <2>1. Exclusive BY <1>2, <1>8, NoneTypes, NoSweepFacts DEF Exclusive, Works
  <2>2. \A c \in Sessions : Current(call[c]) BY <1>8, NoneTypes DEF Current, Reserving
  <2>3. Receipts BY <1>4, <1>5 DEF Receipts, NoRow
  <2>4. SweepCurrent BY <1>2, NoSweepFacts DEF SweepCurrent
  <2>5. ASSUME NEW m \in bucket PROVE MemberDue(m)
    <3>1. PICK p \in here : m = <<f[p], p, 1>> BY <1>3
    <3>2. m[1] = f[p] /\ m[2] = p /\ m[3] = 1 BY <3>1
    <3>3. QED BY <1>4, <1>7, <3>2 DEF MemberDue
  <2>6. ASSUME NEW v \in Values, NEW p \in Pks, resv[v] = p PROVE ReservationDue(p, v)
    <3>1. p \in here /\ f[p] = v BY <1>6, <2>6, StatementsAssumption
    <3>2. QED BY <1>4, <1>7, <3>1 DEF ReservationDue
  <2>7. QED BY <2>1, <2>2, <2>3, <2>4, <2>5, <2>6 DEF Tidy, MembersDue, ReservationsDue
<1>12. QED BY <1>9, <1>10, <1>11 DEF IInv

LEMMA StutterInv == ASSUME IInv, UNCHANGED vars PROVE IInv'
<1>1. UNCHANGED <<row, rcpt, bucket, resv, seq, call, sweep, started, births, breach, clash, aba, fault>> BY DEF vars
<1>2. TypeOK' BY <1>1 DEF IInv, Base, TypeOK
<1>3. FlagTypes' /\ FlagsGrow BY <1>1, Still DEF hist
<1>4. resv' \in [Values -> Pks \cup {None}] /\ sweep' \in [pc : {"idle", "lua", "clean", "get", "del"}, pk : Pks, rs : Receipt]
  BY <1>2 DEF TypeOK
<1>5. Tidy => SweepCurrent' BY <1>1 DEF Tidy, SweepCurrent, Live
<1>6. Tidy => (sweep'.pc # "idle" => \A c \in Sessions : Works(call[c]) => sweep'.pk \notin Keys(call[c]))
  BY <1>1 DEF Tidy, Exclusive
<1>7. \A v, p : Sweeps(p, v) => Sweeps(p, v)' BY <1>1 DEF Sweeps
<1>8. QED BY <1>1, <1>3, <1>4, <1>5, <1>6, <1>7, StoreMoves

LEMMA NextInv == ASSUME IInv, [Next]_vars PROVE IInv'
<1>1. CASE UNCHANGED vars BY <1>1, StutterInv
<1>2. ASSUME NEW c \in Sessions,
             \/ \E p \in Pks, v \in Values, t \in BOOLEAN : Insert(c, p, v, t)
             \/ \E v \in Values : InsertAuto(c, v)
             \/ \E p, q \in Pks, v \in Values : Update(c, p, q, v)
             \/ \E p \in Pks : Delete(c, p)
      PROVE  IInv'
  BY <1>2, StartsInv
<1>3. ASSUME NEW c \in Sessions, SessionStep(c) PROVE IInv'
  <2>1. CASE NextAutoID(c) BY <2>1, NextAutoIDInv
  <2>2. CASE ReadExisting(c) BY <2>2, ReadExistingInv
  <2>3. CASE Preread(c) BY <2>3, PrereadInv
  <2>4. CASE ReadReceipt(c) BY <2>4, ReadReceiptInv
  <2>5. CASE Reserve(c) BY <2>5, ReserveInv
  <2>6. CASE GetOwner(c) BY <2>6, GetOwnerInv
  <2>7. CASE OwnerAlive(c) BY <2>7, OwnerAliveInv
  <2>8. CASE TakeOver(c) BY <2>8, TakeOverInv
  <2>9. CASE RetryReserve(c) BY <2>9, RetryReserveInv
  <2>10. CASE VerifyBucket(c) BY <2>10, VerifyBucketInv
  <2>11. CASE VerifyMembers(c) BY <2>11, VerifyMembersInv
  <2>12. CASE RowLua(c) BY <2>12, RowLuaInv
  <2>13. CASE IndexPipeline(c) BY <2>13, IndexPipelineInv
  <2>14. CASE ReleaseGet(c) BY <2>14, ReleaseGetInv
  <2>15. CASE ReleaseDel(c) BY <2>15, ReleaseDelInv
  <2>16. CASE DeletePreread(c) BY <2>16, DeletePrereadInv
  <2>17. CASE DeleteLua(c) BY <2>17, DeleteLuaInv
  <2>18. CASE DeleteIndex(c) BY <2>18, DeleteIndexInv
  <2>19. QED BY <1>3, <2>1, <2>2, <2>3, <2>4, <2>5, <2>6, <2>7, <2>8, <2>9, <2>10, <2>11, <2>12, <2>13, <2>14,
                <2>15, <2>16, <2>17, <2>18 DEF SessionStep
<1>4. ASSUME NEW c \in Sessions, PipelineLost(c) \/ ReleaseLost(c) \/ ReserveError(c) \/ RowTooLarge(c) PROVE IInv'
  BY <1>4, PipelineLostInv, ReleaseLostInv, ReserveErrorInv, RowTooLargeInv
<1>5. ASSUME NEW p \in Pks, Expire(p) PROVE IInv' BY <1>5, ExpireInv
<1>6. ASSUME NEW v \in Values, ReservationLapses(v) PROVE IInv' BY <1>6, ReservationLapsesInv
<1>7. CASE SweeperStep BY <1>7, SweepReadInv, SweepLuaInv, SweepCleanInv, SweepGetInv, SweepDelInv DEF SweeperStep
<1>8. QED BY <1>1, <1>2, <1>3, <1>4, <1>5, <1>6, <1>7 DEF Next

LEMMA IInvHolds == Spec => []IInv
<1>1. IInv /\ [Next]_vars => IInv' BY NextInv
<1>2. QED BY <1>1, InitInv, PTL DEF Spec

(***************************************************************************)
(* The theorems.  PlainKeys leaves out the values whose EscapeValue is not *)
(* the value itself: the code does not release their reservations.         *)
(***************************************************************************)
\* The unique constraint of reserveUnique, verifyBucketExclusive and the row Lua: no two
\* live rows have the same value, for any number of sessions, rows and statements, unless
\* a history variable records one of the windows that UniqueHeld names.
THEOREM ReservationsKeepUnique == PlainKeys => (Spec => []UniqueHeld)
<1>1. CASE ~PlainKeys BY <1>1
<1>2. CASE PlainKeys
  <2>1. IInv => UniqueHeld BY <1>2 DEF IInv, Unbroken, Unique, Distinct, UniqueHeld
  <2>2. QED BY <2>1, IInvHolds, PTL
<1>3. QED BY <1>1, <1>2

\* releaseUnique, rollbackReservations and the sweeper give back what was reserved and
\* indexed: when nothing runs, a value that no live row has is not refused, as long as no
\* two statements overlapped on one row.
THEOREM ReservationsGivenBack == PlainKeys => (Spec => []NoStrayReservation)
<1>1. CASE ~PlainKeys BY <1>1
<1>2. CASE PlainKeys
  <2>1. IInv => NoStrayReservation
    <3> SUFFICES ASSUME IInv, AtRest, ~clash, fault \subseteq {"px"} PROVE Usable BY DEF NoStrayReservation
    <3>1. Tidy BY <1>2 DEF IInv, Apart
    <3>2. sweep.pc = "idle" /\ \A c \in Sessions : call[c].pc = "idle" /\ Local(call[c])
      BY LocalFacts DEF AtRest, At, IInv
    <3>3. ASSUME NEW v \in Values, NEW p \in Pks, Live(p), row[p].val # v, resv[v] = p PROVE FALSE
      <4>1. ReservationDue(p, v) BY <3>1, <3>3 DEF Tidy, ReservationsDue
      <4>2. \A c \in Sessions : ~Handles(call[c], v) BY <3>2, PcFacts DEF Reserving
      <4>3. QED BY <3>2, <3>3, <4>1, <4>2 DEF ReservationDue
    <3>4. ASSUME NEW v \in Values, NEW p \in Pks, Live(p), row[p].val # v, NEW m \in bucket, m[1] = v, m[2] = p PROVE FALSE
      <4>1. MemberDue(m) BY <3>1 DEF Tidy, MembersDue
      <4>2. \A c \in Sessions : ~Removes(call[c], m) BY <3>2 DEF Removes
      <4>3. QED BY <3>2, <3>4, <4>1, <4>2 DEF MemberDue
    <3>5. QED BY <3>3, <3>4 DEF Usable
  <2>2. QED BY <2>1, IInvHolds, PTL
<1>3. QED BY <1>1, <1>2

\* A row that an INSERT or the write half of a key change overwrites was born after the
\* statement's readExisting.
THEOREM InsertSparesRows == Spec => InsertSpares
<1>1. IInv => \A c \in Sessions :
                 LET p == call[c].pk
                 IN  (At(c, "lua") /\ call'[c].pc = "index" /\ Live(p)) => births[p] > call[c].born
  <2> SUFFICES ASSUME IInv, NEW c \in Sessions, call[c].pc = "lua", Live(call[c].pk)
               PROVE  births[call[c].pk] > call[c].born
    BY DEF At
  <2>1. BornOk(call[c]) BY LocalFacts DEF IInv
  <2>2. call[c].pk \in Pks /\ births[call[c].pk] \in Nat /\ call[c].born \in Nat BY TypeFacts DEF IInv, Base
  <2>3. call[c].next = 0 BY LocalFacts DEF IInv, Local, Shape, Reserving
  <2>4. QED BY <2>1, <2>2, <2>3 DEF BornOk, BornAt, Aim
<1>2. QED BY <1>1, IInvHolds, PTL DEF InsertSpares

\* The store and the locals of the statements have their types.
THEOREM StatementsTypeCorrect == Spec => []TypeOK
<1>1. IInv => TypeOK BY DEF IInv, Base
<1>2. QED BY <1>1, IInvHolds, PTL
=============================================================================
