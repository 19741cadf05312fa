------------------------------ MODULE RowWrite ------------------------------
(***************************************************************************)
(* The two-segment write protocol of txguard for ONE primary key and one   *)
(* synchronous equality index (txguard/txguard.go, script/lua/             *)
(* write_row.lua).                                                         *)
(*                                                                         *)
(* A write first commits the row in one Redis slot (the row Lua, atomic),  *)
(* and then sends the index commands to other slots: ZREM of the exact old *)
(* member, ZADD of the new member, and the expiry-register command.  The   *)
(* index commands of several writers interleave with each other and with   *)
(* row commits in any order; only commands on the same bucket keep the     *)
(* order in which one pipeline lists them.                                 *)
(*                                                                         *)
(* A bucket member "pk 0x1f ver" of the bucket of value v is the pair      *)
(* <<v, ver>>: there is one primary key, so the pair names both the bucket *)
(* and the member.                                                         *)
(***************************************************************************)
EXTENDS Naturals, FiniteSets, TLAPS

CONSTANTS
    Clients,        \* goroutines that run WriteRow / DeleteRow
    Values,         \* values of the indexed column
    Null,           \* the indexed column is absent from the row (SQL NULL)
    StaleRetries,   \* tuning txguard.stale_retries
    MaxAttempts,    \* tuning retry.max_attempts (kv.WithRetry)
    CasVers,        \* ExpectedOldVer values a caller may pass
    NoCas,          \* ExpectedOldVer = nil
    Modes,          \* the TTL modes the callers use
    Faults,         \* the failures the environment produces
    MaxCalls        \* bound: the number of calls that are started

ASSUME NullAssumption == Null \notin Values
ASSUME RetryAssumption == StaleRetries \in Nat \ {0} /\ MaxAttempts \in Nat \ {0}
ASSUME CasAssumption == CasVers \subseteq Nat /\ NoCas \notin Nat
ASSUME EnvAssumption ==
    /\ Modes \subseteq {"keep", "set", "none"}
    /\ Faults \subseteq {"giveup", "reply", "resend", "segment", "grace", "sweep"}
ASSUME BoundAssumption == MaxCalls \in Nat

Member == Values \X Nat
TTLModes == {"keep", "set", "none"}     \* ttlms = -2, > 0, 0
RegCmds == {"skip", "inf", "due", "rem"}

Row == [ver : Nat, val : Values \cup {Null}, iv : Nat, ttl : BOOLEAN]

\* HGETALL of a key that does not exist: oldVerOf gives 0, no _iv field.
NoRow == [ver |-> 0, val |-> Null, iv |-> 0, ttl |-> FALSE]

Req == [op : {"W", "D"}, val : Values \cup {Null}, mode : TTLModes,
        cas : CasVers \cup {NoCas}]

\* The request of an idle client.
NoReq == [op |-> "W", val |-> Null, mode |-> "none", cas |-> NoCas]

VARIABLES
    row,      \* the row hash: _ver, the indexed column, _iv:{idx}, has a TTL
    rcpt,     \* the receipt hash: the exact members recorded for the sweeper
    idx,      \* the members present in the index buckets
    exp,      \* the register entry of the pk: "none", "inf" or "due" (finite)
    pc,       \* per client: where its call is
    req,      \* per client: the request of the current call
    tries,    \* per client: attempts of the stale-retry loop so far
    sends,    \* per client: how often the retrying client re-sent a request
    snap,     \* per client: the pre-read row
    rsnap,    \* per client: the pre-read receipt
    rem,      \* per client: ZREMs of its pipeline not executed yet
    add,      \* per client: ZADDs of its pipeline not executed yet
    reg,      \* per client: its register command not executed yet
    res,      \* per client: what its last call returned
    started,  \* the number of calls started so far
    inc,      \* history: how many times the row has been born
    seen,     \* history, per client: the incarnation its commands are about
    overlap,  \* history: this incarnation met commands of an earlier one
    fault     \* history: a commit of this incarnation lost its index segment

store == <<row, rcpt, idx, exp>>
calls == <<pc, req, tries, sends, snap, rsnap, rem, add, reg, res, started>>
hist  == <<inc, seen, overlap, fault>>
vars  == <<store, calls, hist>>

(***************************************************************************)
(* buildIndexOps: what a write of value v over the pre-read row s does to  *)
(* the index.                                                              *)
(***************************************************************************)
IvOf(s) == IF s.iv > 0 THEN s.iv ELSE s.ver

MemberOf(s) == <<s.val, IvOf(s)>>

\* The value is written and differs: a new member stamped with the new version.
Redos(s, v) == IF v # Null /\ v # s.val THEN {<<v, s.ver + 1>>} ELSE {}

\* Mutant: the old value is undone even when the column was NULL.
UndosOfNull(s, r, v) == (IF v # s.val THEN {MemberOf(s)} ELSE {}) \cup r

\* Mutant: a revival does not look at the receipt of the dead row.
UndosNoReceipt(s, r, v) == IF s.val # Null /\ v # s.val THEN {MemberOf(s)} ELSE {}

\* The old value goes away: its member, stamped with the version that made it.
\* r is the receipt of a dead predecessor (mergeReceiptUndo); it is only read
\* when s is empty.
Undos(s, r, v) ==
    (IF s.val # Null /\ v # s.val THEN {MemberOf(s)} ELSE {}) \cup r

\* Mutant: the receipt lists only the members that this write adds.
ReceiptsChangedOnly(s, v) == Redos(s, v)

\* The full list of current members, for the receipt.
Receipts(s, v) ==
    IF v = Null THEN {}
    ELSE {<<v, IF v # s.val THEN s.ver + 1 ELSE IvOf(s)>>}

\* Mutant: an UPDATE that meets an expired row does not register it again.
RegCmdKeepSkips(s, mode) ==
    CASE mode = "set" -> "due" [] mode = "none" -> "inf" [] mode = "keep" -> "skip"

\* The expiry-register command of a write over s.
RegCmd(s, mode) ==
    CASE mode = "set" -> "due"
      [] mode = "none" -> "inf"
      [] mode = "keep" -> IF s.ver = 0 THEN "inf" ELSE "skip"

UndoList(c) ==
    IF req[c].op = "D" THEN Undos(snap[c], {}, Null)
    ELSE Undos(snap[c], rsnap[c], req[c].val)
RedoList(c) == IF req[c].op = "D" THEN {} ELSE Redos(snap[c], req[c].val)
RegOf(c) == IF req[c].op = "D" THEN "rem" ELSE RegCmd(snap[c], req[c].mode)

(***************************************************************************)
(* The call: WriteRow and DeleteRow up to the row Lua.                     *)
(***************************************************************************)
Init ==
    /\ row = NoRow /\ rcpt = {} /\ idx = {} /\ exp = "none"
    /\ pc = [c \in Clients |-> "idle"]
    /\ req = [c \in Clients |-> NoReq]
    /\ tries = [c \in Clients |-> 0]
    /\ sends = [c \in Clients |-> 0]
    /\ snap = [c \in Clients |-> NoRow]
    /\ rsnap = [c \in Clients |-> {}]
    /\ rem = [c \in Clients |-> {}]
    /\ add = [c \in Clients |-> {}]
    /\ reg = [c \in Clients |-> "skip"]
    /\ res = [c \in Clients |-> "none"]
    /\ started = 0
    /\ inc = 0
    /\ seen = [c \in Clients |-> 0]
    /\ overlap = FALSE
    /\ fault = "none"

\* The call returns: its locals are dead.
Return(c, r) ==
    /\ pc' = [pc EXCEPT ![c] = "idle"]
    /\ res' = [res EXCEPT ![c] = r]
    /\ tries' = [tries EXCEPT ![c] = 0]
    /\ sends' = [sends EXCEPT ![c] = 0]
    /\ snap' = [snap EXCEPT ![c] = NoRow]
    /\ rsnap' = [rsnap EXCEPT ![c] = {}]
    /\ rem' = [rem EXCEPT ![c] = {}]
    /\ add' = [add EXCEPT ![c] = {}]
    /\ reg' = [reg EXCEPT ![c] = "skip"]
    /\ seen' = [seen EXCEPT ![c] = 0]
    /\ req' = [req EXCEPT ![c] = NoReq]
    /\ UNCHANGED started

\* INSERT, UPDATE, UPSERT: WriteRow(req).
StartWrite(c, v, mode, cas) ==
    /\ pc[c] = "idle" /\ started < MaxCalls
    /\ started' = started + 1
    /\ pc' = [pc EXCEPT ![c] = "row"]
    /\ req' = [req EXCEPT ![c] = [op |-> "W", val |-> v, mode |-> mode, cas |-> cas]]
    /\ res' = [res EXCEPT ![c] = "none"]
    /\ UNCHANGED <<store, tries, sends, snap, rsnap, rem, add, reg, hist>>

\* DELETE: DeleteRow(pk).
StartDelete(c) ==
    /\ pc[c] = "idle" /\ started < MaxCalls
    /\ started' = started + 1
    /\ pc' = [pc EXCEPT ![c] = "row"]
    /\ req' = [req EXCEPT ![c] = [op |-> "D", val |-> Null, mode |-> "none", cas |-> NoCas]]
    /\ res' = [res EXCEPT ![c] = "none"]
    /\ UNCHANGED <<store, tries, sends, snap, rsnap, rem, add, reg, hist>>

\* HGETALL row.  An empty row sends a write to the receipt.
Preread(c) ==
    /\ pc[c] = "row"
    /\ ~(req[c].op = "D" /\ row.ver = 0)
    /\ snap' = [snap EXCEPT ![c] = row]
    /\ rsnap' = [rsnap EXCEPT ![c] = {}]
    /\ seen' = [seen EXCEPT ![c] = inc]
    /\ pc' = [pc EXCEPT ![c] = IF row.ver = 0 THEN "rcpt" ELSE "lua"]
    /\ UNCHANGED <<store, req, tries, sends, rem, add, reg, res, started, inc, overlap, fault>>

\* A delete of an empty row: 0 rows affected.
DeleteNothing(c) ==
    /\ pc[c] = "row" /\ req[c].op = "D" /\ row.ver = 0
    /\ Return(c, "zero")
    /\ UNCHANGED <<store, inc, overlap, fault>>

\* HGETALL receipt (primary key revival: the undo list comes from it).
ReadReceipt(c) ==
    /\ pc[c] = "rcpt"
    /\ rsnap' = [rsnap EXCEPT ![c] = rcpt]
    /\ pc' = [pc EXCEPT ![c] = "lua"]
    /\ UNCHANGED <<store, req, tries, sends, snap, rem, add, reg, res, started, hist>>

CasHolds(c) == req[c].cas = NoCas \/ req[c].cas = snap[c].ver

\* ExpectedOldVer does not match the pre-read version: fail fast, no retry.
CasMismatch(c) ==
    /\ pc[c] = "lua" /\ ~CasHolds(c)
    /\ Return(c, "err")
    /\ UNCHANGED <<store, inc, overlap, fault>>

\* A read or the Eval fails for good before anything was committed.
GiveUp(c) ==
    /\ "giveup" \in Faults /\ pc[c] \in {"row", "rcpt", "lua"}
    /\ Return(c, "err")
    /\ UNCHANGED <<store, inc, overlap, fault>>

(***************************************************************************)
(* The row Lua.                                                            *)
(***************************************************************************)

\* Some other call still has index commands to execute that were made for an
\* earlier incarnation of the row: of a row since deleted or expired, or of
\* the receipt its own (re)birth read.
Foreign(d) == pc[d] = "index" /\ (seen[d] # inc \/ rsnap[d] # {})

\* Mutant: the _iv field is not written with the value it stamps.
LuaWNoIv(c) ==
    LET s == snap[c]
        v == req[c].val
        m == req[c].mode
    IN  /\ row' = [ver |-> row.ver + 1,
                   val |-> IF v # Null THEN v
                           ELSE IF s.val # Null THEN Null ELSE row.val,
                   iv  |-> row.iv,
                   ttl |-> IF m = "keep" THEN row.ttl ELSE m = "set"]
        /\ rcpt' = IF m = "none" THEN {} ELSE Receipts(s, v)

\* Mutant: only a birth increments _ver.
LuaWNoBump(c) ==
    LET s == snap[c]
        v == req[c].val
        m == req[c].mode
    IN  /\ row' = [ver |-> IF row.ver = 0 THEN 1 ELSE row.ver,
                   val |-> IF v # Null THEN v
                           ELSE IF s.val # Null THEN Null ELSE row.val,
                   iv  |-> IF Redos(s, v) # {} THEN s.ver + 1 ELSE row.iv,
                   ttl |-> IF m = "keep" THEN row.ttl ELSE m = "set"]
        /\ rcpt' = IF m = "none" THEN {} ELSE Receipts(s, v)

\* HSET fields, HDEL dropped fields, HINCRBY _ver; the receipt is rebuilt.
\* The dropped fields are those of the pre-read row.
LuaW(c) ==
    LET s == snap[c]
        v == req[c].val
        m == req[c].mode
    IN  /\ row' = [ver |-> row.ver + 1,
                   val |-> IF v # Null THEN v
                           ELSE IF s.val # Null THEN Null ELSE row.val,
                   iv  |-> IF Redos(s, v) # {} THEN s.ver + 1 ELSE row.iv,
                   ttl |-> IF m = "keep" THEN row.ttl ELSE m = "set"]
        /\ rcpt' = IF m = "none" THEN {} ELSE Receipts(s, v)

LuaD(c) == row' = NoRow /\ rcpt' = {}

\* History: a birth opens a new incarnation, clean when nobody else is in the
\* middle of an index segment; an update soils the one it updates when it was
\* prepared for another one or meets the commands of another one.
HistW(c, f) ==
    IF row.ver = 0
    THEN /\ inc' = inc + 1
         /\ overlap' = \E d \in Clients \ {c} : pc[d] = "index"
         /\ fault' = f
    ELSE /\ UNCHANGED inc
         /\ overlap' = (overlap \/ seen[c] # inc
                                \/ \E d \in Clients \ {c} : Foreign(d))
         /\ fault' = IF f = "none" THEN fault ELSE f

HistD(f) == fault' = (IF f = "none" THEN fault ELSE f) /\ UNCHANGED <<inc, overlap>>

\* Mutant: the script does not compare versions.
CommitUnchecked(c) == pc[c] = "lua" /\ CasHolds(c)

CommitEnabled(c) ==
    /\ pc[c] = "lua" /\ CasHolds(c) /\ row.ver = snap[c].ver

Commit(c, f) ==
    IF req[c].op = "W" THEN LuaW(c) /\ HistW(c, f) ELSE LuaD(c) /\ HistD(f)

\* Eval replies ok: the index segment follows.
RowLua(c) ==
    /\ CommitEnabled(c)
    /\ Commit(c, "none")
    /\ seen' = [seen EXCEPT ![c] = IF row.ver = 0 THEN inc + 1 ELSE seen[c]]
    /\ pc' = [pc EXCEPT ![c] = "index"]
    /\ sends' = [sends EXCEPT ![c] = 0]
    /\ rem' = [rem EXCEPT ![c] = UndoList(c)]
    /\ add' = [add EXCEPT ![c] = RedoList(c)]
    /\ reg' = [reg EXCEPT ![c] = RegOf(c)]
    /\ UNCHANGED <<idx, exp, req, tries, snap, rsnap, res, started>>

\* The Eval commits but its reply is lost; the retrying client sends it again.
RowLuaReplyLost(c) ==
    /\ "reply" \in Faults /\ sends[c] + 1 < MaxAttempts
    /\ CommitEnabled(c)
    /\ Commit(c, "reply")
    /\ sends' = [sends EXCEPT ![c] = sends[c] + 1]
    /\ UNCHANGED <<idx, exp, pc, req, tries, snap, rsnap, rem, add, reg, res, started, seen>>

\* The version check of the script fails: the whole attempt starts again from
\* the pre-read, or the call gives up.
Stale(c) ==
    /\ pc[c] = "lua" /\ CasHolds(c) /\ row.ver # snap[c].ver
    /\ IF tries[c] + 1 < StaleRetries
       THEN /\ pc' = [pc EXCEPT ![c] = "row"]
            /\ tries' = [tries EXCEPT ![c] = tries[c] + 1]
            /\ sends' = [sends EXCEPT ![c] = 0]
            /\ snap' = [snap EXCEPT ![c] = NoRow]
            /\ rsnap' = [rsnap EXCEPT ![c] = {}]
            /\ seen' = [seen EXCEPT ![c] = 0]
            /\ UNCHANGED <<req, rem, add, reg, res, started>>
       ELSE Return(c, "err")
    /\ UNCHANGED <<store, inc, overlap, fault>>

(***************************************************************************)
(* The index segment: one pipeline over several slots.                     *)
(***************************************************************************)
Zrem(c, m) ==
    /\ pc[c] = "index" /\ m \in rem[c]
    /\ idx' = idx \ {m}
    /\ rem' = [rem EXCEPT ![c] = rem[c] \ {m}]
    /\ UNCHANGED <<row, rcpt, exp, pc, req, tries, sends, snap, rsnap, add, reg, res, started, hist>>

\* Mutant: the ZADDs do not follow the ZREMs of their bucket.
ZaddAnyOrder(c, m) ==
    /\ pc[c] = "index" /\ m \in add[c]
    /\ idx' = idx \cup {m}
    /\ add' = [add EXCEPT ![c] = add[c] \ {m}]
    /\ UNCHANGED <<row, rcpt, exp, pc, req, tries, sends, snap, rsnap, rem, reg, res, started, hist>>

\* Commands on one bucket execute in list order, and the ZREMs come first.
Zadd(c, m) ==
    /\ pc[c] = "index" /\ m \in add[c]
    /\ \A u \in rem[c] : u[1] # m[1]
    /\ idx' = idx \cup {m}
    /\ add' = [add EXCEPT ![c] = add[c] \ {m}]
    /\ UNCHANGED <<row, rcpt, exp, pc, req, tries, sends, snap, rsnap, rem, reg, res, started, hist>>

Register(c) ==
    /\ pc[c] = "index" /\ reg[c] # "skip"
    /\ exp' = IF reg[c] = "rem" THEN "none" ELSE reg[c]
    /\ reg' = [reg EXCEPT ![c] = "skip"]
    /\ UNCHANGED <<row, rcpt, idx, pc, req, tries, sends, snap, rsnap, rem, add, res, started, hist>>

\* A transient pipeline error: WithRetry sends the whole batch again.
Resend(c) ==
    /\ "resend" \in Faults /\ pc[c] = "index" /\ sends[c] + 1 < MaxAttempts
    /\ sends' = [sends EXCEPT ![c] = sends[c] + 1]
    /\ rem' = [rem EXCEPT ![c] = UndoList(c)]
    /\ add' = [add EXCEPT ![c] = RedoList(c)]
    /\ reg' = [reg EXCEPT ![c] = RegOf(c)]
    /\ UNCHANGED <<store, pc, req, tries, snap, rsnap, res, started, hist>>

Drained(c) == rem[c] = {} /\ add[c] = {} /\ reg[c] = "skip"

\* All replies are in: the call returns ok.
Done(c) ==
    /\ pc[c] = "index" /\ Drained(c)
    /\ Return(c, "ok")
    /\ UNCHANGED <<store, inc, overlap, fault>>

\* The pipeline fails for good, or the process dies: what was not executed
\* never will be.
SegmentLost(c) ==
    /\ "segment" \in Faults /\ pc[c] = "index" /\ ~Drained(c)
    /\ Return(c, "err")
    /\ fault' = "segment"
    /\ UNCHANGED <<store, inc, overlap>>

(***************************************************************************)
(* Redis expiry.                                                           *)
(***************************************************************************)
ExpireRow ==
    /\ row.ttl
    /\ row' = NoRow
    /\ UNCHANGED <<rcpt, idx, exp, calls, hist>>

\* The receipt outlives the row by receipt_grace_ms; the fault is that nobody
\* came for it in that time.
ExpireReceipt ==
    /\ "grace" \in Faults /\ row.ver = 0 /\ rcpt # {}
    /\ rcpt' = {}
    /\ UNCHANGED <<row, idx, exp, calls, hist>>

ClientStep(c) ==
    \/ Preread(c) \/ DeleteNothing(c) \/ ReadReceipt(c) \/ CasMismatch(c)
    \/ RowLua(c) \/ Stale(c)
    \/ \E m \in rem[c] : Zrem(c, m)
    \/ \E m \in add[c] : Zadd(c, m)
    \/ Register(c) \/ Done(c)

Start(c) ==
    \/ \E v \in Values \cup {Null}, mode \in Modes, cas \in CasVers \cup {NoCas} :
          StartWrite(c, v, mode, cas)
    \/ StartDelete(c)

Fault(c) == GiveUp(c) \/ RowLuaReplyLost(c) \/ Resend(c) \/ SegmentLost(c)

Next ==
    \/ \E c \in Clients : Start(c) \/ ClientStep(c) \/ Fault(c)
    \/ ExpireRow
    \/ ExpireReceipt

Spec == Init /\ [][Next]_vars

(***************************************************************************)
(* Properties.                                                             *)
(***************************************************************************)
Live == row.ver > 0

\* The types of the store, of the calls' locals and of the history; versions are
\* natural numbers and every command is about a well-formed member.
TypeOK ==
    /\ row \in Row
    /\ rcpt \in SUBSET Member
    /\ idx \in SUBSET Member
    /\ exp \in {"none", "inf", "due"}
    /\ pc \in [Clients -> {"idle", "row", "rcpt", "lua", "index"}]
    /\ req \in [Clients -> Req]
    /\ tries \in [Clients -> Nat]
    /\ sends \in [Clients -> Nat]
    /\ snap \in [Clients -> Row]
    /\ rsnap \in [Clients -> SUBSET Member]
    /\ rem \in [Clients -> SUBSET Member]
    /\ add \in [Clients -> SUBSET Member]
    /\ reg \in [Clients -> RegCmds]
    /\ res \in [Clients -> {"none", "ok", "zero", "err"}]
    /\ started \in Nat
    /\ inc \in Nat
    /\ seen \in [Clients -> Nat]
    /\ overlap \in BOOLEAN
    /\ fault \in {"none", "segment", "reply"}

\* The live row's member is in its bucket, or a call still has to add it.
Indexed ==
    row.val # Null =>
        \/ MemberOf(row) \in idx
        \/ \E c \in Clients : MemberOf(row) \in add[c]

\* The version-stamped members keep a live row findable: however the index
\* segments of concurrent updates are delayed, reordered and re-sent, no ZREM
\* removes the member of the current value (docs/05 5.1, "no missing row"),
\* as long as no commit of this incarnation of the row lost its segment and
\* none met the commands of an earlier incarnation.
NoMiss == (~overlap /\ fault = "none") => Indexed

\* Every live row has an entry in the expiry register, or a call still has to
\* make it: COUNT, full scans and the sweeper only see registered rows.
Registered ==
    (Live /\ ~overlap /\ fault = "none") =>
        \/ exp # "none"
        \/ \E c \in Clients : reg[c] \in {"inf", "due"}

\* When a row can expire, its receipt names exactly the member the sweeper has
\* to remove: the receipt is the only source of that information once the row
\* is gone.
ReceiptCoversRow ==
    (row.ttl /\ ~overlap) =>
        rcpt = IF row.val = Null THEN {} ELSE {MemberOf(row)}

\* Optimistic locking: a call whose version check will pass was prepared from
\* the row as it stands, unless the row died and was born again in between.
NoLostUpdate ==
    \A c \in Clients :
        (pc[c] = "lua" /\ seen[c] = inc /\ snap[c].ver = row.ver)
            => /\ snap[c].val = row.val
               /\ snap[c].iv = row.iv

(***************************************************************************)
(* The inductive strengthening of the invariants above.                    *)
(***************************************************************************)
RowShape ==
    /\ row.ver = 0 => row = NoRow
    /\ row.iv <= row.ver
    /\ (~overlap /\ row.val # Null) => row.iv > 0

\* A pre-read row of this incarnation is the row, or an older version of it.
SnapOK(c) ==
    /\ seen[c] <= inc
    /\ snap[c].ver = 0 => snap[c] = NoRow
    /\ snap[c].ver # 0 => rsnap[c] = {}
    /\ snap[c].iv <= snap[c].ver
    /\ (pc[c] \in {"rcpt", "lua"} /\ seen[c] = inc) =>
          /\ snap[c].ver = 0 => row.ver = 0
          /\ row.ver = 0 \/ snap[c].ver <= row.ver
          /\ row.ver = snap[c].ver => row = snap[c]
    /\ pc[c] = "rcpt" => snap[c].ver = 0 /\ req[c].op = "W"
    /\ (pc[c] = "lua" /\ req[c].op = "D") => snap[c].ver # 0

SnapShape == \A c \in Clients : SnapOK(c)

\* The outstanding commands belong to a call in its index segment, are among
\* the listed ones, and a ZADD waits for the ZREMs of its bucket.
SegmentOK(c) ==
    /\ pc[c] # "index" => Drained(c)
    /\ rem[c] \subseteq UndoList(c) /\ add[c] \subseteq RedoList(c)
    /\ reg[c] \in {"skip", RegOf(c)}
    /\ pc[c] = "index" =>
          \A u \in rem[c], m \in RedoList(c) : u[1] = m[1] => m \in add[c]

SegmentShape == \A c \in Clients : SegmentOK(c)

\* While a clean row lives, every index segment is about this incarnation, none
\* is a delete's, and what a segment removes is stamped below the row's member;
\* only a birth that undoes a receipt may name it, and then it also adds it.
UndoOK(c) ==
    (pc[c] = "index" /\ Live /\ ~overlap) =>
        /\ seen[c] = inc
        /\ req[c].op = "W"
        /\ rsnap[c] = {} =>
              \A u \in UndoList(c) :
                  u[2] <= row.ver /\ (row.val = Null \/ u[2] < row.iv)
        /\ rsnap[c] # {} =>
              row.val = Null \/ RedoList(c) = {MemberOf(row)}

UndoIsOlder == \A c \in Clients : UndoOK(c)

\* What every step preserves whatever the index and the register hold.
Base ==
    /\ TypeOK
    /\ RowShape
    /\ SnapShape
    /\ SegmentShape
    /\ UndoIsOlder
    /\ ReceiptCoversRow

\* NoMiss and its companions hold because of these facts, and together they are
\* preserved by every step.
IInv == Base /\ NoMiss /\ Registered

\* What a step may never do: while a row lives, its version moves by one step at
\* a time and a new indexed value takes a stamp above every earlier one (the
\* HINCRBY of the row Lua and the _iv field agree), unless the writer was
\* prepared for another incarnation.
VersionsGrow ==
    [][ (row'.ver # 0 /\ row.ver # 0 /\ ~overlap') =>
            /\ row'.ver \in {row.ver, row.ver + 1}
            /\ row'.val # row.val /\ row'.val # Null
                 => row'.iv = row'.ver /\ row'.iv > row.iv ]_vars

(***************************************************************************)
(* What the documentation says and the code does not do.                   *)
(***************************************************************************)

\* docs/05 5.1: members of different versions are different, so no delay or
\* interleaving removes a live member.  (Deletes and expiry reset _ver.)
UndoNeverHitsLiveMember == fault = "none" => Indexed

\* docs/05 5.1, 5.6 and txguard.go: a failed or unanswered write converges when
\* it is repeated.  When the last call of every client returned ok, the row's
\* value is indexed.
AcknowledgedIndexed ==
    (~overlap /\ \A c \in Clients : pc[c] = "idle" /\ res[c] = "ok") => Indexed
=============================================================================
