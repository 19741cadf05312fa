------------------------------- MODULE AsyncLog -------------------------------
(***************************************************************************)
(* An asynchronous index: the row Lua appends what changed to a log in the *)
(* row's slot (script/lua/write_row.lua), and the indexer role of every    *)
(* instance replays the log into the index's bucket 0 (indexer/indexer.go, *)
(* gateway/roles.go indexerLoop), without a lock.                          *)
(*                                                                         *)
(* One index and the log of one slot.  A statement is one step: its row Lua*)
(* commits only if the row still has the version its entry was made from.  *)
(***************************************************************************)
EXTENDS Naturals, Sequences

CONSTANTS
    Consumers,  \* instances that run the indexer role
    Pks,        \* rows of the slot
    Values,     \* values of the indexed column
    None,       \* NULL
    Empty,      \* the value ''
    Batch,      \* tuning indexer batch
    LogCap,     \* tuning txguard.async_log_capacity
    MaxVer,     \* bound: versions of a row
    MaxWrites,  \* bound: statements and expiries
    MaxFaults   \* bound: crashes of a consumer and commands that fail

ASSUME AsyncLogAssumption ==
    /\ Batch \in Nat \ {0} /\ LogCap \in Nat \ {0} /\ MaxVer \in Nat /\ MaxWrites \in Nat /\ MaxFaults \in Nat
    /\ None \notin Values /\ Empty \in Values

VARIABLES
    row,     \* per pk: _ver (0: no row), the column, its _iv
    log,     \* log:idx:{table}:{idx}:{slot}
    bucket,  \* the members: <<value, pk, stamp>>
    dlq,     \* dlq:idx:{table}:{idx}
    con,     \* per consumer: where it is and the entries it has read; late: another one has
             \* trimmed the log since
    sound,   \* history: no batch failed for good, and no consumer got in the way of another
    writes,  \* the number of statements so far
    faults   \* the number of faults so far

vars == <<row, log, bucket, dlq, con, sound, writes, faults>>

NoRow == [ver |-> 0, val |-> None, iv |-> 0]
Idle == [pc |-> "idle", batch |-> <<>>, late |-> FALSE]

Init ==
    /\ row = [p \in Pks |-> NoRow]
    /\ log = <<>> /\ bucket = {} /\ dlq = <<>>
    /\ con = [c \in Consumers |-> Idle]
    /\ sound = TRUE /\ writes = 0 /\ faults = 0

(***************************************************************************)
(* Statements.                                                             *)
(***************************************************************************)
\* escLogField: in an entry NULL and '' are the same.
EscLogField(v) == IF v = None THEN Empty ELSE v

\* The entry: the old value with the version that wrote it, the new value with the
\* version of this write.
Entry(p, r, v, ver) ==
    [pk |-> p, old |-> EscLogField(r.val), oiv |-> r.iv, new |-> EscLogField(v), ver |-> ver]

Statement == writes < MaxWrites /\ writes' = writes + 1 /\ UNCHANGED <<bucket, dlq, con, sound, faults>>

\* A full log stops the script before it has written anything.
AppendLog(e) == Len(log) < LogCap /\ log' = Append(log, e)

\* An unchanged value is not logged.
Write(p, v) ==
    /\ Statement /\ row[p].ver < MaxVer
    /\ LET r == row[p]
       IN  IF r.val = v
           THEN row' = [row EXCEPT ![p].ver = @ + 1] /\ UNCHANGED log
           ELSE /\ AppendLog(Entry(p, r, v, r.ver + 1))
                /\ row' = [row EXCEPT ![p] = [ver |-> r.ver + 1, val |-> v, iv |-> r.ver + 1]]

\* The tombstone has no new value.
Delete(p) ==
    /\ Statement /\ row[p].ver > 0
    /\ IF row[p].val = None THEN UNCHANGED log ELSE AppendLog(Entry(p, row[p], None, row[p].ver))
    /\ row' = [row EXCEPT ![p] = NoRow]

\* DeleteRow takes log_full for the answer that there was no row: the row stays and the
\* statement ends without an error.  (A row of version 1 is even reported as deleted, and
\* loses its register entry, which is not of this module.)
DeleteFull(p) ==
    /\ Statement /\ row[p].ver > 0 /\ row[p].val # None /\ Len(log) >= LogCap
    /\ UNCHANGED <<row, log>>

\* The TTL of a row: nobody logs it.
Expire(p) ==
    /\ Statement /\ row[p].ver > 0
    /\ row' = [row EXCEPT ![p] = NoRow]
    /\ UNCHANGED log

(***************************************************************************)
(* ConsumeLog.                                                             *)
(***************************************************************************)
\* Mutant: the ZREM is made from the version of this write.
UndoNewVersion(e) == IF e.old = Empty THEN {} ELSE {<<e.old, e.pk, e.ver>>}

\* ZREM of the old member; the empty string stands for no value.
Undo(e) == IF e.old = Empty THEN {} ELSE {<<e.old, e.pk, e.oiv>>}

\* ZADD of the new one.
Redo(e) == IF e.new = Empty THEN {} ELSE {<<e.new, e.pk, e.ver>>}

\* What the ZREM and the ZADD of each entry, in the order of the list, make of bucket b:
\* of b what no entry removes, and what an entry adds and no later one removes.
ReplayAll(b, es) ==
    {m \in b : \A j \in DOMAIN es : m \notin Undo(es[j])}
        \cup UNION {{m \in Redo(es[i]) : \A j \in DOMAIN es : i < j => m \notin Undo(es[j])} : i \in DOMAIN es}

Goto(c, l) == con' = [con EXCEPT ![c].pc = l]

ReadLog(c) ==
    /\ con[c].pc = "idle" /\ log # <<>>
    /\ con' = [con EXCEPT ![c] = [pc |-> "apply", late |-> FALSE,
                 batch |-> SubSeq(log, 1, IF Len(log) < Batch THEN Len(log) ELSE Batch)]]
    /\ UNCHANGED <<row, log, bucket, dlq, sound, writes, faults>>

\* A consumer applies entries that others have trimmed, or, of those that another has
\* applied and is about to trim, only the first.
Behind(c) ==
    \/ con[c].late
    \/ \E d \in Consumers : con[d].pc = "trim" /\ ~con[d].late /\ Len(con[d].batch) > Len(con[c].batch)

Apply(c) ==
    /\ con[c].pc = "apply"
    /\ bucket' = ReplayAll(bucket, con[c].batch)
    /\ sound' = (sound /\ ~Behind(c))
    /\ Goto(c, "trim")
    /\ UNCHANGED <<row, log, dlq, writes, faults>>

Fault == faults < MaxFaults /\ faults' = faults + 1

\* The pipeline fails, some of its commands executed; the retry goes through.
ApplyTwice(c) ==
    /\ Fault /\ con[c].pc = "apply"
    /\ \E n \in 0 .. Len(con[c].batch) :
          bucket' = ReplayAll(ReplayAll(bucket, SubSeq(con[c].batch, 1, n)), con[c].batch)
    /\ sound' = (sound /\ ~Behind(c))
    /\ Goto(c, "trim")
    /\ UNCHANGED <<row, log, dlq, writes>>

\* The retry fails too: the batch goes to the dead letters, if their RPUSH does not fail
\* as well, and is trimmed all the same.
ApplyFails(c) ==
    /\ Fault /\ con[c].pc = "apply"
    /\ \E n \in 0 .. Len(con[c].batch) : bucket' = ReplayAll(bucket, SubSeq(con[c].batch, 1, n))
    /\ dlq' \in {dlq, dlq \o con[c].batch}
    /\ sound' = FALSE
    /\ Goto(c, "trim")
    /\ UNCHANGED <<row, log, writes>>

\* Mutant: all of the log goes, what came in since the read too.
RestAll(c) == <<>>

\* LTRIM counts from the head of the list as it is now.
Rest(c) == SubSeq(log, Len(con[c].batch) + 1, Len(log))

Trim(c) ==
    /\ con[c].pc = "trim"
    /\ log' = Rest(c)
    /\ sound' = (sound /\ ~con[c].late)
    /\ con' = [d \in Consumers |-> IF d = c THEN Idle ELSE [con[d] EXCEPT !.late = (con[d].pc # "idle")]]
    /\ UNCHANGED <<row, bucket, dlq, writes, faults>>

\* LTRIM fails, or the instance dies: the entries will be read again.
Abandon(c) ==
    /\ Fault /\ con[c].pc # "idle"
    /\ con' = [con EXCEPT ![c] = Idle]
    /\ UNCHANGED <<row, log, bucket, dlq, sound, writes>>

Consume(c) == ReadLog(c) \/ Apply(c) \/ Trim(c)

Next ==
    \/ \E p \in Pks : Delete(p) \/ DeleteFull(p) \/ Expire(p) \/ \E v \in Values \cup {None} : Write(p, v)
    \/ \E c \in Consumers : Consume(c) \/ ApplyTwice(c) \/ ApplyFails(c) \/ Abandon(c)

Spec == Init /\ [][Next]_vars

\* indexerLoop goes round for ever.
FairSpec == Spec /\ \A c \in Consumers : WF_vars(Consume(c))

(***************************************************************************)
(* Properties.                                                             *)
(***************************************************************************)
Member == Values \X Pks \X Nat
Row == [ver : Nat, val : Values \cup {None}, iv : Nat]
LogEntry == [pk : Pks, old : Values, oiv : Nat, new : Values, ver : Nat]
Consumer == [pc : {"idle", "apply", "trim"}, batch : Seq(LogEntry), late : BOOLEAN]

\* The types of the store and of the consumers' locals; the log respects its capacity,
\* and a consumer at work has something to do.
TypeOK ==
    /\ row \in [Pks -> Row]
    /\ log \in Seq(LogEntry) /\ dlq \in Seq(LogEntry) /\ Len(log) <= LogCap
    /\ bucket \subseteq Member
    /\ con \in [Consumers -> Consumer]
    /\ \A c \in Consumers : con[c].pc = "idle" <=> con[c].batch = <<>>
    /\ sound \in BOOLEAN /\ writes \in Nat /\ faults \in Nat

\* The bucket with the pending log replayed is, at every step, the index that a
\* synchronous write would have (but for ''): the reads, partial pipelines, retries,
\* crashes and failed LTRIMs of any number of consumers change nothing, and no entry is
\* lost or replayed out of order (indexer.go: "ZSet dedup absorbs it"), until a batch
\* fails for good or one consumer trims under another.
Sync == INSTANCE SyncIndex WITH idx <- ReplayAll(bucket, log)
ImplementsSync == Sync!Spec

\* roles.go: "several consumers need no lock, what is consumed twice is absorbed".  Once
\* the log is empty and nobody is at work on it, every live row has its member.
Converged ==
    (log = <<>> /\ sound /\ \A c \in Consumers : con[c].pc = "idle") =>
        \A p \in Pks : row[p].val \notin {None, Empty} => <<row[p].val, p, row[p].iv>> \in bucket

\* A committed value becomes findable, unless the row changes again, a batch fails for
\* good or one consumer trims under another.
EventuallyIndexed ==
    \A p \in Pks, v \in Values \ {Empty}, n \in 1 .. MaxVer :
        (row[p].val = v /\ row[p].iv = n)
            ~> (<<v, p, n>> \in bucket \/ row[p].val # v \/ row[p].iv # n \/ ~sound)
=============================================================================
