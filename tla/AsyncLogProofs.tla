--------------------------- MODULE AsyncLogProofs ---------------------------
(***************************************************************************)
(* The change log and its consumers implement SyncIndex, for any rows,     *)
(* values, consumers, batch size and log capacity, and any number of       *)
(* statements and faults: the refinement that the run AsyncLog checks.     *)
(***************************************************************************)
EXTENDS AsyncLog, SequenceTheorems, TLAPS

(***************************************************************************)
(* ReplayAll.                                                              *)
(***************************************************************************)
\* A member is in the replayed bucket when it was there and no entry removes it, or
\* some entry adds it and no later one removes it.
LEMMA ReplayMember ==
    ASSUME NEW b, NEW es, NEW m
    PROVE  m \in ReplayAll(b, es) <=>
              \/ m \in b /\ \A j \in DOMAIN es : m \notin Undo(es[j])
              \/ \E i \in DOMAIN es : m \in Redo(es[i]) /\ \A j \in DOMAIN es : i < j => m \notin Undo(es[j])
<1> DEFINE Kept == {x \in b : \A j \in DOMAIN es : x \notin Undo(es[j])}
           Added(i) == {x \in Redo(es[i]) : \A j \in DOMAIN es : i < j => x \notin Undo(es[j])}
<1>1. m \in ReplayAll(b, es) <=> m \in Kept \/ \E i \in DOMAIN es : m \in Added(i)
  <2> HIDE DEF Kept, Added
  <2>1. m \in UNION {Added(i) : i \in DOMAIN es} <=> \E i \in DOMAIN es : m \in Added(i) BY Zenon
  <2>2. ReplayAll(b, es) = Kept \cup UNION {Added(i) : i \in DOMAIN es} BY Zenon DEF ReplayAll, Kept, Added
  <2>3. QED BY <2>1, <2>2
<1>2. QED BY <1>1

\* A statement's entry does to the replayed bucket what the statement does to the index.
LEMMA ReplayAppend ==
    ASSUME NEW b, NEW S, NEW es \in Seq(S), NEW e
    PROVE  ReplayAll(b, Append(es, e)) = (ReplayAll(b, es) \ Undo(e)) \cup Redo(e)
<1> DEFINE fs == Append(es, e)
<1>1. /\ Len(es) \in Nat /\ DOMAIN es = 1 .. Len(es) /\ DOMAIN fs = 1 .. Len(es) + 1
      /\ fs[Len(es) + 1] = e /\ \A i \in DOMAIN es : fs[i] = es[i]
  OBVIOUS
<1> HIDE DEF fs
<1>2. ASSUME NEW m PROVE m \in ReplayAll(b, fs) <=> m \in (ReplayAll(b, es) \ Undo(e)) \cup Redo(e)
  <2>1. (\A j \in DOMAIN fs : m \notin Undo(fs[j])) <=> (\A j \in DOMAIN es : m \notin Undo(es[j])) /\ m \notin Undo(e)
    BY <1>1
  <2>2. (\E i \in DOMAIN fs : m \in Redo(fs[i]) /\ \A j \in DOMAIN fs : i < j => m \notin Undo(fs[j]))
        <=> \/ m \in Redo(e)
            \/ /\ m \notin Undo(e)
               /\ \E i \in DOMAIN es : m \in Redo(es[i]) /\ \A j \in DOMAIN es : i < j => m \notin Undo(es[j])
    <3>1. ASSUME NEW i \in DOMAIN fs, m \in Redo(fs[i]), \A j \in DOMAIN fs : i < j => m \notin Undo(fs[j]), m \notin Redo(e)
          PROVE  /\ m \notin Undo(e)
                 /\ \E k \in DOMAIN es : m \in Redo(es[k]) /\ \A j \in DOMAIN es : k < j => m \notin Undo(es[j])
      BY <1>1, <3>1
    <3>2. m \in Redo(e) =>
            \E i \in DOMAIN fs : m \in Redo(fs[i]) /\ \A j \in DOMAIN fs : i < j => m \notin Undo(fs[j])
      <4> SUFFICES ASSUME m \in Redo(e)
                   PROVE  \E i \in DOMAIN fs : m \in Redo(fs[i]) /\ \A j \in DOMAIN fs : i < j => m \notin Undo(fs[j])
        OBVIOUS
      <4>1. Len(es) + 1 \in DOMAIN fs /\ m \in Redo(fs[Len(es) + 1]) /\ \A j \in DOMAIN fs : ~(Len(es) + 1 < j) BY <1>1
      <4>2. QED BY <4>1
    <3>3. ASSUME m \notin Undo(e), NEW i \in DOMAIN es, m \in Redo(es[i]),
                 \A j \in DOMAIN es : i < j => m \notin Undo(es[j])
          PROVE  i \in DOMAIN fs /\ m \in Redo(fs[i]) /\ \A j \in DOMAIN fs : i < j => m \notin Undo(fs[j])
      BY <1>1, <3>3
    <3>4. QED BY <3>1, <3>2, <3>3
  <2>3. QED BY <2>1, <2>2, ReplayMember
<1>3. QED BY <1>2 DEF fs

\* Entries that are still in the log may be replayed ahead of it: the log absorbs them.
LEMMA ReplayAbsorbs ==
    ASSUME NEW b, NEW es, NEW pre, \A i \in DOMAIN pre : i \in DOMAIN es /\ pre[i] = es[i],
           DOMAIN es \subseteq Nat
    PROVE  ReplayAll(ReplayAll(b, pre), es) = ReplayAll(b, es)
<1>1. ASSUME NEW m PROVE m \in ReplayAll(ReplayAll(b, pre), es) <=> m \in ReplayAll(b, es)
  <2>1. ASSUME \A j \in DOMAIN es : m \notin Undo(es[j]), m \in ReplayAll(b, pre)
        PROVE  m \in ReplayAll(b, es)
    <3>1. CASE m \in b BY <2>1, <3>1, ReplayMember
    <3>2. CASE m \notin b
      <4>1. PICK i \in DOMAIN pre : m \in Redo(pre[i]) BY <2>1, <3>2, ReplayMember
      <4>2. i \in DOMAIN es /\ m \in Redo(es[i]) BY <4>1
      <4>3. QED BY <2>1, <4>2, ReplayMember
    <3>3. QED BY <3>1, <3>2
  <2>2. ASSUME \A j \in DOMAIN es : m \notin Undo(es[j]), m \in b
        PROVE  m \in ReplayAll(b, pre)
    <3>1. \A j \in DOMAIN pre : m \notin Undo(pre[j]) BY <2>2
    <3>2. QED BY <2>2, <3>1, ReplayMember
  <2>3. m \in ReplayAll(ReplayAll(b, pre), es) <=>
              \/ m \in ReplayAll(b, pre) /\ \A j \in DOMAIN es : m \notin Undo(es[j])
              \/ \E i \in DOMAIN es : m \in Redo(es[i]) /\ \A j \in DOMAIN es : i < j => m \notin Undo(es[j])
    BY ReplayMember
  <2>4. m \in ReplayAll(b, es) <=>
              \/ m \in b /\ \A j \in DOMAIN es : m \notin Undo(es[j])
              \/ \E i \in DOMAIN es : m \in Redo(es[i]) /\ \A j \in DOMAIN es : i < j => m \notin Undo(es[j])
    BY ReplayMember
  <2>5. QED BY <2>1, <2>2, <2>3, <2>4
<1>2. QED BY <1>1

\* A list can be replayed in two parts.
LEMMA ReplaySplits ==
    ASSUME NEW b, NEW S, NEW es \in Seq(S), NEW n \in 0 .. Len(es)
    PROVE  ReplayAll(ReplayAll(b, SubSeq(es, 1, n)), SubSeq(es, n + 1, Len(es))) = ReplayAll(b, es)
<1> DEFINE pre == SubSeq(es, 1, n)
           rest == SubSeq(es, n + 1, Len(es))
<1>0. Len(es) \in Nat /\ n \in Nat /\ n <= Len(es) /\ DOMAIN es = 1 .. Len(es) OBVIOUS
<1>1. DOMAIN pre = 1 .. n /\ \A i \in 1 .. n : pre[i] = es[i] BY <1>0
<1>2. DOMAIN rest = 1 .. Len(es) - n /\ \A i \in 1 .. Len(es) - n : rest[i] = es[n + i] BY <1>0
<1> HIDE DEF pre, rest
<1>3. \A j \in DOMAIN es : j \in DOMAIN pre \/ (j - n \in DOMAIN rest /\ es[j] = rest[j - n] /\ n < j)
  BY <1>0, <1>1, <1>2
<1>4. \A j \in DOMAIN rest : n + j \in DOMAIN es /\ rest[j] = es[n + j] BY <1>0, <1>2
<1>5. ASSUME NEW m PROVE m \in ReplayAll(ReplayAll(b, pre), rest) <=> m \in ReplayAll(b, es)
  <2>1. (\A j \in DOMAIN es : m \notin Undo(es[j]))
        <=> (\A j \in DOMAIN pre : m \notin Undo(pre[j])) /\ (\A j \in DOMAIN rest : m \notin Undo(rest[j]))
    BY <1>0, <1>1, <1>3, <1>4
  <2>2. ASSUME NEW i \in DOMAIN pre
        PROVE  (\A j \in DOMAIN es : i < j => m \notin Undo(es[j]))
               <=> (\A j \in DOMAIN pre : i < j => m \notin Undo(pre[j])) /\ (\A j \in DOMAIN rest : m \notin Undo(rest[j]))
    <3>1. i \in Nat /\ i <= n BY <1>0, <1>1
    <3>2. \A j \in DOMAIN rest : i < n + j BY <1>0, <1>2, <3>1
    <3>3. QED BY <1>0, <1>1, <1>3, <1>4, <3>1, <3>2
  <2>3. ASSUME NEW i \in DOMAIN rest
        PROVE  (\A j \in DOMAIN es : n + i < j => m \notin Undo(es[j]))
               <=> (\A j \in DOMAIN rest : i < j => m \notin Undo(rest[j]))
    <3>1. i \in Nat BY <1>0, <1>2
    <3>2. \A j \in DOMAIN es : n + i < j => j - n \in DOMAIN rest /\ es[j] = rest[j - n] /\ i < j - n
      BY <1>0, <1>1, <1>2, <3>1
    <3>3. \A j \in DOMAIN rest : i < j => n + i < n + j BY <1>0, <1>2, <3>1
    <3>4. QED BY <1>4, <3>2, <3>3
  <2>4. ASSUME m \in ReplayAll(ReplayAll(b, pre), rest) PROVE m \in ReplayAll(b, es)
    <3>1. CASE m \in ReplayAll(b, pre) /\ \A j \in DOMAIN rest : m \notin Undo(rest[j])
      <4>1. CASE m \in b /\ \A j \in DOMAIN pre : m \notin Undo(pre[j])
        BY <2>1, <3>1, <4>1, ReplayMember
      <4>2. CASE \E i \in DOMAIN pre : m \in Redo(pre[i]) /\ \A j \in DOMAIN pre : i < j => m \notin Undo(pre[j])
        <5>1. PICK i \in DOMAIN pre : m \in Redo(pre[i]) /\ \A j \in DOMAIN pre : i < j => m \notin Undo(pre[j])
          BY <4>2
        <5>2. i \in DOMAIN es /\ m \in Redo(es[i]) BY <1>0, <1>1, <5>1
        <5>3. \A j \in DOMAIN es : i < j => m \notin Undo(es[j]) BY <2>2, <3>1, <5>1
        <5>4. QED BY <5>2, <5>3, ReplayMember
      <4>3. QED BY <3>1, <4>1, <4>2, ReplayMember
    <3>2. CASE \E i \in DOMAIN rest : m \in Redo(rest[i]) /\ \A j \in DOMAIN rest : i < j => m \notin Undo(rest[j])
      <4>1. PICK i \in DOMAIN rest : m \in Redo(rest[i]) /\ \A j \in DOMAIN rest : i < j => m \notin Undo(rest[j])
        BY <3>2
      <4>2. n + i \in DOMAIN es /\ m \in Redo(es[n + i]) BY <1>4, <4>1
      <4>3. \A j \in DOMAIN es : n + i < j => m \notin Undo(es[j]) BY <2>3, <4>1
      <4>4. QED BY <4>2, <4>3, ReplayMember
    <3>3. QED BY <2>4, <3>1, <3>2, ReplayMember
  <2>5. ASSUME m \in ReplayAll(b, es) PROVE m \in ReplayAll(ReplayAll(b, pre), rest)
    <3>1. CASE m \in b /\ \A j \in DOMAIN es : m \notin Undo(es[j])
      <4>1. m \in ReplayAll(b, pre) BY <2>1, <3>1, ReplayMember
      <4>2. QED BY <2>1, <3>1, <4>1, ReplayMember
    <3>2. CASE \E i \in DOMAIN es : m \in Redo(es[i]) /\ \A j \in DOMAIN es : i < j => m \notin Undo(es[j])
      <4>1. PICK i \in DOMAIN es : m \in Redo(es[i]) /\ \A j \in DOMAIN es : i < j => m \notin Undo(es[j])
        BY <3>2
      <4>2. CASE i \in DOMAIN pre
        <5>1. m \in Redo(pre[i]) BY <1>1, <4>1, <4>2
        <5>2. m \in ReplayAll(b, pre) BY <2>2, <4>1, <4>2, <5>1, ReplayMember
        <5>3. QED BY <2>2, <4>1, <4>2, <5>2, ReplayMember
      <4>3. CASE i \notin DOMAIN pre
        <5>1. PICK k \in DOMAIN rest : i = n + k BY <1>0, <1>2, <1>3, <4>3
        <5>2. m \in Redo(rest[k]) BY <1>4, <4>1, <5>1
        <5>3. \A j \in DOMAIN rest : k < j => m \notin Undo(rest[j]) BY <2>3, <4>1, <5>1
        <5>4. QED BY <5>2, <5>3, ReplayMember
      <4>4. QED BY <4>2, <4>3
    <3>3. QED BY <2>5, <3>1, <3>2, ReplayMember
  <2>6. QED BY <2>4, <2>5
<1>6. QED BY <1>5 DEF pre, rest

\* Once the first n entries of the log are in the bucket, any shorter prefix of it may go.
LEMMA ReplayAhead ==
    ASSUME NEW b, NEW S, NEW q \in Seq(S), NEW n \in 0 .. Len(q), NEW k \in 0 .. n
    PROVE  ReplayAll(ReplayAll(b, SubSeq(q, 1, n)), SubSeq(q, k + 1, Len(q))) = ReplayAll(b, q)
<1> DEFINE es == SubSeq(q, 1, n)
           mid == SubSeq(es, k + 1, Len(es))
           tail == SubSeq(q, k + 1, Len(q))
<1>0. Len(q) \in Nat /\ n \in Nat /\ n <= Len(q) /\ k \in Nat /\ k <= n OBVIOUS
<1>1. es \in Seq(S) /\ Len(es) = n /\ DOMAIN es = 1 .. n /\ \A i \in 1 .. n : es[i] = q[i] BY <1>0
<1>2. DOMAIN tail = 1 .. Len(q) - k /\ \A i \in 1 .. Len(q) - k : tail[i] = q[k + i] BY <1>0
<1> HIDE DEF es
<1>3. DOMAIN mid = 1 .. n - k /\ \A i \in 1 .. n - k : mid[i] = es[k + i] BY <1>0, <1>1
<1>4. SubSeq(es, 1, k) = SubSeq(q, 1, k)
  <2>1. SubSeq(es, 1, k) \in Seq(S) /\ Len(SubSeq(es, 1, k)) = k /\ \A i \in 1 .. k : SubSeq(es, 1, k)[i] = es[i]
    BY <1>0, <1>1
  <2>2. SubSeq(q, 1, k) \in Seq(S) /\ Len(SubSeq(q, 1, k)) = k /\ \A i \in 1 .. k : SubSeq(q, 1, k)[i] = q[i]
    BY <1>0
  <2>3. \A i \in 1 .. k : SubSeq(es, 1, k)[i] = SubSeq(q, 1, k)[i] BY <1>0, <1>1, <2>1, <2>2
  <2>4. QED BY <2>1, <2>2, <2>3, SeqEqual
<1>5. \A i \in DOMAIN mid : i \in DOMAIN tail /\ mid[i] = tail[i] BY <1>0, <1>1, <1>2, <1>3
<1>6. DOMAIN tail \subseteq Nat BY <1>0, <1>2
<1>7. ReplayAll(ReplayAll(b, SubSeq(es, 1, k)), mid) = ReplayAll(b, es) BY <1>0, <1>1, ReplaySplits
<1>8. ReplayAll(ReplayAll(b, SubSeq(q, 1, k)), tail) = ReplayAll(b, q) BY <1>0, ReplaySplits
<1> HIDE DEF mid, tail
<1>9. ReplayAll(ReplayAll(ReplayAll(b, SubSeq(es, 1, k)), mid), tail) = ReplayAll(ReplayAll(b, SubSeq(es, 1, k)), tail)
  BY <1>5, <1>6, ReplayAbsorbs
<1>10. ReplayAll(ReplayAll(b, es), tail) = ReplayAll(b, q) BY <1>4, <1>7, <1>8, <1>9
<1>11. QED BY <1>10 DEF es, tail

\* What is left of a list after its first k entries grows at its end.
LEMMA SubSeqAppend ==
    ASSUME NEW S, NEW q \in Seq(S), NEW e \in S, NEW k \in 0 .. Len(q)
    PROVE  SubSeq(Append(q, e), k + 1, Len(q) + 1) = Append(SubSeq(q, k + 1, Len(q)), e)
<1>0. Len(q) \in Nat /\ k \in Nat /\ k <= Len(q) OBVIOUS
<1>1. PICK n \in Nat : n = Len(q) BY <1>0
<1>2. PICK f : f = Append(q, e) OBVIOUS
<1>3. f \in Seq(S) /\ Len(f) = n + 1 /\ f[n + 1] = e /\ \A i \in 1 .. n : f[i] = q[i] BY <1>1, <1>2
<1>4. PICK g : g = SubSeq(f, k + 1, n + 1) OBVIOUS
<1>5. g \in Seq(S) /\ Len(g) = n + 1 - k /\ \A i \in 1 .. n + 1 - k : g[i] = f[k + i]
  BY <1>0, <1>1, <1>3, <1>4, SubSeqProperties
<1>6. PICK t : t = SubSeq(q, k + 1, n) OBVIOUS
<1>7. t \in Seq(S) /\ Len(t) = n - k /\ \A i \in 1 .. n - k : t[i] = q[k + i]
  BY <1>0, <1>1, <1>6, SubSeqProperties
<1>8. PICK a : a = Append(t, e) OBVIOUS
<1>9. a \in Seq(S) /\ Len(a) = n - k + 1 /\ a[n - k + 1] = e /\ \A i \in 1 .. n - k : a[i] = t[i]
  BY <1>0, <1>1, <1>7, <1>8
<1>10. ASSUME NEW i \in 1 .. n + 1 - k PROVE g[i] = a[i]
  <2>1. CASE i = n + 1 - k BY <1>0, <1>1, <1>3, <1>5, <1>9, <2>1
  <2>2. CASE i # n + 1 - k
    <3>1. i \in 1 .. n - k /\ k + i \in 1 .. n BY <1>0, <1>1, <2>2
    <3>2. QED BY <1>3, <1>5, <1>7, <1>9, <3>1
  <2>3. QED BY <2>1, <2>2
<1>11. Len(g) = Len(a) /\ \A i \in 1 .. Len(g) : g[i] = a[i] BY <1>0, <1>1, <1>5, <1>9, <1>10
<1>12. g = a BY <1>5, <1>9, <1>11, SeqEqual
<1>13. QED BY <1>1, <1>2, <1>4, <1>6, <1>8, <1>12

(***************************************************************************)
(* The inductive invariant.                                                *)
(***************************************************************************)
\* What a consumer has read is the head of the log, until another one trims it.
HeadOf(c) == ~con[c].late =>
    Len(con[c].batch) <= Len(log) /\ con[c].batch = SubSeq(log, 1, Len(con[c].batch))
BatchIsHead == \A c \in Consumers : HeadOf(c)

\* Without a batch that is about to be trimmed the log replays to the same.
MayGo(c) == (con[c].pc = "trim" /\ ~con[c].late) =>
    ReplayAll(bucket, SubSeq(log, Len(con[c].batch) + 1, Len(log))) = ReplayAll(bucket, log)
BatchApplied == sound => \A c \in Consumers : MayGo(c)

\* Every live row's member is in the bucket once the log is replayed.
RowsLogged == sound =>
    \A p \in Pks : row[p].val \notin {None, Empty} => <<row[p].val, p, row[p].iv>> \in ReplayAll(bucket, log)

AInv == TypeOK /\ BatchIsHead /\ BatchApplied /\ RowsLogged

LEMMA AInvInit == Init => AInv
<1> SUFFICES ASSUME Init PROVE AInv OBVIOUS
<1>1. TypeOK
  <2>1. NoRow \in Row /\ Idle \in Consumer BY DEF NoRow, Row, Idle, Consumer
  <2>2. <<>> \in Seq(LogEntry) /\ Len(<<>>) = 0 OBVIOUS
  <2>3. QED BY <2>1, <2>2, AsyncLogAssumption DEF Init, TypeOK, Idle
<1>2. BatchIsHead
  <2>1. Len(<<>>) = 0 /\ SubSeq(<<>>, 1, 0) = <<>> OBVIOUS
  <2>2. \A c \in Consumers : con[c].batch = <<>> /\ log = <<>> BY DEF Init, Idle
  <2>3. ASSUME NEW c \in Consumers
        PROVE  HeadOf(c)
    <3>1. con[c].batch = <<>> /\ log = <<>> BY <2>2
    <3>2. Len(<<>>) <= Len(<<>>) /\ <<>> = SubSeq(<<>>, 1, Len(<<>>)) BY <2>1
    <3>3. QED BY <3>1, <3>2 DEF HeadOf
  <2>4. QED BY <2>3 DEF BatchIsHead
<1>3. BatchApplied BY DEF Init, BatchApplied, MayGo, Idle
<1>4. RowsLogged BY DEF Init, RowsLogged, NoRow
<1>5. QED BY <1>1, <1>2, <1>3, <1>4 DEF AInv

(***************************************************************************)
(* Statements.  The log is as it was, or has the statement's entry at its  *)
(* end; idx is the replayed bucket.                                        *)
(***************************************************************************)
\* The entry that replaces member U of pk p by member R.
Logs(U, R) ==
    \/ /\ U = R /\ UNCHANGED log
    \/ \E e \in LogEntry : AppendLog(e) /\ Undo(e) = U /\ Redo(e) = R

OwnMember(p, r) == IF r.val \in {None, Empty} THEN {} ELSE {<<r.val, p, r.iv>>}

\* What a statement on p does: the row, and its entry or none.
StatementStep(p, r, U) ==
    /\ row' = [row EXCEPT ![p] = r]
    /\ UNCHANGED <<bucket, dlq, con, sound, faults>> /\ writes' \in Nat
    /\ Logs(U, OwnMember(p, r))

LEMMA StatementInv ==
    ASSUME AInv, NEW p \in Pks, NEW r \in Row, NEW U, U \in {{}, OwnMember(p, row[p])},
           StatementStep(p, r, U)
    PROVE  /\ AInv'
           /\ sound => ReplayAll(bucket, log)' = (ReplayAll(bucket, log) \ U) \cup OwnMember(p, r)
<1>0. TypeOK /\ UNCHANGED <<bucket, dlq, con, sound, faults>> /\ writes' \in Nat /\ row' = [row EXCEPT ![p] = r]
  BY DEF AInv, StatementStep
<1>1. /\ log' \in Seq(LogEntry) /\ Len(log') <= LogCap /\ Len(log) <= Len(log')
      /\ \A n \in 0 .. Len(log) : SubSeq(log', 1, n) = SubSeq(log, 1, n)
  <2>1. CASE UNCHANGED log BY <1>0, <2>1 DEF TypeOK
  <2>2. ASSUME NEW e \in LogEntry, AppendLog(e)
        PROVE  /\ log' \in Seq(LogEntry) /\ Len(log') <= LogCap /\ Len(log) <= Len(log')
               /\ \A n \in 0 .. Len(log) : SubSeq(log', 1, n) = SubSeq(log, 1, n)
    <3>1. log \in Seq(LogEntry) /\ log' = Append(log, e) /\ Len(log) < LogCap BY <1>0, <2>2 DEF TypeOK, AppendLog
    <3>2. Len(log') = Len(log) + 1 /\ log' \in Seq(LogEntry) BY <3>1
    <3>3. \A n \in 0 .. Len(log) : SubSeq(log', 1, n) = SubSeq(log, 1, n) BY <3>1, <3>2
    <3>4. QED BY <3>1, <3>2, <3>3, AsyncLogAssumption
  <2>3. QED BY <2>1, <2>2 DEF StatementStep, Logs
<1>2. TypeOK'
  <2>1. row' \in [Pks -> Row] BY <1>0 DEF TypeOK
  <2>2. QED BY <1>0, <1>1, <2>1 DEF TypeOK
<1>L. \A c \in Consumers : con'[c] = con[c] /\ con[c].batch \in Seq(LogEntry) /\ Len(con[c].batch) \in Nat
  BY <1>0 DEF TypeOK, Consumer
<1>3. BatchIsHead'
  <2> SUFFICES ASSUME NEW c \in Consumers, ~con[c].late
               PROVE  Len(con[c].batch) <= Len(log') /\ con[c].batch = SubSeq(log', 1, Len(con[c].batch))
    BY <1>0, <1>L DEF BatchIsHead, HeadOf
  <2>1. Len(con[c].batch) \in Nat /\ Len(log) \in Nat /\ Len(log') \in Nat
    BY <1>0, <1>1, <1>L DEF TypeOK
  <2>2. Len(con[c].batch) <= Len(log) /\ con[c].batch = SubSeq(log, 1, Len(con[c].batch))
    BY DEF AInv, BatchIsHead, HeadOf
  <2>3. QED BY <1>1, <2>1, <2>2
<1>4. BatchApplied'
  <2> SUFFICES ASSUME sound, NEW c \in Consumers, con[c].pc = "trim", ~con[c].late
               PROVE  ReplayAll(bucket, SubSeq(log', Len(con[c].batch) + 1, Len(log'))) = ReplayAll(bucket, log')
    BY <1>0, <1>L DEF BatchApplied, MayGo
  <2>1. ReplayAll(bucket, SubSeq(log, Len(con[c].batch) + 1, Len(log))) = ReplayAll(bucket, log)
    BY DEF AInv, BatchApplied, MayGo
  <2>2. Len(con[c].batch) \in Nat /\ Len(log) \in Nat /\ Len(con[c].batch) <= Len(log) /\ log \in Seq(LogEntry)
    BY <1>0, <1>L DEF AInv, BatchIsHead, HeadOf, TypeOK
  <2>3. ASSUME NEW e \in LogEntry, AppendLog(e)
        PROVE  ReplayAll(bucket, SubSeq(log', Len(con[c].batch) + 1, Len(log'))) = ReplayAll(bucket, log')
    <3> DEFINE k == Len(con[c].batch)
               rest == SubSeq(log, k + 1, Len(log))
    <3>1. log' = Append(log, e) BY <2>3 DEF AppendLog
    <3>2. SubSeq(log', k + 1, Len(log')) = Append(rest, e)
      <4>1. k \in 0 .. Len(log) /\ Len(log') = Len(log) + 1 BY <2>2, <3>1
      <4>2. SubSeq(Append(log, e), k + 1, Len(log) + 1) = Append(SubSeq(log, k + 1, Len(log)), e)
        BY <2>2, <4>1, SubSeqAppend
      <4>3. QED BY <3>1, <4>1, <4>2
    <3>3. rest \in Seq(LogEntry) BY <2>2
    <3> HIDE DEF rest
    <3>4. ReplayAll(bucket, Append(rest, e)) = (ReplayAll(bucket, rest) \ Undo(e)) \cup Redo(e) BY <3>3, ReplayAppend
    <3>5. ReplayAll(bucket, Append(log, e)) = (ReplayAll(bucket, log) \ Undo(e)) \cup Redo(e) BY <2>2, ReplayAppend
    <3>6. QED BY <2>1, <3>1, <3>2, <3>4, <3>5 DEF rest, k
  <2>4. QED BY <2>1, <2>3 DEF StatementStep, Logs
<1>5. sound => ReplayAll(bucket, log') = (ReplayAll(bucket, log) \ U) \cup OwnMember(p, r)
  <2> SUFFICES ASSUME sound PROVE ReplayAll(bucket, log') = (ReplayAll(bucket, log) \ U) \cup OwnMember(p, r)
    OBVIOUS
  <2>1. CASE U = OwnMember(p, r) /\ UNCHANGED log
    <3>1. OwnMember(p, row[p]) \subseteq ReplayAll(bucket, log) BY DEF AInv, RowsLogged, OwnMember
    <3>2. U \subseteq ReplayAll(bucket, log) BY <3>1
    <3>3. QED BY <2>1, <3>2
  <2>2. ASSUME NEW e \in LogEntry, AppendLog(e), Undo(e) = U, Redo(e) = OwnMember(p, r)
        PROVE  ReplayAll(bucket, log') = (ReplayAll(bucket, log) \ U) \cup OwnMember(p, r)
    <3>1. log \in Seq(LogEntry) /\ log' = Append(log, e) BY <1>0, <2>2 DEF TypeOK, AppendLog
    <3>2. ReplayAll(bucket, Append(log, e)) = (ReplayAll(bucket, log) \ Undo(e)) \cup Redo(e)
      BY <3>1, ReplayAppend
    <3>3. QED BY <2>2, <3>1, <3>2
  <2>3. QED BY <2>1, <2>2 DEF StatementStep, Logs
<1>6. RowsLogged'
  <2> SUFFICES ASSUME sound, NEW q \in Pks, row'[q].val \notin {None, Empty}
               PROVE  <<row'[q].val, q, row'[q].iv>> \in ReplayAll(bucket, log')
    BY <1>0 DEF RowsLogged
  <2>1. CASE q = p
    <3>1. row'[q] = r BY <1>0, <2>1 DEF TypeOK
    <3>2. QED BY <1>5, <2>1, <3>1 DEF OwnMember
  <2>2. CASE q # p
    <3>1. row'[q] = row[q] BY <1>0, <2>2 DEF TypeOK
    <3>2. <<row[q].val, q, row[q].iv>> \in ReplayAll(bucket, log) BY <3>1 DEF AInv, RowsLogged
    <3>3. <<row[q].val, q, row[q].iv>> \notin U BY <2>2 DEF OwnMember
    <3>4. QED BY <1>5, <3>1, <3>2, <3>3
  <2>3. QED BY <2>1, <2>2
<1>7. QED BY <1>0, <1>2, <1>3, <1>4, <1>5, <1>6 DEF AInv

LEMMA StatementFacts ==
    ASSUME TypeOK, NEW p \in Pks
    PROVE  /\ \A v \in Values \cup {None} : Write(p, v) =>
                 LET r == [ver |-> row[p].ver + 1, val |-> v,
                           iv |-> IF row[p].val = v THEN row[p].iv ELSE row[p].ver + 1]
                 IN  r \in Row /\ StatementStep(p, r, OwnMember(p, row[p]))
           /\ Delete(p) => StatementStep(p, NoRow, OwnMember(p, row[p]))
           /\ Expire(p) => StatementStep(p, NoRow, {})
           /\ NoRow \in Row /\ OwnMember(p, NoRow) = {}
<1>0. row[p] \in Row /\ row \in [Pks -> Row] /\ writes \in Nat BY DEF TypeOK
<1>1. ASSUME NEW v \in Values \cup {None}, Write(p, v)
      PROVE  LET r == [ver |-> row[p].ver + 1, val |-> v,
                       iv |-> IF row[p].val = v THEN row[p].iv ELSE row[p].ver + 1]
             IN  r \in Row /\ StatementStep(p, r, OwnMember(p, row[p]))
  <2> DEFINE r == [ver |-> row[p].ver + 1, val |-> v,
                   iv |-> IF row[p].val = v THEN row[p].iv ELSE row[p].ver + 1]
  <2>1. r \in Row BY <1>0 DEF Row
  <2>2. UNCHANGED <<bucket, dlq, con, sound, faults>> /\ writes' \in Nat BY <1>0, <1>1 DEF Write, Statement
  <2>3. CASE row[p].val = v
    <3>1. row' = [row EXCEPT ![p].ver = @ + 1] /\ UNCHANGED log BY <1>1, <2>3 DEF Write
    <3>2. [row[p] EXCEPT !.ver = @ + 1] = r BY <1>0, <2>3 DEF Row
    <3>3. row' = [row EXCEPT ![p] = r] BY <1>0, <3>1, <3>2
    <3>4. OwnMember(p, r) = OwnMember(p, row[p]) BY <2>3 DEF OwnMember
    <3>5. QED BY <2>1, <2>2, <3>1, <3>3, <3>4 DEF StatementStep, Logs
  <2>4. CASE row[p].val # v
    <3> DEFINE e == Entry(p, row[p], v, row[p].ver + 1)
    <3>1. AppendLog(e) /\ row' = [row EXCEPT ![p] = [ver |-> row[p].ver + 1, val |-> v, iv |-> row[p].ver + 1]]
      BY <1>1, <2>4 DEF Write
    <3>2. e \in LogEntry BY <1>0, AsyncLogAssumption DEF Entry, EscLogField, LogEntry, Row
    <3>3. Undo(e) = OwnMember(p, row[p]) BY DEF Entry, EscLogField, Undo, OwnMember
    <3>4. Redo(e) = OwnMember(p, r) BY <2>4 DEF Entry, EscLogField, Redo, OwnMember
    <3>5. row' = [row EXCEPT ![p] = r] BY <2>4, <3>1
    <3>6. Logs(OwnMember(p, row[p]), OwnMember(p, r)) BY <3>1, <3>2, <3>3, <3>4 DEF Logs
    <3>7. QED BY <2>1, <2>2, <3>5, <3>6 DEF StatementStep
  <2>5. QED BY <2>3, <2>4
<1>2. ASSUME Delete(p) PROVE StatementStep(p, NoRow, OwnMember(p, row[p]))
  <2>1. UNCHANGED <<bucket, dlq, con, sound, faults>> /\ writes' \in Nat /\ row' = [row EXCEPT ![p] = NoRow]
    BY <1>0, <1>2 DEF Delete, Statement
  <2>2. OwnMember(p, NoRow) = {} BY DEF OwnMember, NoRow
  <2>3. CASE row[p].val = None
    BY <1>2, <2>1, <2>2, <2>3 DEF Delete, StatementStep, Logs, OwnMember
  <2>4. CASE row[p].val # None
    <3> DEFINE e == Entry(p, row[p], None, row[p].ver)
    <3>1. AppendLog(e) BY <1>2, <2>4 DEF Delete
    <3>2. e \in LogEntry BY <1>0, AsyncLogAssumption DEF Entry, EscLogField, LogEntry, Row
    <3>3. Undo(e) = OwnMember(p, row[p]) /\ Redo(e) = {} BY DEF Entry, EscLogField, Undo, Redo, OwnMember
    <3>4. Logs(OwnMember(p, row[p]), OwnMember(p, NoRow)) BY <2>2, <3>1, <3>2, <3>3 DEF Logs
    <3>5. QED BY <2>1, <3>4 DEF StatementStep
  <2>5. QED BY <2>3, <2>4
<1>3. ASSUME Expire(p) PROVE StatementStep(p, NoRow, {})
  BY <1>0, <1>3 DEF Expire, Statement, StatementStep, Logs, OwnMember, NoRow
<1>4. NoRow \in Row /\ OwnMember(p, NoRow) = {} BY DEF NoRow, Row, OwnMember
<1>5. QED BY <1>1, <1>2, <1>3, <1>4

(***************************************************************************)
(* ConsumeLog.                                                             *)
(***************************************************************************)
\* The head of the log that consumer c has in hand, nobody having trimmed since.
LEMMA InHand ==
    ASSUME TypeOK, NEW c \in Consumers, ~con[c].late, HeadOf(c)
    PROVE  /\ con[c].batch = SubSeq(log, 1, Len(con[c].batch)) /\ Len(con[c].batch) \in 0 .. Len(log)
           /\ log \in Seq(LogEntry) /\ DOMAIN log \subseteq Nat
           /\ \A i \in DOMAIN con[c].batch : i \in DOMAIN log /\ con[c].batch[i] = log[i]
<1>1. log \in Seq(LogEntry) /\ con[c].batch \in Seq(LogEntry) BY DEF TypeOK, Consumer
<1>2. Len(con[c].batch) \in Nat /\ Len(log) \in Nat BY <1>1
<1>3. Len(con[c].batch) <= Len(log) /\ con[c].batch = SubSeq(log, 1, Len(con[c].batch)) BY DEF HeadOf
<1>4. \A i \in 1 .. Len(con[c].batch) : SubSeq(log, 1, Len(con[c].batch))[i] = log[i] BY <1>1, <1>2, <1>3
<1>5. DOMAIN con[c].batch = 1 .. Len(con[c].batch) /\ DOMAIN log = 1 .. Len(log) BY <1>1
<1>6. QED BY <1>1, <1>2, <1>3, <1>4, <1>5

\* Whatever is replayed, the bucket has members.
LEMMA ReplayTyped ==
    ASSUME NEW b \in SUBSET Member, NEW es \in Seq(LogEntry)
    PROVE  ReplayAll(b, es) \in SUBSET Member
<1>1. ASSUME NEW m \in ReplayAll(b, es), m \notin b PROVE m \in Member
  <2>1. PICK i \in DOMAIN es : m \in Redo(es[i]) BY <1>1, ReplayMember
  <2>2. es[i] \in LogEntry BY <2>1
  <2>3. QED BY <2>1, <2>2 DEF Redo, LogEntry, Member
<1>2. QED BY <1>1

\* A batch replayed, wholly or in part before, comes to the same.
LEMMA ReplayTwice ==
    ASSUME NEW b, NEW es \in Seq(LogEntry), NEW n \in 0 .. Len(es)
    PROVE  ReplayAll(ReplayAll(b, SubSeq(es, 1, n)), es) = ReplayAll(b, es)
<1>0. Len(es) \in Nat /\ n \in Nat /\ n <= Len(es) /\ DOMAIN es = 1 .. Len(es) OBVIOUS
<1>1. DOMAIN SubSeq(es, 1, n) = 1 .. n /\ \A i \in 1 .. n : SubSeq(es, 1, n)[i] = es[i] BY <1>0
<1>2. \A i \in DOMAIN SubSeq(es, 1, n) : i \in DOMAIN es /\ SubSeq(es, 1, n)[i] = es[i] BY <1>0, <1>1
<1>3. DOMAIN es \subseteq Nat BY <1>0
<1>4. QED BY <1>2, <1>3, ReplayAbsorbs

\* Nothing moves but one consumer, whose batch stays what it is or is gone.
LEMMA OneMoves ==
    ASSUME AInv, NEW c \in Consumers, NEW t \in Consumer, con' = [con EXCEPT ![c] = t],
           t.pc = "idle" <=> t.batch = <<>>, t.pc # "idle" => t.late = con[c].late /\ t.batch = con[c].batch,
           t.pc = "idle" => ~t.late,
           UNCHANGED <<row, log, writes>>, faults' \in Nat, dlq' \in Seq(LogEntry), bucket' \subseteq Member, sound' \in BOOLEAN
    PROVE  TypeOK' /\ BatchIsHead'
<1>1. con' \in [Consumers -> Consumer] /\ con'[c] = t /\ \A d \in Consumers : d # c => con'[d] = con[d]
  BY DEF AInv, TypeOK
<1>2. TypeOK'
  <2>1. \A d \in Consumers : con'[d].pc = "idle" <=> con'[d].batch = <<>> BY <1>1 DEF AInv, TypeOK
  <2>2. QED BY <1>1, <2>1 DEF AInv, TypeOK
<1>3. ASSUME NEW d \in Consumers PROVE HeadOf(d)'
  <2>1. CASE d # c BY <1>1, <2>1 DEF AInv, BatchIsHead, HeadOf
  <2>2. CASE d = c /\ t.pc # "idle" BY <1>1, <2>2 DEF AInv, BatchIsHead, HeadOf
  <2>3. CASE d = c /\ t.pc = "idle"
    <3>1. con'[d].batch = <<>> /\ log \in Seq(LogEntry) BY <1>1, <2>3 DEF AInv, TypeOK
    <3>2. Len(<<>>) = 0 /\ Len(<<>>) <= Len(log) /\ SubSeq(log, 1, 0) = <<>> BY <3>1
    <3>3. QED BY <3>1, <3>2 DEF HeadOf
  <2>4. QED BY <2>1, <2>2, <2>3
<1>4. QED BY <1>2, <1>3 DEF BatchIsHead

\* The batch goes into the bucket.
LEMMA AppliedInv ==
    ASSUME AInv, NEW c \in Consumers, con[c].pc = "apply", bucket' = ReplayAll(bucket, con[c].batch),
           sound' = (sound /\ ~Behind(c)), con' = [con EXCEPT ![c].pc = "trim"],
           UNCHANGED <<row, log, dlq, writes>>, faults' \in Nat
    PROVE  /\ AInv' /\ (sound' => sound)
           /\ sound' => ReplayAll(bucket, log)' = ReplayAll(bucket, log)
<1>0. TypeOK /\ con[c] \in Consumer /\ con \in [Consumers -> Consumer] /\ sound \in BOOLEAN BY DEF AInv, TypeOK
<1> DEFINE es == con[c].batch
           t == [con[c] EXCEPT !.pc = "trim"]
<1>1. /\ t \in Consumer /\ t.pc = "trim" /\ t.batch = es /\ t.late = con[c].late /\ es # <<>>
      /\ con' = [con EXCEPT ![c] = t]
  <2>1. t \in Consumer /\ t.pc = "trim" /\ t.batch = es /\ t.late = con[c].late BY <1>0 DEF Consumer
  <2>2. es # <<>> BY <1>0 DEF TypeOK
  <2>3. QED BY <1>0, <2>1, <2>2
<1>2. sound' \in BOOLEAN /\ (sound' => sound /\ ~Behind(c)) BY <1>0, Zenon
<1>3. es \in Seq(LogEntry) /\ bucket' \subseteq Member BY <1>0, ReplayTyped DEF TypeOK, Consumer
<1>4. TypeOK' /\ BatchIsHead'
  <2>1. dlq' \in Seq(LogEntry) BY <1>0 DEF TypeOK
  <2> HIDE DEF t, es
  <2>2. t.pc = "idle" <=> t.batch = <<>> BY <1>1
  <2>3. t.pc # "idle" => t.late = con[c].late /\ t.batch = con[c].batch BY <1>1 DEF es
  <2>4. QED BY <1>1, <1>2, <1>3, <2>1, <2>2, <2>3, OneMoves
<1>5. ASSUME sound'
      PROVE  /\ ReplayAll(bucket', log) = ReplayAll(bucket, log)
             /\ \A d \in Consumers : MayGo(d)'
  <2>0. ~con[c].late /\ HeadOf(c) BY <1>2, <1>5 DEF Behind, AInv, BatchIsHead
  <2>1. /\ es = SubSeq(log, 1, Len(es)) /\ Len(es) \in 0 .. Len(log)
        /\ log \in Seq(LogEntry) /\ DOMAIN log \subseteq Nat
        /\ \A i \in DOMAIN es : i \in DOMAIN log /\ es[i] = log[i]
    BY <1>0, <2>0, InHand
  <2>2. ReplayAll(ReplayAll(bucket, es), log) = ReplayAll(bucket, log) BY <2>1, ReplayAbsorbs
  <2>3. ASSUME NEW d \in Consumers, con'[d].pc = "trim", ~con'[d].late
        PROVE  ReplayAll(bucket', SubSeq(log, Len(con'[d].batch) + 1, Len(log))) = ReplayAll(bucket', log)
    <3>1. con'[d].batch = con[d].batch /\ con'[d].late = con[d].late /\ (d # c => con[d].pc = "trim")
      BY <1>0, <1>1, <2>3
    <3>2. Len(con[d].batch) \in Nat /\ Len(es) \in Nat BY <1>0, <1>3 DEF Consumer
    <3>3. Len(con[d].batch) <= Len(es)
      <4>1. CASE d = c BY <3>2, <4>1
      <4>2. CASE d # c
        <5>1. con[d].pc = "trim" /\ ~con[d].late BY <2>3, <3>1, <4>2
        <5>2. ~(Len(con[d].batch) > Len(es)) BY <1>2, <1>5, <5>1 DEF Behind
        <5>3. QED BY <3>2, <5>2
      <4>3. QED BY <4>1, <4>2
    <3>4. PICK n \in 0 .. Len(log) : n = Len(es) BY <2>1
    <3>5. PICK k \in 0 .. n : k = Len(con[d].batch) BY <3>2, <3>3, <3>4
    <3>6. ReplayAll(ReplayAll(bucket, SubSeq(log, 1, n)), SubSeq(log, k + 1, Len(log))) = ReplayAll(bucket, log)
      BY <2>1, ReplayAhead
    <3>7. ReplayAll(bucket', SubSeq(log, k + 1, Len(log))) = ReplayAll(bucket, log) BY <2>1, <3>4, <3>6
    <3>8. QED BY <2>2, <3>1, <3>5, <3>7
  <2>4. log' = log OBVIOUS
  <2>5. QED BY <2>2, <2>3, <2>4 DEF MayGo
<1>6. BatchApplied' BY <1>5 DEF BatchApplied
<1>7. RowsLogged'
  <2>1. row' = row /\ log' = log OBVIOUS
  <2>2. QED BY <1>2, <1>5, <2>1 DEF AInv, RowsLogged
<1>8. QED BY <1>2, <1>4, <1>5, <1>6, <1>7 DEF AInv

\* LTRIM.
LEMMA TrimInv ==
    ASSUME AInv, NEW c \in Consumers, Trim(c)
    PROVE  /\ AInv' /\ (sound' => sound)
           /\ sound' => ReplayAll(bucket, log)' = ReplayAll(bucket, log)
<1>0. TypeOK /\ con[c] \in Consumer /\ con \in [Consumers -> Consumer] /\ sound \in BOOLEAN
      /\ log \in Seq(LogEntry) /\ Len(log) \in Nat
  BY DEF AInv, TypeOK
<1>1. /\ UNCHANGED <<row, bucket, dlq, writes, faults>> /\ con[c].pc = "trim"
      /\ log' = SubSeq(log, Len(con[c].batch) + 1, Len(log))
  BY DEF Trim, Rest
<1>2. sound' \in BOOLEAN /\ (sound' => sound /\ ~con[c].late) BY <1>0, Zenon DEF Trim
<1>3. \A d \in Consumers : con'[d] = IF d = c THEN Idle ELSE [con[d] EXCEPT !.late = (con[d].pc # "idle")]
  BY DEF Trim
<1>4. ASSUME NEW d \in Consumers
      PROVE  /\ con'[d] \in Consumer /\ (con'[d].pc = "idle" <=> con'[d].batch = <<>>)
             /\ (con'[d].late \/ con'[d].pc = "idle")
  <2>1. CASE d = c
    <3>1. con'[d] = Idle BY <1>3, <2>1
    <3>2. <<>> \in Seq(LogEntry) OBVIOUS
    <3>3. Idle \in Consumer /\ Idle.pc = "idle" /\ Idle.batch = <<>> BY <3>2 DEF Idle, Consumer
    <3>4. QED BY <3>1, <3>3
  <2>2. CASE d # c
    <3>1. con'[d] = [con[d] EXCEPT !.late = (con[d].pc # "idle")] BY <1>3, <2>2
    <3>2. con[d] \in Consumer /\ (con[d].pc = "idle" <=> con[d].batch = <<>>) BY <1>0 DEF TypeOK
    <3>3. (con[d].pc # "idle") \in BOOLEAN OBVIOUS
    <3>4. PICK l \in BOOLEAN : l = (con[d].pc # "idle") BY <3>3, Zenon
    <3>5. con'[d] = [con[d] EXCEPT !.late = l] BY <3>1, <3>4
    <3>6. con'[d] \in Consumer /\ con'[d].pc = con[d].pc /\ con'[d].batch = con[d].batch /\ con'[d].late = l
      BY <3>2, <3>5 DEF Consumer
    <3>7. QED BY <3>2, <3>4, <3>6
  <2>3. QED BY <2>1, <2>2
<1>5. con' \in [Consumers -> Consumer]
  <2>1. con' = [d \in Consumers |-> con'[d]] BY DEF Trim
  <2>2. QED BY <1>4, <2>1
<1>6. log' \in Seq(LogEntry) /\ Len(log') \in Nat /\ Len(log') <= Len(log)
  <2>1. Len(con[c].batch) \in Nat BY <1>0 DEF Consumer
  <2>2. CASE Len(con[c].batch) <= Len(log) BY <1>0, <1>1, <2>1, <2>2
  <2>3. CASE Len(con[c].batch) > Len(log)
    <3>1. PICK k \in Int : k = Len(con[c].batch) + 1 BY <2>1
    <3>2. PICK l \in Int : l = Len(log) BY <1>0
    <3>3. l < k /\ log' = SubSeq(log, k, l) BY <1>0, <1>1, <2>1, <2>3, <3>1, <3>2
    <3>4. log' = <<>> BY <3>3, SubSeqEmpty
    <3>5. <<>> \in Seq(LogEntry) /\ Len(<<>>) = 0 OBVIOUS
    <3>6. QED BY <1>0, <3>4, <3>5
  <2>4. QED BY <1>0, <2>1, <2>2, <2>3
<1>7. TypeOK'
  <2>1. Len(log') <= LogCap BY <1>0, <1>6, AsyncLogAssumption DEF TypeOK
  <2>2. QED BY <1>0, <1>1, <1>2, <1>4, <1>5, <1>6, <2>1 DEF TypeOK
<1>8. BatchIsHead'
  <2>1. ASSUME NEW d \in Consumers, ~con'[d].late
        PROVE  Len(con'[d].batch) <= Len(log') /\ con'[d].batch = SubSeq(log', 1, Len(con'[d].batch))
    <3>1. con'[d].batch = <<>> BY <1>4, <2>1
    <3>2. Len(<<>>) = 0 /\ SubSeq(log', 1, 0) = <<>> BY <1>6
    <3>3. QED BY <1>6, <3>1, <3>2
  <2>2. QED BY <2>1 DEF BatchIsHead, HeadOf
<1>9. BatchApplied' BY <1>4 DEF BatchApplied, MayGo
<1>10. sound' => ReplayAll(bucket, log)' = ReplayAll(bucket, log)
  BY <1>1, <1>2 DEF AInv, BatchApplied, MayGo
<1>11. RowsLogged' BY <1>1, <1>2, <1>10 DEF AInv, RowsLogged
<1>12. QED BY <1>2, <1>7, <1>8, <1>9, <1>10, <1>11 DEF AInv

\* A step of a consumer leaves the replayed bucket as it is, as long as sound holds.
LEMMA ConsumerInv ==
    ASSUME AInv, NEW c \in Consumers, Consume(c) \/ ApplyTwice(c) \/ ApplyFails(c) \/ Abandon(c)
    PROVE  /\ AInv' /\ UNCHANGED row /\ (sound' => sound)
           /\ sound' => ReplayAll(bucket, log)' = ReplayAll(bucket, log)
<1>T. /\ TypeOK /\ log \in Seq(LogEntry) /\ Len(log) \in Nat /\ con \in [Consumers -> Consumer] /\ con[c] \in Consumer
      /\ con[c].batch \in Seq(LogEntry) /\ faults \in Nat /\ dlq \in Seq(LogEntry) /\ sound \in BOOLEAN
      /\ bucket \in SUBSET Member
  BY DEF AInv, TypeOK, Consumer
<1>S. <<>> \in Seq(LogEntry) /\ Len(<<>>) = 0 OBVIOUS
<1>1. CASE ReadLog(c)
  <2> DEFINE n == IF Len(log) < Batch THEN Len(log) ELSE Batch
             fs == SubSeq(log, 1, n)
  <2>1. con' = [con EXCEPT ![c] = [pc |-> "apply", late |-> FALSE, batch |-> fs]]
        /\ UNCHANGED <<row, log, bucket, dlq, sound, writes, faults>> /\ log # <<>>
    BY <1>1 DEF ReadLog
  <2>2. n \in 1 .. Len(log)
    <3>1. Len(log) > 0 BY <1>T, <2>1
    <3>2. QED BY <1>T, <3>1, AsyncLogAssumption
  <2>3. fs \in Seq(LogEntry) /\ Len(fs) = n /\ fs # <<>> BY <1>T, <2>2
  <2>4. fs = SubSeq(log, 1, Len(fs)) /\ Len(fs) <= Len(log) BY <1>T, <2>2, <2>3
  <2> HIDE DEF fs
  <2>5. con'[c] = [pc |-> "apply", late |-> FALSE, batch |-> fs] /\ con' \in [Consumers -> Consumer]
        /\ \A d \in Consumers : d # c => con'[d] = con[d]
    BY <1>T, <2>1, <2>3 DEF Consumer
  <2>6. TypeOK'
    <3>1. ASSUME NEW d \in Consumers PROVE con'[d].pc = "idle" <=> con'[d].batch = <<>>
      <4>1. CASE d = c
        <5>1. con'[d].pc = "apply" /\ con'[d].batch = fs BY <2>5, <4>1
        <5>2. QED BY <2>3, <5>1
      <4>2. CASE d # c
        <5>1. con'[d] = con[d] BY <2>5, <4>2
        <5>2. con[d].pc = "idle" <=> con[d].batch = <<>> BY <1>T DEF TypeOK
        <5>3. QED BY <5>1, <5>2
      <4>3. QED BY <4>1, <4>2
    <3>2. QED BY <1>T, <2>1, <2>5, <3>1 DEF TypeOK
  <2>7. BatchIsHead'
    <3>1. ASSUME NEW d \in Consumers PROVE HeadOf(d)'
      <4>1. CASE d = c BY <2>1, <2>4, <2>5, <4>1 DEF HeadOf
      <4>2. CASE d # c BY <2>1, <2>5, <4>2 DEF HeadOf, AInv, BatchIsHead
      <4>3. QED BY <4>1, <4>2
    <3>2. QED BY <3>1 DEF BatchIsHead
  <2>8. BatchApplied'
    <3>1. ASSUME sound, NEW d \in Consumers PROVE MayGo(d)'
      <4>1. CASE d = c BY <2>5, <4>1 DEF MayGo
      <4>2. CASE d # c BY <2>1, <2>5, <3>1, <4>2 DEF MayGo, AInv, BatchApplied
      <4>3. QED BY <4>1, <4>2
    <3>2. QED BY <2>1, <3>1 DEF BatchApplied
  <2>9. RowsLogged' BY <2>1 DEF AInv, RowsLogged
  <2>10. QED BY <2>1, <2>6, <2>7, <2>8, <2>9 DEF AInv
<1>2. CASE Apply(c)
  <2>1. /\ con[c].pc = "apply" /\ bucket' = ReplayAll(bucket, con[c].batch)
        /\ con' = [con EXCEPT ![c].pc = "trim"] /\ UNCHANGED <<row, log, dlq, writes, faults>>
    BY <1>2 DEF Apply, Goto
  <2>2. sound' = (sound /\ ~Behind(c)) BY <1>2, Zenon DEF Apply
  <2>3. faults' \in Nat BY <1>T, <2>1
  <2>4. QED BY <2>1, <2>2, <2>3, AppliedInv
<1>3. CASE ApplyTwice(c)
  <2>0. PICK n \in 0 .. Len(con[c].batch) :
            bucket' = ReplayAll(ReplayAll(bucket, SubSeq(con[c].batch, 1, n)), con[c].batch)
    BY <1>3 DEF ApplyTwice
  <2>1. /\ con[c].pc = "apply" /\ con' = [con EXCEPT ![c].pc = "trim"]
        /\ UNCHANGED <<row, log, dlq, writes>> /\ faults' = faults + 1
    BY <1>3 DEF ApplyTwice, Goto, Fault
  <2>2. sound' = (sound /\ ~Behind(c)) BY <1>3, Zenon DEF ApplyTwice
  <2>3. bucket' = ReplayAll(bucket, con[c].batch) BY <1>T, <2>0, ReplayTwice
  <2>4. faults' \in Nat BY <1>T, <2>1
  <2>5. QED BY <2>1, <2>2, <2>3, <2>4, AppliedInv
<1>4. CASE ApplyFails(c)
  <2>0. PICK n \in 0 .. Len(con[c].batch) : bucket' = ReplayAll(bucket, SubSeq(con[c].batch, 1, n))
    BY <1>4 DEF ApplyFails
  <2>1. /\ con[c].pc = "apply" /\ con' = [con EXCEPT ![c].pc = "trim"] /\ dlq' \in {dlq, dlq \o con[c].batch}
        /\ UNCHANGED <<row, log, writes>> /\ faults' = faults + 1 /\ sound' = FALSE
    BY <1>4 DEF ApplyFails, Goto, Fault
  <2>2. bucket' \subseteq Member
    <3>1. SubSeq(con[c].batch, 1, n) \in Seq(LogEntry) BY <1>T
    <3>2. QED BY <1>T, <2>0, <3>1, ReplayTyped
  <2>3. dlq' \in Seq(LogEntry)
    <3>1. dlq \o con[c].batch \in Seq(LogEntry) BY <1>T, ConcatProperties
    <3>2. dlq' = dlq \/ dlq' = dlq \o con[c].batch BY <2>1, Zenon
    <3>3. CASE dlq' = dlq BY <1>T, <3>3
    <3>4. CASE dlq' = dlq \o con[c].batch BY <3>1, <3>4, Zenon
    <3>5. QED BY <3>2, <3>3, <3>4
  <2>4. faults' \in Nat /\ sound' \in BOOLEAN
    <3>1. faults' \in Nat BY <1>T, <2>1
    <3>2. sound' \in BOOLEAN BY <2>1, Zenon
    <3>3. QED BY <3>1, <3>2
  <2> DEFINE t == [con[c] EXCEPT !.pc = "trim"]
  <2>5. /\ t \in Consumer /\ t.pc = "trim" /\ t.batch = con[c].batch /\ t.late = con[c].late
        /\ con' = [con EXCEPT ![c] = t] /\ con[c].batch # <<>>
    <3>1. con[c].batch # <<>> BY <1>T, <2>1 DEF TypeOK
    <3>2. QED BY <1>T, <2>1, <3>1 DEF Consumer
  <2> HIDE DEF t
  <2>6. TypeOK' /\ BatchIsHead' BY <2>1, <2>2, <2>3, <2>4, <2>5, OneMoves
  <2>7. BatchApplied' /\ RowsLogged' BY <2>1 DEF BatchApplied, RowsLogged
  <2>8. QED BY <2>1, <2>6, <2>7 DEF AInv
<1>5. CASE Trim(c)
  <2>1. UNCHANGED row BY <1>5 DEF Trim
  <2>2. QED BY <1>5, <2>1, TrimInv
<1>6. CASE Abandon(c)
  <2>1. con' = [con EXCEPT ![c] = Idle] /\ UNCHANGED <<row, log, bucket, dlq, sound, writes>> /\ faults' = faults + 1
    BY <1>6 DEF Abandon, Fault
  <2>2. faults' \in Nat BY <1>T, <2>1
  <2>3. Idle \in Consumer /\ Idle.pc = "idle" /\ Idle.batch = <<>> /\ Idle.late = FALSE BY <1>S DEF Idle, Consumer
  <2>4. TypeOK' /\ BatchIsHead'
    <3>1. dlq' \in Seq(LogEntry) /\ bucket' \subseteq Member /\ sound' \in BOOLEAN BY <1>T, <2>1
    <3>2. PICK t \in Consumer : t = Idle BY <2>3
    <3>3. QED BY <2>1, <2>2, <2>3, <3>1, <3>2, OneMoves
  <2>5. BatchApplied'
    <3>1. ASSUME sound, NEW d \in Consumers PROVE MayGo(d)'
      <4>1. CASE d = c
        <5>1. con'[d].pc = "idle" BY <1>T, <2>1, <2>3, <4>1
        <5>2. QED BY <5>1 DEF MayGo
      <4>2. CASE d # c
        <5>1. con'[d] = con[d] BY <1>T, <2>1, <4>2
        <5>2. QED BY <2>1, <3>1, <5>1 DEF MayGo, AInv, BatchApplied
      <4>3. QED BY <4>1, <4>2
    <3>2. QED BY <2>1, <3>1 DEF BatchApplied
  <2>6. RowsLogged' BY <2>1 DEF AInv, RowsLogged
  <2>7. QED BY <2>1, <2>4, <2>5, <2>6 DEF AInv
<1>7. QED BY <1>1, <1>2, <1>3, <1>4, <1>5, <1>6 DEF Consume

(***************************************************************************)
(* The refinement.                                                         *)
(***************************************************************************)
LEMMA AInvStep == AInv /\ [Next]_vars => AInv' /\ [Sync!Next]_<<row, ReplayAll(bucket, log), sound>>
<1> SUFFICES ASSUME AInv, [Next]_vars
             PROVE  AInv' /\ [Sync!Next]_<<row, ReplayAll(bucket, log), sound>>
  OBVIOUS
<1>0. TypeOK BY DEF AInv
<1>1. ~sound' => Sync!Next BY DEF Sync!Next
<1>M. \A p, r : Sync!MemberOf(p, r) = OwnMember(p, r) BY DEF Sync!MemberOf, OwnMember
<1>N. Sync!NoRow = NoRow BY DEF Sync!NoRow, NoRow
<1>2. ASSUME NEW p \in Pks, NEW v \in Values \cup {None}, Write(p, v)
      PROVE  AInv' /\ (sound' => sound /\ Sync!Write(p, v))
  <2> DEFINE r == [ver |-> row[p].ver + 1, val |-> v,
                   iv |-> IF row[p].val = v THEN row[p].iv ELSE row[p].ver + 1]
  <2>1. r \in Row /\ StatementStep(p, r, OwnMember(p, row[p])) BY <1>0, <1>2, StatementFacts
  <2>2. row' = [row EXCEPT ![p] = r] /\ row'[p] = r /\ sound' = sound BY <1>0, <2>1 DEF StatementStep, TypeOK
  <2> HIDE DEF r
  <2>3. AInv' /\ (sound =>
                    ReplayAll(bucket, log)' = (ReplayAll(bucket, log) \ OwnMember(p, row[p])) \cup OwnMember(p, r))
    BY <2>1, StatementInv
  <2>4. sound => Sync!Write(p, v)
    <3>1. row' = [row EXCEPT ![p] = [ver |-> @.ver + 1, val |-> v, iv |-> IF @.val = v THEN @.iv ELSE @.ver + 1]]
      BY <2>2 DEF r
    <3>2. QED BY <1>M, <2>2, <2>3, <3>1 DEF Sync!Write
  <2>5. QED BY <2>2, <2>3, <2>4
<1>3. ASSUME NEW p \in Pks, Delete(p) PROVE AInv' /\ (sound' => sound /\ Sync!Delete(p))
  <2>1. NoRow \in Row /\ StatementStep(p, NoRow, OwnMember(p, row[p])) /\ OwnMember(p, NoRow) = {}
    BY <1>0, <1>3, StatementFacts
  <2>2. row' = [row EXCEPT ![p] = NoRow] /\ sound' = sound BY <2>1 DEF StatementStep
  <2>3. AInv' /\ (sound =>
                    ReplayAll(bucket, log)' = (ReplayAll(bucket, log) \ OwnMember(p, row[p])) \cup OwnMember(p, NoRow))
    BY <2>1, StatementInv
  <2>4. sound => Sync!Delete(p) BY <1>M, <1>N, <2>1, <2>2, <2>3 DEF Sync!Delete
  <2>5. QED BY <2>2, <2>3, <2>4
<1>4. ASSUME NEW p \in Pks, Expire(p) PROVE AInv' /\ (sound' => sound /\ Sync!Expire(p))
  <2>1. NoRow \in Row /\ StatementStep(p, NoRow, {}) /\ OwnMember(p, NoRow) = {}
    BY <1>0, <1>4, StatementFacts
  <2>2. row' = [row EXCEPT ![p] = NoRow] /\ sound' = sound BY <2>1 DEF StatementStep
  <2>3. AInv' /\ (sound => ReplayAll(bucket, log)' = (ReplayAll(bucket, log) \ {}) \cup OwnMember(p, NoRow))
    BY <2>1, StatementInv
  <2>4. sound => Sync!Expire(p) BY <1>N, <2>1, <2>2, <2>3 DEF Sync!Expire
  <2>5. QED BY <2>2, <2>3, <2>4
<1>D. ASSUME NEW p \in Pks, DeleteFull(p) PROVE AInv' /\ UNCHANGED <<row, ReplayAll(bucket, log), sound>>
  <2>1. UNCHANGED <<row, log, bucket, dlq, con, sound, faults>> /\ writes' \in Nat
    BY <1>0, <1>D DEF DeleteFull, Statement, TypeOK
  <2>2. AInv' BY <2>1 DEF AInv, TypeOK, BatchIsHead, HeadOf, BatchApplied, MayGo, RowsLogged
  <2>3. QED BY <2>1, <2>2
<1>5. ASSUME NEW c \in Consumers, Consume(c) \/ ApplyTwice(c) \/ ApplyFails(c) \/ Abandon(c)
      PROVE  /\ AInv'
             /\ sound' => UNCHANGED <<row, ReplayAll(bucket, log), sound>>
  <2>1. /\ AInv' /\ UNCHANGED row /\ (sound' => sound)
        /\ sound' => ReplayAll(bucket, log)' = ReplayAll(bucket, log)
    BY <1>5, ConsumerInv
  <2>2. sound' => sound' = sound BY <1>0, <2>1 DEF AInv, TypeOK
  <2>3. QED BY <2>1, <2>2
<1>6. CASE UNCHANGED vars
  <2>1. UNCHANGED <<row, log, bucket, dlq, con, sound, writes, faults>> BY <1>6 DEF vars
  <2>2. AInv' BY <2>1 DEF AInv, TypeOK, BatchIsHead, HeadOf, BatchApplied, MayGo, RowsLogged
  <2>3. UNCHANGED <<row, ReplayAll(bucket, log), sound>> BY <2>1
  <2>4. QED BY <2>2, <2>3
<1>7. CASE Next
  <2>1. AInv' BY <1>2, <1>3, <1>4, <1>D, <1>5, <1>7 DEF Next
  <2>2. CASE sound'
    <3>1. CASE \E p \in Pks : Delete(p) \/ Expire(p) \/ \E v \in Values \cup {None} : Write(p, v)
      <4>1. sound /\ \E p \in Pks : Sync!Delete(p) \/ Sync!Expire(p) \/ \E v \in Values \cup {None} : Sync!Write(p, v)
        BY <1>2, <1>3, <1>4, <2>2, <3>1
      <4>2. QED BY <2>1, <2>2, <4>1 DEF Sync!Next
    <3>2. CASE \E c \in Consumers : Consume(c) \/ ApplyTwice(c) \/ ApplyFails(c) \/ Abandon(c)
      BY <1>5, <2>1, <2>2, <3>2
    <3>3. CASE \E p \in Pks : DeleteFull(p) BY <1>D, <2>1, <3>3
    <3>4. QED BY <1>7, <3>1, <3>2, <3>3 DEF Next
  <2>3. QED BY <1>1, <2>1, <2>2
<1>8. QED BY <1>6, <1>7

(***************************************************************************)
(* The theorems.                                                           *)
(***************************************************************************)
\* The row Lua's log entries and ConsumeLog implement an index that every statement
\* maintains at once, whoever consumes the log, until a batch fails for good or one
\* consumer trims under another: reads, partial pipelines, repeated batches, crashes and
\* failed LTRIMs are stutters.
THEOREM LogImplementsSync == Spec => ImplementsSync
<1>1. Init => AInv BY AInvInit
<1>2. Init => Sync!Init
  <2> SUFFICES ASSUME Init PROVE Sync!Init OBVIOUS
  <2>1. row = [p \in Pks |-> Sync!NoRow] BY DEF Init, NoRow, Sync!NoRow
  <2>2. bucket = {} /\ log = <<>> /\ sound = TRUE BY DEF Init
  <2>3. DOMAIN log = {} BY <2>2
  <2>4. \A m : m \notin ReplayAll(bucket, log) BY <2>2, <2>3, ReplayMember
  <2>5. ReplayAll(bucket, log) = {} BY <2>4
  <2>6. QED BY <2>1, <2>2, <2>5 DEF Sync!Init
<1>3. AInv /\ [Next]_vars => AInv' /\ [Sync!Next]_<<row, ReplayAll(bucket, log), sound>> BY AInvStep
<1>4. QED BY <1>1, <1>2, <1>3, PTL DEF Spec, ImplementsSync, Sync!Spec

\* Under the same conditions, once the log is empty every live row has its member in the
\* bucket (roles.go: "what is consumed twice is absorbed").
THEOREM LogConverges == Spec => []Converged
<1>1. Init => AInv BY AInvInit
<1>2. AInv /\ [Next]_vars => AInv' BY AInvStep
<1>3. AInv => Converged
  <2> SUFFICES ASSUME AInv, log = <<>>, sound, NEW p \in Pks, row[p].val \notin {None, Empty}
               PROVE  <<row[p].val, p, row[p].iv>> \in bucket
    BY DEF Converged
  <2>1. <<row[p].val, p, row[p].iv>> \in ReplayAll(bucket, log) BY DEF AInv, RowsLogged
  <2>2. DOMAIN log = {} BY DEF AInv, TypeOK
  <2>3. QED BY <2>1, <2>2, ReplayMember
<1>4. QED BY <1>1, <1>2, <1>3, PTL DEF Spec
=============================================================================
