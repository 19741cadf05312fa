-------------------------- MODULE BucketSplitProofs --------------------------
(***************************************************************************)
(* For any rows, writers, sub-buckets, batch size, splits, merges, deaths  *)
(* and rebirths of rows, deaths of controllers, with one controller at a   *)
(* time: no split and no merge loses a member, except that of a row born   *)
(* again while a ZREM of it is due, or leaves one behind.                  *)
(***************************************************************************)
EXTENDS BucketSplit, SequenceTheorems, TLAPS

(***************************************************************************)
(* The inductive invariant.                                                *)
(***************************************************************************)
\* The assumptions of drainGrace and migrateBatch: one controller at a time, writes shorter
\* than the cache TTL, a pass shorter than the margin, batches executed completely.
OneSplitter == \A s, t \in Splitters : s = t
Assumed == OneSplitter /\ Timely /\ "longpass" \notin Faults /\ "cut" \notin Faults

\* Sources and targets of a migration do not meet, and new indices are above all others.
EntryShape(e) ==
    /\ Len(e.b) > 0
    /\ e.st # "ACTIVE" => Len(e.p) > 0 /\ Len(e.c) > 0 /\ Range(e.p) \cap Range(e.c) = {}

Below(e, n) == \A i \in ReadBucketsEq(e) : i < n

DocShape == EntryShape(doc) /\ Below(doc, doc.next)

\* A cached document is the current one or an older one, and whoever writes by it
\* writes to buckets that are read.
CacheShape ==
    \A w \in Writers :
        /\ cache[w].ver <= doc.ver
        /\ cache[w].ver = doc.ver => cache[w] = doc
        /\ \A k \in Pks : WriteTargetsEq(cache[w], k) \subseteq ReadBucketsEq(doc)

RowShape == \A k \in Pks : row[k].iv <= row[k].ver

\* A pending ZREM is not of the member that its row has now.
Spares(x) == x[2][1] \notin hit /\ row[x[2][1]].iv # 0 => x[2][2] # row[x[2][1]].iv

PendingShape ==
    \A w \in Writers :
        /\ \A x \in wadd[w] : x[1] \in WriteTargetsEq(cache[w], x[2][1])
        /\ \A x \in wrem[w] : Spares(x)

Migrating == {"page", "exists", "move"}
SameEntry(e) == e.b = doc.b /\ e.st = doc.st /\ e.p = doc.p /\ e.c = doc.c

\* What a splitter knows of the document, by where it is.
Knows(s) ==
    /\ spc[s] # "move" => loc[s].add = {} /\ loc[s].rem = {}
    /\ loc[s].rem \subseteq loc[s].page /\ loc[s].add \subseteq loc[s].page
    /\ spc[s] # "idle" => loc[s].op \in {"split", "merge"}
    /\ spc[s] = "next" =>
          /\ doc.st = "ACTIVE" /\ loc[s].e.b = doc.b /\ loc[s].next = doc.next
          /\ loc[s].next + NewTargets(loc[s].op, doc.b) <= MaxIdx + 1
          /\ loc[s].op = "merge" => Len(doc.b) > 1
    /\ spc[s] \in {"reload", "busy"} =>
          /\ doc.st = "ACTIVE" /\ loc[s].e.st = Busy(loc[s].op)
          /\ EntryShape(loc[s].e) /\ Below(loc[s].e, doc.next)
          /\ ReadBucketsEq(doc) \subseteq ReadBucketsEq(loc[s].e)
    /\ spc[s] \in Migrating =>
          /\ SameEntry(loc[s].e) /\ doc.st = (IF loc[s].drain THEN Drain(loc[s].op) ELSE Busy(loc[s].op))
          /\ loc[s].drain => loc[s].dver = doc.ver
          /\ Range(loc[s].todo) \subseteq Range(From(loc[s].e))
          /\ spc[s] # "page" => loc[s].todo # <<>>
    /\ spc[s] = "mark" => doc.st = Busy(loc[s].op)
    /\ spc[s] = "drain" =>
          /\ doc.st = Busy(loc[s].op) /\ loc[s].e.st = Drain(loc[s].op)
          /\ loc[s].e.b = doc.b /\ loc[s].e.p = doc.p /\ loc[s].e.c = doc.c
    /\ spc[s] \in {"unlink", "final"} =>
          /\ SameEntry(loc[s].e) /\ doc.st = Drain(loc[s].op)
          /\ Range(loc[s].todo) \subseteq Range(From(loc[s].e))

SplitterShape == \A s \in Splitters : Knows(s)

Caught == \A w \in Writers : cache[w] = doc

\* Once the TTL is over, nobody writes by an older document; a pass that began then leaves
\* every bucket that it has finished empty.
Drained(s) ==
    /\ spc[s] \in Migrating =>
          /\ loc[s].clock # "early" => loc[s].drain /\ Caught
          /\ loc[s].pass # "early" => loc[s].clock # "early"
          /\ loc[s].clock = "over" => loc[s].pass # "early"
          /\ loc[s].pass # "early" =>
                /\ \A i \in Range(From(loc[s].e)) : i \in Range(loc[s].todo) \/ bucket[i] = {}
                /\ spc[s] # "page" /\ Cardinality(loc[s].page) < Batch => bucket[Head(loc[s].todo)] \subseteq loc[s].page
                /\ spc[s] = "move" => bucket[Head(loc[s].todo)] \cap loc[s].page \subseteq loc[s].rem
    /\ spc[s] \in {"unlink", "final"} =>
          /\ Caught
          /\ \A i \in Range(From(loc[s].e)) : bucket[i] = {}

DrainShape == \A s \in Splitters : Drained(s)

\* What a batch will remove from the source is in the target, or will be.
BatchSafe(s) ==
    spc[s] = "move" =>
        \A m \in loc[s].rem :
            row[m[1]].iv = m[2] /\ m[1] \notin hit => m \in loc[s].add \/ m \in bucket[Pick(To(loc[s].e), m[1])]

BatchShape == \A s \in Splitters : BatchSafe(s)

BInv ==
    /\ TypeOK /\ DocShape /\ CacheShape /\ RowShape /\ PendingShape
    /\ SplitterShape /\ DrainShape /\ BatchShape /\ NoneLost /\ NoOrphans

(***************************************************************************)
(* Routing.                                                                *)
(***************************************************************************)
LEMMA PickInRange ==
    ASSUME NEW q \in Seq(Idx), Len(q) > 0, NEW k \in Pks
    PROVE  Pick(q, k) \in Range(q) /\ Pick(q, k) \in Idx
<1>1. k % Len(q) \in 0 .. Len(q) - 1 BY PksAssumption
<1>2. (k % Len(q)) + 1 \in DOMAIN q BY <1>1
<1>3. QED BY <1>2 DEF Pick, EqSubFor, Range

LEMMA RangeTypes == \A q \in Seq(Idx) : Range(q) \subseteq Idx
BY DEF Range

LEMMA ReadTypes == \A e \in EqEntry \cup Document : ReadBucketsEq(e) \subseteq Idx
BY RangeTypes DEF ReadBucketsEq, EqEntry, Document

\* Whoever writes by a document writes to buckets that it reads.
LEMMA TargetsAreRead ==
    ASSUME NEW e \in Document, EntryShape(e), NEW k \in Pks
    PROVE  WriteTargetsEq(e, k) \subseteq ReadBucketsEq(e)
<1>1. e.b \in Seq(Idx) /\ e.p \in Seq(Idx) /\ e.c \in Seq(Idx) /\ e.st \in States BY DEF Document
<1>2. Pick(e.b, k) \in Range(e.b) BY <1>1, PickInRange DEF EntryShape
<1>3. e.st # "ACTIVE" => Pick(e.p, k) \in Range(e.p) /\ Pick(e.c, k) \in Range(e.c) BY <1>1, PickInRange DEF EntryShape
<1>4. QED BY <1>1, <1>2, <1>3 DEF WriteTargetsEq, ReadBucketsEq, States

LEMMA TargetsExist == \A e \in Document, k \in Pks : WriteTargetsEq(e, k) # {}
BY DEF WriteTargetsEq, Document, States

\* A draining document is written to its targets, which are not among its sources.
LEMMA DrainTargets ==
    ASSUME NEW e \in Document, EntryShape(e), e.st \in {"DRAINING", "MERGE_DRAIN"}, NEW k \in Pks
    PROVE  /\ WriteTargetsEq(e, k) \subseteq Range(To(e))
           /\ WriteTargetsEq(e, k) \cap Range(From(e)) = {}
<1>1. e.p \in Seq(Idx) /\ e.c \in Seq(Idx) BY DEF Document
<1>2. Pick(e.p, k) \in Range(e.p) /\ Pick(e.c, k) \in Range(e.c) BY <1>1, PickInRange DEF EntryShape
<1>3. Range(e.p) \cap Range(e.c) = {} BY DEF EntryShape
<1>4. QED BY <1>2, <1>3 DEF WriteTargetsEq, To, From

LEMMA FromTo ==
    ASSUME NEW e, e.st # "ACTIVE", EntryShape(e)
    PROVE  /\ ReadBucketsEq(e) = Range(From(e)) \cup Range(To(e))
           /\ Range(From(e)) \cap Range(To(e)) = {}
           /\ Len(From(e)) > 0 /\ Len(To(e)) > 0
BY DEF ReadBucketsEq, From, To, EntryShape

LEMMA FromToTypes == \A e \in EqEntry \cup Document : From(e) \in Seq(Idx) /\ To(e) \in Seq(Idx)
BY DEF From, To, EqEntry, Document

\* Who has the entry of the document has its sources and targets.
LEMMA SameRoutes ==
    ASSUME NEW s, SameEntry(loc[s].e)
    PROVE  /\ From(loc[s].e) = From(doc) /\ To(loc[s].e) = To(doc)
           /\ ReadBucketsEq(loc[s].e) = ReadBucketsEq(doc)
BY DEF SameEntry, From, To, ReadBucketsEq

LEMMA EntryTypes == doc \in Document => Entry \in EqEntry
BY DEF Entry, Document, EqEntry

LEMMA IdleTypes == NoEntry \in EqEntry /\ NoLoc \in Locals
<1>1. <<>> \in Seq(Idx) OBVIOUS
<1>2. NoEntry \in EqEntry BY <1>1 DEF NoEntry, EqEntry, States
<1>3. 0 \in 0 .. MaxStepRetries - 1 BY SizeAssumption
<1>4. QED BY <1>1, <1>2, <1>3 DEF NoLoc, Locals, Clock

LEMMA BInvInit == Init => BInv
<1> SUFFICES ASSUME Init PROVE BInv OBVIOUS
<1>1. InitDoc \in Document /\ InitDoc.st = "ACTIVE" /\ InitDoc.ver = 0 /\ InitDoc.next = 2 * NSub - 1
      /\ InitDoc.b = [i \in 1 .. NSub |-> NSub - 2 + i]
  <2>1. [i \in 1 .. NSub |-> NSub - 2 + i] \in Seq(Idx)
    <3>1. \A i \in 1 .. NSub : NSub - 2 + i \in Idx BY SizeAssumption DEF Idx
    <3>2. QED BY <3>1, SizeAssumption
  <2>2. 2 * NSub - 1 \in Nat BY SizeAssumption
  <2>3. QED BY <2>1, <2>2 DEF InitDoc, Document, States
<1>2. Len(InitDoc.b) = NSub BY <1>1, SizeAssumption
<1>3. ReadBucketsEq(InitDoc) = {NSub - 2 + i : i \in 1 .. NSub} BY <1>1 DEF ReadBucketsEq, Range
<1>4. EntryShape(InitDoc) BY <1>1, <1>2, SizeAssumption DEF EntryShape
<1>5. TypeOK
  <2>1. bucket \in [Idx -> SUBSET Member] BY DEF Init
  <2>2. row \in [Pks -> [ver : 0 .. MaxVer, iv : 0 .. MaxVer]] BY SizeAssumption DEF Init
  <2>3. cache \in [Writers -> Document] /\ doc \in Document BY <1>1 DEF Init
  <2>4. spc \in [Splitters -> Steps] BY DEF Init, Steps
  <2>5. loc \in [Splitters -> Locals] BY IdleTypes DEF Init
  <2>6. hot \in BOOLEAN /\ crashed \in BOOLEAN
    <3>1. (NSub > 1) \in BOOLEAN OBVIOUS
    <3>2. QED BY <3>1, Zenon DEF Init
  <2>7. QED BY <2>1, <2>2, <2>3, <2>4, <2>5, <2>6 DEF Init, TypeOK
<1>6. DocShape BY <1>1, <1>3, <1>4, SizeAssumption DEF Init, DocShape, Below
<1>7. CacheShape BY <1>1, <1>4, TargetsAreRead DEF Init, CacheShape
<1>8. RowShape /\ PendingShape BY DEF Init, RowShape, PendingShape
<1>9. BatchShape BY DEF Init, BatchShape, BatchSafe
<1>10. SplitterShape BY DEF Init, NoLoc, SplitterShape, Knows, Migrating
<1>11. DrainShape BY DEF Init, DrainShape, Drained, Migrating
<1>12. NoneLost /\ NoOrphans BY DEF Init, NoneLost, Indexed, NoOrphans
<1>13. QED BY <1>5, <1>6, <1>7, <1>8, <1>9, <1>10, <1>11, <1>12 DEF BInv

(***************************************************************************)
(* The writers.                                                            *)
(***************************************************************************)
\* The other side is as it was.
SplitterRests == UNCHANGED <<doc, hot, split>>

LEMMA RestsKeeps == ASSUME DocShape, SplitterShape, SplitterRests PROVE DocShape' /\ SplitterShape'
<1>1. doc' = doc /\ spc' = spc /\ loc' = loc BY DEF SplitterRests, split
<1>2. DocShape' BY <1>1 DEF DocShape
<1>3. \A s \in Splitters : Knows(s)' BY <1>1 DEF SplitterShape, Knows, SameEntry
<1>4. QED BY <1>2, <1>3 DEF SplitterShape

\* A member stays reachable when nothing that held it lets go.
LEMMA ReachKept ==
    ASSUME NEW m, Reaches(m),
           ReadBucketsEq(doc) \subseteq ReadBucketsEq(doc'),
           \A i \in ReadBucketsEq(doc) : m \in bucket[i] => m \in bucket'[i],
           \A i \in ReadBucketsEq(doc), w \in Writers :
              <<i, m>> \in wadd[w] => <<i, m>> \in wadd'[w] \/ m \in bucket'[i],
           \A s \in Splitters : m \in loc[s].add =>
              \/ m \in loc'[s].add /\ To(loc'[s].e) = To(loc[s].e)
              \/ m \in bucket'[Pick(To(loc[s].e), m[1])]
    PROVE  Reaches(m)'
<1>1. PICK i \in ReadBucketsEq(doc) :
         \/ m \in bucket[i]
         \/ \E w \in Writers : <<i, m>> \in wadd[w]
         \/ \E s \in Splitters : m \in loc[s].add /\ Pick(To(loc[s].e), m[1]) = i
  BY DEF Reaches
<1>2. i \in ReadBucketsEq(doc') BY <1>1
<1>3. \/ m \in bucket'[i]
      \/ \E w \in Writers : <<i, m>> \in wadd'[w]
      \/ \E s \in Splitters : m \in loc'[s].add /\ Pick(To(loc'[s].e), m[1]) = i
  BY <1>1
<1>4. QED BY <1>2, <1>3 DEF Reaches

LEMMA PutStep ==
    ASSUME BInv, NEW w \in Writers, NEW k \in Pks, Put(w, k)
    PROVE  BInv'
<1> DEFINE v == row[k].ver + 1
<1>1. TypeOK /\ DocShape /\ CacheShape /\ RowShape /\ PendingShape
      /\ SplitterShape /\ DrainShape /\ BatchShape /\ NoneLost /\ NoOrphans
  BY DEF BInv
<1>2. /\ row[k].iv = 0 /\ wadd[w] = {} /\ wrem[w] = {}
      /\ v \in 1 .. MaxVer /\ row[k].ver \in Nat
      /\ row' = [row EXCEPT ![k] = [ver |-> v, iv |-> v]]
      /\ UNCHANGED <<doc, hot, bucket, deaths, cache, wrem, spc, loc, begins, crashed>>
  <2>1. row[k].ver \in 0 .. MaxVer BY <1>1 DEF TypeOK
  <2>2. QED BY <2>1, SizeAssumption DEF Put, Idle, store, split
<1>3. PICK T : T = WriteTargetsEq(cache[w], k) OBVIOUS
<1>4. T # {} /\ T \subseteq ReadBucketsEq(doc) /\ T \subseteq Idx
  BY <1>1, <1>3, TargetsExist, ReadTypes DEF TypeOK, CacheShape
<1>5. wadd' = [wadd EXCEPT ![w] = {<<i, <<k, v>>>> : i \in T}] BY <1>3 DEF Put
<1>6. TypeOK'
  <2>1. {<<i, <<k, v>>>> : i \in T} \subseteq Idx \X Member BY <1>2, <1>4 DEF Member
  <2>2. wadd' \in [Writers -> SUBSET (Idx \X Member)] BY <1>1, <1>5, <2>1 DEF TypeOK
  <2>3. row' \in [Pks -> [ver : 0 .. MaxVer, iv : 0 .. MaxVer]] BY <1>1, <1>2 DEF TypeOK
  <2>4. hit' \subseteq Pks BY <1>1 DEF TypeOK, Put
  <2>5. QED BY <1>1, <1>2, <2>2, <2>3, <2>4 DEF TypeOK
<1>7. \A j \in Pks : row[j].ver \in Nat /\ row[j].iv \in Nat /\ (j # k => row'[j] = row[j])
  BY <1>1, <1>2 DEF TypeOK
<1>8. row'[k].ver = v /\ row'[k].iv = v BY <1>1, <1>2 DEF TypeOK
<1>9. RowShape' BY <1>1, <1>2, <1>7, <1>8 DEF RowShape
<1>10. hit' = (IF Due(<<k, v>>) THEN hit \cup {k} ELSE hit \ {k}) /\ \A j \in Pks : j # k => (j \in hit' <=> j \in hit)
  BY DEF Put
<1>11. PendingShape'
  <2> SUFFICES ASSUME NEW u \in Writers
               PROVE  /\ \A x \in wadd'[u] : x[1] \in WriteTargetsEq(cache[u], x[2][1])
                      /\ \A x \in wrem[u] : Spares(x)'
    BY <1>2 DEF PendingShape
  <2>1. \A x \in wadd'[u] : x[1] \in WriteTargetsEq(cache[u], x[2][1])
    <3>1. CASE u = w
      <4>1. wadd'[u] = {<<i, <<k, v>>>> : i \in T} BY <3>1, <1>1, <1>5 DEF TypeOK
      <4>2. QED BY <4>1, <3>1, <1>3
    <3>2. CASE u # w
      <4>1. wadd'[u] = wadd[u] BY <3>2, <1>1, <1>5 DEF TypeOK
      <4>2. QED BY <4>1, <1>1 DEF PendingShape
    <3>3. QED BY <3>1, <3>2
  <2>2. ASSUME NEW x \in wrem[u] PROVE Spares(x)'
    <3>1. x[1] \in Idx /\ x[2] \in Member /\ x[2][1] \in Pks /\ x = <<x[1], x[2]>> /\ x[2] = <<x[2][1], x[2][2]>>
      BY <1>1 DEF TypeOK, Member
    <3>2. Spares(x) BY <1>1 DEF PendingShape
    <3>3. CASE x[2][1] # k BY <3>1, <3>2, <3>3, <1>7, <1>10 DEF Spares
    <3>4. CASE x[2][1] = k /\ x[2][2] = v
      <4>1. x = <<x[1], <<k, v>>>> BY <3>1, <3>4
      <4>2. Due(<<k, v>>) BY <3>1, <4>1 DEF Due
      <4>3. QED BY <1>10, <3>4, <4>2 DEF Spares
    <3>5. CASE x[2][1] = k /\ x[2][2] # v BY <3>5, <1>8 DEF Spares
    <3>6. QED BY <3>3, <3>4, <3>5
  <2>3. QED BY <2>1, <2>2
<1>13. DocShape' /\ SplitterShape' BY <1>1, <1>2, RestsKeeps DEF SplitterRests, split
<1>14. CacheShape' BY <1>1, <1>2 DEF CacheShape
<1>15. DrainShape' BY <1>1, <1>2 DEF DrainShape, Drained, Caught
<1>16. BatchShape'
  <2> SUFFICES ASSUME NEW s \in Splitters, spc[s] = "move", NEW m \in loc[s].rem, row'[m[1]].iv = m[2], m[1] \notin hit'
               PROVE  m \in loc[s].add \/ m \in bucket[Pick(To(loc[s].e), m[1])]
    BY <1>2 DEF BatchShape, BatchSafe
  <2>1. m \in Member /\ m[1] \in Pks /\ m = <<m[1], m[2]>> BY <1>1 DEF TypeOK, Locals, Member
  <2>2. CASE m[1] = k
    <3>1. m = <<k, v>> BY <2>1, <2>2, <1>8
    <3>2. ~Due(m) BY <1>10, <2>2, <3>1
    <3>3. QED BY <3>2 DEF Due
  <2>3. CASE m[1] # k
    <3>1. row[m[1]].iv = m[2] /\ m[1] \notin hit BY <2>1, <2>3, <1>7, <1>10
    <3>2. QED BY <1>1, <3>1 DEF BatchShape, BatchSafe
  <2>4. QED BY <2>2, <2>3
<1>17. NoneLost'
  <2> SUFFICES ASSUME NEW j \in Pks, j \notin hit', NEW n, n = row'[j].iv, n # 0 PROVE Reaches(<<j, n>>)'
    BY DEF NoneLost, Indexed, MemberOf
  <2>1. CASE j = k
    <3>1. PICK i \in T : TRUE BY <1>4
    <3>2. <<i, <<k, v>>>> \in wadd'[w] BY <1>1, <1>5, <3>1 DEF TypeOK
    <3>3. i \in ReadBucketsEq(doc') BY <1>2, <1>4, <3>1
    <3>4. QED BY <3>2, <3>3, <1>8, <2>1 DEF Reaches
  <2>2. CASE j # k
    <3>1. row'[j] = row[j] /\ j \notin hit BY <2>2, <1>7, <1>10
    <3>2. Reaches(<<j, n>>) BY <3>1, <1>1 DEF NoneLost, Indexed, MemberOf
    <3>3. \A u \in Writers : wadd[u] \subseteq wadd'[u] BY <1>1, <1>2, <1>5 DEF TypeOK
    <3>4. QED BY <3>2, <3>3, <1>2, ReachKept
  <2>3. QED BY <2>1, <2>2
<1>18. NoOrphans' BY <1>1, <1>2 DEF NoOrphans
<1>19. QED BY <1>6, <1>9, <1>11, <1>13, <1>14, <1>15, <1>16, <1>17, <1>18 DEF BInv

\* A migration meets only sources that lose members once the TTL is over.
LEMMA DrainKept ==
    ASSUME BInv, SplitterRests, Caught => Caught',
           (Caught /\ doc.st \in {"DRAINING", "MERGE_DRAIN"}) => \A i \in Range(From(doc)) : bucket'[i] \subseteq bucket[i]
    PROVE  DrainShape'
<1> SUFFICES ASSUME NEW s \in Splitters PROVE Drained(s)' BY DEF DrainShape
<1>1. doc' = doc /\ spc' = spc /\ loc' = loc BY DEF SplitterRests, split
<1>2. Knows(s) /\ Drained(s) /\ loc[s] \in Locals /\ spc[s] \in Steps BY DEF BInv, SplitterShape, DrainShape, TypeOK
<1>3. CASE spc[s] \in Migrating
  <2>1. SameEntry(loc[s].e) /\ doc.st = (IF loc[s].drain THEN Drain(loc[s].op) ELSE Busy(loc[s].op))
        /\ Range(loc[s].todo) \subseteq Range(From(loc[s].e)) /\ (spc[s] # "page" => loc[s].todo # <<>>)
    BY <1>2, <1>3 DEF Knows
  <2>2. From(loc[s].e) = From(doc) BY <2>1, SameRoutes
  <2>3. CASE loc[s].pass = "early"
    BY <1>1, <1>2, <1>3, <2>3 DEF Drained, Migrating
  <2>4. CASE loc[s].pass # "early"
    <3>1. loc[s].clock # "early" /\ loc[s].drain /\ Caught BY <1>2, <1>3, <2>4 DEF Drained
    <3>2. doc.st \in {"DRAINING", "MERGE_DRAIN"} BY <2>1, <3>1 DEF Drain
    <3>3. \A i \in Range(From(loc[s].e)) : bucket'[i] \subseteq bucket[i] BY <2>2, <3>1, <3>2
    <3>4. spc[s] # "page" => Head(loc[s].todo) \in Range(From(loc[s].e))
      <4>1. loc[s].todo \in Seq(Idx) BY <1>2 DEF Locals
      <4>2. loc[s].todo # <<>> => Head(loc[s].todo) \in Range(loc[s].todo) BY <4>1 DEF Range
      <4>3. QED BY <2>1, <4>2
    <3>5. /\ \A i \in Range(From(loc[s].e)) : i \in Range(loc[s].todo) \/ bucket[i] = {}
          /\ (spc[s] # "page" /\ Cardinality(loc[s].page) < Batch) => bucket[Head(loc[s].todo)] \subseteq loc[s].page
          /\ spc[s] = "move" => bucket[Head(loc[s].todo)] \cap loc[s].page \subseteq loc[s].rem
          /\ loc[s].clock = "over" => loc[s].pass # "early"
      BY <1>2, <1>3, <2>4 DEF Drained
    <3>6. /\ \A i \in Range(From(loc[s].e)) : i \in Range(loc[s].todo) \/ bucket'[i] = {}
          /\ (spc[s] # "page" /\ Cardinality(loc[s].page) < Batch) => bucket'[Head(loc[s].todo)] \subseteq loc[s].page
          /\ spc[s] = "move" => bucket'[Head(loc[s].todo)] \cap loc[s].page \subseteq loc[s].rem
      BY <3>3, <3>4, <3>5 DEF Migrating
    <3>7. QED BY <1>1, <1>3, <3>1, <3>5, <3>6 DEF Drained, Migrating
  <2>5. QED BY <2>3, <2>4
<1>4. CASE spc[s] \in {"unlink", "final"}
  <2>1. SameEntry(loc[s].e) /\ doc.st = Drain(loc[s].op) BY <1>2, <1>4 DEF Knows
  <2>2. From(loc[s].e) = From(doc) BY <2>1, SameRoutes
  <2>3. Caught /\ \A i \in Range(From(loc[s].e)) : bucket[i] = {} BY <1>2, <1>4 DEF Drained
  <2>4. \A i \in Range(From(loc[s].e)) : bucket'[i] = {} BY <2>1, <2>2, <2>3 DEF Drain
  <2>5. QED BY <1>1, <1>4, <2>3, <2>4 DEF Drained, Migrating
<1>5. QED BY <1>1, <1>3, <1>4 DEF Drained

LEMMA AwayStep ==
    ASSUME BInv, NEW w \in Writers, NEW k \in Pks, Away(w, k)
    PROVE  BInv'
<1>1. TypeOK /\ DocShape /\ CacheShape /\ RowShape /\ PendingShape
      /\ SplitterShape /\ DrainShape /\ BatchShape /\ NoneLost /\ NoOrphans
  BY DEF BInv
<1>2. /\ row[k].iv # 0 /\ row[k].iv \in 1 .. MaxVer /\ row[k].iv <= row[k].ver /\ row[k].ver \in Nat /\ row[k].ver < MaxVer
      /\ row' = [row EXCEPT ![k] = [ver |-> row[k].ver + 1, iv |-> 0]]
      /\ UNCHANGED <<doc, hot, bucket, deaths, hit, cache, wadd, spc, loc, begins, crashed>>
  <2>1. row[k].iv \in 0 .. MaxVer /\ row[k].ver \in 0 .. MaxVer BY <1>1 DEF TypeOK
  <2>2. QED BY <1>1, <2>1, SizeAssumption DEF Away, store, split, RowShape
<1>3. PICK R : R = {<<i, <<k, row[k].iv>>>> : i \in ReadBucketsEq(cache[w])} OBVIOUS
<1>4. wrem' = [wrem EXCEPT ![w] = R] BY <1>3 DEF Away
<1>5. ReadBucketsEq(cache[w]) \subseteq Idx BY <1>1, ReadTypes DEF TypeOK
<1>6. TypeOK'
  <2>1. R \subseteq Idx \X Member BY <1>2, <1>3, <1>5 DEF Member
  <2>2. wrem' \in [Writers -> SUBSET (Idx \X Member)] BY <1>1, <1>4, <2>1 DEF TypeOK
  <2>3. row' \in [Pks -> [ver : 0 .. MaxVer, iv : 0 .. MaxVer]] BY <1>1, <1>2, SizeAssumption DEF TypeOK
  <2>4. QED BY <1>1, <1>2, <2>2, <2>3 DEF TypeOK
<1>7. \A j \in Pks : row[j].ver \in Nat /\ row[j].iv \in Nat /\ (j # k => row'[j] = row[j])
  BY <1>1, <1>2 DEF TypeOK
<1>8. row'[k].ver = row[k].ver + 1 /\ row'[k].iv = 0 BY <1>1, <1>2 DEF TypeOK
<1>9. RowShape' BY <1>1, <1>2, <1>7, <1>8 DEF RowShape
<1>11. PendingShape'
  <2> SUFFICES ASSUME NEW u \in Writers
               PROVE  /\ \A x \in wadd[u] : x[1] \in WriteTargetsEq(cache[u], x[2][1])
                      /\ \A x \in wrem'[u] : Spares(x)'
    BY <1>2 DEF PendingShape
  <2>1. \A x \in wadd[u] : x[1] \in WriteTargetsEq(cache[u], x[2][1]) BY <1>1 DEF PendingShape
  <2>2. ASSUME NEW x \in wrem'[u] PROVE Spares(x)'
    <3>1. CASE u = w
      <4>1. x \in R BY <3>1, <1>1, <1>4 DEF TypeOK
      <4>2. x[2][1] = k BY <4>1, <1>3
      <4>3. QED BY <4>2, <1>8 DEF Spares
    <3>2. CASE u # w
      <4>1. x \in wrem[u] BY <3>2, <1>1, <1>4 DEF TypeOK
      <4>2. x[2][1] \in Pks BY <1>1, <4>1 DEF TypeOK, Member
      <4>3. Spares(x) BY <1>1, <4>1 DEF PendingShape
      <4>4. QED BY <4>2, <4>3, <1>2, <1>7, <1>8 DEF Spares
    <3>3. QED BY <3>1, <3>2
  <2>3. QED BY <2>1, <2>2
<1>13. DocShape' /\ SplitterShape' BY <1>1, <1>2, RestsKeeps DEF SplitterRests, split
<1>14. CacheShape' BY <1>1, <1>2 DEF CacheShape
<1>15. DrainShape' BY <1>1, <1>2 DEF DrainShape, Drained, Caught
<1>16. BatchShape'
  <2> SUFFICES ASSUME NEW s \in Splitters, spc[s] = "move", NEW m \in loc[s].rem, row'[m[1]].iv = m[2], m[1] \notin hit
               PROVE  m \in loc[s].add \/ m \in bucket[Pick(To(loc[s].e), m[1])]
    BY <1>2 DEF BatchShape, BatchSafe
  <2>1. m[1] \in Pks /\ m[2] \in 1 .. MaxVer BY <1>1 DEF TypeOK, Locals, Member
  <2>2. row[m[1]].iv = m[2] BY <2>1, <1>7, <1>8
  <2>3. QED BY <1>1, <2>2 DEF BatchShape, BatchSafe
<1>17. NoneLost'
  <2> SUFFICES ASSUME NEW j \in Pks, j \notin hit', NEW n, n = row'[j].iv, n # 0 PROVE Reaches(<<j, n>>)'
    BY DEF NoneLost, Indexed, MemberOf
  <2>1. row'[j] = row[j] /\ j \notin hit BY <1>2, <1>7, <1>8
  <2>2. Reaches(<<j, n>>) BY <2>1, <1>1 DEF NoneLost, Indexed, MemberOf
  <2>3. QED BY <2>2, <1>2, ReachKept
<1>18. NoOrphans' BY <1>1, <1>2 DEF NoOrphans
<1>19. QED BY <1>6, <1>9, <1>11, <1>13, <1>14, <1>15, <1>16, <1>17, <1>18 DEF BInv

LEMMA ZaddStep ==
    ASSUME BInv, NEW w \in Writers, NEW x \in wadd[w], WriterZadd(w, x)
    PROVE  BInv'
<1>1. TypeOK /\ DocShape /\ CacheShape /\ RowShape /\ PendingShape
      /\ SplitterShape /\ DrainShape /\ BatchShape /\ NoneLost /\ NoOrphans
  BY DEF BInv
<1>2. /\ bucket' = [bucket EXCEPT ![x[1]] = @ \cup {x[2]}]
      /\ wadd' = [wadd EXCEPT ![w] = @ \ {x}]
      /\ UNCHANGED <<doc, hot, row, deaths, hit, cache, wrem, spc, loc, begins, crashed>>
  BY DEF WriterZadd, rows, split
<1>3. x[1] \in Idx /\ x[2] \in Member /\ x[2][1] \in Pks /\ x = <<x[1], x[2]>> BY <1>1 DEF TypeOK, Member
<1>4. x[1] \in WriteTargetsEq(cache[w], x[2][1]) BY <1>1 DEF PendingShape
<1>5. x[1] \in ReadBucketsEq(doc) BY <1>1, <1>3, <1>4 DEF CacheShape
<1>6. \A i \in Idx : bucket'[i] = (IF i = x[1] THEN bucket[i] \cup {x[2]} ELSE bucket[i]) BY <1>1, <1>2 DEF TypeOK
<1>7. \A u \in Writers : wadd'[u] = (IF u = w THEN wadd[u] \ {x} ELSE wadd[u]) BY <1>1, <1>2 DEF TypeOK
<1>8. TypeOK'
  <2>1. bucket' \in [Idx -> SUBSET Member] BY <1>1, <1>2, <1>3 DEF TypeOK
  <2>2. wadd' \in [Writers -> SUBSET (Idx \X Member)] BY <1>1, <1>2 DEF TypeOK
  <2>3. QED BY <1>1, <1>2, <2>1, <2>2 DEF TypeOK
<1>9. DocShape' /\ SplitterShape' BY <1>1, <1>2, RestsKeeps DEF SplitterRests, split
<1>10. CacheShape' /\ RowShape' BY <1>1, <1>2 DEF CacheShape, RowShape
<1>11. PendingShape' BY <1>1, <1>2, <1>7 DEF PendingShape, Spares
<1>13. DrainShape'
  <2>1. ASSUME Caught, doc.st \in {"DRAINING", "MERGE_DRAIN"}
        PROVE  \A i \in Range(From(doc)) : bucket'[i] \subseteq bucket[i]
    <3>1. x[1] \in WriteTargetsEq(doc, x[2][1]) BY <1>4, <2>1 DEF Caught
    <3>2. x[1] \notin Range(From(doc)) BY <1>1, <1>3, <2>1, <3>1, DrainTargets DEF TypeOK, DocShape
    <3>3. Range(From(doc)) \subseteq Idx BY <1>1, FromToTypes, RangeTypes DEF TypeOK
    <3>4. QED BY <1>6, <3>2, <3>3
  <2>2. Caught => Caught' BY <1>2 DEF Caught
  <2>3. QED BY <1>2, <2>1, <2>2, DrainKept DEF SplitterRests, split
<1>14. BatchShape'
  <2>1. \A i : bucket[i] \subseteq bucket'[i]
    BY <1>1, <1>2, <1>3 DEF TypeOK
  <2>2. QED BY <1>1, <1>2, <2>1 DEF BatchShape, BatchSafe
<1>15. NoneLost'
  <2> SUFFICES ASSUME NEW j \in Pks, j \notin hit, NEW n, n = row[j].iv, n # 0 PROVE Reaches(<<j, n>>)'
    BY <1>2 DEF NoneLost, Indexed, MemberOf
  <2>1. Reaches(<<j, n>>) BY <1>1 DEF NoneLost, Indexed, MemberOf
  <2>2. ReadBucketsEq(doc) \subseteq Idx BY <1>1, ReadTypes DEF TypeOK
  <2>3. ASSUME NEW i \in ReadBucketsEq(doc), NEW u \in Writers, <<i, <<j, n>>>> \in wadd[u]
        PROVE  <<i, <<j, n>>>> \in wadd'[u] \/ <<j, n>> \in bucket'[i]
    <3>1. CASE <<i, <<j, n>>>> = x
      <4>1. i = x[1] /\ <<j, n>> = x[2] BY <3>1
      <4>2. QED BY <4>1, <1>3, <1>6
    <3>2. CASE <<i, <<j, n>>>> # x BY <3>2, <2>3, <1>7
    <3>3. QED BY <3>1, <3>2
  <2>4. \A i \in ReadBucketsEq(doc) : <<j, n>> \in bucket[i] => <<j, n>> \in bucket'[i] BY <1>6, <2>2
  <2>5. QED BY <1>2, <2>1, <2>3, <2>4, ReachKept
<1>16. NoOrphans' BY <1>1, <1>2, <1>5, <1>6 DEF NoOrphans
<1>17. QED BY <1>8, <1>9, <1>10, <1>11, <1>13, <1>14, <1>15, <1>16 DEF BInv

LEMMA ZremStep ==
    ASSUME BInv, NEW w \in Writers, NEW x \in wrem[w], WriterZrem(w, x)
    PROVE  BInv'
<1>1. TypeOK /\ DocShape /\ CacheShape /\ RowShape /\ PendingShape
      /\ SplitterShape /\ DrainShape /\ BatchShape /\ NoneLost /\ NoOrphans
  BY DEF BInv
<1>2. /\ bucket' = [bucket EXCEPT ![x[1]] = @ \ {x[2]}]
      /\ wrem' = [wrem EXCEPT ![w] = @ \ {x}]
      /\ UNCHANGED <<doc, hot, row, deaths, hit, cache, wadd, spc, loc, begins, crashed>>
  BY DEF WriterZrem, rows, split
<1>3. x[1] \in Idx /\ x[2] \in Member /\ x[2][1] \in Pks /\ x[2][2] \in Nat BY <1>1 DEF TypeOK, Member
<1>4. Spares(x) BY <1>1 DEF PendingShape
<1>5. \A i \in Idx : bucket'[i] = (IF i = x[1] THEN bucket[i] \ {x[2]} ELSE bucket[i]) BY <1>1, <1>2 DEF TypeOK
<1>6. \A u \in Writers : wrem'[u] \subseteq wrem[u] BY <1>1, <1>2 DEF TypeOK
<1>7. \A j \in Pks, n \in Nat : (j \notin hit /\ n = row[j].iv /\ n # 0) => <<j, n>> # x[2] BY <1>3, <1>4 DEF Spares
<1>8. TypeOK'
  <2>1. bucket' \in [Idx -> SUBSET Member] BY <1>1, <1>2, <1>3 DEF TypeOK
  <2>2. wrem' \in [Writers -> SUBSET (Idx \X Member)] BY <1>1, <1>2 DEF TypeOK
  <2>3. QED BY <1>1, <1>2, <2>1, <2>2 DEF TypeOK
<1>9. DocShape' /\ SplitterShape' BY <1>1, <1>2, RestsKeeps DEF SplitterRests, split
<1>10. CacheShape' /\ RowShape' BY <1>1, <1>2 DEF CacheShape, RowShape
<1>11. PendingShape' BY <1>1, <1>2, <1>6 DEF PendingShape, Spares
<1>13. DrainShape'
  <2>1. \A i \in Range(From(doc)) : bucket'[i] \subseteq bucket[i]
    <3>1. Range(From(doc)) \subseteq Idx BY <1>1, FromToTypes, RangeTypes DEF TypeOK
    <3>2. QED BY <1>5, <3>1
  <2>2. Caught => Caught' BY <1>2 DEF Caught
  <2>3. QED BY <1>2, <2>1, <2>2, DrainKept DEF SplitterRests, split
<1>14. BatchShape'
  <2> SUFFICES ASSUME NEW s \in Splitters, spc[s] = "move", NEW m \in loc[s].rem, row[m[1]].iv = m[2], m[1] \notin hit
               PROVE  m \in loc[s].add \/ m \in bucket'[Pick(To(loc[s].e), m[1])]
    BY <1>2 DEF BatchShape, BatchSafe
  <2>1. m \in Member BY <1>1 DEF TypeOK, Locals
  <2>2. m = <<m[1], m[2]>> /\ m[1] \in Pks /\ m[2] \in Nat /\ m[2] # 0 BY <2>1 DEF Member
  <2>3. m # x[2] BY <1>7, <2>2
  <2>4. m \in loc[s].add \/ m \in bucket[Pick(To(loc[s].e), m[1])] BY <1>1 DEF BatchShape, BatchSafe
  <2>5. Pick(To(loc[s].e), m[1]) \in Idx
    <3>1. Knows(s) /\ loc[s].e \in EqEntry BY <1>1 DEF SplitterShape, TypeOK, Locals
    <3>2. SameEntry(loc[s].e) /\ doc.st = (IF loc[s].drain THEN Drain(loc[s].op) ELSE Busy(loc[s].op))
      BY <3>1 DEF Knows, Migrating
    <3>3. To(loc[s].e) = To(doc) BY <3>2, SameRoutes
    <3>4. doc.st # "ACTIVE" BY <3>2 DEF Drain, Busy
    <3>5. Len(To(doc)) > 0 /\ To(doc) \in Seq(Idx) BY <1>1, <3>4, FromTo, FromToTypes DEF TypeOK, DocShape
    <3>6. QED BY <2>2, <3>3, <3>5, PickInRange
  <2>6. QED BY <1>5, <2>3, <2>4, <2>5
<1>15. NoneLost'
  <2> SUFFICES ASSUME NEW j \in Pks, j \notin hit, NEW n, n = row[j].iv, n # 0 PROVE Reaches(<<j, n>>)'
    BY <1>2 DEF NoneLost, Indexed, MemberOf
  <2>1. Reaches(<<j, n>>) BY <1>1 DEF NoneLost, Indexed, MemberOf
  <2>2. ReadBucketsEq(doc) \subseteq Idx BY <1>1, ReadTypes DEF TypeOK
  <2>3. n \in Nat BY <1>1 DEF TypeOK
  <2>4. <<j, n>> # x[2] BY <1>7, <2>3
  <2>5. \A i \in ReadBucketsEq(doc) : <<j, n>> \in bucket[i] => <<j, n>> \in bucket'[i] BY <1>5, <2>2, <2>4
  <2>6. QED BY <1>2, <2>1, <2>5, ReachKept
<1>16. NoOrphans' BY <1>1, <1>2, <1>5 DEF NoOrphans
<1>17. QED BY <1>8, <1>9, <1>10, <1>11, <1>13, <1>14, <1>15, <1>16 DEF BInv

LEMMA CacheStep ==
    ASSUME BInv, NEW w \in Writers, CacheLapses(w)
    PROVE  BInv'
<1>1. TypeOK /\ DocShape /\ CacheShape /\ RowShape /\ PendingShape
      /\ SplitterShape /\ DrainShape /\ BatchShape /\ NoneLost /\ NoOrphans
  BY DEF BInv
<1>2. /\ wadd[w] = {} /\ wrem[w] = {}
      /\ cache' = [cache EXCEPT ![w] = doc]
      /\ UNCHANGED <<doc, hot, bucket, row, deaths, hit, wadd, wrem, spc, loc, begins, crashed>>
  BY DEF CacheLapses, Idle, store, rows, split
<1>3. \A u \in Writers : cache'[u] = (IF u = w THEN doc ELSE cache[u]) BY <1>1, <1>2 DEF TypeOK
<1>4. TypeOK'
  <2>1. cache' \in [Writers -> Document] BY <1>1, <1>2 DEF TypeOK
  <2>2. QED BY <1>1, <1>2, <2>1 DEF TypeOK
<1>5. DocShape' /\ SplitterShape' BY <1>1, <1>2, RestsKeeps DEF SplitterRests, split
<1>6. CacheShape'
  <2>1. doc \in Document /\ doc.ver \in Nat BY <1>1 DEF TypeOK, Document
  <2>2. \A k \in Pks : WriteTargetsEq(doc, k) \subseteq ReadBucketsEq(doc) BY <1>1, <2>1, TargetsAreRead DEF DocShape
  <2>3. QED BY <1>1, <1>2, <1>3, <2>1, <2>2 DEF CacheShape
<1>7. RowShape' BY <1>1, <1>2 DEF RowShape
<1>8. PendingShape'
  <2>1. \A u \in Writers : u # w => cache'[u] = cache[u] BY <1>3
  <2>2. QED BY <1>1, <1>2, <2>1 DEF PendingShape, Spares
<1>9. DrainShape'
  <2>1. Caught => Caught' BY <1>2, <1>3 DEF Caught
  <2>2. QED BY <1>2, <2>1, DrainKept DEF SplitterRests, split
<1>10. BatchShape' BY <1>1, <1>2 DEF BatchShape, BatchSafe
<1>11. NoneLost' BY <1>1, <1>2 DEF NoneLost, Indexed, MemberOf, Reaches
<1>12. NoOrphans' BY <1>1, <1>2 DEF NoOrphans
<1>13. QED BY <1>4, <1>5, <1>6, <1>7, <1>8, <1>9, <1>10, <1>11, <1>12 DEF BInv

LEMMA DieStep ==
    ASSUME BInv, NEW k \in Pks, Die(k)
    PROVE  BInv'
<1>1. TypeOK /\ DocShape /\ CacheShape /\ RowShape /\ PendingShape
      /\ SplitterShape /\ DrainShape /\ BatchShape /\ NoneLost /\ NoOrphans
  BY DEF BInv
<1>2. /\ row' = [row EXCEPT ![k] = [ver |-> 0, iv |-> 0]]
      /\ deaths' = deaths + 1
      /\ UNCHANGED <<doc, hot, bucket, hit, cache, wadd, wrem, spc, loc, begins, crashed>>
  BY DEF Die, store, writers, split
<1>3. \A j \in Pks : row'[j] = (IF j = k THEN [ver |-> 0, iv |-> 0] ELSE row[j]) BY <1>1, <1>2 DEF TypeOK
<1>4. row'[k].ver = 0 /\ row'[k].iv = 0 BY <1>3
<1>5. TypeOK'
  <2>1. row' \in [Pks -> [ver : 0 .. MaxVer, iv : 0 .. MaxVer]] BY <1>1, <1>2, SizeAssumption DEF TypeOK
  <2>2. QED BY <1>1, <1>2, <2>1 DEF TypeOK
<1>7. RowShape' BY <1>1, <1>2, <1>3, <1>4 DEF RowShape
<1>8. PendingShape'
  <2>1. ASSUME NEW u \in Writers, NEW x \in wrem[u] PROVE Spares(x)'
    <3>1. x[2][1] \in Pks /\ Spares(x) BY <1>1 DEF TypeOK, Member, PendingShape
    <3>2. QED BY <3>1, <1>2, <1>3, <1>4 DEF Spares
  <2>2. QED BY <1>1, <1>2, <2>1 DEF PendingShape
<1>10. DocShape' /\ SplitterShape' BY <1>1, <1>2, RestsKeeps DEF SplitterRests, split
<1>11. CacheShape' /\ NoOrphans' BY <1>1, <1>2 DEF CacheShape, NoOrphans
<1>12. DrainShape' BY <1>1, <1>2 DEF DrainShape, Drained, Caught
<1>13. BatchShape'
  <2> SUFFICES ASSUME NEW s \in Splitters, spc[s] = "move", NEW m \in loc[s].rem, row'[m[1]].iv = m[2], m[1] \notin hit
               PROVE  m \in loc[s].add \/ m \in bucket[Pick(To(loc[s].e), m[1])]
    BY <1>2 DEF BatchShape, BatchSafe
  <2>1. m[1] \in Pks /\ m[2] \in 1 .. MaxVer BY <1>1 DEF TypeOK, Locals, Member
  <2>2. row[m[1]].iv = m[2] BY <2>1, <1>3, <1>4
  <2>3. QED BY <1>1, <2>2 DEF BatchShape, BatchSafe
<1>14. NoneLost'
  <2> SUFFICES ASSUME NEW j \in Pks, j \notin hit', NEW n, n = row'[j].iv, n # 0 PROVE Reaches(<<j, n>>)'
    BY DEF NoneLost, Indexed, MemberOf
  <2>1. row'[j] = row[j] /\ j \notin hit BY <1>2, <1>3, <1>4
  <2>2. Reaches(<<j, n>>) BY <2>1, <1>1 DEF NoneLost, Indexed, MemberOf
  <2>3. QED BY <2>2, <1>2, ReachKept
<1>15. QED BY <1>5, <1>7, <1>8, <1>10, <1>11, <1>12, <1>13, <1>14 DEF BInv

(***************************************************************************)
(* The splitter.                                                           *)
(***************************************************************************)
Moves(s, l, r) == spc' = [spc EXCEPT ![s] = l] /\ loc' = [loc EXCEPT ![s] = r]

\* What a step of the splitter s has to establish.
Settled(s) ==
    /\ doc' \in Document /\ hot' \in BOOLEAN /\ bucket' \in [Idx -> SUBSET Member]
    /\ begins' \in Nat /\ crashed' \in BOOLEAN
    /\ DocShape' /\ CacheShape' /\ Knows(s)' /\ Drained(s)' /\ BatchSafe(s)'
    /\ NoneLost' /\ NoOrphans'

LEMMA MovedTo ==
    ASSUME TypeOK, NEW s \in Splitters, NEW l, NEW r, Moves(s, l, r)
    PROVE  spc'[s] = l /\ loc'[s] = r
BY DEF TypeOK, Moves

LEMMA SettledStep ==
    ASSUME BInv, OneSplitter, NEW s \in Splitters, NEW l \in Steps, NEW r \in Locals, Moves(s, l, r),
           UNCHANGED <<rows, writers>>, Settled(s)
    PROVE  BInv'
<1>1. TypeOK /\ RowShape /\ PendingShape BY DEF BInv
<1>2. UNCHANGED <<row, deaths, hit, cache, wrem, wadd>> BY DEF rows, writers
<1>3. \A t \in Splitters : t = s BY DEF OneSplitter
<1>4. TypeOK'
  <2>1. spc' \in [Splitters -> Steps] /\ loc' \in [Splitters -> Locals] BY <1>1 DEF TypeOK, Moves
  <2>2. QED BY <1>1, <1>2, <2>1 DEF TypeOK, Settled
<1>5. RowShape' /\ PendingShape' BY <1>1, <1>2 DEF RowShape, PendingShape, Spares
<1>7. SplitterShape' /\ DrainShape' /\ BatchShape' BY <1>3 DEF Settled, SplitterShape, DrainShape, BatchShape
<1>8. DocShape' /\ CacheShape' /\ NoneLost' /\ NoOrphans' BY DEF Settled
<1>9. QED BY <1>4, <1>5, <1>7, <1>8 DEF BInv

\* A step that changes only the locals lets go of no ZADD.
LEMMA LocalStep ==
    ASSUME BInv, OneSplitter, NEW s \in Splitters, NEW l \in Steps, NEW r \in Locals, Moves(s, l, r),
           UNCHANGED <<store, rows, writers>>, begins' \in Nat, crashed' \in BOOLEAN,
           Knows(s)', Drained(s)', BatchSafe(s)',
           loc[s].add = {} \/ (r.add = loc[s].add /\ r.e = loc[s].e)
    PROVE  BInv'
<1>1. TypeOK /\ DocShape /\ CacheShape /\ NoneLost /\ NoOrphans BY DEF BInv
<1>2. UNCHANGED <<doc, hot, bucket, row, deaths, hit, cache, wrem, wadd>> BY DEF store, rows, writers
<1>3. spc'[s] = l /\ loc'[s] = r BY <1>1, MovedTo
<1>4. DocShape' /\ CacheShape' /\ NoOrphans' BY <1>1, <1>2 DEF DocShape, CacheShape, NoOrphans
<1>5. NoneLost'
  <2> SUFFICES ASSUME NEW j \in Pks, j \notin hit, NEW n, n = row[j].iv, n # 0 PROVE Reaches(<<j, n>>)'
    BY <1>2 DEF NoneLost, Indexed, MemberOf
  <2>1. Reaches(<<j, n>>) BY <1>1 DEF NoneLost, Indexed, MemberOf
  <2>2. \A t \in Splitters : loc[t].add = {} \/ (loc'[t].add = loc[t].add /\ loc'[t].e = loc[t].e)
    BY <1>3 DEF OneSplitter
  <2>3. QED BY <1>2, <2>1, <2>2, ReachKept
<1>7. Settled(s) BY <1>1, <1>2, <1>4, <1>5 DEF Settled, TypeOK
<1>8. QED BY <1>7, SettledStep

\* To the head of the loop, or out.
Fresh(s, l, r) ==
    /\ l \in {"idle", "load", "hot"} /\ r \in Locals /\ r.add = {} /\ r.rem = {} /\ r.page = {}
    /\ l # "idle" => r.op \in {"split", "merge"}

LEMMA FreshKnows ==
    ASSUME TypeOK, NEW s \in Splitters, NEW l, NEW r, Moves(s, l, r), Fresh(s, l, r)
    PROVE  Knows(s)' /\ Drained(s)' /\ BatchSafe(s)' /\ l \in Steps /\ r \in Locals
<1>1. spc'[s] = l /\ loc'[s] = r BY MovedTo
<1>2. Knows(s)' BY <1>1 DEF Fresh, Knows, Migrating
<1>3. Drained(s)' /\ BatchSafe(s)' BY <1>1 DEF Fresh, Drained, BatchSafe, Migrating
<1>4. QED BY <1>2, <1>3 DEF Fresh, Steps

LEMMA FreshStep ==
    ASSUME BInv, OneSplitter, NEW s \in Splitters, NEW l, NEW r, Moves(s, l, r), Fresh(s, l, r),
           UNCHANGED <<store, rows, writers>>, begins' \in Nat, crashed' \in BOOLEAN, loc[s].add = {}
    PROVE  BInv'
<1>1. TypeOK BY DEF BInv
<1>2. Knows(s)' /\ Drained(s)' /\ BatchSafe(s)' /\ l \in Steps /\ r \in Locals
  BY <1>1, FreshKnows
<1>3. QED BY <1>2, LocalStep

LEMMA LeaveFresh == ASSUME NEW s \in Splitters PROVE Fresh(s, "idle", NoLoc)
BY IdleTypes DEF Fresh, NoLoc

\* The record of the next attempt.
LEMMA AgainMoves ==
    ASSUME BInv, NEW s \in Splitters, spc[s] # "idle", Again(s)
    PROVE  \E l, r : Moves(s, l, r) /\ Fresh(s, l, r) /\ UNCHANGED <<begins, crashed>>
<1>1. loc[s] \in Locals /\ Knows(s) BY DEF BInv, TypeOK, SplitterShape
<1>2. CASE loc[s].at + 1 < MaxStepRetries
  <2>1. PICK r : r = [NoLoc EXCEPT !.op = loc[s].op, !.at = loc[s].at + 1] OBVIOUS
  <2>2. loc[s].op \in {"split", "merge"} BY <1>1 DEF Knows
  <2>3. loc[s].at \in 0 .. MaxStepRetries - 1 BY <1>1 DEF Locals
  <2>4. loc[s].at + 1 \in 0 .. MaxStepRetries - 1 BY <1>2, <2>3, SizeAssumption
  <2>5. r \in Locals BY <2>1, <2>2, <2>4, IdleTypes DEF Locals
  <2>6. r.add = {} /\ r.rem = {} /\ r.page = {} /\ r.op = loc[s].op BY <2>1 DEF NoLoc
  <2>7. Fresh(s, "load", r) BY <2>2, <2>5, <2>6 DEF Fresh
  <2>8. QED BY <1>2, <2>1, <2>7 DEF Again, Goto, Moves
<1>3. CASE ~(loc[s].at + 1 < MaxStepRetries)
  BY <1>3, LeaveFresh DEF Again, Leave, Goto, Moves
<1>4. QED BY <1>2, <1>3

LEMMA AgainStep ==
    ASSUME BInv, OneSplitter, NEW s \in Splitters, spc[s] \notin {"idle", "move"}, Again(s), UNCHANGED <<store, rows, writers>>
    PROVE  BInv'
<1>1. PICK l, r : Moves(s, l, r) /\ Fresh(s, l, r) /\ UNCHANGED <<begins, crashed>> BY AgainMoves
<1>2. loc[s].add = {} BY DEF BInv, SplitterShape, Knows
<1>3. begins' \in Nat /\ crashed' \in BOOLEAN BY <1>1 DEF BInv, TypeOK
<1>4. QED BY <1>1, <1>2, <1>3, FreshStep

LEMMA LeaveStep ==
    ASSUME BInv, OneSplitter, NEW s \in Splitters, spc[s] # "move", Leave(s), UNCHANGED <<store, rows, writers>>
    PROVE  BInv'
<1>1. Moves(s, "idle", NoLoc) /\ UNCHANGED <<begins, crashed>> BY DEF Leave, Goto, Moves
<1>2. loc[s].add = {} BY DEF BInv, SplitterShape, Knows
<1>3. begins' \in Nat /\ crashed' \in BOOLEAN BY <1>1 DEF BInv, TypeOK
<1>4. QED BY <1>1, <1>2, <1>3, LeaveFresh, FreshStep

LEMMA BeginStep ==
    ASSUME BInv, OneSplitter, NEW s \in Splitters, NEW op \in Ops, Begin(s, op)
    PROVE  BInv'
<1>1. PICK r : r = [NoLoc EXCEPT !.op = op] OBVIOUS
<1>2. op \in {"split", "merge"} BY OpsAssumption
<1>3. r \in Locals BY <1>1, <1>2, IdleTypes DEF Locals
<1>4. r.add = {} /\ r.rem = {} /\ r.page = {} /\ r.op = op BY <1>1 DEF NoLoc
<1>5. Fresh(s, "load", r) BY <1>2, <1>3, <1>4 DEF Fresh
<1>6. Moves(s, "load", r) /\ UNCHANGED <<store, rows, writers>> BY <1>1 DEF Begin, Moves
<1>7. begins' \in Nat /\ crashed' \in BOOLEAN BY DEF Begin, BInv, TypeOK
<1>8. loc[s].add = {} BY DEF Begin, BInv, SplitterShape, Knows
<1>9. QED BY <1>5, <1>6, <1>7, <1>8, FreshStep

LEMMA CrashStep ==
    ASSUME BInv, OneSplitter, "cut" \notin Faults, NEW s \in Splitters, Crash(s)
    PROVE  BInv'
<1>1. Moves(s, "idle", NoLoc) /\ UNCHANGED <<store, rows, writers>> BY DEF Crash, Moves
<1>2. begins' \in Nat /\ crashed' \in BOOLEAN BY DEF Crash, BInv, TypeOK
<1>3. loc[s].add = {} BY DEF Crash, BInv, SplitterShape, Knows
<1>4. QED BY <1>1, <1>2, <1>3, LeaveFresh, FreshStep

\* A migration starts with the entry of the document.
LEMMA MigrateMoves ==
    ASSUME BInv, NEW s \in Splitters, spc[s] # "idle", NEW e \in EqEntry, NEW d \in BOOLEAN, NEW v \in Nat, Migrate(s, e, d, v),
           SameEntry(e)', doc'.st = (IF d THEN Drain(loc[s].op) ELSE Busy(loc[s].op)), d => v = doc'.ver
    PROVE  \E r \in Locals :
              /\ Moves(s, "page", r) /\ r.page = {} /\ UNCHANGED <<begins, crashed>>
              /\ Knows(s)' /\ Drained(s)' /\ BatchSafe(s)'
<1>1. loc[s] \in Locals /\ Knows(s) /\ TypeOK BY DEF BInv, TypeOK, SplitterShape
<1>2. PICK r : r = [NoLoc EXCEPT !.op = loc[s].op, !.at = loc[s].at, !.e = e, !.todo = From(e), !.drain = d, !.dver = v] OBVIOUS
<1>3. From(e) \in Seq(Idx) BY FromToTypes
<1>4. r \in Locals BY <1>1, <1>2, <1>3, IdleTypes DEF Locals
<1>5. /\ r.op = loc[s].op /\ r.e = e /\ r.todo = From(e) /\ r.drain = d /\ r.dver = v
      /\ r.page = {} /\ r.add = {} /\ r.rem = {} /\ r.clock = "early" /\ r.pass = "early"
  BY <1>2 DEF NoLoc
<1>6. Moves(s, "page", r) /\ UNCHANGED <<begins, crashed>> BY <1>2 DEF Migrate, Goto, Moves
<1>7. spc'[s] = "page" /\ loc'[s] = r BY <1>1, <1>6, MovedTo
<1>8. loc[s].op \in {"split", "merge"} BY <1>1 DEF Knows
<1>9. Knows(s)' BY <1>5, <1>7, <1>8 DEF Knows, Migrating, SameEntry
<1>10. Drained(s)' /\ BatchSafe(s)' BY <1>5, <1>7 DEF Drained, BatchSafe, Migrating
<1>11. QED BY <1>4, <1>5, <1>6, <1>9, <1>10

LEMMA LoadFreshStep ==
    ASSUME BInv, OneSplitter, NEW s \in Splitters, LoadFresh(s)
    PROVE  BInv'
<1> DEFINE op == loc[s].op
<1>0. Busy(op) # "ACTIVE" /\ Drain(op) # "ACTIVE" /\ Busy(op) # Drain(op) BY DEF Busy, Drain
<1>1. TypeOK /\ loc[s] \in Locals /\ Knows(s) /\ spc[s] = "load" /\ doc \in Document
  BY DEF BInv, TypeOK, SplitterShape, LoadFresh
<1>2. UNCHANGED <<store, rows, writers>> /\ loc[s].add = {} /\ loc[s].rem = {} /\ op \in {"split", "merge"} /\ loc[s].rem \subseteq loc[s].page
  BY <1>1 DEF LoadFresh, Knows
<1>3. doc' = doc BY <1>2 DEF store
<1>4. CASE op = "merge" /\ Len(doc.b) <= 1
  <2>1. Leave(s) BY <1>4 DEF LoadFresh
  <2>2. QED BY <1>1, <1>2, <2>1, LeaveStep
<1>5. CASE ~(op = "merge" /\ Len(doc.b) <= 1) /\ doc.st = "ACTIVE"
  <2>1. PICK r : r = [loc[s] EXCEPT !.ver = doc.ver, !.e = Entry, !.next = doc.next] OBVIOUS
  <2>2. Room(op) /\ Goto(s, "next", r) BY <1>0, <1>5, <2>1 DEF LoadFresh
  <2>3. Moves(s, "next", r) /\ UNCHANGED <<begins, crashed>> BY <2>2 DEF Goto, Moves
  <2>4. r \in Locals /\ r.page = loc[s].page /\ r.add = {} /\ r.rem = {} /\ r.op = op /\ r.e = Entry /\ r.next = doc.next
    BY <1>1, <1>2, <2>1, EntryTypes DEF Locals, Document
  <2>5. spc'[s] = "next" /\ loc'[s] = r BY <1>1, <2>3, MovedTo
  <2>6. Entry.b = doc.b BY DEF Entry
  <2>7. op = "merge" => Len(doc.b) > 1
    <3>1. Len(doc.b) \in Nat BY <1>1 DEF Document
    <3>2. QED BY <3>1, <1>5
  <2>8. Knows(s)' BY <1>2, <1>3, <1>5, <2>2, <2>4, <2>5, <2>6, <2>7 DEF Knows, Migrating, Room
  <2>9. Drained(s)' /\ BatchSafe(s)' BY <2>5 DEF Drained, BatchSafe, Migrating
  <2>11. begins' \in Nat /\ crashed' \in BOOLEAN BY <1>1, <2>3 DEF TypeOK
  <2>12. "next" \in Steps BY DEF Steps
  <2>13. QED BY <1>2, <2>3, <2>4, <2>8, <2>9, <2>11, <2>12, LocalStep
<1>6. ASSUME NEW d \in BOOLEAN, NEW v \in Nat, Migrate(s, Entry, d, v),
             doc.st = (IF d THEN Drain(op) ELSE Busy(op)), d => v = doc.ver
      PROVE  BInv'
  <2>1. SameEntry(Entry)' BY <1>3 DEF SameEntry, Entry
  <2>2. \E r \in Locals :
              /\ Moves(s, "page", r) /\ r.page = {} /\ UNCHANGED <<begins, crashed>>
              /\ Knows(s)' /\ Drained(s)' /\ BatchSafe(s)'
    <3>1. PICK e : e = Entry OBVIOUS
    <3>2. e \in EqEntry BY <1>1, <3>1, EntryTypes
    <3>3. Migrate(s, e, d, v) /\ SameEntry(e)' BY <1>3, <1>6, <3>1 DEF SameEntry, Entry
    <3>4. doc'.st = (IF d THEN Drain(loc[s].op) ELSE Busy(loc[s].op)) /\ (d => v = doc'.ver) BY <1>3, <1>6
    <3>5. QED BY <1>1, <3>2, <3>3, <3>4, MigrateMoves
  <2>3. PICK r \in Locals :
              /\ Moves(s, "page", r) /\ r.page = {} /\ UNCHANGED <<begins, crashed>>
              /\ Knows(s)' /\ Drained(s)' /\ BatchSafe(s)'
    BY <2>2
  <2>4. begins' \in Nat /\ crashed' \in BOOLEAN BY <1>1, <2>3 DEF TypeOK
  <2>5. "page" \in Steps BY DEF Steps
  <2>6. QED BY <1>2, <2>3, <2>4, <2>5, LocalStep
<1>7. CASE ~(op = "merge" /\ Len(doc.b) <= 1) /\ doc.st # "ACTIVE" /\ doc.st = Busy(op)
  <2>1. Migrate(s, Entry, FALSE, 0) BY <1>0, <1>7 DEF LoadFresh
  <2>2. QED BY <1>6, <1>7, <2>1
<1>8. CASE ~(op = "merge" /\ Len(doc.b) <= 1) /\ doc.st # "ACTIVE" /\ doc.st = Drain(op)
  <2>2. Migrate(s, Entry, TRUE, doc.ver) BY <1>0, <1>8 DEF LoadFresh
  <2>3. doc.ver \in Nat BY <1>1 DEF Document
  <2>4. QED BY <1>6, <1>8, <2>2, <2>3
<1>9. CASE ~(op = "merge" /\ Len(doc.b) <= 1) /\ doc.st # "ACTIVE" /\ doc.st # Busy(op) /\ doc.st # Drain(op)
  <2>1. Again(s) BY <1>9 DEF LoadFresh
  <2>2. QED BY <1>1, <1>2, <2>1, AgainStep
<1>10. QED BY <1>4, <1>5, <1>7, <1>8, <1>9

LEMMA ReloadStep ==
    ASSUME BInv, OneSplitter, NEW s \in Splitters, Reload(s)
    PROVE  BInv'
<1>1. TypeOK /\ loc[s] \in Locals /\ Knows(s) /\ spc[s] = "reload" /\ doc \in Document
  BY DEF BInv, TypeOK, SplitterShape, Reload
<1>2. UNCHANGED <<store, rows, writers>> /\ loc[s].add = {} /\ doc' = doc BY <1>1 DEF Reload, Knows, store
<1>3. PICK r : r = [loc[s] EXCEPT !.ver = doc.ver] OBVIOUS
<1>4. Moves(s, "busy", r) /\ UNCHANGED <<begins, crashed>> BY <1>3 DEF Reload, Goto, Moves
<1>5. r \in Locals /\ r.page = loc[s].page /\ r.add = loc[s].add /\ r.rem = loc[s].rem /\ r.op = loc[s].op /\ r.e = loc[s].e
  BY <1>1, <1>3 DEF Locals, Document
<1>6. spc'[s] = "busy" /\ loc'[s] = r BY <1>1, <1>4, MovedTo
<1>7. Knows(s)' BY <1>1, <1>2, <1>5, <1>6 DEF Knows, Migrating
<1>8. Drained(s)' /\ BatchSafe(s)' BY <1>6 DEF Drained, BatchSafe, Migrating
<1>10. begins' \in Nat /\ crashed' \in BOOLEAN BY <1>1, <1>4 DEF TypeOK
<1>11. "busy" \in Steps BY DEF Steps
<1>12. QED BY <1>2, <1>4, <1>5, <1>7, <1>8, <1>10, <1>11, LocalStep

LEMMA ReloadFinalStep ==
    ASSUME BInv, OneSplitter, NEW s \in Splitters, ReloadFinal(s)
    PROVE  BInv'
<1>1. TypeOK /\ loc[s] \in Locals /\ Knows(s) /\ Drained(s) /\ spc[s] = "unlink" /\ doc \in Document
  BY DEF BInv, TypeOK, SplitterShape, DrainShape, ReloadFinal
<1>2. UNCHANGED <<store, rows, writers>> /\ loc[s].add = {} /\ doc' = doc /\ bucket' = bucket /\ cache' = cache
  BY <1>1 DEF ReloadFinal, Knows, store, writers
<1>3. PICK r : r = [loc[s] EXCEPT !.ver = doc.ver] OBVIOUS
<1>4. Moves(s, "final", r) /\ UNCHANGED <<begins, crashed>> BY <1>3 DEF ReloadFinal, Goto, Moves
<1>5. /\ r \in Locals /\ r.page = loc[s].page /\ r.add = loc[s].add /\ r.rem = loc[s].rem
      /\ r.op = loc[s].op /\ r.e = loc[s].e /\ r.todo = loc[s].todo
  BY <1>1, <1>3 DEF Locals, Document
<1>6. spc'[s] = "final" /\ loc'[s] = r BY <1>1, <1>4, MovedTo
<1>7. Knows(s)' BY <1>1, <1>2, <1>5, <1>6 DEF Knows, Migrating, SameEntry
<1>8. Drained(s)' /\ BatchSafe(s)' BY <1>1, <1>2, <1>5, <1>6 DEF Drained, BatchSafe, Migrating, Caught
<1>10. begins' \in Nat /\ crashed' \in BOOLEAN BY <1>1, <1>4 DEF TypeOK
<1>11. "final" \in Steps BY DEF Steps
<1>12. QED BY <1>2, <1>4, <1>5, <1>7, <1>8, <1>10, <1>11, LocalStep

LEMMA TailRange ==
    ASSUME NEW q \in Seq(Idx), q # <<>>
    PROVE  /\ Head(q) \in Idx /\ Tail(q) \in Seq(Idx)
           /\ Range(q) = {Head(q)} \cup Range(Tail(q))
<1>1. Head(q) = q[1] /\ Len(q) \in Nat /\ Len(q) > 0 BY EmptySeq, HeadTailProperties
<1>2. Tail(q) \in Seq(Idx) /\ Len(Tail(q)) = Len(q) - 1 /\ \A i \in 1 .. Len(q) - 1 : Tail(q)[i] = q[i + 1]
  BY <1>1, HeadTailProperties
<1>3. \A i \in DOMAIN q : i = 1 \/ (i - 1 \in DOMAIN Tail(q) /\ q[i] = Tail(q)[i - 1]) BY <1>1, <1>2
<1>4. \A i \in DOMAIN Tail(q) : i + 1 \in DOMAIN q /\ q[i + 1] = Tail(q)[i] BY <1>1, <1>2
<1>5. Range(q) \subseteq {Head(q)} \cup Range(Tail(q)) BY <1>1, <1>3 DEF Range
<1>6. {Head(q)} \cup Range(Tail(q)) \subseteq Range(q) BY <1>1, <1>4 DEF Range
<1>7. Head(q) \in Idx BY <1>1
<1>8. QED BY <1>2, <1>5, <1>6, <1>7

\* The types and the frame of a step that a migrating splitter takes for itself.
Alone(s) ==
    /\ TypeOK /\ loc[s] \in Locals /\ doc \in Document /\ Knows(s) /\ Drained(s) /\ BatchSafe(s)
    /\ UNCHANGED <<doc, hot, bucket, row, deaths, hit, cache, wrem, wadd>>

LEMMA IsAlone ==
    ASSUME BInv, NEW s \in Splitters, UNCHANGED <<store, rows, writers>>
    PROVE  Alone(s)
BY DEF Alone, BInv, TypeOK, SplitterShape, DrainShape, BatchShape, store, rows, writers

LEMMA GotoStep ==
    ASSUME BInv, OneSplitter, NEW s \in Splitters, NEW l \in Steps, NEW r \in Locals, Goto(s, l, r),
           UNCHANGED <<store, rows, writers>>,
           Knows(s)', Drained(s)', BatchSafe(s)',
           loc[s].add = {} \/ (r.add = loc[s].add /\ r.e = loc[s].e)
    PROVE  BInv'
<1>1. Moves(s, l, r) /\ UNCHANGED <<begins, crashed>> BY DEF Goto, Moves
<1>2. begins' \in Nat /\ crashed' \in BOOLEAN BY <1>1 DEF BInv, TypeOK
<1>3. QED BY <1>1, <1>2, LocalStep

LEMMA GotoTo ==
    ASSUME TypeOK, NEW s \in Splitters, NEW l, NEW r, Goto(s, l, r)
    PROVE  spc'[s] = l /\ loc'[s] = r
BY DEF TypeOK, Goto

LEMMA PageStep ==
    ASSUME BInv, OneSplitter, NEW s \in Splitters, Page(s)
    PROVE  BInv'
<1>1. Alone(s) /\ spc[s] = "page" /\ loc[s].todo # <<>> /\ UNCHANGED <<store, rows, writers>> BY IsAlone DEF Page
<1>2. /\ TypeOK /\ loc[s] \in Locals /\ doc' = doc /\ bucket' = bucket /\ cache' = cache
      /\ loc[s].add = {} /\ loc[s].rem = {} /\ loc[s].todo \in Seq(Idx)
  BY <1>1 DEF Alone, Knows, Locals
<1>3. PICK h, q : h = Head(loc[s].todo) /\ q = Tail(loc[s].todo) OBVIOUS
<1>4. h \in Idx /\ q \in Seq(Idx) /\ Range(loc[s].todo) = {h} \cup Range(q) BY <1>1, <1>2, <1>3, TailRange
<1>5. CASE bucket[h] = {}
  <2>1. PICK r : r = [loc[s] EXCEPT !.todo = q, !.read = loc[s].clock] OBVIOUS
  <2>2. Goto(s, "page", r) BY <1>3, <1>5, <2>1 DEF Page
  <2>3. /\ r \in Locals /\ r.todo = q /\ r.op = loc[s].op /\ r.e = loc[s].e /\ r.page = loc[s].page /\ r.add = {} /\ r.rem = {}
        /\ r.drain = loc[s].drain /\ r.dver = loc[s].dver /\ r.clock = loc[s].clock /\ r.pass = loc[s].pass
    BY <1>2, <1>4, <2>1 DEF Locals
  <2>4. spc'[s] = "page" /\ loc'[s] = r BY <1>2, <2>2, GotoTo
  <2>5. Knows(s)' BY <1>1, <1>2, <1>4, <2>3, <2>4 DEF Alone, Knows, Migrating, SameEntry
  <2>6. Drained(s)' BY <1>1, <1>2, <1>4, <1>5, <2>3, <2>4 DEF Alone, Drained, Migrating, Caught
  <2>7. BatchSafe(s)' BY <2>4 DEF BatchSafe
  <2>9. "page" \in Steps BY DEF Steps
  <2>10. QED BY <1>1, <1>2, <2>2, <2>3, <2>5, <2>6, <2>7, <2>9, GotoStep
<1>6. CASE bucket[h] # {}
  <2>1. PICK m \in SUBSET bucket[h] :
           /\ Cardinality(m) = Batch \/ (Cardinality(m) < Batch /\ m = bucket[h])
           /\ Goto(s, "exists", [loc[s] EXCEPT !.page = m, !.read = loc[s].clock])
    BY <1>3, <1>6 DEF Page
  <2>2. PICK r : r = [loc[s] EXCEPT !.page = m, !.read = loc[s].clock] OBVIOUS
  <2>3. Goto(s, "exists", r) BY <2>1, <2>2
  <2>4. m \subseteq Member BY <1>2, <1>4, <2>1 DEF TypeOK
  <2>5. /\ r \in Locals /\ r.todo = loc[s].todo /\ r.op = loc[s].op /\ r.e = loc[s].e /\ r.page = m /\ r.add = {} /\ r.rem = {}
        /\ r.drain = loc[s].drain /\ r.dver = loc[s].dver /\ r.clock = loc[s].clock /\ r.pass = loc[s].pass
    BY <1>2, <2>2, <2>4 DEF Locals
  <2>6. spc'[s] = "exists" /\ loc'[s] = r BY <1>2, <2>3, GotoTo
  <2>7. Knows(s)' BY <1>1, <1>2, <2>5, <2>6 DEF Alone, Knows, Migrating, SameEntry
  <2>8. Cardinality(m) < Batch => bucket[h] \subseteq m BY <2>1, SizeAssumption
  <2>9. Drained(s)' BY <1>1, <1>2, <1>3, <2>5, <2>6, <2>8 DEF Alone, Drained, Migrating, Caught
  <2>10. BatchSafe(s)' BY <2>6 DEF BatchSafe
  <2>12. "exists" \in Steps BY DEF Steps
  <2>13. QED BY <1>1, <1>2, <2>3, <2>5, <2>7, <2>9, <2>10, <2>12, GotoStep
<1>7. QED BY <1>5, <1>6

LEMMA ExistsStep ==
    ASSUME BInv, OneSplitter, NEW s \in Splitters, Exists(s)
    PROVE  BInv'
<1>1. Alone(s) /\ spc[s] = "exists" /\ UNCHANGED <<store, rows, writers>> BY IsAlone DEF Exists
<1>2. /\ TypeOK /\ loc[s] \in Locals /\ doc' = doc /\ bucket' = bucket /\ cache' = cache /\ row' = row
      /\ loc[s].add = {} /\ loc[s].rem = {}
  BY <1>1 DEF Alone, Knows
<1>3. PICK A : A = {m \in loc[s].page : row[m[1]].ver # 0} OBVIOUS
<1>4. PICK r : r = [loc[s] EXCEPT !.rem = loc[s].page, !.add = A] OBVIOUS
<1>5. Goto(s, "move", r) BY <1>3, <1>4 DEF Exists
<1>6. /\ r \in Locals /\ r.todo = loc[s].todo /\ r.op = loc[s].op /\ r.e = loc[s].e /\ r.page = loc[s].page /\ r.add = A
      /\ r.rem = loc[s].page /\ r.drain = loc[s].drain /\ r.dver = loc[s].dver /\ r.clock = loc[s].clock /\ r.pass = loc[s].pass
  <2>1. A \subseteq Member BY <1>2, <1>3 DEF Locals
  <2>2. QED BY <1>2, <1>4, <2>1 DEF Locals
<1>7. spc'[s] = "move" /\ loc'[s] = r BY <1>2, <1>5, GotoTo
<1>8. A \subseteq loc[s].page BY <1>3
<1>9. Knows(s)' BY <1>1, <1>2, <1>6, <1>7, <1>8 DEF Alone, Knows, Migrating, SameEntry
<1>10. Drained(s)' BY <1>1, <1>2, <1>6, <1>7 DEF Alone, Drained, Migrating, Caught
<1>11. BatchSafe(s)'
  <2>1. ASSUME NEW m \in loc[s].page, row[m[1]].iv = m[2] PROVE m \in A
    <3>1. m[1] \in Pks /\ m[2] \in 1 .. MaxVer BY <1>2 DEF Locals, Member
    <3>2. row[m[1]].ver \in Nat /\ row[m[1]].iv <= row[m[1]].ver BY <1>2, <3>1 DEF TypeOK, BInv, RowShape
    <3>3. row[m[1]].ver # 0 BY <2>1, <3>1, <3>2
    <3>4. QED BY <1>3, <3>3
  <2>2. QED BY <1>2, <1>6, <1>7, <2>1 DEF BatchSafe
<1>13. "move" \in Steps BY DEF Steps
<1>14. QED BY <1>1, <1>2, <1>5, <1>6, <1>9, <1>10, <1>11, <1>13, GotoStep

LEMMA MoveDoneStep ==
    ASSUME BInv, OneSplitter, NEW s \in Splitters, MoveDone(s)
    PROVE  BInv'
<1>1. Alone(s) /\ spc[s] = "move" /\ loc[s].add = {} /\ loc[s].rem = {} /\ UNCHANGED <<store, rows, writers>>
  BY IsAlone DEF MoveDone
<1>2. /\ TypeOK /\ loc[s] \in Locals /\ doc' = doc /\ bucket' = bucket /\ cache' = cache
      /\ loc[s].todo # <<>> /\ loc[s].todo \in Seq(Idx)
  BY <1>1 DEF Alone, Knows, Locals, Migrating
<1>3. PICK h, q : h = Head(loc[s].todo) /\ q = Tail(loc[s].todo) OBVIOUS
<1>4. h \in Idx /\ q \in Seq(Idx) /\ Range(loc[s].todo) = {h} \cup Range(q) BY <1>2, <1>3, TailRange
<1>5. PICK t : t = (IF Cardinality(loc[s].page) < Batch THEN q ELSE loc[s].todo) OBVIOUS
<1>6. PICK r : r = [loc[s] EXCEPT !.page = {}, !.todo = t] OBVIOUS
<1>7. Goto(s, "page", r) BY <1>3, <1>5, <1>6 DEF MoveDone
<1>8. t \in Seq(Idx) /\ Range(t) \subseteq Range(loc[s].todo) BY <1>2, <1>4, <1>5
<1>9. /\ r \in Locals /\ r.todo = t /\ r.op = loc[s].op /\ r.e = loc[s].e /\ r.page = {} /\ r.add = {} /\ r.rem = {}
      /\ r.drain = loc[s].drain /\ r.dver = loc[s].dver /\ r.clock = loc[s].clock /\ r.pass = loc[s].pass
  BY <1>1, <1>2, <1>6, <1>8 DEF Locals
<1>10. spc'[s] = "page" /\ loc'[s] = r BY <1>2, <1>7, GotoTo
<1>11. Knows(s)' BY <1>1, <1>2, <1>8, <1>9, <1>10 DEF Alone, Knows, Migrating, SameEntry
<1>12. loc[s].pass # "early" => \A i \in Range(From(loc[s].e)) : i \in Range(t) \/ bucket[i] = {}
  <2> SUFFICES ASSUME loc[s].pass # "early" PROVE \A i \in Range(From(loc[s].e)) : i \in Range(t) \/ bucket[i] = {}
    OBVIOUS
  <2>1. /\ \A i \in Range(From(loc[s].e)) : i \in Range(loc[s].todo) \/ bucket[i] = {}
        /\ Cardinality(loc[s].page) < Batch => bucket[h] \subseteq loc[s].page
        /\ bucket[h] \cap loc[s].page \subseteq loc[s].rem
    BY <1>1, <1>3 DEF Alone, Drained, Migrating
  <2>2. Cardinality(loc[s].page) < Batch => bucket[h] = {} BY <1>1, <2>1
  <2>3. QED BY <1>4, <1>5, <2>1, <2>2
<1>13. Drained(s)' BY <1>1, <1>2, <1>9, <1>10, <1>12 DEF Alone, Drained, Migrating, Caught
<1>14. BatchSafe(s)' BY <1>10 DEF BatchSafe
<1>16. "page" \in Steps BY DEF Steps
<1>17. QED BY <1>1, <1>7, <1>9, <1>11, <1>13, <1>14, <1>16, GotoStep

LEMMA PassDoneStep ==
    ASSUME BInv, OneSplitter, NEW s \in Splitters, PassDone(s)
    PROVE  BInv'
<1>1. Alone(s) /\ spc[s] = "page" /\ loc[s].todo = <<>> /\ UNCHANGED <<store, rows, writers>> BY IsAlone DEF PassDone
<1>2. /\ TypeOK /\ loc[s] \in Locals /\ doc' = doc /\ bucket' = bucket /\ cache' = cache
      /\ loc[s].add = {} /\ loc[s].rem = {}
  BY <1>1 DEF Alone, Knows
<1>3. CASE loc[s].drain
  <2>1. PICK l : l = (IF loc[s].clock = "over" THEN "unlink" ELSE "page") OBVIOUS
  <2>2. PICK r : r = [loc[s] EXCEPT !.todo = From(loc[s].e), !.pass = loc[s].clock] OBVIOUS
  <2>3. Goto(s, l, r) BY <1>3, <2>1, <2>2 DEF PassDone
  <2>4. From(loc[s].e) \in Seq(Idx) BY <1>2, FromToTypes DEF Locals
  <2>5. /\ r \in Locals /\ r.todo = From(loc[s].e) /\ r.op = loc[s].op /\ r.e = loc[s].e /\ r.page = loc[s].page /\ r.add = {}
        /\ r.rem = {} /\ r.drain = TRUE /\ r.dver = loc[s].dver /\ r.clock = loc[s].clock /\ r.pass = loc[s].clock
    BY <1>2, <1>3, <2>2, <2>4 DEF Locals
  <2>6. spc'[s] = l /\ loc'[s] = r BY <1>2, <2>3, GotoTo
  <2>7. Knows(s)' BY <1>1, <1>2, <1>3, <2>1, <2>5, <2>6 DEF Alone, Knows, Migrating, SameEntry
  <2>8. loc[s].clock = "over" => Caught /\ \A i \in Range(From(loc[s].e)) : bucket[i] = {}
    <3>1. Range(loc[s].todo) = {} BY <1>1 DEF Range
    <3>2. QED BY <1>1, <3>1 DEF Alone, Drained, Migrating
  <2>9. loc[s].clock # "early" => Caught BY <1>1 DEF Alone, Drained, Migrating
  <2>10. Drained(s)' BY <1>2, <2>1, <2>5, <2>6, <2>8, <2>9 DEF Drained, Migrating, Caught
  <2>11. BatchSafe(s)' BY <2>1, <2>6 DEF BatchSafe
  <2>13. l \in Steps BY <2>1 DEF Steps
  <2>14. QED BY <1>1, <1>2, <2>3, <2>5, <2>7, <2>10, <2>11, <2>13, GotoStep
<1>4. CASE ~loc[s].drain
  <2>1. Goto(s, "mark", loc[s]) BY <1>4 DEF PassDone
  <2>2. spc'[s] = "mark" /\ loc'[s] = loc[s] BY <1>2, <2>1, GotoTo
  <2>3. Knows(s)' BY <1>1, <1>2, <1>4, <2>2 DEF Alone, Knows, Migrating
  <2>4. Drained(s)' /\ BatchSafe(s)' BY <2>2 DEF Drained, BatchSafe, Migrating
  <2>6. "mark" \in Steps BY DEF Steps
  <2>7. QED BY <1>1, <1>2, <2>1, <2>3, <2>4, <2>6, GotoStep
<1>5. QED BY <1>3, <1>4

LEMMA MarkStep ==
    ASSUME BInv, OneSplitter, NEW s \in Splitters, Mark(s)
    PROVE  BInv'
<1>1. Alone(s) /\ spc[s] = "mark" /\ UNCHANGED <<store, rows, writers>> BY IsAlone DEF Mark
<1>2. /\ TypeOK /\ loc[s] \in Locals /\ doc' = doc /\ loc[s].add = {} /\ loc[s].rem = {} /\ doc.st = Busy(loc[s].op)
      /\ loc[s].op \in {"split", "merge"}
  BY <1>1 DEF Alone, Knows
<1>3. doc.st # "ACTIVE" BY <1>2 DEF Busy
<1>4. PICK e : e = [Entry EXCEPT !.st = Drain(loc[s].op)] OBVIOUS
<1>5. e \in EqEntry /\ e.b = doc.b /\ e.p = doc.p /\ e.c = doc.c /\ e.st = Drain(loc[s].op)
  <2>1. Drain(loc[s].op) \in States BY DEF Drain, States
  <2>2. Entry \in EqEntry /\ Entry.b = doc.b /\ Entry.p = doc.p /\ Entry.c = doc.c BY <1>1, EntryTypes DEF Alone, Entry
  <2>3. QED BY <1>4, <2>1, <2>2 DEF EqEntry
<1>6. PICK r : r = [loc[s] EXCEPT !.ver = doc.ver, !.e = e] OBVIOUS
<1>7. Goto(s, "drain", r) BY <1>3, <1>4, <1>6 DEF Mark
<1>8. r \in Locals /\ r.op = loc[s].op /\ r.e = e /\ r.page = loc[s].page /\ r.add = {} /\ r.rem = {}
  <2>1. doc.ver \in Nat BY <1>1 DEF Alone, Document
  <2>2. QED BY <1>2, <1>5, <1>6, <2>1 DEF Locals
<1>9. spc'[s] = "drain" /\ loc'[s] = r BY <1>2, <1>7, GotoTo
<1>10. Knows(s)' BY <1>2, <1>5, <1>8, <1>9 DEF Knows, Migrating
<1>11. Drained(s)' /\ BatchSafe(s)' BY <1>9 DEF Drained, BatchSafe, Migrating
<1>13. "drain" \in Steps BY DEF Steps
<1>14. QED BY <1>1, <1>2, <1>7, <1>8, <1>10, <1>11, <1>13, GotoStep

\* The clock of a draining splitter goes on.
LEMMA ClockStep ==
    ASSUME BInv, OneSplitter, NEW s \in Splitters, Draining(s), UNCHANGED <<store, rows, writers>>,
           NEW t \in {"margin", "over"}, Goto(s, spc[s], [loc[s] EXCEPT !.clock = t]), Caught,
           t = "over" => loc[s].pass # "early"
    PROVE  BInv'
<1>1. Alone(s) /\ spc[s] \in Migrating /\ loc[s].drain BY IsAlone DEF Draining, Migrating
<1>2. /\ TypeOK /\ loc[s] \in Locals /\ doc' = doc /\ bucket' = bucket /\ cache' = cache /\ row' = row
  BY <1>1 DEF Alone
<1>3. PICK r : r = [loc[s] EXCEPT !.clock = t] OBVIOUS
<1>4. Goto(s, spc[s], r) BY <1>3
<1>5. /\ r \in Locals /\ r.todo = loc[s].todo /\ r.op = loc[s].op /\ r.e = loc[s].e /\ r.page = loc[s].page /\ r.add = loc[s].add
      /\ r.rem = loc[s].rem /\ r.drain = loc[s].drain /\ r.dver = loc[s].dver /\ r.clock = t /\ r.pass = loc[s].pass
  BY <1>2, <1>3 DEF Locals, Clock
<1>6. spc'[s] = spc[s] /\ loc'[s] = r BY <1>2, <1>4, GotoTo
<1>7. Knows(s)' BY <1>1, <1>2, <1>5, <1>6 DEF Alone, Knows, Migrating, SameEntry
<1>8. Drained(s)'
  <2>1. Caught' BY <1>2 DEF Caught
  <2>2. QED BY <1>1, <1>2, <1>5, <1>6, <2>1 DEF Alone, Drained, Migrating
<1>9. BatchSafe(s)' BY <1>1, <1>2, <1>5, <1>6 DEF Alone, BatchSafe
<1>11. spc[s] \in Steps BY <1>1 DEF Migrating, Steps
<1>12. QED BY <1>4, <1>5, <1>7, <1>8, <1>9, <1>11, GotoStep

LEMMA TtlOverStep ==
    ASSUME BInv, Assumed, NEW s \in Splitters, TtlOver(s)
    PROVE  BInv'
<1>1. /\ Draining(s) /\ UNCHANGED <<store, rows, writers>>
      /\ Goto(s, spc[s], [loc[s] EXCEPT !.clock = "margin"])
      /\ \A w \in Writers : cache[w].ver >= loc[s].dver
  BY DEF TtlOver, Assumed
<1>2. loc[s].dver = doc.ver BY <1>1 DEF BInv, SplitterShape, Knows, Draining, Migrating
<1>3. Caught
  <2> SUFFICES ASSUME NEW w \in Writers PROVE cache[w] = doc BY DEF Caught
  <2>1. cache[w].ver \in Nat /\ doc.ver \in Nat BY DEF BInv, TypeOK, Document
  <2>2. cache[w].ver <= doc.ver /\ (cache[w].ver = doc.ver => cache[w] = doc) BY DEF BInv, CacheShape
  <2>3. QED BY <1>1, <1>2, <2>1, <2>2
<1>4. QED BY <1>1, <1>3, ClockStep DEF Assumed

LEMMA GraceOverStep ==
    ASSUME BInv, Assumed, NEW s \in Splitters, GraceOver(s)
    PROVE  BInv'
<1>1. /\ Draining(s) /\ UNCHANGED <<store, rows, writers>> /\ loc[s].clock = "margin"
      /\ Goto(s, spc[s], [loc[s] EXCEPT !.clock = "over"])
      /\ loc[s].pass = "margin"
  BY DEF GraceOver, Assumed
<1>2. Caught BY <1>1 DEF BInv, DrainShape, Drained, Draining, Migrating
<1>3. QED BY <1>1, <1>2, ClockStep DEF Assumed

\* A CAS that takes no bucket from the readers.
LEMMA CasStep ==
    ASSUME BInv, OneSplitter, NEW s \in Splitters, NEW l \in Steps, NEW r \in Locals, Moves(s, l, r),
           UNCHANGED <<hot, bucket, rows, writers, begins, crashed>>,
           doc' \in Document, doc'.ver = doc.ver + 1, DocShape',
           ReadBucketsEq(doc) \subseteq ReadBucketsEq(doc'),
           Knows(s)', Drained(s)', BatchSafe(s)', loc[s].add = {}
    PROVE  BInv'
<1>1. TypeOK /\ CacheShape /\ NoneLost /\ NoOrphans BY DEF BInv
<1>2. UNCHANGED <<row, deaths, hit, cache, wrem, wadd>> BY DEF rows, writers
<1>3. loc'[s] = r BY <1>1, MovedTo
<1>4. CacheShape'
  <2>1. \A w \in Writers : cache[w].ver \in Nat BY <1>1 DEF TypeOK, Document
  <2>2. doc.ver \in Nat BY <1>1 DEF TypeOK, Document
  <2>3. \A w \in Writers : cache[w].ver <= doc.ver /\ \A k \in Pks : WriteTargetsEq(cache[w], k) \subseteq ReadBucketsEq(doc)
    BY <1>1 DEF CacheShape
  <2>4. \A w \in Writers : cache[w].ver < doc'.ver BY <2>1, <2>2, <2>3
  <2>5. \A w \in Writers : cache[w].ver <= doc'.ver /\ cache[w].ver # doc'.ver BY <2>1, <2>2, <2>4
  <2>6. QED BY <1>2, <2>3, <2>5 DEF CacheShape
<1>5. NoneLost'
  <2> SUFFICES ASSUME NEW j \in Pks, j \notin hit, NEW n, n = row[j].iv, n # 0 PROVE Reaches(<<j, n>>)'
    BY <1>2 DEF NoneLost, Indexed, MemberOf
  <2>1. Reaches(<<j, n>>) BY <1>1 DEF NoneLost, Indexed, MemberOf
  <2>2. \A t \in Splitters : loc[t].add = {} BY DEF OneSplitter
  <2>3. QED BY <1>2, <2>1, <2>2, ReachKept
<1>6. NoOrphans' BY <1>1 DEF NoOrphans
<1>8. Settled(s) BY <1>1, <1>4, <1>5, <1>6 DEF Settled, TypeOK
<1>9. QED BY <1>8, SettledStep

\* The new sub-buckets of a split or a merge.
LEMMA NewBuckets ==
    ASSUME NEW op \in {"split", "merge"}, NEW b \in Seq(Idx), Len(b) > 0, op = "merge" => Len(b) > 1,
           NEW n \in Nat, n + NewTargets(op, b) <= MaxIdx + 1
    PROVE  /\ NewTargets(op, b) \in Nat /\ NewTargets(op, b) > 0
           /\ NewIndices(op, b, n) \in Seq(Idx)
           /\ Len(NewIndices(op, b, n)) = NewTargets(op, b)
           /\ \A i \in Range(NewIndices(op, b, n)) : n <= i /\ i < NextAfter(op, b, n)
<1>1. NewTargets(op, b) \in Nat /\ NewTargets(op, b) > 0 BY DEF NewTargets
<1>2. PICK k \in Nat : k = NewTargets(op, b) /\ k > 0 BY <1>1
<1>3. NewIndices(op, b, n) = [i \in 1 .. k |-> n + i - 1] BY <1>2 DEF NewIndices
<1>4. \A i \in 1 .. k : n + i - 1 \in Idx BY <1>2, SizeAssumption DEF Idx
<1>5. [i \in 1 .. k |-> n + i - 1] \in Seq(Idx) BY <1>2, <1>4
<1>6. Len([i \in 1 .. k |-> n + i - 1]) = k BY <1>2
<1>7. \A i \in Range([j \in 1 .. k |-> n + j - 1]) : n <= i /\ i < n + k BY <1>2 DEF Range
<1>8. QED BY <1>1, <1>2, <1>3, <1>5, <1>6, <1>7 DEF NextAfter

LEMMA CasNextStep ==
    ASSUME BInv, OneSplitter, NEW s \in Splitters, CasNext(s)
    PROVE  BInv'
<1>1. /\ TypeOK /\ DocShape /\ loc[s] \in Locals /\ doc \in Document /\ Knows(s) /\ spc[s] = "next"
      /\ UNCHANGED <<hot, bucket, rows, writers>>
  BY DEF BInv, TypeOK, SplitterShape, CasNext
<1>2. CASE ~CasHolds(s)
  <2>1. Again(s) /\ UNCHANGED <<store, rows, writers>> BY <1>1, <1>2 DEF CasNext, store
  <2>2. QED BY <1>1, <2>1, AgainStep
<1>3. CASE CasHolds(s)
  <2>1. PICK op, b, n : op = loc[s].op /\ b = doc.b /\ n = doc.next OBVIOUS
  <2>2. /\ op \in {"split", "merge"} /\ b \in Seq(Idx) /\ n \in Nat /\ loc[s].e.b = b /\ loc[s].next = n /\ doc.st = "ACTIVE"
        /\ n + NewTargets(op, b) <= MaxIdx + 1 /\ (op = "merge" => Len(b) > 1)
        /\ loc[s].add = {} /\ loc[s].rem = {}
    BY <1>1, <2>1 DEF Knows, Document
  <2>3. Len(b) > 0 /\ \A i \in Range(b) : i < n BY <1>1, <2>1, <2>2 DEF DocShape, EntryShape, Below, ReadBucketsEq
  <2>4. PICK new, k : new = NewIndices(op, b, n) /\ k = NewTargets(op, b) OBVIOUS
  <2>5. k \in Nat /\ k > 0 /\ new \in Seq(Idx) /\ Len(new) = k /\ \A i \in Range(new) : n <= i /\ i < n + k
    BY <2>2, <2>3, <2>4, NewBuckets DEF NextAfter
  <2>6. PICK e : e = [b |-> b, st |-> Busy(op), p |-> IF op = "split" THEN b ELSE new, c |-> IF op = "split" THEN new ELSE b]
    OBVIOUS
  <2>7. /\ e.b = b /\ e.st = Busy(op) /\ e.p = (IF op = "split" THEN b ELSE new) /\ e.c = (IF op = "split" THEN new ELSE b)
        /\ e \in EqEntry
    <3>1. Busy(op) \in States BY DEF Busy, States
    <3>2. QED BY <2>2, <2>5, <2>6, <3>1 DEF EqEntry
  <2>8. Range(b) \subseteq Nat /\ Range(new) \subseteq Nat BY <2>2, <2>5, RangeTypes DEF Idx
  <2>9. EntryShape(e) /\ ReadBucketsEq(e) = Range(b) \cup Range(new)
    <3>1. Range(b) \cap Range(new) = {} BY <2>2, <2>3, <2>5, <2>8
    <3>2. e.st # "ACTIVE" BY <2>7 DEF Busy
    <3>3. QED BY <2>3, <2>5, <2>7, <3>1, <3>2 DEF EntryShape, ReadBucketsEq
  <2>10. PICK r : r = [loc[s] EXCEPT !.e = e] OBVIOUS
  <2>11. Goto(s, "reload", r) /\ doc' = [doc EXCEPT !.ver = @ + 1, !.next = NextAfter(op, b, n)]
    BY <1>3, <2>1, <2>2, <2>4, <2>6, <2>10 DEF CasNext
  <2>12. Moves(s, "reload", r) /\ UNCHANGED <<begins, crashed>> BY <2>11 DEF Goto, Moves
  <2>13. r \in Locals /\ r.op = op /\ r.e = e /\ r.page = loc[s].page /\ r.add = {} /\ r.rem = {}
    BY <1>1, <2>1, <2>2, <2>7, <2>10 DEF Locals
  <2>14. spc'[s] = "reload" /\ loc'[s] = r BY <1>1, <2>12, MovedTo
  <2>15. NextAfter(op, b, n) = n + k /\ n + k \in Nat BY <2>2, <2>4, <2>5 DEF NextAfter
  <2>16. /\ doc' \in Document /\ doc'.ver = doc.ver + 1 /\ doc'.next = n + k
         /\ doc'.b = b /\ doc'.st = "ACTIVE" /\ doc'.p = doc.p /\ doc'.c = doc.c
    <3>1. doc' = [doc EXCEPT !.ver = doc.ver + 1, !.next = n + k] /\ doc.ver + 1 \in Nat BY <1>1, <2>11, <2>15 DEF Document
    <3>2. doc' \in Document BY <1>1, <2>15, <3>1 DEF Document
    <3>3. QED BY <1>1, <2>1, <2>2, <3>1, <3>2 DEF Document
  <2>17. ReadBucketsEq(doc) = Range(b) /\ ReadBucketsEq(doc') = Range(b) BY <2>1, <2>2, <2>16 DEF ReadBucketsEq
  <2>18. DocShape'
    <3>1. EntryShape(doc') BY <2>3, <2>16 DEF EntryShape
    <3>2. Below(doc', doc'.next) BY <2>2, <2>3, <2>5, <2>8, <2>16, <2>17 DEF Below
    <3>3. QED BY <3>1, <3>2 DEF DocShape
  <2>19. Below(e, doc'.next) BY <2>2, <2>3, <2>5, <2>8, <2>9, <2>16 DEF Below
  <2>20. Knows(s)' BY <2>2, <2>7, <2>9, <2>13, <2>14, <2>16, <2>17, <2>19 DEF Knows, Migrating
  <2>21. Drained(s)' /\ BatchSafe(s)' BY <2>14 DEF Drained, BatchSafe, Migrating
  <2>23. "reload" \in Steps BY DEF Steps
  <2>24. UNCHANGED <<hot, bucket, rows, writers, begins, crashed>> BY <1>1, <2>12
  <2>25. QED BY <2>2, <2>12, <2>13, <2>16, <2>17, <2>18, <2>20, <2>21, <2>23, <2>24, CasStep
<1>4. QED BY <1>2, <1>3

\* CasEntry writes an entry over that of the document.
LEMMA CasEntryTypes ==
    ASSUME doc \in Document, NEW e \in EqEntry, CasEntry(e)
    PROVE  /\ doc' \in Document /\ doc'.ver = doc.ver + 1 /\ doc'.next = doc.next
           /\ doc'.b = e.b /\ doc'.st = e.st /\ doc'.p = e.p /\ doc'.c = e.c
           /\ ReadBucketsEq(doc') = ReadBucketsEq(e) /\ (EntryShape(e) => EntryShape(doc'))
<1>1. /\ doc' \in Document /\ doc'.ver = doc.ver + 1 /\ doc'.next = doc.next
      /\ doc'.b = e.b /\ doc'.st = e.st /\ doc'.p = e.p /\ doc'.c = e.c
  BY DEF CasEntry, Document, EqEntry
<1>2. QED BY <1>1 DEF ReadBucketsEq, EntryShape

LEMMA CasBusyStep ==
    ASSUME BInv, OneSplitter, NEW s \in Splitters, CasBusy(s)
    PROVE  BInv'
<1>1. /\ TypeOK /\ DocShape /\ loc[s] \in Locals /\ doc \in Document /\ Knows(s) /\ spc[s] = "busy"
      /\ UNCHANGED <<hot, bucket, rows, writers>>
  BY DEF BInv, TypeOK, SplitterShape, CasBusy
<1>2. CASE ~CasHolds(s)
  <2>1. Again(s) /\ UNCHANGED <<store, rows, writers>> BY <1>1, <1>2 DEF CasBusy, store
  <2>2. QED BY <1>1, <2>1, AgainStep
<1>3. CASE CasHolds(s)
  <2>1. PICK e : e = loc[s].e OBVIOUS
  <2>2. CasEntry(e) /\ Migrate(s, e, FALSE, 0) BY <1>3, <2>1 DEF CasBusy
  <2>3. /\ e \in EqEntry /\ e.st = Busy(loc[s].op) /\ EntryShape(e) /\ Below(e, doc.next) /\ loc[s].add = {}
        /\ ReadBucketsEq(doc) \subseteq ReadBucketsEq(e)
    BY <1>1, <2>1 DEF Knows, Locals
  <2>4. /\ doc' \in Document /\ doc'.ver = doc.ver + 1 /\ doc'.next = doc.next
        /\ doc'.b = e.b /\ doc'.st = e.st /\ doc'.p = e.p /\ doc'.c = e.c
        /\ ReadBucketsEq(doc') = ReadBucketsEq(e) /\ EntryShape(doc')
    BY <1>1, <2>2, <2>3, CasEntryTypes
  <2>5. DocShape' BY <2>3, <2>4 DEF DocShape, Below
  <2>6. SameEntry(e)' /\ doc'.st = Busy(loc[s].op) BY <2>3, <2>4 DEF SameEntry
  <2>7. PICK r \in Locals :
              /\ Moves(s, "page", r) /\ r.page = {} /\ UNCHANGED <<begins, crashed>>
              /\ Knows(s)' /\ Drained(s)' /\ BatchSafe(s)'
    BY <1>1, <2>2, <2>3, <2>6, MigrateMoves
  <2>8. "page" \in Steps BY DEF Steps
  <2>9. UNCHANGED <<hot, bucket, rows, writers, begins, crashed>> BY <1>1, <2>7
  <2>10. QED BY <2>3, <2>4, <2>5, <2>7, <2>8, <2>9, CasStep
<1>4. QED BY <1>2, <1>3

LEMMA CasDrainStep ==
    ASSUME BInv, OneSplitter, NEW s \in Splitters, CasDrain(s)
    PROVE  BInv'
<1>1. /\ TypeOK /\ DocShape /\ loc[s] \in Locals /\ doc \in Document /\ Knows(s) /\ spc[s] = "drain"
      /\ UNCHANGED <<hot, bucket, rows, writers>>
  BY DEF BInv, TypeOK, SplitterShape, CasDrain
<1>2. CASE ~CasHolds(s)
  <2>1. Again(s) /\ UNCHANGED <<store, rows, writers>> BY <1>1, <1>2 DEF CasDrain, store
  <2>2. QED BY <1>1, <2>1, AgainStep
<1>3. CASE CasHolds(s)
  <2>1. PICK e : e = loc[s].e OBVIOUS
  <2>2. CasEntry(e) /\ Migrate(s, e, TRUE, doc.ver + 1) BY <1>3, <2>1 DEF CasDrain
  <2>3. /\ e \in EqEntry /\ e.st = Drain(loc[s].op) /\ e.b = doc.b /\ e.p = doc.p /\ e.c = doc.c /\ loc[s].add = {}
        /\ doc.st = Busy(loc[s].op)
    BY <1>1, <2>1 DEF Knows, Locals
  <2>4. EntryShape(e) /\ ReadBucketsEq(e) = ReadBucketsEq(doc)
    <3>1. e.st # "ACTIVE" /\ doc.st # "ACTIVE" BY <2>3 DEF Drain, Busy
    <3>2. QED BY <1>1, <2>3, <3>1 DEF DocShape, EntryShape, ReadBucketsEq
  <2>5. /\ doc' \in Document /\ doc'.ver = doc.ver + 1 /\ doc'.next = doc.next
        /\ doc'.b = e.b /\ doc'.st = e.st /\ doc'.p = e.p /\ doc'.c = e.c
        /\ ReadBucketsEq(doc') = ReadBucketsEq(doc) /\ EntryShape(doc')
    BY <1>1, <2>2, <2>3, <2>4, CasEntryTypes
  <2>6. DocShape' BY <1>1, <2>5 DEF DocShape, Below
  <2>7. SameEntry(e)' /\ doc'.st = Drain(loc[s].op) BY <2>3, <2>5 DEF SameEntry
  <2>8. doc.ver + 1 \in Nat BY <1>1 DEF Document
  <2>9. PICK r \in Locals :
              /\ Moves(s, "page", r) /\ r.page = {} /\ UNCHANGED <<begins, crashed>>
              /\ Knows(s)' /\ Drained(s)' /\ BatchSafe(s)'
    BY <1>1, <2>2, <2>3, <2>5, <2>7, <2>8, MigrateMoves
  <2>10. "page" \in Steps BY DEF Steps
  <2>11. UNCHANGED <<hot, bucket, rows, writers, begins, crashed>> BY <1>1, <2>9
  <2>12. QED BY <2>3, <2>5, <2>6, <2>9, <2>10, <2>11, CasStep
<1>4. QED BY <1>2, <1>3

\* Sources and targets of a migration under way.
LEMMA MigrationRoutes ==
    ASSUME BInv, NEW s \in Splitters, spc[s] \in Migrating \cup {"unlink", "final"}
    PROVE  /\ From(loc[s].e) = From(doc) /\ To(loc[s].e) = To(doc) /\ doc.st # "ACTIVE"
           /\ From(doc) \in Seq(Idx) /\ To(doc) \in Seq(Idx) /\ Len(To(doc)) > 0
           /\ ReadBucketsEq(doc) = Range(From(doc)) \cup Range(To(doc))
           /\ Range(From(doc)) \cap Range(To(doc)) = {}
           /\ Range(From(doc)) \subseteq Idx /\ Range(To(doc)) \subseteq Idx
           /\ \A k \in Pks : Pick(To(doc), k) \in Range(To(doc))
<1>1. Knows(s) /\ doc \in Document /\ DocShape BY DEF BInv, SplitterShape, TypeOK
<1>2. SameEntry(loc[s].e) /\ doc.st \in {Busy(loc[s].op), Drain(loc[s].op)}
  BY <1>1 DEF Knows
<1>3. doc.st # "ACTIVE" BY <1>2 DEF Busy, Drain
<1>4. From(loc[s].e) = From(doc) /\ To(loc[s].e) = To(doc) BY <1>2, SameRoutes
<1>5. From(doc) \in Seq(Idx) /\ To(doc) \in Seq(Idx) BY <1>1, FromToTypes
<1>6. /\ ReadBucketsEq(doc) = Range(From(doc)) \cup Range(To(doc))
      /\ Range(From(doc)) \cap Range(To(doc)) = {} /\ Len(To(doc)) > 0
  BY <1>1, <1>3, FromTo DEF DocShape
<1>7. \A k \in Pks : Pick(To(doc), k) \in Range(To(doc)) BY <1>5, <1>6, PickInRange
<1>8. QED BY <1>3, <1>4, <1>5, <1>6, <1>7, RangeTypes

LEMMA MoveAddStep ==
    ASSUME BInv, OneSplitter, NEW s \in Splitters, NEW m \in loc[s].add, MoveAdd(s, m)
    PROVE  BInv'
<1>1. /\ TypeOK /\ DocShape /\ CacheShape /\ NoneLost /\ NoOrphans
      /\ loc[s] \in Locals /\ Knows(s) /\ Drained(s) /\ BatchSafe(s) /\ spc[s] = "move"
  BY DEF BInv, TypeOK, SplitterShape, DrainShape, BatchShape, MoveAdd
<1>2. UNCHANGED <<doc, hot, row, deaths, hit, cache, wrem, wadd, rows, writers>> BY DEF MoveAdd, rows, writers
<1>3. PICK T : T = Pick(To(doc), m[1]) OBVIOUS
<1>4. /\ From(loc[s].e) = From(doc) /\ To(loc[s].e) = To(doc) /\ doc.st # "ACTIVE"
      /\ ReadBucketsEq(doc) = Range(From(doc)) \cup Range(To(doc))
      /\ Range(From(doc)) \cap Range(To(doc)) = {}
      /\ Range(From(doc)) \subseteq Idx /\ Range(To(doc)) \subseteq Idx
      /\ \A k \in Pks : Pick(To(doc), k) \in Range(To(doc))
  BY <1>1, MigrationRoutes DEF Migrating
<1>5. m \in Member /\ m[1] \in Pks /\ m \in loc[s].page
  BY <1>1 DEF Locals, Member, Knows
<1>6. T \in Range(To(doc)) /\ T \in Idx /\ T \notin Range(From(doc)) /\ T \in ReadBucketsEq(doc) BY <1>3, <1>4, <1>5
<1>7. PICK r : r = [loc[s] EXCEPT !.add = loc[s].add \ {m}] OBVIOUS
<1>8. Goto(s, "move", r) /\ bucket' = [bucket EXCEPT ![T] = @ \cup {m}] BY <1>3, <1>4, <1>7 DEF MoveAdd
<1>9. /\ r \in Locals /\ r.todo = loc[s].todo /\ r.op = loc[s].op /\ r.e = loc[s].e /\ r.page = loc[s].page
      /\ r.add = loc[s].add \ {m} /\ r.rem = loc[s].rem /\ r.drain = loc[s].drain /\ r.dver = loc[s].dver
      /\ r.clock = loc[s].clock /\ r.pass = loc[s].pass
  BY <1>1, <1>7 DEF Locals
<1>10. Moves(s, "move", r) /\ UNCHANGED <<begins, crashed>> BY <1>8 DEF Goto, Moves
<1>11. spc'[s] = "move" /\ loc'[s] = r BY <1>1, <1>10, MovedTo
<1>12. bucket' \in [Idx -> SUBSET Member] BY <1>1, <1>5, <1>6, <1>8 DEF TypeOK
<1>13. \A i \in Idx : bucket'[i] = (IF i = T THEN bucket[i] \cup {m} ELSE bucket[i]) BY <1>1, <1>8 DEF TypeOK
<1>14. Knows(s)' BY <1>1, <1>2, <1>9, <1>11 DEF Knows, Migrating, SameEntry
<1>15. \A i \in Range(From(doc)) : bucket'[i] = bucket[i] BY <1>4, <1>6, <1>13
<1>16. Drained(s)'
  <2>1. loc[s].todo \in Seq(Idx) /\ loc[s].todo # <<>> /\ Range(loc[s].todo) \subseteq Range(From(doc))
    BY <1>1, <1>4 DEF Locals, Knows, Migrating
  <2>2. Head(loc[s].todo) \in Range(From(doc)) BY <2>1, TailRange
  <2>3. bucket'[Head(loc[s].todo)] = bucket[Head(loc[s].todo)] BY <1>15, <2>2
  <2>4. Caught => Caught' BY <1>2 DEF Caught
  <2>5. /\ loc[s].clock # "early" => loc[s].drain /\ Caught
        /\ loc[s].pass # "early" => loc[s].clock # "early"
        /\ loc[s].clock = "over" => loc[s].pass # "early"
        /\ loc[s].pass # "early" =>
              /\ \A i \in Range(From(loc[s].e)) : i \in Range(loc[s].todo) \/ bucket[i] = {}
              /\ Cardinality(loc[s].page) < Batch => bucket[Head(loc[s].todo)] \subseteq loc[s].page
              /\ bucket[Head(loc[s].todo)] \cap loc[s].page \subseteq loc[s].rem
    BY <1>1 DEF Drained, Migrating
  <2>6. QED BY <1>4, <1>9, <1>11, <1>15, <2>3, <2>4, <2>5 DEF Drained, Migrating
<1>17. BatchSafe(s)'
  <2> SUFFICES ASSUME NEW x \in loc[s].rem, row[x[1]].iv = x[2], x[1] \notin hit
               PROVE  x \in loc[s].add \ {m} \/ x \in bucket'[Pick(To(doc), x[1])]
    BY <1>2, <1>4, <1>9, <1>11 DEF BatchSafe
  <2>1. x[1] \in Pks BY <1>1 DEF Locals, Member
  <2>2. Pick(To(doc), x[1]) \in Idx BY <1>4, <2>1
  <2>3. x \in loc[s].add \/ x \in bucket[Pick(To(doc), x[1])] BY <1>1, <1>4 DEF BatchSafe
  <2>4. QED BY <1>3, <1>13, <2>2, <2>3
<1>18. NoneLost'
  <2> SUFFICES ASSUME NEW j \in Pks, j \notin hit, NEW n, n = row[j].iv, n # 0 PROVE Reaches(<<j, n>>)'
    BY <1>2 DEF NoneLost, Indexed, MemberOf
  <2>1. Reaches(<<j, n>>) BY <1>1 DEF NoneLost, Indexed, MemberOf
  <2>2. \A i \in ReadBucketsEq(doc) : <<j, n>> \in bucket[i] => <<j, n>> \in bucket'[i] BY <1>4, <1>13
  <2>3. PICK x : x = <<j, n>> OBVIOUS
  <2>4. \A t \in Splitters : x \in loc[t].add =>
              \/ x \in loc'[t].add /\ To(loc'[t].e) = To(loc[t].e)
              \/ x \in bucket'[Pick(To(loc[t].e), x[1])]
    BY <1>3, <1>4, <1>6, <1>9, <1>11, <1>13 DEF OneSplitter
  <2>5. QED BY <1>2, <2>1, <2>2, <2>3, <2>4, ReachKept
<1>19. NoOrphans' BY <1>1, <1>2, <1>6, <1>13 DEF NoOrphans
<1>20. DocShape' /\ CacheShape' BY <1>1, <1>2 DEF DocShape, CacheShape
<1>22. Settled(s) BY <1>1, <1>2, <1>10, <1>12, <1>14, <1>16, <1>17, <1>18, <1>19, <1>20 DEF Settled, TypeOK
<1>23. "move" \in Steps BY DEF Steps
<1>24. QED BY <1>2, <1>9, <1>10, <1>22, <1>23, SettledStep

LEMMA MoveRemStep ==
    ASSUME BInv, OneSplitter, NEW s \in Splitters, NEW m \in loc[s].rem, MoveRem(s, m)
    PROVE  BInv'
<1>1. /\ TypeOK /\ DocShape /\ CacheShape /\ NoneLost /\ NoOrphans
      /\ loc[s] \in Locals /\ Knows(s) /\ Drained(s) /\ BatchSafe(s) /\ spc[s] = "move"
  BY DEF BInv, TypeOK, SplitterShape, DrainShape, BatchShape, MoveRem
<1>2. UNCHANGED <<doc, hot, row, deaths, hit, cache, wrem, wadd, rows, writers>> BY DEF MoveRem, rows, writers
<1>3. PICK h : h = Head(loc[s].todo) OBVIOUS
<1>4. /\ From(loc[s].e) = From(doc) /\ To(loc[s].e) = To(doc) /\ doc.st # "ACTIVE"
      /\ ReadBucketsEq(doc) = Range(From(doc)) \cup Range(To(doc))
      /\ Range(From(doc)) \cap Range(To(doc)) = {}
      /\ Range(From(doc)) \subseteq Idx /\ Range(To(doc)) \subseteq Idx
      /\ \A k \in Pks : Pick(To(doc), k) \in Range(To(doc))
  BY <1>1, MigrationRoutes DEF Migrating
<1>5. h \in Idx /\ h \in Range(From(doc)) /\ h \notin Range(To(doc))
  <2>1. loc[s].todo \in Seq(Idx) /\ loc[s].todo # <<>> /\ Range(loc[s].todo) \subseteq Range(From(doc))
    BY <1>1, <1>4 DEF Locals, Knows, Migrating
  <2>2. QED BY <1>3, <1>4, <2>1, TailRange
<1>6. m \in Member /\ m[1] \in Pks BY <1>1 DEF Locals, Member
<1>7. PICK r : r = [loc[s] EXCEPT !.rem = loc[s].rem \ {m}] OBVIOUS
<1>8. Goto(s, "move", r) /\ bucket' = [bucket EXCEPT ![h] = @ \ {m}] BY <1>3, <1>7 DEF MoveRem
<1>9. /\ r \in Locals /\ r.todo = loc[s].todo /\ r.op = loc[s].op /\ r.e = loc[s].e /\ r.page = loc[s].page
      /\ r.add = loc[s].add /\ r.rem = loc[s].rem \ {m} /\ r.drain = loc[s].drain /\ r.dver = loc[s].dver
      /\ r.clock = loc[s].clock /\ r.pass = loc[s].pass
  BY <1>1, <1>7 DEF Locals
<1>10. Moves(s, "move", r) /\ UNCHANGED <<begins, crashed>> BY <1>8 DEF Goto, Moves
<1>11. spc'[s] = "move" /\ loc'[s] = r BY <1>1, <1>10, MovedTo
<1>12. bucket' \in [Idx -> SUBSET Member] BY <1>1, <1>5, <1>8 DEF TypeOK
<1>13. \A i \in Idx : bucket'[i] = (IF i = h THEN bucket[i] \ {m} ELSE bucket[i]) BY <1>1, <1>8 DEF TypeOK
<1>14. Knows(s)' BY <1>1, <1>2, <1>9, <1>11 DEF Knows, Migrating, SameEntry
<1>15. \A i \in Range(To(doc)) : bucket'[i] = bucket[i] BY <1>4, <1>5, <1>13
<1>16. Drained(s)'
  <2>1. bucket'[h] = bucket[h] \ {m} /\ \A i \in Range(From(doc)) : bucket'[i] \subseteq bucket[i] BY <1>4, <1>5, <1>13
  <2>2. Caught => Caught' BY <1>2 DEF Caught
  <2>3. /\ loc[s].clock # "early" => loc[s].drain /\ Caught
        /\ loc[s].pass # "early" => loc[s].clock # "early"
        /\ loc[s].clock = "over" => loc[s].pass # "early"
        /\ loc[s].pass # "early" =>
              /\ \A i \in Range(From(doc)) : i \in Range(loc[s].todo) \/ bucket[i] = {}
              /\ Cardinality(loc[s].page) < Batch => bucket[h] \subseteq loc[s].page
              /\ bucket[h] \cap loc[s].page \subseteq loc[s].rem
    BY <1>1, <1>3, <1>4 DEF Drained, Migrating
  <2>4. loc[s].pass # "early" =>
              /\ \A i \in Range(From(doc)) : i \in Range(loc[s].todo) \/ bucket'[i] = {}
              /\ Cardinality(loc[s].page) < Batch => bucket'[h] \subseteq loc[s].page
              /\ bucket'[h] \cap loc[s].page \subseteq loc[s].rem \ {m}
    BY <2>1, <2>3
  <2>5. QED BY <1>3, <1>4, <1>9, <1>11, <2>2, <2>3, <2>4 DEF Drained, Migrating
<1>17. BatchSafe(s)'
  <2> SUFFICES ASSUME NEW x \in loc[s].rem, row[x[1]].iv = x[2], x[1] \notin hit
               PROVE  x \in loc[s].add \/ x \in bucket'[Pick(To(doc), x[1])]
    BY <1>2, <1>4, <1>9, <1>11 DEF BatchSafe
  <2>1. x[1] \in Pks BY <1>1 DEF Locals, Member
  <2>2. Pick(To(doc), x[1]) \in Range(To(doc)) BY <1>4, <2>1
  <2>3. x \in loc[s].add \/ x \in bucket[Pick(To(doc), x[1])] BY <1>1, <1>4 DEF BatchSafe
  <2>4. QED BY <1>15, <2>2, <2>3
<1>18. NoneLost'
  <2> SUFFICES ASSUME NEW j \in Pks, j \notin hit, NEW n, n = row[j].iv, n # 0 PROVE Reaches(<<j, n>>)'
    BY <1>2 DEF NoneLost, Indexed, MemberOf
  <2>1. Reaches(<<j, n>>) BY <1>1 DEF NoneLost, Indexed, MemberOf
  <2>2. \A t \in Splitters : loc'[t].add = loc[t].add /\ loc'[t].e = loc[t].e BY <1>9, <1>11 DEF OneSplitter
  <2>3. CASE <<j, n>> # m
    <3>1. \A i \in ReadBucketsEq(doc) : <<j, n>> \in bucket[i] => <<j, n>> \in bucket'[i] BY <1>4, <1>13, <2>3
    <3>2. QED BY <1>2, <2>1, <2>2, <3>1, ReachKept
  <2>4. CASE <<j, n>> = m
    <3>1. m[1] = j /\ m[2] = n BY <2>4
    <3>2. PICK T : T = Pick(To(doc), j) OBVIOUS
    <3>3. T \in Range(To(doc)) /\ T \in ReadBucketsEq(doc') BY <1>2, <1>4, <3>2
    <3>4. m \in loc[s].add \/ m \in bucket[T] BY <1>1, <1>4, <3>1, <3>2 DEF BatchSafe
    <3>5. (m \in loc'[s].add /\ Pick(To(loc'[s].e), m[1]) = T) \/ m \in bucket'[T]
      BY <1>4, <1>15, <2>2, <3>1, <3>2, <3>3, <3>4
    <3>6. QED BY <2>4, <3>3, <3>5 DEF Reaches
  <2>5. QED BY <2>3, <2>4
<1>19. NoOrphans' BY <1>1, <1>2, <1>13 DEF NoOrphans
<1>20. DocShape' /\ CacheShape' BY <1>1, <1>2 DEF DocShape, CacheShape
<1>22. Settled(s) BY <1>1, <1>2, <1>10, <1>12, <1>14, <1>16, <1>17, <1>18, <1>19, <1>20 DEF Settled, TypeOK
<1>23. "move" \in Steps BY DEF Steps
<1>24. QED BY <1>2, <1>9, <1>10, <1>22, <1>23, SettledStep

\* UNLINK finds the sources empty.
LEMMA UnlinkStep ==
    ASSUME BInv, OneSplitter, NEW s \in Splitters, Unlink(s)
    PROVE  BInv'
<1>1. /\ TypeOK /\ loc[s] \in Locals /\ Knows(s) /\ Drained(s) /\ spc[s] = "unlink" /\ loc[s].todo # <<>>
      /\ loc[s].todo \in Seq(Idx)
  BY DEF BInv, TypeOK, SplitterShape, DrainShape, Unlink, Locals
<1>2. PICK h, q : h = Head(loc[s].todo) /\ q = Tail(loc[s].todo) OBVIOUS
<1>3. h \in Idx /\ q \in Seq(Idx) /\ Range(loc[s].todo) = {h} \cup Range(q) BY <1>1, <1>2, TailRange
<1>4. bucket[h] = {} BY <1>1, <1>3 DEF Knows, Drained
<1>5. bucket' = bucket
  <2>1. bucket' = [bucket EXCEPT ![h] = {}] BY <1>2 DEF Unlink
  <2>2. QED BY <1>1, <1>4, <2>1 DEF TypeOK
<1>6. UNCHANGED <<store, rows, writers>> BY <1>5 DEF Unlink, store
<1>7. doc' = doc /\ cache' = cache BY <1>6 DEF store, writers
<1>8. PICK r : r = [loc[s] EXCEPT !.todo = q] OBVIOUS
<1>9. Goto(s, "unlink", r) BY <1>2, <1>8 DEF Unlink
<1>10. /\ r \in Locals /\ r.todo = q /\ r.op = loc[s].op /\ r.e = loc[s].e /\ r.page = loc[s].page /\ r.add = loc[s].add
       /\ r.rem = loc[s].rem
  BY <1>1, <1>3, <1>8 DEF Locals
<1>11. spc'[s] = "unlink" /\ loc'[s] = r BY <1>1, <1>9, GotoTo
<1>12. Knows(s)' BY <1>1, <1>3, <1>7, <1>10, <1>11 DEF Knows, Migrating, SameEntry
<1>13. Drained(s)' /\ BatchSafe(s)' BY <1>1, <1>5, <1>7, <1>10, <1>11 DEF Drained, BatchSafe, Migrating, Caught
<1>15. "unlink" \in Steps BY DEF Steps
<1>16. QED BY <1>6, <1>9, <1>10, <1>12, <1>13, <1>15, GotoStep

\* The sources leave the document when they are empty and nobody writes to them.
LEMMA CasFinalStep ==
    ASSUME BInv, OneSplitter, NEW s \in Splitters, CasFinal(s)
    PROVE  BInv'
<1>1. /\ TypeOK /\ DocShape /\ CacheShape /\ PendingShape /\ NoneLost /\ NoOrphans
      /\ loc[s] \in Locals /\ doc \in Document /\ Knows(s) /\ Drained(s) /\ spc[s] = "final"
      /\ UNCHANGED <<hot, bucket, rows, writers>>
  BY DEF BInv, TypeOK, SplitterShape, DrainShape, CasFinal
<1>2. CASE ~CasHolds(s)
  <2>1. Again(s) /\ UNCHANGED <<store, rows, writers>> BY <1>1, <1>2 DEF CasFinal, store
  <2>2. QED BY <1>1, <2>1, AgainStep
<1>3. CASE CasHolds(s)
  <2>1. /\ From(loc[s].e) = From(doc) /\ To(loc[s].e) = To(doc)
        /\ To(doc) \in Seq(Idx) /\ Len(To(doc)) > 0
        /\ ReadBucketsEq(doc) = Range(From(doc)) \cup Range(To(doc))
        /\ Range(To(doc)) \subseteq Idx
    BY <1>1, MigrationRoutes
  <2>2. doc.st \in {"DRAINING", "MERGE_DRAIN"} /\ Caught /\ (\A i \in Range(From(doc)) : bucket[i] = {}) /\ loc[s].add = {}
        /\ loc[s].op \in {"split", "merge"} /\ loc[s].rem = {}
    BY <1>1, <2>1 DEF Knows, Drained, Drain
  <2>3. \A k \in Pks : WriteTargetsEq(doc, k) \subseteq Range(To(doc)) BY <1>1, <2>2, DrainTargets DEF DocShape
  <2>4. PICK e : e = [NoEntry EXCEPT !.b = To(doc)] OBVIOUS
  <2>5. e \in EqEntry /\ e.b = To(doc) /\ e.st = "ACTIVE" BY <2>1, <2>4, IdleTypes DEF EqEntry, NoEntry
  <2>6. CasEntry(e) BY <1>3, <2>1, <2>4 DEF CasFinal
  <2>7. EntryShape(e) BY <2>1, <2>5 DEF EntryShape
  <2>8. /\ doc' \in Document /\ doc'.ver = doc.ver + 1 /\ doc'.next = doc.next
        /\ ReadBucketsEq(doc') = ReadBucketsEq(e) /\ EntryShape(doc')
    BY <1>1, <2>5, <2>6, <2>7, CasEntryTypes
  <2>9. ReadBucketsEq(doc') = Range(To(doc)) BY <2>5, <2>8 DEF ReadBucketsEq
  <2>10. DocShape' BY <1>1, <2>1, <2>8, <2>9 DEF DocShape, Below
  <2>11. UNCHANGED <<row, deaths, hit, cache, wrem, wadd, bucket, hot>> BY <1>1 DEF rows, writers
  <2>12. CacheShape'
    <3>1. doc.ver \in Nat BY <1>1 DEF Document
    <3>2. \A w \in Writers : cache[w] = doc BY <2>2 DEF Caught
    <3>3. doc.ver <= doc'.ver /\ doc.ver # doc'.ver BY <2>8, <3>1
    <3>4. QED BY <2>3, <2>9, <2>11, <3>2, <3>3 DEF CacheShape
  <2>13. NoneLost'
    <3> SUFFICES ASSUME NEW j \in Pks, j \notin hit, NEW n, n = row[j].iv, n # 0 PROVE Reaches(<<j, n>>)'
      BY <2>11 DEF NoneLost, Indexed, MemberOf
    <3>1. Reaches(<<j, n>>) BY <1>1 DEF NoneLost, Indexed, MemberOf
    <3>2. \A t \in Splitters : loc[t].add = {} BY <2>2 DEF OneSplitter
    <3>3. PICK i \in ReadBucketsEq(doc) : <<j, n>> \in bucket[i] \/ \E w \in Writers : <<i, <<j, n>>>> \in wadd[w]
      BY <3>1, <3>2 DEF Reaches
    <3>4. CASE <<j, n>> \in bucket[i]
      <4>1. i \in Range(To(doc)) BY <2>1, <2>2, <3>3, <3>4
      <4>2. QED BY <2>9, <2>11, <3>4, <4>1 DEF Reaches
    <3>5. ASSUME NEW w \in Writers, <<i, <<j, n>>>> \in wadd[w] PROVE Reaches(<<j, n>>)'
      <4>1. i \in WriteTargetsEq(cache[w], j) BY <1>1, <3>5 DEF PendingShape
      <4>2. i \in Range(To(doc)) BY <2>2, <2>3, <4>1 DEF Caught
      <4>3. QED BY <2>9, <2>11, <3>5, <4>2 DEF Reaches
    <3>6. QED BY <3>3, <3>4, <3>5
  <2>14. NoOrphans' BY <1>1, <2>1, <2>2, <2>9, <2>11 DEF NoOrphans
  <2>15. \E l, r : Moves(s, l, r) /\ l \in Steps /\ r \in Locals /\ UNCHANGED <<begins, crashed>> /\ r.page \subseteq loc[s].page
                   /\ Knows(s)' /\ Drained(s)' /\ BatchSafe(s)'
    <3>1. CASE loc[s].op = "split"
      <4>1. Moves(s, "hot", loc[s]) /\ UNCHANGED <<begins, crashed>> BY <1>3, <3>1 DEF CasFinal, Goto, Moves
      <4>2. spc'[s] = "hot" /\ loc'[s] = loc[s] BY <1>1, <4>1, MovedTo
      <4>3. Knows(s)' BY <1>1, <2>2, <4>2 DEF Knows, Migrating
      <4>4. Drained(s)' /\ BatchSafe(s)' BY <4>2 DEF Drained, BatchSafe, Migrating
      <4>5. "hot" \in Steps BY DEF Steps
      <4>6. QED BY <1>1, <4>1, <4>3, <4>4, <4>5
    <3>2. CASE loc[s].op # "split"
      <4>1. Moves(s, "idle", NoLoc) /\ UNCHANGED <<begins, crashed>> BY <1>3, <3>2 DEF CasFinal, Leave, Goto, Moves
      <4>2. Knows(s)' /\ Drained(s)' /\ BatchSafe(s)' /\ "idle" \in Steps /\ NoLoc \in Locals
        BY <1>1, <4>1, LeaveFresh, FreshKnows
      <4>3. NoLoc.page \subseteq loc[s].page BY DEF NoLoc
      <4>4. QED BY <4>1, <4>2, <4>3
    <3>3. QED BY <3>1, <3>2
  <2>16. PICK l, r : Moves(s, l, r) /\ l \in Steps /\ r \in Locals /\ UNCHANGED <<begins, crashed>> /\ r.page \subseteq loc[s].page
                     /\ Knows(s)' /\ Drained(s)' /\ BatchSafe(s)'
    BY <2>15
  <2>18. Settled(s) BY <1>1, <2>8, <2>10, <2>11, <2>12, <2>13, <2>14, <2>16 DEF Settled, TypeOK
  <2>19. QED BY <1>1, <2>16, <2>18, SettledStep
<1>4. QED BY <1>2, <1>3

LEMMA RegisterHotStep ==
    ASSUME BInv, OneSplitter, NEW s \in Splitters, RegisterHot(s)
    PROVE  BInv'
<1>1. /\ TypeOK /\ DocShape /\ CacheShape /\ NoneLost /\ NoOrphans /\ loc[s].add = {}
      /\ hot' = TRUE /\ UNCHANGED <<doc, bucket, rows, writers>> /\ UNCHANGED <<row, deaths, hit, cache, wrem, wadd>>
  BY DEF BInv, SplitterShape, Knows, RegisterHot, rows, writers
<1>2. Moves(s, "idle", NoLoc) /\ UNCHANGED <<begins, crashed>> BY DEF RegisterHot, Leave, Goto, Moves
<1>3. Knows(s)' /\ Drained(s)' /\ BatchSafe(s)' /\ "idle" \in Steps /\ NoLoc \in Locals
  BY <1>1, <1>2, LeaveFresh, FreshKnows
<1>4. loc'[s] = NoLoc BY <1>1, <1>2, MovedTo
<1>5. NoneLost'
  <2> SUFFICES ASSUME NEW j \in Pks, j \notin hit, NEW n, n = row[j].iv, n # 0 PROVE Reaches(<<j, n>>)'
    BY <1>1 DEF NoneLost, Indexed, MemberOf
  <2>1. Reaches(<<j, n>>) BY <1>1 DEF NoneLost, Indexed, MemberOf
  <2>2. \A t \in Splitters : loc[t].add = {} BY <1>1 DEF OneSplitter
  <2>3. QED BY <1>1, <2>1, <2>2, ReachKept
<1>6. DocShape' /\ CacheShape' /\ NoOrphans' BY <1>1 DEF DocShape, CacheShape, NoOrphans
<1>8. Settled(s) BY <1>1, <1>2, <1>3, <1>5, <1>6 DEF Settled, TypeOK
<1>9. QED BY <1>1, <1>2, <1>3, <1>8, SettledStep

(***************************************************************************)
(* The theorems.                                                           *)
(***************************************************************************)
LEMMA BInvStep == ASSUME Assumed, BInv, [Next]_vars PROVE BInv'
<1>1. OneSplitter /\ "cut" \notin Faults BY DEF Assumed
<1>2. ASSUME NEW w \in Writers, WriterStep(w) PROVE BInv'
  BY <1>2, PutStep, AwayStep, ZaddStep, ZremStep, CacheStep DEF WriterStep
<1>3. ASSUME NEW k \in Pks, Die(k) PROVE BInv' BY <1>3, DieStep
<1>4. ASSUME NEW s \in Splitters, SplitterStep(s) PROVE BInv'
  <2>1. CASE LoadFresh(s) \/ CasNext(s) \/ Reload(s) \/ CasBusy(s)
    BY <1>1, <2>1, LoadFreshStep, CasNextStep, ReloadStep, CasBusyStep
  <2>2. CASE Page(s) \/ Exists(s) \/ MoveDone(s) \/ PassDone(s) \/ Mark(s) \/ CasDrain(s)
    BY <1>1, <2>2, PageStep, ExistsStep, MoveDoneStep, PassDoneStep, MarkStep, CasDrainStep
  <2>3. CASE (\E m \in loc[s].add : MoveAdd(s, m)) \/ (\E m \in loc[s].rem : MoveRem(s, m))
    BY <1>1, <2>3, MoveAddStep, MoveRemStep
  <2>4. CASE Unlink(s) \/ ReloadFinal(s) \/ CasFinal(s) \/ RegisterHot(s)
    BY <1>1, <2>4, UnlinkStep, ReloadFinalStep, CasFinalStep, RegisterHotStep
  <2>5. QED BY <1>4, <2>1, <2>2, <2>3, <2>4 DEF SplitterStep
<1>5. ASSUME NEW s \in Splitters, (\E op \in Ops : Begin(s, op)) \/ TtlOver(s) \/ GraceOver(s) \/ Crash(s) PROVE BInv'
  BY <1>1, <1>5, BeginStep, TtlOverStep, GraceOverStep, CrashStep
<1>6. CASE UNCHANGED vars
  <2>1. UNCHANGED <<doc, hot, bucket, row, deaths, hit, cache, wrem, wadd, spc, loc, begins, crashed>>
    BY <1>6 DEF vars, store, rows, writers, split
  <2>2. TypeOK' /\ RowShape' /\ PendingShape' BY <2>1 DEF BInv, TypeOK, RowShape, PendingShape, Spares
  <2>3. DocShape' /\ SplitterShape' BY <2>1, RestsKeeps DEF BInv, SplitterRests, split
  <2>4. CacheShape' /\ DrainShape' /\ BatchShape' BY <2>1 DEF BInv, CacheShape, DrainShape, Drained, Caught, BatchShape, BatchSafe
  <2>5. NoneLost' /\ NoOrphans' BY <2>1 DEF BInv, NoneLost, Indexed, MemberOf, Reaches, NoOrphans
  <2>6. QED BY <2>2, <2>3, <2>4, <2>5 DEF BInv
<1>7. QED BY <1>2, <1>3, <1>4, <1>5, <1>6 DEF Next

LEMMA BInvariance == Assumed => (Spec => []BInv)
<1> SUFFICES ASSUME Assumed PROVE Spec => []BInv OBVIOUS
<1>1. BInv /\ [Next]_vars => BInv' BY BInvStep
<1>2. QED BY <1>1, BInvInit, PTL DEF Spec

\* split.go SplitEq, MergeEq: bucket indices, attempts, pages and versions stay in range.
THEOREM SplitTypeCorrect == Assumed => (Spec => []TypeOK)
<1> SUFFICES ASSUME Assumed PROVE Spec => []TypeOK OBVIOUS
<1>1. BInv => TypeOK BY DEF BInv
<1>2. QED BY <1>1, BInvariance, PTL

\* split.go SplitEq, MergeEq with one controller at a time: through dual writes, writes with
\* old documents, rows that expire and are born again, torn splits and their resumption,
\* drain and UNLINK, the member of every row that has the value stays in a bucket that the
\* document names to its readers, unless the row was born again while a ZREM of the same
\* member was due.
THEOREM SplitLosesNobody == Assumed => (Spec => []NoneLost)
<1> SUFFICES ASSUME Assumed PROVE Spec => []NoneLost OBVIOUS
<1>1. BInv => NoneLost BY DEF BInv
<1>2. QED BY <1>1, BInvariance, PTL

\* split.go drainGrace, UNLINK: no member is ever in a bucket that the document does not
\* name, although writers still write by older documents.
THEOREM SplitLeavesNothing == Assumed => (Spec => []NoOrphans)
<1> SUFFICES ASSUME Assumed PROVE Spec => []NoOrphans OBVIOUS
<1>1. BInv => NoOrphans BY DEF BInv
<1>2. QED BY <1>1, BInvariance, PTL
=============================================================================
