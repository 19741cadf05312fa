--------------------------- MODULE IndexBuildProofs ---------------------------
(***************************************************************************)
(* Proofs about IndexBuild: an index is published complete, for any        *)
(* gateways, leaders, keys, values and page size.                          *)
(***************************************************************************)
EXTENDS IndexBuild, FiniteSetTheorems, TLAPS

\* Statements whose index segment is due on the row they wrote, not on a later one.
Due == {g \in Gateways \ old : wr[g].pc = "index"}

\* A member that is there or about to be added, and that no segment due removes.
Coming(m) == m \in member \/ \E g \in Due : m \in Redo(wr[g])
Kept(m) == \A g \in Due : m \notin Undo(wr[g])
Held(p) == \E m \in Stamped : m[1] = row[p].val /\ m[2] = p /\ Coming(m) /\ Kept(m)

\* A row for which the index answers.
Owed(p) == Live(p) /\ p \notin blind /\ p \notin reborn
Safe(p) == Owed(p) => Held(p)
Done == \A p \in Pks : Safe(p)

Flights ==
    \A g \in Gateways : wr[g].pc = "index" =>
        /\ (g \notin old /\ Live(wr[g].pk)) => (wr[g].op # "D" /\ wr[g].snap.ver < row[wr[g].pk].ver)
        /\ (~wr[g].knows /\ cat # "none") => wr[g].pk \in blind

Registered ==
    \A p \in Pks : (Live(p) /\ p \notin reborn) => (p \in exp \/ \E g \in Due : wr[g].pk = p /\ Registers(wr[g]))

\* CREATE INDEX after its first save.
Creating == ddl.pc \in {"count", "publish", "getjob", "setjob"}

\* A version that is still the catalogue's was saved with what the catalogue has.
Loaded ==
    /\ (ddl.pc = "save" /\ catVer = ddl.ver) => cat = "none"
    /\ (Creating /\ catVer = ddl.ver) => cat = "building"
    /\ ddl.pc = "unlink" => cat = "none"
    /\ ddl.ver <= catVer
    /\ \A l \in Leaders : run[l].pc # "idle" => run[l].ver <= catVer /\ (run[l].ver = catVer => run[l].has = cat)

Busy(l) == run[l].pc # "idle"

\* Who is at work on which state of the index.
Turns ==
    /\ Creating => cat = "building" /\ ~job.on /\ \A l \in Leaders : ~Busy(l)
    /\ job.on => cat # "none"
    /\ \A l \in Leaders : Busy(l) => cat # "none" /\ (job.on \/ cat = "visible")
    /\ \A l \in Leaders : run[l].pc = "clear" => cat = "visible"

\* Rows that are not in the register were written under the index.
Outside == cat # "none" => \A p \in Pks : p \notin exp => Safe(p)
Published == (cat = "visible" \/ ddl.pc = "publish") => Done

\* Leader l has row p in its page, or has read it there.
InHand(l, p) ==
    \/ run[l].pc = "rows" /\ p \in run[l].pks
    \/ run[l].pc = "zadd" /\ \E m \in Stamped : m[1] = row[p].val /\ m[2] = p /\ m \in run[l].rows /\ Kept(m)

\* Below a cursor every row has its member, up to the page in hand.
Walked ==
    /\ \A p \in Pks : (job.on /\ p \in exp /\ Rank(p) < job.cur) => Safe(p)
    /\ \A l \in Leaders, p \in Pks :
          (Busy(l) /\ Owed(p) /\ ((p \in exp /\ Rank(p) < run[l].cur) \/ run[l].pc = "finish"))
            => Held(p) \/ InHand(l, p)

Backfill == Turns /\ Outside /\ Published /\ Walked
IInv == TypeOK /\ Flights /\ Registered /\ Loaded /\ (shifted \/ stray \/ Backfill)

\* A step leaves a row for which the index answers its member, or the one it is to get.
Carries ==
    \A p \in Pks : Owed(p)' =>
        \/ Held(p)'
        \/ /\ Owed(p) /\ row'[p].val = row[p].val
           /\ Held(p) => Held(p)'
           /\ \A m \in Stamped : (m[2] = p /\ Kept(m)) => Kept(m)'

(***************************************************************************)
(* Ranks and pages of the register.                                        *)
(***************************************************************************)
LEMMA PksFinite == Pks \in SUBSET Nat /\ IsFiniteSet(Pks)
BY FS_Interval, IndexBuildAssumption DEF Pks

\* Ranks are numbers, and no two entries have the same.
LEMMA RankFacts ==
    ASSUME exp \in SUBSET Pks
    PROVE  /\ IsFiniteSet(exp) /\ Cardinality(exp) \in Nat
           /\ \A p \in Pks : Rank(p) \in Nat
           /\ \A p \in exp : Rank(p) < Cardinality(exp)
           /\ \A p, q \in exp : Rank(p) = Rank(q) => p = q
<1> DEFINE Low(p) == {q \in exp : q < p}
<1>1. IsFiniteSet(exp) /\ Cardinality(exp) \in Nat BY PksFinite, FS_Subset, FS_CardinalityType
<1>2. \A p \in Pks : Low(p) \in SUBSET exp OBVIOUS
<1>3. ASSUME NEW p \in Pks PROVE IsFiniteSet(Low(p)) /\ Cardinality(Low(p)) \in Nat
  BY <1>1, <1>2, FS_Subset, FS_CardinalityType
<1>4. ASSUME NEW p \in exp PROVE Cardinality(Low(p)) < Cardinality(exp)
  <2>1. p \in Pks /\ p \notin Low(p) BY PksFinite
  <2>2. Low(p) # exp BY <2>1
  <2>3. Low(p) \in SUBSET exp OBVIOUS
  <2>4. Cardinality(Low(p)) <= Cardinality(exp) /\ Cardinality(Low(p)) # Cardinality(exp)
    BY <1>1, <2>2, <2>3, FS_Subset
  <2>5. QED BY <1>1, <1>3, <2>1, <2>4
<1>5. ASSUME NEW p \in exp, NEW q \in exp, p < q PROVE Cardinality(Low(p)) < Cardinality(Low(q))
  <2>0. p \in Pks /\ q \in Pks /\ p \in Nat /\ q \in Nat BY PksFinite
  <2>1. Low(p) \in SUBSET Low(q)
    <3>1. ASSUME NEW r \in exp, r < p PROVE r < q
      <4>1. r \in Nat BY PksFinite
      <4>2. QED BY <1>5, <2>0, <3>1, <4>1
    <3>2. QED BY <3>1
  <2>2. p \in Low(q) /\ p \notin Low(p) BY <1>5, <2>0
  <2>3. Low(p) # Low(q) BY <2>2
  <2>4. Cardinality(Low(p)) <= Cardinality(Low(q)) /\ Cardinality(Low(p)) # Cardinality(Low(q))
    BY <1>3, <2>0, <2>1, <2>3, FS_Subset
  <2>5. QED BY <1>3, <2>0, <2>4
<1>6. \A p \in Pks : Rank(p) = Cardinality(Low(p)) BY DEF Rank
<1> HIDE DEF Low
<1>7. ASSUME NEW p \in exp, NEW q \in exp, Rank(p) = Rank(q) PROVE p = q
  <2>0. p \in Pks /\ q \in Pks /\ p \in Nat /\ q \in Nat BY PksFinite
  <2>1. ~(p < q) BY <1>3, <1>5, <1>6, <1>7, <2>0
  <2>2. ~(q < p) BY <1>3, <1>5, <1>6, <1>7, <2>0
  <2>3. QED BY <2>0, <2>1, <2>2
<1>8. QED BY <1>1, <1>3, <1>4, <1>6, <1>7

\* The whole of the register is numbered from 0.
LEMMA RankOnto ==
    ASSUME exp \in SUBSET Pks, NEW n \in Nat, n < Cardinality(exp)
    PROVE  \E p \in exp : Rank(p) = n
<1> DEFINE c == Cardinality(exp)
           f == [p \in exp |-> Rank(p)]
<1>0. IsFiniteSet(exp) /\ c \in Nat BY RankFacts
<1>1. f \in [exp -> 0 .. c - 1] BY RankFacts
<1>2. f \in Injection(exp, 0 .. c - 1) BY <1>1, RankFacts DEF Injection, IsInjective
<1>3. IsFiniteSet(0 .. c - 1) /\ Cardinality(0 .. c - 1) = c
  <2> HIDE DEF c
  <2>1. 0 \in Int /\ c - 1 \in Int BY <1>0
  <2>2. /\ IsFiniteSet(0 .. c - 1)
        /\ Cardinality(0 .. c - 1) = IF 0 > c - 1 THEN 0 ELSE c - 1 - 0 + 1
    BY <2>1, FS_Interval
  <2>3. (IF 0 > c - 1 THEN 0 ELSE c - 1 - 0 + 1) = c BY <1>0
  <2>4. QED BY <2>2, <2>3
<1>4. f \in Surjection(exp, 0 .. c - 1) BY <1>2, <1>3, FS_Injection
<1>5. n \in 0 .. c - 1 BY <1>0
<1>6. \E p \in exp : f[p] = n BY <1>4, <1>5 DEF Surjection
<1>7. QED BY <1>6

\* The cursor past the only shard is above every rank.
LEMMA RankBelow ==
    ASSUME exp \in SUBSET Pks
    PROVE  NextShard \in Nat /\ \A p \in exp : Rank(p) < NextShard
<1>1. MaxPk \in Nat /\ MaxPk > 0 BY IndexBuildAssumption
<1>2. IsFiniteSet(Pks) /\ Cardinality(Pks) = MaxPk
  <2>1. 1 \in Int /\ MaxPk \in Int BY <1>1
  <2>2. IsFiniteSet(Pks) /\ Cardinality(Pks) = IF 1 > MaxPk THEN 0 ELSE MaxPk - 1 + 1
    BY <2>1, FS_Interval DEF Pks
  <2>3. (IF 1 > MaxPk THEN 0 ELSE MaxPk - 1 + 1) = MaxPk BY <1>1
  <2>4. QED BY <2>2, <2>3
<1>3. Cardinality(exp) <= MaxPk BY <1>2, FS_Subset
<1>4. Cardinality(exp) \in Nat /\ \A p \in exp : Rank(p) \in Nat /\ Rank(p) < Cardinality(exp) BY RankFacts
<1>5. QED BY <1>1, <1>3, <1>4 DEF NextShard

\* A page has the ranks from its start on, as many as it has entries; an empty one is
\* past the end.
LEMMA PageFacts ==
    ASSUME exp \in SUBSET Pks, NEW n \in Nat
    PROVE  /\ Page(n) \in SUBSET exp /\ Cardinality(Page(n)) \in Nat
           /\ \A p \in exp : Rank(p) < n + Cardinality(Page(n)) => (Rank(p) < n \/ p \in Page(n))
           /\ Page(n) = {} => \A p \in exp : Rank(p) < n
<1> DEFINE P == Page(n)
           T == n .. n + Batch - 1
           f == [p \in P |-> Rank(p)]
<1>0. Batch \in Nat /\ Batch > 0 BY IndexBuildAssumption
<1>1. P \in SUBSET exp BY DEF Page
<1>2. \A p \in P : Rank(p) \in T BY <1>0, <1>1, RankFacts DEF Page
<1>3. f \in Injection(P, T) BY <1>1, <1>2, RankFacts DEF Injection, IsInjective
<1>4. IsFiniteSet(T) /\ Cardinality(T) = Batch
  <2>1. n \in Int /\ n + Batch - 1 \in Int BY <1>0
  <2>2. /\ IsFiniteSet(T)
        /\ Cardinality(T) = IF n > n + Batch - 1 THEN 0 ELSE (n + Batch - 1) - n + 1
    BY <2>1, FS_Interval
  <2>3. (IF n > n + Batch - 1 THEN 0 ELSE (n + Batch - 1) - n + 1) = Batch BY <1>0
  <2>4. QED BY <2>2, <2>3
<1>5. IsFiniteSet(P) /\ Cardinality(P) <= Batch BY <1>3, <1>4, FS_Injection
<1>6. Cardinality(P) \in Nat BY <1>5, FS_CardinalityType
<1>7. ASSUME NEW p \in exp, Rank(p) < n + Cardinality(P) PROVE Rank(p) < n \/ p \in P
  <2>1. Rank(p) \in Nat BY RankFacts
  <2>2. Rank(p) < n + Batch BY <1>0, <1>5, <1>6, <1>7, <2>1
  <2>3. QED BY <2>1, <2>2 DEF Page
<1>8. ASSUME P = {}, NEW p \in exp PROVE Rank(p) < n
  <2>1. SUFFICES ASSUME ~(Rank(p) < n) PROVE FALSE OBVIOUS
  <2>2. n < Cardinality(exp) BY <2>1, RankFacts
  <2>3. PICK q \in exp : Rank(q) = n BY <2>2, RankOnto
  <2>4. q \in P BY <1>0, <2>3 DEF Page
  <2>5. QED BY <1>8, <2>4
<1>9. QED BY <1>1, <1>6, <1>7, <1>8

\* An insert does not lower a rank.
LEMMA RankGrows ==
    ASSUME exp \in SUBSET Pks, exp' \in SUBSET Pks, exp \subseteq exp', NEW p \in Pks
    PROVE  Rank(p) <= Rank(p)' /\ Rank(p)' \in Nat
<1>1. {q \in exp : q < p} \in SUBSET {q \in exp' : q < p} OBVIOUS
<1>2. IsFiniteSet({q \in exp' : q < p})
  <2>1. {q \in exp' : q < p} \in SUBSET Pks OBVIOUS
  <2>2. QED BY <2>1, PksFinite, FS_Subset
<1>3. QED BY <1>1, <1>2, FS_Subset, FS_CardinalityType DEF Rank

(***************************************************************************)
(* Types.                                                                  *)
(***************************************************************************)
LEMMA Literals ==
    /\ NoRow \in Rows /\ IdleW \in Stmts /\ IdleR \in Ticks
    /\ IdleW.pc = "idle" /\ IdleR.pc = "idle" /\ NoRow.ver = 0
BY IndexBuildAssumption DEF NoRow, IdleW, IdleR, Rows, Stmts, Ticks, Pks, Phases, Stamped

\* What a statement's segment adds is stamped.
LEMMA SegmentTypes ==
    ASSUME NEW w \in Stmts, w.op # "D" => w.val \in Values
    PROVE  /\ Redo(w) \in SUBSET Stamped
           /\ w.snap \in Rows /\ IvOf(w.snap) \in Nat /\ IvOf(w.snap) <= w.snap.ver
           /\ \A m \in Undo(w) : m = <<w.snap.val, w.pk, IvOf(w.snap)>>
           /\ \A m \in Redo(w) : m = <<w.val, w.pk, w.snap.ver + 1>>
<1>1. w.snap \in Rows /\ w.pk \in Pks /\ w.knows \in BOOLEAN BY DEF Stmts
<1>2. w.snap.ver \in Nat /\ w.snap.iv \in Nat /\ w.snap.iv <= w.snap.ver BY <1>1 DEF Rows
<1>3. QED BY <1>1, <1>2 DEF Redo, Undo, IvOf, Stamped

LEMMA TypeInit == Init => TypeOK
<1> SUFFICES ASSUME Init PROVE TypeOK OBVIOUS
<1>1. PICK v \in Values, n \in 0 .. MaxPk, s \in {"none", "visible"} :
          /\ row = [p \in Pks |-> IF p <= n THEN [ver |-> 1, val |-> v, iv |-> IF s = "none" THEN 0 ELSE 1] ELSE NoRow]
          /\ exp = 1 .. n
          /\ member = IF s = "none" THEN {} ELSE {<<v, p, 1>> : p \in exp}
          /\ cat = s
          /\ cached = [g \in Gateways |-> s # "none"]
  BY DEF Init
<1>2. row \in [Pks -> Rows]
  <2>1. [ver |-> 1, val |-> v, iv |-> 0] \in Rows /\ [ver |-> 1, val |-> v, iv |-> 1] \in Rows BY DEF Rows
  <2>2. QED BY <1>1, <2>1, Literals
<1>3. exp \in SUBSET Pks BY <1>1, IndexBuildAssumption DEF Pks
<1>4. member \in SUBSET Stamped BY <1>1, <1>3 DEF Stamped
<1>5. cached \in [Gateways -> BOOLEAN] BY <1>1
<1>6. wr \in [Gateways -> Stmts] /\ \A g \in Gateways : wr[g].pc = "idle" BY Literals DEF Init
<1>7. run \in [Leaders -> Ticks] BY Literals DEF Init
<1>8. cat \in Phases BY <1>1 DEF Phases
<1>9. job \in [on : BOOLEAN, cur : Nat] BY DEF Init, NoJob
<1>10. QED BY <1>2, <1>3, <1>4, <1>5, <1>6, <1>7, <1>8, <1>9 DEF Init, TypeOK, IdleD

LEMMA TypeStart ==
    ASSUME TypeOK, NEW g \in Gateways, NEW o \in {"W", "U", "D"}, NEW p \in Pks, NEW v \in Values \cup {None},
           o # "D" => v \in Values, Start(g, o, p, v)
    PROVE  TypeOK'
<1> DEFINE w == [pc |-> "lua", op |-> o, pk |-> p, val |-> v, knows |-> cached[g], snap |-> row[p]]
<1>1. row[p] \in Rows /\ cached[g] \in BOOLEAN BY DEF TypeOK
<1>2. w \in Stmts BY <1>1 DEF Stmts
<1>3. w.op = o /\ w.val = v OBVIOUS
<1>4. wr' = [wr EXCEPT ![g] = w] /\ wr[g].pc = "idle" /\ writes' = writes + 1 BY DEF Start
<1> HIDE DEF w
<1>5. wr' \in [Gateways -> Stmts] BY <1>2, <1>4 DEF TypeOK
<1>6. \A h \in Gateways : (wr'[h].pc # "idle" /\ wr'[h].op # "D") => wr'[h].val \in Values
  BY <1>3, <1>4 DEF TypeOK
<1>7. old' \subseteq {h \in Gateways : wr'[h].pc = "index"} BY <1>4 DEF TypeOK, Start, hist
<1>8. QED BY <1>4, <1>5, <1>6, <1>7 DEF TypeOK, Start, store, meta, hist

LEMMA TypeCommit == ASSUME TypeOK, NEW g \in Gateways, Commit(g) PROVE TypeOK'
<1>1. PICK w \in Stmts : w = wr[g] BY DEF TypeOK
<1>2. PICK r \in Rows : r = row[w.pk] BY <1>1 DEF TypeOK, Stmts
<1>3. w.pc = "lua" /\ w.pk \in Pks /\ (w.op # "D" => w.val \in Values) /\ w.knows \in BOOLEAN
  BY <1>1 DEF Commit, Stmts, TypeOK
<1>4. r.ver \in Nat /\ r.iv \in Nat /\ r.iv <= r.ver BY <1>2 DEF Rows
<1>5. CASE r.ver # w.snap.ver
  <2>1. wr' = [wr EXCEPT ![g] = IF w.op = "D" /\ r.ver = 0 THEN IdleW ELSE [w EXCEPT !.snap = r]]
    BY <1>1, <1>2, <1>5 DEF Commit
  <2>2. PICK y : y = [w EXCEPT !.snap = r] OBVIOUS
  <2>3. y \in Stmts /\ y.pc = "lua" /\ y.op = w.op /\ y.val = w.val BY <1>2, <1>3, <2>2 DEF Stmts
  <2>4. wr' \in [Gateways -> Stmts] BY <2>1, <2>2, <2>3, Literals DEF TypeOK
  <2>5. \A h \in Gateways : (wr'[h].pc # "idle" /\ wr'[h].op # "D") => wr'[h].val \in Values
    BY <1>3, <2>1, <2>2, <2>3, Literals DEF TypeOK
  <2>6. UNCHANGED <<row, blind, old, reborn, exp, member, meta, cached, ddl, run, bounds, shifted, stray>>
    BY <1>1, <1>2, <1>5 DEF Commit
  <2>7. old' \subseteq {h \in Gateways : wr'[h].pc = "index"} BY <1>1, <1>3, <2>1, <2>6 DEF TypeOK
  <2>8. QED BY <2>4, <2>5, <2>6, <2>7 DEF TypeOK, meta, bounds
<1>6. CASE r.ver = w.snap.ver
  <2>1. PICK y : y = [w EXCEPT !.pc = "index"] OBVIOUS
  <2>2. y \in Stmts /\ y.pc = "index" /\ y.op = w.op /\ y.val = w.val BY <1>1, <2>1 DEF Stmts
  <2>3. wr' = [wr EXCEPT ![g] = y] BY <1>1, <1>2, <1>6, <2>1 DEF Commit, TypeOK
  <2>4. wr' \in [Gateways -> Stmts] BY <2>2, <2>3 DEF TypeOK
  <2>5. \A h \in Gateways : (wr'[h].pc # "idle" /\ wr'[h].op # "D") => wr'[h].val \in Values
    BY <1>3, <2>2, <2>3 DEF TypeOK
  <2>6. PICK z : z = [ver |-> r.ver + 1, val |-> w.val,
                      iv |-> IF Maintains(w) /\ Changed(w) THEN r.ver + 1 ELSE r.iv] OBVIOUS
  <2>7. w.op # "D" => z \in Rows BY <1>3, <1>4, <2>6 DEF Rows
  <2>8. row' = [row EXCEPT ![w.pk] = IF w.op = "D" THEN NoRow ELSE z]
    BY <1>1, <1>2, <1>6, <2>6 DEF Commit
  <2>9. row' \in [Pks -> Rows] BY <2>7, <2>8, Literals DEF TypeOK
  <2>10. /\ UNCHANGED <<exp, member, meta, cached, ddl, run, bounds, shifted, stray>>
         /\ blind' = IF ~w.knows /\ cat # "none" THEN blind \cup {w.pk} ELSE blind
         /\ old' = IF r.ver = 0 THEN old \cup InFlight(w.pk) ELSE old
         /\ reborn' = IF w.snap # r THEN reborn \cup {w.pk} ELSE reborn
    BY <1>1, <1>2, <1>6 DEF Commit
  <2>11. blind' \in SUBSET Pks /\ reborn' \in SUBSET Pks BY <1>3, <2>10 DEF TypeOK
  <2>12. old' \subseteq {h \in Gateways : wr'[h].pc = "index"} BY <1>1, <1>3, <2>2, <2>3, <2>10 DEF TypeOK, InFlight
  <2>13. QED BY <2>4, <2>5, <2>9, <2>10, <2>11, <2>12 DEF TypeOK, meta, bounds
<1>7. QED BY <1>5, <1>6

LEMMA TypeSegment == ASSUME TypeOK, NEW g \in Gateways, IndexSegment(g) PROVE TypeOK'
<1>1. PICK w \in Stmts : w = wr[g] BY DEF TypeOK
<1>2. w.pc = "index" /\ w.pk \in Pks /\ (w.op # "D" => w.val \in Values) BY <1>1 DEF IndexSegment, Stmts, TypeOK
<1>3. /\ member' = (member \ Undo(w)) \cup Redo(w)
      /\ exp' = IF w.op = "D" THEN exp \ {w.pk} ELSE IF Registers(w) THEN exp \cup {w.pk} ELSE exp
      /\ shifted' = (shifted \/ (w.op = "D" /\ w.pk \in exp /\ job.on))
      /\ reborn' = IF Hits(g) THEN reborn \cup {w.pk} ELSE reborn
      /\ old' = old \ {g}
      /\ wr' = [wr EXCEPT ![g] = IdleW]
      /\ UNCHANGED <<row, meta, cached, ddl, run, bounds, blind, stray>>
  BY <1>1 DEF IndexSegment
<1>4. member' \in SUBSET Stamped BY <1>2, <1>3, SegmentTypes DEF TypeOK
<1>5. exp' \in SUBSET Pks /\ reborn' \in SUBSET Pks BY <1>2, <1>3 DEF TypeOK
<1>6. wr' \in [Gateways -> Stmts] BY <1>3, Literals DEF TypeOK
<1>7. \A h \in Gateways : (wr'[h].pc # "idle" /\ wr'[h].op # "D") => wr'[h].val \in Values
  BY <1>3, Literals DEF TypeOK
<1>8. old' \subseteq {h \in Gateways : wr'[h].pc = "index"} BY <1>3 DEF TypeOK
<1>9. shifted' \in BOOLEAN BY <1>3
<1>10. QED BY <1>3, <1>4, <1>5, <1>6, <1>7, <1>8, <1>9 DEF TypeOK, meta, bounds

LEMMA TypeRefresh == ASSUME TypeOK, NEW g \in Gateways, Refresh(g) PROVE TypeOK'
<1>1. cached' \in [Gateways -> BOOLEAN] BY DEF TypeOK, Refresh
<1>2. QED BY <1>1 DEF TypeOK, Refresh, store, meta, bounds, hist

LEMMA TypeDdl == ASSUME TypeOK, CreateIndex \/ DropIndex \/ DdlStep PROVE TypeOK'
<1>1. PICK d : d = ddl OBVIOUS
<1>2. d \in [pc : {"idle", "save", "count", "publish", "getjob", "setjob", "remove", "unlink"}, ver : Nat]
  BY <1>1 DEF TypeOK
<1>3. UNCHANGED <<row, exp, cached, wr, run, old, reborn, shifted>>
  BY DEF CreateIndex, DropIndex, DdlStep, SaveBuilding, CountRows, Publish, CheckJob, SetFirstJob, SaveRemoved, Unlink,
         store, meta, bounds, hist
<1>4. ddl' \in [pc : {"idle", "save", "count", "publish", "getjob", "setjob", "remove", "unlink"}, ver : Nat]
  BY <1>1, <1>2 DEF CreateIndex, DropIndex, DdlStep, SaveBuilding, CountRows, Publish, CheckJob, SetFirstJob, SaveRemoved,
         Unlink, DdlGoto, IdleD, TypeOK
<1>5. cat' \in Phases /\ catVer' \in Nat
  BY DEF CreateIndex, DropIndex, DdlStep, SaveBuilding, CountRows, Publish, CheckJob, SetFirstJob, SaveRemoved,
         Unlink, Save, Phases, meta, TypeOK
<1>6. job' \in [on : BOOLEAN, cur : Nat]
  <2>1. job' = job \/ job' = [on |-> TRUE, cur |-> 0]
    BY DEF CreateIndex, DropIndex, DdlStep, SaveBuilding, CountRows, Publish, CheckJob, SetFirstJob, SaveRemoved,
           Unlink, meta
  <2>2. [on |-> TRUE, cur |-> 0] \in [on : BOOLEAN, cur : Nat] OBVIOUS
  <2>3. QED BY <2>1, <2>2 DEF TypeOK
<1>7. member' \in SUBSET Stamped
  BY DEF CreateIndex, DropIndex, DdlStep, SaveBuilding, CountRows, Publish, CheckJob, SetFirstJob, SaveRemoved,
         Unlink, store, TypeOK
<1>8. writes' \in Nat /\ ddls' \in Nat
  BY DEF CreateIndex, DropIndex, DdlStep, SaveBuilding, CountRows, Publish, CheckJob, SetFirstJob, SaveRemoved,
         Unlink, bounds, TypeOK
<1>9. blind' \in SUBSET Pks
  BY DEF CreateIndex, DropIndex, DdlStep, SaveBuilding, CountRows, Publish, CheckJob, SetFirstJob, SaveRemoved,
         Unlink, hist, TypeOK
<1>10. stray' \in BOOLEAN
  BY DEF CreateIndex, DropIndex, DdlStep, SaveBuilding, CountRows, Publish, CheckJob, SetFirstJob, SaveRemoved,
         Unlink, hist, TypeOK
<1>11. QED BY <1>3, <1>4, <1>5, <1>6, <1>7, <1>8, <1>9, <1>10 DEF TypeOK

\* Only the leader that takes the step changes its locals.
LEMMA RunnerLocals ==
    ASSUME TypeOK, NEW l \in Leaders, RunnerStep(l)
    PROVE  \E r \in Ticks : run' = [run EXCEPT ![l] = r]
<1>1. PICK t \in Ticks : t = run[l] BY DEF TypeOK
<1>2. catVer \in Nat /\ cat \in Phases /\ job.cur \in Nat BY DEF TypeOK
<1>3. PICK r : run' = [run EXCEPT ![l] = r] /\
         \/ r = [IdleR EXCEPT !.pc = "scan", !.ver = catVer, !.has = cat, !.cur = job.cur]
         \/ r = [t EXCEPT !.pc = "finish"]
         \/ r = [t EXCEPT !.pc = "setjob", !.cur = NextShard]
         \/ \E ps \in SUBSET Pks, n \in Nat : r = [t EXCEPT !.pc = "rows", !.pks = ps, !.cur = t.cur + n]
         \/ r = [t EXCEPT !.pc = "zadd", !.rows = {<<row[p].val, p, row[p].ver>> : p \in {q \in t.pks : Live(q)}}]
         \/ r = [t EXCEPT !.pc = "setjob", !.rows = {}, !.pks = {}]
         \/ r = [t EXCEPT !.pc = "scan"]
         \/ r = IdleR
         \/ r = [t EXCEPT !.pc = "clear"]
  <2>1. CASE TakeJob(l) BY <1>1, <2>1 DEF TakeJob, Set
  <2>2. CASE ScanPage(l)
    <3>1. t.cur \in Nat BY DEF Ticks
    <3>2. exp \in SUBSET Pks BY DEF TypeOK
    <3>3. Page(t.cur) \in SUBSET Pks /\ Cardinality(Page(t.cur)) \in Nat BY <3>1, <3>2, PageFacts
    <3>4. QED BY <1>1, <2>2, <3>3 DEF ScanPage, Set
  <2>3. CASE ReadRows(l) BY <1>1, <2>3 DEF ReadRows, Set
  <2>4. CASE AddMembers(l) BY <1>1, <2>4 DEF AddMembers, Set
  <2>5. CASE StoreCursor(l) BY <1>1, <2>5 DEF StoreCursor, Set
  <2>6. CASE Finish(l) BY <1>1, <2>6 DEF Finish, Set
  <2>7. CASE ClearJob(l) BY <1>1, <2>7 DEF ClearJob, Set
  <2>8. QED BY <2>1, <2>2, <2>3, <2>4, <2>5, <2>6, <2>7 DEF RunnerStep
<1>4. {<<row[p].val, p, row[p].ver>> : p \in {q \in t.pks : Live(q)}} \in SUBSET Stamped
  <2>1. t.pks \in SUBSET Pks BY DEF Ticks
  <2>2. \A p \in Pks : Live(p) => row[p].val \in Values /\ row[p].ver \in Nat BY DEF TypeOK, Rows, Live
  <2>3. QED BY <2>1, <2>2 DEF Stamped
<1>5. r \in Ticks
  <2>1. ASSUME NEW ps \in SUBSET Pks, NEW n \in Nat, r = [t EXCEPT !.pc = "rows", !.pks = ps, !.cur = t.cur + n]
        PROVE r \in Ticks
    <3>1. PICK k \in Nat : k = t.cur + n BY DEF Ticks
    <3>2. r = [t EXCEPT !.pc = "rows", !.pks = ps, !.cur = k] BY <2>1, <3>1
    <3>3. QED BY <3>2 DEF Ticks
  <2>2. PICK R \in SUBSET Stamped : R = {<<row[p].val, p, row[p].ver>> : p \in {q \in t.pks : Live(q)}} BY <1>4
  <2>3. [t EXCEPT !.pc = "zadd", !.rows = R] \in Ticks BY DEF Ticks
  <2>4. [IdleR EXCEPT !.pc = "scan", !.ver = catVer, !.has = cat, !.cur = job.cur] \in Ticks
    BY <1>2, Literals DEF Ticks
  <2>5. /\ [t EXCEPT !.pc = "finish"] \in Ticks /\ [t EXCEPT !.pc = "scan"] \in Ticks /\ [t EXCEPT !.pc = "clear"] \in Ticks
        /\ [t EXCEPT !.pc = "setjob", !.rows = {}, !.pks = {}] \in Ticks
        /\ [t EXCEPT !.pc = "setjob", !.cur = NextShard] \in Ticks
    BY RankBelow DEF Ticks, TypeOK
  <2>6. QED BY <1>3, <2>1, <2>2, <2>3, <2>4, <2>5, Literals
<1>6. QED BY <1>3, <1>5

LEMMA TypeRunner == ASSUME TypeOK, NEW l \in Leaders, RunnerStep(l) PROVE TypeOK'
<1>1. PICK r \in Ticks : run' = [run EXCEPT ![l] = r] BY RunnerLocals
<1>2. run' \in [Leaders -> Ticks] BY <1>1 DEF TypeOK
<1>3. run[l].cur \in Nat /\ run[l].has \in Phases /\ run[l].rows \in SUBSET Stamped BY DEF TypeOK, Ticks
<1>4. UNCHANGED <<row, exp, cached, wr, ddl, bounds, hist>>
  BY DEF RunnerStep, TakeJob, ScanPage, ReadRows, AddMembers, StoreCursor, Finish, ClearJob, RunnerRest, store
<1>5. member' \in SUBSET Stamped
  BY <1>3 DEF RunnerStep, TakeJob, ScanPage, ReadRows, AddMembers, StoreCursor, Finish, ClearJob, store, TypeOK
<1>6. job' \in [on : BOOLEAN, cur : Nat]
  <2>1. job' = job \/ job' = [on |-> TRUE, cur |-> run[l].cur] \/ job' = [on |-> FALSE, cur |-> 0]
    BY DEF RunnerStep, TakeJob, ScanPage, ReadRows, AddMembers, StoreCursor, Finish, ClearJob, meta, NoJob
  <2>2. /\ [on |-> TRUE, cur |-> run[l].cur] \in [on : BOOLEAN, cur : Nat]
        /\ [on |-> FALSE, cur |-> 0] \in [on : BOOLEAN, cur : Nat]
    BY <1>3
  <2>3. QED BY <2>1, <2>2 DEF TypeOK
<1>7. cat' \in Phases /\ catVer' \in Nat
  BY <1>3 DEF RunnerStep, TakeJob, ScanPage, ReadRows, AddMembers, StoreCursor, Finish, ClearJob, meta, TypeOK, Save, Phases
<1>8. QED BY <1>2, <1>4, <1>5, <1>6, <1>7 DEF TypeOK, bounds, hist

LEMMA TypeStutter == ASSUME TypeOK, UNCHANGED vars PROVE TypeOK'
BY DEF TypeOK, vars

LEMMA TypeNext == ASSUME TypeOK, [Next]_vars PROVE TypeOK'
<1>1. ASSUME NEW g \in Gateways, NEW p \in Pks, Start(g, "D", p, None) PROVE TypeOK'
  BY <1>1, TypeStart
<1>2. ASSUME NEW g \in Gateways, NEW p \in Pks, NEW v \in Values, NEW o \in {"W", "U"}, Start(g, o, p, v) PROVE TypeOK'
  <2>1. o \in {"W", "U", "D"} /\ v \in Values \cup {None} OBVIOUS
  <2>2. QED BY <1>2, <2>1, TypeStart
<1>3. QED BY <1>1, <1>2, TypeRefresh, TypeCommit, TypeSegment, TypeDdl, TypeRunner, TypeStutter DEF Next

(***************************************************************************)
(* What the steps of statements do to the members of a row.                *)
(***************************************************************************)
LEMMA SameFlightsCarry ==
    ASSUME UNCHANGED row, member \subseteq member', blind \subseteq blind', reborn \subseteq reborn',
           Due' = Due, \A h \in Due : wr'[h] = wr[h]
    PROVE  Carries
<1>1. SUFFICES ASSUME NEW p \in Pks, Owed(p)'
      PROVE /\ Owed(p) /\ row'[p].val = row[p].val /\ (Held(p) => Held(p)')
            /\ \A m \in Stamped : (m[2] = p /\ Kept(m)) => Kept(m)'
  BY DEF Carries
<1>2. Owed(p) BY <1>1 DEF Owed, Live
<1>3. ASSUME NEW m \in Stamped PROVE (Kept(m) => Kept(m)') /\ (Coming(m) => Coming(m)')
  <2>1. \A h \in Due : Undo(wr[h])' = Undo(wr[h]) /\ Redo(wr[h])' = Redo(wr[h])
    BY DEF Undo, Redo, Maintains, Changed, IvOf
  <2>2. QED BY <2>1 DEF Kept, Coming
<1>4. QED BY <1>2, <1>3 DEF Held

LEMMA SegmentCarries ==
    ASSUME TypeOK, NEW g \in Gateways, IndexSegment(g)
    PROVE  Carries
<1>1. SUFFICES ASSUME NEW p \in Pks, Owed(p)'
      PROVE /\ Owed(p) /\ row'[p].val = row[p].val /\ (Held(p) => Held(p)')
            /\ \A m \in Stamped : (m[2] = p /\ Kept(m)) => Kept(m)'
  BY DEF Carries
<1>2. PICK w \in Stmts : w = wr[g] BY DEF TypeOK
<1>3. w.pc = "index" /\ (w.op # "D" => w.val \in Values) BY <1>2 DEF IndexSegment, TypeOK
<1>4. /\ member' = (member \ Undo(w)) \cup Redo(w)
      /\ reborn' = IF Hits(g) THEN reborn \cup {w.pk} ELSE reborn
      /\ old' = old \ {g}
      /\ wr' = [wr EXCEPT ![g] = IdleW]
      /\ UNCHANGED <<row, blind>>
  BY <1>2 DEF IndexSegment
<1>5. Owed(p) BY <1>1, <1>4 DEF Owed, Live
<1>6. Due' = Due \ {g} /\ \A h \in Due' : wr'[h] = wr[h]
  <2>1. \A h \in Gateways : wr'[h] = IF h = g THEN IdleW ELSE wr[h] BY <1>4 DEF TypeOK
  <2>2. QED BY <1>4, <2>1, Literals DEF Due
<1>7. \A h \in Due' : Undo(wr[h])' = Undo(wr[h]) /\ Redo(wr[h])' = Redo(wr[h])
  BY <1>6 DEF Undo, Redo, Maintains, Changed, IvOf
<1>8. ASSUME NEW m \in Stamped, Kept(m) PROVE Kept(m)' BY <1>6, <1>7, <1>8 DEF Kept
<1>9. ASSUME NEW m \in Stamped, m[1] = row[p].val, m[2] = p, Coming(m), Kept(m) PROVE Coming(m)'
  <2>1. CASE m \in member
    <3>1. CASE m \notin Undo(w) BY <1>4, <2>1, <3>1 DEF Coming
    <3>2. CASE m \in Undo(w)
      <4>1. g \notin Due BY <1>2, <1>9, <3>2 DEF Kept
      <4>2. g \in old BY <1>2, <1>3, <4>1 DEF Due
      <4>3. m = <<w.snap.val, w.pk, IvOf(w.snap)>> BY <1>3, <3>2, SegmentTypes
      <4>4. w.pk = p BY <1>9, <4>3
      <4>5. Live(p) BY <1>5 DEF Owed
      <4>6. Hits(g) BY <1>2, <1>9, <2>1, <3>2, <4>2, <4>4, <4>5 DEF Hits
      <4>7. p \in reborn' BY <1>4, <4>4, <4>6
      <4>8. QED BY <1>1, <4>7 DEF Owed
    <3>3. QED BY <3>1, <3>2
  <2>2. CASE \E h \in Due : m \in Redo(wr[h])
    <3>1. PICK h \in Due : m \in Redo(wr[h]) BY <2>2
    <3>2. CASE h = g BY <1>2, <1>4, <3>1, <3>2 DEF Coming
    <3>3. CASE h # g BY <1>6, <1>7, <3>1, <3>3 DEF Coming
    <3>4. QED BY <3>2, <3>3
  <2>3. QED BY <1>9, <2>1, <2>2 DEF Coming
<1>10. Held(p) => Held(p)' BY <1>4, <1>8, <1>9 DEF Held
<1>11. QED BY <1>4, <1>5, <1>8, <1>10

\* The commit that goes through, in one place.
LEMMA CommitDone ==
    ASSUME TypeOK, NEW g \in Gateways, Commit(g), row[wr[g].pk].ver = wr[g].snap.ver
    PROVE  \E w \in Stmts, r \in Rows, z \in Rows, y \in Stmts :
              /\ w = wr[g] /\ w.pc = "lua" /\ w.pk \in Pks /\ r = row[w.pk] /\ r.ver = w.snap.ver
              /\ w.op # "D" => w.val \in Values
              /\ y.pc = "index" /\ y.op = w.op /\ y.pk = w.pk /\ y.val = w.val /\ y.knows = w.knows /\ y.snap = w.snap
              /\ wr' = [wr EXCEPT ![g] = y]
              /\ row' = [row EXCEPT ![w.pk] = z]
              /\ IF w.op = "D" THEN z = NoRow ELSE z.ver = r.ver + 1 /\ z.val = w.val
              /\ blind' = IF ~w.knows /\ cat # "none" THEN blind \cup {w.pk} ELSE blind
              /\ old' = IF r.ver = 0 THEN old \cup InFlight(w.pk) ELSE old
              /\ reborn' = IF w.snap # r THEN reborn \cup {w.pk} ELSE reborn
              /\ UNCHANGED <<exp, member, meta, cached, ddl, run, bounds, shifted, stray>>
<1>1. PICK w \in Stmts : w = wr[g] BY DEF TypeOK
<1>2. PICK r \in Rows : r = row[w.pk] BY <1>1 DEF TypeOK, Stmts
<1>3. w.pc = "lua" /\ w.pk \in Pks /\ (w.op # "D" => w.val \in Values) /\ r.ver = w.snap.ver
  BY <1>1, <1>2 DEF Commit, Stmts, TypeOK
<1>4. r.ver \in Nat /\ r.iv \in Nat /\ r.iv <= r.ver BY <1>2 DEF Rows
<1>5. PICK y : y = [w EXCEPT !.pc = "index"] OBVIOUS
<1>6. y \in Stmts /\ y.pc = "index" /\ y.op = w.op /\ y.pk = w.pk /\ y.val = w.val /\ y.knows = w.knows /\ y.snap = w.snap
  BY <1>1, <1>5 DEF Stmts
<1>7. wr' = [wr EXCEPT ![g] = y] BY <1>1, <1>2, <1>3, <1>5 DEF Commit, TypeOK
<1>8. PICK z : z = IF w.op = "D" THEN NoRow
                   ELSE [ver |-> r.ver + 1, val |-> w.val, iv |-> IF Maintains(w) /\ Changed(w) THEN r.ver + 1 ELSE r.iv]
  OBVIOUS
<1>9. z \in Rows /\ (IF w.op = "D" THEN z = NoRow ELSE z.ver = r.ver + 1 /\ z.val = w.val)
  BY <1>3, <1>4, <1>8, Literals DEF Rows
<1>10. row' = [row EXCEPT ![w.pk] = z] BY <1>1, <1>2, <1>3, <1>8 DEF Commit
<1>11. /\ UNCHANGED <<exp, member, meta, cached, ddl, run, bounds, shifted, stray>>
       /\ blind' = IF ~w.knows /\ cat # "none" THEN blind \cup {w.pk} ELSE blind
       /\ old' = IF r.ver = 0 THEN old \cup InFlight(w.pk) ELSE old
       /\ reborn' = IF w.snap # r THEN reborn \cup {w.pk} ELSE reborn
  BY <1>1, <1>2, <1>3 DEF Commit
<1>12. QED BY <1>1, <1>2, <1>3, <1>6, <1>7, <1>9, <1>10, <1>11

LEMMA CommitCarries ==
    ASSUME TypeOK, Flights, NEW g \in Gateways, Commit(g), row[wr[g].pk].ver = wr[g].snap.ver, cat # "none"
    PROVE  Carries
<1>0. PICK w \in Stmts, r \in Rows, z \in Rows, y \in Stmts :
              /\ w = wr[g] /\ w.pc = "lua" /\ w.pk \in Pks /\ r = row[w.pk] /\ r.ver = w.snap.ver
              /\ w.op # "D" => w.val \in Values
              /\ y.pc = "index" /\ y.op = w.op /\ y.pk = w.pk /\ y.val = w.val /\ y.knows = w.knows /\ y.snap = w.snap
              /\ wr' = [wr EXCEPT ![g] = y]
              /\ row' = [row EXCEPT ![w.pk] = z]
              /\ IF w.op = "D" THEN z = NoRow ELSE z.ver = r.ver + 1 /\ z.val = w.val
              /\ blind' = IF ~w.knows /\ cat # "none" THEN blind \cup {w.pk} ELSE blind
              /\ old' = IF r.ver = 0 THEN old \cup InFlight(w.pk) ELSE old
              /\ reborn' = IF w.snap # r THEN reborn \cup {w.pk} ELSE reborn
              /\ UNCHANGED <<exp, member, meta, cached, ddl, run, bounds, shifted, stray>>
  BY CommitDone
<1>1. /\ \A h \in Gateways : wr'[h] = IF h = g THEN y ELSE wr[h]
      /\ \A q \in Pks : row'[q] = IF q = w.pk THEN z ELSE row[q]
      /\ \A h \in Gateways : wr[h] \in Stmts
  BY <1>0 DEF TypeOK
<1>2. g \notin old /\ g \notin Due BY <1>0 DEF TypeOK, Due
<1>3. /\ g \in Due' /\ \A h \in Due' : h # g => (h \in Due /\ wr'[h] = wr[h] /\ (wr[h].pk = w.pk => r.ver # 0))
      /\ \A h \in Due : (wr[h].pk # w.pk \/ r.ver # 0) => (h # g /\ h \in Due' /\ wr'[h] = wr[h])
  BY <1>0, <1>1, <1>2 DEF Due, InFlight
<1>4. \A h \in Gateways : h # g => (Undo(wr[h])' = Undo(wr[h]) /\ Redo(wr[h])' = Redo(wr[h]))
  BY <1>1 DEF Undo, Redo, Maintains, Changed, IvOf
<1>5. Undo(wr[g])' = Undo(y) /\ Redo(wr[g])' = Redo(y)
  BY <1>1 DEF Undo, Redo, Maintains, Changed, IvOf
<1>6. SUFFICES ASSUME NEW p \in Pks, Owed(p)'
      PROVE \/ Held(p)'
            \/ /\ Owed(p) /\ row'[p].val = row[p].val /\ (Held(p) => Held(p)')
               /\ \A m \in Stamped : (m[2] = p /\ Kept(m)) => Kept(m)'
  BY DEF Carries
<1>7. \A h \in Gateways : /\ \A m \in Undo(wr[h]) : m[2] = wr[h].pk
                          /\ \A m \in Redo(wr[h]) : m[2] = wr[h].pk
  BY DEF Undo, Redo
<1>8. ASSUME p # w.pk \/ (~Changed(w) /\ Live(w.pk))
      PROVE /\ \A m \in Stamped : (m[2] = p /\ Kept(m)) => Kept(m)'
            /\ \A m \in Stamped : (m[2] = p /\ Coming(m)) => Coming(m)'
  <2>1. ASSUME NEW m \in Stamped, m[2] = p, Kept(m) PROVE Kept(m)'
    <3>1. ASSUME NEW h \in Due' PROVE m \notin Undo(wr[h])'
      <4>1. CASE h # g BY <1>3, <1>4, <2>1, <4>1, <3>1 DEF Kept, Due
      <4>2. CASE h = g
        <5>1. p # w.pk => m \notin Undo(y) BY <1>0, <2>1 DEF Undo
        <5>2. ~Changed(w) => Undo(y) = {} BY <1>0 DEF Undo, Changed
        <5>3. QED BY <1>5, <1>8, <4>2, <5>1, <5>2
      <4>3. QED BY <4>1, <4>2
    <3>2. QED BY <3>1 DEF Kept
  <2>2. ASSUME NEW m \in Stamped, m[2] = p, Coming(m) PROVE Coming(m)'
    <3>1. CASE m \in member BY <1>0, <3>1 DEF Coming
    <3>2. CASE \E h \in Due : m \in Redo(wr[h])
      <4>1. PICK h \in Due : m \in Redo(wr[h]) BY <3>2
      <4>2. h \in Gateways BY DEF Due
      <4>3. wr[h].pk = p BY <1>7, <2>2, <4>1, <4>2
      <4>4. wr[h].pk # w.pk \/ r.ver # 0 BY <1>0, <1>8, <4>3 DEF Live
      <4>5. h # g /\ h \in Due' BY <1>3, <4>1, <4>4
      <4>6. m \in Redo(wr[h])' BY <1>4, <4>1, <4>2, <4>5
      <4>7. QED BY <4>5, <4>6 DEF Coming
    <3>3. QED BY <2>2, <3>1, <3>2 DEF Coming
  <2>3. QED BY <2>1, <2>2
<1>9. CASE p # w.pk
  <2>1. row'[p] = row[p] BY <1>1, <1>9
  <2>2. Owed(p) BY <1>0, <1>6, <1>9, <2>1 DEF Owed, Live
  <2>3. Held(p) => Held(p)' BY <1>8, <1>9, <2>1 DEF Held
  <2>4. QED BY <1>8, <1>9, <2>1, <2>2, <2>3
<1>10. CASE p = w.pk
  <2>1. row'[p] = z BY <1>1, <1>10
  <2>2. w.op # "D" /\ z.val = w.val /\ z.ver = r.ver + 1 /\ w.val \in Values
    BY <1>0, <1>6, <2>1, Literals DEF Owed, Live
  <2>3. w.knows /\ w.snap = r BY <1>0, <1>6, <1>10 DEF Owed
  <2>4. r.ver \in Nat /\ r.iv \in Nat BY DEF Rows
  <2>5. CASE Changed(w)
    <3>1. PICK m : m = <<w.val, p, r.ver + 1>> OBVIOUS
    <3>2. m \in Stamped /\ m[1] = row'[p].val /\ m[2] = p BY <2>1, <2>2, <2>4, <3>1 DEF Stamped
    <3>3. m \in Redo(y) BY <1>0, <1>10, <2>2, <2>3, <2>5, <3>1 DEF Redo, Maintains, Changed
    <3>4. Coming(m)' BY <1>3, <1>5, <3>3 DEF Coming
    <3>5. ASSUME NEW h \in Due' PROVE m \notin Undo(wr[h])'
      <4>1. CASE h = g
        <5>1. w.snap.val # w.val BY <2>2, <2>5 DEF Changed
        <5>2. m \notin Undo(y) BY <1>0, <3>1, <5>1 DEF Undo
        <5>3. QED BY <1>5, <4>1, <5>2
      <4>2. CASE h # g
        <5>1. h \in Due /\ h \in Gateways /\ h \notin old /\ wr[h].pc = "index" BY <1>3, <3>5, <4>2 DEF Due
        <5>2. SUFFICES ASSUME m \in Undo(wr[h]) PROVE FALSE BY <1>4, <4>2, <5>1
        <5>3. PICK x \in Stmts : x = wr[h] BY <1>1, <5>1
        <5>4. x.op # "D" => x.val \in Values BY <5>1, <5>3 DEF TypeOK
        <5>5. m = <<x.snap.val, x.pk, IvOf(x.snap)>> /\ IvOf(x.snap) \in Nat /\ IvOf(x.snap) <= x.snap.ver
          BY <5>2, <5>3, <5>4, SegmentTypes
        <5>6. x.pk = w.pk /\ IvOf(x.snap) = r.ver + 1 BY <1>10, <3>1, <5>5
        <5>7. r.ver # 0 BY <1>3, <3>5, <4>2, <5>3, <5>6
        <5>8. Live(x.pk) /\ x.snap.ver < r.ver
          <6>1. Live(x.pk) BY <1>0, <2>4, <5>6, <5>7 DEF Live
          <6>2. QED BY <1>0, <5>1, <5>3, <5>6, <6>1 DEF Flights
        <5>9. x.snap.ver \in Nat BY DEF Stmts, Rows
        <5>10. QED BY <2>4, <5>5, <5>6, <5>8, <5>9
      <4>3. QED BY <4>1, <4>2
    <3>6. Kept(m)' BY <3>5 DEF Kept
    <3>7. QED BY <3>2, <3>4, <3>6 DEF Held
  <2>6. CASE ~Changed(w)
    <3>1. r.val = w.val BY <2>2, <2>3, <2>6 DEF Changed
    <3>2. r.ver > 0 BY <2>2, <3>1 DEF Rows
    <3>3. Live(p) BY <1>0, <1>10, <3>2 DEF Live
    <3>4. Owed(p) BY <1>0, <1>6, <2>3, <3>3 DEF Owed
    <3>5. row'[p].val = row[p].val BY <1>0, <1>10, <2>1, <2>2, <3>1
    <3>6. Held(p) => Held(p)' BY <1>8, <1>10, <2>6, <3>3, <3>5 DEF Held
    <3>7. QED BY <1>8, <1>10, <2>6, <3>3, <3>4, <3>5, <3>6
  <2>7. QED BY <2>5, <2>6
<1>11. QED BY <1>9, <1>10

(***************************************************************************)
(* Statements under way and the register.                                  *)
(***************************************************************************)
LEMMA FlightsInit == Init => Flights /\ Registered /\ Loaded /\ Backfill
<1> SUFFICES ASSUME Init PROVE Flights /\ Registered /\ Loaded /\ Backfill OBVIOUS
<1>0. TypeOK BY TypeInit
<1>1. PICK v \in Values, n \in 0 .. MaxPk, s \in {"none", "visible"} :
          /\ row = [p \in Pks |-> IF p <= n THEN [ver |-> 1, val |-> v, iv |-> IF s = "none" THEN 0 ELSE 1] ELSE NoRow]
          /\ exp = 1 .. n
          /\ member = IF s = "none" THEN {} ELSE {<<v, p, 1>> : p \in exp}
          /\ cat = s
  BY DEF Init
<1>2. \A g \in Gateways : wr[g].pc = "idle" BY Literals DEF Init
<1>3. Due = {} BY <1>2 DEF Due
<1>4. \A p \in Pks : (Live(p) => p \in exp /\ row[p].val = v)
  BY <1>1, Literals, IndexBuildAssumption DEF Live, Pks
<1>5. Flights BY <1>2 DEF Flights
<1>6. Registered BY <1>4 DEF Registered
<1>7. ddl.pc = "idle" /\ ddl.ver = 0 /\ catVer = 1 /\ ~job.on /\ \A l \in Leaders : run[l].pc = "idle"
  BY Literals DEF Init, IdleD, NoJob
<1>8. Loaded BY <1>7 DEF Loaded, Creating
<1>9. Turns BY <1>7 DEF Turns, Creating, Busy
<1>10. cat # "none" => Done
  <2>1. SUFFICES ASSUME cat # "none", NEW p \in Pks, Live(p) PROVE Held(p) BY DEF Done, Safe, Owed
  <2>2. PICK m : m = <<v, p, 1>> OBVIOUS
  <2>3. m \in Stamped /\ m[1] = row[p].val /\ m[2] = p BY <1>4, <2>1, <2>2 DEF Stamped
  <2>4. m \in member BY <1>1, <1>4, <2>1, <2>2
  <2>5. QED BY <1>3, <2>3, <2>4 DEF Held, Coming, Kept
<1>11. Outside BY <1>10 DEF Outside, Done
<1>12. Published BY <1>7, <1>10 DEF Published
<1>13. Walked BY <1>7 DEF Walked, Busy
<1>14. QED BY <1>5, <1>6, <1>8, <1>9, <1>11, <1>12, <1>13 DEF Backfill

LEMMA SameFlightsShape ==
    ASSUME TypeOK, Flights, Registered, UNCHANGED <<row, exp, old, reborn>>, Due' = Due, \A h \in Due : wr'[h] = wr[h],
           \A h \in Gateways : wr'[h].pc = "index" => wr'[h] = wr[h],
           blind \subseteq blind', cat' # "none" => (cat # "none" \/ \A h \in Gateways : wr[h].pc = "index" => wr[h].pk \in blind')
    PROVE  Flights' /\ Registered'
<1>1. Flights' BY DEF Flights, Live
<1>2. Registered' BY DEF Registered, Live, Registers
<1>3. QED BY <1>1, <1>2

LEMMA SegmentShape ==
    ASSUME TypeOK, Flights, Registered, NEW g \in Gateways, IndexSegment(g)
    PROVE  Flights' /\ Registered'
<1>1. PICK w \in Stmts : w = wr[g] BY DEF TypeOK
<1>2. w.pc = "index" /\ w.pk \in Pks BY <1>1 DEF IndexSegment, Stmts
<1>3. /\ exp' = IF w.op = "D" THEN exp \ {w.pk} ELSE IF Registers(w) THEN exp \cup {w.pk} ELSE exp
      /\ reborn' = IF Hits(g) THEN reborn \cup {w.pk} ELSE reborn
      /\ old' = old \ {g}
      /\ wr' = [wr EXCEPT ![g] = IdleW]
      /\ UNCHANGED <<row, blind, cat>>
  BY <1>1 DEF IndexSegment, meta
<1>4. \A h \in Gateways : wr'[h] = IF h = g THEN IdleW ELSE wr[h] BY <1>3 DEF TypeOK
<1>5. Due' = Due \ {g} BY <1>3, <1>4, Literals DEF Due
<1>6. Flights' BY <1>3, <1>4, Literals DEF Flights, Live
<1>7. ASSUME NEW p \in Pks, Live(p)', p \notin reborn'
      PROVE p \in exp' \/ \E h \in Due' : wr'[h].pk = p /\ Registers(wr[h])'
  <2>1. Live(p) /\ p \notin reborn BY <1>3, <1>7 DEF Live
  <2>2. CASE p \in exp
    <3>1. CASE w.op = "D" /\ w.pk = p
      <4>1. g \in old BY <1>1, <1>2, <2>1, <3>1 DEF Flights
      <4>2. Hits(g) BY <1>1, <2>1, <2>2, <3>1, <4>1 DEF Hits
      <4>3. QED BY <1>3, <1>7, <3>1, <4>2
    <3>2. CASE ~(w.op = "D" /\ w.pk = p) BY <1>3, <2>2, <3>2
    <3>3. QED BY <3>1, <3>2
  <2>3. CASE p \notin exp
    <3>1. PICK h \in Due : wr[h].pk = p /\ Registers(wr[h]) BY <2>1, <2>3 DEF Registered
    <3>2. CASE h = g
      <4>1. Registers(w) /\ w.pk = p /\ w.op # "D" BY <1>1, <3>1, <3>2 DEF Registers
      <4>2. QED BY <1>3, <4>1
    <3>3. CASE h # g
      <4>1. h \in Due' /\ wr'[h] = wr[h] BY <1>4, <1>5, <3>3 DEF Due
      <4>2. Registers(wr[h])' BY <3>1, <4>1 DEF Registers
      <4>3. QED BY <3>1, <4>1, <4>2
    <3>4. QED BY <3>2, <3>3
  <2>4. QED BY <2>2, <2>3
<1>8. Registered' BY <1>7 DEF Registered
<1>9. QED BY <1>6, <1>8

LEMMA CommitShape ==
    ASSUME TypeOK, Flights, Registered, NEW g \in Gateways, Commit(g), row[wr[g].pk].ver = wr[g].snap.ver
    PROVE  Flights' /\ Registered'
<1>0. PICK w \in Stmts, r \in Rows, z \in Rows, y \in Stmts :
              /\ w = wr[g] /\ w.pc = "lua" /\ w.pk \in Pks /\ r = row[w.pk] /\ r.ver = w.snap.ver
              /\ w.op # "D" => w.val \in Values
              /\ y.pc = "index" /\ y.op = w.op /\ y.pk = w.pk /\ y.val = w.val /\ y.knows = w.knows /\ y.snap = w.snap
              /\ wr' = [wr EXCEPT ![g] = y]
              /\ row' = [row EXCEPT ![w.pk] = z]
              /\ IF w.op = "D" THEN z = NoRow ELSE z.ver = r.ver + 1 /\ z.val = w.val
              /\ blind' = IF ~w.knows /\ cat # "none" THEN blind \cup {w.pk} ELSE blind
              /\ old' = IF r.ver = 0 THEN old \cup InFlight(w.pk) ELSE old
              /\ reborn' = IF w.snap # r THEN reborn \cup {w.pk} ELSE reborn
              /\ UNCHANGED <<exp, member, meta, cached, ddl, run, bounds, shifted, stray>>
  BY CommitDone
<1>1. /\ \A h \in Gateways : wr'[h] = IF h = g THEN y ELSE wr[h]
      /\ \A q \in Pks : row'[q] = IF q = w.pk THEN z ELSE row[q]
      /\ \A h \in Gateways : wr[h] \in Stmts /\ wr[h].pk \in Pks /\ wr[h].snap.ver \in Nat
  BY <1>0 DEF TypeOK, Stmts, Rows
<1>2. g \notin old /\ r.ver \in Nat BY <1>0 DEF TypeOK, Rows
<1>3. cat' = cat /\ exp' = exp BY <1>0 DEF meta
<1>4. ASSUME NEW h \in Gateways, wr'[h].pc = "index"
      PROVE /\ (h \notin old' /\ row'[wr'[h].pk].ver > 0) => (wr'[h].op # "D" /\ wr'[h].snap.ver < row'[wr'[h].pk].ver)
            /\ (~wr'[h].knows /\ cat' # "none") => wr'[h].pk \in blind'
  <2>1. CASE h = g
    <3>1. wr'[h] = y BY <1>1, <2>1
    <3>2. row'[y.pk] = z BY <1>0, <1>1
    <3>3. z.ver > 0 => (w.op # "D" /\ w.snap.ver < z.ver) BY <1>0, <1>2, Literals
    <3>4. QED BY <1>0, <1>3, <3>1, <3>2, <3>3 DEF Live
  <2>2. CASE h # g
    <3>1. wr'[h] = wr[h] /\ wr[h].pc = "index" BY <1>1, <1>4, <2>2
    <3>2. (~wr'[h].knows /\ cat' # "none") => wr'[h].pk \in blind' BY <1>0, <1>3, <3>1 DEF Flights
    <3>3. ASSUME h \notin old', row'[wr[h].pk].ver > 0 PROVE wr[h].op # "D" /\ wr[h].snap.ver < row'[wr[h].pk].ver
      <4>1. CASE wr[h].pk # w.pk BY <1>0, <1>1, <3>1, <3>3, <4>1 DEF Flights, Live
      <4>2. CASE wr[h].pk = w.pk
        <5>1. r.ver # 0 BY <1>0, <3>1, <3>3, <4>2 DEF InFlight
        <5>2. h \notin old /\ Live(w.pk) BY <1>0, <1>2, <3>3, <5>1 DEF Live
        <5>3. wr[h].op # "D" /\ wr[h].snap.ver < r.ver BY <1>0, <3>1, <4>2, <5>2 DEF Flights
        <5>4. row'[wr[h].pk] = z /\ z.ver = r.ver + 1 BY <1>0, <1>1, <3>3, <4>2, Literals
        <5>5. QED BY <1>1, <1>2, <5>3, <5>4
      <4>3. QED BY <4>1, <4>2
    <3>4. QED BY <3>1, <3>2, <3>3 DEF Live
  <2>3. QED BY <2>1, <2>2
<1>5. Flights' BY <1>4 DEF Flights, Live
<1>6. ASSUME NEW p \in Pks, Live(p)', p \notin reborn'
      PROVE p \in exp' \/ \E h \in Due' : wr'[h].pk = p /\ Registers(wr[h])'
  <2>1. g \in Due' BY <1>0, <1>1, <1>2 DEF Due, InFlight
  <2>2. CASE p = w.pk /\ r.ver = 0
    <3>1. w.op # "D" BY <1>0, <1>1, <1>6, <2>2, Literals DEF Live
    <3>2. y.op \in {"W", "U", "D"} BY DEF Stmts
    <3>3. wr'[g] = y /\ y.op \in {"W", "U"} /\ y.snap.ver = 0
      <4>1. wr'[g] = y BY <1>1
      <4>2. y.op \in {"W", "U"} BY <1>0, <3>1, <3>2
      <4>3. y.snap.ver = 0 BY <1>0, <2>2
      <4>4. QED BY <4>1, <4>2, <4>3
    <3>5. Registers(wr[g])' BY <3>3 DEF Registers
    <3>6. QED BY <1>0, <1>1, <2>1, <2>2, <3>5
  <2>3. CASE ~(p = w.pk /\ r.ver = 0)
    <3>1. Live(p) /\ p \notin reborn BY <1>0, <1>1, <1>2, <1>6, <2>3 DEF Live
    <3>2. CASE p \in exp BY <1>3, <3>2
    <3>3. CASE p \notin exp
      <4>1. PICK h \in Due : wr[h].pk = p /\ Registers(wr[h]) BY <3>1, <3>3 DEF Registered
      <4>2. h # g /\ h \in Gateways BY <1>0 DEF Due
      <4>3. h \in Due' /\ wr'[h] = wr[h] BY <1>0, <1>1, <2>3, <4>1, <4>2 DEF Due, InFlight
      <4>4. Registers(wr[h])' BY <4>1, <4>3 DEF Registers
      <4>5. QED BY <4>1, <4>3, <4>4
    <3>4. QED BY <3>2, <3>3
  <2>4. QED BY <2>2, <2>3
<1>7. Registered' BY <1>6 DEF Registered
<1>8. QED BY <1>5, <1>7

(***************************************************************************)
(* The backfill.                                                           *)
(***************************************************************************)
LEMMA SafeCarries == ASSUME Carries, NEW p \in Pks, Safe(p) PROVE Safe(p)'
BY DEF Carries, Safe

LEMMA HandCarries ==
    ASSUME Carries, NEW l \in Leaders, NEW p \in Pks, run'[l] = run[l], Owed(p) => Held(p) \/ InHand(l, p)
    PROVE  Owed(p)' => Held(p)' \/ InHand(l, p)'
<1>1. SUFFICES ASSUME Owed(p)', ~Held(p)' PROVE InHand(l, p)' OBVIOUS
<1>2. /\ Owed(p) /\ row'[p].val = row[p].val /\ (Held(p) => Held(p)')
      /\ \A m \in Stamped : (m[2] = p /\ Kept(m)) => Kept(m)'
  BY <1>1 DEF Carries
<1>3. InHand(l, p) BY <1>1, <1>2
<1>4. CASE run[l].pc = "rows" /\ p \in run[l].pks BY <1>4 DEF InHand
<1>5. CASE run[l].pc = "zadd" /\ \E m \in Stamped : m[1] = row[p].val /\ m[2] = p /\ m \in run[l].rows /\ Kept(m)
  <2>1. PICK m \in Stamped : m[1] = row[p].val /\ m[2] = p /\ m \in run[l].rows /\ Kept(m) BY <1>5
  <2>2. Kept(m)' BY <1>2, <2>1
  <2>3. QED BY <1>2, <1>5, <2>1, <2>2 DEF InHand
<1>6. QED BY <1>3, <1>4, <1>5 DEF InHand

\* A statement's step that leaves the register alone.
LEMMA StatementBackfill ==
    ASSUME TypeOK, Backfill, cat # "none" => Carries, UNCHANGED <<exp, cat, catVer, job, ddl, run>>
    PROVE  Backfill'
<1>1. Turns' BY DEF Backfill, Turns, Creating, Busy
<1>2. \A p \in Pks : Rank(p)' = Rank(p) BY DEF Rank
<1>3. Outside' BY SafeCarries DEF Backfill, Outside
<1>4. Published'
  <2>1. SUFFICES ASSUME cat = "visible" \/ ddl.pc = "publish" PROVE Done' BY DEF Published
  <2>2. cat # "none" /\ Done BY <2>1 DEF Backfill, Published, Turns, Creating
  <2>3. QED BY <2>2, SafeCarries DEF Done
<1>5. ASSUME NEW p \in Pks, job.on, p \in exp, Rank(p) < job.cur PROVE Safe(p)'
  <2>1. Safe(p) /\ cat # "none" BY <1>5 DEF Backfill, Walked, Turns
  <2>2. QED BY <2>1, SafeCarries
<1>6. ASSUME NEW l \in Leaders, NEW p \in Pks, Busy(l), Owed(p)', (p \in exp /\ Rank(p) < run[l].cur) \/ run[l].pc = "finish"
      PROVE Held(p)' \/ InHand(l, p)'
  <2>1. cat # "none" /\ (Owed(p) => Held(p) \/ InHand(l, p)) BY <1>6 DEF Backfill, Walked, Turns
  <2>2. QED BY <1>6, <2>1, HandCarries
<1>7. Walked' BY <1>2, <1>5, <1>6 DEF Walked, Busy
<1>8. QED BY <1>1, <1>3, <1>4, <1>7 DEF Backfill

LEMMA SegmentBackfill ==
    ASSUME TypeOK, TypeOK', Flights, Backfill, NEW g \in Gateways, IndexSegment(g), ~shifted'
    PROVE  Backfill'
<1>1. PICK w \in Stmts : w = wr[g] BY DEF TypeOK
<1>2. w.pc = "index" /\ w.pk \in Pks BY <1>1 DEF IndexSegment, Stmts
<1>3. /\ exp' = IF w.op = "D" THEN exp \ {w.pk} ELSE IF Registers(w) THEN exp \cup {w.pk} ELSE exp
      /\ shifted' = (shifted \/ (w.op = "D" /\ w.pk \in exp /\ job.on))
      /\ reborn' = IF Hits(g) THEN reborn \cup {w.pk} ELSE reborn
      /\ UNCHANGED <<cat, catVer, job, ddl, run, row>>
  BY <1>1 DEF IndexSegment, meta
<1>4. Carries BY SegmentCarries
<1>5. Turns' BY <1>3 DEF Backfill, Turns, Creating, Busy
<1>6. Outside'
  <2>1. SUFFICES ASSUME cat # "none", NEW p \in Pks, p \notin exp' PROVE Safe(p)' BY <1>3 DEF Outside
  <2>2. CASE p \notin exp BY <1>4, <2>1, <2>2, SafeCarries DEF Backfill, Outside
  <2>3. CASE p \in exp
    <3>1. w.op = "D" /\ w.pk = p BY <1>3, <2>1, <2>3
    <3>2. SUFFICES ASSUME Owed(p)' PROVE FALSE BY DEF Safe
    <3>3. Live(p) BY <1>3, <3>2 DEF Owed, Live
    <3>4. g \in old BY <1>1, <1>2, <3>1, <3>3 DEF Flights
    <3>5. Hits(g) BY <1>1, <2>3, <3>1, <3>3, <3>4 DEF Hits
    <3>6. QED BY <1>3, <3>1, <3>2, <3>5 DEF Owed
  <2>4. QED BY <2>2, <2>3
<1>7. Published' BY <1>3, <1>4, SafeCarries DEF Backfill, Published, Done
<1>8. CASE w.op = "D" /\ w.pk \in exp
  <2>1. ~job.on BY <1>3, <1>8
  <2>2. ASSUME NEW l \in Leaders, Busy(l) PROVE Done'
    BY <1>3, <1>7, <2>1, <2>2 DEF Backfill, Turns, Published
  <2>3. Walked' BY <1>3, <2>1, <2>2 DEF Walked, Busy, Done, Safe
  <2>4. QED BY <1>5, <1>6, <1>7, <2>3 DEF Backfill
<1>9. CASE ~(w.op = "D" /\ w.pk \in exp)
  <2>1. exp \subseteq exp' BY <1>3, <1>9
  <2>2. \A p \in Pks : Rank(p) \in Nat /\ Rank(p)' \in Nat /\ Rank(p) <= Rank(p)'
    <3>1. exp \in SUBSET Pks /\ exp' \in SUBSET Pks BY DEF TypeOK
    <3>2. \A p \in Pks : Rank(p) <= Rank(p)' /\ Rank(p)' \in Nat BY <2>1, <3>1, RankGrows
    <3>3. \A p \in Pks : Rank(p) \in Nat BY <3>1, RankFacts
    <3>4. QED BY <3>2, <3>3
  <2>3. ASSUME NEW p \in Pks, job.on, p \in exp', Rank(p)' < job.cur PROVE Safe(p)'
    <3>1. job.cur \in Nat BY DEF TypeOK
    <3>2. CASE p \in exp
      <4>1. Rank(p) < job.cur BY <2>2, <2>3, <3>1
      <4>2. QED BY <1>4, <2>3, <3>2, <4>1, SafeCarries DEF Backfill, Walked
    <3>3. CASE p \notin exp BY <1>4, <2>3, <3>3, SafeCarries DEF Backfill, Outside, Turns
    <3>4. QED BY <3>2, <3>3
  <2>4. ASSUME NEW l \in Leaders, NEW p \in Pks, Busy(l), Owed(p)', (p \in exp' /\ Rank(p)' < run[l].cur) \/ run[l].pc = "finish"
        PROVE Held(p)' \/ InHand(l, p)'
    <3>1. run[l].cur \in Nat BY DEF TypeOK, Ticks
    <3>2. CASE p \in exp \/ run[l].pc = "finish"
      <4>1. (p \in exp /\ Rank(p) < run[l].cur) \/ run[l].pc = "finish" BY <2>2, <2>4, <3>1, <3>2
      <4>2. Owed(p) => Held(p) \/ InHand(l, p) BY <2>4, <4>1 DEF Backfill, Walked
      <4>3. QED BY <1>3, <1>4, <2>4, <4>2, HandCarries
    <3>3. CASE p \notin exp
      <4>1. cat # "none" BY <2>4 DEF Backfill, Turns
      <4>2. Safe(p)' BY <1>4, <3>3, <4>1, SafeCarries DEF Backfill, Outside
      <4>3. QED BY <2>4, <4>2 DEF Safe
    <3>4. QED BY <3>2, <3>3
  <2>5. Walked' BY <1>3, <2>3, <2>4 DEF Walked, Busy
  <2>6. QED BY <1>5, <1>6, <1>7, <2>5 DEF Backfill
<1>10. QED BY <1>8, <1>9

(***************************************************************************)
(* The DDL session.                                                        *)
(***************************************************************************)
LEMMA DdlFrame ==
    ASSUME CreateIndex \/ DropIndex \/ DdlStep
    PROVE  UNCHANGED <<row, exp, cached, wr, run, old, reborn, shifted>>
BY DEF CreateIndex, DropIndex, DdlStep, SaveBuilding, CountRows, Publish, CheckJob, SetFirstJob, SaveRemoved, Unlink,
       store, meta, bounds, hist

LEMMA DdlShape ==
    ASSUME TypeOK, Flights, Registered, Loaded, CreateIndex \/ DropIndex \/ DdlStep
    PROVE  Flights' /\ Registered'
<1>1. UNCHANGED <<row, exp, wr, old, reborn>> BY DdlFrame
<1>2. Due' = Due BY <1>1 DEF Due
<1>3. blind \subseteq blind'
  BY DEF CreateIndex, DropIndex, DdlStep, SaveBuilding, CountRows, Publish, CheckJob, SetFirstJob, SaveRemoved, Unlink, hist
<1>4. cat' # "none" => (cat # "none" \/ \A h \in Gateways : wr[h].pc = "index" => wr[h].pk \in blind')
  <2>1. CASE SaveBuilding
    <3>1. \A h \in Gateways : wr[h].pc = "index" => wr[h].pk \in {p \in Pks : InFlight(p) # {}}
      BY DEF TypeOK, Stmts, InFlight
    <3>2. QED BY <2>1, <3>1 DEF SaveBuilding
  <2>2. CASE Publish BY <2>2 DEF Publish, DdlAt, Loaded, Creating
  <2>3. CASE ~SaveBuilding /\ ~Publish
    <3>1. cat' = cat \/ cat' = "none"
      BY <2>3 DEF CreateIndex, DropIndex, DdlStep, CountRows, CheckJob, SetFirstJob, SaveRemoved, Unlink, Save, meta
    <3>2. QED BY <3>1
  <2>4. QED BY <2>1, <2>2, <2>3
<1>5. QED BY <1>1, <1>2, <1>3, <1>4, SameFlightsShape

LEMMA DdlLoaded ==
    ASSUME TypeOK, Loaded, CreateIndex \/ DropIndex \/ DdlStep
    PROVE  Loaded'
<1>0. catVer \in Nat /\ ddl.ver \in Nat /\ \A l \in Leaders : run[l].ver \in Nat BY DEF TypeOK, Ticks
<1>1. run' = run BY DdlFrame
<1>2. CASE UNCHANGED <<cat, catVer>>
  <2>1. ddl'.ver <= catVer'
    BY <1>0, <1>2 DEF CreateIndex, DropIndex, DdlStep, SaveBuilding, CountRows, Publish, CheckJob, SetFirstJob,
       SaveRemoved, Unlink, IdleD, DdlGoto, Loaded, TypeOK, Save
  <2>2. ddl'.pc = "save" => cat' = "none"
    BY <1>2 DEF CreateIndex, DropIndex, DdlStep, SaveBuilding, CountRows, Publish, CheckJob, SetFirstJob,
       SaveRemoved, Unlink, IdleD, DdlGoto, TypeOK
  <2>3. ddl'.pc = "unlink" => cat' = "none"
    BY <1>0, <1>2 DEF CreateIndex, DropIndex, DdlStep, SaveBuilding, CountRows, Publish, CheckJob, SetFirstJob,
       SaveRemoved, Unlink, IdleD, DdlGoto, TypeOK, Save
  <2>4. (Creating' /\ catVer' = ddl'.ver) => cat' = "building"
    BY <1>0, <1>2 DEF CreateIndex, DropIndex, DdlStep, SaveBuilding, CountRows, Publish, CheckJob, SetFirstJob,
       SaveRemoved, Unlink, IdleD, DdlGoto, DdlAt, Loaded, Creating, TypeOK, Save
  <2>5. QED BY <1>1, <1>2, <2>1, <2>2, <2>3, <2>4 DEF Loaded
<1>3. CASE ~UNCHANGED <<cat, catVer>>
  <2>1. /\ catVer' = catVer + 1
        /\ ddl'.pc \in {"count", "idle", "unlink"} /\ (ddl'.pc = "unlink" => cat' = "none")
        /\ ddl'.pc = "count" => cat' = "building"
        /\ ddl'.ver <= catVer + 1
    BY <1>0, <1>3 DEF CreateIndex, DropIndex, DdlStep, SaveBuilding, CountRows, Publish, CheckJob, SetFirstJob,
       SaveRemoved, Unlink, IdleD, DdlGoto, Loaded, TypeOK, Save, meta
  <2>2. QED BY <1>0, <1>1, <2>1 DEF Loaded, Creating
<1>4. QED BY <1>2, <1>3

LEMMA DdlCarries ==
    ASSUME TypeOK, CreateIndex \/ DropIndex \/ DdlStep, ~Unlink
    PROVE  Carries
<1>1. UNCHANGED <<row, exp, wr, old, reborn>> BY DdlFrame
<1>2. member' = member
  BY DEF CreateIndex, DropIndex, DdlStep, SaveBuilding, CountRows, Publish, CheckJob, SetFirstJob, SaveRemoved, store
<1>3. blind \subseteq blind'
  BY DEF CreateIndex, DropIndex, DdlStep, SaveBuilding, CountRows, Publish, CheckJob, SetFirstJob, SaveRemoved, hist
<1>4. Due' = Due BY <1>1 DEF Due
<1>5. QED BY <1>1, <1>2, <1>3, <1>4, SameFlightsCarry

\* What a step of the session leaves to show when jobs and leaders are where they were.
LEMMA DdlBackfill ==
    ASSUME TypeOK, Backfill, Carries, UNCHANGED <<exp, run>>, Turns', cat' # "none",
           cat # "none" \/ (~job.on /\ \A l \in Leaders : ~Busy(l)),
           \/ job' = job
           \/ job'.cur = 0,
           cat # "none" \/ Outside',
           Published'
    PROVE  Backfill'
<1>1. \A p \in Pks : Rank(p)' = Rank(p) /\ Rank(p) \in Nat BY RankFacts DEF Rank, TypeOK
<1>2. Outside' BY SafeCarries DEF Backfill, Outside
<1>3. ASSUME NEW p \in Pks, job'.on, p \in exp, Rank(p) < job'.cur PROVE Safe(p)'
  <2>1. Safe(p) BY <1>1, <1>3 DEF Backfill, Walked
  <2>2. QED BY <2>1, SafeCarries
<1>4. ASSUME NEW l \in Leaders, NEW p \in Pks, Busy(l), Owed(p)', (p \in exp /\ Rank(p) < run[l].cur) \/ run[l].pc = "finish"
      PROVE Held(p)' \/ InHand(l, p)'
  <2>1. Owed(p) => Held(p) \/ InHand(l, p) BY <1>4 DEF Backfill, Walked
  <2>2. QED BY <1>4, <2>1, HandCarries
<1>5. Walked' BY <1>1, <1>3, <1>4 DEF Walked, Busy
<1>6. QED BY <1>2, <1>5 DEF Backfill

\* No index, no job, nobody at it: there is nothing to show.
LEMMA NoIndexBackfill ==
    ASSUME Turns, cat' = "none", ~job'.on, \A l \in Leaders : run'[l].pc = "idle", ~(Creating'), ddl'.pc # "publish"
    PROVE  Backfill'
<1>1. Turns' BY DEF Turns, Busy
<1>2. Outside' /\ Published' BY DEF Outside, Published
<1>3. Walked' BY DEF Walked, Busy
<1>4. QED BY <1>1, <1>2, <1>3 DEF Backfill

LEMMA CreateBackfill == ASSUME TypeOK, Backfill, CreateIndex PROVE Backfill'
<1>1. cat' = "none" /\ job' = job /\ run' = run /\ ddl'.pc = "save" BY DEF CreateIndex, meta
<1>2. ~job.on /\ \A l \in Leaders : run[l].pc = "idle" BY <1>1 DEF Backfill, Turns, Busy, CreateIndex
<1>3. Turns BY DEF Backfill
<1>4. QED BY <1>1, <1>2, <1>3, NoIndexBackfill DEF Creating

\* A step of the session that leaves catalogue and job alone and ends the statement.
LEMMA IdleBackfill ==
    ASSUME TypeOK, Backfill, Carries, UNCHANGED <<exp, run, cat, job>>, ddl'.pc \in {"idle", "remove"}
    PROVE  Backfill'
<1>1. Turns' BY DEF Backfill, Turns, Creating, Busy
<1>2. CASE cat = "none"
  <2>1. ~job.on /\ \A l \in Leaders : run[l].pc = "idle" BY <1>2 DEF Backfill, Turns, Busy
  <2>2. QED BY <1>2, <2>1, NoIndexBackfill DEF Creating, Backfill
<1>3. CASE cat # "none"
  <2>1. Published' BY SafeCarries DEF Backfill, Published, Done
  <2>2. QED BY <1>1, <1>3, <2>1, DdlBackfill
<1>4. QED BY <1>2, <1>3

LEMMA SaveBuildingBackfill == ASSUME TypeOK, Registered, Loaded, Backfill, SaveBuilding PROVE Backfill'
<1>0. Carries
  <2>1. ~Unlink BY DEF SaveBuilding, Unlink, DdlAt
  <2>2. QED BY <2>1, DdlCarries DEF DdlStep
<1>1. UNCHANGED <<exp, run, job, row, wr, old, reborn>> BY DEF SaveBuilding, store, TypeOK
<1>2. CASE catVer # ddl.ver
  <2>1. UNCHANGED cat /\ ddl'.pc = "idle" BY <1>2 DEF SaveBuilding, IdleD
  <2>2. QED BY <1>0, <1>1, <2>1, IdleBackfill
<1>3. CASE catVer = ddl.ver
  <2>1. cat' = "building" /\ ddl'.pc = "count" /\ blind' = blind \cup {p \in Pks : InFlight(p) # {}}
    BY <1>3 DEF SaveBuilding, Save
  <2>2. cat = "none" BY <1>3 DEF SaveBuilding, DdlAt, Loaded
  <2>3. ~job.on /\ \A l \in Leaders : ~Busy(l) BY <2>2 DEF Backfill, Turns
  <2>4. Turns' BY <1>1, <2>1, <2>3 DEF Turns, Creating, Busy
  <2>5. Published' BY <2>1 DEF Published
  <2>6. Outside'
    <3>1. SUFFICES ASSUME NEW p \in Pks, p \notin exp, Owed(p)' PROVE FALSE BY <1>1 DEF Outside, Safe
    <3>2. Live(p) /\ p \notin reborn /\ InFlight(p) = {} BY <1>1, <2>1, <3>1 DEF Owed, Live
    <3>3. QED BY <3>1, <3>2 DEF Registered, Due, InFlight
  <2>7. QED BY <1>0, <1>1, <2>1, <2>3, <2>4, <2>5, <2>6, DdlBackfill
<1>4. QED BY <1>2, <1>3

LEMMA SessionBackfill ==
    ASSUME TypeOK, Backfill, CountRows \/ Publish \/ CheckJob \/ SetFirstJob
    PROVE  Backfill'
<1>0. Carries
  <2>1. ~Unlink BY DEF CountRows, Publish, CheckJob, SetFirstJob, Unlink, DdlAt
  <2>2. QED BY <2>1, DdlCarries DEF DdlStep
<1>1. UNCHANGED <<exp, run>> BY DEF CountRows, Publish, CheckJob, SetFirstJob, store
<1>2. cat = "building" /\ ~job.on /\ \A l \in Leaders : ~Busy(l)
  BY DEF CountRows, Publish, CheckJob, SetFirstJob, DdlAt, Backfill, Turns, Creating
<1>3. PICK d : d = ddl OBVIOUS
<1>4. CASE CountRows
  <2>1. UNCHANGED <<cat, job>> BY <1>4 DEF CountRows, meta
  <2>2. ddl'.pc = "getjob" \/ (ddl'.pc = "publish" /\ blind' = blind \cup exp) BY <1>4 DEF CountRows, DdlGoto, TypeOK
  <2>3. Turns' BY <1>1, <1>2, <2>1 DEF Turns, Busy
  <2>4. ASSUME blind' = blind \cup exp, NEW p \in Pks PROVE Safe(p)'
    <3>1. CASE p \in exp BY <2>4, <3>1 DEF Safe, Owed
    <3>2. CASE p \notin exp BY <1>0, <1>2, <3>2, SafeCarries DEF Backfill, Outside
    <3>3. QED BY <3>1, <3>2
  <2>5. Published' BY <1>2, <2>1, <2>2, <2>4 DEF Published, Done
  <2>6. QED BY <1>0, <1>1, <1>2, <2>1, <2>3, <2>5, DdlBackfill
<1>5. CASE Publish
  <2>1. UNCHANGED job /\ ddl'.pc = "idle" /\ cat' \in {"building", "visible"} BY <1>2, <1>5 DEF Publish, IdleD, Save
  <2>2. Turns' BY <1>1, <1>2, <2>1 DEF Turns, Busy, Creating
  <2>3. Done BY <1>5 DEF Publish, DdlAt, Backfill, Published
  <2>4. Published' BY <1>0, <2>3, SafeCarries DEF Published, Done
  <2>5. QED BY <1>0, <1>1, <1>2, <2>1, <2>2, <2>4, DdlBackfill
<1>6. CASE CheckJob
  <2>1. UNCHANGED <<cat, job>> BY <1>6 DEF CheckJob, meta
  <2>2. ddl'.pc = "setjob" BY <1>2, <1>6 DEF CheckJob, DdlGoto, TypeOK
  <2>3. Turns' BY <1>1, <1>2, <2>1 DEF Turns, Busy
  <2>4. Published' BY <1>2, <2>1, <2>2 DEF Published
  <2>5. QED BY <1>0, <1>1, <1>2, <2>1, <2>3, <2>4, DdlBackfill
<1>7. CASE SetFirstJob
  <2>1. UNCHANGED cat /\ job'.cur = 0 /\ ddl'.pc = "idle" BY <1>7 DEF SetFirstJob, IdleD
  <2>2. Turns' BY <1>1, <1>2, <2>1 DEF Turns, Busy, Creating
  <2>3. Published' BY <1>2, <2>1 DEF Published
  <2>4. QED BY <1>0, <1>1, <1>2, <2>1, <2>2, <2>3, DdlBackfill
<1>8. QED BY <1>4, <1>5, <1>6, <1>7

LEMMA DropBackfill ==
    ASSUME TypeOK, Loaded, Backfill, DropIndex \/ SaveRemoved \/ Unlink, ~stray'
    PROVE  Backfill'
<1>1. CASE Unlink
  <2>1. cat' = cat /\ job' = job /\ run' = run /\ ddl'.pc = "idle" /\ cat = "none"
    BY <1>1 DEF Unlink, meta, IdleD, DdlAt, Loaded
  <2>2. ~job.on /\ \A l \in Leaders : run[l].pc = "idle" BY <2>1 DEF Backfill, Turns, Busy
  <2>3. QED BY <2>1, <2>2, NoIndexBackfill DEF Creating, Backfill
<1>2. CASE SaveRemoved /\ catVer = ddl.ver
  <2>1. cat' = "none" /\ job' = job /\ run' = run /\ ddl'.pc = "unlink" BY <1>2 DEF SaveRemoved, Save, DdlGoto, TypeOK
  <2>2. ~job.on /\ \A l \in Leaders : run[l].pc = "idle" BY <1>2 DEF SaveRemoved
  <2>3. QED BY <2>1, <2>2, NoIndexBackfill DEF Creating, Backfill
<1>3. CASE DropIndex \/ (SaveRemoved /\ catVer # ddl.ver)
  <2>1. ~Unlink BY <1>3 DEF DropIndex, SaveRemoved, Unlink, DdlAt
  <2>2. Carries BY <1>3, <2>1, DdlCarries DEF DdlStep
  <2>3. UNCHANGED <<exp, run, cat, job>> /\ ddl'.pc \in {"idle", "remove"}
    BY <1>3 DEF DropIndex, SaveRemoved, store, meta, IdleD
  <2>4. QED BY <2>2, <2>3, IdleBackfill
<1>4. QED BY <1>1, <1>2, <1>3

(***************************************************************************)
(* The job runner.                                                         *)
(***************************************************************************)
LEMMA RunnerFrame ==
    ASSUME TypeOK, NEW l \in Leaders, RunnerStep(l)
    PROVE  /\ UNCHANGED <<row, exp, wr, ddl, blind, shifted, stray, old, reborn>>
           /\ member \subseteq member' /\ \A k \in Leaders : k # l => run'[k] = run[k]
           /\ Carries
<1>1. UNCHANGED <<row, exp, cached, wr, ddl, bounds, hist>> /\ member \subseteq member'
  BY DEF RunnerStep, TakeJob, ScanPage, ReadRows, AddMembers, StoreCursor, Finish, ClearJob, RunnerRest, store
<1>2. \A k \in Leaders : k # l => run'[k] = run[k] BY RunnerLocals DEF TypeOK
<1>3. Due' = Due BY <1>1 DEF Due, hist
<1>4. Carries BY <1>1, <1>3, SameFlightsCarry DEF hist
<1>5. QED BY <1>1, <1>2, <1>4 DEF hist

LEMMA RunnerShape ==
    ASSUME TypeOK, Flights, Registered, Loaded, NEW l \in Leaders, RunnerStep(l)
    PROVE  Flights' /\ Registered' /\ Loaded'
<1>1. /\ UNCHANGED <<row, exp, wr, ddl, blind, old, reborn>>
      /\ \A k \in Leaders : k # l => run'[k] = run[k]
  BY RunnerFrame
<1>2. Due' = Due BY <1>1 DEF Due
<1>3. catVer \in Nat /\ ddl.ver \in Nat /\ (\A k \in Leaders : run[k].ver \in Nat) /\ run[l] \in Ticks BY DEF TypeOK, Ticks
<1>4. \/ UNCHANGED <<cat, catVer>>
      \/ run[l].pc = "finish" /\ run[l].ver = catVer /\ catVer' = catVer + 1
         /\ cat' = IF run[l].has = "building" THEN "visible" ELSE run[l].has
  BY DEF RunnerStep, TakeJob, ScanPage, ReadRows, AddMembers, StoreCursor, Finish, ClearJob, meta, Save, At
<1>5. cat = "none" => cat' = "none" BY <1>4 DEF Loaded
<1>6. Flights' /\ Registered' BY <1>1, <1>2, <1>5, SameFlightsShape
<1>7. run'[l].pc # "idle" => /\ run'[l].ver <= catVer'
                             /\ run'[l].ver = catVer' => run'[l].has = cat'
  <2>1. PICK t \in Ticks : t = run[l] BY <1>3
  <2>2. CASE TakeJob(l)
    <3>1. run'[l] = [IdleR EXCEPT !.pc = "scan", !.ver = catVer, !.has = cat, !.cur = job.cur]
      BY <2>2 DEF TakeJob, Set, TypeOK
    <3>2. run'[l].ver = catVer /\ run'[l].has = cat BY <3>1 DEF IdleR
    <3>3. UNCHANGED <<cat, catVer>> BY <2>2 DEF TakeJob, meta
    <3>4. QED BY <1>3, <3>2, <3>3
  <2>3. CASE ~TakeJob(l)
    <3>1. t.pc # "idle" /\ (run'[l].pc # "idle" => (run'[l].ver = t.ver /\ run'[l].has = t.has))
      <4>1. t.pc # "idle"
        BY <2>1, <2>3 DEF RunnerStep, ScanPage, ReadRows, AddMembers, StoreCursor, Finish, ClearJob, At
      <4>2. CASE ScanPage(l)
        <5>1. PICK P, n : P = Page(t.cur) /\ n = t.cur + Cardinality(P) OBVIOUS
        <5>2. PICK x, y, z : /\ x = [t EXCEPT !.pc = "finish"] /\ y = [t EXCEPT !.pc = "setjob", !.cur = NextShard]
                             /\ z = [t EXCEPT !.pc = "rows", !.pks = P, !.cur = n]
          OBVIOUS
        <5>3. x.ver = t.ver /\ x.has = t.has /\ y.ver = t.ver /\ y.has = t.has /\ z.ver = t.ver /\ z.has = t.has
          BY <5>2 DEF Ticks
        <5>4. run'[l] = x \/ run'[l] = y \/ run'[l] = z BY <2>1, <4>2, <5>1, <5>2 DEF ScanPage, Set, TypeOK
        <5>5. QED BY <4>1, <5>3, <5>4
      <4>3. CASE ReadRows(l)
        <5>1. PICK q : q = {<<row[p].val, p, row[p].ver>> : p \in {x \in t.pks : Live(x)}} OBVIOUS
        <5>2. PICK y : y = [t EXCEPT !.pc = "zadd", !.rows = q] OBVIOUS
        <5>3. y.ver = t.ver /\ y.has = t.has BY <5>2 DEF Ticks
        <5>4. run'[l] = y BY <2>1, <4>3, <5>1, <5>2 DEF ReadRows, Set, TypeOK
        <5>5. QED BY <4>1, <5>3, <5>4 DEF IdleR
      <4>4. CASE AddMembers(l)
        <5>1. t = run[l] BY <2>1
        <5>2. PICK y : y = [t EXCEPT !.pc = "setjob", !.rows = {}, !.pks = {}] OBVIOUS
        <5>3. y.ver = t.ver /\ y.has = t.has BY <5>2 DEF Ticks
        <5>4. run'[l] = y BY <2>1, <4>4, <5>1, <5>2 DEF AddMembers, Set, TypeOK
        <5>5. QED BY <4>1, <5>3, <5>4 DEF IdleR
      <4>5. CASE StoreCursor(l)
        <5>1. t = run[l] BY <2>1
        <5>2. PICK y : y = [t EXCEPT !.pc = "scan"] OBVIOUS
        <5>3. y.ver = t.ver /\ y.has = t.has BY <5>2 DEF Ticks
        <5>4. run'[l] = y \/ run'[l] = IdleR BY <2>1, <4>5, <5>1, <5>2 DEF StoreCursor, Set, TypeOK
        <5>5. QED BY <4>1, <5>3, <5>4 DEF IdleR
      <4>6. CASE Finish(l)
        <5>1. t = run[l] BY <2>1
        <5>2. PICK y : y = [t EXCEPT !.pc = "clear"] OBVIOUS
        <5>3. y.ver = t.ver /\ y.has = t.has BY <5>2 DEF Ticks
        <5>4. run'[l] = y \/ run'[l] = IdleR BY <2>1, <4>6, <5>1, <5>2 DEF Finish, Set, TypeOK
        <5>5. QED BY <4>1, <5>3, <5>4 DEF IdleR
      <4>7. CASE ClearJob(l)
        <5>1. run'[l] = IdleR BY <2>1, <4>7 DEF ClearJob, Set, TypeOK
        <5>2. QED BY <4>1, <5>1 DEF IdleR
      <4>8. (run'[l].pc # "idle" => (run'[l].ver = t.ver /\ run'[l].has = t.has))
        BY <2>3, <4>2, <4>3, <4>4, <4>5, <4>6, <4>7 DEF RunnerStep
      <4>9. QED BY <4>1, <4>8
    <3>2. t.ver <= catVer /\ (t.ver = catVer => t.has = cat) BY <2>1, <3>1 DEF Loaded
    <3>3. QED BY <1>3, <1>4, <2>1, <3>1, <3>2
  <2>4. QED BY <2>2, <2>3
<1>8. \A k \in Leaders : (k # l /\ run[k].pc # "idle") => (run[k].ver <= catVer' /\ (run[k].ver = catVer' => run[k].has = cat'))
  BY <1>3, <1>4 DEF Loaded
<1>9. ddl.ver <= catVer' /\ (catVer' = ddl.ver => UNCHANGED cat) BY <1>3, <1>4 DEF Loaded
<1>10. (catVer' = ddl.ver => catVer = ddl.ver) BY <1>3, <1>4 DEF Loaded
<1>11. Loaded' BY <1>1, <1>5, <1>7, <1>8, <1>9, <1>10 DEF Loaded, Creating
<1>12. QED BY <1>6, <1>11

\* What a step of leader l leaves to show: the other leaders and the rows outside the
\* register keep what they have.
LEMMA RunnerBackfill ==
    ASSUME TypeOK, Backfill, NEW l \in Leaders, RunnerStep(l), Turns', cat' # "none", cat' = "visible" => Done',
           \A p \in Pks : (job'.on /\ p \in exp /\ Rank(p) < job'.cur) => Safe(p),
           \A p \in Pks : (run'[l].pc # "idle" /\ Owed(p) /\ ((p \in exp /\ Rank(p) < run'[l].cur) \/ run'[l].pc = "finish"))
                            => Held(p)' \/ InHand(l, p)',
           cat # "none"
    PROVE  Backfill'
<1>1. /\ UNCHANGED <<row, exp, wr, ddl, blind, shifted, stray, old, reborn>>
      /\ \A k \in Leaders : k # l => run'[k] = run[k]
      /\ Carries
  BY RunnerFrame
<1>2. \A p \in Pks : Rank(p)' = Rank(p) BY <1>1 DEF Rank
<1>3. \A p \in Pks : Owed(p)' = Owed(p) BY <1>1 DEF Owed, Live
<1>4. Outside' BY <1>1, SafeCarries DEF Backfill, Outside
<1>5. Published' BY <1>1, SafeCarries DEF Backfill, Published, Done
<1>6. \A p \in Pks : (job'.on /\ p \in exp /\ Rank(p) < job'.cur) => Safe(p)' BY <1>1, SafeCarries
<1>7. ASSUME NEW k \in Leaders, k # l, NEW p \in Pks, Busy(k), Owed(p)', (p \in exp /\ Rank(p) < run[k].cur) \/ run[k].pc = "finish"
      PROVE Held(p)' \/ InHand(k, p)'
  <2>1. Owed(p) => Held(p) \/ InHand(k, p) BY <1>7 DEF Backfill, Walked
  <2>2. QED BY <1>1, <1>7, <2>1, HandCarries
<1>8. ASSUME NEW k \in Leaders, NEW p \in Pks, Busy(k)', Owed(p)', (p \in exp' /\ Rank(p)' < run'[k].cur) \/ run'[k].pc = "finish"
      PROVE Held(p)' \/ InHand(k, p)'
  <2>1. CASE k = l BY <1>1, <1>2, <1>3, <1>8, <2>1 DEF Busy
  <2>2. CASE k # l
    <3>1. run'[k] = run[k] BY <1>1, <2>2
    <3>2. Busy(k) BY <1>8, <3>1 DEF Busy
    <3>3. QED BY <1>1, <1>2, <1>7, <1>8, <2>2, <3>1, <3>2
  <2>3. QED BY <2>1, <2>2
<1>9. Walked' BY <1>1, <1>2, <1>6, <1>8 DEF Walked
<1>10. QED BY <1>4, <1>5, <1>9 DEF Backfill

\* The same for the steps between which the leader keeps the job and the catalogue.
LEMMA WalkBackfill ==
    ASSUME TypeOK, Backfill, NEW l \in Leaders, RunnerStep(l), UNCHANGED <<cat, job>>, run'[l].pc # "clear", Busy(l) \/ job.on,
           \A p \in Pks : (run'[l].pc # "idle" /\ Owed(p) /\ ((p \in exp /\ Rank(p) < run'[l].cur) \/ run'[l].pc = "finish"))
                            => Held(p)' \/ InHand(l, p)'
    PROVE  Backfill'
<1>1. UNCHANGED ddl /\ (\A k \in Leaders : k # l => run'[k] = run[k]) /\ Carries BY RunnerFrame
<1>2. cat # "none" /\ (job.on \/ cat = "visible") BY DEF Backfill, Turns
<1>3. ~Creating
  <2>1. SUFFICES ASSUME Creating PROVE FALSE OBVIOUS
  <2>2. QED BY <2>1 DEF Backfill, Turns
<1>4. Turns'
  <2>1. ~(Creating') BY <1>1, <1>3 DEF Creating
  <2>2. \A k \in Leaders : run'[k].pc = "clear" => cat = "visible" BY <1>1 DEF Backfill, Turns
  <2>3. QED BY <1>2, <2>1, <2>2 DEF Turns
<1>5. cat' = "visible" => Done' BY <1>1, SafeCarries DEF Backfill, Published, Done
<1>6. \A p \in Pks : (job'.on /\ p \in exp /\ Rank(p) < job'.cur) => Safe(p) BY DEF Backfill, Walked
<1>7. QED BY <1>2, <1>4, <1>5, <1>6, RunnerBackfill

LEMMA TakeJobBackfill == ASSUME TypeOK, Backfill, NEW l \in Leaders, TakeJob(l) PROVE Backfill'
<1>1. RunnerStep(l) BY DEF RunnerStep
<1>2. Carries BY <1>1, RunnerFrame
<1>3. run'[l] = [IdleR EXCEPT !.pc = "scan", !.ver = catVer, !.has = cat, !.cur = job.cur] /\ job.on
  BY DEF TakeJob, Set, TypeOK
<1>4. run'[l].pc = "scan" /\ run'[l].cur = job.cur BY <1>3 DEF IdleR
<1>5. UNCHANGED <<cat, job>> BY DEF TakeJob, meta
<1>6. ASSUME NEW p \in Pks, Owed(p), p \in exp, Rank(p) < job.cur PROVE Held(p)'
  <2>1. Safe(p)' BY <1>2, <1>3, <1>6, SafeCarries DEF Backfill, Walked
  <2>2. UNCHANGED <<row, blind, reborn>> BY <1>1, RunnerFrame
  <2>3. QED BY <1>6, <2>1, <2>2 DEF Safe, Owed, Live
<1>7. QED BY <1>1, <1>3, <1>4, <1>5, <1>6, WalkBackfill

\* Rows that have their member keep it in a step of a leader.
LEMMA RunnerHolds == ASSUME TypeOK, NEW l \in Leaders, RunnerStep(l), NEW p \in Pks, Held(p), Owed(p) PROVE Held(p)'
<1>1. Carries /\ UNCHANGED <<row, blind, reborn>> BY RunnerFrame
<1>2. Owed(p)' BY <1>1 DEF Owed, Live
<1>3. QED BY <1>1, <1>2 DEF Carries

LEMMA ScanPageBackfill == ASSUME TypeOK, Backfill, NEW l \in Leaders, ScanPage(l) PROVE Backfill'
<1>1. RunnerStep(l) BY DEF RunnerStep
<1>2. PICK t \in Ticks : t = run[l] BY DEF TypeOK
<1>3. t.pc = "scan" /\ t.cur \in Nat /\ exp \in SUBSET Pks BY <1>2 DEF ScanPage, At, Ticks, TypeOK
<1>4. Busy(l) /\ UNCHANGED <<cat, job>> BY <1>2, <1>3 DEF Busy, ScanPage, meta
<1>5. cat # "none" BY <1>4 DEF Backfill, Turns
<1>6. \A p \in Pks : (Owed(p) /\ p \in exp /\ Rank(p) < t.cur) => Held(p)
  BY <1>2, <1>3, <1>4 DEF Backfill, Walked, InHand
<1>7. PICK P : P = Page(t.cur) OBVIOUS
<1>8. /\ P \in SUBSET exp /\ Cardinality(P) \in Nat
      /\ \A p \in exp : Rank(p) < t.cur + Cardinality(P) => (Rank(p) < t.cur \/ p \in P)
      /\ P = {} => \A p \in exp : Rank(p) < t.cur
  BY <1>3, <1>7, PageFacts
<1>0. NextShard \in Nat /\ \A p \in exp : Rank(p) \in Nat /\ Rank(p) < NextShard BY <1>3, RankBelow, RankFacts
<1>9. CASE t.cur >= NextShard \/ P = {}
  <2>1. ASSUME NEW p \in Pks, Owed(p) PROVE Held(p)'
    <3>1. p \notin exp => Held(p) BY <1>5, <2>1 DEF Backfill, Outside, Safe
    <3>2. p \in exp => Rank(p) < t.cur BY <1>0, <1>3, <1>8, <1>9
    <3>3. Held(p) BY <1>6, <2>1, <3>1, <3>2
    <3>4. QED BY <1>1, <2>1, <3>3, RunnerHolds
  <2>2. PICK n : n = t.cur + Cardinality(P) OBVIOUS
  <2>3. run'[l].pc # "clear"
    <3>1. \/ run'[l] = [t EXCEPT !.pc = "finish"]
          \/ run'[l] = [t EXCEPT !.pc = "setjob", !.cur = NextShard]
          \/ run'[l] = [t EXCEPT !.pc = "rows", !.pks = P, !.cur = n]
      BY <1>2, <1>7, <2>2 DEF ScanPage, Set, TypeOK
    <3>2. QED BY <3>1 DEF Ticks
  <2>4. QED BY <1>1, <1>4, <2>1, <2>3, WalkBackfill
<1>10. CASE t.cur < NextShard /\ P # {}
  <2>1. PICK n \in Nat : n = t.cur + Cardinality(P) BY <1>3, <1>8
  <2>2. run'[l] = [t EXCEPT !.pc = "rows", !.pks = P, !.cur = n] BY <1>0, <1>2, <1>3, <1>7, <1>10, <2>1 DEF ScanPage, Set, TypeOK
  <2>3. run'[l].pc = "rows" /\ run'[l].cur = n /\ run'[l].pks = P BY <2>2 DEF Ticks
  <2>4. ASSUME NEW p \in Pks, Owed(p), p \in exp, Rank(p) < n PROVE Held(p)' \/ InHand(l, p)'
    <3>1. CASE p \in P BY <2>3, <3>1 DEF InHand
    <3>2. CASE p \notin P
      <4>1. Held(p) BY <1>6, <1>8, <2>1, <2>4, <3>2
      <4>2. QED BY <1>1, <2>4, <4>1, RunnerHolds
    <3>3. QED BY <3>1, <3>2
  <2>5. QED BY <1>1, <1>4, <2>3, <2>4, WalkBackfill
<1>11. QED BY <1>0, <1>3, <1>9, <1>10

\* No segment that is due removes a member with the stamp of the row as it is now.
LEMMA NowKept ==
    ASSUME TypeOK, Flights, NEW p \in Pks, Live(p)
    PROVE  Kept(<<row[p].val, p, row[p].ver>>)
<1>1. PICK r \in Rows : r = row[p] BY DEF TypeOK
<1>2. r.ver \in Nat /\ r.ver > 0 BY <1>1 DEF Rows, Live
<1>3. SUFFICES ASSUME NEW h \in Due, <<r.val, p, r.ver>> \in Undo(wr[h]) PROVE FALSE BY <1>1 DEF Kept
<1>4. h \in Gateways /\ h \notin old /\ wr[h].pc = "index" BY DEF Due
<1>5. PICK x \in Stmts : x = wr[h] BY <1>4 DEF TypeOK
<1>6. x.op # "D" => x.val \in Values BY <1>4, <1>5 DEF TypeOK
<1>7. <<r.val, p, r.ver>> = <<x.snap.val, x.pk, IvOf(x.snap)>> /\ IvOf(x.snap) \in Nat /\ IvOf(x.snap) <= x.snap.ver
  BY <1>3, <1>5, <1>6, SegmentTypes
<1>8. x.pk = p /\ IvOf(x.snap) = r.ver BY <1>7
<1>9. x.snap.ver < r.ver BY <1>1, <1>4, <1>5, <1>8 DEF Flights
<1>10. x.snap.ver \in Nat BY DEF Stmts, Rows
<1>11. QED BY <1>2, <1>7, <1>8, <1>9, <1>10

LEMMA ReadRowsBackfill == ASSUME TypeOK, Flights, Backfill, NEW l \in Leaders, ReadRows(l) PROVE Backfill'
<1>1. RunnerStep(l) BY DEF RunnerStep
<1>2. PICK t \in Ticks : t = run[l] BY DEF TypeOK
<1>3. t.pc = "rows" /\ t.pks \in SUBSET Pks BY <1>2 DEF ReadRows, At, Ticks
<1>4. Busy(l) /\ UNCHANGED <<cat, job>> BY <1>2, <1>3 DEF Busy, ReadRows, meta
<1>5. PICK R : R = {<<row[p].val, p, row[p].ver>> : p \in {q \in t.pks : Live(q)}} OBVIOUS
<1>6. run'[l] = [t EXCEPT !.pc = "zadd", !.rows = R] BY <1>2, <1>5 DEF ReadRows, Set, TypeOK
<1>7. run'[l].pc = "zadd" /\ run'[l].cur = t.cur /\ run'[l].rows = R BY <1>6 DEF Ticks
<1>8. UNCHANGED <<row, wr, old>> BY <1>1, RunnerFrame
<1>9. ASSUME NEW p \in Pks, Owed(p), p \in exp, Rank(p) < t.cur PROVE Held(p)' \/ InHand(l, p)'
  <2>1. Held(p) \/ p \in t.pks BY <1>2, <1>3, <1>4, <1>9 DEF Backfill, Walked, InHand
  <2>2. CASE Held(p) BY <1>1, <1>9, <2>2, RunnerHolds
  <2>3. CASE p \in t.pks
    <3>1. PICK m : m = <<row[p].val, p, row[p].ver>> OBVIOUS
    <3>2. Live(p) BY <1>9 DEF Owed
    <3>3. m \in R BY <1>5, <2>3, <3>1, <3>2
    <3>4. row[p].val \in Values /\ row[p].ver \in Nat BY <3>2 DEF TypeOK, Rows, Live
    <3>5. m \in Stamped /\ m[1] = row[p].val /\ m[2] = p BY <3>1, <3>4 DEF Stamped
    <3>6. Kept(m) BY <3>1, <3>2, NowKept
    <3>7. Kept(m)' BY <1>8, <3>6 DEF Kept, Due, Undo, Maintains, Changed, IvOf
    <3>8. QED BY <1>7, <1>8, <3>3, <3>5, <3>7 DEF InHand
  <2>4. QED BY <2>1, <2>2, <2>3
<1>10. QED BY <1>1, <1>4, <1>7, <1>9, WalkBackfill

LEMMA AddMembersBackfill == ASSUME TypeOK, Backfill, NEW l \in Leaders, AddMembers(l) PROVE Backfill'
<1>1. RunnerStep(l) BY DEF RunnerStep
<1>2. PICK t \in Ticks : t = run[l] BY DEF TypeOK
<1>3. t.pc = "zadd" /\ member' = member \cup t.rows BY <1>2 DEF AddMembers, At
<1>4. Busy(l) /\ UNCHANGED <<cat, job>> BY <1>2, <1>3 DEF Busy, AddMembers, meta
<1>5. run'[l] = [t EXCEPT !.pc = "setjob", !.rows = {}, !.pks = {}] BY <1>2 DEF AddMembers, Set, TypeOK
<1>6. run'[l].pc = "setjob" /\ run'[l].cur = t.cur BY <1>5 DEF Ticks
<1>7. UNCHANGED <<row, wr, old>> BY <1>1, RunnerFrame
<1>8. ASSUME NEW p \in Pks, Owed(p), p \in exp, Rank(p) < t.cur PROVE Held(p)'
  <2>1. Held(p) \/ \E m \in Stamped : m[1] = row[p].val /\ m[2] = p /\ m \in t.rows /\ Kept(m)
    BY <1>2, <1>3, <1>4, <1>8 DEF Backfill, Walked, InHand
  <2>2. CASE Held(p) BY <1>1, <1>8, <2>2, RunnerHolds
  <2>3. CASE \E m \in Stamped : m[1] = row[p].val /\ m[2] = p /\ m \in t.rows /\ Kept(m)
    <3>1. PICK m \in Stamped : m[1] = row[p].val /\ m[2] = p /\ m \in t.rows /\ Kept(m) BY <2>3
    <3>2. Kept(m)' BY <1>7, <3>1 DEF Kept, Due, Undo, Maintains, Changed, IvOf
    <3>3. Coming(m)' BY <1>3, <3>1 DEF Coming
    <3>4. QED BY <1>7, <3>1, <3>2, <3>3 DEF Held
  <2>4. QED BY <2>1, <2>2, <2>3
<1>9. QED BY <1>1, <1>4, <1>6, <1>8, WalkBackfill

LEMMA StoreCursorBackfill == ASSUME TypeOK, Backfill, NEW l \in Leaders, StoreCursor(l) PROVE Backfill'
<1>1. RunnerStep(l) BY DEF RunnerStep
<1>2. PICK t \in Ticks : t = run[l] BY DEF TypeOK
<1>3. t.pc = "setjob" /\ UNCHANGED cat /\ job'.on /\ job'.cur = t.cur BY <1>2 DEF StoreCursor, At
<1>4. run'[l] = [t EXCEPT !.pc = "scan"] \/ run'[l] = IdleR BY <1>2 DEF StoreCursor, Set, TypeOK
<1>5. run'[l].pc = "idle" \/ (run'[l].pc = "scan" /\ run'[l].cur = t.cur) BY <1>4, Literals DEF Ticks
<1>6. Busy(l) BY <1>2, <1>3 DEF Busy
<1>7. cat # "none" /\ ~Creating BY <1>6 DEF Backfill, Turns
<1>8. UNCHANGED ddl /\ (\A k \in Leaders : k # l => run'[k] = run[k]) /\ Carries BY <1>1, RunnerFrame
<1>9. Turns'
  <2>1. ~(Creating') BY <1>7, <1>8 DEF Creating
  <2>2. \A k \in Leaders : run'[k].pc = "clear" => cat = "visible" BY <1>5, <1>8 DEF Backfill, Turns
  <2>3. QED BY <1>3, <1>7, <2>1, <2>2 DEF Turns
<1>10. \A p \in Pks : (Owed(p) /\ p \in exp /\ Rank(p) < t.cur) => Held(p)
  BY <1>2, <1>3, <1>6 DEF Backfill, Walked, InHand
<1>11. cat' = "visible" => Done' BY <1>3, <1>8, SafeCarries DEF Backfill, Published, Done
<1>12. \A p \in Pks : (p \in exp /\ Rank(p) < job'.cur) => Safe(p) BY <1>3, <1>10 DEF Safe
<1>13. \A p \in Pks : (run'[l].pc # "idle" /\ Owed(p) /\ ((p \in exp /\ Rank(p) < run'[l].cur) \/ run'[l].pc = "finish"))
                        => Held(p)'
  BY <1>1, <1>5, <1>10, RunnerHolds
<1>14. QED BY <1>1, <1>3, <1>7, <1>9, <1>11, <1>12, <1>13, RunnerBackfill

LEMMA FinishBackfill == ASSUME TypeOK, Loaded, Backfill, NEW l \in Leaders, Finish(l) PROVE Backfill'
<1>1. RunnerStep(l) BY DEF RunnerStep
<1>2. PICK t \in Ticks : t = run[l] BY DEF TypeOK
<1>3. t.pc = "finish" /\ UNCHANGED job BY <1>2 DEF Finish, At
<1>4. Busy(l) BY <1>2, <1>3 DEF Busy
<1>5. cat # "none" /\ ~Creating /\ (job.on \/ cat = "visible") BY <1>4 DEF Backfill, Turns
<1>6. UNCHANGED ddl /\ (\A k \in Leaders : k # l => run'[k] = run[k]) /\ Carries BY <1>1, RunnerFrame
<1>7. Done
  <2>1. ASSUME NEW p \in Pks, Owed(p) PROVE Held(p) BY <1>2, <1>3, <1>4, <2>1 DEF Backfill, Walked, InHand
  <2>2. QED BY <2>1 DEF Done, Safe
<1>8. Done' BY <1>6, <1>7, SafeCarries DEF Done
<1>9. \/ cat' = cat /\ run'[l].pc = "idle"
      \/ cat' = "visible" /\ run'[l].pc = "clear"
  <2>1. CASE job.on /\ catVer # t.ver
    <3>1. run'[l] = IdleR /\ cat' = cat BY <1>2, <2>1 DEF Finish, Set, TypeOK
    <3>2. QED BY <3>1, Literals
  <2>2. CASE job.on /\ catVer = t.ver
    <3>1. t.has = cat BY <1>2, <1>3, <2>2 DEF Loaded
    <3>2. run'[l] = [t EXCEPT !.pc = "clear"] /\ cat' = IF t.has = "building" THEN "visible" ELSE t.has
      BY <1>2, <2>2 DEF Finish, Set, TypeOK, Save
    <3>3. t.has \in {"building", "visible"} BY <1>5, <3>1 DEF TypeOK, Phases
    <3>4. run'[l].pc = "clear" BY <3>2 DEF Ticks
    <3>5. QED BY <3>2, <3>3, <3>4
  <2>3. CASE ~job.on
    <3>1. run'[l] = [t EXCEPT !.pc = "clear"] /\ cat' = cat BY <1>2, <2>3 DEF Finish, Set, TypeOK
    <3>2. run'[l].pc = "clear" BY <3>1 DEF Ticks
    <3>3. QED BY <1>5, <2>3, <3>1, <3>2
  <2>4. QED BY <2>1, <2>2, <2>3
<1>10. Turns'
  <2>1. ~(Creating') BY <1>5, <1>6 DEF Creating
  <2>2. cat' # "none" /\ (job'.on \/ cat' = "visible") BY <1>3, <1>5, <1>9
  <2>3. \A k \in Leaders : run'[k].pc = "clear" => cat' = "visible" BY <1>6, <1>9 DEF Backfill, Turns
  <2>4. QED BY <2>1, <2>2, <2>3 DEF Turns
<1>11. \A p \in Pks : (job'.on /\ p \in exp /\ Rank(p) < job'.cur) => Safe(p) BY <1>7 DEF Done
<1>12. \A p \in Pks : Owed(p) => Held(p)' BY <1>1, <1>7, RunnerHolds DEF Done, Safe
<1>13. cat' # "none" BY <1>5, <1>9
<1>14. QED BY <1>1, <1>5, <1>8, <1>10, <1>11, <1>12, <1>13, RunnerBackfill

LEMMA ClearJobBackfill == ASSUME TypeOK, Backfill, NEW l \in Leaders, ClearJob(l) PROVE Backfill'
<1>1. RunnerStep(l) BY DEF RunnerStep
<1>2. cat = "visible" /\ Busy(l) BY DEF ClearJob, At, Backfill, Turns, Busy
<1>3. UNCHANGED cat /\ ~job'.on /\ run'[l] = IdleR BY DEF ClearJob, NoJob, Set, TypeOK
<1>4. UNCHANGED ddl /\ (\A k \in Leaders : k # l => run'[k] = run[k]) /\ Carries BY <1>1, RunnerFrame
<1>5. ~Creating BY <1>2 DEF Backfill, Turns
<1>6. Turns' BY <1>2, <1>3, <1>4, <1>5 DEF Turns, Creating
<1>7. Done' BY <1>2, <1>4, SafeCarries DEF Backfill, Published, Done
<1>8. QED BY <1>1, <1>2, <1>3, <1>6, <1>7, Literals, RunnerBackfill

LEMMA StepBackfill ==
    ASSUME TypeOK, Flights, Loaded, Backfill, NEW l \in Leaders, RunnerStep(l)
    PROVE  Backfill'
BY TakeJobBackfill, ScanPageBackfill, ReadRowsBackfill, AddMembersBackfill, StoreCursorBackfill, FinishBackfill,
   ClearJobBackfill DEF RunnerStep

(***************************************************************************)
(* The invariant, and what it gives.                                       *)
(***************************************************************************)
\* A stale commit, a new statement and a refresh leave the segments that are due alone.
LEMMA QuietStatement ==
    ASSUME IInv, NEW g \in Gateways, wr[g].pc # "index", wr'[g].pc # "index",
           \A h \in Gateways : h # g => wr'[h] = wr[h],
           UNCHANGED <<row, exp, member, cat, catVer, job, ddl, run, hist>>
    PROVE  Flights' /\ Registered' /\ Loaded' /\ (shifted' \/ stray' \/ Backfill')
<1>1. TypeOK /\ Flights /\ Registered /\ Loaded BY DEF IInv
<1>2. Due' = Due BY DEF Due, hist
<1>3. \A h \in Due : wr'[h] = wr[h] BY DEF Due
<1>4. \A h \in Gateways : wr'[h].pc = "index" => wr'[h] = wr[h] OBVIOUS
<1>5. Carries BY <1>2, <1>3, SameFlightsCarry DEF hist
<1>6. Flights' /\ Registered' BY <1>1, <1>2, <1>3, <1>4, SameFlightsShape DEF hist
<1>7. Loaded' BY <1>1 DEF Loaded, Creating
<1>8. Backfill => Backfill' BY <1>1, <1>5, StatementBackfill
<1>9. QED BY <1>6, <1>7, <1>8 DEF IInv, hist

LEMMA StatementNext ==
    ASSUME IInv, TypeOK', NEW g \in Gateways,
           \/ Refresh(g) \/ Commit(g) \/ IndexSegment(g)
           \/ \E o \in {"W", "U", "D"}, p \in Pks, v \in Values \cup {None} : Start(g, o, p, v)
    PROVE  Flights' /\ Registered' /\ Loaded' /\ (shifted' \/ stray' \/ Backfill')
<1>1. TypeOK /\ Flights /\ Registered /\ Loaded BY DEF IInv
<1>2. UNCHANGED <<cat, catVer, job, ddl, run, stray>> BY DEF Refresh, Commit, IndexSegment, Start, store, meta, bounds, hist
<1>3. Loaded' BY <1>1, <1>2 DEF Loaded, Creating
<1>4. CASE Refresh(g)
  <2>1. UNCHANGED <<row, exp, member, wr, hist, shifted>> BY <1>4 DEF Refresh, store, hist
  <2>2. Due' = Due BY <2>1 DEF Due, hist
  <2>3. Carries BY <2>1, <2>2, SameFlightsCarry DEF hist
  <2>4. Flights' /\ Registered' BY <1>1, <1>2, <2>1, <2>2, SameFlightsShape DEF hist
  <2>5. Backfill => Backfill' BY <1>1, <1>2, <2>1, <2>3, StatementBackfill
  <2>6. QED BY <1>2, <1>3, <2>1, <2>4, <2>5 DEF IInv
<1>5. CASE \E o \in {"W", "U", "D"}, p \in Pks, v \in Values \cup {None} : Start(g, o, p, v)
  <2>1. PICK o \in {"W", "U", "D"}, p \in Pks, v \in Values \cup {None} : Start(g, o, p, v) BY <1>5
  <2>2. UNCHANGED <<row, exp, member, hist>> BY <2>1 DEF Start, store
  <2>3. wr[g].pc # "index" /\ wr'[g].pc # "index" /\ \A h \in Gateways : h # g => wr'[h] = wr[h]
    BY <1>1, <2>1 DEF Start, TypeOK
  <2>4. QED BY <1>2, <2>2, <2>3, QuietStatement
<1>6. CASE Commit(g) /\ row[wr[g].pk].ver # wr[g].snap.ver
  <2>1. UNCHANGED <<row, exp, member, hist>> BY <1>6 DEF Commit, hist
  <2>2. PICK w \in Stmts : w = wr[g] /\ w.pc = "lua" BY <1>1, <1>6 DEF TypeOK, Commit
  <2>3. PICK y : y = [w EXCEPT !.snap = row[w.pk]] OBVIOUS
  <2>4. y.pc = "lua" BY <2>2, <2>3 DEF Stmts
  <2>5. wr' = [wr EXCEPT ![g] = IdleW] \/ wr' = [wr EXCEPT ![g] = y] BY <1>6, <2>2, <2>3 DEF Commit
  <2>6. wr'[g].pc # "index" /\ \A h \in Gateways : h # g => wr'[h] = wr[h] BY <1>1, <2>4, <2>5, Literals DEF TypeOK
  <2>7. QED BY <1>2, <2>1, <2>2, <2>6, QuietStatement
<1>7. CASE Commit(g) /\ row[wr[g].pk].ver = wr[g].snap.ver
  <2>1. Flights' /\ Registered' BY <1>1, <1>7, CommitShape
  <2>2. cat # "none" => Carries BY <1>1, <1>7, CommitCarries
  <2>3. UNCHANGED <<exp, shifted>> BY <1>7 DEF Commit
  <2>4. Backfill => Backfill' BY <1>1, <1>2, <2>2, <2>3, StatementBackfill
  <2>5. QED BY <1>2, <1>3, <2>1, <2>3, <2>4 DEF IInv
<1>8. CASE IndexSegment(g)
  <2>1. Flights' /\ Registered' BY <1>1, <1>8, SegmentShape
  <2>2. shifted => shifted' BY <1>8 DEF IndexSegment
  <2>3. Backfill => (shifted' \/ Backfill') BY <1>1, <1>8, SegmentBackfill
  <2>4. QED BY <1>2, <1>3, <2>1, <2>2, <2>3 DEF IInv
<1>9. QED BY <1>4, <1>5, <1>6, <1>7, <1>8

LEMMA DdlNext ==
    ASSUME IInv, CreateIndex \/ DropIndex \/ DdlStep
    PROVE  Flights' /\ Registered' /\ Loaded' /\ (shifted' \/ stray' \/ Backfill')
<1>1. TypeOK /\ Flights /\ Registered /\ Loaded BY DEF IInv
<1>2. UNCHANGED shifted BY DdlFrame
<1>3. stray => stray'
  BY DEF CreateIndex, DropIndex, DdlStep, SaveBuilding, CountRows, Publish, CheckJob, SetFirstJob, SaveRemoved, Unlink, hist
<1>4. Flights' /\ Registered' BY <1>1, DdlShape
<1>5. Loaded' BY <1>1, DdlLoaded
<1>6. Backfill => (stray' \/ Backfill')
  BY <1>1, CreateBackfill, SaveBuildingBackfill, SessionBackfill, DropBackfill DEF DdlStep
<1>7. QED BY <1>2, <1>3, <1>4, <1>5, <1>6 DEF IInv

LEMMA RunnerNext ==
    ASSUME IInv, NEW l \in Leaders, RunnerStep(l)
    PROVE  Flights' /\ Registered' /\ Loaded' /\ (shifted' \/ stray' \/ Backfill')
<1>1. TypeOK /\ Flights /\ Registered /\ Loaded BY DEF IInv
<1>2. UNCHANGED <<shifted, stray>> BY <1>1, RunnerFrame
<1>3. Flights' /\ Registered' /\ Loaded' BY <1>1, RunnerShape
<1>4. Backfill => Backfill' BY <1>1, StepBackfill
<1>5. QED BY <1>2, <1>3, <1>4 DEF IInv

LEMMA StutterNext ==
    ASSUME IInv, UNCHANGED vars
    PROVE  Flights' /\ Registered' /\ Loaded' /\ (shifted' \/ stray' \/ Backfill')
<1>1. TypeOK /\ Flights /\ Registered /\ Loaded BY DEF IInv
<1>2. UNCHANGED <<row, exp, member, cat, catVer, job, wr, ddl, run, blind, shifted, stray, old, reborn>> BY DEF vars
<1>3. Due' = Due BY <1>2 DEF Due
<1>4. Carries BY <1>2, <1>3, SameFlightsCarry
<1>5. Flights' /\ Registered' BY <1>1, <1>2, <1>3, SameFlightsShape
<1>6. Loaded' BY <1>1, <1>2 DEF Loaded, Creating
<1>7. Backfill => Backfill' BY <1>1, <1>2, <1>4, StatementBackfill
<1>8. QED BY <1>2, <1>5, <1>6, <1>7 DEF IInv

LEMMA InductiveStep == ASSUME IInv, [Next]_vars PROVE IInv'
<1>1. TypeOK' BY TypeNext DEF IInv
<1>2. Flights' /\ Registered' /\ Loaded' /\ (shifted' \/ stray' \/ Backfill')
  <2>1. CASE \E g \in Gateways : Refresh(g) \/ Commit(g) \/ IndexSegment(g) BY <1>1, <2>1, StatementNext
  <2>2. CASE \E g \in Gateways, p \in Pks : Start(g, "D", p, None) \/ \E v \in Values, o \in {"W", "U"} : Start(g, o, p, v)
    <3>1. PICK g \in Gateways : \E o \in {"W", "U", "D"}, p \in Pks, v \in Values \cup {None} : Start(g, o, p, v) BY <2>2
    <3>2. QED BY <1>1, <3>1, StatementNext
  <2>3. CASE CreateIndex \/ DropIndex \/ DdlStep BY <2>3, DdlNext
  <2>4. CASE \E l \in Leaders : RunnerStep(l) BY <2>4, RunnerNext
  <2>5. CASE UNCHANGED vars BY <2>5, StutterNext
  <2>6. QED BY <2>1, <2>2, <2>3, <2>4, <2>5 DEF Next
<1>3. QED BY <1>1, <1>2 DEF IInv

\* Members held for a row no statement is at work on are in the index.
LEMMA IndexFollows == ASSUME IInv PROVE IndexComplete
<1>1. SUFFICES ASSUME cat = "visible", ~shifted, ~stray, NEW p \in Pks \ (blind \cup reborn), Live(p), InFlight(p) = {}
      PROVE \E m \in member : m[1] = row[p].val /\ m[2] = p
  BY DEF IndexComplete, Complete
<1>2. Held(p) BY <1>1 DEF IInv, Backfill, Published, Done, Safe, Owed
<1>3. PICK m \in Stamped : m[1] = row[p].val /\ m[2] = p /\ Coming(m) BY <1>2 DEF Held
<1>4. ASSUME NEW g \in Due, m \in Redo(wr[g]) PROVE FALSE
  <2>1. g \in Gateways /\ wr[g].pc = "index" BY DEF Due
  <2>2. PICK w \in Stmts : w = wr[g] BY <2>1 DEF IInv, TypeOK
  <2>3. m = <<w.val, w.pk, w.snap.ver + 1>> BY <1>4, <2>2 DEF Redo
  <2>4. wr[g].pk = p BY <1>3, <2>2, <2>3
  <2>5. QED BY <1>1, <2>1, <2>4 DEF InFlight
<1>5. QED BY <1>3, <1>4 DEF Coming

\* The types hold in every state of CREATE INDEX, DROP INDEX, the job and the statements
\* that run beside them.
THEOREM IndexTypeCorrect == Spec => []TypeOK
<1>1. Init => TypeOK BY TypeInit
<1>2. TypeOK /\ [Next]_vars => TypeOK' BY TypeNext
<1>3. QED BY <1>1, <1>2, PTL DEF Spec

\* The inductive invariant: between the register, the cursors of the job and of the
\* leaders and the segments still due, every row the index answers for has its member,
\* is about to get it, or is still ahead of the job.
THEOREM BackfillInvariant == Spec => []IInv
<1>1. Init => IInv BY TypeInit, FlightsInit DEF IInv
<1>2. IInv /\ [Next]_vars => IInv' BY InductiveStep
<1>3. QED BY <1>1, <1>2, PTL DEF Spec

\* A visible index finds every live row, for any number of gateways, leaders, rows,
\* statements and DDL statements and any batch (engine/ddlexec.go createIndex,
\* controller/jobrunner.go backfillShard and finish).
THEOREM IndexIsComplete == Spec => []IndexComplete
<1>1. IInv => IndexComplete BY IndexFollows
<1>2. QED BY <1>1, BackfillInvariant, PTL
====
