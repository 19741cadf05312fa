--------------------------- MODULE ControllerProofs ---------------------------
(***************************************************************************)
(* Two parts of the controller, each on its own.  The election: for any    *)
(* number of nodes and any failures, while the deadlines are kept, a role  *)
(* whose context is not cancelled has the lock.  The reconciler: for any   *)
(* number of rows, values, page size, statements and deaths, what it       *)
(* reports was so, and its repair takes no row's own member out of the     *)
(* index.                                                                  *)
(***************************************************************************)
EXTENDS Elector, Reconcile, TLAPS

(***************************************************************************)
(* The election.                                                           *)
(***************************************************************************)
\* Initially nobody has a term.
LEMMA InitLease == EInit => LeaseInv
<1> SUFFICES ASSUME EInit PROVE LeaseInv
  OBVIOUS
<1>1. ETypeOK
  <2>1. lock \in Nodes \cup {NoOne, Gone} /\ left \in 0 .. Thirds /\ faults \in Nat
    BY DEF EInit, Thirds
  <2>2. /\ pc \in [Nodes -> {"sleep", "try", "got", "work", "stop", "release", "down"}]
        /\ ctx \in [Nodes -> {"none", "live", "cancelled"}]
        /\ wd \in [Nodes -> {"off", "wait", "renew"}]
        /\ old \in [Nodes -> Nat]
    BY DEF EInit
  <2>3. pend \in [Nodes -> BOOLEAN] /\ late \in [Nodes -> BOOLEAN]
    BY DEF EInit
  <2>4. flight \in [Nodes -> BOOLEAN] /\ quit \in [Nodes -> BOOLEAN]
    BY DEF EInit
  <2>5. untimely \in BOOLEAN
    BY DEF EInit
  <2> QED BY <2>1, <2>2, <2>3, <2>4, <2>5 DEF ETypeOK
<1>2. ASSUME NEW n \in Nodes PROVE Covered(n)
  <2>1. pc[n] = "sleep" /\ ctx[n] = "none" /\ wd[n] = "off"
    BY DEF EInit
  <2> QED BY <2>1 DEF Covered
<1> QED BY <1>1, <1>2 DEF LeaseInv

\* Every step keeps the types.
LEMMA TypeStep == ETypeOK /\ [ENext]_evars => ETypeOK'
<1> SUFFICES ASSUME ETypeOK, [ENext]_evars PROVE ETypeOK'
  OBVIOUS
<1> USE TokenAssumption, ElectorBounds DEF ETypeOK, Thirds
<1>1. ASSUME NEW n \in Nodes, CampaignStep(n) PROVE ETypeOK'
  <2>1. CASE WakeUp(n) BY <2>1 DEF WakeUp, lockvars
  <2>2. CASE Exit(n) BY <2>2 DEF Exit, Dies
  <2>3. CASE Acquire(n) BY <2>3 DEF Acquire
  <2>4. CASE Denied(n) BY <2>4 DEF Denied, lockvars
  <2>5. CASE Granted(n) BY <2>5 DEF Granted, lockvars
  <2>6. CASE RoleReturns(n) BY <2>6 DEF RoleReturns, lockvars
  <2>7. CASE Stopped(n) BY <2>7 DEF Stopped, lockvars
  <2>8. CASE Release(n) BY <2>8 DEF Release, lockvars
  <2> QED BY <1>1, <2>1, <2>2, <2>3, <2>4, <2>5, <2>6, <2>7, <2>8 DEF CampaignStep
<1>2. ASSUME NEW n \in Nodes, WatchdogStep(n) PROVE ETypeOK'
  <2>1. CASE Concede(n) BY <2>1 DEF Concede, CancelRole, lockvars
  <2>2. CASE Renew(n) BY <2>2 DEF Renew, lockvars
  <2>3. CASE RenewOk(n) BY <2>3 DEF RenewOk
  <2>4. CASE RenewRefused(n) BY <2>4 DEF RenewRefused, CancelRole, lockvars
  <2>5. CASE WatchdogStops(n) BY <2>5 DEF WatchdogStops, lockvars
  <2> QED BY <1>2, <2>1, <2>2, <2>3, <2>4, <2>5 DEF WatchdogStep
<1>3. ASSUME NEW n \in Nodes, OldRoleEnds(n) PROVE ETypeOK'
  BY <1>3 DEF OldRoleEnds, lockvars
<1>4. ASSUME NEW n \in Nodes, Fault(n) PROVE ETypeOK'
  <2>1. CASE AcquireFails(n) BY <2>1 DEF AcquireFails, Fails, lockvars
  <2>2. CASE RenewFails(n) BY <2>2 DEF RenewFails, CancelRole, Fails
  <2>3. CASE ReleaseFails(n) BY <2>3 DEF ReleaseFails, Fails, lockvars
  <2>4. CASE LateRelease(n)
    <3>1. /\ lock' \in Nodes \cup {NoOne, Gone}
          /\ left' \in 0 .. Thirds
      BY <2>4 DEF LateRelease, lockvars
    <3>2. untimely' \in BOOLEAN
      BY <2>4 DEF LateRelease
    <3>3. flight' \in [Nodes -> BOOLEAN]
      BY <2>4 DEF LateRelease
    <3> QED BY <2>4, <3>1, <3>2, <3>3 DEF LateRelease
  <2>5. CASE Shutdown(n) BY <2>5 DEF Shutdown, Fails, lockvars
  <2>6. CASE Crash(n) BY <2>6 DEF Crash, Dies, Fails
  <2> QED BY <1>4, <2>1, <2>2, <2>3, <2>4, <2>5, <2>6 DEF Fault
<1>5. ASSUME NEW n \in Nodes, Restart(n) PROVE ETypeOK'
  BY <1>5 DEF Restart, lockvars
<1>6. CASE Tick BY <1>6 DEF Tick, Third
<1>7. CASE Stall BY <1>7 DEF Stall, Third, Fails
<1>8. CASE UNCHANGED evars BY <1>8 DEF evars, lockvars, nodevars
<1> QED BY <1>1, <1>2, <1>3, <1>4, <1>5, <1>6, <1>7, <1>8 DEF ENext

\* A step of node m leaves the lease of another node n alone: it does not touch
\* n's goroutines, and it changes the lock only when the lock is free or m's own.
LEMMA OtherNodes ==
    ASSUME ETypeOK, ETypeOK', NEW m \in Nodes, NEW n \in Nodes, m # n, Covered(n),
           CampaignStep(m) \/ WatchdogStep(m) \/ OldRoleEnds(m) \/ Fault(m) \/ Restart(m)
    PROVE  Covered(n)'
<1>1. /\ ctx'[n] = ctx[n] /\ pc'[n] = pc[n] /\ wd'[n] = wd[n]
      /\ pend'[n] = pend[n] /\ late'[n] = late[n]
  BY DEF ETypeOK, CampaignStep, WatchdogStep, Fault, WakeUp, Exit, Dies, Acquire, Denied,
         Granted, RoleReturns, Stopped, Release, Concede, CancelRole, Renew, RenewOk,
         RenewRefused, WatchdogStops, OldRoleEnds, AcquireFails, RenewFails,
         ReleaseFails, LateRelease, Shutdown, Crash, Restart
<1>2. lock = n => lock' = n /\ left' = left
  BY TokenAssumption
     DEF ETypeOK, CampaignStep, WatchdogStep, Fault, WakeUp, Exit, Dies, Acquire, Denied,
         Granted, RoleReturns, Stopped, Release, Concede, CancelRole, Renew, RenewOk,
         RenewRefused, WatchdogStops, OldRoleEnds, AcquireFails, RenewFails,
         ReleaseFails, LateRelease, Shutdown, Crash, Restart, lockvars
<1> QED BY <1>1, <1>2 DEF Covered

\* The node's own steps.
LEMMA OwnSteps ==
    ASSUME ETypeOK, ETypeOK', NEW n \in Nodes, Covered(n), ~untimely',
           CampaignStep(n) \/ WatchdogStep(n) \/ OldRoleEnds(n) \/ Fault(n) \/ Restart(n)
    PROVE  Covered(n)'
<1> USE DEF ETypeOK, Covered, Thirds
<1>1. CASE CampaignStep(n)
  <2>1. CASE WakeUp(n) BY <2>1 DEF WakeUp, lockvars
  <2>2. CASE Exit(n) BY <2>2 DEF Exit, Dies
  <2>3. CASE Acquire(n) BY <2>3 DEF Acquire
  <2>4. CASE Denied(n) BY <2>4 DEF Denied, lockvars
  <2>5. CASE Granted(n) BY <2>5 DEF Granted, lockvars
  <2>6. CASE RoleReturns(n) BY <2>6 DEF RoleReturns, lockvars
  <2>7. CASE Stopped(n) BY <2>7 DEF Stopped, lockvars
  <2>8. CASE Release(n) BY <2>8 DEF Release, lockvars
  <2> QED BY <1>1, <2>1, <2>2, <2>3, <2>4, <2>5, <2>6, <2>7, <2>8 DEF CampaignStep
<1>2. CASE WatchdogStep(n)
  <2>1. CASE Concede(n) BY <2>1 DEF Concede, CancelRole, lockvars
  <2>2. CASE Renew(n) BY <2>2 DEF Renew, lockvars
  <2>3. CASE RenewOk(n) BY <2>3 DEF RenewOk
  <2>4. CASE RenewRefused(n) BY <2>4 DEF RenewRefused, CancelRole, lockvars
  <2>5. CASE WatchdogStops(n) BY <2>5 DEF WatchdogStops, lockvars
  <2> QED BY <1>2, <2>1, <2>2, <2>3, <2>4, <2>5 DEF WatchdogStep
<1>3. CASE OldRoleEnds(n) BY <1>3 DEF OldRoleEnds, lockvars
<1>4. CASE Fault(n)
  <2>1. CASE AcquireFails(n) BY <2>1 DEF AcquireFails, lockvars
  <2>2. CASE RenewFails(n) BY <2>2 DEF RenewFails, CancelRole
  <2>3. CASE ReleaseFails(n) BY <2>3 DEF ReleaseFails, lockvars
  <2>4. CASE LateRelease(n) BY <2>4 DEF LateRelease, lockvars
  <2>5. CASE Shutdown(n) BY <2>5 DEF Shutdown, lockvars
  <2>6. CASE Crash(n) BY <2>6 DEF Crash, Dies
  <2> QED BY <1>4, <2>1, <2>2, <2>3, <2>4, <2>5, <2>6 DEF Fault
<1>5. CASE Restart(n) BY <1>5 DEF Restart, lockvars
<1> QED BY <1>1, <1>2, <1>3, <1>4, <1>5

\* A third passes in time: nobody's deadline is waiting.
LEMMA TimePasses ==
    ASSUME ETypeOK, ETypeOK', NEW n \in Nodes, Covered(n), Tick
    PROVE  Covered(n)'
<1>1. ctx'[n] = ctx[n] /\ pc'[n] = pc[n] /\ wd'[n] = wd[n]
  BY DEF Tick, Third
<1>2. /\ pend'[n] = (pend[n] \/ wd[n] # "off")
      /\ late'[n] = (late[n] \/ wd[n] = "renew")
  BY DEF Tick, Third
<1>3. ~Overdue(n)
  BY DEF Tick
<1>4. pc[n] # "got"
  BY <1>3 DEF Overdue
<1>5. CASE ctx[n] # "live"
  BY <1>1, <1>4, <1>5 DEF Covered
<1>6. CASE ctx[n] = "live"
  <2>1. left >= 2 => lock' = lock /\ left' = left - 1
    BY DEF ETypeOK, Thirds, Tick, Third
  <2>2. CASE wd[n] = "wait"
    <3>1. ~pend[n] /\ pend'[n]
      BY <1>2, <1>3, <1>6, <2>2 DEF Overdue
    <3>2. left >= 3
      BY <1>6, <2>2, <3>1 DEF Covered
    <3> QED BY <1>1, <1>4, <1>6, <2>1, <2>2, <3>1, <3>2 DEF Covered, ETypeOK, Thirds
  <2>3. CASE wd[n] = "renew"
    <3>1. ~late[n] /\ late'[n]
      BY <1>2, <1>3, <1>6, <2>3 DEF Overdue
    <3>2. left >= 2
      BY <1>6, <2>3, <3>1 DEF Covered
    <3> QED BY <1>1, <1>4, <1>6, <2>1, <2>3, <3>1, <3>2 DEF Covered, ETypeOK, Thirds
  <2> QED BY <1>6, <2>2, <2>3 DEF Covered, ETypeOK
<1> QED BY <1>5, <1>6

\* The invariant of the lease is inductive.
THEOREM LeaseInvariance == ESpec => []LeaseInv
<1>1. LeaseInv /\ [ENext]_evars => LeaseInv'
  <2> SUFFICES ASSUME LeaseInv, [ENext]_evars PROVE LeaseInv'
    OBVIOUS
  <2>1. ETypeOK /\ ETypeOK'
    BY TypeStep DEF LeaseInv
  <2>2. SUFFICES ASSUME ~untimely', NEW n \in Nodes PROVE Covered(n)'
    BY <2>1 DEF LeaseInv
  <2>3. ~untimely
    BY <2>1, <2>2 DEF ETypeOK, ENext, evars, CampaignStep, WatchdogStep, Fault, WakeUp, Exit,
       Dies, Acquire, Denied, Granted, RoleReturns, Stopped, Release, Concede, Renew,
       RenewOk, RenewRefused, WatchdogStops, OldRoleEnds, AcquireFails, RenewFails,
       ReleaseFails, LateRelease, Shutdown, Crash, Restart, Tick, Stall
  <2>4. Covered(n)
    BY <2>3 DEF LeaseInv
  <2>5. ASSUME NEW m \in Nodes,
               CampaignStep(m) \/ WatchdogStep(m) \/ OldRoleEnds(m) \/ Fault(m) \/ Restart(m)
        PROVE  Covered(n)'
    <3>1. CASE m = n BY <2>1, <2>2, <2>4, <2>5, <3>1, OwnSteps
    <3>2. CASE m # n BY <2>1, <2>4, <2>5, <3>2, OtherNodes
    <3> QED BY <3>1, <3>2
  <2>6. CASE Tick BY <2>1, <2>4, <2>6, TimePasses
  <2>7. CASE Stall BY <2>2, <2>7 DEF Stall
  <2>8. CASE UNCHANGED evars BY <2>4, <2>8 DEF evars, lockvars, nodevars, Covered
  <2> QED BY <2>5, <2>6, <2>7, <2>8 DEF ENext
<1> QED BY InitLease, <1>1, PTL DEF ESpec

\* While deadlines are kept, a role that was not told to stop has the lock: the
\* split brain that elector.go's watchdog is there to prevent does not happen.
THEOREM LeaseIsSound == ESpec => []ActiveHoldsLock
<1>1. LeaseInv => ActiveHoldsLock
  BY DEF LeaseInv, ActiveHoldsLock, Covered
<1> QED BY LeaseInvariance, <1>1, PTL

(***************************************************************************)
(* The reconciler: its inductive invariant.                                *)
(***************************************************************************)
\* The rows whose member is not in the index.
Missing == {x[1] : x \in {y \in rec.live : Expected(y[1], y[2]) \notin member}}

\* A row is read once for a page.
OneRow == \A x, y \in rec.live : x[1] = y[1] => x = y

\* As long as nobody else moves, what was read is so.
MissingTrue == rec.pc \in {"reverse", "clean", "orphans", "zscore"} => rec.missing = Missing
SeenTrue == rec.pc = "clean" => rec.seen \subseteq member
LostTrue == rec.pc = "orphans" => \A p \in rec.lost : \E m \in member : m[2] = p
OrphanTrue == rec.pc = "zscore" => \A p \in rec.orphan : IsOrphan(p) /\ \E m \in member : m[2] = p

RInv == TypeOK /\ OneRow /\ (rec.quiet => MissingTrue /\ SeenTrue /\ LostTrue /\ OrphanTrue)

(***************************************************************************)
(* Types.                                                                  *)
(***************************************************************************)
LEMMA IdleTypes == NoRow \in Row /\ IdleW \in Statement /\ IdleR \in PageLocals
<1>1. 1 \in Pks BY ReconcileAssumption DEF Pks
<1>2. NoRow \in Row BY DEF NoRow, Row
<1>3. QED BY <1>1, <1>2 DEF IdleW, Statement, IdleR, PageLocals, PagePcs

LEMMA RInvInit == Init => RInv
<1> SUFFICES ASSUME Init PROVE RInv OBVIOUS
<1>1. PICK v \in Values :
         /\ row = [p \in Pks |-> [ver |-> 1, val |-> v, iv |-> IF p \in Old THEN 0 ELSE 1, ttl |-> FALSE]]
         /\ member = {<<v, p, 1>> : p \in Pks}
  <2>1. (CHOOSE w \in Values : TRUE) \in Values BY ReconcileAssumption
  <2>2. QED BY <2>1 DEF Init
<1>2. row \in [Pks -> Row] /\ \A p \in Pks : row[p].iv <= row[p].ver BY <1>1 DEF Row
<1>3. member \in SUBSET Member BY <1>1 DEF Member
<1>4. rec = IdleR /\ rec.live = {} /\ rec.pc = "idle" BY DEF Init, IdleR
<1>5. wr \in [Writers -> Statement] BY IdleTypes DEF Init
<1>6. TypeOK BY <1>2, <1>3, <1>4, <1>5, IdleTypes DEF Init, TypeOK
<1>7. QED BY <1>4, <1>6 DEF RInv, OneRow, MissingTrue, SeenTrue, LostTrue, OrphanTrue

(***************************************************************************)
(* The others.                                                             *)
(***************************************************************************)
\* Whoever moves takes the promise of a page under way back.
LEMMA Disturbed ==
    ASSUME RInv, Disturb, row' \in [Pks -> Row], \A p \in Pks : row'[p].iv <= row'[p].ver,
           rcpt' \in SUBSET Pks, exp' \in SUBSET Pks, member' \in SUBSET Member,
           wr' \in [Writers -> Statement], writes' \in Nat, deaths' \in Nat
    PROVE  RInv'
<1>1. rec \in PageLocals /\ rec' = [rec EXCEPT !.quiet = rec.pc = "idle"] BY DEF RInv, TypeOK, Disturb
<1>2. rec' \in PageLocals /\ rec'.pc = rec.pc /\ rec'.live = rec.live
  BY <1>1 DEF PageLocals
<1>3. rec'.quiet => rec'.pc = "idle" BY <1>1, <1>2 DEF PageLocals
<1>4. TypeOK' BY <1>2 DEF RInv, TypeOK
<1>5. OneRow' BY <1>2 DEF RInv, OneRow
<1>6. QED BY <1>3, <1>4, <1>5 DEF RInv, MissingTrue, SeenTrue, LostTrue, OrphanTrue

LEMMA OthersInv ==
    ASSUME RInv,
           \/ \E w \in Writers :
                 \/ \E p \in Pks, v \in Values \cup {None} : Start(w, p, v)
                 \/ (\E t \in BOOLEAN : Commit(w, t)) \/ Segment(w) \/ Register(w) \/ Die(w)
           \/ \E p \in Pks : Expire(p) \/ SweepRow(p)
    PROVE  RInv'
<1>T. /\ row \in [Pks -> Row] /\ \A p \in Pks : row[p].iv <= row[p].ver
      /\ rcpt \in SUBSET Pks /\ exp \in SUBSET Pks /\ member \in SUBSET Member
      /\ wr \in [Writers -> Statement] /\ writes \in Nat /\ deaths \in Nat
  BY DEF RInv, TypeOK
<1>N. NoRow \in Row /\ NoRow.iv <= NoRow.ver BY IdleTypes DEF NoRow
<1>S. \A w \in Writers, s \in Statement : Set(w, s) => wr' \in [Writers -> Statement] BY <1>T DEF Set
<1>W. ASSUME NEW w \in Writers
      PROVE  /\ wr[w] \in Statement /\ wr[w].pk \in Pks /\ wr[w].val \in Values \cup {None} /\ wr[w].snap \in Row
             /\ wr[w].snap.ver \in Nat
  BY <1>T DEF Statement, Row
<1>1. ASSUME NEW w \in Writers, NEW p \in Pks, NEW v \in Values \cup {None}, Start(w, p, v) PROVE RInv'
  <2> DEFINE s == [pc |-> "lua", pk |-> p, val |-> v, snap |-> row[p]]
  <2>1. s \in Statement BY <1>T DEF Statement
  <2>2. Set(w, s) /\ writes' = writes + 1 /\ Disturb /\ UNCHANGED <<row, rcpt, exp, member, deaths>>
    BY <1>1 DEF Start, data
  <2> HIDE DEF s
  <2>3. wr' \in [Writers -> Statement] BY <1>S, <2>1, <2>2
  <2>4. QED BY <1>T, <2>2, <2>3, Disturbed
<1>2. ASSUME NEW w \in Writers, NEW t \in BOOLEAN, Commit(w, t) PROVE RInv'
  <2> DEFINE s == wr[w]
             p == s.pk
             r == row[p]
  <2>0. r \in Row /\ r.iv <= r.ver /\ r.ver \in Nat /\ r.iv \in Nat BY <1>T, <1>W DEF Row
  <2>D. Disturb /\ UNCHANGED <<exp, member, writes, deaths>> BY <1>2 DEF Commit
  <2>1. CASE r.ver # s.snap.ver
    <3>1. Set(w, [s EXCEPT !.snap = r]) /\ UNCHANGED <<row, rcpt>> BY <1>2, <2>1 DEF Commit
    <3>2. [s EXCEPT !.snap = r] \in Statement BY <1>W, <2>0 DEF Statement
    <3>3. wr' \in [Writers -> Statement] BY <1>S, <3>1, <3>2
    <3>4. QED BY <1>T, <2>D, <3>1, <3>3, Disturbed
  <2>2. CASE r.ver = s.snap.ver /\ s.val = None
    <3>1. /\ row' = [row EXCEPT ![p] = NoRow] /\ rcpt' = rcpt \ {p}
          /\ Set(w, IF r.ver = 0 THEN IdleW ELSE [s EXCEPT !.pc = "index"])
      BY <1>2, <2>2 DEF Commit
    <3>2. (IF r.ver = 0 THEN IdleW ELSE [s EXCEPT !.pc = "index"]) \in Statement BY <1>W, IdleTypes DEF Statement
    <3>3. wr' \in [Writers -> Statement] BY <1>S, <3>1, <3>2
    <3>4. row' \in [Pks -> Row] /\ \A q \in Pks : row'[q].iv <= row'[q].ver BY <1>T, <1>N, <3>1
    <3>5. QED BY <1>T, <2>D, <3>1, <3>3, <3>4, Disturbed
  <2>3. CASE r.ver = s.snap.ver /\ s.val # None
    <3> DEFINE n == [ver |-> r.ver + 1, val |-> s.val, ttl |-> t, iv |-> IF r.val # s.val THEN r.ver + 1 ELSE r.iv]
    <3>1. /\ row' = [row EXCEPT ![p] = n] /\ rcpt' = (IF t THEN rcpt \cup {p} ELSE rcpt \ {p})
          /\ Set(w, [s EXCEPT !.pc = "index"])
      BY <1>2, <2>3 DEF Commit
    <3>2. [s EXCEPT !.pc = "index"] \in Statement /\ rcpt' \in SUBSET Pks BY <1>T, <1>W, <3>1 DEF Statement
    <3>3. wr' \in [Writers -> Statement] BY <1>S, <3>1, <3>2
    <3>4. n \in Row /\ n.iv <= n.ver BY <1>W, <2>0, <2>3 DEF Row
    <3>5. row' \in [Pks -> Row] /\ \A q \in Pks : row'[q].iv <= row'[q].ver
      <4> HIDE DEF n
      <4> QED BY <1>T, <3>1, <3>4
    <3>6. QED BY <1>T, <2>D, <3>2, <3>3, <3>5, Disturbed
  <2>4. QED BY <2>1, <2>2, <2>3
<1>3. ASSUME NEW w \in Writers, Segment(w) PROVE RInv'
  <2>1. Set(w, [wr[w] EXCEPT !.pc = "exp"]) /\ Disturb /\ UNCHANGED <<row, rcpt, exp, writes, deaths>>
    BY <1>3 DEF Segment
  <2>2. [wr[w] EXCEPT !.pc = "exp"] \in Statement BY <1>W DEF Statement
  <2>3. wr' \in [Writers -> Statement] BY <1>S, <2>1, <2>2
  <2>4. member' \in SUBSET Member
    <3>1. wr[w].val # None => <<wr[w].val, wr[w].pk, wr[w].snap.ver + 1>> \in Member BY <1>W DEF Member
    <3>2. QED BY <1>3, <1>T, <3>1 DEF Segment
  <2>5. QED BY <1>T, <2>1, <2>3, <2>4, Disturbed
<1>4. ASSUME NEW w \in Writers, Register(w) PROVE RInv'
  <2>1. exp' \in SUBSET Pks BY <1>4, <1>T, <1>W DEF Register
  <2>2. wr' \in [Writers -> Statement] BY <1>4, <1>S, IdleTypes DEF Register
  <2>3. QED BY <1>4, <1>T, <2>1, <2>2, Disturbed DEF Register
<1>5. ASSUME NEW w \in Writers, Die(w) PROVE RInv'
  <2>1. wr' \in [Writers -> Statement] BY <1>5, <1>S, IdleTypes DEF Die
  <2>2. QED BY <1>5, <1>T, <2>1, Disturbed DEF Die, data
<1>6. ASSUME NEW p \in Pks, Expire(p) PROVE RInv'
  <2>1. row' \in [Pks -> Row] /\ \A q \in Pks : row'[q].iv <= row'[q].ver BY <1>6, <1>T, <1>N DEF Expire
  <2>2. QED BY <1>6, <1>T, <2>1, Disturbed DEF Expire
<1>7. ASSUME NEW p \in Pks, SweepRow(p) PROVE RInv'
  BY <1>7, <1>T, Disturbed DEF SweepRow
<1>8. QED BY <1>1, <1>2, <1>3, <1>4, <1>5, <1>6, <1>7

(***************************************************************************)
(* ReconcilePage.                                                          *)
(***************************************************************************)
\* The repair keeps the member that a row that was read should have.
LEMMA CleanSpares ==
    ASSUME OneRow, NEW x \in rec.live
    PROVE  Expected(x[1], x[2]) \notin ToClean
<1> SUFFICES ASSUME NEW y \in rec.live, Drifted(Expected(x[1], x[2]), y) PROVE FALSE BY DEF ToClean
<1>1. x[1] = y[1] /\ IvOf(x[2]) # IvOf(y[2]) BY DEF Drifted, Expected
<1>2. QED BY <1>1 DEF OneRow

LEMMA PageInv ==
    ASSUME RInv, ReconcileStep
    PROVE  RInv'
<1>T. /\ row \in [Pks -> Row] /\ \A p \in Pks : row[p].iv <= row[p].ver
      /\ rcpt \in SUBSET Pks /\ exp \in SUBSET Pks /\ member \in SUBSET Member
      /\ wr \in [Writers -> Statement] /\ writes \in Nat /\ deaths \in Nat
      /\ rec \in PageLocals /\ OneRow
  BY DEF RInv, TypeOK
<1>P. UNCHANGED <<row, rcpt, wr, writes, deaths>>
  BY DEF ReconcileStep, Sample, ReadRows, CheckMembers, ReadBuckets, Clean, Orphans, Unregistered, ReadTTL,
         Enter, Others, data
<1>G. ASSUME rec' \in PageLocals, OneRow', exp' \in SUBSET Pks, member' \in SUBSET Member,
             rec'.quiet => (MissingTrue /\ SeenTrue /\ LostTrue /\ OrphanTrue)'
      PROVE  RInv'
  BY <1>T, <1>P, <1>G DEF RInv, TypeOK
<1>Q. ASSUME rec'.pc \in {"idle", "rows", "forward", "pttl", "enter"}
      PROVE  (MissingTrue /\ SeenTrue /\ LostTrue /\ OrphanTrue)'
  BY <1>Q DEF MissingTrue, SeenTrue, LostTrue, OrphanTrue
<1>1. CASE Sample
  <2>1. PICK o : rec' = [IdleR EXCEPT !.pc = "rows", !.pks = Page(o)] BY <1>1 DEF Sample
  <2>2. Page(o) \in SUBSET Pks BY <1>T DEF Page
  <2>3. rec' \in PageLocals /\ rec'.live = {} /\ rec'.pc = "rows"
    BY <2>1, <2>2, IdleTypes DEF PageLocals, PagePcs, IdleR
  <2>4. OneRow' BY <2>3 DEF OneRow
  <2>5. UNCHANGED <<exp, member>> BY <1>1 DEF Sample, data
  <2>6. QED BY <1>G, <1>Q, <1>T, <2>3, <2>4, <2>5
<1>2. CASE ReadRows
  <2> DEFINE L == {<<p, row[p]>> : p \in {q \in rec.pks : Live(q)}}
             W == {p \in rec.pks : ~Live(p) /\ p \notin rcpt}
  <2>1. rec' = [rec EXCEPT !.pc = "forward", !.pks = {}, !.live = L, !.swept = W] BY <1>2 DEF ReadRows
  <2>2. rec.pks \subseteq Pks BY <1>T DEF PageLocals
  <2>3. L \in SUBSET (Pks \X Row) /\ W \in SUBSET Pks BY <1>T, <2>2
  <2>4. \A x, y \in L : x[1] = y[1] => x = y OBVIOUS
  <2> HIDE DEF L, W
  <2>5. rec' \in PageLocals /\ rec'.live = L /\ rec'.pc = "forward"
    BY <1>T, <2>1, <2>3 DEF PageLocals, PagePcs
  <2>7. OneRow' BY <2>4, <2>5 DEF OneRow
  <2>8. UNCHANGED <<exp, member>> BY <1>2 DEF ReadRows, data
  <2>9. QED BY <1>G, <1>Q, <1>T, <2>5, <2>7, <2>8
<1>3. CASE CheckMembers
  <2>1. rec' = [rec EXCEPT !.pc = "reverse", !.missing = Missing] /\ UNCHANGED <<exp, member>>
    BY <1>3 DEF CheckMembers, Indexed, Missing, data
  <2>2. Missing \in SUBSET Pks BY <1>T DEF Missing, PageLocals
  <2>3. /\ rec' \in PageLocals /\ rec'.live = rec.live /\ rec'.pc = "reverse"
        /\ rec'.missing = Missing
    BY <1>T, <2>1, <2>2 DEF PageLocals, PagePcs
  <2>4. Missing' = Missing BY <2>1, <2>3 DEF Missing
  <2>5. OneRow' BY <1>T, <2>3 DEF OneRow
  <2>6. (MissingTrue /\ SeenTrue /\ LostTrue /\ OrphanTrue)'
    BY <2>3, <2>4 DEF MissingTrue, SeenTrue, LostTrue, OrphanTrue
  <2>7. QED BY <1>G, <1>T, <2>1, <2>3, <2>5, <2>6
<1>4. CASE ReadBuckets
  <2> DEFINE S == {m \in member : InFirst(m) /\ \E x \in rec.live : x[2].val = m[1]}
  <2>1. rec' = [rec EXCEPT !.pc = "clean", !.seen = S] /\ UNCHANGED <<exp, member>> /\ rec.pc = "reverse"
    BY <1>4 DEF ReadBuckets, At, data
  <2>2. S \in SUBSET Member /\ S \subseteq member BY <1>T
  <2> HIDE DEF S
  <2>3. /\ rec' \in PageLocals /\ rec'.live = rec.live /\ rec'.pc = "clean"
        /\ rec'.missing = rec.missing /\ rec'.seen = S /\ rec'.quiet = rec.quiet
    BY <1>T, <2>1, <2>2 DEF PageLocals, PagePcs
  <2>4. Missing' = Missing BY <2>1, <2>3 DEF Missing
  <2>5. OneRow' BY <1>T, <2>3 DEF OneRow
  <2>6. rec'.quiet => (MissingTrue /\ SeenTrue /\ LostTrue /\ OrphanTrue)'
    BY <2>1, <2>2, <2>3, <2>4 DEF RInv, MissingTrue, SeenTrue, LostTrue, OrphanTrue
  <2>7. QED BY <1>G, <1>T, <2>1, <2>3, <2>5, <2>6
<1>5. CASE Clean
  <2> DEFINE here == {x[1] : x \in rec.live}
             found == {m[2] : m \in rec.seen}
             lost == found \ (here \cup rec.swept)
  <2>1. /\ rec' = [rec EXCEPT !.pc = "orphans", !.seen = {}, !.swept = {}, !.lost = lost, !.todo = ToEnter(found, here)]
        /\ member' = member \ ToClean /\ UNCHANGED exp /\ rec.pc = "clean"
    BY <1>5 DEF Clean, At
  <2>2. rec.seen \subseteq Member /\ rec.live \subseteq Pks \X Row BY <1>T DEF PageLocals
  <2>3. found \in SUBSET Pks /\ here \in SUBSET Pks BY <2>2 DEF Member
  <2>4. lost \in SUBSET Pks /\ ToEnter(found, here) \in SUBSET Pks
    BY <2>3 DEF ToEnter
  <2>5. \A p \in lost : \E m \in rec.seen : m[2] = p /\ \A x \in rec.live : x[1] # p OBVIOUS
  <2>6. member' \in SUBSET Member BY <1>T, <2>1
  <2> HIDE DEF lost, found, here
  <2>8. /\ rec' \in PageLocals /\ rec'.live = rec.live /\ rec'.pc = "orphans"
        /\ rec'.missing = rec.missing /\ rec'.lost = lost /\ rec'.quiet = rec.quiet
    BY <1>T, <2>1, <2>4 DEF PageLocals, PagePcs
  <2>9. OneRow' BY <1>T, <2>8 DEF OneRow
  <2>10. Missing' = Missing
    <3>1. \A y \in rec.live : Expected(y[1], y[2]) \in member' <=> Expected(y[1], y[2]) \in member
      BY <1>T, <2>1, CleanSpares
    <3>2. QED BY <2>8, <3>1 DEF Missing
  <2>11. rec.quiet => \A p \in lost : \E m \in member' : m[2] = p
    <3> SUFFICES ASSUME rec.quiet, NEW p \in lost PROVE \E m \in member' : m[2] = p OBVIOUS
    <3>1. PICK m \in rec.seen : m[2] = p /\ \A x \in rec.live : x[1] # p BY <2>5
    <3>2. m \in member BY <2>1 DEF RInv, SeenTrue
    <3>3. m \notin ToClean BY <3>1 DEF ToClean, Drifted
    <3>4. QED BY <2>1, <3>1, <3>2, <3>3
  <2>12. rec'.quiet => (MissingTrue /\ SeenTrue /\ LostTrue /\ OrphanTrue)'
    BY <2>1, <2>8, <2>10, <2>11 DEF RInv, MissingTrue, SeenTrue, LostTrue, OrphanTrue
  <2>14. QED BY <1>G, <1>T, <2>1, <2>6, <2>8, <2>9, <2>12
<1>6. CASE Orphans
  <2> DEFINE O == {p \in rec.lost : IsOrphan(p)}
  <2>1. rec' = [rec EXCEPT !.pc = "zscore", !.lost = {}, !.orphan = O] /\ UNCHANGED <<exp, member>> /\ rec.pc = "orphans"
    BY <1>6 DEF Orphans, At, data
  <2>2. O \in SUBSET Pks /\ \A p \in O : p \in rec.lost /\ IsOrphan(p) BY <1>T DEF PageLocals
  <2> HIDE DEF O
  <2>3. /\ rec' \in PageLocals /\ rec'.live = rec.live /\ rec'.pc = "zscore"
        /\ rec'.missing = rec.missing /\ rec'.orphan = O /\ rec'.quiet = rec.quiet
    BY <1>T, <2>1, <2>2 DEF PageLocals, PagePcs
  <2>4. Missing' = Missing BY <2>1, <2>3 DEF Missing
  <2>5. OneRow' BY <1>T, <2>3 DEF OneRow
  <2>6. \A p : IsOrphan(p)' <=> IsOrphan(p) BY <1>P DEF IsOrphan, Live
  <2>7. rec'.quiet => (MissingTrue /\ SeenTrue /\ LostTrue)'
    BY <2>1, <2>3, <2>4 DEF RInv, MissingTrue, SeenTrue, LostTrue
  <2>8. rec'.quiet => OrphanTrue'
    BY <2>1, <2>2, <2>3, <2>6 DEF RInv, LostTrue, OrphanTrue
  <2>9. QED BY <1>G, <1>T, <2>1, <2>3, <2>5, <2>7, <2>8
<1>7. CASE Unregistered
  <2>1. /\ rec' = [rec EXCEPT !.pc = "pttl", !.live = {}, !.missing = {}, !.orphan = {}, !.todo = rec.todo \ exp]
        /\ UNCHANGED <<exp, member>>
    BY <1>7 DEF Unregistered, data
  <2>2. rec' \in PageLocals /\ rec'.live = {} /\ rec'.pc = "pttl" BY <1>T, <2>1 DEF PageLocals, PagePcs
  <2>3. OneRow' BY <2>2 DEF OneRow
  <2>4. QED BY <1>G, <1>Q, <1>T, <2>1, <2>2, <2>3
<1>8. CASE ReadTTL
  <2>1. rec' = [rec EXCEPT !.pc = "enter", !.todo = {p \in rec.todo : Live(p)}] /\ UNCHANGED <<exp, member>>
    BY <1>8 DEF ReadTTL, data
  <2>2. rec' \in PageLocals /\ rec'.live = rec.live /\ rec'.pc = "enter" BY <1>T, <2>1 DEF PageLocals, PagePcs
  <2>3. OneRow' BY <1>T, <2>2 DEF OneRow
  <2>4. QED BY <1>G, <1>Q, <1>T, <2>1, <2>2, <2>3
<1>9. CASE Enter
  <2>1. rec' = IdleR /\ exp' = exp \cup rec.todo /\ UNCHANGED member BY <1>9 DEF Enter
  <2>2. rec' \in PageLocals /\ rec'.live = {} /\ rec'.pc = "idle" /\ rec.todo \subseteq Pks
    BY <1>T, <2>1, IdleTypes DEF IdleR, PageLocals
  <2>3. OneRow' BY <2>2 DEF OneRow
  <2>4. QED BY <1>G, <1>Q, <1>T, <2>1, <2>2, <2>3
<1>10. QED BY <1>1, <1>2, <1>3, <1>4, <1>5, <1>6, <1>7, <1>8, <1>9 DEF ReconcileStep

LEMMA RInvStep == RInv /\ [Next]_vars => RInv'
<1> SUFFICES ASSUME RInv, [Next]_vars PROVE RInv' OBVIOUS
<1>1. CASE ReconcileStep BY <1>1, PageInv
<1>2. CASE UNCHANGED vars
  <2>1. UNCHANGED <<row, rcpt, exp, member, wr, rec, writes, deaths>> BY <1>2 DEF vars
  <2>2. TypeOK' BY <2>1 DEF RInv, TypeOK
  <2>3. QED BY <2>1, <2>2 DEF RInv, OneRow, MissingTrue, Missing, SeenTrue, LostTrue, OrphanTrue, IsOrphan, Live
<1>3. QED BY <1>1, <1>2, OthersInv DEF Next

LEMMA RInvAlways == Spec => []RInv
BY RInvInit, RInvStep, PTL DEF Spec

(***************************************************************************)
(* The theorems.                                                           *)
(***************************************************************************)
\* The store, the statements and the reconciler's locals keep their types, and a stamp is
\* never above its row's version.
THEOREM TypeCorrect == Spec => []TypeOK
<1>1. RInv => TypeOK BY DEF RInv
<1>2. QED BY <1>1, RInvAlways, PTL

\* ReconcilePage's reports: when nobody else has moved since the page was read, the rows
\* reported as missing are those that are, although the repair of stale members lies
\* between the check and the report, and what is reported as an orphan is one.
THEOREM ReportsAreTrue == Spec => []ReportsTrue
<1>1. RInv => ReportsTrue
  BY DEF RInv, ReportsTrue, At, MissingTrue, Missing, OrphanTrue, IsOrphan
<1>2. QED BY <1>1, RInvAlways, PTL
=============================================================================
