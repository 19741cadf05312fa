------------------------------- MODULE Elector -------------------------------
(***************************************************************************)
(* The election of the controller (controller/elector.go, lock_renew.lua,  *)
(* lock_release.lua): a Redis key with a TTL is the office, a watchdog     *)
(* renews it every third of the TTL, and a renewal that fails cancels the  *)
(* context of the role.                                                    *)
(*                                                                         *)
(* Time is counted in thirds of the TTL.  Within a third everything that   *)
(* has a deadline in it is done before the next Tick; a Stall breaks this. *)
(* How long a campaigner sleeps (backoff by load, the vacancy clock,       *)
(* jitter) only delays its next attempt, so it may try at any time.        *)
(***************************************************************************)
EXTENDS Naturals

CONSTANTS
    Nodes,        \* the gateway instances; a node is also its lock token
    NoOne,        \* the lock key does not exist
    Gone,         \* the token of an instance that died
    MaxOld,       \* bound: abandoned role goroutines per node
    MaxFaults     \* bound: failures, stalls, crashes and shutdowns

ASSUME TokenAssumption == NoOne \notin Nodes /\ Gone \notin Nodes /\ NoOne # Gone
ASSUME ElectorBounds == MaxOld \in Nat /\ MaxFaults \in Nat

VARIABLES
    lock,      \* the value of lk:ctrl
    left,      \* thirds of the TTL until it expires
    pc,        \* per node: where Campaign is
    ctx,       \* per node: roleCtx of the current term
    wd,        \* per node: the watchdog goroutine
    pend,      \* per node: the watchdog's ticker has fired
    late,      \* per node: the renewal in flight is past its timeout
    old,       \* per node: role goroutines of earlier terms that still run
    flight,    \* per node: a release that timed out may still be executed
    quit,      \* per node: the context of Campaign is cancelled
    faults,    \* the number of failures so far
    untimely   \* history: a deadline was missed

lockvars == <<lock, left>>
nodevars == <<pc, ctx, wd, pend, late, old, flight, quit>>
evars == <<lockvars, nodevars, faults, untimely>>

Thirds == 3

EInit ==
    /\ lock = NoOne /\ left = 0
    /\ pc = [n \in Nodes |-> "sleep"]
    /\ ctx = [n \in Nodes |-> "none"]
    /\ wd = [n \in Nodes |-> "off"]
    /\ pend = [n \in Nodes |-> FALSE]
    /\ late = [n \in Nodes |-> FALSE]
    /\ old = [n \in Nodes |-> 0]
    /\ flight = [n \in Nodes |-> FALSE]
    /\ quit = [n \in Nodes |-> FALSE]
    /\ faults = 0
    /\ untimely = FALSE

\* Something goes wrong: at most MaxFaults times.
Fails == faults < MaxFaults /\ faults' = faults + 1

(***************************************************************************)
(* Campaign: the contest.                                                  *)
(***************************************************************************)

\* The backoff is over.
WakeUp(n) ==
    /\ pc[n] = "sleep" /\ ~quit[n]
    /\ pc' = [pc EXCEPT ![n] = "try"]
    /\ UNCHANGED <<lockvars, ctx, wd, pend, late, old, flight, quit, faults, untimely>>

\* SET NX PX finds no lock.
Acquire(n) ==
    /\ pc[n] = "try" /\ lock = NoOne
    /\ lock' = n /\ left' = Thirds
    /\ pc' = [pc EXCEPT ![n] = "got"]
    /\ UNCHANGED <<ctx, wd, pend, late, old, flight, quit, faults, untimely>>

\* SET NX PX finds a lock, its own included; trackVacancy, sleep.
Denied(n) ==
    /\ pc[n] = "try" /\ lock # NoOne
    /\ pc' = [pc EXCEPT ![n] = "sleep"]
    /\ UNCHANGED <<lockvars, ctx, wd, pend, late, old, flight, quit, faults, untimely>>

\* The SET fails, also because Campaign is told to stop, or it is executed and its
\* reply is lost: then the node has the lock and does not know.
AcquireFails(n) ==
    /\ pc[n] = "try"
    /\ IF quit[n] THEN UNCHANGED faults ELSE Fails
    /\ \/ UNCHANGED lockvars
       \/ lock = NoOne /\ lock' = n /\ left' = Thirds
    /\ pc' = [pc EXCEPT ![n] = "sleep"]
    /\ UNCHANGED <<ctx, wd, pend, late, old, flight, quit, untimely>>

\* The reply arrives: the term begins with a role and a watchdog.
Granted(n) ==
    /\ pc[n] = "got"
    /\ pc' = [pc EXCEPT ![n] = "work"]
    /\ ctx' = [ctx EXCEPT ![n] = IF quit[n] THEN "cancelled" ELSE "live"]
    /\ wd' = [wd EXCEPT ![n] = "wait"]
    /\ pend' = [pend EXCEPT ![n] = FALSE]
    /\ late' = [late EXCEPT ![n] = FALSE]
    /\ UNCHANGED <<lockvars, old, flight, quit, faults, untimely>>

(***************************************************************************)
(* runWatchdog.                                                            *)
(***************************************************************************)

\* The watchdog returns after cancelling the role's context.
CancelRole(n) ==
    /\ ctx' = [ctx EXCEPT ![n] = "cancelled"]
    /\ wd' = [wd EXCEPT ![n] = "off"]
    /\ pend' = [pend EXCEPT ![n] = FALSE]
    /\ late' = [late EXCEPT ![n] = FALSE]
    /\ UNCHANGED <<pc, old, flight, quit>>

\* The node has become busy: it concedes.
Concede(n) ==
    /\ wd[n] = "wait" /\ pend[n]
    /\ CancelRole(n)
    /\ UNCHANGED <<lockvars, faults, untimely>>

\* The ticker fires and the renewal is sent, with a timeout of a third.
Renew(n) ==
    /\ wd[n] = "wait" /\ pend[n]
    /\ wd' = [wd EXCEPT ![n] = "renew"]
    /\ pend' = [pend EXCEPT ![n] = FALSE]
    /\ late' = [late EXCEPT ![n] = FALSE]
    /\ UNCHANGED <<lockvars, pc, ctx, old, flight, quit, faults, untimely>>

\* lock_renew.lua: the lock has the node's token.
RenewOk(n) ==
    /\ wd[n] = "renew" /\ lock = n
    /\ left' = Thirds
    /\ wd' = [wd EXCEPT ![n] = "wait"]
    /\ late' = [late EXCEPT ![n] = FALSE]
    /\ UNCHANGED <<lock, pc, ctx, pend, old, flight, quit, faults, untimely>>

\* Mutant: a renewal that is refused is tried again at the next tick.
RenewShrugs(n) ==
    /\ wd[n] = "renew" /\ lock # n
    /\ wd' = [wd EXCEPT ![n] = "wait"]
    /\ late' = [late EXCEPT ![n] = FALSE]
    /\ UNCHANGED <<lockvars, pc, ctx, pend, old, flight, quit, faults, untimely>>

\* lock_renew.lua: the lock is another's, or has expired.
RenewRefused(n) ==
    /\ wd[n] = "renew" /\ lock # n
    /\ CancelRole(n)
    /\ UNCHANGED <<lockvars, faults, untimely>>

\* The renewal times out or fails, executed or not.
RenewFails(n) ==
    /\ wd[n] = "renew"
    /\ IF late[n] THEN UNCHANGED faults ELSE Fails
    /\ CancelRole(n)
    /\ UNCHANGED lock
    /\ left' = left \/ (lock = n /\ left' = Thirds)
    /\ UNCHANGED untimely

WatchdogStops(n) ==
    /\ wd[n] = "wait" /\ ctx[n] = "cancelled"
    /\ wd' = [wd EXCEPT ![n] = "off"]
    /\ pend' = [pend EXCEPT ![n] = FALSE]
    /\ UNCHANGED <<lockvars, pc, ctx, late, old, flight, quit, faults, untimely>>

(***************************************************************************)
(* runRole and the end of the term.                                        *)
(***************************************************************************)

\* The context is cancelled: runRole returns, whether the role has returned or
\* is still in the middle of a step.
RoleReturns(n) ==
    /\ pc[n] = "work" /\ ctx[n] = "cancelled"
    /\ pc' = [pc EXCEPT ![n] = "stop"]
    /\ \/ UNCHANGED old
       \/ old[n] < MaxOld /\ old' = [old EXCEPT ![n] = @ + 1]
    /\ UNCHANGED <<lockvars, ctx, wd, pend, late, flight, quit, faults, untimely>>

\* A role left behind finishes its step and sees the cancellation.
OldRoleEnds(n) ==
    /\ old[n] > 0
    /\ old' = [old EXCEPT ![n] = @ - 1]
    /\ UNCHANGED <<lockvars, pc, ctx, wd, pend, late, flight, quit, faults, untimely>>

\* The watchdog is done: the node is no longer owner.
Stopped(n) ==
    /\ pc[n] = "stop" /\ wd[n] = "off"
    /\ pc' = [pc EXCEPT ![n] = "release"]
    /\ ctx' = [ctx EXCEPT ![n] = "none"]
    /\ UNCHANGED <<lockvars, wd, pend, late, old, flight, quit, faults, untimely>>

\* Mutant: the lock is deleted whosever it is.
ReleaseAny(n) ==
    /\ pc[n] = "release"
    /\ lock' = NoOne /\ left' = 0
    /\ pc' = [pc EXCEPT ![n] = "sleep"]
    /\ UNCHANGED <<ctx, wd, pend, late, old, flight, quit, faults, untimely>>

\* lock_release.lua: DEL if the lock has the node's token.
Release(n) ==
    /\ pc[n] = "release"
    /\ IF lock = n THEN lock' = NoOne /\ left' = 0 ELSE UNCHANGED lockvars
    /\ pc' = [pc EXCEPT ![n] = "sleep"]
    /\ UNCHANGED <<ctx, wd, pend, late, old, flight, quit, faults, untimely>>

\* The release times out; the error is ignored.
ReleaseFails(n) ==
    /\ Fails /\ pc[n] = "release"
    /\ pc' = [pc EXCEPT ![n] = "sleep"]
    /\ flight' = [flight EXCEPT ![n] = TRUE]
    /\ UNCHANGED <<lockvars, ctx, wd, pend, late, old, quit, untimely>>

\* The release is executed after all.  All terms of a node have the same token.
LateRelease(n) ==
    /\ flight[n]
    /\ flight' = [flight EXCEPT ![n] = FALSE]
    /\ IF lock = n THEN lock' = NoOne /\ left' = 0 /\ untimely' = TRUE
                   ELSE UNCHANGED <<lockvars, untimely>>
    /\ UNCHANGED <<pc, ctx, wd, pend, late, old, quit, faults>>

(***************************************************************************)
(* The life of a node.                                                     *)
(***************************************************************************)

\* Server.Close cancels the context of Campaign.
Shutdown(n) ==
    /\ Fails /\ ~quit[n] /\ pc[n] # "down"
    /\ quit' = [quit EXCEPT ![n] = TRUE]
    /\ ctx' = [ctx EXCEPT ![n] = IF @ = "live" THEN "cancelled" ELSE @]
    /\ UNCHANGED <<lockvars, pc, wd, pend, late, old, flight, untimely>>

\* The process is no more; its token is nobody's from now on.
Dies(n) ==
    /\ lock' = IF lock = n THEN Gone ELSE lock
    /\ pc' = [pc EXCEPT ![n] = "down"]
    /\ ctx' = [ctx EXCEPT ![n] = "none"]
    /\ wd' = [wd EXCEPT ![n] = "off"]
    /\ pend' = [pend EXCEPT ![n] = FALSE]
    /\ late' = [late EXCEPT ![n] = FALSE]
    /\ old' = [old EXCEPT ![n] = 0]
    /\ flight' = [flight EXCEPT ![n] = FALSE]
    /\ quit' = [quit EXCEPT ![n] = FALSE]
    /\ UNCHANGED <<left, untimely>>

\* Campaign returns the context's error, and the process ends.
Exit(n) ==
    /\ pc[n] = "sleep" /\ quit[n]
    /\ Dies(n)
    /\ UNCHANGED faults

Crash(n) == Fails /\ pc[n] # "down" /\ Dies(n)

\* A new process, with a new token.
Restart(n) ==
    /\ pc[n] = "down"
    /\ pc' = [pc EXCEPT ![n] = "sleep"]
    /\ UNCHANGED <<lockvars, ctx, wd, pend, late, old, flight, quit, faults, untimely>>

(***************************************************************************)
(* Time.                                                                   *)
(***************************************************************************)

\* Mutant: the renewal has no timeout.
OverdueNoTimeout(n) ==
    pc[n] = "got" \/ (ctx[n] = "live" /\ wd[n] = "wait" /\ pend[n])

\* A reply of SET, a ticker that fired, or the timeout of a renewal is waiting.
Overdue(n) ==
    \/ pc[n] = "got"
    \/ ctx[n] = "live" /\ wd[n] = "wait" /\ pend[n]
    \/ ctx[n] = "live" /\ wd[n] = "renew" /\ late[n]

\* Mutant: the lock has no PX.
ThirdForever ==
    /\ pend' = [n \in Nodes |-> pend[n] \/ wd[n] # "off"]
    /\ late' = [n \in Nodes |-> late[n] \/ wd[n] = "renew"]
    /\ UNCHANGED <<lockvars, pc, ctx, wd, old, flight, quit>>

\* A third of the TTL passes: the key's PX and the tickers run.
Third ==
    /\ lock' = IF left <= 1 THEN NoOne ELSE lock
    /\ left' = IF left = 0 THEN 0 ELSE left - 1
    /\ pend' = [n \in Nodes |-> pend[n] \/ wd[n] # "off"]
    /\ late' = [n \in Nodes |-> late[n] \/ wd[n] = "renew"]
    /\ UNCHANGED <<pc, ctx, wd, old, flight, quit>>

Tick ==
    /\ \A n \in Nodes : ~Overdue(n)
    /\ Third
    /\ UNCHANGED <<faults, untimely>>

\* A pause of a process, or a slow reply, of more than a third.
Stall ==
    /\ Fails /\ \E n \in Nodes : Overdue(n)
    /\ Third
    /\ untimely' = TRUE

\* The three goroutines of a node.
CampaignStep(n) ==
    \/ WakeUp(n) \/ Exit(n) \/ Acquire(n) \/ Denied(n) \/ Granted(n)
    \/ RoleReturns(n) \/ Stopped(n) \/ Release(n)
WatchdogStep(n) ==
    Concede(n) \/ Renew(n) \/ RenewOk(n) \/ RenewRefused(n) \/ WatchdogStops(n)

Fault(n) ==
    \/ AcquireFails(n) \/ RenewFails(n) \/ ReleaseFails(n) \/ LateRelease(n)
    \/ Shutdown(n) \/ Crash(n)

ENext ==
    \/ \E n \in Nodes :
          \/ CampaignStep(n) \/ WatchdogStep(n) \/ OldRoleEnds(n)
          \/ Fault(n) \/ Restart(n)
    \/ Tick
    \/ Stall

ESpec == EInit /\ [][ENext]_evars

\* Goroutines run and time passes; Go's select does not for ever prefer the ticker
\* to the cancelled context.  Nobody has to restart a node.
EFairSpec ==
    /\ ESpec
    /\ WF_evars(Tick)
    /\ \A n \in Nodes :
          /\ WF_evars(CampaignStep(n)) /\ WF_evars(OldRoleEnds(n))
          /\ WF_evars(WatchdogStep(n)) /\ SF_evars(WatchdogStops(n))

(***************************************************************************)
(* Properties.                                                             *)
(***************************************************************************)

\* The types of the lock, of the goroutines' state and of the counters.
ETypeOK ==
    /\ lock \in Nodes \cup {NoOne, Gone}
    /\ left \in 0 .. Thirds
    /\ pc \in [Nodes -> {"sleep", "try", "got", "work", "stop", "release", "down"}]
    /\ ctx \in [Nodes -> {"none", "live", "cancelled"}]
    /\ wd \in [Nodes -> {"off", "wait", "renew"}]
    /\ pend \in [Nodes -> BOOLEAN]
    /\ late \in [Nodes -> BOOLEAN]
    /\ old \in [Nodes -> Nat]
    /\ flight \in [Nodes -> BOOLEAN]
    /\ quit \in [Nodes -> BOOLEAN]
    /\ faults \in Nat
    /\ untimely \in BOOLEAN

\* A node that was not told to stop has the lock: as long as the deadlines of
\* elector.go are kept (a renewal every third of the TTL, given up after another
\* third), no failure of renewals, releases or processes lets the lock expire or
\* pass to another node under a role whose context is not cancelled.
ActiveHoldsLock == ~untimely => \A n \in Nodes : ctx[n] = "live" => lock = n

\* Why: the time left on the lock covers what the watchdog may still take.
Covered(n) ==
    /\ ctx[n] = "live" =>
          /\ pc[n] = "work"
          /\ wd[n] # "off"
          /\ lock = n
          /\ left >= 1
          /\ ~(wd[n] = "renew" /\ late[n]) => left >= 2
          /\ wd[n] = "wait" /\ ~pend[n] => left >= 3
    /\ pc[n] = "got" => lock = n /\ left = 3
    /\ ctx[n] # "none" \/ wd[n] # "off" => pc[n] \in {"work", "stop"}

\* The inductive strengthening of ActiveHoldsLock.
LeaseInv == ETypeOK /\ (~untimely => \A n \in Nodes : Covered(n))

\* A node that lost the lock, by a pause or by a late release, is told to stop (or
\* has the lock again): the next renewal is refused, and a refusal cancels.
DeposedStops ==
    \A n \in Nodes :
        (ctx[n] = "live" /\ lock # n) ~> (ctx[n] # "live" \/ lock = n)

\* The controller's work goes on: after any failures, a node that is up gets the
\* lock again, also when the lock was left behind by a dead process or is held
\* by a node that does not know it has it.
WorkResumes ==
    []<>((\E n \in Nodes : ctx[n] = "live") \/ (\A n \in Nodes : pc[n] = "down"))

AtWork(n) == ctx[n] = "live" \/ old[n] > 0

\* docs/08 8.5: a node that fails to renew stops working on the spot, so that no
\* two nodes are at work.  (runRole returns and the lock is released while the
\* role is still in the middle of a step.)
OneAtWork ==
    ~untimely => \A m, n \in Nodes : AtWork(m) /\ AtWork(n) => m = n
=============================================================================
