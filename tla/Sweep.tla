-------------------------------- MODULE Sweep --------------------------------
(***************************************************************************)
(* The expiry sweeper (sweeper/sweeper.go, script/lua/sweep_batch.lua, the *)
(* register lock of gateway/roles.go) running beside the writers of        *)
(* RowWrite.                                                               *)
(*                                                                         *)
(* A sweep finds the pk in the register, reads its receipt, has the row    *)
(* slot confirm the row's death and delete the receipt (one Lua), and only *)
(* then removes the receipt's members and the register entry, which live   *)
(* in other slots.                                                         *)
(***************************************************************************)
EXTENDS RowWrite

CONSTANT Sweepers    \* the gateway instances that run sweeperLoop

VARIABLES
    lock,     \* the register lock lk:sweep:{table} is held
    spc,      \* per sweeper: where it is
    srcpt,    \* per sweeper: the receipt it read
    srem,     \* per sweeper: the members it still has to remove
    sreg,     \* per sweeper: it still has to remove the register entry
    late,     \* history: this incarnation met the client segment of a sweep
    ssent,    \* per sweeper: how often its client segment was sent again
    raced,    \* history: the row changed or died inside another call's index
              \* segment, or was born inside a sweep's client segment
    orphaned  \* history: a receipt is gone and its members were not removed (it was
              \* deleted or replaced unread, a sweep failed, it expired), or a commit
              \* lost its index segment

svars == <<lock, spc, srcpt, srem, sreg, ssent, late, raced, orphaned>>
allvars == <<vars, svars>>

SInit ==
    /\ Init
    /\ lock = FALSE
    /\ spc = [s \in Sweepers |-> "idle"]
    /\ srcpt = [s \in Sweepers |-> {}]
    /\ srem = [s \in Sweepers |-> {}]
    /\ sreg = [s \in Sweepers |-> FALSE]
    /\ ssent = [s \in Sweepers |-> 0]
    /\ late = FALSE
    /\ raced = FALSE
    /\ orphaned = FALSE

\* SweepShard returns; the lock is neither renewed nor released.
Rest(s) ==
    /\ spc' = [spc EXCEPT ![s] = "idle"]
    /\ srcpt' = [srcpt EXCEPT ![s] = {}]
    /\ srem' = [srem EXCEPT ![s] = {}]
    /\ sreg' = [sreg EXCEPT ![s] = FALSE]
    /\ ssent' = [ssent EXCEPT ![s] = 0]

\* SET lockKey NX PX 2*tick.
TakeLock(s) ==
    /\ spc[s] = "idle" /\ ~lock
    /\ lock' = TRUE
    /\ spc' = [spc EXCEPT ![s] = "find"]
    /\ UNCHANGED <<vars, srcpt, srem, sreg, ssent, late, raced, orphaned>>

\* Mutant: the lock is taken without a PX.
LockStays == FALSE /\ UNCHANGED allvars

\* The lock's PX runs out, whether or not the sweep is finished.
LockLapses == lock /\ lock' = FALSE /\ UNCHANGED <<vars, spc, srcpt, srem, sreg, ssent, late, raced, orphaned>>

\* ZRANGEBYSCORE returns the pk.  The writer's clock made the score, so a pk may
\* be found before its row has expired.
Find(s) ==
    /\ spc[s] = "find" /\ exp = "due"
    /\ spc' = [spc EXCEPT ![s] = "read"]
    /\ UNCHANGED <<vars, lock, srcpt, srem, sreg, ssent, late, raced, orphaned>>

FindNothing(s) ==
    /\ spc[s] = "find" /\ (exp # "due" \/ Live)
    /\ Rest(s)
    /\ UNCHANGED <<vars, lock, late, raced, orphaned>>

\* HGETALL receipt.
ReadRcpt(s) ==
    /\ spc[s] = "read"
    /\ srcpt' = [srcpt EXCEPT ![s] = rcpt]
    /\ spc' = [spc EXCEPT ![s] = "lua"]
    /\ UNCHANGED <<vars, lock, srem, sreg, ssent, late, raced, orphaned>>

\* Mutant: the script does not look at the row.
SweepUnchecked(s) ==
    /\ spc[s] = "lua"
    /\ rcpt' = {}
    /\ spc' = [spc EXCEPT ![s] = "clean"]
    /\ srem' = [srem EXCEPT ![s] = srcpt[s]]
    /\ sreg' = [sreg EXCEPT ![s] = TRUE]
    /\ orphaned' = (orphaned \/ rcpt # srcpt[s])
    /\ UNCHANGED <<srcpt, ssent, row, idx, exp, calls, hist, lock, late, raced>>

\* sweep_batch.lua: a live row is skipped; a dead one loses its receipt.
SweepBatch(s) ==
    /\ spc[s] = "lua"
    /\ IF Live
       THEN Rest(s) /\ UNCHANGED rcpt
       ELSE /\ rcpt' = {}
            /\ spc' = [spc EXCEPT ![s] = "clean"]
            /\ srem' = [srem EXCEPT ![s] = srcpt[s]]
            /\ sreg' = [sreg EXCEPT ![s] = TRUE]
            /\ UNCHANGED <<srcpt, ssent>>
    /\ orphaned' = (orphaned \/ (~Live /\ rcpt # srcpt[s]))
    /\ UNCHANGED <<row, idx, exp, calls, hist, lock, late, raced>>

CleanMember(s, m) ==
    /\ spc[s] = "clean" /\ m \in srem[s]
    /\ idx' = idx \ {m}
    /\ srem' = [srem EXCEPT ![s] = srem[s] \ {m}]
    /\ UNCHANGED <<row, rcpt, exp, calls, hist, lock, spc, srcpt, sreg, ssent, late, raced, orphaned>>

CleanRegister(s) ==
    /\ spc[s] = "clean" /\ sreg[s]
    /\ exp' = "none"
    /\ sreg' = [sreg EXCEPT ![s] = FALSE]
    /\ UNCHANGED <<row, rcpt, idx, calls, hist, lock, spc, srcpt, srem, ssent, late, raced, orphaned>>

SweepDone(s) ==
    /\ spc[s] = "clean" /\ srem[s] = {} /\ ~sreg[s]
    /\ Rest(s)
    /\ UNCHANGED <<vars, lock, late, raced, orphaned>>

\* A transient error of the client segment: the whole batch is sent again.
SweepResend(s) ==
    /\ "sweep" \in Faults /\ spc[s] = "clean" /\ ssent[s] + 1 < MaxAttempts
    /\ ssent' = [ssent EXCEPT ![s] = @ + 1]
    /\ srem' = [srem EXCEPT ![s] = srcpt[s]]
    /\ sreg' = [sreg EXCEPT ![s] = TRUE]
    /\ UNCHANGED <<vars, lock, spc, srcpt, late, raced, orphaned>>

\* A command fails for good, or the process dies.
SweepFails(s) ==
    /\ "sweep" \in Faults /\ spc[s] # "idle"
    /\ Rest(s)
    /\ orphaned' = (orphaned \/ srem[s] # {})
    /\ UNCHANGED <<vars, lock, late, raced>>

SweeperStep(s) ==
    \/ TakeLock(s) \/ Find(s) \/ FindNothing(s) \/ ReadRcpt(s) \/ SweepBatch(s)
    \/ \E m \in srem[s] : CleanMember(s, m)
    \/ CleanRegister(s) \/ SweepDone(s)

\* A step of the writers.  History: a birth is late when a client segment of
\* some sweep of the dead row is still running; a commit or a death races when it
\* finds another call in its index segment; a commit replaces a receipt unread when
\* its version check passes on another incarnation than the one it read.
Misread(c) == pc[c] = "lua" /\ (snap[c] # row \/ (~Live /\ rsnap[c] # rcpt))

WriterStep ==
    /\ Next
    /\ late' = IF row.ver = 0 /\ row'.ver # 0
               THEN \E s \in Sweepers : spc[s] = "clean"
               ELSE late
    /\ raced' = \/ raced
                \/ row' # row /\ \E c \in Clients : pc[c] = "index"
                \/ ~Live /\ row'.ver # 0 /\ \E s \in Sweepers : spc[s] = "clean"
    /\ orphaned' = \/ orphaned
                   \/ ~Live /\ row'.ver = 0 /\ rcpt' # rcpt
                   \/ \E c \in Clients : Misread(c) /\ pc'[c] = "index"
                   \/ fault' # "none"
    /\ UNCHANGED <<lock, spc, srcpt, srem, sreg, ssent>>

SNext ==
    \/ WriterStep
    \/ LockLapses
    \/ \E s \in Sweepers : SweeperStep(s) \/ SweepResend(s) \/ SweepFails(s)

SSpec == SInit /\ [][SNext]_allvars

\* Sweepers run on a ticker and the lock has a TTL; the writers' goroutines run.
SFairSpec ==
    /\ SSpec
    /\ WF_allvars(LockLapses)
    /\ \A s \in Sweepers : WF_allvars(SweeperStep(s))
    /\ \A c \in Clients : WF_allvars(ClientStep(c) /\ WriterStep)

(***************************************************************************)
(* Properties.                                                             *)
(***************************************************************************)
\* The types of the writers' and the sweepers' state; the members a sweep works
\* on are well-formed index members.
STypeOK ==
    /\ TypeOK
    /\ lock \in BOOLEAN /\ late \in BOOLEAN /\ raced \in BOOLEAN /\ orphaned \in BOOLEAN
    /\ spc \in [Sweepers -> {"idle", "find", "read", "lua", "clean"}]
    /\ srcpt \in [Sweepers -> SUBSET Member]
    /\ srem \in [Sweepers -> SUBSET Member]
    /\ sreg \in [Sweepers -> BOOLEAN]
    /\ ssent \in [Sweepers -> Nat]

\* The sweepers never hurt a live row: a row that was born while no sweep of its
\* dead predecessor was in its client segment stays indexed and registered,
\* however long the sweeps that start later or read old receipts take.
SweepSpares ==
    (~overlap /\ ~late /\ fault = "none") =>
        /\ Indexed
        /\ Live => \/ exp # "none"
                   \/ \E c \in Clients : reg[c] \in {"inf", "due"}

AtRest == (\A c \in Clients : pc[c] = "idle") /\ (\A s \in Sweepers : spc[s] = "idle")

\* The row is dead, nothing is running and the register no longer knows the pk:
\* nobody will come back for a member that is left in the index.
Forgotten == AtRest /\ ~Live /\ exp = "none" /\ fault = "none" /\ ~raced

\* Nothing else leaks: a forgotten pk has no member left in the index, however
\* sweeps, re-sends, revivals and updates of the row interleave, unless a receipt
\* was lost, or the row was written or died in the middle of another write: the
\* late ZADD of the other write is dirt that reconcile.go counts.
SweptClean == (Forgotten /\ ~orphaned) => idx = {}

\* An expired row that is registered is swept, unless it is born again: whatever
\* sweeps failed half-way, and whoever took the lock and died, the next tick that
\* is let through finds the pk in the register.
EventuallySwept ==
    <>[][\A s \in Sweepers : ~SweepFails(s)]_allvars =>
        ((~Live /\ exp = "due") ~> (Live \/ exp # "due"))

\* docs/07 7.3: sweeping is idempotent and progress is the data itself, so that
\* whatever is due is found and cleaned.
NothingLeaks == Forgotten => idx = {}
=============================================================================
