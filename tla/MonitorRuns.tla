---------------------------- MODULE MonitorRuns -----------------------------
(***************************************************************************)
(* The execution monitor's runs: JobRunner's monitor job and               *)
(* Orchestrator.run_monitor_once under the OS lock of monitor_ownership,   *)
(* the recovery of rows whose owner is gone, the fuse, and the health that *)
(* is read from the ledger.  One step is one transaction or one lock       *)
(* operation.  Time is counted in monitor intervals.                       *)
(***************************************************************************)
EXTENDS Integers, FiniteSets

CONSTANTS
    Agents,        \* processes or threads that may drive a monitor pass
    Epochs,        \* identities of ownership scopes (uuid4; unused ones come back)
    MaxFailures,   \* scheduler_max_consecutive_failures
    MaxCrashes     \* bound: deaths of an agent

Nobody == "nobody"
ASSUME AgentsAssumption == Agents # {} /\ Nobody \notin Agents
ASSUME EpochsAssumption == Nobody \notin Epochs
ASSUME FuseAssumption   == MaxFailures \in Nat \ {0} /\ MaxCrashes \in Nat

Kinds == {"worker",   \* the launchd role, which owns the lock for its whole life
          "tick",     \* scheduler_run_once
          "manual",   \* scheduler_run_job
          "direct"}   \* monitor_once, from the console
Scheduled == {"worker", "tick"}

\* Ages in intervals: at LastAge a row is stalled and a success is stale.
LastAge == 2
Never   == LastAge + 1
Ages    == 0..LastAge
Rows    == [epoch : Epochs, age : Ages]

Pcs == {"idle", "dispatch", "own", "recover", "gate", "adopt", "open", "work",
        "close", "finish", "fail", "leave"}

VARIABLES
    holder, epoch,   \* who holds monitor_ownership, and its epoch
    jobs,            \* monitor rows of job_runs that are 'started'
    passes,          \* monitor rows of scheduler_runs that are 'started'
    streak,          \* newest failed job rows, up to MaxFailures
    since,           \* age of the newest completed job row
    taken,           \* a completed row has the present interval's lock key
    troubled,        \* the newest completed job reported execution errors
    fuseTold,        \* scheduler_fused logged since the last completed row
    pc, kind,        \* each agent's control point and entry point
    errors,          \* the pass it ran reported execution errors
    crashes

ledger == <<jobs, passes, streak, since, taken, troubled, fuseTold>>
lock   == <<holder, epoch>>
vars   == <<lock, ledger, pc, kind, errors, crashes>>

TypeOK ==
    /\ holder \in Agents \cup {Nobody} /\ epoch \in Epochs \cup {Nobody}
    /\ jobs \subseteq Rows /\ passes \subseteq Rows
    /\ streak \in 0..MaxFailures /\ since \in 0..Never
    /\ taken \in BOOLEAN /\ troubled \in BOOLEAN /\ fuseTold \in BOOLEAN
    /\ pc \in [Agents -> Pcs] /\ kind \in [Agents -> Kinds]
    /\ errors \in [Agents -> BOOLEAN] /\ crashes \in 0..MaxCrashes

Init ==
    /\ holder = Nobody /\ epoch = Nobody
    /\ jobs = {} /\ passes = {}
    /\ streak = 0 /\ since = Never /\ taken = FALSE
    /\ troubled = FALSE /\ fuseTold = FALSE
    /\ pc = [a \in Agents |-> "idle"] /\ kind = [a \in Agents |-> "direct"]
    /\ errors = [a \in Agents |-> FALSE]
    /\ crashes = 0

Goto(a, p) == pc' = [pc EXCEPT ![a] = p]
Gone(a) ==
    /\ Goto(a, "idle")
    /\ kind' = [kind EXCEPT ![a] = "direct"]
    /\ errors' = [errors EXCEPT ![a] = FALSE]
Started    == jobs \cup passes
Mine(rows) == {r \in rows : r.epoch = epoch}
Fused      == streak >= MaxFailures
Due        == since >= 1
-----------------------------------------------------------------------------
(* Ownership.                                                              *)

\* Bug: the lock file is not held across the pass.
ClaimShared(a) ==
    /\ holder' = a
    /\ \E e \in Epochs \ {r.epoch : r \in Started} : epoch' = e

Claim(a) ==
    /\ holder = Nobody
    /\ holder' = a
    /\ \E e \in Epochs \ {r.epoch : r \in Started} : epoch' = e

Release(a) ==
    IF holder = a THEN holder' = Nobody /\ epoch' = Nobody ELSE UNCHANGED lock

\* A process starts.  The worker claims the lock first or gives up at once.
Begin(a, k) ==
    /\ pc[a] = "idle"
    /\ kind' = [kind EXCEPT ![a] = k]
    /\ IF k = "worker"
       THEN Claim(a) /\ Goto(a, "dispatch")
       ELSE UNCHANGED lock /\ Goto(a, IF k = "tick" THEN "dispatch" ELSE "own")
    /\ UNCHANGED <<ledger, errors, crashes>>

Own(a) ==
    /\ pc[a] = "own"
    /\ IF kind[a] = "worker" THEN UNCHANGED lock ELSE Claim(a)
    /\ Goto(a, IF kind[a] = "direct" THEN "adopt" ELSE "recover")
    /\ UNCHANGED <<ledger, kind, errors, crashes>>

\* 'monitor_owner_busy': the caller returns.
Busy(a) ==
    /\ pc[a] = "own" /\ kind[a] # "worker" /\ holder # Nobody
    /\ Gone(a)
    /\ UNCHANGED <<lock, ledger, crashes>>

Leave(a) ==
    /\ pc[a] = "leave"
    /\ Gone(a) /\ Release(a)
    /\ UNCHANGED <<ledger, crashes>>
-----------------------------------------------------------------------------
(* The job runner.                                                         *)

\* _handle_fuse: once per fused state.
HandleFuse == fuseTold' = TRUE /\ UNCHANGED <<jobs, passes, streak, since, taken, troubled>>

\* _dispatch_scheduled_job: due, and not fused, as read before run_job.  (Here and
\* in Gate the reads succeed: is_fused takes one that fails for "not fused".)
Dispatch(a) ==
    /\ pc[a] = "dispatch"
    /\ Goto(a, IF Due /\ ~Fused THEN "own" ELSE "leave")
    /\ IF Due /\ Fused THEN HandleFuse ELSE UNCHANGED ledger
    /\ UNCHANGED <<lock, kind, errors, crashes>>

\* Bug: the recovery fails the job row and leaves the pass row.
FailJobOnly ==
    /\ streak' = IF jobs = {} \/ Fused THEN streak ELSE streak + 1
    /\ jobs' = {r \in jobs : r.epoch = epoch}
    /\ UNCHANGED <<passes, since, taken, troubled, fuseTold>>

\* recover_interrupted_monitor: every row of an ended scope becomes 'failed', in
\* one transaction.
FailAbandoned ==
    LET dead == {r \in jobs : r.epoch # epoch}
        sum  == streak + Cardinality(dead)
    IN  /\ jobs' = jobs \ dead
        /\ passes' = {}
        /\ streak' = IF sum > MaxFailures THEN MaxFailures ELSE sum
        /\ UNCHANGED <<since, taken, troubled, fuseTold>>

\* Bug: an interrupted row blocks every later run, as an unknown one does.
RecoverNothing(a) ==
    /\ pc[a] = "recover"
    /\ Goto(a, IF Started = {} THEN "gate" ELSE "leave")
    /\ UNCHANGED <<lock, ledger, kind, errors, crashes>>

Recover(a) ==
    /\ pc[a] = "recover"
    /\ IF Mine(Started) = {}
       THEN FailAbandoned /\ Goto(a, "gate")
       ELSE UNCHANGED ledger /\ Goto(a, "leave")
    /\ UNCHANGED <<lock, kind, errors, crashes>>

\* Bug: a scheduled run is checked against the fuse before its recovery only.
GateUnchecked(a) ==
    /\ pc[a] = "gate"
    /\ IF jobs # {} \/ taken THEN Goto(a, "leave") /\ UNCHANGED jobs
       ELSE Goto(a, "adopt") /\ jobs' = {[epoch |-> epoch, age |-> 0]}
    /\ UNCHANGED <<lock, passes, streak, since, taken, troubled, fuseTold, kind, errors, crashes>>

\* _run_job_owned from the second fuse check to the row of acquire.
Gate(a) ==
    /\ pc[a] = "gate"
    /\ \/ kind[a] \in Scheduled /\ Fused /\ HandleFuse /\ Goto(a, "leave")
       \/ /\ kind[a] = "manual" \/ ~Fused
          /\ jobs # {} \/ taken
          /\ Goto(a, "leave") /\ UNCHANGED ledger
       \/ /\ kind[a] = "manual" \/ ~Fused
          /\ jobs = {} /\ ~taken
          /\ jobs' = {[epoch |-> epoch, age |-> 0]}
          /\ Goto(a, "adopt")
          /\ UNCHANGED <<passes, streak, since, taken, troubled, fuseTold>>
    /\ UNCHANGED <<lock, kind, errors, crashes>>

\* The job returned: its row, keyed by id, becomes 'completed'.
Finish(a) ==
    /\ pc[a] = "finish"
    /\ jobs' = jobs \ Mine(jobs)
    /\ streak' = 0 /\ since' = 0
    /\ taken' = (taken \/ \E r \in Mine(jobs) : r.age = 0)
    /\ troubled' = errors[a]
    /\ fuseTold' = FALSE
    /\ Goto(a, "leave")
    /\ UNCHANGED <<lock, passes, kind, errors, crashes>>

\* The job raised: its row becomes 'failed'; the pass row stays 'started'.
Fail(a) ==
    /\ pc[a] = "fail"
    /\ jobs' = jobs \ Mine(jobs)
    /\ streak' = IF Fused THEN streak ELSE streak + 1
    /\ Goto(a, "leave")
    /\ UNCHANGED <<lock, passes, since, taken, troubled, fuseTold, kind, errors, crashes>>
-----------------------------------------------------------------------------
(* The pass.                                                               *)

Raised(a) == Goto(a, IF kind[a] = "direct" THEN "leave" ELSE "fail")

\* Recovery again, this time keeping the job row this pass belongs to.
Adopt(a) ==
    /\ pc[a] = "adopt"
    /\ IF Mine(passes) = {} /\ Cardinality(Mine(jobs)) <= 1
       THEN FailAbandoned /\ Goto(a, "open")
       ELSE UNCHANGED ledger /\ Raised(a)
    /\ UNCHANGED <<lock, kind, errors, crashes>>

OpenPass(a) ==
    /\ pc[a] = "open"
    /\ passes' = passes \cup {[epoch |-> epoch, age |-> 0]}
    /\ Goto(a, "work")
    /\ UNCHANGED <<lock, jobs, streak, since, taken, troubled, fuseTold, kind, errors, crashes>>

\* Reconciliation, watchdog and exits: they end, with errors or not, or raise.
Work(a) ==
    /\ pc[a] = "work"
    /\ \/ \E bad \in BOOLEAN : errors' = [errors EXCEPT ![a] = bad] /\ Goto(a, "close")
       \/ UNCHANGED errors /\ Raised(a)
    /\ UNCHANGED <<lock, ledger, kind, crashes>>

ClosePass(a) ==
    /\ pc[a] = "close"
    /\ passes' = passes \ Mine(passes)
    /\ Goto(a, IF kind[a] = "direct" THEN "leave" ELSE "finish")
    /\ UNCHANGED <<lock, jobs, streak, since, taken, troubled, fuseTold, kind, errors, crashes>>
-----------------------------------------------------------------------------
(* Death of a process, and time.                                           *)

Crash(a) ==
    /\ pc[a] # "idle" /\ crashes < MaxCrashes
    /\ crashes' = crashes + 1
    /\ Gone(a) /\ Release(a)
    /\ UNCHANGED ledger

Older(rows) == {[r EXCEPT !.age = IF @ < LastAge THEN @ + 1 ELSE @] : r \in rows}

Tick ==
    /\ jobs' = Older(jobs) /\ passes' = Older(passes)
    /\ since' = IF since < LastAge THEN since + 1 ELSE since
    /\ taken' = FALSE
    /\ UNCHANGED <<lock, streak, troubled, fuseTold, pc, kind, errors, crashes>>

Step(a) ==
    \/ Dispatch(a) \/ Own(a) \/ Busy(a) \/ Leave(a)
    \/ Recover(a) \/ Gate(a) \/ Finish(a) \/ Fail(a)
    \/ Adopt(a) \/ OpenPass(a) \/ Work(a) \/ ClosePass(a)

Next ==
    \/ \E a \in Agents : (\E k \in Kinds : Begin(a, k)) \/ Step(a) \/ Crash(a)
    \/ Tick

Spec == Init /\ [][Next]_vars

\* launchd starts the worker again and again, and calls return.
Fairness ==
    /\ WF_vars(Tick)
    /\ \A a \in Agents : WF_vars(Step(a)) /\ WF_vars(Begin(a, "worker"))
FairSpec == Spec /\ Fairness
-----------------------------------------------------------------------------
\* monitor_health: the codes of what is wrong.
IssueCodes ==
    {c \in {"missing", "stale", "failed", "stalled", "ambiguous", "incident", "fused"} :
        CASE c = "missing"   -> since = Never
          [] c = "stale"     -> since = LastAge
          [] c = "failed"    -> streak > 0 /\ ~Fused
          [] c = "fused"     -> Fused
          [] c = "incident"  -> troubled
          [] c = "stalled"   -> \E r \in Started : r.age = LastAge
          [] c = "ambiguous" -> Cardinality(jobs) > 1 \/ Cardinality(passes) > 1}

\* What gates a scheduled scan (the worker's readiness).
EntryReady == IssueCodes = {} /\ Started = {}
-----------------------------------------------------------------------------
\* Whoever is past the ownership check holds the lock; the worker holds it
\* from its first step to its last.
Inside == {"recover", "gate", "adopt", "open", "work", "close", "finish", "fail"}
Holding(a) == pc[a] \in Inside \/ (kind[a] = "worker" /\ pc[a] \in {"dispatch", "own", "leave"})
LockIsHeld ==
    /\ (holder = Nobody) <=> (epoch = Nobody)
    /\ \A a \in Agents : Holding(a) => holder = a
    /\ \A a \in Agents : holder = a => Holding(a) \/ pc[a] = "leave"

\* The row an agent has open, as its next step will expect to find it.
OwnRow(rows) == rows # {} /\ \A r \in rows : r.epoch = epoch
NoRow(a, rows) == rows = {} /\ kind[a] = "direct"
RowsAsExpected(a) ==
    /\ pc[a] \in {"dispatch", "own", "recover"} /\ Holding(a) => Mine(Started) = {}
    /\ pc[a] = "recover" => kind[a] # "direct"
    /\ pc[a] = "gate" => jobs = {} /\ passes = {} /\ kind[a] # "direct"
    /\ pc[a] = "adopt" =>
        \/ kind[a] = "direct" /\ Mine(Started) = {}
        \/ kind[a] # "direct" /\ OwnRow(jobs) /\ passes = {}
    /\ pc[a] \in {"open", "work", "close"} =>
        IF kind[a] = "direct" THEN jobs = {} ELSE OwnRow(jobs)
    /\ pc[a] = "open" => passes = {}
    /\ pc[a] \in {"work", "close"} => OwnRow(passes)
    /\ pc[a] = "finish" => kind[a] # "direct" /\ OwnRow(jobs) /\ passes = {}
    /\ pc[a] = "fail" => kind[a] # "direct" /\ OwnRow(jobs) /\ (passes = {} \/ OwnRow(passes))
AtMostOneRow(rows) == \A r, s \in rows : r = s

RunsInv ==
    /\ TypeOK
    /\ LockIsHeld
    /\ AtMostOneRow(jobs) /\ AtMostOneRow(passes)
    /\ \A a \in Agents : RowsAsExpected(a)

\* At most one pass works on broker and ledger, and while it does its rows are
\* open and are the only ones: no recovery has failed them under its feet, and
\* no scan is let through while broker and ledger are being reconciled.
Working(a) == pc[a] \in {"work", "close"}
OnePass ==
    /\ \A a, b \in Agents : Working(a) /\ Working(b) => a = b
    /\ \A a \in Agents : Working(a) =>
        /\ OwnRow(passes)
        /\ IF kind[a] = "direct" THEN jobs = {} ELSE OwnRow(jobs)
        /\ ~EntryReady

\* No scheduled run is under way while the fuse is tripped, wherever the failures
\* that tripped it came from and whenever they were recorded, as long as the fuse
\* can be read: is_fused fails towards "not fused", by intent.
FuseHolds == \A a \in Agents :
    kind[a] \in Scheduled /\ pc[a] \in {"adopt", "open", "work", "close", "finish"} => ~Fused

\* An interrupted pass does not stay open: its rows are recovered, or the fuse
\* has stopped the scheduled monitor and waits for a person.
Interrupted == \E r \in Started : r.epoch # epoch
InterruptedIsResolved == Interrupted ~> (~Interrupted \/ Fused)
=============================================================================
