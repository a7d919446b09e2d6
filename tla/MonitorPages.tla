---------------------------- MODULE MonitorPages ----------------------------
(***************************************************************************)
(* monitor_notifications: the pages a person gets about the monitor's      *)
(* health.  Two heartbeats read the ledger at their own time, then take    *)
(* turns on a private state file.  One step is one read of the health, one *)
(* locked read and write of the file, one send, or the write after it.     *)
(***************************************************************************)
EXTENDS Integers, FiniteSets, FiniteSetsExt

CONSTANTS
    Beats,       \* heartbeat callers: the worker's health role, the console
    Readings,    \* sets of issue codes that monitor_health may report
    MaxDeaths    \* bound: deaths of a heartbeat

Nobody == "nobody"
ASSUME BeatsAssumption == Nobody \notin Beats /\ MaxDeaths \in Nat

VARIABLES
    health,      \* the issue codes monitor_health would report now
    active, pending, observed,   \* the notification state file, as last written
    readable,    \* it holds what was written; FALSE: anything else
    writer,      \* who holds its lock
    step, saw,   \* each heartbeat's control point and the codes it read
    told,        \* ghost: the worst level delivered in this incident
    deaths

content == <<active, pending, observed>>
file  == <<content, readable>>
pages == <<file, writer, step, saw, told, deaths>>
vars  == <<health, pages>>

Severity == [missing |-> 1, stale |-> 1, failed |-> 2, stalled |-> 2,
             ambiguous |-> 3, incident |-> 3, fused |-> 4, blocking |-> 4]
Codes == DOMAIN Severity
ASSUME ReadingsAssumption == {} \in Readings /\ Readings \subseteq SUBSET Codes
Meaningful == {"ambiguous", "incident", "fused", "blocking"}
Level(codes) == Max({Severity[c] : c \in codes} \cup {0})

TypeOK ==
    /\ health \in Readings
    /\ active \in BOOLEAN /\ pending \in BOOLEAN /\ observed \subseteq Codes
    /\ readable \in BOOLEAN
    /\ writer \in Beats \cup {Nobody}
    /\ step \in [Beats -> {"idle", "decide", "reset", "send", "save", "failed"}]
    /\ saw \in [Beats -> SUBSET Codes]
    /\ told \in 0..4 /\ deaths \in 0..MaxDeaths

Init ==
    /\ health \in Readings
    /\ active = FALSE /\ pending = FALSE /\ observed = {} /\ readable = TRUE
    /\ writer = Nobody
    /\ step = [b \in Beats |-> "idle"] /\ saw = [b \in Beats |-> {}]
    /\ told = 0 /\ deaths = 0

At(b, s) == step' = [step EXCEPT ![b] = s]
Forget(b) == saw' = [saw EXCEPT ![b] = {}]
Free(b) == writer' = IF writer = b THEN Nobody ELSE writer
-----------------------------------------------------------------------------
ReadHealth(b) ==
    /\ step[b] = "idle"
    /\ saw' = [saw EXCEPT ![b] = health]
    /\ At(b, "decide")
    /\ UNCHANGED <<file, writer, told, deaths>>

\* 'notification_owner_busy': this heartbeat leaves it to the other.
OwnerBusy(b) ==
    /\ step[b] = "decide" /\ writer # Nobody
    /\ At(b, "idle") /\ Forget(b)
    /\ UNCHANGED <<file, writer, told, deaths>>

\* Whatever the file said before, what it says now is that nobody was told.
Reset(b) ==
    /\ step[b] = "decide" /\ writer = Nobody /\ ~readable
    /\ active' = FALSE /\ pending' = FALSE /\ observed' = {} /\ readable' = TRUE
    /\ writer' = b
    /\ At(b, "reset")
    /\ UNCHANGED <<saw, told, deaths>>

\* The heartbeat whose turn it is to read the file, or that has just reset it.
Turn(b) == (step[b] = "decide" /\ writer = Nobody /\ readable) \/ step[b] = "reset"

\* 'notification_state_unavailable': the file could not be read or written.
Unavailable(b) ==
    /\ step[b] = "reset" \/ (step[b] = "decide" /\ writer = Nobody)
    /\ Free(b)
    /\ At(b, "idle") /\ Forget(b)
    /\ UNCHANGED <<file, told, deaths>>

Escalation(now) ==
    /\ active
    /\ Level(now) > Level(observed) \/ (now \ observed) \cap Meaningful # {}

\* Bug: only a rise of the level is an escalation, and pending is not retried.
NoRetry(now) == ~active \/ Level(now) > Level(observed)

Notify(now) == ~active \/ pending \/ Escalation(now)

\* _transition on a healthy reading: the incident is over.
Recovered(b) ==
    /\ Turn(b) /\ saw[b] = {}
    /\ active' = FALSE /\ pending' = FALSE /\ observed' = {} /\ readable' = (readable \/ active)
    /\ told' = 0
    /\ Free(b)
    /\ At(b, "idle") /\ Forget(b)
    /\ UNCHANGED deaths

\* Nothing new to say: only what was observed is saved.
Unchanged(b) ==
    /\ Turn(b) /\ saw[b] # {} /\ ~Notify(saw[b])
    /\ observed' = saw[b]
    /\ At(b, "idle") /\ Forget(b)
    /\ UNCHANGED <<active, pending, readable, writer, told, deaths>>

\* Bug: the incident is saved as told before it is.
PersistAsTold(b) ==
    /\ Turn(b) /\ saw[b] # {} /\ Notify(saw[b])
    /\ active' = TRUE /\ pending' = FALSE /\ observed' = saw[b] /\ readable' = TRUE
    /\ writer' = b
    /\ At(b, "send")
    /\ UNCHANGED <<saw, told, deaths>>

\* The page is saved as pending before it is sent.
Persist(b) ==
    /\ Turn(b) /\ saw[b] # {} /\ Notify(saw[b])
    /\ active' = TRUE /\ pending' = TRUE /\ observed' = saw[b] /\ readable' = TRUE
    /\ writer' = b
    /\ At(b, "send")
    /\ UNCHANGED <<saw, told, deaths>>

Deliver(b) ==
    /\ step[b] = "send"
    /\ told' = Max({told, Level(saw[b])})
    /\ At(b, "save")
    /\ UNCHANGED <<file, writer, saw, deaths>>

SendFails(b) ==
    /\ step[b] = "send"
    /\ At(b, "failed")
    /\ UNCHANGED <<file, writer, saw, told, deaths>>

\* Bug: the lock is kept for the life of the process.
SaveAndKeep(b) ==
    /\ step[b] \in {"save", "failed"}
    /\ pending' = (step[b] = "failed") /\ readable' = TRUE
    /\ At(b, "idle") /\ Forget(b)
    /\ UNCHANGED <<active, observed, writer, told, deaths>>

\* The outcome is saved, unless the write fails; then the file stays as it is.
SaveOutcome(b) ==
    /\ step[b] \in {"save", "failed"}
    /\ \/ pending' = (step[b] = "failed") /\ readable' = TRUE
       \/ UNCHANGED <<pending, readable>>
    /\ writer' = Nobody
    /\ At(b, "idle") /\ Forget(b)
    /\ UNCHANGED <<active, observed, told, deaths>>

\* The lock file is released by the system.
Die(b) ==
    /\ step[b] # "idle" /\ deaths < MaxDeaths
    /\ deaths' = deaths + 1
    /\ Free(b)
    /\ At(b, "idle") /\ Forget(b)
    /\ UNCHANGED <<file, told>>

Beat(b) ==
    \/ ReadHealth(b) \/ OwnerBusy(b) \/ Reset(b) \/ Unavailable(b)
    \/ Recovered(b) \/ Unchanged(b) \/ Persist(b) \/ Deliver(b) \/ SendFails(b) \/ SaveOutcome(b)

\* The monitor's rows change, and time passes.
Drift ==
    /\ health' \in Readings
    /\ UNCHANGED pages

\* Something else than a heartbeat writes to the file, or a part of it is lost.
Damage ==
    /\ readable /\ readable' = FALSE
    /\ UNCHANGED <<health, content, writer, step, saw, told, deaths>>

Next == Drift \/ Damage \/ \E b \in Beats : (Beat(b) \/ Die(b)) /\ UNCHANGED health

Spec == Init /\ [][Next]_vars

\* Heartbeats go on, and a file or a service that is tried for ever answers some time.
Fairness == \A b \in Beats :
    /\ WF_vars(Beat(b) /\ UNCHANGED health)
    /\ SF_vars(Reset(b) /\ UNCHANGED health)
    /\ SF_vars(Persist(b) /\ UNCHANGED health)
    /\ SF_vars(Deliver(b) /\ UNCHANGED health)
FairSpec == Spec /\ Fairness
-----------------------------------------------------------------------------
Sending(b) == step[b] \in {"send", "save", "failed"}

\* The state file says what its writer is about: one heartbeat writes at a time,
\* and from before its send until after it the page counts as pending.
PagesInv ==
    /\ TypeOK
    /\ \A b \in Beats : Sending(b) \/ step[b] = "reset" <=> writer = b
    /\ \A b \in Beats : step[b] = "reset" => ~active
    /\ \A b \in Beats : Sending(b) => active /\ pending /\ observed = saw[b]
    /\ \A b \in Beats : step[b] = "save" => told >= Level(saw[b])
    /\ ~active => ~pending /\ observed = {}

\* What the file calls told was delivered: with nothing pending, the pages that
\* went out in this incident were at least as grave as what was last observed.
ToldWasDelivered == active /\ ~pending => told >= Level(observed)

\* Trouble of a level that lasts is paged at that level, also when the incident
\* was paged before at a lower one, a send failed or a heartbeat died.
TroubleIsPaged == \A n \in 1..4 :
    (Level(health) >= n) ~> (told >= n \/ Level(health) < n)
=============================================================================
