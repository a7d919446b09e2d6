-------------------------- MODULE EntrySubmission --------------------------
(***************************************************************************)
(* The durable, one-POST entry path of AlphaOS paper trading.              *)
(*                                                                         *)
(* Senders (a manual approval, an unattended scan) carry a proposal through*)
(* Orchestrator._execute and OrderManager._submit_alpaca_paper; the        *)
(* execution monitor reconciles the ledger with the broker; an operator    *)
(* may resolve an intent that provably never reached the broker.  They run *)
(* in separate processes, meet only in the SQLite ledger and at the broker,*)
(* and each of them may die between any two ledger transactions.           *)
(*                                                                         *)
(* One step is one ledger transaction or one broker call.  Quantities are  *)
(* abstracted to "something filled": module EntryFills has partial fills.  *)
(***************************************************************************)
EXTENDS Naturals, FiniteSets

CONSTANTS
    Proposals,   \* proposal ids; the id is also the broker's client order id
    Senders,     \* processes that execute proposals
    Monitor,     \* the execution monitor
    Operator,    \* the operator resolving an intent
    Nobody,      \* no process / no proposal
    Ownership,   \* are entry_submission_lock and monitor_ownership in force?
    MaxCrashes,  \* bound on process deaths
    MaxCancelled \* bound on the entries that the operator cancels

ASSUME ActorsAssumption ==
    /\ Monitor \notin Senders /\ Operator \notin Senders /\ Monitor # Operator
    /\ Nobody \notin Senders \cup Proposals \cup {Monitor, Operator}
    /\ Ownership \in BOOLEAN
    /\ MaxCrashes \in Nat /\ MaxCancelled \in Nat

VARIABLES
    \* one paper_orders row per proposal (order_id is a hash of the proposal)
    phase,       \* raw_request_json.phase
    dispatched,  \* raw_request_json.dispatch_started_at is set
    proof,       \* no_dispatch_proof / broker_rejection_proof
    bound,       \* broker_order_id is set
    ostate,      \* paper_orders.state
    \* the rest of the ledger
    status,      \* trade_proposals.status
    incident,    \* an unresolved protection_checks row for entry_<order_id>
    position,    \* a positions row exists for the order
    \* the broker and the wire to it
    wire,        \* a POST is on its way
    posts,       \* POSTs handed to the transport, ever
    broker,      \* what the broker knows of the client order id
    \* the processes
    pc, work, norm, recovering, outcome,   \* per sender
    mon,         \* the monitor's visit of one row
    op,          \* the operator's resolution of an intent
    cancel,      \* an operator's cancel of a working entry, under no lock
    cancelled,   \* order_events: such a cancel has written the row
    entryLock, monLock, crashes

rowVars    == <<phase, dispatched, proof, bound, ostate>>
ledgerVars == <<rowVars, status, incident, position>>
brokerVars == <<wire, posts, broker>>
senderVars == <<pc, work, norm, recovering, outcome>>
lockVars   == <<entryLock, monLock>>
cancelVars == <<cancel, cancelled>>
opVars     == <<op, cancelVars>>
vars == <<ledgerVars, brokerVars, senderVars, mon, opVars, lockVars, crashes>>

\* PENDING_PHASES; nothing in the code writes "reconciling".
Pending == {"prepared", "submitting", "unknown", "reconciling"}
Abandoned == {"abandoned_unsent", "abandoned_rejected"}
Phases == {"none", "acknowledged"} \cup Pending \cup Abandoned
Proofs == {"none", "not_sent", "rejected"}
OrderStates == {"none", "submitted", "accepted", "filled", "dead"}
Statuses == {"pending", "approved", "submitted", "filled", "rejected", "blocked", "expired"}
TerminalStatuses == {"filled", "rejected", "blocked", "expired"}

\* What a broker read of an order returns: it works, has filled, was cut short
\* (cancelled, expired) with a part of it filled, or is terminal with nothing
\* filled.  The part that a working order has filled is EntryFills' subject.
Known == {"working", "filled", "cut", "zero"}
Terminal == Known \ {"working"}
WithFill == {"filled", "cut"}

\* map_status looks at the broker's status only, never at the filled quantity.
StateOf(n) == CASE n = "working" -> "accepted" [] n = "filled" -> "filled" [] OTHER -> "dead"

SenderPcs == {"idle", "ready", "entering", "queued", "owned", "assessed", "checked", "consented",
              "cleared", "created", "claimed", "waiting", "notsent", "refused", "unsafe",
              "lost", "lostAlarm", "lookup", "answered", "observed", "finishing",
              "fail", "alarm", "done", "record"}
MonitorPcs == {"idle", "read", "answered", "observed", "opened", "finishing",
               "fail", "failForce", "alarm"}
Outcomes == {"none", "deferred", "expired", "blocked", "submitted", "filled"}

Row(p) == <<phase[p], dispatched[p], proof[p], bound[p], ostate[p]>>
Rows == Phases \X BOOLEAN \X Proofs \X BOOLEAN \X OrderStates

Visits == [pc : MonitorPcs, p : Proposals \cup {Nobody}, pend : BOOLEAN,
           norm : Known \cup {"none"}]
NoVisit == [pc |-> "idle", p |-> Nobody, pend |-> FALSE, norm |-> "none"]
Cancels == [pc : {"idle", "answered", "opened"}, p : Proposals \cup {Nobody},
            norm : Known \cup {"none"}]
NoCancel == [pc |-> "idle", p |-> Nobody, norm |-> "none"]
Resolutions == [pc : {"idle", "read1", "read2", "apply"}, p : Proposals \cup {Nobody}, row : Rows]
NoResolution == [pc |-> "idle", p |-> Nobody, row |-> <<"none", FALSE, "none", FALSE, "none">>]

\* Mutant of PendingIntent: an unknown outcome does not count as pending.
PendingIntentKnown(p) == phase[p] \in {"prepared", "submitting"}

\* pending_entry_intent: an intent whose broker outcome nobody has established.
PendingIntent(p) == phase[p] \in Pending
OtherPending(p) == \E q \in Proposals \ {p} : PendingIntent(q)

\* has_blocking_incident
Blocking == \E p \in Proposals : incident[p]

\* An order that is not dead already exists for the proposal (approve_proposal).
LiveOrder(p) == phase[p] # "none" /\ ostate[p] # "dead"

\* Mutant of Releasable: a 404 alone releases an intent in doubt.
ReleasableOn404(p) == ~bound[p] /\ phase[p] \in {"prepared", "unknown"}

\* _proof: what may release an intent without a broker answer.
Releasable(p) ==
    /\ ~bound[p]
    /\ \/ phase[p] = "prepared" /\ ~dispatched[p]
       \/ phase[p] = "unknown" /\ proof[p] = "not_sent"
       \/ phase[p] = "unknown" /\ proof[p] = "rejected" /\ dispatched[p]

\* _entry_result: how execute_proposal reports the durable attempt as it is now.
EntryResult(p) ==
    IF phase[p] \notin Pending /\ ostate[p] = "dead" THEN "blocked"
    ELSE IF ostate[p] = "filled" THEN "filled" ELSE "submitted"

\* Mutant of Free: nobody looks at the lock.
FreeAlways(lock) == TRUE

\* flock: the lock is free, or nobody uses it.
Free(lock) == ~Ownership \/ lock = Nobody
Held(a) == IF Ownership THEN a ELSE Nobody
FreeAll(a) == /\ entryLock' = IF entryLock = a THEN Nobody ELSE entryLock
              /\ monLock' = IF monLock = a THEN Nobody ELSE monLock

----------------------------------------------------------------------------
Init ==
    /\ phase = [p \in Proposals |-> "none"]
    /\ dispatched = [p \in Proposals |-> FALSE]
    /\ proof = [p \in Proposals |-> "none"]
    /\ bound = [p \in Proposals |-> FALSE]
    /\ ostate = [p \in Proposals |-> "none"]
    /\ status = [p \in Proposals |-> "pending"]
    /\ incident = [p \in Proposals |-> FALSE]
    /\ position = [p \in Proposals |-> FALSE]
    /\ wire = [p \in Proposals |-> FALSE]
    /\ posts = [p \in Proposals |-> 0]
    /\ broker = [p \in Proposals |-> "none"]
    /\ pc = [s \in Senders |-> "idle"]
    /\ work = [s \in Senders |-> Nobody]
    /\ norm = [s \in Senders |-> "none"]
    /\ recovering = [s \in Senders |-> FALSE]
    /\ outcome = [s \in Senders |-> "none"]
    /\ mon = NoVisit
    /\ op = NoResolution
    /\ cancel = NoCancel
    /\ cancelled = [p \in Proposals |-> FALSE]
    /\ entryLock = Nobody /\ monLock = Nobody
    /\ crashes = 0

----------------------------------------------------------------------------
(* Writes to the ledger shared by several processes.                        *)

\* Mutant of InDoubt: a prepared row loses the evidence that it was never claimed.
InDoubtPrepared(p, force) ==
    phase' = IF phase[p] = "acknowledged" /\ ~force THEN phase ELSE [phase EXCEPT ![p] = "unknown"]

\* EntrySubmission.uncertain: the row is in doubt again, unless somebody has
\* acknowledged it meanwhile; a prepared row stays prepared.
InDoubt(p, force) ==
    phase' = IF phase[p] = "prepared" \/ (phase[p] = "acknowledged" /\ ~force)
             THEN phase ELSE [phase EXCEPT ![p] = "unknown"]

\* EntrySubmission.incident: one open incident per entry order.
RaiseAlarm(p) == incident' = [incident EXCEPT ![p] = TRUE]

\* EntrySubmission.observe: the broker's identity and state enter the row.
ObserveRow(p, n) ==
    /\ bound' = [bound EXCEPT ![p] = TRUE]
    /\ ostate' = [ostate EXCEPT ![p] = StateOf(n)]

\* Mutant of Acknowledge: the incident stays open.
AcknowledgeOnly(p) ==
    /\ phase' = [phase EXCEPT ![p] = "acknowledged"]
    /\ UNCHANGED incident

\* EntrySubmission.finish: the intent leaves the gate and its incident closes.
Acknowledge(p) ==
    /\ phase' = [phase EXCEPT ![p] = "acknowledged"]
    /\ incident' = [incident EXCEPT ![p] = FALSE]

----------------------------------------------------------------------------
(* A sender: approve_proposal / _handle_proposal, then Orchestrator._execute.*)

Goto(s, at) == pc' = [pc EXCEPT ![s] = at]

\* The sender knows the result of the attempt; the locks are still held.
Conclude(s, result) ==
    /\ Goto(s, "done")
    /\ outcome' = [outcome EXCEPT ![s] = result]

\* The sender forgets everything about its last proposal.
Rest(s) ==
    /\ Goto(s, "idle")
    /\ work' = [work EXCEPT ![s] = Nobody]
    /\ norm' = [norm EXCEPT ![s] = "none"]
    /\ recovering' = [recovering EXCEPT ![s] = FALSE]
    /\ outcome' = [outcome EXCEPT ![s] = "none"]

\* What a refusal may report: _defer_entry re-reads the status and the TTL, and
\* _execute_checked tests them in the same order.
Refusals(p) == IF status[p] = "pending" THEN {"deferred", "expired"} ELSE {"blocked"}

\* The reads at the head of approve_proposal.
Approve(s, p) ==
    /\ pc[s] = "idle"
    /\ status[p] = "pending"
    /\ ~LiveOrder(p)
    /\ ~Blocking
    /\ Goto(s, "ready")
    /\ work' = [work EXCEPT ![s] = p]
    /\ UNCHANGED <<ledgerVars, brokerVars, norm, recovering, outcome, mon, opVars, lockVars, crashes>>

\* The TTL, market and risk checks that follow take broker calls; a refusal is
\* written whatever the status has become since, or not at all.
Recheck(s) ==
    /\ pc[s] = "ready"
    /\ \/ /\ \A p \in Proposals : ~PendingIntent(p)
          /\ Goto(s, "entering")
          /\ UNCHANGED <<status, work, norm, recovering, outcome>>
       \/ /\ \E st \in {"blocked", "expired"} : status' = [status EXCEPT ![work[s]] = st]
          /\ Rest(s)
       \/ /\ Rest(s)
          /\ UNCHANGED status
    /\ UNCHANGED <<rowVars, incident, position, brokerVars, mon, opVars, lockVars, crashes>>

\* An existing attempt is only reported; a busy entry lock defers the entry.
TakeEntryLock(s) ==
    LET p == work[s] IN
    /\ pc[s] = "entering"
    /\ \/ /\ phase[p] # "none"
          /\ Goto(s, "record")
          /\ outcome' = [outcome EXCEPT ![s] = EntryResult(p)]
          /\ UNCHANGED entryLock
       \/ /\ phase[p] = "none" /\ Free(entryLock)
          /\ entryLock' = Held(s)
          /\ Goto(s, "queued")
          /\ UNCHANGED outcome
       \/ /\ phase[p] = "none" /\ ~Free(entryLock)
          /\ Goto(s, "record")
          /\ \E r \in Refusals(p) : outcome' = [outcome EXCEPT ![s] = r]
          /\ UNCHANGED entryLock
    /\ UNCHANGED <<ledgerVars, brokerVars, work, norm, recovering, mon, opVars, monLock, crashes>>

\* The bounded wait for monitor ownership either gets it or defers the entry.
TakeMonitorLock(s) ==
    /\ pc[s] = "queued"
    /\ \/ /\ Free(monLock)
          /\ monLock' = Held(s)
          /\ Goto(s, "owned")
          /\ UNCHANGED <<entryLock, outcome>>
       \/ /\ ~Free(monLock)
          /\ \E r \in Refusals(work[s]) : Conclude(s, r)
          /\ UNCHANGED lockVars
    /\ UNCHANGED <<ledgerVars, brokerVars, work, norm, recovering, mon, opVars, crashes>>

\* _execute_owned: read_exposure refuses while any intent is pending; the risk
\* engine, the TTL and the fresh-market recheck may refuse on their own.
Assess(s) ==
    /\ pc[s] = "owned"
    /\ \/ /\ \A p \in Proposals : ~PendingIntent(p)
          /\ Goto(s, "assessed")
          /\ UNCHANGED outcome
       \/ \E r \in Refusals(work[s]) \cup {"blocked"} : Conclude(s, r)
    /\ UNCHANGED <<ledgerVars, brokerVars, work, norm, recovering, mon, opVars, lockVars, crashes>>

\* _execute_checked: only a proposal still approvable goes on; TTL, exit plan,
\* monitor health and the approval cap may refuse it.
Check(s) ==
    /\ pc[s] = "assessed"
    /\ \/ /\ status[work[s]] = "pending"
          /\ Goto(s, "checked")
          /\ UNCHANGED outcome
       \/ \E r \in Refusals(work[s]) \cup {"blocked"} : Conclude(s, r)
    /\ UNCHANGED <<ledgerVars, brokerVars, work, norm, recovering, mon, opVars, lockVars, crashes>>

\* The approval is recorded whatever the status has become since Check.
Consent(s) ==
    /\ pc[s] = "checked"
    /\ status' = [status EXCEPT ![work[s]] = "approved"]
    /\ Goto(s, "consented")
    /\ UNCHANGED <<rowVars, incident, position, brokerVars, work, norm, recovering, outcome, mon,
                   opVars, lockVars, crashes>>

\* The preflight of execute_proposal.  The kill switch, margin and protection
\* gates may block whatever the ledger says.
Preflight(s) ==
    LET p == work[s] IN
    /\ pc[s] = "consented"
    /\ \/ /\ phase[p] = "none" /\ ~OtherPending(p) /\ ~Blocking
          /\ Goto(s, "cleared")
          /\ UNCHANGED <<outcome, incident>>
       \/ /\ phase[p] # "none"
          /\ Conclude(s, EntryResult(p))
          /\ UNCHANGED incident
       \/ \E q \in Proposals \ {p} :
          /\ phase[p] = "none" /\ PendingIntent(q)
          /\ RaiseAlarm(q)
          /\ Conclude(s, "blocked")
       \/ /\ phase[p] = "none" /\ ~OtherPending(p)
          /\ Conclude(s, "blocked")
          /\ UNCHANGED incident
    /\ UNCHANGED <<rowVars, status, position, brokerVars, work, norm, recovering, mon, opVars,
                   lockVars, crashes>>

\* EntrySubmission.create, one transaction.
Create(s) ==
    LET p == work[s] IN
    /\ pc[s] = "cleared"
    /\ \/ /\ phase[p] = "none" /\ ~OtherPending(p)
          /\ phase' = [phase EXCEPT ![p] = "prepared"]
          /\ ostate' = [ostate EXCEPT ![p] = "submitted"]
          /\ Goto(s, "created")
          /\ UNCHANGED outcome
       \/ /\ phase[p] # "none"
          /\ Conclude(s, EntryResult(p))
          /\ UNCHANGED <<phase, ostate>>
       \/ /\ phase[p] = "none" /\ OtherPending(p)
          /\ Conclude(s, "blocked")
          /\ UNCHANGED <<phase, ostate>>
    /\ UNCHANGED <<dispatched, proof, bound, status, incident, position, brokerVars, work, norm,
                   recovering, mon, opVars, lockVars, crashes>>

\* EntrySubmission.claim_dispatch: the right to send is consumed exactly once.
Claim(s) ==
    LET p == work[s] IN
    /\ pc[s] = "created"
    /\ \/ /\ phase[p] = "prepared" /\ ~dispatched[p] /\ ~bound[p]
          /\ phase' = [phase EXCEPT ![p] = "submitting"]
          /\ dispatched' = [dispatched EXCEPT ![p] = TRUE]
          /\ Goto(s, "claimed")
          /\ UNCHANGED outcome
       \/ /\ phase[p] # "prepared" \/ dispatched[p] \/ bound[p]
          /\ Conclude(s, EntryResult(p))
          /\ UNCHANGED <<phase, dispatched>>
    /\ UNCHANGED <<proof, bound, ostate, status, incident, position, brokerVars, work, norm,
                   recovering, mon, opVars, lockVars, crashes>>

\* submit_bracket: refused by the local paper-only preflight, stopped before a
\* connection existed, or handed to the network.
Post(s) ==
    LET p == work[s] IN
    /\ pc[s] = "claimed"
    /\ \/ /\ Goto(s, "unsafe")
          /\ UNCHANGED <<wire, posts>>
       \/ /\ Goto(s, "notsent")
          /\ UNCHANGED <<wire, posts>>
       \/ /\ Goto(s, "waiting")
          /\ wire' = [wire EXCEPT ![p] = TRUE]
          /\ posts' = [posts EXCEPT ![p] = @ + 1]
    /\ UNCHANGED <<ledgerVars, broker, work, norm, recovering, outcome, mon, opVars, lockVars, crashes>>

\* The answer to the POST, a verified rejection, or anything else at any time.
Answer(s) ==
    LET p == work[s] IN
    /\ pc[s] = "waiting"
    /\ \/ /\ broker[p] \in Known
          /\ norm' = [norm EXCEPT ![s] = broker[p]]
          /\ Goto(s, "answered")
       \/ /\ broker[p] = "refused"
          /\ Goto(s, "refused")
          /\ UNCHANGED norm
       \/ /\ Goto(s, "lost")
          /\ UNCHANGED norm
    /\ UNCHANGED <<ledgerVars, brokerVars, work, recovering, outcome, mon, opVars, lockVars, crashes>>

\* The AlpacaSafetyError handler: nothing left this machine.
SaveUnsafe(s) ==
    LET p == work[s] IN
    /\ pc[s] = "unsafe"
    /\ phase' = [phase EXCEPT ![p] = "acknowledged"]
    /\ ostate' = [ostate EXCEPT ![p] = "dead"]
    /\ Conclude(s, "blocked")
    /\ UNCHANGED <<dispatched, proof, bound, status, incident, position, brokerVars, work, norm,
                   recovering, mon, opVars, lockVars, crashes>>

\* EntrySubmission.not_sent / rejected: a typed proof joins the row, or, if the
\* row is no longer in submission, a ValueError ends the whole attempt.
SaveProof(s) ==
    LET p == work[s] IN
    /\ pc[s] \in {"notsent", "refused"}
    /\ \/ /\ phase[p] = "submitting" /\ dispatched[p] /\ ~bound[p]
          /\ phase' = [phase EXCEPT ![p] = "unknown"]
          /\ proof' = [proof EXCEPT ![p] = IF pc[s] = "notsent" THEN "not_sent" ELSE "rejected"]
          /\ Goto(s, "alarm")
          /\ UNCHANGED <<work, norm, recovering, outcome, lockVars>>
       \/ /\ phase[p] # "submitting" \/ ~dispatched[p] \/ bound[p]
          /\ Rest(s)
          /\ FreeAll(s)
          /\ UNCHANGED <<phase, proof>>
    /\ UNCHANGED <<dispatched, bound, ostate, status, incident, position, brokerVars, mon, opVars,
                   crashes>>

\* Any other exception of the POST, or a failure to reconcile its answer: the
\* row is in doubt, and the sender goes on to "next" after raising the incident.
SaveDoubt(s) ==
    LET p == work[s] IN
    /\ pc[s] \in {"lost", "fail"}
    /\ InDoubt(p, FALSE)
    /\ recovering' = [recovering EXCEPT ![s] = @ \/ pc[s] = "lost"]
    /\ \/ /\ phase[p] # "acknowledged"
          /\ Goto(s, IF pc[s] = "lost" THEN "lostAlarm" ELSE "alarm")
          /\ UNCHANGED outcome
       \/ /\ phase[p] = "acknowledged" /\ pc[s] = "lost"
          /\ Goto(s, "lookup")
          /\ UNCHANGED outcome
       \/ /\ phase[p] = "acknowledged" /\ pc[s] = "fail"
          /\ Conclude(s, EntryResult(p))
    /\ UNCHANGED <<dispatched, proof, bound, ostate, status, incident, position, brokerVars,
                   work, norm, mon, opVars, lockVars, crashes>>

\* The incident is a transaction of its own; a process may die before it.
SaveAlarm(s) ==
    LET p == work[s] IN
    /\ pc[s] \in {"lostAlarm", "alarm"}
    /\ RaiseAlarm(p)
    /\ IF pc[s] = "alarm" THEN Conclude(s, EntryResult(p)) ELSE Goto(s, "lookup") /\ UNCHANGED outcome
    /\ UNCHANGED <<rowVars, status, position, brokerVars, work, norm, recovering, mon, opVars,
                   lockVars, crashes>>

\* Mutant of Lookup: after a 404 the POST is sent again.
LookupRetries(s) ==
    LET p == work[s] IN
    /\ pc[s] = "lookup"
    /\ \/ /\ broker[p] \in Known
          /\ norm' = [norm EXCEPT ![s] = broker[p]]
          /\ Goto(s, "answered")
       \/ /\ broker[p] \notin Known
          /\ Goto(s, "claimed")
          /\ UNCHANGED norm
    /\ UNCHANGED <<ledgerVars, brokerVars, work, recovering, outcome, mon, opVars, lockVars, crashes>>

\* EntrySubmission.lookup after a lost answer: an explicit 404 is no answer.
Lookup(s) ==
    LET p == work[s] IN
    /\ pc[s] = "lookup"
    /\ \/ /\ broker[p] \in Known
          /\ norm' = [norm EXCEPT ![s] = broker[p]]
          /\ Goto(s, "answered")
       \/ /\ Goto(s, "fail")
          /\ UNCHANGED norm
    /\ UNCHANGED <<ledgerVars, brokerVars, work, recovering, outcome, mon, opVars, lockVars, crashes>>

\* Mutant of Observe: a position is opened whatever the order's fill is.
ObserveUnfilled(s) ==
    /\ pc[s] = "answered"
    /\ ObserveRow(work[s], norm[s])
    /\ Goto(s, "observed")
    /\ UNCHANGED <<phase, dispatched, proof, status, incident, position, brokerVars, work, norm,
                   recovering, outcome, mon, opVars, lockVars, crashes>>

\* EntrySubmission.observe of the answer, which may not validate.
Observe(s) ==
    LET p == work[s] IN
    /\ pc[s] = "answered"
    /\ \/ /\ ObserveRow(p, norm[s])
          /\ Goto(s, IF norm[s] \in WithFill THEN "observed" ELSE "finishing")
       \/ /\ Goto(s, "fail")
          /\ UNCHANGED <<bound, ostate>>
    /\ UNCHANGED <<phase, dispatched, proof, status, incident, position, brokerVars, work, norm,
                   recovering, outcome, mon, opVars, lockVars, crashes>>

\* _open_real_position
OpenPosition(s) ==
    /\ pc[s] = "observed"
    /\ \/ /\ position' = [position EXCEPT ![work[s]] = TRUE]
          /\ Goto(s, "finishing")
       \/ /\ Goto(s, "fail")
          /\ UNCHANGED position
    /\ UNCHANGED <<rowVars, status, incident, brokerVars, work, norm, recovering, outcome, mon,
                   opVars, lockVars, crashes>>

\* _verify_recovery: the evidence that lets a doubtful entry leave the gate.  It
\* may always fail; it cannot succeed against the facts it reads at the broker.
Verified(p, n) ==
    CASE n = "zero"   -> broker[p] = "zero" /\ ~position[p]
      [] n \in WithFill -> position[p]
      [] OTHER        -> TRUE

Finish(s) ==
    LET p == work[s] IN
    /\ pc[s] = "finishing"
    /\ \/ /\ (recovering[s] \/ norm[s] = "zero") => Verified(p, norm[s])
          /\ Acknowledge(p)
          /\ Conclude(s, IF ostate[p] = "dead" THEN "blocked"
                         ELSE IF ostate[p] = "filled" THEN "filled" ELSE "submitted")
       \/ /\ Goto(s, "fail")
          /\ UNCHANGED <<phase, incident, outcome>>
    /\ UNCHANGED <<dispatched, proof, bound, ostate, status, position, brokerVars, work, norm,
                   recovering, mon, opVars, lockVars, crashes>>

\* Leaving the two ownership contexts.
Release(s) ==
    /\ pc[s] = "done"
    /\ Goto(s, "record")
    /\ FreeAll(s)
    /\ UNCHANGED <<ledgerVars, brokerVars, work, norm, recovering, outcome, mon, opVars, crashes>>

\* Mutant of RecordStatus: a deferral becomes a status.
RecordAnyStatus(s) ==
    /\ pc[s] = "record"
    /\ status' = [status EXCEPT ![work[s]] = outcome[s]]
    /\ Rest(s)
    /\ UNCHANGED <<rowVars, incident, position, brokerVars, mon, opVars, lockVars, crashes>>

\* The caller of _execute writes the proposal status, after the locks are gone:
\* a refusal only over an undecided status, a submission over anything.
RecordStatus(s) ==
    LET p == work[s]
        refused == outcome[s] \in {"blocked", "expired"} /\ status[p] \in {"pending", "approved"}
    IN
    /\ pc[s] = "record"
    /\ status' = IF refused \/ outcome[s] \in {"submitted", "filled"}
                 THEN [status EXCEPT ![p] = outcome[s]] ELSE status
    /\ Rest(s)
    /\ UNCHANGED <<rowVars, incident, position, brokerVars, mon, opVars, lockVars, crashes>>

SenderStep(s) ==
    \/ Recheck(s) \/ TakeEntryLock(s) \/ TakeMonitorLock(s)
    \/ Assess(s) \/ Check(s) \/ Consent(s) \/ Preflight(s)
    \/ Create(s) \/ Claim(s) \/ Post(s) \/ Answer(s)
    \/ SaveUnsafe(s) \/ SaveProof(s) \/ SaveDoubt(s) \/ SaveAlarm(s)
    \/ Lookup(s) \/ Observe(s) \/ OpenPosition(s) \/ Finish(s)
    \/ Release(s) \/ RecordStatus(s)

----------------------------------------------------------------------------
(* Proposal decisions that need neither lock.                               *)

\* reject_proposal looks at nothing but the existence of the proposal.
Reject(p) ==
    /\ status[p] # "rejected"
    /\ status' = [status EXCEPT ![p] = "rejected"]
    /\ UNCHANGED <<rowVars, incident, position, brokerVars, senderVars, mon, opVars, lockVars, crashes>>

\* A newer proposal for the symbol supersedes an open one.  "expired" stands for
\* both: nothing tells them apart, and both are decided.
Supersede(p) ==
    /\ status[p] = "pending"
    /\ status' = [status EXCEPT ![p] = "expired"]
    /\ UNCHANGED <<rowVars, incident, position, brokerVars, senderVars, mon, opVars, lockVars, crashes>>

----------------------------------------------------------------------------
(* The broker and the network.                                              *)

Deliver(p) ==
    /\ wire[p]
    /\ wire' = [wire EXCEPT ![p] = FALSE]
    /\ \/ /\ broker[p] = "none"
          /\ \E b \in {"working", "refused"} : broker' = [broker EXCEPT ![p] = b]
       \/ UNCHANGED broker                                   \* lost on the way
    /\ UNCHANGED <<ledgerVars, posts, senderVars, mon, opVars, lockVars, crashes>>

\* A working entry fills, or ends with a part or nothing of it filled.
Trade(p) ==
    /\ broker[p] = "working"
    /\ \E b \in Terminal : broker' = [broker EXCEPT ![p] = b]
    /\ UNCHANGED <<ledgerVars, wire, posts, senderVars, mon, opVars, lockVars, crashes>>

----------------------------------------------------------------------------
(* The execution monitor: OrderManager.reconcile, one row of its loop.  The  *)
(* pass is one visit per row; the model lets it drop the lock between rows.  *)

MonGoto(at) == mon' = [mon EXCEPT !.pc = at]

\* Rows that need no further broker read: a terminal order without a position,
\* even if the broker says that a part of it filled.
Settled(p) == ~PendingIntent(p) /\ ostate[p] = "dead" /\ ~position[p]

Visit(p) ==
    /\ mon.pc = "idle" /\ Free(monLock)
    /\ phase[p] # "none" /\ ~Settled(p)
    /\ monLock' = Held(Monitor)
    /\ mon' = [pc |-> "read", p |-> p, pend |-> PendingIntent(p), norm |-> "none"]
    /\ UNCHANGED <<ledgerVars, brokerVars, senderVars, opVars, entryLock, crashes>>

\* Mutant of MonRead: a pending intent is read by the broker's id, like any other.
MonReadBound ==
    /\ mon.pc = "read"
    /\ \/ /\ broker[mon.p] \in Known /\ bound[mon.p]
          /\ mon' = [mon EXCEPT !.pc = "answered", !.norm = broker[mon.p]]
       \/ MonGoto("fail")
    /\ UNCHANGED <<ledgerVars, brokerVars, senderVars, opVars, lockVars, crashes>>

\* lookup by client id for a pending intent, get_order by broker id otherwise.
MonRead ==
    LET p == mon.p IN
    /\ mon.pc = "read"
    /\ \/ /\ broker[p] \in Known /\ (mon.pend \/ bound[p])
          /\ mon' = [mon EXCEPT !.pc = "answered", !.norm = broker[p]]
       \/ MonGoto("fail")
    /\ UNCHANGED <<ledgerVars, brokerVars, senderVars, opVars, lockVars, crashes>>

MonObserve ==
    LET p == mon.p IN
    /\ mon.pc = "answered"
    /\ \/ /\ ObserveRow(p, mon.norm)
          /\ MonGoto(IF mon.norm \in WithFill THEN "observed" ELSE "finishing")
       \/ /\ MonGoto("fail")
          /\ UNCHANGED <<bound, ostate>>
    /\ UNCHANGED <<phase, dispatched, proof, status, incident, position, brokerVars, senderVars,
                   opVars, lockVars, crashes>>

MonOpenPosition ==
    LET p == mon.p IN
    /\ mon.pc = "observed"
    /\ \/ /\ position' = [position EXCEPT ![p] = TRUE]
          /\ MonGoto("opened")
       \/ /\ MonGoto("failForce")
          /\ UNCHANGED position
    /\ UNCHANGED <<rowVars, status, incident, brokerVars, senderVars, opVars, lockVars, crashes>>

\* The entry fill makes the proposal 'filled', except a rejected or blocked one.
MonFilled ==
    LET p == mon.p IN
    /\ mon.pc = "opened"
    /\ status' = IF status[p] \in {"rejected", "blocked"} THEN status
                 ELSE [status EXCEPT ![p] = "filled"]
    /\ MonGoto("finishing")
    /\ UNCHANGED <<rowVars, incident, position, brokerVars, senderVars, opVars, lockVars, crashes>>

MonFinish ==
    LET p == mon.p IN
    /\ mon.pc = "finishing"
    /\ \/ /\ mon.pend /\ Verified(p, mon.norm)
          /\ Acknowledge(p)
          /\ mon' = NoVisit
          /\ FreeAll(Monitor)
       \/ /\ ~mon.pend
          /\ mon' = NoVisit
          /\ FreeAll(Monitor)
          /\ UNCHANGED <<phase, incident>>
       \/ /\ mon.pend
          /\ MonGoto("fail")
          /\ UNCHANGED <<phase, incident, lockVars>>
    /\ UNCHANGED <<dispatched, proof, bound, ostate, status, position, brokerVars, senderVars, opVars,
                   crashes>>

\* A fill that could not be recorded takes even an acknowledged row back.
MonDoubt ==
    LET p == mon.p
        noop == phase[p] = "acknowledged" /\ mon.pc # "failForce" IN
    /\ mon.pc \in {"fail", "failForce"}
    /\ InDoubt(p, mon.pc = "failForce")
    /\ \/ ~noop /\ MonGoto("alarm") /\ UNCHANGED lockVars
       \/ noop /\ mon' = NoVisit /\ FreeAll(Monitor)
    /\ UNCHANGED <<dispatched, proof, bound, ostate, status, incident, position, brokerVars,
                   senderVars, opVars, crashes>>

MonAlarm ==
    /\ mon.pc = "alarm"
    /\ RaiseAlarm(mon.p)
    /\ mon' = NoVisit
    /\ FreeAll(Monitor)
    /\ UNCHANGED <<rowVars, status, position, brokerVars, senderVars, opVars, crashes>>

MonitorStep ==
    \/ MonRead \/ MonObserve \/ MonOpenPosition \/ MonFilled \/ MonFinish \/ MonDoubt \/ MonAlarm

----------------------------------------------------------------------------
(* The operator: resolve_entry_intent with apply.                           *)

OpStart(p) ==
    /\ op.pc = "idle" /\ Free(entryLock) /\ Free(monLock)
    /\ PendingIntent(p) /\ Releasable(p)
    /\ op' = [pc |-> "read1", p |-> p, row |-> Row(p)]
    /\ entryLock' = Held(Operator) /\ monLock' = Held(Operator)
    /\ UNCHANGED <<ledgerVars, brokerVars, senderVars, mon, cancelVars, crashes>>

OpRefuse ==
    /\ op' = NoResolution
    /\ FreeAll(Operator)
    /\ UNCHANGED <<ledgerVars, brokerVars, senderVars, mon, cancelVars, crashes>>

\* Two explicit 404s around the absence check; anything else refuses.
OpRead ==
    /\ op.pc \in {"read1", "read2"}
    /\ \/ /\ broker[op.p] \notin Known
          /\ op.pc = "read1" => ~position[op.p]
          /\ op' = [op EXCEPT !.pc = IF @ = "read1" THEN "read2" ELSE "apply"]
          /\ UNCHANGED <<ledgerVars, brokerVars, senderVars, mon, cancelVars, lockVars, crashes>>
       \/ OpRefuse

\* Mutant of OpApply: the row is not compared with the one the reads were for.
OpApplyBlind ==
    LET p == op.p IN
    /\ op.pc = "apply"
    /\ phase' = [phase EXCEPT ![p] = "abandoned_unsent"]
    /\ ostate' = [ostate EXCEPT ![p] = "dead"]
    /\ incident' = [incident EXCEPT ![p] = FALSE]
    /\ op' = NoResolution
    /\ FreeAll(Operator)
    /\ UNCHANGED <<dispatched, proof, bound, status, position, brokerVars, senderVars, mon, cancelVars, crashes>>

\* One transaction: compare the row and its proof, abandon the intent, block the
\* proposal, close the incident.
OpApply ==
    LET p == op.p
        rejected == op.row[3] = "rejected" /\ op.row[1] = "unknown" IN
    /\ op.pc = "apply"
    /\ \/ /\ Row(p) = op.row /\ Releasable(p) /\ ~position[p]
          /\ phase' = [phase EXCEPT ![p] = IF rejected THEN "abandoned_rejected" ELSE "abandoned_unsent"]
          /\ ostate' = [ostate EXCEPT ![p] = "dead"]
          /\ status' = IF status[p] \in {"pending", "approved", "submitted"}
                       THEN [status EXCEPT ![p] = "blocked"] ELSE status
          /\ incident' = [incident EXCEPT ![p] = FALSE]
          /\ op' = NoResolution
          /\ FreeAll(Operator)
          /\ UNCHANGED <<dispatched, proof, bound, position, brokerVars, senderVars, mon, cancelVars, crashes>>
       \/ Row(p) # op.row /\ OpRefuse

----------------------------------------------------------------------------
(* The operator: cancel_order_operator.  It takes neither lock.  The monitor's *)
(* own cancel of stale entries is the same _cancel_order_row after its pass.  *)

\* Mutant of CancelRead: a cancel that did not raise means that nothing filled.
CancelTrusted(p) ==
    /\ cancel.pc = "idle" /\ Cardinality({q \in Proposals : cancelled[q]} \cup {p}) <= MaxCancelled
    /\ ostate[p] \in {"submitted", "accepted"} /\ ~position[p] /\ bound[p]
    /\ cancel' = [pc |-> "answered", p |-> p, norm |-> "zero"]
    /\ UNCHANGED <<ledgerVars, brokerVars, senderVars, mon, op, cancelled, lockVars, crashes>>

\* The reads of the row, the request, and the verify-after-cancel read of the order,
\* of which only a terminal answer is acted on.  They write nothing, and as long as
\* the order works the row cannot become final, so they are one step.
CancelRead(p) ==
    /\ cancel.pc = "idle" /\ Cardinality({q \in Proposals : cancelled[q]} \cup {p}) <= MaxCancelled
    /\ ostate[p] \in {"submitted", "accepted"} /\ ~position[p] /\ bound[p]
    /\ broker[p] \in Terminal
    /\ cancel' = [pc |-> "answered", p |-> p, norm |-> broker[p]]
    /\ UNCHANGED <<ledgerVars, brokerVars, senderVars, mon, op, cancelled, lockVars, crashes>>

\* The cancel raced a fill: what filled becomes a position first.
CancelOpen ==
    /\ cancel.pc = "answered" /\ cancel.norm \in WithFill
    /\ position' = [position EXCEPT ![cancel.p] = TRUE]
    /\ cancel' = [cancel EXCEPT !.pc = "opened"]
    /\ UNCHANGED <<rowVars, status, incident, brokerVars, senderVars, mon, op, cancelled, lockVars,
                   crashes>>

\* The state of the row and the status of the proposal, in one commit.
CancelWrite ==
    LET p == cancel.p IN
    /\ cancel.pc = "opened" \/ (cancel.pc = "answered" /\ cancel.norm = "zero")
    /\ ostate' = [ostate EXCEPT ![p] = StateOf(cancel.norm)]
    /\ status' = IF status[p] \in {"rejected", "blocked", "filled"} THEN status
                 ELSE [status EXCEPT ![p] = IF cancel.norm = "zero" THEN "expired" ELSE "filled"]
    /\ cancel' = NoCancel
    /\ cancelled' = [cancelled EXCEPT ![p] = TRUE]
    /\ UNCHANGED <<phase, dispatched, proof, bound, incident, position, brokerVars, senderVars, mon,
                   op, lockVars, crashes>>

\* The booking fails, or the process dies.
CancelGivesUp ==
    /\ cancel.pc # "idle"
    /\ cancel' = NoCancel
    /\ UNCHANGED <<ledgerVars, brokerVars, senderVars, mon, op, cancelled, lockVars, crashes>>

CancelStep == CancelOpen \/ CancelWrite \/ CancelGivesUp

----------------------------------------------------------------------------
(* A process dies: its memory goes, its flocks are released by the kernel.  *)

\* Mutant of CrashSender: the locks outlive their owner.
CrashSenderLocked(s) ==
    /\ pc[s] # "idle" /\ crashes < MaxCrashes
    /\ Rest(s)
    /\ crashes' = crashes + 1
    /\ UNCHANGED <<ledgerVars, brokerVars, mon, opVars, lockVars>>

\* The kernel releases the flocks of a dead process.
CrashSender(s) ==
    /\ pc[s] # "idle" /\ crashes < MaxCrashes
    /\ Rest(s)
    /\ FreeAll(s)
    /\ crashes' = crashes + 1
    /\ UNCHANGED <<ledgerVars, brokerVars, mon, opVars>>

CrashMonitor ==
    /\ mon.pc # "idle" /\ crashes < MaxCrashes
    /\ mon' = NoVisit
    /\ FreeAll(Monitor)
    /\ crashes' = crashes + 1
    /\ UNCHANGED <<ledgerVars, brokerVars, senderVars, opVars>>

Next ==
    \/ \E s \in Senders :
        \/ SenderStep(s)
        \/ CrashSender(s)
        \/ \E p \in Proposals : Approve(s, p)
    \/ \E p \in Proposals :
        \/ Reject(p) \/ Supersede(p)
        \/ Deliver(p) \/ Trade(p)
        \/ Visit(p) \/ OpStart(p) \/ CancelRead(p)
    \/ MonitorStep \/ CrashMonitor
    \/ OpRead \/ OpApply
    \/ CancelStep

Spec == Init /\ [][Next]_vars

----------------------------------------------------------------------------
TypeOK ==
    /\ phase \in [Proposals -> Phases]
    /\ dispatched \in [Proposals -> BOOLEAN]
    /\ proof \in [Proposals -> Proofs]
    /\ bound \in [Proposals -> BOOLEAN]
    /\ ostate \in [Proposals -> OrderStates]
    /\ status \in [Proposals -> Statuses]
    /\ incident \in [Proposals -> BOOLEAN]
    /\ position \in [Proposals -> BOOLEAN]
    /\ wire \in [Proposals -> BOOLEAN]
    /\ posts \in [Proposals -> Nat]
    /\ broker \in [Proposals -> Known \cup {"none", "refused"}]
    /\ pc \in [Senders -> SenderPcs]
    /\ work \in [Senders -> Proposals \cup {Nobody}]
    /\ norm \in [Senders -> Known \cup {"none"}]
    /\ recovering \in [Senders -> BOOLEAN]
    /\ outcome \in [Senders -> Outcomes]
    /\ mon \in Visits
    /\ op \in Resolutions
    /\ cancel \in Cancels
    /\ cancelled \in [Proposals -> BOOLEAN]
    /\ entryLock \in Senders \cup {Operator, Nobody}
    /\ monLock \in Senders \cup {Monitor, Operator, Nobody}
    /\ crashes \in 0 .. MaxCrashes

----------------------------------------------------------------------------
(* Safety.                                                                  *)

\* "An uncertain POST is never retried" (entry_submission.py): whatever crashes,
\* retries, second senders or resolutions do, a proposal is POSTed at most once.
AtMostOnePost == \A p \in Proposals : posts[p] <= 1

\* No death, timeout or lost response orphans an order: whatever the broker may
\* ever hear of has a durable row whose send right was consumed before.
NoOrphanOrder == \A p \in Proposals : wire[p] \/ broker[p] # "none" => dispatched[p]

\* A row the ledger has written off (rejected, cancelled, expired, abandoned) and
\* that no longer closes the gate can buy nothing any more: no order works at the
\* broker, none is on its way to it, and nobody may still send one.  Nothing is
\* said of what a cancelled order had filled before: that is EntryFills' subject.
WrittenOffIsOver == \A p \in Proposals :
    ~PendingIntent(p) /\ ostate[p] = "dead" =>
        /\ ~wire[p] /\ broker[p] \notin {"working", "filled"}
        /\ \A s \in Senders : work[s] = p => pc[s] # "claimed"

\* A position exists only for an entry of which something filled at the broker,
\* and its row carries the broker's identity.
PositionsAreFills == \A p \in Proposals : position[p] => bound[p] /\ broker[p] \in WithFill

\* The invariant behind these four.  The send right of a row is in the hands of at
\* most one sender, and what the row, the sender and the monitor believe of the
\* broker agrees with it.
AfterClaim == {"claimed", "waiting", "notsent", "refused", "unsafe", "lost", "lostAlarm",
               "lookup", "answered", "observed", "finishing", "fail", "alarm"}

Agrees(n, p) == n # "none" => broker[p] \in Known /\ (n # "working" => broker[p] = n)

RowInv(p) ==
    /\ posts[p] <= 1
    /\ posts[p] > 0 => dispatched[p]
    /\ wire[p] \/ broker[p] # "none" => posts[p] > 0
    /\ wire[p] => broker[p] = "none"
    /\ phase[p] \in {"none", "prepared"} => ~dispatched[p] /\ ostate[p] # "dead"
    /\ proof[p] # "none" => dispatched[p]
    /\ proof[p] = "not_sent" => posts[p] = 0
    /\ proof[p] = "rejected" => broker[p] = "refused"
    /\ ostate[p] = "dead" => ~wire[p] /\ broker[p] \notin {"working", "filled"}
    /\ position[p] => bound[p] /\ broker[p] \in WithFill

SenderInv(s) == LET p == work[s] IN IF pc[s] = "idle" THEN norm[s] = "none" ELSE
    /\ p \in Proposals
    /\ pc[s] \in AfterClaim => dispatched[p]
    /\ pc[s] \in {"claimed", "notsent", "unsafe"} => posts[p] = 0
    /\ pc[s] = "claimed" => ostate[p] # "dead" /\ proof[p] = "none"
    /\ pc[s] = "refused" => broker[p] = "refused"
    /\ pc[s] \in {"answered", "observed"} => norm[s] # "none"
    /\ pc[s] = "observed" => norm[s] \in WithFill /\ bound[p]
    /\ Agrees(norm[s], p)

OneClaimant == \A s, t \in Senders :
    pc[s] \in AfterClaim /\ pc[t] \in AfterClaim /\ work[s] = work[t] => s = t

MonitorInv == mon.pc # "idle" =>
    /\ mon.p \in Proposals /\ phase[mon.p] # "none"
    /\ mon.pc \in {"answered", "observed"} => mon.norm # "none"
    /\ mon.pc = "observed" => mon.norm \in WithFill /\ bound[mon.p]
    /\ Agrees(mon.norm, mon.p)

CancelInv == cancel.pc # "idle" =>
    /\ cancel.p \in Proposals /\ bound[cancel.p]
    /\ cancel.norm \in Terminal /\ broker[cancel.p] = cancel.norm

CoreInv ==
    /\ TypeOK
    /\ \A p \in Proposals : RowInv(p)
    /\ \A s \in Senders : SenderInv(s)
    /\ OneClaimant
    /\ MonitorInv
    /\ op.pc # "idle" => op.p \in Proposals

EntryInv == CoreInv /\ CancelInv

\* An entry incident blocks every new entry and only the reconciliation of a
\* pending intent closes it, so it must never outlive the doubt it reports.
AlarmsAreInDoubt == \A p \in Proposals : incident[p] => PendingIntent(p)

\* No entry is handed to the network while another one is in doubt.
NoEntryBesideDoubt ==
    [][\A p \in Proposals :
        posts'[p] > posts[p] => \A q \in Proposals \ {p} : phase[q] \notin Pending]_vars

\* Nothing touches an abandoned row again.  A final state that a lock holder has
\* written is not undone by a slower reader; observe compares nothing, so one that
\* an operator's cancel has written beside it may go back to "accepted", but only
\* once the order is over at the broker and on a row that reconcile visits again.
SettledRowsStay ==
    [][\A p \in Proposals :
        /\ phase[p] \in Abandoned => Row(p)' = Row(p)
        /\ ostate[p] \in {"filled", "dead"} /\ ostate'[p] # ostate[p] =>
            /\ cancelled[p]
            /\ ostate'[p] = "accepted" /\ broker[p] \in Terminal /\ ~Settled(p)']_vars

\* ProposalStatus.terminal: "Statuses a proposal never leaves once reached -- no
\* further approval, execution, or reconcile step changes it again."  Here only
\* that a decided proposal is not undecided or submitted later.
TerminalStatusStays ==
    [][\A p \in Proposals :
        status[p] \in TerminalStatuses => status'[p] \in TerminalStatuses]_vars

\* The entry path promises what AtMostOnceEntry says.
AbstractIntent(p) ==
    CASE phase[p] = "none" -> "idle"
      [] phase[p] \in Pending -> "open"
      [] phase[p] = "acknowledged" /\ broker[p] \in Known -> "placed"
      [] OTHER -> "void"

AbstractOrder(p) ==
    CASE broker[p] \in Known -> "live"
      [] broker[p] \notin Known /\ wire[p] -> "flying"
      [] broker[p] \notin Known /\ ~wire[p] /\ posts[p] > 0 -> "gone"
      [] OTHER -> "none"

Entry == INSTANCE AtMostOnceEntry WITH
    Entries <- Proposals,
    intent <- [p \in Proposals |-> AbstractIntent(p)],
    order <- [p \in Proposals |-> AbstractOrder(p)]

\* Every step of senders, monitor, operator and broker is a step of the promise
\* or invisible to it: late acceptance and doubt are, a second POST is not.
ImplementsAtMostOnceEntry == Entry!Spec

----------------------------------------------------------------------------
(* Liveness.  The scheduler runs the monitor every minute and each pass visits *)
(* every row; a thread that runs goes on running, since its broker calls are  *)
(* bounded by timeouts.  Of the environment it is assumed that a broker read, *)
(* a booking or a verification tried again and again succeeds some time, and  *)
(* that the operator resolves what can be resolved.                           *)

OperatorStep == OpRead \/ OpApply

FairSpec ==
    /\ Spec
    /\ \A s \in Senders : WF_vars(SenderStep(s))
    /\ WF_vars(MonitorStep) /\ WF_vars(OperatorStep)
    /\ \A p \in Proposals :
        /\ SF_vars(Visit(p)) /\ SF_vars(OpStart(p))
        /\ SF_vars(mon.p = p /\ MonRead /\ mon'.pc = "answered")
        /\ SF_vars(mon.p = p /\ MonObserve /\ mon'.pc # "fail")
        /\ SF_vars(mon.p = p /\ MonOpenPosition /\ mon'.pc = "opened")
        /\ SF_vars(mon.p = p /\ MonFinish /\ mon'.pc = "idle")
        /\ SF_vars(op.p = p /\ OpRead /\ op'.pc = "read2")
        /\ SF_vars(op.p = p /\ OpRead /\ op'.pc = "apply")

\* An order the broker has does not keep the entry gate closed for ever.
DoubtIsResolved == \A p \in Proposals :
    PendingIntent(p) /\ broker[p] \in Known ~> ~PendingIntent(p)

\* An intent that provably never reached the broker, and whose sender is not just
\* about to claim it, is released in the end.
UnsentIsReleased == \A p \in Proposals :
    PendingIntent(p) /\ Releasable(p) /\ (\A s \in Senders : work[s] = p => pc[s] # "created")
        ~> ~PendingIntent(p)

\* Both ownership locks come free again, whoever dies holding them.
LocksAreReleased ==
    /\ entryLock # Nobody ~> entryLock = Nobody
    /\ monLock # Nobody ~> monLock = Nobody
=============================================================================
