-------------------------- MODULE ProposalApproval --------------------------
(***************************************************************************)
(* From a scan's proposal to a consented entry.                            *)
(*                                                                         *)
(* Scans (the scheduled job, the console, the command line) create trade   *)
(* proposals and may approve them on their own; operators approve, reject  *)
(* and create overrides.  Each is a process of its own, and what they know *)
(* of a proposal is what they last read of its row.                        *)
(*                                                                         *)
(* One step is one ledger transaction.  The market, risk and health gates  *)
(* are refusals that may come at any time; what becomes of an order once   *)
(* it is created is the matter of EntrySubmission.  Paper trading at the   *)
(* broker is modelled: the mock fill path takes no lock.                   *)
(***************************************************************************)
EXTENDS Integers, FiniteSets

CONSTANTS
    Proposals, SymbolOf,
    Scans,           \* processes running run_scan_once
    Operators,       \* processes running a command of the user
    AutoMode,        \* settings.effective_approval_mode is AUTO
    MaxAuto,         \* settings.max_auto_approvals_per_day
    MaxUnattended,   \* settings.max_unattended_approvals_per_day
    Nobody

Actors == Scans \cup Operators

ASSUME ApprovalAssumption ==
    /\ IsFiniteSet(Proposals)
    /\ Scans \cap Operators = {} /\ Nobody \notin Actors \cup Proposals
    /\ AutoMode \in BOOLEAN /\ MaxAuto \in Nat /\ MaxUnattended \in Nat

VARIABLES
    status,      \* trade_proposals.status
    risky,       \* arming_classification is high_risk_narrative
    lapsed,      \* proposal_expires_at_utc is in the past
    receipts,    \* approvals rows of today, as <<proposal, label>>
    ordered,     \* an entry order exists
    pc, prop,    \* per process: where it is, and with which proposal
    window,      \* the scan started in an unattended window
    owner,       \* who holds entry_submission_lock and monitor_ownership
    torn         \* history: symbols whose last creator died before superseding

rows == <<status, risky, lapsed, receipts, ordered>>
vars == <<rows, pc, prop, window, owner, torn>>

Statuses == {"none", "pending_approval", "blocked", "approved", "submitted", "filled",
             "rejected", "expired", "superseded"}
Labels == {"AUTO_APPROVED", "UNATTENDED_APPROVED", "MANUAL_APPROVED", "REJECTED"}
Pcs == {"idle", "scanning", "inserted", "created", "read", "ready", "owned", "checked", "granted",
        "consented", "sending", "refused", "submitted", "filled"}
OwnerPcs == {"owned", "checked", "granted", "consented", "sending"}

\* ProposalStatus.approvable
Open(p) == status[p] = "pending_approval"
Siblings(p) == {q \in Proposals : q # p /\ SymbolOf[q] = SymbolOf[p]}

\* The approvals rows each of the two daily caps counts.
Unattended == {r \in receipts : r[2] = "UNATTENDED_APPROVED"}
Automatic == {r \in receipts : r[2] \in {"AUTO_APPROVED", "UNATTENDED_APPROVED"}}

Init ==
    /\ status = [p \in Proposals |-> "none"]
    /\ risky = [p \in Proposals |-> FALSE] /\ lapsed = risky /\ ordered = risky
    /\ receipts = {}
    /\ pc = [a \in Actors |-> "idle"] /\ prop = [a \in Actors |-> Nobody]
    /\ window = [s \in Scans |-> FALSE]
    /\ owner = Nobody /\ torn = {}

Goto(a, at) == pc' = [pc EXCEPT ![a] = at]
SetStatus(p, to) == status' = [status EXCEPT ![p] = to]

\* A scan goes on with its next candidate, a command is over.
Resting(a) == IF a \in Scans THEN "scanning" ELSE "idle"
Rest(a) == Goto(a, Resting(a)) /\ prop' = [prop EXCEPT ![a] = Nobody]
FreeIf(a) == owner' = IF owner = a THEN Nobody ELSE owner

-----------------------------------------------------------------------------
(* Creating proposals *)

\* run_scan_once: unattended is decided once, when the scan starts.
StartScan(s) ==
    /\ pc[s] = "idle"
    /\ Goto(s, "scanning") /\ \E w \in BOOLEAN : window' = [window EXCEPT ![s] = w]
    /\ UNCHANGED <<rows, prop, owner, torn>>

EndScan(s) ==
    /\ pc[s] = "scanning"
    /\ Goto(s, "idle") /\ window' = [window EXCEPT ![s] = FALSE]
    /\ UNCHANGED <<rows, prop, owner, torn>>

\* _handle_proposal, _override_open_trade: an approvable row, which may be born
\* expired, or one that risk has blocked.
Insert(a, p) ==
    /\ pc[a] = Resting(a) /\ status[p] = "none"
    /\ \E r, l \in BOOLEAN : risky' = [risky EXCEPT ![p] = r] /\ lapsed' = [lapsed EXCEPT ![p] = l]
    /\ \/ /\ SetStatus(p, "pending_approval")
          /\ Goto(a, "inserted") /\ prop' = [prop EXCEPT ![a] = p]
       \/ a \in Scans /\ SetStatus(p, "blocked") /\ UNCHANGED <<pc, prop>>
    /\ UNCHANGED <<receipts, ordered, window, owner, torn>>

\* Mutant of Superseded: a row another process works on is spared.
SupersededIdle(p) == {q \in Siblings(p) : Open(q) /\ \A a \in Actors : prop[a] # q}

\* _supersede_open_proposals: every other open row of the symbol.
Superseded(p) == {q \in Siblings(p) : Open(q)}

Supersede(a) ==
    /\ pc[a] = "inserted"
    /\ status' = [q \in Proposals |-> IF q \in Superseded(prop[a]) THEN "superseded" ELSE status[q]]
    /\ torn' = torn \ {SymbolOf[prop[a]]}
    /\ IF a \in Scans THEN Goto(a, "created") /\ UNCHANGED prop ELSE Rest(a)
    /\ UNCHANGED <<risky, lapsed, receipts, ordered, window, owner>>

\* ApprovalEngine.consider: which door is open to the scan, and its caps.
Door(s) == AutoMode \/ window[s]
LabelOf(s) == IF window[s] THEN "UNATTENDED_APPROVED" ELSE "AUTO_APPROVED"

WithinCaps(s) == /\ window[s] => Cardinality(Unattended) < MaxUnattended
                 /\ Cardinality(Automatic) < MaxAuto

\* Mutant of ManualOnly: the warning is shown, and nothing else.
WarningOnly(p) == FALSE

\* A high-risk narrative is never approved automatically.
ManualOnly(p) == risky[p]

\* _handle_proposal after the row: expired at birth, left to the user, or, after
\* a preview of the caps that grants nothing, on to _execute.
Handle(s) ==
    LET p == prop[s] IN
    /\ pc[s] = "created"
    /\ \/ ManualOnly(p) /\ Rest(s) /\ UNCHANGED status
       \/ ~ManualOnly(p) /\ lapsed[p] /\ SetStatus(p, "expired") /\ Rest(s)
       \/ /\ ~ManualOnly(p) /\ ~lapsed[p] /\ UNCHANGED status
          /\ IF Door(s) /\ WithinCaps(s) THEN Goto(s, "ready") /\ UNCHANGED prop ELSE Rest(s)
    /\ UNCHANGED <<risky, lapsed, receipts, ordered, window, owner, torn>>

-----------------------------------------------------------------------------
(* The operator *)

\* approve_proposal reads the row ...
ReadRow(o, p) ==
    /\ pc[o] = "idle" /\ Open(p)
    /\ Goto(o, "read") /\ prop' = [prop EXCEPT ![o] = p]
    /\ UNCHANGED <<rows, window, owner, torn>>

\* ... and writes down that it has expired or that risk blocks it, turns back at
\* another gate, or goes on to _execute.
Approve(o) ==
    LET p == prop[o] IN
    /\ pc[o] = "read"
    /\ \/ lapsed[p] /\ SetStatus(p, "expired") /\ Rest(o)
       \/ ~lapsed[p] /\ SetStatus(p, "blocked") /\ Rest(o)
       \/ ~lapsed[p] /\ Rest(o) /\ UNCHANGED status
       \/ ~lapsed[p] /\ Goto(o, "ready") /\ UNCHANGED <<status, prop>>
    /\ UNCHANGED <<risky, lapsed, receipts, ordered, window, owner, torn>>

\* reject_proposal: whatever the status is.
Reject(o, p) ==
    /\ pc[o] = "idle" /\ status[p] # "none"
    /\ receipts' = receipts \cup {<<p, "REJECTED">>}
    /\ SetStatus(p, "rejected")
    /\ UNCHANGED <<risky, lapsed, ordered, pc, prop, window, owner, torn>>

-----------------------------------------------------------------------------
(* _execute *)

\* The result of the order that exists already; or both locks; or the entry is
\* deferred and the proposal stays as it is.
Own(a) ==
    /\ pc[a] = "ready"
    /\ \/ /\ ordered[prop[a]] /\ UNCHANGED <<prop, owner>>
          /\ \E at \in {"submitted", "filled", "refused"} : Goto(a, at)
       \/ owner = Nobody /\ owner' = a /\ Goto(a, "owned") /\ UNCHANGED prop
       \/ Rest(a) /\ UNCHANGED owner
    /\ UNCHANGED <<rows, window, torn>>

\* Mutant of Check: the row read before the wait is good enough.
CheckNothing(a) ==
    /\ pc[a] = "owned" /\ Goto(a, "checked")
    /\ UNCHANGED <<rows, prop, window, owner, torn>>

\* _execute_checked: status and expiry once more, now that nobody else enters.
Check(a) ==
    /\ pc[a] = "owned"
    /\ \/ Open(prop[a]) /\ ~lapsed[prop[a]] /\ Goto(a, "checked") /\ UNCHANGED owner
       \/ Goto(a, "refused") /\ FreeIf(a)
    /\ UNCHANGED <<rows, prop, window, torn>>

\* Mutant of Grant: what the preview has promised is granted.
GrantPreviewed(a) ==
    /\ pc[a] = "checked" /\ Goto(a, "granted")
    /\ UNCHANGED <<rows, prop, window, owner, torn>>

\* The approval callback: a scan counts its caps again and may be deferred, the
\* user's approval stands.
Grant(a) ==
    /\ pc[a] = "checked"
    /\ \/ (a \in Scans => WithinCaps(a)) /\ Goto(a, "granted") /\ UNCHANGED <<prop, owner>>
       \/ a \in Scans /\ ~WithinCaps(a) /\ Rest(a) /\ FreeIf(a)
    /\ UNCHANGED <<rows, window, torn>>

\* _record: the receipt, which no later failure takes back.
Receipt(a) ==
    /\ pc[a] = "granted"
    /\ receipts' = receipts \cup
         {<<prop[a], IF a \in Scans THEN LabelOf(a) ELSE "MANUAL_APPROVED">>}
    /\ Goto(a, "consented")
    /\ UNCHANGED <<status, risky, lapsed, ordered, prop, window, owner, torn>>

MarkApproved(a) ==
    /\ pc[a] = "consented" /\ SetStatus(prop[a], "approved") /\ Goto(a, "sending")
    /\ UNCHANGED <<risky, lapsed, receipts, ordered, prop, window, owner, torn>>

\* OrderManager.execute_proposal creates the one order, or refuses to.
Send(a) ==
    /\ pc[a] = "sending"
    /\ \/ /\ ~ordered[prop[a]] /\ ordered' = [ordered EXCEPT ![prop[a]] = TRUE]
          /\ \E at \in {"submitted", "filled"} : Goto(a, at)
       \/ Goto(a, "refused") /\ UNCHANGED ordered
    /\ FreeIf(a)
    /\ UNCHANGED <<status, risky, lapsed, receipts, prop, window, torn>>

\* The result is written over whatever the status has become meanwhile ...
RecordOrder(a) ==
    /\ pc[a] \in {"submitted", "filled"}
    /\ SetStatus(prop[a], pc[a]) /\ Rest(a)
    /\ UNCHANGED <<risky, lapsed, receipts, ordered, window, owner, torn>>

\* ... but a refusal respects a decision (_record_execution_block).
RecordBlock(a) ==
    LET p == prop[a] IN
    /\ pc[a] = "refused"
    /\ IF Open(p) \/ status[p] = "approved"
       THEN \E to \in (IF lapsed[p] THEN {"expired", "blocked"} ELSE {"blocked"}) : SetStatus(p, to)
       ELSE UNCHANGED status
    /\ Rest(a)
    /\ UNCHANGED <<risky, lapsed, receipts, ordered, window, owner, torn>>

-----------------------------------------------------------------------------
\* A process dies: its locks are free, its scan or command is gone.
Crash(a) ==
    /\ pc[a] # "idle"
    /\ Goto(a, "idle") /\ prop' = [prop EXCEPT ![a] = Nobody] /\ FreeIf(a)
    /\ torn' = IF pc[a] = "inserted" THEN torn \cup {SymbolOf[prop[a]]} ELSE torn
    /\ window' = [s \in Scans |-> s # a /\ window[s]]
    /\ UNCHANGED rows

Lapse(p) ==
    /\ status[p] # "none" /\ ~lapsed[p]
    /\ lapsed' = [lapsed EXCEPT ![p] = TRUE]
    /\ UNCHANGED <<status, risky, receipts, ordered, pc, prop, window, owner, torn>>

Step(a) ==
    \/ \E p \in Proposals : Insert(a, p)
    \/ Supersede(a) \/ Own(a) \/ Check(a) \/ Grant(a) \/ Receipt(a)
    \/ MarkApproved(a) \/ Send(a) \/ RecordOrder(a) \/ RecordBlock(a) \/ Crash(a)

Next ==
    \/ \E a \in Actors : Step(a)
    \/ \E s \in Scans : StartScan(s) \/ EndScan(s) \/ Handle(s)
    \/ \E o \in Operators : Approve(o) \/ \E p \in Proposals : ReadRow(o, p) \/ Reject(o, p)
    \/ \E p \in Proposals : Lapse(p)

Spec == Init /\ [][Next]_vars

-----------------------------------------------------------------------------
Symbols == {SymbolOf[p] : p \in Proposals}

\* Every variable keeps its type, a process has a proposal exactly while it
\* works on one, and only the owner of the account decides about an entry.
ApprovalInv ==
    /\ status \in [Proposals -> Statuses]
    /\ {risky, lapsed, ordered} \subseteq [Proposals -> BOOLEAN]
    /\ receipts \subseteq Proposals \X Labels /\ torn \subseteq Symbols
    /\ pc \in [Actors -> Pcs] /\ prop \in [Actors -> Proposals \cup {Nobody}]
    /\ window \in [Scans -> BOOLEAN]
    /\ \A a \in Actors : (prop[a] = Nobody) = (pc[a] \in {"idle", "scanning"})
    /\ \A a \in Actors : (pc[a] \in OwnerPcs) = (owner = a)

\* Of one symbol, one proposal can be approved: two are open only while a process
\* is between the row and the supersession it owes, or after one died there and
\* none has created another since.
OneOpenPerSymbol ==
    \A p \in Proposals : \A q \in Siblings(p) :
        Open(p) /\ Open(q) =>
            SymbolOf[p] \in torn \/ \E a \in Actors : pc[a] = "inserted" /\ prop[a] \in {p, q}

\* Scans that run at once share the day's automatic approvals, and the unattended
\* ones have a limit of their own within it: count, then insert, under the lock.
CapsHold == Cardinality(Automatic) <= MaxAuto /\ Cardinality(Unattended) <= MaxUnattended

\* Every entry order has a receipt that allows it; a high-risk narrative the user's.
ConsentedOnly ==
    \A p \in Proposals : ordered[p] =>
        \/ <<p, "MANUAL_APPROVED">> \in receipts
        \/ ~risky[p] /\ \E r \in Automatic : r[1] = p

\* Past the final check of status and expiry.
Committed(p) == \E a \in Actors : prop[a] = p /\ pc[a] \in OwnerPcs \ {"owned"}
Decided == {"blocked", "rejected", "expired", "superseded"}

\* A decision is final for whoever has not passed the last check yet, however long
\* ago it read the row: a proposal that was superseded, rejected, expired or
\* blocked by then is never sent.
DecidedIsNotSent ==
    [][\A p \in Proposals : status[p] \in Decided /\ ~Committed(p) /\ ~ordered[p]
                             => ~Committed(p)' /\ ~ordered'[p]]_vars
=============================================================================
