------------------------------ MODULE EntryFills ------------------------------
(***************************************************************************)
(* The life of one acknowledged paper entry order until it is filled or    *)
(* dead: the monitor's reconciliation of its fills                         *)
(* (OrderManager.reconcile), the staleness cancel, the operator's cancel   *)
(* (which takes no lock), and the broker that fills, cancels and expires   *)
(* the order meanwhile.  One step is one broker call or one ledger         *)
(* transaction.  A position exists exactly when something is booked.       *)
(***************************************************************************)
EXTENDS Integers

CONSTANTS
    Monitors,      \* monitor passes; more than one only without monitor_ownership
    Operators,     \* operator commands (cancel_order)
    Qty,           \* shares of the entry order
    MaxCrashes     \* bound: deaths of a process

Actors == Monitors \cup Operators
ASSUME ActorsAssumption == Monitors \cap Operators = {}
ASSUME SizesAssumption == Qty \in Nat \ {0} /\ MaxCrashes \in Nat

VARIABLES
    phase,      \* raw_request_json.phase of the entry
    state,      \* paper_orders.state
    status,     \* trade_proposals.status
    booked,     \* the sum of the order's rows in paper_fills
    alarm,      \* a blocking entry incident is open
    raw,        \* the broker's status of the order
    filled,     \* its cumulative filled_qty
    pc,         \* each actor's control point
    seen,       \* what each actor last read
    crashes

ledgerVars == <<phase, state, status, booked, alarm>>
brokerVars == <<raw, filled>>
vars == <<ledgerVars, brokerVars, pc, seen, crashes>>

Dead == {"canceled", "expired", "filled"}
TerminalZero == {"canceled", "expired"}
RawStatuses == Dead \cup {"working", "pending_cancel"}
TerminalNoFill == {"cancelled", "expired"}
States == TerminalNoFill \cup {"submitted", "accepted", "partially_filled", "filled"}
Cancellable == {"submitted", "accepted"}

\* Bug: the broker's word is stored unmapped.
StateUnmapped(s) == s.raw

\* order_mapping: the lifecycle state of a broker answer.
StateOf(s) ==
    CASE s.raw = "working"        -> IF s.filled = 0 THEN "accepted" ELSE "partially_filled"
      [] s.raw = "pending_cancel" -> "submitted"
      [] s.raw = "canceled"       -> "cancelled"
      [] OTHER                    -> s.raw

Pcs == {"idle", "read", "observe", "open", "mark", "verify", "finish", "alarm", "stale",
        "cancel", "reread", "raced", "record", "expire"}
NoSeen == [raw |-> "working", filled |-> 0, pending |-> FALSE, synced |-> FALSE, row |-> "accepted"]

TypeOK ==
    /\ phase \in {"acknowledged", "unknown"} /\ state \in States
    /\ status \in {"submitted", "filled", "expired", "rejected"}
    /\ booked \in 0..Qty /\ alarm \in BOOLEAN
    /\ raw \in RawStatuses /\ filled \in 0..Qty
    /\ pc \in [Actors -> Pcs]
    /\ seen \in [Actors -> [raw : RawStatuses, filled : 0..Qty, pending : BOOLEAN,
                            synced : BOOLEAN, row : States]]
    /\ crashes \in 0..MaxCrashes

Init ==
    /\ phase = "acknowledged" /\ state = "accepted" /\ status = "submitted"
    /\ booked = 0 /\ alarm = FALSE /\ raw = "working" /\ filled = 0
    /\ pc = [a \in Actors |-> "idle"] /\ seen = [a \in Actors |-> NoSeen] /\ crashes = 0

-----------------------------------------------------------------------------
(* Moves.                                                                  *)

Goto(a, at) == pc' = [pc EXCEPT ![a] = at] /\ UNCHANGED seen

Return(a) == pc' = [pc EXCEPT ![a] = "idle"] /\ seen' = [seen EXCEPT ![a] = NoSeen]

\* The order as the broker reports it now.
Answer(a) == [seen[a] EXCEPT !.raw = raw, !.filled = filled]

\* Bug: an answer older than the ledger is booked like any other.
BookBackwards(a) == booked' = seen[a].filled

\* _open_real_position: the position and the new part of the cumulative fill.
Book(a) == seen[a].filled >= booked /\ booked' = seen[a].filled

\* Neither a rejected nor a filled proposal changes its status.
Final == {"rejected", "filled"}
MarkStatus(to) == status' = IF status \in Final THEN status ELSE to

\* EntrySubmission.uncertain: only an unacknowledged entry is reported.
Uncertain(m) == Goto(m, IF phase = "unknown" THEN "alarm" ELSE "stale")

-----------------------------------------------------------------------------
(* The monitor's visit of the row.                                         *)

\* Bug: a terminal row without a position is skipped whatever its phase.
SkippedPending == booked = 0 /\ state \in TerminalNoFill

\* Bug: a row in state filled is taken for done.
SkippedFilled == (booked = 0 /\ state \in TerminalNoFill /\ phase = "acknowledged")
                 \/ state = "filled"

\* The rows reconcile passes over: terminal, no position, nothing pending.
Skipped == booked = 0 /\ state \in TerminalNoFill /\ phase = "acknowledged"

Visit(m) ==
    /\ pc[m] = "idle" /\ ~Skipped
    /\ pc' = [pc EXCEPT ![m] = "read"]
    /\ seen' = [seen EXCEPT ![m] = [NoSeen EXCEPT !.pending = phase = "unknown"]]
    /\ UNCHANGED <<ledgerVars, brokerVars, crashes>>

\* The broker answers (a pending entry is found by its client id), or not.
ReadOrder(m) ==
    /\ pc[m] = "read"
    /\ \/ /\ seen' = [seen EXCEPT ![m] = [Answer(m) EXCEPT !.synced = TRUE]]
          /\ pc' = [pc EXCEPT ![m] = "observe"]
       \/ Uncertain(m)
    /\ UNCHANGED <<ledgerVars, brokerVars, crashes>>

Observe(m) ==
    /\ pc[m] = "observe"
    /\ state' = StateOf(seen[m])
    /\ Goto(m, IF seen[m].filled > 0 THEN "open"
               ELSE IF seen[m].pending THEN "verify" ELSE "stale")
    /\ UNCHANGED <<phase, status, booked, alarm, brokerVars, crashes>>

\* The fill is recorded, or (no price, a quantity moving backwards) doubted.
Open(m) ==
    /\ pc[m] = "open"
    /\ \/ Book(m) /\ Goto(m, "mark") /\ UNCHANGED phase
       \/ phase' = "unknown" /\ Goto(m, "alarm") /\ UNCHANGED booked
    /\ UNCHANGED <<state, status, alarm, brokerVars, crashes>>

Mark(m) ==
    /\ pc[m] = "mark"
    /\ MarkStatus("filled")
    /\ Goto(m, IF seen[m].pending THEN "verify" ELSE "stale")
    /\ UNCHANGED <<phase, state, booked, alarm, brokerVars, crashes>>

\* Bug: a failed verification is not reported again.
VerifySilent(m) ==
    /\ pc[m] = "verify"
    /\ \/ Goto(m, "stale")
       \/ /\ booked > 0 \/ seen[m].raw # "pending_cancel"
          /\ seen' = [seen EXCEPT ![m].row = state] /\ pc' = [pc EXCEPT ![m] = "finish"]
    /\ UNCHANGED <<ledgerVars, brokerVars, crashes>>

\* _verify_recovery: a working order without fills, protection of what is held,
\* or absence; anything else leaves the doubt.
Verify(m) ==
    /\ pc[m] = "verify"
    /\ \/ Uncertain(m)
       \/ /\ booked > 0 \/ seen[m].raw # "pending_cancel"
          /\ seen' = [seen EXCEPT ![m].row = state] /\ pc' = [pc EXCEPT ![m] = "finish"]
    /\ UNCHANGED <<ledgerVars, brokerVars, crashes>>

\* finish: acknowledged and its incidents resolved, unless the proof of absence
\* is for a row that has changed (its state stands for the row).
Finish(m) ==
    LET absent == seen[m].raw \in TerminalZero /\ seen[m].filled = 0 IN
    /\ pc[m] = "finish"
    /\ \/ /\ absent => state = seen[m].row
          /\ phase' = "acknowledged" /\ alarm' = FALSE /\ Goto(m, "stale")
       \/ Uncertain(m) /\ UNCHANGED <<phase, alarm>>
    /\ UNCHANGED <<state, status, booked, brokerVars, crashes>>

Alarm(m) ==
    /\ pc[m] = "alarm"
    /\ alarm' = TRUE /\ Goto(m, "stale")
    /\ UNCHANGED <<phase, state, status, booked, brokerVars, crashes>>

-----------------------------------------------------------------------------
(* Cancelling the unfilled entry.                                          *)

\* _cancel_stale_entries: old or overtaken by the market, read this pass.
Stale(m) ==
    /\ pc[m] = "stale"
    /\ \/ Return(m)
       \/ seen[m].synced /\ state \in Cancellable /\ booked = 0 /\ Goto(m, "cancel")
    /\ UNCHANGED <<ledgerVars, brokerVars, crashes>>

\* cancel_order_operator.
Command(o) ==
    /\ pc[o] = "idle" /\ state \in Cancellable /\ booked = 0
    /\ Goto(o, "cancel")
    /\ UNCHANGED <<ledgerVars, brokerVars, crashes>>

\* The broker takes the request, or refuses and the command is given up.
Cancel(a) ==
    /\ pc[a] = "cancel"
    /\ \/ Goto(a, "reread") /\ raw' = IF raw = "working" THEN "pending_cancel" ELSE raw
       \/ Return(a) /\ UNCHANGED raw
    /\ UNCHANGED <<ledgerVars, filled, crashes>>

\* Bug: a cancel request is taken for a cancellation.
RereadTrusting(a) ==
    /\ pc[a] = "reread"
    /\ \/ Return(a)
       \/ /\ seen' = [seen EXCEPT ![a] = Answer(a)]
          /\ pc' = [pc EXCEPT ![a] = IF filled > 0 THEN "raced" ELSE "expire"]
    /\ UNCHANGED <<ledgerVars, brokerVars, crashes>>

\* Verify after cancel: a raced fill, a dead order, or defer and write nothing.
Reread(a) ==
    /\ pc[a] = "reread"
    /\ \/ Return(a)
       \/ /\ filled > 0 \/ raw \in TerminalZero
          /\ seen' = [seen EXCEPT ![a] = Answer(a)]
          /\ pc' = [pc EXCEPT ![a] = IF filled > 0 THEN "raced" ELSE "expire"]
    /\ UNCHANGED <<ledgerVars, brokerVars, crashes>>

\* The cancel raced a fill: the position is opened; an exception ends the pass.
RacedOpen(a) ==
    /\ pc[a] = "raced"
    /\ \/ Book(a) /\ Goto(a, "record")
       \/ Return(a) /\ UNCHANGED booked
    /\ UNCHANGED <<phase, state, status, alarm, brokerVars, crashes>>

RacedRecord(a) ==
    /\ pc[a] = "record"
    /\ state' = StateOf(seen[a]) /\ MarkStatus("filled")
    /\ Return(a)
    /\ UNCHANGED <<phase, booked, alarm, brokerVars, crashes>>

\* The order is dead and nothing filled: one transaction.
Expire(a) ==
    /\ pc[a] = "expire"
    /\ state' = "cancelled" /\ MarkStatus("expired")
    /\ Return(a)
    /\ UNCHANGED <<phase, booked, alarm, brokerVars, crashes>>

-----------------------------------------------------------------------------
(* The broker, the user and deaths.                                        *)

Fill ==
    /\ raw \notin Dead /\ filled < Qty
    /\ filled' = filled + 1
    /\ raw' = IF filled + 1 = Qty THEN "filled" ELSE raw
    /\ UNCHANGED <<ledgerVars, pc, seen, crashes>>

BrokerEnds ==
    /\ \/ raw = "pending_cancel" /\ raw' = "canceled"
       \/ raw \notin Dead /\ raw' = "expired"
    /\ UNCHANGED <<ledgerVars, filled, pc, seen, crashes>>

\* reject_proposal does not ask for the present status.
Reject ==
    /\ status # "rejected" /\ status' = "rejected"
    /\ UNCHANGED <<phase, state, booked, alarm, brokerVars, pc, seen, crashes>>

Crash(a) ==
    /\ pc[a] # "idle" /\ crashes < MaxCrashes
    /\ crashes' = crashes + 1
    /\ Return(a)
    /\ UNCHANGED <<ledgerVars, brokerVars>>

Withdraw(a) == Cancel(a) \/ Reread(a) \/ RacedOpen(a) \/ RacedRecord(a) \/ Expire(a)
Pass(m) ==
    \/ Visit(m) \/ ReadOrder(m) \/ Observe(m) \/ Open(m) \/ Mark(m)
    \/ Verify(m) \/ Finish(m) \/ Alarm(m) \/ Stale(m)

Next ==
    \/ \E m \in Monitors : Pass(m)
    \/ \E o \in Operators : Command(o)
    \/ \E a \in Actors : Withdraw(a) \/ Crash(a)
    \/ Fill \/ BrokerEnds \/ Reject

Spec == Init /\ [][Next]_vars

\* The monitor is scheduled for ever; its reads and its recording of a fill
\* succeed some time.  Nothing is assumed of the broker or of an operator.
Fairness ==
    \A m \in Monitors :
        /\ WF_vars(Pass(m) \/ Withdraw(m))
        /\ SF_vars(ReadOrder(m) /\ pc'[m] = "observe")
        /\ SF_vars(Open(m) /\ pc'[m] = "mark")
FairSpec == Spec /\ Fairness

-----------------------------------------------------------------------------
(* Properties.                                                             *)

\* A proposal is marked expired only when nothing of its order ever filled or
\* can fill: a cancel request is no proof (order_manager.py:843-868).
ExpiredIsFlat == status = "expired" => raw \in TerminalZero /\ filled = 0

\* A row reconcile will never look at again has no fill that nobody is about to
\* record: reconcile opens positions on entry fills (order_manager.py:489-517).
NoFillIsDropped == Skipped /\ filled > 0 => \E m \in Monitors : pc[m] = "open"

\* What the code does achieve: no fill is dropped unless a process died.
FillsAreKept == crashes = 0 => NoFillIsDropped

\* "The pass after the broker finishes processing completes the cancel": a
\* cancelled, never filled order with nobody at work has an expired (or
\* rejected) proposal (order_manager.py:864-868).
CancelCompletes ==
    raw = "canceled" /\ filled = 0 /\ state = "cancelled" /\ (\A a \in Actors : pc[a] = "idle")
        => status \in {"expired", "rejected"}

Ledger == INSTANCE CumulativeFills WITH dead <- raw \in Dead

\* Whoever records, in whatever order the broker's answers are used: the booked
\* quantity follows the broker's and never shrinks or overtakes it.
ImplementsCumulativeFills == Ledger!Spec

\* Unless a process dies, every fill of the entry is booked in the end.
FillIsBooked == booked < filled ~> (booked = filled \/ crashes > 0)

\* A doubted entry is reported or acknowledged again, whatever dies.
DoubtIsFlagged == phase = "unknown" ~> (alarm \/ phase = "acknowledged")

\* "The entry fill is what makes it 'filled'": a booked fill reaches the
\* proposal, unless the user rejected it (order_manager.py:566-567).
FilledIsMarked == booked > 0 ~> status \in Final
=============================================================================
