------------------------- MODULE ProtectionWatchdog -------------------------
(***************************************************************************)
(* The protection watchdog and its incidents, for the positions of one     *)
(* symbol: the monitor pass that verifies each open position at the broker *)
(* and records a verdict, the sweep of incidents whose position closed,    *)
(* and the operator who acknowledges or resolves an incident.  One step is *)
(* one broker read or one transaction; broker and operator move between    *)
(* any two of them.                                                        *)
(***************************************************************************)
EXTENDS Integers, FiniteSets

CONSTANTS
    Positions,     \* positions of the symbol, in their whole life
    Threshold      \* protection_check_error_escalation_threshold

None == "none"
Unknown == -1   \* list_positions failed, or was not called yet
ASSUME PositionsAssumption == None \notin Positions /\ IsFiniteSet(Positions)
ASSUME ThresholdAssumption == Threshold \in Nat \ {0}

IncidentKinds == {"unprotected", "closed_mismatch", "unverifiable"}
Healthy       == {"protected", "degraded"}
Verdicts      == IncidentKinds \cup Healthy \cup {"check_error"}

\* What the broker has of a position: both legs work, the stop alone, no
\* verified stop, the exit filled on a leg, or flattened by hand.
AtBroker == {"none", "full", "stop_only", "bare", "exited", "flattened"}
Holding  == {"full", "stop_only", "bare"}
Safe     == {"full", "stop_only"}

VARIABLES
    local,       \* positions.status, "none" before the row exists
    broker,
    incidents,   \* unresolved rows of protection_checks that block entries
    streak,      \* newest rows that verified nothing, up to Threshold - 1
    pc,          \* the monitor pass
    todo,        \* positions of its list that it has not checked
    listed,      \* holdings of the symbol that list_positions answered
    now, verdict, proof,   \* the position just checked, its verdict, by which siblings
    op,          \* the operator's command
    verified     \* ghost: stop seen working since the present incident opened

pass == <<pc, todo, listed, now, verdict, proof>>
vars == <<local, broker, incidents, streak, pass, op, verified>>

\* 'read' marks the row whose check_id the operator's command holds.
Incident == [of : Positions, kind : IncidentKinds, read : BOOLEAN]
NoOp     == [act |-> "none", of |-> None]
Ops      == {NoOp} \cup [act : {"ack", "close", "resolve"}, of : Positions]

TypeOK ==
    /\ local \in [Positions -> {"none", "open", "closed"}]
    /\ broker \in [Positions -> AtBroker]
    /\ incidents \subseteq Incident
    /\ streak \in [Positions -> 0..Threshold - 1]
    /\ pc \in {"idle", "exits", "sweep", "list", "check", "record"}
    /\ todo \subseteq Positions
    /\ listed \in Nat \cup {Unknown}
    /\ now \in Positions \cup {None} /\ (pc = "record" => now \in Positions)
    /\ verdict \in Verdicts /\ proof \subseteq Positions
    /\ op \in Ops
    /\ verified \in [Positions -> BOOLEAN]

Init ==
    /\ local = [p \in Positions |-> "none"] /\ broker = [p \in Positions |-> "none"]
    /\ incidents = {} /\ streak = [p \in Positions |-> 0]
    /\ pc = "idle" /\ todo = {} /\ listed = Unknown
    /\ now = None /\ verdict = "protected" /\ proof = {}
    /\ op = NoOp
    /\ verified = [p \in Positions |-> FALSE]

Mine(p) == {i \in incidents : i.of = p}
Open    == {p \in Positions : local[p] = "open"}
Held    == {p \in Positions : broker[p] \in Holding}
-----------------------------------------------------------------------------
(* _record_check: the observation row, and what it does to the incidents.   *)

\* Bug: a new type of trouble opens a second incident beside the first.
RecordBeside(p, kind) ==
    /\ IF kind \in IncidentKinds /\ ~\E i \in Mine(p) : i.kind = kind
       THEN /\ incidents' = incidents \cup {[of |-> p, kind |-> kind, read |-> FALSE]}
            /\ verified' = [verified EXCEPT ![p] = FALSE]
       ELSE /\ incidents' = IF kind \in Healthy THEN incidents \ Mine(p) ELSE incidents
            /\ UNCHANGED verified
    /\ streak' = [streak EXCEPT ![p] =
                    IF kind \notin {"check_error", "unverifiable"} THEN 0
                    ELSE IF @ + 1 < Threshold THEN @ + 1 ELSE @]

\* Bug: whatever is not an incident clears the one that is open.
RecordClears(p, kind) ==
    /\ IF kind \in IncidentKinds /\ ~\E i \in Mine(p) : i.kind = kind
       THEN /\ incidents' = (incidents \ Mine(p)) \cup {[of |-> p, kind |-> kind, read |-> FALSE]}
            /\ verified' = [verified EXCEPT ![p] = FALSE]
       ELSE /\ incidents' = IF kind \notin IncidentKinds THEN incidents \ Mine(p) ELSE incidents
            /\ UNCHANGED verified
    /\ streak' = [streak EXCEPT ![p] =
                    IF kind \notin {"check_error", "unverifiable"} THEN 0
                    ELSE IF @ + 1 < Threshold THEN @ + 1 ELSE @]

\* The same trouble again is an observation only; new trouble supersedes the old;
\* verified protection ends it; a failed check changes nothing.
Record(p, kind) ==
    /\ IF kind \in IncidentKinds /\ ~\E i \in Mine(p) : i.kind = kind
       THEN /\ incidents' = (incidents \ Mine(p)) \cup {[of |-> p, kind |-> kind, read |-> FALSE]}
            /\ verified' = [verified EXCEPT ![p] = FALSE]
       ELSE /\ incidents' = IF kind \in Healthy THEN incidents \ Mine(p) ELSE incidents
            /\ UNCHANGED verified
    /\ streak' = [streak EXCEPT ![p] =
                    IF kind \notin {"check_error", "unverifiable"} THEN 0
                    ELSE IF @ + 1 < Threshold THEN @ + 1 ELSE @]
-----------------------------------------------------------------------------
(* check_position.                                                         *)

\* One origin: the recorded broker order is read and its legs must be live.
OriginVerdicts(p) == {"check_error"} \cup
    IF listed # 1 THEN {"unverifiable"}
    ELSE IF broker[p] = "full" THEN {"protected"}
    ELSE IF broker[p] = "stop_only" THEN {"degraded"}
    ELSE {"unprotected"}

\* Several origins: fresh evidence must attribute the whole holding, or nothing.  An
\* origin whose exit fills are all booked holds nothing and may wait to be closed,
\* but its own check does not claim protection.
AttributedVerdicts(p) == {"unverifiable"} \cup
    IF broker[p] = "full" /\ \A q \in Open : broker[q] \in {"full", "exited"}
    THEN {"protected"} ELSE {}

RawVerdicts(p) ==
    IF listed = Unknown THEN {"check_error"}
    ELSE IF listed = 0 THEN {"closed_mismatch"}
    ELSE IF Cardinality(Open) > 1 THEN AttributedVerdicts(p) ELSE OriginVerdicts(p)

\* Bug: a lookup that keeps failing is never anything but a warning.
NeverEscalated(p, raw) == raw

\* _apply_check_error_escalation.
Escalated(p, raw) ==
    IF raw = "check_error" /\ streak[p] + 1 >= Threshold THEN "unverifiable" ELSE raw
-----------------------------------------------------------------------------
(* The monitor pass.                                                       *)

\* OrderManager.reconcile: exits filled at the broker close their positions,
\* those it could read.
Reconcile ==
    /\ pc = "idle" /\ pc' = "exits"
    /\ \E seen \in SUBSET {p \in Open : broker[p] = "exited"} :
        local' = [p \in Positions |-> IF p \in seen THEN "closed" ELSE local[p]]
    /\ UNCHANGED <<broker, incidents, streak, todo, listed, now, verdict, proof, op, verified>>

\* enforce_time_exits: an exit that took the protection away and could not close
\* records the incident itself; doubt does not replace a known missing stop.
ExitFails(p) ==
    /\ pc = "exits" /\ pc' = "sweep"
    /\ p \in Open /\ broker[p] \in Holding
    /\ \E seen \in {"unprotected", "unverifiable"} :
        Record(p, IF \E i \in Mine(p) : i.kind = "unprotected" THEN "unprotected" ELSE seen)
    /\ broker' = [broker EXCEPT ![p] = "bare"]
    /\ UNCHANGED <<local, todo, listed, now, verdict, proof, op>>

NoExit ==
    /\ pc = "exits" /\ pc' = "sweep"
    /\ UNCHANGED <<local, broker, incidents, streak, todo, listed, now, verdict, proof, op, verified>>

\* Bug: only positions that are still open are looked at.
SweepNothing ==
    /\ pc = "sweep" /\ pc' = "list"
    /\ UNCHANGED <<local, broker, incidents, streak, todo, listed, now, verdict, proof, op, verified>>

\* _resolve_orphaned_incidents.
Sweep ==
    /\ pc = "sweep" /\ pc' = "list"
    /\ incidents' = {i \in incidents : local[i.of] = "open"}
    /\ UNCHANGED <<local, broker, streak, todo, listed, now, verdict, proof, op, verified>>

\* run_watchdog_pass reads its list, and the broker's positions once for all.
List ==
    /\ pc = "list"
    /\ todo' = Open
    /\ listed' \in IF Open = {} THEN {Unknown} ELSE {Unknown, Cardinality(Held)}
    /\ pc' = IF Open = {} THEN "idle" ELSE "check"
    /\ UNCHANGED <<local, broker, incidents, streak, now, verdict, proof, op, verified>>

Check(p) ==
    /\ pc = "check" /\ p \in todo
    /\ \E raw \in RawVerdicts(p) :
        /\ verdict' = Escalated(p, raw)
        /\ proof' = IF raw = "protected" /\ Cardinality(Open) > 1 THEN Open ELSE {}
    /\ now' = p /\ pc' = "record"
    /\ verified' = [verified EXCEPT ![p] = Mine(p) # {} /\ (@ \/ broker[p] \in Safe)]
    /\ UNCHANGED <<local, broker, incidents, streak, todo, listed, op>>

\* An attribution is void if the open origins changed since it was made.
RecordVerdict ==
    /\ pc = "record"
    /\ Record(now, IF proof \notin {{}, Open} THEN "unverifiable" ELSE verdict)
    /\ todo' = todo \ {now}
    /\ pc' = IF todo' = {} THEN "idle" ELSE "check"
    /\ listed' = IF todo' = {} THEN Unknown ELSE listed
    /\ now' = None /\ verdict' = "protected" /\ proof' = {}
    /\ UNCHANGED <<local, broker, op>>

Pass ==
    \/ Reconcile \/ NoExit \/ Sweep \/ List \/ RecordVerdict
    \/ \E p \in Positions : ExitFails(p) \/ Check(p)
-----------------------------------------------------------------------------
(* The operator: protection_ack and protection_resolve read an incident,   *)
(* decide, and write.                                                      *)

Read(i) ==
    /\ op = NoOp
    /\ \/ i.kind # "closed_mismatch" /\ op' = [act |-> "ack", of |-> i.of]
       \/ /\ i.kind = "closed_mismatch" /\ local[i.of] = "open"
          /\ op' = [act |-> "close", of |-> i.of]
    /\ incidents' = (incidents \ {i}) \cup {[i EXCEPT !.read = TRUE]}
    /\ UNCHANGED <<local, broker, streak, pass, verified>>

Forget == op' = NoOp /\ incidents' = {[i EXCEPT !.read = FALSE] : i \in incidents}

\* close_position: its own transaction, which declines a closed position.
ResolveClose ==
    /\ op.act = "close"
    /\ IF local[op.of] = "open"
       THEN /\ local' = [local EXCEPT ![op.of] = "closed"]
            /\ op' = [op EXCEPT !.act = "resolve"]
            /\ UNCHANGED incidents
       ELSE Forget /\ UNCHANGED local
    /\ UNCHANGED <<broker, streak, pass, verified>>

\* The update by check_id that ends an ack, and a resolve.
MarkResolved ==
    /\ op.act \in {"ack", "resolve"}
    /\ incidents' = {i \in incidents : ~i.read}
    /\ op' = NoOp
    /\ UNCHANGED <<local, broker, streak, pass, verified>>

\* The command's process dies after the close.
OperatorDies ==
    /\ op.act = "resolve" /\ Forget
    /\ UNCHANGED <<local, broker, streak, pass, verified>>
-----------------------------------------------------------------------------
(* The broker.                                                             *)

\* An entry filled: the position row is there, its bracket active or not yet.
EntryFilled(p) ==
    /\ local[p] = "none"
    /\ local' = [local EXCEPT ![p] = "open"]
    /\ broker' \in {[broker EXCEPT ![p] = b] : b \in {"full", "bare"}}
    /\ UNCHANGED <<incidents, streak, pass, op, verified>>

\* A leg fills, dies or is put back, or somebody flattens the position.
BrokerMoves(p) ==
    /\ broker[p] \in Holding
    /\ broker' \in {[broker EXCEPT ![p] = b] : b \in Holding \cup {"exited", "flattened"}}
    /\ broker[p] = "bare" => broker'[p] # "exited"
    /\ local[p] = "closed" => broker'[p] = "flattened"   \* the rest is not looked at
    /\ UNCHANGED <<local, incidents, streak, pass, op, verified>>

Next ==
    \/ Pass
    \/ ResolveClose \/ MarkResolved \/ OperatorDies \/ \E i \in incidents : Read(i)
    \/ \E p \in Positions : EntryFilled(p) \/ BrokerMoves(p)

Spec == Init /\ [][Next]_vars

\* Passes go on; nothing is asked of the broker or the operator.
FairSpec == Spec /\ WF_vars(Pass)
-----------------------------------------------------------------------------
\* Each position has one blocking incident at most: what a person ends is all
\* that blocks for it.
OneIncident == \A i, j \in incidents : i.of = j.of => i = j
WatchdogInv == TypeOK /\ OneIncident

\* The incident of an open position ends without a person only after its stop
\* was seen working at the broker since that incident opened.
EndIsEarned == \A p \in Positions :
    /\ Mine(p) # {} /\ Mine(p)' = {} /\ local'[p] = "open"
    => verified[p] \/ op.of = p
IncidentEndsForCause == [][EndIsEarned]_vars

\* A position without a working stop blocks new entries, also when the broker
\* cannot be read, and again after a person acknowledged it.
Exposed(p) == local[p] = "open" /\ broker[p] \notin Safe
TroubleBlocks == \A p \in Positions : Exposed(p) ~> (Mine(p) # {} \/ ~Exposed(p))

\* An incident of a closed position does not block for ever, not even one that
\* was recorded late from a list read before the close.
OrphansAreSwept == \A p \in Positions :
    (local[p] = "closed" /\ Mine(p) # {}) ~> Mine(p) = {}
=============================================================================
