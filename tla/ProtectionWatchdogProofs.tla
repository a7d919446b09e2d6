---------------------- MODULE ProtectionWatchdogProofs ----------------------
(***************************************************************************)
(* One incident per position, and none that ends unearned, for any number  *)
(* of positions and any escalation threshold.                              *)
(***************************************************************************)
EXTENDS ProtectionWatchdog, FiniteSetTheorems, TLAPS

USE DEF None, Unknown

\* Recording a verdict keeps the incidents of the other positions.
LEMMA RecordKeepsOne ==
    ASSUME NEW p \in Positions, NEW kind \in Verdicts, TypeOK, OneIncident, Record(p, kind)
    PROVE  /\ incidents' \subseteq Incident /\ OneIncident'
           /\ verified' \in [Positions -> BOOLEAN]
           /\ streak' \in [Positions -> 0..Threshold - 1]
           /\ \A q \in Positions \ {p} : Mine(q)' = Mine(q) /\ verified'[q] = verified[q]
           /\ Mine(p)' = {} => Mine(p) = {} \/ kind \in Healthy
           /\ \A i \in incidents' : i.read => i \in incidents
<1>1. CASE kind \in IncidentKinds /\ ~\E i \in Mine(p) : i.kind = kind
  <2> DEFINE fresh == [of |-> p, kind |-> kind, read |-> FALSE]
  <2>1. incidents' = (incidents \ Mine(p)) \cup {fresh}
    BY <1>1 DEF Record
  <2>2. fresh \in Incident /\ fresh.of = p /\ ~fresh.read
    BY <1>1 DEF Incident
  <2> HIDE DEF fresh
  <2>3. incidents' \subseteq Incident
    BY <2>1, <2>2 DEF TypeOK
  <2>4. OneIncident'
    BY <2>1, <2>2 DEF OneIncident, Mine
  <2>5. \A q \in Positions \ {p} : Mine(q)' = Mine(q)
    BY <2>1, <2>2 DEF Mine
  <2>6. Mine(p)' # {}
    BY <2>1, <2>2 DEF Mine
  <2>7. verified' = [verified EXCEPT ![p] = FALSE]
    BY <1>1 DEF Record
  <2>8. streak' \in [Positions -> 0..Threshold - 1]
    BY ThresholdAssumption DEF Record, TypeOK
  <2> QED
    BY <1>1, <2>1, <2>2, <2>3, <2>4, <2>5, <2>6, <2>7, <2>8 DEF TypeOK
<1>2. CASE ~(kind \in IncidentKinds /\ ~\E i \in Mine(p) : i.kind = kind)
  <2>1. /\ incidents' = IF kind \in Healthy THEN incidents \ Mine(p) ELSE incidents
        /\ verified' = verified
    BY <1>2 DEF Record
  <2>2. incidents' \subseteq Incident /\ OneIncident'
    BY <2>1 DEF TypeOK, OneIncident
  <2>3. \A q \in Positions \ {p} : Mine(q)' = Mine(q)
    BY <2>1 DEF Mine
  <2>4. Mine(p)' = {} => Mine(p) = {} \/ kind \in Healthy
    BY <2>1 DEF Mine
  <2> QED
    BY <2>1, <2>2, <2>3, <2>4, ThresholdAssumption DEF Record, TypeOK
<1> QED
  BY <1>1, <1>2

\* Every verdict is one the constants name.
LEMMA VerdictsAreKnown ==
    ASSUME NEW p \in Positions, NEW raw \in RawVerdicts(p)
    PROVE  raw \in Verdicts /\ Escalated(p, raw) \in Verdicts
BY DEF RawVerdicts, AttributedVerdicts, OriginVerdicts, Escalated, Verdicts, IncidentKinds, Healthy

\* A healthy verdict on an open position is a working stop.
LEMMA HealthyIsSafe ==
    ASSUME NEW p \in Positions, NEW raw \in RawVerdicts(p), Escalated(p, raw) \in Healthy,
           local[p] = "open"
    PROVE  broker[p] \in Safe
BY DEF RawVerdicts, AttributedVerdicts, OriginVerdicts, Escalated, Healthy, Safe, Open

\* What the pass carries from its check to its record.
Carried ==
    /\ \A p \in todo : local[p] # "none"
    /\ pc = "record" => local[now] # "none"
    /\ pc = "record" /\ verdict \in Healthy /\ Mine(now) # {} /\ local[now] = "open" => verified[now]
\* A row that is marked as read is the one the operator's command is about.
ReadIsOps == \A i \in incidents : i.read => op.of = i.of
IInv == WatchdogInv /\ Carried /\ ReadIsOps

LEMMA InitIInv == Init => IInv
<1> SUFFICES ASSUME Init PROVE IInv
  OBVIOUS
<1>1. TypeOK
  BY ThresholdAssumption
     DEF Init, TypeOK, AtBroker, Ops, NoOp, Verdicts, Healthy
<1> QED
  BY <1>1 DEF Init, IInv, WatchdogInv, OneIncident, Carried, ReadIsOps, ReadIsOps

LEMMA ReconcileInv ==
    ASSUME IInv, Reconcile PROVE IInv'
BY DEF IInv, WatchdogInv, TypeOK, OneIncident, Carried, ReadIsOps, Reconcile, Mine

LEMMA SweepInv ==
    ASSUME IInv, NoExit \/ Sweep PROVE IInv'
BY DEF IInv, WatchdogInv, TypeOK, OneIncident, Carried, ReadIsOps, NoExit, Sweep, Mine

LEMMA ListInv ==
    ASSUME IInv, List PROVE IInv'
<1>1. Cardinality(Held) \in Nat
  BY PositionsAssumption, FS_Subset, FS_CardinalityType DEF Held
<1> QED
  BY <1>1 DEF IInv, WatchdogInv, TypeOK, OneIncident, Carried, ReadIsOps, List, Mine, Open

LEMMA ExitFailsInv ==
    ASSUME IInv, NEW p \in Positions, ExitFails(p) PROVE IInv'
<1>1. PICK kind \in Verdicts : Record(p, kind)
  BY DEF ExitFails, Verdicts, IncidentKinds
<1>2. /\ incidents' \subseteq Incident /\ OneIncident'
      /\ verified' \in [Positions -> BOOLEAN] /\ streak' \in [Positions -> 0..Threshold - 1]
      /\ \A i \in incidents' : i.read => i \in incidents
  BY <1>1, RecordKeepsOne DEF IInv, WatchdogInv
<1>3. broker' \in [Positions -> AtBroker] /\ pc' = "sweep"
  BY DEF ExitFails, IInv, WatchdogInv, TypeOK, AtBroker
<1>4. UNCHANGED <<local, todo, listed, now, verdict, proof, op>>
  BY DEF ExitFails
<1> QED
  BY <1>2, <1>3, <1>4 DEF IInv, WatchdogInv, TypeOK, Carried, ReadIsOps, ReadIsOps

LEMMA CheckInv ==
    ASSUME IInv, NEW p \in Positions, Check(p) PROVE IInv'
<1>1. PICK raw \in RawVerdicts(p) :
        verdict' = Escalated(p, raw)
        /\ proof' = IF raw = "protected" /\ Cardinality(Open) > 1 THEN Open ELSE {}
  BY DEF Check
<1>2. verdict' \in Verdicts /\ proof' \subseteq Positions
  BY <1>1, VerdictsAreKnown DEF Open
<1>3. /\ now' = p /\ pc' = "record" /\ p \in todo
      /\ verified' = [verified EXCEPT ![p] = Mine(p) # {} /\ (@ \/ broker[p] \in Safe)]
      /\ UNCHANGED <<local, broker, incidents, streak, todo, listed, op>>
  BY DEF Check
<1>4. TypeOK' /\ OneIncident'
  BY <1>2, <1>3 DEF IInv, WatchdogInv, TypeOK, OneIncident
<1>5. Carried'
  <2>1. verdict' \in Healthy /\ local[p] = "open" => broker[p] \in Safe
    BY <1>1, HealthyIsSafe
  <2>2. Mine(p)' = Mine(p)
    BY <1>3 DEF Mine
  <2> QED
    BY <1>3, <2>1, <2>2 DEF IInv, WatchdogInv, TypeOK, Carried, ReadIsOps, ReadIsOps
<1>6. ReadIsOps'
  BY <1>3 DEF IInv, ReadIsOps
<1> QED
  BY <1>4, <1>5, <1>6 DEF IInv, WatchdogInv

LEMMA RecordVerdictInv ==
    ASSUME IInv, RecordVerdict PROVE IInv'
<1>1. now \in Positions
  BY DEF IInv, WatchdogInv, TypeOK, RecordVerdict
<1>2. PICK kind \in Verdicts : Record(now, kind)
  BY DEF IInv, WatchdogInv, TypeOK, RecordVerdict, Verdicts, IncidentKinds
<1>3. /\ incidents' \subseteq Incident /\ OneIncident'
      /\ verified' \in [Positions -> BOOLEAN] /\ streak' \in [Positions -> 0..Threshold - 1]
      /\ \A i \in incidents' : i.read => i \in incidents
  BY <1>1, <1>2, RecordKeepsOne DEF IInv, WatchdogInv
<1>4. /\ todo' \subseteq todo /\ pc' \in {"idle", "check"} /\ now' = None
      /\ verdict' = "protected" /\ proof' = {} /\ listed' \in {Unknown, listed}
      /\ UNCHANGED <<local, broker, op>>
  BY DEF RecordVerdict
<1> QED
  BY <1>3, <1>4 DEF IInv, WatchdogInv, TypeOK, Carried, ReadIsOps, Verdicts, Healthy

LEMMA OperatorInv ==
    ASSUME IInv, ResolveClose \/ MarkResolved \/ OperatorDies \/ \E i \in incidents : Read(i)
    PROVE  IInv'
<1> DEFINE Marked(i, b) == [i EXCEPT !.read = b]
<1>5. \A i \in Incident, b \in BOOLEAN : Marked(i, b) \in Incident /\ Marked(i, b).of = i.of
  BY DEF Incident
<1>6. \/ incidents' \subseteq incidents
      \/ incidents' = {Marked(i, FALSE) : i \in incidents}
      \/ \E i \in incidents : incidents' = (incidents \ {i}) \cup {Marked(i, TRUE)}
  BY DEF ResolveClose, MarkResolved, OperatorDies, Read, Forget
<1>8. \A i \in Incident : ~[i EXCEPT !.read = FALSE].read
  BY DEF Incident
<1> HIDE DEF Marked
<1>1. /\ OneIncident' /\ incidents' \subseteq Incident
      /\ \A p \in Positions : Mine(p) = {} => Mine(p)' = {}
  <2>0. incidents \subseteq Incident /\ OneIncident
    BY DEF IInv, WatchdogInv, TypeOK
  <2>1. CASE incidents' \subseteq incidents
    BY <2>0, <2>1 DEF OneIncident, Mine
  <2>2. CASE incidents' = {Marked(i, FALSE) : i \in incidents}
    <3>1. \A i \in incidents : Marked(i, FALSE) \in Incident /\ Marked(i, FALSE).of = i.of
      BY <1>5, <2>0
    <3>2. incidents' \subseteq Incident
      BY <2>2, <3>1
    <3>3. OneIncident'
      <4> SUFFICES ASSUME NEW x \in incidents', NEW y \in incidents', x.of = y.of PROVE x = y
        BY DEF OneIncident
      <4>1. PICK i \in incidents : x = Marked(i, FALSE)
        BY <2>2
      <4>2. PICK j \in incidents : y = Marked(j, FALSE)
        BY <2>2
      <4> QED
        BY <2>0, <3>1, <4>1, <4>2 DEF OneIncident
    <3>4. \A p \in Positions : Mine(p) = {} => Mine(p)' = {}
      BY <2>2, <3>1 DEF Mine
    <3> QED
      BY <3>2, <3>3, <3>4
  <2>3. ASSUME NEW i \in incidents, incidents' = (incidents \ {i}) \cup {Marked(i, TRUE)}
        PROVE  /\ OneIncident' /\ incidents' \subseteq Incident
               /\ \A p \in Positions : Mine(p) = {} => Mine(p)' = {}
    <3>1. Marked(i, TRUE) \in Incident /\ Marked(i, TRUE).of = i.of
      BY <1>5, <2>0, <2>3
    <3> QED
      BY <2>0, <2>3, <3>1 DEF OneIncident, Mine
  <2> QED
    BY <1>6, <2>1, <2>2, <2>3
<1>2. op' \in Ops
  BY DEF IInv, WatchdogInv, TypeOK, Ops, NoOp, Incident, ResolveClose, MarkResolved,
         OperatorDies, Read, Forget
<1>3. UNCHANGED <<broker, streak, pass, verified>>
  BY DEF ResolveClose, MarkResolved, OperatorDies, Read
<1>7. ReadIsOps'
  <2>1. CASE MarkResolved
    BY <2>1 DEF MarkResolved, ReadIsOps
  <2>2. CASE ResolveClose \/ OperatorDies
    <3>1. CASE UNCHANGED incidents /\ op' = [op EXCEPT !.act = "resolve"]
      <4>1. op'.of = op.of
        BY <3>1 DEF IInv, WatchdogInv, TypeOK, Ops, NoOp
      <4> QED
        BY <3>1, <4>1 DEF IInv, ReadIsOps
    <3>2. CASE Forget
      BY <3>2, <1>8 DEF Forget, ReadIsOps, IInv, WatchdogInv, TypeOK
    <3> QED
      BY <2>2, <3>1, <3>2 DEF ResolveClose, OperatorDies
  <2>3. ASSUME NEW i \in incidents, Read(i) PROVE ReadIsOps'
    <3>1. op.of = None /\ op'.of = i.of /\ i \in Incident /\ i.of \in Positions
      BY <2>3 DEF Read, NoOp, IInv, WatchdogInv, TypeOK, Incident
    <3>2. \A j \in incidents : ~j.read
      BY <3>1, PositionsAssumption DEF IInv, ReadIsOps, WatchdogInv, TypeOK, Incident
    <3>3. incidents' = (incidents \ {i}) \cup {Marked(i, TRUE)} /\ Marked(i, TRUE).of = i.of
      BY <2>3, <3>1, <1>5 DEF Read, Marked
    <3> QED
      BY <3>1, <3>2, <3>3 DEF ReadIsOps
  <2> QED
    BY <2>1, <2>2, <2>3
<1>4. /\ local' \in [Positions -> {"none", "open", "closed"}]
      /\ \A p \in Positions : local'[p] = local[p] \/ local'[p] = "closed"
  BY DEF IInv, WatchdogInv, TypeOK, ResolveClose, MarkResolved, OperatorDies, Read
<1> QED
  BY <1>1, <1>2, <1>3, <1>4, <1>7 DEF IInv, WatchdogInv, TypeOK, Carried, pass

LEMMA BrokerInv ==
    ASSUME IInv, NEW p \in Positions, EntryFilled(p) \/ BrokerMoves(p) PROVE IInv'
<1>1. UNCHANGED <<incidents, streak, pass, op, verified>>
  BY DEF EntryFilled, BrokerMoves
<1>2. /\ local' \in [Positions -> {"none", "open", "closed"}]
      /\ broker' \in [Positions -> AtBroker]
      /\ \A q \in Positions : local[q] # "none" => local'[q] = local[q]
  BY DEF IInv, WatchdogInv, TypeOK, AtBroker, Holding, EntryFilled, BrokerMoves
<1> QED
  BY <1>1, <1>2 DEF IInv, WatchdogInv, TypeOK, OneIncident, Carried, ReadIsOps, Mine, pass

LEMMA NextIInv ==
    ASSUME IInv, [Next]_vars PROVE IInv'
<1>1. CASE UNCHANGED vars
  BY <1>1 DEF vars, pass, IInv, WatchdogInv, TypeOK, OneIncident, Carried, ReadIsOps, Mine
<1> QED
  BY <1>1, ReconcileInv, SweepInv, ListInv, ExitFailsInv, CheckInv, RecordVerdictInv,
     OperatorInv, BrokerInv DEF Next, Pass

\* A position has one incident at most.
THEOREM WatchdogInvariant == Spec => []WatchdogInv
<1>1. IInv => WatchdogInv
  BY DEF IInv
<1> QED
  BY <1>1, InitIInv, NextIInv, PTL DEF Spec

LEMMA EndsForCause ==
    ASSUME IInv, [Next]_vars PROVE [EndIsEarned]_vars
<1> SUFFICES ASSUME Next, NEW p \in Positions, Mine(p) # {}, Mine(p)' = {}, local'[p] = "open"
             PROVE  verified[p] \/ op.of = p
  BY DEF EndIsEarned
<1>1. CASE UNCHANGED incidents
  BY <1>1 DEF Mine
<1>2. CASE Sweep
  BY <1>2 DEF Sweep, Mine
<1>3. ASSUME NEW q \in Positions, ExitFails(q) PROVE FALSE
  <2>1. PICK kind \in IncidentKinds : Record(q, kind)
    BY <1>3 DEF ExitFails, IncidentKinds
  <2>2. kind \in Verdicts /\ kind \notin Healthy
    BY <2>1 DEF Verdicts, IncidentKinds, Healthy
  <2> QED
    BY <2>1, <2>2, RecordKeepsOne DEF IInv, WatchdogInv
<1>4. CASE RecordVerdict
  <2>1. now \in Positions /\ pc = "record" /\ local' = local
    BY <1>4 DEF IInv, WatchdogInv, TypeOK, RecordVerdict
  <2>2. PICK kind \in Verdicts : Record(now, kind) /\ kind \in {"unverifiable", verdict}
    BY <1>4 DEF IInv, WatchdogInv, TypeOK, RecordVerdict, Verdicts, IncidentKinds
  <2>3. p = now /\ kind \in Healthy
    BY <2>1, <2>2, RecordKeepsOne DEF IInv, WatchdogInv
  <2>4. verdict \in Healthy
    BY <2>2, <2>3 DEF Healthy
  <2> QED
    BY <2>1, <2>3, <2>4 DEF IInv, Carried
<1>5. CASE \E i \in incidents : Read(i)
  <2>1. PICK i \in incidents : incidents' = (incidents \ {i}) \cup {[i EXCEPT !.read = TRUE]}
    BY <1>5 DEF Read
  <2>2. [i EXCEPT !.read = TRUE].of = i.of
    BY DEF IInv, WatchdogInv, TypeOK, Incident
  <2> QED
    BY <2>1, <2>2 DEF Mine
<1>6. CASE ResolveClose \/ OperatorDies
  <2>1. UNCHANGED incidents \/ incidents' = {[i EXCEPT !.read = FALSE] : i \in incidents}
    BY <1>6 DEF ResolveClose, OperatorDies, Forget
  <2>2. \A i \in incidents : [i EXCEPT !.read = FALSE].of = i.of
    BY DEF IInv, WatchdogInv, TypeOK, Incident
  <2> QED
    BY <2>1, <2>2 DEF Mine
<1>7. CASE MarkResolved
  BY <1>7 DEF MarkResolved, Mine, IInv, ReadIsOps
<1> QED
  BY <1>1, <1>2, <1>3, <1>4, <1>5, <1>6, <1>7
     DEF Next, Pass, Reconcile, NoExit, List, Check, EntryFilled, BrokerMoves

\* The watchdog ends the incident of an open position only when it saw the stop
\* working since that incident opened.
THEOREM IncidentsEndForCause == Spec => IncidentEndsForCause
BY InitIInv, NextIInv, EndsForCause, PTL DEF Spec, IncidentEndsForCause
=============================================================================
