----------------------- MODULE EntrySubmissionProofs ------------------------
(* CoreInv is an invariant of EntrySubmission for any number of proposals,  *)
(* senders and crashes, with or without the ownership locks; the safety      *)
(* properties of the entry path follow. With the locks, OwnershipInv is one  *)
(* too, and the path implements AtMostOnceEntry.                             *)
EXTENDS EntrySubmission, TLAPS

USE DEF rowVars, ledgerVars, brokerVars, senderVars, cancelVars, opVars, lockVars

----------------------------------------------------------------------------
(* Types.                                                                   *)

\* The ledger and the processes of a fresh start have their types.
LEMMA InitTypeOK == Init => TypeOK
<1> SUFFICES ASSUME Init PROVE TypeOK OBVIOUS
<1>1. /\ phase \in [Proposals -> Phases] /\ proof \in [Proposals -> Proofs]
      /\ ostate \in [Proposals -> OrderStates] /\ status \in [Proposals -> Statuses]
    BY DEF Init, Phases, Proofs, OrderStates, Statuses
<1>2. /\ pc \in [Senders -> SenderPcs] /\ outcome \in [Senders -> Outcomes]
      /\ work \in [Senders -> Proposals \cup {Nobody}] /\ norm \in [Senders -> Known \cup {"none"}]
      /\ recovering \in [Senders -> BOOLEAN]
    BY DEF Init, SenderPcs, Outcomes
<1>3. mon \in Visits
    BY DEF Init, NoVisit, MonitorPcs, Visits
<1>4. <<"none", FALSE, "none", FALSE, "none">> \in Rows BY DEF Rows, Phases, Proofs, OrderStates
<1>5. op \in Resolutions
    BY <1>4 DEF Init, NoResolution, Resolutions
<1>6. cancel \in Cancels /\ cancelled \in [Proposals -> BOOLEAN]
    BY DEF Init, NoCancel, Cancels
<1> QED BY <1>1, <1>2, <1>3, <1>5, <1>6, ActorsAssumption DEF Init, TypeOK

\* What _entry_result returns (order_manager.py:484) is an outcome.
LEMMA EntryResultType == \A p \in Proposals : EntryResult(p) \in Outcomes
BY DEF EntryResult, Outcomes

\* What a preflight refusal returns is an outcome.
LEMMA RefusalsType == \A p \in Proposals : Refusals(p) \cup {"blocked"} \subseteq Outcomes
BY DEF Refusals, Outcomes

\* Moving one sender keeps the type of the program counters and locals.
LEMMA GotoType ==
    ASSUME TypeOK, NEW s \in Senders, NEW at \in SenderPcs, Goto(s, at)
    PROVE  pc' \in [Senders -> SenderPcs]
BY DEF TypeOK, Goto

\* Concluding a sender with an outcome keeps the type of its locals.
LEMMA ConcludeType ==
    ASSUME TypeOK, NEW s \in Senders, NEW r \in Outcomes, Conclude(s, r)
    PROVE  pc' \in [Senders -> SenderPcs] /\ outcome' \in [Senders -> Outcomes]
BY DEF TypeOK, Goto, Conclude, SenderPcs

\* A sender that comes to rest keeps the types of every sender's locals.
LEMMA RestType ==
    ASSUME TypeOK, NEW s \in Senders, Rest(s)
    PROVE  /\ pc' \in [Senders -> SenderPcs] /\ work' \in [Senders -> Proposals \cup {Nobody}]
           /\ norm' \in [Senders -> Known \cup {"none"}] /\ recovering' \in [Senders -> BOOLEAN]
           /\ outcome' \in [Senders -> Outcomes]
<1>1. pc' \in [Senders -> SenderPcs] /\ work' \in [Senders -> Proposals \cup {Nobody}]
    BY DEF TypeOK, Rest, Goto, SenderPcs
<1>2. norm' \in [Senders -> Known \cup {"none"}] /\ recovering' \in [Senders -> BOOLEAN]
    BY DEF TypeOK, Rest
<1>3. outcome' \in [Senders -> Outcomes] BY DEF TypeOK, Rest, Outcomes
<1> QED BY <1>1, <1>2, <1>3

\* A step of a sender preserves the types, one case per action.
LEMMA SenderTypeOK ==
    ASSUME TypeOK, NEW s \in Senders, work[s] \in Proposals, SenderStep(s)
    PROVE  TypeOK'
<1> USE DEF Outcomes, SenderPcs
<1>1. CASE Recheck(s)
    <2>1. status' \in [Proposals -> Statuses] BY <1>1 DEF Recheck, TypeOK, Statuses
    <2>2. CASE Rest(s) BY <1>1, <2>1, <2>2, RestType DEF Recheck, TypeOK
    <2>3. CASE Goto(s, "entering") /\ UNCHANGED <<status, work, norm, recovering, outcome>>
        BY <1>1, <2>3, GotoType DEF Recheck, TypeOK
    <2> QED BY <1>1, <2>2, <2>3 DEF Recheck
<1>2. CASE TakeEntryLock(s)
    <2>1. pc' \in [Senders -> SenderPcs] BY <1>2, GotoType DEF TakeEntryLock
    <2>2. outcome' \in [Senders -> Outcomes]
        BY <1>2, EntryResultType, RefusalsType DEF TakeEntryLock, TypeOK
    <2>3. entryLock' \in Senders \cup {Operator, Nobody} BY <1>2 DEF TakeEntryLock, TypeOK, Held
    <2> QED BY <1>2, <2>1, <2>2, <2>3 DEF TakeEntryLock, TypeOK
<1>3. CASE TakeMonitorLock(s)
    <2>1. pc' \in [Senders -> SenderPcs] /\ outcome' \in [Senders -> Outcomes]
        BY <1>3, GotoType, ConcludeType, RefusalsType DEF TakeMonitorLock, TypeOK
    <2>2. monLock' \in Senders \cup {Monitor, Operator, Nobody}
        BY <1>3 DEF TakeMonitorLock, TypeOK, Held
    <2> QED BY <1>3, <2>1, <2>2 DEF TakeMonitorLock, TypeOK
<1>4. CASE Assess(s)
    <2>1. pc' \in [Senders -> SenderPcs] /\ outcome' \in [Senders -> Outcomes]
        BY <1>4, GotoType, ConcludeType, RefusalsType DEF Assess, TypeOK
    <2> QED BY <1>4, <2>1 DEF Assess, TypeOK
<1>5. CASE Check(s)
    <2>1. pc' \in [Senders -> SenderPcs] /\ outcome' \in [Senders -> Outcomes]
        BY <1>5, GotoType, ConcludeType, RefusalsType DEF Check, TypeOK
    <2> QED BY <1>5, <2>1 DEF Check, TypeOK
<1>6. CASE Consent(s)
    <2>1. pc' \in [Senders -> SenderPcs] BY <1>6, GotoType DEF Consent
    <2>2. status' \in [Proposals -> Statuses] BY <1>6 DEF Consent, TypeOK, Statuses
    <2> QED BY <1>6, <2>1, <2>2 DEF Consent, TypeOK
<1>7. CASE Preflight(s)
    <2>1. pc' \in [Senders -> SenderPcs] /\ outcome' \in [Senders -> Outcomes]
        BY <1>7, GotoType, ConcludeType, EntryResultType DEF Preflight, TypeOK
    <2>2. incident' \in [Proposals -> BOOLEAN] BY <1>7 DEF Preflight, RaiseAlarm, TypeOK
    <2> QED BY <1>7, <2>1, <2>2 DEF Preflight, TypeOK
<1>8. CASE Create(s)
    <2>1. pc' \in [Senders -> SenderPcs] /\ outcome' \in [Senders -> Outcomes]
        BY <1>8, GotoType, ConcludeType, EntryResultType DEF Create, TypeOK
    <2>2. phase' \in [Proposals -> Phases] BY <1>8 DEF Create, TypeOK, Phases, Pending
    <2>3. ostate' \in [Proposals -> OrderStates] BY <1>8 DEF Create, TypeOK, OrderStates
    <2> QED BY <1>8, <2>1, <2>2, <2>3 DEF Create, TypeOK
<1>9. CASE Claim(s)
    <2>1. pc' \in [Senders -> SenderPcs] /\ outcome' \in [Senders -> Outcomes]
        BY <1>9, GotoType, ConcludeType, EntryResultType DEF Claim, TypeOK
    <2>2. phase' \in [Proposals -> Phases] BY <1>9 DEF Claim, TypeOK, Phases, Pending
    <2>3. dispatched' \in [Proposals -> BOOLEAN] BY <1>9 DEF Claim, TypeOK
    <2> QED BY <1>9, <2>1, <2>2, <2>3 DEF Claim, TypeOK
<1>10. CASE Post(s)
    <2>1. pc' \in [Senders -> SenderPcs] BY <1>10, GotoType DEF Post
    <2>2. wire' \in [Proposals -> BOOLEAN] BY <1>10 DEF Post, TypeOK
    <2>3. posts' \in [Proposals -> Nat] BY <1>10 DEF Post, TypeOK
    <2> QED BY <1>10, <2>1, <2>2, <2>3 DEF Post, TypeOK
<1>11. CASE Answer(s)
    <2>1. pc' \in [Senders -> SenderPcs] BY <1>11, GotoType DEF Answer
    <2>2. norm' \in [Senders -> Known \cup {"none"}] BY <1>11 DEF Answer, TypeOK
    <2> QED BY <1>11, <2>1, <2>2 DEF Answer, TypeOK
<1>12. CASE SaveUnsafe(s)
    <2>1. pc' \in [Senders -> SenderPcs] /\ outcome' \in [Senders -> Outcomes]
        BY <1>12, ConcludeType DEF SaveUnsafe
    <2>2. phase' \in [Proposals -> Phases] BY <1>12 DEF SaveUnsafe, TypeOK, Phases
    <2>3. ostate' \in [Proposals -> OrderStates] BY <1>12 DEF SaveUnsafe, TypeOK, OrderStates
    <2> QED BY <1>12, <2>1, <2>2, <2>3 DEF SaveUnsafe, TypeOK
<1>13. CASE SaveProof(s)
    <2>1. phase' \in [Proposals -> Phases] BY <1>13 DEF SaveProof, TypeOK, Phases, Pending
    <2>2. proof' \in [Proposals -> Proofs] BY <1>13 DEF SaveProof, TypeOK, Proofs
    <2>3. CASE Rest(s) /\ FreeAll(s) BY <1>13, <2>1, <2>2, <2>3, RestType DEF SaveProof, FreeAll, TypeOK
    <2>4. CASE Goto(s, "alarm") /\ UNCHANGED <<work, norm, recovering, outcome, lockVars>>
        BY <1>13, <2>1, <2>2, <2>4, GotoType DEF SaveProof, TypeOK
    <2> QED BY <1>13, <2>3, <2>4 DEF SaveProof
<1>14. CASE SaveDoubt(s)
    <2>1. pc' \in [Senders -> SenderPcs] /\ outcome' \in [Senders -> Outcomes]
        BY <1>14, GotoType, ConcludeType, EntryResultType DEF SaveDoubt, TypeOK
    <2>2. phase' \in [Proposals -> Phases] BY <1>14 DEF SaveDoubt, InDoubt, TypeOK, Phases, Pending
    <2>3. recovering' \in [Senders -> BOOLEAN] BY <1>14 DEF SaveDoubt, TypeOK
    <2> QED BY <1>14, <2>1, <2>2, <2>3 DEF SaveDoubt, TypeOK
<1>15. CASE SaveAlarm(s)
    <2>1. pc' \in [Senders -> SenderPcs] /\ outcome' \in [Senders -> Outcomes]
        BY <1>15, GotoType, ConcludeType, EntryResultType DEF SaveAlarm, TypeOK
    <2>2. incident' \in [Proposals -> BOOLEAN] BY <1>15 DEF SaveAlarm, RaiseAlarm, TypeOK
    <2> QED BY <1>15, <2>1, <2>2 DEF SaveAlarm, TypeOK
<1>16. CASE Lookup(s)
    <2>1. pc' \in [Senders -> SenderPcs] BY <1>16, GotoType DEF Lookup
    <2>2. norm' \in [Senders -> Known \cup {"none"}] BY <1>16 DEF Lookup, TypeOK
    <2> QED BY <1>16, <2>1, <2>2 DEF Lookup, TypeOK
<1>17. CASE Observe(s)
    <2>1. pc' \in [Senders -> SenderPcs] BY <1>17, GotoType DEF Observe
    <2>2. bound' \in [Proposals -> BOOLEAN] BY <1>17 DEF Observe, ObserveRow, TypeOK
    <2>3. ostate' \in [Proposals -> OrderStates]
        BY <1>17 DEF Observe, ObserveRow, StateOf, TypeOK, OrderStates
    <2> QED BY <1>17, <2>1, <2>2, <2>3 DEF Observe, TypeOK
<1>18. CASE OpenPosition(s)
    <2>1. pc' \in [Senders -> SenderPcs] BY <1>18, GotoType DEF OpenPosition
    <2>2. position' \in [Proposals -> BOOLEAN] BY <1>18 DEF OpenPosition, TypeOK
    <2> QED BY <1>18, <2>1, <2>2 DEF OpenPosition, TypeOK
<1>19. CASE Finish(s)
    <2>1. pc' \in [Senders -> SenderPcs] /\ outcome' \in [Senders -> Outcomes]
        BY <1>19, GotoType, ConcludeType DEF Finish, TypeOK
    <2>2. phase' \in [Proposals -> Phases] BY <1>19 DEF Finish, Acknowledge, TypeOK, Phases
    <2>3. incident' \in [Proposals -> BOOLEAN] BY <1>19 DEF Finish, Acknowledge, TypeOK
    <2> QED BY <1>19, <2>1, <2>2, <2>3 DEF Finish, TypeOK
<1>20. CASE Release(s)
    <2>1. pc' \in [Senders -> SenderPcs] BY <1>20, GotoType DEF Release
    <2> QED BY <1>20, <2>1 DEF Release, FreeAll, TypeOK
<1>21. CASE RecordStatus(s)
    <2>1. status' \in [Proposals -> Statuses] BY <1>21 DEF RecordStatus, TypeOK, Statuses
    <2> QED BY <1>21, <2>1, RestType DEF RecordStatus, TypeOK
<1> QED
    BY <1>1, <1>2, <1>3, <1>4, <1>5, <1>6, <1>7, <1>8, <1>9, <1>10, <1>11, <1>12, <1>13, <1>14,
       <1>15, <1>16, <1>17, <1>18, <1>19, <1>20, <1>21 DEF SenderStep

\* The idle monitor and the idle operator are a visit and a resolution.
LEMMA IdleTypes == NoVisit \in Visits /\ NoResolution \in Resolutions
<1>1. <<"none", FALSE, "none", FALSE, "none">> \in Rows BY DEF Rows, Phases, Proofs, OrderStates
<1> QED BY <1>1 DEF NoVisit, Visits, MonitorPcs, NoResolution, Resolutions

\* The monitor's move to a known control point is again a visit.
LEMMA MonGotoType ==
    ASSUME mon \in Visits, NEW at \in MonitorPcs, MonGoto(at)
    PROVE  mon' \in Visits
BY DEF MonGoto, Visits

\* A step of the monitor preserves the types.
LEMMA MonitorTypeOK ==
    ASSUME TypeOK, MonitorInv, MonitorStep \/ CrashMonitor \/ \E p \in Proposals : Visit(p)
    PROVE  TypeOK'
<1>1. ASSUME NEW p \in Proposals, Visit(p) PROVE TypeOK'
    <2>1. mon' \in Visits
        BY <1>1 DEF Visit, MonitorPcs, PendingIntent, Visits
    <2> QED BY <1>1, <2>1 DEF Visit, TypeOK, Held
<1>2. CASE MonRead
    <2>1. CASE MonGoto("fail") BY <1>2, <2>1, MonGotoType DEF MonRead, TypeOK, MonitorPcs
    <2>2. CASE ~MonGoto("fail")
        <3>1. PICK n \in Known : n = broker[mon.p] BY <1>2, <2>2 DEF MonRead
        <3>2. mon' = [mon EXCEPT !.pc = "answered", !.norm = n] BY <1>2, <2>2, <3>1 DEF MonRead
        <3>3. mon \in Visits BY DEF TypeOK
        <3>4. mon' \in Visits BY <3>2, <3>3 DEF Visits, MonitorPcs
        <3> QED BY <1>2, <3>4 DEF MonRead, TypeOK
    <2> QED BY <2>1, <2>2
<1>3. CASE MonObserve
    <2>1. mon' \in Visits
        BY <1>3, MonGotoType DEF MonObserve, TypeOK, MonitorPcs
    <2>2. bound' \in [Proposals -> BOOLEAN] BY <1>3 DEF MonObserve, ObserveRow, TypeOK
    <2>3. ostate' \in [Proposals -> OrderStates]
        BY <1>3 DEF MonObserve, ObserveRow, StateOf, TypeOK, OrderStates
    <2> QED BY <1>3, <2>1, <2>2, <2>3 DEF MonObserve, TypeOK
<1>4. CASE MonOpenPosition
    <2>1. mon' \in Visits
        BY <1>4, MonGotoType DEF MonOpenPosition, TypeOK, MonitorPcs
    <2>2. position' \in [Proposals -> BOOLEAN] BY <1>4 DEF MonOpenPosition, TypeOK
    <2> QED BY <1>4, <2>1, <2>2 DEF MonOpenPosition, TypeOK
<1>5. CASE MonFilled
    <2>1. mon' \in Visits
        BY <1>5, MonGotoType DEF MonFilled, TypeOK, MonitorPcs
    <2>2. status' \in [Proposals -> Statuses] BY <1>5 DEF MonFilled, TypeOK, Statuses
    <2> QED BY <1>5, <2>1, <2>2 DEF MonFilled, TypeOK
<1>6. CASE MonFinish
    <2>1. mon' \in Visits
        BY <1>6, MonGotoType, IdleTypes DEF MonFinish, TypeOK, MonitorPcs
    <2>2. phase' \in [Proposals -> Phases] BY <1>6 DEF MonFinish, Acknowledge, TypeOK, Phases
    <2>3. incident' \in [Proposals -> BOOLEAN] BY <1>6 DEF MonFinish, Acknowledge, TypeOK
    <2>4. /\ entryLock' \in Senders \cup {Operator, Nobody}
          /\ monLock' \in Senders \cup {Monitor, Operator, Nobody}
        BY <1>6 DEF MonFinish, FreeAll, TypeOK
    <2> QED BY <1>6, <2>1, <2>2, <2>3, <2>4 DEF MonFinish, TypeOK
<1>7. CASE MonDoubt
    <2>1. mon' \in Visits
        BY <1>7, MonGotoType, IdleTypes DEF MonDoubt, TypeOK, MonitorPcs
    <2>2. phase' \in [Proposals -> Phases] BY <1>7 DEF MonDoubt, InDoubt, TypeOK, Phases, Pending
    <2>3. /\ entryLock' \in Senders \cup {Operator, Nobody}
          /\ monLock' \in Senders \cup {Monitor, Operator, Nobody}
        BY <1>7 DEF MonDoubt, FreeAll, TypeOK
    <2> QED BY <1>7, <2>1, <2>2, <2>3 DEF MonDoubt, TypeOK
<1>8. CASE MonAlarm \/ CrashMonitor
    <2>1. mon' \in Visits
        BY <1>8, IdleTypes DEF MonAlarm, CrashMonitor
    <2>2. incident' \in [Proposals -> BOOLEAN]
        BY <1>8 DEF MonAlarm, CrashMonitor, RaiseAlarm, TypeOK
    <2>3. /\ entryLock' \in Senders \cup {Operator, Nobody}
          /\ monLock' \in Senders \cup {Monitor, Operator, Nobody}
        BY <1>8 DEF MonAlarm, CrashMonitor, FreeAll, TypeOK
    <2>4. crashes' \in 0 .. MaxCrashes
        BY <1>8, ActorsAssumption DEF MonAlarm, CrashMonitor, TypeOK
    <2> QED BY <1>8, <2>1, <2>2, <2>3, <2>4 DEF MonAlarm, CrashMonitor, TypeOK
<1> QED BY <1>1, <1>2, <1>3, <1>4, <1>5, <1>6, <1>7, <1>8 DEF MonitorStep

\* A step of the operator preserves the types.
LEMMA OperatorTypeOK ==
    ASSUME TypeOK, OpRead \/ OpApply \/ \E p \in Proposals : OpStart(p)
    PROVE  TypeOK'
<1>1. ASSUME NEW p \in Proposals, OpStart(p) PROVE TypeOK'
    <2>1. Row(p) \in Rows BY DEF TypeOK, Row, Rows
    <2>2. op' \in Resolutions
        BY <1>1, <2>1 DEF OpStart, Resolutions
    <2>3. /\ entryLock' \in Senders \cup {Operator, Nobody}
          /\ monLock' \in Senders \cup {Monitor, Operator, Nobody}
        BY <1>1 DEF OpStart, Held, TypeOK
    <2> QED BY <1>1, <2>2, <2>3 DEF OpStart, TypeOK
<1>2. CASE OpRefuse
    <2>1. op' \in Resolutions
        BY <1>2, IdleTypes DEF OpRefuse
    <2>2. /\ entryLock' \in Senders \cup {Operator, Nobody}
          /\ monLock' \in Senders \cup {Monitor, Operator, Nobody}
        BY <1>2 DEF OpRefuse, FreeAll, TypeOK
    <2> QED BY <1>2, <2>1, <2>2 DEF OpRefuse, TypeOK
<1>3. CASE OpRead
    <2>1. ASSUME ~OpRefuse
          PROVE  op' \in Resolutions
        <3>1. PICK at \in {"read2", "apply"} : op' = [op EXCEPT !.pc = at]
            BY <1>3, <2>1 DEF OpRead
        <3> QED BY <3>1 DEF TypeOK, Resolutions
    <2> QED BY <1>2, <1>3, <2>1 DEF OpRead, TypeOK
<1>4. CASE OpApply /\ ~OpRefuse
    <2>1. op' \in Resolutions
        BY <1>4, IdleTypes DEF OpApply
    <2>2. /\ entryLock' \in Senders \cup {Operator, Nobody}
          /\ monLock' \in Senders \cup {Monitor, Operator, Nobody}
        BY <1>4 DEF OpApply, FreeAll, TypeOK
    <2>3. phase' \in [Proposals -> Phases] BY <1>4 DEF OpApply, TypeOK, Phases, Abandoned
    <2>4. ostate' \in [Proposals -> OrderStates] BY <1>4 DEF OpApply, TypeOK, OrderStates
    <2>5. status' \in [Proposals -> Statuses] BY <1>4 DEF OpApply, TypeOK, Statuses
    <2>6. incident' \in [Proposals -> BOOLEAN] BY <1>4 DEF OpApply, TypeOK
    <2> QED BY <1>4, <2>1, <2>2, <2>3, <2>4, <2>5, <2>6 DEF OpApply, TypeOK
<1> QED BY <1>1, <1>2, <1>3, <1>4

\* A step of the broker, an approval or a decision preserves the types.
LEMMA OtherTypeOK ==
    ASSUME TypeOK, NEW p \in Proposals,
           \/ Reject(p) \/ Supersede(p) \/ Deliver(p) \/ Trade(p)
           \/ \E s \in Senders : CrashSender(s) \/ Approve(s, p)
    PROVE  TypeOK'
<1>1. CASE Reject(p) \/ Supersede(p)
    <2>1. status' \in [Proposals -> Statuses] BY <1>1 DEF Reject, Supersede, TypeOK, Statuses
    <2> QED BY <1>1, <2>1 DEF Reject, Supersede, TypeOK
<1>2. CASE Deliver(p) \/ Trade(p)
    <2>1. wire' \in [Proposals -> BOOLEAN] BY <1>2 DEF Deliver, Trade, TypeOK
    <2>2. broker' \in [Proposals -> Known \cup {"none", "refused"}]
        BY <1>2 DEF Deliver, Trade, TypeOK, Terminal, Known
    <2> QED BY <1>2, <2>1, <2>2 DEF Deliver, Trade, TypeOK
<1>3. ASSUME NEW s \in Senders, CrashSender(s) PROVE TypeOK'
    <2>1. /\ entryLock' \in Senders \cup {Operator, Nobody}
          /\ monLock' \in Senders \cup {Monitor, Operator, Nobody}
        BY <1>3 DEF CrashSender, FreeAll, TypeOK
    <2>2. crashes' \in 0 .. MaxCrashes BY <1>3, ActorsAssumption DEF CrashSender, TypeOK
    <2> QED BY <1>3, <2>1, <2>2, RestType DEF CrashSender, TypeOK
<1>4. ASSUME NEW s \in Senders, Approve(s, p) PROVE TypeOK'
    <2>1. "ready" \in SenderPcs BY DEF SenderPcs
    <2>2. pc' \in [Senders -> SenderPcs] BY <1>4, <2>1, GotoType DEF Approve
    <2>3. work' \in [Senders -> Proposals \cup {Nobody}] BY <1>4 DEF Approve, TypeOK
    <2> QED BY <1>4, <2>2, <2>3 DEF Approve, TypeOK
<1> QED BY <1>1, <1>2, <1>3, <1>4

----------------------------------------------------------------------------
(* What a step may leave behind.                                            *)

\* The rest of the system still believes what it believed about its rows.
SameRow(q) ==
    /\ phase'[q] = phase[q] /\ dispatched'[q] = dispatched[q] /\ proof'[q] = proof[q]
    /\ bound'[q] = bound[q] /\ ostate'[q] = ostate[q] /\ position'[q] = position[q]
    /\ wire'[q] = wire[q] /\ posts'[q] = posts[q] /\ broker'[q] = broker[q]

\* What nobody takes back: a row, a dispatch mark, a broker id, a final broker state.
Grows(p) ==
    /\ phase[p] # "none" => phase'[p] # "none"
    /\ dispatched[p] => dispatched'[p]
    /\ bound[p] => bound'[p]
    /\ broker[p] = "refused" => broker'[p] = "refused"
    /\ \A n \in Known : Agrees(n, p) => Agrees(n, p)'

\* A claim that another process holds on the row is left alone.
ClaimsStay(p) ==
    /\ posts'[p] = posts[p] /\ proof'[p] = proof[p]
    /\ ostate'[p] = "dead" => ostate[p] = "dead"

\* A row that did not change keeps its invariant.
LEMMA SameRowInv ==
    ASSUME NEW q \in Proposals, RowInv(q), SameRow(q)
    PROVE  RowInv(q)'
BY DEF RowInv, SameRow

\* Nothing is taken back from a row that did not change.
LEMMA SameRowGrows ==
    ASSUME NEW q \in Proposals, SameRow(q)
    PROVE  Grows(q) /\ ClaimsStay(q)
BY DEF Grows, SameRow, ClaimsStay, Agrees

\* A sender that did not move keeps its invariant while its row only grows.
LEMMA SenderStable ==
    ASSUME NEW t \in Senders, SenderInv(t), norm[t] \in Known \cup {"none"},
           pc'[t] = pc[t], work'[t] = work[t], norm'[t] = norm[t],
           pc[t] # "idle" => Grows(work[t]),
           pc[t] \in {"claimed", "notsent", "unsafe"} => posts'[work[t]] = posts[work[t]],
           pc[t] = "claimed" => ClaimsStay(work[t])
    PROVE  SenderInv(t)'
<1> SUFFICES ASSUME pc[t] # "idle" PROVE SenderInv(t)' BY DEF SenderInv
<1> DEFINE p == work[t]
<1>1. Agrees(norm[t], p)' BY DEF SenderInv, Grows, Agrees
<1>2. pc[t] \in {"claimed", "notsent", "unsafe"} => posts'[p] = 0
    BY DEF SenderInv
<1>3. pc[t] = "claimed" => ostate'[p] # "dead" /\ proof'[p] = "none"
    BY DEF SenderInv, ClaimsStay
<1> QED BY <1>1, <1>2, <1>3 DEF SenderInv, Grows

\* The monitor's visit keeps its invariant while its row only grows.
LEMMA MonitorStable ==
    ASSUME MonitorInv, mon \in Visits, mon' = mon,
           mon.pc # "idle" => Grows(mon.p)
    PROVE  MonitorInv'
<1> SUFFICES ASSUME mon.pc # "idle" PROVE MonitorInv' BY DEF MonitorInv
<1>1. Agrees(mon.norm, mon.p)' BY DEF MonitorInv, Grows, Agrees, Visits
<1> QED BY <1>1 DEF MonitorInv, Grows

\* A step of sender s on proposal p: everybody else stays, other rows too, and the
\* row of p only grows; a claim on it is disturbed by its holder or before any.
OnlyBy(s, p) ==
    /\ \A t \in Senders \ {s} : pc'[t] = pc[t] /\ work'[t] = work[t] /\ norm'[t] = norm[t]
    /\ \A q \in Proposals \ {p} : SameRow(q)
    /\ Grows(p)
    /\ ClaimsStay(p) \/ ~dispatched[p] \/ (pc[s] \in AfterClaim /\ work[s] = p)
    /\ pc'[s] \in AfterClaim =>
        work'[s] = p /\ (~dispatched[p] \/ (pc[s] \in AfterClaim /\ work[s] = p))
    /\ mon' = mon /\ op' = op

\* A sender's step preserves CoreInv when it preserves its own row and its own
\* beliefs: the others lose nothing.
LEMMA SenderFrame ==
    ASSUME CoreInv, TypeOK', NEW s \in Senders, NEW p \in Proposals, OnlyBy(s, p),
           RowInv(p)', SenderInv(s)'
    PROVE  CoreInv'
<1>1. \A q \in Proposals : RowInv(q)' BY SameRowInv DEF CoreInv, OnlyBy
<1>2. ASSUME NEW t \in Senders, t # s, pc[t] \in AfterClaim, work[t] = p
      PROVE  dispatched[p] /\ ~(pc[s] \in AfterClaim /\ work[s] = p)
    BY <1>2 DEF CoreInv, SenderInv, OneClaimant, AfterClaim
<1>3. \A t \in Senders : SenderInv(t)'
    <2> SUFFICES ASSUME NEW t \in Senders, t # s PROVE SenderInv(t)' OBVIOUS
    <2>1. pc[t] # "idle" => Grows(work[t])
        BY SameRowGrows DEF CoreInv, SenderInv, OnlyBy
    <2>2. pc[t] \in AfterClaim => ClaimsStay(work[t])
        <3> SUFFICES ASSUME pc[t] \in AfterClaim PROVE ClaimsStay(work[t]) OBVIOUS
        <3>1. CASE work[t] = p BY <1>2, <3>1 DEF OnlyBy
        <3>2. CASE work[t] # p
            BY <3>2, SameRowGrows DEF CoreInv, SenderInv, OnlyBy, AfterClaim
        <3> QED BY <3>1, <3>2
    <2>3. SenderInv(t) /\ norm[t] \in Known \cup {"none"} BY DEF CoreInv, TypeOK
    <2>4. pc'[t] = pc[t] /\ work'[t] = work[t] /\ norm'[t] = norm[t] BY DEF OnlyBy
    <2>5. /\ pc[t] \in {"claimed", "notsent", "unsafe"} => posts'[work[t]] = posts[work[t]]
          /\ pc[t] = "claimed" => ClaimsStay(work[t])
        BY <2>2 DEF ClaimsStay, AfterClaim
    <2> QED BY <2>1, <2>3, <2>4, <2>5, SenderStable
<1>4. OneClaimant'
    <2> SUFFICES ASSUME NEW t \in Senders, NEW u \in Senders, pc'[t] \in AfterClaim,
                        pc'[u] \in AfterClaim, work'[t] = work'[u]
                 PROVE  t = u
        BY DEF OneClaimant
    <2>1. CASE t # s /\ u # s BY <2>1 DEF OnlyBy, CoreInv, OneClaimant
    <2>2. CASE t = s /\ u # s BY <1>2, <2>2 DEF OnlyBy
    <2>3. CASE t # s /\ u = s BY <1>2, <2>3 DEF OnlyBy
    <2> QED BY <2>1, <2>2, <2>3
<1>5. MonitorInv'
    <2>1. mon.pc # "idle" => Grows(mon.p) BY SameRowGrows DEF CoreInv, MonitorInv, OnlyBy
    <2> QED BY <2>1, MonitorStable DEF CoreInv, TypeOK, OnlyBy
<1>6. op'.pc # "idle" => op'.p \in Proposals BY DEF CoreInv, OnlyBy
<1> QED BY <1>1, <1>3, <1>4, <1>5, <1>6 DEF CoreInv

\* A step of the broker, the monitor or the operator on proposal p: no sender
\* moves, the other rows stay, the row of p only grows and no claim is disturbed.
OnlyOn(p) ==
    /\ pc' = pc /\ work' = work /\ norm' = norm
    /\ \A q \in Proposals \ {p} : SameRow(q)
    /\ Grows(p)
    /\ posts'[p] = posts[p]
    /\ \A t \in Senders : pc[t] = "claimed" /\ work[t] = p => ClaimsStay(p)

\* Such a step preserves CoreInv when it preserves its own row and visit.
LEMMA RowFrame ==
    ASSUME CoreInv, TypeOK', NEW p \in Proposals, OnlyOn(p), RowInv(p)', MonitorInv',
           op'.pc # "idle" => op'.p \in Proposals
    PROVE  CoreInv'
<1>1. \A q \in Proposals : RowInv(q)' BY SameRowInv DEF CoreInv, OnlyOn
<1>2. \A t \in Senders : SenderInv(t)'
    <2> SUFFICES ASSUME NEW t \in Senders PROVE SenderInv(t)' OBVIOUS
    <2>1. pc[t] # "idle" => work[t] \in Proposals BY DEF CoreInv, SenderInv
    <2>2. pc[t] # "idle" => Grows(work[t]) BY <2>1, SameRowGrows DEF OnlyOn
    <2>3. SenderInv(t) /\ norm[t] \in Known \cup {"none"} BY DEF CoreInv, TypeOK
    <2>4. pc'[t] = pc[t] /\ work'[t] = work[t] /\ norm'[t] = norm[t] BY DEF OnlyOn
    <2>5. pc[t] \in {"claimed", "notsent", "unsafe"} => posts'[work[t]] = posts[work[t]]
        BY <2>1 DEF OnlyOn, SameRow
    <2>6. pc[t] = "claimed" => ClaimsStay(work[t])
        <3>1. CASE work[t] = p BY <3>1 DEF OnlyOn
        <3>2. CASE work[t] # p BY <2>1, <3>2, SameRowGrows DEF OnlyOn
        <3> QED BY <3>1, <3>2
    <2> QED BY <2>2, <2>3, <2>4, <2>5, <2>6, SenderStable
<1>3. OneClaimant' BY DEF CoreInv, OneClaimant, OnlyOn
<1> QED BY <1>1, <1>2, <1>3 DEF CoreInv

----------------------------------------------------------------------------
(* Steps that touch no row: a sender before its claim or after its attempt.  *)

\* Rows that no conjunct of this step mentions are the same.
LEMMA SameRows ==
    ASSUME UNCHANGED <<rowVars, position, brokerVars>>
    PROVE  \A q \in Proposals : SameRow(q) /\ Grows(q) /\ ClaimsStay(q) /\ (RowInv(q) => RowInv(q)')
<1>1. \A q \in Proposals : SameRow(q) BY DEF SameRow
<1> QED BY <1>1, SameRowGrows, SameRowInv

\* A sender that touches no row and ends outside the claim preserves CoreInv.
LEMMA QuietFrame ==
    ASSUME CoreInv, TypeOK', NEW s \in Senders, NEW p \in Proposals,
           UNCHANGED <<rowVars, position, brokerVars, mon, op>>,
           \A t \in Senders \ {s} : pc'[t] = pc[t] /\ work'[t] = work[t] /\ norm'[t] = norm[t],
           pc'[s] \notin AfterClaim,
           pc'[s] = "idle" => norm'[s] = "none",
           pc'[s] # "idle" => work'[s] = p /\ norm'[s] = norm[s] /\ Agrees(norm[s], p)
    PROVE  CoreInv'
<1>1. OnlyBy(s, p) BY SameRows DEF OnlyBy
<1>2. RowInv(p)' BY SameRows DEF CoreInv
<1>3. SenderInv(s)'
    <2>1. SUFFICES ASSUME pc'[s] # "idle" PROVE SenderInv(s)' BY DEF SenderInv
    <2>2. pc'[s] \notin {"claimed", "notsent", "unsafe", "refused", "answered", "observed"}
        BY DEF AfterClaim
    <2>3. Agrees(norm[s], p)' BY <2>1 DEF Agrees
    <2> QED BY <2>1, <2>2, <2>3 DEF SenderInv
<1> QED BY <1>1, <1>2, <1>3, SenderFrame

\* Where a quiet step of a sender ends, it still works on the same proposal, or
\* has forgotten everything.
QuietPcs == {"entering", "queued", "owned", "assessed", "checked", "consented", "cleared",
             "done", "record"}

\* A step to a quiet control point, touching no row, preserves CoreInv.
LEMMA QuietStep ==
    ASSUME CoreInv, TypeOK', NEW s \in Senders, pc[s] # "idle",
           UNCHANGED <<rowVars, position, brokerVars, mon, op>>,
           \/ /\ \E at \in QuietPcs : Goto(s, at)
              /\ UNCHANGED <<work, norm>>
           \/ Rest(s)
    PROVE  CoreInv'
<1>1. work[s] \in Proposals /\ Agrees(norm[s], work[s]) BY DEF CoreInv, SenderInv
<1>2. /\ pc \in [Senders -> SenderPcs] /\ work \in [Senders -> Proposals \cup {Nobody}]
      /\ norm \in [Senders -> Known \cup {"none"}]
    BY DEF CoreInv, TypeOK
<1>3. CASE Rest(s)
    <2>1. pc'[s] = "idle" /\ norm'[s] = "none" BY <1>2, <1>3 DEF Rest, Goto
    <2>2. \A t \in Senders \ {s} : pc'[t] = pc[t] /\ work'[t] = work[t] /\ norm'[t] = norm[t]
        BY <1>2, <1>3 DEF Rest, Goto
    <2> QED BY <1>1, <2>1, <2>2, QuietFrame DEF AfterClaim
<1>4. ASSUME NEW at \in QuietPcs, Goto(s, at), UNCHANGED <<work, norm>> PROVE CoreInv'
    <2>1. pc'[s] = at /\ \A t \in Senders \ {s} : pc'[t] = pc[t] BY <1>2, <1>4 DEF Goto
    <2>2. at \notin AfterClaim /\ at # "idle" BY DEF AfterClaim, QuietPcs
    <2> QED BY <1>1, <1>4, <2>1, <2>2, QuietFrame
<1> QED BY <1>3, <1>4

\* The steps up to the creation of the row, and after the attempt.
LEMMA QuietInv ==
    ASSUME CoreInv, TypeOK', NEW s \in Senders,
           \/ Recheck(s) \/ TakeEntryLock(s) \/ TakeMonitorLock(s) \/ Assess(s) \/ Check(s)
           \/ Consent(s) \/ Preflight(s) \/ Release(s) \/ RecordStatus(s) \/ CrashSender(s)
    PROVE  CoreInv'
<1> USE DEF QuietPcs, Conclude
<1>1. CASE Recheck(s) BY <1>1, QuietStep DEF Recheck
<1>2. CASE TakeEntryLock(s) BY <1>2, QuietStep DEF TakeEntryLock
<1>3. CASE TakeMonitorLock(s) BY <1>3, QuietStep DEF TakeMonitorLock
<1>4. CASE Assess(s) BY <1>4, QuietStep DEF Assess
<1>5. CASE Check(s) BY <1>5, QuietStep DEF Check
<1>6. CASE Consent(s) BY <1>6, QuietStep DEF Consent
<1>7. CASE Preflight(s) BY <1>7, QuietStep DEF Preflight
<1>8. CASE Release(s) BY <1>8, QuietStep DEF Release
<1>9. CASE RecordStatus(s) BY <1>9, QuietStep DEF RecordStatus
<1>10. CASE CrashSender(s) BY <1>10, QuietStep DEF CrashSender
<1> QED BY <1>1, <1>2, <1>3, <1>4, <1>5, <1>6, <1>7, <1>8, <1>9, <1>10

\* Approve starts a sender on a proposal with nothing believed of it.
LEMMA ApproveInv ==
    ASSUME CoreInv, TypeOK', NEW s \in Senders, NEW p \in Proposals, Approve(s, p)
    PROVE  CoreInv'
<1>1. pc \in [Senders -> SenderPcs] /\ work \in [Senders -> Proposals \cup {Nobody}]
    BY DEF CoreInv, TypeOK
<1>2. pc'[s] = "ready" /\ work'[s] = p /\ norm' = norm BY <1>1 DEF Approve, Goto
<1>3. \A t \in Senders \ {s} : pc'[t] = pc[t] /\ work'[t] = work[t] BY <1>1 DEF Approve, Goto
<1>4. norm[s] = "none" BY DEF Approve, CoreInv, SenderInv
<1>5. Agrees(norm[s], p) BY <1>4 DEF Agrees
<1>6. UNCHANGED <<rowVars, position, brokerVars, mon, op>> BY DEF Approve
<1> QED BY <1>2, <1>3, <1>5, <1>6, QuietFrame DEF AfterClaim

----------------------------------------------------------------------------
(* Steps of a sender that touch its row.                                    *)

\* What CoreInv says of a sender at work and of its row.
LEMMA AtWork ==
    ASSUME CoreInv, NEW s \in Senders, pc[s] # "idle"
    PROVE  work[s] \in Proposals /\ RowInv(work[s]) /\ SenderInv(s) /\ Agrees(norm[s], work[s])
BY DEF CoreInv, SenderInv

\* A move of one sender leaves the others where they are.
LEMMA Moves ==
    ASSUME CoreInv, NEW s \in Senders, NEW at, Goto(s, at)
    PROVE  pc'[s] = at /\ \A t \in Senders \ {s} : pc'[t] = pc[t]
BY DEF CoreInv, TypeOK, Goto

\* The rows and the broker as functions, for the steps that change one entry.
LEMMA RowTypes ==
    ASSUME CoreInv
    PROVE  /\ phase \in [Proposals -> Phases] /\ dispatched \in [Proposals -> BOOLEAN]
           /\ proof \in [Proposals -> Proofs] /\ bound \in [Proposals -> BOOLEAN]
           /\ ostate \in [Proposals -> OrderStates] /\ position \in [Proposals -> BOOLEAN]
           /\ wire \in [Proposals -> BOOLEAN] /\ posts \in [Proposals -> Nat]
           /\ broker \in [Proposals -> Known \cup {"none", "refused"}]
           /\ norm \in [Senders -> Known \cup {"none"}]
BY DEF CoreInv, TypeOK

\* After its claim a sender may do to its row whatever only lets it grow.
LEMMA ClaimantFrame ==
    ASSUME CoreInv, TypeOK', NEW s \in Senders, NEW p \in Proposals, work[s] = p,
           pc[s] \in AfterClaim, work' = work,
           \A t \in Senders \ {s} : pc'[t] = pc[t] /\ norm'[t] = norm[t],
           \A q \in Proposals \ {p} : SameRow(q),
           Grows(p), mon' = mon, op' = op, RowInv(p)', SenderInv(s)'
    PROVE  CoreInv'
<1>1. OnlyBy(s, p) BY DEF OnlyBy
<1> QED BY <1>1, SenderFrame

\* The row of a claimant is neither missing nor merely prepared.
LEMMA ClaimedRow ==
    ASSUME CoreInv, NEW s \in Senders, pc[s] \in AfterClaim
    PROVE  phase[work[s]] \notin {"none", "prepared"}
BY AtWork DEF AfterClaim, SenderInv, RowInv

\* Creating the row and its reservation (CreateIntent) preserves CoreInv.
LEMMA CreateInv ==
    ASSUME CoreInv, TypeOK', NEW s \in Senders, NEW p \in Proposals, work[s] = p, Create(s)
    PROVE  CoreInv'
<1>1. RowInv(p) /\ Agrees(norm[s], p) BY AtWork DEF Create
<1>2. CASE phase[p] # "none" \/ OtherPending(p)
    <2>1. UNCHANGED <<rowVars, position, brokerVars, mon, op, work, norm>> /\ Goto(s, "done")
        BY <1>2 DEF Create, Conclude
    <2> QED BY <2>1, QuietStep DEF QuietPcs, Create
<1>3. CASE phase[p] = "none" /\ ~OtherPending(p)
    <2>1. /\ phase' = [phase EXCEPT ![p] = "prepared"] /\ ostate' = [ostate EXCEPT ![p] = "submitted"]
          /\ Goto(s, "created")
          /\ UNCHANGED <<dispatched, proof, bound, position, brokerVars, work, norm, mon, op>>
        BY <1>3 DEF Create
    <2>2. pc'[s] = "created" /\ \A t \in Senders \ {s} : pc'[t] = pc[t] BY <2>1, Moves
    <2>3. \A q \in Proposals \ {p} : SameRow(q) BY <2>1, RowTypes DEF SameRow
    <2>4. phase'[p] = "prepared" /\ ostate'[p] = "submitted" BY <2>1, RowTypes
    <2>5. Grows(p) BY <2>1, <2>4 DEF Grows, Agrees
    <2>6. ~dispatched[p] BY <1>1, <1>3 DEF RowInv
    <2>7. OnlyBy(s, p) BY <2>1, <2>2, <2>3, <2>5, <2>6 DEF OnlyBy, AfterClaim
    <2>8. RowInv(p)' BY <1>1, <2>1, <2>4, <2>6 DEF RowInv
    <2>9. SenderInv(s)' BY <1>1, <2>1, <2>2 DEF SenderInv, AfterClaim, Agrees
    <2> QED BY <2>7, <2>8, <2>9, SenderFrame
<1> QED BY <1>2, <1>3

\* The dispatch claim, which consumes the send right, preserves CoreInv.
LEMMA ClaimInv ==
    ASSUME CoreInv, TypeOK', NEW s \in Senders, NEW p \in Proposals, work[s] = p, Claim(s)
    PROVE  CoreInv'
<1>1. RowInv(p) /\ Agrees(norm[s], p) BY AtWork DEF Claim
<1>2. CASE phase[p] # "prepared" \/ dispatched[p] \/ bound[p]
    <2>1. UNCHANGED <<rowVars, position, brokerVars, mon, op, work, norm>> /\ Goto(s, "done")
        BY <1>2 DEF Claim, Conclude
    <2> QED BY <2>1, QuietStep DEF QuietPcs, Claim
<1>3. CASE phase[p] = "prepared" /\ ~dispatched[p] /\ ~bound[p]
    <2>1. /\ phase' = [phase EXCEPT ![p] = "submitting"] /\ dispatched' = [dispatched EXCEPT ![p] = TRUE]
          /\ Goto(s, "claimed")
          /\ UNCHANGED <<proof, bound, ostate, position, brokerVars, work, norm, mon, op>>
        BY <1>3 DEF Claim
    <2>2. pc'[s] = "claimed" /\ \A t \in Senders \ {s} : pc'[t] = pc[t] BY <2>1, Moves
    <2>3. \A q \in Proposals \ {p} : SameRow(q) BY <2>1, RowTypes DEF SameRow
    <2>4. phase'[p] = "submitting" /\ dispatched'[p] BY <2>1, RowTypes
    <2>5. Grows(p) BY <2>1, <2>4 DEF Grows, Agrees
    <2>6. OnlyBy(s, p) BY <1>3, <2>1, <2>2, <2>3, <2>5 DEF OnlyBy, AfterClaim
    <2>7. posts[p] = 0 /\ ostate[p] # "dead" /\ proof[p] = "none"
        BY <1>1, <1>3, RowTypes DEF RowInv
    <2>8. RowInv(p)' BY <1>1, <2>1, <2>4 DEF RowInv
    <2>9. SenderInv(s)' BY <1>1, <2>1, <2>2, <2>4, <2>7 DEF SenderInv, Agrees
    <2> QED BY <2>6, <2>8, <2>9, SenderFrame
<1> QED BY <1>2, <1>3

\* The POST, made by the one claimant of the row, preserves CoreInv.
LEMMA PostInv ==
    ASSUME CoreInv, TypeOK', NEW s \in Senders, NEW p \in Proposals, work[s] = p, Post(s)
    PROVE  CoreInv'
<1>1. RowInv(p) /\ SenderInv(s) /\ Agrees(norm[s], p) /\ pc[s] = "claimed" BY AtWork DEF Post
<1>2. pc[s] \in AfterClaim BY <1>1 DEF AfterClaim
<1>3. UNCHANGED <<rowVars, position, broker, work, norm, mon, op>> BY DEF Post
<1>4. dispatched[p] /\ posts[p] = 0 /\ ostate[p] # "dead" /\ proof[p] = "none"
    BY <1>1 DEF SenderInv, AfterClaim
<1>5. Grows(p) BY <1>3 DEF Grows, Agrees
<1>6. \A q \in Proposals \ {p} : SameRow(q) BY <1>3, RowTypes DEF Post, SameRow
<1>7. CASE Goto(s, "waiting") /\ wire' = [wire EXCEPT ![p] = TRUE] /\ posts' = [posts EXCEPT ![p] = @ + 1]
    <2>1. pc'[s] = "waiting" /\ \A t \in Senders \ {s} : pc'[t] = pc[t] BY <1>7, Moves
    <2>2. posts'[p] = 1 /\ wire'[p] BY <1>4, <1>7, RowTypes
    <2>3. RowInv(p)' BY <1>1, <1>3, <1>4, <2>2 DEF RowInv
    <2>4. SenderInv(s)' BY <1>1, <1>3, <1>4, <2>1 DEF SenderInv, Agrees
    <2> QED BY <1>2, <1>3, <1>5, <1>6, <2>1, <2>3, <2>4, ClaimantFrame
<1>8. ASSUME NEW at \in {"unsafe", "notsent"}, Goto(s, at), UNCHANGED <<wire, posts>> PROVE CoreInv'
    <2>1. pc'[s] = at /\ \A t \in Senders \ {s} : pc'[t] = pc[t] BY <1>8, Moves
    <2>2. RowInv(p)' BY <1>1, <1>3, <1>8 DEF RowInv
    <2>3. SenderInv(s)' BY <1>1, <1>3, <1>4, <1>8, <2>1 DEF SenderInv, Agrees
    <2> QED BY <1>2, <1>3, <1>5, <1>6, <2>1, <2>2, <2>3, ClaimantFrame
<1> QED BY <1>7, <1>8 DEF Post

\* The answer to the POST and the lookup only read the broker.
LEMMA AnswerInv ==
    ASSUME CoreInv, TypeOK', NEW s \in Senders, NEW p \in Proposals, work[s] = p,
           Answer(s) \/ Lookup(s)
    PROVE  CoreInv'
<1>1. RowInv(p) /\ SenderInv(s) /\ Agrees(norm[s], p) /\ pc[s] \in {"waiting", "lookup"}
    BY AtWork DEF Answer, Lookup
<1>2. pc[s] \in AfterClaim BY <1>1 DEF AfterClaim
<1>3. UNCHANGED <<rowVars, position, brokerVars, work, mon, op>> BY DEF Answer, Lookup
<1>4. dispatched[p] BY <1>1, <1>2 DEF SenderInv
<1>5. Grows(p) /\ RowInv(p)' /\ \A q \in Proposals : SameRow(q) BY <1>1, <1>3, SameRows
<1>6. CASE broker[p] \in Known /\ norm' = [norm EXCEPT ![s] = broker[p]] /\ Goto(s, "answered")
    <2>1. pc'[s] = "answered" /\ \A t \in Senders \ {s} : pc'[t] = pc[t] BY <1>6, Moves
    <2>2. norm'[s] = broker[p] /\ \A t \in Senders \ {s} : norm'[t] = norm[t] BY <1>6, RowTypes
    <2>3. Agrees(norm'[s], p) /\ norm'[s] # "none" BY <1>6, <2>2 DEF Agrees, Known
    <2>4. SenderInv(s)' BY <1>3, <1>4, <2>1, <2>3 DEF SenderInv, Agrees
    <2> QED BY <1>2, <1>3, <1>5, <2>1, <2>2, <2>4, ClaimantFrame
<1>7. ASSUME NEW at \in {"refused", "lost", "fail"}, at = "refused" => broker[p] = "refused",
             Goto(s, at), UNCHANGED norm
      PROVE  CoreInv'
    <2>1. pc'[s] = at /\ \A t \in Senders \ {s} : pc'[t] = pc[t] BY <1>7, Moves
    <2>2. SenderInv(s)' BY <1>1, <1>3, <1>4, <1>7, <2>1 DEF SenderInv, Agrees
    <2> QED BY <1>2, <1>3, <1>5, <1>7, <2>1, <2>2, ClaimantFrame
<1> QED BY <1>6, <1>7 DEF Answer, Lookup

\* Recording a refusal of the broker client preserves CoreInv.
LEMMA SaveUnsafeInv ==
    ASSUME CoreInv, TypeOK', NEW s \in Senders, NEW p \in Proposals, work[s] = p, SaveUnsafe(s)
    PROVE  CoreInv'
<1>1. RowInv(p) /\ SenderInv(s) /\ Agrees(norm[s], p) /\ pc[s] = "unsafe" BY AtWork DEF SaveUnsafe
<1>2. pc[s] \in AfterClaim BY <1>1 DEF AfterClaim
<1>3. /\ phase' = [phase EXCEPT ![p] = "acknowledged"] /\ ostate' = [ostate EXCEPT ![p] = "dead"]
      /\ UNCHANGED <<dispatched, proof, bound, position, brokerVars, work, norm, mon, op>>
    BY DEF SaveUnsafe
<1>4. phase'[p] = "acknowledged" /\ ostate'[p] = "dead" BY <1>3, RowTypes
<1>5. pc'[s] = "done" /\ \A t \in Senders \ {s} : pc'[t] = pc[t] BY Moves DEF SaveUnsafe, Conclude
<1>6. \A q \in Proposals \ {p} : SameRow(q) BY <1>3, RowTypes DEF SameRow
<1>7. Grows(p) BY <1>3, <1>4 DEF Grows, Agrees
<1>8. posts[p] = 0 /\ ~wire[p] /\ broker[p] = "none" BY <1>1 DEF SenderInv, RowInv
<1>9. RowInv(p)' BY <1>1, <1>3, <1>4, <1>8 DEF RowInv
<1>10. SenderInv(s)' BY <1>1, <1>3, <1>5 DEF SenderInv, AfterClaim, Agrees
<1> QED BY <1>2, <1>3, <1>5, <1>6, <1>7, <1>9, <1>10, ClaimantFrame

\* Recording the proof that nothing was sent preserves CoreInv.
LEMMA SaveProofInv ==
    ASSUME CoreInv, TypeOK', NEW s \in Senders, NEW p \in Proposals, work[s] = p, SaveProof(s)
    PROVE  CoreInv'
<1>1. RowInv(p) /\ SenderInv(s) /\ Agrees(norm[s], p) /\ pc[s] \in {"notsent", "refused"}
    BY AtWork DEF SaveProof
<1>2. pc[s] \in AfterClaim BY <1>1 DEF AfterClaim
<1>3. CASE Rest(s) /\ UNCHANGED <<phase, proof>>
    <2>1. UNCHANGED <<rowVars, position, brokerVars, mon, op>> BY <1>3 DEF SaveProof
    <2> QED BY <1>1, <1>3, <2>1, QuietStep
<1>4. CASE ~(Rest(s) /\ UNCHANGED <<phase, proof>>)
    <2> DEFINE new == IF pc[s] = "notsent" THEN "not_sent" ELSE "rejected"
    <2>1. /\ phase' = [phase EXCEPT ![p] = "unknown"] /\ proof' = [proof EXCEPT ![p] = new]
          /\ Goto(s, "alarm")
          /\ UNCHANGED <<dispatched, bound, ostate, position, brokerVars, work, norm, mon, op>>
        BY <1>4 DEF SaveProof
    <2>2. phase'[p] = "unknown" /\ proof'[p] = new BY <2>1, RowTypes
    <2>3. pc'[s] = "alarm" /\ \A t \in Senders \ {s} : pc'[t] = pc[t] BY <2>1, Moves
    <2>4. \A q \in Proposals \ {p} : SameRow(q) BY <2>1, RowTypes DEF SameRow
    <2>5. Grows(p) BY <2>1, <2>2 DEF Grows, Agrees
    <2>6. dispatched[p] BY <1>1, <1>2 DEF SenderInv
    <2>7. /\ pc[s] = "notsent" => posts[p] = 0
          /\ pc[s] = "refused" => broker[p] = "refused"
        BY <1>1 DEF SenderInv
    <2>8. RowInv(p)' BY <1>1, <2>1, <2>2, <2>6, <2>7 DEF RowInv
    <2>9. SenderInv(s)' BY <1>1, <2>1, <2>3, <2>6 DEF SenderInv, Agrees
    <2> QED BY <1>2, <2>1, <2>3, <2>4, <2>5, <2>8, <2>9, ClaimantFrame
<1> QED BY <1>3, <1>4

\* A doubt is written and reported; the sender looks the order up or is done.
LEMMA SaveDoubtInv ==
    ASSUME CoreInv, TypeOK', NEW s \in Senders, NEW p \in Proposals, work[s] = p,
           SaveDoubt(s) \/ SaveAlarm(s)
    PROVE  CoreInv'
<1>1. RowInv(p) /\ SenderInv(s) /\ Agrees(norm[s], p) /\ pc[s] \in {"lost", "fail", "lostAlarm", "alarm"}
    BY AtWork DEF SaveDoubt, SaveAlarm
<1>2. pc[s] \in AfterClaim BY <1>1 DEF AfterClaim
<1>3. /\ phase' = phase \/ phase' = [phase EXCEPT ![p] = "unknown"]
      /\ UNCHANGED <<dispatched, proof, bound, ostate, position, brokerVars, work, norm, mon, op>>
    BY DEF SaveDoubt, SaveAlarm, InDoubt
<1>4. phase'[p] \in {phase[p], "unknown"} BY <1>3, RowTypes
<1>5. PICK at \in {"lostAlarm", "alarm", "lookup", "done"} : Goto(s, at)
    BY DEF SaveDoubt, SaveAlarm, Conclude
<1>6. pc'[s] = at /\ \A t \in Senders \ {s} : pc'[t] = pc[t] BY <1>5, Moves
<1>7. \A q \in Proposals \ {p} : SameRow(q) BY <1>3, RowTypes DEF SameRow
<1>8. Grows(p) BY <1>3, <1>4 DEF Grows, Agrees
<1>9. RowInv(p)' BY <1>1, <1>3, <1>4 DEF RowInv
<1>10. SenderInv(s)' BY <1>1, <1>2, <1>3, <1>6 DEF SenderInv, Agrees
<1> QED BY <1>2, <1>3, <1>6, <1>7, <1>8, <1>9, <1>10, ClaimantFrame

\* What a verified broker answer makes of a row that is neither missing nor
\* prepared keeps the row's invariant.
LEMMA ObservedRow ==
    ASSUME CoreInv, NEW p \in Proposals, NEW n \in Known, Agrees(n, p), ObserveRow(p, n),
           phase[p] # "none", UNCHANGED <<phase, dispatched, proof, position, brokerVars>>
    PROVE  /\ RowInv(p)' /\ Grows(p) /\ bound'[p] /\ posts[p] > 0
           /\ \A q \in Proposals \ {p} : SameRow(q)
<1>1. bound'[p] /\ ostate'[p] = StateOf(n) BY RowTypes DEF ObserveRow
<1>2. RowInv(p) BY DEF CoreInv
<1>3. broker[p] \in Known /\ posts[p] > 0 /\ dispatched[p] /\ phase[p] # "prepared"
    BY <1>2 DEF Agrees, Known, RowInv
<1>4. ostate'[p] = "dead" => broker[p] \in {"cut", "zero"} BY <1>1 DEF StateOf, Agrees, Known
<1>5. RowInv(p)' BY <1>1, <1>2, <1>3, <1>4 DEF RowInv, Known
<1>6. Grows(p) BY <1>1 DEF Grows, Agrees
<1>7. \A q \in Proposals \ {p} : SameRow(q) BY RowTypes DEF ObserveRow, SameRow
<1> QED BY <1>1, <1>3, <1>5, <1>6, <1>7

\* A sender's observation of a verified answer preserves CoreInv.
LEMMA ObserveInv ==
    ASSUME CoreInv, TypeOK', NEW s \in Senders, NEW p \in Proposals, work[s] = p, Observe(s)
    PROVE  CoreInv'
<1>1. RowInv(p) /\ SenderInv(s) /\ Agrees(norm[s], p) /\ pc[s] = "answered"
    BY AtWork DEF Observe
<1>2. pc[s] \in AfterClaim BY <1>1 DEF AfterClaim
<1>3. UNCHANGED <<phase, dispatched, proof, position, brokerVars, work, norm, mon, op>>
    BY DEF Observe
<1>4. dispatched[p] /\ norm[s] \in Known BY <1>1, <1>2, RowTypes DEF SenderInv
<1>5. CASE ObserveRow(p, norm[s]) /\ Goto(s, IF norm[s] \in WithFill THEN "observed" ELSE "finishing")
    <2>1. /\ pc'[s] = IF norm[s] \in WithFill THEN "observed" ELSE "finishing"
          /\ \A t \in Senders \ {s} : pc'[t] = pc[t]
        BY <1>5, Moves
    <2>2. phase[p] # "none" BY <1>2, ClaimedRow
    <2>3. PICK n \in Known : n = norm[s] BY <1>4
    <2>4. RowInv(p)' /\ Grows(p) /\ bound'[p] /\ \A q \in Proposals \ {p} : SameRow(q)
        BY <1>1, <1>3, <1>5, <2>2, <2>3, ObservedRow
    <2>5. SenderInv(s)' BY <1>1, <1>3, <1>4, <2>1, <2>4 DEF SenderInv, Agrees
    <2> QED BY <1>2, <1>3, <2>1, <2>4, <2>5, ClaimantFrame
<1>6. CASE Goto(s, "fail") /\ UNCHANGED <<bound, ostate>>
    <2>1. pc'[s] = "fail" /\ \A t \in Senders \ {s} : pc'[t] = pc[t] BY <1>6, Moves
    <2>2. Grows(p) /\ RowInv(p)' /\ \A q \in Proposals : SameRow(q) BY <1>1, <1>3, <1>6, SameRows
    <2>3. SenderInv(s)' BY <1>1, <1>3, <1>4, <2>1 DEF SenderInv, Agrees
    <2> QED BY <1>2, <1>3, <2>1, <2>2, <2>3, ClaimantFrame
<1> QED BY <1>5, <1>6 DEF Observe

\* Opening the position of a filled entry preserves CoreInv.
LEMMA OpenPositionInv ==
    ASSUME CoreInv, TypeOK', NEW s \in Senders, NEW p \in Proposals, work[s] = p, OpenPosition(s)
    PROVE  CoreInv'
<1>1. RowInv(p) /\ SenderInv(s) /\ Agrees(norm[s], p) /\ pc[s] = "observed"
    BY AtWork DEF OpenPosition
<1>2. pc[s] \in AfterClaim BY <1>1 DEF AfterClaim
<1>3. UNCHANGED <<rowVars, brokerVars, work, norm, mon, op>> BY DEF OpenPosition
<1>4. dispatched[p] /\ bound[p] /\ broker[p] \in WithFill
    BY <1>1, <1>2 DEF SenderInv, Agrees, WithFill
<1>5. position' = position \/ position' = [position EXCEPT ![p] = TRUE] BY DEF OpenPosition
<1>6. PICK at \in {"finishing", "fail"} : Goto(s, at) BY DEF OpenPosition
<1>7. pc'[s] = at /\ \A t \in Senders \ {s} : pc'[t] = pc[t] BY <1>6, Moves
<1>8. \A q \in Proposals \ {p} : SameRow(q) BY <1>3, <1>5, RowTypes DEF SameRow
<1>9. Grows(p) BY <1>3 DEF Grows, Agrees
<1>10. RowInv(p)' BY <1>1, <1>3, <1>4 DEF RowInv
<1>11. SenderInv(s)' BY <1>1, <1>3, <1>4, <1>7 DEF SenderInv, Agrees
<1> QED BY <1>2, <1>3, <1>7, <1>8, <1>9, <1>10, <1>11, ClaimantFrame

\* The acknowledgement and the end of an attempt preserve CoreInv.
LEMMA FinishInv ==
    ASSUME CoreInv, TypeOK', NEW s \in Senders, NEW p \in Proposals, work[s] = p, Finish(s)
    PROVE  CoreInv'
<1>1. RowInv(p) /\ SenderInv(s) /\ Agrees(norm[s], p) /\ pc[s] = "finishing"
    BY AtWork DEF Finish
<1>2. pc[s] \in AfterClaim BY <1>1 DEF AfterClaim
<1>3. /\ phase' = phase \/ phase' = [phase EXCEPT ![p] = "acknowledged"]
      /\ UNCHANGED <<dispatched, proof, bound, ostate, position, brokerVars, work, norm, mon, op>>
    BY DEF Finish, Acknowledge
<1>4. phase'[p] \in {phase[p], "acknowledged"} BY <1>3, RowTypes
<1>5. dispatched[p] BY <1>1, <1>2 DEF SenderInv
<1>6. PICK at \in {"done", "fail"} : Goto(s, at) BY DEF Finish, Conclude
<1>7. pc'[s] = at /\ \A t \in Senders \ {s} : pc'[t] = pc[t] BY <1>6, Moves
<1>8. \A q \in Proposals \ {p} : SameRow(q) BY <1>3, RowTypes DEF SameRow
<1>9. Grows(p) BY <1>3, <1>4 DEF Grows, Agrees
<1>10. RowInv(p)' BY <1>1, <1>3, <1>4 DEF RowInv
<1>11. SenderInv(s)' BY <1>1, <1>3, <1>5, <1>7 DEF SenderInv, Agrees
<1> QED BY <1>2, <1>3, <1>7, <1>8, <1>9, <1>10, <1>11, ClaimantFrame

----------------------------------------------------------------------------
(* Decisions, the broker, the monitor and the operator.                     *)

\* A decision on a proposal, or the end of the monitor, touches no row.
LEMMA DecisionInv ==
    ASSUME CoreInv, TypeOK', UNCHANGED <<rowVars, position, brokerVars, senderVars>>, MonitorInv',
           op' = op \/ (op'.pc # "idle" => op'.p \in Proposals)
    PROVE  CoreInv'
<1>1. \A q \in Proposals : SameRow(q) /\ Grows(q) /\ ClaimsStay(q) /\ RowInv(q)'
    BY SameRows DEF CoreInv
<1>2. \A t \in Senders : SenderInv(t)'
    <2> SUFFICES ASSUME NEW t \in Senders PROVE SenderInv(t)' OBVIOUS
    <2>1. SenderInv(t) /\ norm[t] \in Known \cup {"none"} BY DEF CoreInv, TypeOK
    <2>2. pc[t] # "idle" => work[t] \in Proposals BY <2>1 DEF SenderInv
    <2>3. pc[t] # "idle" => Grows(work[t]) /\ ClaimsStay(work[t]) /\ posts'[work[t]] = posts[work[t]]
        BY <1>1, <2>2
    <2> QED BY <2>1, <2>3, SenderStable
<1>3. OneClaimant' BY DEF CoreInv, OneClaimant
<1> QED BY <1>1, <1>2, <1>3 DEF CoreInv

\* The broker takes a POST off the wire, or moves a working order to its end.
LEMMA BrokerInv ==
    ASSUME CoreInv, TypeOK', NEW p \in Proposals, Deliver(p) \/ Trade(p)
    PROVE  CoreInv'
<1>1. RowInv(p) BY DEF CoreInv
<1>2. UNCHANGED <<rowVars, position, posts, senderVars, mon, op>> BY DEF Deliver, Trade
<1>3. \A q \in Proposals \ {p} : SameRow(q) BY <1>2, RowTypes DEF Deliver, Trade, SameRow
<1>4. \/ ~wire'[p] /\ wire[p] /\ broker'[p] \in {"none", "working", "refused"}
      \/ wire'[p] = wire[p] /\ broker[p] = "working" /\ broker'[p] \in Terminal
    BY <1>1, RowTypes DEF Deliver, Trade, RowInv
<1>5. wire[p] => broker[p] = "none" BY <1>1 DEF RowInv
<1>6. Grows(p) BY <1>2, <1>4, <1>5 DEF Grows, Agrees, Terminal, Known
<1>7. RowInv(p)' BY <1>1, <1>2, <1>4, <1>5 DEF RowInv, Terminal, WithFill, Known
<1>8. OnlyOn(p) BY <1>2, <1>3, <1>6 DEF OnlyOn, ClaimsStay
<1>9. MonitorInv'
    <2>1. mon.pc # "idle" => Grows(mon.p) BY <1>3, <1>6, SameRowGrows DEF CoreInv, MonitorInv
    <2> QED BY <1>2, <2>1, MonitorStable DEF CoreInv, TypeOK
<1>10. op'.pc # "idle" => op'.p \in Proposals BY <1>2 DEF CoreInv
<1> QED BY <1>7, <1>8, <1>9, <1>10, RowFrame

\* An idle monitor believes nothing.
LEMMA IdleMonitor == ASSUME mon' = NoVisit PROVE MonitorInv'
BY DEF MonitorInv, NoVisit

\* The monitor's fields after a move.
LEMMA MonMoves ==
    ASSUME mon \in Visits, NEW at, MonGoto(at)
    PROVE  mon'.pc = at /\ mon'.p = mon.p /\ mon'.norm = mon.norm
BY DEF MonGoto, Visits

\* A monitor's step that touches no row: the start of a visit, the read, the
\* 'filled' status, the alarm and the death.
LEMMA MonQuietInv ==
    ASSUME CoreInv, TypeOK',
           \/ MonRead \/ MonFilled \/ MonAlarm \/ CrashMonitor
           \/ \E p \in Proposals : Visit(p)
    PROVE  CoreInv'
<1>1. mon \in Visits /\ MonitorInv BY DEF CoreInv, TypeOK
<1>2. UNCHANGED <<rowVars, position, brokerVars, senderVars, op>>
    BY DEF MonRead, MonFilled, MonAlarm, CrashMonitor, Visit
<1>3. CASE MonRead
    <2>1. ASSUME MonGoto("fail") PROVE MonitorInv'
        <3>1. mon'.pc = "fail" /\ mon'.p = mon.p /\ mon'.norm = mon.norm BY <1>1, <2>1, MonMoves
        <3> QED BY <1>1, <1>2, <1>3, <3>1 DEF MonitorInv, MonRead, Agrees
    <2>2. ASSUME broker[mon.p] \in Known,
                 mon' = [mon EXCEPT !.pc = "answered", !.norm = broker[mon.p]]
          PROVE  MonitorInv'
        <3>1. mon'.pc = "answered" /\ mon'.p = mon.p /\ mon'.norm = broker[mon.p]
            BY <1>1, <2>2 DEF Visits
        <3> QED BY <1>1, <1>2, <1>3, <2>2, <3>1 DEF MonitorInv, MonRead, Agrees, Known
    <2> QED BY <1>2, <1>3, <2>1, <2>2, DecisionInv DEF MonRead
<1>4. CASE MonFilled
    <2>1. mon'.pc = "finishing" /\ mon'.p = mon.p /\ mon'.norm = mon.norm
        BY <1>1, <1>4, MonMoves DEF MonFilled
    <2>2. MonitorInv' BY <1>1, <1>2, <1>4, <2>1 DEF MonitorInv, MonFilled, Agrees
    <2> QED BY <1>2, <2>2, DecisionInv
<1>5. CASE MonAlarm \/ CrashMonitor
    BY <1>2, <1>5, IdleMonitor, DecisionInv DEF MonAlarm, CrashMonitor
<1>6. ASSUME NEW p \in Proposals, Visit(p) PROVE CoreInv'
    <2>1. MonitorInv' BY <1>6 DEF MonitorInv, Visit, Agrees
    <2> QED BY <1>2, <2>1, DecisionInv
<1> QED BY <1>3, <1>4, <1>5, <1>6

\* The monitor's observation of a verified answer preserves CoreInv.
LEMMA MonObserveInv ==
    ASSUME CoreInv, TypeOK', MonObserve
    PROVE  CoreInv'
<1>1. mon \in Visits /\ MonitorInv /\ mon.pc = "answered" BY DEF CoreInv, TypeOK, MonObserve
<1>2. PICK p \in Proposals : mon.p = p /\ phase[p] # "none" BY <1>1 DEF MonitorInv
<1>3. PICK n \in Known : mon.norm = n /\ Agrees(n, p) BY <1>1, <1>2 DEF MonitorInv, Visits
<1>4. UNCHANGED <<phase, dispatched, proof, position, brokerVars, senderVars, op>> BY DEF MonObserve
<1>5. CASE MonGoto("fail") /\ UNCHANGED <<bound, ostate>>
    <2>1. mon'.pc = "fail" /\ mon'.p = p /\ mon'.norm = n BY <1>1, <1>2, <1>3, <1>5, MonMoves
    <2>2. MonitorInv' BY <1>2, <1>3, <1>4, <2>1 DEF MonitorInv, Agrees
    <2> QED BY <1>4, <1>5, <2>2, DecisionInv
<1>6. CASE ObserveRow(p, n) /\ MonGoto(IF n \in WithFill THEN "observed" ELSE "finishing")
    <2>1. /\ mon'.pc = IF n \in WithFill THEN "observed" ELSE "finishing"
          /\ mon'.p = p /\ mon'.norm = n
        BY <1>1, <1>2, <1>3, <1>6, MonMoves
    <2>2. RowInv(p)' /\ Grows(p) /\ bound'[p] /\ posts[p] > 0 /\ \A q \in Proposals \ {p} : SameRow(q)
        BY <1>2, <1>3, <1>4, <1>6, ObservedRow
    <2>3. MonitorInv' BY <1>2, <1>3, <1>4, <2>1, <2>2 DEF MonitorInv, Agrees, Known
    <2>4. \A t \in Senders : ~(pc[t] = "claimed" /\ work[t] = p)
        BY <2>2, AtWork DEF SenderInv
    <2>5. OnlyOn(p) BY <1>4, <2>2, <2>4 DEF OnlyOn
    <2>6. op'.pc # "idle" => op'.p \in Proposals BY <1>4 DEF CoreInv
    <2> QED BY <2>2, <2>3, <2>5, <2>6, RowFrame
<1> QED BY <1>2, <1>3, <1>5, <1>6 DEF MonObserve

\* The monitor's booking of a fill preserves CoreInv.
LEMMA MonOpenPositionInv ==
    ASSUME CoreInv, TypeOK', MonOpenPosition
    PROVE  CoreInv'
<1>1. mon \in Visits /\ MonitorInv /\ mon.pc = "observed" BY DEF CoreInv, TypeOK, MonOpenPosition
<1>2. PICK p \in Proposals : mon.p = p /\ phase[p] # "none" /\ bound[p] /\ broker[p] \in WithFill
    BY <1>1 DEF MonitorInv, Agrees, WithFill
<1>3. UNCHANGED <<rowVars, brokerVars, senderVars, op>> BY DEF MonOpenPosition
<1>4. position' = position \/ position' = [position EXCEPT ![p] = TRUE]
    BY <1>2 DEF MonOpenPosition
<1>5. PICK at \in {"opened", "failForce"} : MonGoto(at) BY DEF MonOpenPosition
<1>6. mon'.pc = at /\ mon'.p = p /\ mon'.norm = mon.norm BY <1>1, <1>2, <1>5, MonMoves
<1>7. MonitorInv' BY <1>1, <1>2, <1>3, <1>6 DEF MonitorInv, Agrees
<1>8. RowInv(p) BY DEF CoreInv
<1>9. RowInv(p)' BY <1>2, <1>3, <1>8 DEF RowInv
<1>10. \A q \in Proposals \ {p} : SameRow(q) BY <1>3, <1>4, RowTypes DEF SameRow
<1>11. OnlyOn(p) BY <1>3, <1>10 DEF OnlyOn, Grows, ClaimsStay, Agrees
<1>12. op'.pc # "idle" => op'.p \in Proposals BY <1>3 DEF CoreInv
<1> QED BY <1>7, <1>9, <1>11, <1>12, RowFrame

\* The end of a visit: acknowledged, left alone, or in doubt.
LEMMA MonEndInv ==
    ASSUME CoreInv, TypeOK', MonFinish \/ MonDoubt
    PROVE  CoreInv'
<1>1. mon \in Visits /\ MonitorInv /\ mon.pc \in {"finishing", "fail", "failForce"}
    BY DEF CoreInv, TypeOK, MonFinish, MonDoubt
<1>2. PICK p \in Proposals : mon.p = p /\ phase[p] # "none" BY <1>1 DEF MonitorInv
<1>3. UNCHANGED <<dispatched, proof, bound, ostate, position, brokerVars, senderVars, op>>
    BY DEF MonFinish, MonDoubt
<1>4. \/ phase' = phase
      \/ \E ph \in {"acknowledged", "unknown"} : phase' = [phase EXCEPT ![p] = ph]
    BY <1>2 DEF MonFinish, MonDoubt, Acknowledge, InDoubt
<1>5. phase'[p] \in {phase[p], "acknowledged", "unknown"} BY <1>4, RowTypes
<1>6. \A q \in Proposals \ {p} : SameRow(q) BY <1>3, <1>4, RowTypes DEF SameRow
<1>7. MonitorInv'
    <2>1. CASE mon' = NoVisit BY <2>1, IdleMonitor
    <2>2. ASSUME NEW at \in {"fail", "alarm"}, MonGoto(at) PROVE MonitorInv'
        <3>1. mon'.pc = at /\ mon'.p = p /\ mon'.norm = mon.norm BY <1>1, <1>2, <2>2, MonMoves
        <3> QED BY <1>1, <1>2, <1>3, <1>5, <3>1 DEF MonitorInv, Agrees
    <2> QED BY <2>1, <2>2 DEF MonFinish, MonDoubt
<1>8. RowInv(p)' BY <1>3, <1>5 DEF CoreInv, RowInv
<1>9. OnlyOn(p) BY <1>3, <1>5, <1>6 DEF OnlyOn, Grows, ClaimsStay, Agrees
<1>10. op'.pc # "idle" => op'.p \in Proposals BY <1>3 DEF CoreInv
<1> QED BY <1>7, <1>8, <1>9, <1>10, RowFrame

\* The operator's start, reads and refusal touch no row.
LEMMA OpQuietInv ==
    ASSUME CoreInv, TypeOK', OpRead \/ OpRefuse \/ \E p \in Proposals : OpStart(p)
    PROVE  CoreInv'
<1>1. UNCHANGED <<rowVars, position, brokerVars, senderVars, mon>> BY DEF OpRead, OpRefuse, OpStart
<1>2. op'.pc # "idle" => op'.p \in Proposals
    <2>1. CASE OpRefuse BY <2>1 DEF OpRefuse, NoResolution
    <2>2. ASSUME NEW p \in Proposals, OpStart(p) PROVE op'.p \in Proposals BY <2>2 DEF OpStart
    <2>3. CASE OpRead /\ ~OpRefuse
        <3>1. op \in Resolutions /\ op.p \in Proposals BY <2>3 DEF OpRead, CoreInv, TypeOK
        <3>2. PICK at \in {"read2", "apply"} : op' = [op EXCEPT !.pc = at] BY <2>3 DEF OpRead
        <3> QED BY <3>1, <3>2 DEF Resolutions
    <2> QED BY <2>1, <2>2, <2>3
<1>3. MonitorInv' BY <1>1 DEF CoreInv, MonitorInv, Agrees
<1> QED BY <1>1, <1>2, <1>3, DecisionInv

\* What the operator abandons has no order at the broker and no claimant.
LEMMA OpApplyInv ==
    ASSUME CoreInv, TypeOK', OpApply
    PROVE  CoreInv'
<1>1. CASE OpRefuse BY <1>1, OpQuietInv
<1>2. CASE ~OpRefuse
    <2>1. PICK p \in Proposals : op.p = p BY DEF OpApply, CoreInv
    <2>2. Releasable(p) /\ ~position[p] BY <1>2, <2>1 DEF OpApply
    <2>3. /\ \E ph \in Abandoned : phase' = [phase EXCEPT ![p] = ph]
          /\ ostate' = [ostate EXCEPT ![p] = "dead"]
          /\ op' = NoResolution
          /\ UNCHANGED <<dispatched, proof, bound, position, brokerVars, senderVars, mon>>
        BY <1>2, <2>1 DEF OpApply, Abandoned
    <2>4. phase'[p] \in Abandoned /\ ostate'[p] = "dead" BY <2>3, RowTypes
    <2>5. \A q \in Proposals \ {p} : SameRow(q) BY <2>3, RowTypes DEF SameRow
    <2>6. Grows(p) BY <2>3, <2>4 DEF Grows, Agrees, Abandoned
    <2>7. RowInv(p) BY DEF CoreInv
    <2>8. ~wire[p] /\ broker[p] \notin {"working", "filled"} BY <2>2, <2>7 DEF Releasable, RowInv
    <2>9. RowInv(p)' BY <2>2, <2>3, <2>4, <2>7, <2>8 DEF RowInv, Abandoned
    <2>10. \A t \in Senders : ~(pc[t] = "claimed" /\ work[t] = p)
        BY <2>2, AtWork DEF SenderInv, Releasable, AfterClaim
    <2>11. OnlyOn(p) BY <2>3, <2>5, <2>6, <2>10 DEF OnlyOn
    <2>12. MonitorInv'
        <3>1. mon.pc # "idle" => Grows(mon.p) BY <2>5, <2>6, SameRowGrows DEF CoreInv, MonitorInv
        <3> QED BY <2>3, <3>1, MonitorStable DEF CoreInv, TypeOK
    <2>13. op'.pc # "idle" => op'.p \in Proposals BY <2>3 DEF NoResolution
    <2> QED BY <2>9, <2>11, <2>12, <2>13, RowFrame
<1> QED BY <1>1, <1>2

----------------------------------------------------------------------------
(* The theorems.                                                            *)

\* The inductive invariant holds before anybody has moved.
LEMMA InitCoreInv == Init => CoreInv
<1> SUFFICES ASSUME Init PROVE CoreInv OBVIOUS
<1>1. \A p \in Proposals : RowInv(p) BY DEF Init, RowInv
<1>2. \A s \in Senders : SenderInv(s) BY DEF Init, SenderInv
<1>3. OneClaimant BY DEF Init, OneClaimant, AfterClaim
<1>4. MonitorInv /\ (op.pc # "idle" => op.p \in Proposals)
    BY DEF Init, MonitorInv, NoVisit, NoResolution
<1> QED BY <1>1, <1>2, <1>3, <1>4, InitTypeOK DEF CoreInv

\* Every step of a sender preserves CoreInv.
LEMMA SenderCoreInv ==
    ASSUME CoreInv, NEW s \in Senders, SenderStep(s) \/ CrashSender(s)
    PROVE  CoreInv'
<1>1. CASE CrashSender(s)
    <2>1. pc[s] # "idle" BY <1>1 DEF CrashSender
    <2>2. TypeOK' BY <1>1, <2>1, AtWork, OtherTypeOK DEF CoreInv
    <2> QED BY <1>1, <2>2, QuietInv
<1>2. CASE SenderStep(s)
    <2>1. pc[s] # "idle"
        BY <1>2 DEF SenderStep, Recheck, TakeEntryLock, TakeMonitorLock, Assess, Check, Consent,
            Preflight, Create, Claim, Post, Answer, SaveUnsafe, SaveProof, SaveDoubt, SaveAlarm,
            Lookup, Observe, OpenPosition, Finish, Release, RecordStatus
    <2>2. PICK p \in Proposals : work[s] = p BY <2>1, AtWork
    <2>3. TypeOK' BY <1>2, <2>2, SenderTypeOK DEF CoreInv
    <2> QED
        BY <1>2, <2>2, <2>3, QuietInv, CreateInv, ClaimInv, PostInv, AnswerInv, SaveUnsafeInv,
           SaveProofInv, SaveDoubtInv, ObserveInv, OpenPositionInv, FinishInv DEF SenderStep
<1> QED BY <1>1, <1>2

\* Every step of the monitor preserves CoreInv.
LEMMA MonitorCoreInv ==
    ASSUME CoreInv, MonitorStep \/ CrashMonitor \/ \E p \in Proposals : Visit(p)
    PROVE  CoreInv'
<1>1. TypeOK' BY MonitorTypeOK DEF CoreInv
<1> QED BY <1>1, MonQuietInv, MonObserveInv, MonOpenPositionInv, MonEndInv DEF MonitorStep

\* Every step of the operator preserves CoreInv.
LEMMA OperatorCoreInv ==
    ASSUME CoreInv, OpRead \/ OpApply \/ \E p \in Proposals : OpStart(p)
    PROVE  CoreInv'
<1>1. TypeOK' BY OperatorTypeOK DEF CoreInv
<1> QED BY <1>1, OpQuietInv, OpApplyInv

\* Every step of the broker and of the approvers preserves CoreInv.
LEMMA OtherCoreInv ==
    ASSUME CoreInv, NEW p \in Proposals,
           Reject(p) \/ Supersede(p) \/ Deliver(p) \/ Trade(p) \/ \E s \in Senders : Approve(s, p)
    PROVE  CoreInv'
<1>1. TypeOK' BY OtherTypeOK DEF CoreInv
<1>2. CASE Reject(p) \/ Supersede(p)
    <2>1. UNCHANGED <<rowVars, position, brokerVars, senderVars, mon, op>>
        BY <1>2 DEF Reject, Supersede
    <2>2. MonitorInv' BY <2>1 DEF CoreInv, MonitorInv, Agrees
    <2> QED BY <1>1, <2>1, <2>2, DecisionInv
<1> QED BY <1>1, <1>2, BrokerInv, ApproveInv

\* CoreInv depends on nothing but the variables of the specification.
LEMMA StutterCoreInv == CoreInv /\ UNCHANGED vars => CoreInv'
<1> SUFFICES ASSUME CoreInv, UNCHANGED vars PROVE CoreInv' OBVIOUS
<1>1. TypeOK' BY DEF CoreInv, TypeOK, vars
<1>2. MonitorInv' BY DEF CoreInv, MonitorInv, Agrees, vars
<1> QED BY <1>1, <1>2, DecisionInv DEF vars

\* The operator's cancel, at whatever step, keeps the types.
LEMMA CancelTypeOK ==
    ASSUME TypeOK, CancelInv, CancelStep \/ \E p \in Proposals : CancelRead(p)
    PROVE  TypeOK'
<1>1. NoCancel \in Cancels BY DEF NoCancel, Cancels
<1>2. ASSUME NEW p \in Proposals, CancelRead(p) PROVE TypeOK'
    <2>1. cancel' \in Cancels BY <1>2 DEF CancelRead, Cancels, Terminal
    <2> QED BY <1>2, <2>1 DEF CancelRead, TypeOK
<1>3. CASE CancelOpen
    <2>1. cancel' \in Cancels BY <1>3 DEF CancelOpen, Cancels, TypeOK
    <2>2. position' \in [Proposals -> BOOLEAN] BY <1>3 DEF CancelOpen, TypeOK
    <2> QED BY <1>3, <2>1, <2>2 DEF CancelOpen, TypeOK
<1>4. CASE CancelWrite
    <2>1. ostate' \in [Proposals -> OrderStates] BY <1>4 DEF CancelWrite, StateOf, TypeOK, OrderStates
    <2>2. status' \in [Proposals -> Statuses] BY <1>4 DEF CancelWrite, TypeOK, Statuses
    <2>3. cancelled' \in [Proposals -> BOOLEAN] BY <1>4 DEF CancelWrite, TypeOK
    <2> QED BY <1>1, <1>4, <2>1, <2>2, <2>3 DEF CancelWrite, TypeOK
<1>5. CASE CancelGivesUp BY <1>1, <1>5 DEF CancelGivesUp, TypeOK
<1> QED BY <1>2, <1>3, <1>4, <1>5 DEF CancelStep

\* What the invariant says of the entry an operator cancels: the broker has its
\* order, so it was sent, and nobody may send it again.
LEMMA Cancelling ==
    ASSUME EntryInv, cancel.pc # "idle", NEW p \in Proposals, cancel.p = p
    PROVE  /\ RowInv(p) /\ bound[p] /\ cancel.norm \in Terminal /\ broker[p] = cancel.norm
           /\ ~wire[p] /\ posts[p] > 0 /\ dispatched[p] /\ phase[p] \notin {"none", "prepared"}
           /\ \A t \in Senders : ~(pc[t] = "claimed" /\ work[t] = p)
<1>1. RowInv(p) BY DEF EntryInv, CoreInv
<1>2. bound[p] /\ cancel.norm \in Terminal /\ broker[p] = cancel.norm BY DEF EntryInv, CancelInv
<1>3. ~wire[p] /\ posts[p] > 0 /\ dispatched[p] /\ phase[p] \notin {"none", "prepared"}
    BY <1>1, <1>2 DEF RowInv, Terminal, Known
<1>4. \A t \in Senders : ~(pc[t] = "claimed" /\ work[t] = p)
    BY <1>3, AtWork DEF EntryInv, SenderInv
<1> QED BY <1>1, <1>2, <1>3, <1>4

\* The operator's cancel, which holds no lock, preserves the invariant: what it
\* writes is what the broker said last of an order that is over.
LEMMA CancelCoreInv ==
    ASSUME EntryInv, CancelStep \/ \E p \in Proposals : CancelRead(p)
    PROVE  CoreInv'
<1>1. CoreInv /\ TypeOK' BY CancelTypeOK DEF EntryInv, CoreInv
<1>2. CASE CancelGivesUp \/ \E p \in Proposals : CancelRead(p)
    <2>1. UNCHANGED <<rowVars, position, brokerVars, senderVars, mon, op>>
        BY <1>2 DEF CancelGivesUp, CancelRead
    <2>2. MonitorInv' BY <1>1, <2>1 DEF CoreInv, MonitorInv, Agrees
    <2> QED BY <1>1, <2>1, <2>2, DecisionInv
<1>3. CASE CancelOpen \/ CancelWrite
    <2>1. cancel.pc # "idle" BY <1>3 DEF CancelOpen, CancelWrite
    <2>2. PICK p \in Proposals : cancel.p = p BY <2>1 DEF EntryInv, CancelInv
    <2>3. UNCHANGED <<phase, dispatched, proof, bound, brokerVars, senderVars, mon, op>>
        BY <1>3 DEF CancelOpen, CancelWrite
    <2>4. \A q \in Proposals \ {p} : SameRow(q)
        BY <1>1, <1>3, <2>2, RowTypes DEF CancelOpen, CancelWrite, SameRow
    <2>5. RowInv(p)'
        <3>1. CASE CancelOpen
            BY <2>1, <2>2, <2>3, <3>1, Cancelling DEF CancelOpen, RowInv
        <3>2. CASE CancelWrite
            <4>1. ostate'[p] = StateOf(cancel.norm) /\ UNCHANGED position
                BY <1>1, <2>2, <3>2, RowTypes DEF CancelWrite
            <4>2. ostate'[p] = "dead" => broker[p] \notin {"working", "filled"}
                BY <2>1, <2>2, <4>1, Cancelling DEF StateOf, Terminal, Known
            <4> QED BY <2>1, <2>2, <2>3, <4>1, <4>2, Cancelling DEF RowInv
        <3> QED BY <1>3, <3>1, <3>2
    <2>6. Grows(p) BY <2>3 DEF Grows, Agrees
    <2>7. OnlyOn(p) BY <2>1, <2>2, <2>3, <2>4, <2>6, Cancelling DEF OnlyOn
    <2>8. MonitorInv' BY <1>1, <2>3 DEF CoreInv, MonitorInv, Agrees
    <2> QED BY <1>1, <2>3, <2>5, <2>7, <2>8, RowFrame DEF CoreInv
<1> QED BY <1>2, <1>3 DEF CancelStep

\* Nobody takes back that an order is over, or the broker's name for it, and only
\* the operator's cancel knows what it has read.
OrdersEnd ==
    /\ UNCHANGED cancel
    /\ \A q \in Proposals : /\ bound[q] => bound'[q]
                            /\ broker[q] \in Terminal => broker'[q] = broker[q]

\* A sender's step ends no order and forgets none.
LEMMA SenderOrdersEnd ==
    ASSUME CoreInv, NEW s \in Senders,
           SenderStep(s) \/ CrashSender(s) \/ \E p \in Proposals : Approve(s, p)
    PROVE  OrdersEnd
<1>1. UNCHANGED <<broker, cancel>>
    BY DEF SenderStep, Recheck, TakeEntryLock, TakeMonitorLock, Assess, Check, Consent,
           Preflight, Create, Claim, Post, Answer, SaveUnsafe, SaveProof, SaveDoubt, SaveAlarm,
           Lookup, Observe, OpenPosition, Finish, Release, RecordStatus, CrashSender, Approve
<1>2. \A q \in Proposals : bound[q] => bound'[q]
    <2>1. CASE Observe(s) BY <2>1, RowTypes DEF Observe, ObserveRow
    <2>2. CASE ~Observe(s)
        BY <2>2 DEF SenderStep, Recheck, TakeEntryLock, TakeMonitorLock, Assess, Check, Consent,
               Preflight, Create, Claim, Post, Answer, SaveUnsafe, SaveProof, SaveDoubt, SaveAlarm,
               Lookup, OpenPosition, Finish, Release, RecordStatus, CrashSender, Approve
    <2> QED BY <2>1, <2>2
<1> QED BY <1>1, <1>2 DEF OrdersEnd

\* Neither does a step of the others; the broker only ends an order that works.
LEMMA OtherOrdersEnd ==
    ASSUME CoreInv,
           \/ MonitorStep \/ CrashMonitor \/ OpRead \/ OpApply
           \/ \E p \in Proposals : \/ Reject(p) \/ Supersede(p) \/ Deliver(p) \/ Trade(p)
                                   \/ Visit(p) \/ OpStart(p)
    PROVE  OrdersEnd
<1>1. CASE MonObserve BY <1>1, RowTypes DEF MonObserve, ObserveRow, OrdersEnd
<1>2. ASSUME NEW p \in Proposals, Deliver(p) \/ Trade(p) PROVE OrdersEnd
    <2>1. UNCHANGED <<bound, cancel>> BY <1>2 DEF Deliver, Trade
    <2>2. \/ broker' = broker
          \/ broker[p] \in {"none", "working"} /\ \E b : broker' = [broker EXCEPT ![p] = b]
        BY <1>2 DEF Deliver, Trade
    <2>3. \A q \in Proposals : broker[q] \in Terminal => broker'[q] = broker[q]
        BY <2>2, RowTypes DEF Terminal, Known
    <2> QED BY <2>1, <2>3 DEF OrdersEnd
<1>3. CASE MonitorStep /\ ~MonObserve
    BY <1>3 DEF MonitorStep, MonRead, MonOpenPosition, MonFilled, MonFinish, MonDoubt, MonAlarm, OrdersEnd
<1>4. CASE CrashMonitor \/ OpRead \/ OpApply
    BY <1>4 DEF CrashMonitor, OpRead, OpRefuse, OpApply, OrdersEnd
<1>5. ASSUME NEW p \in Proposals, Reject(p) \/ Supersede(p) \/ Visit(p) \/ OpStart(p) PROVE OrdersEnd
    BY <1>5 DEF Reject, Supersede, Visit, OpStart, OrdersEnd
<1> QED BY <1>1, <1>2, <1>3, <1>4, <1>5

\* So what an operator's cancel has read of an order stays true until it is written.
LEMMA CancelKept ==
    ASSUME CoreInv, CancelInv, [Next]_vars
    PROVE  CancelInv'
<1>1. CASE OrdersEnd BY <1>1 DEF OrdersEnd, CancelInv
<1>2. CASE UNCHANGED vars BY <1>2 DEF CancelInv, vars
<1>3. ASSUME NEW p \in Proposals, CancelRead(p) PROVE CancelInv'
    BY <1>3 DEF CancelRead, CancelInv
<1>4. CASE CancelStep
    <2>1. cancel'.pc # "idle" => cancel'.p = cancel.p /\ cancel'.norm = cancel.norm /\ cancel.pc # "idle"
        BY <1>4 DEF CancelStep, CancelOpen, CancelWrite, CancelGivesUp, NoCancel, CoreInv, TypeOK, Cancels
    <2>2. UNCHANGED <<bound, broker>> BY <1>4 DEF CancelStep, CancelOpen, CancelWrite, CancelGivesUp
    <2> QED BY <2>1, <2>2 DEF CancelInv
<1> QED BY <1>1, <1>2, <1>3, <1>4, SenderOrdersEnd, OtherOrdersEnd DEF Next

\* The inductive invariant: who may still send, what the rows say, and what the
\* processes believe of the broker agree in every reachable state.
THEOREM EntryInvariant == Spec => []EntryInv
<1>1. Init => EntryInv
    <2>1. Init => CancelInv BY DEF Init, CancelInv, NoCancel
    <2> QED BY <2>1, InitCoreInv DEF EntryInv
<1>2. EntryInv /\ [Next]_vars => EntryInv'
    <2> SUFFICES ASSUME EntryInv, [Next]_vars PROVE EntryInv' OBVIOUS
    <2>1. CoreInv /\ CancelInv BY DEF EntryInv
    <2>2. CASE UNCHANGED vars BY <2>1, <2>2, StutterCoreInv, CancelKept DEF EntryInv
    <2>3. CASE Next
        <3>1. CoreInv'
            BY <2>1, <2>3, SenderCoreInv, MonitorCoreInv, OperatorCoreInv, OtherCoreInv, CancelCoreInv
               DEF Next
        <3> QED BY <2>1, <2>3, <3>1, CancelKept DEF EntryInv
    <2> QED BY <2>2, <2>3
<1> QED BY <1>1, <1>2, PTL DEF Spec

\* Every variable keeps its type.
THEOREM TypeCorrect == Spec => []TypeOK
<1>1. EntryInv => TypeOK BY DEF EntryInv, CoreInv
<1> QED BY <1>1, EntryInvariant, PTL

\* An uncertain POST is never retried: whatever dies, retries or is resolved, a
\* proposal is handed to the broker's transport at most once.
THEOREM AtMostOnce == Spec => []AtMostOnePost
<1>1. EntryInv => AtMostOnePost BY DEF EntryInv, CoreInv, RowInv, AtMostOnePost
<1> QED BY <1>1, EntryInvariant, PTL

\* Whatever the broker may ever hear of has a row whose send right was consumed.
THEOREM NoOrphan == Spec => []NoOrphanOrder
<1>1. EntryInv => NoOrphanOrder BY DEF EntryInv, CoreInv, RowInv, NoOrphanOrder
<1> QED BY <1>1, EntryInvariant, PTL

\* An entry the ledger has written off has no order at work at the broker, none on
\* its way, and nobody who may still send one.
THEOREM WriteOff == Spec => []WrittenOffIsOver
<1>1. EntryInv => WrittenOffIsOver
    <2> SUFFICES ASSUME EntryInv, NEW p \in Proposals, ostate[p] = "dead"
                 PROVE  /\ ~wire[p] /\ broker[p] \notin {"working", "filled"}
                        /\ \A s \in Senders : work[s] = p => pc[s] # "claimed"
        BY DEF WrittenOffIsOver
    <2>1. ~wire[p] /\ broker[p] \notin {"working", "filled"} BY DEF EntryInv, CoreInv, RowInv
    <2>2. \A s \in Senders : work[s] = p => pc[s] # "claimed" BY DEF EntryInv, CoreInv, SenderInv
    <2> QED BY <2>1, <2>2
<1> QED BY <1>1, EntryInvariant, PTL

\* A position is held only for an entry of which something filled at the broker.
THEOREM Positions == Spec => []PositionsAreFills
<1>1. EntryInv => PositionsAreFills BY DEF EntryInv, CoreInv, RowInv, PositionsAreFills
<1> QED BY <1>1, EntryInvariant, PTL

----------------------------------------------------------------------------
(* With the ownership locks in force: who holds them is alone at work, but for *)
(* an operator's cancel, which takes no lock and writes the state of a row and *)
(* its position only.                                                         *)

\* The control points between taking both locks and leaving them.
Owning == AfterClaim \cup {"owned", "assessed", "checked", "consented", "cleared", "created"}

\* Whoever is at work holds what his work needs.
LocksHeld ==
    /\ \A s \in Senders : pc[s] \in Owning \cup {"queued", "done"} => entryLock = s
    /\ \A s \in Senders : pc[s] \in Owning => monLock = s
    /\ mon.pc # "idle" => monLock = Monitor
    /\ op.pc # "idle" => entryLock = Operator /\ monLock = Operator

Final == {"filled", "dead"}

\* What a row, its incident and the broker have in common beyond RowInv.
RowGuard(p) ==
    /\ incident[p] => PendingIntent(p)
    /\ ostate[p] = "filled" => broker[p] = "filled"
    /\ phase[p] \in Abandoned => ostate[p] = "dead" /\ broker[p] \notin Known
    /\ phase[p] = "acknowledged" => broker[p] \in Known \/ posts[p] = 0

\* A sender at its POST is alone in doubt, and finds the phase of its row as it left
\* it.  The state it finds is not newer than its answer, unless a cancel wrote it.
SenderGuard(s) == LET p == work[s] IN
    /\ pc[s] \in AfterClaim => phase[p] \in {"submitting", "unknown"}
    /\ pc[s] \in {"created", "claimed", "unsafe"} => ~incident[p]
    /\ pc[s] \in {"created", "claimed"} => ~OtherPending(p)
    /\ pc[s] = "answered" /\ norm[s] = "working" => ostate[p] \notin Final \/ cancelled[p]
    /\ pc[s] = "finishing" => norm[s] # "none"

\* So does the monitor; nothing abandoned is visited.
MonitorGuard == mon.pc # "idle" => LET p == mon.p IN
    /\ phase[p] \notin Abandoned
    /\ mon.pc = "answered" /\ mon.norm = "working" => ostate[p] \notin Final \/ cancelled[p]
    /\ mon.pc \in {"opened", "finishing", "failForce"} => mon.norm # "none"
    /\ mon.pc = "alarm" => PendingIntent(p)

OwnershipInv ==
    /\ LocksHeld
    /\ \A p \in Proposals : RowGuard(p)
    /\ \A s \in Senders : SenderGuard(s)
    /\ MonitorGuard

----------------------------------------------------------------------------
(* What one step does to the rows, in the words of the promise.             *)

\* An abandoned row stays, and so does a final order state, unless an operator's
\* cancel wrote it: then a slower reader may reopen it, and it is visited again.
Kept(p) ==
    /\ phase[p] \in Abandoned => Row(p)' = Row(p)
    /\ ostate[p] \in Final /\ ostate'[p] # ostate[p] =>
        /\ cancelled[p]
        /\ ostate'[p] = "accepted" /\ broker[p] \in Terminal /\ ~Settled(p)'

\* The abstract intent of p goes from one state to another and nothing else moves.
Turns(p, from, to) ==
    AbstractIntent(p) = from /\ AbstractIntent(p)' = to /\ AbstractOrder(p)' = AbstractOrder(p)

\* The abstract order of p goes from one state to others and nothing else moves.
Travels(p, from, to) ==
    AbstractOrder(p) = from /\ AbstractOrder(p)' \in to /\ AbstractIntent(p)' = AbstractIntent(p)

\* One entry moves, the way AtMostOnceEntry lets an entry move.
EntryMoves(p) ==
    \/ AbstractIntent(p)' = AbstractIntent(p) /\ AbstractOrder(p)' = AbstractOrder(p)
    \/ ~OtherPending(p) /\ Turns(p, "idle", "open")
    \/ ~OtherPending(p) /\ AbstractIntent(p) = "open" /\ Travels(p, "none", {"flying"})
    \/ Travels(p, "flying", {"live", "gone"})
    \/ AbstractOrder(p) = "live" /\ Turns(p, "open", "placed")
    \/ AbstractOrder(p) \in {"none", "gone"} /\ Turns(p, "open", "void")
    \/ Turns(p, "placed", "open")

\* A step on the row of p that the three action properties allow.
RowStep(p) ==
    /\ \A q \in Proposals \ {p} : SameRow(q)
    /\ Kept(p)
    /\ posts'[p] = posts[p] \/ ~OtherPending(p)
    /\ EntryMoves(p)

Promised == (\A q \in Proposals : SameRow(q)) \/ \E p \in Proposals : RowStep(p)

\* Of a row that did not change nothing is decided, sent or settled.
LEMMA SameAbstract ==
    ASSUME NEW q \in Proposals, SameRow(q)
    PROVE  /\ AbstractIntent(q)' = AbstractIntent(q) /\ AbstractOrder(q)' = AbstractOrder(q)
           /\ Kept(q) /\ posts'[q] = posts[q]
<1>1. AbstractIntent(q)' = AbstractIntent(q) BY DEF SameRow, AbstractIntent
<1>2. AbstractOrder(q)' = AbstractOrder(q) BY DEF SameRow, AbstractOrder
<1> QED BY <1>1, <1>2 DEF SameRow, Kept, Row

\* An undecided entry is a pending intent.
LEMMA UndecidedIsPending == \A p \in Proposals : AbstractIntent(p) = "open" <=> PendingIntent(p)
BY DEF AbstractIntent, PendingIntent, Pending

\* Such a step settles no settled row and sends nothing beside a doubt.
LEMMA PromisedActions ==
    ASSUME Promised
    PROVE  /\ \A p \in Proposals : Kept(p)
           /\ \A p \in Proposals : posts'[p] = posts[p] \/ ~OtherPending(p)
<1> SUFFICES ASSUME NEW q \in Proposals
             PROVE  Kept(q) /\ (posts'[q] = posts[q] \/ ~OtherPending(q))
    OBVIOUS
<1>1. CASE SameRow(q) BY <1>1, SameAbstract
<1>2. CASE ~SameRow(q) BY <1>2 DEF Promised, RowStep
<1> QED BY <1>1, <1>2

\* Such a step is a step of the promise, or invisible to it.
LEMMA PromisedImplements == ASSUME Promised PROVE [Entry!Next]_(Entry!vars)
<1> DEFINE intent == [p \in Proposals |-> AbstractIntent(p)]
           order == [p \in Proposals |-> AbstractOrder(p)]
<1>1. CASE \A q \in Proposals : SameRow(q)
    <2>1. intent' = intent /\ order' = order BY <1>1, SameAbstract
    <2> QED BY <2>1 DEF Entry!vars
<1>2. ASSUME NEW p \in Proposals, RowStep(p) PROVE [Entry!Next]_(Entry!vars)
    <2>1. \A q \in Proposals \ {p} :
              AbstractIntent(q)' = AbstractIntent(q) /\ AbstractOrder(q)' = AbstractOrder(q)
        BY <1>2, SameAbstract DEF RowStep
    <2>2. AbstractIntent(p)' = AbstractIntent(p) => intent' = intent BY <2>1
    <2>3. AbstractOrder(p)' = AbstractOrder(p) => order' = order BY <2>1
    <2>4. \A v : AbstractIntent(p)' = v => intent' = [intent EXCEPT ![p] = v] BY <2>1
    <2>5. \A v : AbstractOrder(p)' = v => order' = [order EXCEPT ![p] = v] BY <2>1
    <2>6. ~OtherPending(p) => Entry!GateOpenFor(p)
        BY UndecidedIsPending DEF Entry!GateOpenFor, Entry!Undecided, OtherPending
    <2>7. intent[p] = AbstractIntent(p) /\ order[p] = AbstractOrder(p) BY DEF intent, order
    <2> HIDE DEF intent, order
    <2>8. CASE AbstractIntent(p)' = AbstractIntent(p) /\ AbstractOrder(p)' = AbstractOrder(p)
        BY <2>2, <2>3, <2>8 DEF Entry!vars, intent, order
    <2>9. CASE ~OtherPending(p) /\ Turns(p, "idle", "open")
        BY <2>3, <2>4, <2>6, <2>7, <2>9 DEF Turns, Entry!Next, Entry!Open, Entry!Decide, intent, order
    <2>10. CASE ~OtherPending(p) /\ AbstractIntent(p) = "open" /\ Travels(p, "none", {"flying"})
        BY <2>2, <2>5, <2>6, <2>7, <2>10
           DEF Travels, Entry!Next, Entry!Send, Entry!Undecided, intent, order
    <2>11. CASE Travels(p, "flying", {"live", "gone"})
        BY <2>2, <2>5, <2>7, <2>11 DEF Travels, Entry!Next, Entry!Arrive, intent, order
    <2>12. CASE AbstractOrder(p) = "live" /\ Turns(p, "open", "placed")
        BY <2>3, <2>4, <2>7, <2>12 DEF Turns, Entry!Next, Entry!Place, Entry!Decide, intent, order
    <2>13. CASE AbstractOrder(p) \in {"none", "gone"} /\ Turns(p, "open", "void")
        BY <2>3, <2>4, <2>7, <2>13 DEF Turns, Entry!Next, Entry!Void, Entry!Decide, intent, order
    <2>14. CASE Turns(p, "placed", "open")
        BY <2>3, <2>4, <2>7, <2>14 DEF Turns, Entry!Next, Entry!Doubt, Entry!Decide, intent, order
    <2> QED BY <1>2, <2>8, <2>9, <2>10, <2>11, <2>12, <2>13, <2>14 DEF RowStep, EntryMoves
<1> QED BY <1>1, <1>2 DEF Promised
----------------------------------------------------------------------------
(* The frames: whoever is inside is alone there.                            *)

\* A sender inside excludes the other senders, the monitor and the operator.
LEMMA OwnerAlone ==
    ASSUME LocksHeld, NEW s \in Senders, pc[s] \in Owning
    PROVE  /\ \A t \in Senders \ {s} : pc[t] \notin Owning \cup {"queued", "done"}
           /\ mon.pc = "idle" /\ op.pc = "idle"
BY ActorsAssumption DEF LocksHeld

\* A visiting monitor or a resolving operator excludes every sender.
LEMMA ReconcilerAlone ==
    ASSUME LocksHeld, mon.pc # "idle" \/ op.pc # "idle"
    PROVE  /\ \A t \in Senders : pc[t] \notin Owning
           /\ mon.pc = "idle" \/ op.pc = "idle"
BY ActorsAssumption DEF LocksHeld

\* A process that leaves the locks alone still has those it needs.
LEMMA LocksStay ==
    ASSUME LocksHeld, NEW s \in Senders, UNCHANGED <<lockVars, mon, op>>,
           \A t \in Senders \ {s} : pc'[t] = pc[t],
           pc'[s] \in Owning => pc[s] \in Owning,
           pc'[s] \in {"queued", "done"} => pc[s] \in Owning \cup {"queued", "done"}
    PROVE  LocksHeld'
BY DEF LocksHeld

\* A sender that gives up its locks takes nobody else's.
LEMMA LocksFreed ==
    ASSUME LocksHeld, NEW s \in Senders, FreeAll(s), UNCHANGED <<mon, op>>,
           \A t \in Senders \ {s} : pc'[t] = pc[t],
           pc'[s] \notin Owning \cup {"queued", "done"}
    PROVE  LocksHeld'
BY ActorsAssumption DEF LocksHeld, FreeAll

\* Neither does a monitor at the end of its visit.
LEMMA MonitorFreed ==
    ASSUME LocksHeld, mon.pc # "idle", mon' = NoVisit, FreeAll(Monitor), UNCHANGED <<pc, op>>
    PROVE  LocksHeld'
BY ActorsAssumption DEF LocksHeld, FreeAll, NoVisit

\* A row whose incident did not change either keeps its guard.
LEMMA RowGuardStable ==
    ASSUME NEW q \in Proposals, RowGuard(q), SameRow(q), incident'[q] = incident[q]
    PROVE  RowGuard(q)'
BY DEF RowGuard, SameRow, PendingIntent

\* What a sender inside does disturbs no other process.
LEMMA OwnerFrame ==
    ASSUME OwnershipInv, NEW s \in Senders, pc[s] \in Owning, UNCHANGED <<lockVars, mon, op>>,
           \A t \in Senders \ {s} : pc'[t] = pc[t],
           pc'[s] \in Owning \cup {"done"},
           \A p \in Proposals : RowGuard(p)', SenderGuard(s)'
    PROVE  OwnershipInv'
<1>1. LocksHeld'
    <2>1. "done" \notin Owning /\ "queued" \notin Owning BY DEF Owning, AfterClaim
    <2> QED BY <2>1, LocksStay DEF OwnershipInv
<1>2. /\ \A t \in Senders \ {s} : pc[t] \notin Owning \cup {"queued", "done"}
      /\ mon.pc = "idle" /\ op.pc = "idle"
    BY OwnerAlone DEF OwnershipInv
<1>3. \A t \in Senders \ {s} : SenderGuard(t)' BY <1>2 DEF SenderGuard, Owning, AfterClaim
<1>4. MonitorGuard' BY <1>2 DEF MonitorGuard
<1> QED BY <1>1, <1>3, <1>4 DEF OwnershipInv

\* A sender that touches no row and stops short of the POST disturbs nobody.
LEMMA QuietOwnership ==
    ASSUME OwnershipInv, NEW s \in Senders,
           UNCHANGED <<rowVars, position, brokerVars, mon, op, cancelled>>,
           \A t \in Senders \ {s} : pc'[t] = pc[t] /\ work'[t] = work[t] /\ norm'[t] = norm[t],
           pc'[s] \notin AfterClaim \cup {"created"},
           \/ incident' = incident
           \/ pc[s] \in Owning /\ \A p \in Proposals : incident'[p] => incident[p] \/ PendingIntent(p),
           LocksHeld'
    PROVE  OwnershipInv' /\ Promised
<1>1. \A p \in Proposals : RowGuard(p)' BY DEF OwnershipInv, RowGuard, PendingIntent
<1>2. SenderGuard(s)' BY DEF SenderGuard, AfterClaim
<1>3. \A t \in Senders \ {s} : SenderGuard(t)'
    <2> SUFFICES ASSUME NEW t \in Senders \ {s} PROVE SenderGuard(t)' OBVIOUS
    <2>1. CASE incident' = incident
        BY <2>1 DEF OwnershipInv, SenderGuard, OtherPending, PendingIntent
    <2>2. CASE pc[s] \in Owning
        <3>1. pc'[t] \notin Owning BY <2>2, OwnerAlone DEF OwnershipInv
        <3> QED BY <3>1 DEF SenderGuard, Owning, AfterClaim
    <2> QED BY <2>1, <2>2
<1>4. MonitorGuard' BY DEF OwnershipInv, MonitorGuard, PendingIntent
<1>5. Promised BY SameRows DEF Promised
<1> QED BY <1>1, <1>2, <1>3, <1>4, <1>5 DEF OwnershipInv

\* With no sender inside, the monitor and the operator disturb none.
LEMMA OutsideFrame ==
    ASSUME OwnershipInv, \A t \in Senders : pc[t] \notin Owning, pc' = pc, LocksHeld',
           \A p \in Proposals : RowGuard(p)', MonitorGuard'
    PROVE  OwnershipInv'
<1>1. \A t \in Senders : SenderGuard(t)' BY DEF SenderGuard, Owning, AfterClaim
<1> QED BY <1>1 DEF OwnershipInv

----------------------------------------------------------------------------
(* The steps of a sender.                                                   *)

\* A sender at work as the two invariants describe it.
LEMMA Inside ==
    ASSUME CoreInv, OwnershipInv, NEW s \in Senders, NEW p \in Proposals, work[s] = p, pc[s] # "idle"
    PROVE  RowInv(p) /\ SenderInv(s) /\ Agrees(norm[s], p) /\ RowGuard(p) /\ SenderGuard(s)
BY AtWork DEF OwnershipInv

\* The steps of a sender that touch no row, with the locks they take and free.
LEMMA QuietOwned ==
    ASSUME CoreInv, OwnershipInv, Ownership, NEW s \in Senders,
           \/ Recheck(s) \/ TakeEntryLock(s) \/ TakeMonitorLock(s) \/ Assess(s) \/ Check(s)
           \/ Consent(s) \/ Preflight(s) \/ Release(s) \/ RecordStatus(s) \/ CrashSender(s)
           \/ \E p \in Proposals : Approve(s, p)
    PROVE  OwnershipInv' /\ Promised
<1>t. /\ pc \in [Senders -> SenderPcs] /\ work \in [Senders -> Proposals \cup {Nobody}]
      /\ norm \in [Senders -> Known \cup {"none"}]
    BY DEF CoreInv, TypeOK
<1>l. LocksHeld BY DEF OwnershipInv
<1> USE DEF Conclude, Goto
<1>1. ASSUME NEW p \in Proposals, Approve(s, p) PROVE OwnershipInv' /\ Promised
    <2>1. pc'[s] = "ready" /\ \A t \in Senders \ {s} : pc'[t] = pc[t] /\ work'[t] = work[t] /\ norm'[t] = norm[t]
        BY <1>1, <1>t DEF Approve
    <2>2. LocksHeld' BY <1>1, <1>l, <2>1, LocksStay DEF Approve, Owning, AfterClaim
    <2> QED BY <1>1, <2>1, <2>2, QuietOwnership DEF Approve, AfterClaim
<1>2. CASE Recheck(s) \/ RecordStatus(s)
    <2>1. /\ pc'[s] \in {"entering", "idle"}
          /\ \A t \in Senders \ {s} : pc'[t] = pc[t] /\ work'[t] = work[t] /\ norm'[t] = norm[t]
        BY <1>2, <1>t DEF Recheck, RecordStatus, Rest
    <2>2. LocksHeld' BY <1>2, <1>l, <2>1, LocksStay DEF Recheck, RecordStatus, Owning, AfterClaim
    <2> QED BY <1>2, <2>1, <2>2, QuietOwnership DEF Recheck, RecordStatus, AfterClaim
<1>3. CASE TakeEntryLock(s)
    <2>1. /\ pc'[s] \in {"queued", "record"}
          /\ \A t \in Senders \ {s} : pc'[t] = pc[t] /\ work'[t] = work[t] /\ norm'[t] = norm[t]
          /\ pc'[s] = "record" => UNCHANGED lockVars
        BY <1>3, <1>t DEF TakeEntryLock
    <2>2. pc'[s] = "queued" => entryLock = Nobody /\ entryLock' = s /\ monLock' = monLock
        BY <1>3, <1>t, Ownership DEF TakeEntryLock, Free, Held
    <2>3. LocksHeld'
        <3>1. CASE pc'[s] = "record"
            BY <1>3, <1>l, <2>1, <3>1, LocksStay DEF TakeEntryLock, Owning, AfterClaim
        <3>2. CASE pc'[s] = "queued"
            BY <1>3, <1>l, <2>1, <2>2, <3>2, ActorsAssumption
               DEF TakeEntryLock, LocksHeld, Owning, AfterClaim
        <3> QED BY <2>1, <3>1, <3>2
    <2> QED BY <1>3, <2>1, <2>3, QuietOwnership DEF TakeEntryLock, AfterClaim
<1>4. CASE TakeMonitorLock(s)
    <2>1. /\ pc[s] = "queued" /\ pc'[s] \in {"owned", "done"}
          /\ \A t \in Senders \ {s} : pc'[t] = pc[t] /\ work'[t] = work[t] /\ norm'[t] = norm[t]
          /\ pc'[s] = "done" => UNCHANGED lockVars
        BY <1>4, <1>t DEF TakeMonitorLock
    <2>2. pc'[s] = "owned" => monLock = Nobody /\ monLock' = s /\ entryLock' = entryLock
        BY <1>4, <1>t, Ownership DEF TakeMonitorLock, Free, Held
    <2>3. LocksHeld'
        <3>1. CASE pc'[s] = "done"
            BY <1>4, <1>l, <2>1, <3>1, LocksStay DEF TakeMonitorLock, Owning, AfterClaim
        <3>2. CASE pc'[s] = "owned"
            BY <1>4, <1>l, <2>1, <2>2, <3>2, ActorsAssumption DEF TakeMonitorLock, LocksHeld
        <3> QED BY <2>1, <3>1, <3>2
    <2> QED BY <1>4, <2>1, <2>3, QuietOwnership DEF TakeMonitorLock, AfterClaim
<1>5. CASE Assess(s) \/ Check(s) \/ Consent(s) \/ Preflight(s)
    <2>1. /\ pc[s] \in Owning /\ pc'[s] \in {"assessed", "checked", "consented", "cleared", "done"}
          /\ \A t \in Senders \ {s} : pc'[t] = pc[t] /\ work'[t] = work[t] /\ norm'[t] = norm[t]
        BY <1>5, <1>t DEF Assess, Check, Consent, Preflight, Owning
    <2>2. UNCHANGED <<rowVars, position, brokerVars, mon, op, cancelled, lockVars>>
        BY <1>5 DEF Assess, Check, Consent, Preflight
    <2>3. LocksHeld' BY <1>l, <2>1, <2>2, LocksStay DEF Owning, AfterClaim
    <2>4. \A p \in Proposals : incident'[p] => incident[p] \/ PendingIntent(p)
        BY <1>5 DEF Assess, Check, Consent, Preflight, RaiseAlarm, CoreInv, TypeOK
    <2> QED BY <2>1, <2>2, <2>3, <2>4, QuietOwnership DEF AfterClaim
<1>6. CASE Release(s) \/ CrashSender(s)
    <2>1. /\ pc'[s] \in {"record", "idle"}
          /\ \A t \in Senders \ {s} : pc'[t] = pc[t] /\ work'[t] = work[t] /\ norm'[t] = norm[t]
        BY <1>6, <1>t DEF Release, CrashSender, Rest
    <2>2. LocksHeld' BY <1>6, <1>l, <2>1, LocksFreed DEF Release, CrashSender, Owning, AfterClaim
    <2> QED BY <1>6, <2>1, <2>2, QuietOwnership DEF Release, CrashSender, AfterClaim
<1> QED BY <1>1, <1>2, <1>3, <1>4, <1>5, <1>6

\* A step on the row of p alone: the broker hears nothing new, the intent was and
\* stays undecided, and what is settled is kept.
LEMMA StillOpen ==
    ASSUME NEW p \in Proposals, \A q \in Proposals \ {p} : SameRow(q), Kept(p),
           UNCHANGED brokerVars, PendingIntent(p), PendingIntent(p)'
    PROVE  Promised
<1>1. AbstractIntent(p) = "open" /\ AbstractIntent(p)' = "open"
    BY DEF AbstractIntent, PendingIntent, Pending
<1>2. AbstractOrder(p)' = AbstractOrder(p) BY DEF AbstractOrder
<1> QED BY <1>1, <1>2 DEF Promised, RowStep, EntryMoves

\* The frame of a sender's step on its own row.
LEMMA OwnRowFrame ==
    ASSUME CoreInv, OwnershipInv, NEW s \in Senders, NEW p \in Proposals, work[s] = p,
           pc[s] \in Owning, UNCHANGED <<lockVars, mon, op, work>>,
           NEW at \in Owning \cup {"done"}, Goto(s, at),
           \A q \in Proposals \ {p} : SameRow(q) /\ incident'[q] = incident[q],
           RowGuard(p)', SenderGuard(s)'
    PROVE  OwnershipInv'
<1>1. pc'[s] = at /\ \A t \in Senders \ {s} : pc'[t] = pc[t] BY Moves
<1>2. \A q \in Proposals : RowGuard(q)' BY RowGuardStable DEF OwnershipInv
<1> QED BY <1>1, <1>2, OwnerFrame

\* The other doubts are those of before the step.
LEMMA SameOthers ==
    ASSUME NEW p \in Proposals, \A q \in Proposals \ {p} : SameRow(q)
    PROVE  OtherPending(p)' = OtherPending(p)
BY DEF OtherPending, PendingIntent, SameRow

\* A refusal before the POST: no row changes, the locks are still held.
LEMMA Concluded ==
    ASSUME CoreInv, OwnershipInv, NEW s \in Senders, NEW r, pc[s] \in Owning, Conclude(s, r),
           UNCHANGED <<rowVars, incident, position, brokerVars, work, norm, mon, op, cancelled, lockVars>>
    PROVE  OwnershipInv' /\ Promised
<1>1. pc'[s] = "done" /\ \A t \in Senders \ {s} : pc'[t] = pc[t] BY Moves DEF Conclude
<1>2. LocksHeld' BY <1>1, LocksStay DEF OwnershipInv, Owning, AfterClaim
<1> QED BY <1>1, <1>2, QuietOwnership DEF AfterClaim

\* A new intent row is prepared while no other row is in doubt.
LEMMA CreateOwned ==
    ASSUME CoreInv, OwnershipInv, NEW s \in Senders, NEW p \in Proposals, work[s] = p, Create(s)
    PROVE  OwnershipInv' /\ Promised
<1>1. RowInv(p) /\ RowGuard(p) /\ pc[s] \in Owning BY Inside DEF Create, Owning
<1>2. CASE ~(phase[p] = "none" /\ ~OtherPending(p))
    BY <1>1, <1>2, Concluded DEF Create
<1>3. CASE phase[p] = "none" /\ ~OtherPending(p)
    <2>1. /\ phase' = [phase EXCEPT ![p] = "prepared"] /\ ostate' = [ostate EXCEPT ![p] = "submitted"]
          /\ Goto(s, "created")
          /\ UNCHANGED <<dispatched, proof, bound, incident, position, brokerVars, work, norm, mon,
                         op, lockVars>>
        BY <1>3 DEF Create
    <2>2. phase'[p] = "prepared" /\ ostate'[p] = "submitted" /\ pc'[s] = "created"
        BY <2>1, RowTypes, Moves
    <2>3. \A q \in Proposals \ {p} : SameRow(q) /\ incident'[q] = incident[q]
        BY <2>1, RowTypes DEF SameRow
    <2>4. ~incident[p] BY <1>1, <1>3 DEF RowGuard, PendingIntent, Pending
    <2>5. RowGuard(p)' BY <2>1, <2>2, <2>4 DEF RowGuard, Abandoned
    <2>6. SenderGuard(s)' BY <1>3, <2>1, <2>2, <2>3, <2>4, SameOthers DEF SenderGuard, AfterClaim
    <2>7. OwnershipInv' BY <1>1, <2>1, <2>3, <2>5, <2>6, OwnRowFrame DEF Owning
    <2>8. ostate[p] \notin Final /\ phase[p] \notin Abandoned
        BY <1>1, <1>3 DEF RowInv, RowGuard, Final, Abandoned
    <2>9. Turns(p, "idle", "open")
        BY <1>3, <2>1, <2>2 DEF Turns, AbstractIntent, AbstractOrder, Pending
    <2>10. RowStep(p) BY <1>3, <2>1, <2>3, <2>8, <2>9 DEF RowStep, Kept, Row, EntryMoves
    <2> QED BY <2>7, <2>10 DEF Promised
<1> QED BY <1>2, <1>3

\* The claim dispatches a prepared row that is still the only pending one.
LEMMA ClaimOwned ==
    ASSUME CoreInv, OwnershipInv, NEW s \in Senders, NEW p \in Proposals, work[s] = p, Claim(s)
    PROVE  OwnershipInv' /\ Promised
<1>1. RowGuard(p) /\ SenderGuard(s) /\ pc[s] \in Owning /\ pc[s] = "created"
    BY Inside DEF Claim, Owning
<1>2. CASE ~(phase[p] = "prepared" /\ ~dispatched[p] /\ ~bound[p])
    BY <1>1, <1>2, Concluded DEF Claim
<1>3. CASE phase[p] = "prepared" /\ ~dispatched[p] /\ ~bound[p]
    <2>1. /\ phase' = [phase EXCEPT ![p] = "submitting"] /\ dispatched' = [dispatched EXCEPT ![p] = TRUE]
          /\ Goto(s, "claimed")
          /\ UNCHANGED <<proof, bound, ostate, incident, position, brokerVars, work, norm, mon, op,
                         lockVars>>
        BY <1>3 DEF Claim
    <2>2. phase'[p] = "submitting" /\ pc'[s] = "claimed" BY <2>1, RowTypes, Moves
    <2>3. \A q \in Proposals \ {p} : SameRow(q) /\ incident'[q] = incident[q]
        BY <2>1, RowTypes DEF SameRow
    <2>4. RowGuard(p)' BY <1>1, <2>1, <2>2 DEF RowGuard, Abandoned, PendingIntent, Pending
    <2>5. SenderGuard(s)' BY <1>1, <2>1, <2>2, <2>3, SameOthers DEF SenderGuard
    <2>6. OwnershipInv' BY <1>1, <2>1, <2>3, <2>4, <2>5, OwnRowFrame DEF Owning, AfterClaim
    <2>7. Kept(p) BY <1>3, <2>1 DEF Kept, Abandoned
    <2>8. PendingIntent(p) /\ PendingIntent(p)' BY <1>3, <2>2 DEF PendingIntent, Pending
    <2> QED BY <2>1, <2>3, <2>6, <2>7, <2>8, StillOpen
<1> QED BY <1>2, <1>3

\* The one step that hands an entry to the network does so alone in doubt.
LEMMA PostOwned ==
    ASSUME CoreInv, OwnershipInv, NEW s \in Senders, NEW p \in Proposals, work[s] = p, Post(s)
    PROVE  OwnershipInv' /\ Promised
<1>1. /\ RowInv(p) /\ SenderInv(s) /\ RowGuard(p) /\ SenderGuard(s)
      /\ pc[s] = "claimed" /\ pc[s] \in Owning /\ pc[s] \in AfterClaim
    BY Inside DEF Post, Owning, AfterClaim
<1>2. UNCHANGED <<rowVars, incident, position, broker, work, norm, mon, op, lockVars>> BY DEF Post
<1>3. posts[p] = 0 /\ ~incident[p] /\ ~OtherPending(p) /\ PendingIntent(p)
    BY <1>1 DEF SenderInv, SenderGuard, PendingIntent, Pending
<1>4. ~wire[p] /\ broker[p] = "none" BY <1>1, <1>3 DEF RowInv
<1>5. \A q \in Proposals \ {p} : SameRow(q) /\ incident'[q] = incident[q]
    BY <1>2, RowTypes DEF Post, SameRow
<1>6. CASE Goto(s, "waiting") /\ wire' = [wire EXCEPT ![p] = TRUE] /\ posts' = [posts EXCEPT ![p] = @ + 1]
    <2>1. pc'[s] = "waiting" /\ wire'[p] BY <1>6, RowTypes, Moves
    <2>2. RowGuard(p)' BY <1>1, <1>2, <1>3 DEF RowGuard, PendingIntent, Pending
    <2>3. SenderGuard(s)' BY <1>1, <1>2, <2>1 DEF SenderGuard
    <2>4. OwnershipInv' BY <1>1, <1>2, <1>5, <1>6, <2>2, <2>3, OwnRowFrame DEF Owning, AfterClaim
    <2>5. AbstractIntent(p) = "open" /\ AbstractIntent(p)' = AbstractIntent(p)
        BY <1>2, <1>3 DEF AbstractIntent, PendingIntent, Pending
    <2>6. AbstractOrder(p) = "none" /\ AbstractOrder(p)' = "flying"
        BY <1>2, <1>3, <1>4, <2>1 DEF AbstractOrder, Known
    <2>7. RowStep(p) BY <1>2, <1>3, <1>5, <2>5, <2>6 DEF RowStep, Kept, Row, EntryMoves, Travels
    <2> QED BY <2>4, <2>7 DEF Promised
<1>7. ASSUME NEW at \in {"unsafe", "notsent"}, Goto(s, at), UNCHANGED <<wire, posts>>
      PROVE  OwnershipInv' /\ Promised
    <2>1. pc'[s] = at BY <1>7, Moves
    <2>2. RowGuard(p)' BY <1>1, <1>2, <1>7 DEF RowGuard, PendingIntent
    <2>3. SenderGuard(s)' BY <1>1, <1>2, <1>3, <2>1 DEF SenderGuard
    <2>4. OwnershipInv' BY <1>1, <1>2, <1>5, <1>7, <2>2, <2>3, OwnRowFrame DEF Owning, AfterClaim
    <2>5. Promised BY <1>2, <1>7, SameRows DEF Promised
    <2> QED BY <2>4, <2>5
<1> QED BY <1>6, <1>7 DEF Post

\* A late reader cannot read less than the ledger already knows.
LEMMA ReadIsNotOlder ==
    ASSUME NEW p \in Proposals, RowInv(p), RowGuard(p), broker[p] = "working"
    PROVE  ostate[p] \notin Final
BY DEF RowInv, RowGuard, Final

\* An answer, from the POST or from a later lookup, changes only what the sender knows.
LEMMA AnswerOwned ==
    ASSUME CoreInv, OwnershipInv, NEW s \in Senders, NEW p \in Proposals, work[s] = p,
           Answer(s) \/ Lookup(s)
    PROVE  OwnershipInv' /\ Promised
<1>1. /\ RowInv(p) /\ RowGuard(p) /\ SenderGuard(s)
      /\ pc[s] \in {"waiting", "lookup"} /\ pc[s] \in Owning /\ pc[s] \in AfterClaim
    BY Inside DEF Answer, Lookup, Owning, AfterClaim
<1>2. UNCHANGED <<rowVars, incident, position, brokerVars, work, mon, op, lockVars>>
    BY DEF Answer, Lookup
<1>3. Promised /\ \A q \in Proposals : SameRow(q) /\ RowGuard(q)'
    BY <1>2, SameRows, RowGuardStable DEF Promised, OwnershipInv
<1>4. PICK at \in {"answered", "refused", "lost", "fail"} :
          Goto(s, at) /\ (at = "answered" => norm' = [norm EXCEPT ![s] = broker[p]])
    BY DEF Answer, Lookup
<1>5. pc'[s] = at /\ (at = "answered" => norm'[s] = broker[p]) BY <1>4, RowTypes, Moves
<1>6. SenderGuard(s)' BY <1>1, <1>2, <1>5, ReadIsNotOlder DEF SenderGuard
<1>7. at \in Owning BY DEF Owning, AfterClaim
<1> QED BY <1>1, <1>2, <1>3, <1>4, <1>6, <1>7, OwnRowFrame

\* A row that was never sent is closed as dead by the sender that holds it.
LEMMA SaveUnsafeOwned ==
    ASSUME CoreInv, OwnershipInv, NEW s \in Senders, NEW p \in Proposals, work[s] = p, SaveUnsafe(s)
    PROVE  OwnershipInv' /\ Promised
<1>1. /\ RowInv(p) /\ SenderInv(s) /\ RowGuard(p) /\ SenderGuard(s)
      /\ pc[s] = "unsafe" /\ pc[s] \in Owning /\ pc[s] \in AfterClaim
    BY Inside DEF SaveUnsafe, Owning, AfterClaim
<1>2. /\ phase' = [phase EXCEPT ![p] = "acknowledged"] /\ ostate' = [ostate EXCEPT ![p] = "dead"]
      /\ UNCHANGED <<dispatched, proof, bound, incident, position, brokerVars, work, norm, mon, op,
                     lockVars>>
    BY DEF SaveUnsafe
<1>3. phase'[p] = "acknowledged" /\ ostate'[p] = "dead" /\ pc'[s] = "done"
    BY <1>2, RowTypes, Moves DEF SaveUnsafe, Conclude
<1>4. posts[p] = 0 /\ ~wire[p] /\ broker[p] = "none" /\ ~incident[p]
    BY <1>1 DEF SenderInv, SenderGuard, RowInv
<1>5. \A q \in Proposals \ {p} : SameRow(q) /\ incident'[q] = incident[q]
    BY <1>2, RowTypes DEF SameRow
<1>6. RowGuard(p)' BY <1>2, <1>3, <1>4 DEF RowGuard, Abandoned
<1>7. SenderGuard(s)' BY <1>3 DEF SenderGuard, AfterClaim
<1>8. OwnershipInv' BY <1>1, <1>2, <1>5, <1>6, <1>7, OwnRowFrame DEF SaveUnsafe, Conclude
<1>9. Turns(p, "open", "void") /\ AbstractOrder(p) = "none"
    BY <1>1, <1>2, <1>3, <1>4 DEF SenderGuard, Turns, AbstractIntent, AbstractOrder, Pending, Known
<1>10. Kept(p) BY <1>1, <1>3, <1>4 DEF Kept, RowGuard, Final, SenderGuard, Abandoned
<1>11. RowStep(p) BY <1>2, <1>5, <1>9, <1>10 DEF RowStep, EntryMoves
<1> QED BY <1>8, <1>11 DEF Promised

\* So is a row whose refusal is proved.
LEMMA SaveProofOwned ==
    ASSUME CoreInv, OwnershipInv, NEW s \in Senders, NEW p \in Proposals, work[s] = p, SaveProof(s)
    PROVE  OwnershipInv' /\ Promised
<1>1. /\ RowGuard(p) /\ SenderGuard(s)
      /\ pc[s] \in {"notsent", "refused"} /\ pc[s] \in Owning /\ pc[s] \in AfterClaim
    BY Inside DEF SaveProof, Owning, AfterClaim
<1>2. CASE Rest(s) /\ FreeAll(s) /\ UNCHANGED <<phase, proof>>
    <2>1. UNCHANGED <<rowVars, position, brokerVars, incident, mon, op, cancelled>>
        BY <1>2 DEF SaveProof
    <2>2. pc'[s] = "idle" /\ \A t \in Senders \ {s} : pc'[t] = pc[t] BY <1>2, Moves DEF Rest
    <2>3. LocksHeld' BY <1>2, <2>1, <2>2, LocksFreed DEF OwnershipInv, Owning, AfterClaim
    <2>4. \A t \in Senders \ {s} : work'[t] = work[t] /\ norm'[t] = norm[t]
        BY <1>2 DEF Rest, CoreInv, TypeOK
    <2> QED BY <2>1, <2>2, <2>3, <2>4, QuietOwnership DEF AfterClaim
<1>3. CASE ~(Rest(s) /\ FreeAll(s) /\ UNCHANGED <<phase, proof>>)
    <2>1. /\ phase' = [phase EXCEPT ![p] = "unknown"]
          /\ \E new \in Proofs : proof' = [proof EXCEPT ![p] = new]
          /\ Goto(s, "alarm")
          /\ UNCHANGED <<dispatched, bound, ostate, incident, position, brokerVars, work, norm, mon,
                         op, lockVars>>
        BY <1>3 DEF SaveProof, Proofs
    <2>2. phase'[p] = "unknown" /\ pc'[s] = "alarm" BY <2>1, RowTypes, Moves
    <2>3. \A q \in Proposals \ {p} : SameRow(q) /\ incident'[q] = incident[q]
        BY <2>1, RowTypes DEF SameRow
    <2>4. RowGuard(p)' BY <1>1, <2>1, <2>2 DEF RowGuard, Abandoned, PendingIntent, Pending
    <2>5. SenderGuard(s)' BY <2>1, <2>2 DEF SenderGuard
    <2>6. OwnershipInv' BY <1>1, <2>1, <2>3, <2>4, <2>5, OwnRowFrame DEF Owning, AfterClaim
    <2>7. Kept(p) /\ PendingIntent(p) /\ PendingIntent(p)'
        BY <1>1, <2>1, <2>2 DEF Kept, SenderGuard, Abandoned, PendingIntent, Pending
    <2> QED BY <2>1, <2>3, <2>6, <2>7, StillOpen
<1> QED BY <1>2, <1>3

\* A sender inside never finds its row acknowledged by somebody else.
LEMMA SaveDoubtOwned ==
    ASSUME CoreInv, OwnershipInv, NEW s \in Senders, NEW p \in Proposals, work[s] = p,
           SaveDoubt(s) \/ SaveAlarm(s)
    PROVE  OwnershipInv' /\ Promised
<1>1. /\ RowGuard(p) /\ SenderGuard(s)
      /\ pc[s] \in {"lost", "fail", "lostAlarm", "alarm"} /\ pc[s] \in Owning /\ pc[s] \in AfterClaim
    BY Inside DEF SaveDoubt, SaveAlarm, Owning, AfterClaim
<1>2. phase[p] \in {"submitting", "unknown"} BY <1>1 DEF SenderGuard
<1>3. /\ phase' = phase \/ phase' = [phase EXCEPT ![p] = "unknown"]
      /\ incident' = incident \/ incident' = [incident EXCEPT ![p] = TRUE]
      /\ UNCHANGED <<dispatched, proof, bound, ostate, position, brokerVars, work, norm, mon, op,
                     lockVars>>
    BY DEF SaveDoubt, SaveAlarm, InDoubt, RaiseAlarm
<1>4. phase'[p] \in {"submitting", "unknown"} BY <1>2, <1>3, RowTypes
<1>5. PICK at \in {"lostAlarm", "alarm", "lookup", "done"} : Goto(s, at)
    BY DEF SaveDoubt, SaveAlarm, Conclude
<1>6. pc'[s] = at BY <1>5, Moves
<1>7. \A q \in Proposals \ {p} : SameRow(q) /\ incident'[q] = incident[q]
    BY <1>3, RowTypes DEF SameRow, CoreInv, TypeOK
<1>8. RowGuard(p)' BY <1>1, <1>3, <1>4 DEF RowGuard, Abandoned, PendingIntent, Pending
<1>9. SenderGuard(s)' BY <1>3, <1>4, <1>6 DEF SenderGuard, AfterClaim
<1>10. at \in Owning \cup {"done"} BY DEF Owning, AfterClaim
<1>11. OwnershipInv' BY <1>1, <1>3, <1>5, <1>7, <1>8, <1>9, <1>10, OwnRowFrame
<1>12. Kept(p) /\ PendingIntent(p) /\ PendingIntent(p)'
    BY <1>2, <1>3, <1>4 DEF Kept, Abandoned, PendingIntent, Pending
<1> QED BY <1>3, <1>7, <1>11, <1>12, StillOpen

\* What an answer makes of a row does not undo a final state of it, unless a cancel
\* wrote that one beside the reader; then the order is over and the row comes again.
LEMMA ObservedStays ==
    ASSUME CoreInv, NEW p \in Proposals, NEW n \in Known, Agrees(n, p), RowGuard(p),
           ObserveRow(p, n), n = "working" => ostate[p] \notin Final \/ cancelled[p],
           phase[p] \notin Abandoned, UNCHANGED <<phase, incident, brokerVars>>
    PROVE  Kept(p) /\ RowGuard(p)'
<1>1. ostate'[p] = StateOf(n) BY RowTypes DEF ObserveRow
<1>2. RowInv(p) BY DEF CoreInv
<1>3. broker[p] \in Known /\ (n # "working" => broker[p] = n) BY DEF Agrees, Known
<1>4. ostate[p] \in Final => broker[p] \in Terminal /\ ostate[p] = StateOf(broker[p])
    BY <1>2, <1>3 DEF RowInv, RowGuard, Final, Terminal, Known, StateOf
<1>5. CASE n # "working" BY <1>1, <1>3, <1>4, <1>5 DEF Kept, RowGuard, PendingIntent, StateOf, Known
<1>6. CASE n = "working"
    <2>1. ostate'[p] = "accepted" BY <1>1, <1>6 DEF StateOf
    <2> QED BY <1>4, <1>6, <2>1 DEF Kept, RowGuard, PendingIntent, Settled
<1> QED BY <1>5, <1>6

\* What the sender observed of its own order is not older than what a lock holder
\* wrote of it.
LEMMA ObserveOwned ==
    ASSUME CoreInv, OwnershipInv, NEW s \in Senders, NEW p \in Proposals, work[s] = p, Observe(s)
    PROVE  OwnershipInv' /\ Promised
<1>1. /\ SenderInv(s) /\ Agrees(norm[s], p) /\ RowGuard(p) /\ SenderGuard(s)
      /\ pc[s] = "answered" /\ pc[s] \in Owning /\ pc[s] \in AfterClaim
    BY Inside DEF Observe, Owning, AfterClaim
<1>2. UNCHANGED <<phase, dispatched, proof, incident, position, brokerVars, work, norm, mon, op, lockVars>>
    BY DEF Observe
<1>3. PICK n \in Known : n = norm[s] BY <1>1, RowTypes DEF SenderInv
<1>4. phase[p] \in {"submitting", "unknown"} BY <1>1 DEF SenderGuard
<1>5. CASE ObserveRow(p, n) /\ Goto(s, IF n \in WithFill THEN "observed" ELSE "finishing")
    <2>1. PICK at \in {"observed", "finishing"} : Goto(s, at) BY <1>5
    <2>2. pc'[s] = at BY <2>1, Moves
    <2>3. \A q \in Proposals \ {p} : SameRow(q) /\ incident'[q] = incident[q]
        BY <1>1, <1>2, <1>3, <1>4, <1>5, ObservedRow
    <2>4. Kept(p) /\ RowGuard(p)'
        BY <1>1, <1>2, <1>3, <1>4, <1>5, ObservedStays DEF SenderGuard, Abandoned
    <2>5. SenderGuard(s)' BY <1>1, <1>2, <1>3, <2>2 DEF SenderGuard, Known
    <2>6. at \in Owning BY DEF Owning, AfterClaim
    <2>7. OwnershipInv' BY <1>1, <1>2, <2>1, <2>3, <2>4, <2>5, <2>6, OwnRowFrame
    <2>8. PendingIntent(p) /\ PendingIntent(p)' BY <1>2, <1>4 DEF PendingIntent, Pending
    <2> QED BY <1>2, <2>3, <2>4, <2>7, <2>8, StillOpen
<1>6. CASE Goto(s, "fail") /\ UNCHANGED <<bound, ostate>>
    <2>1. pc'[s] = "fail" BY <1>6, Moves
    <2>2. Promised /\ \A q \in Proposals : SameRow(q) /\ RowGuard(q)'
        BY <1>2, <1>6, SameRows, RowGuardStable DEF Promised, OwnershipInv
    <2>3. SenderGuard(s)' BY <1>2, <1>4, <2>1 DEF SenderGuard
    <2> QED BY <1>1, <1>2, <1>6, <2>2, <2>3, OwnRowFrame DEF Owning, AfterClaim
<1> QED BY <1>3, <1>5, <1>6 DEF Observe

\* A filled entry opens its position and leaves the rest alone.
LEMMA OpenPositionOwned ==
    ASSUME CoreInv, OwnershipInv, NEW s \in Senders, NEW p \in Proposals, work[s] = p, OpenPosition(s)
    PROVE  OwnershipInv' /\ Promised
<1>1. /\ SenderInv(s) /\ RowGuard(p) /\ SenderGuard(s)
      /\ pc[s] = "observed" /\ pc[s] \in Owning /\ pc[s] \in AfterClaim
    BY Inside DEF OpenPosition, Owning, AfterClaim
<1>2. UNCHANGED <<rowVars, incident, brokerVars, work, norm, mon, op, lockVars>> BY DEF OpenPosition
<1>3. position' = position \/ position' = [position EXCEPT ![p] = TRUE] BY DEF OpenPosition
<1>4. PICK at \in {"finishing", "fail"} : Goto(s, at) BY DEF OpenPosition
<1>5. pc'[s] = at BY <1>4, Moves
<1>6. \A q \in Proposals \ {p} : SameRow(q) /\ incident'[q] = incident[q]
    BY <1>2, <1>3, RowTypes DEF SameRow
<1>7. RowGuard(p)' BY <1>1, <1>2 DEF RowGuard, PendingIntent
<1>8. SenderGuard(s)' BY <1>1, <1>2, <1>5 DEF SenderGuard, SenderInv
<1>9. at \in Owning BY DEF Owning, AfterClaim
<1>10. OwnershipInv' BY <1>1, <1>2, <1>4, <1>6, <1>7, <1>8, <1>9, OwnRowFrame
<1>11. Kept(p) /\ PendingIntent(p) /\ PendingIntent(p)'
    BY <1>1, <1>2 DEF Kept, SenderGuard, Abandoned, PendingIntent, Pending
<1> QED BY <1>2, <1>6, <1>10, <1>11, StillOpen

\* The sender acknowledges its row and clears the incident it may have raised.
LEMMA FinishOwned ==
    ASSUME CoreInv, OwnershipInv, NEW s \in Senders, NEW p \in Proposals, work[s] = p, Finish(s)
    PROVE  OwnershipInv' /\ Promised
<1>1. /\ Agrees(norm[s], p) /\ RowGuard(p) /\ SenderGuard(s)
      /\ pc[s] = "finishing" /\ pc[s] \in Owning /\ pc[s] \in AfterClaim
    BY Inside DEF Finish, Owning, AfterClaim
<1>2. UNCHANGED <<dispatched, proof, bound, ostate, position, brokerVars, work, norm, mon, op, lockVars>>
    BY DEF Finish
<1>3. broker[p] \in Known /\ phase[p] \in {"submitting", "unknown"}
    BY <1>1 DEF SenderGuard, Agrees
<1>4. ASSUME NEW r, Acknowledge(p), Conclude(s, r) PROVE OwnershipInv' /\ Promised
    <2>1. phase'[p] = "acknowledged" /\ ~incident'[p] /\ pc'[s] = "done"
        BY <1>4, RowTypes, Moves DEF Acknowledge, Conclude, CoreInv, TypeOK
    <2>2. \A q \in Proposals \ {p} : SameRow(q) /\ incident'[q] = incident[q]
        BY <1>2, <1>4, RowTypes DEF SameRow, Acknowledge, CoreInv, TypeOK
    <2>3. RowGuard(p)' BY <1>1, <1>2, <1>3, <2>1 DEF RowGuard, Abandoned
    <2>4. SenderGuard(s)' BY <2>1 DEF SenderGuard, AfterClaim
    <2>5. OwnershipInv' BY <1>1, <1>2, <1>4, <2>2, <2>3, <2>4, OwnRowFrame DEF Conclude
    <2>6. Turns(p, "open", "placed") /\ AbstractOrder(p) = "live"
        BY <1>2, <1>3, <2>1 DEF Turns, AbstractIntent, AbstractOrder, Pending
    <2>7. Kept(p) BY <1>2, <1>3 DEF Kept, Abandoned
    <2>8. RowStep(p) BY <1>2, <2>2, <2>6, <2>7 DEF RowStep, EntryMoves
    <2> QED BY <2>5, <2>8 DEF Promised
<1>5. CASE Goto(s, "fail") /\ UNCHANGED <<phase, incident>>
    <2>1. pc'[s] = "fail" BY <1>5, Moves
    <2>2. Promised /\ \A q \in Proposals : SameRow(q) /\ RowGuard(q)'
        BY <1>2, <1>5, SameRows, RowGuardStable DEF Promised, OwnershipInv
    <2>3. SenderGuard(s)' BY <1>2, <1>3, <1>5, <2>1 DEF SenderGuard
    <2> QED BY <1>1, <1>2, <1>5, <2>2, <2>3, OwnRowFrame DEF Owning, AfterClaim
<1> QED BY <1>4, <1>5 DEF Finish

----------------------------------------------------------------------------
(* Decisions, the broker, the monitor and the operator.                     *)

\* Approvals, refusals and crashes outside the locks change nothing owned.
LEMMA DecisionOwned ==
    ASSUME OwnershipInv, cancelled' = cancelled,
           UNCHANGED <<rowVars, incident, position, brokerVars, senderVars, mon, op, lockVars>>
    PROVE  OwnershipInv' /\ Promised
<1>1. Promised /\ \A q \in Proposals : SameRow(q) BY SameRows DEF Promised
<1>2. \A q \in Proposals : RowGuard(q)' BY <1>1, RowGuardStable DEF OwnershipInv
<1>3. \A s \in Senders : SenderGuard(s)'
    BY DEF OwnershipInv, SenderGuard, OtherPending, PendingIntent
<1>4. MonitorGuard' /\ LocksHeld' BY DEF OwnershipInv, MonitorGuard, LocksHeld, PendingIntent
<1> QED BY <1>1, <1>2, <1>3, <1>4 DEF OwnershipInv

\* The network and the market only move an order onwards.
LEMMA BrokerOwned ==
    ASSUME CoreInv, OwnershipInv, NEW p \in Proposals, Deliver(p) \/ Trade(p)
    PROVE  OwnershipInv' /\ Promised
<1>1. RowInv(p) /\ RowGuard(p) BY DEF CoreInv, OwnershipInv
<1>2. UNCHANGED <<ledgerVars, posts, senderVars, mon, op, cancelled, lockVars>> BY DEF Deliver, Trade
<1>3. \A q \in Proposals \ {p} : SameRow(q) BY <1>2, RowTypes DEF Deliver, Trade, SameRow
<1>4. \/ ~wire'[p] /\ wire[p] /\ broker[p] = "none" /\ broker'[p] \in {"none", "working", "refused"}
      \/ wire'[p] = wire[p] /\ broker[p] = "working" /\ broker'[p] \in Terminal
    BY <1>1, RowTypes DEF Deliver, Trade, RowInv
<1>5. posts[p] > 0 /\ posts[p] # 0 BY <1>1, <1>4 DEF RowInv
<1>6. /\ phase[p] = "acknowledged" => broker[p] \in Known
      /\ phase[p] \notin Abandoned
    BY <1>1, <1>4, <1>5 DEF RowInv, RowGuard, Known
<1>7. RowGuard(p)' BY <1>1, <1>2, <1>4, <1>6 DEF RowGuard, PendingIntent, Terminal, Known
<1>8. \A q \in Proposals : RowGuard(q)' BY <1>2, <1>3, <1>7, RowGuardStable DEF OwnershipInv
<1>9. \A s \in Senders : SenderGuard(s)'
    BY <1>2 DEF OwnershipInv, SenderGuard, OtherPending, PendingIntent
<1>10. MonitorGuard' /\ LocksHeld' BY <1>2 DEF OwnershipInv, MonitorGuard, LocksHeld, PendingIntent
<1>11. AbstractIntent(p)' = AbstractIntent(p) BY <1>2, <1>4, <1>6 DEF AbstractIntent, Known
<1>12. \/ AbstractOrder(p)' = AbstractOrder(p)
       \/ AbstractOrder(p) = "flying" /\ AbstractOrder(p)' \in {"live", "gone"}
    BY <1>2, <1>4, <1>5 DEF AbstractOrder, Terminal, Known
<1>13. RowStep(p) BY <1>2, <1>3, <1>6, <1>11, <1>12 DEF RowStep, Kept, Row, EntryMoves, Travels
<1> QED BY <1>8, <1>9, <1>10, <1>13 DEF OwnershipInv, Promised

\* The monitor at work as the two invariants describe it.
LEMMA Visiting ==
    ASSUME CoreInv, OwnershipInv, mon.pc # "idle"
    PROVE  /\ mon.p \in Proposals /\ mon \in Visits /\ MonitorGuard
           /\ RowInv(mon.p) /\ RowGuard(mon.p) /\ Agrees(mon.norm, mon.p)
           /\ phase[mon.p] \notin Abandoned /\ phase[mon.p] # "none"
           /\ \A t \in Senders : pc[t] \notin Owning
BY ReconcilerAlone DEF CoreInv, OwnershipInv, TypeOK, MonitorInv, MonitorGuard

\* Where the monitor's visit goes on, it keeps its lock.
LEMMA MonitorStays ==
    ASSUME LocksHeld, mon.pc # "idle", UNCHANGED <<lockVars, pc, op>>
    PROVE  LocksHeld'
BY DEF LocksHeld

\* The start and the end of a visit, the alarm, the read and the 'filled' status.
LEMMA VisitOwned ==
    ASSUME CoreInv, OwnershipInv, Ownership, NEW p \in Proposals, Visit(p)
    PROVE  OwnershipInv' /\ Promised
<1>1. monLock = Nobody /\ monLock' = Monitor /\ entryLock' = entryLock
    BY DEF Visit, Free, Held
<1>2. UNCHANGED <<rowVars, incident, position, brokerVars, pc, op>> BY DEF Visit
<1>3. LocksHeld' BY <1>1, <1>2, ActorsAssumption DEF OwnershipInv, LocksHeld
<1>4. Promised /\ \A q \in Proposals : SameRow(q) /\ RowGuard(q)'
    BY <1>2, SameRows, RowGuardStable DEF Promised, OwnershipInv
<1>5. \A t \in Senders : pc[t] \notin Owning BY <1>1, ActorsAssumption DEF OwnershipInv, LocksHeld
<1>6. phase[p] \notin Abandoned
    <2>1. RowGuard(p) /\ RowInv(p) BY DEF OwnershipInv, CoreInv
    <2> QED
        BY <2>1
           DEF Visit, Settled, RowGuard, RowInv, WithFill, Known, PendingIntent, Pending, Abandoned
<1>7. MonitorGuard' BY <1>2, <1>6 DEF Visit, MonitorGuard
<1> QED BY <1>2, <1>3, <1>4, <1>5, <1>7, OutsideFrame

\* The monitor reads a row that no sender is working on.
LEMMA MonReadOwned ==
    ASSUME CoreInv, OwnershipInv, MonRead \/ MonFilled
    PROVE  OwnershipInv' /\ Promised
<1>1. mon.pc \in {"read", "opened"} BY DEF MonRead, MonFilled
<1>2. UNCHANGED <<rowVars, incident, position, brokerVars, pc, op, lockVars>> BY DEF MonRead, MonFilled
<1>3. LocksHeld' BY <1>1, <1>2, MonitorStays DEF OwnershipInv
<1>4. Promised /\ \A q \in Proposals : SameRow(q) /\ RowGuard(q)'
    BY <1>2, SameRows, RowGuardStable DEF Promised, OwnershipInv
<1>5. MonitorGuard'
    <2>1. CASE MonRead /\ ~MonGoto("fail")
        <3>1. mon' = [mon EXCEPT !.pc = "answered", !.norm = broker[mon.p]] BY <2>1 DEF MonRead
        <3>2. mon'.pc = "answered" /\ mon'.p = mon.p /\ mon'.norm = broker[mon.p]
            BY <1>1, <3>1, Visiting DEF Visits
        <3> QED BY <1>1, <1>2, <3>2, Visiting, ReadIsNotOlder DEF MonitorGuard
    <2>2. CASE MonGoto("fail")
        <3>1. mon'.pc = "fail" /\ mon'.p = mon.p BY <1>1, <2>2, Visiting, MonMoves
        <3> QED BY <1>1, <1>2, <3>1, Visiting DEF MonitorGuard
    <2>3. CASE MonFilled
        <3>1. mon'.pc = "finishing" /\ mon'.p = mon.p /\ mon'.norm = mon.norm /\ mon.pc = "opened"
            BY <1>1, <2>3, Visiting, MonMoves DEF MonFilled
        <3> QED BY <1>1, <1>2, <3>1, Visiting DEF MonitorGuard
    <2> QED BY <2>1, <2>2, <2>3
<1> QED BY <1>1, <1>2, <1>3, <1>4, <1>5, Visiting, OutsideFrame

\* What the monitor observed is not older than what a lock holder wrote.
LEMMA MonObserveOwned ==
    ASSUME CoreInv, OwnershipInv, MonObserve
    PROVE  OwnershipInv' /\ Promised
<1>1. mon.pc = "answered" /\ mon.pc # "idle" BY DEF MonObserve
<1>2. PICK p \in Proposals : mon.p = p BY <1>1, Visiting
<1>3. PICK n \in Known : mon.norm = n
    BY <1>1, Visiting DEF CoreInv, MonitorInv, Visits
<1>4. UNCHANGED <<phase, dispatched, proof, incident, position, brokerVars, pc, op, lockVars>>
    BY DEF MonObserve
<1>5. LocksHeld' BY <1>1, <1>4, MonitorStays DEF OwnershipInv
<1>6. CASE MonGoto("fail") /\ UNCHANGED <<bound, ostate>>
    <2>1. mon'.pc = "fail" /\ mon'.p = p BY <1>1, <1>2, <1>6, Visiting, MonMoves
    <2>2. Promised /\ \A q \in Proposals : SameRow(q) /\ RowGuard(q)'
        BY <1>4, <1>6, SameRows, RowGuardStable DEF Promised, OwnershipInv
    <2>3. MonitorGuard' BY <1>1, <1>2, <1>4, <2>1, Visiting DEF MonitorGuard
    <2> QED BY <1>1, <1>4, <1>5, <2>2, <2>3, Visiting, OutsideFrame
<1>7. CASE ObserveRow(p, n) /\ MonGoto(IF n \in WithFill THEN "observed" ELSE "finishing")
    <2>1. /\ mon'.pc = IF n \in WithFill THEN "observed" ELSE "finishing"
          /\ mon'.p = p /\ mon'.norm = n
        BY <1>1, <1>2, <1>3, <1>7, Visiting, MonMoves
    <2>2. n = "working" => ostate[p] \notin Final \/ cancelled[p]
        BY <1>1, <1>2, <1>3, Visiting DEF MonitorGuard
    <2>3. Kept(p) /\ RowGuard(p)' BY <1>1, <1>2, <1>3, <1>4, <1>7, <2>2, Visiting, ObservedStays
    <2>4. \A q \in Proposals \ {p} : SameRow(q)
        BY <1>1, <1>2, <1>3, <1>4, <1>7, Visiting, ObservedRow
    <2>5. \A q \in Proposals : RowGuard(q)' BY <1>4, <2>3, <2>4, RowGuardStable DEF OwnershipInv
    <2>6. MonitorGuard' BY <1>1, <1>2, <1>3, <1>4, <2>1, Visiting DEF MonitorGuard, Known
    <2>7. OwnershipInv' BY <1>1, <1>4, <1>5, <2>5, <2>6, Visiting, OutsideFrame
    <2>8. AbstractIntent(p)' = AbstractIntent(p) /\ AbstractOrder(p)' = AbstractOrder(p)
        BY <1>4 DEF AbstractIntent, AbstractOrder
    <2>9. RowStep(p) BY <1>4, <2>3, <2>4, <2>8 DEF RowStep, EntryMoves
    <2> QED BY <2>7, <2>9 DEF Promised
<1> QED BY <1>2, <1>3, <1>6, <1>7 DEF MonObserve

\* The monitor opens the position of an entry it found filled.
LEMMA MonOpenPositionOwned ==
    ASSUME CoreInv, OwnershipInv, MonOpenPosition
    PROVE  OwnershipInv' /\ Promised
<1>1. mon.pc = "observed" /\ mon.pc # "idle" BY DEF MonOpenPosition
<1>2. PICK p \in Proposals : mon.p = p BY <1>1, Visiting
<1>3. UNCHANGED <<rowVars, incident, brokerVars, pc, op, lockVars>> BY DEF MonOpenPosition
<1>4. LocksHeld' BY <1>1, <1>3, MonitorStays DEF OwnershipInv
<1>5. PICK at \in {"opened", "failForce"} : MonGoto(at) BY DEF MonOpenPosition
<1>6. mon'.pc = at /\ mon'.p = p /\ mon'.norm = mon.norm BY <1>1, <1>2, <1>5, Visiting, MonMoves
<1>7. \A q \in Proposals \ {p} : SameRow(q)
    BY <1>2, <1>3, RowTypes DEF MonOpenPosition, SameRow
<1>8. \A q \in Proposals : RowGuard(q)' BY <1>3 DEF OwnershipInv, RowGuard, PendingIntent
<1>9. MonitorGuard' BY <1>1, <1>2, <1>3, <1>6, Visiting DEF MonitorGuard, CoreInv, MonitorInv
<1>10. OwnershipInv' BY <1>1, <1>3, <1>4, <1>8, <1>9, Visiting, OutsideFrame
<1>11. AbstractIntent(p)' = AbstractIntent(p) /\ AbstractOrder(p)' = AbstractOrder(p)
    BY <1>3 DEF AbstractIntent, AbstractOrder
<1>12. RowStep(p) BY <1>3, <1>7, <1>11 DEF RowStep, Kept, Row, EntryMoves
<1> QED BY <1>10, <1>12 DEF Promised

\* The monitor acknowledges a row whose order the broker knows.
LEMMA MonFinishOwned ==
    ASSUME CoreInv, OwnershipInv, MonFinish
    PROVE  OwnershipInv' /\ Promised
<1>1. mon.pc = "finishing" /\ mon.pc # "idle" BY DEF MonFinish
<1>2. PICK p \in Proposals : mon.p = p BY <1>1, Visiting
<1>3. UNCHANGED <<dispatched, proof, bound, ostate, position, brokerVars, pc, op>> BY DEF MonFinish
<1>4. broker[p] \in Known BY <1>1, <1>2, Visiting DEF MonitorGuard, Agrees
<1>5. CASE UNCHANGED <<phase, incident>>
    <2>1. Promised /\ \A q \in Proposals : SameRow(q) /\ RowGuard(q)'
        BY <1>3, <1>5, SameRows, RowGuardStable DEF Promised, OwnershipInv
    <2>2. CASE mon' = NoVisit /\ FreeAll(Monitor)
        <3>1. LocksHeld' BY <1>1, <1>3, <2>2, MonitorFreed DEF OwnershipInv
        <3>2. MonitorGuard' BY <2>2 DEF MonitorGuard, NoVisit
        <3> QED BY <1>1, <1>3, <2>1, <3>1, <3>2, Visiting, OutsideFrame
    <2>3. CASE MonGoto("fail") /\ UNCHANGED lockVars
        <3>1. LocksHeld' BY <1>1, <1>3, <2>3, MonitorStays DEF OwnershipInv
        <3>2. mon'.pc = "fail" /\ mon'.p = p BY <1>1, <1>2, <2>3, Visiting, MonMoves
        <3>3. MonitorGuard' BY <1>1, <1>2, <1>5, <3>2, Visiting DEF MonitorGuard
        <3> QED BY <1>1, <1>3, <2>1, <3>1, <3>3, Visiting, OutsideFrame
    <2>4. CASE Acknowledge(p) /\ mon' = NoVisit /\ FreeAll(Monitor) BY <2>2, <2>4
    <2> QED BY <1>2, <2>2, <2>3, <2>4 DEF MonFinish
<1>6. CASE ~UNCHANGED <<phase, incident>>
    <2>1. Acknowledge(p) /\ mon' = NoVisit /\ FreeAll(Monitor) BY <1>2, <1>6 DEF MonFinish
    <2>2. phase'[p] = "acknowledged" /\ ~incident'[p]
        BY <2>1, RowTypes DEF Acknowledge, CoreInv, TypeOK
    <2>3. \A q \in Proposals \ {p} : SameRow(q) /\ incident'[q] = incident[q]
        BY <1>3, <2>1, RowTypes DEF SameRow, Acknowledge, CoreInv, TypeOK
    <2>4. RowGuard(p)' BY <1>1, <1>2, <1>3, <1>4, <2>2, Visiting DEF RowGuard, Abandoned
    <2>5. \A q \in Proposals : RowGuard(q)' BY <2>3, <2>4, RowGuardStable DEF OwnershipInv
    <2>6. LocksHeld' BY <1>1, <1>3, <2>1, MonitorFreed DEF OwnershipInv
    <2>7. MonitorGuard' BY <2>1 DEF MonitorGuard, NoVisit
    <2>8. OwnershipInv' BY <1>1, <1>3, <2>5, <2>6, <2>7, Visiting, OutsideFrame
    <2>9. AbstractIntent(p) \in {"open", "placed"}
        BY <1>1, <1>2, <1>4, Visiting DEF AbstractIntent, CoreInv, TypeOK, Phases
    <2>10. AbstractIntent(p)' = "placed" /\ AbstractOrder(p) = "live" /\ AbstractOrder(p)' = "live"
        BY <1>3, <1>4, <2>2 DEF AbstractIntent, AbstractOrder, Pending
    <2>11. Kept(p) BY <1>1, <1>2, <1>3, Visiting DEF Kept
    <2>12. RowStep(p) BY <1>3, <2>3, <2>9, <2>10, <2>11 DEF RowStep, EntryMoves, Turns
    <2> QED BY <2>8, <2>12 DEF Promised
<1> QED BY <1>5, <1>6

\* A row taken back into doubt was placed before: the broker has its order.
LEMMA MonDoubtOwned ==
    ASSUME CoreInv, OwnershipInv, MonDoubt
    PROVE  OwnershipInv' /\ Promised
<1>1. mon.pc \in {"fail", "failForce"} /\ mon.pc # "idle" BY DEF MonDoubt
<1>2. PICK p \in Proposals : mon.p = p BY <1>1, Visiting
<1>3. UNCHANGED <<dispatched, proof, bound, ostate, incident, position, brokerVars, pc, op>>
    BY DEF MonDoubt
<1>4. phase[p] \in Pending \cup {"acknowledged"}
    BY <1>1, <1>2, Visiting DEF CoreInv, TypeOK, Phases
<1>5. mon.pc = "failForce" => broker[p] \in Known
    BY <1>1, <1>2, Visiting DEF MonitorGuard, Agrees
<1>6. CASE phase[p] = "acknowledged" /\ mon.pc # "failForce"
    <2>1. phase' = phase /\ mon' = NoVisit /\ FreeAll(Monitor)
        BY <1>2, <1>6 DEF MonDoubt, InDoubt
    <2>2. Promised /\ \A q \in Proposals : SameRow(q) /\ RowGuard(q)'
        BY <1>3, <2>1, SameRows, RowGuardStable DEF Promised, OwnershipInv
    <2>3. LocksHeld' BY <1>1, <1>3, <2>1, MonitorFreed DEF OwnershipInv
    <2>4. MonitorGuard' BY <2>1 DEF MonitorGuard, NoVisit
    <2> QED BY <1>1, <1>3, <2>2, <2>3, <2>4, Visiting, OutsideFrame
<1>7. CASE ~(phase[p] = "acknowledged" /\ mon.pc # "failForce")
    <2>1. MonGoto("alarm") /\ UNCHANGED lockVars BY <1>2, <1>7 DEF MonDoubt
    <2>2. phase' = phase \/ phase' = [phase EXCEPT ![p] = "unknown"] BY <1>2 DEF MonDoubt, InDoubt
    <2>3. phase'[p] \in Pending /\ (phase[p] = "prepared" => phase'[p] = "prepared")
        BY <1>1, <1>2, <1>4, <1>7, RowTypes DEF MonDoubt, InDoubt, Pending
    <2>4. \A q \in Proposals \ {p} : SameRow(q) BY <1>3, <2>2, RowTypes DEF SameRow
    <2>5. RowGuard(p)'
        BY <1>1, <1>2, <1>3, <2>3, Visiting DEF RowGuard, PendingIntent, Abandoned, Pending
    <2>6. \A q \in Proposals : RowGuard(q)' BY <1>3, <2>4, <2>5, RowGuardStable DEF OwnershipInv
    <2>7. LocksHeld' BY <1>1, <1>3, <2>1, MonitorStays DEF OwnershipInv
    <2>8. mon'.pc = "alarm" /\ mon'.p = p BY <1>1, <1>2, <2>1, Visiting, MonMoves
    <2>9. MonitorGuard' BY <2>3, <2>8 DEF MonitorGuard, PendingIntent, Pending, Abandoned
    <2>10. OwnershipInv' BY <1>1, <1>3, <2>6, <2>7, <2>9, Visiting, OutsideFrame
    <2>11. AbstractIntent(p) \in {"open", "placed"} /\ AbstractIntent(p)' = "open"
        BY <1>3, <1>4, <1>5, <1>7, <2>3 DEF AbstractIntent, Pending
    <2>12. AbstractOrder(p)' = AbstractOrder(p) BY <1>3 DEF AbstractOrder
    <2>13. Kept(p) BY <1>3, <1>4 DEF Kept, Abandoned, Pending
    <2>14. RowStep(p) BY <1>3, <2>4, <2>11, <2>12, <2>13 DEF RowStep, EntryMoves, Turns
    <2> QED BY <2>10, <2>14 DEF Promised
<1> QED BY <1>6, <1>7

\* The monitor raises an incident only for a row that is pending.
LEMMA MonAlarmOwned ==
    ASSUME CoreInv, OwnershipInv, MonAlarm \/ CrashMonitor
    PROVE  OwnershipInv' /\ Promised
<1>1. mon.pc # "idle" /\ mon' = NoVisit /\ FreeAll(Monitor) BY DEF MonAlarm, CrashMonitor
<1>2. UNCHANGED <<rowVars, position, brokerVars, pc, op>> BY DEF MonAlarm, CrashMonitor
<1>3. LocksHeld' BY <1>1, <1>2, MonitorFreed DEF OwnershipInv
<1>4. \A q \in Proposals : incident'[q] => incident[q] \/ PendingIntent(q)
    BY <1>1, Visiting
       DEF MonAlarm, CrashMonitor, RaiseAlarm, MonitorGuard, CoreInv, TypeOK
<1>5. Promised BY <1>2, SameRows DEF Promised
<1>6. \A q \in Proposals : RowGuard(q)' BY <1>2, <1>4 DEF OwnershipInv, RowGuard, PendingIntent
<1>7. MonitorGuard' BY <1>1 DEF MonitorGuard, NoVisit
<1> QED BY <1>1, <1>2, <1>3, <1>5, <1>6, <1>7, Visiting, OutsideFrame

\* The operator takes both locks, reads, and refuses or abandons.
LEMMA OperatorQuietOwned ==
    ASSUME CoreInv, OwnershipInv, Ownership,
           OpRead \/ (op.pc # "idle" /\ OpRefuse) \/ \E p \in Proposals : OpStart(p)
    PROVE  OwnershipInv' /\ Promised
<1>1. UNCHANGED <<rowVars, incident, position, brokerVars, pc, mon, cancelled>>
    BY DEF OpRead, OpRefuse, OpStart
<1>2. Promised /\ \A q \in Proposals : SameRow(q) /\ RowGuard(q)'
    BY <1>1, SameRows, RowGuardStable DEF Promised, OwnershipInv
<1>3. MonitorGuard' BY <1>1 DEF OwnershipInv, MonitorGuard, PendingIntent
<1>4. ASSUME NEW p \in Proposals, OpStart(p)
      PROVE  LocksHeld' /\ \A t \in Senders : pc[t] \notin Owning
    <2>1. entryLock = Nobody /\ monLock = Nobody /\ entryLock' = Operator /\ monLock' = Operator
        BY <1>4 DEF OpStart, Free, Held
    <2> QED BY <1>1, <2>1, ActorsAssumption DEF OwnershipInv, LocksHeld
<1>5. ASSUME op.pc # "idle", OpRefuse
      PROVE  LocksHeld' /\ \A t \in Senders : pc[t] \notin Owning
    <2>1. op'.pc = "idle" BY <1>5 DEF OpRefuse, NoResolution
    <2> QED BY <1>1, <1>5, <2>1, ActorsAssumption DEF OpRefuse, FreeAll, OwnershipInv, LocksHeld
<1>6. ASSUME OpRead, ~OpRefuse
      PROVE  LocksHeld' /\ \A t \in Senders : pc[t] \notin Owning
    <2>1. op.pc # "idle" /\ UNCHANGED lockVars BY <1>6 DEF OpRead
    <2> QED BY <1>1, <2>1, ActorsAssumption DEF OwnershipInv, LocksHeld
<1>7. LocksHeld' /\ \A t \in Senders : pc[t] \notin Owning BY <1>4, <1>5, <1>6 DEF OpRead
<1> QED BY <1>1, <1>2, <1>3, <1>7, OutsideFrame

\* The operator settles a row whose dispatch can never reach the broker.
LEMMA OpApplyOwned ==
    ASSUME CoreInv, OwnershipInv, Ownership, OpApply
    PROVE  OwnershipInv' /\ Promised
<1>1. op.pc = "apply" /\ op.pc # "idle" BY DEF OpApply
<1>2. CASE OpRefuse BY <1>1, <1>2, OperatorQuietOwned
<1>3. CASE ~OpRefuse
    <2>1. PICK p \in Proposals : op.p = p BY <1>1 DEF CoreInv
    <2>2. Releasable(p) BY <1>3, <2>1 DEF OpApply
    <2>3. /\ \E ph \in Abandoned : phase' = [phase EXCEPT ![p] = ph]
          /\ ostate' = [ostate EXCEPT ![p] = "dead"]
          /\ incident' = [incident EXCEPT ![p] = FALSE]
          /\ op' = NoResolution /\ FreeAll(Operator)
          /\ UNCHANGED <<dispatched, proof, bound, position, brokerVars, pc, mon>>
        BY <1>3, <2>1 DEF OpApply, Abandoned
    <2>4. phase'[p] \in Abandoned /\ ostate'[p] = "dead" /\ ~incident'[p]
        BY <2>3, RowTypes DEF CoreInv, TypeOK
    <2>5. \A q \in Proposals \ {p} : SameRow(q) /\ incident'[q] = incident[q]
        BY <2>3, RowTypes DEF SameRow, CoreInv, TypeOK
    <2>6. RowInv(p) /\ RowGuard(p) BY DEF CoreInv, OwnershipInv
    <2>7. broker[p] \notin Known /\ ~wire[p]
        BY <2>2, <2>6 DEF Releasable, RowInv, Known
    <2>8. phase[p] \in Pending BY <2>2 DEF Releasable, Pending
    <2>9. RowGuard(p)' BY <2>3, <2>4, <2>7 DEF RowGuard, Abandoned
    <2>10. \A q \in Proposals : RowGuard(q)' BY <2>5, <2>9, RowGuardStable DEF OwnershipInv
    <2>11. mon.pc = "idle" /\ \A t \in Senders : pc[t] \notin Owning
        BY <1>1, ReconcilerAlone DEF OwnershipInv
    <2>12. LocksHeld' BY <1>1, <2>3, <2>11, ActorsAssumption DEF OwnershipInv, LocksHeld, FreeAll, NoResolution
    <2>13. MonitorGuard' BY <2>3, <2>11 DEF MonitorGuard
    <2>14. OwnershipInv' BY <2>3, <2>10, <2>11, <2>12, <2>13, OutsideFrame
    <2>15. Turns(p, "open", "void")
        BY <2>3, <2>4, <2>7, <2>8 DEF Turns, AbstractIntent, AbstractOrder, Pending, Abandoned
    <2>16. AbstractOrder(p) \in {"none", "gone"} BY <2>7 DEF AbstractOrder
    <2>17. Kept(p) BY <2>4, <2>6, <2>7, <2>8 DEF Kept, Final, RowGuard, Known, Pending, Abandoned
    <2>18. RowStep(p) BY <2>3, <2>5, <2>15, <2>16, <2>17 DEF RowStep, EntryMoves
    <2> QED BY <2>14, <2>18 DEF Promised
<1> QED BY <1>2, <1>3

\* A cancel holds no lock: it writes the state of a row whose order is over, and
\* its position, beside whoever holds them.
LEMMA CancelOwned ==
    ASSUME EntryInv, OwnershipInv, CancelStep \/ \E p \in Proposals : CancelRead(p)
    PROVE  OwnershipInv' /\ Promised
<1>1. UNCHANGED <<phase, dispatched, proof, bound, incident, brokerVars, senderVars, mon, op, lockVars>>
    BY DEF CancelStep, CancelRead, CancelOpen, CancelWrite, CancelGivesUp
<1>2. CASE CancelGivesUp \/ \E p \in Proposals : CancelRead(p)
    BY <1>1, <1>2, DecisionOwned DEF CancelGivesUp, CancelRead
<1>3. CASE CancelOpen \/ CancelWrite
    <2>1. cancel.pc # "idle" BY <1>3 DEF CancelOpen, CancelWrite
    <2>2. PICK p \in Proposals : cancel.p = p BY <2>1 DEF EntryInv, CancelInv
    <2>3. RowInv(p) /\ RowGuard(p) /\ cancel.norm = broker[p] /\ broker[p] \in Terminal /\ CoreInv
        BY <2>1, <2>2, Cancelling DEF OwnershipInv, EntryInv
    <2>4. \A q \in Proposals \ {p} : SameRow(q)
        BY <1>1, <1>3, <2>2, <2>3, RowTypes DEF CancelOpen, CancelWrite, SameRow
    <2>5. /\ ostate' = ostate \/ ostate' = [ostate EXCEPT ![p] = StateOf(broker[p])]
          /\ cancelled' = cancelled \/ cancelled' = [cancelled EXCEPT ![p] = TRUE]
          /\ ostate' = ostate \/ cancelled' = [cancelled EXCEPT ![p] = TRUE]
        BY <1>3, <2>2, <2>3 DEF CancelOpen, CancelWrite
    <2>6. ostate'[p] \in {ostate[p], StateOf(broker[p])} BY <2>3, <2>5, RowTypes
    <2>7. ostate[p] \in Final => ostate[p] = StateOf(broker[p])
        BY <2>3 DEF RowInv, RowGuard, Final, Terminal, Known, StateOf
    <2>8. phase[p] \notin Abandoned BY <2>3 DEF RowGuard, Terminal
    <2>9. Kept(p) BY <2>6, <2>7, <2>8 DEF Kept
    <2>10. RowGuard(p)'
        BY <1>1, <2>3, <2>6, <2>8 DEF RowGuard, PendingIntent, StateOf, Terminal, Known
    <2>11. \A q \in Proposals : RowGuard(q)' BY <1>1, <2>4, <2>10, RowGuardStable DEF OwnershipInv
    <2>12. \A q \in Proposals :
               ostate[q] \notin Final \/ cancelled[q] => ostate'[q] \notin Final \/ cancelled'[q]
        BY <2>3, <2>4, <2>5 DEF SameRow, CoreInv, TypeOK
    <2>13. ASSUME NEW t \in Senders PROVE SenderGuard(t)'
        <3>1. SenderGuard(t) /\ (pc[t] = "answered" => work[t] \in Proposals)
            BY <2>3, AtWork DEF OwnershipInv
        <3> QED BY <1>1, <2>12, <3>1 DEF SenderGuard, OtherPending, PendingIntent
    <2>14. MonitorGuard' /\ LocksHeld'
        <3>1. mon.pc # "idle" => mon.p \in Proposals BY <2>3 DEF CoreInv, MonitorInv
        <3> QED BY <1>1, <2>12, <3>1 DEF OwnershipInv, MonitorGuard, LocksHeld, PendingIntent
    <2>15. AbstractIntent(p)' = AbstractIntent(p) /\ AbstractOrder(p)' = AbstractOrder(p)
        BY <1>1 DEF AbstractIntent, AbstractOrder
    <2>16. RowStep(p) BY <1>1, <2>4, <2>9, <2>15 DEF RowStep, EntryMoves
    <2> QED BY <2>11, <2>13, <2>14, <2>16 DEF OwnershipInv, Promised
<1> QED BY <1>2, <1>3 DEF CancelStep

----------------------------------------------------------------------------
(* The theorems about owned entries.                                        *)

\* Before anybody has moved no lock is held and nothing is in doubt.
LEMMA InitOwned == Init => OwnershipInv
<1> SUFFICES ASSUME Init PROVE OwnershipInv OBVIOUS
<1>1. LocksHeld BY DEF Init, LocksHeld, Owning, AfterClaim, NoVisit, NoResolution
<1>2. \A p \in Proposals : RowGuard(p) BY DEF Init, RowGuard, Abandoned
<1>3. \A s \in Senders : SenderGuard(s) BY DEF Init, SenderGuard, AfterClaim
<1>4. MonitorGuard BY DEF Init, MonitorGuard, NoVisit
<1> QED BY <1>1, <1>2, <1>3, <1>4 DEF OwnershipInv

\* Every step keeps the ownership invariant and does to the rows what the promise
\* allows, whoever takes it.
LEMMA StepOwned ==
    ASSUME EntryInv, OwnershipInv, Ownership, [Next]_vars
    PROVE  OwnershipInv' /\ Promised
<1> USE DEF EntryInv
<1>1. CASE UNCHANGED vars BY <1>1, DecisionOwned DEF vars
<1>2. ASSUME NEW s \in Senders, SenderStep(s) PROVE OwnershipInv' /\ Promised
    <2>1. pc[s] # "idle"
        BY <1>2 DEF SenderStep, Recheck, TakeEntryLock, TakeMonitorLock, Assess, Check, Consent,
            Preflight, Create, Claim, Post, Answer, SaveUnsafe, SaveProof, SaveDoubt, SaveAlarm,
            Lookup, Observe, OpenPosition, Finish, Release, RecordStatus
    <2>2. PICK p \in Proposals : work[s] = p BY <2>1, AtWork
    <2> QED
        BY <1>2, <2>2, QuietOwned, CreateOwned, ClaimOwned, PostOwned, AnswerOwned, SaveUnsafeOwned,
           SaveProofOwned, SaveDoubtOwned, ObserveOwned, OpenPositionOwned, FinishOwned
           DEF SenderStep
<1>3. ASSUME NEW s \in Senders, CrashSender(s) \/ \E p \in Proposals : Approve(s, p)
      PROVE  OwnershipInv' /\ Promised
    BY <1>3, QuietOwned
<1>4. ASSUME NEW p \in Proposals, Reject(p) \/ Supersede(p) PROVE OwnershipInv' /\ Promised
    BY <1>4, DecisionOwned DEF Reject, Supersede
<1>5. CASE MonitorStep \/ CrashMonitor
    BY <1>5, MonReadOwned, MonObserveOwned, MonOpenPositionOwned, MonFinishOwned, MonDoubtOwned,
       MonAlarmOwned DEF MonitorStep
<1>6. CASE OpRead \/ OpApply BY <1>6, OperatorQuietOwned, OpApplyOwned
<1>7. CASE CancelStep \/ \E p \in Proposals : CancelRead(p) BY <1>7, CancelOwned
<1>8. ASSUME NEW p \in Proposals, Deliver(p) \/ Trade(p) \/ Visit(p) \/ OpStart(p)
      PROVE  OwnershipInv' /\ Promised
    BY <1>8, BrokerOwned, VisitOwned, OperatorQuietOwned
<1> QED BY <1>1, <1>2, <1>3, <1>4, <1>5, <1>6, <1>7, <1>8 DEF Next

\* With the locks in force, whoever is between taking and leaving them is alone with
\* them: he finds the phase and the doubt of his row as he left them, and its state
\* too, unless an operator's cancel, which takes no lock, has written it.
THEOREM OwnershipInvariant == ASSUME Ownership PROVE Spec => []OwnershipInv
<1>1. EntryInv /\ OwnershipInv /\ [Next]_vars => OwnershipInv' BY StepOwned
<1> QED BY <1>1, InitOwned, EntryInvariant, PTL DEF Spec

\* An entry incident, which blocks every new entry, never outlives the doubt that
\* raised it.
THEOREM Alarms == ASSUME Ownership PROVE Spec => []AlarmsAreInDoubt
<1>1. OwnershipInv => AlarmsAreInDoubt BY DEF OwnershipInv, RowGuard, AlarmsAreInDoubt
<1> QED BY <1>1, OwnershipInvariant, PTL

\* No entry is handed to the network while another one is in doubt.
THEOREM GateBeforePost == ASSUME Ownership PROVE Spec => NoEntryBesideDoubt
<1>1. EntryInv /\ OwnershipInv /\ [Next]_vars =>
          [\A p \in Proposals :
              posts'[p] > posts[p] => \A q \in Proposals \ {p} : phase[q] \notin Pending]_vars
    <2> SUFFICES ASSUME EntryInv, OwnershipInv, [Next]_vars, NEW p \in Proposals, posts'[p] > posts[p],
                        NEW q \in Proposals \ {p}
                 PROVE  phase[q] \notin Pending
        OBVIOUS
    <2>1. posts'[p] # posts[p] BY RowTypes DEF EntryInv
    <2>2. ~OtherPending(p) BY <2>1, StepOwned, PromisedActions
    <2> QED BY <2>2 DEF OtherPending, PendingIntent
<1> QED BY <1>1, OwnershipInvariant, EntryInvariant, PTL DEF Spec, NoEntryBesideDoubt

\* Nothing touches an abandoned row again, and a final state that a lock holder has
\* written is not undone; one that an operator's cancel wrote may be taken back to
\* "accepted" by a slower reader, of an order that is over, on a row visited again.
THEOREM SettledStays == ASSUME Ownership PROVE Spec => SettledRowsStay
<1>1. EntryInv /\ OwnershipInv /\ [Next]_vars =>
          [\A p \in Proposals :
              /\ phase[p] \in Abandoned => Row(p)' = Row(p)
              /\ ostate[p] \in {"filled", "dead"} /\ ostate'[p] # ostate[p] =>
                  /\ cancelled[p]
                  /\ ostate'[p] = "accepted" /\ broker[p] \in Terminal /\ ~Settled(p)']_vars
    BY StepOwned, PromisedActions DEF Kept, Final
<1> QED BY <1>1, OwnershipInvariant, EntryInvariant, PTL DEF Spec, SettledRowsStay

\* The entry path keeps the promise of AtMostOnceEntry: an entry is opened and sent
\* alone, at most once, and decided only by what the broker has or can never have.
THEOREM Implementation == ASSUME Ownership PROVE Spec => ImplementsAtMostOnceEntry
<1>1. Init => Entry!Init
    <2> SUFFICES ASSUME Init PROVE Entry!Init OBVIOUS
    <2>1. \A p \in Proposals : AbstractIntent(p) = "idle" BY DEF Init, AbstractIntent, Pending
    <2>2. \A p \in Proposals : AbstractOrder(p) = "none" BY DEF Init, AbstractOrder, Known
    <2> QED BY <2>1, <2>2 DEF Entry!Init
<1>2. EntryInv /\ OwnershipInv /\ [Next]_vars => [Entry!Next]_(Entry!vars)
    BY StepOwned, PromisedImplements
<1> QED
    BY <1>1, <1>2, OwnershipInvariant, EntryInvariant, PTL
       DEF Spec, ImplementsAtMostOnceEntry, Entry!Spec

=============================================================================
