----------------------- MODULE ProposalApprovalProofs -----------------------
(***************************************************************************)
(* The limits of ProposalApproval for any number of proposals, symbols,    *)
(* scans and operators, and for any daily caps.                            *)
(***************************************************************************)
EXTENDS ProposalApproval, FiniteSetTheorems, TLAPS

\* Every step is one of a process, or the passing of time.
Act(a) ==
    \/ Step(a)
    \/ a \in Scans /\ (StartScan(a) \/ EndScan(a) \/ Handle(a))
    \/ a \in Operators /\ (Approve(a) \/ \E p \in Proposals : ReadRow(a, p) \/ Reject(a, p))

LEMMA StepsOfActors ==
    ASSUME Next
    PROVE  (\E a \in Actors : Act(a)) \/ \E p \in Proposals : Lapse(p)
BY DEF Next, Act, Actors

-----------------------------------------------------------------------------
(* Types *)

\* The part of the type that concerns the proposals' rows ...
RowTypes ==
    /\ status \in [Proposals -> Statuses]
    /\ risky \in [Proposals -> BOOLEAN] /\ lapsed \in [Proposals -> BOOLEAN]
    /\ ordered \in [Proposals -> BOOLEAN]
    /\ receipts \subseteq Proposals \X Labels /\ torn \subseteq Symbols

\* ... and the one that concerns the processes.
ActorTypes ==
    /\ pc \in [Actors -> Pcs] /\ prop \in [Actors -> Proposals \cup {Nobody}]
    /\ \A a \in Actors : (prop[a] = Nobody) = (pc[a] \in {"idle", "scanning"})
    /\ \A a \in Actors : (pc[a] \in OwnerPcs) = (owner = a)

LEMMA InvParts == ApprovalInv <=> RowTypes /\ ActorTypes /\ window \in [Scans -> BOOLEAN]
BY DEF ApprovalInv, RowTypes, ActorTypes

\* A step of one process leaves the others, and what they own, alone.
Alone(a) ==
    /\ \A b \in Actors \ {a} : pc'[b] = pc[b] /\ prop'[b] = prop[b]
    /\ \A s \in Scans \ {a} : window'[s] = window[s]

LEMMA ActorsStep ==
    ASSUME ApprovalInv, NEW a \in Actors, Act(a)
    PROVE  ActorTypes' /\ Alone(a)
<1>0. ActorTypes /\ window \in [Scans -> BOOLEAN] /\ Nobody \notin Actors /\ Nobody \notin Proposals
  BY InvParts, ApprovalAssumption
<1>1. CASE \E p \in Proposals : Insert(a, p)
  BY <1>0, <1>1 DEF ActorTypes, Alone, Insert, Goto, Resting, Pcs, OwnerPcs, SetStatus
<1>2. CASE Supersede(a)
  BY <1>0, <1>2 DEF ActorTypes, Alone, Supersede, Goto, Rest, Resting, Pcs, OwnerPcs
<1>3. CASE Own(a)
  BY <1>0, <1>3 DEF ActorTypes, Alone, Own, Goto, Rest, Resting, Pcs, OwnerPcs, rows
<1>4. CASE Check(a) \/ Grant(a)
  BY <1>0, <1>4 DEF ActorTypes, Alone, Check, Grant, Goto, Rest, Resting, FreeIf, Pcs, OwnerPcs, rows
<1>5. CASE Receipt(a) \/ MarkApproved(a) \/ Send(a)
  BY <1>0, <1>5 DEF ActorTypes, Alone, Receipt, MarkApproved, Send, Goto, FreeIf, Pcs, OwnerPcs
<1>6. CASE RecordOrder(a) \/ RecordBlock(a)
  BY <1>0, <1>6 DEF ActorTypes, Alone, RecordOrder, RecordBlock, Goto, Rest, Resting, Pcs, OwnerPcs
<1>7. CASE Crash(a)
  <2>1. \A s \in Scans \ {a} : window'[s] = window[s]
    BY <1>0, <1>7, Zenon DEF Crash
  <2>2. ActorTypes' /\ \A b \in Actors \ {a} : pc'[b] = pc[b] /\ prop'[b] = prop[b]
    BY <1>0, <1>7 DEF ActorTypes, Crash, Goto, FreeIf, Pcs, OwnerPcs
  <2> QED
    BY <2>1, <2>2 DEF Alone
<1>8. CASE a \in Scans /\ (StartScan(a) \/ EndScan(a))
  BY <1>0, <1>8 DEF ActorTypes, Alone, StartScan, EndScan, Goto, Pcs, OwnerPcs
<1>9. CASE a \in Scans /\ Handle(a)
  BY <1>0, <1>9 DEF ActorTypes, Alone, Handle, Goto, Rest, Resting, Pcs, OwnerPcs
<1>10. CASE a \in Operators /\ (Approve(a) \/ \E p \in Proposals : ReadRow(a, p) \/ Reject(a, p))
  BY <1>0, <1>10 DEF ActorTypes, Alone, Approve, ReadRow, Reject, Goto, Rest, Resting, Pcs, OwnerPcs, rows
<1> QED
  BY <1>1, <1>2, <1>3, <1>4, <1>5, <1>6, <1>7, <1>8, <1>9, <1>10 DEF Act, Step

\* A process that works has a proposal.
LEMMA Working ==
    ASSUME ActorTypes, NEW a \in Actors, pc[a] \notin {"idle", "scanning"}
    PROVE  prop[a] \in Proposals
BY DEF ActorTypes

LEMMA RowsStep ==
    ASSUME ApprovalInv, NEW a \in Actors, Act(a)
    PROVE  RowTypes'
<1>0. RowTypes /\ ActorTypes /\ (pc[a] \notin {"idle", "scanning"} => prop[a] \in Proposals)
  BY InvParts, Working
<1> USE DEF RowTypes, SetStatus, Statuses
<1>1. CASE \E p \in Proposals : Insert(a, p)
  BY <1>0, <1>1 DEF Insert
<1>2. CASE Supersede(a)
  BY <1>0, <1>2 DEF Supersede
<1>3. CASE Own(a) \/ Check(a) \/ Grant(a)
  BY <1>0, <1>3 DEF Own, Check, Grant, rows
<1>4. CASE Receipt(a)
  <2>1. <<prop[a], IF a \in Scans THEN LabelOf(a) ELSE "MANUAL_APPROVED">> \in Proposals \X Labels
    BY <1>0, <1>4 DEF Receipt, LabelOf, Labels
  <2> QED
    BY <1>0, <1>4, <2>1 DEF Receipt
<1>5. CASE MarkApproved(a) \/ Send(a)
  BY <1>0, <1>5 DEF MarkApproved, Send
<1>6. CASE RecordOrder(a) \/ RecordBlock(a)
  BY <1>0, <1>6 DEF RecordOrder, RecordBlock
<1>7. CASE Crash(a)
  BY <1>0, <1>7 DEF Crash, Symbols, rows
<1>8. CASE a \in Scans /\ (StartScan(a) \/ EndScan(a) \/ Handle(a))
  BY <1>0, <1>8 DEF StartScan, EndScan, Handle, rows
<1>9. CASE a \in Operators /\ (Approve(a) \/ \E p \in Proposals : ReadRow(a, p) \/ Reject(a, p))
  BY <1>0, <1>9 DEF Approve, ReadRow, Reject, rows, Labels
<1> QED
  BY <1>1, <1>2, <1>3, <1>4, <1>5, <1>6, <1>7, <1>8, <1>9 DEF Act, Step

LEMMA WindowStep ==
    ASSUME ApprovalInv, NEW a \in Actors, Act(a)
    PROVE  window' \in [Scans -> BOOLEAN]
<1>0. window \in [Scans -> BOOLEAN]
  BY InvParts
<1>1. CASE Crash(a)
  BY <1>0, <1>1 DEF Crash
<1>2. CASE a \in Scans /\ (StartScan(a) \/ EndScan(a))
  BY <1>0, <1>2 DEF StartScan, EndScan
<1>3. CASE ~Crash(a) /\ ~(a \in Scans /\ (StartScan(a) \/ EndScan(a)))
  <2>1. window' = window
    BY <1>3 DEF Act, Step, Insert, Supersede, Own, Check, Grant, Receipt, MarkApproved, Send,
                RecordOrder, RecordBlock, Handle, Approve, ReadRow, Reject
  <2> QED
    BY <1>0, <2>1
<1> QED
  BY <1>1, <1>2, <1>3

LEMMA TypesKept ==
    ASSUME ApprovalInv, [Next]_vars
    PROVE  ApprovalInv'
<1>1. CASE \E a \in Actors : Act(a)
  BY <1>1, ActorsStep, RowsStep, WindowStep, InvParts DEF ApprovalInv, RowTypes, ActorTypes
<1>2. CASE \E p \in Proposals : Lapse(p)
  BY <1>2 DEF ApprovalInv, Lapse
<1>3. CASE UNCHANGED vars
  BY <1>3 DEF ApprovalInv, vars, rows
<1> QED
  BY <1>1, <1>2, <1>3, StepsOfActors
-----------------------------------------------------------------------------
(* One open proposal per symbol *)

\* What a step does to the open rows, outside the creation of a proposal.
LEMMA NothingOpens ==
    ASSUME ApprovalInv, NEW a \in Actors, Act(a),
           ~\E p \in Proposals : Insert(a, p)
    PROVE  \A p \in Proposals : Open(p)' => Open(p)
<1>0. RowTypes
  BY InvParts
<1> USE DEF Open, SetStatus, RowTypes
<1>1. CASE Supersede(a)
  BY <1>0, <1>1 DEF Supersede
<1>2. CASE Own(a) \/ Check(a) \/ Grant(a) \/ Receipt(a) \/ Send(a) \/ Crash(a)
  BY <1>2 DEF Own, Check, Grant, Receipt, Send, Crash, rows
<1>3. CASE MarkApproved(a) \/ RecordOrder(a)
  BY <1>0, <1>3 DEF MarkApproved, RecordOrder
<1>4. CASE RecordBlock(a)
  BY <1>0, <1>4 DEF RecordBlock
<1>5. CASE a \in Scans /\ (StartScan(a) \/ EndScan(a) \/ Handle(a))
  BY <1>0, <1>5 DEF StartScan, EndScan, Handle, rows
<1>6. CASE a \in Operators /\ (Approve(a) \/ \E p \in Proposals : ReadRow(a, p) \/ Reject(a, p))
  BY <1>0, <1>6 DEF Approve, ReadRow, Reject, rows
<1> QED
  BY <1>1, <1>2, <1>3, <1>4, <1>5, <1>6 DEF Act, Step

LEMMA OneOpenKept ==
    ASSUME ApprovalInv, OneOpenPerSymbol, NEW a \in Actors, Act(a)
    PROVE  OneOpenPerSymbol'
<1>0. RowTypes /\ ActorTypes /\ Alone(a)
  BY InvParts, ActorsStep
<1> SUFFICES ASSUME NEW p \in Proposals, NEW q \in Siblings(p), Open(p)', Open(q)'
             PROVE  SymbolOf[p] \in torn' \/ \E b \in Actors : pc'[b] = "inserted" /\ prop'[b] \in {p, q}
  BY DEF OneOpenPerSymbol, Siblings
<1>q. q \in Proposals /\ q # p /\ SymbolOf[q] = SymbolOf[p]
  BY DEF Siblings
<1>1. CASE \E r \in Proposals : Insert(a, r)
  <2>1. PICK r \in Proposals : Insert(a, r)
    BY <1>1
  <2>2. torn' = torn /\ pc[a] # "inserted"
    BY <2>1 DEF Insert, Resting
  <2>3. CASE r \in {p, q}
    <3>1. pc'[a] = "inserted" /\ prop'[a] = r
      BY <1>0, <1>q, <2>1, <2>3 DEF Insert, Open, SetStatus, Goto, RowTypes, ActorTypes
    <3> QED
      BY <3>1, <2>3
  <2>4. CASE r \notin {p, q}
    <3>1. Open(p) /\ Open(q)
      BY <1>0, <1>q, <2>1, <2>4 DEF Insert, Open, SetStatus, RowTypes
    <3> QED
      BY <1>0, <2>2, <3>1 DEF OneOpenPerSymbol, Alone
  <2> QED
    BY <2>3, <2>4
<1>2. CASE Supersede(a)
  <2>0. prop[a] \in Proposals
    BY <1>0, <1>2, Working DEF Supersede
  <2>1. Open(p) /\ Open(q) /\ p \notin Superseded(prop[a]) /\ q \notin Superseded(prop[a])
    BY <1>0, <1>2, <1>q DEF Supersede, Open, RowTypes
  <2>2. SymbolOf[p] # SymbolOf[prop[a]]
    BY <2>0, <2>1, <1>q DEF Superseded, Siblings
  <2>3. SymbolOf[p] \in torn \/ \E b \in Actors : pc[b] = "inserted" /\ prop[b] \in {p, q}
    BY <2>1 DEF OneOpenPerSymbol
  <2>4. ASSUME NEW b \in Actors, pc[b] = "inserted", prop[b] \in {p, q}
        PROVE  pc'[b] = "inserted" /\ prop'[b] = prop[b]
    BY <1>0, <2>2, <2>4, <1>q DEF Alone
  <2> QED
    BY <1>2, <2>2, <2>3, <2>4 DEF Supersede
<1>3. CASE Crash(a)
  <2>1. Open(p) /\ Open(q)
    BY <1>3, <1>q DEF Crash, rows, Open
  <2>2. SymbolOf[p] \in torn \/ \E b \in Actors : pc[b] = "inserted" /\ prop[b] \in {p, q}
    BY <2>1 DEF OneOpenPerSymbol
  <2> QED
    BY <1>0, <1>3, <1>q, <2>2 DEF Crash, Alone
<1>4. CASE ~(\E r \in Proposals : Insert(a, r)) /\ ~Supersede(a) /\ ~Crash(a)
  <2>1. Open(p) /\ Open(q)
    BY <1>4, <1>q, NothingOpens
  <2>2. torn' = torn /\ pc[a] # "inserted"
    BY <1>4 DEF Act, Step, Own, Check, Grant, Receipt, MarkApproved, Send, RecordOrder, RecordBlock,
                StartScan, EndScan, Handle, Approve, ReadRow, Reject
  <2> QED
    BY <1>0, <2>1, <2>2 DEF OneOpenPerSymbol, Alone
<1> QED
  BY <1>1, <1>2, <1>3, <1>4

-----------------------------------------------------------------------------
(* The caps *)

\* What a scan has counted still holds when it writes its receipt.
Granted == \A s \in Scans : pc[s] = "granted" => WithinCaps(s)

LEMMA ReceiptsAreFinite ==
    ASSUME receipts \subseteq Proposals \X Labels
    PROVE  IsFiniteSet(Automatic) /\ IsFiniteSet(Unattended)
<1>1. IsFiniteSet(Labels)
  <2>1. IsFiniteSet({"AUTO_APPROVED"})
    BY FS_Singleton
  <2>2. IsFiniteSet({"AUTO_APPROVED"} \cup {"UNATTENDED_APPROVED"})
    BY <2>1, FS_AddElement
  <2>3. IsFiniteSet({"AUTO_APPROVED"} \cup {"UNATTENDED_APPROVED"} \cup {"MANUAL_APPROVED"})
    BY <2>2, FS_AddElement
  <2>4. IsFiniteSet({"AUTO_APPROVED"} \cup {"UNATTENDED_APPROVED"} \cup {"MANUAL_APPROVED"} \cup {"REJECTED"})
    BY <2>3, FS_AddElement
  <2>5. Labels = {"AUTO_APPROVED"} \cup {"UNATTENDED_APPROVED"} \cup {"MANUAL_APPROVED"} \cup {"REJECTED"}
    BY DEF Labels
  <2> QED
    BY <2>4, <2>5
<1>2. IsFiniteSet(Proposals \X Labels)
  BY <1>1, FS_Product, ApprovalAssumption
<1>3. Automatic \in SUBSET (Proposals \X Labels) /\ Unattended \in SUBSET (Proposals \X Labels)
  BY DEF Automatic, Unattended
<1> QED
  BY <1>2, <1>3, FS_Subset

\* No step but a scan's receipt adds to what the caps count.
LEMMA OnlyScansCount ==
    ASSUME NEW a \in Actors, Act(a), ~(a \in Scans /\ Receipt(a))
    PROVE  Automatic' = Automatic /\ Unattended' = Unattended
<1>1. CASE Receipt(a)
  <2>1. receipts' = receipts \cup {<<prop[a], "MANUAL_APPROVED">>}
    BY <1>1 DEF Receipt
  <2> QED
    BY <2>1 DEF Automatic, Unattended
<1>2. CASE \E p \in Proposals : Reject(a, p)
  BY <1>2 DEF Reject, Automatic, Unattended
<1>3. CASE ~Receipt(a) /\ ~\E p \in Proposals : Reject(a, p)
  <2>1. receipts' = receipts
    BY <1>3 DEF Act, Step, Insert, Supersede, Own, Check, Grant, MarkApproved, Send, RecordOrder,
                RecordBlock, Crash, StartScan, EndScan, Handle, Approve, ReadRow, rows
  <2> QED
    BY <2>1 DEF Automatic, Unattended
<1> QED
  BY <1>1, <1>2, <1>3

LEMMA CapsKept ==
    ASSUME ApprovalInv, CapsHold, Granted, NEW a \in Actors, Act(a)
    PROVE  CapsHold' /\ Granted'
<1>0. ActorTypes /\ Alone(a) /\ receipts \subseteq Proposals \X Labels /\ ActorTypes'
  BY InvParts, ActorsStep DEF RowTypes
<1>1. CASE a \in Scans /\ Receipt(a)
  <2>1. WithinCaps(a)
    BY <1>1 DEF Granted, Receipt
  <2> DEFINE r == <<prop[a], LabelOf(a)>>
  <2>2. receipts' = receipts \cup {r} /\ r[2] = LabelOf(a) /\ window' = window
    BY <1>1 DEF Receipt
  <2> HIDE DEF r
  <2>3. Automatic' = Automatic \cup {r}
    BY <2>2 DEF Automatic, LabelOf
  <2>4. Unattended' = IF window[a] THEN Unattended \cup {r} ELSE Unattended
    BY <2>2 DEF Unattended, LabelOf
  <2>5. IsFiniteSet(Automatic) /\ IsFiniteSet(Unattended)
    BY <1>0, ReceiptsAreFinite
  <2>6. Cardinality(Automatic) \in Nat /\ Cardinality(Unattended) \in Nat
    BY <2>5, FS_CardinalityType
  <2>7. Cardinality(Automatic \cup {r}) \in {Cardinality(Automatic), Cardinality(Automatic) + 1}
    BY <2>5, FS_AddElement
  <2>8. Cardinality(Unattended \cup {r}) \in {Cardinality(Unattended), Cardinality(Unattended) + 1}
    BY <2>5, FS_AddElement
  <2>9. CapsHold'
    BY <2>1, <2>3, <2>4, <2>6, <2>7, <2>8, ApprovalAssumption DEF CapsHold, WithinCaps
  <2>10. \A s \in Scans : pc'[s] # "granted"
    BY <1>0, <1>1 DEF Receipt, ActorTypes, OwnerPcs, Goto, Actors
  <2> QED
    BY <2>9, <2>10 DEF Granted
<1>2. CASE ~(a \in Scans /\ Receipt(a))
  <2>1. Automatic' = Automatic /\ Unattended' = Unattended
    BY <1>2, OnlyScansCount
  <2>2. CapsHold'
    BY <2>1 DEF CapsHold
  <2>3. ASSUME NEW s \in Scans, pc'[s] = "granted"
        PROVE  WithinCaps(s)'
    <3>1. CASE s # a
      <4>1. pc[s] = "granted" /\ window'[s] = window[s]
        BY <1>0, <2>3, <3>1 DEF Alone, Actors
      <4> QED
        BY <2>1, <4>1 DEF Granted, WithinCaps
    <3>2. CASE s = a /\ Grant(a)
      <4>1. WithinCaps(a) /\ window' = window
        BY <1>0, <2>3, <3>2 DEF Grant, Rest, Resting, Goto, ActorTypes, Pcs
      <4> QED
        BY <2>1, <3>2, <4>1 DEF WithinCaps
    <3>3. CASE s = a /\ ~Grant(a)
      <4>1. pc'[a] # "granted"
        BY <1>0, <3>3 DEF Act, Step, Insert, Supersede, Own, Check, Receipt, MarkApproved, Send,
             RecordOrder, RecordBlock, Crash, StartScan, EndScan, Handle, Approve, ReadRow, Reject,
             Rest, Resting, Goto, ActorTypes
      <4> QED
        BY <2>3, <3>3, <4>1
    <3> QED
      BY <3>1, <3>2, <3>3
  <2> QED
    BY <2>2, <2>3 DEF Granted
<1> QED
  BY <1>1, <1>2

-----------------------------------------------------------------------------
(* Consent *)

Allowed == {p \in Proposals :
    \/ <<p, "MANUAL_APPROVED">> \in receipts
    \/ ~risky[p] /\ \E r \in Automatic : r[1] = p}

\* Only rows that exist are worked on or ordered; a scan goes on to execute only
\* what is not high-risk; and who is about to send has the receipt.
Consented ==
    /\ \A a \in Actors : prop[a] # Nobody => status[prop[a]] # "none"
    /\ \A p \in Proposals : ordered[p] => status[p] # "none"
    /\ \A s \in Scans : pc[s] \in {"ready"} \cup OwnerPcs => ~risky[prop[s]]
    /\ \A a \in Actors : pc[a] \in {"consented", "sending"} => prop[a] \in Allowed

IInv == ApprovalInv /\ OneOpenPerSymbol /\ CapsHold /\ Granted /\ ConsentedOnly /\ Consented

\* Rows stay, and what existed keeps its classification.
LEMMA RowsStay ==
    ASSUME ApprovalInv, NEW a \in Actors, Act(a), NEW p \in Proposals, status[p] # "none"
    PROVE  status'[p] # "none" /\ risky'[p] = risky[p] /\ receipts \subseteq receipts'
<1>0. RowTypes
  BY InvParts
<1> USE DEF RowTypes, SetStatus
<1>1. CASE \E q \in Proposals : Insert(a, q)
  BY <1>0, <1>1 DEF Insert
<1>2. CASE Supersede(a)
  BY <1>0, <1>2 DEF Supersede
<1>3. CASE Own(a) \/ Check(a) \/ Grant(a) \/ Receipt(a) \/ Send(a) \/ Crash(a)
  BY <1>3 DEF Own, Check, Grant, Receipt, Send, Crash, rows
<1>4. CASE MarkApproved(a) \/ RecordOrder(a) \/ RecordBlock(a)
  BY <1>0, <1>4 DEF MarkApproved, RecordOrder, RecordBlock
<1>5. CASE a \in Scans /\ (StartScan(a) \/ EndScan(a) \/ Handle(a))
  BY <1>0, <1>5 DEF StartScan, EndScan, Handle, rows
<1>6. CASE a \in Operators /\ (Approve(a) \/ \E q \in Proposals : ReadRow(a, q) \/ Reject(a, q))
  BY <1>0, <1>6 DEF Approve, ReadRow, Reject, rows
<1> QED
  BY <1>1, <1>2, <1>3, <1>4, <1>5, <1>6 DEF Act, Step

\* So what was allowed stays allowed.
LEMMA AllowedStays ==
    ASSUME ApprovalInv, NEW a \in Actors, Act(a), NEW p \in Proposals, status[p] # "none",
           p \in Allowed
    PROVE  p \in Allowed'
<1>1. risky'[p] = risky[p] /\ receipts \subseteq receipts'
  BY RowsStay
<1> QED
  BY <1>1 DEF Allowed, Automatic

\* What a process comes to work on, and what it comes to order.
LEMMA NewWork ==
    ASSUME ApprovalInv, Consented, NEW a \in Actors, Act(a), prop'[a] # Nobody
    PROVE  status'[prop'[a]] # "none"
<1>0. RowTypes /\ ActorTypes
  BY InvParts
<1>1. CASE prop'[a] = prop[a]
  BY <1>0, <1>1, RowsStay DEF Consented, ActorTypes
<1>2. CASE prop'[a] # prop[a]
  <2>1. (\E p \in Proposals : Insert(a, p)) \/ (a \in Operators /\ \E p \in Proposals : ReadRow(a, p))
    BY <1>0, <1>2 DEF Act, Step, Supersede, Own, Check, Grant, Receipt, MarkApproved, Send, RecordOrder,
         RecordBlock, Crash, StartScan, EndScan, Handle, Approve, Reject, Rest, ActorTypes
  <2>2. CASE \E p \in Proposals : Insert(a, p)
    BY <1>0, <1>2, <2>2 DEF Insert, SetStatus, RowTypes, ActorTypes
  <2>3. CASE a \in Operators /\ \E p \in Proposals : ReadRow(a, p)
    BY <1>0, <1>2, <2>3 DEF ReadRow, Open, rows, ActorTypes
  <2> QED
    BY <2>1, <2>2, <2>3
<1> QED
  BY <1>1, <1>2

LEMMA ScansAreCareful ==
    ASSUME ApprovalInv, Consented, NEW a \in Scans, Act(a), pc'[a] \in {"ready"} \cup OwnerPcs
    PROVE  ~risky'[prop'[a]]
<1>0. RowTypes /\ ActorTypes /\ a \in Actors /\ a \notin Operators
  BY InvParts, ApprovalAssumption DEF Actors
<1>1. CASE pc[a] \in {"ready"} \cup OwnerPcs
  <2>1. prop[a] \in Proposals /\ status[prop[a]] # "none" /\ ~risky[prop[a]]
    BY <1>0, <1>1, Working DEF Consented, OwnerPcs, ActorTypes
  <2>2. prop'[a] = prop[a]
    BY <1>0, <1>1 DEF Act, Step, Insert, Supersede, Own, Check, Grant, Receipt, MarkApproved, Send,
         RecordOrder, RecordBlock, Crash, StartScan, EndScan, Handle, Rest, Resting, Goto,
         ActorTypes, OwnerPcs
  <2> QED
    BY <1>0, <2>1, <2>2, RowsStay
<1>2. CASE pc[a] \notin {"ready"} \cup OwnerPcs
  <2>1. Handle(a) /\ pc'[a] = "ready"
    BY <1>0, <1>2 DEF Act, Step, Insert, Supersede, Own, Check, Grant, Receipt, MarkApproved, Send,
         RecordOrder, RecordBlock, Crash, StartScan, EndScan, Handle, Rest, Resting, Goto,
         ActorTypes, OwnerPcs
  <2>2. ~risky[prop[a]] /\ prop' = prop /\ risky' = risky
    BY <1>0, <2>1 DEF Handle, ManualOnly, Rest, Resting, Goto, ActorTypes
  <2> QED
    BY <2>2
<1> QED
  BY <1>1, <1>2

LEMMA SendersAreAllowed ==
    ASSUME ApprovalInv, Consented, NEW a \in Actors, Act(a), pc'[a] \in {"consented", "sending"}
    PROVE  prop'[a] \in Allowed'
<1>0. RowTypes /\ ActorTypes
  BY InvParts
<1>1. CASE Receipt(a)
  <2>1. prop[a] \in Proposals /\ prop' = prop /\ risky' = risky
    BY <1>0, <1>1, Working DEF Receipt
  <2>2. CASE a \in Scans
    <3>1. ~risky[prop[a]]
      BY <1>1, <2>2 DEF Receipt, Consented, OwnerPcs
    <3> DEFINE r == <<prop[a], LabelOf(a)>>
    <3>2. r \in receipts' /\ r[1] = prop[a] /\ r[2] = LabelOf(a)
      BY <1>1, <2>2 DEF Receipt
    <3> HIDE DEF r
    <3>3. r \in Automatic'
      BY <3>2 DEF Automatic, LabelOf
    <3> QED
      BY <2>1, <3>1, <3>2, <3>3 DEF Allowed
  <2>3. CASE a \notin Scans
    BY <1>1, <2>1, <2>3 DEF Receipt, Allowed
  <2> QED
    BY <2>2, <2>3
<1>2. CASE MarkApproved(a)
  <2>1. prop[a] \in Proposals /\ status[prop[a]] # "none" /\ prop[a] \in Allowed /\ prop' = prop
    BY <1>0, <1>2, Working DEF MarkApproved, Consented, ActorTypes
  <2> QED
    BY <2>1, AllowedStays
<1>3. CASE ~Receipt(a) /\ ~MarkApproved(a)
  <2>1. UNCHANGED <<pc, prop>>
    BY <1>0, <1>3 DEF Act, Step, Insert, Supersede, Own, Check, Grant, Send, RecordOrder, RecordBlock,
         Crash, StartScan, EndScan, Handle, Approve, ReadRow, Reject, Rest, Resting, Goto, ActorTypes
  <2>2. prop[a] \in Proposals /\ status[prop[a]] # "none" /\ prop[a] \in Allowed
    BY <1>0, <2>1, Working DEF Consented, ActorTypes
  <2> QED
    BY <2>1, <2>2, AllowedStays
<1> QED
  BY <1>1, <1>2, <1>3

LEMMA OrdersAreAllowed ==
    ASSUME ApprovalInv, Consented, ConsentedOnly, NEW a \in Actors, Act(a),
           NEW p \in Proposals, ordered'[p]
    PROVE  status'[p] # "none" /\ p \in Allowed'
<1>0. RowTypes /\ ActorTypes
  BY InvParts
<1>1. CASE ordered[p]
  <2>1. status[p] # "none" /\ p \in Allowed
    BY <1>1 DEF Consented, ConsentedOnly, Allowed
  <2> QED
    BY <2>1, RowsStay, AllowedStays
<1>2. CASE ~ordered[p]
  <2>1. ordered' # ordered
    BY <1>2
  <2>2. Send(a)
    BY <2>1 DEF Act, Step, Insert, Supersede, Own, Check, Grant, Receipt, MarkApproved, RecordOrder,
         RecordBlock, Crash, StartScan, EndScan, Handle, Approve, ReadRow, Reject, rows
  <2>3. p = prop[a] /\ pc[a] = "sending"
    BY <1>0, <1>2, <2>2 DEF Send, RowTypes
  <2>4. status[p] # "none" /\ p \in Allowed
    BY <1>0, <2>3 DEF Consented, ActorTypes
  <2> QED
    BY <2>4, RowsStay, AllowedStays
<1> QED
  BY <1>1, <1>2

LEMMA ConsentKept ==
    ASSUME ApprovalInv, Consented, ConsentedOnly, NEW a \in Actors, Act(a)
    PROVE  Consented' /\ ConsentedOnly'
<1>0. RowTypes /\ ActorTypes /\ Alone(a)
  BY InvParts, ActorsStep
<1>1. ASSUME NEW b \in Actors, prop'[b] # Nobody
      PROVE  status'[prop'[b]] # "none"
  <2>1. CASE b = a
    BY <1>1, <2>1, NewWork
  <2>2. CASE b # a
    BY <1>0, <1>1, <2>2, RowsStay DEF Alone, ActorTypes, Consented
  <2> QED
    BY <2>1, <2>2
<1>2. ASSUME NEW p \in Proposals, ordered'[p]
      PROVE  status'[p] # "none" /\ p \in Allowed'
  BY <1>2, OrdersAreAllowed
<1>3. ASSUME NEW s \in Scans, pc'[s] \in {"ready"} \cup OwnerPcs
      PROVE  ~risky'[prop'[s]]
  <2>1. CASE s = a
    BY <1>3, <2>1, ScansAreCareful
  <2>2. CASE s # a
    <3>1. s \in Actors /\ pc[s] = pc'[s] /\ prop'[s] = prop[s]
      BY <1>0, <2>2 DEF Alone, Actors
    <3>2. prop[s] \in Proposals /\ status[prop[s]] # "none" /\ ~risky[prop[s]]
      BY <1>0, <1>3, <3>1, Working DEF Consented, OwnerPcs, ActorTypes
    <3> QED
      BY <3>1, <3>2, RowsStay
  <2> QED
    BY <2>1, <2>2
<1>4. ASSUME NEW b \in Actors, pc'[b] \in {"consented", "sending"}
      PROVE  prop'[b] \in Allowed'
  <2>1. CASE b = a
    BY <1>4, <2>1, SendersAreAllowed
  <2>2. CASE b # a
    <3>1. pc[b] = pc'[b] /\ prop'[b] = prop[b]
      BY <1>0, <2>2 DEF Alone
    <3>2. prop[b] \in Proposals /\ status[prop[b]] # "none" /\ prop[b] \in Allowed
      BY <1>0, <1>4, <3>1, Working DEF Consented, ActorTypes
    <3>3. prop[b] \in Allowed'
      BY <3>2, AllowedStays
    <3> QED
      BY <3>1, <3>3 DEF Allowed
  <2> QED
    BY <2>1, <2>2
<1>5. ConsentedOnly'
  BY <1>2 DEF ConsentedOnly, Allowed
<1> QED
  BY <1>1, <1>2, <1>3, <1>4, <1>5 DEF Consented

-----------------------------------------------------------------------------
(* The theorems *)

LEMMA InitInv ==
    ASSUME Init
    PROVE  IInv
<1>1. ApprovalInv
  BY ApprovalAssumption DEF Init, ApprovalInv, Statuses, Pcs, OwnerPcs, Symbols
<1>2. OneOpenPerSymbol /\ ConsentedOnly /\ Consented /\ Granted
  BY DEF Init, OneOpenPerSymbol, Siblings, Open, ConsentedOnly, Consented, Granted, OwnerPcs, Actors
<1>3. Automatic = {} /\ Unattended = {}
  BY DEF Init, Automatic, Unattended
<1>4. CapsHold
  BY <1>3, FS_EmptySet, ApprovalAssumption DEF CapsHold
<1> QED
  BY <1>1, <1>2, <1>4 DEF IInv

\* Time passes: no row opens, and nothing else is about time.
LEMMA LapseKeeps ==
    ASSUME IInv, NEW p \in Proposals, Lapse(p)
    PROVE  IInv'
<1>1. ApprovalInv'
  BY TypesKept DEF IInv, Next
<1>2. OneOpenPerSymbol'
  BY DEF IInv, Lapse, OneOpenPerSymbol, Open
<1>3. Automatic' = Automatic /\ Unattended' = Unattended /\ window' = window /\ pc' = pc
  BY DEF Lapse, Automatic, Unattended
<1>4. CapsHold' /\ Granted'
  BY <1>3 DEF IInv, CapsHold, Granted, WithinCaps
<1>5. ConsentedOnly' /\ Consented'
  BY <1>3 DEF IInv, Lapse, ConsentedOnly, Consented, Allowed
<1> QED
  BY <1>1, <1>2, <1>4, <1>5 DEF IInv

LEMMA StepInv ==
    ASSUME IInv, [Next]_vars
    PROVE  IInv'
<1>1. CASE \E a \in Actors : Act(a)
  BY <1>1, TypesKept, OneOpenKept, CapsKept, ConsentKept DEF IInv
<1>2. CASE \E p \in Proposals : Lapse(p)
  BY <1>2, LapseKeeps
<1>3. CASE UNCHANGED vars
  <2>1. ApprovalInv'
    BY TypesKept DEF IInv
  <2>2. UNCHANGED <<status, risky, receipts, ordered, pc, prop, window, torn>>
    BY <1>3 DEF vars, rows
  <2>3. Automatic' = Automatic /\ Unattended' = Unattended
    BY <2>2 DEF Automatic, Unattended
  <2>4. OneOpenPerSymbol'
    BY <2>2 DEF IInv, OneOpenPerSymbol, Open
  <2>5. CapsHold' /\ Granted'
    BY <2>2, <2>3 DEF IInv, CapsHold, Granted, WithinCaps
  <2>6. ConsentedOnly' /\ Consented'
    BY <2>2, <2>3 DEF IInv, ConsentedOnly, Consented, Allowed
  <2> QED
    BY <2>1, <2>4, <2>5, <2>6 DEF IInv
<1> QED
  BY <1>1, <1>2, <1>3, StepsOfActors

\* The inductive invariant of the approval path holds for all constants.
THEOREM ApprovalInvariant == Spec => []IInv
BY InitInv, StepInv, PTL DEF Spec

\* At most one proposal of a symbol can be approved, but for a creator that is
\* between its two transactions or died there.
THEOREM OneOpenAlways == Spec => []OneOpenPerSymbol
<1>1. IInv => OneOpenPerSymbol
  BY DEF IInv
<1> QED
  BY <1>1, ApprovalInvariant, PTL

\* Neither daily cap is exceeded, however many scans run at once.
THEOREM CapsAlwaysHold == Spec => []CapsHold
<1>1. IInv => CapsHold
  BY DEF IInv
<1> QED
  BY <1>1, ApprovalInvariant, PTL

\* No entry order without a receipt, and none of a high-risk narrative without
\* the user's.
THEOREM OrdersAreConsented == Spec => []ConsentedOnly
<1>1. IInv => ConsentedOnly
  BY DEF IInv
<1> QED
  BY <1>1, ApprovalInvariant, PTL

\* A proposal decided against before the last check is never sent.
THEOREM DecisionsAreKept == Spec => DecidedIsNotSent
<1>1. ASSUME ApprovalInv, NEW a \in Actors, Act(a), NEW p \in Proposals,
             status[p] \in Decided, ~Committed(p), ~ordered[p]
      PROVE  ~Committed(p)' /\ ~ordered'[p]
  <2>0. RowTypes /\ ActorTypes /\ Alone(a)
    BY <1>1, InvParts, ActorsStep
  <2>1. ~ordered'[p]
    <3>1. CASE Send(a)
      BY <1>1, <2>0, <3>1 DEF Send, Committed, OwnerPcs, RowTypes
    <3>2. CASE ~Send(a)
      <4>1. ordered' = ordered \/ \E q \in Proposals : Insert(a, q)
        BY <1>1, <3>2 DEF Act, Step, Supersede, Own, Check, Grant, Receipt, MarkApproved, RecordOrder,
             RecordBlock, Crash, StartScan, EndScan, Handle, Approve, ReadRow, Reject, rows
      <4> QED
        BY <1>1, <4>1 DEF Insert
    <3> QED
      BY <3>1, <3>2
  <2>2. ASSUME NEW b \in Actors, prop'[b] = p, pc'[b] \in OwnerPcs \ {"owned"}
        PROVE  FALSE
    <3>1. CASE b # a
      BY <1>1, <2>0, <2>2, <3>1 DEF Alone, Committed
    <3>2. CASE b = a /\ Check(a)
      BY <1>1, <2>0, <2>2, <3>2 DEF Check, Open, Decided, Goto, ActorTypes, OwnerPcs
    <3>3. CASE b = a /\ ~Check(a)
      <4>1. pc[a] \in OwnerPcs \ {"owned"} /\ prop[a] = p
        BY <1>1, <2>0, <2>2, <3>3 DEF Act, Step, Insert, Supersede, Own, Grant, Receipt, MarkApproved,
             Send, RecordOrder, RecordBlock, Crash, StartScan, EndScan, Handle, Approve, ReadRow, Reject,
             Rest, Resting, Goto, ActorTypes, OwnerPcs
      <4> QED
        BY <1>1, <4>1 DEF Committed
    <3> QED
      BY <3>1, <3>2, <3>3
  <2> QED
    BY <2>1, <2>2 DEF Committed
<1>2. ASSUME IInv, [Next]_vars, NEW p \in Proposals, status[p] \in Decided, ~Committed(p), ~ordered[p]
      PROVE  ~Committed(p)' /\ ~ordered'[p]
  <2>1. CASE \E a \in Actors : Act(a)
    BY <1>1, <1>2, <2>1 DEF IInv
  <2>2. CASE \E q \in Proposals : Lapse(q)
    BY <1>2, <2>2 DEF Lapse, Committed
  <2>3. CASE UNCHANGED vars
    BY <1>2, <2>3 DEF vars, rows, Committed
  <2> QED
    BY <1>2, <2>1, <2>2, <2>3, StepsOfActors
<1>3. IInv /\ [Next]_vars => [\A p \in Proposals : status[p] \in Decided /\ ~Committed(p) /\ ~ordered[p]
                               => ~Committed(p)' /\ ~ordered'[p]]_vars
  BY <1>2
<1> QED
  BY <1>3, ApprovalInvariant, PTL DEF Spec, DecidedIsNotSent
=============================================================================
