-------------------------- MODULE EntryFillsProofs --------------------------
(***************************************************************************)
(* Proofs about EntryFills for every number of monitors, operators, shares *)
(* and crashes.  What an actor has read is a past answer of the broker:    *)
(* quantities only grow and a dead order never changes, so an old answer   *)
(* can be too low but never wrong about a dead order.                      *)
(***************************************************************************)
EXTENDS EntryFills, TLAPS

\* An answer in an actor's hands was true once.
AnswersArePast ==
    \A a \in Actors :
        /\ seen[a].filled <= filled
        /\ seen[a].raw \in Dead => raw = seen[a].raw /\ filled = seen[a].filled

\* Who is about to expire the proposal holds an answer that nothing filled.
ExpiryIsVerified ==
    \A a \in Actors : pc[a] = "expire" => seen[a].raw \in TerminalZero /\ seen[a].filled = 0

\* The ledger never has more than the broker.
BookedIsFilled == booked <= filled

\* The inductive invariant.
FillsInv == TypeOK /\ AnswersArePast /\ ExpiryIsVerified /\ BookedIsFilled /\ ExpiredIsFlat

Answers == [raw : RawStatuses, filled : 0..Qty, pending : BOOLEAN, synced : BOOLEAN, row : States]

\* A mapped answer is a lifecycle state.
LEMMA StateOfType == ASSUME NEW s \in Answers PROVE StateOf(s) \in States
  BY DEF Answers, StateOf, States, TerminalNoFill, RawStatuses, Dead

LEMMA NoSeenType == NoSeen \in Answers
  BY SizesAssumption DEF NoSeen, Answers, RawStatuses, States, Dead

\* What the broker reports is a well-typed answer.
LEMMA AnswerType ==
  ASSUME TypeOK, NEW a \in Actors
  PROVE  /\ seen[a] \in Answers /\ Answer(a) \in Answers
         /\ Answer(a).raw = raw /\ Answer(a).filled = filled
  BY DEF TypeOK, Answers, Answer

\* The initial state satisfies the invariant.
LEMMA InitFills == Init => FillsInv
  <1> SUFFICES ASSUME Init PROVE FillsInv
    OBVIOUS
  <1>1. TypeOK
    <2>1. seen \in [Actors -> Answers] /\ pc \in [Actors -> Pcs]
      BY NoSeenType DEF Init, Pcs
    <2>2. booked \in 0..Qty /\ filled \in 0..Qty /\ crashes \in 0..MaxCrashes
      BY SizesAssumption DEF Init
    <2> QED
      BY <2>1, <2>2 DEF Init, TypeOK, Answers, RawStatuses, States
  <1>2. \A a \in Actors : seen[a].filled = 0 /\ seen[a].raw = "working" /\ pc[a] = "idle"
    BY DEF Init, NoSeen
  <1>3. AnswersArePast /\ ExpiryIsVerified
    <2>1. filled = 0 /\ "working" \notin Dead
      BY DEF Init, Dead
    <2> QED
      BY <1>2, <2>1 DEF AnswersArePast, ExpiryIsVerified
  <1>4. BookedIsFilled /\ ExpiredIsFlat
    BY DEF Init, BookedIsFilled, ExpiredIsFlat
  <1> QED
    BY <1>1, <1>3, <1>4 DEF FillsInv

\* Every step keeps the types.
LEMMA StepTypes == ASSUME TypeOK, Next PROVE TypeOK'
  <1> USE DEF Pcs
  <1>m. Monitors \subseteq Actors /\ Operators \subseteq Actors
    BY DEF Actors
  <1>s. \A a \in Actors : StateOf(seen[a]) \in States
    BY StateOfType, AnswerType
  <1>1. ASSUME NEW m \in Monitors, Visit(m) PROVE TypeOK'
    <2>1. [NoSeen EXCEPT !.pending = phase = "unknown"] \in Answers
      BY NoSeenType DEF Answers
    <2> QED
      BY <1>1, <1>m, <2>1 DEF TypeOK, Visit, Answers, ledgerVars, brokerVars
  <1>2. ASSUME NEW m \in Monitors, ReadOrder(m) PROVE TypeOK'
    <2>1. [Answer(m) EXCEPT !.synced = TRUE] \in Answers
      BY <1>m, AnswerType DEF Answers
    <2> QED
      BY <1>2, <1>m, <2>1 DEF TypeOK, ReadOrder, Uncertain, Goto, Answers, ledgerVars, brokerVars
  <1>3. ASSUME NEW m \in Monitors, Observe(m) PROVE TypeOK'
    BY <1>3, <1>m, <1>s DEF TypeOK, Observe, Goto, brokerVars
  <1>4. ASSUME NEW m \in Monitors, Open(m) PROVE TypeOK'
    BY <1>4, <1>m DEF TypeOK, Open, Book, Goto, brokerVars
  <1>5. ASSUME NEW m \in Monitors, Mark(m) PROVE TypeOK'
    BY <1>5, <1>m DEF TypeOK, Mark, MarkStatus, Goto, brokerVars
  <1>6. ASSUME NEW m \in Monitors, Verify(m) PROVE TypeOK'
    BY <1>6, <1>m DEF TypeOK, Verify, Uncertain, Goto, ledgerVars, brokerVars
  <1>7. ASSUME NEW m \in Monitors, Finish(m) PROVE TypeOK'
    BY <1>7, <1>m DEF TypeOK, Finish, Uncertain, Goto, brokerVars
  <1>8. ASSUME NEW m \in Monitors, Alarm(m) PROVE TypeOK'
    BY <1>8, <1>m DEF TypeOK, Alarm, Goto, brokerVars
  <1>9. ASSUME NEW m \in Monitors, Stale(m) PROVE TypeOK'
    BY <1>9, <1>m, NoSeenType DEF TypeOK, Stale, Goto, Return, Answers, ledgerVars, brokerVars
  <1>10. ASSUME NEW o \in Operators, Command(o) PROVE TypeOK'
    BY <1>10, <1>m DEF TypeOK, Command, Goto, ledgerVars, brokerVars
  <1>11. ASSUME NEW a \in Actors, Cancel(a) PROVE TypeOK'
    BY <1>11, NoSeenType DEF TypeOK, Cancel, Goto, Return, Answers, RawStatuses, ledgerVars
  <1>12. ASSUME NEW a \in Actors, Reread(a) PROVE TypeOK'
    <2>1. seen' \in [Actors -> Answers]
      BY <1>12, NoSeenType, AnswerType DEF TypeOK, Reread, Return, Answers
    <2>2. pc' \in [Actors -> Pcs]
      BY <1>12 DEF TypeOK, Reread, Return
    <2> QED
      BY <1>12, <2>1, <2>2 DEF TypeOK, Reread, Answers, ledgerVars, brokerVars
  <1>13. ASSUME NEW a \in Actors, RacedOpen(a) PROVE TypeOK'
    BY <1>13, NoSeenType DEF TypeOK, RacedOpen, Book, Goto, Return, Answers, brokerVars
  <1>14. ASSUME NEW a \in Actors, RacedRecord(a) PROVE TypeOK'
    BY <1>14, <1>s, NoSeenType DEF TypeOK, RacedRecord, MarkStatus, Return, Answers, brokerVars
  <1>15. ASSUME NEW a \in Actors, Expire(a) PROVE TypeOK'
    BY <1>15, NoSeenType
       DEF TypeOK, Expire, MarkStatus, Return, Answers, States, TerminalNoFill, brokerVars
  <1>16. ASSUME NEW a \in Actors, Crash(a) PROVE TypeOK'
    BY <1>16, NoSeenType, SizesAssumption
       DEF TypeOK, Crash, Return, Answers, ledgerVars, brokerVars
  <1>17. CASE Fill
    BY <1>17, SizesAssumption DEF TypeOK, Fill, RawStatuses, Dead, ledgerVars
  <1>18. CASE BrokerEnds
    BY <1>18 DEF TypeOK, BrokerEnds, RawStatuses, Dead, ledgerVars
  <1>19. CASE Reject
    BY <1>19 DEF TypeOK, Reject, brokerVars
  <1> QED
    BY <1>1, <1>2, <1>3, <1>4, <1>5, <1>6, <1>7, <1>8, <1>9, <1>10, <1>11, <1>12, <1>13,
       <1>14, <1>15, <1>16, <1>17, <1>18, <1>19 DEF Next, Pass, Withdraw

\* Every step keeps what the invariant says of answers, bookings and expiry.
LEMMA StepFills == ASSUME FillsInv, Next PROVE FillsInv'
  <1> USE DEF FillsInv
  <1> DEFINE Facts == AnswersArePast /\ ExpiryIsVerified /\ BookedIsFilled /\ ExpiredIsFlat
  <1>m. Monitors \subseteq Actors /\ Operators \subseteq Actors
    BY DEF Actors
  <1>t. TypeOK'
    BY StepTypes
  <1>n. NoSeen.filled = 0 /\ NoSeen.raw \notin Dead /\ filled \in Nat /\ booked \in Nat
    BY SizesAssumption DEF NoSeen, Dead, TypeOK
  \* An actor that drops its answer, or moves on with it without the broker.
  <1>r. ASSUME NEW a \in Actors, Return(a), UNCHANGED brokerVars
        PROVE  AnswersArePast' /\ ExpiryIsVerified'
    BY <1>r, <1>n DEF Return, brokerVars, AnswersArePast, ExpiryIsVerified, TypeOK
  <1>g. ASSUME NEW a \in Actors, NEW at \in Pcs, at # "expire", Goto(a, at), UNCHANGED brokerVars
        PROVE  AnswersArePast' /\ ExpiryIsVerified'
    BY <1>g DEF Goto, brokerVars, AnswersArePast, ExpiryIsVerified, TypeOK
  <1>b. ASSUME NEW a \in Actors, Book(a), UNCHANGED brokerVars PROVE BookedIsFilled'
    BY <1>b DEF Book, brokerVars, BookedIsFilled, AnswersArePast
  <1>k. ASSUME UNCHANGED <<booked, brokerVars>> PROVE BookedIsFilled'
    BY <1>k DEF BookedIsFilled, brokerVars
  <1>e. ASSUME UNCHANGED <<status, brokerVars>> PROVE ExpiredIsFlat'
    BY <1>e DEF ExpiredIsFlat, brokerVars
  <1>f. ASSUME MarkStatus("filled"), UNCHANGED brokerVars PROVE ExpiredIsFlat'
    BY <1>f DEF MarkStatus, Final, ExpiredIsFlat, brokerVars
  <1>1. ASSUME NEW m \in Monitors, Visit(m) PROVE Facts'
    <2>1. AnswersArePast' /\ ExpiryIsVerified'
      BY <1>1, <1>m, <1>n DEF Visit, brokerVars, AnswersArePast, ExpiryIsVerified, TypeOK, NoSeen
    <2> QED
      BY <1>1, <2>1, <1>k, <1>e DEF Visit, ledgerVars
  <1>2. ASSUME NEW m \in Monitors, ReadOrder(m) PROVE Facts'
    <2>1. AnswersArePast' /\ ExpiryIsVerified'
      <3>1. CASE Uncertain(m)
        BY <1>2, <3>1, <1>m, <1>g DEF ReadOrder, Uncertain, Pcs
      <3>2. CASE seen' = [seen EXCEPT ![m] = [Answer(m) EXCEPT !.synced = TRUE]]
                 /\ pc' = [pc EXCEPT ![m] = "observe"]
        <4>1. seen'[m].raw = raw /\ seen'[m].filled = filled
          BY <3>2, <1>m, AnswerType DEF TypeOK, Answers
        <4> QED
          BY <1>2, <3>2, <4>1, <1>m, <1>n
             DEF ReadOrder, brokerVars, AnswersArePast, ExpiryIsVerified, TypeOK
      <3> QED
        BY <1>2, <3>1, <3>2 DEF ReadOrder
    <2> QED
      BY <1>2, <2>1, <1>k, <1>e DEF ReadOrder, ledgerVars
  <1>3. ASSUME NEW m \in Monitors, Observe(m) PROVE Facts'
    BY <1>3, <1>m, <1>g, <1>k, <1>e DEF Observe, Pcs
  <1>4. ASSUME NEW m \in Monitors, Open(m) PROVE Facts'
    BY <1>4, <1>m, <1>g, <1>b, <1>k, <1>e DEF Open, Pcs
  <1>5. ASSUME NEW m \in Monitors, Mark(m) PROVE Facts'
    BY <1>5, <1>m, <1>g, <1>k, <1>f DEF Mark, Pcs
  <1>6. ASSUME NEW m \in Monitors, Verify(m) PROVE Facts'
    <2>1. AnswersArePast' /\ ExpiryIsVerified'
      <3>1. CASE Uncertain(m)
        BY <1>6, <3>1, <1>m, <1>g DEF Verify, Uncertain, Pcs
      <3>2. CASE seen' = [seen EXCEPT ![m].row = state] /\ pc' = [pc EXCEPT ![m] = "finish"]
        BY <1>6, <3>2, <1>m DEF Verify, brokerVars, AnswersArePast, ExpiryIsVerified, TypeOK
      <3> QED
        BY <1>6, <3>1, <3>2 DEF Verify
    <2> QED
      BY <1>6, <2>1, <1>k, <1>e DEF Verify, ledgerVars
  <1>7. ASSUME NEW m \in Monitors, Finish(m) PROVE Facts'
    BY <1>7, <1>m, <1>g, <1>k, <1>e DEF Finish, Uncertain, Pcs
  <1>8. ASSUME NEW m \in Monitors, Alarm(m) PROVE Facts'
    BY <1>8, <1>m, <1>g, <1>k, <1>e DEF Alarm, Pcs
  <1>9. ASSUME NEW m \in Monitors, Stale(m) PROVE Facts'
    BY <1>9, <1>m, <1>g, <1>r, <1>k, <1>e DEF Stale, ledgerVars, Pcs
  <1>10. ASSUME NEW o \in Operators, Command(o) PROVE Facts'
    BY <1>10, <1>m, <1>g, <1>k, <1>e DEF Command, ledgerVars, Pcs
  <1>11. ASSUME NEW a \in Actors, Cancel(a) PROVE Facts'
    <2>1. filled' = filled /\ raw' \in {raw, "pending_cancel"} /\ (raw' # raw => raw = "working")
      BY <1>11 DEF Cancel
    <2>2. AnswersArePast' /\ ExpiryIsVerified'
      BY <1>11, <2>1, <1>n
         DEF Cancel, Goto, Return, AnswersArePast, ExpiryIsVerified, TypeOK, Dead
    <2>3. BookedIsFilled' /\ ExpiredIsFlat'
      BY <1>11, <2>1 DEF Cancel, ledgerVars, BookedIsFilled, ExpiredIsFlat, TerminalZero
    <2> QED
      BY <2>2, <2>3
  <1>12. ASSUME NEW a \in Actors, Reread(a) PROVE Facts'
    <2>1. AnswersArePast' /\ ExpiryIsVerified'
      <3>1. CASE Return(a)
        BY <1>12, <3>1, <1>r DEF Reread
      <3>2. CASE /\ filled > 0 \/ raw \in TerminalZero
                 /\ seen' = [seen EXCEPT ![a] = Answer(a)]
                 /\ pc' = [pc EXCEPT ![a] = IF filled > 0 THEN "raced" ELSE "expire"]
        <4>1. seen'[a].raw = raw /\ seen'[a].filled = filled
          BY <3>2, AnswerType DEF TypeOK
        <4> QED
          BY <1>12, <3>2, <4>1, <1>n
             DEF Reread, brokerVars, AnswersArePast, ExpiryIsVerified, TypeOK
      <3> QED
        BY <1>12, <3>1, <3>2 DEF Reread
    <2> QED
      BY <1>12, <2>1, <1>k, <1>e DEF Reread, ledgerVars
  <1>13. ASSUME NEW a \in Actors, RacedOpen(a) PROVE Facts'
    BY <1>13, <1>g, <1>r, <1>b, <1>k, <1>e DEF RacedOpen, Pcs
  <1>14. ASSUME NEW a \in Actors, RacedRecord(a) PROVE Facts'
    BY <1>14, <1>r, <1>k, <1>f DEF RacedRecord
  <1>15. ASSUME NEW a \in Actors, Expire(a) PROVE Facts'
    <2>1. raw \in TerminalZero /\ filled = 0
      BY <1>15 DEF Expire, ExpiryIsVerified, AnswersArePast, TerminalZero, Dead
    <2>2. ExpiredIsFlat'
      BY <1>15, <2>1 DEF Expire, brokerVars, ExpiredIsFlat
    <2> QED
      BY <1>15, <2>2, <1>r, <1>k DEF Expire
  <1>16. ASSUME NEW a \in Actors, Crash(a) PROVE Facts'
    BY <1>16, <1>r, <1>k, <1>e DEF Crash, ledgerVars
  <1>17. CASE Fill
    <2>1. AnswersArePast' /\ BookedIsFilled'
      BY <1>17, <1>n DEF Fill, ledgerVars, AnswersArePast, BookedIsFilled, TypeOK, Answers
    <2>2. ExpiryIsVerified'
      BY <1>17 DEF Fill, ExpiryIsVerified
    <2>3. ExpiredIsFlat'
      BY <1>17 DEF Fill, ledgerVars, ExpiredIsFlat, Dead, TerminalZero
    <2> QED
      BY <2>1, <2>2, <2>3, <1>t
  <1>18. CASE BrokerEnds
    <2>1. raw \notin Dead /\ filled' = filled
      BY <1>18 DEF BrokerEnds, Dead
    <2>2. AnswersArePast' /\ ExpiryIsVerified'
      BY <1>18, <2>1 DEF BrokerEnds, AnswersArePast, ExpiryIsVerified
    <2>3. BookedIsFilled' /\ ExpiredIsFlat'
      BY <1>18, <2>1 DEF BrokerEnds, ledgerVars, BookedIsFilled, ExpiredIsFlat, Dead, TerminalZero
    <2> QED
      BY <2>2, <2>3, <1>t
  <1>19. CASE Reject
    <2>1. AnswersArePast' /\ ExpiryIsVerified'
      BY <1>19 DEF Reject, brokerVars, AnswersArePast, ExpiryIsVerified
    <2>2. BookedIsFilled' /\ ExpiredIsFlat'
      BY <1>19 DEF Reject, brokerVars, BookedIsFilled, ExpiredIsFlat
    <2> QED
      BY <2>1, <2>2, <1>t
  <1> QED
    BY <1>t, <1>1, <1>2, <1>3, <1>4, <1>5, <1>6, <1>7, <1>8, <1>9, <1>10, <1>11, <1>12, <1>13,
       <1>14, <1>15, <1>16, <1>17, <1>18, <1>19 DEF Next, Pass, Withdraw

\* Doing nothing keeps the invariant.
LEMMA StutterFills == FillsInv /\ UNCHANGED vars => FillsInv'
  BY DEF FillsInv, TypeOK, AnswersArePast, ExpiryIsVerified, BookedIsFilled, ExpiredIsFlat,
         vars, ledgerVars, brokerVars

\* The invariant of the fills holds for any number of monitors and operators, with
\* any number of deaths: it needs no monitor ownership.
THEOREM FillsInvariant == Spec => []FillsInv
  <1>1. Init => FillsInv
    BY InitFills
  <1>2. FillsInv /\ [Next]_vars => FillsInv'
    BY StepFills, StutterFills
  <1> QED
    BY <1>1, <1>2, PTL DEF Spec

\* Every variable keeps its type.
THEOREM FillsTyped == Spec => []TypeOK
  <1>1. FillsInv => TypeOK
    BY DEF FillsInv
  <1> QED
    BY <1>1, FillsInvariant, PTL

\* A proposal is expired only when nothing of its order filled or can fill,
\* however the cancel races the fills (_cancel_order_row).
THEOREM ExpiryIsSafe == Spec => []ExpiredIsFlat
  <1>1. FillsInv => ExpiredIsFlat
    BY DEF FillsInv
  <1> QED
    BY <1>1, FillsInvariant, PTL

\* Every step of the entry is a fill, an end or a booking of the abstract ledger,
\* or changes nothing the ledger promises anything about.
LEMMA StepImplements == ASSUME FillsInv, Next PROVE [Ledger!Next]_(Ledger!vars)
  <1> USE DEF Ledger!Next, Ledger!vars
  <1>m. Monitors \subseteq Actors
    BY DEF Actors
  <1>k. ASSUME UNCHANGED <<booked, brokerVars>> PROVE UNCHANGED Ledger!vars
    BY <1>k DEF brokerVars
  <1>b. ASSUME NEW a \in Actors, Book(a), UNCHANGED brokerVars
        PROVE  Ledger!Book \/ UNCHANGED Ledger!vars
    <2>1. seen[a].filled \in Nat /\ booked \in Nat /\ filled \in Nat /\ seen[a].filled <= filled
      BY SizesAssumption DEF FillsInv, TypeOK, AnswersArePast
    <2> QED
      BY <1>b, <2>1 DEF Book, Ledger!Book, brokerVars
  <1>1. ASSUME NEW m \in Monitors, Pass(m) PROVE [Ledger!Next]_(Ledger!vars)
    <2>1. CASE Open(m)
      BY <2>1, <1>m, <1>b, <1>k DEF Open
    <2>2. CASE ~Open(m)
      BY <1>1, <2>2, <1>k
         DEF Pass, Visit, ReadOrder, Observe, Mark, Verify, Finish, Alarm, Stale, ledgerVars
    <2> QED
      BY <2>1, <2>2
  <1>2. ASSUME NEW o \in Operators, Command(o) PROVE [Ledger!Next]_(Ledger!vars)
    BY <1>2, <1>k DEF Command, ledgerVars
  <1>3. ASSUME NEW a \in Actors, Withdraw(a) PROVE [Ledger!Next]_(Ledger!vars)
    <2>1. CASE Cancel(a)
      BY <2>1 DEF Cancel, ledgerVars, Dead
    <2>2. CASE RacedOpen(a)
      BY <2>2, <1>b, <1>k DEF RacedOpen
    <2>3. CASE Reread(a) \/ RacedRecord(a) \/ Expire(a)
      BY <2>3, <1>k DEF Reread, RacedRecord, Expire, ledgerVars
    <2> QED
      BY <1>3, <2>1, <2>2, <2>3 DEF Withdraw
  <1>4. ASSUME NEW a \in Actors, Crash(a) PROVE [Ledger!Next]_(Ledger!vars)
    BY <1>4, <1>k DEF Crash, ledgerVars
  <1>5. CASE Fill
    BY <1>5 DEF Fill, Ledger!Fill, ledgerVars, Dead
  <1>6. CASE BrokerEnds
    BY <1>6 DEF BrokerEnds, Ledger!End, ledgerVars, Dead
  <1>7. CASE Reject
    BY <1>7, <1>k DEF Reject
  <1> QED
    BY <1>1, <1>2, <1>3, <1>4, <1>5, <1>6, <1>7 DEF Next

\* Whoever records, and in whatever order the broker's answers are used, the booked
\* quantity follows the broker's: it never shrinks, overtakes it or counts twice.
THEOREM LedgerImplemented == Spec => ImplementsCumulativeFills
  <1>1. Init => Ledger!Init
    BY DEF Init, Ledger!Init, Dead
  <1>2. FillsInv /\ [Next]_vars => [Ledger!Next]_(Ledger!vars)
    <2>1. UNCHANGED vars => UNCHANGED Ledger!vars
      BY DEF vars, ledgerVars, brokerVars, Ledger!vars
    <2> QED
      BY <2>1, StepImplements
  <1> QED
    BY <1>1, <1>2, FillsInvariant, PTL DEF Spec, ImplementsCumulativeFills, Ledger!Spec
-----------------------------------------------------------------------------
(* One monitor at a time and no deaths so far: no fill has been dropped.   *)

\* A terminal state was read off a dead order.
TerminalIsDead == state \in TerminalNoFill => raw \in Dead

\* Who records a fill has seen one; who has recorded it has booked something.
RecordersSawFills ==
    \A a \in Actors :
        /\ pc[a] \in {"open", "raced"} => seen[a].filled > 0
        /\ pc[a] \in {"mark", "record"} => booked > 0

\* A terminal row that lacks a fill is in the monitor's hands or in doubt, and
\* nobody who verifies the doubt away has such a row before him.
FillsAreInHand ==
    state \in TerminalNoFill /\ booked = 0 /\ filled > 0
        => /\ phase = "unknown" \/ \E m \in Monitors : pc[m] = "open"
           /\ \A m \in Monitors : pc[m] \notin {"verify", "finish"}

KeptInv == TerminalIsDead /\ RecordersSawFills /\ FillsAreInHand

\* The initial order is working.
LEMMA InitKept == Init => KeptInv
  <1> SUFFICES ASSUME Init PROVE KeptInv
    OBVIOUS
  <1>1. \A a \in Actors : pc[a] = "idle"
    BY DEF Init
  <1>2. state \notin TerminalNoFill
    BY DEF Init, TerminalNoFill
  <1> QED
    BY <1>1, <1>2 DEF KeptInv, TerminalIsDead, RecordersSawFills, FillsAreInHand

\* Every step of a single monitor, of the operators and of the broker keeps it.
LEMMA StepKept ==
  ASSUME FillsInv, KeptInv, Next, crashes' = 0, NEW m \in Monitors, Monitors = {m}
  PROVE  KeptInv'
  <1> USE DEF KeptInv
  <1>m. m \in Actors /\ Operators \subseteq Actors /\ (\A o \in Operators : o # m)
    BY ActorsAssumption DEF Actors
  <1>t. /\ filled \in Nat /\ booked \in Nat /\ pc \in [Actors -> Pcs]
        /\ \A a \in Actors : seen[a] \in Answers /\ seen[a].filled \in Nat
    BY SizesAssumption, AnswerType DEF FillsInv, TypeOK, Answers
  \* What a terminal answer says is still so.
  <1>s. ASSUME NEW a \in Actors, StateOf(seen[a]) \in TerminalNoFill
        PROVE  raw \in Dead /\ filled = seen[a].filled
    BY <1>s, <1>t
       DEF StateOf, TerminalNoFill, Answers, RawStatuses, Dead, FillsInv, AnswersArePast
  \* Moves that touch neither the row, its bookings nor the broker.
  <1>g. ASSUME NEW a \in Actors, NEW at \in Pcs, Goto(a, at),
               UNCHANGED <<phase, state, booked, brokerVars>>,
               pc[a] # "open", at \notin {"open", "raced", "mark", "record", "verify", "finish"}
        PROVE  KeptInv'
    BY <1>g, <1>t
       DEF Goto, brokerVars, TerminalIsDead, RecordersSawFills, FillsAreInHand
  <1>r. ASSUME NEW a \in Actors, Return(a),
               UNCHANGED <<phase, state, booked, brokerVars>>, pc[a] # "open"
        PROVE  KeptInv'
    BY <1>r, <1>t
       DEF Return, brokerVars, TerminalIsDead, RecordersSawFills, FillsAreInHand, FillsInv, TypeOK
  <1>1. ASSUME Visit(m) PROVE KeptInv'
    BY <1>1, <1>m, <1>t
       DEF Visit, ledgerVars, brokerVars, TerminalIsDead, RecordersSawFills, FillsAreInHand,
           FillsInv, TypeOK
  <1>2. ASSUME ReadOrder(m) PROVE KeptInv'
    <2>1. CASE Uncertain(m)
      BY <1>2, <2>1, <1>m, <1>g DEF ReadOrder, Uncertain, ledgerVars, Pcs
    <2>2. CASE seen' = [seen EXCEPT ![m] = [Answer(m) EXCEPT !.synced = TRUE]]
               /\ pc' = [pc EXCEPT ![m] = "observe"]
      BY <1>2, <2>2, <1>m, <1>t
         DEF ReadOrder, ledgerVars, brokerVars, TerminalIsDead, RecordersSawFills,
             FillsAreInHand, FillsInv, TypeOK
    <2> QED
      BY <1>2, <2>1, <2>2 DEF ReadOrder
  <1>3. ASSUME Observe(m) PROVE KeptInv'
    <2>1. TerminalIsDead'
      BY <1>3, <1>m, <1>s DEF Observe, brokerVars, TerminalIsDead
    <2>2. RecordersSawFills'
      BY <1>3, <1>m, <1>t DEF Observe, Goto, brokerVars, RecordersSawFills
    <2>3. FillsAreInHand'
      BY <1>3, <1>m, <1>s, <1>t DEF Observe, Goto, brokerVars, FillsAreInHand
    <2> QED
      BY <2>1, <2>2, <2>3
  <1>4. ASSUME Open(m) PROVE KeptInv'
    <2>1. seen[m].filled > 0
      BY <1>4, <1>m DEF Open, RecordersSawFills
    <2>2. TerminalIsDead'
      BY <1>4 DEF Open, brokerVars, TerminalIsDead
    <2>3. RecordersSawFills'
      BY <1>4, <2>1, <1>m, <1>t DEF Open, Book, Goto, brokerVars, RecordersSawFills
    <2>4. FillsAreInHand'
      BY <1>4, <2>1, <1>m, <1>t DEF Open, Book, Goto, brokerVars, FillsAreInHand
    <2> QED
      BY <2>2, <2>3, <2>4
  <1>5. ASSUME Mark(m) PROVE KeptInv'
    <2>1. booked > 0
      BY <1>5, <1>m DEF Mark, RecordersSawFills
    <2> QED
      BY <1>5, <2>1, <1>m, <1>t
         DEF Mark, Goto, brokerVars, TerminalIsDead, RecordersSawFills, FillsAreInHand
  <1>6. ASSUME Verify(m) PROVE KeptInv'
    <2>1. CASE Uncertain(m)
      BY <1>6, <2>1, <1>m, <1>g DEF Verify, Uncertain, ledgerVars, Pcs
    <2>2. CASE seen' = [seen EXCEPT ![m].row = state] /\ pc' = [pc EXCEPT ![m] = "finish"]
      BY <1>6, <2>2, <1>m, <1>t
         DEF Verify, ledgerVars, brokerVars, TerminalIsDead, RecordersSawFills,
             FillsAreInHand, FillsInv, TypeOK
    <2> QED
      BY <1>6, <2>1, <2>2 DEF Verify
  <1>7. ASSUME Finish(m) PROVE KeptInv'
    BY <1>7, <1>m, <1>t
       DEF Finish, Uncertain, Goto, brokerVars, TerminalIsDead, RecordersSawFills, FillsAreInHand
  <1>8. ASSUME Alarm(m) PROVE KeptInv'
    BY <1>8, <1>m, <1>g DEF Alarm, Pcs
  <1>9. ASSUME Stale(m) PROVE KeptInv'
    BY <1>9, <1>m, <1>g, <1>r DEF Stale, ledgerVars, Pcs
  <1>10. ASSUME NEW o \in Operators, Command(o) PROVE KeptInv'
    BY <1>10, <1>m, <1>g DEF Command, ledgerVars, Pcs
  <1>11. ASSUME NEW a \in Actors, Cancel(a) PROVE KeptInv'
    <2>1. raw \in Dead => raw' = raw
      BY <1>11 DEF Cancel, Dead
    <2>2. UNCHANGED <<phase, state, booked, filled>>
      BY <1>11 DEF Cancel, ledgerVars
    <2>3. /\ \A b \in Actors : b # a => pc'[b] = pc[b] /\ seen'[b] = seen[b]
          /\ pc[a] = "cancel" /\ pc'[a] \in {"reread", "idle"}
      BY <1>11, <1>t DEF Cancel, Goto, Return, FillsInv, TypeOK
    <2>4. TerminalIsDead'
      BY <2>1, <2>2 DEF TerminalIsDead
    <2>5. RecordersSawFills'
      BY <2>2, <2>3 DEF RecordersSawFills
    <2>6. FillsAreInHand'
      BY <2>2, <2>3, <1>m DEF FillsAreInHand
    <2> QED
      BY <2>4, <2>5, <2>6
  <1>12. ASSUME NEW a \in Actors, Reread(a) PROVE KeptInv'
    <2>1. CASE Return(a)
      BY <1>12, <2>1, <1>r DEF Reread, ledgerVars
    <2>2. CASE /\ seen' = [seen EXCEPT ![a] = Answer(a)]
               /\ pc' = [pc EXCEPT ![a] = IF filled > 0 THEN "raced" ELSE "expire"]
      <3>1. Answer(a).filled = filled
        BY AnswerType DEF FillsInv
      <3> QED
        BY <1>12, <2>2, <3>1, <1>m, <1>t
           DEF Reread, ledgerVars, brokerVars, TerminalIsDead, RecordersSawFills,
               FillsAreInHand, FillsInv, TypeOK
    <2> QED
      BY <1>12, <2>1, <2>2 DEF Reread
  <1>13. ASSUME NEW a \in Actors, RacedOpen(a) PROVE KeptInv'
    <2>1. CASE Return(a) /\ UNCHANGED booked
      BY <1>13, <2>1, <1>r DEF RacedOpen
    <2>2. CASE Book(a) /\ Goto(a, "record")
      <3>1. booked' > 0
        BY <1>13, <2>2, <1>t DEF RacedOpen, Book, RecordersSawFills
      <3> QED
        BY <1>13, <2>2, <3>1, <1>m, <1>t
           DEF RacedOpen, Goto, brokerVars, TerminalIsDead, RecordersSawFills, FillsAreInHand
    <2> QED
      BY <1>13, <2>1, <2>2 DEF RacedOpen
  <1>14. ASSUME NEW a \in Actors, RacedRecord(a) PROVE KeptInv'
    <2>1. booked > 0 /\ booked' = booked
      BY <1>14 DEF RacedRecord, RecordersSawFills
    <2>2. TerminalIsDead'
      BY <1>14, <1>s DEF RacedRecord, brokerVars, TerminalIsDead
    <2>3. RecordersSawFills'
      BY <1>14, <2>1, <1>t DEF RacedRecord, Return, RecordersSawFills, FillsInv, TypeOK
    <2>4. FillsAreInHand'
      BY <2>1, <1>t DEF FillsAreInHand
    <2> QED
      BY <2>2, <2>3, <2>4
  <1>15. ASSUME NEW a \in Actors, Expire(a) PROVE KeptInv'
    <2>1. raw \in Dead /\ filled = 0
      BY <1>15
         DEF Expire, FillsInv, ExpiryIsVerified, AnswersArePast, TerminalZero, Dead
    <2>2. RecordersSawFills'
      BY <1>15, <1>t DEF Expire, Return, RecordersSawFills, FillsInv, TypeOK
    <2> QED
      BY <1>15, <2>1, <2>2 DEF Expire, brokerVars, TerminalIsDead, FillsAreInHand
  <1>16. ASSUME NEW a \in Actors, Crash(a) PROVE KeptInv'
    <2>1. crashes' # 0
      BY <1>16, SizesAssumption DEF Crash, FillsInv, TypeOK
    <2> QED
      BY <2>1
  <1>17. CASE Fill
    <2>1. state \notin TerminalNoFill
      BY <1>17 DEF Fill, TerminalIsDead
    <2>2. RecordersSawFills'
      BY <1>17 DEF Fill, ledgerVars, RecordersSawFills
    <2> QED
      BY <1>17, <2>1, <2>2 DEF Fill, ledgerVars, TerminalIsDead, FillsAreInHand
  <1>18. CASE BrokerEnds
    <2>1. raw' \in Dead
      BY <1>18 DEF BrokerEnds, Dead
    <2> QED
      BY <1>18, <2>1
         DEF BrokerEnds, ledgerVars, TerminalIsDead, RecordersSawFills, FillsAreInHand
  <1>19. CASE Reject
    BY <1>19 DEF Reject, brokerVars, TerminalIsDead, RecordersSawFills, FillsAreInHand
  <1> QED
    BY <1>1, <1>2, <1>3, <1>4, <1>5, <1>6, <1>7, <1>8, <1>9, <1>10, <1>11, <1>12, <1>13,
       <1>14, <1>15, <1>16, <1>17, <1>18, <1>19 DEF Next, Pass, Withdraw

\* No step takes a death back.
LEMMA CrashesStay == ASSUME TypeOK, Next, crashes' = 0 PROVE crashes = 0
  BY SizesAssumption
     DEF TypeOK, Next, Pass, Withdraw, Visit, ReadOrder, Observe, Open, Mark, Verify, Finish,
         Alarm, Stale, Command, Cancel, Reread, RacedOpen, RacedRecord, Expire, Fill,
         BrokerEnds, Reject, Crash

\* As long as no process has died and one monitor runs at a time, a row that reconcile
\* will never look at again has no fill nobody is about to record, whatever operator
\* commands overlap it.  (After a death it may have: see the run fills_crash.)
THEOREM NoFillDropped ==
  ASSUME NEW m \in Monitors, Monitors = {m}
  PROVE  Spec => []FillsAreKept
  <1> DEFINE Kept == crashes = 0 => KeptInv
  <1>1. Init => Kept
    BY InitKept
  <1>2. FillsInv /\ Kept /\ [Next]_vars => Kept'
    <2>1. KeptInv /\ UNCHANGED vars => KeptInv'
      BY DEF KeptInv, TerminalIsDead, RecordersSawFills, FillsAreInHand,
             vars, ledgerVars, brokerVars
    <2>2. ASSUME FillsInv, Kept, Next, crashes' = 0 PROVE KeptInv'
      <3>1. crashes = 0
        BY <2>2, CrashesStay DEF FillsInv
      <3> QED
        BY <2>2, <3>1, StepKept
    <2>3. ASSUME FillsInv, Kept, UNCHANGED vars, crashes' = 0 PROVE KeptInv'
      BY <2>1, <2>3 DEF vars
    <2> QED
      BY <2>2, <2>3
  <1>3. Kept => FillsAreKept
    BY DEF KeptInv, FillsAreInHand, FillsAreKept, NoFillIsDropped, Skipped
  <1> QED
    BY <1>1, <1>2, <1>3, FillsInvariant, PTL DEF Spec
=============================================================================
