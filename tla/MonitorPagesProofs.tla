------------------------- MODULE MonitorPagesProofs -------------------------
(***************************************************************************)
(* What the notification file says of the pages that went out, for any     *)
(* number of heartbeats, readings and deaths.                              *)
(***************************************************************************)
EXTENDS MonitorPages, TLAPS

\* The level of a reading is one of the severities, or none.
LEMMA LevelIsBounded ==
    ASSUME NEW codes \in SUBSET Codes
    PROVE  Level(codes) \in 0..4
<1> DEFINE S == {Severity[c] : c \in codes} \cup {0}
<1>1. S \subseteq 0..4 /\ 0 \in S
  BY DEF Codes, Severity
<1> HIDE DEF S
<1>2. \E x \in S : \A y \in S : x >= y
  <2>1. CASE 4 \in S
    BY <1>1, <2>1
  <2>2. CASE 4 \notin S /\ 3 \in S
    BY <1>1, <2>2
  <2>3. CASE 4 \notin S /\ 3 \notin S /\ 2 \in S
    BY <1>1, <2>3
  <2>4. CASE 4 \notin S /\ 3 \notin S /\ 2 \notin S /\ 1 \in S
    BY <1>1, <2>4
  <2>5. CASE 4 \notin S /\ 3 \notin S /\ 2 \notin S /\ 1 \notin S
    BY <1>1, <2>5
  <2> QED
    BY <2>1, <2>2, <2>3, <2>4, <2>5
<1>3. Max(S) \in S
  BY <1>2 DEF Max
<1> QED
  BY <1>1, <1>3 DEF Level, S

\* The larger of two numbers.
LEMMA MaxOfTwo ==
    ASSUME NEW m \in 0..4, NEW n \in 0..4
    PROVE  Max({m, n}) \in 0..4 /\ Max({m, n}) >= m /\ Max({m, n}) >= n
<1>1. \E x \in {m, n} : \A y \in {m, n} : x >= y
  OBVIOUS
<1>2. Max({m, n}) \in {m, n} /\ \A y \in {m, n} : Max({m, n}) >= y
  BY <1>1 DEF Max
<1> QED
  BY <1>2

\* A heartbeat's step moves only that heartbeat.
Moves(b) ==
    /\ \A c \in Beats \ {b} : step'[c] = step[c] /\ saw'[c] = saw[c]
    /\ step' \in [Beats -> {"idle", "decide", "reset", "send", "save", "failed"}]
    /\ saw' \in [Beats -> SUBSET Codes]
Steps(b) == Beat(b) \/ Die(b)

LEMMA BeatsAlone ==
    ASSUME PagesInv, NEW b \in Beats, Steps(b) PROVE Moves(b)
<1> USE DEF PagesInv, TypeOK, Moves, At, Forget, Turn
<1>1. CASE ReadHealth(b)
  BY <1>1, ReadingsAssumption DEF ReadHealth
<1>2. CASE OwnerBusy(b) \/ Recovered(b) \/ Unchanged(b) \/ SaveOutcome(b) \/ Die(b)
  BY <1>2 DEF OwnerBusy, Recovered, Unchanged, SaveOutcome, Die
<1>3. CASE Persist(b) \/ Deliver(b) \/ SendFails(b)
  BY <1>3 DEF Persist, Deliver, SendFails
<1>4. CASE Reset(b) \/ Unavailable(b)
  BY <1>4 DEF Reset, Unavailable
<1> QED
  BY <1>1, <1>2, <1>3, <1>4 DEF Steps, Beat

LEMMA TypePreserved ==
    ASSUME PagesInv, [Next]_vars PROVE TypeOK'
<1> USE DEF PagesInv, TypeOK
<1>1. CASE UNCHANGED vars
  BY <1>1 DEF vars, pages, file, content
<1>2. CASE Drift
  BY <1>2 DEF Drift, pages, file, content
<1>4. CASE Damage
  BY <1>4 DEF Damage, content
<1>3. ASSUME NEW b \in Beats, Steps(b), UNCHANGED health PROVE TypeOK'
  <2>1. Moves(b) /\ saw[b] \subseteq Codes /\ Level(saw[b]) \in 0..4
    BY <1>3, BeatsAlone, LevelIsBounded
  <2>2. told' \in 0..4
    <3>1. CASE Deliver(b)
      BY <3>1, <2>1, MaxOfTwo DEF Deliver
    <3>2. CASE ~Deliver(b)
      BY <1>3, <3>2
         DEF Steps, Beat, ReadHealth, OwnerBusy, Reset, Unavailable, Recovered, Unchanged, Persist,
             SendFails, SaveOutcome, Die, Turn, Free, file, content
    <3> QED
      BY <3>1, <3>2
  <2>5. deaths' \in 0..MaxDeaths
    BY <1>3, BeatsAssumption
       DEF Steps, Beat, ReadHealth, OwnerBusy, Reset, Unavailable, Recovered, Unchanged, Persist, Deliver,
           SendFails, SaveOutcome, Die, Turn, Free, file, content
  <2>3. writer' \in Beats \cup {Nobody} /\ observed' \subseteq Codes
    BY <1>3, <2>1
       DEF Steps, Beat, ReadHealth, OwnerBusy, Reset, Unavailable, Recovered, Unchanged, Persist, Deliver,
           SendFails, SaveOutcome, Die, Turn, Free, file, content
  <2>4. active' \in BOOLEAN /\ pending' \in BOOLEAN /\ readable' \in BOOLEAN
    BY <1>3
       DEF Steps, Beat, ReadHealth, OwnerBusy, Reset, Unavailable, Recovered, Unchanged, Persist, Deliver,
           SendFails, SaveOutcome, Die, Turn, Free, file, content
  <2> QED
    BY <1>3, <2>1, <2>2, <2>3, <2>4, <2>5, Zenon DEF Moves
<1> QED
  BY <1>1, <1>2, <1>3, <1>4 DEF Next, Steps

\* What PagesInv says beside the types.
WriterIsKnown  == \A b \in Beats : Sending(b) \/ step[b] = "reset" <=> writer = b
ResetIsQuiet   == \A b \in Beats : step[b] = "reset" => ~active
WriterIsSaved  == \A b \in Beats : Sending(b) => active /\ pending /\ observed = saw[b]
SavedWasTold   == \A b \in Beats : step[b] = "save" => told >= Level(saw[b])
QuietIsEmpty   == ~active => ~pending /\ observed = {}

LEMMA PagesInvParts == PagesInv <=> TypeOK /\ WriterIsKnown /\ WriterIsSaved /\ SavedWasTold /\ QuietIsEmpty
                      /\ ResetIsQuiet
BY DEF PagesInv, ResetIsQuiet, WriterIsKnown, WriterIsSaved, SavedWasTold, QuietIsEmpty

\* PagesInv without the types.
Parts == WriterIsKnown /\ WriterIsSaved /\ SavedWasTold /\ QuietIsEmpty /\ ResetIsQuiet

\* A heartbeat whose turn it is writes alone.
LEMMA TurnIsAlone ==
    ASSUME PagesInv, NEW b \in Beats, Turn(b)
    PROVE  /\ \A c \in Beats : ~Sending(c)
           /\ \A c \in Beats \ {b} : step[c] # "reset"
           /\ writer \in {Nobody, b}
<1>1. WriterIsKnown /\ Nobody \notin Beats
  BY PagesInvParts, BeatsAssumption
<1> QED
  BY <1>1 DEF Turn, WriterIsKnown, Sending

LEMMA BeatPreserves ==
    ASSUME PagesInv, NEW b \in Beats, Steps(b)
    PROVE  Parts'
<1>1. Moves(b) /\ TypeOK /\ Parts
  BY BeatsAlone, PagesInvParts DEF Parts
<1>2. saw[b] \subseteq Codes /\ Level(saw[b]) \in 0..4 /\ told \in 0..4 /\ step[b] = step[b]
  BY <1>1, LevelIsBounded DEF TypeOK
<1>3. Nobody \notin Beats
  BY BeatsAssumption
<1> USE DEF Moves, Sending, At, Forget, Free, file, content, Parts
<1>4. CASE ReadHealth(b) \/ OwnerBusy(b)
  BY <1>1, <1>3, <1>4 DEF ReadHealth, OwnerBusy, WriterIsKnown, WriterIsSaved, SavedWasTold,
                          QuietIsEmpty, ResetIsQuiet, TypeOK
<1>5. CASE Recovered(b) \/ Unchanged(b)
  <2>1. Turn(b)
    BY <1>5 DEF Recovered, Unchanged
  <2>2. CASE Recovered(b)
    <3>1. writer' = Nobody
      BY <2>1, <2>2, TurnIsAlone DEF Recovered
    <3>2. \A c \in Beats : step'[c] # "reset" /\ ~Sending(c)'
      BY <1>1, <2>1, <2>2, TurnIsAlone DEF Recovered, TypeOK
    <3>3. QuietIsEmpty'
      BY <2>2 DEF Recovered, QuietIsEmpty
    <3> QED
      BY <1>3, <3>1, <3>2, <3>3 DEF WriterIsKnown, WriterIsSaved, SavedWasTold, ResetIsQuiet
  <2>3. CASE Unchanged(b)
    <3>1. active /\ step[b] # "reset"
      BY <1>1, <2>3 DEF Unchanged, Notify, ResetIsQuiet
    <3>2. writer = Nobody /\ writer' = Nobody
      BY <2>1, <2>3, <3>1 DEF Turn, Unchanged
    <3>3. \A c \in Beats : step'[c] # "reset" /\ ~Sending(c)'
      BY <1>1, <2>1, <2>3, TurnIsAlone DEF Unchanged, TypeOK
    <3>4. QuietIsEmpty'
      BY <2>3, <3>1 DEF Unchanged, QuietIsEmpty
    <3> QED
      BY <1>3, <3>2, <3>3, <3>4 DEF WriterIsKnown, WriterIsSaved, SavedWasTold, ResetIsQuiet
  <2> QED
    BY <1>5, <2>2, <2>3
<1>6. CASE Persist(b)
  <2>1. \A c \in Beats \ {b} : ~Sending(c) /\ step[c] # "reset"
    BY <1>6, TurnIsAlone DEF Persist
  <2> QED
    BY <1>1, <1>6, <2>1 DEF Persist, WriterIsKnown, WriterIsSaved, SavedWasTold, QuietIsEmpty,
                            ResetIsQuiet, TypeOK
<1>7. CASE Deliver(b)
  <2>1. told' >= Level(saw[b]) /\ writer = b
    BY <1>1, <1>2, <1>7, MaxOfTwo DEF Deliver, WriterIsKnown
  <2>2. \A c \in Beats \ {b} : ~Sending(c) /\ step[c] # "reset"
    BY <1>1, <2>1 DEF WriterIsKnown
  <2> QED
    BY <1>1, <1>7, <2>1, <2>2 DEF Deliver, WriterIsKnown, WriterIsSaved, SavedWasTold, QuietIsEmpty,
                                  ResetIsQuiet, TypeOK
<1>8. CASE SendFails(b)
  BY <1>1, <1>8 DEF SendFails, WriterIsKnown, WriterIsSaved, SavedWasTold, QuietIsEmpty,
                    ResetIsQuiet, TypeOK
<1>9. CASE SaveOutcome(b)
  <2>1. writer = b /\ active /\ \A c \in Beats \ {b} : ~Sending(c) /\ step[c] # "reset"
    BY <1>1, <1>9 DEF SaveOutcome, WriterIsKnown, WriterIsSaved
  <2>2. writer' = Nobody /\ active' /\ \A c \in Beats : ~Sending(c)' /\ step'[c] # "reset"
    BY <1>1, <1>9, <2>1 DEF SaveOutcome, TypeOK
  <2> QED
    BY <1>3, <2>2 DEF WriterIsKnown, WriterIsSaved, SavedWasTold, QuietIsEmpty, ResetIsQuiet
<1>10. CASE Die(b)
  BY <1>1, <1>3, <1>10 DEF Die, WriterIsKnown, WriterIsSaved, SavedWasTold, QuietIsEmpty,
                           ResetIsQuiet, TypeOK
<1>11. CASE Reset(b)
  <2>1. \A c \in Beats : ~Sending(c) /\ step[c] # "reset"
    BY <1>1, <1>3, <1>11 DEF Reset, WriterIsKnown
  <2> QED
    BY <1>1, <1>11, <2>1 DEF Reset, WriterIsKnown, WriterIsSaved, SavedWasTold, QuietIsEmpty,
                             ResetIsQuiet, TypeOK
<1>12. CASE Unavailable(b)
  BY <1>1, <1>3, <1>12 DEF Unavailable, WriterIsKnown, WriterIsSaved, SavedWasTold, QuietIsEmpty,
                           ResetIsQuiet, TypeOK
<1> QED
  BY <1>4, <1>5, <1>6, <1>7, <1>8, <1>9, <1>10, <1>11, <1>12 DEF Steps, Beat

LEMMA NextPagesInv ==
    ASSUME PagesInv, [Next]_vars PROVE PagesInv'
<1>1. TypeOK'
  BY TypePreserved
<1>2. CASE UNCHANGED <<content, writer, step, saw, told>>
  <2>1. Parts'
    BY <1>2, PagesInvParts DEF content, Parts, WriterIsKnown, WriterIsSaved, SavedWasTold,
                               QuietIsEmpty, ResetIsQuiet, Sending
  <2> QED
    BY <1>1, <2>1 DEF Parts, PagesInv, WriterIsKnown, WriterIsSaved, SavedWasTold, QuietIsEmpty, ResetIsQuiet
<1>3. ASSUME NEW b \in Beats, Steps(b) PROVE PagesInv'
  <2>1. Parts'
    BY <1>3, BeatPreserves
  <2> QED
    BY <1>1, <2>1 DEF Parts, PagesInv, WriterIsKnown, WriterIsSaved, SavedWasTold, QuietIsEmpty, ResetIsQuiet
<1> QED
  BY <1>2, <1>3 DEF Next, Drift, Damage, Steps, vars, pages, file

LEMMA InitPagesInv == Init => PagesInv
<1> SUFFICES ASSUME Init PROVE PagesInv
  OBVIOUS
<1>1. /\ deaths \in 0..MaxDeaths /\ told \in 0..4 /\ writer = Nobody
      /\ step \in [Beats -> {"idle", "decide", "reset", "send", "save", "failed"}]
      /\ saw \in [Beats -> SUBSET Codes]
  BY BeatsAssumption DEF Init
<1>2. TypeOK
  BY <1>1, Zenon DEF Init, TypeOK
<1>3. \A b \in Beats : step[b] = "idle" /\ writer # b
  BY BeatsAssumption DEF Init
<1> QED
  BY <1>2, <1>3 DEF PagesInv, Sending, Init

\* One heartbeat writes the file at a time, and from before its send until after
\* it the page counts as pending.
THEOREM PagesInvariant == Spec => []PagesInv
BY InitPagesInv, NextPagesInv, PTL DEF Spec

LEMMA NextTold ==
    ASSUME PagesInv, ToldWasDelivered, [Next]_vars PROVE ToldWasDelivered'
<1>1. TypeOK /\ TypeOK'
  BY TypePreserved DEF PagesInv
<1>2. CASE UNCHANGED pages
  BY <1>2 DEF pages, file, content, ToldWasDelivered
<1>4. CASE Damage
  BY <1>4 DEF Damage, content, ToldWasDelivered
<1>3. ASSUME NEW b \in Beats, Steps(b) PROVE ToldWasDelivered'
  <2>1. /\ saw[b] \subseteq Codes /\ Level(saw[b]) \in 0..4
        /\ Level(observed) \in 0..4 /\ told \in 0..4
    BY <1>1, LevelIsBounded DEF TypeOK
  <2>2. CASE ReadHealth(b) \/ OwnerBusy(b) \/ Unavailable(b) \/ SendFails(b) \/ Die(b)
    BY <2>2 DEF ReadHealth, OwnerBusy, Unavailable, SendFails, Die, file, content, ToldWasDelivered
  <2>3. CASE Reset(b) \/ Recovered(b) \/ Persist(b)
    BY <2>3 DEF Reset, Recovered, Persist, ToldWasDelivered
  <2>4. CASE Unchanged(b)
    BY <2>1, <2>4 DEF Unchanged, Notify, Escalation, ToldWasDelivered
  <2>5. CASE Deliver(b)
    <3>1. pending /\ UNCHANGED file
      BY <2>5 DEF Deliver, PagesInv, Sending
    <3> QED
      BY <3>1 DEF file, content, ToldWasDelivered
  <2>6. CASE SaveOutcome(b)
    <3>1. pending /\ observed = saw[b] /\ (step[b] = "save" => told >= Level(saw[b]))
      BY <2>6 DEF SaveOutcome, PagesInv, Sending
    <3>2. step[b] = "failed" => pending'
      BY <2>6, <3>1 DEF SaveOutcome
    <3> QED
      BY <2>6, <3>1, <3>2 DEF SaveOutcome, ToldWasDelivered
  <2> QED
    BY <1>3, <2>2, <2>3, <2>4, <2>5, <2>6 DEF Steps, Beat
<1> QED
  BY <1>2, <1>3, <1>4 DEF Next, Drift, Steps, vars

\* What the file calls told was delivered.
THEOREM ToldAlwaysWasDelivered == Spec => []ToldWasDelivered
<1>1. Init => ToldWasDelivered
  BY DEF Init, ToldWasDelivered
<1>2. PagesInv /\ ToldWasDelivered /\ [Next]_vars => ToldWasDelivered'
  BY NextTold
<1> QED
  BY <1>1, <1>2, PagesInvariant, PTL DEF Spec
=============================================================================
