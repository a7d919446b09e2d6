------------------------- MODULE MonitorRunsProofs --------------------------
(***************************************************************************)
(* The invariant of the monitor's runs, for any number of agents, scopes   *)
(* and deaths: whoever is past the ownership check holds the lock and      *)
(* finds its own rows, and nobody else's, where it left them.              *)
(***************************************************************************)
EXTENDS MonitorRuns, FiniteSetTheorems, TLAPS

\* Only the holder has anything to find.
LEMMA OthersExpectNothing ==
    ASSUME NEW a \in Agents, ~Holding(a)
    PROVE  RowsAsExpected(a)
BY DEF RowsAsExpected, Holding, Inside

\* A new scope has no rows yet.
LEMMA ClaimIsFresh ==
    ASSUME NEW a \in Agents, TypeOK, Claim(a)
    PROVE  /\ holder' = a /\ epoch' \in Epochs /\ epoch' # Nobody
           /\ \A r \in Started : r.epoch # epoch'
BY EpochsAssumption DEF Claim, Started

\* A set of at most one row is finite.
LEMMA OneRowIsFinite ==
    ASSUME NEW rows, AtMostOneRow(rows)
    PROVE  IsFiniteSet(rows) /\ Cardinality(rows) \in 0..1
<1>1. CASE rows = {}
  BY <1>1, FS_EmptySet
<1>2. CASE rows # {}
  <2>1. PICK r \in rows : TRUE
    BY <1>2
  <2>2. rows = {r}
    BY <2>1 DEF AtMostOneRow
  <2>3. IsFiniteSet({r}) /\ Cardinality({r}) = 1
    BY FS_Singleton
  <2> QED
    BY <2>2, <2>3
<1> QED
  BY <1>1, <1>2

\* An agent's step leaves the other agents where they are.
Alone(a) ==
    /\ \A b \in Agents \ {a} : pc'[b] = pc[b] /\ kind'[b] = kind[b]
    /\ pc' \in [Agents -> Pcs] /\ kind' \in [Agents -> Kinds]
    /\ errors' \in [Agents -> BOOLEAN]

LEMMA AgentsAlone ==
    ASSUME RunsInv, NEW a \in Agents, NEW k \in Kinds,
           Begin(a, k) \/ Step(a) \/ Crash(a)
    PROVE  Alone(a)
<1> USE DEF RunsInv, TypeOK, Alone, Goto, Gone, Pcs, Kinds
<1>1. CASE Begin(a, k)
  BY <1>1 DEF Begin
<1>2. CASE Crash(a)
  BY <1>2 DEF Crash
<1>3. CASE Dispatch(a) \/ Own(a) \/ Busy(a) \/ Leave(a)
  BY <1>3 DEF Dispatch, Own, Busy, Leave
<1>4. CASE Recover(a) \/ Gate(a) \/ Finish(a) \/ Fail(a)
  BY <1>4 DEF Recover, Gate, Finish, Fail
<1>5. CASE Adopt(a) \/ OpenPass(a) \/ Work(a) \/ ClosePass(a)
  BY <1>5 DEF Adopt, OpenPass, Work, Raised, ClosePass
<1> QED
  BY <1>1, <1>2, <1>3, <1>4, <1>5 DEF Step

\* A step of a that leaves lock and rows alone whenever another agent holds the
\* lock preserves the invariant if it does so for a itself.
LEMMA StepFrame ==
    ASSUME RunsInv, NEW a \in Agents, Alone(a), TypeOK', LockIsHeld',
           AtMostOneRow(jobs)', AtMostOneRow(passes)', RowsAsExpected(a)',
           \A b \in Agents \ {a} : Holding(b) => epoch' = epoch /\ jobs' = jobs /\ passes' = passes
    PROVE  RunsInv'
<1> SUFFICES ASSUME NEW b \in Agents, b # a PROVE RowsAsExpected(b)'
  BY DEF RunsInv
<1>1. CASE Holding(b)
  BY <1>1 DEF RunsInv, RowsAsExpected, Alone, Mine, Started, OwnRow, Holding
<1>2. CASE ~Holding(b)
  BY <1>2 DEF RowsAsExpected, Alone, Holding, Inside
<1> QED
  BY <1>1, <1>2

\* A step of the holder that keeps the lock.
LEMMA HolderFrame ==
    ASSUME RunsInv, NEW a \in Agents, Alone(a), Holding(a), UNCHANGED lock,
           TypeOK', AtMostOneRow(jobs)', AtMostOneRow(passes)', RowsAsExpected(a)',
           Holding(a)' \/ pc'[a] = "leave"
    PROVE  RunsInv'
<1>1. holder = a /\ \A b \in Agents \ {a} : ~Holding(b)
  BY DEF RunsInv, LockIsHeld
<1>2. LockIsHeld'
  BY <1>1 DEF RunsInv, LockIsHeld, lock, Alone, Holding
<1> QED
  BY <1>1, <1>2, StepFrame

\* The holder's scope has an identity.
LEMMA HolderHasEpoch ==
    ASSUME RunsInv, NEW a \in Agents, Holding(a) PROVE epoch \in Epochs
BY AgentsAssumption DEF RunsInv, LockIsHeld, TypeOK

LEMMA DispatchInv ==
    ASSUME RunsInv, NEW a \in Agents, Dispatch(a) PROVE RunsInv'
<1> USE DEF Dispatch, Goto, HandleFuse, ledger, lock
<1>1. Alone(a)
  BY AgentsAlone DEF Step, Kinds
<1>2. TypeOK'
  BY <1>1 DEF RunsInv, TypeOK, Alone
<1>3. LockIsHeld'
  BY DEF RunsInv, LockIsHeld, Holding, Inside, TypeOK
<1>4. RowsAsExpected(a)'
  BY DEF RunsInv, RowsAsExpected, Holding, Inside, TypeOK, Mine, Started
<1>5. AtMostOneRow(jobs)' /\ AtMostOneRow(passes)' /\ UNCHANGED <<epoch, jobs, passes>>
  BY DEF RunsInv, AtMostOneRow
<1> QED
  BY <1>1, <1>2, <1>3, <1>4, <1>5, StepFrame

LEMMA BeginInv ==
    ASSUME RunsInv, NEW a \in Agents, NEW k \in Kinds, Begin(a, k) PROVE RunsInv'
<1> USE DEF Begin, Goto, ledger, lock
<1>1. Alone(a)
  BY AgentsAlone
<1>2. UNCHANGED <<jobs, passes>> /\ (UNCHANGED lock \/ Claim(a))
  <2>1. CASE k = "worker"
    BY <2>1
  <2>2. CASE k # "worker"
    BY <2>2
  <2> QED
    BY <2>1, <2>2
<1>3. TypeOK'
  BY <1>1, ClaimIsFresh DEF RunsInv, TypeOK, Alone
<1>4. LockIsHeld'
  BY ClaimIsFresh, AgentsAssumption DEF RunsInv, LockIsHeld, Holding, Inside, TypeOK, Kinds, Claim
<1>5. RowsAsExpected(a)'
  BY ClaimIsFresh DEF RunsInv, RowsAsExpected, Holding, Inside, TypeOK, Mine, Started
<1>6. AtMostOneRow(jobs)' /\ AtMostOneRow(passes)'
  BY DEF RunsInv, AtMostOneRow
<1>7. \A b \in Agents \ {a} : Holding(b) => epoch' = epoch
  BY <1>2, AgentsAssumption DEF RunsInv, LockIsHeld, Claim
<1> QED
  BY <1>1, <1>2, <1>3, <1>4, <1>5, <1>6, <1>7, StepFrame

LEMMA OwnInv ==
    ASSUME RunsInv, NEW a \in Agents, Own(a) PROVE RunsInv'
<1> USE DEF Own, Goto, ledger, lock
<1>1. Alone(a)
  BY AgentsAlone DEF Step, Kinds
<1>2. UNCHANGED <<jobs, passes>> /\ ((UNCHANGED lock /\ kind[a] = "worker") \/ Claim(a))
  OBVIOUS
<1>3. TypeOK'
  BY <1>1, ClaimIsFresh DEF RunsInv, TypeOK, Alone
<1>4. LockIsHeld'
  BY ClaimIsFresh, AgentsAssumption DEF RunsInv, LockIsHeld, Holding, Inside, TypeOK, Kinds, Claim
<1>5. RowsAsExpected(a)'
  BY ClaimIsFresh DEF RunsInv, RowsAsExpected, Holding, Inside, TypeOK, Mine, Started
<1>6. AtMostOneRow(jobs)' /\ AtMostOneRow(passes)'
  BY DEF RunsInv, AtMostOneRow
<1>7. \A b \in Agents \ {a} : Holding(b) => epoch' = epoch
  BY <1>2, AgentsAssumption DEF RunsInv, LockIsHeld, Claim
<1> QED
  BY <1>1, <1>2, <1>3, <1>4, <1>5, <1>6, <1>7, StepFrame

\* Busy, Leave and Crash: the agent is gone, and the lock with it if it held it.
LEMMA GoneInv ==
    ASSUME RunsInv, NEW a \in Agents, Alone(a), Gone(a), UNCHANGED ledger,
           crashes' \in 0..MaxCrashes,
           Release(a) \/ (UNCHANGED lock /\ holder # a)
    PROVE  RunsInv'
<1> USE DEF Gone, Goto, Release, ledger, lock
<1>1. TypeOK'
  BY DEF RunsInv, TypeOK, Alone
<1>2. LockIsHeld'
  BY AgentsAssumption DEF RunsInv, LockIsHeld, Holding, Inside, TypeOK, Alone
<1>3. RowsAsExpected(a)'
  BY DEF RunsInv, RowsAsExpected, Holding, TypeOK, Inside
<1>4. AtMostOneRow(jobs)' /\ AtMostOneRow(passes)'
  BY DEF RunsInv, AtMostOneRow
<1>5. \A b \in Agents \ {a} : Holding(b) => epoch' = epoch
  BY DEF RunsInv, LockIsHeld
<1> QED
  BY <1>1, <1>2, <1>3, <1>4, <1>5, StepFrame

\* Recovery keeps the streak within its cap.
LEMMA StreakIsCapped ==
    ASSUME RunsInv, FailAbandoned PROVE streak' \in 0..MaxFailures
<1>1. {r \in jobs : r.epoch # epoch} \subseteq jobs /\ IsFiniteSet(jobs)
  BY OneRowIsFinite DEF RunsInv
<1>2. Cardinality({r \in jobs : r.epoch # epoch}) \in Nat
  BY <1>1, FS_Subset, FS_CardinalityType
<1> QED
  BY <1>2, FuseAssumption DEF RunsInv, TypeOK, FailAbandoned

\* With no dead job row there is nothing to count.
LEMMA StreakIsKept ==
    ASSUME RunsInv, FailAbandoned, \A r \in jobs : r.epoch = epoch PROVE streak' = streak
<1>1. {r \in jobs : r.epoch # epoch} = {}
  OBVIOUS
<1>2. Cardinality({r \in jobs : r.epoch # epoch}) = 0
  BY <1>1, FS_EmptySet
<1> QED
  BY <1>2, FuseAssumption DEF RunsInv, TypeOK, FailAbandoned

LEMMA RecoverInv ==
    ASSUME RunsInv, NEW a \in Agents, Recover(a) PROVE RunsInv'
<1> USE DEF Recover, Goto, FailAbandoned, ledger, lock
<1>1. Alone(a) /\ Holding(a)
  BY AgentsAlone DEF Step, Kinds, Holding, Inside
<1>2. Mine(Started) = {} => streak' \in 0..MaxFailures
  BY StreakIsCapped
<1>3. TypeOK'
  BY <1>1, <1>2 DEF RunsInv, TypeOK, Alone
<1>4. RowsAsExpected(a)'
  BY <1>1 DEF RunsInv, RowsAsExpected, Holding, Inside, TypeOK, Mine, Started, OwnRow, LockIsHeld
<1>5. AtMostOneRow(jobs)' /\ AtMostOneRow(passes)'
  BY DEF RunsInv, AtMostOneRow
<1>6. Holding(a)' \/ pc'[a] = "leave"
  BY <1>1 DEF Holding, Inside, RunsInv, TypeOK
<1> QED
  BY <1>1, <1>3, <1>4, <1>5, <1>6, HolderFrame

LEMMA GateInv ==
    ASSUME RunsInv, NEW a \in Agents, Gate(a) PROVE RunsInv'
<1>1. Alone(a) /\ Holding(a)
  BY AgentsAlone DEF Step, Kinds, Holding, Inside, Gate
<1> USE DEF Gate, Goto, lock, ledger, HandleFuse
<1>2. TypeOK'
  <2>1. [epoch |-> epoch, age |-> 0] \in Rows
    BY <1>1, HolderHasEpoch DEF Rows, Ages, LastAge
  <2>2. jobs' \subseteq Rows
    BY <2>1 DEF RunsInv, TypeOK
  <2>3. UNCHANGED <<passes, streak, since, taken, troubled, holder, epoch, crashes>> /\ fuseTold' \in BOOLEAN
    BY DEF RunsInv, TypeOK
  <2>4. TypeOK
    BY DEF RunsInv
  <2> HIDE DEF Gate
  <2> QED
    BY <1>1, <2>2, <2>3, <2>4, Zenon DEF TypeOK, Alone
<1>3. RowsAsExpected(a)'
  <2>1. jobs = {} /\ passes = {} /\ passes' = {} /\ kind[a] # "direct" /\ kind' = kind
    BY DEF RunsInv, RowsAsExpected
  <2>2. \/ pc'[a] = "leave" /\ jobs' = {}
        \/ pc'[a] = "adopt" /\ jobs' = {[epoch |-> epoch, age |-> 0]} /\ epoch' = epoch
    BY <2>1 DEF RunsInv, TypeOK
  <2> HIDE DEF Gate
  <2>3. CASE pc'[a] = "leave" /\ jobs' = {}
    BY <2>1, <2>3 DEF RowsAsExpected, Mine, Started
  <2>4. CASE pc'[a] = "adopt" /\ jobs' = {[epoch |-> epoch, age |-> 0]} /\ epoch' = epoch
    BY <2>1, <2>4 DEF RowsAsExpected, OwnRow
  <2> QED
    BY <2>2, <2>3, <2>4
<1>4. AtMostOneRow(jobs)' /\ AtMostOneRow(passes)'
  BY <1>1 DEF RunsInv, AtMostOneRow, RowsAsExpected
<1>5. Holding(a)' \/ pc'[a] = "leave"
  BY <1>1 DEF Holding, Inside, RunsInv, TypeOK
<1> QED
  BY <1>1, <1>2, <1>3, <1>4, <1>5, HolderFrame

LEMMA FinishInv ==
    ASSUME RunsInv, NEW a \in Agents, Finish(a) PROVE RunsInv'
<1>1. Alone(a) /\ Holding(a)
  BY AgentsAlone DEF Step, Kinds, Holding, Inside, Finish
<1> USE DEF Finish, Goto, lock, ledger
<1>2. TypeOK'
  <2>1. jobs' \subseteq Rows /\ troubled' \in BOOLEAN /\ taken' \in BOOLEAN /\ fuseTold' \in BOOLEAN
    BY DEF RunsInv, TypeOK, Mine
  <2>2. streak' \in 0..MaxFailures /\ since' \in 0..Never
    BY FuseAssumption DEF Never, LastAge
  <2>3. UNCHANGED <<holder, epoch, passes, crashes>>
    OBVIOUS
  <2>4. TypeOK
    BY DEF RunsInv
  <2> HIDE DEF Finish
  <2> QED
    BY <1>1, <2>1, <2>2, <2>3, <2>4, Zenon DEF TypeOK, Alone
<1>3. RowsAsExpected(a)'
  BY <1>1 DEF RunsInv, RowsAsExpected, Holding, Inside, TypeOK, Mine, Started, OwnRow, LockIsHeld, Scheduled, Kinds
<1>4. AtMostOneRow(jobs)' /\ AtMostOneRow(passes)'
  BY <1>1 DEF RunsInv, AtMostOneRow, RowsAsExpected
<1>5. Holding(a)' \/ pc'[a] = "leave"
  BY <1>1 DEF Holding, Inside, RunsInv, TypeOK
<1> QED
  BY <1>1, <1>2, <1>3, <1>4, <1>5, HolderFrame

LEMMA FailInv ==
    ASSUME RunsInv, NEW a \in Agents, Fail(a) PROVE RunsInv'
<1>1. Alone(a) /\ Holding(a)
  BY AgentsAlone DEF Step, Kinds, Holding, Inside, Fail
<1> USE DEF Fail, Goto, lock, ledger, Fused
<1>2. TypeOK'
  BY <1>1, HolderHasEpoch, FuseAssumption DEF RunsInv, TypeOK, Alone, Rows, Ages, LastAge
<1>3. RowsAsExpected(a)'
  BY <1>1 DEF RunsInv, RowsAsExpected, Holding, Inside, TypeOK, Mine, Started, OwnRow, LockIsHeld, Scheduled, Kinds
<1>4. AtMostOneRow(jobs)' /\ AtMostOneRow(passes)'
  BY <1>1 DEF RunsInv, AtMostOneRow, RowsAsExpected
<1>5. Holding(a)' \/ pc'[a] = "leave"
  BY <1>1 DEF Holding, Inside, RunsInv, TypeOK
<1> QED
  BY <1>1, <1>2, <1>3, <1>4, <1>5, HolderFrame

LEMMA AdoptInv ==
    ASSUME RunsInv, NEW a \in Agents, Adopt(a) PROVE RunsInv'
<1>1. Alone(a) /\ Holding(a)
  BY AgentsAlone DEF Step, Kinds, Holding, Inside, Adopt
<1> USE DEF Adopt, Goto, lock, ledger, Raised
<1>2. TypeOK'
  BY <1>1, StreakIsCapped DEF RunsInv, TypeOK, Alone, FailAbandoned
<1>3. RowsAsExpected(a)'
  BY <1>1 DEF RunsInv, RowsAsExpected, Holding, Inside, TypeOK, Mine, Started, OwnRow, FailAbandoned
<1>4. AtMostOneRow(jobs)' /\ AtMostOneRow(passes)'
  BY <1>1 DEF RunsInv, AtMostOneRow, FailAbandoned
<1>5. Holding(a)' \/ pc'[a] = "leave"
  BY <1>1 DEF Holding, Inside, RunsInv, TypeOK
<1> QED
  BY <1>1, <1>2, <1>3, <1>4, <1>5, HolderFrame

LEMMA OpenInv ==
    ASSUME RunsInv, NEW a \in Agents, OpenPass(a) PROVE RunsInv'
<1>1. Alone(a) /\ Holding(a)
  BY AgentsAlone DEF Step, Kinds, Holding, Inside, OpenPass
<1> USE DEF OpenPass, Goto, lock, ledger
<1>2. TypeOK'
  BY <1>1, HolderHasEpoch, FuseAssumption DEF RunsInv, TypeOK, Alone, Rows, Ages, LastAge, Never
<1>3. RowsAsExpected(a)'
  <2>1. pc'[a] = "work" /\ passes' = {[epoch |-> epoch, age |-> 0]} /\ UNCHANGED <<jobs, epoch, kind>>
    BY DEF RunsInv, RowsAsExpected, TypeOK
  <2>2. IF kind[a] = "direct" THEN jobs = {} ELSE OwnRow(jobs)
    BY DEF RunsInv, RowsAsExpected
  <2> HIDE DEF OpenPass
  <2> QED
    BY <2>1, <2>2 DEF RowsAsExpected, OwnRow, Holding, Inside
<1>4. AtMostOneRow(jobs)' /\ AtMostOneRow(passes)'
  BY <1>1 DEF RunsInv, AtMostOneRow, RowsAsExpected
<1>5. Holding(a)' \/ pc'[a] = "leave"
  BY <1>1 DEF Holding, Inside, RunsInv, TypeOK
<1> QED
  BY <1>1, <1>2, <1>3, <1>4, <1>5, HolderFrame

LEMMA WorkInv ==
    ASSUME RunsInv, NEW a \in Agents, Work(a) PROVE RunsInv'
<1>1. Alone(a) /\ Holding(a)
  BY AgentsAlone DEF Step, Kinds, Holding, Inside, Work
<1> USE DEF Work, Goto, lock, ledger, Raised
<1>2. TypeOK'
  BY <1>1, HolderHasEpoch, FuseAssumption DEF RunsInv, TypeOK, Alone, Rows, Ages, LastAge, Never
<1>3. RowsAsExpected(a)'
  BY <1>1 DEF RunsInv, RowsAsExpected, Holding, Inside, TypeOK, Mine, Started, OwnRow, LockIsHeld, Scheduled, Kinds
<1>4. AtMostOneRow(jobs)' /\ AtMostOneRow(passes)'
  BY <1>1 DEF RunsInv, AtMostOneRow, RowsAsExpected
<1>5. Holding(a)' \/ pc'[a] = "leave"
  BY <1>1 DEF Holding, Inside, RunsInv, TypeOK
<1> QED
  BY <1>1, <1>2, <1>3, <1>4, <1>5, HolderFrame

LEMMA CloseInv ==
    ASSUME RunsInv, NEW a \in Agents, ClosePass(a) PROVE RunsInv'
<1>1. Alone(a) /\ Holding(a)
  BY AgentsAlone DEF Step, Kinds, Holding, Inside, ClosePass
<1> USE DEF ClosePass, Goto, lock, ledger
<1>2. TypeOK'
  BY <1>1, HolderHasEpoch, FuseAssumption DEF RunsInv, TypeOK, Alone, Rows, Ages, LastAge, Never
<1>3. RowsAsExpected(a)'
  BY <1>1 DEF RunsInv, RowsAsExpected, Holding, Inside, TypeOK, Mine, Started, OwnRow, LockIsHeld, Scheduled, Kinds
<1>4. AtMostOneRow(jobs)' /\ AtMostOneRow(passes)'
  BY <1>1 DEF RunsInv, AtMostOneRow, RowsAsExpected
<1>5. Holding(a)' \/ pc'[a] = "leave"
  BY <1>1 DEF Holding, Inside, RunsInv, TypeOK
<1> QED
  BY <1>1, <1>2, <1>3, <1>4, <1>5, HolderFrame

\* Time makes rows older and changes nothing else about them.
LEMMA TickInv ==
    ASSUME RunsInv, Tick PROVE RunsInv'
<1> USE DEF Tick, lock
<1> DEFINE Aged(r) == [r EXCEPT !.age = IF @ < LastAge THEN @ + 1 ELSE @]
<1>1. \A r \in Rows : Aged(r) \in Rows /\ Aged(r).epoch = r.epoch
  BY DEF Rows, Ages, LastAge
<1>2. \A rows : Older(rows) = {Aged(r) : r \in rows}
  BY DEF Older
<1>3. jobs' = {Aged(r) : r \in jobs} /\ passes' = {Aged(r) : r \in passes}
  BY <1>2
<1>4. jobs \subseteq Rows /\ passes \subseteq Rows
  BY DEF RunsInv, TypeOK
<1> HIDE DEF Aged
<1>5. TypeOK'
  <2>1. jobs' \subseteq Rows /\ passes' \subseteq Rows
    BY <1>1, <1>3, <1>4
  <2>2. since' \in 0..Never
    BY DEF RunsInv, TypeOK, Never, LastAge
  <2>5. taken' \in BOOLEAN
    BY Zenon
  <2>3. UNCHANGED <<holder, epoch, streak, troubled, fuseTold, pc, kind, errors, crashes>>
    OBVIOUS
  <2>4. TypeOK
    BY DEF RunsInv
  <2> HIDE DEF Tick
  <2> QED
    BY <2>1, <2>2, <2>3, <2>4, <2>5, Zenon DEF TypeOK
<1>6. LockIsHeld'
  BY DEF RunsInv, LockIsHeld, Holding
<1>7. AtMostOneRow(jobs)' /\ AtMostOneRow(passes)'
  BY <1>3 DEF RunsInv, AtMostOneRow
<1>8. ASSUME NEW a \in Agents PROVE RowsAsExpected(a)'
  <2>1. UNCHANGED <<epoch, pc, kind, holder>>
    OBVIOUS
  <2>2. (jobs = {} <=> jobs' = {}) /\ (passes = {} <=> passes' = {})
    BY <1>3
  <2>3. (\A r \in jobs : r.epoch = epoch) => \A r \in jobs' : r.epoch = epoch
    BY <1>1, <1>3, <1>4
  <2>4. (\A r \in passes : r.epoch = epoch) => \A r \in passes' : r.epoch = epoch
    BY <1>1, <1>3, <1>4
  <2>5. Mine(Started) = {} => Mine(Started)' = {}
    BY <1>1, <1>3, <1>4, <2>1 DEF Mine, Started
  <2>6. OwnRow(jobs) => OwnRow(jobs)'
    BY <2>1, <2>2, <2>3 DEF OwnRow
  <2>7. OwnRow(passes) => OwnRow(passes)'
    BY <2>1, <2>2, <2>4 DEF OwnRow
  <2>8. RowsAsExpected(a)
    BY DEF RunsInv
  <2> HIDE DEF Tick
  <2> QED
    BY <2>1, <2>2, <2>5, <2>6, <2>7, <2>8 DEF RowsAsExpected, Holding
<1> QED
  BY <1>5, <1>6, <1>7, <1>8 DEF RunsInv

LEMMA BusyInv ==
    ASSUME RunsInv, NEW a \in Agents, Busy(a) PROVE RunsInv'
<1>1. Alone(a) /\ Gone(a) /\ UNCHANGED ledger /\ UNCHANGED lock /\ crashes' = crashes
  BY AgentsAlone DEF Step, Kinds, Busy, lock
<1>2. holder # a
  BY DEF RunsInv, LockIsHeld, Holding, Inside, Busy
<1> QED
  BY <1>1, <1>2, GoneInv DEF RunsInv, TypeOK

LEMMA LeaveInv ==
    ASSUME RunsInv, NEW a \in Agents, Leave(a) PROVE RunsInv'
<1>1. Alone(a) /\ Gone(a) /\ UNCHANGED ledger /\ Release(a) /\ crashes' = crashes
  BY AgentsAlone DEF Step, Kinds, Leave
<1> QED
  BY <1>1, GoneInv DEF RunsInv, TypeOK

LEMMA CrashInv ==
    ASSUME RunsInv, NEW a \in Agents, Crash(a) PROVE RunsInv'
<1>1. Alone(a) /\ Gone(a) /\ UNCHANGED ledger /\ Release(a)
  BY AgentsAlone DEF Kinds, Crash
<1>2. crashes' \in 0..MaxCrashes
  BY FuseAssumption DEF RunsInv, TypeOK, Crash
<1> QED
  BY <1>1, <1>2, GoneInv

LEMMA StutterInv ==
    ASSUME RunsInv, UNCHANGED vars PROVE RunsInv'
<1>1. UNCHANGED <<holder, epoch, jobs, passes, streak, since, taken, troubled, fuseTold,
                  pc, kind, errors, crashes>>
  BY DEF vars, lock, ledger
<1>2. TypeOK' = TypeOK
  BY <1>1, Zenon DEF TypeOK
<1>5. LockIsHeld' = LockIsHeld
  BY <1>1 DEF LockIsHeld, Holding
<1>3. AtMostOneRow(jobs)' = AtMostOneRow(jobs) /\ AtMostOneRow(passes)' = AtMostOneRow(passes)
  BY <1>1, Zenon DEF AtMostOneRow
<1>4. \A a \in Agents : RowsAsExpected(a)' = RowsAsExpected(a)
  BY <1>1 DEF RowsAsExpected, OwnRow, Mine, Started, Holding
<1> QED
  BY <1>2, <1>3, <1>4, <1>5 DEF RunsInv

LEMMA InitRunsInv == Init => RunsInv
<1> SUFFICES ASSUME Init PROVE RunsInv
  OBVIOUS
<1>1. TypeOK
  <2>1. streak \in 0..MaxFailures /\ since \in 0..Never /\ crashes \in 0..MaxCrashes
    BY FuseAssumption DEF Init, Never, LastAge
  <2>2. pc \in [Agents -> Pcs] /\ kind \in [Agents -> Kinds]
    BY DEF Init, Pcs, Kinds
  <2> QED
    BY <2>1, <2>2, Zenon DEF Init, TypeOK
<1>2. LockIsHeld
  BY AgentsAssumption DEF Init, LockIsHeld, Holding, Inside
<1>3. \A a \in Agents : RowsAsExpected(a)
  BY DEF Init, RowsAsExpected, Holding
<1> QED
  BY <1>1, <1>2, <1>3 DEF RunsInv, AtMostOneRow, Init

LEMMA NextRunsInv ==
    ASSUME RunsInv, [Next]_vars PROVE RunsInv'
<1>1. ASSUME NEW a \in Agents, NEW k \in Kinds, Begin(a, k) PROVE RunsInv'
  BY <1>1, BeginInv
<1>2. ASSUME NEW a \in Agents, Step(a) PROVE RunsInv'
  BY <1>2, DispatchInv, OwnInv, BusyInv, LeaveInv, RecoverInv, GateInv, FinishInv,
     FailInv, AdoptInv, OpenInv, WorkInv, CloseInv DEF Step
<1>3. ASSUME NEW a \in Agents, Crash(a) PROVE RunsInv'
  BY <1>3, CrashInv
<1> QED
  BY <1>1, <1>2, <1>3, TickInv, StutterInv DEF Next

\* The inductive invariant: whoever is past the ownership check holds the lock
\* and finds its own rows, and only those, where it left them.
THEOREM RunsInvariant == Spec => []RunsInv
BY InitRunsInv, NextRunsInv, PTL DEF Spec

\* At most one pass works at a time, on the only open rows.
LEMMA OnePassFromInv == RunsInv => OnePass
<1> SUFFICES ASSUME RunsInv PROVE OnePass
  OBVIOUS
<1>1. \A a \in Agents : Working(a) => Holding(a)
  BY DEF Working, Holding, Inside
<1>2. \A a, b \in Agents : Working(a) /\ Working(b) => a = b
  BY <1>1 DEF RunsInv, LockIsHeld
<1>3. \A a \in Agents : Working(a) => /\ OwnRow(passes)
                                     /\ IF kind[a] = "direct" THEN jobs = {} ELSE OwnRow(jobs)
  BY DEF RunsInv, RowsAsExpected, Working
<1>4. \A a \in Agents : Working(a) => ~EntryReady
  BY <1>3 DEF OwnRow, EntryReady, Started
<1> QED
  BY <1>2, <1>3, <1>4 DEF OnePass

THEOREM OnePassAlways == Spec => []OnePass
BY RunsInvariant, OnePassFromInv, PTL

\* Only the holder's steps change the streak, and none of them trips the fuse
\* under a scheduled run: the recovery that could has run before the gate.
LEMMA NextFuseHolds ==
    ASSUME RunsInv, FuseHolds, [Next]_vars PROVE FuseHolds'
<1> DEFINE Under(b) == kind[b] \in Scheduled /\ pc[b] \in {"adopt", "open", "work", "close", "finish"}
<1>1. \A b \in Agents : Under(b) => Holding(b)
  BY DEF Holding, Inside
<1>2. \A b, c \in Agents : Holding(b) /\ Holding(c) => b = c
  BY DEF RunsInv, LockIsHeld
<1> SUFFICES ASSUME NEW b \in Agents, Under(b)' PROVE ~Fused'
  BY DEF FuseHolds
<1>3. CASE UNCHANGED <<streak, pc, kind>>
  BY <1>3 DEF FuseHolds, Fused
<1>4. ASSUME NEW a \in Agents, NEW k \in Kinds, Begin(a, k) PROVE ~Fused'
  BY <1>4, AgentsAlone DEF Alone, Begin, Goto, ledger, Fused, FuseHolds, RunsInv, TypeOK
<1>5. ASSUME NEW a \in Agents, Busy(a) \/ Leave(a) \/ Crash(a) PROVE ~Fused'
  BY <1>5 DEF Busy, Leave, Crash, Gone, Goto, ledger, Fused, FuseHolds, RunsInv, TypeOK
<1>6. ASSUME NEW a \in Agents, Dispatch(a) \/ Own(a) PROVE ~Fused'
  BY <1>6 DEF Dispatch, Own, HandleFuse, Goto, ledger, Fused, FuseHolds, RunsInv, TypeOK, Scheduled
<1>7. ASSUME NEW a \in Agents, Gate(a) PROVE ~Fused'
  BY <1>7 DEF Gate, HandleFuse, Goto, ledger, Fused, FuseHolds, RunsInv, TypeOK, Scheduled
<1>8. ASSUME NEW a \in Agents, OpenPass(a) \/ Work(a) \/ ClosePass(a) PROVE ~Fused'
  BY <1>8 DEF OpenPass, Work, Raised, ClosePass, Goto, ledger, Fused, FuseHolds, RunsInv, TypeOK, Scheduled
<1>9. ASSUME NEW a \in Agents, Finish(a) PROVE ~Fused'
  BY <1>9, FuseAssumption DEF Finish, Fused
<1>10. ASSUME NEW a \in Agents, Recover(a) \/ Fail(a) PROVE ~Fused'
  <2>1. Holding(a) /\ ~Under(a)' /\ \A c \in Agents \ {a} : pc'[c] = pc[c] /\ kind'[c] = kind[c]
    BY <1>10 DEF Recover, Fail, Goto, Holding, Inside, RunsInv, TypeOK
  <2> QED
    BY <1>1, <1>2, <2>1
<1>11. ASSUME NEW a \in Agents, Adopt(a) PROVE ~Fused'
  <2>1. Holding(a) /\ kind' = kind /\ \A c \in Agents \ {a} : pc'[c] = pc[c]
    BY <1>11 DEF Adopt, Raised, Goto, Holding, Inside, RunsInv, TypeOK
  <2>2. b = a
    BY <1>1, <1>2, <2>1
  <2>3. pc[a] = "adopt" /\ kind[a] \in Scheduled /\ pc'[a] = "open"
    BY <1>11, <2>1, <2>2 DEF Adopt, Raised, Goto, RunsInv, TypeOK
  <2>4. ~Fused /\ FailAbandoned
    BY <1>11, <2>3 DEF FuseHolds, Adopt, Raised, Goto, RunsInv, TypeOK, Scheduled
  <2>5. \A r \in jobs : r.epoch = epoch
    BY <2>3 DEF RunsInv, RowsAsExpected, OwnRow, Scheduled
  <2> QED
    BY <2>4, <2>5, StreakIsKept DEF Fused
<1> QED
  BY <1>3, <1>4, <1>5, <1>6, <1>7, <1>8, <1>9, <1>10, <1>11 DEF Next, Step, Tick, vars, ledger

\* While the fuse is tripped no scheduled run is under way (every read of the fuse
\* by cadence.is_fused succeeds in the module).
THEOREM FuseAlwaysHolds == Spec => []FuseHolds
<1>1. Init => FuseHolds
  BY DEF Init, FuseHolds
<1>2. RunsInv /\ FuseHolds /\ [Next]_vars => FuseHolds'
  BY NextFuseHolds
<1> QED
  BY <1>1, <1>2, RunsInvariant, PTL DEF Spec
=============================================================================
