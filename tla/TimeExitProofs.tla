--------------------------- MODULE TimeExitProofs ---------------------------
(***************************************************************************)
(* The reduction of a position, for any number of passes and any quantity. *)
(*                                                                         *)
(* Submissions: an intent is submitted at most once, by the pass whose     *)
(* compare-and-set took it out of "canceling" or by the one that inserted  *)
(* it.  Types: no pass works on what it does not have, and no fill is      *)
(* booked that the broker does not have.  Both assume neither ownership of *)
(* the monitor nor prompt delivery.                                        *)
(*                                                                         *)
(* Safety: under the monitor's lock, and if no POST arrives after a lookup *)
(* missed it, the exit orders never sell more than is held, an order is    *)
(* submitted for exactly what is held, and the steps are those of          *)
(* ExitBudget.                                                             *)
(***************************************************************************)
EXTENDS TimeExit, FiniteSetTheorems, TLAPS

USE DEF ledgerVars, brokerVars, passVars, Quiet

----------------------------------------------------------------------------
(* Submissions.                                                             *)

\* Nobody has yet taken the right to submit an intent in these phases.
Unsent == {"none", "canceling"}

\* A reading says where the pass goes on once it is booked.
Reading(r) == "back" \in DOMAIN r /\ r.back \in Books

Shape ==
    /\ phase \in [Intents -> Phases] /\ posts \in [Intents -> Nat]
    /\ pc \in [Passes -> Pcs]
    /\ row \in [Passes -> Closes \cup {NoOrder}]
    /\ oco \in [Passes -> Ocos \cup {NoOrder}]
    /\ DOMAIN seen = Passes /\ \A p \in Passes : Reading(seen[p])

\* What a pass is about to submit, if it is about to submit anything.
Sends(p, i) ==
    \/ pc[p] = "post" /\ row[p] = i
    \/ pc[p] = "repost" /\ oco[p] = i

\* The inductive invariant: an intent has one sender, who took it from the unsent
\* phases, to which no intent returns.
SubmissionInv ==
    /\ Shape
    /\ \A i \in Intents : posts[i] <= 1
    /\ \A i \in Intents : phase[i] \in Unsent => posts[i] = 0
    /\ \A p \in Passes : \A i \in Intents :
          Sends(p, i) => posts[i] = 0 /\ phase[i] \notin Unsent
    /\ \A p, q \in Passes : \A i \in Intents : Sends(p, i) /\ Sends(q, i) => p = q

\* The names of the orders keep apart.
LEMMA Names ==
    /\ Closes \subseteq Intents /\ Ocos \subseteq Intents
    /\ \A i \in Closes : i \notin Ocos
    /\ NoOrder \notin Intents
BY DEF Closes, Ocos, Intents, NoOrder

\* A pass p moves, anywhere but to a submission.
Moves(p) ==
    /\ pc' \in [Passes -> Pcs]
    /\ row' \in [Passes -> Closes \cup {NoOrder}]
    /\ oco' \in [Passes -> Ocos \cup {NoOrder}]
    /\ DOMAIN seen' = Passes /\ \A q \in Passes : Reading(seen'[q])
    /\ \A q \in Passes \ {p} : pc'[q] = pc[q] /\ row'[q] = row[q] /\ oco'[q] = oco[q]
    /\ pc'[p] \notin {"post", "repost"}

\* A step that makes no POST, gives nobody the right to make one and returns no
\* intent to the unsent phases preserves the invariant.
LEMMA SubmissionFrame ==
    ASSUME SubmissionInv, NEW p \in Passes, Moves(p), posts' = posts,
           phase' \in [Intents -> Phases],
           \A i \in Intents : phase'[i] \in Unsent => phase[i] \in Unsent
    PROVE  SubmissionInv'
<1>1. Shape' BY DEF SubmissionInv, Shape, Moves
<1>2. \A q \in Passes : pc'[q] \in {"post", "repost"} =>
          q # p /\ pc'[q] = pc[q] /\ row'[q] = row[q] /\ oco'[q] = oco[q]
    BY DEF Moves
<1> QED BY <1>1, <1>2 DEF SubmissionInv, Sends

\* The phases an intent moves to once its right is taken.
LEMMA PhaseMoves ==
    ASSUME Shape, NEW i, NEW to \in Phases \ Unsent,
           phase' = [phase EXCEPT ![i] = to] \/ phase' = phase
    PROVE  /\ phase' \in [Intents -> Phases]
           /\ \A j \in Intents : phase'[j] \in Unsent => phase[j] \in Unsent
BY DEF Shape

\* The ways out of an action are moves.
LEMMA WaysOut ==
    ASSUME Shape, NEW p \in Passes, NEW at \in Pcs \ {"post", "repost"},
           Goto(p, at) \/ Leave(p) \/ Flag(p) \/ Settling(p)
    PROVE  Moves(p)
<1>1. /\ "watch" \in Pcs \ {"post", "repost"} /\ "settle" \in Pcs \ {"post", "repost"}
      BY DEF Pcs
<1>2. Reading(NoSeen) BY DEF Reading, NoSeen, Books
<1> QED BY <1>1, <1>2 DEF Shape, Goto, Leave, Flag, Settling, Moves

\* So are the reads.
LEMMA ReadMoves ==
    ASSUME Shape, NEW p \in Passes, NEW o, NEW back \in Books,
           ReadAndBook(p, o, back)
    PROVE  Moves(p)
<1>1. {"book"} \cup Books \subseteq Pcs \ {"post", "repost"} BY DEF Pcs, Books
<1>2. Reading([order |-> o, filled |-> filled[o], dead |-> live[o] = "dead", qty |-> 0,
               back |-> back])
    BY DEF Reading
<1>3. DOMAIN seen' = Passes /\ \A q \in Passes : Reading(seen'[q])
    BY <1>2 DEF Shape, ReadAndBook, Read
<1> QED BY <1>1, <1>3 DEF Shape, ReadAndBook, Moves

\* Init gives nobody anything to submit.
LEMMA InitSubmission == Init => SubmissionInv
<1> SUFFICES ASSUME Init PROVE SubmissionInv OBVIOUS
<1>1. /\ \A p \in Passes : pc[p] = "idle"
      /\ \A i \in Intents : posts[i] = 0
    BY DEF Init
<1>2. Reading(NoSeen) BY DEF Reading, NoSeen, Books
<1>3. Shape BY <1>2 DEF Init, Shape, Phases, ActivePhases, Pcs
<1> QED BY <1>1, <1>3 DEF SubmissionInv, Sends

\* The accounting of fills, and the watchdog, submit nothing.
LEMMA AccountingSubmission ==
    ASSUME SubmissionInv, NEW p \in Passes,
           \/ Start(p) \/ Reconcile(p) \/ Watchdog(p)
           \/ CheckFlat(p) \/ BookFill(p) \/ ClosePosition(p) \/ Settle(p)
    PROVE  SubmissionInv'
<1>1. Shape /\ seen[p].back \in Books BY DEF SubmissionInv, Shape, Reading
<1>2. Books \subseteq Pcs \ {"post", "repost"} /\ "enforce" \in Books BY DEF Books, Pcs
<1>3. {"book", "reconcile", "enforce", "idle", "flat", "close", "observed", "unverified"}
          \subseteq Pcs \ {"post", "repost"}
    BY DEF Pcs
<1>4. /\ phase \in [Intents -> Phases] /\ {"complete", "terminal"} \subseteq Phases \ Unsent
    BY <1>1 DEF Shape, Phases, Unsent, ActivePhases
<1>5. CASE Start(p)
    BY <1>1, <1>3, <1>4, <1>5, WaysOut, SubmissionFrame DEF Start
<1>6. CASE Reconcile(p)
    BY <1>1, <1>3, <1>4, <1>2, <1>6, WaysOut, ReadMoves, SubmissionFrame DEF Reconcile
<1>7. CASE Watchdog(p)
    BY <1>1, <1>3, <1>4, <1>7, WaysOut, SubmissionFrame DEF Watchdog
<1>8. CASE CheckFlat(p)
    BY <1>1, <1>2, <1>3, <1>4, <1>8, WaysOut, SubmissionFrame DEF CheckFlat, BookingFailed
<1>9. CASE BookFill(p)
    BY <1>1, <1>2, <1>3, <1>4, <1>9, WaysOut, SubmissionFrame DEF BookFill, BookingFailed, BookedClosed
<1>10. CASE ClosePosition(p)
    BY <1>1, <1>2, <1>3, <1>4, <1>10, WaysOut, PhaseMoves, SubmissionFrame
    DEF ClosePosition, BookedClosed
<1>11. CASE Settle(p)
    BY <1>1, <1>3, <1>4, <1>11, WaysOut, PhaseMoves, SubmissionFrame DEF Settle
<1> QED BY <1>5, <1>6, <1>7, <1>8, <1>9, <1>10, <1>11

\* The steps that only look at what was submitted before submit nothing.
LEMMA ObservationSubmission ==
    ASSUME SubmissionInv, NEW p \in Passes,
           \/ Enforce(p) \/ Lookup(p) \/ Absent(p) \/ Observe(p) \/ Observed(p)
           \/ Ask(p) \/ Confirm(p) \/ Poll(p)
    PROVE  SubmissionInv'
<1>1. Shape BY DEF SubmissionInv
<1>2. {"relookup", "session", "lookup", "observe", "absent", "recover", "book", "observed",
       "confirm", "poll"} \subseteq Pcs \ {"post", "repost"}
    BY DEF Pcs
<1>3. /\ phase \in [Intents -> Phases]
      /\ {"terminal", "working", "unknown"} \subseteq Phases \ Unsent
    BY <1>1 DEF Shape, Phases, Unsent, ActivePhases
<1>4. Reading(NoSeen) /\ "observed" \in Books BY DEF Reading, NoSeen, Books
<1>5. ASSUME Enforce(p) PROVE Moves(p)
    <2>1. CASE Leave(p) BY <1>1, <1>2, <2>1, WaysOut
    <2>2. CASE ~Leave(p)
        BY <1>1, <1>2, <1>4, <1>5, <2>2 DEF Enforce, Active, Shape, Moves
    <2> QED BY <2>1, <2>2
<1>6. ASSUME NEW o, Read(p, o, "observed") PROVE DOMAIN seen' = Passes /\ \A q \in Passes : Reading(seen'[q])
    BY <1>1, <1>4, <1>6 DEF Shape, Read, Reading
<1>7. ASSUME Lookup(p) PROVE Moves(p)
    <2>1. CASE Flag(p) \/ Goto(p, "absent") BY <1>1, <1>2, <2>1, WaysOut
    <2>2. CASE Read(p, row[p], "observed") /\ pc' = [pc EXCEPT ![p] = "observe"] /\ UNCHANGED <<row, oco>>
        BY <1>1, <1>2, <1>6, <2>2 DEF Shape, Moves
    <2> QED BY <1>7, <2>1, <2>2 DEF Lookup
<1>8. ASSUME Ask(p) PROVE Moves(p)
    <2>1. CASE Flag(p) \/ Goto(p, "absent") BY <1>1, <1>2, <2>1, WaysOut
    <2>2. CASE Read(p, row[p], "observed") /\ pc' = [pc EXCEPT ![p] = "confirm"] /\ UNCHANGED <<row, oco>>
        BY <1>1, <1>2, <1>6, <2>2 DEF Shape, Moves
    <2> QED BY <1>8, <2>1, <2>2 DEF Ask
<1>9. ASSUME Poll(p) PROVE Moves(p)
    <2>1. CASE Flag(p) BY <1>1, <1>2, <2>1, WaysOut
    <2>2. CASE Read(p, row[p], "observed") /\ pc' = [pc EXCEPT ![p] = "observe"] /\ UNCHANGED <<row, oco>>
        BY <1>1, <1>2, <1>6, <2>2 DEF Shape, Moves
    <2> QED BY <1>9, <2>1, <2>2 DEF Poll
<1>10. ASSUME pc' = [pc EXCEPT ![p] = "recover"], row' = [row EXCEPT ![p] = NoOrder],
              UNCHANGED <<oco, seen>>
       PROVE Moves(p)
    BY <1>1, <1>2, <1>10 DEF Shape, Moves
<1>11. CASE Enforce(p) BY <1>3, <1>5, <1>11, SubmissionFrame DEF Enforce
<1>12. CASE Lookup(p) BY <1>3, <1>7, <1>12, SubmissionFrame DEF Lookup
<1>13. CASE Absent(p) BY <1>1, <1>3, <1>10, <1>13, PhaseMoves, SubmissionFrame DEF Absent
<1>14. CASE Observe(p) BY <1>1, <1>2, <1>3, <1>14, WaysOut, PhaseMoves, SubmissionFrame DEF Observe
<1>15. CASE Observed(p)
    BY <1>1, <1>2, <1>3, <1>10, <1>15, WaysOut, PhaseMoves, SubmissionFrame DEF Observed
<1>16. CASE Ask(p) BY <1>1, <1>3, <1>8, <1>16, PhaseMoves, SubmissionFrame DEF Ask
<1>17. CASE Confirm(p) BY <1>1, <1>2, <1>3, <1>17, WaysOut, PhaseMoves, SubmissionFrame DEF Confirm
<1>18. CASE Poll(p) BY <1>3, <1>9, <1>18, SubmissionFrame DEF Poll
<1> QED BY <1>11, <1>12, <1>13, <1>14, <1>15, <1>16, <1>17, <1>18

\* Nothing is submitted while the protection is cancelled and verified.
LEMMA CancellationSubmission ==
    ASSUME SubmissionInv, NEW p \in Passes,
           \/ CheckSession(p) \/ ReadProtection(p) \/ FreshProtected(p) \/ Cancel(p)
           \/ Verify(p) \/ Verified(p) \/ Unverified(p) \/ FreshCancelled(p) \/ StillRegular(p)
    PROVE  SubmissionInv'
<1>1. Shape BY DEF SubmissionInv
<1>2. {"protection", "recover", "cancel", "elect", "verify", "unverified", "free", "still",
       "claim"} \subseteq Pcs \ {"post", "repost"}
    BY DEF Pcs
<1>3. phase \in [Intents -> Phases] BY <1>1 DEF Shape
<1>4. {"fresh", "verified"} \subseteq Books BY DEF Books
<1>5. CASE CheckSession(p) BY <1>1, <1>2, <1>3, <1>5, WaysOut, SubmissionFrame DEF CheckSession
<1>6. CASE ReadProtection(p)
    BY <1>1, <1>2, <1>3, <1>4, <1>6, WaysOut, ReadMoves, SubmissionFrame DEF ReadProtection
<1>7. CASE FreshProtected(p) BY <1>1, <1>2, <1>3, <1>7, WaysOut, SubmissionFrame DEF FreshProtected
<1>8. CASE Cancel(p) BY <1>1, <1>2, <1>3, <1>8, WaysOut, SubmissionFrame DEF Cancel
<1>9. CASE Verify(p)
    BY <1>1, <1>2, <1>3, <1>4, <1>9, WaysOut, ReadMoves, SubmissionFrame DEF Verify
<1>10. CASE Verified(p) BY <1>1, <1>2, <1>3, <1>10, WaysOut, SubmissionFrame DEF Verified
<1>11. CASE Unverified(p) BY <1>1, <1>2, <1>3, <1>11, WaysOut, SubmissionFrame DEF Unverified
<1>12. CASE FreshCancelled(p)
    <2>1. CASE Flag(p) BY <1>1, <1>2, <1>3, <1>12, <2>1, WaysOut, SubmissionFrame DEF FreshCancelled
    <2>2. CASE ~Flag(p)
        <3>1. Moves(p)
            BY <1>1, <1>2, <1>12, <2>2 DEF FreshCancelled, Shape, Moves, Reading
        <3> QED BY <1>3, <1>12, <3>1, SubmissionFrame DEF FreshCancelled
    <2> QED BY <2>1, <2>2
<1>13. CASE StillRegular(p) BY <1>1, <1>2, <1>3, <1>13, WaysOut, SubmissionFrame DEF StillRegular
<1> QED BY <1>5, <1>6, <1>7, <1>8, <1>9, <1>10, <1>11, <1>12, <1>13

\* The recovery of protection, up to its own submission.
LEMMA RecoverySubmission ==
    ASSUME SubmissionInv, NEW p \in Passes,
           \/ Recover(p) \/ Relookup(p) \/ Reread(p) \/ Refresh(p) \/ AskOco(p)
           \/ Adopt(p) \/ CheckOco(p) \/ Protect(p)
    PROVE  SubmissionInv'
<1>1. Shape BY DEF SubmissionInv
<1>2. {"reread", "relookup", "adopt", "reelect", "check", "protect"}
          \subseteq Pcs \ {"post", "repost"}
    BY DEF Pcs
<1>3. /\ phase \in [Intents -> Phases]
      /\ {"terminal", "working", "unknown", "protected"} \subseteq Phases \ Unsent
    BY <1>1 DEF Shape, Phases, Unsent, ActivePhases
<1>4. "refresh" \in Books BY DEF Books
<1>5. CASE Recover(p)
    <2>1. CASE Goto(p, "reread") BY <1>1, <1>2, <1>3, <1>5, <2>1, WaysOut, SubmissionFrame DEF Recover
    <2>2. CASE ~Goto(p, "reread")
        <3>1. Moves(p) BY <1>1, <1>2, <1>5, <2>2 DEF Recover, Active, Shape, Moves
        <3> QED BY <1>3, <1>5, <3>1, SubmissionFrame DEF Recover
    <2> QED BY <2>1, <2>2
<1>6. CASE Relookup(p) BY <1>1, <1>2, <1>3, <1>6, WaysOut, PhaseMoves, SubmissionFrame DEF Relookup
<1>7. CASE Reread(p) BY <1>1, <1>2, <1>3, <1>4, <1>7, WaysOut, ReadMoves, SubmissionFrame DEF Reread
<1>8. CASE Refresh(p)
    <2>1. CASE Flag(p) BY <1>1, <1>2, <1>3, <1>8, <2>1, WaysOut, SubmissionFrame DEF Refresh
    <2>2. CASE ~Flag(p)
        <3>1. Moves(p) BY <1>1, <1>2, <1>8, <2>2 DEF Refresh, Shape, Moves, Reading
        <3> QED BY <1>3, <1>8, <3>1, SubmissionFrame DEF Refresh
    <2> QED BY <2>1, <2>2
<1>9. CASE AskOco(p) BY <1>1, <1>2, <1>3, <1>9, WaysOut, PhaseMoves, SubmissionFrame DEF AskOco
<1>10. CASE Adopt(p) BY <1>1, <1>2, <1>3, <1>10, WaysOut, PhaseMoves, SubmissionFrame DEF Adopt
<1>11. CASE CheckOco(p) BY <1>1, <1>2, <1>3, <1>11, WaysOut, SubmissionFrame DEF CheckOco
<1>12. CASE Protect(p) BY <1>1, <1>2, <1>3, <1>12, WaysOut, PhaseMoves, SubmissionFrame DEF Protect
<1> QED BY <1>5, <1>6, <1>7, <1>8, <1>9, <1>10, <1>11, <1>12

\* An intent is born unsent and without a sender, and _new makes one intent.
LEMMA ElectSubmission ==
    ASSUME SubmissionInv, NEW p \in Passes, Elect(p)
    PROVE  SubmissionInv'
<1> DEFINE i == <<"time_exit", Cardinality(Issued(Closes)) + 1>>
<1>1. Shape BY DEF SubmissionInv
<1>2. /\ "cancel" \in Pcs \ {"post", "repost"} /\ "canceling" \in Phases /\ "none" \in Unsent
      /\ phase \in [Intents -> Phases]
    BY <1>1 DEF Pcs, Phases, ActivePhases, Unsent, Shape
<1>3. CASE Leave(p) /\ UNCHANGED phase
    BY <1>1, <1>2, <1>3, WaysOut, SubmissionFrame DEF Elect
<1>4. CASE i \in Closes /\ phase[i] = "none" /\ phase' = [phase EXCEPT ![i] = "canceling"]
           /\ row' = [row EXCEPT ![p] = i] /\ pc' = [pc EXCEPT ![p] = "cancel"]
           /\ UNCHANGED <<oco, seen>>
    <2> HIDE DEF i
    <2>1. Moves(p) BY <1>1, <1>2, <1>4 DEF Shape, Moves
    <2>2. /\ phase' \in [Intents -> Phases]
          /\ \A j \in Intents : phase'[j] \in Unsent => phase[j] \in Unsent
        BY <1>2, <1>4, Names
    <2> QED BY <2>1, <2>2, <1>4, SubmissionFrame DEF Elect
<1> QED BY <1>3, <1>4 DEF Elect

\* The compare-and-set on "canceling" gives the right to one pass; a pass that
\* has no intent gains none.
LEMMA ClaimSubmission ==
    ASSUME SubmissionInv, NEW p \in Passes, ClaimClose(p)
    PROVE  SubmissionInv'
<1> DEFINE i == row[p]
<1>1. Shape /\ (i \in Closes \/ i \notin Intents) BY Names DEF SubmissionInv, Shape
<1>2. "post" \in Pcs /\ "submitting" \in Phases \ Unsent BY DEF Pcs, Phases, ActivePhases, Unsent
<1>3. CASE Flag(p) /\ UNCHANGED phase
    <2>1. "watch" \in Pcs \ {"post", "repost"} BY DEF Pcs
    <2> QED BY <1>1, <1>3, <2>1, WaysOut, SubmissionFrame DEF ClaimClose, Shape
<1>4. CASE phase[i] = "canceling" /\ phase' = [phase EXCEPT ![i] = "submitting"]
           /\ Goto(p, "post")
    <2>1. /\ posts' = posts /\ UNCHANGED <<row, oco, seen>> /\ pc' = [pc EXCEPT ![p] = "post"]
        BY <1>4 DEF ClaimClose, Goto
    <2>2. i \in Intents => posts[i] = 0 BY <1>4 DEF SubmissionInv, Unsent
    <2>3. i \in Intents => \A q \in Passes : ~Sends(q, i) BY <1>4 DEF SubmissionInv, Unsent
    <2>4. Shape' BY <1>1, <1>2, <1>4, <2>1 DEF Shape
    <2>5. \A q \in Passes : \A j \in Intents :
              Sends(q, j)' => (q = p /\ j = i) \/ Sends(q, j)
        BY <1>1, <2>1 DEF Sends, Shape
    <2>6. \A j \in Intents : phase'[j] = IF j = i THEN "submitting" ELSE phase[j]
        BY <1>1, <1>4 DEF Shape
    <2>7. \A q \in Passes : \A j \in Intents :
              Sends(q, j)' => posts'[j] = 0 /\ phase'[j] \notin Unsent
        BY <1>2, <2>1, <2>2, <2>5, <2>6 DEF SubmissionInv
    <2>8. \A q, r \in Passes : \A j \in Intents : Sends(q, j)' /\ Sends(r, j)' => q = r
        BY <2>3, <2>5 DEF SubmissionInv
    <2> QED BY <1>2, <2>1, <2>4, <2>6, <2>7, <2>8 DEF SubmissionInv
<1> QED BY <1>3, <1>4 DEF ClaimClose

\* A protection intent is inserted with its right already taken, by one pass.
LEMMA ReelectSubmission ==
    ASSUME SubmissionInv, NEW p \in Passes, Reelect(p)
    PROVE  SubmissionInv'
<1> DEFINE i == <<"reprotect", Cardinality(Issued(Ocos)) + 1>>
<1>1. Shape BY DEF SubmissionInv
<1>2. /\ "repost" \in Pcs /\ "submitting" \in Phases \ Unsent /\ "none" \in Unsent
      /\ "relookup" \in Pcs \ {"post", "repost"}
    BY DEF Pcs, Phases, ActivePhases, Unsent
<1>3. CASE /\ \E owned \in Active(Ocos) : oco' = [oco EXCEPT ![p] = owned]
           /\ pc' = [pc EXCEPT ![p] = "relookup"] /\ UNCHANGED phase
    <2>1. Moves(p) BY <1>1, <1>2, <1>3 DEF Reelect, Active, Shape, Moves
    <2> QED BY <1>1, <1>3, <2>1, SubmissionFrame DEF Reelect, Shape
<1>4. CASE i \in Ocos /\ phase[i] = "none" /\ phase' = [phase EXCEPT ![i] = "submitting"]
           /\ oco' = [oco EXCEPT ![p] = i] /\ pc' = [pc EXCEPT ![p] = "repost"]
    <2> HIDE DEF i
    <2>1. posts' = posts /\ UNCHANGED <<row, seen>> /\ i \in Intents BY <1>4, Names DEF Reelect
    <2>2. posts[i] = 0 BY <1>2, <1>4, <2>1 DEF SubmissionInv
    <2>3. \A q \in Passes : ~Sends(q, i) BY <1>2, <1>4, <2>1 DEF SubmissionInv
    <2>4. Shape' BY <1>1, <1>2, <1>4, <2>1 DEF Shape
    <2>5. \A q \in Passes : \A j \in Intents :
              Sends(q, j)' => (q = p /\ j = i) \/ Sends(q, j)
        BY <1>1, <1>4, <2>1 DEF Sends, Shape
    <2>6. \A j \in Intents : phase'[j] = IF j = i THEN "submitting" ELSE phase[j]
        BY <1>1, <1>4 DEF Shape
    <2>7. \A q \in Passes : \A j \in Intents :
              Sends(q, j)' => posts'[j] = 0 /\ phase'[j] \notin Unsent
        BY <1>2, <2>1, <2>2, <2>5, <2>6 DEF SubmissionInv
    <2>8. \A q, r \in Passes : \A j \in Intents : Sends(q, j)' /\ Sends(r, j)' => q = r
        BY <2>3, <2>5 DEF SubmissionInv
    <2> QED BY <1>2, <2>1, <2>4, <2>6, <2>7, <2>8 DEF SubmissionInv
<1> QED BY <1>3, <1>4 DEF Reelect

\* The POST spends the right: the sender leaves it behind, and nobody else has it.
LEMMA PostFrame ==
    ASSUME SubmissionInv, NEW p \in Passes, NEW i \in Intents, Sends(p, i), Moves(p),
           posts' = [posts EXCEPT ![i] = @ + 1], UNCHANGED phase
    PROVE  SubmissionInv'
<1>1. Shape /\ posts[i] = 0 /\ phase[i] \notin Unsent BY DEF SubmissionInv
<1>2. Shape' BY <1>1 DEF Shape, Moves
<1>3. \A j \in Intents : posts'[j] = IF j = i THEN 1 ELSE posts[j] BY <1>1 DEF Shape
<1>4. \A q \in Passes : \A j \in Intents : Sends(q, j)' => q # p /\ Sends(q, j)
    BY DEF Sends, Moves
<1>5. \A q \in Passes : \A j \in Intents : Sends(q, j)' => j # i
    BY <1>4 DEF SubmissionInv
<1> QED BY <1>1, <1>2, <1>3, <1>4, <1>5 DEF SubmissionInv

\* So the two submissions preserve the invariant.
LEMMA PostSubmission ==
    ASSUME SubmissionInv, NEW p \in Passes, PostClose(p) \/ PostOco(p)
    PROVE  SubmissionInv'
<1>1. Shape BY DEF SubmissionInv
<1>2. /\ {"confirm", "ask", "adopt", "reask"} \subseteq Pcs \ {"post", "repost"}
      /\ "observed" \in Books
    BY DEF Pcs, Books
<1>3. ASSUME NEW i, NEW answered \in Pcs \ {"post", "repost"},
             NEW asking \in Pcs \ {"post", "repost"}, Post(p, i, answered, asking)
      PROVE  Moves(p) /\ posts' = [posts EXCEPT ![i] = @ + 1] /\ UNCHANGED phase
    <2>1. posts' = [posts EXCEPT ![i] = @ + 1] /\ UNCHANGED phase BY <1>3 DEF Post
    <2>2. CASE Goto(p, asking) BY <1>1, <2>1, <2>2, WaysOut
    <2>3. CASE Read(p, i, "observed") /\ pc' = [pc EXCEPT ![p] = answered] /\ UNCHANGED <<row, oco>>
        <3>1. DOMAIN seen' = Passes /\ \A q \in Passes : Reading(seen'[q])
            BY <1>1, <1>2, <2>3 DEF Shape, Read, Reading
        <3> QED BY <1>1, <2>1, <2>3, <3>1 DEF Shape, Moves
    <2> QED BY <1>3, <2>2, <2>3 DEF Post
<1>4. phase' = phase => /\ phase' \in [Intents -> Phases]
                        /\ \A j \in Intents : phase'[j] \in Unsent => phase[j] \in Unsent
    BY <1>1 DEF Shape
<1>5. ASSUME NEW i, i \notin Intents, posts' = [posts EXCEPT ![i] = @ + 1] PROVE posts' = posts
    BY <1>1, <1>5 DEF Shape
<1>6. CASE PostClose(p)
    <2>1. Moves(p) /\ posts' = [posts EXCEPT ![row[p]] = @ + 1] /\ phase' = phase
        BY <1>2, <1>3, <1>6 DEF PostClose
    <2>2. CASE row[p] \in Intents
        <3>1. Sends(p, row[p]) BY <1>6 DEF PostClose, Sends
        <3> QED BY <2>1, <2>2, <3>1, PostFrame
    <2>3. CASE row[p] \notin Intents BY <1>4, <1>5, <2>1, <2>3, SubmissionFrame
    <2> QED BY <2>2, <2>3
<1>7. CASE PostOco(p)
    <2>1. Moves(p) /\ posts' = [posts EXCEPT ![oco[p]] = @ + 1] /\ phase' = phase
        BY <1>2, <1>3, <1>7 DEF PostOco
    <2>2. CASE oco[p] \in Intents
        <3>1. Sends(p, oco[p]) BY <1>7 DEF PostOco, Sends
        <3> QED BY <2>1, <2>2, <3>1, PostFrame
    <2>3. CASE oco[p] \notin Intents BY <1>4, <1>5, <2>1, <2>3, SubmissionFrame
    <2> QED BY <2>2, <2>3
<1> QED BY <1>6, <1>7

\* A death forgets what the pass was about to submit.
LEMMA CrashSubmission ==
    ASSUME SubmissionInv, NEW p \in Passes, Crash(p)
    PROVE  SubmissionInv'
<1>1. Shape BY DEF SubmissionInv
<1>2. "idle" \in Pcs \ {"post", "repost"} /\ Reading(NoSeen) BY DEF Pcs, Reading, NoSeen, Books
<1>3. Moves(p) BY <1>1, <1>2 DEF Crash, Shape, Moves
<1> QED BY <1>1, <1>3, SubmissionFrame DEF Crash, Shape

\* The broker and the clock touch neither intents nor passes.
LEMMA OtherSubmission ==
    SubmissionInv /\ (Clock \/ (\E o \in Orders : Broker(o)) \/ UNCHANGED vars) => SubmissionInv'
<1> SUFFICES ASSUME SubmissionInv, UNCHANGED <<phase, posts, pc, row, oco, seen>>
             PROVE  SubmissionInv'
    BY DEF Clock, Broker, Fill, Expire, Arrive, vars
<1> QED BY DEF SubmissionInv, Shape, Sends, Reading

\* Every step preserves the invariant.
LEMMA StepSubmission == SubmissionInv /\ [Next]_vars => SubmissionInv'
<1> SUFFICES ASSUME SubmissionInv, [Next]_vars PROVE SubmissionInv' OBVIOUS
<1>1. ASSUME NEW p \in Passes, Work(p) PROVE SubmissionInv'
    BY <1>1, AccountingSubmission, ObservationSubmission, CancellationSubmission,
       RecoverySubmission, ElectSubmission, ClaimSubmission, ReelectSubmission, PostSubmission
    DEF Work
<1> QED BY <1>1, AccountingSubmission, CrashSubmission, OtherSubmission DEF Next

\* For any number of passes, owned by the monitor lock or not, and whatever the
\* broker delivers late, the right to submit is taken once and never returns.
THEOREM SubmissionHolds == Spec => []SubmissionInv
BY InitSubmission, StepSubmission, PTL DEF Spec

\* _set's expected_phase and _new's election (time_exit_lifecycle.py:47, 371) make
\* every closing and protective intent reach the broker's POST at most once.
THEOREM SubmittedOnce == Spec => []OneSubmission
<1>1. SubmissionInv => OneSubmission BY DEF SubmissionInv, OneSubmission
<1> QED BY <1>1, SubmissionHolds, PTL

----------------------------------------------------------------------------
(* Counting shares.                                                         *)

\* Quantities of exit orders, none above the position's.
Quantities == [Orders -> 0..Qty]

\* A share is one of those counted for its order.
LEMMA ShareOf ==
    ASSUME NEW f \in Quantities
    PROVE  \A t : t \in SharesIn(f) <=> \E o \in Orders : \E n \in 1..f[o] : t = <<o, n>>
BY DEF SharesIn, Quantities

\* Finitely many orders have finitely many shares.
LEMMA TotalType ==
    ASSUME NEW f \in Quantities
    PROVE  IsFiniteSet(SharesIn(f)) /\ Total(f) \in Nat
<1>1. IsFiniteSet(1..MaxIntents) /\ IsFiniteSet(1..Qty) BY SizesAssumption, FS_Interval
<1>2. IsFiniteSet({"time_exit"}) /\ IsFiniteSet({"reprotect"}) /\ IsFiniteSet({Bracket}) BY FS_Singleton
<1>3. IsFiniteSet(Closes) /\ IsFiniteSet(Ocos) BY <1>1, <1>2, FS_Product DEF Closes, Ocos
<1>4. IsFiniteSet(Intents) BY <1>3, FS_Union DEF Intents
<1>5. IsFiniteSet(Orders) BY <1>2, <1>4, FS_Union DEF Orders
<1>6. IsFiniteSet(Orders \X (1..Qty)) BY <1>1, <1>5, FS_Product
<1>7. SharesIn(f) \subseteq Orders \X (1..Qty)
    <2>1. \A o \in Orders : \A n \in 1..f[o] : n \in 1..Qty BY SizesAssumption DEF Quantities
    <2> QED BY <2>1, ShareOf
<1> QED BY <1>6, <1>7, FS_Subset, FS_CardinalityType DEF Total

\* The shares of one order and those of the others.
LEMMA TotalSplit ==
    ASSUME NEW f \in Quantities, NEW i \in Orders
    PROVE  LET rest == {t \in SharesIn(f) : t[1] # i} IN
           Cardinality(rest) \in Nat /\ Total(f) = Cardinality(rest) + f[i]
<1> DEFINE rest == {t \in SharesIn(f) : t[1] # i}
           part == {i} \X (1..f[i])
<1>1. f[i] \in Nat BY SizesAssumption DEF Quantities
<1>2. SharesIn(f) = rest \cup part /\ rest \cap part = {} BY ShareOf
<1>3. IsFiniteSet(rest) BY TotalType, FS_Subset
<1>4. IsFiniteSet(part) /\ Cardinality(part) = f[i]
    <2>1. IsFiniteSet(1..f[i]) /\ Cardinality(1..f[i]) = f[i] BY <1>1, FS_Interval
    <2>2. IsFiniteSet({i}) /\ Cardinality({i}) = 1 BY FS_Singleton
    <2>3. IsFiniteSet(part) /\ Cardinality(part) = Cardinality({i}) * Cardinality(1..f[i])
        BY <2>1, <2>2, FS_Product
    <2> QED BY <1>1, <2>1, <2>2, <2>3
<1> HIDE DEF rest, part
<1>5. Cardinality(rest \cup part) = Cardinality(rest) + Cardinality(part) - Cardinality(rest \cap part)
    BY <1>3, <1>4, FS_Union
<1>6. Cardinality(rest \cap part) = 0 BY <1>2, FS_EmptySet
<1>7. Cardinality(rest) \in Nat BY <1>3, FS_CardinalityType
<1>8. Total(f) = Cardinality(rest) + f[i] BY <1>1, <1>2, <1>4, <1>5, <1>6, <1>7 DEF Total
<1> QED BY <1>7, <1>8 DEF rest

\* One order changes the total by as much as it changes.
LEMMA TotalChange ==
    ASSUME NEW f \in Quantities, NEW g \in Quantities, NEW i \in Orders,
           \A j \in Orders \ {i} : f[j] = g[j]
    PROVE  Total(g) = Total(f) - f[i] + g[i] /\ f[i] <= Total(f)
<1> DEFINE rest(h) == {t \in SharesIn(h) : t[1] # i}
<1>1. rest(f) = rest(g) BY ShareOf
<1>2. Cardinality(rest(f)) \in Nat /\ Total(f) = Cardinality(rest(f)) + f[i] BY TotalSplit
<1>3. Total(g) = Cardinality(rest(g)) + g[i] BY TotalSplit
<1>4. f[i] \in Nat /\ g[i] \in Nat BY SizesAssumption DEF Quantities
<1> HIDE DEF rest
<1> QED BY <1>1, <1>2, <1>3, <1>4

\* Nothing is counted where there is nothing.
LEMMA TotalNothing ==
    ASSUME NEW f \in Quantities, \A o \in Orders : f[o] = 0
    PROVE  Total(f) = 0
<1>1. SharesIn(f) = {} BY ShareOf
<1> QED BY <1>1, FS_EmptySet DEF Total

\* A function with one entry counts that one.
LEMMA TotalSingle ==
    ASSUME NEW f \in Quantities, NEW i \in Orders, \A o \in Orders \ {i} : f[o] = 0
    PROVE  Total(f) = f[i]
<1> DEFINE z == [o \in Orders |-> 0]
<1>1. z \in Quantities /\ z[i] = 0 /\ \A j \in Orders \ {i} : z[j] = f[j]
    BY SizesAssumption DEF Quantities
<1>2. \A o \in Orders : z[o] = 0 OBVIOUS
<1> HIDE DEF z
<1>3. Total(z) = 0 BY <1>1, <1>2, TotalNothing
<1>4. Total(f) = Total(z) - z[i] + f[i] BY <1>1, TotalChange
<1>5. f[i] \in Nat BY SizesAssumption DEF Quantities
<1> QED BY <1>1, <1>3, <1>4, <1>5

----------------------------------------------------------------------------
(* Types, for any number of passes that respect nothing.                    *)

\* Where a pass has a closing intent, a protective one, an order it read.
RowAt == {"lookup", "absent", "observe", "observed", "cancel", "verify", "verified", "unverified",
          "free", "still", "claim", "post", "ask", "confirm", "poll", "settle"}
OcoAt == {"relookup", "repost", "reask", "adopt", "check", "protect"}
SeenAt == {"book", "flat", "close", "fresh", "elect", "cancel", "verify", "verified", "unverified",
           "observe", "confirm"}
BookAt == {"book", "flat", "close"}

\* The pass p has all that it works with at the point at.
Ready(p, at) ==
    /\ at \in RowAt => row[p] \in Closes
    /\ at \in OcoAt => oco[p] \in Ocos
    /\ at \in SeenAt => seen[p].order \in Orders
    /\ at \in BookAt /\ seen[p].back \in {"verified", "observed"} => row[p] \in Closes

\* What a pass read was true when it read it; fills only grow.
PassInv(p) ==
    /\ Ready(p, pc[p])
    /\ seen[p].order \in Orders => seen[p].filled <= filled[seen[p].order]

\* No fill is booked that the broker does not have, nor more than the position.
TypeInv ==
    /\ TypeOK
    /\ Total(booked) <= Qty /\ \A o \in Orders : booked[o] <= filled[o]
    /\ \A p \in Passes : PassInv(p)

Views == [order : Orders \cup {NoOrder}, filled : 0..Qty, dead : BOOLEAN, qty : 0..Qty, back : Books]

\* A pass p moves to a point it is ready for.
Step(p) ==
    /\ pc' \in [Passes -> Pcs] /\ row' \in [Passes -> Closes \cup {NoOrder}]
    /\ oco' \in [Passes -> Ocos \cup {NoOrder}] /\ seen' \in [Passes -> Views]
    /\ \A q \in Passes \ {p} :
          pc'[q] = pc[q] /\ row'[q] = row[q] /\ oco'[q] = oco[q] /\ seen'[q] = seen[q]
    /\ PassInv(p)'

\* The types of everything but the passes and the fills.
StateOK ==
    /\ phase \in [Intents -> Phases] /\ known \in [Intents -> BOOLEAN]
    /\ size \in [Intents -> 0..Qty] /\ position \in {"open", "closed"} /\ guard \in Guards
    /\ incident \in BOOLEAN /\ session \in BOOLEAN
    /\ live \in [Orders -> {"none", "wire", "live", "pending", "dead"}]
    /\ posts \in [Intents -> Nat] /\ lock \in Passes \cup {Nobody} /\ crashes \in 0..MaxCrashes

\* TypeOK is about the state, the fills and the passes.
LEMMA TypeParts ==
    TypeOK <=> /\ StateOK /\ booked \in Quantities /\ filled \in Quantities
               /\ pc \in [Passes -> Pcs] /\ row \in [Passes -> Closes \cup {NoOrder}]
               /\ oco \in [Passes -> Ocos \cup {NoOrder}] /\ seen \in [Passes -> Views]
BY DEF TypeOK, StateOK, Quantities, Views

\* The names of the orders, as far as the passes tell them apart.
LEMMA OrderNames ==
    /\ NoOrder \notin Orders /\ Guards \subseteq Orders /\ Intents \subseteq Orders
    /\ Closes \subseteq Intents /\ Ocos \subseteq Intents
    /\ Closes \cap Ocos = {} /\ Bracket \in Guards /\ Bracket \notin Intents
    /\ \A o \in Orders : o \in Intents \/ o = Bracket
BY DEF Closes, Ocos, Intents, Guards, Orders, NoOrder, Bracket

\* A move of one pass that books no more than the broker has keeps the types.
LEMMA TypeFrame ==
    ASSUME TypeInv, NEW p \in Passes, Step(p), StateOK', filled' = filled,
           booked' \in Quantities, Total(booked') <= Qty, \A o \in Orders : booked'[o] <= filled[o]
    PROVE  TypeInv'
<1>1. filled' \in Quantities BY TypeParts DEF TypeInv
<1>2. TypeOK' BY <1>1 DEF Step, TypeOK, StateOK, Quantities, Views
<1>3. \A q \in Passes : PassInv(q)'
    <2>1. ASSUME NEW q \in Passes \ {p} PROVE PassInv(q)'
        BY <2>1 DEF TypeInv, Step, PassInv, Ready
    <2> QED BY <2>1 DEF Step
<1>4. (Total(booked) <= Qty)' BY DEF Total, SharesIn
<1> QED BY <1>2, <1>3, <1>4 DEF TypeInv

\* A pass goes on to a point it is ready for.
LEMMA GotoStep ==
    ASSUME TypeInv, NEW p \in Passes, NEW at \in Pcs, Goto(p, at), filled' = filled, Ready(p, at)
    PROVE  Step(p)
<1>1. /\ pc \in [Passes -> Pcs] /\ row \in [Passes -> Closes \cup {NoOrder}]
      /\ oco \in [Passes -> Ocos \cup {NoOrder}] /\ seen \in [Passes -> Views]
    BY TypeParts DEF TypeInv
<1>2. pc' = [pc EXCEPT ![p] = at] /\ UNCHANGED <<row, oco, seen>> BY DEF Goto
<1>3. PassInv(p)' BY <1>1, <1>2 DEF PassInv, Ready, TypeInv
<1> QED BY <1>1, <1>2, <1>3 DEF Step

\* A pass that leaves the lifecycle needs nothing more; neither does a dead one.
LEMMA LeaveStep ==
    ASSUME TypeInv, NEW p \in Passes, NEW at \in {"watch", "idle"}, pc' = [pc EXCEPT ![p] = at],
           row' = [row EXCEPT ![p] = NoOrder], oco' = [oco EXCEPT ![p] = NoOrder],
           seen' = [seen EXCEPT ![p] = NoSeen]
    PROVE  Step(p)
<1>1. /\ pc \in [Passes -> Pcs] /\ row \in [Passes -> Closes \cup {NoOrder}]
      /\ oco \in [Passes -> Ocos \cup {NoOrder}] /\ seen \in [Passes -> Views]
    BY TypeParts DEF TypeInv
<1>2. at \in Pcs /\ at \notin RowAt \cup OcoAt \cup SeenAt \cup BookAt
    BY DEF Pcs, RowAt, OcoAt, SeenAt, BookAt
<1>3. NoSeen \in Views /\ NoSeen.order \notin Orders
    BY SizesAssumption, OrderNames DEF NoSeen, Views, Books
<1>4. PassInv(p)' BY <1>1, <1>2, <1>3 DEF PassInv, Ready
<1> QED BY <1>1, <1>2, <1>3, <1>4 DEF Step

\* A pass settles what it has to settle.
LEMMA SettlingStep ==
    ASSUME TypeInv, NEW p \in Passes, Settling(p), filled' = filled
    PROVE  Step(p)
<1>1. CASE row[p] = NoOrder BY <1>1, LeaveStep DEF Settling, Leave
<1>2. CASE row[p] # NoOrder
    <2>1. row[p] \in Closes BY <1>2, TypeParts DEF TypeInv
    <2>2. "settle" \in Pcs /\ Ready(p, "settle") BY <2>1 DEF Pcs, Ready, OcoAt, SeenAt, BookAt
    <2> QED BY <1>2, <2>2, GotoStep DEF Settling
<1> QED BY <1>1, <1>2

\* A pass reads an order and goes on to a point it is ready for.
LEMMA ReadStep ==
    ASSUME TypeInv, NEW p \in Passes, NEW o \in Orders, NEW back \in Books, NEW at \in Pcs,
           Read(p, o, back), pc' = [pc EXCEPT ![p] = at], UNCHANGED <<row, oco, filled>>,
           at \in RowAt => row[p] \in Closes, at \in OcoAt => oco[p] \in Ocos,
           back \in {"verified", "observed"} => row[p] \in Closes \/ at \notin BookAt
    PROVE  Step(p)
<1> DEFINE v == [order |-> o, filled |-> filled[o], dead |-> live[o] = "dead", qty |-> 0, back |-> back]
<1>1. /\ pc \in [Passes -> Pcs] /\ row \in [Passes -> Closes \cup {NoOrder}]
      /\ oco \in [Passes -> Ocos \cup {NoOrder}] /\ seen \in [Passes -> Views]
      /\ filled \in Quantities
    BY TypeParts DEF TypeInv
<1>2. filled[o] \in 0..Qty /\ 0 \in 0..Qty BY <1>1, SizesAssumption DEF Quantities
<1>3. v \in Views /\ v.order = o /\ v.filled = filled[o] /\ v.back = back BY <1>2 DEF Views
<1>4. seen' = [seen EXCEPT ![p] = v] BY DEF Read
<1> HIDE DEF v
<1>5. seen'[p] = v /\ pc'[p] = at BY <1>1, <1>4
<1>6. filled[o] <= filled[o] BY <1>2
<1>7. PassInv(p)' BY <1>1, <1>3, <1>5, <1>6 DEF PassInv, Ready
<1> QED BY <1>1, <1>3, <1>4, <1>7 DEF Step

\* So it does when it has fills to book first.
LEMMA ReadBookStep ==
    ASSUME TypeInv, NEW p \in Passes, NEW o \in Orders, NEW back \in Books,
           ReadAndBook(p, o, back), UNCHANGED filled,
           back \in {"verified", "observed"} => row[p] \in Closes
    PROVE  Step(p)
<1>1. /\ "book" \in Pcs /\ "book" \notin RowAt /\ "book" \notin OcoAt
      /\ back \in Pcs /\ back \notin OcoAt /\ back \notin BookAt
      /\ back \in RowAt => back \in {"verified", "observed"}
    BY DEF Pcs, Books, RowAt, OcoAt, BookAt
<1> DEFINE at == IF filled[o] > 0 THEN "book" ELSE back
<1>2. Read(p, o, back) /\ pc' = [pc EXCEPT ![p] = at] /\ UNCHANGED <<row, oco>> BY DEF ReadAndBook
<1>3. /\ at \in Pcs /\ at \notin OcoAt /\ (at \in RowAt => row[p] \in Closes)
    BY <1>1
<1> HIDE DEF at
<1> QED BY <1>2, <1>3, ReadStep

\* The points a pass is ready for, from where it is.
LEMMA Points ==
    ASSUME TypeInv, NEW p \in Passes
    PROVE  /\ RowAt \cup OcoAt \cup SeenAt \cup BookAt \cup Books \subseteq Pcs
           /\ \A at \in {"idle", "reconcile", "enforce", "watch", "session", "protection", "recover",
                         "reread", "reelect", "refresh"} : at \in Pcs /\ Ready(p, at)
           /\ row[p] \in Closes => \A at \in RowAt \ SeenAt : Ready(p, at)
           /\ pc[p] \in RowAt \cap SeenAt => \A at \in RowAt : Ready(p, at)
           /\ pc[p] \in OcoAt => \A at \in OcoAt : Ready(p, at)
           /\ pc[p] \in BookAt => \A at \in BookAt \cup {seen[p].back} : Ready(p, at)
           /\ pc[p] \in BookAt => seen[p].order \in Orders /\ seen[p].back \in Books
           /\ pc[p] \in RowAt => row[p] \in Closes
           /\ pc[p] \in OcoAt => oco[p] \in Ocos
<1>1. PassInv(p) /\ seen[p] \in Views BY TypeParts DEF TypeInv
<1>2. seen[p].back \in Books BY <1>1 DEF Views
<1>3. RowAt \cup OcoAt \cup SeenAt \cup BookAt \cup Books \subseteq Pcs
    BY DEF RowAt, OcoAt, SeenAt, BookAt, Books, Pcs
<1>4. \A at \in {"idle", "reconcile", "enforce", "watch", "session", "protection", "recover",
                 "reread", "reelect", "refresh"} : at \in Pcs /\ Ready(p, at)
    BY DEF RowAt, OcoAt, SeenAt, BookAt, Pcs, Ready
<1>5. row[p] \in Closes => \A at \in RowAt \ SeenAt : Ready(p, at)
    BY DEF RowAt, OcoAt, SeenAt, BookAt, Ready
<1>6. pc[p] \in RowAt \cap SeenAt => \A at \in RowAt : Ready(p, at)
    BY <1>1 DEF PassInv, RowAt, OcoAt, SeenAt, BookAt, Ready
<1>7. pc[p] \in OcoAt => \A at \in OcoAt : Ready(p, at)
    BY <1>1 DEF PassInv, RowAt, OcoAt, SeenAt, BookAt, Ready
<1>8. ASSUME pc[p] \in BookAt PROVE \A at \in BookAt \cup {seen[p].back} : Ready(p, at)
    <2>1. pc[p] \in SeenAt /\ BookAt \cap (RowAt \cup OcoAt) = {} /\ BookAt \subseteq SeenAt
        BY <1>8 DEF BookAt, SeenAt, RowAt, OcoAt
    <2>2. /\ seen[p].back \notin OcoAt /\ seen[p].back \notin BookAt
          /\ seen[p].back \in RowAt => seen[p].back \in {"verified", "observed"}
        BY <1>2 DEF Books, OcoAt, BookAt, RowAt
    <2> QED BY <1>1, <1>8, <2>1, <2>2 DEF PassInv, Ready
<1>9. pc[p] \in BookAt => seen[p].order \in Orders
    BY <1>1 DEF PassInv, Ready, BookAt, SeenAt
<1>10. (pc[p] \in RowAt => row[p] \in Closes) /\ (pc[p] \in OcoAt => oco[p] \in Ocos)
    BY <1>1 DEF PassInv, Ready
<1> QED BY <1>2, <1>3, <1>4, <1>5, <1>6, <1>7, <1>8, <1>9, <1>10

\* A pass that raises an incident leaves.
LEMMA FlagStep ==
    ASSUME TypeInv, NEW p \in Passes, Flag(p)
    PROVE  Step(p) /\ incident' \in BOOLEAN
BY LeaveStep DEF Flag, Leave

\* A step that writes no quantity keeps the types.
LEMMA LookStep ==
    ASSUME TypeInv, NEW p \in Passes, Step(p), UNCHANGED <<size, booked, position, filled, posts, session>>,
           phase' \in [Intents -> Phases], known' \in [Intents -> BOOLEAN], guard' \in Guards,
           live' \in [Orders -> {"none", "wire", "live", "pending", "dead"}],
           incident' \in BOOLEAN, lock' \in Passes \cup {Nobody}, crashes' \in 0..MaxCrashes
    PROVE  TypeInv'
<1>1. StateOK' /\ booked \in Quantities BY TypeParts DEF TypeInv, StateOK
<1> QED BY <1>1, TypeFrame DEF TypeInv

\* The steps that look at the broker and the session write nothing.
LEMMA LookTypes ==
    ASSUME TypeInv, NEW p \in Passes,
           \/ Reconcile(p) \/ CheckSession(p) \/ ReadProtection(p) \/ FreshProtected(p)
           \/ Verify(p) \/ Verified(p) \/ Unverified(p) \/ StillRegular(p) \/ Reread(p) \/ CheckOco(p)
    PROVE  Step(p) /\ TypeInv'
<1>1. /\ phase \in [Intents -> Phases] /\ known \in [Intents -> BOOLEAN] /\ guard \in Guards
      /\ live \in [Orders -> {"none", "wire", "live", "pending", "dead"}]
      /\ incident \in BOOLEAN /\ lock \in Passes \cup {Nobody} /\ crashes \in 0..MaxCrashes
      /\ Guards \subseteq Orders /\ row[p] \in Closes \cup {NoOrder} /\ seen[p] \in Views
    BY TypeParts, OrderNames DEF TypeInv, StateOK
<1>2. UNCHANGED <<ledgerVars, brokerVars, session, lock, crashes>>
    BY DEF Reconcile, CheckSession, ReadProtection, FreshProtected, Verify, Verified, Unverified,
           StillRegular, Reread, CheckOco
<1> SUFFICES Step(p) /\ incident' \in BOOLEAN BY <1>1, <1>2, LookStep
<1>3. {"enforce", "fresh", "verified", "refresh"} \subseteq Books BY DEF Books
<1>4. "enforce" \in Pcs /\ "session" \in Pcs /\ "protection" \in Pcs /\ "recover" \in Pcs
    BY DEF Pcs
<1>5. CASE Reconcile(p) 
    BY <1>1, <1>2, <1>3, <1>5, ReadBookStep, GotoStep, Points DEF Reconcile
<1>6. CASE CheckSession(p)
    BY <1>1, <1>2, <1>6, FlagStep, GotoStep, LeaveStep, Points DEF CheckSession, Leave
<1>7. CASE ReadProtection(p)
    BY <1>1, <1>2, <1>3, <1>7, FlagStep, ReadBookStep DEF ReadProtection
<1>8. CASE FreshProtected(p)
    <2>1. PassInv(p) BY DEF TypeInv
    <2>2. Ready(p, "elect") /\ (row[p] # NoOrder => Ready(p, "cancel")) /\ {"elect", "cancel"} \subseteq Pcs
        BY <1>1, <1>8, <2>1 DEF FreshProtected, PassInv, Ready, RowAt, OcoAt, SeenAt, BookAt, Pcs
    <2> QED BY <1>1, <1>2, <1>8, <2>2, FlagStep, GotoStep, Points DEF FreshProtected
<1>9. CASE Verify(p)
    <2>1. /\ seen[p].order \in Orders /\ row[p] \in Closes /\ "unverified" \in Pcs /\ Ready(p, "unverified")
        BY <1>9, Points DEF Verify, TypeInv, PassInv, Ready, RowAt, SeenAt
    <2> QED BY <1>1, <1>2, <1>3, <1>9, <2>1, GotoStep, ReadBookStep DEF Verify
<1>10. CASE Verified(p)
    <2>1. \A at \in {"free", "unverified"} : at \in Pcs /\ Ready(p, at)
        BY <1>10, Points DEF Verified, RowAt, SeenAt
    <2> QED BY <1>1, <1>2, <1>10, <2>1, GotoStep DEF Verified
<1>11. CASE Unverified(p)
    <2>1. "verify" \in Pcs /\ Ready(p, "verify") BY <1>11, Points DEF Unverified, RowAt, SeenAt
    <2> QED BY <1>1, <1>2, <1>11, <2>1, GotoStep, FlagStep DEF Unverified
<1>12. CASE StillRegular(p)
    <2>1. "claim" \in Pcs /\ Ready(p, "claim") BY <1>12, Points DEF StillRegular, RowAt, SeenAt
    <2> QED BY <1>1, <1>2, <1>12, <2>1, GotoStep, FlagStep, Points DEF StillRegular
<1>13. CASE Reread(p)
    BY <1>1, <1>2, <1>3, <1>13, ReadBookStep, FlagStep DEF Reread
<1>14. CASE CheckOco(p)
    <2>1. "protect" \in Pcs /\ Ready(p, "protect") BY <1>14, Points DEF CheckOco, OcoAt
    <2> QED BY <1>1, <1>2, <1>14, <2>1, GotoStep, FlagStep DEF CheckOco
<1> QED BY <1>5, <1>6, <1>7, <1>8, <1>9, <1>10, <1>11, <1>12, <1>13, <1>14

\* The steps that write a phase, an identity or the parent of the protection.
LEMMA PhaseTypes ==
    ASSUME TypeInv, NEW p \in Passes,
           \/ Settle(p) \/ Absent(p) \/ Observe(p) \/ Observed(p) \/ Ask(p) \/ Confirm(p)
           \/ Relookup(p) \/ AskOco(p) \/ Adopt(p) \/ Protect(p)
    PROVE  Step(p) /\ TypeInv'
<1>1. /\ phase \in [Intents -> Phases] /\ known \in [Intents -> BOOLEAN] /\ guard \in Guards
      /\ live \in [Orders -> {"none", "wire", "live", "pending", "dead"}]
      /\ incident \in BOOLEAN /\ lock \in Passes \cup {Nobody} /\ crashes \in 0..MaxCrashes
      /\ row[p] \in Closes \cup {NoOrder} /\ Closes \subseteq Orders /\ Ocos \subseteq Guards
    BY TypeParts, OrderNames DEF TypeInv, StateOK, Guards
<1>2. UNCHANGED <<size, booked, position, brokerVars, session, lock, crashes>>
    BY DEF Settle, Absent, Observe, Observed, Ask, Confirm, Relookup, AskOco, Adopt, Protect
<1>3. {"terminal", "working", "unknown", "protected"} \subseteq Phases BY DEF Phases, ActivePhases
<1> SUFFICES /\ Step(p) /\ incident' \in BOOLEAN /\ phase' \in [Intents -> Phases]
             /\ known' \in [Intents -> BOOLEAN] /\ guard' \in Guards
    BY <1>1, <1>2, LookStep
<1>4. ASSUME pc' = [pc EXCEPT ![p] = "recover"], row' = [row EXCEPT ![p] = NoOrder], UNCHANGED <<oco, seen>>
      PROVE  Step(p)
    <2>1. /\ pc \in [Passes -> Pcs] /\ row \in [Passes -> Closes \cup {NoOrder}]
          /\ oco \in [Passes -> Ocos \cup {NoOrder}] /\ seen \in [Passes -> Views]
        BY TypeParts DEF TypeInv
    <2>2. "recover" \in Pcs /\ "recover" \notin RowAt \cup OcoAt \cup SeenAt \cup BookAt
        BY DEF Pcs, RowAt, OcoAt, SeenAt, BookAt
    <2>3. PassInv(p)' BY <1>2, <1>4, <2>1, <2>2 DEF PassInv, Ready, TypeInv
    <2> QED BY <1>4, <2>1, <2>2, <2>3 DEF Step
<1>5. CASE Settle(p) BY <1>1, <1>3, <1>5, LeaveStep DEF Settle, Leave
<1>6. CASE Absent(p) BY <1>1, <1>3, <1>4, <1>6 DEF Absent
<1>7. CASE Observe(p)
    <2>1. /\ "observed" \in Pcs /\ "book" \in Pcs /\ row[p] \in Closes /\ Ready(p, "observed")
        BY <1>7, Points DEF Observe, RowAt, SeenAt, Pcs
    <2>2. Ready(p, "book") /\ "observe" \notin OcoAt \cup BookAt
        BY <1>7, <2>1, Points DEF Observe, TypeInv, PassInv, Ready, RowAt, OcoAt, SeenAt, BookAt
    <2> QED BY <1>1, <1>2, <1>3, <1>7, <2>1, <2>2, GotoStep DEF Observe
<1>8. CASE Observed(p)
    <2>1. row[p] \in Intents BY <1>8, Points, OrderNames DEF Observed, RowAt
    <2> QED BY <1>1, <1>2, <1>3, <1>4, <1>8, <2>1, FlagStep DEF Observed
<1>9. CASE Ask(p)
    <2>1. row[p] \in Closes /\ "absent" \in Pcs /\ Ready(p, "absent") /\ row[p] \in Orders
        BY <1>1, <1>9, Points DEF Ask, RowAt, SeenAt
    <2>2. "confirm" \in Pcs /\ "confirm" \notin OcoAt /\ "observed" \in Books
        BY DEF Pcs, OcoAt, Books
    <2>3. ASSUME Read(p, row[p], "observed"), pc' = [pc EXCEPT ![p] = "confirm"], UNCHANGED <<row, oco>>
          PROVE  Step(p)
        BY <1>2, <2>1, <2>2, <2>3, ReadStep
    <2> QED BY <1>1, <1>2, <1>3, <1>9, <2>1, <2>3, FlagStep, GotoStep DEF Ask
<1>10. CASE Confirm(p)
    <2>1. \A at \in {"observe", "poll"} : at \in Pcs /\ Ready(p, at)
        BY <1>10, Points DEF Confirm, RowAt, SeenAt
    <2> QED BY <1>1, <1>2, <1>3, <1>10, <2>1, GotoStep DEF Confirm
<1>11. CASE Relookup(p)
    <2>1. "adopt" \in Pcs /\ Ready(p, "adopt") BY <1>11, Points DEF Relookup, OcoAt
    <2> QED BY <1>1, <1>2, <1>3, <1>11, <2>1, FlagStep, GotoStep DEF Relookup
<1>12. CASE AskOco(p)
    <2>1. "adopt" \in Pcs /\ Ready(p, "adopt") BY <1>12, Points DEF AskOco, OcoAt
    <2> QED BY <1>1, <1>2, <1>3, <1>12, <2>1, FlagStep, GotoStep DEF AskOco
<1>13. CASE Adopt(p)
    <2>1. "check" \in Pcs /\ Ready(p, "check") BY <1>13, Points DEF Adopt, OcoAt
    <2> QED BY <1>1, <1>2, <1>3, <1>13, <2>1, GotoStep DEF Adopt
<1>14. CASE Protect(p)
    <2>1. oco[p] \in Guards BY <1>1, <1>14, Points DEF Protect, OcoAt
    <2> QED BY <1>1, <1>2, <1>3, <1>14, <2>1, SettlingStep DEF Protect
<1> QED BY <1>5, <1>6, <1>7, <1>8, <1>9, <1>10, <1>11, <1>12, <1>13, <1>14

\* The steps that change what the pass holds, and no quantity of the ledger.
LEMMA PassTypes ==
    ASSUME TypeInv, NEW p \in Passes,
           \/ Start(p) \/ Watchdog(p) \/ Crash(p) \/ Enforce(p) \/ Lookup(p) \/ Poll(p)
           \/ Cancel(p) \/ FreshCancelled(p) \/ Recover(p) \/ Refresh(p)
    PROVE  Step(p) /\ TypeInv'
<1>1. /\ phase \in [Intents -> Phases] /\ known \in [Intents -> BOOLEAN] /\ guard \in Guards
      /\ live \in [Orders -> {"none", "wire", "live", "pending", "dead"}]
      /\ incident \in BOOLEAN /\ lock \in Passes \cup {Nobody} /\ crashes \in 0..MaxCrashes
      /\ Closes \subseteq Orders /\ Ocos \subseteq Orders /\ NoOrder \notin Orders
    BY TypeParts, OrderNames DEF TypeInv, StateOK
<1>2. /\ pc \in [Passes -> Pcs] /\ row \in [Passes -> Closes \cup {NoOrder}]
      /\ oco \in [Passes -> Ocos \cup {NoOrder}] /\ seen \in [Passes -> Views]
      /\ filled \in Quantities /\ booked \in Quantities /\ PassInv(p)
    BY TypeParts DEF TypeInv
<1>3. UNCHANGED <<ledgerVars, filled, posts, session>>
    BY DEF Start, Watchdog, Crash, Enforce, Lookup, Poll, Cancel, FreshCancelled, Recover, Refresh
<1> SUFFICES /\ Step(p) /\ incident' \in BOOLEAN /\ lock' \in Passes \cup {Nobody}
             /\ crashes' \in 0..MaxCrashes
             /\ live' \in [Orders -> {"none", "wire", "live", "pending", "dead"}]
    BY <1>1, <1>3, LookStep
<1>4. NoSeen \in Views /\ NoSeen.order = NoOrder BY SizesAssumption DEF NoSeen, Views, Books
<1>5. Exposed \in BOOLEAN BY DEF Exposed
<1>6. CASE Start(p) BY <1>1, <1>3, <1>6, GotoStep, Points DEF Start
<1>7. CASE Watchdog(p) BY <1>1, <1>3, <1>5, <1>7, GotoStep, Points DEF Watchdog
<1>8. CASE Crash(p)
    <2>1. crashes' \in 0..MaxCrashes BY <1>1, <1>8, SizesAssumption DEF Crash
    <2> QED BY <1>1, <1>3, <1>8, <2>1, LeaveStep DEF Crash
<1>9. CASE Enforce(p)
    <2>1. CASE Leave(p) BY <1>1, <1>9, <2>1, LeaveStep DEF Enforce, Leave
    <2>2. CASE ~Leave(p)
        <3>1. PICK at \in {"relookup", "lookup", "session"} :
                  /\ pc' = [pc EXCEPT ![p] = at] /\ seen' = [seen EXCEPT ![p] = NoSeen]
                  /\ row' = row \/ (\E i \in Closes : row' = [row EXCEPT ![p] = i])
                  /\ oco' = oco \/ (\E i \in Ocos : oco' = [oco EXCEPT ![p] = i])
                  /\ at = "lookup" => row'[p] \in Closes
                  /\ at = "relookup" => oco'[p] \in Ocos
            BY <1>2, <1>9, <2>2 DEF Enforce, Active
        <3>2. /\ at \in Pcs /\ at \notin SeenAt \cup BookAt
              /\ at \in RowAt => at = "lookup"
              /\ at \in OcoAt => at = "relookup"
            BY DEF Pcs, SeenAt, BookAt, RowAt, OcoAt
        <3>3. PassInv(p)' BY <1>1, <1>2, <1>4, <3>1, <3>2 DEF PassInv, Ready
        <3>4. Step(p) BY <1>2, <1>4, <3>1, <3>2, <3>3 DEF Step
        <3> QED BY <1>1, <1>9, <3>4 DEF Enforce
    <2> QED BY <2>1, <2>2
<1>10. CASE Lookup(p)
    <2>1. /\ row[p] \in Closes /\ row[p] \in Orders /\ "absent" \in Pcs /\ Ready(p, "absent")
          /\ "observe" \in Pcs /\ "observe" \notin OcoAt \cup BookAt /\ "observed" \in Books
        BY <1>1, <1>10, Points DEF Lookup, RowAt, SeenAt, Pcs, OcoAt, BookAt, Books
    <2> QED BY <1>1, <1>3, <1>10, <2>1, FlagStep, GotoStep, ReadStep DEF Lookup
<1>11. CASE Poll(p)
    <2>1. /\ row[p] \in Closes /\ row[p] \in Orders
          /\ "observe" \in Pcs /\ "observe" \notin OcoAt \cup BookAt /\ "observed" \in Books
        BY <1>1, <1>11, Points DEF Poll, RowAt, SeenAt, Pcs, OcoAt, BookAt, Books
    <2> QED BY <1>1, <1>3, <1>11, <2>1, FlagStep, ReadStep DEF Poll
<1>12. CASE Cancel(p)
    <2>1. "verify" \in Pcs /\ Ready(p, "verify") BY <1>12, Points DEF Cancel, RowAt, SeenAt
    <2> QED BY <1>1, <1>3, <1>12, <2>1, GotoStep DEF Cancel
<1>13. ASSUME NEW at \in {"still", "reelect"}, pc' = [pc EXCEPT ![p] = at], at = "still" => row[p] \in Closes,
              Fresh({}), seen' = [seen EXCEPT ![p].qty = Held], UNCHANGED <<row, oco>>
       PROVE  Step(p)
    <2>1. Held \in 0..Qty
        <3>1. Held = Residual /\ Residual > 0 BY <1>13 DEF Fresh
        <3>2. Total(filled) \in Nat BY <1>2, TotalType
        <3> QED BY <3>1, <3>2, SizesAssumption DEF Held
    <2>2. seen' \in [Passes -> Views] /\ \A q \in Passes \ {p} : seen'[q] = seen[q]
        BY <1>2, <1>13, <2>1 DEF Views
    <2>3. seen'[p].order = seen[p].order /\ seen'[p].filled = seen[p].filled
        BY <1>2, <1>13 DEF Views
    <2>4. at \in Pcs /\ at \notin SeenAt \cup BookAt \cup OcoAt /\ (at \in RowAt => at = "still")
        BY DEF Pcs, SeenAt, BookAt, RowAt, OcoAt
    <2>5. PassInv(p)' BY <1>2, <1>3, <1>13, <2>3, <2>4 DEF PassInv, Ready
    <2> QED BY <1>2, <1>13, <2>2, <2>4, <2>5 DEF Step
<1>14. CASE FreshCancelled(p)
    <2>1. row[p] \in Closes BY <1>14, Points DEF FreshCancelled, RowAt
    <2> QED BY <1>1, <1>3, <1>13, <1>14, <2>1, FlagStep DEF FreshCancelled
<1>15. CASE Refresh(p) BY <1>1, <1>3, <1>13, <1>15, FlagStep DEF Refresh
<1>16. CASE Recover(p)
    <2>1. CASE Goto(p, "reread") BY <1>1, <1>3, <1>16, <2>1, GotoStep, Points DEF Recover
    <2>2. CASE ~Goto(p, "reread")
        <3>1. PICK i \in Ocos : /\ oco' = [oco EXCEPT ![p] = i] /\ pc' = [pc EXCEPT ![p] = "relookup"]
                                /\ UNCHANGED <<row, seen>>
            BY <1>16, <2>2 DEF Recover, Active
        <3>2. "relookup" \in Pcs /\ "relookup" \notin RowAt \cup SeenAt \cup BookAt
            BY DEF Pcs, RowAt, SeenAt, BookAt
        <3>3. PassInv(p)' BY <1>2, <1>3, <3>1, <3>2 DEF PassInv, Ready
        <3>4. Step(p) BY <1>2, <3>1, <3>2, <3>3 DEF Step
        <3> QED BY <1>1, <1>16, <3>4 DEF Recover
    <2> QED BY <2>1, <2>2
<1> QED BY <1>6, <1>7, <1>8, <1>9, <1>10, <1>11, <1>12, <1>14, <1>15, <1>16

\* What the callers of _record_broker_exit go on to.
LEMMA BookingSteps ==
    ASSUME TypeInv, NEW p \in Passes, pc[p] \in BookAt, filled' = filled
    PROVE  /\ BookingFailed(p) => Step(p) /\ (incident' = incident \/ incident' = TRUE)
           /\ BookedClosed(p) => Step(p)
           /\ \A at \in BookAt \cup {seen[p].back} : Goto(p, at) => Step(p)
<1>1. /\ seen[p].back \in Books /\ Books \subseteq Pcs /\ BookAt \subseteq Pcs
      /\ \A at \in BookAt \cup {seen[p].back} : Ready(p, at)
    BY Points
<1>2. ASSUME BookingFailed(p) PROVE Step(p) /\ (incident' = incident \/ incident' = TRUE)
    <2>1. "enforce" \in Pcs /\ Ready(p, "enforce") BY Points
    <2>2. ASSUME seen[p].back = "verified" PROVE "unverified" \in Pcs /\ Ready(p, "unverified")
        <3>1. Ready(p, "verified") BY <1>1, <2>2
        <3>2. row[p] \in Closes /\ seen[p].order \in Orders BY <3>1, Points DEF Ready, RowAt
        <3> QED BY <3>2 DEF Ready, Pcs, OcoAt, BookAt
    <2> QED BY <1>2, <2>1, <2>2, FlagStep, GotoStep DEF BookingFailed, Flag
<1>3. BookedClosed(p) => Step(p) BY LeaveStep, SettlingStep DEF BookedClosed, Leave
<1>4. \A at \in BookAt \cup {seen[p].back} : Goto(p, at) => Step(p) BY <1>1, GotoStep
<1> QED BY <1>2, <1>3, <1>4

\* The accounting books no more than there is.
LEMMA BookingTypes ==
    ASSUME TypeInv, NEW p \in Passes, BookFill(p) \/ CheckFlat(p) \/ ClosePosition(p)
    PROVE  Step(p) /\ TypeInv'
<1>1. /\ StateOK /\ booked \in Quantities /\ filled \in Quantities /\ seen[p] \in Views
      /\ incident \in BOOLEAN /\ PassInv(p)
    BY TypeParts DEF TypeInv, StateOK
<1>2. pc[p] \in BookAt BY DEF BookFill, CheckFlat, ClosePosition, BookAt
<1>3. /\ seen[p].order \in Orders /\ {"book", "flat", "close"} \subseteq BookAt
      /\ filled' = filled
    BY <1>2, Points DEF BookAt, BookFill, CheckFlat, ClosePosition
<1>4. Total(booked) <= Qty /\ \A o \in Orders : booked[o] <= filled[o] BY DEF TypeInv
<1>5. CASE BookFill(p)
    <2> DEFINE o == seen[p].order
               rest == Residual + booked[o] - seen[p].filled
    <2>1. UNCHANGED <<phase, known, size, position, guard, brokerVars, session, lock, crashes>>
        BY <1>5 DEF BookFill
    <2>2. CASE /\ position = "open" /\ seen[p].filled >= booked[o] /\ rest >= 0
               /\ booked' = [booked EXCEPT ![o] = seen[p].filled]
               /\ Goto(p, IF rest = 0 THEN "flat" ELSE seen[p].back) /\ UNCHANGED incident
        <3>1. Step(p) BY <1>2, <1>3, <2>2, BookingSteps
        <3>2. StateOK' BY <1>1, <2>1, <2>2 DEF StateOK
        <3>3. seen[p].filled \in 0..Qty /\ seen[p].filled <= filled[o] BY <1>1, <1>3 DEF PassInv, Views
        <3> HIDE DEF o
        <3>4. booked' \in Quantities BY <1>1, <2>2, <3>3 DEF Quantities
        <3>5. /\ \A j \in Orders \ {o} : booked[j] = booked'[j]
              /\ booked'[o] = seen[p].filled
            BY <1>1, <1>3, <2>2 DEF Quantities, o
        <3>6. Total(booked') = Total(booked) - booked[o] + booked'[o]
            BY <1>1, <1>3, <3>4, <3>5, TotalChange DEF o
        <3>7. Total(booked) \in Nat /\ booked[o] \in Nat /\ seen[p].filled \in Nat /\ Qty \in Nat
            BY <1>1, <1>3, <3>3, TotalType, SizesAssumption DEF Quantities, o
        <3>8. Total(booked') <= Qty BY <2>2, <3>5, <3>6, <3>7 DEF Residual
        <3>9. \A j \in Orders : booked'[j] <= filled[j] BY <1>4, <3>3, <3>5
        <3> QED BY <1>3, <3>1, <3>2, <3>4, <3>8, <3>9, TypeFrame
    <2>3. ASSUME UNCHANGED booked, Step(p), incident' = incident \/ incident' = TRUE PROVE Step(p) /\ TypeInv'
        <3>1. StateOK' BY <1>1, <2>1, <2>3 DEF StateOK
        <3> QED BY <1>1, <1>3, <1>4, <2>3, <3>1, TypeFrame
    <2>4. CASE position = "open" /\ BookingFailed(p) /\ UNCHANGED booked
        BY <1>2, <1>3, <2>3, <2>4, BookingSteps
    <2>5. CASE /\ position = "closed"
               /\ IF seen[p].back = "observed" THEN Goto(p, "observed") ELSE BookedClosed(p)
               /\ UNCHANGED <<booked, incident>>
        BY <1>2, <1>3, <2>3, <2>5, BookingSteps
    <2> QED BY <1>5, <2>2, <2>4, <2>5 DEF BookFill
<1>6. CASE CheckFlat(p)
    <2>1. UNCHANGED <<ledgerVars, brokerVars, session, lock, crashes>> BY <1>6 DEF CheckFlat
    <2>2. Step(p) /\ (incident' = incident \/ incident' = TRUE)
        BY <1>2, <1>3, <1>6, BookingSteps DEF CheckFlat
    <2>3. StateOK' BY <1>1, <2>1, <2>2 DEF StateOK
    <2> QED BY <1>1, <1>3, <1>4, <2>1, <2>2, <2>3, TypeFrame
<1>7. CASE ClosePosition(p)
    <2>1. UNCHANGED <<known, size, booked, guard, incident, brokerVars, session, lock, crashes>>
        BY <1>7 DEF ClosePosition
    <2>2. Step(p) BY <1>2, <1>3, <1>7, BookingSteps DEF ClosePosition
    <2>3. phase' \in [Intents -> Phases] /\ position' \in {"open", "closed"}
        BY <1>1, <1>7 DEF ClosePosition, StateOK, Phases
    <2>4. StateOK' BY <1>1, <2>1, <2>3 DEF StateOK
    <2> QED BY <1>1, <1>3, <1>4, <2>1, <2>2, <2>4, TypeFrame
<1> QED BY <1>5, <1>6, <1>7

\* The steps that write an intent's quantity, or submit it.
LEMMA IntentTypes ==
    ASSUME TypeInv, NEW p \in Passes,
           Elect(p) \/ ClaimClose(p) \/ Reelect(p) \/ PostClose(p) \/ PostOco(p)
    PROVE  Step(p) /\ TypeInv'
<1>1. /\ StateOK /\ seen[p] \in Views /\ PassInv(p) /\ incident \in BOOLEAN
      /\ phase \in [Intents -> Phases] /\ size \in [Intents -> 0..Qty]
      /\ Closes \subseteq Orders /\ Ocos \subseteq Orders
      /\ Closes \subseteq Intents /\ Ocos \subseteq Intents
    BY TypeParts, OrderNames DEF TypeInv, StateOK
<1>2. /\ pc \in [Passes -> Pcs] /\ row \in [Passes -> Closes \cup {NoOrder}]
      /\ oco \in [Passes -> Ocos \cup {NoOrder}] /\ seen \in [Passes -> Views]
      /\ filled \in Quantities /\ booked \in Quantities
      /\ Total(booked) <= Qty /\ \A o \in Orders : booked[o] <= filled[o]
    BY TypeParts DEF TypeInv
<1>3. UNCHANGED <<known, booked, position, guard, filled, session, lock, crashes>>
    BY DEF Elect, ClaimClose, Reelect, PostClose, PostOco, Post
<1> SUFFICES /\ Step(p) /\ phase' \in [Intents -> Phases] /\ size' \in [Intents -> 0..Qty]
             /\ incident' \in BOOLEAN /\ posts' \in [Intents -> Nat]
             /\ live' \in [Orders -> {"none", "wire", "live", "pending", "dead"}]
    <2>1. StateOK' BY <1>1, <1>3 DEF StateOK
    <2> QED BY <1>2, <1>3, <2>1, TypeFrame
<1>4. {"canceling", "submitting"} \subseteq Phases BY DEF Phases, ActivePhases
<1>5. CASE Elect(p)
    <2>1. CASE Leave(p) /\ UNCHANGED <<phase, size>>
        BY <1>1, <1>5, <2>1, LeaveStep DEF Elect, Leave, StateOK
    <2>2. CASE ~(Leave(p) /\ UNCHANGED <<phase, size>>)
        <3>1. PICK i \in Closes : /\ phase' = [phase EXCEPT ![i] = "canceling"]
                                  /\ size' = [size EXCEPT ![i] = Residual]
                                  /\ row' = [row EXCEPT ![p] = i] /\ pc' = [pc EXCEPT ![p] = "cancel"]
                                  /\ UNCHANGED <<oco, seen>>
            BY <1>5, <2>2 DEF Elect
        <3>2. Residual \in 0..Qty
            <4>1. Total(booked) \in Nat BY <1>2, TotalType
            <4> QED BY <1>2, <4>1, SizesAssumption DEF Residual
        <3>3. /\ "cancel" \in Pcs /\ "cancel" \notin OcoAt \cup BookAt
              /\ seen[p].order \in Orders
            BY <1>1, <1>5 DEF Elect, PassInv, Ready, Pcs, SeenAt, OcoAt, BookAt
        <3>4. PassInv(p)' BY <1>1, <1>2, <1>3, <3>1, <3>3 DEF PassInv, Ready
        <3>5. Step(p) BY <1>2, <3>1, <3>3, <3>4 DEF Step
        <3> QED BY <1>1, <1>4, <1>5, <3>1, <3>2, <3>5 DEF Elect, StateOK
    <2> QED BY <2>1, <2>2
<1>6. CASE ClaimClose(p)
    <2>1. row[p] \in Intents /\ "post" \in Pcs /\ Ready(p, "post")
        BY <1>1, <1>6, Points DEF ClaimClose, RowAt, SeenAt
    <2>2. Step(p) /\ incident' \in BOOLEAN
        BY <1>1, <1>3, <1>6, <2>1, GotoStep, FlagStep DEF ClaimClose
    <2>3. ASSUME NEW n, n \in 1..size[row[p]] PROVE n \in 0..Qty
        BY <1>1, <2>1, <2>3, SizesAssumption
    <2>4. size' \in [Intents -> 0..Qty] BY <1>1, <1>6, <2>1, <2>3 DEF ClaimClose
    <2>5. phase' \in [Intents -> Phases] BY <1>1, <1>4, <1>6 DEF ClaimClose
    <2> QED BY <1>1, <1>6, <2>2, <2>4, <2>5 DEF ClaimClose, StateOK
<1>7. CASE Reelect(p)
    <2>1. PICK i \in Ocos, at \in {"repost", "relookup"} :
              /\ oco' = [oco EXCEPT ![p] = i] /\ pc' = [pc EXCEPT ![p] = at] /\ UNCHANGED <<row, seen>>
              /\ \/ /\ phase' = [phase EXCEPT ![i] = "submitting"]
                    /\ size' = [size EXCEPT ![i] = seen[p].qty]
                 \/ UNCHANGED <<phase, size>>
        BY <1>7 DEF Reelect, Active
    <2>2. at \in Pcs /\ at \notin RowAt \cup SeenAt \cup BookAt BY DEF Pcs, RowAt, SeenAt, BookAt
    <2>3. PassInv(p)' BY <1>1, <1>2, <1>3, <2>1, <2>2 DEF PassInv, Ready
    <2>4. Step(p) BY <1>2, <2>1, <2>2, <2>3 DEF Step
    <2>5. seen[p].qty \in 0..Qty BY <1>1 DEF Views
    <2> QED BY <1>1, <1>4, <1>7, <2>1, <2>4, <2>5 DEF Reelect, StateOK
<1>8. ASSUME NEW i \in Intents, NEW answered \in {"confirm", "adopt"}, NEW asking \in Pcs,
             Post(p, i, answered, asking), Ready(p, asking),
             answered = "confirm" => row[p] \in Closes, answered = "adopt" => oco[p] \in Ocos
      PROVE  /\ Step(p) /\ incident' = incident /\ posts' \in [Intents -> Nat]
             /\ UNCHANGED <<phase, size>>
             /\ live' \in [Orders -> {"none", "wire", "live", "pending", "dead"}]
    <2>1. /\ answered \in Pcs /\ "observed" \in Books /\ i \in Orders /\ answered \notin BookAt
          /\ answered \in RowAt => answered = "confirm"
          /\ answered \in OcoAt => answered = "adopt"
        BY OrderNames DEF Pcs, Books, RowAt, OcoAt, BookAt
    <2>2. Step(p)
        <3>1. CASE Goto(p, asking) BY <1>3, <1>8, <3>1, GotoStep
        <3>2. CASE Read(p, i, "observed") /\ pc' = [pc EXCEPT ![p] = answered] /\ UNCHANGED <<row, oco>>
            BY <1>3, <1>8, <2>1, <3>2, ReadStep
        <3> QED BY <1>8, <3>1, <3>2 DEF Post
    <2>3. posts' \in [Intents -> Nat] BY <1>1, <1>8 DEF Post, StateOK
    <2> QED BY <1>1, <1>8, <2>2, <2>3 DEF Post, StateOK
<1>9. CASE PostClose(p)
    <2>1. row[p] \in Closes /\ "ask" \in Pcs /\ Ready(p, "ask")
        BY <1>9, Points DEF PostClose, RowAt, SeenAt
    <2> QED BY <1>1, <1>8, <1>9, <2>1 DEF PostClose
<1>10. CASE PostOco(p)
    <2>1. oco[p] \in Ocos /\ "reask" \in Pcs /\ Ready(p, "reask")
        BY <1>10, Points DEF PostOco, OcoAt
    <2> QED BY <1>1, <1>8, <1>10, <2>1 DEF PostOco
<1> QED BY <1>5, <1>6, <1>7, <1>9, <1>10

\* The broker only adds fills, and none beyond an order's quantity.
LEMMA BrokerTypes ==
    ASSUME TypeInv, Clock \/ (\E o \in Orders : Broker(o)) \/ UNCHANGED vars
    PROVE  TypeInv'
<1>1. /\ StateOK /\ booked \in Quantities /\ filled \in Quantities
      /\ pc \in [Passes -> Pcs] /\ row \in [Passes -> Closes \cup {NoOrder}]
      /\ oco \in [Passes -> Ocos \cup {NoOrder}] /\ seen \in [Passes -> Views]
      /\ Total(booked) <= Qty /\ \A o \in Orders : booked[o] <= filled[o]
    BY TypeParts DEF TypeInv
<1>2. ASSUME UNCHANGED <<ledgerVars, incident, posts, passVars, lock, crashes>>, session' \in BOOLEAN,
             live' \in [Orders -> {"none", "wire", "live", "pending", "dead"}],
             filled' \in Quantities, \A o \in Orders : filled[o] <= filled'[o]
      PROVE  TypeInv'
    <2>1. TypeOK' BY <1>1, <1>2 DEF TypeOK, StateOK, Quantities, Views
    <2>2. (Total(booked) <= Qty)' BY <1>1, <1>2 DEF Total, SharesIn
    <2>3. \A o \in Orders : booked[o] \in Nat /\ filled[o] \in Nat /\ filled'[o] \in Nat
        BY <1>1, <1>2, SizesAssumption DEF Quantities
    <2>4. \A o \in Orders : booked'[o] <= filled'[o] BY <1>1, <1>2, <2>3
    <2>5. ASSUME NEW q \in Passes PROVE PassInv(q)'
        <3>1. PassInv(q) /\ seen[q].filled \in Nat BY <1>1, SizesAssumption DEF TypeInv, Views
        <3>2. Ready(q, pc[q])' BY <1>2, <3>1 DEF PassInv, Ready
        <3>3. (seen[q].order \in Orders => seen[q].filled <= filled[seen[q].order])'
            BY <1>2, <2>3, <3>1 DEF PassInv
        <3> QED BY <3>2, <3>3 DEF PassInv
    <2> QED BY <2>1, <2>2, <2>4, <2>5 DEF TypeInv
<1>3. \A o \in Orders : filled[o] <= filled[o] BY <1>1, SizesAssumption DEF Quantities
<1>4. CASE Clock \/ UNCHANGED vars BY <1>1, <1>2, <1>3, <1>4 DEF Clock, vars, StateOK
<1>5. ASSUME NEW o \in Orders, Expire(o) \/ Arrive(o) PROVE TypeInv'
    BY <1>1, <1>2, <1>3, <1>5 DEF Expire, Arrive, StateOK
<1>6. ASSUME NEW o \in Orders, Fill(o) PROVE TypeInv'
    <2>1. Size(o) \in 0..Qty BY <1>1, SizesAssumption, OrderNames DEF Size, StateOK
    <2>2. filled[o] \in 0..Qty /\ filled[o] + 1 \in 0..Qty
        BY <1>1, <1>6, <2>1, SizesAssumption DEF Fill, Quantities
    <2>3. filled' \in Quantities BY <1>1, <1>6, <2>2 DEF Fill, Quantities
    <2>4. \A q \in Orders : filled[q] <= filled'[q]
        BY <1>1, <1>3, <1>6, <2>2 DEF Fill, Quantities
    <2>5. live' \in [Orders -> {"none", "wire", "live", "pending", "dead"}]
        BY <1>1, <1>6 DEF Fill, StateOK
    <2> QED BY <1>1, <1>2, <1>6, <2>3, <2>4, <2>5 DEF Fill, StateOK
<1> QED BY <1>4, <1>5, <1>6 DEF Broker

\* The types hold in the initial states.
LEMMA InitTypes == Init => TypeInv
<1> SUFFICES ASSUME Init PROVE TypeInv OBVIOUS
<1>1. 0 \in 0..Qty /\ 0 \in 0..MaxCrashes /\ Qty > 0 BY SizesAssumption
<1>2. StateOK BY <1>1, OrderNames DEF Init, StateOK, Phases, Guards
<1>3. booked \in Quantities /\ filled \in Quantities BY <1>1 DEF Init, Quantities
<1>4. \A p \in Passes : pc[p] = "idle" /\ row[p] = NoOrder /\ oco[p] = NoOrder /\ seen[p] = NoSeen
    BY DEF Init
<1>5. "idle" \in Pcs /\ NoSeen \in Views /\ NoSeen.order = NoOrder
    BY <1>1 DEF Pcs, NoSeen, Views, Books
<1>6. TypeOK BY <1>2, <1>3, <1>5, TypeParts DEF Init
<1>7. Total(booked) = 0 BY <1>3, TotalNothing DEF Init
<1>8. \A p \in Passes : PassInv(p)
    BY <1>4, <1>5, OrderNames DEF PassInv, Ready, RowAt, OcoAt, SeenAt, BookAt
<1>9. \A o \in Orders : booked[o] <= filled[o] BY DEF Init
<1> QED BY <1>1, <1>6, <1>7, <1>8, <1>9 DEF TypeInv

\* Every step of every pass preserves the types.
LEMMA WorkTypes ==
    ASSUME TypeInv, NEW p \in Passes, Work(p)
    PROVE  Step(p) /\ TypeInv'
BY LookTypes, PhaseTypes, PassTypes, BookingTypes, IntentTypes DEF Work

\* So does every step.
LEMMA StepTypes == TypeInv /\ [Next]_vars => TypeInv'
BY WorkTypes, PassTypes, BrokerTypes DEF Next

\* For any number of passes, owned by the monitor lock or not, and whatever is
\* delivered late: no pass works on what it does not have, and no fill is booked
\* that the broker does not have.
THEOREM TypesHold == Spec => []TypeInv
BY InitTypes, StepTypes, PTL DEF Spec

\* Every variable has its type.
THEOREM TypeCorrect == Spec => []TypeOK
<1>1. TypeInv => TypeOK BY DEF TypeInv
<1> QED BY <1>1, TypesHold, PTL

----------------------------------------------------------------------------
(* One pass at a time, and POSTs that arrive at once or never.              *)

NoneAlive == \A o \in Orders : ~MayFill(o)

\* An order sells no more than is held; an intent that is not sent has none.
OrderSafe(o) ==
    /\ live[o] # "wire" /\ filled[o] <= Size(o)
    /\ live[o] = "none" => filled[o] = 0
    /\ MayFill(o) => filled[o] < Size(o) /\ Size(o) - filled[o] <= Held
    /\ o \in Intents /\ phase[o] \in Unsent => live[o] = "none"

\* Where a pass is about to submit it still finds what its last check found.
PassSafe(p) ==
    /\ pc[p] # "idle" => lock = p
    /\ pc[p] \in {"still", "claim", "post", "reelect", "repost"} => NoneAlive
    /\ pc[p] \in {"still", "claim", "reelect"} => seen[p].qty = Held
    /\ pc[p] \in {"reelect", "post", "repost"} => Held > 0
    /\ pc[p] = "post" => size[row[p]] = Held
    /\ pc[p] = "repost" => size[oco[p]] = Held
    /\ pc[p] \in {"flat", "close"} => Residual = 0
    /\ pc[p] = "close" => Held = 0
    /\ position = "closed" => pc[p] \in {"idle", "watch", "settle"}

SafeInv ==
    /\ OneExitOrder /\ 0 <= Held
    /\ \A o \in Orders : OrderSafe(o)
    /\ position = "closed" => Held = 0 /\ Residual = 0
    /\ \A p \in Passes : PassSafe(p)

\* The points where PassSafe promises more than the lock and an open position.
Checked == {"still", "claim", "post", "reelect", "repost", "flat", "close"}

\* What is held, and what the ledger thinks is, are whole numbers.
LEMMA Counted ==
    ASSUME TypeInv
    PROVE  /\ Held \in Int /\ Residual \in Int /\ Held <= Qty
           /\ \A o \in Orders : Size(o) \in 0..Qty /\ filled[o] \in 0..Qty
           /\ \A i \in Intents : Size(i) = size[i]
<1>1. booked \in Quantities /\ filled \in Quantities /\ size \in [Intents -> 0..Qty]
    BY TypeParts DEF TypeInv, StateOK
<1>2. Total(booked) \in Nat /\ Total(filled) \in Nat BY <1>1, TotalType
<1>3. \A o \in Orders : Size(o) \in 0..Qty BY <1>1, OrderNames, SizesAssumption DEF Size
<1>4. \A i \in Intents : Size(i) = size[i] BY OrderNames DEF Size
<1>5. \A o \in Orders : filled[o] \in 0..Qty BY <1>1 DEF Quantities
<1> QED BY <1>2, <1>3, <1>4, <1>5, SizesAssumption DEF Held, Residual

\* They are counted from the fills after a step as before it.
LEMMA After ==
    /\ Held' = Qty - Total(filled') /\ Residual' = Qty - Total(booked')
    /\ filled' = filled => Held' = Held
    /\ booked' = booked => Residual' = Residual
BY DEF Held, Residual, Total, SharesIn

\* A pass that runs holds the lock: it runs alone, and the position is open.
LEMMA Alone ==
    ASSUME TypeInv, SafeInv, NEW p \in Passes, pc[p] # "idle"
    PROVE  /\ lock = p /\ \A q \in Passes \ {p} : pc[q] = "idle"
           /\ pc[p] \notin {"watch", "settle"} => position = "open"
<1>1. \A q \in Passes : PassSafe(q) BY DEF SafeInv
<1>2. lock = p /\ \A q \in Passes \ {p} : pc[q] = "idle" BY <1>1 DEF PassSafe
<1>3. position \in {"open", "closed"} BY TypeParts DEF TypeInv, StateOK
<1> QED BY <1>1, <1>2, <1>3 DEF PassSafe

\* A step of the only pass is safe if its orders, its close and it are.
LEMMA SafeFrame ==
    ASSUME TypeInv, SafeInv, NEW p \in Passes, Step(p), \A q \in Passes \ {p} : pc[q] = "idle",
           OneExitOrder', 0 <= Held', \A o \in Orders : OrderSafe(o)',
           position' = "closed" => Held' = 0 /\ Residual' = 0, PassSafe(p)'
    PROVE  SafeInv'
<1>1. ASSUME NEW q \in Passes \ {p} PROVE PassSafe(q)'
    <2>1. pc'[q] = "idle" BY DEF Step
    <2> QED BY <2>1 DEF PassSafe
<1> QED BY <1>1 DEF SafeInv

\* A step that changes no order, and no quantity of an intent that was sent.
LEMMA OrdersStay ==
    ASSUME TypeInv, TypeInv', SafeInv, UNCHANGED <<live, filled>>,
           \A i \in Intents : size'[i] = size[i] \/ phase[i] \in Unsent,
           \A i \in Intents : phase'[i] \in Unsent => phase[i] \in Unsent
    PROVE  /\ OneExitOrder' /\ 0 <= Held' /\ Held' = Held /\ NoneAlive' = NoneAlive
           /\ \A o \in Orders : OrderSafe(o)'
<1>1. Held' = Held BY After
<1>2. OneExitOrder' /\ 0 <= Held' /\ NoneAlive' = NoneAlive
    BY <1>1 DEF SafeInv, OneExitOrder, MayFill, NoneAlive
<1>3. ASSUME NEW o \in Orders PROVE OrderSafe(o)'
    <2>0. size' \in [Intents -> 0..Qty] BY DEF TypeInv, TypeOK
    <2>1. /\ OrderSafe(o) /\ Size(o) \in 0..Qty /\ Size(o)' \in 0..Qty /\ filled[o] \in 0..Qty
          /\ Held \in Int /\ MayFill(o)' = MayFill(o)
        BY <2>0, Counted, SizesAssumption, OrderNames DEF SafeInv, MayFill, Size
    <2>2. CASE Size(o)' = Size(o)
        BY <1>1, <2>1, <2>2 DEF OrderSafe
    <2>3. CASE Size(o)' # Size(o)
        <3>1. o \in Intents /\ phase[o] \in Unsent
            BY <2>3, OrderNames DEF Size
        <3>2. live[o] = "none" /\ filled[o] = 0 BY <2>1, <3>1 DEF OrderSafe
        <3> QED BY <2>1, <3>2 DEF OrderSafe, MayFill
    <2> QED BY <2>2, <2>3
<1> QED BY <1>1, <1>2, <1>3

\* A pass that only goes on to a point with nothing to check is safe.
LEMMA Plain ==
    ASSUME TypeInv, TypeInv', SafeInv, NEW p \in Passes, Step(p), \A q \in Passes \ {p} : pc[q] = "idle",
           UNCHANGED <<live, filled, position>>,
           \A i \in Intents : size'[i] = size[i] \/ phase[i] \in Unsent,
           \A i \in Intents : phase'[i] \in Unsent => phase[i] \in Unsent,
           booked' = booked \/ position = "open",
           pc'[p] \notin Checked, pc'[p] = "idle" \/ lock' = p,
           pc'[p] \in {"idle", "watch", "settle"} \/ position = "open"
    PROVE  SafeInv'
<1>1. OneExitOrder' /\ 0 <= Held' /\ Held' = Held /\ \A o \in Orders : OrderSafe(o)' BY OrdersStay
<1>2. position' = "closed" => Held' = 0 /\ Residual' = 0 BY <1>1, After DEF SafeInv
<1>3. PassSafe(p)' BY DEF PassSafe, Checked
<1> QED BY <1>1, <1>2, <1>3, SafeFrame

\* Looking at the broker and the session is safe.
LEMMA LookSafe ==
    ASSUME TypeInv, SafeInv, NEW p \in Passes,
           \/ Reconcile(p) \/ CheckSession(p) \/ ReadProtection(p) \/ FreshProtected(p)
           \/ Verify(p) \/ Verified(p) \/ Unverified(p) \/ Reread(p) \/ CheckOco(p)
    PROVE  SafeInv'
<1>1. Step(p) /\ TypeInv' BY LookTypes
<1>2. /\ pc[p] \notin {"idle", "watch", "settle"}
      /\ UNCHANGED <<live, filled, position, size, phase, booked, lock>>
    BY DEF Reconcile, CheckSession, ReadProtection, FreshProtected, Verify, Verified, Unverified,
           Reread, CheckOco
<1>3. pc \in [Passes -> Pcs] BY TypeParts DEF TypeInv
<1>4. \A at : Goto(p, at) => pc'[p] = at BY <1>3 DEF Goto
<1>5. \A o, back : ReadAndBook(p, o, back) => pc'[p] \in {"book", back} BY <1>3 DEF ReadAndBook
<1>6. (Leave(p) => pc'[p] = "watch") /\ (Flag(p) => pc'[p] = "watch") BY <1>3 DEF Leave, Flag
<1>7. pc'[p] \notin Checked
    <2>1. CASE Reconcile(p) BY <1>4, <1>5, <2>1 DEF Reconcile, Checked
    <2>2. CASE CheckSession(p) BY <1>4, <1>6, <2>2 DEF CheckSession, Checked
    <2>3. CASE ReadProtection(p) BY <1>5, <1>6, <2>3 DEF ReadProtection, Checked
    <2>4. CASE FreshProtected(p) BY <1>4, <1>6, <2>4 DEF FreshProtected, Checked
    <2>5. CASE Verify(p) BY <1>4, <1>5, <2>5 DEF Verify, Checked
    <2>6. CASE Verified(p) BY <1>4, <2>6 DEF Verified, Checked
    <2>7. CASE Unverified(p) BY <1>4, <1>6, <2>7 DEF Unverified, Checked
    <2>8. CASE Reread(p) BY <1>5, <1>6, <2>8 DEF Reread, Checked
    <2>9. CASE CheckOco(p) BY <1>4, <1>6, <2>9 DEF CheckOco, Checked
    <2> QED BY <2>1, <2>2, <2>3, <2>4, <2>5, <2>6, <2>7, <2>8, <2>9
<1> QED BY <1>1, <1>2, <1>7, Alone, Plain

\* So is saving a phase that no intent returns from, an identity or a parent.
LEMMA PhaseSafe ==
    ASSUME TypeInv, SafeInv, NEW p \in Passes,
           \/ Settle(p) \/ Absent(p) \/ Observe(p) \/ Observed(p) \/ Ask(p) \/ Confirm(p)
           \/ Relookup(p) \/ AskOco(p) \/ Adopt(p) \/ Protect(p)
    PROVE  SafeInv'
<1>1. Step(p) /\ TypeInv' BY PhaseTypes
<1>2. /\ pc[p] \notin {"idle", "watch"}
      /\ UNCHANGED <<live, filled, position, size, booked, lock>>
    BY DEF Settle, Absent, Observe, Observed, Ask, Confirm, Relookup, AskOco, Adopt, Protect
<1>3. pc \in [Passes -> Pcs] /\ phase \in [Intents -> Phases] BY TypeParts DEF TypeInv, StateOK
<1>4. \A i \in Intents : phase'[i] \in Unsent => phase[i] \in Unsent
    <2>1. ASSUME NEW i, NEW to \in {"terminal", "working", "unknown", "protected"}
          PROVE  phase' = [phase EXCEPT ![i] = to] =>
                    \A j \in Intents : phase'[j] \in Unsent => phase[j] \in Unsent
        BY <1>3 DEF Unsent
    <2> QED BY <2>1 DEF Settle, Absent, Observe, Observed, Ask, Confirm, Relookup, AskOco, Adopt, Protect
<1>5. \A at : Goto(p, at) => pc'[p] = at BY <1>3 DEF Goto
<1>6. (Leave(p) => pc'[p] = "watch") /\ (Flag(p) => pc'[p] = "watch") BY <1>3 DEF Leave, Flag
<1>7. pc'[p] \notin Checked /\ (pc[p] = "settle" => pc'[p] = "watch")
    <2>1. CASE Settle(p) BY <1>6, <2>1 DEF Settle, Checked
    <2>2. CASE Absent(p) BY <1>3, <2>2 DEF Absent, Checked
    <2>3. CASE Observe(p) BY <1>5, <2>3 DEF Observe, Checked
    <2>4. CASE Observed(p) BY <1>3, <1>6, <2>4 DEF Observed, Checked
    <2>5. CASE Ask(p) BY <1>3, <1>5, <1>6, <2>5 DEF Ask, Checked
    <2>6. CASE Confirm(p) BY <1>5, <2>6 DEF Confirm, Checked
    <2>7. CASE Relookup(p) BY <1>5, <1>6, <2>7 DEF Relookup, Checked
    <2>8. CASE AskOco(p) BY <1>5, <1>6, <2>8 DEF AskOco, Checked
    <2>9. CASE Adopt(p) BY <1>5, <2>9 DEF Adopt, Checked
    <2>10. CASE Protect(p) BY <1>5, <1>6, <2>10 DEF Protect, Settling, Checked
    <2> QED BY <2>1, <2>2, <2>3, <2>4, <2>5, <2>6, <2>7, <2>8, <2>9, <2>10
<1> QED BY <1>1, <1>2, <1>4, <1>7, Alone, Plain

\* Nobody starts a pass while another runs; it ends, or dies, wherever it is.
LEMMA PassSafety ==
    ASSUME Ownership, TypeInv, SafeInv, NEW p \in Passes,
           Start(p) \/ Watchdog(p) \/ Crash(p) \/ Enforce(p) \/ Lookup(p) \/ Poll(p) \/ Recover(p)
    PROVE  SafeInv'
<1>1. Step(p) /\ TypeInv' BY PassTypes
<1>2. UNCHANGED <<live, filled, position, size, phase, booked>>
    BY DEF Start, Watchdog, Crash, Enforce, Lookup, Poll, Recover
<1>3. pc \in [Passes -> Pcs] /\ position \in {"open", "closed"} BY TypeParts DEF TypeInv, StateOK
<1>4. \A at : Goto(p, at) => pc'[p] = at BY <1>3 DEF Goto
<1>5. (Leave(p) => pc'[p] = "watch") /\ (Flag(p) => pc'[p] = "watch") BY <1>3 DEF Leave, Flag
<1>6. CASE Start(p)
    <2>1. lock = Nobody /\ lock' = p /\ pc'[p] = "reconcile" /\ position = "open"
        BY <1>4, <1>6 DEF Start
    <2>2. \A q \in Passes : pc[q] = "idle"
        BY <2>1, NobodyAssumption DEF SafeInv, PassSafe
    <2>3. pc'[p] \notin Checked BY <2>1 DEF Checked
    <2> QED BY <1>1, <1>2, <2>1, <2>2, <2>3, Plain
<1>7. CASE Watchdog(p) \/ Crash(p)
    <2>1. pc[p] # "idle" /\ pc'[p] = "idle" BY <1>3, <1>4, <1>7 DEF Watchdog, Crash
    <2>2. pc'[p] \notin Checked BY <2>1 DEF Checked
    <2> QED BY <1>1, <1>2, <2>1, <2>2, Alone, Plain
<1>8. CASE Enforce(p) \/ Lookup(p) \/ Poll(p) \/ Recover(p)
    <2>1. pc[p] \notin {"idle", "watch", "settle"} /\ lock' = lock
        BY <1>8 DEF Enforce, Lookup, Poll, Recover
    <2>2. pc'[p] \notin Checked
        <3>1. CASE Enforce(p) BY <1>3, <1>5, <3>1 DEF Enforce, Checked
        <3>2. CASE Lookup(p) BY <1>3, <1>4, <1>5, <3>2 DEF Lookup, Checked
        <3>3. CASE Poll(p) BY <1>3, <1>4, <1>5, <3>3 DEF Poll, Checked
        <3>4. CASE Recover(p) BY <1>3, <1>4, <3>4 DEF Recover, Checked
        <3> QED BY <1>8, <3>1, <3>2, <3>3, <3>4
    <2> QED BY <1>1, <1>2, <2>1, <2>2, Alone, Plain
<1> QED BY <1>6, <1>7, <1>8

\* What a check finds is what the next call relies on.
LEMMA CheckSafe ==
    ASSUME TypeInv, SafeInv, NEW p \in Passes,
           StillRegular(p) \/ FreshCancelled(p) \/ Refresh(p)
    PROVE  SafeInv'
<1>1. Step(p) /\ TypeInv' BY LookTypes, PassTypes
<1>2. /\ pc[p] \notin {"idle", "watch", "settle"}
      /\ UNCHANGED <<live, filled, position, size, phase, booked, lock>>
    BY DEF StillRegular, FreshCancelled, Refresh
<1>3. /\ pc \in [Passes -> Pcs] /\ seen \in [Passes -> Views] /\ PassSafe(p)
      /\ \A o \in Orders : live[o] # "wire"
    BY TypeParts DEF TypeInv, SafeInv, OrderSafe
<1>4. \A at : Goto(p, at) => pc'[p] = at /\ seen' = seen BY <1>3 DEF Goto
<1>5. Flag(p) => pc'[p] = "watch" BY <1>3 DEF Leave, Flag
<1>6. lock = p /\ position = "open" /\ \A q \in Passes \ {p} : pc[q] = "idle" BY <1>2, Alone
<1>7. CASE pc'[p] \notin Checked BY <1>1, <1>2, <1>6, <1>7, Plain
<1>8. ASSUME pc'[p] \in {"still", "claim", "reelect"}, NoneAlive, seen'[p].qty = Held,
             pc'[p] = "reelect" => Held > 0
      PROVE  SafeInv'
    <2>1. /\ OneExitOrder' /\ 0 <= Held' /\ Held' = Held /\ NoneAlive' = NoneAlive
          /\ \A o \in Orders : OrderSafe(o)'
        BY <1>1, <1>2, OrdersStay
    <2>2. PassSafe(p)' BY <1>2, <1>6, <1>8, <2>1 DEF PassSafe
    <2> QED BY <1>1, <1>2, <1>6, <2>1, <2>2, SafeFrame
<1>9. ASSUME Fresh({}) PROVE NoneAlive /\ Held > 0
    BY <1>3, <1>9 DEF Fresh, NoneAlive, MayFill, Working
<1>10. CASE StillRegular(p)
    <2>1. CASE pc'[p] = "claim"
        <3>1. NoneAlive /\ seen'[p].qty = Held
            BY <1>3, <1>4, <1>5, <1>10, <2>1 DEF StillRegular, PassSafe
        <3> QED BY <1>8, <2>1, <3>1
    <2>2. CASE pc'[p] # "claim" BY <1>4, <1>5, <1>7, <1>10, <2>2 DEF StillRegular, Checked
    <2> QED BY <2>1, <2>2
<1>11. CASE FreshCancelled(p) \/ Refresh(p)
    <2>1. CASE Flag(p) BY <1>5, <1>7, <2>1 DEF Checked
    <2>2. CASE ~Flag(p)
        <3>1. /\ Fresh({}) /\ seen' = [seen EXCEPT ![p].qty = Held]
              /\ pc'[p] \in {"still", "reelect"}
            BY <1>3, <1>11, <2>2 DEF FreshCancelled, Refresh
        <3>2. seen'[p].qty = Held BY <1>3, <3>1 DEF Views
        <3> QED BY <1>8, <1>9, <3>1, <3>2
    <2> QED BY <2>1, <2>2
<1> QED BY <1>10, <1>11

\* The ledger closes a position only when its fills account for all of it and the
\* broker is flat, and by then nothing is left to sell.
LEMMA BookingSafe ==
    ASSUME TypeInv, SafeInv, NEW p \in Passes, BookFill(p) \/ CheckFlat(p) \/ ClosePosition(p)
    PROVE  SafeInv'
<1>1. Step(p) /\ TypeInv' BY BookingTypes
<1>2. /\ pc[p] \in BookAt /\ UNCHANGED <<live, filled, size, lock>>
      /\ BookAt \cap {"idle", "watch", "settle"} = {}
    BY DEF BookFill, CheckFlat, ClosePosition, BookAt
<1>3. /\ pc \in [Passes -> Pcs] /\ PassSafe(p) /\ seen[p].back \in Books
      /\ seen[p].order \in Orders /\ Books \cap Checked = {} /\ phase \in [Intents -> Phases]
    BY <1>2, Points, TypeParts DEF TypeInv, SafeInv, Books, Checked, StateOK
<1>4. lock = p /\ position = "open" /\ \A q \in Passes \ {p} : pc[q] = "idle" BY <1>2, Alone
<1>5. \A at : Goto(p, at) => pc'[p] = at BY <1>3 DEF Goto
<1>6. /\ Leave(p) => pc'[p] = "watch"
      /\ Settling(p) => pc'[p] \in {"watch", "settle"}
      /\ BookedClosed(p) => pc'[p] \in {"watch", "settle"}
      /\ BookingFailed(p) => pc'[p] \in {"enforce", "unverified", "watch"}
    BY <1>3 DEF Leave, Goto, Flag, Settling, BookedClosed, BookingFailed
<1>7. {"enforce", "unverified", "watch", "settle"} \cap Checked = {} BY DEF Checked
<1>8. ASSUME phase' = phase, position' = "open", pc'[p] = "flat" \/ pc'[p] = "close", Residual' = 0,
             pc'[p] = "close" => Held = 0
      PROVE  SafeInv'
    <2>1. /\ OneExitOrder' /\ 0 <= Held' /\ Held' = Held /\ \A o \in Orders : OrderSafe(o)'
        BY <1>1, <1>2, <1>8, OrdersStay
    <2>2. PassSafe(p)' BY <1>2, <1>4, <1>8, <2>1 DEF PassSafe
    <2> QED BY <1>1, <1>4, <1>8, <2>1, <2>2, SafeFrame
<1>9. ASSUME phase' = phase, position' = position, pc'[p] \notin Checked PROVE SafeInv'
    BY <1>1, <1>2, <1>4, <1>9, Plain
<1>10. CASE BookFill(p)
    <2> DEFINE o == seen[p].order
               rest == Residual + booked[o] - seen[p].filled
    <2>1. phase' = phase /\ position' = position BY <1>10 DEF BookFill
    <2>2. CASE rest = 0 /\ booked' = [booked EXCEPT ![o] = seen[p].filled] /\ pc'[p] = "flat"
        <3>1. booked \in Quantities /\ booked' \in Quantities
            BY <1>1 DEF TypeInv, TypeOK, Quantities
        <3> HIDE DEF o
        <3>2. booked'[o] = seen[p].filled /\ \A j \in Orders \ {o} : booked[j] = booked'[j]
            BY <1>3, <2>2, <3>1 DEF Quantities, o
        <3>3. Total(booked') = Total(booked) - booked[o] + booked'[o]
            BY <1>3, <3>1, <3>2, TotalChange DEF o
        <3>4. Total(booked) \in Nat /\ booked[o] \in Nat /\ booked'[o] \in Nat
            BY <1>3, <3>1, TotalType, SizesAssumption DEF Quantities, o
        <3>5. Residual' = 0 BY <2>2, <3>2, <3>3, <3>4, After, SizesAssumption DEF Residual
        <3> QED BY <1>4, <1>8, <2>1, <2>2, <3>5
    <2>3. CASE pc'[p] \notin Checked BY <1>9, <2>1, <2>3
    <2> QED BY <1>3, <1>4, <1>5, <1>6, <1>7, <1>10, <2>2, <2>3 DEF BookFill
<1>11. CASE CheckFlat(p)
    <2>1. phase' = phase /\ position' = position /\ booked' = booked /\ Residual = 0
        BY <1>3, <1>11 DEF CheckFlat, PassSafe
    <2>2. CASE pc'[p] = "close" /\ Held = 0 BY <1>4, <1>8, <2>1, <2>2, After
    <2>3. CASE pc'[p] \notin Checked BY <1>9, <2>1, <2>3
    <2> QED BY <1>3, <1>5, <1>6, <1>7, <1>11, <2>2, <2>3 DEF CheckFlat
<1>12. CASE ClosePosition(p)
    <2>1. /\ Held = 0 /\ Residual = 0 /\ booked' = booked /\ pc'[p] \in {"watch", "settle"}
          /\ phase' = phase \/ (\E i : phase' = [phase EXCEPT ![i] = "complete"])
        BY <1>3, <1>4, <1>6, <1>12 DEF ClosePosition, PassSafe
    <2>2. \A i \in Intents : phase'[i] \in Unsent => phase[i] \in Unsent BY <1>3, <2>1 DEF Unsent
    <2>3. /\ OneExitOrder' /\ 0 <= Held' /\ Held' = Held /\ \A o \in Orders : OrderSafe(o)'
        BY <1>1, <1>2, <2>2, OrdersStay
    <2>4. PassSafe(p)' BY <1>2, <1>4, <2>1 DEF PassSafe
    <2> QED BY <1>1, <1>4, <2>1, <2>3, <2>4, After, SafeFrame
<1> QED BY <1>10, <1>11, <1>12

\* A request to cancel leaves the order alive until the broker has handled it.
LEMMA CancelSafe ==
    ASSUME TypeInv, SafeInv, NEW p \in Passes, Cancel(p)
    PROVE  SafeInv'
<1>1. Step(p) /\ TypeInv' BY PassTypes
<1>2. /\ pc[p] = "cancel" /\ UNCHANGED <<filled, position, size, phase, booked, lock>>
      /\ Goto(p, "verify")
    BY DEF Cancel
<1>3. pc \in [Passes -> Pcs] /\ live \in [Orders -> {"none", "wire", "live", "pending", "dead"}]
    BY TypeParts DEF TypeInv, StateOK
<1>4. lock = p /\ position = "open" /\ \A q \in Passes \ {p} : pc[q] = "idle" BY <1>2, Alone
<1>5. \A o \in Orders :
        MayFill(o)' = MayFill(o) /\ (live'[o] # live[o] => live[o] = "live" /\ live'[o] = "pending")
    BY <1>3 DEF Cancel, MayFill
<1>6. Held' = Held /\ \A o \in Orders : Size(o)' = Size(o) BY <1>2, After DEF Size
<1>7. OneExitOrder' BY <1>5 DEF SafeInv, OneExitOrder
<1>8. \A o \in Orders : OrderSafe(o)' BY <1>2, <1>5, <1>6 DEF SafeInv, OrderSafe
<1>9. pc'[p] = "verify" BY <1>2, <1>3 DEF Goto
<1>10. PassSafe(p)' BY <1>2, <1>4, <1>9 DEF PassSafe
<1> QED BY <1>1, <1>2, <1>4, <1>6, <1>7, <1>8, <1>10, SafeFrame DEF SafeInv

\* Writing an intent that was not sent touches no quantity of one that was.
LEMMA UnsentWrite ==
    ASSUME TypeInv, NEW i \in Intents, phase[i] \in Unsent, NEW to, NEW n,
           phase' = [phase EXCEPT ![i] = to], size' = [size EXCEPT ![i] = n]
    PROVE  /\ size'[i] = n
           /\ \A j \in Intents : size'[j] = size[j] \/ phase[j] \in Unsent
           /\ \A j \in Intents : phase'[j] \in Unsent => phase[j] \in Unsent
<1>1. phase \in [Intents -> Phases] /\ size \in [Intents -> 0..Qty]
    BY TypeParts DEF TypeInv, StateOK
<1> QED BY <1>1

\* An intent gets its quantity before it is sent, and is claimed for what is held.
LEMMA IntentSafe ==
    ASSUME TypeInv, SafeInv, NEW p \in Passes, Elect(p) \/ ClaimClose(p) \/ Reelect(p)
    PROVE  SafeInv'
<1>1. Step(p) /\ TypeInv' BY IntentTypes
<1>2. /\ pc[p] \notin {"idle", "watch", "settle"}
      /\ UNCHANGED <<live, filled, position, booked, lock>>
    BY DEF Elect, ClaimClose, Reelect
<1>3. /\ pc \in [Passes -> Pcs] /\ PassSafe(p)
      /\ row \in [Passes -> Closes \cup {NoOrder}] /\ oco \in [Passes -> Ocos \cup {NoOrder}]
      /\ Closes \subseteq Intents /\ Ocos \subseteq Intents
    BY TypeParts, OrderNames DEF TypeInv, SafeInv
<1>4. lock = p /\ position = "open" /\ \A q \in Passes \ {p} : pc[q] = "idle" BY <1>2, Alone
<1>5. CASE UNCHANGED <<phase, size>> /\ pc'[p] \notin Checked BY <1>1, <1>2, <1>4, <1>5, Plain
<1>6. CASE Elect(p)
    <2>1. CASE Leave(p) /\ UNCHANGED <<phase, size>>
        BY <1>3, <1>5, <2>1 DEF Leave, Checked
    <2>2. CASE ~(Leave(p) /\ UNCHANGED <<phase, size>>)
        <3>1. PICK i \in Closes : /\ phase[i] = "none" /\ phase' = [phase EXCEPT ![i] = "canceling"]
                                  /\ size' = [size EXCEPT ![i] = Residual]
                                  /\ pc' = [pc EXCEPT ![p] = "cancel"]
            BY <1>6, <2>2 DEF Elect
        <3>2. /\ \A j \in Intents : size'[j] = size[j] \/ phase[j] \in Unsent
              /\ \A j \in Intents : phase'[j] \in Unsent => phase[j] \in Unsent
            BY <1>3, <3>1, UnsentWrite DEF Unsent
        <3>3. pc'[p] \notin Checked BY <1>3, <3>1 DEF Checked
        <3> QED BY <1>1, <1>2, <1>4, <3>2, <3>3, Plain
    <2> QED BY <2>1, <2>2
<1>7. CASE ClaimClose(p)
    <2>1. CASE Flag(p) /\ UNCHANGED <<phase, size>>
        BY <1>3, <1>5, <2>1 DEF Flag, Leave, Checked
    <2>2. CASE ~(Flag(p) /\ UNCHANGED <<phase, size>>)
        <3> DEFINE i == row[p]
        <3>1. /\ pc[p] = "claim" /\ phase[i] = "canceling" /\ seen[p].qty \in 1..size[i]
              /\ phase' = [phase EXCEPT ![i] = "submitting"] /\ size' = [size EXCEPT ![i] = seen[p].qty]
              /\ pc' = [pc EXCEPT ![p] = "post"] /\ UNCHANGED <<row, oco, seen>>
            BY <1>7, <2>2 DEF ClaimClose, Goto
        <3>2. i \in Intents BY <1>3, <3>1, Points DEF RowAt
        <3>3. NoneAlive /\ seen[p].qty = Held BY <1>3, <3>1 DEF PassSafe
        <3>4. /\ size'[i] = seen[p].qty
              /\ \A j \in Intents : size'[j] = size[j] \/ phase[j] \in Unsent
              /\ \A j \in Intents : phase'[j] \in Unsent => phase[j] \in Unsent
            BY <3>1, <3>2, UnsentWrite DEF Unsent
        <3>5. /\ OneExitOrder' /\ 0 <= Held' /\ Held' = Held /\ NoneAlive' = NoneAlive
              /\ \A o \in Orders : OrderSafe(o)'
            BY <1>1, <1>2, <3>4, OrdersStay
        <3>6. size[i] \in Nat BY <3>2, SizesAssumption, TypeParts DEF TypeInv, StateOK
        <3>7. Held > 0 BY <3>1, <3>3, <3>6
        <3>8. pc'[p] = "post" /\ size'[row'[p]] = Held BY <1>3, <3>1, <3>3, <3>4
        <3>9. PassSafe(p)' BY <1>2, <1>4, <3>3, <3>5, <3>7, <3>8 DEF PassSafe
        <3> QED BY <1>1, <1>2, <1>4, <3>5, <3>9, SafeFrame
    <2> QED BY <2>1, <2>2
<1>8. CASE Reelect(p)
    <2>1. CASE pc' = [pc EXCEPT ![p] = "relookup"] /\ UNCHANGED <<phase, size>>
        BY <1>3, <1>5, <2>1 DEF Checked
    <2>2. CASE ~(pc' = [pc EXCEPT ![p] = "relookup"] /\ UNCHANGED <<phase, size>>)
        <3>1. PICK i \in Ocos : /\ phase[i] = "none" /\ phase' = [phase EXCEPT ![i] = "submitting"]
                                /\ size' = [size EXCEPT ![i] = seen[p].qty]
                                /\ oco' = [oco EXCEPT ![p] = i] /\ pc' = [pc EXCEPT ![p] = "repost"]
            BY <1>8, <2>2 DEF Reelect
        <3>2. NoneAlive /\ seen[p].qty = Held /\ Held > 0 BY <1>3, <1>8 DEF Reelect, PassSafe
        <3>3. /\ size'[i] = seen[p].qty
              /\ \A j \in Intents : size'[j] = size[j] \/ phase[j] \in Unsent
              /\ \A j \in Intents : phase'[j] \in Unsent => phase[j] \in Unsent
            BY <1>3, <3>1, UnsentWrite DEF Unsent
        <3>4. /\ OneExitOrder' /\ 0 <= Held' /\ Held' = Held /\ NoneAlive' = NoneAlive
              /\ \A o \in Orders : OrderSafe(o)'
            BY <1>1, <1>2, <3>3, OrdersStay
        <3>5. pc'[p] = "repost" /\ size'[oco'[p]] = Held BY <1>3, <3>1, <3>2, <3>3
        <3>6. PassSafe(p)' BY <1>2, <1>4, <3>2, <3>4, <3>5 DEF PassSafe
        <3> QED BY <1>1, <1>2, <1>4, <3>4, <3>6, SafeFrame
    <2> QED BY <2>1, <2>2
<1> QED BY <1>6, <1>7, <1>8

\* A POST of all that is held, with nothing alive, makes the only exit order.
LEMMA PostSafe ==
    ASSUME ~LateDelivery, TypeInv, SafeInv, SubmissionInv, NEW p \in Passes, PostClose(p) \/ PostOco(p)
    PROVE  SafeInv' /\ \A i \in Intents : posts'[i] # posts[i] => size[i] = Held /\ NoneAlive
<1>1. Step(p) /\ TypeInv' BY IntentTypes
<1>2. /\ pc[p] \notin {"idle", "watch", "settle"}
      /\ UNCHANGED <<filled, position, booked, lock, phase, size>>
    BY DEF PostClose, PostOco, Post
<1>3. /\ pc \in [Passes -> Pcs] /\ posts \in [Intents -> Nat] /\ PassSafe(p)
      /\ live \in [Orders -> {"none", "wire", "live", "pending", "dead"}]
    BY TypeParts DEF TypeInv, SafeInv, StateOK
<1>4. lock = p /\ position = "open" /\ \A q \in Passes \ {p} : pc[q] = "idle" BY <1>2, Alone
<1>5. PICK i : /\ Sends(p, i) /\ i \in Intents /\ size[i] = Held
               /\ Post(p, i, "confirm", "ask") \/ Post(p, i, "adopt", "reask")
    <2>1. CASE PostClose(p)
        <3>1. row[p] \in Intents /\ size[row[p]] = Held /\ Sends(p, row[p])
            BY <1>3, <2>1, Points, OrderNames DEF PostClose, PassSafe, RowAt, Sends
        <3> QED BY <2>1, <3>1 DEF PostClose
    <2>2. CASE PostOco(p)
        <3>1. oco[p] \in Intents /\ size[oco[p]] = Held /\ Sends(p, oco[p])
            BY <1>3, <2>2, Points, OrderNames DEF PostOco, PassSafe, OcoAt, Sends
        <3> QED BY <2>2, <3>1 DEF PostOco
    <2> QED BY <2>1, <2>2
<1>6. NoneAlive /\ Held > 0 BY <1>3 DEF PostClose, PostOco, PassSafe
<1>7. posts' = [posts EXCEPT ![i] = @ + 1] BY <1>5 DEF Post
<1>8. \A j \in Intents : posts'[j] # posts[j] => size[j] = Held /\ NoneAlive
    BY <1>3, <1>5, <1>6, <1>7
<1>9. pc'[p] \notin Checked /\ pc'[p] \notin {"idle", "watch", "settle"}
    BY <1>3, <1>5 DEF Post, Goto, Checked
<1>10. CASE live' = live BY <1>1, <1>2, <1>4, <1>8, <1>9, <1>10, Plain
<1>11. CASE live' # live
    <2>1. live[i] = "none" /\ live' = [live EXCEPT ![i] = "live"] BY <1>5, <1>11 DEF Post
    <2>2. \A o \in Orders : MayFill(o)' <=> o = i
        BY <1>3, <1>5, <1>6, <2>1, OrderNames DEF MayFill, NoneAlive
    <2>3. OneExitOrder' BY <2>2 DEF OneExitOrder
    <2>4. Held' = Held /\ \A o \in Orders : Size(o)' = Size(o) BY <1>2, After DEF Size
    <2>5. OrderSafe(i)'
        <3>1. i \in Orders /\ Size(i) = Held /\ filled[i] = 0 /\ Held \in Int
            BY <1>5, <2>1, Counted, OrderNames DEF SafeInv, OrderSafe
        <3>2. phase[i] \notin Unsent BY <1>5 DEF SubmissionInv
        <3>3. live'[i] = "live" BY <1>3, <2>1, <3>1
        <3> QED BY <1>2, <1>6, <2>4, <3>1, <3>2, <3>3 DEF OrderSafe
    <2>6. ASSUME NEW o \in Orders \ {i} PROVE OrderSafe(o)'
        <3>1. live'[o] = live[o] /\ OrderSafe(o) BY <1>3, <2>1, <2>6 DEF SafeInv
        <3> QED BY <1>2, <2>2, <2>4, <3>1 DEF OrderSafe
    <2>7. PassSafe(p)' BY <1>2, <1>4, <1>9 DEF PassSafe, Checked
    <2> QED BY <1>1, <1>2, <1>4, <1>8, <2>3, <2>4, <2>5, <2>6, <2>7, SafeFrame DEF SafeInv
<1> QED BY <1>10, <1>11

\* The broker sells only what an order still has, and that is held.
LEMMA BrokerSafe ==
    ASSUME TypeInv, SafeInv, TypeInv', Clock \/ (\E o \in Orders : Broker(o)) \/ UNCHANGED vars
    PROVE  SafeInv'
<1>1. /\ filled \in Quantities /\ live \in [Orders -> {"none", "wire", "live", "pending", "dead"}]
      /\ UNCHANGED <<ledgerVars, posts, passVars, lock, crashes>>
    BY TypeParts DEF TypeInv, StateOK, Clock, Broker, Fill, Expire, Arrive, vars
<1>2. /\ \A o \in Orders : OrderSafe(o) /\ Size(o)' = Size(o)
      /\ Residual' = Residual /\ OneExitOrder /\ 0 <= Held
      /\ \A p \in Passes : PassSafe(p)
    BY <1>1, After DEF SafeInv, Size
<1>3. ASSUME filled' = filled,
             \A o \in Orders : live'[o] = live[o] \/ (Working(o) /\ live'[o] = "dead")
      PROVE  SafeInv'
    <2>1. Held' = Held BY <1>3, After
    <2>2. \A o \in Orders : MayFill(o)' => MayFill(o) BY <1>3 DEF MayFill
    <2>3. NoneAlive => NoneAlive' BY <2>2 DEF NoneAlive
    <2>4. OneExitOrder' BY <1>2, <2>2 DEF OneExitOrder
    <2>5. \A o \in Orders : OrderSafe(o)' BY <1>1, <1>2, <1>3, <2>1, <2>2 DEF OrderSafe, Working
    <2>6. \A p \in Passes : PassSafe(p)' BY <1>1, <1>2, <2>1, <2>3 DEF PassSafe
    <2> QED BY <1>1, <1>2, <2>1, <2>4, <2>5, <2>6 DEF SafeInv
<1>4. CASE Clock \/ UNCHANGED vars
    <2>1. UNCHANGED <<live, filled>> BY <1>4 DEF Clock, vars
    <2> QED BY <1>3, <2>1
<1>5. ASSUME NEW o \in Orders, Expire(o) \/ Arrive(o) PROVE SafeInv'
    <2>1. ~Arrive(o) BY <1>2 DEF Arrive, OrderSafe
    <2> QED BY <1>1, <1>3, <1>5, <2>1 DEF Expire
<1>6. ASSUME NEW o \in Orders, Fill(o) PROVE SafeInv'
    <2>1. /\ MayFill(o) /\ filled[o] < Size(o) /\ Size(o) - filled[o] <= Held
          /\ \A q \in Orders \ {o} : ~MayFill(q)
        BY <1>2, <1>6 DEF Fill, Working, MayFill, OrderSafe, OneExitOrder
    <2>2. /\ filled[o] \in 0..Qty /\ Size(o) \in 0..Qty /\ Held \in Int
          /\ filled'[o] = filled[o] + 1 /\ \A q \in Orders \ {o} : filled'[q] = filled[q]
        BY <1>1, <1>6, Counted DEF Fill, Quantities
    <2>3. filled' \in Quantities BY DEF TypeInv, TypeOK, Quantities
    <2>4. Total(filled') = Total(filled) - filled[o] + filled'[o] BY <1>1, <2>2, <2>3, TotalChange
    <2>5. Total(filled) \in Nat BY <1>1, TotalType
    <2>6. Held' = Held - 1 /\ 0 <= Held' /\ Held > 0
        BY <2>1, <2>2, <2>4, <2>5, After, SizesAssumption DEF Held
    <2>7. /\ \A q \in Orders \ {o} : live'[q] = live[q]
          /\ live'[o] = IF filled[o] + 1 = Size(o) THEN "dead" ELSE live[o]
        BY <1>1, <1>6 DEF Fill
    <2>8. OneExitOrder' BY <2>1, <2>7 DEF OneExitOrder, MayFill
    <2>9. OrderSafe(o)'
        <3>1. OrderSafe(o) /\ live[o] # "none" BY <1>2, <2>1 DEF MayFill
        <3> QED BY <1>1, <1>2, <2>1, <2>2, <2>6, <2>7, <3>1 DEF OrderSafe, MayFill
    <2>10. ASSUME NEW q \in Orders \ {o} PROVE OrderSafe(q)'
        BY <1>1, <1>2, <2>1, <2>2, <2>7 DEF OrderSafe, MayFill
    <2>11. ~NoneAlive BY <2>1 DEF NoneAlive
    <2>12. \A p \in Passes : PassSafe(p)'
        BY <1>1, <1>2, <2>6, <2>11 DEF PassSafe
    <2>13. position' # "closed" BY <1>1, <2>6 DEF SafeInv
    <2> QED BY <2>6, <2>8, <2>9, <2>10, <2>12, <2>13 DEF SafeInv
<1> QED BY <1>4, <1>5, <1>6 DEF Broker

\* At first the bracket protects all of the position.
LEMMA InitSafe == Init => SafeInv
<1> SUFFICES ASSUME Init PROVE SafeInv OBVIOUS
<1>1. filled \in Quantities /\ Total(filled) = 0
    <2>1. filled \in Quantities BY SizesAssumption DEF Init, Quantities
    <2> QED BY <2>1, TotalNothing DEF Init
<1>2. Held = Qty /\ Qty > 0 /\ position = "open" BY <1>1, SizesAssumption DEF Held, Init
<1>3. \A o \in Orders : MayFill(o) => o = Bracket BY DEF Init, MayFill
<1>4. \A o \in Orders : OrderSafe(o)
    BY <1>2, <1>3, OrderNames, SizesAssumption DEF Init, OrderSafe, Size, MayFill
<1>5. \A p \in Passes : PassSafe(p) BY <1>2 DEF Init, PassSafe
<1> QED BY <1>2, <1>3, <1>4, <1>5, SizesAssumption DEF SafeInv, OneExitOrder

\* Under the lock, and with no POST on its way, every step is safe, and makes a
\* POST only for what is held and with no exit order alive.
LEMMA StepSafe ==
    ASSUME Ownership, ~LateDelivery, TypeInv, SafeInv, SubmissionInv, [Next]_vars
    PROVE  /\ SafeInv'
           /\ \A i \in Intents : posts'[i] # posts[i] => size[i] = Held /\ NoneAlive
<1>1. ASSUME NEW p \in Passes, Start(p) \/ Work(p) \/ Crash(p)
      PROVE  SafeInv' /\ \A i \in Intents : posts'[i] # posts[i] => size[i] = Held /\ NoneAlive
    <2>1. CASE PostClose(p) \/ PostOco(p) BY <2>1, PostSafe
    <2>2. CASE ~(PostClose(p) \/ PostOco(p))
        <3>1. SafeInv'
            BY <1>1, <2>2, LookSafe, PhaseSafe, PassSafety, CheckSafe, BookingSafe, CancelSafe, IntentSafe
            DEF Work
        <3>2. CASE Start(p) \/ Crash(p) BY <3>1, <3>2 DEF Start, Crash
        <3>3. CASE Work(p)
            <4>1. posts' = posts
                BY <2>2, <3>3
                DEF Work, Reconcile, BookFill, CheckFlat, ClosePosition, Settle, Watchdog, Enforce, Lookup,
                    Absent, Observe, Observed, CheckSession, ReadProtection, FreshProtected, Elect, Cancel,
                    Verify, Verified, Unverified, FreshCancelled, StillRegular, ClaimClose, Ask, Confirm,
                    Poll, Recover, Relookup, Reread, Refresh, Reelect, AskOco, Adopt, CheckOco, Protect
            <4> QED BY <3>1, <4>1
        <3> QED BY <1>1, <3>2, <3>3
    <2> QED BY <2>1, <2>2
<1>2. CASE Clock \/ (\E o \in Orders : Broker(o)) \/ UNCHANGED vars
    <2>1. TypeInv' BY StepTypes
    <2>2. posts' = posts BY <1>2 DEF Clock, Broker, Fill, Expire, Arrive, vars
    <2> QED BY <1>2, <2>1, <2>2, BrokerSafe
<1> QED BY <1>1, <1>2 DEF Next

----------------------------------------------------------------------------
(* What is on offer, and the theorems.                                      *)

\* What is on offer is counted from the orders after a step as before it.
LEMMA OfferAfter ==
    /\ Total(Left)' = Total(Left') /\ Total(booked)' = Total(booked')
    /\ booked' = booked => Total(booked') = Total(booked)
BY DEF Total, SharesIn, Left

\* What is on offer is what the one live order has left.
OfferRight ==
    /\ \A o \in Orders : MayFill(o) => Total(Left) = Size(o) - filled[o] /\ Total(Left) > 0
    /\ NoneAlive => Total(Left) = 0

\* That one order is all of what is on offer.
LEMMA OfferIs == TypeInv /\ SafeInv => OfferRight
<1> SUFFICES ASSUME TypeInv, SafeInv PROVE OfferRight OBVIOUS
<1>1. /\ OneExitOrder
      /\ \A o \in Orders : /\ Size(o) \in 0..Qty /\ filled[o] \in 0..Qty
                           /\ MayFill(o) => filled[o] < Size(o)
    BY Counted DEF SafeInv, OrderSafe
<1>2. Left \in Quantities BY <1>1, SizesAssumption DEF Left, Quantities
<1>3. ASSUME NEW o \in Orders, MayFill(o) PROVE Total(Left) = Size(o) - filled[o] /\ Total(Left) > 0
    <2>1. \A q \in Orders \ {o} : Left[q] = 0 BY <1>1, <1>3 DEF OneExitOrder, Left
    <2>2. Total(Left) = Left[o] BY <1>2, <2>1, TotalSingle
    <2>3. Left[o] = Size(o) - filled[o] BY <1>3 DEF Left
    <2> QED BY <1>1, <1>3, <2>2, <2>3
<1>4. ASSUME NoneAlive PROVE Total(Left) = 0
    <2>1. \A o \in Orders : Left[o] = 0 BY <1>4 DEF NoneAlive, Left
    <2> QED BY <1>2, <2>1, TotalNothing
<1> QED BY <1>3, <1>4 DEF OfferRight

\* For any number of passes under the lock, any quantity and any number of deaths,
\* if no POST arrives after a lookup that missed it.
THEOREM SafetyHolds == ASSUME Ownership, ~LateDelivery PROVE Spec => [](TypeInv /\ SafeInv /\ SubmissionInv)
<1>1. /\ Init => TypeInv /\ SafeInv /\ SubmissionInv
      /\ TypeInv /\ SafeInv /\ SubmissionInv /\ [Next]_vars => TypeInv' /\ SafeInv' /\ SubmissionInv'
    BY InitTypes, InitSafe, InitSubmission, StepTypes, StepSafe, StepSubmission
<1> QED BY <1>1, PTL DEF Spec

\* An unknown broker view never authorizes a second order: no two exit orders of
\* the position are ever alive.
THEOREM OneAlive == ASSUME Ownership, ~LateDelivery PROVE Spec => []OneExitOrder
<1>1. SafeInv => OneExitOrder BY DEF SafeInv
<1> QED BY <1>1, SafetyHolds, PTL

\* Whatever fills, the exit orders cannot sell more than the position holds.
THEOREM SoldIsHeld == ASSUME Ownership, ~LateDelivery PROVE Spec => []NeverOversold
<1>1. ASSUME TypeInv, SafeInv PROVE NeverOversold
    <2>1. OfferRight /\ Held \in Int /\ 0 <= Held BY <1>1, OfferIs, Counted DEF SafeInv
    <2>2. \A o \in Orders : MayFill(o) => Size(o) - filled[o] <= Held BY <1>1 DEF SafeInv, OrderSafe
    <2>3. Total(Left) = 0 \/ \E o \in Orders : Total(Left) = Size(o) - filled[o] /\ MayFill(o)
        BY <2>1 DEF OfferRight, NoneAlive
    <2>4. Total(Left) \in Int /\ Total(Left) <= Held
        BY <1>1, <2>1, <2>2, <2>3, Counted
    <2>5. Total(filled) \in Nat BY <1>1, TypeParts, TotalType DEF TypeInv
    <2> QED BY <2>4, <2>5, SizesAssumption DEF NeverOversold, Held
<1> QED BY <1>1, SafetyHolds, PTL

\* The ledger books no exit fill that the broker does not have, and a closed
\* position is flat with no exit order left to fill.
THEOREM FlatWhenClosed == ASSUME Ownership, ~LateDelivery PROVE Spec => []ClosedIsFlat
<1>1. ASSUME TypeInv, SafeInv PROVE ClosedIsFlat
    <2>1. \A o \in Orders : booked[o] <= filled[o] BY <1>1 DEF TypeInv
    <2>2. ASSUME position = "closed" PROVE Held = 0 /\ Residual = 0 /\ \A o \in Orders : ~MayFill(o)
        BY <1>1, <2>2, Counted DEF SafeInv, OrderSafe
    <2> QED BY <2>1, <2>2 DEF ClosedIsFlat
<1> QED BY <1>1, SafetyHolds, PTL

\* A submission is made for exactly what the broker still holds and with no exit
\* order alive, although the checks and the POST are separate calls.
THEOREM Backed == ASSUME Ownership, ~LateDelivery PROVE Spec => PostsAreBacked
<1>1. ASSUME TypeInv, SafeInv, SubmissionInv, [Next]_vars
      PROVE  [\A i \in Intents : posts'[i] # posts[i] =>
                 size[i] = Held /\ \A o \in Orders : ~MayFill(o)]_vars
    BY <1>1, StepSafe DEF NoneAlive
<1> QED BY <1>1, SafetyHolds, PTL DEF Spec, PostsAreBacked

----------------------------------------------------------------------------
(* The promise of ExitBudget, step by step.                                 *)

\* Less for each order is less in total.
LEMMA TotalMonotone ==
    ASSUME NEW f \in Quantities, NEW g \in Quantities, \A o \in Orders : f[o] <= g[o]
    PROVE  Total(f) <= Total(g)
<1>1. \A o \in Orders : f[o] \in Nat /\ g[o] \in Nat BY SizesAssumption DEF Quantities
<1>2. \A o \in Orders : \A n \in 1..f[o] : n \in 1..g[o] BY <1>1
<1>3. SharesIn(f) \subseteq SharesIn(g) BY <1>2, ShareOf
<1> QED BY <1>3, TotalType, FS_Subset DEF Total

\* So it is after a step.
LEMMA OfferBecomes == TypeInv' /\ SafeInv' => OfferRight'
BY OfferIs, PTL

\* Nothing happens to the offer unless an order is made, fills or ends.
LEMMA OfferStays ==
    ASSUME TypeInv, SafeInv, TypeInv', SafeInv', UNCHANGED filled,
           \A o \in Orders : MayFill(o)' = MayFill(o),
           \A i \in Intents : size'[i] = size[i] \/ phase[i] \in Unsent
    PROVE  Held' = Held /\ Total(Left)' = Total(Left)
<1>1. OfferRight /\ OfferRight' BY OfferIs, OfferBecomes
<1>2. CASE NoneAlive
    <2>1. NoneAlive' BY <1>2 DEF NoneAlive
    <2> QED BY <1>1, <1>2, <2>1, After DEF OfferRight
<1>3. CASE ~NoneAlive
    <2>1. PICK o \in Orders : MayFill(o) /\ MayFill(o)' BY <1>3 DEF NoneAlive
    <2>2. o \in Intents => phase[o] \notin Unsent BY <2>1 DEF SafeInv, OrderSafe, MayFill
    <2>3. Size(o)' = Size(o) BY <2>2, OrderNames DEF Size
    <2> QED BY <1>1, <2>1, <2>3, After DEF OfferRight
<1> QED BY <1>2, <1>3

\* The quantity of an intent is written only before it is sent.
LEMMA SizesStay ==
    ASSUME TypeInv, NEW p \in Passes, Work(p)
    PROVE  \A i \in Intents : size'[i] = size[i] \/ phase[i] \in Unsent
<1>1. size \in [Intents -> 0..Qty] BY TypeParts DEF TypeInv, StateOK
<1>2. CASE Elect(p) BY <1>1, <1>2 DEF Elect, Unsent
<1>3. CASE ClaimClose(p) BY <1>1, <1>3 DEF ClaimClose, Unsent
<1>4. CASE Reelect(p) BY <1>1, <1>4 DEF Reelect, Unsent
<1>5. CASE ~(Elect(p) \/ ClaimClose(p) \/ Reelect(p))
    <2>1. size' = size
        BY <1>5
        DEF Work, Reconcile, BookFill, CheckFlat, ClosePosition, Settle, Watchdog, Enforce, Lookup,
            Absent, Observe, Observed, CheckSession, ReadProtection, FreshProtected, Cancel, Verify,
            Verified, Unverified, FreshCancelled, StillRegular, PostClose, PostOco, Post, Ask, Confirm,
            Poll, Recover, Relookup, Reread, Refresh, AskOco, Adopt, CheckOco, Protect
    <2> QED BY <2>1
<1> QED BY <1>2, <1>3, <1>4, <1>5

\* Most of the calls of a pass leave the orders, the books and the close alone.
LEMMA CallsStay ==
    ASSUME NEW p \in Passes, Work(p),
           ~(BookFill(p) \/ ClosePosition(p) \/ PostClose(p) \/ PostOco(p) \/ Cancel(p))
    PROVE  UNCHANGED <<live, filled, booked, position>>
BY DEF Work, Reconcile, CheckFlat, Settle, Watchdog, Enforce, Lookup, Absent, Observe, Observed,
       CheckSession, ReadProtection, FreshProtected, Elect, Verify, Verified, Unverified, FreshCancelled,
       StillRegular, ClaimClose, Ask, Confirm, Poll, Recover, Relookup, Reread, Refresh, Reelect,
       AskOco, Adopt, CheckOco, Protect

\* A booking is of sales that were not booked before, and of no others.
LEMMA BookingImplements ==
    ASSUME TypeInv, SafeInv, TypeInv', SafeInv', NEW p \in Passes, BookFill(p)
    PROVE  [Budget!Next]_(Budget!vars)
<1> DEFINE o == seen[p].order
<1>1. UNCHANGED <<live, filled, size, phase, position>> BY DEF BookFill
<1>2. Held' = Held /\ Total(Left)' = Total(Left) BY <1>1, OfferStays DEF MayFill
<1>3. CASE booked' = booked
    BY <1>1, <1>2, <1>3, OfferAfter DEF Budget!vars
<1>4. CASE booked' # booked
    <2>1. /\ position = "open" /\ seen[p].filled >= booked[o]
          /\ booked' = [booked EXCEPT ![o] = seen[p].filled]
        BY <1>4 DEF BookFill
    <2>2. pc[p] \in BookAt BY DEF BookFill, BookAt
    <2>3. booked \in Quantities /\ booked' \in Quantities /\ filled' \in Quantities /\ o \in Orders
        BY <2>2, Points DEF TypeInv, TypeOK, Quantities
    <2> HIDE DEF o
    <2>4. booked'[o] = seen[p].filled /\ \A j \in Orders \ {o} : booked[j] = booked'[j]
        BY <2>1, <2>3 DEF Quantities
    <2>5. Total(booked') = Total(booked) - booked[o] + booked'[o] BY <2>3, <2>4, TotalChange
    <2>6. booked'[o] # booked[o] BY <1>4, <2>1, <2>3, <2>4 DEF Quantities
    <2>7. Total(booked) \in Nat /\ booked[o] \in Nat /\ booked'[o] \in Nat
        BY <2>3, TotalType, SizesAssumption DEF Quantities
    <2>8. Total(booked') \in Nat /\ Total(booked') >= Total(booked) + 1
        BY <2>1, <2>4, <2>5, <2>6, <2>7
    <2>9. Total(booked') <= Total(filled')
        BY <2>3, TotalMonotone DEF TypeInv
    <2>10. Total(filled') = Qty - Held /\ Held \in Int
        <3>1. Total(filled') \in Nat BY <2>3, TotalType
        <3> QED BY <1>2, <3>1, After, SizesAssumption
    <2>11. Total(booked)' \in (Total(booked) + 1)..(Qty - Held)
        BY <2>7, <2>8, <2>9, <2>10, OfferAfter, SizesAssumption
    <2> QED BY <1>1, <1>2, <2>1, <2>11 DEF Budget!Next, Budget!Book
<1> QED BY <1>3, <1>4

\* A submission that the broker takes offers what is held, and nothing was on offer.
LEMMA PostImplements ==
    ASSUME ~LateDelivery, TypeInv, SafeInv, SubmissionInv, TypeInv', SafeInv', NEW p \in Passes,
           PostClose(p) \/ PostOco(p)
    PROVE  [Budget!Next]_(Budget!vars)
<1>1. /\ UNCHANGED <<filled, booked, position, size, phase>>
      /\ pc[p] \in {"post", "repost"}
    BY DEF PostClose, PostOco, Post
<1>2. CASE live' = live
    <2>1. Held' = Held /\ Total(Left)' = Total(Left) BY <1>1, <1>2, OfferStays DEF MayFill
    <2> QED BY <1>1, <2>1, OfferAfter DEF Budget!vars
<1>3. CASE live' # live
    <2>1. PICK i : /\ live[i] = "none" /\ live' = [live EXCEPT ![i] = "live"]
                   /\ (i = row[p] /\ pc[p] = "post") \/ (i = oco[p] /\ pc[p] = "repost")
        BY <1>3 DEF PostClose, PostOco, Post
    <2>2. PassSafe(p) BY DEF SafeInv
    <2>3. i \in Intents /\ i \in Orders /\ size[i] = Held
        BY <1>1, <2>1, <2>2, Points, OrderNames DEF PassSafe, RowAt, OcoAt
    <2>4. NoneAlive /\ Held > 0 /\ position = "open" BY <1>1, <2>2, Alone DEF PassSafe
    <2>5. live'[i] = "live" BY <2>1, <2>3, TypeParts DEF TypeInv, StateOK
    <2>6. MayFill(i)' BY <2>5 DEF MayFill
    <2>7. Size(i)' = Held /\ filled'[i] = 0 BY <1>1, <2>1, <2>3, OrderNames DEF Size, SafeInv, OrderSafe
    <2>8. Held \in Int BY Counted
    <2>9. Total(Left) = 0 /\ Total(Left') = Held /\ Held' = Held
        BY <1>1, <2>3, <2>4, <2>6, <2>7, <2>8, OfferIs, OfferBecomes, OfferAfter, After DEF OfferRight
    <2> QED BY <1>1, <2>4, <2>9, OfferAfter DEF Budget!Next, Budget!Offer
<1> QED BY <1>2, <1>3

\* A position is closed when all of it is sold and booked and nothing is on offer.
LEMMA CloseImplements ==
    ASSUME TypeInv, SafeInv, TypeInv', SafeInv', NEW p \in Passes, ClosePosition(p)
    PROVE  [Budget!Next]_(Budget!vars)
<1>1. UNCHANGED <<live, filled, booked, size>> /\ pc[p] = "close" BY DEF ClosePosition
<1>2. position = "open" /\ Held = 0 /\ Residual = 0
    BY <1>1, Alone DEF SafeInv, PassSafe
<1>3. NoneAlive
    BY <1>2, Counted DEF SafeInv, OrderSafe, NoneAlive
<1>4. NoneAlive' BY <1>1, <1>3 DEF NoneAlive, MayFill
<1>5. Total(Left) = 0 /\ Total(Left)' = 0 BY <1>3, <1>4, OfferIs, OfferBecomes DEF OfferRight
<1>6. Held' = Held /\ Total(booked)' = Total(booked) BY <1>1, After, OfferAfter
<1>7. Total(booked) = Qty
    <2>1. Total(booked) \in Nat BY TypeParts, TotalType DEF TypeInv
    <2> QED BY <1>2, <2>1, SizesAssumption DEF Residual
<1>8. position' = "closed" BY <1>2 DEF ClosePosition
<1> QED BY <1>2, <1>5, <1>6, <1>7, <1>8 DEF Budget!Next, Budget!Close

\* A request to cancel takes nothing back before the broker has done it.
LEMMA CancelImplements ==
    ASSUME TypeInv, SafeInv, TypeInv', SafeInv', NEW p \in Passes, Cancel(p)
    PROVE  [Budget!Next]_(Budget!vars)
<1>1. UNCHANGED <<filled, booked, position, size>> BY DEF Cancel
<1>2. \A o \in Orders : MayFill(o)' = MayFill(o)
    <2>1. live \in [Orders -> {"none", "wire", "live", "pending", "dead"}]
        BY TypeParts DEF TypeInv, StateOK
    <2> QED BY <2>1 DEF Cancel, MayFill
<1>3. Held' = Held /\ Total(Left)' = Total(Left) BY <1>1, <1>2, OfferStays
<1> QED BY <1>1, <1>3, OfferAfter DEF Budget!vars

\* Every step of a pass keeps the promise.
LEMMA PassImplements ==
    ASSUME ~LateDelivery, TypeInv, SafeInv, SubmissionInv, TypeInv', SafeInv', NEW p \in Passes,
           Start(p) \/ Work(p) \/ Crash(p)
    PROVE  [Budget!Next]_(Budget!vars)
<1>1. CASE BookFill(p) \/ ClosePosition(p) \/ PostClose(p) \/ PostOco(p) \/ Cancel(p)
    BY <1>1, BookingImplements, CloseImplements, PostImplements, CancelImplements
<1>2. CASE Start(p) \/ Crash(p)
              \/ (Work(p) /\ ~(BookFill(p) \/ ClosePosition(p) \/ PostClose(p) \/ PostOco(p) \/ Cancel(p)))
    <2>1. UNCHANGED <<live, filled, booked, position>>
        BY <1>2, CallsStay DEF Start, Crash
    <2>2. \A i \in Intents : size'[i] = size[i] \/ phase[i] \in Unsent
        BY <1>2, SizesStay DEF Start, Crash
    <2>3. Held' = Held /\ Total(Left)' = Total(Left) BY <2>1, <2>2, OfferStays DEF MayFill
    <2> QED BY <2>1, <2>3, OfferAfter DEF Budget!vars
<1> QED BY <1>1, <1>2

\* A fill sells a share that was on offer; an order that ends takes back the rest.
LEMMA BrokerImplements ==
    ASSUME TypeInv, SafeInv, TypeInv', SafeInv', Clock \/ (\E o \in Orders : Broker(o)) \/ UNCHANGED vars
    PROVE  [Budget!Next]_(Budget!vars)
<1>1. /\ UNCHANGED <<booked, position, size, phase>>
      /\ live \in [Orders -> {"none", "wire", "live", "pending", "dead"}]
      /\ filled \in Quantities /\ filled' \in Quantities
    BY TypeParts DEF TypeInv, StateOK, TypeOK, Quantities, Clock, Broker, Fill, Expire, Arrive, vars
<1>2. Total(booked)' = Total(booked) /\ \A o \in Orders : Size(o)' = Size(o)
    BY <1>1, OfferAfter DEF Size
<1>3. CASE Clock \/ UNCHANGED vars
    <2>1. UNCHANGED <<live, filled>> BY <1>3 DEF Clock, vars
    <2>2. Held' = Held /\ Total(Left)' = Total(Left) BY <1>1, <2>1, OfferStays DEF MayFill
    <2> QED BY <1>1, <1>2, <2>2 DEF Budget!vars
<1>4. ASSUME NEW o \in Orders, Expire(o) \/ Arrive(o) PROVE Budget!Withdraw
    <2>1. ~Arrive(o) BY DEF Arrive, SafeInv, OrderSafe
    <2>2. /\ MayFill(o) /\ filled' = filled
          /\ \A q \in Orders : live'[q] = IF q = o THEN "dead" ELSE live[q]
        BY <1>1, <1>4, <2>1 DEF Expire, Working, MayFill
    <2>3. NoneAlive' BY <2>2 DEF NoneAlive, MayFill, SafeInv, OneExitOrder
    <2>4. Total(Left) > 0 /\ Total(Left)' = 0 BY <2>2, <2>3, OfferIs, OfferBecomes DEF OfferRight
    <2>5. Held' = Held BY <2>2, After
    <2> QED BY <1>1, <1>2, <2>4, <2>5 DEF Budget!Withdraw
<1>5. ASSUME NEW o \in Orders, Fill(o) PROVE Budget!Sell
    <2>1. MayFill(o) /\ Total(Left) = Size(o) - filled[o] /\ Total(Left) > 0
        BY <1>5, OfferIs DEF Fill, Working, MayFill, OfferRight
    <2>2. /\ filled[o] \in 0..Qty /\ Size(o) \in 0..Qty
          /\ filled'[o] = filled[o] + 1 /\ \A q \in Orders \ {o} : filled'[q] = filled[q]
        BY <1>1, <1>5, Counted DEF Fill, Quantities
    <2>3. Held' = Held - 1
        <3>1. Total(filled') = Total(filled) - filled[o] + filled'[o] BY <1>1, <2>2, TotalChange
        <3>2. Total(filled) \in Nat BY <1>1, TotalType
        <3> QED BY <2>2, <3>1, <3>2, After, SizesAssumption DEF Held
    <2>4. \A q \in Orders : live'[q] = IF q = o /\ filled[o] + 1 = Size(o) THEN "dead" ELSE live[q]
        BY <1>1, <1>5 DEF Fill
    <2>5. Total(Left)' = Total(Left) - 1
        <3>1. CASE filled[o] + 1 = Size(o)
            <4>1. NoneAlive' BY <2>1, <2>4, <3>1 DEF NoneAlive, MayFill, SafeInv, OneExitOrder
            <4> QED BY <2>1, <2>2, <3>1, <4>1, OfferBecomes DEF OfferRight
        <3>2. CASE filled[o] + 1 # Size(o)
            <4>1. MayFill(o)' BY <2>1, <2>4, <3>2 DEF MayFill
            <4> QED BY <1>2, <2>1, <2>2, <4>1, OfferBecomes DEF OfferRight
        <3> QED BY <3>1, <3>2
    <2> QED BY <1>1, <1>2, <2>1, <2>3, <2>5 DEF Budget!Sell
<1> QED BY <1>3, <1>4, <1>5 DEF Broker, Budget!Next

\* At first the bracket offers all of the position.
LEMMA InitImplements == Init => Budget!Init
<1> SUFFICES ASSUME Init PROVE Budget!Init OBVIOUS
<1>1. TypeInv /\ SafeInv BY InitTypes, InitSafe
<1>2. booked \in Quantities /\ filled \in Quantities BY <1>1, TypeParts DEF TypeInv
<1>3. Total(booked) = 0 /\ Total(filled) = 0 BY <1>2, TotalNothing DEF Init
<1>4. MayFill(Bracket) /\ Size(Bracket) = Qty /\ filled[Bracket] = 0 /\ Bracket \in Orders
    BY OrderNames DEF Init, MayFill, Size
<1>5. Total(Left) = Qty BY <1>1, <1>4, OfferIs, SizesAssumption DEF OfferRight
<1> QED BY <1>3, <1>5, SizesAssumption DEF Budget!Init, Held, Init

\* The monitor's exits implement ExitBudget: under the lock, and with POSTs that do
\* not arrive late, what is held is offered once at a time, a sale is booked once,
\* and the position is closed after all of it, across crashes at every call.
THEOREM Implementation == ASSUME Ownership, ~LateDelivery PROVE Spec => ImplementsExitBudget
<1>1. ASSUME TypeInv, SafeInv, SubmissionInv, [Next]_vars
      PROVE  [Budget!Next]_(Budget!vars)
    <2>1. TypeInv' /\ SafeInv' BY <1>1, StepTypes, StepSafe
    <2>2. ASSUME NEW p \in Passes, Start(p) \/ Work(p) \/ Crash(p)
          PROVE  [Budget!Next]_(Budget!vars)
        BY <1>1, <2>1, <2>2, PassImplements
    <2>3. CASE Clock \/ (\E o \in Orders : Broker(o)) \/ UNCHANGED vars
        BY <1>1, <2>1, <2>3, BrokerImplements
    <2> QED BY <1>1, <2>2, <2>3 DEF Next
<1> QED
    BY <1>1, InitImplements, SafetyHolds, PTL DEF Spec, ImplementsExitBudget, Budget!Spec
=============================================================================
